----------------------------- MODULE MCStartup -----------------------------
(***************************************************************************)
(* Constants of the TLC run of Startup.  An int has 25 bits here and a     *)
(* second four units, which leaves room for every default, lets hours,     *)
(* minutes and seconds overflow, and lets their products fit TLC's ints.   *)
(***************************************************************************)
EXTENDS Startup, TLC

MCHalf   == 2^24
MCSecond == 4
MCMinute == 60 * MCSecond
MCHour   == 60 * MCMinute

NoLines == [o \in Options |-> Unset]

Only(o, text) == IF text = Unset THEN NoLines ELSE [NoLines EXCEPT ![o] = text]

Flag(o, text) == IF text = Unset THEN <<>> ELSE <<[option |-> o, text |-> text]>>

Serving(flags) ==
  [lines |-> NoLines, whole |-> TRUE, environ |-> NoLines, command |-> "serve",
   help |-> FALSE, version |-> FALSE, flags |-> flags]

\* One option of each type from all three sources, every text in each.
SomeTexts == {Unset, Empty, Blank, Word, -1, 0, 1, 65535, 65536, MCHalf}

FromAllSources ==
  {[Serving(Flag(o, flag)) EXCEPT !.lines = Only(o, line), !.whole = whole,
                                  !.environ = Only(o, variable)] :
     o \in {"HOST", "PORT", "FLOOD_ENABLED"}, whole \in BOOLEAN,
     line \in SomeTexts, variable \in SomeTexts, flag \in SomeTexts}

\* Every command line of a command, help, version, and a flag given twice.
CommandLines ==
  {[Serving(Flag("PORT", first) \o Flag("PORT", second))
      EXCEPT !.command = command, !.help = help, !.version = version] :
     command \in {"none", "serve", "version", "unknown"}, help \in BOOLEAN,
     version \in BOOLEAN, first \in {Unset, Word, 1, 2}, second \in {Unset, Word, 1, 2}}

\* Numbers of units around 1 and around those that wrap to a negative, to a
\* small positive number or to zero.
Around(unit) ==
  {-1, 0, 1, MCHalf \div unit, (MCHalf \div unit) + 1, (2 * MCHalf) \div unit,
   ((2 * MCHalf) \div unit) + 1}

Durations ==
  {Serving(Flag("FLOOD_ENABLED", enabled) \o Flag(d[1], n)) :
     enabled \in {0, 1},
     <<d, n>> \in UNION {{e} \X Around(e[2]) :
       e \in {<<"WHITELIST_PERIOD_HOURS", MCHour>>, <<"FLOOD_RETENTION_HOURS", MCHour>>,
              <<"FLOOD_CLEANUP_MINS", MCMinute>>, <<"DATA_SAVE_SECS", MCSecond>>}}}

\* The four options of a tier together.
TierFlags ==
  {Serving(Flag("FLOOD_ENABLED", enabled) \o Flag("FLOOD_TIER1_COUNT", count)
           \o Flag("FLOOD_TIER1_WINDOW_MINS", window) \o Flag("FLOOD_TIER1_BAN_MINS", ban)
           \o Flag("FLOOD_TIER1_PERMANENT", permanent)) :
     enabled \in {0, 1}, count \in {0, 1}, permanent \in {0, 1},
     window \in Around(MCMinute), ban \in Around(MCMinute)}

MCInputs == FromAllSources \union CommandLines \union Durations \union TierFlags
=============================================================================
