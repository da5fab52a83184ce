------------------------------- MODULE Startup -------------------------------
(***************************************************************************)
(* The way of one process from main to serving or to its exit: the .env    *)
(* file, the environment, the command line (cobra), validation, and the    *)
(* start of the bundles with what was configured.  One action per call of  *)
(* main, ParseConfig and Run; it all happens in one goroutine, but each    *)
(* step overwrites what the ones before it said.                           *)
(***************************************************************************)
EXTENDS Settings

CONSTANT
  Inputs   \* what the process may be started with

\* whole says that godotenv can parse the file; a missing one gives no lines.
\* help and version say that the flag is given; flags are in their order.
Input ==
  [lines: [Options -> Texts \union {Unset}], whole: BOOLEAN,
   environ: [Options -> Texts \union {Unset}],
   command: {"none", "serve", "version", "unknown"},
   help: BOOLEAN, version: BOOLEAN,
   flags: Seq([option: Options, text: Texts])]

ASSUME InputsAssumption == Inputs \subseteq Input

VARIABLES
  input,   \* the files and arguments of this process
  at,      \* where the process is
  env,     \* its environment
  config,  \* the AppConfig
  parsed   \* how many flags of the command line were parsed

vars == <<input, at, env, config, parsed>>

Ended == {"exit 0", "exit 1"}

Init ==
  /\ input \in Inputs
  /\ at = "dotenv"
  /\ env = input.environ
  /\ config = [o \in Options |-> Default[o]]
  /\ parsed = 0

\* The process is here and goes on to next.
From(here, next) == at = here /\ at' = next

-----------------------------------------------------------------------------

\* A plausible slip: godotenv.Overload, the file's lines replace exported ones.
Overloaded ==
  [o \in Options |-> IF input.lines[o] # Unset /\ input.whole
                     THEN input.lines[o] ELSE input.environ[o]]

\* godotenv.Load adds the variables that are not exported, and only logs an
\* error: of a file that cannot be parsed nothing is taken.
Merged ==
  [o \in Options |-> IF input.environ[o] = Unset /\ input.whole
                     THEN input.lines[o] ELSE input.environ[o]]

LoadDotEnv ==
  /\ From("dotenv", "env")
  /\ env' = Merged
  /\ UNCHANGED <<input, config, parsed>>

\* os.Getenv does not tell an empty variable from none.
Present(o) == env[o] \notin {Unset, Empty}

LoadEnvVars ==
  /\ From("env", "args")
  /\ \A o \in Options : Present(o) => Readable(o, env[o])
  /\ config' = [o \in Options |-> IF Present(o) THEN Value(o, env[o]) ELSE config[o]]
  /\ UNCHANGED <<input, env, parsed>>

BadVariable ==
  /\ From("env", "exit 1")
  /\ \E o \in Options : Present(o) /\ ~Readable(o, env[o])
  /\ UNCHANGED <<input, env, config, parsed>>

\* Of an option that is given several times the last flag stays.
ParseFlag ==
  /\ From("args", "args")
  /\ parsed < Len(input.flags)
  /\ LET flag == input.flags[parsed + 1] IN
       /\ Readable(flag.option, flag.text)
       /\ config' = [config EXCEPT ![flag.option] = Value(flag.option, flag.text)]
  /\ parsed' = parsed + 1
  /\ UNCHANGED <<input, env>>

BadFlag ==
  /\ From("args", "exit 1")
  /\ parsed < Len(input.flags)
  /\ ~Readable(input.flags[parsed + 1].option, input.flags[parsed + 1].text)
  /\ UNCHANGED <<input, env, config, parsed>>

\* --version is a flag of the root command only.
CommandRefused ==
  input.command = "unknown" \/ (input.version /\ input.command # "none")

BadCommand ==
  /\ From("args", "exit 1")
  /\ CommandRefused
  /\ UNCHANGED <<input, env, config, parsed>>

\* ErrHelpRequested or ShowVersion: main exits with 0.
OnlyTells == input.help \/ input.version \/ input.command = "version"

HelpOrVersion ==
  /\ From("args", "exit 0")
  /\ parsed = Len(input.flags) /\ ~CommandRefused
  /\ OnlyTells
  /\ UNCHANGED <<input, env, config, parsed>>

ExecuteC ==
  /\ From("args", "settings")
  /\ parsed = Len(input.flags) /\ ~CommandRefused
  /\ ~OnlyTells
  /\ UNCHANGED <<input, env, config, parsed>>

FromAppConfig ==
  /\ Valid(config)
  /\ From("settings", "start")
  /\ UNCHANGED <<input, env, config, parsed>>

NotValid ==
  /\ ~Valid(config)
  /\ From("settings", "exit 1")
  /\ UNCHANGED <<input, env, config, parsed>>

\* The services and the bundles are loaded and the loops started; which of it
\* may fail is the matter of Services and Storage.
Serve ==
  /\ From("start", "serving")
  /\ UNCHANGED <<input, env, config, parsed>>

StartFails ==
  /\ From("start", "exit 1")
  /\ UNCHANGED <<input, env, config, parsed>>

Next ==
  \/ LoadDotEnv
  \/ LoadEnvVars \/ BadVariable
  \/ ParseFlag \/ BadFlag \/ BadCommand \/ HelpOrVersion \/ ExecuteC
  \/ FromAppConfig \/ NotValid
  \/ Serve \/ StartFails

Spec == Init /\ [][Next]_vars

-----------------------------------------------------------------------------
(* Properties *)

\* Type invariant.
StartupTypeOK ==
  /\ input \in Input
  /\ at \in {"dotenv", "env", "args", "settings", "start", "serving"} \union Ended
  /\ env \in [Options -> Texts \union {Unset}]
  /\ config \in [Options -> -Half..(Half - 1)]
  /\ parsed \in 0..Len(input.flags)

\* The places on the command line where o is set.
Given(o) == {i \in DOMAIN input.flags : input.flags[i].option = o}

\* Nothing but the defaults says what o is.
Unmentioned(o) ==
  /\ Given(o) = {}
  /\ \/ input.environ[o] = Empty
     \/ /\ input.environ[o] = Unset
        /\ ~input.whole \/ input.lines[o] \in {Unset, Empty}

\* The defaults that README.md:131-181 documents and TestParseConfigDefaults expects,
\* where they differ from those of config.go.
Documented ==
  [Default EXCEPT
     !.WHITELIST_PERIOD_HOURS = 48, !.FLOOD_CLEANUP_MINS = 60, !.DATA_SAVE_SECS = 30,
     !.FLOOD_CLEAR_ON_WHITELIST = 0,
     !.FLOOD_TIER1_COUNT = 10, !.FLOOD_TIER1_WINDOW_MINS = 2, !.FLOOD_TIER1_BAN_MINS = 3,
     !.FLOOD_TIER2_COUNT = 60, !.FLOOD_TIER2_WINDOW_MINS = 30, !.FLOOD_TIER2_BAN_MINS = 120,
     !.FLOOD_TIER2_PERMANENT = 0, !.FLOOD_TIER3_PERMANENT = 1,
     !.FLOOD_TIER4_WINDOW_MINS = 360, !.FLOOD_TIER5_WINDOW_MINS = 10080]

\* An option the server runs with comes from its last flag; without a flag from
\* the environment; without an exported variable from a well-formed .env; and
\* otherwise it is the default, which is said here of the options on whose default the
\* documentation and the code agree (the others: DefaultsDocumented).  Flags override
\* the environment, and a variable exported empty keeps what .env says of it from
\* being looked at.  (config.go:306, assets.go:10, main.go:20)
PrecedenceKept ==
  at \in {"settings", "start", "serving"} => \A o \in Options :
    /\ \A i \in Given(o) : (\A j \in Given(o) : j <= i) =>
         config[o] = Value(o, input.flags[i].text)
    /\ Given(o) = {} =>
         /\ input.environ[o] \notin {Unset, Empty} =>
              config[o] = Value(o, input.environ[o])
         /\ input.environ[o] = Unset /\ input.whole /\ input.lines[o] \notin {Unset, Empty} =>
              config[o] = Value(o, input.lines[o])
    /\ Unmentioned(o) /\ Default[o] = Documented[o] => config[o] = Documented[o]

\* Whatever was configured, products that overflow included, no ticker is made
\* with an interval that is not positive (time.NewTicker would panic), and the
\* whitelist's period and the cleanup's retention are positive.
\* (settings.go:152, periodic.go:28, cleanup.go:42)
IntervalsPositive ==
  at = "serving" =>
    /\ DataSaveInterval(config) > 0
    /\ FloodCleanupInterval(config) > 0
    /\ WhitelistPeriod(config) > 0
    /\ FloodRetention(config) > 0

\* Nothing overflows: the numbers times their units are durations.
Fits(n, unit) == n * unit < Half

TiersFit ==
  \A i \in DOMAIN Tiers(config) :
    Fits(Tiers(config)[i].window, Minute) /\ Fits(Tiers(config)[i].ban, Minute)

AllFits ==
  /\ Fits(config.WHITELIST_PERIOD_HOURS, Hour)
  /\ Fits(config.FLOOD_RETENTION_HOURS, Hour)
  /\ Fits(config.FLOOD_CLEANUP_MINS, Minute)
  /\ Fits(config.DATA_SAVE_SECS, Second)
  /\ config.FLOOD_ENABLED = 1 => TiersFit

\* As long as nothing overflows the server runs with what it was told to, and
\* with what ForwardAuth assumes: a period and a retention that are positive
\* and, when flood is enabled, tiers that can be reached, whose windows are
\* positive and whose temporary bans end.  (settings.go:115, options.go:58)
ServesWithinAssumptions ==
  at = "serving" /\ AllFits =>
    /\ WhitelistPeriod(config) = config.WHITELIST_PERIOD_HOURS * Hour
    /\ FloodRetention(config) = config.FLOOD_RETENTION_HOURS * Hour
    /\ FloodCleanupInterval(config) = config.FLOOD_CLEANUP_MINS * Minute
    /\ DataSaveInterval(config) = config.DATA_SAVE_SECS * Second
    /\ {WhitelistPeriod(config), FloodRetention(config)} \subseteq Nat \ {0}
    /\ config.FLOOD_ENABLED = 1 =>
         \A i \in DOMAIN RulesOf(config) :
           LET rule == RulesOf(config)[i] IN
             /\ rule.count \in Nat \ {0}
             /\ rule.window = Tiers(config)[i].window * Minute
             /\ rule.window \in Nat \ {0}
             /\ rule.temp \in Nat
             /\ rule.permanent \/ rule.temp # 0

-----------------------------------------------------------------------------
(* What the documentation and a test promise and the code does not keep *)

\* An option that is not mentioned, or exported empty as in TestParseConfigDefaults,
\* has the default the documentation gives.
DefaultsDocumented ==
  at \in {"settings", "start", "serving"} =>
    \A o \in Options : Unmentioned(o) => config[o] = Documented[o]
=============================================================================
