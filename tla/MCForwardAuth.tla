--------------------------- MODULE MCForwardAuth ---------------------------
(***************************************************************************)
(* Constants of the TLC runs of ForwardAuth.                               *)
(***************************************************************************)
EXTENDS Gatekept, TLC

\* A short ban early and a permanent one later, as the default tiers have them.
MCRules ==
  << [count |-> 1, window |-> 1, temp |-> 2, permanent |-> FALSE],
     [count |-> 2, window |-> 1, temp |-> 0, permanent |-> TRUE] >>

\* Two lengths of temporary ban, so that one punishment can extend another.
TempRules ==
  << [count |-> 1, window |-> 1, temp |-> 2, permanent |-> FALSE],
     [count |-> 2, window |-> 2, temp |-> 3, permanent |-> FALSE] >>

\* A tier that looks further back than a Retention of 1 keeps failures.
LongWindow == << [count |-> 2, window |-> 2, temp |-> 0, permanent |-> TRUE] >>

\* One failure bans for good, so that two requests are left to meet the ban.
OneStrike == << [count |-> 1, window |-> 1, temp |-> 0, permanent |-> TRUE] >>

\* Everything on: the settings of config.defaultAppConfig.
Defaults ==
  [whitelistEnabled |-> TRUE, overridesBan |-> TRUE, floodEnabled |-> TRUE,
   clearOnWhitelist |-> TRUE, countNoCredentials |-> TRUE,
   countTempBanProbes |-> TRUE]

\* Bans are enforced for whitelisted addresses too, and nothing is forgotten.
Strict == [Defaults EXCEPT !.overridesBan = FALSE, !.clearOnWhitelist = FALSE]

\* WHITELIST_ENABLED=false; what counts as a failure is as in Defaults, or less.
NoWhitelist == [Strict EXCEPT !.whitelistEnabled = FALSE]
CountLess   == [NoWhitelist EXCEPT !.countNoCredentials = FALSE,
                                   !.countTempBanProbes = FALSE]

\* FLOOD_ENABLED=false.
NoFlood == [Defaults EXCEPT !.floodEnabled = FALSE]

MCSettings     == {Defaults, Strict}
FloodOnly      == {NoWhitelist, CountLess}
OneOrTheOther  == FloodOnly \union {NoFlood}
WhitelistOnly  == {NoFlood}
StrictOnly     == {Strict}

Symmetry       == Permutations(Probes) \union Permutations(IPs)
=============================================================================
