------------------------------ MODULE Settings ------------------------------
(***************************************************************************)
(* From options to what the program runs with: internal/config's defaults  *)
(* and readings of an option, internal/settings' validation, and the       *)
(* conversion of hours, minutes and seconds to the durations with which    *)
(* the bundles and loops are started.                                      *)
(*                                                                         *)
(* An option is named by its environment variable.  Its value is a number: *)
(* a Boolean is 0 or 1, and of a string only whether it is blank (0) or    *)
(* not (1) makes a difference here.  A duration is a signed machine number *)
(* of nanoseconds; Second, Minute and Hour say how many those have.        *)
(***************************************************************************)
EXTENDS Integers, Sequences

CONSTANTS
  Half,    \* int and time.Duration hold -Half .. Half - 1 (2^63 in the program)
  Second, Minute, Hour,
  Unset,   \* what an option is where nobody gave it
  Empty,   \* the empty text
  Blank,   \* a text of spaces
  Word     \* any other text that is neither a number nor a Boolean

\* The numbers of Default are ints.
ASSUME WidthAssumption ==
  {Half, Second, Minute, Hour} \subseteq Nat \ {0} /\ Half > 8080

ASSUME TextAssumption ==
  /\ {Empty, Blank, Word} \intersect Int = {}
  /\ Unset \notin Int \union {Empty, Blank, Word}

-----------------------------------------------------------------------------
(* Options *)

Default ==
  [VERBOSE |-> 0, HOST |-> 1, PORT |-> 8080, ALLOWED_ORIGINS |-> 0,
   WHITELIST_ENABLED |-> 1, WHITELIST_PERIOD_HOURS |-> 120, WHITELIST_PATH |-> 1,
   WHITELIST_OVERRIDES_BAN |-> 1,
   FLOOD_ENABLED |-> 1, FLOOD_RETENTION_HOURS |-> 168, FLOOD_CLEANUP_MINS |-> 120,
   FLOOD_PATH |-> 1, BAN_PATH |-> 1, DATA_SAVE_SECS |-> 120,
   FLOOD_CLEAR_ON_WHITELIST |-> 1, FLOOD_COUNT_NO_CREDENTIALS |-> 1,
   FLOOD_COUNT_TEMP_BAN_PROBES |-> 1,
   FLOOD_TIER1_COUNT |-> 30, FLOOD_TIER1_WINDOW_MINS |-> 5,
   FLOOD_TIER1_BAN_MINS |-> 5, FLOOD_TIER1_PERMANENT |-> 0,
   FLOOD_TIER2_COUNT |-> 45, FLOOD_TIER2_WINDOW_MINS |-> 5,
   FLOOD_TIER2_BAN_MINS |-> 0, FLOOD_TIER2_PERMANENT |-> 1,
   FLOOD_TIER3_COUNT |-> 90, FLOOD_TIER3_WINDOW_MINS |-> 60,
   FLOOD_TIER3_BAN_MINS |-> 60, FLOOD_TIER3_PERMANENT |-> 0,
   FLOOD_TIER4_COUNT |-> 120, FLOOD_TIER4_WINDOW_MINS |-> 60,
   FLOOD_TIER4_BAN_MINS |-> 0, FLOOD_TIER4_PERMANENT |-> 1,
   FLOOD_TIER5_COUNT |-> 240, FLOOD_TIER5_WINDOW_MINS |-> 120,
   FLOOD_TIER5_BAN_MINS |-> 0, FLOOD_TIER5_PERMANENT |-> 1,
   LOG_AUTH_SUCCESS |-> 0, LOG_WHITELISTED |-> 0]

Options == DOMAIN Default

Strings == {"HOST", "ALLOWED_ORIGINS", "WHITELIST_PATH", "FLOOD_PATH", "BAN_PATH"}

Booleans ==
  {"VERBOSE", "WHITELIST_ENABLED", "WHITELIST_OVERRIDES_BAN", "FLOOD_ENABLED",
   "FLOOD_CLEAR_ON_WHITELIST", "FLOOD_COUNT_NO_CREDENTIALS",
   "FLOOD_COUNT_TEMP_BAN_PROBES", "FLOOD_TIER1_PERMANENT",
   "FLOOD_TIER2_PERMANENT", "FLOOD_TIER3_PERMANENT", "FLOOD_TIER4_PERMANENT",
   "FLOOD_TIER5_PERMANENT", "LOG_AUTH_SUCCESS", "LOG_WHITELISTED"}

\* A text is a number written out or one of the three others.
Texts == Int \union {Empty, Blank, Word}

\* A plausible slip: what cannot be read is taken as it is.
AnyText(o, text) == text \in Texts

\* strconv takes a text for a value of option o: an int in range, 0 or 1 (or
\* another spelling of them) for a Boolean, and anything for a string.
Readable(o, text) ==
  \/ o \in Strings
  \/ o \in Booleans /\ text \in {0, 1}
  \/ o \notin Booleans /\ text \in -Half..(Half - 1)

Value(o, text) ==
  IF o \notin Strings THEN text ELSE IF text \in {Empty, Blank} THEN 0 ELSE 1

-----------------------------------------------------------------------------
(* Validation *)

Tiers(config) ==
  LET tier(count, window, ban, permanent) ==
        [count |-> config[count], window |-> config[window],
         ban |-> config[ban], permanent |-> config[permanent] = 1]
  IN << tier("FLOOD_TIER1_COUNT", "FLOOD_TIER1_WINDOW_MINS",
             "FLOOD_TIER1_BAN_MINS", "FLOOD_TIER1_PERMANENT"),
        tier("FLOOD_TIER2_COUNT", "FLOOD_TIER2_WINDOW_MINS",
             "FLOOD_TIER2_BAN_MINS", "FLOOD_TIER2_PERMANENT"),
        tier("FLOOD_TIER3_COUNT", "FLOOD_TIER3_WINDOW_MINS",
             "FLOOD_TIER3_BAN_MINS", "FLOOD_TIER3_PERMANENT"),
        tier("FLOOD_TIER4_COUNT", "FLOOD_TIER4_WINDOW_MINS",
             "FLOOD_TIER4_BAN_MINS", "FLOOD_TIER4_PERMANENT"),
        tier("FLOOD_TIER5_COUNT", "FLOOD_TIER5_WINDOW_MINS",
             "FLOOD_TIER5_BAN_MINS", "FLOOD_TIER5_PERMANENT") >>

\* A plausible slip: the ban of a tier is left out of the validation.
ValidTierCount(tier) == tier.count >= 1 /\ tier.window >= 1

ValidTier(tier) ==
  /\ tier.count >= 1
  /\ tier.window >= 1
  /\ tier.permanent \/ tier.ban >= 1

Valid(config) ==
  /\ config.HOST = 1
  /\ config.PORT >= 1 /\ config.PORT <= 65535
  /\ config.WHITELIST_PERIOD_HOURS >= 1
  /\ config.WHITELIST_PATH = 1
  /\ config.FLOOD_RETENTION_HOURS >= 1
  /\ config.FLOOD_CLEANUP_MINS >= 1
  /\ config.FLOOD_PATH = 1
  /\ config.BAN_PATH = 1
  /\ config.DATA_SAVE_SECS >= 1
  /\ config.FLOOD_ENABLED = 1 =>
       \A i \in DOMAIN Tiers(config) : ValidTier(Tiers(config)[i])

-----------------------------------------------------------------------------
(* Conversion: multiplication wraps around, as int64 does in Go. *)

Wrap(n) == ((n + Half) % (2 * Half)) - Half

Duration(n, unit) == Wrap(n * unit)

\* A plausible slip: zero is let through.
NotNegative(n, own) == IF n < 0 THEN own ELSE n

\* What is not positive is replaced by a number of one's own: by the accessors of
\* Settings before they multiply, by the bundles and loops afterwards.
Positive(n, own) == IF n <= 0 THEN own ELSE n

WhitelistPeriod(config) ==
  Positive(Duration(Positive(config.WHITELIST_PERIOD_HOURS, 48), Hour), 48 * Hour)

FloodRetention(config) ==
  Positive(Duration(Positive(config.FLOOD_RETENTION_HOURS, 168), Hour), 168 * Hour)

FloodCleanupInterval(config) ==
  Positive(Duration(Positive(config.FLOOD_CLEANUP_MINS, 60), Minute), Hour)

DataSaveInterval(config) ==
  Positive(Duration(Positive(config.DATA_SAVE_SECS, 30), Second), 30 * Second)

\* Nobody replaces a window or a ban that is not positive.
RuleOf(tier) ==
  [count |-> tier.count, window |-> Duration(tier.window, Minute),
   temp |-> IF tier.permanent THEN 0 ELSE Duration(tier.ban, Minute),
   permanent |-> tier.permanent]

RulesOf(config) == [i \in DOMAIN Tiers(config) |-> RuleOf(Tiers(config)[i])]
=============================================================================
