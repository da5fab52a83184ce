--------------------------- MODULE Startup_proofs ---------------------------
(***************************************************************************)
(* Proofs about Startup: the types, the precedence of the sources, and     *)
(* what of the settings holds however large the numbers are and what as    *)
(* long as nothing overflows.                                              *)
(***************************************************************************)
EXTENDS Startup, TLAPS

Int64 == -Half..(Half - 1)

-----------------------------------------------------------------------------
(* Options *)

\* The built-in defaults are numbers an int holds.
LEMMA DefaultTyped == \A o \in Options : Default[o] \in Int64
<1>1. \A o \in Options : Default[o] \in Nat /\ Default[o] <= 8080
  BY SMTT(120) DEF Default, Options
<1> QED
  BY <1>1, WidthAssumption, SMT DEF Int64

\* A text that can be read gives a number an int holds.
LEMMA ReadableTyped ==
  ASSUME NEW o \in Options, NEW text, Readable(o, text)
  PROVE  Value(o, text) \in Int64
<1>1. {0, 1} \subseteq Int64
  BY WidthAssumption DEF Int64
<1> QED
  BY <1>1 DEF Readable, Value, Int64

\* Every conversion gives an integer.
LEMMA WrapTyped == \A n \in Int : Wrap(n) \in Int
BY WidthAssumption DEF Wrap

\* What a machine number holds is not changed.
LEMMA WrapExact == \A n \in 0..(Half - 1) : Wrap(n) = n
<1> SUFFICES ASSUME NEW n \in 0..(Half - 1) PROVE Wrap(n) = n
  OBVIOUS
<1>1. n + Half \in 0..(2 * Half - 1)
  BY WidthAssumption
<1>2. (n + Half) % (2 * Half) = n + Half
  BY <1>1, WidthAssumption
<1> QED
  BY <1>2, WidthAssumption DEF Wrap

-----------------------------------------------------------------------------
(* The types *)

Flag == [option: Options, text: Texts]

LEMMA SequenceTyped ==
  ASSUME NEW S, NEW s \in Seq(S)
  PROVE  Len(s) \in Nat /\ DOMAIN s = 1..Len(s) /\ \A i \in 1..Len(s) : s[i] \in S
OBVIOUS

LEMMA FlagsTyped ==
  ASSUME NEW x \in Input
  PROVE  /\ Len(x.flags) \in Nat
         /\ DOMAIN x.flags = 1..Len(x.flags)
         /\ \A i \in 1..Len(x.flags) : x.flags[i] \in Flag
<1>1. x.flags \in Seq(Flag)
  BY DEF Input, Flag
<1> QED
  BY <1>1, SequenceTyped, Zenon

LEMMA StartupTypeStep ==
  ASSUME StartupTypeOK, [Next]_vars
  PROVE  StartupTypeOK'
<1> USE DEF StartupTypeOK, Ended, From
<1>1. CASE LoadDotEnv
  <2>0. /\ input.environ \in [Options -> Texts \union {Unset}]
        /\ input.lines \in [Options -> Texts \union {Unset}]
    BY DEF Input
  <2>1. Merged \in [Options -> Texts \union {Unset}]
    BY <2>0 DEF Merged
  <2> QED
    BY <1>1, <2>1 DEF LoadDotEnv
<1>2. CASE LoadEnvVars
  <2>1. \A o \in Options : config'[o] \in Int64
    BY <1>2, ReadableTyped DEF LoadEnvVars, Int64
  <2>2. config' \in [Options -> Int64]
    BY <1>2, <2>1 DEF LoadEnvVars
  <2> QED
    BY <1>2, <2>2 DEF LoadEnvVars, Int64
<1>3. CASE ParseFlag
  <2> DEFINE flag == input.flags[parsed + 1]
  <2>0. input \in Input
    OBVIOUS
  <2>1. flag \in Flag /\ parsed + 1 \in 0..Len(input.flags)
    BY <1>3, <2>0, FlagsTyped DEF ParseFlag
  <2>2. Value(flag.option, flag.text) \in Int64
    BY <1>3, <2>1, ReadableTyped DEF ParseFlag, Flag
  <2>3. config' = [config EXCEPT ![flag.option] = Value(flag.option, flag.text)]
    BY <1>3 DEF ParseFlag
  <2>4. config' \in [Options -> -Half..(Half - 1)]
    BY <2>1, <2>2, <2>3 DEF Int64, Flag
  <2> QED
    BY <1>3, <2>1, <2>4 DEF ParseFlag
<1>4. CASE BadVariable \/ BadFlag \/ BadCommand
  BY <1>4 DEF BadVariable, BadFlag, BadCommand
<1>5. CASE HelpOrVersion \/ ExecuteC
  BY <1>5 DEF HelpOrVersion, ExecuteC
<1>6. CASE FromAppConfig \/ NotValid
  BY <1>6 DEF FromAppConfig, NotValid
<1>7. CASE Serve \/ StartFails \/ UNCHANGED vars
  BY <1>7 DEF Serve, StartFails, vars
<1> QED
  BY <1>1, <1>2, <1>3, <1>4, <1>5, <1>6, <1>7 DEF Next

LEMMA StartupTypeInit == Init => StartupTypeOK
<1> SUFFICES ASSUME Init PROVE StartupTypeOK
  OBVIOUS
<1>1. input \in Input
  BY InputsAssumption DEF Init
<1>2. 0 \in 0..Len(input.flags)
  BY <1>1, FlagsTyped
<1>3. input.environ \in [Options -> Texts \union {Unset}]
  BY <1>1 DEF Input
<1>4. [o \in Options |-> Default[o]] \in [Options -> -Half..(Half - 1)]
  BY DefaultTyped DEF Int64
<1> QED
  BY <1>1, <1>2, <1>3, <1>4 DEF Init, StartupTypeOK

\* The configuration only ever holds numbers an int holds: no text that could
\* not be read gets into it.  (config.go:137, assets.go:20)
THEOREM StartupTypeCorrect == Spec => []StartupTypeOK
<1>1. Init => StartupTypeOK
  BY StartupTypeInit
<1>2. StartupTypeOK /\ [Next]_vars => StartupTypeOK'
  BY StartupTypeStep
<1> QED
  BY <1>1, <1>2, PTL DEF Spec

-----------------------------------------------------------------------------
(* Precedence: what the configuration holds at each place *)

\* The configuration after the environment: .env below it, the defaults below.
FromEnv ==
  [o \in Options |-> IF Merged[o] \notin {Unset, Empty}
                     THEN Value(o, Merged[o]) ELSE Default[o]]

\* The flags of the first n that set o.
GivenUpTo(o, n) == {i \in Given(o) : i <= n}

\* The flags parsed so far are on top of it.
Layered ==
  \A o \in Options :
    /\ GivenUpTo(o, parsed) = {} => config[o] = FromEnv[o]
    /\ \A i \in GivenUpTo(o, parsed) :
         (\A j \in GivenUpTo(o, parsed) : j <= i) =>
           config[o] = Value(o, input.flags[i].text)

Sources ==
  /\ at = "env" => env = Merged
  /\ at \in {"dotenv", "env"} =>
       parsed = 0 /\ config = [o \in Options |-> Default[o]]
  /\ at \notin {"dotenv", "env"} \union Ended => Layered
  /\ at \in {"settings", "start", "serving"} => parsed = Len(input.flags)
  /\ at \in {"start", "serving"} => Valid(config)

StartupInv == StartupTypeOK /\ Sources

LEMMA SourcesStep ==
  ASSUME StartupInv, [Next]_vars
  PROVE  Sources'
<1> USE DEF From, Ended
<1>0. StartupTypeOK /\ Sources
  BY DEF StartupInv
<1>1. CASE LoadDotEnv
  BY <1>0, <1>1 DEF LoadDotEnv, Sources, Merged
<1>2. CASE LoadEnvVars
  <2>1. config' = FromEnv /\ parsed' = 0 /\ input' = input /\ at' = "args"
    BY <1>0, <1>2 DEF LoadEnvVars, Present, Sources, FromEnv
  <2>2. \A o \in Options : GivenUpTo(o, parsed)' = {}
    <3>1. DOMAIN input.flags = 1..Len(input.flags) /\ Len(input.flags) \in Nat
      BY <1>0, FlagsTyped DEF StartupTypeOK
    <3> QED
      BY <2>1, <3>1 DEF GivenUpTo, Given
  <2>3. Layered'
    BY <2>1, <2>2 DEF Layered, FromEnv, Merged
  <2> QED
    BY <2>1, <2>3 DEF Sources
<1>3. CASE ParseFlag
  <2> DEFINE flag == input.flags[parsed + 1]
  <2>1. /\ input' = input /\ at = "args" /\ at' = "args" /\ parsed' = parsed + 1
        /\ config' = [config EXCEPT ![flag.option] = Value(flag.option, flag.text)]
        /\ config \in [Options -> -Half..(Half - 1)] /\ parsed < Len(input.flags)
    BY <1>0, <1>3 DEF ParseFlag, StartupTypeOK
  <2>a. /\ parsed \in Nat /\ Len(input.flags) \in Nat
        /\ DOMAIN input.flags = 1..Len(input.flags)
        /\ flag \in Flag
    BY <1>0, <2>1, FlagsTyped DEF StartupTypeOK
  <2>b. \A o \in Options :
          GivenUpTo(o, parsed)' =
            {i \in 1..Len(input.flags) : input.flags[i].option = o /\ i <= parsed + 1}
    BY <2>1, <2>a DEF GivenUpTo, Given
  <2>c. \A o \in Options :
          GivenUpTo(o, parsed) =
            {i \in 1..Len(input.flags) : input.flags[i].option = o /\ i <= parsed}
    BY <2>a DEF GivenUpTo, Given
  <2>2. FromEnv' = FromEnv
    BY <2>1 DEF FromEnv, Merged
  <2>3. ASSUME NEW o \in Options, o = flag.option
        PROVE  /\ GivenUpTo(o, parsed)' = GivenUpTo(o, parsed) \union {parsed + 1}
               /\ config'[o] = Value(o, flag.text)
    BY <2>1, <2>a, <2>b, <2>c, <2>3
  <2>4. ASSUME NEW o \in Options, o # flag.option
        PROVE  GivenUpTo(o, parsed)' = GivenUpTo(o, parsed) /\ config'[o] = config[o]
    <3>1. config'[o] = config[o]
      BY <2>1, <2>4
    <3>2. \A i \in 1..Len(input.flags) :
            input.flags[i].option = o => (i <= parsed + 1 <=> i <= parsed)
      <4> SUFFICES ASSUME NEW i \in 1..Len(input.flags), input.flags[i].option = o
                   PROVE  i # parsed + 1
        BY <2>a
      <4> QED
        BY <2>4
    <3>3. GivenUpTo(o, parsed)' = GivenUpTo(o, parsed)
      BY <3>2, <2>b, <2>c
    <3> QED
      BY <3>1, <3>3
  <2>5. Layered
    BY <1>0, <2>1 DEF Sources
  <2>6. ASSUME NEW o \in Options, o = flag.option,
               NEW i \in GivenUpTo(o, parsed)',
               \A j \in GivenUpTo(o, parsed)' : j <= i
        PROVE  i = parsed + 1
    BY <2>a, <2>b, <2>3, <2>6
  <2>7. Layered'
    BY <2>1, <2>2, <2>3, <2>4, <2>5, <2>6 DEF Layered
  <2> QED
    BY <2>1, <2>7 DEF Sources
<1>4. CASE BadVariable \/ BadFlag \/ BadCommand \/ HelpOrVersion
  BY <1>4 DEF BadVariable, BadFlag, BadCommand, HelpOrVersion, Sources
<1>5. ASSUME UNCHANGED <<input, config, parsed>>
      PROVE  (Layered => Layered') /\ (Valid(config) => Valid(config)')
  BY <1>5 DEF Layered, FromEnv, Merged, GivenUpTo, Given
<1>6. CASE ExecuteC
  BY <1>0, <1>5, <1>6 DEF ExecuteC, Sources
<1>7. CASE FromAppConfig \/ NotValid
  BY <1>0, <1>5, <1>7 DEF FromAppConfig, NotValid, Sources
<1>8. CASE Serve \/ StartFails
  BY <1>0, <1>5, <1>8 DEF Serve, StartFails, Sources
<1>9. CASE UNCHANGED vars
  BY <1>0, <1>5, <1>9 DEF vars, Sources, Merged
<1> QED
  BY <1>1, <1>2, <1>3, <1>4, <1>6, <1>7, <1>8, <1>9 DEF Next

LEMMA StartupInvariant == Spec => []StartupInv
<1>1. Init => StartupInv
  BY StartupTypeInit DEF Init, StartupInv, Sources, Ended
<1>2. StartupInv /\ [Next]_vars => StartupInv'
  BY StartupTypeStep, SourcesStep DEF StartupInv
<1> QED
  BY <1>1, <1>2, PTL DEF Spec

\* The server runs with the value of the strongest source that gives one.
\* (config.go:306, assets.go:10, main.go:20)
THEOREM PrecedenceHolds == Spec => []PrecedenceKept
<1>1. StartupInv => PrecedenceKept
  <2>0. \A o \in Options :
          /\ input.environ[o] \notin {Unset, Empty} => FromEnv[o] = Value(o, input.environ[o])
          /\ input.environ[o] = Unset /\ input.whole /\ input.lines[o] \notin {Unset, Empty} =>
               FromEnv[o] = Value(o, input.lines[o])
          /\ Unmentioned(o) => Given(o) = {} /\ FromEnv[o] = Default[o]
    BY TextAssumption DEF FromEnv, Merged, Unmentioned
  <2> SUFFICES ASSUME StartupInv, at \in {"settings", "start", "serving"},
                      NEW o \in Options
               PROVE  /\ \A i \in Given(o) : (\A j \in Given(o) : j <= i) =>
                           config[o] = Value(o, input.flags[i].text)
                      /\ Given(o) = {} => config[o] = FromEnv[o]
    BY <2>0 DEF PrecedenceKept
  <2>1. Layered /\ parsed = Len(input.flags)
    BY DEF StartupInv, Sources, Ended
  <2>2. GivenUpTo(o, parsed) = Given(o)
    BY <2>1, FlagsTyped DEF GivenUpTo, Given, StartupInv, StartupTypeOK
  <2> QED
    BY <2>1, <2>2 DEF Layered
<1> QED
  BY <1>1, StartupInvariant, PTL

-----------------------------------------------------------------------------
(* Durations *)

LEMMA ProductTyped == \A n, unit \in Int : n * unit \in Int
OBVIOUS

\* Whatever the product wraps to, what is used is positive.
LEMMA PositiveDuration ==
  ASSUME NEW n \in Int, NEW unit \in Int, NEW own \in Int, own > 0
  PROVE  Positive(Duration(n, unit), own) > 0
<1>1. Duration(n, unit) \in Int
  BY ProductTyped, WrapTyped DEF Duration
<1> QED
  BY <1>1 DEF Positive

\* A positive number whose product fits is converted exactly.
LEMMA ExactDuration ==
  ASSUME NEW n \in Int, NEW unit \in Nat \ {0}, n >= 1, Fits(n, unit)
  PROVE  Duration(n, unit) = n * unit /\ n * unit \in Nat \ {0}
<1>1. n * unit \in Nat \ {0}
  OBVIOUS
<1>2. n * unit \in 0..(Half - 1)
  BY <1>1, WidthAssumption DEF Fits
<1> QED
  BY <1>1, <1>2, WrapExact DEF Duration

LEMMA PositiveKept == \A n, own \in Int : n >= 1 => Positive(n, own) = n
BY DEF Positive

Timed == {"WHITELIST_PERIOD_HOURS", "FLOOD_RETENTION_HOURS", "FLOOD_CLEANUP_MINS",
          "DATA_SAVE_SECS"}

LEMMA TimedOptions == Timed \subseteq Options
BY SMTT(60) DEF Timed, Options, Default

LEMMA TimedTyped ==
  ASSUME StartupTypeOK
  PROVE  /\ config.WHITELIST_PERIOD_HOURS \in Int
         /\ config.FLOOD_RETENTION_HOURS \in Int
         /\ config.FLOOD_CLEANUP_MINS \in Int
         /\ config.DATA_SAVE_SECS \in Int
<1>1. \A o \in Timed : config[o] \in Int
  BY TimedOptions, WidthAssumption DEF StartupTypeOK
<1> QED
  BY <1>1 DEF Timed

\* No setting, however large, gives a ticker, the whitelist or the cleanup a
\* duration that is not positive.  (settings.go:152, periodic.go:28, cleanup.go:42)
THEOREM IntervalsStayPositive == Spec => []IntervalsPositive
<1>1. ASSUME StartupTypeOK PROVE IntervalsPositive
  <2>1. /\ 48 * Hour \in Int /\ 48 * Hour > 0 /\ 168 * Hour \in Int /\ 168 * Hour > 0
        /\ 30 * Second \in Int /\ 30 * Second > 0 /\ Hour \in Int /\ Hour > 0
        /\ Minute \in Int /\ Second \in Int
    BY WidthAssumption
  <2>2. \A n \in Int : \A own \in Nat : Positive(n, own) \in Int
    BY DEF Positive
  <2>3. WhitelistPeriod(config) > 0
    BY <1>1, <2>1, <2>2, TimedTyped, PositiveDuration DEF WhitelistPeriod
  <2>4. FloodRetention(config) > 0
    BY <1>1, <2>1, <2>2, TimedTyped, PositiveDuration DEF FloodRetention
  <2>5. FloodCleanupInterval(config) > 0
    BY <1>1, <2>1, <2>2, TimedTyped, PositiveDuration DEF FloodCleanupInterval
  <2>6. DataSaveInterval(config) > 0
    BY <1>1, <2>1, <2>2, TimedTyped, PositiveDuration DEF DataSaveInterval
  <2> QED
    BY <2>3, <2>4, <2>5, <2>6 DEF IntervalsPositive
<1> QED
  BY <1>1, StartupTypeCorrect, PTL

-----------------------------------------------------------------------------
(* What ForwardAuth assumes *)

TierNumbers ==
  {"FLOOD_TIER1_COUNT", "FLOOD_TIER1_WINDOW_MINS", "FLOOD_TIER1_BAN_MINS",
   "FLOOD_TIER2_COUNT", "FLOOD_TIER2_WINDOW_MINS", "FLOOD_TIER2_BAN_MINS",
   "FLOOD_TIER3_COUNT", "FLOOD_TIER3_WINDOW_MINS", "FLOOD_TIER3_BAN_MINS",
   "FLOOD_TIER4_COUNT", "FLOOD_TIER4_WINDOW_MINS", "FLOOD_TIER4_BAN_MINS",
   "FLOOD_TIER5_COUNT", "FLOOD_TIER5_WINDOW_MINS", "FLOOD_TIER5_BAN_MINS"}

LEMMA TierOptions == TierNumbers \subseteq Options
BY SMTT(60) DEF TierNumbers, Options, Default

Tier == [count: Int, window: Int, ban: Int, permanent: BOOLEAN]

LEMMA TiersTyped ==
  ASSUME StartupTypeOK
  PROVE  \A i \in DOMAIN Tiers(config) : Tiers(config)[i] \in Tier
<1>1. \A o \in TierNumbers : config[o] \in Int
  BY TierOptions, WidthAssumption DEF StartupTypeOK
<1>2. DOMAIN Tiers(config) = 1..5
  BY DEF Tiers
<1>3. Tiers(config)[1] \in Tier
  BY <1>1 DEF Tiers, Tier, TierNumbers
<1>4. Tiers(config)[2] \in Tier
  BY <1>1 DEF Tiers, Tier, TierNumbers
<1>5. Tiers(config)[3] \in Tier
  BY <1>1 DEF Tiers, Tier, TierNumbers
<1>6. Tiers(config)[4] \in Tier
  BY <1>1 DEF Tiers, Tier, TierNumbers
<1>7. Tiers(config)[5] \in Tier
  BY <1>1 DEF Tiers, Tier, TierNumbers
<1> QED
  BY <1>2, <1>3, <1>4, <1>5, <1>6, <1>7

\* A valid tier whose times fit becomes a rule ForwardAuth can work with.
LEMMA RuleWithinAssumptions ==
  ASSUME NEW tier \in Tier, ValidTier(tier), Fits(tier.window, Minute), Fits(tier.ban, Minute)
  PROVE  /\ RuleOf(tier).count \in Nat \ {0}
         /\ RuleOf(tier).window = tier.window * Minute
         /\ RuleOf(tier).window \in Nat \ {0}
         /\ RuleOf(tier).temp \in Nat
         /\ RuleOf(tier).permanent \/ RuleOf(tier).temp # 0
<1>0. Minute \in Nat \ {0} /\ tier.count >= 1 /\ tier.window >= 1
  BY WidthAssumption DEF ValidTier
<1>1. /\ Duration(tier.window, Minute) = tier.window * Minute
      /\ tier.window * Minute \in Nat \ {0}
  BY <1>0, ExactDuration DEF Tier
<1>2. CASE tier.permanent
  BY <1>0, <1>1, <1>2 DEF RuleOf, Tier
<1>3. CASE ~tier.permanent
  <2>1. tier.ban >= 1
    BY <1>3 DEF ValidTier
  <2>2. Duration(tier.ban, Minute) \in Nat \ {0}
    BY <1>0, <2>1, ExactDuration DEF Tier
  <2> QED
    BY <1>0, <1>1, <1>3, <2>2 DEF RuleOf, Tier
<1> QED
  BY <1>2, <1>3

LEMMA TimedValid ==
  ASSUME Valid(config)
  PROVE  /\ config.WHITELIST_PERIOD_HOURS >= 1 /\ config.FLOOD_RETENTION_HOURS >= 1
         /\ config.FLOOD_CLEANUP_MINS >= 1 /\ config.DATA_SAVE_SECS >= 1
BY SMT DEF Valid

LEMMA TiersValid ==
  ASSUME Valid(config), config.FLOOD_ENABLED = 1
  PROVE  \A i \in DOMAIN Tiers(config) : ValidTier(Tiers(config)[i])
BY SMT DEF Valid

\* A server whose numbers fit runs with what it was told and within what
\* ForwardAuth assumes of its constants.  (settings.go:115, options.go:58)
THEOREM AssumptionsEarned == Spec => []ServesWithinAssumptions
<1>1. ASSUME StartupInv PROVE ServesWithinAssumptions
  <2> SUFFICES ASSUME at = "serving", AllFits
               PROVE  ServesWithinAssumptions
    BY DEF ServesWithinAssumptions
  <2>0. StartupTypeOK /\ Valid(config)
    BY <1>1 DEF StartupInv, Sources
  <2>1. /\ Hour \in Nat \ {0} /\ Minute \in Nat \ {0} /\ Second \in Nat \ {0}
        /\ 48 * Hour \in Int /\ 168 * Hour \in Int /\ 30 * Second \in Int
    BY WidthAssumption
  <2>2. /\ WhitelistPeriod(config) = config.WHITELIST_PERIOD_HOURS * Hour
        /\ WhitelistPeriod(config) \in Nat \ {0}
    <3> DEFINE n == config.WHITELIST_PERIOD_HOURS
    <3>1. n \in Int /\ n >= 1 /\ Fits(n, Hour)
      BY <2>0, TimedTyped, TimedValid DEF AllFits
    <3> HIDE DEF n
    <3>2. Positive(n, 48) = n /\ Duration(n, Hour) = n * Hour /\ n * Hour \in Nat \ {0}
      BY <2>1, <3>1, PositiveKept, ExactDuration
    <3>3. Positive(Duration(Positive(n, 48), Hour), 48 * Hour) = n * Hour
      BY <2>1, <3>2, PositiveKept
    <3> QED
      BY <3>2, <3>3 DEF WhitelistPeriod, n
  <2>3. /\ FloodRetention(config) = config.FLOOD_RETENTION_HOURS * Hour
        /\ FloodRetention(config) \in Nat \ {0}
    <3> DEFINE n == config.FLOOD_RETENTION_HOURS
    <3>1. n \in Int /\ n >= 1 /\ Fits(n, Hour)
      BY <2>0, TimedTyped, TimedValid DEF AllFits
    <3> HIDE DEF n
    <3>2. Positive(n, 168) = n /\ Duration(n, Hour) = n * Hour /\ n * Hour \in Nat \ {0}
      BY <2>1, <3>1, PositiveKept, ExactDuration
    <3>3. Positive(Duration(Positive(n, 168), Hour), 168 * Hour) = n * Hour
      BY <2>1, <3>2, PositiveKept
    <3> QED
      BY <3>2, <3>3 DEF FloodRetention, n
  <2>4. FloodCleanupInterval(config) = config.FLOOD_CLEANUP_MINS * Minute
    <3> DEFINE n == config.FLOOD_CLEANUP_MINS
    <3>1. n \in Int /\ n >= 1 /\ Fits(n, Minute)
      BY <2>0, TimedTyped, TimedValid DEF AllFits
    <3> HIDE DEF n
    <3>2. Positive(n, 60) = n /\ Duration(n, Minute) = n * Minute /\ n * Minute \in Nat \ {0}
      BY <2>1, <3>1, PositiveKept, ExactDuration
    <3>3. Positive(Duration(Positive(n, 60), Minute), Hour) = n * Minute
      BY <2>1, <3>2, PositiveKept
    <3> QED
      BY <3>3 DEF FloodCleanupInterval, n
  <2>5. DataSaveInterval(config) = config.DATA_SAVE_SECS * Second
    <3> DEFINE n == config.DATA_SAVE_SECS
    <3>1. n \in Int /\ n >= 1 /\ Fits(n, Second)
      BY <2>0, TimedTyped, TimedValid DEF AllFits
    <3> HIDE DEF n
    <3>2. Positive(n, 30) = n /\ Duration(n, Second) = n * Second /\ n * Second \in Nat \ {0}
      BY <2>1, <3>1, PositiveKept, ExactDuration
    <3>3. Positive(Duration(Positive(n, 30), Second), 30 * Second) = n * Second
      BY <2>1, <3>2, PositiveKept
    <3> QED
      BY <3>3 DEF DataSaveInterval, n
  <2>6. ASSUME config.FLOOD_ENABLED = 1, NEW i \in DOMAIN RulesOf(config)
        PROVE  LET rule == RulesOf(config)[i] IN
                 /\ rule.count \in Nat \ {0}
                 /\ rule.window = Tiers(config)[i].window * Minute
                 /\ rule.window \in Nat \ {0}
                 /\ rule.temp \in Nat
                 /\ rule.permanent \/ rule.temp # 0
    <3>1. i \in DOMAIN Tiers(config) /\ RulesOf(config)[i] = RuleOf(Tiers(config)[i])
      BY <2>6 DEF RulesOf
    <3> DEFINE tier == Tiers(config)[i]
    <3>2. tier \in Tier
      BY <2>0, <3>1, TiersTyped
    <3>3. ValidTier(tier) /\ Fits(tier.window, Minute) /\ Fits(tier.ban, Minute)
      BY <2>0, <2>6, <3>1, TiersValid DEF AllFits, TiersFit
    <3> HIDE DEF tier
    <3>4. RulesOf(config)[i] = RuleOf(tier)
      BY <3>1 DEF tier
    <3>5. /\ RuleOf(tier).count \in Nat \ {0}
          /\ RuleOf(tier).window = tier.window * Minute
          /\ RuleOf(tier).window \in Nat \ {0}
          /\ RuleOf(tier).temp \in Nat
          /\ RuleOf(tier).permanent \/ RuleOf(tier).temp # 0
      BY <3>2, <3>3, RuleWithinAssumptions
    <3> QED
      BY <3>4, <3>5 DEF tier
  <2> QED
    BY <2>2, <2>3, <2>4, <2>5, <2>6 DEF ServesWithinAssumptions
<1> QED
  BY <1>1, StartupInvariant, PTL
=============================================================================
