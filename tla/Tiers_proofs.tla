---------------------------- MODULE Tiers_proofs ----------------------------
(***************************************************************************)
(* The tiers of ForwardAuth fire, for any requests, addresses and tiers,   *)
(* as long as no tier looks further back than failures are kept.  The      *)
(* program does not check that, and the run "retention" shows what happens *)
(* without.  Who is banned for good stays out, and who is whitelisted pays *)
(* for bans only.                                                          *)
(***************************************************************************)
EXTENDS ForwardAuth_proofs

WindowsKept == \A i \in DOMAIN Rules : Rules[i].window <= Retention

-----------------------------------------------------------------------------
(* The cleanup *)

\* Only three operations change the log.
LEMMA EntriesChange ==
  ASSUME [Next]_vars, entries' # entries
  PROVE  \/ \E p \in Probes : AppendFailure(p)
         \/ \E p \in Probes : ClearFailures(p)
         \/ CleanupTrack
BY DEF Next, Handle, Cleanup, Tick, Refuse, Arrive, CheckWhitelist, ReadClock, UpsertNow,
       CheckBan, BasicAuth, CountRule, Punish, CleanupStart, CleanupBans, SaveWhitelist, vars

\* A cleanup's now is not in the future, so it spares what is younger than the
\* retention.
LEMMA CleanupSpares ==
  ASSUME Inv, [Next]_vars, NEW e \in entries, e.time >= clock - Retention,
         \A p \in Probes : ~ClearFailures(p)
  PROVE  e \in entries'
<1>1. /\ clock \in Nat /\ cleanup.now \in Nat /\ cleanup.now <= clock /\ e.time \in Nat
      /\ Retention \in Nat
  BY TimeAssumption DEF Inv, TypeInv, TypeOK, Timely, Entry
<1>2. CASE CleanupTrack
  BY <1>1, <1>2 DEF CleanupTrack, Track!RemoveOlderThan
<1>3. CASE \E p \in Probes : AppendFailure(p)
  BY <1>3 DEF AppendFailure, Track!Append
<1>4. CASE entries' = entries
  BY <1>4
<1>5. QED
  BY <1>2, <1>3, <1>4, EntriesChange

\* When windows are within the retention, no cleanup takes a failure that counts.
THEOREM CleanupSparesWindows ==
  ASSUME WindowsKept
  PROVE  Spec => CleanupKeepsWindows
<1>1. ASSUME Inv, [Next]_vars, cleanup' # cleanup, NEW e \in entries, NEW i \in DOMAIN Rules,
             e.time >= clock - Rules[i].window
      PROVE  e \in entries'
  <2>1. \A p \in Probes : ~ClearFailures(p)
    BY <1>1 DEF ClearFailures
  <2>2. /\ e.time \in Nat /\ clock \in Nat /\ Rules[i].window \in Nat /\ Retention \in Nat
        /\ Rules[i].window <= Retention
    BY <1>1, RuleType, TimeAssumption DEF Inv, TypeInv, TypeOK, Entry, WindowsKept
  <2>3. e.time >= clock - Retention
    BY <1>1, <2>2
  <2>4. QED
    BY <1>1, <2>1, <2>3, CleanupSpares
<1>2. Inv /\ [Next]_vars =>
        [\A e \in entries : \A i \in DOMAIN Rules :
           (e.time >= clock - Rules[i].window /\ cleanup' # cleanup) => e \in entries']_vars
  BY <1>1
<1>3. QED
  BY Invariant, <1>2, PTL DEF Spec, CleanupKeepsWindows

-----------------------------------------------------------------------------
(* The log is complete *)

\* A failure is charged to a request by its AppendFailure.
LEMMA NewCharge ==
  ASSUME TypeInv, Stages, [Next]_vars, NEW p \in Probes, ~Charged(p), Charged(p)'
  PROVE  At(p, "append") /\ AppendFailure(p)
<1>1. At(p, "append")
  BY PastStays
<1>2. probe'[p] # probe[p]
  BY FollowsStep DEF Charged, At, ChargedReasons
<1>3. QED
  BY <1>1, <1>2, OwnStep DEF Refuse, Arrive, Handle, CheckWhitelist, ReadClock,
     UpsertNow, ClearFailures, CheckBan, BasicAuth, CountRule, Punish, At

\* Without FLOOD_CLEAR_ON_WHITELIST every failure younger than the retention is logged.
LogComplete ==
  ~cfg.clearOnWhitelist =>
    \A p \in Probes : Charged(p) /\ probe[p].now >= clock - Retention =>
      [probe |-> p, ip |-> probe[p].ip, time |-> probe[p].now] \in entries

\* Appending completes it; cleaning up keeps it complete.
LEMMA LogCompleteStep ==
  ASSUME Inv, LogComplete, [Next]_vars
  PROVE  LogComplete'
<1> SUFFICES ASSUME ~cfg'.clearOnWhitelist, NEW p \in Probes, Charged(p)',
                    probe'[p].now >= clock' - Retention
             PROVE  [probe |-> p, ip |-> probe'[p].ip, time |-> probe'[p].now] \in entries'
  BY DEF LogComplete
<1>1. TypeInv /\ Stages /\ probe[p] \in Probe
  BY ProbeType DEF Inv
<1>2. ~cfg.clearOnWhitelist
  BY <1>1, FollowsStep
<1>3. /\ clock \in Nat /\ clock' \in Nat /\ clock <= clock' /\ Retention \in Nat
      /\ probe[p].now \in Nat
  BY <1>1, ClockStep, TimeAssumption, ProbeType DEF TypeInv, TypeOK
<1>4. \A q \in Probes : ~ClearFailures(q)
  BY <1>1, <1>2 DEF ClearFailures, Stages, Stage, At
<1>5. CASE Charged(p)
  <2>1. probe'[p].ip = probe[p].ip /\ probe'[p].now = probe[p].now
    BY <1>1, <1>5, PastStays
  <2> DEFINE e == [probe |-> p, ip |-> probe[p].ip, time |-> probe[p].now]
  <2>2. e \in entries /\ e.time >= clock - Retention
    BY <1>2, <1>3, <1>5, <2>1 DEF LogComplete
  <2>3. e \in entries'
    <3> HIDE DEF e
    <3>1. QED
      BY <1>4, <2>2, CleanupSpares
  <2>4. QED
    BY <2>1, <2>3
<1>6. CASE ~Charged(p)
  <2>1. At(p, "append") /\ AppendFailure(p)
    BY <1>1, <1>6, NewCharge
  <2>2. probe'[p].ip = probe[p].ip /\ probe'[p].now = probe[p].now
    BY <1>1, <2>1, FollowsStep DEF Follows, At
  <2>3. QED
    BY <2>1, <2>2 DEF AppendFailure, Track!Append
<1>7. QED
  BY <1>5, <1>6

\* So the count for a tier sees every failure within the tier's window.
LEMMA CountComplete ==
  ASSUME Inv, LogComplete, ~cfg.clearOnWhitelist, WindowsKept,
         NEW ip, NEW i \in DOMAIN Rules, NEW now \in Nat, now <= clock
  PROVE  CountSince(ip, now - Rules[i].window)
           >= Cardinality(Failures(ip, clock - Rules[i].window))
<1> DEFINE F == Failures(ip, clock - Rules[i].window)
           S == Track!Since(entries, ip, now - Rules[i].window)
           f == [p \in F |-> [probe |-> p, ip |-> probe[p].ip, time |-> probe[p].now]]
<1>1. /\ clock \in Nat /\ Retention \in Nat /\ Rules[i].window \in Nat
      /\ Rules[i].window <= Retention
      /\ \A p \in Probes : probe[p].now \in Nat
      /\ TypeInv /\ EntriesTrue
  BY RuleType, TimeAssumption, ProbeType DEF Inv, TypeInv, TypeOK, WindowsKept, FloodInv
<1>2. ASSUME NEW p \in F
      PROVE  [probe |-> p, ip |-> probe[p].ip, time |-> probe[p].now] \in S
  <2>1. /\ p \in Probes /\ Charged(p) /\ probe[p].ip = ip
        /\ probe[p].now >= clock - Rules[i].window
    BY DEF Failures
  <2>2. /\ probe[p].now >= clock - Retention
        /\ probe[p].now >= now - Rules[i].window
    BY <1>1, <2>1
  <2>3. [probe |-> p, ip |-> probe[p].ip, time |-> probe[p].now] \in entries
    BY <2>1, <2>2 DEF LogComplete
  <2>4. QED
    BY <2>1, <2>2, <2>3 DEF Track!Since
<1>3. f \in [F -> S]
  BY <1>2
<1>4. \A p, q \in F : f[p] = f[q] => p = q
  OBVIOUS
<1>5. f \in Injection(F, S)
  BY <1>3, <1>4 DEF Injection, IsInjective
<1>6. IsFiniteSet(S)
  BY <1>1, CountBound
<1>7. Cardinality(F) <= Cardinality(S) /\ Cardinality(F) \in Nat /\ Cardinality(S) \in Nat
  BY <1>5, <1>6, FailuresFinite, FS_Injection, FS_CardinalityType
<1>8. QED
  BY <1>7 DEF CountSince
-----------------------------------------------------------------------------
(* A reached tier bans, or a handler is about to *)

\* UpdatePunishments counts from the first rule on and holds one best ban at most.
Locals(r) == r.rule # 0 /\ \A b, c \in r.best : b = c

TierLocals == \A p \in Probes : Locals(probe[p])

\* p is going to count for tier i, or it holds a permanent ban already.
WillBan(p, ip, i) ==
  /\ At(p, "count") /\ probe[p].ip = ip
  /\ probe[p].rule <= i \/ \E b \in probe[p].best : b.permanent

TierInv ==
  ~cfg.clearOnWhitelist =>
    \A ip \in IPs : \A i \in DOMAIN Rules :
      Rules[i].permanent /\ Cardinality(Failures(ip, clock - Rules[i].window)) >= Rules[i].count
        => Permanent(ip) \/ \E p \in Probes : WillBan(p, ip, i)

\* What CountRule makes of its request.
LEMMA CountRuleRecord ==
  ASSUME TypeInv, NEW p \in Probes, CountRule(p)
  PROVE  LET i         == probe[p].rule
             candidate == BanFromRule(probe[p].ip, probe[p].now, i)
             better    ==
               /\ CountSince(probe[p].ip, probe[p].now - Rules[i].window) >= Rules[i].count
               /\ \A b \in probe[p].best : Bans!HarsherThan(candidate, b)
         IN  /\ i \in DOMAIN Rules /\ probe[p].pc = "count"
             /\ probe'[p].pc = "count" /\ probe'[p].ip = probe[p].ip
             /\ probe'[p].rule = i + 1
             /\ probe'[p].best = IF better THEN {candidate} ELSE probe[p].best
<1> DEFINE i == probe[p].rule
           candidate == BanFromRule(probe[p].ip, probe[p].now, i)
           better == /\ CountSince(probe[p].ip, probe[p].now - Rules[i].window)
                          >= Rules[i].count
                     /\ \A b \in probe[p].best : Bans!HarsherThan(candidate, b)
           best == IF better THEN {candidate} ELSE probe[p].best
<1>1. Becomes(p, [probe[p] EXCEPT !.rule = i + 1, !.best = best])
  BY Zenon DEF CountRule
<1>2. i \in DOMAIN Rules /\ probe[p].pc = "count"
  BY Zenon DEF CountRule, At
<1>3. probe[p] \in Probe
  BY ProbeType
<1>4. /\ probe'[p].pc = "count" /\ probe'[p].ip = probe[p].ip
      /\ probe'[p].rule = i + 1 /\ probe'[p].best = best
  <2> HIDE DEF best
  <2>1. QED
    BY <1>1, <1>2, <1>3 DEF Becomes, TypeInv, TypeOK, Probe
<1>5. QED
  BY <1>2, <1>4, Zenon

\* Every step keeps the locals of the counting.
LEMMA LocalsStep ==
  ASSUME TypeInv, TierLocals, [Next]_vars
  PROVE  TierLocals'
<1> SUFFICES ASSUME NEW p \in Probes, probe'[p] # probe[p]
             PROVE  Locals(probe'[p])
  BY DEF TierLocals
<1>1. /\ probe[p] \in Probe /\ Locals(probe[p])
      /\ \A r : Becomes(p, r) => probe'[p] = r
  BY ProbeType DEF TierLocals, Becomes, TypeInv, TypeOK
<1>2. Refuse(p) \/ Arrive(p) \/ Handle(p)
  BY OwnStep
<1>3. CASE CountRule(p)
  <2>1. probe'[p].rule = probe[p].rule + 1 /\ probe[p].rule \in Nat
    BY <1>1, <1>3, CountRuleRecord DEF Probe
  <2>2. \A b, c \in probe'[p].best : b = c
    BY <1>1, <1>3, CountRuleRecord DEF Locals
  <2>3. QED
    BY <2>1, <2>2 DEF Locals
<1> DEFINE Less(r) == r.rule \in {1, probe[p].rule} /\ r.best \subseteq probe[p].best
<1>4. CASE Refuse(p)
  <2>1. Less(probe'[p])
    BY <1>1, <1>4 DEF Refuse, Answered, Probe
  <2>2. QED
    BY <1>1, <2>1 DEF Locals
<1>5. CASE Arrive(p)
  <2>1. PICK ip \in IPs, label \in Steps :
          Becomes(p, [probe[p] EXCEPT !.pc = label, !.ip = ip, !.now = clock])
    BY <1>5 DEF Arrive, Steps
  <2>2. Less(probe'[p])
    BY <1>1, <2>1 DEF Probe
  <2>3. QED
    BY <1>1, <2>2 DEF Locals
<1>6. CASE CheckWhitelist(p)
  <2>1. Less(probe'[p])
    BY <1>1, <1>6 DEF CheckWhitelist, Probe
  <2>2. QED
    BY <1>1, <2>1 DEF Locals
<1>7. CASE ReadClock(p)
  <2>1. Less(probe'[p])
    BY <1>1, <1>7 DEF ReadClock, Probe
  <2>2. QED
    BY <1>1, <2>1 DEF Locals
<1>8. CASE UpsertNow(p)
  <2>1. Less(probe'[p])
    BY <1>1, <1>8 DEF UpsertNow, Answered, Whitelisted, Probe
  <2>2. QED
    BY <1>1, <2>1 DEF Locals
<1>9. CASE ClearFailures(p)
  <2>1. Less(probe'[p])
    BY <1>1, <1>9 DEF ClearFailures, Answered, Whitelisted, Probe
  <2>2. QED
    BY <1>1, <2>1 DEF Locals
<1>10. CASE CheckBan(p)
  <2>1. Less(probe'[p])
    BY <1>1, <1>10 DEF CheckBan, Answered, Recording, Probe
  <2>2. QED
    BY <1>1, <2>1 DEF Locals
<1>11. CASE BasicAuth(p)
  <2>1. Less(probe'[p])
    BY <1>1, <1>11 DEF BasicAuth, Answered, Recording, Probe
  <2>2. QED
    BY <1>1, <2>1 DEF Locals
<1>12. CASE AppendFailure(p)
  <2>1. Less(probe'[p])
    BY <1>1, <1>12 DEF AppendFailure, Probe
  <2>2. QED
    BY <1>1, <2>1 DEF Locals
<1>13. CASE Punish(p)
  <2>1. Less(probe'[p])
    BY <1>1, <1>13 DEF Punish, Answered, Probe
  <2>2. QED
    BY <1>1, <2>1 DEF Locals
<1>14. QED
  BY <1>2, <1>3, <1>4, <1>5, <1>6, <1>7, <1>8, <1>9, <1>10, <1>11, <1>12, <1>13 DEF Handle

\* A handler about to ban goes on to, or has banned, or has counted too few.
LEMMA WillBanMoves ==
  ASSUME TypeInv, EntriesTrue, BestDeserved, TierLocals, [Next]_vars,
         NEW ip \in IPs, NEW i \in DOMAIN Rules, Rules[i].permanent,
         NEW p \in Probes, WillBan(p, ip, i)
  PROVE  \/ Permanent(ip)' \/ WillBan(p, ip, i)'
         \/ /\ CountRule(p)
            /\ CountSince(ip, probe[p].now - Rules[i].window) < Rules[i].count
<1>1. /\ probe[p] \in Probe /\ Locals(probe[p])
      /\ i \in Nat /\ DOMAIN Rules = 1..Len(Rules) /\ Len(Rules) \in Nat
      /\ probe[p].rule \in Nat /\ Rules[i].count \in Nat
  BY ProbeType, RuleType, RulesAssumption, LenProperties DEF TierLocals, Probe
<1>2. CASE probe'[p] = probe[p]
  BY <1>2 DEF WillBan, At
<1>3. CASE CountRule(p)
  <2> DEFINE j == probe[p].rule
             candidate == BanFromRule(probe[p].ip, probe[p].now, j)
  <2>1. /\ probe'[p].pc = "count" /\ probe'[p].ip = ip /\ probe'[p].rule = j + 1
    BY <1>1, <1>3, CountRuleRecord DEF WillBan
  <2>2. CASE \E b \in probe[p].best : b.permanent
    <3>1. PICK b \in probe[p].best : b.permanent
      BY <2>2
    <3>2. ~Bans!HarsherThan(candidate, b)
      BY <3>1 DEF Bans!HarsherThan
    <3>3. probe'[p].best = probe[p].best
      BY <1>1, <1>3, <3>1, <3>2, CountRuleRecord, Zenon
    <3>4. QED
      BY <2>1, <3>1, <3>3 DEF WillBan, At
  <2>3. CASE j < i
    BY <1>1, <2>1, <2>3 DEF WillBan, At
  <2>4. CASE j = i /\ ~\E b \in probe[p].best : b.permanent
    <3>1. CASE CountSince(ip, probe[p].now - Rules[i].window) < Rules[i].count
      BY <1>3, <3>1
    <3>2. CASE CountSince(ip, probe[p].now - Rules[i].window) >= Rules[i].count
      <4>1. candidate.permanent
        BY <2>4 DEF BanFromRule
      <4>2. \A b \in probe[p].best : Bans!HarsherThan(candidate, b)
        BY <2>4, <4>1 DEF Bans!HarsherThan
      <4>3. probe'[p].best = {candidate}
        <5> HIDE DEF candidate
        <5>1. CountSince(probe[p].ip, probe[p].now - Rules[j].window) >= Rules[j].count
          BY <2>4, <3>2 DEF WillBan
        <5>2. QED
          BY <1>1, <1>3, <4>2, <5>1, CountRuleRecord, Zenon DEF candidate
      <4>4. QED
        BY <2>1, <4>1, <4>3 DEF WillBan, At
    <3>3. QED
      <4>1. CountSince(ip, probe[p].now - Rules[i].window) \in Nat
        BY CountBound
      <4>2. QED
        BY <1>1, <3>1, <3>2, <4>1
  <2>5. QED
    BY <1>1, <2>2, <2>3, <2>4 DEF WillBan
<1>4. CASE Punish(p)
  <2>1. PICK b \in probe[p].best : b.permanent
    BY <1>1, <1>4 DEF WillBan, Punish, Locals
  <2>2. b.ip = ip /\ bans' = Bans!Upsert(bans, b)
    BY <1>1, <1>4, <2>1 DEF Punish, Locals, WillBan, BestDeserved
  <2>3. CASE \E cur \in Bans!SameIP(bans, b.ip) : ~Bans!HarsherThan(b, cur)
    BY <2>1, <2>2, <2>3
       DEF Bans!Upsert, Bans!SameIP, Bans!HarsherThan, Permanent
  <2>4. CASE ~\E cur \in Bans!SameIP(bans, b.ip) : ~Bans!HarsherThan(b, cur)
    BY <2>1, <2>2, <2>4 DEF Bans!Upsert, Permanent
  <2>5. QED
    BY <2>3, <2>4
<1>5. CASE probe'[p] # probe[p]
  <2>1. CountRule(p) \/ Punish(p)
    BY <1>1, <1>5, OwnStep DEF WillBan, Refuse, Arrive, Handle, CheckWhitelist, ReadClock,
       UpsertNow, ClearFailures, CheckBan, BasicAuth, AppendFailure, At
  <2>2. QED
    BY <2>1, <1>3, <1>4
<1>6. QED
  BY <1>2, <1>5

\* It does not count too few when the log is complete.
LEMMA WillBanStep ==
  ASSUME Inv, LogComplete, TierLocals, WindowsKept, ~cfg.clearOnWhitelist, [Next]_vars,
         NEW ip \in IPs, NEW i \in DOMAIN Rules, Rules[i].permanent,
         Cardinality(Failures(ip, clock - Rules[i].window)) >= Rules[i].count,
         NEW p \in Probes, WillBan(p, ip, i)
  PROVE  Permanent(ip)' \/ WillBan(p, ip, i)'
<1>1. /\ TypeInv /\ EntriesTrue /\ BestDeserved
      /\ probe[p].now \in Nat /\ probe[p].now <= clock
  BY ProbeType DEF Inv, FloodInv, Timely
<1>2. CountSince(ip, probe[p].now - Rules[i].window)
        >= Cardinality(Failures(ip, clock - Rules[i].window))
  BY <1>1, CountComplete
<1>3. /\ CountSince(ip, probe[p].now - Rules[i].window) \in Nat
      /\ Cardinality(Failures(ip, clock - Rules[i].window)) \in Nat
      /\ Rules[i].count \in Nat
  BY <1>1, CountBound, FailuresFinite, RuleType
<1>4. ~(CountSince(ip, probe[p].now - Rules[i].window) < Rules[i].count)
  BY <1>2, <1>3
<1>5. QED
  BY <1>1, <1>4, WillBanMoves

\* Only an append, whose handler then counts for every tier, makes a tier reached.
LEMMA TierStep ==
  ASSUME Inv, LogComplete, TierLocals, TierInv, WindowsKept, [Next]_vars
  PROVE  TierInv'
<1> SUFFICES ASSUME ~cfg'.clearOnWhitelist, NEW ip \in IPs, NEW i \in DOMAIN Rules,
                    Rules[i].permanent,
                    Cardinality(Failures(ip, clock - Rules[i].window)') >= Rules[i].count
             PROVE  Permanent(ip)' \/ \E p \in Probes : WillBan(p, ip, i)'
  BY DEF TierInv
<1>1. /\ TypeInv /\ Stages /\ ~cfg.clearOnWhitelist
      /\ i \in Nat /\ DOMAIN Rules = 1..Len(Rules) /\ Len(Rules) \in Nat
      /\ clock \in Nat /\ clock' \in Nat /\ clock <= clock'
      /\ Rules[i].window \in Nat /\ Rules[i].count \in Nat
      /\ \A p \in Probes : probe[p].now \in Nat
  BY ClockStep, ProbeType, RuleType, RulesAssumption, LenProperties
     DEF Inv, TypeInv, TypeOK
<1> DEFINE F == Failures(ip, clock - Rules[i].window)
           G == Failures(ip, clock - Rules[i].window)'
<1>2. CASE \E q \in G : ~Charged(q)
  <2>1. PICK q \in Probes : Charged(q)' /\ probe'[q].ip = ip /\ ~Charged(q)
    BY <1>2 DEF Failures
  <2>2. AppendFailure(q)
    BY <1>1, <2>1, NewCharge
  <2>3. probe'[q].pc = "count" /\ probe'[q].rule = 1
    BY <1>1, <2>2, ProbeType DEF AppendFailure, Becomes, TypeInv, TypeOK, Probe
  <2>4. WillBan(q, ip, i)'
    BY <1>1, <2>1, <2>3 DEF WillBan, At
  <2>5. QED
    BY <2>4
<1>3. CASE \A q \in G : Charged(q)
  <2>1. G \subseteq F
    <3>1. ASSUME NEW q \in G PROVE q \in F
      <4>1. q \in Probes /\ Charged(q) /\ probe'[q].ip = ip
            /\ probe'[q].now >= clock' - Rules[i].window
        BY <1>3 DEF Failures
      <4>2. probe'[q].ip = probe[q].ip /\ probe'[q].now = probe[q].now
        BY <1>1, <4>1, PastStays
      <4>3. probe[q].now >= clock - Rules[i].window
        BY <1>1, <4>1, <4>2
      <4>4. QED
        BY <4>1, <4>2, <4>3 DEF Failures
    <3>2. QED
      BY <3>1
  <2>2. Cardinality(F) >= Rules[i].count
    <3>1. IsFiniteSet(F) /\ Cardinality(F) \in Nat
      BY FailuresFinite
    <3>2. Cardinality(G) <= Cardinality(F) /\ Cardinality(G) \in Nat
      BY <2>1, <3>1, FS_Subset, FS_CardinalityType
    <3>3. QED
      BY <1>1, <3>1, <3>2
  <2>3. Permanent(ip) \/ \E p \in Probes : WillBan(p, ip, i)
    BY <1>1, <2>2 DEF TierInv
  <2>4. CASE Permanent(ip)
    <3>1. PICK b \in bans : b.ip = ip /\ b.permanent
      BY <2>4 DEF Permanent
    <3>2. b \in bans'
      BY <3>1, PermanentStep DEF Inv, FloodInv
    <3>3. QED
      BY <3>1, <3>2 DEF Permanent
  <2>5. CASE \E p \in Probes : WillBan(p, ip, i)
    BY <1>1, <2>2, <2>5, WillBanStep
  <2>6. QED
    BY <2>3, <2>4, <2>5
<1>4. QED
  BY <1>2, <1>3

\* All of it holds from the start: nobody has failed.
LEMMA TierInit == Init => LogComplete /\ TierLocals /\ TierInv
<1> SUFFICES ASSUME Init PROVE LogComplete /\ TierLocals /\ TierInv
  OBVIOUS
<1>1. ASSUME NEW p \in Probes PROVE probe[p] = Unserved /\ ~Charged(p)
  BY DEF Init, Charged, At, Unserved
<1>2. ASSUME NEW ip \in IPs, NEW i \in DOMAIN Rules
      PROVE  ~(Cardinality(Failures(ip, clock - Rules[i].window)) >= Rules[i].count)
  <2>1. Failures(ip, clock - Rules[i].window) = {}
    BY <1>1 DEF Failures
  <2>2. QED
    BY <2>1, RuleType, FS_EmptySet
<1>3. QED
  BY <1>1, <1>2 DEF LogComplete, TierLocals, Locals, TierInv, Unserved

\* When windows are within the retention, a permanent tier reached bans for good
\* as soon as nobody is still counting.
THEOREM TiersDoFire ==
  ASSUME WindowsKept
  PROVE  Spec => []TiersFire
<1>1. Inv /\ LogComplete /\ TierLocals /\ TierInv /\ [Next]_vars
        => (LogComplete /\ TierLocals /\ TierInv)'
  BY LogCompleteStep, LocalsStep, TierStep DEF Inv
<1>2. TierInv => TiersFire
  BY DEF TierInv, TiersFire, WillBan
<1>3. QED
  BY TierInit, Invariant, <1>1, <1>2, PTL DEF Spec
-----------------------------------------------------------------------------
(* Who is banned for good stays out *)

\* Where a request that came from a banned address can be, and what its answer is not.
Out(r) ==
  /\ r.pc # "basic"
  /\ r.pc \in {"stamp", "upsert"} => r.whitelisted
  /\ r.reason # "ok"
  /\ r.reason = "whitelisted" => cfg.overridesBan

Barred(p, ip) ==
  cfg.floodEnabled /\ Permanent(ip) /\ (probe[p].ip = ip => Out(probe[p]))

\* The handler's steps from where such a request can be.
LEMMA OutStep ==
  ASSUME TypeInv, Stages, OneBanPerIP, [Next]_vars, NEW p \in Probes, NEW ip \in IPs,
         cfg.floodEnabled, Permanent(ip), probe[p].ip = ip, Out(probe[p])
  PROVE  Out(probe[p])'
<1>1. /\ Stage(probe[p]) /\ probe[p] \in Probe
      /\ \A r : Becomes(p, r) => probe'[p] = r
      /\ cfg' = cfg
  BY ProbeType, ClockStep DEF Stages, Becomes, TypeInv, TypeOK
<1> SUFFICES Out(probe'[p])
  BY <1>1 DEF Out
<1>2. CASE probe'[p] = probe[p]
  BY <1>2
<1>3. CASE CheckWhitelist(p)
  BY <1>1, <1>3 DEF CheckWhitelist, ChecksBan, Out, Stage, Probe, At
<1>4. CASE ReadClock(p)
  BY <1>1, <1>4 DEF ReadClock, Out, Probe, At
<1>5. CASE UpsertNow(p)
  BY <1>1, <1>5 DEF UpsertNow, Whitelisted, Answered, ChecksBan, Out, Probe, At
<1>6. CASE ClearFailures(p)
  BY <1>1, <1>6 DEF ClearFailures, Whitelisted, Answered, ChecksBan, Out, Stage, Probe, At
<1>7. CASE CheckBan(p)
  <2>1. PICK b \in bans : b.ip = ip /\ b.permanent
    BY DEF Permanent
  <2>2. Bans!IsBanned(bans, probe[p].ip, probe[p].now) = {b}
    BY <1>1, <2>1 DEF Bans!IsBanned, Bans!SameIP, Bans!Active, OneBanPerIP
  <2>3. probe'[p] = Answered(p, "banned")
    BY <1>1, <1>7, <2>1, <2>2 DEF CheckBan
  <2>4. QED
    BY <1>1, <2>3 DEF Answered, Out, Probe
<1>8. CASE BasicAuth(p)
  BY <1>8 DEF BasicAuth, Out, At
<1>9. CASE AppendFailure(p)
  BY <1>1, <1>9 DEF AppendFailure, Out, Probe
<1>10. CASE CountRule(p)
  <2>1. probe'[p].pc = "count" /\ probe'[p].reason = probe[p].reason
    BY <1>1, <1>10, CountRuleRecord, FollowsStep DEF Follows
  <2>2. QED
    BY <2>1 DEF Out
<1>11. CASE Punish(p)
  <2>1. probe'[p].pc = "done" /\ probe'[p].reason = probe[p].reason
    <3>1. probe'[p] = Answered(p, probe[p].reason)
      BY <1>1, <1>11 DEF Punish
    <3>2. QED
      BY <1>1, <3>1 DEF Answered, Probe
  <2>2. QED
    BY <2>1 DEF Out
<1>12. CASE Refuse(p) \/ Arrive(p)
  <2>1. At(p, "idle")
    BY <1>12 DEF Refuse, Arrive
  <2>2. QED
    BY <1>1, <2>1, NoIPAssumption DEF Stage, Unserved, At
<1>13. QED
  BY <1>1, <1>2, <1>3, <1>4, <1>5, <1>6, <1>7, <1>8, <1>9, <1>10, <1>11, <1>12, OwnStep
     DEF Handle

\* A barred request stays barred, from its arrival on.
LEMMA BarredStep ==
  ASSUME Inv, [Next]_vars, NEW p \in Probes, NEW ip \in IPs, Barred(p, ip)
  PROVE  Barred(p, ip)'
<1>1. /\ TypeInv /\ Stage(probe[p]) /\ probe[p] \in Probe
      /\ \A r : Becomes(p, r) => probe'[p] = r
      /\ cfg' = cfg
  BY ProbeType, ClockStep DEF Inv, Stages, Becomes, TypeInv, TypeOK
<1>2. Permanent(ip)'
  BY PermanentStep DEF Barred, Permanent, Inv, FloodInv
<1>3. ASSUME probe'[p].ip = ip PROVE Out(probe[p])'
  <2>1. CASE probe[p].ip = ip
    BY <2>1, OutStep DEF Barred, Inv, FloodInv
  <2>2. CASE probe[p].ip # ip
    <3>1. probe[p].pc = "idle" /\ probe[p].reason = "none" /\ probe'[p] # probe[p]
      BY <1>1, <1>3, <2>2, FollowsStep DEF Follows, Stage, Inv, Unserved
    <3>2. Refuse(p) \/ Arrive(p)
      BY <1>1, <3>1, OwnStep DEF Handle, CheckWhitelist, ReadClock, UpsertNow,
         ClearFailures, CheckBan, BasicAuth, AppendFailure, CountRule, Punish, At
    <3>3. CASE Refuse(p)
      <4>1. probe'[p].pc = "done" /\ probe'[p].reason = "refused"
        BY <1>1, <3>3 DEF Refuse, Answered, Probe
      <4>2. QED
        BY <4>1 DEF Out
    <3>4. CASE Arrive(p)
      <4>1. PICK label \in {"whitelist", "ban"}, x \in IPs :
              Becomes(p, [probe[p] EXCEPT !.pc = label, !.ip = x, !.now = clock])
        BY <3>4 DEF Arrive, ChecksBan, Barred
      <4>2. probe'[p].pc = label /\ probe'[p].reason = "none"
        BY <1>1, <3>1, <4>1 DEF Probe
      <4>3. QED
        BY <4>2 DEF Out
    <3>5. QED
      BY <3>2, <3>3, <3>4
  <2>3. QED
    BY <2>1, <2>2
<1>4. QED
  BY <1>1, <1>2, <1>3 DEF Barred

\* Whoever comes from an address banned for good does not get in.
THEOREM BannedOut == Spec => BannedStaysOut
<1> DEFINE Comes(p, ip) == cfg.floodEnabled /\ Permanent(ip) /\ At(p, "idle")
           In(p, ip) == probe[p].ip = ip =>
                          /\ probe[p].reason # "ok"
                          /\ probe[p].reason = "whitelisted" => cfg.overridesBan
<1>1. ASSUME NEW p \in Probes, NEW ip \in IPs
      PROVE  Spec => [](Comes(p, ip) => []In(p, ip))
  <2>1. Inv /\ Comes(p, ip) => Barred(p, ip)
    BY NoIPAssumption DEF Inv, Stages, Stage, Unserved, At, Barred
  <2>2. Inv /\ Barred(p, ip) /\ [Next]_vars => Barred(p, ip)'
    BY BarredStep
  <2>3. Barred(p, ip) => In(p, ip)
    BY DEF Barred, Out
  <2> HIDE DEF Comes, In
  <2>4. QED
    BY Invariant, <2>1, <2>2, <2>3, PTL DEF Spec
<1>2. QED
  BY <1>1 DEF BannedStaysOut
-----------------------------------------------------------------------------
(* What a whitelisted request pays for *)

\* Where a whitelisted request can be, and how it can end: a ban is all that can
\* befall it, and only where the whitelist does not override bans.
Covered(r) ==
  r.whitelisted =>
    \/ r.pc \in {"stamp", "upsert", "clear", "ban"} /\ r.reason = "none"
    \/ r.pc = "done" /\ r.reason = "whitelisted"
    \/ ~cfg.overridesBan /\ r.reason \in {"banned", "temp_banned"}

AllCovered == \A p \in Probes : Covered(probe[p])

\* Every step keeps it.
LEMMA CoveredStep ==
  ASSUME Inv, AllCovered, [Next]_vars
  PROVE  AllCovered'
<1> SUFFICES ASSUME NEW p \in Probes PROVE Covered(probe[p])'
  BY DEF AllCovered
<1>1. /\ TypeInv /\ Stage(probe[p]) /\ probe[p] \in Probe /\ Covered(probe[p])
      /\ \A r : Becomes(p, r) => probe'[p] = r
      /\ cfg' = cfg
  BY ProbeType, ClockStep DEF Inv, Stages, AllCovered, Becomes, TypeInv, TypeOK
<1> SUFFICES Covered(probe'[p])
  BY <1>1 DEF Covered
<1>2. CASE probe'[p] = probe[p]
  BY <1>1, <1>2
<1>3. CASE CheckWhitelist(p)
  BY <1>1, <1>3 DEF CheckWhitelist, Covered, Stage, Probe, At
<1>4. CASE ReadClock(p)
  BY <1>1, <1>4 DEF ReadClock, Covered, Stage, Probe, At
<1>5. CASE UpsertNow(p) \/ ClearFailures(p)
  <2>1. probe[p].pc \in {"upsert", "clear"} /\ probe[p].reason = "none"
    BY <1>1, <1>5 DEF UpsertNow, ClearFailures, Stage, At
  <2>2. \/ ~probe[p].whitelisted /\ probe'[p] = Answered(p, "ok")
        \/ probe'[p] = Answered(p, "whitelisted")
        \/ \E label \in {"clear", "ban"} : probe'[p] = [probe[p] EXCEPT !.pc = label]
    <3>1. CASE UpsertNow(p)
      BY <1>1, <3>1 DEF UpsertNow, Whitelisted
    <3>2. CASE ClearFailures(p)
      BY <1>1, <3>2 DEF ClearFailures, Whitelisted
    <3>3. QED
      BY <1>5, <3>1, <3>2
  <2>3. QED
    BY <1>1, <2>1, <2>2 DEF Answered, Covered, Probe
<1>6. CASE CheckBan(p)
  <2>1. probe[p].whitelisted => ~cfg.overridesBan
    BY <1>1, <1>6 DEF CheckBan, Stage, At
  <2>2. \/ probe'[p] = Answered(p, "whitelisted")
        \/ ~probe[p].whitelisted /\ probe'[p] = [probe[p] EXCEPT !.pc = "basic"]
        \/ \E reason \in {"banned", "temp_banned"} :
             probe'[p] \in {Answered(p, reason), Recording(p, reason)}
    <3>1. CASE Bans!IsBanned(bans, probe[p].ip, probe[p].now) = {}
      BY <1>1, <1>6, <3>1 DEF CheckBan
    <3>2. CASE Bans!IsBanned(bans, probe[p].ip, probe[p].now) # {}
      <4>1. PICK ban : Becomes(p, IF ban.permanent THEN Answered(p, "banned")
                                  ELSE IF cfg.countTempBanProbes
                                       THEN Recording(p, "temp_banned")
                                  ELSE Answered(p, "temp_banned"))
        BY <1>6, <3>2, Zenon DEF CheckBan
      <4>2. PICK r : /\ Becomes(p, r)
                     /\ \E reason \in {"banned", "temp_banned"} :
                          r \in {Answered(p, reason), Recording(p, reason)}
        BY <4>1
      <4>3. QED
        BY <1>1, <4>2
    <3>3. QED
      BY <3>1, <3>2
  <2>3. \A reason : /\ Answered(p, reason).whitelisted = probe[p].whitelisted
                   /\ Answered(p, reason).pc = "done" /\ Answered(p, reason).reason = reason
                   /\ Recording(p, reason).whitelisted = probe[p].whitelisted
                   /\ Recording(p, reason).reason = reason
    BY <1>1 DEF Answered, Recording, Probe
  <2>4. CASE probe'[p] = [probe[p] EXCEPT !.pc = "basic"]
    BY <1>1, <2>2, <2>3, <2>4 DEF Covered, Probe
  <2>5. CASE probe'[p] # [probe[p] EXCEPT !.pc = "basic"]
    BY <2>1, <2>2, <2>3, <2>5 DEF Covered
  <2>6. QED
    BY <2>4, <2>5
<1>7. CASE BasicAuth(p)
  <2>1. ~probe[p].whitelisted
    BY <1>1, <1>7 DEF BasicAuth, Stage, At
  <2>2. \/ probe'[p] = [probe[p] EXCEPT !.pc = "stamp"]
        \/ \E reason \in Reasons :
             probe'[p] \in {Answered(p, reason), Recording(p, reason)}
    BY <1>1, <1>7 DEF BasicAuth, Reasons
  <2>3. QED
    BY <1>1, <2>1, <2>2 DEF Answered, Recording, Covered, Probe
<1>8. CASE AppendFailure(p)
  BY <1>1, <1>8 DEF AppendFailure, Covered, Probe, At
<1>9. CASE CountRule(p)
  <2>1. /\ probe'[p].pc = "count" /\ probe[p].pc = "count"
        /\ probe'[p].reason = probe[p].reason
        /\ probe'[p].whitelisted => probe[p].whitelisted
    BY <1>1, <1>9, CountRuleRecord, FollowsStep DEF Follows, Inv
  <2>2. QED
    BY <1>1, <2>1 DEF Covered
<1>10. CASE Punish(p)
  <2>1. probe'[p] = Answered(p, probe[p].reason) /\ probe[p].pc = "count"
    BY <1>1, <1>10 DEF Punish, At
  <2>2. QED
    BY <1>1, <2>1 DEF Answered, Covered, Probe
<1>11. CASE Refuse(p)
  BY <1>1, <1>11 DEF Refuse, Answered, Covered, Stage, Probe, At
<1>12. CASE Arrive(p)
  <2>1. PICK ip \in IPs, label \in Steps :
          Becomes(p, [probe[p] EXCEPT !.pc = label, !.ip = ip, !.now = clock])
    BY <1>12 DEF Arrive, Steps
  <2>2. ~probe'[p].whitelisted
    BY <1>1, <1>12, <2>1 DEF Arrive, Stage, Probe, At
  <2>3. QED
    BY <2>2 DEF Covered
<1>13. QED
  BY <1>1, <1>2, <1>3, <1>4, <1>5, <1>6, <1>7, <1>8, <1>9, <1>10, <1>11, <1>12,
     OwnStep DEF Handle

\* It holds in every state of every run.
LEMMA Coverage == Spec => []AllCovered
<1>1. Init => AllCovered
  BY DEF Init, AllCovered, Covered, Unserved
<1>2. Inv /\ AllCovered /\ [Next]_vars => AllCovered'
  BY CoveredStep
<1>3. QED
  BY <1>1, <1>2, Invariant, PTL DEF Spec

\* A whitelisted request is charged for nothing but meeting a temporary ban where
\* bans are enforced for whitelisted addresses too.
WhitelistedChargedForBanOnly ==
  \A p \in Probes : probe[p].whitelisted /\ Charged(p) =>
    ~cfg.overridesBan /\ cfg.countTempBanProbes /\ probe[p].reason = "temp_banned"

\* The run "whitelisted_charged" shows that the exception exists; there is no other.
THEOREM WhitelistedPaysForBans == Spec => []WhitelistedChargedForBanOnly
<1>1. Inv /\ AllCovered => WhitelistedChargedForBanOnly
  <2> SUFFICES ASSUME Inv, AllCovered, NEW p \in Probes, probe[p].whitelisted, Charged(p)
               PROVE  ~cfg.overridesBan /\ cfg.countTempBanProbes
                        /\ probe[p].reason = "temp_banned"
    BY DEF WhitelistedChargedForBanOnly
  <2>1. Stage(probe[p]) /\ Covered(probe[p])
    BY DEF Inv, Stages, AllCovered
  <2>2. probe[p].reason \in ChargedReasons
    BY <2>1 DEF Charged, Stage, At
  <2>3. probe[p].reason \notin {"none", "whitelisted", "banned"}
    BY <2>2 DEF ChargedReasons
  <2>4. ~cfg.overridesBan /\ probe[p].reason = "temp_banned"
    BY <2>1, <2>3 DEF Covered
  <2>5. QED
    BY <2>2, <2>4 DEF ChargedReasons
<1>2. QED
  BY <1>1, Invariant, Coverage, PTL

\* So where the whitelist overrides bans, as it does by default, what the README
\* says is true: whitelisted addresses skip flood recording entirely.
THEOREM OverridingWhitelistIsFree ==
  ASSUME \A s \in Settings : s.overridesBan
  PROVE  Spec => []WhitelistedNotCharged
<1>1. TypeOK /\ WhitelistedChargedForBanOnly => WhitelistedNotCharged
  BY DEF TypeOK, WhitelistedChargedForBanOnly, WhitelistedNotCharged
<1>2. QED
  BY <1>1, TypeCorrect, WhitelistedPaysForBans, PTL
=============================================================================
