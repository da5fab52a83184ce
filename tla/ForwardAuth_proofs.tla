------------------------- MODULE ForwardAuth_proofs -------------------------
(***************************************************************************)
(* Theorems about ForwardAuth, for any requests, addresses, settings,      *)
(* tiers, periods and bound of the clock.                                  *)
(***************************************************************************)
EXTENDS ForwardAuth, FiniteSetTheorems, SequenceTheorems, TLAPS

-----------------------------------------------------------------------------
(* Facts about the operators of the bundles *)

\* A tier has the type its assumption gives it, and its position is a number.
LEMMA RuleType ==
  ASSUME NEW i \in DOMAIN Rules
  PROVE  /\ Rules[i].count \in Nat \ {0}
         /\ Rules[i].window \in Nat \ {0}
         /\ Rules[i].temp \in Nat
         /\ Rules[i].permanent \in BOOLEAN
         /\ i \in Nat
<1>1. DOMAIN Rules = 1..Len(Rules) /\ Len(Rules) \in Nat
  BY RulesAssumption, LenProperties
<1>2. Rules[i] \in Rule
  BY <1>1, RulesAssumption, LenProperties
<1>3. QED
  BY <1>1, <1>2 DEF Rule

\* A tier turns a probe of a known address into a well-formed ban.
LEMMA BanFromRuleType ==
  ASSUME NEW ip \in IPs, NEW now \in Nat, NEW i \in DOMAIN Rules
  PROVE  BanFromRule(ip, now, i) \in Ban
<1>1. now + Rules[i].temp \in Nat
  BY RuleType
<1>2. QED
  BY <1>1, RuleType DEF BanFromRule, Ban

-----------------------------------------------------------------------------
(* Type correctness *)

\* What TypeOK needs of the locals to be inductive: a handler on its way has
\* resolved its address.
Located == \A p \in Probes : ~At(p, "idle") /\ ~At(p, "done") => probe[p].ip \in IPs

TypeInv == TypeOK /\ Located

\* A step of one handler gives its own probe a new record and no other.
LEMMA BecomesType ==
  ASSUME TypeInv, NEW p \in Probes, NEW r \in Probe, Becomes(p, r),
         r.pc \notin {"idle", "done"} => r.ip \in IPs
  PROVE  /\ probe' \in [Probes -> Probe]
         /\ Located'
         /\ probe'[p] = r
         /\ \A q \in Probes \ {p} : probe'[q] = probe[q]
BY DEF TypeInv, TypeOK, Located, Becomes, At

\* The record of one probe, field by field.
LEMMA ProbeType ==
  ASSUME TypeInv, NEW p \in Probes
  PROVE  /\ probe[p] \in Probe
         /\ probe[p].now \in Nat /\ probe[p].stamp \in Nat
         /\ probe[p].best \subseteq Ban
         /\ probe[p].pc \notin {"idle", "done"} => probe[p].ip \in IPs
BY DEF TypeInv, TypeOK, Located, At, Probe

\* A handler step that changes its own probe and nothing else keeps the types.
LEMMA LocalType ==
  ASSUME TypeInv, NEW p \in Probes, NEW r \in Probe, Becomes(p, r),
         r.pc \notin {"idle", "done"} => r.ip \in IPs,
         UNCHANGED <<cfg, clock, whitelist, entries, bans, cleanup>>
  PROVE  TypeInv'
BY BecomesType DEF TypeInv, TypeOK

\* Both ways to answer, and the way to RecordFailure, give well-formed records.
LEMMA AnswerType ==
  ASSUME TypeInv, NEW p \in Probes, NEW reason \in Reasons
  PROVE  /\ Answered(p, reason) \in Probe
         /\ Answered(p, reason).pc = "done"
         /\ Recording(p, reason) \in Probe
         /\ Recording(p, reason).pc = "append"
         /\ Recording(p, reason).ip = probe[p].ip
BY ProbeType DEF Answered, Recording, Probe, Steps

\* What a whitelisted probe becomes after its renewal.
LEMMA WhitelistedType ==
  ASSUME TypeInv, NEW p \in Probes, probe[p].pc \notin {"idle", "done"}
  PROVE  /\ Whitelisted(p) \in Probe
         /\ Whitelisted(p).pc # "done" => Whitelisted(p).ip \in IPs
<1>1. Answered(p, "whitelisted") \in Probe /\ Answered(p, "whitelisted").pc = "done"
  BY AnswerType DEF Reasons
<1>2. QED
  BY <1>1, ProbeType DEF Whitelisted, Probe, Steps

\* Type correctness is kept by every step of the handlers and of the loops.
LEMMA TypeStep ==
  ASSUME TypeInv, [Next]_vars
  PROVE  TypeInv'
<1>1. CASE Tick
  BY <1>1 DEF Tick, TypeInv, TypeOK, Located, At
<1>2. ASSUME NEW p \in Probes, Refuse(p) PROVE TypeInv'
  BY <1>2, LocalType, AnswerType DEF Refuse, Reasons
<1>3. ASSUME NEW p \in Probes, Arrive(p) PROVE TypeInv'
  <2>1. PICK ip \in IPs, label \in {"whitelist", "ban", "basic"} :
          Becomes(p, [probe[p] EXCEPT !.pc = label, !.ip = ip, !.now = clock])
    BY <1>3 DEF Arrive
  <2> DEFINE r == [probe[p] EXCEPT !.pc = label, !.ip = ip, !.now = clock]
  <2>2. r \in Probe /\ r.ip \in IPs
    BY ProbeType DEF Probe, Steps, TypeInv, TypeOK
  <2>3. QED
    BY <1>3, <2>1, <2>2, LocalType DEF Arrive
<1>4. ASSUME NEW p \in Probes, CheckWhitelist(p) PROVE TypeInv'
  <2>1. PICK found \in BOOLEAN, label \in {"stamp", "ban", "basic"} :
          Becomes(p, [probe[p] EXCEPT !.pc = label, !.whitelisted = found])
    <3>1. Whitelist!Contains(whitelist, probe[p].ip, probe[p].now, Period) \in BOOLEAN
      BY DEF Whitelist!Contains
    <3>2. QED
      BY <1>4, <3>1 DEF CheckWhitelist
  <2> DEFINE r == [probe[p] EXCEPT !.pc = label, !.whitelisted = found]
  <2>2. r \in Probe /\ r.ip \in IPs
    BY <1>4, ProbeType DEF CheckWhitelist, At, Probe, Steps
  <2>3. QED
    BY <1>4, <2>1, <2>2, LocalType DEF CheckWhitelist
<1>5. ASSUME NEW p \in Probes, ReadClock(p) PROVE TypeInv'
  <2> DEFINE r == [probe[p] EXCEPT !.pc = "upsert", !.stamp = clock]
  <2>1. r \in Probe /\ r.ip \in IPs
    BY <1>5, ProbeType DEF ReadClock, At, Probe, Steps, TypeInv, TypeOK
  <2>2. QED
    BY <1>5, <2>1, LocalType DEF ReadClock
<1>6. ASSUME NEW p \in Probes, UpsertNow(p) PROVE TypeInv'
  <2>1. whitelist' \subseteq Element
    BY <1>6, ProbeType DEF UpsertNow, At, Whitelist!Upsert, Element, TypeInv, TypeOK
  <2>2. Answered(p, "ok") \in Probe /\ Answered(p, "ok").pc = "done"
    BY AnswerType DEF Reasons
  <2>3. [probe[p] EXCEPT !.pc = "clear"] \in Probe
    BY ProbeType DEF Probe, Steps
  <2>4. PICK r \in Probe : Becomes(p, r) /\ (r.pc # "done" => r.ip \in IPs)
    BY <1>6, <2>2, <2>3, WhitelistedType, ProbeType DEF UpsertNow, At, Probe
  <2>5. QED
    BY <1>6, <2>1, <2>4, BecomesType DEF UpsertNow, TypeInv, TypeOK
<1>7. ASSUME NEW p \in Probes, ClearFailures(p) PROVE TypeInv'
  <2>1. entries' \subseteq Entry
    BY <1>7 DEF ClearFailures, Track!RemoveForIP, TypeInv, TypeOK
  <2>2. PICK r \in Probe : Becomes(p, r) /\ (r.pc # "done" => r.ip \in IPs)
    BY <1>7, WhitelistedType DEF ClearFailures, At
  <2>3. QED
    BY <1>7, <2>1, <2>2, BecomesType DEF ClearFailures, TypeInv, TypeOK
<1>8. ASSUME NEW p \in Probes, CheckBan(p) PROVE TypeInv'
  <2>1. [probe[p] EXCEPT !.pc = "basic"] \in Probe
    BY ProbeType DEF Probe, Steps
  <2>2. \A reason \in {"whitelisted", "banned", "temp_banned"} :
          /\ Answered(p, reason) \in Probe /\ Answered(p, reason).pc = "done"
          /\ Recording(p, reason) \in Probe /\ Recording(p, reason).ip = probe[p].ip
    BY AnswerType DEF Reasons
  <2>3. PICK r \in Probe : Becomes(p, r) /\ (r.pc # "done" => r.ip \in IPs)
    BY <1>8, <2>1, <2>2, ProbeType DEF CheckBan, At, Probe
  <2>4. QED
    BY <1>8, <2>3, LocalType DEF CheckBan
<1>9. ASSUME NEW p \in Probes, BasicAuth(p) PROVE TypeInv'
  <2>1. [probe[p] EXCEPT !.pc = "stamp"] \in Probe
    BY ProbeType DEF Probe, Steps
  <2>2. \A reason \in {"no_credentials", "auth_failed", "ok"} :
          /\ Answered(p, reason) \in Probe /\ Answered(p, reason).pc = "done"
          /\ Recording(p, reason) \in Probe /\ Recording(p, reason).ip = probe[p].ip
    BY AnswerType DEF Reasons
  <2>3. PICK r \in Probe : Becomes(p, r) /\ (r.pc # "done" => r.ip \in IPs)
    BY <1>9, <2>1, <2>2, ProbeType DEF BasicAuth, At, Probe
  <2>4. QED
    BY <1>9, <2>3, LocalType DEF BasicAuth
<1>10. ASSUME NEW p \in Probes, AppendFailure(p) PROVE TypeInv'
  <2> DEFINE r == [probe[p] EXCEPT !.pc = "count", !.rule = 1]
  <2>1. r \in Probe /\ r.ip \in IPs
    BY <1>10, ProbeType DEF AppendFailure, At, Probe, Steps
  <2>2. entries' \subseteq Entry
    BY <1>10, ProbeType
       DEF AppendFailure, At, Track!Append, Entry, TypeInv, TypeOK
  <2>3. QED
    BY <1>10, <2>1, <2>2, BecomesType DEF AppendFailure, TypeInv, TypeOK
<1>11. ASSUME NEW p \in Probes, CountRule(p) PROVE TypeInv'
  <2> DEFINE i == probe[p].rule
             r(best) == [probe[p] EXCEPT !.rule = i + 1, !.best = best]
  <2>1. i \in DOMAIN Rules /\ probe[p].ip \in IPs /\ i + 1 \in Nat
    BY <1>11, ProbeType, RuleType DEF CountRule, At
  <2>2. BanFromRule(probe[p].ip, probe[p].now, i) \in Ban
    BY <2>1, ProbeType, BanFromRuleType
  <2>3. PICK best \in SUBSET Ban : Becomes(p, r(best))
    BY <1>11, <2>2, ProbeType DEF CountRule
  <2>4. r(best) \in Probe /\ r(best).ip \in IPs
    BY <2>1, ProbeType DEF Probe
  <2>5. QED
    BY <1>11, <2>3, <2>4, LocalType DEF CountRule
<1>12. ASSUME NEW p \in Probes, Punish(p) PROVE TypeInv'
  <2>1. bans' \subseteq Ban
    BY <1>12, ProbeType
       DEF Punish, Bans!Upsert, Bans!SameIP, TypeInv, TypeOK
  <2>2. Answered(p, probe[p].reason) \in Probe /\ Answered(p, probe[p].reason).pc = "done"
    BY ProbeType, AnswerType DEF Probe
  <2>3. QED
    BY <1>12, <2>1, <2>2, BecomesType DEF Punish, TypeInv, TypeOK
<1>13. CASE CleanupStart
  BY <1>13 DEF CleanupStart, TypeInv, TypeOK, Located, At
<1>14. CASE CleanupTrack
  BY <1>14 DEF CleanupTrack, Track!RemoveOlderThan, TypeInv, TypeOK, Located, At
<1>15. CASE CleanupBans
  BY <1>15 DEF CleanupBans, Bans!RemoveExpired, TypeInv, TypeOK, Located, At
<1>16. CASE SaveWhitelist
  BY <1>16 DEF SaveWhitelist, Whitelist!PruneExpired, TypeInv, TypeOK, Located, At
<1>17. CASE UNCHANGED vars
  BY <1>17 DEF vars, TypeInv, TypeOK, Located, At
<1>18. QED
  BY <1>1, <1>2, <1>3, <1>4, <1>5, <1>6, <1>7, <1>8, <1>9, <1>10, <1>11, <1>12,
     <1>13, <1>14, <1>15, <1>16, <1>17 DEF Next, Handle, Cleanup

\* Every variable keeps its type, in every behaviour.
THEOREM TypeCorrect == Spec => []TypeOK
<1>1. Init => TypeInv
  BY DEF Init, Unserved, TypeInv, TypeOK, Located, At, Probe, Steps, Reasons
<1>2. TypeInv /\ [Next]_vars => TypeInv'
  BY TypeStep
<1>3. QED
  BY <1>1, <1>2, PTL DEF Spec, TypeInv
-----------------------------------------------------------------------------
(* Where a handler is and what its locals hold there *)

\* What each place of the handler says of the locals of a request r.
Stage(r) ==
  /\ r.pc = "idle" => r = Unserved
  /\ r.best # {} => r.pc = "count"
  /\ r.pc \notin {"append", "count", "done"} => r.reason = "none"
  /\ r.pc \in {"append", "count"} => cfg.floodEnabled /\ r.reason \in ChargedReasons
  /\ r.pc = "ban" => cfg.floodEnabled
  /\ r.pc = "ban" /\ r.whitelisted => ~cfg.overridesBan
  /\ r.pc \in {"whitelist", "stamp", "upsert", "clear"} => cfg.whitelistEnabled
  /\ r.whitelisted => r.pc \notin {"idle", "whitelist", "basic"}
  /\ r.pc = "clear" => r.whitelisted /\ cfg.clearOnWhitelist

Stages == \A p \in Probes : Stage(probe[p])

\* A handler step keeps all stages when it leaves its own request in one.
LEMMA StagesLocal ==
  ASSUME TypeInv, Stages, NEW p \in Probes, NEW r, Becomes(p, r),
         Stage(r), UNCHANGED cfg
  PROVE  Stages'
<1>1. ASSUME NEW q \in Probes PROVE probe'[q] = r \/ probe'[q] = probe[q]
  BY DEF TypeInv, TypeOK, Becomes
<1>2. ASSUME NEW q \in Probes PROVE Stage(probe[q])'
  <2>1. PICK x : probe'[q] = x /\ Stage(x)
    BY <1>1 DEF Stages
  <2>2. QED
    BY <2>1 DEF Stage, ChargedReasons
<1>3. QED
  BY <1>2 DEF Stages
\* Answering is a stage from anywhere; recording is one for a reason that counts.
LEMMA StageAnswer ==
  ASSUME TypeInv, Stages, NEW p \in Probes, NEW reason
  PROVE  /\ Stage(Answered(p, reason))
         /\ cfg.floodEnabled /\ reason \in ChargedReasons /\ ~At(p, "count")
              => Stage(Recording(p, reason))
<1>1. Stage(probe[p]) /\ probe[p] \in Probe
  BY ProbeType DEF Stages
<1>2. Stage(Answered(p, reason))
  BY <1>1 DEF Stage, Answered, Probe
<1>3. cfg.floodEnabled /\ reason \in ChargedReasons /\ ~At(p, "count")
        => Stage(Recording(p, reason))
  BY <1>1 DEF Stage, Recording, Probe, At
<1>4. QED
  BY <1>2, <1>3

\* Every step leaves every handler in a stage it can be in.
LEMMA StagesStep ==
  ASSUME TypeInv, Stages, [Next]_vars
  PROVE  Stages'
<1> USE DEF Stage, Probe
<1>0. \A p \in Probes : Stage(probe[p]) /\ probe[p] \in Probe
  BY ProbeType DEF TypeInv, TypeOK, Stages
<1>1. CASE Tick
  BY <1>0, <1>1 DEF Tick, Stages, ChargedReasons
<1>2. ASSUME NEW p \in Probes, Refuse(p) PROVE Stages'
  BY <1>2, StageAnswer, StagesLocal DEF Refuse
<1>3. ASSUME NEW p \in Probes, Arrive(p) PROVE Stages'
  <2> DEFINE r(label, ip) == [probe[p] EXCEPT !.pc = label, !.ip = ip, !.now = clock]
  <2>1. PICK ip \in IPs, label \in {"whitelist", "ban", "basic"} :
          /\ Becomes(p, r(label, ip))
          /\ label = "ban" => cfg.floodEnabled
          /\ label = "whitelist" => cfg.whitelistEnabled
    BY <1>3 DEF Arrive, ChecksBan
  <2>2. /\ probe[p].pc = "idle" /\ probe[p].best = {} /\ probe[p].reason = "none"
        /\ ~probe[p].whitelisted
    BY <1>0, <1>3 DEF Arrive, At
  <2>3. Stage(r(label, ip))
    BY <1>0, <2>1, <2>2
  <2>4. QED
    BY <1>3, <2>1, <2>3, StagesLocal DEF Arrive
<1>4. ASSUME NEW p \in Probes, CheckWhitelist(p) PROVE Stages'
  <2> DEFINE r(label, found) == [probe[p] EXCEPT !.pc = label, !.whitelisted = found]
  <2>1. PICK found \in BOOLEAN, label \in {"stamp", "ban", "basic"} :
          /\ Becomes(p, r(label, found))
          /\ found <=> label = "stamp"
          /\ label = "ban" => cfg.floodEnabled
    <3>1. Whitelist!Contains(whitelist, probe[p].ip, probe[p].now, Period) \in BOOLEAN
      BY DEF Whitelist!Contains
    <3>2. QED
      BY <1>4, <3>1 DEF CheckWhitelist, ChecksBan
  <2>2. /\ probe[p].pc = "whitelist" /\ cfg.whitelistEnabled
        /\ probe[p].best = {} /\ probe[p].reason = "none"
    BY <1>0, <1>4 DEF CheckWhitelist, At
  <2>3. Stage(r(label, found))
    BY <1>0, <2>1, <2>2
  <2>4. QED
    BY <1>4, <2>1, <2>3, StagesLocal DEF CheckWhitelist
<1>5. ASSUME NEW p \in Probes, ReadClock(p) PROVE Stages'
  <2>1. Stage([probe[p] EXCEPT !.pc = "upsert", !.stamp = clock])
    BY <1>0, <1>5 DEF ReadClock, At
  <2>2. QED
    BY <1>5, <2>1, StagesLocal DEF ReadClock
<1>6. ASSUME NEW p \in Probes, UpsertNow(p) PROVE Stages'
  <2>1. PICK r : Becomes(p, r) /\ Stage(r)
    BY <1>0, <1>6, StageAnswer DEF UpsertNow, Whitelisted, ChecksBan, At
  <2>2. QED
    BY <1>6, <2>1, StagesLocal DEF UpsertNow
<1>7. ASSUME NEW p \in Probes, ClearFailures(p) PROVE Stages'
  <2>1. PICK r : Becomes(p, r) /\ Stage(r)
    BY <1>0, <1>7, StageAnswer DEF ClearFailures, Whitelisted, ChecksBan, At
  <2>2. QED
    BY <1>7, <2>1, StagesLocal DEF ClearFailures
<1>8. ASSUME NEW p \in Probes, CheckBan(p) PROVE Stages'
  <2>1. PICK r : Becomes(p, r) /\ Stage(r)
    BY <1>0, <1>8, StageAnswer DEF CheckBan, At, ChargedReasons
  <2>2. QED
    BY <1>8, <2>1, StagesLocal DEF CheckBan
<1>9. ASSUME NEW p \in Probes, BasicAuth(p) PROVE Stages'
  <2>1. PICK r : Becomes(p, r) /\ Stage(r)
    BY <1>0, <1>9, StageAnswer DEF BasicAuth, At, ChargedReasons
  <2>2. QED
    BY <1>9, <2>1, StagesLocal DEF BasicAuth
<1>10. ASSUME NEW p \in Probes, AppendFailure(p) PROVE Stages'
  <2>1. Stage([probe[p] EXCEPT !.pc = "count", !.rule = 1])
    BY <1>0, <1>10 DEF AppendFailure, At
  <2>2. QED
    BY <1>10, <2>1, StagesLocal DEF AppendFailure
<1>11. ASSUME NEW p \in Probes, CountRule(p) PROVE Stages'
  <2> DEFINE r(best) == [probe[p] EXCEPT !.rule = @ + 1, !.best = best]
  <2>1. PICK best : Becomes(p, r(best))
    BY <1>11 DEF CountRule
  <2>2. Stage(r(best))
    BY <1>0, <1>11 DEF CountRule, At
  <2>3. QED
    BY <1>11, <2>1, <2>2, StagesLocal DEF CountRule
<1>12. ASSUME NEW p \in Probes, Punish(p) PROVE Stages'
  BY <1>12, StageAnswer, StagesLocal DEF Punish
<1>13. CASE CleanupStart
  BY <1>0, <1>13 DEF CleanupStart, Stages, ChargedReasons
<1>14. CASE CleanupTrack
  BY <1>0, <1>14 DEF CleanupTrack, Stages, ChargedReasons
<1>15. CASE CleanupBans
  BY <1>0, <1>15 DEF CleanupBans, Stages, ChargedReasons
<1>16. CASE SaveWhitelist
  BY <1>0, <1>16 DEF SaveWhitelist, Stages, ChargedReasons
<1>17. CASE UNCHANGED vars
  BY <1>0, <1>17 DEF vars, Stages, ChargedReasons
<1>18. QED
  BY <1>1, <1>2, <1>3, <1>4, <1>5, <1>6, <1>7, <1>8, <1>9, <1>10, <1>11, <1>12,
     <1>13, <1>14, <1>15, <1>16, <1>17 DEF Next, Handle, Cleanup
-----------------------------------------------------------------------------
(* What a step keeps of a request's past *)

\* How the record r of a request may go on as s.
Follows(r, s) ==
  /\ r.pc # "idle" => s.ip = r.ip /\ s.now = r.now
  /\ r.pc = "done" => s = r
  /\ r.pc = "count" => s.pc \in {"count", "done"} /\ s.reason = r.reason
  /\ r.whitelisted => s.whitelisted
  /\ r.whitelisted /\ r.pc \notin {"stamp", "upsert"} =>
       s.stamp = r.stamp /\ s.pc \notin {"stamp", "upsert"}
  /\ s.pc = "count" => r.pc \in {"append", "count"}
  /\ s.pc = "done" /\ r.pc \notin {"done", "count"} =>
       ~(cfg.floodEnabled /\ s.reason \in ChargedReasons)
  /\ s.whitelisted /\ ~r.whitelisted => r.pc = "whitelist"

\* A handler step that lets its own request go on lets every request go on.
LEMMA FollowsLocal ==
  ASSUME TypeInv, NEW p \in Probes, NEW r, Becomes(p, r), Follows(probe[p], r),
         NEW q \in Probes
  PROVE  Follows(probe[q], probe'[q])
<1>1. probe'[q] = IF q = p THEN r ELSE probe[q]
  BY DEF TypeInv, TypeOK, Becomes
<1>2. Follows(probe[q], probe[q])
  BY DEF Follows
<1>3. QED
  BY <1>1, <1>2

\* The records a handler past its whitelist lookup goes on with.
LEMMA FollowsAnswer ==
  ASSUME TypeInv, NEW p \in Probes, NEW reason, NEW label \in {"ban", "basic", "stamp"},
         probe[p].pc \in {"upsert", "clear", "ban", "basic"}
  PROVE  /\ ~(cfg.floodEnabled /\ reason \in ChargedReasons) =>
              Follows(probe[p], Answered(p, reason))
         /\ Follows(probe[p], Recording(p, reason))
         /\ (label = "stamp" => ~probe[p].whitelisted) =>
              Follows(probe[p], [probe[p] EXCEPT !.pc = label])
BY ProbeType DEF Follows, Answered, Recording, Probe, At

\* Every step of the system lets every request go on and keeps the settings.
LEMMA FollowsStep ==
  ASSUME TypeInv, Stages, [Next]_vars, NEW q \in Probes
  PROVE  cfg' = cfg /\ Follows(probe[q], probe'[q])
<1>0. \A p \in Probes : Stage(probe[p]) /\ probe[p] \in Probe
  BY ProbeType DEF TypeInv, TypeOK, Stages
<1>1. ASSUME probe' = probe PROVE Follows(probe[q], probe'[q])
  BY <1>1 DEF Follows
<1>2. ASSUME NEW p \in Probes, Refuse(p) PROVE Follows(probe[q], probe'[q])
  <2>1. Follows(probe[p], Answered(p, "refused"))
    BY <1>0, <1>2 DEF Refuse, At, Answered, Follows, Probe, ChargedReasons, Stage
  <2>2. QED
    BY <1>2, <2>1, FollowsLocal DEF Refuse
<1>3. ASSUME NEW p \in Probes, Arrive(p) PROVE Follows(probe[q], probe'[q])
  <2> DEFINE r(label, ip) == [probe[p] EXCEPT !.pc = label, !.ip = ip, !.now = clock]
  <2>1. PICK ip \in IPs, label \in {"whitelist", "ban", "basic"} :
          Becomes(p, r(label, ip))
    BY <1>3 DEF Arrive
  <2>2. Follows(probe[p], r(label, ip))
    BY <1>0, <1>3 DEF Arrive, At, Follows, Probe, Stage
  <2>3. QED
    BY <2>1, <2>2, FollowsLocal
<1>4. ASSUME NEW p \in Probes, CheckWhitelist(p) PROVE Follows(probe[q], probe'[q])
  <2> DEFINE r(label, found) == [probe[p] EXCEPT !.pc = label, !.whitelisted = found]
  <2>1. PICK found \in BOOLEAN, label \in {"stamp", "ban", "basic"} :
          Becomes(p, r(label, found))
    <3>1. Whitelist!Contains(whitelist, probe[p].ip, probe[p].now, Period) \in BOOLEAN
      BY DEF Whitelist!Contains
    <3>2. QED
      BY <1>4, <3>1 DEF CheckWhitelist
  <2>2. Follows(probe[p], r(label, found))
    BY <1>0, <1>4 DEF CheckWhitelist, At, Follows, Probe, Stage
  <2>3. QED
    BY <2>1, <2>2, FollowsLocal
<1>5. ASSUME NEW p \in Probes, ReadClock(p) PROVE Follows(probe[q], probe'[q])
  <2>1. Follows(probe[p], [probe[p] EXCEPT !.pc = "upsert", !.stamp = clock])
    BY <1>0, <1>5 DEF ReadClock, At, Follows, Probe
  <2>2. QED
    BY <1>5, <2>1, FollowsLocal DEF ReadClock
<1>6. ASSUME NEW p \in Probes, UpsertNow(p) PROVE Follows(probe[q], probe'[q])
  <2>1. Follows(probe[p], [probe[p] EXCEPT !.pc = "clear"])
    BY <1>0, <1>6 DEF UpsertNow, At, Follows, Probe
  <2>2. /\ Follows(probe[p], [probe[p] EXCEPT !.pc = "ban"])
        /\ Follows(probe[p], Answered(p, "ok"))
        /\ Follows(probe[p], Answered(p, "whitelisted"))
    BY <1>6, FollowsAnswer DEF UpsertNow, At, ChargedReasons
  <2>3. PICK r : Becomes(p, r) /\ Follows(probe[p], r)
    BY <1>6, <2>1, <2>2 DEF UpsertNow, Whitelisted
  <2>4. QED
    BY <2>3, FollowsLocal
<1>7. ASSUME NEW p \in Probes, ClearFailures(p) PROVE Follows(probe[q], probe'[q])
  <2>1. /\ Follows(probe[p], [probe[p] EXCEPT !.pc = "ban"])
        /\ Follows(probe[p], Answered(p, "whitelisted"))
    BY <1>7, FollowsAnswer DEF ClearFailures, At, ChargedReasons
  <2>2. PICK r : Becomes(p, r) /\ Follows(probe[p], r)
    BY <1>7, <2>1 DEF ClearFailures, Whitelisted
  <2>3. QED
    BY <2>2, FollowsLocal
<1>8. ASSUME NEW p \in Probes, CheckBan(p) PROVE Follows(probe[q], probe'[q])
  <2>1. PICK r : Becomes(p, r) /\ Follows(probe[p], r)
    BY <1>8, FollowsAnswer DEF CheckBan, At, ChargedReasons
  <2>2. QED
    BY <2>1, FollowsLocal
<1>9. ASSUME NEW p \in Probes, BasicAuth(p) PROVE Follows(probe[q], probe'[q])
  <2>1. /\ Follows(probe[p], [probe[p] EXCEPT !.pc = "stamp"])
        /\ Follows(probe[p], Answered(p, "ok"))
        /\ Follows(probe[p], Recording(p, "no_credentials"))
        /\ Follows(probe[p], Recording(p, "auth_failed"))
    BY <1>0, <1>9, FollowsAnswer DEF BasicAuth, At, ChargedReasons, Stage
  <2>2. /\ ~(cfg.floodEnabled /\ cfg.countNoCredentials) =>
             Follows(probe[p], Answered(p, "no_credentials"))
        /\ ~cfg.floodEnabled => Follows(probe[p], Answered(p, "auth_failed"))
    BY <1>9, FollowsAnswer DEF BasicAuth, At, ChargedReasons
  <2>3. PICK r : Becomes(p, r) /\ Follows(probe[p], r)
    BY <1>9, <2>1, <2>2 DEF BasicAuth
  <2>4. QED
    BY <2>3, FollowsLocal
<1>10. ASSUME NEW p \in Probes, AppendFailure(p) PROVE Follows(probe[q], probe'[q])
  <2>1. Follows(probe[p], [probe[p] EXCEPT !.pc = "count", !.rule = 1])
    BY <1>0, <1>10 DEF AppendFailure, At, Follows, Probe
  <2>2. QED
    BY <1>10, <2>1, FollowsLocal DEF AppendFailure
<1>11. ASSUME NEW p \in Probes, CountRule(p) PROVE Follows(probe[q], probe'[q])
  <2> DEFINE r(best) == [probe[p] EXCEPT !.rule = @ + 1, !.best = best]
  <2>1. PICK best : Becomes(p, r(best))
    BY <1>11 DEF CountRule
  <2>2. Follows(probe[p], r(best))
    BY <1>0, <1>11 DEF CountRule, At, Follows, Probe
  <2>3. QED
    BY <2>1, <2>2, FollowsLocal
<1>12. ASSUME NEW p \in Probes, Punish(p) PROVE Follows(probe[q], probe'[q])
  <2>1. Follows(probe[p], Answered(p, probe[p].reason))
    BY <1>0, <1>12 DEF Punish, At, Answered, Follows, Probe
  <2>2. QED
    BY <1>12, <2>1, FollowsLocal DEF Punish
<1>13. Follows(probe[q], probe'[q])
  BY <1>1, <1>2, <1>3, <1>4, <1>5, <1>6, <1>7, <1>8, <1>9, <1>10, <1>11, <1>12
     DEF Next, Handle, Cleanup, Tick, CleanupStart, CleanupTrack, CleanupBans,
         SaveWhitelist, vars
<1>14. cfg' = cfg
  BY DEF Next, Handle, Cleanup, vars, Tick, Refuse, Arrive, CheckWhitelist,
         ReadClock, UpsertNow, ClearFailures, CheckBan, BasicAuth, AppendFailure,
         CountRule, Punish, CleanupStart, CleanupTrack, CleanupBans, SaveWhitelist
<1>15. QED
  BY <1>13, <1>14

\* So what has happened to a request stays: the failure charged to it, the
\* whitelist element it made, the answer it got.
LEMMA PastStays ==
  ASSUME TypeInv, Stages, [Next]_vars, NEW q \in Probes
  PROVE  /\ cfg' = cfg
         /\ Charged(q) =>
              /\ Charged(q)'
              /\ probe'[q].ip = probe[q].ip /\ probe'[q].now = probe[q].now
         /\ Upserted(q) =>
              /\ Upserted(q)'
              /\ probe'[q].ip = probe[q].ip /\ probe'[q].stamp = probe[q].stamp
         /\ probe[q].reason = "ok" =>
              probe'[q].reason = "ok" /\ probe'[q].ip = probe[q].ip
         /\ probe[q].whitelisted =>
              /\ probe'[q].whitelisted
              /\ probe'[q].ip = probe[q].ip /\ probe'[q].now = probe[q].now
         /\ ~Charged(q) /\ Charged(q)' => At(q, "append")
         /\ ~probe[q].whitelisted /\ probe'[q].whitelisted => At(q, "whitelist")
<1>1. Stage(probe[q]) /\ probe[q] \in Probe
  BY ProbeType DEF Stages
<1>2. cfg' = cfg /\ Follows(probe[q], probe'[q])
  BY FollowsStep
<1>3. QED
  BY <1>1, <1>2 DEF Follows, Stage, Charged, Upserted, At, ChargedReasons, Unserved

\* What of the past of a request no step of the program takes back.
Kept(q) ==
  /\ Charged(q) =>
       Charged(q)' /\ probe'[q].ip = probe[q].ip /\ probe'[q].now = probe[q].now
  /\ Upserted(q) =>
       Upserted(q)' /\ probe'[q].ip = probe[q].ip /\ probe'[q].stamp = probe[q].stamp
  /\ probe[q].reason = "ok" => probe'[q].reason = "ok" /\ probe'[q].ip = probe[q].ip

\* No step takes it back.
LEMMA KeptStep ==
  ASSUME TypeInv, Stages, [Next]_vars, NEW q \in Probes
  PROVE  Kept(q)
BY PastStays DEF Kept

\* Only the handler of a request changes its record.
LEMMA OwnStep ==
  ASSUME TypeInv, [Next]_vars, NEW q \in Probes, probe'[q] # probe[q]
  PROVE  Refuse(q) \/ Arrive(q) \/ Handle(q)
<1>1. PICK p \in Probes : Refuse(p) \/ Arrive(p) \/ Handle(p)
  BY DEF Next, Cleanup, Tick, CleanupStart, CleanupTrack, CleanupBans,
         SaveWhitelist, vars
<1>2. PICK r : Becomes(p, r)
  BY <1>1 DEF Handle, Refuse, Arrive, CheckWhitelist, ReadClock, UpsertNow,
              ClearFailures, CheckBan, BasicAuth, AppendFailure, CountRule, Punish
<1>3. p = q
  BY <1>2 DEF Becomes, TypeInv, TypeOK
<1>4. QED
  BY <1>1, <1>3

\* The clock goes forward or stands still, the settings stay.
LEMMA ClockStep ==
  ASSUME TypeInv, [Next]_vars
  PROVE  clock \in Nat /\ clock' \in Nat /\ clock <= clock' /\ cfg' = cfg
<1>1. (clock' = clock \/ clock' = clock + 1) /\ cfg' = cfg
  BY DEF Next, Handle, Cleanup, Tick, Refuse, Arrive, CheckWhitelist, ReadClock,
     UpsertNow, ClearFailures, CheckBan, BasicAuth, AppendFailure, CountRule, Punish,
     CleanupStart, CleanupTrack, CleanupBans, SaveWhitelist, vars
<1>2. QED
  BY <1>1 DEF TypeInv, TypeOK

\* Nothing carries an instant the clock has not reached.
Timely == cleanup.now <= clock /\ \A p \in Probes : probe[p].now <= clock

\* An instant is read from the clock, which never goes back.
LEMMA TimelyStep ==
  ASSUME TypeInv, Stages, Timely, [Next]_vars
  PROVE  Timely'
<1>1. /\ clock \in Nat /\ clock' \in Nat /\ clock <= clock' /\ cleanup.now \in Nat
  BY ClockStep DEF TypeInv, TypeOK
<1>2. ASSUME NEW p \in Probes PROVE probe'[p].now <= clock'
  <2>1. /\ probe[p] \in Probe /\ probe[p].now \in Nat /\ probe[p].now <= clock
        /\ \A r : Becomes(p, r) => probe'[p] = r
    BY <1>1, ProbeType DEF Timely, Becomes, TypeInv, TypeOK
  <2>2. CASE Refuse(p)
    BY <1>1, <2>1, <2>2 DEF Refuse, Answered, Probe
  <2>3. CASE Arrive(p)
    <3>1. PICK ip \in IPs, label \in Steps :
            Becomes(p, [probe[p] EXCEPT !.pc = label, !.ip = ip, !.now = clock])
      BY <2>3 DEF Arrive, Steps
    <3>2. QED
      BY <1>1, <2>1, <3>1, <2>3 DEF Arrive, Probe
  <2>4. CASE probe[p].pc # "idle"
    BY <1>1, <2>1, <2>4, FollowsStep DEF Follows
  <2>5. CASE probe'[p] = probe[p]
    BY <1>1, <2>1, <2>5
  <2>6. QED
    BY <2>2, <2>3, <2>4, <2>5, OwnStep
       DEF Handle, CheckWhitelist, ReadClock, UpsertNow, ClearFailures, CheckBan,
           BasicAuth, AppendFailure, CountRule, Punish, At
<1>3. cleanup'.now <= clock'
  <2>1. CASE CleanupStart
    BY <1>1, <2>1 DEF CleanupStart
  <2>2. CASE CleanupTrack
    BY <1>1, <2>2 DEF CleanupTrack, Timely, TypeInv, TypeOK
  <2>3. CASE CleanupBans
    BY <1>1, <2>3 DEF CleanupBans
  <2>4. CASE cleanup' = cleanup
    BY <1>1, <2>4 DEF Timely
  <2>5. QED
    BY <2>1, <2>2, <2>3, <2>4
       DEF Next, Handle, Cleanup, Tick, Refuse, Arrive, CheckWhitelist, ReadClock,
           UpsertNow, ClearFailures, CheckBan, BasicAuth, AppendFailure, CountRule,
           Punish, SaveWhitelist, vars
<1>4. QED
  BY <1>2, <1>3 DEF Timely

-----------------------------------------------------------------------------
(* The whitelist *)

\* The element was put there, at its time, by a probe of its address, and some
\* probe of the address had the right credentials.
Founded(el) ==
  /\ \E q \in Probes : Upserted(q) /\ probe[q].ip = el.ip /\ probe[q].stamp = el.time
  /\ \E q \in Probes : probe[q].reason = "ok" /\ probe[q].ip = el.ip

ElementsFounded == \A el \in whitelist : Founded(el)

WhitelistInv == ElementsFounded /\ GrantTracesToLogin /\ AdmissionIsRecent

\* An element founded stays founded.
LEMMA FoundedStays ==
  ASSUME \A q \in Probes : Kept(q), NEW el, Founded(el)
  PROVE  Founded(el)'
BY DEF Founded, Kept

\* An element that is new was put there by UpsertNow.
LEMMA NewElement ==
  ASSUME TypeInv, [Next]_vars, NEW el \in whitelist', el \notin whitelist
  PROVE  \E p \in Probes :
           UpsertNow(p) /\ el = [ip |-> probe[p].ip, time |-> probe[p].stamp]
BY DEF Next, Handle, Cleanup, Tick, Refuse, Arrive, CheckWhitelist, ReadClock,
       UpsertNow, ClearFailures, CheckBan, BasicAuth, AppendFailure, CountRule,
       Punish, CleanupStart, CleanupTrack, CleanupBans, SaveWhitelist, vars,
       Whitelist!Upsert, Whitelist!PruneExpired

\* A probe newly found whitelisted found an element that covers its arrival.
LEMMA NewGrant ==
  ASSUME TypeInv, Stages, [Next]_vars, NEW p \in Probes,
         ~probe[p].whitelisted, probe'[p].whitelisted
  PROVE  /\ At(p, "whitelist")
         /\ probe'[p].ip = probe[p].ip /\ probe'[p].now = probe[p].now
         /\ \E el \in whitelist :
              /\ el.ip = probe[p].ip
              /\ el.time <= probe[p].now /\ probe[p].now < el.time + Period
<1>1. At(p, "whitelist")
  BY PastStays
<1>2. CheckWhitelist(p)
  BY <1>1, OwnStep
     DEF Handle, Refuse, Arrive, ReadClock, UpsertNow, ClearFailures, CheckBan,
         BasicAuth, AppendFailure, CountRule, Punish, At
<1>3. /\ probe'[p].ip = probe[p].ip /\ probe'[p].now = probe[p].now
  BY <1>1, FollowsStep DEF Follows, At
<1>4. probe'[p].whitelisted =
        Whitelist!Contains(whitelist, probe[p].ip, probe[p].now, Period)
  BY <1>2, ProbeType DEF CheckWhitelist, Becomes, TypeInv, TypeOK, Probe
<1>5. Whitelist!Contains(whitelist, probe[p].ip, probe[p].now, Period)
  BY <1>4
<1>6. QED
  BY <1>1, <1>3, <1>5
     DEF Whitelist!Contains, Whitelist!Active, Whitelist!ExpiresAt

\* Every step keeps the whitelist founded on logins.
LEMMA WhitelistStep ==
  ASSUME TypeInv, Stages, WhitelistInv, [Next]_vars
  PROVE  WhitelistInv'
<1>1. ASSUME NEW el \in whitelist' PROVE Founded(el)'
  <2>1. CASE el \in whitelist
    BY <2>1, KeptStep, FoundedStays DEF WhitelistInv, ElementsFounded
  <2>2. CASE el \notin whitelist
    <3>1. PICK p \in Probes :
            UpsertNow(p) /\ el = [ip |-> probe[p].ip, time |-> probe[p].stamp]
      BY <2>2, NewElement
    <3>2. /\ probe'[p].ip = probe[p].ip /\ probe'[p].stamp = probe[p].stamp
          /\ probe'[p].whitelisted = probe[p].whitelisted
          /\ probe'[p].pc \notin {"stamp", "upsert"}
          /\ ~probe[p].whitelisted => probe'[p].reason = "ok"
      BY <3>1, ProbeType
         DEF UpsertNow, Becomes, Answered, Whitelisted, At, TypeInv, TypeOK, Probe
    <3>3. cfg'.whitelistEnabled
      BY <3>1 DEF UpsertNow, At, Stages, Stage
    <3>4. Upserted(p)'
      BY <3>2, <3>3, ProbeType DEF Upserted, Probe
    <3>5. \E q \in Probes : probe'[q].reason = "ok" /\ probe'[q].ip = el.ip
      <4>1. CASE probe[p].whitelisted
        BY <3>1, <4>1, PastStays DEF WhitelistInv, GrantTracesToLogin
      <4>2. CASE ~probe[p].whitelisted
        BY <3>1, <3>2, <4>2
      <4>3. QED
        BY <4>1, <4>2
    <3>6. QED
      BY <3>1, <3>2, <3>4, <3>5 DEF Founded
  <2>3. QED
    BY <2>1, <2>2
<1>2. ASSUME NEW p \in Probes, probe'[p].whitelisted
      PROVE  \E q \in Probes : probe'[q].ip = probe'[p].ip /\ probe'[q].reason = "ok"
  <2>1. CASE probe[p].whitelisted
    BY <2>1, PastStays DEF WhitelistInv, GrantTracesToLogin
  <2>2. CASE ~probe[p].whitelisted
    BY <1>2, <2>2, NewGrant, PastStays DEF WhitelistInv, ElementsFounded, Founded
  <2>3. QED
    BY <2>1, <2>2
<1>3. ASSUME NEW p \in Probes, probe'[p].whitelisted
      PROVE  \E q \in Probes \ {p} :
               /\ Upserted(q)' /\ probe'[q].ip = probe'[p].ip
               /\ probe'[q].stamp <= probe'[p].now
               /\ probe'[p].now < probe'[q].stamp + Period
  <2>1. CASE probe[p].whitelisted
    BY <2>1, PastStays DEF WhitelistInv, AdmissionIsRecent
  <2>2. CASE ~probe[p].whitelisted
    <3>1. PICK el \in whitelist :
            /\ el.ip = probe[p].ip
            /\ el.time <= probe[p].now /\ probe[p].now < el.time + Period
      BY <1>3, <2>2, NewGrant
    <3>2. PICK q \in Probes :
            Upserted(q) /\ probe[q].ip = el.ip /\ probe[q].stamp = el.time
      BY <3>1 DEF WhitelistInv, ElementsFounded, Founded
    <3>3. q # p
      BY <1>3, <2>2, <3>2, NewGrant DEF Upserted, At, Stages, Stage
    <3>4. QED
      BY <1>3, <2>2, <3>1, <3>2, <3>3, NewGrant, PastStays
  <2>3. QED
    BY <2>1, <2>2
<1>4. QED
  BY <1>1, <1>2, <1>3
     DEF WhitelistInv, ElementsFounded, GrantTracesToLogin, AdmissionIsRecent
-----------------------------------------------------------------------------
(* The failure log and the bans *)

\* An entry is the failure of the request that logged it.
EntryTrue(e) ==
  Charged(e.probe) /\ e.ip = probe[e.probe].ip /\ e.time = probe[e.probe].now

EntriesTrue == \A e \in entries : EntryTrue(e)

\* What BanJustified says of one ban.
Deserved(b) ==
  /\ Cardinality(Failures(b.ip, b.bannedAt - Rules[b.rule].window))
       >= Rules[b.rule].count
  /\ b.permanent = Rules[b.rule].permanent
  /\ ~b.permanent => b.expiresAt = b.bannedAt + Rules[b.rule].temp

\* A punishment on its way is deserved already.
BestDeserved ==
  \A p \in Probes : \A b \in probe[p].best : Deserved(b) /\ b.ip = probe[p].ip

OneBanPerIP == \A b, c \in bans : b.ip = c.ip => b = c

FloodInv == EntriesTrue /\ BanJustified /\ BestDeserved /\ OneBanPerIP

\* There are finitely many failures, and no fewer after a step.
LEMMA FailuresFinite ==
  ASSUME NEW ip, NEW since
  PROVE  IsFiniteSet(Failures(ip, since)) /\ Cardinality(Failures(ip, since)) \in Nat
<1>1. Failures(ip, since) \in SUBSET Probes
  BY DEF Failures
<1>2. QED
  BY <1>1, ProbesAssumption, FS_Subset, FS_CardinalityType

\* A count of the log never exceeds the failures there were.
LEMMA CountBound ==
  ASSUME TypeInv, EntriesTrue, NEW ip, NEW since
  PROVE  /\ IsFiniteSet(Track!Since(entries, ip, since))
         /\ CountSince(ip, since) \in Nat
         /\ CountSince(ip, since) <= Cardinality(Failures(ip, since))
<1> DEFINE S == Track!Since(entries, ip, since)
           F == Failures(ip, since)
           f == [e \in S |-> e.probe]
<1>1. S \subseteq Entry
  BY DEF Track!Since, TypeInv, TypeOK
<1>2. f \in [S -> F]
  BY <1>1 DEF Track!Since, EntriesTrue, EntryTrue, Failures, Entry
<1>3. ASSUME NEW d \in S, NEW e \in S, d.probe = e.probe PROVE d = e
  BY <1>1, <1>3 DEF Track!Since, EntriesTrue, EntryTrue, Entry
<1>4. f \in Injection(S, F)
  BY <1>2, <1>3 DEF Injection, IsInjective
<1>5. IsFiniteSet(S) /\ Cardinality(S) <= Cardinality(F)
  BY <1>4, FailuresFinite, FS_Injection
<1>6. Cardinality(S) \in Nat
  BY <1>5, FS_CardinalityType
<1>7. QED
  BY <1>5, <1>6 DEF CountSince

\* A failure stays a failure of its address and instant.
LEMMA FailuresGrow ==
  ASSUME \A q \in Probes : Kept(q), NEW ip, NEW since
  PROVE  /\ Failures(ip, since) \subseteq Failures(ip, since)'
         /\ Cardinality(Failures(ip, since)) <= Cardinality(Failures(ip, since)')
         /\ Cardinality(Failures(ip, since)') \in Nat
<1>1. Failures(ip, since) \subseteq Failures(ip, since)'
  BY DEF Failures, Kept
<1>2. Failures(ip, since)' \in SUBSET Probes
  BY DEF Failures
<1>3. IsFiniteSet(Failures(ip, since)')
  BY <1>2, ProbesAssumption, FS_Subset
<1>4. QED
  BY <1>1, <1>3, FS_Subset, FS_CardinalityType

\* So an entry stays true ...
LEMMA EntryTrueStays ==
  ASSUME \A q \in Probes : Kept(q), NEW e \in Entry, EntryTrue(e)
  PROVE  EntryTrue(e)'
BY DEF EntryTrue, Entry, Kept

\* ... and a deserved ban stays deserved.
LEMMA DeservedStays ==
  ASSUME \A q \in Probes : Kept(q), NEW b \in Ban, Deserved(b)
  PROVE  Deserved(b)'
<1> DEFINE since == b.bannedAt - Rules[b.rule].window
<1>1. Rules[b.rule].count \in Nat
  BY RuleType DEF Ban
<1>2. /\ Cardinality(Failures(b.ip, since)) \in Nat
      /\ Cardinality(Failures(b.ip, since)) <= Cardinality(Failures(b.ip, since)')
      /\ Cardinality(Failures(b.ip, since)') \in Nat
  BY FailuresFinite, FailuresGrow
<1>3. Cardinality(Failures(b.ip, since)) >= Rules[b.rule].count
  BY DEF Deserved
<1>4. Cardinality(Failures(b.ip, since)') >= Rules[b.rule].count
  BY <1>1, <1>2, <1>3
<1>5. QED
  BY <1>4 DEF Deserved
\* An entry that is new was logged by AppendFailure.
LEMMA NewEntry ==
  ASSUME TypeInv, [Next]_vars, NEW e \in entries', e \notin entries
  PROVE  \E p \in Probes :
           /\ AppendFailure(p)
           /\ e = [probe |-> p, ip |-> probe[p].ip, time |-> probe[p].now]
BY DEF Next, Handle, Cleanup, Tick, Refuse, Arrive, CheckWhitelist, ReadClock,
       UpsertNow, ClearFailures, CheckBan, BasicAuth, AppendFailure, CountRule,
       Punish, CleanupStart, CleanupTrack, CleanupBans, SaveWhitelist, vars,
       Track!Append, Track!RemoveForIP, Track!RemoveOlderThan

\* A ban that is new was imposed by Punish.
LEMMA NewBan ==
  ASSUME TypeInv, [Next]_vars, NEW b \in bans', b \notin bans
  PROVE  \E p \in Probes : Punish(p) /\ b \in probe[p].best
BY DEF Next, Handle, Cleanup, Tick, Refuse, Arrive, CheckWhitelist, ReadClock,
       UpsertNow, ClearFailures, CheckBan, BasicAuth, AppendFailure, CountRule,
       Punish, CleanupStart, CleanupTrack, CleanupBans, SaveWhitelist, vars,
       Bans!Upsert, Bans!SameIP, Bans!RemoveExpired

\* A punishment that is new was picked by CountRule, for a count it saw.
LEMMA NewBest ==
  ASSUME TypeInv, [Next]_vars, NEW p \in Probes,
         NEW b \in probe'[p].best, b \notin probe[p].best
  PROVE  /\ CountRule(p)
         /\ b = BanFromRule(probe[p].ip, probe[p].now, probe[p].rule)
         /\ CountSince(probe[p].ip, probe[p].now - Rules[probe[p].rule].window)
              >= Rules[probe[p].rule].count
<1>1. Refuse(p) \/ Arrive(p) \/ Handle(p)
  BY OwnStep
<1>2. probe[p] \in Probe
  BY ProbeType
<1>3. CountRule(p)
  <2>1. \A r : Becomes(p, r) => probe'[p] = r
    BY DEF Becomes, TypeInv, TypeOK
  <2>2. Refuse(p) => probe'[p].best \subseteq probe[p].best
    BY <1>2, <2>1 DEF Refuse, Answered, Probe
  <2>3. Arrive(p) => probe'[p].best \subseteq probe[p].best
    BY <1>2, <2>1 DEF Arrive, Probe
  <2>4. CheckWhitelist(p) => probe'[p].best \subseteq probe[p].best
    BY <1>2, <2>1 DEF CheckWhitelist, Probe
  <2>5. ReadClock(p) => probe'[p].best \subseteq probe[p].best
    BY <1>2, <2>1 DEF ReadClock, Probe
  <2>6. UpsertNow(p) => probe'[p].best \subseteq probe[p].best
    BY <1>2, <2>1 DEF UpsertNow, Answered, Whitelisted, Probe
  <2>7. ClearFailures(p) => probe'[p].best \subseteq probe[p].best
    BY <1>2, <2>1 DEF ClearFailures, Answered, Whitelisted, Probe
  <2>8. CheckBan(p) => probe'[p].best \subseteq probe[p].best
    BY <1>2, <2>1 DEF CheckBan, Answered, Recording, Probe
  <2>9. BasicAuth(p) => probe'[p].best \subseteq probe[p].best
    BY <1>2, <2>1 DEF BasicAuth, Answered, Recording, Probe
  <2>10. AppendFailure(p) => probe'[p].best \subseteq probe[p].best
    BY <1>2, <2>1 DEF AppendFailure, Probe
  <2>11. Punish(p) => probe'[p].best \subseteq probe[p].best
    BY <1>2, <2>1 DEF Punish, Answered, Probe
  <2>12. QED
    BY <1>1, <2>2, <2>3, <2>4, <2>5, <2>6, <2>7, <2>8, <2>9, <2>10, <2>11 DEF Handle
<1> DEFINE i == probe[p].rule
           candidate == BanFromRule(probe[p].ip, probe[p].now, i)
           better == /\ CountSince(probe[p].ip, probe[p].now - Rules[i].window)
                          >= Rules[i].count
                     /\ \A c \in probe[p].best : Bans!HarsherThan(candidate, c)
           best == IF better THEN {candidate} ELSE probe[p].best
<1>4. Becomes(p, [probe[p] EXCEPT !.rule = i + 1, !.best = best])
  BY <1>3, Zenon DEF CountRule
<1>5. probe'[p].best = best
  <2> HIDE DEF best
  <2>1. QED
    BY <1>2, <1>4 DEF Becomes, TypeInv, TypeOK, Probe
<1>6. better /\ b = candidate
  BY <1>5
<1>7. QED
  BY <1>3, <1>6

\* Every step keeps the log true and the bans deserved.
LEMMA FloodStep ==
  ASSUME TypeInv, Stages, FloodInv, [Next]_vars
  PROVE  FloodInv'
<1> USE DEF FloodInv
<1>0. \A q \in Probes : Kept(q)
  BY KeptStep
<1>1. ASSUME NEW e \in entries' PROVE EntryTrue(e)'
  <2>1. CASE e \in entries
    BY <1>0, <2>1, EntryTrueStays DEF EntriesTrue, TypeInv, TypeOK
  <2>2. CASE e \notin entries
    <3>1. PICK p \in Probes :
            /\ AppendFailure(p)
            /\ e = [probe |-> p, ip |-> probe[p].ip, time |-> probe[p].now]
      BY <2>2, NewEntry
    <3>2. probe'[p].pc = "count" /\ probe'[p].ip = probe[p].ip
          /\ probe'[p].now = probe[p].now
      BY <3>1, ProbeType DEF AppendFailure, Becomes, TypeInv, TypeOK, Probe
    <3>3. QED
      BY <3>1, <3>2 DEF EntryTrue, Charged, At
  <2>3. QED
    BY <2>1, <2>2
<1>2. ASSUME NEW p \in Probes, NEW b \in probe'[p].best
      PROVE  Deserved(b)' /\ b.ip = probe'[p].ip
  <2>1. CASE b \in probe[p].best
    <3>1. At(p, "count") /\ b \in Ban
      BY <2>1, ProbeType DEF Stages, Stage, At
    <3>2. probe'[p].ip = probe[p].ip
      BY <3>1, PastStays DEF Charged
    <3>3. QED
      BY <1>0, <2>1, <3>1, <3>2, DeservedStays DEF BestDeserved
  <2>2. CASE b \notin probe[p].best
    <3> DEFINE i == probe[p].rule
    <3>1. /\ CountRule(p)
          /\ b = BanFromRule(probe[p].ip, probe[p].now, i)
          /\ CountSince(probe[p].ip, probe[p].now - Rules[i].window) >= Rules[i].count
      BY <2>2, NewBest
    <3>2. At(p, "count") /\ i \in DOMAIN Rules
      BY <3>1 DEF CountRule
    <3>3. b \in Ban
      BY <3>1, <3>2, ProbeType, BanFromRuleType DEF At
    <3>4. b.ip = probe[p].ip /\ b.bannedAt = probe[p].now /\ b.rule = i
      BY <3>1 DEF BanFromRule
    <3>5. Cardinality(Failures(b.ip, b.bannedAt - Rules[i].window)) >= Rules[i].count
      BY <3>1, <3>2, <3>4, CountBound, FailuresFinite, RuleType
    <3>6. /\ b.permanent = Rules[i].permanent
          /\ ~b.permanent => b.expiresAt = b.bannedAt + Rules[i].temp
      BY <3>1, <3>4 DEF BanFromRule
    <3>9. Deserved(b)
      BY <3>4, <3>5, <3>6 DEF Deserved
    <3>7. probe'[p].ip = probe[p].ip
      BY <3>2, PastStays DEF Charged
    <3>8. QED
      BY <1>0, <3>3, <3>4, <3>7, <3>9, DeservedStays
  <2>3. QED
    BY <2>1, <2>2
<1>3. ASSUME NEW b \in bans' PROVE Deserved(b)'
  <2>1. CASE b \in bans
    BY <1>0, <2>1, DeservedStays DEF BanJustified, Deserved, TypeInv, TypeOK
  <2>2. CASE b \notin bans
    <3>1. PICK p \in Probes : Punish(p) /\ b \in probe[p].best
      BY <2>2, NewBan
    <3>2. QED
      BY <1>0, <3>1, ProbeType, DeservedStays DEF BestDeserved
  <2>3. QED
    BY <2>1, <2>2
<1>4. OneBanPerIP'
  <2>1. CASE \E p \in Probes : Punish(p)
    BY <2>1 DEF Punish, OneBanPerIP, Bans!Upsert, Bans!SameIP
  <2>2. CASE bans' \subseteq bans
    BY <2>2 DEF OneBanPerIP
  <2>3. QED
    BY <2>1, <2>2 DEF Next, Handle, Cleanup, Tick, Refuse, Arrive, CheckWhitelist,
       ReadClock, UpsertNow, ClearFailures, CheckBan, BasicAuth, AppendFailure,
       CountRule, CleanupStart, CleanupTrack, CleanupBans, SaveWhitelist, vars,
       Bans!RemoveExpired
<1>5. QED
  BY <1>1, <1>2, <1>3, <1>4 DEF EntriesTrue, BestDeserved, BanJustified, Deserved
-----------------------------------------------------------------------------
(* The safety theorems *)

Inv == TypeInv /\ Stages /\ Timely /\ WhitelistInv /\ FloodInv

\* One element per address needs nothing but itself.
OneElementPerIP == \A d, e \in whitelist : d.ip = e.ip => d = e

\* It is kept by every step.
LEMMA OneElementStep ==
  ASSUME OneElementPerIP, [Next]_vars
  PROVE  OneElementPerIP'
<1>1. CASE \E p \in Probes : UpsertNow(p)
  BY <1>1 DEF UpsertNow, OneElementPerIP, Whitelist!Upsert
<1>2. CASE whitelist' \subseteq whitelist
  BY <1>2 DEF OneElementPerIP
<1>3. QED
  BY <1>1, <1>2 DEF Next, Handle, Cleanup, Tick, Refuse, Arrive, CheckWhitelist,
     ReadClock, ClearFailures, CheckBan, BasicAuth, AppendFailure, CountRule, Punish,
     CleanupStart, CleanupTrack, CleanupBans, SaveWhitelist, vars,
     Whitelist!PruneExpired

\* The invariant holds from the start.
LEMMA InvInit == Init => Inv /\ OneElementPerIP
<1> SUFFICES ASSUME Init PROVE Inv /\ OneElementPerIP
  OBVIOUS
<1>1. TypeInv
  BY DEF Init, Unserved, TypeInv, TypeOK, Located, At, Probe, Steps, Reasons
<1>2. ASSUME NEW p \in Probes PROVE probe[p] = Unserved
  BY DEF Init
<1>3. Stages /\ Timely
  BY <1>2 DEF Init, Stages, Stage, Timely, Unserved
<1>4. WhitelistInv /\ OneElementPerIP
  BY <1>2 DEF Init, WhitelistInv, ElementsFounded, GrantTracesToLogin,
              AdmissionIsRecent, OneElementPerIP, Unserved
<1>5. FloodInv
  BY <1>2 DEF Init, FloodInv, EntriesTrue, BanJustified, BestDeserved, OneBanPerIP,
              Unserved
<1>6. QED
  BY <1>1, <1>3, <1>4, <1>5 DEF Inv

\* The invariant is kept by every step.
LEMMA InvStep == Inv /\ [Next]_vars => Inv'
BY TypeStep, StagesStep, TimelyStep, WhitelistStep, FloodStep DEF Inv

\* The invariant holds in every state of every run.
THEOREM Invariant == Spec => []Inv
BY InvInit, InvStep, PTL DEF Spec

\* An address has one ban and one element at most, however upserts interleave.
THEOREM Uniqueness == Spec => []OnePerIP
<1>1. OneElementPerIP /\ [Next]_vars => OneElementPerIP'
  BY OneElementStep
<1>2. Inv /\ OneElementPerIP => OnePerIP
  BY DEF Inv, FloodInv, OneBanPerIP, OneElementPerIP, OnePerIP
<1>3. QED
  BY InvInit, Invariant, <1>1, <1>2, PTL DEF Spec

\* Every whitelisted probe goes back to right credentials from its address, and
\* to an admission of the address less than a period ago.
THEOREM WhitelistEarned == Spec => [](GrantTracesToLogin /\ AdmissionIsRecent)
<1>1. Inv => GrantTracesToLogin /\ AdmissionIsRecent
  BY DEF Inv, WhitelistInv
<1>2. QED
  BY Invariant, <1>1, PTL

\* Every ban is earned by as many failures as its tier asks for.
THEOREM BansEarned == Spec => []BanJustified
<1>1. Inv => BanJustified
  BY DEF Inv, FloodInv
<1>2. QED
  BY Invariant, <1>1, PTL
-----------------------------------------------------------------------------
(* What a step may do to the bans and to the log *)

\* Only a punishment and the cleanup change the bans.
LEMMA BansChange ==
  ASSUME [Next]_vars, bans' # bans
  PROVE  \/ \E p \in Probes : \E ban \in probe[p].best : bans' = Bans!Upsert(bans, ban)
         \/ cleanup.pc = "bans" /\ bans' = Bans!RemoveExpired(bans, cleanup.now)
BY DEF Punish, CleanupBans, Next, Handle, Cleanup, Tick, Refuse, Arrive, CheckWhitelist,
     ReadClock, UpsertNow, ClearFailures, CheckBan, BasicAuth, AppendFailure,
     CountRule, CleanupStart, CleanupTrack, SaveWhitelist, vars

\* A permanent ban survives the upsert of any ban, and the cleanup.
LEMMA PermanentStep ==
  ASSUME OneBanPerIP, [Next]_vars, NEW b \in bans, b.permanent
  PROVE  b \in bans'
<1>1. ASSUME NEW ban PROVE b \in Bans!Upsert(bans, ban)
  BY DEF OneBanPerIP, Bans!Upsert, Bans!SameIP, Bans!HarsherThan
<1>2. ASSUME NEW now PROVE b \in Bans!RemoveExpired(bans, now)
  BY DEF Bans!RemoveExpired
<1>3. QED
  BY <1>1, <1>2, BansChange

\* Once banned for good, banned for good.
THEOREM PermanentStays == Spec => PermanentBanStays
<1>1. Inv /\ [Next]_vars => [\A b \in bans : b.permanent => b \in bans']_vars
  BY PermanentStep DEF Inv, FloodInv
<1>2. QED
  BY Invariant, <1>1, PTL DEF Spec, PermanentBanStays

\* What may happen to a temporary ban that has not ended.
LEMMA WeakenStep ==
  ASSUME Inv, [Next]_vars, NEW b \in bans, ~b.permanent, clock < b.expiresAt
  PROVE  \/ \E c \in bans' :
              c.ip = b.ip /\ (c.permanent \/ c.expiresAt >= b.expiresAt)
         \/ cleanup.pc = "bans" /\ cleanup.now < b.bannedAt
<1>0. /\ b \in Ban /\ clock \in Nat /\ cleanup.now \in Nat /\ cleanup.now <= clock
      /\ OneBanPerIP
  BY DEF Inv, TypeInv, TypeOK, Timely, FloodInv
<1>1. CASE bans' = bans
  BY <1>0, <1>1 DEF Ban
<1>2. ASSUME NEW p \in Probes, NEW ban \in probe[p].best, bans' = Bans!Upsert(bans, ban)
      PROVE  \E c \in bans' : c.ip = b.ip /\ (c.permanent \/ c.expiresAt >= b.expiresAt)
  <2>1. ban \in Ban
    BY ProbeType DEF Inv
  <2>2. CASE ban.ip # b.ip
    <3>1. b \in bans'
      BY <1>2, <2>2 DEF Bans!Upsert, Bans!SameIP
    <3>2. QED
      BY <1>0, <3>1 DEF Ban
  <2>3. CASE ban.ip = b.ip /\ Bans!HarsherThan(ban, b)
    <3>1. Bans!SameIP(bans, ban.ip) = {b}
      BY <1>0, <2>3 DEF Bans!SameIP, OneBanPerIP
    <3>2. ban \in bans'
      BY <1>2, <2>3, <3>1 DEF Bans!Upsert
    <3>3. QED
      BY <1>0, <2>1, <2>3, <3>2 DEF Bans!HarsherThan, Ban
  <2>4. CASE ban.ip = b.ip /\ ~Bans!HarsherThan(ban, b)
    <3>1. b \in bans'
      BY <1>2, <2>4 DEF Bans!Upsert, Bans!SameIP
    <3>2. QED
      BY <1>0, <3>1 DEF Ban
  <2>5. QED
    BY <2>2, <2>3, <2>4
<1>3. CASE cleanup.pc = "bans" /\ bans' = Bans!RemoveExpired(bans, cleanup.now)
  <2>1. CASE b \in bans'
    BY <1>0, <2>1 DEF Ban
  <2>2. CASE b \notin bans'
    BY <1>0, <1>3, <2>2 DEF Bans!RemoveExpired, Bans!Active, Ban
  <2>3. QED
    BY <2>1, <2>2
<1>4. QED
  BY <1>1, <1>2, <1>3, BansChange

\* A temporary ban in force is weakened by nothing but a cleanup older than it.
THEOREM BansHold == Spec => BanWeakensOnlyToOlderCleanup
<1>1. ASSUME Inv, [Next]_vars, NEW b \in bans
      PROVE  \/ b.permanent \/ clock >= b.expiresAt
             \/ \E c \in bans' :
                  c.ip = b.ip /\ (c.permanent \/ c.expiresAt >= b.expiresAt)
             \/ cleanup.pc = "bans" /\ cleanup.now < b.bannedAt
  <2>1. b.expiresAt \in Nat /\ clock \in Nat
    BY <1>1 DEF Inv, TypeInv, TypeOK, Ban
  <2>2. QED
    BY <1>1, <2>1, WeakenStep
<1>2. Inv /\ [Next]_vars =>
        [\A b \in bans :
           \/ b.permanent \/ clock >= b.expiresAt
           \/ \E c \in bans' :
                c.ip = b.ip /\ (c.permanent \/ c.expiresAt >= b.expiresAt)
           \/ cleanup.pc = "bans" /\ cleanup.now < b.bannedAt]_vars
  BY <1>1
<1>3. QED
  BY Invariant, <1>2, PTL DEF Spec, BanWeakensOnlyToOlderCleanup

\* What may happen to a ban that applies at some instant, of a request on its way.
LEMMA MissedStep ==
  ASSUME Inv, [Next]_vars, NEW ip \in IPs, NEW now \in Nat,
         NEW b \in Bans!IsBanned(bans, ip, now)
  PROVE  \/ Bans!IsBanned(bans', b.ip, now) # {}
         \/ \E c \in Bans!SameIP(bans', b.ip) : Bans!HarsherThan(c, b) /\ now < c.bannedAt
         \/ cleanup.pc = "bans" /\ ~Bans!Active(b, cleanup.now)
<1>0. /\ b \in Ban /\ b \in bans /\ b.ip = ip /\ Bans!Active(b, now)
      /\ OneBanPerIP
  BY DEF Inv, TypeInv, TypeOK, FloodInv, Bans!IsBanned, Bans!SameIP
<1>1. CASE b \in bans'
  BY <1>0, <1>1 DEF Bans!IsBanned, Bans!SameIP
<1>2. ASSUME NEW p \in Probes, NEW ban \in probe[p].best, bans' = Bans!Upsert(bans, ban),
             b \notin bans'
      PROVE  \/ Bans!IsBanned(bans', b.ip, now) # {}
             \/ \E c \in Bans!SameIP(bans', b.ip) : Bans!HarsherThan(c, b) /\ now < c.bannedAt
  <2>1. ban \in Ban
    BY ProbeType DEF Inv
  <2>2. ban.ip = b.ip /\ Bans!HarsherThan(ban, b)
    BY <1>0, <1>2 DEF Bans!Upsert, Bans!SameIP
  <2>3. Bans!SameIP(bans, ban.ip) = {b}
    BY <1>0, <2>2 DEF Bans!SameIP, OneBanPerIP
  <2>4. ban \in Bans!SameIP(bans', b.ip)
    BY <1>2, <2>2, <2>3 DEF Bans!Upsert, Bans!SameIP
  <2>5. CASE Bans!Active(ban, now)
    BY <2>4, <2>5 DEF Bans!IsBanned
  <2>6. CASE ~Bans!Active(ban, now)
    <3>1. now < ban.bannedAt
      BY <1>0, <2>1, <2>2, <2>6 DEF Bans!Active, Bans!HarsherThan, Ban
    <3>2. QED
      BY <2>2, <2>4, <3>1
  <2>7. QED
    BY <2>5, <2>6
<1>3. CASE cleanup.pc = "bans" /\ bans' = Bans!RemoveExpired(bans, cleanup.now) /\ b \notin bans'
  BY <1>0, <1>3 DEF Bans!RemoveExpired
<1>4. QED
  BY <1>0, <1>1, <1>2, <1>3, BansChange

\* A request that a ban applies to is let past it only where the ban was extended after
\* the request had come, or by a cleanup whose now is outside of the ban.
THEOREM BansReachTheWaiting == Spec => BanMissedOnlyOnceReplaced
<1>1. ASSUME Inv, [Next]_vars, NEW p \in Probes,
             NEW b \in Bans!IsBanned(bans, probe[p].ip, probe[p].now), At(p, "ban")
      PROVE  \/ Bans!IsBanned(bans', b.ip, probe[p].now) # {}
             \/ \E c \in Bans!SameIP(bans', b.ip) :
                  Bans!HarsherThan(c, b) /\ probe[p].now < c.bannedAt
             \/ cleanup.pc = "bans" /\ ~Bans!Active(b, cleanup.now)
  <2>1. probe[p].now \in Nat
    BY <1>1 DEF Inv, TypeInv, TypeOK, Probe
  <2>2. b.ip = probe[p].ip /\ b.ip \in IPs
    BY <1>1 DEF Inv, TypeInv, TypeOK, Ban, Bans!IsBanned, Bans!SameIP
  <2>3. QED
    BY <1>1, <2>1, <2>2, MissedStep
<1>2. Inv /\ [Next]_vars =>
        [\A p \in Probes : \A b \in Bans!IsBanned(bans, probe[p].ip, probe[p].now) :
           At(p, "ban") =>
             \/ Bans!IsBanned(bans', b.ip, probe[p].now) # {}
             \/ \E c \in Bans!SameIP(bans', b.ip) :
                  Bans!HarsherThan(c, b) /\ probe[p].now < c.bannedAt
             \/ cleanup.pc = "bans" /\ ~Bans!Active(b, cleanup.now)]_vars
  BY <1>1
<1>3. QED
  BY Invariant, <1>2, PTL DEF Spec, BanMissedOnlyOnceReplaced
=============================================================================
