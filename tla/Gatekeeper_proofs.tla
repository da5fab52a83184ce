-------------------------- MODULE Gatekeeper_proofs --------------------------
(***************************************************************************)
(* ForwardAuth implements Gatekeeper, for any requests, addresses,         *)
(* settings, tiers and period: each step of a handler or a loop is a step  *)
(* of the abstract gatekeeper, or shows nothing.                           *)
(***************************************************************************)
EXTENDS Gatekept, Tiers_proofs

-----------------------------------------------------------------------------
(* What the refinement needs beside Inv *)

\* The instant a handler is about to store was read after its request arrived.
Stamped ==
  \A p \in Probes :
    At(p, "upsert") => /\ probe[p].now <= probe[p].stamp
                       /\ probe[p].stamp <= clock

\* Behind a ban, imposed or on its way, stands the charged request that counted.
Counted(b) ==
  \E p \in Probes : Charged(p) /\ probe[p].ip = b.ip /\ probe[p].now = b.bannedAt

BansCounted ==
  /\ \A b \in bans : Counted(b)
  /\ \A p \in Probes : \A b \in probe[p].best : Counted(b)

GateInv == Stamped /\ BansCounted /\ AllCovered

\* The clock was read by ReadClock.
LEMMA StampedStep ==
  ASSUME Inv, Stamped, [Next]_vars
  PROVE  Stamped'
<1> SUFFICES ASSUME NEW p \in Probes, At(p, "upsert")'
             PROVE  probe'[p].now <= probe'[p].stamp /\ probe'[p].stamp <= clock'
  BY DEF Stamped
<1>1. /\ TypeInv /\ Stage(probe[p]) /\ probe[p] \in Probe
      /\ \A r : Becomes(p, r) => probe'[p] = r
      /\ clock \in Nat /\ clock' \in Nat /\ clock <= clock'
      /\ probe[p].now \in Nat /\ probe[p].stamp \in Nat /\ probe[p].now <= clock
  BY ProbeType, ClockStep DEF Inv, Stages, Timely, Becomes, TypeInv, TypeOK
<1>2. CASE probe'[p] = probe[p]
  BY <1>1, <1>2 DEF Stamped, At
<1>3. CASE ReadClock(p)
  BY <1>1, <1>3 DEF ReadClock, Probe
<1>4. CASE Refuse(p) \/ Punish(p)
  BY <1>1, <1>4 DEF Refuse, Punish, Answered, Probe, At
<1>5. CASE Arrive(p)
  <2>1. PICK ip \in IPs, label \in {"whitelist", "ban", "basic"} :
          Becomes(p, [probe[p] EXCEPT !.pc = label, !.ip = ip, !.now = clock])
    BY <1>5 DEF Arrive
  <2>2. QED
    BY <1>1, <2>1 DEF Probe, At
<1>6. CASE CheckWhitelist(p)
  BY <1>1, <1>6 DEF CheckWhitelist, Probe, At
<1>7. CASE UpsertNow(p) \/ ClearFailures(p)
  BY <1>1, <1>7 DEF UpsertNow, ClearFailures, Whitelisted, Answered, Probe, At
<1>8. CASE CheckBan(p)
  BY <1>1, <1>8 DEF CheckBan, Answered, Recording, Probe, At
<1>9. CASE BasicAuth(p)
  BY <1>1, <1>9 DEF BasicAuth, Answered, Recording, Probe, At
<1>10. CASE AppendFailure(p)
  BY <1>1, <1>10 DEF AppendFailure, Probe, At
<1>11. CASE CountRule(p)
  BY <1>1, <1>11, CountRuleRecord DEF At
<1>12. QED
  BY <1>1, <1>2, <1>3, <1>4, <1>5, <1>6, <1>7, <1>8, <1>9, <1>10, <1>11, OwnStep DEF Handle

\* A request that has counted stays charged.
LEMMA CountedStays ==
  ASSUME \A q \in Probes : Kept(q), NEW b, Counted(b)
  PROVE  Counted(b)'
BY DEF Counted, Kept

\* CountRule makes bans of the instant and address of its own request.
LEMMA CountedStep ==
  ASSUME Inv, BansCounted, [Next]_vars
  PROVE  BansCounted'
<1>0. TypeInv /\ Stages /\ \A q \in Probes : Kept(q)
  BY KeptStep DEF Inv
<1>1. ASSUME NEW p \in Probes, NEW b \in probe'[p].best PROVE Counted(b)'
  <2>1. CASE b \in probe[p].best
    BY <1>0, <2>1, CountedStays DEF BansCounted
  <2>2. CASE b \notin probe[p].best
    <3>1. CountRule(p) /\ b = BanFromRule(probe[p].ip, probe[p].now, probe[p].rule)
      BY <1>0, <2>2, NewBest
    <3>2. Charged(p)
      BY <3>1 DEF CountRule, Charged
    <3>3. b.ip = probe[p].ip /\ b.bannedAt = probe[p].now
      BY <3>1 DEF BanFromRule
    <3>4. Counted(b)
      BY <3>2, <3>3 DEF Counted
    <3>5. QED
      BY <1>0, <3>4, CountedStays
  <2>3. QED
    BY <2>1, <2>2
<1>2. ASSUME NEW b \in bans' PROVE Counted(b)'
  <2>1. CASE b \in bans
    BY <1>0, <2>1, CountedStays DEF BansCounted
  <2>2. CASE b \notin bans
    <3>1. PICK p \in Probes : b \in probe[p].best
      BY <1>0, <2>2, NewBan
    <3>2. QED
      BY <1>0, <3>1, CountedStays DEF BansCounted
  <2>3. QED
    BY <2>1, <2>2
<1>3. QED
  BY <1>1, <1>2 DEF BansCounted

\* All three hold in every state.
LEMMA GateInvariant == Spec => []GateInv
<1>1. Init => Stamped /\ BansCounted
  BY DEF Init, Stamped, BansCounted, At, Unserved
<1>2. Inv /\ Stamped /\ BansCounted /\ [Next]_vars => (Stamped /\ BansCounted)'
  BY StampedStep, CountedStep
<1>3. QED
  BY <1>1, <1>2, Invariant, Coverage, PTL DEF Spec, GateInv

-----------------------------------------------------------------------------
(* How the state that the gatekeeper sees moves *)

\* What is seen of one request.
LEMMA VisitOf ==
  ASSUME NEW p \in Probes
  PROVE  /\ Visit[p].state = Progress(p)
         /\ Visit[p].ip = probe[p].ip /\ Visit[p].at = probe[p].now
         /\ Visit[p].charged = Charged(p)
BY DEF Visit

\* What is seen of the requests that a step leaves alone stays the same.
LEMMA OthersSeen ==
  ASSUME TypeInv, NEW p \in Probes, NEW r, Becomes(p, r), cfg' = cfg
  PROVE  \A q \in Probes \ {p} : Visit'[q] = Visit[q]
<1>1. ASSUME NEW q \in Probes \ {p} PROVE Visit'[q] = Visit[q]
  <2>1. probe'[q] = probe[q]
    BY DEF TypeInv, TypeOK, Becomes
  <2>2. Progress(q)' = Progress(q)
    BY <2>1 DEF Progress
  <2>3. Charged(q)' = Charged(q)
    BY <2>1 DEF Charged, At, ChargedReasons
  <2>4. QED
    BY <2>1, <2>2, <2>3 DEF Visit
<1>2. QED
  BY <1>1

\* A step that brings its request to another state, and neither charges nor moves it.
LEMMA GoesSeen ==
  ASSUME TypeInv, NEW p \in Probes, NEW r, Becomes(p, r), cfg' = cfg,
         probe'[p].ip = probe[p].ip, probe'[p].now = probe[p].now,
         Charged(p)' = Charged(p), NEW state, Progress(p)' = state
  PROVE  Gate!Goes(p, state)
<1>1. \A q \in Probes \ {p} : Visit'[q] = Visit[q]
  BY OthersSeen
<1>2. Visit'[p] = [Visit[p] EXCEPT !.state = state]
  BY DEF Visit
<1>3. Visit' = [q \in Probes |-> Visit'[q]] /\ Visit = [q \in Probes |-> Visit[q]]
  BY DEF Visit
<1>4. [Visit EXCEPT ![p].state = state] = [q \in Probes |-> Visit'[q]]
  BY <1>1, <1>2, <1>3
<1>5. QED
  BY <1>3, <1>4 DEF Gate!Goes

\* A step that brings its request to the state it is in shows nothing.
LEMMA StaysSeen ==
  ASSUME TypeInv, NEW p \in Probes, NEW r, Becomes(p, r), cfg' = cfg,
         probe'[p].ip = probe[p].ip, probe'[p].now = probe[p].now,
         Charged(p)' = Charged(p), Progress(p)' = Progress(p)
  PROVE  Visit' = Visit
<1>1. \A q \in Probes \ {p} : Visit'[q] = Visit[q]
  BY OthersSeen
<1>2. Visit'[p] = Visit[p]
  BY DEF Visit
<1>3. Visit' = [q \in Probes |-> Visit'[q]] /\ Visit = [q \in Probes |-> Visit[q]]
  BY DEF Visit
<1>4. QED
  BY <1>1, <1>2, <1>3

\* Only UpsertNow makes a grant, at the instant the handler read.
LEMMA NewGrantSeen ==
  ASSUME Inv, [Next]_vars, NEW q \in Probes, ~Upserted(q), Upserted(q)'
  PROVE  UpsertNow(q)
<1>1. /\ TypeInv /\ Stage(probe[q]) /\ probe[q] \in Probe
      /\ \A r : Becomes(q, r) => probe'[q] = r
      /\ cfg' = cfg
  BY ProbeType, ClockStep DEF Inv, Stages, Becomes, TypeInv, TypeOK
<1>2. probe'[q] # probe[q]
  BY <1>1 DEF Upserted
<1>3. CASE CheckWhitelist(q)
  BY <1>1, <1>3 DEF CheckWhitelist, Stage, Upserted, Probe, At
<1>4. CASE ReadClock(q)
  BY <1>1, <1>4 DEF ReadClock, Stage, Upserted, Probe, At
<1>5. CASE Refuse(q)
  BY <1>1, <1>5 DEF Refuse, Answered, Stage, Upserted, Probe, At
<1>6. CASE Punish(q)
  <2>1. /\ probe[q].pc = "count" /\ probe'[q].reason = probe[q].reason
        /\ probe'[q].whitelisted = probe[q].whitelisted
    BY <1>1, <1>6 DEF Punish, Answered, Probe, At
  <2>2. QED
    BY <1>1, <2>1 DEF Upserted
<1>7. CASE Arrive(q)
  <2>1. PICK ip \in IPs, label \in {"whitelist", "ban", "basic"} :
          Becomes(q, [probe[q] EXCEPT !.pc = label, !.ip = ip, !.now = clock])
    BY <1>7 DEF Arrive
  <2>2. QED
    BY <1>1, <1>7, <2>1 DEF Arrive, Stage, Upserted, Probe, At
<1>8. CASE ClearFailures(q)
  BY <1>1, <1>8 DEF ClearFailures, Whitelisted, Answered, Stage, Upserted, Probe, At
<1>9. CASE CheckBan(q)
  <2>1. probe[q].pc = "ban" /\ probe'[q].whitelisted = probe[q].whitelisted
        /\ probe'[q].reason # "ok"
    BY <1>1, <1>9 DEF CheckBan, Answered, Recording, Stage, Probe, At
  <2>2. QED
    BY <1>1, <2>1 DEF Upserted
<1>10. CASE BasicAuth(q)
  <2>1. /\ probe[q].pc = "basic" /\ ~probe[q].whitelisted
        /\ probe'[q].whitelisted = probe[q].whitelisted
        /\ probe'[q].reason = "ok" => ~cfg.whitelistEnabled
    BY <1>1, <1>10 DEF BasicAuth, Answered, Recording, Stage, Probe, At
  <2>2. QED
    BY <1>1, <2>1 DEF Upserted
<1>11. CASE AppendFailure(q)
  <2>1. /\ probe[q].pc = "append" /\ probe'[q].reason = probe[q].reason
        /\ probe'[q].whitelisted = probe[q].whitelisted
    BY <1>1, <1>11 DEF AppendFailure, Probe, At
  <2>2. QED
    BY <1>1, <2>1 DEF Upserted
<1>12. CASE CountRule(q)
  <2>1. /\ probe[q].pc = "count" /\ probe'[q].reason = probe[q].reason
        /\ probe'[q].whitelisted => probe[q].whitelisted
    <3>1. probe[q].pc = "count" => probe'[q].reason = probe[q].reason
      BY FollowsStep DEF Follows, Inv
    <3>2. /\ probe[q].pc = "count"
          /\ \E best, rule : probe'[q] = [probe[q] EXCEPT !.rule = rule, !.best = best]
      BY <1>1, <1>12, Zenon DEF CountRule, At
    <3>3. probe'[q].whitelisted = probe[q].whitelisted
      BY <1>1, <3>2 DEF Probe
    <3>4. QED
      BY <3>1, <3>2, <3>3
  <2>2. QED
    BY <1>1, <2>1 DEF Upserted
<1>13. QED
  BY <1>1, <1>2, <1>3, <1>4, <1>5, <1>6, <1>7, <1>8, <1>9, <1>10, <1>11, <1>12, OwnStep
     DEF Handle

\* Every other step leaves the grants as they are.
LEMMA GrantsSeen ==
  ASSUME Inv, [Next]_vars, \A q \in Probes : probe'[q] # probe[q] => ~UpsertNow(q)
  PROVE  Grants' = Grants
<1>1. ASSUME NEW q \in Probes
      PROVE  /\ Upserted(q)' <=> Upserted(q)
             /\ Upserted(q) => probe'[q].ip = probe[q].ip /\ probe'[q].stamp = probe[q].stamp
  <2>1. Upserted(q) =>
          Upserted(q)' /\ probe'[q].ip = probe[q].ip /\ probe'[q].stamp = probe[q].stamp
    BY PastStays DEF Inv
  <2>2. probe'[q] = probe[q] => (Upserted(q)' <=> Upserted(q))
    BY ClockStep DEF Upserted, Inv
  <2>3. QED
    BY <2>1, <2>2, NewGrantSeen
<1>2. {q \in Probes : Upserted(q)}' = {q \in Probes : Upserted(q)}
  BY <1>1
<1>3. QED
  BY <1>1, <1>2 DEF Grants

\* Only Punish makes an outlaw.
LEMMA OutlawsSeen ==
  ASSUME Inv, [Next]_vars, bans' = bans \/ probe' = probe
  PROVE  Outlaws' = Outlaws
<1>1. ASSUME NEW ip PROVE Permanent(ip)' <=> Permanent(ip)
  <2>1. ASSUME NEW b \in bans', b \notin bans PROVE FALSE
    <3>1. PICK p \in Probes : Punish(p)
      BY <2>1, NewBan DEF Inv
    <3>2. probe[p].pc = "count" /\ probe'[p].pc = "done"
      BY <3>1, ProbeType DEF Punish, Answered, Becomes, Inv, TypeInv, TypeOK, Probe, At
    <3>3. QED
      BY <2>1, <3>2
  <2>2. QED
    BY <2>1, PermanentStep DEF Permanent, Inv, FloodInv
<1>2. QED
  BY <1>1 DEF Outlaws

\* Who is charged by a step is charged by AppendFailure.
LEMMA ChargedSeen ==
  ASSUME Inv, [Next]_vars, NEW p \in Probes, ~AppendFailure(p)
  PROVE  Charged(p)' = Charged(p)
<1>1. Charged(p)' <=> Charged(p)
  BY NewCharge, PastStays DEF Inv
<1>2. Charged(p) \in BOOLEAN /\ Charged(p)' \in BOOLEAN
  BY DEF Charged
<1>3. QED
  BY <1>1, <1>2

\* The instance counts as ForwardAuth does.
LEMMA SameCardinality == ASSUME NEW S PROVE Gate!Cardinality(S) = Cardinality(S)
BY Zenon DEF Cardinality, Gate!Cardinality

\* What the gatekeeper counts are the failures of ForwardAuth.
LEMMA ChargesAreFailures ==
  ASSUME NEW ip, NEW since
  PROVE  Gate!Charges(ip, since) = Failures(ip, since)
BY VisitOf DEF Gate!Charges, Failures

-----------------------------------------------------------------------------
(* Step by step *)

\* What the gatekeeper sees of a step: one of its own, or nothing.
Seen == Gate!Next \/ UNCHANGED Gate!gate

\* A step of a handler on its own record, that neither grants, charges nor bans.
LEMMA LocalSeen ==
  ASSUME Inv, [Next]_vars, NEW p \in Probes, NEW r, Becomes(p, r),
         r.ip = probe[p].ip, r.now = probe[p].now,
         ~AppendFailure(p), ~UpsertNow(p), bans' = bans, clock' = clock,
         NEW state, Progress(p)' = state
  PROVE  /\ Gate!Goes(p, state)
         /\ UNCHANGED <<cfg, clock, Grants, Outlaws>>
         /\ Progress(p) = state => Seen
<1>1. /\ TypeInv /\ cfg' = cfg /\ probe'[p] = r
      /\ \A q \in Probes \ {p} : probe'[q] = probe[q]
  BY ClockStep DEF Inv, Becomes, TypeInv, TypeOK
<1>2. Charged(p)' = Charged(p)
  BY ChargedSeen
<1>3. Gate!Goes(p, state)
  BY <1>1, <1>2, GoesSeen
<1>4. Grants' = Grants /\ Outlaws' = Outlaws
  BY <1>1, GrantsSeen, OutlawsSeen
<1>5. ASSUME Progress(p) = state PROVE Visit' = Visit
  BY <1>1, <1>2, <1>5, StaysSeen
<1>6. QED
  BY <1>1, <1>3, <1>4, <1>5 DEF Seen, Gate!gate

\* Where a request is, for the gatekeeper.
LEMMA InSeen ==
  ASSUME NEW p \in Probes, NEW state
  PROVE  Gate!In(p, state) <=> Progress(p) = state
BY VisitOf DEF Gate!In

LEMMA RefuseSeen ==
  ASSUME Inv, [Next]_vars, NEW p \in Probes, Refuse(p)
  PROVE  Seen
<1>1. /\ TypeInv /\ Stage(probe[p]) /\ probe[p] \in Probe
      /\ \A r : Becomes(p, r) => probe'[p] = r
  BY ProbeType DEF Inv, Stages, Becomes, TypeInv, TypeOK
<1>2. /\ probe[p].pc = "idle" /\ Becomes(p, Answered(p, "refused"))
      /\ clock' = clock /\ bans' = bans
  BY DEF Refuse, At
<1>3. /\ Answered(p, "refused").ip = probe[p].ip /\ Answered(p, "refused").now = probe[p].now
      /\ Answered(p, "refused").reason = "refused"
  BY <1>1 DEF Answered, Probe
<1>4. Progress(p) = "away" /\ Progress(p)' = "out"
  BY <1>1, <1>2, <1>3 DEF Progress, Stage, Unserved
<1>5. ~AppendFailure(p) /\ ~UpsertNow(p)
  BY <1>2 DEF AppendFailure, UpsertNow, At
<1>6. Gate!TurnAway(p)
  BY <1>2, <1>3, <1>4, <1>5, LocalSeen, InSeen DEF Gate!TurnAway
<1>7. QED
  BY <1>6 DEF Seen, Gate!Next

LEMMA ArriveSeen ==
  ASSUME Inv, [Next]_vars, NEW p \in Probes, Arrive(p)
  PROVE  Seen
<1>1. /\ TypeInv /\ Stage(probe[p]) /\ probe[p] \in Probe /\ cfg' = cfg
      /\ \A r : Becomes(p, r) => probe'[p] = r
  BY ProbeType, ClockStep DEF Inv, Stages, Becomes, TypeInv, TypeOK
<1>2. PICK ip \in IPs, label \in {"whitelist", "ban", "basic"} :
        /\ Becomes(p, [probe[p] EXCEPT !.pc = label, !.ip = ip, !.now = clock])
        /\ label = "basic" => ~cfg.whitelistEnabled /\ ~cfg.floodEnabled
  BY DEF Arrive, ChecksBan
<1> DEFINE r == [probe[p] EXCEPT !.pc = label, !.ip = ip, !.now = clock]
           state == IF label = "basic" THEN "trying" ELSE "waiting"
<1>3. /\ probe[p].pc = "idle" /\ clock' = clock /\ bans' = bans
  BY DEF Arrive, At
<1>4. /\ probe'[p].pc = label /\ probe'[p].ip = ip /\ probe'[p].now = clock
      /\ probe'[p].reason = "none" /\ ~probe'[p].whitelisted
  BY <1>1, <1>2, <1>3 DEF Stage, Unserved
<1>5. Progress(p) = "away"
  BY <1>1, <1>3 DEF Progress, Stage, Unserved
<1>6. Progress(p)' = state
  BY <1>4 DEF Progress
<1>7. ~AppendFailure(p) /\ ~UpsertNow(p)
  BY <1>3 DEF AppendFailure, UpsertNow, At
<1>8. \A q \in Probes \ {p} : probe'[q] = probe[q]
  BY <1>1, <1>2 DEF Becomes, TypeInv, TypeOK
<1>9. Grants' = Grants /\ Outlaws' = Outlaws
  BY <1>3, <1>7, <1>8, GrantsSeen, OutlawsSeen
<1>10. Visit' = [Visit EXCEPT ![p].state = state, ![p].ip = ip, ![p].at = clock]
  <2>1. \A q \in Probes \ {p} : Visit'[q] = Visit[q]
    BY <1>1, <1>2, OthersSeen
  <2>2. Visit'[p] = [Visit[p] EXCEPT !.state = state, !.ip = ip, !.at = clock]
    <3>1. Charged(p)' = Charged(p)
      BY <1>7, ChargedSeen
    <3>2. Visit[p] = [state |-> Progress(p), ip |-> probe[p].ip, at |-> probe[p].now,
                      charged |-> Charged(p)]
      BY DEF Visit
    <3>3. Visit'[p] = [state |-> Progress(p)', ip |-> probe'[p].ip, at |-> probe'[p].now,
                       charged |-> Charged(p)']
      BY DEF Visit
    <3>4. Visit'[p] = [state |-> state, ip |-> ip, at |-> clock, charged |-> Charged(p)]
      BY <1>4, <1>6, <3>1, <3>3, Zenon
    <3> HIDE DEF state
    <3> PICK c, s : c = Charged(p) /\ s = Progress(p)
      OBVIOUS
    <3>5. Visit[p] = [state |-> s, ip |-> probe[p].ip, at |-> probe[p].now, charged |-> c]
      BY <3>2, Zenon
    <3>6. Visit'[p] = [state |-> state, ip |-> ip, at |-> clock, charged |-> c]
      BY <3>4, Zenon
    <3> DEFINE w == [Visit[p] EXCEPT !.state = state]
               x == [w EXCEPT !.ip = ip]
    <3>7. w = [state |-> state, ip |-> probe[p].ip, at |-> probe[p].now, charged |-> c]
      BY <3>5
    <3> HIDE DEF w
    <3>8. x = [state |-> state, ip |-> ip, at |-> probe[p].now, charged |-> c]
      BY <3>7
    <3> HIDE DEF x
    <3>9. [x EXCEPT !.at = clock] = [state |-> state, ip |-> ip, at |-> clock, charged |-> c]
      BY <3>8
    <3>10. QED
      BY <3>6, <3>9, Zenon DEF w, x
  <2>3. Visit' = [q \in Probes |-> Visit'[q]] /\ Visit = [q \in Probes |-> Visit[q]]
    BY DEF Visit
  <2> HIDE DEF state
  <2>4. QED
    BY <2>1, <2>2, <2>3
<1>11. Gate!Arrive(p)
  <2>1. state \in {"waiting", "trying"}
    OBVIOUS
  <2>2. state = "trying" => ~cfg.whitelistEnabled /\ ~cfg.floodEnabled
    BY <1>2
  <2> HIDE DEF state
  <2>3. QED
    BY <1>1, <1>3, <1>5, <1>9, <1>10, <2>1, <2>2, InSeen DEF Gate!Arrive
<1>12. QED
  BY <1>11 DEF Seen, Gate!Next

LEMMA CheckWhitelistSeen ==
  ASSUME Inv, [Next]_vars, NEW p \in Probes, CheckWhitelist(p)
  PROVE  Seen
<1>1. /\ TypeInv /\ Stage(probe[p]) /\ probe[p] \in Probe
      /\ \A r : Becomes(p, r) => probe'[p] = r
  BY ProbeType DEF Inv, Stages, Becomes, TypeInv, TypeOK
<1> DEFINE found == Whitelist!Contains(whitelist, probe[p].ip, probe[p].now, Period)
           label == IF found THEN "stamp" ELSE IF ChecksBan(FALSE) THEN "ban" ELSE "basic"
           r == [probe[p] EXCEPT !.pc = label, !.whitelisted = found]
<1>2. /\ probe[p].pc = "whitelist" /\ Becomes(p, r) /\ clock' = clock /\ bans' = bans
  BY DEF CheckWhitelist, At
<1>3. /\ probe[p].reason = "none" /\ ~probe[p].whitelisted /\ cfg.whitelistEnabled
      /\ Progress(p) = "waiting"
  BY <1>1, <1>2 DEF Stage, Progress
<1>4. /\ r.ip = probe[p].ip /\ r.now = probe[p].now /\ r.reason = "none"
      /\ r.pc = label /\ r.whitelisted = found
  <2> HIDE DEF found, label
  <2>1. QED
    BY <1>1, <1>3 DEF Probe
<1>5. ~AppendFailure(p) /\ ~UpsertNow(p)
  BY <1>2 DEF AppendFailure, UpsertNow, At
<1> HIDE DEF r
<1>6. CASE found
  <2>1. Progress(p)' = "welcome"
    BY <1>1, <1>2, <1>4, <1>6 DEF Progress
  <2>2. \E g \in Grants : Gate!Covers(g, p)
    <3>1. PICK el \in whitelist : el.ip = probe[p].ip /\ el.time <= probe[p].now
                                  /\ probe[p].now < el.time + Period
      BY <1>6 DEF Whitelist!Contains, Whitelist!Active, Whitelist!ExpiresAt
    <3>2. PICK q \in Probes : Upserted(q) /\ probe[q].ip = el.ip /\ probe[q].stamp = el.time
      BY <3>1 DEF Inv, WhitelistInv, ElementsFounded, Founded
    <3>3. [ip |-> probe[q].ip, time |-> probe[q].stamp] \in Grants
      BY <3>2 DEF Grants
    <3>4. QED
      BY <3>1, <3>2, <3>3, VisitOf DEF Gate!Covers
  <2>3. Gate!Recognise(p)
    BY <1>2, <1>3, <1>4, <1>5, <2>1, <2>2, LocalSeen, InSeen DEF Gate!Recognise
  <2>4. QED
    BY <2>3 DEF Seen, Gate!Next
<1>7. CASE ~found /\ ChecksBan(FALSE)
  <2>1. Progress(p)' = "waiting"
    BY <1>1, <1>2, <1>4, <1>7 DEF Progress
  <2>2. QED
    BY <1>2, <1>3, <1>4, <1>5, <2>1, LocalSeen
<1>8. CASE ~found /\ ~ChecksBan(FALSE)
  <2>1. Progress(p)' = "trying"
    BY <1>1, <1>2, <1>4, <1>8 DEF Progress
  <2>2. ~Gate!BansApply(p)
    BY <1>8 DEF ChecksBan, Gate!BansApply
  <2>3. Gate!Try(p)
    BY <1>2, <1>3, <1>4, <1>5, <2>1, <2>2, LocalSeen, InSeen DEF Gate!Try
  <2>4. QED
    BY <2>3 DEF Seen, Gate!Next
<1>9. QED
  BY <1>6, <1>7, <1>8

LEMMA ReadClockSeen ==
  ASSUME Inv, [Next]_vars, NEW p \in Probes, ReadClock(p)
  PROVE  Seen
<1>1. /\ TypeInv /\ Stage(probe[p]) /\ probe[p] \in Probe
      /\ \A r : Becomes(p, r) => probe'[p] = r
  BY ProbeType DEF Inv, Stages, Becomes, TypeInv, TypeOK
<1> DEFINE r == [probe[p] EXCEPT !.pc = "upsert", !.stamp = clock]
<1>2. /\ probe[p].pc = "stamp" /\ Becomes(p, r) /\ clock' = clock /\ bans' = bans
  BY DEF ReadClock, At
<1>3. /\ r.ip = probe[p].ip /\ r.now = probe[p].now /\ r.reason = probe[p].reason
      /\ r.pc = "upsert" /\ r.whitelisted = probe[p].whitelisted
  BY <1>1 DEF Probe
<1>4. ~AppendFailure(p) /\ ~UpsertNow(p)
  BY <1>2 DEF AppendFailure, UpsertNow, At
<1>5. Progress(p)' = Progress(p)
  BY <1>1, <1>2, <1>3 DEF Progress
<1>6. PICK state : state = Progress(p)
  OBVIOUS
<1> HIDE DEF r
<1>7. QED
  BY <1>2, <1>3, <1>4, <1>5, <1>6, LocalSeen

\* The grant that an UpsertNow makes.
LEMMA GrantMade ==
  ASSUME Inv, Stamped, [Next]_vars, NEW p \in Probes, UpsertNow(p)
  PROVE  Gate!Granted(p)
<1>1. /\ TypeInv /\ Stage(probe[p]) /\ probe[p] \in Probe /\ cfg' = cfg
      /\ \A r : Becomes(p, r) => probe'[p] = r
      /\ probe[p].now \in Nat /\ probe[p].stamp \in Nat /\ clock \in Nat
  BY ProbeType, ClockStep DEF Inv, Stages, Becomes, TypeInv, TypeOK
<1>2. probe[p].pc = "upsert" /\ cfg.whitelistEnabled /\ probe[p].reason = "none"
  BY <1>1 DEF UpsertNow, At, Stage
<1>3. probe[p].stamp \in probe[p].now..clock
  BY <1>1, <1>2 DEF Stamped, At
<1>4. /\ ~Upserted(p) /\ Upserted(p)'
      /\ probe'[p].ip = probe[p].ip /\ probe'[p].stamp = probe[p].stamp
  <2>1. PICK r : /\ Becomes(p, r)
                 /\ r = IF ~probe[p].whitelisted THEN Answered(p, "ok")
                        ELSE IF cfg.floodEnabled /\ cfg.clearOnWhitelist
                             THEN [probe[p] EXCEPT !.pc = "clear"]
                        ELSE Whitelisted(p)
    BY DEF UpsertNow
  <2>2. /\ r.ip = probe[p].ip /\ r.stamp = probe[p].stamp
        /\ r.pc \in {"clear", "ban", "done"} /\ r.whitelisted = probe[p].whitelisted
        /\ ~probe[p].whitelisted => r.reason = "ok"
    BY <1>1, <2>1 DEF Answered, Whitelisted, Probe
  <2>3. QED
    BY <1>1, <1>2, <2>1, <2>2 DEF Upserted
<1>5. ASSUME NEW q \in Probes \ {p}
      PROVE  (Upserted(q)' <=> Upserted(q)) /\ probe'[q] = probe[q]
  <2>1. probe'[q] = probe[q]
    BY <1>1 DEF UpsertNow, Becomes, TypeInv, TypeOK
  <2>2. QED
    BY <1>1, <2>1 DEF Upserted
<1> DEFINE G(q) == [ip |-> probe[q].ip, time |-> probe[q].stamp]
           U == {q \in Probes : Upserted(q)}
<1>6. U' = U \union {p}
  BY <1>4, <1>5
<1>7. \A q \in U' : G(q)' = G(q)
  BY <1>4, <1>5
<1>8. Grants' = Grants \union {G(p)}
  <2>1. Grants = {G(q) : q \in U} /\ Grants' = {G(q)' : q \in U'}
    BY DEF Grants
  <2>2. Grants' = {G(q) : q \in U'}
    BY <1>7, <2>1
  <2> HIDE DEF G, U
  <2>3. QED
    BY <1>6, <2>1, <2>2
<1>9. QED
  BY <1>2, <1>3, <1>8, VisitOf DEF Gate!Granted

LEMMA UpsertNowSeen ==
  ASSUME Inv, Stamped, [Next]_vars, NEW p \in Probes, UpsertNow(p)
  PROVE  Seen
<1>1. /\ TypeInv /\ Stage(probe[p]) /\ probe[p] \in Probe /\ cfg' = cfg
      /\ \A r : Becomes(p, r) => probe'[p] = r
  BY ProbeType, ClockStep DEF Inv, Stages, Becomes, TypeInv, TypeOK
<1>2. /\ probe[p].pc = "upsert" /\ cfg.whitelistEnabled /\ probe[p].reason = "none"
      /\ clock' = clock /\ bans' = bans
  BY <1>1 DEF UpsertNow, At, Stage
<1>3. PICK r : /\ Becomes(p, r)
               /\ r = IF ~probe[p].whitelisted THEN Answered(p, "ok")
                      ELSE IF cfg.floodEnabled /\ cfg.clearOnWhitelist
                           THEN [probe[p] EXCEPT !.pc = "clear"]
                      ELSE Whitelisted(p)
  BY DEF UpsertNow
<1>4. /\ probe'[p].ip = probe[p].ip /\ probe'[p].now = probe[p].now
      /\ probe'[p].whitelisted = probe[p].whitelisted
  BY <1>1, <1>3 DEF Answered, Whitelisted, Probe
<1>5. Charged(p)' = Charged(p)
  BY <1>2, ChargedSeen DEF AppendFailure, At
<1>6. ASSUME NEW state, Progress(p)' = state PROVE Gate!Goes(p, state)
  BY <1>1, <1>3, <1>4, <1>5, <1>6, GoesSeen
<1>7. Outlaws' = Outlaws /\ Gate!Granted(p)
  BY <1>2, OutlawsSeen, GrantMade
<1>8. CASE probe[p].whitelisted
  <2>1. Progress(p) = "welcome"
    BY <1>2, <1>8 DEF Progress
  <2>2. \/ /\ probe'[p].pc \in {"clear", "ban"} /\ probe'[p].reason = "none"
        \/ /\ probe'[p].reason = "whitelisted"
           /\ ~cfg.floodEnabled \/ cfg.overridesBan
    BY <1>1, <1>2, <1>3, <1>8 DEF Whitelisted, Answered, ChecksBan, Probe
  <2>3. \/ Progress(p)' = "renewed"
        \/ Progress(p)' = "in" /\ (~cfg.floodEnabled \/ cfg.overridesBan)
    BY <1>4, <1>8, <2>2 DEF Progress
  <2>4. Gate!Renew(p)
    BY <1>1, <1>2, <1>6, <1>7, <2>1, <2>3, InSeen DEF Gate!Renew
  <2>5. QED
    BY <2>4 DEF Seen, Gate!Next
<1>9. CASE ~probe[p].whitelisted
  <2>1. Progress(p) = "trying"
    BY <1>2, <1>9 DEF Progress
  <2>2. probe'[p].reason = "ok"
    BY <1>1, <1>3, <1>9 DEF Answered, Probe
  <2>3. Progress(p)' = "in"
    BY <2>2 DEF Progress
  <2>4. Gate!Login(p)
    BY <1>1, <1>2, <1>6, <1>7, <2>1, <2>3, InSeen DEF Gate!Login
  <2>5. QED
    BY <2>4 DEF Seen, Gate!Next
<1>10. QED
  BY <1>8, <1>9

LEMMA ClearFailuresSeen ==
  ASSUME Inv, [Next]_vars, NEW p \in Probes, ClearFailures(p)
  PROVE  Seen
<1>1. /\ TypeInv /\ Stage(probe[p]) /\ probe[p] \in Probe
      /\ \A r : Becomes(p, r) => probe'[p] = r
  BY ProbeType DEF Inv, Stages, Becomes, TypeInv, TypeOK
<1> DEFINE r == Whitelisted(p)
<1>2. /\ probe[p].pc = "clear" /\ Becomes(p, r) /\ clock' = clock /\ bans' = bans
  BY DEF ClearFailures, At
<1>3. /\ probe[p].reason = "none" /\ probe[p].whitelisted /\ Progress(p) = "renewed"
  BY <1>1, <1>2 DEF Stage, Progress
<1>4. /\ r.ip = probe[p].ip /\ r.now = probe[p].now /\ r.whitelisted
      /\ \/ r.pc = "ban" /\ r.reason = "none"
         \/ r.reason = "whitelisted" /\ ~ChecksBan(TRUE)
  BY <1>1, <1>3 DEF Whitelisted, Answered, Probe
<1>5. ~AppendFailure(p) /\ ~UpsertNow(p)
  BY <1>2 DEF AppendFailure, UpsertNow, At
<1> HIDE DEF r
<1>6. CASE r.pc = "ban" /\ r.reason = "none"
  <2>1. Progress(p)' = "renewed"
    BY <1>1, <1>2, <1>4, <1>6 DEF Progress
  <2>2. QED
    BY <1>2, <1>3, <1>4, <1>5, <2>1, LocalSeen
<1>7. CASE r.reason = "whitelisted" /\ ~ChecksBan(TRUE)
  <2>1. Progress(p)' = "in"
    BY <1>1, <1>2, <1>7 DEF Progress
  <2>2. ~Gate!BansApply(p)
    BY <1>3, <1>7, InSeen DEF ChecksBan, Gate!BansApply
  <2>3. Gate!Pass(p)
    BY <1>2, <1>3, <1>4, <1>5, <2>1, <2>2, LocalSeen, InSeen DEF Gate!Pass
  <2>4. QED
    BY <2>3 DEF Seen, Gate!Next
<1>8. QED
  BY <1>4, <1>6, <1>7

LEMMA BasicAuthSeen ==
  ASSUME Inv, [Next]_vars, NEW p \in Probes, BasicAuth(p)
  PROVE  Seen
<1>1. /\ TypeInv /\ Stage(probe[p]) /\ probe[p] \in Probe
      /\ \A r : Becomes(p, r) => probe'[p] = r
  BY ProbeType DEF Inv, Stages, Becomes, TypeInv, TypeOK
<1>2. /\ probe[p].pc = "basic" /\ clock' = clock /\ bans' = bans
  BY DEF BasicAuth, At
<1>3. probe[p].reason = "none" /\ ~probe[p].whitelisted /\ Progress(p) = "trying"
  BY <1>1, <1>2 DEF Stage, Progress
<1>4. ~AppendFailure(p) /\ ~UpsertNow(p)
  BY <1>2 DEF AppendFailure, UpsertNow, At
<1>5. CASE \E reason \in {"no_credentials", "auth_failed"} :
             \E r \in {Recording(p, reason), Answered(p, reason)} : Becomes(p, r)
  <2> PICK reason \in {"no_credentials", "auth_failed"} :
        \E r \in {Recording(p, reason), Answered(p, reason)} : Becomes(p, r)
    BY <1>5
  <2>1. PICK r \in {Recording(p, reason), Answered(p, reason)} : Becomes(p, r)
    OBVIOUS
  <2>2. r.ip = probe[p].ip /\ r.now = probe[p].now /\ r.reason = reason
    BY <1>1, <2>1 DEF Recording, Answered, Probe
  <2>3. Progress(p)' = "out"
    BY <1>1, <2>1, <2>2 DEF Progress
  <2>4. Gate!Fail(p)
    BY <1>2, <1>3, <1>4, <2>1, <2>2, <2>3, LocalSeen, InSeen DEF Gate!Fail
  <2>5. QED
    BY <2>4 DEF Seen, Gate!Next
<1>6. CASE cfg.whitelistEnabled /\ Becomes(p, [probe[p] EXCEPT !.pc = "stamp"])
  <2>1. PICK r : Becomes(p, r) /\ r = [probe[p] EXCEPT !.pc = "stamp"]
    BY <1>6
  <2>2. /\ r.ip = probe[p].ip /\ r.now = probe[p].now /\ r.reason = "none"
        /\ r.pc = "stamp" /\ ~r.whitelisted
    BY <1>1, <1>3, <2>1 DEF Probe
  <2>3. Progress(p)' = "trying"
    BY <1>1, <2>1, <2>2 DEF Progress
  <2>4. QED
    BY <1>2, <1>3, <1>4, <2>1, <2>2, <2>3, LocalSeen
<1>7. CASE ~cfg.whitelistEnabled /\ Becomes(p, Answered(p, "ok"))
  <2>1. PICK r : Becomes(p, r) /\ r = Answered(p, "ok")
    BY <1>7
  <2>2. r.ip = probe[p].ip /\ r.now = probe[p].now /\ r.reason = "ok"
    BY <1>1, <2>1 DEF Answered, Probe
  <2>3. Progress(p)' = "in"
    BY <1>1, <2>1, <2>2 DEF Progress
  <2>4. Gate!Login(p)
    BY <1>2, <1>3, <1>4, <1>7, <2>1, <2>2, <2>3, LocalSeen, InSeen DEF Gate!Login
  <2>5. QED
    BY <2>4 DEF Seen, Gate!Next
<1>8. QED
  BY <1>5, <1>6, <1>7 DEF BasicAuth

\* An address that is not banned at the instant of a request is not banned for good.
LEMMA FreeSeen ==
  ASSUME NEW ip, NEW now, Bans!IsBanned(bans, ip, now) = {}
  PROVE  ip \notin Outlaws
BY DEF Outlaws, Permanent, Bans!IsBanned, Bans!SameIP, Bans!Active

\* A ban, imposed or on its way, convicts for the gatekeeper too.
LEMMA ConvictedSeen ==
  ASSUME Inv, NEW b \in Ban, Counted(b), Deserved(b)
  PROVE  /\ Gate!Convicted(b.ip, b.rule, b.bannedAt)
         /\ b.rule \in DOMAIN Rules /\ b.bannedAt \in 0..clock
<1>1. PICK q \in Probes : Charged(q) /\ probe[q].ip = b.ip /\ probe[q].now = b.bannedAt
  BY DEF Counted
<1>2. /\ b.bannedAt \in Nat /\ clock \in Nat /\ b.bannedAt <= clock /\ b.rule \in DOMAIN Rules
  BY <1>1 DEF Inv, Timely, Ban, TypeInv, TypeOK
<1>3. q \in Gate!Charges(b.ip, b.bannedAt) /\ Visit[q].at = b.bannedAt
  BY <1>1, <1>2, VisitOf DEF Gate!Charges
<1>4. Gate!Cardinality(Gate!Charges(b.ip, b.bannedAt - Rules[b.rule].window))
        >= Rules[b.rule].count
  BY ChargesAreFailures, SameCardinality DEF Deserved
<1>5. QED
  BY <1>2, <1>3, <1>4 DEF Gate!Convicted

LEMMA CheckBanSeen ==
  ASSUME Inv, BansCounted, [Next]_vars, NEW p \in Probes, CheckBan(p)
  PROVE  Seen
<1>1. /\ TypeInv /\ Stage(probe[p]) /\ probe[p] \in Probe /\ probe[p].now \in Nat
      /\ \A r : Becomes(p, r) => probe'[p] = r
  BY ProbeType DEF Inv, Stages, Becomes, TypeInv, TypeOK
<1> DEFINE found == Bans!IsBanned(bans, probe[p].ip, probe[p].now)
<1>2. /\ probe[p].pc = "ban" /\ clock' = clock /\ bans' = bans
  BY DEF CheckBan, At
<1>3. /\ probe[p].reason = "none" /\ cfg.floodEnabled
      /\ probe[p].whitelisted => ~cfg.overridesBan /\ Progress(p) = "renewed"
      /\ ~probe[p].whitelisted => Progress(p) = "waiting"
  BY <1>1, <1>2 DEF Stage, Progress
<1>4. ~AppendFailure(p) /\ ~UpsertNow(p)
  BY <1>2 DEF AppendFailure, UpsertNow, At
<1>5. CASE found = {} /\ Becomes(p, IF probe[p].whitelisted THEN Answered(p, "whitelisted")
                                     ELSE [probe[p] EXCEPT !.pc = "basic"])
  <2>1. probe[p].ip \notin Outlaws
    BY <1>5, FreeSeen
  <2>2. CASE probe[p].whitelisted
    <3>1. PICK r : Becomes(p, r) /\ r = Answered(p, "whitelisted")
      BY <1>5, <2>2
    <3>2. r.ip = probe[p].ip /\ r.now = probe[p].now /\ r.reason = "whitelisted"
      BY <1>1, <3>1 DEF Answered, Probe
    <3>3. Progress(p)' = "in"
      BY <1>1, <3>1, <3>2 DEF Progress
    <3>4. Gate!Pass(p)
      BY <1>2, <1>3, <1>4, <2>1, <2>2, <3>1, <3>2, <3>3, LocalSeen, InSeen, VisitOf
         DEF Gate!Pass
    <3>5. QED
      BY <3>4 DEF Seen, Gate!Next
  <2>3. CASE ~probe[p].whitelisted
    <3>1. PICK r : Becomes(p, r) /\ r = [probe[p] EXCEPT !.pc = "basic"]
      BY <1>5, <2>3
    <3>2. /\ r.ip = probe[p].ip /\ r.now = probe[p].now /\ r.reason = "none"
          /\ r.pc = "basic" /\ ~r.whitelisted
      BY <1>1, <1>3, <2>3, <3>1 DEF Probe
    <3>3. Progress(p)' = "trying"
      BY <1>1, <3>1, <3>2 DEF Progress
    <3>4. Gate!Try(p)
      BY <1>2, <1>3, <1>4, <2>1, <2>3, <3>1, <3>2, <3>3, LocalSeen, InSeen, VisitOf
         DEF Gate!Try
    <3>5. QED
      BY <3>4 DEF Seen, Gate!Next
  <2>4. QED
    BY <2>2, <2>3
<1>6. CASE \E ban \in found : \E r \in {Answered(p, "banned"), Answered(p, "temp_banned"),
                                        Recording(p, "temp_banned")} : Becomes(p, r)
  <2>1. PICK b \in found, r \in {Answered(p, "banned"), Answered(p, "temp_banned"),
                                 Recording(p, "temp_banned")} : Becomes(p, r)
    BY <1>6
  <2>2. r.ip = probe[p].ip /\ r.now = probe[p].now /\ r.reason \in {"banned", "temp_banned"}
    BY <1>1, <2>1 DEF Recording, Answered, Probe
  <2>3. Progress(p)' = "out"
    BY <1>1, <2>1, <2>2 DEF Progress
  <2>4. b \in bans /\ b.ip = probe[p].ip /\ Bans!Active(b, probe[p].now)
    BY <2>1 DEF Bans!IsBanned, Bans!SameIP
  <2>5. b \in Ban /\ Counted(b) /\ Deserved(b)
    BY <1>1, <2>4 DEF TypeInv, TypeOK, BansCounted, Inv, FloodInv, BanJustified, Deserved
  <2>6. /\ Gate!Convicted(probe[p].ip, b.rule, b.bannedAt)
        /\ b.rule \in DOMAIN Rules /\ b.bannedAt \in 0..clock
    BY <2>4, <2>5, ConvictedSeen
  <2>7. \/ Rules[b.rule].permanent
        \/ /\ b.bannedAt <= probe[p].now
           /\ probe[p].now < b.bannedAt + Rules[b.rule].temp
    BY <2>4, <2>5 DEF Bans!Active, Deserved
  <2>8. Gate!BansApply(p)
    BY <1>3, InSeen DEF Gate!BansApply
  <2>9. Gate!Goes(p, "out") /\ UNCHANGED <<cfg, clock, Grants, Outlaws>>
    BY <1>2, <1>4, <2>1, <2>2, <2>3, LocalSeen
  <2>10. Gate!Bar(p)
    BY <2>6, <2>7, <2>8, <2>9, VisitOf DEF Gate!Bar
  <2>11. QED
    BY <2>10 DEF Seen, Gate!Next
<1>7. QED
  BY <1>5, <1>6 DEF CheckBan

LEMMA AppendFailureSeen ==
  ASSUME Inv, [Next]_vars, NEW p \in Probes, AppendFailure(p)
  PROVE  Seen
<1>1. /\ TypeInv /\ Stage(probe[p]) /\ probe[p] \in Probe /\ cfg' = cfg
      /\ probe[p].pc \notin {"idle", "done"} => probe[p].ip \in IPs
      /\ \A r : Becomes(p, r) => probe'[p] = r
  BY ProbeType, ClockStep DEF Inv, Stages, Becomes, TypeInv, TypeOK
<1>2. PICK r : Becomes(p, r) /\ r = [probe[p] EXCEPT !.pc = "count", !.rule = 1]
  BY DEF AppendFailure
<1>3. probe[p].pc = "append" /\ clock' = clock /\ bans' = bans
  BY DEF AppendFailure, At
<1>4. /\ probe'[p].ip = probe[p].ip /\ probe'[p].now = probe[p].now
      /\ probe'[p].reason = probe[p].reason /\ probe'[p].pc = "count"
  BY <1>1, <1>2 DEF Probe
<1>5. cfg.floodEnabled /\ probe[p].reason \in {"auth_failed", "no_credentials", "temp_banned"}
  BY <1>1, <1>3 DEF Stage, ChargedReasons
<1>6. Progress(p) = "out" /\ Progress(p)' = "out"
  BY <1>4, <1>5 DEF Progress
<1>7. Charged(p) = FALSE /\ Charged(p)' = TRUE
  BY <1>3, <1>4 DEF Charged, At
<1>8. \A q \in Probes \ {p} : Visit'[q] = Visit[q]
  BY <1>1, <1>2, OthersSeen
<1>9. Visit'[p] = [Visit[p] EXCEPT !.charged = TRUE]
  <2>0. PICK no, yes : no = FALSE /\ yes = TRUE
    OBVIOUS
  <2>1. Visit[p] = [state |-> "out", ip |-> probe[p].ip, at |-> probe[p].now,
                    charged |-> no]
    BY <1>6, <1>7, <2>0, Zenon DEF Visit
  <2>2. Visit'[p] = [state |-> "out", ip |-> probe'[p].ip, at |-> probe'[p].now,
                     charged |-> yes]
    BY <1>6, <1>7, <2>0, Zenon DEF Visit
  <2>3. Visit'[p] = [Visit[p] EXCEPT !.charged = yes]
    BY <1>4, <2>1, <2>2
  <2>4. QED
    BY <2>0, <2>3, Zenon
<1>10. Visit' = [q \in Probes |-> Visit'[q]] /\ Visit = [q \in Probes |-> Visit[q]]
  BY DEF Visit
<1>11. Visit' = [Visit EXCEPT ![p].charged = TRUE]
  BY <1>8, <1>9, <1>10
<1>12. \A q \in Probes : probe'[q] # probe[q] => ~UpsertNow(q)
  BY <1>1, <1>2, <1>3 DEF UpsertNow, At, Becomes, TypeInv, TypeOK
<1>13. Grants' = Grants /\ Outlaws' = Outlaws
  BY <1>3, <1>12, GrantsSeen, OutlawsSeen
<1>14. Gate!In(p, "out") /\ ~Visit[p].charged /\ Visit[p].ip \in IPs
  BY <1>1, <1>3, <1>6, <1>7, InSeen, VisitOf
<1>15. Gate!Charge(p)
  BY <1>1, <1>3, <1>5, <1>11, <1>13, <1>14 DEF Gate!Charge
<1>16. QED
  BY <1>15 DEF Seen, Gate!Next

LEMMA CountRuleSeen ==
  ASSUME Inv, [Next]_vars, NEW p \in Probes, CountRule(p)
  PROVE  Seen
<1>1. /\ TypeInv /\ Stage(probe[p]) /\ probe[p] \in Probe
      /\ \A r : Becomes(p, r) => probe'[p] = r
  BY ProbeType DEF Inv, Stages, Becomes, TypeInv, TypeOK
<1>2. PICK rule, best : Becomes(p, [probe[p] EXCEPT !.rule = rule, !.best = best])
  BY Zenon DEF CountRule
<1> DEFINE r == [probe[p] EXCEPT !.rule = rule, !.best = best]
<1>3. probe[p].pc = "count" /\ clock' = clock /\ bans' = bans
  BY Zenon DEF CountRule, At
<1>4. /\ r.ip = probe[p].ip /\ r.now = probe[p].now /\ r.reason = probe[p].reason
      /\ r.pc = probe[p].pc /\ r.whitelisted = probe[p].whitelisted
  BY <1>1 DEF Probe
<1>5. ~AppendFailure(p) /\ ~UpsertNow(p)
  BY <1>3 DEF AppendFailure, UpsertNow, At
<1>6. Progress(p)' = Progress(p)
  BY <1>1, <1>2, <1>4 DEF Progress
<1>7. PICK state : state = Progress(p)
  OBVIOUS
<1> HIDE DEF r
<1>8. QED
  BY <1>2, <1>3, <1>4, <1>5, <1>6, <1>7, LocalSeen DEF r

LEMMA PunishSeen ==
  ASSUME Inv, BansCounted, [Next]_vars, NEW p \in Probes, Punish(p)
  PROVE  Seen
<1>1. /\ TypeInv /\ Stage(probe[p]) /\ probe[p] \in Probe /\ cfg' = cfg
      /\ probe[p].best \subseteq Ban
      /\ probe[p].pc \notin {"idle", "done"} => probe[p].ip \in IPs
      /\ \A r : Becomes(p, r) => probe'[p] = r
  BY ProbeType, ClockStep DEF Inv, Stages, Becomes, TypeInv, TypeOK
<1>2. PICK r : Becomes(p, r) /\ r = Answered(p, probe[p].reason)
  BY DEF Punish
<1>3. probe[p].pc = "count" /\ clock' = clock
  BY DEF Punish, At
<1>4. /\ probe'[p].ip = probe[p].ip /\ probe'[p].now = probe[p].now
      /\ probe'[p].reason = probe[p].reason
  BY <1>1, <1>2 DEF Answered, Probe
<1>5. probe[p].reason \in {"auth_failed", "no_credentials", "temp_banned"}
  BY <1>1, <1>3 DEF Stage, ChargedReasons
<1>6. Progress(p)' = Progress(p)
  BY <1>4, <1>5 DEF Progress
<1>7. Charged(p)' = Charged(p)
  BY <1>3, ChargedSeen DEF AppendFailure, At
<1>8. Visit' = Visit
  BY <1>1, <1>2, <1>4, <1>6, <1>7, StaysSeen
<1>9. \A q \in Probes : probe'[q] # probe[q] => ~UpsertNow(q)
  BY <1>1, <1>2, <1>3 DEF UpsertNow, At, Becomes, TypeInv, TypeOK
<1>10. Grants' = Grants
  BY <1>9, GrantsSeen
<1>11. CASE bans' = bans
  BY <1>1, <1>3, <1>8, <1>10, <1>11, OutlawsSeen DEF Seen, Gate!gate
<1>12. CASE \E b \in probe[p].best : bans' = Bans!Upsert(bans, b)
  <2>1. PICK b \in probe[p].best : bans' = Bans!Upsert(bans, b)
    BY <1>12
  <2>2. b \in Ban /\ b.ip \in IPs /\ Counted(b) /\ Deserved(b)
    BY <1>1, <2>1 DEF BansCounted, Inv, FloodInv, BestDeserved, Ban
  <2>3. \A c \in bans' : c \in bans \/ c = b
    BY <2>1 DEF Bans!Upsert
  <2>4. \A c \in bans : c.permanent => c \in bans'
    BY PermanentStep DEF Inv, FloodInv
  <2>5. Outlaws' = Outlaws \/ (b.permanent /\ Outlaws' = Outlaws \union {b.ip})
    BY <2>2, <2>3, <2>4 DEF Outlaws, Permanent
  <2>6. CASE Outlaws' = Outlaws
    BY <1>1, <1>3, <1>8, <1>10, <2>6 DEF Seen, Gate!gate
  <2>7. CASE b.permanent /\ Outlaws' = Outlaws \union {b.ip} /\ b.ip \notin Outlaws
    <3>1. Rules[b.rule].permanent
      BY <2>2, <2>7 DEF Deserved
    <3>2. Gate!Outlaw(b.ip)
      BY <1>1, <1>3, <1>8, <1>10, <2>2, <2>7, <3>1, ConvictedSeen DEF Gate!Outlaw
    <3>3. QED
      BY <2>2, <3>2 DEF Seen, Gate!Next
  <2>8. QED
    BY <2>5, <2>6, <2>7
<1>13. QED
  BY <1>11, <1>12 DEF Punish

\* Time and the loops beside the handlers: the cleanup takes no outlaw off the list.
LEMMA RestSeen ==
  ASSUME Inv, [Next]_vars, probe' = probe
  PROVE  Visit' = Visit /\ Grants' = Grants /\ Outlaws' = Outlaws
<1>1. Grants' = Grants /\ Outlaws' = Outlaws
  BY GrantsSeen, OutlawsSeen
<1>2. ASSUME NEW p \in Probes
      PROVE  Progress(p)' = Progress(p) /\ Charged(p)' = Charged(p)
  BY ClockStep DEF Progress, Charged, At, ChargedReasons, Inv
<1>3. QED
  BY <1>1, <1>2 DEF Visit

LEMMA StepSeen ==
  ASSUME Inv, GateInv, [Next]_vars
  PROVE  Seen
<1>1. ASSUME NEW p \in Probes, Refuse(p) \/ Arrive(p) \/ Handle(p)
      PROVE  Seen
  BY <1>1, RefuseSeen, ArriveSeen, CheckWhitelistSeen, ReadClockSeen, UpsertNowSeen,
     ClearFailuresSeen, CheckBanSeen, BasicAuthSeen, AppendFailureSeen, CountRuleSeen,
     PunishSeen DEF Handle, GateInv
<1>2. CASE Tick
  <2>1. Gate!Tick
    BY <1>2, RestSeen DEF Tick, Gate!Tick
  <2>2. QED
    BY <2>1 DEF Seen, Gate!Next
<1>3. CASE Cleanup \/ SaveWhitelist \/ UNCHANGED vars
  <2>1. probe' = probe /\ cfg' = cfg /\ clock' = clock
    BY <1>3 DEF Cleanup, CleanupStart, CleanupTrack, CleanupBans, SaveWhitelist, vars
  <2>2. QED
    BY <2>1, RestSeen DEF Seen, Gate!gate
<1>4. QED
  BY <1>1, <1>2, <1>3 DEF Next

LEMMA InitSeen == Init => Gate!Init
<1> SUFFICES ASSUME Init PROVE Gate!Init
  OBVIOUS
<1>1. ASSUME NEW p \in Probes
      PROVE  /\ Progress(p) = "away" /\ Charged(p) = FALSE /\ ~Upserted(p)
             /\ probe[p].ip = NoIP /\ probe[p].now = 0
  BY DEF Init, Unserved, Progress, Charged, At, Upserted
<1>2. Visit = [p \in Probes |-> [state |-> "away", ip |-> NoIP, at |-> 0, charged |-> FALSE]]
  BY <1>1 DEF Visit
<1>3. Grants = {}
  BY <1>1 DEF Grants
<1>4. Outlaws = {}
  BY DEF Init, Outlaws, Permanent
<1>5. QED
  BY <1>2, <1>3, <1>4 DEF Init, Gate!Init

\* ForwardAuth implements the abstract gatekeeper: every grant a visitor is recognised by
\* was really made less than Period before, every ban anyone is turned away for was
\* deserved, nobody shows credentials or is waved through while an outlaw where bans
\* apply, and an outlaw stays one, in every interleaving of handlers, cleanup and saves.
THEOREM GatekeeperImplemented == Spec => GatekeeperKept
<1>1. Inv /\ GateInv /\ [Next]_vars => [Gate!Next]_(Gate!gate)
  BY StepSeen DEF Seen
<1>2. QED
  BY <1>1, InitSeen, Invariant, GateInvariant, PTL DEF Spec, GatekeeperKept, Gate!Spec
=============================================================================
