----------------------------- MODULE Gatekeeper -----------------------------
(***************************************************************************)
(* What the server promises its visitors, without its lists: who is let    *)
(* in and why, who is turned away for a ban and why, and who is an outlaw, *)
(* banned for good.  There is no log, no cleanup, no element that is       *)
(* pruned or replaced: grants, charges and outlaws are never taken back,   *)
(* and each step asks what really happened, not what was stored.           *)
(*                                                                         *)
(* Requests, Rules and Period are those of ForwardAuth, which implements   *)
(* this module (Gatekept).                                                 *)
(***************************************************************************)
EXTENDS Integers, FiniteSets

CONSTANTS Requests, IPs, NoIP, Settings, Rules, Period

VARIABLES
  cfg,      \* the settings
  clock,    \* the time
  visit,    \* for each request its address, its arrival and how far it has come
  grants,   \* the logins and renewals of all times: [ip, time]
  outlaws   \* the addresses that are banned for good

gate == <<cfg, clock, visit, grants, outlaws>>

Init ==
  /\ cfg \in Settings
  /\ clock = 0
  /\ visit = [r \in Requests |->
                [state |-> "away", ip |-> NoIP, at |-> 0, charged |-> FALSE]]
  /\ grants = {}
  /\ outlaws = {}

Tick == clock' = clock + 1 /\ UNCHANGED <<cfg, visit, grants, outlaws>>

In(r, state) == visit[r].state = state

Goes(r, state) == visit' = [visit EXCEPT ![r].state = state]

-----------------------------------------------------------------------------
(* Coming, and being recognised *)

\* Wrong path, foreign origin, unknown host.
TurnAway(r) ==
  In(r, "away") /\ Goes(r, "out") /\ UNCHANGED <<cfg, clock, grants, outlaws>>

\* Where nobody keeps lists there is nothing to wait for.
Arrive(r) ==
  /\ In(r, "away")
  /\ \E ip \in IPs : \E state \in {"waiting", "trying"} :
       /\ state = "trying" => ~cfg.whitelistEnabled /\ ~cfg.floodEnabled
       /\ visit' = [visit EXCEPT ![r].state = state, ![r].ip = ip, ![r].at = clock]
  /\ UNCHANGED <<cfg, clock, grants, outlaws>>

\* A grant of the address, less than Period old when the visitor came.
Covers(g, r) ==
  g.ip = visit[r].ip /\ g.time <= visit[r].at /\ visit[r].at < g.time + Period

Recognise(r) ==
  /\ In(r, "waiting") /\ cfg.whitelistEnabled
  /\ \E g \in grants : Covers(g, r)
  /\ Goes(r, "welcome")
  /\ UNCHANGED <<cfg, clock, grants, outlaws>>

\* The grant of a login or renewal dates from when the visitor was here.
Granted(r) ==
  /\ cfg.whitelistEnabled
  /\ \E t \in visit[r].at..clock :
       grants' = grants \union {[ip |-> visit[r].ip, time |-> t]}

\* Who is welcome meets the bans only if the whitelist does not override them.
BansApply(r) ==
  /\ cfg.floodEnabled
  /\ In(r, "waiting") \/ (In(r, "renewed") /\ ~cfg.overridesBan)

Renew(r) ==
  /\ In(r, "welcome")
  /\ Granted(r)
  /\ \E state \in {"renewed", "in"} :
       /\ state = "in" => ~cfg.floodEnabled \/ cfg.overridesBan
       /\ Goes(r, state)
  /\ UNCHANGED <<cfg, clock, outlaws>>

Pass(r) ==
  /\ In(r, "renewed")
  /\ BansApply(r) => visit[r].ip \notin outlaws
  /\ Goes(r, "in")
  /\ UNCHANGED <<cfg, clock, grants, outlaws>>

-----------------------------------------------------------------------------
(* Credentials *)

\* Nobody gets to show credentials who is an outlaw at that moment.
Try(r) ==
  /\ In(r, "waiting")
  /\ BansApply(r) => visit[r].ip \notin outlaws
  /\ Goes(r, "trying")
  /\ UNCHANGED <<cfg, clock, grants, outlaws>>

Login(r) ==
  /\ In(r, "trying")
  /\ IF cfg.whitelistEnabled THEN Granted(r) ELSE UNCHANGED grants
  /\ Goes(r, "in")
  /\ UNCHANGED <<cfg, clock, outlaws>>

Fail(r) ==
  In(r, "trying") /\ Goes(r, "out") /\ UNCHANGED <<cfg, clock, grants, outlaws>>

-----------------------------------------------------------------------------
(* Punishment *)

\* A failure is charged once, to who was turned away.
Charge(r) ==
  /\ cfg.floodEnabled
  /\ In(r, "out") /\ ~visit[r].charged /\ visit[r].ip \in IPs
  /\ visit' = [visit EXCEPT ![r].charged = TRUE]
  /\ UNCHANGED <<cfg, clock, grants, outlaws>>

\* The visits charged to the address that were not before since.
Charges(ip, since) ==
  {r \in Requests : visit[r].charged /\ visit[r].ip = ip /\ visit[r].at >= since}

\* A visitor of the address, charged itself and come at the instant at, was the one to
\* find that the address had failed as often as the tier asks.
Convicted(ip, i, at) ==
  /\ \E r \in Charges(ip, at) : visit[r].at = at
  /\ Cardinality(Charges(ip, at - Rules[i].window)) >= Rules[i].count

\* Nobody is turned away for a ban but for one that was deserved, and that is for good
\* or was running when the visitor came.
Bar(r) ==
  /\ BansApply(r)
  /\ Goes(r, "out")
  /\ \E i \in DOMAIN Rules : \E at \in 0..clock :
       /\ Rules[i].permanent \/ (at <= visit[r].at /\ visit[r].at < at + Rules[i].temp)
       /\ Convicted(visit[r].ip, i, at)
  /\ UNCHANGED <<cfg, clock, grants, outlaws>>

Outlaw(ip) ==
  /\ ip \notin outlaws
  /\ outlaws' = outlaws \union {ip}
  /\ \E i \in DOMAIN Rules : \E at \in 0..clock :
       Rules[i].permanent /\ Convicted(ip, i, at)
  /\ UNCHANGED <<cfg, clock, visit, grants>>

-----------------------------------------------------------------------------

Next ==
  \/ Tick
  \/ \E r \in Requests :
       \/ TurnAway(r) \/ Arrive(r) \/ Recognise(r) \/ Renew(r) \/ Pass(r)
       \/ Try(r) \/ Login(r) \/ Fail(r) \/ Charge(r) \/ Bar(r)
  \/ \E ip \in IPs : Outlaw(ip)

Spec == Init /\ [][Next]_gate
=============================================================================
