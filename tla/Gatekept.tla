------------------------------ MODULE Gatekept ------------------------------
(***************************************************************************)
(* ForwardAuth, with its lists and its races, implements Gatekeeper.       *)
(***************************************************************************)
EXTENDS ForwardAuth

\* How far the visitor of request p has come.
Progress(p) ==
  LET r == probe[p]
  IN IF r.reason \in {"ok", "whitelisted"} THEN "in"
     ELSE IF r.reason # "none" THEN "out"
     ELSE IF r.pc = "idle" THEN "away"
     ELSE IF r.whitelisted
          THEN IF r.pc \in {"stamp", "upsert"} THEN "welcome" ELSE "renewed"
     ELSE IF r.pc \in {"basic", "stamp", "upsert"} THEN "trying" ELSE "waiting"

Visit ==
  [p \in Probes |-> [state |-> Progress(p), ip |-> probe[p].ip, at |-> probe[p].now,
                     charged |-> Charged(p)]]

\* The grants are the upserts that have happened, replaced and pruned ones included.
Grants ==
  {[ip |-> probe[p].ip, time |-> probe[p].stamp] : p \in {q \in Probes : Upserted(q)}}

Outlaws == {ip \in IPs : Permanent(ip)}

Gate == INSTANCE Gatekeeper WITH
  Requests <- Probes, visit <- Visit, grants <- Grants, outlaws <- Outlaws

\* Nobody gets in, is turned away for a ban or is banned for good but as the abstract
\* gatekeeper allows it, although whitelist, log and bans are read and changed one lock
\* at a time, are pruned and cleaned up, and hold one element and one ban per address.
GatekeeperKept == Gate!Spec
=============================================================================
