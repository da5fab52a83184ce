----------------------------- MODULE IPWhitelist ----------------------------
(***************************************************************************)
(* The temporary whitelist of internal/ipwhitelist, as values.  An element *)
(* is a record [ip, time]; it covers the instants from its WhitelistTime   *)
(* up to, and without, WhitelistTime + period.                             *)
(***************************************************************************)
EXTENDS Integers

ExpiresAt(el, period) == el.time + period

\* A plausible slip: the last instant of the window still counts.
ActiveThroughEnd(el, now, period) ==
  el.time <= now /\ now <= ExpiresAt(el, period)

Active(el, now, period) == el.time <= now /\ now < ExpiresAt(el, period)

\* Upsert replaces the time of an element that is there already.
Upsert(elements, ip, time) ==
  {el \in elements : el.ip # ip} \union {[ip |-> ip, time |-> time]}

\* A plausible slip: anybody's element will do.
ContainsAny(elements, ip, now, period) ==
  \E el \in elements : Active(el, now, period)

Contains(elements, ip, now, period) ==
  \E el \in elements : el.ip = ip /\ Active(el, now, period)

\* pruneExpiredLocked: ended elements go, not-yet-started ones stay.
PruneExpired(elements, now, period) ==
  {el \in elements : now < ExpiresAt(el, period)}
=============================================================================
