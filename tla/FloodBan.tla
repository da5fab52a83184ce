------------------------------ MODULE FloodBan ------------------------------
(***************************************************************************)
(* The bans of internal/floodban, as values: what a ban is, when it        *)
(* applies, which of two bans is the harsher, and what each operation of   *)
(* Bundle that the flood engine calls does to the stored bans.             *)
(*                                                                         *)
(* The slice b.bans is the set of its elements.  A ban is a record         *)
(*   [ip, permanent, bannedAt, expiresAt, rule]                            *)
(* where expiresAt of a permanent ban is 0, the zero time.  Bundle locks   *)
(* its mutex for the whole of each operation, so each is one atomic step   *)
(* of the modules that use these operators.                                *)
(***************************************************************************)
EXTENDS Integers

\* A plausible slip: the instant at which a temporary ban ends still counts.
ActiveThroughEnd(ban, now) ==
  ban.permanent \/ (ban.bannedAt <= now /\ now <= ban.expiresAt)

Active(ban, now) ==
  ban.permanent \/ (ban.bannedAt <= now /\ now < ban.expiresAt)

\* Permanent beats temporary, then the later expiry wins; a tie is not harsher.
HarsherThan(ban, current) ==
  /\ ~current.permanent
  /\ ban.permanent \/ ban.expiresAt > current.expiresAt

SameIP(bans, ip) == {b \in bans : b.ip = ip}

\* A plausible slip: the stored ban is kept next to the new one.
UpsertKeepsOld(bans, ban) ==
  IF \E cur \in SameIP(bans, ban.ip) : ~HarsherThan(ban, cur)
  THEN bans ELSE bans \union {ban}

\* A plausible slip: the last punishment wins, as in ipwhitelist.Upsert.
UpsertLastWins(bans, ban) == (bans \ SameIP(bans, ban.ip)) \union {ban}

\* Upsert: insert, or replace the ban of the same IP when the new one is harsher.
Upsert(bans, ban) ==
  IF \E cur \in SameIP(bans, ban.ip) : ~HarsherThan(ban, cur)
  THEN bans
  ELSE (bans \ SameIP(bans, ban.ip)) \union {ban}

\* IsBanned: the bans that IsBanned may return for ip at now; empty is (_, false).
IsBanned(bans, ip, now) == {b \in SameIP(bans, ip) : Active(b, now)}

\* A plausible slip: a ban that has begun is kept, ended or not.
RemoveNotBegun(bans, now) == {b \in bans : b.permanent \/ b.bannedAt <= now}

\* A plausible slip: permanent bans, whose ExpiresAt is zero, look expired.
RemoveExpiredByTime(bans, now) == {b \in bans : now < b.expiresAt}

\* RemoveExpired keeps the permanent bans and those Active at now.
RemoveExpired(bans, now) == {b \in bans : b.permanent \/ Active(b, now)}
=============================================================================
