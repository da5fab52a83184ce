----------------------------- MODULE FloodTrack -----------------------------
(***************************************************************************)
(* The failure log of internal/floodtrack, as values.  An entry is a       *)
(* record [probe, ip, time]: each request appends at most one entry, so    *)
(* the request that appended it tells equal (ip, time) pairs apart and the *)
(* slice b.entries can be a set.  The service name of an entry only labels *)
(* it and is left out.                                                     *)
(***************************************************************************)
EXTENDS Integers

Append(entries, entry) == entries \union {entry}

\* Plausible slips: the window is forgotten, or whose failures they are, or the
\* entry at the edge of the window is left out.
Ever(entries, ip, since) == {e \in entries : e.ip = ip}
Anyones(entries, ip, since) == {e \in entries : e.time >= since}
After(entries, ip, since) == {e \in entries : e.ip = ip /\ e.time > since}

\* The failures of ip that are not before since; CountSince counts them.
Since(entries, ip, since) == {e \in entries : e.ip = ip /\ e.time >= since}

\* Plausible slips: the comparison is turned round, or the entry exactly at the
\* cutoff goes too.
RemoveNewerThan(entries, cutoff) == {e \in entries : e.time < cutoff}
RemoveUpTo(entries, cutoff) == {e \in entries : e.time > cutoff}

RemoveOlderThan(entries, cutoff) == {e \in entries : e.time >= cutoff}

RemoveForIP(entries, ip) == {e \in entries : e.ip # ip}
=============================================================================
