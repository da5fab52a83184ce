--------------------------- MODULE Bundles_proofs ---------------------------
(***************************************************************************)
(* What the operations of the three bundles guarantee, for any contents:   *)
(* that concurrent punishments may come in any order, and that neither the *)
(* cleanup of the flood engine nor the pruning of the whitelist shows in   *)
(* any later answer.                                                       *)
(***************************************************************************)
EXTENDS Integers, FiniteSets, FiniteSetTheorems, TLAPS

Bans      == INSTANCE FloodBan
Track     == INSTANCE FloodTrack
Whitelist == INSTANCE IPWhitelist

-----------------------------------------------------------------------------
(* Bans *)

\* A ban as BanFromRule makes it: one without end has the zero time as its end.
IsBan(b) ==
  /\ b.permanent \in BOOLEAN /\ b.bannedAt \in Int /\ b.expiresAt \in Int
  /\ b.permanent => b.expiresAt = 0

\* What is stored: bans, one for each address.
BanList(bans) ==
  /\ \A b \in bans : IsBan(b)
  /\ \A b, c \in bans : b.ip = c.ip => b = c

\* A list stays one.
LEMMA UpsertList ==
  ASSUME NEW bans, BanList(bans), NEW ban, IsBan(ban)
  PROVE  BanList(Bans!Upsert(bans, ban))
BY DEF BanList, Bans!Upsert, Bans!SameIP

\* Upsert concerns the address of its ban only.
LEMMA UpsertElsewhere ==
  ASSUME NEW bans, NEW ban, NEW ip, ip # ban.ip
  PROVE  Bans!SameIP(Bans!Upsert(bans, ban), ip) = Bans!SameIP(bans, ip)
BY DEF Bans!Upsert, Bans!SameIP

\* What is stored for the address of the ban.
LEMMA UpsertHere ==
  ASSUME NEW bans, NEW ban
  PROVE  Bans!SameIP(Bans!Upsert(bans, ban), ban.ip)
           = IF \E cur \in Bans!SameIP(bans, ban.ip) : ~Bans!HarsherThan(ban, cur)
             THEN Bans!SameIP(bans, ban.ip) ELSE {ban}
BY DEF Bans!Upsert, Bans!SameIP

\* How hard an address is hit: for good, or until when.  Which tier it was, and when
\* the ban began, a tie may decide.
Sentence(bans, ip) == {<<b.permanent, b.expiresAt>> : b \in Bans!SameIP(bans, ip)}

\* Upsert takes the maximum: what is stored afterwards was there or is the new ban, and
\* neither what was there nor the new ban is harsher.
THEOREM UpsertTakesHarshest ==
  ASSUME NEW bans, BanList(bans), NEW ban, IsBan(ban)
  PROVE  \E kept \in Bans!SameIP(bans, ban.ip) \union {ban} :
           /\ Bans!SameIP(Bans!Upsert(bans, ban), ban.ip) = {kept}
           /\ \A b \in Bans!SameIP(bans, ban.ip) \union {ban} : ~Bans!HarsherThan(b, kept)
<1> DEFINE same == Bans!SameIP(bans, ban.ip)
<1>1. \A b \in same : IsBan(b) /\ same = {b}
  BY DEF BanList, Bans!SameIP
<1>2. ASSUME NEW b, IsBan(b) PROVE ~Bans!HarsherThan(b, b)
  BY <1>2 DEF IsBan, Bans!HarsherThan
<1>3. CASE \E cur \in same : ~Bans!HarsherThan(ban, cur)
  <2>1. PICK cur \in same : ~Bans!HarsherThan(ban, cur)
    BY <1>3
  <2>2. Bans!SameIP(Bans!Upsert(bans, ban), ban.ip) = {cur}
    BY <1>1, <1>3, UpsertHere
  <2>3. QED
    BY <1>1, <1>2, <2>1, <2>2
<1>4. CASE ~\E cur \in same : ~Bans!HarsherThan(ban, cur)
  <2>1. Bans!SameIP(Bans!Upsert(bans, ban), ban.ip) = {ban}
    BY <1>4, UpsertHere
  <2>2. \A b \in same : ~Bans!HarsherThan(b, ban)
    BY <1>1, <1>4 DEF IsBan, Bans!HarsherThan
  <2>3. QED
    BY <1>2, <2>1, <2>2
<1>5. QED
  BY <1>3, <1>4

\* Two punishments of one address leave a maximum of what there was and of the two.
LEMMA HarshestOfTwo ==
  ASSUME NEW bans, BanList(bans), NEW a, IsBan(a), NEW b, IsBan(b), a.ip = b.ip
  PROVE  \E kept \in Bans!SameIP(bans, a.ip) \union {a, b} :
           /\ IsBan(kept)
           /\ Bans!SameIP(Bans!Upsert(Bans!Upsert(bans, a), b), a.ip) = {kept}
           /\ \A c \in Bans!SameIP(bans, a.ip) \union {a, b} : ~Bans!HarsherThan(c, kept)
<1> DEFINE same == Bans!SameIP(bans, a.ip)
           once == Bans!Upsert(bans, a)
<1>1. PICK first \in same \union {a} :
        /\ Bans!SameIP(once, a.ip) = {first}
        /\ \A c \in same \union {a} : ~Bans!HarsherThan(c, first)
  BY UpsertTakesHarshest
<1>2. BanList(once)
  BY UpsertList
<1>3. PICK kept \in {first, b} :
        /\ Bans!SameIP(Bans!Upsert(once, b), b.ip) = {kept}
        /\ \A c \in {first, b} : ~Bans!HarsherThan(c, kept)
  <2> HIDE DEF once
  <2>1. QED
    BY <1>1, <1>2, UpsertTakesHarshest
<1>4. ASSUME NEW c \in same \union {a} PROVE ~Bans!HarsherThan(c, kept)
  <2>1. IsBan(c) /\ IsBan(first) /\ IsBan(kept)
    BY <1>1, <1>3 DEF BanList, Bans!SameIP
  <2>2. ~Bans!HarsherThan(c, first) /\ ~Bans!HarsherThan(first, kept)
    BY <1>1, <1>3
  <2>3. QED
    BY <2>1, <2>2 DEF IsBan, Bans!HarsherThan
<1>5. IsBan(kept)
  BY <1>1, <1>3 DEF BanList, Bans!SameIP
<1>6. QED
  BY <1>1, <1>3, <1>4, <1>5

\* So both orders leave the same sentence.
LEMMA SentenceOfTwo ==
  ASSUME NEW bans, BanList(bans), NEW a, IsBan(a), NEW b, IsBan(b), a.ip = b.ip
  PROVE  Sentence(Bans!Upsert(Bans!Upsert(bans, a), b), a.ip)
           = Sentence(Bans!Upsert(Bans!Upsert(bans, b), a), a.ip)
<1> DEFINE ab == Bans!Upsert(Bans!Upsert(bans, a), b)
           ba == Bans!Upsert(Bans!Upsert(bans, b), a)
           all == Bans!SameIP(bans, a.ip) \union {a, b}
<1>1. PICK x \in all : /\ IsBan(x) /\ Bans!SameIP(ab, a.ip) = {x}
                      /\ \A c \in all : ~Bans!HarsherThan(c, x)
  BY HarshestOfTwo
<1>2. PICK y \in Bans!SameIP(bans, b.ip) \union {b, a} :
        /\ IsBan(y) /\ Bans!SameIP(ba, b.ip) = {y}
        /\ \A c \in Bans!SameIP(bans, b.ip) \union {b, a} : ~Bans!HarsherThan(c, y)
  BY HarshestOfTwo
<1>3. ~Bans!HarsherThan(x, y) /\ ~Bans!HarsherThan(y, x)
  BY <1>1, <1>2
<1>4. x.permanent = y.permanent /\ x.expiresAt = y.expiresAt
  BY <1>1, <1>2, <1>3 DEF IsBan, Bans!HarsherThan
<1> HIDE DEF ab, ba, all
<1>5. /\ Sentence(ab, a.ip) = {<<x.permanent, x.expiresAt>>}
      /\ Sentence(ba, a.ip) = {<<y.permanent, y.expiresAt>>}
  BY <1>1, <1>2 DEF Sentence
<1>6. Sentence(ab, a.ip) = Sentence(ba, a.ip)
  BY <1>4, <1>5
<1>7. QED
  BY <1>6 DEF ab, ba

\* Handlers punish concurrently, each from counts of its own: in which order their
\* bans arrive does not matter to how long, or whether for good, an address is banned.
THEOREM PunishmentsCommute ==
  ASSUME NEW bans, BanList(bans), NEW a, IsBan(a), NEW b, IsBan(b), NEW ip
  PROVE  Sentence(Bans!Upsert(Bans!Upsert(bans, a), b), ip)
           = Sentence(Bans!Upsert(Bans!Upsert(bans, b), a), ip)
<1> DEFINE ab == Bans!Upsert(Bans!Upsert(bans, a), b)
           ba == Bans!Upsert(Bans!Upsert(bans, b), a)
<1>1. CASE ip = a.ip /\ ip = b.ip
  BY <1>1, SentenceOfTwo
<1>2. CASE ip = a.ip /\ ip # b.ip
  <2>1. Bans!SameIP(ab, ip) = Bans!SameIP(Bans!Upsert(bans, a), ip)
    BY <1>2, UpsertElsewhere
  <2>2. Bans!SameIP(Bans!Upsert(bans, b), ip) = Bans!SameIP(bans, ip)
    BY <1>2, UpsertElsewhere
  <2>3. Bans!SameIP(ba, ip) = Bans!SameIP(Bans!Upsert(bans, a), ip)
    BY <1>2, <2>2, UpsertHere
  <2>4. QED
    BY <2>1, <2>3 DEF Sentence
<1>3. CASE ip # a.ip /\ ip = b.ip
  <2>1. Bans!SameIP(ba, ip) = Bans!SameIP(Bans!Upsert(bans, b), ip)
    BY <1>3, UpsertElsewhere
  <2>2. Bans!SameIP(Bans!Upsert(bans, a), ip) = Bans!SameIP(bans, ip)
    BY <1>3, UpsertElsewhere
  <2>3. Bans!SameIP(ab, ip) = Bans!SameIP(Bans!Upsert(bans, b), ip)
    BY <1>3, <2>2, UpsertHere
  <2>4. QED
    BY <2>1, <2>3 DEF Sentence
<1>4. CASE ip # a.ip /\ ip # b.ip
  BY <1>4, UpsertElsewhere DEF Sentence
<1>5. QED
  BY <1>1, <1>2, <1>3, <1>4

\* A cleanup whose now is not before the bans began shows in no answer CheckBan gives
\* for that instant or a later one ...
THEOREM RemovalInvisible ==
  ASSUME NEW bans, BanList(bans), NEW t \in Int, NEW now \in Int, t <= now, NEW ip,
         \A b \in bans : b.bannedAt <= t
  PROVE  Bans!IsBanned(Bans!RemoveExpired(bans, t), ip, now) = Bans!IsBanned(bans, ip, now)
<1>1. ASSUME NEW b \in bans, Bans!Active(b, now) PROVE b.permanent \/ Bans!Active(b, t)
  BY <1>1 DEF BanList, IsBan, Bans!Active
<1>2. QED
  BY <1>1 DEF Bans!IsBanned, Bans!SameIP, Bans!RemoveExpired

\* ... and an older one takes away temporary bans that began after its now, no others.
THEOREM RemovalTakesLaterBansOnly ==
  ASSUME NEW bans, BanList(bans), NEW t \in Int, NEW now \in Int, t <= now, NEW ip,
         NEW b \in Bans!IsBanned(bans, ip, now),
         b \notin Bans!IsBanned(Bans!RemoveExpired(bans, t), ip, now)
  PROVE  ~b.permanent /\ t < b.bannedAt
<1>1. b \in bans /\ IsBan(b) /\ Bans!Active(b, now) /\ ~b.permanent /\ ~Bans!Active(b, t)
  BY DEF BanList, Bans!IsBanned, Bans!SameIP, Bans!RemoveExpired
<1>2. QED
  BY <1>1 DEF IsBan, Bans!Active

\* Nor does it matter whether a punishment comes before or after a cleanup, once the
\* bans have begun: an ended ban keeps nothing off that would count.
THEOREM RemovalBeforeUpsert ==
  ASSUME NEW bans, BanList(bans), NEW ban, IsBan(ban), NEW t \in Int, NEW now \in Int,
         t <= now, NEW ip, \A b \in bans : b.bannedAt <= t
  PROVE  Bans!IsBanned(Bans!Upsert(Bans!RemoveExpired(bans, t), ban), ip, now)
           = Bans!IsBanned(Bans!Upsert(bans, ban), ip, now)
<1> DEFINE rest == Bans!RemoveExpired(bans, t)
<1>1. CASE ip # ban.ip
  <2>1. /\ Bans!SameIP(Bans!Upsert(rest, ban), ip) = Bans!SameIP(rest, ip)
        /\ Bans!SameIP(Bans!Upsert(bans, ban), ip) = Bans!SameIP(bans, ip)
    BY <1>1, UpsertElsewhere
  <2>2. Bans!IsBanned(rest, ip, now) = Bans!IsBanned(bans, ip, now)
    BY RemovalInvisible
  <2>3. QED
    BY <2>1, <2>2 DEF Bans!IsBanned
<1>2. CASE ip = ban.ip
  <2>1. CASE Bans!SameIP(rest, ip) = Bans!SameIP(bans, ip)
    <3>1. Bans!SameIP(Bans!Upsert(rest, ban), ip) = Bans!SameIP(Bans!Upsert(bans, ban), ip)
      BY <1>2, <2>1, UpsertHere
    <3>2. QED
      BY <3>1 DEF Bans!IsBanned
  <2>2. CASE Bans!SameIP(rest, ip) # Bans!SameIP(bans, ip)
    <3>1. PICK cur \in bans : cur.ip = ip /\ cur \notin rest
      BY <2>2 DEF Bans!SameIP, Bans!RemoveExpired
    <3>2. /\ IsBan(cur) /\ ~cur.permanent /\ cur.expiresAt <= t /\ ~Bans!Active(cur, now)
      BY <3>1 DEF BanList, IsBan, Bans!Active, Bans!RemoveExpired
    <3>3. Bans!SameIP(bans, ip) = {cur} /\ Bans!SameIP(rest, ip) = {}
      BY <3>1 DEF BanList, Bans!SameIP, Bans!RemoveExpired
    <3>4. Bans!SameIP(Bans!Upsert(rest, ban), ip) = {ban}
      <4> HIDE DEF rest
      <4>1. ~\E c \in Bans!SameIP(rest, ban.ip) : ~Bans!HarsherThan(ban, c)
        BY <1>2, <3>3
      <4>2. QED
        BY <1>2, <4>1, UpsertHere
    <3>5. CASE Bans!HarsherThan(ban, cur)
      <4>1. Bans!SameIP(Bans!Upsert(bans, ban), ip) = {ban}
        <5>1. ~\E c \in Bans!SameIP(bans, ban.ip) : ~Bans!HarsherThan(ban, c)
          BY <1>2, <3>3, <3>5
        <5>2. QED
          BY <1>2, <5>1, UpsertHere
      <4>2. QED
        BY <3>4, <4>1 DEF Bans!IsBanned
    <3>6. CASE ~Bans!HarsherThan(ban, cur)
      <4>1. Bans!SameIP(Bans!Upsert(bans, ban), ip) = {cur}
        BY <1>2, <3>3, <3>6, UpsertHere
      <4>2. ~Bans!Active(ban, now)
        BY <3>2, <3>6 DEF IsBan, Bans!HarsherThan, Bans!Active
      <4>3. QED
        BY <3>2, <3>4, <4>1, <4>2 DEF Bans!IsBanned
    <3>7. QED
      BY <3>5, <3>6
  <2>3. QED
    BY <2>1, <2>2
<1>3. QED
  BY <1>1, <1>2

-----------------------------------------------------------------------------
(* Failures *)

\* A cleanup shows in no count that looks back no further than its cutoff, for any
\* address; two cleanups do what the one with the later cutoff does.
THEOREM OldFailuresInvisible ==
  ASSUME NEW entries, \A e \in entries : e.time \in Int, NEW cutoff \in Int
  PROVE  /\ \A ip : \A since \in Int : cutoff <= since =>
              Track!Since(Track!RemoveOlderThan(entries, cutoff), ip, since)
                = Track!Since(entries, ip, since)
         /\ \A later \in Int : cutoff <= later =>
              /\ Track!RemoveOlderThan(Track!RemoveOlderThan(entries, cutoff), later)
                   = Track!RemoveOlderThan(entries, later)
              /\ Track!RemoveOlderThan(Track!RemoveOlderThan(entries, later), cutoff)
                   = Track!RemoveOlderThan(entries, later)
<1>1. ASSUME NEW e \in entries, NEW since \in Int, cutoff <= since, e.time >= since
      PROVE  e.time >= cutoff
  BY <1>1
<1>2. QED
  BY <1>1 DEF Track!Since, Track!RemoveOlderThan

\* A failure counts once: for its own address, in every window it falls into, and for
\* no other address.
THEOREM FailureCountsOnce ==
  ASSUME NEW entries, IsFiniteSet(entries), NEW e, e \notin entries, NEW ip, NEW since
  PROVE  Cardinality(Track!Since(Track!Append(entries, e), ip, since))
           = Cardinality(Track!Since(entries, ip, since))
               + (IF e.ip = ip /\ e.time >= since THEN 1 ELSE 0)
<1> DEFINE old == Track!Since(entries, ip, since)
<1>1. IsFiniteSet(old) /\ Cardinality(old) \in Nat /\ e \notin old
  <2>1. old \in SUBSET entries
    BY DEF Track!Since
  <2> HIDE DEF old
  <2>2. QED
    BY <2>1, FS_Subset, FS_CardinalityType
<1>2. CASE e.ip = ip /\ e.time >= since
  <2>1. Track!Since(Track!Append(entries, e), ip, since) = old \union {e}
    BY <1>2 DEF Track!Since, Track!Append
  <2> HIDE DEF old
  <2>2. Cardinality(old \union {e}) = Cardinality(old) + 1
    BY <1>1, FS_AddElement
  <2>3. QED
    BY <1>2, <2>1, <2>2 DEF old
<1>3. CASE ~(e.ip = ip /\ e.time >= since)
  <2>1. Track!Since(Track!Append(entries, e), ip, since) = old
    BY <1>3 DEF Track!Since, Track!Append
  <2>2. QED
    BY <1>1, <1>3, <2>1
<1>4. QED
  BY <1>2, <1>3

\* FLOOD_CLEAR_ON_WHITELIST forgives the address that is whitelisted and no other.
THEOREM ForgivenessIsLocal ==
  ASSUME NEW entries, NEW ip, NEW since
  PROVE  /\ Track!Since(Track!RemoveForIP(entries, ip), ip, since) = {}
         /\ \A other : other # ip =>
              Track!Since(Track!RemoveForIP(entries, ip), other, since)
                = Track!Since(entries, other, since)
BY DEF Track!Since, Track!RemoveForIP

-----------------------------------------------------------------------------
(* Whitelist *)

\* After a login or a renewal at time the address is covered from then on for a
\* period, and not an instant longer or earlier; other addresses are as before.
THEOREM UpsertCovers ==
  ASSUME NEW elements, NEW ip, NEW time \in Int, NEW period \in Int
  PROVE  /\ \A now \in Int :
              Whitelist!Contains(Whitelist!Upsert(elements, ip, time), ip, now, period)
                <=> time <= now /\ now < time + period
         /\ \A other, now : other # ip =>
              (Whitelist!Contains(Whitelist!Upsert(elements, ip, time), other, now, period)
                 <=> Whitelist!Contains(elements, other, now, period))
<1> DEFINE el == [ip |-> ip, time |-> time]
           rest == {d \in elements : d.ip # ip}
<1>1. /\ Whitelist!Upsert(elements, ip, time) = rest \union {el}
      /\ el.ip = ip /\ el.time = time
  BY DEF Whitelist!Upsert
<1> HIDE DEF el
<1>2. QED
  BY <1>1 DEF Whitelist!Contains, Whitelist!Active, Whitelist!ExpiresAt

\* A renewal takes the cover away from no request that arrives at its time or later;
\* the run "renewal_race" is about those that had arrived before.
THEOREM RenewalExtends ==
  ASSUME NEW elements, \A el \in elements : el.time \in Int,
         NEW ip, NEW time \in Int, NEW now \in Int, NEW period \in Int, time <= now,
         \A el \in elements : el.ip = ip => el.time <= time,
         Whitelist!Contains(elements, ip, now, period)
  PROVE  Whitelist!Contains(Whitelist!Upsert(elements, ip, time), ip, now, period)
<1>1. PICK el \in elements : el.ip = ip /\ el.time <= now /\ now < el.time + period
  BY DEF Whitelist!Contains, Whitelist!Active, Whitelist!ExpiresAt
<1>2. now < time + period
  BY <1>1
<1>3. QED
  BY <1>2, UpsertCovers

\* The pruning of a save at t shows in no answer for t or a later instant, and it may
\* come before or after an entry that has not ended by t.
THEOREM PruningInvisible ==
  ASSUME NEW elements, \A el \in elements : el.time \in Int,
         NEW t \in Int, NEW period \in Int
  PROVE  /\ \A ip : \A now \in Int : t <= now =>
              (Whitelist!Contains(Whitelist!PruneExpired(elements, t, period), ip, now, period)
                 <=> Whitelist!Contains(elements, ip, now, period))
         /\ \A ip : \A time \in Int : t < time + period =>
              Whitelist!PruneExpired(Whitelist!Upsert(elements, ip, time), t, period)
                = Whitelist!Upsert(Whitelist!PruneExpired(elements, t, period), ip, time)
<1>1. ASSUME NEW now \in Int, t <= now, NEW el \in elements, now < el.time + period
      PROVE  t < el.time + period
  BY <1>1
<1>2. \A ip : \A now \in Int : t <= now =>
        (Whitelist!Contains(Whitelist!PruneExpired(elements, t, period), ip, now, period)
           <=> Whitelist!Contains(elements, ip, now, period))
  BY <1>1 DEF Whitelist!Contains, Whitelist!Active, Whitelist!ExpiresAt, Whitelist!PruneExpired
<1>3. ASSUME NEW ip, NEW time \in Int, t < time + period
      PROVE  Whitelist!PruneExpired(Whitelist!Upsert(elements, ip, time), t, period)
               = Whitelist!Upsert(Whitelist!PruneExpired(elements, t, period), ip, time)
  BY <1>3 DEF Whitelist!PruneExpired, Whitelist!Upsert, Whitelist!ExpiresAt
<1>4. QED
  BY <1>2, <1>3
=============================================================================
