---------------------------- MODULE ForwardAuth ----------------------------
(***************************************************************************)
(* The auth probe handler of internal/serve with the state it shares: the  *)
(* IP whitelist, the failure log and the bans, and the flood engine's      *)
(* cleanup loop beside it.                                                 *)
(*                                                                         *)
(* Every HTTP request is a goroutine running authProbe.  The three bundles *)
(* lock their own mutex for one operation at a time and nothing locks two  *)
(* of them together, so a probe is a sequence of atomic steps, one per     *)
(* bundle operation and one per reading of the clock, interleaved with the *)
(* steps of other probes and of the cleanup.  Steps of the handler that    *)
(* touch nothing shared are part of the step before them.                  *)
(*                                                                         *)
(* A member of Probes is one request: it is served once and what was       *)
(* answered stays in its record, which is what the properties look back    *)
(* on.  Time is counted in the unit of the constants.                      *)
(***************************************************************************)
EXTENDS Integers, Sequences, FiniteSets

CONSTANTS
  Probes,     \* the requests
  IPs,        \* the client addresses ClientIP may resolve
  NoIP,       \* the empty address of a request not looked at yet
  Settings,   \* the configurations the program may be started with
  Rules,      \* the flood tiers, in order: [count, window, temp, permanent]
  Period,     \* how long a whitelist element stays active
  Retention,  \* how long the cleanup keeps failures
  MaxTime     \* the clock stops here

Setting == [whitelistEnabled: BOOLEAN, overridesBan: BOOLEAN,
            floodEnabled: BOOLEAN, clearOnWhitelist: BOOLEAN,
            countNoCredentials: BOOLEAN, countTempBanProbes: BOOLEAN]

ASSUME ProbesAssumption == IsFiniteSet(Probes)

ASSUME NoIPAssumption == NoIP \notin IPs

ASSUME SettingsAssumption == Settings \subseteq Setting

\* What validateFloodTiers guarantees of a tier; it relates no tier to Retention.
Rule == [count: Nat \ {0}, window: Nat \ {0}, temp: Nat, permanent: BOOLEAN]

ASSUME RulesAssumption == Rules \in Seq(Rule)

ASSUME TempAssumption ==
  \A i \in DOMAIN Rules : Rules[i].permanent \/ Rules[i].temp # 0

ASSUME TimeAssumption ==
  Period \in Nat \ {0} /\ Retention \in Nat \ {0} /\ MaxTime \in Nat

VARIABLES
  cfg,        \* the settings this process runs with
  clock,      \* what time.Now() returns
  whitelist,  \* ipwhitelist.Bundle.elements
  entries,    \* floodtrack.Bundle.entries
  bans,       \* floodban.Bundle.bans
  cleanup,    \* the goroutine of Engine.Cleanup: where it is, and its now
  probe       \* for each request where its handler is, its locals and its answer

vars == <<cfg, clock, whitelist, entries, bans, cleanup, probe>>

Bans      == INSTANCE FloodBan
Track     == INSTANCE FloodTrack
Whitelist == INSTANCE IPWhitelist

-----------------------------------------------------------------------------
(* Types *)

\* A rule is named by its position, as the rule ID of the code names it.
Ban     == [ip: IPs, permanent: BOOLEAN, bannedAt: Nat, expiresAt: Nat,
            rule: DOMAIN Rules]
Entry   == [probe: Probes, ip: IPs, time: Nat]
Element == [ip: IPs, time: Nat]

Steps   == {"idle", "whitelist", "stamp", "upsert", "clear", "ban", "basic",
            "append", "count", "done"}
Reasons == {"none", "refused", "whitelisted", "banned", "temp_banned",
            "no_credentials", "auth_failed", "ok"}

\* best is the local best of UpdatePunishments: empty while best.IP is "".
Probe == [pc: Steps, ip: IPs \union {NoIP}, now: Nat, whitelisted: BOOLEAN,
          stamp: Nat, rule: Nat, best: SUBSET Ban, reason: Reasons]

\* Type invariant.
TypeOK ==
  /\ cfg \in Settings
  /\ clock \in Nat
  /\ whitelist \subseteq Element
  /\ entries \subseteq Entry
  /\ bans \subseteq Ban
  /\ cleanup \in [pc: {"idle", "track", "bans"}, now: Nat]
  /\ probe \in [Probes -> Probe]

-----------------------------------------------------------------------------
(* The process starts with empty bundles: no file in ./data yet. *)

Unserved == [pc |-> "idle", ip |-> NoIP, now |-> 0, whitelisted |-> FALSE,
             stamp |-> 0, rule |-> 1, best |-> {}, reason |-> "none"]

Init ==
  /\ cfg \in Settings
  /\ clock = 0
  /\ whitelist = {}
  /\ entries = {}
  /\ bans = {}
  /\ cleanup = [pc |-> "idle", now |-> 0]
  /\ probe = [p \in Probes |-> Unserved]

\* Time passes; the bound MaxTime makes the state space finite.
Tick ==
  /\ clock < MaxTime
  /\ clock' = clock + 1
  /\ UNCHANGED <<cfg, whitelist, entries, bans, cleanup, probe>>

-----------------------------------------------------------------------------
(* The probe handler *)

At(p, label) == probe[p].pc = label

\* The answer is written: locals nobody looks at any more are reset.
Answered(p, reason) ==
  [probe[p] EXCEPT !.pc = "done", !.reason = reason, !.rule = 1, !.best = {}]

\* The answer goes out after RecordFailure has returned.
Recording(p, reason) == [probe[p] EXCEPT !.pc = "append", !.reason = reason]

Becomes(p, r) == probe' = [probe EXCEPT ![p] = r]

\* The gates that answer 404, 403 and 401 before any shared state is used:
\* wrong path, origin not allowed, no service for the host.
Refuse(p) ==
  /\ At(p, "idle")
  /\ Becomes(p, Answered(p, "refused"))
  /\ UNCHANGED <<cfg, clock, whitelist, entries, bans, cleanup>>

\* A plausible slip: a whitelisted probe always skips the ban check.
AlwaysOverridesBan(whitelisted) == cfg.floodEnabled /\ ~whitelisted

\* Whether the probe comes to CheckBan, once it is known to be whitelisted or not.
ChecksBan(whitelisted) ==
  cfg.floodEnabled /\ ~(whitelisted /\ cfg.overridesBan)

\* A probe gets past the gates: now is read and the client address resolved.
Arrive(p) ==
  /\ At(p, "idle")
  /\ \E ip \in IPs :
       Becomes(p, [probe[p] EXCEPT
                     !.pc = IF cfg.whitelistEnabled THEN "whitelist"
                            ELSE IF ChecksBan(FALSE) THEN "ban" ELSE "basic",
                     !.ip = ip, !.now = clock])
  /\ UNCHANGED <<cfg, clock, whitelist, entries, bans, cleanup>>

\* isWhitelisted asks for the instant the probe arrived.
CheckWhitelist(p) ==
  /\ At(p, "whitelist")
  /\ LET found == Whitelist!Contains(whitelist, probe[p].ip, probe[p].now, Period)
     IN Becomes(p, [probe[p] EXCEPT
                      !.pc = IF found THEN "stamp"
                             ELSE IF ChecksBan(FALSE) THEN "ban" ELSE "basic",
                      !.whitelisted = found])
  /\ UNCHANGED <<cfg, clock, whitelist, entries, bans, cleanup>>

\* UpsertNow evaluates time.Now() before Upsert takes the lock.
ReadClock(p) ==
  /\ At(p, "stamp")
  /\ Becomes(p, [probe[p] EXCEPT !.pc = "upsert", !.stamp = clock])
  /\ UNCHANGED <<cfg, clock, whitelist, entries, bans, cleanup>>

\* What follows the whitelist work of a whitelisted probe.
Whitelisted(p) ==
  IF ChecksBan(TRUE) THEN [probe[p] EXCEPT !.pc = "ban"]
  ELSE Answered(p, "whitelisted")

\* Upsert in UpsertNow: the renewal of a whitelisted probe, or the entry made
\* for a probe whose credentials were right, which is then answered 200.
UpsertNow(p) ==
  /\ At(p, "upsert")
  /\ whitelist' = Whitelist!Upsert(whitelist, probe[p].ip, probe[p].stamp)
  /\ Becomes(p, IF ~probe[p].whitelisted THEN Answered(p, "ok")
                ELSE IF cfg.floodEnabled /\ cfg.clearOnWhitelist
                     THEN [probe[p] EXCEPT !.pc = "clear"]
                ELSE Whitelisted(p))
  /\ UNCHANGED <<cfg, clock, entries, bans, cleanup>>

\* FLOOD_CLEAR_ON_WHITELIST forgets the failures of the address.
ClearFailures(p) ==
  /\ At(p, "clear")
  /\ entries' = Track!RemoveForIP(entries, probe[p].ip)
  /\ Becomes(p, Whitelisted(p))
  /\ UNCHANGED <<cfg, clock, whitelist, bans, cleanup>>

\* CheckBan: a permanent ban is answered at once, a temporary one may be counted.
CheckBan(p) ==
  /\ At(p, "ban")
  /\ LET found == Bans!IsBanned(bans, probe[p].ip, probe[p].now)
     IN \/ /\ found = {}
           /\ Becomes(p, IF probe[p].whitelisted THEN Answered(p, "whitelisted")
                         ELSE [probe[p] EXCEPT !.pc = "basic"])
        \/ \E ban \in found :
             Becomes(p, IF ban.permanent THEN Answered(p, "banned")
                        ELSE IF cfg.countTempBanProbes
                             THEN Recording(p, "temp_banned")
                        ELSE Answered(p, "temp_banned"))
  /\ UNCHANGED <<cfg, clock, whitelist, entries, bans, cleanup>>

\* The credentials are missing, wrong for every matched service, or right.
BasicAuth(p) ==
  /\ At(p, "basic")
  /\ \/ Becomes(p, IF cfg.floodEnabled /\ cfg.countNoCredentials
                   THEN Recording(p, "no_credentials")
                   ELSE Answered(p, "no_credentials"))
     \/ Becomes(p, IF cfg.floodEnabled THEN Recording(p, "auth_failed")
                   ELSE Answered(p, "auth_failed"))
     \/ Becomes(p, IF cfg.whitelistEnabled
                   THEN [probe[p] EXCEPT !.pc = "stamp"]
                   ELSE Answered(p, "ok"))
  /\ UNCHANGED <<cfg, clock, whitelist, entries, bans, cleanup>>

\* RecordFailure logs the failure at the instant the probe arrived ...
AppendFailure(p) ==
  /\ At(p, "append")
  /\ entries' = Track!Append(entries, [probe |-> p, ip |-> probe[p].ip,
                                       time |-> probe[p].now])
  /\ Becomes(p, [probe[p] EXCEPT !.pc = "count", !.rule = 1])
  /\ UNCHANGED <<cfg, clock, whitelist, bans, cleanup>>

\* A plausible slip: the ban carries the number of the next tier.
BanFromNextRule(ip, now, i) ==
  [ip        |-> ip,
   permanent |-> Rules[i].permanent,
   bannedAt  |-> now,
   expiresAt |-> IF Rules[i].permanent THEN 0 ELSE now + Rules[i].temp,
   rule      |-> i + 1]

BanFromRule(ip, now, i) ==
  [ip        |-> ip,
   permanent |-> Rules[i].permanent,
   bannedAt  |-> now,
   expiresAt |-> IF Rules[i].permanent THEN 0 ELSE now + Rules[i].temp,
   rule      |-> i]

CountSince(ip, since) == Cardinality(Track!Since(entries, ip, since))

\* ... and UpdatePunishments counts for one rule after the other, each count
\* under a lock of its own, and keeps the harshest ban whose count is reached.
CountRule(p) ==
  /\ At(p, "count")
  /\ probe[p].rule \in DOMAIN Rules
  /\ LET i         == probe[p].rule
         count     == CountSince(probe[p].ip, probe[p].now - Rules[i].window)
         candidate == BanFromRule(probe[p].ip, probe[p].now, i)
         better    == /\ count >= Rules[i].count
                      /\ \A b \in probe[p].best : Bans!HarsherThan(candidate, b)
     IN Becomes(p, [probe[p] EXCEPT !.rule = i + 1,
                                    !.best = IF better THEN {candidate} ELSE @])
  /\ UNCHANGED <<cfg, clock, whitelist, entries, bans, cleanup>>

\* The end of UpdatePunishments: the best ban, if any, is imposed.
Punish(p) ==
  /\ At(p, "count")
  /\ probe[p].rule \notin DOMAIN Rules
  /\ \/ probe[p].best = {} /\ UNCHANGED bans
     \/ \E ban \in probe[p].best : bans' = Bans!Upsert(bans, ban)
  /\ Becomes(p, Answered(p, probe[p].reason))
  /\ UNCHANGED <<cfg, clock, whitelist, entries, cleanup>>

-----------------------------------------------------------------------------
(* The loops beside the handlers *)

\* Cleanup runs at start and on every tick of its ticker, with one now.
CleanupStart ==
  /\ cfg.floodEnabled
  /\ cleanup.pc = "idle"
  /\ cleanup' = [pc |-> "track", now |-> clock]
  /\ UNCHANGED <<cfg, clock, whitelist, entries, bans, probe>>

CleanupTrack ==
  /\ cleanup.pc = "track"
  /\ entries' = Track!RemoveOlderThan(entries, cleanup.now - Retention)
  /\ cleanup' = [cleanup EXCEPT !.pc = "bans"]
  /\ UNCHANGED <<cfg, clock, whitelist, bans, probe>>

CleanupBans ==
  /\ cleanup.pc = "bans"
  /\ bans' = Bans!RemoveExpired(bans, cleanup.now)
  /\ cleanup' = [pc |-> "idle", now |-> 0]
  /\ UNCHANGED <<cfg, clock, whitelist, entries, probe>>

\* The memory side of the whitelist's Save: ended elements are pruned, at an
\* instant read under the lock.
SaveWhitelist ==
  /\ cfg.whitelistEnabled
  /\ whitelist' = Whitelist!PruneExpired(whitelist, clock, Period)
  /\ UNCHANGED <<cfg, clock, entries, bans, cleanup, probe>>

-----------------------------------------------------------------------------
(* The specification *)

Handle(p) ==
  \/ CheckWhitelist(p) \/ ReadClock(p) \/ UpsertNow(p) \/ ClearFailures(p)
  \/ CheckBan(p) \/ BasicAuth(p)
  \/ AppendFailure(p) \/ CountRule(p) \/ Punish(p)

Cleanup == CleanupStart \/ CleanupTrack \/ CleanupBans

Next ==
  \/ Tick
  \/ \E p \in Probes : Refuse(p) \/ Arrive(p) \/ Handle(p)
  \/ Cleanup
  \/ SaveWhitelist

Spec == Init /\ [][Next]_vars

\* A handler that has begun goes on, and the cleanup's ticker keeps ticking;
\* nobody promises another request, nor that the clock moves on.
FairSpec ==
  /\ Spec
  /\ \A p \in Probes : WF_vars(Handle(p))
  /\ WF_vars(Cleanup)
-----------------------------------------------------------------------------
(* What the properties speak of *)

Permanent(ip) == \E b \in bans : b.ip = ip /\ b.permanent

\* The answers for which a failure of the probe was recorded.
ChargedReasons ==
  {"auth_failed"}
    \union (IF cfg.countNoCredentials THEN {"no_credentials"} ELSE {})
    \union (IF cfg.countTempBanProbes THEN {"temp_banned"} ELSE {})

\* RecordFailure has appended the failure of p.
Charged(p) ==
  \/ At(p, "count")
  \/ At(p, "done") /\ cfg.floodEnabled /\ probe[p].reason \in ChargedReasons

\* The requests of ip that failed at since or later.
Failures(ip, since) ==
  {p \in Probes : Charged(p) /\ probe[p].ip = ip /\ probe[p].now >= since}

\* UpsertNow has run for p.
Upserted(p) ==
  \/ probe[p].whitelisted /\ probe[p].pc \notin {"stamp", "upsert"}
  \/ probe[p].reason = "ok" /\ cfg.whitelistEnabled

-----------------------------------------------------------------------------
(* Safety *)

\* Upsert keeps one element and one ban per address whatever the probes and
\* the cleanup interleave (bundle.go of floodban says so at IsBanned).
OnePerIP ==
  /\ \A b, c \in bans : b.ip = c.ip => b = c
  /\ \A d, e \in whitelist : d.ip = e.ip => d = e

\* Nobody is whitelisted out of nothing: behind every whitelisted probe, however
\* long the chain of renewals, stands a probe from the same address whose
\* credentials were right.
GrantTracesToLogin ==
  \A p \in Probes : probe[p].whitelisted =>
    \E q \in Probes : probe[q].ip = probe[p].ip /\ probe[q].reason = "ok"

\* A whitelisted probe came less than Period after another probe of its address
\* entered or renewed the element: the window slides, it never stretches.
AdmissionIsRecent ==
  \A p \in Probes : probe[p].whitelisted =>
    \E q \in Probes \ {p} :
      /\ Upserted(q) /\ probe[q].ip = probe[p].ip
      /\ probe[q].stamp <= probe[p].now
      /\ probe[p].now < probe[q].stamp + Period

\* A ban is deserved: the address failed as often as its tier asks, not before
\* the tier's window, and the ban is of the kind and length the tier sets.
BanJustified ==
  \A b \in bans :
    /\ Cardinality(Failures(b.ip, b.bannedAt - Rules[b.rule].window))
         >= Rules[b.rule].count
    /\ b.permanent = Rules[b.rule].permanent
    /\ ~b.permanent => b.expiresAt = b.bannedAt + Rules[b.rule].temp

\* No permanent tier is slipped past: once enough requests of an address have
\* failed within the tier's window and none of them is still being counted, the
\* address is banned for good, whatever the cleanup removed meanwhile.
TiersFire ==
  ~cfg.clearOnWhitelist =>
    \A ip \in IPs : \A i \in DOMAIN Rules :
      (/\ Rules[i].permanent
       /\ Cardinality(Failures(ip, clock - Rules[i].window)) >= Rules[i].count
       /\ \A p \in Probes : probe[p].ip = ip => ~At(p, "count"))
      => Permanent(ip)

\* No step lifts or replaces a permanent ban: not a later punishment computed
\* from older counts, not the cleanup.
PermanentBanStays == [][\A b \in bans : b.permanent => b \in bans']_vars

\* A temporary ban that has not ended is only ever traded for one at least as
\* long, except by a cleanup whose now is older than the ban.
BanWeakensOnlyToOlderCleanup ==
  [][\A b \in bans :
       \/ b.permanent \/ clock >= b.expiresAt
       \/ \E c \in bans' :
            c.ip = b.ip /\ (c.permanent \/ c.expiresAt >= b.expiresAt)
       \/ cleanup.pc = "bans" /\ cleanup.now < b.bannedAt]_vars

\* A ban that applies to a request on its way, and was imposed before the request asks
\* for it, is missed only where a harsher one has taken its place that begins after the
\* request came, or where the cleanup's now is outside of it.
BanMissedOnlyOnceReplaced ==
  [][\A p \in Probes : \A b \in Bans!IsBanned(bans, probe[p].ip, probe[p].now) :
       At(p, "ban") =>
         \/ Bans!IsBanned(bans', b.ip, probe[p].now) # {}
         \/ \E c \in Bans!SameIP(bans', b.ip) :
              Bans!HarsherThan(c, b) /\ probe[p].now < c.bannedAt
         \/ cleanup.pc = "bans" /\ ~Bans!Active(b, cleanup.now)]_vars

\* The cleanup never takes a failure some tier still counts for a probe that
\* arrives now or later, when the windows are within the retention.
CleanupKeepsWindows ==
  [][\A e \in entries : \A i \in DOMAIN Rules :
       (e.time >= clock - Rules[i].window /\ cleanup' # cleanup) =>
         e \in entries']_vars

\* A probe that comes from an address already banned for good is not let in by
\* its credentials, nor by the whitelist unless that overrides bans.
BannedStaysOut ==
  \A p \in Probes : \A ip \in IPs :
    [](cfg.floodEnabled /\ Permanent(ip) /\ At(p, "idle") =>
         [](probe[p].ip = ip =>
              /\ probe[p].reason # "ok"
              /\ probe[p].reason = "whitelisted" => cfg.overridesBan))

-----------------------------------------------------------------------------
(* Liveness, under FairSpec *)

\* A temporary ban that has ended leaves the ban list, or a new punishment of
\* the same address has taken its place.
ExpiredBanCollected ==
  \A ip \in IPs : \A t \in 0..MaxTime :
    (\E b \in bans : b.ip = ip /\ ~b.permanent /\ b.expiresAt = t /\ t <= clock)
      ~> ~(\E b \in bans : b.ip = ip /\ ~b.permanent /\ b.expiresAt = t)

\* A failure older than the retention is forgotten.
OldFailureForgotten ==
  \A p \in Probes :
    (\E e \in entries : e.probe = p /\ e.time < clock - Retention)
      ~> ~(\E e \in entries : e.probe = p)

-----------------------------------------------------------------------------
(* What the documentation promises and the code does not keep *)

\* cleanup.go: Cleanup removes expired temporary bans (and no others).
OnlyExpiredBansRemoved ==
  [][\A b \in bans :
       b.permanent \/ clock >= b.expiresAt \/ \E c \in bans' : c.ip = b.ip]_vars

\* README: each whitelisted probe renews the window.  A renewal must not put
\* another probe of the address, on its way already, outside the window.
RenewalKeepsCover ==
  [][\A p \in Probes : \A el \in whitelist :
       (/\ At(p, "whitelist") /\ el.ip = probe[p].ip
        /\ Whitelist!Active(el, probe[p].now, Period)
        /\ clock < Whitelist!ExpiresAt(el, Period))
       => Whitelist!Contains(whitelist', probe[p].ip, probe[p].now, Period)]_vars

\* README: whitelisted IPs skip flood recording entirely.
WhitelistedNotCharged ==
  \A p \in Probes : probe[p].whitelisted => ~Charged(p)
=============================================================================
