--------------------------- MODULE Recovery_proofs ---------------------------
(***************************************************************************)
(* Theorems about Recovery, for any requests, addresses, settings, tiers   *)
(* and number of faults.  Most of ForwardAuth's invariant says nothing of  *)
(* the clock or of how the bundles came to be what they are, and its steps *)
(* are shared; what is new is that the files hold nothing but what was     *)
(* earned, and that a request that is cut off keeps its past.              *)
(***************************************************************************)
EXTENDS Recovery, Tiers_proofs

-----------------------------------------------------------------------------
(* Kinds of steps *)

\* A step of the system is one of ForwardAuth, or starts or ends the process, or
\* sets the clock back.
LEMMA StepKinds ==
  ASSUME [RecoveryNext]_recoveryVars
  PROVE  [Next]_vars \/ Start \/ Terminate \/ Killed \/ SetBack
BY DEF RecoveryNext, recoveryVars, vars, Passes, Serve, Clean, SaveTrack, SaveBans,
       SaveElements, Crash, Outage, Next

\* What a file holds after a step it held before, or the memory did, or it is empty.
LEMMA FileSources ==
  ASSUME RecoveryTypeOK, [RecoveryNext]_recoveryVars
  PROVE  /\ file' \in [whitelist: SUBSET (file.whitelist \union whitelist),
                       entries: {{}, file.entries, entries}, bans: {{}, file.bans, bans}]
         /\ file'.whitelist \subseteq file.whitelist \/ file'.whitelist \subseteq whitelist
<1> DEFINE Source(f) ==
      /\ f \in [whitelist: SUBSET (file.whitelist \union whitelist),
                entries: {{}, file.entries, entries}, bans: {{}, file.bans, bans}]
      /\ f.whitelist \subseteq file.whitelist \/ f.whitelist \subseteq whitelist
<1>0. file \in Files
  BY DEF RecoveryTypeOK
<1>1. CASE file' = file
  BY <1>0, <1>1 DEF Files
<1>2. CASE SaveTrack
  BY <1>0, <1>2 DEF SaveTrack, Files
<1>3. CASE SaveBans
  BY <1>0, <1>3 DEF SaveBans, Files
<1>4. CASE SaveElements
  <2>1. whitelist' \subseteq whitelist
    BY <1>4 DEF SaveElements, SaveWhitelist, Whitelist!PruneExpired
  <2>2. QED
    BY <1>0, <1>4, <2>1 DEF SaveElements, Files
<1>5. CASE Start
  <2>1. whitelist' \subseteq file.whitelist
    BY <1>5 DEF Start, Whitelist!PruneExpired
  <2>2. QED
    BY <1>0, <1>5, <2>1 DEF Start, Files
<1>6. CASE Terminate
  <2>1. Whitelist!PruneExpired(whitelist, clock, Period) \subseteq whitelist
    BY DEF Whitelist!PruneExpired
  <2>2. QED
    BY <1>6, <2>1 DEF Terminate
<1>7. CASE Outage
  BY <1>7 DEF Outage
<1>8. QED
  BY <1>1, <1>2, <1>3, <1>4, <1>5, <1>6, <1>7
     DEF RecoveryNext, recoveryVars, Passes, Serve, Clean, Crash, SetBack

-----------------------------------------------------------------------------
(* Type correctness *)

RecoveryType == RecoveryTypeOK /\ Located

\* A request that is cut off is one that is over.
LEMMA CutType ==
  ASSUME TypeInv, NEW p \in Probes
  PROVE  /\ Cut(probe[p]) \in Probe
         /\ Cut(probe[p]).pc \in {"idle", "done"}
         /\ probe[p].pc \in {"idle", "done"} => Cut(probe[p]) = probe[p]
         /\ probe[p].pc \notin {"idle", "done"} =>
              /\ Cut(probe[p]).pc = "done" /\ Cut(probe[p]).best = {}
              /\ Cut(probe[p]).rule = 1
              /\ Cut(probe[p]).ip = probe[p].ip /\ Cut(probe[p]).now = probe[p].now
              /\ Cut(probe[p]).stamp = probe[p].stamp
              /\ Cut(probe[p]).whitelisted =
                   (probe[p].whitelisted /\ probe[p].pc \notin {"stamp", "upsert"})
              /\ Cut(probe[p]).reason =
                   IF probe[p].pc = "count" THEN probe[p].reason ELSE "none"
BY ProbeType DEF Cut, Probe, Steps, Reasons

\* Every step keeps the types.
LEMMA RecoveryTypeStep ==
  ASSUME RecoveryType, [RecoveryNext]_recoveryVars
  PROVE  RecoveryType'
<1>0. TypeInv
  BY DEF RecoveryType, RecoveryTypeOK, TypeInv
<1>1. TypeInv'
  <2>1. CASE [Next]_vars
    BY <1>0, <2>1, TypeStep
  <2>2. CASE Start
    BY <1>0, <2>2 DEF Start, Whitelist!PruneExpired, TypeInv, TypeOK, Located, At,
                     RecoveryType, RecoveryTypeOK, Files
  <2>3. CASE Terminate
    BY <1>0, <2>3 DEF Terminate, Gone, TypeInv, TypeOK, Located, At
  <2>4. CASE Killed
    <3>1. probe' \in [Probes -> Probe] /\ Located'
      BY <1>0, <2>4, CutType DEF Killed, Located, At
    <3>2. QED
      BY <1>0, <2>4, <3>1 DEF Killed, Gone, TypeInv, TypeOK
  <2>5. CASE SetBack
    BY <1>0, <2>5 DEF SetBack, TypeInv, TypeOK, Located, At
  <2>6. QED
    BY <2>1, <2>2, <2>3, <2>4, <2>5, StepKinds
<1>2. file' \in Files
  <2>1. /\ file.whitelist \subseteq Element /\ whitelist \subseteq Element
        /\ file.entries \subseteq Entry /\ entries \subseteq Entry
        /\ file.bans \subseteq Ban /\ bans \subseteq Ban
    BY <1>0 DEF RecoveryType, RecoveryTypeOK, Files, TypeInv, TypeOK
  <2>2. file' \in [whitelist: SUBSET (file.whitelist \union whitelist),
                   entries: {{}, file.entries, entries}, bans: {{}, file.bans, bans}]
    BY FileSources DEF RecoveryType
  <2>3. QED
    BY <2>1, <2>2 DEF Files
<1>3. faults' \in Faults
  <2>1. faults \in Faults
    BY DEF RecoveryType, RecoveryTypeOK
  <2>2. ASSUME NEW kind \in {"crashes", "outages", "stepsBack"}, Comes(kind)
        PROVE  faults' \in Faults
    BY <2>1, <2>2 DEF Comes, Faults
  <2>3. QED
    BY <2>1, <2>2 DEF RecoveryNext, recoveryVars, Passes, Serve, Clean, SaveTrack,
       SaveBans, SaveElements, Start, Terminate, Crash, Outage, SetBack
<1>4. proc' \in {"down", "starting", "serving"} /\ counted' \subseteq Probes
  BY DEF RecoveryType, RecoveryTypeOK, RecoveryNext, recoveryVars, Passes, Serve, Clean,
     SaveTrack, SaveBans, SaveElements, Start, Terminate, Crash, Outage, SetBack, Killed,
     Gone
<1>5. QED
  BY <1>1, <1>2, <1>3, <1>4 DEF RecoveryType, RecoveryTypeOK, TypeInv

\* They are right when nothing is on disk and the process not started.
LEMMA RecoveryTypeInit == RecoveryInit => RecoveryType
<1> SUFFICES ASSUME RecoveryInit PROVE RecoveryType
  OBVIOUS
<1>1. TypeInv
  BY InvInit DEF RecoveryInit, Inv
<1>2. QED
  BY <1>1 DEF RecoveryInit, RecoveryType, RecoveryTypeOK, TypeInv, Files, Faults

\* Every variable keeps its type through starts, shutdowns and faults.
THEOREM RecoveryTypeCorrect == RecoverySpec => []RecoveryTypeOK
BY RecoveryTypeInit, RecoveryTypeStep, PTL DEF RecoverySpec, RecoveryType
-----------------------------------------------------------------------------
(* What was earned *)

\* What the files hold was earned as what the bundles hold.
Disk ==
  /\ \A el \in file.whitelist : Founded(el)
  /\ \A d, e \in file.whitelist : d.ip = e.ip => d = e
  /\ \A e \in file.entries : EntryTrue(e)
  /\ \A b \in file.bans : Deserved(b)
  /\ \A b, c \in file.bans : b.ip = c.ip => b = c

Memory == Stages /\ WhitelistInv /\ FloodInv /\ OneElementPerIP

RecoveryInv == RecoveryType /\ Memory /\ Disk

\* A request keeps its past through a crash, too.
LEMMA RecoveryKept ==
  ASSUME RecoveryInv, [RecoveryNext]_recoveryVars, NEW q \in Probes
  PROVE  Kept(q) /\ cfg' = cfg
<1>0. /\ TypeInv /\ Stages /\ Stage(probe[q]) /\ probe[q] \in Probe
  BY ProbeType
     DEF RecoveryInv, RecoveryType, RecoveryTypeOK, Memory, TypeInv, Stages
<1>1. CASE [Next]_vars
  BY <1>0, <1>1, KeptStep, PastStays
<1>2. CASE probe' = probe /\ cfg' = cfg
  BY <1>2 DEF Kept, Charged, Upserted, At, ChargedReasons
<1>3. CASE Killed
  <2>1. probe'[q] = Cut(probe[q]) /\ cfg' = cfg
    BY <1>3 DEF Killed, Gone
  <2>2. CASE probe[q].pc \in {"idle", "done"}
    BY <1>0, <2>1, <2>2, CutType DEF Kept, Charged, Upserted, At, ChargedReasons
  <2>3. CASE probe[q].pc \notin {"idle", "done"}
    <3>1. /\ probe'[q].pc = "done"
          /\ probe'[q].ip = probe[q].ip /\ probe'[q].now = probe[q].now
          /\ probe'[q].stamp = probe[q].stamp
          /\ probe'[q].whitelisted =
               (probe[q].whitelisted /\ probe[q].pc \notin {"stamp", "upsert"})
          /\ probe'[q].reason = IF probe[q].pc = "count" THEN probe[q].reason ELSE "none"
      BY <1>0, <2>1, <2>3, CutType
    <3>2. probe[q].reason # "ok"
      BY <1>0, <2>3 DEF Stage, ChargedReasons
    <3>3. Charged(q) => probe[q].pc = "count" /\ Charged(q)'
      BY <1>0, <2>1, <2>3, <3>1 DEF Stage, Charged, At, ChargedReasons
    <3>4. Upserted(q) => Upserted(q)'
      BY <3>1, <3>2 DEF Upserted
    <3>5. QED
      BY <2>1, <3>1, <3>2, <3>3, <3>4 DEF Kept
  <2>4. QED
    BY <2>1, <2>2, <2>3
<1>4. QED
  BY <1>1, <1>2, <1>3, StepKinds DEF Start, Terminate, SetBack, Gone

\* So what the files hold stays earned.
LEMMA DiskStep ==
  ASSUME RecoveryInv, [RecoveryNext]_recoveryVars
  PROVE  Disk'
<1>0. /\ TypeInv /\ RecoveryTypeOK /\ WhitelistInv /\ FloodInv /\ OneElementPerIP
      /\ file \in Files /\ Disk /\ \A q \in Probes : Kept(q)
  BY RecoveryKept DEF RecoveryInv, RecoveryType, RecoveryTypeOK, Memory, TypeInv
<1>1. /\ file'.whitelist \subseteq file.whitelist \/ file'.whitelist \subseteq whitelist
      /\ file'.entries \in {{}, file.entries, entries}
      /\ file'.bans \in {{}, file.bans, bans}
  BY <1>0, FileSources
<1>2. \A el \in file'.whitelist : Founded(el)'
  BY <1>0, <1>1, FoundedStays DEF Disk, WhitelistInv, ElementsFounded
<1>3. \A d, e \in file'.whitelist : d.ip = e.ip => d = e
  BY <1>0, <1>1 DEF Disk, OneElementPerIP
<1>4. \A e \in file'.entries : EntryTrue(e)'
  BY <1>0, <1>1, EntryTrueStays DEF Disk, FloodInv, EntriesTrue, Files, TypeInv, TypeOK
<1>5. \A b \in file'.bans : Deserved(b)'
  BY <1>0, <1>1, DeservedStays
     DEF Disk, FloodInv, BanJustified, Deserved, Files, TypeInv, TypeOK
<1>6. \A b, c \in file'.bans : b.ip = c.ip => b = c
  BY <1>0, <1>1 DEF Disk, FloodInv, OneBanPerIP
<1>7. QED
  BY <1>2, <1>3, <1>4, <1>5, <1>6 DEF Disk

\* A step that is none of ForwardAuth fills the memory from the files or empties it.
LEMMA MemorySources ==
  ASSUME [RecoveryNext]_recoveryVars, ~[Next]_vars
  PROVE  /\ whitelist' \in {whitelist, {}} \/ whitelist' \subseteq file.whitelist
         /\ entries' \in {{}, entries, file.entries}
         /\ bans' \in {{}, bans, file.bans}
         /\ probe' = probe \/ probe' = [p \in Probes |-> Cut(probe[p])]
BY StepKinds DEF Start, Terminate, Killed, Gone, SetBack, Whitelist!PruneExpired

\* The stages of the handlers do not depend on how the process ends or starts.
LEMMA RecoveryStages ==
  ASSUME RecoveryInv, [RecoveryNext]_recoveryVars
  PROVE  Stages'
<1>0. TypeInv /\ Stages
  BY DEF RecoveryInv, RecoveryType, RecoveryTypeOK, Memory, TypeInv
<1>1. CASE [Next]_vars
  BY <1>0, <1>1, StagesStep
<1>2. CASE ~[Next]_vars
  <2>1. ASSUME NEW p \in Probes PROVE Stage(probe[p])'
    <3>1. Stage(probe[p]) /\ probe[p] \in Probe /\ cfg' = cfg
      BY <1>0, RecoveryKept, ProbeType DEF Stages
    <3>2. PICK x : probe'[p] = x /\ (x = probe[p] \/ x = Cut(probe[p]))
      BY <1>2, MemorySources
    <3>3. Stage(x)
      <4>1. CASE x = probe[p]
        BY <3>1, <4>1
      <4>2. CASE x = Cut(probe[p]) /\ probe[p].pc \in {"idle", "done"}
        BY <1>0, <3>1, <4>2, CutType
      <4>3. CASE x = Cut(probe[p]) /\ probe[p].pc \notin {"idle", "done"}
        BY <1>0, <4>3, CutType DEF Stage
      <4>4. QED
        BY <3>2, <4>1, <4>2, <4>3
    <3>4. QED
      BY <3>1, <3>2, <3>3 DEF Stage, ChargedReasons
  <2>2. QED
    BY <2>1 DEF Stages
<1>3. QED
  BY <1>1, <1>2

\* What the bundles hold, and what was granted, stays earned.
LEMMA MemoryStep ==
  ASSUME RecoveryInv, [RecoveryNext]_recoveryVars
  PROVE  Memory'
<1>0. /\ TypeInv /\ RecoveryTypeOK /\ Stages /\ WhitelistInv /\ FloodInv
      /\ OneElementPerIP /\ Disk /\ file \in Files /\ \A q \in Probes : Kept(q)
  BY RecoveryKept DEF RecoveryInv, RecoveryType, RecoveryTypeOK, Memory, TypeInv
<1>1. CASE [Next]_vars
  BY <1>0, <1>1, StagesStep, WhitelistStep, FloodStep, OneElementStep DEF Memory
<1>2. CASE ~[Next]_vars
  <2>0. /\ whitelist' \in {whitelist, {}} \/ whitelist' \subseteq file.whitelist
        /\ entries' \in {{}, entries, file.entries}
        /\ bans' \in {{}, bans, file.bans}
        /\ probe' = probe \/ probe' = [p \in Probes |-> Cut(probe[p])]
    BY <1>2, MemorySources
  <2>1. ElementsFounded'
    BY <1>0, <2>0, FoundedStays DEF Disk, WhitelistInv, ElementsFounded
  <2>2. OneElementPerIP'
    BY <1>0, <2>0 DEF Disk, OneElementPerIP
  <2>3. EntriesTrue'
    BY <1>0, <2>0, EntryTrueStays DEF Disk, FloodInv, EntriesTrue, Files, TypeInv, TypeOK
  <2>4. \A b \in bans' : Deserved(b)'
    BY <1>0, <2>0, DeservedStays
       DEF Disk, FloodInv, BanJustified, Deserved, Files, TypeInv, TypeOK
  <2>5. OneBanPerIP'
    BY <1>0, <2>0 DEF Disk, FloodInv, OneBanPerIP
  <2>6. ASSUME NEW p \in Probes
        PROVE  /\ probe'[p].best \subseteq probe[p].best
               /\ probe'[p].whitelisted => probe[p].whitelisted
               /\ probe'[p].ip = probe[p].ip /\ probe'[p].now = probe[p].now
    <3>1. probe'[p] = probe[p] \/ probe'[p] = Cut(probe[p])
      BY <2>0
    <3>2. QED
      BY <1>0, <3>1, CutType
  <2>7. BestDeserved'
    <3>1. ASSUME NEW p \in Probes, NEW b \in probe'[p].best
          PROVE  Deserved(b)' /\ b.ip = probe'[p].ip
      <4>1. b \in probe[p].best /\ b \in Ban
        BY <1>0, <2>6, <3>1, ProbeType
      <4>2. QED
        BY <1>0, <2>6, <4>1, DeservedStays DEF FloodInv, BestDeserved
    <3>2. QED
      BY <3>1 DEF BestDeserved
  <2>8. GrantTracesToLogin'
    BY <1>0, <2>6 DEF WhitelistInv, GrantTracesToLogin, Kept
  <2>9. AdmissionIsRecent'
    BY <1>0, <2>6 DEF WhitelistInv, AdmissionIsRecent, Kept
  <2>10. Stages'
    BY RecoveryStages
  <2>11. BanJustified'
    BY <2>4 DEF BanJustified, Deserved
  <2>12. QED
    BY <2>1, <2>2, <2>3, <2>5, <2>7, <2>8, <2>9, <2>10, <2>11
       DEF Memory, WhitelistInv, FloodInv
<1>3. QED
  BY <1>1, <1>2

\* The invariant holds from the start.
LEMMA RecoveryInvInit == RecoveryInit => RecoveryInv
<1> SUFFICES ASSUME RecoveryInit PROVE RecoveryInv
  OBVIOUS
<1>1. Inv /\ OneElementPerIP
  BY InvInit DEF RecoveryInit
<1>2. Disk
  BY DEF RecoveryInit, Disk
<1>3. QED
  BY <1>1, <1>2, RecoveryTypeInit DEF RecoveryInv, Memory, Inv

\* It holds in every state, whatever fails.
THEOREM RecoveryInvariant == RecoverySpec => []RecoveryInv
<1>1. RecoveryInv /\ [RecoveryNext]_recoveryVars => RecoveryInv'
  BY RecoveryTypeStep, MemoryStep, DiskStep DEF RecoveryInv
<1>2. QED
  BY RecoveryInvInit, <1>1, PTL DEF RecoverySpec

\* No fault gives an address a second ban or a second element.
THEOREM UniqueThroughFaults == RecoverySpec => []OnePerIP
<1>1. RecoveryInv => OnePerIP
  BY DEF RecoveryInv, Memory, FloodInv, OneBanPerIP, OneElementPerIP, OnePerIP
<1>2. QED
  BY RecoveryInvariant, <1>1, PTL

\* No fault makes a grant that goes back to no login.
THEOREM GrantsEarnedThroughFaults == RecoverySpec => []GrantTracesToLogin
<1>1. RecoveryInv => GrantTracesToLogin
  BY DEF RecoveryInv, Memory, WhitelistInv
<1>2. QED
  BY RecoveryInvariant, <1>1, PTL

\* No fault stretches the window of an element that was entered or renewed.
THEOREM AdmissionsRecentThroughFaults == RecoverySpec => []AdmissionIsRecent
<1>1. RecoveryInv => AdmissionIsRecent
  BY DEF RecoveryInv, Memory, WhitelistInv
<1>2. QED
  BY RecoveryInvariant, <1>1, PTL

\* No fault makes a ban that its address has not earned.
THEOREM BansEarnedThroughFaults == RecoverySpec => []BanJustified
<1>1. RecoveryInv => BanJustified
  BY DEF RecoveryInv, Memory, FloodInv
<1>2. QED
  BY RecoveryInvariant, <1>1, PTL

-----------------------------------------------------------------------------
(* Permanent bans survive *)

\* A process that is up holds the permanent bans of its file: it has loaded or
\* written them, and has lifted none since.
HeldBans == proc # "down" => \A b \in file.bans : b.permanent => b \in bans

\* A permanent ban on disk stays there and in force, but for a power loss.
LEMMA SurvivesStep ==
  ASSUME RecoveryInv, HeldBans, [RecoveryNext]_recoveryVars, ~Outage,
         NEW b \in file.bans, b.permanent
  PROVE  b \in file'.bans /\ (proc' # "down" => b \in bans')
<1>0. OneBanPerIP /\ file \in Files
  BY DEF RecoveryInv, RecoveryType, RecoveryTypeOK, Memory, FloodInv
<1>1. ASSUME [Next]_vars, proc # "down" PROVE b \in bans'
  BY <1>0, <1>1, PermanentStep DEF HeldBans
<1>2. CASE [Next]_vars /\ proc' = proc /\ file' = file
  BY <1>1, <1>2
<1>3. CASE Clean
  BY <1>1, <1>3 DEF Clean, Next
<1>4. CASE SaveTrack
  BY <1>0, <1>4 DEF SaveTrack, HeldBans, Files, vars
<1>5. CASE SaveBans
  BY <1>0, <1>5 DEF SaveBans, HeldBans, Files, vars
<1>6. CASE SaveElements
  BY <1>0, <1>1, <1>6 DEF SaveElements, Next, Files
<1>7. CASE Start
  BY <1>0, <1>7 DEF Start, Files
<1>8. CASE Terminate
  BY <1>8 DEF Terminate, Gone, HeldBans
<1>9. CASE Crash
  BY <1>9 DEF Crash, Killed, Gone
<1>10. CASE SetBack
  BY <1>10 DEF SetBack, HeldBans
<1>11. CASE UNCHANGED recoveryVars
  BY <1>11 DEF recoveryVars, HeldBans
<1>12. CASE Passes
  BY <1>2, <1>12 DEF Passes, Next
<1>13. CASE \E p \in Probes : Serve(p)
  BY <1>2, <1>13 DEF Serve, Next
<1>14. QED
  BY <1>3, <1>4, <1>5, <1>6, <1>7, <1>8, <1>9, <1>10, <1>11, <1>12, <1>13
     DEF RecoveryNext

\* What is on disk of them while the process is up is in force.
LEMMA HeldStep ==
  ASSUME RecoveryInv, HeldBans, [RecoveryNext]_recoveryVars
  PROVE  HeldBans'
<1> SUFFICES ASSUME proc' # "down", NEW b \in file'.bans, b.permanent
             PROVE  b \in bans'
  BY DEF HeldBans
<1>1. ~Outage
  BY DEF Outage, Killed, Gone
<1>2. CASE b \in file.bans
  BY <1>1, <1>2, SurvivesStep
<1>3. CASE b \notin file.bans
  <2>1. file \in Files /\ file'.bans # file.bans
    BY <1>3 DEF RecoveryInv, RecoveryType, RecoveryTypeOK
  <2>2. SaveBans
    BY <1>1, <2>1 DEF RecoveryNext, recoveryVars, Passes, Serve, Clean, SaveTrack,
       SaveElements, Start, Terminate, Crash, SetBack, Killed, Gone, Files
  <2>3. QED
    BY <2>1, <2>2 DEF SaveBans, vars, Files
<1>4. QED
  BY <1>2, <1>3

\* A power loss is the only step that counts as one.
LEMMA OutageCounts ==
  ASSUME RecoveryInv, Outage
  PROVE  faults'.outages # faults.outages
<1>1. faults \in Faults
  BY DEF RecoveryInv, RecoveryType, RecoveryTypeOK
<1>2. QED
  BY <1>1 DEF Outage, Comes, Faults

\* A permanent ban that has reached the disk is in force whenever the process runs.
THEOREM PermanentBansSurvive == RecoverySpec => PermanentBanSurvives
<1>1. RecoveryInit => HeldBans
  BY DEF RecoveryInit, HeldBans
<1>2. RecoveryInv /\ HeldBans /\ [RecoveryNext]_recoveryVars => HeldBans'
  BY HeldStep
<1>3. RecoveryInv /\ HeldBans /\ [RecoveryNext]_recoveryVars =>
        [\A b \in file.bans :
           b.permanent /\ faults'.outages = faults.outages =>
             b \in file'.bans /\ (proc' # "down" => b \in bans')]_recoveryVars
  BY SurvivesStep, OutageCounts
<1>4. QED
  BY RecoveryInvariant, <1>1, <1>2, <1>3, PTL DEF RecoverySpec, PermanentBanSurvives
-----------------------------------------------------------------------------
(* Only faults show *)

\* A whitelist that is not used holds nothing, and an idle cleanup has no now.
Unused ==
  /\ ~cfg.whitelistEnabled => whitelist = {} /\ file.whitelist = {}
  /\ cleanup.pc = "idle" => cleanup.now = 0

\* Every step keeps it so.
LEMMA UnusedStep ==
  ASSUME RecoveryInv, Unused, [RecoveryNext]_recoveryVars
  PROVE  Unused'
<1>0. TypeInv /\ Stages /\ RecoveryTypeOK
  BY DEF RecoveryInv, RecoveryType, RecoveryTypeOK, TypeInv, Memory
<1>1. cfg' = cfg
  BY <1>0, ClockStep, StepKinds DEF Start, Terminate, Killed, Gone, SetBack
<1>2. ASSUME ~cfg.whitelistEnabled PROVE whitelist' = {}
  <2>1. CASE [Next]_vars
    <3>1. ASSUME NEW el \in whitelist', el \notin whitelist PROVE FALSE
      BY <1>0, <1>2, <2>1, <3>1, NewElement DEF UpsertNow, Stages, Stage, At
    <3>2. QED
      BY <1>2, <3>1 DEF Unused
  <2>2. CASE ~[Next]_vars
    BY <1>2, <2>2, MemorySources DEF Unused
  <2>3. QED
    BY <2>1, <2>2
<1>3. ASSUME ~cfg.whitelistEnabled PROVE file'.whitelist = {}
  BY <1>0, <1>3, FileSources DEF Unused
<1>4. ASSUME cleanup'.pc = "idle" PROVE cleanup'.now = 0
  <2>1. CASE CleanupStart
    BY <1>4, <2>1 DEF CleanupStart
  <2>2. CASE CleanupTrack
    BY <1>0, <1>4, <2>2 DEF CleanupTrack, TypeInv, TypeOK
  <2>3. CASE cleanup' = [pc |-> "idle", now |-> 0]
    BY <2>3
  <2>4. CASE cleanup' = cleanup
    BY <1>4, <2>4 DEF Unused
  <2>5. QED
    BY <2>1, <2>2, <2>3, <2>4, StepKinds
       DEF Next, Handle, Cleanup, Tick, Refuse, Arrive, CheckWhitelist, ReadClock,
           UpsertNow, ClearFailures, CheckBan, BasicAuth, AppendFailure, CountRule,
           Punish, CleanupBans, SaveWhitelist, vars, Start, Terminate, Killed, Gone,
           SetBack
<1>5. QED
  BY <1>1, <1>2, <1>3, <1>4 DEF Unused

\* The instance counts as ForwardAuth does.
LEMMA SameCardinality == ASSUME NEW S PROVE Lasting!Cardinality(S) = Cardinality(S)
BY Zenon DEF Cardinality, Lasting!Cardinality

\* While the process is up the mapping shows what is in memory.
LEMMA UpStep ==
  ASSUME proc # "down", proc' # "down", [Next]_vars
  PROVE  [Lasting!Next]_(Lasting!vars)
<1>1. CASE Tick
  BY <1>1 DEF Tick, Lasting!Tick, Lasting!Next
<1>2. ASSUME NEW p \in Probes, Refuse(p) PROVE Lasting!Refuse(p)
  BY <1>2 DEF Refuse, Lasting!Refuse, At, Lasting!At, Becomes, Lasting!Becomes, Answered,
              Lasting!Answered
<1>3. ASSUME NEW p \in Probes, Arrive(p) PROVE Lasting!Arrive(p)
  BY <1>3 DEF Arrive, Lasting!Arrive, At, Lasting!At, Becomes, Lasting!Becomes,
              ChecksBan, Lasting!ChecksBan
<1>4. ASSUME NEW p \in Probes, CheckWhitelist(p) PROVE Lasting!CheckWhitelist(p)
  BY <1>4 DEF CheckWhitelist, Lasting!CheckWhitelist, At, Lasting!At, Becomes,
              Lasting!Becomes, ChecksBan, Lasting!ChecksBan,
              Whitelist!Contains, Lasting!Whitelist!Contains, Whitelist!Active,
              Lasting!Whitelist!Active, Whitelist!ExpiresAt, Lasting!Whitelist!ExpiresAt
<1>5. ASSUME NEW p \in Probes, ReadClock(p) PROVE Lasting!ReadClock(p)
  BY <1>5 DEF ReadClock, Lasting!ReadClock, At, Lasting!At, Becomes, Lasting!Becomes
<1>6. ASSUME NEW p \in Probes, UpsertNow(p) PROVE Lasting!UpsertNow(p)
  BY <1>6 DEF UpsertNow, Lasting!UpsertNow, At, Lasting!At, Becomes, Lasting!Becomes,
              Answered, Lasting!Answered, ChecksBan, Lasting!ChecksBan, Lasting!Whitelisted,
              Whitelisted, Whitelist!Upsert, Lasting!Whitelist!Upsert
<1>7. ASSUME NEW p \in Probes, ClearFailures(p) PROVE Lasting!ClearFailures(p)
  BY <1>7 DEF ClearFailures, Lasting!ClearFailures, At, Lasting!At, Becomes,
              Lasting!Becomes, Answered, Lasting!Answered, ChecksBan, Lasting!ChecksBan,
              Whitelisted, Lasting!Whitelisted, Track!RemoveForIP,
              Lasting!Track!RemoveForIP
<1>8. ASSUME NEW p \in Probes, CheckBan(p) PROVE Lasting!CheckBan(p)
  BY <1>8 DEF CheckBan, Lasting!CheckBan, At, Lasting!At, Becomes, Lasting!Becomes,
              Answered, Lasting!Answered, Recording, Lasting!Recording,
              Bans!IsBanned, Lasting!Bans!IsBanned, Bans!SameIP, Lasting!Bans!SameIP,
              Bans!Active, Lasting!Bans!Active
<1>9. ASSUME NEW p \in Probes, BasicAuth(p) PROVE Lasting!BasicAuth(p)
  BY <1>9 DEF BasicAuth, Lasting!BasicAuth, At, Lasting!At, Becomes, Lasting!Becomes,
              Answered, Lasting!Answered, Recording, Lasting!Recording
<1>10. ASSUME NEW p \in Probes, AppendFailure(p) PROVE Lasting!AppendFailure(p)
  BY <1>10 DEF AppendFailure, Lasting!AppendFailure, At, Lasting!At, Becomes,
               Lasting!Becomes, Track!Append, Lasting!Track!Append
<1>11. ASSUME NEW p \in Probes, CountRule(p) PROVE Lasting!CountRule(p)
  <2>1. ASSUME NEW ip, NEW since
        PROVE  Lasting!CountSince(ip, since) = CountSince(ip, since)
    BY SameCardinality
       DEF CountSince, Lasting!CountSince, Track!Since, Lasting!Track!Since
  <2>2. ASSUME NEW ip, NEW now, NEW i
        PROVE  Lasting!BanFromRule(ip, now, i) = BanFromRule(ip, now, i)
    BY DEF BanFromRule, Lasting!BanFromRule
  <2>3. ASSUME NEW b, NEW c
        PROVE  Lasting!Bans!HarsherThan(b, c) <=> Bans!HarsherThan(b, c)
    BY DEF Bans!HarsherThan, Lasting!Bans!HarsherThan
  <2>4. QED
    BY <1>11, <2>1, <2>2, <2>3
       DEF CountRule, Lasting!CountRule, At, Lasting!At, Becomes, Lasting!Becomes
<1>12. ASSUME NEW p \in Probes, Punish(p) PROVE Lasting!Punish(p)
  BY <1>12 DEF Punish, Lasting!Punish, At, Lasting!At, Becomes, Lasting!Becomes,
               Answered, Lasting!Answered, Bans!Upsert, Lasting!Bans!Upsert,
               Bans!SameIP, Lasting!Bans!SameIP, Bans!HarsherThan,
               Lasting!Bans!HarsherThan
<1>13. CASE CleanupStart
  BY <1>13 DEF CleanupStart, Lasting!CleanupStart, Lasting!Cleanup, Lasting!Next
<1>14. CASE CleanupTrack
  BY <1>14 DEF CleanupTrack, Lasting!CleanupTrack, Lasting!Cleanup, Lasting!Next,
               Track!RemoveOlderThan, Lasting!Track!RemoveOlderThan
<1>15. CASE CleanupBans
  BY <1>15 DEF CleanupBans, Lasting!CleanupBans, Lasting!Cleanup, Lasting!Next,
               Bans!RemoveExpired, Lasting!Bans!RemoveExpired, Bans!Active,
               Lasting!Bans!Active
<1>16. CASE SaveWhitelist
  BY <1>16 DEF SaveWhitelist, Lasting!SaveWhitelist, Lasting!Next,
               Whitelist!PruneExpired, Lasting!Whitelist!PruneExpired,
               Whitelist!ExpiresAt, Lasting!Whitelist!ExpiresAt
<1>17. CASE UNCHANGED vars
  BY <1>17 DEF vars, Lasting!vars
<1>18. QED
  BY <1>1, <1>2, <1>3, <1>4, <1>5, <1>6, <1>7, <1>8, <1>9, <1>10, <1>11, <1>12, <1>13,
     <1>14, <1>15, <1>16, <1>17
     DEF Next, Handle, Cleanup, Lasting!Next, Lasting!Handle

\* A start and a shutdown show as the save of a whitelist, if it is used.
LEMMA PruneStep ==
  ASSUME RecoveryInv, Unused, Start \/ Terminate
  PROVE  [Lasting!Next]_(Lasting!vars)
<1> DEFINE wl == IF proc = "down" THEN file.whitelist ELSE whitelist
           en == IF proc = "down" THEN file.entries ELSE entries
           bn == IF proc = "down" THEN file.bans ELSE bans
<1>0. cleanup \in [pc: {"idle", "track", "bans"}, now: Nat] /\ file \in Files
  BY DEF RecoveryInv, RecoveryType, RecoveryTypeOK, TypeOK
<1>1. /\ wl' = Whitelist!PruneExpired(wl, clock, Period) /\ en' = en /\ bn' = bn
      /\ UNCHANGED <<cfg, clock, cleanup, probe>>
  <2>1. CASE Start
    BY <1>0, <2>1 DEF Start, Files
  <2>2. CASE Terminate
    <3>1. cleanup' = cleanup
      BY <1>0, <2>2 DEF Terminate, Gone, Unused
    <3>2. QED
      BY <2>2, <3>1 DEF Terminate, Gone
  <2>3. QED
    BY <2>1, <2>2
<1>2. CASE cfg.whitelistEnabled
  BY <1>1, <1>2 DEF Lasting!Next, Lasting!SaveWhitelist, Lasting!Whitelist!PruneExpired,
     Whitelist!PruneExpired, Lasting!Whitelist!ExpiresAt, Whitelist!ExpiresAt
<1>3. CASE ~cfg.whitelistEnabled
  <2>1. wl = {} /\ wl' = {}
    BY <1>1, <1>3 DEF Unused, Whitelist!PruneExpired
  <2>2. QED
    BY <1>1, <2>1 DEF Lasting!vars
<1>4. QED
  BY <1>2, <1>3

\* Every step shows as one of a process that never stops, or a fault comes.
LEMMA LastingStep ==
  ASSUME RecoveryInv, Unused, [RecoveryNext]_recoveryVars
  PROVE  [Lasting!Next \/ faults' # faults]_(Lasting!vars)
<1>1. CASE Passes
  BY <1>1 DEF Passes, Tick, Lasting!Next, Lasting!Tick
<1>2. CASE \E p \in Probes : Serve(p)
  BY <1>2, UpStep DEF Serve, Next
<1>3. CASE Clean
  BY <1>3, UpStep DEF Clean, Next
<1>4. CASE SaveTrack \/ SaveBans \/ SaveElements
  BY <1>4, UpStep DEF SaveTrack, SaveBans, SaveElements, Next
<1>5. CASE Start \/ Terminate
  BY <1>5, PruneStep
<1>6. CASE Crash \/ Outage \/ SetBack
  <2>1. faults \in Faults
    BY DEF RecoveryInv, RecoveryType, RecoveryTypeOK
  <2>2. ASSUME NEW kind \in {"crashes", "outages", "stepsBack"}, Comes(kind)
        PROVE  faults' # faults
    BY <2>1, <2>2 DEF Comes, Faults
  <2>3. QED
    BY <1>6, <2>2 DEF Crash, Outage, SetBack
<1>7. CASE UNCHANGED recoveryVars
  BY <1>7 DEF recoveryVars, Lasting!vars
<1>8. QED
  BY <1>1, <1>2, <1>3, <1>4, <1>5, <1>6, <1>7 DEF RecoveryNext

\* But for the steps in which a fault comes, the process with its files is one
\* that never stops.
THEOREM FaultsOnlyShow == RecoverySpec => OnlyFaultsShow
<1>1. RecoveryInit => Unused
  BY DEF RecoveryInit, Init, Unused
<1>2. RecoveryInv /\ Unused /\ [RecoveryNext]_recoveryVars => Unused'
  BY UnusedStep
<1>3. RecoveryInit => Lasting!Init
  BY DEF RecoveryInit, Init, Lasting!Init, Unserved, Lasting!Unserved
<1>4. RecoveryInv /\ Unused /\ [RecoveryNext]_recoveryVars =>
        [Lasting!Next \/ faults' # faults]_(Lasting!vars)
  BY LastingStep
<1>5. QED
  BY RecoveryInvariant, <1>1, <1>2, <1>3, <1>4, PTL DEF RecoverySpec, OnlyFaultsShow
-----------------------------------------------------------------------------
(* What the log says is punished *)

\* Only a running process has counted, and what it counted it has logged.
Counting ==
  /\ \A p \in counted : Charged(p)
  /\ proc = "down" => counted = {}

\* The request that failed last in this process is about to ban, or has counted
\* too few entries, of which none has been added since; or the ban is there.
Watched(q, ip, i) ==
  /\ probe[q].ip = ip
  /\ \/ WillBan(q, ip, i)
     \/ CountSince(ip, probe[q].now - Rules[i].window) < Rules[i].count

LoggedInv ==
  \A ip \in IPs : \A i \in DOMAIN Rules :
    Rules[i].permanent /\ (\E p \in counted : probe[p].ip = ip) =>
      Permanent(ip) \/ \E q \in counted : Watched(q, ip, i)

\* A request is counted when it logs its failure.
LEMMA NewCounted ==
  ASSUME [RecoveryNext]_recoveryVars, NEW p \in counted', p \notin counted
  PROVE  p \in Probes /\ Serve(p) /\ AppendFailure(p)
<1>1. p \in Probes /\ At(p, "append") /\ Serve(p)
  BY DEF RecoveryNext, recoveryVars, Passes, Serve, Clean, SaveTrack, SaveBans,
     SaveElements, Start, Terminate, Crash, Outage, SetBack, Killed, Gone
<1>2. QED
  BY <1>1 DEF Serve, Refuse, Arrive, Handle, CheckWhitelist, ReadClock, UpsertNow,
     ClearFailures, CheckBan, BasicAuth, CountRule, Punish, At

\* Every step keeps the locals, and what is counted logged.
LEMMA CountingStep ==
  ASSUME RecoveryInv, TierLocals, Counting, [RecoveryNext]_recoveryVars
  PROVE  TierLocals' /\ Counting'
<1>0. TypeInv /\ \A q \in Probes : Kept(q)
  BY RecoveryKept DEF RecoveryInv, RecoveryType, RecoveryTypeOK, TypeInv
<1>1. TierLocals'
  <2>1. CASE [Next]_vars
    BY <1>0, <2>1, LocalsStep
  <2>2. CASE ~[Next]_vars
    <3>1. ASSUME NEW p \in Probes PROVE Locals(probe'[p])
      <4>1. Locals(probe[p]) /\ (probe'[p] = probe[p] \/ probe'[p] = Cut(probe[p]))
        BY <2>2, MemorySources DEF TierLocals
      <4>2. QED
        BY <1>0, <4>1, CutType DEF Locals
    <3>2. QED
      BY <3>1 DEF TierLocals
  <2>3. QED
    BY <2>1, <2>2
<1>2. ASSUME NEW p \in counted' PROVE Charged(p)'
  <2>1. CASE p \in counted
    BY <1>0, <2>1 DEF Counting, Kept, RecoveryInv, RecoveryType, RecoveryTypeOK
  <2>2. CASE p \notin counted
    <3>1. p \in Probes /\ AppendFailure(p)
      BY <2>2, NewCounted
    <3>2. probe'[p].pc = "count"
      BY <1>0, <3>1, ProbeType DEF AppendFailure, Becomes, TypeInv, TypeOK, Probe
    <3>3. QED
      BY <3>2 DEF Charged, At
  <2>3. QED
    BY <2>1, <2>2
<1>3. proc' = "down" => counted' = {}
  BY DEF Counting, RecoveryNext, recoveryVars, Passes, Serve, Clean, SaveTrack,
     SaveBans, SaveElements, Start, Terminate, Crash, Outage, SetBack, Killed, Gone
<1>4. QED
  BY <1>1, <1>2, <1>3 DEF Counting

\* A smaller log, or a later instant to count from, gives no larger count.
LEMMA CountShrinks ==
  ASSUME TypeInv, EntriesTrue, NEW log \in SUBSET entries,
         NEW ip, NEW since \in Int, NEW later \in Int, since <= later
  PROVE  /\ Cardinality(Track!Since(log, ip, later)) <= CountSince(ip, since)
         /\ Cardinality(Track!Since(log, ip, later)) \in Nat
         /\ CountSince(ip, since) \in Nat
<1>1. Track!Since(log, ip, later) \subseteq Track!Since(entries, ip, since)
  BY DEF Track!Since, TypeInv, TypeOK, Entry
<1>2. IsFiniteSet(Track!Since(entries, ip, since))
  BY CountBound
<1>3. QED
  BY <1>1, <1>2, FS_Subset, FS_CardinalityType DEF CountSince

\* A request watched stays so, or has led to the ban, until the next of its
\* address is logged.
LEMMA WatchedStays ==
  ASSUME RecoveryInv, TierLocals, [Next]_vars, NEW ip \in IPs, NEW i \in DOMAIN Rules,
         Rules[i].permanent, NEW q \in Probes, Charged(q), Watched(q, ip, i),
         \A e \in entries' : e.ip = ip => e \in entries
  PROVE  Permanent(ip)' \/ Watched(q, ip, i)'
<1>0. /\ TypeInv /\ EntriesTrue /\ BestDeserved /\ Kept(q)
      /\ probe[q].now \in Nat /\ Rules[i].window \in Nat /\ Rules[i].count \in Nat
  BY RecoveryKept, KeptStep, ProbeType, RuleType
     DEF RecoveryInv, RecoveryType, RecoveryTypeOK, TypeInv, Memory, FloodInv
<1>1. probe'[q].ip = ip /\ probe'[q].now = probe[q].now
  BY <1>0 DEF Kept, Watched
<1> DEFINE since == probe[q].now - Rules[i].window
<1>2. ASSUME CountSince(ip, since) < Rules[i].count PROVE Watched(q, ip, i)'
  <2> DEFINE log == {e \in entries' : e.ip = ip}
  <2>1. log \in SUBSET entries /\ since \in Int
    BY <1>0
  <2>2. Track!Since(log, ip, since) = Track!Since(entries', ip, since)
    BY DEF Track!Since
  <2>3. /\ Cardinality(Track!Since(log, ip, since)) <= CountSince(ip, since)
        /\ Cardinality(Track!Since(log, ip, since)) \in Nat
        /\ CountSince(ip, since) \in Nat
    <3> HIDE DEF log, since
    <3>1. since <= since
      BY <2>1
    <3>2. QED
      BY <1>0, <2>1, <3>1, CountShrinks
  <2>4. Cardinality(Track!Since(entries', ip, since)) < Rules[i].count
    <3> HIDE DEF log, since
    <3>1. QED
      BY <1>0, <1>2, <2>2, <2>3
  <2>5. QED
    BY <1>1, <2>4 DEF Watched, CountSince
<1>3. CASE WillBan(q, ip, i)
  <2>1. Permanent(ip)' \/ WillBan(q, ip, i)' \/ CountSince(ip, since) < Rules[i].count
    BY <1>0, <1>3, WillBanMoves
  <2>2. QED
    BY <1>1, <1>2, <2>1 DEF Watched
<1>4. QED
  BY <1>2, <1>3 DEF Watched

\* The last failure of every address stays watched.
LEMMA LoggedStep ==
  ASSUME RecoveryInv, TierLocals, Counting, LoggedInv, [RecoveryNext]_recoveryVars
  PROVE  LoggedInv'
<1> SUFFICES ASSUME NEW ip \in IPs, NEW i \in DOMAIN Rules, Rules[i].permanent,
                    NEW f \in counted', probe'[f].ip = ip
             PROVE  Permanent(ip)' \/ \E q \in counted' : Watched(q, ip, i)'
  BY DEF LoggedInv
<1>0. /\ TypeInv /\ OneBanPerIP /\ \A q \in Probes : Kept(q)
      /\ counted \subseteq Probes
      /\ i \in Nat /\ DOMAIN Rules = 1..Len(Rules) /\ Len(Rules) \in Nat
  BY RecoveryKept, RuleType, RulesAssumption, LenProperties
     DEF RecoveryInv, RecoveryType, RecoveryTypeOK, TypeInv, Memory, FloodInv
<1>1. CASE \E p \in Probes : AppendFailure(p) /\ Serve(p) /\ probe[p].ip = ip
  <2>1. PICK p \in Probes : AppendFailure(p) /\ Serve(p) /\ probe[p].ip = ip
    BY <1>1
  <2>2. /\ probe'[p].pc = "count" /\ probe'[p].rule = 1 /\ probe'[p].ip = ip
    BY <1>0, <2>1, ProbeType DEF AppendFailure, Becomes, TypeInv, TypeOK, Probe
  <2>3. p \in counted'
    BY <2>1 DEF Serve, AppendFailure
  <2>4. WillBan(p, ip, i)'
    BY <1>0, <2>2 DEF WillBan, At
  <2>5. QED
    BY <2>2, <2>3, <2>4 DEF Watched
<1>2. CASE ~\E p \in Probes : AppendFailure(p) /\ Serve(p) /\ probe[p].ip = ip
  <2>1. f \in counted
    <3>1. ASSUME f \notin counted PROVE FALSE
      <4>1. f \in Probes /\ Serve(f) /\ AppendFailure(f)
        BY <3>1, NewCounted
      <4>2. probe'[f].ip = probe[f].ip
        BY <1>0, <4>1, ProbeType DEF AppendFailure, Becomes, TypeInv, TypeOK, Probe
      <4>3. QED
        BY <1>2, <4>1, <4>2
    <3>2. QED
      BY <3>1
  <2>2. probe[f].ip = ip
    BY <1>0, <2>1 DEF Counting, Kept
  <2>3. proc # "down" /\ counted' # {}
    BY <2>1 DEF Counting
  <2>4. counted \subseteq counted' /\ ([Next]_vars \/ SetBack)
    BY <2>3 DEF RecoveryNext, recoveryVars, vars, Next, Passes, Serve, Clean, SaveTrack,
       SaveBans, SaveElements, Start, Terminate, Crash, Outage, SetBack, Killed, Gone
  <2>5. CASE SetBack
    BY <2>1, <2>2, <2>5
       DEF SetBack, LoggedInv, Permanent, Watched, WillBan, CountSince, At
  <2>6. CASE [Next]_vars
    <3>1. ASSUME NEW e \in entries', e.ip = ip, e \notin entries PROVE FALSE
      <4>1. PICK p \in Probes :
              /\ AppendFailure(p)
              /\ e = [probe |-> p, ip |-> probe[p].ip, time |-> probe[p].now]
        BY <1>0, <2>6, <3>1, NewEntry
      <4>2. Serve(p)
        <5>1. probe'[p] # probe[p] /\ At(p, "append")
          BY <1>0, <4>1, ProbeType
             DEF AppendFailure, At, Becomes, TypeInv, TypeOK, Probe
        <5>2. PICK q \in Probes : Serve(q)
          BY <2>3, <4>1, <5>1
             DEF RecoveryNext, recoveryVars, vars, Passes, Tick, Clean, Cleanup,
                 CleanupStart, CleanupTrack, CleanupBans, SaveTrack, SaveBans,
                 SaveElements, SaveWhitelist, Start, Terminate, Crash, Outage, SetBack,
                 Killed, Gone
        <5>3. PICK r : Becomes(q, r)
          BY <5>2 DEF Serve, Handle, Refuse, Arrive, CheckWhitelist, ReadClock,
             UpsertNow, ClearFailures, CheckBan, BasicAuth, AppendFailure, CountRule,
             Punish
        <5>4. q = p
          BY <1>0, <5>1, <5>3 DEF Becomes, TypeInv, TypeOK
        <5>5. QED
          BY <5>2, <5>4
      <4>3. QED
        BY <1>2, <3>1, <4>1, <4>2
    <3>2. Permanent(ip) \/ \E q \in counted : Watched(q, ip, i)
      BY <2>1, <2>2 DEF LoggedInv
    <3>3. CASE Permanent(ip)
      BY <1>0, <2>6, <3>3, PermanentStep DEF Permanent
    <3>4. CASE \E q \in counted : Watched(q, ip, i)
      BY <1>0, <2>4, <2>6, <3>1, <3>4, WatchedStays DEF Counting
    <3>5. QED
      BY <3>2, <3>3, <3>4
  <2>7. QED
    BY <2>4, <2>5, <2>6
<1>3. QED
  BY <1>1, <1>2

\* Once the requests that failed in this process are through with counting, the
\* ban of every tier that the log has reached is there.
THEOREM LoggedTiersDoFire == RecoverySpec => []LoggedTiersFire
<1>1. RecoveryInit => TierLocals /\ Counting /\ LoggedInv
  BY TierInit DEF RecoveryInit, Counting, LoggedInv
<1>2. RecoveryInv /\ TierLocals /\ Counting /\ LoggedInv /\ [RecoveryNext]_recoveryVars
        => (TierLocals /\ Counting /\ LoggedInv)'
  BY CountingStep, LoggedStep
<1>3. RecoveryInv /\ LoggedInv => LoggedTiersFire
  <2> SUFFICES ASSUME RecoveryInv, LoggedInv, NEW ip \in IPs, NEW i \in DOMAIN Rules,
                      Rules[i].permanent,
                      CountSince(ip, clock - Rules[i].window) >= Rules[i].count,
                      NEW f \in counted, probe[f].ip = ip,
                      \A p \in counted :
                        probe[p].ip = ip => ~At(p, "count") /\ probe[p].now <= clock
               PROVE  Permanent(ip)
    BY DEF LoggedTiersFire
  <2>1. /\ TypeInv /\ EntriesTrue /\ clock \in Nat /\ counted \subseteq Probes
        /\ Rules[i].window \in Nat /\ Rules[i].count \in Nat
    BY RuleType DEF RecoveryInv, RecoveryType, RecoveryTypeOK, TypeInv, TypeOK, Memory,
       FloodInv
  <2>2. ASSUME NEW q \in counted, Watched(q, ip, i) PROVE FALSE
    <3>1. /\ CountSince(ip, probe[q].now - Rules[i].window) < Rules[i].count
          /\ probe[q].now <= clock /\ probe[q].now \in Nat
      BY <2>1, <2>2, ProbeType DEF Watched, WillBan
    <3> DEFINE since == probe[q].now - Rules[i].window
               later == clock - Rules[i].window
    <3>2. since \in Int /\ later \in Int /\ since <= later
      BY <2>1, <3>1
    <3>3. /\ CountSince(ip, later) <= CountSince(ip, since)
          /\ CountSince(ip, later) \in Nat /\ CountSince(ip, since) \in Nat
      <4> HIDE DEF since, later
      <4>1. QED
        BY <2>1, <3>2, CountShrinks DEF CountSince
    <3>4. QED
      BY <2>1, <3>1, <3>3
  <2>3. QED
    BY <2>2 DEF LoggedInv
<1>4. QED
  BY RecoveryInvariant, <1>1, <1>2, <1>3, PTL DEF RecoverySpec
-----------------------------------------------------------------------------
(* Who is banned for good does not slip in through a fault *)

\* Handlers run only while the process serves.
Quiet == proc # "serving" => \A p \in Probes : At(p, "idle") \/ At(p, "done")

LEMMA QuietStep ==
  ASSUME RecoveryInv, Quiet, [RecoveryNext]_recoveryVars
  PROVE  Quiet'
<1> SUFFICES ASSUME proc' # "serving", NEW p \in Probes
             PROVE  At(p, "idle")' \/ At(p, "done")'
  BY DEF Quiet
<1>1. TypeInv
  BY DEF RecoveryInv, RecoveryType, RecoveryTypeOK, TypeInv
<1>2. CASE Terminate
  BY <1>2 DEF Terminate, At
<1>3. CASE Killed
  BY <1>1, <1>3, CutType DEF Killed, At
<1>4. CASE proc # "serving" /\ probe' = probe
  BY <1>4 DEF Quiet, At
<1>5. (proc # "serving" /\ probe' = probe) \/ Terminate \/ Killed
  BY DEF RecoveryNext, recoveryVars, vars, Passes, Tick, Serve, Clean, Cleanup, CleanupStart,
     CleanupTrack, CleanupBans, SaveTrack, SaveBans, SaveElements, SaveWhitelist, Start,
     Crash, Outage, SetBack
<1>6. QED
  BY <1>2, <1>3, <1>4, <1>5

\* A request of a banned address, not let past yet: the ban lasts as long as it runs.
Held(p, ip) ==
  /\ cfg.floodEnabled /\ probe[p].ip = ip /\ Out(probe[p])
  /\ Permanent(ip) \/ At(p, "done")

LEMMA HeldOutStep ==
  ASSUME RecoveryInv, Quiet, [RecoveryNext]_recoveryVars,
         NEW p \in Probes, NEW ip \in IPs, Held(p, ip)
  PROVE  Held(p, ip)'
<1>1. /\ TypeInv /\ Stages /\ OneBanPerIP /\ Stage(probe[p]) /\ cfg' = cfg
      /\ probe[p] \in Probe
  BY RecoveryKept, ProbeType DEF RecoveryInv, RecoveryType, RecoveryTypeOK, TypeInv, Memory,
     FloodInv, Stages
<1>2. ~At(p, "idle")
  BY <1>1, NoIPAssumption DEF Held, Stage, Unserved, At
<1>3. CASE probe'[p] = probe[p] /\ At(p, "done")
  BY <1>1, <1>3 DEF Held, Out, At
<1>4. CASE [Next]_vars
  <2>1. Follows(probe[p], probe'[p])
    BY <1>1, <1>4, FollowsStep
  <2>2. CASE At(p, "done")
    BY <1>3, <2>1, <2>2 DEF Follows, At
  <2>3. CASE Permanent(ip)
    <3>1. probe'[p].ip = ip
      BY <1>2, <2>1 DEF Follows, At, Held
    <3>2. Out(probe[p])'
      BY <1>1, <1>4, <2>3, OutStep DEF Held
    <3>3. Permanent(ip)'
      BY <1>1, <1>4, <2>3, PermanentStep DEF Permanent
    <3>4. QED
      BY <1>1, <3>1, <3>2, <3>3 DEF Held
  <2>4. QED
    BY <2>2, <2>3 DEF Held
<1>5. CASE Start \/ Terminate
  <2>1. At(p, "done")
    BY <1>2, <1>5 DEF Start, Terminate, Quiet
  <2>2. probe' = probe
    BY <1>5 DEF Start, Terminate
  <2>3. QED
    BY <1>3, <2>1, <2>2
<1>6. CASE Killed
  <2>1. probe'[p] = Cut(probe[p])
    BY <1>6 DEF Killed
  <2>2. CASE At(p, "done")
    BY <1>1, <1>3, <2>1, <2>2, CutType DEF At
  <2>3. CASE ~At(p, "done")
    <3>1. /\ probe'[p].pc = "done" /\ probe'[p].ip = probe[p].ip
          /\ probe'[p].reason \in {"none", probe[p].reason}
      BY <1>1, <1>2, <2>1, <2>3, CutType DEF At
    <3>2. QED
      BY <1>1, <3>1 DEF Held, Out, At
  <2>4. QED
    BY <2>2, <2>3
<1>7. CASE SetBack
  BY <1>7 DEF SetBack, Held, Out, Permanent, At
<1>8. QED
  BY <1>4, <1>5, <1>6, <1>7, StepKinds

\* A probe of an address that is banned for good, met on its way to the ban check or to
\* the whitelist, gets in by its credentials never, and by the whitelist only if that
\* overrides bans: no fault takes the ban away and leaves the handler running, and who
\* is cut off is not answered.
BannedStaysOutThroughFaults ==
  \A p \in Probes : \A ip \in IPs :
    [](/\ cfg.floodEnabled /\ Permanent(ip)
       /\ probe[p].ip = ip /\ probe[p].pc \in {"whitelist", "ban"}
       => [](/\ probe[p].reason # "ok"
             /\ probe[p].reason = "whitelisted" => cfg.overridesBan))

THEOREM BannedOutThroughFaults == RecoverySpec => BannedStaysOutThroughFaults
<1> DEFINE Met(p, ip) == /\ cfg.floodEnabled /\ Permanent(ip)
                         /\ probe[p].ip = ip /\ probe[p].pc \in {"whitelist", "ban"}
           NotIn(p) == /\ probe[p].reason # "ok"
                       /\ probe[p].reason = "whitelisted" => cfg.overridesBan
<1>1. RecoverySpec => []Quiet
  <2>1. RecoveryInit => Quiet
    BY DEF RecoveryInit, Init, Quiet, Unserved, At
  <2>2. RecoveryInv /\ Quiet /\ [RecoveryNext]_recoveryVars => Quiet'
    BY QuietStep
  <2>3. QED
    BY <2>1, <2>2, RecoveryInvariant, PTL DEF RecoverySpec
<1>2. ASSUME NEW p \in Probes, NEW ip \in IPs
      PROVE  RecoverySpec => [](Met(p, ip) => []NotIn(p))
  <2>1. RecoveryInv /\ Met(p, ip) => Held(p, ip)
    BY DEF RecoveryInv, Memory, Stages, Stage, Held, Out
  <2>2. RecoveryInv /\ Quiet /\ Held(p, ip) /\ [RecoveryNext]_recoveryVars => Held(p, ip)'
    BY HeldOutStep
  <2>3. Held(p, ip) => NotIn(p)
    BY DEF Held, Out
  <2> HIDE DEF Met, NotIn
  <2>4. QED
    BY <1>1, RecoveryInvariant, <2>1, <2>2, <2>3, PTL DEF RecoverySpec
<1>3. QED
  BY <1>2 DEF BannedStaysOutThroughFaults
=============================================================================
