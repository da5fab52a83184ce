------------------------------ MODULE Recovery ------------------------------
(***************************************************************************)
(* The probe handlers and the cleanup of ForwardAuth in a process that is  *)
(* started, saves its bundles now and then, is shut down or killed, and    *)
(* starts again from the files; on a machine that may lose power and whose *)
(* clock may be set back.                                                  *)
(*                                                                         *)
(* A save is one step here: Bundle.Save holds the mutex of its bundle from *)
(* encoding to rename and WriteAtomic replaces the file as a whole, which  *)
(* is what Storage shows (BundlesAreDurable).  The bundles are saved apart *)
(* from each other, so a crash may leave three files of different age.     *)
(* A save that finds its bundle clean would write what the file holds.     *)
(*                                                                         *)
(* A shutdown that does not wait for all handlers, and one whose flush     *)
(* fails, is some saves and a crash; a start that fails is a crash while   *)
(* starting, or no start.                                                  *)
(***************************************************************************)
EXTENDS ForwardAuth

CONSTANT MaxFaults  \* bound: faults, all together

ASSUME FaultsAssumption == MaxFaults \in Nat

VARIABLES
  proc,    \* whether the process is down, starting or serving
  file,    \* what the three files hold
  faults,  \* how often each fault has come
  counted  \* the requests whose failures this process has logged; a record of
           \* the past for the properties, no part of the program

recoveryVars == <<cfg, clock, whitelist, entries, bans, cleanup, probe,
                  proc, file, faults, counted>>

Files  == [whitelist: SUBSET Element, entries: SUBSET Entry, bans: SUBSET Ban]
Faults == [crashes: Nat, outages: Nat, stepsBack: Nat]

\* Type invariant.
RecoveryTypeOK ==
  /\ TypeOK
  /\ proc \in {"down", "starting", "serving"}
  /\ file \in Files
  /\ faults \in Faults
  /\ counted \subseteq Probes

\* No file in ./data yet, and the process not started.
RecoveryInit ==
  /\ Init
  /\ proc = "down"
  /\ file = [whitelist |-> {}, entries |-> {}, bans |-> {}]
  /\ faults = [crashes |-> 0, outages |-> 0, stepsBack |-> 0]
  /\ counted = {}

-----------------------------------------------------------------------------
(* The running process *)

\* Time passes whether the process runs or not.
Passes == Tick /\ UNCHANGED <<proc, file, faults, counted>>

\* A step of a handler: Run listens only when the start is over.
Serve(p) ==
  /\ proc = "serving"
  /\ Refuse(p) \/ Arrive(p) \/ Handle(p)
  /\ counted' = IF At(p, "append") THEN counted \union {p} ELSE counted
  /\ UNCHANGED <<proc, file, faults>>

\* A step of the cleanup.  StartCleanup cleans once before Run listens.
Clean ==
  /\ proc # "down"
  /\ Cleanup
  /\ proc' = IF cleanup.pc = "bans" THEN "serving" ELSE proc
  /\ UNCHANGED <<file, faults, counted>>

\* The ticks of the savers.
SaveTrack ==
  /\ proc # "down" /\ cfg.floodEnabled
  /\ file' = [file EXCEPT !.entries = entries]
  /\ UNCHANGED <<vars, proc, faults, counted>>

\* A plausible slip: only what has an end to come is written.
SaveBansUnended ==
  /\ proc # "down" /\ cfg.floodEnabled
  /\ file' = [file EXCEPT !.bans = {b \in bans : clock < b.expiresAt}]
  /\ UNCHANGED <<vars, proc, faults, counted>>

SaveBans ==
  /\ proc # "down" /\ cfg.floodEnabled
  /\ file' = [file EXCEPT !.bans = bans]
  /\ UNCHANGED <<vars, proc, faults, counted>>

\* The whitelist prunes before it writes, and stays pruned if the write fails.
SaveElements ==
  /\ proc # "down"
  /\ SaveWhitelist
  /\ file' \in {file, [file EXCEPT !.whitelist = whitelist']}
  /\ UNCHANGED <<proc, faults, counted>>

-----------------------------------------------------------------------------
(* Its start and its end *)

\* A plausible slip: what is loaded counts from now.
StartRenews ==
  /\ proc = "down"
  /\ proc' = IF cfg.floodEnabled THEN "starting" ELSE "serving"
  /\ whitelist' = {[el EXCEPT !.time = clock] : el \in file.whitelist}
  /\ entries' = file.entries
  /\ bans' = file.bans
  /\ file' = [file EXCEPT !.whitelist = whitelist']
  /\ UNCHANGED <<cfg, clock, cleanup, probe, faults, counted>>

\* Run opens the bundles and saves the whitelist, which prunes it; the other two
\* are clean then.  What is disabled was never written and is empty in its file.
Start ==
  /\ proc = "down"
  /\ proc' = IF cfg.floodEnabled THEN "starting" ELSE "serving"
  /\ whitelist' = Whitelist!PruneExpired(file.whitelist, clock, Period)
  /\ entries' = file.entries
  /\ bans' = file.bans
  /\ file' = [file EXCEPT !.whitelist = whitelist']
  /\ UNCHANGED <<cfg, clock, cleanup, probe, faults, counted>>

\* The memory of the process is gone, and with it the handlers and loops.
Gone ==
  /\ proc' = "down"
  /\ whitelist' = {} /\ entries' = {} /\ bans' = {}
  /\ cleanup' = [pc |-> "idle", now |-> 0]
  /\ counted' = {}
  /\ UNCHANGED cfg

\* A plausible slip: the bans are not flushed.
TerminateBansUnsaved ==
  /\ proc = "serving"
  /\ cleanup.pc = "idle"
  /\ \A p \in Probes : At(p, "idle") \/ At(p, "done")
  /\ file' = [file EXCEPT !.whitelist = Whitelist!PruneExpired(whitelist, clock, Period),
                          !.entries = entries]
  /\ Gone
  /\ UNCHANGED <<clock, probe, faults>>

\* SIGTERM: the handlers return, the cleanup ends, and every bundle is flushed.
Terminate ==
  /\ proc = "serving"
  /\ cleanup.pc = "idle"
  /\ \A p \in Probes : At(p, "idle") \/ At(p, "done")
  /\ file' = [whitelist |-> Whitelist!PruneExpired(whitelist, clock, Period),
              entries |-> entries, bans |-> bans]
  /\ Gone
  /\ UNCHANGED <<clock, probe, faults>>

-----------------------------------------------------------------------------
(* Faults *)

\* A fault of the kind comes.
Comes(kind) ==
  /\ faults.crashes + faults.outages + faults.stepsBack < MaxFaults
  /\ faults' = [faults EXCEPT ![kind] = @ + 1]

\* What is left of a request that is cut off: no answer; a failure that was
\* logged, and a renewal that was made, have been.
Cut(r) ==
  IF r.pc \in {"idle", "done"} THEN r
  ELSE [r EXCEPT !.pc = "done", !.rule = 1, !.best = {},
                 !.reason = IF r.pc = "count" THEN r.reason ELSE "none",
                 !.whitelisted = r.whitelisted /\ r.pc \notin {"stamp", "upsert"}]

Killed == Gone /\ probe' = [p \in Probes |-> Cut(probe[p])] /\ UNCHANGED clock

\* The process is killed: nothing is lost but what was in memory.
Crash ==
  /\ proc # "down"
  /\ Comes("crashes")
  /\ Killed
  /\ UNCHANGED file

\* The machine loses power: nothing was synced, so a file that was renamed into
\* place may be found empty, which Open takes for no data.  (That it is found as
\* an earlier save left it is the behaviour without the later save.)
Outage ==
  /\ Comes("outages")
  /\ file' \in [whitelist: {{}, file.whitelist}, entries: {{}, file.entries},
                bans: {{}, file.bans}]
  /\ Killed

\* The wall clock is set back: times are UTC(), without the monotonic reading.
SetBack ==
  /\ Comes("stepsBack")
  /\ \E t \in 0..(clock - 1) : clock' = t
  /\ UNCHANGED <<cfg, whitelist, entries, bans, cleanup, probe, proc, file, counted>>

-----------------------------------------------------------------------------
(* The specification *)

RecoveryNext ==
  \/ Passes
  \/ \E p \in Probes : Serve(p)
  \/ Clean
  \/ SaveTrack \/ SaveBans \/ SaveElements
  \/ Start \/ Terminate
  \/ Crash \/ Outage \/ SetBack

RecoverySpec == RecoveryInit /\ [][RecoveryNext]_recoveryVars

-----------------------------------------------------------------------------
(* Properties, beside those of ForwardAuth that hold in spite of all faults *)

\* A process that is down is, to who comes next, one that has in memory what its
\* files hold.
Lasting == INSTANCE ForwardAuth WITH
  whitelist <- IF proc = "down" THEN file.whitelist ELSE whitelist,
  entries   <- IF proc = "down" THEN file.entries ELSE entries,
  bans      <- IF proc = "down" THEN file.bans ELSE bans

\* Starts, saves and orderly shutdowns do not show: but for the steps in which a
\* fault comes the process is one that never stops.  So what was cleared, pruned
\* or lifted comes back, and what was logged or imposed is lost, by faults only.
OnlyFaultsShow ==
  Lasting!Init /\ [][Lasting!Next \/ faults' # faults]_(Lasting!vars)

\* A tier that the log has reached bans, even if the log was loaded from a file
\* and the ban it once led to was lost: when this process has logged a failure of
\* the address, is through with counting, and the clock is not behind it.
LoggedTiersFire ==
  \A ip \in IPs : \A i \in DOMAIN Rules :
    LET failed == {p \in counted : probe[p].ip = ip}
    IN (/\ Rules[i].permanent
        /\ CountSince(ip, clock - Rules[i].window) >= Rules[i].count
        /\ failed # {}
        /\ \A p \in failed : ~At(p, "count") /\ probe[p].now <= clock)
       => Permanent(ip)

\* A permanent ban that has once reached the disk is in force whenever the process
\* runs, and stays on disk, until a power loss takes the file.
PermanentBanSurvives ==
  [][\A b \in file.bans :
       b.permanent /\ faults'.outages = faults.outages =>
         b \in file'.bans /\ (proc' # "down" => b \in bans')]_recoveryVars
=============================================================================
