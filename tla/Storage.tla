------------------------------ MODULE Storage ------------------------------
(***************************************************************************)
(* The life of the process around the handlers: serve.Run opens the three  *)
(* bundles, starts a periodic saver for each and the flood engine's        *)
(* cleanup loop, serves, and on SIGTERM drains, stops the loops one after  *)
(* the other and flushes.  A crash may come between any two steps.         *)
(*                                                                         *)
(* Goroutines: main (Run), one saver loop per bundle, the cleanup loop and *)
(* the requests in flight.  A bundle's mutex is held over its whole Save,  *)
(* file I/O included, so nothing changes the bundle meanwhile; but every   *)
(* other step interleaves with the steps of the save.                      *)
(*                                                                         *)
(* Contents of a bundle are named by numbers: 0 when it is not in memory,  *)
(* 1 for what the empty or missing file holds, and a fresh one after every *)
(* change.  What the changes are is the matter of ForwardAuth.             *)
(***************************************************************************)
EXTENDS Integers

CONSTANTS
  WhitelistEnabled, FloodEnabled,  \* the settings
  MaxInflight,   \* bound: requests in flight at a time
  MaxChanges,    \* bound: changes of the bundles, all together
  MaxFailures,   \* bound: failing file operations
  MaxCrashes     \* bound: crashes

ASSUME EnabledAssumption == {WhitelistEnabled, FloodEnabled} \subseteq BOOLEAN

ASSUME BoundsAssumption ==
  {MaxInflight, MaxChanges, MaxFailures, MaxCrashes} \subseteq Nat

VARIABLES
  main,      \* where Run is; which bundle it is at; whether all went well
  inflight,  \* accepted requests whose handler has not returned
  accepting, \* whether connections may still bring requests
  mem,       \* contents of each bundle in memory
  dirty,     \* Bundle.dirty
  file,      \* contents of each bundle's file
  temps,     \* temporary files left beside each file
  saving,    \* the Save that holds the bundle's mutex
  saver,     \* Periodic of each bundle: the loop, and whether stopCh is closed
  cleaner,   \* the cleanup loop, likewise
  last,      \* the highest number given to contents
  failures,  \* how many file operations have failed
  crashes    \* how often the process was killed

vars == <<main, inflight, accepting, mem, dirty, file, temps, saving, saver,
          cleaner, last, failures, crashes>>

Bundles == {"whitelist", "track", "bans"}
Enabled == {b \in Bundles : IF b = "whitelist" THEN WhitelistEnabled ELSE FloodEnabled}

NotLoaded == 0
Empty     == 1

\* Nobody saves.
Unlocked == [by |-> "nobody", data |-> NotLoaded, stage |-> "temp"]

\* No loop was started.
NoLoop == [at |-> "none", stop |-> FALSE]

Off == [pc |-> "off", bundle |-> "bans", well |-> TRUE]

Init ==
  /\ main = Off
  /\ inflight = 0
  /\ accepting = FALSE
  /\ mem = [b \in Bundles |-> NotLoaded]
  /\ dirty = [b \in Bundles |-> FALSE]
  /\ file = [b \in Bundles |-> Empty]
  /\ temps = [b \in Bundles |-> 0]
  /\ saving = [b \in Bundles |-> Unlocked]
  /\ saver = [b \in Bundles |-> NoLoop]
  /\ cleaner = NoLoop
  /\ last = Empty
  /\ failures = 0
  /\ crashes = 0

-----------------------------------------------------------------------------
(* Changes *)

\* b.mu is free.
Free(b) == saving[b].by = "nobody"

\* A plausible slip: the change is not marked.
ChangeUnmarked(b) ==
  /\ Free(b) /\ mem[b] # NotLoaded
  /\ last - Empty < MaxChanges
  /\ last' = last + 1
  /\ mem' = [mem EXCEPT ![b] = last']
  /\ UNCHANGED dirty

\* Any operation that changes the bundle: it takes the mutex, marks it dirty and
\* writes nothing to disk.
Change(b) ==
  /\ Free(b) /\ mem[b] # NotLoaded
  /\ last - Empty < MaxChanges
  /\ last' = last + 1
  /\ mem' = [mem EXCEPT ![b] = last']
  /\ dirty' = [dirty EXCEPT ![b] = TRUE]

\* An operation that may find nothing to change.
ChangeOrNot(b) ==
  \/ Change(b)
  \/ Free(b) /\ UNCHANGED <<mem, dirty, last>>

-----------------------------------------------------------------------------
(* Saving: Bundle.Save and persist.WriteAtomic *)

\* A plausible slip: no temporary file of its own is created for the save.
SaveReusesTemp(b, who) ==
  /\ Free(b)
  /\ \/ dirty[b] /\ UNCHANGED <<mem, dirty, last>>
     \/ b = "whitelist" /\ Change(b)
  /\ saving' = [saving EXCEPT ![b] = [by |-> who, data |-> mem'[b], stage |-> "temp"]]
  /\ UNCHANGED temps

\* A dirty bundle is encoded and a temporary file created; the whitelist first
\* drops what has expired, which may be what makes it dirty.
SaveBegins(b, who) ==
  /\ Free(b)
  /\ \/ dirty[b] /\ UNCHANGED <<mem, dirty, last>>
     \/ b = "whitelist" /\ Change(b)
  /\ saving' = [saving EXCEPT ![b] = [by |-> who, data |-> mem'[b], stage |-> "temp"]]
  /\ temps' = [temps EXCEPT ![b] = @ + 1]

\* A plausible slip: the file itself is written, not one beside it; until the
\* write is through it holds nothing of use.
WriteInPlace(b) ==
  /\ ~Free(b) /\ saving[b].stage = "temp"
  /\ saving' = [saving EXCEPT ![b].stage = "rename"]
  /\ file' = [file EXCEPT ![b] = NotLoaded]
  /\ UNCHANGED <<main, inflight, accepting, mem, dirty, temps, saver, cleaner,
                 last, failures, crashes>>

\* The temporary file is written and closed.
WriteTemp(b) ==
  /\ ~Free(b) /\ saving[b].stage = "temp"
  /\ saving' = [saving EXCEPT ![b].stage = "rename"]
  /\ UNCHANGED <<main, inflight, accepting, mem, dirty, file, temps, saver,
                 cleaner, last, failures, crashes>>

\* Where Run goes on when a Save or a stop of its own is over.  The bundles are
\* stopped in the order bans, track, whitelist.
StopFrom(b, well) ==
  IF b \in Enabled THEN [pc |-> "stop", bundle |-> b, well |-> well]
  ELSE IF b = "whitelist" \/ ~WhitelistEnabled
       THEN [pc |-> "exited", bundle |-> "whitelist", well |-> well]
  ELSE [pc |-> "stop", bundle |-> "whitelist", well |-> well]

AfterStop(b, well) ==
  CASE b = "bans"      -> StopFrom("track", well)
    [] b = "track"     -> StopFrom("whitelist", well)
    [] b = "whitelist" -> [pc |-> "exited", bundle |-> b, well |-> well]

\* Run after its Save of b, when it is Run that saves: a first save that fails
\* ends the start, a flush that fails is dropped.
Proceed(b, ok) ==
  main' = IF saving[b].by # "main" THEN main
          ELSE CASE main.pc = "flush"     -> AfterStop(b, main.well /\ ok)
                 [] main.pc = "firstSave" ->
                      IF ok THEN [main EXCEPT !.pc = "startSaver"]
                      ELSE [main EXCEPT !.pc = "exited", !.well = FALSE]

\* The rename replaces the file at once; the bundle is clean and unlocked.
Rename(b) ==
  /\ ~Free(b) /\ saving[b].stage = "rename"
  /\ file' = [file EXCEPT ![b] = saving[b].data]
  /\ temps' = [temps EXCEPT ![b] = @ - 1]
  /\ dirty' = [dirty EXCEPT ![b] = FALSE]
  /\ saving' = [saving EXCEPT ![b] = Unlocked]
  /\ Proceed(b, TRUE)
  /\ UNCHANGED <<inflight, accepting, mem, saver, cleaner, last, failures, crashes>>

\* A plausible slip: dirty is reset before the file is known to be written.
FailsClean(b) ==
  /\ ~Free(b) /\ failures < MaxFailures
  /\ failures' = failures + 1
  /\ temps' = [temps EXCEPT ![b] = @ - 1]
  /\ dirty' = [dirty EXCEPT ![b] = FALSE]
  /\ saving' = [saving EXCEPT ![b] = Unlocked]
  /\ Proceed(b, FALSE)
  /\ UNCHANGED <<inflight, accepting, mem, file, saver, cleaner, last, crashes>>

\* A plausible slip: no deferred os.Remove.
FailsLittering(b) ==
  /\ ~Free(b) /\ failures < MaxFailures
  /\ failures' = failures + 1
  /\ saving' = [saving EXCEPT ![b] = Unlocked]
  /\ Proceed(b, FALSE)
  /\ UNCHANGED <<inflight, accepting, mem, dirty, file, temps, saver, cleaner, last,
                 crashes>>

\* Creating, writing, closing or renaming fails: the bundle stays dirty and the
\* temporary file is removed, unless os.Remove fails as well, which nobody notices.
SaveFails(b) ==
  /\ ~Free(b)
  /\ \/ failures' = failures + 1 /\ temps' = [temps EXCEPT ![b] = @ - 1]
     \/ failures' = failures + 2 /\ UNCHANGED temps
  /\ failures' <= MaxFailures
  /\ saving' = [saving EXCEPT ![b] = Unlocked]
  /\ Proceed(b, FALSE)
  /\ UNCHANGED <<inflight, accepting, mem, dirty, file, saver, cleaner, last, crashes>>

-----------------------------------------------------------------------------
(* The loops: persist.Periodic and the engine's cleanup *)

\* The ticker fires and the loop saves; a save with nothing to do changes nothing.
SaverTicks(b) ==
  /\ saver[b].at = "waiting"
  /\ SaveBegins(b, "loop")
  /\ UNCHANGED <<main, inflight, accepting, file, saver, cleaner, failures, crashes>>

\* periodicLoop returns at its select, when it is not in a save.
SaverEnds(b) ==
  /\ saver[b].at = "waiting" /\ saver[b].stop
  /\ saving[b].by # "loop"
  /\ saver' = [saver EXCEPT ![b].at = "ended"]
  /\ UNCHANGED <<main, inflight, accepting, mem, dirty, file, temps, saving,
                 cleaner, last, failures, crashes>>

\* The cleanup goes through the log, then the bans, and may change either.
CleanerMoves(from, to) ==
  /\ cleaner.at = from
  /\ cleaner' = [cleaner EXCEPT !.at = to]
  /\ UNCHANGED <<main, inflight, accepting, file, temps, saving, saver, failures,
                 crashes>>

CleanerTicks == CleanerMoves("waiting", "track") /\ UNCHANGED <<mem, dirty, last>>

CleanTrack ==
  /\ CleanerMoves("track", "bans")
  /\ ChangeOrNot("track")

CleanBans ==
  /\ CleanerMoves("bans", "waiting")
  /\ ChangeOrNot("bans")

CleanerEnds ==
  /\ cleaner.stop
  /\ CleanerMoves("waiting", "ended")
  /\ UNCHANGED <<mem, dirty, last>>

-----------------------------------------------------------------------------
(* Requests *)

RequestBegins ==
  /\ accepting /\ inflight < MaxInflight
  /\ inflight' = inflight + 1
  /\ UNCHANGED <<main, accepting, mem, dirty, file, temps, saving, saver, cleaner,
                 last, failures, crashes>>

RequestChanges(b) ==
  /\ inflight > 0
  /\ Change(b)
  /\ UNCHANGED <<main, inflight, accepting, file, temps, saving, saver, cleaner,
                 failures, crashes>>

RequestEnds ==
  /\ inflight > 0
  /\ inflight' = inflight - 1
  /\ UNCHANGED <<main, accepting, mem, dirty, file, temps, saving, saver, cleaner,
                 last, failures, crashes>>

-----------------------------------------------------------------------------
(* Run, from start to exit *)

\* Run is at another point of its code, or at the same with another bundle.
Goes(to) == main' = to

At(pc) == main.pc = pc

\* Run is through with the start and serves.
Serving(well) == [pc |-> "serve", bundle |-> "bans", well |-> well]

\* After the whitelist, if any, comes the flood engine, if any.
ToFlood == IF FloodEnabled THEN [pc |-> "open", bundle |-> "track", well |-> TRUE]
             ELSE Serving(TRUE)

\* The process is started, the first time or again.
Begin ==
  /\ At("off")
  /\ Goes(IF WhitelistEnabled
          THEN [pc |-> "open", bundle |-> "whitelist", well |-> TRUE] ELSE ToFlood)
  /\ accepting' = (main'.pc = "serve")
  /\ UNCHANGED <<inflight, mem, dirty, file, temps, saving, saver, cleaner, last,
                 failures, crashes>>

\* Open reads the file; the bundle is clean.
Open ==
  /\ At("open")
  /\ LET b == main.bundle
     IN /\ mem' = [mem EXCEPT ![b] = file[b]]
        /\ dirty' = [dirty EXCEPT ![b] = FALSE]
        /\ Goes(CASE b = "whitelist" -> [main EXCEPT !.pc = "firstSave"]
                  [] b = "track"     -> [main EXCEPT !.bundle = "bans"]
                  [] b = "bans"      -> [main EXCEPT !.pc = "startSaver",
                                                     !.bundle = "track"])
  /\ UNCHANGED <<inflight, accepting, file, temps, saving, saver, cleaner, last,
                 failures, crashes>>

\* The file cannot be read: Run stops the whitelist if it has started it.
OpenFails ==
  /\ At("open")
  /\ failures < MaxFailures
  /\ failures' = failures + 1
  /\ Goes(IF main.bundle = "whitelist" THEN [main EXCEPT !.pc = "exited", !.well = FALSE]
          ELSE StopFrom("whitelist", FALSE))
  /\ UNCHANGED <<inflight, accepting, mem, dirty, file, temps, saving, saver, cleaner,
                 last, crashes>>

\* The whitelist is saved once before its loop is started.  StartPersistence saves
\* the other two as well, which are clean since Open: those saves do nothing.
FirstSave ==
  /\ At("firstSave")
  /\ \/ SaveBegins("whitelist", "main") /\ UNCHANGED main
     \/ /\ Free("whitelist") /\ ~dirty["whitelist"]
        /\ Goes([main EXCEPT !.pc = "startSaver"])
        /\ UNCHANGED <<mem, dirty, temps, saving, last>>
  /\ UNCHANGED <<inflight, accepting, file, saver, cleaner, failures, crashes>>

StartSaver ==
  /\ At("startSaver")
  /\ LET b == main.bundle
     IN /\ saver' = [saver EXCEPT ![b] = [at |-> "waiting", stop |-> FALSE]]
        /\ Goes(CASE b = "whitelist" -> ToFlood
                  [] b = "track"     -> [main EXCEPT !.bundle = "bans"]
                  [] b = "bans"      -> [main EXCEPT !.pc = "cleanTrack"])
  /\ accepting' = (main'.pc = "serve")
  /\ UNCHANGED <<inflight, mem, dirty, file, temps, saving, cleaner, last, failures,
                 crashes>>

\* StartCleanup cleans once before it starts the loop, and Run then listens.
FirstCleanTrack ==
  /\ At("cleanTrack")
  /\ ChangeOrNot("track")
  /\ Goes([main EXCEPT !.pc = "cleanBans"])
  /\ UNCHANGED <<inflight, accepting, file, temps, saving, saver, cleaner, failures,
                 crashes>>

FirstCleanBans ==
  /\ At("cleanBans")
  /\ ChangeOrNot("bans")
  /\ cleaner' = [at |-> "waiting", stop |-> FALSE]
  /\ Goes(Serving(TRUE))
  /\ accepting' = TRUE
  /\ UNCHANGED <<inflight, file, temps, saving, saver, failures, crashes>>

\* stopFlood, which stops the cleanup first, then stopWhitelist.
StopAll(well) == IF FloodEnabled
                 THEN [pc |-> "stopCleaner", bundle |-> "bans", well |-> well]
                 ELSE StopFrom("whitelist", well)

\* SIGTERM or SIGINT: Shutdown closes the listener and idle connections and waits.
Signal ==
  /\ At("serve")
  /\ Goes([main EXCEPT !.pc = "drain"])
  /\ accepting' = FALSE
  /\ UNCHANGED <<inflight, mem, dirty, file, temps, saving, saver, cleaner, last,
                 failures, crashes>>

\* ListenAndServe returns with an error; open connections are not closed.
ServeFails ==
  /\ At("serve")
  /\ Goes(StopAll(FALSE))
  /\ UNCHANGED <<inflight, accepting, mem, dirty, file, temps, saving, saver, cleaner,
                 last, failures, crashes>>

\* A plausible slip: the error of a Shutdown that timed out is returned at once.
DrainedOrGone ==
  /\ At("drain")
  /\ Goes(IF inflight = 0 THEN StopAll(TRUE)
          ELSE [pc |-> "exited", bundle |-> "whitelist", well |-> FALSE])
  /\ UNCHANGED <<inflight, accepting, mem, dirty, file, temps, saving, saver, cleaner,
                 last, failures, crashes>>

\* Shutdown returns: all handlers have, or its ten seconds are over.
Drained ==
  /\ At("drain")
  /\ Goes(StopAll(inflight = 0))
  /\ UNCHANGED <<inflight, accepting, mem, dirty, file, temps, saving, saver, cleaner,
                 last, failures, crashes>>

\* StopCleanup closes its channel and waits for the loop to end.
StopCleaner ==
  /\ At("stopCleaner")
  /\ cleaner' = [cleaner EXCEPT !.stop = TRUE]
  /\ Goes([main EXCEPT !.pc = "waitCleaner"])
  /\ UNCHANGED <<inflight, accepting, mem, dirty, file, temps, saving, saver, last,
                 failures, crashes>>

WaitCleaner ==
  /\ At("waitCleaner")
  /\ cleaner.at = "ended"
  /\ Goes(StopFrom("bans", main.well))
  /\ UNCHANGED <<inflight, accepting, mem, dirty, file, temps, saving, saver, cleaner,
                 last, failures, crashes>>

\* A plausible slip: stopCh is waited on but never closed.
StopUnclosed ==
  /\ At("stop")
  /\ Goes([main EXCEPT !.pc = "wait"])
  /\ UNCHANGED <<inflight, accepting, mem, dirty, file, temps, saving, saver, cleaner,
                 last, failures, crashes>>

\* Periodic.Stop closes stopCh ...
Stop ==
  /\ At("stop")
  /\ saver' = [saver EXCEPT ![main.bundle].stop = TRUE]
  /\ Goes([main EXCEPT !.pc = "wait"])
  /\ UNCHANGED <<inflight, accepting, mem, dirty, file, temps, saving, cleaner, last,
                 failures, crashes>>

\* A plausible slip: doneCh is not waited for.
WaitNot ==
  /\ At("wait")
  /\ Goes([main EXCEPT !.pc = "flush"])
  /\ UNCHANGED <<inflight, accepting, mem, dirty, file, temps, saving, saver, cleaner,
                 last, failures, crashes>>

\* ... waits for the loop to end ...
Wait ==
  /\ At("wait")
  /\ saver[main.bundle].at = "ended"
  /\ Goes([main EXCEPT !.pc = "flush"])
  /\ UNCHANGED <<inflight, accepting, mem, dirty, file, temps, saving, saver, cleaner,
                 last, failures, crashes>>

\* A plausible slip: the periodic saves are trusted to have written everything.
FlushNothing ==
  /\ At("flush")
  /\ Goes(AfterStop(main.bundle, main.well))
  /\ UNCHANGED <<inflight, accepting, mem, dirty, file, temps, saving, saver, cleaner,
                 last, failures, crashes>>

\* ... and saves what is still dirty.
Flush ==
  /\ At("flush")
  /\ LET b == main.bundle
     IN \/ SaveBegins(b, "main") /\ UNCHANGED main
        \/ /\ Free(b) /\ ~dirty[b]
           /\ Goes(AfterStop(b, main.well))
           /\ UNCHANGED <<mem, dirty, temps, saving, last>>
  /\ UNCHANGED <<inflight, accepting, file, saver, cleaner, failures, crashes>>

\* The end of the process: nothing is left but the files.
Gone ==
  /\ main' = Off
  /\ inflight' = 0
  /\ accepting' = FALSE
  /\ mem' = [b \in Bundles |-> NotLoaded]
  /\ dirty' = [b \in Bundles |-> FALSE]
  /\ saving' = [b \in Bundles |-> Unlocked]
  /\ saver' = [b \in Bundles |-> NoLoop]
  /\ cleaner' = NoLoop
  /\ UNCHANGED <<file, temps, last, failures>>

\* main returns, whatever still runs.
Exit == At("exited") /\ Gone /\ UNCHANGED crashes

\* The process is killed.
Crash == ~At("off") /\ crashes < MaxCrashes /\ crashes' = crashes + 1 /\ Gone

-----------------------------------------------------------------------------
(* The specification *)

SaveStep(b) == WriteTemp(b) \/ Rename(b) \/ SaveFails(b)

Clean == CleanerTicks \/ CleanTrack \/ CleanBans

Run ==
  \/ Open \/ OpenFails \/ FirstSave \/ StartSaver \/ FirstCleanTrack \/ FirstCleanBans
  \/ Drained \/ StopCleaner \/ WaitCleaner \/ Stop \/ Wait \/ Flush \/ Exit

Next ==
  \/ Begin \/ Run \/ Signal \/ ServeFails \/ Crash
  \/ \E b \in Bundles :
       SaveStep(b) \/ SaverTicks(b) \/ SaverEnds(b) \/ RequestChanges(b)
  \/ Clean \/ CleanerEnds
  \/ RequestBegins \/ RequestEnds

Spec == Init /\ [][Next]_vars

\* A loop that finds its stopCh closed ends.
LoopEnds == CleanerEnds \/ \E b \in Bundles : SaverEnds(b)

\* Every goroutine goes on while it can.  Go's select takes one of the channels that
\* are ready at random, so loops that come back to it again and again do not pass over
\* their closed stopCh for ever: hence the strong fairness.
FairSpec ==
  /\ Spec
  /\ WF_vars(Run)
  /\ \A b \in Bundles : WF_vars(SaveStep(b)) /\ WF_vars(SaverTicks(b))
  /\ WF_vars(Clean) /\ SF_vars(LoopEnds)

-----------------------------------------------------------------------------
(* Properties *)

Loops == [at: {"none", "waiting", "track", "bans", "ended"}, stop: BOOLEAN]

\* Type invariant.
TypeOK ==
  /\ main \in [pc: {"off", "open", "firstSave", "startSaver", "cleanTrack", "cleanBans",
                   "serve", "drain", "stopCleaner", "waitCleaner", "stop", "wait",
                   "flush", "exited"},
              bundle: Bundles, well: BOOLEAN]
  /\ inflight \in Nat /\ accepting \in BOOLEAN
  /\ mem \in [Bundles -> Nat] /\ dirty \in [Bundles -> BOOLEAN]
  /\ file \in [Bundles -> Nat] /\ temps \in [Bundles -> Nat]
  /\ saving \in [Bundles -> [by: {"nobody", "main", "loop"}, data: Nat,
                            stage: {"temp", "rename"}]]
  /\ saver \in [Bundles -> Loops] /\ cleaner \in Loops
  /\ last \in Nat /\ failures \in Nat /\ crashes \in Nat

\* A loaded bundle that is not dirty has its contents on disk: no change, no failing
\* write and no save by another goroutine makes IsDirty lie.
CleanMeansSaved ==
  \A b \in Bundles : mem[b] # NotLoaded /\ ~dirty[b] => file[b] = mem[b]

\* When Run returns after a shutdown in which every handler returned in time and no
\* flush failed, every change is on disk, those of the cleanup included.
NothingLostAtExit ==
  At("exited") /\ main.well => \A b \in Enabled : file[b] = mem[b]

\* main is through with the bundle: it has stopped its loop and flushed it.
Past(b) ==
  \/ At("exited")
  \/ /\ main.pc \in {"stop", "wait", "flush"}
     /\ \/ main.bundle = "whitelist" /\ b # "whitelist"
        \/ main.bundle = "track" /\ b = "bans"

\* However Run ends, by a failing start or listener or by a shutdown that was drained
\* or timed out: when it is through with a bundle, the file holds what memory holds, or
\* a file operation has just failed.  A handler that outlives the shutdown can lose only
\* what it changes later.
OnlyLateChangesLost ==
  [][\A b \in Enabled :
       ~Past(b) /\ Past(b)' /\ mem[b] # NotLoaded =>
         file'[b] = mem'[b] \/ failures' > failures]_vars

\* When Run returns no loop of its own is left, and no save is cut off by the exit.
LoopsEndBeforeExit ==
  At("exited") =>
    /\ cleaner.at \in {"none", "ended"}
    /\ \A b \in Bundles : saver[b].at \in {"none", "ended"} /\ Free(b)

\* A temporary file is left behind only by a crash, one per bundle, or by a save in
\* which two file operations failed, one of them the removal: no single failure does.
LitterIsFromFaults ==
  \A b \in Bundles :
    2 * temps[b] <= 2 * crashes + failures + (IF Free(b) THEN 0 ELSE 2)

\* Each bundle with its file is a durable store; a bundle not in memory counts as
\* what its file holds.
Memory(b) == IF mem[b] = NotLoaded THEN file[b] ELSE mem[b]

WhitelistStore == INSTANCE Durable WITH memory <- Memory("whitelist"),
                    dirty <- dirty["whitelist"], file <- file["whitelist"]
TrackStore     == INSTANCE Durable WITH memory <- Memory("track"),
                    dirty <- dirty["track"], file <- file["track"]
BansStore      == INSTANCE Durable WITH memory <- Memory("bans"),
                    dirty <- dirty["bans"], file <- file["bans"]

\* The steps of saves, loops, stops and crashes implement three durable stores.
BundlesAreDurable == WhitelistStore!Spec /\ TrackStore!Spec /\ BansStore!Spec

\* What is in memory of a bundle whose loop was started comes to its file, unless
\* the process ends before.
ChangesReachDisk ==
  \A b \in Bundles : \A v \in (Empty + 1)..(Empty + MaxChanges) :
    (saver[b].at # "none" /\ mem[b] = v) ~> (file[b] >= v \/ At("off"))

\* A shutdown comes to its end: nothing that is waited for waits itself.
ShutdownEnds == At("drain") ~> At("off")
=============================================================================
