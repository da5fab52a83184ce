--------------------------- MODULE Storage_proofs ---------------------------
(***************************************************************************)
(* Proofs about Storage, for every number of requests, changes, failures   *)
(* and crashes: the bundles and their files are durable stores.            *)
(***************************************************************************)
EXTENDS Storage, TLAPS

-----------------------------------------------------------------------------
(* The inductive invariant *)

\* Where main is: before it serves, or on its way out.
Starting == main.pc \in {"off", "open", "firstSave", "startSaver", "cleanTrack", "cleanBans"}
Leaving  == main.pc \in {"stopCleaner", "waitCleaner", "stop", "wait", "flush", "exited"}

\* main has not come to the bundle yet: Open of it is still ahead.
Ahead(b) ==
  \/ At("off")
  \/ At("open") /\ b = main.bundle
  \/ At("open") /\ main.bundle = "track" /\ b = "bans"
  \/ /\ main.pc \in {"open", "firstSave", "startSaver"} /\ main.bundle = "whitelist"
     /\ b # "whitelist"

\* The loop of the bundle is still to be started.
Idle(b) ==
  \/ main.pc \in {"off", "firstSave"}
  \/ At("open") /\ (main.bundle = "whitelist" \/ b # "whitelist")
  \/ At("startSaver") /\ (b = main.bundle \/ b = "bans" \/ main.bundle = "whitelist")

\* A bundle is loaded once after a start, and before anything of it is started.
Loading ==
  /\ At("firstSave") => main.bundle = "whitelist"
  /\ \A b \in Bundles : Ahead(b) => mem[b] = NotLoaded
  /\ ~Leaving => \A b \in Enabled : ~Ahead(b) => mem[b] # NotLoaded
  /\ main.pc \in {"open", "firstSave", "startSaver"} => main.bundle \in Enabled

\* The mutex keeps memory as it was encoded until the save is over.
SavesWhatIs ==
  \A b \in Bundles : ~Free(b) =>
    saving[b].data = mem[b] /\ mem[b] # NotLoaded /\ dirty[b] = TRUE

\* A save is a step of the goroutine that began it: neither goes on before it is over.
Owners ==
  \A b \in Bundles :
    /\ saving[b].by = "main" => main.pc \in {"firstSave", "flush"} /\ main.bundle = b
    /\ saving[b].by = "loop" => saver[b].at = "waiting"

\* Nothing that is not in memory is dirty, and a file always holds something.
Kept ==
  \A b \in Bundles :
    /\ file[b] # NotLoaded
    /\ mem[b] = NotLoaded => dirty[b] = FALSE

\* CleanMeansSaved, with the dirty flag as a value.
Saved ==
  \A b \in Bundles : mem[b] # NotLoaded /\ dirty[b] = FALSE => file[b] = mem[b]

\* A save has a temporary file of its own; all others are from crashes, or from saves
\* that failed twice.
Litter ==
  \A b \in Bundles :
    /\ Free(b) => 2 * temps[b] <= 2 * crashes + failures
    /\ ~Free(b) => 2 * temps[b] <= 2 * crashes + failures + 2 /\ temps[b] >= 1

\* Loops run from their start until main has waited for their end.
LoopPhases ==
  /\ main.pc \in {"cleanTrack", "cleanBans"} => FloodEnabled = TRUE
  /\ Starting \/ FloodEnabled = FALSE => cleaner.at = "none"
  /\ main.pc \in {"stop", "wait", "flush", "exited"} => cleaner.at \in {"none", "ended"}
  /\ At("flush") => saver[main.bundle].at = "ended"
  /\ \A b \in Bundles :
       /\ Idle(b) \/ b \notin Enabled => saver[b].at = "none"
       /\ Past(b) => saver[b].at \in {"none", "ended"}

\* In a stop that goes well nothing changes a bundle any more that main is through with.
Quiet ==
  /\ At("drain") => accepting = FALSE
  /\ Leaving /\ main.well = TRUE =>
       /\ inflight = 0 /\ accepting = FALSE
       /\ \A b \in Enabled : mem[b] # NotLoaded
       /\ \A b \in Enabled : Past(b) => dirty[b] = FALSE

IInv ==
  /\ TypeOK /\ Loading /\ SavesWhatIs /\ Owners /\ Kept /\ Saved /\ Litter
  /\ LoopPhases /\ Quiet

\* Before the first start nothing is loaded and nothing runs.
LEMMA InitIInv == Init => IInv
<1> SUFFICES ASSUME Init PROVE IInv
  OBVIOUS
<1> USE DEF Init, Off, Unlocked, NoLoop, NotLoaded, Empty, Bundles
<1>1. main \in [pc: {"off"}, bundle: Bundles, well: BOOLEAN]
  OBVIOUS
<1>2. TypeOK
  BY <1>1 DEF TypeOK, Loops
<1>3. Loading /\ SavesWhatIs /\ Owners /\ Kept /\ Saved /\ Litter
  BY DEF Loading, SavesWhatIs, Owners, Kept, Saved, Litter, At, Free, Ahead, Leaving, Enabled
<1>4. LoopPhases /\ Quiet
  BY DEF LoopPhases, Quiet, At, Starting, Leaving, Idle, Past, Enabled
<1>5. QED
  BY <1>2, <1>3, <1>4 DEF IInv

-----------------------------------------------------------------------------
(* Operations on the bundles *)

\* What the invariant says of the bundles, whatever the goroutines are about.
Data == SavesWhatIs /\ Kept /\ Saved /\ Litter

DataType ==
  /\ mem \in [Bundles -> Nat] /\ dirty \in [Bundles -> BOOLEAN]
  /\ file \in [Bundles -> Nat] /\ temps \in [Bundles -> Nat]
  /\ saving \in [Bundles -> [by: {"nobody", "main", "loop"}, data: Nat,
                            stage: {"temp", "rename"}]]
  /\ last \in Nat /\ failures \in Nat /\ crashes \in Nat

\* Steps that leave the bundles alone.
LEMMA DataUnchanged ==
  ASSUME Data, DataType, UNCHANGED <<mem, dirty, file, temps, saving, crashes>>,
         failures' \in {failures, failures + 1}
  PROVE  Data'
<1>1. SavesWhatIs' /\ Kept' /\ Saved'
  BY DEF Data, SavesWhatIs, Kept, Saved, Free
<1>2. Litter'
  BY DEF Data, DataType, Litter, Free
<1>3. QED
  BY <1>1, <1>2 DEF Data

\* A change marks its bundle, so nothing is claimed of its file.
LEMMA ChangeData ==
  ASSUME Data, DataType, NEW c \in Bundles, ChangeOrNot(c),
         UNCHANGED <<file, temps, saving, failures, crashes>>
  PROVE  /\ Data' /\ mem' \in [Bundles -> Nat] /\ dirty' \in [Bundles -> BOOLEAN]
         /\ last' \in Nat
         /\ \A b \in Bundles : mem'[b] = NotLoaded <=> mem[b] = NotLoaded
         /\ \A b \in Bundles : b # c => dirty'[b] = dirty[b]
<1> USE DEF Data, DataType, NotLoaded, Empty
<1>1. CASE Free(c) /\ UNCHANGED <<mem, dirty, last>>
  BY <1>1, DataUnchanged
<1>2. CASE Change(c)
  <2> USE <1>2 DEF Change
  <2>1. /\ mem' \in [Bundles -> Nat] /\ dirty' \in [Bundles -> BOOLEAN] /\ last' \in Nat
        /\ mem'[c] = last + 1 /\ dirty'[c] = TRUE /\ mem[c] # NotLoaded
        /\ \A b \in Bundles : b # c => mem'[b] = mem[b] /\ dirty'[b] = dirty[b]
    OBVIOUS
  <2>2. SavesWhatIs'
    BY <2>1 DEF SavesWhatIs, Free
  <2>3. Kept' /\ Saved'
    BY <2>1 DEF Kept, Saved
  <2>4. Litter'
    BY DEF Litter, Free
  <2>5. QED
    BY <2>1, <2>2, <2>3, <2>4
<1>3. QED
  BY <1>1, <1>2 DEF ChangeOrNot

\* A save holds the contents of memory, in a temporary file of its own.
LEMMA SaveBeginsData ==
  ASSUME Data, DataType, NEW c \in Bundles, NEW who \in {"main", "loop"},
         SaveBegins(c, who), UNCHANGED <<file, failures, crashes>>
  PROVE  /\ Data'
         /\ mem' \in [Bundles -> Nat] /\ dirty' \in [Bundles -> BOOLEAN]
         /\ last' \in Nat /\ temps' \in [Bundles -> Nat]
         /\ saving' = [saving EXCEPT ![c] =
                         [by |-> who, data |-> mem'[c], stage |-> "temp"]]
         /\ \A b \in Bundles : mem'[b] = NotLoaded <=> mem[b] = NotLoaded
         /\ \A b \in Bundles : b # c => dirty'[b] = dirty[b]
<1> USE DEF Data, DataType, NotLoaded, Empty
<1>0. /\ Free(c) /\ temps' = [temps EXCEPT ![c] = @ + 1]
      /\ saving' = [saving EXCEPT ![c] = [by |-> who, data |-> mem'[c], stage |-> "temp"]]
      /\ (dirty[c] = TRUE /\ UNCHANGED <<mem, dirty, last>>) \/ Change(c)
  BY DEF SaveBegins
<1>1. /\ mem' \in [Bundles -> Nat] /\ dirty' \in [Bundles -> BOOLEAN] /\ last' \in Nat
      /\ mem'[c] # NotLoaded /\ dirty'[c] = TRUE /\ mem[c] # NotLoaded
      /\ \A b \in Bundles : b # c => mem'[b] = mem[b] /\ dirty'[b] = dirty[b]
  <2>1. CASE dirty[c] = TRUE /\ UNCHANGED <<mem, dirty, last>>
    BY <2>1 DEF Kept
  <2>2. CASE Change(c)
    BY <2>2 DEF Change
  <2>3. QED
    BY <1>0, <2>1, <2>2
<1>2. /\ saving'[c].by = who /\ saving'[c].data = mem'[c]
      /\ \A b \in Bundles : b # c => saving'[b] = saving[b] /\ temps'[b] = temps[b]
      /\ temps'[c] = temps[c] + 1 /\ temps' \in [Bundles -> Nat]
  BY <1>0
<1>3. SavesWhatIs'
  BY <1>1, <1>2 DEF SavesWhatIs, Free
<1>4. Kept' /\ Saved'
  BY <1>1 DEF Kept, Saved
<1>5. Litter'
  BY <1>0, <1>2 DEF Litter, Free
<1>6. QED
  BY <1>0, <1>1, <1>2, <1>3, <1>4, <1>5

\* The rename is the one step that changes a file, and cleans its bundle.
LEMMA RenameData ==
  ASSUME Data, DataType, NEW c \in Bundles, Rename(c)
  PROVE  /\ Data' /\ DataType'
         /\ ~Free(c) /\ file'[c] = mem[c] /\ mem[c] # NotLoaded /\ dirty'[c] = FALSE
         /\ \A b \in Bundles : b # c => file'[b] = file[b] /\ dirty'[b] = dirty[b]
<1> USE DEF Data, DataType, NotLoaded, Unlocked, Rename
<1>1. /\ file' \in [Bundles -> Nat] /\ temps' \in [Bundles -> Nat]
      /\ dirty' \in [Bundles -> BOOLEAN] /\ UNCHANGED <<mem, last, failures, crashes>>
      /\ saving' \in [Bundles -> [by: {"nobody", "main", "loop"}, data: Nat,
                                 stage: {"temp", "rename"}]]
      /\ saving'[c].by = "nobody" /\ saving[c].by # "nobody" /\ dirty'[c] = FALSE
      /\ file'[c] = mem[c] /\ mem[c] # NotLoaded /\ temps'[c] = temps[c] - 1
  BY DEF SavesWhatIs, Litter, Free
<1>2. \A b \in Bundles : b # c =>
        /\ file'[b] = file[b] /\ dirty'[b] = dirty[b] /\ saving'[b] = saving[b]
        /\ temps'[b] = temps[b]
  OBVIOUS
<1>3. SavesWhatIs' /\ Kept' /\ Saved'
  BY <1>1, <1>2 DEF SavesWhatIs, Kept, Saved, Free
<1>4. Litter'
  BY <1>1, <1>2 DEF Litter, Free
<1>5. QED
  BY <1>1, <1>2, <1>3, <1>4 DEF Free

\* A save that fails leaves its bundle dirty, and a temporary file only if it fails twice.
LEMMA SaveFailsData ==
  ASSUME Data, DataType, NEW c \in Bundles, SaveFails(c), MaxFailures \in Nat
  PROVE  Data' /\ DataType' /\ UNCHANGED <<mem, dirty, file>>
<1> USE DEF Data, DataType, NotLoaded, Unlocked, SaveFails
<1>1. /\ temps' \in [Bundles -> Nat] /\ failures' \in Nat
      /\ UNCHANGED <<mem, dirty, file, last, crashes>>
      /\ saving' \in [Bundles -> [by: {"nobody", "main", "loop"}, data: Nat,
                                 stage: {"temp", "rename"}]]
      /\ saving'[c].by = "nobody" /\ saving[c].by # "nobody"
      /\ \/ failures' = failures + 1 /\ temps' = [temps EXCEPT ![c] = @ - 1]
         \/ failures' = failures + 2 /\ UNCHANGED temps
  BY DEF Litter, Free
<1>2. \A b \in Bundles : b # c => saving'[b] = saving[b] /\ temps'[b] = temps[b]
  BY <1>1
<1>3. SavesWhatIs' /\ Kept' /\ Saved'
  BY <1>1, <1>2 DEF SavesWhatIs, Kept, Saved, Free
<1>4. Litter'
  <2> HIDE DEF SaveFails
  <2>1. CASE failures' = failures + 1 /\ temps' = [temps EXCEPT ![c] = @ - 1]
    BY <1>1, <1>2, <2>1 DEF Litter, Free
  <2>2. CASE failures' = failures + 2 /\ UNCHANGED temps
    BY <1>1, <1>2, <2>2 DEF Litter, Free
  <2>3. QED
    BY <1>1, <2>1, <2>2
<1>5. QED
  BY <1>1, <1>3, <1>4

\* Writing the temporary file touches nothing else.
LEMMA WriteTempData ==
  ASSUME Data, DataType, NEW c \in Bundles, WriteTemp(c)
  PROVE  Data' /\ DataType' /\ \A b \in Bundles : saving'[b].by = saving[b].by
<1> USE DEF Data, DataType, WriteTemp
<1>1. /\ saving' \in [Bundles -> [by: {"nobody", "main", "loop"}, data: Nat,
                                 stage: {"temp", "rename"}]]
      /\ \A b \in Bundles :
           saving'[b].by = saving[b].by /\ saving'[b].data = saving[b].data
  OBVIOUS
<1>2. SavesWhatIs' /\ Kept' /\ Saved' /\ Litter'
  BY <1>1 DEF SavesWhatIs, Kept, Saved, Litter, Free
<1>3. QED
  BY <1>1, <1>2

\* Nobody saves what is not loaded, so Open finds the file as it stays.
LEMMA OpenData ==
  ASSUME Data, DataType, main.bundle \in Bundles, mem[main.bundle] = NotLoaded, Open
  PROVE  /\ Data' /\ DataType' /\ mem' = [mem EXCEPT ![main.bundle] = file[main.bundle]]
         /\ UNCHANGED dirty /\ mem'[main.bundle] # NotLoaded
<1> USE DEF Data, DataType, Open
<1>1. /\ mem' \in [Bundles -> Nat] /\ dirty' \in [Bundles -> BOOLEAN]
      /\ mem' = [mem EXCEPT ![main.bundle] = file[main.bundle]]
      /\ dirty' = [dirty EXCEPT ![main.bundle] = FALSE]
      /\ UNCHANGED <<file, temps, saving, last, failures, crashes>>
  OBVIOUS
<1>2. dirty' = dirty /\ Free(main.bundle) /\ mem'[main.bundle] # NotLoaded
  BY <1>1 DEF Kept, SavesWhatIs
<1>3. SavesWhatIs' /\ Kept' /\ Saved' /\ Litter'
  BY <1>1, <1>2 DEF SavesWhatIs, Kept, Saved, Litter, Free
<1>4. QED
  BY <1>1, <1>2, <1>3

\* The end of a process leaves the temporary file of a save only if it is a crash.
LEMMA GoneData ==
  ASSUME Data, DataType, Gone,
         \/ UNCHANGED crashes /\ \A b \in Bundles : Free(b)
         \/ crashes' = crashes + 1
  PROVE  Data' /\ DataType'
<1> USE DEF Data, DataType, Gone, Unlocked, NotLoaded
<1>1. DataType'
  OBVIOUS
<1>2. SavesWhatIs' /\ Kept' /\ Saved'
  BY DEF SavesWhatIs, Kept, Saved, Free
<1>3. Litter'
  BY DEF Litter, Free
<1>4. QED
  BY <1>1, <1>2, <1>3

-----------------------------------------------------------------------------
(* The steps *)

\* Where a stop goes on: at a bundle that has a loop, and past those that do not.
LEMMA StopType ==
  ASSUME NEW b \in Bundles, NEW well \in BOOLEAN
  PROVE  /\ StopFrom(b, well) \in [pc: {"stop", "exited"}, bundle: Bundles, well: {well}]
         /\ AfterStop(b, well) \in [pc: {"stop", "exited"}, bundle: Bundles, well: {well}]
         /\ StopAll(well) \in [pc: {"stopCleaner", "stop", "exited"}, bundle: Bundles,
                               well: {well}]
<1>1. ASSUME NEW c \in Bundles
      PROVE  StopFrom(c, well) \in [pc: {"stop", "exited"}, bundle: Bundles, well: {well}]
  BY DEF StopFrom, Bundles
<1>2. QED
  BY <1>1 DEF AfterStop, StopAll, Bundles

ControlType ==
  /\ main \in [pc: {"off", "open", "firstSave", "startSaver", "cleanTrack", "cleanBans",
                   "serve", "drain", "stopCleaner", "waitCleaner", "stop", "wait",
                   "flush", "exited"},
              bundle: Bundles, well: BOOLEAN]
  /\ inflight \in Nat /\ accepting \in BOOLEAN
  /\ saver \in [Bundles -> Loops] /\ cleaner \in Loops

Control == Loading /\ Owners /\ LoopPhases /\ Quiet

\* The invariant, taken apart into types, goroutines and bundles.
LEMMA Parts ==
  /\ IInv => ControlType /\ DataType /\ Control /\ Data
  /\ ControlType' /\ DataType' /\ Control' /\ Data' => IInv'
BY DEF IInv, TypeOK, ControlType, DataType, Control, Data

\* Steps of main that touch no bundle.
LEMMA BeginStep ==
  ASSUME IInv, Begin
  PROVE  IInv'
<1> USE Parts, EnabledAssumption DEF Begin, ToFlood, Serving, At, Goes
<1>1. Data' /\ DataType'
  BY DataUnchanged DEF DataType
<1> USE DEF Control, ControlType, Loops, Enabled, Bundles, Starting, Leaving
<1>2. ControlType'
  OBVIOUS
<1>3. Loading'
  BY DEF Loading, Ahead
<1>4. Owners'
  BY DEF Owners, Free
<1>5. LoopPhases'
  BY DEF LoopPhases, Idle, Past
<1>6. Quiet'
  BY DEF Quiet, Past
<1>7. QED
  BY <1>1, <1>2, <1>3, <1>4, <1>5, <1>6

\* A start that fails stops what was started, which is the whitelist at most.
LEMMA OpenFailsStep ==
  ASSUME IInv, OpenFails
  PROVE  IInv'
<1> USE Parts, EnabledAssumption DEF OpenFails, StopFrom, At, Goes
<1>1. Data' /\ DataType'
  BY DataUnchanged DEF DataType
<1> USE DEF Control, ControlType, Loops, Enabled, Bundles, Starting, Leaving
<1>2. ControlType'
  OBVIOUS
<1>3. Loading'
  BY DEF Loading, Ahead
<1>4. Owners'
  BY DEF Owners, Free
<1>5. LoopPhases'
  BY DEF LoopPhases, Idle, Past
<1>6. Quiet'
  BY DEF Quiet, Past
<1>7. QED
  BY <1>1, <1>2, <1>3, <1>4, <1>5, <1>6

\* Each loop is started once, after its bundle was loaded.
LEMMA StartSaverStep ==
  ASSUME IInv, StartSaver
  PROVE  IInv'
<1> USE Parts, EnabledAssumption DEF StartSaver, ToFlood, Serving, At, Goes
<1>1. Data' /\ DataType'
  BY DataUnchanged DEF DataType
<1> USE DEF Control, ControlType, Loops, Enabled, Bundles, Starting, Leaving
<1>2. ControlType'
  OBVIOUS
<1>3. Loading'
  BY DEF Loading, Ahead
<1>4. Owners'
  BY DEF Owners, Free
<1>5. LoopPhases'
  <2> DEFINE c == main.bundle
  <2> HIDE DEF ControlType, Control, Loops
  <2>1. /\ c \in Bundles /\ c \in Enabled /\ LoopPhases /\ At("startSaver")
        /\ saver \in [Bundles -> Loops]
    BY DEF Loading, Control, ControlType
  <2>2. /\ saver'[c].at = "waiting" /\ cleaner' = cleaner
        /\ \A b \in Bundles : b # c => saver'[b] = saver[b]
    BY <2>1
  <2>3. CASE c = "whitelist"
    <3>1. /\ \/ main'.pc = "open" /\ main'.bundle = "track"
             \/ main'.pc = "serve" /\ FloodEnabled = FALSE
      BY <2>3
    <3>2. QED
      BY <2>1, <2>2, <2>3, <3>1 DEF LoopPhases, Idle, Past
  <2>4. CASE c = "track"
    <3>1. main'.pc = "startSaver" /\ main'.bundle = "bans"
      BY <2>1, <2>4 DEF ControlType
    <3>2. QED
      BY <2>1, <2>2, <2>4, <3>1 DEF LoopPhases, Idle, Past
  <2>5. CASE c = "bans"
    <3>1. main'.pc = "cleanTrack" /\ FloodEnabled = TRUE
      BY <2>1, <2>5 DEF ControlType
    <3>2. QED
      BY <2>1, <2>2, <2>5, <3>1 DEF LoopPhases, Idle, Past
  <2>6. QED
    BY <2>1, <2>3, <2>4, <2>5
<1>6. Quiet'
  BY DEF Quiet, Past
<1>7. QED
  BY <1>1, <1>2, <1>3, <1>4, <1>5, <1>6

\* SIGTERM closes the listener before anything is stopped.
LEMMA SignalStep ==
  ASSUME IInv, Signal
  PROVE  IInv'
<1> USE Parts, EnabledAssumption DEF Signal, At, Goes
<1>1. Data' /\ DataType'
  BY DataUnchanged DEF DataType
<1> USE DEF Control, ControlType, Loops, Enabled, Bundles, Starting, Leaving
<1>2. ControlType'
  OBVIOUS
<1>3. Loading'
  BY DEF Loading, Ahead
<1>4. Owners'
  BY DEF Owners, Free
<1>5. LoopPhases'
  BY DEF LoopPhases, Idle, Past
<1>6. Quiet'
  BY DEF Quiet, Past
<1>7. QED
  BY <1>1, <1>2, <1>3, <1>4, <1>5, <1>6

\* A failing listener makes the stop one that does not go well.
LEMMA ServeFailsStep ==
  ASSUME IInv, ServeFails
  PROVE  IInv'
<1> USE Parts, EnabledAssumption DEF ServeFails, StopAll, StopFrom, At, Goes
<1>1. Data' /\ DataType'
  BY DataUnchanged DEF DataType
<1> USE DEF Control, ControlType, Loops, Enabled, Bundles, Starting, Leaving
<1>2. ControlType'
  OBVIOUS
<1>3. Loading'
  BY DEF Loading, Ahead
<1>4. Owners'
  BY DEF Owners, Free
<1>5. LoopPhases'
  BY DEF LoopPhases, Idle, Past
<1>6. Quiet'
  BY DEF Quiet, Past
<1>7. QED
  BY <1>1, <1>2, <1>3, <1>4, <1>5, <1>6

\* A stop goes well from here on only if no handler is left.
LEMMA DrainedStep ==
  ASSUME IInv, Drained
  PROVE  IInv'
<1> USE Parts, EnabledAssumption DEF Drained, StopAll, StopFrom, At, Goes
<1>1. Data' /\ DataType'
  BY DataUnchanged DEF DataType
<1> USE DEF Control, ControlType, Loops, Enabled, Bundles, Starting, Leaving
<1>2. ControlType'
  OBVIOUS
<1>3. Loading'
  BY DEF Loading, Ahead
<1>4. Owners'
  BY DEF Owners, Free
<1>5. LoopPhases'
  BY DEF LoopPhases, Idle, Past
<1>6. Quiet'
  <2>1. CASE inflight = 0
    <3>1. \A b \in Enabled : mem[b] # NotLoaded
      BY DEF Loading, Ahead
    <3>2. \A b \in Enabled : ~Past(b)'
      BY <3>1 DEF Past
    <3>3. QED
      BY <2>1, <3>1, <3>2 DEF Quiet
  <2>2. CASE inflight # 0
    <3>1. main'.well = FALSE
      BY <2>2
    <3>2. QED
      BY <3>1 DEF Quiet
  <2>3. QED
    BY <2>1, <2>2
<1>7. QED
  BY <1>1, <1>2, <1>3, <1>4, <1>5, <1>6

\* Closing the cleanup's channel ends no loop yet.
LEMMA StopCleanerStep ==
  ASSUME IInv, StopCleaner
  PROVE  IInv'
<1> USE Parts, EnabledAssumption DEF StopCleaner, At, Goes
<1>1. Data' /\ DataType'
  BY DataUnchanged DEF DataType
<1> USE DEF Control, ControlType, Loops, Enabled, Bundles, Starting, Leaving
<1>2. ControlType'
  OBVIOUS
<1>3. Loading'
  BY DEF Loading, Ahead
<1>4. Owners'
  BY DEF Owners, Free
<1>5. LoopPhases'
  BY DEF LoopPhases, Idle, Past
<1>6. Quiet'
  BY DEF Quiet, Past
<1>7. QED
  BY <1>1, <1>2, <1>3, <1>4, <1>5, <1>6

\* The bundles are stopped after the cleanup loop has ended.
LEMMA WaitCleanerStep ==
  ASSUME IInv, WaitCleaner
  PROVE  IInv'
<1> USE Parts, EnabledAssumption DEF WaitCleaner, StopFrom, At, Goes
<1>1. Data' /\ DataType'
  BY DataUnchanged DEF DataType
<1> USE DEF Control, ControlType, Loops, Enabled, Bundles, Starting, Leaving
<1>2. ControlType'
  OBVIOUS
<1>3. Loading'
  BY DEF Loading, Ahead
<1>4. Owners'
  BY DEF Owners, Free
<1>5. LoopPhases'
  BY DEF LoopPhases, Idle, Past
<1>6. Quiet'
  BY DEF Quiet, Past
<1>7. QED
  BY <1>1, <1>2, <1>3, <1>4, <1>5, <1>6

\* Closing stopCh ends no loop yet.
LEMMA StopStep ==
  ASSUME IInv, Stop
  PROVE  IInv'
<1> USE Parts, EnabledAssumption DEF Stop, At, Goes
<1>1. Data' /\ DataType'
  BY DataUnchanged DEF DataType
<1> USE DEF Control, ControlType, Loops, Enabled, Bundles, Starting, Leaving
<1>2. ControlType'
  OBVIOUS
<1>3. Loading'
  BY DEF Loading, Ahead
<1>4. Owners'
  BY DEF Owners, Free
<1>5. LoopPhases'
  BY DEF LoopPhases, Idle, Past
<1>6. Quiet'
  BY DEF Quiet, Past
<1>7. QED
  BY <1>1, <1>2, <1>3, <1>4, <1>5, <1>6

\* A bundle is flushed after its loop has ended.
LEMMA WaitStep ==
  ASSUME IInv, Wait
  PROVE  IInv'
<1> USE Parts, EnabledAssumption DEF Wait, At, Goes
<1>1. Data' /\ DataType'
  BY DataUnchanged DEF DataType
<1> USE DEF Control, ControlType, Loops, Enabled, Bundles, Starting, Leaving
<1>2. ControlType'
  OBVIOUS
<1>3. Loading'
  BY DEF Loading, Ahead
<1>4. Owners'
  BY DEF Owners, Free
<1>5. LoopPhases'
  BY DEF LoopPhases, Idle, Past
<1>6. Quiet'
  BY DEF Quiet, Past
<1>7. QED
  BY <1>1, <1>2, <1>3, <1>4, <1>5, <1>6

\* Steps of the loops and of requests that touch no bundle.
LEMMA CleanerStep ==
  ASSUME IInv, CleanerTicks \/ CleanerEnds
  PROVE  IInv'
<1> USE Parts, EnabledAssumption DEF CleanerTicks, CleanerEnds, CleanerMoves, At, Goes
<1>1. Data' /\ DataType'
  BY DataUnchanged DEF DataType
<1> USE DEF Control, ControlType, Loops, Enabled, Bundles, Starting, Leaving
<1>2. ControlType'
  OBVIOUS
<1>3. Loading'
  BY DEF Loading, Ahead
<1>4. Owners'
  BY DEF Owners, Free
<1>5. LoopPhases'
  BY DEF LoopPhases, Idle, Past
<1>6. Quiet'
  BY DEF Quiet, Past
<1>7. QED
  BY <1>1, <1>2, <1>3, <1>4, <1>5, <1>6

\* A loop ends outside of a save.
LEMMA SaverEndsStep ==
  ASSUME IInv, NEW c \in Bundles, SaverEnds(c)
  PROVE  IInv'
<1> USE Parts, EnabledAssumption DEF SaverEnds, At, Goes
<1>1. Data' /\ DataType'
  BY DataUnchanged DEF DataType
<1> USE DEF Control, ControlType, Loops, Enabled, Bundles, Starting, Leaving
<1>2. ControlType'
  OBVIOUS
<1>3. Loading'
  BY DEF Loading, Ahead
<1>4. Owners'
  BY DEF Owners, Free
<1>5. LoopPhases'
  BY DEF LoopPhases, Idle, Past
<1>6. Quiet'
  BY DEF Quiet, Past
<1>7. QED
  BY <1>1, <1>2, <1>3, <1>4, <1>5, <1>6

\* Requests come and go while main is serving or draining.
LEMMA RequestStep ==
  ASSUME IInv, RequestBegins \/ RequestEnds
  PROVE  IInv'
<1> USE Parts, EnabledAssumption DEF RequestBegins, RequestEnds, At, Goes
<1>1. Data' /\ DataType'
  BY DataUnchanged DEF DataType
<1> USE DEF Control, ControlType, Loops, Enabled, Bundles, Starting, Leaving
<1>2. ControlType'
  OBVIOUS
<1>3. Loading'
  BY DEF Loading, Ahead
<1>4. Owners'
  BY DEF Owners, Free
<1>5. LoopPhases'
  BY DEF LoopPhases, Idle, Past
<1>6. Quiet'
  BY DEF Quiet, Past
<1>7. QED
  BY <1>1, <1>2, <1>3, <1>4, <1>5, <1>6

\* Steps that change a bundle.
LEMMA RequestChangesStep ==
  ASSUME IInv, NEW c \in Bundles, RequestChanges(c)
  PROVE  IInv'
<1> USE Parts, EnabledAssumption DEF RequestChanges, At, Goes
<1>1. /\ Data' /\ DataType'
      /\ \A b \in Bundles : mem'[b] = NotLoaded <=> mem[b] = NotLoaded
      /\ \A b \in Bundles : b # c => dirty'[b] = dirty[b]
      /\ UNCHANGED saving
  <2>1. ChangeOrNot(c) /\ UNCHANGED <<file, temps, saving, failures, crashes>>
    BY DEF ChangeOrNot
  <2>2. c \in Bundles
    BY DEF Bundles
  <2>3. QED
    BY <2>1, <2>2, ChangeData DEF DataType
<1> USE DEF Control, ControlType, Loops, Enabled, Bundles, Starting, Leaving
<1>2. ControlType'
  OBVIOUS
<1>3. Loading'
  BY <1>1 DEF Loading, Ahead
<1>4. Owners'
  BY <1>1 DEF Owners
<1>5. LoopPhases'
  BY DEF LoopPhases, Idle, Past
<1>6. Quiet'
  BY <1>1 DEF Quiet, Past, LoopPhases
<1>7. QED
  BY <1>1, <1>2, <1>3, <1>4, <1>5, <1>6

\* While the cleanup works main has come to no flush.
LEMMA CleanTrackStep ==
  ASSUME IInv, CleanTrack
  PROVE  IInv'
<1> USE Parts, EnabledAssumption DEF CleanTrack, CleanerMoves, At, Goes
<1>1. /\ Data' /\ DataType'
      /\ \A b \in Bundles : mem'[b] = NotLoaded <=> mem[b] = NotLoaded
      /\ \A b \in Bundles : b # "track" => dirty'[b] = dirty[b]
      /\ UNCHANGED saving
  <2>1. ChangeOrNot("track") /\ UNCHANGED <<file, temps, saving, failures, crashes>>
    BY DEF ChangeOrNot
  <2>2. "track" \in Bundles
    BY DEF Bundles
  <2>3. QED
    BY <2>1, <2>2, ChangeData DEF DataType
<1> USE DEF Control, ControlType, Loops, Enabled, Bundles, Starting, Leaving
<1>2. ControlType'
  OBVIOUS
<1>3. Loading'
  BY <1>1 DEF Loading, Ahead
<1>4. Owners'
  BY <1>1 DEF Owners
<1>5. LoopPhases'
  BY DEF LoopPhases, Idle, Past
<1>6. Quiet'
  BY <1>1 DEF Quiet, Past, LoopPhases
<1>7. QED
  BY <1>1, <1>2, <1>3, <1>4, <1>5, <1>6

\* Likewise for the bans.
LEMMA CleanBansStep ==
  ASSUME IInv, CleanBans
  PROVE  IInv'
<1> USE Parts, EnabledAssumption DEF CleanBans, CleanerMoves, At, Goes
<1>1. /\ Data' /\ DataType'
      /\ \A b \in Bundles : mem'[b] = NotLoaded <=> mem[b] = NotLoaded
      /\ \A b \in Bundles : b # "bans" => dirty'[b] = dirty[b]
      /\ UNCHANGED saving
  <2>1. ChangeOrNot("bans") /\ UNCHANGED <<file, temps, saving, failures, crashes>>
    BY DEF ChangeOrNot
  <2>2. "bans" \in Bundles
    BY DEF Bundles
  <2>3. QED
    BY <2>1, <2>2, ChangeData DEF DataType
<1> USE DEF Control, ControlType, Loops, Enabled, Bundles, Starting, Leaving
<1>2. ControlType'
  OBVIOUS
<1>3. Loading'
  BY <1>1 DEF Loading, Ahead
<1>4. Owners'
  BY <1>1 DEF Owners
<1>5. LoopPhases'
  BY DEF LoopPhases, Idle, Past
<1>6. Quiet'
  BY <1>1 DEF Quiet, Past, LoopPhases
<1>7. QED
  BY <1>1, <1>2, <1>3, <1>4, <1>5, <1>6

\* The cleaning before the loop is started, log first.
LEMMA FirstCleanTrackStep ==
  ASSUME IInv, FirstCleanTrack
  PROVE  IInv'
<1> USE Parts, EnabledAssumption DEF FirstCleanTrack, At, Goes
<1>1. /\ Data' /\ DataType'
      /\ \A b \in Bundles : mem'[b] = NotLoaded <=> mem[b] = NotLoaded
      /\ \A b \in Bundles : b # "track" => dirty'[b] = dirty[b]
      /\ UNCHANGED saving
  <2>1. ChangeOrNot("track") /\ UNCHANGED <<file, temps, saving, failures, crashes>>
    BY DEF ChangeOrNot
  <2>2. "track" \in Bundles
    BY DEF Bundles
  <2>3. QED
    BY <2>1, <2>2, ChangeData DEF DataType
<1> USE DEF Control, ControlType, Loops, Enabled, Bundles, Starting, Leaving
<1>2. ControlType'
  OBVIOUS
<1>3. Loading'
  BY <1>1 DEF Loading, Ahead
<1>4. Owners'
  BY <1>1 DEF Owners
<1>5. LoopPhases'
  BY DEF LoopPhases, Idle, Past
<1>6. Quiet'
  BY <1>1 DEF Quiet, Past, LoopPhases
<1>7. QED
  BY <1>1, <1>2, <1>3, <1>4, <1>5, <1>6

\* Then the bans; the loop is started and main serves.
LEMMA FirstCleanBansStep ==
  ASSUME IInv, FirstCleanBans
  PROVE  IInv'
<1> USE Parts, EnabledAssumption DEF FirstCleanBans, Serving, At, Goes
<1>1. /\ Data' /\ DataType'
      /\ \A b \in Bundles : mem'[b] = NotLoaded <=> mem[b] = NotLoaded
      /\ \A b \in Bundles : b # "bans" => dirty'[b] = dirty[b]
      /\ UNCHANGED saving
  <2>1. ChangeOrNot("bans") /\ UNCHANGED <<file, temps, saving, failures, crashes>>
    BY DEF ChangeOrNot
  <2>2. "bans" \in Bundles
    BY DEF Bundles
  <2>3. QED
    BY <2>1, <2>2, ChangeData DEF DataType
<1> USE DEF Control, ControlType, Loops, Enabled, Bundles, Starting, Leaving
<1>2. ControlType'
  OBVIOUS
<1>3. Loading'
  BY <1>1 DEF Loading, Ahead
<1>4. Owners'
  BY <1>1 DEF Owners
<1>5. LoopPhases'
  BY DEF LoopPhases, Idle, Past
<1>6. Quiet'
  BY <1>1 DEF Quiet, Past, LoopPhases
<1>7. QED
  BY <1>1, <1>2, <1>3, <1>4, <1>5, <1>6

\* Steps that begin a save.
LEMMA SaverTicksStep ==
  ASSUME IInv, NEW c \in Bundles, SaverTicks(c)
  PROVE  IInv'
<1> USE Parts, EnabledAssumption DEF SaverTicks, At, Goes
<1>1. /\ Data' /\ DataType'
      /\ \A b \in Bundles : mem'[b] = NotLoaded <=> mem[b] = NotLoaded
      /\ \A b \in Bundles : b # c => dirty'[b] = dirty[b] /\ saving'[b] = saving[b]
      /\ saving'[c].by = "loop"
  BY SaveBeginsData DEF DataType
<1> USE DEF Control, ControlType, Loops, Enabled, Bundles, Starting, Leaving
<1>2. ControlType'
  OBVIOUS
<1>3. Loading'
  BY <1>1 DEF Loading, Ahead
<1>4. Owners'
  BY <1>1 DEF Owners, Free
<1>5. LoopPhases'
  BY <1>1 DEF LoopPhases, Idle, Past
<1>6. Quiet'
  BY <1>1 DEF Quiet, Past, LoopPhases
<1>7. QED
  BY <1>1, <1>2, <1>3, <1>4, <1>5, <1>6


\* What main does when it saves, at its first save or at a flush.
LEMMA MainSaves ==
  ASSUME IInv, NEW c \in Bundles, c = main.bundle, main.pc \in {"firstSave", "flush"},
         SaveBegins(c, "main"),
         UNCHANGED <<main, inflight, accepting, file, saver, cleaner, failures, crashes>>
  PROVE  IInv'
<1> USE Parts, EnabledAssumption DEF At
<1>1. /\ Data' /\ DataType'
      /\ \A b \in Bundles : mem'[b] = NotLoaded <=> mem[b] = NotLoaded
      /\ \A b \in Bundles : b # c => dirty'[b] = dirty[b] /\ saving'[b] = saving[b]
      /\ saving'[c].by = "main"
  BY SaveBeginsData DEF DataType
<1> USE DEF Control, ControlType, Loops, Enabled, Bundles, Starting, Leaving
<1>2. ControlType'
  OBVIOUS
<1>3. Loading'
  BY <1>1 DEF Loading, Ahead
<1>4. Owners'
  BY <1>1 DEF Owners, Free
<1>5. LoopPhases'
  BY <1>1 DEF LoopPhases, Idle, Past
<1>6. Quiet'
  BY <1>1 DEF Quiet, Past, LoopPhases
<1>7. QED
  BY <1>1, <1>2, <1>3, <1>4, <1>5, <1>6

\* The first save of the whitelist, or none if it is clean.
LEMMA FirstSaveStep ==
  ASSUME IInv, FirstSave
  PROVE  IInv'
<1> USE Parts, EnabledAssumption DEF At, Goes
<1>1. CASE SaveBegins("whitelist", "main") /\ UNCHANGED main
  BY <1>1, MainSaves DEF FirstSave, Control, Loading, Bundles
<1>2. ASSUME Free("whitelist"), main' = [main EXCEPT !.pc = "startSaver"],
             At("firstSave"), UNCHANGED <<mem, dirty, temps, saving, last>>,
             UNCHANGED <<inflight, accepting, file, saver, cleaner, failures, crashes>>
      PROVE  IInv'
  <2> USE <1>2
  <2>1. Data' /\ DataType'
    BY DataUnchanged DEF DataType
  <2> USE DEF Control, ControlType, Loops, Enabled, Bundles, Starting, Leaving
  <2>2. ControlType'
    OBVIOUS
  <2>3. Loading'
    <3>1. main.bundle = "whitelist" /\ main'.pc = "startSaver" /\ main'.bundle = "whitelist"
      BY DEF Loading
    <3>2. \A b \in Bundles : Ahead(b)' <=> Ahead(b)
      BY <3>1 DEF Ahead
    <3>3. QED
      BY <3>1, <3>2 DEF Loading
  <2>4. Owners'
    <3>1. \A b \in Bundles : saving[b].by # "main"
      BY DEF Loading, Owners, Free
    <3>2. QED
      BY <3>1 DEF Owners
  <2>5. LoopPhases'
    BY DEF LoopPhases, Idle, Past
  <2>6. Quiet'
    BY DEF Quiet, Past
  <2>7. QED
    BY <2>1, <2>2, <2>3, <2>4, <2>5, <2>6
<1>3. QED
  BY <1>1, <1>2 DEF FirstSave

\* The flush of a bundle, or none if it is clean: then main is through with it.
LEMMA FlushStep ==
  ASSUME IInv, Flush
  PROVE  IInv'
<1> USE Parts, EnabledAssumption DEF At, Goes
<1>1. CASE SaveBegins(main.bundle, "main") /\ UNCHANGED main
  BY <1>1, MainSaves DEF Flush, ControlType
<1>2. ASSUME Free(main.bundle), dirty[main.bundle] = FALSE,
             main' = AfterStop(main.bundle, main.well), At("flush"),
             UNCHANGED <<mem, dirty, temps, saving, last>>,
             UNCHANGED <<inflight, accepting, file, saver, cleaner, failures, crashes>>
      PROVE  IInv'
  <2> USE <1>2
  <2>1. Data' /\ DataType'
    BY DataUnchanged DEF DataType
  <2> USE DEF Control, ControlType, Loops, Enabled, Bundles, Starting, Leaving
  <2>2. ControlType'
    BY DEF AfterStop, StopFrom
  <2>3. Loading'
    BY DEF Loading, Ahead, AfterStop, StopFrom
  <2>4. Owners'
    BY DEF Owners, Free, AfterStop, StopFrom
  <2>5. LoopPhases'
    BY DEF LoopPhases, Idle, Past, AfterStop, StopFrom
  <2>6. Quiet'
    BY DEF Quiet, Past, AfterStop, StopFrom
  <2>7. QED
    BY <2>1, <2>2, <2>3, <2>4, <2>5, <2>6
<1>3. dirty[main.bundle] \in BOOLEAN
  BY DEF ControlType, DataType
<1>4. QED
  BY <1>1, <1>2, <1>3 DEF Flush

\* The steps of a save.
LEMMA WriteTempStep ==
  ASSUME IInv, NEW c \in Bundles, WriteTemp(c)
  PROVE  IInv'
<1> USE Parts, EnabledAssumption DEF At
<1>1. /\ Data' /\ DataType' /\ \A b \in Bundles : saving'[b].by = saving[b].by
      /\ UNCHANGED <<main, inflight, accepting, mem, dirty, saver, cleaner>>
  BY WriteTempData DEF WriteTemp
<1>2. ControlType' /\ Loading' /\ LoopPhases' /\ Quiet'
  BY <1>1 DEF Control, ControlType, Loading, LoopPhases, Quiet, Starting, Leaving, Ahead,
              Idle, Past
<1>3. Owners'
  BY <1>1 DEF Control, Owners
<1>4. QED
  BY <1>1, <1>2, <1>3 DEF Control

\* Nobody but its own goroutine goes on after a save.
LEMMA ProceedControl ==
  ASSUME IInv, NEW c \in Bundles, NEW ok \in BOOLEAN, ~Free(c), Proceed(c, ok),
         saving' = [saving EXCEPT ![c] = Unlocked],
         UNCHANGED <<inflight, accepting, mem, saver, cleaner>>,
         DataType', ok = TRUE => dirty'[c] = FALSE,
         \A b \in Bundles : b # c => dirty'[b] = dirty[b],
         dirty'[c] \in {dirty[c], FALSE}
  PROVE  ControlType' /\ Control'
<1> USE Parts, EnabledAssumption DEF At
<1>1. /\ saving'[c].by = "nobody"
      /\ \A b \in Bundles : b # c => saving'[b] = saving[b]
  BY DEF Unlocked, DataType
<1>2. CASE saving[c].by # "main"
  <2>1. main' = main
    BY <1>2 DEF Proceed
  <2>2. ControlType' /\ Loading' /\ LoopPhases'
    BY <2>1 DEF Control, ControlType, Loading, LoopPhases, Starting, Leaving, Ahead, Idle,
                Past
  <2>3. Owners'
    BY <2>1, <1>1 DEF Control, Owners
  <2>4. Quiet'
    <3>1. \A b \in Bundles : dirty[b] = FALSE => dirty'[b] = FALSE
      OBVIOUS
    <3>2. QED
      BY <2>1, <3>1 DEF Control, Quiet, Leaving, Past, Enabled
  <2>5. QED
    BY <2>2, <2>3, <2>4 DEF Control
<1>3. CASE saving[c].by = "main" /\ At("firstSave")
  <2>1. c = main.bundle /\ c = "whitelist"
    BY <1>3 DEF Control, Owners, Loading
  <2>2. /\ main'.bundle = "whitelist"
        /\ \/ main'.pc = "startSaver"
           \/ main'.pc = "exited" /\ main'.well = FALSE
        /\ main' \in [pc: {"startSaver", "exited"}, bundle: Bundles, well: BOOLEAN]
    BY <1>3, <2>1 DEF Proceed, ControlType
  <2>3. ControlType' /\ Loading'
    BY <1>3, <2>1, <2>2 DEF Control, ControlType, Loading, Leaving, Ahead
  <2>4. Owners'
    BY <1>1, <1>3, <2>1 DEF Control, Owners, Bundles
  <2>5. LoopPhases'
    BY <1>3, <2>1, <2>2 DEF Control, LoopPhases, Starting, Idle, Past
  <2>6. Quiet'
    BY <2>2 DEF Quiet, Leaving
  <2>7. QED
    BY <2>3, <2>4, <2>5, <2>6 DEF Control
<1>4. CASE saving[c].by = "main" /\ At("flush")
  <2> DEFINE w == main.well /\ ok
  <2>1. c = main.bundle /\ main' = AfterStop(c, w)
    BY <1>4 DEF Control, Owners, Proceed
  <2>2. /\ main' \in [pc: {"stop", "exited"}, bundle: Bundles, well: {w}]
        /\ w \in BOOLEAN /\ (w = TRUE => ok = TRUE /\ main.well = TRUE)
    <3>1. w \in BOOLEAN /\ (w = TRUE => ok = TRUE /\ main.well = TRUE)
      BY DEF ControlType
    <3> HIDE DEF w
    <3>2. QED
      BY <2>1, <3>1, StopType
  <2>3. /\ main'.pc \in {"stop", "exited"}
        /\ main'.pc = "exited" =>
             \/ c = "whitelist"
             \/ WhitelistEnabled = FALSE /\ (c = "track" \/ FloodEnabled = FALSE)
        /\ main'.pc = "stop" =>
             \/ c = "bans" /\ main'.bundle = "track"
             \/ c = "bans" /\ main'.bundle = "whitelist" /\ FloodEnabled = FALSE
             \/ c = "track" /\ main'.bundle = "whitelist"
    BY <2>1 DEF AfterStop, StopFrom, Bundles, Enabled
  <2> HIDE DEF w
  <2>4. ControlType' /\ Loading'
    BY <2>2 DEF Control, ControlType, Loading, Leaving, Ahead
  <2>5. Owners'
    BY <1>1, <1>4, <2>1 DEF Control, Owners, Bundles
  <2>5a. \A b \in Bundles : Past(b)' => Past(b) \/ b = c \/ b \notin Enabled
    BY <1>4, <2>1, <2>3 DEF Past, Bundles, Enabled
  <2>6. LoopPhases'
    BY <1>4, <2>1, <2>3, <2>5a DEF Control, LoopPhases, Starting, Idle
  <2>7. Quiet'
    <3>1. ASSUME w = TRUE
          PROVE  /\ inflight = 0 /\ accepting = FALSE
                 /\ \A b \in Enabled : mem[b] # NotLoaded
                 /\ \A b \in Enabled : Past(b)' => dirty'[b] = FALSE
      <4>1. main.well = TRUE /\ dirty'[c] = FALSE
        BY <2>2, <3>1
      <4>2. Leaving /\ Enabled \subseteq Bundles
        BY <1>4 DEF Leaving, Enabled
      <4>3. QED
        BY <2>5a, <4>1, <4>2 DEF Control, Quiet
    <3>2. main'.well = w /\ ~At("drain")'
      BY <2>2
    <3>3. QED
      BY <3>1, <3>2 DEF Quiet
  <2>8. QED
    BY <2>4, <2>5, <2>6, <2>7 DEF Control
<1>5. saving[c].by \notin {"main"} \/ main.pc \in {"firstSave", "flush"}
  BY DEF Control, Owners
<1>6. QED
  BY <1>2, <1>3, <1>4, <1>5

\* A save that succeeds: its bundle is clean, and main goes on if the save was its own.
LEMMA RenameStep ==
  ASSUME IInv, NEW c \in Bundles, Rename(c)
  PROVE  IInv'
<1> USE Parts
<1>1. /\ Data' /\ DataType' /\ dirty'[c] = FALSE
      /\ \A b \in Bundles : b # c => dirty'[b] = dirty[b]
  BY RenameData
<1>2. ControlType' /\ Control'
  BY <1>1, ProceedControl DEF Rename
<1>3. QED
  BY <1>1, <1>2

\* A save that fails: a flush that does makes the stop one that does not go well.
LEMMA SaveFailsStep ==
  ASSUME IInv, NEW c \in Bundles, SaveFails(c)
  PROVE  IInv'
<1> USE Parts
<1>1. Data' /\ DataType' /\ UNCHANGED dirty
  BY SaveFailsData, BoundsAssumption
<1>2. ControlType' /\ Control'
  BY <1>1, ProceedControl DEF SaveFails
<1>3. QED
  BY <1>1, <1>2

\* The beginning and the end of what is in memory.
LEMMA OpenStep ==
  ASSUME IInv, Open
  PROVE  IInv'
<1> USE Parts, EnabledAssumption DEF At, Goes
<1>0. main.bundle \in Bundles /\ mem[main.bundle] = NotLoaded
  BY DEF Open, ControlType, Control, Loading, Ahead
<1>1. /\ Data' /\ DataType' /\ mem' = [mem EXCEPT ![main.bundle] = file[main.bundle]]
      /\ UNCHANGED <<dirty, saving, saver, cleaner>> /\ mem'[main.bundle] # NotLoaded
  BY <1>0, OpenData DEF Open
<1>2. /\ \A b \in Bundles : b # main.bundle => mem'[b] = mem[b]
      /\ ~Leaving /\ At("open") /\ main.bundle \in Enabled
  BY <1>1 DEF Open, DataType, Leaving, Control, Loading
<1>3. /\ main' \in [pc: {"firstSave", "open", "startSaver"}, bundle: Bundles, well: BOOLEAN]
      /\ \/ main.bundle = "whitelist" /\ main'.pc = "firstSave" /\ main'.bundle = "whitelist"
         \/ main.bundle = "track" /\ main'.pc = "open" /\ main'.bundle = "bans"
         \/ main.bundle = "bans" /\ main'.pc = "startSaver" /\ main'.bundle = "track"
  BY <1>0 DEF Open, ControlType, Bundles
<1>4. ControlType'
  BY <1>1, <1>3 DEF Open, ControlType
<1>5. Loading'
  BY <1>1, <1>2, <1>3 DEF Control, Loading, Leaving, Ahead, Enabled, Bundles
<1>6. Owners'
  BY <1>1, <1>2 DEF Control, Owners
<1>7. LoopPhases'
  BY <1>1, <1>2, <1>3 DEF Control, LoopPhases, Starting, Idle, Past
<1>8. Quiet'
  BY <1>3 DEF Quiet, Leaving
<1>9. QED
  BY <1>1, <1>4, <1>5, <1>6, <1>7, <1>8 DEF Control

\* After the end of the process everything is as before the first start but the files.
LEMMA GoneStep ==
  ASSUME IInv, Exit \/ Crash
  PROVE  IInv'
<1> USE Parts, BoundsAssumption DEF At
<1>1. Gone
  BY DEF Exit, Crash
<1>2. Exit => \A b \in Bundles : Free(b)
  BY DEF Exit, DataType, Control, Owners, LoopPhases, Past, Free
<1>3. Data' /\ DataType'
  BY <1>1, <1>2, GoneData DEF Exit, Crash
<1>4. ControlType'
  BY <1>1 DEF Gone, ControlType, Off, NoLoop, Loops, Bundles
<1>5. Control'
  BY <1>1 DEF Gone, Off, NoLoop, Unlocked, NotLoaded, Control, Loading, Owners, LoopPhases, Quiet,
              Starting, Leaving, Ahead, Idle, Past
<1>6. QED
  BY <1>3, <1>4, <1>5

-----------------------------------------------------------------------------
(* The theorems *)

\* Every step of every goroutine keeps the invariant.
LEMMA NextIInv == IInv /\ [Next]_vars => IInv'
<1> SUFFICES ASSUME IInv, [Next]_vars PROVE IInv'
  OBVIOUS
<1>1. CASE Run
  BY <1>1, OpenStep, OpenFailsStep, FirstSaveStep, StartSaverStep, FirstCleanTrackStep,
     FirstCleanBansStep, DrainedStep, StopCleanerStep, WaitCleanerStep, StopStep, WaitStep,
     FlushStep, GoneStep DEF Run
<1>2. CASE Begin \/ Signal \/ ServeFails \/ Crash
  BY <1>2, BeginStep, SignalStep, ServeFailsStep, GoneStep
<1>3. ASSUME NEW b \in Bundles,
             SaveStep(b) \/ SaverTicks(b) \/ SaverEnds(b) \/ RequestChanges(b)
      PROVE  IInv'
  BY <1>3, WriteTempStep, RenameStep, SaveFailsStep, SaverTicksStep, SaverEndsStep,
     RequestChangesStep DEF SaveStep
<1>4. CASE Clean \/ CleanerEnds
  BY <1>4, CleanerStep, CleanTrackStep, CleanBansStep DEF Clean
<1>5. CASE RequestBegins \/ RequestEnds
  BY <1>5, RequestStep
<1>6. CASE UNCHANGED vars
  <2>1. Data' /\ DataType'
    BY <1>6, Parts, DataUnchanged DEF vars, DataType
  <2>2. ControlType' /\ Control'
    BY <1>6, Parts DEF vars, ControlType, Control, Loading, Owners, LoopPhases, Quiet, At,
       Starting, Leaving, Ahead, Idle, Past
  <2>3. QED
    BY <2>1, <2>2, Parts
<1>7. QED
  BY <1>1, <1>2, <1>3, <1>4, <1>5, <1>6 DEF Next

\* The invariant holds in every state of every run.
THEOREM Invariant == Spec => []IInv
BY InitIInv, NextIInv, PTL DEF Spec

\* Every variable keeps its type; a count of temporary files is never negative.
THEOREM TypeCorrect == Spec => []TypeOK
<1>1. IInv => TypeOK
  BY DEF IInv
<1>2. QED
  BY <1>1, Invariant, PTL

\* A bundle that is not dirty is on disk as it is in memory, at every moment and
\* whatever fails: IsDirty may be relied on.
THEOREM CleanIsSaved == Spec => []CleanMeansSaved
<1>1. IInv => CleanMeansSaved
  BY DEF IInv, TypeOK, Saved, CleanMeansSaved
<1>2. QED
  BY <1>1, Invariant, PTL

\* However many requests, saves and failures there are, a shutdown in which handlers
\* and flushes went well leaves every change on disk.
THEOREM ShutdownKeepsAll == Spec => []NothingLostAtExit
<1>1. IInv => NothingLostAtExit
  <2> SUFFICES ASSUME IInv, At("exited"), main.well = TRUE, NEW b \in Enabled
               PROVE  file[b] = mem[b]
    BY DEF NothingLostAtExit, IInv, TypeOK
  <2>1. Leaving /\ Past(b) /\ b \in Bundles
    BY DEF At, Leaving, Past, Enabled
  <2>2. mem[b] # NotLoaded /\ dirty[b] = FALSE
    BY <2>1 DEF IInv, Quiet
  <2>3. QED
    BY <2>1, <2>2 DEF IInv, Saved
<1>2. QED
  BY <1>1, Invariant, PTL

\* Run leaves no goroutine of its own behind, on any of its ways out.
THEOREM NoLoopLeft == Spec => []LoopsEndBeforeExit
<1>1. IInv => LoopsEndBeforeExit
  BY DEF IInv, TypeOK, LoopPhases, Owners, Past, At, Free, LoopsEndBeforeExit
<1>2. QED
  BY <1>1, Invariant, PTL

\* For any number of requests, saves and faults: what is left beside the files is
\* accounted for by the crashes and by the saves whose removal failed as well.
THEOREM LitterOnlyFromFaults == Spec => []LitterIsFromFaults
<1>1. IInv => LitterIsFromFaults
  BY DEF IInv, TypeOK, Litter, Free, LitterIsFromFaults
<1>2. QED
  BY <1>1, Invariant, PTL

\* main is through with a bundle after a flush of it, or after a failure.
LEMMA FlushedWhenPast ==
  ASSUME IInv, [Next]_vars, NEW b \in Enabled, ~Past(b), Past(b)', mem[b] # NotLoaded
  PROVE  file'[b] = mem'[b] \/ failures' > failures
<1> USE Parts, EnabledAssumption
<1>0. b \in Bundles /\ failures \in Nat /\ main.pc # "exited" /\ main' # main
  BY DEF Enabled, DataType, Past, At
<1>1. ASSUME NEW c \in Bundles, SaveStep(c)
      PROVE  file'[b] = mem'[b] \/ failures' > failures
  <2>1. CASE WriteTemp(c)
    BY <1>0, <2>1 DEF WriteTemp
  <2>2. CASE SaveFails(c)
    BY <1>0, <2>2 DEF SaveFails
  <2>3. CASE Rename(c)
    <3>1. saving[c].by = "main" /\ main.bundle = c /\ main.pc \in {"firstSave", "flush"}
      BY <1>0, <2>3 DEF Rename, Proceed, Control, Owners
    <3>2. file'[c] = mem'[c]
      BY <2>3, RenameData DEF Rename
    <3>3. CASE At("flush")
      <4>1. b = c
        BY <1>0, <2>3, <3>1, <3>3 DEF Rename, Proceed, AfterStop, StopFrom, Past, At, Enabled,
                                      Bundles, ControlType
      <4>2. QED
        BY <3>2, <4>1
    <3>4. CASE At("firstSave")
      BY <2>3, <3>1, <3>4 DEF Rename, Proceed, Past, At, ControlType
    <3>5. QED
      BY <3>1, <3>3, <3>4 DEF At
  <2>4. QED
    BY <1>1, <2>1, <2>2, <2>3 DEF SaveStep
<1>2. CASE Flush
  <2>1. /\ At("flush") /\ Free(main.bundle) /\ dirty[main.bundle] = FALSE
        /\ main' = AfterStop(main.bundle, main.well) /\ UNCHANGED <<mem, file>>
    BY <1>0, <1>2 DEF Flush, Goes, DataType, ControlType
  <2>2. b = main.bundle
    BY <1>0, <2>1 DEF AfterStop, StopFrom, Past, At, Enabled, Bundles, ControlType
  <2>3. QED
    BY <1>0, <2>1, <2>2 DEF Data, Saved
<1>3. CASE OpenFails
  BY <1>0, <1>3 DEF OpenFails
<1>4. CASE Open \/ FirstSave \/ StartSaver \/ FirstCleanTrack \/ FirstCleanBans \/ Begin
  <2>1. main'.pc \notin {"stop", "wait", "flush", "exited"}
    <3>1. CASE Open
      BY <3>1 DEF Open, Goes, At, ControlType, Bundles
    <3>2. CASE FirstSave \/ FirstCleanTrack \/ FirstCleanBans
      BY <3>2 DEF FirstSave, FirstCleanTrack, FirstCleanBans, Goes, Serving, At, ControlType
    <3>3. CASE StartSaver
      BY <3>3 DEF StartSaver, Goes, ToFlood, Serving, At, ControlType, Bundles
    <3>4. CASE Begin
      BY <3>4 DEF Begin, Goes, ToFlood, Serving
    <3>5. QED
      BY <1>4, <3>1, <3>2, <3>3, <3>4
  <2>2. QED
    BY <2>1 DEF Past, At
<1>5. CASE Drained \/ WaitCleaner \/ ServeFails
  BY <1>0, <1>5 DEF Drained, WaitCleaner, ServeFails, Goes, StopAll, StopFrom, Past, At,
                    Enabled, Bundles
<1>6. CASE StopCleaner \/ Stop \/ Wait \/ Signal
  BY <1>0, <1>6 DEF StopCleaner, Stop, Wait, Signal, Goes, Past, At, ControlType
<1>7. CASE Exit \/ Crash
  BY <1>7 DEF Exit, Crash, Gone, Off, Past, At
<1>8. CASE UNCHANGED main
  BY <1>0, <1>8
<1>9. QED
  BY <1>1, <1>2, <1>3, <1>4, <1>5, <1>6, <1>7, <1>8
     DEF Next, Run, SaverTicks, SaverEnds, RequestChanges, Clean, CleanerTicks, CleanTrack,
         CleanBans, CleanerEnds, CleanerMoves, RequestBegins, RequestEnds, vars

\* On every way out of Run, a shutdown that timed out included, a bundle is on disk as
\* memory has it at the moment main is through with it, unless the disk fails there.
THEOREM LateChangesOnly == Spec => OnlyLateChangesLost
<1>1. IInv /\ [Next]_vars =>
        [\A b \in Enabled : ~Past(b) /\ Past(b)' /\ mem[b] # NotLoaded =>
           file'[b] = mem'[b] \/ failures' > failures]_vars
  BY FlushedWhenPast
<1>2. QED
  BY <1>1, Invariant, PTL DEF Spec, OnlyLateChangesLost

-----------------------------------------------------------------------------
(* Each bundle implements the durable store *)

\* The steps of Durable, for a bundle and its file.
StoreChange(b)  == Memory(b)' \in Nat /\ dirty'[b] = TRUE /\ file'[b] = file[b]
StorePersist(b) == file'[b] = Memory(b) /\ dirty'[b] = FALSE /\ Memory(b)' = Memory(b)
StoreRestart(b) == Memory(b)' = file[b] /\ dirty'[b] = FALSE /\ file'[b] = file[b]
StoreStutter(b) == Memory(b)' = Memory(b) /\ dirty'[b] = dirty[b] /\ file'[b] = file[b]

StoreStep(b) == StoreChange(b) \/ StorePersist(b) \/ StoreRestart(b) \/ StoreStutter(b)

\* An operation is a change of its own bundle, and no step of the others.
LEMMA ChangeStores ==
  ASSUME DataType, NEW c \in Bundles, ChangeOrNot(c), UNCHANGED file, NEW b \in Bundles
  PROVE  StoreStep(b)
<1>1. CASE Free(c) /\ UNCHANGED <<mem, dirty, last>>
  BY <1>1 DEF StoreStep, StoreStutter, Memory
<1>2. CASE Change(c)
  <2>1. /\ mem'[c] \in Nat /\ mem'[c] # NotLoaded /\ dirty'[c] = TRUE
        /\ b # c => mem'[b] = mem[b] /\ dirty'[b] = dirty[b]
    <3> USE <1>2 DEF Change, DataType, Empty, NotLoaded
    <3>1. last' \in Nat /\ last' # 0
      OBVIOUS
    <3>2. mem'[c] = last' /\ dirty'[c] = TRUE
      OBVIOUS
    <3>3. b # c => mem'[b] = mem[b] /\ dirty'[b] = dirty[b]
      OBVIOUS
    <3>4. QED
      BY <3>1, <3>2, <3>3
  <2>2. QED
    BY <2>1 DEF StoreStep, StoreChange, StoreStutter, Memory
<1>3. QED
  BY <1>1, <1>2 DEF ChangeOrNot

\* Encoding changes no store; the pruning before it may be a change.
LEMMA SaveBeginsStores ==
  ASSUME DataType, NEW c \in Bundles, NEW who, SaveBegins(c, who), UNCHANGED file,
         NEW b \in Bundles
  PROVE  StoreStep(b)
<1>1. CASE UNCHANGED <<mem, dirty, last>>
  BY <1>1 DEF StoreStep, StoreStutter, Memory
<1>2. CASE Change(c)
  BY <1>2, ChangeStores DEF ChangeOrNot
<1>3. QED
  BY <1>1, <1>2 DEF SaveBegins

\* Every step of the process is a step of each store or leaves it alone.
LEMMA NextStores ==
  ASSUME IInv, [Next]_vars, NEW b \in Bundles
  PROVE  StoreStep(b)
<1> USE Parts
<1>1. CASE UNCHANGED <<mem, dirty, file>>
  BY <1>1 DEF StoreStep, StoreStutter, Memory
<1>2. ASSUME NEW c \in Bundles, ChangeOrNot(c), UNCHANGED file
      PROVE  StoreStep(b)
  BY <1>2, ChangeStores
<1>3. ASSUME NEW c \in Bundles, NEW who, SaveBegins(c, who), UNCHANGED file
      PROVE  StoreStep(b)
  BY <1>3, SaveBeginsStores
<1>4. ASSUME NEW c \in Bundles, Rename(c)
      PROVE  StoreStep(b)
  <2>1. /\ file'[c] = mem[c] /\ mem[c] # NotLoaded /\ dirty'[c] = FALSE /\ mem' = mem
        /\ b # c => file'[b] = file[b] /\ dirty'[b] = dirty[b]
    BY <1>4, RenameData DEF Rename
  <2>2. QED
    BY <2>1 DEF StoreStep, StorePersist, StoreStutter, Memory
<1>5. CASE Open
  <2>1. main.bundle \in Bundles /\ mem[main.bundle] = NotLoaded
    BY <1>5 DEF Open, At, ControlType, Control, Loading, Ahead
  <2>2. /\ mem'[main.bundle] = file[main.bundle] /\ UNCHANGED <<dirty, file>>
        /\ b # main.bundle => mem'[b] = mem[b]
    BY <1>5, <2>1, OpenData DEF Open, DataType
  <2>3. QED
    BY <2>1, <2>2 DEF StoreStep, StoreStutter, Memory
<1>6. CASE Gone
  BY <1>6 DEF Gone, StoreStep, StoreRestart, Memory
<1>7. CASE Run
  <2>1. CASE Open \/ Exit
    BY <2>1, <1>5, <1>6 DEF Exit
  <2>2. CASE FirstSave \/ Flush
    <3>1. \/ UNCHANGED <<mem, dirty, file>>
          \/ SaveBegins("whitelist", "main") /\ UNCHANGED file
          \/ SaveBegins(main.bundle, "main") /\ UNCHANGED file
      BY <2>2 DEF FirstSave, Flush
    <3>2. "whitelist" \in Bundles /\ main.bundle \in Bundles
      BY DEF ControlType, Bundles
    <3>3. QED
      BY <3>1, <3>2, <1>1, <1>3
  <2>3. CASE FirstCleanTrack \/ FirstCleanBans
    <3>1. (ChangeOrNot("track") \/ ChangeOrNot("bans")) /\ UNCHANGED file
      BY <2>3 DEF FirstCleanTrack, FirstCleanBans
    <3>2. {"track", "bans"} \subseteq Bundles
      BY DEF Bundles
    <3>3. QED
      BY <3>1, <3>2, <1>2
  <2>4. CASE \/ OpenFails \/ StartSaver \/ Drained \/ StopCleaner \/ WaitCleaner
             \/ Stop \/ Wait
    BY <2>4, <1>1 DEF OpenFails, StartSaver, Drained, StopCleaner, WaitCleaner, Stop, Wait
  <2>5. QED
    BY <1>7, <2>1, <2>2, <2>3, <2>4 DEF Run
<1>8. ASSUME NEW c \in Bundles,
             SaveStep(c) \/ SaverTicks(c) \/ SaverEnds(c) \/ RequestChanges(c)
      PROVE  StoreStep(b)
  <2>1. CASE SaveStep(c)
    BY <2>1, <1>1, <1>4 DEF SaveStep, WriteTemp, SaveFails
  <2>2. CASE SaverTicks(c)
    BY <2>2, <1>3 DEF SaverTicks
  <2>3. CASE SaverEnds(c)
    BY <2>3, <1>1 DEF SaverEnds
  <2>4. CASE RequestChanges(c)
    BY <2>4, <1>2 DEF RequestChanges, ChangeOrNot
  <2>5. QED
    BY <1>8, <2>1, <2>2, <2>3, <2>4
<1>9. CASE Clean \/ CleanerEnds
  <2>1. \/ UNCHANGED <<mem, dirty, file>>
        \/ (ChangeOrNot("track") \/ ChangeOrNot("bans")) /\ UNCHANGED file
    BY <1>9 DEF Clean, CleanerTicks, CleanerEnds, CleanTrack, CleanBans, CleanerMoves
  <2>2. {"track", "bans"} \subseteq Bundles
    BY DEF Bundles
  <2>3. QED
    BY <2>1, <2>2, <1>1, <1>2
<1>10. CASE Begin \/ Signal \/ ServeFails \/ RequestBegins \/ RequestEnds \/ UNCHANGED vars
  BY <1>10, <1>1 DEF Begin, Signal, ServeFails, RequestBegins, RequestEnds, vars
<1>11. CASE Crash
  BY <1>11, <1>6 DEF Crash
<1>12. QED
  BY <1>7, <1>8, <1>9, <1>10, <1>11 DEF Next

\* All stores begin clean.
LEMMA InitStores ==
  ASSUME Init, NEW b \in Bundles
  PROVE  file[b] \in Nat /\ Memory(b) = file[b] /\ dirty[b] = FALSE
BY DEF Init, Memory, NotLoaded, Empty

\* The bundles with their files implement the durable store: whatever the goroutines
\* do and wherever a save fails or the process is killed, a file is only replaced by
\* all of what memory holds, and a restart goes on from the file.
THEOREM StoresAreDurable == Spec => BundlesAreDurable
<1> USE DEF StoreStep, StoreChange, StorePersist, StoreRestart, StoreStutter
<1>1. Init => WhitelistStore!Init
  BY InitStores DEF WhitelistStore!Init, Bundles
<1>2. IInv /\ [Next]_vars =>
        [WhitelistStore!Change \/ WhitelistStore!Persist \/ WhitelistStore!Restart]_(
           WhitelistStore!durable)
  <2>1. IInv /\ [Next]_vars => StoreStep("whitelist")
    BY NextStores DEF Bundles
  <2>2. QED
    BY <2>1 DEF WhitelistStore!Change, WhitelistStore!Persist, WhitelistStore!Restart,
       WhitelistStore!durable
<1>3. Init => TrackStore!Init
  BY InitStores DEF TrackStore!Init, Bundles
<1>4. IInv /\ [Next]_vars =>
        [TrackStore!Change \/ TrackStore!Persist \/ TrackStore!Restart]_(TrackStore!durable)
  <2>1. IInv /\ [Next]_vars => StoreStep("track")
    BY NextStores DEF Bundles
  <2>2. QED
    BY <2>1 DEF TrackStore!Change, TrackStore!Persist, TrackStore!Restart,
       TrackStore!durable
<1>5. Init => BansStore!Init
  BY InitStores DEF BansStore!Init, Bundles
<1>6. IInv /\ [Next]_vars =>
        [BansStore!Change \/ BansStore!Persist \/ BansStore!Restart]_(BansStore!durable)
  <2>1. IInv /\ [Next]_vars => StoreStep("bans")
    BY NextStores DEF Bundles
  <2>2. QED
    BY <2>1 DEF BansStore!Change, BansStore!Persist, BansStore!Restart, BansStore!durable
<1>7. QED
  BY <1>1, <1>2, <1>3, <1>4, <1>5, <1>6, Invariant, PTL
     DEF Spec, BundlesAreDurable, WhitelistStore!Spec, TrackStore!Spec, BansStore!Spec
=============================================================================
