------------------------------ MODULE Durable ------------------------------
(***************************************************************************)
(* What a bundle (floodban, floodtrack, ipwhitelist) promises of its file: *)
(* a change happens in memory and marks the bundle dirty; the file is only *)
(* ever replaced, as a whole, by what memory holds at that moment, which   *)
(* is what cleans the bundle; and a restart goes on from the file.         *)
(* Contents are numbers that name them.                                    *)
(***************************************************************************)
EXTENDS Integers

VARIABLES
  memory,  \* the contents the program works with
  dirty,   \* Bundle.IsDirty()
  file     \* the contents of the file

durable == <<memory, dirty, file>>

Init == file \in Nat /\ memory = file /\ dirty = FALSE

Change == memory' \in Nat /\ dirty' = TRUE /\ UNCHANGED file

Persist == file' = memory /\ dirty' = FALSE /\ UNCHANGED memory

Restart == memory' = file /\ dirty' = FALSE /\ UNCHANGED file

Spec == Init /\ [][Change \/ Persist \/ Restart]_durable
=============================================================================
