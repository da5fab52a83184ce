---------------------------- MODULE MCRecovery ----------------------------
(***************************************************************************)
(* The TLC run of Recovery, with the constants of the runs of ForwardAuth. *)
(***************************************************************************)
EXTENDS Recovery, MCForwardAuth
=============================================================================
