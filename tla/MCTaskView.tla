----------------------------- MODULE MCTaskView -----------------------------
(***************************************************************************)
(* TaskView for TLC.                                                       *)
(***************************************************************************)
EXTENDS TaskView
=============================================================================
