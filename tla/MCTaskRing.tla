----------------------------- MODULE MCTaskRing -----------------------------
(***************************************************************************)
(* TaskRing for TLC.                                                       *)
(***************************************************************************)
EXTENDS TaskRing
=============================================================================
