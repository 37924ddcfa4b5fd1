----------------------------- MODULE MCConnLife -----------------------------
(***************************************************************************)
(* ConnLife for TLC.                                                       *)
(***************************************************************************)
EXTENDS ConnLife
=============================================================================
