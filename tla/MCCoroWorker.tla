---------------------------- MODULE MCCoroWorker ----------------------------
(***************************************************************************)
(* CoroWorker for TLC.                                                     *)
(***************************************************************************)
EXTENDS CoroWorker
=============================================================================
