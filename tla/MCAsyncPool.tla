---------------------------- MODULE MCAsyncPool -----------------------------
(***************************************************************************)
(* AsyncPool for TLC.                                                      *)
(***************************************************************************)
EXTENDS AsyncPool
=============================================================================
