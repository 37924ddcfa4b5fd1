----------------------------- MODULE MCTagFile -----------------------------
(* TagFile for TLC: short lines, and every way a page boundary can cut them *)
(* that a few lines reach.                                                  *)
EXTENDS TagFile
=============================================================================
