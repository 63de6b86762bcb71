------------------------------- MODULE MCTraps -------------------------------
(***************************************************************************)
(* An instance of Traps for TLC: two tasks and one interrupt of each kind, *)
(* an exception without and one with an error code, a page fault, the      *)
(* timer.                                                                  *)
(***************************************************************************)
EXTENDS Traps

MCTssAddress == <<32, 94, 17, 192>>
=============================================================================
