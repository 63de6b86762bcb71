----------------------------- MODULE MCConsole ------------------------------
(***************************************************************************)
(* An instance of Console for TLC: two tasks, a screen of two lines and    *)
(* three columns, and as many characters as it takes to scroll.            *)
(***************************************************************************)
EXTENDS Console, TLC

CONSTANTS t1, t2, MaxMishaps

MCTasks == {t1, t2}
TaskSymmetry == Permutations(MCTasks)

(* Bound: how many kinds of mishap one behaviour sees. *)
FewMishaps == Cardinality(mishap) <= MaxMishaps
=============================================================================
