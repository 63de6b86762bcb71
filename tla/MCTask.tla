------------------------------- MODULE MCTask -------------------------------
(***************************************************************************)
(* Instances of Task for TLC.                                              *)
(***************************************************************************)
EXTENDS Task, FiniteSets

CONSTANT MaxMishaps     \* bound: kinds of mishap in one behaviour

FewMishaps == Cardinality(mishap) <= MaxMishaps

(* Bound: only a fork with which tids wrap is given the last structure, and then
   nobody but the first task is in the kernel. *)
LastWraps ==
    state[MaxTasks] # "free" =>
        /\ "wrap" \in mishap
        /\ \A t \in Tasks \ {1} : pc[t] \in {"user", "raw", "lost"}
=============================================================================
