------------------------------- MODULE MCIde --------------------------------
(***************************************************************************)
(* An instance of Ide for TLC: a ring of as many slots as there are        *)
(* clients, which it takes to queue a command behind each of two others,   *)
(* and a command more than the ring has slots.                             *)
(***************************************************************************)
EXTENDS Ide, FiniteSets, TLC

CONSTANT MaxMishaps

Call(act, sect, buf) == [act |-> act, sect |-> sect, buf |-> buf]
\* A read of the sector that is written: their order matters.
MCCalls == {Call("IDECMD_WR", 1, 1), Call("IDECMD_RD", 1, 0)}

MCDisks == {1 :> 0 @@ 2 :> 1}

Symmetry == Permutations(Clients)

(* Bound: how many kinds of mishap one behaviour sees. *)
FewMishaps == Cardinality(mishap) <= MaxMishaps

(* Bound: once a slot has been started twice there is no end to it. *)
FewStarts == Len(taken) <= MaxCommands
=============================================================================
