-------------------------------- MODULE MCKbd -------------------------------
(***************************************************************************)
(* Instances of Kbd for TLC: two readers, a buffer that can be filled.     *)
(***************************************************************************)
EXTENDS Kbd, FiniteSets, TLC

CONSTANTS r1, r2, MaxMishaps

MCReaders == {r1, r2}
ReaderSymmetry == Permutations(MCReaders)

(* Bound: how many kinds of mishap one behaviour sees. *)
FewMishaps == Cardinality(mishap) <= MaxMishaps
=============================================================================
