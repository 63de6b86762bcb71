-------------------------------- MODULE MCVm --------------------------------
(***************************************************************************)
(* Instances of Vm for TLC: tables of 16 entries, and a higher half of 48  *)
(* pages.  The user's half is 4 tables, the first 3 of which can be the    *)
(* address of a frame.                                                     *)
(***************************************************************************)
EXTENDS Vm

CONSTANTS MaxMishaps, MaxWritten

Machine(kernel, top, start) ==
    [kernel |-> kernel, top |-> top, start |-> start, junk |-> Absent,
     dirt |-> [f \in 0 .. top - 1 |-> Absent]]

(* Enough memory for three tasks; memory that ends while the second is made,
   before and after its directory is loaded, while its stack is mapped, and
   while the pages of the third are copied. *)
Sizes == {Machine(1, top, 50) : top \in {44, 20, 22, 24, 27, 28, 34}}

(* An image that crosses into the next table, and three at addresses that a
   stack can have, the first task's the last of them. *)
Images == {Machine(1, 44, start) : start \in {47, 22, 31, 12}}

(* Memory above the higher half, which begins while a program is loaded, while
   the second task is allocated, while its pages are copied, and while its
   stack is mapped. *)
Reaches == {Machine(kernel, 60, 50) : kernel \in {31, 25, 23, 22, 21}}

(* A cache whose first word is taken for a table, in what becomes the
   directory of the second task. *)
Dirty == {[Machine(1, 44, 50) EXCEPT !.junk = 0 :> Entry(20, FALSE)]}

(* Frames whose words, as a table for the image, map another page to the first
   task's directory. *)
Unclean == {[Machine(1, 44, 50) EXCEPT !.dirt = [f \in 0 .. 43 |-> 9 :> Entry(11, TRUE)]]}

MCMachines == Sizes \cup Images \cup Reaches \cup Dirty \cup Unclean

(* Bound: how many kinds of mishap one behaviour sees. *)
FewMishaps == Cardinality(mishap) <= MaxMishaps

(* Bound: how many frames hold something that a program has put there. *)
FewWritten == Cardinality({f \in DOMAIN m.data : m.data[f] # 0}) <= MaxWritten
=============================================================================
