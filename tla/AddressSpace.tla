---------------------------- MODULE AddressSpace ----------------------------
(***************************************************************************)
(* What the address spaces of the kernel promise: every task has a memory  *)
(* of its own, which only it changes, and which fork copies.               *)
(***************************************************************************)
CONSTANTS Tasks,    \* tasks there can be
          Slots,    \* pages of a program
          Stack,    \* the slot of them that fork does not copy
          Values,   \* what a page can hold
          Nothing   \* the memory of a task that does not exist

VARIABLES memory,   \* what each task's pages hold
          running   \* the task on the CPU

vars == <<memory, running>>

Init == \E t \in Tasks, image \in [Slots -> Values] :
           /\ memory = [u \in Tasks |-> IF u = t THEN image ELSE Nothing]
           /\ running = t

Run(t) ==
    /\ memory[t] # Nothing
    /\ running' = t
    /\ UNCHANGED memory

(* The program writes its own memory. *)
Write(slot, v) ==
    /\ memory' = [memory EXCEPT ![running][slot] = v]
    /\ UNCHANGED running

Fork(u) ==
    /\ memory[u] = Nothing
    /\ \E v \in Values :
          memory' = [memory EXCEPT ![u] = [memory[running] EXCEPT ![Stack] = v]]
    /\ UNCHANGED running

(* It replaces its pages, its stack apart, by those of another program. *)
Load(image) ==
    /\ memory' = [memory EXCEPT ![running] =
                     [image EXCEPT ![Stack] = memory[running][Stack]]]
    /\ UNCHANGED running

Exit(t) ==
    /\ t # running /\ memory[t] # Nothing
    /\ memory' = [memory EXCEPT ![running] = Nothing]
    /\ running' = t

Next == \/ \E t \in Tasks : Run(t) \/ Fork(t) \/ Exit(t)
        \/ \E slot \in Slots, v \in Values : Write(slot, v)
        \/ \E image \in [Slots -> Values] : Load(image)

Spec == Init /\ [][Next]_vars
=============================================================================
