----------------------------- MODULE Processes ------------------------------
(***************************************************************************)
(* What fork, exit and wait promise: tasks are born once, end when they    *)
(* ask to, and stay ended; a parent knows the child it has forked, and a   *)
(* wait for that child returns when the child has ended.                   *)
(***************************************************************************)
CONSTANTS Tasks,    \* tasks there can be
          Shell,    \* the one that is there from the beginning
          Nobody    \* no task

VARIABLES life,     \* "unborn", "alive" or "ended"
          known,    \* the child that each task has been told of, if any
          waiting   \* tasks in wait

vars == <<life, known, waiting>>

Init == /\ life = [t \in Tasks |-> IF t = Shell THEN "alive" ELSE "unborn"]
        /\ known = [t \in Tasks |-> Nobody]
        /\ waiting = {}

Birth(c) == /\ life[c] = "unborn"
            /\ life' = [life EXCEPT ![c] = "alive"]
            /\ UNCHANGED <<known, waiting>>

(* fork returns in the parent, perhaps when the child has ended already. *)
Learn(p, c) == /\ life[c] # "unborn"
               /\ \A q \in Tasks : known[q] # c
               /\ known' = [known EXCEPT ![p] = c]
               /\ UNCHANGED <<life, waiting>>

(* A parent that forks again can no longer wait for the child before. *)
Forget(p) == /\ known' = [known EXCEPT ![p] = Nobody]
             /\ UNCHANGED <<life, waiting>>

Exit(t) == /\ life[t] = "alive" /\ t \notin waiting
           /\ life' = [life EXCEPT ![t] = "ended"]
           /\ UNCHANGED <<known, waiting>>

Wait(p) == /\ life[p] = "alive"
           /\ waiting' = waiting \cup {p}
           /\ UNCHANGED <<life, known>>

Return(p) == /\ p \in waiting
             /\ known[p] # Nobody => life[known[p]] = "ended"
             /\ waiting' = waiting \ {p}
             /\ \E k \in {known[p], Nobody} : known' = [known EXCEPT ![p] = k]
             /\ UNCHANGED life

Next == \E t \in Tasks :
           \/ Birth(t) \/ Forget(t) \/ Exit(t) \/ Wait(t) \/ Return(t)
           \/ \E c \in Tasks : Learn(t, c)

Spec == Init /\ [][Next]_vars
=============================================================================
