--------------------------- MODULE FrameAllocator ---------------------------
(***************************************************************************)
(* What a physical frame allocator promises its callers, whatever its data *)
(* structure: a frame has at most one holder, a request is refused only    *)
(* when no frame is left, and no frame is ever lost or invented.           *)
(* Pm, the bitmap allocator of pm.c, is shown to implement it.             *)
(***************************************************************************)
CONSTANTS Frame,    \* every frame the allocator could ever manage
          Null      \* the answer that refuses a request

VARIABLES pool,     \* frames the boot handed to the allocator
          free,     \* frames of the pool nobody holds
          held,     \* frames of the pool somebody holds
          answer    \* answer to the latest request

vars == <<pool, free, held, answer>>

Init == /\ pool = {}
        /\ free = {}
        /\ held = {}
        /\ answer = Null

(* The boot hands over a set of frames, all of them free. *)
Boot == /\ pool = {}
        /\ held = {}
        /\ pool' \in SUBSET Frame
        /\ free' = pool'
        /\ UNCHANGED <<held, answer>>

(* A request is answered with any free frame ... *)
Grant == \E f \in free : /\ free' = free \ {f}
                         /\ held' = held \cup {f}
                         /\ answer' = f
                         /\ UNCHANGED pool

(* ... and refused only when there is none. *)
Refuse == /\ free = {}
          /\ answer' = Null
          /\ UNCHANGED <<pool, free, held>>

(* A holder returns a frame. *)
Return == \E f \in held : /\ free' = free \cup {f}
                          /\ held' = held \ {f}
                          /\ UNCHANGED <<pool, answer>>

Next == Boot \/ Grant \/ Refuse \/ Return

Spec == Init /\ [][Next]_vars
=============================================================================
