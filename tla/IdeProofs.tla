----------------------------- MODULE IdeProofs ------------------------------
(***************************************************************************)
(* Proofs about the disk driver, for rings of every length, any number of  *)
(* clients and every disk that Ide's assumptions admit.                    *)
(***************************************************************************)
EXTENDS Ide, TLAPS

(* The assumptions one by one. *)
LEMMA Parameters ==
    /\ NIDECMD \in Nat /\ NIDECMD > 0 /\ NIDECMD < 256
    /\ MaxCommands \in Nat
    /\ Irq \in Process /\ Clients \subseteq Process /\ Irq \notin Clients
    /\ Calls \subseteq Command
    /\ Disks \subseteq [Sectors -> Values]
BY IdeAssumption DEF Process

(* Ready's sector and data are some. *)
LEMMA ReadyType ==
    Ready \in Device
<1>1. (CHOOSE s \in Sectors : TRUE) \in Sectors
  BY IdeAssumption
<1>2. (CHOOSE v \in Values : TRUE) \in Values
  BY IdeAssumption
<1>. QED
  BY <1>1, <1>2 DEF Ready, Act, Device

(* A byte is a number, and the number itself if it has the room. *)
LEMMA Bytes == \A n \in Nat : Byte(n) \in Nat /\ (n < 256 => Byte(n) = n)
BY DEF Byte

(* A sequence over a set is one over a larger set. *)
LEMMA Wider ==
    ASSUME NEW S, NEW T, S \subseteq T, NEW s \in Seq(S)
    PROVE  s \in Seq(T)
OBVIOUS

(* An index is one past the end only until it is wrapped. *)
RingInv ==
    Without({"race"}) =>
        /\ cmdq_head \in 0 .. NIDECMD
        /\ cmdq_tail \in 0 .. NIDECMD
        /\ cmdq_tail_prev \in Slots \cup {-1}
        /\ cmdq_head = NIDECMD => \E q \in Process : pc[q] \in {"fill", "wrap"}
        /\ cmdq_tail = NIDECMD => \E q \in Process : pc[q] \in {"prev", "twrap"}

(* The places where a process has a command of its own. *)
Holding == {"head", "put", "fill", "step", "wait", "command", "data"}

(* What the ghosts and the locals hold: commands that exist. *)
HeldInv ==
    /\ cmdq_head \in Nat /\ cmdq_tail \in Nat /\ cmdq_tail_prev \in Int
    /\ slot \in [Process -> Nat]
    /\ queued \in Seq(1 .. Len(cmds)) /\ taken \in Seq(0 .. Len(cmds))
    /\ done \subseteq 1 .. Len(cmds)
    /\ \A p \in Process : pc[p] \in Holding => cmd[p] # Null

TypeInv == TypeOK /\ HeldInv /\ RingInv

(* What a place in the ring holds is a command, or none. *)
LEMMA ContentType ==
    ASSUME TypeInv, NEW i
    PROVE  Content(i) \in 0 .. Len(cmds)
BY DEF TypeInv, TypeOK, Content, Null

(* A call and its command. *)
LEMMA TypeCall ==
    ASSUME TypeInv, NEW p \in Process, NEW c \in Calls, ide_call(p, c)
    PROVE  TypeInv'
<1>. USE DEF TypeInv, TypeOK, HeldInv
<1>1. cmds' \in Seq(Command) /\ Len(cmds') = Len(cmds) + 1 /\ Len(cmds') <= MaxCommands
  BY Parameters DEF ide_call
<1>2. Len(cmds) \in Nat /\ 0 .. Len(cmds) \subseteq 0 .. Len(cmds')
      /\ 1 .. Len(cmds) \subseteq 1 .. Len(cmds')
  BY <1>1
<1>3. cmd_queue' \in [Slots -> 0 .. Len(cmds')]
  BY <1>2 DEF ide_call, ring
<1>4. cmd' \in [Process -> 0 .. Len(cmds')]
  BY <1>1, <1>2 DEF ide_call
<1>5. pc' \in [Process -> Place]
  BY DEF ide_call, Goto, Place
<1>6. \A q \in Process : pc'[q] \in Holding => cmd'[q] # Null
  BY <1>1, <1>2 DEF ide_call, Goto, Null
<1>7. queued' \in Seq(1 .. Len(cmds')) /\ taken' \in Seq(0 .. Len(cmds'))
      /\ done' \subseteq 1 .. Len(cmds')
  <2>1. queued \in Seq(1 .. Len(cmds')) /\ taken \in Seq(0 .. Len(cmds'))
    BY <1>2, Wider
  <2>. QED
    BY <1>2, <2>1 DEF ide_call, ghosts
<1>8. \A q \in Process : pc[q] \in {"fill", "wrap", "prev", "twrap"} => pc'[q] = pc[q]
  BY DEF ide_call, At, Goto
<1>9. RingInv'
  BY <1>8 DEF RingInv, ide_call, ring, Without
<1>10. HeldInv'
  BY <1>6, <1>7 DEF ide_call, ring, hardware
<1>11. UNCHANGED <<cmdq_head, cmdq_tail, cmdq_tail_prev, es, sector, device, irq, disk, mishap>>
  BY DEF ide_call, ring, hardware
<1>12. TypeOK'
  BY <1>1, <1>3, <1>4, <1>5, <1>11 DEF Without
<1>. QED
  BY <1>9, <1>10, <1>12

(* A step through the code that leaves the commands alone: the parts of the
   type that do not depend on the ring. *)
LEMMA TypeStepAside ==
    ASSUME TypeInv, NEW p \in Process,
           \/ LoadHead(p) \/ LoadTail(p) \/ Address(p) \/ Start(p) \/ SendData(p)
           \/ Prepare \/ Finish \/ Program
    PROVE  TypeInv'
<1>. USE DEF TypeInv, TypeOK, HeldInv
<1>0. pc[p] \in {"wait", "command", "data"} => cmds[cmd[p]] \in Command
  BY DEF Null, Holding
<1>1. CASE LoadHead(p) \/ LoadTail(p)
  <2>1. UNCHANGED <<cmd_queue, cmdq_head, cmdq_tail, cmdq_tail_prev, cmds, cmd, es, sector,
                    device, irq, disk, queued, taken, done, mishap>>
    BY <1>1 DEF LoadHead, LoadTail, ring, hardware, ghosts
  <2>2. /\ pc' \in [Process -> Place] /\ slot' \in [Process -> Nat]
        /\ \A q \in Process : pc'[q] \in Holding => cmd[q] # Null
        /\ \A q \in Process : pc[q] \in {"fill", "wrap", "prev", "twrap"} => pc'[q] = pc[q]
    BY <1>1 DEF LoadHead, LoadTail, Goto, At, Place, Holding
  <2>3. RingInv'
    BY <2>1, <2>2 DEF RingInv, Without
  <2>. QED
    BY <2>1, <2>2, <2>3 DEF Without
<1>2. CASE Address(p) \/ Start(p) \/ SendData(p)
  <2>1. /\ UNCHANGED <<cmd_queue, cmdq_head, cmdq_tail, cmdq_tail_prev, cmds, slot, cmd, es,
                       irq, disk, queued, taken, done>>
        /\ mishap \subseteq mishap' /\ mishap' \subseteq mishap \cup {"drq"}
    BY <1>2 DEF Address, Start, SendData, ring, ghosts
  <2>2. /\ pc' \in [Process -> Place]
        /\ \A q \in Process : pc'[q] \in Holding => cmd[q] # Null
        /\ \A q \in Process : pc[q] \in {"fill", "wrap", "prev", "twrap"} => pc'[q] = pc[q]
    BY <1>2 DEF Address, Start, SendData, Goto, At, Place, Holding
  <2>3. sector' \in Sectors /\ device' \in Device
    <3>1. CASE Address(p)
      BY <1>0, <3>1 DEF Address, At, Command
    <3>2. CASE Start(p)
      BY <1>0, <3>2 DEF Start, At, Command, Device, Act
    <3>3. CASE SendData(p)
      BY <1>0, <3>3 DEF SendData, At, Command, Device
    <3>. QED
      BY <1>2, <3>1, <3>2, <3>3
  <2>4. RingInv'
    BY <2>1, <2>2 DEF RingInv, Without
  <2>5. mishap' \subseteq Mishaps /\ (Without({"race"})' => Without({"race"}))
    BY <2>1 DEF Mishaps, Without
  <2>. QED
    BY <2>1, <2>2, <2>3, <2>4, <2>5
<1>3. CASE Prepare \/ Finish \/ Program
  <2>1. UNCHANGED <<cmd_queue, cmdq_head, cmdq_tail, cmdq_tail_prev, cmds, pc, slot, cmd,
                    sector, queued, taken, done, mishap>>
    BY <1>3 DEF Prepare, Finish, Program, ring, ghosts
  <2>2. es' \in BOOLEAN /\ device' \in Device /\ irq' \in BOOLEAN /\ disk' \in [Sectors -> Values]
    BY <1>3 DEF Prepare, Finish, Program, Device
  <2>3. RingInv'
    BY <2>1 DEF RingInv, Without
  <2>. QED
    BY <2>1, <2>2, <2>3 DEF Without
<1>. QED
  BY <1>1, <1>2, <1>3

(* Without a race a command goes where the head is, and that is a slot. *)
LEMMA HeadPlace ==
    ASSUME TypeInv, NEW p \in Process, pc[p] \in {"put", "step"}, Without({"race"}), ~Stale(p)
    PROVE  slot[p] = cmdq_head /\ slot[p] \in Slots /\ Byte(slot[p] + 1) = slot[p] + 1
<1>1. slot[p] = cmdq_head /\ ~Beyond(p, {"fill", "wrap"})
  BY DEF Stale
<1>2. cmdq_head # NIDECMD
  <2>1. ASSUME cmdq_head = NIDECMD, NEW q \in Process, pc[q] \in {"fill", "wrap"} PROVE FALSE
    BY <1>1, <2>1, Parameters DEF Beyond, Slots
  <2>. QED
    BY <1>1, <2>1 DEF TypeInv, RingInv
<1>3. slot[p] \in 0 .. NIDECMD /\ slot[p] # NIDECMD
  BY <1>1, <1>2 DEF TypeInv, RingInv
<1>. QED
  BY <1>1, <1>3, Parameters, Bytes DEF Slots

(* The same for the tail. *)
LEMMA TakePlace ==
    ASSUME TypeInv, NEW p \in Process, Take(p), Without({"race"})'
    PROVE  /\ Without({"race"}) /\ slot[p] = cmdq_tail /\ slot[p] \in Slots
           /\ cmdq_tail' = slot[p] + 1
<1>1. /\ Without({"race"}) /\ slot[p] = cmdq_tail /\ ~Beyond(p, {"prev", "twrap"})
      /\ cmdq_tail' = Byte(slot[p] + 1) /\ pc[p] = "take"
  BY DEF Take, At, Without
<1>2. cmdq_tail # NIDECMD
  <2>1. ASSUME cmdq_tail = NIDECMD, NEW q \in Process, pc[q] \in {"prev", "twrap"} PROVE FALSE
    BY <1>1, <2>1, Parameters DEF Beyond, Slots
  <2>. QED
    BY <1>1, <2>1 DEF TypeInv, RingInv
<1>3. slot[p] \in 0 .. NIDECMD /\ slot[p] # NIDECMD
  BY <1>1, <1>2 DEF TypeInv, RingInv
<1>. QED
  BY <1>1, <1>3, Parameters, Bytes DEF Slots

(* The head over a command. *)
LEMMA TypeHead ==
    ASSUME TypeInv, NEW p \in Process, StepHead(p)
    PROVE  TypeInv'
<1>0. ASSUME Without({"race"})'
      PROVE  /\ Without({"race"}) /\ slot[p] \in Slots /\ cmdq_head' = slot[p] + 1
  BY <1>0, HeadPlace DEF StepHead, At, Without
<1>. USE DEF TypeInv, TypeOK, HeldInv
<1>1. cmd[p] \in 1 .. Len(cmds) /\ pc[p] \in {"put", "step"}
  BY DEF StepHead, At, Null, Holding
<1>2. queued' \in Seq(1 .. Len(cmds)) /\ cmdq_head' \in Nat
  BY <1>1, Bytes DEF StepHead
<1>3. /\ pc' \in [Process -> Place] /\ pc'[p] \in {"fill", "wrap"}
      /\ \A q \in Process \ {p} : pc'[q] = pc[q]
  BY <1>1 DEF StepHead, Goto, Place
<1>4. UNCHANGED <<cmd_queue, cmdq_tail, cmdq_tail_prev, cmds, slot, cmd, es, sector, device,
                  irq, disk, taken, done>>
  BY DEF StepHead, hardware
<1>5. RingInv'
  <2>. SUFFICES ASSUME Without({"race"})' PROVE RingInv'
    BY DEF RingInv
  <2>1. /\ Without({"race"}) /\ cmdq_head' \in 0 .. NIDECMD
    BY <1>0, Parameters DEF Slots
  <2>2. \A q \in Process : pc[q] \in {"prev", "twrap"} => pc'[q] = pc[q]
    BY <1>1, <1>3
  <2>. QED
    BY <1>3, <1>4, <2>1, <2>2 DEF RingInv
<1>6. mishap' \subseteq Mishaps
  BY DEF StepHead, Mishaps
<1>7. \A q \in Process : pc'[q] \in Holding => cmd'[q] # Null
  BY <1>1, <1>3, <1>4 DEF Null, Holding
<1>8. TypeOK'
  BY <1>3, <1>4, <1>5, <1>6 DEF RingInv
<1>9. HeldInv'
  BY <1>2, <1>4, <1>7
<1>. QED
  BY <1>5, <1>8, <1>9

(* A command into its slot. *)
LEMMA TypeFill ==
    ASSUME TypeInv, NEW p \in Process, FillSlot(p)
    PROVE  TypeInv'
<1>. USE DEF TypeInv, TypeOK, HeldInv
<1>1. cmd[p] \in 1 .. Len(cmds) /\ pc[p] \in {"put", "fill"}
  BY DEF FillSlot, At, Null, Holding
<1>2. cmd_queue' \in [Slots -> 0 .. Len(cmds)]
  BY <1>1 DEF FillSlot
<1>3. /\ pc' \in [Process -> Place] /\ pc'[p] = (IF pc[p] = "put" THEN "step" ELSE "wrap")
      /\ \A q \in Process \ {p} : pc'[q] = pc[q]
  BY <1>1 DEF FillSlot, Goto, Place
<1>4. UNCHANGED <<cmdq_head, cmdq_tail, cmdq_tail_prev, cmds, slot, cmd, es, sector, device,
                  irq, disk, queued, taken, done>>
  BY DEF FillSlot, hardware, ghosts
<1>5. mishap \subseteq mishap' /\ mishap' \subseteq Mishaps
  BY DEF FillSlot, Mishaps
<1>6. RingInv'
  <2>1. /\ \A q \in Process : pc[q] \in {"prev", "twrap"} => pc'[q] = pc[q]
        /\ \A q \in Process : pc[q] \in {"fill", "wrap"} => pc'[q] \in {"fill", "wrap"}
    BY <1>1, <1>3
  <2>2. Without({"race"})' => Without({"race"})
    BY <1>5 DEF Without
  <2>. QED
    BY <1>4, <2>1, <2>2 DEF RingInv
<1>7. \A q \in Process : pc'[q] \in Holding => cmd'[q] # Null
  BY <1>1, <1>3, <1>4 DEF Null, Holding
<1>8. TypeOK'
  BY <1>2, <1>3, <1>4, <1>5, <1>6 DEF RingInv
<1>9. HeldInv'
  BY <1>4, <1>7
<1>. QED
  BY <1>6, <1>8, <1>9

(* A command out of the ring. *)
LEMMA TypeTake ==
    ASSUME TypeInv, NEW p \in Process, Take(p)
    PROVE  TypeInv'
<1>0. ASSUME Without({"race"})'
      PROVE  /\ Without({"race"}) /\ slot[p] \in Slots /\ cmdq_tail' = slot[p] + 1
  BY <1>0, TakePlace
<1>. USE DEF TypeInv, TypeOK, HeldInv
<1>1. cmd' \in [Process -> 0 .. Len(cmds)] /\ cmd'[p] \in 0 .. Len(cmds)
      /\ (\A q \in Process \ {p} : cmd'[q] = cmd[q])
  BY ContentType DEF Take
<1>2. taken' \in Seq(0 .. Len(cmds))
  BY <1>1 DEF Take
<1>3. pc' \in [Process -> Place] /\ pc[p] = "take" /\ pc'[p] = "prev"
      /\ (\A q \in Process \ {p} : pc'[q] = pc[q])
  BY DEF Take, Goto, Place, At
<1>4. cmdq_tail' \in Nat
  BY Bytes DEF Take
<1>5. UNCHANGED <<cmd_queue, cmdq_head, cmdq_tail_prev, cmds, slot, es, sector, device, irq,
                  disk, queued, done>>
  BY DEF Take, hardware
<1>6. RingInv'
  <2>. SUFFICES ASSUME Without({"race"})' PROVE RingInv'
    BY DEF RingInv
  <2>1. /\ Without({"race"}) /\ cmdq_tail' \in 0 .. NIDECMD
    BY <1>0, Parameters DEF Slots
  <2>2. \A q \in Process : pc[q] \in {"fill", "wrap"} => pc'[q] = pc[q]
    BY <1>3
  <2>. QED
    BY <1>3, <1>5, <2>1, <2>2 DEF RingInv
<1>7. mishap' \subseteq Mishaps
  BY DEF Take, Mishaps
<1>8. TypeOK'
  BY <1>1, <1>3, <1>5, <1>6, <1>7 DEF RingInv
<1>10. \A q \in Process : pc'[q] \in Holding => cmd'[q] # Null
  BY <1>1, <1>3 DEF Holding
<1>9. HeldInv'
  BY <1>1, <1>2, <1>4, <1>5, <1>10
<1>. QED
  BY <1>6, <1>8, <1>9

(* Its index kept, and the two wraps. *)
LEMMA TypeWrap ==
    ASSUME TypeInv, NEW p \in Process, SetPrev(p) \/ WrapHead(p) \/ WrapTail(p)
    PROVE  TypeInv'
<1>. USE DEF TypeInv, TypeOK, HeldInv
<1>1. UNCHANGED <<cmd_queue, cmds, slot, cmd, es, sector, device, irq, disk, queued, taken,
                  done, mishap>>
  BY DEF SetPrev, WrapHead, WrapTail, hardware, ghosts
<1>2. pc' \in [Process -> Place] /\ (\A q \in Process \ {p} : pc'[q] = pc[q])
  BY DEF SetPrev, WrapHead, WrapTail, Goto, Place
<1>3. pc'[p] \in Holding => cmd'[p] # Null
  BY <1>1 DEF SetPrev, WrapHead, WrapTail, Goto, Place, Holding
<1>4. cmdq_head' \in Nat /\ cmdq_tail' \in Nat /\ cmdq_tail_prev' \in Int
  BY DEF SetPrev, WrapHead, WrapTail
<1>5. RingInv'
  <2>1. CASE WrapHead(p)
    <3>1. cmdq_head' = (IF cmdq_head = NIDECMD THEN 0 ELSE cmdq_head) /\ pc[p] = "wrap"
          /\ cmdq_tail' = cmdq_tail /\ cmdq_tail_prev' = cmdq_tail_prev
      BY <2>1 DEF WrapHead, At
    <3>. QED
      BY <1>1, <1>2, <3>1, Parameters DEF RingInv, Without
  <2>2. CASE WrapTail(p)
    <3>1. cmdq_tail' = (IF cmdq_tail = NIDECMD THEN 0 ELSE cmdq_tail) /\ pc[p] = "twrap"
          /\ cmdq_head' = cmdq_head /\ cmdq_tail_prev' = cmdq_tail_prev
      BY <2>2 DEF WrapTail, At
    <3>. QED
      BY <1>1, <1>2, <3>1, Parameters DEF RingInv, Without
  <2>3. CASE SetPrev(p)
    <3>1. cmdq_tail_prev' = cmdq_tail - 1 /\ pc[p] = "prev" /\ pc'[p] = "twrap"
          /\ cmdq_head' = cmdq_head /\ cmdq_tail' = cmdq_tail
      BY <2>3 DEF SetPrev, At, Goto
    <3>2. cmdq_tail \in 0 .. NIDECMD => cmdq_tail_prev' \in Slots \cup {-1}
      BY <3>1, Parameters DEF Slots
    <3>. QED
      BY <1>1, <1>2, <3>1, <3>2, Parameters DEF RingInv, Without
  <2>. QED
    BY <2>1, <2>2, <2>3
<1>6. TypeOK'
  BY <1>1, <1>2, <1>5 DEF RingInv
<1>7. HeldInv'
  BY <1>1, <1>2, <1>3, <1>4
<1>. QED
  BY <1>5, <1>6, <1>7

(* The interrupt handler. *)
LEMMA TypeIrq ==
    ASSUME TypeInv, ide_handle_irq
    PROVE  TypeInv'
<1>. USE DEF TypeInv, TypeOK, HeldInv
<1>1. UNCHANGED <<cmd_queue, cmdq_head, cmdq_tail, cmdq_tail_prev, slot, cmd, es, sector,
                  device, disk, queued, taken>>
  BY DEF ide_handle_irq, ring
<1> DEFINE c == Content(cmdq_tail_prev)
<1>2. c \in 0 .. Len(cmds)
  BY ContentType
<1>3. cmds' \in Seq(Command) /\ Len(cmds') = Len(cmds) /\ done' \subseteq 1 .. Len(cmds)
  <2>1. CASE UNCHANGED <<cmds, done>>
    BY <2>1
  <2>2. CASE ~UNCHANGED <<cmds, done>>
    <3>1. /\ c # Null /\ done' = done \cup {c}
          /\ cmds' = [cmds EXCEPT ![c].buf = device.data] \/ cmds' = cmds
      BY <2>2 DEF ide_handle_irq
    <3>2. c \in 1 .. Len(cmds) /\ cmds[c] \in Command
      BY <1>2, <3>1 DEF Null
    <3>3. [cmds[c] EXCEPT !.buf = device.data] \in Command
      BY <3>2 DEF Command, Device
    <3>. HIDE DEF c
    <3>4. CASE cmds' = cmds
      BY <3>1, <3>2, <3>4
    <3>5. CASE cmds' = [cmds EXCEPT ![c].buf = device.data]
      BY <3>1, <3>2, <3>3, <3>5
    <3>. QED
      BY <3>1, <3>4, <3>5
  <2>. QED
    BY <2>1, <2>2
<1>4. pc' \in [Process -> Place] /\ (\A q \in Process \ {Irq} : pc'[q] = pc[q])
      /\ pc[Irq] = "idle" /\ pc'[Irq] \notin Holding
  BY Parameters DEF ide_handle_irq, At, Goto, Place, Holding
<1>5. irq' \in BOOLEAN
  BY DEF ide_handle_irq
<1>6. mishap \subseteq mishap' /\ mishap' \subseteq mishap \cup {"early", "segment"}
  BY DEF ide_handle_irq
<1>7. RingInv'
  BY <1>1, <1>4, <1>6, Parameters DEF RingInv, Without
<1>8. TypeOK'
  BY <1>1, <1>3, <1>4, <1>5, <1>6, <1>7 DEF RingInv, Mishaps
<1>9. HeldInv'
  BY <1>1, <1>3, <1>4
<1>. QED
  BY <1>7, <1>8, <1>9

(* All steps, one after the other. *)
LEMMA TypeStep == TypeInv /\ [Next]_vars => TypeInv'
<1>1. ASSUME TypeInv, UNCHANGED vars PROVE TypeInv'
  BY <1>1 DEF vars, ring, hardware, ghosts, TypeInv, TypeOK, HeldInv, RingInv, Without
<1>. QED
  BY <1>1, TypeCall, TypeStepAside, TypeHead, TypeFill, TypeTake, TypeWrap, TypeIrq, Parameters
     DEF Next, ide_rdrw

(* The first state. *)
LEMMA TypeInit == Init => TypeInv
<1>. SUFFICES ASSUME Init PROVE TypeInv
  OBVIOUS
<1>1. /\ cmds = <<>> /\ queued = <<>> /\ taken = <<>> /\ done = {} /\ mishap = {}
      /\ pc = [p \in Process |-> "idle"] /\ cmd = [p \in Process |-> 0]
      /\ cmdq_head = 0 /\ cmdq_tail = 0 /\ cmdq_tail_prev = -1
      /\ cmd_queue = [s \in Slots |-> 0]
  BY DEF Init, Null
<1>2. sector \in Sectors /\ device \in Device /\ es \in BOOLEAN
  BY ReadyType DEF Init, Device
<1>3. disk \in [Sectors -> Values] /\ irq \in BOOLEAN /\ slot \in [Process -> Nat]
  BY Parameters DEF Init
<1>4. TypeOK
  BY <1>1, <1>2, <1>3, Parameters DEF TypeOK, Place, Mishaps
<1>5. HeldInv
  BY <1>1, <1>2, <1>3 DEF HeldInv, Holding
<1>6. RingInv
  BY <1>1, Parameters DEF RingInv
<1>. QED
  BY <1>4, <1>5, <1>6 DEF TypeInv

(* The indices of the ring stay in it, unless two callers have met there, and
   every slot, buffer and register has what it is for. *)
THEOREM TypeCorrect == Spec => []TypeOK
<1>1. TypeInv => TypeOK
  BY DEF TypeInv
<1>. QED
  BY <1>1, TypeInit, TypeStep, PTL DEF Spec
-----------------------------------------------------------------------------
(* Division, for a divisor that is a parameter. *)
LEMMA Parts ==
    ASSUME NEW d \in Nat, d > 0, NEW n \in Nat
    PROVE  n % d \in 0 .. d - 1 /\ n \div d \in Nat /\ n = d * (n \div d) + (n % d)
OBVIOUS

(* Multiples of d are d apart. *)
LEMMA Multiples ==
    ASSUME NEW d \in Nat, d > 0, NEW j \in Int, NEW k \in Int, j < k
    PROVE  d * j + d <= d * k
<1>1. k - j >= 1
  OBVIOUS
<1>2. d * (k - j) >= d
  BY <1>1
<1>3. d * (k - j) = d * k - d * j
  OBVIOUS
<1>. QED
  BY <1>2, <1>3

(* There is one quotient and one remainder. *)
LEMMA Remainder ==
    ASSUME NEW d \in Nat, d > 0, NEW n \in Nat, NEW k \in Int, NEW r \in 0 .. d - 1,
           n = d * k + r
    PROVE  n % d = r
<1> DEFINE j == n \div d
           t == n % d
<1>1. n = d * j + t /\ t \in 0 .. d - 1 /\ j \in Int
  BY Parts
<1>. HIDE DEF j, t
<1>2. d * j \in Int /\ d * k \in Int
  BY <1>1
<1>3. ~(j < k) /\ ~(k < j)
  BY <1>1, <1>2, Multiples
<1>4. t = r
  BY <1>1, <1>2, <1>3
<1>. QED
  BY <1>4 DEF t

(* The remainder of the next number depends on the remainder only. *)
LEMMA NextRemainder ==
    ASSUME NEW d \in Nat, d > 0, NEW n \in Nat
    PROVE  (n + 1) % d = IF n % d = d - 1 THEN 0 ELSE (n % d) + 1
<1>1. n = d * (n \div d) + (n % d) /\ n % d \in 0 .. d - 1 /\ n \div d \in Int
  BY Parts
<1>2. CASE n % d = d - 1
  <2>1. n + 1 = d * ((n \div d) + 1) + 0
    BY <1>1, <1>2
  <2>. QED
    BY <1>1, <1>2, <2>1, Remainder
<1>3. CASE n % d # d - 1
  <2> DEFINE k == n \div d
             r == (n % d) + 1
             m == n + 1
  <2>1. m \in Nat /\ m = d * k + r /\ r \in 0 .. d - 1 /\ k \in Int
    BY <1>1, <1>3
  <2>. HIDE DEF k, r, m
  <2>2. m % d = r
    BY <2>1, Remainder
  <2>. QED
    BY <1>3, <2>2 DEF r, m
<1>. QED
  BY <1>2, <1>3

(* Numbers less than d apart have different remainders, and d apart the same. *)
LEMMA Remainders ==
    ASSUME NEW d \in Nat, d > 0, NEW i \in Nat, NEW j \in Nat, i < j
    PROVE  /\ j - i < d => i % d # j % d
           /\ j - i = d => i % d = j % d
<1>1. i = d * (i \div d) + (i % d) /\ i \div d \in Int /\ i % d \in 0 .. d - 1
  BY Parts
<1>2. j = d * (j \div d) + (j % d) /\ j \div d \in Int
  BY Parts
<1>3. ASSUME i % d = j % d, j - i < d PROVE FALSE
  <2>1. d * (i \div d) < d * (j \div d) /\ d * (j \div d) - d * (i \div d) < d
    BY <1>1, <1>2, <1>3
  <2>2. i \div d < j \div d
    BY <1>1, <1>2, <2>1, Multiples
  <2>. QED
    BY <1>1, <1>2, <2>1, <2>2, Multiples
<1>4. ASSUME j - i = d PROVE i % d = j % d
  <2> DEFINE k == (i \div d) + 1
             r == i % d
  <2>1. j = d * k + r /\ r \in 0 .. d - 1 /\ k \in Int
    BY <1>1, <1>4
  <2>. HIDE DEF k, r
  <2>2. j % d = r
    BY <2>1, Remainder
  <2>. QED
    BY <2>2 DEF r
<1>. QED
  BY <1>3, <1>4

-----------------------------------------------------------------------------
(* Where the n-th command is put. *)
SlotOf(n) == n % NIDECMD

(* The slots go around, and commands that fit into the ring together have
   different ones. *)
LEMMA SlotOrder ==
    /\ \A n \in Nat : SlotOf(n) \in Slots
    /\ \A n \in Slots : SlotOf(n) = n
    /\ SlotOf(NIDECMD) = SlotOf(0)
    /\ \A n, m \in Nat : SlotOf(n) = SlotOf(m) => SlotOf(n + 1) = SlotOf(m + 1)
    /\ \A i, j \in Nat : i < j /\ j - i < NIDECMD => SlotOf(i) # SlotOf(j)
    /\ \A i, j \in Nat : i < j /\ j - i = NIDECMD => SlotOf(i) = SlotOf(j)
<1>1. NIDECMD \in Nat /\ NIDECMD > 0
  BY Parameters
<1>2. ASSUME NEW n \in Nat PROVE SlotOf(n) \in Slots
  <2>1. n % NIDECMD \in 0 .. NIDECMD - 1
    BY <1>1, Parts
  <2>. QED
    BY <2>1 DEF SlotOf, Slots
<1>3. \A n \in Slots : SlotOf(n) = n
  BY <1>1 DEF SlotOf, Slots
<1>4. /\ \A i, j \in Nat : i < j /\ j - i < NIDECMD => SlotOf(i) # SlotOf(j)
      /\ \A i, j \in Nat : i < j /\ j - i = NIDECMD => SlotOf(i) = SlotOf(j)
  BY <1>1, Remainders DEF SlotOf
<1>5. SlotOf(NIDECMD) = SlotOf(0)
  <2>1. 0 \in Nat /\ 0 < NIDECMD /\ NIDECMD - 0 = NIDECMD
    BY <1>1
  <2>. QED
    BY <1>1, <1>4, <2>1
<1>6. ASSUME NEW n \in Nat, NEW m \in Nat, SlotOf(n) = SlotOf(m)
      PROVE  SlotOf(n + 1) = SlotOf(m + 1)
  <2>1. /\ SlotOf(n + 1) = IF SlotOf(n) = NIDECMD - 1 THEN 0 ELSE SlotOf(n) + 1
        /\ SlotOf(m + 1) = IF SlotOf(m) = NIDECMD - 1 THEN 0 ELSE SlotOf(m) + 1
    BY <1>1, NextRemainder DEF SlotOf
  <2>. QED
    BY <1>6, <2>1
<1>. QED
  BY <1>2, <1>3, <1>4, <1>5, <1>6, Zenon

(* A process that has a command of its own, past which the head is not yet. *)
Entering(p) == pc[p] \in {"head", "put", "step"}

(* No command is queued twice. *)
OnceInv ==
    /\ \A i, j \in 1 .. Len(queued) : queued[i] = queued[j] => i = j
    /\ \A p \in Process : Entering(p) => \A i \in 1 .. Len(queued) : queued[i] # cmd[p]
    /\ \A p, q \in Process : Entering(p) /\ Entering(q) /\ p # q => cmd[p] # cmd[q]

(* None of the mishaps that the order of the ring does not survive. *)
Ordered == Without({"race", "full", "underrun", "unfilled"})

(* A process is about to fill the slot of the i-th command. *)
Claims(p, i) == pc[p] = "fill" /\ cmd[p] = queued[i] /\ slot[p] = SlotOf(i - 1)

(* The commands queued and not taken lie one behind the other in the slots
   before the head, from the tail on, or are about to; and a slot that is
   filled before the head is stepped keeps its command until it is. *)
FifoInv ==
    Ordered =>
        /\ Len(taken) <= Len(queued) /\ Len(queued) - Len(taken) <= NIDECMD
        /\ \A i \in 1 .. Len(taken) : taken[i] = queued[i]
        /\ SlotOf(cmdq_head) = SlotOf(Len(queued))
        /\ SlotOf(cmdq_tail) = SlotOf(Len(taken))
        /\ \A i \in Len(taken) + 1 .. Len(queued) :
              cmd_queue[SlotOf(i - 1)] = queued[i] \/ \E p \in Process : Claims(p, i)
        /\ \A p \in Process :
              pc[p] = "fill" => \E i \in Len(taken) + 1 .. Len(queued) : Claims(p, i)
        /\ \A p \in Process :
              pc[p] = "step" => /\ slot[p] \in Slots /\ cmd_queue[slot[p]] = cmd[p]
                                /\ \A q \in Process : pc[q] = "fill" => slot[q] # slot[p]

(* A new command is none that a process or the ring has. *)
LEMMA OnceStep == TypeInv /\ OnceInv /\ [Next]_vars => OnceInv'
<1>. SUFFICES ASSUME TypeInv, OnceInv, [Next]_vars PROVE OnceInv'
  OBVIOUS
<1>. USE DEF TypeInv, TypeOK, HeldInv
<1>1. Len(queued) \in Nat /\ Len(cmds) \in Nat
      /\ \A i \in 1 .. Len(queued) : queued[i] \in 1 .. Len(cmds)
  OBVIOUS
<1>2. ASSUME NEW p \in Process, NEW c \in Calls, ide_call(p, c) PROVE OnceInv'
  <2>1. /\ Len(cmds') = Len(cmds) + 1 /\ queued' = queued
        /\ cmd' = [cmd EXCEPT ![p] = Len(cmds')] /\ pc' = [pc EXCEPT ![p] = "head"]
    BY <1>2, Parameters DEF ide_call, Goto, ghosts
  <2>2. \A q \in Process \ {p} : Entering(q)' => Entering(q) /\ cmd'[q] = cmd[q]
    BY <2>1 DEF Entering
  <2>3. cmd'[p] = Len(cmds) + 1 /\ \A q \in Process : cmd[q] <= Len(cmds)
    BY <2>1
  <2>. QED
    BY SMTT(30), <1>1, <2>1, <2>2, <2>3 DEF OnceInv
<1>3. ASSUME NEW p \in Process, StepHead(p) PROVE OnceInv'
  <2>1. /\ queued' = Append(queued, cmd[p]) /\ cmd' = cmd
        /\ Entering(p) /\ pc' = [pc EXCEPT ![p] = IF pc[p] = "put" THEN "fill" ELSE "wrap"]
    BY <1>3 DEF StepHead, At, Goto, Entering
  <2>2. /\ \A q \in Process \ {p} : Entering(q)' <=> Entering(q)
        /\ ~Entering(p)'
    BY <2>1 DEF Entering
  <2>3. /\ Len(queued') = Len(queued) + 1
        /\ \A i \in 1 .. Len(queued) : queued'[i] = queued[i]
        /\ queued'[Len(queued) + 1] = cmd[p]
    BY <1>1, <2>1
  <2>4. \A i, j \in 1 .. Len(queued') : queued'[i] = queued'[j] => i = j
    <3>1. \A i \in 1 .. Len(queued) : queued[i] # cmd[p]
      BY <2>1 DEF OnceInv
    <3>2. 1 .. Len(queued') = 1 .. Len(queued) \cup {Len(queued) + 1}
      BY <1>1, <2>3
    <3>3. \A i, j \in 1 .. Len(queued) : queued'[i] = queued'[j] => i = j
      BY <2>3 DEF OnceInv
    <3>. QED
      BY <2>3, <3>1, <3>2, <3>3
  <2>5. ASSUME NEW q \in Process, Entering(q)', NEW i \in 1 .. Len(queued')
        PROVE  queued'[i] # cmd'[q]
    <3>1. Entering(q) /\ q # p
      BY <2>2, <2>5
    <3>2. cmd[q] # cmd[p] /\ \A j \in 1 .. Len(queued) : queued[j] # cmd[q]
      BY <2>1, <3>1 DEF OnceInv
    <3>3. CASE i \in 1 .. Len(queued)
      BY <2>1, <2>3, <3>2, <3>3
    <3>4. CASE i = Len(queued) + 1
      BY <2>1, <2>3, <3>2, <3>4
    <3>5. i \in 1 .. Len(queued) \/ i = Len(queued) + 1
      BY <1>1, <2>3
    <3>. QED
      BY <3>3, <3>4, <3>5
  <2>6. \A q, u \in Process : Entering(q)' /\ Entering(u)' /\ q # u => cmd'[q] # cmd'[u]
    BY <2>1, <2>2 DEF OnceInv
  <2>. QED
    BY <2>4, <2>5, <2>6 DEF OnceInv
<1>4. ASSUME NEW p \in Process, Take(p) PROVE OnceInv'
  <2>1. /\ queued' = queued /\ (\A q \in Process \ {p} : cmd'[q] = cmd[q])
        /\ pc' = [pc EXCEPT ![p] = "prev"]
    BY <1>4 DEF Take, Goto
  <2>2. \A q \in Process : Entering(q)' => q # p /\ Entering(q)
    BY <2>1 DEF Entering
  <2>. QED
    BY <1>1, <2>1, <2>2 DEF OnceInv
<1>5. ASSUME UNCHANGED <<queued, cmd>>, \A q \in Process : Entering(q)' => Entering(q)
      PROVE  OnceInv'
  BY <1>5 DEF OnceInv, Entering
<1>6. ASSUME NEW p \in Process,
             \/ LoadHead(p) \/ FillSlot(p) \/ WrapHead(p) \/ LoadTail(p) \/ SetPrev(p)
             \/ WrapTail(p) \/ Address(p) \/ Start(p) \/ SendData(p)
      PROVE  OnceInv'
  BY <1>5, <1>6 DEF LoadHead, FillSlot, WrapHead, LoadTail, SetPrev, WrapTail, Address, Start,
                    SendData, Entering, Goto, At, ghosts
<1>7. ASSUME Prepare \/ Finish \/ Program \/ ide_handle_irq \/ UNCHANGED vars PROVE OnceInv'
  BY <1>5, <1>7 DEF Prepare, Finish, Program, ide_handle_irq, vars, Entering, Goto, At, ghosts
<1>. QED
  BY <1>2, <1>3, <1>4, <1>6, <1>7 DEF Next, ide_rdrw
(* A command that is not queued has not been taken either. *)
LEMMA NotTaken ==
    ASSUME TypeInv, OnceInv, FifoInv, Ordered, NEW p \in Process, Entering(p)
    PROVE  cmd[p] \notin ToSet(taken) \cup {Null}
<1>1. Len(taken) \in Nat /\ Len(queued) \in Nat /\ DOMAIN taken = 1 .. Len(taken)
      /\ cmd[p] # Null
  BY DEF TypeInv, HeldInv, Entering, Holding
<1>2. ASSUME NEW j \in 1 .. Len(taken) PROVE taken[j] # cmd[p]
  BY <1>1 DEF FifoInv, OnceInv
<1>. QED
  BY <1>1, <1>2 DEF ToSet

(* Nor has a command that is behind those taken. *)
LEMMA StillQueued ==
    ASSUME TypeInv, OnceInv, FifoInv, Ordered, NEW i \in Len(taken) + 1 .. Len(queued)
    PROVE  queued[i] \notin ToSet(taken) \cup {Null} /\ i \in 1 .. Len(queued)
<1>1. Len(taken) \in Nat /\ Len(queued) \in Nat /\ DOMAIN taken = 1 .. Len(taken)
      /\ i \in 1 .. Len(queued) /\ queued[i] # Null
  BY DEF TypeInv, HeldInv, Null
<1>2. ASSUME NEW j \in 1 .. Len(taken) PROVE taken[j] # queued[i]
  <2>1. taken[j] = queued[j] /\ j \in 1 .. Len(queued) /\ j # i
    BY <1>1 DEF FifoInv
  <2>. QED
    BY <1>1, <2>1 DEF OnceInv
<1>. QED
  BY <1>1, <1>2 DEF ToSet

(* A slot that is not full has none of the ring's commands, and no command of
   another process that has yet to step the head. *)
LEMMA Free ==
    ASSUME TypeInv, OnceInv, FifoInv, Ordered, NEW p \in Process, Entering(p),
           slot[p] \in Slots, ~Full(p)
    PROVE  /\ \A i \in Len(taken) + 1 .. Len(queued) : cmd_queue[slot[p]] # queued[i]
           /\ \A q \in Process \ {p} : Entering(q) => cmd_queue[slot[p]] # cmd[q]
           /\ \A q \in Process \ {p} : pc[q] = "fill" => slot[q] # slot[p]
<1>1. cmd_queue[slot[p]] \in {Null, cmd[p]} \cup ToSet(taken)
  BY DEF Full, Content
<1>2. ASSUME NEW i \in Len(taken) + 1 .. Len(queued) PROVE cmd_queue[slot[p]] # queued[i]
  <2>1. queued[i] \notin ToSet(taken) \cup {Null} /\ i \in 1 .. Len(queued)
    BY StillQueued
  <2>2. queued[i] # cmd[p]
    BY <2>1 DEF OnceInv
  <2>. QED
    BY <1>1, <2>1, <2>2
<1>3. ASSUME NEW q \in Process \ {p}, Entering(q) PROVE cmd_queue[slot[p]] # cmd[q]
  BY <1>1, <1>3, NotTaken DEF OnceInv
<1>4. \A q \in Process \ {p} : pc[q] = "fill" => slot[q] # slot[p]
  BY DEF Full, Claimed
<1>. QED
  BY <1>2, <1>3, <1>4

(* The ring was not full when the head was stepped. *)
LEMMA Room ==
    ASSUME TypeInv, OnceInv, FifoInv, Ordered, NEW p \in Process, pc[p] \in {"put", "step"},
           slot[p] = cmdq_head, slot[p] \in Slots, ~Full(p)
    PROVE  /\ Len(queued) - Len(taken) < NIDECMD
           /\ slot[p] = SlotOf(Len(queued))
<1>1. Len(queued) \in Nat /\ Len(taken) \in Nat
  BY DEF TypeInv, HeldInv
<1>2. slot[p] = SlotOf(Len(queued))
  <2>1. SlotOf(cmdq_head) = cmdq_head
    BY SlotOrder
  <2>. QED
    BY <2>1 DEF FifoInv
<1>3. ASSUME Len(queued) - Len(taken) = NIDECMD PROVE FALSE
  <2> DEFINE i == Len(taken) + 1
  <2>1. i \in Len(taken) + 1 .. Len(queued) /\ i - 1 = Len(taken)
    BY <1>1, <1>3, Parameters
  <2>2. SlotOf(i - 1) = slot[p]
    <3>1. Len(taken) < Len(queued) /\ Len(queued) - Len(taken) = NIDECMD
      BY <1>1, <1>3, Parameters
    <3>2. SlotOf(Len(taken)) = SlotOf(Len(queued))
      BY <1>1, <3>1, SlotOrder, Zenon
    <3>. QED
      BY <1>2, <2>1, <3>2
  <2>. HIDE DEF i
  <2>3. cmd_queue[slot[p]] = queued[i] \/ \E q \in Process : pc[q] = "fill" /\ slot[q] = slot[p]
    BY <2>1, <2>2 DEF FifoInv, Claims
  <2>. QED
    BY <2>1, <2>3, Free DEF Entering
<1>. QED
  BY <1>1, <1>2, <1>3, Parameters DEF FifoInv

(* The queue, when the head is stepped. *)
LEMMA FifoHead ==
    ASSUME TypeInv, OnceInv, FifoInv, NEW p \in Process, StepHead(p)
    PROVE  FifoInv'
<1>. SUFFICES ASSUME Ordered' PROVE FifoInv'
  BY DEF FifoInv
<1> DEFINE k == Len(queued)
<1>0. NIDECMD \in Nat /\ NIDECMD > 0
  BY Parameters
<1>1. /\ k \in Nat /\ Len(taken) \in Nat /\ Len(queued') = k + 1
      /\ \A i \in 1 .. k : queued'[i] = queued[i]
      /\ queued'[k + 1] = cmd[p]
      /\ UNCHANGED <<taken, cmdq_tail, cmd_queue, slot, cmd>>
      /\ cmdq_head' = Byte(slot[p] + 1)
  BY DEF StepHead, TypeInv, TypeOK, HeldInv
<1>2. /\ Ordered /\ Without({"race"}) /\ ~Stale(p) /\ ~Full(p)
      /\ pc[p] \in {"put", "step"}
  BY DEF StepHead, At, Without, Ordered
<1>3. /\ pc'[p] = (IF pc[p] = "put" THEN "fill" ELSE "wrap")
      /\ \A q \in Process \ {p} : pc'[q] = pc[q]
  BY DEF StepHead, Goto, TypeInv, TypeOK
<1>4. slot[p] = cmdq_head /\ slot[p] \in Slots /\ cmdq_head' = slot[p] + 1
  BY <1>1, <1>2, HeadPlace
<1>5. k - Len(taken) < NIDECMD /\ slot[p] = SlotOf(k)
  BY <1>2, <1>4, Room
<1>6. /\ Len(taken) <= k
      /\ \A i \in 1 .. Len(taken) : taken[i] = queued[i]
      /\ SlotOf(cmdq_head) = SlotOf(k)
      /\ SlotOf(cmdq_tail) = SlotOf(Len(taken))
      /\ \A i \in Len(taken) + 1 .. k :
            cmd_queue[SlotOf(i - 1)] = queued[i] \/ \E q \in Process : Claims(q, i)
      /\ \A q \in Process : pc[q] = "fill" => \E i \in Len(taken) + 1 .. k : Claims(q, i)
      /\ \A q \in Process :
              pc[q] = "step" => /\ slot[q] \in Slots /\ cmd_queue[slot[q]] = cmd[q]
                                /\ \A r \in Process : pc[r] = "fill" => slot[r] # slot[q]
  BY <1>2 DEF FifoInv
<1>. HIDE DEF k
<1>7. SlotOf(cmdq_head') = SlotOf(k + 1)
  <2>1. cmdq_head \in Nat
    BY <1>4, <1>0 DEF Slots
  <2>2. cmdq_head' = cmdq_head + 1
    BY <1>4
  <2>3. k \in Nat /\ SlotOf(cmdq_head) = SlotOf(k)
    BY <1>1, <1>6
  <2>4. SlotOf(cmdq_head + 1) = SlotOf(k + 1)
    BY <2>1, <2>3, SlotOrder, Zenon
  <2>. QED
    BY <2>2, <2>4
<1>8. ASSUME NEW q \in Process, NEW i \in Len(taken) + 1 .. k, Claims(q, i)
      PROVE  Claims(q, i)' /\ q # p
  BY <1>1, <1>2, <1>3, <1>8 DEF Claims
<1>9. ASSUME NEW i \in Nat, i = k + 1, pc[p] = "put" PROVE Claims(p, i)'
  <2>1. i - 1 = k
    BY <1>1, <1>9
  <2>. QED
    BY <1>1, <1>3, <1>5, <1>9, <2>1 DEF Claims
<1>10. ASSUME NEW i \in Len(taken) + 1 .. k + 1
      PROVE  cmd_queue'[SlotOf(i - 1)] = queued'[i] \/ \E q \in Process : Claims(q, i)'
  <2>1. CASE i = k + 1
    <3>1. CASE pc[p] = "put"
      BY <1>1, <1>9, <2>1, <3>1
    <3>2. CASE pc[p] = "step"
      <4>1. i - 1 = k /\ cmd_queue[slot[p]] = cmd[p]
        BY <1>1, <1>6, <2>1, <3>2
      <4>. QED
        BY <1>1, <1>5, <2>1, <4>1
    <3>. QED
      BY <1>2, <3>1, <3>2
  <2>2. CASE i # k + 1
    <3>1. i \in Len(taken) + 1 .. k /\ i \in 1 .. k
      BY <1>1, <1>10, <2>2
    <3>2. queued'[i] = queued[i]
      BY <1>1, <3>1
    <3>3. CASE cmd_queue[SlotOf(i - 1)] = queued[i]
      BY <1>1, <3>2, <3>3
    <3>4. ASSUME NEW q \in Process, Claims(q, i) PROVE Claims(q, i)'
      BY <1>8, <3>1, <3>4
    <3>. QED
      BY <1>6, <3>1, <3>3, <3>4
  <2>. QED
    BY <2>1, <2>2
<1>11. ASSUME NEW q \in Process, pc'[q] = "fill"
       PROVE  \E i \in Len(taken) + 1 .. k + 1 : Claims(q, i)'
  <2>1. CASE q = p
    <3>1. pc[p] = "put"
      BY <1>3, <1>11, <2>1
    <3>2. PICK i \in Nat : i = k + 1
      BY <1>1
    <3>3. i \in Len(taken) + 1 .. k + 1
      BY <1>1, <1>6, <3>2
    <3>. QED
      BY <1>9, <2>1, <3>1, <3>2, <3>3
  <2>2. CASE q # p
    <3>1. PICK i \in Len(taken) + 1 .. k : Claims(q, i)
      BY <1>3, <1>6, <1>11, <2>2
    <3>2. i \in Len(taken) + 1 .. k + 1
      BY <1>1
    <3>. QED
      BY <1>8, <3>1, <3>2
  <2>. QED
    BY <2>1, <2>2
<1>12. ASSUME NEW q \in Process, pc'[q] = "step"
       PROVE  /\ slot'[q] \in Slots /\ cmd_queue'[slot'[q]] = cmd'[q]
              /\ \A r \in Process : pc'[r] = "fill" => slot'[r] # slot'[q]
  <2>1. q # p /\ pc[q] = "step" /\ Entering(q) /\ Entering(p)
    BY <1>2, <1>3, <1>12 DEF Entering
  <2>2. slot[q] # slot[p]
    BY <1>2, <1>4, <1>6, <2>1, Free
  <2>. QED
    BY <1>1, <1>3, <1>6, <2>1, <2>2
<1>. QED
  BY <1>0, <1>1, <1>5, <1>6, <1>7, <1>10, <1>11, <1>12 DEF FifoInv, k

(* The queue, when a slot is filled: one that was claimed, or a free one. *)
LEMMA FifoFill ==
    ASSUME TypeInv, OnceInv, FifoInv, NEW p \in Process, FillSlot(p)
    PROVE  FifoInv'
<1>. SUFFICES ASSUME Ordered' PROVE FifoInv'
  BY DEF FifoInv
<1>0. NIDECMD \in Nat /\ NIDECMD > 0
  BY Parameters
<1>1. /\ UNCHANGED <<taken, queued, cmdq_head, cmdq_tail, slot, cmd>>
      /\ cmd_queue' = IF slot[p] \in Slots THEN [cmd_queue EXCEPT ![slot[p]] = cmd[p]]
                                            ELSE cmd_queue
      /\ Len(taken) \in Nat /\ Len(queued) \in Nat /\ cmd_queue \in [Slots -> Int]
      /\ pc[p] \in {"put", "fill"}
      /\ pc'[p] = (IF pc[p] = "put" THEN "step" ELSE "wrap")
      /\ \A q \in Process \ {p} : pc'[q] = pc[q]
  BY DEF FillSlot, At, Goto, ghosts, TypeInv, TypeOK, HeldInv
<1>2. Ordered /\ Without({"race"}) /\ ~Full(p) /\ (pc[p] = "put" => ~Stale(p))
  BY DEF FillSlot, Without, Ordered
<1>3. /\ Len(queued) - Len(taken) <= NIDECMD
      /\ \A i \in Len(taken) + 1 .. Len(queued) :
            cmd_queue[SlotOf(i - 1)] = queued[i] \/ \E q \in Process : Claims(q, i)
      /\ \A q \in Process :
              pc[q] = "fill" => \E i \in Len(taken) + 1 .. Len(queued) : Claims(q, i)
      /\ \A q \in Process :
              pc[q] = "step" => /\ slot[q] \in Slots /\ cmd_queue[slot[q]] = cmd[q]
                                /\ \A r \in Process : pc[r] = "fill" => slot[r] # slot[q]
  BY <1>2 DEF FifoInv
<1>4. ASSUME /\ slot[p] \in Slots
             /\ \A i \in Len(taken) + 1 .. Len(queued) :
                   \/ cmd_queue'[SlotOf(i - 1)] = queued[i]
                   \/ \E q \in Process \ {p} : Claims(q, i)
             /\ \A q \in Process : pc[q] = "step" => slot[q] # slot[p]
             /\ pc[p] = "put" => \A q \in Process \ {p} : pc[q] = "fill" => slot[q] # slot[p]
      PROVE  FifoInv'
  <2>1. \A q \in Process \ {p}, i \in Len(taken) + 1 .. Len(queued) :
            Claims(q, i)' <=> Claims(q, i)
    BY <1>1 DEF Claims
  <2>2. ASSUME NEW q \in Process, pc'[q] = "fill"
        PROVE  \E i \in Len(taken) + 1 .. Len(queued) : Claims(q, i)'
    <3>1. q # p /\ pc[q] = "fill"
      BY <1>1, <2>2
    <3>. QED
      BY <1>3, <2>1, <3>1
  <2>3. ASSUME NEW q \in Process, pc'[q] = "step"
        PROVE  /\ slot[q] \in Slots /\ cmd_queue'[slot[q]] = cmd[q]
               /\ \A r \in Process : pc'[r] = "fill" => slot[r] # slot[q]
    <3>1. CASE q = p
      <4>1. pc[p] = "put" /\ cmd_queue'[slot[p]] = cmd[p]
        BY <1>1, <1>4, <2>3, <3>1
      <4>2. \A r \in Process : pc'[r] = "fill" => r # p /\ pc[r] = "fill"
        BY <1>1
      <4>. QED
        BY <1>4, <3>1, <4>1, <4>2
    <3>2. CASE q # p
      <4>1. pc[q] = "step" /\ slot[q] # slot[p]
        BY <1>1, <1>4, <2>3, <3>2
      <4>2. cmd_queue'[slot[q]] = cmd_queue[slot[q]] /\ slot[q] \in Slots
        BY <1>1, <1>3, <4>1
      <4>3. \A r \in Process : pc'[r] = "fill" => pc[r] = "fill"
        BY <1>1
      <4>. QED
        BY <1>3, <4>1, <4>2, <4>3
    <3>. QED
      BY <3>1, <3>2
  <2>4. \A i \in Len(taken) + 1 .. Len(queued) :
            cmd_queue'[SlotOf(i - 1)] = queued[i] \/ \E q \in Process : Claims(q, i)'
    BY <1>4, <2>1
  <2>. QED
    BY <1>1, <1>2, <2>2, <2>3, <2>4 DEF FifoInv
<1>5. CASE pc[p] = "put"
  <2>1. slot[p] \in Slots /\ Entering(p)
    BY <1>2, <1>5, HeadPlace DEF Entering
  <2>2. /\ \A i \in Len(taken) + 1 .. Len(queued) : cmd_queue[slot[p]] # queued[i]
        /\ \A q \in Process \ {p} : Entering(q) => cmd_queue[slot[p]] # cmd[q]
        /\ \A q \in Process \ {p} : pc[q] = "fill" => slot[q] # slot[p]
    BY <1>2, <2>1, Free
  <2>3. \A q \in Process : pc[q] = "step" => slot[q] # slot[p]
    BY <1>3, <1>5, <2>2 DEF Entering
  <2>4. ASSUME NEW i \in Len(taken) + 1 .. Len(queued)
        PROVE  cmd_queue'[SlotOf(i - 1)] = queued[i] \/ \E q \in Process \ {p} : Claims(q, i)
    <3>1. ~Claims(p, i)
      BY <1>5 DEF Claims
    <3>2. SlotOf(i - 1) \in Slots
      BY <1>1, SlotOrder
    <3>3. cmd_queue[SlotOf(i - 1)] = queued[i] => SlotOf(i - 1) # slot[p]
      BY <2>2
    <3>. QED
      BY <1>1, <1>3, <2>1, <3>1, <3>2, <3>3
  <2>. QED
    BY <1>4, <2>1, <2>2, <2>3, <2>4
<1>6. CASE pc[p] = "fill"
  <2>1. PICK j \in Len(taken) + 1 .. Len(queued) : Claims(p, j)
    BY <1>3, <1>6
  <2>2. slot[p] = SlotOf(j - 1) /\ slot[p] \in Slots /\ cmd[p] = queued[j]
    BY <1>1, <2>1, SlotOrder DEF Claims
  <2>3. \A q \in Process : pc[q] = "step" => slot[q] # slot[p]
    BY <1>3, <1>6
  <2>4. ASSUME NEW i \in Len(taken) + 1 .. Len(queued)
        PROVE  cmd_queue'[SlotOf(i - 1)] = queued[i] \/ \E q \in Process \ {p} : Claims(q, i)
    <3>1. CASE i = j
      BY <1>1, <2>2, <3>1
    <3>2. CASE i # j
      <4>1. SlotOf(i - 1) # slot[p] /\ SlotOf(i - 1) \in Slots
        <5>1. i - 1 \in Nat /\ j - 1 \in Nat
          BY <1>1
        <5>2. \/ i - 1 < j - 1 /\ (j - 1) - (i - 1) < NIDECMD
              \/ j - 1 < i - 1 /\ (i - 1) - (j - 1) < NIDECMD
          BY <1>0, <1>1, <1>3, <3>2
        <5>3. SlotOf(i - 1) # SlotOf(j - 1)
          BY <5>1, <5>2, SlotOrder
        <5>. QED
          BY <2>2, <5>1, <5>3, SlotOrder
      <4>2. ~Claims(p, i)
        BY <2>2, <4>1 DEF Claims
      <4>. QED
        BY <1>1, <1>3, <2>2, <4>1, <4>2
    <3>. QED
      BY <3>1, <3>2
  <2>. QED
    BY <1>4, <1>6, <2>2, <2>3, <2>4
<1>. QED
  BY <1>1, <1>5, <1>6

(* The queue, when one is taken out. *)
LEMMA FifoTake ==
    ASSUME TypeInv, FifoInv, NEW p \in Process, Take(p)
    PROVE  /\ FifoInv'
           /\ Ordered' =>
                 /\ Len(taken) < Len(queued) /\ cmd'[p] = queued[Len(taken) + 1]
                 /\ taken' = Append(taken, cmd'[p])
                 /\ slot[p] \in Slots /\ cmd_queue[slot[p]] = cmd'[p]
                 /\ cmdq_tail' = slot[p] + 1
<1>. SUFFICES ASSUME Ordered'
              PROVE  /\ FifoInv'
                     /\ Len(taken) < Len(queued) /\ cmd'[p] = queued[Len(taken) + 1]
                     /\ taken' = Append(taken, cmd'[p])
                     /\ slot[p] \in Slots /\ cmd_queue[slot[p]] = cmd'[p]
                     /\ cmdq_tail' = slot[p] + 1
  BY DEF FifoInv
<1> DEFINE k == Len(taken)
<1>0. NIDECMD \in Nat /\ NIDECMD > 0
  BY Parameters
<1>1. /\ k \in Nat /\ Len(queued) \in Nat /\ Len(taken') = k + 1
      /\ UNCHANGED <<queued, slot, cmdq_head, cmd_queue>>
      /\ \A i \in 1 .. k : taken'[i] = taken[i]
      /\ taken'[k + 1] = cmd'[p]
      /\ taken' = Append(taken, cmd'[p])
  BY DEF Take, TypeInv, TypeOK, HeldInv
<1>2. /\ Without({"race"})' /\ Ordered /\ ~Claimed(p)
      /\ ~(Len(taken) >= Len(queued))
  BY DEF Take, Without, Ordered
<1>3. slot[p] = cmdq_tail /\ slot[p] \in Slots /\ cmdq_tail' = slot[p] + 1
  BY <1>2, TakePlace
<1>4. cmd'[p] = cmd_queue[slot[p]] /\ pc[p] = "take"
  BY <1>3 DEF Take, At, Content, TypeInv, TypeOK
<1>5. /\ k < Len(queued) /\ Len(queued) - k <= NIDECMD
      /\ \A i \in 1 .. k : taken[i] = queued[i]
      /\ SlotOf(cmdq_head) = SlotOf(Len(queued))
      /\ SlotOf(cmdq_tail) = SlotOf(k)
      /\ \A i \in k + 1 .. Len(queued) :
            cmd_queue[SlotOf(i - 1)] = queued[i] \/ \E q \in Process : Claims(q, i)
      /\ \A q \in Process : pc[q] = "fill" => \E i \in k + 1 .. Len(queued) : Claims(q, i)
      /\ \A q \in Process :
              pc[q] = "step" => /\ slot[q] \in Slots /\ cmd_queue[slot[q]] = cmd[q]
                                /\ \A r \in Process : pc[r] = "fill" => slot[r] # slot[q]
  BY <1>1, <1>2 DEF FifoInv
<1>. HIDE DEF k
<1>6. cmdq_tail \in Nat /\ SlotOf(cmdq_tail) = cmdq_tail
  BY <1>0, <1>3, SlotOrder DEF Slots
<1>7. SlotOf(cmdq_tail') = SlotOf(k + 1)
  <2>1. cmdq_tail' = cmdq_tail + 1
    BY <1>3
  <2>2. k \in Nat /\ SlotOf(cmdq_tail) = SlotOf(k) /\ cmdq_tail \in Nat
    BY <1>1, <1>5, <1>6
  <2>3. SlotOf(cmdq_tail + 1) = SlotOf(k + 1)
    BY <2>2, SlotOrder, Zenon
  <2>. QED
    BY <2>1, <2>3
<1>8. ASSUME NEW q \in Process, Claims(q, k + 1) PROVE FALSE
  <2>1. (k + 1) - 1 = k
    BY <1>1
  <2>2. pc[q] = "fill" /\ slot[q] = SlotOf(k)
    BY <1>8, <2>1 DEF Claims
  <2>3. q # p /\ slot[q] = slot[p]
    BY <1>3, <1>4, <1>5, <1>6, <2>2
  <2>. QED
    BY <1>2, <2>2, <2>3 DEF Claimed
<1>9. cmd'[p] = queued[k + 1]
  <2>1. k + 1 \in k + 1 .. Len(queued) /\ (k + 1) - 1 = k
    BY <1>1, <1>5
  <2>. QED
    BY <1>3, <1>4, <1>5, <1>6, <1>8, <2>1
<1>10. /\ pc'[p] = "prev" /\ \A q \in Process \ {p} : pc'[q] = pc[q] /\ cmd'[q] = cmd[q]
  BY DEF Take, Goto, TypeInv, TypeOK
<1>11. \A q \in Process, i \in 1 .. Len(queued) : Claims(q, i)' <=> Claims(q, i)
  <2>. SUFFICES ASSUME NEW q \in Process, NEW i \in 1 .. Len(queued)
                PROVE  Claims(q, i)' <=> Claims(q, i)
    OBVIOUS
  <2>1. CASE q = p
    BY <1>4, <1>10, <2>1 DEF Claims
  <2>2. CASE q # p
    BY <1>1, <1>10, <2>2 DEF Claims
  <2>. QED
    BY <2>1, <2>2
<1>12. \A i \in (k + 1) + 1 .. Len(queued) :
            cmd_queue[SlotOf(i - 1)] = queued[i] \/ \E q \in Process : Claims(q, i)'
  <2>. SUFFICES ASSUME NEW i \in (k + 1) + 1 .. Len(queued)
                PROVE  \/ cmd_queue[SlotOf(i - 1)] = queued[i]
                       \/ \E q \in Process : Claims(q, i)'
    OBVIOUS
  <2>1. i \in k + 1 .. Len(queued) /\ i \in 1 .. Len(queued)
    BY <1>1
  <2>2. cmd_queue[SlotOf(i - 1)] = queued[i] \/ \E q \in Process : Claims(q, i)
    BY <1>5, <2>1
  <2>. QED
    BY <1>11, <2>1, <2>2
<1>13. ASSUME NEW q \in Process, pc'[q] = "fill"
       PROVE  \E i \in (k + 1) + 1 .. Len(queued) : Claims(q, i)'
  <2>1. PICK i \in k + 1 .. Len(queued) : Claims(q, i)
    BY <1>5, <1>10, <1>13
  <2>2. i # k + 1
    BY <1>8, <2>1
  <2>3. i \in (k + 1) + 1 .. Len(queued) /\ i \in 1 .. Len(queued)
    BY <1>1, <2>2
  <2>. QED
    BY <1>11, <2>1, <2>3
<1>14. \A q \in Process :
              pc'[q] = "step" => /\ slot[q] \in Slots /\ cmd_queue[slot[q]] = cmd'[q]
                                 /\ \A r \in Process : pc'[r] = "fill" => slot[r] # slot[q]
  BY <1>4, <1>5, <1>10
<1>15. \A i \in 1 .. k + 1 : taken'[i] = queued[i]
  BY <1>1, <1>5, <1>9
<1>16. FifoInv'
  BY <1>0, <1>1, <1>5, <1>7, <1>12, <1>13, <1>14, <1>15 DEF FifoInv, k
<1>. QED
  BY <1>1, <1>3, <1>4, <1>5, <1>9, <1>16 DEF k

(* Steps that are outside of the ring. *)
LEMMA FifoAside ==
    ASSUME TypeInv, FifoInv, mishap \subseteq mishap',
           UNCHANGED <<cmd_queue, queued, taken>>,
           SlotOf(cmdq_head') = SlotOf(cmdq_head), SlotOf(cmdq_tail') = SlotOf(cmdq_tail),
           \A p \in Process : /\ pc'[p] \in {"fill", "step"} <=> pc[p] \in {"fill", "step"}
                              /\ pc[p] \in {"fill", "step"} =>
                                   pc'[p] = pc[p] /\ cmd'[p] = cmd[p] /\ slot'[p] = slot[p]
    PROVE  FifoInv'
<1>. SUFFICES ASSUME Ordered' PROVE FifoInv'
  BY DEF FifoInv
<1>1. Ordered
  BY DEF Ordered, Without
<1>2. \A p \in Process, i \in 1 .. Len(queued) : Claims(p, i)' <=> Claims(p, i)
  BY DEF Claims
<1>3. Len(taken) \in Nat /\ Len(queued) \in Nat
  BY DEF TypeInv, HeldInv
<1>4. \A i \in Len(taken) + 1 .. Len(queued) : i \in 1 .. Len(queued)
  BY <1>3
<1>5. \A i \in Len(taken) + 1 .. Len(queued) :
            cmd_queue[SlotOf(i - 1)] = queued[i] \/ \E p \in Process : Claims(p, i)'
  BY <1>1, <1>2, <1>4 DEF FifoInv
<1>6. \A p \in Process :
            pc'[p] = "fill" => \E i \in Len(taken) + 1 .. Len(queued) : Claims(p, i)'
  BY <1>1, <1>2, <1>4 DEF FifoInv
<1>7. \A p \in Process :
            pc'[p] = "step" => /\ slot'[p] \in Slots /\ cmd_queue[slot'[p]] = cmd'[p]
                               /\ \A q \in Process : pc'[q] = "fill" => slot'[q] # slot'[p]
  BY <1>1 DEF FifoInv
<1>. QED
  BY <1>1, <1>5, <1>6, <1>7 DEF FifoInv

(* Every step. *)
LEMMA FifoStep == TypeInv /\ OnceInv /\ FifoInv /\ [Next]_vars => FifoInv'
<1>. SUFFICES ASSUME TypeInv, OnceInv, FifoInv, [Next]_vars PROVE FifoInv'
  OBVIOUS
<1>0. pc \in [Process -> Place] /\ slot \in [Process -> Nat]
      /\ cmd \in [Process -> 0 .. Len(cmds)] /\ Irq \in Process
  BY Parameters DEF TypeInv, TypeOK, HeldInv
<1>1. ASSUME NEW p \in Process, NEW c \in Calls, ide_call(p, c) PROVE FifoInv'
  BY <1>0, <1>1, FifoAside DEF ide_call, At, Goto, ring, ghosts
<1>2. ASSUME NEW p \in Process, LoadHead(p) \/ LoadTail(p) PROVE FifoInv'
  BY <1>0, <1>2, FifoAside DEF LoadHead, LoadTail, At, Goto, ring, ghosts
<1>3. ASSUME NEW p \in Process, Address(p) \/ Start(p) \/ SendData(p) PROVE FifoInv'
  BY <1>0, <1>3, FifoAside DEF Address, Start, SendData, At, Goto, ring, ghosts
<1>4. ASSUME Prepare \/ Finish \/ Program \/ UNCHANGED vars PROVE FifoInv'
  BY <1>0, <1>4, FifoAside DEF Prepare, Finish, Program, vars, ring, ghosts
<1>5. ASSUME ide_handle_irq PROVE FifoInv'
  BY <1>0, <1>5, FifoAside DEF ide_handle_irq, At, Goto, ring
<1>6. SlotOf(NIDECMD) = SlotOf(0)
  BY Parameters, SlotOrder
<1>7. ASSUME NEW p \in Process, WrapHead(p) \/ SetPrev(p) \/ WrapTail(p) PROVE FifoInv'
  <2>1. UNCHANGED <<cmd_queue, cmd, slot, queued, taken, mishap>>
    BY <1>7 DEF WrapHead, SetPrev, WrapTail, ghosts
  <2>2. /\ cmdq_head' = cmdq_head \/ (cmdq_head = NIDECMD /\ cmdq_head' = 0)
        /\ cmdq_tail' = cmdq_tail \/ (cmdq_tail = NIDECMD /\ cmdq_tail' = 0)
    BY <1>7 DEF WrapHead, SetPrev, WrapTail
  <2>3. SlotOf(cmdq_head') = SlotOf(cmdq_head) /\ SlotOf(cmdq_tail') = SlotOf(cmdq_tail)
    BY <1>6, <2>2
  <2>4. /\ pc[p] \notin {"fill", "step"} /\ pc'[p] \notin {"fill", "step"}
        /\ \A q \in Process \ {p} : pc'[q] = pc[q]
    BY <1>0, <1>7 DEF WrapHead, SetPrev, WrapTail, At, Goto
  <2>. QED
    BY <2>1, <2>3, <2>4, FifoAside
<1>. QED
  BY <1>1, <1>2, <1>3, <1>4, <1>5, <1>7, FifoHead, FifoFill, FifoTake DEF Next, ide_rdrw

(* The first state. *)
LEMMA FifoInit == Init => OnceInv /\ FifoInv
<1>. SUFFICES ASSUME Init PROVE OnceInv /\ FifoInv
  OBVIOUS
<1>1. /\ queued = <<>> /\ taken = <<>> /\ cmdq_head = 0 /\ cmdq_tail = 0
      /\ \A p \in Process : pc[p] = "idle"
  BY DEF Init
<1>. QED
  BY <1>1, Parameters DEF OnceInv, FifoInv, Entering

(* Commands leave the ring in the order in which they entered it, whoever takes
   them, in a ring of any length and any number of times around it, unless it
   is full, or asked when it is empty, or two callers meet in it. *)
THEOREM FirstIn == Spec => []FirstInFirstOut
<1>1. TypeInv /\ FifoInv => FirstInFirstOut
  BY DEF TypeInv, HeldInv, FifoInv, Ordered, FirstInFirstOut, IsPrefix
<1>. QED
  BY <1>1, TypeInit, TypeStep, FifoInit, OnceStep, FifoStep, PTL DEF Spec
-----------------------------------------------------------------------------
(* The command taken last has not had its interrupt. *)
Outstanding == taken # <<>> /\ Last(taken) \notin done

(* What the device has done is what the command says. *)
CarriedOut(c) == IF cmds[c].act = "IDECMD_RD" THEN device.data = disk[cmds[c].sect]
                                              ELSE cmds[c].buf = disk[cmds[c].sect]

(* The slot of the command taken last. *)
LastSlot(s) == s \in Slots /\ cmd_queue[s] = Last(taken)

(* One command is on its way at most: it is the one taken last, and it is with
   a process, or with the device, or an interrupt is pending for it.  As long
   as it is, it stays in its slot, where the handler looks for it. *)
OneInv ==
    /\ \A p, q \in Process : Active(p) /\ Active(q) => p = q
    /\ \A p \in Process : Active(p) => Outstanding /\ cmd[p] = Last(taken)
    /\ \A p \in Process : Active(p) /\ pc[p] # "data" => device.state = "ready"
    /\ \A p \in Process : pc[p] = "command" => sector = cmds[cmd[p]].sect
    /\ \A p \in Process : pc[p] = "data" => device.state \in {"prepare", "data"}
    /\ device.state \in {"prepare", "data"} => \E p \in Process : pc[p] = "data"
    /\ device.state # "ready" => Outstanding
    /\ irq /\ taken # <<>> => Outstanding
    /\ \A i \in 1 .. Len(taken) - 1 : taken[i] \in done
    /\ done \subseteq ToSet(taken)
    /\ taken = <<>> => cmdq_tail_prev = -1
    /\ \A p \in Process : pc[p] = "prev" => cmdq_tail = slot[p] + 1 /\ LastSlot(slot[p])
    /\ Outstanding => LastSlot(cmdq_tail_prev) \/ \E p \in Process : pc[p] = "prev"

(* The device does what the command says. *)
DeviceInv ==
    LET c == Last(taken)
    IN  /\ device.state # "ready" => device.act = cmds[c].act /\ device.sect = cmds[c].sect
        /\ device.state \in {"prepare", "data"} => device.act = "IDECMD_WR"
        /\ device.state = "busy" /\ device.act = "IDECMD_WR" => device.data = cmds[c].buf
        /\ Outstanding /\ ~Underway => irq /\ CarriedOut(c)

WorkInv == mishap = {} => OneInv /\ DeviceInv

(* The command on its way is one. *)
LEMMA Current ==
    ASSUME TypeInv, FifoInv, mishap = {}, taken # <<>>
    PROVE  /\ Last(taken) \in 1 .. Len(cmds) /\ cmds[Last(taken)] \in Command
           /\ Last(taken) # Null /\ Len(taken) \in Nat /\ Len(taken) > 0
<1>1. Len(taken) \in Nat /\ Len(taken) > 0 /\ Len(queued) \in Nat
  BY DEF TypeInv, HeldInv
<1>2. Len(taken) \in 1 .. Len(taken) /\ Len(taken) <= Len(queued)
      /\ taken[Len(taken)] = queued[Len(taken)]
  BY <1>1 DEF FifoInv, Ordered, Without
<1>3. Last(taken) \in 1 .. Len(cmds)
  BY <1>1, <1>2 DEF Last, TypeInv, HeldInv
<1>. QED
  BY <1>1, <1>3 DEF TypeInv, TypeOK, Null

(* Steps that leave the ring's tail, the device and every command on its way
   where they are. *)
LEMMA WorkAside ==
    ASSUME TypeInv, FifoInv, WorkInv,
           UNCHANGED <<cmdq_tail, cmdq_tail_prev, sector, device, irq, disk, taken, done>>,
           \A p \in Process : pc[p] # pc'[p] => ~Active(p) /\ ~Active(p)',
           \A p \in Process : Active(p) => cmd'[p] = cmd[p] /\ slot'[p] = slot[p],
           \A c \in 1 .. Len(cmds) : cmds'[c] = cmds[c],
           mishap \subseteq mishap',
           mishap' = {} /\ Outstanding =>
              \A s \in Slots : cmd_queue[s] = Last(taken) => cmd_queue'[s] = cmd_queue[s]
    PROVE  WorkInv'
<1>. SUFFICES ASSUME mishap' = {} PROVE OneInv' /\ DeviceInv'
  BY DEF WorkInv
<1>1. mishap = {} /\ OneInv /\ DeviceInv
  BY DEF WorkInv
<1>2. \A p \in Process : Active(p)' <=> Active(p)
  BY DEF Active
<1>3. Outstanding' <=> Outstanding
  BY DEF Outstanding
<1>4. Last(taken)' = Last(taken)
  BY DEF Last
<1>5. taken # <<>> => Last(taken) \in 1 .. Len(cmds) /\ cmds'[Last(taken)] = cmds[Last(taken)]
  BY <1>1, Current
<1>6. ASSUME NEW p \in Process, pc'[p] = "command" PROVE sector' = cmds'[cmd'[p]].sect
  <2>1. pc[p] = "command" /\ cmd'[p] = cmd[p]
    BY <1>2, <1>6 DEF Active
  <2>2. cmd[p] = Last(taken) /\ taken # <<>>
    BY <1>1, <2>1 DEF OneInv, Active, Outstanding
  <2>. QED
    BY <1>1, <1>5, <2>1, <2>2 DEF OneInv
<1>7. \A p \in Process : /\ pc'[p] = "data" <=> pc[p] = "data"
                         /\ pc'[p] = "prev" <=> pc[p] = "prev"
  BY DEF Active
<1>8. \A s \in Slots : Outstanding /\ LastSlot(s) => cmd_queue'[s] = Last(taken)
  BY DEF LastSlot
<1>9. /\ \A p \in Process : pc'[p] = "prev" => cmdq_tail' = slot'[p] + 1 /\ LastSlot(slot[p])'
      /\ Outstanding => LastSlot(cmdq_tail_prev)' \/ \E p \in Process : pc'[p] = "prev"
  <2>1. ASSUME NEW p \in Process, pc'[p] = "prev"
        PROVE  cmdq_tail' = slot'[p] + 1 /\ LastSlot(slot[p])'
    <3>1. pc[p] = "prev" /\ Active(p) /\ slot'[p] = slot[p] /\ Outstanding
      BY <1>1, <1>7, <2>1 DEF Active, OneInv
    <3>. QED
      BY <1>1, <1>4, <1>8, <3>1 DEF OneInv, LastSlot
  <2>. QED
    BY <1>1, <1>4, <1>7, <1>8, <2>1 DEF OneInv, LastSlot
<1>10. OneInv'
  <2>1. /\ \A p, q \in Process : Active(p)' /\ Active(q)' => p = q
        /\ \A p \in Process : Active(p)' => Outstanding' /\ cmd'[p] = Last(taken)'
    BY <1>1, <1>2, <1>3, <1>4 DEF OneInv
  <2>3. /\ \A p \in Process : Active(p)' /\ pc'[p] # "data" => device'.state = "ready"
        /\ \A p \in Process : pc'[p] = "data" => device'.state \in {"prepare", "data"}
        /\ device'.state \in {"prepare", "data"} => \E p \in Process : pc'[p] = "data"
    <3>1. device' = device
      OBVIOUS
    <3>2. \A p \in Process : Active(p)' /\ pc'[p] # "data" => device.state = "ready"
      BY <1>1, <1>2, <1>7 DEF OneInv
    <3>3. \A p \in Process : pc'[p] = "data" => device.state \in {"prepare", "data"}
      BY <1>1, <1>7 DEF OneInv
    <3>4. device.state \in {"prepare", "data"} => \E p \in Process : pc'[p] = "data"
      BY <1>1, <1>7 DEF OneInv
    <3>. QED
      BY <3>1, <3>2, <3>3, <3>4
  <2>4. device'.state # "ready" => Outstanding'
    BY <1>1, <1>3 DEF OneInv
  <2>2. /\ irq' /\ taken' # <<>> => Outstanding'
        /\ \A i \in 1 .. Len(taken') - 1 : taken'[i] \in done'
        /\ done' \subseteq ToSet(taken')
        /\ taken' = <<>> => cmdq_tail_prev' = -1
    BY <1>1, <1>3 DEF OneInv
  <2>. QED
    BY <1>3, <1>6, <1>9, <2>1, <2>2, <2>3, <2>4 DEF OneInv
<1>11. Underway' <=> Underway
  BY <1>2 DEF Underway
<1>12. DeviceInv'
  BY <1>1, <1>3, <1>4, <1>5, <1>11 DEF DeviceInv, CarriedOut, OneInv, Outstanding
<1>. QED
  BY <1>10, <1>12

(* A command into the ring: not over the one on its way. *)
LEMMA WorkPut ==
    ASSUME TypeInv, FifoInv, WorkInv, NEW p \in Process, StepHead(p) \/ FillSlot(p)
    PROVE  WorkInv'
<1>1. /\ UNCHANGED <<cmdq_tail, cmdq_tail_prev, sector, device, irq, disk, taken, done, slot,
                     cmd, cmds>>
      /\ mishap \subseteq mishap' /\ pc[p] \in {"put", "step", "fill"}
      /\ pc'[p] \in {"fill", "step", "wrap"}
      /\ \A q \in Process \ {p} : pc'[q] = pc[q]
  BY DEF StepHead, FillSlot, At, Goto, hardware, ghosts, TypeInv, TypeOK
<1>2. \A q \in Process : pc[q] # pc'[q] => ~Active(q) /\ ~Active(q)'
  BY <1>1 DEF Active
<1>3. ASSUME mishap' = {}, Outstanding, NEW s \in Slots, cmd_queue[s] = Last(taken)
      PROVE  cmd_queue'[s] = cmd_queue[s]
  <2>1. Last(taken) \in ToSet(taken) \ (done \cup {Null})
    <3>1. taken # <<>> /\ mishap = {}
      BY <1>1, <1>3 DEF Outstanding
    <3>2. Len(taken) \in Nat /\ Len(taken) > 0 /\ Last(taken) # Null
      BY <3>1, Current
    <3>3. Len(taken) \in DOMAIN taken
      BY <3>2 DEF TypeInv, HeldInv
    <3>. QED
      BY <1>3, <3>2, <3>3 DEF Outstanding, ToSet, Last
  <2>2. CASE StepHead(p)
    BY <2>2 DEF StepHead
  <2>3. CASE FillSlot(p)
    <3>1. ~Reused(p)
      BY <1>3, <2>3 DEF FillSlot
    <3>2. s # slot[p]
      BY <1>3, <2>1, <3>1 DEF Reused, Content
    <3>. QED
      BY <2>3, <3>2 DEF FillSlot, TypeInv, TypeOK
  <2>. QED
    BY <2>2, <2>3
<1>. QED
  BY <1>1, <1>2, <1>3, WorkAside

(* The other steps outside of ide_rdrw's inner part. *)
LEMMA WorkOutside ==
    ASSUME TypeInv, FifoInv, WorkInv, NEW p \in Process,
           \/ \E c \in Calls : ide_call(p, c)
           \/ LoadHead(p) \/ WrapHead(p) \/ LoadTail(p)
    PROVE  WorkInv'
<1>1. /\ UNCHANGED <<cmd_queue, cmdq_tail, cmdq_tail_prev, sector, device, irq, disk, taken,
                     done, mishap>>
      /\ pc[p] \in {"idle", "head", "wrap", "tail"}
      /\ pc'[p] \in {"head", "put", "tail", "take"}
      /\ \A q \in Process \ {p} : pc'[q] = pc[q]
  BY DEF ide_call, LoadHead, WrapHead, LoadTail, At, Goto, ring, hardware, ghosts, TypeInv,
         TypeOK
<1>2. \A i \in 1 .. Len(cmds) : cmds'[i] = cmds[i]
  <2>1. cmds \in Seq(Command)
    BY DEF TypeInv, TypeOK
  <2>2. CASE UNCHANGED cmds
    BY <2>2
  <2>3. ASSUME NEW c \in Calls, ide_call(p, c) PROVE \A i \in 1 .. Len(cmds) : cmds'[i] = cmds[i]
    BY <2>1, <2>3, Parameters DEF ide_call
  <2>. QED
    BY <2>2, <2>3 DEF LoadHead, WrapHead, LoadTail
<1>3. ~Active(p) /\ ~Active(p)'
  BY <1>1 DEF Active
<1>4. \A q \in Process : Active(q) => cmd'[q] = cmd[q] /\ slot'[q] = slot[q]
  <2>1. \A q \in Process \ {p} : cmd'[q] = cmd[q] /\ slot'[q] = slot[q]
    BY DEF ide_call, LoadHead, WrapHead, LoadTail, TypeInv, TypeOK, HeldInv
  <2>. QED
    BY <1>3, <2>1
<1>5. \A q \in Process : pc[q] # pc'[q] => ~Active(q) /\ ~Active(q)'
  BY <1>1, <1>3
<1>. QED
  BY <1>1, <1>2, <1>4, <1>5, WorkAside

(* Taking a command, when none is on its way. *)
LEMMA WorkTake ==
    ASSUME TypeInv, OnceInv, FifoInv, WorkInv, NEW p \in Process, Take(p)
    PROVE  WorkInv'
<1>. SUFFICES ASSUME mishap' = {} PROVE OneInv' /\ DeviceInv'
  BY DEF WorkInv
<1>1. mishap = {} /\ OneInv /\ DeviceInv /\ ToSet(taken) \subseteq done
  BY DEF Take, WorkInv
<1>2. /\ UNCHANGED <<cmd_queue, cmdq_tail_prev, cmds, slot, sector, device, irq, disk, queued,
                     done>>
      /\ pc[p] = "take" /\ pc'[p] = "prev" /\ \A q \in Process \ {p} : pc'[q] = pc[q]
  BY DEF Take, At, Goto, hardware, TypeInv, TypeOK
<1>3. /\ Len(taken) < Len(queued) /\ cmd'[p] = queued[Len(taken) + 1]
      /\ taken' = Append(taken, cmd'[p])
      /\ slot[p] \in Slots /\ cmd_queue[slot[p]] = cmd'[p] /\ cmdq_tail' = slot[p] + 1
  BY FifoTake DEF Ordered, Without
<1>4. Len(taken) \in Nat /\ Len(queued) \in Nat /\ taken \in Seq(Int)
      /\ DOMAIN taken = 1 .. Len(taken)
  BY DEF TypeInv, HeldInv
<1>5. ~Outstanding
  BY <1>1, <1>4 DEF Outstanding, ToSet, Last
<1>6. device.state = "ready" /\ (\A q \in Process : ~Active(q)) /\ (irq => taken = <<>>)
  BY <1>1, <1>5 DEF OneInv
<1>7. /\ Len(taken') = Len(taken) + 1 /\ taken' # <<>> /\ Last(taken') = cmd'[p]
      /\ (\A i \in 1 .. Len(taken) : taken'[i] = taken[i])
      /\ DOMAIN taken' = 1 .. Len(taken) + 1
  BY <1>3, <1>4 DEF Last
<1>8. cmd'[p] \notin done
  <2>1. ASSUME cmd'[p] \in done PROVE FALSE
    <3>1. PICK i \in 1 .. Len(taken) : taken[i] = cmd'[p]
      BY <1>1, <1>4, <2>1 DEF OneInv, ToSet
    <3>2. taken[i] = queued[i] /\ i \in 1 .. Len(queued) /\ i # Len(taken) + 1
          /\ Len(taken) + 1 \in 1 .. Len(queued)
      BY <1>1, <1>3, <1>4 DEF FifoInv, Ordered, Without
    <3>. QED
      BY <1>3, <3>1, <3>2 DEF OnceInv
  <2>. QED
    BY <2>1
<1>9. Outstanding'
  BY <1>2, <1>7, <1>8 DEF Outstanding
<1>10. \A q \in Process : Active(q)' <=> q = p
  BY <1>2, <1>6 DEF Active
<1>11. \A q \in Process : /\ pc'[q] \notin {"command", "data"}
                          /\ pc'[q] = "prev" => q = p
  BY <1>2, <1>6 DEF Active
<1>12. /\ \A i \in 1 .. Len(taken') - 1 : taken'[i] \in done'
       /\ done' \subseteq ToSet(taken')
  <2>1. \A i \in 1 .. Len(taken) : taken[i] \in done
    BY <1>1, <1>4 DEF ToSet
  <2>2. ToSet(taken) \subseteq ToSet(taken')
    BY <1>4, <1>7 DEF ToSet
  <2>. QED
    BY <1>1, <1>2, <1>4, <1>7, <2>1, <2>2 DEF OneInv
<1>13. LastSlot(slot[p])' /\ cmdq_tail' = slot'[p] + 1
  BY <1>2, <1>3, <1>7 DEF LastSlot
<1>14. OneInv'
  <2>1. /\ \A q, r \in Process : Active(q)' /\ Active(r)' => q = r
        /\ \A q \in Process : Active(q)' => Outstanding' /\ cmd'[q] = Last(taken')
    BY <1>7, <1>9, <1>10
  <2>3. device'.state = "ready" /\ taken' # <<>>
    BY <1>2, <1>6, <1>7
  <2>2. /\ \A q \in Process : pc'[q] = "prev" => cmdq_tail' = slot'[q] + 1 /\ LastSlot(slot[q])'
        /\ \E q \in Process : pc'[q] = "prev"
    BY <1>2, <1>11, <1>13 DEF LastSlot
  <2>. QED
    BY <1>9, <1>11, <1>12, <2>1, <2>2, <2>3 DEF OneInv
<1>15. DeviceInv'
  BY <1>2, <1>6, <1>10 DEF DeviceInv, Underway
<1>. QED
  BY <1>14, <1>15

(* The steps of the process that has the command, up to the device. *)
LEMMA WorkActive ==
    ASSUME TypeInv, FifoInv, WorkInv, NEW p \in Process,
           SetPrev(p) \/ WrapTail(p) \/ Address(p) \/ Start(p) \/ SendData(p)
    PROVE  WorkInv'
<1>. SUFFICES ASSUME mishap' = {} PROVE OneInv' /\ DeviceInv'
  BY DEF WorkInv
<1>1. /\ UNCHANGED <<cmd_queue, cmds, slot, cmd, irq, disk, taken, done>>
      /\ mishap \subseteq mishap'
  BY DEF SetPrev, WrapTail, Address, Start, SendData, ring, hardware, ghosts
<1>2. OneInv /\ DeviceInv /\ mishap = {}
  BY <1>1 DEF WorkInv
<1>3. Active(p) /\ pc \in [Process -> Place] /\ device \in Device
  BY DEF SetPrev, WrapTail, Address, Start, SendData, At, Active, TypeInv, TypeOK
<1>4. /\ \A q \in Process \ {p} : ~Active(q)
      /\ Outstanding /\ cmd[p] = Last(taken)
      /\ pc[p] # "data" => device.state = "ready"
  BY <1>2, <1>3 DEF OneInv
<1>5. cmd[p] # Null /\ cmds[cmd[p]] \in Command
  BY <1>2, <1>4, Current DEF Outstanding
<1>6. Outstanding' /\ Last(taken') = Last(taken)
  BY <1>1, <1>4 DEF Outstanding
<1>7. /\ \A q \in Process \ {p} : pc'[q] = pc[q]
      /\ \A q \in Process \ {p} : ~Active(q)'
  BY <1>3, <1>4 DEF SetPrev, WrapTail, Address, Start, SendData, Goto, Active
<1>8. /\ \A q \in Process : pc'[q] \in {"prev", "command", "data"} => q = p
      /\ \A q \in Process : pc[q] \in {"prev", "command", "data"} => q = p
  BY <1>4, <1>7 DEF Active
<1>9. ASSUME pc[p] # "prev" PROVE LastSlot(cmdq_tail_prev)
  BY <1>2, <1>4, <1>8, <1>9 DEF OneInv
<1>10. ASSUME UNCHANGED cmdq_tail_prev PROVE LastSlot(cmdq_tail_prev)' <=> LastSlot(cmdq_tail_prev)
  BY <1>1, <1>6, <1>10 DEF LastSlot
<1>11. taken' # <<>> /\ taken # <<>>
  BY <1>4, <1>6 DEF Outstanding
<1>12. CASE SetPrev(p)
  <2>1. pc[p] = "prev" /\ pc'[p] = "twrap" /\ UNCHANGED <<sector, device>>
        /\ cmdq_tail_prev' = cmdq_tail - 1
    BY <1>3, <1>12 DEF SetPrev, At, Goto, hardware
  <2>2. LastSlot(cmdq_tail_prev)'
    <3>1. cmdq_tail = slot[p] + 1 /\ LastSlot(slot[p]) /\ slot[p] \in Nat
      BY <1>2, <2>1 DEF OneInv, TypeInv, HeldInv
    <3>. QED
      BY <1>1, <1>6, <2>1, <3>1 DEF LastSlot
  <2>3. OneInv'
    BY <1>1, <1>2, <1>4, <1>6, <1>7, <1>8, <1>11, <2>1, <2>2 DEF OneInv
  <2>4. DeviceInv'
    BY <1>4, <2>1 DEF DeviceInv, Underway, Active
  <2>. QED
    BY <2>3, <2>4
<1>13. CASE WrapTail(p)
  <2>1. pc[p] = "twrap" /\ pc'[p] = "wait" /\ UNCHANGED <<cmdq_tail_prev, sector, device>>
    BY <1>3, <1>5, <1>13 DEF WrapTail, At, Goto, hardware
  <2>2. OneInv'
    BY <1>1, <1>2, <1>4, <1>6, <1>7, <1>8, <1>9, <1>10, <1>11, <2>1 DEF OneInv
  <2>3. DeviceInv'
    BY <1>4, <2>1 DEF DeviceInv, Underway, Active
  <2>. QED
    BY <2>2, <2>3
<1>14. CASE Address(p)
  <2>1. pc[p] = "wait" /\ pc'[p] = "command" /\ UNCHANGED <<cmdq_tail, cmdq_tail_prev, device>>
        /\ sector' = cmds[cmd[p]].sect
    BY <1>3, <1>14 DEF Address, At, Goto, ring
  <2>2. OneInv'
    BY <1>1, <1>2, <1>4, <1>6, <1>7, <1>8, <1>9, <1>10, <1>11, <2>1 DEF OneInv
  <2>3. DeviceInv'
    BY <1>4, <2>1 DEF DeviceInv, Underway, Active
  <2>. QED
    BY <2>2, <2>3
<1>15. CASE Start(p)
  <2> DEFINE act == cmds[cmd[p]].act
  <2>1. /\ pc[p] = "command" /\ UNCHANGED <<cmdq_tail, cmdq_tail_prev, sector>>
        /\ pc'[p] = (IF act = "IDECMD_WR" THEN "data" ELSE "idle")
        /\ device'.act = act /\ device'.sect = sector
        /\ device'.state = (IF act = "IDECMD_WR" THEN "prepare" ELSE "busy")
    BY <1>3, <1>4, <1>15 DEF Start, At, Goto, ring, Device
  <2>2. sector = cmds[cmd[p]].sect
    BY <1>2, <2>1 DEF OneInv
  <2>. HIDE DEF act
  <2>3. OneInv'
    BY <1>1, <1>2, <1>4, <1>6, <1>7, <1>8, <1>9, <1>10, <1>11, <2>1 DEF OneInv, Active
  <2>4. DeviceInv'
    BY <1>1, <1>4, <1>6, <2>1, <2>2 DEF DeviceInv, Underway, act
  <2>. QED
    BY <2>3, <2>4
<1>16. CASE SendData(p)
  <2>1. /\ pc[p] = "data" /\ pc'[p] = "idle" /\ UNCHANGED <<cmdq_tail, cmdq_tail_prev, sector>>
        /\ device.state = "data"
        /\ device' = [device EXCEPT !.state = "busy", !.data = cmds[cmd[p]].buf]
    BY <1>3, <1>16 DEF SendData, At, Goto, ring
  <2>2. device'.state = "busy" /\ device'.act = device.act /\ device'.sect = device.sect
        /\ device'.data = cmds[cmd[p]].buf
    BY <1>3, <2>1 DEF Device
  <2>3. OneInv'
    BY <1>1, <1>2, <1>4, <1>6, <1>7, <1>8, <1>9, <1>10, <1>11, <2>1, <2>2 DEF OneInv, Active
  <2>4. DeviceInv'
    BY <1>1, <1>2, <1>4, <1>6, <2>1, <2>2 DEF DeviceInv, Underway
  <2>. QED
    BY <2>3, <2>4
<1>. QED
  BY <1>12, <1>13, <1>14, <1>15, <1>16

(* The device asks for data, and the first program runs. *)
LEMMA WorkPrepare ==
    ASSUME TypeInv, FifoInv, WorkInv, Prepare \/ Program
    PROVE  WorkInv'
<1>1. CASE Program
  BY <1>1, WorkAside DEF Program, ring, ghosts, Active
<1>2. CASE Prepare
  <2>. SUFFICES ASSUME mishap' = {} PROVE OneInv' /\ DeviceInv'
    BY DEF WorkInv
  <2>1. /\ UNCHANGED <<cmd_queue, cmdq_tail, cmdq_tail_prev, cmds, pc, slot, cmd, sector, irq,
                       disk, taken, done, mishap>>
        /\ device.state = "prepare" /\ device' = [device EXCEPT !.state = "data"]
    BY <1>2 DEF Prepare, ring, ghosts
  <2>2. OneInv /\ DeviceInv /\ mishap = {} /\ device \in Device
    BY <2>1 DEF WorkInv, TypeInv, TypeOK
  <2>3. device'.state = "data" /\ device'.act = device.act /\ device'.sect = device.sect
    BY <2>1, <2>2 DEF Device
  <2>4. \A q \in Process : Active(q)' <=> Active(q)
    BY <2>1 DEF Active
  <2>5. (Outstanding' <=> Outstanding) /\ Last(taken') = Last(taken)
        /\ \A s : LastSlot(s)' <=> LastSlot(s)
    BY <2>1 DEF Outstanding, LastSlot
  <2>6. OneInv'
    BY <2>1, <2>2, <2>3, <2>4, <2>5 DEF OneInv, LastSlot
  <2>7. DeviceInv'
    BY <2>1, <2>2, <2>3, <2>5 DEF DeviceInv, Underway
  <2>. QED
    BY <2>6, <2>7
<1>. QED
  BY <1>1, <1>2

(* The device finishes. *)
LEMMA WorkFinish ==
    ASSUME TypeInv, FifoInv, WorkInv, Finish
    PROVE  WorkInv'
<1>. SUFFICES ASSUME mishap' = {} PROVE OneInv' /\ DeviceInv'
  BY DEF WorkInv
<1>1. /\ UNCHANGED <<cmd_queue, cmdq_tail, cmdq_tail_prev, cmds, pc, slot, cmd, sector, taken,
                     done, mishap>>
      /\ device.state = "busy" /\ irq' = TRUE
  BY DEF Finish, ring, ghosts
<1>2. OneInv /\ DeviceInv /\ mishap = {}
  BY <1>1 DEF WorkInv
<1>3. Outstanding /\ \A q \in Process : ~Active(q)
  <2>1. \A q \in Process : pc[q] # "data"
    BY <1>1, <1>2 DEF OneInv
  <2>. QED
    BY <1>1, <1>2, <2>1 DEF OneInv
<1>4. Outstanding' /\ Last(taken') = Last(taken) /\ \A q \in Process : ~Active(q)'
  BY <1>1, <1>3 DEF Outstanding, Active
<1> DEFINE c == Last(taken)
<1>5. /\ device.act = cmds[c].act /\ device.sect = cmds[c].sect
      /\ device.act = "IDECMD_WR" => device.data = cmds[c].buf
      /\ cmds[c] \in Command
  BY <1>1, <1>2, <1>3, Current DEF DeviceInv, Outstanding
<1>6. device \in Device /\ disk \in [Sectors -> Values]
  BY DEF TypeInv, TypeOK
<1>7. device'.state = "ready"
  BY <1>6 DEF Finish, Device
<1>8. CarriedOut(c)'
  <2>1. CASE device.act = "IDECMD_RD"
    <3>1. device'.data = disk[device.sect] /\ disk' = disk
      BY <1>6, <2>1 DEF Finish, Device
    <3>. QED
      BY <1>1, <1>5, <2>1, <3>1 DEF CarriedOut
  <2>2. CASE device.act = "IDECMD_WR"
    <3>1. disk' = [disk EXCEPT ![device.sect] = device.data]
      BY <2>2 DEF Finish
    <3>. QED
      BY <1>1, <1>5, <1>6, <2>2, <3>1 DEF CarriedOut, Device
  <2>. QED
    BY <1>6, <2>1, <2>2 DEF Act, Device
<1>9. LastSlot(cmdq_tail_prev)'
  BY <1>1, <1>2, <1>3 DEF OneInv, LastSlot, Active
<1>10. OneInv'
  BY <1>1, <1>2, <1>4, <1>7, <1>9 DEF OneInv, Active
<1>11. DeviceInv'
  BY <1>1, <1>4, <1>7, <1>8 DEF DeviceInv
<1>. QED
  BY <1>10, <1>11

(* The handler finds the command that the device has carried out, unless the
   interrupt is from before the first. *)
LEMMA HandlerFinds ==
    ASSUME TypeInv, FifoInv, WorkInv, ide_handle_irq, mishap' = {}
    PROVE  \/ cmdq_tail_prev = -1 /\ UNCHANGED <<cmds, done, pc>>
           \/ LET c == Last(taken)
              IN  /\ Outstanding /\ ~Underway /\ CarriedOut(c)
                  /\ c \in 1 .. Len(cmds) /\ cmds[c] \in Command
                  /\ cmds' = IF cmds[c].act = "IDECMD_RD"
                               THEN [cmds EXCEPT ![c].buf = device.data] ELSE cmds
                  /\ done' = done \cup {c} /\ pc' = [pc EXCEPT ![Irq] = "tail"]
<1>1. mishap = {} /\ OneInv /\ DeviceInv /\ irq
  <2>1. mishap \subseteq mishap' /\ irq
    BY DEF ide_handle_irq
  <2>. QED
    BY <2>1 DEF WorkInv
<1>2. CASE cmdq_tail_prev = -1
  BY <1>2 DEF ide_handle_irq
<1>3. CASE cmdq_tail_prev # -1
  <2>1. taken # <<>> /\ ~Underway /\ Outstanding
    BY <1>1, <1>3 DEF OneInv, ide_handle_irq
  <2>2. LastSlot(cmdq_tail_prev)
    BY <1>1, <2>1 DEF OneInv, Underway, Active
  <2>3. Content(cmdq_tail_prev) = Last(taken)
    BY <2>2 DEF LastSlot, Content
  <2>4. Last(taken) # Null /\ Last(taken) \in 1 .. Len(cmds) /\ cmds[Last(taken)] \in Command
    BY <1>1, <2>1, Current
  <2>5. CarriedOut(Last(taken))
    BY <1>1, <2>1 DEF DeviceInv
  <2>6. ~(cmds[Last(taken)].act = "IDECMD_RD" /\ ~es)
    BY <1>3, <2>3, <2>4 DEF ide_handle_irq
  <2>7. /\ cmds' = IF cmds[Last(taken)].act = "IDECMD_RD"
                     THEN [cmds EXCEPT ![Last(taken)].buf = device.data] ELSE cmds
        /\ done' = done \cup {Last(taken)} /\ pc' = [pc EXCEPT ![Irq] = "tail"]
    BY <1>3, <2>3, <2>4, <2>6 DEF ide_handle_irq, Goto
  <2>. QED
    BY <2>1, <2>4, <2>5, <2>7
<1>. QED
  BY <1>2, <1>3

(* And then the command is done. *)
LEMMA WorkIrq ==
    ASSUME TypeInv, FifoInv, WorkInv, ide_handle_irq
    PROVE  WorkInv'
<1>. SUFFICES ASSUME mishap' = {} PROVE OneInv' /\ DeviceInv'
  BY DEF WorkInv
<1>1. /\ UNCHANGED <<cmd_queue, cmdq_tail, cmdq_tail_prev, slot, cmd, sector, device, disk, taken>>
      /\ irq' = FALSE /\ irq /\ pc[Irq] = "idle" /\ mishap \subseteq mishap'
  BY DEF ide_handle_irq, ring, At
<1>2. OneInv /\ DeviceInv /\ mishap = {}
  BY <1>1 DEF WorkInv
<1>3. CASE cmdq_tail_prev = -1 /\ UNCHANGED <<cmds, done, pc>>
  <2>1. (Outstanding' <=> Outstanding) /\ (LastSlot(cmdq_tail_prev)' <=> LastSlot(cmdq_tail_prev))
        /\ \A q \in Process : LastSlot(slot[q])' <=> LastSlot(slot[q])
    BY <1>1, <1>3 DEF Outstanding, LastSlot
  <2>2. Outstanding => Underway
    BY <1>2, <1>3, Parameters DEF OneInv, LastSlot, Slots, Underway, Active
  <2>3. \A q \in Process : Active(q)' <=> Active(q)
    BY <1>3 DEF Active
  <2>4. OneInv'
    BY <1>1, <1>2, <1>3, <2>1, <2>3 DEF OneInv
  <2>5. DeviceInv'
    BY <1>1, <1>2, <1>3, <2>1, <2>2, <2>3 DEF DeviceInv, Underway
  <2>. QED
    BY <2>4, <2>5
<1>4. ASSUME Outstanding, ~Underway, Last(taken) \in 1 .. Len(cmds),
             done' = done \cup {Last(taken)}, pc' = [pc EXCEPT ![Irq] = "tail"]
      PROVE  OneInv' /\ DeviceInv'
  <2>1. ~Outstanding' /\ device'.state = "ready"
    BY <1>1, <1>4 DEF Outstanding, Underway
  <2>2. \A q \in Process : ~Active(q)'
    BY <1>1, <1>4 DEF Active, Underway, TypeInv, TypeOK
  <2>3. done' \subseteq ToSet(taken') /\ \A i \in 1 .. Len(taken') - 1 : taken'[i] \in done'
    <3>1. taken # <<>> /\ taken \in Seq(Int)
      BY <1>4 DEF Outstanding, TypeInv, HeldInv
    <3>2. Last(taken) \in ToSet(taken)
      BY <3>1 DEF Last, ToSet
    <3>. QED
      BY <1>1, <1>2, <1>4, <3>2 DEF OneInv
  <2>4. taken' # <<>>
    BY <1>1, <1>4 DEF Outstanding
  <2>. QED
    BY <1>1, <2>1, <2>2, <2>3, <2>4 DEF OneInv, DeviceInv, Active
<1>. QED
  BY <1>3, <1>4, HandlerFinds

(* Every step. *)
LEMMA WorkStep == TypeInv /\ OnceInv /\ FifoInv /\ WorkInv /\ [Next]_vars => WorkInv'
<1>1. ASSUME WorkInv, UNCHANGED vars PROVE WorkInv'
  BY <1>1 DEF vars, ring, hardware, ghosts, WorkInv, OneInv, DeviceInv, Active, Outstanding,
              LastSlot, Underway, CarriedOut
<1>. QED
  BY <1>1, WorkPut, WorkOutside, WorkTake, WorkActive, WorkPrepare, WorkFinish, WorkIrq
     DEF Next, ide_rdrw

(* The first state. *)
LEMMA WorkInit == Init => WorkInv
<1>. SUFFICES ASSUME Init PROVE OneInv /\ DeviceInv
  BY DEF WorkInv
<1>1. /\ taken = <<>> /\ done = {} /\ cmdq_tail_prev = -1 /\ device.state = "ready"
      /\ \A p \in Process : pc[p] = "idle"
  BY DEF Init, Ready
<1>2. ~Outstanding
  BY <1>1 DEF Outstanding
<1>. QED
  BY <1>1, <1>2 DEF OneInv, DeviceInv, Active, ToSet

(* When the handler has been there every command taken is done: the disk is
   what the command makes of it, and a read's buffer has what is on the disk,
   with any number of calls, as long as none of the mishaps has happened. *)
THEOREM WorkIsDone == Spec => CommandsDoTheirWork
<1> DEFINE Done == mishap' = {} =>
             /\ \A c \in done' \ done : cmds'[c].buf = disk[cmds[c].sect]
             /\ irq /\ ~irq' /\ cmdq_tail_prev # -1 => ToSet(taken) \subseteq done'
<1>1. TypeInv /\ FifoInv /\ WorkInv /\ [Next]_vars => [Done]_vars
  <2>. SUFFICES ASSUME TypeInv, FifoInv, WorkInv, Next, mishap' = {}
                PROVE  Done
    OBVIOUS
  <2>1. CASE ~ide_handle_irq
    <3>1. done' = done /\ (irq' = irq \/ irq' = TRUE)
      BY <2>1 DEF Next, ide_rdrw, ide_call, LoadHead, StepHead, FillSlot, WrapHead, LoadTail,
                  Take, SetPrev, WrapTail, Address, Start, SendData, Prepare, Finish, Program,
                  ghosts, hardware
    <3>. QED
      BY <3>1
  <2>2. CASE ide_handle_irq
    <3>1. CASE cmdq_tail_prev = -1 /\ UNCHANGED done
      BY <3>1
    <3>2. CASE ~(cmdq_tail_prev = -1 /\ UNCHANGED done)
      <4> DEFINE c == Last(taken)
      <4>1. /\ CarriedOut(c) /\ c \in 1 .. Len(cmds) /\ cmds[c] \in Command /\ Outstanding
            /\ cmds' = IF cmds[c].act = "IDECMD_RD"
                         THEN [cmds EXCEPT ![c].buf = device.data] ELSE cmds
            /\ done' = done \cup {c}
        BY <2>2, <3>2, HandlerFinds
      <4>2. cmds \in Seq(Command)
        BY DEF TypeInv, TypeOK
      <4>3. cmds'[c].buf = disk[cmds[c].sect]
        BY <4>1, <4>2 DEF CarriedOut, Command
      <4>4. ToSet(taken) \subseteq done'
        <5>1. OneInv /\ taken \in Seq(Int) /\ Len(taken) \in Nat
          BY <2>2 DEF ide_handle_irq, WorkInv, TypeInv, HeldInv
        <5>2. \A i \in DOMAIN taken : i = Len(taken) \/ i \in 1 .. Len(taken) - 1
          BY <5>1
        <5>3. \A i \in DOMAIN taken : taken[i] \in done'
          BY <4>1, <5>1, <5>2 DEF OneInv, Last
        <5>. QED
          BY <5>3 DEF ToSet
      <4>. HIDE DEF c
      <4>. QED
        BY <4>1, <4>3, <4>4
    <3>. QED
      BY <3>1, <3>2
  <2>. QED
    BY <2>1, <2>2
<1>. QED
  BY <1>1, TypeInit, TypeStep, FifoInit, OnceStep, FifoStep, WorkInit, WorkStep, PTL
     DEF Spec, CommandsDoTheirWork
=============================================================================
