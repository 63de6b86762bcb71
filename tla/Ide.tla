--------------------------------- MODULE Ide --------------------------------
(***************************************************************************)
(* The disk driver of src/ide.c: a ring of commands that ide_read and      *)
(* ide_write fill and ide_rdrw empties, called by them and by the          *)
(* interrupt handler.  The kernel has the handler in its interrupt path,   *)
(* and no caller of the other two yet; the clients stand for system calls, *)
(* which an interrupt, and so another system call, may come into.  The     *)
(* handler runs with interrupts off, beside nothing but the device.        *)
(*                                                                         *)
(* Every load and store of the ring's variables is a step of its own, in   *)
(* the order of the source, and in either order where C leaves it open.    *)
(* Commands are numbered as their frames are allocated; memory does not    *)
(* run out.  A sector, and a buffer, hold one value.                       *)
(***************************************************************************)
EXTENDS Integers, Sequences, SequencesExt

CONSTANTS NIDECMD,      \* slots of cmd_queue: 16 in the source
          Clients,      \* tasks in ide_read or ide_write
          Sectors, Values,
          Calls,        \* commands that a client may issue
          Disks,        \* what the disk may hold at first
          MaxCommands   \* bound: commands in one behaviour

Irq == "irq"            \* the handler, as a process beside the clients
Process == Clients \cup {Irq}
Slots == 0 .. NIDECMD - 1
Act == {"IDECMD_RD", "IDECMD_WR"}
Byte(n) == n % 256      \* cmdq_head and cmdq_tail are of type uint8_t
Null == 0               \* a slot that has not been filled yet
Command == [act : Act, sect : Sectors, buf : Values]

ASSUME IdeAssumption == /\ NIDECMD \in 1 .. 255 /\ MaxCommands \in Nat
                        /\ Irq \notin Clients
                        /\ Sectors # {} /\ Values # {}
                        /\ Calls \subseteq Command
                        /\ Disks \subseteq [Sectors -> Values]

VARIABLES
    cmd_queue, cmdq_head, cmdq_tail, cmdq_tail_prev,    \* the globals of ide.c
    cmds,       \* the commands allocated so far
    pc, slot, cmd,      \* of each process: place, index it has read, command
    es,         \* the segment of string input is the kernel's, and not null
    sector,     \* the device's address registers
    device,     \* what it is doing, with the data it has
    irq,        \* its interrupt is pending
    disk,       \* the contents of each sector
    queued, taken,      \* ghost: commands in the order of entering and leaving
    done,       \* ghost: commands whose interrupt has been handled
    mishap      \* ghost: the unsafe things that have happened so far

ring == <<cmd_queue, cmdq_head, cmdq_tail, cmdq_tail_prev>>
hardware == <<es, sector, device, irq, disk>>
ghosts == <<queued, taken, done>>
vars == <<ring, cmds, pc, slot, cmd, hardware, ghosts, mishap>>

Ready == [state |-> "ready", act |-> "IDECMD_RD",
          sect |-> CHOOSE s \in Sectors : TRUE, data |-> CHOOSE v \in Values : TRUE]

(* The device may have an interrupt left from before the kernel. *)
Init ==
    /\ cmd_queue = [s \in Slots |-> Null]
    /\ cmdq_head = 0 /\ cmdq_tail = 0 /\ cmdq_tail_prev = -1
    /\ cmds = <<>>
    /\ pc = [p \in Process |-> "idle"]
    /\ slot = [p \in Process |-> 0]
    /\ cmd = [p \in Process |-> Null]
    /\ es = TRUE
    /\ sector = Ready.sect /\ device = Ready
    /\ irq \in BOOLEAN
    /\ disk \in Disks
    /\ queued = <<>> /\ taken = <<>> /\ done = {}
    /\ mishap = {}

-----------------------------------------------------------------------------
(* A process is at a place in its code, and goes on from there.  A handler
   that faulted has not ended its interrupt, and none comes after it. *)
At(p, place) == /\ pc[p] = place
                /\ p # Irq => pc[Irq] \in {"idle", "fault"}
Goto(p, place) == pc' = [pc EXCEPT ![p] = place]

(* ide_read and ide_write up to the ring: a read's buffer, too, starts with
   the caller's bytes. *)
ide_call(p, c) ==
    /\ At(p, "idle") /\ p # Irq
    /\ Len(cmds) < MaxCommands
    /\ cmds' = Append(cmds, c)
    /\ cmd' = [cmd EXCEPT ![p] = Len(cmds')]
    /\ Goto(p, "head")
    /\ UNCHANGED <<ring, slot, hardware, ghosts, mishap>>

(* cmd_queue[cmdq_head++] = cmd: a load, and two stores whose order is the
   compiler's. *)
LoadHead(p) ==
    /\ At(p, "head")
    /\ slot' = [slot EXCEPT ![p] = cmdq_head]
    /\ Goto(p, "put")
    /\ UNCHANGED <<ring, cmds, cmd, hardware, ghosts, mishap>>

(* The index was read while another process had not wrapped it yet. *)
Beyond(p, places) == slot[p] \notin Slots /\ \E q \in Process \ {p} : pc[q] \in places

(* The slot is not where the head is. *)
Stale(p) == slot[p] # cmdq_head \/ Beyond(p, {"fill", "wrap"})

(* Another process has stepped the head past this slot, and not filled it. *)
Claimed(p) == \E q \in Process \ {p} : pc[q] = "fill" /\ slot[q] = slot[p]

(* cmd_queue[i]: what lies past the end is no command. *)
Content(i) == IF i \in Slots THEN cmd_queue[i] ELSE Null

(* The slot is another command's that has not left the ring. *)
Full(p) == Claimed(p) \/ Content(slot[p]) \notin {Null, cmd[p]} \cup ToSet(taken)

(* It is one that has left the ring and whose interrupt has not come. *)
Reused(p) == Content(slot[p]) \in ToSet(taken) \ (done \cup {Null})

(* The store to cmdq_head.  With another caller between the steps, the slot is
   one that it has claimed. *)
StepHead(p) ==
    /\ At(p, "put") \/ At(p, "step")
    /\ cmdq_head' = Byte(slot[p] + 1)
    /\ queued' = Append(queued, cmd[p])
    /\ mishap' = mishap
          \cup (IF Stale(p) THEN {"race"} ELSE {})
          \cup (IF Full(p) THEN {"full"} ELSE {})
    /\ Goto(p, IF pc[p] = "put" THEN "fill" ELSE "wrap")
    /\ UNCHANGED <<cmd_queue, cmdq_tail, cmdq_tail_prev, cmds, slot, cmd, hardware,
                   taken, done>>

(* The store to the slot, or past the end, where other variables lie. *)
FillSlot(p) ==
    /\ At(p, "put") \/ At(p, "fill")
    /\ cmd_queue' = IF slot[p] \in Slots THEN [cmd_queue EXCEPT ![slot[p]] = cmd[p]]
                                         ELSE cmd_queue
    /\ mishap' = mishap
          \cup (IF pc[p] = "put" /\ Stale(p) THEN {"race"} ELSE {})
          \cup (IF Full(p) THEN {"full"} ELSE {})
          \cup (IF Reused(p) THEN {"reused"} ELSE {})
    /\ Goto(p, IF pc[p] = "put" THEN "step" ELSE "wrap")
    /\ UNCHANGED <<cmdq_head, cmdq_tail, cmdq_tail_prev, cmds, slot, cmd, hardware, ghosts>>

(* Mutant of WrapHead: one slot late. *)
WrapHead_late(p) ==
    /\ At(p, "wrap")
    /\ cmdq_head' = IF cmdq_head = NIDECMD + 1 THEN 0 ELSE cmdq_head
    /\ Goto(p, "tail")
    /\ UNCHANGED <<cmd_queue, cmdq_tail, cmdq_tail_prev, cmds, slot, cmd,
                   hardware, ghosts, mishap>>

WrapHead(p) ==
    /\ At(p, "wrap")
    /\ cmdq_head' = IF cmdq_head = NIDECMD THEN 0 ELSE cmdq_head
    /\ Goto(p, "tail")
    /\ UNCHANGED <<cmd_queue, cmdq_tail, cmdq_tail_prev, cmds, slot, cmd,
                   hardware, ghosts, mishap>>

-----------------------------------------------------------------------------
(* ide_rdrw: cmd = cmd_queue[cmdq_tail++]. *)
LoadTail(p) ==
    /\ At(p, "tail")
    /\ slot' = [slot EXCEPT ![p] = cmdq_tail]
    /\ Goto(p, "take")
    /\ UNCHANGED <<ring, cmds, cmd, hardware, ghosts, mishap>>

(* It does not ask whether the ring has a command, nor whether the device has
   one whose interrupt is still to come. *)
Take(p) ==
    /\ At(p, "take")
    /\ cmd' = [cmd EXCEPT ![p] = Content(slot[p])]
    /\ cmdq_tail' = Byte(slot[p] + 1)
    /\ taken' = Append(taken, cmd'[p])
    /\ mishap' = mishap
          \cup (IF slot[p] # cmdq_tail \/ Beyond(p, {"prev", "twrap"}) THEN {"race"} ELSE {})
          \cup (IF Len(taken) >= Len(queued) THEN {"underrun"} ELSE {})
          \cup (IF Claimed(p) THEN {"unfilled"} ELSE {})
          \cup (IF ToSet(taken) \subseteq done THEN {} ELSE {"overtaken"})
    /\ Goto(p, "prev")
    /\ UNCHANGED <<cmd_queue, cmdq_head, cmdq_tail_prev, cmds, slot, hardware, queued, done>>

(* cmdq_tail_prev = cmdq_tail - 1: of the tail as it is by now. *)
SetPrev(p) ==
    /\ At(p, "prev")
    /\ cmdq_tail_prev' = cmdq_tail - 1
    /\ Goto(p, "twrap")
    /\ UNCHANGED <<cmd_queue, cmdq_head, cmdq_tail, cmds, slot, cmd, hardware, ghosts, mishap>>

(* Mutant of WrapTail: one slot late. *)
WrapTail_late(p) ==
    /\ At(p, "twrap")
    /\ cmdq_tail' = IF cmdq_tail = NIDECMD + 1 THEN 0 ELSE cmdq_tail
    /\ Goto(p, IF cmd[p] = Null THEN "fault" ELSE "wait")
    /\ UNCHANGED <<cmd_queue, cmdq_head, cmdq_tail_prev, cmds, slot, cmd,
                   hardware, ghosts, mishap>>

(* Then the fields of the command are read, through a null pointer if the slot
   has never been filled. *)
WrapTail(p) ==
    /\ At(p, "twrap")
    /\ cmdq_tail' = IF cmdq_tail = NIDECMD THEN 0 ELSE cmdq_tail
    /\ Goto(p, IF cmd[p] = Null THEN "fault" ELSE "wait")
    /\ UNCHANGED <<cmd_queue, cmdq_head, cmdq_tail_prev, cmds, slot, cmd,
                   hardware, ghosts, mishap>>

(* ide_wait, and the address registers.  It does not look whether the device
   asks for data. *)
Address(p) ==
    /\ At(p, "wait")
    /\ device.state \in {"ready", "data"}
    /\ sector' = cmds[cmd[p]].sect
    /\ Goto(p, "command")
    /\ UNCHANGED <<ring, cmds, slot, cmd, es, device, irq, disk, ghosts, mishap>>

(* The command register: a device with a command ignores it. *)
Start(p) ==
    /\ At(p, "command")
    /\ LET act == cmds[cmd[p]].act
       IN  /\ device' = IF device.state # "ready" THEN device
                        ELSE [device EXCEPT !.act = act, !.sect = sector,
                                 !.state = IF act = "IDECMD_WR" THEN "prepare" ELSE "busy"]
           /\ Goto(p, IF act = "IDECMD_WR" THEN "data" ELSE "idle")
    /\ UNCHANGED <<ring, cmds, slot, cmd, es, sector, irq, disk, ghosts, mishap>>

(* outsb, at once: the data of a write is lost unless the device asks for it. *)
SendData(p) ==
    /\ At(p, "data")
    /\ IF device.state = "data"
         THEN /\ device' = [device EXCEPT !.state = "busy", !.data = cmds[cmd[p]].buf]
              /\ UNCHANGED mishap
         ELSE /\ mishap' = mishap \cup {"drq"}
              /\ UNCHANGED device
    /\ Goto(p, "idle")
    /\ UNCHANGED <<ring, cmds, slot, cmd, es, sector, irq, disk, ghosts>>

ide_rdrw(p) == \/ LoadTail(p) \/ Take(p) \/ SetPrev(p) \/ WrapTail(p)
               \/ Address(p) \/ Start(p) \/ SendData(p)

-----------------------------------------------------------------------------
(* The device: it asks for the data of a write. *)
Prepare ==
    /\ device.state = "prepare"
    /\ device' = [device EXCEPT !.state = "data"]
    /\ UNCHANGED <<ring, cmds, pc, slot, cmd, es, sector, irq, disk, ghosts, mishap>>

(* It has carried a command out. *)
Finish ==
    /\ device.state = "busy"
    /\ device' = [device EXCEPT !.state = "ready",
                                !.data = IF device.act = "IDECMD_RD"
                                           THEN disk[device.sect] ELSE @]
    /\ disk' = IF device.act = "IDECMD_WR" THEN [disk EXCEPT ![device.sect] = device.data]
                                           ELSE disk
    /\ irq' = TRUE
    /\ UNCHANGED <<ring, cmds, pc, slot, cmd, es, sector, ghosts, mishap>>

(* The kernel goes to a program for the first time: iretd leaves a null es,
   and no interrupt or system call loads it again. *)
Program ==
    /\ es /\ pc[Irq] = "idle"
    /\ es' = FALSE
    /\ UNCHANGED <<ring, cmds, pc, slot, cmd, sector, device, irq, disk, ghosts, mishap>>

(* A process that has taken a command, and has not given it to the device. *)
Active(p) == pc[p] \in {"prev", "twrap", "wait", "command", "data"}

(* The command taken last has not been carried out yet. *)
Underway == device.state # "ready" \/ \E p \in Process : Active(p)

(* Mutant of ide_handle_irq: the command is looked up at the tail. *)
ide_handle_irq_tail ==
    /\ At(Irq, "idle") /\ irq
    /\ irq' = FALSE
    /\ IF cmdq_tail_prev = -1 \/ cmd_queue[cmdq_tail % NIDECMD] = Null
         THEN UNCHANGED <<cmds, done, pc, mishap>>
       ELSE LET c == cmd_queue[cmdq_tail % NIDECMD]
            IN  /\ cmds' = IF cmds[c].act = "IDECMD_RD"
                             THEN [cmds EXCEPT ![c].buf = device.data] ELSE cmds
                /\ mishap' = mishap \cup (IF Underway THEN {"early"} ELSE {})
                                   \cup (IF es THEN {} ELSE {"segment"})
                /\ done' = done \cup {c}
                /\ Goto(Irq, "tail")
    /\ UNCHANGED <<ring, slot, cmd, es, sector, device, disk, queued, taken>>

(* ide_handle_irq: the data of a read goes to the command taken last, whose
   interrupt it need not be, and the next is started.  Through a null pointer
   or a null es the handler faults instead. *)
ide_handle_irq ==
    /\ At(Irq, "idle") /\ irq
    /\ irq' = FALSE
    /\ LET c == Content(cmdq_tail_prev)
           read == c # Null /\ cmds[c].act = "IDECMD_RD"
       IN  IF cmdq_tail_prev = -1 THEN UNCHANGED <<cmds, done, pc, mishap>>
           ELSE /\ mishap' = mishap \cup (IF Underway THEN {"early"} ELSE {})
                                   \cup (IF read /\ ~es THEN {"segment"} ELSE {})
                /\ IF c = Null \/ (read /\ ~es)
                     THEN Goto(Irq, "fault") /\ UNCHANGED <<cmds, done>>
                   ELSE /\ cmds' = IF read THEN [cmds EXCEPT ![c].buf = device.data] ELSE cmds
                        /\ done' = done \cup {c}
                        /\ Goto(Irq, "tail")
    /\ UNCHANGED <<ring, slot, cmd, es, sector, device, disk, queued, taken>>

Next == \/ \E p \in Process :
              \/ \E c \in Calls : ide_call(p, c)
              \/ LoadHead(p) \/ StepHead(p) \/ FillSlot(p) \/ WrapHead(p)
              \/ ide_rdrw(p)
        \/ Prepare \/ Finish \/ Program
        \/ ide_handle_irq

Spec == Init /\ [][Next]_vars

-----------------------------------------------------------------------------
Without(mishaps) == mishap \cap mishaps = {}

Place == {"idle", "head", "put", "fill", "step", "wrap", "tail", "take", "prev",
          "twrap", "wait", "command", "data", "fault"}

Mishaps == {"race", "full", "reused", "underrun", "unfilled", "overtaken", "early",
            "segment", "drq"}

Device == [state : {"ready", "prepare", "data", "busy"}, act : Act, sect : Sectors,
           data : Values]

(* The type invariant: the indices stay in the ring unless two callers have
   met in it. *)
TypeOK ==
    /\ cmd_queue \in [Slots -> 0 .. Len(cmds)]
    /\ Without({"race"}) => /\ cmdq_head \in 0 .. NIDECMD
                            /\ cmdq_tail \in 0 .. NIDECMD
                            /\ cmdq_tail_prev \in Slots \cup {-1}
    /\ cmds \in Seq(Command) /\ Len(cmds) <= MaxCommands
    /\ pc \in [Process -> Place] /\ cmd \in [Process -> 0 .. Len(cmds)]
    /\ es \in BOOLEAN /\ sector \in Sectors /\ device \in Device
    /\ irq \in BOOLEAN /\ disk \in [Sectors -> Values]
    /\ mishap \subseteq Mishaps

(* Commands leave the ring in the order in which they entered it, none twice
   and none left out, whoever takes them: unless two callers met in the ring,
   or it was full, or it was asked for a command that was not there: when it
   had none, as the interrupt of the last one always does, or between the two
   stores that put one in. *)
FirstInFirstOut ==
    Without({"race", "full", "underrun", "unfilled"}) => IsPrefix(taken, queued)

(* When the handler has been there every command taken has done what it says:
   a read has its own sector's contents in its own buffer, and a write has put
   its buffer there.  Mishaps are a read once a program has run, a write whose
   data the device did not wait for, a command started before the interrupt of
   the one before, as a second call may, and an interrupt from before. *)
CommandsDoTheirWork ==
    [][mishap' = {} =>
         /\ \A c \in done' \ done : cmds'[c].buf = disk[cmds[c].sect]
         /\ irq /\ ~irq' /\ cmdq_tail_prev # -1 => ToSet(taken) \subseteq done']_vars
=============================================================================
