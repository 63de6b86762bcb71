-------------------------------- MODULE Traps --------------------------------
(***************************************************************************)
(* How the processor gets into the kernel and out again: the descriptor    *)
(* tables of src/tables.c, the task state segment that the scheduler of    *)
(* src/task.c rewrites, the stubs that src/irq.py generates, and the entry *)
(* and exit of system calls in src/x86.S, with what the processor does and *)
(* tests on the way.  Task says which task is dispatched when; here it is  *)
(* any of them, and the scheduler is not interrupted.                      *)
(*                                                                         *)
(* Words are numbers.  A 32-bit number that is split into fields is the    *)
(* sequence of its bytes, the lowest first, and a byte of attributes is    *)
(* the set of the bits that are set.                                       *)
(***************************************************************************)
EXTENDS Naturals, SequencesExt

CONSTANTS NTasks,       \* bound: tasks
          Vectors,      \* interrupts that occur
          MaxDepth,     \* bound: interrupts of one task that have not returned
          TssAddress,   \* &tss
          TssSize       \* sizeof(tss): 104

Tasks == 1 .. NTasks
Byte == 0 .. 255

ASSUME TrapsAssumption ==
    /\ NTasks \in Nat \ {0}
    /\ Vectors \subseteq 0 .. 47
    /\ MaxDepth \in Nat
    /\ TssAddress \in [1 .. 4 -> Byte]
    /\ TssSize \in Byte

-----------------------------------------------------------------------------
(* src/tables.c. *)

MEM_START == <<0, 0, 0, 0>>
MEM_END == <<255, 255, 255, 255>>

GDT_ACCESS_WRITE == {1}
GDT_ACCESS_EXEC == {3}
GDT_ACCESS_KMODE == {}
GDT_ACCESS_UMODE == {5, 6}
GDT_ACCESS_TSS == GDT_ACCESS_UMODE \cup {0, 3}

SEG_KCODE == 1
SEG_KDATA == 2
SEG_TSS == 5
KCode == SEG_KCODE * 8      \* IDT_SEL_KCODE, and what syscall_init stores
KData == 16                 \* in irq_common
UData == 35                 \* 0x23 in sysenter_eip_epilogue

Descriptor(base, limit, access, flags) ==
    [limit0 |-> SubSeq(limit, 1, 2), limit16 |-> limit[3] % 16,
     base0 |-> SubSeq(base, 1, 2), base16 |-> base[3], base24 |-> base[4],
     access |-> access, flags |-> flags]

gdt_set_entry(table, idx, base, limit, access) ==
    [table EXCEPT ![idx] =
        IF access = GDT_ACCESS_TSS
          THEN Descriptor(base, limit, {7} \cup access, {})
          ELSE Descriptor(base, limit,
                          {7, 4} \cup GDT_ACCESS_WRITE \cup access, {3, 2})]

(* Entry 0, whose access the processor ignores, and four segments. *)
gdt_init ==
    LET empty == [i \in 0 .. 5 |-> Descriptor(MEM_START, MEM_START, {}, {})]
        segment(table, idx, access) ==
            gdt_set_entry(table, idx, MEM_START, MEM_END, access)
        null == gdt_set_entry(empty, 0, MEM_START, MEM_START, {})
        kcode == segment(null, 1, GDT_ACCESS_KMODE \cup GDT_ACCESS_EXEC)
        kdata == segment(kcode, 2, GDT_ACCESS_KMODE)
        ucode == segment(kdata, 3, GDT_ACCESS_UMODE \cup GDT_ACCESS_EXEC)
    IN  segment(ucode, 4, GDT_ACCESS_UMODE)

(* Where the linker puts the stubs; any addresses that differ. *)
StubAddress(v) == <<16 * (v % 16), v, 16, 192>>

idt_encode(addr, sel, dpl) ==
    [base0 |-> SubSeq(addr, 1, 2), base16 |-> SubSeq(addr, 3, 4),
     selector |-> sel, attr |-> {7} \cup {1, 2, 3} \cup dpl]

(* irq_setup, which calls it 48 times with a DPL of 0. *)
IDT == [v \in 0 .. 47 |-> idt_encode(StubAddress(v), KCode, {})]

-----------------------------------------------------------------------------
(* Places in the code, which eip and the words on a stack name. *)
User == 1           \* a program
Syscall == 2        \* syscall_handle and what it calls
Epilogue == 3       \* sysenter_eip_epilogue
Sysexit == 4        \* its last instruction
IrqReturn == 5      \* irq_common after the call of handle_irq
Iretd == 6          \* its last instruction
Scheduler == 7
SchedulerLtr == 8   \* its ltr
Stub(v) == 100 + v

(* Stacks: KStack(t) is where the processor puts t's interrupts; CallStack(t)
   is where sysenter_eip starts; programs have their own. *)
KStack(t) == 3 * t
CallStack(t) == 3 * t + 1
UserStack(t) == 3 * t + 2
BootStack == 0
Stacks == {KStack(t) : t \in Tasks} \cup {CallStack(t) : t \in Tasks}

VARIABLES
    gdt,            \* GDT
    tss,            \* tss.esp0 and tss.ss0
    cs, ss, ds, es, \* selectors
    eip, esp, eflagsIF,
    stk,            \* the words on each stack of the kernel
    ctx,            \* where swtch goes on: a stack and a place in the code
    fgtask,
    was,            \* ghost: what each task's interrupts found, not returned
    fault           \* ghost: the processor has refused something

cpu == <<cs, ss, ds, es, eip, esp, eflagsIF>>
vars == <<gdt, tss, cpu, stk, ctx, fgtask, was, fault>>

(* The first time a task runs is at sysenter_eip_epilogue. *)
Init ==
    /\ gdt = gdt_init
    /\ tss = [esp0 |-> BootStack, ss0 |-> 0]
    /\ cs = KCode /\ ss = KData /\ ds = KData /\ es = KData  \* lgdt
    /\ eip = Scheduler /\ esp = BootStack /\ eflagsIF = FALSE
    /\ stk = [s \in Stacks |-> <<>>]
    /\ ctx = [t \in Tasks |-> [esp |-> CallStack(t), eip |-> Epilogue]]
    /\ fgtask \in Tasks
    /\ was = [t \in Tasks |-> <<>>]
    /\ fault = FALSE

-----------------------------------------------------------------------------
(* What the processor makes of a selector. *)

Selected(sel) == gdt[sel \div 8]
RPL(sel) == sel % 4
DPL(d) == (IF 5 \in d.access THEN 1 ELSE 0) + (IF 6 \in d.access THEN 2 ELSE 0)

(* A segment of code or data that is the whole address space. *)
Flat(d) ==
    /\ {4, 7} \subseteq d.access
    /\ d.base0 = <<0, 0>> /\ d.base16 = 0 /\ d.base24 = 0
    /\ d.limit0 = <<255, 255>> /\ d.limit16 = 15 /\ {2, 3} \subseteq d.flags

Null == 0
IsSelector(sel) == sel \div 8 \in 1 .. 5

CodeAt(sel, cpl) == /\ IsSelector(sel) /\ Flat(Selected(sel))
                    /\ 3 \in Selected(sel).access
                    /\ DPL(Selected(sel)) = cpl
StackAt(sel, cpl) == /\ IsSelector(sel) /\ Flat(Selected(sel))
                     /\ 3 \notin Selected(sel).access
                     /\ 1 \in Selected(sel).access
                     /\ DPL(Selected(sel)) = cpl /\ RPL(sel) = cpl
DataAt(sel, cpl) == /\ IsSelector(sel) /\ Flat(Selected(sel))
                    /\ 3 \notin Selected(sel).access
                    /\ {cpl, RPL(sel)} \subseteq 0 .. DPL(Selected(sel))

(* A task state segment that is not in use, and is where and as long as the
   kernel's. *)
AvailableTss(d) ==
    /\ {0, 3, 7} \subseteq d.access /\ {1, 2, 4} \cap d.access = {}
    /\ d.base0 \o <<d.base16, d.base24>> = TssAddress
    /\ d.limit0 = <<TssSize - 1, 0>> /\ d.limit16 = 0 /\ 3 \notin d.flags

CPL == RPL(cs)
Refuses(condition) == fault' = (fault \/ condition)

EFLAGS_IF == 512
Flags == IF eflagsIF THEN EFLAGS_IF ELSE 0

(* Words on the current stack, from the top. *)
Top(k) == IF Len(stk[esp]) >= k THEN stk[esp][Len(stk[esp]) - k + 1] ELSE 0
Popped(k) == IF Len(stk[esp]) >= k
               THEN [stk EXCEPT ![esp] = SubSeq(@, 1, Len(@) - k)] ELSE stk
Pushed(words) == [stk EXCEPT ![esp] = @ \o words]

(* What an interrupt must not change: es, which it may, is not among it. *)
Interrupted == [cs |-> cs, ss |-> ss, ds |-> ds, eip |-> eip, esp |-> esp,
                eflagsIF |-> eflagsIF,
                stk |-> IF esp \in Stacks THEN stk[esp] ELSE <<>>]

-----------------------------------------------------------------------------
(* Interrupts. *)

(* Exceptions for which the processor pushes an error code. *)
ErrorCodes == {8, 10, 11, 12, 13, 14, 17, 30}
AnError == 77

(* A device may interrupt whatever runs with IF set, an exception may come in
   a program or a system call.  In ring 3 the stack is taken from the task
   state segment. *)
Interrupt(v) ==
    /\ eip \in {User, Syscall, Epilogue, Sysexit, IrqReturn, Iretd}
    /\ IF v >= 32 THEN eflagsIF ELSE eip \in {User, Syscall}
    /\ Len(was[fgtask]) < MaxDepth
    /\ was' = [was EXCEPT ![fgtask] = Append(@, Interrupted)]
    /\ LET error == IF v \in ErrorCodes THEN <<AnError>> ELSE <<>>
           saved == <<Flags, cs, eip>> \o error
       IN  IF CPL = 3
             THEN /\ esp' = tss.esp0 /\ ss' = tss.ss0
                  /\ stk' = IF tss.esp0 \in Stacks
                              THEN [stk EXCEPT ![tss.esp0] =
                                        <<ss, esp>> \o saved]
                              ELSE stk
                  /\ Refuses(tss.esp0 \notin Stacks \/ ~StackAt(tss.ss0, 0)
                             \/ ~CodeAt(IDT[v].selector, 0))
             ELSE /\ stk' = Pushed(saved)
                  /\ Refuses(~CodeAt(IDT[v].selector, 0))
                  /\ UNCHANGED <<esp, ss>>
    /\ cs' = IDT[v].selector
    /\ \E w \in 0 .. 47 : /\ IDT[v].base0 \o IDT[v].base16 = StubAddress(w)
                          /\ eip' = Stub(w)
    /\ eflagsIF' = FALSE
    /\ UNCHANGED <<gdt, tss, ds, es, ctx, fgtask>>

(* Mutant of INTEL_ERR_CODE: general protection is forgotten. *)
INTEL_ERR_CODE_no13 == {8, 10, 11, 12, 14, 17, 30}

INTEL_ERR_CODE == {8, 10, 11, 12, 13, 14, 17, 30}

(* The switch to the scheduler at the end of task_yield. *)
SwitchToScheduler(place) ==
    /\ ctx' = [ctx EXCEPT ![fgtask] = [esp |-> esp, eip |-> place]]
    /\ esp' = BootStack
    /\ eip' = Scheduler

(* irqN and irq_common as far as the call of handle_irq, which always yields.
   The registers of pushad are left out. *)
HandleIrq(v) ==
    /\ eip = Stub(v)
    /\ stk' = Pushed((IF v \in INTEL_ERR_CODE THEN <<v>> ELSE <<0, v>>)
                     \o <<ds>>)
    /\ ds' = KData
    /\ Refuses(~DataAt(KData, CPL))
    /\ SwitchToScheduler(IrqReturn)
    /\ UNCHANGED <<gdt, tss, cs, ss, es, eflagsIF, fgtask, was>>

(* Mutant of IrqPop: interrupt number and error code stay on the stack. *)
IrqPop_keeps ==
    /\ eip = IrqReturn
    /\ ds' = Top(1)
    /\ Refuses(~DataAt(Top(1), CPL))
    /\ stk' = Popped(1)
    /\ eip' = Iretd
    /\ UNCHANGED <<gdt, tss, cs, ss, es, esp, eflagsIF, ctx, fgtask, was>>

(* pop ds; add esp, 8 *)
IrqPop ==
    /\ eip = IrqReturn
    /\ ds' = Top(1)
    /\ Refuses(~DataAt(Top(1), CPL))
    /\ stk' = Popped(3)
    /\ eip' = Iretd
    /\ UNCHANGED <<gdt, tss, cs, ss, es, esp, eflagsIF, ctx, fgtask, was>>

(* iretd, which also restores the stack if it goes back to ring 3, and leaves
   no segment register with a segment that ring 3 must not use.  irq_common
   neither saves es nor loads it, so lgdt's selector ends here. *)
IrqIretd ==
    /\ eip = Iretd
    /\ eip' = Top(1) /\ cs' = Top(2) /\ eflagsIF' = (Top(3) = EFLAGS_IF)
    /\ IF RPL(Top(2)) = 3
         THEN /\ esp' = Top(4) /\ ss' = Top(5)
              /\ stk' = Popped(5)
              /\ es' = IF DataAt(es, 3) THEN es ELSE Null
              /\ Refuses(~CodeAt(Top(2), 3) \/ ~StackAt(Top(5), 3)
                         \/ ~DataAt(ds, 3))
         ELSE /\ stk' = Popped(3)
              /\ Refuses(~CodeAt(Top(2), 0))
              /\ UNCHANGED <<esp, ss, es>>
    /\ was' = [was EXCEPT ![fgtask] = IF @ = <<>> THEN @ ELSE Front(@)]
    /\ UNCHANGED <<gdt, tss, ds, ctx, fgtask>>

-----------------------------------------------------------------------------
(* System calls.  The selectors that sysenter and sysexit load follow from the
   one that syscall_init has stored; the processor does not look at them. *)

(* sysenter, sti, mov esp *)
SysenterEip ==
    /\ eip = User
    /\ cs' = KCode /\ ss' = KCode + 8
    /\ esp' = CallStack(fgtask)
    /\ stk' = [stk EXCEPT ![CallStack(fgtask)] = <<>>]
    /\ eflagsIF' = TRUE
    /\ eip' = Syscall
    /\ UNCHANGED <<gdt, tss, ds, es, ctx, fgtask, was, fault>>

(* SYS_YIELD and the like. *)
SysYield ==
    /\ eip = Syscall
    /\ SwitchToScheduler(Syscall)
    /\ UNCHANGED <<gdt, tss, cs, ss, ds, es, eflagsIF, stk, fgtask, was, fault>>

LoadUserData ==
    /\ eip \in {Syscall, Epilogue}
    /\ ds' = UData
    /\ Refuses(~DataAt(UData, CPL))
    /\ eip' = Sysexit
    /\ UNCHANGED <<gdt, tss, cs, ss, es, esp, eflagsIF, stk, ctx, fgtask, was>>

SysexitEip ==
    /\ eip = Sysexit
    /\ cs' = KCode + 16 + 3 /\ ss' = KCode + 24 + 3
    /\ esp' = UserStack(fgtask)
    /\ eip' = User
    /\ UNCHANGED <<gdt, tss, ds, es, eflagsIF, stk, ctx, fgtask, was, fault>>

-----------------------------------------------------------------------------
(* The scheduler. *)

(* Mutant of Dispatch: the entry of the task state segment is not rewritten
   once it is there. *)
Dispatch_once(t) ==
    /\ eip = Scheduler
    /\ fgtask' = t
    /\ tss' = [esp0 |-> KStack(t), ss0 |-> SEG_KDATA * 8]
    /\ gdt' = IF 7 \in gdt[SEG_TSS].access THEN gdt
              ELSE gdt_set_entry(gdt, SEG_TSS, TssAddress,
                                 <<TssSize - 1, 0, 0, 0>>, GDT_ACCESS_TSS)
    /\ eip' = SchedulerLtr
    /\ UNCHANGED <<cs, ss, ds, es, esp, eflagsIF, stk, ctx, was, fault>>

Dispatch(t) ==
    /\ eip = Scheduler
    /\ fgtask' = t
    /\ tss' = [esp0 |-> KStack(t), ss0 |-> SEG_KDATA * 8]
    /\ gdt' = gdt_set_entry(gdt, SEG_TSS, TssAddress,
                            <<TssSize - 1, 0, 0, 0>>, GDT_ACCESS_TSS)
    /\ eip' = SchedulerLtr
    /\ UNCHANGED <<cs, ss, ds, es, esp, eflagsIF, stk, ctx, was, fault>>

(* ltr, which marks the segment busy, and swtch. *)
LtrSwtch ==
    /\ eip = SchedulerLtr
    /\ Refuses(~AvailableTss(gdt[SEG_TSS]))
    /\ gdt' = [gdt EXCEPT ![SEG_TSS].access = @ \cup {1}]
    /\ esp' = ctx[fgtask].esp
    /\ eip' = ctx[fgtask].eip
    /\ UNCHANGED <<tss, cs, ss, ds, es, eflagsIF, stk, ctx, fgtask, was>>

Next ==
    \/ \E v \in Vectors : Interrupt(v) \/ HandleIrq(v)
    \/ IrqPop \/ IrqIretd
    \/ SysenterEip \/ SysYield \/ LoadUserData \/ SysexitEip
    \/ \E t \in Tasks : Dispatch(t)
    \/ LtrSwtch

Spec == Init /\ [][Next]_vars

-----------------------------------------------------------------------------
Places == {User, Syscall, Epilogue, Sysexit, IrqReturn, Iretd, Scheduler,
           SchedulerLtr} \cup {Stub(v) : v \in 0 .. 47}

(* The type invariant of the processor's registers and the kernel's stacks. *)
TypeOK ==
    /\ DOMAIN gdt = 0 .. 5
    /\ tss.esp0 \in Stacks \cup {BootStack} /\ tss.ss0 \in {0, KData}
    /\ {cs, ss, ds} \subseteq 0 .. 47 /\ es \in {Null, KData}
    /\ eip \in Places
    /\ esp \in Stacks \cup {BootStack} \cup {UserStack(t) : t \in Tasks}
    /\ eflagsIF \in BOOLEAN
    /\ stk \in [Stacks -> Seq(Nat)]
    /\ \A t \in Tasks : /\ ctx[t].esp \in {KStack(t), CallStack(t)}
                        /\ ctx[t].eip \in {Syscall, Epilogue, IrqReturn}
    /\ fgtask \in Tasks
    /\ \A t \in Tasks : Len(was[t]) <= MaxDepth
    /\ fault \in BOOLEAN

(* The processor refuses no selector and no task state segment, whatever
   sequence of interrupts, system calls and dispatches there was, and the
   selectors it loads without a look are those of flat segments of the ring
   that the code is meant for: programs run in ring 3 and the kernel in
   ring 0.  Tables, the constants in x86.S and irq.py, and the order of the
   segments that sysenter and sysexit take for granted have to agree. *)
Protected ==
    /\ ~fault
    /\ LET ring == IF eip = User THEN 3 ELSE 0
       IN  CPL = ring /\ CodeAt(cs, ring) /\ StackAt(ss, ring)
           /\ DataAt(ds, ring)

(* The interrupted code goes on where it was, on its own stack, with its own
   flags and its own selectors but for es, although every interrupt is a task
   switch, and another may come before it has returned.  es, which nothing saves,
   is lost to all tasks with the first interrupt that goes back to a program, and
   never loaded again; whatever uses it then, as insb does, faults. *)
Transparent ==
    [][/\ IrqIretd => Interrupted' = Last(was[fgtask])
       /\ es' = IF IrqIretd /\ RPL(cs') = 3 THEN Null ELSE es]_vars
=============================================================================
