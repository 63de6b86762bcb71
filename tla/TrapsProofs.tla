----------------------------- MODULE TrapsProofs -----------------------------
(***************************************************************************)
(* Proofs about the way into the kernel and out again, for any number of   *)
(* tasks, interrupts nested to any depth, and every interrupt.             *)
(***************************************************************************)
EXTENDS Traps, SequenceTheorems, TLAPS

-----------------------------------------------------------------------------
(* Four bytes and their halves.                                            *)

(* The halves of a sequence of four. *)
LEMMA Halves ==
    ASSUME NEW T, NEW s \in Seq(T), Len(s) = 4
    PROVE  SubSeq(s, 1, 2) = <<s[1], s[2]>> /\ SubSeq(s, 3, 4) = <<s[3], s[4]>>
<1>1. \A i \in 1 .. 4 : s[i] \in T
  BY ElementOfSeq
<1> DEFINE a == SubSeq(s, 1, 2)
           b == SubSeq(s, 3, 4)
           c == <<s[1], s[2]>>
           d == <<s[3], s[4]>>
<1>2. \A i \in 1 .. 2 : s[i] \in T
  BY <1>1
<1>3. a \in Seq(T) /\ Len(a) = 2 /\ \A i \in 1 .. 2 : a[i] = s[i]
  <2>1. /\ a \in Seq(T) /\ Len(a) = (IF 1 <= 2 THEN 2 - 1 + 1 ELSE 0)
        /\ \A i \in 1 .. 2 - 1 + 1 : a[i] = s[1 + i - 1]
    BY <1>2, SubSeqProperties
  <2>. HIDE DEF a
  <2>. QED
    BY <2>1
<1>4. \A i \in 3 .. 4 : s[i] \in T
  BY <1>1
<1>5. b \in Seq(T) /\ Len(b) = 2 /\ b[1] = s[3] /\ b[2] = s[4]
  <2>1. /\ b \in Seq(T) /\ Len(b) = (IF 3 <= 4 THEN 4 - 3 + 1 ELSE 0)
        /\ \A i \in 1 .. 4 - 3 + 1 : b[i] = s[3 + i - 1]
    BY <1>4, SubSeqProperties
  <2>. HIDE DEF b
  <2>. QED
    BY <2>1
<1>6. c \in Seq(T) /\ Len(c) = 2 /\ c[1] = s[1] /\ c[2] = s[2]
  BY <1>1
<1>7. d \in Seq(T) /\ Len(d) = 2 /\ d[1] = s[3] /\ d[2] = s[4]
  BY <1>1
<1>. HIDE DEF a, b, c, d
<1>8. \A i \in 1 .. Len(a) : a[i] = c[i]
  BY <1>3, <1>6
<1>9. \A i \in 1 .. Len(b) : b[i] = d[i]
  BY <1>5, <1>7
<1>10. a = c
  BY <1>3, <1>6, <1>8, SeqEqual
<1>11. b = d
  BY <1>5, <1>7, <1>9, SeqEqual
<1>. QED
  BY <1>10, <1>11 DEF a, b, c, d

(* They make it up. *)
LEMMA Whole ==
    ASSUME NEW T, NEW s \in Seq(T), Len(s) = 4
    PROVE  <<s[1], s[2]>> \o <<s[3], s[4]>> = s
<1> DEFINE c == <<s[1], s[2]>>
           d == <<s[3], s[4]>>
<1>1. \A i \in 1 .. 4 : s[i] \in T
  BY ElementOfSeq
<1>2. c \in Seq(T) /\ Len(c) = 2 /\ c[1] = s[1] /\ c[2] = s[2]
  BY <1>1
<1>3. d \in Seq(T) /\ Len(d) = 2 /\ d[1] = s[3] /\ d[2] = s[4]
  BY <1>1
<1>. HIDE DEF c, d
<1>4. /\ c \o d \in Seq(T) /\ Len(c \o d) = Len(c) + Len(d)
      /\ \A i \in 1 .. Len(c) + Len(d) :
            (c \o d)[i] = IF i <= Len(c) THEN c[i] ELSE d[i - Len(c)]
  BY <1>2, <1>3, ConcatProperties
<1> DEFINE q == c \o d
<1>5. /\ q \in Seq(T) /\ Len(q) = 4
      /\ \A i \in 1 .. 4 : q[i] = IF i <= 2 THEN c[i] ELSE d[i - 2]
  BY <1>2, <1>3, <1>4
<1>. HIDE DEF q
<1>6. \A i \in 1 .. Len(q) : q[i] = s[i]
  BY <1>2, <1>3, <1>5
<1>7. q = s
  BY <1>5, <1>6, SeqEqual
<1>. QED
  BY <1>7 DEF q, c, d

-----------------------------------------------------------------------------
(* The descriptor tables.                                                  *)

Segment(access) == Descriptor(MEM_START, MEM_END,
                              {7, 4} \cup GDT_ACCESS_WRITE \cup access, {3, 2})

(* The entries of the table that gdt_init leaves. *)
LEMMA InitialTable ==
    /\ DOMAIN gdt_init = 0 .. 5
    /\ gdt_init[1] = Segment({3}) /\ gdt_init[2] = Segment({})
    /\ gdt_init[3] = Segment({3, 5, 6}) /\ gdt_init[4] = Segment({5, 6})
<1> DEFINE empty == [i \in 0 .. 5 |-> Descriptor(MEM_START, MEM_START, {}, {})]
           null == gdt_set_entry(empty, 0, MEM_START, MEM_START, {})
           kcode == gdt_set_entry(null, 1, MEM_START, MEM_END, {3})
           kdata == gdt_set_entry(kcode, 2, MEM_START, MEM_END, {})
           ucode == gdt_set_entry(kdata, 3, MEM_START, MEM_END, {3, 5, 6})
           udata == gdt_set_entry(ucode, 4, MEM_START, MEM_END, {5, 6})
<1>1. /\ GDT_ACCESS_KMODE \cup GDT_ACCESS_EXEC = {3} /\ GDT_ACCESS_KMODE = {}
      /\ GDT_ACCESS_UMODE \cup GDT_ACCESS_EXEC = {3, 5, 6} /\ GDT_ACCESS_UMODE = {5, 6}
  BY DEF GDT_ACCESS_KMODE, GDT_ACCESS_EXEC, GDT_ACCESS_UMODE
<1>2. gdt_init = udata
  BY <1>1 DEF gdt_init
<1>3. \A access \in {{}, {3}, {3, 5, 6}, {5, 6}} : access # GDT_ACCESS_TSS
  BY DEF GDT_ACCESS_TSS, GDT_ACCESS_UMODE
<1>4. \A table, i, access :
         access \in {{}, {3}, {3, 5, 6}, {5, 6}} =>
            gdt_set_entry(table, i, MEM_START, MEM_END, access)
               = [table EXCEPT ![i] = Segment(access)]
  BY <1>3 DEF gdt_set_entry, Segment
<1>5. /\ kcode = [null EXCEPT ![1] = Segment({3})]
      /\ kdata = [kcode EXCEPT ![2] = Segment({})]
  BY <1>4
<1>6. /\ ucode = [kdata EXCEPT ![3] = Segment({3, 5, 6})]
      /\ udata = [ucode EXCEPT ![4] = Segment({5, 6})]
  BY <1>4
<1>7. DOMAIN null = 0 .. 5
  BY DEF gdt_set_entry
<1>. HIDE DEF null, kcode, kdata, ucode, udata
<1>8. DOMAIN udata = 0 .. 5
  BY <1>5, <1>6, <1>7
<1>9. udata[4] = Segment({5, 6}) /\ udata[3] = Segment({3, 5, 6})
  BY <1>5, <1>6, <1>7
<1>10. udata[2] = Segment({}) /\ udata[1] = Segment({3})
  BY <1>5, <1>6, <1>7
<1>. QED
  BY <1>2, <1>8, <1>9, <1>10

(* A segment is the whole address space, of ring 0 or 3. *)
LEMMA SegmentFacts ==
    ASSUME NEW access \in {{}, {3}, {3, 5, 6}, {5, 6}}
    PROVE  /\ Flat(Segment(access))
           /\ Segment(access).access = {7, 4, 1} \cup access
           /\ DPL(Segment(access)) = IF 5 \in access THEN 3 ELSE 0
<1>1. /\ Segment(access).access = {7, 4, 1} \cup access /\ Segment(access).flags = {3, 2}
      /\ Segment(access).base16 = 0 /\ Segment(access).base24 = 0
      /\ Segment(access).limit16 = 255 % 16
  BY DEF Segment, Descriptor, MEM_START, MEM_END, GDT_ACCESS_WRITE
<1>2. /\ SubSeq(MEM_START, 1, 2) = <<0, 0>> /\ SubSeq(MEM_END, 1, 2) = <<255, 255>>
  <2>1. \A a \in Nat : <<a, a, a, a>> \in Seq(Nat) /\ Len(<<a, a, a, a>>) = 4
    OBVIOUS
  <2>2. \A a \in Nat : SubSeq(<<a, a, a, a>>, 1, 2) = <<a, a>>
    <3>1. TAKE a \in Nat
    <3> DEFINE s == <<a, a, a, a>>
    <3>2. s \in Seq(Nat) /\ Len(s) = 4 /\ s[1] = a /\ s[2] = a
      BY <2>1
    <3>. HIDE DEF s
    <3>3. SubSeq(s, 1, 2) = <<a, a>>
      BY <3>2, Halves
    <3>. QED
      BY <3>3 DEF s
  <2>. QED
    BY <2>2 DEF MEM_START, MEM_END
<1>3. Segment(access).base0 = <<0, 0>> /\ Segment(access).limit0 = <<255, 255>>
  BY <1>2 DEF Segment, Descriptor
<1>4. 255 % 16 = 15
  OBVIOUS
<1>5. Flat(Segment(access))
  BY <1>1, <1>3, <1>4 DEF Flat
<1>6. DPL(Segment(access)) = IF 5 \in access THEN 3 ELSE 0
  BY <1>1 DEF DPL
<1>. QED
  BY <1>1, <1>5, <1>6

(* The segments as gdt_init leaves them are never written again. *)
SegmentsKept == /\ DOMAIN gdt = 0 .. 5
                /\ \A i \in 1 .. 4 : gdt[i] = gdt_init[i]

(* Every selector that the kernel uses passes the processor's test. *)
LEMMA Selectors ==
    ASSUME SegmentsKept
    PROVE  /\ CodeAt(8, 0) /\ CodeAt(27, 3) /\ StackAt(16, 0) /\ StackAt(35, 3)
           /\ DataAt(16, 0) /\ DataAt(35, 0) /\ DataAt(35, 3)
           /\ ~DataAt(16, 3)
<1>1. /\ gdt[1] = Segment({3}) /\ gdt[2] = Segment({})
      /\ gdt[3] = Segment({3, 5, 6}) /\ gdt[4] = Segment({5, 6})
  BY InitialTable DEF SegmentsKept
<1>2. /\ 8 \div 8 = 1 /\ 27 \div 8 = 3 /\ 16 \div 8 = 2 /\ 35 \div 8 = 4
      /\ 16 % 4 = 0 /\ 35 % 4 = 3
  OBVIOUS
<1>3. /\ Selected(8) = Segment({3}) /\ Selected(16) = Segment({})
      /\ Selected(27) = Segment({3, 5, 6}) /\ Selected(35) = Segment({5, 6})
      /\ RPL(16) = 0 /\ RPL(35) = 3
      /\ IsSelector(8) /\ IsSelector(16) /\ IsSelector(27) /\ IsSelector(35)
  BY <1>1, <1>2 DEF Selected, RPL, IsSelector
<1>4. /\ Flat(Segment({3})) /\ DPL(Segment({3})) = 0
      /\ Segment({3}).access = {7, 4, 1} \cup {3}
  BY SegmentFacts
<1>5. /\ Flat(Segment({})) /\ DPL(Segment({})) = 0
      /\ Segment({}).access = {7, 4, 1} \cup {}
  BY SegmentFacts
<1>6. /\ Flat(Segment({3, 5, 6})) /\ DPL(Segment({3, 5, 6})) = 3
      /\ Segment({3, 5, 6}).access = {7, 4, 1} \cup {3, 5, 6}
  BY SegmentFacts
<1>7. /\ Flat(Segment({5, 6})) /\ DPL(Segment({5, 6})) = 3
      /\ Segment({5, 6}).access = {7, 4, 1} \cup {5, 6}
  BY SegmentFacts
<1>8. CodeAt(8, 0) /\ CodeAt(27, 3)
  BY <1>3, <1>4, <1>6 DEF CodeAt
<1>9. StackAt(16, 0) /\ StackAt(35, 3)
  BY <1>3, <1>5, <1>7 DEF StackAt
<1>10. DataAt(16, 0) /\ DataAt(35, 0) /\ DataAt(35, 3)
  BY <1>3, <1>5, <1>7 DEF DataAt
<1>11. ~DataAt(16, 3)
  BY <1>3, <1>5 DEF DataAt
<1>. QED
  BY <1>8, <1>9, <1>10, <1>11

TssEntry == Descriptor(TssAddress, <<TssSize - 1, 0, 0, 0>>, {7} \cup GDT_ACCESS_TSS, {})

(* The scheduler's entry for the task state segment is one that ltr takes. *)
LEMMA TssFacts == AvailableTss(TssEntry)
<1>1. TssAddress \in [1 .. 4 -> Byte]
  BY TrapsAssumption
<1>2. TssAddress \in Seq(Byte) /\ Len(TssAddress) = 4
  <2>1. \A f \in [1 .. 4 -> Byte] : f \in Seq(Byte) /\ Len(f) = 4
    <3>1. \A f \in [1 .. 4 -> Byte] : f \in Seq(Byte)
      BY SeqDef
    <3>2. \A f \in [1 .. 4 -> Byte] : Len(f) = 4
      <4>1. TAKE f \in [1 .. 4 -> Byte]
      <4>2. Len(f) \in Nat /\ DOMAIN f = 1 .. Len(f) /\ DOMAIN f = 1 .. 4
        BY <3>1, LenProperties
      <4>. QED
        BY <4>2
    <3>. QED
      BY <3>1, <3>2
  <2>. QED
    BY <1>1, <2>1
<1> DEFINE low == SubSeq(TssAddress, 1, 2)
           high == <<TssAddress[3], TssAddress[4]>>
<1>5. low \o high = TssAddress
  BY <1>2, Halves, Whole
<1>6. /\ TssEntry.base0 = low /\ <<TssEntry.base16, TssEntry.base24>> = high
      /\ TssEntry.limit0 = SubSeq(<<TssSize - 1, 0, 0, 0>>, 1, 2)
      /\ TssEntry.limit16 = 0 % 16 /\ TssEntry.flags = {}
      /\ TssEntry.access = {7} \cup GDT_ACCESS_TSS
  BY DEF TssEntry, Descriptor
<1>7. SubSeq(<<TssSize - 1, 0, 0, 0>>, 1, 2) = <<TssSize - 1, 0>> /\ 0 % 16 = 0
  <2> DEFINE a == TssSize - 1
             s == <<a, 0, 0, 0>>
  <2>1. a \in Int
    BY TrapsAssumption DEF Byte
  <2>. HIDE DEF a
  <2>2. s \in Seq(Int) /\ Len(s) = 4 /\ s[1] = a /\ s[2] = 0
    BY <2>1
  <2>. HIDE DEF s
  <2>3. SubSeq(s, 1, 2) = <<a, 0>>
    BY <2>2, Halves
  <2>. QED
    BY <2>3 DEF a, s
<1>8. /\ {0, 3, 7} \subseteq TssEntry.access /\ {1, 2, 4} \cap TssEntry.access = {}
  BY <1>6 DEF GDT_ACCESS_TSS, GDT_ACCESS_UMODE
<1>. QED
  BY <1>5, <1>6, <1>7, <1>8 DEF AvailableTss

(* Every gate leads to its own stub, in the kernel's code segment. *)
LEMMA Gates ==
    ASSUME NEW v \in 0 .. 47, NEW w \in 0 .. 47
    PROVE  /\ IDT[v].selector = 8
           /\ IDT[v].base0 \o IDT[v].base16 = StubAddress(w) => w = v
<1> DEFINE addr == StubAddress(v)
<1>1. /\ IDT[v].selector = KCode
      /\ IDT[v].base0 = SubSeq(addr, 1, 2) /\ IDT[v].base16 = SubSeq(addr, 3, 4)
  BY DEF IDT, idt_encode
<1>2. KCode = 8
  BY DEF KCode, SEG_KCODE
<1>3. addr \in Seq(Nat) /\ Len(addr) = 4 /\ addr[2] = v
  BY DEF StubAddress
<1>5. StubAddress(w)[2] = w
  BY DEF StubAddress
<1>6. IDT[v].base0 \o IDT[v].base16 = addr
  <2>. HIDE DEF addr
  <2>. QED
    BY <1>1, <1>3, Halves, Whole
<1>. QED
  BY <1>1, <1>2, <1>3, <1>5, <1>6
-----------------------------------------------------------------------------
(* Places and stacks.                                                      *)

(* Places in the code differ, and the selectors are these. *)
LEMMA PlaceFacts ==
    /\ User = 1 /\ Syscall = 2 /\ Epilogue = 3 /\ Sysexit = 4 /\ IrqReturn = 5 /\ Iretd = 6
    /\ Scheduler = 7 /\ SchedulerLtr = 8
    /\ \A v \in 0 .. 47 : Stub(v) \in 100 .. 147
    /\ \A v, w \in 0 .. 47 : Stub(v) = Stub(w) => v = w
    /\ KCode = 8 /\ KData = 16 /\ UData = 35
    /\ SEG_KDATA * 8 = 16 /\ SEG_TSS = 5
BY DEF User, Syscall, Epilogue, Sysexit, IrqReturn, Iretd, Scheduler, SchedulerLtr, Stub,
       KCode, KData, UData, SEG_KCODE, SEG_KDATA, SEG_TSS

Own(t) == {KStack(t), CallStack(t)}

(* Each task has stacks of its own. *)
LEMMA StackFacts ==
    /\ \A t \in Tasks : /\ KStack(t) \in Nat /\ CallStack(t) \in Nat /\ UserStack(t) \in Nat
                        /\ KStack(t) \in Stacks /\ CallStack(t) \in Stacks
                        /\ UserStack(t) \notin Stacks
    /\ BootStack \notin Stacks /\ BootStack = 0
    /\ \A t, u \in Tasks : t # u => Own(t) \cap Own(u) = {}
<1>1. NTasks \in Nat
  BY TrapsAssumption
<1>2. \A t \in Tasks : KStack(t) \in Nat /\ CallStack(t) \in Nat /\ UserStack(t) \in Nat
  BY <1>1 DEF Tasks, KStack, CallStack, UserStack
<1>3. \A t \in Tasks : KStack(t) \in Stacks /\ CallStack(t) \in Stacks
  BY DEF Stacks
<1>4. \A t, u \in Tasks : UserStack(t) # KStack(u) /\ UserStack(t) # CallStack(u)
  BY <1>1 DEF Tasks, KStack, CallStack, UserStack
<1>5. \A t \in Tasks : UserStack(t) \notin Stacks
  BY <1>4 DEF Stacks
<1>6. \A t \in Tasks : BootStack # KStack(t) /\ BootStack # CallStack(t)
  BY <1>1 DEF Tasks, KStack, CallStack, BootStack
<1>7. BootStack \notin Stacks
  BY <1>6 DEF Stacks
<1>8. \A t, u \in Tasks : t # u => KStack(t) # KStack(u) /\ CallStack(t) # CallStack(u)
  BY <1>1 DEF Tasks, KStack, CallStack
<1>9. \A t, u \in Tasks : KStack(t) # CallStack(u)
  BY <1>1 DEF Tasks, KStack, CallStack
<1>10. \A t, u \in Tasks : t # u => Own(t) \cap Own(u) = {}
  BY <1>8, <1>9 DEF Own
<1>. QED
  BY <1>2, <1>3, <1>5, <1>7, <1>10 DEF BootStack

(* What three words on top of a stack are, and what is left without them. *)
LEMMA ThreeWords ==
    ASSUME NEW s \in Seq(Nat), NEW a \in Nat, NEW b \in Nat, NEW c \in Nat
    PROVE  /\ s \o <<a, b, c>> \in Seq(Nat)
           /\ Len(s \o <<a, b, c>>) = Len(s) + 3
           /\ (s \o <<a, b, c>>)[Len(s) + 1] = a
           /\ (s \o <<a, b, c>>)[Len(s) + 2] = b
           /\ (s \o <<a, b, c>>)[Len(s) + 3] = c
           /\ \A i \in 1 .. Len(s) : (s \o <<a, b, c>>)[i] = s[i]
           /\ SubSeq(s \o <<a, b, c>>, 1, Len(s)) = s
<1> DEFINE w == <<a, b, c>>
           q == s \o w
<1>1. w \in Seq(Nat) /\ Len(w) = 3 /\ w[1] = a /\ w[2] = b /\ w[3] = c
  OBVIOUS
<1>. HIDE DEF w
<1>2. Len(s) \in Nat
  OBVIOUS
<1>3. /\ s \o w \in Seq(Nat) /\ Len(s \o w) = Len(s) + Len(w)
      /\ \A i \in 1 .. Len(s) + Len(w) :
            (s \o w)[i] = IF i <= Len(s) THEN s[i] ELSE w[i - Len(s)]
  BY <1>1, ConcatProperties
<1>4. /\ q \in Seq(Nat) /\ Len(q) = Len(s) + 3
      /\ \A i \in 1 .. Len(s) + 3 : q[i] = IF i <= Len(s) THEN s[i] ELSE w[i - Len(s)]
  BY <1>1, <1>3
<1>. HIDE DEF q
<1>5. q[Len(s) + 1] = a /\ q[Len(s) + 2] = b /\ q[Len(s) + 3] = c
  <2>1. /\ Len(s) + 1 \in 1 .. Len(s) + 3 /\ ~(Len(s) + 1 <= Len(s)) /\ (Len(s) + 1) - Len(s) = 1
        /\ Len(s) + 2 \in 1 .. Len(s) + 3 /\ ~(Len(s) + 2 <= Len(s)) /\ (Len(s) + 2) - Len(s) = 2
        /\ Len(s) + 3 \in 1 .. Len(s) + 3 /\ ~(Len(s) + 3 <= Len(s)) /\ (Len(s) + 3) - Len(s) = 3
    BY <1>2
  <2>. QED
    BY <1>1, <1>4, <2>1
<1>6. \A i \in 1 .. Len(s) : q[i] = s[i]
  BY <1>2, <1>4
<1>7. SubSeq(q, 1, Len(s)) = s
  <2>1. \A i \in 1 .. Len(s) : q[i] \in Nat
    BY <1>6, ElementOfSeq
  <2>2. /\ SubSeq(q, 1, Len(s)) \in Seq(Nat)
        /\ Len(SubSeq(q, 1, Len(s))) = IF 1 <= Len(s) THEN Len(s) - 1 + 1 ELSE 0
        /\ \A i \in 1 .. Len(s) - 1 + 1 : SubSeq(q, 1, Len(s))[i] = q[1 + i - 1]
    BY <1>2, <2>1, SubSeqProperties
  <2> DEFINE p == SubSeq(q, 1, Len(s))
  <2>3. p \in Seq(Nat) /\ Len(p) = Len(s) /\ \A i \in 1 .. Len(s) : p[i] = q[i]
    BY <1>2, <2>2
  <2>. HIDE DEF p
  <2>4. \A i \in 1 .. Len(p) : p[i] = s[i]
    BY <1>6, <2>3
  <2>5. p = s
    BY <2>3, <2>4, SeqEqual
  <2>. QED
    BY <2>5 DEF p
<1>. QED
  BY <1>4, <1>5, <1>6, <1>7 DEF q, w

-----------------------------------------------------------------------------
(* What interrupts leave on the stacks.                                    *)

(* What the processor shows, as Interrupted does. *)
View == [cs : Nat, ss : Nat, ds : Nat, eip : Nat, esp : Nat, eflagsIF : BOOLEAN, stk : Seq(Nat)]

(* The selectors and the stack that belong to a place in the code. *)
Entered == {Syscall, Epilogue, Sysexit}
Kernel == Entered \cup {IrqReturn, Iretd} \cup {Stub(v) : v \in 0 .. 47}

(* The code that may be interrupted is none of the scheduler's. *)
LEMMA KernelPlaces ==
    /\ \A e \in Kernel \cup {User} : e # Scheduler /\ e # SchedulerLtr
    /\ \A e \in {IrqReturn, Iretd} : e \in Kernel /\ e # User /\ e # Sysexit
    /\ \A v \in 0 .. 47 : Stub(v) \notin Entered \cup {User}
<1>1. /\ User = 1 /\ Sysexit = 4 /\ IrqReturn = 5 /\ Iretd = 6
      /\ Scheduler = 7 /\ SchedulerLtr = 8
  BY PlaceFacts
<1>2. \A v \in 0 .. 47 : Stub(v) \in 100 .. 147
  BY PlaceFacts
<1>3. \A e \in Entered : e \in 2 .. 4
  BY PlaceFacts DEF Entered
<1>4. ASSUME NEW v \in 0 .. 47 PROVE Stub(v) \notin Entered \cup {User}
  <2> DEFINE e == Stub(v)
  <2>1. e \in 100 .. 147
    BY <1>2
  <2>. HIDE DEF e
  <2>2. e # User /\ e \notin Entered
    BY ONLY <1>1, <1>3, <2>1
  <2>. QED
    BY ONLY <2>2 DEF e
<1>5. ASSUME NEW e \in Kernel \cup {User} PROVE e # Scheduler /\ e # SchedulerLtr
  <2>1. CASE e \in Entered
    BY ONLY <1>1, <1>3, <2>1
  <2>2. CASE \E v \in 0 .. 47 : e = Stub(v)
    BY ONLY <1>1, <1>2, <2>2
  <2>3. CASE e \in {User, IrqReturn, Iretd}
    BY ONLY <1>1, <2>3
  <2>. QED
    BY ONLY <1>5, <2>1, <2>2, <2>3 DEF Kernel
<1>6. ASSUME NEW e \in {IrqReturn, Iretd} PROVE e \in Kernel /\ e # User /\ e # Sysexit
  BY ONLY <1>1, <1>6 DEF Kernel
<1>. QED
  BY ONLY <1>4, <1>5, <1>6

Registers(t, x) ==
    IF x.eip = User
      THEN /\ x.cs = 27 /\ x.ss = 35 /\ x.ds = 35
           /\ x.esp = UserStack(t) /\ x.stk = <<>>
      ELSE /\ x.eip \in Kernel /\ x.cs = 8 /\ x.ss = 16 /\ x.ds \in {16, 35}
           /\ x.eip = Sysexit => x.ds = 35
           /\ x.esp \in Own(t)

(* The frame of an interrupt that found w, from the words of its stack on. *)
FlagsOf(w) == IF w.eflagsIF THEN EFLAGS_IF ELSE 0
FrameStack(t, w) == IF w.eip = User THEN KStack(t) ELSE w.esp
Below(w) == IF w.eip = User THEN <<w.ss, w.esp>> ELSE w.stk
Frame(w) == Below(w) \o <<FlagsOf(w), w.cs, w.eip>>
ErrorOf(v) == IF v \in ErrorCodes THEN <<AnError>> ELSE <<>>

(* x is a state of an interrupt that found w: before the stub, with the frame
   of struct irq_regs complete, and before iretd. *)
Handling(t, x, w) ==
    /\ x.esp = FrameStack(t, w)
    /\ \/ \E v \in 0 .. 47 : x.eip = Stub(v) /\ x.stk = Frame(w) \o ErrorOf(v) /\ x.ds = w.ds
       \/ x.eip = IrqReturn /\ \E a, b \in Nat : x.stk = Frame(w) \o <<a, b, w.ds>>
       \/ x.eip = Iretd /\ x.stk = Frame(w) /\ x.ds = w.ds

(* A program or a system call. *)
Calm(t, x) == x.eip = User \/ (x.eip \in Entered /\ x.esp = CallStack(t))

(* A task whose interrupts have found ws, one in the other. *)
StateOf(t, x, ws) ==
    /\ Registers(t, x)
    /\ IF ws = <<>> THEN Calm(t, x) ELSE Handling(t, x, ws[Len(ws)])
Nested(t, ws) ==
    /\ ws \in Seq(View) /\ Len(ws) <= MaxDepth
    /\ \A j \in 1 .. Len(ws) : Registers(t, ws[j])
    /\ ws # <<>> => Calm(t, ws[1])
    /\ \A j \in 2 .. Len(ws) : Handling(t, ws[j], ws[j - 1])

(* The state of a task that the scheduler resumes. *)
Resumed(t, d, f) == [cs |-> 8, ss |-> 16, ds |-> d, eip |-> ctx[t].eip, esp |-> ctx[t].esp,
                     eflagsIF |-> f, stk |-> stk[ctx[t].esp]]
Waiting(t) == \A d \in {16, 35}, f \in BOOLEAN : StateOf(t, Resumed(t, d, f), was[t])

Running == eip \notin {Scheduler, SchedulerLtr}

TypeInv ==
    /\ tss.esp0 \in Stacks \cup {BootStack} /\ tss.ss0 \in {0, KData}
    /\ stk \in [Stacks -> Seq(Nat)]
    /\ ctx \in [Tasks -> [esp : Nat, eip : {Syscall, Epilogue, IrqReturn}]]
    /\ \A t \in Tasks : ctx[t].esp \in Own(t)
    /\ fgtask \in Tasks /\ eflagsIF \in BOOLEAN
    /\ was \in [Tasks -> Seq(View)]
NestedInv == \A t \in Tasks : Nested(t, was[t])
CurrentInv == Running => StateOf(fgtask, Interrupted, was[fgtask])
WaitingInv == \A t \in Tasks : t # fgtask \/ ~Running => Waiting(t)
SchedulerInv == ~Running => cs = 8 /\ ss = 16 /\ ds \in {16, 35} /\ esp = BootStack
TssInv == eip # Scheduler => tss.esp0 = KStack(fgtask) /\ tss.ss0 = 16
TableInv == SegmentsKept /\ (eip = SchedulerLtr => AvailableTss(gdt[5]))

Inv == /\ TypeInv /\ NestedInv /\ CurrentInv /\ WaitingInv /\ SchedulerInv
       /\ TssInv /\ TableInv /\ ~fault

(* The frame of an interrupt as words. *)
LEMMA FrameFacts ==
    ASSUME NEW t \in Tasks, NEW w \in View, Registers(t, w)
    PROVE  /\ Below(w) \in Seq(Nat) /\ FlagsOf(w) \in Nat
           /\ (FlagsOf(w) = EFLAGS_IF) = w.eflagsIF
           /\ Frame(w) \in Seq(Nat)
           /\ RPL(w.cs) = IF w.eip = User THEN 3 ELSE 0
<1>1. /\ w.cs \in Nat /\ w.ss \in Nat /\ w.ds \in Nat /\ w.eip \in Nat /\ w.esp \in Nat
      /\ w.eflagsIF \in BOOLEAN /\ w.stk \in Seq(Nat)
  BY DEF View
<1>2. Below(w) \in Seq(Nat)
  <2>1. \A a, b \in Nat : <<a, b>> \in Seq(Nat)
    OBVIOUS
  <2>. QED
    BY <1>1, <2>1 DEF Below
<1>3. FlagsOf(w) \in Nat /\ (FlagsOf(w) = EFLAGS_IF) = w.eflagsIF
  BY <1>1 DEF FlagsOf, EFLAGS_IF
<1>4. Frame(w) \in Seq(Nat)
  BY <1>1, <1>2, <1>3, ThreeWords DEF Frame
<1>5. RPL(w.cs) = IF w.eip = User THEN 3 ELSE 0
  <2>1. w.cs = IF w.eip = User THEN 27 ELSE 8
    BY DEF Registers
  <2>2. 27 % 4 = 3 /\ 8 % 4 = 0
    OBVIOUS
  <2>. QED
    BY <2>1, <2>2 DEF RPL
<1>. QED
  BY <1>2, <1>3, <1>4, <1>5

(* One more interrupt. *)
LEMMA Nest ==
    ASSUME NEW t \in Tasks, NEW ws, Nested(t, ws), NEW x \in View, StateOf(t, x, ws),
           Len(ws) < MaxDepth
    PROVE  /\ Nested(t, Append(ws, x)) /\ Append(ws, x) # <<>>
           /\ Append(ws, x)[Len(Append(ws, x))] = x
<1> DEFINE vs == Append(ws, x)
<1>1. ws \in Seq(View) /\ Len(ws) \in Nat /\ MaxDepth \in Nat
  BY TrapsAssumption DEF Nested
<1>2. /\ vs \in Seq(View) /\ vs # <<>> /\ Len(vs) = Len(ws) + 1
      /\ \A i \in 1 .. Len(ws) : vs[i] = ws[i]
      /\ vs[Len(ws) + 1] = x
  BY <1>1, AppendProperties
<1>. HIDE DEF vs
<1>3. \A j \in 1 .. Len(vs) : Registers(t, vs[j])
  <2>1. TAKE j \in 1 .. Len(vs)
  <2>2. j \in 1 .. Len(ws) \/ j = Len(ws) + 1
    BY <1>1, <1>2
  <2>. QED
    BY <1>2, <2>2 DEF Nested, StateOf
<1>4. Calm(t, vs[1])
  <2>1. CASE ws = <<>>
    <3>1. Len(ws) = 0
      BY <2>1
    <3>. QED
      BY <1>2, <2>1, <3>1 DEF StateOf
  <2>2. CASE ws # <<>>
    <3>1. 1 \in 1 .. Len(ws)
      BY <1>1, <2>2, EmptySeq
    <3>. QED
      BY <1>2, <2>2, <3>1 DEF Nested
  <2>. QED
    BY <2>1, <2>2
<1>5. \A j \in 2 .. Len(vs) : Handling(t, vs[j], vs[j - 1])
  <2>1. TAKE j \in 2 .. Len(vs)
  <2>2. CASE j \in 2 .. Len(ws)
    <3>1. j \in 1 .. Len(ws) /\ j - 1 \in 1 .. Len(ws)
      BY <1>1, <2>2
    <3>. QED
      BY <1>2, <2>2, <3>1 DEF Nested
  <2>3. CASE j = Len(ws) + 1
    <3>1. Len(ws) \in 1 .. Len(ws) /\ j - 1 = Len(ws) /\ ws # <<>>
      BY <1>1, <1>2, <2>1, <2>3
    <3>2. Handling(t, x, ws[Len(ws)])
      BY <3>1 DEF StateOf
    <3>. QED
      BY <1>2, <2>3, <3>1, <3>2
  <2>. QED
    BY <1>1, <1>2, <2>2, <2>3
<1>6. Len(vs) <= MaxDepth
  BY <1>1, <1>2
<1>. QED
  BY <1>2, <1>3, <1>4, <1>5, <1>6 DEF Nested, vs

(* The last interrupt found a state of the task that had nested the others. *)
LEMMA Unnest ==
    ASSUME NEW t \in Tasks, NEW ws, Nested(t, ws), ws # <<>>
    PROVE  /\ Nested(t, Front(ws)) /\ StateOf(t, ws[Len(ws)], Front(ws))
           /\ ws[Len(ws)] \in View /\ Registers(t, ws[Len(ws)])
           /\ Last(ws) = ws[Len(ws)]
<1>1. ws \in Seq(View) /\ Len(ws) \in Nat /\ Len(ws) # 0 /\ MaxDepth \in Nat
  BY TrapsAssumption, EmptySeq DEF Nested
<1> DEFINE vs == Front(ws)
           k == Len(ws) - 1
<1>2. k \in Nat /\ k + 1 = Len(ws) /\ Len(ws) \in 1 .. Len(ws)
  BY <1>1
<1>3. \A i \in 1 .. k : ws[i] \in View
  BY <1>1, <1>2, ElementOfSeq
<1>4. vs \in Seq(View) /\ Len(vs) = k /\ \A i \in 1 .. k : vs[i] = ws[i]
  <2>1. vs = SubSeq(ws, 1, k)
    BY DEF Front
  <2>. HIDE DEF vs, k
  <2>2. /\ SubSeq(ws, 1, k) \in Seq(View)
        /\ Len(SubSeq(ws, 1, k)) = (IF 1 <= k THEN k - 1 + 1 ELSE 0)
        /\ \A i \in 1 .. k - 1 + 1 : SubSeq(ws, 1, k)[i] = ws[1 + i - 1]
    BY <1>2, <1>3, SubSeqProperties
  <2>. QED
    BY <1>2, <2>1, <2>2
<1>. HIDE DEF vs
<1>5. \A j \in 1 .. Len(ws) : Registers(t, ws[j])
  BY DEF Nested
<1>6. vs # <<>> => k # 0
  BY <1>4, EmptySeq
<1>7. Nested(t, vs)
  <2>1. Len(vs) <= MaxDepth
    BY <1>1, <1>2, <1>4 DEF Nested
  <2>2. \A j \in 1 .. Len(vs) : Registers(t, vs[j])
    BY <1>2, <1>4, <1>5
  <2>3. vs # <<>> => Calm(t, vs[1])
    BY <1>1, <1>2, <1>4, <1>6 DEF Nested
  <2>4. \A j \in 2 .. Len(vs) : Handling(t, vs[j], vs[j - 1])
    <3>1. TAKE j \in 2 .. Len(vs)
    <3>2. j \in 2 .. Len(ws) /\ j \in 1 .. k /\ j - 1 \in 1 .. k
      BY <1>2, <1>4
    <3>. QED
      BY <1>4, <3>2 DEF Nested
  <2>. QED
    BY <1>4, <2>1, <2>2, <2>3, <2>4 DEF Nested
<1>8. StateOf(t, ws[Len(ws)], vs)
  <2>1. CASE k = 0
    <3>0. Len(vs) = 0 /\ Len(ws) = 1
      BY <1>1, <1>4, <2>1
    <3>1. vs = <<>> /\ Len(ws) = 1
      BY <1>4, <3>0, EmptySeq
    <3>. QED
      BY <1>5, <3>1 DEF StateOf, Nested
  <2>2. CASE k # 0
    <3>1. Len(ws) \in 2 .. Len(ws) /\ Len(ws) - 1 = Len(vs) /\ Len(vs) \in 1 .. k
      BY <1>2, <1>4, <2>2
    <3>2. vs # <<>> /\ vs[Len(vs)] = ws[Len(ws) - 1]
      BY <1>4, <2>2, <3>1, EmptySeq
    <3>3. Handling(t, ws[Len(ws)], ws[Len(ws) - 1])
      BY <3>1 DEF Nested
    <3>. QED
      BY <1>2, <1>5, <3>2, <3>3 DEF StateOf
  <2>. QED
    BY <2>1, <2>2
<1>9. ws[Len(ws)] \in View
  BY <1>1, <1>2, ElementOfSeq
<1>. QED
  BY <1>2, <1>5, <1>7, <1>8, <1>9 DEF vs, Last

-----------------------------------------------------------------------------
(* Steps.                                                                  *)

(* What runs is a state as above. *)
LEMMA CurrentFacts ==
    ASSUME Inv, Running
    PROVE  /\ Interrupted \in View /\ StateOf(fgtask, Interrupted, was[fgtask])
           /\ Nested(fgtask, was[fgtask]) /\ fgtask \in Tasks
           /\ Interrupted.cs = cs /\ Interrupted.ss = ss /\ Interrupted.ds = ds
           /\ Interrupted.eip = eip /\ Interrupted.esp = esp
           /\ Interrupted.eflagsIF = eflagsIF
           /\ eip = User => /\ Interrupted.stk = <<>> /\ cs = 27 /\ ss = 35 /\ ds = 35
                            /\ esp = UserStack(fgtask)
           /\ eip # User => /\ Interrupted.stk = stk[esp] /\ cs = 8 /\ ss = 16 /\ ds \in {16, 35}
                            /\ esp \in Own(fgtask) /\ esp \in Stacks
<1>1. fgtask \in Tasks /\ eflagsIF \in BOOLEAN /\ stk \in [Stacks -> Seq(Nat)]
      /\ Nested(fgtask, was[fgtask])
  BY DEF Inv, TypeInv, NestedInv
<1>2. StateOf(fgtask, Interrupted, was[fgtask])
  BY DEF Inv, CurrentInv
<1>3. /\ Interrupted.cs = cs /\ Interrupted.ss = ss /\ Interrupted.ds = ds
      /\ Interrupted.eip = eip /\ Interrupted.esp = esp /\ Interrupted.eflagsIF = eflagsIF
      /\ Interrupted.stk = IF esp \in Stacks THEN stk[esp] ELSE <<>>
  BY DEF Interrupted
<1>4. Registers(fgtask, Interrupted)
  BY <1>2 DEF StateOf
<1>5. /\ eip = User => /\ Interrupted.stk = <<>> /\ cs = 27 /\ ss = 35 /\ ds = 35
                       /\ esp = UserStack(fgtask)
      /\ eip # User => /\ cs = 8 /\ ss = 16 /\ ds \in {16, 35} /\ esp \in Own(fgtask)
                       /\ eip \in Kernel
  BY <1>3, <1>4 DEF Registers
<1>6. eip # User => esp \in Stacks /\ Interrupted.stk = stk[esp]
  BY <1>1, <1>3, <1>5, StackFacts DEF Own
<1>7. Interrupted \in View
  <2>1. eip \in Nat
    <3>1. \A v \in 0 .. 47 : Stub(v) \in Nat
      BY DEF Stub
    <3>2. User \in Nat /\ Entered \cup {IrqReturn, Iretd} \subseteq Nat
      BY ONLY PlaceFacts DEF Entered
    <3>. QED
      BY <1>5, <3>1, <3>2 DEF Kernel
  <2>2. esp \in Nat
    BY <1>1, <1>5, StackFacts DEF Own
  <2>3. (IF esp \in Stacks THEN stk[esp] ELSE <<>>) \in Seq(Nat)
    BY <1>1
  <2>4. cs \in Nat /\ ss \in Nat /\ ds \in Nat
    BY <1>5
  <2>. QED
    BY <1>1, <2>1, <2>2, <2>3, <2>4 DEF Interrupted, View
<1>. QED
  BY <1>1, <1>2, <1>3, <1>5, <1>6, <1>7

(* A step of one task does nothing to another. *)
LEMMA Others ==
    ASSUME TypeInv, NEW u \in Tasks, Waiting(u), ctx'[u] = ctx[u], was'[u] = was[u],
           \A s \in Own(u) : stk'[s] = stk[s]
    PROVE  Waiting(u)'
<1>1. ctx[u].esp \in Own(u)
  BY DEF TypeInv
<1>2. stk'[ctx[u].esp] = stk[ctx[u].esp]
  BY <1>1
<1>3. \A d, f : Resumed(u, d, f)' = Resumed(u, d, f)
  BY <1>2 DEF Resumed
<1>. QED
  BY <1>3 DEF Waiting

(* A step from one place in the code to another. *)
LEMMA RunStep ==
    ASSUME Inv, Running, Running', UNCHANGED <<gdt, tss, ctx, fgtask>>, ~fault',
           stk' \in [Stacks -> Seq(Nat)], eflagsIF' \in BOOLEAN,
           \A s \in Stacks : s \notin Own(fgtask) => stk'[s] = stk[s],
           NEW ws, was' = [was EXCEPT ![fgtask] = ws], Nested(fgtask, ws),
           StateOf(fgtask, Interrupted', ws)
    PROVE  Inv'
<1>1. TypeInv /\ fgtask \in Tasks /\ was \in [Tasks -> Seq(View)] /\ ws \in Seq(View)
  BY DEF Inv, TypeInv, Nested
<1>2. was' \in [Tasks -> Seq(View)] /\ was'[fgtask] = ws
      /\ \A u \in Tasks : u # fgtask => was'[u] = was[u]
  BY <1>1
<1>3. TypeInv'
  BY <1>1, <1>2 DEF TypeInv
<1>4. NestedInv'
  BY <1>2 DEF Inv, NestedInv
<1>5. CurrentInv'
  BY <1>2 DEF CurrentInv
<1>6. WaitingInv'
  <2>1. ASSUME NEW u \in Tasks, u # fgtask PROVE Waiting(u)'
    <3>1. \A s \in Own(u) : s \in Stacks /\ s \notin Own(fgtask)
      BY <1>1, <2>1, StackFacts DEF Own
    <3>2. Waiting(u)
      BY <2>1 DEF Inv, WaitingInv
    <3>. QED
      BY <1>1, <1>2, <2>1, <3>1, <3>2, Others
  <2>. QED
    BY <2>1 DEF WaitingInv
<1>7. SchedulerInv'
  BY DEF SchedulerInv
<1>8. TssInv'
  BY DEF Inv, TssInv, Running
<1>9. TableInv'
  BY DEF Inv, TableInv, SegmentsKept, Running
<1>. QED
  BY <1>3, <1>4, <1>5, <1>6, <1>7, <1>8, <1>9 DEF Inv

(* A switch to the scheduler. *)
LEMMA SwitchStep ==
    ASSUME Inv, Running, eip # User, NEW place \in {Syscall, IrqReturn},
           SwitchToScheduler(place), UNCHANGED <<gdt, tss, cs, ss, eflagsIF, fgtask, was>>,
           ds' \in {16, 35}, ~fault',
           stk' \in [Stacks -> Seq(Nat)],
           \A s \in Stacks : s \notin Own(fgtask) => stk'[s] = stk[s],
           Waiting(fgtask)'
    PROVE  Inv'
<1>1. /\ TypeInv /\ fgtask \in Tasks /\ cs = 8 /\ ss = 16 /\ esp \in Own(fgtask)
  BY CurrentFacts DEF Inv
<1>2. /\ ctx' = [ctx EXCEPT ![fgtask] = [esp |-> esp, eip |-> place]]
      /\ esp' = BootStack /\ eip' = Scheduler
  BY DEF SwitchToScheduler
<1>3. /\ ctx' \in [Tasks -> [esp : Nat, eip : {Syscall, Epilogue, IrqReturn}]]
      /\ \A u \in Tasks : ctx'[u].esp \in Own(u)
      /\ \A u \in Tasks : u # fgtask => ctx'[u] = ctx[u]
  <2>1. ctx \in [Tasks -> [esp : Nat, eip : {Syscall, Epilogue, IrqReturn}]]
        /\ \A u \in Tasks : ctx[u].esp \in Own(u)
    BY <1>1 DEF TypeInv
  <2>2. [esp |-> esp, eip |-> place] \in [esp : Nat, eip : {Syscall, Epilogue, IrqReturn}]
    <3>1. esp \in Nat
      BY <1>1, StackFacts DEF Own
    <3>. QED
      BY <3>1
  <2>3. ctx' \in [Tasks -> [esp : Nat, eip : {Syscall, Epilogue, IrqReturn}]]
    BY <1>2, <2>1, <2>2
  <2>4. \A u \in Tasks : u # fgtask => ctx'[u] = ctx[u]
    BY <1>2, <2>1
  <2>5. ctx'[fgtask].esp = esp
    BY <1>1, <1>2, <2>1
  <2>. QED
    BY <1>1, <2>1, <2>3, <2>4, <2>5
<1>4. TypeInv'
  BY <1>1, <1>3 DEF TypeInv
<1>5. NestedInv'
  BY DEF Inv, NestedInv
<1>6. ~Running'
  BY <1>2 DEF Running
<1>7. WaitingInv'
  <2>1. ASSUME NEW u \in Tasks, u # fgtask PROVE Waiting(u)'
    <3>1. \A s \in Own(u) : s \in Stacks /\ s \notin Own(fgtask)
      BY ONLY <1>1, <2>1, StackFacts DEF Own
    <3>2. Waiting(u)
      BY <2>1 DEF Inv, WaitingInv
    <3>3. ctx'[u] = ctx[u] /\ was'[u] = was[u]
      BY <1>3, <2>1
    <3>4. \A s \in Own(u) : stk'[s] = stk[s]
      BY <3>1
    <3>. QED
      BY <1>1, <2>1, <3>2, <3>3, <3>4, Others
  <2>. QED
    BY <2>1 DEF WaitingInv
<1>8. SchedulerInv'
  BY <1>1, <1>2 DEF SchedulerInv
<1>9. CurrentInv'
  BY <1>6 DEF CurrentInv
<1>10. TssInv' /\ TableInv'
  <2>1. eip' = Scheduler /\ eip' # SchedulerLtr
    BY ONLY <1>2, PlaceFacts
  <2>. QED
    BY <2>1 DEF Inv, TssInv, TableInv, SegmentsKept
<1>. QED
  BY <1>4, <1>5, <1>7, <1>8, <1>9, <1>10 DEF Inv

(* A place tells whether a task handles an interrupt. *)
LEMMA PlaceTells ==
    ASSUME NEW t, NEW x, NEW ws, StateOf(t, x, ws)
    PROVE  /\ x.eip \in Entered \cup {User} => ws = <<>>
           /\ x.eip \in Entered => x.esp = CallStack(t)
           /\ x.eip \notin Entered \cup {User} => ws # <<>> /\ Handling(t, x, ws[Len(ws)])
<1>1. \A v \in 0 .. 47 : Stub(v) \notin Entered \cup {User}
  BY ONLY KernelPlaces
<1>2. IrqReturn \notin Entered \cup {User} /\ Iretd \notin Entered \cup {User}
      /\ User \notin Entered
  BY ONLY PlaceFacts DEF Entered
<1>3. ASSUME ws # <<>> PROVE x.eip \notin Entered \cup {User}
  BY <1>1, <1>2, <1>3 DEF StateOf, Handling
<1>4. ASSUME ws = <<>> PROVE x.eip \in Entered \cup {User}
  BY <1>4 DEF StateOf, Calm
<1>. QED
  BY <1>2, <1>3, <1>4 DEF StateOf, Calm

(* The processor takes an interrupt. *)
LEMMA InterruptStep ==
    ASSUME Inv, NEW v \in Vectors, Interrupt(v)
    PROVE  Inv'
<1> DEFINE t == fgtask
           x == Interrupted
           y == Interrupted'
           ws == Append(was[fgtask], Interrupted)
           e == ErrorOf(v)
           w == <<FlagsOf(x), x.cs, x.eip>>
           b == Below(x)
<1>1. v \in 0 .. 47
  BY TrapsAssumption
<1>2. eip \in {User, Syscall, Epilogue, Sysexit, IrqReturn, Iretd} /\ Running
  <2>1. eip \in {User, Syscall, Epilogue, Sysexit, IrqReturn, Iretd}
    BY DEF Interrupt
  <2>. QED
    BY ONLY <2>1, PlaceFacts DEF Running
<1>3. /\ x \in View /\ StateOf(t, x, was[t]) /\ Nested(t, was[t]) /\ t \in Tasks
      /\ x.cs = cs /\ x.ss = ss /\ x.ds = ds /\ x.eip = eip /\ x.esp = esp
      /\ x.eflagsIF = eflagsIF /\ Registers(t, x)
  BY <1>2, CurrentFacts DEF StateOf
<1>4. /\ eip = User => cs = 27 /\ ss = 35 /\ ds = 35
      /\ eip # User => /\ x.stk = stk[esp] /\ cs = 8 /\ ss = 16 /\ ds \in {16, 35}
                       /\ esp \in Own(t) /\ esp \in Stacks
  BY <1>2, CurrentFacts
<1>5. Nested(t, ws) /\ ws # <<>> /\ ws[Len(ws)] = x
  BY <1>3, Nest DEF Interrupt
<1>6. /\ b \in Seq(Nat) /\ FlagsOf(x) \in Nat /\ Frame(x) = b \o w
      /\ CPL = IF eip = User THEN 3 ELSE 0
  BY <1>3, FrameFacts DEF Frame, CPL
<1>7. w \in Seq(Nat) /\ e \in Seq(Nat)
  <2>1. x.cs \in Nat /\ x.eip \in Nat
    BY <1>3 DEF View
  <2>2. w \in Seq(Nat)
    BY <1>6, <2>1
  <2>3. e \in Seq(Nat)
    BY DEF ErrorOf, AnError
  <2>. QED
    BY <2>2, <2>3
<1>8. b \o (w \o e) = Frame(x) \o e /\ b \o (w \o e) \in Seq(Nat)
  <2>. HIDE DEF b, w, e
  <2>1. (b \o w) \o e = b \o (w \o e)
    BY ONLY SMTT(30), <1>6, <1>7, ConcatAssociative
  <2>2. w \o e \in Seq(Nat)
    BY <1>7, ConcatProperties
  <2>3. b \o (w \o e) \in Seq(Nat)
    BY <1>6, <2>2, ConcatProperties
  <2>. QED
    BY <1>6, <2>1, <2>3
<1>9. <<Flags, cs, eip>> \o (IF v \in ErrorCodes THEN <<AnError>> ELSE <<>>) = w \o e
  BY <1>3 DEF Flags, FlagsOf, ErrorOf
<1>10. cs' = 8 /\ eip' = Stub(v) /\ eflagsIF' = FALSE
  <2>1. IDT[v].selector = 8
    BY <1>1, Gates
  <2>2. eip' = Stub(v)
    BY <1>1, Gates DEF Interrupt
  <2>. QED
    BY <2>1, <2>2 DEF Interrupt
<1>11. tss.esp0 = KStack(t) /\ tss.ss0 = 16
  BY ONLY Inv, <1>2, PlaceFacts DEF Inv, TssInv
<1>12. CodeAt(8, 0) /\ StackAt(16, 0) /\ IDT[v].selector = 8
  BY <1>1, Gates, Selectors DEF Inv, TableInv
<1>13. /\ esp' = FrameStack(t, x) /\ ss' = 16 /\ esp' \in Own(t) /\ esp' \in Stacks
       /\ stk' = [stk EXCEPT ![FrameStack(t, x)] = b \o (w \o e)]
       /\ ~fault'
  <2>1. ~fault /\ stk \in [Stacks -> Seq(Nat)]
    BY DEF Inv, TypeInv
  <2>. HIDE DEF w, e
  <2>2. CASE eip = User
    <3>1. CPL = 3 /\ KStack(t) \in Stacks /\ FrameStack(t, x) = KStack(t)
          /\ b = <<ss, esp>>
      BY <1>3, <1>6, <2>2, StackFacts DEF FrameStack, Below
    <3>. HIDE DEF b
    <3>2. esp' = KStack(t) /\ ss' = 16
      BY <1>11, <3>1 DEF Interrupt
    <3>3. stk' = [stk EXCEPT ![KStack(t)] = <<ss, esp>> \o (w \o e)]
      BY <1>9, <1>11, <3>1 DEF Interrupt
    <3>4. ~fault'
      BY <1>11, <1>12, <2>1, <3>1 DEF Interrupt, Refuses
    <3>. QED
      BY <3>1, <3>2, <3>3, <3>4 DEF Own
  <2>3. CASE eip # User
    <3>1. CPL = 0 /\ FrameStack(t, x) = esp /\ b = stk[esp]
      BY <1>3, <1>4, <1>6, <2>3 DEF FrameStack, Below
    <3>. HIDE DEF b
    <3>2. esp' = esp /\ ss' = 16
      BY <1>4, <2>3, <3>1 DEF Interrupt
    <3>3. stk' = [stk EXCEPT ![esp] = b \o (w \o e)]
      <4> DEFINE words == <<Flags, cs, eip>> \o (IF v \in ErrorCodes THEN <<AnError>> ELSE <<>>)
      <4>1. CPL # 3
        BY <3>1
      <4>2. stk' = Pushed(words)
        BY <4>1 DEF Interrupt
      <4>3. words = w \o e
        BY <1>9
      <4>. HIDE DEF words
      <4>. QED
        BY <3>1, <4>2, <4>3 DEF Pushed
    <3>4. ~fault'
      <4>1. CPL # 3
        BY <3>1
      <4>2. Refuses(~CodeAt(IDT[v].selector, 0))
        BY <4>1 DEF Interrupt
      <4>. QED
        BY <1>12, <2>1, <4>2 DEF Refuses
    <3>. QED
      BY <1>4, <2>3, <3>1, <3>2, <3>3, <3>4
  <2>. QED
    BY <2>2, <2>3
<1>14. /\ stk' \in [Stacks -> Seq(Nat)] /\ stk'[esp'] = Frame(x) \o e
       /\ \A s \in Stacks : s \notin Own(t) => stk'[s] = stk[s]
  <2>1. stk \in [Stacks -> Seq(Nat)]
    BY DEF Inv, TypeInv
  <2>. HIDE DEF b, w, e
  <2>. QED
    BY <1>8, <1>13, <2>1
<1>15. ds' = ds /\ UNCHANGED <<gdt, tss, ctx, fgtask>> /\ was' = [was EXCEPT ![t] = ws]
  <2>1. was' = [was EXCEPT ![fgtask] = Append(@, Interrupted)] /\ was \in [Tasks -> Seq(View)]
    BY DEF Interrupt, Inv, TypeInv
  <2>. QED
    BY <1>3, <2>1 DEF Interrupt
<1>16. /\ y.cs = 8 /\ y.ss = 16 /\ y.ds = ds /\ y.eip = Stub(v) /\ y.esp = FrameStack(t, x)
       /\ y.stk = Frame(x) \o e /\ y.esp \in Own(t)
  BY <1>10, <1>13, <1>14, <1>15 DEF Interrupted
<1>17. Running' /\ Stub(v) # User /\ Stub(v) # Sysexit /\ Stub(v) \in Kernel
  <2>1. Stub(v) \in Kernel
    BY <1>1 DEF Kernel
  <2>2. Stub(v) \in 100 .. 147
    BY <1>1, PlaceFacts
  <2>3. /\ Stub(v) # User /\ Stub(v) # Sysexit
        /\ Stub(v) # Scheduler /\ Stub(v) # SchedulerLtr
    BY <2>2, PlaceFacts
  <2>. QED
    BY <1>10, <2>1, <2>3 DEF Running
<1>18. StateOf(t, y, ws)
  <2>1. Registers(t, y)
    BY <1>4, <1>16, <1>17 DEF Registers
  <2>2. Handling(t, y, x)
    BY <1>1, <1>3, <1>16 DEF Handling
  <2>. QED
    BY <1>5, <2>1, <2>2 DEF StateOf
<1>. QED
  BY <1>2, <1>5, <1>10, <1>13, <1>14, <1>15, <1>17, <1>18, RunStep

(* Two sequences, one after the other, as their words say. *)
LEMMA Joined ==
    ASSUME NEW s \in Seq(Nat), NEW t \in Seq(Nat), NEW u \in Seq(Nat),
           Len(u) = Len(s) + Len(t), \A i \in 1 .. Len(s) : u[i] = s[i],
           \A i \in 1 .. Len(t) : u[Len(s) + i] = t[i]
    PROVE  s \o t = u
<1> DEFINE q == s \o t
<1>1. Len(s) \in Nat /\ Len(t) \in Nat
  OBVIOUS
<1>2. /\ q \in Seq(Nat) /\ Len(q) = Len(s) + Len(t)
      /\ \A i \in 1 .. Len(s) + Len(t) : q[i] = IF i <= Len(s) THEN s[i] ELSE t[i - Len(s)]
  BY ConcatProperties
<1>. HIDE DEF q
<1>3. ASSUME NEW i \in 1 .. Len(q) PROVE q[i] = u[i]
  <2>1. i \in 1 .. Len(s) + Len(t) /\ i \in Nat
    BY <1>1, <1>2, <1>3
  <2>2. q[i] = IF i <= Len(s) THEN s[i] ELSE t[i - Len(s)]
    BY <1>2, <2>1
  <2>3. CASE i <= Len(s)
    <3>1. i \in 1 .. Len(s)
      BY <1>1, <2>1, <2>3
    <3>2. u[i] = s[i]
      BY <3>1
    <3>. QED
      BY <2>2, <2>3, <3>2
  <2>4. CASE ~(i <= Len(s))
    <3>1. i - Len(s) \in 1 .. Len(t) /\ Len(s) + (i - Len(s)) = i
      BY <1>1, <2>1, <2>4
    <3>2. u[Len(s) + (i - Len(s))] = t[i - Len(s)]
      BY <3>1
    <3>. QED
      BY <2>2, <2>4, <3>1, <3>2
  <2>. QED
    BY <2>3, <2>4
<1>. QED
  BY <1>2, <1>3, SeqEqual DEF q

(* Two words and three. *)
LEMMA Words ==
    ASSUME NEW a \in Nat, NEW b \in Nat, NEW c \in Nat
    PROVE  /\ <<a>> \o <<b>> = <<a, b>> /\ <<a, b>> \o <<c>> = <<a, b, c>>
           /\ <<a>> \o <<b, c>> = <<a, b, c>>
<1> DEFINE p == <<a>>
           q == <<b>>
           r == <<c>>
           pq == <<a, b>>
           qr == <<b, c>>
           pqr == <<a, b, c>>
<1>1. /\ p \in Seq(Nat) /\ Len(p) = 1 /\ p[1] = a
      /\ q \in Seq(Nat) /\ Len(q) = 1 /\ q[1] = b
      /\ r \in Seq(Nat) /\ Len(r) = 1 /\ r[1] = c
  OBVIOUS
<1>2. /\ pq \in Seq(Nat) /\ Len(pq) = 2 /\ pq[1] = a /\ pq[2] = b
      /\ qr \in Seq(Nat) /\ Len(qr) = 2 /\ qr[1] = b /\ qr[2] = c
      /\ pqr \in Seq(Nat) /\ Len(pqr) = 3 /\ pqr[1] = a /\ pqr[2] = b /\ pqr[3] = c
  OBVIOUS
<1>. HIDE DEF p, q, r, pq, qr, pqr
<1>3. p \o q = pq
  <2>1. /\ Len(pq) = Len(p) + Len(q) /\ \A i \in 1 .. Len(p) : pq[i] = p[i]
        /\ \A i \in 1 .. Len(q) : pq[Len(p) + i] = q[i]
    BY <1>1, <1>2
  <2>. QED
    BY <1>1, <1>2, <2>1, Joined
<1>4. pq \o r = pqr
  <2>1. /\ Len(pqr) = Len(pq) + Len(r) /\ \A i \in 1 .. Len(pq) : pqr[i] = pq[i]
        /\ \A i \in 1 .. Len(r) : pqr[Len(pq) + i] = r[i]
    BY <1>1, <1>2
  <2>. QED
    BY <1>1, <1>2, <2>1, Joined
<1>5. p \o qr = pqr
  <2>1. /\ Len(pqr) = Len(p) + Len(qr) /\ \A i \in 1 .. Len(p) : pqr[i] = p[i]
        /\ \A i \in 1 .. Len(qr) : pqr[Len(p) + i] = qr[i]
    BY <1>1, <1>2
  <2>. QED
    BY <1>1, <1>2, <2>1, Joined
<1>. QED
  BY <1>3, <1>4, <1>5 DEF p, q, r, pq, qr, pqr

(* The words that irq.py's stubs push complete the frame. *)
LEMMA Complete ==
    ASSUME NEW s \in Seq(Nat), NEW v \in 0 .. 47, NEW d \in Nat
    PROVE  \E a, b \in Nat :
              (s \o ErrorOf(v)) \o ((IF v \in INTEL_ERR_CODE THEN <<v>> ELSE <<0, v>>) \o <<d>>)
                 = s \o <<a, b, d>>
<1> DEFINE r == (IF v \in INTEL_ERR_CODE THEN <<v>> ELSE <<0, v>>) \o <<d>>
           e == ErrorOf(v)
<1>1. INTEL_ERR_CODE = ErrorCodes
  BY DEF INTEL_ERR_CODE, ErrorCodes
<1>2. v \in Nat /\ AnError \in Nat /\ 0 \in Nat
  BY DEF AnError
<1>3. CASE v \in ErrorCodes
  <2>1. e = <<AnError>>
    BY <1>3 DEF ErrorOf
  <2>2. r = <<v, d>>
    BY <1>1, <1>2, <1>3, Words
  <2>3. e \in Seq(Nat) /\ r \in Seq(Nat)
    <3>1. \A a, b \in Nat : <<a>> \in Seq(Nat) /\ <<a, b>> \in Seq(Nat)
      OBVIOUS
    <3>. QED
      BY <1>2, <2>1, <2>2, <3>1
  <2>4. e \o r = <<AnError, v, d>>
    <3>1. \A a, b, c \in Nat : <<a>> \o <<b, c>> = <<a, b, c>>
      BY Words
    <3>. HIDE DEF e, r
    <3>. QED
      BY <1>2, <2>1, <2>2, <3>1
  <2>5. (s \o e) \o r = s \o (e \o r)
    <3>. HIDE DEF e, r
    <3>. QED
      BY ONLY <2>3, ConcatAssociative
  <2>. HIDE DEF e, r
  <2>6. (s \o e) \o r = s \o <<AnError, v, d>>
    BY <2>4, <2>5
  <2>. QED
    BY <1>2, <2>6 DEF e, r
<1>4. CASE v \notin ErrorCodes
  <2>1. e = <<>>
    BY <1>4 DEF ErrorOf
  <2>2. r = <<0, v, d>>
    BY <1>1, <1>2, <1>4, Words
  <2>3. s \o <<>> = s
    BY ConcatEmptySeq
  <2>. HIDE DEF e, r
  <2>4. (s \o e) \o r = s \o <<0, v, d>>
    BY <2>1, <2>2, <2>3
  <2>. QED
    BY <1>2, <2>4 DEF e, r
<1>. QED
  BY <1>3, <1>4

(* The stub and the handler, as far as the switch to the scheduler. *)
LEMMA HandleStep ==
    ASSUME Inv, NEW v \in Vectors, HandleIrq(v)
    PROVE  Inv'
<1> DEFINE t == fgtask
           x == Interrupted
           w == was[fgtask][Len(was[fgtask])]
           r == (IF v \in INTEL_ERR_CODE THEN <<v>> ELSE <<0, v>>) \o <<ds>>
<1>1. v \in 0 .. 47 /\ eip = Stub(v)
  BY TrapsAssumption DEF HandleIrq
<1>2. Running /\ eip # User /\ eip \notin Entered
  <2>1. eip \in 100 .. 147
    BY <1>1, PlaceFacts
  <2>. QED
    BY ONLY <2>1, PlaceFacts DEF Running, Entered
<1>3. /\ StateOf(t, x, was[t]) /\ Nested(t, was[t]) /\ t \in Tasks
      /\ x.ds = ds /\ x.eip = eip /\ x.esp = esp /\ x.stk = stk[esp]
      /\ cs = 8 /\ ds \in {16, 35} /\ esp \in Own(t) /\ esp \in Stacks
  BY <1>2, CurrentFacts
<1>4. was[t] # <<>> /\ Handling(t, x, w)
  BY <1>2, <1>3, PlaceTells
<1>5. w \in View /\ Registers(t, w) /\ Frame(w) \in Seq(Nat)
  BY <1>3, <1>4, Unnest, FrameFacts
<1>6. stk[esp] = Frame(w) \o ErrorOf(v) /\ ds = w.ds /\ esp = FrameStack(t, w)
  <2>1. eip # IrqReturn /\ eip # Iretd
    BY ONLY <1>1, PlaceFacts
  <2>2. PICK u \in 0 .. 47 : x.eip = Stub(u) /\ x.stk = Frame(w) \o ErrorOf(u) /\ x.ds = w.ds
    BY <1>3, <1>4, <2>1 DEF Handling
  <2>3. u = v
    BY <1>1, <1>3, <2>2, PlaceFacts
  <2>. QED
    BY <1>3, <1>4, <2>2, <2>3 DEF Handling
<1>7. PICK a, b \in Nat : stk[esp] \o r = Frame(w) \o <<a, b, w.ds>>
  <2>1. ds \in Nat
    BY <1>3
  <2>2. \E a, b \in Nat : (Frame(w) \o ErrorOf(v)) \o r = Frame(w) \o <<a, b, ds>>
    BY <1>1, <1>5, <2>1, Complete
  <2>. HIDE DEF r, w
  <2>. QED
    BY <1>6, <2>2
<1>8. stk \in [Stacks -> Seq(Nat)] /\ ~fault
  BY DEF Inv, TypeInv
<1>9. /\ stk' = [stk EXCEPT ![esp] = stk[esp] \o r] /\ stk'[esp] = Frame(w) \o <<a, b, w.ds>>
  BY <1>3, <1>8, <1>7 DEF HandleIrq, Pushed
<1>10. stk' \in [Stacks -> Seq(Nat)] /\ \A s \in Stacks : s \notin Own(t) => stk'[s] = stk[s]
  <2>1. Frame(w) \o <<a, b, w.ds>> \in Seq(Nat)
    BY <1>3, <1>5, <1>6, ThreeWords
  <2>. QED
    BY <1>3, <1>7, <1>8, <1>9, <2>1
<1>11. ds' = 16 /\ ~fault'
  <2>1. CPL = 0
    <3>1. 8 % 4 = 0
      OBVIOUS
    <3>. QED
      BY <1>3, <3>1 DEF CPL, RPL
  <2>2. DataAt(16, 0)
    BY Selectors DEF Inv, TableInv
  <2>. QED
    BY <1>8, <2>1, <2>2, PlaceFacts DEF HandleIrq, Refuses
<1>12. Waiting(t)'
  <2>1. /\ ctx'[t].esp = esp /\ ctx'[t].eip = IrqReturn /\ was' = was /\ fgtask' = fgtask
    BY <1>3 DEF HandleIrq, SwitchToScheduler, Inv, TypeInv
  <2>2. ASSUME NEW d \in {16, 35}, NEW f \in BOOLEAN,
               NEW y, y = [cs |-> 8, ss |-> 16, ds |-> d, eip |-> IrqReturn, esp |-> esp,
                           eflagsIF |-> f, stk |-> stk'[esp]]
        PROVE  StateOf(t, y, was[t])
    <3>1. /\ y.cs = 8 /\ y.ss = 16 /\ y.ds = d /\ y.eip = IrqReturn /\ y.esp = esp
          /\ y.stk = Frame(w) \o <<a, b, w.ds>>
      BY <1>9, <2>2
    <3>2. Registers(t, y)
      BY ONLY <1>3, <3>1, KernelPlaces DEF Registers
    <3>3. Handling(t, y, w)
      BY <1>6, <3>1 DEF Handling
    <3>. QED
      BY <1>4, <3>2, <3>3 DEF StateOf
  <2>. QED
    BY <2>1, <2>2 DEF Waiting, Resumed
<1>13. SwitchToScheduler(IrqReturn) /\ UNCHANGED <<gdt, tss, cs, ss, eflagsIF, fgtask, was>>
  BY DEF HandleIrq
<1>. QED
  BY <1>2, <1>10, <1>11, <1>12, <1>13, SwitchStep

(* What irq_common takes from the stack when handle_irq has come back. *)
LEMMA IrqPopStep ==
    ASSUME Inv, IrqPop
    PROVE  Inv'
<1> DEFINE t == fgtask
           x == Interrupted
           y == Interrupted'
           w == was[fgtask][Len(was[fgtask])]
<1>1. eip = IrqReturn /\ eip' = Iretd
  BY DEF IrqPop
<1>2. Running /\ Running' /\ eip # User /\ eip \notin Entered
  BY ONLY <1>1, PlaceFacts DEF Running, Entered
<1>3. /\ StateOf(t, x, was[t]) /\ Nested(t, was[t]) /\ t \in Tasks
      /\ x.ds = ds /\ x.eip = eip /\ x.esp = esp /\ x.stk = stk[esp]
      /\ cs = 8 /\ ss = 16 /\ esp \in Own(t) /\ esp \in Stacks
  BY <1>2, CurrentFacts
<1>4. was[t] # <<>> /\ Handling(t, x, w)
  BY <1>2, <1>3, PlaceTells
<1>5. w \in View /\ Registers(t, w) /\ Frame(w) \in Seq(Nat)
  BY <1>3, <1>4, Unnest, FrameFacts
<1>6. w.ds \in {16, 35} /\ w.ds \in Nat
  <2>1. w.ds \in {16, 35}
    BY <1>5 DEF Registers
  <2>. QED
    BY <2>1
<1>7. PICK a, b \in Nat : stk[esp] = Frame(w) \o <<a, b, w.ds>>
  <2>1. \A v \in 0 .. 47 : x.eip # Stub(v)
    BY ONLY <1>1, <1>3, PlaceFacts
  <2>2. x.eip # Iretd
    BY ONLY <1>1, <1>3, PlaceFacts
  <2>. QED
    BY <1>3, <1>4, <2>1, <2>2 DEF Handling
<1>8. esp = FrameStack(t, w)
  BY <1>3, <1>4 DEF Handling
<1> DEFINE s == Frame(w)
           q == stk[esp]
<1>9. /\ q \in Seq(Nat) /\ Len(q) = Len(s) + 3 /\ q[Len(s) + 3] = w.ds
      /\ SubSeq(q, 1, Len(s)) = s
  BY <1>5, <1>6, <1>7, ThreeWords
<1>10. Len(s) \in Nat
  BY <1>5
<1>11. Top(1) = w.ds /\ Popped(3) = [stk EXCEPT ![esp] = s]
  <2>. HIDE DEF s, w
  <2>1. Len(q) >= 1 /\ Len(q) >= 3 /\ Len(q) - 1 + 1 = Len(s) + 3 /\ Len(q) - 3 = Len(s)
    BY <1>9, <1>10
  <2>2. Top(1) = w.ds
    BY <1>9, <2>1 DEF Top
  <2>3. Popped(3) = [stk EXCEPT ![esp] = SubSeq(stk[esp], 1, Len(stk[esp]) - 3)]
    BY <2>1 DEF Popped
  <2>. QED
    BY <1>9, <2>1, <2>2, <2>3
<1>12. stk \in [Stacks -> Seq(Nat)] /\ ~fault /\ was \in [Tasks -> Seq(View)]
       /\ eflagsIF \in BOOLEAN
  BY DEF Inv, TypeInv
<1>13. ds' = w.ds /\ ~fault'
  <2>1. CPL = 0
    <3>1. 8 % 4 = 0
      OBVIOUS
    <3>. QED
      BY <1>3, <3>1 DEF CPL, RPL
  <2>2. DataAt(16, 0) /\ DataAt(35, 0)
    BY Selectors DEF Inv, TableInv
  <2>. HIDE DEF w
  <2>. QED
    BY <1>6, <1>11, <1>12, <2>1, <2>2 DEF IrqPop, Refuses
<1>14. /\ stk' \in [Stacks -> Seq(Nat)] /\ stk'[esp] = s
       /\ \A z \in Stacks : z \notin Own(t) => stk'[z] = stk[z]
  <2>. HIDE DEF s
  <2>1. stk' = [stk EXCEPT ![esp] = s]
    BY <1>11 DEF IrqPop
  <2>2. s \in Seq(Nat)
    BY <1>5 DEF s
  <2>. QED
    BY <1>3, <1>12, <2>1, <2>2
<1>15. UNCHANGED <<gdt, tss, cs, ss, esp, eflagsIF, ctx, fgtask, was>>
  BY DEF IrqPop
<1>16. /\ y.cs = 8 /\ y.ss = 16 /\ y.ds = w.ds /\ y.eip = Iretd /\ y.esp = esp /\ y.stk = s
  BY <1>1, <1>3, <1>13, <1>14, <1>15 DEF Interrupted
<1>17. StateOf(t, y, was[t])
  <2>1. Registers(t, y)
    BY ONLY <1>3, <1>6, <1>16, KernelPlaces DEF Registers
  <2>2. Handling(t, y, w)
    BY <1>8, <1>16 DEF Handling
  <2>. QED
    BY <1>4, <2>1, <2>2 DEF StateOf
<1>18. was' = [was EXCEPT ![t] = was[t]]
  BY <1>3, <1>12, <1>15
<1>. QED
  BY <1>2, <1>3, <1>12, <1>13, <1>14, <1>15, <1>17, <1>18, RunStep

(* What iretd reads is what the interrupt has found. *)
LEMMA Returns ==
    ASSUME Inv, IrqIretd
    PROVE  /\ was[fgtask] # <<>> /\ Interrupted' = was[fgtask][Len(was[fgtask])]
           /\ ~fault' /\ stk' \in [Stacks -> Seq(Nat)] /\ eflagsIF' \in BOOLEAN
           /\ \A z \in Stacks : z \notin Own(fgtask) => stk'[z] = stk[z]
<1> DEFINE t == fgtask
           x == Interrupted
           w == was[fgtask][Len(was[fgtask])]
<1>1. eip = Iretd
  BY DEF IrqIretd
<1>2. Running /\ eip # User /\ eip \notin Entered
  BY <1>1, PlaceFacts DEF Running, Entered
<1>3. /\ StateOf(t, x, was[t]) /\ Nested(t, was[t]) /\ t \in Tasks
      /\ x.ds = ds /\ x.eip = eip /\ x.esp = esp /\ x.stk = stk[esp]
      /\ cs = 8 /\ ss = 16 /\ esp \in Own(t) /\ esp \in Stacks
  BY <1>2, CurrentFacts
<1>4. was[t] # <<>> /\ Handling(t, x, w)
  BY <1>2, <1>3, PlaceTells
<1>5. /\ w \in View /\ Registers(t, w) /\ Frame(w) \in Seq(Nat) /\ Below(w) \in Seq(Nat)
      /\ FlagsOf(w) \in Nat /\ (FlagsOf(w) = EFLAGS_IF) = w.eflagsIF
      /\ RPL(w.cs) = IF w.eip = User THEN 3 ELSE 0
  BY <1>3, <1>4, Unnest, FrameFacts
<1>6. stk[esp] = Frame(w) /\ ds = w.ds /\ esp = FrameStack(t, w)
  <2>1. \A v \in 0 .. 47 : x.eip # Stub(v)
    BY ONLY <1>1, <1>3, PlaceFacts
  <2>2. x.eip # IrqReturn
    BY ONLY <1>1, <1>3, PlaceFacts
  <2>. QED
    BY <1>3, <1>4, <2>1, <2>2 DEF Handling
<1> DEFINE s == Below(w)
           q == stk[esp]
<1>7. w.cs \in Nat /\ w.eip \in Nat /\ w.eflagsIF \in BOOLEAN /\ w.esp \in Nat /\ w.ss \in Nat
  BY <1>5 DEF View
<1>8. /\ q \in Seq(Nat) /\ Len(q) = Len(s) + 3
      /\ q[Len(s) + 1] = FlagsOf(w) /\ q[Len(s) + 2] = w.cs /\ q[Len(s) + 3] = w.eip
      /\ \A i \in 1 .. Len(s) : q[i] = s[i]
      /\ SubSeq(q, 1, Len(s)) = s
  BY <1>5, <1>6, <1>7, ThreeWords DEF Frame
<1>9. Len(s) \in Nat
  BY <1>5
<1>10. Top(1) = w.eip /\ Top(2) = w.cs /\ Top(3) = FlagsOf(w)
  <2>. HIDE DEF s, w
  <2>1. /\ Len(q) >= 1 /\ Len(q) - 1 + 1 = Len(s) + 3
        /\ Len(q) >= 2 /\ Len(q) - 2 + 1 = Len(s) + 2
        /\ Len(q) >= 3 /\ Len(q) - 3 + 1 = Len(s) + 1
    BY <1>8, <1>9
  <2>. QED
    BY <1>8, <2>1 DEF Top
<1>11. eip' = w.eip /\ cs' = w.cs /\ eflagsIF' = w.eflagsIF /\ ds' = w.ds
  <2>. HIDE DEF w
  <2>. QED
    BY <1>5, <1>6, <1>10 DEF IrqIretd
<1>12. ~fault /\ stk \in [Stacks -> Seq(Nat)]
  BY DEF Inv, TypeInv
<1>13. CodeAt(8, 0) /\ CodeAt(27, 3) /\ StackAt(35, 3) /\ DataAt(35, 3)
  BY Selectors DEF Inv, TableInv
<1>14. CASE w.eip = User
  <2>1. /\ w.cs = 27 /\ w.ss = 35 /\ w.ds = 35 /\ w.esp = UserStack(t) /\ w.stk = <<>>
        /\ RPL(w.cs) = 3
    BY <1>5, <1>14 DEF Registers
  <2>2. s = <<w.ss, w.esp>>
    BY <1>14 DEF Below
  <2>3. Len(s) = 2 /\ s[1] = w.ss /\ s[2] = w.esp
    BY <2>2
  <2>4. Top(4) = w.esp /\ Top(5) = w.ss
    <3>. HIDE DEF s, w
    <3>1. /\ Len(q) >= 4 /\ Len(q) - 4 + 1 = 2 /\ Len(q) >= 5 /\ Len(q) - 5 + 1 = 1
          /\ q[1] = s[1] /\ q[2] = s[2]
      BY <1>8, <2>3
    <3>. QED
      BY <2>3, <3>1 DEF Top
  <2>5. esp' = w.esp /\ ss' = w.ss /\ stk' = Popped(5)
    <3>. HIDE DEF w
    <3>. QED
      BY <1>10, <2>1, <2>4 DEF IrqIretd
  <2>6. Refuses(~CodeAt(w.cs, 3) \/ ~StackAt(w.ss, 3) \/ ~DataAt(ds, 3))
    <3>. HIDE DEF w
    <3>. QED
      BY <1>10, <2>1, <2>4 DEF IrqIretd
  <2>7. ~fault'
    <3>. HIDE DEF w
    <3>. QED
      BY <1>6, <1>12, <1>13, <2>1, <2>6 DEF Refuses
  <2>8. SubSeq(q, 1, Len(q) - 5) \in Seq(Nat)
    <3>1. Len(q) - 5 = 0
      BY <1>8, <2>3
    <3>2. \A i \in 1 .. 0 : q[i] \in Nat
      OBVIOUS
    <3> DEFINE k == Len(q) - 5
    <3>3. k \in 0 .. 0
      BY <3>1
    <3>. HIDE DEF k
    <3>4. \A i \in 1 .. k : q[i] \in Nat
      BY <3>2, <3>3
    <3>5. SubSeq(q, 1, k) \in Seq(Nat)
      BY <3>3, <3>4, SubSeqProperties
    <3>. QED
      BY <3>5 DEF k
  <2>9. stk' = [stk EXCEPT ![esp] = SubSeq(q, 1, Len(q) - 5)]
    <3>1. Len(q) >= 5
      BY <1>8, <2>3
    <3>. QED
      BY <2>5, <3>1 DEF Popped
  <2>10. stk' \in [Stacks -> Seq(Nat)] /\ \A z \in Stacks : z \notin Own(t) => stk'[z] = stk[z]
    BY <1>3, <1>12, <2>8, <2>9
  <2>11. esp' \notin Stacks
    BY <1>3, <2>1, <2>5, StackFacts
  <2>12. Interrupted' = [cs |-> w.cs, ss |-> w.ss, ds |-> w.ds, eip |-> w.eip, esp |-> w.esp,
                         eflagsIF |-> w.eflagsIF, stk |-> w.stk]
    BY <1>11, <2>1, <2>5, <2>11 DEF Interrupted
  <2>13. Interrupted' = w
    <3>. HIDE DEF w
    <3>. QED
      BY <1>5, <2>12 DEF View
  <2>. QED
    BY <1>4, <1>7, <1>11, <2>7, <2>10, <2>13
<1>15. CASE w.eip # User
  <2>1. w.cs = 8 /\ w.ss = 16 /\ w.esp = esp /\ RPL(w.cs) # 3 /\ s = w.stk
    BY <1>5, <1>6, <1>15 DEF Registers, FrameStack, Below
  <2>2. esp' = esp /\ ss' = 16 /\ stk' = Popped(3) /\ Refuses(~CodeAt(8, 0))
    <3>. HIDE DEF w
    <3>. QED
      BY <1>3, <1>10, <2>1 DEF IrqIretd
  <2>3. ~fault'
    BY <1>12, <1>13, <2>2 DEF Refuses
  <2>4. stk' = [stk EXCEPT ![esp] = s]
    <3>. HIDE DEF s, w
    <3>1. Len(q) >= 3 /\ Len(q) - 3 = Len(s)
      BY <1>8, <1>9
    <3>2. Popped(3) = [stk EXCEPT ![esp] = SubSeq(stk[esp], 1, Len(stk[esp]) - 3)]
      BY <3>1 DEF Popped
    <3>. QED
      BY <1>8, <2>2, <3>1, <3>2
  <2>5. /\ stk' \in [Stacks -> Seq(Nat)] /\ stk'[esp] = s
        /\ \A z \in Stacks : z \notin Own(t) => stk'[z] = stk[z]
    <3>1. s \in Seq(Nat)
      BY <1>5
    <3>. HIDE DEF s, w
    <3>. QED
      BY <1>3, <1>12, <2>4, <3>1
  <2>6. Interrupted' = [cs |-> w.cs, ss |-> w.ss, ds |-> w.ds, eip |-> w.eip, esp |-> w.esp,
                        eflagsIF |-> w.eflagsIF, stk |-> w.stk]
    BY <1>3, <1>11, <2>1, <2>2, <2>5 DEF Interrupted
  <2>7. Interrupted' = w
    <3>. HIDE DEF w
    <3>. QED
      BY <1>5, <2>6 DEF View
  <2>. QED
    BY <1>4, <1>7, <1>11, <2>3, <2>5, <2>7
<1>. QED
  BY <1>14, <1>15

(* The return from an interrupt. *)
LEMMA IrqIretdStep ==
    ASSUME Inv, IrqIretd
    PROVE  Inv'
<1> DEFINE t == fgtask
           w == was[fgtask][Len(was[fgtask])]
<1>1. Running /\ Nested(t, was[t]) /\ t \in Tasks
  <2>1. Running
    BY ONLY IrqIretd, PlaceFacts DEF IrqIretd, Running
  <2>. QED
    BY <2>1, CurrentFacts
<1>2. /\ was[t] # <<>> /\ Interrupted' = w /\ ~fault'
      /\ stk' \in [Stacks -> Seq(Nat)] /\ eflagsIF' \in BOOLEAN
      /\ \A z \in Stacks : z \notin Own(t) => stk'[z] = stk[z]
  BY Returns
<1>3. Nested(t, Front(was[t])) /\ StateOf(t, w, Front(was[t])) /\ Registers(t, w)
  BY <1>1, <1>2, Unnest
<1>4. Running'
  <2>1. eip' = w.eip
    BY <1>2 DEF Interrupted
  <2>2. w.eip \in Kernel \cup {User}
    BY <1>3 DEF Registers
  <2>. HIDE DEF w
  <2>. QED
    BY ONLY <2>1, <2>2, KernelPlaces DEF Running
<1>5. was' = [was EXCEPT ![t] = Front(was[t])] /\ UNCHANGED <<gdt, tss, ctx, fgtask>>
  <2>1. was \in [Tasks -> Seq(View)]
    BY DEF Inv, TypeInv
  <2>. QED
    BY <1>1, <1>2, <2>1 DEF IrqIretd
<1>. QED
  BY <1>1, <1>2, <1>3, <1>4, <1>5, RunStep

-----------------------------------------------------------------------------
(* System calls and the scheduler.                                         *)

(* Where sysenter leads. *)
LEMMA SysenterStep ==
    ASSUME Inv, SysenterEip
    PROVE  Inv'
<1> DEFINE t == fgtask
           y == Interrupted'
<1>1. eip = User /\ eip' = Syscall
  BY DEF SysenterEip
<1>2. Running /\ Running'
  BY <1>1, PlaceFacts DEF Running
<1>3. /\ StateOf(t, Interrupted, was[t]) /\ Nested(t, was[t]) /\ t \in Tasks
      /\ Interrupted.eip = eip /\ ds = 35
  BY <1>1, <1>2, CurrentFacts
<1>4. was[t] = <<>>
  BY <1>1, <1>3, PlaceTells
<1>5. /\ cs' = 8 /\ ss' = 16 /\ ds' = 35 /\ esp' = CallStack(t) /\ eflagsIF' = TRUE
      /\ UNCHANGED <<gdt, tss, ctx, fgtask, was, fault>>
  BY ONLY SysenterEip, <1>3, PlaceFacts DEF SysenterEip
<1>6. CallStack(t) \in Own(t)
  BY DEF Own
<1>7. stk \in [Stacks -> Seq(Nat)] /\ was \in [Tasks -> Seq(View)] /\ ~fault
  BY DEF Inv, TypeInv
<1>8. /\ stk' \in [Stacks -> Seq(Nat)]
      /\ \A z \in Stacks : z \notin Own(t) => stk'[z] = stk[z]
  BY <1>3, <1>6, <1>7, StackFacts DEF SysenterEip
<1>9. y.cs = 8 /\ y.ss = 16 /\ y.ds = 35 /\ y.eip = Syscall /\ y.esp = CallStack(t)
  BY <1>1, <1>5 DEF Interrupted
<1>10. StateOf(t, y, was[t])
  <2>1. Registers(t, y)
    BY <1>6, <1>9, PlaceFacts DEF Registers, Kernel, Entered
  <2>2. Calm(t, y)
    BY <1>9 DEF Calm, Entered
  <2>. QED
    BY <1>4, <2>1, <2>2 DEF StateOf
<1>11. was' = [was EXCEPT ![t] = was[t]]
  BY <1>3, <1>5, <1>7
<1>. QED
  BY <1>2, <1>3, <1>5, <1>7, <1>8, <1>10, <1>11, RunStep

(* A system call that yields. *)
LEMMA SysYieldStep ==
    ASSUME Inv, SysYield
    PROVE  Inv'
<1> DEFINE t == fgtask
<1>1. eip = Syscall
  BY DEF SysYield
<1>2. Running /\ eip # User /\ eip \in Entered
  BY ONLY <1>1, PlaceFacts DEF Running, Entered
<1>3. /\ StateOf(t, Interrupted, was[t]) /\ t \in Tasks
      /\ Interrupted.eip = eip /\ Interrupted.esp = esp /\ ds \in {16, 35}
  BY <1>2, CurrentFacts
<1>4. was[t] = <<>> /\ esp = CallStack(t)
  BY <1>2, <1>3, PlaceTells
<1>5. /\ SwitchToScheduler(Syscall)
      /\ UNCHANGED <<gdt, tss, cs, ss, ds, es, eflagsIF, stk, fgtask, was, fault>>
  BY DEF SysYield
<1>6. stk \in [Stacks -> Seq(Nat)] /\ ~fault
  BY DEF Inv, TypeInv
<1>7. Waiting(t)'
  <2>1. ctx'[t].esp = CallStack(t) /\ ctx'[t].eip = Syscall /\ was' = was /\ fgtask' = fgtask
    BY <1>3, <1>4, <1>5 DEF SwitchToScheduler, Inv, TypeInv
  <2>2. ASSUME NEW d \in {16, 35}, NEW f \in BOOLEAN,
               NEW y, y = [cs |-> 8, ss |-> 16, ds |-> d, eip |-> Syscall,
                           esp |-> CallStack(t), eflagsIF |-> f, stk |-> stk'[CallStack(t)]]
        PROVE  StateOf(t, y, was[t])
    <3>1. y.cs = 8 /\ y.ss = 16 /\ y.ds = d /\ y.eip = Syscall /\ y.esp = CallStack(t)
      BY <2>2
    <3>2. Registers(t, y)
      BY <3>1, PlaceFacts DEF Registers, Kernel, Entered, Own
    <3>3. Calm(t, y)
      BY <3>1 DEF Calm, Entered
    <3>. QED
      BY <1>4, <3>2, <3>3 DEF StateOf
  <2>. QED
    BY <2>1, <2>2 DEF Waiting, Resumed
<1>. QED
  BY <1>2, <1>3, <1>5, <1>6, <1>7, SwitchStep

(* The epilogue of a system call. *)
LEMMA LoadUserDataStep ==
    ASSUME Inv, LoadUserData
    PROVE  Inv'
<1> DEFINE t == fgtask
           y == Interrupted'
<1>1. eip \in {Syscall, Epilogue} /\ eip' = Sysexit
  BY DEF LoadUserData
<1>2. Running /\ Running' /\ eip # User /\ eip \in Entered
  BY <1>1, PlaceFacts DEF Running, Entered
<1>3. /\ StateOf(t, Interrupted, was[t]) /\ Nested(t, was[t]) /\ t \in Tasks
      /\ Interrupted.eip = eip /\ Interrupted.esp = esp /\ cs = 8 /\ ss = 16
  BY <1>2, CurrentFacts
<1>4. was[t] = <<>> /\ esp = CallStack(t)
  BY <1>2, <1>3, PlaceTells
<1>5. /\ ds' = 35 /\ Refuses(~DataAt(35, CPL))
      /\ UNCHANGED <<gdt, tss, cs, ss, esp, eflagsIF, stk, ctx, fgtask, was>>
  BY PlaceFacts DEF LoadUserData
<1>6. ~fault'
  <2>1. CPL = 0
    <3>1. 8 % 4 = 0
      OBVIOUS
    <3>. QED
      BY <1>3, <3>1 DEF CPL, RPL
  <2>2. DataAt(35, 0) /\ ~fault
    BY Selectors DEF Inv, TableInv
  <2>. QED
    BY <1>5, <2>1, <2>2 DEF Refuses
<1>7. stk \in [Stacks -> Seq(Nat)] /\ was \in [Tasks -> Seq(View)] /\ eflagsIF \in BOOLEAN
  BY DEF Inv, TypeInv
<1>8. y.cs = 8 /\ y.ss = 16 /\ y.ds = 35 /\ y.eip = Sysexit /\ y.esp = CallStack(t)
  BY <1>1, <1>3, <1>4, <1>5 DEF Interrupted
<1>9. StateOf(t, y, was[t])
  <2>1. Registers(t, y)
    BY <1>8, PlaceFacts DEF Registers, Kernel, Entered, Own
  <2>2. Calm(t, y)
    BY <1>8 DEF Calm, Entered
  <2>. QED
    BY <1>4, <2>1, <2>2 DEF StateOf
<1>10. was' = [was EXCEPT ![t] = was[t]]
  BY <1>3, <1>5, <1>7
<1>. QED
  BY <1>2, <1>3, <1>5, <1>6, <1>7, <1>9, <1>10, RunStep

(* Back to the program. *)
LEMMA SysexitStep ==
    ASSUME Inv, SysexitEip
    PROVE  Inv'
<1> DEFINE t == fgtask
           y == Interrupted'
<1>1. eip = Sysexit /\ eip' = User
  BY DEF SysexitEip
<1>2. Running /\ Running' /\ eip # User /\ eip \in Entered
  BY <1>1, PlaceFacts DEF Running, Entered
<1>3. /\ StateOf(t, Interrupted, was[t]) /\ Nested(t, was[t]) /\ t \in Tasks
      /\ Interrupted.eip = eip /\ Interrupted.ds = ds
  BY <1>2, CurrentFacts
<1>4. was[t] = <<>>
  BY <1>2, <1>3, PlaceTells
<1>5. ds = 35
  BY <1>1, <1>3, PlaceFacts DEF StateOf, Registers
<1>6. /\ cs' = 27 /\ ss' = 35 /\ ds' = 35 /\ esp' = UserStack(t)
      /\ UNCHANGED <<gdt, tss, eflagsIF, stk, ctx, fgtask, was, fault>>
  BY <1>5, PlaceFacts DEF SysexitEip
<1>7. /\ stk \in [Stacks -> Seq(Nat)] /\ was \in [Tasks -> Seq(View)] /\ ~fault
      /\ eflagsIF \in BOOLEAN
  BY DEF Inv, TypeInv
<1>8. /\ y.cs = 27 /\ y.ss = 35 /\ y.ds = 35 /\ y.eip = User /\ y.esp = UserStack(t)
      /\ y.stk = <<>>
  BY <1>1, <1>3, <1>6, StackFacts DEF Interrupted
<1>9. StateOf(t, y, was[t])
  BY <1>4, <1>8 DEF StateOf, Registers, Calm
<1>10. was' = [was EXCEPT ![t] = was[t]]
  BY <1>3, <1>6, <1>7
<1>. QED
  BY <1>2, <1>3, <1>6, <1>7, <1>9, <1>10, RunStep

(* The scheduler chooses a task. *)
LEMMA DispatchStep ==
    ASSUME Inv, NEW t \in Tasks, Dispatch(t)
    PROVE  Inv'
<1>1. /\ eip = Scheduler /\ eip' = SchedulerLtr /\ fgtask' = t
      /\ tss' = [esp0 |-> KStack(t), ss0 |-> 16]
      /\ UNCHANGED <<cs, ss, ds, esp, eflagsIF, stk, ctx, was, fault>>
  BY PlaceFacts DEF Dispatch
<1>2. gdt' = [gdt EXCEPT ![5] = TssEntry]
  BY PlaceFacts DEF Dispatch, gdt_set_entry, TssEntry
<1>3. ~Running /\ ~Running'
  BY <1>1 DEF Running
<1>4. TypeInv'
  <2>1. TypeInv
    BY DEF Inv
  <2>2. tss'.esp0 \in Stacks \cup {BootStack} /\ tss'.ss0 \in {0, KData}
    BY <1>1, StackFacts, PlaceFacts
  <2>. QED
    BY <1>1, <2>1, <2>2 DEF TypeInv
<1>5. NestedInv'
  BY <1>1 DEF Inv, NestedInv
<1>6. CurrentInv'
  BY <1>3 DEF CurrentInv
<1>7. WaitingInv'
  <2>1. \A u \in Tasks : Waiting(u)
    BY <1>3 DEF Inv, WaitingInv
  <2>2. ASSUME NEW u \in Tasks PROVE Waiting(u)'
    BY <1>1, <2>1, <2>2, Others DEF Inv
  <2>. QED
    BY <2>2 DEF WaitingInv
<1>8. SchedulerInv'
  BY <1>1, <1>3 DEF Inv, SchedulerInv
<1>9. TssInv'
  BY <1>1 DEF TssInv
<1>10. TableInv'
  <2>1. SegmentsKept
    BY DEF Inv, TableInv
  <2>2. gdt'[5] = TssEntry /\ SegmentsKept'
    BY <1>2, <2>1 DEF SegmentsKept
  <2>. QED
    BY <2>2, TssFacts DEF TableInv, AvailableTss
<1>11. ~fault'
  BY <1>1 DEF Inv
<1>. QED
  BY <1>4, <1>5, <1>6, <1>7, <1>8, <1>9, <1>10, <1>11 DEF Inv

(* ltr, and the switch to the task. *)
LEMMA LtrSwtchStep ==
    ASSUME Inv, LtrSwtch
    PROVE  Inv'
<1> DEFINE t == fgtask
<1>1. /\ eip = SchedulerLtr /\ esp' = ctx[t].esp /\ eip' = ctx[t].eip
      /\ UNCHANGED <<tss, cs, ss, ds, eflagsIF, stk, ctx, fgtask, was>>
  BY DEF LtrSwtch
<1>2. /\ Refuses(~AvailableTss(gdt[5])) /\ gdt' = [gdt EXCEPT ![5].access = @ \cup {1}]
  BY PlaceFacts DEF LtrSwtch
<1>3. ~Running
  BY <1>1 DEF Running
<1>4. /\ TypeInv /\ t \in Tasks /\ ctx[t].eip \in {Syscall, Epilogue, IrqReturn}
      /\ ctx[t].esp \in Own(t) /\ eflagsIF \in BOOLEAN /\ stk \in [Stacks -> Seq(Nat)]
  BY DEF Inv, TypeInv
<1>5. Running'
  <2>1. {Syscall, Epilogue, IrqReturn} \cap {Scheduler, SchedulerLtr} = {}
    BY PlaceFacts
  <2>2. eip' \in {Syscall, Epilogue, IrqReturn}
    BY <1>1, <1>4
  <2>. QED
    BY <2>1, <2>2 DEF Running
<1>6. cs = 8 /\ ss = 16 /\ ds \in {16, 35}
  BY <1>3 DEF Inv, SchedulerInv
<1>7. TypeInv'
  BY <1>1, <1>4 DEF TypeInv
<1>8. NestedInv'
  BY <1>1 DEF Inv, NestedInv
<1>9. CurrentInv'
  <2>1. ctx[t].esp \in Stacks
    BY <1>4, StackFacts DEF Own
  <2>2. Interrupted' = Resumed(t, ds, eflagsIF)
    BY <1>1, <1>6, <2>1 DEF Interrupted, Resumed
  <2>3. Waiting(t)
    BY <1>3, <1>4 DEF Inv, WaitingInv
  <2>4. StateOf(t, Resumed(t, ds, eflagsIF), was[t])
    BY <1>4, <1>6, <2>3 DEF Waiting
  <2>. QED
    BY <1>1, <2>2, <2>4 DEF CurrentInv
<1>10. WaitingInv'
  <2>1. \A u \in Tasks : Waiting(u)
    BY <1>3 DEF Inv, WaitingInv
  <2>2. ASSUME NEW u \in Tasks PROVE Waiting(u)'
    BY <1>1, <1>4, <2>1, <2>2, Others
  <2>. QED
    BY <2>2 DEF WaitingInv
<1>11. SchedulerInv'
  BY <1>5 DEF SchedulerInv
<1>12. TssInv'
  <2>1. eip # Scheduler
    BY ONLY <1>1, PlaceFacts
  <2>. QED
    BY <1>1, <2>1 DEF Inv, TssInv
<1>13. TableInv'
  <2>1. SegmentsKept /\ AvailableTss(gdt[5])
    BY <1>1 DEF Inv, TableInv
  <2>2. SegmentsKept'
    BY <1>2, <2>1 DEF SegmentsKept
  <2>3. eip' # SchedulerLtr
    BY <1>5 DEF Running
  <2>. QED
    BY <2>2, <2>3 DEF TableInv
<1>14. ~fault'
  BY <1>1, <1>2 DEF Inv, TableInv, Refuses
<1>. QED
  BY <1>7, <1>8, <1>9, <1>10, <1>11, <1>12, <1>13, <1>14 DEF Inv

-----------------------------------------------------------------------------
(* The first state, every step, and what follows. *)

(* The invariant holds when the scheduler starts. *)
LEMMA InvInit == Init => Inv
<1>. SUFFICES ASSUME Init PROVE Inv
  OBVIOUS
<1>1. /\ cs = 8 /\ ss = 16 /\ ds = 16 /\ eip = Scheduler /\ esp = BootStack
      /\ eflagsIF = FALSE /\ ~fault /\ fgtask \in Tasks
      /\ stk = [s \in Stacks |-> <<>>] /\ was = [t \in Tasks |-> <<>>]
      /\ ctx = [t \in Tasks |-> [esp |-> CallStack(t), eip |-> Epilogue]]
      /\ gdt = gdt_init /\ tss = [esp0 |-> BootStack, ss0 |-> 0]
  BY PlaceFacts DEF Init
<1>2. ~Running
  BY <1>1 DEF Running
<1>3. TypeInv
  <2>1. \A t \in Tasks : CallStack(t) \in Nat /\ CallStack(t) \in Own(t)
    BY StackFacts DEF Own
  <2>2. ctx \in [Tasks -> [esp : Nat, eip : {Syscall, Epilogue, IrqReturn}]]
    BY <1>1, <2>1
  <2>3. \A t \in Tasks : ctx[t].esp \in Own(t)
    BY <1>1, <2>1
  <2>4. stk \in [Stacks -> Seq(Nat)] /\ was \in [Tasks -> Seq(View)]
    BY <1>1
  <2>. QED
    BY <1>1, <2>2, <2>3, <2>4 DEF TypeInv
<1>4. NestedInv
  <2>1. MaxDepth \in Nat
    BY TrapsAssumption
  <2>2. \A t \in Tasks : was[t] = <<>>
    BY <1>1
  <2> DEFINE e == <<>>
  <2>3. e \in Seq(View) /\ Len(e) = 0
    OBVIOUS
  <2>4. \A t \in Tasks : Nested(t, e)
    BY <2>1, <2>3 DEF Nested
  <2>. QED
    BY <2>2, <2>4 DEF NestedInv
<1>5. CurrentInv
  BY <1>2 DEF CurrentInv
<1>6. WaitingInv
  <2>1. ASSUME NEW t \in Tasks, NEW d \in {16, 35}, NEW f \in BOOLEAN
        PROVE  StateOf(t, Resumed(t, d, f), was[t])
    <3> DEFINE y == Resumed(t, d, f)
    <3>1. y.cs = 8 /\ y.ss = 16 /\ y.ds = d /\ y.eip = Epilogue /\ y.esp = CallStack(t)
      BY <1>1 DEF Resumed
    <3>. HIDE DEF y
    <3>2. Registers(t, y)
      BY ONLY <3>1, PlaceFacts DEF Registers, Kernel, Entered, Own
    <3>3. Calm(t, y)
      BY <3>1 DEF Calm, Entered
    <3>4. was[t] = <<>>
      BY <1>1
    <3>5. StateOf(t, y, was[t])
      BY <3>2, <3>3, <3>4 DEF StateOf
    <3>. QED
      BY <3>5 DEF y
  <2>. QED
    BY <2>1 DEF WaitingInv, Waiting
<1>7. SchedulerInv
  BY <1>1 DEF SchedulerInv
<1>8. TssInv
  BY <1>1 DEF TssInv
<1>9. TableInv
  <2>1. SegmentsKept
    BY <1>1, InitialTable DEF SegmentsKept
  <2>. QED
    BY ONLY <1>1, <2>1, PlaceFacts DEF TableInv
<1>. QED
  BY <1>1, <1>3, <1>4, <1>5, <1>6, <1>7, <1>8, <1>9 DEF Inv

(* Every step keeps it. *)
LEMMA InvNext == Inv /\ [Next]_vars => Inv'
<1>. SUFFICES ASSUME Inv, [Next]_vars PROVE Inv'
  OBVIOUS
<1>1. ASSUME NEW v \in Vectors, Interrupt(v) PROVE Inv'
  BY <1>1, InterruptStep
<1>2. ASSUME NEW v \in Vectors, HandleIrq(v) PROVE Inv'
  BY <1>2, HandleStep
<1>3. CASE IrqPop
  BY <1>3, IrqPopStep
<1>4. CASE IrqIretd
  BY <1>4, IrqIretdStep
<1>5. CASE SysenterEip
  BY <1>5, SysenterStep
<1>6. CASE SysYield
  BY <1>6, SysYieldStep
<1>7. CASE LoadUserData
  BY <1>7, LoadUserDataStep
<1>8. CASE SysexitEip
  BY <1>8, SysexitStep
<1>9. ASSUME NEW t \in Tasks, Dispatch(t) PROVE Inv'
  BY <1>9, DispatchStep
<1>10. CASE LtrSwtch
  BY <1>10, LtrSwtchStep
<1>11. CASE UNCHANGED vars
  <2>1. UNCHANGED <<gdt, tss, cs, ss, ds, es, eip, esp, eflagsIF, stk, ctx, fgtask, was, fault>>
    BY <1>11 DEF vars, cpu
  <2>. QED
    BY <2>1 DEF Inv, TypeInv, NestedInv, CurrentInv, WaitingInv, SchedulerInv, TssInv,
                TableInv, Running, SegmentsKept, Waiting, Resumed, Interrupted, AvailableTss
<1>. QED
  BY <1>1, <1>2, <1>3, <1>4, <1>5, <1>6, <1>7, <1>8, <1>9, <1>10, <1>11 DEF Next

(* It is an invariant. *)
LEMMA InvHolds == Spec => []Inv
BY InvInit, InvNext, PTL DEF Spec

FaultType == fault \in BOOLEAN

(* es is lgdt's, or null. *)
EsInv == es \in {Null, KData}

(* Only iretd to ring 3 changes es, and it leaves nothing of it. *)
LEMMA EsLost ==
    ASSUME Inv, EsInv, [Next]_vars
    PROVE  es' = IF IrqIretd /\ RPL(cs') = 3 THEN Null ELSE es
<1>1. ~DataAt(Null, 3) /\ ~DataAt(KData, 3)
  <2>1. ~DataAt(16, 3)
    BY Selectors DEF Inv, TableInv
  <2>2. 0 \div 8 = 0
    OBVIOUS
  <2>3. ~IsSelector(0)
    BY <2>2 DEF IsSelector
  <2>. QED
    BY <2>1, <2>3 DEF DataAt, Null, KData
<1>2. CASE IrqIretd
  <2>1. cs' = Top(2)
    BY <1>2 DEF IrqIretd
  <2>2. CASE RPL(Top(2)) = 3
    <3>1. es' = IF DataAt(es, 3) THEN es ELSE Null
      BY <1>2, <2>2 DEF IrqIretd
    <3>2. ~DataAt(es, 3)
      BY <1>1 DEF EsInv
    <3>. QED
      BY <1>2, <2>1, <2>2, <3>1, <3>2
  <2>3. CASE RPL(Top(2)) # 3
    <3>1. es' = es
      BY <1>2, <2>3 DEF IrqIretd
    <3>. QED
      BY <2>1, <2>3, <3>1
  <2>. QED
    BY <2>2, <2>3
<1>3. ASSUME ~IrqIretd PROVE es' = es
  BY <1>3 DEF Next, vars, cpu, Interrupt, HandleIrq, IrqPop, SysenterEip, SysYield,
              LoadUserData, SysexitEip, Dispatch, LtrSwtch
<1>. QED
  BY <1>2, <1>3

(* es is never anything else. *)
LEMMA EsTyped == Spec => []EsInv
<1>1. Init => EsInv
  BY DEF Init, EsInv
<1>2. Inv /\ EsInv /\ [Next]_vars => EsInv'
  BY EsLost DEF EsInv
<1>. QED
  BY <1>1, <1>2, InvHolds, PTL DEF Spec

(* The ghost that the processor sets is a truth value. *)
LEMMA FaultTyped == Spec => []FaultType
<1>1. Init => FaultType
  BY DEF Init, FaultType
<1>2. \A c : Refuses(c) => fault' \in BOOLEAN
  BY DEF Refuses
<1>3. FaultType /\ [Next]_vars => FaultType'
  <2>. SUFFICES ASSUME fault \in BOOLEAN, [Next]_vars PROVE fault' \in BOOLEAN
    BY DEF FaultType
  <2>1. ASSUME NEW v \in Vectors, Interrupt(v) PROVE fault' \in BOOLEAN
    <3>1. CASE CPL = 3
      BY <1>2, <2>1, <3>1 DEF Interrupt
    <3>2. CASE CPL # 3
      BY <1>2, <2>1, <3>2 DEF Interrupt
    <3>. QED
      BY <3>1, <3>2
  <2>2. ASSUME NEW v \in Vectors, HandleIrq(v) PROVE fault' \in BOOLEAN
    BY <1>2, <2>2 DEF HandleIrq
  <2>3. CASE IrqPop
    BY <1>2, <2>3 DEF IrqPop
  <2>4. CASE IrqIretd
    <3>1. CASE RPL(Top(2)) = 3
      BY <1>2, <2>4, <3>1 DEF IrqIretd
    <3>2. CASE RPL(Top(2)) # 3
      BY <1>2, <2>4, <3>2 DEF IrqIretd
    <3>. QED
      BY <3>1, <3>2
  <2>5. CASE SysenterEip
    BY <2>5 DEF SysenterEip
  <2>6. CASE SysYield
    BY <2>6 DEF SysYield
  <2>7. CASE LoadUserData
    BY <1>2, <2>7 DEF LoadUserData
  <2>8. CASE SysexitEip
    BY <2>8 DEF SysexitEip
  <2>9. ASSUME NEW t \in Tasks, Dispatch(t) PROVE fault' \in BOOLEAN
    BY <2>9 DEF Dispatch
  <2>10. CASE LtrSwtch
    BY <1>2, <2>10 DEF LtrSwtch
  <2>11. CASE UNCHANGED vars
    BY <2>11 DEF vars
  <2>. QED
    BY <2>1, <2>2, <2>3, <2>4, <2>5, <2>6, <2>7, <2>8, <2>9, <2>10, <2>11 DEF Next
<1>. QED
  BY <1>1, <1>3, PTL DEF Spec

(* The registers, tables and stacks keep their types; a place in the code, a
   stack and a selector are ones the kernel has. *)
THEOREM TypeCorrect == Spec => []TypeOK
<1>1. Inv /\ FaultType /\ EsInv => TypeOK
  <2>. SUFFICES ASSUME Inv, fault \in BOOLEAN, EsInv PROVE TypeOK
    BY DEF FaultType
  <2>1. DOMAIN gdt = 0 .. 5
    BY DEF Inv, TableInv, SegmentsKept
  <2>2. /\ tss.esp0 \in Stacks \cup {BootStack} /\ tss.ss0 \in {0, KData}
        /\ eflagsIF \in BOOLEAN /\ stk \in [Stacks -> Seq(Nat)] /\ fgtask \in Tasks
    BY DEF Inv, TypeInv
  <2>3. \A t \in Tasks : /\ ctx[t].esp \in {KStack(t), CallStack(t)}
                         /\ ctx[t].eip \in {Syscall, Epilogue, IrqReturn}
    BY DEF Inv, TypeInv, Own
  <2>4. \A t \in Tasks : Len(was[t]) <= MaxDepth
    BY DEF Inv, NestedInv, Nested
  <2>5. {cs, ss, ds} \subseteq 0 .. 47
    <3>1. CASE Running
      <4>1. cs \in {8, 27} /\ ss \in {16, 35} /\ ds \in {16, 35}
        BY <3>1, CurrentFacts
      <4>. QED
        BY <4>1
    <3>2. CASE ~Running
      BY <3>2 DEF Inv, SchedulerInv
    <3>. QED
      BY <3>1, <3>2
  <2>6. eip \in Places /\ esp \in Stacks \cup {BootStack} \cup {UserStack(t) : t \in Tasks}
    <3>1. CASE Running
      <4>1. /\ Registers(fgtask, Interrupted) /\ Interrupted.eip = eip /\ fgtask \in Tasks
            /\ eip = User => esp = UserStack(fgtask)
            /\ eip # User => esp \in Stacks
        BY <3>1, CurrentFacts DEF StateOf
      <4>2. eip \in Kernel \cup {User}
        BY <4>1 DEF Registers
      <4>. QED
        BY <4>1, <4>2 DEF Places, Kernel, Entered
    <3>2. CASE ~Running
      BY <3>2 DEF Inv, SchedulerInv, Places, Running
    <3>. QED
      BY <3>1, <3>2
  <2>. QED
    BY <2>1, <2>2, <2>3, <2>4, <2>5, <2>6 DEF TypeOK, EsInv
<1>. QED
  BY <1>1, InvHolds, FaultTyped, EsTyped, PTL

(* The descriptor tables, the selectors in x86.S, irq.py and task.c and the
   order of the segments that sysenter and sysexit assume agree: whatever
   interrupts, system calls and dispatches there were, the processor refuses
   nothing, and code runs in the ring it is meant for. *)
THEOREM KernelIsProtected == Spec => []Protected
<1>1. Inv => Protected
  <2>. SUFFICES ASSUME Inv PROVE Protected
    OBVIOUS
  <2>1. /\ CodeAt(8, 0) /\ CodeAt(27, 3) /\ StackAt(16, 0) /\ StackAt(35, 3)
        /\ DataAt(16, 0) /\ DataAt(35, 0) /\ DataAt(35, 3) /\ ~fault
    BY Selectors DEF Inv, TableInv
  <2>2. 8 % 4 = 0 /\ 27 % 4 = 3
    OBVIOUS
  <2>3. CASE eip = User
    <3>1. Running
      BY <2>3, PlaceFacts DEF Running
    <3>2. cs = 27 /\ ss = 35 /\ ds = 35
      BY <2>3, <3>1, CurrentFacts
    <3>. QED
      BY <2>1, <2>2, <2>3, <3>2 DEF Protected, CPL, RPL
  <2>4. CASE eip # User
    <3>1. cs = 8 /\ ss = 16 /\ ds \in {16, 35}
      <4>1. CASE Running
        BY <2>4, <4>1, CurrentFacts
      <4>2. CASE ~Running
        BY <4>2 DEF Inv, SchedulerInv
      <4>. QED
        BY <4>1, <4>2
    <3>. QED
      BY <2>1, <2>2, <2>4, <3>1 DEF Protected, CPL, RPL
  <2>. QED
    BY <2>3, <2>4
<1>. QED
  BY <1>1, InvHolds, PTL

(* The code that an interrupt came into goes on with its own stack, flags and
   selectors other than es, although the stubs of irq.py end in a task switch each
   time and interrupts nest; es becomes null when an interrupt goes back to a
   program, and nothing else ever changes it. *)
THEOREM InterruptsAreTransparent == Spec => Transparent
<1>1. Inv /\ EsInv /\ [Next]_vars =>
         /\ IrqIretd => Interrupted' = Last(was[fgtask])
         /\ es' = IF IrqIretd /\ RPL(cs') = 3 THEN Null ELSE es
  <2>1. Inv => (IrqIretd => Interrupted' = Last(was[fgtask]))
    BY Returns DEF Last
  <2>. QED
    BY <2>1, EsLost
<1>. QED
  BY <1>1, InvHolds, EsTyped, PTL DEF Transparent, Spec
=============================================================================
