----------------------------- MODULE KbdProofs ------------------------------
(***************************************************************************)
(* Proofs about the keyboard, for buffers of every size, any number of     *)
(* readers and keys, and every id of the local APIC.                       *)
(***************************************************************************)
EXTENDS Kbd, WellFoundedInduction, FiniteSetTheorems, SequenceTheorems, TLAPS

-----------------------------------------------------------------------------
(* Induction over the numbers, for a set of them in place of a predicate.  *)

(* A set of numbers that is not empty has a least one. *)
LEMMA Least ==
    ASSUME NEW T \in SUBSET Nat, T # {}
    PROVE  \E x \in T : \A y \in T : x <= y
<1>1. \E x \in T : \A y \in T : ~(<<y, x>> \in OpToRel(<, Nat))
  BY NatLessThanWellFounded, WFMin
<1>2. \A x, y \in Nat : <<y, x>> \in OpToRel(<, Nat) <=> y < x
  BY DEF OpToRel
<1>3. \E x \in T : \A y \in T : ~(y < x)
  BY <1>1, <1>2
<1>. QED
  BY <1>3

(* A set that has the first number up to m, and the next with each, has all. *)
LEMMA Induction ==
    ASSUME NEW m \in Nat, NEW S \in SUBSET (1 .. m),
           m > 0 => 1 \in S,
           \A i \in S : i < m => i + 1 \in S
    PROVE  S = 1 .. m
<1>. SUFFICES ASSUME S # 1 .. m PROVE FALSE
  OBVIOUS
<1> DEFINE T == (1 .. m) \ S
<1>1. T \in SUBSET Nat /\ T # {}
  <2>1. PICK i \in 1 .. m : i \notin S
    OBVIOUS
  <2>. QED
    BY <2>1
<1>2. PICK x \in T : \A y \in T : x <= y
  BY <1>1, Least
<1>3. x \in 1 .. m /\ x # 1 /\ x - 1 \in 1 .. m /\ x - 1 < m
  BY <1>2
<1>4. x - 1 \in S
  BY <1>2, <1>3
<1>5. (x - 1) + 1 = x
  BY <1>3
<1>. QED
  BY <1>2, <1>3, <1>4, <1>5

-----------------------------------------------------------------------------
(* FlattenSeq of the community modules, which is defined by recursion.     *)

IsFlat(f, ss, m) ==
    f = [i \in 1 .. m |-> IF i = 1 THEN ss[i] ELSE f[i - 1] \o ss[i]]

(* The equation says what each value is. *)
LEMMA FlatValues ==
    ASSUME NEW f, NEW ss, NEW m \in Nat, IsFlat(f, ss, m)
    PROVE  \A i \in 1 .. m : f[i] = IF i = 1 THEN ss[i] ELSE f[i - 1] \o ss[i]
BY DEF IsFlat

(* There is a function that satisfies the equation, of each length. *)
LEMMA FlatExists ==
    ASSUME NEW ss, NEW m \in Nat
    PROVE  \E f : IsFlat(f, ss, m)
<1> DEFINE S == {k \in 1 .. m : \E f : IsFlat(f, ss, k)}
<1>1. CASE m = 0
  <2>1. IsFlat([i \in 1 .. 0 |-> 0], ss, 0)
    BY DEF IsFlat
  <2>. QED
    BY <1>1, <2>1
<1>2. CASE m > 0
  <2>1. 1 \in S
    <3> DEFINE f == [i \in 1 .. 1 |-> ss[i]]
    <3>1. IsFlat(f, ss, 1)
      BY DEF IsFlat
    <3>. QED
      BY <1>2, <3>1
  <2>2. ASSUME NEW k \in S, k < m PROVE k + 1 \in S
    <3>0. k \in 1 .. m
      OBVIOUS
    <3>1. PICK f : IsFlat(f, ss, k)
      OBVIOUS
    <3> DEFINE g == [i \in 1 .. k + 1 |-> IF i = k + 1 THEN f[k] \o ss[i] ELSE f[i]]
    <3>2. ASSUME NEW i \in 1 .. k + 1
          PROVE  g[i] = IF i = 1 THEN ss[i] ELSE g[i - 1] \o ss[i]
      <4>1. CASE i = k + 1
        <5>1. i # 1 /\ g[i - 1] = f[k]
          BY <3>0, <4>1
        <5>. QED
          BY <4>1, <5>1
      <4>2. CASE i # k + 1
        <5>1. i \in 1 .. k /\ g[i] = f[i]
          BY <3>0, <4>2
        <5>2. f[i] = IF i = 1 THEN ss[i] ELSE f[i - 1] \o ss[i]
          BY <3>1, <5>1 DEF IsFlat
        <5>3. i # 1 => g[i - 1] = f[i - 1]
          BY <3>0, <5>1
        <5>. QED
          BY <5>1, <5>2, <5>3
      <4>. QED
        BY <4>1, <4>2
    <3>3. IsFlat(g, ss, k + 1)
      BY <3>2 DEF IsFlat
    <3>4. k + 1 \in 1 .. m
      BY <2>2, <3>0
    <3>. QED
      BY <3>3, <3>4
  <2>3. S = 1 .. m
    <3>. HIDE DEF S
    <3>1. S \in SUBSET (1 .. m)
      BY DEF S
    <3>. QED
      BY <2>1, <2>2, <3>1, Induction
  <2>. QED
    BY <1>2, <2>3
<1>. QED
  BY <1>1, <1>2

(* FlattenSeq is its last value. *)
LEMMA FlatLast ==
    ASSUME NEW ss, NEW m, m = Len(ss), m \in Nat, m # 0
    PROVE  \E f : IsFlat(f, ss, m) /\ FlattenSeq(ss) = f[m]
<1> DEFINE F == CHOOSE f : f = [i \in 1 .. Len(ss) |->
                                  IF i = 1 THEN ss[i] ELSE f[i - 1] \o ss[i]]
<1>1. \E f : IsFlat(f, ss, Len(ss))
  BY FlatExists
<1>2. IsFlat(F, ss, Len(ss))
  BY <1>1 DEF IsFlat
<1>3. FlattenSeq(ss) = F[m]
  BY DEF FlattenSeq
<1>. HIDE DEF F
<1>. QED
  BY <1>2, <1>3

(* It is a sequence of elements of the sequences. *)
LEMMA FlatType ==
    ASSUME NEW T, NEW ss \in Seq(Seq(T))
    PROVE  FlattenSeq(ss) \in Seq(T)
<1>0. Len(ss) \in Nat
  OBVIOUS
<1>1. CASE Len(ss) = 0
  BY <1>1 DEF FlattenSeq
<1>2. CASE Len(ss) # 0
  <2>0. PICK f : IsFlat(f, ss, Len(ss)) /\ FlattenSeq(ss) = f[Len(ss)]
    BY <1>0, <1>2, FlatLast
  <2>1. \A i \in 1 .. Len(ss) : f[i] = IF i = 1 THEN ss[i] ELSE f[i - 1] \o ss[i]
    BY <1>0, <2>0, FlatValues
  <2> DEFINE S == {i \in 1 .. Len(ss) : f[i] \in Seq(T)}
  <2>2. 1 \in S
    BY <1>0, <1>2, <2>1
  <2>3. ASSUME NEW i \in S, i < Len(ss) PROVE i + 1 \in S
    <3> DEFINE j == i + 1
    <3>1. j \in 1 .. Len(ss) /\ j # 1 /\ j - 1 = i
      BY <1>0, <2>3
    <3>. HIDE DEF j
    <3>2. f[j] = f[i] \o ss[j]
      BY <2>1, <3>1
    <3>3. f[i] \in Seq(T) /\ ss[j] \in Seq(T)
      BY <3>1
    <3>4. f[j] \in Seq(T)
      BY <3>2, <3>3
    <3>. QED
      BY <3>1, <3>4 DEF j
  <2>4. S = 1 .. Len(ss)
    <3>. HIDE DEF S
    <3>1. S \in SUBSET (1 .. Len(ss))
      BY DEF S
    <3>. QED
      BY <1>0, <2>2, <2>3, <3>1, Induction
  <2>5. Len(ss) \in 1 .. Len(ss)
    BY <1>0, <1>2
  <2>. QED
    BY <2>0, <2>4, <2>5
<1>. QED
  BY <1>1, <1>2

(* One more sequence comes at the end. *)
LEMMA FlatAppend ==
    ASSUME NEW T, NEW ss \in Seq(Seq(T)), NEW s \in Seq(T)
    PROVE  FlattenSeq(Append(ss, s)) = FlattenSeq(ss) \o s
<1> DEFINE tt == Append(ss, s)
           m == Len(ss)
<1>0. /\ m \in Nat /\ m = Len(ss) /\ m + 1 = Len(tt) /\ m + 1 \in Nat /\ m + 1 # 0
      /\ tt[m + 1] = s /\ \A i \in 1 .. m : tt[i] = ss[i]
  OBVIOUS
<1>. HIDE DEF tt, m
<1>1. PICK g : IsFlat(g, tt, m + 1) /\ FlattenSeq(tt) = g[m + 1]
  BY <1>0, FlatLast
<1>4. \A i \in 1 .. m + 1 : g[i] = IF i = 1 THEN tt[i] ELSE g[i - 1] \o tt[i]
  BY <1>0, <1>1, FlatValues
<1>2. CASE m = 0
  <2>1. FlattenSeq(ss) = <<>>
    BY <1>2, ss = <<>> DEF FlattenSeq, m
  <2>2. g[1] = s
    BY <1>0, <1>2, <1>4
  <2>3. <<>> \o s = s
    OBVIOUS
  <2>. QED
    BY <1>1, <1>2, <2>1, <2>2, <2>3 DEF tt
<1>3. CASE m # 0
  <2>0. PICK f : IsFlat(f, ss, m) /\ FlattenSeq(ss) = f[m]
    BY <1>0, <1>3, FlatLast
  <2>1. \A i \in 1 .. m : f[i] = IF i = 1 THEN ss[i] ELSE f[i - 1] \o ss[i]
    <3>1. m \in Nat
      BY <1>0
    <3>. HIDE DEF m
    <3>. QED
      BY <2>0, <3>1, FlatValues
  <2> DEFINE S == {i \in 1 .. m : f[i] = g[i]}
  <2>2. 1 \in S
    BY <1>0, <1>3, <1>4, <2>1
  <2>3. ASSUME NEW i \in S, i < m PROVE i + 1 \in S
    <3> DEFINE j == i + 1
    <3>1. j \in 1 .. m /\ j # 1 /\ j - 1 = i /\ j \in 1 .. m + 1
      BY <1>0, <2>3
    <3>. HIDE DEF j
    <3>2. f[j] = f[i] \o ss[j] /\ g[j] = g[i] \o tt[j]
      BY <1>4, <2>1, <3>1
    <3>3. f[i] = g[i] /\ ss[j] = tt[j]
      BY <1>0, <3>1
    <3>. QED
      BY <3>1, <3>2, <3>3 DEF j
  <2>4. S = 1 .. m
    <3>. HIDE DEF S
    <3>1. S \in SUBSET (1 .. m)
      BY DEF S
    <3>. QED
      BY <1>0, <2>2, <2>3, <3>1, Induction
  <2>5. f[m] = g[m]
    BY <1>0, <1>3, <2>4
  <2>6. g[m + 1] = g[m] \o s
    <3>1. m + 1 \in 1 .. m + 1 /\ m + 1 # 1 /\ (m + 1) - 1 = m
      BY <1>0, <1>3
    <3>. QED
      BY <1>0, <1>4, <3>1
  <2>. QED
    BY <1>1, <2>0, <2>5, <2>6 DEF tt
<1>. QED
  BY <1>2, <1>3
-----------------------------------------------------------------------------
(* The assumptions one by one, and the numbers behind names. *)
LEMMA Parameters ==
    /\ BufSize \in Nat /\ BufSize > 0 /\ MaxKeys \in Nat
    /\ LapicId \in Nat
    /\ IOAPIC_DISABLE = 65536 /\ IdShift \in Nat /\ IdShift * LapicId \in Nat
    /\ LapicId * IdShift \in Nat
BY ApicAssumption, KbdAssumption DEF IOAPIC_DISABLE, IdShift

(* What apic_init writes, and where: to the I/O APIC's index a register of its. *)
Registers == {"ioregsel", "iowin", "IA32_APIC_BASE", "APIC_SPUR_REG", "APIC_TMR_INIT_REG",
              "APIC_LVT_TMR_REG", "PIC_M_CMD", "PIC_S_CMD", "PIC_M_DATA", "PIC_S_DATA"}
Writes == {w \in [to : Registers, val : Nat] : w.to = "ioregsel" => w.val \in 16 .. 63}

(* One write. *)
LEMMA WriteType ==
    ASSUME NEW to \in Registers, NEW val \in Nat, to = "ioregsel" => val \in 16 .. 63
    PROVE  Write(to, val) \in Seq(Writes)
<1>1. [to |-> to, val |-> val] \in Writes
  BY DEF Writes
<1>. QED
  BY <1>1 DEF Write

(* One after the other. *)
LEMMA Both == \A s, t \in Seq(Writes) : s \o t \in Seq(Writes)
OBVIOUS

(* The four writes of a redirection. *)
LEMMA RedirectType ==
    ASSUME NEW from \in Lines, NEW to \in Nat, NEW flags \in Nat
    PROVE  ioapic_redirect(from, to, flags) \in Seq(Writes)
<1>1. /\ 16 + 2 * from \in 16 .. 63 /\ 16 + 2 * from + 1 \in 16 .. 63
      /\ to + flags \in Nat /\ LapicId * IdShift \in Nat
  BY Parameters DEF Lines
<1>2. /\ \A val \in 16 .. 63 : Write("ioregsel", val) \in Seq(Writes)
      /\ \A val \in Nat : Write("iowin", val) \in Seq(Writes)
  <2>1. ASSUME NEW val \in 16 .. 63 PROVE Write("ioregsel", val) \in Seq(Writes)
    BY WriteType, SMT DEF Registers
  <2>2. ASSUME NEW val \in Nat PROVE Write("iowin", val) \in Seq(Writes)
    BY WriteType, SMT DEF Registers
  <2>. QED
    BY <2>1, <2>2
<1>3. \A offset \in 16 .. 63, val \in Nat : ioapic_write(offset, val) \in Seq(Writes)
  BY <1>2, Both DEF ioapic_write
<1> DEFINE low == ioapic_write(16 + 2 * from, to + flags)
           high == ioapic_write(16 + 2 * from + 1, LapicId * IdShift)
<1>4. low \in Seq(Writes)
  BY <1>1, <1>3
<1>5. high \in Seq(Writes)
  BY <1>1, <1>3
<1>6. ioapic_redirect(from, to, flags) = low \o high
  BY DEF ioapic_redirect
<1>. HIDE DEF low, high
<1>. QED
  BY <1>4, <1>5, <1>6, Both

(* All of them. *)
LEMMA InitType == apic_init \in Seq(Writes)
<1>0. ASSUME NEW to \in Registers \ {"ioregsel"}, NEW val \in Nat
      PROVE  Write(to, val) \in Seq(Writes)
  BY WriteType
<1>1. DisablePic \in Seq(Writes)
  <2>1. ASSUME NEW to \in {"PIC_M_CMD", "PIC_S_CMD", "PIC_M_DATA", "PIC_S_DATA"}, NEW val \in Nat
        PROVE  Write(to, val) \in Seq(Writes)
    BY <1>0 DEF Registers
  <2>2. \A val \in Nat : Write("PIC_M_CMD", val) \in Seq(Writes)
    BY <2>1
  <2>3. \A val \in Nat : Write("PIC_S_CMD", val) \in Seq(Writes)
    BY <2>1
  <2>4. \A val \in Nat : Write("PIC_M_DATA", val) \in Seq(Writes)
    BY <2>1
  <2>5. \A val \in Nat : Write("PIC_S_DATA", val) \in Seq(Writes)
    BY <2>1
  <2>. QED
    <3> DEFINE remap == Write("PIC_M_CMD", 17) \o Write("PIC_S_CMD", 17)
                        \o Write("PIC_M_DATA", 32) \o Write("PIC_S_DATA", 40)
    <3>1. remap \in Seq(Writes)
      <4>1. Write("PIC_M_CMD", 17) \in Seq(Writes) /\ Write("PIC_S_CMD", 17) \in Seq(Writes)
        BY <2>2, <2>3, SMT
      <4>2. Write("PIC_M_DATA", 32) \in Seq(Writes) /\ Write("PIC_S_DATA", 40) \in Seq(Writes)
        BY <2>4, <2>5, SMT
      <4>. QED
        BY <4>1, <4>2, Both
    <3>4. Write("PIC_S_DATA", 255) \in Seq(Writes) /\ Write("PIC_M_DATA", 255) \in Seq(Writes)
      BY <2>4, <2>5, SMT
    <3>5. DisablePic = remap \o Write("PIC_M_DATA", 4) \o Write("PIC_S_DATA", 2)
                             \o Write("PIC_M_DATA", 1) \o Write("PIC_S_DATA", 1)
                             \o Write("PIC_S_DATA", 255) \o Write("PIC_M_DATA", 255)
      BY DEF DisablePic
    <3>6. Write("PIC_M_DATA", 4) \in Seq(Writes) /\ Write("PIC_S_DATA", 2) \in Seq(Writes)
      BY <2>4, <2>5, SMT
    <3>7. Write("PIC_M_DATA", 1) \in Seq(Writes) /\ Write("PIC_S_DATA", 1) \in Seq(Writes)
      BY <2>4, <2>5, SMT
    <3>. HIDE DEF remap
    <3>. QED
      BY <3>1, <3>4, <3>5, <3>6, <3>7, Both, SMT
<1>2. lapic_init \in Seq(Writes)
  <2>2. Write("IA32_APIC_BASE", 2 ^ 11) \in Seq(Writes)
    BY <1>0, SMT DEF Registers
  <2>3. Write("APIC_SPUR_REG", 2 ^ 8) \in Seq(Writes)
    BY <1>0, SMT DEF Registers
  <2>4. lapic_timer_enable \in Seq(Writes)
    <3> DEFINE first == 1000000000
               second == 2 ^ 17 + APIC_TMR_INTERRUPT
    <3>1. first \in Nat /\ second \in Nat
      BY SMT DEF APIC_TMR_INTERRUPT, APIC_REMAP_START, APIC_IRQ_TMR
    <3>2. lapic_timer_enable = Write("APIC_TMR_INIT_REG", first)
                               \o Write("APIC_LVT_TMR_REG", second)
      BY SMT DEF lapic_timer_enable
    <3>. HIDE DEF first, second
    <3>. QED
      BY <1>0, <3>1, <3>2, Both DEF Registers
  <2>5. lapic_init = Write("IA32_APIC_BASE", 2 ^ 11) \o Write("APIC_SPUR_REG", 2 ^ 8)
                     \o lapic_timer_enable
    BY DEF lapic_init
  <2>. QED
    BY <2>2, <2>3, <2>4, <2>5, Both, SMT
<1>3. ioapic_init \in Seq(Writes)
  <2> DEFINE k == Cardinality(Lines)
             ss == [i \in 1 .. k |-> ioapic_redirect(i - 1, APIC_REMAP_START + i - 1,
                                                     IOAPIC_DISABLE)]
  <2>1. k = 24
    <3>1. 0 \in Int /\ 23 \in Int
      OBVIOUS
    <3>2. \A a, b \in Int : Cardinality(a .. b) = IF a > b THEN 0 ELSE b - a + 1
      BY FS_Interval
    <3>3. Cardinality(0 .. 23) = IF 0 > 23 THEN 0 ELSE 23 - 0 + 1
      BY <3>1, <3>2, Zenon
    <3>. QED
      BY <3>3 DEF Lines
  <2>2. ASSUME NEW i \in 1 .. k
        PROVE  ioapic_redirect(i - 1, APIC_REMAP_START + i - 1, IOAPIC_DISABLE) \in Seq(Writes)
    <3>1. i - 1 \in Lines /\ APIC_REMAP_START + i - 1 \in Nat /\ IOAPIC_DISABLE \in Nat
      BY <2>1, Parameters, SMT DEF Lines, APIC_REMAP_START
    <3>. QED
      BY <3>1, RedirectType
  <2>3. ss \in Seq(Seq(Writes))
    <3>. HIDE DEF k
    <3>. QED
      BY <2>1, <2>2
  <2>4. ioapic_init = FlattenSeq(ss)
    BY DEF ioapic_init
  <2>. HIDE DEF ss
  <2>. QED
    BY <2>3, <2>4, FlatType
<1>4. /\ ioapic_redirect(APIC_IRQ_KBD, APIC_REMAP_START + APIC_IRQ_KBD, 0) \in Seq(Writes)
      /\ ioapic_redirect(APIC_IRQ_IDE, APIC_REMAP_START + APIC_IRQ_IDE, 0) \in Seq(Writes)
  BY RedirectType DEF APIC_IRQ_KBD, APIC_IRQ_IDE, APIC_REMAP_START, Lines
<1>. QED
  BY <1>1, <1>2, <1>3, <1>4, Both DEF apic_init

(* An element of a sequence. *)
LEMMA ElementOf ==
    ASSUME NEW S, NEW s \in Seq(S), NEW i \in 1 .. Len(s)
    PROVE  s[i] \in S
OBVIOUS

(* What the controllers' registers hold. *)
ControlInv ==
    /\ ControllersOK
    /\ ioapic \in [16 .. 63 -> Nat]
    /\ lapic \in [hw : BOOLEAN, sw : BOOLEAN, count : Nat, timer : Nat]

(* A write of apic_init. *)
LEMMA ControlBoot == ControlInv /\ BootWrite => ControlInv'
<1>. SUFFICES ASSUME ControlInv, BootWrite PROVE ControlInv'
  OBVIOUS
<1>. USE DEF ControlInv, ControllersOK
<1>1. Len(apic_init) \in Nat /\ boot \in 0 .. Len(apic_init) /\ boot # Len(apic_init)
      /\ boot' = boot + 1
  BY InitType DEF BootWrite, Booted
<1>2. boot' \in 1 .. Len(apic_init)
  BY <1>1
<1>3. apic_init[boot'] \in Writes
  BY <1>2, InitType, ElementOf
<1> DEFINE to == apic_init[boot'].to
           val == apic_init[boot'].val
<1>4. to \in Registers /\ val \in Nat /\ (to = "ioregsel" => val \in 16 .. 63)
  BY <1>3 DEF Writes
<1>5. /\ pic' = CASE to = "PIC_M_CMD" -> PicCommand("master", val)
                  [] to = "PIC_S_CMD" -> PicCommand("slave", val)
                  [] to = "PIC_M_DATA" -> PicData("master", val)
                  [] to = "PIC_S_DATA" -> PicData("slave", val)
                  [] OTHER -> pic
      /\ lapic' = CASE to = "IA32_APIC_BASE" -> [lapic EXCEPT !.hw = TRUE]
                    [] to = "APIC_SPUR_REG" -> [lapic EXCEPT !.sw = TRUE]
                    [] to = "APIC_TMR_INIT_REG" -> [lapic EXCEPT !.count = val]
                    [] to = "APIC_LVT_TMR_REG" -> [lapic EXCEPT !.timer = val]
                    [] OTHER -> lapic
      /\ ioregsel' = IF to = "ioregsel" THEN val ELSE ioregsel
      /\ ioapic' = IF to = "iowin" THEN [ioapic EXCEPT ![ioregsel] = val] ELSE ioapic
      /\ UNCHANGED <<irr, isr>>
  BY DEF BootWrite
<1>. HIDE DEF to, val
<1>6. DOMAIN pic' = {"master", "slave"}
  <2>1. \A chip : /\ DOMAIN PicCommand(chip, val) = DOMAIN pic
                  /\ DOMAIN PicData(chip, val) = DOMAIN pic
    BY DEF PicCommand, PicData
  <2>. QED
    BY <1>5, <2>1
<1>7. lapic' \in [hw : BOOLEAN, sw : BOOLEAN, count : Nat, timer : Nat]
  BY <1>4, <1>5
<1>8. ioapic' \in [16 .. 63 -> Nat]
  BY <1>4, <1>5
<1>9. ioregsel' \in 0 .. 63
  BY <1>4, <1>5, SMT
<1>. QED
  <2>1. boot' \in 0 .. Len(apic_init)
    BY <1>1, <1>2
  <2>2. irr' \subseteq 0 .. 255 /\ isr' \subseteq 0 .. 255
    BY <1>5
  <2>3. DOMAIN ioapic' = 16 .. 63
    BY <1>8
  <2>. QED
    BY <1>6, <1>7, <1>8, <1>9, <2>1, <2>2, <2>3

(* A vector is a byte. *)
LEMMA VectorType == \A k \in Nat : Vector(k) \in 0 .. 255
BY DEF Vector

(* What a device requests. *)
LEMMA RequestType ==
    ASSUME ControlInv, NEW l \in Lines
    PROVE  Requested(l) \subseteq 0 .. 255
<1>1. Low(l) \in Nat
  BY DEF ControlInv, Low, Lines
<1>. QED
  BY <1>1, VectorType DEF Requested

(* The other steps of the controllers. *)
LEMMA ControlSteps ==
    /\ ControlInv /\ UNCHANGED controllers => ControlInv'
    /\ ControlInv /\ (TimerExpires \/ DiskInterrupt) => ControlInv'
    /\ \A v \in irr : ControlInv /\ Handled(v) => ControlInv'
<1>1. ASSUME ControlInv, UNCHANGED controllers PROVE ControlInv'
  BY <1>1 DEF controllers, ControlInv, ControllersOK
<1>2. ASSUME ControlInv, TimerExpires PROVE ControlInv'
  <2>1. Vector(lapic.timer) \in 0 .. 255
    BY <1>2, VectorType DEF ControlInv
  <2>2. irr' = irr \cup {Vector(lapic.timer)}
        /\ UNCHANGED <<boot, pic, lapic, ioregsel, ioapic, isr>>
    BY <1>2 DEF TimerExpires
  <2>3. irr \subseteq 0 .. 255
    BY <1>2 DEF ControlInv, ControllersOK
  <2>4. irr' \subseteq 0 .. 255
    <3> DEFINE v == Vector(lapic.timer)
    <3>. HIDE DEF v
    <3>. QED
      BY <2>1, <2>2, <2>3 DEF v
  <2>. QED
    BY <1>2, <2>2, <2>4 DEF ControlInv, ControllersOK
<1>3. ASSUME ControlInv, DiskInterrupt PROVE ControlInv'
  <2>1. Requested(APIC_IRQ_IDE) \subseteq 0 .. 255
    BY <1>3, RequestType DEF APIC_IRQ_IDE, Lines
  <2>. QED
    BY <1>3, <2>1 DEF DiskInterrupt, ControlInv, ControllersOK
<1>4. ASSUME ControlInv, NEW v \in irr, Handled(v) PROVE ControlInv'
  <2>1. isr' \subseteq isr \cup {v} /\ irr' \subseteq irr
        /\ UNCHANGED <<boot, pic, lapic, ioregsel, ioapic>>
    BY <1>4 DEF Handled, apic_eoi
  <2>2. isr' \subseteq 0 .. 255 /\ irr' \subseteq 0 .. 255
    <3>1. irr \subseteq 0 .. 255 /\ isr \subseteq 0 .. 255
      BY <1>4 DEF ControlInv, ControllersOK
    <3>. QED
      BY <2>1, <3>1
  <2>. QED
    BY <1>4, <2>1, <2>2 DEF ControlInv, ControllersOK
<1>. QED
  BY <1>1, <1>2, <1>3, <1>4
-----------------------------------------------------------------------------
(* A key stored is one that was pressed: so the buffer's size is at most the
   number of keys; once the buffer has been full, there were that many. *)
CountInv ==
    /\ "overflow" \notin mishap =>
          kbd_buf_sz + (IF port \in Char \cup {Enter} THEN 1 ELSE 0) <= pressed
    /\ "overflow" \in mishap => BufSize <= MaxKeys

TypeInv == TypeOK /\ ControlInv /\ CountInv

(* The codes are apart. *)
LEMMA CodeFacts ==
    /\ NUL \in Char /\ Enter \notin Char /\ Silent \notin Char /\ Empty \notin Char
    /\ Enter # Silent /\ Enter # Empty /\ Silent # Empty
    /\ Char \subseteq Nat
BY Parameters DEF NUL, Char, Enter, Silent, Empty

(* A store into the buffer. *)
LEMMA StoreType ==
    ASSUME TypeInv, NEW ch \in Char, NEW done \in BOOLEAN, Store(ch, done),
           port \in Char \cup {Enter}, port' = Empty, pressed' = pressed
    PROVE  /\ kbd_buf' \in [Cells -> Char] /\ kbd_buf_sz' \in Sizes /\ kbd_done' \in BOOLEAN
           /\ mishap' \subseteq {"early", "ahead", "reading", "readers", "overflow"}
           /\ CountInv'
<1>0. /\ kbd_buf_sz \in 0 .. MaxKeys /\ pressed \in 0 .. MaxKeys /\ kbd_buf \in [Cells -> Char]
      /\ mishap \subseteq {"early", "ahead", "reading", "readers", "overflow"}
  BY DEF TypeInv, TypeOK, Sizes
<1>1. /\ mishap' = mishap \cup KeyMishap
      /\ KeyMishap \subseteq {"ahead", "reading", "overflow"}
      /\ "overflow" \in KeyMishap <=> kbd_buf_sz >= BufSize
  BY DEF Store, KeyMishap
<1>2. CASE kbd_buf_sz < BufSize
  <2>1. /\ kbd_buf' = [kbd_buf EXCEPT ![kbd_buf_sz] = ch]
        /\ kbd_buf_sz' = kbd_buf_sz + 1 /\ kbd_done' = done
    BY <1>2 DEF Store
  <2>2. "overflow" \in mishap' <=> "overflow" \in mishap
    BY <1>0, <1>1, <1>2, Parameters
  <2>3. /\ "overflow" \notin mishap => kbd_buf_sz + 1 <= pressed
        /\ "overflow" \in mishap => BufSize <= MaxKeys
    BY DEF TypeInv, CountInv
  <2>4. kbd_buf_sz + 1 <= MaxKeys
    BY <1>0, <1>2, <2>3, Parameters
  <2>5. CountInv'
    BY <1>0, <2>1, <2>2, <2>3, CodeFacts DEF CountInv
  <2>6. kbd_buf' \in [Cells -> Char]
    BY <1>0, <2>1
  <2>7. kbd_buf_sz' \in Sizes
    BY <1>0, <2>1, <2>4, Parameters DEF Sizes
  <2>8. mishap' \subseteq {"early", "ahead", "reading", "readers", "overflow"}
    BY <1>0, <1>1
  <2>. QED
    BY <2>1, <2>5, <2>6, <2>7, <2>8
<1>3. CASE ~(kbd_buf_sz < BufSize)
  <2>1. kbd_buf_sz' \in Sizes /\ kbd_done' \in BOOLEAN /\ kbd_buf' = kbd_buf
    BY <1>3 DEF Store
  <2>2. "overflow" \in mishap' /\ BufSize <= MaxKeys
    BY <1>0, <1>1, <1>3, Parameters
  <2>. QED
    BY <1>0, <1>1, <2>1, <2>2 DEF CountInv
<1>. QED
  BY <1>2, <1>3

(* A key. *)
LEMMA TypePress ==
    ASSUME TypeInv, NEW code \in {pressed + 1, NUL, Enter, Silent}, Press(code)
    PROVE  TypeInv'
<1>. USE DEF TypeInv, TypeOK
<1>0. /\ pressed \in Nat /\ pressed < MaxKeys /\ MaxKeys \in Nat
      /\ pressed' = pressed + 1 /\ port = Empty /\ port' = code
  BY Parameters DEF Press
<1>1. pressed + 1 \in Char /\ pressed' \in 0 .. MaxKeys
  BY <1>0 DEF Char
<1>2. code \in Codes
  BY <1>1, CodeFacts DEF Codes
<1>3. ControlInv'
  <2>1. Requested(APIC_IRQ_KBD) \subseteq 0 .. 255
    BY RequestType DEF APIC_IRQ_KBD, Lines
  <2>2. irr' = irr \cup Requested(APIC_IRQ_KBD)
        /\ UNCHANGED <<boot, pic, lapic, ioregsel, ioapic, isr>>
    BY DEF Press
  <2>. QED
    BY <2>1, <2>2 DEF ControlInv, ControllersOK
<1>4. lines' \in Seq(Seq(Char)) /\ line' \in Seq(Char)
  <2>1. /\ lines' = (IF code = Enter THEN Append(lines, Append(line, NUL)) ELSE lines)
        /\ line' = CASE code = Enter -> <<>>
                     [] code = Silent -> line
                     [] OTHER -> Append(line, code)
    BY DEF Press
  <2>2. Append(line, NUL) \in Seq(Char) /\ code \notin {Enter, Silent} => code \in Char
    BY <1>1, CodeFacts
  <2>3. lines' \in Seq(Seq(Char))
    <3>1. Append(line, NUL) \in Seq(Char)
      BY CodeFacts
    <3>. QED
      BY <2>1, <3>1
  <2>4. line' \in Seq(Char)
    <3>1. code \notin {Enter, Silent} => code \in Char
      BY <1>1, CodeFacts
    <3>. QED
      BY <2>1, <3>1
  <2>. QED
    BY <2>3, <2>4
<1>5. mishap \subseteq mishap' /\ mishap' \subseteq mishap \cup {"early"}
      /\ UNCHANGED <<kbd_buf, kbd_buf_sz, kbd_done, pc, n, str, delivered>>
  BY DEF Press, buffer, reader
<1>6. CountInv'
  <2>1. kbd_buf_sz \in Nat
    BY DEF Sizes
  <2>. QED
    BY <1>0, <1>5, <2>1, CodeFacts DEF CountInv
<1>7. TypeOK'
  BY <1>0, <1>1, <1>2, <1>3, <1>4, <1>5 DEF ControlInv
<1>. QED
  BY <1>3, <1>6, <1>7

(* An interrupt. *)
LEMMA TypeInterrupt ==
    ASSUME TypeInv, NEW irq \in Lines, Interrupt(irq)
    PROVE  TypeInv'
<1>. USE DEF TypeInv, TypeOK
<1>1. ControlInv'
  <2>1. PICK v \in irr : Handled(v)
    BY DEF Interrupt
  <2>. QED
    BY <2>1, ControlSteps
<1>2. UNCHANGED <<pc, n, str, lines, line, delivered>>
  BY DEF Interrupt, reader, ghosts
<1>3. /\ port' \in Codes \cup {Empty} /\ pressed' \in 0 .. MaxKeys
      /\ kbd_buf' \in [Cells -> Char] /\ kbd_buf_sz' \in Sizes /\ kbd_done' \in BOOLEAN
      /\ mishap' \subseteq {"early", "ahead", "reading", "readers", "overflow"}
      /\ CountInv'
  <2>1. CASE UNCHANGED <<keyboard, buffer, mishap>>
    BY <2>1 DEF keyboard, buffer, CountInv
  <2>2. CASE apic_handle_kbd
    <3>1. port' = Empty /\ pressed' = pressed
      BY <2>2 DEF apic_handle_kbd
    <3>2. CASE port = Enter
      BY <2>2, <3>1, <3>2, StoreType, CodeFacts DEF apic_handle_kbd, HandleReturn
    <3>3. CASE port \in Char
      <4>1. Store(port, kbd_done)
        BY <2>2, <3>3, CodeFacts DEF apic_handle_kbd, HandleKey
      <4>. QED
        BY <3>1, <3>3, <4>1, StoreType
    <3>4. CASE port \notin Char \cup {Enter}
      <4>1. UNCHANGED <<kbd_buf, kbd_buf_sz, kbd_done, mishap>>
        BY <2>2, <3>4 DEF apic_handle_kbd, buffer
      <4>. QED
        BY <3>1, <3>4, <4>1, CodeFacts DEF CountInv
    <3>. QED
      BY <3>2, <3>3, <3>4
  <2>. QED
    BY <2>1, <2>2 DEF Interrupt
<1>4. TypeOK'
  BY <1>1, <1>2, <1>3 DEF ControlInv
<1>. QED
  BY <1>1, <1>3, <1>4

(* A reader. *)
LEMMA TypeReader ==
    ASSUME TypeInv, NEW r \in Readers, Read(r) \/ kbd_get_str(r)
    PROVE  TypeInv'
<1>. USE DEF TypeInv, TypeOK
<1>1. UNCHANGED <<port, pressed, kbd_buf, lines, line>> /\ UNCHANGED controllers
  BY DEF Read, kbd_get_str, Spin, Awake, LoadSize, ClearSize, ClearDone, CopyByte, ReadReturn,
         vars, keyboard, buffer, ghosts
<1>2. ControlInv'
  BY <1>1, ControlSteps
<1>3. kbd_buf_sz' \in {kbd_buf_sz, 0} /\ kbd_done' \in BOOLEAN
  BY DEF Read, kbd_get_str, Spin, Awake, LoadSize, ClearSize, ClearDone, CopyByte, ReadReturn,
         vars, buffer
<1>4. mishap \subseteq mishap' /\ mishap' \subseteq mishap \cup {"readers"}
  BY DEF Read, kbd_get_str, Spin, Awake, LoadSize, ClearSize, ClearDone, CopyByte, ReadReturn,
         vars
<1>5. pc' \in [Readers -> {"user", "wait", "load", "size", "done", "copy"}]
  BY DEF Read, kbd_get_str, Spin, Awake, LoadSize, ClearSize, ClearDone, CopyByte, ReadReturn,
         vars, reader, Goto
<1>6. n' \in [Readers -> Sizes] /\ 0 \in Sizes
  BY SMTT(30), Parameters DEF Read, kbd_get_str, Spin, Awake, LoadSize, ClearSize,
     ClearDone, CopyByte, ReadReturn, vars, reader, Sizes
<1>7. str' \in [Readers -> Seq(Char)]
  <2>1. CASE CopyByte(r)
    <3>1. PICK ch \in IF Len(str[r]) < BufSize THEN {kbd_buf[Len(str[r])]} ELSE {NUL} :
             str' = [str EXCEPT ![r] = Append(@, ch)]
      BY <2>1 DEF CopyByte
    <3>2. ch \in Char
      BY <3>1, CodeFacts, Parameters DEF Cells
    <3>. QED
      BY <3>1, <3>2
  <2>2. CASE UNCHANGED str \/ str' = [str EXCEPT ![r] = <<>>]
    <3>1. <<>> \in Seq(Char)
      OBVIOUS
    <3>. QED
      BY <2>2, <3>1
  <2>. QED
    BY <2>1, <2>2 DEF Read, kbd_get_str, Spin, Awake, LoadSize, ClearSize, ClearDone, ReadReturn,
         vars, reader
<1>8. delivered' \in Seq(Seq(Char))
  <2>1. UNCHANGED delivered \/ delivered' = Append(delivered, str[r])
    BY DEF Read, kbd_get_str, Spin, Awake, LoadSize, ClearSize, ClearDone, CopyByte, ReadReturn,
           vars, ghosts
  <2>2. str[r] \in Seq(Char) /\ delivered \in Seq(Seq(Char))
    OBVIOUS
  <2>3. Append(delivered, str[r]) \in Seq(Seq(Char))
    <3>1. \A ss \in Seq(Seq(Char)), s \in Seq(Char) : Append(ss, s) \in Seq(Seq(Char))
      OBVIOUS
    <3>. QED
      BY <2>2, <3>1
  <2>. QED
    BY <2>1, <2>2, <2>3
<1>9. CountInv'
  <2>1. kbd_buf_sz \in Nat /\ kbd_buf_sz' \in Nat /\ kbd_buf_sz' <= kbd_buf_sz
    BY <1>3 DEF Sizes
  <2>2. "overflow" \in mishap' <=> "overflow" \in mishap
    BY <1>4
  <2>3. pressed \in Nat /\ pressed' = pressed /\ port' = port
    BY <1>1
  <2>4. ASSUME "overflow" \notin mishap', NEW k \in {0, 1}, kbd_buf_sz + k <= pressed
        PROVE  kbd_buf_sz' + k <= pressed'
    <3>1. \A a, b, c, d \in Nat : a <= b /\ b + d <= c => a + d <= c
      OBVIOUS
    <3>2. k \in Nat
      OBVIOUS
    <3>. QED
      BY <2>1, <2>3, <2>4, <3>1, <3>2
  <2>. QED
    BY <2>2, <2>3, <2>4 DEF CountInv
<1>10. kbd_buf_sz' \in Sizes
  BY <1>3, <1>6
<1>11. TypeOK'
  BY <1>1, <1>2, <1>3, <1>4, <1>5, <1>6, <1>7, <1>8, <1>10 DEF ControlInv
<1>. QED
  BY <1>2, <1>9, <1>11

(* All steps. *)
LEMMA TypeStep == TypeInv /\ [Next]_vars => TypeInv'
<1>1. ASSUME TypeInv, ControlInv', UNCHANGED <<keyboard, buffer, reader, ghosts, mishap>>
      PROVE  TypeInv'
  BY <1>1 DEF TypeInv, TypeOK, ControlInv, CountInv, keyboard, buffer, reader, ghosts
<1>2. ASSUME TypeInv, Boot \/ OtherDevice \/ UNCHANGED vars PROVE TypeInv'
  <2>1. ControlInv'
    BY <1>2, ControlBoot, ControlSteps DEF TypeInv, Boot, OtherDevice, vars
  <2>. QED
    BY <1>1, <1>2, <2>1 DEF Boot, OtherDevice, vars
<1>. QED
  BY <1>2, TypePress, TypeInterrupt, TypeReader DEF Next

(* The first state. *)
LEMMA TypeInit == Init => TypeInv
<1>. SUFFICES ASSUME Init PROVE TypeInv
  OBVIOUS
<1>1. ControlInv
  <2>1. Len(apic_init) \in Nat
    BY InitType
  <2>2. boot = 0 /\ DOMAIN pic = {"master", "slave"} /\ ioregsel = 0 /\ irr = {} /\ isr = {}
    BY DEF Init, InitControllers
  <2>3. /\ lapic \in [hw : BOOLEAN, sw : BOOLEAN, count : Nat, timer : Nat]
        /\ ioapic \in [16 .. 63 -> Nat]
    <3>1. IOAPIC_DISABLE \in Nat
      BY Parameters, SMT
    <3>. QED
      BY <3>1, SMT DEF Init, InitControllers
  <2>4. ioregsel \in 0 .. 63
    BY <2>2, SMT
  <2>5. DOMAIN ioapic = 16 .. 63
    BY <2>3
  <2>. QED
    BY <2>1, <2>2, <2>3, <2>4, <2>5 DEF ControlInv, ControllersOK
<1>2. /\ port \in {Empty, Silent} /\ pressed = 0 /\ kbd_buf = [i \in Cells |-> NUL]
      /\ kbd_buf_sz = 0 /\ kbd_done = FALSE /\ pc = [r \in Readers |-> "user"]
      /\ n = [r \in Readers |-> 0] /\ str = [r \in Readers |-> <<>>]
      /\ lines = <<>> /\ line = <<>> /\ delivered = <<>> /\ mishap \subseteq {"early"}
  BY DEF Init
<1>3. CountInv
  BY <1>2, CodeFacts DEF CountInv
<1>4. TypeOK
  <2>1. port \in Codes \cup {Empty} /\ pressed \in 0 .. MaxKeys /\ kbd_buf_sz \in Sizes
        /\ n \in [Readers -> Sizes]
    BY <1>2, Parameters DEF Codes, Sizes
  <2>2. kbd_buf \in [Cells -> Char]
    BY <1>2, CodeFacts
  <2>3. pc \in [Readers -> {"user", "wait", "load", "size", "done", "copy"}]
        /\ str \in [Readers -> Seq(Char)]
    BY <1>2
  <2>4. lines \in Seq(Seq(Char)) /\ line \in Seq(Char) /\ delivered \in Seq(Seq(Char))
    BY <1>2
  <2>5. ControllersOK /\ kbd_done \in BOOLEAN
        /\ mishap \subseteq {"early", "ahead", "reading", "readers", "overflow"}
    BY <1>1, <1>2 DEF ControlInv
  <2>. QED
    BY <2>1, <2>2, <2>3, <2>4, <2>5 DEF TypeOK
<1>. QED
  BY <1>1, <1>3, <1>4 DEF TypeInv

(* The buffer holds characters, and no more than there were keys, also when it
   has been overrun; a reader's copy is of that size; and apic_init leaves the
   controllers' registers with values that they can have. *)
THEOREM TypeCorrect == Spec => []TypeOK
<1>1. TypeInv => TypeOK
  BY DEF TypeInv
<1>. QED
  BY <1>1, TypeInit, TypeStep, PTL DEF Spec
-----------------------------------------------------------------------------
(* No key is lost.                                                         *)

Safe == Without({"reading", "readers", "overflow"})
Taken == {"done", "copy"}
Inside == {"size", "done", "copy"}

(* Prefixes of a buffer and what is in flight, as functions of the variables. *)
Prefix(b, k) == [i \in 1 .. k |-> b[i - 1]]
Flight(p, c, b) == IF \E r \in Readers : p[r] \in {"done", "copy"}
                     THEN Prefix(b, c[CHOOSE r \in Readers : p[r] \in {"done", "copy"}])
                     ELSE <<>>

(* As long as reads and keys keep apart, one reader at a time is between the
   load of the size and the return.  Until it has cleared the size, its copy of
   it agrees with it; then nothing comes into the buffer until it returns, and
   what it has copied is what the buffer began with. *)
ReadInv ==
    Safe =>
        /\ kbd_buf_sz <= BufSize
        /\ \A r, s \in Reading : r = s
        /\ \A r \in Readers : pc[r] = "size" => n[r] = kbd_buf_sz
        /\ \A r \in Readers : pc[r] \in Taken => kbd_buf_sz = 0 /\ n[r] <= BufSize
        /\ \A r \in Readers : pc[r] \in {"size", "done"} => str[r] = <<>>
        /\ \A r \in Readers :
              pc[r] = "copy" => /\ Len(str[r]) <= n[r]
                                /\ \A i \in 1 .. Len(str[r]) : str[r][i] = kbd_buf[i - 1]

(* Every key is somewhere: the first conjunct of NoKeyLost. *)
KeysInv ==
    Safe => FlattenSeq(delivered) \o InFlight \o BufferPrefix(kbd_buf_sz) \o OnItsWay
                = FlattenSeq(lines) \o line

(* A line that is complete is in the buffer until a reader takes it, and the
   beginning of a line only when there is none that is complete. *)
Picked == \E r \in Readers : pc[r] \in Taken
Whole == IF Picked THEN <<InFlight>>
         ELSE IF kbd_done THEN <<BufferPrefix(kbd_buf_sz)>> ELSE <<>>
Partial == IF kbd_done \/ Picked THEN <<>> ELSE BufferPrefix(kbd_buf_sz)
Ended == IF port = Enter THEN <<Partial \o <<NUL>>>> ELSE <<>>

LineInv ==
    mishap = {} =>
        /\ lines = delivered \o Whole \o Ended
        /\ line = IF port = Enter THEN <<>> ELSE Partial \o OnItsWay
        /\ \A r \in Readers : pc[r] \in {"size", "done"} => kbd_done
        /\ \A r \in Readers : pc[r] = "copy" => ~kbd_done

LostInv == TypeInv /\ ReadInv /\ KeysInv /\ LineInv

(* The steps that only boot, request an interrupt or move a reader outside of
   its critical part. *)
Quiet ==
    /\ UNCHANGED <<port, buffer, n, str, ghosts, mishap>>
    /\ DOMAIN pc' = Readers
    /\ \A r \in Readers : pc[r] \in Inside \/ pc'[r] \in Inside => pc'[r] = pc[r]

(* Concatenation, as it is used here. *)
LEMMA Joins ==
    ASSUME NEW T
    PROVE  /\ \A s \in Seq(T) : s \o <<>> = s
           /\ \A s \in Seq(T) : <<>> \o s = s
           /\ \A s, t \in Seq(T) : s \o t \in Seq(T)
           /\ \A s, t, u \in Seq(T) : (s \o t) \o u = s \o (t \o u)
           /\ \A s \in Seq(T), x \in T : Append(s, x) = s \o <<x>>
           /\ \A s \in Seq(T), x \in T : Append(s, x) \in Seq(T)
           /\ \A x \in T : <<x>> \in Seq(T)
           /\ <<>> \in Seq(T)
<1>1. \A s \in Seq(T) : s \o <<>> = s /\ <<>> \o s = s
  BY ConcatEmptySeq
<1>2. \A s, t \in Seq(T) : s \o t \in Seq(T)
  BY ConcatProperties
<1>3. \A s, t, u \in Seq(T) : (s \o t) \o u = s \o (t \o u)
  BY ConcatAssociative
<1>4. \A s \in Seq(T), x \in T : Append(s, x) = s \o <<x>>
  BY AppendIsConcat
<1>5. \A s \in Seq(T), x \in T : Append(s, x) \in Seq(T)
  OBVIOUS
<1>6. \A x \in T : <<x>> \in Seq(T)
  OBVIOUS
<1>7. <<>> \in Seq(T)
  OBVIOUS
<1>. QED
  BY <1>1, <1>2, <1>3, <1>4, <1>5, <1>6, <1>7

(* One more at the end of two sequences. *)
LEMMA JoinLast ==
    ASSUME NEW T, NEW s \in Seq(T), NEW t \in Seq(T), NEW x \in T
    PROVE  (s \o t) \o <<x>> = s \o (t \o <<x>>)
<1> DEFINE u == <<x>>
<1>1. u \in Seq(T)
  OBVIOUS
<1>. HIDE DEF u
<1>2. (s \o t) \o u = s \o (t \o u)
  BY <1>1, ConcatAssociative
<1>. QED
  BY <1>2 DEF u

(* The state's sequences in these terms. *)
LEMMA StateTerms ==
    /\ InFlight = Flight(pc, n, kbd_buf)
    /\ \A k : BufferPrefix(k) = Prefix(kbd_buf, k)
BY DEF InFlight, Flight, BufferPrefix, Prefix

(* The same of the next state. *)
LEMMA NextTerms ==
    /\ InFlight' = Flight(pc', n', kbd_buf')
    /\ \A k : BufferPrefix(k)' = Prefix(kbd_buf', k)
    /\ BufferPrefix(kbd_buf_sz)' = Prefix(kbd_buf', kbd_buf_sz')
BY DEF InFlight, Flight, BufferPrefix, Prefix

(* Nothing is in flight when nobody has taken anything. *)
LEMMA FlightNone ==
    ASSUME NEW p, NEW c, NEW b, \A r \in Readers : p[r] \notin Taken
    PROVE  Flight(p, c, b) = <<>>
BY DEF Flight, Taken

(* And what the only reader took, when there is one. *)
LEMMA FlightOne ==
    ASSUME NEW p, NEW c, NEW b, NEW r \in Readers, p[r] \in Taken,
           \A s \in Readers : p[s] \in Taken => s = r
    PROVE  Flight(p, c, b) = Prefix(b, c[r])
<1> DEFINE x == CHOOSE s \in Readers : p[s] \in {"done", "copy"}
<1>1. x \in Readers /\ p[x] \in {"done", "copy"}
  BY DEF Taken
<1>2. x = r
  BY <1>1 DEF Taken
<1>3. Flight(p, c, b) = Prefix(b, c[x])
  BY DEF Flight, Taken
<1>. HIDE DEF x
<1>. QED
  BY <1>2, <1>3

(* A prefix is a sequence of characters. *)
LEMMA PrefixType ==
    ASSUME NEW b \in [Cells -> Char], NEW k \in 0 .. BufSize
    PROVE  /\ Prefix(b, k) \in Seq(Char)
           /\ Len(Prefix(b, k)) = k
           /\ \A i \in 1 .. k : Prefix(b, k)[i] = b[i - 1]
<1>1. \A i \in 1 .. k : i - 1 \in Cells
  BY Parameters DEF Cells
<1>2. k \in Nat
  BY Parameters
<1>3. \A i \in 1 .. k : b[i - 1] \in Char
  BY <1>1
<1>. QED
  BY <1>2, <1>3 DEF Prefix

(* A store makes it longer by one. *)
LEMMA PrefixStore ==
    ASSUME NEW b \in [Cells -> Char], NEW k \in 0 .. BufSize, k < BufSize, NEW ch \in Char
    PROVE  Prefix([b EXCEPT ![k] = ch], k + 1) = Prefix(b, k) \o <<ch>>
<1> DEFINE b2 == [b EXCEPT ![k] = ch]
           p == Prefix(b, k)
<1>1. k \in Nat /\ k + 1 \in 0 .. BufSize
  BY Parameters
<1>2. b2 \in [Cells -> Char] /\ b2[k] = ch /\ \A i \in Cells : i # k => b2[i] = b[i]
  <2>1. k \in Cells
    BY <1>1, Parameters DEF Cells
  <2>. QED
    BY <2>1
<1>. HIDE DEF b2
<1>3. /\ Prefix(b2, k + 1) \in Seq(Char) /\ Len(Prefix(b2, k + 1)) = k + 1
      /\ \A i \in 1 .. k + 1 : Prefix(b2, k + 1)[i] = b2[i - 1]
  BY <1>1, <1>2, PrefixType
<1>4. p \in Seq(Char) /\ Len(p) = k /\ \A i \in 1 .. k : p[i] = b[i - 1]
  BY PrefixType
<1>. HIDE DEF p
<1>5. Append(p, ch) \in Seq(Char) /\ Len(Append(p, ch)) = k + 1
      /\ \A i \in 1 .. k + 1 : Append(p, ch)[i] = IF i = k + 1 THEN ch ELSE p[i]
  BY <1>1, <1>4
<1>6. \A i \in 1 .. k + 1 : Append(p, ch)[i] = Prefix(b2, k + 1)[i]
  <2>1. TAKE i \in 1 .. k + 1
  <2>2. CASE i = k + 1
    BY <1>1, <1>2, <1>3, <1>5, <2>2
  <2>3. CASE i # k + 1
    <3>1. i \in 1 .. k /\ i - 1 \in Cells /\ i - 1 # k
      BY <1>1, <2>3, Parameters DEF Cells
    <3>. QED
      BY <1>2, <1>3, <1>4, <1>5, <2>3, <3>1
  <2>. QED
    BY <2>2, <2>3
<1>7. Append(p, ch) = Prefix(b2, k + 1)
  <2> DEFINE q == Prefix(b2, k + 1)
             a == Append(p, ch)
  <2>1. /\ q \in Seq(Char) /\ a \in Seq(Char) /\ Len(a) = Len(q)
        /\ \A i \in 1 .. Len(a) : a[i] = q[i]
    BY <1>1, <1>3, <1>5, <1>6
  <2>. HIDE DEF q, a
  <2>2. a = q
    BY <2>1, SeqEqual
  <2>. QED
    BY <2>2 DEF q, a
<1>8. Append(p, ch) = p \o <<ch>>
  BY <1>4, Joins
<1>. QED
  BY <1>7, <1>8 DEF b2, p

(* What a step of the system is, as far as keys are concerned. *)
LEMMA Steps ==
    ASSUME TypeInv, [Next]_vars
    PROVE  \/ Quiet
           \/ \E code \in {pressed + 1, NUL, Enter, Silent} : Press(code)
           \/ apic_handle_kbd /\ UNCHANGED <<reader, ghosts>>
           \/ \E r \in Readers : LoadSize(r) \/ ClearSize(r) \/ ClearDone(r) \/ CopyByte(r)
                                 \/ ReadReturn(r)
<1>0. pc \in [Readers -> {"user", "wait", "load", "size", "done", "copy"}]
  BY DEF TypeInv, TypeOK
<1>1. ASSUME UNCHANGED <<keyboard, buffer, reader, ghosts, mishap>> PROVE Quiet
  BY <1>0, <1>1 DEF Quiet, keyboard, reader
<1>2. CASE Boot \/ OtherDevice \/ UNCHANGED vars
  BY <1>1, <1>2 DEF Boot, OtherDevice, vars
<1>3. ASSUME NEW irq \in Lines, Interrupt(irq)
      PROVE  Quiet \/ (apic_handle_kbd /\ UNCHANGED <<reader, ghosts>>)
  BY <1>1, <1>3 DEF Interrupt
<1>4. ASSUME NEW r \in Readers, Read(r) \/ Awake(r) PROVE Quiet
  <2>1. UNCHANGED <<port, buffer, n, str, ghosts, mishap>>
    BY <1>4 DEF Read, Awake, keyboard
  <2>2. pc[r] \in {"user", "wait"} /\ \E point \in {"wait", "load"} : pc' = [pc EXCEPT ![r] = point]
    BY <1>4 DEF Read, Awake, At, Goto
  <2>. QED
    BY <1>0, <2>1, <2>2 DEF Quiet, Inside
<1>5. ASSUME NEW r \in Readers, Spin(r) PROVE Quiet
  BY <1>1, <1>5 DEF Spin, vars
<1>. QED
  BY <1>2, <1>3, <1>4, <1>5 DEF Next, kbd_get_str

(* What the byte at the port will become in the buffer. *)
Way(p) == CASE p = Enter -> <<NUL>>
            [] p \in Char -> <<p>>
            [] OTHER -> <<>>

(* It is what the ghost of the keys on their way adds. *)
LEMMA Ways ==
    /\ OnItsWay = Way(port) /\ OnItsWay' = Way(port')
    /\ Way(Enter) = <<NUL>> /\ Way(Silent) = <<>> /\ Way(Empty) = <<>>
    /\ \A ch \in Char : Way(ch) = <<ch>>
    /\ \A p \in Codes \cup {Empty} : Way(p) \in Seq(Char)
<1>1. OnItsWay = Way(port) /\ OnItsWay' = Way(port')
  BY DEF OnItsWay, Way
<1>2. Way(Enter) = <<NUL>>
  BY CodeFacts DEF Way
<1>3. Way(Silent) = <<>>
  BY CodeFacts DEF Way
<1>4. Way(Empty) = <<>>
  BY CodeFacts DEF Way
<1>5. \A ch \in Char : Way(ch) = <<ch>>
  BY CodeFacts DEF Way
<1>6. \A p \in Codes \cup {Empty} : Way(p) \in Seq(Char)
  <2>1. <<>> \in Seq(Char) /\ \A ch \in Char : <<ch>> \in Seq(Char)
    BY Joins
  <2>2. \A p \in Char : Way(p) \in Seq(Char)
    BY <1>5, <2>1
  <2>. QED
    BY <1>2, <1>3, <1>4, <2>1, <2>2, CodeFacts DEF Codes
<1>. QED
  BY <1>1, <1>2, <1>3, <1>4, <1>5, <1>6

(* The keys taken, buffered and to come are sequences of characters. *)
LEMMA KeyTypes ==
    ASSUME TypeInv, ReadInv, Safe
    PROVE  /\ FlattenSeq(delivered) \in Seq(Char) /\ FlattenSeq(lines) \in Seq(Char)
           /\ line \in Seq(Char) /\ Way(port) \in Seq(Char)
           /\ Prefix(kbd_buf, kbd_buf_sz) \in Seq(Char)
           /\ Flight(pc, n, kbd_buf) \in Seq(Char)
<1>1. /\ delivered \in Seq(Seq(Char)) /\ lines \in Seq(Seq(Char)) /\ line \in Seq(Char)
      /\ port \in Codes \cup {Empty} /\ kbd_buf \in [Cells -> Char] /\ kbd_buf_sz \in Nat
      /\ n \in [Readers -> Nat]
  BY Parameters DEF TypeInv, TypeOK, Sizes
<1>2. /\ kbd_buf_sz <= BufSize
      /\ \A r, s \in Reading : r = s
      /\ \A r \in Readers : pc[r] \in Taken => n[r] <= BufSize
  BY DEF ReadInv
<1>3. FlattenSeq(delivered) \in Seq(Char) /\ FlattenSeq(lines) \in Seq(Char)
  BY <1>1, FlatType
<1>4. Way(port) \in Seq(Char)
  BY <1>1, Ways
<1>5. Prefix(kbd_buf, kbd_buf_sz) \in Seq(Char)
  <2>1. kbd_buf_sz \in 0 .. BufSize
    BY <1>1, <1>2, Parameters
  <2>. QED
    BY <1>1, <2>1, PrefixType
<1>6. Flight(pc, n, kbd_buf) \in Seq(Char)
  <2>1. CASE \A r \in Readers : pc[r] \notin Taken
    <3>1. Flight(pc, n, kbd_buf) = <<>>
      BY <2>1, FlightNone
    <3>. QED
      BY <3>1
  <2>2. ASSUME NEW r \in Readers, pc[r] \in Taken
        PROVE  Flight(pc, n, kbd_buf) \in Seq(Char)
    <3>1. \A s \in Readers : pc[s] \in Taken => s = r
      BY <1>2, <2>2 DEF Taken, Reading
    <3>2. Flight(pc, n, kbd_buf) = Prefix(kbd_buf, n[r])
      BY <2>2, <3>1, FlightOne
    <3>3. n[r] \in 0 .. BufSize
      <4>1. n[r] \in Nat /\ n[r] <= BufSize
        BY <1>1, <1>2, <2>2
      <4>. QED
        BY <4>1, Parameters
    <3>. QED
      BY <1>1, <3>2, <3>3, PrefixType
  <2>. QED
    BY <2>1, <2>2
<1>. QED
  BY <1>1, <1>3, <1>4, <1>5, <1>6

(* A key comes into the buffer only when nobody is reading and there is room. *)
LEMMA StoreSafe ==
    ASSUME TypeInv, NEW ch \in Char, NEW done \in BOOLEAN, Store(ch, done), Safe'
    PROVE  /\ Reading = {} /\ kbd_buf_sz < BufSize
           /\ kbd_buf' = [kbd_buf EXCEPT ![kbd_buf_sz] = ch]
           /\ kbd_buf_sz' = kbd_buf_sz + 1
           /\ kbd_done' = done
           /\ mishap' = {} => ~kbd_done
<1>1. kbd_buf_sz \in Nat /\ BufSize \in Nat
  BY Parameters DEF TypeInv, TypeOK, Sizes
<1>2. KeyMishap \subseteq mishap'
  BY DEF Store
<1>3. Reading = {} /\ ~(kbd_buf_sz >= BufSize)
  BY <1>2 DEF KeyMishap, Safe, Without
<1>4. mishap' = {} => ~kbd_done
  BY <1>2, <1>3 DEF KeyMishap
<1>. QED
  BY <1>1, <1>3, <1>4 DEF Store

(* The handler stores a character, or does nothing. *)
LEMMA HandlerCases ==
    ASSUME TypeInv, apic_handle_kbd
    PROVE  /\ port' = Empty
           /\ \/ port \in {Empty, Silent} /\ UNCHANGED <<buffer, mishap>>
              \/ \E ch \in Char, done \in BOOLEAN :
                    /\ Store(ch, done) /\ Way(port) = <<ch>> /\ port \in Char \cup {Enter}
                    /\ done = (kbd_done \/ port = Enter)
                    /\ port = Enter => ch = NUL
<1>1. port \in Char \cup {Enter, Silent, Empty} /\ kbd_done \in BOOLEAN
  BY DEF TypeInv, TypeOK, Codes
<1>2. CASE port = Enter
  <2>1. Store(NUL, TRUE) /\ port' = Empty
    BY <1>2, CodeFacts DEF apic_handle_kbd, HandleReturn
  <2>2. Way(port) = <<NUL>> /\ TRUE = (kbd_done \/ port = Enter)
    BY <1>2, Ways
  <2>. QED
    BY <1>2, <2>1, <2>2, CodeFacts
<1>3. CASE port \in Char
  <2>1. Store(port, kbd_done) /\ port' = Empty
    BY <1>3, CodeFacts DEF apic_handle_kbd, HandleKey
  <2>2. Way(port) = <<port>> /\ kbd_done = (kbd_done \/ port = Enter) /\ port # Enter
    BY <1>1, <1>3, Ways, CodeFacts
  <2>. QED
    BY <1>1, <1>3, <2>1, <2>2
<1>4. CASE port \in {Silent, Empty}
  BY <1>4, CodeFacts DEF apic_handle_kbd
<1>. QED
  BY <1>1, <1>2, <1>3, <1>4

(* Nothing makes an unsafe thing undone. *)
LEMMA MishapsStay == TypeInv /\ [Next]_vars => mishap \subseteq mishap'
<1>1. Quiet => mishap' = mishap
  BY DEF Quiet
<1>2. ASSUME TypeInv, apic_handle_kbd PROVE mishap \subseteq mishap'
  BY <1>2, HandlerCases DEF Store
<1>3. \A code : Press(code) => mishap \subseteq mishap'
  BY DEF Press
<1>4. \A r \in Readers : LoadSize(r) \/ ClearSize(r) \/ ClearDone(r) \/ CopyByte(r)
                         \/ ReadReturn(r) => mishap \subseteq mishap'
  BY DEF LoadSize, ClearSize, ClearDone, CopyByte, ReadReturn
<1>. QED
  BY <1>1, <1>2, <1>3, <1>4, Steps

(* One reader at a time. *)
LEMMA ReadStep == TypeInv /\ ReadInv /\ [Next]_vars => ReadInv'
<1>. SUFFICES ASSUME TypeInv, ReadInv, [Next]_vars, Safe'
              PROVE  /\ kbd_buf_sz' <= BufSize
                     /\ \A r, s \in Reading' : r = s
                     /\ \A r \in Readers : pc'[r] = "size" => n'[r] = kbd_buf_sz'
                     /\ \A r \in Readers :
                           pc'[r] \in Taken => kbd_buf_sz' = 0 /\ n'[r] <= BufSize
                     /\ \A r \in Readers : pc'[r] \in {"size", "done"} => str'[r] = <<>>
                     /\ \A r \in Readers :
                           pc'[r] = "copy" =>
                              /\ Len(str'[r]) <= n'[r]
                              /\ \A i \in 1 .. Len(str'[r]) : str'[r][i] = kbd_buf'[i - 1]
  BY DEF ReadInv
<1>0. Safe
  BY MishapsStay DEF Safe, Without
<1>1. /\ kbd_buf_sz \in Nat /\ BufSize \in Nat
      /\ pc \in [Readers -> {"user", "wait", "load", "size", "done", "copy"}]
      /\ n \in [Readers -> Nat] /\ str \in [Readers -> Seq(Char)]
  BY Parameters DEF TypeInv, TypeOK, Sizes
<1>2. /\ kbd_buf_sz <= BufSize
      /\ \A r, s \in Reading : r = s
      /\ \A r \in Readers : pc[r] = "size" => n[r] = kbd_buf_sz
      /\ \A r \in Readers : pc[r] \in Taken => kbd_buf_sz = 0 /\ n[r] <= BufSize
      /\ \A r \in Readers : pc[r] \in {"size", "done"} => str[r] = <<>>
      /\ \A r \in Readers :
            pc[r] = "copy" => /\ Len(str[r]) <= n[r]
                              /\ \A i \in 1 .. Len(str[r]) : str[r][i] = kbd_buf[i - 1]
  BY <1>0 DEF ReadInv
<1>3. CASE Quiet
  <2>1. UNCHANGED <<kbd_buf, kbd_buf_sz, n, str>>
        /\ \A r \in Readers : pc[r] \in Inside \/ pc'[r] \in Inside => pc'[r] = pc[r]
    BY <1>3 DEF Quiet, buffer
  <2>2. Reading' = Reading
    BY <2>1 DEF Reading, Inside
  <2>3. \A r \in Readers : pc'[r] \in Inside => pc[r] = pc'[r]
    BY <2>1
  <2>. QED
    BY <1>2, <2>1, <2>2, <2>3 DEF Inside, Taken
<1>4. CASE \E code \in {pressed + 1, NUL, Enter, Silent} : Press(code)
  <2>1. UNCHANGED <<kbd_buf, kbd_buf_sz, pc, n, str>>
    BY <1>4 DEF Press, buffer, reader
  <2>2. Reading' = Reading
    BY <2>1 DEF Reading
  <2>. QED
    BY <1>2, <2>1, <2>2
<1>5. CASE apic_handle_kbd /\ UNCHANGED <<reader, ghosts>>
  <2>1. UNCHANGED <<pc, n, str>>
    BY <1>5 DEF reader
  <2>2. Reading' = Reading
    BY <2>1 DEF Reading
  <2>3. CASE UNCHANGED buffer
    BY <1>2, <2>1, <2>2, <2>3 DEF buffer
  <2>4. CASE \E ch \in Char, done \in BOOLEAN : Store(ch, done)
    <3>1. Reading = {} /\ kbd_buf_sz < BufSize /\ kbd_buf_sz' = kbd_buf_sz + 1
      BY <2>4, StoreSafe
    <3>2. \A r \in Readers : pc'[r] \notin Inside
      BY <2>1, <3>1 DEF Reading, Inside
    <3>. QED
      BY <1>1, <2>2, <3>1, <3>2 DEF Inside, Taken
  <2>. QED
    BY <1>5, <2>3, <2>4, HandlerCases
<1>6. ASSUME NEW r \in Readers, LoadSize(r) PROVE ReadInv'
  <2>1. /\ n' = [n EXCEPT ![r] = kbd_buf_sz] /\ str' = [str EXCEPT ![r] = <<>>]
        /\ pc' = [pc EXCEPT ![r] = "size"] /\ UNCHANGED <<kbd_buf, kbd_buf_sz>>
    BY <1>6 DEF LoadSize, Goto, buffer
  <2>2. Reading = {}
    BY <1>6 DEF LoadSize, Safe, Without
  <2>3. \A s \in Readers : s # r => pc'[s] \notin Inside
    BY <1>1, <2>1, <2>2 DEF Reading, Inside
  <2>4. pc'[r] = "size" /\ n'[r] = kbd_buf_sz' /\ str'[r] = <<>>
    BY <1>1, <2>1
  <2>5. \A s, t \in Reading' : s = t
    BY <2>3 DEF Reading, Inside
  <2>. QED
    BY <1>2, <2>1, <2>3, <2>4, <2>5 DEF ReadInv, Inside, Taken
<1>7. ASSUME NEW r \in Readers, ClearSize(r) PROVE ReadInv'
  <2>1. /\ pc[r] = "size" /\ pc' = [pc EXCEPT ![r] = "done"] /\ kbd_buf_sz' = 0
        /\ UNCHANGED <<kbd_buf, n, str>>
    BY <1>7 DEF ClearSize, At, Goto
  <2>2. \A s \in Readers : s # r => pc'[s] \notin Inside
    BY <1>1, <1>2, <2>1 DEF Reading, Inside
  <2>3. pc'[r] = "done" /\ n'[r] <= BufSize /\ str'[r] = <<>>
    BY <1>1, <1>2, <2>1
  <2>4. \A s, t \in Reading' : s = t
    BY <2>2 DEF Reading, Inside
  <2>. QED
    BY <1>1, <2>1, <2>2, <2>3, <2>4 DEF ReadInv, Inside, Taken
<1>8. ASSUME NEW r \in Readers, ClearDone(r) PROVE ReadInv'
  <2>1. /\ pc[r] = "done" /\ pc' = [pc EXCEPT ![r] = "copy"]
        /\ UNCHANGED <<kbd_buf, kbd_buf_sz, n, str>>
    BY <1>8 DEF ClearDone, At, Goto
  <2>2. \A s \in Readers : s # r => pc'[s] \notin Inside
    BY <1>1, <1>2, <2>1 DEF Reading, Inside
  <2>3. /\ pc'[r] = "copy" /\ n'[r] <= BufSize /\ str'[r] = <<>> /\ kbd_buf_sz' = 0
        /\ n'[r] \in Nat
    BY <1>1, <1>2, <2>1 DEF Taken
  <2>4. Len(str'[r]) = 0
    BY <2>3
  <2>5. \A s, t \in Reading' : s = t
    BY <2>2 DEF Reading, Inside
  <2>. QED
    BY <1>1, <2>1, <2>2, <2>3, <2>4, <2>5 DEF ReadInv, Inside, Taken
<1>9. ASSUME NEW r \in Readers, CopyByte(r) PROVE ReadInv'
  <2>1. /\ pc[r] = "copy" /\ Len(str[r]) < n[r]
        /\ UNCHANGED <<kbd_buf, kbd_buf_sz, pc, n>>
    BY <1>9 DEF CopyByte, At, buffer
  <2>2. /\ str[r] \in Seq(Char) /\ Len(str[r]) \in Nat /\ n[r] \in Nat /\ n[r] <= BufSize
        /\ kbd_buf_sz = 0 /\ \A i \in 1 .. Len(str[r]) : str[r][i] = kbd_buf[i - 1]
    BY <1>1, <1>2, <2>1 DEF Taken
  <2>3. str' = [str EXCEPT ![r] = Append(@, kbd_buf[Len(str[r])])]
    <3>1. Len(str[r]) < BufSize
      BY <1>1, <2>1, <2>2
    <3>. QED
      BY <1>9, <3>1 DEF CopyByte
  <2>4. \A s \in Readers : s # r => pc'[s] \notin Inside
    BY <1>2, <2>1 DEF Reading, Inside
  <2>5. str'[r] = Append(str[r], kbd_buf[Len(str[r])])
    BY <1>1, <2>3
  <2>6. /\ Len(str'[r]) = Len(str[r]) + 1
        /\ \A i \in 1 .. Len(str[r]) : str'[r][i] = str[r][i]
        /\ str'[r][Len(str[r]) + 1] = kbd_buf[Len(str[r])]
    BY <2>2, <2>5
  <2>7. Len(str'[r]) <= n'[r]
    BY <2>1, <2>2, <2>6
  <2>8. \A i \in 1 .. Len(str'[r]) : str'[r][i] = kbd_buf'[i - 1]
    <3>1. TAKE i \in 1 .. Len(str'[r])
    <3>2. i \in 1 .. Len(str[r]) \/ i = Len(str[r]) + 1
      BY <2>2, <2>6
    <3>3. (Len(str[r]) + 1) - 1 = Len(str[r])
      BY <2>2
    <3>. QED
      BY <2>1, <2>2, <2>6, <3>2, <3>3
  <2>9. \A s, t \in Reading' : s = t
    BY <2>4 DEF Reading, Inside
  <2>. QED
    BY <1>1, <1>2, <2>1, <2>2, <2>4, <2>7, <2>8, <2>9 DEF ReadInv, Inside, Taken
<1>10. ASSUME NEW r \in Readers, ReadReturn(r) PROVE ReadInv'
  <2>1. /\ pc[r] = "copy" /\ pc' = [pc EXCEPT ![r] = "user"]
        /\ UNCHANGED <<kbd_buf, kbd_buf_sz>>
    BY <1>10 DEF ReadReturn, At, Goto, buffer
  <2>2. \A s \in Readers : pc'[s] \notin Inside
    BY <1>1, <1>2, <2>1 DEF Reading, Inside
  <2>3. Reading' = {}
    BY <2>2 DEF Reading, Inside
  <2>. QED
    BY <1>2, <2>1, <2>2, <2>3 DEF ReadInv, Inside, Taken
<1>. QED
  BY <1>3, <1>4, <1>5, <1>6, <1>7, <1>8, <1>9, <1>10, Steps DEF ReadInv

(* A reader that has taken the keys is the only one, so they are in flight. *)
LEMMA FlightOf ==
    ASSUME TypeInv, ReadInv, Safe, NEW r \in Readers, pc[r] \in Taken
    PROVE  Flight(pc, n, kbd_buf) = Prefix(kbd_buf, n[r]) /\ kbd_buf_sz = 0
<1>1. /\ \A s, t \in Reading : s = t
      /\ \A s \in Readers : pc[s] \in Taken => kbd_buf_sz = 0
  BY DEF ReadInv
<1>2. \A s \in Readers : pc[s] \in Taken => s = r
  BY <1>1 DEF Reading, Taken
<1>. QED
  BY <1>1, <1>2, FlightOne

(* A reader that returns has copied what it had taken. *)
LEMMA Copied ==
    ASSUME TypeInv, ReadInv, Safe, NEW r \in Readers, ReadReturn(r)
    PROVE  Flight(pc, n, kbd_buf) = str[r] /\ str[r] \in Seq(Char)
<1>1. pc[r] = "copy" /\ Len(str[r]) = n[r]
  BY DEF ReadReturn, At
<1>2. /\ str[r] \in Seq(Char) /\ kbd_buf \in [Cells -> Char] /\ n[r] \in Nat
  BY Parameters DEF TypeInv, TypeOK, Sizes
<1>3. n[r] <= BufSize /\ \A i \in 1 .. Len(str[r]) : str[r][i] = kbd_buf[i - 1]
  BY <1>1 DEF ReadInv, Taken
<1>4. n[r] \in 0 .. BufSize
  BY <1>2, <1>3, Parameters
<1> DEFINE q == Prefix(kbd_buf, n[r])
<1>5. /\ q \in Seq(Char) /\ Len(q) = n[r] /\ \A i \in 1 .. n[r] : q[i] = kbd_buf[i - 1]
  BY <1>2, <1>4, PrefixType
<1>6. q = str[r]
  <2>. HIDE DEF q
  <2>1. \A i \in 1 .. Len(q) : q[i] = str[r][i]
    BY <1>1, <1>3, <1>5
  <2>. QED
    BY <1>1, <1>2, <1>5, <2>1, SeqEqual
<1>7. Flight(pc, n, kbd_buf) = q
  BY <1>1, FlightOf DEF Taken
<1>. QED
  BY <1>2, <1>6, <1>7

(* Nothing is taken as long as nobody reads. *)
LEMMA FlightIdle ==
    ASSUME Reading = {}
    PROVE  Flight(pc, n, kbd_buf) = <<>> /\ ~Picked
<1>1. \A r \in Readers : pc[r] \notin Taken
  BY DEF Reading, Taken
<1>. QED
  BY <1>1, FlightNone DEF Picked

(* What is in flight does not change as long as the readers that have taken
   keys, their sizes and the buffer do not. *)
LEMMA FlightStays ==
    ASSUME TypeInv, ReadInv, Safe, UNCHANGED kbd_buf,
           \A r \in Readers : pc[r] \in Taken <=> pc'[r] \in Taken,
           \A r \in Readers : pc[r] \in Taken => n'[r] = n[r]
    PROVE  Flight(pc', n', kbd_buf') = Flight(pc, n, kbd_buf)
<1>1. CASE \A r \in Readers : pc[r] \notin Taken
  BY <1>1, FlightNone
<1>2. ASSUME NEW r \in Readers, pc[r] \in Taken
      PROVE  Flight(pc', n', kbd_buf') = Flight(pc, n, kbd_buf)
  <2>1. \A s \in Readers : pc[s] \in Taken => s = r
    BY <1>2 DEF Reading, Taken, ReadInv
  <2>2. Flight(pc', n', kbd_buf') = Prefix(kbd_buf', n'[r])
    BY <1>2, <2>1, FlightOne
  <2>3. Flight(pc, n, kbd_buf) = Prefix(kbd_buf, n[r])
    BY <1>2, <2>1, FlightOne
  <2>. QED
    BY <1>2, <2>2, <2>3
<1>. QED
  BY <1>1, <1>2

(* Nothing is in a buffer of size 0. *)
LEMMA PrefixNone == \A b : Prefix(b, 0) = <<>>
<1>1. 1 .. 0 = {}
  OBVIOUS
<1>. QED
  BY <1>1 DEF Prefix

(* Every key is somewhere, from each step to the next. *)
LEMMA KeysStep == LostInv /\ [Next]_vars => KeysInv'
<1> DEFINE D == FlattenSeq(delivered)
           F == Flight(pc, n, kbd_buf)
           B == Prefix(kbd_buf, kbd_buf_sz)
           W == Way(port)
           L == FlattenSeq(lines)
           D2 == FlattenSeq(delivered')
           F2 == Flight(pc', n', kbd_buf')
           B2 == Prefix(kbd_buf', kbd_buf_sz')
           W2 == Way(port')
           L2 == FlattenSeq(lines')
<1>. SUFFICES ASSUME LostInv, [Next]_vars, Safe'
              PROVE  D2 \o F2 \o B2 \o W2 = L2 \o line'
  BY StateTerms, NextTerms, Ways DEF KeysInv
<1>0. TypeInv /\ ReadInv /\ Safe
  BY MishapsStay DEF LostInv, Safe, Without
<1>1. D \o F \o B \o W = L \o line
  BY <1>0, StateTerms, Ways DEF KeysInv, LostInv
<1>2. /\ D \in Seq(Char) /\ F \in Seq(Char) /\ B \in Seq(Char) /\ W \in Seq(Char)
      /\ L \in Seq(Char) /\ line \in Seq(Char)
  BY <1>0, KeyTypes
<1>3. /\ delivered \in Seq(Seq(Char)) /\ lines \in Seq(Seq(Char))
      /\ pc \in [Readers -> {"user", "wait", "load", "size", "done", "copy"}]
      /\ kbd_buf \in [Cells -> Char] /\ kbd_buf_sz \in Nat
      /\ n \in [Readers -> Nat] /\ str \in [Readers -> Seq(Char)]
  BY <1>0, Parameters DEF TypeInv, TypeOK, Sizes
<1>4. ASSUME UNCHANGED <<port, delivered, lines, line, kbd_buf, kbd_buf_sz>>, F2 = F
      PROVE  D2 \o F2 \o B2 \o W2 = L2 \o line'
  <2>1. D2 = D /\ L2 = L /\ B2 = B /\ W2 = W
    BY <1>4
  <2>. HIDE DEF D, F, B, W, L, D2, F2, B2, W2, L2
  <2>. QED
    BY <1>1, <1>4, <2>1
<1>5. CASE Quiet
  <2>1. UNCHANGED <<port, delivered, lines, line, kbd_buf, kbd_buf_sz, n>>
        /\ \A r \in Readers : pc[r] \in Taken <=> pc'[r] \in Taken
    BY <1>5 DEF Quiet, buffer, ghosts, Inside, Taken
  <2>2. F2 = F
    BY <1>0, <1>3, <2>1, FlightStays
  <2>. QED
    BY <1>4, <2>1, <2>2
<1>6. CASE \E code \in {pressed + 1, NUL, Enter, Silent} : Press(code)
  <2>0. PICK code \in {pressed + 1, NUL, Enter, Silent} : Press(code)
    BY <1>6
  <2>1. /\ port = Empty /\ port' = code /\ pressed \in Nat /\ pressed < MaxKeys
        /\ lines' = (IF code = Enter THEN Append(lines, Append(line, NUL)) ELSE lines)
        /\ line' = CASE code = Enter -> <<>>
                     [] code = Silent -> line
                     [] OTHER -> Append(line, code)
        /\ UNCHANGED <<kbd_buf, kbd_buf_sz, pc, n, delivered>>
    BY <1>0, <2>0 DEF Press, buffer, reader, TypeInv, TypeOK
  <2>2. D2 = D /\ F2 = F /\ B2 = B /\ W = <<>>
    BY <2>1, Ways
  <2>3. D \o F \o B = L \o line
    <3>. HIDE DEF D, F, B, W, L
    <3>1. D \o F \o B \in Seq(Char)
      BY <1>2, Joins
    <3>2. (D \o F \o B) \o W = D \o F \o B
      BY <2>2, <3>1, Joins
    <3>. QED
      BY <1>1, <3>2
  <2>4. CASE code = Enter
    <3>0. line' = <<>>
      BY <2>1, <2>4, CodeFacts
    <3>1. W2 = <<NUL>> /\ line' = <<>>
      BY <2>1, <2>4, <3>0, Ways
    <3>2. Append(line, NUL) \in Seq(Char) /\ Append(line, NUL) = line \o <<NUL>>
      BY <1>2, Joins, CodeFacts
    <3>3. L2 = L \o Append(line, NUL)
      BY <1>3, <2>1, <2>4, <3>2, FlatAppend
    <3>. HIDE DEF D, F, B, W, L, D2, F2, B2, W2, L2
    <3>4. L2 \o line' = L \o (line \o <<NUL>>)
      <4>1. L \o Append(line, NUL) \in Seq(Char)
        BY <1>2, <3>2, Joins
      <4>. QED
        BY <3>1, <3>2, <3>3, <4>1, Joins
    <3>5. (L \o line) \o <<NUL>> = L \o (line \o <<NUL>>)
      <4>1. \A s, t \in Seq(Char), x \in Char : (s \o t) \o <<x>> = s \o (t \o <<x>>)
        BY JoinLast
      <4>2. NUL \in Char
        BY CodeFacts
      <4>. QED
        BY <1>2, <4>1, <4>2
    <3>. QED
      BY <2>2, <2>3, <3>1, <3>4, <3>5
  <2>5. CASE code = Silent
    <3>1. W2 = <<>> /\ line' = line /\ L2 = L
      BY <2>1, <2>5, Ways, CodeFacts
    <3>. HIDE DEF D, F, B, W, L, D2, F2, B2, W2, L2
    <3>. QED
      BY <1>1, <2>2, <3>1
  <2>6. CASE code \notin {Enter, Silent}
    <3>1. code \in Char
      BY <2>1, <2>6, Parameters, CodeFacts DEF Char
    <3>2. W2 = <<code>> /\ L2 = L /\ line' = Append(line, code)
      BY <2>1, <2>6, <3>1, Ways
    <3>3. Append(line, code) = line \o <<code>> /\ <<code>> \in Seq(Char)
      BY <1>2, <3>1, Joins
    <3>. HIDE DEF D, F, B, W, L, D2, F2, B2, W2, L2
    <3>4. (L \o line) \o <<code>> = L \o (line \o <<code>>)
      <4>1. \A s, t \in Seq(Char), x \in Char : (s \o t) \o <<x>> = s \o (t \o <<x>>)
        BY JoinLast
      <4>. QED
        BY <1>2, <3>1, <4>1
    <3>. QED
      BY <2>2, <2>3, <3>2, <3>3, <3>4
  <2>. QED
    BY <2>4, <2>5, <2>6
<1>7. CASE apic_handle_kbd /\ UNCHANGED <<reader, ghosts>>
  <2>1. UNCHANGED <<pc, n, str, lines, line, delivered>> /\ port' = Empty /\ W2 = <<>>
    BY <1>0, <1>7, HandlerCases, Ways DEF reader, ghosts
  <2>2. CASE port \in {Empty, Silent} /\ UNCHANGED buffer
    <3>1. D2 = D /\ F2 = F /\ B2 = B /\ L2 = L /\ W = <<>>
      BY <2>1, <2>2, Ways DEF buffer
    <3>. HIDE DEF D, F, B, W, L, D2, F2, B2, W2, L2
    <3>. QED
      BY <1>1, <2>1, <3>1
  <2>3. ASSUME NEW ch \in Char, NEW done \in BOOLEAN, Store(ch, done), W = <<ch>>
        PROVE  D2 \o F2 \o B2 \o W2 = L2 \o line'
    <3>1. /\ Reading = {} /\ kbd_buf_sz < BufSize
          /\ kbd_buf' = [kbd_buf EXCEPT ![kbd_buf_sz] = ch] /\ kbd_buf_sz' = kbd_buf_sz + 1
      BY <1>0, <2>3, StoreSafe
    <3>2. F = <<>> /\ F2 = <<>>
      <4>1. \A r \in Readers : pc'[r] \notin Taken
        BY <2>1, <3>1 DEF Reading, Taken
      <4>. QED
        BY <3>1, <4>1, FlightIdle, FlightNone
    <3>3. B2 = B \o <<ch>>
      <4>1. kbd_buf_sz \in 0 .. BufSize
        BY <1>3, <3>1, Parameters
      <4>. QED
        BY <1>3, <3>1, <4>1, PrefixStore
    <3>4. D2 = D /\ L2 = L
      BY <2>1
    <3>. HIDE DEF D, F, B, W, L, D2, F2, B2, W2, L2
    <3>5. D \o F = D /\ <<ch>> \in Seq(Char) /\ B \o <<ch>> \in Seq(Char)
      BY <1>2, <3>2, Joins
    <3>6. (D \o B) \o <<ch>> = D \o (B \o <<ch>>)
      <4>1. \A s, t \in Seq(Char), x \in Char : (s \o t) \o <<x>> = s \o (t \o <<x>>)
        BY JoinLast
      <4>. QED
        BY <1>2, <4>1
    <3>7. D \o B2 \in Seq(Char)
      BY <1>2, <3>3, <3>5, Joins
    <3>8. D \o B2 \o W2 = D \o B2
      BY <2>1, <3>7, Joins
    <3>. QED
      BY <1>1, <2>1, <2>3, <3>2, <3>3, <3>4, <3>5, <3>6, <3>8
  <2>. QED
    BY <1>0, <1>7, <2>2, <2>3, HandlerCases
<1>8. ASSUME NEW r \in Readers, LoadSize(r) PROVE D2 \o F2 \o B2 \o W2 = L2 \o line'
  <2>1. /\ n' = [n EXCEPT ![r] = kbd_buf_sz] /\ pc' = [pc EXCEPT ![r] = "size"]
        /\ UNCHANGED <<port, delivered, lines, line, kbd_buf, kbd_buf_sz>>
    BY <1>8 DEF LoadSize, Goto, buffer, keyboard, ghosts
  <2>2. Reading = {}
    BY <1>8 DEF LoadSize, Safe, Without
  <2>3. \A s \in Readers : pc[s] \notin Taken /\ pc'[s] \notin Taken
    BY <1>3, <2>1, <2>2 DEF Reading, Taken
  <2>4. F2 = F
    BY <2>3, FlightNone
  <2>. QED
    BY <1>4, <2>1, <2>4
<1>9. ASSUME NEW r \in Readers, ClearSize(r) PROVE D2 \o F2 \o B2 \o W2 = L2 \o line'
  <2>1. /\ pc[r] = "size" /\ pc' = [pc EXCEPT ![r] = "done"] /\ kbd_buf_sz' = 0
        /\ UNCHANGED <<port, delivered, lines, line, kbd_buf, n>>
    BY <1>9 DEF ClearSize, At, Goto, keyboard, ghosts
  <2>2. n[r] = kbd_buf_sz /\ \A s \in Reading : s = r
    <3>1. r \in Reading
      BY <2>1 DEF Reading
    <3>. QED
      BY <1>0, <2>1, <3>1 DEF ReadInv
  <2>3. \A s \in Readers : pc[s] \notin Taken
    BY <2>1, <2>2 DEF Reading, Taken
  <2>4. pc'[r] \in Taken /\ \A s \in Readers : pc'[s] \in Taken => s = r
    BY <1>3, <2>1, <2>3 DEF Taken
  <2>5. F = <<>>
    BY <2>3, FlightNone
  <2>6. F2 = B
    <3>1. F2 = Prefix(kbd_buf', n'[r])
      BY <2>4, FlightOne
    <3>2. n'[r] = kbd_buf_sz /\ kbd_buf' = kbd_buf
      BY <2>1, <2>2
    <3>. QED
      BY <3>1, <3>2
  <2>7. B2 = <<>>
    BY <2>1, PrefixNone
  <2>8. D2 = D /\ L2 = L /\ W2 = W
    BY <2>1
  <2>. HIDE DEF D, F, B, W, L, D2, F2, B2, W2, L2
  <2>9. D \o F = D /\ D \o B \in Seq(Char)
    BY <1>2, <2>5, Joins
  <2>10. (D \o B) \o B2 = D \o B
    BY <2>7, <2>9, Joins
  <2>. QED
    BY <1>1, <2>1, <2>6, <2>8, <2>9, <2>10
<1>10. ASSUME NEW r \in Readers, ClearDone(r) \/ CopyByte(r)
       PROVE  D2 \o F2 \o B2 \o W2 = L2 \o line'
  <2>1. UNCHANGED <<port, delivered, lines, line, kbd_buf, kbd_buf_sz, n>>
    BY <1>10 DEF ClearDone, CopyByte, buffer, keyboard, ghosts
  <2>2. \A s \in Readers : pc[s] \in Taken <=> pc'[s] \in Taken
    BY <1>3, <1>10 DEF ClearDone, CopyByte, At, Goto, Taken
  <2>3. F2 = F
    BY <1>0, <2>1, <2>2, FlightStays
  <2>. QED
    BY <1>4, <2>1, <2>3
<1>11. ASSUME NEW r \in Readers, ReadReturn(r) PROVE D2 \o F2 \o B2 \o W2 = L2 \o line'
  <2>1. /\ pc[r] = "copy" /\ pc' = [pc EXCEPT ![r] = "user"]
        /\ delivered' = Append(delivered, str[r])
        /\ UNCHANGED <<port, lines, line, kbd_buf, kbd_buf_sz>>
    BY <1>11 DEF ReadReturn, At, Goto, buffer, keyboard
  <2>2. F = str[r] /\ str[r] \in Seq(Char)
    BY <1>0, <1>11, Copied
  <2>3. \A s \in Readers : pc'[s] \notin Taken
    <3>1. \A s \in Reading : s = r
      <4>1. r \in Reading
        BY <2>1 DEF Reading
      <4>. QED
        BY <1>0, <4>1 DEF ReadInv
    <3>. QED
      BY <1>3, <2>1, <3>1 DEF Reading, Taken
  <2>4. F2 = <<>>
    BY <2>3, FlightNone
  <2>5. D2 = D \o str[r]
    BY <1>3, <2>1, <2>2, FlatAppend
  <2>6. L2 = L /\ B2 = B /\ W2 = W
    BY <2>1
  <2>. HIDE DEF D, F, B, W, L, D2, F2, B2, W2, L2
  <2>7. D \o F \in Seq(Char)
    BY <1>2, Joins
  <2>8. (D \o F) \o F2 = D \o F
    BY <2>4, <2>7, Joins
  <2>. QED
    BY <1>1, <2>1, <2>2, <2>5, <2>6, <2>8
<1>. QED
  BY <1>0, <1>5, <1>6, <1>7, <1>8, <1>9, <1>10, <1>11, Steps

(* The parts of LineInv in terms of the variables. *)
LEMMA LineTerms ==
    /\ Whole = (IF Picked THEN <<Flight(pc, n, kbd_buf)>>
                ELSE IF kbd_done THEN <<Prefix(kbd_buf, kbd_buf_sz)>> ELSE <<>>)
    /\ Whole' = (IF Picked' THEN <<Flight(pc', n', kbd_buf')>>
                 ELSE IF kbd_done' THEN <<Prefix(kbd_buf', kbd_buf_sz')>> ELSE <<>>)
    /\ Partial = (IF kbd_done \/ Picked THEN <<>> ELSE Prefix(kbd_buf, kbd_buf_sz))
    /\ Partial' = (IF kbd_done' \/ Picked' THEN <<>> ELSE Prefix(kbd_buf', kbd_buf_sz'))
    /\ Ended = (IF port = Enter THEN <<Partial \o <<NUL>>>> ELSE <<>>)
    /\ Ended' = (IF port' = Enter THEN <<Partial' \o <<NUL>>>> ELSE <<>>)
<1>1. /\ Whole = (IF Picked THEN <<Flight(pc, n, kbd_buf)>>
                  ELSE IF kbd_done THEN <<Prefix(kbd_buf, kbd_buf_sz)>> ELSE <<>>)
      /\ Partial = (IF kbd_done \/ Picked THEN <<>> ELSE Prefix(kbd_buf, kbd_buf_sz))
  BY StateTerms DEF Whole, Partial
<1>2. /\ Whole' = (IF Picked' THEN <<Flight(pc', n', kbd_buf')>>
                   ELSE IF kbd_done' THEN <<Prefix(kbd_buf', kbd_buf_sz')>> ELSE <<>>)
      /\ Partial' = (IF kbd_done' \/ Picked' THEN <<>> ELSE Prefix(kbd_buf', kbd_buf_sz'))
  BY NextTerms DEF Whole, Partial
<1>. QED
  BY <1>1, <1>2 DEF Ended

(* A line and a piece of one. *)
LEMMA LineTypes ==
    ASSUME TypeInv, ReadInv, Safe
    PROVE  Whole \in Seq(Seq(Char)) /\ Partial \in Seq(Char) /\ delivered \in Seq(Seq(Char))
           /\ lines \in Seq(Seq(Char)) /\ line \in Seq(Char)
<1>1. Prefix(kbd_buf, kbd_buf_sz) \in Seq(Char) /\ Flight(pc, n, kbd_buf) \in Seq(Char)
  BY KeyTypes
<1>2. <<>> \in Seq(Char) /\ <<>> \in Seq(Seq(Char))
  OBVIOUS
<1>3. \A s \in Seq(Char) : <<s>> \in Seq(Seq(Char))
  OBVIOUS
<1>4. Whole \in Seq(Seq(Char))
  BY <1>1, <1>2, <1>3, LineTerms
<1>5. Partial \in Seq(Char)
  BY <1>1, <1>2, LineTerms
<1>. QED
  BY <1>4, <1>5 DEF TypeInv, TypeOK

(* Where the lines are, the parts of LineInv. *)
LineBody ==
    /\ lines = delivered \o Whole \o Ended
    /\ line = IF port = Enter THEN <<>> ELSE Partial \o OnItsWay
LoneReader ==
    /\ \A r \in Readers : pc[r] \in {"size", "done"} => kbd_done
    /\ \A r \in Readers : pc[r] = "copy" => ~kbd_done

(* The reader that takes a line finds a complete one. *)
LEMMA LoneStep ==
    ASSUME LostInv, [Next]_vars, mishap' = {}, mishap = {}, Safe, Safe'
    PROVE  LoneReader'
<1>0. TypeInv /\ ReadInv /\ LoneReader
  BY DEF LostInv, LineInv, LoneReader
<1>1. pc \in [Readers -> {"user", "wait", "load", "size", "done", "copy"}]
  BY <1>0 DEF TypeInv, TypeOK
<1>2. CASE Quiet
  BY <1>0, <1>2 DEF Quiet, buffer, LoneReader, Inside
<1>3. CASE \E code \in {pressed + 1, NUL, Enter, Silent} : Press(code)
  BY <1>0, <1>3 DEF Press, buffer, reader, LoneReader
<1>4. CASE apic_handle_kbd /\ UNCHANGED <<reader, ghosts>>
  <2>1. UNCHANGED pc
    BY <1>4 DEF reader
  <2>2. CASE UNCHANGED buffer
    BY <1>0, <2>1, <2>2 DEF buffer, LoneReader
  <2>3. CASE \E ch \in Char, done \in BOOLEAN : Store(ch, done)
    <3>1. Reading = {}
      BY <1>0, <2>3, StoreSafe
    <3>. QED
      BY <2>1, <3>1 DEF Reading, LoneReader
  <2>. QED
    BY <1>0, <1>4, <2>2, <2>3, HandlerCases
<1>5. ASSUME NEW r \in Readers, LoadSize(r) PROVE LoneReader'
  <2>1. pc' = [pc EXCEPT ![r] = "size"] /\ kbd_done' = kbd_done
    BY <1>5 DEF LoadSize, Goto, buffer
  <2>2. Reading = {} /\ kbd_done
    BY <1>5 DEF LoadSize
  <2>. QED
    BY <1>1, <2>1, <2>2 DEF Reading, LoneReader
<1>6. ASSUME NEW r \in Readers, ClearSize(r) PROVE LoneReader'
  <2>1. pc[r] = "size" /\ pc' = [pc EXCEPT ![r] = "done"] /\ kbd_done' = kbd_done
    BY <1>6 DEF ClearSize, At, Goto
  <2>. QED
    BY <1>0, <1>1, <2>1 DEF LoneReader
<1>7. ASSUME NEW r \in Readers, ClearDone(r) PROVE LoneReader'
  <2>1. pc[r] = "done" /\ pc' = [pc EXCEPT ![r] = "copy"] /\ kbd_done' = FALSE
    BY <1>7 DEF ClearDone, At, Goto
  <2>2. \A s \in Readers : s # r => pc[s] \notin Inside
    BY <1>0, <2>1 DEF ReadInv, Reading, Inside
  <2>. QED
    BY <1>1, <2>1, <2>2 DEF LoneReader, Inside
<1>8. ASSUME NEW r \in Readers, CopyByte(r) PROVE LoneReader'
  BY <1>0, <1>8 DEF CopyByte, buffer, LoneReader
<1>9. ASSUME NEW r \in Readers, ReadReturn(r) PROVE LoneReader'
  <2>1. pc' = [pc EXCEPT ![r] = "user"] /\ kbd_done' = kbd_done
    BY <1>9 DEF ReadReturn, Goto, buffer
  <2>. QED
    BY <1>0, <1>1, <2>1 DEF LoneReader
<1>. QED
  BY <1>0, <1>2, <1>3, <1>4, <1>5, <1>6, <1>7, <1>8, <1>9, Steps

(* Each line stays in its place, or moves to the next. *)
LEMMA LineStep == LostInv /\ [Next]_vars => LineInv'
<1>. SUFFICES ASSUME LostInv, [Next]_vars, mishap' = {} PROVE LineBody' /\ LoneReader'
  BY DEF LineInv, LineBody, LoneReader
<1>0. TypeInv /\ ReadInv /\ mishap = {} /\ Safe /\ Safe'
  BY MishapsStay DEF LostInv, Safe, Without
<1>1. LineBody /\ LoneReader
  BY <1>0 DEF LostInv, LineInv, LineBody, LoneReader
<1>2. LoneReader'
  BY <1>0, LoneStep
<1>. SUFFICES LineBody'
  BY <1>2
<1> DEFINE F == Flight(pc, n, kbd_buf)
           B == Prefix(kbd_buf, kbd_buf_sz)
           F2 == Flight(pc', n', kbd_buf')
           B2 == Prefix(kbd_buf', kbd_buf_sz')
<1>3. /\ pc \in [Readers -> {"user", "wait", "load", "size", "done", "copy"}]
      /\ kbd_buf \in [Cells -> Char] /\ kbd_buf_sz \in Nat /\ kbd_done \in BOOLEAN
      /\ n \in [Readers -> Nat] /\ str \in [Readers -> Seq(Char)]
  BY <1>0, Parameters DEF TypeInv, TypeOK, Sizes
<1>4. /\ Whole \in Seq(Seq(Char)) /\ Partial \in Seq(Char) /\ delivered \in Seq(Seq(Char))
      /\ lines \in Seq(Seq(Char)) /\ line \in Seq(Char)
      /\ B \in Seq(Char) /\ F \in Seq(Char)
  BY <1>0, LineTypes, KeyTypes
<1>5. ASSUME UNCHANGED <<port, delivered, lines, line>>, Whole' = Whole, Partial' = Partial
      PROVE  LineBody'
  <2>1. Ended' = Ended /\ OnItsWay' = OnItsWay
    BY <1>5, LineTerms, Ways
  <2>. QED
    BY <1>1, <1>5, <2>1 DEF LineBody
<1>6. CASE Quiet
  <2>1. UNCHANGED <<port, delivered, lines, line, kbd_buf, kbd_buf_sz, kbd_done, n>>
        /\ \A r \in Readers : pc[r] \in Taken <=> pc'[r] \in Taken
    BY <1>6 DEF Quiet, buffer, ghosts, Inside, Taken
  <2>2. F2 = F /\ Picked' = Picked
    <3>1. F2 = F
      BY <1>0, <2>1, FlightStays
    <3>2. Picked' <=> Picked
      BY <2>1 DEF Picked
    <3>. QED
      BY <3>1, <3>2 DEF Picked
  <2>3. Whole' = Whole /\ Partial' = Partial
    BY <2>1, <2>2, LineTerms
  <2>. QED
    BY <1>5, <2>1, <2>3
<1>7. CASE \E code \in {pressed + 1, NUL, Enter, Silent} : Press(code)
  <2>0. PICK code \in {pressed + 1, NUL, Enter, Silent} : Press(code)
    BY <1>7
  <2>1. /\ port = Empty /\ port' = code /\ pressed \in Nat /\ pressed < MaxKeys
        /\ lines' = (IF code = Enter THEN Append(lines, Append(line, NUL)) ELSE lines)
        /\ line' = CASE code = Enter -> <<>>
                     [] code = Silent -> line
                     [] OTHER -> Append(line, code)
        /\ UNCHANGED <<kbd_buf, kbd_buf_sz, kbd_done, pc, n, delivered>>
    BY <1>0, <2>0 DEF Press, buffer, reader, TypeInv, TypeOK
  <2>2. Whole' = Whole /\ Partial' = Partial
    <3>1. Picked' = Picked
      BY <2>1 DEF Picked
    <3>. QED
      BY <2>1, <3>1, LineTerms
  <2>3. lines = delivered \o Whole /\ line = Partial
    <3>1. Ended = <<>> /\ OnItsWay = <<>>
      BY <2>1, LineTerms, Ways, CodeFacts
    <3>2. delivered \o Whole \in Seq(Seq(Char))
      BY <1>4, Joins
    <3>3. (delivered \o Whole) \o <<>> = delivered \o Whole /\ Partial \o <<>> = Partial
      BY <1>4, <3>2, Joins
    <3>. QED
      BY <1>1, <2>1, <3>1, <3>3, CodeFacts DEF LineBody
  <2>4. CASE code = Enter
    <3>1. line' = <<>> /\ port' = Enter
      BY <2>1, <2>4, CodeFacts
    <3>2. Append(line, NUL) = Partial \o <<NUL>> /\ Append(line, NUL) \in Seq(Char)
      BY <1>4, <2>3, Joins, CodeFacts
    <3>3. lines' = lines \o <<Append(line, NUL)>>
      <4>1. lines' = Append(lines, Append(line, NUL))
        BY <2>1, <2>4
      <4> DEFINE s == Append(line, NUL)
      <4>2. s \in Seq(Char)
        BY <3>2
      <4>. HIDE DEF s
      <4>3. Append(lines, s) = lines \o <<s>>
        BY <1>4, <4>2, AppendIsConcat
      <4>. QED
        BY <4>1, <4>3 DEF s
    <3>4. Ended' = <<Append(line, NUL)>>
      BY <2>2, <3>1, <3>2, LineTerms
    <3>. QED
      BY <2>1, <2>2, <2>3, <3>1, <3>3, <3>4 DEF LineBody
  <2>5. CASE code # Enter
    <3>1. Ended' = <<>> /\ lines' = lines /\ port' # Enter
      BY <2>1, <2>5, LineTerms
    <3>2. line' = Partial \o OnItsWay'
      <4>1. CASE code = Silent
        <5>1. line' = line /\ OnItsWay' = <<>>
          BY <2>1, <4>1, Ways, CodeFacts
        <5>. QED
          BY <1>4, <2>3, <5>1, Joins
      <4>2. CASE code # Silent
        <5>1. code \in Char
          BY <2>1, <2>5, <4>2, Parameters, CodeFacts DEF Char
        <5>2. line' = Append(line, code) /\ OnItsWay' = <<code>>
          BY <2>1, <2>5, <4>2, <5>1, Ways
        <5>3. Append(line, code) = line \o <<code>>
          BY <1>4, <5>1, AppendIsConcat
        <5>. QED
          BY <2>3, <5>2, <5>3
      <4>. QED
        BY <4>1, <4>2
    <3>3. delivered' \o Whole' \o Ended' = delivered \o Whole
      <4>1. delivered \o Whole \in Seq(Seq(Char))
        BY <1>4, Joins
      <4>. QED
        BY <2>1, <2>2, <3>1, <4>1, Joins
    <3>. QED
      BY <2>2, <2>3, <3>1, <3>2, <3>3 DEF LineBody
  <2>. QED
    BY <2>4, <2>5
<1>8. CASE apic_handle_kbd /\ UNCHANGED <<reader, ghosts>>
  <2>1. UNCHANGED <<pc, n, lines, line, delivered>> /\ port' = Empty
        /\ Ended' = <<>> /\ OnItsWay' = <<>> /\ port' # Enter /\ Picked' = Picked
    <3>1. UNCHANGED <<pc, n, lines, line, delivered>> /\ port' = Empty
      BY <1>0, <1>8, HandlerCases DEF reader, ghosts
    <3>2. Ended' = <<>> /\ OnItsWay' = <<>> /\ port' # Enter
      BY <3>1, Ways, LineTerms, CodeFacts
    <3>. QED
      BY <3>1, <3>2 DEF Picked
  <2>2. CASE port \in {Empty, Silent} /\ UNCHANGED buffer
    <3>1. Whole' = Whole /\ Partial' = Partial
      BY <2>1, <2>2, LineTerms DEF buffer
    <3>2. Ended = <<>> /\ OnItsWay = <<>> /\ port # Enter
      BY <2>2, Ways, LineTerms, CodeFacts
    <3>. QED
      BY <1>1, <2>1, <3>1, <3>2 DEF LineBody
  <2>3. ASSUME NEW ch \in Char, NEW done \in BOOLEAN, Store(ch, done), Way(port) = <<ch>>,
               port \in Char \cup {Enter}, done = (kbd_done \/ port = Enter),
               port = Enter => ch = NUL
        PROVE  LineBody'
    <3>1. /\ Reading = {} /\ kbd_buf_sz < BufSize /\ ~kbd_done
          /\ kbd_buf' = [kbd_buf EXCEPT ![kbd_buf_sz] = ch] /\ kbd_buf_sz' = kbd_buf_sz + 1
          /\ kbd_done' = done
      BY <1>0, <2>3, StoreSafe
    <3>2. ~Picked /\ ~Picked'
      BY <2>1, <3>1, FlightIdle
    <3>3. Whole = <<>> /\ Partial = B
      BY <3>1, <3>2, LineTerms
    <3>4. B2 = B \o <<ch>>
      <4>1. kbd_buf_sz \in 0 .. BufSize
        BY <1>3, <3>1, Parameters
      <4>. QED
        BY <1>3, <3>1, <4>1, PrefixStore
    <3>5. CASE port = Enter
      <4>1. kbd_done' = TRUE /\ ch = NUL
        BY <2>3, <3>1, <3>5
      <4>2. Whole' = <<B \o <<NUL>>>> /\ Partial' = <<>>
        BY <3>2, <3>4, <4>1, LineTerms
      <4>3. Ended = <<B \o <<NUL>>>>
        BY <3>3, <3>5, LineTerms
      <4> DEFINE w == <<B \o <<NUL>>>>
      <4>4. w \in Seq(Seq(Char))
        <5>1. B \o <<NUL>> \in Seq(Char)
          <6>1. <<NUL>> \in Seq(Char)
            BY CodeFacts
          <6>. QED
            BY <1>4, <6>1, ConcatProperties
        <5>. QED
          BY <5>1
      <4>. HIDE DEF w
      <4>5. delivered \o <<>> = delivered /\ delivered \o w \in Seq(Seq(Char))
        BY <1>4, <4>4, Joins
      <4>6. (delivered \o w) \o <<>> = delivered \o w
        BY <4>5, Joins
      <4>7. lines' = delivered \o w
        BY <1>1, <2>1, <3>3, <4>3, <4>5 DEF LineBody, w
      <4>8. line' = <<>> /\ <<>> \o <<>> = <<>>
        BY <1>1, <2>1, <3>5, Joins DEF LineBody
      <4>. QED
        BY <2>1, <4>2, <4>6, <4>7, <4>8 DEF LineBody, w
    <3>6. CASE port # Enter
      <4>1. Ended = <<>> /\ kbd_done' = FALSE
        BY <2>3, <3>1, <3>6, LineTerms
      <4>2. Whole' = <<>> /\ Partial' = B2
        BY <3>2, <4>1, LineTerms
      <4>3. line = B2
        BY <1>1, <2>3, <3>3, <3>4, <3>6, Ways DEF LineBody
      <4>4. B2 \o <<>> = B2
        <5>1. B2 \in Seq(Char)
          BY <1>4, <4>3
        <5>. HIDE DEF B2
        <5>. QED
          BY <5>1, Joins
      <4>. QED
        BY <1>1, <2>1, <3>3, <4>1, <4>2, <4>3, <4>4 DEF LineBody
    <3>. QED
      BY <3>5, <3>6
  <2>. QED
    BY <1>0, <1>8, <2>2, <2>3, HandlerCases
<1>9. ASSUME NEW r \in Readers, LoadSize(r) PROVE LineBody'
  <2>1. /\ n' = [n EXCEPT ![r] = kbd_buf_sz] /\ pc' = [pc EXCEPT ![r] = "size"]
        /\ UNCHANGED <<port, delivered, lines, line, kbd_buf, kbd_buf_sz, kbd_done>>
    BY <1>9 DEF LoadSize, Goto, buffer, keyboard, ghosts
  <2>2. Reading = {}
    BY <1>0, <1>9 DEF LoadSize, Safe, Without
  <2>3. \A s \in Readers : pc[s] \notin Taken /\ pc'[s] \notin Taken
    BY <1>3, <2>1, <2>2 DEF Reading, Taken
  <2>4. ~Picked /\ ~Picked'
    BY <2>3 DEF Picked
  <2>5. Whole' = Whole /\ Partial' = Partial
    BY <2>1, <2>4, LineTerms
  <2>. QED
    BY <1>5, <2>1, <2>5
<1>10. ASSUME NEW r \in Readers, ClearSize(r) PROVE LineBody'
  <2>1. /\ pc[r] = "size" /\ pc' = [pc EXCEPT ![r] = "done"] /\ kbd_buf_sz' = 0
        /\ UNCHANGED <<port, delivered, lines, line, kbd_buf, kbd_done, n>>
    BY <1>10 DEF ClearSize, At, Goto, keyboard, ghosts
  <2>2. n[r] = kbd_buf_sz /\ \A s \in Reading : s = r
    <3>1. r \in Reading
      BY <2>1 DEF Reading
    <3>. QED
      BY <1>0, <2>1, <3>1 DEF ReadInv
  <2>3. \A s \in Readers : pc[s] \notin Taken
    BY <2>1, <2>2 DEF Reading, Taken
  <2>4. pc'[r] \in Taken /\ \A s \in Readers : pc'[s] \in Taken => s = r
    BY <1>3, <2>1, <2>3 DEF Taken
  <2>5. kbd_done /\ ~Picked /\ Picked'
    BY <1>1, <2>1, <2>3, <2>4 DEF Picked, LoneReader
  <2>6. F2 = B
    <3>1. F2 = Prefix(kbd_buf', n'[r])
      BY <2>4, FlightOne
    <3>2. n'[r] = kbd_buf_sz /\ kbd_buf' = kbd_buf
      BY <2>1, <2>2
    <3>. QED
      BY <3>1, <3>2
  <2>7. Whole' = Whole /\ Partial' = Partial
    BY <2>5, <2>6, LineTerms
  <2>. QED
    BY <1>5, <2>1, <2>7
<1>11. ASSUME NEW r \in Readers, ClearDone(r) \/ CopyByte(r) PROVE LineBody'
  <2>1. UNCHANGED <<port, delivered, lines, line, kbd_buf, kbd_buf_sz, n>> /\ pc[r] \in Taken
    BY <1>11 DEF ClearDone, CopyByte, buffer, keyboard, ghosts, At, Taken
  <2>2. \A s \in Readers : pc[s] \in Taken <=> pc'[s] \in Taken
    BY <1>3, <1>11 DEF ClearDone, CopyByte, At, Goto, Taken
  <2>3. F2 = F /\ Picked /\ Picked'
    <3>1. F2 = F
      BY <1>0, <2>1, <2>2, FlightStays
    <3>. QED
      BY <2>1, <2>2, <3>1 DEF Picked
  <2>4. Whole' = Whole /\ Partial' = Partial
    BY <2>3, LineTerms
  <2>. QED
    BY <1>5, <2>1, <2>4
<1>12. ASSUME NEW r \in Readers, ReadReturn(r) PROVE LineBody'
  <2>1. /\ pc[r] = "copy" /\ pc' = [pc EXCEPT ![r] = "user"]
        /\ delivered' = Append(delivered, str[r])
        /\ UNCHANGED <<port, lines, line, kbd_buf, kbd_buf_sz, kbd_done>>
    BY <1>12 DEF ReadReturn, At, Goto, buffer, keyboard
  <2>2. F = str[r] /\ str[r] \in Seq(Char)
    BY <1>0, <1>12, Copied
  <2>3. \A s \in Readers : pc'[s] \notin Taken
    <3>1. \A s \in Reading : s = r
      <4>1. r \in Reading
        BY <2>1 DEF Reading
      <4>. QED
        BY <1>0, <4>1 DEF ReadInv
    <3>. QED
      BY <1>3, <2>1, <3>1 DEF Reading, Taken
  <2>4. Picked /\ ~Picked' /\ ~kbd_done' /\ kbd_buf_sz' = 0
    <3>1. Picked /\ ~Picked'
      BY <2>1, <2>3 DEF Picked, Taken
    <3>2. ~kbd_done' /\ kbd_buf_sz' = 0
      BY <1>0, <1>1, <2>1 DEF LoneReader, ReadInv, Taken
    <3>. QED
      BY <3>1, <3>2
  <2>5. Whole = <<str[r]>> /\ Partial = <<>>
    BY <2>2, <2>4, LineTerms
  <2>6. Whole' = <<>> /\ Partial' = <<>>
    BY <2>4, PrefixNone, LineTerms
  <2>7. Ended' = Ended /\ OnItsWay' = OnItsWay
    BY <2>1, <2>5, <2>6, LineTerms, Ways
  <2>8. delivered' = delivered \o <<str[r]>> /\ delivered' \in Seq(Seq(Char))
    <3> DEFINE s == str[r]
    <3>1. s \in Seq(Char)
      BY <2>2
    <3>. HIDE DEF s
    <3>2. Append(delivered, s) = delivered \o <<s>> /\ Append(delivered, s) \in Seq(Seq(Char))
      BY <1>4, <3>1, AppendIsConcat
    <3>. QED
      BY <2>1, <3>2 DEF s
  <2>9. delivered' \o <<>> = delivered'
    BY <2>8, Joins
  <2>. QED
    BY <1>1, <2>1, <2>5, <2>6, <2>7, <2>8, <2>9 DEF LineBody
<1>. QED
  BY <1>0, <1>2, <1>6, <1>7, <1>8, <1>9, <1>10, <1>11, <1>12, Steps

(* The beginning of a sequence of lines. *)
LEMMA Begins ==
    ASSUME NEW T, NEW s \in Seq(T), NEW t \in Seq(T)
    PROVE  IsPrefix(s, s \o t)
<1>1. /\ s \o t \in Seq(T) /\ Len(s \o t) = Len(s) + Len(t)
      /\ Len(s) \in Nat /\ Len(t) \in Nat
      /\ \A i \in 1 .. Len(s) + Len(t) :
            (s \o t)[i] = IF i <= Len(s) THEN s[i] ELSE t[i - Len(s)]
  BY ConcatProperties, LenProperties
<1> DEFINE u == s \o t
<1>2. u \in Seq(T) /\ Len(s) <= Len(u) /\ Len(u) \in Nat
      /\ \A i \in 1 .. Len(s) : u[i] = s[i]
  BY <1>1
<1>. HIDE DEF u
<1>3. SubSeq(s, 1, Len(s)) = SubSeq(u, 1, Len(s))
  <2>1. /\ SubSeq(s, 1, Len(s)) = [i \in 1 .. Len(s) |-> s[i]]
        /\ SubSeq(u, 1, Len(s)) = [i \in 1 .. Len(s) |-> u[i]]
    BY <1>1, <1>2
  <2>. QED
    BY <1>2, <2>1
<1>. QED
  BY <1>2, <1>3 DEF IsPrefix, u

(* The invariant at the start. *)
LEMMA LostInit == Init => LostInv
<1>. SUFFICES ASSUME Init PROVE LostInv
  OBVIOUS
<1>1. TypeInv
  BY TypeInit
<1>2. /\ pc = [r \in Readers |-> "user"] /\ kbd_buf_sz = 0 /\ kbd_done = FALSE
      /\ port \in {Empty, Silent} /\ lines = <<>> /\ line = <<>> /\ delivered = <<>>
  BY DEF Init
<1>3. \A r \in Readers : pc[r] = "user"
  BY <1>2
<1>4. Reading = {}
  BY <1>3 DEF Reading
<1>5. ReadInv
  BY <1>2, <1>3, <1>4, Parameters DEF ReadInv, Taken
<1>6. /\ Flight(pc, n, kbd_buf) = <<>> /\ ~Picked /\ Prefix(kbd_buf, kbd_buf_sz) = <<>>
      /\ OnItsWay = <<>> /\ port # Enter
  BY <1>2, <1>4, FlightIdle, PrefixNone, Ways, CodeFacts
<1>7. <<>> \o <<>> = <<>>
  BY Joins
<1>8. FlattenSeq(<<>>) = <<>>
  BY DEF FlattenSeq
<1>9. KeysInv
  BY <1>2, <1>6, <1>7, <1>8, StateTerms DEF KeysInv
<1>10. LineInv
  <2>1. Whole = <<>> /\ Partial = <<>> /\ Ended = <<>>
    BY <1>2, <1>6, LineTerms
  <2>. QED
    BY <1>2, <1>3, <1>6, <1>7, <2>1 DEF LineInv
<1>. QED
  BY <1>1, <1>5, <1>9, <1>10 DEF LostInv

(* Lines put together in either grouping are the same: what was delivered, the
   line that is whole and the line just ended. *)
LEMMA Regroup ==
  ASSUME NEW a \in Seq(Seq(Char)), NEW b \in Seq(Seq(Char)), NEW c \in Seq(Seq(Char))
  PROVE  (a \o b) \o c = a \o (b \o c)
<1>. DEFINE S == Seq(Char)
<1>1. a \in Seq(S) /\ b \in Seq(S) /\ c \in Seq(S)
  OBVIOUS
<1>. HIDE DEF S
<1>2. QED
  BY SMTT(30), <1>1, ConcatAssociative

(* Every key typed is delivered once and in order, and line by line when nobody
   types ahead: for a buffer of every size and any number of readers that run
   into interrupts between any two of their steps. *)
THEOREM KeysArrive == Spec => []NoKeyLost
<1>1. LostInv => NoKeyLost
  <2>. SUFFICES ASSUME LostInv PROVE NoKeyLost
    OBVIOUS
  <2>1. ASSUME mishap = {} PROVE IsPrefix(delivered, lines)
    <3>1. TypeInv /\ ReadInv /\ Safe
      BY <2>1 DEF LostInv, Safe, Without
    <3>2. lines = delivered \o Whole \o Ended
      BY <2>1 DEF LostInv, LineInv
    <3>3. delivered \in Seq(Seq(Char)) /\ Whole \in Seq(Seq(Char)) /\ Partial \in Seq(Char)
      BY <3>1, LineTypes
    <3>4. Ended \in Seq(Seq(Char))
      <4>1. Partial \o <<NUL>> \in Seq(Char)
        <5>1. <<NUL>> \in Seq(Char)
          BY CodeFacts
        <5>. QED
          BY <3>3, <5>1, ConcatProperties
      <4>. QED
        BY <4>1, LineTerms
    <3>5. (delivered \o Whole) \o Ended = delivered \o (Whole \o Ended)
      BY <3>3, <3>4, Regroup
    <3>6. Whole \o Ended \in Seq(Seq(Char))
      BY <3>3, <3>4, ConcatProperties
    <3>. QED
      BY <3>2, <3>3, <3>5, <3>6, Begins
  <2>. QED
    BY <2>1 DEF LostInv, KeysInv, NoKeyLost, Safe
<1>2. LostInv /\ [Next]_vars => LostInv'
  BY TypeStep, ReadStep, KeysStep, LineStep DEF LostInv
<1>. QED
  BY <1>1, <1>2, LostInit, PTL DEF Spec
-----------------------------------------------------------------------------
(* What apic_init leaves in the controllers, write after write.            *)

(* The record of a write. *)
To(to, val) == [to |-> to, val |-> val]

(* Concatenation, by elements. *)
LEMMA Elements ==
    ASSUME NEW T, NEW s \in Seq(T), NEW t \in Seq(T)
    PROVE  /\ s \o t \in Seq(T) /\ Len(s \o t) = Len(s) + Len(t)
           /\ \A i \in 1 .. Len(s) : (s \o t)[i] = s[i]
           /\ \A i \in 1 .. Len(t) : (s \o t)[Len(s) + i] = t[i]
<1> DEFINE a == Len(s)
           c == Len(t)
<1>1. a \in Nat /\ c \in Nat
  OBVIOUS
<1>2. \A i \in 1 .. a : i \in 1 .. a + c /\ i <= a
  BY <1>1
<1>3. \A i \in 1 .. c : a + i \in 1 .. a + c /\ ~(a + i <= a) /\ (a + i) - a = i
  BY <1>1
<1>. QED
  BY <1>1, <1>2, <1>3

(* One write more. *)
LEMMA OneMore ==
    ASSUME NEW T, NEW s \in Seq(T), NEW w \in Seq(T), Len(w) = 1
    PROVE  /\ s \o w \in Seq(T) /\ Len(s \o w) = Len(s) + 1
           /\ \A i \in 1 .. Len(s) : (s \o w)[i] = s[i]
           /\ (s \o w)[Len(s) + 1] = w[1]
<1> DEFINE c == 1
<1>1. Len(w) = c /\ c \in 1 .. c
  OBVIOUS
<1>. HIDE DEF c
<1>2. /\ s \o w \in Seq(T) /\ Len(s \o w) = Len(s) + c
      /\ \A i \in 1 .. Len(s) : (s \o w)[i] = s[i]
      /\ \A i \in 1 .. c : (s \o w)[Len(s) + i] = w[i]
  BY <1>1, Elements
<1>. QED
  BY <1>1, <1>2 DEF c

(* Four writes and what they are. *)
Quad(s, a, b, c, d) == /\ s \in Seq(Writes) /\ Len(s) = 4
                       /\ s[1] = a /\ s[2] = b /\ s[3] = c /\ s[4] = d

(* Four writes in a row. *)
LEMMA Four ==
    ASSUME NEW p \in Seq(Writes), NEW q \in Seq(Writes),
           NEW r \in Seq(Writes), NEW t \in Seq(Writes),
           Len(p) = 1, Len(q) = 1, Len(r) = 1, Len(t) = 1
    PROVE  Quad((p \o q) \o (r \o t), p[1], q[1], r[1], t[1])
<1> DEFINE s == (p \o q) \o (r \o t)
           a == p \o q
           c == a \o r
           e == c \o t
<1>1. /\ a \in Seq(Writes) /\ Len(a) = Len(p) + 1
      /\ \A i \in 1 .. Len(p) : a[i] = p[i]
      /\ a[Len(p) + 1] = q[1]
  BY OneMore
<1>2. s = e
  <2>1. ASSUME NEW x \in Seq(Writes), NEW y \in Seq(Writes), NEW z \in Seq(Writes)
        PROVE  (x \o y) \o z = x \o (y \o z)
    BY ConcatAssociative, SMTT(40)
  <2>0. a \in Seq(Writes)
    BY <1>1
  <2>. HIDE DEF a
  <2>2. a \o (r \o t) = (a \o r) \o t
    BY <2>0, <2>1, Zenon
  <2>. QED
    BY <2>2 DEF a
<1>. HIDE DEF a, s
<1>3. /\ c \in Seq(Writes) /\ Len(c) = Len(a) + 1
      /\ \A i \in 1 .. Len(a) : c[i] = a[i]
      /\ c[Len(a) + 1] = r[1]
  BY <1>1, OneMore
<1>. HIDE DEF c
<1>4. /\ e \in Seq(Writes) /\ Len(e) = Len(c) + 1
      /\ \A i \in 1 .. Len(c) : e[i] = c[i]
      /\ e[Len(c) + 1] = t[1]
  BY <1>3, OneMore
<1>. HIDE DEF e
<1>5. Quad(s, p[1], q[1], r[1], t[1])
  BY <1>1, <1>2, <1>3, <1>4 DEF Quad
<1>. QED
  BY <1>5 DEF s

(* What one entry is programmed with. *)
LEMMA Redirect ==
    ASSUME NEW from \in Lines, NEW to \in Nat, NEW flags \in Nat
    PROVE  Quad(ioapic_redirect(from, to, flags),
                To("ioregsel", 16 + 2 * from), To("iowin", to + flags),
                To("ioregsel", 16 + 2 * from + 1), To("iowin", LapicId * IdShift))
<1>0. /\ 16 + 2 * from \in 16 .. 63 /\ 16 + 2 * from + 1 \in 16 .. 63
      /\ to + flags \in Nat /\ LapicId * IdShift \in Nat
  BY Parameters DEF Lines
<1>1. /\ \A val \in 16 .. 63 : To("ioregsel", val) \in Writes
      /\ \A val \in Nat : To("iowin", val) \in Writes
  BY DEF Writes, Registers, To
<1>2. /\ \A to_, val : To(to_, val) \in Writes =>
            Write(to_, val) \in Seq(Writes) /\ Len(Write(to_, val)) = 1 /\ Write(to_, val)[1] = To(to_, val)
  BY DEF Write, To
<1> DEFINE w1 == Write("ioregsel", 16 + 2 * from)
           w2 == Write("iowin", to + flags)
           w3 == Write("ioregsel", 16 + 2 * from + 1)
           w4 == Write("iowin", LapicId * IdShift)
<1>3. /\ w1 \in Seq(Writes) /\ Len(w1) = 1 /\ w1[1] = To("ioregsel", 16 + 2 * from)
      /\ w2 \in Seq(Writes) /\ Len(w2) = 1 /\ w2[1] = To("iowin", to + flags)
      /\ w3 \in Seq(Writes) /\ Len(w3) = 1 /\ w3[1] = To("ioregsel", 16 + 2 * from + 1)
      /\ w4 \in Seq(Writes) /\ Len(w4) = 1 /\ w4[1] = To("iowin", LapicId * IdShift)
  BY <1>0, <1>1, <1>2
<1>4. ioapic_redirect(from, to, flags) = (w1 \o w2) \o (w3 \o w4)
  BY DEF ioapic_redirect, ioapic_write
<1>. HIDE DEF w1, w2, w3, w4
<1>5. Quad((w1 \o w2) \o (w3 \o w4), w1[1], w2[1], w3[1], w4[1])
  <2>1. /\ w1 \in Seq(Writes) /\ Len(w1) = 1 /\ w2 \in Seq(Writes) /\ Len(w2) = 1
        /\ w3 \in Seq(Writes) /\ Len(w3) = 1 /\ w4 \in Seq(Writes) /\ Len(w4) = 1
    BY <1>3
  <2>. QED
    BY <2>1, Four
<1>. QED
  BY <1>3, <1>4, <1>5

(* A sequence and one write more. *)
Longer(t, s, w) == /\ t \in Seq(Writes) /\ Len(t) = Len(s) + 1
                   /\ \A i \in 1 .. Len(s) : t[i] = s[i]
                   /\ t[Len(s) + 1] = w

(* A write is appended. *)
LEMMA Then ==
    ASSUME NEW s \in Seq(Writes), NEW w \in Seq(Writes), Len(w) = 1
    PROVE  Longer(s \o w, s, w[1])
BY OneMore DEF Longer

(* The writes that turn the 8259s off. *)
LEMMA PicWrites ==
    /\ DisablePic \in Seq(Writes) /\ Len(DisablePic) = 10
    /\ DisablePic[1] = To("PIC_M_CMD", 17)
    /\ DisablePic[2] = To("PIC_S_CMD", 17)
    /\ DisablePic[3] = To("PIC_M_DATA", 32)
    /\ DisablePic[4] = To("PIC_S_DATA", 40)
    /\ DisablePic[5] = To("PIC_M_DATA", 4)
    /\ DisablePic[6] = To("PIC_S_DATA", 2)
    /\ DisablePic[7] = To("PIC_M_DATA", 1)
    /\ DisablePic[8] = To("PIC_S_DATA", 1)
    /\ DisablePic[9] = To("PIC_S_DATA", 255)
    /\ DisablePic[10] = To("PIC_M_DATA", 255)
<1>1. /\ \A val \in Nat : To("PIC_M_CMD", val) \in Writes /\ To("PIC_S_CMD", val) \in Writes
      /\ \A val \in Nat : To("PIC_M_DATA", val) \in Writes /\ To("PIC_S_DATA", val) \in Writes
  BY DEF Writes, Registers, To
<1>2. \A to, val : To(to, val) \in Writes =>
            /\ Write(to, val) \in Seq(Writes) /\ Len(Write(to, val)) = 1
            /\ Write(to, val)[1] = To(to, val)
  BY DEF Write, To
<1> DEFINE w1 == Write("PIC_M_CMD", 17)
           w2 == Write("PIC_S_CMD", 17)
           w3 == Write("PIC_M_DATA", 32)
           w4 == Write("PIC_S_DATA", 40)
           w5 == Write("PIC_M_DATA", 4)
           w6 == Write("PIC_S_DATA", 2)
           w7 == Write("PIC_M_DATA", 1)
           w8 == Write("PIC_S_DATA", 1)
           w9 == Write("PIC_S_DATA", 255)
           w10 == Write("PIC_M_DATA", 255)
           s1 == w1
           s2 == s1 \o w2
           s3 == s2 \o w3
           s4 == s3 \o w4
           s5 == s4 \o w5
           s6 == s5 \o w6
           s7 == s6 \o w7
           s8 == s7 \o w8
           s9 == s8 \o w9
           s10 == s9 \o w10
<1>3. /\ w1 \in Seq(Writes) /\ Len(w1) = 1 /\ w1[1] = To("PIC_M_CMD", 17)
      /\ w2 \in Seq(Writes) /\ Len(w2) = 1 /\ w2[1] = To("PIC_S_CMD", 17)
      /\ w3 \in Seq(Writes) /\ Len(w3) = 1 /\ w3[1] = To("PIC_M_DATA", 32)
      /\ w4 \in Seq(Writes) /\ Len(w4) = 1 /\ w4[1] = To("PIC_S_DATA", 40)
      /\ w5 \in Seq(Writes) /\ Len(w5) = 1 /\ w5[1] = To("PIC_M_DATA", 4)
      /\ w6 \in Seq(Writes) /\ Len(w6) = 1 /\ w6[1] = To("PIC_S_DATA", 2)
      /\ w7 \in Seq(Writes) /\ Len(w7) = 1 /\ w7[1] = To("PIC_M_DATA", 1)
      /\ w8 \in Seq(Writes) /\ Len(w8) = 1 /\ w8[1] = To("PIC_S_DATA", 1)
      /\ w9 \in Seq(Writes) /\ Len(w9) = 1 /\ w9[1] = To("PIC_S_DATA", 255)
      /\ w10 \in Seq(Writes) /\ Len(w10) = 1 /\ w10[1] = To("PIC_M_DATA", 255)
  BY <1>1, <1>2
<1>4. DisablePic = s10
  BY DEF DisablePic
<1>. HIDE DEF w1, w2, w3, w4, w5, w6, w7, w8, w9, w10
<1>5. s1 \in Seq(Writes) /\ Len(s1) = 1 /\ s1[1] = w1[1]
  BY <1>3
<1>. HIDE DEF s1
<1>6. Longer(s2, s1, w2[1])
  BY <1>3, <1>5, Then
<1>. HIDE DEF s2
<1>7. s2 \in Seq(Writes) /\ Len(s2) = 2
  BY <1>5, <1>6 DEF Longer
<1>8. Longer(s3, s2, w3[1])
  BY <1>3, <1>7, Then
<1>. HIDE DEF s3
<1>9. s3 \in Seq(Writes) /\ Len(s3) = 3
  BY <1>7, <1>8 DEF Longer
<1>10. Longer(s4, s3, w4[1])
  BY <1>3, <1>9, Then
<1>. HIDE DEF s4
<1>11. s4 \in Seq(Writes) /\ Len(s4) = 4
  BY <1>9, <1>10 DEF Longer
<1>12. Longer(s5, s4, w5[1])
  BY <1>3, <1>11, Then
<1>. HIDE DEF s5
<1>13. s5 \in Seq(Writes) /\ Len(s5) = 5
  BY <1>11, <1>12 DEF Longer
<1>14. Longer(s6, s5, w6[1])
  BY <1>3, <1>13, Then
<1>. HIDE DEF s6
<1>15. s6 \in Seq(Writes) /\ Len(s6) = 6
  BY <1>13, <1>14 DEF Longer
<1>16. Longer(s7, s6, w7[1])
  BY <1>3, <1>15, Then
<1>. HIDE DEF s7
<1>17. s7 \in Seq(Writes) /\ Len(s7) = 7
  BY <1>15, <1>16 DEF Longer
<1>18. Longer(s8, s7, w8[1])
  BY <1>3, <1>17, Then
<1>. HIDE DEF s8
<1>19. s8 \in Seq(Writes) /\ Len(s8) = 8
  BY <1>17, <1>18 DEF Longer
<1>20. Longer(s9, s8, w9[1])
  BY <1>3, <1>19, Then
<1>. HIDE DEF s9
<1>21. s9 \in Seq(Writes) /\ Len(s9) = 9
  BY <1>19, <1>20 DEF Longer
<1>22. Longer(s10, s9, w10[1])
  BY <1>3, <1>21, Then
<1>. HIDE DEF s10
<1>23. s10 \in Seq(Writes) /\ Len(s10) = 10
  BY <1>21, <1>22 DEF Longer
<1>. QED
  BY <1>3, <1>4, <1>5, <1>6, <1>7, <1>8, <1>9, <1>10, <1>11, <1>12, <1>13, <1>14, <1>15,
     <1>16, <1>17, <1>18, <1>19, <1>20, <1>21, <1>22, <1>23 DEF Longer

(* The writes that enable the local APIC and its timer. *)
LEMMA LapicWrites ==
    Quad(lapic_init, To("IA32_APIC_BASE", 2048), To("APIC_SPUR_REG", 256),
         To("APIC_TMR_INIT_REG", 1000000000), To("APIC_LVT_TMR_REG", 131104))
<1>1. /\ To("IA32_APIC_BASE", 2048) \in Writes /\ To("APIC_SPUR_REG", 256) \in Writes
      /\ To("APIC_TMR_INIT_REG", 1000000000) \in Writes
      /\ To("APIC_LVT_TMR_REG", 131104) \in Writes
  BY DEF Writes, Registers, To
<1>2. \A to, val : To(to, val) \in Writes =>
            /\ Write(to, val) \in Seq(Writes) /\ Len(Write(to, val)) = 1
            /\ Write(to, val)[1] = To(to, val)
  BY DEF Write, To
<1> DEFINE w1 == Write("IA32_APIC_BASE", 2048)
           w2 == Write("APIC_SPUR_REG", 256)
           w3 == Write("APIC_TMR_INIT_REG", 1000000000)
           w4 == Write("APIC_LVT_TMR_REG", 131104)
<1>3. /\ w1 \in Seq(Writes) /\ Len(w1) = 1 /\ w1[1] = To("IA32_APIC_BASE", 2048)
      /\ w2 \in Seq(Writes) /\ Len(w2) = 1 /\ w2[1] = To("APIC_SPUR_REG", 256)
      /\ w3 \in Seq(Writes) /\ Len(w3) = 1 /\ w3[1] = To("APIC_TMR_INIT_REG", 1000000000)
      /\ w4 \in Seq(Writes) /\ Len(w4) = 1 /\ w4[1] = To("APIC_LVT_TMR_REG", 131104)
  BY <1>1, <1>2
<1>4. lapic_init = (w1 \o w2) \o (w3 \o w4)
  <2>1. 2 ^ 11 = 2048 /\ 2 ^ 8 = 256 /\ 2 ^ 17 + APIC_TMR_INTERRUPT = 131104
    BY DEF APIC_TMR_INTERRUPT, APIC_REMAP_START, APIC_IRQ_TMR
  <2>. QED
    BY <2>1 DEF lapic_init, lapic_timer_enable
<1>. HIDE DEF w1, w2, w3, w4
<1>5. Quad((w1 \o w2) \o (w3 \o w4), w1[1], w2[1], w3[1], w4[1])
  <2>1. /\ w1 \in Seq(Writes) /\ Len(w1) = 1 /\ w2 \in Seq(Writes) /\ Len(w2) = 1
        /\ w3 \in Seq(Writes) /\ Len(w3) = 1 /\ w4 \in Seq(Writes) /\ Len(w4) = 1
    BY <1>3
  <2>. QED
    BY <2>1, Four
<1>. QED
  BY <1>3, <1>4, <1>5

(* Sequences of four, one after the other. *)
LEMMA Blocks ==
    ASSUME NEW ss \in Seq(Seq(Writes)), Len(ss) # 0,
           \A i \in 1 .. Len(ss) : Len(ss[i]) = 4
    PROVE  /\ FlattenSeq(ss) \in Seq(Writes) /\ Len(FlattenSeq(ss)) = 4 * Len(ss)
           /\ \A i \in 1 .. Len(ss), p \in 1 .. 4 : FlattenSeq(ss)[4 * (i - 1) + p] = ss[i][p]
<1> DEFINE m == Len(ss)
<1>0. /\ m \in Nat /\ m = Len(ss) /\ m # 0
      /\ \A i \in 1 .. m : ss[i] \in Seq(Writes) /\ Len(ss[i]) = 4
  OBVIOUS
<1>. HIDE DEF m
<1>1. PICK f : IsFlat(f, ss, m) /\ FlattenSeq(ss) = f[m]
  BY <1>0, FlatLast
<1>2. \A i \in 1 .. m : f[i] = IF i = 1 THEN ss[i] ELSE f[i - 1] \o ss[i]
  <2>1. m \in Nat /\ IsFlat(f, ss, m)
    BY <1>0, <1>1
  <2>. QED
    BY <2>1, FlatValues
<1> DEFINE Good(k) == /\ f[k] \in Seq(Writes) /\ Len(f[k]) = 4 * k
                      /\ \A i \in 1 .. k, p \in 1 .. 4 : f[k][4 * (i - 1) + p] = ss[i][p]
           S == {k \in 1 .. m : Good(k)}
<1>3. 1 \in S
  <2>1. f[1] = ss[1] /\ 1 \in 1 .. m
    BY <1>0, <1>2
  <2>2. \A i \in 1 .. 1, p \in 1 .. 4 : i = 1 /\ 4 * (i - 1) + p = p
    OBVIOUS
  <2>3. Good(1)
    BY <1>0, <2>1, <2>2
  <2>. QED
    BY <2>1, <2>3
<1>4. ASSUME NEW k \in S, k < m PROVE k + 1 \in S
  <2> DEFINE j == k + 1
  <2>1. k \in 1 .. m /\ j \in 1 .. m /\ j # 1 /\ j - 1 = k
    BY <1>0, <1>4
  <2>2. Good(k)
    OBVIOUS
  <2>. HIDE DEF j
  <2>3. f[j] = f[k] \o ss[j]
    BY <1>2, <2>1
  <2>4. f[k] \in Seq(Writes) /\ ss[j] \in Seq(Writes) /\ Len(f[k]) = 4 * k /\ Len(ss[j]) = 4
    BY <1>0, <2>1, <2>2
  <2> DEFINE a == 4 * k
             c == 4
  <2>5. a = Len(f[k]) /\ c = Len(ss[j]) /\ a \in Nat
    BY <1>0, <2>1, <2>4
  <2>. HIDE DEF a, c
  <2>6. /\ f[j] \in Seq(Writes) /\ Len(f[j]) = a + c
        /\ \A i \in 1 .. a : f[j][i] = f[k][i]
        /\ \A i \in 1 .. c : f[j][a + i] = ss[j][i]
    <3> DEFINE u == f[k]
               v == ss[j]
    <3>1. u \in Seq(Writes) /\ v \in Seq(Writes)
      BY <2>4
    <3>2. f[j] = u \o v /\ Len(u) = a /\ Len(v) = c
      BY <2>3, <2>5
    <3>. HIDE DEF u, v
    <3>3. /\ u \o v \in Seq(Writes) /\ Len(u \o v) = Len(u) + Len(v)
          /\ \A i \in 1 .. Len(u) : (u \o v)[i] = u[i]
          /\ \A i \in 1 .. Len(v) : (u \o v)[Len(u) + i] = v[i]
      BY <3>1, Elements
    <3>. QED
      BY <3>2, <3>3 DEF u, v
  <2>7. ASSUME NEW i \in 1 .. j, NEW p \in 1 .. 4
        PROVE  f[j][4 * (i - 1) + p] = ss[i][p]
    <3>1. CASE i = j
      <4>1. 4 * (i - 1) + p = a + p /\ p \in 1 .. c
        BY <2>1, <3>1 DEF a, c
      <4>. QED
        BY <2>6, <3>1, <4>1
    <3>2. CASE i # j
      <4>1. i \in 1 .. k /\ 4 * (i - 1) + p \in 1 .. a
        BY <2>1, <3>2 DEF a
      <4>. QED
        BY <2>2, <2>6, <4>1
    <3>. QED
      BY <3>1, <3>2
  <2>8. Good(j)
    <3>1. a + c = 4 * j
      BY <2>1 DEF a, c
    <3>. QED
      BY <2>6, <2>7, <3>1
  <2>. QED
    BY <2>1, <2>8 DEF j
<1>5. S = 1 .. m
  <2>. HIDE DEF S
  <2>1. S \in SUBSET (1 .. m)
    BY DEF S
  <2>. QED
    BY <1>0, <1>3, <1>4, <2>1, Induction
<1>6. Good(m)
  <2>1. m \in 1 .. m
    BY <1>0
  <2>2. m \in S
    BY <1>5, <2>1
  <2>. QED
    BY <2>2
<1>. QED
  BY <1>1, <1>6 DEF m

(* What ioapic_init writes for each line. *)
Entry(l) == ioapic_redirect(l, APIC_REMAP_START + l, IOAPIC_DISABLE)

(* ioapic_init is that for the twenty-four lines, one after the other. *)
LEMMA IoapicWrites ==
    /\ ioapic_init \in Seq(Writes) /\ Len(ioapic_init) = 96
    /\ \A l \in Lines, p \in 1 .. 4 : ioapic_init[4 * l + p] = Entry(l)[p]
<1> DEFINE k == Cardinality(Lines)
           ss == [i \in 1 .. k |-> ioapic_redirect(i - 1, APIC_REMAP_START + i - 1,
                                                   IOAPIC_DISABLE)]
<1>1. k = 24
  <2>1. 0 \in Int /\ 23 \in Int
    OBVIOUS
  <2>2. \A a, b \in Int : Cardinality(a .. b) = IF a > b THEN 0 ELSE b - a + 1
    BY FS_Interval
  <2>3. Cardinality(0 .. 23) = IF 0 > 23 THEN 0 ELSE 23 - 0 + 1
    BY <2>1, <2>2, Zenon
  <2>. QED
    BY <2>3 DEF Lines
<1>2. ioapic_init = FlattenSeq(ss)
  BY DEF ioapic_init
<1>. HIDE DEF k
<1>3. ASSUME NEW i \in 1 .. k
      PROVE  ss[i] = Entry(i - 1) /\ ss[i] \in Seq(Writes) /\ Len(ss[i]) = 4
  <2>1. i - 1 \in Lines /\ APIC_REMAP_START + (i - 1) \in Nat /\ IOAPIC_DISABLE \in Nat
        /\ APIC_REMAP_START + i - 1 = APIC_REMAP_START + (i - 1)
    BY <1>1, Parameters, SMT DEF Lines, APIC_REMAP_START
  <2>2. ss[i] = Entry(i - 1)
    BY <2>1 DEF Entry
  <2>3. Entry(i - 1) \in Seq(Writes) /\ Len(Entry(i - 1)) = 4
    BY <2>1, Redirect DEF Entry, Quad
  <2>. HIDE DEF ss
  <2>. QED
    BY <2>2, <2>3
<1>4. ss \in Seq(Seq(Writes)) /\ Len(ss) = 24
  BY <1>1, <1>3
<1>. HIDE DEF ss
<1>5. /\ FlattenSeq(ss) \in Seq(Writes) /\ Len(FlattenSeq(ss)) = 4 * Len(ss)
      /\ \A i \in 1 .. Len(ss), p \in 1 .. 4 : FlattenSeq(ss)[4 * (i - 1) + p] = ss[i][p]
  <2>1. Len(ss) # 0 /\ \A i \in 1 .. Len(ss) : Len(ss[i]) = 4
    BY <1>1, <1>3, <1>4
  <2>. QED
    BY <1>4, <2>1, Blocks
<1>6. ASSUME NEW l \in Lines, NEW p \in 1 .. 4 PROVE ioapic_init[4 * l + p] = Entry(l)[p]
  <2> DEFINE i == l + 1
  <2>1. i \in 1 .. Len(ss) /\ i \in 1 .. k /\ i - 1 = l
    BY <1>1, <1>4 DEF Lines
  <2>. HIDE DEF i
  <2>2. FlattenSeq(ss)[4 * (i - 1) + p] = ss[i][p] /\ ss[i] = Entry(i - 1)
    BY <1>3, <1>5, <2>1
  <2>. QED
    BY <1>2, <2>1, <2>2
<1>. QED
  BY <1>2, <1>4, <1>5, <1>6

(* Two sequences, one after the other. *)
Joined(u, s, t) == /\ u \in Seq(Writes) /\ Len(u) = Len(s) + Len(t)
                   /\ \A i \in 1 .. Len(s) : u[i] = s[i]
                   /\ \A i \in 1 .. Len(t) : u[Len(s) + i] = t[i]

(* Concatenation is that. *)
LEMMA Join ==
    ASSUME NEW s \in Seq(Writes), NEW t \in Seq(Writes)
    PROVE  Joined(s \o t, s, t)
BY Elements DEF Joined

RedirectKbd == ioapic_redirect(APIC_IRQ_KBD, APIC_REMAP_START + APIC_IRQ_KBD, 0)
RedirectIde == ioapic_redirect(APIC_IRQ_IDE, APIC_REMAP_START + APIC_IRQ_IDE, 0)

(* apic_init, write after write. *)
LEMMA InitWrites ==
    /\ apic_init \in Seq(Writes) /\ Len(apic_init) = 118
    /\ \A i \in 1 .. 10 : apic_init[i] = DisablePic[i]
    /\ \A p \in 1 .. 4 : apic_init[10 + p] = lapic_init[p]
    /\ \A l \in Lines, p \in 1 .. 4 : apic_init[14 + 4 * l + p] = Entry(l)[p]
    /\ \A p \in 1 .. 4 : apic_init[110 + p] = RedirectKbd[p]
    /\ \A p \in 1 .. 4 : apic_init[114 + p] = RedirectIde[p]
<1> DEFINE s1 == DisablePic
           s2 == s1 \o lapic_init
           s3 == s2 \o ioapic_init
           s4 == s3 \o RedirectKbd
           s5 == s4 \o RedirectIde
<1>1. DisablePic \in Seq(Writes) /\ Len(DisablePic) = 10
  BY PicWrites
<1>2. lapic_init \in Seq(Writes) /\ Len(lapic_init) = 4
  BY LapicWrites DEF Quad
<1>3. ioapic_init \in Seq(Writes) /\ Len(ioapic_init) = 96
  BY IoapicWrites
<1>4. RedirectKbd \in Seq(Writes) /\ Len(RedirectKbd) = 4
  <2>1. APIC_IRQ_KBD \in Lines /\ APIC_REMAP_START + APIC_IRQ_KBD \in Nat /\ 0 \in Nat
    BY DEF APIC_IRQ_KBD, APIC_REMAP_START, Lines
  <2>. QED
    BY <2>1, Redirect DEF RedirectKbd, Quad
<1>5. RedirectIde \in Seq(Writes) /\ Len(RedirectIde) = 4
  <2>1. APIC_IRQ_IDE \in Lines /\ APIC_REMAP_START + APIC_IRQ_IDE \in Nat /\ 0 \in Nat
    BY DEF APIC_IRQ_IDE, APIC_REMAP_START, Lines
  <2>. QED
    BY <2>1, Redirect DEF RedirectIde, Quad
<1>6. apic_init = s5
  BY DEF apic_init, RedirectKbd, RedirectIde
<1>. HIDE DEF s1
<1>7. s1 \in Seq(Writes) /\ Len(s1) = 10
  BY <1>1 DEF s1
<1>8. Joined(s2, s1, lapic_init)
  BY <1>2, <1>7, Join
<1>. HIDE DEF s2
<1>9. s2 \in Seq(Writes) /\ Len(s2) = 14
  BY <1>2, <1>7, <1>8 DEF Joined
<1>10. Joined(s3, s2, ioapic_init)
  BY <1>3, <1>9, Join
<1>. HIDE DEF s3
<1>11. s3 \in Seq(Writes) /\ Len(s3) = 110
  BY <1>3, <1>9, <1>10 DEF Joined
<1>12. Joined(s4, s3, RedirectKbd)
  BY <1>4, <1>11, Join
<1>. HIDE DEF s4
<1>13. s4 \in Seq(Writes) /\ Len(s4) = 114
  BY <1>4, <1>11, <1>12 DEF Joined
<1>14. Joined(s5, s4, RedirectIde)
  BY <1>5, <1>13, Join
<1>. HIDE DEF s5
<1>15. /\ s5 \in Seq(Writes) /\ Len(s5) = 118
       /\ \A i \in 1 .. 114 : s5[i] = s4[i]
       /\ \A p \in 1 .. 4 : s5[114 + p] = RedirectIde[p]
  BY <1>5, <1>13, <1>14 DEF Joined
<1>16. /\ \A i \in 1 .. 110 : s5[i] = s3[i]
       /\ \A p \in 1 .. 4 : s5[110 + p] = RedirectKbd[p]
  <2>1. /\ \A i \in 1 .. 110 : s4[i] = s3[i]
        /\ \A p \in 1 .. 4 : s4[110 + p] = RedirectKbd[p]
    BY <1>4, <1>11, <1>12 DEF Joined
  <2>2. /\ \A i \in 1 .. 110 : i \in 1 .. 114
        /\ \A p \in 1 .. 4 : 110 + p \in 1 .. 114
    OBVIOUS
  <2>3. ASSUME NEW i \in 1 .. 110 PROVE s5[i] = s3[i]
    <3>1. s4[i] = s3[i] /\ i \in 1 .. 114
      BY <2>1, <2>2
    <3>. QED
      BY <1>15, <3>1
  <2>4. ASSUME NEW p \in 1 .. 4 PROVE s5[110 + p] = RedirectKbd[p]
    <3> DEFINE j == 110 + p
    <3>1. j \in 1 .. 114 /\ s4[j] = RedirectKbd[p]
      BY <2>1, <2>2
    <3>. HIDE DEF j
    <3>2. s5[j] = RedirectKbd[p]
      BY <1>15, <3>1
    <3>. QED
      BY <3>2 DEF j
  <2>. QED
    BY <2>3, <2>4
<1>17. /\ \A i \in 1 .. 14 : s5[i] = s2[i]
       /\ \A i \in 1 .. 96 : s5[14 + i] = ioapic_init[i]
  <2>1. /\ \A i \in 1 .. 14 : s3[i] = s2[i]
        /\ \A i \in 1 .. 96 : s3[14 + i] = ioapic_init[i]
    BY <1>3, <1>9, <1>10 DEF Joined
  <2>. QED
    BY <1>16, <2>1
<1>18. /\ \A i \in 1 .. 10 : s5[i] = s1[i]
       /\ \A p \in 1 .. 4 : s5[10 + p] = lapic_init[p]
  <2>1. /\ \A i \in 1 .. 10 : s2[i] = s1[i]
        /\ \A p \in 1 .. 4 : s2[10 + p] = lapic_init[p]
    BY <1>2, <1>7, <1>8 DEF Joined
  <2>. QED
    BY <1>17, <2>1
<1>19. ASSUME NEW l \in Lines, NEW p \in 1 .. 4 PROVE s5[14 + 4 * l + p] = Entry(l)[p]
  <2>0. ioapic_init[4 * l + p] = Entry(l)[p]
    <3>1. \A j \in Lines, q \in 1 .. 4 : ioapic_init[4 * j + q] = Entry(j)[q]
      BY IoapicWrites
    <3>. QED
      BY <3>1
  <2> DEFINE i == 4 * l + p
  <2>1. i \in 1 .. 96 /\ 14 + 4 * l + p = 14 + i
    BY DEF Lines
  <2>2. ioapic_init[i] = Entry(l)[p]
    BY <2>0
  <2>. HIDE DEF i
  <2>. QED
    BY <1>17, <2>1, <2>2
<1>20. \A l \in Lines, p \in 1 .. 4 : apic_init[14 + 4 * l + p] = Entry(l)[p]
  BY <1>6, <1>19
<1>21. \A i \in 1 .. 10 : apic_init[i] = DisablePic[i]
  BY <1>6, <1>18 DEF s1
<1>22. \A p \in 1 .. 4 : apic_init[10 + p] = lapic_init[p]
  BY <1>6, <1>18
<1>23. /\ \A p \in 1 .. 4 : apic_init[110 + p] = RedirectKbd[p]
       /\ \A p \in 1 .. 4 : apic_init[114 + p] = RedirectIde[p]
       /\ apic_init \in Seq(Writes) /\ Len(apic_init) = 118
  BY <1>6, <1>15, <1>16
<1>. QED
  BY <1>20, <1>21, <1>22, <1>23

(* The writes one by one. *)
LEMMA InitElements ==
    /\ Len(apic_init) = 118
    /\ \A i \in 1 .. 10 : apic_init[i] = DisablePic[i]
    /\ apic_init[11] = To("IA32_APIC_BASE", 2048) /\ apic_init[12] = To("APIC_SPUR_REG", 256)
    /\ apic_init[13] = To("APIC_TMR_INIT_REG", 1000000000)
    /\ apic_init[14] = To("APIC_LVT_TMR_REG", 131104)
    /\ \A l \in Lines : /\ apic_init[15 + 4 * l] = To("ioregsel", 16 + 2 * l)
                        /\ apic_init[16 + 4 * l] = To("iowin", 65568 + l)
                        /\ apic_init[17 + 4 * l] = To("ioregsel", 17 + 2 * l)
                        /\ apic_init[18 + 4 * l] = To("iowin", LapicId * IdShift)
    /\ apic_init[111] = To("ioregsel", 18) /\ apic_init[112] = To("iowin", 33)
    /\ apic_init[113] = To("ioregsel", 19) /\ apic_init[114] = To("iowin", LapicId * IdShift)
    /\ apic_init[115] = To("ioregsel", 44) /\ apic_init[116] = To("iowin", 46)
    /\ apic_init[117] = To("ioregsel", 45) /\ apic_init[118] = To("iowin", LapicId * IdShift)
<1>1. /\ \A p \in 1 .. 4 : apic_init[10 + p] = lapic_init[p]
      /\ \A p \in 1 .. 4 : apic_init[110 + p] = RedirectKbd[p]
      /\ \A p \in 1 .. 4 : apic_init[114 + p] = RedirectIde[p]
  BY InitWrites
<1>2. /\ lapic_init[1] = To("IA32_APIC_BASE", 2048) /\ lapic_init[2] = To("APIC_SPUR_REG", 256)
      /\ lapic_init[3] = To("APIC_TMR_INIT_REG", 1000000000)
      /\ lapic_init[4] = To("APIC_LVT_TMR_REG", 131104)
  BY LapicWrites DEF Quad
<1>3. \A l \in Lines, to \in Nat, flags \in Nat :
          Quad(ioapic_redirect(l, to, flags),
               To("ioregsel", 16 + 2 * l), To("iowin", to + flags),
               To("ioregsel", 16 + 2 * l + 1), To("iowin", LapicId * IdShift))
  BY Redirect
<1>4. /\ RedirectKbd[1] = To("ioregsel", 18) /\ RedirectKbd[2] = To("iowin", 33)
      /\ RedirectKbd[3] = To("ioregsel", 19) /\ RedirectKbd[4] = To("iowin", LapicId * IdShift)
  <2>1. /\ RedirectKbd = ioapic_redirect(1, 33, 0)
        /\ 1 \in Lines /\ 33 \in Nat /\ 0 \in Nat
        /\ 16 + 2 * 1 = 18 /\ 16 + 2 * 1 + 1 = 19 /\ 33 + 0 = 33
    BY DEF RedirectKbd, APIC_IRQ_KBD, APIC_REMAP_START, Lines
  <2>2. Quad(ioapic_redirect(1, 33, 0), To("ioregsel", 18), To("iowin", 33),
             To("ioregsel", 19), To("iowin", LapicId * IdShift))
    BY <1>3, <2>1
  <2>. QED
    BY <2>1, <2>2 DEF Quad
<1>5. /\ RedirectIde[1] = To("ioregsel", 44) /\ RedirectIde[2] = To("iowin", 46)
      /\ RedirectIde[3] = To("ioregsel", 45) /\ RedirectIde[4] = To("iowin", LapicId * IdShift)
  <2>1. /\ RedirectIde = ioapic_redirect(14, 46, 0)
        /\ 14 \in Lines /\ 46 \in Nat /\ 0 \in Nat
        /\ 16 + 2 * 14 = 44 /\ 16 + 2 * 14 + 1 = 45 /\ 46 + 0 = 46
    BY DEF RedirectIde, APIC_IRQ_IDE, APIC_REMAP_START, Lines
  <2>2. Quad(ioapic_redirect(14, 46, 0), To("ioregsel", 44), To("iowin", 46),
             To("ioregsel", 45), To("iowin", LapicId * IdShift))
    BY <1>3, <2>1
  <2>. QED
    BY <2>1, <2>2 DEF Quad
<1>6. ASSUME NEW l \in Lines
      PROVE  /\ apic_init[15 + 4 * l] = To("ioregsel", 16 + 2 * l)
             /\ apic_init[16 + 4 * l] = To("iowin", 65568 + l)
             /\ apic_init[17 + 4 * l] = To("ioregsel", 17 + 2 * l)
             /\ apic_init[18 + 4 * l] = To("iowin", LapicId * IdShift)
  <2>1. \A p \in 1 .. 4 : apic_init[14 + 4 * l + p] = Entry(l)[p]
    <3>1. \A j \in Lines, q \in 1 .. 4 : apic_init[14 + 4 * j + q] = Entry(j)[q]
      BY InitWrites
    <3>. QED
      BY <3>1
  <2>2. /\ 14 + 4 * l + 1 = 15 + 4 * l /\ 14 + 4 * l + 2 = 16 + 4 * l
        /\ 14 + 4 * l + 3 = 17 + 4 * l /\ 14 + 4 * l + 4 = 18 + 4 * l
        /\ 16 + 2 * l + 1 = 17 + 2 * l /\ (APIC_REMAP_START + l) + IOAPIC_DISABLE = 65568 + l
        /\ APIC_REMAP_START + l \in Nat /\ IOAPIC_DISABLE \in Nat
    BY Parameters DEF Lines, APIC_REMAP_START
  <2>3. Quad(Entry(l), To("ioregsel", 16 + 2 * l), To("iowin", 65568 + l),
             To("ioregsel", 17 + 2 * l), To("iowin", LapicId * IdShift))
    BY <1>3, <2>2 DEF Entry
  <2>4. /\ apic_init[14 + 4 * l + 1] = Entry(l)[1] /\ apic_init[14 + 4 * l + 2] = Entry(l)[2]
        /\ apic_init[14 + 4 * l + 3] = Entry(l)[3] /\ apic_init[14 + 4 * l + 4] = Entry(l)[4]
    BY <2>1
  <2>. QED
    BY <2>2, <2>3, <2>4 DEF Quad
<1>7. /\ apic_init[10 + 1] = lapic_init[1] /\ apic_init[10 + 2] = lapic_init[2]
      /\ apic_init[10 + 3] = lapic_init[3] /\ apic_init[10 + 4] = lapic_init[4]
  BY <1>1
<1>8. /\ apic_init[110 + 1] = RedirectKbd[1] /\ apic_init[110 + 2] = RedirectKbd[2]
      /\ apic_init[110 + 3] = RedirectKbd[3] /\ apic_init[110 + 4] = RedirectKbd[4]
  BY <1>1
<1>9. /\ apic_init[114 + 1] = RedirectIde[1] /\ apic_init[114 + 2] = RedirectIde[2]
      /\ apic_init[114 + 3] = RedirectIde[3] /\ apic_init[114 + 4] = RedirectIde[4]
  BY <1>1
<1>10. Len(apic_init) = 118 /\ \A i \in 1 .. 10 : apic_init[i] = DisablePic[i]
  BY InitWrites
<1>11. /\ 10 + 1 = 11 /\ 10 + 2 = 12 /\ 10 + 3 = 13 /\ 10 + 4 = 14
       /\ 110 + 1 = 111 /\ 110 + 2 = 112 /\ 110 + 3 = 113 /\ 110 + 4 = 114
       /\ 114 + 1 = 115 /\ 114 + 2 = 116 /\ 114 + 3 = 117 /\ 114 + 4 = 118
  OBVIOUS
<1>. QED
  BY <1>2, <1>4, <1>5, <1>6, <1>7, <1>8, <1>9, <1>10, <1>11
-----------------------------------------------------------------------------
(* What the controllers hold after each write of apic_init.                *)

(* The two 8259s, as a type. *)
Pics == [{"master", "slave"} -> [from : Nat, masked : Nat, expected : Nat]]

(* The 8259s: what the next write of data is taken for, and the mask. *)
PicStage ==
    /\ pic \in Pics
    /\ pic["master"].expected = CASE boot = 0 -> 0
                                  [] boot \in {1, 2} -> 3
                                  [] boot \in {3, 4} -> 2
                                  [] boot \in {5, 6} -> 1
                                  [] OTHER -> 0
    /\ pic["slave"].expected = CASE boot \in {0, 1} -> 0
                                 [] boot \in {2, 3} -> 3
                                 [] boot \in {4, 5} -> 2
                                 [] boot \in {6, 7} -> 1
                                 [] OTHER -> 0
    /\ boot >= 9 => pic["slave"].masked = 255
    /\ boot >= 10 => pic["master"].masked = 255

(* The local APIC. *)
LapicStage ==
    /\ boot >= 11 => lapic.hw
    /\ boot >= 12 => lapic.sw
    /\ lapic.timer = IF boot < 14 THEN 65536 ELSE 131104

(* The I/O APIC: the register that the next write is for, and the entries,
   masked until both lines that have a driver get theirs. *)
EntryOf(l) == CASE boot < 16 + 4 * l -> 65536
                [] l = 1 /\ boot >= 112 -> 33
                [] l = 14 /\ boot >= 116 -> 46
                [] OTHER -> 65568 + l

SelectStage ==
    /\ \A l \in Lines : /\ boot = 15 + 4 * l => ioregsel = 16 + 2 * l
                        /\ boot = 17 + 4 * l => ioregsel = 17 + 2 * l
    /\ boot = 111 => ioregsel = 18
    /\ boot = 113 => ioregsel = 19
    /\ boot = 115 => ioregsel = 44
    /\ boot = 117 => ioregsel = 45

IoapicStage ==
    /\ \A l \in Lines : Low(l) = EntryOf(l)
    /\ \A l \in Lines : boot >= 18 + 4 * l => High(l) = LapicId * IdShift

RouteInv ==
    /\ boot \in 0 .. 118
    /\ PicStage /\ LapicStage /\ SelectStage /\ IoapicStage
    /\ irr \subseteq 32 .. 47 /\ isr = {}

(* What each kind of write changes. *)
LEMMA Effects ==
    ASSUME BootWrite, NEW v
    PROVE  /\ boot # Len(apic_init) /\ boot' = boot + 1 /\ UNCHANGED <<irr, isr>>
           /\ apic_init[boot'] = To("ioregsel", v) =>
                 ioregsel' = v /\ UNCHANGED <<pic, lapic, ioapic>>
           /\ apic_init[boot'] = To("iowin", v) =>
                 ioapic' = [ioapic EXCEPT ![ioregsel] = v] /\ UNCHANGED <<pic, lapic, ioregsel>>
           /\ apic_init[boot'] = To("IA32_APIC_BASE", v) =>
                 lapic' = [lapic EXCEPT !.hw = TRUE] /\ UNCHANGED <<pic, ioregsel, ioapic>>
           /\ apic_init[boot'] = To("APIC_SPUR_REG", v) =>
                 lapic' = [lapic EXCEPT !.sw = TRUE] /\ UNCHANGED <<pic, ioregsel, ioapic>>
           /\ apic_init[boot'] = To("APIC_TMR_INIT_REG", v) =>
                 lapic' = [lapic EXCEPT !.count = v] /\ UNCHANGED <<pic, ioregsel, ioapic>>
           /\ apic_init[boot'] = To("APIC_LVT_TMR_REG", v) =>
                 lapic' = [lapic EXCEPT !.timer = v] /\ UNCHANGED <<pic, ioregsel, ioapic>>
           /\ apic_init[boot'] = To("PIC_M_CMD", v) =>
                 pic' = PicCommand("master", v) /\ UNCHANGED <<lapic, ioregsel, ioapic>>
           /\ apic_init[boot'] = To("PIC_S_CMD", v) =>
                 pic' = PicCommand("slave", v) /\ UNCHANGED <<lapic, ioregsel, ioapic>>
           /\ apic_init[boot'] = To("PIC_M_DATA", v) =>
                 pic' = PicData("master", v) /\ UNCHANGED <<lapic, ioregsel, ioapic>>
           /\ apic_init[boot'] = To("PIC_S_DATA", v) =>
                 pic' = PicData("slave", v) /\ UNCHANGED <<lapic, ioregsel, ioapic>>
<1> DEFINE w == apic_init[boot']
           to == w.to
           val == w.val
<1>1. /\ boot # Len(apic_init) /\ boot' = boot + 1 /\ UNCHANGED <<irr, isr>>
      /\ pic' = CASE to = "PIC_M_CMD" -> PicCommand("master", val)
                  [] to = "PIC_S_CMD" -> PicCommand("slave", val)
                  [] to = "PIC_M_DATA" -> PicData("master", val)
                  [] to = "PIC_S_DATA" -> PicData("slave", val)
                  [] OTHER -> pic
      /\ lapic' = CASE to = "IA32_APIC_BASE" -> [lapic EXCEPT !.hw = TRUE]
                    [] to = "APIC_SPUR_REG" -> [lapic EXCEPT !.sw = TRUE]
                    [] to = "APIC_TMR_INIT_REG" -> [lapic EXCEPT !.count = val]
                    [] to = "APIC_LVT_TMR_REG" -> [lapic EXCEPT !.timer = val]
                    [] OTHER -> lapic
      /\ ioregsel' = IF to = "ioregsel" THEN val ELSE ioregsel
      /\ ioapic' = IF to = "iowin" THEN [ioapic EXCEPT ![ioregsel] = val] ELSE ioapic
  BY DEF BootWrite, Booted
<1>2. \A t : w = To(t, v) => to = t /\ val = v
  BY DEF To
<1>. HIDE DEF to, val
<1>3. w = To("ioregsel", v) => ioregsel' = v /\ UNCHANGED <<pic, lapic, ioapic>>
  BY <1>1, <1>2
<1>4. w = To("iowin", v) =>
          ioapic' = [ioapic EXCEPT ![ioregsel] = v] /\ UNCHANGED <<pic, lapic, ioregsel>>
  <2>. SUFFICES ASSUME w = To("iowin", v)
                PROVE  /\ ioapic' = [ioapic EXCEPT ![ioregsel] = v]
                       /\ UNCHANGED <<pic, lapic, ioregsel>>
    OBVIOUS
  <2>1. to = "iowin" /\ val = v
    BY <1>2
  <2>2. UNCHANGED <<pic, lapic, ioregsel>>
    BY <1>1, <2>1
  <2>3. ioapic' = [ioapic EXCEPT ![ioregsel] = val]
    BY <1>1, <2>1
  <2>. QED
    BY <2>1, <2>2, <2>3
<1>5. w = To("IA32_APIC_BASE", v) =>
          lapic' = [lapic EXCEPT !.hw = TRUE] /\ UNCHANGED <<pic, ioregsel, ioapic>>
  BY <1>1, <1>2
<1>6. w = To("APIC_SPUR_REG", v) =>
          lapic' = [lapic EXCEPT !.sw = TRUE] /\ UNCHANGED <<pic, ioregsel, ioapic>>
  BY <1>1, <1>2
<1>7. w = To("APIC_TMR_INIT_REG", v) =>
          lapic' = [lapic EXCEPT !.count = v] /\ UNCHANGED <<pic, ioregsel, ioapic>>
  BY <1>1, <1>2
<1>8. w = To("APIC_LVT_TMR_REG", v) =>
          lapic' = [lapic EXCEPT !.timer = v] /\ UNCHANGED <<pic, ioregsel, ioapic>>
  BY <1>1, <1>2
<1>9. w = To("PIC_M_CMD", v) =>
          pic' = PicCommand("master", v) /\ UNCHANGED <<lapic, ioregsel, ioapic>>
  BY <1>1, <1>2
<1>10. w = To("PIC_S_CMD", v) =>
          pic' = PicCommand("slave", v) /\ UNCHANGED <<lapic, ioregsel, ioapic>>
  BY <1>1, <1>2
<1>11. w = To("PIC_M_DATA", v) =>
          pic' = PicData("master", v) /\ UNCHANGED <<lapic, ioregsel, ioapic>>
  BY <1>1, <1>2
<1>12. w = To("PIC_S_DATA", v) =>
          pic' = PicData("slave", v) /\ UNCHANGED <<lapic, ioregsel, ioapic>>
  BY <1>1, <1>2
<1>. QED
  BY <1>1, <1>3, <1>4, <1>5, <1>6, <1>7, <1>8, <1>9, <1>10, <1>11, <1>12

(* A write is one more of them, and touches no interrupt. *)
LEMMA Advances == BootWrite => boot # Len(apic_init) /\ boot' = boot + 1 /\ UNCHANGED <<irr, isr>>
BY DEF BootWrite, Booted

(* A write to the I/O APIC's index. *)
LEMMA Selects ==
    ASSUME RouteInv, BootWrite, NEW v, apic_init[boot'] = To("ioregsel", v)
    PROVE  ioregsel' = v /\ UNCHANGED <<pic, lapic, ioapic>>
BY Effects

(* A write to the register that the index selects. *)
LEMMA Fills ==
    ASSUME RouteInv, BootWrite, NEW v, apic_init[boot'] = To("iowin", v)
    PROVE  ioapic' = [ioapic EXCEPT ![ioregsel] = v] /\ UNCHANGED <<pic, lapic, ioregsel>>
BY Effects

(* The sixteen lines and the four writes for each. *)
LEMMA WhichLine ==
    ASSUME NEW k \in 15 .. 110
    PROVE  \E l \in Lines : k \in 15 + 4 * l .. 18 + 4 * l
<1> DEFINE l == (k - 15) \div 4
<1>1. l \in Lines /\ k \in 15 + 4 * l .. 18 + 4 * l
  BY DEF Lines
<1>. QED
  BY <1>1

(* What the writes do to the 8259s. *)
LEMMA PicEffects ==
    ASSUME pic \in Pics, NEW chip \in {"master", "slave"}, NEW other \in {"master", "slave"},
           other # chip, NEW val \in Nat, NEW e, e = pic[chip].expected, e \in 0 .. 3
    PROVE  /\ PicCommand(chip, 17) \in Pics
           /\ PicCommand(chip, 17)[chip].expected = 3
           /\ PicCommand(chip, 17)[other] = pic[other]
           /\ PicData(chip, val) \in Pics
           /\ PicData(chip, val)[chip].expected = IF e = 0 THEN 0 ELSE e - 1
           /\ e = 0 => PicData(chip, val)[chip].masked = val
           /\ PicData(chip, val)[other] = pic[other]
<1> DEFINE c == pic[chip]
           d == CASE c.expected = 3 -> [c EXCEPT !.expected = 2, !.from = val]
                  [] c.expected \in {1, 2} -> [c EXCEPT !.expected = c.expected - 1]
                  [] c.expected = 0 -> [c EXCEPT !.masked = val]
<1>1. c \in [from : Nat, masked : Nat, expected : Nat] /\ c.expected = e
  BY DEF Pics
<1>2. PicCommand(chip, 17) = [pic EXCEPT ![chip] = [c EXCEPT !.expected = 3]]
  BY DEF PicCommand
<1>3. PicData(chip, val) = [pic EXCEPT ![chip] = d]
  BY DEF PicData
<1>. HIDE DEF c
<1>4. [c EXCEPT !.expected = 3] \in [from : Nat, masked : Nat, expected : Nat]
      /\ [c EXCEPT !.expected = 3].expected = 3
  BY <1>1
<1>5. /\ d \in [from : Nat, masked : Nat, expected : Nat]
      /\ d.expected = IF e = 0 THEN 0 ELSE e - 1
      /\ e = 0 => d.masked = val
  <2>1. CASE e = 3
    <3>1. d = [c EXCEPT !.expected = 2, !.from = val]
      BY <1>1, <2>1
    <3> DEFINE b == [c EXCEPT !.expected = 2]
    <3>2. b \in [from : Nat, masked : Nat, expected : Nat] /\ b.expected = 2
      BY <1>1
    <3>3. d = [b EXCEPT !.from = val]
      BY <1>1, <3>1
    <3>. HIDE DEF b, d
    <3>4. d \in [from : Nat, masked : Nat, expected : Nat] /\ d.expected = 2
      BY <3>2, <3>3
    <3>. QED
      BY <2>1, <3>4
  <2>2. CASE e \in {1, 2}
    BY <1>1, <2>2
  <2>3. CASE e = 0
    <3>1. d = [c EXCEPT !.masked = val]
      BY <1>1, <2>3
    <3>2. d.expected = 0 /\ d.masked = val
      BY <1>1, <2>3, <3>1
    <3>3. d \in [from : Nat, masked : Nat, expected : Nat]
      BY <1>1, <3>1
    <3>. HIDE DEF d
    <3>. QED
      BY <2>3, <3>2, <3>3
  <2>. HIDE DEF d
  <2>. QED
    BY <2>1, <2>2, <2>3
<1> DEFINE f == [c EXCEPT !.expected = 3]
<1>. HIDE DEF d, f
<1>6. /\ PicCommand(chip, 17) \in Pics /\ PicCommand(chip, 17)[chip] = f
      /\ PicCommand(chip, 17)[other] = pic[other]
  <2>1. f \in [from : Nat, masked : Nat, expected : Nat]
    BY <1>4 DEF f
  <2>2. PicCommand(chip, 17) = [pic EXCEPT ![chip] = f]
    BY <1>2 DEF f
  <2>. QED
    BY <2>1, <2>2 DEF Pics
<1>7. /\ PicData(chip, val) \in Pics /\ PicData(chip, val)[chip] = d
      /\ PicData(chip, val)[other] = pic[other]
  BY <1>3, <1>5 DEF Pics
<1>. QED
  BY <1>4, <1>5, <1>6, <1>7 DEF f

(* The first ten writes. *)
LEMMA PicStep ==
    ASSUME RouteInv, BootWrite, boot < 10
    PROVE  PicStage' /\ UNCHANGED <<lapic, ioregsel, ioapic>>
<1>0. /\ boot \in 0 .. 9 /\ boot' = boot + 1 /\ boot' \in 1 .. 10
      /\ apic_init[boot'] = DisablePic[boot']
  <2>1. boot \in 0 .. 9 /\ boot' = boot + 1
    <3>1. boot \in 0 .. 118 /\ boot' = boot + 1
      BY Advances DEF RouteInv
    <3>. QED
      BY <3>1
  <2>. QED
    BY <2>1, InitElements
<1>1. PicStage
  BY DEF RouteInv
<1>2. pic \in Pics /\ pic["master"].expected \in 0 .. 3 /\ pic["slave"].expected \in 0 .. 3
  BY <1>0, <1>1 DEF PicStage, Pics
<1>3. /\ PicCommand("master", 17) \in Pics /\ PicCommand("master", 17)["master"].expected = 3
      /\ PicCommand("master", 17)["slave"] = pic["slave"]
      /\ \A v \in Nat : LET e == pic["master"].expected
                        IN  /\ PicData("master", v) \in Pics
                            /\ PicData("master", v)["master"].expected = (IF e = 0 THEN 0 ELSE e - 1)
                            /\ e = 0 => PicData("master", v)["master"].masked = v
                            /\ PicData("master", v)["slave"] = pic["slave"]
  <2> DEFINE chip == "master"
             other == "slave"
  <2>1. chip \in {"master", "slave"} /\ other \in {"master", "slave"} /\ other # chip
        /\ pic[chip].expected \in 0 .. 3
    BY <1>2
  <2>. HIDE DEF chip, other
  <2>2. ASSUME NEW v \in Nat
        PROVE  LET e == pic[chip].expected
               IN  /\ PicCommand(chip, 17) \in Pics /\ PicCommand(chip, 17)[chip].expected = 3
                   /\ PicCommand(chip, 17)[other] = pic[other]
                   /\ PicData(chip, v) \in Pics
                   /\ PicData(chip, v)[chip].expected = (IF e = 0 THEN 0 ELSE e - 1)
                   /\ e = 0 => PicData(chip, v)[chip].masked = v
                   /\ PicData(chip, v)[other] = pic[other]
    BY <1>2, <2>1, PicEffects
  <2>3. 0 \in Nat
    OBVIOUS
  <2>. QED
    BY <2>2, <2>3 DEF chip, other
<1>4. /\ PicCommand("slave", 17) \in Pics /\ PicCommand("slave", 17)["slave"].expected = 3
      /\ PicCommand("slave", 17)["master"] = pic["master"]
      /\ \A v \in Nat : LET e == pic["slave"].expected
                        IN  /\ PicData("slave", v) \in Pics
                            /\ PicData("slave", v)["slave"].expected = (IF e = 0 THEN 0 ELSE e - 1)
                            /\ e = 0 => PicData("slave", v)["slave"].masked = v
                            /\ PicData("slave", v)["master"] = pic["master"]
  <2> DEFINE chip == "slave"
             other == "master"
  <2>1. chip \in {"master", "slave"} /\ other \in {"master", "slave"} /\ other # chip
        /\ pic[chip].expected \in 0 .. 3
    BY <1>2
  <2>. HIDE DEF chip, other
  <2>2. ASSUME NEW v \in Nat
        PROVE  LET e == pic[chip].expected
               IN  /\ PicCommand(chip, 17) \in Pics /\ PicCommand(chip, 17)[chip].expected = 3
                   /\ PicCommand(chip, 17)[other] = pic[other]
                   /\ PicData(chip, v) \in Pics
                   /\ PicData(chip, v)[chip].expected = (IF e = 0 THEN 0 ELSE e - 1)
                   /\ e = 0 => PicData(chip, v)[chip].masked = v
                   /\ PicData(chip, v)[other] = pic[other]
    BY <1>2, <2>1, PicEffects
  <2>3. 0 \in Nat
    OBVIOUS
  <2>. QED
    BY <2>2, <2>3 DEF chip, other
<1>5. /\ \A v \in Nat : apic_init[boot'] = To("PIC_M_CMD", v) => pic' = PicCommand("master", v)
      /\ \A v \in Nat : apic_init[boot'] = To("PIC_S_CMD", v) => pic' = PicCommand("slave", v)
      /\ \A v \in Nat : apic_init[boot'] = To("PIC_M_DATA", v) => pic' = PicData("master", v)
      /\ \A v \in Nat : apic_init[boot'] = To("PIC_S_DATA", v) => pic' = PicData("slave", v)
      /\ \A v \in Nat : \/ apic_init[boot'] = To("PIC_M_CMD", v)
                        \/ apic_init[boot'] = To("PIC_S_CMD", v)
                        \/ apic_init[boot'] = To("PIC_M_DATA", v)
                        \/ apic_init[boot'] = To("PIC_S_DATA", v)
                        => UNCHANGED <<lapic, ioregsel, ioapic>>
  BY Effects
<1>6. CASE boot = 0
  <2>1. boot' = 1 /\ apic_init[boot'] = To("PIC_M_CMD", 17) /\ 17 \in Nat
    BY <1>0, <1>6, PicWrites
  <2>2. pic' = PicCommand("master", 17) /\ UNCHANGED <<lapic, ioregsel, ioapic>>
    BY <1>5, <2>1
  <2>3. PicStage'
    BY <1>1, <1>3, <1>6, <2>1, <2>2 DEF PicStage, Pics
  <2>. QED
    BY <2>2, <2>3
<1>7. CASE boot = 1
  <2>1. boot' = 2 /\ apic_init[boot'] = To("PIC_S_CMD", 17) /\ 17 \in Nat
    BY <1>0, <1>7, PicWrites
  <2>2. pic' = PicCommand("slave", 17) /\ UNCHANGED <<lapic, ioregsel, ioapic>>
    BY <1>5, <2>1
  <2>3. PicStage'
    BY <1>1, <1>4, <1>7, <2>1, <2>2 DEF PicStage, Pics
  <2>. QED
    BY <2>2, <2>3
<1>8. CASE boot = 2
  <2>1. boot' = 3 /\ apic_init[boot'] = To("PIC_M_DATA", 32) /\ 32 \in Nat
    BY <1>0, <1>8, PicWrites
  <2>2. pic' = PicData("master", 32) /\ UNCHANGED <<lapic, ioregsel, ioapic>>
    BY <1>5, <2>1
  <2>3. PicStage'
    BY <1>1, <1>3, <1>8, <2>1, <2>2 DEF PicStage, Pics
  <2>. QED
    BY <2>2, <2>3
<1>9. CASE boot = 3
  <2>1. boot' = 4 /\ apic_init[boot'] = To("PIC_S_DATA", 40) /\ 40 \in Nat
    BY <1>0, <1>9, PicWrites
  <2>2. pic' = PicData("slave", 40) /\ UNCHANGED <<lapic, ioregsel, ioapic>>
    BY <1>5, <2>1
  <2>3. PicStage'
    BY <1>1, <1>4, <1>9, <2>1, <2>2 DEF PicStage, Pics
  <2>. QED
    BY <2>2, <2>3
<1>10. CASE boot = 4
  <2>1. boot' = 5 /\ apic_init[boot'] = To("PIC_M_DATA", 4) /\ 4 \in Nat
    BY <1>0, <1>10, PicWrites
  <2>2. pic' = PicData("master", 4) /\ UNCHANGED <<lapic, ioregsel, ioapic>>
    BY <1>5, <2>1
  <2>3. PicStage'
    BY <1>1, <1>3, <1>10, <2>1, <2>2 DEF PicStage, Pics
  <2>. QED
    BY <2>2, <2>3
<1>11. CASE boot = 5
  <2>1. boot' = 6 /\ apic_init[boot'] = To("PIC_S_DATA", 2) /\ 2 \in Nat
    BY <1>0, <1>11, PicWrites
  <2>2. pic' = PicData("slave", 2) /\ UNCHANGED <<lapic, ioregsel, ioapic>>
    BY <1>5, <2>1
  <2>3. PicStage'
    BY <1>1, <1>4, <1>11, <2>1, <2>2 DEF PicStage, Pics
  <2>. QED
    BY <2>2, <2>3
<1>12. CASE boot = 6
  <2>1. boot' = 7 /\ apic_init[boot'] = To("PIC_M_DATA", 1) /\ 1 \in Nat
    BY <1>0, <1>12, PicWrites
  <2>2. pic' = PicData("master", 1) /\ UNCHANGED <<lapic, ioregsel, ioapic>>
    BY <1>5, <2>1
  <2>3. PicStage'
    BY <1>1, <1>3, <1>12, <2>1, <2>2 DEF PicStage, Pics
  <2>. QED
    BY <2>2, <2>3
<1>13. CASE boot = 7
  <2>1. boot' = 8 /\ apic_init[boot'] = To("PIC_S_DATA", 1) /\ 1 \in Nat
    BY <1>0, <1>13, PicWrites
  <2>2. pic' = PicData("slave", 1) /\ UNCHANGED <<lapic, ioregsel, ioapic>>
    BY <1>5, <2>1
  <2>3. PicStage'
    BY <1>1, <1>4, <1>13, <2>1, <2>2 DEF PicStage, Pics
  <2>. QED
    BY <2>2, <2>3
<1>14. CASE boot = 8
  <2>1. boot' = 9 /\ apic_init[boot'] = To("PIC_S_DATA", 255) /\ 255 \in Nat
    BY <1>0, <1>14, PicWrites
  <2>2. pic' = PicData("slave", 255) /\ UNCHANGED <<lapic, ioregsel, ioapic>>
    BY <1>5, <2>1
  <2>3. PicStage'
    BY <1>1, <1>4, <1>14, <2>1, <2>2 DEF PicStage, Pics
  <2>. QED
    BY <2>2, <2>3
<1>15. CASE boot = 9
  <2>1. boot' = 10 /\ apic_init[boot'] = To("PIC_M_DATA", 255) /\ 255 \in Nat
    BY <1>0, <1>15, PicWrites
  <2>2. pic' = PicData("master", 255) /\ UNCHANGED <<lapic, ioregsel, ioapic>>
    BY <1>5, <2>1
  <2>3. PicStage'
    BY <1>1, <1>3, <1>15, <2>1, <2>2 DEF PicStage, Pics
  <2>. QED
    BY <2>2, <2>3
<1>. QED
  BY <1>0, <1>6, <1>7, <1>8, <1>9, <1>10, <1>11, <1>12, <1>13, <1>14, <1>15

(* The next four: the local APIC. *)
LEMMA LapicStep ==
    ASSUME RouteInv, ControlInv, BootWrite, boot \in 10 .. 13
    PROVE  LapicStage' /\ UNCHANGED <<pic, ioregsel, ioapic>>
<1>0. boot' = boot + 1
  BY Advances
<1>1. LapicStage /\ lapic \in [hw : BOOLEAN, sw : BOOLEAN, count : Nat, timer : Nat]
  BY DEF RouteInv, ControlInv
<1>2. /\ \A v : apic_init[boot'] = To("IA32_APIC_BASE", v) =>
            lapic' = [lapic EXCEPT !.hw = TRUE] /\ UNCHANGED <<pic, ioregsel, ioapic>>
      /\ \A v : apic_init[boot'] = To("APIC_SPUR_REG", v) =>
            lapic' = [lapic EXCEPT !.sw = TRUE] /\ UNCHANGED <<pic, ioregsel, ioapic>>
      /\ \A v : apic_init[boot'] = To("APIC_TMR_INIT_REG", v) =>
            lapic' = [lapic EXCEPT !.count = v] /\ UNCHANGED <<pic, ioregsel, ioapic>>
      /\ \A v : apic_init[boot'] = To("APIC_LVT_TMR_REG", v) =>
            lapic' = [lapic EXCEPT !.timer = v] /\ UNCHANGED <<pic, ioregsel, ioapic>>
  BY Effects
<1>3. CASE boot = 10
  <2>1. boot' = 11 /\ apic_init[boot'] = To("IA32_APIC_BASE", 2048)
    BY <1>0, <1>3, InitElements
  <2>. QED
    BY <1>1, <1>2, <1>3, <2>1 DEF LapicStage
<1>4. CASE boot = 11
  <2>1. boot' = 12 /\ apic_init[boot'] = To("APIC_SPUR_REG", 256)
    BY <1>0, <1>4, InitElements
  <2>. QED
    BY <1>1, <1>2, <1>4, <2>1 DEF LapicStage
<1>5. CASE boot = 12
  <2>1. boot' = 13 /\ apic_init[boot'] = To("APIC_TMR_INIT_REG", 1000000000)
    BY <1>0, <1>5, InitElements
  <2>. QED
    BY <1>1, <1>2, <1>5, <2>1 DEF LapicStage
<1>6. CASE boot = 13
  <2>1. boot' = 14 /\ apic_init[boot'] = To("APIC_LVT_TMR_REG", 131104)
    BY <1>0, <1>6, InitElements
  <2>. QED
    BY <1>1, <1>2, <1>6, <2>1 DEF LapicStage
<1>. QED
  BY <1>3, <1>4, <1>5, <1>6

(* The entries as functions of the registers and of the number of writes. *)
Entries(regs, k) ==
    /\ \A l \in Lines : regs[16 + 2 * l] = CASE k < 16 + 4 * l -> 65536
                                             [] l = 1 /\ k >= 112 -> 33
                                             [] l = 14 /\ k >= 116 -> 46
                                             [] OTHER -> 65568 + l
    /\ \A l \in Lines : k >= 18 + 4 * l => regs[16 + 2 * l + 1] = LapicId * IdShift

(* They are what the invariant says of the entries. *)
LEMMA EntriesTerms ==
    /\ IoapicStage <=> Entries(ioapic, boot)
    /\ IoapicStage' <=> Entries(ioapic', boot')
BY DEF IoapicStage, Entries, EntryOf, Low, High

(* A write that does not go to the entries. *)
LEMMA EntriesStay ==
    ASSUME NEW regs, NEW k \in 0 .. 117, Entries(regs, k),
           \A l \in Lines : k + 1 # 16 + 4 * l /\ k + 1 # 18 + 4 * l,
           k + 1 # 112, k + 1 # 116
    PROVE  Entries(regs, k + 1)
<1>1. ASSUME NEW l \in Lines
      PROVE  /\ k < 16 + 4 * l <=> k + 1 < 16 + 4 * l
             /\ k >= 18 + 4 * l <=> k + 1 >= 18 + 4 * l
             /\ k >= 112 <=> k + 1 >= 112
             /\ k >= 116 <=> k + 1 >= 116
  BY DEF Lines
<1>. QED
  BY <1>1 DEF Entries

(* The write after the k-th is of an entry's lower or upper half, and of what. *)
LowNext(k, l, v) == \/ k + 1 = 16 + 4 * l /\ v = 65568 + l
                    \/ k + 1 = 112 /\ l = 1 /\ v = 33
                    \/ k + 1 = 116 /\ l = 14 /\ v = 46

HighNext(k, l, v) == /\ v = LapicId * IdShift
                     /\ \/ k + 1 = 18 + 4 * l
                        \/ k + 1 = 114 /\ l = 1
                        \/ k + 1 = 118 /\ l = 14

(* A write to an entry's lower half. *)
LEMMA LowWritten ==
    ASSUME NEW regs \in [16 .. 63 -> Nat], NEW k \in 0 .. 117, Entries(regs, k),
           NEW l \in Lines, NEW v \in Nat, LowNext(k, l, v)
    PROVE  Entries([regs EXCEPT ![16 + 2 * l] = v], k + 1)
<1> DEFINE r == [regs EXCEPT ![16 + 2 * l] = v]
<1>0. LowNext(k, l, v)
  OBVIOUS
<1>. USE DEF LowNext
<1>1. /\ r[16 + 2 * l] = v
      /\ \A i \in 16 .. 63 : i # 16 + 2 * l => r[i] = regs[i]
  BY DEF Lines
<1>. HIDE DEF r
<1>2. ASSUME NEW m \in Lines
      PROVE  r[16 + 2 * m] = CASE k + 1 < 16 + 4 * m -> 65536
                               [] m = 1 /\ k + 1 >= 112 -> 33
                               [] m = 14 /\ k + 1 >= 116 -> 46
                               [] OTHER -> 65568 + m
  <2>1. CASE m = l
    BY <1>1, <2>1 DEF Lines
  <2>2. CASE m # l
    <3>1. r[16 + 2 * m] = regs[16 + 2 * m]
      BY <1>1, <2>2 DEF Lines
    <3>2. /\ k < 16 + 4 * m <=> k + 1 < 16 + 4 * m
          /\ m = 1 => (k >= 112 <=> k + 1 >= 112)
          /\ m = 14 => (k >= 116 <=> k + 1 >= 116)
      BY <2>2 DEF Lines
    <3>. QED
      BY <3>1, <3>2 DEF Entries
  <2>. QED
    BY <2>1, <2>2
<1>3. ASSUME NEW m \in Lines, k + 1 >= 18 + 4 * m
      PROVE  r[16 + 2 * m + 1] = LapicId * IdShift
  <2>1. k >= 18 + 4 * m /\ r[16 + 2 * m + 1] = regs[16 + 2 * m + 1]
    BY <1>1, <1>3 DEF Lines
  <2>. QED
    BY <2>1 DEF Entries
<1>. QED
  BY <1>2, <1>3 DEF Entries, r

(* A write to an entry's upper half. *)
LEMMA HighWritten ==
    ASSUME NEW regs \in [16 .. 63 -> Nat], NEW k \in 0 .. 117, Entries(regs, k),
           NEW l \in Lines, NEW v \in Nat, HighNext(k, l, v)
    PROVE  Entries([regs EXCEPT ![17 + 2 * l] = v], k + 1)
<1> DEFINE r == [regs EXCEPT ![17 + 2 * l] = v]
<1>0. HighNext(k, l, v)
  OBVIOUS
<1>. USE DEF HighNext
<1>1. /\ r[17 + 2 * l] = LapicId * IdShift
      /\ \A i \in 16 .. 63 : i # 17 + 2 * l => r[i] = regs[i]
  BY DEF Lines
<1>. HIDE DEF r
<1>2. ASSUME NEW m \in Lines
      PROVE  r[16 + 2 * m] = CASE k + 1 < 16 + 4 * m -> 65536
                               [] m = 1 /\ k + 1 >= 112 -> 33
                               [] m = 14 /\ k + 1 >= 116 -> 46
                               [] OTHER -> 65568 + m
  <2>1. r[16 + 2 * m] = regs[16 + 2 * m]
    BY <1>1 DEF Lines
  <2>2. /\ k < 16 + 4 * m <=> k + 1 < 16 + 4 * m
        /\ m = 1 => (k >= 112 <=> k + 1 >= 112)
        /\ m = 14 => (k >= 116 <=> k + 1 >= 116)
    BY DEF Lines
  <2>. QED
    BY <2>1, <2>2 DEF Entries
<1>3. ASSUME NEW m \in Lines, k + 1 >= 18 + 4 * m
      PROVE  r[16 + 2 * m + 1] = LapicId * IdShift
  <2>1. CASE m = l
    BY <1>1, <2>1 DEF Lines
  <2>2. CASE m # l
    <3>1. k >= 18 + 4 * m /\ r[16 + 2 * m + 1] = regs[16 + 2 * m + 1]
      BY <1>1, <1>3, <2>2 DEF Lines
    <3>. QED
      BY <3>1 DEF Entries
  <2>. QED
    BY <2>1, <2>2
<1>. QED
  BY <1>2, <1>3 DEF Entries, r

(* From the fifteenth write on: the I/O APIC. *)
LEMMA IoapicStep ==
    ASSUME RouteInv, ControlInv, BootWrite, boot \in 14 .. 117
    PROVE  SelectStage' /\ IoapicStage' /\ UNCHANGED <<pic, lapic>>
<1>0. /\ boot' = boot + 1 /\ boot \in 0 .. 117 /\ boot' \in 15 .. 118
      /\ ioapic \in [16 .. 63 -> Nat] /\ SelectStage /\ Entries(ioapic, boot)
  <2>1. boot' = boot + 1
    BY Advances
  <2>2. ioapic \in [16 .. 63 -> Nat] /\ SelectStage /\ Entries(ioapic, boot)
    BY EntriesTerms DEF RouteInv, ControlInv
  <2>. QED
    BY <2>1, <2>2
<1>1. ASSUME NEW v, apic_init[boot'] = To("ioregsel", v),
             \A l \in Lines : /\ boot' # 16 + 4 * l /\ boot' # 18 + 4 * l
                              /\ boot' = 15 + 4 * l => v = 16 + 2 * l
                              /\ boot' = 17 + 4 * l => v = 17 + 2 * l,
             /\ boot' = 111 => v = 18
             /\ boot' = 113 => v = 19
             /\ boot' = 115 => v = 44
             /\ boot' = 117 => v = 45,
             boot' \notin {112, 116}
      PROVE  SelectStage' /\ IoapicStage' /\ UNCHANGED <<pic, lapic>>
  <2>1. ioregsel' = v /\ UNCHANGED <<pic, lapic, ioapic>>
    BY <1>1, Selects
  <2>2. SelectStage'
    BY <1>1, <2>1 DEF SelectStage
  <2>3. Entries(ioapic, boot + 1)
    BY <1>0, <1>1, EntriesStay
  <2>. QED
    BY <1>0, <2>1, <2>2, <2>3, EntriesTerms
<1>2. ASSUME NEW v, apic_init[boot'] = To("iowin", v),
             Entries([ioapic EXCEPT ![ioregsel] = v], boot + 1),
             \A l \in Lines : boot' # 15 + 4 * l /\ boot' # 17 + 4 * l,
             boot' \notin {111, 113, 115, 117}
      PROVE  SelectStage' /\ IoapicStage' /\ UNCHANGED <<pic, lapic>>
  <2>1. ioapic' = [ioapic EXCEPT ![ioregsel] = v] /\ UNCHANGED <<pic, lapic, ioregsel>>
    BY <1>2, Fills
  <2>2. SelectStage'
    BY <1>2 DEF SelectStage
  <2>. QED
    BY <1>0, <1>2, <2>1, <2>2, EntriesTerms
<1>3. CASE boot' <= 110
  <2>1. PICK l \in Lines : boot' \in 15 + 4 * l .. 18 + 4 * l
    BY <1>0, <1>3, WhichLine
  <2>2. /\ apic_init[15 + 4 * l] = To("ioregsel", 16 + 2 * l)
        /\ apic_init[16 + 4 * l] = To("iowin", 65568 + l)
        /\ apic_init[17 + 4 * l] = To("ioregsel", 17 + 2 * l)
        /\ apic_init[18 + 4 * l] = To("iowin", LapicId * IdShift)
    BY InitElements
  <2>3. CASE boot' = 15 + 4 * l
    <3>1. \A m \in Lines : /\ boot' # 16 + 4 * m /\ boot' # 18 + 4 * m /\ boot' # 17 + 4 * m
                           /\ boot' = 15 + 4 * m => m = l
      BY <2>3 DEF Lines
    <3>2. boot' \notin 111 .. 118
      BY <1>0, <1>3
    <3> DEFINE v == 16 + 2 * l
    <3>3. /\ apic_init[boot'] = To("ioregsel", v)
          /\ \A m \in Lines : /\ boot' # 16 + 4 * m /\ boot' # 18 + 4 * m
                              /\ boot' = 15 + 4 * m => v = 16 + 2 * m
                              /\ boot' = 17 + 4 * m => v = 17 + 2 * m
          /\ boot' # 111 /\ boot' # 113 /\ boot' # 115 /\ boot' # 117
          /\ boot' \notin {112, 116}
      BY <2>2, <2>3, <3>1, <3>2
    <3>. HIDE DEF v
    <3>. QED
      BY <1>1, <3>3
  <2>4. CASE boot' = 16 + 4 * l
    <3> DEFINE v == 65568 + l
    <3>1. ioregsel = 16 + 2 * l /\ v \in Nat /\ boot + 1 = 16 + 4 * l /\ v = 65568 + l
      BY <1>0, <2>4 DEF SelectStage, Lines
    <3>2. apic_init[boot'] = To("iowin", v)
      BY <2>2, <2>4
    <3>3. /\ \A m \in Lines : boot' # 15 + 4 * m /\ boot' # 17 + 4 * m
          /\ boot' \notin {111, 113, 115, 117}
      BY <1>0, <1>3, <2>4 DEF Lines
    <3>. HIDE DEF v
    <3>4. Entries([ioapic EXCEPT ![16 + 2 * l] = v], boot + 1)
      <4>1. LowNext(boot, l, v)
        BY <3>1 DEF LowNext
      <4>2. /\ ioapic \in [16 .. 63 -> Nat] /\ boot \in 0 .. 117 /\ Entries(ioapic, boot)
            /\ v \in Nat
        BY <1>0, <3>1
      <4>. QED
        BY <4>1, <4>2, LowWritten
    <3>. QED
      BY <1>2, <3>1, <3>2, <3>3, <3>4
  <2>5. CASE boot' = 17 + 4 * l
    <3>1. \A m \in Lines : /\ boot' # 16 + 4 * m /\ boot' # 18 + 4 * m /\ boot' # 15 + 4 * m
                           /\ boot' = 17 + 4 * m => m = l
      BY <2>5 DEF Lines
    <3>2. boot' \notin 111 .. 118
      BY <1>0, <1>3
    <3> DEFINE v == 17 + 2 * l
    <3>3. /\ apic_init[boot'] = To("ioregsel", v)
          /\ \A m \in Lines : /\ boot' # 16 + 4 * m /\ boot' # 18 + 4 * m
                              /\ boot' = 15 + 4 * m => v = 16 + 2 * m
                              /\ boot' = 17 + 4 * m => v = 17 + 2 * m
          /\ boot' # 111 /\ boot' # 113 /\ boot' # 115 /\ boot' # 117
          /\ boot' \notin {112, 116}
      BY <2>2, <2>5, <3>1, <3>2
    <3>. HIDE DEF v
    <3>. QED
      BY <1>1, <3>3
  <2>6. CASE boot' = 18 + 4 * l
    <3> DEFINE v == LapicId * IdShift
    <3>1. ioregsel = 17 + 2 * l /\ boot + 1 = 18 + 4 * l /\ v \in Nat /\ v = LapicId * IdShift
      BY <1>0, <2>6, Parameters DEF SelectStage, Lines
    <3>2. apic_init[boot'] = To("iowin", v)
      BY <2>2, <2>6
    <3>. HIDE DEF v
    <3>3. /\ \A m \in Lines : boot' # 15 + 4 * m /\ boot' # 17 + 4 * m
          /\ boot' \notin {111, 113, 115, 117}
      BY <1>0, <1>3, <2>6 DEF Lines
    <3>4. Entries([ioapic EXCEPT ![17 + 2 * l] = v], boot + 1)
      <4>1. /\ ioapic \in [16 .. 63 -> Nat] /\ boot \in 0 .. 117 /\ Entries(ioapic, boot)
            /\ v \in Nat
        BY <1>0, <3>1
      <4>2. HighNext(boot, l, v)
        BY <3>1 DEF HighNext
      <4>. QED
        BY <4>1, <4>2, HighWritten
    <3>. QED
      BY <1>2, <3>1, <3>2, <3>3, <3>4
  <2>. QED
    BY <2>1, <2>3, <2>4, <2>5, <2>6 DEF Lines
<1>4. \A l \in Lines : 18 + 4 * l <= 110
  BY DEF Lines
<1>5. CASE boot' = 111
  <2>1. apic_init[boot'] = To("ioregsel", 18)
    BY <1>5, InitElements
  <2>2. \A l \in Lines : /\ boot' # 16 + 4 * l /\ boot' # 18 + 4 * l
                         /\ boot' # 15 + 4 * l /\ boot' # 17 + 4 * l
    BY <1>4, <1>5 DEF Lines
  <2> DEFINE v == 18
  <2>3. /\ apic_init[boot'] = To("ioregsel", v)
        /\ boot' = 111 => v = 18
        /\ boot' = 113 => v = 19
        /\ boot' = 115 => v = 44
        /\ boot' = 117 => v = 45
        /\ boot' \notin {112, 116}
    BY <1>5, <2>1
  <2>. HIDE DEF v
  <2>. QED
    BY <1>1, <2>2, <2>3
<1>6. CASE boot' = 112
  <2> DEFINE v == 33
             l == 1
  <2>1. apic_init[boot'] = To("iowin", v) /\ v \in Nat /\ l \in Lines
        /\ ioregsel = 16 + 2 * l /\ boot + 1 = 112 /\ v = 33 /\ l = 1
    <3>1. apic_init[boot'] = To("iowin", v) /\ boot = 111
      BY <1>0, <1>6, InitElements
    <3>2. ioregsel = 18
      BY <1>0, <3>1 DEF SelectStage
    <3>. QED
      BY <3>1, <3>2 DEF Lines
  <2>. HIDE DEF v, l
  <2>2. Entries([ioapic EXCEPT ![16 + 2 * l] = v], boot + 1)
    <3>1. /\ ioapic \in [16 .. 63 -> Nat] /\ boot \in 0 .. 117 /\ Entries(ioapic, boot)
          /\ l \in Lines /\ v \in Nat
      BY <1>0, <2>1
    <3>2. LowNext(boot, l, v)
      BY <2>1 DEF LowNext
    <3>. QED
      BY <3>1, <3>2, LowWritten
  <2>3. \A m \in Lines : boot' # 15 + 4 * m /\ boot' # 17 + 4 * m
    BY <1>4, <1>6 DEF Lines
  <2>. QED
    BY <1>2, <1>6, <2>1, <2>2, <2>3
<1>7. CASE boot' = 113
  <2>1. apic_init[boot'] = To("ioregsel", 19)
    BY <1>7, InitElements
  <2>2. \A l \in Lines : /\ boot' # 16 + 4 * l /\ boot' # 18 + 4 * l
                         /\ boot' # 15 + 4 * l /\ boot' # 17 + 4 * l
    BY <1>4, <1>7 DEF Lines
  <2> DEFINE v == 19
  <2>3. /\ apic_init[boot'] = To("ioregsel", v)
        /\ boot' = 111 => v = 18
        /\ boot' = 113 => v = 19
        /\ boot' = 115 => v = 44
        /\ boot' = 117 => v = 45
        /\ boot' \notin {112, 116}
    BY <1>7, <2>1
  <2>. HIDE DEF v
  <2>. QED
    BY <1>1, <2>2, <2>3
<1>8. CASE boot' = 114
  <2> DEFINE v == LapicId * IdShift
             l == 1
  <2>1. apic_init[boot'] = To("iowin", v) /\ v \in Nat /\ l \in Lines
        /\ ioregsel = 17 + 2 * l /\ boot + 1 = 114 /\ v = LapicId * IdShift /\ l = 1
    <3>1. apic_init[boot'] = To("iowin", v) /\ v \in Nat /\ boot = 113
      BY <1>0, <1>8, InitElements, Parameters
    <3>2. ioregsel = 19
      BY <1>0, <3>1 DEF SelectStage
    <3>. QED
      BY <3>1, <3>2 DEF Lines
  <2>. HIDE DEF v, l
  <2>2. Entries([ioapic EXCEPT ![17 + 2 * l] = v], boot + 1)
    <3>1. /\ ioapic \in [16 .. 63 -> Nat] /\ boot \in 0 .. 117 /\ Entries(ioapic, boot)
          /\ l \in Lines /\ v \in Nat
      BY <1>0, <2>1
    <3>2. HighNext(boot, l, v)
      BY <2>1 DEF HighNext
    <3>. QED
      BY <3>1, <3>2, HighWritten
  <2>3. \A m \in Lines : boot' # 15 + 4 * m /\ boot' # 17 + 4 * m
    BY <1>4, <1>8 DEF Lines
  <2>. QED
    BY <1>2, <1>8, <2>1, <2>2, <2>3
<1>9. CASE boot' = 115
  <2>1. apic_init[boot'] = To("ioregsel", 44)
    BY <1>9, InitElements
  <2>2. \A l \in Lines : /\ boot' # 16 + 4 * l /\ boot' # 18 + 4 * l
                         /\ boot' # 15 + 4 * l /\ boot' # 17 + 4 * l
    BY <1>4, <1>9 DEF Lines
  <2> DEFINE v == 44
  <2>3. /\ apic_init[boot'] = To("ioregsel", v)
        /\ boot' = 111 => v = 18
        /\ boot' = 113 => v = 19
        /\ boot' = 115 => v = 44
        /\ boot' = 117 => v = 45
        /\ boot' \notin {112, 116}
    BY <1>9, <2>1
  <2>. HIDE DEF v
  <2>. QED
    BY <1>1, <2>2, <2>3
<1>10. CASE boot' = 116
  <2> DEFINE v == 46
             l == 14
  <2>1. apic_init[boot'] = To("iowin", v) /\ v \in Nat /\ l \in Lines
        /\ ioregsel = 16 + 2 * l /\ boot + 1 = 116 /\ v = 46 /\ l = 14
    <3>1. apic_init[boot'] = To("iowin", v) /\ boot = 115
      BY <1>0, <1>10, InitElements
    <3>2. ioregsel = 44
      BY <1>0, <3>1 DEF SelectStage
    <3>. QED
      BY <3>1, <3>2 DEF Lines
  <2>. HIDE DEF v, l
  <2>2. Entries([ioapic EXCEPT ![16 + 2 * l] = v], boot + 1)
    <3>1. /\ ioapic \in [16 .. 63 -> Nat] /\ boot \in 0 .. 117 /\ Entries(ioapic, boot)
          /\ l \in Lines /\ v \in Nat
      BY <1>0, <2>1
    <3>2. LowNext(boot, l, v)
      BY <2>1 DEF LowNext
    <3>. QED
      BY <3>1, <3>2, LowWritten
  <2>3. \A m \in Lines : boot' # 15 + 4 * m /\ boot' # 17 + 4 * m
    BY <1>4, <1>10 DEF Lines
  <2>. QED
    BY <1>2, <1>10, <2>1, <2>2, <2>3
<1>11. CASE boot' = 117
  <2>1. apic_init[boot'] = To("ioregsel", 45)
    BY <1>11, InitElements
  <2>2. \A l \in Lines : /\ boot' # 16 + 4 * l /\ boot' # 18 + 4 * l
                         /\ boot' # 15 + 4 * l /\ boot' # 17 + 4 * l
    BY <1>4, <1>11 DEF Lines
  <2> DEFINE v == 45
  <2>3. /\ apic_init[boot'] = To("ioregsel", v)
        /\ boot' = 111 => v = 18
        /\ boot' = 113 => v = 19
        /\ boot' = 115 => v = 44
        /\ boot' = 117 => v = 45
        /\ boot' \notin {112, 116}
    BY <1>11, <2>1
  <2>. HIDE DEF v
  <2>. QED
    BY <1>1, <2>2, <2>3
<1>12. CASE boot' = 118
  <2> DEFINE v == LapicId * IdShift
             l == 14
  <2>1. apic_init[boot'] = To("iowin", v) /\ v \in Nat /\ l \in Lines
        /\ ioregsel = 17 + 2 * l /\ boot + 1 = 118 /\ v = LapicId * IdShift /\ l = 14
    <3>1. apic_init[boot'] = To("iowin", v) /\ v \in Nat /\ boot = 117
      BY <1>0, <1>12, InitElements, Parameters
    <3>2. ioregsel = 45
      BY <1>0, <3>1 DEF SelectStage
    <3>. QED
      BY <3>1, <3>2 DEF Lines
  <2>. HIDE DEF v, l
  <2>2. Entries([ioapic EXCEPT ![17 + 2 * l] = v], boot + 1)
    <3>1. /\ ioapic \in [16 .. 63 -> Nat] /\ boot \in 0 .. 117 /\ Entries(ioapic, boot)
          /\ l \in Lines /\ v \in Nat
      BY <1>0, <2>1
    <3>2. HighNext(boot, l, v)
      BY <2>1 DEF HighNext
    <3>. QED
      BY <3>1, <3>2, HighWritten
  <2>3. \A m \in Lines : boot' # 15 + 4 * m /\ boot' # 17 + 4 * m
    BY <1>4, <1>12 DEF Lines
  <2>. QED
    BY <1>2, <1>12, <2>1, <2>2, <2>3
<1>. QED
  BY <1>0, <1>3, <1>5, <1>6, <1>7, <1>8, <1>9, <1>10, <1>11, <1>12

(* A write of apic_init keeps the invariant. *)
LEMMA RouteBoot == RouteInv /\ ControlInv /\ BootWrite => RouteInv'
<1>. SUFFICES ASSUME RouteInv, ControlInv, BootWrite PROVE RouteInv'
  OBVIOUS
<1>0. /\ boot \in 0 .. 117 /\ boot' = boot + 1 /\ boot' \in 1 .. 118
      /\ irr' \subseteq 32 .. 47 /\ isr' = {}
  <2>1. boot \in 0 .. 118 /\ boot # 118 /\ boot' = boot + 1 /\ UNCHANGED <<irr, isr>>
    BY Advances, InitElements DEF RouteInv
  <2>. QED
    BY <2>1 DEF RouteInv
<1>1. PicStage /\ LapicStage /\ SelectStage /\ IoapicStage
  BY DEF RouteInv
<1>2. ASSUME boot < 14, UNCHANGED ioapic PROVE SelectStage' /\ IoapicStage'
  <2>1. boot' \in 0 .. 14
    BY <1>0, <1>2
  <2>2. SelectStage'
    <3>1. ASSUME NEW l \in Lines PROVE boot' # 15 + 4 * l /\ boot' # 17 + 4 * l
      BY <2>1 DEF Lines
    <3>2. boot' # 111 /\ boot' # 113 /\ boot' # 115 /\ boot' # 117
      BY <2>1
    <3>. QED
      BY <3>1, <3>2 DEF SelectStage
  <2>3. Entries(ioapic, boot + 1)
    <3>1. \A l \in Lines : boot + 1 # 16 + 4 * l /\ boot + 1 # 18 + 4 * l
      BY <1>0, <1>2 DEF Lines
    <3>2. boot + 1 # 112 /\ boot + 1 # 116 /\ Entries(ioapic, boot)
      BY <1>0, <1>1, <1>2, EntriesTerms
    <3>. QED
      BY <1>0, <3>1, <3>2, EntriesStay
  <2>. QED
    BY <1>0, <1>2, <2>2, <2>3, EntriesTerms
<1>3. ASSUME boot >= 10, UNCHANGED pic PROVE PicStage'
  BY <1>0, <1>1, <1>3 DEF PicStage
<1>4. CASE boot < 10
  <2>1. PicStage' /\ UNCHANGED <<lapic, ioregsel, ioapic>>
    BY <1>4, PicStep
  <2>2. LapicStage'
    BY <1>0, <1>1, <1>4, <2>1 DEF LapicStage
  <2>. QED
    BY <1>0, <1>2, <1>4, <2>1, <2>2 DEF RouteInv
<1>5. CASE boot \in 10 .. 13
  <2>1. LapicStage' /\ UNCHANGED <<pic, ioregsel, ioapic>>
    BY <1>5, LapicStep
  <2>. QED
    BY <1>0, <1>2, <1>3, <1>5, <2>1 DEF RouteInv
<1>6. CASE boot \in 14 .. 117
  <2>1. SelectStage' /\ IoapicStage' /\ UNCHANGED <<pic, lapic>>
    BY <1>6, IoapicStep
  <2>2. LapicStage'
    BY <1>0, <1>1, <1>6, <2>1 DEF LapicStage
  <2>. QED
    BY <1>0, <1>3, <1>6, <2>1, <2>2 DEF RouteInv
<1>. QED
  BY <1>0, <1>4, <1>5, <1>6

(* What the numbers in the entries mean. *)
LEMMA Meaning ==
    /\ Vector(131104) = 32 /\ Periodic(131104) /\ ~Masked(131104)
    /\ Masked(65536) /\ ~Masked(33) /\ ~Masked(46) /\ Vector(33) = 33 /\ Vector(46) = 46
    /\ \A l \in Lines : Masked(65568 + l)
<1>1. IOAPIC_DISABLE = 65536 /\ 2 ^ 17 = 131072
  BY Parameters
<1>2. ASSUME NEW l \in Lines PROVE Masked(65568 + l)
  <2>1. (65568 + l) \div 65536 = 1
    BY DEF Lines
  <2>. QED
    BY <1>1, <2>1 DEF Masked
<1>. QED
  BY <1>1, <1>2 DEF Vector, Periodic, Masked

(* The vectors that the controllers pass on are among the sixteen from 32. *)
LEMMA Passed ==
    ASSUME RouteInv
    PROVE  /\ Requested(APIC_IRQ_KBD) \subseteq 32 .. 47
           /\ Requested(APIC_IRQ_IDE) \subseteq 32 .. 47
           /\ TimerExpires => Vector(lapic.timer) \in 32 .. 47
<1>1. \A l \in Lines : Low(l) = EntryOf(l)
  BY DEF RouteInv, IoapicStage
<1>2. ASSUME NEW l \in Lines, ~Masked(EntryOf(l)) PROVE EntryOf(l) \in {33, 46}
  BY <1>2, Meaning DEF EntryOf
<1>3. ASSUME NEW l \in Lines PROVE Requested(l) \subseteq 32 .. 47
  <2>1. CASE ~PassesOn(l)
    BY <2>1 DEF Requested
  <2>2. CASE PassesOn(l)
    <3>1. Low(l) \in {33, 46}
      BY <1>1, <1>2, <2>2 DEF PassesOn
    <3>2. Vector(Low(l)) \in 32 .. 47
      BY <3>1, Meaning
    <3>. QED
      BY <3>2 DEF Requested
  <2>. QED
    BY <2>1, <2>2
<1>4. TimerExpires => Vector(lapic.timer) \in 32 .. 47
  <2>1. TimerExpires => lapic.timer = 131104
    BY Meaning DEF TimerExpires, RouteInv, LapicStage
  <2>. QED
    BY <2>1, Meaning
<1>5. APIC_IRQ_KBD \in Lines /\ APIC_IRQ_IDE \in Lines
  BY DEF APIC_IRQ_KBD, APIC_IRQ_IDE, Lines
<1>. QED
  BY <1>3, <1>4, <1>5

(* Every other step leaves the programming alone. *)
LEMMA RouteKeeps ==
    ASSUME RouteInv, UNCHANGED <<boot, pic, lapic, ioregsel, ioapic>>,
           irr' \subseteq 32 .. 47, isr' = {}
    PROVE  RouteInv'
BY DEF RouteInv, PicStage, LapicStage, SelectStage, IoapicStage, EntryOf, Low, High

(* Every step keeps the invariant. *)
LEMMA RouteStep == RouteInv /\ ControlInv /\ [Next]_vars => RouteInv'
<1>. SUFFICES ASSUME RouteInv, ControlInv, [Next]_vars PROVE RouteInv'
  OBVIOUS
<1>0. irr \subseteq 32 .. 47 /\ isr = {}
  BY DEF RouteInv
<1>1. CASE UNCHANGED controllers
  BY <1>0, <1>1, RouteKeeps DEF controllers
<1>2. CASE Boot
  BY <1>2, RouteBoot DEF Boot
<1>3. ASSUME NEW code, Press(code) PROVE RouteInv'
  <2>1. /\ irr' = irr \cup Requested(APIC_IRQ_KBD)
        /\ UNCHANGED <<boot, pic, lapic, ioregsel, ioapic, isr>>
    BY <1>3 DEF Press
  <2>. QED
    BY <1>0, <2>1, Passed, RouteKeeps
<1>4. CASE OtherDevice
  <2>1. CASE TimerExpires
    <3>1. /\ irr' = irr \cup {Vector(lapic.timer)}
          /\ UNCHANGED <<boot, pic, lapic, ioregsel, ioapic, isr>>
      BY <2>1 DEF TimerExpires
    <3>2. Vector(lapic.timer) \in 32 .. 47
      BY <2>1, Passed
    <3>. QED
      BY <1>0, <3>1, <3>2, RouteKeeps
  <2>2. CASE DiskInterrupt
    <3>1. /\ irr' = irr \cup Requested(APIC_IRQ_IDE)
          /\ UNCHANGED <<boot, pic, lapic, ioregsel, ioapic, isr>>
      BY <2>2 DEF DiskInterrupt
    <3>. QED
      BY <1>0, <3>1, Passed, RouteKeeps
  <2>. QED
    BY <1>4, <2>1, <2>2 DEF OtherDevice
<1>5. ASSUME NEW irq \in Lines, Interrupt(irq) PROVE RouteInv'
  <2>1. PICK v \in irr : Handled(v)
    BY <1>5 DEF Interrupt
  <2>2. v \in 32 .. 47
    BY <1>0
  <2>3. v \in APIC_REMAP_START .. APIC_REMAP_END - 1
    BY <2>2 DEF APIC_REMAP_START, APIC_REMAP_END
  <2>4. isr' = apic_eoi({v}) /\ irr' \subseteq irr
        /\ UNCHANGED <<boot, pic, lapic, ioregsel, ioapic>>
    BY <1>0, <2>1, <2>3 DEF Handled
  <2>5. isr' = {}
    BY <2>2, <2>4 DEF apic_eoi
  <2>. QED
    BY <1>0, <2>4, <2>5, RouteKeeps
<1>6. ASSUME NEW r \in Readers, Read(r) \/ kbd_get_str(r) PROVE UNCHANGED controllers
  BY <1>6 DEF Read, kbd_get_str, Spin, Awake, LoadSize, ClearSize, ClearDone, CopyByte,
              ReadReturn, vars, controllers
<1>7. UNCHANGED vars => UNCHANGED controllers
  BY DEF vars
<1>. QED
  BY <1>1, <1>2, <1>3, <1>4, <1>5, <1>6, <1>7 DEF Next

(* Before the first write. *)
LEMMA RouteInit == Init => RouteInv
<1>. SUFFICES ASSUME Init PROVE RouteInv
  OBVIOUS
<1>1. /\ boot = 0 /\ irr = {} /\ isr = {}
      /\ pic = [chip \in {"master", "slave"} |-> [from |-> 8, masked |-> 0, expected |-> 0]]
      /\ lapic = [hw |-> FALSE, sw |-> FALSE, count |-> 0, timer |-> IOAPIC_DISABLE]
      /\ ioapic = [r \in 16 .. 63 |-> IF r % 2 = 0 THEN IOAPIC_DISABLE ELSE 0]
  BY DEF Init, InitControllers
<1>2. PicStage
  BY <1>1 DEF PicStage, Pics
<1>3. LapicStage
  BY <1>1, Parameters DEF LapicStage
<1>4. SelectStage
  BY <1>1 DEF SelectStage, Lines
<1>5. IoapicStage
  <2>1. ASSUME NEW l \in Lines PROVE Low(l) = EntryOf(l) /\ ~(boot >= 18 + 4 * l)
    <3>1. 16 + 2 * l \in 16 .. 63 /\ (16 + 2 * l) % 2 = 0
      BY DEF Lines
    <3>2. Low(l) = 65536
      BY <1>1, <3>1, Parameters DEF Low
    <3>3. boot < 16 + 4 * l /\ ~(boot >= 18 + 4 * l)
      BY <1>1 DEF Lines
    <3>4. ~(boot >= 112) /\ ~(boot >= 116)
      BY <1>1
    <3>5. EntryOf(l) = 65536
      BY <3>3, <3>4 DEF EntryOf
    <3>. QED
      BY <3>2, <3>3, <3>5
  <2>. QED
    BY <2>1 DEF IoapicStage
<1>. QED
  BY <1>1, <1>2, <1>3, <1>4, <1>5 DEF RouteInv

(* When apic_init is over, the invariant says where the interrupts go. *)
LEMMA RouteEnd == RouteInv => Routed
<1>. SUFFICES ASSUME RouteInv, Booted PROVE Routed
  BY DEF Routed
<1>1. boot = 118
  BY InitElements DEF Booted
<1>2. /\ \A l \in Lines : Low(l) = EntryOf(l) /\ High(l) = LapicId * IdShift
      /\ lapic.hw /\ lapic.sw /\ lapic.timer = 131104
      /\ pic["slave"].masked = 255 /\ pic["master"].masked = 255
      /\ DOMAIN pic = {"master", "slave"} /\ isr = {}
  <2>1. \A l \in Lines : boot >= 18 + 4 * l
    BY <1>1 DEF Lines
  <2>2. \A l \in Lines : Low(l) = EntryOf(l) /\ High(l) = LapicId * IdShift
    BY <2>1 DEF RouteInv, IoapicStage
  <2>3. lapic.hw /\ lapic.sw /\ lapic.timer = 131104
    BY <1>1 DEF RouteInv, LapicStage
  <2>4. /\ pic["slave"].masked = 255 /\ pic["master"].masked = 255
        /\ DOMAIN pic = {"master", "slave"} /\ isr = {}
    BY <1>1 DEF RouteInv, PicStage, Pics
  <2>. QED
    BY <2>2, <2>3, <2>4
<1>3. ASSUME NEW l \in Lines
      PROVE  EntryOf(l) = IF l = 1 THEN 33 ELSE IF l = 14 THEN 46 ELSE 65568 + l
  BY <1>1 DEF EntryOf, Lines
<1>4. APIC_IRQ_KBD = 1 /\ APIC_IRQ_IDE = 14 /\ APIC_IRQ_TMR = 0 /\ APIC_REMAP_START = 32
      /\ 1 \in Lines /\ 14 \in Lines
  BY DEF APIC_IRQ_KBD, APIC_IRQ_IDE, APIC_IRQ_TMR, APIC_REMAP_START, Lines
<1>5. ASSUME NEW l \in Lines PROVE PassesOn(l) <=> l \in {1, 14}
  <2>1. Masked(Low(l)) <=> l \notin {1, 14}
    BY <1>2, <1>3, Meaning
  <2>. QED
    BY <1>2, <2>1 DEF PassesOn
<1>6. Line(Vector(Low(1))) = 1 /\ Line(Vector(Low(14))) = 14
  <2>1. Low(1) = 33 /\ Low(14) = 46
    BY <1>2, <1>3, <1>4
  <2>. QED
    BY <1>4, <2>1, Meaning DEF Line
<1>7. Line(Vector(lapic.timer)) = 0 /\ Periodic(lapic.timer) /\ ~Masked(lapic.timer)
  BY <1>2, <1>4, Meaning DEF Line
<1>. QED
  BY <1>2, <1>4, <1>5, <1>6, <1>7 DEF Routed

(* Once the controllers are programmed, exactly the lines with a driver reach
   the CPU, as the interrupts that apic_handle_irq takes for theirs, and every
   interrupt that is handled is told to be over: for every id of the local
   APIC, and after each of the 118 writes of apic_init and whatever devices do
   meanwhile. *)
THEOREM InterruptsAreRouted == Spec => []Routed
<1>1. Init => TypeInv /\ RouteInv
  BY TypeInit, RouteInit
<1>2. TypeInv /\ RouteInv /\ [Next]_vars => TypeInv' /\ RouteInv'
  BY TypeStep, RouteStep DEF TypeInv
<1>. QED
  BY <1>1, <1>2, RouteEnd, PTL DEF Spec
=============================================================================
