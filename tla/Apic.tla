-------------------------------- MODULE Apic --------------------------------
(***************************************************************************)
(* The interrupt controllers as src/apic.c programs them: the two 8259s    *)
(* that it turns off, the local APIC and the I/O APIC.  apic_init is the   *)
(* sequence of its writes, with interrupts off; devices do not wait for    *)
(* it.  What the controllers make of the writes is modelled from how       *)
(* apic.c uses them and the manuals it names.                              *)
(***************************************************************************)
EXTENDS Integers, FiniteSets, SequencesExt

CONSTANT LapicId    \* of the one CPU

ASSUME ApicAssumption == LapicId \in 0 .. 15

APIC_REMAP_START == 32
APIC_REMAP_END == APIC_REMAP_START + 16
APIC_IRQ_TMR == 0
APIC_IRQ_KBD == 1
APIC_IRQ_IDE == 14
IOAPIC_DISABLE == 2 ^ 16
APIC_TMR_INTERRUPT == APIC_REMAP_START + APIC_IRQ_TMR
IdShift == 2 ^ 24

Lines == 0 .. 23
Line(v) == v - APIC_REMAP_START

VARIABLES
    boot,       \* how many of the writes of apic_init have been made
    pic,        \* of each 8259: vectors from, lines masked, writes expected
    lapic,      \* the local APIC: enabled in hardware, in software, its timer
    ioregsel, ioapic,       \* the I/O APIC: selected register, registers
    irr, isr                \* vectors requested, and being handled

controllers == <<boot, pic, lapic, ioregsel, ioapic, irr, isr>>

-----------------------------------------------------------------------------
(* src/apic.c. *)

Write(to, val) == <<[to |-> to, val |-> val]>>

ioapic_write(offset, val) == Write("ioregsel", offset) \o Write("iowin", val)

(* Mutant of ioapic_redirect: the entries are taken for one register each. *)
ioapic_redirect_narrow(from, to, flags) ==
    ioapic_write(16 + from, to + flags) \o ioapic_write(16 + from + 1, LapicId * IdShift)

ioapic_redirect(from, to, flags) ==
    ioapic_write(16 + 2 * from, to + flags)
    \o ioapic_write(16 + 2 * from + 1, LapicId * IdShift)

ioapic_init == FlattenSeq([i \in 1 .. Cardinality(Lines) |->
                   ioapic_redirect(i - 1, APIC_REMAP_START + i - 1, IOAPIC_DISABLE)])

(* The divisor is left out. *)
lapic_timer_enable == Write("APIC_TMR_INIT_REG", 1000000000)
                      \o Write("APIC_LVT_TMR_REG", 2 ^ 17 + APIC_TMR_INTERRUPT)

lapic_init == Write("IA32_APIC_BASE", 2 ^ 11) \o Write("APIC_SPUR_REG", 2 ^ 8)
              \o lapic_timer_enable

DisablePic ==
    Write("PIC_M_CMD", 17) \o Write("PIC_S_CMD", 17)
    \o Write("PIC_M_DATA", 32) \o Write("PIC_S_DATA", 40)
    \o Write("PIC_M_DATA", 4) \o Write("PIC_S_DATA", 2)
    \o Write("PIC_M_DATA", 1) \o Write("PIC_S_DATA", 1)
    \o Write("PIC_S_DATA", 255) \o Write("PIC_M_DATA", 255)

apic_init ==
    DisablePic \o lapic_init \o ioapic_init
    \o ioapic_redirect(APIC_IRQ_KBD, APIC_REMAP_START + APIC_IRQ_KBD, 0)
    \o ioapic_redirect(APIC_IRQ_IDE, APIC_REMAP_START + APIC_IRQ_IDE, 0)

(* Mutant of apic_eoi: the register is not written. *)
apic_eoi_not(handled) == handled

(* What is left in service after the write to APIC_EOI_REG. *)
apic_eoi(handled) == handled \ {v \in handled : \A w \in handled : w <= v}

-----------------------------------------------------------------------------
(* The 8259s: a command starts four writes, the command among them, that set
   the first vector; after them, a write of data sets the mask. *)
PicCommand(chip, val) == [pic EXCEPT ![chip].expected = IF val = 17 THEN 3 ELSE @]
PicData(chip, val) ==
    [pic EXCEPT ![chip] =
        CASE @.expected = 3 -> [@ EXCEPT !.expected = 2, !.from = val]
          [] @.expected \in {1, 2} -> [@ EXCEPT !.expected = @ - 1]
          [] @.expected = 0 -> [@ EXCEPT !.masked = val]]

Low(line) == ioapic[16 + 2 * line]
High(line) == ioapic[16 + 2 * line + 1]
Vector(entry) == entry % 256
Masked(entry) == (entry \div IOAPIC_DISABLE) % 2 = 1
Periodic(entry) == (entry \div 2 ^ 17) % 2 = 1

(* Every entry is masked at reset, and so is the timer. *)
InitControllers ==
    /\ boot = 0
    /\ pic = [chip \in {"master", "slave"} |-> [from |-> 8, masked |-> 0, expected |-> 0]]
    /\ lapic = [hw |-> FALSE, sw |-> FALSE, count |-> 0, timer |-> IOAPIC_DISABLE]
    /\ ioregsel = 0
    /\ ioapic = [r \in 16 .. 63 |-> IF r % 2 = 0 THEN IOAPIC_DISABLE ELSE 0]
    /\ irr = {} /\ isr = {}

Booted == boot = Len(apic_init)

(* One write of apic_init. *)
BootWrite ==
    /\ ~Booted
    /\ boot' = boot + 1
    /\ LET to == apic_init[boot'].to
           val == apic_init[boot'].val
       IN  /\ pic' = CASE to = "PIC_M_CMD" -> PicCommand("master", val)
                       [] to = "PIC_S_CMD" -> PicCommand("slave", val)
                       [] to = "PIC_M_DATA" -> PicData("master", val)
                       [] to = "PIC_S_DATA" -> PicData("slave", val)
                       [] OTHER -> pic
           /\ lapic' = CASE to = "IA32_APIC_BASE" -> [lapic EXCEPT !.hw = TRUE]
                         [] to = "APIC_SPUR_REG" -> [lapic EXCEPT !.sw = TRUE]
                         [] to = "APIC_TMR_INIT_REG" -> [lapic EXCEPT !.count = val]
                         [] to = "APIC_LVT_TMR_REG" -> [lapic EXCEPT !.timer = val]
                         [] OTHER -> lapic
           /\ ioregsel' = IF to = "ioregsel" THEN val ELSE ioregsel
           /\ ioapic' = IF to = "iowin" THEN [ioapic EXCEPT ![ioregsel] = val] ELSE ioapic
    /\ UNCHANGED <<irr, isr>>

(* An interrupt that nobody passes on is lost: entries are for edges. *)
PassesOn(line) == /\ lapic.hw /\ lapic.sw
                  /\ ~Masked(Low(line)) /\ High(line) = LapicId * IdShift
Requested(line) == IF PassesOn(line) THEN {Vector(Low(line))} ELSE {}

TimerExpires ==
    /\ lapic.hw /\ lapic.sw /\ lapic.count > 0 /\ ~Masked(lapic.timer)
    /\ irr' = irr \cup {Vector(lapic.timer)}
    /\ UNCHANGED <<boot, pic, lapic, ioregsel, ioapic, isr>>

DiskInterrupt ==
    /\ irr' = irr \cup Requested(APIC_IRQ_IDE)
    /\ UNCHANGED <<boot, pic, lapic, ioregsel, ioapic, isr>>

(* The local APIC offers the highest vector, unless one as high in multiples of
   16 is still being handled; apic_handle_irq ends with apic_eoi.  Interrupts
   are off from the one to the other. *)
Offered(v) == /\ v \in irr /\ \A w \in irr : w <= v
              /\ \A w \in isr : w \div 16 < v \div 16
Handled(v) == /\ irr' = irr \ {v}
              /\ isr' = IF v \in APIC_REMAP_START .. APIC_REMAP_END - 1
                          THEN apic_eoi(isr \cup {v}) ELSE isr \cup {v}
              /\ UNCHANGED <<boot, pic, lapic, ioregsel, ioapic>>

-----------------------------------------------------------------------------
ControllersOK ==
    /\ boot \in 0 .. Len(apic_init)
    /\ DOMAIN pic = {"master", "slave"}
    /\ ioregsel \in 0 .. 63 /\ DOMAIN ioapic = 16 .. 63
    /\ irr \subseteq 0 .. 255 /\ isr \subseteq 0 .. 255

(* Once the controllers are programmed, the lines that have a driver reach the
   CPU as the interrupts that apic_handle_irq takes for theirs, no other line
   reaches it, from the 8259s least of all, which nobody would tell that their
   interrupt is over; the timer goes on for ever; and no interrupt that has
   been handled keeps others of its class away. *)
Routed ==
    Booted =>
        /\ \A l \in Lines : PassesOn(l) <=> l \in {APIC_IRQ_KBD, APIC_IRQ_IDE}
        /\ \A l \in {APIC_IRQ_KBD, APIC_IRQ_IDE} : Line(Vector(Low(l))) = l
        /\ \A chip \in DOMAIN pic : pic[chip].masked = 255
        /\ Line(Vector(lapic.timer)) = APIC_IRQ_TMR
        /\ Periodic(lapic.timer) /\ ~Masked(lapic.timer)
        /\ isr = {}
=============================================================================
