-------------------------------- MODULE Kbd ---------------------------------
(***************************************************************************)
(* The keyboard of src/apic.c, from the key to the program: the interrupt  *)
(* controllers of Apic, the handler that collects keys in kbd_buf, and     *)
(* kbd_get_str, which system call SYS_READ runs with interrupts enabled.   *)
(* A key may arrive between any two steps of a reader, and so may another  *)
(* reader, since every interrupt is a task switch.                         *)
(*                                                                         *)
(* The n-th key pressed stands for the character n, so that no two are     *)
(* alike.                                                                  *)
(* kbd_buf_sz is not volatile; the loads and stores are taken in the       *)
(* source's order.                                                         *)
(***************************************************************************)
EXTENDS Apic

CONSTANTS BufSize,  \* cells of kbd_buf: 0x200 in the source
          MaxKeys,  \* bound: keys pressed or released in one behaviour
          Readers   \* tasks that call read

ASSUME KbdAssumption == BufSize \in Nat \ {0} /\ MaxKeys \in Nat

NUL == 0
Char == 0 .. MaxKeys
Cells == 0 .. BufSize - 1
Sizes == 0 .. MaxKeys

(* Scan codes: of a key with a character, of one without, of return, and of a
   modifier or a key that is released. *)
Silent == MaxKeys + 2
Enter == MaxKeys + 1
Codes == Char \cup {Enter, Silent}
Empty == -1

VARIABLES
    port,       \* the byte that the keyboard has at port 0x60, or Empty
    pressed,    \* scan codes so far
    kbd_buf, kbd_buf_sz, kbd_done,  \* the globals of apic.c
    pc,         \* where each reader is in kbd_get_str
    n,          \* its local: the bytes it is going to copy
    str,        \* what it has copied so far
    lines,      \* ghost: the lines typed, each with its terminator
    line,       \* ghost: the keys of the line being typed
    delivered,  \* ghost: what the calls of read have returned
    mishap      \* ghost: the unsafe things that have happened so far

buffer == <<kbd_buf, kbd_buf_sz, kbd_done>>
reader == <<pc, n, str>>
ghosts == <<lines, line, delivered>>
keyboard == <<port, pressed>>
vars == <<controllers, keyboard, buffer, reader, ghosts, mishap>>

(* Between the load of kbd_buf_sz and the return of kbd_get_str. *)
Reading == {r \in Readers : pc[r] \in {"size", "done", "copy"}}

(* A key may have been pressed before the kernel runs. *)
Init ==
    /\ InitControllers
    /\ port \in {Empty, Silent}
    /\ pressed = 0
    /\ kbd_buf = [i \in Cells |-> NUL]
    /\ kbd_buf_sz = 0
    /\ kbd_done = FALSE
    /\ pc = [r \in Readers |-> "user"]
    /\ n = [r \in Readers |-> 0]
    /\ str = [r \in Readers |-> <<>>]
    /\ lines = <<>>
    /\ line = <<>>
    /\ delivered = <<>>
    /\ mishap = IF port = Empty THEN {} ELSE {"early"}

-----------------------------------------------------------------------------
(* The keyboard, which waits until its last byte has been read.            *)

(* A byte for which there is no interrupt stays, and keeps others out. *)
Press(code) ==
    /\ port = Empty /\ pressed < MaxKeys
    /\ port' = code /\ pressed' = pressed + 1
    /\ irr' = irr \cup Requested(APIC_IRQ_KBD)
    /\ mishap' = mishap \cup (IF PassesOn(APIC_IRQ_KBD) THEN {} ELSE {"early"})
    /\ lines' = IF code = Enter THEN Append(lines, Append(line, NUL)) ELSE lines
    /\ line' = CASE code = Enter -> <<>>
                 [] code = Silent -> line
                 [] OTHER -> Append(line, code)
    /\ UNCHANGED <<boot, pic, lapic, ioregsel, ioapic, isr, buffer, reader, delivered>>

-----------------------------------------------------------------------------
(* The handlers, which run with interrupts disabled.                       *)

(* A key comes while the previous line has not been picked up, or while
   somebody picks it up, or with the buffer full. *)
KeyMishap == (IF kbd_done /\ Reading = {} THEN {"ahead"} ELSE {})
             \cup (IF Reading # {} THEN {"reading"} ELSE {})
             \cup (IF kbd_buf_sz >= BufSize THEN {"overflow"} ELSE {})

(* kbd_buf[kbd_buf_sz++] = ch.  Past the end of kbd_buf the store hits
   whatever is there, kbd_buf_sz and kbd_done included. *)
Store(ch, done) ==
    /\ mishap' = mishap \cup KeyMishap
    /\ IF kbd_buf_sz < BufSize
         THEN /\ kbd_buf' = [kbd_buf EXCEPT ![kbd_buf_sz] = ch]
              /\ kbd_buf_sz' = kbd_buf_sz + 1
              /\ kbd_done' = done
         ELSE /\ kbd_buf_sz' \in Sizes
              /\ kbd_done' \in BOOLEAN
              /\ UNCHANGED kbd_buf

(* Mutant of HandleReturn: the terminator is not counted. *)
HandleReturn_uncounted ==
    /\ kbd_buf_sz < BufSize
    /\ mishap' = mishap \cup KeyMishap
    /\ kbd_buf' = [kbd_buf EXCEPT ![kbd_buf_sz] = NUL]
    /\ kbd_done' = TRUE
    /\ UNCHANGED kbd_buf_sz

HandleReturn == Store(NUL, TRUE)

(* Mutant of HandleKey: the scan code is stored. *)
HandleKey_scancode == Store(port + MaxKeys, kbd_done)

(* A key without a character is 0 in kbd_US. *)
HandleKey == Store(port, kbd_done)

(* inb(0x60) takes the byte.  Nothing reads the flags that modifiers set. *)
apic_handle_kbd ==
    /\ port' = Empty
    /\ CASE port = Enter -> HandleReturn
         [] port \in Char -> HandleKey
         [] OTHER -> UNCHANGED <<buffer, mishap>>
    /\ UNCHANGED pressed

(* Interrupts are on when apic_init is over and a task runs.  The timer's
   handler counts ticks that nothing reads; for the disk's see Ide. *)
Interrupt(irq) ==
    /\ Booted
    /\ \E v \in irr : Offered(v) /\ Line(v) = irq /\ Handled(v)
    /\ IF irq = APIC_IRQ_KBD THEN apic_handle_kbd
                              ELSE UNCHANGED <<keyboard, buffer, mishap>>
    /\ UNCHANGED <<reader, ghosts>>

-----------------------------------------------------------------------------
(* kbd_get_str.                                                            *)

At(r, point) == pc[r] = point
Goto(r, point) == pc' = [pc EXCEPT ![r] = point]

Read(r) == /\ Booted /\ At(r, "user")
           /\ Goto(r, "wait")
           /\ UNCHANGED <<controllers, keyboard, buffer, n, str, ghosts, mishap>>

Spin(r) == /\ At(r, "wait")
           /\ ~kbd_done
           /\ UNCHANGED vars

Awake(r) == /\ At(r, "wait")
            /\ kbd_done
            /\ Goto(r, "load")
            /\ UNCHANGED <<controllers, keyboard, buffer, n, str, ghosts, mishap>>

(* n = kbd_buf_sz *)
LoadSize(r) ==
    /\ At(r, "load")
    /\ n' = [n EXCEPT ![r] = kbd_buf_sz]
    /\ str' = [str EXCEPT ![r] = <<>>]
    /\ Goto(r, "size")
    /\ mishap' = mishap \cup (IF ~kbd_done \/ Reading # {} THEN {"readers"}
                                                          ELSE {})
    /\ UNCHANGED <<controllers, keyboard, buffer, ghosts>>

(* kbd_done = kbd_buf_sz = 0 *)
ClearSize(r) ==
    /\ At(r, "size")
    /\ kbd_buf_sz' = 0
    /\ Goto(r, "done")
    /\ UNCHANGED <<controllers, keyboard, kbd_buf, kbd_done, n, str, ghosts, mishap>>

ClearDone(r) ==
    /\ At(r, "done")
    /\ kbd_done' = FALSE
    /\ Goto(r, "copy")
    /\ UNCHANGED <<controllers, keyboard, kbd_buf, kbd_buf_sz, n, str, ghosts, mishap>>

(* One byte of memcpy(str, kbd_buf, n). *)
CopyByte(r) ==
    /\ At(r, "copy")
    /\ Len(str[r]) < n[r]
    /\ \E ch \in IF Len(str[r]) < BufSize THEN {kbd_buf[Len(str[r])]}
                                          ELSE {NUL} :  \* what follows it
          str' = [str EXCEPT ![r] = Append(@, ch)]
    /\ UNCHANGED <<controllers, keyboard, buffer, pc, n, ghosts, mishap>>

ReadReturn(r) ==
    /\ At(r, "copy")
    /\ Len(str[r]) = n[r]
    /\ delivered' = Append(delivered, str[r])
    /\ str' = [str EXCEPT ![r] = <<>>]
    /\ n' = [n EXCEPT ![r] = 0]
    /\ Goto(r, "user")
    /\ UNCHANGED <<controllers, keyboard, buffer, lines, line, mishap>>

kbd_get_str(r) == \/ Spin(r) \/ Awake(r) \/ LoadSize(r) \/ ClearSize(r)
                  \/ ClearDone(r) \/ CopyByte(r) \/ ReadReturn(r)

(* Bound: timer and disk do nothing while an interrupt is on its way. *)
OtherDevice == /\ irr = {}
               /\ TimerExpires \/ DiskInterrupt
               /\ UNCHANGED <<keyboard, buffer, reader, ghosts, mishap>>

Boot == BootWrite /\ UNCHANGED <<keyboard, buffer, reader, ghosts, mishap>>

Next == \/ Boot
        \/ \E code \in {pressed + 1, NUL, Enter, Silent} : Press(code)
        \/ OtherDevice
        \/ \E irq \in Lines : Interrupt(irq)
        \/ \E r \in Readers : Read(r) \/ kbd_get_str(r)

Spec == Init /\ [][Next]_vars

(* The kernel boots, and the scheduler serves every task, so a reader gets on,
   and tasks run with interrupts enabled.  An interrupt of the disk goes before
   one of the keyboard, but takes the disk some time. *)
FairSpec == /\ Spec
            /\ WF_vars(Boot)
            /\ \A irq \in {APIC_IRQ_TMR, APIC_IRQ_KBD, APIC_IRQ_IDE} :
                  SF_vars(Interrupt(irq))
            /\ \A r \in Readers : WF_vars(kbd_get_str(r))

-----------------------------------------------------------------------------
(* The type invariant of the keyboard's and the controllers' state. *)
TypeOK ==
    /\ ControllersOK
    /\ port \in Codes \cup {Empty} /\ pressed \in 0 .. MaxKeys
    /\ kbd_buf \in [Cells -> Char]
    /\ kbd_buf_sz \in Sizes
    /\ kbd_done \in BOOLEAN
    /\ pc \in [Readers -> {"user", "wait", "load", "size", "done", "copy"}]
    /\ n \in [Readers -> Sizes]
    /\ str \in [Readers -> Seq(Char)]
    /\ lines \in Seq(Seq(Char))
    /\ line \in Seq(Char)
    /\ delivered \in Seq(Seq(Char))
    /\ mishap \subseteq {"early", "ahead", "reading", "readers", "overflow"}

Without(mishaps) == mishap \cap mishaps = {}

BufferPrefix(k) == [i \in 1 .. k |-> kbd_buf[i - 1]]

(* Keys taken out of the buffer by a read that has not returned. *)
InFlight == IF \E r \in Readers : pc[r] \in {"done", "copy"}
              THEN BufferPrefix(n[CHOOSE r \in Readers :
                                      pc[r] \in {"done", "copy"}])
              ELSE <<>>

OnItsWay == CASE port = Enter -> <<NUL>>
              [] port \in Char -> <<port>>
              [] OTHER -> <<>>

(* Every key typed is delivered once, in order: what the calls of read have
   returned, what one of them is copying, what is in the buffer and what the
   handler has not seen yet make up what was typed.  Unless a key arrives while
   a read empties the buffer, two reads run into each other, or the buffer is
   full.  If in addition no key is typed ahead of the reader, each read returns
   one line, the oldest that has not been read. *)
NoKeyLost ==
    /\ Without({"reading", "readers", "overflow"}) =>
          FlattenSeq(delivered) \o InFlight \o BufferPrefix(kbd_buf_sz) \o OnItsWay
              = FlattenSeq(lines) \o line
    /\ mishap = {} => IsPrefix(delivered, lines)

(* As long as somebody reads and a line has been typed that has not been
   delivered, another one will be; unless a key was pressed before there was an
   interrupt for it, after which there is none any more. *)
LineArrives ==
    [](mishap = {}) =>
        \A k \in 0 .. MaxKeys :
            (/\ Len(delivered) = k /\ Len(lines) > k
             /\ \E r \in Readers : pc[r] # "user")
                ~> Len(delivered) > k
=============================================================================
