------------------------------ MODULE Console -------------------------------
(***************************************************************************)
(* Output: kprintf of src/kprintf.c, which sends each character to where   *)
(* the global outf points, and vga_putchar of src/vga.c, which keeps the   *)
(* cursor in two more globals.  System calls print with interrupts         *)
(* enabled; between any two of their steps a key may be echoed, the        *)
(* handler of a fault may write to the serial port, and another task may   *)
(* be dispatched that prints itself.                                       *)
(*                                                                         *)
(* Once vga_putchar has loaded row and col, each later use of them takes   *)
(* the value loaded or the current one, as the compiler sees fit; with -O2 *)
(* gcc keeps both in registers.  What kprintf makes of a format is any     *)
(* sequence of characters.                                                 *)
(***************************************************************************)
EXTENDS Naturals, FiniteSets

CONSTANTS VGA_WIDTH, VGA_HEIGHT,    \* 80 and 25 in the source
          Tab,                      \* distance of tab stops: 4
          Graphic,                  \* characters from ' ' on
          Other,                    \* the remaining ones, which do nothing
          Blank,                    \* ' '
          Tasks,
          MaxPuts                   \* bound: characters of one behaviour

Control == {"newline", "return", "back", "tab"}   \* \n, \r, \b and \t

ASSUME ConsoleAssumption ==
    /\ {VGA_WIDTH, VGA_HEIGHT, Tab} \subseteq Nat \ {0}
    /\ Tab < VGA_WIDTH
    /\ MaxPuts \in Nat
    /\ (Graphic \cup Other) \cap Control = {}
    /\ Graphic \cap Other = {}
    /\ Blank \in Graphic

Char == Graphic \cup Other \cup Control
Cells == 0 .. VGA_WIDTH * VGA_HEIGHT - 1
Devices == {"vga", "com"}

VARIABLES
    outf,           \* kprintf's output function
    VGA_PTR,        \* the cells of the screen
    row, col,       \* the cursor
    pc,             \* where each task is
    dev, ch,        \* arguments of its kprintf and vga_putchar
    mine,           \* row and col as its vga_putchar knows them
    puts,           \* characters printed so far, for the bound
    stray,          \* ghost: a character has gone to the other device
    mishap          \* ghost: the unsafe things that have happened so far

cursor == <<row, col>>
vars == <<outf, VGA_PTR, cursor, pc, dev, ch, mine, puts, stray, mishap>>

Home == [row |-> 0, col |-> 0]

(* After vga_init.  Locals of functions that do not run are Blank and Home. *)
Init ==
    /\ outf = "com"
    /\ VGA_PTR = [i \in Cells |-> Blank]
    /\ row = 0 /\ col = 0
    /\ pc = [t \in Tasks |-> "user"]
    /\ dev = [t \in Tasks |-> "com"]
    /\ ch = [t \in Tasks |-> Blank]
    /\ mine = [t \in Tasks |-> Home]
    /\ puts = 0
    /\ stray = FALSE
    /\ mishap = {}

Printing(t) == pc[t] # "user"
InPutchar == {t \in Tasks : pc[t] \in {"putchar", "wrap", "edge"}}

-----------------------------------------------------------------------------
(* kprintf. *)

(* A call on one device starts while one on the other is under way. *)
Redirects(d) ==
    IF \E t \in Tasks : Printing(t) /\ dev[t] # d THEN {"other"} ELSE {}

(* Mutant of Kprintf: the function is not set back to the serial port. *)
Kprintf_sticky(t, d) ==
    /\ ~Printing(t)
    /\ outf' = IF d = "vga" THEN d ELSE outf
    /\ pc' = [pc EXCEPT ![t] = "kprintf"]
    /\ dev' = [dev EXCEPT ![t] = d]
    /\ mishap' = mishap \cup Redirects(d)
    /\ UNCHANGED <<VGA_PTR, cursor, ch, mine, puts, stray>>

Kprintf(t, d) ==
    /\ ~Printing(t)
    /\ outf' = d
    /\ pc' = [pc EXCEPT ![t] = "kprintf"]
    /\ dev' = [dev EXCEPT ![t] = d]
    /\ mishap' = mishap \cup Redirects(d)
    /\ UNCHANGED <<VGA_PTR, cursor, ch, mine, puts, stray>>

(* The handlers of faults and of the disk print with interrupts disabled. *)
LogInHandler ==
    /\ outf' = "com"
    /\ mishap' = mishap \cup Redirects("com")
    /\ UNCHANGED <<VGA_PTR, cursor, pc, dev, ch, mine, puts, stray>>

ToSerial(t) ==
    /\ pc[t] = "kprintf" /\ outf = "com"
    /\ stray' = (stray \/ dev[t] # "com")
    /\ UNCHANGED <<outf, VGA_PTR, cursor, pc, dev, ch, mine, puts, mishap>>

(* outf(c) is vga_putchar(c), which loads the cursor. *)
ToScreen(t, c) ==
    /\ pc[t] = "kprintf" /\ outf = "vga"
    /\ puts < MaxPuts
    /\ puts' = puts + 1
    /\ stray' = (stray \/ dev[t] # "vga")
    /\ pc' = [pc EXCEPT ![t] = "putchar"]
    /\ ch' = [ch EXCEPT ![t] = c]
    /\ mine' = [mine EXCEPT ![t] = [row |-> row, col |-> col]]
    /\ mishap' = mishap \cup (IF InPutchar # {} THEN {"task"} ELSE {})
    /\ UNCHANGED <<outf, VGA_PTR, cursor, dev>>

KprintfReturn(t) ==
    /\ pc[t] = "kprintf"
    /\ pc' = [pc EXCEPT ![t] = "user"]
    /\ dev' = [dev EXCEPT ![t] = "com"]
    /\ UNCHANGED <<outf, VGA_PTR, cursor, ch, mine, puts, stray, mishap>>

-----------------------------------------------------------------------------
(* vga_putchar. *)

(* A cell below the screen is in video memory that is not shown. *)
Draw(cells, r, c, x) ==
    IF x \in Graphic /\ r * VGA_WIDTH + c \in Cells
      THEN [cells EXCEPT ![r * VGA_WIDTH + c] = x]
      ELSE cells

Column(c, x) == CASE x \in {"newline", "return"} -> 0
                  [] x = "back" -> c - 1
                  [] x = "tab" -> c + Tab - (c % Tab)
                  [] x \in Graphic -> c + 1

(* Mutant of MovesCol: a backspace in the first column is not ignored. *)
MovesCol_unguarded(c, x) == x \notin Other

MovesCol(c, x) == x \notin Other /\ ~(x = "back" /\ c = 0)

(* Mutant of scroll: the last line is not cleared. *)
scroll_keeps(cells) == [i \in Cells |-> IF i + VGA_WIDTH \in Cells
                                          THEN cells[i + VGA_WIDTH] ELSE cells[i]]

scroll(cells) == [i \in Cells |-> IF i + VGA_WIDTH \in Cells
                                    THEN cells[i + VGA_WIDTH] ELSE Blank]

(* A use of row or of col after the first. *)
Rows(t) == {mine[t].row, row}
Cols(t) == {mine[t].col, col}

(* The chain of tests on the character. *)
Advance(t) ==
    /\ pc[t] = "putchar"
    /\ VGA_PTR' = Draw(VGA_PTR, mine[t].row, mine[t].col, ch[t])
    /\ \E r \in Rows(t), c \in Cols(t) :
          LET newRow == IF ch[t] = "newline" THEN r + 1 ELSE r
              newCol == IF MovesCol(c, ch[t]) THEN Column(c, ch[t]) ELSE c
          IN  /\ row' = IF ch[t] = "newline" THEN newRow ELSE row
              /\ col' = IF MovesCol(c, ch[t]) THEN newCol ELSE col
              /\ mine' = [mine EXCEPT ![t] = [row |-> newRow, col |-> newCol]]
    /\ pc' = [pc EXCEPT ![t] = "wrap"]
    /\ UNCHANGED <<outf, dev, ch, puts, stray, mishap>>

(* if (col >= VGA_WIDTH) ... *)
Wrap(t) ==
    /\ pc[t] = "wrap"
    /\ \E r \in Rows(t), c \in Cols(t) :
          IF c >= VGA_WIDTH
            THEN /\ row' = r + 1 /\ col' = 0
                 /\ mine' = [mine EXCEPT ![t] = [row |-> r + 1, col |-> 0]]
            ELSE /\ mine' = [mine EXCEPT ![t] = [row |-> r, col |-> c]]
                 /\ UNCHANGED cursor
    /\ pc' = [pc EXCEPT ![t] = "edge"]
    /\ UNCHANGED <<outf, VGA_PTR, dev, ch, puts, stray, mishap>>

(* Mutant of Edge: the screen scrolls one line too late. *)
Edge_late(t) ==
    /\ pc[t] = "edge"
    /\ \E r \in Rows(t) :
          IF r > VGA_HEIGHT
            THEN /\ VGA_PTR' = scroll(VGA_PTR)
                 /\ row' = VGA_HEIGHT - 1 /\ col' = 0
            ELSE UNCHANGED <<VGA_PTR, cursor>>
    /\ pc' = [pc EXCEPT ![t] = "kprintf"]
    /\ ch' = [ch EXCEPT ![t] = Blank]
    /\ mine' = [mine EXCEPT ![t] = Home]
    /\ UNCHANGED <<outf, dev, puts, stray, mishap>>

(* if (row == VGA_HEIGHT) ..., which scroll tests once more. *)
Edge(t) ==
    /\ pc[t] = "edge"
    /\ \E r, again \in Rows(t) :
          IF r = VGA_HEIGHT
            THEN /\ VGA_PTR' = IF again = VGA_HEIGHT THEN scroll(VGA_PTR)
                                                     ELSE VGA_PTR
                 /\ row' = VGA_HEIGHT - 1 /\ col' = 0
            ELSE UNCHANGED <<VGA_PTR, cursor>>
    /\ pc' = [pc EXCEPT ![t] = "kprintf"]
    /\ ch' = [ch EXCEPT ![t] = Blank]
    /\ mine' = [mine EXCEPT ![t] = Home]
    /\ UNCHANGED <<outf, dev, puts, stray, mishap>>

-----------------------------------------------------------------------------
(* What is still to be done about a cursor that has left the screen. *)
SettledRow == IF col >= VGA_WIDTH THEN row + 1 ELSE row
Scrolls == SettledRow = VGA_HEIGHT
SettledCol == IF col >= VGA_WIDTH \/ Scrolls THEN 0 ELSE col

(* apic_handle_kbd echoes any key but return, with interrupts disabled: the
   whole of vga_putchar is one step. *)
Echo(x) ==
    /\ x # "newline"
    /\ puts < MaxPuts
    /\ puts' = puts + 1
    /\ LET c == IF MovesCol(col, x) THEN Column(col, x) ELSE col
           r == IF c >= VGA_WIDTH THEN row + 1 ELSE row
           drawn == Draw(VGA_PTR, row, col, x)
       IN  /\ VGA_PTR' = IF r = VGA_HEIGHT THEN scroll(drawn) ELSE drawn
           /\ row' = IF r = VGA_HEIGHT THEN VGA_HEIGHT - 1 ELSE r
           /\ col' = IF c >= VGA_WIDTH \/ r = VGA_HEIGHT THEN 0 ELSE c
    /\ mishap' = mishap \cup (IF InPutchar # {} THEN {"key"} ELSE {})
    /\ UNCHANGED <<outf, pc, dev, ch, mine, stray>>

Next ==
    \/ \E t \in Tasks :
          \/ \E d \in Devices : Kprintf(t, d)
          \/ \E c \in Char : ToScreen(t, c)
          \/ ToSerial(t) \/ KprintfReturn(t)
          \/ Advance(t) \/ Wrap(t) \/ Edge(t)
    \/ LogInHandler
    \/ \E c \in Char : Echo(c)

Spec == Init /\ [][Next]_vars

-----------------------------------------------------------------------------
Without(mishaps) == mishap \cap mishaps = {}

(* The type invariant of the globals and of each task's part in them. *)
TypeOK ==
    /\ outf \in Devices
    /\ VGA_PTR \in [Cells -> Graphic]
    /\ row \in Nat /\ col \in Nat
    /\ pc \in [Tasks -> {"user", "kprintf", "putchar", "wrap", "edge"}]
    /\ dev \in [Tasks -> Devices]
    /\ ch \in [Tasks -> Char]
    /\ mine \in [Tasks -> [row : Nat, col : Nat]]
    /\ puts \in 0 .. MaxPuts
    /\ stray \in BOOLEAN
    /\ mishap \subseteq {"other", "task", "key"}

(* Whenever nobody is in the middle of vga_putchar, the cursor is on the
   screen, however many keys were echoed into the middle of one: scrolling
   tests row for equality, so a row beyond the height would never come back
   and each further line would be written further beyond video memory.  Two
   tasks that print can get it there. *)
CursorOnScreen ==
    Without({"task"}) /\ InPutchar = {} => row < VGA_HEIGHT /\ col < VGA_WIDTH

(* What is printed to the screen or to the serial port goes there and nowhere
   else, whoever else prints, unless somebody prints to the other device in
   the middle of it: outf is one global for all. *)
OwnDevice == Without({"other"}) => ~stray

(* The cells as lines of the screen. *)
Shown(cells) == [r \in 0 .. VGA_HEIGHT - 1 |->
                   [c \in 0 .. VGA_WIDTH - 1 |-> cells[r * VGA_WIDTH + c]]]

Terminal == INSTANCE Terminal
    WITH Width <- VGA_WIDTH, Height <- VGA_HEIGHT,
         row <- IF Scrolls THEN VGA_HEIGHT - 1 ELSE SettledRow,
         col <- SettledCol,
         lines <- Shown(IF Scrolls THEN scroll(VGA_PTR) ELSE VGA_PTR)

(* The screen shows what a terminal shows of the same characters, in whatever
   order tasks and keys came to print them, as long as vga_putchar is not
   interrupted by itself. *)
ShowsTheText ==
    /\ Terminal!Init
    /\ [][Without({"task", "key"})' =>
             (Terminal!Next \/ UNCHANGED Terminal!vars)]_vars
=============================================================================
