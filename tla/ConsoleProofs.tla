--------------------------- MODULE ConsoleProofs ---------------------------
(***************************************************************************)
(* Proofs about the screen, for every size of it, every set of tasks and   *)
(* every alphabet that Console's assumptions admit; and, from Least on,    *)
(* about what Library computes, for words, bytes and memories of any size. *)
(***************************************************************************)
EXTENDS Console, Library, Sequences, WellFoundedInduction, TLAPS

(* The assumptions one by one. *)
LEMMA Parameters ==
    /\ VGA_WIDTH \in Nat /\ VGA_WIDTH > 0
    /\ VGA_HEIGHT \in Nat /\ VGA_HEIGHT > 0
    /\ Tab \in Nat /\ Tab > 0 /\ Tab < VGA_WIDTH
    /\ MaxPuts \in Nat
    /\ (Graphic \cup Other) \cap Control = {}
    /\ Graphic \cap Other = {}
    /\ Blank \in Graphic
BY ConsoleAssumption

(* A character that moves the cursor leaves it in a column, at most a tab to
   the right; from the first column, or to the first column, it stays on the
   line. *)
LEMMA ColumnMoves ==
    ASSUME NEW c \in Nat, NEW x \in Char, MovesCol(c, x)
    PROVE  /\ Column(c, x) \in Nat
           /\ x = "newline" => Column(c, x) = 0
           /\ c = 0 => Column(c, x) < VGA_WIDTH
<1>1. c % Tab \in 0 .. Tab - 1
  BY Parameters
<1>2. 0 % Tab = 0
  BY Parameters
<1>3. CASE x \in Control
  BY <1>1, <1>2, <1>3, Parameters DEF Control, MovesCol, Column
<1>4. CASE x \in Graphic
  <2>1. x \notin Control
    BY <1>4, Parameters
  <2>2. Column(c, x) = c + 1
    BY <1>4, <2>1 DEF Column, Control
  <2>. QED
    BY <2>1, <2>2, Parameters DEF Control
<1>5. x \notin Other
  BY DEF MovesCol
<1>. QED
  BY <1>3, <1>4, <1>5 DEF Char

(* Drawing and scrolling leave pictures in all cells. *)
LEMMA ScreenTypes ==
    ASSUME NEW cells \in [Cells -> Graphic]
    PROVE  /\ scroll(cells) \in [Cells -> Graphic]
           /\ \A r, c : \A x \in Char : Draw(cells, r, c, x) \in [Cells -> Graphic]
BY Parameters DEF scroll, Draw

(* A step moves every global and every task's part to a value of its type. *)
LEMMA TypeInductive == TypeOK /\ [Next]_vars => TypeOK'
<1>. SUFFICES ASSUME TypeOK, [Next]_vars PROVE TypeOK'
  OBVIOUS
<1>. USE DEF TypeOK
<1>1. ASSUME NEW t \in Tasks, NEW d \in Devices, Kprintf(t, d) PROVE TypeOK'
  BY <1>1 DEF Kprintf, Redirects, cursor
<1>2. ASSUME NEW t \in Tasks, NEW c \in Char, ToScreen(t, c) PROVE TypeOK'
  BY <1>2, Parameters DEF ToScreen, cursor
<1>3. ASSUME NEW t \in Tasks, ToSerial(t) PROVE TypeOK'
  BY <1>3 DEF ToSerial, cursor
<1>4. ASSUME NEW t \in Tasks, KprintfReturn(t) PROVE TypeOK'
  BY <1>4 DEF KprintfReturn, Devices, cursor
<1>5. ASSUME NEW t \in Tasks, Advance(t) PROVE TypeOK'
  <2>1. PICK r \in Rows(t), c \in Cols(t) :
          LET newRow == IF ch[t] = "newline" THEN r + 1 ELSE r
              newCol == IF MovesCol(c, ch[t]) THEN Column(c, ch[t]) ELSE c
          IN  /\ row' = IF ch[t] = "newline" THEN newRow ELSE row
              /\ col' = IF MovesCol(c, ch[t]) THEN newCol ELSE col
              /\ mine' = [mine EXCEPT ![t] = [row |-> newRow, col |-> newCol]]
    BY <1>5 DEF Advance
  <2>2. r \in Nat /\ c \in Nat /\ ch[t] \in Char
    BY DEF Rows, Cols
  <2>3. MovesCol(c, ch[t]) => Column(c, ch[t]) \in Nat
    BY <2>2, ColumnMoves
  <2>4. row' \in Nat /\ col' \in Nat /\ mine' \in [Tasks -> [row : Nat, col : Nat]]
    BY <2>1, <2>2, <2>3
  <2>5. VGA_PTR' \in [Cells -> Graphic]
    BY <1>5, <2>2, ScreenTypes DEF Advance
  <2>. QED
    BY <1>5, <2>4, <2>5 DEF Advance
<1>6. ASSUME NEW t \in Tasks, Wrap(t) PROVE TypeOK'
  BY <1>6 DEF Wrap, Rows, Cols, cursor
<1>7. ASSUME NEW t \in Tasks, Edge(t) PROVE TypeOK'
  <2>1. VGA_PTR' \in [Cells -> Graphic] /\ row' \in Nat /\ col' \in Nat
    BY <1>7, ScreenTypes, Parameters DEF Edge, cursor
  <2>2. mine' \in [Tasks -> [row : Nat, col : Nat]] /\ ch' \in [Tasks -> Char]
    BY <1>7, Parameters DEF Edge, Home, Char
  <2>. QED
    BY <1>7, <2>1, <2>2 DEF Edge
<1>8. ASSUME LogInHandler PROVE TypeOK'
  BY <1>8 DEF LogInHandler, Redirects, Devices, cursor
<1>9. ASSUME NEW x \in Char, Echo(x) PROVE TypeOK'
  <2>1. MovesCol(col, x) => Column(col, x) \in Nat
    BY ColumnMoves
  <2>2. row' \in Nat /\ col' \in Nat
    BY <1>9, <2>1, Parameters DEF Echo
  <2>3. VGA_PTR' \in [Cells -> Graphic]
    BY <1>9, ScreenTypes DEF Echo
  <2>4. puts' \in 0 .. MaxPuts
    BY <1>9, Parameters DEF Echo
  <2>. QED
    BY <1>9, <2>2, <2>3, <2>4 DEF Echo
<1>10. CASE UNCHANGED vars
  BY <1>10 DEF vars, cursor
<1>. QED
  BY <1>1, <1>2, <1>3, <1>4, <1>5, <1>6, <1>7, <1>8, <1>9, <1>10 DEF Next

(* The type invariant of the globals and of each task's part in them
   (kprintf.c, vga.c). *)
THEOREM TypeCorrect == Spec => []TypeOK
<1>1. ASSUME Init PROVE TypeOK
  <2>1. VGA_PTR \in [Cells -> Graphic] /\ ch \in [Tasks -> Char]
    BY <1>1, Parameters DEF Init, Char
  <2>2. mine \in [Tasks -> [row : Nat, col : Nat]] /\ row \in Nat /\ col \in Nat
    BY <1>1 DEF Init, Home
  <2>3. puts \in 0 .. MaxPuts
    BY <1>1, Parameters DEF Init
  <2>. QED
    BY <1>1, <2>1, <2>2, <2>3 DEF Init, TypeOK, Devices
<1>. QED
  BY <1>1, TypeInductive, PTL DEF Spec
-----------------------------------------------------------------------------
(* Only one vga_putchar is under way. *)
OneAtATime == \A t, u \in InPutchar : t = u

OnScreen == row < VGA_HEIGHT /\ col < VGA_WIDTH

(* What t's vga_putchar finds in the cursor and what it knows of it: when it
   starts, after the chain of tests, and after the test of the column.  Keys
   may have moved the cursor in the meantime, but once the row is the one below
   the last, either it still is or the key has scrolled, and what t knows of
   the row, or of the column it has left, says so. *)
Fresh(t) == OnScreen /\ mine[t].row < VGA_HEIGHT /\ mine[t].col < VGA_WIDTH
Drawn(t) ==
    /\ row <= VGA_HEIGHT /\ mine[t].row <= VGA_HEIGHT
    /\ row = VGA_HEIGHT => col = 0 /\ mine[t].row = VGA_HEIGHT
    /\ mine[t].row = VGA_HEIGHT => mine[t].col = 0 /\ col < VGA_WIDTH
    /\ col >= VGA_WIDTH => mine[t].col = col
Wrapped(t) == /\ row <= VGA_HEIGHT /\ col < VGA_WIDTH
              /\ row = VGA_HEIGHT => col = 0 /\ mine[t].row = VGA_HEIGHT

InStep(t) == /\ pc[t] = "putchar" => Fresh(t)
             /\ pc[t] = "wrap" => Drawn(t)
             /\ pc[t] = "edge" => Wrapped(t)

ScreenInv ==
    Without({"task"}) => /\ OneAtATime
                         /\ InPutchar = {} => OnScreen
                         /\ \A t \in Tasks : InStep(t)

(* A cursor on the screen, or at the start of the line below, is on the screen
   after any key. *)
LEMMA EchoStaysOnScreen ==
    ASSUME TypeOK, NEW x \in Char, Echo(x),
           row <= VGA_HEIGHT, row = VGA_HEIGHT => col = 0
    PROVE  OnScreen'
<1>. DEFINE c == IF MovesCol(col, x) THEN Column(col, x) ELSE col
            r == IF c >= VGA_WIDTH THEN row + 1 ELSE row
<1>1. row \in Nat /\ col \in Nat
  BY DEF TypeOK
<1>2. c \in Nat /\ (col = 0 => c < VGA_WIDTH)
  BY <1>1, ColumnMoves, Parameters
<1>3. r \in Nat /\ r <= VGA_HEIGHT
  BY <1>1, <1>2, Parameters
<1>4. /\ row' = IF r = VGA_HEIGHT THEN VGA_HEIGHT - 1 ELSE r
      /\ col' = IF c >= VGA_WIDTH \/ r = VGA_HEIGHT THEN 0 ELSE c
  BY DEF Echo
<1>. HIDE DEF c, r
<1>. QED
  BY <1>2, <1>3, <1>4, Parameters DEF OnScreen

(* Keys echoed into the middle of vga_putchar never leave the cursor where its
   remaining tests would miss it. *)
LEMMA ScreenInductive == TypeOK /\ ScreenInv /\ [Next]_vars => ScreenInv'
<1>. SUFFICES ASSUME TypeOK, ScreenInv, [Next]_vars, Without({"task"})'
              PROVE  /\ OneAtATime'
                     /\ InPutchar' = {} => OnScreen'
                     /\ \A t \in Tasks : InStep(t)'
  BY DEF ScreenInv
<1>. DEFINE Goal == /\ OneAtATime'
                    /\ InPutchar' = {} => OnScreen'
                    /\ \A t \in Tasks : InStep(t)'
<1>m. Without({"task"})
  BY DEF Next, Without, vars, Kprintf, ToScreen, ToSerial, KprintfReturn,
         Advance, Wrap, Edge, LogInHandler, Echo
<1>i. OneAtATime /\ (InPutchar = {} => OnScreen) /\ \A t \in Tasks : InStep(t)
  BY <1>m DEF ScreenInv
<1>t. /\ row \in Nat /\ col \in Nat
      /\ pc \in [Tasks -> {"user", "kprintf", "putchar", "wrap", "edge"}]
      /\ mine \in [Tasks -> [row : Nat, col : Nat]] /\ ch \in [Tasks -> Char]
  BY DEF TypeOK
<1>s. ASSUME InPutchar' = InPutchar, UNCHANGED <<cursor, mine>>,
             \A t \in InPutchar : pc'[t] = pc[t]
      PROVE  Goal
  BY <1>i, <1>s, <1>t
  DEF OneAtATime, OnScreen, InStep, Fresh, Drawn, Wrapped, InPutchar, cursor
<1>1. ASSUME NEW t \in Tasks, NEW d \in Devices, Kprintf(t, d) PROVE Goal
  BY <1>1, <1>s, <1>t DEF Kprintf, InPutchar, Printing
<1>2. ASSUME NEW t \in Tasks, NEW c \in Char, ToScreen(t, c) PROVE Goal
  <2>1. InPutchar = {}
    BY <1>2 DEF ToScreen, Without
  <2>2. /\ pc' = [pc EXCEPT ![t] = "putchar"] /\ InPutchar' = {t}
        /\ mine'[t].row = row /\ mine'[t].col = col
        /\ row' = row /\ col' = col
    BY <1>2, <1>t, <2>1 DEF ToScreen, InPutchar, cursor
  <2>3. Fresh(t)'
    BY <1>i, <2>1, <2>2 DEF Fresh, OnScreen
  <2>. QED
    BY <1>i, <1>t, <2>1, <2>2, <2>3 DEF OneAtATime, InStep, InPutchar
<1>3. ASSUME NEW t \in Tasks, ToSerial(t) PROVE Goal
  BY <1>3, <1>s DEF ToSerial, InPutchar
<1>4. ASSUME NEW t \in Tasks, KprintfReturn(t) PROVE Goal
  BY <1>4, <1>s, <1>t DEF KprintfReturn, InPutchar
<1>5. ASSUME NEW t \in Tasks, Advance(t) PROVE Goal
  <2>1. InPutchar = {t} /\ InPutchar' = {t} /\ pc' = [pc EXCEPT ![t] = "wrap"]
    BY <1>5, <1>i, <1>t DEF Advance, InPutchar, OneAtATime
  <2>2. PICK r \in Rows(t), c \in Cols(t) :
          LET newRow == IF ch[t] = "newline" THEN r + 1 ELSE r
              newCol == IF MovesCol(c, ch[t]) THEN Column(c, ch[t]) ELSE c
          IN  /\ row' = IF ch[t] = "newline" THEN newRow ELSE row
              /\ col' = IF MovesCol(c, ch[t]) THEN newCol ELSE col
              /\ mine' = [mine EXCEPT ![t] = [row |-> newRow, col |-> newCol]]
    BY <1>5 DEF Advance
  <2>3. Fresh(t)
    BY <1>i, <1>5 DEF InStep, Advance
  <2>4. /\ r \in Nat /\ c \in Nat /\ r < VGA_HEIGHT /\ c < VGA_WIDTH
        /\ row < VGA_HEIGHT /\ col < VGA_WIDTH
    BY <1>t, <2>3 DEF Rows, Cols, Fresh, OnScreen
  <2>5. ch[t] = "newline" => MovesCol(c, ch[t]) /\ Column(c, ch[t]) = 0
    <3>1. ch[t] = "newline" => MovesCol(c, ch[t])
      BY Parameters DEF MovesCol, Control
    <3>. QED
      BY <1>t, <2>4, <3>1, ColumnMoves
  <2>6. Drawn(t)'
    <3>1. CASE ch[t] = "newline"
      BY <1>t, <2>2, <2>4, <2>5, <3>1, Parameters DEF Drawn
    <3>2. CASE ch[t] # "newline"
      <4>1. /\ row' = row /\ mine'[t].row = r
            /\ IF MovesCol(c, ch[t])
                 THEN col' = Column(c, ch[t]) /\ mine'[t].col = Column(c, ch[t])
                 ELSE col' = col /\ mine'[t].col = c
        BY <1>t, <2>2, <3>2
      <4>. QED
        BY <1>t, <2>4, <4>1, Parameters DEF Drawn
    <3>. QED
      BY <3>1, <3>2
  <2>. QED
    BY <1>i, <1>t, <2>1, <2>6 DEF OneAtATime, InStep, InPutchar
<1>6. ASSUME NEW t \in Tasks, Wrap(t) PROVE Goal
  <2>1. InPutchar = {t} /\ InPutchar' = {t} /\ pc' = [pc EXCEPT ![t] = "edge"]
    BY <1>6, <1>i, <1>t DEF Wrap, InPutchar, OneAtATime
  <2>2. Drawn(t)
    BY <1>i, <1>6 DEF InStep, Wrap
  <2>3. PICK r \in Rows(t), c \in Cols(t) :
          IF c >= VGA_WIDTH
            THEN /\ row' = r + 1 /\ col' = 0
                 /\ mine' = [mine EXCEPT ![t] = [row |-> r + 1, col |-> 0]]
            ELSE /\ mine' = [mine EXCEPT ![t] = [row |-> r, col |-> c]]
                 /\ row' = row /\ col' = col
    BY <1>6 DEF Wrap, cursor
  <2>4. r \in Nat /\ c \in Nat
    BY <1>t DEF Rows, Cols
  <2>5. Wrapped(t)'
    <3>1. CASE c >= VGA_WIDTH
      <4>1. row' = r + 1 /\ col' = 0 /\ mine'[t].row = r + 1
        BY <1>t, <2>3, <3>1
      <4>2. r < VGA_HEIGHT
        BY <1>t, <2>2, <2>4, <3>1, Parameters DEF Drawn, Rows, Cols
      <4>. QED
        BY <2>4, <4>1, <4>2, Parameters DEF Wrapped
    <3>2. CASE ~(c >= VGA_WIDTH)
      <4>1. row' = row /\ col' = col /\ mine'[t].row = r
        BY <1>t, <2>3, <3>2
      <4>2. row = VGA_HEIGHT => r = VGA_HEIGHT
        BY <2>2 DEF Drawn, Rows
      <4>3. col < VGA_WIDTH
        BY <1>t, <2>2, <2>4, <3>2, Parameters DEF Drawn, Cols
      <4>. QED
        BY <2>2, <4>1, <4>2, <4>3 DEF Drawn, Wrapped
    <3>. QED
      BY <3>1, <3>2
  <2>. QED
    BY <1>i, <1>t, <2>1, <2>5 DEF OneAtATime, InStep, InPutchar
<1>7. ASSUME NEW t \in Tasks, Edge(t) PROVE Goal
  <2>1. InPutchar = {t} /\ InPutchar' = {} /\ pc' = [pc EXCEPT ![t] = "kprintf"]
    BY <1>7, <1>i, <1>t DEF Edge, InPutchar, OneAtATime
  <2>2. Wrapped(t)
    BY <1>i, <1>7 DEF InStep, Edge
  <2>3. OnScreen'
    BY <1>7, <1>t, <2>2, Parameters DEF Edge, Wrapped, OnScreen, Rows, cursor
  <2>. QED
    BY <1>t, <2>1, <2>3 DEF OneAtATime, InStep, InPutchar
<1>8. ASSUME LogInHandler PROVE Goal
  BY <1>8, <1>s DEF LogInHandler, InPutchar
<1>9. ASSUME NEW x \in Char, Echo(x) PROVE Goal
  <2>1. UNCHANGED <<pc, mine>> /\ InPutchar' = InPutchar
    BY <1>9 DEF Echo, InPutchar
  <2>2. row <= VGA_HEIGHT /\ (row = VGA_HEIGHT => col = 0)
    <3>1. CASE InPutchar = {}
      BY <1>i, <1>t, <3>1, Parameters DEF OnScreen
    <3>2. ASSUME NEW t \in InPutchar PROVE <2>2!1 /\ <2>2!2
      BY <1>i, <1>t, <3>2, Parameters
      DEF InPutchar, InStep, Fresh, Drawn, Wrapped, OnScreen
    <3>. QED
      BY <3>1, <3>2
  <2>3. OnScreen'
    BY <1>9, <2>2, EchoStaysOnScreen
  <2>4. row' \in Nat /\ col' \in Nat
    BY TypeInductive DEF TypeOK
  <2>5. ASSUME NEW t \in Tasks PROVE InStep(t)'
    <3>1. InStep(t)
      BY <1>i
    <3>. QED
      BY <1>t, <2>1, <2>3, <2>4, <3>1, Parameters
      DEF InStep, Fresh, Drawn, Wrapped, OnScreen
  <2>. QED
    BY <1>i, <2>1, <2>3, <2>5 DEF OneAtATime
<1>10. CASE UNCHANGED vars
  BY <1>10, <1>s DEF vars, InPutchar
<1>. QED
  BY <1>1, <1>2, <1>3, <1>4, <1>5, <1>6, <1>7, <1>8, <1>9, <1>10 DEF Next

(* Whenever nobody is inside vga_putchar the cursor is on the screen, however
   many keys were echoed into the middle of one (vga.c, apic.c). *)
THEOREM CursorStaysOnScreen == Spec => []CursorOnScreen
<1>1. Init => ScreenInv
  BY Parameters DEF Init, ScreenInv, OneAtATime, InPutchar, OnScreen, InStep
<1>2. ScreenInv => CursorOnScreen
  BY DEF ScreenInv, CursorOnScreen, OnScreen
<1>. QED
  BY <1>1, <1>2, ScreenInductive, TypeCorrect, PTL DEF Spec
-----------------------------------------------------------------------------
(* Everybody who prints does so to the device that outf is set to. *)
DeviceInv ==
    Without({"other"}) => /\ ~stray
                          /\ \A t \in Tasks : Printing(t) => dev[t] = outf

LEMMA DeviceInductive == TypeOK /\ DeviceInv /\ [Next]_vars => DeviceInv'
<1>. SUFFICES ASSUME TypeOK, DeviceInv, [Next]_vars, Without({"other"})'
              PROVE  ~stray' /\ \A t \in Tasks : Printing(t)' => dev'[t] = outf'
  BY DEF DeviceInv
<1>. DEFINE Goal == ~stray' /\ \A t \in Tasks : Printing(t)' => dev'[t] = outf'
<1>m. Without({"other"})
  BY DEF Next, Without, vars, Kprintf, ToScreen, ToSerial, KprintfReturn,
         Advance, Wrap, Edge, LogInHandler, Echo
<1>i. ~stray /\ \A t \in Tasks : Printing(t) => dev[t] = outf
  BY <1>m DEF DeviceInv
<1>t. /\ dev \in [Tasks -> Devices]
      /\ pc \in [Tasks -> {"user", "kprintf", "putchar", "wrap", "edge"}]
  BY DEF TypeOK
<1>s. ASSUME UNCHANGED <<outf, dev, stray>>,
             \A t \in Tasks : Printing(t)' => Printing(t)
      PROVE  Goal
  BY <1>i, <1>s
<1>1. ASSUME NEW t \in Tasks, NEW d \in Devices, Kprintf(t, d) PROVE Goal
  <2>1. \A u \in Tasks : Printing(u) => dev[u] = d
    BY <1>1 DEF Kprintf, Redirects, Without
  <2>. QED
    BY <1>1, <1>i, <1>t, <2>1 DEF Kprintf, Printing
<1>2. ASSUME NEW t \in Tasks, NEW c \in Char, ToScreen(t, c) PROVE Goal
  <2>1. dev[t] = "vga"
    BY <1>2, <1>i DEF ToScreen, Printing
  <2>. QED
    BY <1>2, <1>i, <1>t, <2>1 DEF ToScreen, Printing
<1>3. ASSUME NEW t \in Tasks, ToSerial(t) PROVE Goal
  <2>1. dev[t] = "com"
    BY <1>3, <1>i DEF ToSerial, Printing
  <2>. QED
    BY <1>3, <1>i, <2>1 DEF ToSerial, Printing
<1>4. ASSUME NEW t \in Tasks, KprintfReturn(t) PROVE Goal
  BY <1>4, <1>i, <1>t DEF KprintfReturn, Printing
<1>5. ASSUME NEW t \in Tasks, Advance(t) \/ Wrap(t) \/ Edge(t) PROVE Goal
  BY <1>5, <1>s, <1>t DEF Advance, Wrap, Edge, Printing
<1>6. ASSUME LogInHandler PROVE Goal
  <2>1. \A u \in Tasks : Printing(u) => dev[u] = "com"
    BY <1>6 DEF LogInHandler, Redirects, Without
  <2>. QED
    BY <1>6, <1>i, <2>1 DEF LogInHandler, Printing
<1>7. ASSUME NEW x \in Char, Echo(x) PROVE Goal
  BY <1>7, <1>s DEF Echo, Printing
<1>8. CASE UNCHANGED vars
  BY <1>8, <1>s DEF vars, Printing
<1>. QED
  BY <1>1, <1>2, <1>3, <1>4, <1>5, <1>6, <1>7, <1>8 DEF Next

(* What is printed to a device goes there, unless somebody prints to the other
   one in the middle of it (kprintf.c's outf). *)
THEOREM DevicesAreOwn == Spec => []OwnDevice
<1>1. Init => DeviceInv
  BY DEF Init, DeviceInv, Printing
<1>2. DeviceInv => OwnDevice
  BY DEF DeviceInv, OwnDevice
<1>. QED
  BY <1>1, <1>2, DeviceInductive, TypeCorrect, PTL DEF Spec

-----------------------------------------------------------------------------
(* A vga_putchar that nothing has interrupted knows the cursor. *)
FreshInv ==
    Without({"task", "key"}) =>
        \A t \in InPutchar : mine[t].row = row /\ mine[t].col = col

LEMMA FreshInductive ==
    TypeOK /\ ScreenInv /\ FreshInv /\ [Next]_vars => FreshInv'
<1>. SUFFICES ASSUME TypeOK, ScreenInv, FreshInv, [Next]_vars,
                     Without({"task", "key"})', NEW u \in InPutchar'
              PROVE  mine'[u].row = row' /\ mine'[u].col = col'
  BY DEF FreshInv
<1>. DEFINE Goal == mine'[u].row = row' /\ mine'[u].col = col'
<1>m. Without({"task", "key"})
  BY DEF Next, Without, vars, Kprintf, ToScreen, ToSerial, KprintfReturn,
         Advance, Wrap, Edge, LogInHandler, Echo
<1>i. \A t \in InPutchar : mine[t].row = row /\ mine[t].col = col
  BY <1>m DEF FreshInv
<1>o. OneAtATime
  BY <1>m DEF ScreenInv, Without
<1>t. /\ mine \in [Tasks -> [row : Nat, col : Nat]]
      /\ pc \in [Tasks -> {"user", "kprintf", "putchar", "wrap", "edge"}]
      /\ u \in Tasks
  BY DEF TypeOK, InPutchar
<1>s. ASSUME u \in InPutchar, UNCHANGED <<cursor, mine>> PROVE Goal
  BY <1>i, <1>s DEF cursor
<1>1. ASSUME NEW t \in Tasks, NEW d \in Devices, Kprintf(t, d) PROVE Goal
  BY <1>1, <1>s, <1>t DEF Kprintf, InPutchar
<1>2. ASSUME NEW t \in Tasks, NEW c \in Char, ToScreen(t, c) PROVE Goal
  <2>1. InPutchar = {}
    BY <1>2 DEF ToScreen, Without
  <2>2. u = t
    BY <1>2, <1>t, <2>1 DEF ToScreen, InPutchar
  <2>. QED
    BY <1>2, <1>t, <2>2 DEF ToScreen, cursor
<1>3. ASSUME NEW t \in Tasks, ToSerial(t) PROVE Goal
  BY <1>3, <1>s DEF ToSerial, InPutchar
<1>4. ASSUME NEW t \in Tasks, KprintfReturn(t) PROVE Goal
  BY <1>4, <1>s, <1>t DEF KprintfReturn, InPutchar
<1>5. ASSUME NEW t \in Tasks, Advance(t) PROVE Goal
  <2>1. u = t /\ t \in InPutchar
    BY <1>5, <1>o, <1>t DEF Advance, InPutchar, OneAtATime
  <2>2. Rows(t) = {row} /\ Cols(t) = {col}
    BY <1>i, <2>1 DEF Rows, Cols
  <2>. QED
    BY <1>5, <1>t, <2>1, <2>2 DEF Advance
<1>6. ASSUME NEW t \in Tasks, Wrap(t) PROVE Goal
  <2>1. u = t /\ t \in InPutchar
    BY <1>6, <1>o, <1>t DEF Wrap, InPutchar, OneAtATime
  <2>2. Rows(t) = {row} /\ Cols(t) = {col}
    BY <1>i, <2>1 DEF Rows, Cols
  <2>. QED
    BY <1>6, <1>t, <2>1, <2>2 DEF Wrap, cursor
<1>7. ASSUME NEW t \in Tasks, Edge(t) PROVE FALSE
  BY <1>7, <1>o, <1>t DEF Edge, InPutchar, OneAtATime
<1>8. ASSUME LogInHandler PROVE Goal
  BY <1>8, <1>s DEF LogInHandler, InPutchar
<1>9. ASSUME NEW x \in Char, Echo(x) PROVE FALSE
  BY <1>9 DEF Echo, Without, InPutchar
<1>10. CASE UNCHANGED vars
  BY <1>10, <1>s DEF vars, InPutchar
<1>. QED
  BY <1>1, <1>2, <1>3, <1>4, <1>5, <1>6, <1>7, <1>8, <1>9, <1>10 DEF Next
-----------------------------------------------------------------------------
(* The cells are numbered line by line. *)
LEMMA CellNumbers ==
    ASSUME NEW r \in 0 .. VGA_HEIGHT - 1, NEW c \in 0 .. VGA_WIDTH - 1
    PROVE  /\ r * VGA_WIDTH + c \in Cells
           /\ (r + 1) * VGA_WIDTH + c = r * VGA_WIDTH + c + VGA_WIDTH
           /\ r * VGA_WIDTH + c + VGA_WIDTH \in Cells <=> r + 1 < VGA_HEIGHT
           /\ \A s \in 0 .. VGA_HEIGHT - 1, d \in 0 .. VGA_WIDTH - 1 :
                 r * VGA_WIDTH + c = s * VGA_WIDTH + d => r = s /\ c = d
<1>w. /\ VGA_WIDTH \in Nat /\ VGA_HEIGHT \in Nat /\ VGA_WIDTH > 0
      /\ VGA_HEIGHT > 0 /\ r \in Nat /\ c \in Nat
      /\ r <= VGA_HEIGHT - 1 /\ c <= VGA_WIDTH - 1
  BY Parameters
<1>1. (r + 1) * VGA_WIDTH = r * VGA_WIDTH + VGA_WIDTH
  BY <1>w
<1>2. \A m, n \in Nat : m < n => m * VGA_WIDTH + VGA_WIDTH <= n * VGA_WIDTH
  <2>. SUFFICES ASSUME NEW m \in Nat, NEW n \in Nat, m < n
                PROVE  m * VGA_WIDTH + VGA_WIDTH <= n * VGA_WIDTH
    OBVIOUS
  <2>1. PICK k \in Nat : n = m + 1 + k
    <3>1. n - m - 1 \in Nat /\ n = m + 1 + (n - m - 1)
      OBVIOUS
    <3>. QED
      BY <3>1
  <2>2. n * VGA_WIDTH = m * VGA_WIDTH + VGA_WIDTH + k * VGA_WIDTH
    BY <1>w, <2>1
  <2>3. k * VGA_WIDTH \in Nat /\ m * VGA_WIDTH \in Nat
    BY <1>w
  <2>. QED
    BY <1>w, <2>2, <2>3
<1>3. r * VGA_WIDTH \in Nat /\ VGA_WIDTH * VGA_HEIGHT = VGA_HEIGHT * VGA_WIDTH
      /\ VGA_HEIGHT * VGA_WIDTH \in Nat
  BY <1>w
<1>4. r * VGA_WIDTH + VGA_WIDTH <= VGA_HEIGHT * VGA_WIDTH
  BY <1>w, <1>2
<1>5. r * VGA_WIDTH + c \in Cells
  BY <1>w, <1>3, <1>4 DEF Cells
<1>6. r * VGA_WIDTH + c + VGA_WIDTH \in Cells <=> r + 1 < VGA_HEIGHT
  <2>1. CASE r + 1 < VGA_HEIGHT
    <3>1. (r + 1) * VGA_WIDTH + VGA_WIDTH <= VGA_HEIGHT * VGA_WIDTH
      BY <1>w, <1>2, <2>1
    <3>. QED
      BY <1>w, <1>1, <1>3, <2>1, <3>1 DEF Cells
  <2>2. CASE ~(r + 1 < VGA_HEIGHT)
    <3>1. r + 1 = VGA_HEIGHT
      BY <1>w, <2>2
    <3>. QED
      BY <1>w, <1>1, <1>3, <2>2, <3>1 DEF Cells
  <2>. QED
    BY <2>1, <2>2
<1>7. ASSUME NEW s \in 0 .. VGA_HEIGHT - 1, NEW d \in 0 .. VGA_WIDTH - 1,
             r * VGA_WIDTH + c = s * VGA_WIDTH + d
      PROVE  r = s /\ c = d
  <2>1. s \in Nat /\ d \in Nat /\ d <= VGA_WIDTH - 1 /\ s * VGA_WIDTH \in Nat
    BY <1>w
  <2>2. ~(r < s) /\ ~(s < r)
    <3>1. r < s => r * VGA_WIDTH + VGA_WIDTH <= s * VGA_WIDTH
      BY <1>w, <1>2, <2>1
    <3>2. s < r => s * VGA_WIDTH + VGA_WIDTH <= r * VGA_WIDTH
      BY <1>w, <1>2, <2>1
    <3>. QED
      BY <1>w, <1>3, <1>7, <2>1, <3>1, <3>2
  <2>3. r = s
    BY <1>w, <2>1, <2>2
  <2>. QED
    BY <1>w, <1>3, <1>7, <2>1, <2>3
<1>. QED
  BY <1>w, <1>1, <1>3, <1>5, <1>6, <1>7

PutChar(text, r, c, x) == [text EXCEPT ![r][c] = x]

(* Drawing a character changes one column of one line. *)
LEMMA DrawShown ==
    ASSUME NEW cells \in [Cells -> Graphic], NEW x \in Graphic,
           NEW r \in 0 .. VGA_HEIGHT - 1, NEW c \in 0 .. VGA_WIDTH - 1
    PROVE  Shown(Draw(cells, r, c, x)) = PutChar(Shown(cells), r, c, x)
<1>1. ASSUME NEW s \in 0 .. VGA_HEIGHT - 1, NEW d \in 0 .. VGA_WIDTH - 1
      PROVE  Draw(cells, r, c, x)[s * VGA_WIDTH + d] =
                IF s = r /\ d = c THEN x ELSE cells[s * VGA_WIDTH + d]
  <2>1. r * VGA_WIDTH + c \in Cells /\ s * VGA_WIDTH + d \in Cells
    BY CellNumbers
  <2>2. s * VGA_WIDTH + d = r * VGA_WIDTH + c => s = r /\ d = c
    BY CellNumbers
  <2>. DEFINE i == r * VGA_WIDTH + c
              j == s * VGA_WIDTH + d
  <2>3. i \in Cells /\ j \in Cells /\ (i = j <=> s = r /\ d = c)
    BY <2>1, <2>2
  <2>4. Draw(cells, r, c, x) = [cells EXCEPT ![i] = x]
    BY <2>1 DEF Draw
  <2>. HIDE DEF i, j
  <2>5. [cells EXCEPT ![i] = x][j] = IF i = j THEN x ELSE cells[j]
    BY <2>3
  <2>6. Draw(cells, r, c, x)[j] = IF s = r /\ d = c THEN x ELSE cells[j]
    BY <2>3, <2>4, <2>5
  <2>. QED
    BY <2>6 DEF j
<1>2. Shown(Draw(cells, r, c, x)) =
        [s \in 0 .. VGA_HEIGHT - 1 |->
            [d \in 0 .. VGA_WIDTH - 1 |->
                IF s = r /\ d = c THEN x ELSE cells[s * VGA_WIDTH + d]]]
  BY <1>1, Zenon DEF Shown
<1>3. PutChar(Shown(cells), r, c, x) =
        [s \in 0 .. VGA_HEIGHT - 1 |->
            [d \in 0 .. VGA_WIDTH - 1 |->
                IF s = r /\ d = c THEN x ELSE cells[s * VGA_WIDTH + d]]]
  BY DEF Shown, PutChar
<1>. QED
  BY <1>2, <1>3

(* Scrolling moves the lines up and clears the last. *)
LEMMA ScrollShown ==
    ASSUME NEW cells \in [Cells -> Graphic]
    PROVE  Shown(scroll(cells)) =
              [r \in 0 .. VGA_HEIGHT - 1 |->
                  IF r + 1 < VGA_HEIGHT THEN Shown(cells)[r + 1]
                                        ELSE Terminal!BlankLine]
<1>1. ASSUME NEW r \in 0 .. VGA_HEIGHT - 1, NEW c \in 0 .. VGA_WIDTH - 1
      PROVE  scroll(cells)[r * VGA_WIDTH + c] =
                IF r + 1 < VGA_HEIGHT THEN cells[(r + 1) * VGA_WIDTH + c]
                                      ELSE Blank
  <2>. DEFINE i == r * VGA_WIDTH + c
  <2>1. /\ i \in Cells /\ (r + 1) * VGA_WIDTH + c = i + VGA_WIDTH
        /\ i + VGA_WIDTH \in Cells <=> r + 1 < VGA_HEIGHT
    BY CellNumbers
  <2>. HIDE DEF i
  <2>2. scroll(cells)[i] = IF i + VGA_WIDTH \in Cells THEN cells[i + VGA_WIDTH]
                                                      ELSE Blank
    BY <2>1, Zenon DEF scroll
  <2>3. scroll(cells)[i] =
            IF r + 1 < VGA_HEIGHT THEN cells[(r + 1) * VGA_WIDTH + c] ELSE Blank
    BY <2>1, <2>2, Zenon
  <2>. QED
    BY <2>3 DEF i
<1>2. ASSUME NEW r \in 0 .. VGA_HEIGHT - 1
      PROVE  [c \in 0 .. VGA_WIDTH - 1 |-> scroll(cells)[r * VGA_WIDTH + c]] =
                IF r + 1 < VGA_HEIGHT THEN Shown(cells)[r + 1]
                                      ELSE Terminal!BlankLine
  <2>1. CASE r + 1 < VGA_HEIGHT
    <3>1. r + 1 \in 0 .. VGA_HEIGHT - 1
      BY <2>1, Parameters
    <3>2. Shown(cells)[r + 1] =
            [c \in 0 .. VGA_WIDTH - 1 |-> cells[(r + 1) * VGA_WIDTH + c]]
      BY <3>1, Zenon DEF Shown
    <3>. QED
      BY <1>1, <2>1, <3>2, Zenon
  <2>2. CASE ~(r + 1 < VGA_HEIGHT)
    BY <1>1, <2>2, Zenon DEF Terminal!BlankLine
  <2>. QED
    BY <2>1, <2>2
<1>. QED
  BY <1>2, Zenon DEF Shown
(* The cursor after the character x at a cursor on the screen, before the
   tests for the end of the line and of the screen. *)
NextRow(x) == IF x = "newline" THEN row + 1 ELSE row
NextCol(x) == IF MovesCol(col, x) THEN Column(col, x) ELSE col
WrapRow(x) == IF NextCol(x) >= VGA_WIDTH THEN NextRow(x) + 1 ELSE NextRow(x)

ShownRow == IF Scrolls THEN VGA_HEIGHT - 1 ELSE SettledRow
ShownText == Shown(IF Scrolls THEN scroll(VGA_PTR) ELSE VGA_PTR)

(* A cursor on the screen is where the terminal's is. *)
LEMMA Settled ==
    ASSUME row \in Nat, col \in Nat, OnScreen
    PROVE  /\ ShownRow = row /\ SettledCol = col /\ ShownText = Shown(VGA_PTR)
           /\ row \in 0 .. VGA_HEIGHT - 1 /\ col \in 0 .. VGA_WIDTH - 1
<1>1. ~(col >= VGA_WIDTH) /\ row # VGA_HEIGHT
  BY Parameters DEF OnScreen
<1>2. SettledRow = row /\ ~Scrolls /\ SettledCol = col
  BY <1>1 DEF SettledRow, Scrolls, SettledCol
<1>. QED
  BY <1>2, Parameters DEF ShownRow, ShownText, OnScreen

(* A character drawn at a cursor on the screen, with what the tests for the
   end of the line and of the screen make of the cursor, is a character put on
   the terminal. *)
LEMMA PutStep ==
    ASSUME TypeOK, OnScreen, NEW x \in Char,
           ShownText' = Shown(IF WrapRow(x) = VGA_HEIGHT
                                THEN scroll(Draw(VGA_PTR, row, col, x))
                                ELSE Draw(VGA_PTR, row, col, x)),
           ShownRow' = IF WrapRow(x) = VGA_HEIGHT THEN VGA_HEIGHT - 1
                                                  ELSE WrapRow(x),
           SettledCol' = IF NextCol(x) >= VGA_WIDTH \/ WrapRow(x) = VGA_HEIGHT
                           THEN 0 ELSE NextCol(x)
    PROVE  Terminal!Put(x)
<1>. DEFINE drawn == Draw(VGA_PTR, row, col, x)
<1>1. row \in Nat /\ col \in Nat /\ VGA_PTR \in [Cells -> Graphic]
  BY DEF TypeOK
<1>2. /\ ShownRow = row /\ SettledCol = col /\ ShownText = Shown(VGA_PTR)
      /\ row \in 0 .. VGA_HEIGHT - 1 /\ col \in 0 .. VGA_WIDTH - 1
      /\ row < VGA_HEIGHT /\ col < VGA_WIDTH
  BY <1>1, Settled DEF OnScreen
<1>3. drawn \in [Cells -> Graphic]
  BY <1>1, ScreenTypes
<1>4. /\ x \in Graphic => x \notin Other /\ x \notin Control
      /\ x \in Control => x \notin Other /\ x \notin Graphic
  <2>1. (Graphic \cup Other) \cap Control = {} /\ Graphic \cap Other = {}
    BY Parameters
  <2>2. x \notin (Graphic \cup Other) \cap Control /\ x \notin Graphic \cap Other
    BY <2>1
  <2>. QED
    BY <2>2
<1>5. Shown(scroll(drawn)) =
        [r \in 0 .. VGA_HEIGHT - 1 |->
            IF r + 1 < VGA_HEIGHT THEN Shown(drawn)[r + 1] ELSE Terminal!BlankLine]
  BY <1>3, ScrollShown
<1>6. /\ x \in Graphic => Shown(drawn) = PutChar(Shown(VGA_PTR), row, col, x)
      /\ x \notin Graphic => Shown(drawn) = Shown(VGA_PTR)
  <2>1. ASSUME x \in Graphic
        PROVE  Shown(drawn) = PutChar(Shown(VGA_PTR), row, col, x)
    <3>1. /\ VGA_PTR \in [Cells -> Graphic] /\ x \in Graphic
          /\ row \in 0 .. VGA_HEIGHT - 1 /\ col \in 0 .. VGA_WIDTH - 1
      BY <1>1, <1>2, <2>1
    <3>. QED
      BY <3>1, DrawShown, Zenon
  <2>2. x \notin Graphic => drawn = VGA_PTR
    BY DEF Draw
  <2>. QED
    BY <2>1, <2>2, Zenon
<1>7. ASSUME WrapRow(x) = row + 1, SettledCol' = 0
      PROVE  Terminal!NextLine(Shown(drawn))
  <2>1. CASE row + 1 < VGA_HEIGHT
    <3>1. ShownRow' = row + 1 /\ ShownText' = Shown(drawn)
      BY <1>2, <1>7, <2>1, Parameters
    <3>. QED
      BY <1>2, <1>7, <2>1, <3>1 DEF Terminal!NextLine, ShownRow, ShownText
  <2>2. CASE ~(row + 1 < VGA_HEIGHT)
    <3>1. row + 1 = VGA_HEIGHT /\ row = VGA_HEIGHT - 1
      BY <1>2, <2>2, Parameters
    <3>2. ShownRow' = row /\ ShownText' = Shown(scroll(drawn))
      BY <1>7, <3>1
    <3>. QED
      BY <1>2, <1>5, <1>7, <2>2, <3>2
      DEF Terminal!NextLine, ShownRow, ShownText
  <2>. QED
    BY <2>1, <2>2
<1>8. ASSUME NextRow(x) = row, NextCol(x) \in Nat
      PROVE  Terminal!MoveTo(NextCol(x), Shown(drawn))
  <2>1. CASE NextCol(x) < VGA_WIDTH
    <3>1. WrapRow(x) = row /\ ~(NextCol(x) >= VGA_WIDTH) /\ row # VGA_HEIGHT
      BY <1>2, <1>8, <2>1, Parameters DEF WrapRow
    <3>2. ShownRow' = row /\ ShownText' = Shown(drawn) /\ SettledCol' = NextCol(x)
      BY <3>1
    <3>. QED
      BY <1>2, <2>1, <3>2 DEF Terminal!MoveTo, ShownRow, ShownText
  <2>2. CASE ~(NextCol(x) < VGA_WIDTH)
    <3>1. NextCol(x) >= VGA_WIDTH
      BY <1>8, <2>2, Parameters
    <3>2. WrapRow(x) = row + 1 /\ SettledCol' = 0
      BY <1>8, <3>1 DEF WrapRow
    <3>. QED
      BY <1>7, <2>2, <3>2 DEF Terminal!MoveTo
  <2>. QED
    BY <2>1, <2>2
<1>. HIDE DEF drawn
<1>9. CASE x \in Graphic
  <2>. DEFINE text == PutChar(Shown(VGA_PTR), row, col, x)
  <2>1. NextRow(x) = row /\ NextCol(x) = col + 1 /\ Shown(drawn) = text
    BY <1>4, <1>6, <1>9 DEF NextRow, NextCol, MovesCol, Column, Control
  <2>. HIDE DEF text
  <2>2. Terminal!MoveTo(col + 1, text)
    BY <1>1, <1>8, <2>1
  <2>. QED
    BY <1>2, <1>9, <2>2 DEF Terminal!Put, ShownRow, ShownText, text, PutChar
<1>10. CASE x = "newline"
  <2>1. x \notin Other /\ x \notin Graphic
    BY <1>4, <1>10 DEF Control
  <2>2. NextRow(x) = row + 1 /\ NextCol(x) = 0
    BY <1>10, <2>1 DEF NextRow, NextCol, MovesCol, Column
  <2>3. WrapRow(x) = row + 1 /\ SettledCol' = 0
    BY <2>2, Parameters DEF WrapRow
  <2>. QED
    BY <1>2, <1>6, <1>7, <1>10, <2>1, <2>3 DEF Terminal!Put, ShownText
<1>11. CASE x \in {"return", "back", "tab"}
  <2>1. x \notin Other /\ x \notin Graphic
    BY <1>4, <1>11 DEF Control
  <2>2. /\ NextRow(x) = row
        /\ x = "return" => NextCol(x) = 0
        /\ x = "back" => NextCol(x) = IF col = 0 THEN 0 ELSE col - 1
        /\ x = "tab" => NextCol(x) = col + Tab - (col % Tab)
    BY <1>11, <2>1 DEF NextRow, NextCol, MovesCol, Column
  <2>3. NextCol(x) \in Nat
    BY <1>1, ColumnMoves DEF NextCol
  <2>4. Terminal!MoveTo(NextCol(x), Shown(VGA_PTR))
    BY <1>6, <1>8, <2>1, <2>2, <2>3
  <2>5. /\ x = "return" => Terminal!MoveTo(0, Shown(VGA_PTR))
        /\ x = "back" => Terminal!MoveTo(IF col = 0 THEN 0 ELSE col - 1, Shown(VGA_PTR))
        /\ x = "tab" => Terminal!MoveTo(col + Tab - (col % Tab), Shown(VGA_PTR))
    BY <2>2, <2>4
  <2>. QED
    BY <1>2, <1>11, <2>5 DEF Terminal!Put, ShownText
<1>12. CASE x \in Other
  <2>1. x \notin Graphic /\ x \notin Control
    BY <1>4, <1>12
  <2>2. NextRow(x) = row /\ NextCol(x) = col
    BY <1>12, <2>1 DEF NextRow, NextCol, MovesCol, Control
  <2>3. WrapRow(x) = row /\ ~(NextCol(x) >= VGA_WIDTH) /\ row # VGA_HEIGHT
    BY <1>2, <2>2, Parameters DEF WrapRow
  <2>4. ShownRow' = row /\ SettledCol' = col /\ ShownText' = Shown(VGA_PTR)
    BY <1>6, <2>1, <2>2, <2>3 DEF drawn
  <2>. QED
    BY <1>2, <1>12, <2>4 DEF Terminal!Put, Terminal!vars, ShownRow, ShownText
<1>. QED
  BY <1>9, <1>10, <1>11, <1>12 DEF Char, Control
(* Every step of vga_putchar, and every key, that nothing interrupts is a step
   of the terminal or none. *)
LEMMA TerminalStep ==
    ASSUME TypeOK, TypeOK', ScreenInv, ScreenInv', FreshInv, [Next]_vars,
           Without({"task", "key"})'
    PROVE  Terminal!Next \/ UNCHANGED Terminal!vars
<1>. DEFINE Goal == Terminal!Next \/ UNCHANGED Terminal!vars
<1>m. Without({"task", "key"}) /\ Without({"task"}) /\ Without({"task"})'
  BY DEF Next, Without, vars, Kprintf, ToScreen, ToSerial, KprintfReturn,
         Advance, Wrap, Edge, LogInHandler, Echo
<1>i. /\ \A t \in InPutchar : mine[t].row = row /\ mine[t].col = col
      /\ InPutchar = {} => OnScreen
      /\ \A t \in Tasks : InStep(t)
  BY <1>m DEF FreshInv, ScreenInv
<1>t. /\ row \in Nat /\ col \in Nat /\ VGA_PTR \in [Cells -> Graphic]
      /\ row' \in Nat /\ col' \in Nat /\ VGA_PTR' \in [Cells -> Graphic]
      /\ mine \in [Tasks -> [row : Nat, col : Nat]] /\ ch \in [Tasks -> Char]
  BY DEF TypeOK
<1>s. ASSUME UNCHANGED <<VGA_PTR, row, col>> PROVE Goal
  BY <1>s DEF Terminal!vars, Scrolls, SettledRow, SettledCol
<1>p. ASSUME NEW x \in Char, Terminal!Put(x) PROVE Goal
  BY <1>p DEF Terminal!Next, Char, Control
<1>1. ASSUME NEW t \in Tasks, Advance(t) PROVE Goal
  <2>1. t \in InPutchar /\ Fresh(t) /\ ch[t] \in Char
    BY <1>1, <1>i, <1>t DEF Advance, InPutchar, InStep
  <2>. DEFINE x == ch[t]
  <2>2. /\ VGA_PTR' = Draw(VGA_PTR, row, col, x)
        /\ row' = NextRow(x) /\ col' = NextCol(x)
    BY <1>1, <1>i, <2>1 DEF Advance, Rows, Cols, NextRow, NextCol
  <2>3. SettledRow' = WrapRow(x) /\ (Scrolls' <=> WrapRow(x) = VGA_HEIGHT)
    BY <2>2 DEF SettledRow, WrapRow, Scrolls
  <2>. HIDE DEF x
  <2>4. Terminal!Put(x)
    <3>1. OnScreen /\ x \in Char
      BY <2>1 DEF Fresh, x
    <3>2. ShownText' = Shown(IF WrapRow(x) = VGA_HEIGHT
                                THEN scroll(Draw(VGA_PTR, row, col, x))
                                ELSE Draw(VGA_PTR, row, col, x))
      BY <2>2, <2>3 DEF ShownText
    <3>3. ShownRow' = IF WrapRow(x) = VGA_HEIGHT THEN VGA_HEIGHT - 1
                                                 ELSE WrapRow(x)
      BY <2>3 DEF ShownRow
    <3>4. SettledCol' = IF NextCol(x) >= VGA_WIDTH \/ WrapRow(x) = VGA_HEIGHT
                          THEN 0 ELSE NextCol(x)
      BY <2>2, <2>3 DEF SettledCol
    <3>. QED
      BY <3>1, <3>2, <3>3, <3>4, PutStep
  <2>. QED
    BY <1>p, <2>1, <2>4 DEF x
<1>2. ASSUME NEW t \in Tasks, Wrap(t) PROVE Goal
  <2>1. t \in InPutchar /\ mine[t].row = row /\ mine[t].col = col
    BY <1>2, <1>i DEF Wrap, InPutchar
  <2>2. CASE col >= VGA_WIDTH
    <3>1. row' = row + 1 /\ col' = 0 /\ VGA_PTR' = VGA_PTR
      BY <1>2, <2>1, <2>2 DEF Wrap, Rows, Cols
    <3>2. SettledRow' = row + 1 /\ SettledRow = row + 1
      BY <2>2, <3>1, Parameters DEF SettledRow
    <3>3. (Scrolls' <=> Scrolls) /\ SettledCol' = 0 /\ SettledCol = 0
      BY <2>2, <3>1, <3>2 DEF Scrolls, SettledCol
    <3>. QED
      BY <3>1, <3>2, <3>3 DEF Terminal!vars
  <2>3. CASE ~(col >= VGA_WIDTH)
    BY <1>2, <1>s, <2>1, <2>3 DEF Wrap, Rows, Cols, cursor
  <2>. QED
    BY <2>2, <2>3
<1>3. ASSUME NEW t \in Tasks, Edge(t) PROVE Goal
  <2>1. Rows(t) = {row} /\ Wrapped(t)
    BY <1>3, <1>i DEF Edge, InPutchar, Rows, InStep
  <2>2. CASE row = VGA_HEIGHT
    <3>1. /\ row' = VGA_HEIGHT - 1 /\ col' = 0 /\ VGA_PTR' = scroll(VGA_PTR)
          /\ col = 0
      BY <1>3, <2>1, <2>2 DEF Edge, Wrapped
    <3>2. Scrolls /\ SettledCol = 0
      BY <2>2, <3>1, Parameters DEF Scrolls, SettledRow, SettledCol
    <3>3. ~Scrolls' /\ SettledRow' = VGA_HEIGHT - 1 /\ SettledCol' = 0
      BY <3>1, Parameters DEF Scrolls, SettledRow, SettledCol
    <3>. QED
      BY <3>1, <3>2, <3>3 DEF Terminal!vars
  <2>3. CASE row # VGA_HEIGHT
    BY <1>3, <1>s, <2>1, <2>3 DEF Edge, cursor
  <2>. QED
    BY <2>2, <2>3
<1>4. ASSUME NEW x \in Char, Echo(x) PROVE Goal
  <2>1. InPutchar = {} /\ InPutchar' = {}
    BY <1>4 DEF Echo, Without, InPutchar
  <2>2. OnScreen /\ OnScreen'
    BY <1>i, <1>m, <2>1 DEF ScreenInv
  <2>3. NextRow(x) = row
    BY <1>4 DEF Echo, NextRow
  <2>4. /\ VGA_PTR' = IF WrapRow(x) = VGA_HEIGHT
                        THEN scroll(Draw(VGA_PTR, row, col, x))
                        ELSE Draw(VGA_PTR, row, col, x)
        /\ row' = IF WrapRow(x) = VGA_HEIGHT THEN VGA_HEIGHT - 1 ELSE WrapRow(x)
        /\ col' = IF NextCol(x) >= VGA_WIDTH \/ WrapRow(x) = VGA_HEIGHT
                    THEN 0 ELSE NextCol(x)
    BY <1>4, <2>3 DEF Echo, NextCol, WrapRow
  <2>5. ~(col' >= VGA_WIDTH) /\ row' # VGA_HEIGHT
    BY <1>t, <2>2, Parameters DEF OnScreen
  <2>6. SettledRow' = row' /\ ~Scrolls' /\ SettledCol' = col'
    BY <2>5 DEF SettledRow, Scrolls, SettledCol
  <2>7. ShownRow' = row' /\ SettledCol' = col' /\ ShownText' = Shown(VGA_PTR')
    BY <2>6 DEF ShownRow, ShownText, Shown
  <2>. QED
    BY <1>p, <2>2, <2>4, <2>7, PutStep
<1>5. ASSUME NEW t \in Tasks,
             \/ \E d \in Devices : Kprintf(t, d)
             \/ \E c \in Char : ToScreen(t, c)
             \/ ToSerial(t) \/ KprintfReturn(t)
      PROVE  Goal
  BY <1>5, <1>s DEF Kprintf, ToScreen, ToSerial, KprintfReturn, cursor
<1>6. CASE LogInHandler \/ UNCHANGED vars
  BY <1>6, <1>s DEF LogInHandler, vars, cursor
<1>. QED
  BY <1>1, <1>2, <1>3, <1>4, <1>5, <1>6 DEF Next

(* The screen shows what a terminal shows of the same characters, whoever
   printed them, as long as vga_putchar is not interrupted by itself (vga.c). *)
THEOREM ImplementsTerminal == Spec => ShowsTheText
<1>1. ASSUME Init PROVE ScreenInv /\ FreshInv /\ Terminal!Init
  <2>1. OnScreen /\ row \in Nat /\ col \in Nat
    BY <1>1, Parameters DEF Init, OnScreen
  <2>2. ShownRow = 0 /\ SettledCol = 0 /\ ShownText = Shown(VGA_PTR)
    BY <1>1, <2>1, Settled DEF Init
  <2>3. \A r \in 0 .. VGA_HEIGHT - 1, c \in 0 .. VGA_WIDTH - 1 :
            VGA_PTR[r * VGA_WIDTH + c] = Blank
    <3>1. \A i \in Cells : VGA_PTR[i] = Blank
      BY <1>1 DEF Init
    <3>. QED
      BY <3>1, CellNumbers
  <2>4. Shown(VGA_PTR) = [r \in 0 .. VGA_HEIGHT - 1 |-> Terminal!BlankLine]
    BY <2>3, Zenon DEF Shown, Terminal!BlankLine
  <2>5. Terminal!Init
    BY <2>2, <2>4, Zenon DEF Terminal!Init, ShownRow, ShownText
  <2>. QED
    BY <1>1, <2>1, <2>5
    DEF Init, ScreenInv, FreshInv, OneAtATime, InPutchar, InStep
<1>2. TypeOK /\ TypeOK' /\ ScreenInv /\ ScreenInv' /\ FreshInv /\ [Next]_vars
        => [Without({"task", "key"})' =>
               (Terminal!Next \/ UNCHANGED Terminal!vars)]_vars
  BY TerminalStep
<1>. QED
  BY <1>1, <1>2, TypeCorrect, ScreenInductive, FreshInductive, PTL
  DEF Spec, ShowsTheText

-----------------------------------------------------------------------------
(* Library: the functions that the rest of the system, and its users, call. *)

(* The functions of string.c.  Each is a loop over the bytes of an area, and a
   fold in Strings; a fold is a function on sets of indices, of which the sets
   1 .. k are the turns of the loop. *)

(* A set of numbers that is not empty has a least one. *)
LEMMA Least ==
    ASSUME NEW T \in SUBSET Nat, T # {}
    PROVE  \E x \in T : \A y \in T : x <= y
<1>1. \E x \in T : \A y \in T : ~(<<y, x>> \in OpToRel(<, Nat))
  BY NatLessThanWellFounded, WFMin
<1>2. \A x, y \in Nat : <<y, x>> \in OpToRel(<, Nat) <=> y < x
  BY DEF OpToRel
<1>3. \E x \in T : \A y \in T : ~(y < x)
  BY <1>1, <1>2
<1>. QED
  BY <1>3

(* A set that has 0, and the next number with each below n, has all up to n. *)
LEMMA UpTo ==
    ASSUME NEW n \in Nat, NEW S \in SUBSET (0 .. n), 0 \in S,
           \A i \in S : i < n => i + 1 \in S
    PROVE  S = 0 .. n
<1>. SUFFICES ASSUME S # 0 .. n PROVE FALSE
  OBVIOUS
<1> DEFINE T == (0 .. n) \ S
<1>1. T \in SUBSET Nat /\ T # {}
  <2>1. S \in SUBSET (0 .. n) /\ S # 0 .. n
    OBVIOUS
  <2>2. \E x \in 0 .. n : x \notin S
    BY <2>1, Zenon
  <2>3. \A x \in 0 .. n : x \in Nat
    OBVIOUS
  <2>. QED
    BY <2>2, <2>3, Zenon
<1>2. PICK x \in T : \A y \in T : x <= y
  BY <1>1, Least
<1>3. x \in 1 .. n /\ x - 1 \in 0 .. n /\ x - 1 < n /\ ~(x <= x - 1)
  OBVIOUS
<1>4. x - 1 \in S
  BY <1>2, <1>3
<1>5. (x - 1) + 1 \in S /\ (x - 1) + 1 = x
  BY <1>3, <1>4
<1>. QED
  BY <1>5

(* The turns. *)
LEMMA TurnsOf ==
    ASSUME NEW n \in Nat, NEW k \in 1 .. n
    PROVE  /\ 1 .. k # {} /\ 1 .. k \in SUBSET (1 .. n)
           /\ Max(1 .. k) = k /\ (1 .. k) \ {k} = 1 .. k - 1
<1>1. k \in 1 .. k /\ \A y \in 1 .. k : k >= y
  OBVIOUS
<1>2. \A x \in 1 .. k : (\A y \in 1 .. k : x >= y) => x = k
  OBVIOUS
<1>3. Max(1 .. k) = k
  BY <1>1, <1>2 DEF Max
<1>. QED
  BY <1>1, <1>3

(* A fold over 1 .. n: in turn k, g[k] makes the next value of it. *)
IsFold(f, n, base, g) ==
    f = [s \in SUBSET (1 .. n) |->
            IF s = {} THEN base ELSE g[Max(s)][f[s \ {Max(s)}]]]

(* There is such a function, whatever the turns do. *)
LEMMA FoldExists ==
    ASSUME NEW n \in Nat, NEW X, NEW base \in X, NEW g \in [1 .. n -> [X -> X]]
    PROVE  \E f \in [SUBSET (1 .. n) -> X] : IsFold(f, n, base, g)
<1> DEFINE Has(k) == \E f \in [SUBSET (1 .. k) -> X] : IsFold(f, k, base, g)
           S == {k \in 0 .. n : Has(k)}
<1>1. 0 \in S
  <2> DEFINE f == [s \in SUBSET (1 .. 0) |-> base]
  <2>1. 1 .. 0 = {} /\ \A s \in SUBSET (1 .. 0) : s = {}
    OBVIOUS
  <2>2. f \in [SUBSET (1 .. 0) -> X]
    OBVIOUS
  <2>3. IsFold(f, 0, base, g)
    BY <2>1 DEF IsFold
  <2>. QED
    BY <2>2, <2>3
<1>2. ASSUME NEW k \in S, k < n PROVE k + 1 \in S
  <2>1. PICK f \in [SUBSET (1 .. k) -> X] : IsFold(f, k, base, g)
    OBVIOUS
  <2> DEFINE q == k + 1
             new == [s \in SUBSET (1 .. q) |->
                        IF q \in s THEN g[q][f[s \ {q}]] ELSE f[s]]
  <2>2. q \in 1 .. n /\ k \in Nat /\ q \notin 1 .. k
    BY <1>2
  <2>3. \A s \in SUBSET (1 .. q) : s \ {q} \in SUBSET (1 .. k)
    BY <2>2
  <2>4. \A s \in SUBSET (1 .. q) : q \notin s => s \in SUBSET (1 .. k)
    BY <2>3
  <2>5. \A s \in SUBSET (1 .. k) : s \in SUBSET (1 .. q) /\ new[s] = f[s]
    <3>1. ASSUME NEW s \in SUBSET (1 .. k) PROVE s \in SUBSET (1 .. q) /\ q \notin s
      BY <2>2
    <3>. QED
      BY <3>1
  <2>6. new \in [SUBSET (1 .. q) -> X]
    BY <2>2, <2>3, <2>4
  <2>7. ASSUME NEW s \in SUBSET (1 .. q), q \in s PROVE Max(s) = q
    <3>1. \A y \in s : y \in Int /\ q >= y
      BY <2>2
    <3>2. \A x \in s : (\A y \in s : x >= y) => x = q
      BY <2>2, <2>7, <3>1
    <3>. QED
      BY <2>7, <3>1, <3>2 DEF Max
  <2>. HIDE DEF new
  <2>8. ASSUME NEW s \in SUBSET (1 .. q)
        PROVE  new[s] = IF s = {} THEN base ELSE g[Max(s)][new[s \ {Max(s)}]]
    <3>1. CASE q \in s
      <4>1. new[s \ {q}] = f[s \ {q}]
        BY <2>3, <2>5
      <4>2. new[s] = g[q][f[s \ {q}]]
        BY <3>1 DEF new
      <4>. QED
        BY <2>7, <3>1, <4>1, <4>2
    <3>2. CASE q \notin s
      <4>1. s \in SUBSET (1 .. k) /\ s \ {Max(s)} \in SUBSET (1 .. k)
        BY <2>4, <3>2
      <4>2. f[s] = IF s = {} THEN base ELSE g[Max(s)][f[s \ {Max(s)}]]
        BY <2>1, <4>1 DEF IsFold
      <4>. QED
        BY <2>5, <4>1, <4>2
    <3>. QED
      BY <3>1, <3>2
  <2>9. IsFold(new, q, base, g)
    <3>1. new = [s \in SUBSET (1 .. q) |-> new[s]]
      BY <2>6
    <3>. QED
      BY <2>8, <3>1 DEF IsFold
  <2>. QED
    BY <2>2, <2>6, <2>9
<1>3. n \in S
  <2>. HIDE DEF S
  <2>1. S \in SUBSET (0 .. n)
    BY DEF S
  <2>. QED
    BY <1>1, <1>2, <2>1, UpTo
<1>. QED
  BY <1>3

(* The index that a fold takes next is one of them. *)
LEMMA MaxIn ==
    ASSUME NEW n \in Nat, NEW s \in SUBSET (1 .. n), s # {}
    PROVE  Max(s) \in s
<1> DEFINE T == {k \in 0 .. n : \A y \in s : y <= k}
<1>1. n \in T /\ T \in SUBSET Nat
  OBVIOUS
<1>2. PICK x \in T : \A y \in T : x <= y
  BY <1>1, Least
<1>3. x \in s
  <2>1. SUFFICES ASSUME x \notin s PROVE FALSE
    OBVIOUS
  <2>2. x \in 0 .. n /\ \A y \in s : y \in 1 .. n /\ y <= x - 1
    BY <2>1
  <2>3. x - 1 \in T
    <3>1. PICK y \in s : TRUE
      OBVIOUS
    <3>2. x - 1 \in 0 .. n
      BY <2>2, <3>1
    <3>. QED
      BY <2>2, <3>2
  <2>. QED
    BY <1>2, <2>2, <2>3
<1>4. \A y \in s : x >= y
  BY <1>2
<1>. QED
  BY <1>3, <1>4 DEF Max

(* The steps of copying. *)
CopyStep(X, s1, s2, offsets) ==
    [k \in DOMAIN offsets |->
        [m \in X |-> [m EXCEPT ![s1 + offsets[k]] = m[s2 + offsets[k]]]]]

IsCopy(f, mem, s1, s2, offsets) ==
    f = [s \in SUBSET DOMAIN offsets |->
            IF s = {} THEN mem
            ELSE [f[s \ {Max(s)}] EXCEPT ![s1 + offsets[Max(s)]] =
                     f[s \ {Max(s)}][s2 + offsets[Max(s)]]]]

(* Memory h after each turn of the loop of a copy. *)
AreTurns(h, n, mem, s1, s2, offsets) ==
    /\ h[0] = mem
    /\ \A k \in 1 .. n :
          h[k] = [h[k - 1] EXCEPT ![s1 + offsets[k]] = h[k - 1][s2 + offsets[k]]]
    /\ Copy(mem, s1, s2, offsets) = h[n]

InReach(n, s1, s2, offsets) ==
    \A k \in 1 .. n : s1 + offsets[k] < Size /\ s2 + offsets[k] < Size

(* A copy can be taken turn by turn. *)
LEMMA CopyTurns ==
    ASSUME NEW n \in Nat, NEW offsets \in [1 .. n -> Nat], Size \in Nat,
           NEW mem \in Memories, NEW s1 \in Nat, NEW s2 \in Nat,
           InReach(n, s1, s2, offsets)
    PROVE  \E h \in [0 .. n -> Memories] : AreTurns(h, n, mem, s1, s2, offsets)
<1> DEFINE X == Memories
           g == CopyStep(X, s1, s2, offsets)
           c == CHOOSE f : IsCopy(f, mem, s1, s2, offsets)
           h == [k \in 0 .. n |-> c[1 .. k]]
<1>1. \A k \in 1 .. n, m \in X :
         [m EXCEPT ![s1 + offsets[k]] = m[s2 + offsets[k]]] \in X
  <2>. SUFFICES ASSUME NEW k \in 1 .. n, NEW m \in X
                PROVE  [m EXCEPT ![s1 + offsets[k]] = m[s2 + offsets[k]]] \in X
    OBVIOUS
  <2>1. s2 + offsets[k] \in 0 .. Size - 1
    BY DEF InReach
  <2>. QED
    BY <2>1 DEF Memories, InReach
<1>. HIDE DEF X
<1>2. g \in [1 .. n -> [X -> X]]
  BY <1>1 DEF CopyStep
<1>3. mem \in X
  BY DEF X
<1>4. PICK f \in [SUBSET (1 .. n) -> X] : IsFold(f, n, mem, g)
  BY <1>2, <1>3, FoldExists
<1>5. ASSUME NEW e \in [SUBSET (1 .. n) -> X]
      PROVE  \A s \in SUBSET (1 .. n) : s # {} =>
                g[Max(s)][e[s \ {Max(s)}]]
                   = [e[s \ {Max(s)}] EXCEPT ![s1 + offsets[Max(s)]] =
                         e[s \ {Max(s)}][s2 + offsets[Max(s)]]]
  <2>. SUFFICES ASSUME NEW s \in SUBSET (1 .. n), s # {}
                PROVE  g[Max(s)][e[s \ {Max(s)}]]
                         = [e[s \ {Max(s)}] EXCEPT ![s1 + offsets[Max(s)]] =
                               e[s \ {Max(s)}][s2 + offsets[Max(s)]]]
    OBVIOUS
  <2>1. Max(s) \in s
    BY MaxIn
  <2> DEFINE k == Max(s)
             m == e[s \ {Max(s)}]
  <2>2. k \in 1 .. n /\ m \in X
    BY <2>1
  <2>. HIDE DEF k, m
  <2>3. g[k][m] = [m EXCEPT ![s1 + offsets[k]] = m[s2 + offsets[k]]]
    BY <2>2 DEF CopyStep
  <2>. QED
    BY <2>3 DEF k, m
<1>6. IsCopy(f, mem, s1, s2, offsets)
  <2>1. DOMAIN offsets = 1 .. n
    OBVIOUS
  <2>2. \A s \in SUBSET (1 .. n) :
           f[s] = IF s = {} THEN mem
                  ELSE [f[s \ {Max(s)}] EXCEPT ![s1 + offsets[Max(s)]] =
                           f[s \ {Max(s)}][s2 + offsets[Max(s)]]]
    BY <1>4, <1>5 DEF IsFold
  <2>3. f = [s \in SUBSET (1 .. n) |-> f[s]]
    BY <1>4
  <2>. QED
    BY <2>1, <2>2, <2>3 DEF IsCopy
<1>7. IsCopy(c, mem, s1, s2, offsets)
  BY <1>6
<1>8. c[1 .. 0] = mem
  <2>1. 1 .. 0 = {} /\ {} \in SUBSET (1 .. n) /\ DOMAIN offsets = 1 .. n
    OBVIOUS
  <2>. HIDE DEF c
  <2>2. c[{}] = mem
    BY <1>7, <2>1 DEF IsCopy
  <2>. QED
    BY <2>1, <2>2
<1>9. ASSUME NEW k \in 1 .. n
      PROVE  c[1 .. k] = [c[1 .. k - 1] EXCEPT ![s1 + offsets[k]] =
                             c[1 .. k - 1][s2 + offsets[k]]]
  <2> DEFINE s == 1 .. k
  <2>1. s # {} /\ s \in SUBSET (1 .. n) /\ Max(s) = k /\ s \ {k} = 1 .. k - 1
    BY TurnsOf
  <2>2. DOMAIN offsets = 1 .. n
    OBVIOUS
  <2>. HIDE DEF s, c
  <2>3. c[s] = [c[s \ {k}] EXCEPT ![s1 + offsets[k]] = c[s \ {k}][s2 + offsets[k]]]
    BY <1>7, <2>1, <2>2 DEF IsCopy
  <2>. QED
    BY <2>1, <2>3 DEF s
<1>10. Copy(mem, s1, s2, offsets) = c[1 .. n]
  <2>1. DOMAIN offsets = 1 .. n
    OBVIOUS
  <2>2. Copy(mem, s1, s2, offsets) = c[DOMAIN offsets]
    BY DEF Copy, FoldLeft, MapThenFoldSet, IsCopy
  <2>. QED
    BY <2>1, <2>2
<1>. HIDE DEF c
<1>11. \A k \in 0 .. n : c[1 .. k] \in X
  <2> DEFINE S == {k \in 0 .. n : c[1 .. k] \in X}
  <2>1. 0 \in S
    BY <1>3, <1>8
  <2>2. ASSUME NEW k \in S, k < n PROVE k + 1 \in S
    <3>1. k + 1 \in 1 .. n /\ (k + 1) - 1 = k
      BY <2>2
    <3>2. c[1 .. k + 1] = [c[1 .. k] EXCEPT ![s1 + offsets[k + 1]] =
                              c[1 .. k][s2 + offsets[k + 1]]]
      BY <1>9, <3>1
    <3>. QED
      BY <1>1, <3>1, <3>2
  <2>3. S = 0 .. n
    BY <2>1, <2>2, UpTo
  <2>. QED
    BY <2>3
<1>12. h \in [0 .. n -> X]
  BY <1>11
<1>13. h[0] = mem /\ Copy(mem, s1, s2, offsets) = h[n]
  BY <1>8, <1>10
<1>14. \A k \in 1 .. n :
          h[k] = [h[k - 1] EXCEPT ![s1 + offsets[k]] = h[k - 1][s2 + offsets[k]]]
  <2>. SUFFICES ASSUME NEW k \in 1 .. n
                PROVE  h[k] = [h[k - 1] EXCEPT ![s1 + offsets[k]] =
                                  h[k - 1][s2 + offsets[k]]]
    OBVIOUS
  <2>1. k \in 0 .. n /\ k - 1 \in 0 .. n
    OBVIOUS
  <2>2. h[k] = c[1 .. k] /\ h[k - 1] = c[1 .. k - 1]
    BY <2>1
  <2>. HIDE DEF h
  <2>. QED
    BY <1>9, <2>2
<1>. QED
  BY <1>12, <1>13, <1>14 DEF X, AreTurns

(* memcpy of areas that do not overlap, or downwards. *)
LEMMA CopyCopies ==
    ASSUME Size \in Nat, NEW mem \in Memories,
           NEW s1 \in Nat, NEW s2 \in Nat, NEW n \in Nat,
           s1 + n < Size, s2 + n < Size, s1 <= s2 \/ s1 >= s2 + n
    PROVE  \A i \in 0 .. Size - 1 :
              memcpy(mem, s1, s2, n)[i] =
                 IF i \in s1 .. s1 + n - 1 THEN mem[i + s2 - s1] ELSE mem[i]
<1> DEFINE up == Upwards(n)
<1>1. up \in [1 .. n -> Nat] /\ \A k \in 1 .. n : up[k] = k - 1
  BY DEF Upwards
<1>2. InReach(n, s1, s2, up)
  BY <1>1 DEF InReach
<1>. HIDE DEF up
<1>3. PICK h \in [0 .. n -> Memories] : AreTurns(h, n, mem, s1, s2, up)
  <2>1. /\ Size \in Nat /\ mem \in Memories
        /\ s1 \in Nat /\ s2 \in Nat /\ n \in Nat
    OBVIOUS
  <2>. QED
    BY ONLY <1>1, <1>2, <2>1, CopyTurns
<1> DEFINE After(k, i) == IF i \in s1 .. s1 + k - 1 THEN mem[i + s2 - s1] ELSE mem[i]
           S == {k \in 0 .. n : \A i \in 0 .. Size - 1 : h[k][i] = After(k, i)}
<1>4. 0 \in S
  BY <1>3 DEF AreTurns
<1>5. ASSUME NEW k \in S, k < n PROVE k + 1 \in S
  <2>1. k + 1 \in 1 .. n /\ (k + 1) - 1 = k /\ k \in 0 .. n
    BY <1>5
  <2>2. up[k + 1] = k
    BY <1>1, <2>1
  <2>3. h[k + 1] = [h[k] EXCEPT ![s1 + k] = h[k][s2 + k]]
    BY <1>3, <2>1, <2>2 DEF AreTurns
  <2>4. h[k] \in [0 .. Size - 1 -> Bytes]
    BY <1>3, <2>1 DEF Memories
  <2>5. h[k][s2 + k] = mem[s2 + k]
    <3>1. s2 + k \in 0 .. Size - 1 /\ s2 + k \notin s1 .. s1 + k - 1
      BY <2>1
    <3>. QED
      BY <1>5, <3>1
  <2>6. ASSUME NEW i \in 0 .. Size - 1 PROVE h[k + 1][i] = After(k + 1, i)
    <3>1. h[k + 1][i] = IF i = s1 + k THEN mem[s2 + k] ELSE h[k][i]
      BY <2>3, <2>4, <2>5
    <3>2. h[k][i] = After(k, i)
      BY <1>5
    <3>3. CASE i = s1 + k
      <4>1. i \in s1 .. s1 + (k + 1) - 1 /\ i + s2 - s1 = s2 + k
        BY <2>1, <3>3
      <4>. QED
        BY <3>1, <3>3, <4>1
    <3>4. CASE i # s1 + k
      <4>1. i \in s1 .. s1 + (k + 1) - 1 <=> i \in s1 .. s1 + k - 1
        BY <2>1, <3>4
      <4>. QED
        BY <3>1, <3>2, <3>4, <4>1
    <3>. QED
      BY <3>3, <3>4
  <2>. QED
    BY <2>1, <2>6
<1>6. n \in S
  <2>1. S = 0 .. n
    BY <1>4, <1>5, UpTo
  <2>. QED
    BY <2>1
<1>. QED
  BY <1>3, <1>6 DEF memcpy, up, AreTurns

(* memmove of an area to itself. *)
LEMMA MoveToItself ==
    ASSUME Size \in Nat, NEW mem \in Memories,
           NEW s \in Nat, NEW n \in Nat, s + n < Size
    PROVE  memmove(mem, s, s, n) = mem
<1> DEFINE down == [k \in 1 .. n |-> n + 1 - k]
<1>1. down \in [1 .. n -> Nat] /\ InReach(n, s, s, down)
  BY DEF InReach
<1>. HIDE DEF down
<1>2. PICK h \in [0 .. n -> Memories] : AreTurns(h, n, mem, s, s, down)
  <2>1. Size \in Nat /\ mem \in Memories /\ s \in Nat /\ n \in Nat
    OBVIOUS
  <2>. QED
    BY ONLY <1>1, <2>1, CopyTurns
<1> DEFINE S == {k \in 0 .. n : h[k] = mem}
<1>3. 0 \in S
  BY <1>2 DEF AreTurns
<1>4. ASSUME NEW k \in S, k < n PROVE k + 1 \in S
  <2>1. k + 1 \in 1 .. n /\ (k + 1) - 1 = k /\ k \in 0 .. n
    BY <1>4
  <2>2. h[k + 1] = [mem EXCEPT ![s + down[k + 1]] = mem[s + down[k + 1]]]
    BY <1>2, <1>4, <2>1 DEF AreTurns
  <2>3. h[k + 1] = mem
    BY <2>2 DEF Memories
  <2>. QED
    BY <2>1, <2>3
<1>5. n \in S
  <2>1. S = 0 .. n
    BY <1>3, <1>4, UpTo
  <2>. QED
    BY <2>1
<1>. QED
  BY <1>2, <1>5 DEF memmove, down, AreTurns

(* The loop of memset. *)
IsFill(f, mem, s1, c, offsets) ==
    f = [s \in SUBSET DOMAIN offsets |->
            IF s = {} THEN mem
            ELSE [f[s \ {Max(s)}] EXCEPT ![s1 + offsets[Max(s)]] = c % ByteSpan]]

(* Memory m is mem with n bytes of the value c % ByteSpan from s1 on. *)
Filled(m, mem, s1, c, n) ==
    \A i \in 0 .. Size - 1 :
        m[i] = IF i - s1 \in 0 .. n - 1 THEN c % ByteSpan ELSE mem[i]

(* memset sets the bytes of the area, and no others. *)
LEMMA FillFills ==
    ASSUME Size \in Nat, ByteSpan \in Nat \ {0, 1}, NEW mem \in Memories,
           NEW s1 \in Nat, NEW n \in Nat, NEW c \in Nat, s1 + n < Size
    PROVE  Filled(memset(mem, s1, c, n), mem, s1, c, n)
<1> DEFINE X == Memories
           up == Upwards(n)
           byte == c % ByteSpan
           g == [k \in 1 .. n |-> [m \in X |-> [m EXCEPT ![s1 + up[k]] = byte]]]
           e == CHOOSE f : IsFill(f, mem, s1, c, up)
<1>1. up \in [1 .. n -> Nat] /\ \A k \in 1 .. n : up[k] = k - 1
  BY DEF Upwards
<1>2. byte \in Bytes
  BY DEF Bytes
<1>3. DOMAIN up = 1 .. n
  BY <1>1
<1>. HIDE DEF up, byte
<1>4. \A k \in 1 .. n, m \in X : [m EXCEPT ![s1 + up[k]] = byte] \in X
  BY <1>2 DEF Memories
<1>5. mem \in X
  OBVIOUS
<1>. HIDE DEF X
<1>6. g \in [1 .. n -> [X -> X]]
  BY <1>4
<1>7. \A k \in 1 .. n, m \in X : g[k][m] = [m EXCEPT ![s1 + up[k]] = byte]
  OBVIOUS
<1>. HIDE DEF g
<1>8. PICK f \in [SUBSET (1 .. n) -> X] : IsFold(f, n, mem, g)
  BY <1>5, <1>6, FoldExists
<1>9. ASSUME NEW s \in SUBSET (1 .. n)
      PROVE  f[s] = IF s = {} THEN mem
                    ELSE [f[s \ {Max(s)}] EXCEPT ![s1 + up[Max(s)]] = byte]
  <2>1. f[s] = IF s = {} THEN mem ELSE g[Max(s)][f[s \ {Max(s)}]]
    BY <1>8 DEF IsFold
  <2>2. CASE s = {}
    BY <2>1, <2>2
  <2>3. CASE s # {}
    <3> DEFINE k == Max(s)
               m == f[s \ {Max(s)}]
    <3>1. k \in 1 .. n /\ m \in X
      BY <2>3, MaxIn
    <3>2. f[s] = g[k][m]
      BY <2>1, <2>3
    <3>. HIDE DEF k, m
    <3>3. f[s] = [m EXCEPT ![s1 + up[k]] = byte]
      BY <1>7, <3>1, <3>2
    <3>. QED
      BY <2>3, <3>3 DEF k, m
  <2>. QED
    BY <2>2, <2>3
<1>10. IsFill(f, mem, s1, c, up)
  <2>1. f = [s \in SUBSET (1 .. n) |-> f[s]]
    BY <1>8
  <2>. QED
    BY <1>3, <1>9, <2>1 DEF IsFill, byte
<1>11. IsFill(e, mem, s1, c, up)
  BY <1>10
<1>12. memset(mem, s1, c, n) = e[1 .. n]
  <2>1. memset(mem, s1, c, n) = e[DOMAIN up]
    BY DEF memset, FoldLeft, MapThenFoldSet, IsFill, up
  <2>. QED
    BY <1>3, <2>1
<1>. HIDE DEF e
<1>13. e[1 .. 0] = mem
  <2>1. 1 .. 0 = {} /\ {} \in SUBSET (1 .. n)
    OBVIOUS
  <2>2. e[{}] = mem
    BY <1>3, <1>11, <2>1 DEF IsFill
  <2>. QED
    BY <2>1, <2>2
<1>14. ASSUME NEW k \in 1 .. n
       PROVE  e[1 .. k] = [e[1 .. k - 1] EXCEPT ![s1 + (k - 1)] = byte]
  <2> DEFINE s == 1 .. k
  <2>1. s # {} /\ s \in SUBSET (1 .. n) /\ Max(s) = k /\ s \ {k} = 1 .. k - 1
    BY TurnsOf
  <2>. HIDE DEF s
  <2>2. e[s] = [e[s \ {k}] EXCEPT ![s1 + up[k]] = byte]
    BY <1>3, <1>11, <2>1 DEF IsFill, byte
  <2>. QED
    BY <1>1, <2>1, <2>2 DEF s
<1> DEFINE After(k, i) == IF i - s1 \in 0 .. k - 1 THEN byte ELSE mem[i]
           S == {k \in 0 .. n : /\ e[1 .. k] \in X
                                /\ \A i \in 0 .. Size - 1 : e[1 .. k][i] = After(k, i)}
<1>15. 0 \in S
  BY <1>5, <1>13
<1>16. ASSUME NEW k \in S, k < n PROVE k + 1 \in S
  <2>1. k + 1 \in 1 .. n /\ (k + 1) - 1 = k /\ k \in 0 .. n
    BY <1>16
  <2>2. e[1 .. k + 1] = [e[1 .. k] EXCEPT ![s1 + k] = byte]
    BY <1>14, <2>1
  <2>3. e[1 .. k] \in [0 .. Size - 1 -> Bytes]
    BY <1>16 DEF X, Memories
  <2>4. e[1 .. k + 1] \in X
    BY <1>2, <2>2, <2>3 DEF X, Memories
  <2>5. ASSUME NEW i \in 0 .. Size - 1 PROVE e[1 .. k + 1][i] = After(k + 1, i)
    <3>1. e[1 .. k + 1][i] = IF i = s1 + k THEN byte ELSE e[1 .. k][i]
      BY <2>2, <2>3
    <3>2. e[1 .. k][i] = After(k, i)
      BY <1>16
    <3>3. i - s1 \in 0 .. (k + 1) - 1 <=> i = s1 + k \/ i - s1 \in 0 .. k - 1
      BY <2>1
    <3>. QED
      BY <3>1, <3>2, <3>3
  <2>. QED
    BY <2>1, <2>4, <2>5
<1>17. n \in S
  <2>1. S = 0 .. n
    BY <1>15, <1>16, UpTo
  <2>. QED
    BY <2>1
<1>. QED
  BY <1>12, <1>17 DEF byte, Filled

(* The loops of memcmp, and of reading digits. *)
IsCompare(f, mem, s1, s2, offsets) ==
    f = [s \in SUBSET DOMAIN offsets |->
            IF s = {} THEN 0
            ELSE IF f[s \ {Max(s)}] # 0 THEN f[s \ {Max(s)}]
                 ELSE mem[s1 + offsets[Max(s)]] - mem[s2 + offsets[Max(s)]]]

IsValue(f, digits, base) ==
    f = [s \in SUBSET DOMAIN digits |->
            IF s = {} THEN 0 ELSE f[s \ {Max(s)}] * base + digits[Max(s)]]

(* The turns of memcmp. *)
CompareTurns(h, mem, s1, s2, n) ==
    /\ h[0] = 0
    /\ \A k \in 1 .. n : h[k] = IF h[k - 1] # 0 THEN h[k - 1]
                                ELSE mem[s1 + (k - 1)] - mem[s2 + (k - 1)]
    /\ memcmp(mem, s1, s2, n) = h[n]

(* memcmp can be taken turn by turn. *)
LEMMA CompareByTurns ==
    ASSUME Size \in Nat, ByteSpan \in Nat \ {0, 1}, NEW mem \in Memories,
           NEW s1 \in Nat, NEW s2 \in Nat, NEW n \in Nat,
           s1 + n < Size, s2 + n < Size
    PROVE  \E h \in [0 .. n -> Int] : CompareTurns(h, mem, s1, s2, n)
<1> DEFINE up == Upwards(n)
           g == [k \in 1 .. n |-> [d \in Int |->
                    IF d # 0 THEN d ELSE mem[s1 + up[k]] - mem[s2 + up[k]]]]
           e == CHOOSE f : IsCompare(f, mem, s1, s2, up)
           h == [k \in 0 .. n |-> e[1 .. k]]
<1>1. up \in [1 .. n -> Nat] /\ \A k \in 1 .. n : up[k] = k - 1
  BY DEF Upwards
<1>2. DOMAIN up = 1 .. n
  BY <1>1
<1>3. \A k \in 1 .. n : mem[s1 + up[k]] - mem[s2 + up[k]] \in Int
  <2>1. \A i \in 0 .. Size - 1 : mem[i] \in Int
    BY DEF Memories, Bytes
  <2>2. \A k \in 1 .. n : s1 + up[k] \in 0 .. Size - 1 /\ s2 + up[k] \in 0 .. Size - 1
    BY <1>1
  <2>. QED
    BY <2>1, <2>2
<1>. HIDE DEF up
<1>4. g \in [1 .. n -> [Int -> Int]]
  BY <1>3
<1>5. \A k \in 1 .. n, d \in Int :
         g[k][d] = IF d # 0 THEN d ELSE mem[s1 + up[k]] - mem[s2 + up[k]]
  OBVIOUS
<1>. HIDE DEF g
<1>6. PICK f \in [SUBSET (1 .. n) -> Int] : IsFold(f, n, 0, g)
  <2>1. 0 \in Int
    OBVIOUS
  <2>. QED
    BY ONLY <1>4, <2>1, n \in Nat, FoldExists
<1>7. ASSUME NEW s \in SUBSET (1 .. n)
      PROVE  f[s] = IF s = {} THEN 0
                    ELSE IF f[s \ {Max(s)}] # 0 THEN f[s \ {Max(s)}]
                         ELSE mem[s1 + up[Max(s)]] - mem[s2 + up[Max(s)]]
  <2>1. f[s] = IF s = {} THEN 0 ELSE g[Max(s)][f[s \ {Max(s)}]]
    BY <1>6 DEF IsFold
  <2>2. CASE s = {}
    BY <2>1, <2>2
  <2>3. CASE s # {}
    <3>1. Max(s) \in 1 .. n /\ f[s \ {Max(s)}] \in Int
      BY <2>3, MaxIn
    <3>. QED
      BY <1>5, <2>1, <2>3, <3>1
  <2>. QED
    BY <2>2, <2>3
<1>8. IsCompare(f, mem, s1, s2, up)
  <2>1. f = [s \in SUBSET (1 .. n) |-> f[s]]
    BY <1>6
  <2>. QED
    BY <1>2, <1>7, <2>1 DEF IsCompare
<1>9. IsCompare(e, mem, s1, s2, up)
  BY <1>8
<1>10. memcmp(mem, s1, s2, n) = e[1 .. n]
  <2>1. memcmp(mem, s1, s2, n) = e[DOMAIN up]
    BY DEF memcmp, FoldLeft, MapThenFoldSet, IsCompare, up
  <2>. QED
    BY <1>2, <2>1
<1>. HIDE DEF e
<1>11. e[1 .. 0] = 0
  <2>1. 1 .. 0 = {} /\ {} \in SUBSET (1 .. n)
    OBVIOUS
  <2>2. e[{}] = 0
    BY <1>2, <1>9, <2>1 DEF IsCompare
  <2>. QED
    BY <2>1, <2>2
<1>12. ASSUME NEW k \in 1 .. n
       PROVE  e[1 .. k] = IF e[1 .. k - 1] # 0 THEN e[1 .. k - 1]
                          ELSE mem[s1 + up[k]] - mem[s2 + up[k]]
  <2> DEFINE s == 1 .. k
  <2>1. s # {} /\ s \in SUBSET (1 .. n) /\ Max(s) = k /\ s \ {k} = 1 .. k - 1
    BY TurnsOf
  <2>. HIDE DEF s
  <2>2. e[s] = IF e[s \ {k}] # 0 THEN e[s \ {k}]
               ELSE mem[s1 + up[k]] - mem[s2 + up[k]]
    BY <1>2, <1>9, <2>1 DEF IsCompare
  <2>. QED
    BY <2>1, <2>2 DEF s
<1> DEFINE S == {k \in 0 .. n : e[1 .. k] \in Int}
<1>13. S = 0 .. n
  <2>1. 0 \in S
    BY <1>11
  <2>2. ASSUME NEW k \in S, k < n PROVE k + 1 \in S
    <3>1. k + 1 \in 1 .. n /\ (k + 1) - 1 = k
      BY <2>2
    <3>. QED
      BY <1>3, <1>12, <3>1
  <2>. QED
    BY <2>1, <2>2, UpTo
<1>14. h \in [0 .. n -> Int] /\ h[0] = 0 /\ h[n] = e[1 .. n]
  BY <1>11, <1>13
<1>15. ASSUME NEW k \in 1 .. n
       PROVE  h[k] = IF h[k - 1] # 0 THEN h[k - 1]
                     ELSE mem[s1 + (k - 1)] - mem[s2 + (k - 1)]
  <2>1. k \in 0 .. n /\ k - 1 \in 0 .. n
    OBVIOUS
  <2>2. h[k] = e[1 .. k] /\ h[k - 1] = e[1 .. k - 1]
    BY <2>1
  <2>. QED
    BY <1>1, <1>12, <2>2
<1>. QED
  BY <1>10, <1>14, <1>15 DEF CompareTurns

(* The turns of reading n digits. *)
ValueTurns(h, digits, base, n) ==
    /\ h[0] = 0
    /\ \A k \in 1 .. n : h[k] = h[k - 1] * base + digits[k]
    /\ Value(digits, base) = h[n]

(* Digits can be read one by one, with a sign or without. *)
LEMMA ValueByTurns ==
    ASSUME NEW V \in {Nat, Int}, NEW base \in Nat, NEW n \in Nat,
           NEW digits \in [1 .. n -> V]
    PROVE  \E h \in [0 .. n -> V] : ValueTurns(h, digits, base, n)
<1> DEFINE g == [k \in 1 .. n |-> [v \in V |-> v * base + digits[k]]]
           e == CHOOSE f : IsValue(f, digits, base)
           h == [k \in 0 .. n |-> e[1 .. k]]
<1>2. DOMAIN digits = 1 .. n
  OBVIOUS
<1>3. \A k \in 1 .. n, v \in V : v * base + digits[k] \in V
  <2>1. CASE V = Nat
    <3>1. \A v \in Nat : v * base \in Nat
      OBVIOUS
    <3>2. \A k \in 1 .. n : digits[k] \in Nat
      BY <2>1
    <3>. QED
      BY <2>1, <3>1, <3>2
  <2>2. CASE V = Int
    <3>1. \A v \in Int : v * base \in Int
      OBVIOUS
    <3>2. \A k \in 1 .. n : digits[k] \in Int
      BY <2>2
    <3>. QED
      BY <2>2, <3>1, <3>2
  <2>. QED
    BY <2>1, <2>2
<1>4. g \in [1 .. n -> [V -> V]]
  BY <1>3
<1>5. \A k \in 1 .. n, v \in V : g[k][v] = v * base + digits[k]
  OBVIOUS
<1>. HIDE DEF g
<1>6. PICK f \in [SUBSET (1 .. n) -> V] : IsFold(f, n, 0, g)
  <2>1. 0 \in V
    OBVIOUS
  <2>. QED
    BY ONLY <1>4, <2>1, n \in Nat, FoldExists
<1>7. ASSUME NEW s \in SUBSET (1 .. n)
      PROVE  f[s] = IF s = {} THEN 0
                    ELSE f[s \ {Max(s)}] * base + digits[Max(s)]
  <2>1. f[s] = IF s = {} THEN 0 ELSE g[Max(s)][f[s \ {Max(s)}]]
    BY <1>6 DEF IsFold
  <2>2. CASE s = {}
    BY <2>1, <2>2
  <2>3. CASE s # {}
    <3>1. Max(s) \in 1 .. n /\ f[s \ {Max(s)}] \in V
      BY <2>3, MaxIn
    <3>. QED
      BY <1>5, <2>1, <2>3, <3>1
  <2>. QED
    BY <2>2, <2>3
<1>8. IsValue(f, digits, base)
  <2>1. f = [s \in SUBSET (1 .. n) |-> f[s]]
    BY <1>6
  <2>. QED
    BY <1>2, <1>7, <2>1 DEF IsValue
<1>9. IsValue(e, digits, base)
  BY <1>8
<1>10. Value(digits, base) = e[1 .. n]
  <2>1. Value(digits, base) = e[DOMAIN digits]
    BY DEF Value, FoldLeft, MapThenFoldSet, IsValue
  <2>. QED
    BY <1>2, <2>1
<1>. HIDE DEF e
<1>11. e[1 .. 0] = 0
  <2>1. 1 .. 0 = {} /\ {} \in SUBSET (1 .. n)
    OBVIOUS
  <2>2. e[{}] = 0
    BY <1>2, <1>9, <2>1 DEF IsValue
  <2>. QED
    BY <2>1, <2>2
<1>12. ASSUME NEW k \in 1 .. n
       PROVE  e[1 .. k] = e[1 .. k - 1] * base + digits[k]
  <2> DEFINE s == 1 .. k
  <2>1. s # {} /\ s \in SUBSET (1 .. n) /\ Max(s) = k /\ s \ {k} = 1 .. k - 1
    BY TurnsOf
  <2>. HIDE DEF s
  <2>2. e[s] = e[s \ {k}] * base + digits[k]
    BY <1>2, <1>9, <2>1 DEF IsValue
  <2>. QED
    BY <2>1, <2>2 DEF s
<1> DEFINE S == {k \in 0 .. n : e[1 .. k] \in V}
<1>13. S = 0 .. n
  <2>1. 0 \in S
    BY <1>11
  <2>2. ASSUME NEW k \in S, k < n PROVE k + 1 \in S
    <3>1. k + 1 \in 1 .. n /\ (k + 1) - 1 = k /\ e[1 .. k] \in V
      BY <2>2
    <3>2. e[1 .. k + 1] = e[1 .. k] * base + digits[k + 1]
      BY <1>12, <3>1
    <3>3. e[1 .. k] * base + digits[k + 1] \in V
      BY <1>3, <3>1
    <3>. QED
      BY <3>1, <3>2, <3>3
  <2>. QED
    BY <2>1, <2>2, UpTo
<1>14. h \in [0 .. n -> V] /\ h[0] = 0 /\ h[n] = e[1 .. n]
  BY <1>11, <1>13
<1>15. ASSUME NEW k \in 1 .. n PROVE h[k] = h[k - 1] * base + digits[k]
  <2>1. k \in 0 .. n /\ k - 1 \in 0 .. n
    OBVIOUS
  <2>2. h[k] = e[1 .. k] /\ h[k - 1] = e[1 .. k - 1]
    BY <2>1
  <2>. QED
    BY <1>12, <2>2
<1>. QED
  BY <1>10, <1>14, <1>15 DEF ValueTurns

(* Another digit keeps the order of two numbers. *)
LEMMA OrderKept ==
    ASSUME NEW B \in Nat, NEW x \in Nat, NEW y \in Nat, x < y,
           NEW a \in 0 .. B - 1, NEW b \in 0 .. B - 1
    PROVE  x * B + a < y * B + b
<1> DEFINE p == x * B
           q == y * B
           r == (y - x - 1) * B
<1>1. p \in Nat /\ q \in Nat /\ r \in Nat
  <2>1. y - x - 1 \in Nat
    OBVIOUS
  <2>. QED
    BY <2>1
<1>2. q = p + B + r
  OBVIOUS
<1>. HIDE DEF p, q, r
<1>3. p + a < q + b
  BY <1>1, <1>2
<1>. QED
  BY <1>3 DEF p, q

(* A product of numbers without a sign has none. *)
LEMMA ProductNat == \A u, v \in Nat : u * v \in Nat
OBVIOUS

(* memcmp compares the areas as numbers. *)
LEMMA CompareCompares ==
    ASSUME Size \in Nat, ByteSpan \in Nat \ {0, 1}, NEW mem \in Memories,
           NEW s1 \in Nat, NEW s2 \in Nat, NEW n \in Nat,
           s1 + n < Size, s2 + n < Size
    PROVE  LET r == memcmp(mem, s1, s2, n)
               x == Value([i \in 1 .. n |-> mem[s1 + i - 1]], ByteSpan)
               y == Value([i \in 1 .. n |-> mem[s2 + i - 1]], ByteSpan)
           IN  r \in Int /\ x \in Nat /\ y \in Nat
               /\ (r < 0 <=> x < y) /\ (r > 0 <=> x > y)
<1> DEFINE a == [i \in 1 .. n |-> mem[s1 + i - 1]]
           b == [i \in 1 .. n |-> mem[s2 + i - 1]]
<1>1. /\ a \in [1 .. n -> 0 .. ByteSpan - 1] /\ b \in [1 .. n -> 0 .. ByteSpan - 1]
      /\ \A k \in 1 .. n : mem[s1 + (k - 1)] = a[k] /\ mem[s2 + (k - 1)] = b[k]
  <2>1. \A i \in 0 .. Size - 1 : mem[i] \in 0 .. ByteSpan - 1
    BY DEF Memories, Bytes
  <2>2. \A k \in 1 .. n : /\ s1 + k - 1 \in 0 .. Size - 1 /\ s2 + k - 1 \in 0 .. Size - 1
                          /\ s1 + k - 1 = s1 + (k - 1) /\ s2 + k - 1 = s2 + (k - 1)
    OBVIOUS
  <2>. QED
    BY <2>1, <2>2
<1>. HIDE DEF a, b
<1>2. /\ a \in [1 .. n -> Nat] /\ b \in [1 .. n -> Nat]
      /\ ByteSpan \in Nat /\ Nat \in {Nat, Int}
  BY <1>1
<1>3. PICK d \in [0 .. n -> Int] : CompareTurns(d, mem, s1, s2, n)
  BY CompareByTurns
<1>4. PICK x \in [0 .. n -> Nat] : ValueTurns(x, a, ByteSpan, n)
  BY ONLY <1>2, n \in Nat, ValueByTurns
<1>5. PICK y \in [0 .. n -> Nat] : ValueTurns(y, b, ByteSpan, n)
  BY ONLY <1>2, n \in Nat, ValueByTurns
<1> DEFINE S == {k \in 0 .. n : (d[k] < 0 <=> x[k] < y[k]) /\ (d[k] > 0 <=> x[k] > y[k])}
<1>6. 0 \in S
  BY <1>3, <1>4, <1>5 DEF CompareTurns, ValueTurns
<1>7. ASSUME NEW k \in S, k < n PROVE k + 1 \in S
  <2> DEFINE q == k + 1
  <2>1. q \in 1 .. n /\ q - 1 = k /\ k \in 0 .. n /\ q \in 0 .. n
    BY <1>7
  <2>2. /\ d[k] \in Int /\ x[k] \in Nat /\ y[k] \in Nat
        /\ d[q] \in Int /\ x[q] \in Nat /\ y[q] \in Nat
        /\ a[q] \in 0 .. ByteSpan - 1 /\ b[q] \in 0 .. ByteSpan - 1
    BY <1>1, <2>1
  <2>3. (d[k] < 0 <=> x[k] < y[k]) /\ (d[k] > 0 <=> x[k] > y[k])
    BY <1>7
  <2>. HIDE DEF q
  <2>4. d[q] = IF d[k] # 0 THEN d[k] ELSE a[q] - b[q]
    BY <1>1, <1>3, <2>1 DEF CompareTurns
  <2>5. x[q] = x[k] * ByteSpan + a[q]
    BY <1>4, <2>1 DEF ValueTurns
  <2>6. y[q] = y[k] * ByteSpan + b[q]
    BY <1>5, <2>1 DEF ValueTurns
  <2>7. (d[q] < 0 <=> x[q] < y[q]) /\ (d[q] > 0 <=> x[q] > y[q])
    <3>1. CASE d[k] < 0
      <4>1. x[q] < y[q]
        BY ONLY <1>2, <2>2, <2>3, <2>5, <2>6, <3>1, OrderKept
      <4>. QED
        BY ONLY <2>2, <2>4, <3>1, <4>1
    <3>2. CASE d[k] > 0
      <4>1. y[q] < x[q]
        <5>1. y[k] < x[k]
          BY ONLY <2>2, <2>3, <3>2
        <5>. QED
          BY ONLY <1>2, <2>2, <2>5, <2>6, <5>1, OrderKept
      <4>. QED
        BY ONLY <2>2, <2>4, <3>2, <4>1
    <3>3. CASE d[k] = 0
      <4>1. x[k] = y[k] /\ d[q] = a[q] - b[q]
        BY ONLY <2>2, <2>3, <2>4, <3>3
      <4> DEFINE p == x[k] * ByteSpan
      <4>2. p \in Nat /\ x[q] = p + a[q] /\ y[q] = p + b[q]
        <5>1. p \in Nat
          <6>1. x[k] \in Nat /\ ByteSpan \in Nat
            BY ONLY <1>2, <2>2
          <6>. HIDE DEF p
          <6>2. p = x[k] * ByteSpan
            BY ONLY DEF p
          <6>. QED
            BY ONLY <6>1, <6>2, ProductNat, Zenon
        <5>2. x[q] = p + a[q]
          BY ONLY <2>5
        <5>3. y[q] = p + b[q]
          <6>1. y[k] * ByteSpan = p
            BY ONLY <4>1
          <6>. QED
            BY ONLY <2>6, <6>1
        <5>. QED
          BY ONLY <5>1, <5>2, <5>3
      <4>. HIDE DEF p
      <4>3. a[q] \in Int /\ b[q] \in Int
        BY ONLY <1>2, <2>2
      <4>4. d[q] < 0 <=> a[q] < b[q]
        BY ONLY <4>1, <4>3
      <4>5. d[q] > 0 <=> a[q] > b[q]
        BY ONLY <4>1, <4>3
      <4>6. x[q] < y[q] <=> a[q] < b[q]
        BY ONLY <4>2, <4>3
      <4>7. x[q] > y[q] <=> a[q] > b[q]
        BY ONLY <4>2, <4>3
      <4>. QED
        BY ONLY <4>4, <4>5, <4>6, <4>7
    <3>. QED
      BY ONLY <2>2, <3>1, <3>2, <3>3
  <2>. QED
    BY <2>1, <2>7 DEF q
<1>8. n \in S
  <2>1. S = 0 .. n
    BY <1>6, <1>7, UpTo
  <2>. QED
    BY <2>1
<1>9. /\ memcmp(mem, s1, s2, n) = d[n] /\ d[n] \in Int
      /\ Value(a, ByteSpan) = x[n] /\ x[n] \in Nat
      /\ Value(b, ByteSpan) = y[n] /\ y[n] \in Nat
  BY <1>3, <1>4, <1>5 DEF CompareTurns, ValueTurns
<1>. QED
  BY <1>8, <1>9 DEF a, b

(* Where a terminator is ahead, and the equation of strlen. *)
Inside(mem) == {i \in DOMAIN mem : \E j \in DOMAIN mem : j >= i /\ mem[j] = 0}

IsLength(len, mem) ==
    len = [i \in Inside(mem) |-> IF mem[i] = 0 THEN 0 ELSE 1 + len[i + 1]]

(* strlen finds the next terminator. *)
LEMMA LengthFound ==
    ASSUME Size \in Nat, NEW mem \in Memories,
           NEW s \in 0 .. Size - 1, \E i \in s .. Size - 1 : mem[i] = 0
    PROVE  \E z \in s .. Size - 1 :
              /\ mem[z] = 0 /\ \A j \in s .. z - 1 : mem[j] # 0
              /\ strlen(mem, s) = z - s
<1> DEFINE E == Inside(mem)
           Next0(i, z) == /\ z \in i .. Size - 1 /\ mem[z] = 0
                          /\ \A j \in i .. z - 1 : mem[j] # 0
           f == [i \in E |-> (CHOOSE z \in 0 .. Size - 1 : Next0(i, z)) - i]
           c == CHOOSE len : IsLength(len, mem)
<1>1. E = {i \in 0 .. Size - 1 : \E j \in 0 .. Size - 1 : j >= i /\ mem[j] = 0}
  BY DEF Inside, Memories
<1>. HIDE DEF E
<1>2. ASSUME NEW i \in E PROVE \E z \in 0 .. Size - 1 : Next0(i, z)
  <2> DEFINE T == {j \in i .. Size - 1 : mem[j] = 0}
  <2>1. i \in 0 .. Size - 1 /\ \E j \in 0 .. Size - 1 : j >= i /\ mem[j] = 0
    BY <1>1
  <2>2. T # {} /\ T \in SUBSET Nat
    <3>1. \A j \in i .. Size - 1 : j \in Nat
      BY <2>1
    <3>2. \E j \in i .. Size - 1 : mem[j] = 0
      BY <2>1
    <3>. QED
      BY <3>1, <3>2, Zenon
  <2>3. PICK z \in T : \A y \in T : z <= y
    BY <2>2, Least
  <2>4. ASSUME NEW j \in i .. z - 1 PROVE mem[j] # 0
    <3>1. j \in i .. Size - 1 /\ ~(z <= j)
      BY <2>1, <2>3
    <3>. QED
      BY <2>3, <3>1
  <2>5. z \in 0 .. Size - 1
    BY <2>1, <2>3
  <2>. QED
    BY <2>3, <2>4, <2>5
<1>3. ASSUME NEW i \in E, NEW y \in 0 .. Size - 1, NEW z \in 0 .. Size - 1,
             Next0(i, y), Next0(i, z)
      PROVE  y = z
  <2>1. i \in 0 .. Size - 1
    BY <1>1
  <2>2. ~(y < z)
    <3>1. SUFFICES ASSUME y < z PROVE FALSE
      OBVIOUS
    <3>2. y \in i .. z - 1
      BY <1>3, <2>1, <3>1
    <3>. QED
      BY <1>3, <3>2
  <2>3. ~(z < y)
    <3>1. SUFFICES ASSUME z < y PROVE FALSE
      OBVIOUS
    <3>2. z \in i .. y - 1
      BY <1>3, <2>1, <3>1
    <3>. QED
      BY <1>3, <3>2
  <2>. QED
    BY <2>2, <2>3
<1>. HIDE DEF Next0
<1>4. ASSUME NEW i \in E, NEW z \in 0 .. Size - 1, Next0(i, z)
      PROVE  f[i] = z - i
  <2>1. (CHOOSE y \in 0 .. Size - 1 : Next0(i, y)) = z
    BY <1>3, <1>4
  <2>. QED
    BY <2>1
<1>. HIDE DEF f
<1>5. ASSUME NEW i \in E PROVE f[i] = IF mem[i] = 0 THEN 0 ELSE 1 + f[i + 1]
  <2>1. i \in 0 .. Size - 1
    BY <1>1
  <2>2. PICK z \in 0 .. Size - 1 : Next0(i, z)
    BY <1>2
  <2>3. CASE mem[i] = 0
    <3>1. z = i
      <4>1. ~(i \in i .. z - 1) /\ z \in i .. Size - 1
        BY <2>2, <2>3 DEF Next0
      <4>. QED
        BY <2>1, <4>1
    <3>. QED
      BY <1>4, <2>1, <2>2, <2>3, <3>1
  <2>4. CASE mem[i] # 0
    <3>1. z # i /\ z \in i .. Size - 1 /\ mem[z] = 0
      BY <2>2, <2>4 DEF Next0
    <3>2. z \in i + 1 .. Size - 1 /\ i + 1 \in 0 .. Size - 1 /\ z >= i + 1
      BY <2>1, <3>1
    <3>3. i + 1 \in E
      BY <1>1, <3>1, <3>2
    <3>4. \A j \in i + 1 .. z - 1 : j \in i .. z - 1
      BY <2>1
    <3>5. Next0(i + 1, z)
      BY <2>2, <3>1, <3>2, <3>4 DEF Next0
    <3>6. f[i + 1] = z - (i + 1) /\ f[i] = z - i
      BY <1>4, <2>2, <3>3, <3>5
    <3>. QED
      BY <2>1, <2>4, <3>6
  <2>. QED
    BY <2>3, <2>4
<1>6. IsLength(f, mem)
  <2>1. f = [i \in E |-> f[i]]
    BY DEF f
  <2>. QED
    BY <1>5, <2>1 DEF IsLength, E
<1>7. IsLength(c, mem)
  BY <1>6
<1>8. strlen(mem, s) = c[s]
  BY DEF strlen, IsLength, Inside
<1>. HIDE DEF c
<1>9. s \in E
  BY <1>1
<1>10. PICK z \in 0 .. Size - 1 : Next0(s, z)
  BY <1>2, <1>9
<1> DEFINE n == z - s
           S == {k \in 0 .. n : c[z - k] = k}
<1>11. n \in Nat /\ z \in s .. Size - 1 /\ mem[z] = 0 /\ \A j \in s .. z - 1 : mem[j] # 0
  BY <1>10 DEF Next0
<1>12. ASSUME NEW i \in s .. z
       PROVE  i \in E /\ c[i] = IF mem[i] = 0 THEN 0 ELSE 1 + c[i + 1]
  <2>1. i \in 0 .. Size - 1 /\ z >= i
    BY <1>11
  <2>2. i \in E
    BY <1>1, <1>11, <2>1
  <2>. QED
    BY <1>7, <2>2 DEF IsLength, E
<1>13. 0 \in S
  <2>1. z \in s .. z /\ z - 0 = z
    BY <1>11
  <2>. QED
    BY <1>11, <1>12, <2>1
<1>14. ASSUME NEW k \in S, k < n PROVE k + 1 \in S
  <2>1. /\ z - (k + 1) \in s .. z - 1 /\ z - (k + 1) \in s .. z
        /\ (z - (k + 1)) + 1 = z - k /\ k + 1 \in 0 .. n
    BY <1>11, <1>14
  <2>2. c[z - (k + 1)] = 1 + c[z - k]
    BY <1>11, <1>12, <2>1
  <2>. QED
    BY <1>14, <2>1, <2>2
<1>15. n \in S
  <2>1. S = 0 .. n
    BY <1>11, <1>13, <1>14, UpTo
  <2>. QED
    BY <1>11, <2>1
<1>16. c[s] = z - s
  BY <1>11, <1>15
<1>. QED
  BY <1>8, <1>11, <1>16

(* What a function of string.c has returned. *)
Returned ==
    LET a == call.area
    IN  /\ Done("memcpy") => result = memcpy(call.mem, a.s1, a.s2, a.n)
        /\ Done("memmove") => result = memmove(call.mem, a.s1, a.s2, a.n)
        /\ Done("memcmp") => result = memcmp(call.mem, a.s1, a.s2, a.n)
        /\ Done("memset") => result = memset(call.mem, a.s1, call.c, a.n)
        /\ Done("strlen") => result = strlen(call.mem, a.s1)

(* What a function of string.c has been called with. *)
Called ==
    call.f \in {"memcpy", "memmove", "memcmp", "memset", "strlen"} =>
        /\ call.mem \in Memories /\ call.area \in Areas
        /\ call.f = "memset" => call.c \in Bytes \cup {ByteSpan}
        /\ call.f = "strlen" => \E i \in call.area.s1 .. Size - 1 : call.mem[i] = 0

(* The functions are called as they should be, and return what they compute. *)
LEMMA LibraryInductive == LibrarySpec => [](Called /\ Returned)
<1>1. ASSUME LibraryInit PROVE Called /\ Returned
  <2>1. Returned
    BY <1>1 DEF LibraryInit, Returned, Done
  <2>2. CASE NumberCall
    <3>1. call.f \notin {"memcpy", "memmove", "memcmp", "memset", "strlen"}
      BY <2>2 DEF NumberCall
    <3>. QED
      BY <2>1, <3>1 DEF Called
  <2>3. CASE MemoryCall
    <3>1. Called
      BY <2>3 DEF MemoryCall, Called
    <3>. QED
      BY <2>1, <3>1
  <2>. QED
    BY <1>1, <2>2, <2>3 DEF LibraryInit
<1>2. ASSUME Called /\ Returned, [LibraryNext]_(LibraryVars) PROVE Called' /\ Returned'
  <2>1. CASE UNCHANGED LibraryVars
    BY <1>2, <2>1 DEF LibraryVars, Called, Returned, Done
  <2>2. CASE LibraryNext
    <3>1. UNCHANGED call
      BY <2>2 DEF LibraryNext, Return
    <3>2. Called'
      BY <1>2, <3>1 DEF Called
    <3>3. Returned'
      BY <2>2, <3>1 DEF LibraryNext, Return, Returned, Done
    <3>. QED
      BY <3>2, <3>3
  <2>. QED
    BY <1>2, <2>1, <2>2
<1>. QED
  BY <1>1, <1>2, PTL DEF LibrarySpec

(* The functions of string.c do to memory, or say about it, what their standard
   asks of them, for a memory and bytes of every size and areas of every
   length: memcpy for areas that do not overlap and for those copied downwards,
   memmove unless it moves upwards, memset, memcmp and strlen (string.c). *)
THEOREM StringsDoTheirJob == LibrarySpec => []BytesAreRight
<1>. Size \in Nat /\ ByteSpan \in Nat \ {0, 1}
  BY LibraryAssumption, StringsAssumption
<1>1. ASSUME Called, Returned PROVE BytesAreRight
  <2> DEFINE a == call.area
             mem == call.mem
  <2>1. ASSUME call.f \in {"memcpy", "memmove", "memcmp", "memset", "strlen"}
        PROVE  /\ mem \in Memories /\ a.s1 \in Nat /\ a.s2 \in Nat /\ a.n \in Nat
               /\ a.s1 + a.n < Size /\ a.s2 + a.n < Size /\ a.s1 \in 0 .. Size - 1
    BY <1>1, <2>1 DEF Called, Areas
  <2>. HIDE DEF a, mem
  <2>2. CopyIsRight
    <3>1. SUFFICES ASSUME Done("memcpy"), a.s1 <= a.s2 \/ a.s1 >= a.s2 + a.n
                   PROVE  Copied
      BY DEF CopyIsRight, a
    <3>2. call.f = "memcpy" /\ result = memcpy(mem, a.s1, a.s2, a.n)
      BY <1>1, <3>1 DEF Returned, Done, a, mem
    <3>3. \A i \in 0 .. Size - 1 :
             result[i] = IF i \in a.s1 .. a.s1 + a.n - 1
                           THEN mem[i + a.s2 - a.s1] ELSE mem[i]
      BY <2>1, <3>1, <3>2, CopyCopies
    <3>. QED
      BY <3>3 DEF Copied, a, mem
  <2>3. MoveIsRight
    <3>1. SUFFICES ASSUME Done("memmove"), a.s1 <= a.s2
                   PROVE  Copied
      BY DEF MoveIsRight, a
    <3>2. call.f = "memmove" /\ result = memmove(mem, a.s1, a.s2, a.n)
      BY <1>1, <3>1 DEF Returned, Done, a, mem
    <3>3. \A i \in 0 .. Size - 1 :
             result[i] = IF i \in a.s1 .. a.s1 + a.n - 1
                           THEN mem[i + a.s2 - a.s1] ELSE mem[i]
      <4>1. CASE a.s1 < a.s2
        <5>1. result = memcpy(mem, a.s1, a.s2, a.n)
          BY <3>2, <4>1 DEF memmove
        <5>. QED
          BY <2>1, <3>1, <3>2, <5>1, CopyCopies
      <4>2. CASE a.s1 = a.s2
        <5>1. result = mem
          BY <2>1, <3>2, <4>2, MoveToItself
        <5>2. \A i \in 0 .. Size - 1 : i + a.s2 - a.s1 = i
          BY <2>1, <3>2, <4>2
        <5>. QED
          BY <5>1, <5>2
      <4>. QED
        BY <2>1, <3>1, <3>2, <4>1, <4>2
    <3>. QED
      BY <3>3 DEF Copied, a, mem
  <2>4. FillIsRight
    <3>1. SUFFICES ASSUME Done("memset") PROVE FillIsRight
      BY DEF FillIsRight
    <3>2. call.f = "memset" /\ result = memset(mem, a.s1, call.c, a.n)
      BY <1>1, <3>1 DEF Returned, Done, a, mem
    <3>3. call.c \in Nat
      BY <1>1, <3>2 DEF Called, Bytes
    <3> DEFINE c == call.c
    <3>4. Filled(result, mem, a.s1, c, a.n)
      <4>1. /\ mem \in Memories /\ a.s1 \in Nat /\ a.n \in Nat /\ c \in Nat
            /\ a.s1 + a.n < Size
        BY <2>1, <3>2, <3>3
      <4>2. Size \in Nat /\ ByteSpan \in Nat \ {0, 1}
        BY LibraryAssumption, StringsAssumption
      <4>. HIDE DEF c
      <4>3. Filled(memset(mem, a.s1, c, a.n), mem, a.s1, c, a.n)
        BY ONLY <4>1, <4>2, FillFills
      <4>. QED
        BY <3>2, <4>3 DEF c
    <3>. QED
      BY <3>4 DEF Filled, FillIsRight, a, mem
  <2>5. CompareIsRight
    <3>1. SUFFICES ASSUME Done("memcmp") PROVE CompareIsRight
      BY DEF CompareIsRight
    <3>2. call.f = "memcmp" /\ result = memcmp(mem, a.s1, a.s2, a.n)
      BY <1>1, <3>1 DEF Returned, Done, a, mem
    <3> DEFINE x == Number(a.s1, a.n)
               y == Number(a.s2, a.n)
    <3>3. result \in Int /\ x \in Nat /\ y \in Nat
          /\ (result < 0 <=> x < y) /\ (result > 0 <=> x > y)
      BY <2>1, <3>2, CompareCompares DEF Number, mem
    <3>. HIDE DEF x, y
    <3>4. (result < 0 <=> x - y < 0) /\ (result > 0 <=> x - y > 0)
      BY ONLY <3>3
    <3>. QED
      BY <3>4 DEF CompareIsRight, a, x, y
  <2>6. LengthIsRight
    <3>1. SUFFICES ASSUME Done("strlen") PROVE LengthIsRight
      BY DEF LengthIsRight
    <3>2. call.f = "strlen" /\ result = strlen(mem, a.s1)
      BY <1>1, <3>1 DEF Returned, Done, a, mem
    <3>3. \E i \in a.s1 .. Size - 1 : mem[i] = 0
      BY <1>1, <3>2 DEF Called, a, mem
    <3>4. PICK z \in a.s1 .. Size - 1 :
             /\ mem[z] = 0 /\ \A j \in a.s1 .. z - 1 : mem[j] # 0
             /\ strlen(mem, a.s1) = z - a.s1
      BY <2>1, <3>2, <3>3, LengthFound
    <3>5. mem[a.s1 + result] = 0
      <4>1. a.s1 + result = z
        BY <2>1, <3>2, <3>4
      <4>. QED
        BY <3>4, <4>1
    <3>6. ASSUME NEW i \in 0 .. result - 1 PROVE mem[a.s1 + i] # 0
      <4>1. a.s1 + i \in a.s1 .. z - 1
        BY <2>1, <3>2, <3>4
      <4>. QED
        BY <3>4, <4>1
    <3>. QED
      BY <3>5, <3>6 DEF LengthIsRight, a, mem
  <2>. QED
    BY <2>2, <2>3, <2>4, <2>5, <2>6 DEF BytesAreRight
<1>. QED
  BY <1>1, LibraryInductive, PTL

(* An absolute value. *)
LEMMA AbsOf ==
    ASSUME NEW x \in Int
    PROVE  Abs(x) \in Nat /\ (Abs(x) = x \/ Abs(x) = -x)
           /\ (Abs(x) = 0 <=> x = 0)
BY DEF Abs

(* The division of natural numbers. *)
LEMMA DivideNat ==
    ASSUME NEW m \in Nat, NEW n \in Nat, n # 0
    PROVE  /\ m \div n \in Nat
           /\ m - n * (m \div n) \in 0 .. n - 1
OBVIOUS

(* The division of C: the remainder is smaller than the divisor, and what is
   divided is no smaller than the parts it is put together from. *)
LEMMA Divide ==
    ASSUME NEW x \in Int, NEW y \in Int, y # 0
    PROVE  /\ Quot(x, y) \in Int /\ Rem(x, y) \in Int
           /\ x = y * Quot(x, y) + Rem(x, y)
           /\ Abs(Rem(x, y)) < Abs(y)
           /\ Abs(x) = Abs(Quot(x, y)) * Abs(y) + Abs(Rem(x, y))
<1> DEFINE m == Abs(x)
           n == Abs(y)
           q == m \div n
           p == n * q
           Q == Quot(x, y)
           R == Rem(x, y)
<1>1. m \in Nat /\ n \in Nat /\ n # 0 /\ (m = x \/ m = -x) /\ (n = y \/ n = -y)
  BY AbsOf
<1>2. m = (IF x < 0 THEN -x ELSE x) /\ n = (IF y < 0 THEN -y ELSE y)
  BY DEF Abs
<1>. HIDE DEF m, n
<1>3. q \in Nat /\ m - p \in 0 .. n - 1
  BY <1>1, DivideNat
<1>4. Q = IF (x < 0) = (y < 0) THEN q ELSE -q
  BY DEF Quot, m, n
<1>. HIDE DEF q
<1>5. p \in Int
  BY <1>1, <1>3
<1>6. R = x - y * Q
  BY DEF Rem
<1>. HIDE DEF Q, R
<1>7. y * Q = IF x < 0 THEN -p ELSE p
  <2>1. CASE x < 0 /\ y < 0
    BY <1>2, <1>3, <1>4, <2>1
  <2>2. CASE x < 0 /\ ~(y < 0)
    BY <1>2, <1>3, <1>4, <2>2
  <2>3. CASE ~(x < 0) /\ y < 0
    BY <1>2, <1>3, <1>4, <2>3
  <2>4. CASE ~(x < 0) /\ ~(y < 0)
    BY <1>2, <1>3, <1>4, <2>4
  <2>. QED
    BY <2>1, <2>2, <2>3, <2>4
<1>8. R = IF x < 0 THEN -(m - p) ELSE m - p
  BY <1>1, <1>2, <1>5, <1>6, <1>7
<1>9. Abs(R) = m - p
  BY <1>1, <1>3, <1>5, <1>8 DEF Abs
<1>10. Abs(Q) = q
  BY <1>3, <1>4 DEF Abs
<1>11. Abs(Q) * n = p
  BY <1>1, <1>3, <1>10
<1>12. Q \in Int /\ R \in Int /\ x = y * Q + R
  <2>1. Q \in Int /\ R \in Int
    BY <1>1, <1>3, <1>4, <1>5, <1>8
  <2> DEFINE t == y * Q
  <2>2. t \in Int /\ R = x - t
    BY <1>5, <1>6, <1>7
  <2>. HIDE DEF t
  <2>3. x = t + R
    BY <2>1, <2>2
  <2>. QED
    BY <2>1, <2>3 DEF t
<1>13. Abs(R) < n
  BY <1>1, <1>3, <1>5, <1>9
<1>14. m = Abs(Q) * n + Abs(R)
  BY <1>1, <1>5, <1>9, <1>11
<1>. QED
  BY <1>12, <1>13, <1>14 DEF m, n, Q, R

(* The equation of the calls of euclid. *)
AreCalls(f, max) ==
    f = [c \in (-max .. max) \X (-max .. max) |->
            IF c[2] = 0 THEN [d |-> c[1], x |-> 1, y |-> 0]
            ELSE AfterCall(c[1], c[2], f[<<c[2], Rem(c[1], c[2])>>])]

aux(max) == CHOOSE f : AreCalls(f, max)

(* There are such calls: those with the smaller second argument come first. *)
LEMMA EuclidCalls ==
    ASSUME NEW max \in Nat
    PROVE  \A a, b \in -max .. max :
              aux(max)[<<a, b>>] =
                 IF b = 0 THEN [d |-> a, x |-> 1, y |-> 0]
                 ELSE AfterCall(a, b, aux(max)[<<b, Rem(a, b)>>])
<1> DEFINE D == -max .. max
           c == aux(max)
           Holds(f, a, b) ==
               f[<<a, b>>] = IF b = 0 THEN [d |-> a, x |-> 1, y |-> 0]
                         ELSE AfterCall(a, b, f[<<b, Rem(a, b)>>])
           Upto(f, k) == \A a, b \in D : Abs(b) <= k => Holds(f, a, b)
           S == {k \in 0 .. max : \E f : Upto(f, k)}
<1>1. \A x \in D : x \in Int /\ Abs(x) \in 0 .. max /\ (Abs(x) = 0 <=> x = 0)
  BY DEF Abs
<1>d. \A x \in Int : x \in D <=> -max <= x /\ x <= max
  OBVIOUS
<1>. HIDE DEF D
<1>2. 0 \in S
  <2> DEFINE f == [p \in D \X D |-> [d |-> p[1], x |-> 1, y |-> 0]]
  <2>1. \A a, b \in D : f[<<a, b>>] = [d |-> a, x |-> 1, y |-> 0]
    OBVIOUS
  <2>. HIDE DEF f
  <2>2. Upto(f, 0)
    <3>1. ASSUME NEW a \in D, NEW b \in D, Abs(b) <= 0 PROVE b = 0
      BY <1>1, <3>1
    <3>. QED
      BY <2>1, <3>1
  <2>3. \E h : Upto(h, 0)
    BY <2>2, Zenon
  <2>. HIDE DEF Upto
  <2>. QED
    BY <2>3
<1>3. ASSUME NEW k \in S, k < max PROVE k + 1 \in S
  <2>1. PICK f : Upto(f, k)
    OBVIOUS
  <2> DEFINE g == [p \in D \X D |->
                      IF Abs(p[2]) <= k THEN f[p]
                      ELSE AfterCall(p[1], p[2], f[<<p[2], Rem(p[1], p[2])>>])]
  <2>2. \A a, b \in D : g[<<a, b>>] = IF Abs(b) <= k THEN f[<<a, b>>]
                                  ELSE AfterCall(a, b, f[<<b, Rem(a, b)>>])
    OBVIOUS
  <2>. HIDE DEF g
  <2>3. k \in 0 .. max /\ k + 1 \in 0 .. max
    BY <1>3
  <2>4. ASSUME NEW a \in D, NEW b \in D, Abs(b) <= k + 1, b # 0
        PROVE  Rem(a, b) \in D /\ Abs(Rem(a, b)) <= k
    <3>1. Rem(a, b) \in Int /\ Abs(Rem(a, b)) < Abs(b)
      BY <1>1, <2>4, Divide
    <3> DEFINE r == Rem(a, b)
               m == Abs(b)
               t == Abs(r)
    <3>2. m \in 0 .. max /\ t \in Nat /\ (t = r \/ t = -r) /\ t < m /\ m <= k + 1 /\ r \in Int
      BY <1>1, <2>4, <3>1, AbsOf
    <3>. HIDE DEF r, m, t
    <3>3. r \in D /\ t <= k
      BY <1>d, <2>3, <3>2
    <3>. QED
      BY <3>3 DEF r, t
  <2>5. ASSUME NEW a \in D, NEW b \in D, Abs(b) <= k + 1 PROVE Holds(g, a, b)
    <3>1. CASE b = 0
      <4>1. Abs(b) <= k
        BY <1>1, <2>3, <3>1
      <4>2. Holds(f, a, b)
        BY <2>1, <4>1
      <4>. QED
        BY <2>2, <3>1, <4>1, <4>2
    <3>2. CASE b # 0
      <4>1. g[<<b, Rem(a, b)>>] = f[<<b, Rem(a, b)>>]
        BY <2>2, <2>4, <2>5, <3>2
      <4>2. g[<<a, b>>] = AfterCall(a, b, f[<<b, Rem(a, b)>>])
        <5>1. CASE Abs(b) <= k
          <6>1. Holds(f, a, b)
            BY <2>1, <5>1
          <6>. QED
            BY <2>2, <3>2, <5>1, <6>1
        <5>2. CASE ~(Abs(b) <= k)
          BY <2>2, <5>2
        <5>. QED
          BY <5>1, <5>2
      <4>. QED
        BY <3>2, <4>1, <4>2
    <3>. QED
      BY <3>1, <3>2
  <2>6. \E h : Upto(h, k + 1)
    BY <2>5
  <2>. HIDE DEF Upto
  <2>. QED
    BY <2>3, <2>6
<1>4. max \in S
  <2>. HIDE DEF S
  <2>1. S \in SUBSET (0 .. max)
    BY DEF S
  <2>2. S = 0 .. max
    BY <1>2, <1>3, <2>1, UpTo
  <2>. QED
    BY <2>2
<1>5. PICK f : Upto(f, max)
  BY <1>4
<1>6. \A a, b \in D : Holds(f, a, b)
  <2>. HIDE DEF Holds
  <2>1. \A b \in D : Abs(b) <= max
    BY <1>1
  <2>. QED
    BY <1>5, <2>1
<1>7. \E g : AreCalls(g, max)
  <2> DEFINE g == [p \in D \X D |-> f[p]]
  <2>1. \A a, b \in D : g[<<a, b>>] = f[<<a, b>>]
    OBVIOUS
  <2>2. ASSUME NEW a \in D, NEW b \in D, b # 0 PROVE Rem(a, b) \in D
    <3>1. Rem(a, b) \in Int /\ Abs(Rem(a, b)) < Abs(b)
      BY <1>1, <2>2, Divide
    <3> DEFINE r == Rem(a, b)
               m == Abs(b)
               t == Abs(r)
    <3>2. m \in 0 .. max /\ t \in Nat /\ (t = r \/ t = -r) /\ t < m /\ r \in Int
      BY <1>1, <2>2, <3>1, AbsOf
    <3>. HIDE DEF r, m, t
    <3>3. r \in D
      BY <1>d, <3>2
    <3>. QED
      BY <3>3 DEF r
  <2>. HIDE DEF g
  <2>3. ASSUME NEW a \in D, NEW b \in D PROVE Holds(g, a, b)
    <3>1. Holds(f, a, b)
      BY <1>6
    <3>2. CASE b = 0
      BY <2>1, <3>1, <3>2
    <3>3. CASE b # 0
      <4>1. g[<<b, Rem(a, b)>>] = f[<<b, Rem(a, b)>>]
        BY <2>1, <2>2, <3>3
      <4>. QED
        BY <2>1, <3>1, <3>3, <4>1
    <3>. QED
      BY <3>2, <3>3
  <2>4. g = [p \in D \X D |-> g[p]]
    BY DEF g
  <2>5. AreCalls(g, max)
    <3>1. \A p \in D \X D :
             g[p] = IF p[2] = 0 THEN [d |-> p[1], x |-> 1, y |-> 0]
                    ELSE AfterCall(p[1], p[2], g[<<p[2], Rem(p[1], p[2])>>])
      BY <2>3
    <3>. QED
      BY <2>4, <3>1 DEF AreCalls, D
  <2>. QED
    BY <2>5
<1>8. AreCalls(c, max)
  BY <1>7 DEF aux
<1>. HIDE DEF c
<1>9. \A a, b \in D : Holds(c, a, b)
  <2>1. \A p \in D \X D :
           c[p] = IF p[2] = 0 THEN [d |-> p[1], x |-> 1, y |-> 0]
                  ELSE AfterCall(p[1], p[2], c[<<p[2], Rem(p[1], p[2])>>])
    BY <1>8 DEF AreCalls, D
  <2>. QED
    BY <2>1
<1>. QED
  BY <1>9 DEF D, c

Divides(d, n) == \E k \in Int : n = d * k

(* What euclid finds: a greatest common divisor, up to the sign, and how it is
   put together from a and b, with factors that are smaller, or 1. *)
GcdOf(r, a, b) ==
    /\ r.d \in Int /\ r.x \in Int /\ r.y \in Int
    /\ a * r.x + b * r.y = r.d
    /\ Divides(r.d, a) /\ Divides(r.d, b)
    /\ \A e \in Int : Divides(e, a) /\ Divides(e, b) => Divides(e, r.d)
    /\ r.d = a \/ r.d = b \/ Abs(r.d) < Abs(b)
    /\ Abs(r.x) <= 1 \/ Abs(r.x) < Abs(b)
    /\ Abs(r.y) <= 1 \/ Abs(r.y) < Abs(a)
    /\ b = 0 => r.y = 0

(* What divides two numbers divides their combinations. *)
LEMMA DividesSum ==
    ASSUME NEW d \in Int, NEW m \in Int, NEW n \in Int, NEW q \in Int,
           Divides(d, m), Divides(d, n)
    PROVE  Divides(d, m * q + n)
<1>1. PICK i \in Int : m = d * i
  BY DEF Divides
<1>2. PICK j \in Int : n = d * j
  BY DEF Divides
<1>3. i * q + j \in Int
  OBVIOUS
<1>4. d * (i * q + j) = (d * i) * q + d * j
  OBVIOUS
<1>5. m * q + n = d * (i * q + j)
  BY <1>1, <1>2, <1>4
<1>. QED
  BY <1>3, <1>5 DEF Divides

(* The innermost call. *)
LEMMA GcdOfZero ==
    ASSUME NEW a \in Int
    PROVE  GcdOf([d |-> a, x |-> 1, y |-> 0], a, 0)
<1>1. Divides(a, a) /\ Divides(a, 0)
  <2>1. a = a * 1 /\ 0 = a * 0
    OBVIOUS
  <2>. QED
    BY <2>1 DEF Divides
<1>2. Abs(1) <= 1 /\ Abs(0) <= 1
  BY DEF Abs
<1>3. a * 1 + 0 * 0 = a
  OBVIOUS
<1>. QED
  BY <1>1, <1>2, <1>3 DEF GcdOf

(* The absolute value of a product. *)
LEMMA AbsProduct ==
    ASSUME NEW m \in Int, NEW n \in Int
    PROVE  Abs(m * n) = Abs(m) * Abs(n)
<1> DEFINE i == Abs(m)
           j == Abs(n)
           p == i * j
<1>1. i \in Nat /\ j \in Nat /\ (i = m \/ i = -m) /\ (j = n \/ j = -n)
  BY AbsOf
<1>. HIDE DEF i, j
<1>2. p \in Nat
  BY <1>1
<1>3. m * n = p \/ m * n = -p
  <2>1. m * n = i * j \/ m * n = -(i * j)
    BY <1>1
  <2>. QED
    BY <2>1
<1>. HIDE DEF p
<1>4. Abs(m * n) = p
  BY <1>2, <1>3 DEF Abs
<1>. QED
  BY <1>4 DEF p, i, j

(* The absolute value of a difference. *)
LEMMA AbsDifference ==
    ASSUME NEW m \in Int, NEW n \in Int
    PROVE  Abs(m - n) <= Abs(m) + Abs(n)
BY DEF Abs

(* A call makes of what the call inside it has found what it should find. *)
LEMMA EuclidStep ==
    ASSUME NEW a \in Int, NEW b \in Int, b # 0,
           NEW s, GcdOf(s, b, Rem(a, b))
    PROVE  GcdOf(AfterCall(a, b, s), a, b)
<1> DEFINE q == Quot(a, b)
           r == Rem(a, b)
           t == AfterCall(a, b, s)
<1>1. q \in Int /\ r \in Int /\ a = b * q + r
      /\ Abs(r) < Abs(b) /\ Abs(a) = Abs(q) * Abs(b) + Abs(r)
  BY Divide
<1>2. t.d = s.d /\ t.x = s.y /\ t.y = s.x - q * s.y
  BY DEF AfterCall
<1>3. GcdOf(s, b, r)
  OBVIOUS
<1>. HIDE DEF q, r, t
<1>4. /\ s.d \in Int /\ s.x \in Int /\ s.y \in Int
      /\ b * s.x + r * s.y = s.d
      /\ Divides(s.d, b) /\ Divides(s.d, r)
      /\ \A e \in Int : Divides(e, b) /\ Divides(e, r) => Divides(e, s.d)
      /\ s.d = b \/ s.d = r \/ Abs(s.d) < Abs(r)
      /\ Abs(s.x) <= 1 \/ Abs(s.x) < Abs(r)
      /\ Abs(s.y) <= 1 \/ Abs(s.y) < Abs(b)
      /\ r = 0 => s.y = 0
  BY <1>3 DEF GcdOf
<1> DEFINE sx == s.x
           sy == s.y
<1>5. sx \in Int /\ sy \in Int /\ q * sy \in Int
  BY <1>1, <1>4
<1>6. t.d \in Int /\ t.x \in Int /\ t.y \in Int
  BY <1>2, <1>4, <1>5
<1>7. a * t.x + b * t.y = t.d
  <2>1. a * t.x + b * t.y = (b * q + r) * sy + b * (sx - q * sy)
    BY <1>1, <1>2
  <2>. HIDE DEF sx, sy
  <2>2. (b * q + r) * sy + b * (sx - q * sy) = b * sx + r * sy
    BY <1>1, <1>5
  <2>3. b * sx + r * sy = t.d
    BY <1>2, <1>4 DEF sx, sy
  <2>. QED
    BY <2>1, <2>2, <2>3
<1>8. Divides(t.d, a) /\ Divides(t.d, b)
  <2>1. Divides(s.d, b * q + r)
    BY <1>1, <1>4, DividesSum
  <2>. QED
    BY <1>1, <1>2, <1>4, <2>1
<1>9. ASSUME NEW e \in Int, Divides(e, a), Divides(e, b) PROVE Divides(e, t.d)
  <2> DEFINE z == -q
  <2>1. z \in Int /\ b * z + a = r
    <3> DEFINE p == b * q
    <3>1. p \in Int /\ b * z = -p /\ a = p + r
      BY <1>1
    <3>2. z \in Int
      BY <1>1
    <3>. HIDE DEF p, z
    <3>. QED
      BY <1>1, <3>1, <3>2
  <2>. HIDE DEF z
  <2>2. Divides(e, b * z + a)
    BY <1>9, <2>1, DividesSum
  <2>3. Divides(e, r)
    BY <2>1, <2>2
  <2>. QED
    BY <1>2, <1>4, <1>9, <2>3
<1>. HIDE DEF sx, sy
<1> DEFINE A == Abs(a)
           B == Abs(b)
           R == Abs(r)
           Q == Abs(q)
           X == Abs(sx)
           Y == Abs(sy)
<1>10. /\ A \in Nat /\ B \in Nat /\ R \in Nat /\ Q \in Nat /\ X \in Nat /\ Y \in Nat
       /\ B >= 1 /\ (R = 0 <=> r = 0)
  BY <1>1, <1>5, AbsOf
<1>11. A = Q * B + R /\ R < B
  BY <1>1
<1>12. (X <= 1 \/ X < R) /\ (Y <= 1 \/ Y < B)
  BY <1>4 DEF sx, sy
<1>13. Abs(t.x) <= 1 \/ Abs(t.x) < B
  BY <1>2, <1>12 DEF sx, sy
<1>14. Abs(t.y) <= X + Q * Y
  <2>1. Abs(q * sy) = Q * Y
    BY <1>1, <1>5, AbsProduct
  <2>2. Abs(sx - q * sy) <= Abs(sx) + Abs(q * sy)
    BY <1>5, AbsDifference
  <2>. QED
    BY <1>2, <2>1, <2>2 DEF sx, sy
<1>15. Abs(t.y) <= 1 \/ Abs(t.y) < A
  <2>1. Abs(t.y) \in Nat
    BY <1>6, AbsOf
  <2> DEFINE T == Abs(t.y)
             p == Q * Y
             o == Q * B
  <2>2. T \in Nat /\ p \in Nat /\ o \in Nat /\ T <= X + p /\ A = o + R
    BY <1>10, <1>11, <1>14, <2>1
  <2>3. Y < B => p + Q <= o
    <3>1. SUFFICES ASSUME Y < B PROVE p + Q <= o
      OBVIOUS
    <3>. HIDE DEF A, B, R, Q, X, Y
    <3>2. o = p + Q + Q * (B - Y - 1) /\ B - Y - 1 \in Nat
      BY <1>10, <3>1
    <3>3. Q * (B - Y - 1) \in Nat
      BY <1>10, <3>2
    <3>. HIDE DEF p, o
    <3>. QED
      BY <1>10, <2>2, <3>2, <3>3
  <2>4. r = 0 => p = 0 /\ X <= 1
    <3>1. SUFFICES ASSUME r = 0 PROVE p = 0 /\ X <= 1
      OBVIOUS
    <3>2. Y = 0
      BY <1>4, <1>5, <3>1, AbsOf DEF sy
    <3>. HIDE DEF A, B, Q, X, Y
    <3>3. p = 0
      BY <1>10, <3>2
    <3>. QED
      BY <1>10, <1>12, <3>1, <3>3
  <2>5. Q = 0 => p = 0
    <3>. HIDE DEF Q, Y
    <3>. QED
      BY <1>10
  <2>. HIDE DEF T, p, o, A, B, R, Q, X, Y
  <2>6. T <= 1 \/ T < A
    <3>1. CASE r = 0
      BY <1>10, <2>2, <2>4, <3>1
    <3>2. CASE r # 0
      <4>1. R >= 1 /\ Y < B /\ X <= R
        BY <1>10, <1>11, <1>12, <3>2
      <4>. QED
        BY <1>10, <1>12, <2>2, <2>3, <2>5, <4>1
    <3>. QED
      BY <3>1, <3>2
  <2>. QED
    BY <2>6 DEF T
<1>16. t.d = a \/ t.d = b \/ Abs(t.d) < Abs(b)
  BY <1>1, <1>2, <1>4, <1>6, AbsOf
<1>17. GcdOf(t, a, b)
  BY <1>6, <1>7, <1>8, <1>9, <1>13, <1>15, <1>16 DEF GcdOf, A, B
<1>. QED
  BY <1>17 DEF t

(* The program euclid finds a greatest common divisor of what it read, as a
   combination of it with factors that are smaller, or 1, whatever the size of
   the numbers (euclid.c). *)
THEOREM EuclidFindsGcd ==
    ASSUME NEW a \in Int, NEW b \in Int
    PROVE  GcdOf(euclid(a, b), a, b)
<1> DEFINE max == IF Abs(a) > Abs(b) THEN Abs(a) ELSE Abs(b)
           D == -max .. max
           c == aux(max)
           Found(k) == \A x, y \in D : Abs(y) <= k => GcdOf(c[<<x, y>>], x, y)
           S == {k \in 0 .. max : Found(k)}
<1>0. euclid(a, b) = c[<<a, b>>]
  BY DEF euclid, aux, AreCalls
<1>m. max \in Nat /\ a \in D /\ b \in D
  BY DEF Abs
<1>. HIDE DEF max
<1>1. \A x, y \in D :
         c[<<x, y>>] = IF y = 0 THEN [d |-> x, x |-> 1, y |-> 0]
                       ELSE AfterCall(x, y, c[<<y, Rem(x, y)>>])
  BY <1>m, EuclidCalls
<1>. HIDE DEF c
<1>2. \A x \in D : x \in Int /\ Abs(x) \in 0 .. max /\ (Abs(x) = 0 <=> x = 0)
  BY <1>m DEF Abs
<1>3. \A x \in Int : Abs(x) <= max => x \in D
  BY <1>m DEF Abs
<1>4. 0 \in D
  BY <1>m
<1>. HIDE DEF D
<1>5. ASSUME NEW x \in D PROVE GcdOf(c[<<x, 0>>], x, 0)
  <2>2. c[<<x, 0>>] = [d |-> x, x |-> 1, y |-> 0]
    BY <1>1, <1>4
  <2>3. GcdOf([d |-> x, x |-> 1, y |-> 0], x, 0)
    BY <1>2, GcdOfZero
  <2>. QED
    BY <2>2, <2>3
<1>6. 0 \in S
  <2>1. ASSUME NEW x \in D, NEW y \in D, Abs(y) <= 0 PROVE GcdOf(c[<<x, y>>], x, y)
    <3>1. y = 0
      BY <1>2, <2>1
    <3>. QED
      BY <1>5, <3>1
  <2>. QED
    BY <1>m, <2>1
<1>7. ASSUME NEW k \in S, k < max PROVE k + 1 \in S
  <2>1. Found(k) /\ k \in 0 .. max /\ k + 1 \in 0 .. max
    BY <1>7, <1>m
  <2>2. ASSUME NEW x \in D, NEW y \in D, Abs(y) <= k + 1 PROVE GcdOf(c[<<x, y>>], x, y)
    <3>1. CASE y = 0
      BY <1>5, <3>1
    <3>2. CASE y # 0
      <4> DEFINE r == Rem(x, y)
      <4>1. x \in Int /\ y \in Int
        BY <1>2
      <4>2. r \in Int /\ Abs(r) < Abs(y) /\ Abs(r) \in Nat /\ Abs(y) \in Nat
        BY <3>2, <4>1, Divide, AbsOf
      <4>3. r \in D /\ Abs(r) <= k
        <5>1. Abs(r) <= max /\ Abs(r) <= k
          BY <1>2, <1>m, <2>1, <2>2, <4>2
        <5>. QED
          BY <1>3, <4>2, <5>1
      <4>. HIDE DEF r
      <4>4. GcdOf(c[<<y, r>>], y, r)
        BY <2>1, <4>3
      <4>5. GcdOf(AfterCall(x, y, c[<<y, r>>]), x, y)
        BY <3>2, <4>1, <4>4, EuclidStep DEF r
      <4>6. c[<<x, y>>] = AfterCall(x, y, c[<<y, r>>])
        BY <1>1, <3>2 DEF r
      <4>. QED
        BY <4>5, <4>6
    <3>. QED
      BY <3>1, <3>2
  <2>. QED
    BY <2>1, <2>2
<1>8. max \in S
  <2>. HIDE DEF S
  <2>1. S \in SUBSET (0 .. max)
    BY DEF S
  <2>2. S = 0 .. max
    BY <1>6, <1>7, <1>m, <2>1, UpTo
  <2>. QED
    BY <1>m, <2>2
<1>9. GcdOf(c[<<a, b>>], a, b)
  BY <1>2, <1>m, <1>8
<1>. QED
  BY <1>0, <1>9

(* A remainder is 0 when the number is divided. *)
LEMMA Remainder ==
    ASSUME NEW n \in Nat, n # 0, NEW m \in Int
    PROVE  m % n = 0 <=> Divides(n, m)
<1> DEFINE q == m \div n
           r == m % n
           p == n * q
<1>1. q \in Int /\ r \in 0 .. n - 1 /\ m = p + r
  OBVIOUS
<1>2. ASSUME r = 0 PROVE Divides(n, m)
  <2>1. m = n * q
    BY <1>1, <1>2
  <2>. QED
    BY <1>1, <2>1 DEF Divides
<1>3. ASSUME Divides(n, m) PROVE r = 0
  <2>1. PICK k \in Int : m = n * k
    BY <1>3 DEF Divides
  <2>2. r = n * (k - q)
    BY <1>1, <2>1
  <2> DEFINE z == k - q
  <2>3. z \in Int
    BY <1>1
  <2>. HIDE DEF z, q, r
  <2>4. CASE z >= 1
    <3>1. n * z >= n
      BY <2>3, <2>4
    <3>. QED
      BY <1>1, <2>2, <3>1 DEF z
  <2>5. CASE z <= -1
    <3>1. n * z <= -n
      BY <2>3, <2>5
    <3>. QED
      BY <1>1, <2>2, <3>1 DEF z
  <2>6. CASE z = 0
    BY <2>2, <2>6 DEF z
  <2>. QED
    BY <2>3, <2>4, <2>5, <2>6
<1>. QED
  BY <1>2, <1>3

(* The sign of a divisor does not matter. *)
LEMMA DividesAbs ==
    ASSUME NEW d \in Int, NEW n \in Int, Divides(d, n)
    PROVE  Divides(Abs(d), n)
<1>1. PICK k \in Int : n = d * k
  BY DEF Divides
<1>2. CASE Abs(d) = d
  BY <1>2
<1>3. CASE Abs(d) = -d
  <2>1. n = (-d) * (-k) /\ -k \in Int
    BY <1>1
  <2>. QED
    BY <1>3, <2>1 DEF Divides
<1>. QED
  BY <1>2, <1>3, AbsOf

(* A divisor is not beyond the number. *)
LEMMA DivisorBound ==
    ASSUME NEW d \in Nat, NEW n \in Int, n # 0, Divides(d, n)
    PROVE  d # 0 /\ d <= Abs(n)
<1>1. PICK k \in Int : n = d * k
  BY DEF Divides
<1> DEFINE N == Abs(n)
           K == Abs(k)
<1>2. Abs(d) = d
  BY DEF Abs
<1>3. N = d * K
  BY <1>1, <1>2, AbsProduct
<1>4. N \in Nat /\ K \in Nat /\ N # 0
  BY AbsOf
<1>. HIDE DEF N, K
<1>5. K # 0 /\ d # 0
  BY <1>3, <1>4
<1>6. d * K >= d
  BY <1>4, <1>5
<1>7. d # 0 /\ d <= N
  BY <1>3, <1>4, <1>5, <1>6
<1>. QED
  BY <1>7 DEF N

(* What has been divided by euclid, and what has become of it. *)
EuclidCalled ==
    /\ call.f = "euclid" => call.a \in Ints /\ call.b \in Ints
    /\ Done("euclid") => result = euclid(call.a, call.b)

(* An int is an integer, and 1 is one. *)
LEMMA IntsAre ==
    \A n \in Ints : n \in Int /\ Word \div 2 \in Nat
                    /\ -(Word \div 2) <= n /\ n < Word \div 2
<1>1. Word \in Nat /\ Word \div 2 \in Nat
  BY NumbersAssumption
<1>. QED
  BY <1>1 DEF Ints

(* Lines are taken for ints, and euclid is called with them. *)
LEMMA EuclidInductive == LibrarySpec => []EuclidCalled
<1>1. ASSUME LibraryInit PROVE EuclidCalled
  <2>1. ASSUME NEW line \in Lines PROVE toint(line) \in Ints
    <3>1. PICK n \in Nat : line \in [1 .. n -> Int]
      BY LibraryAssumption
    <3>2. n \in Nat /\ 10 \in Nat
      OBVIOUS
    <3>3. Int \in {Nat, Int}
      OBVIOUS
    <3>4. PICK h \in [0 .. n -> Int] : ValueTurns(h, line, 10, n)
      BY ONLY <3>1, <3>2, <3>3, ValueByTurns
    <3>5. Value(line, 10) = h[n] /\ h[n] \in Int
      BY <3>2, <3>4 DEF ValueTurns
    <3>6. toint(line) = AsInt(Value(line, 10))
      BY DEF toint, Value
    <3>7. ASSUME NEW m \in Int PROVE AsInt(m) \in Ints
      <4> DEFINE half == Word \div 2
      <4>1. Word \in Nat /\ Word > 1 /\ half \in Nat /\ Word = 2 * half
        BY NumbersAssumption
      <4>. HIDE DEF half
      <4>2. (m + half) % Word \in 0 .. Word - 1
        BY <4>1
      <4>3. ((m + half) % Word) - half \in -half .. half - 1
        BY <4>1, <4>2
      <4>. QED
        BY <4>3 DEF AsInt, Ints, half
    <3>. QED
      BY <3>5, <3>6, <3>7
  <2>2. call.f = "euclid" => call.a \in Ints /\ call.b \in Ints
    BY <1>1, <2>1 DEF LibraryInit, NumberCall, MemoryCall
  <2>. QED
    BY <1>1, <2>2 DEF LibraryInit, Done, EuclidCalled
<1>2. ASSUME EuclidCalled, [LibraryNext]_(LibraryVars) PROVE EuclidCalled'
  <2>1. CASE UNCHANGED LibraryVars
    BY <1>2, <2>1 DEF LibraryVars, EuclidCalled, Done
  <2>2. CASE LibraryNext
    BY <1>2, <2>2 DEF LibraryNext, Return, EuclidCalled, Done
  <2>. QED
    BY <1>2, <2>1, <2>2
<1>. QED
  BY <1>1, <1>2, PTL DEF LibrarySpec

(* The program euclid, when it has not divided the smallest int by -1, finds the
   greatest common divisor of the two ints that it took the lines for, which are
   what was typed as far as the additions did not wrap, up to the sign; and how to
   combine it from them, with factors that are smaller, or 1, and so are ints too.
   It says nothing of what %d makes of them (euclid.c). *)
THEOREM EuclidIsRight == LibrarySpec => []GcdIsRight
<1>1. ASSUME EuclidCalled PROVE GcdIsRight
  <2>1. SUFFICES ASSUME Done("euclid") PROVE GcdIsRight
    BY DEF GcdIsRight
  <2> DEFINE a == call.a
             b == call.b
             max == IF Abs(a) > Abs(b) THEN Abs(a) ELSE Abs(b)
             d == result.d
             g == Abs(d)
             Common(e) == a % e = 0 /\ b % e = 0
             Greatest(e) == /\ Common(e)
                            /\ \A f \in e + 1 .. max : ~Common(f)
  <2>i. a \in Ints /\ b \in Ints
    BY <1>1, <2>1 DEF EuclidCalled, Done
  <2>2. a \in Int /\ b \in Int /\ GcdOf(result, a, b)
    BY <1>1, <2>1, <2>i, IntsAre, EuclidFindsGcd DEF EuclidCalled, Done
  <2>. HIDE DEF a, b
  <2>3. /\ max \in Nat /\ Abs(a) \in 0 .. max /\ Abs(b) \in 0 .. max
        /\ (max = 0 <=> a = 0 /\ b = 0)
    BY <2>2 DEF Abs
  <2>. HIDE DEF max
  <2>4. a * result.x + b * result.y = d
    BY <2>2 DEF GcdOf
  <2>5. max = 0 => d = 0
    BY <2>2, <2>3, <2>4 DEF GcdOf
  <2>6. {Abs(result.x), Abs(result.y)} \subseteq 0 .. max - 1 \cup {0, 1}
    <3>1. Abs(result.x) \in Nat /\ Abs(result.y) \in Nat
      BY <2>2, AbsOf DEF GcdOf
    <3>2. (Abs(result.x) <= 1 \/ Abs(result.x) < Abs(b))
          /\ (Abs(result.y) <= 1 \/ Abs(result.y) < Abs(a))
      BY <2>2 DEF GcdOf
    <3>. QED
      BY <2>3, <3>1, <3>2
  <2>8. d \in Ints
    <3>1. d \in Int /\ (d = a \/ d = b \/ Abs(d) < Abs(b))
      BY <2>2 DEF GcdOf
    <3>. HIDE DEF d
    <3> DEFINE half == Word \div 2
    <3>2. half \in Nat /\ b \in Int /\ -half <= b /\ b < half
      BY <2>i, IntsAre
    <3>. HIDE DEF half
    <3>3. Abs(d) < Abs(b) => -half <= d /\ d < half
      BY <3>1, <3>2 DEF Abs
    <3>4. Abs(d) < Abs(b) => d \in Ints
      BY <3>1, <3>2, <3>3 DEF Ints, half
    <3>. QED
      BY <2>i, <3>1, <3>4
  <2>7. ASSUME max # 0 PROVE g = CHOOSE e \in 1 .. max : Greatest(e)
    <3>1. d \in Int /\ g \in Nat
      BY <2>2, AbsOf DEF GcdOf
    <3>2. Divides(d, a) /\ Divides(d, b)
      BY <2>2 DEF GcdOf
    <3>. HIDE DEF d
    <3>3. Divides(g, a) /\ Divides(g, b)
      BY <2>2, <3>1, <3>2, DividesAbs
    <3>4. g \in 1 .. max
      <4>1. a # 0 \/ b # 0
        BY <2>3, <2>7
      <4>. HIDE DEF g
      <4>2. g # 0 /\ (g <= Abs(a) \/ g <= Abs(b))
        BY <2>2, <3>1, <3>3, <4>1, DivisorBound
      <4>. QED
        BY <2>3, <3>1, <4>2
    <3>5. \A e \in 1 .. max : Common(e) <=> Divides(e, a) /\ Divides(e, b)
      <4>1. \A e \in 1 .. max : e \in Nat /\ e # 0
        BY <2>3
      <4>. QED
        BY <2>2, <4>1, Remainder
    <3>6. ASSUME NEW e \in g + 1 .. max PROVE ~Common(e)
      <4>1. SUFFICES ASSUME Common(e) PROVE FALSE
        OBVIOUS
      <4>2. e \in 1 .. max /\ e \in Nat /\ ~(e <= g) /\ e \in Int
        BY <2>3, <3>1
      <4>3. Divides(e, a) /\ Divides(e, b)
        BY <3>5, <4>1, <4>2
      <4>4. Divides(e, d)
        BY <2>2, <4>2, <4>3 DEF GcdOf, d
      <4>5. d # 0
        BY <3>1, <3>4, AbsOf
      <4>. QED
        BY <3>1, <4>2, <4>4, <4>5, DivisorBound
    <3>7. Greatest(g)
      BY <3>3, <3>4, <3>5, <3>6
    <3>. HIDE DEF g, Common
    <3>8. ASSUME NEW e \in 1 .. max, Greatest(e) PROVE e = g
      <4>1. ~(e < g)
        <5>1. SUFFICES ASSUME e < g PROVE FALSE
          OBVIOUS
        <5>2. g \in e + 1 .. max
          BY <2>3, <3>4, <5>1
        <5>. QED
          BY <3>7, <3>8, <5>2
      <4>2. ~(g < e)
        <5>1. SUFFICES ASSUME g < e PROVE FALSE
          OBVIOUS
        <5>2. e \in g + 1 .. max
          BY <2>3, <3>4, <5>1
        <5>. QED
          BY <3>7, <3>8, <5>2
      <4>. QED
        BY <2>3, <3>4, <4>1, <4>2
    <3>. HIDE DEF Greatest
    <3>. QED
      BY <3>4, <3>7, <3>8
  <2>. QED
    BY <2>4, <2>5, <2>6, <2>7, <2>8 DEF GcdIsRight, a, b, max, d, g
<1>. QED
  BY <1>1, EuclidInductive, PTL

-----------------------------------------------------------------------------
(* The functions of kprintf.c that print numbers.  Both turn the digits round
   in a word, and read them backwards from there: the second loop undoes the
   turns of the first, as far as the word had room for them. *)

(* What is gone through in N turns, each of which is g. *)
Iterates(f, s, g, N) == f[0] = s /\ \A k \in 1 .. N : f[k] = g[f[k - 1]]

(* There is such a sequence, whatever the turns do. *)
LEMMA TurnsExist ==
    ASSUME NEW N \in Nat, NEW X, NEW s \in X, NEW g \in [X -> X]
    PROVE  \E f \in [0 .. N -> X] : Iterates(f, s, g, N)
<1> DEFINE Has(k) == \E f \in [0 .. k -> X] : Iterates(f, s, g, k)
           S == {k \in 0 .. N : Has(k)}
<1>1. 0 \in S
  <2> DEFINE f == [j \in 0 .. 0 |-> s]
  <2>1. f \in [0 .. 0 -> X] /\ f[0] = s /\ \A j \in 1 .. 0 : f[j] = g[f[j - 1]]
    OBVIOUS
  <2>. HIDE DEF f
  <2>2. Has(0)
    BY <2>1 DEF Iterates
  <2>. HIDE DEF Has
  <2>. QED
    BY <2>2
<1>2. ASSUME NEW k \in S, k < N PROVE k + 1 \in S
  <2>1. PICK f \in [0 .. k -> X] : f[0] = s /\ \A j \in 1 .. k : f[j] = g[f[j - 1]]
    BY DEF Iterates
  <2> DEFINE e == [j \in 0 .. k + 1 |-> IF j = k + 1 THEN g[f[k]] ELSE f[j]]
  <2>2. k \in Nat /\ k + 1 \in 0 .. N
    BY <1>2
  <2>3. /\ e \in [0 .. k + 1 -> X] /\ e[0] = s
        /\ \A j \in 0 .. k : e[j] = f[j]
        /\ e[k + 1] = g[f[k]]
    BY <2>1, <2>2
  <2>. HIDE DEF e
  <2>4. ASSUME NEW j \in 1 .. k + 1 PROVE e[j] = g[e[j - 1]]
    <3>1. j - 1 \in 0 .. k /\ (j \in 1 .. k \/ j = k + 1)
      BY <2>2
    <3>2. e[j - 1] = f[j - 1]
      BY <2>3, <3>1
    <3>3. CASE j = k + 1
      <4>1. j - 1 = k
        BY <2>2, <3>3
      <4>. QED
        BY <2>3, <3>2, <3>3, <4>1
    <3>4. CASE j \in 1 .. k
      <4>1. j \in 0 .. k
        BY <3>4
      <4>. QED
        BY <2>1, <2>3, <3>2, <3>4, <4>1
    <3>. QED
      BY <3>1, <3>3, <3>4
  <2>5. Has(k + 1)
    BY <2>3, <2>4 DEF Iterates
  <2>. HIDE DEF Has
  <2>. QED
    BY <2>2, <2>5
<1>3. N \in S
  <2>. HIDE DEF S
  <2>1. S \in SUBSET (0 .. N)
    BY DEF S
  <2>2. S = 0 .. N
    BY <1>1, <1>2, <2>1, UpTo
  <2>. QED
    BY <2>2
<1>. QED
  BY <1>3

(* The division of C, of numbers without a sign. *)
LEMMA DivideUnsigned ==
    ASSUME NEW n \in Nat, NEW b \in Nat, b > 1
    PROVE  /\ Quot(n, b) \in Nat /\ Rem(n, b) \in 0 .. b - 1
           /\ n = Quot(n, b) * b + Rem(n, b)
           /\ Quot(n, b) = n \div b /\ Rem(n, b) = n % b
<1>1. Quot(n, b) = n \div b
  BY DEF Quot, Abs
<1> DEFINE q == n \div b
           p == b * q
<1>2. q \in Nat /\ n - p \in 0 .. b - 1
  <2>1. b # 0
    OBVIOUS
  <2>. QED
    BY <2>1, DivideNat
<1>3. Rem(n, b) = n - p
  BY <1>1 DEF Rem
<1>4. p \in Nat /\ q * b = p
  BY <1>2
<1>5. n % b = n - p
  OBVIOUS
<1>. HIDE DEF q, p
<1>6. n = p + (n - p)
  BY <1>4
<1>. QED
  BY <1>1, <1>2, <1>3, <1>4, <1>5, <1>6 DEF q

(* The powers of a base, up to one that a word has room for. *)
Powers(P, b, p) ==
    /\ P \in [0 .. p -> Nat] /\ P[0] = 1
    /\ \A i \in 1 .. p : P[i] = b * P[i - 1]

(* Powers grow, so that there are fewer of them than a word has values. *)
LEMMA PowersGrow ==
    ASSUME NEW b \in Nat, b > 1, NEW p \in Nat, NEW P, Powers(P, b, p)
    PROVE  \A i \in 0 .. p : P[i] > i /\ P[i] <= P[p]
<1>1. P \in [0 .. p -> Nat] /\ P[0] = 1 /\ \A i \in 1 .. p : P[i] = b * P[i - 1]
  BY DEF Powers
<1>2. ASSUME NEW i \in 1 .. p PROVE P[i] >= 2 * P[i - 1] /\ P[i - 1] \in Nat /\ P[i] \in Nat
  <2>1. P[i - 1] \in Nat /\ P[i] \in Nat
    BY <1>1
  <2> DEFINE x == P[i - 1]
  <2>2. P[i] = b * x
    BY <1>1
  <2>. HIDE DEF x
  <2>3. x \in Nat => b * x >= 2 * x
    <3>1. SUFFICES ASSUME x \in Nat PROVE b * x >= 2 * x
      OBVIOUS
    <3>2. b * x = 2 * x + (b - 2) * x /\ b - 2 \in Nat
      BY <3>1
    <3>3. (b - 2) * x \in Nat /\ 2 * x \in Nat
      BY <3>1, <3>2
    <3>. QED
      BY <3>2, <3>3
  <2>. QED
    BY <2>1, <2>2, <2>3 DEF x
<1> DEFINE S == {i \in 0 .. p : P[i] > i}
           T == {i \in 0 .. p : P[p - i] <= P[p]}
<1>3. S = 0 .. p
  <2>1. 0 \in S
    BY <1>1
  <2>2. ASSUME NEW i \in S, i < p PROVE i + 1 \in S
    <3>1. i + 1 \in 1 .. p /\ (i + 1) - 1 = i /\ P[i] > i /\ i \in 0 .. p
      BY <2>2
    <3>2. P[i + 1] >= 2 * P[i] /\ P[i] \in Nat /\ P[i + 1] \in Nat
      BY <1>2, <3>1
    <3>. QED
      BY <3>1, <3>2
  <2>. QED
    BY <2>1, <2>2, UpTo
<1>4. T = 0 .. p
  <2>1. 0 \in T
    BY <1>1
  <2>2. ASSUME NEW i \in T, i < p PROVE i + 1 \in T
    <3>1. p - i \in 1 .. p /\ (p - i) - 1 = p - (i + 1) /\ P[p - i] <= P[p]
          /\ i + 1 \in 0 .. p
      BY <2>2
    <3>2. P[p - i] >= 2 * P[p - (i + 1)] /\ P[p - (i + 1)] \in Nat /\ P[p - i] \in Nat
      BY <1>2, <3>1
    <3>3. P[p] \in Nat
      BY <1>1
    <3>4. P[p - (i + 1)] <= P[p]
      BY <3>1, <3>2, <3>3
    <3>. QED
      BY <3>1, <3>4
  <2>. QED
    BY <2>1, <2>2, UpTo
<1>5. ASSUME NEW i \in 0 .. p PROVE P[i] <= P[p]
  <2>1. p - i \in 0 .. p /\ p - (p - i) = i
    OBVIOUS
  <2>2. \A j \in 0 .. p : P[p - j] <= P[p]
    BY <1>4
  <2>. QED
    BY <2>1, <2>2
<1>. QED
  BY <1>3, <1>5

(* What the first loop goes through, and its turns. *)
RevStates == [n : Nat, rn : 0 .. Word - 1, scale : Nat, start : BOOLEAN]

Start(m) == [n |-> m, rn |-> 0, scale |-> 0, start |-> TRUE]

IsLoop(A, m, b) ==
    A = [k \in 0 .. Word |-> IF k = 0 THEN Start(m) ELSE Turn(A[k - 1], b)]

RevTurns(A, m, b) ==
    /\ A[0] = Start(m)
    /\ \A k \in 1 .. Word : A[k] = Turn(A[k - 1], b)
    /\ \A k \in 0 .. Word :
          A[k].n = 0 /\ (\A j \in 0 .. k - 1 : A[j].n # 0) => Reversed(m, b) = A[k]

(* One turn. *)
LEMMA TurnTyped ==
    ASSUME Word \in Nat \ {0}, NEW b \in Nat, b > 1, NEW s \in RevStates
    PROVE  /\ Turn(s, b) \in RevStates
           /\ Turn(s, b).n = s.n \div b
           /\ Turn(s, b).rn = (s.rn * b + (s.n % b)) % Word
           /\ Turn(s, b).start = (s.start /\ s.n % b = 0)
           /\ Turn(s, b).scale = IF s.start /\ s.n % b = 0 THEN s.scale + 1 ELSE s.scale
<1> DEFINE q == Quot(s.n, b)
           r == Rem(s.n, b)
           t == Turn(s, b)
<1>1. s.n \in Nat /\ s.rn \in Nat /\ s.scale \in Nat /\ s.start \in BOOLEAN
  BY DEF RevStates
<1>2. q \in Nat /\ r \in 0 .. b - 1 /\ q = s.n \div b /\ r = s.n % b
  BY <1>1, DivideUnsigned
<1>3. /\ t = [n |-> q, rn |-> (s.rn * b + r) % Word,
              scale |-> IF s.start /\ r = 0 THEN s.scale + 1 ELSE s.scale,
              start |-> s.start /\ r = 0]
  BY DEF Turn
<1>. HIDE DEF q, r, t
<1>4. (s.rn * b + r) % Word \in 0 .. Word - 1
  <2> DEFINE v == s.rn * b + r
  <2>1. v \in Nat
    BY <1>1, <1>2
  <2>. HIDE DEF v
  <2>2. v % Word \in 0 .. Word - 1
    BY <2>1
  <2>. QED
    BY <2>2 DEF v
<1>5. t \in RevStates
  BY <1>1, <1>2, <1>3, <1>4 DEF RevStates
<1>6. /\ t.n = s.n \div b /\ t.rn = (s.rn * b + (s.n % b)) % Word
      /\ t.start = (s.start /\ s.n % b = 0)
      /\ t.scale = IF s.start /\ s.n % b = 0 THEN s.scale + 1 ELSE s.scale
  BY <1>2, <1>3
<1>. QED
  BY <1>5, <1>6 DEF t

(* The first loop can be taken turn by turn. *)
LEMMA ReverseByTurns ==
    ASSUME Word \in Nat \ {0}, NEW b \in Nat, b > 1, NEW m \in Nat
    PROVE  \E A \in [0 .. Word -> RevStates] : RevTurns(A, m, b)
<1> DEFINE g == [s \in RevStates |-> Turn(s, b)]
           c == CHOOSE A : IsLoop(A, m, b)
           last == CHOOSE k \in 0 .. Word :
                      ~(c[k].n # 0) /\ \A j \in 0 .. k - 1 : c[j].n # 0
<1>1. g \in [RevStates -> RevStates]
  BY TurnTyped
<1>2. Start(m) \in RevStates
  BY DEF Start, RevStates
<1>3. \A s \in RevStates : g[s] = Turn(s, b)
  OBVIOUS
<1>. HIDE DEF g
<1>4. PICK A \in [0 .. Word -> RevStates] : Iterates(A, Start(m), g, Word)
  BY <1>1, <1>2, TurnsExist
<1>5. IsLoop(A, m, b)
  <2>1. ASSUME NEW k \in 0 .. Word
        PROVE  A[k] = IF k = 0 THEN Start(m) ELSE Turn(A[k - 1], b)
    <3>1. CASE k = 0
      BY <1>4, <3>1 DEF Iterates
    <3>2. CASE k # 0
      <4>1. k \in 1 .. Word /\ k - 1 \in 0 .. Word
        BY <3>2
      <4>. QED
        BY <1>3, <1>4, <3>2, <4>1 DEF Iterates
    <3>. QED
      BY <3>1, <3>2
  <2>2. A = [k \in 0 .. Word |-> A[k]]
    BY <1>4
  <2>. QED
    BY <2>1, <2>2 DEF IsLoop
<1>6. IsLoop(c, m, b)
  BY <1>5
<1>7. Reversed(m, b) = c[last]
  BY DEF Reversed, Loop, IsLoop, Start
<1>. HIDE DEF c
<1>8. c[0] = Start(m) /\ DOMAIN c = 0 .. Word
  BY <1>6 DEF IsLoop
<1>9. \A k \in 1 .. Word : c[k] = Turn(c[k - 1], b)
  BY <1>6 DEF IsLoop
<1>10. \A k \in 0 .. Word : c[k] \in RevStates
  <2> DEFINE S == {k \in 0 .. Word : c[k] \in RevStates}
  <2>1. 0 \in S
    BY <1>2, <1>8
  <2>2. ASSUME NEW k \in S, k < Word PROVE k + 1 \in S
    <3>1. k + 1 \in 1 .. Word /\ (k + 1) - 1 = k /\ c[k] \in RevStates
      BY <2>2
    <3>. QED
      BY <1>9, <3>1, TurnTyped
  <2>3. S = 0 .. Word
    BY <2>1, <2>2, UpTo
  <2>. QED
    BY <2>3
<1>11. c \in [0 .. Word -> RevStates]
  <2>1. c = [k \in 0 .. Word |-> c[k]]
    BY <1>6 DEF IsLoop
  <2>. QED
    BY <1>10, <2>1
<1>12. ASSUME NEW k \in 0 .. Word, c[k].n = 0, \A j \in 0 .. k - 1 : c[j].n # 0
       PROVE  Reversed(m, b) = c[k]
  <2>1. ASSUME NEW i \in 0 .. Word,
               ~(c[i].n # 0) /\ \A j \in 0 .. i - 1 : c[j].n # 0
        PROVE  i = k
    <3>1. ~(i < k) /\ ~(k < i)
      <4>1. ASSUME i < k PROVE FALSE
        <5>1. i \in 0 .. k - 1
          BY <4>1
        <5>. QED
          BY <1>12, <2>1, <5>1
      <4>2. ASSUME k < i PROVE FALSE
        <5>1. k \in 0 .. i - 1
          BY <4>2
        <5>. QED
          BY <1>12, <2>1, <5>1
      <4>. QED
        BY <4>1, <4>2
    <3>. QED
      BY <3>1
  <2>2. last = k
    BY <1>12, <2>1
  <2>. QED
    BY <1>7, <2>2
<1>. QED
  BY <1>8, <1>9, <1>11, <1>12 DEF RevTurns

(* The same of the second loop. *)
EmitStates(b) == [rn : Nat, out : Seq(0 .. b - 1)]

EmitTurn(s, b) == [rn |-> s.rn \div b, out |-> Append(s.out, s.rn % b)]

IsEmit(B, rn, b) ==
    B = [k \in 0 .. Word |-> IF k = 0 THEN [rn |-> rn, out |-> <<>>]
                             ELSE [rn |-> B[k - 1].rn \div b,
                                   out |-> Append(B[k - 1].out, B[k - 1].rn % b)]]

EmitTurns(B, rev, b) ==
    /\ B[0] = [rn |-> rev.rn, out |-> <<>>]
    /\ \A k \in 1 .. Word : B[k] = EmitTurn(B[k - 1], b)
    /\ \A k \in 0 .. Word :
          B[k].rn = 0 /\ (\A j \in 0 .. k - 1 : B[j].rn # 0)
             => Emitted(rev, b) = B[k].out \o [i \in 1 .. rev.scale |-> 0]

(* The second loop can be taken turn by turn. *)
LEMMA EmitByTurns ==
    ASSUME Word \in Nat \ {0}, NEW b \in Nat, b > 1, NEW rev, rev.rn \in Nat
    PROVE  \E B \in [0 .. Word -> EmitStates(b)] : EmitTurns(B, rev, b)
<1> DEFINE X == EmitStates(b)
           First == [rn |-> rev.rn, out |-> <<>>]
           g == [s \in X |-> EmitTurn(s, b)]
           c == CHOOSE B : IsEmit(B, rev.rn, b)
           last == CHOOSE k \in 0 .. Word :
                      ~(c[k].rn # 0) /\ \A j \in 0 .. k - 1 : c[j].rn # 0
<1>1. \A s \in X : EmitTurn(s, b) \in X
  <2>1. SUFFICES ASSUME NEW s \in X PROVE EmitTurn(s, b) \in X
    OBVIOUS
  <2> DEFINE v == s.rn
  <2>2. v \in Nat /\ s.out \in Seq(0 .. b - 1)
    BY DEF EmitStates
  <2>. HIDE DEF v
  <2>3. v \div b \in Nat /\ v % b \in 0 .. b - 1
    BY <2>2
  <2>4. Append(s.out, v % b) \in Seq(0 .. b - 1)
    BY <2>2, <2>3
  <2>. QED
    BY <2>3, <2>4 DEF EmitTurn, EmitStates, v
<1>2. First \in X
  BY DEF EmitStates
<1>. HIDE DEF X
<1>3. g \in [X -> X] /\ \A s \in X : g[s] = EmitTurn(s, b)
  BY <1>1
<1>. HIDE DEF g, First
<1>4. PICK B \in [0 .. Word -> X] : Iterates(B, First, g, Word)
  BY <1>2, <1>3, TurnsExist
<1>5. IsEmit(B, rev.rn, b)
  <2>1. ASSUME NEW k \in 0 .. Word
        PROVE  B[k] = IF k = 0 THEN First ELSE EmitTurn(B[k - 1], b)
    <3>1. CASE k = 0
      BY <1>4, <3>1 DEF Iterates
    <3>2. CASE k # 0
      <4>1. k \in 1 .. Word /\ k - 1 \in 0 .. Word
        BY <3>2
      <4>. QED
        BY <1>3, <1>4, <3>2, <4>1 DEF Iterates
    <3>. QED
      BY <3>1, <3>2
  <2>2. B = [k \in 0 .. Word |-> B[k]]
    BY <1>4
  <2>. QED
    BY <2>1, <2>2 DEF IsEmit, EmitTurn, First
<1>6. IsEmit(c, rev.rn, b)
  BY <1>5
<1>7. Emitted(rev, b) = c[last].out \o [i \in 1 .. rev.scale |-> 0]
  BY DEF Emitted, Loop, IsEmit
<1>. HIDE DEF c
<1>8. c[0] = First
  BY <1>6 DEF IsEmit, First
<1>9. ASSUME NEW k \in 1 .. Word PROVE c[k] = EmitTurn(c[k - 1], b)
  <2>1. k \in 0 .. Word /\ k # 0
    OBVIOUS
  <2>2. c[k] = [rn |-> c[k - 1].rn \div b, out |-> Append(c[k - 1].out, c[k - 1].rn % b)]
    BY ONLY <1>6, <2>1 DEF IsEmit
  <2>. QED
    BY ONLY <2>2 DEF EmitTurn
<1>10. \A k \in 0 .. Word : c[k] \in X
  <2> DEFINE S == {k \in 0 .. Word : c[k] \in X}
  <2>1. 0 \in S
    BY <1>2, <1>8
  <2>2. ASSUME NEW k \in S, k < Word PROVE k + 1 \in S
    <3>1. k + 1 \in 1 .. Word /\ (k + 1) - 1 = k /\ c[k] \in X
      BY <2>2
    <3>. QED
      BY <1>1, <1>9, <3>1
  <2>3. S = 0 .. Word
    BY <2>1, <2>2, UpTo
  <2>. QED
    BY <2>3
<1>11. c \in [0 .. Word -> X]
  <2>1. c = [k \in 0 .. Word |-> c[k]]
    BY <1>6 DEF IsEmit
  <2>. QED
    BY <1>10, <2>1
<1>12. ASSUME NEW k \in 0 .. Word, c[k].rn = 0, \A j \in 0 .. k - 1 : c[j].rn # 0
       PROVE  Emitted(rev, b) = c[k].out \o [i \in 1 .. rev.scale |-> 0]
  <2>1. ASSUME NEW i \in 0 .. Word,
               ~(c[i].rn # 0) /\ \A j \in 0 .. i - 1 : c[j].rn # 0
        PROVE  i = k
    <3>1. ~(i < k) /\ ~(k < i)
      <4>1. ASSUME i < k PROVE FALSE
        <5>1. i \in 0 .. k - 1
          BY <4>1
        <5>. QED
          BY <1>12, <2>1, <5>1
      <4>2. ASSUME k < i PROVE FALSE
        <5>1. k \in 0 .. i - 1
          BY <4>2
        <5>. QED
          BY <1>12, <2>1, <5>1
      <4>. QED
        BY <4>1, <4>2
    <3>. QED
      BY <3>1
  <2>2. last = k
    BY <1>12, <2>1
  <2>. QED
    BY <1>7, <2>2
<1>. QED
  BY <1>8, <1>9, <1>11, <1>12 DEF EmitTurns, X, First

(* What the last digit of a number is, and what is left without it. *)
LEMMA LastDigit ==
    ASSUME NEW b \in Nat, b > 1, NEW x \in Nat, NEW d \in 0 .. b - 1
    PROVE  (x * b + d) \div b = x /\ (x * b + d) % b = d
<1> DEFINE v == x * b + d
           q == v \div b
           r == v % b
<1>1. v \in Nat
  OBVIOUS
<1>2. q \in Nat /\ r \in 0 .. b - 1 /\ v = b * q + r
  <2>. HIDE DEF v
  <2>. QED
    BY <1>1
<1>3. d - r = b * (q - x)
  <2>. HIDE DEF q, r
  <2>. QED
    BY <1>2
<1> DEFINE z == q - x
<1>. HIDE DEF q, r, v
<1>4. z \in Int
  BY <1>2
<1>5. z = 0
  <2>. HIDE DEF z
  <2>1. ASSUME z >= 1 PROVE FALSE
    <3>1. b * z >= b
      BY <1>4, <2>1
    <3>. QED
      BY <1>2, <1>3, <3>1 DEF z
  <2>2. ASSUME z <= -1 PROVE FALSE
    <3>1. b * z <= -b
      BY <1>4, <2>2
    <3>. QED
      BY <1>2, <1>3, <3>1 DEF z
  <2>. QED
    BY <1>4, <2>1, <2>2
<1>6. q = x /\ r = d
  <2>1. q = x
    BY <1>2, <1>5
  <2>2. b * (q - x) = 0
    BY <1>2, <2>1
  <2>. QED
    BY <1>2, <1>3, <2>1, <2>2
<1>. QED
  BY <1>6 DEF q, r, v

(* The digit that turn k takes. *)
Digit(A, k, b) == A[k - 1].n % b

(* As long as the word has room, nothing is lost in the first p turns. *)
NothingLost(A, b, p) ==
    \A k \in 1 .. p :
        /\ Digit(A, k, b) \in 0 .. b - 1
        /\ A[k - 1].n = A[k].n * b + Digit(A, k, b)
        /\ A[k].rn = A[k - 1].rn * b + Digit(A, k, b)

HasRoom(b, P, p, m) ==
    /\ Word \in Nat \ {0} /\ b \in Nat /\ b > 1
    /\ p \in Nat /\ Powers(P, b, p) /\ P[p] <= Word
    /\ m \in Nat /\ m < P[p]

(* A word that has room for the digits of m has room in every turn. *)
LEMMA RoomForAll ==
    ASSUME NEW b, NEW P, NEW p, NEW m, HasRoom(b, P, p, m),
           NEW A \in [0 .. Word -> RevStates], RevTurns(A, m, b)
    PROVE  p < Word /\ A[p].n = 0 /\ NothingLost(A, b, p)
<1>1. /\ Word \in Nat \ {0} /\ b \in Nat /\ b > 1
      /\ p \in Nat /\ Powers(P, b, p) /\ P[p] <= Word
      /\ m \in Nat /\ m < P[p]
  BY DEF HasRoom
<1>2. \A i \in 0 .. p : P[i] > i /\ P[i] <= P[p]
  BY <1>1, PowersGrow
<1>3. /\ P \in [0 .. p -> Nat] /\ P[0] = 1
      /\ \A i \in 1 .. p : P[i] = b * P[i - 1]
  BY <1>1 DEF Powers
<1>4. p < Word
  <2>1. P[p] > p /\ P[p] \in Nat
    BY <1>1, <1>2, <1>3
  <2>. QED
    BY <1>1, <2>1
<1>5. \A k \in 0 .. p : k \in 0 .. Word
  BY <1>1, <1>4
<1> DEFINE Room(k) == A[k].n < P[p - k] /\ A[k].rn < P[k]
           Kept(k) == /\ Digit(A, k, b) \in 0 .. b - 1
                      /\ A[k - 1].n = A[k].n * b + Digit(A, k, b)
                      /\ A[k].rn = A[k - 1].rn * b + Digit(A, k, b)
           S == {k \in 0 .. p : Room(k)}
<1>6. 0 \in S
  <2>1. A[0].n = m /\ A[0].rn = 0
    BY DEF RevTurns, Start
  <2>2. p - 0 = p
    BY <1>1
  <2>. QED
    BY <1>1, <1>3, <2>1, <2>2
<1>7. ASSUME NEW k \in 0 .. p, k < p, Room(k) PROVE Room(k + 1) /\ Kept(k + 1)
  <2> DEFINE q == k + 1
             n == A[k].n
             d == n % b
             r == A[k].rn
             u == n \div b
  <2>1. q \in 1 .. p /\ q \in 1 .. Word /\ q - 1 = k /\ k \in 0 .. Word
    BY <1>1, <1>4, <1>7
  <2>2. A[k] \in RevStates /\ A[q] = Turn(A[k], b)
    BY <2>1 DEF RevTurns
  <2>3. A[q].n = u /\ A[q].rn = (r * b + d) % Word
    BY <1>1, <2>2, TurnTyped
  <2>4. n \in Nat /\ r \in Nat
    BY <2>2 DEF RevStates
  <2>5. n < P[p - k] /\ r < P[k]
    BY <1>7
  <2>. HIDE DEF n, r, q
  <2>6. d \in 0 .. b - 1 /\ u \in Nat /\ n = u * b + d
    <3>1. Quot(n, b) = u /\ Rem(n, b) = d
      BY <1>1, <2>4, DivideUnsigned
    <3>2. Quot(n, b) \in Nat /\ Rem(n, b) \in 0 .. b - 1
      BY <1>1, <2>4, DivideUnsigned
    <3>3. n = Quot(n, b) * b + Rem(n, b)
      BY <1>1, <2>4, DivideUnsigned
    <3>. HIDE DEF d, u
    <3>. QED
      BY ONLY <3>1, <3>2, <3>3
  <2>. HIDE DEF d, u
  <2>7. /\ P[p - q] \in Nat /\ P[p - k] = b * P[p - q]
        /\ P[k] \in Nat /\ P[q] = b * P[k] /\ P[q] \in Nat /\ P[q] <= Word
    <3>1. p - k \in 1 .. p /\ (p - k) - 1 = p - q /\ p - q \in 0 .. p /\ q \in 0 .. p
      BY <1>1, <2>1
    <3>2. P[p] \in Nat
      BY <1>1, <1>3
    <3>. QED
      BY <1>1, <1>2, <1>3, <2>1, <3>1, <3>2
  <2>8. u < P[p - q]
    <3> DEFINE x == P[p - q]
    <3>1. x \in Nat /\ u * b + d < b * x
      BY <2>5, <2>6, <2>7
    <3>. HIDE DEF x
    <3>2. SUFFICES ASSUME u >= x PROVE FALSE
      BY <2>6, <3>1 DEF x
    <3>3. u * b = b * x + b * (u - x) /\ u - x \in Nat
      BY <1>1, <2>6, <3>1, <3>2
    <3>4. b * (u - x) \in Nat /\ b * x \in Nat
      BY <1>1, <3>1, <3>3
    <3>. QED
      BY <1>1, <2>6, <3>1, <3>3, <3>4
  <2>9. r * b + d < P[q]
    <3> DEFINE x == P[k]
    <3>1. x \in Nat /\ r < x /\ P[q] = b * x
      BY <2>5, <2>7
    <3>. HIDE DEF x
    <3>2. b * x = r * b + b + b * (x - r - 1) /\ x - r - 1 \in Nat
      BY <1>1, <2>4, <3>1
    <3>3. b * (x - r - 1) \in Nat /\ r * b \in Nat
      BY <1>1, <2>4, <3>2
    <3>. QED
      BY <1>1, <2>6, <3>1, <3>2, <3>3
  <2>10. A[q].rn = r * b + d
    <3> DEFINE v == r * b + d
    <3>1. v \in Nat
      BY <1>1, <2>4, <2>6
    <3>2. v < Word
      <4>1. v < P[q]
        BY <2>9
      <4>. HIDE DEF v
      <4>. QED
        BY <1>1, <2>7, <3>1, <4>1
    <3>3. A[q].rn = v % Word
      BY <2>3
    <3>. HIDE DEF v
    <3>4. v % Word = v
      BY <1>1, <3>1, <3>2
    <3>. QED
      BY <3>3, <3>4 DEF v
  <2>11. Room(q)
    BY <2>3, <2>8, <2>9, <2>10
  <2>12. Kept(q)
    <3>1. Digit(A, q, b) = d
      BY <2>1 DEF Digit, d, n
    <3>. QED
      BY <2>1, <2>3, <2>6, <2>10, <3>1 DEF n, r
  <2>. QED
    BY <2>11, <2>12 DEF q
<1>8. S = 0 .. p
  <2>1. ASSUME NEW k \in S, k < p PROVE k + 1 \in S
    <3>1. k \in 0 .. p /\ k + 1 \in 0 .. p /\ Room(k)
      BY <1>1, <2>1
    <3>2. Room(k + 1)
      BY <1>7, <2>1, <3>1
    <3>. QED
      BY <3>1, <3>2
  <2>. HIDE DEF S
  <2>2. S \in SUBSET (0 .. p)
    BY DEF S
  <2>. QED
    BY <1>1, <1>6, <2>1, <2>2, UpTo
<1>9. NothingLost(A, b, p)
  <2>1. ASSUME NEW k \in 1 .. p PROVE Kept(k)
    <3> DEFINE j == k - 1
    <3>1. j \in 0 .. p /\ j < p /\ j + 1 = k
      BY <1>1
    <3>2. Room(j)
      BY <1>8, <3>1
    <3>. HIDE DEF j, Kept
    <3>3. Kept(j + 1)
      BY <1>7, <3>1, <3>2
    <3>. QED
      BY <3>1, <3>3
  <2>. QED
    BY <2>1 DEF NothingLost
<1>10. A[p].n = 0
  <2>1. p \in 0 .. p /\ p - p = 0 /\ p \in 0 .. Word
    BY <1>1, <1>5
  <2>2. A[p].n \in Nat
    BY <2>1 DEF RevStates
  <2>3. A[p].n < P[p - p]
    BY <1>8, <2>1
  <2>. QED
    BY <1>3, <2>1, <2>2, <2>3
<1>. QED
  BY <1>4, <1>9, <1>10

(* Turn K is the last, and has counted the zeros at the end. *)
LastTurn(A, K) ==
    /\ A[K].n = 0 /\ \A j \in 0 .. K - 1 : A[j].n # 0
    /\ A[K].scale \in 0 .. K - 1
    /\ \A j \in 0 .. A[K].scale : A[j].rn = 0
    /\ \A j \in A[K].scale + 1 .. K : A[j].rn # 0

(* There is a last turn, and no zero is lost. *)
LEMMA ZerosCounted ==
    ASSUME NEW b, NEW P, NEW p, NEW m, HasRoom(b, P, p, m), m # 0,
           NEW A \in [0 .. Word -> RevStates], RevTurns(A, m, b)
    PROVE  \E K \in 1 .. p : LastTurn(A, K)
<1>1. /\ Word \in Nat \ {0} /\ b \in Nat /\ b > 1
      /\ p \in Nat /\ m \in Nat
  BY DEF HasRoom
<1>2. p < Word /\ A[p].n = 0 /\ NothingLost(A, b, p)
  BY RoomForAll
<1>3. \A k \in 0 .. p : /\ A[k].n \in Nat /\ A[k].rn \in Nat /\ A[k].scale \in Nat
                        /\ A[k].start \in BOOLEAN /\ k \in 0 .. Word
  <2>1. ASSUME NEW k \in 0 .. p
        PROVE  /\ A[k].n \in Nat /\ A[k].rn \in Nat /\ A[k].scale \in Nat
               /\ A[k].start \in BOOLEAN /\ k \in 0 .. Word
    <3>1. k \in 0 .. Word
      BY <1>1, <1>2
    <3>2. A[k] \in RevStates
      BY <3>1
    <3>3. A[k].rn \in 0 .. Word - 1
      BY <3>2 DEF RevStates
    <3>4. A[k].rn \in Nat
      BY <3>3
    <3>. QED
      BY <3>1, <3>2, <3>4 DEF RevStates
  <2>. QED
    BY <2>1
<1> DEFINE Z == {k \in 0 .. p : A[k].n = 0}
<1>4. PICK K \in Z : \A y \in Z : K <= y
  <2>1. p \in Z /\ Z \in SUBSET Nat
    BY <1>1, <1>2
  <2>. QED
    BY <2>1, Least
<1>5. A[0] = Start(m)
  BY DEF RevTurns
<1>6. K \in 1 .. p /\ A[K].n = 0 /\ \A j \in 0 .. K - 1 : A[j].n # 0
  <2>1. A[0].n # 0
    BY <1>5 DEF Start
  <2>2. K \in 0 .. p /\ A[K].n = 0
    BY <1>4
  <2>3. K # 0
    BY <2>1, <2>2
  <2>4. ASSUME NEW j \in 0 .. K - 1 PROVE A[j].n # 0
    <3>1. j \in 0 .. p /\ ~(K <= j)
      BY <1>1, <2>2
    <3>. QED
      BY <1>4, <3>1
  <2>. QED
    BY <2>2, <2>3, <2>4
<1> DEFINE Zeros(k) == \A j \in 0 .. k : A[j].rn = 0
           Others(i, k) == \A j \in i .. k : A[j].rn # 0
           Counted(k) == IF A[k].start
                           THEN A[k].scale = k /\ Zeros(k)
                           ELSE /\ A[k].scale \in 0 .. k - 1
                                /\ Zeros(A[k].scale) /\ Others(A[k].scale + 1, k)
           S == {k \in 0 .. p : Counted(k)}
<1>7. 0 \in S
  BY <1>1, <1>5 DEF Start
<1>8. ASSUME NEW k \in 0 .. p, k < p, Counted(k) PROVE Counted(k + 1)
  <2> DEFINE q == k + 1
             d == Digit(A, q, b)
  <2>1. q \in 1 .. p /\ q \in 1 .. Word /\ q - 1 = k /\ q \in 0 .. p /\ k \in 0 .. Word
    BY <1>1, <1>2, <1>8
  <2>2. A[q] = Turn(A[k], b) /\ A[k] \in RevStates
    BY <2>1 DEF RevTurns
  <2>3. d = A[k].n % b
    BY <2>1 DEF Digit
  <2>. HIDE DEF q
  <2>4. /\ A[q].start = (A[k].start /\ d = 0)
        /\ A[q].scale = IF A[k].start /\ d = 0 THEN A[k].scale + 1 ELSE A[k].scale
    BY <1>1, <2>2, <2>3, TurnTyped
  <2>5. d \in 0 .. b - 1 /\ A[q].rn = A[k].rn * b + d
    BY <1>2, <2>1 DEF NothingLost
  <2>. HIDE DEF d
  <2>6. d \in Nat /\ A[k].rn \in Nat
    BY <1>1, <1>3, <2>5
  <2>7. \A j \in 0 .. q : j \in 0 .. k \/ j = q
    BY <2>1 
  <2>8. CASE A[k].start /\ d = 0
    <3>1. A[q].start /\ A[q].scale = q
      <4>1. A[q].start /\ A[q].scale = A[k].scale + 1
        BY <2>4, <2>8, Zenon
      <4>2. A[k].scale = k
        BY <1>8, <2>8
      <4>. QED
        BY <4>1, <4>2 DEF q
    <3>2. A[k].rn = 0
      BY <1>8, <2>8
    <3>3. A[q].rn = 0
      BY <1>1, <2>5, <2>8, <3>2
    <3>4. Zeros(q)
      BY <1>8, <2>7, <2>8, <3>3
    <3>. QED
      BY <3>1, <3>4 DEF q
  <2>9. CASE A[k].start /\ d # 0
    <3>1. ~A[q].start /\ A[q].scale = k /\ k \in 0 .. q - 1
      <4>1. ~A[q].start /\ A[q].scale = A[k].scale
        BY <2>4, <2>9, Zenon
      <4>2. A[k].scale = k
        BY <1>8, <2>9
      <4>3. k \in 0 .. q - 1
        BY <1>8 DEF q
      <4>. QED
        BY <4>1, <4>2, <4>3
    <3>2. A[k].rn = 0
      BY <1>8, <2>9
    <3>3. A[q].rn # 0
      BY <1>1, <2>5, <2>6, <2>9, <3>2
    <3>4. Others(k + 1, q)
      <4>1. \A j \in k + 1 .. q : j = q
        BY DEF q
      <4>. QED
        BY <3>3, <4>1
    <3>5. Zeros(k)
      BY <1>8, <2>9
    <3>. QED
      BY <3>1, <3>4, <3>5 DEF q
  <2>10. CASE ~A[k].start
    <3> DEFINE z == A[k].scale
    <3>1. z \in 0 .. k - 1 /\ Zeros(z) /\ Others(z + 1, k)
      BY <1>8, <2>10
    <3>2. ~A[q].start /\ A[q].scale = z
      BY <2>4, <2>10
    <3>. HIDE DEF z
    <3>3. A[k].rn # 0
      <4>1. k \in z + 1 .. k
        BY <1>1, <3>1
      <4>. QED
        BY <3>1, <4>1
    <3>4. A[q].rn # 0
      <4> DEFINE r == A[k].rn
      <4>1. r \in Nat /\ r # 0 /\ A[q].rn = r * b + d
        BY <2>5, <2>6, <3>3
      <4>. HIDE DEF r
      <4>2. r * b >= b
        BY <1>1, <4>1
      <4>3. r * b \in Nat
        BY <1>1, <4>1
      <4>. QED
        BY <1>1, <2>6, <4>1, <4>2, <4>3
    <3>5. Others(z + 1, q)
      <4>1. \A j \in z + 1 .. q : j \in z + 1 .. k \/ j = q
        BY <2>1, <3>1
      <4>. QED
        BY <3>1, <3>4, <4>1
    <3>6. z \in 0 .. q - 1
      BY <2>1, <3>1
    <3>. QED
      BY <3>1, <3>2, <3>5, <3>6 DEF q
  <2>. QED
    BY <2>8, <2>9, <2>10
<1>. HIDE DEF Zeros, Others
<1>9. Counted(K)
  <2>1. ASSUME NEW k \in S, k < p PROVE k + 1 \in S
    <3>1. k \in 0 .. p /\ k + 1 \in 0 .. p /\ Counted(k)
      BY <1>1, <2>1
    <3>. HIDE DEF Counted
    <3>2. Counted(k + 1)
      BY <1>8, <2>1, <3>1
    <3>. QED
      BY <3>1, <3>2
  <2>. HIDE DEF Counted
  <2>2. S = 0 .. p
    <3>1. S \in SUBSET (0 .. p)
      OBVIOUS
    <3>. HIDE DEF S
    <3>. QED
      BY <1>1, <1>7, <2>1, <3>1, UpTo
  <2>3. K \in 0 .. p
    BY <1>6
  <2>. QED
    BY <2>2, <2>3
<1>10. A[K].rn # 0
  <2> DEFINE j == K - 1
             d == Digit(A, K, b)
  <2>1. j \in 0 .. K - 1 /\ j \in 0 .. p
    BY <1>1, <1>6
  <2>2. A[j].n # 0 /\ A[j].n = A[K].n * b + d /\ A[K].rn = A[j].rn * b + d
        /\ d \in 0 .. b - 1
    BY <1>2, <1>6, <2>1 DEF NothingLost
  <2>. HIDE DEF j, d
  <2>3. d # 0
    BY <1>1, <1>6, <2>2
  <2> DEFINE r == A[j].rn
  <2>4. r \in Nat /\ A[K].rn = r * b + d
    BY <1>3, <2>1, <2>2
  <2>. HIDE DEF r
  <2>5. r * b \in Nat
    BY <1>1, <2>4
  <2>. QED
    BY <1>1, <2>2, <2>3, <2>4, <2>5
<1>11. ~A[K].start
  <2>1. K \in 0 .. K
    BY <1>6
  <2>. QED
    BY <1>9, <1>10, <2>1 DEF Zeros
<1>12. /\ A[K].scale \in 0 .. K - 1
       /\ Zeros(A[K].scale) /\ Others(A[K].scale + 1, K)
  BY <1>9, <1>11
<1>. QED
  BY <1>6, <1>12 DEF Zeros, Others, LastTurn

(* The digits of m, without a zero in front. *)
Prints(digits, m, b) ==
    /\ Value(digits, b) = m
    /\ digits \in Seq(0 .. b - 1)
    /\ digits[1] # 0

(* The second loop undoes the first, and puts the zeros back. *)
LEMMA DigitsComeOut ==
    ASSUME NEW b, NEW P, NEW p, NEW m, HasRoom(b, P, p, m), m # 0
    PROVE  /\ Reversed(m, b).rn # 0
           /\ Prints(Emitted(Reversed(m, b), b), m, b)
<1>1. /\ Word \in Nat \ {0} /\ b \in Nat /\ b > 1
      /\ p \in Nat /\ m \in Nat
  BY DEF HasRoom
<1>2. PICK A \in [0 .. Word -> RevStates] : RevTurns(A, m, b)
  BY <1>1, ReverseByTurns
<1>3. p < Word /\ NothingLost(A, b, p)
  BY <1>2, RoomForAll
<1>4. PICK K \in 1 .. p : LastTurn(A, K)
  BY <1>2, ZerosCounted
<1> DEFINE rev == A[K]
           z == A[K].scale
           D(k) == Digit(A, k, b)
<1>5. \A j \in 0 .. K : j \in 0 .. p /\ j \in 0 .. Word
  BY <1>1, <1>3
<1>6. \A j \in 0 .. K : A[j].n \in Nat /\ A[j].rn \in Nat
  <2>1. ASSUME NEW j \in 0 .. K PROVE A[j].n \in Nat /\ A[j].rn \in Nat
    <3>1. A[j] \in RevStates
      BY <1>5
    <3>2. A[j].n \in Nat /\ A[j].rn \in 0 .. Word - 1
      BY <3>1 DEF RevStates
    <3>. QED
      BY <3>2
  <2>. QED
    BY <2>1
<1>7. \A k \in 1 .. K : /\ D(k) \in 0 .. b - 1 /\ D(k) \in Nat
                        /\ A[k - 1].n = A[k].n * b + D(k)
                        /\ A[k].rn = A[k - 1].rn * b + D(k)
  <2>1. ASSUME NEW k \in 1 .. K PROVE k \in 1 .. p
    BY <1>1
  <2>2. \A d \in 0 .. b - 1 : d \in Nat
    BY <1>1
  <2>. QED
    BY <1>3, <2>1, <2>2 DEF NothingLost
<1>8. Reversed(m, b) = rev
  <2>1. K \in 0 .. Word
    BY <1>5
  <2>. QED
    BY <1>2, <1>4, <2>1 DEF RevTurns, LastTurn
<1>9. A[0].n = m
  BY <1>2 DEF RevTurns, Start
<1>10. /\ K \in Nat /\ K >= 1 /\ z \in 0 .. K - 1 /\ z \in Nat /\ rev.n = 0
       /\ \A j \in 0 .. z : A[j].rn = 0
       /\ \A j \in z + 1 .. K : A[j].rn # 0
  BY <1>1, <1>4 DEF LastTurn
<1>11. rev.rn # 0 /\ rev.rn \in Nat
  <2>1. K \in z + 1 .. K /\ K \in 0 .. K
    BY <1>10
  <2>. QED
    BY <1>6, <1>10, <2>1
<1>. HIDE DEF rev, z, D
<1>12. PICK B \in [0 .. Word -> EmitStates(b)] : EmitTurns(B, rev, b)
  BY <1>1, <1>11, EmitByTurns
<1> DEFINE Undone(j) == /\ B[j].rn = A[K - j].rn
                        /\ Len(B[j].out) = j
                        /\ \A i \in 1 .. j : B[j].out[i] = D(K - i + 1)
           S == {j \in 0 .. K : Undone(j)}
<1>13. S = 0 .. K
  <2>1. 0 \in S
    <3>1. B[0].rn = rev.rn /\ B[0].out = <<>> /\ K - 0 = K
      BY <1>10, <1>12 DEF EmitTurns
    <3>. QED
      BY <1>10, <3>1 DEF rev
  <2>2. ASSUME NEW j \in S, j < K PROVE j + 1 \in S
    <3> DEFINE q == j + 1
               k == K - j
    <3>1. /\ q \in 1 .. Word /\ q - 1 = j /\ q \in 0 .. K /\ j \in 0 .. K /\ j \in 0 .. Word
          /\ k \in 1 .. K /\ k - 1 = K - q /\ k = K - q + 1 /\ k - 1 \in 0 .. K
      BY <1>1, <1>3, <1>10, <2>2
    <3>2. Undone(j)
      BY <2>2
    <3>. HIDE DEF q
    <3>3. B[q] = EmitTurn(B[j], b) /\ B[j] \in EmitStates(b)
      BY <1>12, <3>1 DEF EmitTurns
    <3>4. B[q].rn = A[k].rn \div b /\ B[q].out = Append(B[j].out, A[k].rn % b)
      BY <3>2, <3>3 DEF EmitTurn
    <3>. HIDE DEF k
    <3>5. A[k].rn = A[k - 1].rn * b + D(k) /\ A[k - 1].rn \in Nat /\ D(k) \in 0 .. b - 1
      BY <1>6, <1>7, <3>1
    <3>6. A[k].rn \div b = A[k - 1].rn /\ A[k].rn % b = D(k)
      <4> DEFINE x == A[k - 1].rn
                 d == D(k)
      <4>1. x \in Nat /\ d \in 0 .. b - 1 /\ A[k].rn = x * b + d
        BY <3>5
      <4>. HIDE DEF x, d
      <4>2. (x * b + d) \div b = x /\ (x * b + d) % b = d
        BY <1>1, <4>1, LastDigit
      <4>3. A[k].rn \div b = x /\ A[k].rn % b = d
        BY <4>1, <4>2
      <4>. QED
        BY <4>3 DEF x, d
    <3>7. B[q].rn = A[K - q].rn /\ B[q].out = Append(B[j].out, D(k))
      BY <3>1, <3>4, <3>6
    <3>8. B[j].out \in Seq(0 .. b - 1) /\ Len(B[j].out) = j
      BY <3>2, <3>3 DEF EmitStates
    <3> DEFINE o == B[j].out
               e == D(k)
    <3>9. B[q].out = Append(o, e) /\ o \in Seq(0 .. b - 1) /\ Len(o) = j /\ e \in 0 .. b - 1
      BY <3>5, <3>7, <3>8
    <3>. HIDE DEF o, e
    <3>10. Len(B[q].out) = q /\ B[q].out[q] = e
           /\ \A i \in 1 .. j : B[q].out[i] = o[i]
      BY <3>1, <3>9 DEF q
    <3>11. \A i \in 1 .. q : B[q].out[i] = D(K - i + 1)
      <4>1. \A i \in 1 .. q : i \in 1 .. j \/ i = q
        BY <3>1 DEF q
      <4>2. \A i \in 1 .. j : B[q].out[i] = D(K - i + 1)
        BY <3>2, <3>10 DEF o
      <4>3. B[q].out[q] = D(K - q + 1)
        BY <3>1, <3>10 DEF e
      <4>. QED
        BY <4>1, <4>2, <4>3
    <3>12. Undone(q)
      BY <3>7, <3>10, <3>11
    <3>. HIDE DEF Undone
    <3>. QED
      BY <3>1, <3>12 DEF q
  <2>. HIDE DEF Undone
  <2>3. S \in SUBSET (0 .. K)
    OBVIOUS
  <2>. HIDE DEF S
  <2>. QED
    BY <1>10, <2>1, <2>2, <2>3, UpTo
<1>14. \A j \in 0 .. K : Undone(j)
  BY <1>13
<1> DEFINE w == K - z
           out == B[w].out
           zeros == [i \in 1 .. z |-> 0]
           digits == [i \in 1 .. K |-> D(K - i + 1)]
<1>15. /\ w \in 1 .. K /\ w \in 0 .. K /\ w \in 0 .. Word /\ K - w = z /\ z \in 0 .. z
       /\ K = w + z /\ w \in Nat
  BY <1>1, <1>3, <1>10
<1>16. Emitted(rev, b) = out \o zeros
  <2>1. B[w].rn = 0
    <3>1. B[w].rn = A[z].rn
      BY <1>14, <1>15
    <3>. QED
      BY <1>10, <1>15, <3>1
  <2>2. ASSUME NEW j \in 0 .. w - 1 PROVE B[j].rn # 0
    <3>1. j \in 0 .. K /\ K - j \in z + 1 .. K
      BY <1>10, <1>15
    <3>. QED
      BY <1>10, <1>14, <3>1
  <2>3. rev.scale = z
    BY DEF rev, z
  <2>. QED
    BY <1>12, <1>15, <2>1, <2>2, <2>3 DEF EmitTurns
<1>17. out \in Seq(0 .. b - 1) /\ Len(out) = w /\ \A i \in 1 .. w : out[i] = D(K - i + 1)
  <2>1. B[w] \in EmitStates(b) /\ Undone(w)
    BY <1>12, <1>14, <1>15
  <2>. QED
    BY <2>1 DEF EmitStates
<1>18. \A k \in 1 .. z : D(k) = 0
  <2>1. ASSUME NEW k \in 1 .. z PROVE D(k) = 0
    <3>1. k \in 1 .. K /\ k \in 0 .. z /\ k - 1 \in 0 .. z
      BY <1>10
    <3>2. A[k].rn = 0 /\ A[k - 1].rn = 0
      BY <1>10, <3>1
    <3>3. A[k].rn = A[k - 1].rn * b + D(k) /\ D(k) \in Nat
      BY <1>7, <3>1
    <3>. QED
      BY <1>1, <3>2, <3>3
  <2>. QED
    BY <2>1
<1>19. out \o zeros = digits /\ digits \in Seq(0 .. b - 1)
  <2>1. zeros \in Seq(0 .. b - 1) /\ Len(zeros) = z
    BY <1>1, <1>10
  <2>. HIDE DEF out, w
  <2>2. /\ DOMAIN (out \o zeros) = 1 .. K
        /\ out \o zeros = [i \in 1 .. K |-> (out \o zeros)[i]]
        /\ out \o zeros \in Seq(0 .. b - 1)
        /\ \A i \in 1 .. w : (out \o zeros)[i] = out[i]
        /\ \A i \in w + 1 .. K : (out \o zeros)[i] = zeros[i - w]
    <3>. HIDE DEF zeros
    <3> DEFINE s == out \o zeros
    <3>1. out \in Seq(0 .. b - 1) /\ Len(out) = w
      BY <1>17
    <3>2. s \in Seq(0 .. b - 1) /\ Len(s) = K
      BY ONLY <1>15, <2>1, <3>1
    <3>3. \A i \in 1 .. w : s[i] = out[i]
      BY ONLY <1>15, <2>1, <3>1
    <3>4. \A i \in w + 1 .. K : s[i] = zeros[i - w]
      BY ONLY <1>15, <2>1, <3>1
    <3>. HIDE DEF s
    <3>5. DOMAIN s = 1 .. K /\ s = [i \in 1 .. K |-> s[i]]
      BY <1>10, <3>2
    <3>. QED
      BY <3>2, <3>3, <3>4, <3>5 DEF s
  <2>3. \A i \in w + 1 .. K : i - w \in 1 .. z /\ K - i + 1 \in 1 .. z
    BY <1>15
  <2>4. \A i \in w + 1 .. K : zeros[i - w] = 0 /\ D(K - i + 1) = 0
    BY <1>18, <2>3
  <2>5. \A i \in 1 .. K : (out \o zeros)[i] = D(K - i + 1)
    <3>. HIDE DEF zeros
    <3>1. \A i \in 1 .. K : i \in 1 .. w \/ i \in w + 1 .. K
      BY <1>15
    <3>. QED
      BY <1>17, <2>2, <2>4, <3>1
  <2>. HIDE DEF zeros
  <2>. QED
    BY <2>2, <2>5
<1>. HIDE DEF out, zeros, w
<1>20. digits \in [1 .. K -> Nat] /\ \A i \in 1 .. K : digits[i] \in 0 .. b - 1
  <2>1. \A i \in 1 .. K : K - i + 1 \in 1 .. K
    BY <1>10
  <2>. QED
    BY <1>7, <2>1
<1>21. digits[1] # 0
  <2>1. digits[1] = D(K)
    <3>1. 1 \in 1 .. K /\ K - 1 + 1 = K
      BY <1>10
    <3>. QED
      BY <3>1
  <2>2. A[K - 1].n # 0 /\ A[K - 1].n = A[K].n * b + D(K) /\ A[K].n = 0 /\ D(K) \in Nat
    <3>1. K \in 1 .. K /\ K - 1 \in 0 .. K - 1
      BY <1>10
    <3>. QED
      BY <1>4, <1>7, <3>1 DEF LastTurn
  <2>. HIDE DEF digits
  <2>. QED
    BY <1>1, <2>1, <2>2
<1>22. DOMAIN digits = 1 .. K /\ \A i \in 1 .. K : digits[i] = D(K - i + 1)
  OBVIOUS
<1>. HIDE DEF digits
<1>23. PICK h \in [0 .. K -> Nat] : ValueTurns(h, digits, b, K)
  <2>1. Nat \in {Nat, Int}
    OBVIOUS
  <2>. QED
    BY ONLY <1>1, <1>10, <1>20, <2>1, ValueByTurns
<1> DEFINE T == {j \in 0 .. K : h[j] = A[K - j].n}
<1>24. T = 0 .. K
  <2>1. 0 \in T
    BY <1>10, <1>23 DEF ValueTurns, rev
  <2>2. ASSUME NEW j \in T, j < K PROVE j + 1 \in T
    <3>1. /\ j + 1 \in 1 .. K /\ j + 1 \in 0 .. K /\ (j + 1) - 1 = j
          /\ K - j \in 1 .. K /\ (K - j) - 1 = K - (j + 1) /\ K - (j + 1) + 1 = K - j
      BY <1>10, <2>2
    <3>2. h[j + 1] = h[j] * b + digits[j + 1]
      BY <1>23, <3>1 DEF ValueTurns
    <3>3. digits[j + 1] = D(K - j) /\ h[j] = A[K - j].n
      BY <1>22, <2>2, <3>1
    <3>4. A[K - (j + 1)].n = A[K - j].n * b + D(K - j)
      BY <1>7, <3>1
    <3>. QED
      BY <3>1, <3>2, <3>3, <3>4
  <2>3. T \in SUBSET (0 .. K)
    OBVIOUS
  <2>. HIDE DEF T
  <2>. QED
    BY <1>10, <2>1, <2>2, <2>3, UpTo
<1>25. Value(digits, b) = m
  <2>1. K \in 0 .. K /\ K - K = 0
    BY <1>10
  <2>2. h[K] = m
    BY <1>9, <1>24, <2>1
  <2>. QED
    BY <1>23, <2>2 DEF ValueTurns
<1>. QED
  BY <1>8, <1>11, <1>16, <1>19, <1>21, <1>25 DEF Prints

(* Nothing comes out of 0. *)
LEMMA NothingComesOut ==
    ASSUME Word \in Nat \ {0}, NEW b \in Nat, b > 1
    PROVE  Reversed(0, b).rn = 0 /\ Emitted(Reversed(0, b), b) = <<>>
<1>1. PICK A \in [0 .. Word -> RevStates] : RevTurns(A, 0, b)
  BY ReverseByTurns
<1>2. Reversed(0, b) = Start(0)
  <2>1. A[0] = Start(0) /\ A[0].n = 0 /\ 0 \in 0 .. Word
        /\ \A j \in 0 .. 0 - 1 : A[j].n # 0
    BY <1>1 DEF RevTurns, Start
  <2>. QED
    BY <1>1, <2>1 DEF RevTurns
<1>3. Start(0).rn = 0 /\ Start(0).scale = 0
  BY DEF Start
<1>4. PICK B \in [0 .. Word -> EmitStates(b)] : EmitTurns(B, Start(0), b)
  BY <1>3, EmitByTurns
<1>5. Emitted(Start(0), b) = <<>> \o [i \in 1 .. 0 |-> 0]
  <2>1. B[0].rn = 0 /\ B[0].out = <<>> /\ 0 \in 0 .. Word
        /\ \A j \in 0 .. 0 - 1 : B[j].rn # 0
    BY <1>3, <1>4 DEF EmitTurns
  <2>. QED
    BY <1>3, <1>4, <2>1 DEF EmitTurns
<1>6. <<>> \o [i \in 1 .. 0 |-> 0] = <<>>
  OBVIOUS
<1>. QED
  BY <1>2, <1>3, <1>5, <1>6

(* What has been printed, and what of it. *)
NumberPrinted ==
    /\ call.f \in {"kputx", "kputd"} => call.n \in 0 .. Word - 1
    /\ Done("kputx") => result = kputx(call.n)
    /\ Done("kputd") => result = kputd(call.n)

(* The functions are called with a word, and return what they compute. *)
LEMMA PrintingInductive == LibrarySpec => []NumberPrinted
<1>1. ASSUME LibraryInit PROVE NumberPrinted
  <2>1. CASE NumberCall
    BY <1>1, <2>1 DEF LibraryInit, NumberCall, NumberPrinted, Done
  <2>2. CASE MemoryCall
    <3>1. call.f \notin {"kputx", "kputd"}
      BY <2>2 DEF MemoryCall
    <3>. QED
      BY <1>1, <3>1 DEF LibraryInit, NumberPrinted, Done
  <2>. QED
    BY <1>1, <2>1, <2>2 DEF LibraryInit
<1>2. ASSUME NumberPrinted, [LibraryNext]_(LibraryVars) PROVE NumberPrinted'
  <2>1. CASE UNCHANGED LibraryVars
    BY <1>2, <2>1 DEF LibraryVars, NumberPrinted, Done
  <2>2. CASE LibraryNext
    BY <1>2, <2>2 DEF LibraryNext, Return, NumberPrinted, Done
  <2>. QED
    BY <1>2, <2>1, <2>2
<1>. QED
  BY <1>1, <1>2, PTL DEF LibrarySpec

(* Zeros mean 0. *)
LEMMA ZerosMeanZero ==
    ASSUME NEW base \in Nat, NEW n \in Nat, NEW digits \in [1 .. n -> {0}]
    PROVE  Value(digits, base) = 0
<1>1. digits \in [1 .. n -> Nat] /\ Nat \in {Nat, Int}
  OBVIOUS
<1>2. PICK h \in [0 .. n -> Nat] : ValueTurns(h, digits, base, n)
  BY ONLY <1>1, base \in Nat, n \in Nat, ValueByTurns
<1> DEFINE S == {k \in 0 .. n : h[k] = 0}
<1>3. 0 \in S
  BY <1>2 DEF ValueTurns
<1>4. ASSUME NEW k \in S, k < n PROVE k + 1 \in S
  <2>1. k + 1 \in 1 .. n /\ (k + 1) - 1 = k /\ h[k] = 0
    BY <1>4
  <2>2. h[k + 1] = h[k] * base + digits[k + 1]
    BY <1>2, <2>1 DEF ValueTurns
  <2>. QED
    BY <2>1, <2>2
<1>5. n \in S
  <2>1. S = 0 .. n
    BY <1>3, <1>4, UpTo
  <2>. QED
    BY <2>1
<1>. QED
  BY <1>2, <1>5 DEF ValueTurns

(* %x prints every number, without a zero in front unless it is 0, for words of
   any number of hexadecimal digits: the word has room for as many the other
   way round (kprintf.c). *)
THEOREM HexadecimalIsRight ==
    ASSUME NEW p \in Nat \ {0}, NEW P, Powers(P, 16, p), P[p] = Word
    PROVE  LibrarySpec => []HexIsRight
<1>1. Word \in Nat \ {0}
  BY NumbersAssumption
<1>2. ASSUME NumberPrinted PROVE HexIsRight
  <2>1. SUFFICES ASSUME Done("kputx") PROVE HexIsRight
    BY DEF HexIsRight
  <2> DEFINE n == call.n
             rev == Reversed(n, 16)
             out == Emitted(rev, 16)
             digits == result.digits
  <2>2. n \in 0 .. Word - 1 /\ result = kputx(n)
    BY <1>2, <2>1 DEF NumberPrinted, Done
  <2>3. /\ result.minus = FALSE
        /\ digits = (IF rev.rn = 0 THEN <<0, 0>> ELSE <<>>) \o out
    BY <2>2 DEF kputx, Printed
  <2>4. n \in Nat /\ n < P[p] /\ 16 \in Nat /\ 16 > 1 /\ p \in Nat /\ P[p] <= Word
    BY <1>1, <2>2
  <2>. HIDE DEF n, rev, digits
  <2>5. CASE n # 0
    <3>1. HasRoom(16, P, p, n)
      BY <1>1, <2>4 DEF HasRoom
    <3>2. rev.rn # 0 /\ Prints(out, n, 16)
      BY <2>5, <3>1, DigitsComeOut DEF rev
    <3>3. out \in Seq(0 .. 15)
      BY <3>2 DEF Prints
    <3>. HIDE DEF out
    <3>4. digits = out
      BY <2>3, <3>2, <3>3
    <3>5. /\ Value(digits, 16) = n
          /\ \A i \in DOMAIN digits : digits[i] \in 0 .. 16 - 1
          /\ digits[1] # 0
      BY <3>2, <3>3, <3>4 DEF Prints
    <3>. QED
      BY <2>3, <3>5 DEF HexIsRight, Means, n, digits
  <2>6. CASE n = 0
    <3>1. rev.rn = 0 /\ out = <<>>
      BY <1>1, <2>4, <2>6, NothingComesOut DEF rev
    <3>. HIDE DEF out
    <3>2. digits = <<0, 0>>
      BY <2>3, <3>1
    <3>3. digits \in [1 .. 2 -> {0}] /\ 2 \in Nat
      BY <3>2
    <3>4. Value(digits, 16) = 0
      BY <2>4, <3>3, ZerosMeanZero
    <3>5. \A i \in DOMAIN digits : digits[i] \in 0 .. 16 - 1
      BY <3>3
    <3>. QED
      BY <2>3, <2>6, <3>2, <3>4, <3>5 DEF HexIsRight, Means, n, digits
  <2>. QED
    BY <2>5, <2>6
<1>. QED
  BY <1>2, PrintingInductive, PTL

(* Numbers below max come out as they are. *)
PrintedAsIs(max) ==
    Done("kputd") /\ Magnitude < max =>
        /\ result.minus = (call.n >= Word \div 2)
        /\ Means(Magnitude, 10)

(* %d prints every number, with its sign, that has fewer digits than half the
   word, where the positive numbers end: of 32 bits, those below 10^9.  The word
   has room for as many digits the other way round (kprintf.c). *)
THEOREM ShortDecimalIsRight ==
    ASSUME NEW p \in Nat, NEW P, Powers(P, 10, p), P[p] <= Word \div 2
    PROVE  LibrarySpec => []PrintedAsIs(P[p])
<1>. Word \in Nat \ {0} /\ Word % 2 = 0
  BY NumbersAssumption
<1>1. P[p] \in Nat /\ 10 \in Nat /\ 10 > 1
  BY DEF Powers
<1>2. ASSUME NumberPrinted PROVE PrintedAsIs(P[p])
  <2>1. SUFFICES ASSUME Done("kputd"), Magnitude < P[p]
                 PROVE  /\ result.minus = (call.n >= Word \div 2)
                        /\ Means(Magnitude, 10)
    BY DEF PrintedAsIs
  <2> DEFINE n == call.n
             m == Magnitude
             half == Word \div 2
             rev == Reversed(m, 10)
             out == Emitted(rev, 10)
  <2>2. n \in 0 .. Word - 1 /\ result = kputd(n)
    BY <1>2, <2>1 DEF NumberPrinted, Done
  <2>3. half \in Nat /\ Word = 2 * half
    OBVIOUS
  <2>4. m = (IF n < half THEN n ELSE Word - n) /\ m < P[p]
    BY <2>1 DEF Magnitude
  <2>. HIDE DEF half, m, n
  <2>5. m \in Nat /\ (m # 0 \/ n < half) /\ n # half /\ m < P[p] /\ P[p] <= Word
    BY <1>1, <2>2, <2>3, <2>4 DEF half
  <2>6. Signed(n) = m
    BY <2>4, <2>5 DEF Signed, half
  <2>7. result = IF rev.rn = 0 THEN Printed(FALSE, <<0>>)
                 ELSE Printed(n >= half, out)
    BY <2>2, <2>6 DEF kputd, half
  <2>. HIDE DEF rev
  <2>8. CASE m # 0
    <3>1. HasRoom(10, P, p, m)
      BY <1>1, <2>5 DEF HasRoom
    <3>2. rev.rn # 0 /\ Prints(out, m, 10)
      BY <2>8, <3>1, DigitsComeOut DEF rev
    <3>3. out \in Seq(0 .. 9) /\ Value(out, 10) = m
      BY <3>2 DEF Prints
    <3>. HIDE DEF out
    <3>4. result.minus = (n >= half) /\ result.digits = out
      BY <2>7, <3>2 DEF Printed
    <3>5. \A i \in DOMAIN out : out[i] \in 0 .. 10 - 1
      BY <3>3
    <3>. QED
      BY <3>3, <3>4, <3>5 DEF Means, m, n, half
  <2>9. CASE m = 0
    <3>1. rev.rn = 0
      BY <1>1, <2>9, NothingComesOut DEF rev
    <3>2. result.minus = FALSE /\ result.digits = <<0>>
      BY <2>7, <3>1 DEF Printed
    <3>3. ~(n >= half)
      BY <2>2, <2>3, <2>5, <2>9
    <3>4. <<0>> \in [1 .. 1 -> {0}] /\ 1 \in Nat
      OBVIOUS
    <3>5. Value(<<0>>, 10) = 0
      BY <1>1, <3>4, ZerosMeanZero
    <3>6. \A i \in DOMAIN <<0>> : <<0>>[i] \in 0 .. 10 - 1
      OBVIOUS
    <3>7. Means(m, 10)
      BY <2>9, <3>2, <3>5, <3>6 DEF Means
    <3>8. result.minus = (n >= half)
      <4>1. (n >= half) = FALSE
        BY <3>3
      <4>. QED
        BY <3>2, <4>1
    <3>. QED
      BY <3>7, <3>8 DEF m, n, half
  <2>. QED
    BY <2>8, <2>9
<1>. QED
  BY <1>2, PrintingInductive, PTL
=============================================================================
