------------------------------ MODULE Terminal ------------------------------
(***************************************************************************)
(* What a screen shows of the characters it is given: the last lines of    *)
(* them, with a cursor that is always on the screen.                       *)
(***************************************************************************)
EXTENDS Naturals

CONSTANTS Width, Height,    \* of the screen
          Tab,              \* distance of tab stops
          Graphic, Other,   \* characters with a picture, and without any effect
          Blank             \* the picture of nothing

VARIABLES lines, row, col

vars == <<lines, row, col>>

BlankLine == [c \in 0 .. Width - 1 |-> Blank]

Init == /\ lines = [r \in 0 .. Height - 1 |-> BlankLine]
        /\ row = 0
        /\ col = 0

(* The cursor goes to the start of the next line; below the last one, every
   line moves up. *)
NextLine(text) ==
    /\ col' = 0
    /\ IF row + 1 < Height
         THEN row' = row + 1 /\ lines' = text
         ELSE /\ row' = row
              /\ lines' = [r \in 0 .. Height - 1 |->
                              IF r + 1 < Height THEN text[r + 1] ELSE BlankLine]

(* The cursor goes to column c of the text, if there is one. *)
MoveTo(c, text) == IF c < Width
                     THEN col' = c /\ lines' = text /\ UNCHANGED row
                     ELSE NextLine(text)

Put(ch) ==
    \/ ch \in Graphic /\ MoveTo(col + 1, [lines EXCEPT ![row][col] = ch])
    \/ ch = "newline" /\ NextLine(lines)
    \/ ch = "return" /\ MoveTo(0, lines)
    \/ ch = "back" /\ MoveTo(IF col = 0 THEN 0 ELSE col - 1, lines)
    \/ ch = "tab" /\ MoveTo(col + Tab - (col % Tab), lines)
    \/ ch \in Other /\ UNCHANGED vars

Next == \E ch \in Graphic \cup Other \cup {"newline", "return", "back", "tab"} : Put(ch)

Spec == Init /\ [][Next]_vars
=============================================================================
