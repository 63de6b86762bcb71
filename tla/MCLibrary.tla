----------------------------- MODULE MCLibrary ------------------------------
(***************************************************************************)
(* An instance of Library for TLC: every number of a word of 12 bits, three *)
(* digits of %x and up to four of %d; every area of five bytes; lines of   *)
(* up to two digits or minus signs, and those of four digits around the    *)
(* largest int, 2047, and the largest word, 4095.                          *)
(***************************************************************************)
EXTENDS Library

Chars == {-3} \cup 0 .. 9

MCLines == UNION {[1 .. k -> Chars] : k \in 1 .. 2}
           \cup {<<2, 0, 4, d>> : d \in 6 .. 9}
           \cup {<<4, 0, 9, d>> : d \in 4 .. 7}
=============================================================================
