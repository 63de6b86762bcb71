------------------------------- MODULE Euclid -------------------------------
(***************************************************************************)
(* The program src/usr/euclid.c: what it makes of the two lines it reads.  *)
(* A line is added up in an int, which wraps.  The factors of a call are   *)
(* not: Library shows that they stay below its arguments.                  *)
(***************************************************************************)
EXTENDS Numbers

(* The int with the same bits: what a sum that overflows is in the build. *)
AsInt(n) == ((n + Word \div 2) % Word) - Word \div 2

(* Characters are counted from '0', and so a minus sign is -3.  Sums and
   products that wrap may as well wrap at the end. *)
toint(line) == AsInt(FoldLeft(LAMBDA n, ch : n * 10 + ch, 0, line))

(* The smallest int is divided by -1, now or in the call inside: the division
   does not fit, and the fault comes back as often as its handler returns. *)
Faults(a, b) == {a, b} = {-(Word \div 2), -1}

(* What a call makes of aux after the call inside it. *)
AfterCall(a, b, aux) ==
    [d |-> aux.d, x |-> aux.y, y |-> aux.x - Quot(a, b) * aux.y]

(* What the calls return.  No call has an argument whose absolute value is larger than max. *)
euclid(a, b) ==
    LET max == IF Abs(a) > Abs(b) THEN Abs(a) ELSE Abs(b)
        aux[c \in (-max .. max) \X (-max .. max)] ==
            IF c[2] = 0 THEN [d |-> c[1], x |-> 1, y |-> 0]
            ELSE AfterCall(c[1], c[2], aux[<<c[2], Rem(c[1], c[2])>>])
    IN  aux[<<a, b>>]
=============================================================================
