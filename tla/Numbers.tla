------------------------------ MODULE Numbers -------------------------------
(***************************************************************************)
(* The conversions %d and %x of src/kprintf.c.  Both reverse the digits of *)
(* the number in a word, counting the zeros at its end, which the reversal *)
(* loses, and print the reversed number from its last digit to its first.  *)
(***************************************************************************)
EXTENDS Integers, SequencesExt

CONSTANT Word   \* values of a uint32_t: 2^32 in the source

ASSUME NumbersAssumption == Word \in Nat /\ Word > 1 /\ Word % 2 = 0

(* The division of C, which rounds towards 0. *)
Abs(x) == IF x < 0 THEN -x ELSE x
Quot(x, y) == IF (x < 0) = (y < 0) THEN Abs(x) \div Abs(y)
                                   ELSE -(Abs(x) \div Abs(y))
Rem(x, y) == x - y * Quot(x, y)

(* What a loop makes of s as long as it goes on, in at most Word turns. *)
Loop(s, Goes(_), Turn(_)) ==
    LET after[k \in 0 .. Word] ==
            IF k = 0 THEN s ELSE Turn(after[k - 1])
        last == CHOOSE k \in 0 .. Word :
                   ~Goes(after[k]) /\ \A j \in 0 .. k - 1 : Goes(after[j])
    IN  after[last]

Turn(s, base) ==
    LET zero == Rem(s.n, base) = 0
    IN  [n |-> Quot(s.n, base),
         rn |-> (s.rn * base + Rem(s.n, base)) % Word,
         scale |-> IF s.start /\ zero THEN s.scale + 1 ELSE s.scale,
         start |-> s.start /\ zero]

Reversed(n, base) ==
    Loop([n |-> n, rn |-> 0, scale |-> 0, start |-> TRUE],
         LAMBDA s : s.n # 0, LAMBDA s : Turn(s, base))

(* The digits of rn from the last, and the zeros that were counted. *)
Emitted(rev, base) ==
    Loop([rn |-> rev.rn, out |-> <<>>], LAMBDA s : s.rn # 0,
         LAMBDA s : [rn |-> s.rn \div base,
                     out |-> Append(s.out, s.rn % base)]).out
    \o [i \in 1 .. rev.scale |-> 0]

Printed(minus, digits) == [minus |-> minus, digits |-> digits]

kputx(n) == LET rev == Reversed(n, 16)
            IN  Printed(FALSE, (IF rev.rn = 0 THEN <<0, 0>> ELSE <<>>)
                             \o Emitted(rev, 16))

(* Mutant of Signed: the complement is not incremented. *)
Signed_noIncrement(n) == IF n < Word \div 2 THEN n ELSE Word - 1 - n

(* As an int32_t; ~n + 1 is n itself for the number without a positive one. *)
Signed(n) == IF n < Word \div 2 THEN n
             ELSE IF n = Word \div 2 THEN -n ELSE Word - n

kputd(n) == LET rev == Reversed(Signed(n), 10)
            IN  IF rev.rn = 0 THEN Printed(FALSE, <<0>>)
                ELSE Printed(n >= Word \div 2, Emitted(rev, 10))
=============================================================================
