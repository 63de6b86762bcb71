------------------------------ MODULE Library -------------------------------
(***************************************************************************)
(* One call of a function of Numbers, Strings or Euclid, against what the  *)
(* number printed means, what the memory should look like and what the     *)
(* greatest common divisor is.                                             *)
(***************************************************************************)
EXTENDS Numbers, Strings, Euclid

CONSTANTS Size,     \* bytes of the memory
          Lines     \* what is typed: characters, counted from '0'

(* Longer lines do not fit the array that euclid.c reads them into. *)
ASSUME LibraryAssumption ==
    /\ Size \in Nat
    /\ \A line \in Lines : line \in Seq(Int) /\ Len(line) < 16

VARIABLES call,     \* the function and its arguments
          done,     \* it has returned
          result    \* what it returned, printed or left behind

LibraryVars == <<call, done, result>>

Memories == [0 .. Size - 1 -> Bytes]

(* Two areas, with room for a byte behind them. *)
Areas == {a \in [s1 : 0 .. Size - 1, s2 : 0 .. Size - 1, n : 0 .. Size - 1] :
             a.s1 + a.n < Size /\ a.s2 + a.n < Size}

NumberCall ==
    \/ \E f \in {"kputx", "kputd"}, n \in 0 .. Word - 1 :
          call = [f |-> f, n |-> n]
    \/ \E a, b \in Lines : call = [f |-> "euclid", a |-> toint(a), b |-> toint(b)]

MemoryCall ==
    \E mem \in Memories :
        \/ \E f \in {"memcpy", "memmove", "memcmp"}, a \in Areas :
              call = [f |-> f, mem |-> mem, area |-> a]
        \/ \E a \in Areas, c \in Bytes \cup {ByteSpan} :
              call = [f |-> "memset", mem |-> mem, area |-> a, c |-> c]
        \/ \E a \in Areas :
              /\ \E i \in a.s1 .. Size - 1 : mem[i] = 0
              /\ call = [f |-> "strlen", mem |-> mem, area |-> a]

LibraryInit == (NumberCall \/ MemoryCall) /\ done = FALSE /\ result = <<>>

Return(f, r) == /\ ~done /\ done' = TRUE
                /\ call.f = f
                /\ result' = r
                /\ UNCHANGED call

LibraryNext ==
    \/ Return("kputx", kputx(call.n)) \/ Return("kputd", kputd(call.n))
    \/ /\ call.f = "euclid" /\ ~Faults(call.a, call.b)
       /\ Return("euclid", euclid(call.a, call.b))
    \/ Return("memcpy", memcpy(call.mem, call.area.s1, call.area.s2, call.area.n))
    \/ Return("memmove", memmove(call.mem, call.area.s1, call.area.s2, call.area.n))
    \/ Return("memcmp", memcmp(call.mem, call.area.s1, call.area.s2, call.area.n))
    \/ Return("memset", memset(call.mem, call.area.s1, call.c, call.area.n))
    \/ Return("strlen", strlen(call.mem, call.area.s1))

LibrarySpec == LibraryInit /\ [][LibraryNext]_LibraryVars

-----------------------------------------------------------------------------
Done(f) == done /\ call.f = f

(* What a reader makes of the digits. *)
Value(digits, base) == FoldLeft(LAMBDA v, d : v * base + d, 0, digits)
Means(n, base) == /\ Value(result.digits, base) = n
                  /\ \A i \in DOMAIN result.digits :
                        result.digits[i] \in 0 .. base - 1

(* %x prints every number, without a zero in front unless it is 0, which it
   prints twice: the reversed digits fit the word, as they fill whole bits. *)
HexIsRight ==
    Done("kputx") =>
        /\ ~result.minus
        /\ Means(call.n, 16)
        /\ result.digits[1] = 0 => result.digits = <<0, 0>>

Magnitude == IF call.n < Word \div 2 THEN call.n ELSE Word - call.n

(* The number whose digits are those of m from the last to the first. *)
Backwards(m) ==
    LET digits == {i \in 0 .. 9 : 10 ^ i <= m}
    IN  FoldSet(LAMBDA i, v : v + ((m \div 10 ^ i) % 10)
                                  * 10 ^ (Cardinality(digits) - 1 - i),
                0, digits)

(* %d prints a number if and only if its digits also fit the word the other
   way round: 1999999999 is one that does not come out. *)
DecimalIsRight ==
    Done("kputd") =>
        ((/\ result.minus = (call.n >= Word \div 2)
          /\ Means(Magnitude, 10))
         <=> Backwards(Magnitude) < Word)

(* The area at s1 holds what the other did, and nothing else has changed. *)
Copied ==
    LET a == call.area
    IN  \A i \in 0 .. Size - 1 :
            result[i] = IF i \in a.s1 .. a.s1 + a.n - 1
                          THEN call.mem[i + a.s2 - a.s1] ELSE call.mem[i]

(* memcpy copies areas that do not overlap, which is all it is for, and those
   that overlap when it copies downwards, which memmove relies on. *)
CopyIsRight ==
    Done("memcpy") =>
        (call.area.s1 <= call.area.s2 \/ call.area.s1 >= call.area.s2 + call.area.n
            => Copied)

(* memmove copies downwards, overlapping or not.  Upwards it leaves out the
   first byte and writes one byte behind the area. *)
MoveIsRight ==
    Done("memmove") /\ call.area.s1 <= call.area.s2 => Copied

FillIsRight ==
    Done("memset") =>
        \A i \in 0 .. Size - 1 :
            result[i] = IF i - call.area.s1 \in 0 .. call.area.n - 1
                          THEN call.c % ByteSpan ELSE call.mem[i]

(* The sign of memcmp is that of the difference of the areas, taken as numbers
   with their first bytes most significant. *)
Number(s, n) == Value([i \in 1 .. n |-> call.mem[s + i - 1]], ByteSpan)

CompareIsRight ==
    Done("memcmp") =>
        LET d == Number(call.area.s1, call.area.n) - Number(call.area.s2, call.area.n)
        IN  (result < 0 <=> d < 0) /\ (result > 0 <=> d > 0)

LengthIsRight ==
    Done("strlen") => /\ call.mem[call.area.s1 + result] = 0
                      /\ 0 \notin {call.mem[call.area.s1 + i] : i \in 0 .. result - 1}

(* What the functions of string.c leave in memory, or say about it, is what
   their standard asks of them, but for memmove upwards. *)
BytesAreRight == /\ CopyIsRight /\ MoveIsRight /\ FillIsRight
                 /\ CompareIsRight /\ LengthIsRight

Ints == -(Word \div 2) .. Word \div 2 - 1

(* euclid, when it returns, has found the greatest common divisor of the ints
   that it took the lines for, up to the sign, and how to combine it from them,
   with factors that are smaller, or 1, and so are ints as well. *)
GcdIsRight ==
    Done("euclid") =>
        LET max == IF Abs(call.a) > Abs(call.b) THEN Abs(call.a) ELSE Abs(call.b)
        IN  /\ call.a * result.x + call.b * result.y = result.d
            /\ IF max = 0 THEN result.d = 0
               ELSE Abs(result.d) = CHOOSE d \in 1 .. max :
                       /\ call.a % d = 0 /\ call.b % d = 0
                       /\ \A e \in d + 1 .. max : call.a % e # 0 \/ call.b % e # 0
            /\ {Abs(result.x), Abs(result.y)} \subseteq 0 .. max - 1 \cup {0, 1}
            /\ result.d \in Ints

(* The numbers that are printed mean what they are taken for. *)
NumbersAreRight == HexIsRight /\ DecimalIsRight /\ GcdIsRight
=============================================================================
