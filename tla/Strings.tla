------------------------------ MODULE Strings -------------------------------
(***************************************************************************)
(* The functions of src/string.c on a memory, a function from addresses to *)
(* bytes.  Each takes its loop byte by byte, so that it shows what becomes *)
(* of areas that overlap.                                                  *)
(***************************************************************************)
EXTENDS Integers, SequencesExt

CONSTANT ByteSpan   \* values of a uint8_t: 256 in the source

ASSUME StringsAssumption == ByteSpan \in Nat \ {0, 1}

Bytes == 0 .. ByteSpan - 1

(* Copies the bytes at the given offsets from s2 to s1, one after the other. *)
Copy(mem, s1, s2, offsets) ==
    FoldLeft(LAMBDA m, i : [m EXCEPT ![s1 + i] = m[s2 + i]], mem, offsets)

Upwards(n) == [k \in 1 .. n |-> k - 1]

memcpy(mem, s1, s2, n) == Copy(mem, s1, s2, Upwards(n))

(* Mutant of memmove: the comparison is the wrong way round. *)
memmove_swapped(mem, s1, s2, n) ==
    IF s1 > s2 THEN memcpy(mem, s1, s2, n)
    ELSE Copy(mem, s1, s2, [k \in 1 .. n |-> n + 1 - k])

(* The loop for s1 >= s2 runs from n down to 1, not from n - 1 to 0. *)
memmove(mem, s1, s2, n) ==
    IF s1 < s2 THEN memcpy(mem, s1, s2, n)
    ELSE Copy(mem, s1, s2, [k \in 1 .. n |-> n + 1 - k])

memset(mem, s, c, n) ==
    FoldLeft(LAMBDA m, i : [m EXCEPT ![s + i] = c % ByteSpan], mem, Upwards(n))

(* The first difference ends the loop. *)
memcmp(mem, s1, s2, n) ==
    FoldLeft(LAMBDA d, i : IF d # 0 THEN d ELSE mem[s1 + i] - mem[s2 + i],
             0, Upwards(n))

(* For a string that has a terminator: there is one ahead. *)
strlen(mem, s) ==
    LET inside == {i \in DOMAIN mem : \E j \in DOMAIN mem : j >= i /\ mem[j] = 0}
        len[i \in inside] == IF mem[i] = 0 THEN 0 ELSE 1 + len[i + 1]
    IN  len[s]
=============================================================================
