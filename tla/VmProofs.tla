------------------------------ MODULE VmProofs ------------------------------
(***************************************************************************)
(* Proofs about the address spaces: for page tables, halves and memories   *)
(* of every size, and any number of tasks and calls.                       *)
(***************************************************************************)
EXTENDS Vm, WellFoundedInduction, TLAPS

-----------------------------------------------------------------------------
(* Division, for a divisor that is a parameter. *)
LEMMA Parts ==
    ASSUME NEW d \in Nat \ {0}, NEW n \in Nat
    PROVE  n % d \in 0 .. d - 1 /\ n \div d \in Nat /\ n = d * (n \div d) + (n % d)
OBVIOUS

(* Multiples of d are d apart. *)
LEMMA Multiples ==
    ASSUME NEW d \in Nat \ {0}, NEW j \in Int, NEW k \in Int, j < k
    PROVE  d * j + d <= d * k
<1>1. k - j >= 1
  OBVIOUS
<1>2. d * (k - j) >= d
  BY <1>1
<1>3. d * (k - j) = d * k - d * j
  OBVIOUS
<1>. QED
  BY <1>2, <1>3

(* There is one quotient and one remainder. *)
LEMMA OneQuotient ==
    ASSUME NEW d \in Nat \ {0}, NEW j \in Int, NEW k \in Int,
           NEW r \in 0 .. d - 1, NEW t \in 0 .. d - 1, d * j + t = d * k + r
    PROVE  j = k /\ t = r
<1>1. d * j \in Int /\ d * k \in Int
  OBVIOUS
<1>2. ASSUME j < k PROVE FALSE
  BY <1>1, <1>2, Multiples
<1>3. ASSUME k < j PROVE FALSE
  BY <1>1, <1>3, Multiples
<1>4. j = k
  BY <1>2, <1>3
<1>5. d * j = d * k
  BY <1>4
<1>. QED
  BY <1>1, <1>4, <1>5

(* The quotient and remainder of a number of which they are known. *)
LEMMA Divided ==
    ASSUME NEW d \in Nat \ {0}, NEW k \in Nat, NEW r \in 0 .. d - 1
    PROVE  (d * k + r) \div d = k /\ (d * k + r) % d = r
<1> DEFINE n == d * k + r
           j == n \div d
           t == n % d
<1>1. n \in Nat
  OBVIOUS
<1>. HIDE DEF n
<1>2. n = d * j + t /\ t \in 0 .. d - 1 /\ j \in Int
  BY <1>1, Parts
<1>3. n = d * k + r
  BY DEF n
<1>. HIDE DEF j, t
<1>4. d * j + t = d * k + r /\ k \in Int
  BY <1>2, <1>3
<1>5. j = k /\ t = r
  BY <1>2, <1>4, OneQuotient
<1>. QED
  BY <1>5 DEF j, t, n

(* A larger number has no smaller quotient. *)
LEMMA Monotone ==
    ASSUME NEW d \in Nat \ {0}, NEW a \in Nat, NEW b \in Nat, a <= b
    PROVE  a \div d <= b \div d
<1> DEFINE j == a \div d
           k == b \div d
           t == a % d
           r == b % d
<1>1. /\ a = d * j + t /\ t \in 0 .. d - 1 /\ j \in Nat
      /\ b = d * k + r /\ r \in 0 .. d - 1 /\ k \in Nat
  BY Parts
<1>. HIDE DEF j, k, t, r
<1>2. ASSUME k < j PROVE FALSE
  <2>1. d * k + d <= d * j
    BY <1>1, <1>2, Multiples
  <2>2. d * k \in Nat /\ d * j \in Nat
    BY <1>1
  <2>. QED
    BY <1>1, <2>1, <2>2
<1>3. j <= k
  BY <1>1, <1>2
<1>. QED
  BY <1>3 DEF j, k

-----------------------------------------------------------------------------
(* The entries of a directory: the user's half, the kernel's tables, the
   tables of I/O. *)
HALF == PDIRE(KHALF)
KTABLES == PDIRE(KHEAP)
IO == PDIRE(IO_START)
IOTABLES == PDIRE(VaTop) - IO
Shared == (HALF .. HALF + KTABLES - 1) \cup (IO .. IO + IOTABLES - 1)

(* A multiple of the size of a table is as many times that as it has tables. *)
LEMMA Whole ==
    ASSUME NEW x \in Nat \ {0}, x % PtblSize = 0
    PROVE  PDIRE(x) \in Nat \ {0} /\ x = PtblSize * PDIRE(x)
<1>1. PtblSize \in Nat \ {0}
  BY PagingAssumption
<1>2. x \div PtblSize \in Nat /\ x = PtblSize * (x \div PtblSize) + (x % PtblSize)
  BY <1>1, Parts
<1> DEFINE q == x \div PtblSize
<1>3. q \in Nat /\ x = PtblSize * q
  BY <1>1, <1>2
<1>. HIDE DEF q
<1>4. q # 0
  BY <1>1, <1>3
<1>. QED
  BY <1>3, <1>4 DEF q, PDIRE

(* Whole tables are in the order of their addresses. *)
LEMMA Order ==
    ASSUME NEW j \in Nat, NEW k \in Nat, PtblSize * j < PtblSize * k
    PROVE  j < k
<1>1. PtblSize \in Nat \ {0}
  BY PagingAssumption
<1>2. ASSUME k < j PROVE FALSE
  <2>1. PtblSize * k + PtblSize <= PtblSize * j
    BY <1>1, <1>2, Multiples
  <2>2. PtblSize * k \in Nat /\ PtblSize * j \in Nat
    BY <1>1
  <2>. QED
    BY <1>1, <2>1, <2>2
<1>3. ASSUME j = k PROVE FALSE
  <2>1. PtblSize * j = PtblSize * k /\ PtblSize * j \in Nat
    BY <1>1, <1>3
  <2>. QED
    BY <2>1
<1>. QED
  BY <1>2, <1>3

(* The constants, by tables. *)
LEMMA Constants ==
    /\ PtblSize \in Nat \ {0}
    /\ {KHALF, KHEAP, IO_START, VaTop} \subseteq Nat \ {0}
    /\ HALF \in Nat \ {0} /\ KTABLES \in Nat \ {0}
    /\ IO \in Nat \ {0} /\ IOTABLES \in Nat \ {0}
    /\ KHALF = PtblSize * HALF /\ KHEAP = PtblSize * KTABLES
    /\ IO_START = PtblSize * IO /\ VaTop = PtblSize * (IO + IOTABLES)
    /\ KHEAP < KHALF /\ KHALF + KHEAP < IO_START /\ IO_START < VaTop
    /\ KTABLES < HALF /\ HALF + KTABLES < IO
<1>1. /\ PtblSize \in Nat \ {0}
      /\ {KHALF, KHEAP, IO_START, VaTop} \subseteq Nat \ {0}
      /\ KHEAP < KHALF /\ KHALF + KHEAP < IO_START /\ IO_START < VaTop
  BY PagingAssumption
<1>2. \A x \in {KHALF, KHEAP, IO_START, VaTop} :
          PDIRE(x) \in Nat \ {0} /\ x = PtblSize * PDIRE(x)
  BY PagingAssumption, Whole
<1>3. /\ HALF \in Nat \ {0} /\ KTABLES \in Nat \ {0} /\ IO \in Nat \ {0}
      /\ KHALF = PtblSize * HALF /\ KHEAP = PtblSize * KTABLES
      /\ IO_START = PtblSize * IO
  BY <1>2 DEF HALF, KTABLES, IO
<1> DEFINE all == PDIRE(VaTop)
<1>4. all \in Nat \ {0} /\ VaTop = PtblSize * all
  BY <1>2
<1>. HIDE DEF all
<1>5. IO < all
  BY <1>1, <1>3, <1>4, Order
<1>6. IOTABLES = all - IO
  BY DEF IOTABLES, all
<1>7. IOTABLES \in Nat \ {0} /\ IO + IOTABLES = all
  BY <1>3, <1>4, <1>5, <1>6
<1>8. KTABLES < HALF
  BY <1>1, <1>3, Order
<1>9. HALF + KTABLES < IO
  <2>1. PtblSize * (HALF + KTABLES) = PtblSize * HALF + PtblSize * KTABLES
    BY <1>1, <1>3
  <2>2. HALF + KTABLES \in Nat
    BY <1>3
  <2>. QED
    BY <1>1, <1>3, <2>1, <2>2, Order
<1>. QED
  BY <1>1, <1>3, <1>4, <1>7, <1>8, <1>9

(* Every index of a table or a directory is one of a page. *)
LEMMA Indices ==
    PtblSize <= VaTop /\ IO + IOTABLES <= VaTop
<1> DEFINE all == IO + IOTABLES
           P == PtblSize
<1>1. all \in Nat \ {0} /\ P \in Nat \ {0} /\ VaTop = P * all
  BY Constants
<1>. HIDE DEF all, P
<1>2. P * 0 + P <= P * all
  BY <1>1, Multiples
<1>3. all * 0 + all <= all * P
  BY <1>1, Multiples
<1>4. P * 0 = 0 /\ all * 0 = 0 /\ all * P = P * all
  BY <1>1
<1>. QED
  BY <1>1, <1>2, <1>3, <1>4 DEF all, P

(* The table and the entry of a page. *)
LEMMA Page ==
    ASSUME NEW j \in Nat, NEW i \in 0 .. PtblSize - 1
    PROVE  /\ PtblSize * j + i \in Nat
           /\ PDIRE(PtblSize * j + i) = j /\ PTBLE(PtblSize * j + i) = i
<1>1. PtblSize * j \in Nat
  BY Constants
<1>. QED
  BY <1>1, Constants, Divided DEF PDIRE, PTBLE

(* Every page is an entry of a table. *)
LEMMA PageParts ==
    ASSUME NEW va \in Nat
    PROVE  /\ PDIRE(va) \in Nat /\ PTBLE(va) \in 0 .. PtblSize - 1
           /\ va = PtblSize * PDIRE(va) + PTBLE(va)
BY Constants, Parts DEF PDIRE, PTBLE

(* A page below a multiple of the size of a table is in a table below. *)
LEMMA PageBelow ==
    ASSUME NEW va \in Nat, NEW k \in Nat, va < PtblSize * k
    PROVE  PDIRE(va) < k
<1> DEFINE j == PDIRE(va)
           i == PTBLE(va)
<1>1. j \in Nat /\ i \in 0 .. PtblSize - 1 /\ va = PtblSize * j + i
  BY PageParts
<1>. HIDE DEF i, j
<1>2. PtblSize * j \in Nat /\ PtblSize * k \in Nat
  BY <1>1, Constants
<1>3. PtblSize * j < PtblSize * k
  BY <1>1, <1>2
<1>4. j < k
  BY <1>1, <1>3, Order
<1>. QED
  BY <1>4 DEF j

(* The last page of the user's half is the last of its last table. *)
LEMMA LastPage ==
    ASSUME NEW va \in Nat, va < KHALF - 1
    PROVE  /\ PDIRE(va) \in 0 .. HALF - 1
           /\ ~(PDIRE(va) = HALF - 1 /\ PTBLE(va) = PtblSize - 1)
<1>1. PDIRE(va) < HALF
  BY Constants, PageBelow
<1> DEFINE j == PDIRE(va)
           i == PTBLE(va)
<1>2. j \in Nat /\ i \in 0 .. PtblSize - 1 /\ va = PtblSize * j + i
  BY PageParts
<1>. HIDE DEF i, j
<1>3. ASSUME j = HALF - 1, i = PtblSize - 1 PROVE FALSE
  <2>1. PtblSize * (HALF - 1) = PtblSize * HALF - PtblSize
    BY Constants
  <2>. QED
    BY <1>2, <1>3, <2>1, Constants
<1>. QED
  BY <1>1, <1>2, <1>3, Constants DEF i, j

-----------------------------------------------------------------------------
(* A set of numbers that is not empty has a least one. *)
LEMMA Least ==
    ASSUME NEW T \in SUBSET Nat, T # {}
    PROVE  \E x \in T : \A y \in T : x <= y
<1>1. \E x \in T : \A y \in T : ~(<<y, x>> \in OpToRel(<, Nat))
  BY NatLessThanWellFounded, WFMin
<1>2. \A x, y \in Nat : <<y, x>> \in OpToRel(<, Nat) <=> y < x
  BY DEF OpToRel
<1>3. \E x \in T : \A y \in T : ~(y < x)
  BY <1>1, <1>2
<1>. QED
  BY <1>3

(* A set that has 0, and with each number the next one up to n, has all: the
   induction there is for a set of numbers in place of a predicate. *)
LEMMA UpTo ==
    ASSUME NEW n \in Nat, NEW S \in SUBSET (0 .. n), 0 \in S,
           \A i \in S : i < n => i + 1 \in S
    PROVE  S = 0 .. n
<1>. SUFFICES ASSUME S # 0 .. n PROVE FALSE
  OBVIOUS
<1> DEFINE T == (0 .. n) \ S
<1>1. T \in SUBSET Nat /\ T # {}
  <2>1. PICK i \in 0 .. n : i \notin S
    OBVIOUS
  <2>. QED
    BY <2>1
<1>2. PICK x \in T : \A y \in T : x <= y
  BY <1>1, Least
<1>3. x \in 0 .. n /\ x # 0 /\ x - 1 \in 0 .. n /\ x - 1 < n
  BY <1>2
<1>4. x - 1 \in S
  BY <1>2, <1>3
<1>5. (x - 1) + 1 = x
  BY <1>3
<1>. QED
  BY <1>2, <1>3, <1>4, <1>5

-----------------------------------------------------------------------------
(* Memory.                                                                 *)

(* The fields of the memory, which is a record. *)
IsMemory(x) == x = [top |-> x.top, used |-> x.used, ok |-> x.ok,
                    stuck |-> x.stuck, table |-> x.table, cache |-> x.cache,
                    data |-> x.data]

(* An entry, and a table or directory of them. *)
IsEntry(e) == /\ e = Entry(e.frame, e.user)
              /\ e.frame \in 0 .. VaTop - 1 /\ e.user \in BOOLEAN
IsPages(t) == /\ DOMAIN t \subseteq 0 .. VaTop
              /\ \A i \in DOMAIN t : IsEntry(t[i])

Caches == {"kcache", "iocache"}

(* The type of memory; what has not been handed out has no entries. *)
MemoryOK(x) ==
    /\ IsMemory(x)
    /\ x.ok \in BOOLEAN /\ x.stuck \in BOOLEAN
    /\ x.top \in 1 .. VaTop /\ x.used \in 1 .. x.top
    /\ x.table = [f \in 0 .. x.top - 1 |-> x.table[f]]
    /\ \A f \in 0 .. x.top - 1 : IsPages(x.table[f])
    /\ x.cache = [c \in Caches |-> x.cache[c]]
    /\ \A c \in Caches : IsPages(x.cache[c])
    /\ x.data \in [0 .. x.top - 1 -> Values]
    /\ \A f \in x.used .. x.top - 1 : x.table[f] = Absent

(* r is x after frames have been taken, whether or not the last of them could
   be: all else is as it was. *)
Took(x, r) ==
    /\ MemoryOK(r) /\ r.top = x.top /\ r.used \in x.used .. x.top
    /\ r.table = x.table /\ r.cache = x.cache /\ r.data = x.data
    /\ r.ok => x.ok

(* The sizes of memory. *)
LEMMA Sizes ==
    ASSUME NEW x, MemoryOK(x)
    PROVE  /\ x.top \in Nat /\ x.used \in Nat /\ VaTop \in Nat
           /\ 1 <= x.used /\ x.used <= x.top /\ x.top <= VaTop
<1>1. x.top \in 1 .. VaTop /\ x.used \in 1 .. x.top /\ VaTop \in Nat
  BY Constants DEF MemoryOK
<1>. QED
  BY <1>1

(* One taking after another. *)
LEMMA TookTwice ==
    ASSUME NEW x, NEW r, NEW s, MemoryOK(x), Took(x, r), Took(r, s)
    PROVE  Took(x, s)
<1>1. x.top \in Nat /\ x.used \in Nat /\ x.used <= x.top
  BY Sizes
<1>2. r.used \in x.used .. x.top /\ s.used \in r.used .. r.top /\ r.top = x.top
  BY DEF Took
<1>3. s.used \in x.used .. x.top
  BY <1>1, <1>2
<1>. QED
  BY <1>3 DEF Took

(* pm_alloc_frame. *)
LEMMA Allocates ==
    ASSUME NEW x, MemoryOK(x)
    PROVE  LET r == pm_alloc_frame(x)
           IN  /\ Took(x, r) /\ r.ok = x.ok
               /\ NextFrame(x) \in 0 .. x.top - 1
               /\ x.used < x.top => NextFrame(x) = x.used /\ r.used = x.used + 1
               /\ ~(x.used < x.top) => NextFrame(x) = 0 /\ r = x
               /\ NextFrame(x) # 0 => x.used < x.top
<1>1. CASE x.used < x.top
  <2>1. NextFrame(x) = x.used /\ NextFrame(x) # Null
    BY <1>1 DEF NextFrame, Null, MemoryOK
  <2> DEFINE r == pm_alloc_frame(x)
  <2>2. r = [x EXCEPT !.used = x.used + 1]
    BY <2>1 DEF pm_alloc_frame
  <2>. HIDE DEF r
  <2>3. /\ r.used = x.used + 1 /\ r.top = x.top /\ r.ok = x.ok /\ r.stuck = x.stuck
        /\ r.table = x.table /\ r.cache = x.cache /\ r.data = x.data
        /\ IsMemory(r)
    BY <2>2 DEF IsMemory, MemoryOK
  <2>4. r.used \in 1 .. x.top /\ r.used \in x.used .. x.top
    BY <1>1, <2>3, Sizes
  <2>5. \A f \in r.used .. x.top - 1 : f \in x.used .. x.top - 1
    BY <2>3, <2>4, Sizes
  <2>6. Took(x, r)
    BY <2>3, <2>4, <2>5 DEF Took, MemoryOK
  <2>7. x.used \in 0 .. x.top - 1
    BY <1>1, Sizes
  <2>. QED
    BY <1>1, <2>1, <2>3, <2>6, <2>7 DEF r, MemoryOK
<1>2. CASE ~(x.used < x.top)
  <2>1. NextFrame(x) = 0 /\ pm_alloc_frame(x) = x
    BY <1>2 DEF NextFrame, Null, pm_alloc_frame
  <2>2. x.used \in x.used .. x.top /\ 0 \in 0 .. x.top - 1
    BY Sizes
  <2>. QED
    BY <1>2, <2>1, <2>2 DEF Took
<1>. QED
  BY <1>1, <1>2

(* Take takes the next frame, or fails. *)
LEMMA Takes ==
    ASSUME NEW x, MemoryOK(x)
    PROVE  /\ Took(x, Take(x))
           /\ Take(x).ok => /\ NextFrame(x) = x.used /\ x.used < x.top
                            /\ Take(x).used = x.used + 1
<1>1. CASE x.ok /\ NextFrame(x) # Null
  BY <1>1, Allocates DEF Take, Null
<1>2. CASE ~(x.ok /\ NextFrame(x) # Null)
  <2>1. Take(x) = [x EXCEPT !.ok = FALSE]
    BY <1>2 DEF Take, Fail
  <2>2. x.used \in x.used .. x.top
    BY Sizes
  <2>. QED
    BY <2>1, <2>2 DEF Took, MemoryOK, IsMemory
<1>. QED
  BY <1>1, <1>2

(* Touch takes nothing: it fails beyond the kernel's reach. *)
LEMMA Touches ==
    ASSUME NEW x, MemoryOK(x), NEW f
    PROVE  /\ Took(x, Touch(x, f)) /\ Touch(x, f).used = x.used
           /\ Touch(x, f).ok => Touch(x, f) = x /\ ~(f >= KHEAP)
           /\ ~x.ok => Touch(x, f) = x
<1>0. x.used \in x.used .. x.top
  BY Sizes
<1>1. CASE x.ok /\ f >= KHEAP
  <2>1. Touch(x, f) = [x EXCEPT !.ok = FALSE, !.stuck = TRUE]
    BY <1>1 DEF Touch
  <2>. QED
    BY <1>0, <1>1, <2>1 DEF Took, MemoryOK, IsMemory
<1>2. CASE ~(x.ok /\ f >= KHEAP)
  BY <1>0, <1>2 DEF Touch, Took, MemoryOK
<1>. QED
  BY <1>1, <1>2

(* A frame that is taken and used through the higher half. *)
Got(x, r) ==
    r.ok => /\ NextFrame(x) = x.used /\ x.used < x.top /\ x.used < KHEAP
            /\ r.used = x.used + 1

(* A frame for the kernel is the next one, and in reach. *)
LEMMA TakesForKernel ==
    ASSUME NEW x, MemoryOK(x)
    PROVE  Took(x, TakeForKernel(x)) /\ Got(x, TakeForKernel(x))
<1> DEFINE t == Take(x)
           r == Touch(t, NextFrame(x))
<1>1. Took(x, t) /\ (t.ok => /\ NextFrame(x) = x.used /\ x.used < x.top
                             /\ t.used = x.used + 1)
  BY Takes
<1>2. MemoryOK(t)
  BY <1>1 DEF Took
<1>3. Took(t, r) /\ r.used = t.used /\ (r.ok => r = t /\ ~(NextFrame(x) >= KHEAP))
  BY <1>2, Touches
<1>. HIDE DEF t
<1>4. Took(x, r)
  BY <1>1, <1>3, TookTwice
<1>5. Got(x, r)
  <2>1. SUFFICES ASSUME r.ok
                 PROVE  /\ NextFrame(x) = x.used /\ x.used < x.top
                        /\ x.used < KHEAP /\ r.used = x.used + 1
    BY DEF Got
  <2>2. r = t /\ ~(NextFrame(x) >= KHEAP) /\ t.ok
    BY <1>3, <2>1
  <2>. QED
    BY <1>1, <1>3, <2>2, Constants DEF MemoryOK
<1>. QED
  BY <1>4, <1>5 DEF TakeForKernel, t

(* A table is empty already when vm_alloc_pte clears it. *)
LEMMA AllocatesTable ==
    ASSUME NEW x, MemoryOK(x)
    PROVE  Took(x, vm_alloc_pte(x)) /\ Got(x, vm_alloc_pte(x))
<1> DEFINE n == TakeForKernel(x)
           f == NextFrame(x)
           r == vm_alloc_pte(x)
<1>1. Took(x, n) /\ Got(x, n)
  BY TakesForKernel
<1>2. n = Touch(Take(x), f)
  BY DEF TakeForKernel
<1>. HIDE DEF n
<1>3. r = IF n.ok THEN [n EXCEPT !.table[f] = Absent] ELSE n
  BY <1>2 DEF vm_alloc_pte
<1>. HIDE DEF r, f
<1>4. CASE n.ok
  <2>1. f = x.used /\ x.used < x.top /\ x.used < KHEAP /\ n.used = x.used + 1
    BY <1>1, <1>4 DEF Got, f
  <2>2. MemoryOK(n) /\ n.table = x.table /\ n.top = x.top
    BY <1>1 DEF Took
  <2>3. f \in 0 .. x.top - 1 /\ f \in x.used .. x.top - 1 /\ x.table[f] = Absent
    <3>1. f \in 0 .. x.top - 1 /\ f \in x.used .. x.top - 1
      BY <2>1, Sizes
    <3>. QED
      BY <3>1 DEF MemoryOK
  <2>4. [n.table EXCEPT ![f] = Absent] = n.table
    BY <2>2, <2>3 DEF MemoryOK
  <2>5. r = n
    BY <1>3, <1>4, <2>2, <2>4 DEF MemoryOK, IsMemory
  <2>. QED
    BY <1>1, <2>5 DEF r
<1>5. CASE ~n.ok
  BY <1>1, <1>3, <1>5 DEF r
<1>. QED
  BY <1>4, <1>5

-----------------------------------------------------------------------------
(* Entries.                                                                *)

(* What writing an entry leaves of memory. *)
PutEntry(x, g, i, e) == [x EXCEPT !.table[g] = Put(@, i, e)]

(* It leaves all but that table, and its type. *)
LEMMA Puts ==
    ASSUME NEW x, MemoryOK(x), NEW g \in 0 .. x.used - 1,
           NEW i \in 0 .. VaTop, NEW e, IsEntry(e)
    PROVE  LET r == PutEntry(x, g, i, e)
           IN  /\ MemoryOK(r)
               /\ r.top = x.top /\ r.used = x.used /\ r.ok = x.ok
               /\ r.stuck = x.stuck /\ r.cache = x.cache /\ r.data = x.data
               /\ r.table[g] = Put(x.table[g], i, e)
               /\ \A f \in 0 .. x.top - 1 : f # g => r.table[f] = x.table[f]
<1> DEFINE r == PutEntry(x, g, i, e)
           t == Put(x.table[g], i, e)
<1>1. /\ g \in 0 .. x.top - 1 /\ g \notin x.used .. x.top - 1
      /\ \A f \in x.used .. x.top - 1 : f \in 0 .. x.top - 1
  BY Sizes
<1>2. r = [x EXCEPT !.table = [x.table EXCEPT ![g] = t]]
  BY DEF PutEntry
<1>3. IsPages(t)
  <2>1. /\ DOMAIN t = {i} \cup DOMAIN x.table[g] /\ t[i] = e
        /\ \A y \in DOMAIN x.table[g] : y # i => t[y] = x.table[g][y]
    <3>1. t = Put(x.table[g], i, e)
      OBVIOUS
    <3>. HIDE DEF t
    <3>. QED
      BY <3>1 DEF Put, Over
  <2>2. IsPages(x.table[g])
    BY <1>1 DEF MemoryOK
  <2>. HIDE DEF t
  <2>. QED
    BY <2>1, <2>2 DEF IsPages
<1>. HIDE DEF r, t
<1> DEFINE tables == [x.table EXCEPT ![g] = t]
<1>4. /\ IsMemory(r) /\ r.table = tables
      /\ r.top = x.top /\ r.used = x.used /\ r.ok = x.ok
      /\ r.stuck = x.stuck /\ r.cache = x.cache /\ r.data = x.data
  BY <1>2 DEF MemoryOK, IsMemory
<1>5. /\ tables = [f \in 0 .. x.top - 1 |-> tables[f]]
      /\ tables[g] = t
      /\ \A f \in 0 .. x.top - 1 : f # g => tables[f] = x.table[f]
  BY <1>1 DEF MemoryOK
<1>. HIDE DEF tables
<1>6. MemoryOK(r)
  <2>1. \A f \in 0 .. x.top - 1 : IsPages(tables[f])
    BY <1>3, <1>5 DEF MemoryOK
  <2>2. \A f \in x.used .. x.top - 1 : tables[f] = Absent
    BY <1>1, <1>5 DEF MemoryOK
  <2>. QED
    BY <1>4, <1>5, <2>1, <2>2 DEF MemoryOK
<1>. QED
  BY <1>4, <1>5, <1>6 DEF r, t

(* An entry of a page that exists. *)
LEMMA EntryIs ==
    ASSUME NEW f \in 0 .. VaTop - 1, NEW user \in BOOLEAN
    PROVE  /\ IsEntry(Entry(f, user))
           /\ Entry(f, user).frame = f /\ Entry(f, user).user = user
BY DEF IsEntry, Entry

(* What vm_map_page does to a directory that has no cache: it fails, or it
   writes the page's entry, in a table that was there or in a new one. *)
NewPage(x, n, d, i, y, user, e) ==
    PutEntry(PutEntry(n, d, i, Entry(x.used, user)), x.used, y, e)

(* vm_map_page without a cache fails, or fills an entry of a table that is
   there, or makes a table. *)
LEMMA MapPage ==
    ASSUME NEW x, MemoryOK(x), NEW d, NEW va, NEW pa, NEW user
    PROVE  LET r == vm_map_page(x, d, pa, va, user, None)
               i == PDIRE(va)
               y == PTBLE(va)
               e == Entry(pa, user)
           IN  \/ ~r.ok /\ Took(x, r)
               \/ /\ x.ok /\ i \in DOMAIN x.table[d]
                  /\ r = PutEntry(x, x.table[d][i].frame, y, e)
               \/ \E n : /\ x.ok /\ i \notin DOMAIN x.table[d]
                         /\ n.ok /\ Took(x, n) /\ Got(x, n)
                         /\ r = NewPage(x, n, d, i, y, user, e)
<1> DEFINE r == vm_map_page(x, d, pa, va, user, None)
           i == PDIRE(va)
           y == PTBLE(va)
           e == Entry(pa, user)
           n == vm_alloc_pte(x)
           f == NextFrame(x)
           z == [n EXCEPT !.table[d] = Put(@, i, Entry(f, user)),
                          !.cache = n.cache]
<1>1. r = IF ~x.ok THEN x
          ELSE IF i \in DOMAIN x.table[d]
            THEN PutEntry(x, x.table[d][i].frame, y, e)
          ELSE IF n.ok THEN PutEntry(z, f, y, e)
          ELSE n
  BY DEF vm_map_page, UseCache, PutEntry
<1>2. Took(x, n) /\ Got(x, n)
  BY AllocatesTable
<1>3. x.used \in x.used .. x.top
  BY Sizes
<1>4. n.ok => f = x.used
  BY <1>2 DEF Got
<1>. HIDE DEF r, n, f
<1>5. z = PutEntry(n, d, i, Entry(f, user))
  BY <1>2 DEF PutEntry, Took, MemoryOK, IsMemory
<1>. HIDE DEF i, y, e, z
<1>6. CASE ~x.ok
  BY <1>1, <1>3, <1>6 DEF Took, r, i, y, e
<1>7. CASE x.ok /\ i \in DOMAIN x.table[d]
  BY <1>1, <1>7 DEF r, i, y, e
<1>8. CASE x.ok /\ i \notin DOMAIN x.table[d] /\ n.ok
  <2>1. r = NewPage(x, n, d, i, y, user, e)
    BY <1>1, <1>4, <1>5, <1>8 DEF NewPage
  <2>. QED
    BY <1>2, <1>8, <2>1 DEF r, i, y, e
<1>9. CASE x.ok /\ i \notin DOMAIN x.table[d] /\ ~n.ok
  BY <1>1, <1>2, <1>9 DEF r, i, y, e
<1>. QED
  BY <1>6, <1>7, <1>8, <1>9

-----------------------------------------------------------------------------
(* Directories.                                                            *)

(* The entry that every directory has at index i of the kernel's half, which
   is in a cache, and what the table there has. *)
CacheOf(i) == IF i < IO THEN "kcache" ELSE "iocache"
CacheIndex(i) == IF i < IO THEN i - HALF ELSE i - IO
SharedEntry(x, i) == x.cache[CacheOf(i)][CacheIndex(i)]
IsCached(x, i) == CacheIndex(i) \in DOMAIN x.cache[CacheOf(i)]
FirstPage(i) == IF i < IO THEN PtblSize * (i - HALF) ELSE PtblSize * i
KernelEntry(f) == Entry(f, FALSE)
SharedTable(i) == [y \in 0 .. PtblSize - 1 |-> KernelEntry(FirstPage(i) + y)]

InCache(x, i) ==
    /\ IsCached(x, i)
    /\ SharedEntry(x, i) = KernelEntry(SharedEntry(x, i).frame)
    /\ SharedEntry(x, i).frame \in 1 .. x.used - 1
    /\ SharedEntry(x, i).frame < KHEAP
    /\ x.table[SharedEntry(x, i).frame] = SharedTable(i)
CachesOK(x) == \A i \in Shared : InCache(x, i)
KFrames(x) == {SharedEntry(x, i).frame : i \in Shared}

(* Directory d shares the kernel's half, and has a half of its own. *)
Half(x, d) == {i \in DOMAIN x.table[d] : i < HALF}
Sharing(x, d) ==
    /\ \A i \in Shared : i \in DOMAIN x.table[d] /\ x.table[d][i] = SharedEntry(x, i)
    /\ \A i \in DOMAIN x.table[d] : i < HALF \/ i \in Shared

(* The pages of a table at index i of the user's half exist, and the last page
   of that half is none of them: it ends every program. *)
PagesOK(x, i, f) ==
    \A y \in DOMAIN x.table[f] : /\ x.table[f][y].frame \in 0 .. x.used - 1
                                 /\ ~(i = HALF - 1 /\ y = PtblSize - 1)

(* Frame f can be such a table: it is neither one of the kernel's nor a
   directory.  Frame 0 is what task_copy_vm takes if there is no other. *)
TableOK(b, x, D, i, f) ==
    /\ f \in 0 .. x.used - 1 /\ f \notin KFrames(x) /\ f \notin D
    /\ f = 0 => i = PDIRE(b.start)
    /\ PagesOK(x, i, f)

(* Memory whose directories are those in D is sound. *)
Safe(b, x, D) ==
    /\ MemoryOK(x) /\ x.top = b.top /\ b.kernel <= x.used
    /\ CachesOK(x)
    /\ PagesOK(x, PDIRE(b.start), 0)
    /\ \A d \in D : /\ d \in 1 .. x.used - 1 /\ d \notin KFrames(x)
                    /\ Sharing(x, d)
    /\ \A d \in D : \A i \in Half(x, d) : TableOK(b, x, D, i, x.table[d][i].frame)
    /\ \A d, e \in D : \A i \in Half(x, d), j \in Half(x, e) :
           x.table[d][i].frame = x.table[e][j].frame => i = j

(* With enough memory, no table is a page of a program, and all of them are
   within the kernel's reach. *)
UserTables(x, D) == UNION {{x.table[d][i].frame : i \in Half(x, d)} : d \in D}
AllTables(x, D) == D \cup KFrames(x) \cup UserTables(x, D)

OwnPages(b, x, D, f) ==
    \A y \in DOMAIN x.table[f] :
        /\ x.table[f][y].frame >= b.kernel /\ x.table[f][y].frame < KHEAP
        /\ x.table[f][y].frame \notin AllTables(x, D)

Closed(b, x, D) ==
    \A f \in UserTables(x, D) : f # 0 /\ f < KHEAP /\ OwnPages(b, x, D, f)

-----------------------------------------------------------------------------
(* A directory less is no harm. *)
LEMMA SafeSubset ==
    ASSUME NEW b, NEW x, NEW D, NEW C \in SUBSET D, Safe(b, x, D)
    PROVE  Safe(b, x, C)
BY DEF Safe, TableOK

(* Nor is it to the pages that are closed. *)
LEMMA ClosedSubset ==
    ASSUME NEW b, NEW x, NEW D, NEW C \in SUBSET D, Closed(b, x, D)
    PROVE  Closed(b, x, C)
<1>1. UserTables(x, C) \subseteq UserTables(x, D)
  BY DEF UserTables
<1>2. AllTables(x, C) \subseteq AllTables(x, D)
  BY <1>1 DEF AllTables
<1>. QED
  BY <1>1, <1>2 DEF Closed, OwnPages

(* The tables of sound memory exist. *)
LEMMA TablesExist ==
    ASSUME NEW b, NEW x, NEW D, Safe(b, x, D)
    PROVE  AllTables(x, D) \subseteq 0 .. x.used - 1
<1>1. D \subseteq 0 .. x.used - 1
  BY DEF Safe
<1>2. KFrames(x) \subseteq 0 .. x.used - 1
  BY DEF Safe, CachesOK, InCache, KFrames
<1>3. UserTables(x, D) \subseteq 0 .. x.used - 1
  BY DEF Safe, TableOK, UserTables
<1>. QED
  BY <1>1, <1>2, <1>3 DEF AllTables

(* r has x's frames as they were, and more of them. *)
SameShared(x, r) ==
    \A i \in Shared : /\ IsCached(r, i) <=> IsCached(x, i)
                      /\ SharedEntry(r, i) = SharedEntry(x, i)

Grew(x, r) ==
    /\ MemoryOK(r) /\ r.top = x.top /\ r.used \in x.used .. x.top
    /\ SameShared(x, r)
    /\ \A f \in 0 .. x.used - 1 : r.table[f] = x.table[f]

(* The caches alone say what is shared. *)
LEMMA SameCaches ==
    ASSUME NEW x, NEW r, r.cache = x.cache
    PROVE  SameShared(x, r)
BY DEF SameShared, SharedEntry, IsCached

(* What shares the same tables has them in the same frames. *)
LEMMA SameFrames ==
    ASSUME NEW x, NEW r, SameShared(x, r)
    PROVE  KFrames(r) = KFrames(x)
BY DEF SameShared, KFrames

(* More frames are no harm. *)
LEMMA SafeGrew ==
    ASSUME NEW b, NEW x, NEW r, NEW D, MemoryOK(x), b.kernel \in Nat,
           Safe(b, x, D), Grew(x, r)
    PROVE  /\ Safe(b, r, D)
           /\ AllTables(r, D) = AllTables(x, D)
           /\ Closed(b, x, D) => Closed(b, r, D)
<1>1. /\ x.used \in Nat /\ r.used \in Nat /\ x.used <= r.used /\ 1 <= x.used
      /\ \A f \in 0 .. x.used - 1 : f \in 0 .. r.used - 1
      /\ \A f \in 1 .. x.used - 1 : f \in 1 .. r.used - 1 /\ f \in 0 .. x.used - 1
      /\ 0 \in 0 .. x.used - 1
  BY Sizes DEF Grew
<1>2. /\ \A i \in Shared : SharedEntry(r, i) = SharedEntry(x, i)
      /\ \A i \in Shared : IsCached(r, i) <=> IsCached(x, i)
      /\ KFrames(r) = KFrames(x)
  BY SameFrames DEF Grew, SameShared
<1>3. CachesOK(r)
  BY <1>1, <1>2 DEF Grew, Safe, CachesOK, InCache
<1>4. \A d \in D : /\ d \in 0 .. x.used - 1 /\ d \in 1 .. r.used - 1
                   /\ r.table[d] = x.table[d] /\ Half(r, d) = Half(x, d)
  BY <1>1 DEF Safe, Grew, Half
<1>5. \A f \in 0 .. x.used - 1 : \A i : PagesOK(x, i, f) => PagesOK(r, i, f)
  BY <1>1 DEF PagesOK, Grew
<1>6. \A d \in D : d \notin KFrames(r) /\ Sharing(r, d)
  BY <1>2, <1>4 DEF Safe, Sharing
<1>7. \A d \in D : \A i \in Half(x, d) :
          LET f == x.table[d][i].frame
          IN  f \in 0 .. x.used - 1 /\ TableOK(b, r, D, i, f)
  BY <1>1, <1>2, <1>5 DEF Safe, TableOK
<1>8. Safe(b, r, D)
  BY <1>1, <1>3, <1>4, <1>5, <1>6, <1>7 DEF Safe, Grew
<1>9. UserTables(r, D) = UserTables(x, D)
  BY <1>4 DEF UserTables
<1>10. AllTables(r, D) = AllTables(x, D)
  BY <1>2, <1>9 DEF AllTables
<1>11. ASSUME Closed(b, x, D) PROVE Closed(b, r, D)
  <2>1. \A f \in UserTables(x, D) : r.table[f] = x.table[f]
    BY <1>7 DEF UserTables, Grew
  <2>. QED
    BY <1>9, <1>10, <1>11, <2>1 DEF Closed, OwnPages
<1>. QED
  BY <1>8, <1>10, <1>11

(* A page put in a table of a directory. *)
LEMMA SafePage ==
    ASSUME NEW b, NEW x, NEW D, Safe(b, x, D), NEW d \in D,
           NEW i \in Half(x, d), NEW y \in 0 .. PtblSize - 1,
           NEW e, IsEntry(e), e.frame \in 0 .. x.used - 1,
           ~(i = HALF - 1 /\ y = PtblSize - 1),
           NEW g, g = x.table[d][i].frame,
           NEW r, r = PutEntry(x, g, y, e)
    PROVE  /\ Safe(b, r, D) /\ r.used = x.used /\ r.ok = x.ok
           /\ \A c \in D : r.table[c] = x.table[c]
           /\ AllTables(r, D) = AllTables(x, D)
           /\ /\ Closed(b, x, D)
              /\ e.frame >= b.kernel /\ e.frame < KHEAP
              /\ e.frame \notin AllTables(x, D)
              => Closed(b, r, D)
<1>1. g \in 0 .. x.used - 1 /\ g \notin KFrames(x) /\ g \notin D
      /\ (g = 0 => i = PDIRE(b.start)) /\ PagesOK(x, i, g)
  BY DEF Safe, TableOK
<1> DEFINE t == Put(x.table[g], y, e)
<1>2. /\ MemoryOK(r) /\ r.top = x.top /\ r.used = x.used /\ r.ok = x.ok
      /\ r.cache = x.cache /\ r.table[g] = t
      /\ \A f \in 0 .. x.top - 1 : f # g => r.table[f] = x.table[f]
  <2>1. MemoryOK(x)
    BY DEF Safe
  <2>3. y \in 0 .. VaTop
    BY Indices, Constants
  <2>. HIDE DEF t
  <2>2. LET s == PutEntry(x, g, y, e)
        IN  /\ MemoryOK(s) /\ s.top = x.top /\ s.used = x.used /\ s.ok = x.ok
            /\ s.cache = x.cache /\ s.table[g] = Put(x.table[g], y, e)
            /\ \A f \in 0 .. x.top - 1 : f # g => s.table[f] = x.table[f]
    BY <1>1, <2>1, <2>3, Puts
  <2>. QED
    BY <2>2 DEF t
<1>3. /\ DOMAIN t = {y} \cup DOMAIN x.table[g] /\ t[y] = e
      /\ \A z \in DOMAIN x.table[g] : z # y => t[z] = x.table[g][z]
  <2>1. t = Put(x.table[g], y, e)
    OBVIOUS
  <2>. HIDE DEF t
  <2>. QED
    BY <2>1 DEF Put, Over
<1>. HIDE DEF t
<1>4. \A f \in 0 .. x.used - 1 : f # g => r.table[f] = x.table[f]
  <2>1. \A f \in 0 .. x.used - 1 : f \in 0 .. x.top - 1
    BY Sizes DEF Safe
  <2>. QED
    BY <1>2, <2>1
<1>5. /\ \A j \in Shared : SharedEntry(r, j) = SharedEntry(x, j)
      /\ \A j \in Shared : IsCached(r, j) <=> IsCached(x, j)
      /\ KFrames(r) = KFrames(x)
  BY <1>2, SameCaches, SameFrames DEF SameShared
<1>6. \A c \in D : c \in 1 .. x.used - 1 /\ r.table[c] = x.table[c]
                   /\ Half(r, c) = Half(x, c)
  <2>1. \A c \in D : c \in 1 .. x.used - 1 /\ c \in 0 .. x.used - 1 /\ c # g
    BY <1>1 DEF Safe
  <2>. QED
    BY <1>4, <2>1 DEF Half
<1>7. CachesOK(r)
  <2>1. ASSUME NEW j \in Shared PROVE InCache(r, j)
    <3>1. InCache(x, j) /\ SharedEntry(x, j).frame \in KFrames(x)
      BY DEF Safe, CachesOK, KFrames
    <3>2. SharedEntry(x, j).frame \in 0 .. x.used - 1 /\ SharedEntry(x, j).frame # g
      BY <1>1, <3>1 DEF InCache
    <3>. QED
      BY <1>2, <1>4, <1>5, <3>1, <3>2 DEF InCache
  <2>. QED
    BY <2>1 DEF CachesOK
<1>8. PagesOK(r, i, g)
  <2>1. ASSUME NEW z \in DOMAIN t
        PROVE  t[z].frame \in 0 .. x.used - 1 /\ ~(i = HALF - 1 /\ z = PtblSize - 1)
    <3>1. CASE z = y
      BY ONLY <1>3, <3>1, e.frame \in 0 .. x.used - 1,
              ~(i = HALF - 1 /\ y = PtblSize - 1)
    <3>2. CASE z # y
      BY ONLY <1>1, <1>3, <2>1, <3>2 DEF PagesOK
    <3>. QED
      BY <3>1, <3>2
  <2>. QED
    BY ONLY <1>2, <2>1 DEF PagesOK
<1>9. \A f \in 0 .. x.used - 1 : \A j : f # g /\ PagesOK(x, j, f) => PagesOK(r, j, f)
  BY <1>2, <1>4 DEF PagesOK
<1>10. PagesOK(r, PDIRE(b.start), 0)
  <2>1. 0 \in 0 .. x.used - 1 /\ PagesOK(x, PDIRE(b.start), 0)
    BY Sizes DEF Safe
  <2>. QED
    BY <1>1, <1>8, <1>9, <2>1
<1>11. \A c \in D : \A j \in Half(x, c) : TableOK(b, r, D, j, x.table[c][j].frame)
  <2>. TAKE c \in D
  <2>. TAKE j \in Half(x, c)
  <2> DEFINE f == x.table[c][j].frame
  <2>1. TableOK(b, x, D, j, f)
    BY DEF Safe
  <2>2. f = g => j = i
    BY DEF Safe
  <2>. HIDE DEF f
  <2>3. PagesOK(r, j, f)
    BY <1>8, <1>9, <2>1, <2>2 DEF TableOK
  <2>4. TableOK(b, r, D, j, f)
    BY <1>2, <1>5, <2>1, <2>3 DEF TableOK
  <2>. QED
    BY <2>4 DEF f
<1>12. \A c \in D : c \notin KFrames(r) /\ Sharing(r, c)
  <2>1. \A c \in D : c \notin KFrames(x) /\ Sharing(x, c)
    BY DEF Safe
  <2>. QED
    BY ONLY <1>5, <1>6, <2>1 DEF Sharing
<1>13. Safe(b, r, D)
  <2>1. \A c \in D : \A j \in Half(r, c) : TableOK(b, r, D, j, r.table[c][j].frame)
    BY <1>6, <1>11
  <2>2. \A c, a \in D : \A j \in Half(r, c), k \in Half(r, a) :
           r.table[c][j].frame = r.table[a][k].frame => j = k
    <3>1. \A c, a \in D : \A j \in Half(x, c), k \in Half(x, a) :
             x.table[c][j].frame = x.table[a][k].frame => j = k
      BY DEF Safe
    <3>. QED
      BY ONLY <1>6, <3>1
  <2>. QED
    BY <1>2, <1>6, <1>7, <1>10, <1>12, <2>1, <2>2 DEF Safe
<1>14. UserTables(r, D) = UserTables(x, D)
  <2>1. \A n, f : f \in UserTables(n, D)
                  <=> \E c \in D : \E j \in Half(n, c) : f = n.table[c][j].frame
    BY ONLY TRUE DEF UserTables
  <2>2. \A f : f \in UserTables(r, D) <=> f \in UserTables(x, D)
    BY ONLY <1>6, <2>1
  <2>. QED
    BY ONLY <2>2
<1>15. AllTables(r, D) = AllTables(x, D)
  BY <1>5, <1>14 DEF AllTables
<1>16. ASSUME Closed(b, x, D), e.frame >= b.kernel, e.frame < KHEAP,
              e.frame \notin AllTables(x, D)
       PROVE  Closed(b, r, D)
  <2>1. ASSUME NEW f \in UserTables(x, D)
        PROVE  f # 0 /\ f < KHEAP /\ OwnPages(b, r, D, f)
    <3>1. f # 0 /\ f < KHEAP /\ OwnPages(b, x, D, f) /\ f \in 0 .. x.used - 1
      BY <1>16, TablesExist DEF Closed, AllTables
    <3>2. CASE f = g
      <4>1. ASSUME NEW z \in DOMAIN t
            PROVE  /\ t[z].frame >= b.kernel /\ t[z].frame < KHEAP
                   /\ t[z].frame \notin AllTables(x, D)
        BY <1>3, <1>16, <3>1, <3>2 DEF OwnPages
      <4>2. OwnPages(b, r, D, g)
        BY <1>2, <1>15, <4>1 DEF OwnPages
      <4>. QED
        BY <3>1, <3>2, <4>2
    <3>3. CASE f # g
      BY <1>4, <1>15, <3>1, <3>3 DEF OwnPages
    <3>. QED
      BY <3>1, <3>2, <3>3
  <2>. QED
    BY <1>14, <2>1 DEF Closed
<1>. QED
  BY <1>2, <1>6, <1>13, <1>15, <1>16

(* A table put in a directory. *)
LEMMA SafeTable ==
    ASSUME NEW b, NEW x, NEW D, Safe(b, x, D), NEW d \in D,
           NEW i \in 0 .. HALF - 1, NEW user \in BOOLEAN, NEW f,
           \/ f = 0 /\ i = PDIRE(b.start)
           \/ /\ f \in 1 .. x.used - 1 /\ f \notin AllTables(x, D)
              /\ x.table[f] = Absent,
           NEW r, r = PutEntry(x, d, i, Entry(f, user))
    PROVE  /\ Safe(b, r, D) /\ r.used = x.used /\ r.ok = x.ok
           /\ i \in Half(r, d) /\ r.table[d][i].frame = f
           /\ DOMAIN r.table[d] = {i} \cup DOMAIN x.table[d]
           /\ AllTables(r, D) \subseteq AllTables(x, D) \cup {f}
           /\ \A c \in 0 .. x.top - 1 : c # d => r.table[c] = x.table[c]
           /\ /\ Closed(b, x, D) /\ f # 0 /\ f < KHEAP
              /\ \A g \in UserTables(x, D) : \A y \in DOMAIN x.table[g] :
                     x.table[g][y].frame # f
              => Closed(b, r, D)
<1> DEFINE e == Entry(f, user)
           t == Put(x.table[d], i, e)
<1>0. /\ i \in 0 .. VaTop /\ i < HALF /\ d \in 0 .. x.used - 1
      /\ f \in 0 .. x.used - 1 /\ IsEntry(e) /\ e.frame = f
  <2>1. i \in 0 .. VaTop /\ i < HALF
    BY Indices, Constants
  <2>2. f \in 0 .. x.used - 1 /\ d \in 0 .. x.used - 1
    BY Sizes DEF Safe
  <2>3. f \in 0 .. VaTop - 1
    BY <2>2, Sizes DEF Safe
  <2>. QED
    BY <2>1, <2>2, <2>3, EntryIs
<1>. HIDE DEF e
<1>1. f \notin KFrames(x) /\ f \notin D
  <2>1. 0 \notin KFrames(x) /\ 0 \notin D
    BY DEF Safe, CachesOK, InCache, KFrames
  <2>. QED
    BY <2>1 DEF AllTables
<1>2. /\ MemoryOK(r) /\ r.top = x.top /\ r.used = x.used /\ r.ok = x.ok
      /\ r.cache = x.cache /\ r.table[d] = t
      /\ \A c \in 0 .. x.top - 1 : c # d => r.table[c] = x.table[c]
  <2>1. MemoryOK(x) /\ r = PutEntry(x, d, i, e)
    BY DEF Safe, e
  <2>. HIDE DEF t
  <2>2. LET s == PutEntry(x, d, i, e)
        IN  /\ MemoryOK(s) /\ s.top = x.top /\ s.used = x.used /\ s.ok = x.ok
            /\ s.cache = x.cache /\ s.table[d] = Put(x.table[d], i, e)
            /\ \A c \in 0 .. x.top - 1 : c # d => s.table[c] = x.table[c]
    BY <1>0, <2>1, Puts
  <2>. QED
    BY <2>1, <2>2 DEF t
<1>3. /\ DOMAIN t = {i} \cup DOMAIN x.table[d] /\ t[i] = e
      /\ \A j \in DOMAIN x.table[d] : j # i => t[j] = x.table[d][j]
  <2>1. t = Put(x.table[d], i, e)
    OBVIOUS
  <2>. HIDE DEF t
  <2>. QED
    BY <2>1 DEF Put, Over
<1>. HIDE DEF t
<1>4. \A c \in 0 .. x.used - 1 : c # d => r.table[c] = x.table[c]
  <2>1. \A c \in 0 .. x.used - 1 : c \in 0 .. x.top - 1
    BY Sizes DEF Safe
  <2>. QED
    BY <1>2, <2>1
<1>5. /\ \A j \in Shared : SharedEntry(r, j) = SharedEntry(x, j)
      /\ \A j \in Shared : IsCached(r, j) <=> IsCached(x, j)
      /\ KFrames(r) = KFrames(x)
  BY <1>2, SameCaches, SameFrames DEF SameShared
<1>6. /\ i \in Half(r, d) /\ r.table[d][i].frame = f
      /\ \A j \in Half(r, d) :
            j # i => j \in Half(x, d) /\ r.table[d][j] = x.table[d][j]
      /\ \A c \in D : c # d => r.table[c] = x.table[c] /\ Half(r, c) = Half(x, c)
  <2>1. \A c \in D : c # d => r.table[c] = x.table[c]
    BY <1>4, Sizes DEF Safe
  <2>. QED
    BY <1>0, <1>2, <1>3, <2>1 DEF Half
<1>7. CachesOK(r)
  <2>1. ASSUME NEW j \in Shared PROVE InCache(r, j)
    <3>1. InCache(x, j) /\ SharedEntry(x, j).frame \in KFrames(x)
      BY DEF Safe, CachesOK, KFrames
    <3>2. SharedEntry(x, j).frame \in 0 .. x.used - 1 /\ SharedEntry(x, j).frame # d
      BY <1>1, <3>1 DEF InCache, Safe
    <3>. QED
      BY <1>2, <1>4, <1>5, <3>1, <3>2 DEF InCache
  <2>. QED
    BY <2>1 DEF CachesOK
<1>8. \A g \in 0 .. x.used - 1 : \A j : g # d /\ PagesOK(x, j, g) => PagesOK(r, j, g)
  BY <1>2, <1>4 DEF PagesOK
<1>9. d # 0 /\ PagesOK(r, PDIRE(b.start), 0)
  <2>1. d # 0 /\ 0 \in 0 .. x.used - 1 /\ PagesOK(x, PDIRE(b.start), 0)
    BY Sizes DEF Safe
  <2>. QED
    BY <1>8, <2>1
(* What the directories have in r. *)
<1>10. ASSUME NEW c \in D, NEW j \in Half(r, c)
       PROVE  LET g == r.table[c][j].frame
              IN  \/ c = d /\ j = i /\ g = f
                  \/ j \in Half(x, c) /\ r.table[c][j] = x.table[c][j]
  BY <1>6
<1>11. TableOK(b, r, D, i, f)
  <2>1. f = 0 => i = PDIRE(b.start)
    BY Constants
  <2>2. PagesOK(r, i, f)
    <3>1. CASE f = 0
      BY <1>9, <2>1, <3>1
    <3>2. CASE f # 0
      <4>1. r.table[f] = Absent
        BY <1>0, <1>1, <1>4, <3>2
      <4>. QED
        BY <4>1 DEF PagesOK, Absent
    <3>. QED
      BY <3>1, <3>2
  <2>. QED
    BY <1>0, <1>1, <1>2, <1>5, <2>1, <2>2 DEF TableOK
<1>12. ASSUME NEW c \in D, NEW j \in Half(r, c)
       PROVE  TableOK(b, r, D, j, r.table[c][j].frame)
  <2> DEFINE g == r.table[c][j].frame
  <2>1. CASE c = d /\ j = i /\ g = f
    BY <1>11, <2>1
  <2>2. CASE j \in Half(x, c) /\ r.table[c][j] = x.table[c][j]
    <3>1. g = x.table[c][j].frame
      BY <2>2
    <3>. HIDE DEF g
    <3>2. TableOK(b, x, D, j, g)
      BY <2>2, <3>1 DEF Safe
    <3>3. TableOK(b, r, D, j, g)
      BY <1>2, <1>5, <1>8, <3>2 DEF TableOK
    <3>. QED
      BY <3>3 DEF g
  <2>. QED
    BY <1>10, <2>1, <2>2
(* No other table is frame f, if f is new. *)
<1>13. ASSUME NEW c \in D, NEW j \in Half(x, c), x.table[c][j].frame = f PROVE j = i
  <2>1. f \in UserTables(x, D)
    BY <1>13 DEF UserTables
  <2>2. f = 0 /\ i = PDIRE(b.start)
    BY <2>1 DEF AllTables
  <2>3. TableOK(b, x, D, j, x.table[c][j].frame)
    BY DEF Safe
  <2>. QED
    BY <1>13, <2>2, <2>3 DEF TableOK
<1>14. ASSUME NEW c \in D, NEW a \in D, NEW j \in Half(r, c), NEW k \in Half(r, a),
              r.table[c][j].frame = r.table[a][k].frame
       PROVE  j = k
  <2>1. CASE c = d /\ j = i /\ r.table[c][j].frame = f
    BY <1>10, <1>13, <1>14, <2>1
  <2>2. CASE a = d /\ k = i /\ r.table[a][k].frame = f
    BY <1>10, <1>13, <1>14, <2>2
  <2>3. CASE /\ j \in Half(x, c) /\ r.table[c][j] = x.table[c][j]
             /\ k \in Half(x, a) /\ r.table[a][k] = x.table[a][k]
    BY <1>14, <2>3 DEF Safe
  <2>. QED
    BY <1>10, <2>1, <2>2, <2>3
<1>15. \A c \in D : c \notin KFrames(r) /\ Sharing(r, c)
  <2>1. \A c \in D : c \notin KFrames(x) /\ Sharing(x, c)
    BY DEF Safe
  <2>2. i \notin Shared
    BY <1>0, Constants DEF Shared
  <2>3. Sharing(r, d)
    BY <1>0, <1>2, <1>3, <1>5, <2>1, <2>2 DEF Sharing
  <2>4. \A c \in D : c # d => Sharing(r, c)
    BY <1>5, <1>6, <2>1 DEF Sharing
  <2>. QED
    BY <1>5, <2>1, <2>3, <2>4
<1>16. Safe(b, r, D)
  BY <1>2, <1>7, <1>9, <1>12, <1>14, <1>15 DEF Safe
<1>17. UserTables(r, D) \subseteq UserTables(x, D) \cup {f}
  BY <1>10 DEF UserTables
<1>18. AllTables(r, D) \subseteq AllTables(x, D) \cup {f}
  BY <1>5, <1>17 DEF AllTables
<1>19. ASSUME Closed(b, x, D), f # 0, f < KHEAP,
              \A g \in UserTables(x, D) : \A y \in DOMAIN x.table[g] :
                  x.table[g][y].frame # f
       PROVE  Closed(b, r, D)
  <2>1. ASSUME NEW g \in UserTables(x, D)
        PROVE  g # 0 /\ g < KHEAP /\ OwnPages(b, r, D, g)
    <3>1. g # 0 /\ g < KHEAP /\ OwnPages(b, x, D, g) /\ g \in 0 .. x.used - 1
      BY <1>19, TablesExist DEF Closed, AllTables
    <3>2. g # d
      BY DEF UserTables, Safe, TableOK
    <3>. QED
      BY <1>4, <1>18, <1>19, <3>1, <3>2 DEF OwnPages
  <2>2. OwnPages(b, r, D, f)
    <3>1. r.table[f] = Absent
      BY <1>0, <1>1, <1>4, <1>19
    <3>. QED
      BY <3>1 DEF OwnPages, Absent
  <2>. QED
    BY <1>17, <1>19, <2>1, <2>2 DEF Closed
<1>. QED
  BY <1>2, <1>3, <1>6, <1>16, <1>18, <1>19

-----------------------------------------------------------------------------
(* Taking frames changes no table. *)
LEMMA TookGrew ==
    ASSUME NEW x, NEW r, Took(x, r)
    PROVE  Grew(x, r)
BY SameCaches DEF Took, Grew

(* The pages of a program exist. *)
LEMMA PagesExist ==
    ASSUME NEW b, NEW x, NEW D, Safe(b, x, D), NEW f \in UserTables(x, D),
           NEW y \in DOMAIN x.table[f]
    PROVE  x.table[f][y].frame \in 0 .. x.used - 1
<1>1. PICK d \in D : f \in {x.table[d][i].frame : i \in Half(x, d)}
  BY DEF UserTables
<1>2. PICK i \in Half(x, d) : f = x.table[d][i].frame
  BY <1>1
<1>3. TableOK(b, x, D, i, f)
  BY <1>2 DEF Safe
<1>. QED
  BY <1>3 DEF TableOK, PagesOK

(* vm_map_page for a page of the user's half. *)
LEMMA UserPage ==
    ASSUME NEW b, b.kernel \in Nat, NEW x, NEW D, Safe(b, x, D), NEW d \in D,
           NEW va \in Nat, va < KHALF - 1, NEW pa \in 0 .. x.used - 1,
           NEW user \in BOOLEAN,
           NEW r, r = vm_map_page(x, d, pa, va, user, None)
    PROVE  /\ Safe(b, r, D) /\ r.used \in x.used .. x.top /\ (r.ok => x.ok)
           /\ AllTables(r, D) \subseteq AllTables(x, D) \cup (x.used .. r.used - 1)
           /\ /\ Closed(b, x, D)
              /\ pa >= b.kernel /\ pa < KHEAP /\ pa \notin AllTables(x, D)
              => Closed(b, r, D)
<1> DEFINE i == PDIRE(va)
           y == PTBLE(va)
           e == Entry(pa, user)
<1>1. /\ i \in 0 .. HALF - 1 /\ y \in 0 .. PtblSize - 1
      /\ ~(i = HALF - 1 /\ y = PtblSize - 1)
  BY LastPage, PageParts
<1>2. IsEntry(e) /\ e.frame = pa
  <2>1. pa \in 0 .. VaTop - 1
    BY Sizes DEF Safe
  <2>. QED
    BY <2>1, EntryIs
<1>3. MemoryOK(x) /\ x.used \in Nat /\ x.top \in Nat /\ 1 <= x.used /\ x.used <= x.top
  BY Sizes DEF Safe
<1>4. \/ ~r.ok /\ Took(x, r)
      \/ /\ x.ok /\ i \in DOMAIN x.table[d]
         /\ r = PutEntry(x, x.table[d][i].frame, y, e)
      \/ \E n : /\ x.ok /\ i \notin DOMAIN x.table[d]
                /\ n.ok /\ Took(x, n) /\ Got(x, n)
                /\ r = NewPage(x, n, d, i, y, user, e)
  BY <1>3, MapPage
<1>. HIDE DEF i, y, e
<1>5. CASE ~r.ok /\ Took(x, r)
  <2>1. Grew(x, r)
    BY <1>5, TookGrew
  <2>2. /\ Safe(b, r, D) /\ (Closed(b, x, D) => Closed(b, r, D))
        /\ AllTables(r, D) = AllTables(x, D)
    BY <1>3, <2>1, SafeGrew
  <2>. QED
    BY <1>5, <2>2 DEF Took
<1>6. CASE /\ x.ok /\ i \in DOMAIN x.table[d]
           /\ r = PutEntry(x, x.table[d][i].frame, y, e)
  <2>1. i \in Half(x, d)
    BY <1>1, <1>6, Constants DEF Half
  <2> DEFINE g == x.table[d][i].frame
  <2>2. r = PutEntry(x, g, y, e) /\ g = x.table[d][i].frame
    BY <1>6
  <2>. HIDE DEF g
  <2>3. e.frame \in 0 .. x.used - 1
    BY <1>2
  <2>4. /\ Safe(b, r, D) /\ r.used = x.used /\ r.ok = x.ok
        /\ AllTables(r, D) = AllTables(x, D)
        /\ /\ Closed(b, x, D)
           /\ e.frame >= b.kernel /\ e.frame < KHEAP
           /\ e.frame \notin AllTables(x, D)
           => Closed(b, r, D)
    BY <1>1, <1>2, <2>1, <2>2, <2>3, SafePage
  <2>5. r.used \in x.used .. x.top
    BY <1>3, <2>4
  <2>. QED
    BY <1>2, <1>6, <2>4, <2>5
<1>7. ASSUME NEW n, x.ok, i \notin DOMAIN x.table[d],
             n.ok, Took(x, n), Got(x, n),
             r = NewPage(x, n, d, i, y, user, e)
      PROVE  /\ Safe(b, r, D) /\ r.used \in x.used .. x.top
             /\ AllTables(r, D) \subseteq AllTables(x, D) \cup (x.used .. r.used - 1)
             /\ /\ Closed(b, x, D)
                /\ pa >= b.kernel /\ pa < KHEAP /\ pa \notin AllTables(x, D)
                => Closed(b, r, D)
  <2> DEFINE f == x.used
             q == PutEntry(n, d, i, Entry(f, user))
  <2>1. Grew(x, n)
    BY <1>7, TookGrew
  <2>2. /\ Safe(b, n, D) /\ (Closed(b, x, D) => Closed(b, n, D))
        /\ AllTables(n, D) = AllTables(x, D)
    BY <1>3, <2>1, SafeGrew
  <2>3. /\ n.used = x.used + 1 /\ n.table = x.table /\ n.top = x.top
        /\ x.used < x.top /\ x.used < KHEAP
    BY <1>7 DEF Took, Got
  <2>4. AllTables(x, D) \subseteq 0 .. x.used - 1
    BY TablesExist
  <2>5. f \in 1 .. n.used - 1 /\ f \notin AllTables(n, D) /\ n.table[f] = Absent
    <3>1. f \in x.used .. x.top - 1 /\ f \in 1 .. n.used - 1 /\ f \notin 0 .. x.used - 1
      BY <1>3, <2>3
    <3>. QED
      BY <1>3, <2>2, <2>3, <2>4, <3>1 DEF MemoryOK
  <2>6. \A g \in UserTables(n, D) : \A z \in DOMAIN n.table[g] :
            n.table[g][z].frame # f
    <3>1. UserTables(n, D) = UserTables(x, D)
      BY <2>3 DEF UserTables, Half
    <3>. QED
      BY <1>3, <2>3, <3>1, PagesExist
  <2>. HIDE DEF f
  <2>13. q = PutEntry(n, d, i, Entry(f, user))
    OBVIOUS
  <2>. HIDE DEF q
  <2>7. /\ Safe(b, q, D) /\ q.used = n.used
        /\ i \in Half(q, d) /\ q.table[d][i].frame = f
        /\ AllTables(q, D) \subseteq AllTables(n, D) \cup {f}
        /\ Closed(b, n, D) /\ f # 0 /\ f < KHEAP => Closed(b, q, D)
    BY <1>1, <2>2, <2>5, <2>6, <2>13, SafeTable
  <2>8. r = PutEntry(q, f, y, e)
    BY <1>7, <2>13 DEF NewPage, f
  <2>9. pa \in 0 .. q.used - 1 /\ pa # f /\ f # 0 /\ f < KHEAP
    BY <1>3, <2>3, <2>7 DEF f
  <2>14. e.frame \in 0 .. q.used - 1 /\ f = q.table[d][i].frame
    BY <1>2, <2>7, <2>9
  <2>10. /\ Safe(b, r, D) /\ r.used = q.used
         /\ AllTables(r, D) = AllTables(q, D)
         /\ /\ Closed(b, q, D)
            /\ e.frame >= b.kernel /\ e.frame < KHEAP
            /\ e.frame \notin AllTables(q, D)
            => Closed(b, r, D)
    BY <1>1, <1>2, <2>7, <2>8, <2>14, SafePage
  <2>11. r.used \in x.used .. x.top
    BY <1>3, <2>3, <2>7, <2>10
  <2>12. ASSUME Closed(b, x, D), pa >= b.kernel, pa < KHEAP, pa \notin AllTables(x, D)
         PROVE  Closed(b, r, D)
    <3>1. Closed(b, q, D)
      BY <2>2, <2>7, <2>9, <2>12
    <3>2. pa \notin AllTables(q, D)
      BY <2>2, <2>7, <2>9, <2>12
    <3>. QED
      BY <1>2, <2>10, <2>12, <3>1, <3>2
  <2>15. AllTables(r, D) \subseteq AllTables(x, D) \cup (x.used .. r.used - 1)
    <3>1. f \in x.used .. r.used - 1
      BY <1>3, <2>3, <2>7, <2>10 DEF f
    <3>. QED
      BY <2>2, <2>7, <2>10, <3>1
  <2>. QED
    BY <2>10, <2>11, <2>12, <2>15
<1>. QED
  BY <1>4, <1>5, <1>6, <1>7

-----------------------------------------------------------------------------
(* What is made of memory whose directories are those in D. *)
Keeps(b, D, x, r) ==
    /\ Safe(b, r, D) /\ r.used \in x.used .. x.top /\ (r.ok => x.ok)
    /\ Closed(b, x, D) => Closed(b, r, D)

(* One call after another keeps memory sound. *)
LEMMA KeepsTwice ==
    ASSUME NEW b, NEW D, NEW x, NEW r, NEW s, Safe(b, x, D),
           Keeps(b, D, x, r), Keeps(b, D, r, s)
    PROVE  Keeps(b, D, x, s)
<1>1. x.used \in Nat /\ x.top \in Nat
  BY Sizes DEF Safe
<1>2. r.top = x.top
  BY DEF Safe, Keeps
<1>3. s.used \in x.used .. x.top
  BY <1>1, <1>2 DEF Keeps
<1>. QED
  BY <1>3 DEF Keeps

(* Sound memory left alone stays sound. *)
LEMMA KeepsSelf ==
    ASSUME NEW b, NEW D, NEW x, Safe(b, x, D)
    PROVE  Keeps(b, D, x, x)
<1>1. x.used \in x.used .. x.top
  BY Sizes DEF Safe
<1>. QED
  BY <1>1 DEF Keeps

(* A call that only takes frames keeps memory sound. *)
LEMMA GrewKeeps ==
    ASSUME NEW b, b.kernel \in Nat, NEW D, NEW x, Safe(b, x, D),
           NEW r, Grew(x, r), r.ok => x.ok
    PROVE  Keeps(b, D, x, r) /\ AllTables(r, D) = AllTables(x, D)
<1>1. MemoryOK(x)
  BY DEF Safe
<1>2. /\ Safe(b, r, D) /\ AllTables(r, D) = AllTables(x, D)
      /\ Closed(b, x, D) => Closed(b, r, D)
  BY <1>1, SafeGrew
<1>. QED
  BY <1>2 DEF Keeps, Grew

(* Filling a page changes no table. *)
LEMMA Fills ==
    ASSUME NEW x, MemoryOK(x), NEW p, NEW v \in Values,
           NEW r, r = [x EXCEPT !.data[p] = v]
    PROVE  /\ Grew(x, r) /\ r.ok = x.ok /\ r.used = x.used
           /\ r.table = x.table /\ r.stuck = x.stuck
<1>1. /\ IsMemory(r) /\ r.top = x.top /\ r.used = x.used /\ r.ok = x.ok
      /\ r.stuck = x.stuck /\ r.table = x.table /\ r.cache = x.cache
      /\ r.data = [x.data EXCEPT ![p] = v]
  BY DEF MemoryOK, IsMemory
<1>2. [x.data EXCEPT ![p] = v] \in [0 .. x.top - 1 -> Values]
  BY DEF MemoryOK
<1>3. MemoryOK(r)
  BY <1>1, <1>2 DEF MemoryOK
<1>4. r.used \in x.used .. x.top
  BY <1>1, Sizes
<1>. QED
  BY <1>1, <1>3, <1>4, SameCaches DEF Grew

(* A user's page. *)
MapUser(x, d, pa, va) == vm_map_page(x, d, pa, va, TRUE, None)

(* Mapping a user's page, whatever comes of it, keeps memory sound; it
   closes the page if the frame is none of the tables. *)
LEMMA MapsUser ==
    ASSUME NEW b, b.kernel \in Nat, NEW x, NEW D, Safe(b, x, D), NEW d \in D,
           NEW va \in Nat, va < KHALF - 1, NEW pa \in 0 .. x.used - 1,
           NEW r, r = MapUser(x, d, pa, va)
    PROVE  /\ Safe(b, r, D) /\ r.used \in x.used .. x.top /\ (r.ok => x.ok)
           /\ AllTables(r, D) \subseteq AllTables(x, D) \cup (x.used .. r.used - 1)
           /\ /\ Closed(b, x, D)
              /\ pa >= b.kernel /\ pa < KHEAP /\ pa \notin AllTables(x, D)
              => Closed(b, r, D)
<1> DEFINE user == TRUE
<1>1. user \in BOOLEAN /\ r = vm_map_page(x, d, pa, va, user, None)
  BY DEF MapUser
<1>. HIDE DEF user
<1>. QED
  BY <1>1, UserPage

(* A turn of LoadImage. *)
LoadTurn(n, d, va, v) ==
    LET pg == NextFrame(n)
        l == TakeForKernel(n)
    IN  IF ~l.ok THEN l ELSE MapUser([l EXCEPT !.data[pg] = v], d, pg, va)

(* A turn keeps memory sound. *)
LEMMA LoadsPage ==
    ASSUME NEW b, b.kernel \in Nat, NEW n, NEW D, Safe(b, n, D), NEW d \in D,
           NEW va \in Nat, va < KHALF - 1, NEW v \in Values,
           NEW r, r = LoadTurn(n, d, va, v)
    PROVE  Keeps(b, D, n, r)
<1> DEFINE pg == NextFrame(n)
           l == TakeForKernel(n)
           p == [l EXCEPT !.data[pg] = v]
<1>1. MemoryOK(n) /\ n.used \in Nat /\ n.top \in Nat /\ 1 <= n.used /\ b.kernel <= n.used
  BY Sizes DEF Safe
<1>2. Took(n, l) /\ Got(n, l)
  BY <1>1, TakesForKernel
<1>3. MemoryOK(l) /\ Grew(n, l) /\ (l.ok => n.ok)
  BY <1>2, TookGrew DEF Took
<1>4. Keeps(b, D, n, l) /\ AllTables(l, D) = AllTables(n, D)
  BY <1>3, GrewKeeps
<1>5. r = IF ~l.ok THEN l ELSE MapUser(p, d, pg, va)
  BY DEF LoadTurn
<1>. HIDE DEF l, pg
<1>6. p = [l EXCEPT !.data[pg] = v]
  OBVIOUS
<1>. HIDE DEF p
<1>7. CASE ~l.ok
  BY <1>4, <1>5, <1>7
<1>8. CASE l.ok
  <2>1. /\ pg = n.used /\ n.used < KHEAP /\ l.used = n.used + 1
    BY <1>2, <1>8 DEF Got, pg
  <2>2. Grew(l, p) /\ p.ok = l.ok /\ p.used = l.used
    BY <1>3, <1>6, Fills
  <2>3. Safe(b, l, D)
    BY <1>4 DEF Keeps
  <2>4. Keeps(b, D, l, p) /\ AllTables(p, D) = AllTables(l, D)
    BY <2>2, <2>3, GrewKeeps
  <2>5. Safe(b, p, D)
    BY <2>4 DEF Keeps
  <2>6. pg \in 0 .. p.used - 1
    BY <1>1, <2>1, <2>2
  <2>7. pg >= b.kernel /\ pg < KHEAP /\ pg \notin AllTables(p, D)
    <3>1. AllTables(n, D) \subseteq 0 .. n.used - 1
      BY TablesExist
    <3>. QED
      BY <1>1, <1>4, <2>1, <2>4, <3>1
  <2>8. r = MapUser(p, d, pg, va)
    BY <1>5, <1>8
  <2>9. /\ Safe(b, r, D) /\ r.used \in p.used .. p.top /\ (r.ok => p.ok)
        /\ Closed(b, p, D) => Closed(b, r, D)
    BY <2>5, <2>6, <2>7, <2>8, MapsUser
  <2>10. Keeps(b, D, p, r)
    BY <2>9 DEF Keeps
  <2>11. Keeps(b, D, n, p)
    BY <1>4, <2>4, KeepsTwice
  <2>. QED
    BY <2>10, <2>11, KeepsTwice
<1>. QED
  BY <1>7, <1>8

(* LoadImage, turn after turn. *)
IsLoad(f, n, d, image, k) ==
    f = [i \in 0 .. k |-> IF i = 0 THEN n
                          ELSE LoadTurn(f[i - 1], d, boot.start + i - 1, image[i])]

(* LoadImage's recursion defines a function. *)
LEMMA LoadExists ==
    ASSUME NEW n, NEW d, NEW image, NEW last \in Nat
    PROVE  \E f : IsLoad(f, n, d, image, last)
<1> DEFINE S == {k \in 0 .. last : \E f : IsLoad(f, n, d, image, k)}
<1>1. 0 \in S
  <2> DEFINE f == [i \in 0 .. 0 |-> n]
  <2>1. IsLoad(f, n, d, image, 0)
    BY DEF IsLoad
  <2>. QED
    BY <2>1
<1>2. ASSUME NEW k \in S, k < last PROVE k + 1 \in S
  <2>0. k \in 0 .. last
    OBVIOUS
  <2>1. PICK f : IsLoad(f, n, d, image, k)
    OBVIOUS
  <2> DEFINE Turn(y, i) == LoadTurn(y, d, boot.start + i - 1, image[i])
             g == [i \in 0 .. k + 1 |-> IF i = k + 1 THEN Turn(f[k], k + 1) ELSE f[i]]
  <2>2. ASSUME NEW i \in 0 .. k + 1
        PROVE  g[i] = IF i = 0 THEN n ELSE Turn(g[i - 1], i)
    <3>1. CASE i = k + 1
      <4>1. i # 0 /\ g[i - 1] = f[k] /\ g[i] = Turn(f[k], k + 1)
        BY <2>0, <3>1
      <4>. HIDE DEF g
      <4>. QED
        BY <3>1, <4>1
    <3>2. CASE i # k + 1
      <4>1. i \in 0 .. k /\ g[i] = f[i]
        BY <2>0, <3>2
      <4>2. f[i] = IF i = 0 THEN n ELSE Turn(f[i - 1], i)
        BY <2>1, <4>1 DEF IsLoad
      <4>3. i # 0 => g[i - 1] = f[i - 1]
        BY <2>0, <4>1
      <4>. HIDE DEF g
      <4>. QED
        BY <4>1, <4>2, <4>3
    <3>. QED
      BY <3>1, <3>2
  <2>3. IsLoad(g, n, d, image, k + 1)
    <3>1. g = [i \in 0 .. k + 1 |-> g[i]]
      OBVIOUS
    <3>. HIDE DEF g
    <3>. QED
      BY <2>2, <3>1 DEF IsLoad
  <2>4. k + 1 \in 0 .. last
    BY <1>2, <2>0
  <2>. QED
    BY <2>3, <2>4
<1>3. S = 0 .. last
  <2>. HIDE DEF S
  <2>1. S \in SUBSET (0 .. last)
    BY DEF S
  <2>. QED
    BY <1>1, <1>2, <2>1, UpTo
<1>. QED
  BY <1>3

(* LoadImage keeps memory sound, at whichever page it fails. *)
LEMMA Loads ==
    ASSUME NEW n, NEW D, Safe(boot, n, D), boot \in Machines, NEW d \in D,
           NEW image \in [ImageNumbers -> Values]
    PROVE  Keeps(boot, D, n, LoadImage(n, d, image))
<1>0. /\ boot.kernel \in Nat /\ boot.start \in Nat /\ boot.start + Pages < KHALF
      /\ Pages \in Nat /\ KHALF \in Nat
  BY VmAssumption, Constants
<1> DEFINE f == CHOOSE load : IsLoad(load, n, d, image, Pages)
<1>1. IsLoad(f, n, d, image, Pages)
  BY <1>0, LoadExists
<1>2. LoadImage(n, d, image) = f[Pages]
  BY DEF LoadImage, IsLoad, LoadTurn, MapUser
<1>. HIDE DEF f
<1> DEFINE S == {i \in 0 .. Pages : Keeps(boot, D, n, f[i])}
<1>3. 0 \in S
  <2>1. f[0] = n
    BY <1>0, <1>1 DEF IsLoad
  <2>. QED
    BY <1>0, <2>1, KeepsSelf
<1>4. ASSUME NEW i \in S, i < Pages PROVE i + 1 \in S
  <2>1. i \in 0 .. Pages /\ i + 1 \in 1 .. Pages /\ (i + 1) - 1 = i
    BY <1>0, <1>4
  <2> DEFINE va == boot.start + (i + 1) - 1
             v == image[i + 1]
  <2>2. f[i + 1] = LoadTurn(f[i], d, va, v)
    <3>1. i + 1 \in 0 .. Pages /\ i + 1 # 0
      BY <2>1
    <3>2. f[i + 1] = IF i + 1 = 0 THEN n
                     ELSE LoadTurn(f[(i + 1) - 1], d, boot.start + (i + 1) - 1, image[i + 1])
      BY <1>1, <3>1 DEF IsLoad
    <3>. QED
      BY <2>1, <3>1, <3>2
  <2>3. va \in Nat /\ va < KHALF - 1
    BY <1>0, <2>1
  <2>4. v \in Values
    BY <2>1 DEF ImageNumbers
  <2>. HIDE DEF va, v
  <2> DEFINE a == f[i]
             c == f[i + 1]
  <2>5. Safe(boot, a, D) /\ c = LoadTurn(a, d, va, v) /\ Keeps(boot, D, n, a)
    BY <2>2 DEF Keeps
  <2>. HIDE DEF a, c
  <2>6. Keeps(boot, D, a, c)
    BY <1>0, <2>3, <2>4, <2>5, LoadsPage
  <2>7. Keeps(boot, D, n, c)
    BY <2>5, <2>6, KeepsTwice
  <2>. QED
    BY <2>1, <2>7 DEF c
<1>5. Pages \in S
  <2>. HIDE DEF S
  <2>1. S \in SUBSET (0 .. Pages)
    BY DEF S
  <2>2. S = 0 .. Pages
    BY <1>0, <1>3, <1>4, <2>1, UpTo
  <2>. QED
    BY <1>0, <2>2
<1>. QED
  BY <1>2, <1>5

-----------------------------------------------------------------------------
(* New directories.                                                        *)

(* Where the table at index i of the kernel's half begins, in the address
   space, in the memory it maps and in its cache. *)
LEMMA SharedPlace ==
    ASSUME NEW i \in Shared
    PROVE  /\ i \in Nat /\ i <= VaTop /\ i >= HALF
           /\ PtblSize * i \in Nat /\ PDIRE(PtblSize * i) = i /\ PTBLE(PtblSize * i) = 0
           /\ CacheOf(i) \in Caches /\ CacheOf(i) # None
           /\ UseCache(CacheOf(i), PtblSize * i)
           /\ CacheIndex(i) = PDIRE(PtblSize * i - Base(CacheOf(i)))
           /\ CacheIndex(i) \in 0 .. VaTop
           /\ FirstPage(i) \in Nat /\ FirstPage(i) + PtblSize <= VaTop
<1>1. i \in Nat /\ i >= HALF /\ i <= VaTop
  BY Constants, Indices DEF Shared
<1>2. PtblSize * i \in Nat /\ PDIRE(PtblSize * i) = i /\ PTBLE(PtblSize * i) = 0
  <2>1. PtblSize * i \in Nat /\ PtblSize * i + 0 = PtblSize * i /\ 0 \in 0 .. PtblSize - 1
    BY <1>1, Constants
  <2>. QED
    BY <1>1, <2>1, Page
<1>3. CacheOf(i) \in Caches /\ CacheOf(i) # None
  BY DEF CacheOf, Caches, None
<1>4. CASE i < IO
  <2> DEFINE k == i - HALF
  <2>1. k \in 0 .. KTABLES - 1 /\ i = HALF + k
    BY <1>1, <1>4, Constants DEF Shared
  <2>. HIDE DEF k
  <2>2. PtblSize * i = PtblSize * HALF + PtblSize * k /\ PtblSize * k \in Nat
    BY <2>1, Constants
  <2>3. PtblSize * k + PtblSize <= PtblSize * KTABLES
    BY <2>1, Constants, Multiples
  <2>4. CacheOf(i) = "kcache" /\ CacheIndex(i) = k /\ FirstPage(i) = PtblSize * k
    <3>1. i - HALF = k
      BY DEF k
    <3>. QED
      BY <1>4, <3>1 DEF CacheOf, CacheIndex, FirstPage
  <2> DEFINE q == PtblSize * k
             v == PtblSize * i
  <2>5. /\ v = KHALF + q /\ q \in Nat /\ q + PtblSize <= KHEAP /\ FirstPage(i) = q
        /\ PtblSize * k = q
    BY <2>2, <2>3, <2>4, Constants
  <2>6. PDIRE(q) = k
    <3>1. q = PtblSize * k + 0 /\ 0 \in 0 .. PtblSize - 1 /\ k \in Nat
      BY <2>1, <2>2, Constants
    <3>. QED
      BY <3>1, Page
  <2>. HIDE DEF q, v
  <2>7. v - KHALF = q
    BY <2>5, Constants
  <2>8. KHALF <= v /\ v <= KHALF + KHEAP
    BY <2>5, Constants
  <2>9. UseCache(CacheOf(i), v) /\ CacheIndex(i) = PDIRE(v - Base(CacheOf(i)))
    BY <1>3, <2>4, <2>6, <2>7, <2>8 DEF UseCache, Base, Limit
  <2>10. CacheIndex(i) \in 0 .. VaTop
    BY <1>1, <2>1, <2>4, Constants
  <2>11. FirstPage(i) \in Nat /\ FirstPage(i) + PtblSize <= VaTop
    BY <2>5, Constants
  <2>. QED
    BY <1>1, <1>2, <1>3, <2>9, <2>10, <2>11 DEF v
<1>5. CASE ~(i < IO)
  <2> DEFINE k == i - IO
  <2>1. k \in 0 .. IOTABLES - 1 /\ i = IO + k
    BY <1>1, <1>5, Constants DEF Shared
  <2>. HIDE DEF k
  <2>2. PtblSize * i = PtblSize * IO + PtblSize * k /\ PtblSize * k \in Nat
    BY <2>1, Constants
  <2>3. PtblSize * i + PtblSize <= PtblSize * (IO + IOTABLES)
    BY <1>1, <2>1, Constants, Multiples
  <2>4. CacheOf(i) = "iocache" /\ CacheIndex(i) = k /\ FirstPage(i) = PtblSize * i
    <3>1. i - IO = k
      BY DEF k
    <3>. QED
      BY <1>5, <3>1 DEF CacheOf, CacheIndex, FirstPage
  <2> DEFINE q == PtblSize * k
             v == PtblSize * i
  <2>5. /\ v = IO_START + q /\ q \in Nat /\ v + PtblSize <= VaTop /\ FirstPage(i) = v
        /\ PtblSize * k = q
    BY <2>2, <2>3, <2>4, Constants
  <2>6. PDIRE(q) = k
    <3>1. q = PtblSize * k + 0 /\ 0 \in 0 .. PtblSize - 1 /\ k \in Nat
      BY <2>1, <2>2, Constants
    <3>. QED
      BY <3>1, Page
  <2>. HIDE DEF q, v
  <2>7. v - IO_START = q
    BY <2>5, Constants
  <2>8. IO_START <= v /\ v <= VaTop - 1
    BY <2>5, Constants
  <2>9. UseCache(CacheOf(i), v) /\ CacheIndex(i) = PDIRE(v - Base(CacheOf(i)))
    BY <1>3, <2>4, <2>6, <2>7, <2>8 DEF UseCache, Base, Limit
  <2>10. CacheIndex(i) \in 0 .. VaTop
    BY <1>1, <2>1, <2>4, Constants
  <2>11. FirstPage(i) \in Nat /\ FirstPage(i) + PtblSize <= VaTop
    BY <2>5, Constants
  <2>. QED
    BY <1>1, <1>2, <1>3, <2>9, <2>10, <2>11 DEF v
<1>. QED
  BY <1>4, <1>5

(* The caches have a place for each of them. *)
LEMMA SharedApart ==
    ASSUME NEW i \in Shared, NEW j \in Shared, CacheOf(i) = CacheOf(j),
           CacheIndex(i) = CacheIndex(j)
    PROVE  i = j
BY Constants DEF Shared, CacheOf, CacheIndex

(* A directory gets an entry of the kernel's half, which the cache gets too. *)
SetShared(n, d, i, f) ==
    [n EXCEPT !.table = [[n.table EXCEPT ![d] = Put(n.table[d], i, KernelEntry(f))]
                            EXCEPT ![f] = SharedTable(i)],
              !.cache = [n.cache EXCEPT ![CacheOf(i)] =
                            Put(n.cache[CacheOf(i)], CacheIndex(i), KernelEntry(f))]]

(* What a shared table has. *)
LEMMA SharedTableIs ==
    ASSUME NEW i \in Shared
    PROVE  /\ IsPages(SharedTable(i))
           /\ DOMAIN SharedTable(i) = 0 .. PtblSize - 1
           /\ \A y \in 0 .. PtblSize - 1 :
                  SharedTable(i)[y] = KernelEntry(FirstPage(i) + y)
<1>1. FirstPage(i) \in Nat /\ FirstPage(i) + PtblSize <= VaTop
  BY SharedPlace
<1>2. \A y \in 0 .. PtblSize - 1 : FirstPage(i) + y \in 0 .. VaTop - 1 /\ y \in 0 .. VaTop
  BY <1>1, Constants
<1>3. \A f \in 0 .. VaTop - 1 : IsEntry(KernelEntry(f))
  BY DEF IsEntry, KernelEntry, Entry
<1>4. /\ DOMAIN SharedTable(i) = 0 .. PtblSize - 1
      /\ \A y \in 0 .. PtblSize - 1 :
             SharedTable(i)[y] = KernelEntry(FirstPage(i) + y)
  BY DEF SharedTable
<1>. QED
  BY <1>2, <1>3, <1>4 DEF IsPages

(* What that changes, and what it does not. *)
LEMMA SetSharedFacts ==
    ASSUME NEW n, MemoryOK(n), NEW i \in Shared, NEW d \in 1 .. n.used - 1,
           NEW f \in 1 .. n.used - 1, d # f, f < KHEAP,
           NEW r, r = SetShared(n, d, i, f)
    PROVE  /\ MemoryOK(r) /\ r.top = n.top /\ r.used = n.used /\ r.ok = n.ok
           /\ r.data = n.data /\ r.stuck = n.stuck
           /\ r.table[d] = Put(n.table[d], i, KernelEntry(f))
           /\ \A g \in 0 .. n.top - 1 : g # d /\ g # f => r.table[g] = n.table[g]
           /\ r.table[f] = SharedTable(i)
           /\ InCache(r, i) /\ SharedEntry(r, i) = KernelEntry(f)
           /\ \A j \in Shared : j # i =>
                  /\ IsCached(r, j) <=> IsCached(n, j)
                  /\ IsCached(n, j) => SharedEntry(r, j) = SharedEntry(n, j)
<1> DEFINE e == KernelEntry(f)
           t == Put(n.table[d], i, e)
           c == CacheOf(i)
           k == CacheIndex(i)
           p == Put(n.cache[c], k, e)
           tables == [[n.table EXCEPT ![d] = t] EXCEPT ![f] = SharedTable(i)]
           caches == [n.cache EXCEPT ![c] = p]
<1>1. r = [n EXCEPT !.table = tables, !.cache = caches]
  BY DEF SetShared
<1>2. /\ \A g \in 1 .. n.used - 1 : g \in 0 .. n.top - 1 /\ g \notin n.used .. n.top - 1
      /\ \A g \in n.used .. n.top - 1 : g \in 0 .. n.top - 1
      /\ f \in 0 .. VaTop - 1
  BY Sizes
<1>3. IsEntry(e) /\ e.frame = f
  BY <1>2 DEF IsEntry, KernelEntry, Entry
<1>4. c \in Caches /\ k \in 0 .. VaTop /\ i \in 0 .. VaTop
  BY SharedPlace
<1>5. IsPages(SharedTable(i))
  BY SharedTableIs
<1>. HIDE DEF e, c, k
<1>6. IsPages(t)
  <2>1. DOMAIN t = {i} \cup DOMAIN n.table[d] /\ t[i] = e
        /\ \A y \in DOMAIN n.table[d] : y # i => t[y] = n.table[d][y]
    BY DEF Put, Over
  <2>2. IsPages(n.table[d])
    BY <1>2 DEF MemoryOK
  <2>. HIDE DEF t
  <2>. QED
    BY <1>3, <1>4, <2>1, <2>2 DEF IsPages
<1>7. DOMAIN p = {k} \cup DOMAIN n.cache[c] /\ p[k] = e
      /\ \A y \in DOMAIN n.cache[c] : y # k => p[y] = n.cache[c][y]
  BY DEF Put, Over
<1>. HIDE DEF t, p
<1>8. IsPages(p)
  <2>1. IsPages(n.cache[c])
    BY <1>4 DEF MemoryOK
  <2>. QED
    BY <1>3, <1>4, <1>7, <2>1 DEF IsPages
<1>9. /\ tables = [g \in 0 .. n.top - 1 |-> tables[g]]
      /\ tables[d] = t /\ tables[f] = SharedTable(i)
      /\ \A g \in 0 .. n.top - 1 : g # d /\ g # f => tables[g] = n.table[g]
  BY <1>2 DEF MemoryOK
<1>10. /\ caches = [a \in Caches |-> caches[a]]
       /\ caches[c] = p
       /\ \A a \in Caches : a # c => caches[a] = n.cache[a]
  BY <1>4 DEF MemoryOK
<1>. HIDE DEF tables, caches
<1>11. /\ IsMemory(r) /\ r.table = tables /\ r.cache = caches
       /\ r.top = n.top /\ r.used = n.used /\ r.ok = n.ok
       /\ r.stuck = n.stuck /\ r.data = n.data
  BY <1>1 DEF MemoryOK, IsMemory
<1>12. MemoryOK(r)
  <2>1. \A g \in 0 .. n.top - 1 : IsPages(tables[g])
    BY <1>5, <1>6, <1>9 DEF MemoryOK
  <2>2. \A g \in n.used .. n.top - 1 : tables[g] = Absent
    BY <1>2, <1>9 DEF MemoryOK
  <2>3. \A a \in Caches : IsPages(caches[a])
    BY <1>8, <1>10 DEF MemoryOK
  <2>. QED
    BY <1>9, <1>10, <1>11, <2>1, <2>2, <2>3 DEF MemoryOK
<1>13. SharedEntry(r, i) = e /\ IsCached(r, i)
  BY <1>7, <1>10, <1>11 DEF SharedEntry, IsCached, c, k
<1>14. InCache(r, i)
  BY <1>3, <1>9, <1>11, <1>13 DEF InCache, e
<1>15. ASSUME NEW j \in Shared, j # i
       PROVE  /\ IsCached(r, j) <=> IsCached(n, j)
              /\ IsCached(n, j) => SharedEntry(r, j) = SharedEntry(n, j)
  <2>1. CacheOf(j) \in Caches
    BY SharedPlace
  <2>2. CASE CacheOf(j) # c
    BY <1>10, <1>11, <2>1, <2>2 DEF SharedEntry, IsCached
  <2>3. CASE CacheOf(j) = c
    <3>1. CacheIndex(j) # k
      BY <1>15, <2>3, SharedApart DEF c, k
    <3>2. (CacheIndex(j) \in DOMAIN p) <=> (CacheIndex(j) \in DOMAIN n.cache[c])
      BY <1>7, <3>1
    <3>3. CacheIndex(j) \in DOMAIN n.cache[c] => p[CacheIndex(j)] = n.cache[c][CacheIndex(j)]
      BY <1>7, <3>1
    <3>. QED
      BY <1>10, <1>11, <2>3, <3>2, <3>3 DEF SharedEntry, IsCached
  <2>. QED
    BY <2>2, <2>3
<1>. QED
  BY <1>9, <1>11, <1>12, <1>13, <1>14, <1>15 DEF t, e

(* A table's worth of turns.  The table is entered, gets its first page, and
   then the others. *)
Turn(x, d, i) == MapTable(x, d, FirstPage(i), PtblSize * i, CacheOf(i))

EnterTable(n, d, i, f) ==
    [n EXCEPT !.table = [n.table EXCEPT ![d] = Put(n.table[d], i, KernelEntry(f))],
              !.cache = [n.cache EXCEPT ![CacheOf(i)] =
                            Put(n.cache[CacheOf(i)], CacheIndex(i), KernelEntry(f))]]

(* The turns that fill a table complete the shared one. *)
LEMMA FillsTable ==
    ASSUME NEW n, MemoryOK(n), n.ok, NEW i \in Shared, NEW d \in 1 .. n.used - 1,
           NEW f \in 1 .. n.used - 1, d # f,
           n.table[f] = Absent \/ n.table[f] = SharedTable(i),
           NEW s, s = PutEntry(EnterTable(n, d, i, f), f, 0, KernelEntry(FirstPage(i)))
    PROVE  FillTable(s, d, FirstPage(i), PtblSize * i) = SetShared(n, d, i, f)
<1> DEFINE pa == FirstPage(i)
           t == Put(n.table[d], i, KernelEntry(f))
           caches == [n.cache EXCEPT ![CacheOf(i)] =
                         Put(n.cache[CacheOf(i)], CacheIndex(i), KernelEntry(f))]
           t0 == Put(n.table[f], 0, KernelEntry(pa))
           tables == [[n.table EXCEPT ![d] = t] EXCEPT ![f] = t0]
           rest == [y \in 1 .. PtblSize - 1 |-> Entry(pa + y, FALSE)]
           full == Over(rest, t0)
           r == FillTable(s, d, pa, PtblSize * i)
<1>1. /\ d \in 0 .. n.top - 1 /\ f \in 0 .. n.top - 1
  BY Sizes
<1>2. EnterTable(n, d, i, f) = [n EXCEPT !.table = [n.table EXCEPT ![d] = t],
                                         !.cache = caches]
  BY DEF EnterTable
<1>3. t[i] = KernelEntry(f) /\ KernelEntry(f).frame = f
  BY DEF Put, Over, KernelEntry, Entry
<1>4. full = SharedTable(i)
  <2>1. pa \in Nat /\ PtblSize \in Nat \ {0} /\ pa + 0 = pa
    BY SharedPlace, Constants
  <2>2. DOMAIN n.table[f] \subseteq 0 .. PtblSize - 1
    <3>1. CASE n.table[f] = SharedTable(i)
      <4>1. DOMAIN SharedTable(i) = 0 .. PtblSize - 1
        BY SharedTableIs
      <4>. QED
        BY <3>1, <4>1
    <3>2. CASE n.table[f] = Absent
      BY <3>2 DEF Absent
    <3>. QED
      BY <3>1, <3>2
  <2>3. /\ DOMAIN t0 = {0} \cup DOMAIN n.table[f] /\ t0[0] = KernelEntry(pa)
    BY DEF Put, Over
  <2>4. DOMAIN rest = 1 .. PtblSize - 1
        /\ \A y \in 1 .. PtblSize - 1 : rest[y] = KernelEntry(pa + y)
    BY DEF KernelEntry
  <2>. HIDE DEF t0, rest
  <2>5. DOMAIN rest \cup DOMAIN t0 = 0 .. PtblSize - 1
    BY <2>1, <2>2, <2>3, <2>4
  <2>6. full = [y \in 0 .. PtblSize - 1 |-> IF y \in DOMAIN rest THEN rest[y] ELSE t0[y]]
    BY <2>5 DEF Over
  <2>7. \A y \in 0 .. PtblSize - 1 :
            (IF y \in DOMAIN rest THEN rest[y] ELSE t0[y]) = KernelEntry(pa + y)
    <3>. TAKE y \in 0 .. PtblSize - 1
    <3>1. CASE y = 0
      BY <2>1, <2>3, <2>4, <3>1
    <3>2. CASE y # 0
      BY <2>1, <2>4, <3>2
    <3>. QED
      BY <3>1, <3>2
  <2>. QED
    BY <2>6, <2>7 DEF SharedTable, pa
<1>. HIDE DEF t, t0, caches, full
<1>5. s = [n EXCEPT !.table = tables, !.cache = caches]
  <2> DEFINE q == EnterTable(n, d, i, f)
  <2>1. q = [n EXCEPT !.table = [n.table EXCEPT ![d] = t], !.cache = caches]
    BY <1>2
  <2>2. s = PutEntry(q, f, 0, KernelEntry(pa))
    OBVIOUS
  <2>. HIDE DEF q, pa
  <2>3. q.table = [n.table EXCEPT ![d] = t] /\ q.table[f] = n.table[f]
    BY <1>1, <2>1 DEF MemoryOK, IsMemory
  <2>4. s = [q EXCEPT !.table = [q.table EXCEPT ![f] = t0]]
    BY <2>2, <2>3 DEF PutEntry, t0
  <2>. QED
    BY <2>1, <2>3, <2>4 DEF MemoryOK, IsMemory
<1>6. s.ok /\ s.table = tables /\ IsMemory(s)
  BY <1>5 DEF MemoryOK, IsMemory
<1>7. tables[d] = t /\ tables[f] = t0
  BY <1>1 DEF MemoryOK
<1>8. PDIRE(PtblSize * i) = i
  BY SharedPlace
<1>9. s.table[d][PDIRE(PtblSize * i)].frame = f
  BY <1>3, <1>6, <1>7, <1>8
<1>10. r = [s EXCEPT !.table = [tables EXCEPT ![f] = full]]
  BY <1>6, <1>7, <1>9 DEF FillTable, full
<1>. HIDE DEF r
<1> DEFINE last == [tables EXCEPT ![f] = full]
<1>11. last = [[n.table EXCEPT ![d] = t] EXCEPT ![f] = full]
  BY <1>1 DEF MemoryOK
<1>12. SetShared(n, d, i, f) =
           [n EXCEPT !.table = [[n.table EXCEPT ![d] = t] EXCEPT ![f] = SharedTable(i)],
                     !.cache = caches]
  BY DEF SetShared, t, caches
<1>. HIDE DEF tables, last
<1>13. r = [s EXCEPT !.table = last]
  BY <1>10 DEF last
<1>14. r = [n EXCEPT !.table = last, !.cache = caches]
  BY <1>5, <1>13 DEF MemoryOK, IsMemory
<1>15. r = SetShared(n, d, i, f)
  BY <1>4, <1>11, <1>12, <1>14
<1>. QED
  BY <1>15 DEF r

(* The first page of a table of the kernel's half. *)
MapShared(x, d, i) ==
    vm_map_page(x, d, FirstPage(i), PtblSize * i, FALSE, CacheOf(i))

(* vm_map_page with a cache takes the table from it, or makes one and enters
   it. *)
LEMMA MapsShared ==
    ASSUME NEW x, MemoryOK(x), x.ok, NEW i \in Shared, NEW d \in 1 .. x.used - 1,
           i \notin DOMAIN x.table[d]
    PROVE  LET n == vm_alloc_pte(x)
               e == SharedEntry(x, i)
           IN  MapShared(x, d, i) =
                   IF IsCached(x, i)
                     THEN PutEntry([x EXCEPT
                              !.table = [x.table EXCEPT
                                  ![d] = Put(x.table[d], i, Entry(e.frame, e.user \/ FALSE))],
                              !.cache = [x.cache EXCEPT ![CacheOf(i)] =
                                  Put(x.cache[CacheOf(i)], CacheIndex(i),
                                      Entry(e.frame, e.user \/ FALSE))]],
                            e.frame, 0, KernelEntry(FirstPage(i)))
                   ELSE IF n.ok
                     THEN PutEntry(EnterTable(n, d, i, NextFrame(x)), NextFrame(x), 0,
                                   KernelEntry(FirstPage(i)))
                   ELSE n
<1> DEFINE va == PtblSize * i
           c == CacheOf(i)
           k == CacheIndex(i)
           pa == FirstPage(i)
           no == FALSE
           n == vm_alloc_pte(x)
           e == SharedEntry(x, i)
           o == Entry(e.frame, e.user \/ no)
           new == NextFrame(x)
           page == Entry(pa, no)
           SetTable(q, entry) ==
               [q EXCEPT !.table[d] = Put(@, i, entry),
                         !.cache = [q.cache EXCEPT ![c] = Put(@, k, entry)]]
<1>1. PDIRE(va) = i /\ PTBLE(va) = 0 /\ UseCache(c, va) /\ k = PDIRE(va - Base(c))
  BY SharedPlace
<1>2. MapShared(x, d, i) = vm_map_page(x, d, pa, va, no, c)
  BY DEF MapShared
<1>3. page = KernelEntry(pa) /\ Entry(new, no) = KernelEntry(new)
  BY DEF KernelEntry
<1>4. e = x.cache[c][k] /\ (IsCached(x, i) <=> k \in DOMAIN x.cache[c])
  BY DEF SharedEntry, IsCached
<1>. HIDE DEF va, c, k, pa, no
<1>5. vm_map_page(x, d, pa, va, no, c) =
          IF k \in DOMAIN x.cache[c] THEN PutEntry(SetTable(x, o), e.frame, 0, page)
          ELSE IF n.ok THEN PutEntry(SetTable(n, Entry(new, no)), new, 0, page)
          ELSE n
  <2>1. vm_map_page(x, d, pa, va, no, c) =
            IF k \in DOMAIN x.cache[c]
              THEN PutEntry(SetTable(x, Entry(x.cache[c][k].frame, x.cache[c][k].user \/ no)),
                            x.cache[c][k].frame, 0, page)
            ELSE IF n.ok THEN PutEntry(SetTable(n, Entry(new, no)), new, 0, page)
            ELSE n
    BY <1>1 DEF vm_map_page, PutEntry
  <2>. QED
    BY <1>4, <2>1
<1>. HIDE DEF n, new
<1>6. SetTable(n, KernelEntry(new)) = EnterTable(n, d, i, new)
  BY DEF EnterTable, c, k
<1>7. SetTable(x, o) = [x EXCEPT !.table = [x.table EXCEPT ![d] = Put(x.table[d], i, o)],
                                 !.cache = [x.cache EXCEPT ![c] = Put(x.cache[c], k, o)]]
  OBVIOUS
<1>. QED
  BY <1>2, <1>3, <1>4, <1>5, <1>6, <1>7 DEF c, k, pa, no, n, new

(* A turn shares the table that the cache has, or makes the shared table. *)
LEMMA Turns ==
    ASSUME NEW x, MemoryOK(x), NEW i \in Shared, NEW d \in 1 .. x.used - 1,
           i \notin DOMAIN x.table[d],
           IsCached(x, i) => InCache(x, i) /\ SharedEntry(x, i).frame # d,
           NEW r, r = Turn(x, d, i)
    PROVE  \/ ~x.ok /\ r = x
           \/ x.ok /\ InCache(x, i) /\ r = SetShared(x, d, i, SharedEntry(x, i).frame)
           \/ x.ok /\ ~IsCached(x, i) /\ ~r.ok
           \/ \E n : /\ x.ok /\ ~IsCached(x, i) /\ n.ok /\ Took(x, n) /\ Got(x, n)
                     /\ r = SetShared(n, d, i, x.used)
<1> DEFINE s == MapShared(x, d, i)
           pa == FirstPage(i)
           va == PtblSize * i
           n == vm_alloc_pte(x)
<1>1. r = FillTable(s, d, pa, va)
  BY DEF Turn, MapTable, MapShared
<1>. HIDE DEF s
<1>2. CASE ~x.ok
  <2>1. s = x
    BY <1>2 DEF s, MapShared, vm_map_page
  <2>. QED
    BY <1>1, <1>2, <2>1 DEF FillTable
<1>3. CASE x.ok /\ IsCached(x, i)
  <2> DEFINE e == SharedEntry(x, i)
             f == e.frame
  <2>1. InCache(x, i) /\ f # d
    BY <1>3
  <2>2. e = KernelEntry(f) /\ f \in 1 .. x.used - 1 /\ x.table[f] = SharedTable(i)
    BY <2>1 DEF InCache
  <2>3. Entry(e.frame, e.user \/ FALSE) = KernelEntry(f)
    <3>1. e.user = FALSE
      BY <2>2 DEF KernelEntry, Entry
    <3>. QED
      BY <3>1 DEF KernelEntry
  <2>4. s = PutEntry(EnterTable(x, d, i, f), f, 0, KernelEntry(pa))
    BY <1>3, <2>3, MapsShared DEF EnterTable, s
  <2>. HIDE DEF e, f, pa, va
  <2>5. FillTable(s, d, FirstPage(i), PtblSize * i) = SetShared(x, d, i, f)
    BY <1>3, <2>1, <2>2, <2>4, FillsTable DEF pa
  <2>. QED
    BY <1>1, <1>3, <2>1, <2>5 DEF f, e, pa, va
<1>4. CASE x.ok /\ ~IsCached(x, i) /\ ~n.ok
  <2>1. s = n
    BY <1>4, MapsShared DEF s
  <2>. HIDE DEF n
  <2>. QED
    BY <1>1, <1>4, <2>1 DEF FillTable
<1>5. CASE x.ok /\ ~IsCached(x, i) /\ n.ok
  <2> DEFINE f == NextFrame(x)
  <2>1. Took(x, n) /\ Got(x, n)
    BY AllocatesTable
  <2>2. s = PutEntry(EnterTable(n, d, i, f), f, 0, KernelEntry(pa))
    BY <1>5, MapsShared DEF s
  <2>. HIDE DEF n, f, pa, va
  <2>3. f = x.used /\ x.used < x.top /\ n.used = x.used + 1
    BY <1>5, <2>1 DEF Got, f
  <2>4. MemoryOK(n) /\ n.table = x.table
    BY <2>1 DEF Took
  <2>5. f \in 1 .. n.used - 1 /\ d \in 1 .. n.used - 1 /\ d # f /\ f \in x.used .. x.top - 1
    BY <2>3, Sizes
  <2>6. n.table[f] = Absent
    BY <2>4, <2>5 DEF MemoryOK
  <2>7. FillTable(s, d, FirstPage(i), PtblSize * i) = SetShared(n, d, i, f)
    BY <1>5, <2>2, <2>4, <2>5, <2>6, FillsTable DEF pa
  <2>8. r = SetShared(n, d, i, x.used)
    BY <1>1, <2>3, <2>7 DEF pa, va
  <2>. QED
    BY <1>5, <2>1, <2>8
<1>. QED
  BY <1>2, <1>3, <1>4, <1>5

(* Directory d of memory x has the entries of the kernel's half that are in J,
   and as a result x is r: they are in the caches too, which need no memory if
   they have been filled. *)
Done(x, r, d, J) ==
    /\ MemoryOK(r) /\ r.top = x.top /\ r.used \in x.used .. x.top
    /\ r.data = x.data
    /\ \A i \in Shared : IsCached(r, i) => InCache(r, i) /\ SharedEntry(r, i).frame # d
    /\ \A i \in J : IsCached(r, i) /\ r.table[d][i] = SharedEntry(r, i)
    /\ DOMAIN r.table[d] = J
    /\ \A f \in 0 .. x.used - 1 : f # d => r.table[f] = x.table[f]
    /\ CachesOK(x) => r.used = x.used /\ SameShared(x, r)

Progress(x, r, d, J) == IF r.ok THEN Done(x, r, d, J) ELSE ~CachesOK(x)

(* A turn adds a shared table to what the directory has. *)
LEMMA TurnProgress ==
    ASSUME NEW x, MemoryOK(x), NEW d \in 1 .. x.used - 1, NEW J \in SUBSET Shared,
           NEW y, Progress(x, y, d, J), NEW i \in Shared, i \notin J,
           NEW r, r = Turn(y, d, i)
    PROVE  Progress(x, r, d, J \cup {i})
<1>1. CASE ~y.ok
  <2>1. r = y
    BY <1>1 DEF Turn, MapTable, vm_map_page, FillTable
  <2>. QED
    BY <1>1, <2>1 DEF Progress
<1>2. CASE y.ok
  <2>1. Done(x, y, d, J)
    BY <1>2 DEF Progress
  <2>2. /\ MemoryOK(y) /\ y.top = x.top /\ y.used \in x.used .. x.top
        /\ d \in 1 .. y.used - 1
        /\ x.used \in Nat /\ x.top \in Nat /\ y.used \in Nat /\ x.used <= y.used
    BY <2>1, Sizes DEF Done
  <2>3. i \notin DOMAIN y.table[d]
    BY <2>1 DEF Done
  <2>4. IsCached(y, i) => InCache(y, i) /\ SharedEntry(y, i).frame # d
    BY <2>1 DEF Done
  <2>5. \/ InCache(y, i) /\ r = SetShared(y, d, i, SharedEntry(y, i).frame)
        \/ ~IsCached(y, i) /\ ~r.ok
        \/ \E n : /\ ~IsCached(y, i) /\ n.ok /\ Took(y, n) /\ Got(y, n)
                  /\ r = SetShared(n, d, i, y.used)
    BY <1>2, <2>2, <2>3, <2>4, Turns
  <2>6. ~IsCached(y, i) => ~CachesOK(x)
    BY <2>1 DEF Done, SameShared, CachesOK, InCache
  <2>7. CASE ~IsCached(y, i) /\ ~r.ok
    BY <2>6, <2>7 DEF Progress
  <2>8. CASE InCache(y, i) /\ r = SetShared(y, d, i, SharedEntry(y, i).frame)
    <3> DEFINE f == SharedEntry(y, i).frame
    <3>1. /\ f # d /\ f \in 1 .. y.used - 1 /\ f < KHEAP /\ y.table[f] = SharedTable(i)
          /\ SharedEntry(y, i) = KernelEntry(f) /\ IsCached(y, i)
      BY <2>4, <2>8 DEF InCache
    <3>2. r = SetShared(y, d, i, f)
      BY <2>8
    <3>. HIDE DEF f
    <3>3. /\ MemoryOK(r) /\ r.top = y.top /\ r.used = y.used /\ r.ok = y.ok
          /\ r.data = y.data
          /\ r.table[d] = Put(y.table[d], i, KernelEntry(f))
          /\ \A g \in 0 .. y.top - 1 : g # d /\ g # f => r.table[g] = y.table[g]
          /\ r.table[f] = SharedTable(i)
          /\ InCache(r, i) /\ SharedEntry(r, i) = KernelEntry(f)
          /\ \A j \in Shared : j # i =>
                /\ IsCached(r, j) <=> IsCached(y, j)
                /\ IsCached(y, j) => SharedEntry(r, j) = SharedEntry(y, j)
      BY <2>2, <3>1, <3>2, SetSharedFacts
    <3> DEFINE t == r.table[d]
    <3>4. /\ DOMAIN t = {i} \cup DOMAIN y.table[d] /\ t[i] = KernelEntry(f)
          /\ \A j \in DOMAIN y.table[d] : j # i => t[j] = y.table[d][j]
      <4>1. t = Put(y.table[d], i, KernelEntry(f))
        BY <3>3
      <4>. HIDE DEF t
      <4>. QED
        BY <4>1 DEF Put, Over
    <3>5. \A g \in 0 .. y.top - 1 : g # d => r.table[g] = y.table[g]
      BY <3>1, <3>3
    <3>6. \A g \in 0 .. y.used - 1 : g \in 0 .. y.top - 1
      BY <2>2
    <3>7. ASSUME NEW j \in Shared, IsCached(r, j)
          PROVE  InCache(r, j) /\ SharedEntry(r, j).frame # d
      <4>1. CASE j = i
        <5>1. KernelEntry(f).frame = f
          BY DEF KernelEntry, Entry
        <5>. QED
          BY <3>1, <3>3, <4>1, <5>1
      <4>2. CASE j # i
        <5>1. IsCached(y, j) /\ SharedEntry(r, j) = SharedEntry(y, j)
          BY <3>3, <3>7, <4>2
        <5>2. InCache(y, j) /\ SharedEntry(y, j).frame # d
          BY <2>1, <5>1 DEF Done
        <5> DEFINE g == SharedEntry(y, j).frame
        <5>3. g \in 0 .. y.top - 1
          BY <2>2, <5>2 DEF InCache
        <5>4. r.table[g] = y.table[g]
          BY <3>5, <5>2, <5>3
        <5>. QED
          BY <3>3, <3>7, <5>1, <5>2, <5>4 DEF InCache
      <4>. QED
        BY <4>1, <4>2
    <3>8. ASSUME NEW j \in J \cup {i}
          PROVE  IsCached(r, j) /\ r.table[d][j] = SharedEntry(r, j)
      <4>1. CASE j = i
        BY <3>3, <3>4, <4>1 DEF InCache
      <4>2. CASE j # i
        <5>1. /\ j \in Shared /\ IsCached(y, j) /\ y.table[d][j] = SharedEntry(y, j)
              /\ j \in DOMAIN y.table[d]
          BY <2>1, <4>2 DEF Done
        <5>. QED
          BY <3>3, <3>4, <4>2, <5>1
      <4>. QED
        BY <4>1, <4>2
    <3>9. DOMAIN r.table[d] = J \cup {i}
      BY <2>1, <3>4 DEF Done
    <3>10. \A g \in 0 .. x.used - 1 : g # d => r.table[g] = x.table[g]
      <4>1. \A g \in 0 .. x.used - 1 : g \in 0 .. y.top - 1
        BY <2>2
      <4>. QED
        BY <2>1, <3>5, <4>1 DEF Done
    <3>11. CachesOK(x) => r.used = x.used /\ SameShared(x, r)
      <4>1. SUFFICES ASSUME CachesOK(x) PROVE r.used = x.used /\ SameShared(x, r)
        OBVIOUS
      <4>2. y.used = x.used /\ SameShared(x, y)
        BY <2>1, <4>1 DEF Done
      <4>3. \A j \in Shared : IsCached(y, j)
        BY <4>1, <4>2 DEF SameShared, CachesOK, InCache
      <4>4. \A j \in Shared : (IsCached(r, j) <=> IsCached(y, j))
                              /\ SharedEntry(r, j) = SharedEntry(y, j)
        BY <3>1, <3>3, <4>3 DEF InCache
      <4>. QED
        BY <3>3, <4>2, <4>4 DEF SameShared
    <3>12. Done(x, r, d, J \cup {i})
      BY <2>1, <2>2, <3>3, <3>7, <3>8, <3>9, <3>10, <3>11 DEF Done
    <3>. QED
      BY <1>2, <3>3, <3>12 DEF Progress
  <2>9. ASSUME NEW n, ~IsCached(y, i), n.ok, Took(y, n), Got(y, n),
               r = SetShared(n, d, i, y.used)
        PROVE  Progress(x, r, d, J \cup {i})
    <3> DEFINE f == y.used
    <3>1. /\ MemoryOK(n) /\ n.top = y.top /\ n.used = y.used + 1 /\ n.table = y.table
          /\ n.cache = y.cache /\ n.data = y.data /\ f < KHEAP /\ y.used < y.top
      BY <2>9 DEF Took, Got
    <3>2. /\ f \in 1 .. n.used - 1 /\ d \in 1 .. n.used - 1 /\ d # f
          /\ n.used \in x.used .. x.top /\ f \notin 0 .. y.used - 1
      BY <2>2, <3>1, Sizes
    <3>3. r = SetShared(n, d, i, f)
      BY <2>9
    <3>4. SameShared(y, n)
      BY <3>1, SameCaches
    <3>. HIDE DEF f
    <3>5. /\ MemoryOK(r) /\ r.top = n.top /\ r.used = n.used /\ r.ok = n.ok
          /\ r.data = n.data
          /\ r.table[d] = Put(n.table[d], i, KernelEntry(f))
          /\ \A g \in 0 .. n.top - 1 : g # d /\ g # f => r.table[g] = n.table[g]
          /\ InCache(r, i) /\ SharedEntry(r, i) = KernelEntry(f)
          /\ \A j \in Shared : j # i =>
                /\ IsCached(r, j) <=> IsCached(n, j)
                /\ IsCached(n, j) => SharedEntry(r, j) = SharedEntry(n, j)
      BY <3>1, <3>2, <3>3, SetSharedFacts
    <3> DEFINE t == r.table[d]
    <3>6. /\ DOMAIN t = {i} \cup DOMAIN y.table[d] /\ t[i] = KernelEntry(f)
          /\ \A j \in DOMAIN y.table[d] : j # i => t[j] = y.table[d][j]
      <4>1. t = Put(y.table[d], i, KernelEntry(f))
        BY <3>1, <3>5
      <4>. HIDE DEF t
      <4>. QED
        BY <4>1 DEF Put, Over
    <3>7. \A g \in 0 .. y.used - 1 : g # d => r.table[g] = y.table[g]
      <4>1. \A g \in 0 .. y.used - 1 : g \in 0 .. n.top - 1 /\ g # f
        BY <2>2, <3>1, <3>2
      <4>. QED
        BY <3>1, <3>5, <4>1
    <3>8. \A j \in Shared : j # i =>
              /\ IsCached(r, j) <=> IsCached(y, j)
              /\ IsCached(y, j) => SharedEntry(r, j) = SharedEntry(y, j)
      BY <3>4, <3>5 DEF SameShared
    <3>9. ASSUME NEW j \in Shared, IsCached(r, j)
          PROVE  InCache(r, j) /\ SharedEntry(r, j).frame # d
      <4>1. CASE j = i
        <5>1. KernelEntry(f).frame = f
          BY DEF KernelEntry, Entry
        <5>. QED
          BY <3>2, <3>5, <4>1, <5>1
      <4>2. CASE j # i
        <5>1. IsCached(y, j) /\ SharedEntry(r, j) = SharedEntry(y, j)
          BY <3>8, <3>9, <4>2
        <5>2. InCache(y, j) /\ SharedEntry(y, j).frame # d
          BY <2>1, <5>1 DEF Done
        <5> DEFINE g == SharedEntry(y, j).frame
        <5>3. g \in 0 .. y.used - 1 /\ g \in 1 .. r.used - 1
          BY <2>2, <3>1, <3>5, <5>2 DEF InCache
        <5>4. r.table[g] = y.table[g]
          BY <3>7, <5>2, <5>3
        <5>. QED
          BY <3>9, <5>1, <5>2, <5>3, <5>4 DEF InCache
      <4>. QED
        BY <4>1, <4>2
    <3>10. ASSUME NEW j \in J \cup {i}
           PROVE  IsCached(r, j) /\ r.table[d][j] = SharedEntry(r, j)
      <4>1. CASE j = i
        BY <3>5, <3>6, <4>1 DEF InCache
      <4>2. CASE j # i
        <5>1. /\ j \in Shared /\ IsCached(y, j) /\ y.table[d][j] = SharedEntry(y, j)
              /\ j \in DOMAIN y.table[d]
          BY <2>1, <4>2 DEF Done
        <5>. QED
          BY <3>6, <3>8, <4>2, <5>1
      <4>. QED
        BY <4>1, <4>2
    <3>11. DOMAIN r.table[d] = J \cup {i}
      BY <2>1, <3>6 DEF Done
    <3>12. \A g \in 0 .. x.used - 1 : g # d => r.table[g] = x.table[g]
      <4>1. \A g \in 0 .. x.used - 1 : g \in 0 .. y.used - 1
        BY <2>2
      <4>. QED
        BY <2>1, <3>7, <4>1 DEF Done
    <3>13. ~CachesOK(x)
      BY <2>6, <2>9
    <3>14. Done(x, r, d, J \cup {i})
      BY <2>1, <2>2, <3>1, <3>2, <3>5, <3>9, <3>10, <3>11, <3>12, <3>13 DEF Done
    <3>. QED
      BY <2>9, <3>5, <3>14 DEF Progress
  <2>. QED
    BY <2>5, <2>7, <2>8, <2>9
<1>. QED
  BY <1>1, <1>2

-----------------------------------------------------------------------------
(* MapRange, turn after turn. *)
IsRange(f, x, d, pa, va, cache, k) ==
    f = [i \in 0 .. k |->
            IF i = 0 THEN x
            ELSE MapTable(f[i - 1], d, pa + (i - 1) * PtblSize,
                          va + (i - 1) * PtblSize, cache)]

(* MapRange's recursion defines a function. *)
LEMMA RangeExists ==
    ASSUME NEW x, NEW d, NEW pa, NEW va, NEW cache, NEW last \in Nat
    PROVE  \E f : IsRange(f, x, d, pa, va, cache, last)
<1> DEFINE Next1(y, i) == MapTable(y, d, pa + (i - 1) * PtblSize,
                                   va + (i - 1) * PtblSize, cache)
           S == {k \in 0 .. last : \E f : IsRange(f, x, d, pa, va, cache, k)}
<1>1. 0 \in S
  <2> DEFINE f == [i \in 0 .. 0 |-> x]
  <2>1. IsRange(f, x, d, pa, va, cache, 0)
    BY DEF IsRange
  <2>. QED
    BY <2>1
<1>2. ASSUME NEW k \in S, k < last PROVE k + 1 \in S
  <2>0. k \in 0 .. last
    OBVIOUS
  <2>1. PICK f : IsRange(f, x, d, pa, va, cache, k)
    OBVIOUS
  <2> DEFINE g == [i \in 0 .. k + 1 |-> IF i = k + 1 THEN Next1(f[k], k + 1) ELSE f[i]]
  <2>2. ASSUME NEW i \in 0 .. k + 1
        PROVE  g[i] = IF i = 0 THEN x ELSE Next1(g[i - 1], i)
    <3>1. CASE i = k + 1
      <4>1. i # 0 /\ g[i - 1] = f[k] /\ g[i] = Next1(f[k], k + 1)
        BY <2>0, <3>1
      <4>. HIDE DEF g
      <4>. QED
        BY <3>1, <4>1
    <3>2. CASE i # k + 1
      <4>1. i \in 0 .. k /\ g[i] = f[i]
        BY <2>0, <3>2
      <4>2. f[i] = IF i = 0 THEN x ELSE Next1(f[i - 1], i)
        BY <2>1, <4>1 DEF IsRange
      <4>3. i # 0 => g[i - 1] = f[i - 1]
        BY <2>0, <4>1
      <4>. HIDE DEF g
      <4>. QED
        BY <4>1, <4>2, <4>3
    <3>. QED
      BY <3>1, <3>2
  <2>3. IsRange(g, x, d, pa, va, cache, k + 1)
    <3>1. g = [i \in 0 .. k + 1 |-> g[i]]
      OBVIOUS
    <3>. HIDE DEF g
    <3>. QED
      BY <2>2, <3>1 DEF IsRange
  <2>4. k + 1 \in 0 .. last
    BY <1>2, <2>0
  <2>. QED
    BY <2>3, <2>4
<1>3. S = 0 .. last
  <2>. HIDE DEF S
  <2>1. S \in SUBSET (0 .. last)
    BY DEF S
  <2>. QED
    BY <1>1, <1>2, <2>1, UpTo
<1>. QED
  BY <1>3

RangeTurns(f, x, d, pa, va, cache, last) ==
    /\ f[0] = x
    /\ \A i \in 1 .. last :
           f[i] = MapTable(f[i - 1], d, pa + (i - 1) * PtblSize,
                           va + (i - 1) * PtblSize, cache)

(* MapRange is the last value of that function. *)
LEMMA Ranges ==
    ASSUME NEW x, NEW d, NEW pa, NEW va, NEW n, NEW cache,
           NEW last \in Nat, n \div PtblSize = last
    PROVE  \E f : /\ MapRange(x, d, pa, va, n, cache) = f[last]
                  /\ RangeTurns(f, x, d, pa, va, cache, last)
<1> DEFINE f == CHOOSE after : IsRange(after, x, d, pa, va, cache, last)
<1>1. IsRange(f, x, d, pa, va, cache, last)
  BY RangeExists
<1>2. MapRange(x, d, pa, va, n, cache) = f[last]
  BY DEF MapRange, IsRange
<1>. HIDE DEF f
<1>3. f[0] = x
  BY <1>1 DEF IsRange
<1>4. ASSUME NEW i \in 1 .. last
      PROVE  f[i] = MapTable(f[i - 1], d, pa + (i - 1) * PtblSize,
                             va + (i - 1) * PtblSize, cache)
  <2>1. i \in 0 .. last /\ i # 0
    OBVIOUS
  <2>. QED
    BY <1>1, <2>1 DEF IsRange
<1>. QED
  BY <1>2, <1>3, <1>4 DEF RangeTurns

(* Turns for the tables from index base on. *)
LEMMA RangeProgress ==
    ASSUME NEW x, MemoryOK(x), NEW d \in 1 .. x.used - 1, NEW base \in Nat,
           NEW last \in Nat, base .. base + last - 1 \subseteq Shared,
           NEW J \in SUBSET Shared, (base .. base + last - 1) \cap J = {},
           NEW f, Progress(x, f[0], d, J),
           \A i \in 1 .. last : f[i] = Turn(f[i - 1], d, base + i - 1)
    PROVE  Progress(x, f[last], d, J \cup (base .. base + last - 1))
<1> DEFINE To(k) == J \cup (base .. base + k - 1)
           S == {k \in 0 .. last : Progress(x, f[k], d, To(k))}
<1>1. 0 \in S
  <2>1. To(0) = J
    OBVIOUS
  <2>. HIDE DEF To
  <2>. QED
    BY <2>1
<1>2. ASSUME NEW k \in S, k < last PROVE k + 1 \in S
  <2>1. /\ k \in 0 .. last /\ k + 1 \in 1 .. last /\ k + 1 \in 0 .. last
        /\ (k + 1) - 1 = k /\ base + (k + 1) - 1 = base + k
    BY <1>2
  <2> DEFINE i == base + k
             y == f[k]
             r == f[k + 1]
  <2>2. i \in base .. base + last - 1
    BY <1>2, <2>1
  <2>3. i \in Shared /\ i \notin J /\ i \notin base .. base + k - 1
    BY <2>1, <2>2
  <2>4. To(k + 1) = To(k) \cup {i}
    BY <2>1
  <2>5. To(k) \in SUBSET Shared /\ i \notin To(k)
    <3>1. base .. base + k - 1 \subseteq base .. base + last - 1
      BY <2>1
    <3>. QED
      BY <2>3, <3>1
  <2>6. Progress(x, y, d, To(k))
    OBVIOUS
  <2>7. r = Turn(y, d, i)
    BY <2>1
  <2>. HIDE DEF i, y, r, To
  <2>8. Progress(x, r, d, To(k) \cup {i})
    BY <2>3, <2>5, <2>6, <2>7, TurnProgress
  <2>. QED
    BY <2>1, <2>4, <2>8 DEF r
<1>3. last \in S
  <2>. HIDE DEF S
  <2>1. S \in SUBSET (0 .. last)
    BY DEF S
  <2>2. S = 0 .. last
    BY <1>1, <1>2, <2>1, UpTo
  <2>. QED
    BY <2>2
<1>. QED
  BY <1>3

(* A directory that has nothing yet gets the kernel's half. *)

(* vm_map_kernel shares the tables of the kernel's half. *)
LEMMA MapsKernel ==
    ASSUME NEW x, MemoryOK(x), NEW d \in 1 .. x.used - 1,
           Progress(x, x, d, {})
    PROVE  Progress(x, vm_map_kernel(x, d), d, HALF .. HALF + KTABLES - 1)
<1>1. KHEAP \div PtblSize = KTABLES
  BY DEF KTABLES, PDIRE
<1>2. PICK f : /\ MapRange(x, d, 0, KHALF, KHEAP, "kcache") = f[KTABLES]
               /\ RangeTurns(f, x, d, 0, KHALF, "kcache", KTABLES)
  BY <1>1, Constants, Ranges
<1>3. ASSUME NEW i \in 1 .. KTABLES
      PROVE  f[i] = Turn(f[i - 1], d, HALF + i - 1)
  <2> DEFINE j == HALF + i - 1
             k == i - 1
  <2>1. /\ k \in Nat /\ j < IO /\ j = HALF + k /\ j - HALF = k
    BY Constants
  <2>. HIDE DEF j, k
  <2>2. k * PtblSize = PtblSize * k /\ PtblSize * k \in Nat
        /\ PtblSize * j = PtblSize * HALF + PtblSize * k
    BY <2>1, Constants
  <2>3. 0 + k * PtblSize = FirstPage(j)
    BY <2>1, <2>2 DEF FirstPage
  <2>4. KHALF + k * PtblSize = PtblSize * j
    BY <2>2, Constants
  <2>5. CacheOf(j) = "kcache"
    BY <2>1 DEF CacheOf
  <2>6. f[i] = MapTable(f[i - 1], d, 0 + k * PtblSize, KHALF + k * PtblSize, "kcache")
    BY <1>2 DEF RangeTurns, k
  <2>7. f[i] = Turn(f[i - 1], d, j)
    BY <2>3, <2>4, <2>5, <2>6 DEF Turn
  <2>. QED
    BY <2>7 DEF j
<1>4. HALF .. HALF + KTABLES - 1 \subseteq Shared
  BY DEF Shared
<1>5. Progress(x, f[0], d, {})
  BY <1>2 DEF RangeTurns
<1> DEFINE J == {}
           range == HALF .. HALF + KTABLES - 1
<1>6. J \in SUBSET Shared /\ range \cap J = {} /\ J \cup range = range
  OBVIOUS
<1>7. Progress(x, f[0], d, J)
  BY <1>5
<1>. HIDE DEF J
<1>8. Progress(x, f[KTABLES], d, J \cup range)
  BY <1>3, <1>4, <1>6, <1>7, Constants, RangeProgress
<1>. QED
  BY <1>2, <1>6, <1>8 DEF vm_map_kernel

(* vm_map_io, which comes next, shares those of I/O. *)
LEMMA MapsIo ==
    ASSUME NEW x, MemoryOK(x), NEW d \in 1 .. x.used - 1,
           NEW y, Progress(x, y, d, HALF .. HALF + KTABLES - 1)
    PROVE  Progress(x, vm_map_io(y, d), d, Shared)
<1> DEFINE n == VaTop - IO_START
<1>1. n \div PtblSize = IOTABLES
  <2>1. PtblSize * (IO + IOTABLES) = PtblSize * IO + PtblSize * IOTABLES
    BY Constants
  <2>2. n = PtblSize * IOTABLES + 0 /\ 0 \in 0 .. PtblSize - 1
    BY <2>1, Constants
  <2>3. PDIRE(n) = IOTABLES
    BY <2>2, Constants, Page
  <2>. QED
    BY <2>3 DEF PDIRE
<1>. HIDE DEF n
<1>2. PICK f : /\ MapRange(y, d, IO_START, IO_START, n, "iocache") = f[IOTABLES]
               /\ RangeTurns(f, y, d, IO_START, IO_START, "iocache", IOTABLES)
  BY <1>1, Constants, Ranges
<1>3. ASSUME NEW i \in 1 .. IOTABLES
      PROVE  f[i] = Turn(f[i - 1], d, IO + i - 1)
  <2> DEFINE j == IO + i - 1
             k == i - 1
  <2>1. /\ k \in Nat /\ ~(j < IO) /\ j = IO + k
    BY Constants
  <2>. HIDE DEF j, k
  <2>2. k * PtblSize = PtblSize * k /\ PtblSize * k \in Nat
        /\ PtblSize * j = PtblSize * IO + PtblSize * k
    BY <2>1, Constants
  <2>3. IO_START + k * PtblSize = FirstPage(j)
    BY <2>1, <2>2, Constants DEF FirstPage
  <2>4. IO_START + k * PtblSize = PtblSize * j
    BY <2>2, Constants
  <2>5. CacheOf(j) = "iocache"
    BY <2>1 DEF CacheOf
  <2>6. f[i] = MapTable(f[i - 1], d, IO_START + k * PtblSize,
                        IO_START + k * PtblSize, "iocache")
    BY <1>2 DEF RangeTurns, k
  <2> DEFINE a == FirstPage(j)
             b == PtblSize * j
  <2>7. IO_START + k * PtblSize = a /\ IO_START + k * PtblSize = b
    BY <2>3, <2>4
  <2>. HIDE DEF a, b
  <2>8. f[i] = MapTable(f[i - 1], d, a, b, "iocache")
    BY <2>6, <2>7
  <2>9. f[i] = Turn(f[i - 1], d, j)
    BY <2>5, <2>8 DEF Turn, a, b
  <2>. QED
    BY <2>9 DEF j
<1> DEFINE J == HALF .. HALF + KTABLES - 1
           range == IO .. IO + IOTABLES - 1
<1>4. /\ J \in SUBSET Shared /\ range \cap J = {} /\ J \cup range = Shared
      /\ range \subseteq Shared
  BY Constants DEF Shared
<1>5. Progress(x, f[0], d, J)
  BY <1>2 DEF RangeTurns
<1>. HIDE DEF J
<1>6. Progress(x, f[IOTABLES], d, J \cup range)
  BY <1>3, <1>4, <1>5, Constants, RangeProgress
<1>. QED
  BY <1>2, <1>4, <1>6 DEF vm_map_io, n

-----------------------------------------------------------------------------
(* r is x with a new directory d, which has the kernel's half only. *)
NewDir(x, r, d) ==
    /\ x.ok /\ d = x.used /\ x.used < x.top /\ x.used < KHEAP
    /\ MemoryOK(r) /\ r.top = x.top /\ r.used \in x.used + 1 .. x.top
    /\ r.data = x.data
    /\ CachesOK(r) /\ d \notin KFrames(r)
    /\ Sharing(r, d) /\ Half(r, d) = {}
    /\ \A f \in 0 .. x.used - 1 : r.table[f] = x.table[f]
    /\ CachesOK(x) => r.used = x.used + 1 /\ SameShared(x, r)

(* vm_new_pdir makes such a directory, or fails; it fills the caches if they
   are empty. *)
LEMMA NewPdir ==
    ASSUME NEW x, MemoryOK(x), \A i \in Shared : IsCached(x, i) => InCache(x, i),
           NEW r, r = vm_new_pdir(x)
    PROVE  IF r.ok THEN NewDir(x, r, NextFrame(x)) ELSE CachesOK(x) => Took(x, r)
<1> DEFINE n == vm_alloc_pte(x)
           d == NextFrame(x)
<1>1. Took(x, n) /\ Got(x, n)
  BY AllocatesTable
<1>2. r = IF n.ok THEN vm_map_io(vm_map_kernel(n, d), d) ELSE n
  BY DEF vm_new_pdir
<1>. HIDE DEF n, d
<1>3. CASE ~n.ok
  BY <1>1, <1>2, <1>3
<1>4. CASE n.ok
  <2>1. /\ d = x.used /\ x.used < x.top /\ x.used < KHEAP /\ n.used = x.used + 1
        /\ MemoryOK(n) /\ n.top = x.top /\ n.table = x.table /\ n.cache = x.cache
        /\ n.data = x.data /\ x.ok
    BY <1>1, <1>4 DEF Got, Took, d
  <2>2. /\ d \in 1 .. n.used - 1 /\ d \in x.used .. x.top - 1 /\ n.used \in n.used .. n.top
        /\ x.used \in Nat /\ x.top \in Nat
        /\ \A f \in 0 .. x.used - 1 : f \in 0 .. n.used - 1 /\ f # d
        /\ \A f \in 1 .. x.used - 1 : f \in 1 .. n.used - 1 /\ f # d
    BY <2>1, Sizes
  <2>3. SameShared(x, n)
    BY <2>1, SameCaches
  <2>4. ASSUME NEW i \in Shared, IsCached(n, i)
        PROVE  InCache(n, i) /\ SharedEntry(n, i).frame # d
    <3>1. IsCached(x, i) /\ SharedEntry(n, i) = SharedEntry(x, i)
      BY <2>3, <2>4 DEF SameShared
    <3>2. InCache(x, i)
      BY <3>1
    <3>3. SharedEntry(n, i).frame \in 1 .. x.used - 1
      BY <3>1, <3>2 DEF InCache
    <3>. QED
      BY ONLY <2>1, <2>2, <2>4, <3>1, <3>2, <3>3 DEF InCache
  <2>5. DOMAIN n.table[d] = {}
    <3>1. n.table[d] = Absent
      BY ZenonT(60), <2>1, <2>2 DEF MemoryOK
    <3>. QED
      BY <3>1 DEF Absent
  <2>6. Done(n, n, d, {})
    BY <2>1, <2>2, <2>4, <2>5, SameCaches DEF Done
  <2>7. Progress(n, n, d, {})
    BY <1>4, <2>6 DEF Progress
  <2>8. Progress(n, vm_map_kernel(n, d), d, HALF .. HALF + KTABLES - 1)
    BY <2>1, <2>2, <2>7, MapsKernel
  <2>9. Progress(n, vm_map_io(vm_map_kernel(n, d), d), d, Shared)
    BY <2>1, <2>2, <2>8, MapsIo
  <2>10. Progress(n, r, d, Shared)
    BY <1>2, <1>4, <2>9
  <2>11. CachesOK(x) => CachesOK(n)
    BY <2>4, <2>3 DEF CachesOK, InCache, SameShared
  <2>12. CASE ~r.ok
    BY <2>10, <2>11, <2>12 DEF Progress
  <2>13. CASE r.ok
    <3>1. Done(n, r, d, Shared)
      BY <2>10, <2>13 DEF Progress
    <3>2. CachesOK(r) /\ d \notin KFrames(r)
      BY <3>1 DEF Done, CachesOK, KFrames
    <3>3. Sharing(r, d)
      BY <3>1 DEF Done, Sharing
    <3>4. Half(r, d) = {}
      BY <3>1, SharedPlace, Constants DEF Done, Half
    <3>5. \A f \in 0 .. x.used - 1 : r.table[f] = x.table[f]
      BY <2>1, <2>2, <3>1 DEF Done
    <3>6. CachesOK(x) => r.used = x.used + 1 /\ SameShared(x, r)
      BY <2>1, <2>3, <2>11, <3>1 DEF Done, SameShared
    <3>7. NewDir(x, r, d)
      BY <2>1, <3>1, <3>2, <3>3, <3>4, <3>5, <3>6 DEF Done, NewDir
    <3>. QED
      BY <2>13, <3>7 DEF d
  <2>. QED
    BY <2>12, <2>13
<1>. QED
  BY <1>3, <1>4

(* A new directory is sound. *)
LEMMA SafeNewDir ==
    ASSUME NEW b, b.kernel \in Nat, NEW x, NEW D, Safe(b, x, D), NEW r, NEW d,
           NewDir(x, r, d), NEW E, E = D \cup {d}
    PROVE  /\ Grew(x, r)
           /\ Safe(b, r, E)
           /\ AllTables(r, E) = AllTables(x, D) \cup {d}
           /\ Closed(b, x, D) => Closed(b, r, E)
<1>1. MemoryOK(x) /\ CachesOK(x) /\ x.used \in Nat /\ x.top \in Nat /\ 1 <= x.used
  BY Sizes DEF Safe
<1>2. Grew(x, r)
  <2>1. r.used \in x.used .. x.top
    BY <1>1 DEF NewDir
  <2>. QED
    BY <1>1, <2>1 DEF NewDir, Grew
<1>3. /\ Safe(b, r, D) /\ AllTables(r, D) = AllTables(x, D)
      /\ Closed(b, x, D) => Closed(b, r, D)
  BY <1>1, <1>2, SafeGrew
<1>4. /\ d \in 1 .. r.used - 1 /\ d \notin 0 .. x.used - 1
  BY <1>1 DEF NewDir
<1>5. AllTables(x, D) \subseteq 0 .. x.used - 1
  BY TablesExist
<1>6. d \notin AllTables(r, D)
  BY <1>3, <1>4, <1>5
<1>7. d \notin KFrames(r) /\ Sharing(r, d) /\ Half(r, d) = {}
  BY DEF NewDir
<1>8. \A c \in D : \A i \in Half(r, c) : r.table[c][i].frame # d
  BY <1>6 DEF AllTables, UserTables
<1>9. Safe(b, r, D \cup {d})
  BY <1>3, <1>4, <1>7, <1>8 DEF Safe, TableOK
<1>10. UserTables(r, D \cup {d}) = UserTables(r, D)
  BY <1>7 DEF UserTables
<1>11. AllTables(r, D \cup {d}) = AllTables(r, D) \cup {d}
  BY <1>10 DEF AllTables
<1>12. ASSUME Closed(b, x, D) PROVE Closed(b, r, D \cup {d})
  <2>1. ASSUME NEW f \in UserTables(r, D), NEW y \in DOMAIN r.table[f]
        PROVE  r.table[f][y].frame # d
    <3>1. UserTables(r, D) \subseteq 0 .. x.used - 1
      BY <1>3, <1>5 DEF AllTables
    <3>2. UserTables(r, D) = UserTables(x, D)
      <4>1. \A c \in D : r.table[c] = x.table[c]
        BY <1>1, <1>2 DEF Safe, Grew
      <4>. QED
        BY <4>1 DEF UserTables, Half
    <3>3. r.table[f] = x.table[f]
      BY <1>2, <3>1 DEF Grew
    <3>4. x.table[f][y].frame \in 0 .. x.used - 1
      BY <2>1, <3>2, <3>3, PagesExist
    <3>. QED
      BY <1>4, <3>3, <3>4
  <2>. QED
    BY <1>3, <1>10, <1>11, <1>12, <2>1 DEF Closed, OwnPages
<1>. QED
  BY <1>2, <1>3, <1>9, <1>11, <1>12


-----------------------------------------------------------------------------
(* Tasks.                                                                  *)

(* Memory that has grown may grow again. *)
LEMMA GrewTwice ==
    ASSUME NEW x, NEW r, NEW s, MemoryOK(x), Grew(x, r), Grew(r, s)
    PROVE  Grew(x, s)
<1>1. x.used \in Nat /\ x.top \in Nat /\ r.used \in Nat /\ r.top = x.top
      /\ r.used \in x.used .. x.top
  BY Sizes DEF Grew
<1>2. s.used \in x.used .. x.top
  BY <1>1 DEF Grew
<1>3. \A f \in 0 .. x.used - 1 : f \in 0 .. r.used - 1
  BY <1>1
<1>. QED
  BY <1>1, <1>2, <1>3 DEF Grew, SameShared

(* The page of a stack, at its own address in a directory that has nothing
   there: nothing that was there before the directory changes. *)
LEMMA StackPage ==
    ASSUME NEW x, MemoryOK(x), NEW u \in Nat, NEW d \in u .. x.used - 1,
           u <= x.used, NEW va, PDIRE(va) \notin DOMAIN x.table[d],
           PDIRE(va) \in 0 .. VaTop, PTBLE(va) \in 0 .. VaTop,
           NEW pa \in 0 .. VaTop - 1,
           NEW r, r = MapUser(x, d, pa, va)
    PROVE  /\ MemoryOK(r) /\ r.top = x.top /\ r.used \in x.used .. x.top
           /\ (r.ok => x.ok /\ x.used < KHEAP)
           /\ SameShared(x, r) /\ r.data = x.data
           /\ \A f \in 0 .. u - 1 : r.table[f] = x.table[f]
<1> DEFINE user == TRUE
           i == PDIRE(va)
           y == PTBLE(va)
           e == Entry(pa, user)
<1>1. user \in BOOLEAN /\ r = vm_map_page(x, d, pa, va, user, None)
  BY DEF MapUser
<1>2. x.used \in Nat /\ x.top \in Nat /\ VaTop \in Nat
      /\ 1 <= x.used /\ x.used <= x.top /\ x.top <= VaTop
  BY Sizes
<1>. HIDE DEF user
<1>3. \/ ~r.ok /\ Took(x, r)
      \/ \E n : /\ x.ok /\ n.ok /\ Took(x, n) /\ Got(x, n)
                /\ r = NewPage(x, n, d, i, y, user, e)
  BY <1>1, MapPage
<1>4. IsEntry(e) /\ i \in 0 .. VaTop /\ y \in 0 .. VaTop
  BY <1>1, EntryIs
<1>. HIDE DEF i, y, e
<1>5. CASE ~r.ok /\ Took(x, r)
  BY <1>2, <1>5, SameCaches DEF Took
<1>6. ASSUME NEW n, x.ok, n.ok, Took(x, n), Got(x, n),
             r = NewPage(x, n, d, i, y, user, e)
      PROVE  /\ MemoryOK(r) /\ r.top = x.top /\ r.used \in x.used .. x.top
             /\ x.ok /\ x.used < KHEAP
             /\ SameShared(x, r) /\ r.data = x.data
             /\ \A f \in 0 .. u - 1 : r.table[f] = x.table[f]
  <2> DEFINE t == Entry(x.used, user)
             q == PutEntry(n, d, i, t)
  <2>1. /\ MemoryOK(n) /\ n.top = x.top /\ n.used = x.used + 1 /\ n.table = x.table
        /\ n.cache = x.cache /\ n.data = x.data /\ x.used < x.top /\ x.used < KHEAP
    BY <1>6 DEF Took, Got
  <2>2. IsEntry(t)
    <3>1. x.used \in 0 .. VaTop - 1
      BY <1>2, <2>1
    <3>. QED
      BY <1>1, <3>1, EntryIs
  <2>3. r = PutEntry(q, x.used, y, e)
    BY <1>6 DEF NewPage
  <2>4. d \in 0 .. n.used - 1 /\ x.used \in 0 .. n.used - 1
    BY <1>2, <2>1
  <2>. HIDE DEF t
  <2>5. q = PutEntry(n, d, i, t)
    OBVIOUS
  <2>. HIDE DEF q
  <2>6. /\ MemoryOK(q) /\ q.top = n.top /\ q.used = n.used /\ q.cache = n.cache
        /\ q.data = n.data
        /\ \A f \in 0 .. n.top - 1 : f # d => q.table[f] = n.table[f]
    <3>1. MemoryOK(n) /\ d \in 0 .. n.used - 1 /\ i \in 0 .. VaTop /\ IsEntry(t)
      BY <1>4, <2>1, <2>2, <2>4
    <3>2. LET o == PutEntry(n, d, i, t)
          IN  /\ MemoryOK(o) /\ o.top = n.top /\ o.used = n.used /\ o.cache = n.cache
              /\ o.data = n.data
              /\ \A f \in 0 .. n.top - 1 : f # d => o.table[f] = n.table[f]
      BY ONLY <3>1, Puts
    <3>. QED
      BY <2>5, <3>2
  <2> DEFINE g == x.used
  <2>7. g \in 0 .. q.used - 1 /\ r = PutEntry(q, g, y, e)
    BY <2>3, <2>4, <2>6
  <2>. HIDE DEF g
  <2>8. /\ MemoryOK(r) /\ r.top = q.top /\ r.used = q.used /\ r.cache = q.cache
        /\ r.data = q.data
        /\ \A f \in 0 .. q.top - 1 : f # g => r.table[f] = q.table[f]
    BY <1>4, <2>6, <2>7, Puts
  <2>9. \A f \in 0 .. u - 1 : f \in 0 .. n.top - 1 /\ f # d /\ f # g
    BY <1>2, <2>1 DEF g
  <2>10. r.used \in x.used .. x.top
    BY <1>2, <2>1, <2>6, <2>8
  <2>11. r.cache = x.cache /\ r.data = x.data
    BY <2>1, <2>6, <2>8
  <2>. QED
    BY <1>6, <2>1, <2>6, <2>8, <2>9, <2>10, <2>11, SameCaches
<1>. QED
  BY <1>3, <1>5, <1>6

(* The frames of a task's structure. *)
Blocks(frames) == [struct : frames, kstack : frames, ctx : frames]

(* The fields of what task_alloc returns, which is a record. *)
IsTask(task) == task = [m |-> task.m, pdir |-> task.pdir, stack |-> task.stack,
                        block |-> task.block, loaded |-> task.loaded]

(* task_alloc, call by call. *)
TaskFrom(x, a, c, n, t, p, r, task) ==
    /\ a = TakeForKernel(x) /\ c = Take(a) /\ n = vm_new_pdir(c) /\ t = Take(n)
    /\ p = MapUser(t, NextFrame(c), NextFrame(n), NextFrame(n))
    /\ r = TakeForKernel(p)
    /\ task.m = r /\ task.pdir = NextFrame(c) /\ task.stack = NextFrame(n)
    /\ task.block = [struct |-> NextFrame(x), kstack |-> NextFrame(a),
                     ctx |-> NextFrame(p)]
    /\ task.loaded = n.ok
    /\ IsTask(task)

(* task_alloc is made of those calls. *)
LEMMA TaskCalls ==
    ASSUME NEW x
    PROVE  \E a, c, n, t, p, r : TaskFrom(x, a, c, n, t, p, r, task_alloc(x))
<1> DEFINE a == TakeForKernel(x)
           c == Take(a)
           n == vm_new_pdir(c)
           t == Take(n)
           p == MapUser(t, NextFrame(c), NextFrame(n), NextFrame(n))
           r == TakeForKernel(p)
<1>1. TaskFrom(x, a, c, n, t, p, r, task_alloc(x))
  BY DEF TaskFrom, IsTask, task_alloc, WithStack, MapUser
<1>. QED
  BY <1>1

(* The stack of the task that task_alloc makes is the first page of its
   directory. *)
StackPut(b, x, E, task) ==
    LET r == task.m
        d == task.pdir
        s == task.stack
    IN  \E t, p : /\ Safe(b, t, E) /\ Grew(x, t) /\ Half(t, d) = {}
                  /\ s \in x.used .. t.used - 1
                  /\ p = MapUser(t, d, s, s) /\ p.ok /\ Took(p, r)

(* What task_alloc makes when it does not fail: a directory that is sound with
   the others, and a frame for the stack that is none of the tables.  The
   structure is in the first of the frames it takes. *)
TaskMade(b, x, D, task) ==
    LET r == task.m
        d == task.pdir
        s == task.stack
    IN  /\ d \in x.used .. r.used - 1
        /\ s \in x.used .. r.used - 1 /\ s < KHEAP
        /\ s \notin AllTables(r, D \cup {d})
        /\ task.block \in Blocks(0 .. x.top - 1)
        /\ task.block \in Blocks(x.used .. r.used - 1)
        /\ task.block.struct = x.used
        /\ Safe(b, r, D \cup {d})
        /\ Closed(b, x, D) => Closed(b, r, D \cup {d})
        /\ StackPut(b, x, D \cup {d}, task)

(* task_alloc makes that, or fails and has only taken frames. *)
LEMMA TaskAlloc ==
    ASSUME NEW b, b.kernel \in Nat, NEW x, NEW D, Safe(b, x, D),
           NEW task, task = task_alloc(x)
    PROVE  /\ Grew(x, task.m) /\ (task.m.ok => x.ok) /\ task.m.data = x.data
           /\ task.pdir \in 0 .. x.top - 1 /\ IsTask(task)
           /\ task.m.ok => TaskMade(b, x, D, task)
<1>1. PICK a, c, n, t, p, r : TaskFrom(x, a, c, n, t, p, r, task)
  BY TaskCalls
<1> DEFINE d == NextFrame(c)
           s == NextFrame(n)
<1>2. /\ a = TakeForKernel(x) /\ c = Take(a) /\ n = vm_new_pdir(c) /\ t = Take(n)
      /\ p = MapUser(t, d, s, s) /\ r = TakeForKernel(p)
      /\ task.m = r /\ task.pdir = d /\ task.stack = s
      /\ task.block = [struct |-> NextFrame(x), kstack |-> NextFrame(a),
                       ctx |-> NextFrame(p)]
      /\ IsTask(task)
  BY <1>1 DEF TaskFrom
<1>. HIDE DEF d, s
<1>3. /\ MemoryOK(x) /\ CachesOK(x) /\ b.kernel <= x.used
      /\ x.used \in Nat /\ x.top \in Nat /\ 1 <= x.used
  BY Sizes DEF Safe
<1>4. Took(x, a) /\ MemoryOK(a)
  BY <1>2, <1>3, TakesForKernel DEF Took
<1>5. Took(a, c) /\ MemoryOK(c)
  BY <1>2, <1>4, Takes DEF Took
<1>6. Took(x, c)
  BY <1>3, <1>4, <1>5, TookTwice
<1>7. Grew(x, c)
  BY <1>6, TookGrew
<1>8. /\ Safe(b, c, D) /\ AllTables(c, D) = AllTables(x, D)
      /\ Closed(b, x, D) => Closed(b, c, D)
  BY <1>3, <1>7, SafeGrew
<1>9. CachesOK(c) /\ c.top = x.top /\ c.used \in x.used .. x.top /\ (c.ok => x.ok)
  BY <1>6, <1>8 DEF Safe, Took
<1>10. IF n.ok THEN NewDir(c, n, d) ELSE Took(c, n)
  <2>1. \A i \in Shared : InCache(c, i)
    BY <1>9 DEF CachesOK
  <2>. QED
    BY <1>2, <1>5, <1>9, <2>1, NewPdir DEF d
<1>11. d \in 0 .. x.top - 1
  BY <1>5, <1>9, Allocates DEF d
<1>12. CASE ~n.ok
  <2>1. Took(c, n) /\ MemoryOK(n)
    BY <1>10, <1>12 DEF Took
  <2>2. Took(n, t) /\ MemoryOK(t) /\ ~t.ok
    BY <1>2, <1>12, <2>1, Takes DEF Took
  <2>3. p = t
    BY <1>2, <2>2 DEF MapUser, vm_map_page
  <2>4. Took(p, r)
    BY <1>2, <2>2, <2>3, TakesForKernel
  <2>5. Took(c, t)
    BY <1>5, <2>1, <2>2, TookTwice
  <2>6. Took(x, t)
    BY <1>3, <1>6, <2>5, TookTwice
  <2>7. Took(x, r)
    BY <1>3, <2>3, <2>4, <2>6, TookTwice
  <2>8. Grew(x, r) /\ ~r.ok /\ r.data = x.data
    BY <2>2, <2>3, <2>4, <2>7, TookGrew DEF Took
  <2>. QED
    BY <1>2, <1>11, <2>8
<1>13. CASE n.ok
  <2> DEFINE E == D \cup {d}
  <2>1. NewDir(c, n, d)
    BY <1>10, <1>13
  <2>2. /\ d = c.used /\ c.used < c.top /\ c.used < KHEAP /\ n.used = c.used + 1
        /\ MemoryOK(n) /\ n.top = c.top /\ Half(n, d) = {} /\ c.ok
    BY <1>9, <2>1 DEF NewDir
  <2>3. /\ Grew(c, n) /\ Safe(b, n, E)
        /\ AllTables(n, E) = AllTables(c, D) \cup {d}
        /\ Closed(b, c, D) => Closed(b, n, E)
    <3>1. E = D \cup {d}
      OBVIOUS
    <3>. HIDE DEF E
    <3>. QED
      BY <1>8, <2>1, <3>1, SafeNewDir
  <2>4. /\ Took(n, t) /\ MemoryOK(t)
        /\ t.ok => s = n.used /\ n.used < n.top /\ t.used = n.used + 1
    BY <1>2, <2>2, Takes DEF Took, s
  <2>5. /\ Grew(n, t) /\ Safe(b, t, E) /\ AllTables(t, E) = AllTables(n, E)
        /\ Closed(b, n, E) => Closed(b, t, E)
    BY <2>2, <2>3, <2>4, TookGrew, SafeGrew
  <2>6. Grew(c, t)
    BY <1>5, <2>3, <2>5, GrewTwice
  <2>7. Grew(x, t)
    BY <1>3, <1>7, <2>6, GrewTwice
  <2>8. c.used \in Nat /\ c.top \in Nat /\ x.used <= c.used /\ KHEAP \in Nat /\ KHALF \in Nat
    BY <1>3, <1>9, Constants
  <2>9. s \in 0 .. x.top - 1 /\ t.data = x.data
    BY <1>6, <1>9, <2>1, <2>2, <2>4, Allocates DEF s, Took, NewDir
(* The kernel has what it has in common with the others: nothing else is mapped
   yet. *)
  <2>10. CASE ~t.ok
    <3>1. p = t
      BY <1>2, <2>10 DEF MapUser, vm_map_page
    <3>2. Took(p, r)
      BY <1>2, <2>4, <3>1, TakesForKernel
    <3>3. Grew(p, r) /\ ~r.ok /\ r.data = x.data
      BY <2>9, <2>10, <3>1, <3>2, TookGrew DEF Took
    <3>4. Grew(x, r)
      BY <1>3, <2>7, <3>1, <3>3, GrewTwice
    <3>. QED
      BY <1>2, <1>11, <3>3, <3>4
  <2>11. CASE t.ok
    <3>1. s = n.used /\ s = c.used + 1 /\ s <= KHEAP /\ t.used = s + 1 /\ s \in Nat
      BY <2>2, <2>4, <2>8, <2>11
    <3>2. s < KHALF
      BY <2>8, <3>1, Constants
    <3>3. PDIRE(s) \in 0 .. HALF - 1 /\ PTBLE(s) \in 0 .. PtblSize - 1
      <4>1. s < PtblSize * HALF /\ HALF \in Nat
        BY <3>2, Constants
      <4>2. PDIRE(s) < HALF
        BY <3>1, <4>1, PageBelow
      <4>. QED
        BY <3>1, <4>1, <4>2, PageParts
    <3>4. PDIRE(s) \in 0 .. VaTop /\ PTBLE(s) \in 0 .. VaTop
      BY <3>3, Constants, Indices
    <3>5. t.table = n.table
      BY <2>4 DEF Took
    <3>6. PDIRE(s) \notin DOMAIN t.table[d]
      BY <2>2, <3>3, <3>5, Constants DEF Half
    <3>7. s \in 0 .. VaTop - 1
      BY <2>2, <2>4, <2>8, <2>11, <3>1, Sizes
    <3>8. d \in c.used .. t.used - 1 /\ c.used <= t.used
      BY <2>2, <2>8, <3>1
    <3>9. /\ MemoryOK(p) /\ p.top = t.top /\ p.used \in t.used .. t.top
          /\ (p.ok => t.used < KHEAP) /\ SameShared(t, p) /\ p.data = t.data
          /\ \A f \in 0 .. c.used - 1 : p.table[f] = t.table[f]
      BY <1>2, <2>4, <2>8, <3>4, <3>6, <3>7, <3>8, StackPage
    <3>10. Grew(c, p)
      <4>1. t.top = c.top /\ t.used \in c.used .. c.top
        BY <2>6 DEF Grew
      <4>2. p.used \in c.used .. c.top
        BY <2>8, <3>9, <4>1
      <4>. QED
        BY <2>6, <3>9, <4>1, <4>2 DEF Grew, SameShared
    <3>11. Took(p, r) /\ MemoryOK(r)
      BY <1>2, <3>9, TakesForKernel DEF Took
    <3>12. Grew(c, r)
      BY <1>5, <3>10, <3>11, TookGrew, GrewTwice
    <3>13. Grew(x, r)
      BY <1>3, <1>7, <3>12, GrewTwice
    <3>14. ASSUME r.ok PROVE TaskMade(b, x, D, task)
      <4>1. p.ok
        BY <3>11, <3>14 DEF Took
      <4>2. s < KHEAP /\ s < KHALF - 1 /\ s \in 0 .. t.used - 1
        BY <2>8, <3>1, <3>9, <4>1, Constants
      <4>3. s >= b.kernel /\ s \notin AllTables(t, E)
        <5>1. AllTables(c, D) \subseteq 0 .. c.used - 1
          BY <1>8, TablesExist
        <5>2. s # d /\ s \notin 0 .. c.used - 1 /\ s >= b.kernel
          BY <1>3, <2>2, <2>8, <3>1
        <5>. QED
          BY <2>3, <2>5, <5>1, <5>2
      <4>4. d \in E
        OBVIOUS
      <4>. HIDE DEF E
      <4>5. /\ Safe(b, p, E) /\ p.used \in t.used .. t.top
            /\ AllTables(p, E) \subseteq AllTables(t, E) \cup (t.used .. p.used - 1)
            /\ Closed(b, t, E) => Closed(b, p, E)
        BY <1>2, <2>5, <3>1, <4>2, <4>3, <4>4, MapsUser
      <4>6. /\ Safe(b, r, E) /\ AllTables(r, E) = AllTables(p, E)
            /\ Closed(b, p, E) => Closed(b, r, E)
        BY <3>9, <3>11, <4>5, TookGrew, SafeGrew
      <4>7. s \notin AllTables(r, E)
        BY <2>8, <3>1, <4>3, <4>5, <4>6
      <4>8. r.used \in p.used .. p.top /\ p.top = x.top /\ p.used \in Nat
        BY <1>9, <2>2, <2>4, <3>9, <3>11, Sizes DEF Took
      <4>9. d \in x.used .. r.used - 1 /\ s \in x.used .. r.used - 1
        BY <1>3, <2>2, <2>8, <3>1, <3>9, <4>8
      <4>10. task.block \in Blocks(0 .. x.top - 1)
        <5>1. NextFrame(x) \in 0 .. x.top - 1
          BY <1>3, Allocates
        <5>2. NextFrame(a) \in 0 .. x.top - 1
          BY <1>4, Allocates DEF Took
        <5>3. NextFrame(p) \in 0 .. x.top - 1
          BY <3>9, <4>8, Allocates
        <5>. QED
          BY <1>2, <5>1, <5>2, <5>3 DEF Blocks
      <4>11. Closed(b, x, D) => Closed(b, r, E)
        BY <1>8, <2>3, <2>5, <4>5, <4>6
      <4>12. task.block \in Blocks(x.used .. r.used - 1) /\ task.block.struct = x.used
        <5>1. /\ c.ok => NextFrame(a) = a.used /\ c.used = a.used + 1
              /\ Took(x, a) /\ Got(x, a) /\ Got(p, r)
          BY <1>2, <1>3, <1>4, <3>9, Takes, TakesForKernel
        <5>2. a.ok /\ c.ok
          BY <1>5, <2>2 DEF Took
        <5>3. /\ NextFrame(x) = x.used /\ a.used = x.used + 1
              /\ NextFrame(a) = a.used /\ c.used = a.used + 1
              /\ NextFrame(p) = p.used /\ r.used = p.used + 1
          BY <3>14, <5>1, <5>2 DEF Got
        <5>4. c.used <= p.used
          BY <2>2, <2>8, <3>1, <3>9, <4>8
        <5>5. /\ NextFrame(x) \in x.used .. r.used - 1
              /\ NextFrame(a) \in x.used .. r.used - 1
              /\ NextFrame(p) \in x.used .. r.used - 1
          BY <1>3, <4>8, <5>3, <5>4
        <5>. QED
          BY <1>2, <5>3, <5>5 DEF Blocks
      <4>13. StackPut(b, x, E, task)
        <5>1. Half(t, d) = {}
          BY <2>2, <3>5 DEF Half
        <5>2. s \in x.used .. t.used - 1
          BY <1>3, <2>8, <3>1
        <5>. QED
          BY <1>2, <2>5, <2>7, <3>11, <4>1, <5>1, <5>2 DEF StackPut
      <4>. QED
        BY <1>2, <4>2, <4>6, <4>7, <4>9, <4>10, <4>11, <4>12, <4>13 DEF TaskMade, E
    <3>15. (r.ok => x.ok) /\ r.data = x.data
      BY <1>9, <2>2, <2>9, <3>9, <3>11 DEF Took
    <3>. QED
      BY <1>2, <1>11, <3>13, <3>14, <3>15
  <2>. QED
    BY <2>10, <2>11
<1>. QED
  BY <1>12, <1>13

(* What is closed depends on the tables alone. *)
LEMMA ClosedElse ==
    ASSUME NEW b, NEW x, NEW D, NEW r, KFrames(r) = KFrames(x),
           \A f \in D \cup UserTables(x, D) : r.table[f] = x.table[f]
    PROVE  AllTables(r, D) = AllTables(x, D) /\ (Closed(b, x, D) => Closed(b, r, D))
<1>1. \A d \in D : r.table[d] = x.table[d] /\ Half(r, d) = Half(x, d)
  BY DEF Half
<1>2. UserTables(r, D) = UserTables(x, D)
  BY <1>1 DEF UserTables
<1>3. AllTables(r, D) = AllTables(x, D)
  BY <1>2 DEF AllTables
<1>4. ASSUME Closed(b, x, D) PROVE Closed(b, r, D)
  BY <1>2, <1>3, <1>4 DEF Closed, OwnPages
<1>. QED
  BY <1>3, <1>4

(* A child's directory starts as its parent's. *)
CopyTable(x, d, p) == [x EXCEPT !.table[d] = x.table[p]]

(* A directory that gets the tables of another is as sound as that one. *)
LEMMA Inherits ==
    ASSUME NEW b, NEW x, NEW E, Safe(b, x, E), NEW d \in E, NEW p \in E,
           NEW r, r = CopyTable(x, d, p)
    PROVE  /\ Safe(b, r, E) /\ r.used = x.used /\ r.top = x.top /\ r.ok = x.ok
           /\ \A f \in 0 .. x.top - 1 : f # d => r.table[f] = x.table[f]
           /\ r.table[d] = x.table[p]
           /\ AllTables(r, E) \subseteq AllTables(x, E)
           /\ Closed(b, x, E) => Closed(b, r, E)
<1>1. /\ MemoryOK(x) /\ x.used \in Nat /\ x.top \in Nat /\ x.used <= x.top
      /\ d \in 1 .. x.used - 1 /\ p \in 1 .. x.used - 1 /\ d \notin KFrames(x)
      /\ \A f \in 0 .. x.used - 1 : f \in 0 .. x.top - 1
  BY Sizes DEF Safe
<1>2. /\ d \in 0 .. x.top - 1 /\ d \notin x.used .. x.top - 1 /\ p \in 0 .. x.top - 1
      /\ d # 0 /\ 0 \in 0 .. x.top - 1
      /\ \A f \in x.used .. x.top - 1 : f \in 0 .. x.top - 1 /\ f # d
  BY <1>1
<1> DEFINE tables == [x.table EXCEPT ![d] = x.table[p]]
<1>3. /\ IsMemory(r) /\ r.table = tables
      /\ r.top = x.top /\ r.used = x.used /\ r.ok = x.ok
      /\ r.stuck = x.stuck /\ r.cache = x.cache /\ r.data = x.data
  BY <1>1 DEF MemoryOK, IsMemory, CopyTable
<1>4. /\ tables = [f \in 0 .. x.top - 1 |-> tables[f]]
      /\ tables[d] = x.table[p]
      /\ \A f \in 0 .. x.top - 1 : f # d => tables[f] = x.table[f]
  BY <1>1, <1>2 DEF MemoryOK
<1>. HIDE DEF tables
<1>5. MemoryOK(r)
  <2>1. \A f \in 0 .. x.top - 1 : IsPages(tables[f])
    BY <1>1, <1>2, <1>4 DEF MemoryOK
  <2>2. \A f \in x.used .. x.top - 1 : tables[f] = Absent
    BY <1>1, <1>2, <1>4 DEF MemoryOK
  <2>. QED
    BY <1>1, <1>3, <1>4, <2>1, <2>2 DEF MemoryOK
<1>6. /\ \A j \in Shared : SharedEntry(r, j) = SharedEntry(x, j)
      /\ \A j \in Shared : IsCached(r, j) <=> IsCached(x, j)
      /\ KFrames(r) = KFrames(x)
  BY <1>3, SameCaches, SameFrames DEF SameShared
<1>7. CachesOK(r)
  <2>1. ASSUME NEW j \in Shared PROVE InCache(r, j)
    <3>1. InCache(x, j) /\ SharedEntry(x, j).frame \in KFrames(x)
      BY DEF Safe, CachesOK, KFrames
    <3>2. SharedEntry(x, j).frame \in 0 .. x.top - 1 /\ SharedEntry(x, j).frame # d
      BY <1>1, <3>1 DEF InCache
    <3>. QED
      BY <1>3, <1>4, <1>6, <3>1, <3>2 DEF InCache
  <2>. QED
    BY <2>1 DEF CachesOK
<1>8. \A j : \A f \in 0 .. x.used - 1 : f # d /\ PagesOK(x, j, f) => PagesOK(r, j, f)
  BY <1>1, <1>3, <1>4 DEF PagesOK
<1>9. PagesOK(r, PDIRE(b.start), 0)
  <2>1. 0 \in 0 .. x.used - 1 /\ PagesOK(x, PDIRE(b.start), 0)
    BY <1>1, Sizes DEF Safe
  <2>. QED
    BY <1>2, <1>8, <2>1
(* Each directory in r is one in x. *)
<1>10. ASSUME NEW c \in E
       PROVE  \E a \in E : r.table[c] = x.table[a] /\ Half(r, c) = Half(x, a)
  <2>1. CASE c = d
    <3>1. p \in E /\ r.table[c] = x.table[p]
      BY <1>3, <1>4, <2>1
    <3>. QED
      BY <3>1 DEF Half
  <2>2. CASE c # d
    <3>1. c \in 0 .. x.top - 1
      BY <1>1 DEF Safe
    <3>2. r.table[c] = x.table[c]
      BY <1>3, <1>4, <2>2, <3>1
    <3>. QED
      BY <3>2 DEF Half
  <2>. QED
    BY <2>1, <2>2
<1>11. ASSUME NEW a \in E, NEW i \in Half(x, a)
       PROVE  TableOK(b, r, E, i, x.table[a][i].frame)
  <2> DEFINE f == x.table[a][i].frame
  <2>1. TableOK(b, x, E, i, f)
    BY DEF Safe
  <2>2. d \in E
    OBVIOUS
  <2>. HIDE DEF f
  <2>3. TableOK(b, r, E, i, f)
    BY <1>3, <1>6, <1>8, <2>1, <2>2 DEF TableOK
  <2>. QED
    BY <2>3 DEF f
<1>12. \A c \in E : c \in 1 .. r.used - 1 /\ c \notin KFrames(r) /\ Sharing(r, c)
  <2>. TAKE c \in E
  <2>1. PICK a \in E : r.table[c] = x.table[a] /\ Half(r, c) = Half(x, a)
    BY <1>10
  <2>2. Sharing(x, a) /\ c \in 1 .. x.used - 1 /\ c \notin KFrames(x)
    BY DEF Safe
  <2>. QED
    BY <1>3, <1>6, <2>1, <2>2 DEF Sharing
<1>13. \A c \in E : \A i \in Half(r, c) : TableOK(b, r, E, i, r.table[c][i].frame)
  BY <1>10, <1>11
<1>14. \A c, e \in E : \A i \in Half(r, c), j \in Half(r, e) :
           r.table[c][i].frame = r.table[e][j].frame => i = j
  <2>. TAKE c, e \in E
  <2>1. PICK a \in E : r.table[c] = x.table[a] /\ Half(r, c) = Half(x, a)
    BY <1>10
  <2>2. PICK o \in E : r.table[e] = x.table[o] /\ Half(r, e) = Half(x, o)
    BY <1>10
  <2>. QED
    BY <2>1, <2>2 DEF Safe
<1>15. Safe(b, r, E)
  BY <1>3, <1>5, <1>7, <1>9, <1>12, <1>13, <1>14 DEF Safe
<1>16. UserTables(r, E) \subseteq UserTables(x, E)
  BY <1>10 DEF UserTables
<1>17. AllTables(r, E) \subseteq AllTables(x, E)
  BY <1>6, <1>16 DEF AllTables
<1>18. ASSUME Closed(b, x, E) PROVE Closed(b, r, E)
  <2>1. ASSUME NEW f \in UserTables(x, E)
        PROVE  f # 0 /\ f < KHEAP /\ OwnPages(b, r, E, f)
    <3>1. f # 0 /\ f < KHEAP /\ OwnPages(b, x, E, f) /\ f \in 0 .. x.used - 1
      BY <1>18, TablesExist DEF Closed, AllTables
    <3>2. f # d
      BY DEF UserTables, Safe, TableOK
    <3>3. r.table[f] = x.table[f]
      BY <1>1, <1>3, <1>4, <3>1, <3>2
    <3>. QED
      BY <1>17, <3>1, <3>3 DEF OwnPages
  <2>. QED
    BY <1>16, <2>1 DEF Closed
<1>. QED
  BY <1>3, <1>4, <1>15, <1>17, <1>18

(* The frame that a page is copied to, which CopyPage takes, if there is one,
   and fills. *)
CopiedFrame(x, v) == Touch([pm_alloc_frame(x) EXCEPT !.data[NextFrame(x)] = v],
                           NextFrame(x))

(* The frame is new, unless memory has run out. *)
LEMMA CopiesFrame ==
    ASSUME NEW x, MemoryOK(x), NEW v \in Values, NEW a, a = CopiedFrame(x, v)
    PROVE  LET f == NextFrame(x)
           IN  /\ Grew(x, a) /\ MemoryOK(a) /\ (a.ok => x.ok /\ ~(f >= KHEAP))
               /\ a.table = x.table
               /\ f \in 0 .. a.used - 1
               /\ a.used < a.top => f = x.used
<1> DEFINE f == NextFrame(x)
           q == pm_alloc_frame(x)
           z == [q EXCEPT !.data[f] = v]
<1>1. /\ Took(x, q) /\ q.ok = x.ok /\ f \in 0 .. x.top - 1
      /\ x.used < x.top => f = x.used /\ q.used = x.used + 1
      /\ ~(x.used < x.top) => f = 0 /\ q = x
  BY Allocates
<1>2. a = Touch(z, f)
  BY DEF CopiedFrame
<1>3. x.used \in Nat /\ x.top \in Nat /\ 1 <= x.used /\ x.used <= x.top
  BY Sizes
<1>. HIDE DEF f, q
<1>4. MemoryOK(q) /\ Grew(x, q) /\ q.table = x.table /\ q.top = x.top
  BY <1>1, TookGrew DEF Took
<1>5. z = [q EXCEPT !.data[f] = v]
  OBVIOUS
<1>. HIDE DEF z
<1>6. Grew(q, z) /\ z.ok = q.ok /\ z.used = q.used /\ z.table = q.table
  BY <1>4, <1>5, Fills
<1>7. MemoryOK(z) /\ z.top = q.top
  BY <1>6 DEF Grew
<1>8. /\ Took(z, a) /\ a.used = z.used /\ (a.ok => a = z /\ ~(f >= KHEAP))
  BY <1>2, <1>7, Touches
<1>9. Grew(z, a) /\ MemoryOK(a) /\ a.table = z.table /\ a.top = z.top
  BY <1>8, TookGrew DEF Took
<1>10. Grew(x, z)
  BY <1>4, <1>6, GrewTwice
<1>11. Grew(x, a)
  BY <1>9, <1>10, GrewTwice
<1>12. f \in 0 .. a.used - 1
  BY <1>1, <1>3, <1>6, <1>8
<1>13. a.used < a.top => f = x.used
  BY <1>1, <1>3, <1>4, <1>6, <1>7, <1>8, <1>9
<1>. QED
  BY <1>1, <1>4, <1>6, <1>8, <1>9, <1>11, <1>12, <1>13 DEF f

(* What a turn of task_copy_vm's loop leaves: E has the child's directory d,
   and D has the others.  If there is memory left, what was closed is; with the
   child only if the child is complete. *)
CopyOK(b, D, E, x) ==
    x.used < x.top => Closed(b, x, D) /\ (x.ok => Closed(b, x, E))

Copies(b, D, E, d, x, r) ==
    /\ Safe(b, r, E) /\ r.used \in x.used .. x.top /\ (r.ok => x.ok)
    /\ DOMAIN r.table[d] = DOMAIN x.table[d]
    /\ AllTables(r, E) \subseteq AllTables(x, E) \cup {0} \cup (x.used .. r.used - 1)
    /\ CopyOK(b, D, E, x) => CopyOK(b, D, E, r)

(* A page is put in the table that the child has for it. *)
LEMMA CopiesPage ==
    ASSUME NEW b, b.kernel \in Nat, NEW x, NEW E,
           Safe(b, x, E), NEW d \in E, NEW va \in Nat, va < KHALF - 1,
           PDIRE(va) \in DOMAIN x.table[d], NEW user \in BOOLEAN,
           NEW copy \in 0 .. x.used - 1,
           NEW r, r = PutEntry(x, x.table[d][PDIRE(va)].frame, PTBLE(va),
                               Entry(copy, user))
    PROVE  /\ Safe(b, r, E) /\ r.used = x.used /\ r.ok = x.ok
           /\ DOMAIN r.table[d] = DOMAIN x.table[d]
           /\ AllTables(r, E) = AllTables(x, E)
           /\ /\ Closed(b, x, E)
              /\ copy >= b.kernel /\ copy < KHEAP /\ copy \notin AllTables(x, E)
              => Closed(b, r, E)
<1> DEFINE i == PDIRE(va)
           y == PTBLE(va)
           e == Entry(copy, user)
           g == x.table[d][i].frame
<1>1. /\ i \in 0 .. HALF - 1 /\ y \in 0 .. PtblSize - 1
      /\ ~(i = HALF - 1 /\ y = PtblSize - 1)
  BY LastPage, PageParts
<1>2. IsEntry(e) /\ e.frame = copy
  <2>1. copy \in 0 .. VaTop - 1
    BY Sizes DEF Safe
  <2>. QED
    BY <2>1, EntryIs
<1>3. i \in Half(x, d)
  BY <1>1, Constants DEF Half
<1>4. r = PutEntry(x, g, y, e) /\ g = x.table[d][i].frame
  OBVIOUS
<1>. HIDE DEF i, y, e, g
<1>5. e.frame \in 0 .. x.used - 1
  BY <1>2
<1>6. /\ Safe(b, r, E) /\ r.used = x.used /\ r.ok = x.ok
      /\ \A c \in E : r.table[c] = x.table[c]
      /\ AllTables(r, E) = AllTables(x, E)
      /\ /\ Closed(b, x, E)
         /\ e.frame >= b.kernel /\ e.frame < KHEAP
         /\ e.frame \notin AllTables(x, E)
         => Closed(b, r, E)
  BY <1>1, <1>2, <1>3, <1>4, <1>5, SafePage
<1>. QED
  BY <1>2, <1>6

(* Any turn but the first. *)
NextCopy(x, d, va, user, v) ==
    LET a == CopiedFrame(x, v)
    IN  IF ~x.ok THEN x ELSE IF ~a.ok THEN a
        ELSE PutEntry(a, a.table[d][PDIRE(va)].frame, PTBLE(va),
                      Entry(NextFrame(x), user))

(* A turn that finds the child's table keeps memory sound. *)
LEMMA CopiesNext ==
    ASSUME NEW b, b.kernel \in Nat, NEW x, NEW D, NEW E, D \subseteq E,
           Safe(b, x, E), NEW d \in E, NEW va \in Nat, va < KHALF - 1,
           PDIRE(va) \in DOMAIN x.table[d], NEW user \in BOOLEAN, NEW v \in Values,
           NEW r, r = NextCopy(x, d, va, user, v)
    PROVE  Copies(b, D, E, d, x, r)
<1> DEFINE a == CopiedFrame(x, v)
           f == NextFrame(x)
           s == PutEntry(a, a.table[d][PDIRE(va)].frame, PTBLE(va), Entry(f, user))
<1>1. MemoryOK(x) /\ x.used \in Nat /\ x.top \in Nat /\ x.used <= x.top
      /\ b.kernel <= x.used /\ d \in 0 .. x.used - 1
  BY Sizes DEF Safe
<1>2. /\ Grew(x, a) /\ MemoryOK(a) /\ (a.ok => x.ok /\ ~(f >= KHEAP))
      /\ a.table = x.table
      /\ f \in 0 .. a.used - 1
      /\ a.used < a.top => f = x.used
  BY <1>1, CopiesFrame
<1>3. r = IF ~x.ok THEN x ELSE IF ~a.ok THEN a ELSE s
  BY DEF NextCopy
<1>. HIDE DEF a, f, s
<1>4. /\ Safe(b, a, E) /\ AllTables(a, E) = AllTables(x, E)
      /\ Closed(b, x, E) => Closed(b, a, E)
  BY <1>1, <1>2, SafeGrew
<1>5. a.top = x.top /\ a.used \in x.used .. x.top
  BY <1>2 DEF Grew
<1>6. Closed(b, x, D) => Closed(b, a, D)
  <2>1. Safe(b, x, D)
    BY SafeSubset
  <2>. QED
    BY <1>1, <1>2, <2>1, SafeGrew
<1>7. CASE ~x.ok
  <2>1. x.used \in x.used .. x.top
    BY <1>1
  <2>. QED
    BY <1>3, <1>7, <2>1 DEF Copies
<1>8. CASE x.ok /\ ~a.ok
  <2>1. CopyOK(b, D, E, x) => CopyOK(b, D, E, a)
    BY <1>1, <1>5, <1>6, <1>8 DEF CopyOK
  <2>. QED
    BY <1>2, <1>3, <1>4, <1>5, <1>8, <2>1 DEF Copies
<1>9. CASE x.ok /\ a.ok
  <2>1. PDIRE(va) \in DOMAIN a.table[d]
    BY <1>2
  <2>2. /\ Safe(b, s, E) /\ s.used = a.used /\ s.ok = a.ok
        /\ DOMAIN s.table[d] = DOMAIN a.table[d]
        /\ AllTables(s, E) = AllTables(a, E)
        /\ /\ Closed(b, a, E)
           /\ f >= b.kernel /\ f < KHEAP /\ f \notin AllTables(a, E)
           => Closed(b, s, E)
    <3>1. s = PutEntry(a, a.table[d][PDIRE(va)].frame, PTBLE(va), Entry(f, user))
      BY DEF s
    <3>2. Safe(b, a, E) /\ f \in 0 .. a.used - 1
      BY <1>2, <1>4
    <3>. QED
      BY <2>1, <3>1, <3>2, CopiesPage
  <2>3. s.top = x.top
    BY <1>4, <1>5, <2>2 DEF Safe
  <2>4. ASSUME CopyOK(b, D, E, x), s.used < s.top
        PROVE  Closed(b, s, E) /\ Closed(b, s, D)
    <3>1. f = x.used /\ x.used < x.top
      BY <1>1, <1>2, <1>5, <2>2, <2>3, <2>4
    <3>2. AllTables(x, E) \subseteq 0 .. x.used - 1
      BY TablesExist
    <3>3. f >= b.kernel /\ f < KHEAP /\ f \notin AllTables(a, E)
      BY <1>1, <1>2, <1>4, <1>9, <3>1, <3>2, Constants
    <3>4. Closed(b, x, E)
      BY <1>9, <2>4, <3>1 DEF CopyOK
    <3>5. Closed(b, s, E)
      BY <1>4, <2>2, <3>3, <3>4
    <3>. QED
      BY <3>5, ClosedSubset
  <2>5. r = s
    BY <1>3, <1>9
  <2>6. CopyOK(b, D, E, x) => CopyOK(b, D, E, s)
    BY <2>4 DEF CopyOK
  <2>. QED
    BY <1>2, <1>4, <1>5, <1>9, <2>2, <2>5, <2>6 DEF Copies
<1>. QED
  BY <1>7, <1>8, <1>9

(* The first turn, which also gives the child a table of its own for the page,
   where the image starts. *)
FirstTable(x, d, va, owner, v) ==
    LET a == CopiedFrame(x, v)
    IN  PutEntry(pm_alloc_frame(a), d, PDIRE(va), Entry(NextFrame(a), owner))

FirstCopy(x, d, va, owner, user, v) ==
    LET a == CopiedFrame(x, v)
        z == Touch(FirstTable(x, d, va, owner, v), NextFrame(a))
    IN  IF ~x.ok THEN x ELSE IF ~a.ok THEN a ELSE IF ~z.ok THEN z
        ELSE PutEntry(z, NextFrame(a), PTBLE(va), Entry(NextFrame(x), user))

(* The first turn, which makes the table, keeps memory sound, whether or not
   there are frames left for it. *)
LEMMA CopiesFirst ==
    ASSUME NEW b, b.kernel \in Nat, NEW x, NEW D, NEW E, D \subseteq E,
           Safe(b, x, E), NEW d \in E, d \notin D, NEW va \in Nat, va < KHALF - 1,
           PDIRE(va) = PDIRE(b.start),
           PDIRE(va) \in DOMAIN x.table[d], NEW owner \in BOOLEAN,
           NEW user \in BOOLEAN, NEW v \in Values,
           NEW r, r = FirstCopy(x, d, va, owner, user, v)
    PROVE  Copies(b, D, E, d, x, r)
<1> DEFINE a == CopiedFrame(x, v)
           copy == NextFrame(x)
           f == NextFrame(a)
           i == PDIRE(va)
           q == pm_alloc_frame(a)
           n == FirstTable(x, d, va, owner, v)
           z == Touch(n, f)
           s == PutEntry(z, f, PTBLE(va), Entry(copy, user))
<1>1. MemoryOK(x) /\ x.used \in Nat /\ x.top \in Nat /\ 1 <= x.used /\ x.used <= x.top
      /\ b.kernel <= x.used /\ d \in 0 .. x.used - 1
  BY Sizes DEF Safe
<1>2. /\ Grew(x, a) /\ MemoryOK(a) /\ (a.ok => x.ok /\ ~(copy >= KHEAP))
      /\ a.table = x.table
      /\ copy \in 0 .. a.used - 1
      /\ a.used < a.top => copy = x.used
  BY <1>1, CopiesFrame
<1>3. r = IF ~x.ok THEN x ELSE IF ~a.ok THEN a ELSE IF ~z.ok THEN z ELSE s
  BY DEF FirstCopy
<1>4. i \in 0 .. HALF - 1
  BY LastPage
<1>5. n = PutEntry(q, d, i, Entry(f, owner))
  BY DEF FirstTable
<1>6. /\ Took(a, q) /\ q.ok = a.ok
      /\ f \in 0 .. a.top - 1
      /\ a.used < a.top => f = a.used /\ q.used = a.used + 1
      /\ ~(a.used < a.top) => f = 0 /\ q = a
  BY <1>2, Allocates
<1>7. i = PDIRE(b.start) /\ i \in DOMAIN x.table[d]
  OBVIOUS
<1>8. s = PutEntry(z, f, PTBLE(va), Entry(copy, user)) /\ z = Touch(n, f) /\ i = PDIRE(va)
  OBVIOUS
<1>. HIDE DEF a, copy, f, i, q, n, s, z
<1>9. /\ Safe(b, a, E) /\ AllTables(a, E) = AllTables(x, E)
      /\ Closed(b, x, E) => Closed(b, a, E)
  BY <1>1, <1>2, SafeGrew
<1>10. a.top = x.top /\ a.used \in x.used .. x.top /\ a.used \in Nat /\ 1 <= a.used
  BY <1>1, <1>2 DEF Grew
<1>11. Safe(b, x, D)
  BY SafeSubset
<1>12. Closed(b, x, D) => Closed(b, a, D)
  BY <1>1, <1>2, <1>11, SafeGrew
<1>13. CASE ~x.ok
  <2>1. x.used \in x.used .. x.top
    BY <1>1
  <2>. QED
    BY <1>3, <1>13, <2>1 DEF Copies
<1>14. CASE x.ok /\ ~a.ok
  <2>1. CopyOK(b, D, E, x) => CopyOK(b, D, E, a)
    BY <1>1, <1>10, <1>12, <1>14 DEF CopyOK
  <2>. QED
    BY <1>2, <1>3, <1>9, <1>10, <1>14, <2>1 DEF Copies
<1>15. CASE x.ok /\ a.ok
  <2>1. Grew(a, q) /\ MemoryOK(q) /\ q.table = a.table /\ q.top = a.top
        /\ q.used \in a.used .. a.top
    BY <1>6, TookGrew DEF Took
  <2>2. /\ Safe(b, q, E) /\ AllTables(q, E) = AllTables(a, E)
        /\ Closed(b, a, E) => Closed(b, q, E)
    BY <1>2, <1>9, <2>1, SafeGrew
  <2>3. Closed(b, a, D) => Closed(b, q, D)
    <3>1. Safe(b, a, D)
      BY <1>9, SafeSubset
    <3>. QED
      BY <1>2, <2>1, <3>1, SafeGrew
  <2>4. AllTables(a, E) \subseteq 0 .. x.used - 1
    BY <1>9, TablesExist
  <2>5. \/ f = 0 /\ i = PDIRE(b.start)
        \/ f \in 1 .. q.used - 1 /\ f \notin AllTables(q, E) /\ q.table[f] = Absent
    <3>1. CASE a.used < a.top
      <4>1. f \in 1 .. q.used - 1 /\ f \in a.used .. a.top - 1 /\ f \notin 0 .. x.used - 1
        BY <1>1, <1>6, <1>10, <3>1
      <4>2. q.table[f] = Absent
        BY <1>2, <2>1, <4>1 DEF MemoryOK
      <4>. QED
        BY <2>2, <2>4, <4>1, <4>2
    <3>. QED
      BY <1>6, <1>7, <3>1
  <2>6. /\ Safe(b, n, E) /\ n.used = q.used /\ n.ok = q.ok
        /\ i \in Half(n, d) /\ n.table[d][i].frame = f
        /\ DOMAIN n.table[d] = {i} \cup DOMAIN q.table[d]
        /\ AllTables(n, E) \subseteq AllTables(q, E) \cup {f}
        /\ \A c \in 0 .. q.top - 1 : c # d => n.table[c] = q.table[c]
        /\ /\ Closed(b, q, E) /\ f # 0 /\ f < KHEAP
           /\ \A g \in UserTables(q, E) : \A y \in DOMAIN q.table[g] :
                  q.table[g][y].frame # f
           => Closed(b, n, E)
    BY <1>4, <1>5, <2>2, <2>5, SafeTable
  <2>7. MemoryOK(n) /\ n.top = q.top /\ KFrames(n) = KFrames(q)
    <3>1. n.top = q.top /\ MemoryOK(n)
      BY <2>2, <2>6 DEF Safe
    <3>2. n.cache = q.cache
      BY <1>5, <2>1 DEF PutEntry, MemoryOK, IsMemory
    <3>. QED
      BY <3>1, <3>2, SameCaches, SameFrames
  <2>8. Closed(b, q, D) => Closed(b, n, D)
    <3>1. ASSUME NEW g \in D \cup UserTables(q, D) PROVE n.table[g] = q.table[g]
      <4>1. g # d
        <5>1. CASE g \in D
          BY <5>1
        <5>2. CASE g \in UserTables(q, D)
          BY <2>2, <5>2 DEF UserTables, Safe, TableOK
        <5>. QED
          BY <5>1, <5>2
      <4>2. g \in 0 .. q.top - 1
        <5>1. Safe(b, q, D)
          BY <2>2, SafeSubset
        <5>2. g \in 0 .. q.used - 1
          BY <5>1, TablesExist DEF AllTables
        <5>. QED
          BY <2>1, <5>2, Sizes
      <4>. QED
        BY <2>6, <4>1, <4>2
    <3>. QED
      BY <2>7, <3>1, ClosedElse
  <2>9. /\ Took(n, z) /\ z.used = n.used
        /\ z.ok => z = n /\ ~(f >= KHEAP)
    BY <1>8, <2>7, Touches
  <2>10. Grew(n, z) /\ z.table = n.table /\ z.top = n.top /\ MemoryOK(z)
    BY <2>9, TookGrew DEF Took
  <2>11. /\ Safe(b, z, E) /\ AllTables(z, E) = AllTables(n, E)
         /\ Closed(b, n, D) => Closed(b, z, D)
    <3>1. Safe(b, n, D)
      BY <2>6, SafeSubset
    <3>. QED
      BY <2>6, <2>7, <2>10, <3>1, SafeGrew
  <2>12. DOMAIN z.table[d] = DOMAIN x.table[d]
    BY <1>2, <1>7, <2>1, <2>6, <2>10
  <2>13. AllTables(z, E) \subseteq AllTables(x, E) \cup {0} \cup (x.used .. z.used - 1)
    <3>1. f \in {0} \cup (x.used .. z.used - 1)
      BY <1>1, <1>6, <1>10, <2>1, <2>6, <2>9
    <3>. QED
      BY <1>9, <2>2, <2>6, <2>11, <3>1
  <2>14. z.used \in x.used .. x.top /\ z.top = x.top
    BY <1>1, <1>10, <2>1, <2>6, <2>7, <2>9, <2>10
(* If there is memory left, both frames are new. *)
  <2>15. ASSUME z.used < z.top
         PROVE  /\ copy = x.used /\ f = a.used /\ x.used < x.top
                /\ copy < f /\ f # 0
    BY <1>1, <1>2, <1>6, <1>10, <2>1, <2>6, <2>9, <2>14, <2>15
  <2>16. CASE ~z.ok
    <3>1. CopyOK(b, D, E, x) => CopyOK(b, D, E, z)
      BY <1>12, <2>3, <2>8, <2>11, <2>15, <2>16 DEF CopyOK
    <3>2. r = z
      BY <1>3, <1>15, <2>16
    <3>. QED
      BY <1>15, <2>11, <2>12, <2>13, <2>14, <2>16, <3>1, <3>2 DEF Copies
  <2>17. CASE z.ok
    <3>1. z = n /\ ~(f >= KHEAP)
      BY <2>9, <2>17
    <3>2. i \in DOMAIN z.table[d] /\ f = z.table[d][i].frame
      BY <2>6, <3>1 DEF Half
    <3>3. copy \in 0 .. z.used - 1
      BY <1>2, <1>10, <2>1, <2>6, <2>9
    <3>4. PDIRE(va) \in DOMAIN z.table[d]
          /\ s = PutEntry(z, z.table[d][PDIRE(va)].frame, PTBLE(va), Entry(copy, user))
      BY <1>8, <3>2
    <3>5. /\ Safe(b, s, E) /\ s.used = z.used /\ s.ok = z.ok
          /\ DOMAIN s.table[d] = DOMAIN z.table[d]
          /\ AllTables(s, E) = AllTables(z, E)
          /\ /\ Closed(b, z, E)
             /\ copy >= b.kernel /\ copy < KHEAP /\ copy \notin AllTables(z, E)
             => Closed(b, s, E)
      BY <2>11, <3>3, <3>4, CopiesPage
    <3>6. s.top = z.top
      BY <2>11, <3>5 DEF Safe
    <3>7. ASSUME CopyOK(b, D, E, x), s.used < s.top
          PROVE  Closed(b, s, E) /\ Closed(b, s, D)
      <4>1. copy = x.used /\ f = a.used /\ x.used < x.top /\ copy < f /\ f # 0
        BY <2>15, <3>5, <3>6, <3>7
      <4>2. Closed(b, q, E)
        BY <1>9, <1>15, <2>2, <3>7, <4>1 DEF CopyOK
      <4>3. ASSUME NEW g \in UserTables(q, E), NEW y \in DOMAIN q.table[g]
            PROVE  q.table[g][y].frame # f
        <5>1. UserTables(q, E) = UserTables(a, E)
          BY <2>1 DEF UserTables, Half
        <5>2. a.table[g][y].frame \in 0 .. a.used - 1
          BY <1>9, <2>1, <4>3, <5>1, PagesExist
        <5>. QED
          BY <1>10, <2>1, <4>1, <5>2
      <4>4. f < KHEAP /\ copy < KHEAP /\ copy >= b.kernel
        BY <1>1, <1>2, <1>10, <1>15, <3>1, <4>1, Constants
      <4>5. Closed(b, z, E)
        BY <2>6, <3>1, <4>1, <4>2, <4>3, <4>4
      <4>6. copy \notin AllTables(z, E)
        <5>1. copy \notin 0 .. x.used - 1 /\ copy # f
          BY <1>1, <1>10, <4>1
        <5>. QED
          BY <2>2, <2>4, <2>6, <3>1, <5>1
      <4>7. Closed(b, s, E)
        BY <3>5, <4>4, <4>5, <4>6
      <4>. QED
        BY <4>7, ClosedSubset
    <3>8. CopyOK(b, D, E, x) => CopyOK(b, D, E, s)
      BY <3>7 DEF CopyOK
    <3>9. r = s
      BY <1>3, <1>15, <2>17
    <3>. QED
      BY <1>15, <2>12, <2>13, <2>14, <2>17, <3>5, <3>8, <3>9 DEF Copies
  <2>. QED
    BY <2>16, <2>17
<1>. QED
  BY <1>13, <1>14, <1>15

(* CopyPage, by what it reads of the parent. *)
Owner(va) == m.table[pdir[fgtask]][PDIRE(va)].user
PageEntry(va) == m.table[m.table[pdir[fgtask]][PDIRE(va)].frame][PTBLE(va)]
PageUser(va) == PageEntry(va).user
PageFrame(va) == PageEntry(va).frame

(* Nothing is left in the frame that the child's table is to have. *)
CleanTable(x) == Copied # {} => boot.dirt[NextFrame(pm_alloc_frame(x))] = Absent

(* The frame that follows the first copy. *)
LEMMA TableFrame ==
    ASSUME NEW x, MemoryOK(x), NEW v \in Values
    PROVE  NextFrame(CopiedFrame(x, v)) = NextFrame(pm_alloc_frame(x))
<1> DEFINE f == NextFrame(x)
           q == pm_alloc_frame(x)
           z == [q EXCEPT !.data[f] = v]
           a == Touch(z, f)
<1>1. MemoryOK(q) /\ f \in 0 .. q.top - 1
  BY Allocates DEF Took
<1>. HIDE DEF f, q
<1>2. z = [q EXCEPT !.data[f] = v]
  OBVIOUS
<1>. HIDE DEF z
<1>3. Grew(q, z) /\ z.used = q.used /\ MemoryOK(z) /\ z.top = q.top
  BY <1>1, <1>2, Fills DEF Grew
<1>4. a.used = z.used /\ a.top = z.top
  BY <1>3, Touches DEF Took
<1>. QED
  BY <1>3, <1>4 DEF CopiedFrame, NextFrame, f, q, z

(* A table in which nothing is left. *)
LEMMA NothingLeft ==
    ASSUME NEW table, NEW i, NEW e
    PROVE  Put(Over(table, Absent), i, e) = Put(table, i, e)
<1>1. DOMAIN Absent = {}
  BY DEF Absent
<1>2. /\ DOMAIN Over(table, Absent) = DOMAIN table
      /\ \A x \in DOMAIN table : Over(table, Absent)[x] = table[x]
  BY <1>1 DEF Over
<1>. HIDE DEF Over
<1> DEFINE t == Over(table, Absent)
<1>3. DOMAIN t = DOMAIN table /\ \A x \in DOMAIN table : t[x] = table[x]
  BY <1>2
<1>. HIDE DEF t
<1>4. Put(t, i, e) = Put(table, i, e)
  BY <1>3 DEF Put, Over
<1>. QED
  BY <1>4 DEF t

(* CopyPage is one of the two turns, if the table is clean. *)
LEMMA CopyPageIs ==
    ASSUME NEW x, NEW d, NEW va, NEW first \in BOOLEAN,
           first => boot.dirt[NextFrame(CopiedFrame(x, x.data[PageFrame(va)]))] = Absent
    PROVE  CopyPage(x, d, va, first) =
               IF first
                 THEN FirstCopy(x, d, va, Owner(va), PageUser(va), x.data[PageFrame(va)])
               ELSE NextCopy(x, d, va, PageUser(va), x.data[PageFrame(va)])
<1> DEFINE v == x.data[PageFrame(va)]
           a == CopiedFrame(x, v)
           p == IF first THEN NextFrame(a) ELSE a.table[d][PDIRE(va)].frame
           b == IF first THEN Touch(FirstTable(x, d, va, Owner(va), v), p) ELSE a
           left == IF first THEN boot.dirt[p] ELSE Absent
           e == Entry(NextFrame(x), PageUser(va))
<1>1. CopyPage(x, d, va, first) =
          IF ~x.ok THEN x ELSE IF ~a.ok THEN a ELSE IF ~b.ok THEN b
          ELSE [b EXCEPT !.table[p] = Put(Over(@, left), PTBLE(va), e)]
  BY DEF CopyPage, CopiedFrame, FirstTable, PutEntry, Owner, PageUser, PageFrame, PageEntry
<1>2. left = Absent
  OBVIOUS
<1>. HIDE DEF v, a, left, e
<1>3. [b EXCEPT !.table[p] = Put(Over(@, left), PTBLE(va), e)] = PutEntry(b, p, PTBLE(va), e)
  BY <1>2, NothingLeft DEF PutEntry
<1>4. CASE first
  BY <1>1, <1>3, <1>4 DEF FirstCopy, v, a, e
<1>5. CASE ~first
  BY <1>1, <1>3, <1>5 DEF NextCopy, v, a, e
<1>. QED
  BY <1>4, <1>5

(* What is mapped in the user's half of a sound directory. *)
LEMMA MappedPage ==
    ASSUME NEW D, Safe(boot, m, D), pdir[fgtask] \in D,
           NEW va \in Nat, va < KHALF, Mapped(m, pdir[fgtask], va)
    PROVE  /\ va # KHALF - 1
           /\ Owner(va) \in BOOLEAN /\ PageUser(va) \in BOOLEAN
           /\ PageFrame(va) \in 0 .. m.top - 1
<1> DEFINE p == pdir[fgtask]
           i == PDIRE(va)
           y == PTBLE(va)
           f == m.table[p][i].frame
<1>1. i \in DOMAIN m.table[p] /\ y \in DOMAIN m.table[f]
  BY DEF Mapped
<1>2. i \in Nat /\ y \in 0 .. PtblSize - 1 /\ va = PtblSize * i + y /\ i < HALF
  BY Constants, PageParts, PageBelow
<1>3. va = KHALF - 1 => i = HALF - 1 /\ y = PtblSize - 1
  <2>1. SUFFICES ASSUME va = KHALF - 1 PROVE i = HALF - 1 /\ y = PtblSize - 1
    OBVIOUS
  <2>2. PtblSize * (HALF - 1) = PtblSize * HALF - PtblSize
    BY Constants
  <2>3. va = PtblSize * (HALF - 1) + (PtblSize - 1)
    BY <2>1, <2>2, Constants
  <2>4. HALF - 1 \in Nat /\ PtblSize - 1 \in 0 .. PtblSize - 1
    BY Constants
  <2> DEFINE j == HALF - 1
             k == PtblSize - 1
  <2>5. j \in Nat /\ k \in 0 .. PtblSize - 1 /\ va = PtblSize * j + k
    BY <2>3, <2>4
  <2>. HIDE DEF j, k
  <2>6. PDIRE(va) = j /\ PTBLE(va) = k
    BY <2>5, Page
  <2>. QED
    BY <2>6 DEF j, k
<1>4. Owner(va) = m.table[p][i].user /\ PageEntry(va) = m.table[f][y]
  BY DEF Owner, PageEntry
<1>5. p \in D
  OBVIOUS
<1>. HIDE DEF p, i, y, f
<1>6. p \in 0 .. m.top - 1 /\ i \in Half(m, p) /\ MemoryOK(m)
      /\ \A g \in 0 .. m.used - 1 : g \in 0 .. m.top - 1
  BY <1>1, <1>2, <1>5, Sizes DEF Safe, Half
<1>7. TableOK(boot, m, D, i, f)
  BY <1>5, <1>6 DEF Safe, f
<1>8. /\ m.table[f][y].frame \in 0 .. m.used - 1
      /\ ~(i = HALF - 1 /\ y = PtblSize - 1) /\ f \in 0 .. m.used - 1
  BY <1>1, <1>7 DEF TableOK, PagesOK
<1>9. IsEntry(m.table[p][i]) /\ IsEntry(m.table[f][y])
  BY <1>1, <1>6, <1>8 DEF MemoryOK, IsPages
<1>. QED
  BY <1>3, <1>4, <1>6, <1>8, <1>9 DEF IsEntry, PageUser, PageFrame

(* The pages that are copied are those of the parent from the start of the
   image on, and not all of them. *)
Count == IF Copied = {} THEN 0
         ELSE (CHOOSE last \in Copied : last + 1 \notin Copied) - boot.start + 1

(* The pages that the loop copies are mapped, and all below the last page of
   the user's half. *)
LEMMA CountIs ==
    ASSUME NEW D, Safe(boot, m, D), pdir[fgtask] \in D, boot \in Machines
    PROVE  /\ Count \in Nat
           /\ \A i \in 1 .. Count :
                 LET va == boot.start + i - 1
                 IN  va \in Nat /\ va < KHALF - 1 /\ Mapped(m, pdir[fgtask], va)
<1> DEFINE start == boot.start
<1>1. start \in Nat /\ start < KHALF /\ KHALF \in Nat /\ VaTop \in Nat /\ KHALF < VaTop
  BY VmAssumption, Constants
<1>2. \A va \in Copied : /\ va \in Nat /\ start <= va /\ va < KHALF - 1
                         /\ \A w \in start .. va : Mapped(m, pdir[fgtask], w)
  <2>. SUFFICES ASSUME NEW va \in Copied
                PROVE  /\ va \in Nat /\ start <= va /\ va < KHALF - 1
                       /\ \A w \in start .. va : Mapped(m, pdir[fgtask], w)
    OBVIOUS
  <2>1. /\ va \in Nat /\ start <= va
        /\ \A w \in start .. va : Mapped(m, pdir[fgtask], w)
    BY <1>1 DEF Copied
  <2>2. ASSUME ~(va < KHALF - 1) PROVE FALSE
    <3> DEFINE w == KHALF - 1
    <3>1. w \in start .. va /\ w \in Nat /\ w < KHALF
      BY <1>1, <2>1, <2>2
    <3>2. Mapped(m, pdir[fgtask], w)
      BY <2>1, <3>1
    <3>3. w = KHALF - 1
      OBVIOUS
    <3>. HIDE DEF w
    <3>. QED
      BY <3>1, <3>2, <3>3, MappedPage
  <2>. QED
    BY <2>1, <2>2
<1>3. CASE Copied = {}
  BY <1>3 DEF Count
<1>4. CASE Copied # {}
  <2> DEFINE T == {k \in Nat : start + k \notin Copied}
  <2>1. T # {} /\ T \in SUBSET Nat
    <3>1. KHALF - start \in Nat /\ start + (KHALF - start) = KHALF
      BY <1>1
    <3>2. KHALF \notin Copied
      BY <1>1, <1>2
    <3>3. KHALF - start \in T
      BY <3>1, <3>2
    <3>. QED
      BY <3>3
  <2>2. PICK k \in T : \A y \in T : k <= y
    BY <2>1, Least
  <2>3. start \in Copied
    <3>1. PICK va \in Copied : TRUE
      BY <1>4
    <3>2. va \in Nat /\ start <= va /\ va \in start .. VaTop - 1
      BY <1>2 DEF Copied
    <3>3. start \in start .. VaTop - 1 /\ \A w \in start .. start : w \in start .. va
      BY <1>1, <3>2
    <3>. QED
      BY <1>2, <3>1, <3>3 DEF Copied
  <2>4. k \in Nat /\ k # 0
    BY <1>1, <2>3
  <2>5. k - 1 \in Nat /\ k - 1 \notin T
    BY <2>2, <2>4
  <2>6. start + (k - 1) \in Copied /\ start + (k - 1) + 1 \notin Copied
    <3>1. start + (k - 1) + 1 = start + k
      BY <1>1, <2>4
    <3>. QED
      BY <2>2, <2>5, <3>1
  <2> DEFINE last == CHOOSE n \in Copied : n + 1 \notin Copied
  <2>7. last \in Copied
    BY <2>6
  <2>8. Count = last - start + 1
    BY <1>4 DEF Count
  <2>. HIDE DEF last
  <2>9. last \in Nat /\ start <= last /\ last < KHALF - 1
        /\ \A w \in start .. last : Mapped(m, pdir[fgtask], w)
    BY <1>2, <2>7
  <2>10. Count \in Nat
    BY <1>1, <2>8, <2>9
  <2>11. ASSUME NEW i \in 1 .. Count
         PROVE  LET va == start + i - 1
                IN  va \in Nat /\ va < KHALF - 1 /\ Mapped(m, pdir[fgtask], va)
    <3>1. start + i - 1 \in start .. last
      BY <1>1, <2>8, <2>9, <2>10
    <3>2. start + i - 1 \in Nat /\ start + i - 1 < KHALF - 1
      BY <1>1, <2>9, <3>1
    <3>. QED
      BY <2>9, <3>1, <3>2
  <2>. QED
    BY <2>10, <2>11
<1>. QED
  BY <1>3, <1>4

(* task_copy_vm, turn after turn. *)
IsCopy(f, x, d, k) ==
    f = [i \in 0 .. k |-> IF i = 0 THEN x
                          ELSE CopyPage(f[i - 1], d, boot.start + i - 1, i = 1)]

(* task_copy_vm's recursion defines a function. *)
LEMMA CopyExists ==
    ASSUME NEW x, NEW d, NEW last \in Nat
    PROVE  \E f : IsCopy(f, x, d, last)
<1> DEFINE S == {k \in 0 .. last : \E f : IsCopy(f, x, d, k)}
<1>1. 0 \in S
  <2> DEFINE f == [i \in 0 .. 0 |-> x]
  <2>1. IsCopy(f, x, d, 0)
    BY DEF IsCopy
  <2>. QED
    BY <2>1
<1>2. ASSUME NEW k \in S, k < last PROVE k + 1 \in S
  <2>0. k \in 0 .. last
    OBVIOUS
  <2>1. PICK f : IsCopy(f, x, d, k)
    OBVIOUS
  <2> DEFINE CopyTurn(y, i) == CopyPage(y, d, boot.start + i - 1, i = 1)
             g == [i \in 0 .. k + 1 |-> IF i = k + 1 THEN CopyTurn(f[k], k + 1) ELSE f[i]]
  <2>2. ASSUME NEW i \in 0 .. k + 1
        PROVE  g[i] = IF i = 0 THEN x ELSE CopyTurn(g[i - 1], i)
    <3>1. CASE i = k + 1
      <4>1. i # 0 /\ g[i - 1] = f[k] /\ g[i] = CopyTurn(f[k], k + 1)
        BY <2>0, <3>1
      <4>. HIDE DEF g, CopyTurn
      <4>. QED
        BY <3>1, <4>1
    <3>2. CASE i # k + 1
      <4>1. i \in 0 .. k /\ g[i] = f[i]
        BY <2>0, <3>2
      <4>2. f[i] = IF i = 0 THEN x ELSE CopyTurn(f[i - 1], i)
        BY <2>1, <4>1 DEF IsCopy
      <4>3. i # 0 => g[i - 1] = f[i - 1]
        BY <2>0, <4>1
      <4>. HIDE DEF g, CopyTurn
      <4>. QED
        BY <4>1, <4>2, <4>3
    <3>. QED
      BY <3>1, <3>2
  <2>3. IsCopy(g, x, d, k + 1)
    <3>1. g = [i \in 0 .. k + 1 |-> g[i]]
      OBVIOUS
    <3>. HIDE DEF g
    <3>. QED
      BY <2>2, <3>1 DEF IsCopy
  <2>4. k + 1 \in 0 .. last
    BY <1>2, <2>0
  <2>. QED
    BY <2>3, <2>4
<1>3. S = 0 .. last
  <2>. HIDE DEF S
  <2>1. S \in SUBSET (0 .. last)
    BY DEF S
  <2>. QED
    BY <1>1, <1>2, <2>1, UpTo
<1>. QED
  BY <1>3

(* What the loop calls, as statements of their own. *)
CopyTurns(f, x, d) ==
    /\ f[0] = x
    /\ \A i \in 1 .. Count : f[i] = CopyPage(f[i - 1], d, boot.start + i - 1, i = 1)

(* task_copy_vm is the last value of that function. *)
LEMMA CopyLoop ==
    ASSUME NEW x, NEW d, Count \in Nat
    PROVE  \E f : task_copy_vm(x, d) = f[Count] /\ CopyTurns(f, x, d)
<1> DEFINE f == CHOOSE after : IsCopy(after, x, d, Count)
<1>1. IsCopy(f, x, d, Count)
  BY CopyExists
<1>2. task_copy_vm(x, d) = f[Count]
  BY DEF task_copy_vm, IsCopy, Count
<1>. HIDE DEF f
<1>3. f[0] = x
  BY <1>1 DEF IsCopy
<1>4. ASSUME NEW i \in 1 .. Count
      PROVE  f[i] = CopyPage(f[i - 1], d, boot.start + i - 1, i = 1)
  <2>1. i \in 0 .. Count /\ i # 0
    OBVIOUS
  <2>. QED
    BY <1>1, <2>1 DEF IsCopy
<1>. QED
  BY <1>2, <1>3, <1>4 DEF CopyTurns

(* The first turn finds a clean table. *)
LEMMA FirstTurn ==
    ASSUME NEW x, MemoryOK(x), CleanTable(x), Count # 0, NEW v \in Values
    PROVE  boot.dirt[NextFrame(CopiedFrame(x, v))] = Absent
<1>1. Copied # {}
  BY DEF Count
<1>2. NextFrame(CopiedFrame(x, v)) = NextFrame(pm_alloc_frame(x))
  BY TableFrame
<1>. QED
  BY <1>1, <1>2 DEF CleanTable

(* A copy without a turn. *)
LEMMA CopiesSelf ==
    ASSUME NEW b, NEW D, NEW E, NEW d, NEW x, Safe(b, x, E)
    PROVE  Copies(b, D, E, d, x, x)
<1>1. x.used \in x.used .. x.top
  BY Sizes DEF Safe
<1>. QED
  BY <1>1 DEF Copies

(* One turn after another. *)
LEMMA CopiesTwice ==
    ASSUME NEW b, NEW D, NEW E, NEW d, NEW x, NEW r, NEW s, Safe(b, x, E),
           Copies(b, D, E, d, x, r), Copies(b, D, E, d, r, s)
    PROVE  Copies(b, D, E, d, x, s)
<1>1. x.used \in Nat /\ x.top \in Nat /\ r.top = x.top
  BY Sizes DEF Safe, Copies
<1>2. r.used \in x.used .. x.top /\ s.used \in r.used .. x.top /\ r.used \in Nat
  BY <1>1 DEF Copies
<1>3. /\ s.used \in x.used .. x.top
      /\ \A f : f \in x.used .. r.used - 1 => f \in x.used .. s.used - 1
      /\ \A f : f \in r.used .. s.used - 1 => f \in x.used .. s.used - 1
  BY <1>1, <1>2
<1>4. AllTables(s, E) \subseteq AllTables(x, E) \cup {0} \cup (x.used .. s.used - 1)
  <2>1. ASSUME NEW f \in AllTables(s, E)
        PROVE  f \in AllTables(x, E) \/ f = 0 \/ f \in x.used .. s.used - 1
    <3>1. f \in AllTables(r, E) \/ f = 0 \/ f \in r.used .. s.used - 1
      BY <2>1 DEF Copies
    <3>2. f \in AllTables(r, E) =>
              f \in AllTables(x, E) \/ f = 0 \/ f \in x.used .. r.used - 1
      BY DEF Copies
    <3>. QED
      BY <1>1, <1>2, <3>1, <3>2
  <2>. QED
    BY <2>1
<1>. QED
  BY <1>3, <1>4 DEF Copies

(* The whole loop, for a child whose directory has its parent's entries. *)
LEMMA CopiesAll ==
    ASSUME NEW D, Safe(boot, m, D), pdir[fgtask] \in D, boot \in Machines,
           NEW E, D \subseteq E, NEW d \in E, d \notin D,
           NEW x, Safe(boot, x, E), DOMAIN x.table[d] = DOMAIN m.table[pdir[fgtask]],
           CleanTable(x), NEW r, r = task_copy_vm(x, d)
    PROVE  Copies(boot, D, E, d, x, r)
<1>1. boot.kernel \in Nat /\ boot.start \in Nat /\ Count \in Nat
  BY VmAssumption, CountIs
<1>2. PICK f : r = f[Count] /\ CopyTurns(f, x, d)
  BY <1>1, CopyLoop
<1> DEFINE S == {i \in 0 .. Count : Copies(boot, D, E, d, x, f[i])}
<1>3. 0 \in S
  <2>1. f[0] = x
    BY <1>2 DEF CopyTurns
  <2>. QED
    BY <1>1, <2>1, CopiesSelf
<1>4. ASSUME NEW i \in S, i < Count PROVE i + 1 \in S
  <2>1. i \in 0 .. Count /\ i + 1 \in 1 .. Count /\ i + 1 \in 0 .. Count /\ (i + 1) - 1 = i
    BY <1>1, <1>4
  <2> DEFINE va == boot.start + (i + 1) - 1
             first == i + 1 = 1
             y == f[i]
             z == f[i + 1]
             v == y.data[PageFrame(va)]
  <2>2. va \in Nat /\ va < KHALF - 1 /\ va < KHALF /\ Mapped(m, pdir[fgtask], va)
    BY <2>1, CountIs, Constants
  <2>3. z = CopyPage(y, d, va, first)
    BY <1>2, <2>1 DEF CopyTurns
  <2>4. first \in BOOLEAN /\ (first => PDIRE(va) = PDIRE(boot.start))
    <3>1. i + 1 = 1 => va = boot.start
      BY ONLY <1>1, <2>1
    <3>. QED
      BY <3>1
  <2>5. Copies(boot, D, E, d, x, y)
    OBVIOUS
  <2>6. Safe(boot, y, E) /\ DOMAIN y.table[d] = DOMAIN m.table[pdir[fgtask]]
    BY <2>5 DEF Copies
  <2>. HIDE DEF va, first, y, z
  <2>7. PDIRE(va) \in DOMAIN y.table[d]
    BY <2>2, <2>6 DEF Mapped
  <2>8. /\ Owner(va) \in BOOLEAN /\ PageUser(va) \in BOOLEAN
        /\ PageFrame(va) \in 0 .. m.top - 1
    BY <2>2, MappedPage
  <2>9. v \in Values
    <3>1. m.top = boot.top /\ y.top = boot.top /\ y.data \in [0 .. y.top - 1 -> Values]
      BY <2>6 DEF Safe, MemoryOK
    <3>. QED
      BY <2>8, <3>1
  <2>10. z = IF first THEN FirstCopy(y, d, va, Owner(va), PageUser(va), v)
             ELSE NextCopy(y, d, va, PageUser(va), v)
    <3>1. MemoryOK(y) /\ Count # 0 /\ (first => y = x)
      BY <1>1, <1>2, <2>1, <2>6 DEF Safe, CopyTurns, first, y
    <3>2. first => boot.dirt[NextFrame(CopiedFrame(y, v))] = Absent
      BY <2>9, <3>1, FirstTurn
    <3>. QED
      BY <2>3, <2>4, <3>2, CopyPageIs
  <2>. HIDE DEF v
  <2> DEFINE owner == Owner(va)
             user == PageUser(va)
  <2>11. /\ owner \in BOOLEAN /\ user \in BOOLEAN
         /\ z = IF first THEN FirstCopy(y, d, va, owner, user, v)
                ELSE NextCopy(y, d, va, user, v)
    BY <2>8, <2>10
  <2>. HIDE DEF owner, user
  <2>12. CASE first
    <3>1. z = FirstCopy(y, d, va, owner, user, v)
      BY <2>11, <2>12
    <3>2. Copies(boot, D, E, d, y, z)
      BY <1>1, <2>2, <2>4, <2>6, <2>7, <2>9, <2>11, <2>12, <3>1, CopiesFirst
    <3>3. Copies(boot, D, E, d, x, z)
      BY <2>5, <3>2, CopiesTwice
    <3>. QED
      BY <2>1, <3>3 DEF z
  <2>13. CASE ~first
    <3>1. z = NextCopy(y, d, va, user, v)
      BY <2>11, <2>13
    <3>2. Copies(boot, D, E, d, y, z)
      BY <1>1, <2>2, <2>6, <2>7, <2>9, <2>11, <3>1, CopiesNext
    <3>3. Copies(boot, D, E, d, x, z)
      BY <2>5, <3>2, CopiesTwice
    <3>. QED
      BY <2>1, <3>3 DEF z
  <2>. QED
    BY <2>12, <2>13
<1>5. Count \in S
  <2>. HIDE DEF S
  <2>1. S \in SUBSET (0 .. Count)
    BY DEF S
  <2>2. S = 0 .. Count
    BY <1>1, <1>3, <1>4, <2>1, UpTo
  <2>. QED
    BY <1>1, <2>2
<1>. QED
  BY <1>2, <1>5

-----------------------------------------------------------------------------
(* The machine.                                                            *)

(* The first directory, in memory that has handed nothing out but what the
   kernel occupies and its caches. *)
LEMMA FirstDirectory ==
    ASSUME boot \in Machines, boot.junk = Absent,
           NEW v, v = vm_init(Memory(boot)), v.ok
    PROVE  Safe(boot, v, {}) /\ Closed(boot, v, {})
<1> DEFINE x == Memory(boot)
           a == Take(x)
           c == Take(a)
<1>1. boot.top \in 1 .. VaTop /\ boot.kernel \in 1 .. boot.top /\ 0 \in Values
      /\ VaTop \in Nat
  BY VmAssumption, Constants
<1>2. /\ x.top = boot.top /\ x.used = boot.kernel /\ x.ok = TRUE
      /\ x.stuck = FALSE /\ IsMemory(x)
      /\ x.table = [f \in 0 .. boot.top - 1 |-> Absent]
      /\ x.cache = [k \in Caches |-> IF k = "kcache" THEN boot.junk ELSE Absent]
      /\ x.data = [f \in 0 .. boot.top - 1 |-> 0]
  BY DEF Memory, IsMemory, Caches
<1>. HIDE DEF x
<1>3. IsPages(Absent)
  BY DEF IsPages, Absent
<1>4. \A k \in Caches : x.cache[k] = Absent
  BY <1>2
<1>5. MemoryOK(x)
  <2>1. \A f \in x.used .. x.top - 1 : f \in 0 .. x.top - 1
    BY <1>1, <1>2
  <2>2. \A f \in 0 .. x.top - 1 : x.table[f] = Absent
    BY <1>2
  <2>. QED
    BY <1>1, <1>2, <1>3, <1>4, <2>1, <2>2 DEF MemoryOK
<1>6. Took(x, a) /\ MemoryOK(a)
  BY <1>5, Takes DEF Took
<1>7. Took(a, c) /\ MemoryOK(c)
  BY <1>6, Takes DEF Took
<1>8. Took(x, c)
  BY <1>5, <1>6, <1>7, TookTwice
<1>9. v = vm_new_pdir(c)
  BY DEF vm_init, x
<1>. HIDE DEF a, c
<1>10. \A i \in Shared : ~IsCached(c, i)
  <2>1. \A i \in Shared : CacheOf(i) \in Caches
    BY SharedPlace
  <2>. QED
    BY <1>4, <1>8, <2>1 DEF Took, IsCached, Absent
<1>11. NewDir(c, v, NextFrame(c))
  BY <1>7, <1>9, <1>10, NewPdir
<1>12. /\ MemoryOK(v) /\ v.top = boot.top /\ v.used \in c.used + 1 .. c.top
       /\ CachesOK(v)
       /\ \A f \in 0 .. c.used - 1 : v.table[f] = c.table[f]
  BY <1>2, <1>8, <1>11 DEF NewDir, Took
<1>13. boot.kernel <= v.used
  BY <1>1, <1>2, <1>8, <1>12 DEF Took
<1>14. v.table[0] = Absent
  <2>1. 0 \in 0 .. c.used - 1 /\ 0 \in 0 .. x.top - 1
    BY <1>1, <1>2, <1>7, Sizes
  <2>. QED
    BY <1>2, <1>8, <1>12, <2>1 DEF Took
<1>15. PagesOK(v, PDIRE(boot.start), 0)
  BY <1>14 DEF PagesOK, Absent
<1>16. Safe(boot, v, {})
  BY <1>12, <1>13, <1>15 DEF Safe
<1>17. Closed(boot, v, {})
  BY DEF Closed, UserTables
<1>. QED
  BY <1>16, <1>17

NoImage == [i \in ImageNumbers |-> 0]

(* task_init: t is what task_alloc makes, and n has the first program too.  The
   frame before the first of t's is none of the kernel's tables. *)
FirstFrom(x, t, n, task) ==
    /\ Safe(boot, x, {}) /\ Closed(boot, x, {})
    /\ \A f \in KFrames(x) : f + 1 < x.used
    /\ IsTask(t) /\ TaskMade(boot, x, {}, t)
    /\ n = LoadImage(t.m, t.pdir, NoImage) /\ n.ok
    /\ task.m = Take(n)
    /\ task.pdir = t.pdir /\ task.stack = t.stack /\ task.block = t.block

(* The first task is made so. *)
LEMMA FirstCalls ==
    ASSUME boot \in Machines, boot.junk = Absent,
           vm_init(Memory(boot)).ok,
           NEW task, task = task_init(Take(vm_init(Memory(boot)))), task.m.ok
    PROVE  \E x, t, n : FirstFrom(x, t, n, task)
<1> DEFINE v == vm_init(Memory(boot))
           x == Take(v)
           t == task_alloc(x)
           D == {}
           E == {t.pdir}
           n == LoadImage(t.m, t.pdir, NoImage)
           u == task_add(x)
<1>1. boot.top \in Nat /\ boot.kernel \in Nat /\ 0 \in Values
  BY VmAssumption
<1>2. Safe(boot, v, D) /\ Closed(boot, v, D)
  BY FirstDirectory
<1>3. u = IF t.m.ok THEN [t EXCEPT !.m = n] ELSE t
  BY DEF task_add, NoImage
<1>4. task = [u EXCEPT !.m = Take(u.m)]
  BY DEF task_init
<1>5. NoImage \in [ImageNumbers -> Values]
  BY <1>1 DEF NoImage
<1>6. E = D \cup {t.pdir} /\ t.pdir \in E /\ D = {}
  OBVIOUS
<1>. HIDE DEF v, u, D, E
<1>7. Grew(v, x) /\ MemoryOK(v)
  BY <1>2, Takes, TookGrew DEF Safe
<1>8. Safe(boot, x, D) /\ Closed(boot, x, D)
  BY <1>1, <1>2, <1>7, SafeGrew
<1>. HIDE DEF x
<1>9. t = task_alloc(x)
  OBVIOUS
<1>. HIDE DEF t
<1>10. /\ Grew(x, t.m) /\ IsTask(t) /\ (t.m.ok => x.ok)
       /\ t.m.ok => TaskMade(boot, x, D, t)
  BY <1>1, <1>8, <1>9, TaskAlloc
<1>11. n = LoadImage(t.m, t.pdir, NoImage)
  OBVIOUS
<1>. HIDE DEF n
<1>12. /\ u.m = IF t.m.ok THEN n ELSE t.m
       /\ u = [m |-> u.m, pdir |-> t.pdir, stack |-> t.stack,
               block |-> t.block, loaded |-> t.loaded]
  BY <1>3, <1>10 DEF IsTask
<1>13. /\ task.m = Take(u.m) /\ task.pdir = t.pdir /\ task.stack = t.stack
       /\ task.block = t.block
  BY <1>4, <1>12
<1>14. t.m.ok
  <2>1. SUFFICES ASSUME ~t.m.ok PROVE FALSE
    OBVIOUS
  <2>2. u.m = t.m /\ MemoryOK(t.m)
    BY <1>10, <1>12, <2>1 DEF Grew
  <2>3. ~Take(t.m).ok
    BY <2>1, <2>2, Takes DEF Took
  <2>. QED
    BY <1>13, <2>2, <2>3
<1>15. TaskMade(boot, x, D, t)
  BY <1>10, <1>14
<1>16. Safe(boot, t.m, E)
  BY <1>6, <1>15 DEF TaskMade
<1>17. MemoryOK(n)
  <2>1. Keeps(boot, E, t.m, n)
    BY <1>5, <1>6, <1>11, <1>16, Loads
  <2>. QED
    BY <2>1 DEF Keeps, Safe
<1>18. n.ok
  BY <1>12, <1>13, <1>14, <1>17, Takes DEF Took
<1>19. x.ok
  BY <1>10, <1>14
<1>20. ASSUME NEW f \in KFrames(x) PROVE f + 1 < x.used
  <2>1. x.used = v.used + 1
    BY <1>7, <1>19, Takes DEF x
  <2>2. KFrames(x) = KFrames(v) /\ KFrames(v) \subseteq 0 .. v.used - 1
    BY <1>2, <1>7, SameFrames, TablesExist DEF AllTables, Grew
  <2>3. v.used \in Nat
    BY <1>7, Sizes
  <2>. QED
    BY <1>20, <2>1, <2>2, <2>3
<1>21. FirstFrom(x, t, n, task)
  BY <1>6, <1>8, <1>10, <1>11, <1>12, <1>13, <1>14, <1>15, <1>18, <1>20 DEF FirstFrom
<1>. QED
  BY <1>21

(* The first task. *)
LEMMA FirstTask ==
    ASSUME boot \in Machines, boot.junk = Absent,
           vm_init(Memory(boot)).ok,
           NEW task, task = task_init(Take(vm_init(Memory(boot)))), task.m.ok
    PROVE  /\ Safe(boot, task.m, {task.pdir}) /\ Closed(boot, task.m, {task.pdir})
           /\ task.pdir \in 0 .. boot.top - 1 /\ task.stack \in 0 .. boot.top - 1
           /\ task.block \in Blocks(0 .. boot.top - 1)
<1>1. PICK x, t, n : FirstFrom(x, t, n, task)
  BY FirstCalls
<1> DEFINE E == {t.pdir}
<1>2. /\ Safe(boot, x, {}) /\ Closed(boot, x, {}) /\ TaskMade(boot, x, {}, t)
      /\ n = LoadImage(t.m, t.pdir, NoImage) /\ n.ok /\ task.m = Take(n)
      /\ task.pdir = t.pdir /\ task.stack = t.stack /\ task.block = t.block
  BY <1>1 DEF FirstFrom
<1>3. boot.kernel \in Nat /\ NoImage \in [ImageNumbers -> Values]
  BY VmAssumption DEF NoImage
<1>4. Safe(boot, t.m, E) /\ Closed(boot, t.m, E)
  BY <1>2 DEF TaskMade
<1>5. Keeps(boot, E, t.m, n)
  BY <1>2, <1>3, <1>4, Loads
<1>6. Safe(boot, n, E) /\ Closed(boot, n, E) /\ MemoryOK(n)
  BY <1>4, <1>5 DEF Keeps, Safe
<1>7. Grew(n, task.m)
  BY <1>2, <1>6, Takes, TookGrew
<1>8. Safe(boot, task.m, E) /\ Closed(boot, task.m, E)
  BY <1>3, <1>6, <1>7, SafeGrew
<1>9. /\ x.top = boot.top /\ x.used \in Nat /\ boot.top \in Nat
      /\ t.m.used \in Nat /\ t.m.used <= boot.top
  <2>1. x.top = boot.top /\ t.m.top = boot.top /\ MemoryOK(x) /\ MemoryOK(t.m)
    BY <1>2, <1>4 DEF Safe
  <2>. QED
    BY <2>1, Sizes
<1>10. /\ t.pdir \in 0 .. boot.top - 1 /\ t.stack \in 0 .. boot.top - 1
       /\ t.block \in Blocks(0 .. boot.top - 1)
  BY <1>2, <1>9 DEF TaskMade
<1>. QED
  BY <1>2, <1>8, <1>10

(* Memory with another outcome of the last call. *)
After(x, ok, stuck) == [x EXCEPT !.ok = ok, !.stuck = stuck]

(* It differs in nothing else. *)
LEMMA Outcome ==
    ASSUME NEW x, IsMemory(x), NEW S, NEW ok \in S, NEW stuck \in S,
           NEW r, r = After(x, ok, stuck)
    PROVE  /\ IsMemory(r) /\ r.top = x.top /\ r.used = x.used
           /\ r.ok \in S /\ r.stuck \in S
           /\ r.table = x.table /\ r.cache = x.cache /\ r.data = x.data
BY DEF IsMemory, After

(* What a system call starts from differs from m in what the last one
   returned. *)
LEMMA SoundIs ==
    ASSUME NEW D, Safe(boot, m, D), boot \in Machines
    PROVE  /\ Safe(boot, Sound, D) /\ (Closed(boot, m, D) => Closed(boot, Sound, D))
           /\ Sound.table = m.table /\ Sound.used = m.used /\ Sound.top = m.top
           /\ Sound.data = m.data /\ Grew(m, Sound)
<1>1. MemoryOK(m) /\ boot.kernel \in Nat
  BY VmAssumption DEF Safe
<1> DEFINE x == Sound
<1>2. /\ IsMemory(x) /\ x.top = m.top /\ x.used = m.used /\ x.ok \in BOOLEAN
      /\ x.stuck \in BOOLEAN /\ x.table = m.table /\ x.cache = m.cache /\ x.data = m.data
  <2>1. IsMemory(m)
    BY <1>1 DEF MemoryOK
  <2> DEFINE yes == TRUE
             no == FALSE
             S == BOOLEAN
  <2>2. x = After(m, yes, no) /\ yes \in S /\ no \in S
    BY DEF Sound, After
  <2>. HIDE DEF x, yes, no, S
  <2>3. /\ IsMemory(x) /\ x.top = m.top /\ x.used = m.used
        /\ x.ok \in S /\ x.stuck \in S
        /\ x.table = m.table /\ x.cache = m.cache /\ x.data = m.data
    BY ONLY <2>1, <2>2, Outcome
  <2>. QED
    BY <2>3 DEF S
<1>. HIDE DEF x
<1>3. MemoryOK(x)
  BY <1>1, <1>2 DEF MemoryOK
<1>4. x.used \in m.used .. m.top
  BY <1>1, <1>2, Sizes
<1>5. Grew(m, x)
  BY <1>2, <1>3, <1>4, SameCaches DEF Grew
<1>6. Safe(boot, x, D) /\ (Closed(boot, m, D) => Closed(boot, x, D))
  BY <1>1, <1>5, SafeGrew
<1>. QED
  BY <1>2, <1>5, <1>6 DEF x

(* task_fork, once task_alloc has made the task. *)
LEMMA Forks ==
    ASSUME NEW D, Safe(boot, m, D), boot \in Machines, pdir[fgtask] \in D,
           NEW task, task = task_alloc(Sound), task.m.ok, CleanTable(Inherit(task)),
           NEW n, n = MapUser(task_copy_vm(Inherit(task), task.pdir),
                              task.pdir, task.stack, task.stack),
           NEW E, E = D \cup {task.pdir}
    PROVE  /\ Safe(boot, n, E)
           /\ Closed(boot, m, D) => CopyOK(boot, D, E, n)
           /\ task.pdir \in 0 .. boot.top - 1 /\ task.stack \in 0 .. boot.top - 1
           /\ task.block \in Blocks(0 .. boot.top - 1)
<1> DEFINE y == task.m
           d == task.pdir
           s == task.stack
           p == pdir[fgtask]
           x == Inherit(task)
           c == task_copy_vm(x, d)
<1>1. /\ boot.kernel \in Nat /\ MemoryOK(m) /\ m.used \in Nat /\ m.top \in Nat
      /\ 1 <= m.used /\ m.top = boot.top /\ boot.kernel <= m.used
      /\ KHEAP \in Nat /\ KHALF \in Nat /\ KHEAP < KHALF
  BY VmAssumption, Sizes, Constants DEF Safe
<1>2. /\ Safe(boot, Sound, D) /\ (Closed(boot, m, D) => Closed(boot, Sound, D))
      /\ Sound.table = m.table /\ Sound.used = m.used /\ Sound.top = m.top
  BY SoundIs
<1>3. /\ Grew(Sound, y) /\ d \in 0 .. m.top - 1 /\ IsTask(task)
      /\ TaskMade(boot, Sound, D, task)
  BY <1>1, <1>2, TaskAlloc
<1>4. n = MapUser(c, d, s, s) /\ p \in D /\ d \in E /\ CleanTable(x)
  OBVIOUS
<1>. HIDE DEF y, d, s, p, c
<1>5. /\ d \in m.used .. y.used - 1 /\ s \in m.used .. y.used - 1 /\ s < KHEAP
      /\ s \notin AllTables(y, E) /\ task.block \in Blocks(0 .. m.top - 1)
      /\ Safe(boot, y, E)
      /\ Closed(boot, m, D) => Closed(boot, y, E)
  BY <1>2, <1>3 DEF TaskMade, y, d, s
<1>6. y.used \in Nat /\ y.used <= m.top /\ y.top = m.top
  BY <1>1, <1>5, Sizes DEF Safe
<1>7. p \in 0 .. m.used - 1 /\ d \notin D
  BY <1>1, <1>4, <1>5 DEF Safe
<1>8. x = CopyTable(y, d, p)
  <2>1. m.table[p] = y.table[p]
    BY <1>2, <1>3, <1>7 DEF Grew
  <2>. QED
    BY <2>1 DEF Inherit, CopyTable, y, d, p
<1>. HIDE DEF x
<1>9. E = D \cup {d}
  BY DEF d
<1>10. /\ Safe(boot, x, E) /\ x.used = y.used /\ x.top = y.top
       /\ x.table[d] = y.table[p]
       /\ AllTables(x, E) \subseteq AllTables(y, E)
       /\ Closed(boot, y, E) => Closed(boot, x, E)
  <2>1. p \in E /\ d \in E
    BY <1>4, <1>9
  <2>2. Safe(boot, y, E)
    BY <1>5
  <2>. QED
    BY ONLY <1>8, <2>1, <2>2, Inherits
<1>11. DOMAIN x.table[d] = DOMAIN m.table[p]
  BY <1>2, <1>3, <1>7, <1>10 DEF Grew
<1>12. Copies(boot, D, E, d, x, c)
  BY <1>4, <1>7, <1>9, <1>10, <1>11, CopiesAll DEF p, c
<1>13. Closed(boot, m, D) => CopyOK(boot, D, E, c)
  <2>1. SUFFICES ASSUME Closed(boot, m, D) PROVE CopyOK(boot, D, E, c)
    OBVIOUS
  <2>2. Closed(boot, x, E)
    BY <1>5, <1>10, <2>1
  <2>3. Closed(boot, x, D)
    BY <1>9, <2>2, ClosedSubset
  <2>. QED
    BY <1>12, <2>2, <2>3 DEF Copies, CopyOK
<1>14. s \in 0 .. boot.top - 1 /\ d \in 0 .. boot.top - 1
       /\ task.block \in Blocks(0 .. boot.top - 1)
  BY <1>1, <1>3, <1>5, <1>6
<1>15. CASE ~c.ok
  <2>1. n = c
    BY <1>4, <1>15 DEF MapUser, vm_map_page
  <2>. QED
    BY <1>12, <1>13, <1>14, <2>1 DEF Copies, s, d
<1>16. CASE c.ok
  <2>1. Safe(boot, c, E) /\ c.used \in x.used .. x.top /\ c.top = x.top
    BY <1>10, <1>12 DEF Copies, Safe
  <2>2. s \in Nat /\ s < KHALF - 1 /\ s \in 0 .. c.used - 1
    BY <1>1, <1>5, <1>6, <1>10, <2>1
  <2>3. s >= boot.kernel /\ s < KHEAP /\ s \notin AllTables(c, E)
    <3>1. s # 0 /\ s \notin x.used .. c.used - 1 /\ s >= boot.kernel
      BY <1>1, <1>5, <1>6, <1>10
    <3>2. s \in AllTables(c, E) =>
              s \in AllTables(x, E) \/ s = 0 \/ s \in x.used .. c.used - 1
      BY <1>12 DEF Copies
    <3>. QED
      BY <1>5, <1>10, <3>1, <3>2
  <2>4. /\ Safe(boot, n, E) /\ n.used \in c.used .. c.top
        /\ Closed(boot, c, E) => Closed(boot, n, E)
    <3>1. boot.kernel \in Nat /\ n = MapUser(c, d, s, s) /\ d \in E
      BY <1>1, <1>4
    <3>. QED
      BY <2>1, <2>2, <2>3, <3>1, MapsUser
  <2>5. ASSUME Closed(boot, m, D) PROVE CopyOK(boot, D, E, n)
    <3>1. SUFFICES ASSUME n.used < n.top
                   PROVE  Closed(boot, n, D) /\ Closed(boot, n, E)
      BY DEF CopyOK
    <3>2. c.used < c.top
      <4>1. n.top = c.top
        BY ONLY <2>1, <2>4 DEF Safe
      <4>2. c.used \in Nat /\ c.top \in Nat
        BY <2>1, Sizes DEF Safe
      <4>. QED
        BY <2>4, <3>1, <4>1, <4>2
    <3>3. Closed(boot, c, E)
      BY <1>13, <1>16, <2>5, <3>2 DEF CopyOK
    <3>4. Closed(boot, n, E)
      BY <2>4, <3>3
    <3>. QED
      BY <1>9, <3>4, ClosedSubset
  <2>. QED
    BY <1>14, <2>4, <2>5 DEF s, d
<1>. QED
  BY <1>15, <1>16

(* The directories of the tasks that run. *)
Dirs == {pdir[t] : t \in live}

AllMishaps == {"dirty", "trample", "siblings", "reload", "crossing", "overlap",
               "oom", "partial", "borrowed", "shared", "leftover", "corrupt"}

(* What breaks the tables themselves. *)
Breaks == {"dirty", "leftover", "corrupt"}

(* The type of all that is not memory. *)
VarsOK ==
    /\ boot \in Machines
    /\ block \in [Tasks -> Blocks(Frames)]
    /\ pdir \in [Tasks -> Frames] /\ stack \in [Tasks -> Frames]
    /\ live \subseteq Tasks /\ hung \subseteq Tasks
    /\ fgtask \in live /\ cr3 \in Frames /\ execs \in 0 .. MaxExecs
    /\ mishap \subseteq AllMishaps

(* The inductive invariant: from clean caches, and with clean frames for the
   tables of children, memory is sound for the tasks that run, and as long as it
   lasts no table is a page of a program. *)
VmInv ==
    Without(Breaks) =>
        /\ VarsOK
        /\ Safe(boot, m, Dirs)
        /\ Without({"oom"}) => Closed(boot, m, Dirs)

(* Sound memory has the type of memory. *)
LEMMA SoundTypes ==
    ASSUME VarsOK, Safe(boot, m, Dirs)
    PROVE  TypeOK
<1>1. MemoryOK(m) /\ m.top = boot.top /\ boot.kernel <= m.used
  BY DEF Safe
<1>2. boot.kernel \in Nat
  BY VmAssumption DEF VarsOK
<1>3. m.used \in boot.kernel .. m.top
  BY <1>1, <1>2, Sizes
<1>4. \A t : IsPages(t) => IsTable(t)
  BY DEF IsPages, IsEntry, IsTable
<1>5. /\ DOMAIN m.table = Frames
      /\ \A f \in Frames : IsTable(m.table[f])
      /\ \A c \in {"kcache", "iocache"} : IsTable(m.cache[c])
      /\ m.data \in [Frames -> Values]
      /\ m.ok \in BOOLEAN /\ m.stuck \in BOOLEAN
  BY <1>1, <1>4 DEF MemoryOK, Frames, Caches
<1>. QED
  BY <1>1, <1>3, <1>5 DEF VarsOK, TypeOK, Blocks, AllMishaps

(* A step that makes no directory. *)
LEMMA KeepsInv ==
    ASSUME VarsOK, Safe(boot, m, Dirs), Without({"oom"}) => Closed(boot, m, Dirs),
           VarsOK', boot' = boot, Dirs' \subseteq Dirs, mishap \subseteq mishap',
           Safe(boot, m', Dirs),
           Closed(boot, m, Dirs) => Closed(boot, m', Dirs)
    PROVE  VmInv'
<1>1. Safe(boot, m', Dirs')
  BY SafeSubset
<1>2. Closed(boot, m, Dirs) => Closed(boot, m', Dirs')
  BY ClosedSubset
<1>3. Without({"oom"})' => Without({"oom"})
  BY DEF Without
<1>. QED
  BY <1>1, <1>2, <1>3 DEF VmInv

(* The first state. *)
LEMMA VmInit ==
    ASSUME Init
    PROVE  VmInv
<1>1. SUFFICES ASSUME Without(Breaks)
               PROVE  VarsOK /\ Safe(boot, m, Dirs) /\ Closed(boot, m, Dirs)
  BY DEF VmInv
<1>2. PICK task : /\ task = task_init(Take(vm_init(Memory(boot))))
                  /\ task.m.ok /\ m = task.m
                  /\ block = [t \in Tasks |-> task.block]
                  /\ pdir = [t \in Tasks |-> IF t = 1 THEN task.pdir ELSE Null]
                  /\ stack = [t \in Tasks |-> IF t = 1 THEN task.stack ELSE Null]
                  /\ cr3 = task.pdir
                  /\ mishap = (IF boot.junk = Absent THEN {} ELSE {"dirty"})
                              \cup (IF task.stack \in Image THEN {"overlap"} ELSE {})
  BY DEF Init
<1>3. boot.junk = Absent /\ mishap \subseteq AllMishaps
  BY <1>1, <1>2 DEF Without, AllMishaps, Breaks
<1>4. boot \in Machines /\ vm_init(Memory(boot)).ok
  BY DEF Init
<1>5. /\ Safe(boot, task.m, {task.pdir}) /\ Closed(boot, task.m, {task.pdir})
      /\ task.pdir \in Frames /\ task.stack \in Frames
      /\ task.block \in Blocks(Frames)
  BY <1>2, <1>3, <1>4, FirstTask DEF Frames
<1>6. 1 \in Tasks /\ 0 \in Frames
  BY <1>4, VmAssumption, Constants DEF Tasks, Frames
<1>7. live = {1} /\ hung = {} /\ fgtask = 1 /\ execs = 0
  BY DEF Init
<1>8. Dirs = {task.pdir}
  BY <1>2, <1>6, <1>7 DEF Dirs
<1>9. 0 \in 0 .. MaxExecs
  BY VmAssumption
<1>10. VarsOK
  BY <1>2, <1>3, <1>4, <1>5, <1>6, <1>7, <1>9 DEF VarsOK, Null
<1>. QED
  BY <1>2, <1>5, <1>8, <1>10

(* task_fork that makes a child, or the part of one. *)
LEMMA ForkKeeps ==
    ASSUME VarsOK, Safe(boot, m, Dirs), Without({"oom"}) => Closed(boot, m, Dirs),
           NEW u \in Tasks, Fork(u), Without({"leftover"})'
    PROVE  VmInv'
<1> DEFINE D == Dirs
<1>1. PICK task : /\ task = task_alloc(Sound)
                  /\ task.m.ok
                  /\ block' = [block EXCEPT ![u] = task.block]
                  /\ pdir' = [pdir EXCEPT ![u] = task.pdir]
                  /\ stack' = [stack EXCEPT ![u] = task.stack]
                  /\ cr3' = task.pdir
                  /\ \E n \in {vm_map_page(task_copy_vm(Inherit(task), task.pdir),
                                           task.pdir, task.stack, task.stack,
                                           TRUE, None)} :
                        /\ m' = n
                        /\ live' = IF n.ok THEN live \cup {u} ELSE live
                        /\ hung' = IF n.stuck THEN hung \cup {fgtask} ELSE hung
                        /\ mishap' = mishap \cup Entered \cup ForkMishap(task.stack, n)
                                     \cup CopyMishap(Inherit(task))
  BY DEF Fork
<1> DEFINE n == MapUser(task_copy_vm(Inherit(task), task.pdir),
                        task.pdir, task.stack, task.stack)
           E == D \cup {task.pdir}
<1>2. /\ m' = n
      /\ live' = IF n.ok THEN live \cup {u} ELSE live
      /\ hung' = IF n.stuck THEN hung \cup {fgtask} ELSE hung
      /\ mishap' = mishap \cup Entered \cup ForkMishap(task.stack, n)
                   \cup CopyMishap(Inherit(task))
  BY <1>1 DEF MapUser
<1>3. u \notin live /\ boot' = boot /\ fgtask' = fgtask /\ execs' = execs
  BY DEF Fork
<1>4. boot \in Machines /\ fgtask \in live /\ live \subseteq Tasks
      /\ fgtask \in Tasks /\ pdir \in [Tasks -> Frames]
  BY DEF VarsOK
<1>5. pdir[fgtask] \in D
  BY <1>4 DEF Dirs
<1>6. /\ Safe(boot, n, E)
      /\ Closed(boot, m, D) => CopyOK(boot, D, E, n)
      /\ task.pdir \in Frames /\ task.stack \in Frames /\ task.block \in Blocks(Frames)
  <2>. HIDE DEF D, n, E
  <2>1. Safe(boot, m, D) /\ task = task_alloc(Sound) /\ task.m.ok
    BY <1>1 DEF D
  <2>2. E = D \cup {task.pdir}
    BY DEF E
  <2>3. n = MapUser(task_copy_vm(Inherit(task), task.pdir),
                    task.pdir, task.stack, task.stack)
    BY DEF n
  <2>4. boot \in Machines
    BY <1>4
  <2>5. CleanTable(Inherit(task))
    <3>1. "leftover" \notin CopyMishap(Inherit(task))
      BY <1>2 DEF Without
    <3>. QED
      BY <3>1 DEF CopyMishap, CleanTable
  <2>. QED
    BY ONLY <2>1, <2>2, <2>3, <2>4, <2>5, <1>5, Forks DEF Frames
<1>. HIDE DEF n, D, E
<1>7. Dirs' = IF n.ok THEN E ELSE D
  <2>1. pdir'[u] = task.pdir /\ \A t \in live : pdir'[t] = pdir[t]
    BY <1>1, <1>3, <1>4
  <2>2. D = {pdir[t] : t \in live} /\ Dirs' = {pdir'[t] : t \in live'}
    BY DEF Dirs, D
  <2>3. CASE n.ok
    <3>1. live' = live \cup {u}
      BY <1>2, <2>3
    <3>2. {pdir'[t] : t \in live \cup {u}} = {pdir[t] : t \in live} \cup {task.pdir}
      BY <2>1
    <3>. QED
      BY <2>2, <2>3, <3>1, <3>2 DEF E
  <2>4. CASE ~n.ok
    <3>1. live' = live
      BY <1>2, <2>4
    <3>. QED
      BY <2>1, <2>2, <2>4, <3>1
  <2>. QED
    BY <2>3, <2>4
<1>8. VarsOK'
  <2>1. Frames' = Frames
    BY <1>3 DEF Frames
  <2>2. /\ block' \in [Tasks -> Blocks(Frames)] /\ pdir' \in [Tasks -> Frames]
        /\ stack' \in [Tasks -> Frames]
    BY <1>1, <1>6 DEF VarsOK
  <2>3. Entered \cup ForkMishap(task.stack, n) \cup CopyMishap(Inherit(task))
            \subseteq AllMishaps
    BY DEF Entered, ForkMishap, CopyMishap, AllMishaps
  <2>4. mishap' \subseteq AllMishaps
    BY <1>2, <2>3 DEF VarsOK
  <2>. QED
    BY <1>1, <1>2, <1>3, <1>4, <1>6, <2>1, <2>2, <2>4 DEF VarsOK
<1>9. Safe(boot, n, Dirs')
  BY <1>6, <1>7, SafeSubset DEF E
<1>10. ASSUME Without({"oom"})' PROVE Closed(boot, n, Dirs')
  <2>1. "oom" \notin ForkMishap(task.stack, n) /\ Without({"oom"})
    BY <1>2, <1>10 DEF Without
  <2>2. n.used < n.top
    BY <2>1 DEF ForkMishap, NextFrame
  <2>3. CopyOK(boot, D, E, n)
    BY <1>6, <2>1 DEF D
  <2>. QED
    BY <1>7, <2>2, <2>3 DEF CopyOK
<1>. QED
  BY <1>2, <1>3, <1>8, <1>9, <1>10 DEF VmInv

(* task_fork that makes none: the frames it took are lost. *)
LEMMA ForkFailsKeeps ==
    ASSUME VarsOK, Safe(boot, m, Dirs), Without({"oom"}) => Closed(boot, m, Dirs),
           ForkFails
    PROVE  VmInv'
<1> DEFINE D == Dirs
<1>1. PICK task : /\ task = task_alloc(Sound)
                  /\ m' = task.m
                  /\ cr3' = IF task.loaded THEN task.pdir ELSE cr3
                  /\ hung' = IF task.m.stuck THEN hung \cup {fgtask} ELSE hung
                  /\ mishap' = mishap \cup Entered
                               \cup (IF task.m.stuck THEN {} ELSE {"oom"})
  BY DEF ForkFails
<1>2. UNCHANGED <<boot, block, pdir, stack, live, fgtask, execs>>
  BY DEF ForkFails
<1>3. boot \in Machines /\ boot.kernel \in Nat
  BY VmAssumption DEF VarsOK
<1>4. /\ Safe(boot, Sound, D) /\ (Closed(boot, m, D) => Closed(boot, Sound, D))
      /\ Sound.top = boot.top /\ MemoryOK(Sound)
  <2>1. /\ Safe(boot, Sound, D)
        /\ (Closed(boot, m, D) => Closed(boot, Sound, D)) /\ Sound.top = m.top
    BY <1>3, SoundIs
  <2>. QED
    BY <2>1 DEF Safe
<1>. HIDE DEF D
<1>5. Grew(Sound, task.m) /\ task.pdir \in Frames
  BY <1>1, <1>3, <1>4, TaskAlloc DEF Frames
<1>6. Safe(boot, m', D) /\ (Closed(boot, m, D) => Closed(boot, m', D))
  <2>1. /\ Safe(boot, task.m, D)
        /\ Closed(boot, Sound, D) => Closed(boot, task.m, D)
    BY <1>3, <1>4, <1>5, SafeGrew
  <2>. QED
    BY <1>1, <1>4, <2>1
<1>7. VarsOK'
  <2>1. Frames' = Frames
    BY <1>2 DEF Frames
  <2>2. Entered \cup (IF task.m.stuck THEN {} ELSE {"oom"}) \subseteq AllMishaps
    BY DEF Entered, AllMishaps
  <2>3. mishap' \subseteq AllMishaps
    BY <1>1, <2>2 DEF VarsOK
  <2>4. hung' \subseteq Tasks /\ cr3' \in Frames
    BY <1>1, <1>5 DEF VarsOK
  <2>. QED
    BY <1>2, <2>1, <2>3, <2>4 DEF VarsOK
<1>8. mishap \subseteq mishap' /\ Dirs' = Dirs /\ boot' = boot
  BY <1>1, <1>2 DEF Dirs
<1>. QED
  BY <1>6, <1>7, <1>8, KeepsInv DEF D

(* sys_exec. *)
LEMMA ExecKeeps ==
    ASSUME VarsOK, Safe(boot, m, Dirs), Without({"oom"}) => Closed(boot, m, Dirs),
           NEW image \in [ImageNumbers -> Values], Exec(image)
    PROVE  VmInv'
<1> DEFINE D == Dirs
           d == pdir[fgtask]
           n == LoadImage(Sound, d, image)
           new == (IF fgtask = 1 THEN {"reload"} ELSE {})
                  \cup (IF n.ok THEN {} ELSE {"partial"})
<1>1. /\ m' = n
      /\ hung' = IF n.stuck THEN hung \cup {fgtask} ELSE hung
      /\ mishap' = mishap \cup Entered \cup new
      /\ execs < MaxExecs /\ execs' = execs + 1
      /\ UNCHANGED <<boot, block, pdir, stack, live, fgtask, cr3>>
  BY DEF Exec
<1>2. boot \in Machines /\ d \in D /\ new \subseteq AllMishaps
  BY DEF VarsOK, Dirs, AllMishaps
<1>3. Safe(boot, Sound, D) /\ (Closed(boot, m, D) => Closed(boot, Sound, D))
  BY <1>2, SoundIs
<1>. HIDE DEF D, d, new
<1>4. Keeps(boot, D, Sound, n)
  BY <1>2, <1>3, Loads
<1>. HIDE DEF n
<1>5. Safe(boot, m', D) /\ (Closed(boot, m, D) => Closed(boot, m', D))
  BY <1>1, <1>3, <1>4 DEF Keeps
<1>6. VarsOK'
  <2>1. Frames' = Frames
    BY <1>1 DEF Frames
  <2>2. Entered \subseteq AllMishaps
    BY DEF Entered, AllMishaps
  <2>3. execs' \in 0 .. MaxExecs
    BY <1>1, VmAssumption DEF VarsOK
  <2>. QED
    BY <1>1, <1>2, <2>1, <2>2, <2>3 DEF VarsOK
<1>7. mishap \subseteq mishap' /\ Dirs' = Dirs /\ boot' = boot
  BY <1>1 DEF Dirs
<1>. QED
  BY <1>5, <1>6, <1>7, KeepsInv DEF D

(* A program's store. *)
LEMMA UserWriteKeeps ==
    ASSUME VarsOK, Safe(boot, m, Dirs), Without({"oom"}) => Closed(boot, m, Dirs),
           NEW va, NEW v \in Values, UserWrite(va, v)
    PROVE  VmInv'
<1> DEFINE D == Dirs
           p == FrameAt(m, cr3, va)
           new == (IF va \in Image /\ cr3 # pdir[fgtask] THEN {"borrowed"} ELSE {})
                  \cup (IF va \notin Image \cup {stack[fgtask]} THEN {"shared"} ELSE {})
                  \cup (IF p \in KernelsOwn THEN {"corrupt"} ELSE {})
<1>1. /\ m' = [m EXCEPT !.data[p] = v] /\ mishap' = mishap \cup new
      /\ UNCHANGED <<boot, block, pdir, stack, live, hung, fgtask, cr3, execs>>
  BY DEF UserWrite
<1>2. new \subseteq AllMishaps
  BY DEF AllMishaps
<1>3. boot \in Machines /\ boot.kernel \in Nat /\ MemoryOK(m)
  BY VmAssumption DEF VarsOK, Safe
<1>. HIDE DEF p, new
<1>4. Grew(m, m')
  BY <1>1, <1>3, Fills
<1>5. Safe(boot, m', Dirs) /\ (Closed(boot, m, Dirs) => Closed(boot, m', Dirs))
  BY <1>3, <1>4, SafeGrew
<1>6. Frames' = Frames
  BY <1>1 DEF Frames
<1>7. VarsOK'
  BY <1>1, <1>2, <1>6 DEF VarsOK
<1>8. mishap \subseteq mishap' /\ Dirs' = Dirs /\ boot' = boot
  BY <1>1 DEF Dirs
<1>. QED
  BY <1>5, <1>7, <1>8, KeepsInv

(* The steps that leave memory alone. *)
LEMMA OthersKeep ==
    ASSUME VarsOK, Safe(boot, m, Dirs), Without({"oom"}) => Closed(boot, m, Dirs),
           OtherCall \/ (\E t \in Tasks : Dispatch(t) \/ Exit(t)) \/ UNCHANGED vars
    PROVE  VmInv'
<1>1. /\ UNCHANGED <<boot, m, block, pdir, stack, hung, execs>>
      /\ live' \subseteq live
      /\ mishap \subseteq mishap' /\ mishap' \subseteq mishap \cup Entered
      /\ \/ fgtask' \in live' /\ cr3' = pdir[fgtask']
         \/ UNCHANGED <<live, fgtask, cr3>>
  <2>1. CASE OtherCall
    BY <2>1 DEF OtherCall
  <2>2. ASSUME NEW t \in Tasks, Dispatch(t)
        PROVE  /\ UNCHANGED <<boot, m, block, pdir, stack, hung, execs, live, mishap>>
               /\ fgtask' \in live' /\ cr3' = pdir[fgtask']
    BY <2>2 DEF Dispatch
  <2>3. ASSUME NEW t \in Tasks, Exit(t)
        PROVE  /\ UNCHANGED <<boot, m, block, pdir, stack, hung, execs>>
               /\ live' \subseteq live /\ mishap' = mishap \cup Entered
               /\ fgtask' \in live' /\ cr3' = pdir[fgtask']
    BY <2>3 DEF Exit
  <2>4. CASE UNCHANGED vars
    BY <2>4 DEF vars
  <2>. QED
    BY <2>1, <2>2, <2>3, <2>4
<1>2. Frames' = Frames
  BY <1>1 DEF Frames
<1>3. Entered \subseteq AllMishaps
  BY DEF Entered, AllMishaps
<1>4. fgtask' \in live' /\ live' \subseteq Tasks /\ cr3' \in Frames
  BY <1>1 DEF VarsOK
<1>5. VarsOK'
  BY <1>1, <1>2, <1>3, <1>4 DEF VarsOK
<1>6. Dirs' \subseteq Dirs
  BY <1>1 DEF Dirs
<1>7. Safe(boot, m', Dirs) /\ (Closed(boot, m, Dirs) => Closed(boot, m', Dirs))
  BY <1>1
<1>. QED
  BY <1>1, <1>5, <1>6, <1>7, KeepsInv

(* Every step. *)
LEMMA VmStep ==
    ASSUME VmInv, [Next]_vars
    PROVE  VmInv'
<1>1. SUFFICES ASSUME Without(Breaks)' PROVE VmInv'
  BY DEF VmInv
<1>2. mishap \subseteq mishap'
  BY DEF Next, vars, Fork, ForkFails, Exec, OtherCall, Dispatch, Exit,
         UserWrite, PageFault
<1>3. /\ VarsOK /\ Safe(boot, m, Dirs)
      /\ Without({"oom"}) => Closed(boot, m, Dirs)
  BY <1>1, <1>2 DEF VmInv, Without
<1>10. Without({"leftover"})'
  BY <1>1 DEF Without, Breaks
<1>4. CASE \E u \in Tasks : Fork(u)
  BY <1>3, <1>4, <1>10, ForkKeeps
<1>5. CASE ForkFails
  BY <1>3, <1>5, ForkFailsKeeps
<1>6. CASE \E image \in [ImageNumbers -> Values] : Exec(image)
  BY <1>3, <1>6, ExecKeeps
<1>7. CASE \E va \in 0 .. VaTop - 1, v \in Values : UserWrite(va, v)
  BY <1>3, <1>7, UserWriteKeeps
<1>8. CASE OtherCall \/ (\E t \in Tasks : Dispatch(t) \/ Exit(t)) \/ UNCHANGED vars
  BY <1>3, <1>8, OthersKeep
<1>9. CASE \E t \in Tasks : PageFault(t)
  <2>1. \E t \in Tasks : Dispatch(t)
    BY <1>9 DEF PageFault
  <2>. QED
    BY <1>3, <2>1, OthersKeep
<1>. QED
  BY <1>4, <1>5, <1>6, <1>7, <1>8, <1>9 DEF Next

(* The invariant holds in every reachable state. *)
LEMMA VmInvHolds == Spec => []VmInv
<1>1. Init => VmInv
  BY VmInit
<1>2. VmInv /\ [Next]_vars => VmInv'
  BY VmStep
<1>. QED
  BY <1>1, <1>2, PTL DEF Spec

(* The tables as they are when caches and the frames of children's tables were
   clean, nothing was written into a frame of the kernel's own, and no system call
   ran on a frame in use, of which the model does not say what it does to it. *)
MemorySound ==
    Without(Breaks \cup {"trample"}) =>
        /\ Safe(boot, m, Dirs)
        /\ Without({"oom"}) => Closed(boot, m, Dirs)

(* So memory is sound whatever is forked and loaded, failed calls included: every
   directory has the kernel's half, the tables of the user's half are none of the
   kernel's, no directories and at one place of them each, and as long as memory
   lasts no table is a page of a program (vm.c, task.c). *)
THEOREM MemoryIsSound == Spec => []MemorySound
<1>1. VmInv => MemorySound
  BY DEF VmInv, MemorySound, Without
<1>. QED
  BY <1>1, VmInvHolds, PTL

(* Everything has its type: memory too, if vm_init finds its caches clean, and a
   fork the table of its child, and no program has written to the kernel's frames.
   If not, vm_map_page can write anywhere. *)
THEOREM TypesHold == Spec => [](Without(Breaks) => TypeOK)
<1>1. VmInv => (Without(Breaks) => TypeOK)
  BY SoundTypes DEF VmInv
<1>. QED
  BY <1>1, VmInvHolds, PTL

(* What a directory has at a page that the kernel shares. *)
LEMMA SharedPage ==
    ASSUME NEW b, NEW x, NEW D, Safe(b, x, D), NEW d \in D, NEW i \in Shared,
           NEW y \in 0 .. PtblSize - 1, NEW va, va = PtblSize * i + y
    PROVE  /\ Mapped(x, d, va) /\ FrameAt(x, d, va) = FirstPage(i) + y
           /\ ~UserMay(x, d, va)
<1> DEFINE f == SharedEntry(x, i).frame
<1>1. PDIRE(va) = i /\ PTBLE(va) = y
  BY SharedPlace, Page
<1>2. /\ i \in DOMAIN x.table[d] /\ x.table[d][i] = SharedEntry(x, i)
      /\ SharedEntry(x, i) = KernelEntry(f) /\ x.table[f] = SharedTable(i)
  BY DEF Safe, Sharing, CachesOK, InCache
<1>3. /\ KernelEntry(f).frame = f /\ KernelEntry(f).user = FALSE
      /\ \A g : KernelEntry(g).frame = g
  BY DEF KernelEntry, Entry
<1>4. y \in DOMAIN SharedTable(i) /\ SharedTable(i)[y] = KernelEntry(FirstPage(i) + y)
  BY SharedTableIs
<1>. HIDE DEF f
<1>5. x.table[d][i].frame = f /\ ~x.table[d][i].user
  BY <1>2, <1>3
<1>6. x.table[f][y].frame = FirstPage(i) + y /\ y \in DOMAIN x.table[f]
  BY <1>2, <1>3, <1>4
<1>. QED
  BY <1>1, <1>2, <1>5, <1>6 DEF Mapped, FrameAt, UserMay

(* The kernel's memory and I/O are in every task's directory, whatever has been
   forked and loaded, until something is written into a frame of the kernel's own. *)
THEOREM KernelStaysMapped == Spec => []KernelMapped
<1>1. ASSUME VmInv PROVE KernelMapped
  <2>1. SUFFICES ASSUME Without(Breaks), NEW t \in live
                 PROVE  /\ \A f \in 0 .. KHEAP - 1 :
                              /\ Mapped(m, pdir[t], KHALF + f)
                              /\ FrameAt(m, pdir[t], KHALF + f) = f
                              /\ ~UserMay(m, pdir[t], KHALF + f)
                        /\ \A va \in IO_START .. VaTop - 1 :
                              /\ Mapped(m, pdir[t], va)
                              /\ FrameAt(m, pdir[t], va) = va
                              /\ ~UserMay(m, pdir[t], va)
    BY DEF KernelMapped, Without, Breaks
  <2>2. Safe(boot, m, Dirs) /\ pdir[t] \in Dirs
    BY <1>1, <2>1 DEF VmInv, Dirs
  <2>3. ASSUME NEW f \in 0 .. KHEAP - 1
        PROVE  /\ Mapped(m, pdir[t], KHALF + f)
               /\ FrameAt(m, pdir[t], KHALF + f) = f
               /\ ~UserMay(m, pdir[t], KHALF + f)
    <3> DEFINE i == HALF + PDIRE(f)
               y == PTBLE(f)
    <3>1. /\ PDIRE(f) \in Nat /\ y \in 0 .. PtblSize - 1
          /\ f = PtblSize * PDIRE(f) + y /\ PDIRE(f) < KTABLES
      BY Constants, PageParts, PageBelow
    <3>2. i \in Shared /\ FirstPage(i) = PtblSize * PDIRE(f)
      BY <3>1, Constants DEF Shared, FirstPage
    <3>3. KHALF + f = PtblSize * i + y
      <4>1. PtblSize * (HALF + PDIRE(f)) = PtblSize * HALF + PtblSize * PDIRE(f)
        BY <3>1, Constants
      <4>2. PtblSize * HALF \in Nat /\ PtblSize * PDIRE(f) \in Nat
        BY <3>1, Constants
      <4>. QED
        BY <3>1, <4>1, <4>2, Constants
    <3>. HIDE DEF i, y
    <3>. QED
      BY <2>2, <3>1, <3>2, <3>3, SharedPage
  <2>4. ASSUME NEW va \in IO_START .. VaTop - 1
        PROVE  /\ Mapped(m, pdir[t], va)
               /\ FrameAt(m, pdir[t], va) = va
               /\ ~UserMay(m, pdir[t], va)
    <3> DEFINE i == PDIRE(va)
               y == PTBLE(va)
    <3>1. va \in Nat /\ IO_START = PtblSize * IO /\ VaTop = PtblSize * (IO + IOTABLES)
      BY Constants
    <3>2. /\ i \in Nat /\ y \in 0 .. PtblSize - 1 /\ va = PtblSize * i + y
          /\ i < IO + IOTABLES
      BY <3>1, Constants, PageParts, PageBelow
    <3>3. i >= IO
      <4>1. IO_START \div PtblSize <= va \div PtblSize
        BY <3>1, Constants, Monotone
      <4>. QED
        BY <4>1 DEF IO, PDIRE
    <3>4. i \in Shared /\ FirstPage(i) = PtblSize * i
      BY <3>2, <3>3, Constants DEF Shared, FirstPage
    <3>. HIDE DEF i, y
    <3>. QED
      BY <2>2, <3>2, <3>4, SharedPage
  <2>. QED
    BY <2>3, <2>4
<1>. QED
  BY <1>1, VmInvHolds, PTL

(* Where a program's page is. *)
LEMMA PageIsOwn ==
    ASSUME NEW D, Safe(boot, m, D), Closed(boot, m, D), NEW d \in D,
           NEW va \in 0 .. KHALF - 1, Mapped(m, d, va)
    PROVE  /\ FrameAt(m, d, va) >= boot.kernel /\ FrameAt(m, d, va) < KHEAP
           /\ FrameAt(m, d, va) \notin AllTables(m, D)
<1> DEFINE i == PDIRE(va)
           f == m.table[d][i].frame
<1>1. i < HALF
  BY Constants, PageBelow
<1>2. i \in DOMAIN m.table[d] /\ PTBLE(va) \in DOMAIN m.table[f]
  BY DEF Mapped
<1>3. f \in UserTables(m, D)
  BY <1>1, <1>2 DEF UserTables, Half
<1>4. FrameAt(m, d, va) = m.table[f][PTBLE(va)].frame
  BY DEF FrameAt
<1>. HIDE DEF i, f
<1>5. OwnPages(boot, m, D, f)
  BY <1>3 DEF Closed
<1>. QED
  BY <1>2, <1>4, <1>5 DEF OwnPages

(* As long as memory lasts no program reaches a page table, and all of them
   are where the kernel can reach them. *)
THEOREM TablesStayClosed == Spec => []TablesAreClosed
<1>1. ASSUME VmInv PROVE TablesAreClosed
  <2>1. SUFFICES ASSUME Without(Breaks), Without({"oom"}) PROVE TablesAreClosed
    BY DEF TablesAreClosed, Without, Breaks
  <2>2. VarsOK /\ Safe(boot, m, Dirs) /\ Closed(boot, m, Dirs)
    BY <1>1, <2>1 DEF VmInv
  <2>3. \A t \in live : TablesOf(t) \subseteq KFrames(m) \cup UserTables(m, Dirs)
    <3>1. SUFFICES ASSUME NEW t \in live, NEW i \in DOMAIN m.table[pdir[t]]
                   PROVE  m.table[pdir[t]][i].frame \in KFrames(m) \cup UserTables(m, Dirs)
      BY DEF TablesOf
    <3>2. pdir[t] \in Dirs /\ Sharing(m, pdir[t])
      BY <2>2 DEF Dirs, Safe
    <3>3. CASE i < HALF
      BY <3>2, <3>3 DEF UserTables, Half
    <3>4. CASE i \in Shared
      BY <3>2, <3>4 DEF Sharing, KFrames
    <3>. QED
      BY <3>2, <3>3, <3>4 DEF Sharing
  <2>4. Tables \subseteq AllTables(m, Dirs)
    BY <2>3 DEF Tables, AllTables, Dirs
  <2>5. ASSUME NEW t \in live, NEW va \in 0 .. KHALF - 1, UserMay(m, pdir[t], va)
        PROVE  /\ FrameAt(m, pdir[t], va) \notin Tables
               /\ FrameAt(m, pdir[t], va) >= boot.kernel
    <3>1. pdir[t] \in Dirs /\ Mapped(m, pdir[t], va)
      BY <2>5 DEF Dirs, UserMay
    <3>. QED
      BY <2>2, <2>4, <3>1, PageIsOwn
  <2>6. ASSUME NEW t \in live, NEW f \in TablesOf(t) PROVE f < KHEAP
    <3>1. CASE f \in UserTables(m, Dirs)
      BY <2>2, <3>1 DEF Closed
    <3>2. CASE f \in KFrames(m)
      BY <2>2, <3>2 DEF KFrames, Safe, CachesOK, InCache
    <3>. QED
      BY <2>3, <2>6, <3>1, <3>2
  <2>7. ASSUME NEW t \in live, NEW f \in ImageOf(t) PROVE f < KHEAP
    <3>1. PICK va \in Image : Mapped(m, pdir[t], va) /\ f = FrameAt(m, pdir[t], va)
      BY <2>7 DEF ImageOf
    <3>2. boot.start \in Nat /\ Pages \in Nat /\ boot.start + Pages < KHALF /\ KHALF \in Nat
      BY <2>2, VmAssumption, Constants DEF VarsOK
    <3>3. va \in 0 .. KHALF - 1
      BY <3>2 DEF Image
    <3>4. pdir[t] \in Dirs
      BY DEF Dirs
    <3>. QED
      BY <2>2, <3>1, <3>3, <3>4, PageIsOwn
  <2>. QED
    BY <2>5, <2>6, <2>7 DEF TablesAreClosed
<1>. QED
  BY <1>1, VmInvHolds, PTL

-----------------------------------------------------------------------------
(* Memory of one's own.                                                    *)

UserPages == 0 .. KHALF - 1

(* No frame is a page at two places of the user tables, or at a place f. *)
Once(x, D) ==
    \A f, g \in UserTables(x, D) :
        \A y \in DOMAIN x.table[f], z \in DOMAIN x.table[g] :
            x.table[f][y].frame = x.table[g][z].frame => f = g /\ y = z
Unused(x, D, f) ==
    \A g \in UserTables(x, D) : \A y \in DOMAIN x.table[g] : x.table[g][y].frame # f

(* What a program reads at a page. *)
Reads(x, d, va) == x.data[FrameAt(x, d, va)]

(* A page that stays where it is. *)
SamePage(x, r, c, w) == Mapped(r, c, w) /\ FrameAt(r, c, w) = FrameAt(x, c, w)

(* Directories c and d have different tables for a page. *)
Apart(x, c, d, w) ==
    /\ PDIRE(w) \in DOMAIN x.table[d]
    /\ x.table[c][PDIRE(w)].frame # x.table[d][PDIRE(w)].frame

(* The directories in D keep their tables. *)
SameDirs(D, x, r) ==
    \A c \in D : \A i \in Half(x, c) : i \in Half(r, c) /\ r.table[c][i] = x.table[c][i]

(* Page va of directory d is now frame f; so it is where the table is shared,
   and nothing else is different. *)
Placed(D, x, r, d, va, f) ==
    /\ \A c \in D : \A w \in UserPages :
          Mapped(x, c, w) /\ (w # va \/ Apart(x, c, d, w)) => SamePage(x, r, c, w)
    /\ \A c \in D :
          Mapped(x, c, va) /\ PDIRE(va) \in DOMAIN x.table[d]
            /\ x.table[c][PDIRE(va)].frame = x.table[d][PDIRE(va)].frame
          => Mapped(r, c, va) /\ FrameAt(r, c, va) = f
    /\ Mapped(r, d, va) /\ FrameAt(r, d, va) = f
    /\ SameDirs(D, x, r)
    /\ r.data = x.data
    /\ Once(x, D) /\ Unused(x, D, f) => Once(r, D)
    /\ \A g : g # f /\ Unused(x, D, g) => Unused(r, D, g)

(* Where a page of the user's half is. *)
LEMMA UserPlace ==
    ASSUME NEW w \in UserPages
    PROVE  w \in Nat /\ PDIRE(w) \in 0 .. HALF - 1 /\ PTBLE(w) \in 0 .. PtblSize - 1
<1>1. w \in Nat /\ w < PtblSize * HALF /\ HALF \in Nat
  BY Constants DEF UserPages
<1>2. PDIRE(w) < HALF
  BY <1>1, PageBelow
<1>. QED
  BY <1>1, <1>2, PageParts

(* Only one page is there. *)
LEMMA OnePlace ==
    ASSUME NEW v \in Nat, NEW w \in Nat, PDIRE(v) = PDIRE(w), PTBLE(v) = PTBLE(w)
    PROVE  v = w
<1>1. v = PtblSize * PDIRE(v) + PTBLE(v) /\ w = PtblSize * PDIRE(w) + PTBLE(w)
  BY PageParts
<1>2. PtblSize * PDIRE(v) + PTBLE(v) = PtblSize * PDIRE(w) + PTBLE(w)
  BY ONLY PDIRE(v) = PDIRE(w), PTBLE(v) = PTBLE(w)
<1>. QED
  BY ONLY <1>1, <1>2

(* The tables of directories are user tables, and no directories. *)
LEMMA TableOf ==
    ASSUME NEW b, NEW x, NEW D, Safe(b, x, D), NEW c \in D, NEW i \in Half(x, c)
    PROVE  /\ x.table[c][i].frame \in UserTables(x, D)
           /\ x.table[c][i].frame \in 0 .. x.used - 1
           /\ x.table[c][i].frame \notin D
BY DEF UserTables, Safe, TableOK

(* A page that is mapped is in a user table. *)
LEMMA MappedIn ==
    ASSUME NEW b, NEW x, NEW D, Safe(b, x, D), NEW c \in D, NEW w \in UserPages,
           Mapped(x, c, w)
    PROVE  /\ PDIRE(w) \in Half(x, c)
           /\ x.table[c][PDIRE(w)].frame \in UserTables(x, D)
           /\ x.table[c][PDIRE(w)].frame \in 0 .. x.used - 1
           /\ x.table[c][PDIRE(w)].frame \notin D
           /\ PTBLE(w) \in DOMAIN x.table[x.table[c][PDIRE(w)].frame]
           /\ FrameAt(x, c, w) \in 0 .. x.used - 1
<1>1. PDIRE(w) \in Half(x, c)
  BY UserPlace, Constants DEF Mapped, Half
<1>2. /\ x.table[c][PDIRE(w)].frame \in UserTables(x, D)
      /\ x.table[c][PDIRE(w)].frame \in 0 .. x.used - 1
      /\ x.table[c][PDIRE(w)].frame \notin D
  BY <1>1, TableOf
<1>3. PTBLE(w) \in DOMAIN x.table[x.table[c][PDIRE(w)].frame]
  BY DEF Mapped
<1>4. FrameAt(x, c, w) \in 0 .. x.used - 1
  BY <1>2, <1>3, PagesExist DEF FrameAt
<1>. QED
  BY <1>1, <1>2, <1>3, <1>4

(* How a frame is shown to be a page at one place only. *)
LEMMA OnceFrom ==
    ASSUME NEW r, NEW D, NEW U, UserTables(r, D) = U,
           \A h, k \in U : \A z \in DOMAIN r.table[h] : \A w \in DOMAIN r.table[k] :
               r.table[h][z].frame = r.table[k][w].frame => h = k /\ z = w
    PROVE  Once(r, D)
BY DEF Once

(* A page put in a table that is there. *)
LEMMA PlacesPage ==
    ASSUME NEW b, NEW x, NEW D, Safe(b, x, D), NEW d \in D, NEW va \in UserPages,
           PDIRE(va) \in DOMAIN x.table[d], NEW f \in 0 .. VaTop - 1,
           NEW user \in BOOLEAN,
           NEW r, r = PutEntry(x, x.table[d][PDIRE(va)].frame, PTBLE(va), Entry(f, user))
    PROVE  Placed(D, x, r, d, va, f)
<1> DEFINE i == PDIRE(va)
           y == PTBLE(va)
           e == Entry(f, user)
           g == x.table[d][i].frame
<1>1. va \in Nat /\ i \in 0 .. HALF - 1 /\ y \in 0 .. PtblSize - 1
  BY UserPlace
<1>2. IsEntry(e) /\ e.frame = f
  BY EntryIs
<1>3. i \in Half(x, d)
  BY <1>1, Constants DEF Half
<1>4. r = PutEntry(x, g, y, e) /\ g = x.table[d][i].frame
  OBVIOUS
<1>5. g \in 0 .. x.used - 1 /\ g \notin D /\ g \in UserTables(x, D)
  BY <1>3, TableOf
<1>6. i = PDIRE(va) /\ y = PTBLE(va)
  OBVIOUS
<1>. HIDE DEF i, y, e, g
<1> DEFINE t == Put(x.table[g], y, e)
<1>7. /\ r.data = x.data /\ r.table[g] = t
      /\ \A h \in 0 .. x.top - 1 : h # g => r.table[h] = x.table[h]
  <2>1. MemoryOK(x)
    BY DEF Safe
  <2>2. y \in 0 .. VaTop
    BY <1>1, Indices, Constants
  <2>. HIDE DEF t
  <2>3. LET s == PutEntry(x, g, y, e)
        IN  /\ s.data = x.data /\ s.table[g] = Put(x.table[g], y, e)
            /\ \A h \in 0 .. x.top - 1 : h # g => s.table[h] = x.table[h]
    BY <1>2, <1>5, <2>1, <2>2, Puts
  <2>. QED
    BY <1>4, <2>3 DEF t
<1>8. /\ DOMAIN t = {y} \cup DOMAIN x.table[g] /\ t[y] = e
      /\ \A z \in DOMAIN x.table[g] : z # y => t[z] = x.table[g][z]
  <2>1. t = Put(x.table[g], y, e)
    OBVIOUS
  <2>. HIDE DEF t
  <2>. QED
    BY <2>1 DEF Put, Over
<1>. HIDE DEF t
<1>9. \A h \in 0 .. x.used - 1 : h # g => r.table[h] = x.table[h]
  <2>1. \A h \in 0 .. x.used - 1 : h \in 0 .. x.top - 1
    BY Sizes DEF Safe
  <2>. QED
    BY <1>7, <2>1
<1>10. \A c \in D : r.table[c] = x.table[c] /\ Half(r, c) = Half(x, c)
  <2>1. \A c \in D : c \in 0 .. x.used - 1 /\ c # g
    BY <1>5 DEF Safe
  <2>. QED
    BY <1>9, <2>1 DEF Half
<1>11. UserTables(r, D) = UserTables(x, D)
  BY ONLY <1>10 DEF UserTables
<1>12. UserTables(x, D) \subseteq 0 .. x.used - 1
  BY TablesExist DEF AllTables
<1>13. ASSUME NEW c \in D, NEW w \in UserPages, Mapped(x, c, w)
       PROVE  /\ Mapped(r, c, w)
              /\ ~(x.table[c][PDIRE(w)].frame = g /\ PTBLE(w) = y)
                    => FrameAt(r, c, w) = FrameAt(x, c, w)
              /\ x.table[c][PDIRE(w)].frame = g /\ PTBLE(w) = y
                    => FrameAt(r, c, w) = f
  <2> DEFINE j == PDIRE(w)
             z == PTBLE(w)
             h == x.table[c][j].frame
  <2>1. h \in 0 .. x.used - 1 /\ z \in DOMAIN x.table[h] /\ j \in DOMAIN x.table[c]
    BY <1>13, MappedIn DEF Mapped
  <2>2. r.table[c][j].frame = h /\ j \in DOMAIN r.table[c]
    BY <1>10, <2>1
  <2>3. FrameAt(x, c, w) = x.table[h][z].frame
    BY DEF FrameAt
  <2>4. /\ Mapped(r, c, w) <=> z \in DOMAIN r.table[h]
        /\ FrameAt(r, c, w) = r.table[h][z].frame
    BY <2>2 DEF Mapped, FrameAt
  <2>5. x.table[c][PDIRE(w)].frame = h /\ PTBLE(w) = z
    OBVIOUS
  <2>. HIDE DEF j, z, h
  <2>6. CASE h # g
    BY <1>9, <2>1, <2>3, <2>4, <2>5, <2>6
  <2>7. CASE h = g
    BY <1>2, <1>7, <1>8, <2>1, <2>3, <2>4, <2>5, <2>7
  <2>. QED
    BY <2>6, <2>7
<1>14. ASSUME NEW c \in D, NEW w \in UserPages, Mapped(x, c, w),
              w # va \/ Apart(x, c, d, w)
       PROVE  SamePage(x, r, c, w)
  <2>1. SUFFICES ASSUME x.table[c][PDIRE(w)].frame = g, PTBLE(w) = y PROVE FALSE
    BY <1>13, <1>14 DEF SamePage
  <2>2. PDIRE(w) \in Half(x, c) /\ w \in Nat
    BY <1>14, MappedIn, UserPlace
  <2>3. PDIRE(w) = i
    BY <1>3, <1>4, <2>1, <2>2 DEF Safe
  <2>4. w = va
    BY <1>1, <1>6, <2>1, <2>2, <2>3, OnePlace
  <2>. QED
    BY <1>4, <1>14, <2>1, <2>3, <2>4 DEF Apart
<1>15. ASSUME NEW c \in D, Mapped(x, c, va),
              x.table[c][PDIRE(va)].frame = x.table[d][PDIRE(va)].frame
       PROVE  Mapped(r, c, va) /\ FrameAt(r, c, va) = f
  BY <1>4, <1>6, <1>13, <1>15
<1>16. Mapped(r, d, va) /\ FrameAt(r, d, va) = f
  <2>1. r.table[d][i].frame = g /\ i \in DOMAIN r.table[d]
    BY <1>3, <1>4, <1>10 DEF Half
  <2>2. y \in DOMAIN r.table[g] /\ r.table[g][y].frame = f
    BY <1>2, <1>7, <1>8
  <2>. QED
    BY <1>6, <2>1, <2>2 DEF Mapped, FrameAt
<1>17. SameDirs(D, x, r)
  BY <1>10 DEF SameDirs
<1>18. ASSUME NEW h \in UserTables(x, D), NEW z \in DOMAIN r.table[h]
       PROVE  \/ h = g /\ z = y /\ r.table[h][z].frame = f
              \/ ~(h = g /\ z = y) /\ z \in DOMAIN x.table[h]
                 /\ r.table[h][z].frame = x.table[h][z].frame
  <2>1. CASE h # g
    BY <1>9, <1>12, <1>18, <2>1
  <2>2. CASE h = g
    BY <1>2, <1>7, <1>8, <1>18, <2>2
  <2>. QED
    BY <2>1, <2>2
<1>19. ASSUME Once(x, D), Unused(x, D, f) PROVE Once(r, D)
  <2>1. SUFFICES ASSUME NEW h \in UserTables(x, D), NEW k \in UserTables(x, D),
                        NEW z \in DOMAIN r.table[h], NEW w \in DOMAIN r.table[k],
                        r.table[h][z].frame = r.table[k][w].frame
                 PROVE  h = k /\ z = w
    BY ONLY <1>11, <2>1, OnceFrom
  <2> DEFINE H == h = g /\ z = y
             K == k = g /\ w = y
             p == r.table[h][z].frame
             q == r.table[k][w].frame
  <2>2. \/ H /\ p = f
        \/ ~H /\ z \in DOMAIN x.table[h] /\ p = x.table[h][z].frame
    BY <1>18
  <2>3. \/ K /\ q = f
        \/ ~K /\ w \in DOMAIN x.table[k] /\ q = x.table[k][w].frame
    BY <1>18
  <2>4. p = q
    BY <2>1
  <2>5. H /\ K => h = k /\ z = w
    OBVIOUS
  <2>6. z \in DOMAIN x.table[h] => x.table[h][z].frame # f
    BY <1>19 DEF Unused
  <2>7. w \in DOMAIN x.table[k] => x.table[k][w].frame # f
    BY <1>19 DEF Unused
  <2>8. z \in DOMAIN x.table[h] /\ w \in DOMAIN x.table[k]
          /\ x.table[h][z].frame = x.table[k][w].frame => h = k /\ z = w
    BY <1>19 DEF Once
  <2>. HIDE DEF H, K, p, q
  <2>. QED
    BY <2>2, <2>3, <2>4, <2>5, <2>6, <2>7, <2>8
<1>20. ASSUME NEW h, h # f, Unused(x, D, h) PROVE Unused(r, D, h)
  BY ONLY <1>11, <1>18, <1>20 DEF Unused
<1>. QED
  BY <1>7, <1>14, <1>15, <1>16, <1>17, <1>19, <1>20 DEF Placed

(* Directory d has another table at index i, which is empty. *)
NewTabled(D, x, r, d, i, f) ==
    /\ \A c \in D : \A w \in UserPages :
          Mapped(x, c, w) /\ ~(c = d /\ PDIRE(w) = i) => SamePage(x, r, c, w)
    /\ \A c \in D : \A j \in Half(x, c) :
          ~(c = d /\ j = i) => j \in Half(r, c) /\ r.table[c][j] = x.table[c][j]
    /\ i \in Half(r, d) /\ r.table[d][i].frame = f
    /\ r.data = x.data
    /\ Once(x, D) => Once(r, D)
    /\ \A g : Unused(x, D, g) => Unused(r, D, g)

(* A new table is put in a directory: no page is anywhere else. *)
LEMMA PlacesTable ==
    ASSUME NEW b, NEW x, NEW D, Safe(b, x, D), NEW d \in D,
           NEW i \in 0 .. HALF - 1, NEW user \in BOOLEAN,
           NEW f \in 1 .. x.used - 1, f \notin AllTables(x, D), x.table[f] = Absent,
           NEW r, r = PutEntry(x, d, i, Entry(f, user))
    PROVE  NewTabled(D, x, r, d, i, f)
<1> DEFINE e == Entry(f, user)
<1>1. IsEntry(e) /\ e.frame = f
  <2>1. f \in 0 .. VaTop - 1
    BY Sizes DEF Safe
  <2>. QED
    BY <2>1, EntryIs
<1>2. r = PutEntry(x, d, i, e)
  OBVIOUS
<1>. HIDE DEF e
<1>3. /\ MemoryOK(x) /\ d \in 0 .. x.used - 1 /\ i \in 0 .. VaTop
      /\ \A h \in 0 .. x.used - 1 : h \in 0 .. x.top - 1
  BY Indices, Constants, Sizes DEF Safe
<1>4. /\ r.data = x.data /\ r.table[d] = Put(x.table[d], i, e)
      /\ \A h \in 0 .. x.top - 1 : h # d => r.table[h] = x.table[h]
  <2>1. LET s == PutEntry(x, d, i, e)
        IN  /\ s.data = x.data /\ s.table[d] = Put(x.table[d], i, e)
            /\ \A h \in 0 .. x.top - 1 : h # d => s.table[h] = x.table[h]
    BY <1>1, <1>3, Puts
  <2>. QED
    BY <1>2, <2>1
<1>5. /\ DOMAIN r.table[d] = {i} \cup DOMAIN x.table[d] /\ r.table[d][i] = e
      /\ \A j \in DOMAIN x.table[d] : j # i => r.table[d][j] = x.table[d][j]
  BY <1>4 DEF Put, Over
<1>6. \A h \in 0 .. x.used - 1 : h # d => r.table[h] = x.table[h]
  BY <1>3, <1>4
<1>7. ASSUME NEW c \in D, NEW j \in Half(x, c), ~(c = d /\ j = i)
      PROVE  j \in Half(r, c) /\ r.table[c][j] = x.table[c][j]
  <2>1. c \in 0 .. x.used - 1 /\ j \in DOMAIN x.table[c] /\ j < HALF
    BY DEF Safe, Half
  <2>2. CASE c = d
    BY <1>5, <1>7, <2>1, <2>2 DEF Half
  <2>3. CASE c # d
    BY <1>6, <2>1, <2>3 DEF Half
  <2>. QED
    BY <2>2, <2>3
<1>8. i \in Half(r, d) /\ r.table[d][i].frame = f
  BY <1>1, <1>5, Constants DEF Half
<1>9. \A g \in UserTables(x, D) : g \in 0 .. x.used - 1 /\ g # d
  <2>1. UserTables(x, D) \subseteq 0 .. x.used - 1
    BY TablesExist DEF AllTables
  <2>2. \A g \in UserTables(x, D) : g \notin D
    BY TableOf DEF UserTables
  <2>. QED
    BY <2>1, <2>2
<1>10. \A g \in UserTables(x, D) : r.table[g] = x.table[g]
  BY <1>6, <1>9
<1>11. r.table[f] = x.table[f] /\ DOMAIN r.table[f] = {}
  <2>1. f # d /\ f \in 0 .. x.used - 1
    BY DEF AllTables
  <2>. QED
    BY <1>6, <2>1 DEF Absent
<1>12. \A g \in UserTables(r, D) : g \in UserTables(x, D) \/ g = f
  <2>1. SUFFICES ASSUME NEW c \in D, NEW j \in Half(r, c)
                 PROVE  r.table[c][j].frame \in UserTables(x, D) \/ r.table[c][j].frame = f
    BY DEF UserTables
  <2>2. CASE c = d /\ j = i
    BY <1>8, <2>2
  <2>3. CASE ~(c = d /\ j = i)
    <3>1. j \in Half(x, c)
      <4>1. c \in 0 .. x.used - 1 /\ j \in DOMAIN r.table[c] /\ j < HALF
        BY DEF Safe, Half
      <4>2. j \in DOMAIN x.table[c]
        BY <1>5, <1>6, <2>3, <4>1
      <4>. QED
        BY <4>1, <4>2 DEF Half
    <3>2. r.table[c][j] = x.table[c][j]
      BY <1>7, <2>3, <3>1
    <3>. QED
      BY <3>1, <3>2, TableOf
  <2>. QED
    BY <2>2, <2>3
<1>13. ASSUME NEW c \in D, NEW w \in UserPages, Mapped(x, c, w),
              ~(c = d /\ PDIRE(w) = i)
       PROVE  SamePage(x, r, c, w)
  <2> DEFINE j == PDIRE(w)
             h == x.table[c][j].frame
  <2>1. j \in Half(x, c) /\ h \in UserTables(x, D) /\ PTBLE(w) \in DOMAIN x.table[h]
    BY <1>13, MappedIn
  <2>2. j \in DOMAIN r.table[c] /\ r.table[c][j].frame = h
    BY <1>7, <1>13, <2>1 DEF Half
  <2>3. r.table[h] = x.table[h]
    BY <1>10, <2>1
  <2>. QED
    BY <2>1, <2>2, <2>3 DEF SamePage, Mapped, FrameAt
<1>14. ASSUME Once(x, D) PROVE Once(r, D)
  <2> DEFINE U == UserTables(r, D)
  <2>1. ASSUME NEW h \in U, NEW k \in U,
               NEW z \in DOMAIN r.table[h], NEW w \in DOMAIN r.table[k],
               r.table[h][z].frame = r.table[k][w].frame
        PROVE  h = k /\ z = w
    <3>1. h \in UserTables(x, D) /\ k \in UserTables(x, D)
      BY <1>11, <1>12
    <3>2. r.table[h] = x.table[h] /\ r.table[k] = x.table[k]
      BY <1>10, <3>1
    <3>3. x.table[h][z].frame = x.table[k][w].frame
      BY <2>1, <3>2
    <3>. QED
      BY <1>14, <3>1, <3>2, <3>3 DEF Once
  <2>2. UserTables(r, D) = U
    OBVIOUS
  <2>. HIDE DEF U
  <2>. QED
    BY <2>1, <2>2, OnceFrom
<1>15. ASSUME NEW g, Unused(x, D, g) PROVE Unused(r, D, g)
  BY <1>10, <1>11, <1>12, <1>15 DEF Unused
<1>. QED
  BY <1>4, <1>7, <1>8, <1>13, <1>14, <1>15 DEF NewTabled

(* No page has been moved, and no table put elsewhere. *)
Still(D, x, r) ==
    /\ \A c \in D : \A w \in UserPages : Mapped(x, c, w) => SamePage(x, r, c, w)
    /\ SameDirs(D, x, r)
    /\ Once(x, D) => Once(r, D)
    /\ \A g : Unused(x, D, g) => Unused(r, D, g)

(* Taking frames moves none. *)
LEMMA GrewStill ==
    ASSUME NEW b, NEW x, NEW D, Safe(b, x, D), NEW r, Grew(x, r)
    PROVE  Still(D, x, r) /\ UserTables(r, D) = UserTables(x, D)
<1>1. \A c \in D : c \in 0 .. x.used - 1
  BY DEF Safe
<1>2. \A h \in 0 .. x.used - 1 : r.table[h] = x.table[h]
  BY DEF Grew
<1>3. \A c \in D : r.table[c] = x.table[c] /\ Half(r, c) = Half(x, c)
  BY <1>1, <1>2 DEF Half
<1>4. UserTables(r, D) = UserTables(x, D)
  BY <1>3 DEF UserTables
<1>5. \A g \in UserTables(x, D) : r.table[g] = x.table[g]
  BY <1>2, TablesExist DEF AllTables
<1>6. ASSUME NEW c \in D, NEW w \in UserPages, Mapped(x, c, w)
      PROVE  SamePage(x, r, c, w)
  <2> DEFINE h == x.table[c][PDIRE(w)].frame
  <2>1. h \in UserTables(x, D) /\ PTBLE(w) \in DOMAIN x.table[h]
        /\ PDIRE(w) \in DOMAIN x.table[c]
    BY <1>6, MappedIn DEF Half
  <2>. QED
    BY <1>3, <1>5, <2>1 DEF SamePage, Mapped, FrameAt
<1>7. SameDirs(D, x, r)
  BY <1>3 DEF SameDirs
<1>8. ASSUME Once(x, D) PROVE Once(r, D)
  <2> DEFINE U == UserTables(x, D)
  <2>1. ASSUME NEW h \in U, NEW k \in U,
               NEW z \in DOMAIN r.table[h], NEW w \in DOMAIN r.table[k],
               r.table[h][z].frame = r.table[k][w].frame
        PROVE  h = k /\ z = w
    <3>1. r.table[h] = x.table[h] /\ r.table[k] = x.table[k]
      BY <1>5
    <3>. QED
      BY <1>8, <2>1, <3>1 DEF Once
  <2>2. UserTables(r, D) = U
    BY <1>4
  <2>. HIDE DEF U
  <2>. QED
    BY <2>1, <2>2, OnceFrom
<1>9. ASSUME NEW g, Unused(x, D, g) PROVE Unused(r, D, g)
  BY <1>4, <1>5, <1>9 DEF Unused
<1>. QED
  BY <1>4, <1>6, <1>7, <1>8, <1>9 DEF Still

(* vm_map_page puts a page of the user's half where it was told. *)
LEMMA MapsPlaced ==
    ASSUME NEW b, b.kernel \in Nat, NEW x, NEW D, Safe(b, x, D), NEW d \in D,
           NEW va \in UserPages, NEW pa \in 0 .. x.used - 1,
           NEW r, r = MapUser(x, d, pa, va)
    PROVE  \/ ~r.ok /\ Took(x, r)
           \/ Placed(D, x, r, d, va, pa)
<1> DEFINE user == TRUE
           i == PDIRE(va)
           y == PTBLE(va)
           e == Entry(pa, user)
<1>1. user \in BOOLEAN /\ r = vm_map_page(x, d, pa, va, user, None)
  BY DEF MapUser
<1>. HIDE DEF user
<1>2. /\ MemoryOK(x) /\ x.used \in Nat /\ x.top \in Nat /\ 1 <= x.used /\ x.used <= x.top
      /\ VaTop \in Nat /\ x.top <= VaTop
  BY Sizes DEF Safe
<1>3. \/ ~r.ok /\ Took(x, r)
      \/ /\ x.ok /\ i \in DOMAIN x.table[d]
         /\ r = PutEntry(x, x.table[d][i].frame, y, e)
      \/ \E n : /\ x.ok /\ i \notin DOMAIN x.table[d]
                /\ n.ok /\ Took(x, n) /\ Got(x, n)
                /\ r = NewPage(x, n, d, i, y, user, e)
  BY <1>1, <1>2, MapPage
<1>4. i \in 0 .. HALF - 1 /\ y \in 0 .. PtblSize - 1
  BY UserPlace
<1>5. CASE i \in DOMAIN x.table[d] /\ r = PutEntry(x, x.table[d][i].frame, y, e)
  <2>1. pa \in 0 .. VaTop - 1
    BY <1>2
  <2>. QED
    BY <1>1, <1>5, <2>1, PlacesPage
<1>6. ASSUME NEW n, i \notin DOMAIN x.table[d], Took(x, n), n.ok, Got(x, n),
             r = NewPage(x, n, d, i, y, user, e)
      PROVE  Placed(D, x, r, d, va, pa)
  <2> DEFINE f == x.used
             q == PutEntry(n, d, i, Entry(f, user))
  <2>1. Grew(x, n)
    BY <1>6, TookGrew
  <2>2. Safe(b, n, D) /\ AllTables(n, D) = AllTables(x, D)
    BY <1>2, <2>1, SafeGrew
  <2>3. n.used = x.used + 1 /\ n.data = x.data /\ x.used < x.top
    BY <1>6 DEF Took, Got
  <2>4. f \in 1 .. n.used - 1 /\ f \notin AllTables(n, D) /\ n.table[f] = Absent
    <3>1. f \in x.used .. x.top - 1 /\ f \in 1 .. n.used - 1 /\ f \notin 0 .. x.used - 1
      BY <1>2, <2>3
    <3>2. AllTables(x, D) \subseteq 0 .. x.used - 1
      BY TablesExist
    <3>3. n.table = x.table
      BY <1>6 DEF Took
    <3>. QED
      BY <1>2, <2>2, <3>1, <3>2, <3>3 DEF MemoryOK
  <2>5. Still(D, x, n)
    BY <2>1, GrewStill
  <2>6. r = PutEntry(q, f, y, e)
    BY <1>6 DEF NewPage
  <2>7. q = PutEntry(n, d, i, Entry(f, user))
    OBVIOUS
  <2>8. f = x.used
    OBVIOUS
  <2>. HIDE DEF f, q
  <2>9. Safe(b, q, D) /\ q.used = n.used /\ i \in Half(q, d) /\ q.table[d][i].frame = f
    BY <1>1, <1>4, <2>2, <2>4, <2>7, SafeTable
  <2>10. NewTabled(D, n, q, d, i, f)
    BY <1>1, <1>4, <2>2, <2>4, <2>7, PlacesTable
  <2>11. Placed(D, q, r, d, va, pa)
    <3>1. pa \in 0 .. VaTop - 1
      BY <1>2
    <3>2. PDIRE(va) \in DOMAIN q.table[d]
      BY <2>9 DEF Half
    <3>3. r = PutEntry(q, q.table[d][PDIRE(va)].frame, PTBLE(va), Entry(pa, user))
      BY <2>6, <2>9
    <3>. QED
      BY <1>1, <2>9, <3>1, <3>2, <3>3, PlacesPage
  <2>12. ASSUME NEW c \in D, NEW w \in UserPages, Mapped(x, c, w)
         PROVE  SamePage(x, q, c, w) /\ ~(c = d /\ PDIRE(w) = i)
                /\ PDIRE(w) \in Half(x, c)
    <3>1. SamePage(x, n, c, w) /\ PDIRE(w) \in Half(x, c)
      BY <2>5, <2>12, MappedIn DEF Still
    <3>2. ~(c = d /\ PDIRE(w) = i)
      BY <1>6, <3>1 DEF Half
    <3>3. SamePage(n, q, c, w)
      BY <2>10, <3>1, <3>2 DEF SamePage, NewTabled
    <3>. QED
      BY <3>1, <3>2, <3>3 DEF SamePage
  <2>13. ASSUME NEW c \in D, NEW j \in Half(x, c)
         PROVE  j \in Half(q, c) /\ q.table[c][j] = x.table[c][j] /\ ~(c = d /\ j = i)
    <3>1. j \in Half(n, c) /\ n.table[c][j] = x.table[c][j]
      BY <2>5 DEF Still, SameDirs
    <3>2. ~(c = d /\ j = i)
      BY <1>6 DEF Half
    <3>. QED
      BY <2>10, <3>1, <3>2 DEF NewTabled
  <2>14. ASSUME NEW c \in D, NEW w \in UserPages, Mapped(x, c, w)
         PROVE  SamePage(x, r, c, w)
    <3>1. SamePage(x, q, c, w) /\ PDIRE(w) \in Half(x, c)
      BY <2>12, <2>14
    <3>2. w # va \/ Apart(q, c, d, w)
      <4>1. SUFFICES ASSUME w = va PROVE Apart(q, c, d, w)
        OBVIOUS
      <4>2. x.table[c][i].frame \in 0 .. x.used - 1 /\ q.table[c][i] = x.table[c][i]
        BY <2>13, <3>1, <4>1, TableOf
      <4>. QED
        BY <1>2, <2>8, <2>9, <4>1, <4>2 DEF Apart, Half
    <3>3. SamePage(q, r, c, w)
      BY <2>11, <3>1, <3>2 DEF SamePage, Placed
    <3>. QED
      BY <3>1, <3>3 DEF SamePage
  <2>15. SameDirs(D, x, r)
    BY <2>11, <2>13 DEF Placed, SameDirs
  <2>16. r.data = x.data /\ Mapped(r, d, va) /\ FrameAt(r, d, va) = pa
    BY <2>3, <2>10, <2>11 DEF Placed, NewTabled
  <2>17. ASSUME Once(x, D), Unused(x, D, pa) PROVE Once(r, D)
    <3>1. Once(n, D) /\ Unused(n, D, pa)
      BY <2>5, <2>17 DEF Still
    <3>2. Once(q, D) /\ Unused(q, D, pa)
      BY <2>10, <3>1 DEF NewTabled
    <3>. QED
      BY <2>11, <3>2 DEF Placed
  <2>18. ASSUME NEW g, g # pa, Unused(x, D, g) PROVE Unused(r, D, g)
    <3>1. Unused(n, D, g)
      BY <2>5, <2>18 DEF Still
    <3>2. Unused(q, D, g)
      BY <2>10, <3>1 DEF NewTabled
    <3>. QED
      BY <2>11, <2>18, <3>2 DEF Placed
  <2>19. PDIRE(va) \notin DOMAIN x.table[d]
    BY <1>6
  <2>. QED
    BY <2>14, <2>15, <2>16, <2>17, <2>18, <2>19 DEF Placed
<1>. QED
  BY <1>3, <1>5, <1>6

(* What was in memory is still there. *)
OldData(x, r) == \A g \in 0 .. x.used - 1 : r.data[g] = x.data[g]

(* Directory d has other pages in W, and so have those that share their tables;
   nothing else is different. *)
Loaded(D, x, r, d, W) ==
    /\ \A c \in D : \A w \in UserPages :
          Mapped(x, c, w) /\ (w \notin W \/ Apart(x, c, d, w)) => SamePage(x, r, c, w)
    /\ SameDirs(D, x, r)
    /\ OldData(x, r)
    /\ Once(x, D) => Once(r, D)

(* Page va of directory d holds v. *)
Holds(x, d, va, v) == Mapped(x, d, va) /\ Reads(x, d, va) = v

(* No page is loaded. *)
LEMMA LoadedNone ==
    ASSUME NEW D, NEW x, NEW d, NEW W
    PROVE  Loaded(D, x, x, d, {})
BY DEF Loaded, SamePage, SameDirs, OldData

(* Tables that are different stay so. *)
LEMMA StaysApart ==
    ASSUME NEW b, NEW x, NEW D, Safe(b, x, D), NEW r, SameDirs(D, x, r), NEW c \in D,
           NEW d \in D, NEW w \in UserPages, Mapped(x, c, w), Apart(x, c, d, w)
    PROVE  Apart(r, c, d, w)
<1>1. PDIRE(w) \in Half(x, c)
  BY MappedIn
<1>2. PDIRE(w) \in Half(x, d)
  BY <1>1 DEF Apart, Half
<1>. QED
  BY <1>1, <1>2 DEF Apart, SameDirs, Half

(* One page after another. *)
LEMMA LoadedTwice ==
    ASSUME NEW b, NEW x, NEW D, Safe(b, x, D), NEW d \in D, NEW V, NEW W,
           NEW r, Loaded(D, x, r, d, V), r.used \in x.used .. x.top,
           NEW s, Loaded(D, r, s, d, W)
    PROVE  Loaded(D, x, s, d, V \cup W)
<1>1. ASSUME NEW c \in D, NEW w \in UserPages, Mapped(x, c, w),
             w \notin V \cup W \/ Apart(x, c, d, w)
      PROVE  SamePage(x, s, c, w)
  <2>1. SamePage(x, r, c, w)
    BY <1>1 DEF Loaded
  <2>2. Apart(x, c, d, w) => Apart(r, c, d, w)
    BY <1>1, StaysApart DEF Loaded
  <2>3. SamePage(r, s, c, w)
    BY <1>1, <2>1, <2>2 DEF SamePage, Loaded
  <2>. QED
    BY <2>1, <2>3 DEF SamePage
<1>2. SameDirs(D, x, s)
  BY DEF Loaded, SameDirs
<1>3. OldData(x, s)
  <2>1. \A g \in 0 .. x.used - 1 : g \in 0 .. r.used - 1
    BY Sizes DEF Safe
  <2>. QED
    BY <2>1 DEF Loaded, OldData
<1>4. Once(x, D) => Once(s, D)
  BY DEF Loaded
<1>. QED
  BY <1>1, <1>2, <1>3, <1>4 DEF Loaded

(* A page that was not loaded reads as it did. *)
LEMMA LoadedReads ==
    ASSUME NEW b, NEW x, NEW D, Safe(b, x, D), NEW d, NEW W,
           NEW r, Loaded(D, x, r, d, W), NEW c \in D, NEW w \in UserPages,
           Mapped(x, c, w), w \notin W \/ Apart(x, c, d, w)
    PROVE  Holds(r, c, w, Reads(x, c, w))
<1>1. SamePage(x, r, c, w) /\ FrameAt(x, c, w) \in 0 .. x.used - 1
  BY MappedIn DEF Loaded
<1>. QED
  BY <1>1 DEF SamePage, Loaded, OldData, Holds, Reads

(* A page of a program is loaded. *)
LEMMA LoadsHere ==
    ASSUME NEW b, b.kernel \in Nat, NEW n, NEW D, Safe(b, n, D), NEW d \in D,
           NEW va \in UserPages, NEW v \in Values,
           NEW r, r = LoadTurn(n, d, va, v), r.ok
    PROVE  Loaded(D, n, r, d, {va}) /\ Holds(r, d, va, v)
<1> DEFINE pg == NextFrame(n)
           l == TakeForKernel(n)
           p == [l EXCEPT !.data[pg] = v]
<1>1. MemoryOK(n) /\ n.used \in Nat /\ n.top \in Nat
  BY Sizes DEF Safe
<1>2. Took(n, l) /\ Got(n, l)
  BY <1>1, TakesForKernel
<1>3. r = IF ~l.ok THEN l ELSE MapUser(p, d, pg, va)
  BY DEF LoadTurn
<1>4. pg = NextFrame(n) /\ p = [l EXCEPT !.data[pg] = v]
  OBVIOUS
<1>. HIDE DEF l, pg, p
<1>5. l.ok /\ r = MapUser(p, d, pg, va)
  BY <1>3
<1>6. pg = n.used /\ n.used < n.top /\ l.used = n.used + 1
  BY <1>2, <1>4, <1>5 DEF Got
<1>7. MemoryOK(l) /\ l.top = n.top /\ l.data = n.data /\ Grew(n, l)
  BY <1>2, TookGrew DEF Took
<1>8. Grew(l, p) /\ p.ok = l.ok /\ p.used = l.used
  BY <1>4, <1>7, Fills
<1>9. p.data = [n.data EXCEPT ![pg] = v]
  BY <1>4, <1>7 DEF MemoryOK, IsMemory
<1>10. p.data[pg] = v /\ OldData(n, p)
  <2>1. pg \in 0 .. n.top - 1 /\ pg \notin 0 .. n.used - 1
        /\ \A g \in 0 .. n.used - 1 : g \in 0 .. n.top - 1
    BY <1>1, <1>6
  <2>2. n.data \in [0 .. n.top - 1 -> Values]
    BY <1>1 DEF MemoryOK
  <2>. QED
    BY <1>9, <2>1, <2>2 DEF OldData
<1>11. Grew(n, p)
  BY <1>1, <1>7, <1>8, GrewTwice
<1>12. Safe(b, p, D)
  BY <1>1, <1>11, SafeGrew
<1>13. Still(D, n, p)
  BY <1>11, GrewStill
<1>14. Unused(n, D, pg)
  BY <1>1, <1>6, PagesExist DEF Unused
<1>15. pg \in 0 .. p.used - 1
  BY <1>1, <1>6, <1>8
<1>16. Placed(D, p, r, d, va, pg)
  <2>1. \/ ~r.ok /\ Took(p, r)
        \/ Placed(D, p, r, d, va, pg)
    BY <1>5, <1>12, <1>15, MapsPlaced
  <2>. QED
    BY <2>1
<1>17. ASSUME NEW c \in D, NEW w \in UserPages, Mapped(n, c, w),
              w \notin {va} \/ Apart(n, c, d, w)
       PROVE  SamePage(n, r, c, w)
  <2>1. SamePage(n, p, c, w) /\ SameDirs(D, n, p)
    BY <1>13, <1>17 DEF Still
  <2>2. Apart(n, c, d, w) => Apart(p, c, d, w)
    BY <1>17, <2>1, StaysApart
  <2>3. SamePage(p, r, c, w)
    BY <1>16, <1>17, <2>1, <2>2 DEF SamePage, Placed
  <2>. QED
    BY <2>1, <2>3 DEF SamePage
<1>18. SameDirs(D, n, r)
  BY <1>13, <1>16 DEF Still, Placed, SameDirs
<1>19. OldData(n, r) /\ Holds(r, d, va, v)
  BY <1>10, <1>16 DEF Placed, OldData, Holds, Reads
<1>20. Once(n, D) => Once(r, D)
  BY <1>13, <1>14, <1>16 DEF Still, Placed
<1>. QED
  BY <1>17, <1>18, <1>19, <1>20 DEF Loaded

(* LoadImage, when it does not fail: the image is what the program has, and no
   other program has a different page. *)
LEMMA LoadsAll ==
    ASSUME NEW n, NEW D, Safe(boot, n, D), boot \in Machines, NEW d \in D,
           NEW image \in [ImageNumbers -> Values],
           NEW r, r = LoadImage(n, d, image), r.ok
    PROVE  /\ Loaded(D, n, r, d, Image)
           /\ \A j \in ImageNumbers : Holds(r, d, boot.start + j - 1, image[j])
<1>0. /\ boot.kernel \in Nat /\ boot.start \in Nat /\ boot.start + Pages < KHALF
      /\ Pages \in Nat /\ KHALF \in Nat
  BY VmAssumption, Constants
<1> DEFINE f == CHOOSE load : IsLoad(load, n, d, image, Pages)
           start == boot.start
           W(k) == start .. start + k - 1
           Ready(k) == /\ Loaded(D, n, f[k], d, W(k))
                       /\ \A j \in 1 .. k : Holds(f[k], d, start + j - 1, image[j])
           S == {i \in 0 .. Pages : Keeps(boot, D, n, f[i]) /\ (f[i].ok => Ready(i))}
<1>1. IsLoad(f, n, d, image, Pages)
  BY <1>0, LoadExists
<1>2. LoadImage(n, d, image) = f[Pages]
  BY DEF LoadImage, IsLoad, LoadTurn, MapUser
<1>. HIDE DEF f
<1>3. 0 \in S
  <2>1. f[0] = n
    BY <1>0, <1>1 DEF IsLoad
  <2>2. W(0) = {}
    BY <1>0
  <2>3. Loaded(D, n, n, d, {})
    BY LoadedNone
  <2>. QED
    BY <1>0, <2>1, <2>2, <2>3, KeepsSelf
<1>4. ASSUME NEW i \in S, i < Pages PROVE i + 1 \in S
  <2>1. i \in 0 .. Pages /\ i + 1 \in 1 .. Pages /\ (i + 1) - 1 = i
    BY <1>0, <1>4
  <2> DEFINE va == start + (i + 1) - 1
             v == image[i + 1]
             a == f[i]
             c == f[i + 1]
  <2>2. c = LoadTurn(a, d, va, v)
    <3>1. i + 1 \in 0 .. Pages /\ i + 1 # 0
      BY <2>1
    <3>2. f[i + 1] = IF i + 1 = 0 THEN n
                     ELSE LoadTurn(f[(i + 1) - 1], d, boot.start + (i + 1) - 1, image[i + 1])
      BY <1>1, <3>1 DEF IsLoad
    <3>. QED
      BY <2>1, <3>1, <3>2
  <2>3. va \in Nat /\ va < KHALF - 1 /\ va \in UserPages
    BY <1>0, <2>1 DEF UserPages
  <2>4. v \in Values
    BY <2>1 DEF ImageNumbers
  <2>5. Safe(boot, a, D) /\ Keeps(boot, D, n, a) /\ (a.ok => Ready(i))
    BY DEF Keeps
  <2>6. W(i + 1) = W(i) \cup {va}
    BY <1>0, <2>1
  <2>7. va = start + (i + 1) - 1 /\ v = image[i + 1]
    OBVIOUS
  <2>8. (c.ok => Ready(i + 1)) /\ Keeps(boot, D, n, c) => i + 1 \in S
    BY <2>1
  <2>. HIDE DEF va, v, a, c, S
  <2>9. Keeps(boot, D, a, c)
    BY <1>0, <2>2, <2>3, <2>4, <2>5, LoadsPage
  <2>10. Keeps(boot, D, n, c)
    BY <2>5, <2>9, KeepsTwice
  <2>11. ASSUME c.ok PROVE Ready(i + 1)
    <3>1. a.ok
      BY <2>9, <2>11 DEF Keeps
    <3>2. Loaded(D, a, c, d, {va}) /\ Holds(c, d, va, v)
      BY <1>0, <2>2, <2>3, <2>4, <2>5, <2>11, LoadsHere
    <3>3. Loaded(D, n, a, d, W(i))
      BY <2>5, <3>1 DEF a
    <3>4. \A j \in 1 .. i : Holds(a, d, start + j - 1, image[j])
      BY <2>5, <3>1 DEF a
    <3>5. a.used \in n.used .. n.top
      BY <2>5 DEF Keeps
    <3> DEFINE V == W(i)
    <3>6. Loaded(D, n, a, d, V)
      BY <3>3
    <3>. HIDE DEF V
    <3>7. Loaded(D, n, c, d, V \cup {va})
      BY <3>2, <3>5, <3>6, LoadedTwice
    <3>8. Loaded(D, n, f[i + 1], d, W(i + 1))
      BY <2>6, <3>7 DEF V, c
    <3>9. ASSUME NEW j \in 1 .. i + 1
          PROVE  Holds(c, d, start + j - 1, image[j])
      <4>1. CASE j = i + 1
        BY <2>7, <3>2, <4>1
      <4>2. CASE j # i + 1
        <5> DEFINE w == start + j - 1
        <5>1. j \in 1 .. i /\ w \in UserPages /\ w \notin {va}
          BY <1>0, <2>1, <2>7, <4>2 DEF UserPages
        <5>2. Holds(a, d, w, image[j])
          BY <3>4, <5>1
        <5>. HIDE DEF w
        <5>3. Mapped(a, d, w) /\ Reads(a, d, w) = image[j]
          BY <5>2 DEF Holds
        <5>4. Holds(c, d, w, Reads(a, d, w))
          BY <2>5, <3>2, <5>1, <5>3, LoadedReads
        <5>. QED
          BY <5>3, <5>4 DEF w
      <4>. QED
        BY <4>1, <4>2
    <3>. QED
      BY <3>8, <3>9 DEF c
  <2>. QED
    BY <2>8, <2>10, <2>11
<1>5. Pages \in S
  <2>. HIDE DEF S
  <2>1. S \in SUBSET (0 .. Pages)
    BY DEF S
  <2>2. S = 0 .. Pages
    BY <1>0, <1>3, <1>4, <2>1, UpTo
  <2>. QED
    BY <1>0, <2>2
<1>6. r = f[Pages]
  BY <1>2
<1>7. Ready(Pages)
  BY <1>5, <1>6
<1>. QED
  BY <1>6, <1>7 DEF Image, ImageNumbers

-----------------------------------------------------------------------------
(* Memory while task_copy_vm copies it to directory d, which is the child's:
   m is memory as it was, D has the other directories and E has d too.         *)

ImageIndex == PDIRE(boot.start)
Parent == pdir[fgtask]

(* The programs that there are read what they read before; frame s, for the
   stack of the child, is not used yet; the child has its parent's tables, that
   of the image apart. *)
CopyView(D, E, d, s, x) ==
    /\ \A c \in D : \A w \in UserPages : Mapped(m, c, w) => Holds(x, c, w, Reads(m, c, w))
    /\ Once(x, E) /\ Unused(x, E, s)
    /\ OldData(m, x) /\ SameDirs(D, m, x)
    /\ \A i \in Half(m, Parent) : i # ImageIndex =>
          i \in Half(x, d) /\ x.table[d][i] = m.table[Parent][i]

(* The child has a table of its own for the image. *)
OwnTable(d, x) ==
    /\ ImageIndex \in Half(x, d)
    /\ x.table[d][ImageIndex].frame >= m.used

(* It has a copy of the pages in W that are in that table. *)
CopyHas(d, W, x) ==
    \A w \in W : PDIRE(w) = ImageIndex => Holds(x, d, w, Reads(m, Parent, w))

(* A page that stays where it is, in memory that has kept its data. *)
LEMMA StillHolds ==
    ASSUME NEW b, NEW x, NEW E, Safe(b, x, E), NEW r, OldData(x, r), NEW c \in E,
           NEW w \in UserPages, NEW v, Holds(x, c, w, v), SamePage(x, r, c, w)
    PROVE  Holds(r, c, w, v)
<1>1. Mapped(x, c, w) /\ x.data[FrameAt(x, c, w)] = v
  BY DEF Holds, Reads
<1>2. FrameAt(x, c, w) \in 0 .. x.used - 1
  BY <1>1, MappedIn
<1>. QED
  BY <1>1, <1>2 DEF SamePage, OldData, Holds, Reads

(* A directory that keeps its tables keeps its table of the image. *)
LEMMA KeepsTable ==
    ASSUME NEW E, NEW d \in E, NEW x, NEW r, SameDirs(E, x, r), OwnTable(d, x)
    PROVE  OwnTable(d, r)
BY DEF SameDirs, OwnTable

(* What keeps all pages keeps the view. *)
LEMMA ViewStill ==
    ASSUME NEW b, NEW D, NEW E, D \subseteq E, NEW d \in E, NEW s,
           NEW x, Safe(b, x, E), m.used \in Nat, m.used <= x.used,
           NEW r, Still(E, x, r), OldData(x, r), CopyView(D, E, d, s, x)
    PROVE  /\ CopyView(D, E, d, s, r)
           /\ OwnTable(d, x) => OwnTable(d, r)
           /\ \A W \in SUBSET UserPages : CopyHas(d, W, x) => CopyHas(d, W, r)
<1>1. ASSUME NEW c \in E, NEW w \in UserPages, NEW v, Holds(x, c, w, v)
      PROVE  Holds(r, c, w, v)
  <2>1. SamePage(x, r, c, w)
    BY <1>1 DEF Holds, Still
  <2>. QED
    BY <1>1, <2>1, StillHolds
<1>2. \A c \in D : \A w \in UserPages : Mapped(m, c, w) => Holds(r, c, w, Reads(m, c, w))
  BY <1>1 DEF CopyView
<1>3. Once(r, E) /\ Unused(r, E, s)
  BY DEF CopyView, Still
<1>4. OldData(m, r)
  <2>1. \A g \in 0 .. m.used - 1 : g \in 0 .. x.used - 1
    BY Sizes DEF Safe
  <2>. QED
    BY <2>1 DEF CopyView, OldData
<1>5. SameDirs(D, m, r)
  BY DEF CopyView, Still, SameDirs
<1>6. \A i \in Half(m, Parent) : i # ImageIndex =>
          i \in Half(r, d) /\ r.table[d][i] = m.table[Parent][i]
  BY DEF CopyView, Still, SameDirs
<1>7. OwnTable(d, x) => OwnTable(d, r)
  BY KeepsTable DEF Still
<1>8. ASSUME NEW W \in SUBSET UserPages, CopyHas(d, W, x) PROVE CopyHas(d, W, r)
  BY <1>1, <1>8 DEF CopyHas
<1>. QED
  BY <1>2, <1>3, <1>4, <1>5, <1>6, <1>7, <1>8 DEF CopyView

(* The child gets its table. *)
LEMMA ViewTabled ==
    ASSUME NEW b, NEW D, NEW E, D \subseteq E, NEW d \in E, d \notin D, NEW s,
           NEW x, Safe(b, x, E), m.used \in Nat, m.used <= x.used,
           CopyView(D, E, d, s, x), NEW f, f >= m.used,
           NEW r, NewTabled(E, x, r, d, ImageIndex, f)
    PROVE  CopyView(D, E, d, s, r) /\ OwnTable(d, r)
<1>1. OldData(x, r)
  BY DEF NewTabled, OldData
<1>2. ASSUME NEW c \in D, NEW w \in UserPages, Mapped(m, c, w)
      PROVE  Holds(r, c, w, Reads(m, c, w))
  <2>1. Holds(x, c, w, Reads(m, c, w)) /\ c # d
    BY <1>2 DEF CopyView
  <2>2. SamePage(x, r, c, w)
    BY <2>1 DEF Holds, NewTabled
  <2>. QED
    BY <1>1, <2>1, <2>2, StillHolds
<1>3. Once(r, E) /\ Unused(r, E, s)
  BY DEF CopyView, NewTabled
<1>4. OldData(m, r)
  BY DEF CopyView, NewTabled, OldData
<1>5. SameDirs(D, m, r)
  <2>1. SUFFICES ASSUME NEW c \in D, NEW i \in Half(m, c)
                 PROVE  i \in Half(r, c) /\ r.table[c][i] = m.table[c][i]
    BY DEF SameDirs
  <2>2. i \in Half(x, c) /\ x.table[c][i] = m.table[c][i]
    BY DEF CopyView, SameDirs
  <2>3. ~(c = d /\ i = ImageIndex)
    OBVIOUS
  <2>. QED
    BY <2>2, <2>3 DEF NewTabled
<1>6. ASSUME NEW i \in Half(m, Parent), i # ImageIndex
      PROVE  i \in Half(r, d) /\ r.table[d][i] = m.table[Parent][i]
  BY <1>6 DEF CopyView, NewTabled
<1>7. OwnTable(d, r)
  BY DEF NewTabled, OwnTable
<1>. QED
  BY <1>2, <1>3, <1>4, <1>5, <1>6, <1>7 DEF CopyView

(* A page of the parent is copied: its parent, and whoever has the table too,
   get the copy, unless the child has a table of its own. *)
LEMMA ViewPlaced ==
    ASSUME NEW b, NEW D, NEW E, D \subseteq E, NEW d \in E, NEW s,
           Safe(b, m, D), Parent \in D,
           NEW x, Safe(b, x, E), CopyView(D, E, d, s, x), OwnTable(d, x),
           NEW va \in UserPages, Mapped(m, Parent, va), PDIRE(va) \in DOMAIN x.table[d],
           NEW f, f # s, Unused(x, E, f), x.data[f] = Reads(m, Parent, va),
           NEW r, Placed(E, x, r, d, va, f)
    PROVE  /\ CopyView(D, E, d, s, r) /\ OwnTable(d, r)
           /\ \A W \in SUBSET UserPages : CopyHas(d, W, x) => CopyHas(d, W \cup {va}, r)
<1>1. OldData(x, r) /\ r.data = x.data
  BY DEF Placed, OldData
<1>2. ASSUME NEW c \in E, NEW w \in UserPages, NEW v, Holds(x, c, w, v),
             w # va \/ Apart(x, c, d, w)
      PROVE  Holds(r, c, w, v)
  <2>1. SamePage(x, r, c, w)
    BY <1>2 DEF Holds, Placed
  <2>. QED
    BY <1>1, <1>2, <2>1, StillHolds
<1>3. ASSUME NEW c \in D, Mapped(m, c, va), ~Apart(x, c, d, va)
      PROVE  Holds(r, c, va, Reads(m, c, va))
  <2> DEFINE i == PDIRE(va)
  <2>1. Mapped(x, c, va)
    BY <1>3 DEF CopyView, Holds
  <2>2. x.table[c][i].frame = x.table[d][i].frame
    BY <1>3 DEF Apart
  <2>3. Mapped(r, c, va) /\ FrameAt(r, c, va) = f
    BY <2>1, <2>2 DEF Placed
  <2>4. i \in Half(m, c) /\ m.table[c][i].frame \in 0 .. m.used - 1
        /\ i \in Half(m, Parent)
    BY <1>3, MappedIn
  <2>5. x.table[c][i] = m.table[c][i]
    BY <2>4 DEF CopyView, SameDirs
  <2>6. i # ImageIndex
    BY <2>2, <2>4, <2>5, Sizes DEF OwnTable, Safe
  <2>7. x.table[d][i] = m.table[Parent][i]
    BY <2>4, <2>6 DEF CopyView
  <2>8. FrameAt(m, c, va) = FrameAt(m, Parent, va)
    BY <2>2, <2>5, <2>7 DEF FrameAt
  <2>. QED
    BY <1>1, <2>3, <2>8 DEF Holds, Reads
<1>4. ASSUME NEW c \in D, NEW w \in UserPages, Mapped(m, c, w)
      PROVE  Holds(r, c, w, Reads(m, c, w))
  <2>1. Holds(x, c, w, Reads(m, c, w)) /\ c \in E
    BY <1>4 DEF CopyView
  <2>. QED
    BY <1>2, <1>3, <1>4, <2>1
<1>5. Once(r, E) /\ Unused(r, E, s)
  BY DEF CopyView, Placed
<1>6. OldData(m, r)
  BY <1>1 DEF CopyView, OldData
<1>7. SameDirs(D, m, r)
  BY DEF CopyView, Placed, SameDirs
<1>8. \A i \in Half(m, Parent) : i # ImageIndex =>
          i \in Half(r, d) /\ r.table[d][i] = m.table[Parent][i]
  BY DEF CopyView, Placed, SameDirs
<1>9. OwnTable(d, r)
  BY KeepsTable DEF Placed
<1>10. Holds(r, d, va, Reads(m, Parent, va))
  BY <1>1 DEF Placed, Holds, Reads
<1>11. ASSUME NEW W \in SUBSET UserPages, CopyHas(d, W, x)
       PROVE  CopyHas(d, W \cup {va}, r)
  <2>1. SUFFICES ASSUME NEW w \in W \cup {va}, PDIRE(w) = ImageIndex
                 PROVE  Holds(r, d, w, Reads(m, Parent, w))
    BY DEF CopyHas
  <2>2. CASE w = va
    BY <1>10, <2>2
  <2>3. CASE w # va
    <3>1. w \in UserPages /\ Holds(x, d, w, Reads(m, Parent, w))
      BY <1>11, <2>1, <2>3 DEF CopyHas
    <3>. QED
      BY <1>2, <2>3, <3>1
  <2>. QED
    BY <2>2, <2>3
<1>. QED
  BY <1>4, <1>5, <1>6, <1>7, <1>8, <1>9, <1>11 DEF CopyView

(* The frame of a copy, if there is one. *)
LEMMA FrameFilled ==
    ASSUME NEW x, MemoryOK(x), x.used < x.top, NEW v \in Values,
           NEW a, a = CopiedFrame(x, v)
    PROVE  /\ NextFrame(x) = x.used /\ a.used = x.used + 1
           /\ a.data[x.used] = v /\ OldData(x, a)
<1> DEFINE f == NextFrame(x)
           q == pm_alloc_frame(x)
           z == [q EXCEPT !.data[f] = v]
<1>1. Took(x, q) /\ f = x.used /\ q.used = x.used + 1
  BY Allocates
<1>2. a = Touch(z, f)
  BY DEF CopiedFrame
<1>3. x.used \in Nat /\ x.top \in Nat
  BY Sizes
<1>4. f = NextFrame(x)
  OBVIOUS
<1>. HIDE DEF f, q
<1>5. MemoryOK(q) /\ q.data = x.data
  BY <1>1 DEF Took
<1>6. z = [q EXCEPT !.data[f] = v]
  OBVIOUS
<1>. HIDE DEF z
<1>7. Grew(q, z) /\ z.used = q.used
  BY <1>5, <1>6, Fills
<1>8. z.data = [x.data EXCEPT ![f] = v]
  BY <1>5, <1>6 DEF MemoryOK, IsMemory
<1>9. Took(z, a) /\ a.used = z.used
  BY <1>2, <1>7, Touches DEF Grew
<1>10. a.data = [x.data EXCEPT ![f] = v]
  BY <1>8, <1>9 DEF Took
<1>11. x.data \in [0 .. x.top - 1 -> Values]
  BY DEF MemoryOK
<1>12. f \in 0 .. x.top - 1 /\ \A g \in 0 .. x.used - 1 : g \in 0 .. x.top - 1 /\ g # f
  BY <1>1, <1>3
<1>13. a.data[f] = v /\ \A g \in 0 .. x.used - 1 : a.data[g] = x.data[g]
  BY <1>10, <1>11, <1>12
<1>. QED
  BY <1>1, <1>4, <1>7, <1>9, <1>13 DEF OldData

(* A turn that finds the child's table, as long as there is memory left. *)
LEMMA NextView ==
    ASSUME NEW b, b.kernel \in Nat, NEW D, NEW E, D \subseteq E, NEW d \in E, d \notin D,
           Safe(b, m, D), Parent \in D,
           NEW x, Safe(b, x, E), m.used <= x.used,
           NEW s \in 0 .. x.used - 1, CopyView(D, E, d, s, x), x.ok => OwnTable(d, x),
           NEW va \in UserPages, va < KHALF - 1, Mapped(m, Parent, va),
           PDIRE(va) \in DOMAIN x.table[d], NEW user \in BOOLEAN,
           NEW v \in Values, v = Reads(m, Parent, va),
           NEW r, r = NextCopy(x, d, va, user, v), r.used < r.top
    PROVE  /\ CopyView(D, E, d, s, r)
           /\ r.ok => /\ OwnTable(d, r)
                      /\ \A W \in SUBSET UserPages :
                            CopyHas(d, W, x) => CopyHas(d, W \cup {va}, r)
<1> DEFINE a == CopiedFrame(x, v)
           f == NextFrame(x)
           o == PutEntry(a, a.table[d][PDIRE(va)].frame, PTBLE(va), Entry(f, user))
<1>1. /\ MemoryOK(x) /\ x.used \in Nat /\ x.top \in Nat /\ x.top <= VaTop
      /\ VaTop \in Nat /\ m.used \in Nat
  BY Sizes DEF Safe
<1>2. /\ Grew(x, a) /\ MemoryOK(a) /\ (a.ok => x.ok) /\ a.table = x.table
  BY <1>1, CopiesFrame
<1>3. r = IF ~x.ok THEN x ELSE IF ~a.ok THEN a ELSE o
  BY DEF NextCopy
<1>4. x.used < x.top
  <2>1. va \in Nat
    BY UserPlace
  <2>2. Copies(b, D, E, d, x, r)
    BY <2>1, CopiesNext
  <2>3. r.top = x.top /\ r.used \in x.used .. x.top
    BY <2>2 DEF Copies, Safe
  <2>. QED
    BY <1>1, <2>3
<1>5. f = x.used /\ a.used = x.used + 1 /\ a.data[x.used] = v /\ OldData(x, a)
  BY <1>1, <1>4, FrameFilled
<1>6. o = PutEntry(a, a.table[d][PDIRE(va)].frame, PTBLE(va), Entry(f, user))
  OBVIOUS
<1>. HIDE DEF a, f, o
<1>7. Safe(b, a, E) /\ Still(E, x, a)
  BY <1>1, <1>2, SafeGrew, GrewStill
<1>8. /\ CopyView(D, E, d, s, a)
      /\ OwnTable(d, x) => OwnTable(d, a)
      /\ \A W \in SUBSET UserPages : CopyHas(d, W, x) => CopyHas(d, W, a)
  BY <1>1, <1>5, <1>7, ViewStill
<1>9. CASE ~x.ok
  BY <1>3, <1>9
<1>10. CASE x.ok /\ ~a.ok
  BY <1>3, <1>8, <1>10
<1>11. CASE x.ok /\ a.ok
  <2>1. r = o /\ OwnTable(d, a)
    BY <1>3, <1>8, <1>11
  <2>2. PDIRE(va) \in DOMAIN a.table[d] /\ f \in 0 .. VaTop - 1
    BY <1>1, <1>2, <1>4, <1>5
  <2>3. Placed(E, a, o, d, va, f)
    BY <1>6, <1>7, <2>2, PlacesPage
  <2>4. Unused(a, E, f)
    <3>1. Unused(x, E, f)
      BY <1>1, <1>5, PagesExist DEF Unused
    <3>. QED
      BY <1>7, <3>1 DEF Still
  <2>5. f # s /\ a.data[f] = Reads(m, Parent, va)
    BY <1>1, <1>5
  <2>6. /\ CopyView(D, E, d, s, o) /\ OwnTable(d, o)
        /\ \A W \in SUBSET UserPages : CopyHas(d, W, a) => CopyHas(d, W \cup {va}, o)
    BY <1>7, <1>8, <2>1, <2>2, <2>3, <2>4, <2>5, ViewPlaced
  <2>. QED
    BY <1>8, <2>1, <2>6
<1>. QED
  BY <1>9, <1>10, <1>11

(* The first turn, in which the child gets its table. *)
LEMMA FirstView ==
    ASSUME NEW b, b.kernel \in Nat, NEW D, NEW E, D \subseteq E, NEW d \in E, d \notin D,
           Safe(b, m, D), Parent \in D, b = boot,
           NEW x, Safe(b, x, E), m.used <= x.used,
           NEW s \in 0 .. x.used - 1, CopyView(D, E, d, s, x),
           NEW va \in UserPages, va < KHALF - 1, Mapped(m, Parent, va),
           PDIRE(va) = ImageIndex,
           PDIRE(va) \in DOMAIN x.table[d], NEW owner \in BOOLEAN, NEW user \in BOOLEAN,
           NEW v \in Values, v = Reads(m, Parent, va),
           NEW r, r = FirstCopy(x, d, va, owner, user, v), r.used < r.top
    PROVE  /\ CopyView(D, E, d, s, r)
           /\ r.ok => OwnTable(d, r) /\ CopyHas(d, {va}, r)
<1> DEFINE a == CopiedFrame(x, v)
           copy == NextFrame(x)
           f == NextFrame(a)
           q == pm_alloc_frame(a)
           n == FirstTable(x, d, va, owner, v)
           z == Touch(n, f)
           o == PutEntry(z, f, PTBLE(va), Entry(copy, user))
           i == PDIRE(va)
           e == Entry(f, owner)
           p == Entry(copy, user)
<1>1. /\ MemoryOK(x) /\ x.used \in Nat /\ x.top \in Nat /\ x.top <= VaTop
      /\ VaTop \in Nat /\ m.used \in Nat /\ d \in 1 .. x.used - 1 /\ 1 <= x.used
  BY Sizes DEF Safe
<1>2. i \in 0 .. HALF - 1 /\ i \in 0 .. VaTop /\ PTBLE(va) \in 0 .. VaTop /\ va \in Nat
      /\ i = PDIRE(b.start) /\ i = ImageIndex
  BY UserPlace, Indices, Constants DEF ImageIndex
<1>3. /\ Grew(x, a) /\ MemoryOK(a) /\ (a.ok => x.ok) /\ a.table = x.table
      /\ a.used \in x.used .. x.top /\ a.top = x.top
  BY <1>1, CopiesFrame DEF Grew
<1>4. r = IF ~x.ok THEN x ELSE IF ~a.ok THEN a ELSE IF ~z.ok THEN z ELSE o
  BY DEF FirstCopy
<1>5. x.used < x.top
  <2>1. Copies(b, D, E, d, x, r)
    BY <1>2, CopiesFirst
  <2>2. r.top = x.top /\ r.used \in x.used .. x.top
    BY <2>1 DEF Copies, Safe
  <2>. QED
    BY <1>1, <2>2
<1>6. copy = x.used /\ a.used = x.used + 1 /\ a.data[x.used] = v /\ OldData(x, a)
  BY <1>1, <1>5, FrameFilled
<1>7. n = PutEntry(q, d, i, e) /\ i = PDIRE(va) /\ e = Entry(f, owner)
      /\ p = Entry(copy, user)
  BY DEF FirstTable
<1>8. /\ Took(a, q) /\ MemoryOK(q) /\ f \in 0 .. a.top - 1
      /\ a.used < a.top => f = a.used /\ q.used = a.used + 1
      /\ ~(a.used < a.top) => f = 0 /\ q = a
  BY <1>3, Allocates DEF Took
<1>9. o = PutEntry(z, f, PTBLE(va), p) /\ z = Touch(n, f)
  OBVIOUS
<1>. HIDE DEF a, copy, f, q, n, z, o, i, e, p
<1>10. Safe(b, a, E) /\ Still(E, x, a)
  BY <1>1, <1>3, SafeGrew, GrewStill
<1>11. CopyView(D, E, d, s, a)
  BY <1>1, <1>6, <1>10, ViewStill
<1>12. CASE ~x.ok
  BY <1>4, <1>12
<1>13. CASE x.ok /\ ~a.ok
  BY <1>4, <1>11, <1>13
<1>14. CASE x.ok /\ a.ok
  <2>1. IsEntry(e) /\ IsEntry(p)
    <3>1. f \in 0 .. VaTop - 1 /\ copy \in 0 .. VaTop - 1
      BY <1>1, <1>3, <1>5, <1>6, <1>8
    <3>. QED
      BY <1>7, <3>1, EntryIs
  <2>2. d \in 0 .. q.used - 1 /\ f \in 0 .. q.used - 1 /\ q.used \in Nat /\ q.top = x.top
    BY <1>1, <1>3, <1>8 DEF Took
  <2>3. MemoryOK(n) /\ n.used = q.used /\ n.top = q.top
    <3>1. LET h == PutEntry(q, d, i, e)
          IN  MemoryOK(h) /\ h.used = q.used /\ h.top = q.top
      BY ONLY <1>2, <1>8, <2>1, <2>2, Puts
    <3>. QED
      BY <1>7, <3>1
  <2>4. Took(n, z) /\ z.used = n.used /\ MemoryOK(z) /\ (z.ok => z = n) /\ z.top = n.top
    BY <1>9, <2>3, Touches DEF Took
  <2>5. o.used = z.used /\ o.top = z.top
    <3>1. f \in 0 .. z.used - 1
      BY <2>2, <2>3, <2>4
    <3>2. LET h == PutEntry(z, f, PTBLE(va), p)
          IN  h.used = z.used /\ h.top = z.top
      BY ONLY <1>2, <2>1, <2>4, <3>1, Puts
    <3>. QED
      BY <1>9, <3>2
  <2>6. q.used < q.top /\ r = IF z.ok THEN o ELSE z
    BY <1>4, <1>14, <2>3, <2>4, <2>5
  <2>7. f = a.used /\ a.used < a.top /\ q.used = a.used + 1
    BY <1>1, <1>3, <1>8, <2>6
  <2>8. Grew(a, q) /\ q.table = a.table /\ q.data = a.data /\ q.used \in a.used .. a.top
    BY <1>8, TookGrew DEF Took
  <2>9. Safe(b, q, E) /\ Still(E, a, q) /\ AllTables(q, E) = AllTables(a, E)
    BY <1>3, <1>10, <2>8, SafeGrew, GrewStill
  <2>10. OldData(a, q)
    BY <2>8 DEF OldData
  <2>11. CopyView(D, E, d, s, q)
    <3>1. m.used <= a.used
      BY <1>1, <1>6
    <3>. QED
      BY <1>1, <1>10, <1>11, <2>9, <2>10, <3>1, ViewStill
  <2>12. f \in 1 .. q.used - 1 /\ f \notin AllTables(q, E) /\ q.table[f] = Absent
    <3>1. f \in a.used .. a.top - 1 /\ f \in 1 .. q.used - 1 /\ f \notin 0 .. a.used - 1
      BY <1>1, <1>3, <2>7
    <3>2. AllTables(a, E) \subseteq 0 .. a.used - 1
      BY <1>10, TablesExist
    <3>. QED
      BY <1>3, <2>8, <2>9, <3>1, <3>2 DEF MemoryOK
  <2>13. n = PutEntry(q, d, i, Entry(f, owner))
    BY <1>7
  <2>14. Safe(b, n, E) /\ i \in Half(n, d) /\ n.table[d][i].frame = f
    BY <1>2, <2>9, <2>12, <2>13, SafeTable
  <2>15. NewTabled(E, q, n, d, i, f)
    BY <1>2, <2>9, <2>12, <2>13, PlacesTable
  <2>16. CopyView(D, E, d, s, n) /\ OwnTable(d, n)
    <3>1. m.used <= q.used /\ f >= m.used
      BY <1>1, <1>6, <2>7
    <3>2. NewTabled(E, q, n, d, ImageIndex, f)
      BY <1>2, <2>15
    <3>. QED
      BY <1>1, <2>9, <2>11, <3>1, <3>2, ViewTabled
  <2>17. CASE ~z.ok
    <3>1. Grew(n, z) /\ OldData(n, z)
      BY <2>4, TookGrew DEF Took, OldData
    <3>2. Still(E, n, z)
      BY <2>14, <3>1, GrewStill
    <3>3. m.used <= n.used
      BY <1>1, <1>6, <2>3, <2>7
    <3>4. CopyView(D, E, d, s, z)
      BY <1>1, <2>14, <2>16, <3>1, <3>2, <3>3, ViewStill
    <3>. QED
      BY <2>6, <2>17, <3>4
  <2>18. CASE z.ok
    <3>1. r = PutEntry(n, n.table[d][PDIRE(va)].frame, PTBLE(va), Entry(copy, user))
      BY <1>7, <1>9, <2>4, <2>6, <2>14, <2>18
    <3>2. PDIRE(va) \in DOMAIN n.table[d] /\ copy \in 0 .. VaTop - 1
      BY <1>1, <1>5, <1>6, <1>7, <2>14 DEF Half
    <3>3. Placed(E, n, r, d, va, copy)
      BY <2>14, <3>1, <3>2, PlacesPage
    <3>4. Unused(n, E, copy)
      <4>1. Unused(x, E, copy)
        BY <1>1, <1>6, PagesExist DEF Unused
      <4>2. Unused(q, E, copy)
        BY <1>10, <2>9, <4>1 DEF Still
      <4>. QED
        BY <2>15, <4>2 DEF NewTabled
    <3>5. n.data[copy] = Reads(m, Parent, va) /\ copy # s
      BY <1>1, <1>6, <2>8, <2>15 DEF NewTabled
    <3>6. /\ CopyView(D, E, d, s, r) /\ OwnTable(d, r)
          /\ \A W \in SUBSET UserPages : CopyHas(d, W, n) => CopyHas(d, W \cup {va}, r)
      <4>1. /\ D \subseteq E /\ d \in E /\ Safe(b, m, D) /\ Parent \in D
            /\ va \in UserPages /\ Mapped(m, Parent, va)
        OBVIOUS
      <4>2. Safe(b, n, E) /\ CopyView(D, E, d, s, n) /\ OwnTable(d, n)
        BY <2>14, <2>16
      <4>. QED
        BY ONLY <3>2, <3>3, <3>4, <3>5, <4>1, <4>2, ViewPlaced
    <3>7. CopyHas(d, {}, n) /\ {} \in SUBSET UserPages /\ {} \cup {va} = {va}
      BY DEF CopyHas
    <3>8. CopyHas(d, {} \cup {va}, r)
      BY <3>6, <3>7
    <3>. QED
      BY <3>6, <3>7, <3>8
  <2>. QED
    BY <2>17, <2>18
<1>. QED
  BY <1>12, <1>13, <1>14

(* The whole loop, if it does not run out of memory. *)
LEMMA ViewAll ==
    ASSUME NEW D, Safe(boot, m, D), Parent \in D, boot \in Machines,
           NEW E, D \subseteq E, NEW d \in E, d \notin D,
           NEW x, Safe(boot, x, E), DOMAIN x.table[d] = DOMAIN m.table[Parent],
           m.used <= x.used, NEW s \in 0 .. x.used - 1, CopyView(D, E, d, s, x),
           CleanTable(x), NEW r, r = task_copy_vm(x, d), r.used < r.top
    PROVE  /\ CopyView(D, E, d, s, r)
           /\ r.ok => /\ Count # 0 => OwnTable(d, r)
                      /\ CopyHas(d, boot.start .. boot.start + Count - 1, r)
<1> DEFINE start == boot.start
           W(i) == start .. start + i - 1
           Ready(i, y) == /\ CopyView(D, E, d, s, y)
                          /\ y.ok => (i # 0 => OwnTable(d, y)) /\ CopyHas(d, W(i), y)
<1>1. /\ boot.kernel \in Nat /\ start \in Nat /\ Count \in Nat
      /\ pdir[fgtask] \in D /\ DOMAIN x.table[d] = DOMAIN m.table[pdir[fgtask]]
  BY VmAssumption, CountIs DEF Parent
<1>2. PICK f : r = f[Count] /\ CopyTurns(f, x, d)
  BY <1>1, CopyLoop
<1> DEFINE S == {i \in 0 .. Count : /\ Copies(boot, D, E, d, x, f[i])
                                    /\ f[i].used < f[i].top => Ready(i, f[i])}
<1>3. 0 \in S
  <2>1. f[0] = x
    BY <1>2 DEF CopyTurns
  <2>2. W(0) = {}
    BY <1>1
  <2>3. CopyHas(d, W(0), x)
    BY <2>2 DEF CopyHas
  <2>. QED
    BY <1>1, <2>1, <2>3, CopiesSelf
<1>4. ASSUME NEW i \in S, i < Count PROVE i + 1 \in S
  <2>1. i \in 0 .. Count /\ i + 1 \in 1 .. Count /\ i + 1 \in 0 .. Count /\ (i + 1) - 1 = i
    BY <1>1, <1>4
  <2> DEFINE va == boot.start + (i + 1) - 1
             first == i + 1 = 1
             y == f[i]
             z == f[i + 1]
             v == y.data[PageFrame(va)]
  <2>2. va \in Nat /\ va < KHALF - 1 /\ va < KHALF /\ Mapped(m, pdir[fgtask], va)
    <3>1. \A k \in 1 .. Count : LET w == boot.start + k - 1
                               IN  w \in Nat /\ w < KHALF - 1 /\ Mapped(m, pdir[fgtask], w)
      BY <1>1, CountIs
    <3>. QED
      BY <2>1, <3>1, Constants
  <2>3. z = CopyPage(y, d, va, first)
    BY <1>2, <2>1 DEF CopyTurns
  <2>4. first \in BOOLEAN /\ (first => PDIRE(va) = PDIRE(boot.start))
    <3>1. i + 1 = 1 => va = boot.start
      <4>1. boot.start \in Nat
        BY <1>1
      <4>2. SUFFICES ASSUME i + 1 = 1 PROVE boot.start + (i + 1) - 1 = boot.start
        OBVIOUS
      <4>3. boot.start + 1 - 1 = boot.start
        BY ONLY <4>1
      <4>. QED
        BY ONLY <4>2, <4>3
    <3>. QED
      BY <3>1
  <2>5. Copies(boot, D, E, d, x, y) /\ (y.used < y.top => Ready(i, y))
    OBVIOUS
  <2>6. Safe(boot, y, E) /\ DOMAIN y.table[d] = DOMAIN m.table[pdir[fgtask]]
        /\ y.used \in x.used .. x.top
    BY <1>1, <2>5 DEF Copies
  <2>7. W(i + 1) = W(i) \cup {va} /\ W(i) \in SUBSET UserPages
    <3>1. start + i <= KHALF - 1
      BY <1>1, <2>1, <2>2, Constants
    <3>2. W(i + 1) = W(i) \cup {va}
      BY <1>1, <2>1
    <3>3. \A w \in W(i) : w \in 0 .. KHALF - 1
      BY <1>1, <2>1, <3>1, Constants
    <3>. QED
      BY <3>2, <3>3 DEF UserPages
  <2>8. /\ Copies(boot, D, E, d, x, z) /\ (z.used < z.top => Ready(i + 1, z))
        => i + 1 \in S
    BY <2>1
  <2>9. i # 0 <=> ~first
    BY ONLY <1>1, <2>1
  <2>10. va = start + i
    BY <1>1, <2>1
  <2>. HIDE DEF va, first, y, z, S, start
  <2>11. PDIRE(va) \in DOMAIN y.table[d] /\ va \in UserPages /\ Mapped(m, Parent, va)
    BY <2>2, <2>6, Constants DEF Mapped, UserPages, Parent
  <2>12. /\ Owner(va) \in BOOLEAN /\ PageUser(va) \in BOOLEAN
         /\ PageFrame(va) \in 0 .. m.top - 1
    BY <1>1, <2>2, MappedPage
  <2>13. v \in Values
    <3>1. m.top = boot.top /\ y.top = boot.top /\ y.data \in [0 .. y.top - 1 -> Values]
      BY <2>6 DEF Safe, MemoryOK
    <3>. QED
      BY <2>12, <3>1
  <2>14. z = IF first THEN FirstCopy(y, d, va, Owner(va), PageUser(va), v)
             ELSE NextCopy(y, d, va, PageUser(va), v)
    <3>1. MemoryOK(y) /\ Count # 0 /\ (first => y = x)
      BY <1>1, <1>2, <2>1, <2>6 DEF Safe, CopyTurns, first, y
    <3>2. first => boot.dirt[NextFrame(CopiedFrame(y, v))] = Absent
      BY <2>13, <3>1, FirstTurn
    <3>. QED
      BY <2>3, <2>4, <3>2, CopyPageIs
  <2>15. ASSUME OldData(m, y) PROVE v = Reads(m, Parent, va)
    <3>1. PageFrame(va) = FrameAt(m, Parent, va)
      BY DEF PageFrame, PageEntry, FrameAt, Parent
    <3>2. PageFrame(va) \in 0 .. m.used - 1
      BY <2>11, <3>1, MappedIn
    <3>. QED
      BY <2>15, <3>1, <3>2 DEF OldData, Reads
  <2>. HIDE DEF v
  <2> DEFINE owner == Owner(va)
             user == PageUser(va)
  <2>16. /\ owner \in BOOLEAN /\ user \in BOOLEAN
         /\ z = IF first THEN FirstCopy(y, d, va, owner, user, v)
                ELSE NextCopy(y, d, va, user, v)
    BY <2>12, <2>14
  <2>. HIDE DEF owner, user
  <2>17. m.used <= y.used /\ s \in 0 .. y.used - 1
    <3>1. x.used \in Nat /\ m.used \in Nat /\ y.used \in Nat /\ x.used <= y.used
      BY <2>6, Sizes DEF Safe
    <3>. QED
      BY <3>1
  <2>18. Copies(boot, D, E, d, y, z)
    <3>1. CASE first
      <4>1. z = FirstCopy(y, d, va, owner, user, v)
        BY <2>16, <3>1
      <4>. QED
        BY <1>1, <2>2, <2>4, <2>6, <2>11, <2>13, <2>16, <3>1, <4>1, CopiesFirst
    <3>2. CASE ~first
      <4>1. z = NextCopy(y, d, va, user, v)
        BY <2>16, <3>2
      <4>. QED
        BY <1>1, <2>2, <2>6, <2>11, <2>13, <2>16, <4>1, CopiesNext
    <3>. QED
      BY <3>1, <3>2
  <2>19. Copies(boot, D, E, d, x, z)
    BY <2>5, <2>18, CopiesTwice
  <2>20. ASSUME z.used < z.top PROVE Ready(i + 1, z)
    <3>1. y.used < y.top
      <4>1. z.top = y.top /\ z.used \in y.used .. y.top /\ y.used \in Nat /\ y.top \in Nat
        BY <2>6, <2>18, Sizes DEF Copies, Safe
      <4>. QED
        BY <2>20, <4>1
    <3>2. /\ CopyView(D, E, d, s, y)
          /\ y.ok => (i # 0 => OwnTable(d, y)) /\ CopyHas(d, W(i), y)
      BY <2>5, <3>1
    <3>3. v = Reads(m, Parent, va)
      BY <2>15, <3>2 DEF CopyView
    <3>4. (z.ok => y.ok) /\ i + 1 # 0
      BY <2>1, <2>18 DEF Copies
    <3>5. CASE first
      <4>1. z = FirstCopy(y, d, va, owner, user, v)
        BY <2>16, <3>5
      <4>2. PDIRE(va) = ImageIndex
        BY <2>4, <3>5 DEF ImageIndex
      <4>3. /\ CopyView(D, E, d, s, z)
            /\ z.ok => OwnTable(d, z) /\ CopyHas(d, {va}, z)
        BY <1>1, <2>2, <2>6, <2>11, <2>13, <2>16, <2>17, <2>20, <3>2, <3>3, <4>1, <4>2,
           FirstView
      <4>4. W(i + 1) = {va}
        <5>1. i = 0
          BY <2>9, <3>5
        <5>. QED
          BY <2>7, <5>1, <1>1
      <4>. QED
        BY <4>3, <4>4
    <3>6. CASE ~first
      <4>1. z = NextCopy(y, d, va, user, v)
        BY <2>16, <3>6
      <4>2. y.ok => OwnTable(d, y)
        BY <2>9, <3>2, <3>6
      <4>3. /\ CopyView(D, E, d, s, z)
            /\ z.ok => /\ OwnTable(d, z)
                       /\ \A V \in SUBSET UserPages :
                             CopyHas(d, V, y) => CopyHas(d, V \cup {va}, z)
        BY <1>1, <2>2, <2>6, <2>11, <2>13, <2>16, <2>17, <2>20, <3>2, <3>3, <4>1, <4>2,
           NextView
      <4>4. ASSUME z.ok PROVE CopyHas(d, W(i + 1), z)
        BY <2>7, <3>2, <3>4, <4>3, <4>4
      <4>. QED
        BY <4>3, <4>4
    <3>. QED
      BY <3>5, <3>6
  <2>. QED
    BY <2>8, <2>19, <2>20
<1>5. Count \in S
  <2>. HIDE DEF S
  <2>1. S \in SUBSET (0 .. Count)
    BY DEF S
  <2>2. S = 0 .. Count
    BY <1>1, <1>3, <1>4, <2>1, UpTo
  <2>. QED
    BY <1>1, <2>2
<1>6. Ready(Count, r)
  BY <1>2, <1>5
<1>. QED
  BY <1>6

(* All of the image is copied, if all of it is there. *)
LEMMA EnoughCopied ==
    ASSUME NEW D, Safe(boot, m, D), Parent \in D, boot \in Machines,
           \A w \in Image : Mapped(m, Parent, w)
    PROVE  Image \subseteq boot.start .. boot.start + Count - 1
<1> DEFINE start == boot.start
           last == CHOOSE n \in Copied : n + 1 \notin Copied
<1>1. /\ start \in Nat /\ Pages \in Nat /\ Pages # 0 /\ start + Pages < KHALF
      /\ KHALF \in Nat /\ VaTop \in Nat /\ KHALF < VaTop
  BY VmAssumption, Constants
<1>2. ASSUME NEW w \in start .. start + Pages - 1 PROVE w \in Copied
  <2>1. w \in start .. VaTop - 1 /\ \A v \in start .. w : v \in Image
    BY <1>1 DEF Image
  <2>. QED
    BY <2>1 DEF Copied, Parent
<1>3. start \in Copied
  BY <1>1, <1>2
<1>4. /\ Count \in Nat
      /\ \A i \in 1 .. Count : LET va == start + i - 1
                               IN  va \in Nat /\ va < KHALF - 1 /\ Mapped(m, pdir[fgtask], va)
  BY CountIs DEF Parent
<1>5. \E n \in Copied : n + 1 \notin Copied
  <2>1. \A va \in Copied : /\ va \in Nat /\ start <= va /\ va < KHALF
    <3>1. SUFFICES ASSUME NEW va \in Copied, va >= KHALF PROVE FALSE
      BY <1>1 DEF Copied
    <3>2. KHALF - 1 \in start .. va /\ KHALF - 1 \in Nat /\ KHALF - 1 < KHALF
      BY <1>1, <3>1 DEF Copied
    <3> DEFINE w == KHALF - 1
    <3>3. Mapped(m, pdir[fgtask], w)
      BY <3>2 DEF Copied
    <3>4. w \in Nat /\ w < KHALF /\ pdir[fgtask] \in D /\ w = KHALF - 1
      BY <3>2 DEF Parent
    <3>. HIDE DEF w
    <3>. QED
      BY <3>3, <3>4, MappedPage
  <2> DEFINE T == {k \in Nat : start + k \notin Copied}
  <2>2. KHALF - start \in T
    <3>1. KHALF - start \in Nat /\ start + (KHALF - start) = KHALF
      BY <1>1
    <3>2. KHALF \notin Copied
      BY <1>1, <2>1
    <3>. QED
      BY <3>1, <3>2
  <2>3. T # {} /\ T \in SUBSET Nat
    BY <2>2
  <2>4. PICK k \in T : \A y \in T : k <= y
    BY <2>3, Least
  <2>5. k \in Nat /\ k # 0
    BY <1>1, <1>3
  <2>6. k - 1 \in Nat /\ k - 1 \notin T
    BY <2>4, <2>5
  <2>7. start + (k - 1) \in Copied /\ start + (k - 1) + 1 \notin Copied
    <3>1. start + (k - 1) + 1 = start + k
      BY <1>1, <2>5
    <3>. QED
      BY <2>4, <2>6, <3>1
  <2>. QED
    BY <2>7
<1>6. last \in Copied /\ last + 1 \notin Copied
  BY <1>5
<1>7. Count = last - start + 1
  BY <1>3 DEF Count
<1>. HIDE DEF last
<1>8. last \in Nat /\ start <= last
  BY <1>1, <1>6 DEF Copied
<1>9. last >= start + Pages - 1
  <2>1. SUFFICES ASSUME last < start + Pages - 1 PROVE FALSE
    BY <1>1, <1>8
  <2>2. last + 1 \in start .. start + Pages - 1
    BY <1>1, <1>8, <2>1
  <2>. QED
    BY <1>2, <1>6, <2>2
<1>. QED
  BY <1>1, <1>7, <1>8, <1>9 DEF Image

(* Nothing is copied yet: the child's directory has its parent's tables. *)
LEMMA ViewStarts ==
    ASSUME NEW D, Safe(boot, m, D), Parent \in D, Once(m, D),
           NEW E, NEW d, E = D \cup {d},
           NEW y, Safe(boot, y, E), \A f \in 0 .. m.used - 1 : y.table[f] = m.table[f],
           y.data = m.data, d \in m.used .. y.used - 1,
           NEW s \in m.used .. y.used - 1,
           NEW x, x = CopyTable(y, d, Parent)
    PROVE  CopyView(D, E, d, s, x) /\ x.data = y.data
<1>1. /\ MemoryOK(m) /\ m.used \in Nat /\ Parent \in 0 .. m.used - 1
      /\ y.used \in Nat /\ y.top \in Nat /\ y.used <= y.top /\ MemoryOK(y)
      /\ Parent \in E /\ d \in E /\ \A f \in 0 .. m.used - 1 : f # d
  BY Sizes DEF Safe
<1>2. /\ Safe(boot, x, E)
      /\ \A f \in 0 .. y.top - 1 : f # d => x.table[f] = y.table[f]
      /\ x.table[d] = y.table[Parent]
  <2> DEFINE p == Parent
  <2>1. p \in E /\ d \in E
    BY <1>1
  <2>2. Safe(boot, y, E)
    OBVIOUS
  <2>3. x = CopyTable(y, d, p)
    OBVIOUS
  <2>. HIDE DEF p
  <2>4. /\ Safe(boot, x, E)
        /\ \A f \in 0 .. y.top - 1 : f # d => x.table[f] = y.table[f]
        /\ x.table[d] = y.table[p]
    BY ONLY <2>1, <2>2, <2>3, Inherits
  <2>. QED
    BY <2>4 DEF p
<1>3. x.data = m.data /\ x.data = y.data
  BY <1>1 DEF MemoryOK, IsMemory, CopyTable
<1>4. \A f \in 0 .. m.used - 1 : x.table[f] = m.table[f]
  <2>1. \A f \in 0 .. m.used - 1 : f \in 0 .. y.top - 1
    BY <1>1
  <2>. QED
    BY <1>1, <1>2, <2>1
<1>5. \A c \in D : c \in 0 .. m.used - 1 /\ x.table[c] = m.table[c] /\ Half(x, c) = Half(m, c)
  BY <1>4 DEF Safe, Half
<1>6. x.table[d] = m.table[Parent] /\ Half(x, d) = Half(m, Parent)
  BY <1>1, <1>2 DEF Half
<1>7. UserTables(x, E) = UserTables(m, D)
  <2>1. \A c \in E : \E q \in D : x.table[c] = m.table[q] /\ Half(x, c) = Half(m, q)
    BY <1>5, <1>6
  <2>2. UserTables(x, E) \subseteq UserTables(m, D)
    BY <2>1 DEF UserTables
  <2>3. UserTables(m, D) \subseteq UserTables(x, E)
    BY <1>5 DEF UserTables
  <2>. QED
    BY <2>2, <2>3
<1>8. \A g \in UserTables(m, D) : g \in 0 .. m.used - 1 /\ x.table[g] = m.table[g]
  <2>1. UserTables(m, D) \subseteq 0 .. m.used - 1
    BY TablesExist DEF AllTables
  <2>. QED
    BY <1>4, <2>1
<1>9. Once(x, E)
  BY <1>7, <1>8 DEF Once
<1>10. Unused(x, E, s)
  <2>1. \A g \in UserTables(m, D) : \A z \in DOMAIN m.table[g] :
            m.table[g][z].frame \in 0 .. m.used - 1
    BY PagesExist
  <2>2. s \notin 0 .. m.used - 1
    BY <1>1
  <2>. QED
    BY <1>7, <1>8, <2>1, <2>2 DEF Unused
<1>11. ASSUME NEW c \in D, NEW w \in UserPages, Mapped(m, c, w)
       PROVE  Holds(x, c, w, Reads(m, c, w))
  <2> DEFINE h == m.table[c][PDIRE(w)].frame
  <2>1. h \in UserTables(m, D)
    BY <1>11, MappedIn
  <2>2. x.table[c] = m.table[c] /\ x.table[h] = m.table[h]
    BY <1>5, <1>8, <2>1
  <2>. QED
    BY <1>3, <1>11, <2>2 DEF Holds, Reads, Mapped, FrameAt
<1>12. OldData(m, x) /\ SameDirs(D, m, x)
  BY <1>3, <1>5 DEF OldData, SameDirs
<1>. QED
  BY <1>3, <1>6, <1>9, <1>10, <1>11, <1>12 DEF CopyView

(* A directory less has the pages of the others where they are. *)
LEMMA OnceSubset ==
    ASSUME NEW x, NEW E, NEW D \in SUBSET E, Once(x, E)
    PROVE  Once(x, D)
<1>1. UserTables(x, D) \subseteq UserTables(x, E)
  BY DEF UserTables
<1>. QED
  BY <1>1 DEF Once

(* The image is in the user's half, and in one table if its ends are. *)
LEMMA ImagePlace ==
    ASSUME boot \in Machines, NEW w \in Image
    PROVE  /\ w \in UserPages
           /\ ImageIndex = PDIRE(boot.start + Pages - 1) => PDIRE(w) = ImageIndex
<1> DEFINE start == boot.start
           end == start + Pages - 1
<1>1. /\ start \in Nat /\ end \in Nat /\ KHALF \in Nat /\ w \in Nat
      /\ start <= w /\ w <= end /\ end < KHALF
  BY VmAssumption, Constants DEF Image
<1>2. w \in UserPages
  BY <1>1 DEF UserPages
<1>3. PDIRE(start) \in Nat /\ PDIRE(end) \in Nat /\ PDIRE(w) \in Nat
  BY <1>1, PageParts
<1>4. PDIRE(start) <= PDIRE(w) /\ PDIRE(w) <= PDIRE(end)
  BY <1>1, Constants, Monotone DEF PDIRE
<1>. HIDE DEF end
<1>5. PDIRE(start) = PDIRE(end) => PDIRE(w) = PDIRE(start)
  BY <1>3, <1>4
<1>. QED
  BY <1>2, <1>5 DEF ImageIndex, end

(* What a fork makes of memory, which has not run out: whoever ran reads what
   it read, and the child, if it is complete, has its stack and its parent's
   image, in a table of its own. *)
LEMMA ForkView ==
    ASSUME NEW D, Safe(boot, m, D), boot \in Machines, Parent \in D, Once(m, D),
           \A w \in Image : Mapped(m, Parent, w),
           ImageIndex = PDIRE(boot.start + Pages - 1),
           NEW task, task = task_alloc(Sound), task.m.ok, CleanTable(Inherit(task)),
           NEW d, d = task.pdir, NEW s, s = task.stack, s \notin Image,
           NEW E, E = D \cup {d},
           NEW n, n = MapUser(task_copy_vm(Inherit(task), d), d, s, s),
           n.used < n.top
    PROVE  /\ d \notin D /\ s \in m.used .. n.used - 1 /\ s < KHEAP
           /\ \A c \in D : \A w \in UserPages :
                 Mapped(m, c, w) /\ w # s => Holds(n, c, w, Reads(m, c, w))
           /\ SameDirs(D, m, n) /\ Once(n, D)
           /\ n.ok => /\ Once(n, E) /\ Mapped(n, d, s) /\ OwnTable(d, n)
                      /\ \A w \in Image : Holds(n, d, w, Reads(m, Parent, w))
<1> DEFINE y == task.m
           p == Parent
           x == Inherit(task)
           c == task_copy_vm(x, d)
<1>1. /\ boot.kernel \in Nat /\ MemoryOK(m) /\ m.used \in Nat /\ m.top \in Nat
      /\ 1 <= m.used /\ m.top = boot.top
      /\ KHEAP \in Nat /\ KHALF \in Nat /\ KHEAP < KHALF
  BY VmAssumption, Sizes, Constants DEF Safe
<1>2. /\ Safe(boot, Sound, D) /\ Sound.table = m.table /\ Sound.used = m.used
      /\ Sound.data = m.data
  BY SoundIs
<1>3. Grew(Sound, y) /\ y.data = m.data /\ TaskMade(boot, Sound, D, task)
  BY <1>1, <1>2, TaskAlloc
<1>4. n = MapUser(c, d, s, s) /\ p \in D /\ d \in E /\ D \subseteq E /\ CleanTable(x)
  OBVIOUS
<1>5. /\ d \in m.used .. y.used - 1 /\ s \in m.used .. y.used - 1 /\ s < KHEAP
      /\ Safe(boot, y, E)
  BY <1>2, <1>3 DEF TaskMade
<1>6. /\ y.used \in Nat /\ y.used <= m.top /\ y.top = m.top
      /\ \A f \in 0 .. m.used - 1 : y.table[f] = m.table[f]
  BY <1>1, <1>2, <1>3, <1>5, Sizes DEF Safe, Grew
<1>7. p \in 0 .. m.used - 1 /\ d \notin D
  BY <1>1, <1>4, <1>5 DEF Safe
<1>8. x = CopyTable(y, d, p)
  <2>1. m.table[p] = y.table[p]
    BY <1>6, <1>7
  <2>. QED
    BY <2>1 DEF Inherit, CopyTable, Parent
<1>. HIDE DEF y, p, x, c
<1>9. /\ Safe(boot, x, E) /\ x.used = y.used /\ x.top = y.top
      /\ x.table[d] = y.table[p]
  <2>1. p \in E /\ Safe(boot, y, E)
    BY <1>4, <1>5
  <2>. QED
    BY ONLY <1>4, <1>8, <2>1, Inherits
<1>10. DOMAIN x.table[d] = DOMAIN m.table[p]
  BY <1>6, <1>7, <1>9
<1>11. CopyView(D, E, d, s, x)
  <2>1. x = CopyTable(y, d, Parent)
    BY <1>8 DEF p
  <2>. QED
    BY <1>3, <1>5, <1>6, <2>1, ViewStarts
<1>12. Copies(boot, D, E, d, x, c)
  BY <1>4, <1>7, <1>9, <1>10, CopiesAll DEF p, c, Parent
<1>13. Safe(boot, c, E) /\ c.used \in x.used .. x.top /\ c.top = x.top /\ c.used \in Nat
  BY <1>9, <1>12, Sizes DEF Copies, Safe
<1>14. s \in 0 .. c.used - 1 /\ s < KHALF - 1 /\ s \in UserPages /\ s \in Nat
  BY <1>1, <1>5, <1>6, <1>9, <1>13 DEF UserPages
<1>15. Safe(boot, n, E) /\ n.used \in c.used .. c.top
  <2>1. boot.kernel \in Nat /\ Safe(boot, c, E) /\ d \in E /\ n = MapUser(c, d, s, s)
        /\ s \in Nat /\ s < KHALF - 1 /\ s \in 0 .. c.used - 1
    BY <1>1, <1>4, <1>13, <1>14
  <2>. QED
    BY ONLY <2>1, MapsUser
<1>16. c.used < c.top /\ s \in m.used .. n.used - 1
  <2>1. n.top = c.top
    BY ONLY <1>13, <1>15 DEF Safe
  <2>2. c.top \in Nat
    BY <1>13, Sizes DEF Safe
  <2>. QED
    BY <1>1, <1>5, <1>6, <1>9, <1>13, <1>15, <2>1, <2>2
<1>17. /\ CopyView(D, E, d, s, c)
       /\ c.ok => /\ Count # 0 => OwnTable(d, c)
                  /\ CopyHas(d, boot.start .. boot.start + Count - 1, c)
  <2>1. s \in 0 .. x.used - 1 /\ m.used <= x.used
    BY <1>1, <1>5, <1>6, <1>9
  <2>2. DOMAIN x.table[d] = DOMAIN m.table[Parent]
    BY <1>10 DEF p
  <2>3. c = task_copy_vm(x, d)
    BY DEF c
  <2>. QED
    BY <1>4, <1>7, <1>9, <1>11, <1>16, <2>1, <2>2, <2>3, ViewAll
<1>18. c.ok => OwnTable(d, c) /\ \A w \in Image : Holds(c, d, w, Reads(m, Parent, w))
  <2>1. Image \subseteq boot.start .. boot.start + Count - 1
    BY EnoughCopied
  <2>2. Count # 0
    <3>1. boot.start \in Image /\ boot.start \in Nat
      BY VmAssumption DEF Image
    <3>2. Count = 0 => boot.start \notin boot.start .. boot.start + Count - 1
      BY <3>1
    <3>. QED
      BY <2>1, <3>1, <3>2
  <2>. QED
    BY <1>17, <2>1, <2>2, ImagePlace DEF CopyHas
<1>19. m.used <= c.used
  BY <1>1, <1>5, <1>6, <1>9, <1>13
<1>20. CASE ~n.ok /\ (n = c \/ Took(c, n))
  <2>1. CopyView(D, E, d, s, n)
    <3>1. CASE n = c
      BY <1>17, <3>1
    <3>2. CASE Took(c, n)
      <4>1. Still(E, c, n) /\ OldData(c, n)
        BY <1>13, <3>2, TookGrew, GrewStill DEF Took, OldData
      <4>. QED
        BY <1>1, <1>4, <1>13, <1>17, <1>19, <4>1, ViewStill
    <3>. QED
      BY <1>20, <3>1, <3>2
  <2>. QED
    BY <1>4, <1>5, <1>7, <1>16, <1>20, <2>1, OnceSubset DEF CopyView
<1>21. CASE c.ok /\ Placed(E, c, n, d, s, s)
  <2>1. CopyView(D, E, d, s, c)
    BY <1>17
  <2>2. OldData(c, n) /\ SameDirs(E, c, n) /\ Mapped(n, d, s) /\ Once(n, E)
    BY <1>21, <2>1 DEF Placed, OldData, CopyView
  <2>3. ASSUME NEW e \in E, NEW w \in UserPages, w # s, NEW v, Holds(c, e, w, v)
        PROVE  Holds(n, e, w, v)
    <3>1. SamePage(c, n, e, w)
      BY <1>21, <2>3 DEF Placed, Holds
    <3>. QED
      BY <1>13, <2>2, <2>3, <3>1, StillHolds
  <2>4. ASSUME NEW e \in D, NEW w \in UserPages, Mapped(m, e, w), w # s
        PROVE  Holds(n, e, w, Reads(m, e, w))
    BY <1>4, <2>1, <2>3, <2>4 DEF CopyView
  <2>5. SameDirs(D, m, n)
    BY <1>4, <2>1, <2>2 DEF CopyView, SameDirs
  <2>6. OwnTable(d, n)
    BY <1>4, <1>18, <1>21, <2>2, KeepsTable
  <2>7. ASSUME NEW w \in Image PROVE Holds(n, d, w, Reads(m, Parent, w))
    BY <1>4, <1>18, <1>21, <2>3, ImagePlace
  <2>. QED
    BY <1>4, <1>5, <1>7, <1>16, <2>2, <2>4, <2>5, <2>6, <2>7, OnceSubset
<1>22. CASE ~c.ok
  <2>1. n = c
    BY <1>4, <1>22 DEF MapUser, vm_map_page
  <2>. QED
    BY <1>20, <1>22, <2>1
<1>23. CASE c.ok
  <2>1. \/ ~n.ok /\ Took(c, n)
        \/ Placed(E, c, n, d, s, s)
    BY <1>1, <1>4, <1>13, <1>14, MapsPlaced
  <2>. QED
    BY <1>20, <1>21, <1>23, <2>1
<1>. QED
  BY <1>22, <1>23

(* The directory that a new task starts with has its stack, and no page twice. *)
LEMMA StackPlaced ==
    ASSUME NEW b, b.kernel \in Nat, NEW x, MemoryOK(x), NEW d, NEW task,
           d = task.pdir,
           StackPut(b, x, {d}, task), task.stack < KHEAP
    PROVE  Once(task.m, {d}) /\ Mapped(task.m, d, task.stack)
<1> DEFINE E == {d}
           s == task.stack
           r == task.m
<1>1. PICK t, p : /\ Safe(b, t, E) /\ Grew(x, t) /\ Half(t, d) = {}
                  /\ s \in x.used .. t.used - 1
                  /\ p = MapUser(t, d, s, s) /\ p.ok /\ Took(p, r)
  BY DEF StackPut
<1>2. d \in E /\ E = {d} /\ s < KHEAP
  OBVIOUS
<1>. HIDE DEF E, s, r
<1>3. s \in 0 .. t.used - 1 /\ s \in Nat /\ s < KHALF - 1 /\ s \in UserPages
  <2>1. /\ x.used \in Nat /\ t.used \in Nat /\ KHEAP \in Nat /\ KHALF \in Nat
        /\ KHEAP < KHALF
    <3>1. MemoryOK(t)
      BY <1>1 DEF Grew
    <3>. QED
      BY <3>1, Sizes, Constants
  <2>. QED
    BY <1>1, <1>2, <2>1 DEF UserPages
<1>4. Safe(b, p, E)
  BY <1>1, <1>2, <1>3, MapsUser
<1>5. Placed(E, t, p, d, s, s)
  BY <1>1, <1>2, <1>3, MapsPlaced
<1>6. UserTables(t, E) = {}
  BY <1>1, <1>2 DEF UserTables
<1>7. Once(p, E) /\ Mapped(p, d, s)
  BY <1>5, <1>6 DEF Placed, Once, Unused
<1>8. Still(E, p, r)
  BY <1>1, <1>4, TookGrew, GrewStill
<1>. QED
  BY <1>2, <1>3, <1>7, <1>8 DEF Still, SamePage, E, s, r

(* The first task has its stack and its image, and no page twice. *)
LEMMA FirstHas ==
    ASSUME boot \in Machines, boot.junk = Absent,
           vm_init(Memory(boot)).ok,
           NEW task, task = task_init(Take(vm_init(Memory(boot)))), task.m.ok,
           NEW d, d = task.pdir, NEW s, s = task.stack, s \notin Image
    PROVE  /\ Once(task.m, {d}) /\ Mapped(task.m, d, s)
           /\ \A w \in Image : Mapped(task.m, d, w)
           /\ s < task.m.used /\ s < KHEAP
<1>1. PICK x, t, n : FirstFrom(x, t, n, task)
  BY FirstCalls
<1> DEFINE E == {d}
           y == t.m
           r == task.m
<1>2. /\ Safe(boot, x, {}) /\ TaskMade(boot, x, {}, t)
      /\ n = LoadImage(y, d, NoImage) /\ n.ok /\ r = Take(n)
      /\ t.pdir = d /\ t.stack = s
  BY <1>1 DEF FirstFrom
<1>3. boot.kernel \in Nat /\ NoImage \in [ImageNumbers -> Values] /\ d \in E
  BY VmAssumption DEF NoImage
<1>4. /\ Safe(boot, y, E) /\ s \in x.used .. y.used - 1 /\ s < KHEAP
      /\ StackPut(boot, x, E, t)
  BY <1>2 DEF TaskMade
<1>5. Once(y, E) /\ Mapped(y, d, s)
  <2>1. MemoryOK(x)
    BY <1>2 DEF Safe
  <2>. QED
    BY <1>2, <1>3, <1>4, <2>1, StackPlaced
<1>. HIDE DEF E, y, r
<1>6. Keeps(boot, E, y, n)
  BY <1>2, <1>3, <1>4, Loads
<1>7. Safe(boot, n, E) /\ MemoryOK(n)
  BY <1>6 DEF Keeps, Safe
<1>8. /\ Loaded(E, y, n, d, Image)
      /\ \A j \in ImageNumbers : Holds(n, d, boot.start + j - 1, NoImage[j])
  BY <1>2, <1>3, <1>4, LoadsAll
<1>9. s \in UserPages /\ s \in Nat /\ s < y.used /\ y.used \in Nat
  <2>1. x.used \in Nat /\ y.used \in Nat /\ KHEAP \in Nat /\ KHALF \in Nat /\ KHEAP < KHALF
    BY <1>2, <1>4, Sizes, Constants DEF Safe
  <2>. QED
    BY <1>4, <2>1 DEF UserPages
<1>10. Mapped(n, d, s) /\ Once(n, E)
  BY <1>3, <1>5, <1>8, <1>9 DEF Loaded, SamePage
<1>11. \A w \in Image : w \in UserPages /\ Mapped(n, d, w)
  <2>1. SUFFICES ASSUME NEW w \in Image PROVE w \in UserPages /\ Mapped(n, d, w)
    OBVIOUS
  <2> DEFINE j == w - boot.start + 1
  <2>2. j \in ImageNumbers /\ boot.start + j - 1 = w
    BY VmAssumption DEF Image, ImageNumbers
  <2>. HIDE DEF j
  <2>. QED
    BY <1>8, <2>2, ImagePlace DEF Holds
<1>12. Grew(n, r) /\ Still(E, n, r)
  BY <1>2, <1>7, Takes, TookGrew, GrewStill
<1>13. s < r.used
  <2>1. n.used \in y.used .. y.top /\ r.used \in n.used .. n.top
    BY <1>6, <1>12 DEF Keeps, Grew
  <2>2. MemoryOK(y)
    BY <1>4 DEF Safe
  <2>3. y.top \in Nat /\ n.used \in Nat /\ n.top \in Nat
    BY <1>7, <2>2, Sizes
  <2>. QED
    BY <1>9, <2>1, <2>3
<1>. QED
  BY <1>3, <1>4, <1>9, <1>10, <1>11, <1>12, <1>13 DEF Still, SamePage, E, r

-----------------------------------------------------------------------------
(* Each task's memory.                                                     *)

ImageTable(t) == m.table[pdir[t]][ImageIndex].frame
PagesOf(t) == Image \cup {stack[t]}

(* The tasks that run have all their pages, no two of them the same table for
   the image or the same stack, and no page is at two places. *)
OwnMemory ==
    /\ Once(m, Dirs)
    /\ \A t \in live : /\ \A w \in PagesOf(t) : Mapped(m, pdir[t], w)
                       /\ stack[t] < m.used /\ stack[t] < KHEAP /\ stack[t] \notin Image
    /\ \A t, u \in live : t # u =>
          /\ ImageTable(t) # ImageTable(u) /\ stack[t] # stack[u]
          /\ ImageIndex = PDIRE(boot.start + Pages - 1)
    /\ Calls => cr3 \in Dirs

(* The pages of a task are in the user's half, and so is its table. *)
LEMMA PagesPlace ==
    ASSUME VarsOK, Safe(boot, m, Dirs), OwnMemory, NEW t \in live
    PROVE  /\ pdir[t] \in Dirs /\ PagesOf(t) \in SUBSET UserPages
           /\ ImageIndex \in Half(m, pdir[t])
<1>1. stack[t] \in Nat /\ stack[t] < KHEAP /\ KHEAP \in Nat /\ KHALF \in Nat
      /\ KHEAP < KHALF
  <2>1. t \in Tasks /\ stack[t] \in Frames
    BY DEF VarsOK
  <2>2. stack[t] \in Nat
    BY <2>1, VmAssumption DEF Frames, VarsOK
  <2>. QED
    BY <2>2, Constants DEF OwnMemory
<1>2. boot \in Machines /\ boot.start \in Image
  BY VmAssumption DEF VarsOK, Image
<1>3. PagesOf(t) \in SUBSET UserPages
  <2>1. stack[t] \in UserPages
    BY <1>1 DEF UserPages
  <2>. QED
    BY <1>2, <2>1, ImagePlace DEF PagesOf
<1>4. boot.start \in PagesOf(t) /\ Mapped(m, pdir[t], boot.start) /\ pdir[t] \in Dirs
  BY <1>2 DEF PagesOf, OwnMemory, Dirs
<1>. QED
  BY <1>3, <1>4, MappedIn DEF ImageIndex

(* What reads the same looks the same. *)
LEMMA SameSeen ==
    ASSUME boot \in Machines, NEW t, boot' = boot, pdir'[t] = pdir[t], stack'[t] = stack[t],
           \A w \in PagesOf(t) : Reads(m', pdir[t], w) = Reads(m, pdir[t], w)
    PROVE  Seen(t)' = Seen(t)
<1>1. \A i \in 0 .. Pages : Slot(t, i) \in PagesOf(t) /\ Slot(t, i)' = Slot(t, i)
  <2>1. SUFFICES ASSUME NEW i \in 0 .. Pages
                 PROVE  Slot(t, i) \in PagesOf(t) /\ Slot(t, i)' = Slot(t, i)
    OBVIOUS
  <2>. QED
    BY VmAssumption DEF Slot, PagesOf, Image
<1>2. \A i \in 0 .. Pages :
          m'.data[FrameAt(m', pdir'[t], Slot(t, i)')] = m.data[FrameAt(m, pdir[t], Slot(t, i))]
  BY <1>1 DEF Reads
<1>. QED
  BY <1>2 DEF Seen

(* A step that makes no task and maps no page anew. *)
LEMMA KeepsOwn ==
    ASSUME VarsOK, Safe(boot, m, Dirs), OwnMemory,
           boot' = boot, live' \subseteq live,
           \A t \in live : pdir'[t] = pdir[t] /\ stack'[t] = stack[t],
           Once(m', Dirs), SameDirs(Dirs, m, m'), m.used <= m'.used, m'.used \in Nat,
           \A t \in live : \A w \in PagesOf(t) : Mapped(m', pdir[t], w),
           Calls' => cr3' \in Dirs'
    PROVE  OwnMemory'
<1>1. Dirs' \subseteq Dirs
  BY DEF Dirs
<1>2. Once(m', Dirs')
  BY <1>1, OnceSubset
<1>3. \A t \in live : ImageTable(t)' = ImageTable(t) /\ PagesOf(t)' = PagesOf(t)
  <2>1. SUFFICES ASSUME NEW t \in live
                 PROVE  ImageTable(t)' = ImageTable(t) /\ PagesOf(t)' = PagesOf(t)
    OBVIOUS
  <2>2. pdir[t] \in Dirs /\ ImageIndex \in Half(m, pdir[t])
    BY PagesPlace
  <2>3. m'.table[pdir[t]][ImageIndex] = m.table[pdir[t]][ImageIndex]
    BY <2>2 DEF SameDirs
  <2>4. ImageIndex' = ImageIndex /\ Image' = Image
    BY DEF ImageIndex, Image
  <2>. QED
    BY <2>3, <2>4 DEF ImageTable, PagesOf
<1>4. \A t \in live : stack[t] \in Nat /\ m.used \in Nat
  BY VmAssumption, Sizes DEF VarsOK, Frames, Safe
<1>5. Image' = Image /\ ImageIndex' = ImageIndex
  BY DEF Image, ImageIndex
<1>6. ASSUME NEW t \in live'
      PROVE  /\ \A w \in PagesOf(t)' : Mapped(m', pdir'[t], w)
             /\ stack'[t] < m'.used /\ stack'[t] < KHEAP /\ stack'[t] \notin Image'
  BY <1>3, <1>4, <1>5, <1>6 DEF OwnMemory
<1>7. ASSUME NEW t \in live', NEW u \in live', t # u
      PROVE  /\ ImageTable(t)' # ImageTable(u)' /\ stack'[t] # stack'[u]
             /\ ImageIndex' = PDIRE(boot'.start + Pages - 1)
  BY <1>3, <1>5, <1>7 DEF OwnMemory
<1>. QED
  BY <1>2, <1>6, <1>7 DEF OwnMemory

(* Memory that looks the same to all of them. *)
LEMMA SameView ==
    ASSUME boot \in Machines, boot' = boot, live' = live,
           \A t \in live : pdir'[t] = pdir[t] /\ stack'[t] = stack[t],
           \A t \in live : \A w \in PagesOf(t) : Reads(m', pdir[t], w) = Reads(m, pdir[t], w)
    PROVE  memory' = memory
<1>1. \A t \in live : Seen(t)' = Seen(t)
  BY SameSeen
<1>. QED
  BY <1>1 DEF memory

(* A task that runs has a memory. *)
LEMMA HasMemory ==
    ASSUME NEW t \in Tasks, t \in live
    PROVE  memory[t] = Seen(t) /\ memory[t] # <<>>
<1>1. memory[t] = Seen(t)
  BY DEF memory
<1>2. 0 \in DOMAIN Seen(t)
  BY VmAssumption DEF Seen
<1>3. DOMAIN << >> = {}
  OBVIOUS
<1>. QED
  BY <1>1, <1>2, <1>3

Own == VarsOK /\ Safe(boot, m, Dirs) /\ OwnMemory
OwnStep == OwnMemory' /\ (A!Next \/ UNCHANGED A!vars)

(* The scheduler's part, also after a page fault. *)
LEMMA DispatchOwn ==
    ASSUME Own, NEW t \in Tasks, Dispatch(t)
    PROVE  OwnStep
<1>1. /\ UNCHANGED <<boot, m, block, pdir, stack, live, hung, execs, mishap>>
      /\ t \in live /\ fgtask' = t /\ cr3' = pdir[t]
  BY DEF Dispatch
<1>2. OwnMemory'
  <2>1. Once(m', Dirs) /\ SameDirs(Dirs, m, m') /\ m.used \in Nat
    BY <1>1, Sizes DEF SameDirs, Own, OwnMemory, Safe
  <2>2. \A u \in live : \A w \in PagesOf(u) : Mapped(m', pdir[u], w)
    BY <1>1 DEF Own, OwnMemory
  <2>3. cr3' \in Dirs'
    BY <1>1 DEF Dirs
  <2>. QED
    BY <1>1, <2>1, <2>2, <2>3, KeepsOwn DEF Own
<1>3. memory' = memory
  BY <1>1, SameView DEF Own, VarsOK
<1>4. A!Run(t)
  BY <1>1, <1>3, HasMemory DEF A!Run
<1>. QED
  BY <1>2, <1>4 DEF OwnStep, A!Next

(* A task that exits. *)
LEMMA ExitOwn ==
    ASSUME Own, NEW t \in Tasks, Exit(t)
    PROVE  OwnStep
<1>1. /\ UNCHANGED <<boot, m, block, pdir, stack, hung, execs>>
      /\ t \in live /\ t # fgtask /\ fgtask' = t /\ cr3' = pdir[t]
      /\ live' = live \ {fgtask}
  BY DEF Exit
<1>2. OwnMemory'
  <2>1. Once(m', Dirs) /\ SameDirs(Dirs, m, m') /\ m.used \in Nat
    BY <1>1, Sizes DEF SameDirs, Own, OwnMemory, Safe
  <2>2. \A u \in live : \A w \in PagesOf(u) : Mapped(m', pdir[u], w)
    BY <1>1 DEF Own, OwnMemory
  <2>3. cr3' \in Dirs'
    BY <1>1 DEF Dirs
  <2>. QED
    BY <1>1, <2>1, <2>2, <2>3, KeepsOwn DEF Own
<1>3. \A u \in live : Seen(u)' = Seen(u)
  BY <1>1, SameSeen DEF Own, VarsOK
<1>4. memory' = [memory EXCEPT ![fgtask] = <<>>]
  BY <1>1, <1>3 DEF memory
<1>5. A!Exit(t)
  BY <1>1, <1>4, HasMemory DEF A!Exit
<1>. QED
  BY <1>2, <1>5 DEF OwnStep, A!Next

(* The calls that leave memory alone. *)
LEMMA CallOwn ==
    ASSUME Own, OtherCall \/ UNCHANGED vars
    PROVE  OwnStep
<1>1. UNCHANGED <<boot, m, block, pdir, stack, live, hung, fgtask, cr3, execs>>
  BY DEF OtherCall, vars
<1>2. OwnMemory'
  <2>1. Once(m', Dirs) /\ SameDirs(Dirs, m, m') /\ m.used \in Nat
    BY <1>1, Sizes DEF SameDirs, Own, OwnMemory, Safe
  <2>2. \A u \in live : \A w \in PagesOf(u) : Mapped(m', pdir[u], w)
    BY <1>1 DEF Own, OwnMemory
  <2>3. Calls' => cr3' \in Dirs'
    BY <1>1 DEF Dirs, Own, OwnMemory, Calls
  <2>. QED
    BY <1>1, <2>1, <2>2, <2>3, KeepsOwn DEF Own
<1>3. memory' = memory
  BY <1>1, SameView DEF Own, VarsOK
<1>. QED
  BY <1>1, <1>2, <1>3 DEF OwnStep, A!vars

(* Pages that stay where they are are read as they were. *)
LEMMA StillPages ==
    ASSUME Own, NEW r, Still(Dirs, m, r), OldData(m, r), NEW t \in live,
           NEW w \in PagesOf(t)
    PROVE  Mapped(r, pdir[t], w) /\ Reads(r, pdir[t], w) = Reads(m, pdir[t], w)
<1>1. pdir[t] \in Dirs /\ w \in UserPages /\ Mapped(m, pdir[t], w) /\ Safe(boot, m, Dirs)
  BY PagesPlace DEF Own, OwnMemory
<1>2. FrameAt(m, pdir[t], w) \in 0 .. m.used - 1 /\ SamePage(m, r, pdir[t], w)
  BY <1>1, MappedIn DEF Still
<1>. QED
  BY <1>2 DEF SamePage, OldData, Reads

(* A fork that fails before the child has a directory of its own: only one
   that never ends is no mishap, and it ends the calls. *)
LEMMA ForkFailsOwn ==
    ASSUME Own, ForkFails, mishap' \subseteq {"siblings", "reload"}
    PROVE  OwnStep
<1>1. PICK task : /\ task = task_alloc(Sound)
                  /\ m' = task.m
                  /\ hung' = IF task.m.stuck THEN hung \cup {fgtask} ELSE hung
                  /\ mishap' = mishap \cup Entered
                               \cup (IF task.m.stuck THEN {} ELSE {"oom"})
  BY DEF ForkFails
<1>2. UNCHANGED <<boot, block, pdir, stack, live, fgtask, execs>>
  BY DEF ForkFails
<1>3. /\ boot \in Machines /\ boot.kernel \in Nat /\ Safe(boot, m, Dirs)
      /\ MemoryOK(m) /\ m.used \in Nat /\ m.top \in Nat
  BY VmAssumption, Sizes DEF Own, VarsOK, Safe
<1>4. Safe(boot, Sound, Dirs) /\ Sound.data = m.data /\ Grew(m, Sound)
  BY <1>3, SoundIs
<1>5. Grew(Sound, m') /\ m'.data = m.data
  BY <1>1, <1>3, <1>4, TaskAlloc
<1>6. Grew(m, m')
  BY <1>3, <1>4, <1>5, GrewTwice
<1>7. Still(Dirs, m, m') /\ OldData(m, m')
  BY <1>3, <1>5, <1>6, GrewStill DEF OldData
<1>8. m'.used \in Nat /\ m.used <= m'.used
  BY <1>3, <1>6 DEF Grew
<1>9. fgtask' \in hung'
  BY <1>1, <1>2
<1>10. \A t \in live : \A w \in PagesOf(t) :
           Mapped(m', pdir[t], w) /\ Reads(m', pdir[t], w) = Reads(m, pdir[t], w)
  BY <1>7, StillPages
<1>11. OwnMemory'
  <2>1. Once(m', Dirs) /\ SameDirs(Dirs, m, m') /\ ~Calls'
    BY <1>7, <1>9 DEF Own, OwnMemory, Still, Calls
  <2>. QED
    BY <1>2, <1>8, <1>10, <2>1, KeepsOwn DEF Own
<1>12. memory' = memory
  BY <1>2, <1>3, <1>10, SameView
<1>. QED
  BY <1>2, <1>11, <1>12 DEF OwnStep, A!vars

(* Memory that is loaded anew from what a call starts from is loaded anew. *)
LEMMA LoadedSound ==
    ASSUME Own, NEW n, NEW d, NEW W, Loaded(Dirs, Sound, n, d, W)
    PROVE  Loaded(Dirs, m, n, d, W)
<1>1. /\ Sound.table = m.table /\ Sound.used = m.used /\ Sound.data = m.data
  BY SoundIs DEF Own, VarsOK
<1> DEFINE x == Sound
<1>2. x.table = m.table /\ x.used = m.used /\ x.data = m.data /\ Loaded(Dirs, x, n, d, W)
  BY <1>1
<1>. HIDE DEF x
<1>3. /\ \A c, w : (Mapped(x, c, w) <=> Mapped(m, c, w)) /\ FrameAt(x, c, w) = FrameAt(m, c, w)
      /\ \A c, w : Apart(x, c, d, w) <=> Apart(m, c, d, w)
      /\ \A c : Half(x, c) = Half(m, c)
  BY <1>2 DEF Mapped, FrameAt, Apart, Half
<1>4. UserTables(x, Dirs) = UserTables(m, Dirs)
  BY <1>2, <1>3 DEF UserTables
<1>5. Once(x, Dirs) <=> Once(m, Dirs)
  BY <1>2, <1>4 DEF Once
<1>6. SameDirs(Dirs, m, n) /\ OldData(m, n)
  BY <1>2, <1>3 DEF Loaded, SameDirs, OldData
<1>7. \A c \in Dirs : \A w \in UserPages :
          Mapped(m, c, w) /\ (w \notin W \/ Apart(m, c, d, w)) => SamePage(m, n, c, w)
  BY <1>2, <1>3 DEF Loaded, SamePage
<1>. QED
  BY <1>2, <1>5, <1>6, <1>7 DEF Loaded

(* The image of one task is not in the tables of another. *)
LEMMA ImagesApart ==
    ASSUME Own, NEW t \in live, NEW u \in live, t # u, NEW w \in Image
    PROVE  Apart(m, pdir[t], pdir[u], w) /\ PDIRE(w) = ImageIndex
<1>1. boot \in Machines /\ ImageIndex = PDIRE(boot.start + Pages - 1)
  BY DEF Own, VarsOK, OwnMemory
<1>2. PDIRE(w) = ImageIndex
  BY <1>1, ImagePlace
<1>3. ImageIndex \in Half(m, pdir[u]) /\ ImageTable(t) # ImageTable(u)
  BY PagesPlace DEF Own, OwnMemory
<1>. QED
  BY <1>2, <1>3 DEF Apart, ImageTable, Half

(* sys_exec, all of it or none. *)
LEMMA ExecOwn ==
    ASSUME Own, NEW image \in [ImageNumbers -> Values], Exec(image),
           mishap' \subseteq {"siblings", "reload"}
    PROVE  OwnStep
<1> DEFINE d == pdir[fgtask]
           n == LoadImage(Sound, d, image)
<1>1. /\ m' = n
      /\ hung' = IF n.stuck THEN hung \cup {fgtask} ELSE hung
      /\ mishap' = mishap \cup Entered
                   \cup (IF fgtask = 1 THEN {"reload"} ELSE {})
                   \cup (IF n.ok THEN {} ELSE {"partial"})
      /\ UNCHANGED <<boot, block, pdir, stack, live, fgtask, cr3>> /\ Calls
  BY DEF Exec
<1>2. n.ok
  BY <1>1
<1>3. /\ boot \in Machines /\ boot.kernel \in Nat /\ Safe(boot, m, Dirs) /\ fgtask \in live
      /\ MemoryOK(m) /\ m.used \in Nat /\ m.top \in Nat /\ d \in Dirs
      /\ boot.start \in Nat /\ Pages \in Nat
  <2>1. boot \in Machines /\ Safe(boot, m, Dirs) /\ fgtask \in live /\ d \in Dirs
    BY DEF Own, VarsOK, Dirs
  <2>2. MemoryOK(m)
    BY <2>1 DEF Safe
  <2>. QED
    BY <2>1, <2>2, VmAssumption, Sizes
<1>4. /\ Safe(boot, Sound, Dirs) /\ Sound.used = m.used /\ Sound.top = m.top
  BY <1>3, SoundIs
<1>. HIDE DEF n
<1>5. Keeps(boot, Dirs, Sound, n)
  BY <1>3, <1>4, Loads DEF n
<1>6. m'.used \in Nat /\ m.used <= m'.used
  BY <1>1, <1>3, <1>4, <1>5 DEF Keeps
<1>7. /\ Loaded(Dirs, Sound, n, d, Image)
      /\ \A j \in ImageNumbers : Holds(n, d, boot.start + j - 1, image[j])
  BY <1>2, <1>3, <1>4, LoadsAll DEF n
<1>8. Loaded(Dirs, m, n, d, Image)
  BY <1>7, LoadedSound
<1>9. \A w \in Image : Mapped(n, d, w)
  <2>1. SUFFICES ASSUME NEW w \in Image PROVE Mapped(n, d, w)
    OBVIOUS
  <2> DEFINE j == w - boot.start + 1
  <2>2. j \in ImageNumbers /\ boot.start + j - 1 = w
    BY <1>3 DEF Image, ImageNumbers
  <2>. HIDE DEF j
  <2>. QED
    BY <1>7, <2>2 DEF Holds
<1>10. ASSUME NEW t \in live, NEW w \in PagesOf(t), ~(t = fgtask /\ w \in Image)
       PROVE  Holds(n, pdir[t], w, Reads(m, pdir[t], w))
  <2>1. pdir[t] \in Dirs /\ w \in UserPages /\ Mapped(m, pdir[t], w)
    BY PagesPlace DEF Own, OwnMemory
  <2>2. w \notin Image \/ Apart(m, pdir[t], d, w)
    BY <1>3, <1>10, ImagesApart
  <2>. QED
    BY <1>3, <1>8, <2>1, <2>2, LoadedReads
<1>11. OwnMemory'
  <2>1. Once(m', Dirs) /\ SameDirs(Dirs, m, m')
    BY <1>1, <1>8 DEF Own, OwnMemory, Loaded
  <2>2. \A t \in live : \A w \in PagesOf(t) : Mapped(m', pdir[t], w)
    BY <1>1, <1>9, <1>10 DEF Holds
  <2>3. Calls' => cr3' \in Dirs'
    BY <1>1 DEF Dirs, Own, OwnMemory
  <2>. QED
    BY <1>1, <1>6, <2>1, <2>2, <2>3, KeepsOwn DEF Own
<1>12. \A t \in live : t # fgtask => Seen(t)' = Seen(t)
  BY <1>1, <1>3, <1>10, SameSeen DEF Holds
<1> DEFINE full == [i \in 0 .. Pages |-> IF i = 0 THEN 0 ELSE image[i]]
<1>13. full \in [0 .. Pages -> Values]
  BY <1>3, VmAssumption DEF ImageNumbers
<1>14. Seen(fgtask)' = [full EXCEPT ![0] = Seen(fgtask)[0]]
  <2>1. ASSUME NEW i \in 0 .. Pages
        PROVE  Seen(fgtask)'[i] = IF i = 0 THEN Seen(fgtask)[0] ELSE image[i]
    <3>1. Seen(fgtask)'[i] = m'.data[FrameAt(m', d, Slot(fgtask, i))]
      BY <1>1, <2>1 DEF Seen, Slot
    <3>2. Seen(fgtask)[i] = m.data[FrameAt(m, d, Slot(fgtask, i))]
      BY <2>1 DEF Seen
    <3>3. CASE i = 0
      <4>1. Slot(fgtask, i) = stack[fgtask] /\ stack[fgtask] \in PagesOf(fgtask)
            /\ stack[fgtask] \notin Image
        BY <1>3, <3>3 DEF Slot, PagesOf, Own, OwnMemory
      <4>2. Holds(n, d, stack[fgtask], Reads(m, d, stack[fgtask]))
        BY <1>3, <1>10, <4>1
      <4>. QED
        BY <1>1, <3>1, <3>2, <3>3, <4>1, <4>2 DEF Holds, Reads
    <3>4. CASE i # 0
      <4>1. Slot(fgtask, i) = boot.start + i - 1 /\ i \in ImageNumbers
        BY <1>3, <2>1, <3>4 DEF Slot, ImageNumbers
      <4>. QED
        BY <1>1, <1>7, <3>1, <3>4, <4>1 DEF Holds, Reads
    <3>. QED
      BY <3>3, <3>4
  <2>2. Seen(fgtask)' = [i \in 0 .. Pages |-> Seen(fgtask)'[i]]
    BY DEF Seen
  <2>3. [full EXCEPT ![0] = Seen(fgtask)[0]]
            = [i \in 0 .. Pages |-> IF i = 0 THEN Seen(fgtask)[0] ELSE image[i]]
    BY <1>3
  <2>. QED
    BY <2>1, <2>2, <2>3
<1>. HIDE DEF full
<1>15. fgtask \in Tasks /\ memory[fgtask] = Seen(fgtask) /\ live \subseteq Tasks
  BY <1>3, HasMemory DEF Own, VarsOK
<1>16. memory' = [memory EXCEPT ![fgtask] = [full EXCEPT ![0] = memory[fgtask][0]]]
  BY <1>1, <1>3, <1>12, <1>14, <1>15 DEF memory
<1>17. A!Load(full)
  BY <1>1, <1>16 DEF A!Load
<1>. QED
  BY <1>11, <1>13, <1>17 DEF OwnStep, A!Next

(* A program's store is seen by the program alone, and only there. *)
LEMMA OnlyThere ==
    ASSUME Own, cr3 \in Dirs, NEW va \in PagesOf(fgtask), Mapped(m, cr3, va),
           va \in Image => cr3 = pdir[fgtask],
           NEW t \in live, NEW w \in PagesOf(t),
           FrameAt(m, pdir[t], w) = FrameAt(m, cr3, va)
    PROVE  t = fgtask /\ w = va
<1>1. /\ Safe(boot, m, Dirs) /\ Once(m, Dirs) /\ fgtask \in live
  BY DEF Own, OwnMemory, VarsOK
<1>2. /\ pdir[t] \in Dirs /\ w \in UserPages /\ Mapped(m, pdir[t], w)
      /\ pdir[fgtask] \in Dirs /\ va \in UserPages
  BY <1>1, PagesPlace DEF Own, OwnMemory
<1> DEFINE c == cr3
           d == pdir[t]
           i == PDIRE(va)
           j == PDIRE(w)
           h == m.table[c][i].frame
           k == m.table[d][j].frame
<1>3. /\ i \in Half(m, c) /\ h \in UserTables(m, Dirs) /\ PTBLE(va) \in DOMAIN m.table[h]
      /\ j \in Half(m, d) /\ k \in UserTables(m, Dirs) /\ PTBLE(w) \in DOMAIN m.table[k]
  BY <1>1, <1>2, MappedIn
<1>4. m.table[h][PTBLE(va)].frame = m.table[k][PTBLE(w)].frame
  BY DEF FrameAt
<1>5. h = k /\ PTBLE(va) = PTBLE(w)
  <2>. HIDE DEF h, k
  <2>. QED
    BY <1>1, <1>3, <1>4 DEF Once
<1>6. i = j
  BY <1>1, <1>2, <1>3, <1>5 DEF Safe
<1>7. w = va
  BY <1>2, <1>5, <1>6, UserPlace, OnePlace
<1>8. ASSUME t # fgtask PROVE FALSE
  <2>1. CASE va \in Image
    <3>1. Apart(m, pdir[t], pdir[fgtask], va) /\ c = pdir[fgtask]
      BY <1>1, <1>8, <2>1, ImagesApart
    <3>. QED
      BY <1>5, <1>6, <3>1 DEF Apart
  <2>2. CASE va \notin Image
    <3>1. va = stack[fgtask] /\ va = stack[t]
      BY <1>7, <2>2 DEF PagesOf
    <3>. QED
      BY <1>1, <1>8, <3>1 DEF Own, OwnMemory
  <2>. QED
    BY <2>1, <2>2
<1>. QED
  BY <1>7, <1>8

(* The number that a task has for a page of its own. *)
LEMMA SlotOf ==
    ASSUME Own, NEW t \in live, NEW va \in PagesOf(t)
    PROVE  \E slot \in 0 .. Pages : \A i \in 0 .. Pages : Slot(t, i) = va <=> i = slot
<1>1. boot.start \in Nat /\ Pages \in Nat /\ stack[t] \notin Image
  BY VmAssumption DEF Own, VarsOK, OwnMemory
<1>2. \A i \in 0 .. Pages : i # 0 => Slot(t, i) = boot.start + i - 1 /\ Slot(t, i) \in Image
  BY <1>1 DEF Slot, Image
<1>3. Slot(t, 0) = stack[t] /\ 0 \in 0 .. Pages
  BY <1>1 DEF Slot
<1>4. CASE va = stack[t]
  BY <1>1, <1>2, <1>3, <1>4
<1>5. CASE va \in Image
  <2> DEFINE slot == va - boot.start + 1
  <2>1. slot \in 0 .. Pages /\ slot # 0 /\ va \in Nat
    BY <1>1, <1>5 DEF Image
  <2>2. ASSUME NEW i \in 0 .. Pages PROVE Slot(t, i) = va <=> i = slot
    <3>1. CASE i = 0
      BY <1>1, <1>3, <1>5, <2>1, <3>1
    <3>2. CASE i # 0
      BY <1>1, <1>2, <2>1, <3>2
    <3>. QED
      BY <3>1, <3>2
  <2>. HIDE DEF slot
  <2>. QED
    BY <2>1, <2>2
<1>. QED
  BY <1>4, <1>5 DEF PagesOf

(* A program's store changes the memory of no other. *)
LEMMA WriteOwn ==
    ASSUME Own, NEW va, NEW v \in Values, UserWrite(va, v),
           mishap' \subseteq {"siblings", "reload"}
    PROVE  OwnStep
<1> DEFINE f == FrameAt(m, cr3, va)
<1>1. /\ Calls /\ va \in PagesOf(fgtask) /\ UserMay(m, cr3, va)
      /\ m' = [m EXCEPT !.data[f] = v]
      /\ UNCHANGED <<boot, block, pdir, stack, live, hung, fgtask, cr3, execs>>
      /\ va \in Image => cr3 = pdir[fgtask]
  BY DEF UserWrite, PagesOf
<1>2. cr3 \in Dirs /\ Mapped(m, cr3, va)
  BY <1>1 DEF Own, OwnMemory, UserMay
<1>3. boot \in Machines /\ Safe(boot, m, Dirs) /\ fgtask \in live /\ fgtask \in Tasks
  BY DEF Own, VarsOK
<1>4. MemoryOK(m) /\ m.used \in Nat /\ m.top \in Nat
  BY <1>3, Sizes DEF Safe
<1>5. va \in UserPages
  BY <1>1, <1>3, PagesPlace DEF Own
<1>6. f \in 0 .. m.top - 1
  <2>1. f \in 0 .. m.used - 1
    BY <1>2, <1>3, <1>5, MappedIn
  <2>. QED
    BY <1>4, <2>1, Sizes
<1>. HIDE DEF f
<1>7. Grew(m, m')
  BY <1>1, <1>4, Fills
<1>8. Still(Dirs, m, m')
  BY <1>3, <1>7, GrewStill
<1>9. m'.data = [m.data EXCEPT ![f] = v] /\ m.data \in [0 .. m.top - 1 -> Values]
  BY <1>1, <1>4 DEF MemoryOK, IsMemory
<1>10. \A g \in 0 .. m.top - 1 : m'.data[g] = IF g = f THEN v ELSE m.data[g]
  BY <1>6, <1>9
<1>11. ASSUME NEW t \in live, NEW w \in PagesOf(t)
       PROVE  /\ Mapped(m', pdir[t], w)
              /\ Reads(m', pdir[t], w) = IF FrameAt(m, pdir[t], w) = f THEN v
                                         ELSE Reads(m, pdir[t], w)
              /\ FrameAt(m, pdir[t], w) = f => t = fgtask /\ w = va
  <2>1. pdir[t] \in Dirs /\ w \in UserPages /\ Mapped(m, pdir[t], w)
    BY PagesPlace DEF Own, OwnMemory
  <2>2. FrameAt(m, pdir[t], w) \in 0 .. m.used - 1 /\ SamePage(m, m', pdir[t], w)
    BY <1>3, <1>8, <2>1, MappedIn DEF Still
  <2>3. FrameAt(m, pdir[t], w) \in 0 .. m.top - 1
    BY <1>4, <2>2, Sizes
  <2>4. FrameAt(m, pdir[t], w) = f => t = fgtask /\ w = va
    BY <1>1, <1>2, OnlyThere DEF f
  <2>. QED
    BY <1>10, <2>2, <2>3, <2>4 DEF SamePage, Reads
<1>12. OwnMemory'
  <2>1. Once(m', Dirs) /\ SameDirs(Dirs, m, m') /\ m'.used \in Nat /\ m.used <= m'.used
    BY <1>4, <1>7, <1>8 DEF Own, OwnMemory, Still, Grew
  <2>2. Calls' => cr3' \in Dirs'
    BY <1>1, <1>2 DEF Dirs
  <2>. QED
    BY <1>1, <1>11, <2>1, <2>2, KeepsOwn DEF Own
<1>13. \A t \in live : t # fgtask => Seen(t)' = Seen(t)
  BY <1>1, <1>3, <1>11, SameSeen
<1>14. CASE FrameAt(m, pdir[fgtask], va) # f
  <2>1. \A w \in PagesOf(fgtask) : Reads(m', pdir[fgtask], w) = Reads(m, pdir[fgtask], w)
    BY <1>3, <1>11, <1>14
  <2>2. memory' = memory
    BY <1>1, <1>3, <1>13, <2>1, SameSeen DEF memory
  <2>. QED
    BY <1>1, <1>12, <2>2 DEF OwnStep, A!vars
<1>15. CASE FrameAt(m, pdir[fgtask], va) = f
  <2>1. PICK slot \in 0 .. Pages : \A i \in 0 .. Pages : Slot(fgtask, i) = va <=> i = slot
    BY <1>1, <1>3, SlotOf
  <2>2. ASSUME NEW i \in 0 .. Pages
        PROVE  Seen(fgtask)'[i] = IF i = slot THEN v ELSE Seen(fgtask)[i]
    <3>1. Slot(fgtask, i) \in PagesOf(fgtask) /\ Slot(fgtask, i)' = Slot(fgtask, i)
      BY <1>1, <1>3, VmAssumption DEF Slot, PagesOf, Image
    <3>2. /\ Seen(fgtask)'[i] = Reads(m', pdir[fgtask], Slot(fgtask, i))
          /\ Seen(fgtask)[i] = Reads(m, pdir[fgtask], Slot(fgtask, i))
      BY <1>1, <2>2, <3>1 DEF Seen, Reads
    <3>3. CASE i = slot
      BY <1>3, <1>11, <1>15, <2>1, <2>2, <3>1, <3>2, <3>3
    <3>4. CASE i # slot
      BY <1>3, <1>11, <1>15, <2>1, <2>2, <3>1, <3>2, <3>4
    <3>. QED
      BY <3>3, <3>4
  <2>3. Seen(fgtask)' = [Seen(fgtask) EXCEPT ![slot] = v]
    <3>1. Seen(fgtask)' = [i \in 0 .. Pages |-> Seen(fgtask)'[i]]
      BY DEF Seen
    <3>2. Seen(fgtask) = [i \in 0 .. Pages |-> Seen(fgtask)[i]]
      BY DEF Seen
    <3>. QED
      BY <2>2, <3>1, <3>2
  <2>4. memory[fgtask] = Seen(fgtask)
    BY <1>3, HasMemory
  <2>5. memory' = [memory EXCEPT ![fgtask][slot] = v]
    BY <1>1, <1>3, <1>13, <2>3, <2>4 DEF memory
  <2>6. A!Write(slot, v)
    BY <1>1, <2>5 DEF A!Write
  <2>. QED
    BY <1>12, <2>6 DEF OwnStep, A!Next
<1>. QED
  BY <1>14, <1>15

(* A fork that is no mishap makes a child with its parent's memory, or never
   ends. *)
LEMMA ForkOwn ==
    ASSUME Own, NEW u \in Tasks, Fork(u), mishap' \subseteq {"siblings", "reload"}
    PROVE  OwnStep
<1>1. PICK task : /\ task = task_alloc(Sound)
                  /\ task.m.ok
                  /\ pdir' = [pdir EXCEPT ![u] = task.pdir]
                  /\ stack' = [stack EXCEPT ![u] = task.stack]
                  /\ cr3' = task.pdir
                  /\ \E n \in {vm_map_page(task_copy_vm(Inherit(task), task.pdir),
                                           task.pdir, task.stack, task.stack,
                                           TRUE, None)} :
                        /\ m' = n
                        /\ live' = IF n.ok THEN live \cup {u} ELSE live
                        /\ hung' = IF n.stuck THEN hung \cup {fgtask} ELSE hung
                        /\ mishap' = mishap \cup Entered \cup ForkMishap(task.stack, n)
                                     \cup CopyMishap(Inherit(task))
  BY DEF Fork
<1> DEFINE d == task.pdir
           s == task.stack
           D == Dirs
           E == D \cup {d}
           n == MapUser(task_copy_vm(Inherit(task), d), d, s, s)
<1>2. /\ m' = n
      /\ live' = IF n.ok THEN live \cup {u} ELSE live
      /\ hung' = IF n.stuck THEN hung \cup {fgtask} ELSE hung
      /\ mishap' = mishap \cup Entered \cup ForkMishap(s, n)
                   \cup CopyMishap(Inherit(task))
  BY <1>1 DEF MapUser
<1>. HIDE DEF n
<1>3. /\ u \notin live /\ boot' = boot /\ fgtask' = fgtask
  BY DEF Fork
<1>4. ForkMishap(s, n) \subseteq {"siblings", "reload"}
  BY <1>2
<1>5. /\ s \notin Image /\ NextFrame(n) # Null /\ (~n.ok => n.stuck)
      /\ ImageIndex = PDIRE(boot.start + Pages - 1)
  BY <1>4 DEF ForkMishap, ImageIndex
<1>14. CleanTable(Inherit(task))
  <2>1. "leftover" \notin CopyMishap(Inherit(task))
    BY <1>2
  <2>. QED
    BY <2>1 DEF CopyMishap, CleanTable
<1>6. /\ boot \in Machines /\ fgtask \in live /\ fgtask \in Tasks /\ live \subseteq Tasks
      /\ pdir \in [Tasks -> Frames] /\ stack \in [Tasks -> Frames]
      /\ Safe(boot, m, D) /\ Once(m, D) /\ Parent \in D
      /\ \A w \in Image : Mapped(m, Parent, w)
  BY DEF Own, VarsOK, OwnMemory, Dirs, Parent, PagesOf
<1>7. /\ d \notin D /\ s \in m.used .. n.used - 1 /\ s < KHEAP
      /\ \A c \in D : \A w \in UserPages :
            Mapped(m, c, w) /\ w # s => Holds(n, c, w, Reads(m, c, w))
      /\ SameDirs(D, m, n) /\ Once(n, D)
      /\ n.ok => /\ Once(n, E) /\ Mapped(n, d, s) /\ OwnTable(d, n)
                 /\ \A w \in Image : Holds(n, d, w, Reads(m, Parent, w))
  <2>1. n.used < n.top
    BY <1>5 DEF NextFrame
  <2>2. n = MapUser(task_copy_vm(Inherit(task), d), d, s, s)
    BY DEF n
  <2>. QED
    BY <1>1, <1>5, <1>6, <1>14, <2>1, <2>2, ForkView
<1>8. m.used \in Nat /\ n.used \in Nat /\ m.used < n.used /\ s \in Nat
      /\ boot.start \in Nat /\ Pages \in Nat
  <2>1. m.used \in Nat
    BY <1>6, Sizes DEF Safe
  <2>2. MemoryOK(n)
    <3>1. Safe(boot, n, E)
      BY <1>1, <1>6, <1>14, Forks DEF n, Parent
    <3>. QED
      BY <3>1 DEF Safe
  <2>. QED
    BY <1>6, <1>7, <2>1, <2>2, Sizes, VmAssumption
<1>9. \A t \in live : pdir'[t] = pdir[t] /\ stack'[t] = stack[t]
  BY <1>1, <1>3, <1>6
<1>10. ASSUME NEW t \in live, NEW w \in PagesOf(t)
       PROVE  Mapped(m', pdir[t], w) /\ Reads(m', pdir[t], w) = Reads(m, pdir[t], w)
  <2>1. pdir[t] \in D /\ w \in UserPages /\ Mapped(m, pdir[t], w)
    BY PagesPlace DEF Own, OwnMemory
  <2>2. stack[t] \in Nat /\ stack[t] < m.used
    BY <1>6, VmAssumption DEF Frames, Own, OwnMemory
  <2>3. w # s
    BY <1>5, <1>7, <1>8, <2>2 DEF PagesOf
  <2>. QED
    BY <1>2, <1>7, <2>1, <2>3 DEF Holds
<1>11. \A t \in live : Seen(t)' = Seen(t)
  BY <1>3, <1>6, <1>9, <1>10, SameSeen
<1>12. CASE ~n.ok
  <2>1. live' = live /\ fgtask' \in hung'
    BY <1>2, <1>3, <1>5, <1>12
  <2>2. OwnMemory'
    <3>1. ~Calls'
      BY <2>1 DEF Calls
    <3>2. Once(m', Dirs) /\ SameDirs(Dirs, m, m') /\ m.used <= m'.used /\ m'.used \in Nat
      BY <1>2, <1>7, <1>8
    <3>. QED
      BY <1>3, <1>9, <1>10, <2>1, <3>1, <3>2, KeepsOwn DEF Own
  <2>3. memory' = memory
    BY <1>11, <2>1 DEF memory
  <2>. QED
    BY <1>3, <2>2, <2>3 DEF OwnStep, A!vars
<1>13. CASE n.ok
  <2>1. live' = live \cup {u} /\ pdir'[u] = d /\ stack'[u] = s
    BY <1>1, <1>2, <1>6, <1>13
  <2>2. Dirs' = E
    <3>1. Dirs' = {pdir'[t] : t \in live \cup {u}}
      BY <2>1 DEF Dirs
    <3>2. {pdir'[t] : t \in live \cup {u}} = {pdir[t] : t \in live} \cup {d}
      BY <1>9, <2>1
    <3>. QED
      BY <3>1, <3>2 DEF Dirs
  <2>3. Image' = Image /\ ImageIndex' = ImageIndex
    BY <1>3 DEF Image, ImageIndex
  <2>4. ASSUME NEW t \in live
        PROVE  /\ ImageTable(t)' = ImageTable(t) /\ ImageTable(t) \in 0 .. m.used - 1
               /\ PagesOf(t)' = PagesOf(t) /\ stack[t] \in Nat /\ stack[t] < m.used
               /\ stack[t] < KHEAP /\ stack[t] \notin Image
    <3>1. pdir[t] \in D /\ ImageIndex \in Half(m, pdir[t])
      BY PagesPlace DEF Own
    <3>2. n.table[pdir[t]][ImageIndex] = m.table[pdir[t]][ImageIndex]
      BY <1>7, <3>1 DEF SameDirs
    <3>3. ImageTable(t)' = ImageTable(t) /\ PagesOf(t)' = PagesOf(t)
      BY <1>2, <1>9, <2>3, <3>2 DEF ImageTable, PagesOf
    <3>4. ImageTable(t) \in 0 .. m.used - 1
      BY <1>6, <3>1, TableOf DEF ImageTable
    <3>5. stack[t] \in Nat
      BY <1>6, VmAssumption DEF Frames
    <3>. QED
      BY <3>3, <3>4, <3>5 DEF Own, OwnMemory
  <2>5. ImageTable(u)' >= m.used /\ PagesOf(u)' = Image \cup {s}
    BY <1>2, <1>7, <1>13, <2>1, <2>3 DEF OwnTable, ImageTable, PagesOf
  <2>6. ASSUME NEW t \in live'
        PROVE  /\ \A w \in PagesOf(t)' : Mapped(m', pdir'[t], w)
               /\ stack'[t] < m'.used /\ stack'[t] < KHEAP /\ stack'[t] \notin Image'
    <3>1. CASE t \in live
      BY <1>2, <1>8, <1>9, <1>10, <2>3, <2>4, <3>1
    <3>2. CASE t = u
      BY <1>2, <1>5, <1>7, <1>8, <1>13, <2>1, <2>3, <2>5, <3>2 DEF Holds
    <3>. QED
      BY <2>1, <3>1, <3>2
  <2>7. ASSUME NEW t \in live, NEW q \in live, t # q
        PROVE  ImageTable(t)' # ImageTable(q)' /\ stack'[t] # stack'[q]
    BY <1>9, <2>4, <2>7 DEF Own, OwnMemory
  <2>8. ASSUME NEW t \in live
        PROVE  /\ ImageTable(t)' # ImageTable(u)' /\ stack'[t] # stack'[u]
    <3>1. ImageTable(t)' < m.used /\ stack'[t] < m.used /\ ImageTable(t)' \in Nat
          /\ stack'[t] \in Nat
      BY <1>8, <1>9, <2>4
    <3>. QED
      BY <1>7, <1>8, <2>1, <2>5, <3>1
  <2>9. ImageIndex' = PDIRE(boot'.start + Pages - 1)
    BY <1>3, <1>5, <2>3
  <2>10. Once(m', Dirs') /\ cr3' \in Dirs'
    BY <1>1, <1>2, <1>7, <1>13, <2>2
  <2>11. OwnMemory'
    BY <2>1, <2>6, <2>7, <2>8, <2>9, <2>10 DEF OwnMemory
  <2> DEFINE v == m'.data[FrameAt(m', d, s)]
  <2>12. v \in Values
    <3>1. Safe(boot, n, E)
      BY <1>1, <1>6, <1>14, Forks DEF n, Parent
    <3>2. s \in UserPages /\ Mapped(n, d, s) /\ d \in E
      BY <1>7, <1>8, <1>13, Constants DEF UserPages
    <3>3. FrameAt(n, d, s) \in 0 .. n.used - 1
      BY <3>1, <3>2, MappedIn
    <3>4. MemoryOK(n)
      BY <3>1 DEF Safe
    <3>5. FrameAt(n, d, s) \in 0 .. n.top - 1
      BY <3>3, <3>4, Sizes
    <3>. QED
      BY <1>2, <3>4, <3>5 DEF MemoryOK
  <2>13. Seen(u)' = [Seen(fgtask) EXCEPT ![0] = v]
    <3>1. ASSUME NEW i \in 0 .. Pages
          PROVE  Seen(u)'[i] = IF i = 0 THEN v ELSE Seen(fgtask)[i]
      <4>1. Seen(u)'[i] = m'.data[FrameAt(m', d, Slot(u, i)')]
        BY <2>1, <3>1 DEF Seen
      <4>2. CASE i = 0
        BY <2>1, <4>1, <4>2 DEF Slot
      <4>3. CASE i # 0
        <5>1. Slot(u, i)' = boot.start + i - 1 /\ Slot(fgtask, i) = boot.start + i - 1
          BY <1>3, <4>3 DEF Slot
        <5>2. boot.start + i - 1 \in Image
          BY <1>8, <3>1, <4>3 DEF Image
        <5>3. Holds(n, d, boot.start + i - 1, Reads(m, Parent, boot.start + i - 1))
          BY <1>7, <1>13, <5>2
        <5>. QED
          BY <1>2, <3>1, <4>1, <4>3, <5>1, <5>3 DEF Holds, Reads, Seen, Parent
      <4>. QED
        BY <4>2, <4>3
    <3>2. Seen(u)' = [i \in 0 .. Pages |-> Seen(u)'[i]]
      BY DEF Seen
    <3>3. Seen(fgtask) = [i \in 0 .. Pages |-> Seen(fgtask)[i]]
      BY DEF Seen
    <3>. HIDE DEF v
    <3>. QED
      BY <3>1, <3>2, <3>3
  <2>. HIDE DEF v
  <2>14. memory[fgtask] = Seen(fgtask) /\ memory[u] = <<>>
    BY <1>3, <1>6, HasMemory DEF memory
  <2>15. memory' = [memory EXCEPT ![u] = [memory[fgtask] EXCEPT ![0] = v]]
    BY <1>3, <1>11, <2>1, <2>13, <2>14 DEF memory
  <2>16. A!Fork(u)
    BY <1>3, <2>12, <2>14, <2>15 DEF A!Fork
  <2>. QED
    BY <2>11, <2>16 DEF OwnStep, A!Next
<1>. QED
  BY <1>12, <1>13

(* The first state. *)
LEMMA InitOwn ==
    ASSUME Init, mishap \subseteq {"siblings", "reload"}
    PROVE  OwnMemory /\ A!Init
<1>1. PICK task : /\ task = task_init(Take(vm_init(Memory(boot))))
                  /\ task.m.ok /\ m = task.m
                  /\ pdir = [t \in Tasks |-> IF t = 1 THEN task.pdir ELSE Null]
                  /\ stack = [t \in Tasks |-> IF t = 1 THEN task.stack ELSE Null]
                  /\ cr3 = task.pdir
                  /\ mishap = (IF boot.junk = Absent THEN {} ELSE {"dirty"})
                              \cup (IF task.stack \in Image THEN {"overlap"} ELSE {})
  BY DEF Init
<1> DEFINE d == task.pdir
           s == task.stack
<1>2. boot \in Machines /\ vm_init(Memory(boot)).ok /\ live = {1} /\ fgtask = 1
  BY DEF Init
<1>3. boot.junk = Absent /\ s \notin Image
  BY <1>1
<1>4. 1 \in Tasks /\ boot.start \in Nat /\ Pages \in Nat
  BY <1>2, VmAssumption DEF Tasks
<1>5. pdir[1] = d /\ stack[1] = s /\ Dirs = {d}
  BY <1>1, <1>2, <1>4 DEF Dirs
<1>6. /\ Once(m, {d}) /\ Mapped(m, d, s) /\ \A w \in Image : Mapped(m, d, w)
      /\ s < m.used /\ s < KHEAP
  BY <1>1, <1>2, <1>3, FirstHas
<1>7. OwnMemory
  BY <1>1, <1>2, <1>3, <1>5, <1>6 DEF OwnMemory, PagesOf
<1>8. VarsOK /\ Safe(boot, m, Dirs)
  <2>1. Without(Breaks)
    BY DEF Without, Breaks
  <2>. QED
    BY <2>1, VmInit DEF VmInv
<1>9. ASSUME NEW i \in 0 .. Pages PROVE Seen(1)[i] \in Values
  <2>1. Slot(1, i) \in PagesOf(1)
    BY <1>4 DEF Slot, PagesOf, Image
  <2>2. pdir[1] \in Dirs /\ Slot(1, i) \in UserPages /\ Mapped(m, pdir[1], Slot(1, i))
    BY <1>2, <1>7, <1>8, <2>1, PagesPlace DEF OwnMemory
  <2>3. FrameAt(m, pdir[1], Slot(1, i)) \in 0 .. m.used - 1
    BY <1>8, <2>2, MappedIn
  <2>4. MemoryOK(m)
    BY <1>8 DEF Safe
  <2>5. FrameAt(m, pdir[1], Slot(1, i)) \in 0 .. m.top - 1
    BY <2>3, <2>4, Sizes
  <2>6. m.data[FrameAt(m, pdir[1], Slot(1, i))] \in Values
    BY <2>4, <2>5 DEF MemoryOK
  <2>. QED
    BY <1>9, <2>6 DEF Seen
<1>10. Seen(1) \in [0 .. Pages -> Values]
  <2>1. Seen(1) = [i \in 0 .. Pages |-> Seen(1)[i]]
    BY DEF Seen
  <2>. QED
    BY <1>9, <2>1
<1>11. memory = [u \in Tasks |-> IF u = 1 THEN Seen(1) ELSE <<>>]
  BY <1>2 DEF memory
<1>12. A!Init
  BY <1>2, <1>4, <1>10, <1>11 DEF A!Init
<1>. QED
  BY <1>7, <1>12

(* Each task's memory is its own until a mishap. *)
OwnInv == mishap \subseteq {"siblings", "reload"} => OwnMemory

(* Every step that is no mishap is one of the tasks' memories. *)
LEMMA EveryStepOwn ==
    ASSUME VmInv, OwnInv, [Next]_vars, mishap' \subseteq {"siblings", "reload"}
    PROVE  OwnStep
<1>1. mishap \subseteq mishap'
  BY DEF Next, vars, Fork, ForkFails, Exec, OtherCall, Dispatch, Exit,
         UserWrite, PageFault
<1>2. Own
  <2>1. mishap \subseteq {"siblings", "reload"} /\ Without(Breaks)
    BY <1>1 DEF Without, Breaks
  <2>. QED
    BY <2>1 DEF VmInv, OwnInv, Own
<1>3. CASE \E u \in Tasks : Fork(u)
  BY <1>2, <1>3, ForkOwn
<1>4. CASE ForkFails
  BY <1>2, <1>4, ForkFailsOwn
<1>5. CASE \E image \in [ImageNumbers -> Values] : Exec(image)
  BY <1>2, <1>5, ExecOwn
<1>6. CASE OtherCall \/ UNCHANGED vars
  BY <1>2, <1>6, CallOwn
<1>7. CASE \E t \in Tasks : Dispatch(t) \/ Exit(t)
  BY <1>2, <1>7, DispatchOwn, ExitOwn
<1>8. CASE \E va \in 0 .. VaTop - 1, v \in Values : UserWrite(va, v)
  BY <1>2, <1>8, WriteOwn
<1>9. CASE \E t \in Tasks : PageFault(t)
  BY <1>2, <1>9, DispatchOwn DEF PageFault
<1>. QED
  BY <1>3, <1>4, <1>5, <1>6, <1>7, <1>8, <1>9 DEF Next

(* Until a mishap every task has a memory of its own: a program's store is
   seen by that program alone, a child starts with its parent's pages, exec
   replaces the caller's, and no other step changes any. *)
THEOREM MemoryIsPrivate == Spec => PrivateMemory
<1>1. Init => OwnInv /\ (mishap \subseteq {"siblings", "reload"} => A!Init)
  BY InitOwn DEF OwnInv
<1>2. VmInv /\ OwnInv /\ [Next]_vars => OwnInv'
  BY EveryStepOwn DEF OwnInv, OwnStep
<1>3. VmInv /\ OwnInv /\ [Next]_vars
        => [mishap' \subseteq {"siblings", "reload"} => (A!Next \/ UNCHANGED A!vars)]_vars
  BY EveryStepOwn DEF OwnStep
<1>4. Spec => []VmInv
  BY VmInvHolds
<1>5. Spec => []OwnInv
  BY <1>1, <1>2, <1>4, PTL DEF Spec
<1>. QED
  BY <1>1, <1>3, <1>4, <1>5, PTL DEF Spec, PrivateMemory

-----------------------------------------------------------------------------
(* The stacks of system calls.                                             *)

(* What the tables in F get are frames that are not below B; what they have
   stays, or is replaced by such frames. *)
Adds(F, B, x, r) ==
    \A g \in F : /\ \A i \in DOMAIN x.table[g] : i \in DOMAIN r.table[g]
                 /\ \A i \in DOMAIN r.table[g] :
                       \/ i \in DOMAIN x.table[g] /\ r.table[g][i] = x.table[g][i]
                       \/ r.table[g][i].frame >= B

(* Directory d keeps what it has. *)
KeepsDir(d, x, r) ==
    \A i \in DOMAIN x.table[d] : i \in DOMAIN r.table[d] /\ r.table[d][i] = x.table[d][i]

(* The tables in G stay as they are; directory d has none of them. *)
Spares(G, x, r) == \A g \in G : r.table[g] = x.table[g]
Avoids(G, d, x) == d \notin G /\ \A i \in DOMAIN x.table[d] : x.table[d][i].frame \notin G

(* What mapping pages, in frames that are not below B, does to directory d. *)
Grows(B, G, d, x, r) ==
    /\ Adds(0 .. x.top - 1, B, x, r)
    /\ KeepsDir(d, x, r)
    /\ Avoids(G, d, x) => Spares(G, x, r) /\ Avoids(G, d, r)

(* The pages in W are mapped in such frames. *)
Has(B, d, W, x) == \A w \in W : Mapped(x, d, w) /\ FrameAt(x, d, w) >= B

(* One change after another. *)
LEMMA AddsTwice ==
    ASSUME NEW F, NEW B, NEW x, NEW r, NEW s, Adds(F, B, x, r), Adds(F, B, r, s)
    PROVE  Adds(F, B, x, s)
<1>1. ASSUME NEW g \in F, NEW i \in DOMAIN x.table[g] PROVE i \in DOMAIN s.table[g]
  BY <1>1 DEF Adds
<1>2. ASSUME NEW g \in F, NEW i \in DOMAIN s.table[g]
      PROVE  \/ i \in DOMAIN x.table[g] /\ s.table[g][i] = x.table[g][i]
             \/ s.table[g][i].frame >= B
  <2>1. \/ i \in DOMAIN r.table[g] /\ s.table[g][i] = r.table[g][i]
        \/ s.table[g][i].frame >= B
    BY <1>2 DEF Adds
  <2>2. i \in DOMAIN r.table[g] =>
            \/ i \in DOMAIN x.table[g] /\ r.table[g][i] = x.table[g][i]
            \/ r.table[g][i].frame >= B
    BY <1>2 DEF Adds
  <2>. QED
    BY <2>1, <2>2
<1>. QED
  BY <1>1, <1>2 DEF Adds

(* So it is with what a directory gets. *)
LEMMA GrowsTwice ==
    ASSUME NEW B, NEW G, NEW d, NEW x, NEW r, NEW s, r.top = x.top,
           Grows(B, G, d, x, r), Grows(B, G, d, r, s)
    PROVE  Grows(B, G, d, x, s)
<1> DEFINE F == 0 .. x.top - 1
<1>1. Adds(F, B, x, r) /\ Adds(F, B, r, s)
  BY DEF Grows
<1>. HIDE DEF F
<1>2. Adds(F, B, x, s)
  BY <1>1, AddsTwice
<1>3. KeepsDir(d, x, s)
  BY DEF Grows, KeepsDir
<1>4. Avoids(G, d, x) => Spares(G, x, s) /\ Avoids(G, d, s)
  BY DEF Grows, Spares
<1>. QED
  BY <1>2, <1>3, <1>4 DEF Grows, F

(* Without a change to the tables nothing grows. *)
LEMMA SameGrows ==
    ASSUME NEW B, NEW G, NEW d, NEW x, NEW r, r.table = x.table
    PROVE  Grows(B, G, d, x, r)
BY DEF Grows, Adds, KeepsDir, Spares, Avoids

(* An entry whose frame is not below B. *)
LEMMA PutAdds ==
    ASSUME NEW x, MemoryOK(x), NEW g \in 0 .. x.used - 1,
           NEW i \in 0 .. VaTop, NEW e, IsEntry(e), NEW B, e.frame >= B,
           NEW r, r = PutEntry(x, g, i, e)
    PROVE  /\ MemoryOK(r) /\ r.top = x.top /\ r.used = x.used /\ r.ok = x.ok
           /\ Adds(0 .. x.top - 1, B, x, r)
           /\ i \in DOMAIN r.table[g] /\ r.table[g][i] = e
           /\ DOMAIN r.table[g] = {i} \cup DOMAIN x.table[g]
           /\ \A j \in DOMAIN x.table[g] : j # i => r.table[g][j] = x.table[g][j]
           /\ \A f \in 0 .. x.top - 1 : f # g => r.table[f] = x.table[f]
<1>1. /\ MemoryOK(r) /\ r.top = x.top /\ r.used = x.used /\ r.ok = x.ok
      /\ r.table[g] = Put(x.table[g], i, e)
      /\ \A f \in 0 .. x.top - 1 : f # g => r.table[f] = x.table[f]
  BY Puts
<1>2. /\ DOMAIN r.table[g] = {i} \cup DOMAIN x.table[g] /\ r.table[g][i] = e
      /\ \A j \in DOMAIN x.table[g] : j # i => r.table[g][j] = x.table[g][j]
  BY <1>1 DEF Put, Over
<1>3. Adds(0 .. x.top - 1, B, x, r)
  <2>1. ASSUME NEW f \in 0 .. x.top - 1
        PROVE  /\ \A j \in DOMAIN x.table[f] : j \in DOMAIN r.table[f]
               /\ \A j \in DOMAIN r.table[f] :
                     \/ j \in DOMAIN x.table[f] /\ r.table[f][j] = x.table[f][j]
                     \/ r.table[f][j].frame >= B
    <3>1. CASE f = g
      BY <1>2, <3>1
    <3>2. CASE f # g
      BY <1>1, <3>2
    <3>. QED
      BY <3>1, <3>2
  <2>. QED
    BY <2>1 DEF Adds
<1>. QED
  BY <1>1, <1>2, <1>3

(* A directory that gets only such frames still avoids those below. *)
LEMMA StillAvoids ==
    ASSUME NEW B \in Nat, NEW G \in SUBSET (0 .. B - 1), NEW x, NEW d \in 0 .. x.top - 1,
           NEW r, Adds(0 .. x.top - 1, B, x, r), Avoids(G, d, x)
    PROVE  Avoids(G, d, r)
<1>1. ASSUME NEW i \in DOMAIN r.table[d] PROVE r.table[d][i].frame \notin G
  <2>1. \/ i \in DOMAIN x.table[d] /\ r.table[d][i] = x.table[d][i]
        \/ r.table[d][i].frame >= B
    BY DEF Adds
  <2>2. \A f \in G : ~(f >= B)
    OBVIOUS
  <2>. QED
    BY <2>1, <2>2 DEF Avoids
<1>. QED
  BY <1>1 DEF Avoids

(* vm_map_page without a cache, for a page in such a frame. *)
LEMMA MapGrows ==
    ASSUME NEW b, b.kernel \in Nat, NEW x, NEW D, Safe(b, x, D), NEW d \in D,
           NEW va \in UserPages, NEW pa \in 0 .. x.used - 1,
           NEW B \in Nat, pa >= B, B <= x.used, NEW G \in SUBSET (0 .. B - 1),
           NEW r, r = MapUser(x, d, pa, va)
    PROVE  /\ Grows(B, G, d, x, r)
           /\ r.ok => Has(B, d, {va}, r)
<1> DEFINE user == TRUE
           i == PDIRE(va)
           y == PTBLE(va)
           e == Entry(pa, user)
           k == Entry(x.used, user)
<1>1. user \in BOOLEAN /\ r = vm_map_page(x, d, pa, va, user, None)
  BY DEF MapUser
<1>. HIDE DEF user
<1>2. /\ MemoryOK(x) /\ x.used \in Nat /\ x.top \in Nat /\ 1 <= x.used /\ x.used <= x.top
      /\ VaTop \in Nat /\ x.top <= VaTop /\ d \in 0 .. x.used - 1 /\ d \in 0 .. x.top - 1
  BY Sizes DEF Safe
<1>3. /\ va \in Nat /\ i \in 0 .. HALF - 1 /\ i \in 0 .. VaTop /\ y \in 0 .. VaTop
  BY UserPlace, Indices, Constants
<1>4. IsEntry(e) /\ e.frame = pa
  BY <1>1, <1>2, EntryIs
<1>5. \/ ~r.ok /\ Took(x, r)
      \/ /\ i \in DOMAIN x.table[d]
         /\ r = PutEntry(x, x.table[d][i].frame, y, e)
      \/ \E n : /\ i \notin DOMAIN x.table[d] /\ x.used < x.top
                /\ Took(x, n) /\ n.used = x.used + 1
                /\ r = NewPage(x, n, d, i, y, user, e)
  BY <1>1, <1>2, MapPage DEF Got
<1>6. \A f \in G : f # x.used /\ f \in 0 .. x.top - 1
  BY <1>2
<1>7. r.ok => Has(B, d, {va}, r)
  <2>1. \/ ~r.ok /\ Took(x, r)
        \/ Placed(D, x, r, d, va, pa)
    BY MapsPlaced
  <2>. QED
    BY <2>1 DEF Placed, Has
<1>. HIDE DEF i, y, e
<1>8. CASE ~r.ok /\ Took(x, r)
  BY <1>7, <1>8, SameGrows DEF Took
<1>9. CASE /\ i \in DOMAIN x.table[d]
           /\ r = PutEntry(x, x.table[d][i].frame, y, e)
  <2> DEFINE h == x.table[d][i].frame
  <2>1. h \in 0 .. x.used - 1 /\ h # d
    <3>1. i \in Half(x, d)
      BY <1>3, <1>9, Constants DEF Half
    <3>. QED
      BY <3>1, TableOf
  <2>2. r = PutEntry(x, h, y, e) /\ (Avoids(G, d, x) => h \notin G)
    BY <1>9 DEF Avoids
  <2>. HIDE DEF h
  <2>3. /\ Adds(0 .. x.top - 1, B, x, r)
        /\ \A f \in 0 .. x.top - 1 : f # h => r.table[f] = x.table[f]
    BY <1>2, <1>3, <1>4, <2>1, <2>2, PutAdds
  <2>4. KeepsDir(d, x, r)
    BY <1>2, <2>1, <2>3 DEF KeepsDir
  <2>5. ASSUME Avoids(G, d, x) PROVE Spares(G, x, r) /\ Avoids(G, d, r)
    <3>1. Spares(G, x, r)
      BY <1>6, <2>2, <2>3, <2>5 DEF Spares
    <3>. QED
      BY <1>2, <2>3, <2>5, <3>1, StillAvoids
  <2>. QED
    BY <1>7, <2>3, <2>4, <2>5 DEF Grows
<1>10. ASSUME NEW n, i \notin DOMAIN x.table[d], x.used < x.top,
              Took(x, n), n.used = x.used + 1,
              r = NewPage(x, n, d, i, y, user, e)
       PROVE  Grows(B, G, d, x, r)
  <2> DEFINE q == PutEntry(n, d, i, k)
             f == x.used
  <2>1. IsEntry(k) /\ k.frame = x.used
    BY <1>1, <1>2, <1>10, EntryIs
  <2>2. r = PutEntry(q, f, y, e) /\ f = x.used
    BY <1>10 DEF NewPage
  <2>3. MemoryOK(n) /\ n.table = x.table /\ n.top = x.top /\ d \in 0 .. n.used - 1
        /\ k.frame >= B
    BY <1>2, <1>10, <2>1 DEF Took
  <2>4. q = PutEntry(n, d, i, k)
    OBVIOUS
  <2>. HIDE DEF q, k, f
  <2>5. /\ MemoryOK(q) /\ q.used = n.used /\ q.top = n.top
        /\ Adds(0 .. n.top - 1, B, n, q)
        /\ DOMAIN q.table[d] = {i} \cup DOMAIN n.table[d]
        /\ \A j \in DOMAIN n.table[d] : j # i => q.table[d][j] = n.table[d][j]
        /\ \A h \in 0 .. n.top - 1 : h # d => q.table[h] = n.table[h]
    BY <1>3, <2>1, <2>3, <2>4, PutAdds
  <2>6. f \in 0 .. q.used - 1 /\ f # d
    BY <1>2, <1>10, <2>2, <2>5
  <2>7. /\ Adds(0 .. q.top - 1, B, q, r)
        /\ \A h \in 0 .. q.top - 1 : h # f => r.table[h] = q.table[h]
    <3>1. e.frame >= B /\ q.used \in Nat
      BY <1>4, <2>5, Sizes
    <3>2. y \in 0 .. VaTop /\ IsEntry(e)
      BY <1>3, <1>4
    <3>3. MemoryOK(q)
      BY <2>5
    <3>. QED
      BY ONLY <2>2, <2>6, <3>1, <3>2, <3>3, PutAdds
  <2>8. Adds(0 .. x.top - 1, B, x, r)
    <3> DEFINE F == 0 .. x.top - 1
    <3>1. Adds(F, B, n, q) /\ Adds(F, B, q, r)
      BY <2>3, <2>5, <2>7
    <3>. HIDE DEF F
    <3>2. Adds(F, B, n, r)
      BY <3>1, AddsTwice
    <3>. QED
      BY <2>3, <3>2 DEF Adds, F
  <2>9. KeepsDir(d, x, r)
    BY <1>2, <1>10, <2>3, <2>5, <2>6, <2>7 DEF KeepsDir
  <2>10. ASSUME Avoids(G, d, x) PROVE Spares(G, x, r) /\ Avoids(G, d, r)
    <3>1. \A g \in G : g # d /\ g # f /\ g \in 0 .. x.top - 1
      BY <1>6, <2>2, <2>10 DEF Avoids
    <3>2. Spares(G, x, r)
      BY <2>3, <2>5, <2>7, <3>1 DEF Spares
    <3>. QED
      BY <1>2, <2>8, <2>10, <3>2, StillAvoids
  <2>. QED
    BY <2>8, <2>9, <2>10 DEF Grows
<1>. QED
  BY <1>5, <1>7, <1>8, <1>9, <1>10

(* What a directory has in such frames stays in such frames. *)
LEMMA HasGrows ==
    ASSUME NEW b, NEW x, NEW D, Safe(b, x, D), NEW d \in D, NEW W \in SUBSET UserPages,
           NEW B, NEW G, NEW r, Grows(B, G, d, x, r), Has(B, d, W, x)
    PROVE  Has(B, d, W, r)
<1>1. SUFFICES ASSUME NEW w \in W PROVE Mapped(r, d, w) /\ FrameAt(r, d, w) >= B
  BY DEF Has
<1> DEFINE i == PDIRE(w)
           y == PTBLE(w)
           h == x.table[d][i].frame
<1>2. w \in UserPages /\ Mapped(x, d, w) /\ FrameAt(x, d, w) >= B
  BY DEF Has
<1>3. h \in 0 .. x.top - 1 /\ y \in DOMAIN x.table[h] /\ i \in DOMAIN x.table[d]
  <2>1. h \in 0 .. x.used - 1
    BY <1>2, MappedIn
  <2>2. h \in 0 .. x.top - 1
    BY <2>1, Sizes DEF Safe
  <2>. QED
    BY <1>2, <2>2 DEF Mapped
<1>4. i \in DOMAIN r.table[d] /\ r.table[d][i] = x.table[d][i]
  BY <1>3 DEF Grows, KeepsDir
<1>5. /\ y \in DOMAIN r.table[h]
      /\ r.table[h][y] = x.table[h][y] \/ r.table[h][y].frame >= B
  BY <1>3 DEF Grows, Adds
<1>6. FrameAt(x, d, w) = x.table[h][y].frame /\ FrameAt(r, d, w) = r.table[h][y].frame
      /\ (Mapped(r, d, w) <=> y \in DOMAIN r.table[h])
  BY <1>4 DEF FrameAt, Mapped
<1>. HIDE DEF i, y, h
<1>. QED
  BY <1>2, <1>5, <1>6

(* A turn of LoadImage, whatever comes of it. *)
LEMMA LoadGrows ==
    ASSUME NEW b, b.kernel \in Nat, NEW n, NEW D, Safe(b, n, D), NEW d \in D,
           NEW va \in UserPages, NEW v \in Values,
           NEW B \in Nat, B <= n.used, NEW G \in SUBSET (0 .. B - 1),
           NEW r, r = LoadTurn(n, d, va, v)
    PROVE  /\ Grows(B, G, d, n, r)
           /\ r.ok => Has(B, d, {va}, r)
<1> DEFINE pg == NextFrame(n)
           l == TakeForKernel(n)
           p == [l EXCEPT !.data[pg] = v]
<1>1. MemoryOK(n) /\ n.used \in Nat /\ n.top \in Nat
  BY Sizes DEF Safe
<1>2. Took(n, l) /\ Got(n, l)
  BY <1>1, TakesForKernel
<1>3. r = IF ~l.ok THEN l ELSE MapUser(p, d, pg, va)
  BY DEF LoadTurn
<1>4. pg = NextFrame(n) /\ p = [l EXCEPT !.data[pg] = v]
  OBVIOUS
<1>. HIDE DEF l, pg, p
<1>5. CASE ~l.ok
  BY <1>2, <1>3, <1>5, SameGrows DEF Took
<1>6. CASE l.ok
  <2>1. pg = n.used /\ n.used < n.top /\ l.used = n.used + 1
    BY <1>2, <1>4, <1>6 DEF Got
  <2>2. MemoryOK(l) /\ l.top = n.top /\ l.table = n.table /\ Grew(n, l)
    BY <1>2, TookGrew DEF Took
  <2>3. Grew(l, p) /\ p.used = l.used /\ p.table = l.table
    BY <1>4, <2>2, Fills
  <2>4. Grew(n, p) /\ p.top = n.top
    BY <1>1, <2>2, <2>3, GrewTwice DEF Grew
  <2>5. Safe(b, p, D)
    BY <1>1, <2>4, SafeGrew
  <2>6. pg \in 0 .. p.used - 1 /\ pg >= B /\ B <= p.used
    BY <1>1, <2>1, <2>3
  <2>7. r = MapUser(p, d, pg, va)
    BY <1>3, <1>6
  <2>8. Grows(B, G, d, p, r) /\ (r.ok => Has(B, d, {va}, r))
    BY <2>5, <2>6, <2>7, MapGrows
  <2>9. Grows(B, G, d, n, p)
    BY <2>2, <2>3, SameGrows
  <2>. QED
    BY <2>4, <2>8, <2>9, GrowsTwice
<1>. QED
  BY <1>5, <1>6

(* LoadImage, at whichever page it fails; it has mapped them all if it does
   not. *)
LEMMA LoadsGrow ==
    ASSUME NEW n, NEW D, Safe(boot, n, D), boot \in Machines, NEW d \in D,
           NEW image \in [ImageNumbers -> Values],
           NEW B \in Nat, B <= n.used, NEW G \in SUBSET (0 .. B - 1),
           NEW r, r = LoadImage(n, d, image)
    PROVE  /\ Grows(B, G, d, n, r)
           /\ r.ok => Has(B, d, Image, r)
<1>0. /\ boot.kernel \in Nat /\ boot.start \in Nat /\ boot.start + Pages < KHALF
      /\ Pages \in Nat /\ KHALF \in Nat /\ n.used \in Nat /\ n.top \in Nat
  BY VmAssumption, Constants, Sizes DEF Safe
<1> DEFINE f == CHOOSE load : IsLoad(load, n, d, image, Pages)
           start == boot.start
           W(k) == start .. start + k - 1
           Ready(k) == /\ Grows(B, G, d, n, f[k])
                       /\ f[k].ok => Has(B, d, W(k), f[k])
           S == {i \in 0 .. Pages : Keeps(boot, D, n, f[i]) /\ Ready(i)}
<1>1. IsLoad(f, n, d, image, Pages)
  BY <1>0, LoadExists
<1>2. LoadImage(n, d, image) = f[Pages]
  BY DEF LoadImage, IsLoad, LoadTurn, MapUser
<1>. HIDE DEF f
<1>3. 0 \in S
  <2>1. f[0] = n
    BY <1>0, <1>1 DEF IsLoad
  <2>2. W(0) = {}
    BY <1>0
  <2>3. Grows(B, G, d, n, n) /\ Has(B, d, {}, n)
    BY SameGrows DEF Has
  <2>. QED
    BY <1>0, <2>1, <2>2, <2>3, KeepsSelf
<1>4. ASSUME NEW i \in S, i < Pages PROVE i + 1 \in S
  <2>1. i \in 0 .. Pages /\ i + 1 \in 1 .. Pages /\ (i + 1) - 1 = i
    BY <1>0, <1>4
  <2> DEFINE va == start + (i + 1) - 1
             v == image[i + 1]
             a == f[i]
             c == f[i + 1]
             V == W(i)
  <2>2. c = LoadTurn(a, d, va, v)
    <3>1. i + 1 \in 0 .. Pages /\ i + 1 # 0
      BY <2>1
    <3>2. f[i + 1] = IF i + 1 = 0 THEN n
                     ELSE LoadTurn(f[(i + 1) - 1], d, boot.start + (i + 1) - 1, image[i + 1])
      BY <1>1, <3>1 DEF IsLoad
    <3>. QED
      BY <2>1, <3>1, <3>2
  <2>3. va \in Nat /\ va < KHALF - 1 /\ va \in UserPages
    BY <1>0, <2>1 DEF UserPages
  <2>4. v \in Values
    BY <2>1 DEF ImageNumbers
  <2>5. /\ Safe(boot, a, D) /\ Keeps(boot, D, n, a)
        /\ Grows(B, G, d, n, a) /\ (a.ok => Has(B, d, V, a))
    BY DEF Keeps
  <2>6. W(i + 1) = V \cup {va} /\ V \in SUBSET UserPages
    <3>1. \A w \in V : w \in 0 .. KHALF - 1
      BY <1>0, <2>1
    <3>. QED
      BY SMTT(30), <1>0, <2>1, <3>1 DEF UserPages
  <2>7. /\ Grows(B, G, d, n, c) /\ (c.ok => Has(B, d, V \cup {va}, c))
        /\ Keeps(boot, D, n, c)
        => i + 1 \in S
    <3> DEFINE U == V \cup {va}
               T == W(i + 1)
    <3>1. T = U
      BY <2>6
    <3>2. Grows(B, G, d, n, c) /\ (c.ok => Has(B, d, T, c)) /\ Keeps(boot, D, n, c)
          => i + 1 \in S
      BY <2>1
    <3>. HIDE DEF U, T
    <3>3. Grows(B, G, d, n, c) /\ (c.ok => Has(B, d, U, c)) /\ Keeps(boot, D, n, c)
          => i + 1 \in S
      BY ONLY <3>1, <3>2
    <3>. QED
      BY <3>3 DEF U
  <2>. HIDE DEF va, v, a, c, V, S
  <2>8. Keeps(boot, D, a, c)
    BY <1>0, <2>2, <2>3, <2>4, <2>5, LoadsPage
  <2>9. Keeps(boot, D, n, c)
    BY <2>5, <2>8, KeepsTwice
  <2>10. B <= a.used /\ a.top = n.top
    <3>1. a.used \in n.used .. n.top /\ a.top = n.top
      BY <2>5 DEF Keeps, Safe
    <3>. QED
      BY <1>0, <3>1
  <2>11. Grows(B, G, d, a, c) /\ (c.ok => Has(B, d, {va}, c))
    BY <1>0, <2>2, <2>3, <2>4, <2>5, <2>10, LoadGrows
  <2>12. Grows(B, G, d, n, c)
    BY <2>5, <2>10, <2>11, GrowsTwice
  <2>13. ASSUME c.ok PROVE Has(B, d, V \cup {va}, c)
    <3>1. Has(B, d, V, a)
      BY <2>5, <2>8, <2>13 DEF Keeps
    <3>2. Has(B, d, V, c)
      BY <2>5, <2>6, <2>11, <3>1, HasGrows
    <3>. QED
      BY <2>11, <2>13, <3>2 DEF Has
  <2>. QED
    BY <2>7, <2>9, <2>12, <2>13
<1>5. Pages \in S
  <2>. HIDE DEF S
  <2>1. S \in SUBSET (0 .. Pages)
    BY DEF S
  <2>2. S = 0 .. Pages
    BY <1>0, <1>3, <1>4, <2>1, UpTo
  <2>. QED
    BY <1>0, <2>2
<1>6. r = f[Pages]
  BY <1>2
<1>7. Ready(Pages)
  BY <1>5, <1>6
<1>. QED
  BY <1>6, <1>7 DEF Image

-----------------------------------------------------------------------------
(* The child while its parent's pages are copied: it has a table of its own for
   the image, and its parent's other tables; it has none of the tables in G, and
   the pages in W in frames of its own. *)
Child(G, d, W, x) ==
    /\ ImageIndex \in DOMAIN x.table[d] /\ x.table[d][ImageIndex].frame >= m.used
    /\ \A i \in DOMAIN m.table[Parent] : i # ImageIndex =>
          i \in DOMAIN x.table[d] /\ x.table[d][i] = m.table[Parent][i]
    /\ Avoids(G, d, x)
    /\ Has(m.used, d, W, x)

(* It stays so. *)
LEMMA ChildGrows ==
    ASSUME NEW b, NEW x, NEW E, Safe(b, x, E), NEW d \in E, NEW W \in SUBSET UserPages,
           NEW G, NEW r, Grows(m.used, G, d, x, r), Child(G, d, W, x)
    PROVE  Child(G, d, W, r)
<1>1. KeepsDir(d, x, r) /\ Avoids(G, d, r)
  BY DEF Grows, Child
<1>2. Has(m.used, d, W, r)
  BY HasGrows DEF Child
<1>. QED
  BY <1>1, <1>2 DEF Child, KeepsDir

(* A turn that finds the child's table. *)
LEMMA NextGrows ==
    ASSUME NEW b, b.kernel \in Nat, NEW x, NEW E, Safe(b, x, E), NEW d \in E,
           NEW va \in UserPages, va < KHALF - 1, PDIRE(va) \in DOMAIN x.table[d],
           NEW user \in BOOLEAN, NEW v \in Values, x.used < x.top,
           NEW B \in Nat, B <= x.used, NEW G \in SUBSET (0 .. B - 1),
           NEW r, r = NextCopy(x, d, va, user, v)
    PROVE  /\ Grows(B, G, d, x, r)
           /\ r.ok => Has(B, d, {va}, r)
<1> DEFINE a == CopiedFrame(x, v)
           f == NextFrame(x)
           i == PDIRE(va)
           y == PTBLE(va)
           h == a.table[d][i].frame
           e == Entry(f, user)
           o == PutEntry(a, h, y, e)
<1>1. /\ MemoryOK(x) /\ x.used \in Nat /\ x.top \in Nat /\ x.top <= VaTop
      /\ VaTop \in Nat /\ d \in 0 .. x.used - 1 /\ x.used <= x.top
  BY Sizes DEF Safe
<1>2. /\ Grew(x, a) /\ MemoryOK(a) /\ (a.ok => x.ok) /\ a.table = x.table /\ a.top = x.top
  BY <1>1, CopiesFrame DEF Grew
<1>3. r = IF ~x.ok THEN x ELSE IF ~a.ok THEN a ELSE o
  BY DEF NextCopy
<1>4. f = x.used /\ a.used = x.used + 1
  BY <1>1, FrameFilled
<1>5. i \in 0 .. HALF - 1 /\ y \in 0 .. VaTop /\ y = PTBLE(va) /\ i = PDIRE(va)
  BY UserPlace, Indices, Constants
<1>6. i \in DOMAIN a.table[d] /\ h = a.table[d][i].frame /\ o = PutEntry(a, h, y, e)
      /\ e = Entry(f, user)
  BY <1>2
<1>. HIDE DEF a, f, i, y, h, e, o
<1>7. Safe(b, a, E)
  BY <1>1, <1>2, SafeGrew
<1>8. h \in 0 .. a.used - 1 /\ h # d
  <2>1. i \in Half(a, d)
    BY <1>5, <1>6, Constants DEF Half
  <2>. QED
    BY <1>6, <1>7, <2>1, TableOf
<1>9. IsEntry(e) /\ e.frame = f /\ f >= B
  <2>1. f \in 0 .. VaTop - 1
    BY <1>1, <1>4
  <2>. QED
    BY <1>1, <1>4, <1>6, <2>1, EntryIs
<1>10. /\ o.ok = a.ok
       /\ Adds(0 .. a.top - 1, B, a, o)
       /\ y \in DOMAIN o.table[h] /\ o.table[h][y] = e
       /\ \A g \in 0 .. a.top - 1 : g # h => o.table[g] = a.table[g]
  BY ONLY <1>2, <1>5, <1>6, <1>8, <1>9, PutAdds
<1>11. d \in 0 .. a.top - 1 /\ \A g \in G : g \in 0 .. a.top - 1
  <2>1. B \in Nat /\ B <= x.used /\ G \in SUBSET (0 .. B - 1)
    OBVIOUS
  <2>2. d \in 0 .. x.top - 1 /\ \A g \in 0 .. B - 1 : g \in 0 .. x.top - 1
    BY ONLY <1>1, <2>1
  <2>3. a.top = x.top
    BY <1>2
  <2>. QED
    BY ONLY <2>1, <2>2, <2>3
<1>12. Grows(B, G, d, a, o)
  <2>1. KeepsDir(d, a, o)
    BY <1>8, <1>10, <1>11 DEF KeepsDir
  <2>2. ASSUME Avoids(G, d, a) PROVE Spares(G, a, o) /\ Avoids(G, d, o)
    <3>1. h \notin G
      BY <1>6, <2>2 DEF Avoids
    <3>2. Spares(G, a, o)
      BY <1>10, <1>11, <3>1 DEF Spares
    <3>. QED
      BY <1>10, <1>11, <2>2, <3>2, StillAvoids
  <2>. QED
    BY <1>10, <2>1, <2>2 DEF Grows
<1>13. Has(B, d, {va}, o)
  <2>1. o.table[d] = a.table[d]
    BY <1>8, <1>10, <1>11
  <2>. QED
    BY <1>5, <1>6, <1>9, <1>10, <2>1 DEF Has, Mapped, FrameAt
<1>14. Grows(B, G, d, x, a) /\ Grows(B, G, d, x, x)
  BY <1>2, SameGrows
<1>15. Grows(B, G, d, x, o)
  BY <1>2, <1>12, <1>14, GrowsTwice
<1>. QED
  BY <1>3, <1>13, <1>14, <1>15

(* The first turn, in which the child gets its table, leaves the tables in G as
   they are. *)
LEMMA FirstGrows ==
    ASSUME boot.kernel \in Nat, NEW D, NEW E, D \subseteq E, NEW d \in E, d \notin D,
           NEW x, Safe(boot, x, E), m.used \in Nat, m.used <= x.used,
           NEW va \in UserPages, va < KHALF - 1, PDIRE(va) = ImageIndex,
           PDIRE(va) \in DOMAIN x.table[d], NEW owner \in BOOLEAN, NEW user \in BOOLEAN,
           NEW v \in Values, NEW G \in SUBSET (0 .. m.used - 1), d \notin G,
           x.table[d] = m.table[Parent],
           \A i \in DOMAIN m.table[Parent] :
               i # ImageIndex => m.table[Parent][i].frame \notin G,
           NEW r, r = FirstCopy(x, d, va, owner, user, v), r.used < r.top
    PROVE  /\ Adds(0 .. x.top - 1, m.used, x, r) /\ Spares(G, x, r)
           /\ r.ok => Child(G, d, {va}, r)
<1> DEFINE a == CopiedFrame(x, v)
           copy == NextFrame(x)
           f == NextFrame(a)
           q == pm_alloc_frame(a)
           n == FirstTable(x, d, va, owner, v)
           z == Touch(n, f)
           y == PTBLE(va)
           o == PutEntry(z, f, y, Entry(copy, user))
           i == ImageIndex
           e == Entry(f, owner)
           p == Entry(copy, user)
           B == m.used
           F == 0 .. x.top - 1
<1>1. /\ MemoryOK(x) /\ x.used \in Nat /\ x.top \in Nat /\ x.top <= VaTop
      /\ VaTop \in Nat /\ d \in 1 .. x.used - 1 /\ 1 <= x.used /\ x.used <= x.top
  BY Sizes DEF Safe
<1>2. i \in 0 .. VaTop /\ y \in 0 .. VaTop /\ va \in Nat /\ i = PDIRE(va) /\ y = PTBLE(va)
      /\ PDIRE(va) = PDIRE(boot.start)
  BY UserPlace, Indices, Constants DEF ImageIndex
<1>3. /\ Grew(x, a) /\ MemoryOK(a) /\ (a.ok => x.ok) /\ a.table = x.table
      /\ a.used \in x.used .. x.top /\ a.top = x.top
  BY <1>1, CopiesFrame DEF Grew
<1>4. r = IF ~x.ok THEN x ELSE IF ~a.ok THEN a ELSE IF ~z.ok THEN z ELSE o
  BY DEF FirstCopy
<1>5. x.used < x.top
  <2>1. Copies(boot, D, E, d, x, r)
    BY <1>2, CopiesFirst
  <2>2. r.top = x.top /\ r.used \in x.used .. x.top
    BY <2>1 DEF Copies, Safe
  <2>. QED
    BY <1>1, <2>2
<1>6. copy = x.used /\ a.used = x.used + 1
  BY <1>1, <1>5, FrameFilled
<1>7. n = PutEntry(q, d, i, e) /\ e = Entry(f, owner) /\ p = Entry(copy, user)
      /\ o = PutEntry(z, f, y, p) /\ z = Touch(n, f)
  BY DEF FirstTable
<1>8. /\ Took(a, q) /\ MemoryOK(q) /\ f \in 0 .. a.top - 1
      /\ a.used < a.top => f = a.used /\ q.used = a.used + 1
      /\ ~(a.used < a.top) => f = 0 /\ q = a
  BY <1>3, Allocates DEF Took
<1>. HIDE DEF a, copy, f, q, n, z, o, i, e, p, y
<1>9. i = ImageIndex /\ B = m.used /\ F = 0 .. x.top - 1
  BY DEF i
<1>10. \A s : s.table = x.table => Adds(F, B, x, s) /\ Spares(G, x, s)
  BY DEF Adds, Spares
<1>. HIDE DEF B, F
<1>11. CASE ~x.ok
  BY <1>4, <1>9, <1>10, <1>11
<1>12. CASE x.ok /\ ~a.ok
  BY <1>3, <1>4, <1>9, <1>10, <1>12
<1>13. CASE x.ok /\ a.ok
  <2>1. IsEntry(e) /\ e.frame = f /\ IsEntry(p) /\ p.frame = copy
    <3>1. f \in 0 .. VaTop - 1 /\ copy \in 0 .. VaTop - 1
      BY <1>1, <1>3, <1>5, <1>6, <1>8
    <3>. QED
      BY <1>7, <3>1, EntryIs
  <2>2. d \in 0 .. q.used - 1 /\ f \in 0 .. q.used - 1 /\ q.used \in Nat /\ q.top = x.top
        /\ q.table = x.table
    BY <1>1, <1>3, <1>8 DEF Took
  <2>3. MemoryOK(n) /\ n.used = q.used /\ n.top = q.top
    <3>1. LET h == PutEntry(q, d, i, e)
          IN  MemoryOK(h) /\ h.used = q.used /\ h.top = q.top
      BY ONLY <1>2, <1>8, <2>1, <2>2, Puts
    <3>. QED
      BY <1>7, <3>1
  <2>4. /\ Took(n, z) /\ z.used = n.used /\ MemoryOK(z) /\ (z.ok => z = n)
        /\ z.top = n.top /\ z.table = n.table
    BY <1>7, <2>3, Touches DEF Took
  <2>5. o.used = z.used /\ o.top = z.top
    <3>1. f \in 0 .. z.used - 1
      BY <2>2, <2>3, <2>4
    <3>2. LET h == PutEntry(z, f, y, p)
          IN  h.used = z.used /\ h.top = z.top
      BY ONLY <1>2, <2>1, <2>4, <3>1, Puts
    <3>. QED
      BY <1>7, <3>2
  <2>6. q.used < q.top /\ r = IF z.ok THEN o ELSE z
    BY <1>4, <1>13, <2>3, <2>4, <2>5
  <2>7. f = a.used /\ a.used < a.top /\ q.used = a.used + 1
    BY <1>1, <1>3, <1>8, <2>6
  <2>8. /\ f >= B /\ copy >= B /\ f # d /\ f \in F /\ d \in F
        /\ \A g \in G : g \in F /\ g # d /\ g # f
    <3>1. /\ B \in Nat /\ B <= x.used /\ G \in SUBSET (0 .. B - 1)
      BY <1>9
    <3>2. f = x.used + 1 /\ copy = x.used /\ f \in 0 .. x.top - 1
      BY <1>3, <1>6, <1>8, <2>7
    <3>3. f >= B /\ copy >= B /\ f # d /\ f \in F /\ d \in F
      BY ONLY <1>1, <1>9, <3>1, <3>2
    <3>4. ASSUME NEW g \in G PROVE g \in F /\ g # f
      <4>1. g \in 0 .. B - 1
        BY <3>1
      <4>. QED
        BY ONLY <1>1, <1>9, <3>1, <3>2, <4>1
    <3>. QED
      BY <3>3, <3>4
  <2>9. /\ Adds(F, B, q, n)
        /\ n.table[d][i] = e
        /\ DOMAIN n.table[d] = {i} \cup DOMAIN q.table[d]
        /\ \A j \in DOMAIN q.table[d] : j # i => n.table[d][j] = q.table[d][j]
        /\ \A h \in F : h # d => n.table[h] = q.table[h]
    <3>1. e.frame >= B
      BY <2>1, <2>8
    <3>2. F = 0 .. q.top - 1
      BY <1>9, <2>2
    <3>. QED
      BY ONLY <1>2, <1>7, <1>8, <2>1, <2>2, <3>1, <3>2, PutAdds
  <2>10. Adds(F, B, x, n) /\ Spares(G, x, n)
    BY <2>2, <2>8, <2>9 DEF Adds, Spares
  <2>11. CASE ~z.ok
    BY <1>9, <2>4, <2>6, <2>10, <2>11 DEF Adds, Spares
  <2>12. CASE z.ok
    <3>1. r = PutEntry(n, f, y, p)
      BY <1>7, <2>4, <2>6, <2>12
    <3>2. /\ Adds(F, B, n, r)
          /\ y \in DOMAIN r.table[f] /\ r.table[f][y] = p
          /\ \A h \in F : h # f => r.table[h] = n.table[h]
      <4>1. p.frame >= B
        BY <2>1, <2>8
      <4>2. F = 0 .. n.top - 1 /\ f \in 0 .. n.used - 1
        BY <1>9, <2>2, <2>3
      <4>. QED
        BY ONLY <1>2, <2>1, <2>3, <3>1, <4>1, <4>2, PutAdds
    <3>3. Adds(F, B, x, r)
      BY <2>10, <3>2, AddsTwice
    <3>4. Spares(G, x, r)
      BY <2>8, <2>10, <3>2 DEF Spares
    <3>5. /\ DOMAIN r.table[d] = {i} \cup DOMAIN m.table[Parent]
          /\ r.table[d][i].frame = f
          /\ \A j \in DOMAIN m.table[Parent] : j # i => r.table[d][j] = m.table[Parent][j]
      BY <2>1, <2>2, <2>8, <2>9, <3>2
    <3>6. f \notin G
      BY <2>8
    <3>7. Avoids(G, d, r)
      BY <1>9, <3>5, <3>6 DEF Avoids
    <3>8. Has(B, d, {va}, r)
      BY <1>2, <2>1, <2>8, <3>2, <3>5 DEF Has, Mapped, FrameAt
    <3>9. Child(G, d, {va}, r)
      BY <1>9, <2>8, <3>5, <3>7, <3>8 DEF Child
    <3>. QED
      BY <1>9, <3>3, <3>4, <3>9
  <2>. QED
    BY <2>11, <2>12
<1>. QED
  BY <1>11, <1>12, <1>13

(* The whole loop, if it does not run out of memory. *)
LEMMA CopyGrows ==
    ASSUME NEW D, Safe(boot, m, D), Parent \in D, boot \in Machines,
           NEW E, D \subseteq E, NEW d \in E, d \notin D,
           NEW x, Safe(boot, x, E), x.table[d] = m.table[Parent], m.used <= x.used,
           NEW G \in SUBSET (0 .. m.used - 1), d \notin G,
           \A i \in DOMAIN m.table[Parent] :
               i # ImageIndex => m.table[Parent][i].frame \notin G,
           CleanTable(x), NEW r, r = task_copy_vm(x, d), r.used < r.top
    PROVE  /\ Adds(0 .. x.top - 1, m.used, x, r) /\ Spares(G, x, r)
           /\ r.ok /\ Count # 0 => Child(G, d, boot.start .. boot.start + Count - 1, r)
<1> DEFINE start == boot.start
           B == m.used
           F == 0 .. x.top - 1
           W(i) == start .. start + i - 1
           Ready(i, y) == /\ Adds(F, B, x, y) /\ Spares(G, x, y)
                          /\ y.ok /\ i # 0 => Child(G, d, W(i), y)
<1>1. /\ boot.kernel \in Nat /\ start \in Nat /\ Count \in Nat
      /\ pdir[fgtask] \in D /\ DOMAIN x.table[d] = DOMAIN m.table[pdir[fgtask]]
  BY VmAssumption, CountIs DEF Parent
<1>2. PICK f : r = f[Count] /\ CopyTurns(f, x, d)
  BY <1>1, CopyLoop
<1> DEFINE S == {i \in 0 .. Count : /\ Copies(boot, D, E, d, x, f[i])
                                    /\ f[i].used < f[i].top => Ready(i, f[i])}
<1>3. 0 \in S
  <2>1. f[0] = x
    BY <1>2 DEF CopyTurns
  <2>2. Adds(F, B, x, x) /\ Spares(G, x, x)
    BY DEF Adds, Spares
  <2>. HIDE DEF F, B
  <2>. QED
    BY <1>1, <2>1, <2>2, CopiesSelf
<1>4. ASSUME NEW i \in S, i < Count PROVE i + 1 \in S
  <2>1. i \in 0 .. Count /\ i + 1 \in 1 .. Count /\ i + 1 \in 0 .. Count /\ (i + 1) - 1 = i
    BY <1>1, <1>4
  <2> DEFINE va == boot.start + (i + 1) - 1
             first == i + 1 = 1
             y == f[i]
             z == f[i + 1]
             v == y.data[PageFrame(va)]
             V == W(i)
  <2>2. va \in Nat /\ va < KHALF - 1 /\ va < KHALF /\ Mapped(m, pdir[fgtask], va)
    <3>1. \A k \in 1 .. Count : LET w == boot.start + k - 1
                               IN  w \in Nat /\ w < KHALF - 1 /\ Mapped(m, pdir[fgtask], w)
      BY <1>1, CountIs
    <3>. QED
      BY <2>1, <3>1, Constants
  <2>3. z = CopyPage(y, d, va, first)
    BY <1>2, <2>1 DEF CopyTurns
  <2>4. first \in BOOLEAN /\ (first => PDIRE(va) = PDIRE(boot.start) /\ y = x)
    <3>1. i + 1 = 1 => va = boot.start
      <4>1. boot.start \in Nat
        BY <1>1
      <4>2. SUFFICES ASSUME i + 1 = 1 PROVE boot.start + (i + 1) - 1 = boot.start
        OBVIOUS
      <4>3. boot.start + 1 - 1 = boot.start
        BY ONLY <4>1
      <4>. QED
        BY ONLY <4>2, <4>3
    <3>2. i + 1 = 1 => y = x
      BY <1>2, <2>1 DEF CopyTurns
    <3>. QED
      BY <3>1, <3>2
  <2>5. Copies(boot, D, E, d, x, y) /\ (y.used < y.top => Ready(i, y))
    OBVIOUS
  <2>6. Safe(boot, y, E) /\ DOMAIN y.table[d] = DOMAIN m.table[pdir[fgtask]]
        /\ y.used \in x.used .. x.top /\ y.top = x.top
    BY <1>1, <2>5 DEF Copies, Safe
  <2>7. W(i + 1) = V \cup {va} /\ V \in SUBSET UserPages
    <3>1. start + i <= KHALF - 1
      BY <1>1, <2>1, <2>2, Constants
    <3>2. W(i + 1) = W(i) \cup {va}
      BY <1>1, <2>1
    <3>3. \A w \in W(i) : w \in 0 .. KHALF - 1
      BY <1>1, <2>1, <3>1, Constants
    <3>. QED
      BY <3>2, <3>3 DEF UserPages
  <2>8. /\ Copies(boot, D, E, d, x, z) /\ (z.used < z.top => Ready(i + 1, z))
        => i + 1 \in S
    BY <2>1
  <2>9. i # 0 <=> ~first
    BY ONLY <1>1, <2>1
  <2>10. first => W(i + 1) = {va}
    <3>1. first => i = 0
      BY ONLY <1>1, <2>1
    <3>2. start .. start + 0 - 1 = {}
      <4>1. start \in Nat
        BY <1>1
      <4>. QED
        BY ONLY <4>1
    <3>3. first => V = {}
      BY ONLY <3>1, <3>2
    <3>. QED
      BY <2>7, <3>3
  <2>11. V = W(i)
    OBVIOUS
  <2>. HIDE DEF va, first, y, z, S, start, V, F, B
  <2>12. PDIRE(va) \in DOMAIN y.table[d] /\ va \in UserPages
    BY <2>2, <2>6, Constants DEF Mapped, UserPages
  <2>13. /\ Owner(va) \in BOOLEAN /\ PageUser(va) \in BOOLEAN
         /\ PageFrame(va) \in 0 .. m.top - 1
    BY <1>1, <2>2, MappedPage
  <2>14. v \in Values
    <3>1. m.top = boot.top /\ y.top = boot.top /\ y.data \in [0 .. y.top - 1 -> Values]
      BY <2>6 DEF Safe, MemoryOK
    <3>. QED
      BY <2>13, <3>1
  <2>15. z = IF first THEN FirstCopy(y, d, va, Owner(va), PageUser(va), v)
             ELSE NextCopy(y, d, va, PageUser(va), v)
    <3>1. MemoryOK(y) /\ Count # 0
      BY <1>1, <2>1, <2>6 DEF Safe
    <3>2. first => boot.dirt[NextFrame(CopiedFrame(y, v))] = Absent
      BY <2>4, <2>14, <3>1, FirstTurn
    <3>. QED
      BY <2>3, <2>4, <3>2, CopyPageIs
  <2>. HIDE DEF v
  <2> DEFINE owner == Owner(va)
             user == PageUser(va)
  <2>16. /\ owner \in BOOLEAN /\ user \in BOOLEAN
         /\ z = IF first THEN FirstCopy(y, d, va, owner, user, v)
                ELSE NextCopy(y, d, va, user, v)
    BY <2>13, <2>15
  <2>. HIDE DEF owner, user
  <2>17. m.used \in Nat /\ m.used <= y.used /\ B = m.used /\ F = 0 .. x.top - 1
    <3>1. x.used \in Nat /\ m.used \in Nat /\ y.used \in Nat /\ x.used <= y.used
      BY <2>6, Sizes DEF Safe
    <3>. QED
      BY <3>1 DEF B, F
  <2>18. Copies(boot, D, E, d, y, z)
    <3>1. CASE first
      <4>1. z = FirstCopy(y, d, va, owner, user, v)
        BY <2>16, <3>1
      <4>. QED
        BY <1>1, <2>2, <2>4, <2>6, <2>12, <2>14, <2>16, <3>1, <4>1, CopiesFirst
    <3>2. CASE ~first
      <4>1. z = NextCopy(y, d, va, user, v)
        BY <2>16, <3>2
      <4>. QED
        BY <1>1, <2>2, <2>6, <2>12, <2>14, <2>16, <4>1, CopiesNext
    <3>. QED
      BY <3>1, <3>2
  <2>19. Copies(boot, D, E, d, x, z)
    BY <2>5, <2>18, CopiesTwice
  <2>20. ASSUME z.used < z.top PROVE Ready(i + 1, z)
    <3>1. y.used < y.top
      <4>1. z.top = y.top /\ z.used \in y.used .. y.top /\ y.used \in Nat /\ y.top \in Nat
        BY <2>6, <2>18, Sizes DEF Copies, Safe
      <4>. QED
        BY <2>20, <4>1
    <3>2. CASE first
      <4>1. z = FirstCopy(x, d, va, owner, user, v) /\ PDIRE(va) \in DOMAIN x.table[d]
        BY <2>4, <2>12, <2>16, <3>2
      <4>2. PDIRE(va) = ImageIndex
        BY <2>4, <3>2 DEF ImageIndex
      <4>3. /\ Adds(0 .. x.top - 1, m.used, x, z) /\ Spares(G, x, z)
            /\ z.ok => Child(G, d, {va}, z)
        BY <1>1, <2>2, <2>12, <2>14, <2>16, <2>17, <2>20, <4>1, <4>2, FirstGrows
      <4>. QED
        BY <2>10, <2>17, <3>2, <4>3
    <3>3. CASE ~first
      <4>1. z = NextCopy(y, d, va, user, v)
        BY <2>16, <3>3
      <4>2. /\ Adds(F, B, x, y) /\ Spares(G, x, y)
            /\ y.ok => Child(G, d, V, y)
        BY <2>5, <2>9, <2>11, <3>1, <3>3
      <4>3. Grows(B, G, d, y, z) /\ (z.ok => Has(B, d, {va}, z))
        BY <1>1, <2>2, <2>6, <2>12, <2>14, <2>16, <2>17, <3>1, <4>1, NextGrows
      <4>4. Adds(F, B, y, z)
        BY <2>6, <2>17, <4>3 DEF Grows
      <4>5. Adds(F, B, x, z)
        BY <4>2, <4>4, AddsTwice
      <4>6. Spares(G, x, z)
        <5>1. CASE y.ok
          <6>1. Avoids(G, d, y)
            BY <4>2, <5>1 DEF Child
          <6>. QED
            BY <4>2, <4>3, <6>1 DEF Grows, Spares
        <5>2. CASE ~y.ok
          BY <4>1, <4>2, <5>2 DEF NextCopy
        <5>. QED
          BY <5>1, <5>2
      <4>7. ASSUME z.ok PROVE Child(G, d, W(i + 1), z)
        <5>1. Child(G, d, V, y) /\ Grows(m.used, G, d, y, z)
          BY <2>17, <2>18, <4>2, <4>3, <4>7 DEF Copies
        <5>2. Child(G, d, V, z)
          BY <2>6, <2>7, <5>1, ChildGrows
        <5>3. Has(m.used, d, V \cup {va}, z)
          BY <2>17, <4>3, <4>7, <5>2 DEF Child, Has
        <5> DEFINE U == V \cup {va}
        <5>. HIDE DEF U
        <5>4. Child(G, d, U, z)
          BY <5>2, <5>3 DEF Child, U
        <5>. QED
          BY <2>7, <5>4 DEF U
      <4>. QED
        BY <4>5, <4>6, <4>7
    <3>. QED
      BY <3>2, <3>3
  <2>. QED
    BY <2>8, <2>19, <2>20
<1>5. Count \in S
  <2>. HIDE DEF S
  <2>1. S \in SUBSET (0 .. Count)
    BY DEF S
  <2>2. S = 0 .. Count
    BY <1>1, <1>3, <1>4, <2>1, UpTo
  <2>. QED
    BY <1>1, <2>2
<1>6. Ready(Count, r)
  BY <1>2, <1>5
<1>. QED
  BY <1>6

-----------------------------------------------------------------------------
(* What a directory has is no directory; it is no table that another has for
   other pages. *)
LEMMA NoneOf ==
    ASSUME NEW b, NEW x, NEW D, Safe(b, x, D), NEW c \in D, NEW p \in D,
           NEW k \in Half(x, p), NEW i \in DOMAIN x.table[c],
           i # k \/ x.table[c][i].frame # x.table[p][k].frame
    PROVE  x.table[c][i].frame \notin D \cup {x.table[p][k].frame}
<1>1. CASE i < HALF
  <2>1. i \in Half(x, c)
    BY <1>1 DEF Half
  <2>2. x.table[c][i].frame \notin D
    BY <2>1, TableOf
  <2>3. x.table[c][i].frame = x.table[p][k].frame => i = k
    BY <2>1 DEF Safe
  <2>. QED
    BY <2>2, <2>3
<1>2. CASE ~(i < HALF)
  <2>1. i \in Shared /\ x.table[c][i] = SharedEntry(x, i)
    BY <1>2 DEF Safe, Sharing
  <2>2. x.table[c][i].frame \in KFrames(x)
    BY <2>1 DEF KFrames
  <2>3. x.table[p][k].frame \notin KFrames(x) /\ \A d \in D : d \notin KFrames(x)
    BY DEF Safe, TableOK
  <2>. QED
    BY <2>2, <2>3
<1>. QED
  BY <1>1, <1>2

(* A page stays mapped, in the frame it was or in one that is not below B. *)
LEMMA StillMapped ==
    ASSUME NEW b, NEW x, NEW D, Safe(b, x, D), NEW c \in D, NEW w \in UserPages,
           Mapped(x, c, w), NEW B, NEW r, KeepsDir(c, x, r),
           Adds(0 .. x.used - 1, B, x, r)
    PROVE  /\ Mapped(r, c, w)
           /\ FrameAt(r, c, w) = FrameAt(x, c, w) \/ FrameAt(r, c, w) >= B
<1> DEFINE i == PDIRE(w)
           y == PTBLE(w)
           h == x.table[c][i].frame
<1>1. h \in 0 .. x.used - 1 /\ y \in DOMAIN x.table[h] /\ i \in DOMAIN x.table[c]
  BY MappedIn DEF Mapped
<1>2. i \in DOMAIN r.table[c] /\ r.table[c][i] = x.table[c][i]
  BY <1>1 DEF KeepsDir
<1>3. /\ y \in DOMAIN r.table[h]
      /\ r.table[h][y] = x.table[h][y] \/ r.table[h][y].frame >= B
  BY <1>1 DEF Adds
<1>4. FrameAt(x, c, w) = x.table[h][y].frame /\ FrameAt(r, c, w) = r.table[h][y].frame
      /\ (Mapped(r, c, w) <=> y \in DOMAIN r.table[h])
  BY <1>2 DEF FrameAt, Mapped
<1>. HIDE DEF i, y, h
<1>. QED
  BY <1>3, <1>4

(* What a fork by the only task makes of memory: its directory and the table of
   its image are as they were; the child has its parent's other tables, and the
   rest in frames that were free. *)
LEMMA ForkGrows ==
    ASSUME Safe(boot, m, {Parent}), boot \in Machines,
           \A w \in Image : Mapped(m, Parent, w),
           NEW task, task = task_alloc(Sound), task.m.ok, CleanTable(Inherit(task)),
           NEW d, d = task.pdir, NEW s, s = task.stack,
           NEW n, n = MapUser(task_copy_vm(Inherit(task), d), d, s, s),
           n.used < n.top,
           NEW g, g = m.table[Parent][ImageIndex].frame
    PROVE  /\ d >= m.used /\ s >= m.used /\ d # Parent
           /\ task.block \in Blocks(m.used .. n.used - 1) /\ task.block.struct = m.used
           /\ Adds(0 .. m.used - 1, m.used, m, n) /\ Spares({Parent, g}, m, n)
           /\ \A i \in DOMAIN n.table[d] :
                 \/ i \in DOMAIN m.table[Parent] /\ n.table[d][i] = m.table[Parent][i]
                 \/ n.table[d][i].frame >= m.used
           /\ n.ok => Child({Parent, g}, d, Image, n)
<1> DEFINE D == {Parent}
           E == D \cup {d}
           G == {Parent, g}
<1>0. D = {Parent} /\ E = D \cup {d} /\ G = {Parent, g} /\ Safe(boot, m, D)
  OBVIOUS
<1>. HIDE DEF D, E, G
<1>. USE <1>0
<1> DEFINE y == task.m
           p == Parent
           x == Inherit(task)
           c == task_copy_vm(x, d)
           B == m.used
           F == 0 .. m.top - 1
           old == 0 .. m.used - 1
<1>1. /\ boot.kernel \in Nat /\ MemoryOK(m) /\ m.used \in Nat /\ m.top \in Nat
      /\ 1 <= m.used /\ m.used <= m.top /\ m.top = boot.top
      /\ KHEAP \in Nat /\ KHALF \in Nat /\ KHEAP < KHALF
  BY VmAssumption, Sizes, Constants DEF Safe
<1>2. /\ Safe(boot, Sound, D) /\ Sound.table = m.table /\ Sound.used = m.used
      /\ Sound.top = m.top
  BY SoundIs
<1>3. Grew(Sound, y) /\ TaskMade(boot, Sound, D, task)
  BY <1>1, <1>2, TaskAlloc
<1>4. n = MapUser(c, d, s, s) /\ c = task_copy_vm(x, d) /\ p \in D /\ d \in E
      /\ D \subseteq E /\ p = Parent /\ CleanTable(x)
  OBVIOUS
<1>5. /\ d \in m.used .. y.used - 1 /\ s \in m.used .. y.used - 1 /\ s < KHEAP
      /\ Safe(boot, y, E)
      /\ task.block \in Blocks(m.used .. y.used - 1) /\ task.block.struct = m.used
  BY <1>2, <1>3 DEF TaskMade
<1>6. /\ y.used \in Nat /\ y.used <= m.top /\ y.top = m.top
      /\ \A f \in 0 .. m.used - 1 : y.table[f] = m.table[f]
  BY ONLY <1>1, <1>2, <1>3, <1>5, Sizes DEF Safe, Grew
<1>7. p \in 0 .. m.used - 1 /\ d \notin D
  BY ONLY Safe(boot, m, D), D = {Parent}, <1>1, <1>4, <1>5 DEF Safe
<1>8. x = CopyTable(y, d, p)
  <2>1. m.table[p] = y.table[p]
    BY <1>6, <1>7
  <2>. QED
    BY <2>1 DEF Inherit, CopyTable, Parent
<1>9. ImageIndex \in Half(m, p) /\ g \in 0 .. m.used - 1
  <2>1. boot.start \in Image /\ boot.start \in UserPages
    BY VmAssumption, Constants DEF Image, UserPages
  <2>2. Mapped(m, p, boot.start)
    BY <2>1
  <2>. QED
    BY <1>4, <2>1, <2>2, MappedIn DEF ImageIndex
<1>10. G \in SUBSET (0 .. m.used - 1)
  BY <1>4, <1>7, <1>9
<1>11. \A i \in DOMAIN m.table[Parent] :
          i # ImageIndex => m.table[Parent][i].frame \notin G
  BY <1>4, <1>9, NoneOf
<1>12. d \notin G
  BY <1>1, <1>5, <1>10
<1>. HIDE DEF y, p, x, c
<1>13. /\ Safe(boot, x, E) /\ x.used = y.used /\ x.top = y.top
       /\ x.table[d] = y.table[p]
       /\ \A f \in 0 .. y.top - 1 : f # d => x.table[f] = y.table[f]
  <2>1. p \in E /\ Safe(boot, y, E)
    BY <1>4, <1>5
  <2>2. /\ Safe(boot, x, E) /\ x.used = y.used /\ x.top = y.top
        /\ x.table[d] = y.table[p]
    BY ONLY <1>4, <1>8, <2>1, Inherits
  <2>3. \A f \in 0 .. y.top - 1 : f # d => x.table[f] = y.table[f]
    <3>1. y.table = [f \in 0 .. y.top - 1 |-> y.table[f]] /\ IsMemory(y)
      BY <1>5 DEF Safe, MemoryOK
    <3>. QED
      BY ONLY <1>8, <3>1 DEF CopyTable, IsMemory
  <2>. QED
    BY <2>2, <2>3
<1>14. x.table[d] = m.table[Parent]
  BY <1>4, <1>6, <1>7, <1>13
<1>15. \A f \in 0 .. m.used - 1 : x.table[f] = m.table[f]
  BY <1>1, <1>5, <1>6, <1>13
<1>16. Copies(boot, D, E, d, x, c)
  <2>1. DOMAIN x.table[d] = DOMAIN m.table[pdir[fgtask]] /\ pdir[fgtask] \in D
    BY <1>4, <1>14 DEF Parent
  <2>. QED
    BY <1>4, <1>7, <1>13, <2>1, CopiesAll
<1>17. Safe(boot, c, E) /\ c.used \in x.used .. x.top /\ c.top = x.top /\ c.used \in Nat
  BY <1>13, <1>16, Sizes DEF Copies, Safe
<1>18. s \in 0 .. c.used - 1 /\ s < KHALF - 1 /\ s \in UserPages /\ s \in Nat /\ s >= m.used
       /\ m.used <= c.used /\ m.used <= x.used
  BY <1>1, <1>5, <1>6, <1>13, <1>17 DEF UserPages
<1>19. Safe(boot, n, E) /\ n.used \in c.used .. c.top
  <2>1. boot.kernel \in Nat /\ Safe(boot, c, E) /\ d \in E /\ n = MapUser(c, d, s, s)
        /\ s \in Nat /\ s < KHALF - 1 /\ s \in 0 .. c.used - 1
    BY <1>1, <1>4, <1>17, <1>18
  <2>. QED
    BY ONLY <2>1, MapsUser
<1>20. c.used < c.top /\ y.used <= n.used /\ n.used \in Nat
  <2>1. n.top = c.top
    BY ONLY <1>17, <1>19 DEF Safe
  <2>2. c.top \in Nat
    BY <1>17, Sizes DEF Safe
  <2>. QED
    BY <1>1, <1>6, <1>13, <1>17, <1>19, <2>1, <2>2
<1>21. /\ Adds(0 .. x.top - 1, m.used, x, c) /\ Spares(G, x, c)
       /\ c.ok /\ Count # 0 => Child(G, d, boot.start .. boot.start + Count - 1, c)
  BY ZenonT(60), <1>4, <1>7, <1>10, <1>11, <1>12, <1>13, <1>14, <1>17, <1>18, <1>20, CopyGrows
<1>22. c.ok => Child(G, d, Image, c)
  <2>1. Image \subseteq boot.start .. boot.start + Count - 1
    BY <1>4, EnoughCopied
  <2>2. Count # 0
    <3>1. boot.start \in Image /\ boot.start \in Nat
      BY VmAssumption DEF Image
    <3>2. Count = 0 => boot.start \notin boot.start .. boot.start + Count - 1
      BY <3>1
    <3>. QED
      BY <2>1, <3>1, <3>2
  <2>. QED
    BY <1>21, <2>1, <2>2 DEF Child, Has
<1>23. x.top = m.top /\ c.top = m.top
  BY <1>6, <1>13, <1>17
<1>. HIDE DEF F, old, B
<1>24. Adds(F, B, x, n) /\ Spares(G, x, n) /\ (n.ok => Child(G, d, Image, n))
  <2>1. CASE ~c.ok
    <3>1. n = c
      BY <1>4, <2>1 DEF MapUser, vm_map_page
    <3>. QED
      BY <1>21, <1>23, <2>1, <3>1 DEF F, B
  <2>2. CASE c.ok
    <3>1. Grows(m.used, G, d, c, n)
      <4>1. /\ boot.kernel \in Nat /\ m.used \in Nat /\ m.used <= c.used
            /\ G \in SUBSET (0 .. m.used - 1) /\ s >= m.used
            /\ Safe(boot, c, E) /\ d \in E /\ n = MapUser(c, d, s, s)
            /\ s \in UserPages /\ s \in 0 .. c.used - 1
        BY <1>1, <1>4, <1>10, <1>17, <1>18
      <4>. QED
        BY ONLY <4>1, MapGrows
    <3>2. Adds(F, B, x, c) /\ Adds(F, B, c, n)
      BY <1>21, <1>23, <3>1 DEF F, B, Grows
    <3>3. Adds(F, B, x, n)
      BY <3>2, AddsTwice
    <3>4. Child(G, d, Image, c)
      BY <1>22, <2>2
    <3>5. Spares(G, x, n)
      BY ONLY <1>21, <3>1, <3>4 DEF Grows, Child, Spares
    <3>6. Image \in SUBSET UserPages
      BY ImagePlace
    <3>7. Child(G, d, Image, n)
      BY <1>4, <1>17, <3>1, <3>4, <3>6, ChildGrows
    <3>. QED
      BY <3>3, <3>5, <3>7
  <2>. QED
    BY <2>1, <2>2
<1>25. Adds(0 .. m.used - 1, m.used, m, n)
  <2>1. old \subseteq F /\ B = m.used /\ \A f \in old : x.table[f] = m.table[f]
    BY <1>1, <1>15 DEF F, B, old
  <2>2. Adds(old, B, m, n)
    BY ONLY <1>24, <2>1 DEF Adds
  <2>. QED
    BY <2>1, <2>2 DEF old
<1>26. Spares(G, m, n)
  BY <1>10, <1>15, <1>24 DEF Spares
<1>27. \A i \in DOMAIN n.table[d] :
          \/ i \in DOMAIN m.table[Parent] /\ n.table[d][i] = m.table[Parent][i]
          \/ n.table[d][i].frame >= m.used
  <2>1. d \in F /\ B = m.used
    BY <1>1, <1>5, <1>6 DEF F, B
  <2>. QED
    BY ONLY <1>14, <1>24, <2>1 DEF Adds
<1>28. task.block \in Blocks(m.used .. n.used - 1)
  <2>1. m.used .. y.used - 1 \subseteq m.used .. n.used - 1
    BY <1>1, <1>6, <1>20
  <2>. QED
    BY <1>5, <2>1 DEF Blocks
<1>29. d >= m.used /\ s >= m.used
  BY <1>1, <1>5
<1>. QED
  BY <1>5, <1>7, <1>24, <1>25, <1>26, <1>27, <1>28, <1>29

-----------------------------------------------------------------------------
(* What a child may get from the first task, and so has while its system calls
   run on the frame below what was free at the fork: the first task's frames,
   but for pages of its image in another table, which a fork replaces. *)
First ==
    {block[1].struct, block[1].kstack, block[1].ctx, pdir[1], stack[1]}
    \cup TablesOf(1)
    \cup {FrameAt(m, pdir[1], w) : w \in {v \in Image : PDIRE(v) = ImageIndex}}

(* System calls run on frames that were free and of no use, the image is there
   to be copied, the children have a table of their own for it, and the frame
   below those that are free is none of the first task's. *)
StacksOK ==
    /\ \A t \in live : /\ SyscallStack(t) < m.used
                       /\ SyscallStack(t) \notin InUse
                       /\ \A w \in Image : Mapped(m, pdir[t], w)
    /\ 1 \in live => /\ \A t \in live : t # 1 => ImageTable(t) # ImageTable(1)
                     /\ \A f \in First : f + 1 < m.used

(* The frames of a task after a step that gives it only frames that were free. *)
LEMMA InUseThen ==
    ASSUME VarsOK, Safe(boot, m, Dirs), StacksOK, boot' = boot, NEW t \in live,
           block'[t] = block[t] /\ pdir'[t] = pdir[t] /\ stack'[t] = stack[t],
           Adds(0 .. m.used - 1, m.used, m, m'), KeepsDir(pdir[t], m, m')
    PROVE  /\ \A f \in InUseBy(t)' : f \in InUseBy(t) \/ f >= m.used
           /\ \A w \in Image : Mapped(m', pdir[t], w)
           /\ ImageTable(t)' = ImageTable(t)
<1>1. pdir[t] \in Dirs /\ boot \in Machines /\ Image' = Image /\ ImageIndex' = ImageIndex
  BY DEF Dirs, VarsOK, Image, ImageIndex
<1>2. ASSUME NEW w \in Image
      PROVE  /\ Mapped(m, pdir[t], w) /\ Mapped(m', pdir[t], w)
             /\ \/ FrameAt(m', pdir[t], w) = FrameAt(m, pdir[t], w)
                \/ FrameAt(m', pdir[t], w) >= m.used
  <2>1. w \in UserPages /\ Mapped(m, pdir[t], w)
    BY <1>1, ImagePlace DEF StacksOK
  <2>. QED
    BY <1>1, <2>1, StillMapped
<1>3. ASSUME NEW f \in TablesOf(t)' PROVE f \in TablesOf(t) \/ f >= m.used
  <2>1. PICK i \in DOMAIN m'.table[pdir[t]] : f = m'.table[pdir[t]][i].frame
    BY <1>3 DEF TablesOf
  <2>2. pdir[t] \in 0 .. m.used - 1
    <3>1. pdir[t] \in 1 .. m.used - 1 /\ m.used \in Nat
      BY <1>1, Sizes DEF Safe
    <3>. QED
      BY <3>1
  <2>. QED
    BY <2>1, <2>2 DEF Adds, TablesOf
<1>4. ASSUME NEW f \in ImageOf(t)' PROVE f \in ImageOf(t) \/ f >= m.used
  <2>1. PICK w \in Image : f = FrameAt(m', pdir[t], w)
    BY <1>1, <1>4 DEF ImageOf
  <2>. QED
    BY <1>2, <2>1 DEF ImageOf
<1>5. ASSUME NEW f \in InUseBy(t)' PROVE f \in InUseBy(t) \/ f >= m.used
  BY <1>3, <1>4, <1>5 DEF InUseBy
<1>6. ImageTable(t)' = ImageTable(t)
  <2>1. boot.start \in Image
    BY <1>1, VmAssumption DEF Image
  <2>2. ImageIndex \in DOMAIN m.table[pdir[t]]
    BY <1>2, <2>1 DEF Mapped, ImageIndex
  <2>. QED
    BY <1>1, <2>2 DEF KeepsDir, ImageTable
<1>. QED
  BY <1>2, <1>5, <1>6

(* What the first task has, if its directory and the table of its image stay. *)
LEMMA FirstThen ==
    ASSUME VarsOK, boot' = boot,
           block'[1] = block[1] /\ pdir'[1] = pdir[1] /\ stack'[1] = stack[1],
           Spares({pdir[1], ImageTable(1)}, m, m')
    PROVE  First' = First
<1>1. Image' = Image /\ ImageIndex' = ImageIndex
  BY DEF Image, ImageIndex
<1>2. /\ m'.table[pdir[1]] = m.table[pdir[1]]
      /\ m'.table[ImageTable(1)] = m.table[ImageTable(1)]
  BY DEF Spares
<1>3. TablesOf(1)' = TablesOf(1)
  BY <1>2 DEF TablesOf
<1>4. \A w : PDIRE(w) = ImageIndex => FrameAt(m', pdir[1], w) = FrameAt(m, pdir[1], w)
  BY <1>2 DEF FrameAt, ImageTable
<1>5. {FrameAt(m, pdir[1], w) : w \in {v \in Image : PDIRE(v) = ImageIndex}}'
          = {FrameAt(m, pdir[1], w) : w \in {v \in Image : PDIRE(v) = ImageIndex}}
  BY <1>1, <1>4
<1>. QED
  BY <1>3, <1>5 DEF First

(* They are numbers. *)
LEMMA FirstNumbers ==
    ASSUME VarsOK, Safe(boot, m, Dirs), StacksOK, 1 \in live
    PROVE  \A f \in First : f \in Nat
<1>1. /\ block[1] \in Blocks(Frames) /\ pdir[1] \in Frames /\ stack[1] \in Frames
      /\ boot \in Machines /\ boot.top \in Nat /\ pdir[1] \in Dirs
  BY VmAssumption DEF VarsOK, Dirs
<1>2. \A g \in Frames : IsPages(m.table[g])
  BY DEF Safe, MemoryOK, Frames
<1>3. \A g \in TablesOf(1) : g \in Nat
  BY <1>1, <1>2, Constants DEF TablesOf, IsPages, IsEntry
<1>4. ASSUME NEW w \in Image PROVE FrameAt(m, pdir[1], w) \in Nat
  <2>1. w \in UserPages /\ Mapped(m, pdir[1], w)
    BY <1>1, ImagePlace DEF StacksOK
  <2>. QED
    BY <1>1, <2>1, MappedIn
<1>. QED
  BY <1>1, <1>3, <1>4 DEF First, Blocks, Frames

(* A step that makes no task. *)
LEMMA KeepsStacks ==
    ASSUME VarsOK, Safe(boot, m, Dirs), StacksOK, boot' = boot, live' \subseteq live,
           \A t \in live : block'[t] = block[t] /\ pdir'[t] = pdir[t]
                           /\ stack'[t] = stack[t],
           m'.used \in Nat, m.used <= m'.used,
           Adds(0 .. m.used - 1, m.used, m, m'),
           \A c \in Dirs : KeepsDir(c, m, m'),
           1 \in live => Spares({pdir[1], ImageTable(1)}, m, m')
    PROVE  StacksOK'
<1>1. m.used \in Nat /\ block \in [Tasks -> Blocks(Frames)] /\ live \subseteq Tasks
      /\ boot.top \in Nat /\ Image' = Image
  BY VmAssumption, Sizes DEF Safe, VarsOK, Image
<1>2. ASSUME NEW t \in live
      PROVE  /\ \A f \in InUseBy(t)' : f \in InUseBy(t) \/ f >= m.used
             /\ \A w \in Image : Mapped(m', pdir[t], w)
             /\ ImageTable(t)' = ImageTable(t)
  <2>1. KeepsDir(pdir[t], m, m')
    BY DEF Dirs
  <2>. QED
    BY <2>1, InUseThen
<1>3. ASSUME NEW t \in live
      PROVE  /\ SyscallStack(t)' = SyscallStack(t) /\ SyscallStack(t) \in Int
             /\ SyscallStack(t) < m.used
  <2>1. block[t].struct \in Nat
    BY <1>1 DEF Blocks, Frames
  <2>. QED
    BY <2>1 DEF SyscallStack, StacksOK
<1>4. ASSUME NEW t \in live' PROVE SyscallStack(t)' \notin InUse'
  <2>1. SUFFICES ASSUME NEW u \in live', SyscallStack(t)' \in InUseBy(u)' PROVE FALSE
    BY DEF InUse
  <2>2. SyscallStack(t) \in InUseBy(u) \/ SyscallStack(t) >= m.used
    BY <1>2, <1>3, <2>1
  <2>3. SyscallStack(t) \notin InUseBy(u)
    BY DEF StacksOK, InUse
  <2>. QED
    BY <1>1, <1>3, <2>2, <2>3
<1>5. ASSUME NEW t \in live'
      PROVE  SyscallStack(t)' < m'.used /\ \A w \in Image' : Mapped(m, pdir[t], w)'
  <2>1. SyscallStack(t)' < m'.used
    BY <1>1, <1>3
  <2>. QED
    BY <1>1, <1>2, <2>1
<1>6. ASSUME 1 \in live'
      PROVE  /\ \A t \in live' : t # 1 => ImageTable(t)' # ImageTable(1)'
             /\ \A f \in First' : f + 1 < m'.used
  <2>1. \A t \in live' : t # 1 => ImageTable(t)' # ImageTable(1)'
    BY <1>2, <1>6 DEF StacksOK
  <2>2. First' = First
    BY <1>6, FirstThen
  <2>3. \A f \in First : f + 1 < m'.used
    <3>1. \A f \in First : f \in Nat
      BY <1>6, FirstNumbers
    <3>2. \A f \in First : f + 1 < m.used
      BY <1>6 DEF StacksOK
    <3>. QED
      BY <1>1, <3>1, <3>2
  <2>. QED
    BY <2>1, <2>2, <2>3
<1>. QED
  BY <1>4, <1>5, <1>6 DEF StacksOK

(* Steps that leave the tables alone. *)
LEMMA StacksStay ==
    ASSUME VarsOK, Safe(boot, m, Dirs), StacksOK, boot' = boot, live' \subseteq live,
           UNCHANGED <<block, pdir, stack>>, m'.used = m.used, m'.table = m.table
    PROVE  StacksOK'
<1>1. m.used \in Nat
  BY Sizes DEF Safe
<1>2. /\ Adds(0 .. m.used - 1, m.used, m, m')
      /\ \A c \in Dirs : KeepsDir(c, m, m')
      /\ Spares({pdir[1], ImageTable(1)}, m, m')
  BY DEF Adds, KeepsDir, Spares
<1>. QED
  BY <1>1, <1>2, KeepsStacks

(* Where a task's directory and the table of its image are. *)
LEMMA TablePlace ==
    ASSUME VarsOK, Safe(boot, m, Dirs), StacksOK, NEW t \in live
    PROVE  /\ pdir[t] \in Dirs /\ pdir[t] \in 0 .. m.used - 1
           /\ ImageIndex \in Half(m, pdir[t]) /\ ImageTable(t) \in 0 .. m.used - 1
<1>1. pdir[t] \in Dirs /\ boot \in Machines
  BY DEF Dirs, VarsOK
<1>2. pdir[t] \in 1 .. m.used - 1 /\ m.used \in Nat
  BY <1>1, Sizes DEF Safe
<1>3. boot.start \in Image
  BY <1>1, VmAssumption DEF Image
<1>4. boot.start \in UserPages /\ Mapped(m, pdir[t], boot.start)
  BY <1>1, <1>3, ImagePlace DEF StacksOK
<1>5. /\ PDIRE(boot.start) \in Half(m, pdir[t])
      /\ m.table[pdir[t]][PDIRE(boot.start)].frame \in 0 .. m.used - 1
  BY <1>1, <1>4, MappedIn
<1>. QED
  BY <1>1, <1>2, <1>5 DEF ImageIndex, ImageTable

(* A fork that makes no task takes frames, and writes only those. *)
LEMMA ForkFailsStacks ==
    ASSUME VarsOK, Safe(boot, m, Dirs), StacksOK, ForkFails
    PROVE  StacksOK'
<1>1. PICK task : task = task_alloc(Sound) /\ m' = task.m
  BY DEF ForkFails
<1>2. UNCHANGED <<boot, block, pdir, stack, live>>
  BY DEF ForkFails
<1>3. /\ boot \in Machines /\ boot.kernel \in Nat /\ MemoryOK(m) /\ m.used \in Nat
      /\ m.top \in Nat
  BY VmAssumption, Sizes DEF VarsOK, Safe
<1>4. Safe(boot, Sound, Dirs) /\ Grew(m, Sound)
  BY <1>3, SoundIs
<1>5. Grew(m, m')
  BY <1>1, <1>3, <1>4, TaskAlloc, GrewTwice
<1>6. /\ m'.used \in Nat /\ m.used <= m'.used
      /\ \A f \in 0 .. m.used - 1 : m'.table[f] = m.table[f]
  BY <1>3, <1>5 DEF Grew
<1>7. Adds(0 .. m.used - 1, m.used, m, m')
  BY <1>6 DEF Adds
<1>8. \A c \in Dirs : KeepsDir(c, m, m')
  BY <1>6, TablePlace DEF KeepsDir, Dirs
<1>9. 1 \in live => Spares({pdir[1], ImageTable(1)}, m, m')
  BY <1>6, TablePlace DEF Spares
<1>. QED
  BY <1>2, <1>6, <1>7, <1>8, <1>9, KeepsStacks

(* An exec maps new frames in the caller's directory and tables, of which the
   first task's image has none. *)
LEMMA ExecStacks ==
    ASSUME VarsOK, Safe(boot, m, Dirs), StacksOK,
           NEW image \in [ImageNumbers -> Values], Exec(image), fgtask # 1
    PROVE  StacksOK'
<1> DEFINE d == pdir[fgtask]
           n == LoadImage(Sound, d, image)
           G == (Dirs \ {d}) \cup {f \in {ImageTable(1)} : 1 \in live}
           B == m.used
<1>1. m' = n /\ UNCHANGED <<boot, block, pdir, stack, live>>
  BY DEF Exec
<1>2. /\ boot \in Machines /\ MemoryOK(m) /\ m.used \in Nat /\ m.top \in Nat
      /\ m.used <= m.top /\ fgtask \in live /\ d \in Dirs
  BY VmAssumption, Sizes DEF VarsOK, Safe, Dirs
<1>3. /\ Safe(boot, Sound, Dirs) /\ Sound.used = m.used /\ Sound.top = m.top
      /\ Sound.table = m.table
  BY <1>2, SoundIs
<1>4. Dirs \subseteq 0 .. m.used - 1
  BY <1>2 DEF Safe
<1>5. G \in SUBSET (0 .. B - 1)
  BY <1>4, TablePlace
<1>6. Avoids(G, d, Sound)
  <2>1. 1 \in live => ImageTable(1) # ImageTable(fgtask) /\ ImageTable(1) # d
    <3>1. 1 \in live => ImageTable(1) \notin Dirs
      BY TablePlace, TableOf DEF ImageTable
    <3>. QED
      BY <1>2, <3>1 DEF StacksOK
  <2>2. ASSUME NEW i \in DOMAIN m.table[d] PROVE m.table[d][i].frame \notin G
    <3>1. m.table[d][i].frame \notin Dirs
      <4>1. ImageIndex \in Half(m, d)
        BY <1>2, TablePlace
      <4>2. i # ImageIndex => m.table[d][i].frame \notin Dirs
        BY <1>2, <4>1, NoneOf
      <4>3. i = ImageIndex => m.table[d][i].frame \notin Dirs
        BY <1>2, <4>1, TableOf
      <4>. QED
        BY <4>2, <4>3
    <3>2. ASSUME 1 \in live PROVE m.table[d][i].frame # ImageTable(1)
      <4>1. pdir[1] \in Dirs /\ ImageIndex \in Half(m, pdir[1])
        BY <3>2, TablePlace
      <4>2. i # ImageIndex \/ m.table[d][i].frame # m.table[pdir[1]][ImageIndex].frame
        BY <2>1, <3>2 DEF ImageTable
      <4>. QED
        BY <1>2, <4>1, <4>2, NoneOf DEF ImageTable
    <3>. QED
      BY <3>1, <3>2
  <2>3. d \notin G
    BY <2>1
  <2>. QED
    BY <1>3, <2>2, <2>3 DEF Avoids
<1>. HIDE DEF n, G, B
<1>7. Grows(B, G, d, Sound, n)
  <2>1. B \in Nat /\ B <= Sound.used
    BY <1>2, <1>3 DEF B
  <2>2. n = LoadImage(Sound, d, image)
    BY DEF n
  <2>. QED
    BY <1>2, <1>3, <1>5, <2>1, <2>2, LoadsGrow
<1>8. Keeps(boot, Dirs, Sound, n)
  BY <1>2, <1>3, Loads DEF n
<1>9. m'.used \in Nat /\ m.used <= m'.used
  BY <1>1, <1>2, <1>3, <1>8 DEF Keeps
<1>10. Adds(0 .. m.used - 1, m.used, m, m')
  <2> DEFINE F == 0 .. m.top - 1
             old == 0 .. m.used - 1
  <2>1. Adds(F, B, Sound, n) /\ old \subseteq F
    BY <1>2, <1>3, <1>7 DEF Grows
  <2>. HIDE DEF F, old
  <2>2. Adds(old, B, m, n)
    BY <1>3, <2>1 DEF Adds
  <2>. QED
    BY <1>1, <2>2 DEF old, B
<1>11. Spares(G, m, m') /\ KeepsDir(d, m, m')
  BY <1>1, <1>3, <1>6, <1>7 DEF Grows, Spares, KeepsDir
<1>12. \A c \in Dirs : KeepsDir(c, m, m')
  BY <1>11 DEF KeepsDir, Spares, G
<1>13. ASSUME 1 \in live PROVE Spares({pdir[1], ImageTable(1)}, m, m')
  <2>1. pdir[1] \in Dirs /\ pdir[1] # d
    BY <1>2, <1>13 DEF Dirs, StacksOK, ImageTable
  <2>2. {pdir[1], ImageTable(1)} \subseteq G
    BY <1>13, <2>1 DEF G
  <2>. QED
    BY <1>11, <2>2 DEF Spares
<1>. QED
  BY <1>1, <1>9, <1>10, <1>12, <1>13, KeepsStacks

(* A fork by the first task, which has no child: the frame below the child's
   structure is the last that was taken before, and neither of the two has it. *)
LEMMA ForkStacks ==
    ASSUME VarsOK, Safe(boot, m, Dirs), StacksOK, live = {1}, NEW u \in Tasks, Fork(u),
           Without({"siblings", "oom", "leftover"})'
    PROVE  StacksOK'
<1>1. PICK task : /\ task = task_alloc(Sound)
                  /\ task.m.ok
                  /\ block' = [block EXCEPT ![u] = task.block]
                  /\ pdir' = [pdir EXCEPT ![u] = task.pdir]
                  /\ stack' = [stack EXCEPT ![u] = task.stack]
                  /\ \E n \in {vm_map_page(task_copy_vm(Inherit(task), task.pdir),
                                           task.pdir, task.stack, task.stack,
                                           TRUE, None)} :
                        /\ m' = n
                        /\ live' = IF n.ok THEN live \cup {u} ELSE live
                        /\ mishap' = mishap \cup Entered \cup ForkMishap(task.stack, n)
                                     \cup CopyMishap(Inherit(task))
  BY DEF Fork
<1> DEFINE d == task.pdir
           s == task.stack
           p == pdir[1]
           g == ImageTable(1)
           G == {p, g}
           B == m.used
           D == {Parent}
           E == D \cup {d}
           n == MapUser(task_copy_vm(Inherit(task), d), d, s, s)
<1>2. /\ m' = n
      /\ live' = IF n.ok THEN live \cup {u} ELSE live
      /\ mishap' = mishap \cup Entered \cup ForkMishap(s, n)
                   \cup CopyMishap(Inherit(task))
  BY <1>1 DEF MapUser
<1>. HIDE DEF n
<1>3. u \notin live /\ u # 1 /\ boot' = boot
  BY DEF Fork
<1>4. /\ boot \in Machines /\ 1 \in live /\ 1 \in Tasks /\ fgtask = 1
      /\ p = Parent /\ Dirs = {p} /\ m.used \in Nat
      /\ block \in [Tasks -> Blocks(Frames)] /\ boot.top \in Nat
      /\ pdir \in [Tasks -> Frames] /\ stack \in [Tasks -> Frames]
  BY VmAssumption, Sizes DEF VarsOK, Safe, Dirs, Parent
<1>13. CleanTable(Inherit(task))
  <2>1. "leftover" \notin CopyMishap(Inherit(task))
    BY <1>2 DEF Without
  <2>. QED
    BY <2>1 DEF CopyMishap, CleanTable
<1>5. n.used < n.top
  <2>1. NextFrame(n) # Null
    BY <1>2 DEF Without, ForkMishap
  <2>. QED
    BY <2>1 DEF NextFrame
<1>6. /\ d >= m.used /\ s >= m.used
      /\ task.block \in Blocks(m.used .. n.used - 1) /\ task.block.struct = m.used
      /\ Adds(0 .. m.used - 1, m.used, m, n) /\ Spares(G, m, n)
      /\ \A i \in DOMAIN n.table[d] :
            \/ i \in DOMAIN m.table[p] /\ n.table[d][i] = m.table[p][i]
            \/ n.table[d][i].frame >= m.used
      /\ n.ok => Child(G, d, Image, n)
  <2>1. Safe(boot, m, {Parent}) /\ \A w \in Image : Mapped(m, Parent, w)
    BY <1>4 DEF StacksOK
  <2>2. /\ n = MapUser(task_copy_vm(Inherit(task), d), d, s, s)
        /\ g = m.table[Parent][ImageIndex].frame
    BY <1>4 DEF n, ImageTable
  <2>. HIDE DEF g
  <2>3. /\ task = task_alloc(Sound) /\ task.m.ok /\ CleanTable(Inherit(task))
        /\ d = task.pdir /\ s = task.stack
    BY <1>1, <1>13
  <2>. HIDE DEF d, s
  <2>4. /\ d >= m.used /\ s >= m.used
        /\ task.block \in Blocks(m.used .. n.used - 1) /\ task.block.struct = m.used
        /\ Adds(0 .. m.used - 1, m.used, m, n) /\ Spares({Parent, g}, m, n)
        /\ \A i \in DOMAIN n.table[d] :
              \/ i \in DOMAIN m.table[Parent] /\ n.table[d][i] = m.table[Parent][i]
              \/ n.table[d][i].frame >= m.used
        /\ n.ok => Child({Parent, g}, d, Image, n)
    <3>1. boot \in Machines
      BY <1>4
    <3>. HIDE DEF B
    <3>. QED
      BY ONLY <1>5, <2>1, <2>2, <2>3, <3>1, ForkGrows, SMTT(60)
  <2>5. D = {Parent} /\ G = {Parent, g} /\ p = Parent
    BY <1>4
  <2>. HIDE DEF D, G, E, p
  <2>. QED
    BY <2>4, <2>5
<1>7. m.used < m'.used /\ m'.used \in Nat
  <2>1. MemoryOK(n)
    <3>1. Safe(boot, m, D) /\ pdir[fgtask] \in D
      BY <1>4 DEF Parent
    <3>2. n = MapUser(task_copy_vm(Inherit(task), d), d, s, s) /\ E = D \cup {d}
      BY DEF n
    <3>. HIDE DEF D, E
    <3>3. Safe(boot, n, E)
      BY <1>1, <1>4, <1>13, <3>1, <3>2, Forks
    <3>. QED
      BY <3>3 DEF Safe
  <2>2. n.used \in Nat
    BY <2>1, Sizes
  <2>3. m.used \in m.used .. n.used - 1
    BY <1>6 DEF Blocks
  <2>. QED
    BY <1>2, <1>4, <2>2, <2>3
<1>8. /\ block'[1] = block[1] /\ pdir'[1] = pdir[1] /\ stack'[1] = stack[1]
      /\ block'[u] = task.block /\ pdir'[u] = d /\ stack'[u] = s
  BY <1>1, <1>3, <1>4
<1>9. /\ Adds(0 .. m.used - 1, m.used, m, m') /\ Spares({pdir[1], ImageTable(1)}, m, m')
      /\ KeepsDir(pdir[1], m, m')
  BY <1>2, <1>6 DEF Spares, KeepsDir
<1>10. CASE ~n.ok
  <2>1. live' = live /\ \A c \in Dirs : KeepsDir(c, m, m')
    BY <1>2, <1>4, <1>9, <1>10
  <2>2. \A t \in live : block'[t] = block[t] /\ pdir'[t] = pdir[t] /\ stack'[t] = stack[t]
    BY <1>8
  <2>3. live' \subseteq live /\ m'.used \in Nat /\ m.used <= m'.used
    BY <1>4, <1>7, <2>1
  <2>. QED
    BY <1>3, <1>9, <2>1, <2>2, <2>3, KeepsStacks
<1>11. CASE n.ok
  <2>1. live' = {1, u} /\ Image' = Image /\ ImageIndex' = ImageIndex
    BY <1>2, <1>3, <1>11 DEF Image, ImageIndex
  <2>2. /\ \A f \in InUseBy(1)' : f \in InUseBy(1) \/ f >= m.used
        /\ \A w \in Image : Mapped(m', pdir[1], w)
        /\ ImageTable(1)' = ImageTable(1)
    BY <1>3, <1>4, <1>8, <1>9, InUseThen
  <2>3. First' = First /\ \A f \in First : f \in Nat /\ f + 1 < m.used
    <3>1. First' = First
      BY <1>3, <1>8, <1>9, FirstThen
    <3>2. \A f \in First : f \in Nat
      BY <1>4, FirstNumbers
    <3>. QED
      BY <1>4, <3>1, <3>2 DEF StacksOK
  <2>4. /\ ImageIndex \in DOMAIN n.table[d] /\ n.table[d][ImageIndex].frame >= m.used
        /\ \A i \in DOMAIN m.table[p] : i # ImageIndex => n.table[d][i] = m.table[p][i]
        /\ \A w \in Image : Mapped(n, d, w) /\ FrameAt(n, d, w) >= m.used
    BY <1>4, <1>6, <1>11 DEF Child, Has
  <2>5. /\ SyscallStack(1)' = SyscallStack(1) /\ SyscallStack(1) \in Int
        /\ SyscallStack(1) < m.used /\ SyscallStack(1) \notin InUseBy(1)
    <3>1. block[1].struct \in Nat
      BY <1>4 DEF Blocks, Frames
    <3>2. SyscallStack(1) < m.used /\ SyscallStack(1) \notin InUseBy(1)
      BY <1>4 DEF StacksOK, InUse
    <3>. QED
      BY <1>8, <3>1, <3>2 DEF SyscallStack
  <2>6. SyscallStack(u)' = m.used - 1
    BY <1>6, <1>8 DEF SyscallStack
  <2>7. ASSUME NEW f \in InUseBy(u)' PROVE f \in TablesOf(1) \/ f >= m.used
    <3>1. CASE f \in {block[u].struct, block[u].kstack, block[u].ctx, pdir[u], stack[u]}'
      BY <1>4, <1>6, <1>8, <3>1 DEF Blocks
    <3>2. CASE f \in TablesOf(u)'
      <4>1. PICK i \in DOMAIN n.table[d] : f = n.table[d][i].frame
        BY <1>2, <1>8, <3>2 DEF TablesOf
      <4>. QED
        BY <1>6, <4>1 DEF TablesOf
    <3>3. CASE f \in ImageOf(u)'
      <4>1. PICK w \in Image : f = FrameAt(n, d, w)
        BY <1>2, <1>8, <2>1, <3>3 DEF ImageOf
      <4>. QED
        BY <2>4, <4>1
    <3>. QED
      BY <2>7, <3>1, <3>2, <3>3 DEF InUseBy
  <2>8. ASSUME NEW f \in InUseBy(1)' PROVE f \in First \/ f >= m.used
    <3>1. CASE f \in {block[1].struct, block[1].kstack, block[1].ctx, pdir[1], stack[1]}'
                     \cup TablesOf(1)'
      BY <2>3, <3>1 DEF First
    <3>2. CASE f \in ImageOf(1)'
      <4>1. PICK w \in Image : f = FrameAt(n, p, w)
        BY <1>2, <1>8, <2>1, <3>2 DEF ImageOf
      <4>2. CASE PDIRE(w) = ImageIndex
        BY <1>2, <1>8, <2>1, <2>3, <4>1, <4>2 DEF First
      <4>3. CASE PDIRE(w) # ImageIndex
        <5>1. PDIRE(w) \in DOMAIN m.table[p] /\ n.table[p] = m.table[p]
          BY <1>4, <1>6, <4>1 DEF StacksOK, Mapped, Spares
        <5>2. n.table[d][PDIRE(w)] = n.table[p][PDIRE(w)]
          BY <2>4, <4>3, <5>1
        <5>3. FrameAt(n, d, w) = FrameAt(n, p, w)
          BY <5>2 DEF FrameAt
        <5>. QED
          BY <2>4, <4>1, <5>3
      <4>. QED
        BY <4>2, <4>3
    <3>. QED
      BY <2>8, <3>1, <3>2 DEF InUseBy
  <2>9. TablesOf(1) \subseteq First /\ TablesOf(1) \subseteq InUseBy(1)
    BY DEF First, InUseBy
  <2>10. ASSUME NEW t \in live' PROVE SyscallStack(t)' \notin InUse'
    <3>1. SUFFICES ASSUME NEW q \in live', SyscallStack(t)' \in InUseBy(q)' PROVE FALSE
      BY DEF InUse
    <3> DEFINE f == SyscallStack(t)'
    <3>2. f < m.used /\ f \in Int
      BY <1>4, <2>1, <2>5, <2>6
    <3>3. CASE t = 1
      <4>1. f \notin InUseBy(1)
        BY <2>5, <3>3
      <4>2. f \in InUseBy(1) \/ f >= m.used
        BY <2>1, <2>2, <2>7, <2>9, <3>1
      <4>. QED
        BY ONLY <1>4, <3>2, <4>1, <4>2
    <3>4. CASE t = u
      <4>1. f \in First \/ f >= m.used
        BY <2>1, <2>7, <2>8, <2>9, <3>1
      <4>2. f = m.used - 1
        BY <2>6, <3>4
      <4>. HIDE DEF f
      <4>. QED
        BY <1>4, <2>3, <4>1, <4>2
    <3>. QED
      BY <2>1, <3>3, <3>4
  <2>11. ASSUME NEW t \in live'
         PROVE  SyscallStack(t)' < m'.used /\ \A w \in Image' : Mapped(m, pdir[t], w)'
    <3>1. SyscallStack(t)' < m'.used
      BY <1>4, <1>7, <2>1, <2>5, <2>6
    <3>2. \A w \in Image' : Mapped(m, pdir[t], w)'
      BY <1>2, <1>8, <2>1, <2>2, <2>4
    <3>. QED
      BY <3>1, <3>2
  <2>12. ImageTable(u)' # ImageTable(1)'
    <3>1. ImageTable(u)' >= m.used
      BY <1>2, <1>8, <2>1, <2>4 DEF ImageTable
    <3>2. ImageTable(1)' \in 0 .. m.used - 1
      BY <1>4, <2>2, TablePlace
    <3>. QED
      BY <1>4, <3>1, <3>2
  <2>13. \A f \in First' : f + 1 < m'.used
    BY <1>4, <1>7, <2>3
  <2>. QED
    BY <2>1, <2>10, <2>11, <2>12, <2>13 DEF StacksOK
<1>. QED
  BY <1>10, <1>11

(* The first task's frames come after the one its system calls run on, but for
   the kernel's tables, which come before; kctx is in the last of those taken. *)
LEMMA FirstStacks ==
    ASSUME Init, Without(Breaks)
    PROVE  StacksOK
<1>1. PICK task : /\ task = task_init(Take(vm_init(Memory(boot))))
                  /\ task.m.ok /\ m = task.m
                  /\ block = [t \in Tasks |-> task.block]
                  /\ pdir = [t \in Tasks |-> IF t = 1 THEN task.pdir ELSE Null]
                  /\ stack = [t \in Tasks |-> IF t = 1 THEN task.stack ELSE Null]
                  /\ mishap = (IF boot.junk = Absent THEN {} ELSE {"dirty"})
                              \cup (IF task.stack \in Image THEN {"overlap"} ELSE {})
  BY DEF Init
<1>2. boot \in Machines /\ vm_init(Memory(boot)).ok /\ live = {1}
  BY DEF Init
<1>3. boot.junk = Absent
  BY <1>1 DEF Without, Breaks
<1>4. PICK x, t, n : FirstFrom(x, t, n, task)
  BY <1>1, <1>2, <1>3, FirstCalls
<1> DEFINE d == task.pdir
           s == task.stack
           E == {d}
           y == t.m
           B == x.used
<1>5. /\ Safe(boot, x, {}) /\ TaskMade(boot, x, {}, t)
      /\ \A f \in KFrames(x) : f + 1 < x.used
      /\ n = LoadImage(y, d, NoImage) /\ n.ok /\ m = Take(n)
      /\ t.pdir = d /\ t.stack = s /\ t.block = task.block
  BY <1>1, <1>4 DEF FirstFrom
<1>6. /\ Safe(boot, y, E) /\ d \in B .. y.used - 1 /\ s \in B .. y.used - 1 /\ s < KHEAP
      /\ task.block \in Blocks(B .. y.used - 1) /\ task.block.struct = B
      /\ StackPut(boot, x, E, t)
  BY <1>5 DEF TaskMade
<1>7. /\ boot.kernel \in Nat /\ NoImage \in [ImageNumbers -> Values] /\ d \in E
      /\ B \in Nat /\ y.used \in Nat
      /\ KHEAP \in Nat /\ KHALF \in Nat /\ KHEAP < KHALF /\ 1 \in Tasks
  BY <1>2, <1>5, <1>6, VmAssumption, Sizes, Constants DEF NoImage, Safe, Tasks
<1>8. /\ block[1] = task.block /\ pdir[1] = d /\ stack[1] = s
  BY <1>1, <1>7
<1>9. PICK a, p : /\ Safe(boot, a, E) /\ Grew(x, a) /\ Half(a, d) = {}
                  /\ s \in B .. a.used - 1
                  /\ p = MapUser(a, d, s, s) /\ p.ok /\ Took(p, y)
  BY <1>5, <1>6 DEF StackPut
<1>. HIDE DEF d, s, E, y, B
<1>10. /\ Safe(boot, n, E) /\ MemoryOK(n) /\ n.used \in Nat /\ y.used <= n.used
  <2>1. Keeps(boot, E, y, n)
    BY <1>2, <1>5, <1>6, <1>7, Loads
  <2>. QED
    BY <1>7, <2>1, Sizes DEF Keeps, Safe
<1>11. m.table = n.table /\ m.used = n.used + 1
  BY <1>1, <1>5, <1>10, Takes DEF Took
<1>12. /\ Grows(B, {}, d, y, n) /\ Has(B, d, Image, n)
  <2>1. B <= y.used
    BY <1>6, <1>7
  <2> DEFINE none == {}
  <2>2. none \in SUBSET (0 .. B - 1)
    OBVIOUS
  <2>. HIDE DEF none
  <2>3. Grows(B, none, d, y, n) /\ (n.ok => Has(B, d, Image, n))
    BY <1>2, <1>5, <1>6, <1>7, <2>1, <2>2, LoadsGrow
  <2>. QED
    BY <1>5, <2>3 DEF none
<1>13. Grows(B, {}, d, a, p)
  <2>1. B <= a.used /\ s >= B /\ s \in 0 .. a.used - 1 /\ s \in UserPages
    <3>1. a.used \in Nat
      BY <1>9, Sizes DEF Safe
    <3>. QED
      BY <1>6, <1>7, <1>9, <3>1 DEF UserPages
  <2> DEFINE none == {}
  <2>2. none \in SUBSET (0 .. B - 1)
    OBVIOUS
  <2>. HIDE DEF none
  <2>3. Grows(B, none, d, a, p)
    BY <1>7, <1>9, <2>1, <2>2, MapGrows
  <2>. QED
    BY <2>3 DEF none
<1>14. ASSUME NEW i \in DOMAIN n.table[d]
       PROVE  n.table[d][i].frame \in KFrames(x) \/ n.table[d][i].frame >= B
  <2>1. d \in 0 .. y.top - 1 /\ d \in 0 .. a.top - 1 /\ y.table = p.table
    <3>1. y.used <= y.top /\ y.top \in Nat
      BY <1>6, Sizes DEF Safe
    <3>2. d \in 1 .. a.used - 1 /\ a.used <= a.top /\ a.top \in Nat /\ a.used \in Nat
      BY <1>7, <1>9, Sizes DEF Safe
    <3>. QED
      BY <1>6, <1>7, <1>9, <3>1, <3>2 DEF Took
  <2>2. \/ i \in DOMAIN y.table[d] /\ n.table[d][i] = y.table[d][i]
        \/ n.table[d][i].frame >= B
    BY <1>12, <2>1 DEF Grows, Adds
  <2>3. i \in DOMAIN p.table[d] =>
            \/ i \in DOMAIN a.table[d] /\ p.table[d][i] = a.table[d][i]
            \/ p.table[d][i].frame >= B
    BY <1>13, <2>1 DEF Grows, Adds
  <2>4. i \in DOMAIN a.table[d] => a.table[d][i].frame \in KFrames(x)
    <3>1. i \in DOMAIN a.table[d] => i \in Shared /\ a.table[d][i] = SharedEntry(a, i)
      BY <1>7, <1>9 DEF Safe, Sharing, Half
    <3>2. KFrames(a) = KFrames(x)
      BY <1>9, SameFrames DEF Grew
    <3>. QED
      BY <3>1, <3>2 DEF KFrames
  <2>. QED
    BY <2>1, <2>2, <2>3, <2>4
<1>15. ASSUME NEW i \in DOMAIN n.table[d] PROVE n.table[d][i].frame \in 0 .. n.used - 1
  <2>1. n.table[d][i].frame \in AllTables(n, E)
    <3>1. CASE i < HALF
      <4>1. i \in Half(n, d)
        BY <3>1 DEF Half
      <4>. QED
        BY <1>7, <1>10, <4>1, TableOf DEF AllTables
    <3>2. CASE ~(i < HALF)
      BY <1>7, <1>10, <3>2 DEF Safe, Sharing, KFrames, AllTables
    <3>. QED
      BY <3>1, <3>2
  <2>. QED
    BY <1>10, <2>1, TablesExist
<1>16. ASSUME NEW w \in Image
       PROVE  /\ Mapped(m, d, w) /\ FrameAt(m, d, w) = FrameAt(n, d, w)
              /\ FrameAt(n, d, w) >= B /\ FrameAt(n, d, w) \in 0 .. n.used - 1
  <2>1. w \in UserPages /\ Mapped(n, d, w) /\ FrameAt(n, d, w) >= B
    BY <1>2, <1>12, ImagePlace DEF Has
  <2>2. FrameAt(n, d, w) \in 0 .. n.used - 1
    BY <1>7, <1>10, <2>1, MappedIn
  <2>. QED
    BY <1>11, <2>1, <2>2 DEF Mapped, FrameAt
<1>17. SyscallStack(1) = B - 1 /\ SyscallStack(1) < m.used
  BY <1>6, <1>7, <1>8, <1>10, <1>11 DEF SyscallStack
<1>18. ASSUME NEW f \in InUseBy(1) PROVE f # B - 1
  <2>1. CASE f \in {block[1].struct, block[1].kstack, block[1].ctx, pdir[1], stack[1]}
    BY <1>6, <1>7, <1>8, <2>1 DEF Blocks
  <2>2. CASE f \in TablesOf(1)
    <3>1. PICK i \in DOMAIN n.table[d] : f = n.table[d][i].frame
      BY <1>8, <1>11, <2>2 DEF TablesOf
    <3>2. f \in 0 .. n.used - 1
      BY <1>15, <3>1
    <3>3. f + 1 < B \/ f >= B
      BY <1>5, <1>14, <3>1 DEF B
    <3>. QED
      BY <1>7, <3>2, <3>3
  <2>3. CASE f \in ImageOf(1)
    BY <1>7, <1>8, <1>16, <2>3 DEF ImageOf
  <2>. QED
    BY <1>18, <2>1, <2>2, <2>3 DEF InUseBy
<1>19. ASSUME NEW f \in First PROVE f + 1 < m.used
  <2>1. f \in 0 .. n.used - 1
    <3>1. CASE f \in {block[1].struct, block[1].kstack, block[1].ctx, pdir[1], stack[1]}
      BY <1>6, <1>7, <1>8, <1>10, <3>1 DEF Blocks
    <3>2. CASE f \in TablesOf(1)
      BY <1>8, <1>11, <1>15, <3>2 DEF TablesOf
    <3>3. CASE f \in {FrameAt(m, pdir[1], w) : w \in {v \in Image : PDIRE(v) = ImageIndex}}
      BY <1>8, <1>16, <3>3
    <3>. QED
      BY <1>19, <3>1, <3>2, <3>3 DEF First
  <2>. QED
    BY <1>10, <1>11, <2>1
<1>. QED
  BY <1>2, <1>8, <1>16, <1>17, <1>18, <1>19 DEF StacksOK, InUse

-----------------------------------------------------------------------------
(* The inductive invariant, for a shell that forks one child at a time and never
   replaces itself. *)
StackInv == Without(Breaks \cup {"siblings", "reload", "oom"}) => StacksOK

(* It is inductive. *)
LEMMA EveryStepStacks ==
    ASSUME VmInv, StackInv, [Next]_vars
    PROVE  StackInv'
<1>1. SUFFICES ASSUME Without(Breaks \cup {"siblings", "reload", "oom"})'
               PROVE  StacksOK'
  BY DEF StackInv
<1>2. mishap \subseteq mishap'
  BY DEF Next, vars, Fork, ForkFails, Exec, OtherCall, Dispatch, Exit,
         UserWrite, PageFault
<1>3. VarsOK /\ Safe(boot, m, Dirs) /\ StacksOK
  BY <1>1, <1>2 DEF Without, VmInv, StackInv
<1>4. CASE \E u \in Tasks : Fork(u)
  <2>1. PICK u \in Tasks : Fork(u)
    BY <1>4
  <2>2. live = {1}
    BY <1>1, <2>1 DEF Fork, ForkMishap, Without
  <2>3. Without({"siblings", "oom", "leftover"})'
    BY <1>1 DEF Without, Breaks
  <2>. QED
    BY <1>3, <2>1, <2>2, <2>3, ForkStacks
<1>5. CASE ForkFails
  BY <1>3, <1>5, ForkFailsStacks
<1>6. CASE \E image \in [ImageNumbers -> Values] : Exec(image)
  <2>1. fgtask # 1
    BY <1>1, <1>6 DEF Exec, Without
  <2>. QED
    BY <1>3, <1>6, <2>1, ExecStacks
<1>7. ASSUME UNCHANGED <<boot, m, block, pdir, stack>>, live' \subseteq live
      PROVE  StacksOK'
  BY <1>3, <1>7, StacksStay
<1>8. CASE OtherCall \/ UNCHANGED vars
  BY <1>7, <1>8 DEF OtherCall, vars
<1>9. CASE \E t \in Tasks : Dispatch(t) \/ Exit(t)
  BY <1>7, <1>9 DEF Dispatch, Exit
<1>10. CASE \E va \in 0 .. VaTop - 1, v \in Values : UserWrite(va, v)
  <2>1. PICK va, v : UserWrite(va, v)
    BY <1>10
  <2>2. /\ m' = [m EXCEPT !.data[FrameAt(m, cr3, va)] = v]
        /\ UNCHANGED <<boot, block, pdir, stack, live>>
    BY <2>1 DEF UserWrite
  <2>3. IsMemory(m)
    BY <1>3 DEF Safe, MemoryOK
  <2>4. m'.used = m.used /\ m'.table = m.table
    BY <2>2, <2>3 DEF IsMemory
  <2>. QED
    BY <1>3, <2>2, <2>4, StacksStay
<1>11. CASE \E t \in Tasks : PageFault(t)
  BY <1>7, <1>11 DEF PageFault, Dispatch
<1>. QED
  BY <1>4, <1>5, <1>6, <1>8, <1>9, <1>10, <1>11 DEF Next

(* sysenter_eip runs system calls on the frame below the task structure, not on
   the task's kernel stack.  From clean caches and tables, on enough memory, no task has
   that frame as long as only the first task forks, with one child at a time,
   and never replaces itself. *)
THEOREM CallsTrampleNothing == Spec => []StacksApart
<1>1. Init => StackInv
  <2>1. Without(Breaks \cup {"siblings", "reload", "oom"}) => Without(Breaks)
    BY DEF Without
  <2>. QED
    BY <2>1, FirstStacks DEF StackInv
<1>2. VmInv /\ StackInv /\ [Next]_vars => StackInv'
  BY EveryStepStacks
<1>3. StackInv => StacksApart
  BY DEF StackInv, StacksOK, StacksApart, Without, Breaks
<1>4. Spec => []VmInv
  BY VmInvHolds
<1>. QED
  BY <1>1, <1>2, <1>3, <1>4, PTL DEF Spec
=============================================================================
