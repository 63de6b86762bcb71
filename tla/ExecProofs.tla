----------------------------- MODULE ExecProofs -----------------------------
(***************************************************************************)
(* Proofs about the loader: for page tables of every size, every program   *)
(* that may be running and every file that it may load.                    *)
(***************************************************************************)
EXTENDS Exec, FiniteSetTheorems, TLAPS

-----------------------------------------------------------------------------
(* Division, for a divisor that is a parameter. *)
LEMMA Parts ==
    ASSUME NEW d \in Nat \ {0}, NEW n \in Nat
    PROVE  n % d \in 0 .. d - 1 /\ n \div d \in Nat /\ n = d * (n \div d) + (n % d)
OBVIOUS

(* Multiples of d are d apart. *)
LEMMA Multiples ==
    ASSUME NEW d \in Nat \ {0}, NEW j \in Int, NEW k \in Int, j < k
    PROVE  d * j + d <= d * k
<1>1. k - j >= 1
  OBVIOUS
<1>2. d * (k - j) >= d
  BY <1>1
<1>3. d * (k - j) = d * k - d * j
  OBVIOUS
<1>. QED
  BY <1>2, <1>3

(* There is one quotient and one remainder. *)
LEMMA OneQuotient ==
    ASSUME NEW d \in Nat \ {0}, NEW j \in Int, NEW k \in Int,
           NEW r \in 0 .. d - 1, NEW t \in 0 .. d - 1, d * j + t = d * k + r
    PROVE  j = k /\ t = r
<1>1. d * j \in Int /\ d * k \in Int
  OBVIOUS
<1>2. ASSUME j < k PROVE FALSE
  BY <1>1, <1>2, Multiples
<1>3. ASSUME k < j PROVE FALSE
  BY <1>1, <1>3, Multiples
<1>4. j = k
  BY <1>2, <1>3
<1>5. d * j = d * k
  BY <1>4
<1>. QED
  BY <1>1, <1>4, <1>5

(* The quotient and remainder of a number of which they are known. *)
LEMMA Divided ==
    ASSUME NEW d \in Nat \ {0}, NEW k \in Nat, NEW r \in 0 .. d - 1
    PROVE  (d * k + r) \div d = k /\ (d * k + r) % d = r
<1> DEFINE n == d * k + r
           j == n \div d
           t == n % d
<1>1. n \in Nat
  OBVIOUS
<1>. HIDE DEF n
<1>2. n = d * j + t /\ t \in 0 .. d - 1 /\ j \in Int
  BY <1>1, Parts
<1>3. n = d * k + r
  BY DEF n
<1>. HIDE DEF j, t
<1>4. d * j + t = d * k + r /\ k \in Int
  BY <1>2, <1>3
<1>5. j = k /\ t = r
  BY <1>2, <1>4, OneQuotient
<1>. QED
  BY <1>5 DEF j, t, n

(* A larger number has no smaller quotient. *)
LEMMA Monotone ==
    ASSUME NEW d \in Nat \ {0}, NEW a \in Nat, NEW b \in Nat, a <= b
    PROVE  a \div d <= b \div d
<1> DEFINE j == a \div d
           k == b \div d
           t == a % d
           r == b % d
<1>1. /\ a = d * j + t /\ t \in 0 .. d - 1 /\ j \in Nat
      /\ b = d * k + r /\ r \in 0 .. d - 1 /\ k \in Nat
  BY Parts
<1>. HIDE DEF j, k, t, r
<1>2. ASSUME k < j PROVE FALSE
  <2>1. d * k + d <= d * j
    BY <1>1, <1>2, Multiples
  <2>2. d * k \in Nat /\ d * j \in Nat
    BY <1>1
  <2>. QED
    BY <1>1, <2>1, <2>2
<1>3. j <= k
  BY <1>1, <1>2
<1>. QED
  BY <1>3 DEF j, k

-----------------------------------------------------------------------------
(* What Put leaves in a table. *)
LEMMA PutFacts ==
    ASSUME NEW t, NEW x, NEW e
    PROVE  /\ DOMAIN Put(t, x, e) = {x} \cup DOMAIN t
           /\ Put(t, x, e)[x] = e
           /\ \A y \in DOMAIN t : y # x => Put(t, x, e)[y] = t[y]
BY DEF Put, Over

(* The fields of the memory, which stays a record. *)
IsMemory(x) == x = [top |-> x.top, used |-> x.used, ok |-> x.ok,
                    stuck |-> x.stuck, data |-> x.data, cache |-> x.cache,
                    table |-> x.table]

(* Tables lie in frames that have been handed out, each of them under one
   entry of the directory, and so do the pages they map. *)
TablesInv(x) ==
    /\ IsMemory(x)
    /\ x.ok = TRUE
    /\ x.top \in Nat /\ x.used \in Ptbl + 1 .. x.top /\ x.top <= KHEAP
    /\ DOMAIN x.table = 0 .. x.top - 1
    /\ x.table = [f \in 0 .. x.top - 1 |-> x.table[f]]
    /\ \A d \in DOMAIN x.table[Pdir] :
          x.table[Pdir][d].frame \in Ptbl .. x.used - 1
    /\ \A d, e \in DOMAIN x.table[Pdir] :
          d # e => x.table[Pdir][d].frame # x.table[Pdir][e].frame
    /\ \A d \in DOMAIN x.table[Pdir] :
          LET t == x.table[x.table[Pdir][d].frame]
          IN  \A y \in DOMAIN t : t[y].frame \in 0 .. x.used - 1

(* The constants. *)
LEMMA Constants ==
    /\ PGSIZE \in Nat \ {0} /\ Block \in Nat \ {0} /\ Kernel \in Nat \ {0}
    /\ PtblSize \in Nat \ {0} /\ KHALF \in Nat /\ KHEAP \in Nat
BY ExecAssumption, PagingAssumption

(* Taking the next frame. *)
LEMMA TakeFrame ==
    ASSUME NEW x, TablesInv(x), NextFrame(x) # Null
    PROVE  /\ NextFrame(x) = x.used /\ x.used < x.top
           /\ Take(x) = [x EXCEPT !.used = x.used + 1]
           /\ Take(x).ok = TRUE /\ Take(x).used = x.used + 1 /\ Take(x).top = x.top
           /\ Take(x).table = x.table
           /\ IsMemory(Take(x))
<1>1. NextFrame(x) = x.used /\ x.used < x.top
  BY DEF NextFrame
<1>2. x.ok = TRUE /\ IsMemory(x)
  BY DEF TablesInv
<1>3. Take(x) = [x EXCEPT !.used = x.used + 1]
  BY <1>1, <1>2 DEF Take, pm_alloc_frame
<1>. QED
  BY <1>1, <1>2, <1>3 DEF IsMemory

(* The tables after page va has been mapped to frame g, and the next frame has
   become the page's table if there was none. *)
InTableOf(x, g, va) ==
    [x.table EXCEPT ![x.table[Pdir][PDIRE(va)].frame] =
        Put(@, PTBLE(va), Entry(g, TRUE))]
InNewTable(x, g, va) ==
    [[x.table EXCEPT ![Pdir] = Put(@, PDIRE(va), Entry(x.used, TRUE))]
        EXCEPT ![x.used] = Put(Absent, PTBLE(va), Entry(g, TRUE))]
With(x, g, va) == vm_map_page(x, Pdir, g, va, TRUE, None)

(* vm_map_page for a page of the program when its table is there. *)
LEMMA MapsInTable ==
    ASSUME NEW x, TablesInv(x), NEW g, NEW va \in Nat,
           PDIRE(va) \in DOMAIN x.table[Pdir]
    PROVE  /\ IsMemory(With(x, g, va))
           /\ With(x, g, va).ok = TRUE
           /\ With(x, g, va).top = x.top /\ With(x, g, va).used = x.used
           /\ With(x, g, va).table = InTableOf(x, g, va)
<1> DEFINE f == x.table[Pdir][PDIRE(va)].frame
<1>1. x.ok = TRUE /\ IsMemory(x)
  BY DEF TablesInv
<1>2. With(x, g, va) = [x EXCEPT !.table[f] = Put(@, PTBLE(va), Entry(g, TRUE))]
  BY <1>1 DEF vm_map_page, UseCache, With
<1>3. With(x, g, va).table = [x.table EXCEPT ![f] = Put(@, PTBLE(va), Entry(g, TRUE))]
  BY <1>1, <1>2 DEF IsMemory
<1>. QED
  BY <1>1, <1>2, <1>3 DEF IsMemory, InTableOf

(* vm_map_page for a page of the program when it gets a table. *)
LEMMA MapsInNewTable ==
    ASSUME NEW x, TablesInv(x), NEW g, NEW va \in Nat,
           PDIRE(va) \notin DOMAIN x.table[Pdir],
           With(x, g, va).ok
    PROVE  /\ IsMemory(With(x, g, va))
           /\ With(x, g, va).ok = TRUE
           /\ With(x, g, va).top = x.top /\ With(x, g, va).used = x.used + 1
           /\ x.used < x.top
           /\ With(x, g, va).table = InNewTable(x, g, va)
<1> DEFINE n == vm_alloc_pte(x)
           s == [n EXCEPT !.table[Pdir] = Put(@, PDIRE(va), Entry(x.used, TRUE)),
                          !.cache = @]
           e == Entry(g, TRUE)
<1>1. x.ok = TRUE /\ IsMemory(x)
  BY DEF TablesInv
<1>2. /\ x.top \in Nat /\ x.used \in Ptbl + 1 .. x.top /\ x.top <= KHEAP
      /\ x.table = [f \in 0 .. x.top - 1 |-> x.table[f]]
  BY DEF TablesInv
<1>3. With(x, g, va) = IF n.ok
                         THEN [s EXCEPT !.table[NextFrame(x)] = Put(@, PTBLE(va), e)]
                         ELSE n
  <2>. HIDE DEF n
  <2>1. vm_map_page(x, Pdir, g, va, TRUE, None) =
          IF n.ok
            THEN [[n EXCEPT !.table[Pdir] =
                               Put(@, PDIRE(va), Entry(NextFrame(x), TRUE)),
                            !.cache = @]
                    EXCEPT !.table[NextFrame(x)] = Put(@, PTBLE(va), e)]
            ELSE n
    BY <1>1 DEF vm_map_page, UseCache, n
  <2>2. CASE n.ok
    <3>1. NextFrame(x) = x.used
      <4>1. NextFrame(x) # Null
        BY <1>1, <2>2 DEF n, vm_alloc_pte, Take, Fail, Touch, IsMemory
      <4>. QED
        BY <4>1, <1>1 DEF NextFrame
    <3>. QED
      BY <2>1, <2>2, <3>1, <1>1 DEF With
  <2>3. CASE ~n.ok
    BY <2>1, <2>3, <1>1 DEF With
  <2>. QED
    BY <2>2, <2>3
<1>4. n.ok
  BY <1>3
<1>5. NextFrame(x) # Null
  BY <1>1, <1>4 DEF vm_alloc_pte, Take, Fail, Touch, IsMemory
<1>6. /\ NextFrame(x) = x.used /\ x.used < x.top
      /\ IsMemory(n) /\ n.ok = TRUE /\ n.top = x.top /\ n.used = x.used + 1
      /\ n.table = [x.table EXCEPT ![x.used] = Absent]
  <2> DEFINE u == Take(x)
  <2>1. /\ NextFrame(x) = x.used /\ x.used < x.top
        /\ u.ok = TRUE /\ u.used = x.used + 1 /\ u.top = x.top
        /\ u.table = x.table /\ IsMemory(u)
    BY <1>5, TakeFrame
  <2>. HIDE DEF u
  <2>2. Touch(u, NextFrame(x)) = u
    BY <1>2, <2>1, Constants DEF Touch, Ptbl
  <2>3. n = [u EXCEPT !.table[x.used] = Absent]
    BY <2>1, <2>2 DEF vm_alloc_pte, u
  <2>. HIDE DEF n
  <2>. QED
    BY <2>1, <2>3 DEF IsMemory
<1>. HIDE DEF n
<1>7. /\ IsMemory(s) /\ s.ok = TRUE /\ s.top = x.top /\ s.used = x.used + 1
      /\ s.table = [n.table EXCEPT ![Pdir] =
                       Put(@, PDIRE(va), Entry(x.used, TRUE))]
  <2> DEFINE v == Put(n.table[Pdir], PDIRE(va), Entry(x.used, TRUE))
             o == [n EXCEPT !.table[Pdir] = v]
  <2>. HIDE DEF v
  <2>1. s = [o EXCEPT !.cache = o.cache]
    BY <1>6 DEF IsMemory, v
  <2>2. /\ IsMemory(o) /\ o.ok = n.ok /\ o.top = n.top /\ o.used = n.used
        /\ o.table = [n.table EXCEPT ![Pdir] = v]
    BY <1>6 DEF IsMemory
  <2>. HIDE DEF o, s
  <2>3. s = o
    BY <2>1, <2>2 DEF IsMemory
  <2>. QED
    BY <1>6, <2>2, <2>3 DEF v
<1>. HIDE DEF s
<1>8. With(x, g, va) = [s EXCEPT !.table[x.used] = Put(@, PTBLE(va), e)]
  BY <1>3, <1>4, <1>6
<1>9. /\ IsMemory(With(x, g, va))
      /\ With(x, g, va).ok = TRUE
      /\ With(x, g, va).top = x.top /\ With(x, g, va).used = x.used + 1
      /\ With(x, g, va).table = [s.table EXCEPT ![x.used] = Put(@, PTBLE(va), e)]
  BY <1>7, <1>8 DEF IsMemory
<1>10. [s.table EXCEPT ![x.used] = Put(@, PTBLE(va), e)] = InNewTable(x, g, va)
  <2>1. x.used \in 0 .. x.top - 1 /\ Pdir \in 0 .. x.top - 1 /\ x.used # Pdir
    BY <1>2, <1>6, Constants DEF Ptbl, Pdir
  <2>2. s.table[x.used] = Absent
    BY <1>2, <1>6, <1>7, <2>1
  <2>. QED
    BY <1>2, <1>6, <1>7, <2>1, <2>2 DEF InNewTable
<1>. QED
  BY <1>6, <1>9, <1>10

(* Two pages differ in their directory entry or in their table entry. *)
LEMMA OtherPage ==
    ASSUME NEW p \in Nat, NEW q \in Nat, p # q, PDIRE(p) = PDIRE(q)
    PROVE  PTBLE(p) # PTBLE(q)
BY ZenonT(60), Constants, Parts DEF PDIRE, PTBLE

(* Mapping a page in a table that is there. *)
LEMMA InTableResult ==
    ASSUME NEW x, TablesInv(x), NEW g \in 0 .. x.used - 1, NEW va \in Nat,
           PDIRE(va) \in DOMAIN x.table[Pdir]
    PROVE  /\ TablesInv(With(x, g, va))
           /\ Mapped(With(x, g, va), Pdir, va)
           /\ FrameAt(With(x, g, va), Pdir, va) = g
           /\ \A p \in Nat : p # va =>
                /\ Mapped(With(x, g, va), Pdir, p) <=> Mapped(x, Pdir, p)
                /\ Mapped(x, Pdir, p) =>
                      FrameAt(With(x, g, va), Pdir, p) = FrameAt(x, Pdir, p)
<1> DEFINE r == With(x, g, va)
           dir == x.table[Pdir]
           d == PDIRE(va)
           T == dir[d].frame
           N == Put(x.table[T], PTBLE(va), Entry(g, TRUE))
<1>1. /\ IsMemory(r) /\ r.ok = TRUE /\ r.top = x.top /\ r.used = x.used
      /\ r.table = [x.table EXCEPT ![T] = N]
  <2>1. /\ IsMemory(r) /\ r.ok = TRUE /\ r.top = x.top /\ r.used = x.used
        /\ r.table = InTableOf(x, g, va)
    BY MapsInTable
  <2>. QED
    BY <2>1 DEF InTableOf
<1>2. /\ x.top \in Nat /\ x.used \in Ptbl + 1 .. x.top /\ x.top <= KHEAP
      /\ DOMAIN x.table = 0 .. x.top - 1
      /\ x.table = [f \in 0 .. x.top - 1 |-> x.table[f]]
  BY DEF TablesInv
<1>3. /\ \A a \in DOMAIN dir : dir[a].frame \in Ptbl .. x.used - 1
      /\ \A a, b \in DOMAIN dir : a # b => dir[a].frame # dir[b].frame
      /\ \A a \in DOMAIN dir : \A y \in DOMAIN x.table[dir[a].frame] :
            x.table[dir[a].frame][y].frame \in 0 .. x.used - 1
  BY DEF TablesInv
<1>4. x.used <= x.top /\ g \in Nat /\ g < x.used
  BY <1>2, Constants DEF Ptbl
<1>. HIDE DEF r, T, d
<1>5. /\ DOMAIN N = {PTBLE(va)} \cup DOMAIN x.table[T]
      /\ N[PTBLE(va)] = Entry(g, TRUE)
      /\ \A y \in DOMAIN x.table[T] : y # PTBLE(va) => N[y] = x.table[T][y]
  <2> DEFINE t == x.table[T]
             y0 == PTBLE(va)
             e == Entry(g, TRUE)
  <2>. HIDE DEF t, y0, e
  <2>1. /\ DOMAIN Put(t, y0, e) = {y0} \cup DOMAIN t
        /\ Put(t, y0, e)[y0] = e
        /\ \A y \in DOMAIN t : y # y0 => Put(t, y0, e)[y] = t[y]
    BY DEF Put, Over
  <2>. QED
    BY <2>1 DEF t, y0, e, N
<1>. HIDE DEF N
<1>9. T = dir[d].frame /\ d \in DOMAIN dir
  BY DEF T, d
<1>10. dir = x.table[Pdir]
  OBVIOUS
<1>. HIDE DEF dir, d
<1>6. T \in Ptbl .. x.used - 1 /\ T \in 0 .. x.top - 1 /\ T # Pdir
      /\ Pdir \in 0 .. x.top - 1
  <2>1. T \in Ptbl .. x.used - 1
    BY <1>3, <1>9
  <2>. QED
    BY <2>1, <1>2, <1>4, Constants DEF Ptbl, Pdir
<1>7. r.table[Pdir] = dir /\ r.table[T] = N
  BY <1>1, <1>2, <1>6, <1>10
<1>8. \A a \in DOMAIN dir : a # d => r.table[dir[a].frame] = x.table[dir[a].frame]
  <2>. SUFFICES ASSUME NEW a \in DOMAIN dir, a # d
                PROVE  r.table[dir[a].frame] = x.table[dir[a].frame]
    OBVIOUS
  <2> DEFINE f == dir[a].frame
  <2>1. f \in Ptbl .. x.used - 1 /\ f # T
    BY <1>3, <1>9
  <2>. HIDE DEF f
  <2>2. f \in 0 .. x.top - 1
    BY <2>1, <1>2, <1>4, Constants DEF Ptbl
  <2>3. r.table[f] = x.table[f]
    BY <1>1, <1>2, <2>1, <2>2
  <2>. QED
    BY <2>3 DEF f
<1>11. TablesInv(r)
  <2>1. r.used \in Ptbl + 1 .. r.top /\ r.top <= KHEAP /\ r.top \in Nat
    BY <1>1, <1>2, <1>4, Constants DEF Ptbl
  <2>2. /\ DOMAIN r.table = 0 .. r.top - 1
        /\ r.table = [f \in 0 .. r.top - 1 |-> r.table[f]]
    BY <1>1, <1>2
  <2>3. \A a \in DOMAIN dir : dir[a].frame \in Ptbl .. r.used - 1
    BY <1>1, <1>2, <1>3, Constants DEF Ptbl
  <2>4. ASSUME NEW a \in DOMAIN dir, NEW y \in DOMAIN r.table[dir[a].frame]
        PROVE  r.table[dir[a].frame][y].frame \in 0 .. r.used - 1
    <3>1. CASE a = d
      <4>1. y \in DOMAIN N /\ r.table[dir[a].frame] = N
        BY <2>4, <3>1, <1>7, <1>9
      <4>2. CASE y = PTBLE(va)
        BY <4>1, <4>2, <1>1, <1>2, <1>4, <1>5, Constants DEF Ptbl, Entry
      <4>3. CASE y # PTBLE(va)
        <5>1. y \in DOMAIN x.table[T] /\ N[y] = x.table[T][y]
          BY <4>1, <4>3, <1>5
        <5>2. x.table[T][y].frame \in 0 .. x.used - 1
          BY <5>1, <1>3, <1>9
        <5>. QED
          BY <4>1, <5>1, <5>2, <1>1, <1>2, Constants DEF Ptbl
      <4>. QED
        BY <4>2, <4>3
    <3>2. CASE a # d
      <4>1. r.table[dir[a].frame] = x.table[dir[a].frame]
        BY <3>2, <1>8
      <4>2. x.table[dir[a].frame][y].frame \in 0 .. x.used - 1
        BY <2>4, <4>1, <1>3
      <4>. QED
        BY <4>1, <4>2, <1>1, <1>2, Constants DEF Ptbl
    <3>. QED
      BY <3>1, <3>2
  <2>5. \A a, b \in DOMAIN dir : a # b => dir[a].frame # dir[b].frame
    BY <1>3
  <2>6. \A a \in DOMAIN r.table[Pdir] :
           LET t == r.table[r.table[Pdir][a].frame]
           IN  \A y \in DOMAIN t : t[y].frame \in 0 .. r.used - 1
    BY <1>7, <2>4
  <2>7. /\ \A a \in DOMAIN r.table[Pdir] :
              r.table[Pdir][a].frame \in Ptbl .. r.used - 1
        /\ \A a, b \in DOMAIN r.table[Pdir] :
              a # b => r.table[Pdir][a].frame # r.table[Pdir][b].frame
    BY <1>7, <2>3, <2>5
  <2>8. IsMemory(r) /\ r.ok = TRUE
    BY <1>1
  <2>. QED
    BY <2>1, <2>2, <2>6, <2>7, <2>8 DEF TablesInv
<1>12. Mapped(r, Pdir, va) /\ FrameAt(r, Pdir, va) = g
  BY <1>5, <1>7, <1>9 DEF Mapped, FrameAt, Entry, d
<1>13. ASSUME NEW p \in Nat, p # va
       PROVE  /\ Mapped(r, Pdir, p) <=> Mapped(x, Pdir, p)
              /\ Mapped(x, Pdir, p) => FrameAt(r, Pdir, p) = FrameAt(x, Pdir, p)
  <2>1. CASE PDIRE(p) = d
    <3>1. PTBLE(p) # PTBLE(va)
      BY <1>13, <2>1, OtherPage DEF d
    <3>. QED
      BY <2>1, <3>1, <1>5, <1>7, <1>9, <1>10 DEF Mapped, FrameAt
  <2>2. CASE PDIRE(p) # d
    BY <2>2, <1>7, <1>8, <1>10 DEF Mapped, FrameAt
  <2>. QED
    BY <2>1, <2>2
<1>. QED
  BY <1>11, <1>12, <1>13 DEF r

(* Mapping a page that gets a table. *)
LEMMA NewTableResult ==
    ASSUME NEW x, TablesInv(x), NEW g \in 0 .. x.used - 1, NEW va \in Nat,
           PDIRE(va) \notin DOMAIN x.table[Pdir],
           With(x, g, va).ok
    PROVE  /\ TablesInv(With(x, g, va))
           /\ Mapped(With(x, g, va), Pdir, va)
           /\ FrameAt(With(x, g, va), Pdir, va) = g
           /\ \A p \in Nat : p # va =>
                /\ Mapped(With(x, g, va), Pdir, p) <=> Mapped(x, Pdir, p)
                /\ Mapped(x, Pdir, p) =>
                      FrameAt(With(x, g, va), Pdir, p) = FrameAt(x, Pdir, p)
<1> DEFINE r == With(x, g, va)
           dir == x.table[Pdir]
           d == PDIRE(va)
           y0 == PTBLE(va)
           u1 == x.used
           D == Put(dir, d, Entry(u1, TRUE))
           N == Put(Absent, y0, Entry(g, TRUE))
<1>1. /\ IsMemory(r) /\ r.ok = TRUE /\ r.top = x.top /\ r.used = x.used + 1
      /\ r.table = [[x.table EXCEPT ![Pdir] = D] EXCEPT ![u1] = N]
      /\ u1 < x.top
  <2>1. /\ IsMemory(r) /\ r.ok = TRUE /\ r.top = x.top /\ r.used = x.used + 1
        /\ r.table = InNewTable(x, g, va)
        /\ u1 < x.top
    BY MapsInNewTable
  <2>. QED
    BY <2>1 DEF InNewTable
<1>2. /\ x.top \in Nat /\ x.used \in Ptbl + 1 .. x.top /\ x.top <= KHEAP
      /\ DOMAIN x.table = 0 .. x.top - 1
      /\ x.table = [f \in 0 .. x.top - 1 |-> x.table[f]]
  BY DEF TablesInv
<1>3. /\ \A a \in DOMAIN dir : dir[a].frame \in Ptbl .. x.used - 1
      /\ \A a, b \in DOMAIN dir : a # b => dir[a].frame # dir[b].frame
      /\ \A a \in DOMAIN dir : \A y \in DOMAIN x.table[dir[a].frame] :
            x.table[dir[a].frame][y].frame \in 0 .. x.used - 1
  BY DEF TablesInv
<1>4. dir = x.table[Pdir] /\ d \notin DOMAIN dir
  OBVIOUS
<1>5. d = PDIRE(va) /\ y0 = PTBLE(va)
  OBVIOUS
<1>. HIDE DEF r, dir, d, y0
<1>6. /\ DOMAIN D = {d} \cup DOMAIN dir
      /\ D[d].frame = u1
      /\ \A a \in DOMAIN dir : D[a] = dir[a] /\ a # d
  BY <1>4 DEF Put, Over, Entry
<1>7. DOMAIN N = {y0} /\ N[y0].frame = g
  BY DEF Put, Over, Entry, Absent
<1>. HIDE DEF D, N
<1>8. u1 \in 0 .. x.top - 1 /\ Pdir \in 0 .. x.top - 1 /\ Pdir # u1
  BY <1>1, <1>2, Constants DEF Ptbl, Pdir
<1>9. r.table[Pdir] = D /\ r.table[u1] = N
  BY <1>1, <1>2, <1>8
<1>10. \A a \in DOMAIN dir : r.table[dir[a].frame] = x.table[dir[a].frame]
  <2>. SUFFICES ASSUME NEW a \in DOMAIN dir
                PROVE  r.table[dir[a].frame] = x.table[dir[a].frame]
    OBVIOUS
  <2> DEFINE f == dir[a].frame
  <2>1. f \in Ptbl .. x.used - 1
    BY <1>3
  <2>. HIDE DEF f
  <2>2. f \in 0 .. x.top - 1 /\ f # Pdir /\ f # u1
    BY <2>1, <1>2, Constants DEF Ptbl, Pdir
  <2>3. r.table[f] = x.table[f]
    BY <1>1, <1>2, <2>2
  <2>. QED
    BY <2>3 DEF f
<1>11. TablesInv(r)
  <2>1. r.used \in Ptbl + 1 .. r.top /\ r.top <= KHEAP /\ r.top \in Nat
    BY <1>1, <1>2, Constants DEF Ptbl
  <2>2. /\ DOMAIN r.table = 0 .. r.top - 1
        /\ r.table = [f \in 0 .. r.top - 1 |-> r.table[f]]
    BY <1>1, <1>2
  <2>3. \A a \in DOMAIN D : D[a].frame \in Ptbl .. r.used - 1
    <3>1. u1 \in Ptbl .. r.used - 1
      BY <1>1, <1>2, Constants DEF Ptbl
    <3>2. \A a \in DOMAIN dir : dir[a].frame \in Ptbl .. r.used - 1
      BY <1>1, <1>2, <1>3, Constants DEF Ptbl
    <3>. QED
      BY <1>6, <3>1, <3>2
  <2>4. \A a, b \in DOMAIN D : a # b => D[a].frame # D[b].frame
    <3>1. \A a \in DOMAIN dir : dir[a].frame # u1
      BY <1>2, <1>3, Constants DEF Ptbl
    <3>. QED
      BY <1>3, <1>6, <3>1
  <2>5. ASSUME NEW a \in DOMAIN D, NEW y \in DOMAIN r.table[D[a].frame]
        PROVE  r.table[D[a].frame][y].frame \in 0 .. r.used - 1
    <3>1. CASE a = d
      <4>1. r.table[D[a].frame] = N
        BY <3>1, <1>6, <1>9
      <4>2. r.table[D[a].frame][y].frame = g
        BY <4>1, <2>5, <1>7
      <4>. QED
        BY <4>2, <1>1, <1>2, Constants DEF Ptbl
    <3>2. CASE a # d
      <4>1. a \in DOMAIN dir /\ D[a] = dir[a]
        BY <3>2, <1>6
      <4>2. r.table[D[a].frame] = x.table[dir[a].frame]
        BY <4>1, <1>10
      <4>3. x.table[dir[a].frame][y].frame \in 0 .. x.used - 1
        BY <2>5, <4>1, <4>2, <1>3
      <4>. QED
        BY SMTT(30), <4>2, <4>3, <1>1, <1>2, Constants DEF Ptbl
    <3>. QED
      BY <3>1, <3>2
  <2>6. \A a \in DOMAIN r.table[Pdir] :
           LET t == r.table[r.table[Pdir][a].frame]
           IN  \A y \in DOMAIN t : t[y].frame \in 0 .. r.used - 1
    BY <1>9, <2>5
  <2>7. /\ \A a \in DOMAIN r.table[Pdir] :
              r.table[Pdir][a].frame \in Ptbl .. r.used - 1
        /\ \A a, b \in DOMAIN r.table[Pdir] :
              a # b => r.table[Pdir][a].frame # r.table[Pdir][b].frame
    BY <1>9, <2>3, <2>4
  <2>8. IsMemory(r) /\ r.ok = TRUE
    BY <1>1
  <2>. QED
    BY <2>1, <2>2, <2>6, <2>7, <2>8 DEF TablesInv
<1>12. Mapped(r, Pdir, va) /\ FrameAt(r, Pdir, va) = g
  BY <1>5, <1>6, <1>7, <1>9 DEF Mapped, FrameAt
<1>13. ASSUME NEW p \in Nat, p # va
       PROVE  /\ Mapped(r, Pdir, p) <=> Mapped(x, Pdir, p)
              /\ Mapped(x, Pdir, p) => FrameAt(r, Pdir, p) = FrameAt(x, Pdir, p)
  <2>1. CASE PDIRE(p) = d
    <3>1. PTBLE(p) # PTBLE(va)
      BY <1>5, <1>13, <2>1, OtherPage
    <3>2. ~Mapped(r, Pdir, p)
      BY <2>1, <3>1, <1>5, <1>6, <1>7, <1>9 DEF Mapped
    <3>3. ~Mapped(x, Pdir, p)
      BY <2>1, <1>4 DEF Mapped
    <3>. QED
      BY <3>2, <3>3
  <2>2. CASE PDIRE(p) # d
    <3>1. PDIRE(p) \in DOMAIN D <=> PDIRE(p) \in DOMAIN dir
      BY <2>2, <1>6
    <3>. QED
      BY <3>1, <1>4, <1>6, <1>9, <1>10 DEF Mapped, FrameAt
  <2>. QED
    BY <2>1, <2>2
<1>. QED
  BY <1>11, <1>12, <1>13 DEF r

(* vm_map_page for a page of the program maps it to the frame that it is given,
   and every other page stays as it was. *)
LEMMA Maps ==
    ASSUME NEW x, TablesInv(x), NEW g \in 0 .. x.used - 1, NEW va \in Nat,
           With(x, g, va).ok
    PROVE  /\ TablesInv(With(x, g, va))
           /\ With(x, g, va).top = x.top
           /\ With(x, g, va).used \in x.used .. x.used + 1
           /\ Mapped(With(x, g, va), Pdir, va)
           /\ FrameAt(With(x, g, va), Pdir, va) = g
           /\ \A p \in Nat : p # va =>
                /\ Mapped(With(x, g, va), Pdir, p) <=> Mapped(x, Pdir, p)
                /\ Mapped(x, Pdir, p) =>
                      FrameAt(With(x, g, va), Pdir, p) = FrameAt(x, Pdir, p)
<1>1. x.used \in Nat
  <2>1. x.used \in Ptbl + 1 .. x.top /\ x.top \in Nat
    BY DEF TablesInv
  <2>. QED
    BY <2>1, Constants DEF Ptbl
<1>2. With(x, g, va).top = x.top /\ With(x, g, va).used \in x.used .. x.used + 1
  <2>1. CASE PDIRE(va) \in DOMAIN x.table[Pdir]
    <3>1. With(x, g, va).top = x.top /\ With(x, g, va).used = x.used
      BY <2>1, MapsInTable
    <3>. QED
      BY <1>1, <3>1
  <2>2. CASE PDIRE(va) \notin DOMAIN x.table[Pdir]
    <3>1. With(x, g, va).top = x.top /\ With(x, g, va).used = x.used + 1
      BY <2>2, MapsInNewTable
    <3>. QED
      BY <1>1, <3>1
  <2>. QED
    BY <2>1, <2>2
<1>3. /\ TablesInv(With(x, g, va))
      /\ Mapped(With(x, g, va), Pdir, va)
      /\ FrameAt(With(x, g, va), Pdir, va) = g
      /\ \A p \in Nat : p # va =>
           /\ Mapped(With(x, g, va), Pdir, p) <=> Mapped(x, Pdir, p)
           /\ Mapped(x, Pdir, p) =>
                 FrameAt(With(x, g, va), Pdir, p) = FrameAt(x, Pdir, p)
  <2>1. CASE PDIRE(va) \in DOMAIN x.table[Pdir]
    BY <2>1, InTableResult
  <2>2. CASE PDIRE(va) \notin DOMAIN x.table[Pdir]
    BY <2>2, NewTableResult
  <2>. QED
    BY <2>1, <2>2
<1>. QED
  BY <1>2, <1>3

-----------------------------------------------------------------------------
(* The first frame that the old program does not hold. *)
FirstFree == Kernel + 2 + Cardinality(OldPages)

(* The old program's pages are an interval, and so are their frames. *)
LEMMA OldInterval ==
    \E lo, hi \in Nat :
       /\ lo <= hi /\ hi < KHALF
       /\ OldPages = lo .. hi /\ First = lo /\ FirstFree = Kernel + 3 + hi - lo
<1>1. PICK hi \in 0 .. KHALF - 1 : \E lo \in 0 .. hi : OldPages = lo .. hi
  BY ExecAssumption
<1>2. PICK lo \in 0 .. hi : OldPages = lo .. hi
  BY <1>1
<1>3. hi \in Nat /\ lo \in Nat /\ lo <= hi /\ hi < KHALF
  BY <1>1, <1>2, Constants
<1>4. First = lo
  <2>1. lo \in OldPages /\ \A q \in OldPages : lo <= q
    BY <1>2, <1>3
  <2>2. First \in OldPages /\ \A q \in OldPages : First <= q
    BY <2>1 DEF First
  <2>. QED
    BY <2>1, <2>2, <1>2, <1>3
<1>5. Cardinality(OldPages) = hi - lo + 1
  BY <1>2, <1>3, FS_Interval
<1>6. FirstFree = Kernel + 3 + hi - lo
  BY <1>3, <1>5, Constants DEF FirstFree
<1>. QED
  BY <1>2, <1>3, <1>4, <1>6

(* What follows about a page of the old program. *)
LEMMA OldFacts ==
    /\ OldPages \subseteq 0 .. KHALF - 1
    /\ FirstFree \in Nat /\ FirstFree > Kernel + 2
    /\ \A p \in OldPages : p \in Nat /\ OldFrame(p) \in Kernel + 2 .. FirstFree - 1
    /\ \A p, q \in OldPages : OldFrame(p) = OldFrame(q) => p = q
    /\ \A p, q \in OldPages, a \in Nat : p <= a /\ a <= q => a \in OldPages
<1>1. PICK lo, hi \in Nat :
         /\ lo <= hi /\ hi < KHALF
         /\ OldPages = lo .. hi /\ First = lo /\ FirstFree = Kernel + 3 + hi - lo
  BY OldInterval
<1>2. OldPages \subseteq 0 .. KHALF - 1 /\ FirstFree \in Nat /\ FirstFree > Kernel + 2
  BY <1>1, Constants
<1>3. \A p \in OldPages : p \in Nat /\ OldFrame(p) \in Kernel + 2 .. FirstFree - 1
  BY <1>1, Constants DEF OldFrame
<1>4. \A p, q \in OldPages : OldFrame(p) = OldFrame(q) => p = q
  BY <1>1, Constants DEF OldFrame
<1>5. \A p, q \in OldPages, a \in Nat : p <= a /\ a <= q => a \in OldPages
  BY <1>1
<1>. QED
  BY <1>2, <1>3, <1>4, <1>5

(* What a call is. *)
LEMMA CallFacts ==
    ASSUME NEW c \in Calls
    PROVE  /\ c.segments \in Seq([p_offset : Nat, p_vaddr : Nat, p_filesz : Nat])
           /\ c.entry \in Nat /\ c.size \in Nat \ {0} /\ c.content \in Nat
           /\ c.eip \in Nat /\ c.top \in Nat
           /\ FirstFree <= c.top /\ c.top <= KHEAP
           /\ Page(c.content) \in OldPages /\ Page(c.content + c.size - 1) \in OldPages
           /\ \A x \in DOMAIN c.segments :
                 c.segments[x].p_offset + c.segments[x].p_filesz <= c.size
BY ExecAssumption DEF FirstFree

(* Every byte of the file lies in the old program. *)
LEMMA InOldProgram ==
    ASSUME NEW c \in Calls, NEW n \in Nat, n < c.size
    PROVE  Page(c.content + n) \in OldPages
<1>1. c.content \in Nat /\ c.size \in Nat /\ c.content + n \in Nat
      /\ c.content + c.size - 1 \in Nat
      /\ c.content <= c.content + n /\ c.content + n <= c.content + c.size - 1
  BY CallFacts
<1>2. /\ Page(c.content) <= Page(c.content + n)
      /\ Page(c.content + n) <= Page(c.content + c.size - 1)
  BY <1>1, Monotone, Constants DEF Page
<1>3. Page(c.content + n) \in Nat
  BY <1>1, Parts, Constants DEF Page
<1>. QED
  BY <1>2, <1>3, OldFacts, CallFacts

-----------------------------------------------------------------------------
Mishaps == {"partial", "flushed", "overwritten"}
Bytes == [0 .. PGSIZE - 1 -> Int]

(* The types, with the page tables' shape: the old program's pages stay
   mapped, and only they are ever cached, in frames that have been handed out.
   A page that has been taken and not yet mapped is above all that are. *)
LocalsInv ==
    /\ call \in Calls
    /\ pc \in {"old", "loop", "copy", "new", "failed", "lost"}
    /\ pnum \in 1 .. Len(call.segments) + 1 /\ i \in Nat
    /\ eip \in Nat
    /\ mishap \subseteq Mishaps
MemoryInv ==
    /\ TablesInv(m)
    /\ m.top = call.top /\ FirstFree <= m.used
    /\ \A p \in OldPages : Mapped(m, Pdir, p)
    /\ ram \in [0 .. call.top - 1 -> Bytes]
    /\ pg \in 0 .. m.used - 1
CacheInv ==
    /\ DOMAIN tlb \subseteq OldPages
    /\ \A p \in DOMAIN tlb : tlb[p] \in 0 .. m.used - 1
CopyInv ==
    pc = "copy" =>
        /\ ~Finished /\ i < Segment.p_filesz /\ Page(Segment.p_vaddr + i) < KHALF
        /\ FirstFree <= pg
        /\ \A p : Mapped(m, Pdir, p) => FrameAt(m, Pdir, p) < pg
TypeInv == LocalsInv /\ MemoryInv /\ CacheInv /\ CopyInv

(* The memory that a call finds. *)
LEMMA InitTables ==
    ASSUME Init
    PROVE  /\ TablesInv(m) /\ m.top = call.top /\ m.used = FirstFree
           /\ \A p \in OldPages : /\ Mapped(m, Pdir, p)
                                  /\ FrameAt(m, Pdir, p) = OldFrame(p)
<1>1. call \in Calls
  BY DEF Init
<1> DEFINE H == Page(call.content)
           dir == [d \in {PDIRE(p) : p \in OldPages} |-> Entry(Ptbl, TRUE)]
           tab == [x \in {PTBLE(p) : p \in OldPages} |->
                      Entry(OldFrame(x + PtblSize * PDIRE(H)), TRUE)]
<1>2. /\ IsMemory(m) /\ m.ok = TRUE /\ m.top = call.top /\ m.used = FirstFree
      /\ m.table = [f \in 0 .. call.top - 1 |->
                      CASE f = Pdir -> dir [] f = Ptbl -> tab [] OTHER -> Absent]
  BY DEF Init, IsMemory, FirstFree
<1>3. call.top \in Nat /\ FirstFree <= call.top /\ call.top <= KHEAP /\ H \in OldPages
  BY <1>1, CallFacts
<1>4. /\ Pdir \in 0 .. call.top - 1 /\ Ptbl \in 0 .. call.top - 1 /\ Pdir # Ptbl
      /\ FirstFree \in Ptbl + 1 .. call.top
  BY <1>3, OldFacts, Constants DEF Ptbl, Pdir
<1>5. \A p \in OldPages : PDIRE(p) = PDIRE(H) /\ PTBLE(p) + PtblSize * PDIRE(H) = p
  <2>. SUFFICES ASSUME NEW p \in OldPages
                PROVE  PDIRE(p) = PDIRE(H) /\ PTBLE(p) + PtblSize * PDIRE(H) = p
    OBVIOUS
  <2>1. PDIRE(p) = PDIRE(H)
    BY <1>3, ExecAssumption
  <2>2. p \in Nat
    BY OldFacts
  <2>3. p = PtblSize * PDIRE(p) + PTBLE(p) /\ PDIRE(p) \in Nat /\ PTBLE(p) \in Nat
    <3>1. /\ p % PtblSize \in 0 .. PtblSize - 1 /\ p \div PtblSize \in Nat
          /\ p = PtblSize * (p \div PtblSize) + (p % PtblSize)
      BY <2>2, Parts, Constants
    <3>. QED
      BY <3>1, Constants DEF PDIRE, PTBLE
  <2>4. PTBLE(p) + PtblSize * PDIRE(p) = p
    BY <2>3, Constants
  <2>. QED
    BY <2>1, <2>4
<1>. HIDE DEF H
<1>6. \A p \in OldPages : PTBLE(p) \in DOMAIN tab /\ tab[PTBLE(p)].frame = OldFrame(p)
  BY <1>5 DEF Entry
<1>7. \A y \in DOMAIN tab : tab[y].frame \in 0 .. FirstFree - 1
  <2>. SUFFICES ASSUME NEW p \in OldPages PROVE tab[PTBLE(p)].frame \in 0 .. FirstFree - 1
    OBVIOUS
  <2>1. tab[PTBLE(p)].frame = OldFrame(p)
    BY <1>6
  <2>. HIDE DEF tab
  <2>. QED
    BY <2>1, OldFacts, Constants
<1>8. /\ \A d \in DOMAIN dir : d = PDIRE(H) /\ dir[d].frame = Ptbl
      /\ \A p \in OldPages : PDIRE(p) \in DOMAIN dir
  BY <1>5 DEF Entry
<1>. HIDE DEF dir, tab
<1>9. m.table[Pdir] = dir /\ m.table[Ptbl] = tab
  BY <1>2, <1>4
<1>10. \A p \in OldPages : Mapped(m, Pdir, p) /\ FrameAt(m, Pdir, p) = OldFrame(p)
  BY <1>6, <1>8, <1>9 DEF Mapped, FrameAt
<1>11. TablesInv(m)
  <2>1. m.top \in Nat /\ m.used \in Ptbl + 1 .. m.top /\ m.top <= KHEAP
    BY <1>2, <1>3, <1>4
  <2>2. /\ DOMAIN m.table = 0 .. m.top - 1
        /\ m.table = [f \in 0 .. m.top - 1 |-> m.table[f]]
    BY <1>2
  <2>3. Ptbl \in Ptbl .. m.used - 1
    BY <2>1, Constants DEF Ptbl
  <2>4. /\ \A d \in DOMAIN m.table[Pdir] : m.table[Pdir][d].frame \in Ptbl .. m.used - 1
        /\ \A d, e \in DOMAIN m.table[Pdir] :
              d # e => m.table[Pdir][d].frame # m.table[Pdir][e].frame
    BY <1>8, <1>9, <2>3
  <2>5. \A d \in DOMAIN m.table[Pdir] :
           LET t == m.table[m.table[Pdir][d].frame]
           IN  \A y \in DOMAIN t : t[y].frame \in 0 .. m.used - 1
    BY <1>2, <1>7, <1>8, <1>9
  <2>6. IsMemory(m) /\ m.ok = TRUE
    BY <1>2
  <2>. QED
    BY <2>1, <2>2, <2>4, <2>5, <2>6 DEF TablesInv
<1>. QED
  BY <1>2, <1>10, <1>11

(* The bytes that a call finds. *)
LEMMA InitBytes ==
    ASSUME Init
    PROVE  /\ ram \in [0 .. call.top - 1 -> Bytes]
           /\ \A p \in OldPages, b \in 0 .. PGSIZE - 1 :
                 ram[OldFrame(p)][b] = FileByte(call, PGSIZE * p + b)
<1>1. call \in Calls
  BY DEF Init
<1>2. call.content \in Nat /\ call.top \in Nat /\ FirstFree <= call.top
  BY <1>1, CallFacts
<1> DEFINE at(f) == CHOOSE p \in OldPages : f = OldFrame(p)
<1>3. ram = [f \in 0 .. call.top - 1 |->
               [b \in 0 .. PGSIZE - 1 |->
                  IF \E p \in OldPages : f = OldFrame(p)
                    THEN FileByte(call, b + PGSIZE * at(f)) ELSE Zero]]
  BY DEF Init
<1>4. \A p \in OldPages : at(OldFrame(p)) = p
  BY OldFacts
<1>5. \A f : (\E p \in OldPages : f = OldFrame(p)) => at(f) \in OldPages
  OBVIOUS
<1>. HIDE DEF at
<1>6. \A p \in OldPages, b \in 0 .. PGSIZE - 1 : FileByte(call, b + PGSIZE * p) \in Int
  <2>. SUFFICES ASSUME NEW p \in OldPages, NEW b \in 0 .. PGSIZE - 1
                PROVE  FileByte(call, b + PGSIZE * p) \in Int
    OBVIOUS
  <2> DEFINE a == b + PGSIZE * p
  <2>1. a \in Int
    BY OldFacts, Constants
  <2>. HIDE DEF a
  <2>2. FileByte(call, a) \in Int
    BY <2>1, <1>2 DEF FileByte, Byte, Old
  <2>. QED
    BY <2>2 DEF a
<1>7. ram \in [0 .. call.top - 1 -> Bytes]
  BY <1>3, <1>5, <1>6 DEF Bytes, Zero
<1>8. ASSUME NEW p \in OldPages, NEW b \in 0 .. PGSIZE - 1
      PROVE  ram[OldFrame(p)][b] = FileByte(call, PGSIZE * p + b)
  <2>1. OldFrame(p) \in 0 .. call.top - 1
    BY <1>2, OldFacts, Constants
  <2>2. ram[OldFrame(p)][b] = FileByte(call, b + PGSIZE * p)
    BY <1>3, <1>4, <2>1
  <2>3. b + PGSIZE * p = PGSIZE * p + b
    BY OldFacts, Constants
  <2>. QED
    BY <2>2, <2>3
<1>. QED
  BY <1>7, <1>8

(* The types hold when exec is called. *)
LEMMA TypeInit == Init => TypeInv
<1>. SUFFICES ASSUME Init PROVE TypeInv
  OBVIOUS
<1>1. call \in Calls
  BY DEF Init
<1>2. LocalsInv
  <2>1. Len(call.segments) \in Nat /\ call.eip \in Nat
    BY <1>1, CallFacts
  <2>. QED
    BY <1>1, <2>1 DEF Init, LocalsInv
<1>3. MemoryInv
  <2>1. pg = 0 /\ m.used = FirstFree
    BY InitTables DEF Init, Null
  <2>. QED
    BY <2>1, InitTables, InitBytes, OldFacts, Constants DEF MemoryInv
<1>4. CacheInv
  <2>1. PICK cached \in SUBSET OldPages : tlb = [p \in cached |-> OldFrame(p)]
    BY DEF Init
  <2>2. m.used = FirstFree
    BY InitTables
  <2>. QED
    BY <2>1, <2>2, OldFacts, Constants DEF CacheInv
<1>5. CopyInv
  BY DEF CopyInv, Init
<1>. QED
  BY <1>2, <1>3, <1>4, <1>5 DEF TypeInv

-----------------------------------------------------------------------------
(* The frame of a page that is mapped. *)
LEMMA MappedFrame ==
    ASSUME NEW x, TablesInv(x), NEW p, Mapped(x, Pdir, p)
    PROVE  FrameAt(x, Pdir, p) \in 0 .. x.used - 1
BY DEF TablesInv, Mapped, FrameAt

(* The processor finds a frame that has been handed out for every page of the
   old program. *)
LEMMA TranslationType ==
    ASSUME TypeInv, NEW p \in OldPages
    PROVE  /\ Translation(p) \in 0 .. m.used - 1
           /\ Translation(p) \in 0 .. call.top - 1
<1>1. Translation(p) \in 0 .. m.used - 1
  <2>1. FrameAt(m, Pdir, p) \in 0 .. m.used - 1
    BY MappedFrame DEF TypeInv, MemoryInv
  <2>. QED
    BY <2>1 DEF TypeInv, CacheInv, Translation
<1>2. m.used \in Ptbl + 1 .. m.top /\ m.top = call.top /\ m.top \in Nat
  BY DEF TypeInv, MemoryInv, TablesInv
<1>3. m.used <= call.top /\ m.used \in Int /\ call.top \in Int
  BY <1>2, Constants DEF Ptbl
<1>. QED
  BY <1>1, <1>3

(* What the processor reads from the old program's pages is a byte. *)
LEMMA SeenType ==
    ASSUME TypeInv, NEW addr \in Nat, Page(addr) \in OldPages
    PROVE  Seen(addr) \in Int
<1>1. Translation(Page(addr)) \in 0 .. call.top - 1
  BY TranslationType
<1>2. addr % PGSIZE \in 0 .. PGSIZE - 1
  BY Parts, Constants
<1>. QED
  BY <1>1, <1>2 DEF TypeInv, MemoryInv, Seen, Bytes

(* The pages of a part of the file. *)
LEMMA PartOfFile ==
    ASSUME call \in Calls, NEW from \in Nat, NEW n \in Nat, from + n <= call.size
    PROVE  /\ FilePages(from, n) \subseteq OldPages
           /\ \A k \in 0 .. n - 1 : Page(call.content + from + k) \in FilePages(from, n)
<1>1. call.content \in Nat /\ call.size \in Nat
  BY CallFacts
<1>2. ASSUME NEW k \in 0 .. n - 1 PROVE Page(call.content + from + k) \in OldPages
  <2>1. from + k \in Nat /\ from + k < call.size
    BY <1>1
  <2>2. Page(call.content + (from + k)) \in OldPages
    BY <2>1, InOldProgram
  <2>3. call.content + (from + k) = call.content + from + k
    BY <1>1
  <2>. QED
    BY <2>2, <2>3
<1>. QED
  BY <1>2 DEF FilePages

(* The header is in the file's first page. *)
LEMMA HeaderPage ==
    ASSUME call \in Calls
    PROVE  FilePages(0, 1) = {Page(call.content)} /\ Page(call.content) \in OldPages
<1>1. call.content \in Nat
  BY CallFacts
<1>2. call.content + 0 + 0 = call.content /\ 0 .. 1 - 1 = {0}
  BY <1>1
<1>. QED
  BY <1>2, CallFacts DEF FilePages

(* The bytes of a turn of the inner loop are in the file. *)
LEMMA TurnFacts ==
    ASSUME LocalsInv, ~Finished, i < Segment.p_filesz
    PROVE  /\ Segment \in [p_offset : Nat, p_vaddr : Nat, p_filesz : Nat]
           /\ pnum \in DOMAIN call.segments
           /\ Count \in 1 .. PGSIZE /\ Source \in Nat
           /\ Source + Count <= call.size
           /\ FilePages(Source, Count) \subseteq OldPages
           /\ \A k \in 0 .. Count - 1 :
                 Page(call.content + Source + k) \in FilePages(Source, Count)
<1>1. call \in Calls /\ pnum \in 1 .. Len(call.segments) + 1 /\ i \in Nat
  BY DEF LocalsInv
<1>2. call.segments \in Seq([p_offset : Nat, p_vaddr : Nat, p_filesz : Nat])
  BY <1>1, CallFacts
<1>3. Len(call.segments) \in Nat /\ DOMAIN call.segments = 1 .. Len(call.segments)
  BY <1>2
<1>4. pnum \in DOMAIN call.segments
  BY <1>1, <1>3 DEF Finished
<1>5. Segment \in [p_offset : Nat, p_vaddr : Nat, p_filesz : Nat]
  <2> DEFINE S == [p_offset : Nat, p_vaddr : Nat, p_filesz : Nat]
  <2>1. call.segments \in Seq(S)
    BY <1>2
  <2>. HIDE DEF S
  <2>2. call.segments[pnum] \in S
    BY <2>1, <1>4
  <2>. QED
    BY <2>2 DEF S, Segment
<1>6. Segment.p_offset + Segment.p_filesz <= call.size /\ call.size \in Nat
  BY <1>1, <1>4, CallFacts DEF Segment
<1>7. /\ Count \in 1 .. PGSIZE /\ Source \in Nat
      /\ Source + Count <= Segment.p_offset + Segment.p_filesz
  BY <1>1, <1>5, Constants DEF Count, Source
<1>8. Source + Count <= call.size
  BY <1>5, <1>6, <1>7, Constants
<1>9. Count \in Nat
  BY <1>7, Constants
<1>. QED
  BY <1>1, <1>4, <1>5, <1>7, <1>8, <1>9, PartOfFile

(* What is cached after pages have been read is what the processor had for
   them before. *)
LEMMA Caches ==
    ASSUME NEW pages
    PROVE  /\ DOMAIN Cache(pages) = pages \cup DOMAIN tlb
           /\ \A p \in DOMAIN Cache(pages) : Cache(pages)[p] = Translation(p)
BY DEF Cache, Over, Translation

(* A copy to frames that nobody holds leaves the others. *)
LEMMA Copies ==
    ASSUME TypeInv, pc = "copy"
    PROVE  LET new == Copied(pg * PGSIZE + Source)
           IN  /\ new \in [0 .. call.top - 1 -> Bytes]
               /\ \A f \in 0 .. pg - 1 : new[f] = ram[f]
               /\ \A k \in 0 .. Count - 1 : Source + k < PGSIZE =>
                     new[pg][Source + k] = Seen(call.content + Source + k)
<1> DEFINE to == pg * PGSIZE + Source
           new == Copied(to)
<1>1. /\ LocalsInv /\ MemoryInv /\ call \in Calls /\ TablesInv(m)
      /\ ~Finished /\ i < Segment.p_filesz
  BY DEF TypeInv, LocalsInv, MemoryInv, CopyInv
<1>2. /\ ram \in [0 .. call.top - 1 -> Bytes] /\ m.top = call.top
      /\ call.top \in Nat /\ call.content \in Nat
  BY <1>1, CallFacts DEF MemoryInv
<1>3. pg \in Nat /\ pg < call.top
  <2>1. m.used \in Ptbl + 1 .. m.top /\ pg \in 0 .. m.used - 1
    BY <1>1 DEF TablesInv, MemoryInv
  <2>. QED
    BY <2>1, <1>2, Constants DEF Ptbl
<1>5. /\ Count \in 1 .. PGSIZE /\ Source \in Nat
      /\ FilePages(Source, Count) \subseteq OldPages
      /\ \A k \in 0 .. Count - 1 :
            Page(call.content + Source + k) \in FilePages(Source, Count)
  BY <1>1, TurnFacts
<1>6. DOMAIN ram = 0 .. call.top - 1
  BY <1>2
<1>7. to = pg * PGSIZE + Source /\ to \in Nat
  BY <1>3, <1>5, Constants
<1>. HIDE DEF to
<1>8. new = [f \in 0 .. call.top - 1 |-> [b \in 0 .. PGSIZE - 1 |->
                IF f * PGSIZE + b - to \in 0 .. Count - 1
                  THEN Seen(call.content + Source + (f * PGSIZE + b - to))
                  ELSE ram[f][b]]]
  BY <1>6 DEF Copied
<1>. HIDE DEF new
<1>9. \A k \in 0 .. Count - 1 : Seen(call.content + Source + k) \in Int
  <2>. SUFFICES ASSUME NEW k \in 0 .. Count - 1
                PROVE  Seen(call.content + Source + k) \in Int
    OBVIOUS
  <2>1. call.content + Source + k \in Nat
    BY <1>2, <1>5, Constants
  <2>2. Page(call.content + Source + k) \in OldPages
    BY <1>5
  <2>. QED
    BY <2>1, <2>2, SeenType
<1>10. new \in [0 .. call.top - 1 -> Bytes]
  BY <1>2, <1>8, <1>9 DEF Bytes
<1>11. ASSUME NEW f \in 0 .. pg - 1 PROVE new[f] = ram[f]
  <2>1. f \in Nat /\ f < pg /\ f \in 0 .. call.top - 1
    BY <1>2, <1>3
  <2>2. \A b \in 0 .. PGSIZE - 1 : f * PGSIZE + b - to \notin 0 .. Count - 1
    <3>1. PGSIZE * f + PGSIZE <= PGSIZE * pg
      BY <2>1, <1>3, Multiples, Constants
    <3>2. f * PGSIZE = PGSIZE * f /\ pg * PGSIZE = PGSIZE * pg
          /\ PGSIZE * f \in Nat /\ PGSIZE * pg \in Nat
      BY <2>1, <1>3, Constants
    <3>. QED
      BY <3>1, <3>2, <1>5, <1>7, Constants
  <2>3. new[f] = [b \in 0 .. PGSIZE - 1 |-> ram[f][b]]
    BY <1>8, <2>1, <2>2
  <2>4. ram[f] \in Bytes
    BY <1>2, <2>1
  <2>. QED
    BY <2>3, <2>4 DEF Bytes
<1>12. ASSUME NEW k \in 0 .. Count - 1, Source + k < PGSIZE
       PROVE  new[pg][Source + k] = Seen(call.content + Source + k)
  <2>1. pg \in 0 .. call.top - 1 /\ Source + k \in 0 .. PGSIZE - 1
    BY <1>2, <1>3, <1>5, <1>12, Constants
  <2>2. pg * PGSIZE + (Source + k) - to = k
    <3>1. pg * PGSIZE \in Nat
      BY <1>3, Constants
    <3>. QED
      BY <3>1, <1>5, <1>7
  <2>. QED
    BY <1>8, <2>1, <2>2
<1>. QED
  BY <1>10, <1>11, <1>12 DEF new, to

-----------------------------------------------------------------------------
(* Reading pages of the old program leaves the cache well-formed. *)
LEMMA CachesOld ==
    ASSUME TypeInv, NEW pages \in SUBSET OldPages
    PROVE  /\ DOMAIN Cache(pages) \subseteq OldPages
           /\ \A p \in DOMAIN Cache(pages) : Cache(pages)[p] \in 0 .. m.used - 1
<1>1. /\ DOMAIN Cache(pages) = pages \cup DOMAIN tlb
      /\ \A p \in DOMAIN Cache(pages) : Cache(pages)[p] = Translation(p)
  BY Caches
<1>2. DOMAIN tlb \subseteq OldPages
  BY DEF TypeInv, CacheInv
<1>. QED
  BY <1>1, <1>2, TranslationType

(* The same when more frames have been handed out at the end of the step. *)
LEMMA ReadingStep ==
    ASSUME TypeInv, NEW pages \in SUBSET OldPages, tlb' = Cache(pages),
           m.used \in Nat, m.used' \in Nat, m.used <= m.used'
    PROVE  CacheInv'
<1>1. /\ DOMAIN tlb' \subseteq OldPages
      /\ \A p \in DOMAIN tlb' : tlb'[p] \in 0 .. m.used - 1
  BY CachesOld
<1>2. \A p \in DOMAIN tlb' : tlb'[p] \in 0 .. m.used' - 1
  BY <1>1
<1>. QED
  BY <1>1, <1>2 DEF CacheInv

(* What MapPage does to the memory. *)
LEMMA MapPageEffect ==
    ASSUME TypeInv, MapPage
    PROVE  LET page == Page(Segment.p_vaddr + i)
           IN  /\ page \in Nat /\ page < KHALF
               /\ m.used \in Nat /\ pg \in Nat /\ FirstFree <= pg
               /\ TablesInv(m') /\ m'.top = m.top
               /\ m'.used \in m.used .. m.used + 1
               /\ Mapped(m', Pdir, page) /\ FrameAt(m', Pdir, page) = pg
               /\ \A p \in Nat : p # page =>
                    /\ Mapped(m', Pdir, p) <=> Mapped(m, Pdir, p)
                    /\ Mapped(m, Pdir, p) =>
                          FrameAt(m', Pdir, p) = FrameAt(m, Pdir, p)
               /\ \A p : Mapped(m, Pdir, p) => FrameAt(m, Pdir, p) \in 0 .. pg - 1
               /\ ram' \in [0 .. call.top - 1 -> Bytes]
               /\ \A f \in 0 .. pg - 1 : ram'[f] = ram[f]
               /\ \A k \in 0 .. Count - 1 : Source + k < PGSIZE =>
                     ram'[pg][Source + k] = Seen(call.content + Source + k)
<1> DEFINE page == Page(Segment.p_vaddr + i)
<1>1. /\ pc = "copy" /\ ~Finished /\ i < Segment.p_filesz /\ page < KHALF
      /\ FirstFree <= pg /\ pg \in 0 .. m.used - 1
      /\ \A p : Mapped(m, Pdir, p) => FrameAt(m, Pdir, p) < pg
      /\ m' = With(m, pg, page) /\ With(m, pg, page).ok
      /\ ram' = Copied(pg * PGSIZE + Source)
      /\ TablesInv(m) /\ LocalsInv
  BY DEF MapPage, WithPage, With, TypeInv, CopyInv, MemoryInv
<1>2. page \in Nat
  <2>1. Segment.p_vaddr \in Nat /\ i \in Nat
    BY <1>1, TurnFacts DEF LocalsInv
  <2>. QED
    BY <2>1, Parts, Constants DEF Page
<1>. HIDE DEF page
<1>3. m.used \in Nat /\ pg \in Nat
  <2>1. m.used \in Ptbl + 1 .. m.top /\ m.top \in Nat
    BY <1>1 DEF TablesInv
  <2>. QED
    BY <2>1, <1>1, Constants DEF Ptbl
<1>4. /\ TablesInv(m') /\ m'.top = m.top /\ m'.used \in m.used .. m.used + 1
      /\ Mapped(m', Pdir, page) /\ FrameAt(m', Pdir, page) = pg
      /\ \A p \in Nat : p # page =>
           /\ Mapped(m', Pdir, p) <=> Mapped(m, Pdir, p)
           /\ Mapped(m, Pdir, p) => FrameAt(m', Pdir, p) = FrameAt(m, Pdir, p)
  <2> DEFINE w == With(m, pg, page)
  <2>1. /\ TablesInv(w) /\ w.top = m.top /\ w.used \in m.used .. m.used + 1
        /\ Mapped(w, Pdir, page) /\ FrameAt(w, Pdir, page) = pg
        /\ \A p \in Nat : p # page =>
             /\ Mapped(w, Pdir, p) <=> Mapped(m, Pdir, p)
             /\ Mapped(m, Pdir, p) => FrameAt(w, Pdir, p) = FrameAt(m, Pdir, p)
    BY <1>1, <1>2, Maps
  <2>2. m' = w
    BY <1>1
  <2>. HIDE DEF w
  <2>. QED
    BY <2>1, <2>2
<1>5. \A p : Mapped(m, Pdir, p) => FrameAt(m, Pdir, p) \in 0 .. pg - 1
  <2>. SUFFICES ASSUME NEW p, Mapped(m, Pdir, p)
                PROVE  FrameAt(m, Pdir, p) \in 0 .. pg - 1
    OBVIOUS
  <2>1. FrameAt(m, Pdir, p) \in 0 .. m.used - 1 /\ FrameAt(m, Pdir, p) < pg
    BY <1>1, MappedFrame
  <2>. QED
    BY <2>1, <1>3
<1>6. /\ ram' \in [0 .. call.top - 1 -> Bytes]
      /\ \A f \in 0 .. pg - 1 : ram'[f] = ram[f]
      /\ \A k \in 0 .. Count - 1 : Source + k < PGSIZE =>
            ram'[pg][Source + k] = Seen(call.content + Source + k)
  BY <1>1, Copies
<1>. QED
  BY <1>1, <1>2, <1>3, <1>4, <1>5, <1>6 DEF page

(* What TableFails does to the memory. *)
LEMMA TableFailsEffect ==
    ASSUME TypeInv, TableFails
    PROVE  /\ ram' \in [0 .. call.top - 1 -> Bytes]
           /\ \A f \in 0 .. pg - 1 : ram'[f] = ram[f]
           /\ \A p : Mapped(m, Pdir, p) => FrameAt(m, Pdir, p) \in 0 .. pg - 1
           /\ FirstFree <= pg /\ pg \in Nat
           /\ FilePages(Source, Count) \subseteq OldPages
<1>1. /\ pc = "copy" /\ ~Finished /\ i < Segment.p_filesz
      /\ FirstFree <= pg /\ pg \in 0 .. m.used - 1
      /\ \A p : Mapped(m, Pdir, p) => FrameAt(m, Pdir, p) < pg
      /\ ram' = Copied(pg * PGSIZE + Source)
      /\ TablesInv(m) /\ LocalsInv
  BY DEF TableFails, TypeInv, CopyInv, MemoryInv
<1>2. m.used \in Nat /\ pg \in Nat
  <2>1. m.used \in Ptbl + 1 .. m.top /\ m.top \in Nat
    BY <1>1 DEF TablesInv
  <2>. QED
    BY <2>1, <1>1, Constants DEF Ptbl
<1>3. \A p : Mapped(m, Pdir, p) => FrameAt(m, Pdir, p) \in 0 .. pg - 1
  <2>. SUFFICES ASSUME NEW p, Mapped(m, Pdir, p)
                PROVE  FrameAt(m, Pdir, p) \in 0 .. pg - 1
    OBVIOUS
  <2>1. FrameAt(m, Pdir, p) \in 0 .. m.used - 1 /\ FrameAt(m, Pdir, p) < pg
    BY <1>1, MappedFrame
  <2>. QED
    BY <2>1, <1>2
<1>4. /\ ram' \in [0 .. call.top - 1 -> Bytes]
      /\ \A f \in 0 .. pg - 1 : ram'[f] = ram[f]
  BY <1>1, Copies
<1>5. FilePages(Source, Count) \subseteq OldPages
  BY <1>1, TurnFacts
<1>. QED
  BY <1>1, <1>2, <1>3, <1>4, <1>5

(* A frame more is taken, for the call or for another task. *)
LEMMA TakeEffect ==
    ASSUME TypeInv, NextFrame(m) # Null, m' = Take(m)
    PROVE  /\ m.used \in Nat /\ NextFrame(m) = m.used
           /\ TablesInv(m') /\ m'.top = m.top /\ m'.table = m.table
           /\ m'.used = m.used + 1
<1>1. TablesInv(m)
  BY DEF TypeInv, MemoryInv
<1>2. /\ IsMemory(m') /\ m'.top = m.top /\ m'.table = m.table /\ m'.ok = TRUE
      /\ m'.used = m.used + 1 /\ NextFrame(m) = m.used /\ m.used < m.top
  <2> DEFINE t == Take(m)
  <2>1. /\ NextFrame(m) = m.used /\ m.used < m.top
        /\ t.ok = TRUE /\ t.used = m.used + 1 /\ t.top = m.top
        /\ t.table = m.table /\ IsMemory(t)
    BY <1>1, TakeFrame
  <2>2. m' = t
    OBVIOUS
  <2>. HIDE DEF t
  <2>. QED
    BY <2>1, <2>2
<1>3. m.used \in Nat /\ m.top \in Nat
  <2>1. m.used \in Ptbl + 1 .. m.top /\ m.top \in Nat
    BY <1>1 DEF TablesInv
  <2>. QED
    BY <2>1, Constants DEF Ptbl
<1>4. TablesInv(m')
  <2>1. /\ m.used \in Ptbl + 1 .. m.top /\ m.top <= KHEAP
        /\ \A d \in DOMAIN m.table[Pdir] :
              m.table[Pdir][d].frame \in Ptbl .. m.used - 1
        /\ \A d \in DOMAIN m.table[Pdir] :
              LET t == m.table[m.table[Pdir][d].frame]
              IN  \A y \in DOMAIN t : t[y].frame \in 0 .. m.used - 1
    BY <1>1 DEF TablesInv
  <2>2. Ptbl \in Nat
    BY Constants DEF Ptbl
  <2>3. m'.top \in Nat /\ m'.used \in Ptbl + 1 .. m'.top /\ m'.top <= KHEAP
    BY <1>2, <1>3, <2>1, <2>2
  <2>4. /\ \A n \in Ptbl .. m.used - 1 : n \in Ptbl .. m'.used - 1
        /\ \A n \in 0 .. m.used - 1 : n \in 0 .. m'.used - 1
    BY <1>2, <1>3, <2>2
  <2>5. /\ \A d \in DOMAIN m.table[Pdir] :
              m.table[Pdir][d].frame \in Ptbl .. m'.used - 1
        /\ \A d \in DOMAIN m.table[Pdir] :
              LET t == m.table[m.table[Pdir][d].frame]
              IN  \A y \in DOMAIN t : t[y].frame \in 0 .. m'.used - 1
    BY <2>1, <2>4
  <2>6. /\ DOMAIN m.table = 0 .. m.top - 1
        /\ m.table = [f \in 0 .. m.top - 1 |-> m.table[f]]
        /\ \A d, e \in DOMAIN m.table[Pdir] :
              d # e => m.table[Pdir][d].frame # m.table[Pdir][e].frame
    BY <1>1 DEF TablesInv
  <2>7. IsMemory(m') /\ m'.top = m.top /\ m'.table = m.table /\ m'.ok = TRUE
    BY <1>2
  <2>8. /\ \A d \in DOMAIN m'.table[Pdir] :
              m'.table[Pdir][d].frame \in Ptbl .. m'.used - 1
        /\ \A d \in DOMAIN m'.table[Pdir] :
              LET t == m'.table[m'.table[Pdir][d].frame]
              IN  \A y \in DOMAIN t : t[y].frame \in 0 .. m'.used - 1
    BY <2>5, <2>7
  <2>9. /\ DOMAIN m'.table = 0 .. m'.top - 1
        /\ m'.table = [f \in 0 .. m'.top - 1 |-> m'.table[f]]
        /\ \A d, e \in DOMAIN m'.table[Pdir] :
              d # e => m'.table[Pdir][d].frame # m'.table[Pdir][e].frame
    BY <2>6, <2>7
  <2>. QED
    BY ONLY <2>3, <2>7, <2>8, <2>9 DEF TablesInv
<1>. QED
  BY <1>2, <1>3, <1>4

(* The types hold after every step. *)
LEMMA TypeStep == TypeInv /\ [Next]_vars => TypeInv'
<1>. SUFFICES ASSUME TypeInv, [Next]_vars PROVE TypeInv'
  OBVIOUS
<1>1. /\ call \in Calls /\ pnum \in 1 .. Len(call.segments) + 1 /\ i \in Nat
      /\ mishap \subseteq Mishaps
      /\ LocalsInv /\ MemoryInv /\ CacheInv /\ CopyInv
  BY DEF TypeInv, LocalsInv
<1>2. Len(call.segments) \in Nat /\ call.entry \in Nat
  BY <1>1, CallFacts
<1>3. m.used \in Nat
  <2>1. m.used \in Ptbl + 1 .. m.top /\ m.top \in Nat
    BY <1>1 DEF MemoryInv, TablesInv
  <2>. QED
    BY <2>1, Constants DEF Ptbl
<1>4. FilePages(0, 1) \in SUBSET OldPages
  BY <1>1, HeaderPage
<1>5. ASSUME UNCHANGED <<call, m, ram, pg>> PROVE MemoryInv'
  BY <1>1, <1>5 DEF MemoryInv
<1>6. ASSUME UNCHANGED m, NEW pages \in SUBSET OldPages, tlb' = Cache(pages)
      PROVE  CacheInv'
  BY <1>3, <1>6, ReadingStep
<1>7. ASSUME UNCHANGED m, NEW K \in SUBSET DOMAIN tlb, tlb' = [p \in K |-> tlb[p]]
      PROVE  CacheInv'
  BY <1>1, <1>7 DEF CacheInv
<1>17. ASSUME pc' # "copy" PROVE CopyInv'
  BY <1>17 DEF CopyInv
<1>18. ASSUME UNCHANGED <<call, pc, pnum, i, pg>>, m'.table = m.table PROVE CopyInv'
  BY <1>1, <1>18 DEF CopyInv, Finished, Segment, Mapped, FrameAt, Page
<1>8. CASE ExecCall
  <2>1. LocalsInv'
    BY <1>1, <1>8 DEF ExecCall, LocalsInv
  <2>. QED
    BY <2>1, <1>4, <1>5, <1>6, <1>8, <1>17 DEF ExecCall, TypeInv
<1>9. CASE ReadNoHeader
  <2>1. LocalsInv'
    BY <1>1, <1>9 DEF ReadNoHeader, LocalsInv
  <2>2. CacheInv'
    BY <1>1, <1>9 DEF ReadNoHeader, CacheInv
  <2>. QED
    BY <2>1, <2>2, <1>5, <1>9, <1>17 DEF ReadNoHeader, TypeInv
<1>10. CASE NextSegment
  <2>1. LocalsInv'
    BY <1>1, <1>2, <1>10 DEF NextSegment, Finished, LocalsInv
  <2>. QED
    BY <2>1, <1>4, <1>5, <1>6, <1>10, <1>17 DEF NextSegment, TypeInv
<1>11. CASE MapFails
  <2>1. LocalsInv'
    BY <1>1, <1>11 DEF MapFails, Partial, LocalsInv, Mishaps
  <2>. QED
    BY <2>1, <1>4, <1>5, <1>6, <1>11, <1>17 DEF MapFails, TypeInv
<1>12. CASE TableFails
  <2>1. LocalsInv'
    BY <1>1, <1>12 DEF TableFails, Partial, LocalsInv, Mishaps
  <2>2. MemoryInv'
    BY <1>1, <1>12, TableFailsEffect DEF MemoryInv, TableFails
  <2>3. CacheInv'
    <3>1. FilePages(0, 1) \cup FilePages(Source, Count) \in SUBSET OldPages
      BY <1>4, <1>12, TableFailsEffect
    <3>. QED
      BY <3>1, <1>6, <1>12 DEF TableFails
  <2>. QED
    BY <2>1, <2>2, <2>3, <1>12, <1>17 DEF TableFails, TypeInv
<1>13. CASE MapPage
  <2>1. LocalsInv'
    <3>1. i + PGSIZE \in Nat
      BY <1>1, Constants
    <3>. QED
      BY <3>1, <1>1, <1>13 DEF MapPage, LocalsInv, Mishaps
  <2>2. /\ TablesInv(m') /\ m'.top = m.top
        /\ m'.used \in m.used .. m.used + 1
        /\ Mapped(m', Pdir, Page(Segment.p_vaddr + i))
        /\ \A p \in Nat : p # Page(Segment.p_vaddr + i) =>
             (Mapped(m', Pdir, p) <=> Mapped(m, Pdir, p))
        /\ ram' \in [0 .. call.top - 1 -> Bytes]
    BY <1>13, MapPageEffect
  <2>3. MemoryInv'
    <3>1. /\ FirstFree <= m'.used /\ m'.top = call'.top /\ call' = call
          /\ pg' \in 0 .. m'.used - 1
      BY <1>1, <1>3, <1>13, <2>2, OldFacts DEF MemoryInv, MapPage
    <3>2. \A p \in OldPages : Mapped(m', Pdir, p)
      BY <1>1, <2>2, OldFacts DEF MemoryInv
    <3>. QED
      BY <2>2, <3>1, <3>2 DEF MemoryInv
  <2>4. CacheInv'
    <3>1. FilePages(0, 1) \cup FilePages(Source, Count) \in SUBSET OldPages
      <4>1. ~Finished /\ i < Segment.p_filesz
        BY <1>1, <1>13 DEF MapPage, CopyInv
      <4>. QED
        BY <4>1, <1>1, <1>4, TurnFacts
    <3>2. m.used' \in Nat /\ m.used <= m.used'
      BY <1>3, <2>2
    <3>. QED
      BY <3>1, <3>2, <1>3, <1>13, ReadingStep DEF MapPage
  <2>. QED
    BY <2>1, <2>3, <2>4, <1>13, <1>17 DEF MapPage, TypeInv
<1>14. CASE ExecReturn
  <2>1. LocalsInv'
    <3>1. eip' \in Nat
      <4>1. eip \in Nat
        BY DEF TypeInv, LocalsInv
      <4>2. LowByte(eip) \in 0 .. Block - 1 /\ LowByte(call.entry) \in Nat
            /\ eip - LowByte(eip) \in Nat
        <5>1. /\ eip % Block \in 0 .. Block - 1 /\ call.entry % Block \in 0 .. Block - 1
              /\ eip = Block * (eip \div Block) + (eip % Block)
              /\ eip \div Block \in Nat
          BY <1>2, <4>1, Parts, Constants
        <5>2. Block * (eip \div Block) \in Nat
          BY <5>1, Constants
        <5>. QED
          BY <5>1, <5>2, <4>1, Constants DEF LowByte
      <4>. QED
        BY <4>1, <4>2, <1>14 DEF ExecReturn
    <3>. QED
      BY <3>1, <1>1, <1>14 DEF ExecReturn, LocalsInv
  <2>2. DOMAIN tlb \ {Page(call.entry)} \in SUBSET DOMAIN tlb
    OBVIOUS
  <2>. QED
    BY <2>1, <2>2, <1>5, <1>7, <1>14, <1>17 DEF ExecReturn, TypeInv
<1>15. CASE Forget
  <2>1. LocalsInv'
    BY <1>1, <1>15 DEF Forget, Flushed, LocalsInv, Mishaps
  <2>2. PICK K \in SUBSET DOMAIN tlb : tlb' = [p \in K |-> tlb[p]]
    BY <1>15 DEF Forget
  <2>. QED
    BY <2>1, <2>2, <1>5, <1>7, <1>15, <1>18 DEF Forget, TypeInv
<1>16. CASE UNCHANGED vars
  <2>1. LocalsInv' /\ MemoryInv' /\ CacheInv'
    BY <1>1, <1>16 DEF vars, LocalsInv, MemoryInv, CacheInv
  <2>. QED
    BY <2>1, <1>16, <1>18 DEF vars, TypeInv
<1>19. CASE TakePage
  <2>1. LocalsInv'
    BY <1>1, <1>19 DEF TakePage, LocalsInv
  <2>2. /\ TablesInv(m') /\ m'.top = m.top /\ m'.table = m.table
        /\ m'.used = m.used + 1 /\ pg' = m.used
    BY <1>19, TakeEffect DEF TakePage, NoPage
  <2>3. MemoryInv'
    <3>1. /\ FirstFree <= m'.used /\ m'.top = call'.top /\ call' = call /\ ram' = ram
          /\ pg' \in 0 .. m'.used - 1
      BY <1>1, <1>3, <1>19, <2>2, OldFacts DEF MemoryInv, TakePage
    <3>2. \A p \in OldPages : Mapped(m', Pdir, p)
      BY <1>1, <2>2 DEF MemoryInv, Mapped
    <3>. QED
      BY <1>1, <2>2, <3>1, <3>2 DEF MemoryInv
  <2>4. CacheInv'
    BY <1>3, <1>4, <1>19, <2>2, ReadingStep DEF TakePage
  <2>5. CopyInv'
    <3>1. /\ ~Finished' /\ (i < Segment.p_filesz)' /\ FirstFree <= pg'
          /\ (Page(Segment.p_vaddr + i))' = Page(Segment.p_vaddr + i)
      BY <1>1, <1>19, <2>2 DEF TakePage, Finished, Segment, Page, MemoryInv
    <3>2. Page(Segment.p_vaddr + i) < KHALF
      <4>1. Segment.p_vaddr \in Nat
        BY <1>1, <1>19, TurnFacts DEF TakePage
      <4>4. Segment.p_vaddr + i \in Nat
        BY <1>1, <4>1
      <4>2. Page(Segment.p_vaddr + i) \in Nat
        BY ONLY <4>4, Parts, Constants DEF Page
      <4>3. ~(Page(Segment.p_vaddr + i) >= KHALF)
        BY <1>19 DEF TakePage, NoPage
      <4>. QED
        BY <4>2, <4>3, Constants
    <3>3. ASSUME NEW p, Mapped(m', Pdir, p) PROVE FrameAt(m', Pdir, p) < pg'
      <4>1. Mapped(m, Pdir, p) /\ FrameAt(m', Pdir, p) = FrameAt(m, Pdir, p)
        BY <2>2, <3>3 DEF Mapped, FrameAt
      <4>2. FrameAt(m, Pdir, p) \in 0 .. m.used - 1
        BY <1>1, <4>1, MappedFrame DEF MemoryInv
      <4>. QED
        BY <1>3, <2>2, <4>1, <4>2
    <3>. QED
      BY <3>1, <3>2, <3>3 DEF CopyInv
  <2>. QED
    BY <2>1, <2>3, <2>4, <2>5 DEF TypeInv
<1>20. CASE OtherTakes
  <2>1. LocalsInv'
    BY <1>1, <1>20 DEF OtherTakes, Flushed, LocalsInv, Mishaps
  <2>2. /\ TablesInv(m') /\ m'.top = m.top /\ m'.table = m.table
        /\ m'.used = m.used + 1
    BY <1>20, TakeEffect DEF OtherTakes
  <2>3. MemoryInv'
    <3>1. /\ FirstFree <= m'.used /\ m'.top = call'.top /\ call' = call /\ ram' = ram
          /\ pg' \in 0 .. m'.used - 1
      BY <1>1, <1>3, <1>20, <2>2, OldFacts DEF MemoryInv, OtherTakes
    <3>2. \A p \in OldPages : Mapped(m', Pdir, p)
      BY <1>1, <2>2 DEF MemoryInv, Mapped
    <3>. QED
      BY <1>1, <2>2, <3>1, <3>2 DEF MemoryInv
  <2>4. CacheInv'
    BY <1>20 DEF OtherTakes, CacheInv, Absent
  <2>. QED
    BY <2>1, <2>2, <2>3, <2>4, <1>18, <1>20 DEF OtherTakes, TypeInv
<1>. QED
  BY <1>8, <1>9, <1>10, <1>11, <1>12, <1>13, <1>14, <1>15, <1>16,
     <1>19, <1>20 DEF Next

(* The locals of exec, the page tables and the cache have their types. *)
THEOREM TypeCorrect == Spec => []TypeOK
<1>1. TypeInv => TypeOK
  <2>. SUFFICES ASSUME TypeInv PROVE TypeOK
    OBVIOUS
  <2>1. LocalsInv /\ MemoryInv /\ CacheInv
    BY DEF TypeInv
  <2>2. m.used \in Kernel .. call.top
    <3>1. m.used \in Ptbl + 1 .. m.top /\ m.top \in Nat /\ m.top = call.top
      BY <2>1 DEF MemoryInv, TablesInv
    <3>. QED
      BY <3>1, Constants DEF Ptbl
  <2>. QED
    BY <2>1, <2>2 DEF LocalsInv, MemoryInv, CacheInv, Bytes, Mishaps, TypeOK
<1>. QED
  BY <1>1, TypeInit, TypeStep, PTL DEF Spec

(* A step that reads or writes memory leaves the frames that are held, among
   them all that a page is mapped to and those of the old program. *)
LEMMA HeldStep ==
    ASSUME TypeInv, [Next]_vars
    PROVE  \A f \in Held : f \in DOMAIN ram => ram'[f] = ram[f]
<1>1. CASE TableFails
  BY <1>1, TableFailsEffect DEF TableFails, Held
<1>2. CASE MapPage
  BY <1>2, MapPageEffect DEF MapPage, Held
<1>3. CASE ~TableFails /\ ~MapPage
  <2>1. ram' = ram
    BY <1>3 DEF Next, vars, ExecCall, ReadNoHeader, NextSegment, MapFails, TakePage,
                ExecReturn, Forget, OtherTakes
  <2>. QED
    BY <2>1
<1>. QED
  BY <1>1, <1>2, <1>3

(* Whatever is loaded, however often memory runs out on the way and whoever is
   given frames meanwhile, exec writes to no frame that someone held when it took
   its page. *)
THEOREM HeldFramesAreSafe == Spec => HeldFramesStay
<1>1. TypeInv /\ [Next]_vars =>
        [\A f \in Held : f \in DOMAIN ram => ram'[f] = ram[f]]_vars
  BY HeldStep
<1>. QED
  BY <1>1, TypeInit, TypeStep, PTL DEF Spec, HeldFramesStay

-----------------------------------------------------------------------------
(* The frames of the old program keep its bytes, and what is cached for a page
   that has not been replaced is the page's frame. *)
BytesInv == \A p \in OldPages, b \in 0 .. PGSIZE - 1 :
               ram[OldFrame(p)][b] = FileByte(call, PGSIZE * p + b)
StaleInv == \A p \in DOMAIN tlb : p \notin Replaced => tlb[p] = OldFrame(p)
OldInv == TypeInv /\ BytesInv /\ StaleInv

(* The processor finds a page that has not been replaced in its frame. *)
LEMMA FindsOld ==
    ASSUME OldInv, NEW p \in OldPages, p \notin Replaced
    PROVE  Translation(p) = OldFrame(p)
BY DEF OldInv, StaleInv, Replaced, Translation

(* In that frame are the bytes of the old program, those of the file included. *)
LEMMA ReadsOld ==
    ASSUME TypeInv, BytesInv, NEW addr \in Nat, Page(addr) \in OldPages,
           Translation(Page(addr)) = OldFrame(Page(addr))
    PROVE  Seen(addr) = FileByte(call, addr)
<1>1. addr % PGSIZE \in 0 .. PGSIZE - 1 /\ addr = PGSIZE * Page(addr) + (addr % PGSIZE)
  BY Parts, Constants DEF Page
<1>2. ram[OldFrame(Page(addr))][addr % PGSIZE]
        = FileByte(call, PGSIZE * Page(addr) + (addr % PGSIZE))
  BY <1>1 DEF BytesInv
<1>. QED
  BY <1>1, <1>2 DEF Seen

(* Replacing a page adds it to the replaced ones. *)
LEMMA ReplacedAfter ==
    ASSUME TypeInv, MapPage
    PROVE  /\ Replaced \subseteq Replaced'
           /\ Replaced' = Replaced \cup ({Page(Segment.p_vaddr + i)} \cap OldPages)
<1> DEFINE page == Page(Segment.p_vaddr + i)
<1>1. /\ page \in Nat /\ FrameAt(m', Pdir, page) = pg
      /\ \A p \in Nat : p # page /\ Mapped(m, Pdir, p) =>
            FrameAt(m', Pdir, p) = FrameAt(m, Pdir, p)
  BY MapPageEffect
<1>2. FirstFree <= pg /\ pg \in Nat /\ \A p \in OldPages : Mapped(m, Pdir, p)
  BY MapPageEffect DEF TypeInv, MemoryInv
<1>. HIDE DEF page
<1>3. \A p \in OldPages : p # page => FrameAt(m', Pdir, p) = FrameAt(m, Pdir, p)
  BY <1>1, <1>2, OldFacts
<1>4. page \in OldPages => FrameAt(m', Pdir, page) # OldFrame(page)
  BY <1>1, <1>2, OldFacts, Constants
<1>5. Replaced' = {p \in OldPages : FrameAt(m', Pdir, p) # OldFrame(p)}
  BY DEF Replaced
<1>. QED
  BY <1>3, <1>4, <1>5 DEF Replaced, page

(* The old program's bytes stay, and what is cached of it is stale only for
   pages that have been replaced. *)
LEMMA OldStep == OldInv /\ [Next]_vars => OldInv'
<1>. SUFFICES ASSUME OldInv, [Next]_vars PROVE OldInv'
  OBVIOUS
<1>1. TypeInv /\ TypeInv' /\ LocalsInv /\ MemoryInv /\ CacheInv /\ BytesInv /\ StaleInv
  BY TypeStep DEF OldInv, TypeInv
<1>2. call' = call
  BY DEF Next, vars, ExecCall, ReadNoHeader, NextSegment, MapFails, TakePage, TableFails,
         MapPage, ExecReturn, Forget, OtherTakes
<1>3. BytesInv'
  <2>. SUFFICES ASSUME NEW p \in OldPages, NEW b \in 0 .. PGSIZE - 1
                PROVE  ram'[OldFrame(p)][b] = FileByte(call, PGSIZE * p + b)
    BY <1>2 DEF BytesInv
  <2>1. OldFrame(p) \in Held /\ OldFrame(p) \in DOMAIN ram
    <3>1. /\ m.used \in Ptbl + 1 .. m.top /\ m.top \in Nat /\ m.top = call.top
          /\ FirstFree <= m.used /\ DOMAIN ram = 0 .. call.top - 1
          /\ pg \in 0 .. m.used - 1 /\ (pc = "copy" => FirstFree <= pg)
      BY <1>1 DEF MemoryInv, TablesInv, TypeInv, CopyInv
    <3>. QED
      BY <3>1, OldFacts, Constants DEF Ptbl, Held
  <2>2. ram'[OldFrame(p)] = ram[OldFrame(p)]
    BY <1>1, <2>1, HeldStep
  <2>. QED
    BY <1>1, <2>2 DEF BytesInv
<1>4. StaleInv'
  <2>1. ASSUME Replaced \subseteq Replaced', NEW pages \in SUBSET OldPages,
               tlb' = Cache(pages)
        PROVE  StaleInv'
    <3>. SUFFICES ASSUME NEW p \in DOMAIN tlb', p \notin Replaced'
                  PROVE  tlb'[p] = OldFrame(p)
      BY DEF StaleInv
    <3>1. p \in OldPages /\ p \notin Replaced
      BY <1>1, <2>1, CachesOld
    <3>2. tlb'[p] = Translation(p)
      BY <2>1, Caches
    <3>. QED
      BY <3>1, <3>2, FindsOld
  <2>2. ASSUME Replaced' = Replaced, NEW K \in SUBSET DOMAIN tlb,
               tlb' = [p \in K |-> tlb[p]]
        PROVE  StaleInv'
    BY <1>1, <2>2 DEF StaleInv
  <2>3. m' = m => Replaced' = Replaced
    BY DEF Replaced
  <2>4. FilePages(0, 1) \in SUBSET OldPages
    BY <1>1, HeaderPage DEF LocalsInv
  <2>5. CASE ExecCall \/ NextSegment \/ MapFails
    BY <2>1, <2>3, <2>4, <2>5 DEF ExecCall, NextSegment, MapFails
  <2>6. CASE TableFails
    <3>1. Replaced' = Replaced
      BY <2>3, <2>6 DEF TableFails
    <3>2. FilePages(0, 1) \cup FilePages(Source, Count) \in SUBSET OldPages
      BY <1>1, <2>4, <2>6, TableFailsEffect
    <3>. QED
      BY <2>1, <2>6, <3>1, <3>2 DEF TableFails
  <2>7. CASE MapPage
    <3>1. Replaced \subseteq Replaced'
      BY <1>1, <2>7, ReplacedAfter
    <3>2. FilePages(0, 1) \cup FilePages(Source, Count) \in SUBSET OldPages
      <4>1. ~Finished /\ i < Segment.p_filesz
        BY <1>1, <2>7 DEF MapPage, TypeInv, CopyInv
      <4>. QED
        BY <4>1, <1>1, <2>4, TurnFacts
    <3>. QED
      BY <2>1, <2>7, <3>1, <3>2 DEF MapPage
  <2>8. CASE ReadNoHeader \/ UNCHANGED vars
    BY <1>1, <2>3, <2>8 DEF ReadNoHeader, vars, StaleInv
  <2>9. CASE ExecReturn
    <3>1. DOMAIN tlb \ {Page(call.entry)} \in SUBSET DOMAIN tlb
      OBVIOUS
    <3>. QED
      BY <2>2, <2>3, <2>9, <3>1 DEF ExecReturn
  <2>10. CASE Forget
    <3>1. PICK K \in SUBSET DOMAIN tlb : tlb' = [p \in K |-> tlb[p]]
      BY <2>10 DEF Forget
    <3>. QED
      BY <2>2, <2>3, <2>10, <3>1 DEF Forget
  <2>11. CASE TakePage
    <3>1. Replaced' = Replaced
      BY <1>1, <2>11, TakeEffect DEF Replaced, FrameAt, TakePage, NoPage
    <3>. QED
      BY <2>1, <2>4, <2>11, <3>1 DEF TakePage
  <2>12. CASE OtherTakes
    BY <2>12 DEF OtherTakes, StaleInv, Absent
  <2>. QED
    BY <2>5, <2>6, <2>7, <2>8, <2>9, <2>10, <2>11, <2>12 DEF Next
<1>. QED
  BY <1>1, <1>3, <1>4 DEF OldInv

(* Only a program that has been loaded returns elsewhere, and a program whose
   exec failed has all its pages unless a mishap says otherwise. *)
ReturnInv ==
    /\ pc # "new" => eip = call.eip
    /\ pc = "old" => Replaced = {}
    /\ pc = "failed" /\ "partial" \notin mishap => Replaced = {}

(* Replaced changes with MapPage only. *)
LEMMA SameReplaced ==
    ASSUME TypeInv, [Next]_vars, ~MapPage
    PROVE  Replaced' = Replaced
<1>1. CASE TakePage \/ OtherTakes
  <2>1. NextFrame(m) # Null /\ m' = Take(m)
    BY <1>1 DEF TakePage, NoPage, OtherTakes
  <2>2. m'.table = m.table
    BY <2>1, TakeEffect
  <2>. QED
    BY <2>2 DEF Replaced, FrameAt
<1>2. CASE ~TakePage /\ ~OtherTakes
  <2>1. m' = m
    BY <1>2 DEF Next, vars, ExecCall, ReadNoHeader, NextSegment, MapFails, TableFails,
                ExecReturn, Forget
  <2>. QED
    BY <2>1 DEF Replaced
<1>. QED
  BY <1>1, <1>2

(* exec returns to the old program as it was unless it succeeds. *)
LEMMA ReturnStep == TypeInv /\ ReturnInv /\ [Next]_vars => ReturnInv'
<1>. SUFFICES ASSUME TypeInv, ReturnInv, [Next]_vars PROVE ReturnInv'
  OBVIOUS
<1>1. CASE MapPage
  BY <1>1 DEF MapPage, ReturnInv
<1>2. CASE ~MapPage
  <2>1. Replaced' = Replaced
    BY <1>2, SameReplaced
  <2>2. CASE ExecCall
    BY <2>1, <2>2 DEF ExecCall, ReturnInv
  <2>3. CASE ReadNoHeader \/ NextSegment
    BY <2>1, <2>3 DEF ReadNoHeader, NextSegment, ReturnInv
  <2>4. CASE MapFails \/ TableFails
    BY <2>1, <2>4 DEF MapFails, TableFails, Partial, ReturnInv
  <2>5. CASE ExecReturn
    BY <2>1, <2>5 DEF ExecReturn, ReturnInv
  <2>6. CASE Forget
    BY <2>1, <2>6 DEF Forget, ReturnInv
  <2>8. CASE TakePage \/ OtherTakes
    BY <2>1, <2>8 DEF TakePage, OtherTakes, ReturnInv
  <2>7. CASE UNCHANGED vars
    BY <2>1, <2>7 DEF vars, ReturnInv
  <2>. QED
    BY <1>2, <2>2, <2>3, <2>4, <2>5, <2>6, <2>7, <2>8 DEF Next
<1>. QED
  BY <1>1, <1>2

(* At the call nothing has been replaced, and what is cached is right. *)
LEMMA OldInit == Init => OldInv /\ ReturnInv
<1>. SUFFICES ASSUME Init PROVE OldInv /\ ReturnInv
  OBVIOUS
<1>1. Replaced = {}
  BY InitTables DEF Replaced
<1>2. ReturnInv
  BY <1>1 DEF ReturnInv, Init
<1>3. StaleInv
  <2>1. PICK cached \in SUBSET OldPages : tlb = [p \in cached |-> OldFrame(p)]
    BY DEF Init
  <2>. QED
    BY <2>1 DEF StaleInv
<1>4. BytesInv
  BY InitBytes DEF BytesInv
<1>. QED
  BY <1>2, <1>3, <1>4, TypeInit DEF OldInv

(* A program whose exec failed before one of its pages had been replaced goes
   on where it was, and sees all its bytes. *)
THEOREM OldProgramIsSafe == Spec => []OldProgramSurvives
<1>1. OldInv /\ ReturnInv => OldProgramSurvives
  <2>. SUFFICES ASSUME OldInv, ReturnInv, pc = "failed", "partial" \notin mishap
                PROVE  /\ eip = call.eip
                       /\ \A p \in OldPages, b \in 0 .. PGSIZE - 1 :
                             Seen(p * PGSIZE + b) = FileByte(call, p * PGSIZE + b)
    BY DEF OldProgramSurvives
  <2>1. eip = call.eip /\ Replaced = {}
    BY DEF ReturnInv
  <2>2. ASSUME NEW p \in OldPages, NEW b \in 0 .. PGSIZE - 1
        PROVE  Seen(p * PGSIZE + b) = FileByte(call, p * PGSIZE + b)
    <3> DEFINE addr == p * PGSIZE + b
    <3>1. p \in Nat
      BY OldFacts
    <3>2. addr = PGSIZE * p + b /\ addr \in Nat
      BY <3>1, Constants
    <3>3. Page(addr) = p
      BY <3>1, <3>2, Divided, Constants DEF Page
    <3>. HIDE DEF addr
    <3>4. Translation(p) = OldFrame(p)
      BY <2>1, FindsOld
    <3>5. Seen(addr) = FileByte(call, addr)
      BY <3>2, <3>3, <3>4, ReadsOld DEF OldInv
    <3>. QED
      BY <3>5 DEF addr
  <2>. QED
    BY <2>1, <2>2
<1>2. OldInv => TypeInv
  BY DEF OldInv
<1>. QED
  BY <1>1, <1>2, OldInit, OldStep, ReturnStep, PTL DEF Spec

-----------------------------------------------------------------------------
(* While the segments are loaded the processor finds the headers where they
   were, stale as that may be, unless it has been made to forget. *)
HeadInv ==
    /\ pc \in {"loop", "copy"} /\ "flushed" \notin mishap =>
          Translation(Page(call.content)) = OldFrame(Page(call.content))
    /\ pc = "lost" => "flushed" \in mishap

(* The headers stay readable. *)
LEMMA HeadStep == OldInv /\ ReturnInv /\ HeadInv /\ [Next]_vars => HeadInv'
<1>. SUFFICES ASSUME OldInv, ReturnInv, HeadInv, [Next]_vars PROVE HeadInv'
  OBVIOUS
<1> DEFINE H == Page(call.content)
<1>1. /\ TypeInv /\ BytesInv /\ call \in Calls /\ FilePages(0, 1) = {H}
      /\ H \in OldPages /\ call.content \in Nat /\ call.size \in Nat \ {0}
  BY HeaderPage, CallFacts DEF OldInv, TypeInv, LocalsInv
<1>2. call' = call
  BY DEF Next, vars, ExecCall, ReadNoHeader, NextSegment, MapFails, TakePage, TableFails,
         MapPage, ExecReturn, Forget, OtherTakes
<1>3. ASSUME NEW pages, H \in pages, tlb' = Cache(pages)
      PROVE  Translation(H)' = Translation(H)
  <2>1. H \in DOMAIN tlb' /\ tlb'[H] = Translation(H)
    BY <1>3, Caches
  <2>. QED
    BY <1>2, <2>1 DEF Translation
<1>4. CASE ExecCall
  <2>1. Translation(H)' = Translation(H)
    BY <1>1, <1>3, <1>4 DEF ExecCall
  <2>2. Translation(H) = OldFrame(H)
    BY <1>1, <1>4, FindsOld DEF ExecCall, ReturnInv
  <2>. QED
    BY <1>2, <1>4, <2>1, <2>2 DEF ExecCall, HeadInv
<1>5. CASE ReadNoHeader
  <2>1. ASSUME "flushed" \notin mishap PROVE FALSE
    <3>1. Translation(H) = OldFrame(H)
      BY <1>5, <2>1 DEF ReadNoHeader, HeadInv
    <3>2. Seen(call.content) = FileByte(call, call.content)
      BY <1>1, <3>1, ReadsOld
    <3>3. call.content \in call.content .. call.content + call.size - 1
          /\ call.content - call.content = 0
      BY <1>1
    <3>4. FileByte(call, call.content) = Byte(0)
      BY <3>3 DEF FileByte
    <3>. QED
      BY <1>5, <3>2, <3>4 DEF ReadNoHeader, Header
  <2>. QED
    BY <1>5, <2>1 DEF ReadNoHeader, HeadInv
<1>6. CASE NextSegment
  <2>1. Translation(H)' = Translation(H)
    BY <1>1, <1>3, <1>6 DEF NextSegment
  <2>. QED
    BY <1>2, <1>6, <2>1 DEF NextSegment, HeadInv
<1>7. CASE MapPage
  <2>1. Translation(H)' = Translation(H)
    <3>1. H \in FilePages(0, 1) \cup FilePages(Source, Count)
      BY <1>1
    <3>. QED
      BY <1>3, <1>7, <3>1 DEF MapPage
  <2>. QED
    BY <1>2, <1>7, <2>1 DEF MapPage, HeadInv
<1>8. CASE MapFails \/ TableFails \/ ExecReturn
  BY <1>8 DEF MapFails, TableFails, ExecReturn, HeadInv
<1>9. CASE Forget
  <2>1. PICK K \in SUBSET DOMAIN tlb :
           /\ tlb' = [p \in K |-> tlb[p]]
           /\ mishap' = mishap \cup Flushed(K)
    BY <1>9 DEF Forget
  <2>2. ASSUME pc \in {"loop", "copy"}, "flushed" \notin mishap'
        PROVE  Translation(H)' = OldFrame(H)
    <3>1. Translation(H) = OldFrame(H) /\ (DOMAIN tlb \ K) \cap Replaced = {}
      BY <2>1, <2>2 DEF HeadInv, Flushed
    <3>2. m' = m
      BY <1>9 DEF Forget
    <3>3. CASE H \in K \/ H \notin DOMAIN tlb
      BY <1>2, <2>1, <3>1, <3>2, <3>3 DEF Translation
    <3>4. CASE H \in DOMAIN tlb \ K
      <4>1. H \notin Replaced
        BY <3>1, <3>4
      <4>2. FrameAt(m, Pdir, H) = OldFrame(H)
        BY <1>1, <4>1 DEF Replaced
      <4>. QED
        BY <1>2, <2>1, <3>2, <3>4, <4>2 DEF Translation
    <3>. QED
      BY <3>3, <3>4
  <2>3. pc' = pc
    BY <1>9 DEF Forget
  <2>4. pc' = "lost" => "flushed" \in mishap'
    BY <2>1, <2>3 DEF HeadInv
  <2>. QED
    BY <1>2, <2>2, <2>3, <2>4 DEF HeadInv
<1>11. CASE TakePage
  <2>1. Translation(H)' = Translation(H)
    BY <1>1, <1>3, <1>11 DEF TakePage
  <2>. QED
    BY <1>2, <1>11, <2>1 DEF TakePage, HeadInv
<1>12. CASE OtherTakes
  <2>1. m'.table = m.table /\ tlb' = <<>> /\ pc' = pc
        /\ mishap' = mishap \cup Flushed({})
    BY <1>1, <1>12, TakeEffect DEF OtherTakes, Absent
  <2>2. ASSUME pc \in {"loop", "copy"}, "flushed" \notin mishap'
        PROVE  Translation(H)' = OldFrame(H)
    <3>1. Translation(H) = OldFrame(H) /\ DOMAIN tlb \cap Replaced = {}
      BY <2>1, <2>2 DEF HeadInv, Flushed
    <3>2. FrameAt(m, Pdir, H) = OldFrame(H)
      BY <1>1, <3>1 DEF Translation, Replaced
    <3>3. Translation(H)' = FrameAt(m', Pdir, H)
      BY <1>2, <2>1 DEF Translation
    <3>. QED
      BY <2>1, <3>2, <3>3 DEF FrameAt
  <2>. QED
    BY <1>2, <2>1, <2>2 DEF HeadInv
<1>10. CASE UNCHANGED vars
  BY <1>10 DEF vars, HeadInv, Translation
<1>. QED
  BY <1>4, <1>5, <1>6, <1>7, <1>8, <1>9, <1>10, <1>11, <1>12 DEF Next

-----------------------------------------------------------------------------
(* Every byte of segment s is where the file says. *)
InPlace(s) == \A k \in 0 .. s.p_filesz - 1 :
                 InTable(s.p_vaddr + k) = Byte(s.p_offset + k)

(* The segments of a plain program are in place up to the one that is being
   loaded, that included once its only page has been mapped. *)
LoadInv ==
    /\ i = 0 \/ PGSIZE <= i
    /\ PlainProgram /\ "overwritten" \notin mishap =>
          \A x \in DOMAIN call.segments :
             x < pnum \/ (x = pnum /\ i > 0) => InPlace(call.segments[x])

(* A segment of the file. *)
LEMMA SegmentType ==
    ASSUME call \in Calls, NEW x \in DOMAIN call.segments
    PROVE  call.segments[x] \in [p_offset : Nat, p_vaddr : Nat, p_filesz : Nat]
<1> DEFINE S == [p_offset : Nat, p_vaddr : Nat, p_filesz : Nat]
<1>1. call.segments \in Seq(S)
  BY CallFacts
<1>. HIDE DEF S
<1>2. call.segments[x] \in S
  BY <1>1
<1>. QED
  BY <1>2 DEF S

(* Where the bytes of a plain segment are. *)
LEMMA PlainBytes ==
    ASSUME NEW s \in [p_offset : Nat, p_vaddr : Nat, p_filesz : Nat], Plain(s),
           NEW k \in 0 .. s.p_filesz - 1
    PROVE  /\ s.p_vaddr + k \in Nat
           /\ Page(s.p_vaddr + k) = Page(s.p_vaddr)
           /\ Page(s.p_vaddr) \in Nat
           /\ (s.p_vaddr + k) % PGSIZE = s.p_offset + k
           /\ s.p_offset + k \in 0 .. PGSIZE - 1
<1> DEFINE v == s.p_vaddr
           o == s.p_offset
           q == v \div PGSIZE
<1>1. /\ v \in Nat /\ o \in Nat /\ k \in Nat
      /\ o = v % PGSIZE /\ o + s.p_filesz <= PGSIZE /\ s.p_filesz \in Nat
  BY DEF Plain
<1>2. v = PGSIZE * q + o /\ q \in Nat
  BY <1>1, Parts, Constants
<1>3. o + k \in 0 .. PGSIZE - 1
  BY <1>1, Constants
<1>. HIDE DEF v, o, q
<1>4. v + k = PGSIZE * q + (o + k)
  <2>1. PGSIZE * q \in Nat
    BY <1>2, Constants
  <2>. QED
    BY <1>1, <1>2, <2>1
<1>5. (v + k) \div PGSIZE = q /\ (v + k) % PGSIZE = o + k
  BY <1>2, <1>3, <1>4, Divided, Constants
<1>6. v + k \in Nat
  BY <1>1
<1>. QED
  BY <1>2, <1>3, <1>5, <1>6 DEF v, o, q, Page

(* A byte stays in place while its page is mapped to the same frame. *)
LEMMA StaysInPlace ==
    ASSUME NEW addr, Mapped(m, Pdir, Page(addr)),
           Mapped(m', Pdir, Page(addr)),
           FrameAt(m', Pdir, Page(addr)) = FrameAt(m, Pdir, Page(addr)),
           LET f == FrameAt(m, Pdir, Page(addr)) IN ram'[f] = ram[f]
    PROVE  InTable(addr)' = InTable(addr)
<1>1. InTable(addr) = ram[FrameAt(m, Pdir, Page(addr))][addr % PGSIZE]
  BY DEF InTable
<1>2. InTable(addr)' = ram'[FrameAt(m', Pdir, Page(addr))][addr % PGSIZE]
  BY DEF InTable
<1>. QED
  BY <1>1, <1>2

(* A byte that is in place lies in a page that is mapped. *)
LEMMA IsMapped ==
    ASSUME NEW addr, NEW n \in Nat, InTable(addr) = Byte(n)
    PROVE  Mapped(m, Pdir, Page(addr))
BY DEF InTable, Byte, Old

(* A turn of the inner loop puts a plain segment in place and leaves those that
   were in place already. *)
LEMMA TurnLoads ==
    ASSUME OldInv, LoadInv, MapPage, PlainProgram, "overwritten" \notin mishap',
           NEW x \in DOMAIN call.segments, x <= pnum
    PROVE  InPlace(call.segments[x])'
<1> DEFINE s == call.segments[x]
           page == Page(Segment.p_vaddr + i)
<1>1. /\ TypeInv /\ BytesInv /\ LocalsInv /\ call \in Calls /\ i \in Nat
      /\ ~Finished /\ i < Segment.p_filesz
      /\ call.content \in Nat /\ call.size \in Nat
  BY CallFacts DEF OldInv, TypeInv, LocalsInv, CopyInv, MapPage
<1>2. /\ Segment \in [p_offset : Nat, p_vaddr : Nat, p_filesz : Nat]
      /\ pnum \in DOMAIN call.segments
      /\ Count \in 1 .. PGSIZE /\ Source \in Nat
      /\ Source + Count <= call.size
      /\ FilePages(Source, Count) \subseteq OldPages
      /\ \A k \in 0 .. Count - 1 :
            Page(call.content + Source + k) \in FilePages(Source, Count)
  BY <1>1, TurnFacts
<1>3. Segment = call.segments[pnum] /\ Plain(Segment) /\ Plain(s)
  BY <1>2 DEF Segment, Segments, PlainProgram
<1>4. s \in [p_offset : Nat, p_vaddr : Nat, p_filesz : Nat]
  BY <1>1, SegmentType
<1>5. i = 0
  <2>1. Segment.p_offset \in Nat /\ Segment.p_filesz \in Nat
        /\ Segment.p_offset + Segment.p_filesz <= PGSIZE
    BY <1>2, <1>3 DEF Plain
  <2>. QED
    BY <1>1, <2>1, Constants DEF LoadInv
<1>6. Source = Segment.p_offset /\ Count = Segment.p_filesz /\ page = Page(Segment.p_vaddr)
  <2>1. /\ Segment.p_offset \in Nat /\ Segment.p_filesz \in Nat
        /\ Segment.p_vaddr \in Nat
        /\ Segment.p_offset + Segment.p_filesz <= PGSIZE
    BY <1>2, <1>3 DEF Plain
  <2>2. Segment.p_offset + i = Segment.p_offset /\ Segment.p_vaddr + i = Segment.p_vaddr
        /\ Segment.p_filesz - i = Segment.p_filesz /\ ~(Segment.p_filesz > PGSIZE)
    BY <1>5, <2>1, Constants
  <2>. QED
    BY <2>2 DEF Source, Count
<1>7. /\ pg \in Nat
      /\ Mapped(m', Pdir, page) /\ FrameAt(m', Pdir, page) = pg
      /\ \A p \in Nat : p # page =>
           /\ Mapped(m', Pdir, p) <=> Mapped(m, Pdir, p)
           /\ Mapped(m, Pdir, p) => FrameAt(m', Pdir, p) = FrameAt(m, Pdir, p)
      /\ \A p : Mapped(m, Pdir, p) => FrameAt(m, Pdir, p) \in 0 .. pg - 1
      /\ \A f \in 0 .. pg - 1 : ram'[f] = ram[f]
      /\ \A k \in 0 .. Count - 1 : Source + k < PGSIZE =>
            ram'[pg][Source + k] = Seen(call.content + Source + k)
  BY <1>1, MapPageEffect
<1>8. "overwritten" \notin mishap /\ ~Overwritten
  BY DEF MapPage
<1>. HIDE DEF page
<1>9. CASE x = pnum
  <2>. SUFFICES ASSUME NEW k \in 0 .. s.p_filesz - 1
                PROVE  InTable(s.p_vaddr + k)' = Byte(s.p_offset + k)
    BY DEF InPlace, MapPage
  <2>1. s = Segment
    BY <1>3, <1>9
  <2>. HIDE DEF s
  <2>2. /\ s.p_vaddr + k \in Nat /\ Page(s.p_vaddr + k) = page
        /\ (s.p_vaddr + k) % PGSIZE = Source + k
        /\ Source + k \in 0 .. PGSIZE - 1
    BY <1>3, <1>4, <1>6, <2>1, PlainBytes
  <2>3. k \in 0 .. Count - 1 /\ k \in Nat
    BY <1>4, <1>6, <2>1
  <2>4. ram'[pg][Source + k] = Seen(call.content + Source + k)
    BY <1>7, <2>2, <2>3, Constants
  <2>5. Seen(call.content + Source + k) = Byte(s.p_offset + k)
    <3> DEFINE a == call.content + Source + k
    <3>1. a \in Nat /\ a \in call.content .. call.content + call.size - 1
          /\ a - call.content = s.p_offset + k
      BY <1>1, <1>2, <1>6, <2>1, <2>3, Constants
    <3>2. Page(a) \in FilePages(Source, Count)
      BY <1>2, <2>3
    <3>. HIDE DEF a
    <3>3. Translation(Page(a)) = OldFrame(Page(a)) /\ Page(a) \in OldPages
      BY <1>2, <1>8, <3>2 DEF Overwritten
    <3>4. Seen(a) = FileByte(call, a)
      BY <1>1, <3>1, <3>3, ReadsOld
    <3>. QED
      BY <3>1, <3>4 DEF a, FileByte
  <2>6. InTable(s.p_vaddr + k)' = ram'[pg][Source + k]
    <3> DEFINE a == s.p_vaddr + k
    <3>1. Page(a) = page /\ a % PGSIZE = Source + k
      BY <2>2
    <3>2. a' = a
      BY DEF s, MapPage
    <3>. HIDE DEF a
    <3>3. InTable(a)' = ram'[FrameAt(m', Pdir, page)][Source + k]
      BY <1>7, <3>1, <3>2 DEF InTable
    <3>. QED
      BY <1>7, <3>3 DEF a
  <2>7. s' = s
    BY DEF s, MapPage
  <2>. QED
    BY <2>4, <2>5, <2>6
<1>10. CASE x # pnum
  <2>1. x < pnum /\ InPlace(s)
    <3>1. x \in Int /\ pnum \in Int
      <4>1. DOMAIN call.segments = 1 .. Len(call.segments)
        BY <1>1, CallFacts
      <4>. QED
        BY <4>1, <1>2
    <3>2. x < pnum
      BY <1>10, <3>1
    <3>. QED
      BY <1>8, <3>2 DEF LoadInv
  <2>2. Page(s.p_vaddr) # page
    BY <1>2, <1>3, <1>6, <1>10 DEF PlainProgram
  <2>3. call' = call
    BY DEF MapPage
  <2>4. ASSUME NEW k \in 0 .. s.p_filesz - 1, NEW a, a = s.p_vaddr + k
        PROVE  InTable(a)' = Byte(s.p_offset + k)
    <3>. HIDE DEF s
    <3>1. Page(a) = Page(s.p_vaddr) /\ Page(a) \in Nat /\ s.p_offset + k \in Nat
      BY <1>3, <1>4, <2>4, PlainBytes, Constants
    <3>2. InTable(a) = Byte(s.p_offset + k)
      BY <2>1, <2>4 DEF InPlace
    <3>3. Mapped(m, Pdir, Page(a))
      BY <3>1, <3>2, IsMapped
    <3>4. Mapped(m', Pdir, Page(a))
          /\ FrameAt(m', Pdir, Page(a)) = FrameAt(m, Pdir, Page(a))
      BY <1>7, <2>2, <3>1, <3>3
    <3>5. InTable(a)' = InTable(a)
      BY <1>1, <1>7, <3>3, <3>4, StaysInPlace
    <3>. QED
      BY <3>2, <3>5
  <2>. QED
    BY <2>3, <2>4 DEF InPlace
<1>. QED
  BY <1>9, <1>10

(* Segments that are in place stay there while memory is only read. *)
LEMMA SameMemory ==
    ASSUME UNCHANGED <<call, ram>>, m'.table = m.table, NEW x
    PROVE  InPlace(call.segments[x])' <=> InPlace(call.segments[x])
BY DEF InPlace, InTable, Mapped, FrameAt

(* The segments of a plain program are loaded one after the other. *)
LEMMA LoadStep == OldInv /\ LoadInv /\ [Next]_vars => LoadInv'
<1>. SUFFICES ASSUME OldInv, LoadInv, [Next]_vars PROVE LoadInv'
  OBVIOUS
<1>1. /\ TypeInv /\ LocalsInv /\ MemoryInv /\ call \in Calls
      /\ i \in Nat /\ pnum \in Nat
  <2>1. TypeInv /\ LocalsInv /\ MemoryInv /\ call \in Calls /\ i \in Nat
        /\ pnum \in 1 .. Len(call.segments) + 1
    BY DEF OldInv, TypeInv, LocalsInv
  <2>2. Len(call.segments) \in Nat
    BY <2>1, CallFacts
  <2>. QED
    BY <2>1, <2>2
<1>2. call' = call /\ mishap \subseteq mishap'
  BY DEF Next, vars, ExecCall, ReadNoHeader, NextSegment, MapFails, TakePage, TableFails,
         MapPage, ExecReturn, Forget, OtherTakes
<1>3. PlainProgram' = PlainProgram
  BY <1>2 DEF PlainProgram, Segments, Plain
<1>4. DOMAIN call.segments \subseteq Nat
  BY <1>1, CallFacts
<1>5. ASSUME UNCHANGED <<pnum, i, m, ram>> PROVE LoadInv'
  BY <1>2, <1>3, <1>5, SameMemory DEF LoadInv
<1>6. CASE NextSegment
  <2>1. UNCHANGED <<m, ram>> /\ i' = 0 /\ pnum' = pnum + 1 /\ i >= Segment.p_filesz
    BY <1>6 DEF NextSegment
  <2>2. ASSUME PlainProgram, "overwritten" \notin mishap,
               NEW x \in DOMAIN call.segments, x < pnum + 1
        PROVE  InPlace(call.segments[x])
    <3>1. CASE x < pnum
      BY <2>2, <3>1 DEF LoadInv
    <3>2. CASE x = pnum /\ i > 0
      BY <2>2, <3>2 DEF LoadInv
    <3>3. CASE x = pnum /\ i = 0
      <4>1. call.segments[x].p_filesz \in Nat
        BY <1>1, SegmentType
      <4>2. call.segments[x].p_filesz = 0
        BY <2>1, <3>3, <4>1 DEF Segment
      <4>. QED
        BY <4>2 DEF InPlace
    <3>4. x < pnum \/ x = pnum
      BY <1>1, <1>4, <2>2
    <3>. QED
      BY <1>1, <3>1, <3>2, <3>3, <3>4
  <2>3. ASSUME PlainProgram', "overwritten" \notin mishap',
               NEW x \in DOMAIN call'.segments, x < pnum' \/ (x = pnum' /\ i' > 0)
        PROVE  InPlace(call.segments[x])'
    <3>1. x < pnum + 1
      BY <2>1, <2>3
    <3>2. InPlace(call.segments[x])
      BY <1>2, <1>3, <2>2, <2>3, <3>1
    <3>. QED
      BY <1>2, <2>1, <3>2, SameMemory
  <2>. QED
    BY <2>1, <2>3 DEF LoadInv
<1>7. CASE MapPage
  <2>1. pnum' = pnum /\ i' = i + PGSIZE
    BY <1>7 DEF MapPage
  <2>2. PGSIZE <= i'
    BY <1>1, <2>1, Constants
  <2>3. ASSUME PlainProgram', "overwritten" \notin mishap',
               NEW x \in DOMAIN call'.segments, x < pnum' \/ (x = pnum' /\ i' > 0)
        PROVE  InPlace(call.segments[x])'
    <3>1. x <= pnum /\ x \in DOMAIN call.segments
      BY <1>1, <1>2, <1>4, <2>1, <2>3
    <3>. QED
      BY <1>3, <1>7, <2>3, <3>1, TurnLoads
  <2>. QED
    BY <2>2, <2>3 DEF LoadInv
<1>8. CASE TableFails
  <2>1. /\ m' = m
        /\ \A f \in 0 .. pg - 1 : ram'[f] = ram[f]
        /\ \A p : Mapped(m, Pdir, p) => FrameAt(m, Pdir, p) \in 0 .. pg - 1
        /\ pnum' = pnum /\ i' = i
    BY <1>1, <1>8, TableFailsEffect DEF TableFails
  <2>2. ASSUME PlainProgram', "overwritten" \notin mishap',
               NEW x \in DOMAIN call'.segments, x < pnum' \/ (x = pnum' /\ i' > 0)
        PROVE  InPlace(call.segments[x])'
    <3> DEFINE s == call.segments[x]
    <3>1. InPlace(s)
      BY <1>2, <1>3, <2>1, <2>2 DEF LoadInv
    <3>2. s \in [p_offset : Nat, p_vaddr : Nat, p_filesz : Nat]
      BY <1>1, <1>2, <2>2, SegmentType
    <3>3. ASSUME NEW k \in 0 .. s.p_filesz - 1, NEW a, a = s.p_vaddr + k
          PROVE  InTable(a)' = Byte(s.p_offset + k)
      <4>1. InTable(a) = Byte(s.p_offset + k)
        BY <3>1, <3>3 DEF InPlace
      <4>. HIDE DEF s
      <4>2. s.p_offset + k \in Nat
        BY <3>2
      <4>3. Mapped(m, Pdir, Page(a))
        BY <4>1, <4>2, IsMapped
      <4>4. Mapped(m', Pdir, Page(a))
            /\ FrameAt(m', Pdir, Page(a)) = FrameAt(m, Pdir, Page(a))
        BY <2>1, <4>3 DEF Mapped, FrameAt
      <4>5. InTable(a)' = InTable(a)
        BY <2>1, <4>3, <4>4, StaysInPlace
      <4>. QED
        BY <4>1, <4>5
    <3>. QED
      BY <1>2, <3>3 DEF InPlace
  <2>. QED
    BY <2>1, <2>2 DEF LoadInv
<1>10. CASE TakePage \/ OtherTakes
  <2>1. m'.table = m.table /\ ram' = ram /\ pnum' = pnum /\ i' = i
    BY <1>1, <1>10, TakeEffect DEF TakePage, NoPage, OtherTakes
  <2>2. ASSUME PlainProgram', "overwritten" \notin mishap',
               NEW x \in DOMAIN call'.segments, x < pnum' \/ (x = pnum' /\ i' > 0)
        PROVE  InPlace(call.segments[x])'
    <3>1. InPlace(call.segments[x])
      BY <1>2, <1>3, <2>1, <2>2 DEF LoadInv
    <3>. QED
      BY <1>2, <2>1, <3>1, SameMemory
  <2>. QED
    BY <2>1, <2>2 DEF LoadInv
<1>9. CASE ExecCall \/ ReadNoHeader \/ MapFails \/ ExecReturn \/ Forget \/ UNCHANGED vars
  BY <1>5, <1>9 DEF ExecCall, ReadNoHeader, MapFails, ExecReturn, Forget, vars
<1>. QED
  BY <1>6, <1>7, <1>8, <1>9, <1>10 DEF Next

(* Where the new program is started. *)
EntryInv ==
    pc = "new" => /\ Finished
                  /\ Page(call.entry) \notin DOMAIN tlb
                  /\ LowByte(eip) = LowByte(call.entry)

(* Storing the lowest byte of an address in another. *)
LEMMA StoredByte ==
    ASSUME NEW a \in Nat, NEW b \in Nat
    PROVE  LowByte(a - LowByte(a) + LowByte(b)) = LowByte(b)
<1> DEFINE q == a \div Block
           r == b % Block
           t == a % Block
           w == Block * q
<1>1. a = w + t /\ q \in Nat /\ r \in 0 .. Block - 1 /\ t \in 0 .. Block - 1
  BY Parts, Constants
<1>. HIDE DEF q, r, t
<1>2. w \in Nat
  BY <1>1, Constants
<1>3. (w + r) % Block = r
  BY <1>1, Divided, Constants
<1>. HIDE DEF w
<1>4. a - t + r = w + r
  BY <1>1, <1>2, Constants
<1>. QED
  BY <1>3, <1>4 DEF LowByte, r, t

(* The entry point's translation is gone when the new program starts, and is
   not cached before it is used. *)
LEMMA EntryStep == TypeInv /\ EntryInv /\ [Next]_vars => EntryInv'
<1>. SUFFICES ASSUME TypeInv, EntryInv, [Next]_vars PROVE EntryInv'
  OBVIOUS
<1>1. call' = call
  BY DEF Next, vars, ExecCall, ReadNoHeader, NextSegment, MapFails, TakePage, TableFails,
         MapPage, ExecReturn, Forget, OtherTakes
<1>2. CASE ExecReturn
  <2>1. call.entry \in Nat /\ eip \in Nat
    BY CallFacts DEF TypeInv, LocalsInv
  <2>2. LowByte(eip') = LowByte(call.entry)
    BY <1>2, <2>1, StoredByte DEF ExecReturn
  <2>3. Finished' /\ Page(call.entry) \notin DOMAIN tlb'
    BY <1>2 DEF ExecReturn, Finished
  <2>4. LowByte(eip)' = LowByte(eip') /\ LowByte(call.entry)' = LowByte(call.entry)
        /\ Page(call.entry)' = Page(call.entry)
    BY <1>1 DEF LowByte, Page
  <2>. QED
    BY <2>2, <2>3, <2>4 DEF EntryInv
<1>3. CASE ExecCall \/ ReadNoHeader \/ NextSegment \/ MapFails \/ TakePage
           \/ TableFails \/ MapPage \/ OtherTakes
  <2>1. pc' # "new"
    BY <1>3 DEF ExecCall, ReadNoHeader, NextSegment, MapFails, TakePage, TableFails,
                MapPage, OtherTakes
  <2>. QED
    BY <2>1 DEF EntryInv
<1>4. CASE Forget
  <2>1. DOMAIN tlb' \subseteq DOMAIN tlb
    BY <1>4 DEF Forget
  <2>. QED
    BY <1>4, <2>1 DEF Forget, EntryInv, Finished, LowByte, Page
<1>5. CASE UNCHANGED vars
  BY <1>5 DEF vars, EntryInv, Finished, LowByte, Page
<1>. QED
  BY <1>2, <1>3, <1>4, <1>5 DEF Next

(* All of it at the call: nothing is loaded yet. *)
LEMMA LoadInit == Init => HeadInv /\ LoadInv /\ EntryInv
<1>. SUFFICES ASSUME Init PROVE HeadInv /\ LoadInv /\ EntryInv
  OBVIOUS
<1>1. pc = "old" /\ pnum = 1 /\ i = 0 /\ call \in Calls
  BY DEF Init
<1>2. DOMAIN call.segments = 1 .. Len(call.segments)
  BY <1>1, CallFacts
<1>3. LoadInv
  BY <1>1, <1>2 DEF LoadInv
<1>. QED
  BY <1>1, <1>3 DEF HeadInv, EntryInv

(* A plain program that has been loaded has every segment in place. *)
LEMMA AllInPlace ==
    ASSUME OldInv, LoadInv, EntryInv, pc = "new", PlainProgram,
           "overwritten" \notin mishap, NEW s \in Segments
    PROVE  InPlace(s)
<1>1. pnum > Len(call.segments) /\ call \in Calls /\ pnum \in 1 .. Len(call.segments) + 1
  BY DEF EntryInv, Finished, OldInv, TypeInv, LocalsInv
<1>2. DOMAIN call.segments = 1 .. Len(call.segments) /\ Len(call.segments) \in Nat
  BY <1>1, CallFacts
<1>3. PICK x \in DOMAIN call.segments : s = call.segments[x]
  BY DEF Segments
<1>4. x < pnum
  BY <1>1, <1>2
<1>. QED
  BY <1>3, <1>4 DEF LoadInv

(* When exec succeeds for a program whose segments lie in one page each, every
   byte of theirs is where the file says, unless the copy read from a page that
   had been replaced. *)
THEOREM PlainProgramsAreLoaded == Spec => []PlainProgramsLoad
<1>1. OldInv /\ LoadInv /\ EntryInv => PlainProgramsLoad
  BY AllInPlace DEF PlainProgramsLoad, Loaded, InPlace
<1>2. OldInv => TypeInv
  BY DEF OldInv
<1>. QED
  BY <1>1, <1>2, OldInit, OldStep, LoadInit, LoadStep, EntryStep, PTL DEF Spec

(* Such a program starts with the instruction that its file has at the entry
   point, whatever the processor had cached; and exec loses the headers of the
   file only if the processor forgot where they were. *)
THEOREM ProgramsStart == Spec => []StartsAtEntry
<1>1. ASSUME OldInv, HeadInv, LoadInv, EntryInv PROVE StartsAtEntry
  <2>. SUFFICES ASSUME pc = "new", SameBlock, PlainProgram, "overwritten" \notin mishap,
                       \E s \in Segments : Starts(s)
                PROVE  Seen(eip) = FirstByte
    BY <1>1 DEF StartsAtEntry, HeadInv
  <2>1. call \in Calls /\ eip \in Nat /\ call.entry \in Nat
    BY <1>1, CallFacts DEF OldInv, TypeInv, LocalsInv
  <2>2. eip = call.entry
    <3>1. LowByte(eip) = LowByte(call.entry) /\ LowByte(eip) \in 0 .. Block - 1
      BY <1>1, <2>1, Parts, Constants DEF EntryInv, LowByte
    <3>. QED
      BY <2>1, <3>1, Constants DEF SameBlock
  <2> DEFINE s == CHOOSE z \in Segments : Starts(z)
             k == call.entry - s.p_vaddr
  <2>3. s \in Segments /\ k \in 0 .. s.p_filesz - 1
    BY DEF Starts
  <2>4. s \in [p_offset : Nat, p_vaddr : Nat, p_filesz : Nat]
    BY <2>1, <2>3, SegmentType DEF Segments
  <2>5. FirstByte = Byte(s.p_offset + call.entry - s.p_vaddr)
    BY DEF FirstByte
  <2>. HIDE DEF s
  <2>6. s.p_vaddr + k = call.entry /\ s.p_offset + k \in Nat
        /\ s.p_offset + k = s.p_offset + call.entry - s.p_vaddr
    BY <2>1, <2>3, <2>4
  <2>7. InTable(call.entry) = Byte(s.p_offset + k)
    BY <1>1, <2>3, <2>6, AllInPlace DEF InPlace
  <2>8. Mapped(m, Pdir, Page(call.entry))
    BY <2>6, <2>7, IsMapped
  <2>9. InTable(call.entry) = Seen(call.entry)
    BY <1>1, <2>8 DEF InTable, Seen, Translation, EntryInv
  <2>. QED
    BY <2>2, <2>5, <2>6, <2>7, <2>9
<1>2. OldInv /\ HeadInv /\ LoadInv /\ EntryInv => StartsAtEntry
  BY <1>1
<1>3. OldInv => TypeInv
  BY DEF OldInv
<1>. QED
  BY <1>2, <1>3, OldInit, OldStep, ReturnStep, HeadStep, LoadInit, LoadStep, EntryStep, PTL
     DEF Spec
=============================================================================
