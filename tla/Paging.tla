------------------------------- MODULE Paging -------------------------------
(***************************************************************************)
(* The page tables of src/vm.c as operators on a record m of memory:       *)
(*   m.top, m.used  frames that exist, and those pm.c has handed out       *)
(*   m.table        each frame seen as a page directory or page table: a   *)
(*                  function whose domain is the entries with PTE_P set    *)
(*   m.cache        pages[] of kcache and iocache, in the same form        *)
(*   m.data         each frame seen as a page of a program                 *)
(*   m.ok           no call has failed since it was last set; every        *)
(*                  operator leaves an m that is not ok alone, as every    *)
(*                  caller in vm.c returns at once                         *)
(*   m.stuck        the call that is not ok will never end                 *)
(* Addresses are counted in pages.  Frames are handed out in ascending     *)
(* order: pm_alloc_frame takes the first, and no frame is ever freed.       *)
(***************************************************************************)
EXTENDS Naturals

CONSTANTS PtblSize,     \* entries of a table: 1024 in the source
          KHALF,        \* first page of the higher half
          KHEAP,        \* pages of memory mapped there
          IO_START,     \* first page of memory-mapped I/O
          VaTop         \* pages of the address space

ASSUME PagingAssumption ==
    /\ {PtblSize, KHALF, KHEAP, IO_START, VaTop} \subseteq Nat \ {0}
    /\ \A x \in {KHALF, KHEAP, IO_START, VaTop} : x % PtblSize = 0
    /\ KHEAP < KHALF /\ KHALF + KHEAP < IO_START /\ IO_START < VaTop

PDIRE(va) == va \div PtblSize
PTBLE(va) == va % PtblSize

Null == 0               \* a frame that no call returns
None == "none"          \* the null cache
Absent == <<>>          \* a table without entries

Entry(frame, user) == [frame |-> frame, user |-> user]

(* What f has where it has something, and what g has elsewhere. *)
Over(f, g) == [x \in DOMAIN f \cup DOMAIN g |->
                  IF x \in DOMAIN f THEN f[x] ELSE g[x]]
Put(table, i, entry) == Over([x \in {i} |-> entry], table)

NextFrame(m) == IF m.used < m.top THEN m.used ELSE Null
Fail(m) == [m EXCEPT !.ok = FALSE]

-----------------------------------------------------------------------------
(* Callers that do not test the result go on with frame 0. *)
pm_alloc_frame(m) == IF NextFrame(m) = Null THEN m ELSE [m EXCEPT !.used = @ + 1]

(* The other callers give up. *)
Take(m) == IF m.ok /\ NextFrame(m) # Null THEN pm_alloc_frame(m) ELSE Fail(m)

(* The kernel uses a frame through the higher half, which has the first KHEAP
   of them.  An access to another faults, and faults again whenever the task
   is dispatched. *)
Touch(m, frame) ==
    IF m.ok /\ frame >= KHEAP THEN [m EXCEPT !.ok = FALSE, !.stuck = TRUE] ELSE m

vm_alloc_pte(m) ==
    LET n == Touch(Take(m), NextFrame(m))
    IN  IF n.ok THEN [n EXCEPT !.table[NextFrame(m)] = Absent] ELSE n

Base(cache) == IF cache = "kcache" THEN KHALF ELSE IO_START
Limit(cache) == IF cache = "kcache" THEN KHALF + KHEAP ELSE VaTop - 1
UseCache(cache, va) == cache # None /\ Base(cache) <= va /\ va <= Limit(cache)

(* Mutant of vm_map_page: the index into a table is one too high. *)
vm_map_page_shifted(m, pdir, pa, va, user, cache) ==
    LET new == NextFrame(m)
        e == Entry(pa, user)
        i == (va + 1) % PtblSize
    IN  IF ~m.ok THEN m
        ELSE IF PDIRE(va) \in DOMAIN m.table[pdir]
          THEN [m EXCEPT !.table[m.table[pdir][PDIRE(va)].frame] = Put(@, i, e)]
        ELSE IF ~vm_alloc_pte(m).ok THEN vm_alloc_pte(m)
        ELSE [vm_alloc_pte(m) EXCEPT
                  !.table[new] = Put(Absent, i, e),
                  !.table[pdir] = Put(@, PDIRE(va), Entry(new, user))]

(* Maps page va to frame pa in directory pdir.  A missing table is taken from
   the cache, if one covers va and has it, or else allocated and entered in
   the cache that covers va. *)
vm_map_page(m, pdir, pa, va, user, cache) ==
    LET d == PDIRE(va)
        cached == UseCache(cache, va)
        c == PDIRE(va - Base(cache))
        SetPage(n, ptbl) ==
            [n EXCEPT !.table[ptbl] = Put(@, PTBLE(va), Entry(pa, user))]
        SetTable(n, entry) ==
            [n EXCEPT !.table[pdir] = Put(@, d, entry),
                      !.cache = IF cached
                                  THEN [n.cache EXCEPT ![cache] = Put(@, c, entry)]
                                  ELSE @]
    IN  IF ~m.ok THEN m
        ELSE IF d \in DOMAIN m.table[pdir]
          THEN SetPage(m, m.table[pdir][d].frame)
        ELSE IF cached /\ c \in DOMAIN m.cache[cache]
          THEN LET e == m.cache[cache][c]
               IN  SetPage(SetTable(m, Entry(e.frame, e.user \/ user)), e.frame)
        ELSE IF vm_alloc_pte(m).ok
          THEN SetPage(SetTable(vm_alloc_pte(m), Entry(NextFrame(m), user)),
                       NextFrame(m))
        ELSE vm_alloc_pte(m)

(* A table's worth of turns of a loop that maps page after page: the first
   turn gets the table, the others only fill it. *)
FillTable(m, pdir, pa, va) ==
    IF ~m.ok THEN m
    ELSE [m EXCEPT !.table[m.table[pdir][PDIRE(va)].frame] =
              Over([i \in 1 .. PtblSize - 1 |-> Entry(pa + i, FALSE)], @)]

MapTable(m, pdir, pa, va, cache) ==
    FillTable(vm_map_page(m, pdir, pa, va, FALSE, cache), pdir, pa, va)

(* Maps n pages from va to as many frames from pa, one after the other. *)
MapRange(m, pdir, pa, va, n, cache) ==
    LET after[i \in 0 .. n \div PtblSize] ==
            IF i = 0 THEN m
            ELSE MapTable(after[i - 1], pdir, pa + (i - 1) * PtblSize,
                          va + (i - 1) * PtblSize, cache)
    IN  after[n \div PtblSize]

vm_map_kernel(m, pdir) == MapRange(m, pdir, 0, KHALF, KHEAP, "kcache")
vm_map_io(m, pdir) ==
    MapRange(m, pdir, IO_START, IO_START, VaTop - IO_START, "iocache")

(* The new directory is NextFrame(m). *)
vm_new_pdir(m) ==
    LET pdir == NextFrame(m)
        n == vm_alloc_pte(m)
    IN  IF n.ok THEN vm_map_io(vm_map_kernel(n, pdir), pdir) ELSE n

(* The two caches are not cleared.  kpdir is NextFrame(Take(Take(m))). *)
vm_init(m) == vm_new_pdir(Take(Take(m)))

-----------------------------------------------------------------------------
(* What the processor makes of a page under a directory. *)

Mapped(m, pdir, va) ==
    /\ PDIRE(va) \in DOMAIN m.table[pdir]
    /\ PTBLE(va) \in DOMAIN m.table[m.table[pdir][PDIRE(va)].frame]

FrameAt(m, pdir, va) ==
    m.table[m.table[pdir][PDIRE(va)].frame][PTBLE(va)].frame

UserMay(m, pdir, va) ==
    /\ Mapped(m, pdir, va)
    /\ m.table[pdir][PDIRE(va)].user
    /\ m.table[m.table[pdir][PDIRE(va)].frame][PTBLE(va)].user
=============================================================================
