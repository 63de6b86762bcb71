-------------------------------- MODULE Exec --------------------------------
(***************************************************************************)
(* Loading a program over a running one: elf_map_sections of src/elf.c and *)
(* sys_exec of src/exec.c, with the processor's cache of translations.     *)
(* Addresses are counted in bytes, of which a page has PGSIZE.             *)
(*                                                                         *)
(* The n-th byte of the file is the number n, and the first stands for all *)
(* its headers.  The file lies in the memory of the program that makes the *)
(* call, at content, and so perhaps where the new one is going to be.      *)
(***************************************************************************)
EXTENDS Paging, Sequences, Integers, FiniteSets

CONSTANTS PGSIZE,       \* bytes of a page: 4096 in the source
          Block,        \* values of the byte that sys_exec stores: 256
          Kernel,       \* frames below ekernel
          OldPages,     \* pages of the program that makes the call, which
                        \* follow one another and share a page table
          Calls         \* records of a call of exec:
                        \*   segments  the PT_LOAD segments of the file, each
                        \*             with p_offset, p_vaddr and p_filesz
                        \*   entry     e_entry
                        \*   valid     the headers are those of an ELF file
                        \*   size      bytes of the file
                        \*   content   where the file is
                        \*   eip       where the call would return to
                        \*   top       frames of memory

Page(addr) == addr \div PGSIZE
Pdir == Kernel
Ptbl == Kernel + 1
First == CHOOSE p \in OldPages : \A q \in OldPages : p <= q
OldFrame(page) == Kernel + 2 + page - First

ASSUME ExecAssumption ==
    /\ {PGSIZE, Block} \subseteq Nat \ {0}
    /\ Kernel \in Nat \ {0}
    /\ \E hi \in 0 .. KHALF - 1 : \E lo \in 0 .. hi : OldPages = lo .. hi
    /\ \A p, q \in OldPages : PDIRE(p) = PDIRE(q)
    /\ Calls \subseteq [segments : Seq([p_offset : Nat, p_vaddr : Nat,
                                       p_filesz : Nat]),
                        entry : Nat, valid : BOOLEAN, size : Nat \ {0},
                        content : Nat, eip : Nat, top : Nat]
    /\ \A c \in Calls :
          /\ Kernel + 2 + Cardinality(OldPages) <= c.top /\ c.top <= KHEAP
          /\ {Page(c.content), Page(c.content + c.size - 1)} \subseteq OldPages
          /\ \A i \in DOMAIN c.segments :
                c.segments[i].p_offset + c.segments[i].p_filesz <= c.size

VARIABLES
    call,       \* the call
    pc,         \* "old": program that makes it; "loop": elf_map_sections;
                \* "copy": there, with a page taken; "new", "failed": back
                \* from it; "lost": it read no header
    pnum, i, pg, \* its local variables
    m,          \* the page tables, see Paging
    ram,        \* the bytes of each frame
    tlb,        \* translations the processor has cached: page to frame
    eip,        \* where the program goes on
    mishap      \* ghost: the unsafe things that have happened so far

vars == <<call, pc, pnum, i, pg, m, ram, tlb, eip, mishap>>

Old == -1
Zero == 0
Byte(n) == n + 1

FileByte(c, addr) == IF addr \in c.content .. c.content + c.size - 1
                       THEN Byte(addr - c.content) ELSE Old

Init ==
    /\ call \in Calls
    /\ pc = "old" /\ pnum = 1 /\ i = 0 /\ pg = Null
    /\ m = [top |-> call.top, used |-> Kernel + 2 + Cardinality(OldPages),
            ok |-> TRUE, stuck |-> FALSE, data |-> <<>>,
            cache |-> [c \in {"kcache", "iocache"} |-> Absent],
            table |->
              [f \in 0 .. call.top - 1 |->
                 CASE f = Pdir -> [d \in {PDIRE(p) : p \in OldPages} |->
                                      Entry(Ptbl, TRUE)]
                   [] f = Ptbl -> [x \in {PTBLE(p) : p \in OldPages} |->
                                      Entry(OldFrame(x + PtblSize *
                                        PDIRE(Page(call.content))), TRUE)]
                   [] OTHER -> Absent]]
    /\ ram = [f \in 0 .. call.top - 1 |->
                [b \in 0 .. PGSIZE - 1 |->
                   IF \E p \in OldPages : f = OldFrame(p)
                     THEN FileByte(call, b + PGSIZE *
                             (CHOOSE p \in OldPages : f = OldFrame(p)))
                     ELSE Zero]]
    /\ \E cached \in SUBSET OldPages : tlb = [p \in cached |-> OldFrame(p)]
    /\ eip = call.eip
    /\ mishap = {}

-----------------------------------------------------------------------------
(* The processor uses a cached translation if it has one, current or not. *)
Translation(page) == IF page \in DOMAIN tlb THEN tlb[page]
                                            ELSE FrameAt(m, Pdir, page)
Seen(addr) == ram[Translation(Page(addr))][addr % PGSIZE]
Cache(pages) == Over([p \in pages |-> Translation(p)], tlb)

FilePages(from, n) == {Page(call.content + from + k) : k \in 0 .. n - 1}
Header == Seen(call.content) = Byte(0)
Segment == call.segments[pnum]
Finished == pnum > Len(call.segments)

(* elf_is_valid; content is read through the page tables. *)
ExecCall ==
    /\ pc = "old"
    /\ pc' = IF call.valid THEN "loop" ELSE "failed"
    /\ tlb' = Cache(FilePages(0, 1))
    /\ UNCHANGED <<call, pnum, i, pg, m, ram, eip, mishap>>

(* The loops read the headers again in each turn.  If something else is at
   content by then, what happens is anybody's guess. *)
ReadNoHeader ==
    /\ pc \in {"loop", "copy"}
    /\ ~Header
    /\ pc' = "lost"
    /\ UNCHANGED <<call, pnum, i, pg, m, ram, tlb, eip, mishap>>

(* Mutant of NextSegment: both loop headers advance. *)
NextSegment_twice ==
    /\ pc = "loop" /\ Header /\ ~Finished
    /\ i >= Segment.p_filesz
    /\ pnum' = pnum + 2
    /\ i' = 0
    /\ tlb' = Cache(FilePages(0, 1))
    /\ UNCHANGED <<call, pc, pg, m, ram, eip, mishap>>

NextSegment ==
    /\ pc = "loop" /\ Header /\ ~Finished
    /\ i >= Segment.p_filesz
    /\ pnum' = pnum + 1
    /\ i' = 0
    /\ tlb' = Cache(FilePages(0, 1))
    /\ UNCHANGED <<call, pc, pg, m, ram, eip, mishap>>

(* The address is too high or memory has run out. *)
NoPage == Page(Segment.p_vaddr + i) >= KHALF \/ NextFrame(m) = Null

Replaced == {p \in OldPages : FrameAt(m, Pdir, p) # OldFrame(p)}
Partial == IF Replaced # {} THEN {"partial"} ELSE {}

(* The bytes of file that memcpy reads, and where in memory the first goes. *)
Count == LET left == Segment.p_filesz - i
         IN  IF left > PGSIZE THEN PGSIZE ELSE left
Source == Segment.p_offset + i
Overwritten == \E p \in FilePages(Source, Count) : Translation(p) # OldFrame(p)
Copied(to) ==
    [f \in DOMAIN ram |-> [b \in 0 .. PGSIZE - 1 |->
        LET k == f * PGSIZE + b - to
        IN  IF k \in 0 .. Count - 1 THEN Seen(call.content + Source + k)
                                    ELSE ram[f][b]]]

(* Mutant of MapFails: the program is started all the same. *)
MapFails_starts ==
    /\ pc = "loop" /\ Header /\ ~Finished
    /\ i < Segment.p_filesz
    /\ NoPage
    /\ pc' = "failed"
    /\ eip' = call.entry
    /\ tlb' = Cache(FilePages(0, 1))
    /\ mishap' = mishap \cup Partial
    /\ UNCHANGED <<call, pnum, i, pg, m, ram>>

(* There is no page to map: exec returns 2. *)
MapFails ==
    /\ pc = "loop" /\ Header /\ ~Finished
    /\ i < Segment.p_filesz
    /\ NoPage
    /\ pc' = "failed"
    /\ tlb' = Cache(FilePages(0, 1))
    /\ mishap' = mishap \cup Partial
    /\ UNCHANGED <<call, pnum, i, pg, m, ram, eip>>

(* A turn of the inner loop gets its page. *)
TakePage ==
    /\ pc = "loop" /\ Header /\ ~Finished
    /\ i < Segment.p_filesz
    /\ ~NoPage
    /\ pc' = "copy"
    /\ pg' = NextFrame(m)
    /\ m' = Take(m)
    /\ tlb' = Cache(FilePages(0, 1))
    /\ UNCHANGED <<call, pnum, i, ram, eip, mishap>>

(* The tables with the page. *)
WithPage == vm_map_page(m, Pdir, pg, Page(Segment.p_vaddr + i), TRUE, None)

(* There is no page for the table: exec returns 2 as well, when it has copied
   to a frame that it does not give back. *)
TableFails ==
    /\ pc = "copy" /\ Header
    /\ ~WithPage.ok
    /\ pc' = "failed"
    /\ ram' = Copied(pg * PGSIZE + Source)
    /\ tlb' = Cache(FilePages(0, 1) \cup FilePages(Source, Count))
    /\ mishap' = mishap \cup Partial
    /\ UNCHANGED <<call, pnum, i, pg, m, eip>>

(* Mutant of MapPage: the bytes go to the frame that the page has now. *)
MapPage_inPlace ==
    /\ pc = "copy" /\ Header
    /\ WithPage.ok
    /\ LET page == Page(Segment.p_vaddr + i)
           f == IF Mapped(m, Pdir, page) THEN FrameAt(m, Pdir, page) ELSE pg
       IN  /\ ram' = Copied(f * PGSIZE + Source)
           /\ m' = vm_map_page(m, Pdir, f, page, TRUE, None)
    /\ pc' = "loop"
    /\ i' = i + PGSIZE
    /\ tlb' = Cache(FilePages(0, 1) \cup FilePages(Source, Count))
    /\ mishap' = mishap \cup (IF Overwritten THEN {"overwritten"} ELSE {})
    /\ UNCHANGED <<call, pnum, pg, eip>>

(* Mutant of MapPage: p_offset is forgotten in the source of the copy. *)
MapPage_noOffset ==
    /\ pc = "copy" /\ Header
    /\ WithPage.ok
    /\ ram' = [Copied(pg * PGSIZE + Source) EXCEPT ![pg] =
                  [b \in 0 .. PGSIZE - 1 |->
                      IF b - Source \in 0 .. Count - 1
                        THEN Seen(call.content + i + b - Source)
                        ELSE Zero]]
    /\ m' = WithPage
    /\ pc' = "loop"
    /\ i' = i + PGSIZE
    /\ tlb' = Cache(FilePages(0, 1) \cup FilePages(Source, Count))
    /\ mishap' = mishap \cup (IF Overwritten THEN {"overwritten"} ELSE {})
    /\ UNCHANGED <<call, pnum, pg, eip>>

(* The turn copies to the page's address plus p_offset plus i and maps the
   page; what it has read stays cached under the old mapping. *)
MapPage ==
    /\ pc = "copy" /\ Header
    /\ WithPage.ok
    /\ ram' = Copied(pg * PGSIZE + Source)
    /\ m' = WithPage
    /\ pc' = "loop"
    /\ i' = i + PGSIZE
    /\ tlb' = Cache(FilePages(0, 1) \cup FilePages(Source, Count))
    /\ mishap' = mishap \cup (IF Overwritten THEN {"overwritten"} ELSE {})
    /\ UNCHANGED <<call, pnum, pg, eip>>

LowByte(addr) == addr % Block

(* Mutant of ExecReturn: the entry point is not flushed. *)
ExecReturn_noFlush ==
    /\ pc = "loop" /\ Header /\ Finished
    /\ pc' = "new"
    /\ eip' = eip - LowByte(eip) + LowByte(call.entry)
    /\ UNCHANGED <<call, pnum, i, pg, m, ram, tlb, mishap>>

(* The return address is a 32-bit word on the user's stack; the store is one
   byte wide.  Then the entry's page is flushed. *)
ExecReturn ==
    /\ pc = "loop" /\ Header /\ Finished
    /\ pc' = "new"
    /\ eip' = eip - LowByte(eip) + LowByte(call.entry)
    /\ tlb' = [p \in DOMAIN tlb \ {Page(call.entry)} |-> tlb[p]]
    /\ UNCHANGED <<call, pnum, i, pg, m, ram, mishap>>

(* The translation of a page that has been replaced is forgotten. *)
Flushed(kept) ==
    IF pc \in {"loop", "copy"} /\ (DOMAIN tlb \ kept) \cap Replaced # {}
      THEN {"flushed"} ELSE {}

(* The processor forgets translations when it likes. *)
Forget ==
    /\ pc # "lost"
    /\ \E kept \in SUBSET DOMAIN tlb :
          /\ tlb' = [p \in kept |-> tlb[p]]
          /\ mishap' = mishap \cup Flushed(kept)
    /\ UNCHANGED <<call, pc, pnum, i, pg, m, ram, eip>>

(* The timer interrupts the call, and another task is given a frame.  When
   this one is dispatched again its directory is loaded, and the processor
   has forgotten all translations. *)
OtherTakes ==
    /\ pc \in {"loop", "copy"}
    /\ NextFrame(m) # Null
    /\ m' = Take(m)
    /\ tlb' = Absent
    /\ mishap' = mishap \cup Flushed({})
    /\ UNCHANGED <<call, pc, pnum, i, pg, ram, eip>>

Next == \/ ExecCall \/ ReadNoHeader \/ NextSegment \/ MapFails \/ TakePage
        \/ TableFails \/ MapPage \/ ExecReturn \/ Forget \/ OtherTakes

Spec == Init /\ [][Next]_vars

-----------------------------------------------------------------------------
Segments == {call.segments[x] : x \in DOMAIN call.segments}

(* A segment that lies in one page, as far from its start as in the file. *)
Plain(s) == /\ s.p_offset = s.p_vaddr % PGSIZE
            /\ s.p_offset + s.p_filesz <= PGSIZE
PlainProgram ==
    /\ \A s \in Segments : Plain(s)
    /\ \A x, y \in DOMAIN call.segments :
          x # y => Page(call.segments[x].p_vaddr)
                       # Page(call.segments[y].p_vaddr)

InTable(addr) == IF Mapped(m, Pdir, Page(addr))
                   THEN ram[FrameAt(m, Pdir, Page(addr))][addr % PGSIZE]
                   ELSE Old

Loaded == \A s \in Segments : \A k \in 0 .. s.p_filesz - 1 :
             InTable(s.p_vaddr + k) = Byte(s.p_offset + k)

(* The type invariant of the loader. *)
TypeOK ==
    /\ call \in Calls
    /\ pc \in {"old", "loop", "copy", "new", "failed", "lost"}
    /\ pnum \in 1 .. Len(call.segments) + 1 /\ i \in Nat /\ pg \in 0 .. m.used - 1
    /\ m.used \in Kernel .. call.top
    /\ ram \in [0 .. call.top - 1 -> [0 .. PGSIZE - 1 -> Int]]
    /\ \A p \in DOMAIN tlb : tlb[p] \in 0 .. m.used - 1
    /\ eip \in Nat
    /\ mishap \subseteq {"partial", "flushed", "overwritten"}

(* When exec succeeds every byte of the file's segments is where the file
   says, if every segment lies in one page of its own, and nothing was copied
   from where a page of the new program had taken the place of the file's. *)
PlainProgramsLoad ==
    pc = "new" /\ PlainProgram /\ "overwritten" \notin mishap => Loaded

(* The comment of elf_map_sections: the contents of each segment are copied
   to the memory allocated for it. *)
ProgramsLoad == pc = "new" /\ mishap = {} => Loaded

SameBlock == eip - LowByte(eip) = call.entry - LowByte(call.entry)
Starts(s) == call.entry - s.p_vaddr \in 0 .. s.p_filesz - 1
FirstByte == LET s == CHOOSE s \in Segments : Starts(s)
             IN  Byte(s.p_offset + call.entry - s.p_vaddr)

(* The first instruction that is fetched after exec is the one the file has at
   its entry point, whatever the processor had cached, if that was in the same
   block as the return address: for no other is one byte enough.  Replacing
   the page that the headers are in is survived thanks to the stale
   translation, unless that is forgotten. *)
StartsAtEntry ==
    /\ /\ pc = "new" /\ SameBlock /\ PlainProgram
       /\ "overwritten" \notin mishap
       /\ \E s \in Segments : Starts(s)
       => Seen(eip) = FirstByte
    /\ pc = "lost" => "flushed" \in mishap

(* A program whose exec failed is what it was and goes on where it was, as
   the task does not know otherwise; unless pages had been replaced. *)
OldProgramSurvives ==
    pc = "failed" /\ "partial" \notin mishap =>
        /\ eip = call.eip
        /\ \A p \in OldPages, b \in 0 .. PGSIZE - 1 :
              Seen(p * PGSIZE + b) = FileByte(call, p * PGSIZE + b)

(* What every other frame's holder relies on: of the frames that are held, those
   that were when elf_map_sections took its page. *)
Held == IF pc = "copy" THEN 0 .. pg - 1 ELSE 0 .. m.used - 1

(* Whatever the segments are, the copy writes no frame that somebody held when
   the page was taken.  It can overrun the page, and so writes a frame that another
   task has been given in between, but no other. *)
HeldFramesStay ==
    [][\A f \in Held : f \in DOMAIN ram => ram'[f] = ram[f]]_vars
=============================================================================
