-------------------------------- MODULE MCPm --------------------------------
(***************************************************************************)
(* Small instances of Pm: 18 words of bitmap (2.25 MiB), a kernel image    *)
(* that ends three frames before the boundary of words 8 and 9, and        *)
(* multiboot records whose usable memory lies around that boundary.        *)
(***************************************************************************)
EXTENDS Pm

MCEKernel == Mib + 29 * PGSIZE

Entry(addr, len, available) ==
    [addr |-> addr, addr0 |-> 0, len |-> len, len0 |-> 0,
     available |-> available]

Map(mmap) == [mem_map |-> TRUE, mmap |-> mmap, mem_upper |-> 0]
NoMap(mem_upper) == [mem_map |-> FALSE, mmap |-> {}, mem_upper |-> mem_upper]

LowMemory == Entry(0, 159 * PGSIZE + 3072, TRUE)    \* below 640 KiB
Reserved == Entry(Mib + 31 * PGSIZE, Mib + 33 * PGSIZE, FALSE)

(* Maps with memory around the word boundary, up to a frame and into one, a
   map whose memory beyond the kernel is all reserved, one with next to
   nothing above the first MiB, and two records without a map: more than
   1 GiB, and less. *)
SoundBoot ==
    {Map({LowMemory, Entry(Mib, Mib + 34 * PGSIZE, TRUE)}),
     Map({LowMemory, Entry(Mib, Mib + 33 * PGSIZE + 100, TRUE)}),
     Map({LowMemory, Entry(Mib, 31 * PGSIZE, TRUE), Reserved}),
     Map({LowMemory, Entry(Mib, 2 * PGSIZE, TRUE)}),
     NoMap(Mib + 34 * PGSIZE),
     NoMap(64 * Kib)}

ASSUME SoundAssumption == \A m \in SoundBoot : SoundRecord(m)

(* Bound: no steps after a race, of which Pm promises nothing any more. *)
NoRace == Without({"race"})
=============================================================================
