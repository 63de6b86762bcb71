--------------------------------- MODULE Pm ---------------------------------
(***************************************************************************)
(* The physical frame allocator of src/pm.c: a bitmap of 32-bit words, one *)
(* bit per 4 KiB frame, a set bit for a frame that is locked.  Addresses   *)
(* are numbers below AddrSpan; with the MNGR_SIZE of the source, 2^15, that*)
(* is the whole 32-bit physical address space.                             *)
(***************************************************************************)
EXTENDS Integers

CONSTANTS MNGR_SIZE,    \* words of the bitmap
          Callers,      \* tasks whose system calls allocate frames
          EKernel,      \* KH2P(ekernel): physical end of the kernel image
          BootInfo      \* the multiboot records the loader may pass

WordBits == 32
PGSIZE == 4096
WordSpan == 131072                  \* WordBits * PGSIZE: the `>> 17' of pm.c
AddrSpan == MNGR_SIZE * WordSpan
Kib == 1024
Mib == 1048576

Block == 0 .. MNGR_SIZE - 1
Bit == 0 .. WordBits - 1

(* A memory map entry: 64-bit base and length as two words each, as in
   multiboot.h, and whether its type is MULTIBOOT_MEMORY_AVAILABLE. *)
Region == [addr : 0 .. AddrSpan - 1, addr0 : Nat,
           len : 0 .. AddrSpan - 1, len0 : Nat, available : BOOLEAN]

ASSUME SizeAssumption == MNGR_SIZE \in Nat \ {0}
(* The image starts at 1 MiB, and linker.ld aligns its end to 4 KiB. *)
ASSUME KernelAssumption == /\ EKernel \in Mib .. AddrSpan - 1
                           /\ EKernel % PGSIZE = 0
ASSUME BootAssumption ==
    \A m \in BootInfo : /\ m.mem_map \in BOOLEAN
                        /\ m.mmap \subseteq Region
                        /\ m.mem_upper \in Nat

VARIABLES pm_mngr,  \* the bits set in each word
          mbi,      \* the record the loader passed to kmain
          booted,   \* pm_init has returned
          found,    \* the frame each caller has found clear, or None
          word,     \* the word of the bitmap it found it in, as it read it
          ret,      \* answer of the latest pm_alloc_frame, 0 for a refusal
          pool,     \* ghost: frames free when pm_init returned
          out,      \* ghost: frames handed out and not given back
          mishap    \* ghost: the unsafe things that have happened so far

vars == <<pm_mngr, mbi, booted, found, word, ret, pool, out, mishap>>

None == -1

-----------------------------------------------------------------------------
Address(block, frame) == (block * WordBits + frame) * PGSIZE
Frame == {Address(block, frame) : block \in Block, frame \in Bit}

BlockOf(where) == where \div WordSpan

(* Mutant of BitOf: the bit index masked with 15 instead of 31. *)
BitOf_mask15(where) == (where \div PGSIZE) % 16

BitOf(where) == (where \div PGSIZE) % WordBits

(* Mutant of pm_lock_frame: the bit index is not masked. *)
pm_lock_frame_unmasked(mngr, where) ==
    [mngr EXCEPT ![BlockOf(where)] = @ \cup {where \div PGSIZE}]

pm_lock_frame(mngr, where) ==
    [mngr EXCEPT ![BlockOf(where)] = @ \cup {BitOf(where)}]

pm_unlock_frame(mngr, where) ==
    [mngr EXCEPT ![BlockOf(where)] = @ \ {BitOf(where)}]

Free(mngr) == {f \in Frame : BitOf(f) \notin mngr[BlockOf(f)]}

(* The values `start' takes in one pass of a loop of pm_init. *)
Starts(from, limit) ==
    {start \in {from + k * PGSIZE : k \in 0 .. limit \div PGSIZE} :
        start < limit}

(* Mutant of MapStarts: the type of an entry is not looked at. *)
MapStarts_anyType(m) ==
    UNION {{start \in Starts(e.addr, e.len) : start > EKernel} : e \in m.mmap}

MapStarts(m) ==
    UNION {{start \in Starts(e.addr, e.len) : start > EKernel} :
               e \in {e \in m.mmap : e.available}}

UpperStarts(m) == Starts(EKernel, m.mem_upper)

FreedAtBoot(m) == IF m.mem_map THEN MapStarts(m) ELSE UpperStarts(m)

-----------------------------------------------------------------------------
(* The bitmap is in the bss, all bits clear, until pm_init sets them all. *)
Init == /\ pm_mngr = [block \in Block |-> {}]
        /\ mbi \in BootInfo
        /\ booted = FALSE
        /\ found = [c \in Callers |-> None]
        /\ word = [c \in Callers |-> {}]
        /\ ret = 0
        /\ pool = {}
        /\ out = {}
        /\ mishap = {}

pm_init ==
    /\ ~booted
    /\ LET starts == FreedAtBoot(mbi)
       IN  pm_mngr' = [block \in Block |->
               Bit \ {BitOf(s) : s \in {s \in starts : BlockOf(s) = block}}]
    /\ booted' = TRUE
    /\ pool' = Free(pm_mngr')
    /\ UNCHANGED <<mbi, found, word, ret, out, mishap>>

(* The scan stops at the first word with a clear bit, at its lowest one. *)
FirstClear(mngr, block, frame) ==
    /\ \A b \in Block : b < block => mngr[b] = Bit
    /\ frame \notin mngr[block]
    /\ \A f \in Bit : f < frame => f \in mngr[block]

(* pm_alloc_frame tests a bit and locks it later, and a system call may be
   interrupted in between.  Up to the test it is one step: after the boot bits
   are only set, so the words that were passed as full still are. *)
FindFrame(c) ==
    /\ booted /\ found[c] = None
    /\ \E block \in Block, frame \in Bit :
          /\ FirstClear(pm_mngr, block, frame)
          /\ found' = [found EXCEPT ![c] = Address(block, frame)]
          /\ word' = [word EXCEPT ![c] = pm_mngr[block]]
    /\ UNCHANGED <<pm_mngr, mbi, booted, ret, pool, out, mishap>>

(* The compiler may or the bit into memory, or into the word it has in a
   register since the test. *)
LockFrame(c) ==
    /\ found[c] # None
    /\ LET block == BlockOf(found[c])
       IN  /\ \E read \in {word[c], pm_mngr[block]} :
                 pm_mngr' = pm_lock_frame([pm_mngr EXCEPT ![block] = read],
                                          found[c])
           /\ mishap' = IF pm_mngr[block] = word[c] THEN mishap
                        ELSE mishap \cup {"race"}
    /\ ret' = found[c]
    /\ out' = out \cup {found[c]}
    /\ found' = [found EXCEPT ![c] = None]
    /\ word' = [word EXCEPT ![c] = {}]
    /\ UNCHANGED <<mbi, booted, pool>>

(* Mutant of pm_alloc_frame_fails: the scan gives up at the first full word. *)
pm_alloc_frame_fails_firstFull(c) ==
    /\ booted /\ found[c] = None
    /\ pm_mngr[0] = Bit
    /\ ret' = 0
    /\ UNCHANGED <<pm_mngr, mbi, booted, found, word, pool, out, mishap>>

pm_alloc_frame_fails(c) ==
    /\ booted /\ found[c] = None
    /\ \A block \in Block : pm_mngr[block] = Bit
    /\ ret' = 0
    /\ UNCHANGED <<pm_mngr, mbi, booted, found, word, pool, out, mishap>>

(* Exported by pm.h; a caller gives back a frame it was given. *)
pm_free_frame ==
    /\ booted
    /\ \E where \in out : /\ pm_mngr' = pm_unlock_frame(pm_mngr, where)
                          /\ out' = out \ {where}
    /\ UNCHANGED <<mbi, booted, found, word, ret, pool, mishap>>

Next == \/ pm_init
        \/ pm_free_frame
        \/ \E c \in Callers :
              FindFrame(c) \/ LockFrame(c) \/ pm_alloc_frame_fails(c)

Spec == Init /\ [][Next]_vars

-----------------------------------------------------------------------------
(* The type invariant of the allocator's state. *)
TypeOK == /\ pm_mngr \in [Block -> SUBSET Bit]
          /\ mbi \in BootInfo
          /\ booted \in BOOLEAN
          /\ found \in [Callers -> Frame \cup {None}]
          /\ word \in [Callers -> SUBSET Bit]
          /\ ret \in Frame \cup {0}
          /\ pool \subseteq Frame
          /\ out \subseteq Frame
          /\ mishap \subseteq {"race"}

Without(mishaps) == mishap \cap mishaps = {}

(* Every frame the boot found free is either still clear in the bitmap or
   has exactly one holder, and the bitmap holds no other clear bit: an
   allocation never answers a frame that is in use, and locking or freeing
   one frame never touches the bit of another.  This lasts until a word of
   the bitmap changes between the test of one of its bits and the lock. *)
FramesAccounted ==
    booted /\ Without({"race"}) => /\ Free(pm_mngr) \cap out = {}
                                  /\ Free(pm_mngr) \cup out = pool

InRegion(e, f) ==
    /\ e.available
    /\ e.addr + e.addr0 * AddrSpan <= f
    /\ f + PGSIZE <= e.addr + e.len + (e.addr0 + e.len0) * AddrSpan

MemorySize(m) == Mib + m.mem_upper * Kib

(* A record that pm_init can read right although it looks at the low words
   only, and stops at the length of a region where it should stop at its end:
   the regions that are available lie below 4 GiB, start on a frame, and a
   region that starts at 0 does not reach beyond the kernel. *)
SoundRecord(m) ==
    m.mem_map => \A e \in m.mmap :
        e.available => /\ e.addr0 = 0
                       /\ e.addr % PGSIZE = 0
                       /\ e.addr > 0 \/ e.len <= EKernel

(* What the boot makes free is usable memory: above the kernel image, and
   inside a region the memory map calls available, or below the memory size
   when there is no map. *)
OnlyUsableMemory ==
    \A f \in pool : /\ f >= EKernel
                    /\ IF mbi.mem_map THEN \E e \in mbi.mmap : InRegion(e, f)
                                      ELSE f + PGSIZE <= MemorySize(mbi)

Allocator == INSTANCE FrameAllocator
    WITH Null <- 0, Frame <- Frame \ {0},
         free <- IF booted THEN Free(pm_mngr) ELSE {},
         held <- out, answer <- ret

(* Up to a race, the bitmap implements the abstract frame allocator. *)
AllocatorSpec ==
    /\ Allocator!Init
    /\ [][mishap' = {} => (Allocator!Next \/ UNCHANGED Allocator!vars)]_vars
=============================================================================
