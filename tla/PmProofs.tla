------------------------------ MODULE PmProofs ------------------------------
(***************************************************************************)
(* Proofs about the frame allocator, for every bitmap size, kernel size    *)
(* and set of boot records that Pm's assumptions admit.                    *)
(***************************************************************************)
EXTENDS Pm, TLAPS

Mngr == [Block -> SUBSET Bit]

(* The address arithmetic of pm.c: the shifts and masks of pm_lock_frame
   recover the word and the bit that pm_alloc_frame composed. *)
LEMMA AddressRoundTrip ==
    ASSUME NEW b \in Block, NEW f \in Bit
    PROVE  /\ Address(b, f) \in Frame
           /\ Address(b, f) \in Nat
           /\ BlockOf(Address(b, f)) = b
           /\ BitOf(Address(b, f)) = f
<1>1. b \in Nat /\ f \in 0 .. 31
  BY SizeAssumption DEF Block, Bit, WordBits
<1>2. Address(b, f) = 131072 * b + 4096 * f
  BY <1>1 DEF Address, WordBits, PGSIZE
<1>3. (131072 * b + 4096 * f) \div 131072 = b
  BY <1>1
<1>4. (131072 * b + 4096 * f) \div 4096 = 32 * b + f
  BY <1>1
<1>5. (32 * b + f) % 32 = f
  BY <1>1
<1>6. Address(b, f) \in Frame
  BY DEF Frame
<1>. QED
  BY <1>1, <1>2, <1>3, <1>4, <1>5, <1>6
  DEF BlockOf, BitOf, WordSpan, PGSIZE, WordBits

(* A frame is named by its word and its bit. *)
LEMMA FrameCoordinates ==
    ASSUME NEW f \in Frame
    PROVE  /\ f \in Nat
           /\ BlockOf(f) \in Block
           /\ BitOf(f) \in Bit
           /\ f = Address(BlockOf(f), BitOf(f))
<1>1. PICK b \in Block, i \in Bit : f = Address(b, i)
  BY DEF Frame
<1>. QED
  BY <1>1, AddressRoundTrip

(* Two frames that share word and bit are one frame. *)
LEMMA FrameInjective ==
    ASSUME NEW f \in Frame, NEW g \in Frame,
           BlockOf(f) = BlockOf(g), BitOf(f) = BitOf(g)
    PROVE  f = g
BY FrameCoordinates

(* Locking a frame takes that frame, and no other, from the free ones. *)
LEMMA LockTakesOne ==
    ASSUME NEW m \in Mngr, NEW g \in Frame
    PROVE  /\ pm_lock_frame(m, g) \in Mngr
           /\ Free(pm_lock_frame(m, g)) = Free(m) \ {g}
<1>. DEFINE n == pm_lock_frame(m, g)
<1>1. BlockOf(g) \in Block /\ BitOf(g) \in Bit
  BY FrameCoordinates
<1>2. n \in Mngr
  BY <1>1 DEF Mngr, pm_lock_frame
<1>3. ASSUME NEW f \in Frame
      PROVE  f \in Free(n) <=> f \in Free(m) \ {g}
  <2>1. BlockOf(f) \in Block
    BY FrameCoordinates
  <2>2. BitOf(f) \in n[BlockOf(f)] <=>
            BitOf(f) \in m[BlockOf(f)]
            \/ (BlockOf(f) = BlockOf(g) /\ BitOf(f) = BitOf(g))
    BY <1>1, <2>1 DEF Mngr, pm_lock_frame
  <2>3. (BlockOf(f) = BlockOf(g) /\ BitOf(f) = BitOf(g)) <=> f = g
    BY FrameInjective
  <2>. QED
    BY <2>2, <2>3 DEF Free
<1>. QED
  BY <1>2, <1>3 DEF Free

(* Freeing a frame adds that frame, and no other, to the free ones. *)
LEMMA UnlockAddsOne ==
    ASSUME NEW m \in Mngr, NEW g \in Frame
    PROVE  /\ pm_unlock_frame(m, g) \in Mngr
           /\ Free(pm_unlock_frame(m, g)) = Free(m) \cup {g}
<1>. DEFINE n == pm_unlock_frame(m, g)
<1>1. BlockOf(g) \in Block /\ BitOf(g) \in Bit
  BY FrameCoordinates
<1>2. n \in Mngr
  BY <1>1 DEF Mngr, pm_unlock_frame
<1>3. ASSUME NEW f \in Frame
      PROVE  f \in Free(n) <=> f \in Free(m) \cup {g}
  <2>1. BlockOf(f) \in Block
    BY FrameCoordinates
  <2>2. BitOf(f) \in n[BlockOf(f)] <=>
            BitOf(f) \in m[BlockOf(f)]
            /\ ~(BlockOf(f) = BlockOf(g) /\ BitOf(f) = BitOf(g))
    BY <1>1, <2>1 DEF Mngr, pm_unlock_frame
  <2>3. (BlockOf(f) = BlockOf(g) /\ BitOf(f) = BitOf(g)) <=> f = g
    BY FrameInjective
  <2>. QED
    BY <2>2, <2>3 DEF Free
<1>. QED
  BY <1>2, <1>3 DEF Free

(* Every start address of pm_init's loops is a number at or above the end of
   the kernel. *)
LEMMA StartsAboveKernel ==
    ASSUME NEW m \in BootInfo, NEW s \in FreedAtBoot(m)
    PROVE  s \in Nat /\ s >= EKernel
<1>k. EKernel \in Nat
  BY KernelAssumption DEF Mib
<1>1. CASE m.mem_map
  <2>1. PICK e \in m.mmap : s \in Starts(e.addr, e.len) /\ s > EKernel
    BY <1>1 DEF FreedAtBoot, MapStarts
  <2>2. e.addr \in Nat /\ e.len \in Nat
    BY <2>1, BootAssumption, SizeAssumption
    DEF Region, AddrSpan, WordSpan
  <2>3. PICK k \in 0 .. e.len \div PGSIZE : s = e.addr + k * PGSIZE
    BY <2>1 DEF Starts
  <2>. QED
    BY <2>1, <2>2, <2>3, <1>k DEF PGSIZE
<1>2. CASE ~m.mem_map
  <2>1. s \in Starts(EKernel, m.mem_upper)
    BY <1>2 DEF FreedAtBoot, UpperStarts
  <2>2. PICK k \in 0 .. m.mem_upper \div PGSIZE : s = EKernel + k * PGSIZE
    BY <2>1 DEF Starts
  <2>3. k \in Nat
    BY <2>2, BootAssumption DEF PGSIZE
  <2>. QED
    BY <2>2, <2>3, <1>k DEF PGSIZE
<1>. QED
  BY <1>1, <1>2

-----------------------------------------------------------------------------
(* The bitmap that pm_init leaves. *)
Booted(m) == [block \in Block |->
                 Bit \ {BitOf(s) : s \in {s \in FreedAtBoot(m) :
                                             BlockOf(s) = block}}]

(* pm_init leaves a frame clear only if one of its starts lies in it. *)
LEMMA PoolHasStart ==
    ASSUME NEW m \in BootInfo, NEW f \in Free(Booted(m))
    PROVE  \E s \in FreedAtBoot(m) : /\ s \in Nat /\ s >= EKernel
                                     /\ f \in Nat /\ f = s - (s % 4096)
<1>f. f \in Frame
  BY DEF Free
<1>1. BlockOf(f) \in Block /\ BitOf(f) \in Bit /\ f \in Nat
  BY <1>f, FrameCoordinates
<1>2. PICK s \in FreedAtBoot(m) : BlockOf(s) = BlockOf(f) /\ BitOf(s) = BitOf(f)
  BY <1>1 DEF Free, Booted
<1>3. s \in Nat /\ s >= EKernel
  BY StartsAboveKernel
<1>4. f = BlockOf(f) * 131072 + BitOf(f) * 4096
  <2>1. BlockOf(f) \in Nat /\ BitOf(f) \in Nat
    <3>1. Block \subseteq Nat /\ Bit \subseteq Nat
      BY SizeAssumption DEF Block, Bit, WordBits
    <3>. QED
      BY <1>1, <3>1
  <2>2. f = (BlockOf(f) * 32 + BitOf(f)) * 4096
    BY <1>f, FrameCoordinates DEF Address, WordBits, PGSIZE
  <2>. QED
    BY <2>1, <2>2
<1>5. BlockOf(s) * 131072 + BitOf(s) * 4096 = s - (s % 4096)
  <2>1. s = 131072 * (s \div 131072) + 4096 * ((s \div 4096) % 32)
            + (s % 4096)
    BY <1>3
  <2>. QED
    BY <2>1, <1>3 DEF BlockOf, BitOf, WordSpan, PGSIZE, WordBits
<1>6. f = s - (s % 4096)
  BY <1>2, <1>4, <1>5
<1>. QED
  BY <1>1, <1>3, <1>6

(* Every frame of the pool is above the kernel, and frame 0 is not one. *)
LEMMA PoolAboveKernel ==
    ASSUME NEW m \in BootInfo, NEW f \in Free(Booted(m))
    PROVE  f >= EKernel
<1>1. EKernel \in Nat /\ EKernel % 4096 = 0
  BY KernelAssumption DEF Mib, PGSIZE
<1>2. PICK s \in FreedAtBoot(m) : /\ s \in Nat /\ s >= EKernel
                                  /\ f = s - (s % 4096)
  BY PoolHasStart
<1>. QED
  BY <1>1, <1>2

(* A frame that a sound record makes free lies within memory. *)
LEMMA PoolIsMemory ==
    ASSUME NEW m \in BootInfo, SoundRecord(m), NEW f \in Free(Booted(m))
    PROVE  IF m.mem_map THEN \E e \in m.mmap : InRegion(e, f)
                        ELSE f + PGSIZE <= MemorySize(m)
<1>k. EKernel \in Nat /\ EKernel % 4096 = 0
  BY KernelAssumption DEF Mib, PGSIZE
<1>1. PICK s \in FreedAtBoot(m) : /\ s \in Nat /\ s >= EKernel
                                  /\ f \in Nat /\ f = s - (s % 4096)
  BY PoolHasStart
<1>2. CASE m.mem_map
  <2>1. PICK e \in m.mmap : /\ e.available
                            /\ s \in Starts(e.addr, e.len) /\ s > EKernel
    BY <1>1, <1>2 DEF FreedAtBoot, MapStarts
  <2>2. e \in Region
    BY <1>2, <2>1, BootAssumption
  <2>3. e.addr \in Nat /\ e.len \in Nat /\ e.len0 \in Nat /\ AddrSpan \in Nat
    BY <2>2, SizeAssumption DEF Region, AddrSpan, WordSpan
  <2>4. e.addr0 = 0 /\ e.addr % 4096 = 0 /\ (e.addr > 0 \/ e.len <= EKernel)
    BY <1>2, <2>1 DEF SoundRecord, PGSIZE
  <2>5. PICK k \in 0 .. e.len \div PGSIZE : s = e.addr + k * PGSIZE
    BY <2>1 DEF Starts
  <2>6. s < e.len
    BY <2>1 DEF Starts
  <2>7. k \in Nat /\ s = e.addr + k * 4096
    BY <2>3, <2>5 DEF PGSIZE
  <2>8. e.addr >= 4096
    BY <2>1, <2>3, <2>4, <2>6, <1>1, <1>k
  <2>9. e.addr <= f
    BY <1>1, <2>3, <2>4, <2>7
  <2>10. f + 4096 <= e.addr + e.len
    BY <1>1, <2>3, <2>6, <2>8
  <2>11. e.len0 * AddrSpan \in Nat
    BY <2>3
  <2>12. e.addr + e.addr0 * AddrSpan = e.addr
    BY <2>3, <2>4
  <2>13. e.addr0 + e.len0 = e.len0
    BY <2>3, <2>4
  <2>14. InRegion(e, f)
    BY <1>1, <2>1, <2>3, <2>9, <2>10, <2>11, <2>12, <2>13
    DEF InRegion, PGSIZE
  <2>. QED
    BY <1>2, <2>1, <2>14
<1>3. CASE ~m.mem_map
  <2>1. s < m.mem_upper
    BY <1>1, <1>3 DEF FreedAtBoot, UpperStarts, Starts
  <2>2. m.mem_upper \in Nat
    BY BootAssumption
  <2>3. f + 4096 <= 1048576 + m.mem_upper * 1024
    BY <1>1, <2>1, <2>2
  <2>. QED
    BY <1>3, <2>3 DEF MemorySize, Mib, Kib, PGSIZE
<1>. QED
  BY <1>2, <1>3

-----------------------------------------------------------------------------
(* What a caller has found was clear when it read the word. *)
FoundClear == \A c \in Callers : found[c] # None => BitOf(found[c]) \notin word[c]

(* The inductive invariant: before the boot nothing is out; afterwards the
   clear bits and the frames that are out share out the pool, all of it above
   the kernel. *)
IInv == /\ TypeOK
        /\ ~booted => /\ pool = {} /\ out = {} /\ ret = 0
                      /\ \A c \in Callers : found[c] = None
        /\ FoundClear
        /\ FramesAccounted
        /\ \A f \in pool : f >= EKernel

LEMMA NoneIsNoFrame == None \notin Frame
BY FrameCoordinates DEF None

LEMMA InitIInv == Init => IInv
<1>. SUFFICES ASSUME Init PROVE IInv
  OBVIOUS
<1>1. TypeOK
  BY DEF Init, TypeOK
<1>. QED
  BY <1>1 DEF Init, IInv, FramesAccounted, FoundClear

(* A lock in a word that has not changed since it was read takes the frame
   that was found, which is free; any lock keeps the bitmap's type. *)
LEMMA LockStep ==
    ASSUME IInv, NEW c \in Callers, LockFrame(c)
    PROVE  /\ found[c] \in Frame
           /\ booted
           /\ pm_mngr' \in Mngr
           /\ Without({"race"})' =>
                 /\ Without({"race"})
                 /\ found[c] \in Free(pm_mngr)
                 /\ Free(pm_mngr') = Free(pm_mngr) \ {found[c]}
<1>. DEFINE g == found[c]
            block == BlockOf(g)
            Half(read) == [pm_mngr EXCEPT ![block] = read]
<1>1. g \in Frame /\ g # None
  BY DEF LockFrame, IInv, TypeOK
<1>2. booted
  BY <1>1 DEF IInv
<1>3. block \in Block /\ BitOf(g) \in Bit
  BY <1>1, FrameCoordinates
<1>4. pm_mngr \in Mngr /\ word[c] \in SUBSET Bit /\ pm_mngr[block] \in SUBSET Bit
  BY <1>3 DEF IInv, TypeOK, Mngr
<1>5. PICK read \in {word[c], pm_mngr[block]} :
          pm_mngr' = pm_lock_frame(Half(read), g)
  BY DEF LockFrame
<1>6. Half(read) \in Mngr
  BY <1>3, <1>4, <1>5 DEF Mngr
<1>7. pm_mngr' \in Mngr /\ Free(pm_mngr') = Free(Half(read)) \ {g}
  BY <1>1, <1>5, <1>6, LockTakesOne
<1>8. ASSUME Without({"race"})'
      PROVE  /\ Without({"race"})
             /\ g \in Free(pm_mngr)
             /\ Free(pm_mngr') = Free(pm_mngr) \ {g}
  <2>1. Without({"race"}) /\ pm_mngr[block] = word[c]
    BY <1>8 DEF LockFrame, Without
  <2>2. Half(read) = pm_mngr
    BY <1>4, <1>5, <2>1 DEF Mngr
  <2>3. g \in Free(pm_mngr)
    BY <1>1, <2>1 DEF IInv, FoundClear, Free
  <2>. QED
    BY <1>7, <2>1, <2>2, <2>3
<1>. QED
  BY <1>1, <1>2, <1>7, <1>8

LEMMA NextIInv == IInv /\ [Next]_vars => IInv'
<1>. SUFFICES ASSUME IInv, [Next]_vars PROVE IInv'
  OBVIOUS
<1>t. pm_mngr \in Mngr /\ pool \subseteq Frame /\ out \subseteq Frame
  BY DEF IInv, TypeOK, Mngr
<1>1. CASE pm_init
  <2>1. /\ out' = {} /\ booted' /\ mbi' = mbi /\ ret' = 0
        /\ pool' = Free(pm_mngr')
        /\ found' = found /\ word' = word /\ mishap' = mishap
    BY <1>1 DEF pm_init, IInv
  <2>2. pm_mngr' \in [Block -> SUBSET Bit]
    BY <1>1 DEF pm_init
  <2>3. TypeOK'
    BY <2>1, <2>2 DEF IInv, TypeOK, Free
  <2>4. \A f \in pool' : f >= EKernel
    BY <1>1, <2>1, PoolAboveKernel DEF pm_init, IInv, TypeOK, Booted
  <2>. QED
    BY <2>1, <2>3, <2>4 DEF IInv, FramesAccounted, FoundClear
<1>2. ASSUME NEW c \in Callers, FindFrame(c)
      PROVE  IInv'
  <2>1. PICK block \in Block, frame \in Bit :
            /\ FirstClear(pm_mngr, block, frame)
            /\ found' = [found EXCEPT ![c] = Address(block, frame)]
            /\ word' = [word EXCEPT ![c] = pm_mngr[block]]
    BY <1>2 DEF FindFrame
  <2>2. Address(block, frame) \in Frame /\ BitOf(Address(block, frame)) = frame
    BY AddressRoundTrip
  <2>3. UNCHANGED <<pm_mngr, mbi, booted, ret, pool, out, mishap>> /\ booted
    BY <1>2 DEF FindFrame
  <2>4. TypeOK'
    <3>1. pm_mngr[block] \in SUBSET Bit
      BY <1>t DEF Mngr
    <3>. QED
      BY <2>1, <2>2, <2>3, <3>1 DEF IInv, TypeOK
  <2>5. FoundClear'
    <3>1. frame \notin pm_mngr[block]
      BY <2>1 DEF FirstClear
    <3>. QED
      BY <2>1, <2>2, <3>1 DEF IInv, TypeOK, FoundClear
  <2>. QED
    BY <2>3, <2>4, <2>5 DEF IInv, FramesAccounted, Without
<1>3. ASSUME NEW c \in Callers, LockFrame(c)
      PROVE  IInv'
  <2>1. /\ found[c] \in Frame /\ booted /\ pm_mngr' \in Mngr
        /\ Without({"race"})' =>
              /\ Without({"race"})
              /\ found[c] \in Free(pm_mngr)
              /\ Free(pm_mngr') = Free(pm_mngr) \ {found[c]}
    BY <1>3, LockStep
  <2>2. /\ ret' = found[c] /\ out' = out \cup {found[c]}
        /\ found' = [found EXCEPT ![c] = None]
        /\ word' = [word EXCEPT ![c] = {}]
        /\ mbi' = mbi /\ booted' = booted /\ pool' = pool
        /\ mishap' \subseteq mishap \cup {"race"}
    BY <1>3 DEF LockFrame
  <2>3. TypeOK'
    BY <2>1, <2>2 DEF IInv, TypeOK, Mngr
  <2>4. FoundClear'
    BY <2>2 DEF IInv, TypeOK, FoundClear
  <2>5. FramesAccounted'
    BY <2>1, <2>2 DEF IInv, FramesAccounted
  <2>. QED
    BY <2>1, <2>2, <2>3, <2>4, <2>5 DEF IInv
<1>4. ASSUME NEW c \in Callers, pm_alloc_frame_fails(c)
      PROVE  IInv'
  <2>1. /\ ret' = 0 /\ booted
        /\ UNCHANGED <<pm_mngr, mbi, booted, found, word, pool, out, mishap>>
    BY <1>4 DEF pm_alloc_frame_fails
  <2>2. TypeOK'
    BY <2>1 DEF IInv, TypeOK
  <2>. QED
    BY <2>1, <2>2 DEF IInv, FramesAccounted, FoundClear, Without
<1>5. CASE pm_free_frame
  <2>1. PICK where \in out : /\ pm_mngr' = pm_unlock_frame(pm_mngr, where)
                             /\ out' = out \ {where}
    BY <1>5 DEF pm_free_frame
  <2>2. pm_mngr' \in Mngr /\ Free(pm_mngr') = Free(pm_mngr) \cup {where}
    BY <1>t, <2>1, UnlockAddsOne
  <2>3. booted /\ UNCHANGED <<mbi, booted, found, word, ret, pool, mishap>>
    BY <1>5 DEF pm_free_frame
  <2>4. TypeOK'
    BY <2>1, <2>2, <2>3 DEF IInv, TypeOK, Mngr
  <2>. QED
    BY <2>1, <2>2, <2>3, <2>4 DEF IInv, FramesAccounted, FoundClear, Without
<1>6. CASE UNCHANGED vars
  BY <1>6 DEF vars, IInv, TypeOK, FramesAccounted, FoundClear, Without
<1>. QED
  BY <1>1, <1>2, <1>3, <1>4, <1>5, <1>6 DEF Next

(* The inductive invariant holds in every reachable state. *)
THEOREM InvariantHolds == Spec => []IInv
<1>. QED
  BY InitIInv, NextIInv, PTL DEF Spec

(* The allocator's state keeps its type, races included: in particular the
   bit index computed by pm_lock_frame and pm_free_frame is always one of the
   32 of a word. *)
THEOREM TypeCorrect == Spec => []TypeOK
<1>1. IInv => TypeOK
  BY DEF IInv
<1>. QED
  BY <1>1, InvariantHolds, PTL

(* Until two allocations race for a word of the bitmap, no frame has two
   holders, none is lost and none appears from nowhere. *)
THEOREM FramesAreAccounted == Spec => []FramesAccounted
<1>1. IInv => FramesAccounted
  BY DEF IInv
<1>. QED
  BY <1>1, InvariantHolds, PTL

(* With records that pm_init reads right, it makes free only frames that lie
   above the kernel and within the memory the loader described. *)
THEOREM OnlyMemoryIsUsed ==
    ASSUME \A m \in BootInfo : SoundRecord(m)
    PROVE  Spec => []OnlyUsableMemory
<1>1. Init => OnlyUsableMemory
  BY DEF Init, OnlyUsableMemory
<1>2. IInv /\ OnlyUsableMemory /\ [Next]_vars => OnlyUsableMemory'
  <2>. SUFFICES ASSUME IInv, OnlyUsableMemory, [Next]_vars
                PROVE  OnlyUsableMemory'
    OBVIOUS
  <2>1. CASE pm_init
    <3>1. mbi' = mbi /\ mbi \in BootInfo /\ pool' = Free(Booted(mbi))
      BY <2>1 DEF pm_init, Booted, IInv, TypeOK
    <3>. QED
      BY <3>1, PoolAboveKernel, PoolIsMemory DEF OnlyUsableMemory
  <2>2. CASE ~pm_init
    <3>1. UNCHANGED <<mbi, pool>>
      BY <2>2 DEF Next, FindFrame, LockFrame, pm_alloc_frame_fails,
                  pm_free_frame, vars
    <3>. QED
      BY <3>1 DEF OnlyUsableMemory
  <2>. QED
    BY <2>1, <2>2
<1>. QED
  BY <1>1, <1>2, InvariantHolds, PTL DEF Spec

-----------------------------------------------------------------------------
(* The bitmap of pm.c implements FrameAllocator up to a race: an answer is a
   frame that nobody holds, a refusal means that none is left. *)
THEOREM ImplementsFrameAllocator == Spec => AllocatorSpec
<1>. DEFINE Step == mishap' = {} => (Allocator!Next \/ UNCHANGED Allocator!vars)
<1>1. Init => Allocator!Init
  BY DEF Init, Allocator!Init
<1>2. IInv /\ IInv' /\ [Next]_vars => [Step]_vars
  <2>. SUFFICES ASSUME IInv, IInv', Next, mishap' = {}
                PROVE  Allocator!Next \/ UNCHANGED Allocator!vars
    OBVIOUS
  <2>1. CASE pm_init
    <3>1. pool = {} /\ out = {} /\ ~booted /\ booted'
      BY <2>1 DEF pm_init, IInv
    <3>2. pool' \in SUBSET (Frame \ {0})
      <4>1. pool' \subseteq Frame \ {0}
        <5>1. EKernel \in Nat /\ EKernel > 0
          BY KernelAssumption DEF Mib
        <5>2. pool' \subseteq Frame /\ \A f \in pool' : f >= EKernel
          BY DEF IInv, TypeOK
        <5>. QED
          BY <5>1, <5>2
      <4>. QED
        BY <4>1
    <3>3. Allocator!Boot
      BY <2>1, <3>1, <3>2 DEF pm_init, Allocator!Boot
    <3>. QED
      BY <3>3 DEF Allocator!Next
  <2>2. ASSUME NEW c \in Callers, FindFrame(c)
        PROVE  UNCHANGED Allocator!vars
    BY <2>2 DEF FindFrame, Allocator!vars
  <2>3. ASSUME NEW c \in Callers, LockFrame(c)
        PROVE  Allocator!Next
    <3>1. Without({"race"})'
      BY DEF Without
    <3>2. /\ booted
          /\ found[c] \in Free(pm_mngr)
          /\ Free(pm_mngr') = Free(pm_mngr) \ {found[c]}
      BY <2>3, <3>1, LockStep
    <3>3. /\ ret' = found[c] /\ out' = out \cup {found[c]}
          /\ booted' = booted /\ pool' = pool
      BY <2>3 DEF LockFrame
    <3>4. Allocator!Grant
      BY <3>2, <3>3 DEF Allocator!Grant
    <3>. QED
      BY <3>4 DEF Allocator!Next
  <2>4. ASSUME NEW c \in Callers, pm_alloc_frame_fails(c)
        PROVE  Allocator!Next
    <3>1. Free(pm_mngr) = {}
      BY <2>4, FrameCoordinates DEF pm_alloc_frame_fails, Free
    <3>2. Allocator!Refuse
      BY <2>4, <3>1 DEF pm_alloc_frame_fails, Allocator!Refuse
    <3>. QED
      BY <3>2 DEF Allocator!Next
  <2>5. CASE pm_free_frame
    <3>1. PICK where \in out : /\ pm_mngr' = pm_unlock_frame(pm_mngr, where)
                               /\ out' = out \ {where}
      BY <2>5 DEF pm_free_frame
    <3>2. Free(pm_mngr') = Free(pm_mngr) \cup {where}
      BY <3>1, UnlockAddsOne DEF IInv, TypeOK, Mngr
    <3>3. booted /\ booted' /\ pool' = pool /\ ret' = ret
      BY <2>5 DEF pm_free_frame
    <3>4. Allocator!Return
      BY <3>1, <3>2, <3>3 DEF Allocator!Return
    <3>. QED
      BY <3>4 DEF Allocator!Next
  <2>. QED
    BY <2>1, <2>2, <2>3, <2>4, <2>5 DEF Next
<1>. QED
  BY <1>1, <1>2, InvariantHolds, PTL DEF Spec, AllocatorSpec
=============================================================================
