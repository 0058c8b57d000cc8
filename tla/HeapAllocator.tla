--------------------------- MODULE HeapAllocator ---------------------------
(***************************************************************************)
(* The resource heap of the shared memory: the kernel-mode driver's bitmap *)
(* allocator (driver/kmd/pvgpu.c), reached by the heap escapes, and the    *)
(* calls of the user-mode driver that keep and free its grants             *)
(* (driver/umd/pvgpu_umd.c).                                               *)
(*                                                                         *)
(* Sizes and positions count blocks of 4 KiB: HeapAlloc and HeapFree round *)
(* the same byte size up in the same way.  Each escape runs under the      *)
(* allocator's spin lock from its search to its update and is one step.    *)
(* Every resource is taken to belong to a device of its own; resources of  *)
(* one device only take turns.                                             *)
(***************************************************************************)
EXTENDS Integers, FiniteSets

CONSTANTS
  Resource,     \* resources that are mapped
  Subresource,  \* subresources of each
  HeapBlocks,   \* HeapSize in blocks
  MaxBlocks,    \* PVGPU_HEAP_MAX_BLOCKS
  HeapOffset,   \* heap_offset in blocks
  Size,         \* sizes asked for, in blocks
  Alignment     \* alignments asked for, in blocks; 1 stands for any up to a block

ASSUME ConstantsAssumption ==
  /\ HeapBlocks \in Nat /\ MaxBlocks \in Nat /\ HeapOffset \in Nat
  /\ Size \subseteq Nat \ {0} /\ Alignment \subseteq Nat \ {0}

VARIABLES
  bitmap,      \* the set bits of Bitmap
  freeBlocks,  \* FreeBlocks
  stage,       \* where ResourceMap or ResourceUnmap of each resource is
  fresh,       \* the grant of a ResourceMap in progress
  mapped,      \* MappedAddress and MappedSize of each resource
  pointer,     \* history: the grant behind each pointer the application holds
  kept         \* history: grants nobody will free

alloc == <<bitmap, freeBlocks>>
vars  == <<alloc, stage, fresh, mapped, pointer, kept>>

NumBlocks == IF HeapBlocks > MaxBlocks THEN MaxBlocks ELSE HeapBlocks
Blocks    == 0 .. NumBlocks - 1

\* offset is what the escape returns: it counts from the start of the shared memory
Grant   == [offset : Nat, blocks : Nat \ {0}]
NoGrant == [offset |-> 0, blocks |-> 0]

Extent(s, n) == s .. s + n - 1
BlocksOf(g)  == Extent(g.offset - HeapOffset, g.blocks)

Granted(s, n) == [offset |-> HeapOffset + s, blocks |-> n]

TypeOK ==
  /\ bitmap \subseteq Blocks /\ freeBlocks \in Int
  /\ stage \in [Resource -> {"idle", "map", "unmap"}]
  /\ fresh \in [Resource -> Grant \cup {NoGrant}]
  /\ mapped \in [Resource -> Grant \cup {NoGrant}]
  /\ pointer \in [Resource \X Subresource -> Grant \cup {NoGrant}]
  /\ kept \subseteq Grant

\* HeapInit: FreeBlocks is set before NumBlocks is clamped
Init ==
  /\ bitmap = {} /\ freeBlocks = HeapBlocks
  /\ stage = [r \in Resource |-> "idle"]
  /\ fresh = [r \in Resource |-> NoGrant] /\ mapped = [r \in Resource |-> NoGrant]
  /\ pointer = [p \in Resource \X Subresource |-> NoGrant]
  /\ kept = {}

-----------------------------------------------------------------------------
(* The kernel-mode driver *)

Clear(s, n) == s + n <= NumBlocks /\ Extent(s, n) \cap bitmap = {}

\* RtlFindClearBits: the lowest clear run from the hint on, else the lowest at all.
\* A set of one position, or empty when there is none.
FindClearBits(n, hint) ==
  LET fits  == {s \in Blocks : Clear(s, n)}
      after == {s \in fits : s >= hint}
      from  == IF after # {} THEN after ELSE fits
  IN {s \in from : \A t \in from : s <= t}

RoundUp(s, a) == ((s + a - 1) \div a) * a

PlacedUnchecked(n, a) ==             \* mutant: the aligned position is taken as it is
  {RoundUp(s, a) : s \in FindClearBits(n, 0)}

\* where HeapAlloc places n blocks: it searches again from the aligned position
Placed(n, a) ==
  UNION {IF RoundUp(s, a) = s THEN {s} ELSE FindClearBits(n, RoundUp(s, a)) :
           s \in FindClearBits(n, 0)}

\* HeapAlloc at s; when Placed is empty it fails and changes nothing
HeapAlloc(s, n) ==
  /\ bitmap' = bitmap \cup Extent(s, n)
  /\ freeBlocks' = freeBlocks - n

HeapFreeOneMore(g) ==                \* mutant: the size is rounded up twice
  LET s == g.offset - HeapOffset IN
  /\ bitmap' = bitmap \ Extent(s, g.blocks + 1)
  /\ freeBlocks' = freeBlocks + g.blocks

\* a range outside of the heap is STATUS_INVALID_PARAMETER
HeapFree(g) ==
  LET s == g.offset - HeapOffset IN
  IF s \in 0 .. HeapBlocks - 1 /\ s + g.blocks <= NumBlocks
  THEN bitmap' = bitmap \ BlocksOf(g) /\ freeBlocks' = freeBlocks + g.blocks
  ELSE UNCHANGED alloc

-----------------------------------------------------------------------------
(* The user-mode driver *)

\* ResourceMap of a subresource that is not mapped: the grant
Map(r) ==
  /\ stage[r] = "idle" /\ \E u \in Subresource : pointer[<<r, u>>] = NoGrant
  /\ \E n \in Size : \E s \in Placed(n, 1) :
       HeapAlloc(s, n) /\ fresh' = [fresh EXCEPT ![r] = Granted(s, n)]
  /\ stage' = [stage EXCEPT ![r] = "map"]
  /\ UNCHANGED <<mapped, pointer, kept>>

\* what a resource's own record of its mapping loses, nobody frees
Lost(r) == IF mapped[r] = NoGrant THEN {} ELSE {mapped[r]}

\* the command is written, for a read map its fence has completed: the grant
\* replaces what the resource recorded for another subresource
MapReturns(r, u) ==
  /\ stage[r] = "map" /\ pointer[<<r, u>>] = NoGrant
  /\ mapped' = [mapped EXCEPT ![r] = fresh[r]]
  /\ pointer' = [pointer EXCEPT ![<<r, u>>] = fresh[r]]
  /\ kept' = kept \cup Lost(r)
  /\ fresh' = [fresh EXCEPT ![r] = NoGrant] /\ stage' = [stage EXCEPT ![r] = "idle"]
  /\ UNCHANGED alloc

\* mutant: what the resource records is freed, not the grant of this map
MapFailsFreesRecorded(r) ==
  /\ stage[r] = "map"
  /\ HeapFree(mapped[r])
  /\ fresh' = [fresh EXCEPT ![r] = NoGrant] /\ stage' = [stage EXCEPT ![r] = "idle"]
  /\ UNCHANGED <<mapped, pointer, kept>>

\* the wait for the fence of a read map fails
MapFails(r) ==
  /\ stage[r] = "map"
  /\ HeapFree(fresh[r])
  /\ fresh' = [fresh EXCEPT ![r] = NoGrant] /\ stage' = [stage EXCEPT ![r] = "idle"]
  /\ UNCHANGED <<mapped, pointer, kept>>

\* ResourceUnmap writes its command and flushes; the application's pointer is void
Unmap(r, u) ==
  /\ stage[r] = "idle" /\ pointer[<<r, u>>] # NoGrant
  /\ pointer' = [pointer EXCEPT ![<<r, u>>] = NoGrant]
  /\ stage' = [stage EXCEPT ![r] = IF mapped[r] = NoGrant THEN "idle" ELSE "unmap"]
  /\ UNCHANGED <<alloc, fresh, mapped, kept>>

UnmapFree(r) ==
  /\ stage[r] = "unmap"
  /\ HeapFree(mapped[r])
  /\ mapped' = [mapped EXCEPT ![r] = NoGrant] /\ stage' = [stage EXCEPT ![r] = "idle"]
  /\ UNCHANGED <<fresh, pointer, kept>>

\* shaders, updates and the names of input layouts: their blocks are never freed.
\* The driver aligns to 16 bytes; the escape takes any alignment from its callers.
Upload ==
  /\ \E n \in Size, a \in Alignment : \E s \in Placed(n, a) :
       HeapAlloc(s, n) /\ kept' = kept \cup {Granted(s, n)}
  /\ UNCHANGED <<stage, fresh, mapped, pointer>>

\* DestroyResource and DestroyDevice leave the mapping as it is
Destroy(r) ==
  /\ stage[r] = "idle"
  /\ kept' = kept \cup Lost(r)
  /\ mapped' = [mapped EXCEPT ![r] = NoGrant]
  /\ pointer' = [p \in Resource \X Subresource |-> IF p[1] = r THEN NoGrant ELSE pointer[p]]
  /\ UNCHANGED <<alloc, stage, fresh>>

Next ==
  \/ \E r \in Resource :
       \/ Map(r) \/ MapFails(r) \/ UnmapFree(r) \/ Destroy(r)
       \/ \E u \in Subresource : MapReturns(r, u) \/ Unmap(r, u)
  \/ Upload

Spec == Init /\ [][Next]_vars

-----------------------------------------------------------------------------
(* Properties *)

Owned == (kept \cup {fresh[r] : r \in Resource} \cup {mapped[r] : r \in Resource}) \ {NoGrant}

\* The spin lock makes search and update one step: no two owners of blocks, maps
\* in progress or returned, uploads, ever share one, and what a resource maps is
\* not also in the making.
GrantsAreDisjoint ==
  /\ \A g, h \in Owned : g # h => BlocksOf(g) \cap BlocksOf(h) = {}
  /\ \A r, q \in Resource :
       /\ fresh[r] # NoGrant => fresh[r] \notin kept /\ fresh[r] # mapped[q]
       /\ mapped[r] # NoGrant => mapped[r] \notin kept
       /\ r # q => (fresh[r] # NoGrant => fresh[r] # fresh[q])
                /\ (mapped[r] # NoGrant => mapped[r] # mapped[q])

\* The bitmap marks the blocks of the grants and no others: frees return what was
\* granted, whichever calls come between.
BitmapIsExact == bitmap = UNION {BlocksOf(g) : g \in Owned}

\* FreeBlocks counts every allocation and every free once.
FreeBlocksBalance == freeBlocks + Cardinality(bitmap) = HeapBlocks

\* The user-mode driver adds the offset of a grant to pHeap, although it already
\* counts from the start of the shared memory: its accesses still end in the heap.
AccessesStayInTheHeap == \A g \in Owned : g.offset + g.blocks <= HeapBlocks

\* the blocks behind a pointer are marked, and its grant is what its resource
\* records or one nobody frees
Backed(r, u) ==
  /\ pointer[<<r, u>>] \in kept \cup {mapped[r]}
  /\ BlocksOf(pointer[<<r, u>>]) \subseteq bitmap

\* A resource records one mapping for all its subresources.  What the application
\* may still use is taken away in one case only, the second half of an unmap of
\* another subresource of the same resource; not by the calls of other resources,
\* uploads, maps of other subresources, failed maps or destroys.
PointersStayValid ==
  [][\A r \in Resource, u \in Subresource :
       LET old == pointer[<<r, u>>] IN
       pointer'[<<r, u>>] # NoGrant /\ (old # NoGrant => Backed(r, u))
         => Backed(r, u)' \/ (old # NoGrant /\ stage[r] = "unmap" /\ mapped[r] = old)]_vars
=============================================================================
