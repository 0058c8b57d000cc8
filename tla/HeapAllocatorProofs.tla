------------------------ MODULE HeapAllocatorProofs ------------------------
(***************************************************************************)
(* Proofs about HeapAllocator: whatever the heap's size and its callers,   *)
(* the blocks of two owners are disjoint and the bitmap marks the blocks   *)
(* somebody owns.                                                          *)
(***************************************************************************)
EXTENDS HeapAllocator, FiniteSetTheorems, TLAPS

\* a grant lies in the part of the heap the bitmap describes
InHeap(g) ==
  /\ g \in Grant /\ g # NoGrant
  /\ BlocksOf(g) \subseteq Blocks /\ BlocksOf(g) # {}
  /\ g.offset - HeapOffset \in 0 .. HeapBlocks - 1
  /\ g.offset - HeapOffset + g.blocks <= NumBlocks

\* what a resource records belongs to where its calls are
StageInv ==
  \A r \in Resource :
    /\ stage[r] = "map" <=> fresh[r] # NoGrant
    /\ stage[r] = "unmap" => mapped[r] # NoGrant

IInv == TypeOK /\ StageInv /\ (\A g \in Owned : InHeap(g)) /\ GrantsAreDisjoint /\ BitmapIsExact

-----------------------------------------------------------------------------
(* The allocator *)

LEMMA NumBlocksNat == NumBlocks \in Nat /\ NumBlocks <= HeapBlocks
BY ConstantsAssumption DEF NumBlocks

\* HeapAlloc only ever chooses clear blocks of the heap
LEMMA PlacedIsClear ==
  ASSUME NEW n, NEW a, NEW s \in Placed(n, a)
  PROVE  s \in Blocks /\ Clear(s, n)
<1>1. \A h : FindClearBits(n, h) \subseteq {t \in Blocks : Clear(t, n)}
  BY DEF FindClearBits
<1>2. PICK t \in FindClearBits(n, 0) :
        s \in (IF RoundUp(t, a) = t THEN {t} ELSE FindClearBits(n, RoundUp(t, a)))
  BY DEF Placed
<1>3. CASE RoundUp(t, a) = t
  BY <1>1, <1>2, <1>3
<1>4. CASE RoundUp(t, a) # t
  BY <1>1, <1>2, <1>4
<1> QED BY <1>3, <1>4

\* a placed grant is in the heap and covers the blocks that HeapAlloc marks
LEMMA GrantedInHeap ==
  ASSUME NEW n \in Size, NEW s \in Blocks, Clear(s, n)
  PROVE  InHeap(Granted(s, n)) /\ BlocksOf(Granted(s, n)) = Extent(s, n)
<1> DEFINE g == Granted(s, n)
<1>1. n \in Nat /\ n > 0 /\ s \in Nat /\ HeapOffset \in Nat
  BY ConstantsAssumption, NumBlocksNat DEF Blocks
<1>2. g.offset = HeapOffset + s /\ g.blocks = n
  BY DEF Granted
<1>3. g \in Grant /\ g # NoGrant
  BY <1>1, <1>2 DEF Granted, Grant, NoGrant
<1>4. g.offset - HeapOffset = s
  BY <1>1, <1>2
<1>5. BlocksOf(g) = Extent(s, n)
  BY <1>2, <1>4 DEF BlocksOf
<1>6. s + n <= NumBlocks
  BY DEF Clear
<1>7. Extent(s, n) \subseteq Blocks /\ s \in Extent(s, n)
  BY <1>1, <1>6, NumBlocksNat DEF Extent, Blocks
<1>8. s \in 0 .. HeapBlocks - 1
  BY <1>1, <1>6, NumBlocksNat, ConstantsAssumption
<1> HIDE DEF g
<1>9. InHeap(g)
  BY <1>2, <1>3, <1>4, <1>5, <1>6, <1>7, <1>8 DEF InHeap
<1> QED BY <1>5, <1>9 DEF g

\* freeing a grant of the heap passes the checks of HeapFree
LEMMA FreeIsAccepted ==
  ASSUME NEW g, InHeap(g), HeapFree(g)
  PROVE  bitmap' = bitmap \ BlocksOf(g) /\ freeBlocks' = freeBlocks + g.blocks
BY DEF InHeap, HeapFree

-----------------------------------------------------------------------------
(* What the calls do to the set of owned grants *)

\* a grant of clear blocks may join the owners
LEMMA OwnedGrows ==
  ASSUME IInv, NEW n \in Size, NEW a \in Nat \ {0}, NEW s \in Placed(n, a),
         HeapAlloc(s, n), Owned' = Owned \cup {Granted(s, n)}
  PROVE  /\ bitmap' \subseteq Blocks
         /\ freeBlocks' \in Int
         /\ Granted(s, n) \notin Owned
         /\ \A g \in Owned' : InHeap(g)
         /\ \A g, h \in Owned' : g # h => BlocksOf(g) \cap BlocksOf(h) = {}
         /\ bitmap' = UNION {BlocksOf(g) : g \in Owned'}
<1> DEFINE new == Granted(s, n)
<1>1. s \in Blocks /\ Clear(s, n)
  BY PlacedIsClear
<1>2. InHeap(new) /\ BlocksOf(new) = Extent(s, n)
  BY <1>1, GrantedInHeap
<1>3. BlocksOf(new) \cap bitmap = {}
  BY <1>1, <1>2 DEF Clear
<1>4. bitmap' = bitmap \cup BlocksOf(new)
  BY <1>2 DEF HeapAlloc
<1>5. freeBlocks' \in Int
  BY ConstantsAssumption DEF HeapAlloc, IInv, TypeOK
<1>6. BlocksOf(new) \subseteq Blocks /\ BlocksOf(new) # {}
  BY <1>2 DEF InHeap
<1> HIDE DEF new
<1>7. Owned' = Owned \cup {new}
  BY DEF new
<1>8. \A g \in Owned : BlocksOf(g) \subseteq bitmap
  BY DEF IInv, BitmapIsExact
<1>9. new \notin Owned
  BY <1>3, <1>6, <1>8
<1>10. bitmap' \subseteq Blocks
  BY <1>4, <1>6 DEF IInv, TypeOK
<1>11. \A g \in Owned' : InHeap(g)
  BY <1>2, <1>7 DEF IInv, new
<1>12. \A g, h \in Owned' : g # h => BlocksOf(g) \cap BlocksOf(h) = {}
  BY <1>3, <1>7, <1>8 DEF IInv, GrantsAreDisjoint
<1>13. bitmap' = UNION {BlocksOf(g) : g \in Owned'}
  BY <1>4, <1>7 DEF IInv, BitmapIsExact
<1> QED BY <1>5, <1>9, <1>10, <1>11, <1>12, <1>13 DEF new

\* a grant leaves the owners when it is freed
LEMMA OwnedShrinks ==
  ASSUME IInv, NEW f \in Owned, HeapFree(f), Owned' = Owned \ {f}
  PROVE  /\ bitmap' \subseteq Blocks
         /\ freeBlocks' \in Int
         /\ \A g \in Owned' : InHeap(g)
         /\ \A g, h \in Owned' : g # h => BlocksOf(g) \cap BlocksOf(h) = {}
         /\ bitmap' = UNION {BlocksOf(g) : g \in Owned'}
<1>1. InHeap(f)
  BY DEF IInv
<1>2. bitmap' = bitmap \ BlocksOf(f) /\ freeBlocks' = freeBlocks + f.blocks
  BY <1>1, FreeIsAccepted
<1>3. f.blocks \in Nat
  BY <1>1 DEF InHeap, Grant
<1>4. bitmap' \subseteq Blocks /\ freeBlocks' \in Int
  BY <1>2, <1>3 DEF IInv, TypeOK
<1>5. bitmap' = UNION {BlocksOf(g) : g \in Owned'}
  BY <1>2 DEF IInv, BitmapIsExact, GrantsAreDisjoint
<1> QED BY <1>4, <1>5 DEF IInv, GrantsAreDisjoint

-----------------------------------------------------------------------------
(* The invariant *)

LEMMA InitInv == ASSUME Init PROVE IInv
<1>1. Owned = {}
  BY DEF Init, Owned
<1>2. TypeOK
  BY ConstantsAssumption DEF Init, TypeOK
<1> QED BY <1>1, <1>2 DEF Init, IInv, StageInv, GrantsAreDisjoint, BitmapIsExact

LEMMA MapInv == ASSUME IInv, NEW r \in Resource, Map(r) PROVE IInv'
<1>1. PICK n \in Size : \E s \in Placed(n, 1) :
        HeapAlloc(s, n) /\ fresh' = [fresh EXCEPT ![r] = Granted(s, n)]
  BY DEF Map
<1>2. PICK s \in Placed(n, 1) :
        HeapAlloc(s, n) /\ fresh' = [fresh EXCEPT ![r] = Granted(s, n)]
  BY <1>1
<1> DEFINE new == Granted(s, n)
<1>3. InHeap(new)
  BY PlacedIsClear, GrantedInHeap
<1>4. new \in Grant /\ new # NoGrant
  BY <1>3 DEF InHeap
<1> HIDE DEF new
<1>5. /\ fresh' = [fresh EXCEPT ![r] = new] /\ stage' = [stage EXCEPT ![r] = "map"]
      /\ mapped' = mapped /\ kept' = kept /\ pointer' = pointer
      /\ stage[r] = "idle" /\ fresh[r] = NoGrant
  BY <1>2 DEF Map, new, IInv, StageInv
<1>6. fresh \in [Resource -> Grant \cup {NoGrant}] /\ stage \in [Resource -> {"idle", "map", "unmap"}]
  BY DEF IInv, TypeOK
<1>7. Owned' = Owned \cup {new}
  BY <1>4, <1>5, <1>6 DEF Owned
<1>8. /\ bitmap' \subseteq Blocks /\ freeBlocks' \in Int /\ new \notin Owned
      /\ \A g \in Owned' : InHeap(g)
      /\ \A g, h \in Owned' : g # h => BlocksOf(g) \cap BlocksOf(h) = {}
      /\ bitmap' = UNION {BlocksOf(g) : g \in Owned'}
  BY <1>2, <1>7, OwnedGrows DEF new
<1>9. TypeOK'
  BY <1>4, <1>5, <1>6, <1>8 DEF IInv, TypeOK
<1>10. StageInv'
  BY <1>4, <1>5, <1>6 DEF IInv, StageInv
<1>11. new \notin kept /\ \A q \in Resource : new # fresh[q] /\ new # mapped[q]
  BY <1>4, <1>8 DEF Owned
<1>12. GrantsAreDisjoint'
  BY <1>5, <1>6, <1>8, <1>11 DEF IInv, GrantsAreDisjoint
<1> QED BY <1>8, <1>9, <1>10, <1>12 DEF IInv, BitmapIsExact

LEMMA UploadInv == ASSUME IInv, Upload PROVE IInv'
<1>1. PICK n \in Size, a \in Alignment : \E s \in Placed(n, a) :
        HeapAlloc(s, n) /\ kept' = kept \cup {Granted(s, n)}
  BY DEF Upload
<1>2. PICK s \in Placed(n, a) : HeapAlloc(s, n) /\ kept' = kept \cup {Granted(s, n)}
  BY <1>1
<1> DEFINE new == Granted(s, n)
<1>3. a \in Nat \ {0}
  BY ConstantsAssumption
<1>4. InHeap(new)
  BY <1>3, PlacedIsClear, GrantedInHeap
<1>5. new \in Grant /\ new # NoGrant
  BY <1>4 DEF InHeap
<1> HIDE DEF new
<1>6. /\ kept' = kept \cup {new}
      /\ fresh' = fresh /\ stage' = stage /\ mapped' = mapped /\ pointer' = pointer
  BY <1>2 DEF Upload, new
<1>7. Owned' = Owned \cup {new}
  BY <1>5, <1>6 DEF Owned
<1>8. /\ bitmap' \subseteq Blocks /\ freeBlocks' \in Int /\ new \notin Owned
      /\ \A g \in Owned' : InHeap(g)
      /\ \A g, h \in Owned' : g # h => BlocksOf(g) \cap BlocksOf(h) = {}
      /\ bitmap' = UNION {BlocksOf(g) : g \in Owned'}
  BY <1>2, <1>3, <1>7, OwnedGrows DEF new
<1>9. TypeOK' /\ StageInv'
  BY <1>5, <1>6, <1>8 DEF IInv, TypeOK, StageInv
<1>10. \A q \in Resource : new # fresh[q] /\ new # mapped[q]
  BY <1>5, <1>8 DEF Owned
<1>11. GrantsAreDisjoint'
  BY <1>6, <1>8, <1>10 DEF IInv, GrantsAreDisjoint
<1> QED BY <1>8, <1>9, <1>11 DEF IInv, BitmapIsExact

\* the steps that leave the owners alone
LEMMA SameOwned ==
  ASSUME IInv, Owned' = Owned, UNCHANGED alloc
  PROVE  /\ \A g \in Owned' : InHeap(g)
         /\ \A g, h \in Owned' : g # h => BlocksOf(g) \cap BlocksOf(h) = {}
         /\ BitmapIsExact'
BY DEF IInv, GrantsAreDisjoint, BitmapIsExact, alloc

LEMMA MapReturnsInv ==
  ASSUME IInv, NEW r \in Resource, NEW u \in Subresource, MapReturns(r, u) PROVE IInv'
<1>1. /\ mapped' = [mapped EXCEPT ![r] = fresh[r]] /\ fresh' = [fresh EXCEPT ![r] = NoGrant]
      /\ pointer' = [pointer EXCEPT ![<<r, u>>] = fresh[r]]
      /\ kept' = kept \cup Lost(r) /\ stage' = [stage EXCEPT ![r] = "idle"]
      /\ bitmap' = bitmap /\ freeBlocks' = freeBlocks /\ fresh[r] # NoGrant
  BY DEF MapReturns, alloc, IInv, StageInv
<1>2. TypeOK
  BY DEF IInv
<1>3. Lost(r) = {mapped[r]} \ {NoGrant}
  BY DEF Lost
<1>4. Owned' = Owned
  BY <1>1, <1>2, <1>3 DEF Owned, TypeOK
<1>5. TypeOK'
  BY <1>1, <1>2, <1>3 DEF TypeOK
<1>6. StageInv'
  BY <1>1, <1>2 DEF IInv, StageInv, TypeOK
<1>7. GrantsAreDisjoint'
  <2>1. \A g, h \in Owned' : g # h => BlocksOf(g) \cap BlocksOf(h) = {}
    BY <1>1, <1>4, SameOwned DEF alloc
  <2>2. ASSUME NEW q \in Resource, NEW p \in Resource
        PROVE  /\ fresh'[q] # NoGrant => fresh'[q] \notin kept' /\ fresh'[q] # mapped'[p]
               /\ mapped'[q] # NoGrant => mapped'[q] \notin kept'
               /\ q # p => (fresh'[q] # NoGrant => fresh'[q] # fresh'[p])
                        /\ (mapped'[q] # NoGrant => mapped'[q] # mapped'[p])
    BY <1>1, <1>2, <1>3 DEF IInv, GrantsAreDisjoint, TypeOK
  <2> QED BY <2>1, <2>2 DEF GrantsAreDisjoint
<1> QED BY <1>1, <1>4, <1>5, <1>6, <1>7, SameOwned DEF IInv, alloc

LEMMA DestroyInv == ASSUME IInv, NEW r \in Resource, Destroy(r) PROVE IInv'
<1>1. /\ mapped' = [mapped EXCEPT ![r] = NoGrant]
      /\ pointer' = [p \in Resource \X Subresource |-> IF p[1] = r THEN NoGrant ELSE pointer[p]]
      /\ kept' = kept \cup Lost(r) /\ stage' = stage /\ fresh' = fresh
      /\ bitmap' = bitmap /\ freeBlocks' = freeBlocks /\ stage[r] = "idle"
  BY DEF Destroy, alloc
<1>2. TypeOK
  BY DEF IInv
<1>3. Lost(r) = {mapped[r]} \ {NoGrant}
  BY DEF Lost
<1>4. Owned' = Owned
  BY <1>1, <1>2, <1>3 DEF Owned, TypeOK
<1>5. TypeOK'
  BY <1>1, <1>2, <1>3 DEF TypeOK
<1>6. StageInv'
  BY <1>1, <1>2 DEF IInv, StageInv, TypeOK
<1>7. GrantsAreDisjoint'
  <2>1. \A g, h \in Owned' : g # h => BlocksOf(g) \cap BlocksOf(h) = {}
    BY <1>1, <1>4, SameOwned DEF alloc
  <2>2. ASSUME NEW q \in Resource, NEW p \in Resource
        PROVE  /\ fresh'[q] # NoGrant => fresh'[q] \notin kept' /\ fresh'[q] # mapped'[p]
               /\ mapped'[q] # NoGrant => mapped'[q] \notin kept'
               /\ q # p => (fresh'[q] # NoGrant => fresh'[q] # fresh'[p])
                        /\ (mapped'[q] # NoGrant => mapped'[q] # mapped'[p])
    BY <1>1, <1>2, <1>3 DEF IInv, GrantsAreDisjoint, TypeOK
  <2> QED BY <2>1, <2>2 DEF GrantsAreDisjoint
<1> QED BY <1>1, <1>4, <1>5, <1>6, <1>7, SameOwned DEF IInv, alloc

LEMMA UnmapInv ==
  ASSUME IInv, NEW r \in Resource, NEW u \in Subresource, Unmap(r, u) PROVE IInv'
<1>1. /\ mapped' = mapped /\ kept' = kept /\ fresh' = fresh
      /\ pointer' = [pointer EXCEPT ![<<r, u>>] = NoGrant]
      /\ stage' = [stage EXCEPT ![r] = IF mapped[r] = NoGrant THEN "idle" ELSE "unmap"]
      /\ bitmap' = bitmap /\ freeBlocks' = freeBlocks /\ stage[r] = "idle"
  BY DEF Unmap, alloc
<1>2. TypeOK
  BY DEF IInv
<1>3. Owned' = Owned
  BY <1>1 DEF Owned
<1>4. TypeOK'
  BY <1>1, <1>2 DEF TypeOK
<1>5. StageInv'
  BY <1>1, <1>2 DEF IInv, StageInv, TypeOK
<1>6. GrantsAreDisjoint'
  BY <1>1, <1>3 DEF IInv, GrantsAreDisjoint
<1> QED BY <1>1, <1>3, <1>4, <1>5, <1>6, SameOwned DEF IInv, alloc

LEMMA MapFailsInv == ASSUME IInv, NEW r \in Resource, MapFails(r) PROVE IInv'
<1>1. /\ HeapFree(fresh[r]) /\ fresh' = [fresh EXCEPT ![r] = NoGrant]
      /\ stage' = [stage EXCEPT ![r] = "idle"] /\ fresh[r] # NoGrant
      /\ mapped' = mapped /\ kept' = kept /\ pointer' = pointer
  BY DEF MapFails, IInv, StageInv
<1>2. TypeOK
  BY DEF IInv
<1>3. fresh[r] \in Owned
  BY <1>1 DEF Owned
<1>4. Owned' = Owned \ {fresh[r]}
  BY <1>1, <1>2 DEF Owned, TypeOK, IInv, GrantsAreDisjoint
<1>5. /\ bitmap' \subseteq Blocks /\ freeBlocks' \in Int
      /\ \A g \in Owned' : InHeap(g)
      /\ \A g, h \in Owned' : g # h => BlocksOf(g) \cap BlocksOf(h) = {}
      /\ bitmap' = UNION {BlocksOf(g) : g \in Owned'}
  BY <1>1, <1>3, <1>4, OwnedShrinks
<1>6. TypeOK'
  BY <1>1, <1>2, <1>5 DEF TypeOK
<1>7. StageInv'
  BY <1>1, <1>2 DEF IInv, StageInv, TypeOK
<1>8. GrantsAreDisjoint'
  BY <1>1, <1>2, <1>5 DEF IInv, GrantsAreDisjoint, TypeOK
<1> QED BY <1>5, <1>6, <1>7, <1>8 DEF IInv, BitmapIsExact

LEMMA UnmapFreeInv == ASSUME IInv, NEW r \in Resource, UnmapFree(r) PROVE IInv'
<1>1. /\ HeapFree(mapped[r]) /\ mapped' = [mapped EXCEPT ![r] = NoGrant]
      /\ stage' = [stage EXCEPT ![r] = "idle"] /\ mapped[r] # NoGrant /\ stage[r] = "unmap"
      /\ fresh' = fresh /\ kept' = kept /\ pointer' = pointer
  BY DEF UnmapFree, IInv, StageInv
<1>2. TypeOK
  BY DEF IInv
<1>3. mapped[r] \in Owned
  BY <1>1 DEF Owned
<1>4. Owned' = Owned \ {mapped[r]}
  BY <1>1, <1>2 DEF Owned, TypeOK, IInv, GrantsAreDisjoint
<1>5. /\ bitmap' \subseteq Blocks /\ freeBlocks' \in Int
      /\ \A g \in Owned' : InHeap(g)
      /\ \A g, h \in Owned' : g # h => BlocksOf(g) \cap BlocksOf(h) = {}
      /\ bitmap' = UNION {BlocksOf(g) : g \in Owned'}
  BY <1>1, <1>3, <1>4, OwnedShrinks
<1>6. TypeOK'
  BY <1>1, <1>2, <1>5 DEF TypeOK
<1>7. StageInv'
  BY <1>1, <1>2 DEF IInv, StageInv, TypeOK
<1>8. GrantsAreDisjoint'
  BY <1>1, <1>2, <1>5 DEF IInv, GrantsAreDisjoint, TypeOK
<1> QED BY <1>5, <1>6, <1>7, <1>8 DEF IInv, BitmapIsExact

LEMMA NextInv == ASSUME IInv, [Next]_vars PROVE IInv'
<1>1. CASE UNCHANGED vars
  <2>1. Owned' = Owned
    BY <1>1 DEF Owned, vars
  <2> QED BY <1>1, <2>1 DEF vars, alloc, IInv, TypeOK, StageInv, GrantsAreDisjoint, BitmapIsExact
<1>2. CASE Upload
  BY <1>2, UploadInv
<1>3. ASSUME NEW r \in Resource, Map(r) \/ MapFails(r) \/ UnmapFree(r) \/ Destroy(r) PROVE IInv'
  BY <1>3, MapInv, MapFailsInv, UnmapFreeInv, DestroyInv
<1>4. ASSUME NEW r \in Resource, NEW u \in Subresource, MapReturns(r, u) \/ Unmap(r, u) PROVE IInv'
  BY <1>4, MapReturnsInv, UnmapInv
<1> QED BY <1>1, <1>2, <1>3, <1>4 DEF Next

-----------------------------------------------------------------------------
(* Accounting *)

\* a grant owns as many blocks as it is long
LEMMA BlocksOfCardinality ==
  ASSUME NEW g, InHeap(g)
  PROVE  IsFiniteSet(BlocksOf(g)) /\ Cardinality(BlocksOf(g)) = g.blocks
<1> DEFINE s == g.offset - HeapOffset
<1>1. s \in Int /\ g.blocks \in Nat /\ g.blocks > 0
  BY ConstantsAssumption DEF InHeap, Grant
<1>2. BlocksOf(g) = s .. s + g.blocks - 1
  BY DEF BlocksOf, Extent
<1> HIDE DEF s
<1>3. s + g.blocks - 1 \in Int /\ s <= s + g.blocks - 1 /\ (s + g.blocks - 1) - s + 1 = g.blocks
  BY <1>1
<1> QED BY <1>1, <1>2, <1>3, FS_Interval

LEMMA BitmapFinite == ASSUME IInv PROVE IsFiniteSet(bitmap)
<1>1. IsFiniteSet(Blocks)
  BY NumBlocksNat, FS_Interval DEF Blocks
<1> QED BY <1>1, FS_Subset DEF IInv, TypeOK

\* HeapAlloc moves n blocks from one side of the balance to the other
LEMMA AllocBalances ==
  ASSUME IInv, FreeBlocksBalance, NEW n \in Size, NEW a \in Nat \ {0}, NEW s \in Placed(n, a),
         HeapAlloc(s, n)
  PROVE  FreeBlocksBalance'
<1> DEFINE g == Granted(s, n)
<1>1. s \in Blocks /\ Clear(s, n)
  BY PlacedIsClear
<1>2. InHeap(g) /\ BlocksOf(g) = Extent(s, n) /\ g.blocks = n
  BY <1>1, GrantedInHeap DEF Granted
<1>3. BlocksOf(g) \cap bitmap = {}
  BY <1>1, <1>2 DEF Clear
<1>4. bitmap' = bitmap \cup BlocksOf(g) /\ freeBlocks' = freeBlocks - n
  BY <1>2 DEF HeapAlloc
<1> HIDE DEF g
<1>5. IsFiniteSet(BlocksOf(g)) /\ Cardinality(BlocksOf(g)) = n /\ IsFiniteSet(bitmap)
  BY <1>2, BlocksOfCardinality, BitmapFinite
<1>6. Cardinality(bitmap') = Cardinality(bitmap) + n
  <2>1. Cardinality(bitmap \cup BlocksOf(g)) =
          Cardinality(bitmap) + Cardinality(BlocksOf(g)) - Cardinality(bitmap \cap BlocksOf(g))
    BY <1>5, FS_Union
  <2>2. bitmap \cap BlocksOf(g) = {}
    BY <1>3
  <2>3. Cardinality(bitmap \cap BlocksOf(g)) = 0
    BY <2>2, FS_EmptySet
  <2>4. Cardinality(bitmap) \in Nat /\ n \in Nat
    BY <1>5, FS_CardinalityType, ConstantsAssumption
  <2> QED BY <1>4, <1>5, <2>1, <2>3, <2>4
<1>7. Cardinality(bitmap) \in Nat /\ n \in Nat /\ freeBlocks \in Int
  BY <1>5, FS_CardinalityType, ConstantsAssumption DEF IInv, TypeOK
<1> QED BY <1>4, <1>6, <1>7, ConstantsAssumption DEF FreeBlocksBalance

\* HeapFree moves them back
LEMMA FreeBalances ==
  ASSUME IInv, FreeBlocksBalance, NEW f \in Owned, HeapFree(f)
  PROVE  FreeBlocksBalance'
<1>1. InHeap(f) /\ BlocksOf(f) \subseteq bitmap
  BY DEF IInv, BitmapIsExact
<1>2. bitmap' = bitmap \ BlocksOf(f) /\ freeBlocks' = freeBlocks + f.blocks
  BY <1>1, FreeIsAccepted
<1>3. IsFiniteSet(BlocksOf(f)) /\ Cardinality(BlocksOf(f)) = f.blocks /\ IsFiniteSet(bitmap)
  BY <1>1, BlocksOfCardinality, BitmapFinite
<1>4. Cardinality(bitmap') = Cardinality(bitmap) - f.blocks
  <2>1. Cardinality(bitmap \ BlocksOf(f)) = Cardinality(bitmap) - Cardinality(bitmap \cap BlocksOf(f))
    BY <1>3, FS_Difference
  <2>2. bitmap \cap BlocksOf(f) = BlocksOf(f)
    BY <1>1
  <2> QED BY <1>2, <1>3, <2>1, <2>2
<1>5. Cardinality(bitmap) \in Nat /\ f.blocks \in Nat /\ freeBlocks \in Int
  BY <1>1, <1>3, FS_CardinalityType DEF IInv, TypeOK, InHeap, Grant
<1> QED BY <1>2, <1>4, <1>5, ConstantsAssumption DEF FreeBlocksBalance

LEMMA NextBalances == ASSUME IInv, FreeBlocksBalance, [Next]_vars PROVE FreeBlocksBalance'
<1>1. CASE UNCHANGED alloc
  BY <1>1 DEF alloc, FreeBlocksBalance
<1>2. CASE Upload
  <2>1. PICK n \in Size, a \in Alignment : \E s \in Placed(n, a) : HeapAlloc(s, n)
    BY <1>2 DEF Upload
  <2> QED BY <2>1, AllocBalances, ConstantsAssumption
<1>3. ASSUME NEW r \in Resource, Map(r) PROVE FreeBlocksBalance'
  <2>1. PICK n \in Size : \E s \in Placed(n, 1) : HeapAlloc(s, n)
    BY <1>3 DEF Map
  <2> QED BY <2>1, AllocBalances
<1>4. ASSUME NEW r \in Resource, MapFails(r) PROVE FreeBlocksBalance'
  <2>1. fresh[r] \in Owned /\ HeapFree(fresh[r])
    BY <1>4 DEF MapFails, IInv, StageInv, Owned
  <2> QED BY <2>1, FreeBalances
<1>5. ASSUME NEW r \in Resource, UnmapFree(r) PROVE FreeBlocksBalance'
  <2>1. mapped[r] \in Owned /\ HeapFree(mapped[r])
    BY <1>5 DEF UnmapFree, IInv, StageInv, Owned
  <2> QED BY <2>1, FreeBalances
<1>6. ASSUME NEW r \in Resource, NEW u \in Subresource, Destroy(r) \/ MapReturns(r, u) \/ Unmap(r, u)
      PROVE  UNCHANGED alloc
  BY <1>6 DEF Destroy, MapReturns, Unmap
<1>7. ASSUME NEW r \in Resource, Destroy(r) PROVE UNCHANGED alloc
  BY <1>7 DEF Destroy
<1>8. CASE UNCHANGED vars
  BY <1>1, <1>8 DEF vars
<1> QED BY <1>1, <1>2, <1>3, <1>4, <1>5, <1>6, <1>7, <1>8 DEF Next

-----------------------------------------------------------------------------
(* Pointers of the application *)

\* what a pointer that is not void afterwards goes back to
LEMMA NextRecorded ==
  ASSUME IInv, Next, NEW q \in Resource, NEW v \in Subresource,
         pointer'[<<q, v>>] # NoGrant,
         pointer[<<q, v>>] # NoGrant => pointer[<<q, v>>] \in kept \cup {mapped[q]},
         ~(pointer[<<q, v>>] # NoGrant /\ stage[q] = "unmap" /\ mapped[q] = pointer[<<q, v>>])
  PROVE  pointer'[<<q, v>>] \in kept' \cup {mapped'[q]}
<1> DEFINE Goal == pointer'[<<q, v>>] \in kept' \cup {mapped'[q]}
<1>1. TypeOK
  BY DEF IInv
<1>2. CASE UNCHANGED <<mapped, pointer>> /\ kept \subseteq kept'
  BY <1>2
<1>3. ASSUME NEW r \in Resource, Map(r) PROVE Goal
  BY <1>2, <1>3 DEF Map
<1>4. ASSUME NEW r \in Resource, MapFails(r) PROVE Goal
  BY <1>2, <1>4 DEF MapFails
<1>5. ASSUME NEW r \in Resource, UnmapFree(r) PROVE Goal
  BY <1>1, <1>5 DEF UnmapFree, TypeOK
<1>6. ASSUME NEW r \in Resource, Destroy(r) PROVE Goal
  <2>1. <<q, v>> \in Resource \X Subresource /\ <<q, v>>[1] = q
    OBVIOUS
  <2>2. q # r /\ pointer'[<<q, v>>] = pointer[<<q, v>>]
    BY <1>6, <2>1 DEF Destroy
  <2> QED BY <1>1, <1>6, <2>2 DEF Destroy, TypeOK
<1>7. ASSUME NEW r \in Resource, NEW u \in Subresource, MapReturns(r, u) PROVE Goal
  <2>1. CASE q = r /\ v = u
    BY <1>1, <1>7, <2>1 DEF MapReturns, TypeOK
  <2>2. CASE q = r /\ v # u
    <3>1. pointer'[<<q, v>>] = pointer[<<q, v>>] /\ kept' = kept \cup Lost(q)
      BY <1>1, <1>7, <2>2 DEF MapReturns, TypeOK
    <3> QED BY <3>1 DEF Lost
  <2>3. CASE q # r
    BY <1>1, <1>7, <2>3 DEF MapReturns, TypeOK
  <2> QED BY <2>1, <2>2, <2>3
<1>8. ASSUME NEW r \in Resource, NEW u \in Subresource, Unmap(r, u) PROVE Goal
  BY <1>1, <1>8 DEF Unmap, TypeOK
<1>9. ASSUME Upload PROVE Goal
  BY <1>2, <1>9 DEF Upload
<1> HIDE DEF Goal
<1>10. Goal
  BY <1>3, <1>4, <1>5, <1>6, <1>7, <1>8, <1>9 DEF Next
<1> QED BY <1>10 DEF Goal

-----------------------------------------------------------------------------
(* The theorems *)

\* The bitmap, the records of the resources and the calls in progress agree
\* (HeapAlloc and HeapFree of the kernel-mode driver, the maps of the user-mode one).
THEOREM Invariance == Spec => []IInv
<1>1. Init => IInv
  BY InitInv
<1>2. IInv /\ [Next]_vars => IInv'
  BY NextInv
<1> QED BY <1>1, <1>2, PTL DEF Spec

\* Every variable keeps its type.
THEOREM TypeCorrect == Spec => []TypeOK
<1>1. IInv => TypeOK
  BY DEF IInv
<1> QED BY <1>1, Invariance, PTL

\* No two owners share a block of the heap.
THEOREM OwnersAreDisjoint == Spec => []GrantsAreDisjoint
<1>1. IInv => GrantsAreDisjoint
  BY DEF IInv
<1> QED BY <1>1, Invariance, PTL

\* The bitmap marks exactly the blocks somebody owns.
THEOREM BitmapMarksOwners == Spec => []BitmapIsExact
<1>1. IInv => BitmapIsExact
  BY DEF IInv
<1> QED BY <1>1, Invariance, PTL

\* FreeBlocks counts every allocation and every free once.
THEOREM FreeBlocksBalances == Spec => []FreeBlocksBalance
<1>1. Init => FreeBlocksBalance
  BY FS_EmptySet, ConstantsAssumption DEF Init, FreeBlocksBalance
<1>2. IInv /\ FreeBlocksBalance /\ [Next]_vars => FreeBlocksBalance'
  BY NextBalances
<1> QED BY <1>1, <1>2, Invariance, PTL DEF Spec

\* When the heap is as large as its offset and the clamp of the bitmap together, a
\* caller that adds the offset of a grant to the start of the heap stays in it.
THEOREM AccessesInHeap ==
  ASSUME HeapOffset + MaxBlocks <= HeapBlocks
  PROVE  Spec => []AccessesStayInTheHeap
<1>1. IInv => AccessesStayInTheHeap
  <2> SUFFICES ASSUME IInv, NEW g \in Owned PROVE g.offset + g.blocks <= HeapBlocks
    BY DEF AccessesStayInTheHeap
  <2>1. InHeap(g) /\ NumBlocks <= MaxBlocks /\ NumBlocks \in Nat
    BY NumBlocksNat, ConstantsAssumption DEF IInv, NumBlocks
  <2> QED BY <2>1, ConstantsAssumption DEF InHeap, Grant
<1> QED BY <1>1, Invariance, PTL

\* For any number of subresources a resource, the blocks behind a pointer in use are
\* lost in one case only: the pending unmap of another subresource of its resource.
THEOREM PointersOfMapsStayValid == Spec => PointersStayValid
<1>1. IInv /\ IInv' /\ [Next]_vars =>
        [\A r \in Resource, u \in Subresource :
           LET old == pointer[<<r, u>>] IN
           pointer'[<<r, u>>] # NoGrant /\ (old # NoGrant => Backed(r, u))
             => Backed(r, u)' \/ (old # NoGrant /\ stage[r] = "unmap" /\ mapped[r] = old)]_vars
  <2> SUFFICES ASSUME IInv, IInv', Next, NEW r \in Resource, NEW u \in Subresource,
                      pointer'[<<r, u>>] # NoGrant,
                      pointer[<<r, u>>] # NoGrant => Backed(r, u),
                      ~(pointer[<<r, u>>] # NoGrant /\ stage[r] = "unmap"
                          /\ mapped[r] = pointer[<<r, u>>])
               PROVE  Backed(r, u)'
    OBVIOUS
  <2>1. pointer'[<<r, u>>] \in kept' \cup {mapped'[r]}
    BY NextRecorded DEF Backed
  <2>2. pointer'[<<r, u>>] \in Owned'
    BY <2>1 DEF Owned
  <2>3. bitmap' = UNION {BlocksOf(g) : g \in Owned'}
    BY DEF IInv, BitmapIsExact, BlocksOf, Extent
  <2>4. BlocksOf(pointer'[<<r, u>>]) \subseteq bitmap'
    BY <2>2, <2>3
  <2> QED BY <2>1, <2>4 DEF Backed, BlocksOf, Extent
<1>2. Init => IInv
  BY InitInv
<1>3. IInv /\ [Next]_vars => IInv'
  BY NextInv
<1> QED BY <1>1, <1>2, <1>3, PTL DEF Spec, PointersStayValid
=============================================================================
