--------------------------- MODULE RendererProofs ---------------------------
(***************************************************************************)
(* Proofs about module Renderer: its safety properties, for every set of   *)
(* ids, every choice of kinds and every number of objects.                 *)
(***************************************************************************)
EXTENDS Renderer, FiniteSetTheorems, TLAPS

IInv == TypeOK /\ RefsAreCounted /\ BindingsAreTyped /\ TargetsAreTracked

USE ConstantsAssumption, NoneAssumption

-----------------------------------------------------------------------------
(* Counting *)

\* how many ids, binding points and maps hold an object
Names(o) == Cardinality({i \in Id : ObjectOf(i) = o})
Binds(o) == Cardinality({s \in Slot : bound[s] = o})
Holds(o) == Cardinality({k \in Key : Held(k) = o})

\* how many elements of S are mapped to o
Tally(f, S, o) == Cardinality({x \in S : f[x] = o})

\* A function that changes in one place moves one element from tally to tally.
LEMMA Recount ==
  ASSUME NEW S, IsFiniteSet(S), NEW f, f = [x \in S |-> f[x]], NEW s \in S, NEW v, NEW o
  PROVE  /\ Tally([f EXCEPT ![s] = v], S, o) = Tally(f, S, o) - One(o, f[s]) + One(o, v)
         /\ Tally(f, S, o) \in Nat
<1> DEFINE rest   == {x \in S \ {s} : f[x] = o}
           before == {x \in S : f[x] = o}
           after  == {x \in S : [f EXCEPT ![s] = v][x] = o}
<1>1. IsFiniteSet(rest)
  BY FS_Subset, rest \subseteq S
<1>2. before = (IF f[s] = o THEN rest \cup {s} ELSE rest) /\ s \notin rest
  OBVIOUS
<1>3. after = IF v = o THEN rest \cup {s} ELSE rest
  OBVIOUS
<1> HIDE DEF rest, before, after
<1>4. Cardinality(rest) \in Nat /\ Cardinality(rest \cup {s}) = Cardinality(rest) + 1
  BY <1>1, <1>2, FS_CardinalityType, FS_AddElement
<1>5. Cardinality(before) = Cardinality(rest) + One(o, f[s])
  BY <1>2, <1>4 DEF One
<1>6. Cardinality(after) = Cardinality(rest) + One(o, v)
  BY <1>3, <1>4 DEF One
<1>7. One(o, f[s]) \in {0, 1} /\ One(o, v) \in {0, 1}
  BY DEF One
<1>8. Cardinality(before) \in Nat /\ Cardinality(after) = Cardinality(before) - One(o, f[s]) + One(o, v)
  BY <1>4, <1>5, <1>6, <1>7
<1> QED BY <1>8 DEF before, after, Tally

LEMMA SlotIsFinite == IsFiniteSet(Slot)
<1>1. \A x, y : IsFiniteSet({x, y})
  <2> TAKE x, y
  <2>1. {x, y} = {x} \cup {y} /\ IsFiniteSet({x}) /\ IsFiniteSet({y})
    BY FS_Singleton
  <2>2. IsFiniteSet({x} \cup {y})
    BY <2>1, FS_AddElement
  <2> QED BY <2>1, <2>2
<1>2. \A S, T : IsFiniteSet(S) /\ IsFiniteSet(T) => IsFiniteSet(S \cup T)
  BY FS_Union
<1>3. IsFiniteSet({"target", "resource"} \cup {"buffer", "state"})
  BY <1>1, <1>2
<1>4. IsFiniteSet(({"vertex", "pixel"} \cup {"geometry", "hull"}) \cup {"domain", "compute"})
  BY <1>1, <1>2
<1>5. Shaders = ({"vertex", "pixel"} \cup {"geometry", "hull"}) \cup {"domain", "compute"}
  BY DEF Shaders
<1>6. IsFiniteSet(Shaders \cap Kinds)
  BY <1>4, <1>5, FS_Subset, Shaders \cap Kinds \subseteq Shaders
<1>7. Slot = ({"target", "resource"} \cup {"buffer", "state"}) \cup (Shaders \cap Kinds)
  BY DEF Slot
<1> QED BY <1>2, <1>3, <1>6, <1>7

\* The counts after a step that changes one id, one binding point or one map.
LEMMA NamesStep ==
  ASSUME TypeOK, NEW o, NEW i \in Id, NEW e, slab' = [slab EXCEPT ![i] = e]
  PROVE  /\ Names(o)' = Names(o) - One(o, ObjectOf(i)) + One(o, IF e = None THEN None ELSE e.obj)
         /\ Names(o) \in Nat
<1> DEFINE f == [j \in Id |-> ObjectOf(j)]
           v == IF e = None THEN None ELSE e.obj
<1>1. f = [j \in Id |-> f[j]] /\ f[i] = ObjectOf(i)
  OBVIOUS
<1>2. [j \in Id |-> ObjectOf(j)'] = [f EXCEPT ![i] = v]
  BY DEF TypeOK, ObjectOf
<1>3. Names(o) = Tally(f, Id, o)
  <2>1. {j \in Id : ObjectOf(j) = o} = {j \in Id : f[j] = o}
    OBVIOUS
  <2> QED BY <2>1 DEF Names, Tally
<1>4. Names(o)' = Tally([f EXCEPT ![i] = v], Id, o)
  <2>1. {j \in Id : ObjectOf(j)' = o} = {j \in Id : [f EXCEPT ![i] = v][j] = o}
    BY <1>2
  <2> QED BY <2>1 DEF Names, Tally
<1> HIDE DEF f, v
<1>5. Tally([f EXCEPT ![i] = v], Id, o) = Tally(f, Id, o) - One(o, f[i]) + One(o, v) /\ Tally(f, Id, o) \in Nat
  BY <1>1, Recount
<1> QED BY <1>1, <1>3, <1>4, <1>5 DEF v

LEMMA BindsStep ==
  ASSUME TypeOK, NEW o, NEW s \in Slot, NEW x, bound' = [bound EXCEPT ![s] = x]
  PROVE  Binds(o)' = Binds(o) - One(o, bound[s]) + One(o, x) /\ Binds(o) \in Nat
<1>1. bound = [t \in Slot |-> bound[t]]
  BY DEF TypeOK
<1>2. /\ Tally([bound EXCEPT ![s] = x], Slot, o) = Tally(bound, Slot, o) - One(o, bound[s]) + One(o, x)
      /\ Tally(bound, Slot, o) \in Nat
  <2> HIDE ConstantsAssumption, NoneAssumption
  <2> QED BY <1>1, SlotIsFinite, Recount
<1>3. Binds(o) = Tally(bound, Slot, o) /\ Binds(o)' = Tally(bound', Slot, o)
  BY DEF Binds, Tally
<1> QED BY <1>2, <1>3

LEMMA KeyIsFinite == IsFiniteSet(Key)
  BY FS_Product DEF Key

LEMMA HoldsStep ==
  ASSUME TypeOK, NEW o, NEW k \in Key, NEW m, maps' = [maps EXCEPT ![k] = m]
  PROVE  /\ Holds(o)' = Holds(o) - One(o, Held(k)) + One(o, IF m = None THEN None ELSE m.of)
         /\ Holds(o) \in Nat
<1> DEFINE f == [j \in Key |-> Held(j)]
           v == IF m = None THEN None ELSE m.of
<1>1. f = [j \in Key |-> f[j]] /\ f[k] = Held(k)
  OBVIOUS
<1>2. [j \in Key |-> Held(j)'] = [f EXCEPT ![k] = v]
  BY DEF TypeOK, Held
<1>3. Holds(o) = Tally(f, Key, o)
  <2>1. {j \in Key : Held(j) = o} = {j \in Key : f[j] = o}
    OBVIOUS
  <2> QED BY <2>1 DEF Holds, Tally
<1>4. Holds(o)' = Tally([f EXCEPT ![k] = v], Key, o)
  <2>1. {j \in Key : Held(j)' = o} = {j \in Key : [f EXCEPT ![k] = v][j] = o}
    BY <1>2
  <2> QED BY <2>1 DEF Holds, Tally
<1> HIDE DEF f, v
<1>5. Tally([f EXCEPT ![k] = v], Key, o) = Tally(f, Key, o) - One(o, f[k]) + One(o, v) /\ Tally(f, Key, o) \in Nat
  BY <1>1, KeyIsFinite, Recount
<1> QED BY <1>1, <1>3, <1>4, <1>5 DEF v

\* What leaves the slab, the bindings or the maps alone leaves their counts alone.
LEMMA SameCounts ==
  /\ UNCHANGED slab => \A o : Names(o)' = Names(o)
  /\ UNCHANGED bound => \A o : Binds(o)' = Binds(o)
  /\ UNCHANGED maps => \A o : Holds(o)' = Holds(o)
<1>1. UNCHANGED slab => \A o : Names(o)' = Names(o)
  BY DEF Names, ObjectOf
<1>2. UNCHANGED bound => \A o : Binds(o)' = Binds(o)
  BY DEF Binds
<1>3. UNCHANGED maps => \A o : Holds(o)' = Holds(o)
  BY DEF Holds, Held
<1> QED BY <1>1, <1>2, <1>3

LEMMA HoldersSplit ==
  ASSUME NEW o \in Object
  PROVE  /\ Holders(o) = Names(o) + Binds(o) + Holds(o) + One(o, current)
         /\ Holders(o)' = Names(o)' + Binds(o)' + Holds(o)' + One(o, current')
         /\ Names(o) \in Nat /\ Binds(o) \in Nat /\ Holds(o) \in Nat
         /\ Holders(o) \in Nat /\ Holders(o)' \in Nat
<1>1. \A S, T : IsFiniteSet(S) /\ T \subseteq S => Cardinality(T) \in Nat
  BY FS_Subset, FS_CardinalityType
<1>2. Names(o) \in Nat /\ Names(o)' \in Nat
  BY <1>1, {i \in Id : ObjectOf(i) = o} \subseteq Id, {i \in Id : ObjectOf(i)' = o} \subseteq Id DEF Names
<1>3. Binds(o) \in Nat /\ Binds(o)' \in Nat
  BY <1>1, SlotIsFinite, {s \in Slot : bound[s] = o} \subseteq Slot, {s \in Slot : bound'[s] = o} \subseteq Slot DEF Binds
<1>4. Holds(o) \in Nat /\ Holds(o)' \in Nat
  BY <1>1, KeyIsFinite, {k \in Key : Held(k) = o} \subseteq Key, {k \in Key : Held(k)' = o} \subseteq Key DEF Holds
<1>5. \A x : One(o, x) \in {0, 1}
  BY DEF One
<1>6. /\ Holders(o) = Names(o) + Binds(o) + Holds(o) + One(o, current)
      /\ Holders(o)' = Names(o)' + Binds(o)' + Holds(o)' + One(o, current')
  BY DEF Holders, Names, Binds, Holds
<1> QED BY <1>2, <1>3, <1>4, <1>5, <1>6

\* Counting by hand is right when the holders change as the count does.
LEMMA RefsStep ==
  ASSUME TypeOK, RefsAreCounted, NEW gained, NEW lost, Count(gained, lost),
         \A o \in Object : Holders(o)' = Holders(o) + One(o, gained) - One(o, lost)
  PROVE  RefsAreCounted' /\ refs' \in [Object -> Nat]
<1>1. \A o \in Object : refs'[o] = Holders(o)'
  BY DEF Count, RefsAreCounted
<1>2. refs' = [o \in Object |-> refs'[o]]
  BY DEF Count
<1>3. \A o \in Object : refs'[o] \in Nat
  BY <1>1, HoldersSplit
<1> QED BY <1>1, <1>2, <1>3 DEF RefsAreCounted

\* What a binding point holds is referenced, so no creation takes its memory.
LEMMA BoundIsReferenced ==
  ASSUME TypeOK, RefsAreCounted, NEW s \in Slot, bound[s] # None
  PROVE  bound[s] \in Object /\ refs[bound[s]] # 0
<1> DEFINE o == bound[s]
<1>1. o \in Object
  BY DEF TypeOK
<1>2. IsFiniteSet({t \in Slot : bound[t] = o})
  BY SlotIsFinite, FS_Subset, {t \in Slot : bound[t] = o} \subseteq Slot
<1>3. {t \in Slot : bound[t] = o} # {}
  OBVIOUS
<1>4. Binds(o) # 0
  BY <1>2, <1>3, FS_EmptySet DEF Binds
<1>5. One(o, current) \in {0, 1}
  BY DEF One
<1>6. Holders(o) # 0
  BY <1>1, <1>4, <1>5, HoldersSplit
<1> QED BY <1>1, <1>6 DEF RefsAreCounted

LEMMA PutStep ==
  ASSUME TypeOK, NEW o, NEW v \in Data, Put(o, v)
  PROVE  /\ data' \in [Object -> Data]
         /\ \A x \in Object : data'[x] = "junk" => data[x] = "junk" \/ (x = o /\ v = "junk")
  BY DEF TypeOK, Put, Data

-----------------------------------------------------------------------------
(* The steps *)

\* A step that changes neither kinds nor bindings nor targets keeps what is said of them.
LEMMA SameBindings ==
  ASSUME BindingsAreTyped, TargetsAreTracked, UNCHANGED <<kind, context>>
  PROVE  BindingsAreTyped' /\ TargetsAreTracked'
  BY DEF BindingsAreTyped, TargetsAreTracked, context

\* A refused command changes nothing.
LEMMA StutterStep ==
  ASSUME IInv, UNCHANGED vars
  PROVE  IInv'
<1> USE DEF IInv, vars, objects, context
<1>1. RefsAreCounted'
  BY HoldersSplit, SameCounts DEF RefsAreCounted
<1> QED BY <1>1, SameBindings DEF TypeOK

LEMMA InsertStep ==
  ASSUME IInv, NEW i \in Id, NEW k, NEW views \in SUBSET View,
         Insert(i, k, views)
  PROVE  IInv'
<1> DEFINE e == [obj |-> Fresh, views |-> views]
<1> USE DEF IInv
<1>1. Fresh \in Object /\ refs[Fresh] = 0 /\ k \in Kinds
  BY DEF Insert, Fresh, Free
<1>2. slab' = [slab EXCEPT ![i] = e] /\ e \in Entry /\ e # None /\ e.obj = Fresh
  BY <1>1 DEF Insert, SlabInsert, Entry, TypeOK
<1>3. UNCHANGED <<bound, current, maps>> /\ kind' = [kind EXCEPT ![Fresh] = k]
  BY DEF Insert, context
<1>4. RefsAreCounted' /\ refs' \in [Object -> Nat]
  <2>1. ASSUME NEW o \in Object
        PROVE  Holders(o)' = Holders(o) + One(o, Fresh) - One(o, ObjectOf(i))
    <3>1. Names(o)' = Names(o) - One(o, ObjectOf(i)) + One(o, Fresh)
      BY <1>2, NamesStep
    <3>2. One(o, ObjectOf(i)) \in {0, 1} /\ One(o, Fresh) \in {0, 1} /\ One(o, current) \in {0, 1}
      BY DEF One
    <3> QED BY <1>3, <3>1, <3>2, HoldersSplit, SameCounts
  <2> QED BY <2>1, RefsStep DEF Insert
<1>5. data' \in [Object -> Data]
  BY PutStep, "clean" \in Data DEF Insert, Keep, Data
<1>6. TypeOK'
  BY <1>1, <1>2, <1>3, <1>4, <1>5 DEF TypeOK
<1>7. BindingsAreTyped'
  BY <1>1, <1>3, BoundIsReferenced DEF BindingsAreTyped, TypeOK
<1>8. TargetsAreTracked'
  BY <1>3, <1>5 DEF TargetsAreTracked
<1> QED BY <1>4, <1>6, <1>7, <1>8

LEMMA DestroyStep ==
  ASSUME IInv, NEW i \in Id, DestroyResource(i)
  PROVE  IInv'
<1> USE DEF IInv
<1>1. slab' = [slab EXCEPT ![i] = None] /\ UNCHANGED <<kind, context, maps>>
  BY DEF DestroyResource
<1>2. RefsAreCounted' /\ refs' \in [Object -> Nat]
  <2>1. ASSUME NEW o \in Object
        PROVE  Holders(o)' = Holders(o) + One(o, None) - One(o, ObjectOf(i))
    <3>1. Names(o)' = Names(o) - One(o, ObjectOf(i)) + One(o, None)
      BY <1>1, NamesStep
    <3>2. One(o, ObjectOf(i)) \in {0, 1} /\ One(o, None) \in {0, 1} /\ One(o, current) \in {0, 1}
      BY DEF One
    <3> QED BY <1>1, <3>1, <3>2, HoldersSplit, SameCounts DEF context
  <2> QED BY <2>1, RefsStep DEF DestroyResource
<1>3. data' \in [Object -> Data]
  BY PutStep, "clean" \in Data DEF DestroyResource, Keep, Data
<1>4. TypeOK'
  BY <1>1, <1>2, <1>3 DEF TypeOK, context
<1> QED BY <1>1, <1>2, <1>4, SameBindings

LEMMA OpenStep ==
  ASSUME IInv, NEW i \in Id, NEW from \in Id, OpenResource(i, from), Get(from, Mapped)
  PROVE  IInv'
<1> DEFINE e == [obj |-> ObjectOf(from), views |-> {}]
<1> USE DEF IInv
<1>1. slab' = [slab EXCEPT ![i] = e] /\ UNCHANGED <<kind, context, maps>>
  BY DEF OpenResource, Register, SlabInsert
<1>2. ObjectOf(from) \in Object /\ e \in Entry /\ e # None /\ e.obj = ObjectOf(from)
  BY DEF Get, ObjectOf, TypeOK, Entry
<1>3. RefsAreCounted' /\ refs' \in [Object -> Nat]
  <2>1. ASSUME NEW o \in Object
        PROVE  Holders(o)' = Holders(o) + One(o, ObjectOf(from)) - One(o, ObjectOf(i))
    <3>1. Names(o)' = Names(o) - One(o, ObjectOf(i)) + One(o, ObjectOf(from))
      BY <1>1, <1>2, NamesStep
    <3>2. One(o, ObjectOf(i)) \in {0, 1} /\ One(o, ObjectOf(from)) \in {0, 1} /\ One(o, current) \in {0, 1}
      BY DEF One
    <3> QED BY <1>1, <3>1, <3>2, HoldersSplit, SameCounts DEF context
  <2> QED BY <2>1, RefsStep DEF OpenResource
<1>4. data' \in [Object -> Data]
  BY PutStep, "clean" \in Data DEF OpenResource, Keep, Data
<1>5. TypeOK'
  BY <1>1, <1>2, <1>3, <1>4 DEF TypeOK, context
<1> QED BY <1>1, <1>3, <1>5, SameBindings

LEMMA MapStep ==
  ASSUME IInv, NEW i \in Id, NEW sub \in Sub, Get(i, Mapped), NEW reads \in BOOLEAN,
         maps' = [maps EXCEPT ![<<i, sub>>] = MapResult(i, reads)],
         Count(ObjectOf(i), Held(<<i, sub>>)), Keep, UNCHANGED <<slab, kind, context>>
  PROVE  IInv'
<1> DEFINE m == MapResult(i, reads)
           k == <<i, sub>>
<1> USE DEF IInv
<1>1. ObjectOf(i) \in Object /\ m \in Map /\ m # None /\ m.of = ObjectOf(i)
  BY DEF Get, ObjectOf, TypeOK, Entry, Map, MapResult, Data
<1>2. k \in Key
  BY DEF Key
<1> HIDE DEF m, k
<1>3. maps' = [maps EXCEPT ![k] = m] /\ Count(ObjectOf(i), Held(k))
  BY DEF m, k
<1>4. RefsAreCounted' /\ refs' \in [Object -> Nat]
  <2>1. ASSUME NEW o \in Object
        PROVE  Holders(o)' = Holders(o) + One(o, ObjectOf(i)) - One(o, Held(k))
    <3>1. Holds(o)' = Holds(o) - One(o, Held(k)) + One(o, ObjectOf(i))
      BY <1>1, <1>2, <1>3, HoldsStep
    <3>2. One(o, ObjectOf(i)) \in {0, 1} /\ One(o, Held(k)) \in {0, 1} /\ One(o, current) \in {0, 1}
      BY DEF One
    <3> QED BY <3>1, <3>2, HoldersSplit, SameCounts DEF context
  <2> QED BY <1>3, <2>1, RefsStep
<1>5. data' \in [Object -> Data]
  BY PutStep, "clean" \in Data DEF Keep, Data
<1>6. maps' \in [Key -> Map \cup {None}]
  BY <1>1, <1>2, <1>3 DEF TypeOK
<1>7. TypeOK'
  BY <1>4, <1>5, <1>6 DEF TypeOK, context
<1> QED BY <1>4, <1>7, SameBindings

\* An unmap puts a staging copy, or a clean one, into the object that was mapped.
LEMMA WriteBackStep ==
  ASSUME TypeOK, NEW k \in Key, maps[k] # None, WriteBack(k)
  PROVE  \E o, v : /\ Put(o, v) /\ o \in {Held(k), None}
                   /\ v \in {"clean", maps[k].staging} /\ v \in Data
<1>1. maps[k].staging \in Data /\ "clean" \in Data
  BY DEF TypeOK, Map, Data
<1>2. \A w \in BOOLEAN : Overwritten(maps[k].staging, w) \in {"clean", maps[k].staging}
  BY DEF Overwritten
<1>3. CASE Keep
  BY <1>1, <1>3 DEF Keep
<1>4. CASE ~Keep
  <2>1. PICK v \in {maps[k].staging} \cup {Overwritten(maps[k].staging, w) : w \in BOOLEAN} : Put(Held(k), v)
    BY <1>4 DEF WriteBack
  <2>2. v \in {"clean", maps[k].staging} /\ v \in Data
    BY <1>1, <1>2
  <2> QED BY <2>1, <2>2
<1> QED BY <1>3, <1>4

LEMMA UnmapStep ==
  ASSUME IInv, NEW i \in Id, NEW sub \in Sub, UnmapResource(i, sub), maps[<<i, sub>>] # None
  PROVE  IInv'
<1> DEFINE k == <<i, sub>>
<1> USE DEF IInv
<1>1. k \in Key
  BY DEF Key
<1>2. maps' = [maps EXCEPT ![k] = None] /\ UNCHANGED <<slab, kind, context>>
      /\ Count(None, Held(k)) /\ WriteBack(k) /\ maps[k] # None
  BY DEF UnmapResource
<1> HIDE DEF k
<1>3. RefsAreCounted' /\ refs' \in [Object -> Nat]
  <2>1. ASSUME NEW o \in Object
        PROVE  Holders(o)' = Holders(o) + One(o, None) - One(o, Held(k))
    <3>1. Holds(o)' = Holds(o) - One(o, Held(k)) + One(o, None)
      BY <1>1, <1>2, HoldsStep
    <3>2. One(o, Held(k)) \in {0, 1} /\ One(o, None) \in {0, 1} /\ One(o, current) \in {0, 1}
      BY DEF One
    <3> QED BY <1>2, <3>1, <3>2, HoldersSplit, SameCounts DEF context
  <2> QED BY <1>2, <2>1, RefsStep
<1>4. data' \in [Object -> Data]
  BY <1>1, <1>2, WriteBackStep, PutStep
<1>5. TypeOK'
  BY <1>1, <1>2, <1>3, <1>4 DEF TypeOK, context
<1> QED BY <1>2, <1>3, <1>5, SameBindings

LEMMA RewriteStep ==
  ASSUME IInv, NEW o, NEW v \in Data, Rewrite(o, v)
  PROVE  IInv'
<1> USE DEF IInv
<1>1. UNCHANGED <<slab, kind, refs, context, maps>>
  BY DEF Rewrite
<1>2. data' \in [Object -> Data]
  BY PutStep DEF Rewrite
<1>3. TypeOK'
  BY <1>1, <1>2 DEF TypeOK, context
<1>4. RefsAreCounted'
  BY <1>1, HoldersSplit, SameCounts DEF RefsAreCounted, context
<1> QED BY <1>1, <1>3, <1>4, SameBindings

LEMMA SetStep ==
  ASSUME IInv, NEW slot \in Slot \ {"target"}, NEW i, Set(slot, i)
  PROVE  IInv'
<1> DEFINE x == IF i = 0 THEN None ELSE ObjectOf(i)
<1> USE DEF IInv
<1>1. CASE i = 0 \/ Fits(i, slot)
  <2>1. Bind(slot, x)
    BY <1>1 DEF Set
  <2>2. x \in Object \cup {None} /\ (x # None => kind[x] \in Takes(slot))
    BY <1>1 DEF Fits, Get, ObjectOf, TypeOK, Entry
  <2>3. bound' = [bound EXCEPT ![slot] = x] /\ UNCHANGED <<slab, kind, current, maps>>
    BY <2>1 DEF Bind
  <2> HIDE DEF x
  <2>4. RefsAreCounted' /\ refs' \in [Object -> Nat]
    <3>1. ASSUME NEW o \in Object
          PROVE  Holders(o)' = Holders(o) + One(o, x) - One(o, bound[slot])
      <4>1. Binds(o)' = Binds(o) - One(o, bound[slot]) + One(o, x)
        BY <2>3, BindsStep
      <4>2. One(o, bound[slot]) \in {0, 1} /\ One(o, x) \in {0, 1} /\ One(o, current) \in {0, 1}
        BY DEF One
      <4> QED BY <2>3, <4>1, <4>2, HoldersSplit, SameCounts
    <3> QED BY <2>1, <3>1, RefsStep DEF Bind
  <2>5. data' \in [Object -> Data]
    BY <2>1, PutStep, "clean" \in Data DEF Bind, Keep, Data
  <2>6. TypeOK'
    BY <2>2, <2>3, <2>4, <2>5 DEF TypeOK
  <2>7. BindingsAreTyped'
    BY <2>2, <2>3 DEF BindingsAreTyped, TypeOK
  <2>8. TargetsAreTracked'
    BY <2>3, <2>5 DEF TargetsAreTracked, TypeOK
  <2> QED BY <2>4, <2>6, <2>7, <2>8
<1>2. CASE ~(i = 0 \/ Fits(i, slot))
  BY <1>2, StutterStep DEF Set, Refused
<1> QED BY <1>1, <1>2

LEMMA TargetsStep ==
  ASSUME IInv, NEW i, NEW depth, SetRenderTargets(i, depth)
  PROVE  IInv'
<1> DEFINE x == TargetOf(i)
<1> USE DEF IInv
<1>1. CASE (i = 0 \/ Get(i, {"texture"})) /\ ~depth
  <2>1. /\ bound' = [bound EXCEPT !["target"] = x] /\ current' = x
        /\ Keep /\ UNCHANGED <<slab, kind, maps>>
        /\ refs' = [o \in Object |-> refs[o] + 2 * One(o, x) - One(o, bound["target"]) - One(o, current)]
    BY <1>1 DEF SetRenderTargets
  <2>2. x \in Object \cup {None} /\ (x # None => kind[x] \in Takes("target"))
    BY DEF TargetOf, Fits, Get, ObjectOf, TypeOK, Entry
  <2>3. "target" \in Slot
    BY DEF Slot
  <2> HIDE DEF x
  <2>4. \A o \in Object : refs'[o] = Holders(o)'
    <3> TAKE o \in Object
    <3>1. Binds(o)' = Binds(o) - One(o, bound["target"]) + One(o, x)
      BY <2>1, <2>3, BindsStep
    <3>2. /\ One(o, bound["target"]) \in {0, 1} /\ One(o, x) \in {0, 1} /\ One(o, current) \in {0, 1}
      BY DEF One
    <3>3. refs'[o] = Holders(o) + 2 * One(o, x) - One(o, bound["target"]) - One(o, current)
      BY <2>1 DEF RefsAreCounted
    <3> QED BY <2>1, <3>1, <3>2, <3>3, HoldersSplit, SameCounts
  <2>5. RefsAreCounted' /\ refs' \in [Object -> Nat]
    BY <2>1, <2>4, HoldersSplit DEF RefsAreCounted
  <2>6. data' \in [Object -> Data]
    BY <2>1, PutStep, "clean" \in Data DEF Keep, Data
  <2>7. TypeOK'
    BY <2>1, <2>2, <2>5, <2>6 DEF TypeOK
  <2>8. BindingsAreTyped'
    BY <2>1, <2>2 DEF BindingsAreTyped, TypeOK
  <2>9. TargetsAreTracked'
    BY <2>1, <2>3, <2>6 DEF TargetsAreTracked, TypeOK
  <2> QED BY <2>5, <2>7, <2>8, <2>9
<1>2. CASE ~((i = 0 \/ Get(i, {"texture"})) /\ ~depth)
  BY <1>2, StutterStep DEF SetRenderTargets, Refused
<1> QED BY <1>1, <1>2

-----------------------------------------------------------------------------
(* The theorems *)

LEMMA InitStep == Init => IInv
<1> SUFFICES ASSUME Init PROVE IInv
  OBVIOUS
<1>1. TypeOK
  BY DEF Init, TypeOK, Data
<1>2. BindingsAreTyped /\ TargetsAreTracked
  BY DEF Init, BindingsAreTyped, TargetsAreTracked, Slot
<1>3. RefsAreCounted
  <2> SUFFICES ASSUME NEW o \in Object PROVE Holders(o) = 0
    BY DEF RefsAreCounted, Init
  <2>1. o # None
    BY DEF Object
  <2>2. {i \in Id : ObjectOf(i) = o} = {} /\ {s \in Slot : bound[s] = o} = {} /\ {k \in Key : Held(k) = o} = {}
    BY <2>1 DEF Init, ObjectOf, Held
  <2>3. One(o, current) = 0
    BY <2>1 DEF Init, One
  <2>4. Cardinality({}) = 0
    BY FS_EmptySet
  <2>5. Names(o) = 0 /\ Binds(o) = 0 /\ Holds(o) = 0
    BY <2>2, <2>4 DEF Names, Binds, Holds
  <2> QED BY <2>3, <2>5, HoldersSplit
<1> QED BY <1>1, <1>2, <1>3 DEF IInv

LEMMA NextStep ==
  ASSUME IInv, [ProcessCommand]_vars
  PROVE  IInv'
<1>0. CASE Refused \/ UNCHANGED vars
  BY <1>0, StutterStep DEF Refused
<1>1. ASSUME NEW i \in Id, CreateResource(i) \/ CreateShader(i)
      PROVE  IInv'
  <2>1. CASE \E views \in SUBSET View : Insert(i, "texture", views)
    BY <2>1, InsertStep
  <2>2. CASE Insert(i, "buffer", {})
    BY <2>2, InsertStep, {} \in SUBSET View
  <2>3. CASE \E k \in Shaders : Insert(i, k, {})
    BY <2>3, InsertStep, {} \in SUBSET View
  <2> QED BY <1>0, <1>1, <2>1, <2>2, <2>3 DEF CreateResource, CreateTexture2D, CreateBuffer, CreateShader
<1>2. ASSUME NEW i \in Id, DestroyResource(i)
      PROVE  IInv'
  BY <1>2, DestroyStep
<1>3. ASSUME NEW i \in Id, NEW sub \in Sub, MapResource(i, sub)
      PROVE  IInv'
  BY <1>0, <1>3, MapStep DEF MapResource
<1>4. ASSUME NEW i \in Id, NEW sub \in Sub, UnmapResource(i, sub)
      PROVE  IInv'
  BY <1>0, <1>4, UnmapStep DEF UnmapResource
<1>5. ASSUME NEW i \in Id, UpdateResource(i)
      PROVE  IInv'
  <2>1. ASSUME NEW whole \in BOOLEAN, Get(i, Mapped), Rewrite(ObjectOf(i), Overwritten(data[ObjectOf(i)], whole))
        PROVE  IInv'
    <3>1. data[ObjectOf(i)] \in Data
      BY <2>1 DEF IInv, TypeOK, Get, ObjectOf, Entry
    <3>2. Overwritten(data[ObjectOf(i)], whole) \in Data
      BY <3>1 DEF Overwritten, Data
    <3> QED BY <2>1, <3>2, RewriteStep
  <2> QED BY <1>0, <1>5, <2>1 DEF UpdateResource, UpdateSubresource
<1>6. ASSUME NEW i \in Id, ClearRenderTarget(i)
      PROVE  IInv'
  BY <1>0, <1>6, RewriteStep, "clean" \in Data DEF ClearRenderTarget, Data
<1>7. ASSUME NEW i \in Id, NEW from \in Id, OpenResource(i, from)
      PROVE  IInv'
  <2>1. CASE Get(from, Mapped)
    BY <1>7, <2>1, OpenStep
  <2> QED BY <1>0, <1>7, <2>1 DEF OpenResource
<1>8. ASSUME NEW i \in Id, NEW from \in Id, CopyResource(i, from)
      PROVE  IInv'
  <2>1. ASSUME Get(from, {kind[ObjectOf(i)]}), Rewrite(ObjectOf(i), data[ObjectOf(from)])
        PROVE  IInv'
    <3>1. data[ObjectOf(from)] \in Data
      BY <2>1 DEF IInv, TypeOK, Get, ObjectOf, Entry
    <3> QED BY <2>1, <3>1, RewriteStep
  <2> QED BY <1>0, <1>8, <2>1 DEF CopyResource
<1>9. ASSUME NEW i \in Id \cup {0}, Setter(i)
      PROVE  IInv'
  <2>1. PICK s \in Slot \ {"target"} : Set(s, i)
    BY <1>9 DEF Setter, SetBuffer, SetShaderResource, SetState, SetShader, Slot, Shaders
  <2> QED BY <2>1, SetStep
<1>10. ASSUME NEW i \in Id \cup {0}, NEW depth \in BOOLEAN, SetRenderTargets(i, depth)
       PROVE  IInv'
  BY <1>10, TargetsStep
<1>11. CASE Draw
  <2>1. CASE bound["target"] # None
    <3>1. PICK whole \in BOOLEAN : Rewrite(bound["target"], Overwritten(data[bound["target"]], whole))
      BY <1>11, <2>1 DEF Draw
    <3>2. "target" \in Slot
      BY DEF Slot
    <3>3. Overwritten(data[bound["target"]], whole) \in Data
      BY <2>1, <3>2 DEF Overwritten, Data, IInv, TypeOK
    <3> QED BY <3>1, <3>3, RewriteStep
  <2> QED BY <1>0, <1>11, <2>1 DEF Draw
<1> QED BY <1>0, <1>1, <1>2, <1>3, <1>4, <1>5, <1>6, <1>7, <1>8, <1>9, <1>10, <1>11 DEF ProcessCommand

\* No other command touches the active maps, and what another writes to an object is
\* clean or the contents of an object.
LEMMA OtherCommands ==
  ASSUME TypeOK, ProcessCommand
  PROVE  \/ \E i \in Id, sub \in Sub : MapResource(i, sub) \/ UnmapResource(i, sub)
         \/ UNCHANGED <<data, maps>>
         \/ UNCHANGED maps /\ \E o, v : Put(o, v) /\ (v = "clean" \/ \E x \in Object : v = data[x])
<1> DEFINE Clear == UNCHANGED maps /\ \E o, v : Put(o, v) /\ (v = "clean" \/ \E x \in Object : v = data[x])
           Same  == UNCHANGED <<data, maps>>
<1> USE DEF vars, objects, Refused
<1>1. Keep /\ UNCHANGED maps => Clear
  BY DEF Keep
<1>2. \A o, whole : o \in Object /\ Rewrite(o, Overwritten(data[o], whole)) => Clear
  BY DEF Rewrite, Overwritten
<1>3. \A o : Rewrite(o, "clean") => Clear
  BY DEF Rewrite
<1>4. \A i \in Id : slab[i] # None => ObjectOf(i) \in Object
  BY DEF TypeOK, Entry, ObjectOf
<1>5. \A i \in Id : CreateResource(i) \/ CreateShader(i) \/ DestroyResource(i) => Clear \/ Same
  BY <1>1 DEF CreateResource, CreateTexture2D, CreateBuffer, CreateShader, Insert, DestroyResource
<1>6. \A i \in Id : UpdateResource(i) \/ ClearRenderTarget(i) => Clear \/ Same
  BY <1>2, <1>3, <1>4 DEF UpdateResource, UpdateSubresource, ClearRenderTarget, Get
<1>7. \A i, from \in Id : OpenResource(i, from) => Clear \/ Same
  BY <1>1 DEF OpenResource
<1>8. \A i, from \in Id : CopyResource(i, from) => Clear \/ Same
  BY <1>4 DEF CopyResource, Get, Rewrite
<1>9. \A i : Setter(i) => Clear \/ Same
  BY <1>1 DEF Setter, SetBuffer, SetShaderResource, SetState, SetShader, Set, Bind
<1>10. \A i : (\E depth \in BOOLEAN : SetRenderTargets(i, depth)) => Clear \/ Same
  BY <1>1 DEF SetRenderTargets
<1>11. "target" \in Slot /\ (bound["target"] # None => bound["target"] \in Object)
  BY DEF TypeOK, Slot
<1>12. Draw => Clear \/ Same
  BY <1>2, <1>11 DEF Draw
<1> HIDE DEF Clear, Same
<1>13. Clear \/ Same \/ \E i \in Id, sub \in Sub : MapResource(i, sub) \/ UnmapResource(i, sub)
  BY <1>5, <1>6, <1>7, <1>8, <1>9, <1>10, <1>12 DEF ProcessCommand
<1> QED BY <1>13 DEF Clear, Same

\* The inductive invariant of the handlers: types, counts, bindings and contents, whatever
\* the guest sends (CommandProcessor::process_command).
THEOREM Invariance == Spec => []IInv
<1>1. Init => IInv
  BY InitStep
<1>2. IInv /\ [ProcessCommand]_vars => IInv'
  BY NextStep
<1> QED BY <1>1, <1>2, PTL DEF Spec

\* Every variable keeps its type.
THEOREM TypeCorrect == Spec => []TypeOK
<1>1. IInv => TypeOK
  BY DEF IInv
<1> QED BY <1>1, Invariance, PTL

\* The counts of all objects balance (open_resource, and every drop).
THEOREM CountsBalance == Spec => []RefsAreCounted
<1>1. IInv => RefsAreCounted
  BY DEF IInv
<1> QED BY <1>1, Invariance, PTL

\* A binding point holds what it takes: its object is referenced, so its memory is not
\* used for another kind (set_shader and the other setters).
THEOREM BindingsStayTyped == Spec => []BindingsAreTyped
<1>1. IInv => BindingsAreTyped
  BY DEF IInv
<1> QED BY <1>1, Invariance, PTL

\* current_rtvs is what is bound (set_render_targets).
THEOREM TargetsStayTracked == Spec => []TargetsAreTracked
<1>1. IInv => TargetsAreTracked
  BY DEF IInv
<1> QED BY <1>1, Invariance, PTL

\* Bytes that nobody wrote enter a resource at the unmap of a map that did not read, and
\* nowhere else, whatever is copied, opened, destroyed or created meanwhile (map_resource
\* fills the staging copy of every other map, and unmap_resource writes the original).
THEOREM NothingStaysUninitialised == Spec => NothingUninitialised
<1> DEFINE Discarded == \E k \in Key :
                          /\ maps[k] # None /\ ~maps[k].reads /\ maps'[k] = None
                          /\ \A o \in Object : data'[o] = "junk" => o = Held(k)
<1>1. IInv /\ [ProcessCommand]_vars => [Clean => Clean' \/ Discarded]_vars
  <2> SUFFICES ASSUME IInv, ProcessCommand, Clean
               PROVE  Clean' \/ Discarded
    OBVIOUS
  <2> USE DEF IInv
  <2>0. "clean" \in Data /\ "clean" # "junk" /\ \A x \in Object : data[x] \in Data /\ data[x] # "junk"
    BY DEF Data, TypeOK, Clean
  <2>1. CASE UNCHANGED <<data, maps>>
    BY <2>1 DEF Clean
  <2>2. CASE UNCHANGED maps /\ \E o, v : Put(o, v) /\ (v = "clean" \/ \E x \in Object : v = data[x])
    <3>1. PICK o, v : Put(o, v) /\ (v = "clean" \/ \E x \in Object : v = data[x])
      BY <2>2
    <3>2. \A x \in Object : data'[x] # "junk"
      BY <2>0, <3>1, PutStep
    <3> QED BY <2>2, <3>2 DEF Clean
  <2>3. ASSUME NEW i \in Id, NEW sub \in Sub, MapResource(i, sub)
        PROVE  Clean'
    <3>1. CASE Refused
      BY <3>1 DEF Refused, vars, objects, Clean
    <3>2. CASE ~Refused
      <4>1. PICK reads \in BOOLEAN : maps' = [maps EXCEPT ![<<i, sub>>] = MapResult(i, reads)]
        BY <2>3, <3>2 DEF MapResource
      <4>2. Get(i, Mapped) /\ Keep
        BY <2>3, <3>2 DEF MapResource
      <4>3. ObjectOf(i) \in Object
        BY <4>2 DEF Get, ObjectOf, TypeOK, Entry
      <4>4. \A x \in Object : data'[x] # "junk"
        BY <2>0, <4>2, PutStep DEF Keep
      <4>5. MapResult(i, reads).reads => MapResult(i, reads).staging # "junk"
        BY <2>0, <4>3 DEF MapResult
      <4>6. \A k \in Key : maps'[k] # None /\ maps'[k].reads => maps'[k].staging # "junk"
        BY <4>1, <4>5 DEF Clean, TypeOK
      <4> QED BY <4>4, <4>6 DEF Clean
    <3> QED BY <3>1, <3>2
  <2>4. ASSUME NEW i \in Id, NEW sub \in Sub, UnmapResource(i, sub)
        PROVE  Clean' \/ Discarded
    <3> DEFINE k == <<i, sub>>
    <3>1. CASE maps[k] = None
      BY <2>4, <3>1 DEF UnmapResource, Refused, vars, objects, Clean
    <3>2. CASE maps[k] # None
      <4>1. k \in Key /\ maps' = [maps EXCEPT ![k] = None] /\ WriteBack(k)
        BY <2>4, <3>2 DEF UnmapResource, Key
      <4> HIDE DEF k
      <4>2. PICK o, v : Put(o, v) /\ o \in {Held(k), None} /\ v \in {"clean", maps[k].staging} /\ v \in Data
        BY <3>2, <4>1, WriteBackStep
      <4>3. \A x \in Object : data'[x] = "junk" => x = o /\ v = "junk"
        BY <2>0, <4>2, PutStep
      <4>4. \A j \in Key : maps'[j] # None => maps'[j] = maps[j]
        BY <4>1 DEF TypeOK
      <4>5. CASE v = "junk"
        <5>1. ~maps[k].reads
          BY <2>0, <3>2, <4>1, <4>2, <4>5 DEF Clean
        <5>2. maps'[k] = None
          BY <4>1 DEF TypeOK
        <5>3. \A x \in Object : x # None
          BY DEF Object
        <5> QED BY <3>2, <4>1, <4>2, <4>3, <5>1, <5>2, <5>3
      <4>6. CASE v # "junk"
        BY <4>3, <4>4, <4>6 DEF Clean
      <4> QED BY <4>5, <4>6
    <3> QED BY <3>1, <3>2
  <2> QED BY <2>1, <2>2, <2>3, <2>4, OtherCommands
<1> QED BY <1>1, Invariance, PTL DEF Spec, NothingUninitialised

\* An unmap writes the object that was mapped and no other (unmap_resource).
THEOREM UnmapsReachTheirObject == Spec => UnmapReachesTheMappedObject
<1> DEFINE A == \A k \in Key : Held(k) # None /\ Held(k)' = None
                   => \A o \in Object : data'[o] = data[o] \/ o = Held(k) \/ refs'[o] = 0
<1>1. IInv /\ [ProcessCommand]_vars => [A]_vars
  <2> SUFFICES ASSUME IInv, ProcessCommand, NEW k \in Key, Held(k) # None, Held(k)' = None
               PROVE  \A o \in Object : data'[o] = data[o] \/ o = Held(k) \/ refs'[o] = 0
    OBVIOUS
  <2>1. ~UNCHANGED maps
    BY DEF Held
  <2>2. PICK i \in Id, sub \in Sub : MapResource(i, sub) \/ UnmapResource(i, sub)
    BY <2>1, OtherCommands DEF IInv
  <2> DEFINE j == <<i, sub>>
  <2>3. CASE MapResource(i, sub)
    <3>1. Get(i, Mapped) /\ \E reads \in BOOLEAN : maps' = [maps EXCEPT ![j] = MapResult(i, reads)]
      BY <2>1, <2>3 DEF MapResource, Refused, vars
    <3>2. PICK reads \in BOOLEAN : maps' = [maps EXCEPT ![j] = MapResult(i, reads)]
      BY <3>1
    <3>3. MapResult(i, reads) # None /\ MapResult(i, reads).of # None
      BY <3>1 DEF IInv, TypeOK, Get, ObjectOf, Entry, MapResult, Map, Data, Object
    <3> QED BY <3>2, <3>3 DEF Held, IInv, TypeOK
  <2>4. CASE UnmapResource(i, sub)
    <3>1. maps[j] # None /\ maps' = [maps EXCEPT ![j] = None] /\ WriteBack(j) /\ j \in Key
      BY <2>1, <2>4 DEF UnmapResource, Refused, vars, Key
    <3>2. k = j
      BY <3>1 DEF Held, IInv, TypeOK
    <3> HIDE DEF j
    <3>3. PICK o, v : Put(o, v) /\ o \in {Held(k), None}
      BY <3>1, <3>2, WriteBackStep DEF IInv
    <3> QED BY <3>3 DEF Put, Object
  <2> QED BY <2>2, <2>3, <2>4
<1> QED BY <1>1, Invariance, PTL DEF Spec, UnmapReachesTheMappedObject
=============================================================================
