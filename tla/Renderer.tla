------------------------------ MODULE Renderer ------------------------------
(***************************************************************************)
(* The command handlers of backend/src/command_processor.rs and the        *)
(* renderer of backend/src/d3d11.rs they drive: the slab of resources, the *)
(* bindings of the immediate context, and the maps in progress.            *)
(*                                                                         *)
(* Every guest device numbers its resources from 1 and they all share one  *)
(* slab, so a creation may name an id in use.  D3D11 reference counts are  *)
(* explicit, and the memory of a freed object is used again.  A handler    *)
(* that returns an error is a step too: the command stays in the ring and  *)
(* is processed again, so it must change nothing.                          *)
(*                                                                         *)
(* Commands are well formed, as the user-mode driver writes them: no size, *)
(* pitch or count in them exceeds what it describes, where the handlers    *)
(* trust it.                                                               *)
(***************************************************************************)
EXTENDS Integers, FiniteSets

CONSTANTS
  Id,         \* resource ids the guest uses
  Sub,        \* the subresources it maps
  Kinds,      \* the kinds of resource it creates
  None,       \* no object, no view, no entry
  MaxObjects, \* bound: D3D11 objects alive at once
  MaxMaps     \* bound: maps in progress at once

Shaders == {"vertex", "pixel", "geometry", "hull", "domain", "compute"}
Mapped  == {"texture", "buffer"}

ASSUME ConstantsAssumption ==
  /\ 0 \notin Id /\ IsFiniteSet(Id) /\ IsFiniteSet(Sub)
  /\ None \notin Nat
  /\ Kinds \subseteq Mapped \cup Shaders
  /\ MaxObjects \in Nat /\ MaxMaps \in Nat

VARIABLES
  slab,    \* resources: what each id names
  kind,    \* the D3D11 interface of each object
  refs,    \* its reference count
  data,    \* its contents
  bound,   \* what the context has bound
  current, \* current_rtvs
  maps     \* active_maps

objects == <<slab, kind, refs, data>>
context == <<bound, current>>
vars    == <<objects, context, maps>>

Object == 1 .. MaxObjects

\* junk has bytes of staging memory that nobody wrote; clean is as created, written by
\* the guest, or drawn
Data == {"clean", "junk"}

\* an aliased texture has no views
View  == {"rtv", "srv"}
Entry == [obj : Object, views : SUBSET View]
Key   == Id \X Sub
Map   == [of : Object, reads : BOOLEAN, staging : Data]

ASSUME NoneAssumption == None \notin Kinds \cup Entry \cup Map

\* the binding points, and the kinds of object each takes; no command creates a
\* state object, an input layout, a sampler or a view
Slot == {"target", "resource", "buffer", "state"} \cup (Shaders \cap Kinds)
Takes(slot) == CASE slot \in {"target", "resource"} -> {"texture"}
                 [] slot = "state" -> {}
                 [] OTHER -> {slot}

TypeOK ==
  /\ slab \in [Id -> Entry \cup {None}]
  /\ kind \in [Object -> Kinds \cup {None}]
  /\ refs \in [Object -> Nat] /\ data \in [Object -> Data]
  /\ bound \in [Slot -> Object \cup {None}] /\ current \in Object \cup {None}
  /\ maps \in [Key -> Map \cup {None}]

Init ==
  /\ slab = [i \in Id |-> None] /\ kind = [o \in Object |-> None]
  /\ refs = [o \in Object |-> 0] /\ data = [o \in Object |-> "clean"]
  /\ bound = [s \in Slot |-> None] /\ current = None
  /\ maps = [k \in Key |-> None]

-----------------------------------------------------------------------------
(* The slab and the counts *)

One(o, x) == IF o = x THEN 1 ELSE 0

\* a reference to gained is taken, one to lost released
Count(gained, lost) == refs' = [o \in Object |-> refs[o] + One(o, gained) - One(o, lost)]

\* the contents of o become v; those of a freed object are gone
Put(o, v) == data' = [x \in Object |-> CASE refs'[x] = 0 -> "clean" [] x = o -> v [] OTHER -> data[x]]
Keep == Put(None, "clean")

ObjectOf(i) == IF slab[i] = None THEN None ELSE slab[i].obj
Get(i, ks)  == i \in Id /\ slab[i] # None /\ kind[slab[i].obj] \in ks

\* slab_insert drops what the id named
SlabInsert(i, o, views) == slab' = [slab EXCEPT ![i] = [obj |-> o, views |-> views]]

\* a warning, or an error: nothing has changed
Refused == UNCHANGED vars

-----------------------------------------------------------------------------
(* Creation and destruction *)

Free  == {o \in Object : refs[o] = 0}
Fresh == CHOOSE o \in Free : TRUE

\* a new object under the id
Insert(i, k, views) ==
  /\ Free # {} /\ k \in Kinds
  /\ SlabInsert(i, Fresh, views)
  /\ kind' = [kind EXCEPT ![Fresh] = k]
  /\ Count(Fresh, ObjectOf(i)) /\ Keep
  /\ UNCHANGED <<context, maps>>

\* With the views its bind flags ask for, and with the initial data if it lies
\* in the heap.  Dimensions are checked, and the device may refuse.
CreateTexture2D(i) ==
  \/ \E views \in SUBSET View : Insert(i, "texture", views)
  \/ Refused

CreateBuffer(i) == Insert(i, "buffer", {}) \/ Refused

\* from bytecode in the heap
CreateShader(i) == (\E k \in Shaders : Insert(i, k, {})) \/ Refused

\* the resource types of CREATE_RESOURCE; CREATE_SHADER has the shaders again
CreateResource(i) == CreateTexture2D(i) \/ CreateBuffer(i) \/ CreateShader(i)

\* DESTROY_RESOURCE and DESTROY_SHADER: only the slab's reference goes
DestroyResource(i) ==
  /\ slab' = [slab EXCEPT ![i] = None]
  /\ Count(None, ObjectOf(i)) /\ Keep
  /\ UNCHANGED <<kind, context, maps>>

\* register_texture and register_buffer: no views
Register(i, o) == SlabInsert(i, o, {})

OpenReleased(i, from) ==               \* mutant: the borrowed interface is not forgotten
  IF Get(from, Mapped)
  THEN /\ Register(i, ObjectOf(from))
       /\ Count(None, ObjectOf(i)) /\ Keep
       /\ UNCHANGED <<kind, context, maps>>
  ELSE Refused

\* The id becomes a second name of the object.  The interface is borrowed with
\* from_raw, cloned for the slab and then forgotten.
OpenResource(i, from) ==
  IF Get(from, Mapped)
  THEN /\ Register(i, ObjectOf(from))
       /\ Count(ObjectOf(from), ObjectOf(i)) /\ Keep
       /\ UNCHANGED <<kind, context, maps>>
  ELSE Refused

-----------------------------------------------------------------------------
(* Maps, updates and copies *)

\* what contents become when a part or the whole is overwritten
Overwritten(old, whole) == IF whole THEN "clean" ELSE old

Held(k) == IF maps[k] = None THEN None ELSE maps[k].of

MapWriteOnly(i, reads) ==              \* mutant: nothing is copied to the staging resource
  [of |-> ObjectOf(i), reads |-> reads, staging |-> "junk"]

\* map_resource: a staging copy, filled from the resource when the map reads (map_type
\* 1 and 3)
MapResult(i, reads) ==
  [of |-> ObjectOf(i), reads |-> reads, staging |-> IF reads THEN data[ObjectOf(i)] ELSE "junk"]

Open == {k \in Key : maps[k] # None}

\* an earlier map of the same subresource of the id is dropped
MapResource(i, sub) ==
  \/ /\ Get(i, Mapped) /\ Cardinality(Open \cup {<<i, sub>>}) <= MaxMaps
     /\ \E reads \in BOOLEAN : maps' = [maps EXCEPT ![<<i, sub>>] = MapResult(i, reads)]
     /\ Count(ObjectOf(i), Held(<<i, sub>>)) /\ Keep
     /\ UNCHANGED <<slab, kind, context>>
  \/ Refused

UnmapById(k) ==                        \* mutant: the copy goes to what the id names now
  \/ \E v \in {maps[k].staging} \cup {Overwritten(maps[k].staging, w) : w \in BOOLEAN} :
       Put(ObjectOf(k[1]), v)
  \/ Keep

\* unmap_resource: with data_size > 0 all of the staging copy goes to the object that
\* was mapped, and before it the bytes to the staging copy, if they lie in the heap
WriteBack(k) ==
  \/ \E v \in {maps[k].staging} \cup {Overwritten(maps[k].staging, w) : w \in BOOLEAN} : Put(Held(k), v)
  \/ Keep

UnmapResource(i, sub) ==
  IF maps[<<i, sub>>] # None
  THEN /\ maps' = [maps EXCEPT ![<<i, sub>>] = None]
       /\ Count(None, Held(<<i, sub>>)) /\ WriteBack(<<i, sub>>)
       /\ UNCHANGED <<slab, kind, context>>
  ELSE Refused

\* new contents of an object that some id or binding names
Rewrite(o, v) == UNCHANGED <<slab, kind, refs, context, maps>> /\ Put(o, v)

UpdateSubresource(i) ==
  Get(i, Mapped) /\ \E whole \in BOOLEAN : Rewrite(ObjectOf(i), Overwritten(data[ObjectOf(i)], whole))

\* refused also when the bytes do not lie in the heap
UpdateResource(i) == UpdateSubresource(i) \/ Refused

\* D3D11 ignores a copy between unlike resources
CopyResource(i, from) ==
  IF Get(i, Mapped) /\ Get(from, {kind[ObjectOf(i)]})
  THEN Rewrite(ObjectOf(i), data[ObjectOf(from)])
  ELSE Refused

-----------------------------------------------------------------------------
(* Bindings and draws *)

\* the slot can take what the id names
Fits(i, slot) ==
  /\ Get(i, Takes(slot))
  /\ slot = "target" => "rtv" \in slab[i].views
  /\ slot = "resource" => "srv" \in slab[i].views

Bind(slot, o) ==
  /\ bound' = [bound EXCEPT ![slot] = o]
  /\ Count(o, bound[slot]) /\ Keep
  /\ UNCHANGED <<slab, kind, current, maps>>

BindAny(slot, i) ==                    \* mutant: the kind is not looked at
  IF i = 0 \/ Get(i, Kinds) THEN Bind(slot, IF i = 0 THEN None ELSE ObjectOf(i)) ELSE Refused

\* id 0 unbinds; an id the slot cannot take leaves the old binding
Set(slot, i) ==
  IF i = 0 \/ Fits(i, slot) THEN Bind(slot, IF i = 0 THEN None ELSE ObjectOf(i)) ELSE Refused

SetBuffer(i)         == Set("buffer", i)     \* vertex, index and constant buffers
SetShaderResource(i) == Set("resource", i)
SetState(i)          == Set("state", i)      \* layout, sampler, blend, rasterizer, depth
SetShader(i)         == \E s \in Shaders \cap Slot : Set(s, i)
Setter(i)            == SetBuffer(i) \/ SetShaderResource(i) \/ SetState(i) \/ SetShader(i)

\* a texture without a render target view binds nothing
TargetOf(i) == IF i # 0 /\ Fits(i, "target") THEN ObjectOf(i) ELSE None

\* Every view is looked up before any is bound.  A depth view is always an
\* error: no id names one.  Both the context and current_rtvs keep the views.
SetRenderTargets(i, depth) ==
  IF (i = 0 \/ Get(i, {"texture"})) /\ ~depth
  THEN /\ bound' = [bound EXCEPT !["target"] = TargetOf(i)]
       /\ current' = TargetOf(i)
       /\ refs' = [o \in Object |-> refs[o] + 2 * One(o, TargetOf(i)) - One(o, bound["target"]) - One(o, current)]
       /\ Keep /\ UNCHANGED <<slab, kind, maps>>
  ELSE Refused

\* what a draw writes is its render target
Draw ==
  IF bound["target"] # None
  THEN \E whole \in BOOLEAN : Rewrite(bound["target"], Overwritten(data[bound["target"]], whole))
  ELSE Refused

ClearRenderTarget(i) == IF Fits(i, "target") THEN Rewrite(ObjectOf(i), "clean") ELSE Refused

ProcessCommand ==
  \/ \E i \in Id : \/ CreateResource(i) \/ CreateShader(i) \/ DestroyResource(i)
                   \/ UpdateResource(i) \/ ClearRenderTarget(i)
                   \/ \E sub \in Sub : MapResource(i, sub) \/ UnmapResource(i, sub)
  \/ \E i, from \in Id : OpenResource(i, from) \/ CopyResource(i, from)
  \/ \E i \in Id \cup {0} : Setter(i) \/ \E depth \in BOOLEAN : SetRenderTargets(i, depth)
  \/ Draw

Spec == Init /\ [][ProcessCommand]_vars

-----------------------------------------------------------------------------
(* Properties *)

Holders(o) ==
  Cardinality({i \in Id : ObjectOf(i) = o}) + Cardinality({s \in Slot : bound[s] = o})
    + Cardinality({k \in Key : Held(k) = o}) + One(o, current)

\* An object has as many references as there are ids, bindings and maps that
\* hold it: none is freed while in use and none is kept for ever, although
\* OpenResource counts by hand (from_raw, clone, forget).
RefsAreCounted == \A o \in Object : refs[o] = Holders(o)

\* A binding point always holds an object of the kind it takes, whatever has
\* since been created under the id it was bound by (set_shader and the other
\* setters look at the variant of the resource).
BindingsAreTyped == \A s \in Slot : bound[s] # None => kind[bound[s]] \in Takes(s)

\* current_rtvs is what the context has bound, also after a SetRenderTarget
\* that failed half way.
TargetsAreTracked == current = bound["target"]

\* A write map ends in the object that was mapped, although its id may have
\* been destroyed, opened or created anew before the unmap (MapResult keeps
\* the original).
UnmapReachesTheMappedObject ==
  [][\A k \in Key : Held(k) # None /\ Held(k)' = None
       => \A o \in Object : data'[o] = data[o] \/ o = Held(k) \/ refs'[o] = 0]_vars

\* no resource, and no staging copy that was to have a resource's contents, has bytes
\* that nobody wrote
Clean ==
  /\ \A o \in Object : data[o] # "junk"
  /\ \A k \in Key : maps[k] # None /\ maps[k].reads => maps[k].staging # "junk"

\* Bytes that nobody wrote get into a resource in one way only: the unmap of a map
\* that did not read (map_type 2) puts back its staging copy, and only into what was
\* mapped.  No read map, copy, update, alias, or reuse of an object's memory or id
\* lets them in.
NothingUninitialised ==
  [][Clean => \/ Clean'
              \/ \E k \in Key :
                   /\ maps[k] # None /\ ~maps[k].reads /\ maps'[k] = None
                   /\ \A o \in Object : data'[o] = "junk" => o = Held(k)]_vars
=============================================================================
