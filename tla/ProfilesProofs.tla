--------------------------- MODULE ProfilesProofs ---------------------------
(***************************************************************************)
(* Proofs about module Profiles: its safety properties, for every set of   *)
(* profiles and file systems.                                              *)
(***************************************************************************)
EXTENDS Profiles, TLAPS

-----------------------------------------------------------------------------
(* Paths *)

\* A path that is resolved once is absolute: planning it elsewhere changes nothing.
LEMMA ResolvedStays ==
  ASSUME NEW p \in Written, NEW r \in DOMAIN p.paths
  PROVE  LET path == At(Home, p.paths[r])
         IN /\ At(Root, path) = path /\ At(Home, path) = path
            /\ path = None <=> p.paths[r] = None
            /\ path \notin {None, Bad} => path.base # None
<1> DEFINE w    == p.paths[r]
           path == At(Home, w)
<1>1. w \notin {None, Bad} => w = [base |-> w.base, name |-> w.name] /\ path \notin {None, Bad}
  BY PathsAssumption DEF IsPath
<1>2. CASE w \in {None, Bad}
  BY <1>2 DEF At
<1>3. CASE w \notin {None, Bad} /\ w.base # None
  BY <1>1, <1>3 DEF At
<1>4. CASE w \notin {None, Bad} /\ w.base = None
  <2>1. path = [w EXCEPT !.base = Home]
    BY <1>4 DEF At
  <2> HIDE DEF path, w
  <2>2. path.base = Home
    BY <1>1, <1>4, <2>1
  <2>3. path.base # None
    BY <2>2, ConstantsAssumption
  <2> QED BY <1>1, <1>4, <2>3 DEF At, path, w
<1> QED BY <1>2, <1>3, <1>4

\* The inputs and the socket of a resolved profile, wherever it is planned, are those it
\* was written with.
LEMMA InputsStay ==
  ASSUME NEW p \in Written, NEW q, q.boot = p.boot, q.paths = Resolved(p, Home).paths
  PROVE  Inputs(q, Root) = Inputs(p, Home) /\ Socket(q, Root) = Socket(p, Home)
<1>1. q.paths = [r \in DOMAIN p.paths |-> At(Home, p.paths[r])]
  BY PathsAssumption DEF Resolved, IsProfile
<1>2. \A r \in DOMAIN p.paths : /\ At(Root, At(Home, p.paths[r])) = At(Home, p.paths[r])
                                /\ At(Home, p.paths[r]) = None <=> p.paths[r] = None
  BY ResolvedStays
<1> DEFINE roles == {r \in InputRoles(p.boot) \cap DOMAIN p.paths : p.paths[r] # None}
<1>3. {r \in InputRoles(q.boot) \cap DOMAIN q.paths : q.paths[r] # None} = roles
  BY <1>1, <1>2
<1>4. \A r \in roles : At(Root, q.paths[r]) = At(Home, p.paths[r])
  BY <1>1, <1>2
<1>5. Inputs(q, Root) = Inputs(p, Home)
  BY <1>3, <1>4 DEF Inputs
<1>6. Socket(q, Root) = Socket(p, Home)
  BY <1>1, <1>2 DEF Socket
<1> QED BY <1>5, <1>6

\* A resolved profile that plans has absolute paths, and no path that plan refuses.
LEMMA ResolvedIsAbsolute ==
  ASSUME NEW p \in Written, NEW r \in DOMAIN p.paths, Plannable(Resolved(p, Home), Home),
         Resolved(p, Home).paths[r] # None
  PROVE  Resolved(p, Home).paths[r] # Bad /\ Resolved(p, Home).paths[r].base # None
<1> DEFINE q == Resolved(p, Home)
<1>1. /\ q.boot = p.boot /\ q.paths = [t \in DOMAIN p.paths |-> At(Home, p.paths[t])]
      /\ DOMAIN p.paths \subseteq Roles(p.boot)
  <2>1. IsProfile(p)
    BY PathsAssumption
  <2> QED BY <2>1 DEF Resolved, IsProfile
<1>2. /\ At(Home, q.paths[r]) = q.paths[r] /\ (q.paths[r] \notin {None, Bad} => q.paths[r].base # None)
  BY <1>1, ResolvedStays
<1>3. /\ \A t \in DOMAIN Inputs(q, Home) : Inputs(q, Home)[t] # Bad
      /\ q.boot = "qemu" /\ Socket(q, Home) # None => Socket(q, Home) # Bad
  BY DEF Plannable, SocketIsFree
<1> HIDE DEF q
<1>4. r \in InputRoles(q.boot) \/ (r = "socket" /\ q.boot = "qemu")
  BY <1>1 DEF Roles
<1>5. CASE r \in InputRoles(q.boot)
  <2>1. r \in DOMAIN Inputs(q, Home) /\ Inputs(q, Home)[r] = q.paths[r]
    BY <1>1, <1>2, <1>5 DEF Inputs, q
  <2> QED BY <1>2, <1>3, <2>1 DEF q
<1>6. CASE r = "socket" /\ q.boot = "qemu"
  <2>1. Socket(q, Home) = q.paths[r]
    BY <1>1, <1>2, <1>6 DEF Socket
  <2> QED BY <1>2, <1>3, <1>6, <2>1 DEF q
<1> QED BY <1>4, <1>5, <1>6

-----------------------------------------------------------------------------
(* Identities *)

\* None is a value of its own: it is no function, and (in the theorems) no number.
NoneIsNoTable == \A S, t : None # [f \in S |-> t[f]]

\* Filling a table a second time adds nothing.
LEMMA FilledTwice ==
  ASSUME NEW t, NEW d
  PROVE  Filled(Filled(t, d), d) = Filled(t, d)
  BY DEF Filled, First

\* A preset fills the tables it has defaults for, and no serial or UUID.
LEMMA DefaultsFields ==
  ASSUME NEW id, IsIdentity(id), NEW linux \in BOOLEAN
  PROVE  LET full == WithDefaults(id, linux)
         IN /\ IsIdentity(full) /\ full.preset = id.preset
            /\ full.system.uuid = id.system.uuid /\ full.system.serial = id.system.serial
            /\ full.board = id.board /\ full.chassis = id.chassis
<1> DEFINE full == WithDefaults(id, linux)
<1>1. CASE id.preset # "limiar"
  BY <1>1 DEF WithDefaults
<1>2. CASE id.preset = "limiar"
  <2> DEFINE sys  == Filled(id.system, SystemDefaults)
             bios == IF linux THEN Filled(Given(id.bios, BiosField), BiosDefaults) ELSE id.bios
  <2>1. full = [preset |-> id.preset, system |-> sys, bios |-> bios, board |-> id.board, chassis |-> id.chassis]
    BY <1>2 DEF WithDefaults, IsIdentity
  <2>2. /\ sys = [f \in SystemField |-> sys[f]] /\ sys.uuid = id.system.uuid /\ sys.serial = id.system.serial
    BY DEF IsIdentity, IsTable, Filled, First, SystemField, SystemDefaults
  <2>3. IsTable(bios, BiosField)
    BY DEF IsIdentity, IsTable, Filled, Given, Empty
  <2> QED BY <2>1, <2>2, <2>3 DEF IsIdentity
<1> QED BY <1>1, <1>2

\* The UUID and the serial registration settles on.
Uuid(id, prev, fresh)   == First(id.system.uuid, First(Previous(prev, "system", "uuid"), fresh))
Serial(id, prev, fresh) ==
  First(id.system.serial, First(Previous(prev, "system", "serial"), Derived("LMR", Uuid(id, prev, fresh))))

\* What registration makes of an identity, field by field.
LEMMA MaterializedFields ==
  ASSUME NEW id, IsIdentity(id), NEW prev, NEW linux \in BOOLEAN, NEW fresh \in Nat,
         Previous(prev, "system", "uuid") \in Nat \cup {None}
  PROVE  LET new == Materialized(id, prev, linux, fresh)
         IN /\ IsIdentity(new) /\ new.preset = id.preset
            /\ new.system.uuid = Uuid(id, prev, fresh) /\ new.system.uuid \in Nat
            /\ new.system.serial = Serial(id, prev, fresh)
            /\ new.board = id.board /\ new.chassis = id.chassis
            /\ \A f \in SystemField \ {"uuid", "serial"} : new.system[f] = WithDefaults(id, linux).system[f]
            /\ new.bios = WithDefaults(id, linux).bios
<1> DEFINE full == WithDefaults(id, linux)
           uuid == Uuid(id, prev, fresh)
           sn   == Serial(id, prev, fresh)
           new  == Materialized(id, prev, linux, fresh)
<1>1. /\ IsIdentity(full) /\ full.preset = id.preset
      /\ full.system.uuid = id.system.uuid /\ full.system.serial = id.system.serial
      /\ full.board = id.board /\ full.chassis = id.chassis
  BY DefaultsFields
<1>2. new = [full EXCEPT !.system.uuid = uuid, !.system.serial = sn]
  BY <1>1 DEF Materialized, Uuid, Serial
<1>3. uuid \in Nat
  BY DEF Uuid, First, IsIdentity
<1> HIDE DEF full, uuid, sn, new
<1>4. new = [preset |-> full.preset, system |-> [full.system EXCEPT !["uuid"] = uuid, !["serial"] = sn],
             bios |-> full.bios, board |-> full.board, chassis |-> full.chassis]
  BY <1>1, <1>2 DEF IsIdentity
<1>5. /\ new.system = [f \in SystemField |-> new.system[f]]
      /\ new.system.uuid = uuid /\ new.system.serial = sn
      /\ \A f \in SystemField \ {"uuid", "serial"} : new.system[f] = full.system[f]
  BY <1>1, <1>4 DEF IsIdentity, SystemField
<1>6. IsIdentity(new)
  BY <1>1, <1>3, <1>4, <1>5 DEF IsIdentity
<1> QED BY <1>1, <1>3, <1>4, <1>5, <1>6 DEF full, uuid, sn, new

\* What the preset has filled once, it leaves alone.
LEMMA DefaultsStay ==
  ASSUME NoneIsNoTable,
         NEW id, IsIdentity(id), NEW prev, NEW linux \in BOOLEAN, NEW fresh \in Nat,
         Previous(prev, "system", "uuid") \in Nat \cup {None},
         NEW x, IsIdentity(x), x.preset = id.preset,
         x.system = Materialized(id, prev, linux, fresh).system,
         x.bios = Materialized(id, prev, linux, fresh).bios
  PROVE  WithDefaults(x, linux) = x
<1> DEFINE full == WithDefaults(id, linux)
<1>1. CASE id.preset # "limiar"
  BY <1>1 DEF WithDefaults
<1>2. CASE id.preset = "limiar"
  <2>1. /\ full.system = Filled(id.system, SystemDefaults)
        /\ full.bios = IF linux THEN Filled(Given(id.bios, BiosField), BiosDefaults) ELSE id.bios
    BY <1>2 DEF WithDefaults, IsIdentity
  <2>2. \A f \in SystemField \ {"uuid", "serial"} : x.system[f] = full.system[f]
    BY MaterializedFields
  <2> HIDE DEF full
  <2>3. \A f \in SystemField : First(x.system[f], SystemDefaults[f]) = x.system[f]
    <3> TAKE f \in SystemField
    <3>1. CASE f \in {"uuid", "serial"}
      <4>1. SystemDefaults["uuid"] = None /\ SystemDefaults["serial"] = None
        BY DEF SystemDefaults
      <4> QED BY <3>1, <4>1 DEF First
    <3>2. CASE f \notin {"uuid", "serial"}
      <4>1. full.system[f] = First(id.system[f], SystemDefaults[f])
        BY <2>1 DEF Filled, IsIdentity
      <4> QED BY <2>2, <3>2, <4>1 DEF First
    <3> QED BY <3>1, <3>2
  <2>4. Filled(x.system, SystemDefaults) = x.system
    BY <2>3 DEF Filled, IsIdentity
  <2>5. x.bios = full.bios
    BY MaterializedFields DEF full
  <2>6. ASSUME linux
        PROVE  Filled(Given(x.bios, BiosField), BiosDefaults) = x.bios
    <3> DEFINE g == Given(id.bios, BiosField)
               b == Filled(g, BiosDefaults)
    <3>1. x.bios = b
      BY <2>1, <2>5, <2>6
    <3>2. b = [f \in DOMAIN g |-> b[f]]
      BY DEF Filled
    <3>3. b # None
      BY <3>2 DEF NoneIsNoTable
    <3> HIDE DEF b
    <3>4. Filled(b, BiosDefaults) = b
      BY FilledTwice DEF b
    <3> QED BY <3>1, <3>3, <3>4 DEF Given
  <2>7. WithDefaults(x, linux) = [x EXCEPT !.system = x.system, !.bios = x.bios]
    BY <1>2, <2>4, <2>6 DEF WithDefaults
  <2> QED BY <2>7 DEF IsIdentity
<1> QED BY <1>1, <1>2

\* The defaults look at the preset, the system and the BIOS only.
LEMMA SameDefaults ==
  ASSUME NEW x, IsIdentity(x), NEW y, IsIdentity(y), NEW linux \in BOOLEAN,
         y.preset = x.preset, y.system = x.system, y.bios = x.bios, WithDefaults(x, linux) = x
  PROVE  WithDefaults(y, linux) = y
<1>1. CASE x.preset # "limiar"
  BY <1>1 DEF WithDefaults
<1>2. CASE x.preset = "limiar"
  <2> DEFINE sys  == Filled(x.system, SystemDefaults)
             bios == IF linux THEN Filled(Given(x.bios, BiosField), BiosDefaults) ELSE x.bios
  <2>1. sys = x.system /\ bios = x.bios
    <3>1. WithDefaults(x, linux) = [preset |-> x.preset, system |-> sys, bios |-> bios, board |-> x.board,
                                    chassis |-> x.chassis]
      BY <1>2 DEF WithDefaults, IsIdentity
    <3> HIDE DEF sys, bios
    <3> QED BY <3>1
  <2>2. WithDefaults(y, linux) = [y EXCEPT !.system = sys, !.bios = bios]
    BY <1>2 DEF WithDefaults
  <2> HIDE DEF sys, bios
  <2> QED BY <2>1, <2>2 DEF IsIdentity
<1> QED BY <1>1, <1>2

\* A table of the QEMU preset: filled, and with a serial.
QemuTable(t, fields, defaults, prefix, uuid) ==
  LET full == Filled(Given(t, fields), defaults)
  IN [full EXCEPT !.serial = First(@, Derived(prefix, uuid))]

\* A table the QEMU preset filled has a serial, and is left alone from then on.
LEMMA QemuTableFields ==
  ASSUME NoneIsNoTable, NEW t, NEW fields, NEW defaults, NEW prefix, NEW uuid,
         IsTable(t, fields), "serial" \in fields, defaults.serial = None
  PROVE  LET q == QemuTable(t, fields, defaults, prefix, uuid)
         IN /\ q # None /\ IsTable(q, fields)
            /\ q.serial = First(Given(t, fields).serial, Derived(prefix, uuid))
            /\ QemuTable(q, fields, defaults, prefix, uuid) = q
<1> DEFINE g    == Given(t, fields)
           full == Filled(g, defaults)
           q    == QemuTable(t, fields, defaults, prefix, uuid)
<1>1. g = [f \in fields |-> g[f]]
  BY DEF Given, Empty, IsTable
<1>2. full = [f \in fields |-> First(g[f], defaults[f])]
  BY <1>1 DEF Filled
<1>3. q = [f \in fields |-> IF f = "serial" THEN First(full["serial"], Derived(prefix, uuid)) ELSE full[f]]
  BY <1>2 DEF QemuTable
<1>4. q.serial = First(g.serial, Derived(prefix, uuid))
  BY <1>2, <1>3 DEF First
<1>5. q = [f \in fields |-> q[f]]
  BY <1>3
<1>6. q # None
  BY <1>5 DEF NoneIsNoTable
<1>7. \A f \in fields : First(q[f], defaults[f]) = q[f]
  BY <1>2, <1>3, <1>4 DEF First
<1> HIDE DEF q
<1>8. Filled(Given(q, fields), defaults) = q
  BY <1>5, <1>6, <1>7 DEF Filled, Given
<1>9. First(q.serial, Derived(prefix, uuid)) = q.serial
  BY <1>4 DEF First
<1>10. QemuTable(q, fields, defaults, prefix, uuid) = [q EXCEPT !["serial"] = q["serial"]]
  BY <1>8, <1>9 DEF QemuTable
<1>11. QemuTable(q, fields, defaults, prefix, uuid) = q
  BY <1>5, <1>10
<1> QED BY <1>4, <1>5, <1>6, <1>11 DEF IsTable, q

\* What the defaults of the QEMU boot make of an identity whose own preset is filled.
LEMMA QemuDefaultsFields ==
  ASSUME NoneIsNoTable, NEW x, IsIdentity(x), WithDefaults(x, TRUE) = x, x.system.uuid \in Nat,
         None \notin Nat
  PROVE  LET q    == WithQemuDefaults(x)
             uuid == x.system.uuid
         IN /\ IsIdentity(q) /\ q.system = x.system /\ q.bios = x.bios /\ q.preset = x.preset
            /\ x.preset # "limiar" => q = x
            /\ x.preset = "limiar" =>
                 /\ q.board = QemuTable(x.board, BoardField, BoardDefaults, "LMR-B", uuid)
                 /\ q.chassis = QemuTable(x.chassis, ChassisField, ChassisDefaults, "LMR-C", uuid)
<1> DEFINE q    == WithQemuDefaults(x)
           uuid == x.system.uuid
           b    == QemuTable(x.board, BoardField, BoardDefaults, "LMR-B", uuid)
           c    == QemuTable(x.chassis, ChassisField, ChassisDefaults, "LMR-C", uuid)
<1>1. CASE x.preset # "limiar"
  BY <1>1 DEF WithQemuDefaults
<1>2. CASE x.preset = "limiar"
  <2>1. q = [x EXCEPT !.board = b, !.chassis = c]
    BY <1>2 DEF WithQemuDefaults, QemuTable
  <2>2. "serial" \in BoardField /\ BoardDefaults.serial = None
    BY DEF BoardField, BoardDefaults
  <2>3. "serial" \in ChassisField /\ ChassisDefaults.serial = None
    BY DEF ChassisField, ChassisDefaults
  <2>4. IsTable(b, BoardField) /\ IsTable(c, ChassisField)
    BY <2>2, <2>3, QemuTableFields DEF IsIdentity
  <2> HIDE DEF q, b, c
  <2>5. q = [preset |-> x.preset, system |-> x.system, bios |-> x.bios, board |-> b, chassis |-> c]
    BY <2>1 DEF IsIdentity
  <2>6. IsIdentity(q)
    BY <2>4, <2>5 DEF IsIdentity
  <2> QED BY <1>2, <2>5, <2>6 DEF q, b, c
<1> QED BY <1>1, <1>2

\* The defaults of the QEMU boot add nothing to what they filled.
LEMMA QemuDefaultsStay ==
  ASSUME NoneIsNoTable, NEW x, IsIdentity(x), WithDefaults(x, TRUE) = x, x.system.uuid \in Nat,
         None \notin Nat
  PROVE  WithQemuDefaults(WithQemuDefaults(x)) = WithQemuDefaults(x)
<1> DEFINE q == WithQemuDefaults(x)
<1>1. CASE x.preset # "limiar"
  BY <1>1, QemuDefaultsFields
<1>2. CASE x.preset = "limiar"
  <2> DEFINE uuid == x.system.uuid
  <2>1. /\ IsIdentity(q) /\ q.system = x.system /\ q.bios = x.bios /\ q.preset = x.preset
        /\ q.board = QemuTable(x.board, BoardField, BoardDefaults, "LMR-B", uuid)
        /\ q.chassis = QemuTable(x.chassis, ChassisField, ChassisDefaults, "LMR-C", uuid)
    BY <1>2, QemuDefaultsFields
  <2>2. "serial" \in BoardField /\ BoardDefaults.serial = None
    BY DEF BoardField, BoardDefaults
  <2>3. "serial" \in ChassisField /\ ChassisDefaults.serial = None
    BY DEF ChassisField, ChassisDefaults
  <2>4. QemuTable(q.board, BoardField, BoardDefaults, "LMR-B", uuid) = q.board
    BY <2>1, <2>2, QemuTableFields DEF IsIdentity
  <2>5. QemuTable(q.chassis, ChassisField, ChassisDefaults, "LMR-C", uuid) = q.chassis
    BY <2>1, <2>3, QemuTableFields DEF IsIdentity
  <2> HIDE DEF q
  <2>6. WithDefaults(q, TRUE) = q
    BY <1>2, <2>1, SameDefaults
  <2>7. /\ q.preset = "limiar" /\ q.system.uuid \in Nat /\ uuid = q.system.uuid
    BY <1>2, <2>1
  <2>8. /\ WithQemuDefaults(q).board = q.board /\ WithQemuDefaults(q).chassis = q.chassis
        /\ WithQemuDefaults(q).system = q.system /\ WithQemuDefaults(q).bios = q.bios
        /\ WithQemuDefaults(q).preset = q.preset /\ IsIdentity(WithQemuDefaults(q))
    BY <2>1, <2>4, <2>5, <2>6, <2>7, QemuDefaultsFields
  <2> QED BY <2>1, <2>8 DEF IsIdentity, q
<1> QED BY <1>1, <1>2

\* A derived serial is a value.
LEMMA DerivedIsGiven ==
  ASSUME NoneIsNoTable, NEW prefix, NEW uuid
  PROVE  Derived(prefix, uuid) # None
<1> DEFINE t == <<prefix, uuid>>
<1>1. t = [i \in 1 .. 2 |-> t[i]]
  OBVIOUS
<1>2. [i \in 1 .. 2 |-> t[i]] # None
  BY DEF NoneIsNoTable
<1> QED BY <1>1, <1>2 DEF Derived

\* The serial of one of the QEMU tables, before the preset fills it.
KeptTable(id, prev, table, fields) ==
  IF id.preset = "limiar" \/ id[table] # None
  THEN [Given(id[table], fields) EXCEPT !.serial = First(@, Previous(prev, table, "serial"))]
  ELSE None

\* new has the value at f that it should: what the profile gives, or else what was there
\* before, if it has the table
Keeps(id, prev, new, has, table, field) ==
  LET given == Previous(id, table, field)
      old   == Previous(prev, table, field)
  IN /\ given # None => Previous(new, table, field) = given
     /\ given = None /\ old # None /\ has => Previous(new, table, field) = old
     /\ ~has => Previous(new, table, field) = None

\* An identity is given, and so is its system table.
LEMMA IdentityIsGiven ==
  ASSUME NoneIsNoTable, NEW id, IsIdentity(id)
  PROVE  id # None /\ id.system # None
<1>1. id = [f \in {"preset", "system", "bios", "board", "chassis"} |-> id[f]]
  BY DEF IsIdentity
<1>2. id.system = [f \in SystemField |-> id.system[f]]
  BY DEF IsIdentity
<1> QED BY <1>1, <1>2 DEF NoneIsNoTable

\* The system's UUID and serial are kept.
LEMMA SystemKeeps ==
  ASSUME NoneIsNoTable, NEW id, IsIdentity(id), NEW prev, NEW fresh,
         NEW new, IsIdentity(new), new.system.uuid = Uuid(id, prev, fresh),
         new.system.serial = Serial(id, prev, fresh)
  PROVE  Keeps(id, prev, new, TRUE, "system", "uuid") /\ Keeps(id, prev, new, TRUE, "system", "serial")
<1>1. id # None /\ id.system # None /\ new # None /\ new.system # None
  BY IdentityIsGiven
<1>2. /\ Previous(id, "system", "uuid") = id.system.uuid /\ Previous(new, "system", "uuid") = new.system.uuid
      /\ Previous(id, "system", "serial") = id.system.serial /\ Previous(new, "system", "serial") = new.system.serial
  BY <1>1 DEF Previous
<1> QED BY <1>2 DEF Keeps, Uuid, Serial, First

\* The serial of a kept table is the profile's, or else the previous one.
LEMMA KeptTableFields ==
  ASSUME NoneIsNoTable, NEW id, IsIdentity(id), NEW prev,
         NEW table, NEW fields, <<table, fields>> \in {<<"board", BoardField>>, <<"chassis", ChassisField>>}
  PROVE  LET kept == KeptTable(id, prev, table, fields)
         IN /\ IsTable(kept, fields)
            /\ kept # None => kept.serial = First(Given(id[table], fields).serial, Previous(prev, table, "serial"))
            /\ Previous(id, table, "serial") # None => kept # None /\ kept.serial = Previous(id, table, "serial")
            /\ Previous(id, table, "serial") = None /\ kept # None => kept.serial = Previous(prev, table, "serial")
            /\ kept # None <=> id.preset = "limiar" \/ id[table] # None
<1> DEFINE g    == Given(id[table], fields)
           kept == KeptTable(id, prev, table, fields)
           sn   == Previous(prev, table, "serial")
<1>1. IsTable(id[table], fields) /\ "serial" \in fields
  BY DEF IsIdentity, BoardField, ChassisField
<1>2. g = [f \in fields |-> g[f]] /\ g.serial = IF id[table] = None THEN None ELSE id[table].serial
  BY <1>1 DEF Given, Empty, IsTable
<1>3. id # None
  BY IdentityIsGiven
<1>4. Previous(id, table, "serial") = g.serial
  BY <1>2, <1>3 DEF Previous
<1>5. CASE ~(id.preset = "limiar" \/ id[table] # None)
  BY <1>2, <1>4, <1>5 DEF KeptTable, IsTable
<1>6. CASE id.preset = "limiar" \/ id[table] # None
  <2>1. kept = [g EXCEPT !["serial"] = First(g["serial"], sn)]
    BY <1>6 DEF KeptTable
  <2> HIDE DEF g, kept, sn
  <2>2. kept = [f \in fields |-> kept[f]] /\ kept.serial = First(g.serial, sn)
    BY <1>1, <1>2, <2>1
  <2>3. kept # None
    BY <2>2 DEF NoneIsNoTable
  <2> QED BY <1>4, <1>6, <2>2, <2>3 DEF IsTable, First, g, kept, sn
<1> QED BY <1>5, <1>6

\* Registration for the other boots yields a final identity, and keeps its values.
LEMMA MaterializedKeeps ==
  ASSUME NoneIsNoTable, NEW id, IsIdentity(id), NEW prev, NEW linux \in BOOLEAN, NEW fresh \in Nat,
         Previous(prev, "system", "uuid") \in Nat \cup {None}, None \notin Nat
  PROVE  LET new == Materialized(id, prev, linux, fresh)
         IN /\ IsIdentity(new) /\ WithDefaults(new, linux) = new
            /\ new.system.uuid \in Nat /\ new.system.serial # None
            /\ Keeps(id, prev, new, TRUE, "system", "uuid") /\ Keeps(id, prev, new, TRUE, "system", "serial")
<1> DEFINE new == Materialized(id, prev, linux, fresh)
<1>1. /\ IsIdentity(new) /\ new.preset = id.preset
      /\ new.system.uuid = Uuid(id, prev, fresh) /\ new.system.uuid \in Nat
      /\ new.system.serial = Serial(id, prev, fresh)
  BY MaterializedFields
<1>2. WithDefaults(new, linux) = new
  BY <1>1, DefaultsStay
<1>3. new.system.serial # None
  BY <1>1, DerivedIsGiven DEF Serial, First
<1> HIDE DEF new
<1>4. Keeps(id, prev, new, TRUE, "system", "uuid") /\ Keeps(id, prev, new, TRUE, "system", "serial")
  BY <1>1, SystemKeeps
<1> QED BY <1>1, <1>2, <1>3, <1>4 DEF new

\* What the QEMU preset fills keeps the serial of its table, too.
LEMMA TableKeeps ==
  ASSUME NoneIsNoTable, NEW id, IsIdentity(id), NEW prev, NEW new, IsIdentity(new),
         NEW table, NEW fields, <<table, fields>> \in {<<"board", BoardField>>, <<"chassis", ChassisField>>},
         NEW defaults, defaults.serial = None, NEW prefix, NEW uuid,
         new[table] = IF id.preset = "limiar"
                      THEN QemuTable(KeptTable(id, prev, table, fields), fields, defaults, prefix, uuid)
                      ELSE KeptTable(id, prev, table, fields)
  PROVE  Keeps(id, prev, new, id.preset = "limiar" \/ id[table] # None, table, "serial")
<1> DEFINE kept == KeptTable(id, prev, table, fields)
           sn   == Previous(prev, table, "serial")
<1>1. /\ IsTable(kept, fields)
      /\ Previous(id, table, "serial") # None => kept # None /\ kept.serial = Previous(id, table, "serial")
      /\ Previous(id, table, "serial") = None /\ kept # None => kept.serial = sn
      /\ kept # None <=> id.preset = "limiar" \/ id[table] # None
  BY KeptTableFields
<1>2. new # None
  BY IdentityIsGiven
<1>3. "serial" \in fields
  BY DEF BoardField, ChassisField
<1> HIDE DEF kept
<1>4. /\ kept # None <=> new[table] # None
      /\ kept # None => new[table].serial = kept.serial \/ kept.serial = None
  <2>1. CASE id.preset = "limiar"
    <3>1. new[table] = QemuTable(kept, fields, defaults, prefix, uuid)
      BY <2>1 DEF kept
    <3>2. Given(kept, fields) = kept
      BY <1>1, <2>1 DEF Given
    <3>3. new[table] # None /\ new[table].serial = First(kept.serial, Derived(prefix, uuid))
      BY <1>1, <1>3, <3>1, <3>2, QemuTableFields
    <3> QED BY <1>1, <2>1, <3>3 DEF First
  <2>2. CASE id.preset # "limiar"
    BY <2>2 DEF kept
  <2> QED BY <2>1, <2>2
<1> QED BY <1>1, <1>2, <1>4 DEF Keeps, Previous

\* Registration for the QEMU boot yields a final identity, and keeps its values.
LEMMA MaterializedQemuKeeps ==
  ASSUME NoneIsNoTable, NEW id, IsIdentity(id), NEW prev, NEW fresh \in Nat,
         Previous(prev, "system", "uuid") \in Nat \cup {None}, None \notin Nat
  PROVE  LET new == MaterializedQemu(id, prev, fresh)
         IN /\ IsIdentity(new) /\ WithQemuDefaults(new) = new
            /\ new.system.uuid \in Nat /\ new.system.serial # None
            /\ Keeps(id, prev, new, TRUE, "system", "uuid") /\ Keeps(id, prev, new, TRUE, "system", "serial")
            /\ Keeps(id, prev, new, id.preset = "limiar" \/ id["board"] # None, "board", "serial") /\ Keeps(id, prev, new, id.preset = "limiar" \/ id["chassis"] # None, "chassis", "serial")
<1> DEFINE y    == Type01(id)
           base == Materialized(y, prev, TRUE, fresh)
           b    == KeptTable(id, prev, "board", BoardField)
           c    == KeptTable(id, prev, "chassis", ChassisField)
           x    == [base EXCEPT !.board = b, !.chassis = c]
           new  == MaterializedQemu(id, prev, fresh)
<1>1. IsIdentity(y) /\ y.preset = id.preset /\ y.system = id.system
  <2>1. y = [id EXCEPT !.board = None, !.chassis = None]
    BY DEF Type01
  <2> HIDE DEF y
  <2>2. y = [preset |-> id.preset, system |-> id.system, bios |-> id.bios, board |-> None, chassis |-> None]
    BY <2>1 DEF IsIdentity
  <2> QED BY <2>2 DEF IsIdentity, IsTable
<1>2. new = WithQemuDefaults(x)
  BY DEF MaterializedQemu, KeptTable
<1> HIDE DEF y
<1>3. /\ IsIdentity(base) /\ base.preset = y.preset
      /\ base.system.uuid = Uuid(y, prev, fresh) /\ base.system.uuid \in Nat
      /\ base.system.serial = Serial(y, prev, fresh)
  <2>1. \A linux \in BOOLEAN :
          LET full == Materialized(y, prev, linux, fresh)
          IN /\ IsIdentity(full) /\ full.preset = y.preset
             /\ full.system.uuid = Uuid(y, prev, fresh) /\ full.system.uuid \in Nat
             /\ full.system.serial = Serial(y, prev, fresh)
    BY <1>1, MaterializedFields
  <2>2. TRUE \in BOOLEAN
    OBVIOUS
  <2> QED BY <2>1, <2>2, Zenon
<1>4. Uuid(y, prev, fresh) = Uuid(id, prev, fresh) /\ Serial(y, prev, fresh) = Serial(id, prev, fresh)
  BY <1>1 DEF Uuid, Serial
<1>5. IsTable(b, BoardField) /\ IsTable(c, ChassisField)
  BY KeptTableFields
<1> HIDE DEF b, c
<1>6. /\ x.board = b /\ x.chassis = c /\ x.system = base.system /\ x.bios = base.bios /\ x.preset = base.preset
      /\ IsIdentity(x)
  <2>1. x = [base EXCEPT !.board = b, !.chassis = c]
    OBVIOUS
  <2> HIDE DEF base, x
  <2>2. x = [preset |-> base.preset, system |-> base.system, bios |-> base.bios, board |-> b, chassis |-> c]
    BY <1>3, <2>1 DEF IsIdentity
  <2> QED BY <1>3, <1>5, <2>2 DEF IsIdentity
<1>7. WithDefaults(x, TRUE) = x
  <2>1. /\ x.preset = y.preset /\ x.system = Materialized(y, prev, TRUE, fresh).system
        /\ x.bios = Materialized(y, prev, TRUE, fresh).bios
    BY <1>3, <1>6
  <2> HIDE DEF x
  <2> QED BY <1>1, <1>6, <2>1, DefaultsStay
<1> HIDE DEF x, base, new
<1>8. /\ IsIdentity(new) /\ new.system = x.system /\ new.preset = x.preset
      /\ x.preset # "limiar" => new = x
      /\ x.preset = "limiar" =>
           /\ new.board = QemuTable(x.board, BoardField, BoardDefaults, "LMR-B", x.system.uuid)
           /\ new.chassis = QemuTable(x.chassis, ChassisField, ChassisDefaults, "LMR-C", x.system.uuid)
      /\ WithQemuDefaults(new) = new
  BY <1>2, <1>3, <1>6, <1>7, QemuDefaultsFields, QemuDefaultsStay
<1>9. new.system.uuid = Uuid(id, prev, fresh) /\ new.system.uuid \in Nat /\ new.system.serial = Serial(id, prev, fresh)
  BY <1>3, <1>4, <1>6, <1>8
<1>10. new.system.serial # None
  BY <1>9, DerivedIsGiven DEF Serial, First
<1>11. Keeps(id, prev, new, TRUE, "system", "uuid") /\ Keeps(id, prev, new, TRUE, "system", "serial")
  BY <1>8, <1>9, SystemKeeps
<1>12. x.preset = id.preset
  BY <1>1, <1>3, <1>6
<1>13. Keeps(id, prev, new, id.preset = "limiar" \/ id["board"] # None, "board", "serial")
  <2>1. new["board"] = IF id.preset = "limiar"
                       THEN QemuTable(b, BoardField, BoardDefaults, "LMR-B", x.system.uuid) ELSE b
    BY <1>6, <1>8, <1>12
  <2>2. BoardDefaults.serial = None
    BY DEF BoardDefaults
  <2> QED BY <1>8, <2>1, <2>2, TableKeeps DEF b
<1>14. Keeps(id, prev, new, id.preset = "limiar" \/ id["chassis"] # None, "chassis", "serial")
  <2>1. new["chassis"] = IF id.preset = "limiar"
                         THEN QemuTable(c, ChassisField, ChassisDefaults, "LMR-C", x.system.uuid) ELSE c
    BY <1>6, <1>8, <1>12
  <2>2. ChassisDefaults.serial = None
    BY DEF ChassisDefaults
  <2> QED BY <1>8, <2>1, <2>2, TableKeeps DEF c
<1> QED BY <1>8, <1>9, <1>10, <1>11, <1>13, <1>14 DEF new

-----------------------------------------------------------------------------
(* Registration *)

\* A registered profile: valid, complete and final, with the paths of the written one.
IsFinal(q, p) ==
  /\ q # None /\ q.boot = p.boot /\ q.paths = Resolved(p, Home).paths /\ ProfileIsValid(q)
  /\ \A r \in DOMAIN q.paths : q.paths[r] # None => q.paths[r] # Bad /\ q.paths[r].base # None
  /\ q.identity # None =>
       /\ IsIdentity(q.identity) /\ q.identity.system.uuid \in Nat /\ q.identity.system.serial # None
       /\ Effective(q) = q.identity
  /\ p.identity # None =>
       \A f \in Generated : Keeps(p.identity, q.identity, q.identity, HasTable(p, f[1]), f[1], f[2])

KeepsIdentity(q, p, had) ==
  p.identity # None => \A f \in Generated : Keeps(p.identity, had, q.identity, HasTable(p, f[1]), f[1], f[2])

\* the tables of an identity, by its boot
Has(id, boot, table) == table = "system" \/ id[table] # None \/ (boot = "qemu" /\ id.preset = "limiar")

\* The identity that registration settles on.
LEMMA IdentitySettles ==
  ASSUME NoneIsNoTable, None \notin Nat,
         NEW id, IsIdentity(id), NEW boot, NEW had, had = None \/ IsIdentity(had), NEW fresh \in Nat,
         boot # "qemu" => id.board = None /\ id.chassis = None
  PROVE  LET new == IF boot = "qemu" THEN MaterializedQemu(id, had, fresh)
                                     ELSE Materialized(id, had, boot = "linux", fresh)
         IN /\ IsIdentity(new) /\ new.system.uuid \in Nat /\ new.system.serial # None
            /\ boot = "qemu" => WithQemuDefaults(new) = new
            /\ boot # "qemu" => WithDefaults(new, boot = "linux") = new
            /\ \A f \in Generated : Keeps(id, had, new, Has(id, boot, f[1]), f[1], f[2])
<1>1. Previous(had, "system", "uuid") \in Nat \cup {None}
  BY DEF Previous, IsIdentity
<1>2. CASE boot = "qemu"
  <2> DEFINE new == MaterializedQemu(id, had, fresh)
  <2>1. /\ IsIdentity(new) /\ WithQemuDefaults(new) = new
        /\ new.system.uuid \in Nat /\ new.system.serial # None
        /\ Keeps(id, had, new, TRUE, "system", "uuid") /\ Keeps(id, had, new, TRUE, "system", "serial")
        /\ Keeps(id, had, new, id.preset = "limiar" \/ id["board"] # None, "board", "serial")
        /\ Keeps(id, had, new, id.preset = "limiar" \/ id["chassis"] # None, "chassis", "serial")
    BY <1>1, MaterializedQemuKeeps
  <2> HIDE DEF new
  <2>2. /\ Has(id, boot, "system")
        /\ \A t \in {"board", "chassis"} : Has(id, boot, t) <=> id.preset = "limiar" \/ id[t] # None
    BY <1>2 DEF Has
  <2>3. \A f \in Generated : Keeps(id, had, new, Has(id, boot, f[1]), f[1], f[2])
    <3> TAKE f \in Generated
    <3>1. f = <<"system", "uuid">> \/ f = <<"system", "serial">> \/ f = <<"board", "serial">> \/ f = <<"chassis", "serial">>
      BY DEF Generated
    <3> QED BY <2>1, <2>2, <3>1 DEF Keeps
  <2> QED BY <1>2, <2>1, <2>3 DEF new
<1>3. CASE boot # "qemu"
  <2>1. \A linux \in BOOLEAN :
          LET new == Materialized(id, had, linux, fresh)
          IN /\ IsIdentity(new) /\ WithDefaults(new, linux) = new
             /\ new.system.uuid \in Nat /\ new.system.serial # None
             /\ Keeps(id, had, new, TRUE, "system", "uuid") /\ Keeps(id, had, new, TRUE, "system", "serial")
             /\ new.board = id.board /\ new.chassis = id.chassis
    <3> TAKE linux \in BOOLEAN
    <3> DEFINE new == Materialized(id, had, linux, fresh)
    <3>1. /\ IsIdentity(new) /\ WithDefaults(new, linux) = new
          /\ new.system.uuid \in Nat /\ new.system.serial # None
          /\ Keeps(id, had, new, TRUE, "system", "uuid") /\ Keeps(id, had, new, TRUE, "system", "serial")
      BY <1>1, MaterializedKeeps
    <3>2. new.board = id.board /\ new.chassis = id.chassis
      BY <1>1, MaterializedFields
    <3> QED BY <3>1, <3>2
  <2>2. (boot = "linux") \in BOOLEAN
    OBVIOUS
  <2> DEFINE new == Materialized(id, had, boot = "linux", fresh)
  <2>3. /\ IsIdentity(new) /\ WithDefaults(new, boot = "linux") = new
        /\ new.system.uuid \in Nat /\ new.system.serial # None
        /\ Keeps(id, had, new, TRUE, "system", "uuid") /\ Keeps(id, had, new, TRUE, "system", "serial")
        /\ new.board = id.board /\ new.chassis = id.chassis
    BY <2>1, <2>2, Zenon
  <2> HIDE DEF new
  <2>4. /\ id # None /\ id.board = None /\ id.chassis = None
        /\ Has(id, boot, "system") /\ ~Has(id, boot, "board") /\ ~Has(id, boot, "chassis")
    BY <1>3, IdentityIsGiven DEF Has
  <2>5. Keeps(id, had, new, FALSE, "board", "serial") /\ Keeps(id, had, new, FALSE, "chassis", "serial")
    BY <2>3, <2>4 DEF Keeps, Previous
  <2>6. \A f \in Generated : Keeps(id, had, new, Has(id, boot, f[1]), f[1], f[2])
    <3> TAKE f \in Generated
    <3>1. f = <<"system", "uuid">> \/ f = <<"system", "serial">> \/ f = <<"board", "serial">> \/ f = <<"chassis", "serial">>
      BY DEF Generated
    <3> QED BY <2>3, <2>4, <2>5, <3>1 DEF Keeps
  <2> QED BY <1>3, <2>3, <2>6, Zenon DEF new
<1> QED BY <1>2, <1>3

\* A profile is given.
LEMMA ProfileIsGiven ==
  ASSUME NoneIsNoTable, NEW b, NEW id, NEW ps, NEW s, NEW h, NEW v
  PROVE  [boot |-> b, identity |-> id, paths |-> ps, sound |-> s, headless |-> h, virgl |-> v] # None
<1> DEFINE t == [boot |-> b, identity |-> id, paths |-> ps, sound |-> s, headless |-> h, virgl |-> v]
<1>1. t = [f \in {"boot", "identity", "paths", "sound", "headless", "virgl"} |-> t[f]]
  OBVIOUS
<1>2. [f \in {"boot", "identity", "paths", "sound", "headless", "virgl"} |-> t[f]] # None
  BY DEF NoneIsNoTable
<1> QED BY <1>1, <1>2

\* What register and update store is final, and keeps the previous identity.
LEMMA StoreSettles ==
  ASSUME NoneIsNoTable, None \notin Nat, drawn \in Nat, NEW p \in Written, NEW old,
         old # None => old.identity = None \/ IsIdentity(old.identity),
         Store(p, old)
  PROVE  LET had == IF old = None THEN None ELSE old.identity
         IN /\ entry'.written = p /\ IsFinal(entry'.profile, p)
            /\ KeepsIdentity(entry'.profile, p, had)
<1> DEFINE resolved == Resolved(p, Home)
           had      == IF old = None THEN None ELSE old.identity
           new      == WithIdentity(resolved, old, drawn + 1)
<1>1. IsProfile(p)
  BY PathsAssumption
<1>2. /\ resolved = [boot |-> p.boot, identity |-> p.identity, paths |-> resolved.paths, sound |-> p.sound,
                     headless |-> p.headless, virgl |-> p.virgl]
      /\ p.identity = None \/ IsIdentity(p.identity)
  BY <1>1 DEF IsProfile, Resolved
<1>3. ProfileIsValid(resolved) /\ IdentityIsValid(new) /\ entry' = [profile |-> new, written |-> p]
  BY DEF Store, Plannable
<1>6. \A r \in DOMAIN resolved.paths : resolved.paths[r] # None => resolved.paths[r] # Bad /\ resolved.paths[r].base # None
  <2>1. DOMAIN resolved.paths = DOMAIN p.paths
    BY <1>1 DEF IsProfile, Resolved
  <2>2. Plannable(resolved, Home)
    BY DEF Store
  <2> QED BY <2>1, <2>2, ResolvedIsAbsolute
<1> HIDE DEF resolved
<1>4. CASE p.identity = None
  <2>1. new = resolved
    BY <1>2, <1>4 DEF WithIdentity
  <2> HIDE DEF new
  <2>2. new.boot = p.boot /\ new.paths = resolved.paths /\ new.identity = None /\ ProfileIsValid(new)
    BY <1>2, <1>3, <1>4, <2>1
  <2>3. new # None
    BY <1>2, <2>1, ProfileIsGiven
  <2> QED BY <1>3, <1>4, <1>6, <2>2, <2>3 DEF IsFinal, KeepsIdentity, resolved
<1>5. CASE p.identity # None
  <2> DEFINE id == p.identity
             full == IF p.boot = "qemu" THEN MaterializedQemu(id, had, drawn + 1)
                     ELSE Materialized(id, had, p.boot = "linux", drawn + 1)
  <2>1. new = [resolved EXCEPT !.identity = full]
    BY <1>2, <1>5 DEF WithIdentity
  <2>2. IsIdentity(id) /\ (had = None \/ IsIdentity(had)) /\ drawn + 1 \in Nat
    BY <1>2, <1>5
  <2>3. p.boot # "qemu" => id.board = None /\ id.chassis = None
    BY <1>2, <1>3, <1>5 DEF ProfileIsValid, IdentityIsValid, Valid
  <2> HIDE DEF had
  <2>4. /\ IsIdentity(full) /\ full.system.uuid \in Nat /\ full.system.serial # None
        /\ p.boot = "qemu" => WithQemuDefaults(full) = full
        /\ p.boot # "qemu" => WithDefaults(full, p.boot = "linux") = full
        /\ \A f \in Generated : Keeps(id, had, full, Has(id, p.boot, f[1]), f[1], f[2])
    BY <2>2, <2>3, IdentitySettles
  <2> HIDE DEF full, new
  <2>5. new = [boot |-> p.boot, identity |-> full, paths |-> resolved.paths, sound |-> p.sound,
               headless |-> p.headless, virgl |-> p.virgl]
    BY <1>2, <2>1
  <2>6. /\ new.boot = p.boot /\ new.paths = resolved.paths /\ new.identity = full
    BY <2>5
  <2>7. ProfileIsValid(new)
    BY <1>2, <1>3, <2>5 DEF ProfileIsValid
  <2>8. Effective(new) = full
    BY <2>4, <2>6 DEF Effective
  <2>9. new # None
    BY <2>5, ProfileIsGiven
  <2>10. /\ \A f \in Generated : Keeps(id, had, full, HasTable(p, f[1]), f[1], f[2])
         /\ \A f \in Generated : Keeps(id, full, full, HasTable(p, f[1]), f[1], f[2])
    <3>1. \A t : HasTable(p, t) <=> Has(id, p.boot, t)
      BY DEF HasTable, Has
    <3> QED BY <2>4, <3>1 DEF Keeps
  <2>11. IsFinal(new, p)
    BY <1>6, <2>4, <2>6, <2>7, <2>8, <2>9, <2>10 DEF IsFinal, resolved
  <2>12. KeepsIdentity(new, p, had)
    BY <2>6, <2>10 DEF KeepsIdentity
  <2> QED BY <1>3, <2>11, <2>12 DEF had
<1> QED BY <1>4, <1>5

-----------------------------------------------------------------------------
(* The invariant *)

EntryInv == entry # None => entry.written \in Written /\ IsFinal(entry.profile, entry.written)

\* What a run was launched with.
LaunchInv ==
  at \in {"running", "judge"} =>
    /\ run.written \in Written
    /\ run.inputs = Inputs(run.written, Home) /\ run.socket = Socket(run.written, Home)
    /\ run.expected = ExpectedDmi(run.profile)
    /\ run.profile.boot = "qemu" =>
         \A r, s \in DOMAIN run.real \ {"runtime"} : run.real[r] = run.real[s] => r = s

IInv == TypeOK /\ EntryInv /\ LaunchInv

\* The UUIDs drawn stay in their bound.
LEMMA StoreKeepsTypes ==
  ASSUME TypeOK, NEW p \in Written, NEW old, Store(p, old)
  PROVE  drawn \in Nat /\ drawn' \in NilUuid + 1 .. MaxFresh + 1
<1> DEFINE had   == IF old = None THEN None ELSE old.identity
           draws == p.identity # None /\ had = None /\ p.identity.system.uuid = None
<1>1. (draws => drawn <= MaxFresh) /\ drawn' = IF draws THEN drawn + 1 ELSE drawn
  BY DEF Store
<1> HIDE DEF draws
<1> QED BY <1>1, ConstantsAssumption DEF TypeOK, NilUuid

\* A plan that may launch opens the files as written, and none of them twice.
LEMMA LaunchOpens ==
  ASSUME EntryInv, entry # None, Plannable(entry.profile, Root), IsReady(entry.profile, Root),
         run' = Launched(entry.profile, ExpectedDmi(entry.profile))
  PROVE  /\ run'.written \in Written /\ run'.inputs = Inputs(run'.written, Home)
         /\ run'.socket = Socket(run'.written, Home)
         /\ run'.expected = ExpectedDmi(run'.profile)
         /\ run'.profile.boot = "qemu" =>
              \A r, s \in DOMAIN run'.real \ {"runtime"} : run'.real[r] = run'.real[s] => r = s
<1> DEFINE q      == entry.profile
           inputs == Inputs(q, Root)
<1>1. /\ run'.written = entry.written /\ run'.inputs = inputs /\ run'.profile = q
      /\ run'.socket = Socket(q, Root)
      /\ run'.expected = ExpectedDmi(q) /\ run'.real = [r \in DOMAIN inputs |-> fs[inputs[r]].real]
  BY DEF Launched
<1>2. inputs = Inputs(entry.written, Home) /\ Socket(q, Root) = Socket(entry.written, Home)
  BY InputsStay DEF EntryInv, IsFinal
<1>3. ASSUME q.boot = "qemu", NEW r \in DOMAIN inputs \ {"runtime"}, NEW s \in DOMAIN inputs \ {"runtime"},
             fs[inputs[r]].real = fs[inputs[s]].real
      PROVE  r = s
  <2>1. \A t \in DOMAIN inputs : fs[inputs[t]].kind = "file"
    BY DEF IsReady
  <2>2. Distinct(inputs)
    BY <1>3 DEF Plannable
  <2> HIDE DEF inputs
  <2>3. \A t \in DOMAIN inputs : Canonical(inputs[t]) = fs[inputs[t]].real
    BY <2>1 DEF Canonical
  <2> QED BY <1>3, <2>2, <2>3 DEF Distinct
<1> HIDE DEF inputs
<1> QED BY <1>1, <1>2, <1>3 DEF EntryInv

\* The invariant holds at the start ...
LEMMA Initially == Init => IInv
<1> SUFFICES ASSUME Init PROVE IInv
  OBVIOUS
<1>1. drawn \in NilUuid + 1 .. MaxFresh + 1
  BY ConstantsAssumption DEF Init, NilUuid
<1>2. entry = None /\ run = None /\ at = "idle"
  BY DEF Init
<1> QED BY <1>1, <1>2 DEF Init, IInv, TypeOK, EntryInv, LaunchInv

\* ... and every step preserves it.
LEMMA Inductive ==
  ASSUME NoneIsNoTable, None \notin Nat, IInv, [Next]_vars
  PROVE  IInv'
<1> USE DEF IInv
<1>1. ASSUME NEW p \in Written, NEW old, Store(p, old), UNCHANGED <<fs, command>>,
             old # None => entry # None /\ old = entry.profile
      PROVE  IInv'
  <2>1. drawn \in Nat /\ drawn' \in NilUuid + 1 .. MaxFresh + 1
    BY <1>1, StoreKeepsTypes
  <2>2. entry'.written = p /\ IsFinal(entry'.profile, p)
    BY <1>1, <2>1, StoreSettles DEF EntryInv, IsFinal
  <2>3. EntryInv'
    BY <1>1, <2>2 DEF EntryInv, IsFinal, Resolved, ProfileIsValid, IdentityIsValid, Effective
  <2>4. TypeOK'
    BY <1>1, <2>1, <2>2 DEF TypeOK, command, IsFinal
  <2>5. LaunchInv'
    BY <1>1 DEF LaunchInv, command, Inputs, Socket, ExpectedDmi, Effective
  <2> QED BY <2>3, <2>4, <2>5
<1>2. ASSUME NEW p \in Written, Register(p)
      PROVE  IInv'
  BY <1>1, <1>2 DEF Register
<1>3. ASSUME NEW p \in Written, Update(p)
      PROVE  IInv'
  BY <1>1, <1>3 DEF Update, Shown
<1>4. CASE Unregister
  BY <1>4 DEF Unregister, command, TypeOK, EntryInv, LaunchInv, Inputs, Socket, ExpectedDmi, Effective
<1>5. ASSUME NEW step \in {"launch", "preview"}, NEW verifies \in BOOLEAN, Begin(step, verifies)
      PROVE  IInv'
  BY <1>5 DEF Begin, TypeOK, EntryInv, LaunchInv, IsFinal
<1>6. CASE Preview
  BY <1>6 DEF Preview, TypeOK, EntryInv, LaunchInv
<1>7. CASE Launch
  <2>1. CASE at' = "idle" /\ UNCHANGED run
    BY <1>7, <2>1 DEF Launch, TypeOK, EntryInv, LaunchInv
  <2>2. CASE at' # "idle"
    <3>1. /\ at' = "running" /\ entry # None /\ Plannable(entry.profile, Root) /\ IsReady(entry.profile, Root)
          /\ run' = Launched(entry.profile, ExpectedDmi(entry.profile))
      BY <1>7, <2>2 DEF Launch, Shown
    <3>2. /\ run'.written \in Written /\ run'.inputs = Inputs(run'.written, Home)
          /\ run'.socket = Socket(run'.written, Home)
          /\ run'.expected = ExpectedDmi(run'.profile)
          /\ run'.profile.boot = "qemu" =>
               \A r, s \in DOMAIN run'.real \ {"runtime"} : run'.real[r] = run'.real[s] => r = s
      BY <3>1, LaunchOpens
    <3>3. LaunchInv'
      BY <3>2 DEF LaunchInv
    <3>4. TypeOK' /\ EntryInv'
      BY <1>7, <3>1, <3>2 DEF Launch, TypeOK, EntryInv
    <3> QED BY <3>3, <3>4
  <2> QED BY <1>7, <2>1, <2>2 DEF Launch
<1>8. CASE Report
  BY <1>8 DEF Report, TypeOK, EntryInv, LaunchInv
<1>9. CASE Judge
  BY <1>9 DEF Judge, TypeOK, EntryInv, LaunchInv
<1>10. CASE ChangeFiles
  BY <1>10 DEF ChangeFiles, command, TypeOK, EntryInv, LaunchInv
<1>11. CASE UNCHANGED vars
  BY <1>11 DEF vars, TypeOK, EntryInv, LaunchInv
<1>12. CASE Start
  BY <1>5, <1>12 DEF Start
<1>13. CASE VerifyIdentity
  BY <1>5, <1>13 DEF VerifyIdentity
<1> QED BY <1>2, <1>3, <1>4, <1>6, <1>7, <1>8, <1>9, <1>10, <1>11, <1>12, <1>13 DEF Next

-----------------------------------------------------------------------------
(* The theorems *)

\* The inductive invariant: what is registered is final, and what runs was launched from it
\* with the files as written.
THEOREM Invariance ==
  ASSUME NoneIsNoTable, None \notin Nat
  PROVE  Spec => []IInv
<1>1. IInv /\ [Next]_vars => IInv'
  BY Inductive
<1> QED BY <1>1, Initially, PTL DEF Spec

\* The type invariant: a run comes from a profile a user wrote, and so does the entry.
THEOREM TypeCorrect ==
  ASSUME NoneIsNoTable, None \notin Nat
  PROVE  Spec => []TypeOK
<1>1. IInv => TypeOK
  BY DEF IInv
<1> QED BY <1>1, Invariance, PTL

\* What is registered passes the checks of every later command, is complete and final: no
\* boot adds to it (registry.rs register, update and validate_record, identity.rs
\* materialize and materialize_qemu).
THEOREM RegistrationIsFinal ==
  ASSUME NoneIsNoTable, None \notin Nat
  PROVE  Spec => []RegisteredIsFinal
<1>1. IInv => RegisteredIsFinal
  BY DEF IInv, EntryInv, IsFinal, RegisteredIsFinal, RecordIsValid, RequiresRegistration
<1> QED BY <1>1, Invariance, PTL

\* The files and the socket of a run are those the user's profile names, from the user's directory
\* (config.rs resolved and input_path).
THEOREM RunsOpenTheirFiles ==
  ASSUME NoneIsNoTable, None \notin Nat
  PROVE  Spec => []RunsOpenWhatWasWritten
<1>1. IInv => RunsOpenWhatWasWritten
  BY DEF IInv, TypeOK, LaunchInv, RunsOpenWhatWasWritten
<1> QED BY <1>1, Invariance, PTL

\* The files a QEMU run writes are no two names of one (config.rs plan, its canonical paths).
THEOREM RunsShareNoFile ==
  ASSUME NoneIsNoTable, None \notin Nat
  PROVE  Spec => []RunsUseDistinctFiles
<1>1. IInv => RunsUseDistinctFiles
  BY DEF IInv, TypeOK, LaunchInv, RunsUseDistinctFiles
<1> QED BY <1>1, Invariance, PTL

\* After every update, whatever it changes: the values the new profile gives, the old
\* UUID and system serial otherwise, the old board and chassis serials if the new profile
\* has those tables, and none if it does not (identity.rs materialize and
\* materialize_qemu).
THEOREM UpdatesKeep ==
  ASSUME NoneIsNoTable, None \notin Nat
  PROVE  Spec => UpdatesKeepTheIdentity
<1> DEFINE Step ==
             entry # None /\ entry' # None /\ entry'.written.identity # None =>
               \A f \in Generated :
                 LET p     == entry'.written
                     given == Value(p.identity, f)
                     old   == Value(entry.profile.identity, f)
                     new   == Value(entry'.profile.identity, f)
                 IN /\ given # None => new = given
                    /\ given = None /\ old # None /\ HasTable(p, f[1]) => new = old
                    /\ ~HasTable(p, f[1]) => new = None
<1>1. IInv /\ [Next]_vars => Step \/ UNCHANGED vars
  <2> SUFFICES ASSUME IInv, [Next]_vars, entry # None, entry' # None, entry'.written.identity # None,
                      ~UNCHANGED vars
               PROVE  Step
    OBVIOUS
  <2>1. CASE \E p \in Written : Update(p)
    <3>1. PICK p \in Written : Update(p)
      BY <2>1
    <3>2. Store(p, entry.profile)
      BY <3>1 DEF Update
    <3>3. drawn \in Nat
      BY <3>2, StoreKeepsTypes DEF IInv
    <3>4. entry.profile # None /\ (entry.profile.identity = None \/ IsIdentity(entry.profile.identity))
      BY DEF IInv, EntryInv, IsFinal
    <3>5. LET had == IF entry.profile = None THEN None ELSE entry.profile.identity
          IN entry'.written = p /\ KeepsIdentity(entry'.profile, p, had)
      BY <3>2, <3>3, <3>4, StoreSettles
    <3>6. \A f \in Generated : Keeps(entry'.written.identity, entry.profile.identity, entry'.profile.identity,
                                    HasTable(entry'.written, f[1]), f[1], f[2])
      BY <3>4, <3>5 DEF KeepsIdentity
    <3> QED BY <3>6 DEF Keeps, Value
  <2>2. CASE entry' = entry
    <3>1. \A f \in Generated : Keeps(entry.written.identity, entry.profile.identity, entry.profile.identity,
                                    HasTable(entry.written, f[1]), f[1], f[2])
      BY <2>2 DEF IInv, EntryInv, IsFinal
    <3> QED BY <2>2, <3>1 DEF Keeps, Value
  <2>3. (\E p \in Written : Update(p)) \/ entry' = entry
    BY DEF Next, vars, command, Register, Unregister, Start, VerifyIdentity, Begin, Preview, Launch, Report,
           Judge, ChangeFiles
  <2> QED BY <2>1, <2>2, <2>3
<1> QED BY <1>1, Invariance, PTL DEF Spec, UpdatesKeepTheIdentity

\* A verification passes on what the launched run was given only (main.rs verify_identity).
THEOREM VerdictsAreOnTheRun ==
  ASSUME NoneIsNoTable, None \notin Nat
  PROVE  Spec => VerdictIsOnTheLaunchedRun
<1> DEFINE given == Expected(Effective(run.profile))
           Told  == /\ Block(lines)
                    /\ \A f \in DOMAIN given :
                         {lines[i].value : i \in {j \in Fields(lines) : lines[j].field = f}} = {given[f]}
<1>1. IInv /\ [Next]_vars => (verdict # "passed" /\ verdict' = "passed" => Told)
  <2> SUFFICES ASSUME IInv, [Next]_vars, verdict # "passed", verdict' = "passed"
               PROVE  Told
    OBVIOUS
  <2>1. at = "judge" /\ run.expected # None /\ Verify(run.expected, lines)
    BY DEF Next, vars, command, Register, Update, Unregister, Start, VerifyIdentity, Begin, Preview, Launch,
           Report, Judge, ChangeFiles
  <2>2. run.expected = given
    BY <2>1 DEF IInv, LaunchInv, ExpectedDmi
  <2> HIDE DEF given
  <2>3. Block(lines)
    BY <2>1 DEF Verify
  <2>4. ASSUME NEW f \in DOMAIN given
        PROVE  {lines[i].value : i \in {j \in Fields(lines) : lines[j].field = f}} = {given[f]}
    <3>1. PICK i \in Fields(lines) : lines[i].field = f /\ lines[i].value = given[f]
      BY <2>1, <2>2 DEF Verify
    <3>2. \A j \in Fields(lines) : lines[j].field = f => j = i
      BY <2>1, <3>1 DEF Verify
    <3>3. {j \in Fields(lines) : lines[j].field = f} = {i}
      BY <3>1, <3>2
    <3> QED BY <3>1, <3>3
  <2> QED BY <2>3, <2>4
<1> QED BY <1>1, Invariance, PTL DEF Spec, VerdictIsOnTheLaunchedRun

=============================================================================
