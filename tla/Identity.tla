------------------------------ MODULE Identity ------------------------------
(***************************************************************************)
(* crates/limiar/src/identity.rs: the SMBIOS identity of a profile, how    *)
(* registration completes it, what a launch passes to the runtime, and     *)
(* how a guest's report is judged.                                         *)
(*                                                                         *)
(* An identity is a record of tables, a table a function from its fields   *)
(* to values or None.  Texts are opaque (Bad stands for every text the     *)
(* checks of text() refuse); UUIDs are numbers, of which NilUuid stands    *)
(* for the two that are refused; serials are tuples, so that those derived *)
(* from a UUID tell which; dates and releases keep their parts.            *)
(***************************************************************************)
EXTENDS Naturals, Sequences, FiniteSets

CONSTANTS
  None,  \* a field or a table that is not given
  Bad    \* a text that text() refuses

NilUuid == 0

SystemField  == {"manufacturer", "product", "version", "serial", "uuid", "sku", "family"}
BiosField    == {"vendor", "version", "date", "release"}
BoardField   == {"manufacturer", "product", "version", "serial", "asset", "location"}
ChassisField == {"manufacturer", "version", "serial", "asset", "sku"}

Table == {"system", "bios", "board", "chassis"}

Empty(fields) == [f \in fields |-> None]

SystemDefaults ==
  [manufacturer |-> "Limiar", product |-> "Limiar One", version |-> "1.0", serial |-> None,
   uuid |-> None, sku |-> "LMR-ONE", family |-> "Limiar Desktop"]
BiosDefaults ==
  [vendor |-> "Limiar", version |-> "0.3", date |-> [month |-> 9, day |-> 24, year |-> 2026],
   release |-> [major |-> 0, minor |-> 3, zeros |-> FALSE]]
BoardDefaults ==
  [manufacturer |-> "Limiar", product |-> "Limiar Mainboard", version |-> "1.0", serial |-> None,
   asset |-> "LMR-BOARD", location |-> "Mainboard"]
ChassisDefaults ==
  [manufacturer |-> "Limiar", version |-> "Limiar Desktop", serial |-> None,
   asset |-> "LMR-CHASSIS", sku |-> "LMR-DESKTOP"]

Given(table, fields) == IF table = None THEN Empty(fields) ELSE table
First(a, b)          == IF a # None THEN a ELSE b
Filled(table, defaults) == [f \in DOMAIN table |-> First(table[f], defaults[f])]

-----------------------------------------------------------------------------
(* Validation *)

TextsAreValid(table) == table # None => \A f \in DOMAIN table : table[f] # Bad

Leap(year) == year % 4 = 0 /\ (year % 100 # 0 \/ year % 400 = 0)
Days(month, year) == IF month = 2 THEN (IF Leap(year) THEN 29 ELSE 28)
                     ELSE IF month \in {4, 6, 9, 11} THEN 30 ELSE 31
ValidDate(d) == /\ d.year \in 1900 .. 9999 /\ d.month \in 1 .. 12
                /\ d.day \in 1 .. Days(d.month, d.year)

ValidBios(bios) ==
  /\ TextsAreValid(bios)
  /\ bios.date # None => ValidDate(bios.date)
  /\ bios.release # None => bios.release.major <= 255 /\ bios.release.minor <= 255

Valid(id, linux) ==
  /\ id.board = None /\ id.chassis = None
  /\ TextsAreValid(id.system) /\ id.system.uuid # NilUuid
  /\ id.bios # None => linux /\ ValidBios(id.bios)
  /\ id.preset = "custom" => id.system.manufacturer # None /\ id.system.product # None

Type01(id) == [id EXCEPT !.board = None, !.chassis = None]

ValidQemu(id) == Valid(Type01(id), TRUE) /\ TextsAreValid(id.board) /\ TextsAreValid(id.chassis)

-----------------------------------------------------------------------------
(* Completion *)

WithDefaults(id, linux) ==
  IF id.preset # "limiar" THEN id
  ELSE [id EXCEPT !.system = Filled(@, SystemDefaults),
                  !.bios = IF linux THEN Filled(Given(@, BiosField), BiosDefaults) ELSE @]

\* format!("LMR-{}", the first half of the UUID), and its two variants
Derived(prefix, uuid) == <<prefix, uuid>>

WithQemuDefaults(id) ==
  LET base    == WithDefaults(id, TRUE)
      uuid    == base.system.uuid
      board   == Filled(Given(base.board, BoardField), BoardDefaults)
      chassis == Filled(Given(base.chassis, ChassisField), ChassisDefaults)
      Serial(table, prefix) ==
        IF uuid = None THEN table ELSE [table EXCEPT !.serial = First(@, Derived(prefix, uuid))]
  IN IF id.preset # "limiar" THEN base
     ELSE [base EXCEPT !.board = Serial(board, "LMR-B"), !.chassis = Serial(chassis, "LMR-C")]

Previous(prev, table, field) ==
  IF prev = None THEN None ELSE IF prev[table] = None THEN None ELSE prev[table][field]

\* mutant: the identity is drawn anew with each update
MaterializedAnew(id, prev, linux, fresh) ==
  LET full   == WithDefaults(id, linux)
      uuid   == First(full.system.uuid, fresh)
      serial == First(full.system.serial, Derived("LMR", uuid))
  IN [full EXCEPT !.system.uuid = uuid, !.system.serial = serial]

\* mutant: the defaults are left to each boot
MaterializedLate(id, prev, linux, fresh) ==
  LET uuid   == First(id.system.uuid, First(Previous(prev, "system", "uuid"), fresh))
      serial == First(id.system.serial,
                      First(Previous(prev, "system", "serial"), Derived("LMR", uuid)))
  IN [id EXCEPT !.system.uuid = uuid, !.system.serial = serial]

\* materialize, for a valid identity; fresh is what Uuid::new_v4 would return
Materialized(id, prev, linux, fresh) ==
  LET full   == WithDefaults(id, linux)
      uuid   == First(full.system.uuid, First(Previous(prev, "system", "uuid"), fresh))
      serial == First(full.system.serial,
                      First(Previous(prev, "system", "serial"), Derived("LMR", uuid)))
  IN [full EXCEPT !.system.uuid = uuid, !.system.serial = serial]

\* materialize_qemu: the serials of the previous board and chassis come before the
\* derived ones, in tables the preset or the profile brings
MaterializedQemu(id, prev, fresh) ==
  LET base == Materialized(Type01(id), prev, TRUE, fresh)
      Kept(table, fields) ==
        IF id.preset = "limiar" \/ id[table] # None
        THEN [Given(id[table], fields) EXCEPT !.serial = First(@, Previous(prev, table, "serial"))]
        ELSE None
  IN WithQemuDefaults([base EXCEPT !.board = Kept("board", BoardField),
                                   !.chassis = Kept("chassis", ChassisField)])

-----------------------------------------------------------------------------
(* The plan of a launch, and its verification *)

\* the keys and values of one --smbios argument
Passed(table) == IF table = None THEN {} ELSE {<<f, table[f]>> : f \in {g \in DOMAIN table : table[g] # None}}

Arguments(id) == [t \in Table |-> Passed(id[t])]

\* a guest reads a BIOS release from two bytes
Observable(field, value) ==
  IF field = <<"bios", "release">> THEN [value EXCEPT !.zeros = FALSE] ELSE value

\* expected_dmi
Expected(id) ==
  LET args   == Arguments(id)
      fields == UNION {{<<t, a[1]>> : a \in args[t]} : t \in Table}
  IN [f \in fields |-> Observable(f, id[f[1]][f[2]])]

RequiresRegistration(id) == id.system.uuid = None \/ id.system.serial = None

\* A line of a transcript is "begin", "end", or a pair of a field and a value
Fields(lines) == {i \in DOMAIN lines : lines[i].kind = "field"}

Block(lines) ==
  \E b, e \in DOMAIN lines :
    /\ b < e /\ lines[b].kind = "begin" /\ lines[e].kind = "end"
    /\ \A i \in DOMAIN lines : lines[i].kind = "begin" => i = b
    /\ \A i \in DOMAIN lines : lines[i].kind = "end" => i = e
    /\ \A i \in Fields(lines) : i \in b .. e

\* verify, where an error counts as a failed verification, as the caller does
Verify(expected, lines) ==
  /\ DOMAIN expected # {}
  /\ Block(lines)
  /\ \A i, j \in Fields(lines) : lines[i].field = lines[j].field => i = j
  /\ \A f \in DOMAIN expected : \E i \in Fields(lines) :
       lines[i].field = f /\ lines[i].value = expected[f]
=============================================================================
