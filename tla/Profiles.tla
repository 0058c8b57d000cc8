------------------------------ MODULE Profiles ------------------------------
(***************************************************************************)
(* Profiles from the file a user writes to the runtime's arguments:        *)
(* validation, path resolution and launch plans                            *)
(* (crates/limiar/src/config.rs), registration and update (registry.rs),   *)
(* and vm verify-identity, which other commands may overtake between its   *)
(* steps (main.rs).                                                        *)
(*                                                                         *)
(* One VM.  A path is a name in a directory, relative if that is None; the *)
(* file system tells the kind of a location and the real location          *)
(* canonicalize finds.  Locks and leases are those of module VmRegistry.   *)
(***************************************************************************)
EXTENDS Identity, SequencesExt

CONSTANTS
  Written,      \* profiles a user may write
  FileSystems,  \* states of the file system
  Home,         \* the directory of the user's profiles
  Root,         \* the directory of the registry
  Wrong,        \* a value the guest may report instead of one it was given
  Slips,        \* bound: the fields a guest may report wrongly
  MaxFresh      \* bound: UUIDs drawn

ASSUME ConstantsAssumption == MaxFresh \in Nat /\ Home # Root /\ None \notin {Home, Root}

VARIABLES
  fs,       \* the file system
  entry,    \* the registered profile, and the one it was written as
  drawn,    \* the last UUID drawn
  at,       \* where the command that runs the VM is
  verify,   \* it is vm verify-identity
  run,      \* the launched plan, with its profile
  lines,    \* the guest's report
  verdict   \* what verify-identity returned

command == <<at, verify, run, lines, verdict>>
vars    == <<fs, entry, drawn, at, verify, run, lines, verdict>>

Boot == {"linux", "uefi", "qemu"}

InputRoles(boot) ==
  {"runtime"} \cup CASE boot = "linux" -> {"kernel", "initrd"}
                     [] boot = "uefi"  -> {"firmware", "disk"}
                     [] boot = "qemu"  -> {"firmware", "variables", "disk", "cdrom"}

Roles(boot) == InputRoles(boot) \cup IF boot = "qemu" THEN {"socket"} ELSE {}

-----------------------------------------------------------------------------
(* A profile *)

IdentityIsValid(p) ==
  p.identity # None =>
    IF p.boot = "qemu" THEN ValidQemu(p.identity) ELSE Valid(p.identity, p.boot = "linux")

\* sound stands for the checks of single fields: the name, the limits, the marker
ProfileIsValid(p) ==
  /\ p.sound
  /\ p.boot = "qemu" => ~(p.headless /\ p.virgl)
  /\ IdentityIsValid(p)

\* mutant: an absolute path is joined, too
Joined(base, path) == IF path \in {None, Bad} THEN path ELSE [path EXCEPT !.base = base]

\* A path as it is seen from a directory.  None is one that is not given.  Bad is one that
\* plan refuses: control characters, delimiters where they are not allowed, a socket of
\* more than 107 bytes.
At(base, path) == IF path \notin {None, Bad} /\ path.base = None THEN [path EXCEPT !.base = base] ELSE path

IsPath(path)    == path = [base |-> path.base, name |-> path.name]
IsTable(t, fields) == t = None \/ t = [f \in fields |-> t[f]]
IsIdentity(id)  ==
  /\ id = [preset |-> id.preset, system |-> id.system, bios |-> id.bios, board |-> id.board,
           chassis |-> id.chassis]
  /\ id.system = [f \in SystemField |-> id.system[f]]
  /\ IsTable(id.bios, BiosField) /\ IsTable(id.board, BoardField) /\ IsTable(id.chassis, ChassisField)
  /\ id.system.uuid \in Nat \cup {None}
IsProfile(p) ==
  /\ p = [boot |-> p.boot, identity |-> p.identity, paths |-> p.paths, sound |-> p.sound,
          headless |-> p.headless, virgl |-> p.virgl]
  /\ p.boot \in Boot /\ p.paths = [r \in DOMAIN p.paths |-> p.paths[r]]
  /\ DOMAIN p.paths \subseteq Roles(p.boot)
  /\ p.identity = None \/ IsIdentity(p.identity)

\* what a profile is made of; a path stays one when it is resolved, and no value is None
ASSUME PathsAssumption ==
  \A p \in Written :
    /\ IsProfile(p)
    /\ \A r \in DOMAIN p.paths :
         p.paths[r] \notin {None, Bad} => IsPath(p.paths[r]) /\ At(Home, p.paths[r]) \notin {None, Bad}


\* resolved, before it tries a plan
Resolved(p, base) == [p EXCEPT !.paths = [r \in DOMAIN @ |-> At(base, @[r])]]

\* input_path of every path that is given
Inputs(p, base) ==
  LET given == {r \in InputRoles(p.boot) \cap DOMAIN p.paths : p.paths[r] # None}
  IN [r \in given |-> At(base, p.paths[r])]

Socket(p, base) == IF "socket" \in DOMAIN p.paths THEN At(base, p.paths["socket"]) ELSE None

\* mutant: aliases are looked for among the names
CanonicalName(path) == path

\* canonicalize().unwrap_or_else(the path itself)
Canonical(path) == IF fs[path].kind = "missing" THEN path ELSE fs[path].real

\* the firmware, the variables, the disk and the CD-ROM
Distinct(inputs) ==
  LET roles == DOMAIN inputs \ {"runtime"}
  IN \A r, s \in roles : Canonical(inputs[r]) = Canonical(inputs[s]) => r = s

\* validate_socket_target, and its length
SocketIsFree(socket) == socket # None => socket # Bad /\ fs[socket].kind \in {"missing", "socket"}

\* plan succeeds
Plannable(p, base) ==
  LET inputs == Inputs(p, base) IN
  /\ ProfileIsValid(p)
  /\ \A r \in DOMAIN inputs : inputs[r] # Bad
  /\ p.boot = "qemu" => Distinct(inputs) /\ SocketIsFree(Socket(p, base))

\* the identity a launch passes on
Effective(p) == IF p.boot = "qemu" THEN WithQemuDefaults(p.identity)
                ELSE WithDefaults(p.identity, p.boot = "linux")

\* every input is a file, the socket's directory is there, the identity is complete
IsReady(p, base) ==
  LET inputs == Inputs(p, base)
      socket == Socket(p, base)
  IN /\ \A r \in DOMAIN inputs : fs[inputs[r]].kind = "file"
     /\ socket # None => fs[[socket EXCEPT !.name = "."]].kind = "directory"
     /\ p.identity # None => ~RequiresRegistration(Effective(p))

ExpectedDmi(p) == IF p.identity = None THEN None ELSE Expected(Effective(p))

\* materialize_identity
WithIdentity(p, old, fresh) ==
  LET prev == IF old = None THEN None ELSE old.identity IN
  IF p.identity = None THEN p
  ELSE [p EXCEPT !.identity =
          IF p.boot = "qemu" THEN MaterializedQemu(@, prev, fresh)
                             ELSE Materialized(@, prev, p.boot = "linux", fresh)]

-----------------------------------------------------------------------------
(* The registry *)

\* validate_record, of every profile that is read back
RecordIsValid(p) ==
  /\ ProfileIsValid(p)
  /\ p.identity # None => ~RequiresRegistration(p.identity)
  /\ \A r \in DOMAIN p.paths : p.paths[r] # None => p.paths[r] # Bad /\ p.paths[r].base # None

\* show: an entry that is there, and valid
Shown == entry # None /\ RecordIsValid(entry.profile)

Init ==
  /\ fs \in FileSystems
  /\ entry = None /\ drawn = NilUuid + 1 \* the UUID users write
  /\ at = "idle" /\ verify = FALSE /\ run = None /\ lines = <<>> /\ verdict = "none"

\* register and update load the profile, resolve it in its directory and try its plan
\* there, complete its identity from the old one, and validate the result
Store(p, old) ==
  LET resolved == Resolved(p, Home)
      new      == WithIdentity(resolved, old, drawn + 1)
      had      == IF old = None THEN None ELSE old.identity
      draws    == p.identity # None /\ had = None /\ p.identity.system.uuid = None
  IN /\ Plannable(resolved, Home) /\ IdentityIsValid(new)
     /\ draws => drawn <= MaxFresh
     /\ drawn' = IF draws THEN drawn + 1 ELSE drawn
     /\ entry' = [profile |-> new, written |-> p]

Register(p) == entry = None /\ Store(p, None) /\ UNCHANGED <<fs, command>>

\* the VM must not run: its supervisor holds the lease
Update(p) ==
  /\ Shown /\ at # "running"
  /\ Store(p, entry.profile) /\ UNCHANGED <<fs, command>>

Unregister ==
  /\ entry # None /\ at # "running"
  /\ entry' = None /\ UNCHANGED <<fs, drawn, command>>

-----------------------------------------------------------------------------
(* vm start and vm verify-identity *)

Begin(step, verifies) ==
  /\ at = "idle" /\ at' = step /\ verify' = verifies /\ verdict' = "none"
  /\ UNCHANGED <<fs, entry, drawn, run, lines>>

Start == Begin("launch", FALSE)

\* show: only the Linux probe is verified
VerifyIdentity == Shown /\ entry.profile.boot = "linux" /\ Begin("preview", TRUE)

\* preview: the plan from the registry's directory has an identity, and it is complete
Preview ==
  /\ at = "preview"
  /\ at' = IF Shown /\ Plannable(entry.profile, Root) /\ entry.profile.identity # None
              /\ ~RequiresRegistration(Effective(entry.profile))
           THEN "launch" ELSE "idle"
  /\ UNCHANGED <<fs, entry, drawn, verify, run, lines, verdict>>

Launched(p, expected) ==
  [profile |-> p, written |-> entry.written, inputs |-> Inputs(p, Root), socket |-> Socket(p, Root),
   expected |-> expected,
   real |-> [r \in DOMAIN Inputs(p, Root) |-> fs[Inputs(p, Root)[r]].real]]

\* start: an entry that is gone or invalid, a plan that fails or is not ready end the
\* command
Launch ==
  /\ at = "launch"
  /\ IF Shown /\ Plannable(entry.profile, Root) /\ IsReady(entry.profile, Root)
     THEN at' = "running" /\ run' = Launched(entry.profile, ExpectedDmi(entry.profile))
     ELSE at' = "idle" /\ UNCHANGED run
  /\ UNCHANGED <<fs, entry, drawn, verify, lines, verdict>>

Line(kind) == [kind |-> kind]
Fair(seen) ==
  LET order == FoldSet(LAMBDA f, seq : Append(seq, f), <<>>, DOMAIN seen)
  IN [i \in DOMAIN order |-> [kind |-> "field", field |-> order[i], value |-> seen[order[i]]]]

\* what a guest that sees some fields may print: a whole block, one that is cut at
\* either end, two of them, none, a field twice or outside the block
Transcripts(seen) ==
  LET fair  == Fair(seen)
      block == <<Line("begin")>> \o fair \o <<Line("end")>>
      slips == {fair[i] : i \in {j \in DOMAIN fair : fair[j].field \in Slips}}
  IN {block, <<Line("begin")>> \o fair, fair \o <<Line("end")>>, block \o block, <<>>}
     \cup {<<Line("begin"), f>> \o fair \o <<Line("end")>> : f \in slips}
     \cup {<<f>> \o block : f \in slips}

\* the fields it may see: those the runtime was given, one of them wrong or missing
Seen(given) ==
  LET slips == Slips \cap DOMAIN given IN
  {given} \cup {[given EXCEPT ![f] = Wrong] : f \in slips}
          \cup {[g \in DOMAIN given \ {f} |-> given[g]] : f \in slips}

\* the guest reports and the run ends; the lease is dropped
Report ==
  /\ at = "running"
  /\ IF verify
     THEN /\ at' = "judge" /\ run' = run
          /\ IF run.expected = None THEN lines' = <<>>
             ELSE \E seen \in Seen(run.expected) : lines' \in Transcripts(seen)
     ELSE at' = "idle" /\ run' = None /\ lines' = <<>>
  /\ UNCHANGED <<fs, entry, drawn, verify, verdict>>

\* mutant: the transcript is compared with the registered profile
JudgeRegistered ==
  /\ at = "judge" /\ at' = "idle" /\ run' = None /\ lines' = <<>>
  /\ \/ verdict' = "failed"
     \/ /\ entry # None /\ ExpectedDmi(entry.profile) # None
        /\ Verify(ExpectedDmi(entry.profile), lines) /\ verdict' = "passed"
  /\ UNCHANGED <<fs, entry, drawn, verify>>

\* the run must also have succeeded
Judge ==
  /\ at = "judge" /\ at' = "idle" /\ run' = None /\ lines' = <<>>
  /\ \/ verdict' = "failed"
     \/ run.expected # None /\ Verify(run.expected, lines) /\ verdict' = "passed"
  /\ UNCHANGED <<fs, entry, drawn, verify>>

\* files come and go
ChangeFiles == fs' \in FileSystems \ {fs} /\ UNCHANGED <<entry, drawn, command>>

Next ==
  \/ \E p \in Written : Register(p) \/ Update(p)
  \/ Unregister \/ Start \/ VerifyIdentity \/ Preview \/ Launch \/ Report \/ Judge \/ ChangeFiles

Spec == Init /\ [][Next]_vars

-----------------------------------------------------------------------------
(* Properties *)

TypeOK ==
  /\ fs \in FileSystems /\ drawn \in NilUuid + 1 .. MaxFresh + 1
  /\ at \in {"idle", "preview", "launch", "running", "judge"} /\ verify \in BOOLEAN
  /\ verdict \in {"none", "passed", "failed"}
  /\ run # None => at \in {"running", "judge"} /\ run.written \in Written
  /\ entry # None => entry.written \in Written /\ entry.profile.boot = entry.written.boot

\* A registered profile is final: every later command accepts it, its identity is
\* complete, and no boot adds anything to it ("Resolve defaults once into the registered
\* snapshot, never at each boot").
RegisteredIsFinal ==
  entry # None =>
    LET p == entry.profile IN RecordIsValid(p) /\ (p.identity # None => Effective(p) = p.identity)

Generated == {<<"system", "uuid">>, <<"system", "serial">>, <<"board", "serial">>, <<"chassis", "serial">>}
Value(id, f) == Previous(id, f[1], f[2])

\* the tables of a profile with an identity: the system's, those it gives, and those the
\* preset brings to a QEMU boot
HasTable(p, table) ==
  table = "system" \/ p.identity[table] # None \/ (p.boot = "qemu" /\ p.identity.preset = "limiar")

\* Whatever the change of boot or preset, an update takes every value the new profile
\* gives and keeps, of the others, the system's UUID and serial, and the serial of a board
\* or chassis the new profile has.  The serial of one it does not have is gone.
UpdatesKeepTheIdentity ==
  [][entry # None /\ entry' # None /\ entry'.written.identity # None =>
       \A f \in Generated :
         LET p     == entry'.written
             given == Value(p.identity, f)
             old   == Value(entry.profile.identity, f)
             new   == Value(entry'.profile.identity, f)
         IN /\ given # None => new = given
            /\ given = None /\ old # None /\ HasTable(p, f[1]) => new = old
            /\ ~HasTable(p, f[1]) => new = None]_vars

\* A run opens the files, and the control socket, the user's profile names relative to its
\* own directory, though it is planned in another.
RunsOpenWhatWasWritten ==
  run # None => run.inputs = Inputs(run.written, Home) /\ run.socket = Socket(run.written, Home)

\* No two of the firmware, the variables, the disk and the CD-ROM of a run are one file
\* at its start, under whatever names: the variables and the disk are written.
RunsUseDistinctFiles ==
  run # None =>
    LET roles == DOMAIN run.real \ {"runtime"}
    IN run.profile.boot = "qemu" => \A r, s \in roles : run.real[r] = run.real[s] => r = s

\* A verification passes only if the guest reported, once and in one whole block, every
\* field the launched run was given, whatever became of the registration since.
VerdictIsOnTheLaunchedRun ==
  [][verdict # "passed" /\ verdict' = "passed" =>
       LET given == Expected(Effective(run.profile)) IN
       /\ Block(lines)
       /\ \A f \in DOMAIN given :
            {lines[i].value : i \in {j \in Fields(lines) : lines[j].field = f}} = {given[f]}]_vars
=============================================================================
