----------------------------- MODULE VmRegistry -----------------------------
(***************************************************************************)
(* The registry entry of one virtual machine and the command-line          *)
(* processes that use it (crates/limiar/src/registry.rs), with the part of *)
(* the process supervisor (runner.rs) that the registry can observe.       *)
(*                                                                         *)
(* A process p of Proc runs one command at a time.  Two OS file locks      *)
(* order the commands: the registry guard, which every command waits for   *)
(* at most five seconds, and the run lease of the entry, which is only     *)
(* ever tried, while the guard is held, and which a supervisor keeps for   *)
(* the whole run.  A process may crash between any two steps; the OS then  *)
(* releases its locks.  Entries of other names interact with this one only *)
(* through the guard, so one entry is modelled.                            *)
(***************************************************************************)
EXTENDS Naturals, FiniteSets

CONSTANTS
  Proc,         \* concurrent command-line processes
  NoProc,       \* nobody holds the lock
  MaxRuns,      \* bound: runs started in a behaviour
  MaxRevision,  \* the largest profile revision (u64::MAX in the code)
  KillOnClose   \* the host kills the runtime with its supervisor (Windows job)

ASSUME ConstantsAssumption ==
  /\ NoProc \notin Proc
  /\ MaxRuns \in Nat
  /\ MaxRevision \in Nat \ {0}
  /\ KillOnClose \in BOOLEAN

VARIABLES
  dir,      \* the entry's directory exists
  profile,  \* revision stored in profile.json, 0 when the file is missing
  state,    \* state.json
  stop,     \* run id stored in stop.json, 0 when the file is missing
  temp,     \* a crash left a temporary file of write_json in the directory
  guard,    \* holder of .registry.lock
  lease,    \* holder of run.lock
  at,       \* where each process is
  op,       \* the command, or the update_run call, each process executes
  run,      \* run id a supervisor owns, or a stop command asked to end
  out,      \* outcome of the supervisor's execute call
  marker,   \* marker_seen of the supervisor's execute call
  kid,      \* the runtime process of each run
  lastRun,  \* run ids handed out so far
  lost,     \* history: runs whose supervisor went away without a final save
  asked,    \* history: runs named by a stop request
  ended     \* history: runs whose stop command returned success

disk   == <<dir, profile, state, stop, temp>>
locals == <<at, op, run, out, marker>>
hist   == <<lost, asked, ended>>
vars   == <<disk, guard, lease, locals, kid, lastRun, hist>>

Runs     == 1 .. MaxRuns
NoRun    == 0
VmState  == {"starting", "running", "stopped", "failed"}
RunState == [id : Runs, rev : 1 .. MaxRevision, st : VmState, boot : BOOLEAN]
NoState  == [id |-> NoRun, rev |-> 0, st |-> "stopped", boot |-> FALSE]

Commands == {"register", "update", "unregister", "status", "stop", "start"}
Events   == {"started", "marker", "final"}     \* update_run calls of a supervisor
Ops      == Commands \cup Events \cup {"none", "poll", "run"}

Removing == {"rm_profile", "rm_state", "rm_stop", "rm_dir"}
Guarded  == {"in", "write"} \cup Removing      \* locations that hold the guard
Running  == {"plan", "spawn", "attach", "loop", "kill", "release"}
Places   == {"idle", "guard"} \cup Guarded \cup Running

Supervising == Events \cup {"run"}            \* op of a process past StartWrite

\* p supervises a run: start has taken the lease and has not dropped it
Supervises(p) ==
  \/ op[p] \in Supervising
  \/ op[p] = "start" /\ at[p] = "write"

Live(r) == kid[r] \in {"spawned", "attached"}

LocalsType ==
  /\ at \in [Proc -> Places] /\ op \in [Proc -> Ops]
  /\ run \in [Proc -> 0 .. MaxRuns]
  /\ out \in [Proc -> {"none", "ok", "bad", "stopped", "error"}]
  /\ marker \in [Proc -> BOOLEAN]

FilesType ==
  /\ dir \in BOOLEAN /\ temp \in BOOLEAN
  /\ profile \in 0 .. MaxRevision
  /\ state \in RunState \cup {NoState}
  /\ stop \in 0 .. MaxRuns

OthersType ==
  /\ guard \in Proc \cup {NoProc} /\ lease \in Proc \cup {NoProc}
  /\ kid \in [Runs -> {"none", "spawned", "attached", "dead"}]
  /\ lastRun \in 0 .. MaxRuns
  /\ lost \subseteq Runs /\ asked \subseteq Runs /\ ended \subseteq Runs

TypeOK == LocalsType /\ FilesType /\ OthersType

Init ==
  /\ dir = FALSE /\ profile = 0 /\ state = NoState /\ stop = NoRun /\ temp = FALSE
  /\ guard = NoProc /\ lease = NoProc
  /\ at = [p \in Proc |-> "idle"] /\ op = [p \in Proc |-> "none"]
  /\ run = [p \in Proc |-> NoRun] /\ out = [p \in Proc |-> "none"]
  /\ marker = [p \in Proc |-> FALSE]
  /\ kid = [r \in Runs |-> "none"] /\ lastRun = 0
  /\ lost = {} /\ asked = {} /\ ended = {}

-----------------------------------------------------------------------------
(* Steps every command shares *)

At(p, place, o) == at[p] = place /\ op[p] = o

GoTo(p, place) == at' = [at EXCEPT ![p] = place] /\ UNCHANGED <<op, run, out, marker>>

GoToOp(p, place, o) ==
  /\ at' = [at EXCEPT ![p] = place] /\ op' = [op EXCEPT ![p] = o]
  /\ UNCHANGED <<run, out, marker>>

\* the command returns: its File values drop
Return(p) ==
  /\ at' = [at EXCEPT ![p] = "idle"] /\ op' = [op EXCEPT ![p] = "none"]
  /\ run' = [run EXCEPT ![p] = NoRun] /\ out' = [out EXCEPT ![p] = "none"]
  /\ marker' = [marker EXCEPT ![p] = FALSE]

ReleaseGuard == guard' = NoProc

\* execute_controlled leaves its loop with outcome o; ManagedChild drops next
Leave(p, o, m) ==
  /\ at' = [at EXCEPT ![p] = "kill"] /\ op' = [op EXCEPT ![p] = "run"]
  /\ out' = [out EXCEPT ![p] = o] /\ marker' = [marker EXCEPT ![p] = m]
  /\ UNCHANGED run

\* the user starts a command
Invoke(p, c) ==
  /\ at[p] = "idle"
  /\ GoToOp(p, "guard", c)
  /\ UNCHANGED <<disk, guard, lease, kid, lastRun, hist>>

AcquireGuard(p) ==
  /\ at[p] = "guard" /\ guard = NoProc
  /\ guard' = p
  /\ GoTo(p, "in")
  /\ UNCHANGED <<disk, lease, kid, lastRun, hist>>

\* what a failed guard() or a failed update_run means to the supervisor: an event
\* fails the run, the last save is lost
FailUpdate(p) ==
  LET final == op[p] = "final" IN
  /\ at' = [at EXCEPT ![p] = IF final THEN "release" ELSE "kill"]
  /\ op' = [op EXCEPT ![p] = "run"]
  /\ out' = [out EXCEPT ![p] = IF final THEN @ ELSE "error"]
  /\ lost' = IF final THEN lost \cup {run[p]} ELSE lost
  /\ UNCHANGED <<run, marker>>

\* "registry is busy; try again" after five seconds
GuardTimeout(p) ==
  /\ at[p] = "guard" /\ guard # NoProc /\ op[p] \notin Events
  /\ Return(p)
  /\ UNCHANGED <<disk, guard, lease, kid, lastRun, hist>>

UpdateTimeout(p) ==
  /\ at[p] = "guard" /\ guard # NoProc /\ op[p] \in Events
  /\ FailUpdate(p)
  /\ UNCHANGED <<disk, guard, lease, kid, lastRun, asked, ended>>

-----------------------------------------------------------------------------
(* What each command requires once it holds the guard *)

Known == dir /\ profile > 0          \* existing_path and record_at succeed

Active == lease # NoProc             \* try_lease(run.lock) would block

(* Mutants, here and below: a guard, a write or an order that a change to the  *)
(* code could lose.                                                          *)
MayUnregisterActive  == dir /\ ~temp
MayStartTwice        == Known /\ lastRun < MaxRuns

MayUpdate     == Known /\ ~Active /\ profile < MaxRevision
MayUnregister == dir /\ ~Active /\ ~temp
MayStop       == Known /\ Active /\ state.id # NoRun
MayStart      == Known /\ ~Active /\ lastRun < MaxRuns

\* an early return: the error, or an inactive status from request_stop
Refused(p) ==
  /\ at[p] = "in"
  /\ \/ op[p] = "register" /\ dir
     \/ op[p] = "update" /\ ~MayUpdate
     \/ op[p] = "unregister" /\ ~MayUnregister
     \/ op[p] = "stop" /\ ~MayStop
     \/ op[p] = "poll" /\ ~Known
     \/ op[p] = "start" /\ ~MayStart
  /\ Return(p) /\ ReleaseGuard
  /\ UNCHANGED <<disk, lease, kid, lastRun, hist>>

-----------------------------------------------------------------------------
(* register, update, unregister *)

Register(p) ==
  /\ At(p, "in", "register") /\ ~dir
  /\ dir' = TRUE /\ GoTo(p, "write")
  /\ UNCHANGED <<profile, state, stop, temp, guard, lease, kid, lastRun, hist>>

RegisterWrite(p) ==
  /\ At(p, "write", "register")
  /\ profile' = 1
  /\ Return(p) /\ ReleaseGuard
  /\ UNCHANGED <<dir, state, stop, temp, lease, kid, lastRun, hist>>

\* write_json failed: the directory is removed, if that works
RegisterFail(p) ==
  /\ At(p, "write", "register")
  /\ dir' \in BOOLEAN
  /\ Return(p) /\ ReleaseGuard
  /\ UNCHANGED <<profile, state, stop, temp, lease, kid, lastRun, hist>>

\* update holds the lease while it writes the next revision
Update(p) ==
  /\ At(p, "in", "update") /\ MayUpdate
  /\ lease' = p /\ GoTo(p, "write")
  /\ UNCHANGED <<disk, guard, kid, lastRun, hist>>

UpdateWrite(p) ==
  /\ At(p, "write", "update")
  /\ profile' = profile + 1
  /\ Return(p) /\ ReleaseGuard /\ lease' = NoProc
  /\ UNCHANGED <<dir, state, stop, temp, kid, lastRun, hist>>

\* the lease is tried and dropped, then the managed files go one by one
Unregister(p) ==
  /\ At(p, "in", "unregister") /\ MayUnregister
  /\ GoTo(p, "rm_profile")
  /\ UNCHANGED <<disk, guard, lease, kid, lastRun, hist>>

RemoveProfile(p) ==
  /\ at[p] = "rm_profile" /\ GoTo(p, "rm_state")
  /\ profile' = 0
  /\ UNCHANGED <<dir, state, stop, temp, guard, lease, kid, lastRun, hist>>

RemoveState(p) ==
  /\ at[p] = "rm_state" /\ GoTo(p, "rm_stop")
  /\ state' = NoState
  /\ UNCHANGED <<dir, profile, stop, temp, guard, lease, kid, lastRun, hist>>

RemoveStop(p) ==
  /\ at[p] = "rm_stop" /\ GoTo(p, "rm_dir")
  /\ stop' = NoRun
  /\ UNCHANGED <<dir, profile, state, temp, guard, lease, kid, lastRun, hist>>

RemoveDir(p) ==
  /\ at[p] = "rm_dir"
  /\ dir' = FALSE
  /\ Return(p) /\ ReleaseGuard
  /\ UNCHANGED <<profile, state, stop, temp, lease, kid, lastRun, hist>>

-----------------------------------------------------------------------------
(* status, stop *)

\* status_unlocked: the state a status, list or stop command reports
StatusUnlocked ==
  CASE state.id = NoRun /\ Active  -> "starting"
    [] state.id = NoRun /\ ~Active -> "registered"
    [] state.id # NoRun /\ Active  ->
         IF stop = state.id \/ state.st \in {"stopped", "failed"}
         THEN "stopping" ELSE state.st
    [] OTHER ->
         IF state.st \in {"starting", "running"} THEN "interrupted" ELSE state.st

\* status, list, show and preview read under the guard
Status(p) ==
  /\ At(p, "in", "status")
  /\ Return(p) /\ ReleaseGuard
  /\ UNCHANGED <<disk, lease, kid, lastRun, hist>>

\* request_stop: an active supervisor with a recorded run is asked to stop
RequestStop(p) ==
  /\ At(p, "in", "stop") /\ MayStop
  /\ at' = [at EXCEPT ![p] = "write"] /\ run' = [run EXCEPT ![p] = state.id]
  /\ UNCHANGED <<disk, guard, lease, op, out, marker, kid, lastRun, hist>>

\* stop.json is written and the status read again: stop() polls an active one
RequestStopWrite(p) ==
  /\ At(p, "write", "stop") /\ Active
  /\ stop' = run[p] /\ asked' = asked \cup {run[p]}
  /\ ReleaseGuard /\ GoToOp(p, "guard", "poll")
  /\ UNCHANGED <<dir, profile, state, temp, lease, kid, lastRun, lost, ended>>

\* the supervisor dropped its lease since the first status
RequestStopLate(p) ==
  /\ At(p, "write", "stop") /\ ~Active
  /\ stop' = run[p] /\ asked' = asked \cup {run[p]}
  /\ ReleaseGuard /\ Return(p) /\ ended' = ended \cup {run[p]}
  /\ UNCHANGED <<dir, profile, state, temp, lease, kid, lastRun, lost>>

\* the polled entry is inactive: stop returns its status
StopReturns(p) ==
  /\ At(p, "in", "poll") /\ Known /\ ~Active
  /\ Return(p) /\ ReleaseGuard /\ ended' = ended \cup {run[p]}
  /\ UNCHANGED <<disk, lease, kid, lastRun, lost, asked>>

StopPollsAgain(p) ==
  /\ At(p, "in", "poll") /\ Known /\ Active
  /\ GoTo(p, "guard") /\ ReleaseGuard
  /\ UNCHANGED <<disk, lease, kid, lastRun, hist>>

\* "stop requested but supervisor has not finished yet"
StopWaitExpires(p) ==
  /\ At(p, "in", "poll") /\ Known /\ Active
  /\ Return(p) /\ ReleaseGuard
  /\ UNCHANGED <<disk, lease, kid, lastRun, hist>>

-----------------------------------------------------------------------------
(* start: the supervisor *)

\* under the guard: the record, the lease, a fresh run id
Start(p) ==
  /\ At(p, "in", "start") /\ MayStart
  /\ lease' = p /\ lastRun' = lastRun + 1
  /\ at' = [at EXCEPT ![p] = "write"] /\ run' = [run EXCEPT ![p] = lastRun + 1]
  /\ UNCHANGED <<disk, guard, op, out, marker, kid, hist>>

\* state.json names the run before the guard is released; the lease stays
StartWrite(p) ==
  /\ At(p, "write", "start")
  /\ state' = [id |-> run[p], rev |-> profile, st |-> "starting", boot |-> FALSE]
  /\ ReleaseGuard /\ GoToOp(p, "plan", "run")
  /\ UNCHANGED <<dir, profile, stop, temp, lease, kid, lastRun, hist>>

\* the launch plan is computed without the guard
Plan(p) ==
  /\ at[p] = "plan" /\ GoTo(p, "spawn")
  /\ UNCHANGED <<disk, guard, lease, kid, lastRun, hist>>

Spawn(p) ==
  /\ at[p] = "spawn"
  /\ kid' = [kid EXCEPT ![run[p]] = "spawned"]
  /\ at' = [at EXCEPT ![p] = IF KillOnClose THEN "attach" ELSE "guard"]
  /\ op' = [op EXCEPT ![p] = IF KillOnClose THEN @ ELSE "started"]
  /\ UNCHANGED <<disk, guard, lease, run, out, marker, lastRun, hist>>

\* attach_job: the runtime joins the job
AttachJob(p) ==
  /\ at[p] = "attach" /\ GoToOp(p, "guard", "started")
  /\ kid' = [kid EXCEPT ![run[p]] = IF @ = "spawned" THEN "attached" ELSE @]
  /\ UNCHANGED <<disk, guard, lease, lastRun, hist>>

\* an input is missing, the runtime does not start, or it is killed because it
\* cannot join the job
LaunchFails(p) ==
  /\ at[p] \in {"plan", "spawn", "attach"} /\ Leave(p, "error", FALSE)
  /\ kid' = [kid EXCEPT ![run[p]] = IF at[p] = "attach" THEN "dead" ELSE @]
  /\ UNCHANGED <<disk, guard, lease, lastRun, hist>>

\* update_run for Started and MarkerSeen.  The edit needs the run's own
\* state.json; "run state is missing" and "run state changed unexpectedly"
\* return as any other error does, see UpdateIoError
UpdateRun(p) ==
  /\ at[p] = "in" /\ op[p] \in {"started", "marker"}
  /\ state.id = run[p]
  /\ state' = IF op[p] = "started" THEN [state EXCEPT !.st = "running"]
                                   ELSE [state EXCEPT !.boot = TRUE]
  /\ ReleaseGuard /\ GoToOp(p, "loop", "run")
  /\ UNCHANGED <<dir, profile, stop, temp, lease, kid, lastRun, hist>>

MarkerSeen(p) ==
  /\ at[p] = "loop" /\ ~marker[p]
  /\ at' = [at EXCEPT ![p] = "guard"] /\ op' = [op EXCEPT ![p] = "marker"]
  /\ marker' = [marker EXCEPT ![p] = TRUE]
  /\ UNCHANGED <<disk, guard, lease, run, out, kid, lastRun, hist>>

\* mutant: any stop.json ends the run
StopPending(p) == stop # NoRun

\* stop_matches, read without the guard
StopMatches(p) == stop = run[p]

\* mutant: a stop is honoured once the guest has booted
StopSeenAfterBoot(p) ==
  /\ at[p] = "loop" /\ StopMatches(p) /\ marker[p]
  /\ Leave(p, "stopped", marker[p])
  /\ UNCHANGED <<disk, guard, lease, kid, lastRun, hist>>

StopSeen(p) ==
  /\ at[p] = "loop" /\ StopMatches(p)
  /\ Leave(p, "stopped", marker[p])
  /\ UNCHANGED <<disk, guard, lease, kid, lastRun, hist>>

\* every other way out of the loop: guest exit (whose re-read transcript may
\* show the marker), panic, log limit, verified smoke, timeout, read error
LoopEnds(p) ==
  /\ at[p] = "loop"
  /\ \E o \in {"ok", "bad", "error"}, m \in BOOLEAN :
       /\ marker[p] => m
       /\ m /\ ~marker[p] => kid[run[p]] = "dead"
       /\ o = "ok" => m \/ kid[run[p]] = "dead"
       /\ Leave(p, o, m)
  /\ UNCHANGED <<disk, guard, lease, kid, lastRun, hist>>

\* the runtime process ends on its own
RuntimeExits(r) ==
  /\ Live(r)
  /\ kid' = [kid EXCEPT ![r] = "dead"]
  /\ UNCHANGED <<disk, guard, lease, locals, lastRun, hist>>

\* mutant: the runtime is neither killed nor waited for
AbandonRuntime(p) ==
  /\ at[p] = "kill"
  /\ at' = [at EXCEPT ![p] = "guard"] /\ op' = [op EXCEPT ![p] = "final"]
  /\ UNCHANGED <<disk, guard, lease, run, out, marker, kid, lastRun, hist>>

\* ManagedChild drops: kill and wait; writing result.json may fail
KillRuntime(p) ==
  /\ at[p] = "kill"
  /\ kid' = [kid EXCEPT ![run[p]] = IF @ = "none" THEN @ ELSE "dead"]
  /\ \E o \in {out[p], "error"} : out' = [out EXCEPT ![p] = o]
  /\ at' = [at EXCEPT ![p] = "guard"] /\ op' = [op EXCEPT ![p] = "final"]
  /\ UNCHANGED <<disk, guard, lease, run, marker, lastRun, hist>>

\* now_ms fails between the end of the run and its last update
ClockFails(p) ==
  /\ At(p, "guard", "final")
  /\ FailUpdate(p)
  /\ UNCHANGED <<disk, guard, lease, kid, lastRun, asked, ended>>

\* mutant: the last update_run records the boot, not the end
FinalSaveBootOnly(p) ==
  /\ At(p, "in", "final")
  /\ state.id = run[p]
  /\ state' = [state EXCEPT !.boot = marker[p]]
  /\ ReleaseGuard /\ GoToOp(p, "release", "run")
  /\ UNCHANGED <<dir, profile, stop, temp, lease, kid, lastRun, hist>>

\* the last update_run of a run
FinalSave(p) ==
  /\ At(p, "in", "final")
  /\ state.id = run[p]
  /\ state' = [state EXCEPT
                 !.st   = IF out[p] \in {"ok", "stopped"} THEN "stopped" ELSE "failed",
                 !.boot = IF out[p] = "error" THEN @ ELSE marker[p]]
  /\ ReleaseGuard /\ GoToOp(p, "release", "run")
  /\ UNCHANGED <<dir, profile, stop, temp, lease, kid, lastRun, hist>>

\* drop(lease), outside the guard
DropLease(p) ==
  /\ at[p] = "release"
  /\ lease' = NoProc
  /\ Return(p)
  /\ UNCHANGED <<disk, guard, kid, lastRun, hist>>

-----------------------------------------------------------------------------
(* Failures *)

\* a file operation under the guard fails: the error returns through the
\* caller, dropping the guard and whatever lease the call took
IoError(p) ==
  /\ at[p] \in Guarded /\ op[p] \notin Events
  /\ ~At(p, "write", "register")
  /\ ReleaseGuard /\ Return(p)
  /\ lease' = IF lease = p THEN NoProc ELSE lease
  /\ UNCHANGED <<disk, kid, lastRun, hist>>

UpdateIoError(p) ==
  /\ at[p] \in Guarded /\ op[p] \in Events
  /\ ReleaseGuard /\ FailUpdate(p)
  /\ UNCHANGED <<disk, lease, kid, lastRun, asked, ended>>

\* the process dies: the OS drops its locks and closes its job; a write in
\* progress leaves its temporary file
Crash(p) ==
  /\ at[p] # "idle"
  /\ guard' = IF guard = p THEN NoProc ELSE guard
  /\ lease' = IF lease = p THEN NoProc ELSE lease
  /\ \E left \in {temp, TRUE} :
       /\ left # temp => at[p] = "write" \/ (at[p] = "in" /\ op[p] \in Events)
       /\ temp' = left
  /\ kid' = [r \in Runs |-> IF r = run[p] /\ Supervises(p) /\ kid[r] = "attached"
                            THEN "dead" ELSE kid[r]]
  /\ lost' = IF Supervises(p) THEN lost \cup {run[p]} ELSE lost
  /\ Return(p)
  /\ UNCHANGED <<dir, profile, state, stop, lastRun, asked, ended>>

-----------------------------------------------------------------------------
\* steps a process takes as long as it keeps running
Progress(p) ==
  \/ AcquireGuard(p) \/ GuardTimeout(p) \/ UpdateTimeout(p) \/ Refused(p)
  \/ Register(p) \/ RegisterWrite(p) \/ Update(p) \/ UpdateWrite(p)
  \/ Unregister(p) \/ RemoveProfile(p) \/ RemoveState(p) \/ RemoveStop(p) \/ RemoveDir(p)
  \/ Status(p) \/ RequestStop(p) \/ RequestStopWrite(p) \/ RequestStopLate(p)
  \/ StopReturns(p) \/ StopPollsAgain(p)
  \/ Start(p) \/ StartWrite(p) \/ Plan(p) \/ Spawn(p) \/ AttachJob(p)
  \/ UpdateRun(p) \/ StopSeen(p) \/ KillRuntime(p) \/ FinalSave(p) \/ DropLease(p)

\* steps that depend on the user, the guest, the clock or a failure
Environment(p) ==
  \/ \E c \in Commands : Invoke(p, c)
  \/ LaunchFails(p) \/ MarkerSeen(p) \/ LoopEnds(p) \/ StopWaitExpires(p)
  \/ RegisterFail(p) \/ ClockFails(p) \/ IoError(p) \/ UpdateIoError(p) \/ Crash(p)

Next ==
  \/ \E p \in Proc : Progress(p) \/ Environment(p)
  \/ \E r \in Runs : RuntimeExits(r)

Spec == Init /\ [][Next]_vars

FairSpec == Spec /\ \A p \in Proc : WF_vars(Progress(p))

-----------------------------------------------------------------------------
(* The lifecycle this specification implements *)

Phase ==
  CASE ~dir                                  -> "absent"
    [] lease # NoProc /\ Supervises(lease)   -> "active"
    [] OTHER                                 -> "idle"

Lifecycle == INSTANCE VmLifecycle WITH
  phase <- Phase, revision <- profile, runs <- lastRun

\* The locks, the crashes and the half-finished commands together implement the
\* lifecycle the documentation describes.
ImplementsLifecycle == Lifecycle!Spec

-----------------------------------------------------------------------------
(* Properties *)

\* The comment in start_using: a supervisor's lease pins the entry.  While it is
\* held, state.json names the supervisor's own run and the record stays, so no
\* update_run is ever refused; and while no command is inside the guard a held
\* lease is a supervisor's, so request_stop asks the right run and never finds
\* one that "is still initializing".
LeaseNamesItsRun ==
  lease # NoProc =>
    /\ guard = NoProc => op[lease] \in Supervising
    /\ op[lease] \in Supervising => state.id = run[lease] /\ Known

\* ManagedChild drops before drop(lease): a live runtime whose supervisor did
\* not disappear belongs to the holder of the lease, and one that joined the
\* job never outlives its supervisor.  Two supervisors never own two runtimes.
RuntimeIsLeased ==
  \A r \in Runs :
    Live(r) /\ (r \notin lost \/ kid[r] = "attached") =>
       lease # NoProc /\ run[lease] = r /\ Supervises(lease)

\* "The last run retains the revision it actually used": while a run is
\* supervised, profile.json still holds the revision recorded for it.
RunKeepsItsRevision ==
  \A p \in Proc : op[p] \in Supervising => state.rev = profile

\* "Stop requests target a run identifier": only a run that some request
\* named leaves its loop as stopped, whatever stop.json an older run left.
StopHitsItsRun ==
  \A p \in Proc : out[p] = "stopped" => run[p] \in asked

\* stop returns success only once the runtime it asked to end is gone (or its
\* supervisor died and left the runtime outside a job).
StopReportsTheEnd ==
  \A r \in ended : ~Live(r) \/ (r \in lost /\ kid[r] = "spawned")

\* "a stale running record is then reported as interrupted", and only then:
\* an inactive entry reported as interrupted lost its supervisor or its save.
InterruptedMeansLost ==
  (guard = NoProc /\ Known /\ StatusUnlocked = "interrupted") => state.id \in lost

\* A new registration starts without history: profile.json never appears next
\* to a state.json or stop.json left behind by a half-finished unregister.
FreshRegistration ==
  [][profile = 0 /\ profile' > 0 => state = NoState /\ stop = NoRun]_vars

\* A request to stop a supervised run ends that supervision: the supervisor
\* polls stop.json in every iteration and no lock it needs can block it.
StopTakesEffect ==
  \A p \in Proc :
    (lease = p /\ Supervises(p) /\ stop = run[p]) ~> (lease # p)
=============================================================================
