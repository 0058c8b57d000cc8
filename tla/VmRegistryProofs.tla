-------------------------- MODULE VmRegistryProofs --------------------------
(***************************************************************************)
(* Proofs about VmRegistry: an inductive invariant, the safety invariants  *)
(* it implies, and the refinement of VmLifecycle.                          *)
(***************************************************************************)
EXTENDS VmRegistry, TLAPS

\* the guard is held exactly inside the guarded locations
GuardInv == \A p \in Proc : (at[p] \in Guarded) <=> (guard = p)

\* which operations each location belongs to
PlaceInv ==
  \A p \in Proc :
    /\ at[p] = "idle" => op[p] = "none"
    /\ at[p] \in {"guard", "in"} => op[p] \in Commands \cup Events \cup {"poll"}
    /\ at[p] = "write" => op[p] \in {"register", "update", "stop", "start"}
    /\ at[p] \in Removing => op[p] = "unregister"
    /\ at[p] \in Running => op[p] = "run"

\* the lease is held exactly by the supervisor, or by an update in progress
LeaseInv ==
  \A p \in Proc : (Supervises(p) \/ At(p, "write", "update")) <=> (lease = p)

\* run ids are handed out once
RunInv ==
  /\ \A p \in Proc :
       Supervises(p) \/ op[p] = "poll" \/ At(p, "write", "stop") => run[p] \in 1 .. lastRun
  /\ \A r \in Runs : r > lastRun => kid[r] = "none" /\ r \notin lost \cup asked \cup ended

\* what the files say while the guard or the lease is held
DiskInv ==
  /\ ~dir => profile = 0 /\ state = NoState /\ stop = NoRun
  /\ \A p \in Proc :
       /\ at[p] = "write" => dir
       /\ At(p, "write", "register") => profile = 0 /\ state = NoState /\ stop = NoRun
       /\ At(p, "write", "update") => Known /\ profile < MaxRevision
       /\ Supervises(p) => Known
       /\ op[p] \in Supervising => state.id = run[p] /\ state.rev = profile
       /\ at[p] \in Removing => dir /\ lease = NoProc
       /\ at[p] \in {"rm_state", "rm_stop", "rm_dir"} => profile = 0
       /\ at[p] \in {"rm_stop", "rm_dir"} => state = NoState
       /\ at[p] = "rm_dir" => stop = NoRun

\* a runtime lives between Spawn and KillRuntime of its supervisor, or is an orphan
KidInv ==
  /\ \A p \in Proc :
       /\ Supervises(p) /\ at[p] \in {"write", "plan", "spawn"} => kid[run[p]] = "none"
       /\ op[p] = "final" \/ at[p] = "release" => ~Live(run[p])
       /\ Supervises(p) /\ at[p] # "release" => run[p] \notin lost
  /\ \A r \in Runs :
       Live(r) => \/ r \in lost /\ kid[r] = "spawned"
                  \/ lease # NoProc /\ op[lease] \in Supervising /\ run[lease] = r

\* a stop request is on record before anybody can act on it
StopInv ==
  /\ stop # NoRun => stop \in asked
  /\ \A p \in Proc : out[p] = "stopped" => run[p] \in asked /\ op[p] \in Supervising

\* what a successful stop command has established stays established
EndedInv ==
  \A r \in ended :
    /\ \A p \in Proc : Supervises(p) => run[p] # r
    /\ Live(r) => r \in lost /\ kid[r] = "spawned"

\* a record that still says starting or running belongs to the lease or was lost
SaveInv ==
  state.id # NoRun /\ state.st \in {"starting", "running"} =>
    \/ state.id \in lost
    \/ /\ lease # NoProc /\ op[lease] \in Supervising
       /\ run[lease] = state.id /\ at[lease] # "release"

IInv ==
  /\ TypeOK /\ GuardInv /\ PlaceInv /\ LeaseInv /\ RunInv
  /\ DiskInv /\ KidInv /\ StopInv /\ EndedInv /\ SaveInv

\* what RunInv says of a process whose run id is in use
LEMMA RunOfSupervisor ==
  ASSUME IInv, NEW p \in Proc, Supervises(p) \/ op[p] = "poll" \/ At(p, "write", "stop")
  PROVE  run[p] \in Runs /\ run[p] <= lastRun
BY ConstantsAssumption DEF IInv, TypeOK, OthersType, RunInv, Runs

-----------------------------------------------------------------------------
(* IInv is inductive: one lemma per conjunct, one case per action *)

\* the program counters and local values keep their types
LEMMA LocalsTypeStep == IInv /\ [Next]_vars => LocalsType'
<1> SUFFICES ASSUME IInv, [Next]_vars PROVE LocalsType'
  OBVIOUS
<1> USE ConstantsAssumption DEF IInv, TypeOK, LocalsType,        disk, locals,
       hist, vars, Runs, NoRun, VmState, RunState, NoState, Commands, Events,
       Ops, Removing, Guarded, Running, Places, Supervising, Supervises, Live,
       At, Known
<1>1. ASSUME NEW p \in Proc, Progress(p) PROVE LocalsType'
  <2>1. CASE AcquireGuard(p)  BY <2>1 DEF AcquireGuard, GoTo
  <2>2. CASE GuardTimeout(p)  BY <2>2 DEF GuardTimeout, Return
  <2>3. CASE UpdateTimeout(p)  BY <2>3 DEF UpdateTimeout, FailUpdate
  <2>4. CASE Refused(p)  BY <2>4 DEF Refused, Return, ReleaseGuard
  <2>5. CASE Register(p)  BY <2>5 DEF Register, GoTo
  <2>6. CASE RegisterWrite(p)  BY <2>6 DEF RegisterWrite, Return, ReleaseGuard
  <2>7. CASE Update(p)  BY <2>7 DEF Update, MayUpdate, Active, GoTo
  <2>8. CASE UpdateWrite(p)  BY <2>8 DEF UpdateWrite, Return, ReleaseGuard
  <2>9. CASE Unregister(p)  BY <2>9 DEF Unregister, MayUnregister, Active, GoTo
  <2>10. CASE RemoveProfile(p)  BY <2>10 DEF RemoveProfile, GoTo
  <2>11. CASE RemoveState(p)  BY <2>11 DEF RemoveState, GoTo
  <2>12. CASE RemoveStop(p)  BY <2>12 DEF RemoveStop, GoTo
  <2>13. CASE RemoveDir(p)  BY <2>13 DEF RemoveDir, Return, ReleaseGuard
  <2>14. CASE Status(p)  BY <2>14 DEF Status, Return, ReleaseGuard
  <2>15. CASE RequestStop(p)
    <3>1. state.id \in 0 .. MaxRuns
      BY DEF FilesType
    <3> QED BY <2>15, <3>1 DEF RequestStop
  <2>16. CASE RequestStopWrite(p)  BY <2>16 DEF RequestStopWrite, ReleaseGuard, GoToOp, Active
  <2>17. CASE RequestStopLate(p)  BY <2>17 DEF RequestStopLate, ReleaseGuard, Return, Active
  <2>18. CASE StopReturns(p)  BY <2>18 DEF StopReturns, Return, ReleaseGuard, Active
  <2>19. CASE StopPollsAgain(p)  BY <2>19 DEF StopPollsAgain, GoTo, ReleaseGuard, Active
  <2>20. CASE Start(p)
    <3>1. lastRun + 1 \in 0 .. MaxRuns
      BY <2>20 DEF Start, MayStart, OthersType
    <3> QED BY <2>20, <3>1 DEF Start
  <2>21. CASE StartWrite(p)  BY <2>21 DEF StartWrite, ReleaseGuard, GoToOp
  <2>22. CASE Plan(p)  BY <2>22 DEF Plan, GoTo
  <2>23. CASE Spawn(p)  BY <2>23 DEF Spawn
  <2>24. CASE AttachJob(p)  BY <2>24 DEF AttachJob, GoToOp
  <2>25. CASE UpdateRun(p)  BY <2>25 DEF UpdateRun, ReleaseGuard, GoToOp
  <2>26. CASE StopSeen(p)  BY <2>26 DEF StopSeen, StopMatches, Leave
  <2>27. CASE KillRuntime(p)  BY <2>27 DEF KillRuntime
  <2>28. CASE FinalSave(p)  BY <2>28 DEF FinalSave, ReleaseGuard, GoToOp
  <2>29. CASE DropLease(p)  BY <2>29 DEF DropLease, Return
    <2> QED BY <1>1, <2>1, <2>2, <2>3, <2>4, <2>5, <2>6, <2>7, <2>8, <2>9,
            <2>10, <2>11, <2>12, <2>13, <2>14, <2>15, <2>16, <2>17, <2>18,
            <2>19, <2>20, <2>21, <2>22, <2>23, <2>24, <2>25, <2>26, <2>27,
            <2>28, <2>29 DEF Progress
<1>2. ASSUME NEW p \in Proc, Environment(p) PROVE LocalsType'
  <2>0. ASSUME NEW c \in Commands, Invoke(p, c) PROVE LocalsType'  BY <2>0 DEF Invoke, GoToOp
  <2>1. CASE LaunchFails(p)  BY <2>1 DEF LaunchFails, Leave
  <2>2. CASE MarkerSeen(p)  BY <2>2 DEF MarkerSeen
  <2>3. CASE LoopEnds(p)
    <3>1. PICK o \in {"ok", "bad", "error"}, m \in BOOLEAN : Leave(p, o, m)
      BY <2>3 DEF LoopEnds
    <3> QED BY <2>3, <3>1 DEF LoopEnds, Leave
  <2>4. CASE StopWaitExpires(p)  BY <2>4 DEF StopWaitExpires, Return, ReleaseGuard, Active
  <2>5. CASE RegisterFail(p)  BY <2>5 DEF RegisterFail, Return, ReleaseGuard
  <2>6. CASE ClockFails(p)  BY <2>6 DEF ClockFails, FailUpdate
  <2>7. CASE IoError(p)  BY <2>7 DEF IoError, Return, ReleaseGuard
  <2>8. CASE UpdateIoError(p)  BY <2>8 DEF UpdateIoError, FailUpdate, ReleaseGuard
  <2>9. CASE Crash(p)  BY <2>9 DEF Crash, Return
  <2> QED BY <1>2, <2>0, <2>1, <2>2, <2>3, <2>4, <2>5, <2>6, <2>7, <2>8, <2>9 DEF Environment
<1>3. ASSUME NEW r \in Runs, RuntimeExits(r) PROVE LocalsType'  BY <1>3 DEF RuntimeExits
<1>4. CASE UNCHANGED vars  BY <1>4
<1> QED BY <1>1, <1>2, <1>3, <1>4 DEF Next

\* the files keep their types: a saved state holds a run id and a positive revision
LEMMA FilesTypeStep == IInv /\ [Next]_vars => FilesType'
<1> SUFFICES ASSUME IInv, [Next]_vars PROVE FilesType'
  OBVIOUS
<1> USE ConstantsAssumption DEF IInv, TypeOK, FilesType,        disk, locals,
       hist, vars, Runs, NoRun, VmState, RunState, NoState, Commands, Events,
       Ops, Removing, Guarded, Running, Places, Supervising, Supervises, Live,
       At, Known
<1>1. ASSUME NEW p \in Proc, Progress(p) PROVE FilesType'
  <2>1. CASE AcquireGuard(p)  BY <2>1 DEF AcquireGuard, GoTo
  <2>2. CASE GuardTimeout(p)  BY <2>2 DEF GuardTimeout, Return
  <2>3. CASE UpdateTimeout(p)  BY <2>3 DEF UpdateTimeout, FailUpdate
  <2>4. CASE Refused(p)  BY <2>4 DEF Refused, Return, ReleaseGuard
  <2>5. CASE Register(p)  BY <2>5 DEF Register, GoTo
  <2>6. CASE RegisterWrite(p)  BY <2>6 DEF RegisterWrite, Return, ReleaseGuard
  <2>7. CASE Update(p)  BY <2>7 DEF Update, MayUpdate, Active, GoTo, LocalsType, OthersType, PlaceInv, RunInv, DiskInv
  <2>8. CASE UpdateWrite(p)  BY <2>8 DEF UpdateWrite, Return, ReleaseGuard, LocalsType, OthersType, PlaceInv, RunInv, DiskInv
  <2>9. CASE Unregister(p)  BY <2>9 DEF Unregister, MayUnregister, Active, GoTo
  <2>10. CASE RemoveProfile(p)  BY <2>10 DEF RemoveProfile, GoTo
  <2>11. CASE RemoveState(p)  BY <2>11 DEF RemoveState, GoTo
  <2>12. CASE RemoveStop(p)  BY <2>12 DEF RemoveStop, GoTo
  <2>13. CASE RemoveDir(p)  BY <2>13 DEF RemoveDir, Return, ReleaseGuard
  <2>14. CASE Status(p)  BY <2>14 DEF Status, Return, ReleaseGuard
  <2>15. CASE RequestStop(p)  BY <2>15 DEF RequestStop, MayStop, Active
  <2>16. CASE RequestStopWrite(p)
    <3>1. run[p] \in Runs
      BY <2>16, RunOfSupervisor DEF RequestStopWrite, PlaceInv, LocalsType
    <3> QED BY <2>16, <3>1 DEF RequestStopWrite, ReleaseGuard, GoToOp, Active
  <2>17. CASE RequestStopLate(p)
    <3>1. run[p] \in Runs
      BY <2>17, RunOfSupervisor DEF RequestStopLate, PlaceInv, LocalsType
    <3> QED BY <2>17, <3>1 DEF RequestStopLate, ReleaseGuard, Return, Active
  <2>18. CASE StopReturns(p)  BY <2>18 DEF StopReturns, Return, ReleaseGuard, Active
  <2>19. CASE StopPollsAgain(p)  BY <2>19 DEF StopPollsAgain, GoTo, ReleaseGuard, Active
  <2>20. CASE Start(p)  BY <2>20 DEF Start, MayStart, Active
  <2>21. CASE StartWrite(p)
    <3>1. run[p] \in Runs
      BY <2>21, RunOfSupervisor DEF StartWrite, PlaceInv, LocalsType
    <3> QED BY <2>21, <3>1 DEF StartWrite, ReleaseGuard, GoToOp, LocalsType, OthersType, PlaceInv, RunInv, DiskInv
  <2>22. CASE Plan(p)  BY <2>22 DEF Plan, GoTo
  <2>23. CASE Spawn(p)  BY <2>23 DEF Spawn
  <2>24. CASE AttachJob(p)  BY <2>24 DEF AttachJob, GoToOp
  <2>25. CASE UpdateRun(p)
    <3>1. state \in RunState
      BY <2>25, RunOfSupervisor DEF UpdateRun
    <3>2. state' \in RunState
      BY <2>25, <3>1 DEF UpdateRun
    <3> QED BY <2>25, <3>2 DEF UpdateRun
  <2>26. CASE StopSeen(p)  BY <2>26 DEF StopSeen, StopMatches, Leave
  <2>27. CASE KillRuntime(p)  BY <2>27 DEF KillRuntime
  <2>28. CASE FinalSave(p)
    <3>1. state \in RunState /\ run[p] \in Runs
      BY <2>28, RunOfSupervisor DEF FinalSave
    <3>2. state'.st \in VmState /\ state'.boot \in BOOLEAN /\ state'.id = state.id /\ state'.rev = state.rev
      BY <3>1, <2>28 DEF FinalSave, LocalsType
    <3> QED BY <2>28, <3>1, <3>2 DEF FinalSave
  <2>29. CASE DropLease(p)  BY <2>29 DEF DropLease, Return
    <2> QED BY <1>1, <2>1, <2>2, <2>3, <2>4, <2>5, <2>6, <2>7, <2>8, <2>9,
            <2>10, <2>11, <2>12, <2>13, <2>14, <2>15, <2>16, <2>17, <2>18,
            <2>19, <2>20, <2>21, <2>22, <2>23, <2>24, <2>25, <2>26, <2>27,
            <2>28, <2>29 DEF Progress
<1>2. ASSUME NEW p \in Proc, Environment(p) PROVE FilesType'
  <2>0. ASSUME NEW c \in Commands, Invoke(p, c) PROVE FilesType'  BY <2>0 DEF Invoke, GoToOp
  <2>1. CASE LaunchFails(p)  BY <2>1 DEF LaunchFails, Leave
  <2>2. CASE MarkerSeen(p)  BY <2>2 DEF MarkerSeen
  <2>3. CASE LoopEnds(p)
    <3>1. PICK o \in {"ok", "bad", "error"}, m \in BOOLEAN : Leave(p, o, m)
      BY <2>3 DEF LoopEnds
    <3> QED BY <2>3, <3>1 DEF LoopEnds, Leave
  <2>4. CASE StopWaitExpires(p)  BY <2>4 DEF StopWaitExpires, Return, ReleaseGuard, Active
  <2>5. CASE RegisterFail(p)  BY <2>5 DEF RegisterFail, Return, ReleaseGuard
  <2>6. CASE ClockFails(p)  BY <2>6 DEF ClockFails, FailUpdate
  <2>7. CASE IoError(p)  BY <2>7 DEF IoError, Return, ReleaseGuard
  <2>8. CASE UpdateIoError(p)  BY <2>8 DEF UpdateIoError, FailUpdate, ReleaseGuard
  <2>9. CASE Crash(p)  BY <2>9 DEF Crash, Return
  <2> QED BY <1>2, <2>0, <2>1, <2>2, <2>3, <2>4, <2>5, <2>6, <2>7, <2>8, <2>9 DEF Environment
<1>3. ASSUME NEW r \in Runs, RuntimeExits(r) PROVE FilesType'  BY <1>3 DEF RuntimeExits
<1>4. CASE UNCHANGED vars  BY <1>4
<1> QED BY <1>1, <1>2, <1>3, <1>4 DEF Next

\* the locks, the runtimes and the histories keep their types
LEMMA OthersTypeStep == IInv /\ [Next]_vars => OthersType'
<1> SUFFICES ASSUME IInv, [Next]_vars PROVE OthersType'
  OBVIOUS
<1> USE ConstantsAssumption DEF IInv, TypeOK, OthersType,        disk, locals,
       hist, vars, Runs, NoRun, VmState, RunState, NoState, Commands, Events,
       Ops, Removing, Guarded, Running, Places, Supervising, Supervises, Live,
       At, Known
<1>1. ASSUME NEW p \in Proc, Progress(p) PROVE OthersType'
  <2>1. CASE AcquireGuard(p)  BY <2>1 DEF AcquireGuard, GoTo
  <2>2. CASE GuardTimeout(p)  BY <2>2 DEF GuardTimeout, Return
  <2>3. CASE UpdateTimeout(p)
    <3>1. op[p] = "final" => run[p] \in Runs
      BY <2>3, RunOfSupervisor DEF UpdateTimeout, PlaceInv, LocalsType
    <3> QED BY <2>3, <3>1 DEF UpdateTimeout, FailUpdate
  <2>4. CASE Refused(p)  BY <2>4 DEF Refused, Return, ReleaseGuard
  <2>5. CASE Register(p)  BY <2>5 DEF Register, GoTo
  <2>6. CASE RegisterWrite(p)  BY <2>6 DEF RegisterWrite, Return, ReleaseGuard
  <2>7. CASE Update(p)  BY <2>7 DEF Update, MayUpdate, Active, GoTo
  <2>8. CASE UpdateWrite(p)  BY <2>8 DEF UpdateWrite, Return, ReleaseGuard
  <2>9. CASE Unregister(p)  BY <2>9 DEF Unregister, MayUnregister, Active, GoTo
  <2>10. CASE RemoveProfile(p)  BY <2>10 DEF RemoveProfile, GoTo
  <2>11. CASE RemoveState(p)  BY <2>11 DEF RemoveState, GoTo
  <2>12. CASE RemoveStop(p)  BY <2>12 DEF RemoveStop, GoTo
  <2>13. CASE RemoveDir(p)  BY <2>13 DEF RemoveDir, Return, ReleaseGuard
  <2>14. CASE Status(p)  BY <2>14 DEF Status, Return, ReleaseGuard
  <2>15. CASE RequestStop(p)  BY <2>15 DEF RequestStop, MayStop, Active
  <2>16. CASE RequestStopWrite(p)
    <3>1. run[p] \in Runs
      BY <2>16, RunOfSupervisor DEF RequestStopWrite, PlaceInv, LocalsType
    <3> QED BY <2>16, <3>1 DEF RequestStopWrite, ReleaseGuard, GoToOp, Active
  <2>17. CASE RequestStopLate(p)
    <3>1. run[p] \in Runs
      BY <2>17, RunOfSupervisor DEF RequestStopLate, PlaceInv, LocalsType
    <3> QED BY <2>17, <3>1 DEF RequestStopLate, ReleaseGuard, Return, Active
  <2>18. CASE StopReturns(p)
    <3>1. run[p] \in Runs
      BY <2>18, RunOfSupervisor DEF StopReturns, PlaceInv, LocalsType
    <3> QED BY <2>18, <3>1 DEF StopReturns, Return, ReleaseGuard, Active
  <2>19. CASE StopPollsAgain(p)  BY <2>19 DEF StopPollsAgain, GoTo, ReleaseGuard, Active
  <2>20. CASE Start(p)  BY <2>20 DEF Start, MayStart, Active
  <2>21. CASE StartWrite(p)  BY <2>21 DEF StartWrite, ReleaseGuard, GoToOp
  <2>22. CASE Plan(p)  BY <2>22 DEF Plan, GoTo
  <2>23. CASE Spawn(p)  BY <2>23 DEF Spawn
  <2>24. CASE AttachJob(p)  BY <2>24 DEF AttachJob, GoToOp
  <2>25. CASE UpdateRun(p)  BY <2>25 DEF UpdateRun, ReleaseGuard, GoToOp
  <2>26. CASE StopSeen(p)  BY <2>26 DEF StopSeen, StopMatches, Leave
  <2>27. CASE KillRuntime(p)
    <3>1. run[p] \in Runs
      BY <2>27, RunOfSupervisor DEF KillRuntime, PlaceInv, LocalsType
    <3> QED BY <2>27, <3>1 DEF KillRuntime
  <2>28. CASE FinalSave(p)  BY <2>28 DEF FinalSave, ReleaseGuard, GoToOp
  <2>29. CASE DropLease(p)  BY <2>29 DEF DropLease, Return
    <2> QED BY <1>1, <2>1, <2>2, <2>3, <2>4, <2>5, <2>6, <2>7, <2>8, <2>9,
            <2>10, <2>11, <2>12, <2>13, <2>14, <2>15, <2>16, <2>17, <2>18,
            <2>19, <2>20, <2>21, <2>22, <2>23, <2>24, <2>25, <2>26, <2>27,
            <2>28, <2>29 DEF Progress
<1>2. ASSUME NEW p \in Proc, Environment(p) PROVE OthersType'
  <2>0. ASSUME NEW c \in Commands, Invoke(p, c) PROVE OthersType'  BY <2>0 DEF Invoke, GoToOp
  <2>1. CASE LaunchFails(p)  BY <2>1 DEF LaunchFails, Leave
  <2>2. CASE MarkerSeen(p)  BY <2>2 DEF MarkerSeen
  <2>3. CASE LoopEnds(p)
    <3>1. PICK o \in {"ok", "bad", "error"}, m \in BOOLEAN : Leave(p, o, m)
      BY <2>3 DEF LoopEnds
    <3> QED BY <2>3, <3>1 DEF LoopEnds, Leave
  <2>4. CASE StopWaitExpires(p)  BY <2>4 DEF StopWaitExpires, Return, ReleaseGuard, Active
  <2>5. CASE RegisterFail(p)  BY <2>5 DEF RegisterFail, Return, ReleaseGuard
  <2>6. CASE ClockFails(p)
    <3>1. op[p] = "final" => run[p] \in Runs
      BY <2>6, RunOfSupervisor DEF ClockFails, PlaceInv, LocalsType
    <3> QED BY <2>6, <3>1 DEF ClockFails, FailUpdate
  <2>7. CASE IoError(p)  BY <2>7 DEF IoError, Return, ReleaseGuard
  <2>8. CASE UpdateIoError(p)
    <3>1. op[p] = "final" => run[p] \in Runs
      BY <2>8, RunOfSupervisor DEF UpdateIoError, PlaceInv, LocalsType
    <3> QED BY <2>8, <3>1 DEF UpdateIoError, FailUpdate, ReleaseGuard
  <2>9. CASE Crash(p)
    <3>1. Supervises(p) => run[p] \in Runs
      BY <2>9, RunOfSupervisor DEF Crash, PlaceInv, LocalsType
    <3> QED BY <2>9, <3>1 DEF Crash, Return
  <2> QED BY <1>2, <2>0, <2>1, <2>2, <2>3, <2>4, <2>5, <2>6, <2>7, <2>8, <2>9 DEF Environment
<1>3. ASSUME NEW r \in Runs, RuntimeExits(r) PROVE OthersType'  BY <1>3 DEF RuntimeExits
<1>4. CASE UNCHANGED vars  BY <1>4
<1> QED BY <1>1, <1>2, <1>3, <1>4 DEF Next

\* the registry guard: entered only when free, left by every way out
LEMMA GuardInvStep == IInv /\ [Next]_vars => GuardInv'
<1> SUFFICES ASSUME IInv, [Next]_vars PROVE GuardInv'
  OBVIOUS
<1> USE ConstantsAssumption DEF IInv, TypeOK, LocalsType, FilesType,
       OthersType, GuardInv,        disk, locals, hist, vars, Runs, NoRun,
       VmState, RunState, NoState, Commands, Events, Ops, Removing, Guarded,
       Running, Places, Supervising, Supervises, Live, At, Known
<1>1. ASSUME NEW p \in Proc, Progress(p) PROVE GuardInv'
  <2>1. CASE AcquireGuard(p)  BY <2>1 DEF AcquireGuard, GoTo
  <2>2. CASE GuardTimeout(p)  BY <2>2 DEF GuardTimeout, Return
  <2>3. CASE UpdateTimeout(p)  BY <2>3 DEF UpdateTimeout, FailUpdate
  <2>4. CASE Refused(p)  BY <2>4 DEF Refused, Return, ReleaseGuard
  <2>5. CASE Register(p)  BY <2>5 DEF Register, GoTo
  <2>6. CASE RegisterWrite(p)  BY <2>6 DEF RegisterWrite, Return, ReleaseGuard
  <2>7. CASE Update(p)  BY <2>7 DEF Update, MayUpdate, Active, GoTo
  <2>8. CASE UpdateWrite(p)  BY <2>8 DEF UpdateWrite, Return, ReleaseGuard
  <2>9. CASE Unregister(p)  BY <2>9 DEF Unregister, MayUnregister, Active, GoTo
  <2>10. CASE RemoveProfile(p)  BY <2>10 DEF RemoveProfile, GoTo
  <2>11. CASE RemoveState(p)  BY <2>11 DEF RemoveState, GoTo
  <2>12. CASE RemoveStop(p)  BY <2>12 DEF RemoveStop, GoTo
  <2>13. CASE RemoveDir(p)  BY <2>13 DEF RemoveDir, Return, ReleaseGuard
  <2>14. CASE Status(p)  BY <2>14 DEF Status, Return, ReleaseGuard
  <2>15. CASE RequestStop(p)  BY <2>15 DEF RequestStop, MayStop, Active
  <2>16. CASE RequestStopWrite(p)  BY <2>16 DEF RequestStopWrite, ReleaseGuard, GoToOp, Active
  <2>17. CASE RequestStopLate(p)  BY <2>17 DEF RequestStopLate, ReleaseGuard, Return, Active
  <2>18. CASE StopReturns(p)  BY <2>18 DEF StopReturns, Return, ReleaseGuard, Active
  <2>19. CASE StopPollsAgain(p)  BY <2>19 DEF StopPollsAgain, GoTo, ReleaseGuard, Active
  <2>20. CASE Start(p)  BY <2>20 DEF Start, MayStart, Active
  <2>21. CASE StartWrite(p)  BY <2>21 DEF StartWrite, ReleaseGuard, GoToOp
  <2>22. CASE Plan(p)  BY <2>22 DEF Plan, GoTo
  <2>23. CASE Spawn(p)  BY <2>23 DEF Spawn
  <2>24. CASE AttachJob(p)  BY <2>24 DEF AttachJob, GoToOp
  <2>25. CASE UpdateRun(p)  BY <2>25 DEF UpdateRun, ReleaseGuard, GoToOp
  <2>26. CASE StopSeen(p)  BY <2>26 DEF StopSeen, StopMatches, Leave
  <2>27. CASE KillRuntime(p)  BY <2>27 DEF KillRuntime
  <2>28. CASE FinalSave(p)  BY <2>28 DEF FinalSave, ReleaseGuard, GoToOp
  <2>29. CASE DropLease(p)  BY <2>29 DEF DropLease, Return
    <2> QED BY <1>1, <2>1, <2>2, <2>3, <2>4, <2>5, <2>6, <2>7, <2>8, <2>9,
            <2>10, <2>11, <2>12, <2>13, <2>14, <2>15, <2>16, <2>17, <2>18,
            <2>19, <2>20, <2>21, <2>22, <2>23, <2>24, <2>25, <2>26, <2>27,
            <2>28, <2>29 DEF Progress
<1>2. ASSUME NEW p \in Proc, Environment(p) PROVE GuardInv'
  <2>0. ASSUME NEW c \in Commands, Invoke(p, c) PROVE GuardInv'  BY <2>0 DEF Invoke, GoToOp
  <2>1. CASE LaunchFails(p)  BY <2>1 DEF LaunchFails, Leave
  <2>2. CASE MarkerSeen(p)  BY <2>2 DEF MarkerSeen
  <2>3. CASE LoopEnds(p)
    <3>1. PICK o \in {"ok", "bad", "error"}, m \in BOOLEAN : Leave(p, o, m)
      BY <2>3 DEF LoopEnds
    <3> QED BY <2>3, <3>1 DEF LoopEnds, Leave
  <2>4. CASE StopWaitExpires(p)  BY <2>4 DEF StopWaitExpires, Return, ReleaseGuard, Active
  <2>5. CASE RegisterFail(p)  BY <2>5 DEF RegisterFail, Return, ReleaseGuard
  <2>6. CASE ClockFails(p)  BY <2>6 DEF ClockFails, FailUpdate
  <2>7. CASE IoError(p)  BY <2>7 DEF IoError, Return, ReleaseGuard
  <2>8. CASE UpdateIoError(p)  BY <2>8 DEF UpdateIoError, FailUpdate, ReleaseGuard
  <2>9. CASE Crash(p)  BY <2>9 DEF Crash, Return
  <2> QED BY <1>2, <2>0, <2>1, <2>2, <2>3, <2>4, <2>5, <2>6, <2>7, <2>8, <2>9 DEF Environment
<1>3. ASSUME NEW r \in Runs, RuntimeExits(r) PROVE GuardInv'  BY <1>3 DEF RuntimeExits
<1>4. CASE UNCHANGED vars  BY <1>4
<1> QED BY <1>1, <1>2, <1>3, <1>4 DEF Next

\* no command is ever at a location of another command
LEMMA PlaceInvStep == IInv /\ [Next]_vars => PlaceInv'
<1> SUFFICES ASSUME IInv, [Next]_vars PROVE PlaceInv'
  OBVIOUS
<1> USE ConstantsAssumption DEF IInv, TypeOK, LocalsType, FilesType,
       OthersType, PlaceInv,        disk, locals, hist, vars, Runs, NoRun,
       VmState, RunState, NoState, Commands, Events, Ops, Removing, Guarded,
       Running, Places, Supervising, Supervises, Live, At, Known
<1>1. ASSUME NEW p \in Proc, Progress(p) PROVE PlaceInv'
  <2>1. CASE AcquireGuard(p)  BY <2>1 DEF AcquireGuard, GoTo
  <2>2. CASE GuardTimeout(p)  BY <2>2 DEF GuardTimeout, Return
  <2>3. CASE UpdateTimeout(p)  BY <2>3 DEF UpdateTimeout, FailUpdate
  <2>4. CASE Refused(p)  BY <2>4 DEF Refused, Return, ReleaseGuard
  <2>5. CASE Register(p)  BY <2>5 DEF Register, GoTo
  <2>6. CASE RegisterWrite(p)  BY <2>6 DEF RegisterWrite, Return, ReleaseGuard
  <2>7. CASE Update(p)  BY <2>7 DEF Update, MayUpdate, Active, GoTo
  <2>8. CASE UpdateWrite(p)  BY <2>8 DEF UpdateWrite, Return, ReleaseGuard
  <2>9. CASE Unregister(p)  BY <2>9 DEF Unregister, MayUnregister, Active, GoTo
  <2>10. CASE RemoveProfile(p)  BY <2>10 DEF RemoveProfile, GoTo
  <2>11. CASE RemoveState(p)  BY <2>11 DEF RemoveState, GoTo
  <2>12. CASE RemoveStop(p)  BY <2>12 DEF RemoveStop, GoTo
  <2>13. CASE RemoveDir(p)  BY <2>13 DEF RemoveDir, Return, ReleaseGuard
  <2>14. CASE Status(p)  BY <2>14 DEF Status, Return, ReleaseGuard
  <2>15. CASE RequestStop(p)  BY <2>15 DEF RequestStop, MayStop, Active
  <2>16. CASE RequestStopWrite(p)  BY <2>16 DEF RequestStopWrite, ReleaseGuard, GoToOp, Active
  <2>17. CASE RequestStopLate(p)  BY <2>17 DEF RequestStopLate, ReleaseGuard, Return, Active
  <2>18. CASE StopReturns(p)  BY <2>18 DEF StopReturns, Return, ReleaseGuard, Active
  <2>19. CASE StopPollsAgain(p)  BY <2>19 DEF StopPollsAgain, GoTo, ReleaseGuard, Active
  <2>20. CASE Start(p)  BY <2>20 DEF Start, MayStart, Active
  <2>21. CASE StartWrite(p)  BY <2>21 DEF StartWrite, ReleaseGuard, GoToOp
  <2>22. CASE Plan(p)  BY <2>22 DEF Plan, GoTo
  <2>23. CASE Spawn(p)  BY <2>23 DEF Spawn
  <2>24. CASE AttachJob(p)  BY <2>24 DEF AttachJob, GoToOp
  <2>25. CASE UpdateRun(p)  BY <2>25 DEF UpdateRun, ReleaseGuard, GoToOp
  <2>26. CASE StopSeen(p)  BY <2>26 DEF StopSeen, StopMatches, Leave
  <2>27. CASE KillRuntime(p)  BY <2>27 DEF KillRuntime
  <2>28. CASE FinalSave(p)  BY <2>28 DEF FinalSave, ReleaseGuard, GoToOp
  <2>29. CASE DropLease(p)  BY <2>29 DEF DropLease, Return
    <2> QED BY <1>1, <2>1, <2>2, <2>3, <2>4, <2>5, <2>6, <2>7, <2>8, <2>9,
            <2>10, <2>11, <2>12, <2>13, <2>14, <2>15, <2>16, <2>17, <2>18,
            <2>19, <2>20, <2>21, <2>22, <2>23, <2>24, <2>25, <2>26, <2>27,
            <2>28, <2>29 DEF Progress
<1>2. ASSUME NEW p \in Proc, Environment(p) PROVE PlaceInv'
  <2>0. ASSUME NEW c \in Commands, Invoke(p, c) PROVE PlaceInv'  BY <2>0 DEF Invoke, GoToOp
  <2>1. CASE LaunchFails(p)  BY <2>1 DEF LaunchFails, Leave
  <2>2. CASE MarkerSeen(p)  BY <2>2 DEF MarkerSeen
  <2>3. CASE LoopEnds(p)
    <3>1. PICK o \in {"ok", "bad", "error"}, m \in BOOLEAN : Leave(p, o, m)
      BY <2>3 DEF LoopEnds
    <3> QED BY <2>3, <3>1 DEF LoopEnds, Leave
  <2>4. CASE StopWaitExpires(p)  BY <2>4 DEF StopWaitExpires, Return, ReleaseGuard, Active
  <2>5. CASE RegisterFail(p)  BY <2>5 DEF RegisterFail, Return, ReleaseGuard
  <2>6. CASE ClockFails(p)  BY <2>6 DEF ClockFails, FailUpdate
  <2>7. CASE IoError(p)  BY <2>7 DEF IoError, Return, ReleaseGuard
  <2>8. CASE UpdateIoError(p)  BY <2>8 DEF UpdateIoError, FailUpdate, ReleaseGuard
  <2>9. CASE Crash(p)  BY <2>9 DEF Crash, Return
  <2> QED BY <1>2, <2>0, <2>1, <2>2, <2>3, <2>4, <2>5, <2>6, <2>7, <2>8, <2>9 DEF Environment
<1>3. ASSUME NEW r \in Runs, RuntimeExits(r) PROVE PlaceInv'  BY <1>3 DEF RuntimeExits
<1>4. CASE UNCHANGED vars  BY <1>4
<1> QED BY <1>1, <1>2, <1>3, <1>4 DEF Next

\* the run lease is taken, kept and dropped by the right commands
LEMMA LeaseInvStep == IInv /\ [Next]_vars => LeaseInv'
<1> SUFFICES ASSUME IInv, [Next]_vars PROVE LeaseInv'
  OBVIOUS
<1> USE ConstantsAssumption DEF IInv, TypeOK, LocalsType, FilesType,
       OthersType, PlaceInv, LeaseInv,        disk, locals, hist, vars, Runs,
       NoRun, VmState, RunState, NoState, Commands, Events, Ops, Removing,
       Guarded, Running, Places, Supervising, Supervises, Live, At, Known
<1>1. ASSUME NEW p \in Proc, Progress(p) PROVE LeaseInv'
  <2>1. CASE AcquireGuard(p)  BY <2>1 DEF AcquireGuard, GoTo
  <2>2. CASE GuardTimeout(p)
    <3>1. at[p] = "guard" /\ op[p] \notin Supervising
      BY <2>2 DEF GuardTimeout
    <3>2. lease # p
      BY <3>1
    <3>3. at' = [at EXCEPT ![p] = "idle"] /\ op' = [op EXCEPT ![p] = "none"] /\ lease' = lease
      BY <2>2 DEF GuardTimeout, Return
    <3> QED BY <3>2, <3>3
  <2>3. CASE UpdateTimeout(p)  BY <2>3 DEF UpdateTimeout, FailUpdate
  <2>4. CASE Refused(p)  BY <2>4 DEF Refused, Return, ReleaseGuard
  <2>5. CASE Register(p)  BY <2>5 DEF Register, GoTo
  <2>6. CASE RegisterWrite(p)  BY <2>6 DEF RegisterWrite, Return, ReleaseGuard
  <2>7. CASE Update(p)  BY <2>7 DEF Update, MayUpdate, Active, GoTo
  <2>8. CASE UpdateWrite(p)  BY <2>8 DEF UpdateWrite, Return, ReleaseGuard
  <2>9. CASE Unregister(p)  BY <2>9 DEF Unregister, MayUnregister, Active, GoTo
  <2>10. CASE RemoveProfile(p)  BY <2>10 DEF RemoveProfile, GoTo
  <2>11. CASE RemoveState(p)  BY <2>11 DEF RemoveState, GoTo
  <2>12. CASE RemoveStop(p)  BY <2>12 DEF RemoveStop, GoTo
  <2>13. CASE RemoveDir(p)  BY <2>13 DEF RemoveDir, Return, ReleaseGuard
  <2>14. CASE Status(p)  BY <2>14 DEF Status, Return, ReleaseGuard
  <2>15. CASE RequestStop(p)  BY <2>15 DEF RequestStop, MayStop, Active
  <2>16. CASE RequestStopWrite(p)  BY <2>16 DEF RequestStopWrite, ReleaseGuard, GoToOp, Active
  <2>17. CASE RequestStopLate(p)  BY <2>17 DEF RequestStopLate, ReleaseGuard, Return, Active
  <2>18. CASE StopReturns(p)  BY <2>18 DEF StopReturns, Return, ReleaseGuard, Active
  <2>19. CASE StopPollsAgain(p)  BY <2>19 DEF StopPollsAgain, GoTo, ReleaseGuard, Active
  <2>20. CASE Start(p)  BY <2>20 DEF Start, MayStart, Active
  <2>21. CASE StartWrite(p)  BY <2>21 DEF StartWrite, ReleaseGuard, GoToOp
  <2>22. CASE Plan(p)  BY <2>22 DEF Plan, GoTo
  <2>23. CASE Spawn(p)  BY <2>23 DEF Spawn
  <2>24. CASE AttachJob(p)  BY <2>24 DEF AttachJob, GoToOp
  <2>25. CASE UpdateRun(p)  BY <2>25 DEF UpdateRun, ReleaseGuard, GoToOp
  <2>26. CASE StopSeen(p)  BY <2>26 DEF StopSeen, StopMatches, Leave
  <2>27. CASE KillRuntime(p)  BY <2>27 DEF KillRuntime
  <2>28. CASE FinalSave(p)  BY <2>28 DEF FinalSave, ReleaseGuard, GoToOp
  <2>29. CASE DropLease(p)  BY <2>29 DEF DropLease, Return
    <2> QED BY <1>1, <2>1, <2>2, <2>3, <2>4, <2>5, <2>6, <2>7, <2>8, <2>9,
            <2>10, <2>11, <2>12, <2>13, <2>14, <2>15, <2>16, <2>17, <2>18,
            <2>19, <2>20, <2>21, <2>22, <2>23, <2>24, <2>25, <2>26, <2>27,
            <2>28, <2>29 DEF Progress
<1>2. ASSUME NEW p \in Proc, Environment(p) PROVE LeaseInv'
  <2>0. ASSUME NEW c \in Commands, Invoke(p, c) PROVE LeaseInv'  BY <2>0 DEF Invoke, GoToOp
  <2>1. CASE LaunchFails(p)  BY <2>1 DEF LaunchFails, Leave
  <2>2. CASE MarkerSeen(p)  BY <2>2 DEF MarkerSeen
  <2>3. CASE LoopEnds(p)
    <3>1. PICK o \in {"ok", "bad", "error"}, m \in BOOLEAN : Leave(p, o, m)
      BY <2>3 DEF LoopEnds
    <3> QED BY <2>3, <3>1 DEF LoopEnds, Leave
  <2>4. CASE StopWaitExpires(p)  BY <2>4 DEF StopWaitExpires, Return, ReleaseGuard, Active
  <2>5. CASE RegisterFail(p)  BY <2>5 DEF RegisterFail, Return, ReleaseGuard
  <2>6. CASE ClockFails(p)  BY <2>6 DEF ClockFails, FailUpdate
  <2>7. CASE IoError(p)  BY <2>7 DEF IoError, Return, ReleaseGuard
  <2>8. CASE UpdateIoError(p)  BY <2>8 DEF UpdateIoError, FailUpdate, ReleaseGuard
  <2>9. CASE Crash(p)  BY <2>9 DEF Crash, Return
  <2> QED BY <1>2, <2>0, <2>1, <2>2, <2>3, <2>4, <2>5, <2>6, <2>7, <2>8, <2>9 DEF Environment
<1>3. ASSUME NEW r \in Runs, RuntimeExits(r) PROVE LeaseInv'  BY <1>3 DEF RuntimeExits
<1>4. CASE UNCHANGED vars  BY <1>4
<1> QED BY <1>1, <1>2, <1>3, <1>4 DEF Next

\* run ids are fresh: Start is the only source of one
LEMMA RunInvStep == IInv /\ [Next]_vars => RunInv'
<1> SUFFICES ASSUME IInv, [Next]_vars PROVE RunInv'
  OBVIOUS
<1> USE ConstantsAssumption DEF IInv, TypeOK, LocalsType, FilesType,
       OthersType, PlaceInv, LeaseInv, DiskInv, RunInv,        disk, locals,
       hist, vars, Runs, NoRun, VmState, RunState, NoState, Commands, Events,
       Ops, Removing, Guarded, Running, Places, Supervising, Supervises, Live,
       At, Known
<1>1. ASSUME NEW p \in Proc, Progress(p) PROVE RunInv'
  <2>1. CASE AcquireGuard(p)  BY <2>1 DEF AcquireGuard, GoTo
  <2>2. CASE GuardTimeout(p)  BY <2>2 DEF GuardTimeout, Return
  <2>3. CASE UpdateTimeout(p)  BY <2>3 DEF UpdateTimeout, FailUpdate
  <2>4. CASE Refused(p)  BY <2>4 DEF Refused, Return, ReleaseGuard
  <2>5. CASE Register(p)  BY <2>5 DEF Register, GoTo
  <2>6. CASE RegisterWrite(p)  BY <2>6 DEF RegisterWrite, Return, ReleaseGuard
  <2>7. CASE Update(p)  BY <2>7 DEF Update, MayUpdate, Active, GoTo
  <2>8. CASE UpdateWrite(p)  BY <2>8 DEF UpdateWrite, Return, ReleaseGuard
  <2>9. CASE Unregister(p)  BY <2>9 DEF Unregister, MayUnregister, Active, GoTo
  <2>10. CASE RemoveProfile(p)  BY <2>10 DEF RemoveProfile, GoTo
  <2>11. CASE RemoveState(p)  BY <2>11 DEF RemoveState, GoTo
  <2>12. CASE RemoveStop(p)  BY <2>12 DEF RemoveStop, GoTo
  <2>13. CASE RemoveDir(p)  BY <2>13 DEF RemoveDir, Return, ReleaseGuard
  <2>14. CASE Status(p)  BY <2>14 DEF Status, Return, ReleaseGuard
  <2>15. CASE RequestStop(p)
    <3>1. op[lease] \in Supervising /\ lease \in Proc
      BY <2>15 DEF RequestStop, MayStop, Active, GuardInv
    <3>2. state.id \in 1 .. lastRun
      BY <3>1
    <3> QED BY <2>15, <3>2 DEF RequestStop
  <2>16. CASE RequestStopWrite(p)  BY <2>16 DEF RequestStopWrite, ReleaseGuard, GoToOp, Active
  <2>17. CASE RequestStopLate(p)  BY <2>17 DEF RequestStopLate, ReleaseGuard, Return, Active
  <2>18. CASE StopReturns(p)  BY <2>18 DEF StopReturns, Return, ReleaseGuard, Active
  <2>19. CASE StopPollsAgain(p)  BY <2>19 DEF StopPollsAgain, GoTo, ReleaseGuard, Active
  <2>20. CASE Start(p)  BY <2>20 DEF Start, MayStart, Active
  <2>21. CASE StartWrite(p)  BY <2>21 DEF StartWrite, ReleaseGuard, GoToOp
  <2>22. CASE Plan(p)  BY <2>22 DEF Plan, GoTo
  <2>23. CASE Spawn(p)  BY <2>23 DEF Spawn
  <2>24. CASE AttachJob(p)  BY <2>24 DEF AttachJob, GoToOp
  <2>25. CASE UpdateRun(p)  BY <2>25 DEF UpdateRun, ReleaseGuard, GoToOp
  <2>26. CASE StopSeen(p)  BY <2>26 DEF StopSeen, StopMatches, Leave
  <2>27. CASE KillRuntime(p)  BY <2>27 DEF KillRuntime
  <2>28. CASE FinalSave(p)  BY <2>28 DEF FinalSave, ReleaseGuard, GoToOp
  <2>29. CASE DropLease(p)  BY <2>29 DEF DropLease, Return
    <2> QED BY <1>1, <2>1, <2>2, <2>3, <2>4, <2>5, <2>6, <2>7, <2>8, <2>9,
            <2>10, <2>11, <2>12, <2>13, <2>14, <2>15, <2>16, <2>17, <2>18,
            <2>19, <2>20, <2>21, <2>22, <2>23, <2>24, <2>25, <2>26, <2>27,
            <2>28, <2>29 DEF Progress
<1>2. ASSUME NEW p \in Proc, Environment(p) PROVE RunInv'
  <2>0. ASSUME NEW c \in Commands, Invoke(p, c) PROVE RunInv'  BY <2>0 DEF Invoke, GoToOp
  <2>1. CASE LaunchFails(p)  BY <2>1 DEF LaunchFails, Leave
  <2>2. CASE MarkerSeen(p)  BY <2>2 DEF MarkerSeen
  <2>3. CASE LoopEnds(p)
    <3>1. PICK o \in {"ok", "bad", "error"}, m \in BOOLEAN : Leave(p, o, m)
      BY <2>3 DEF LoopEnds
    <3> QED BY <2>3, <3>1 DEF LoopEnds, Leave
  <2>4. CASE StopWaitExpires(p)  BY <2>4 DEF StopWaitExpires, Return, ReleaseGuard, Active
  <2>5. CASE RegisterFail(p)  BY <2>5 DEF RegisterFail, Return, ReleaseGuard
  <2>6. CASE ClockFails(p)  BY <2>6 DEF ClockFails, FailUpdate
  <2>7. CASE IoError(p)  BY <2>7 DEF IoError, Return, ReleaseGuard
  <2>8. CASE UpdateIoError(p)  BY <2>8 DEF UpdateIoError, FailUpdate, ReleaseGuard
  <2>9. CASE Crash(p)  BY <2>9 DEF Crash, Return
  <2> QED BY <1>2, <2>0, <2>1, <2>2, <2>3, <2>4, <2>5, <2>6, <2>7, <2>8, <2>9 DEF Environment
<1>3. ASSUME NEW r \in Runs, RuntimeExits(r) PROVE RunInv'  BY <1>3 DEF RuntimeExits
<1>4. CASE UNCHANGED vars  BY <1>4
<1> QED BY <1>1, <1>2, <1>3, <1>4 DEF Next

\* the files under the guard and the lease
LEMMA DiskInvStep == IInv /\ [Next]_vars => DiskInv'
<1> SUFFICES ASSUME IInv, [Next]_vars PROVE DiskInv'
  OBVIOUS
<1> USE ConstantsAssumption DEF IInv, TypeOK, LocalsType, FilesType,
       OthersType, GuardInv, PlaceInv, LeaseInv, DiskInv, RunInv,        disk,
       locals, hist, vars, Runs, NoRun, VmState, RunState, NoState, Commands,
       Events, Ops, Removing, Guarded, Running, Places, Supervising,
       Supervises, Live, At, Known
<1>1. ASSUME NEW p \in Proc, Progress(p) PROVE DiskInv'
  <2>1. CASE AcquireGuard(p)  BY <2>1 DEF AcquireGuard, GoTo
  <2>2. CASE GuardTimeout(p)  BY <2>2 DEF GuardTimeout, Return
  <2>3. CASE UpdateTimeout(p)  BY <2>3 DEF UpdateTimeout, FailUpdate
  <2>4. CASE Refused(p)  BY <2>4 DEF Refused, Return, ReleaseGuard
  <2>5. CASE Register(p)  BY <2>5 DEF Register, GoTo
  <2>6. CASE RegisterWrite(p)  BY <2>6 DEF RegisterWrite, Return, ReleaseGuard
  <2>7. CASE Update(p)  BY <2>7 DEF Update, MayUpdate, Active, GoTo
  <2>8. CASE UpdateWrite(p)  BY <2>8 DEF UpdateWrite, Return, ReleaseGuard
  <2>9. CASE Unregister(p)  BY <2>9 DEF Unregister, MayUnregister, Active, GoTo
  <2>10. CASE RemoveProfile(p)  BY <2>10 DEF RemoveProfile, GoTo
  <2>11. CASE RemoveState(p)  BY <2>11 DEF RemoveState, GoTo
  <2>12. CASE RemoveStop(p)  BY <2>12 DEF RemoveStop, GoTo
  <2>13. CASE RemoveDir(p)  BY <2>13 DEF RemoveDir, Return, ReleaseGuard
  <2>14. CASE Status(p)  BY <2>14 DEF Status, Return, ReleaseGuard
  <2>15. CASE RequestStop(p)  BY <2>15 DEF RequestStop, MayStop, Active
  <2>16. CASE RequestStopWrite(p)  BY <2>16 DEF RequestStopWrite, ReleaseGuard, GoToOp, Active
  <2>17. CASE RequestStopLate(p)  BY <2>17 DEF RequestStopLate, ReleaseGuard, Return, Active
  <2>18. CASE StopReturns(p)  BY <2>18 DEF StopReturns, Return, ReleaseGuard, Active
  <2>19. CASE StopPollsAgain(p)  BY <2>19 DEF StopPollsAgain, GoTo, ReleaseGuard, Active
  <2>20. CASE Start(p)  BY <2>20 DEF Start, MayStart, Active
  <2>21. CASE StartWrite(p)  BY <2>21 DEF StartWrite, ReleaseGuard, GoToOp
  <2>22. CASE Plan(p)  BY <2>22 DEF Plan, GoTo
  <2>23. CASE Spawn(p)  BY <2>23 DEF Spawn
  <2>24. CASE AttachJob(p)  BY <2>24 DEF AttachJob, GoToOp
  <2>25. CASE UpdateRun(p)  BY <2>25 DEF UpdateRun, ReleaseGuard, GoToOp
  <2>26. CASE StopSeen(p)  BY <2>26 DEF StopSeen, StopMatches, Leave
  <2>27. CASE KillRuntime(p)  BY <2>27 DEF KillRuntime
  <2>28. CASE FinalSave(p)  BY <2>28 DEF FinalSave, ReleaseGuard, GoToOp
  <2>29. CASE DropLease(p)  BY <2>29 DEF DropLease, Return
    <2> QED BY <1>1, <2>1, <2>2, <2>3, <2>4, <2>5, <2>6, <2>7, <2>8, <2>9,
            <2>10, <2>11, <2>12, <2>13, <2>14, <2>15, <2>16, <2>17, <2>18,
            <2>19, <2>20, <2>21, <2>22, <2>23, <2>24, <2>25, <2>26, <2>27,
            <2>28, <2>29 DEF Progress
<1>2. ASSUME NEW p \in Proc, Environment(p) PROVE DiskInv'
  <2>0. ASSUME NEW c \in Commands, Invoke(p, c) PROVE DiskInv'  BY <2>0 DEF Invoke, GoToOp
  <2>1. CASE LaunchFails(p)  BY <2>1 DEF LaunchFails, Leave
  <2>2. CASE MarkerSeen(p)  BY <2>2 DEF MarkerSeen
  <2>3. CASE LoopEnds(p)
    <3>1. PICK o \in {"ok", "bad", "error"}, m \in BOOLEAN : Leave(p, o, m)
      BY <2>3 DEF LoopEnds
    <3> QED BY <2>3, <3>1 DEF LoopEnds, Leave
  <2>4. CASE StopWaitExpires(p)  BY <2>4 DEF StopWaitExpires, Return, ReleaseGuard, Active
  <2>5. CASE RegisterFail(p)  BY <2>5 DEF RegisterFail, Return, ReleaseGuard
  <2>6. CASE ClockFails(p)  BY <2>6 DEF ClockFails, FailUpdate
  <2>7. CASE IoError(p)  BY <2>7 DEF IoError, Return, ReleaseGuard
  <2>8. CASE UpdateIoError(p)  BY <2>8 DEF UpdateIoError, FailUpdate, ReleaseGuard
  <2>9. CASE Crash(p)  BY <2>9 DEF Crash, Return
  <2> QED BY <1>2, <2>0, <2>1, <2>2, <2>3, <2>4, <2>5, <2>6, <2>7, <2>8, <2>9 DEF Environment
<1>3. ASSUME NEW r \in Runs, RuntimeExits(r) PROVE DiskInv'  BY <1>3 DEF RuntimeExits
<1>4. CASE UNCHANGED vars  BY <1>4
<1> QED BY <1>1, <1>2, <1>3, <1>4 DEF Next

\* runtimes under the lease
LEMMA KidInvStep == IInv /\ [Next]_vars => KidInv'
<1> SUFFICES ASSUME IInv, [Next]_vars PROVE KidInv'
  OBVIOUS
<1> USE ConstantsAssumption DEF IInv, TypeOK, LocalsType, FilesType,
       OthersType, PlaceInv, LeaseInv, RunInv, KidInv,        disk, locals,
       hist, vars, Runs, NoRun, VmState, RunState, NoState, Commands, Events,
       Ops, Removing, Guarded, Running, Places, Supervising, Supervises, Live,
       At, Known
<1>1. ASSUME NEW p \in Proc, Progress(p) PROVE KidInv'
  <2>1. CASE AcquireGuard(p)  BY <2>1 DEF AcquireGuard, GoTo
  <2>2. CASE GuardTimeout(p)
    <3>1. ~Supervises(p) /\ lease # p
      BY <2>2 DEF GuardTimeout
    <3> QED BY <2>2, <3>1 DEF GuardTimeout, Return
  <2>3. CASE UpdateTimeout(p)  BY <2>3 DEF UpdateTimeout, FailUpdate
  <2>4. CASE Refused(p)  BY <2>4 DEF Refused, Return, ReleaseGuard
  <2>5. CASE Register(p)  BY <2>5 DEF Register, GoTo
  <2>6. CASE RegisterWrite(p)  BY <2>6 DEF RegisterWrite, Return, ReleaseGuard
  <2>7. CASE Update(p)  BY <2>7 DEF Update, MayUpdate, Active, GoTo
  <2>8. CASE UpdateWrite(p)
    <3>1. ~Supervises(p) /\ lease = p
      BY <2>8 DEF UpdateWrite
    <3> QED BY <2>8, <3>1 DEF UpdateWrite, Return, ReleaseGuard
  <2>9. CASE Unregister(p)  BY <2>9 DEF Unregister, MayUnregister, Active, GoTo
  <2>10. CASE RemoveProfile(p)  BY <2>10 DEF RemoveProfile, GoTo
  <2>11. CASE RemoveState(p)  BY <2>11 DEF RemoveState, GoTo
  <2>12. CASE RemoveStop(p)  BY <2>12 DEF RemoveStop, GoTo
  <2>13. CASE RemoveDir(p)  BY <2>13 DEF RemoveDir, Return, ReleaseGuard
  <2>14. CASE Status(p)  BY <2>14 DEF Status, Return, ReleaseGuard
  <2>15. CASE RequestStop(p)  BY <2>15 DEF RequestStop, MayStop, Active
  <2>16. CASE RequestStopWrite(p)  BY <2>16 DEF RequestStopWrite, ReleaseGuard, GoToOp, Active
  <2>17. CASE RequestStopLate(p)  BY <2>17 DEF RequestStopLate, ReleaseGuard, Return, Active
  <2>18. CASE StopReturns(p)  BY <2>18 DEF StopReturns, Return, ReleaseGuard, Active
  <2>19. CASE StopPollsAgain(p)  BY <2>19 DEF StopPollsAgain, GoTo, ReleaseGuard, Active
  <2>20. CASE Start(p)  BY <2>20 DEF Start, MayStart, Active
  <2>21. CASE StartWrite(p)  BY <2>21 DEF StartWrite, ReleaseGuard, GoToOp
  <2>22. CASE Plan(p)  BY <2>22 DEF Plan, GoTo
  <2>23. CASE Spawn(p)  BY <2>23 DEF Spawn
  <2>24. CASE AttachJob(p)  BY <2>24 DEF AttachJob, GoToOp
  <2>25. CASE UpdateRun(p)  BY <2>25 DEF UpdateRun, ReleaseGuard, GoToOp
  <2>26. CASE StopSeen(p)  BY <2>26 DEF StopSeen, StopMatches, Leave
  <2>27. CASE KillRuntime(p)  BY <2>27 DEF KillRuntime
  <2>28. CASE FinalSave(p)  BY <2>28 DEF FinalSave, ReleaseGuard, GoToOp
  <2>29. CASE DropLease(p)  BY <2>29 DEF DropLease, Return
    <2> QED BY <1>1, <2>1, <2>2, <2>3, <2>4, <2>5, <2>6, <2>7, <2>8, <2>9,
            <2>10, <2>11, <2>12, <2>13, <2>14, <2>15, <2>16, <2>17, <2>18,
            <2>19, <2>20, <2>21, <2>22, <2>23, <2>24, <2>25, <2>26, <2>27,
            <2>28, <2>29 DEF Progress
<1>2. ASSUME NEW p \in Proc, Environment(p) PROVE KidInv'
  <2>0. ASSUME NEW c \in Commands, Invoke(p, c) PROVE KidInv'  BY <2>0 DEF Invoke, GoToOp
  <2>1. CASE LaunchFails(p)  BY <2>1 DEF LaunchFails, Leave
  <2>2. CASE MarkerSeen(p)  BY <2>2 DEF MarkerSeen
  <2>3. CASE LoopEnds(p)
    <3>1. PICK o \in {"ok", "bad", "error"}, m \in BOOLEAN : Leave(p, o, m)
      BY <2>3 DEF LoopEnds
    <3> QED BY <2>3, <3>1 DEF LoopEnds, Leave
  <2>4. CASE StopWaitExpires(p)  BY <2>4 DEF StopWaitExpires, Return, ReleaseGuard, Active
  <2>5. CASE RegisterFail(p)  BY <2>5 DEF RegisterFail, Return, ReleaseGuard
  <2>6. CASE ClockFails(p)  BY <2>6 DEF ClockFails, FailUpdate
  <2>7. CASE IoError(p)
    <3>1. op[p] \notin Supervising
      BY <2>7 DEF IoError
    <3>2. Supervises(p) => ~Live(run[p]) /\ run[p] \in Runs
      BY <2>7, <3>1, RunOfSupervisor DEF KidInv
    <3>3. \A q \in Proc : q # p => at'[q] = at[q] /\ op'[q] = op[q] /\ run'[q] = run[q]
      BY <2>7 DEF IoError, Return
    <3>4. at'[p] = "idle" /\ op'[p] = "none"
      BY <2>7 DEF IoError, Return
    <3>5. lease' = (IF lease = p THEN NoProc ELSE lease) /\ state' = state /\ kid' = kid /\ lost' = lost /\ lastRun' = lastRun
      BY <2>7 DEF IoError
    <3> HIDE <2>7
    <3> QED BY <3>1, <3>2, <3>3, <3>4, <3>5
  <2>8. CASE UpdateIoError(p)  BY <2>8 DEF UpdateIoError, FailUpdate, ReleaseGuard
  <2>9. CASE Crash(p)  BY <2>9 DEF Crash, Return
  <2> QED BY <1>2, <2>0, <2>1, <2>2, <2>3, <2>4, <2>5, <2>6, <2>7, <2>8, <2>9 DEF Environment
<1>3. ASSUME NEW r \in Runs, RuntimeExits(r) PROVE KidInv'  BY <1>3 DEF RuntimeExits
<1>4. CASE UNCHANGED vars  BY <1>4
<1> QED BY <1>1, <1>2, <1>3, <1>4 DEF Next

\* stop requests precede their effects
LEMMA StopInvStep == IInv /\ [Next]_vars => StopInv'
<1> SUFFICES ASSUME IInv, [Next]_vars PROVE StopInv'
  OBVIOUS
<1> USE ConstantsAssumption DEF IInv, TypeOK, LocalsType, FilesType,
       OthersType, PlaceInv, LeaseInv, RunInv, StopInv,        disk, locals,
       hist, vars, Runs, NoRun, VmState, RunState, NoState, Commands, Events,
       Ops, Removing, Guarded, Running, Places, Supervising, Supervises, Live,
       At, Known
<1>1. ASSUME NEW p \in Proc, Progress(p) PROVE StopInv'
  <2>1. CASE AcquireGuard(p)  BY <2>1 DEF AcquireGuard, GoTo
  <2>2. CASE GuardTimeout(p)  BY <2>2 DEF GuardTimeout, Return
  <2>3. CASE UpdateTimeout(p)  BY <2>3 DEF UpdateTimeout, FailUpdate
  <2>4. CASE Refused(p)  BY <2>4 DEF Refused, Return, ReleaseGuard
  <2>5. CASE Register(p)  BY <2>5 DEF Register, GoTo
  <2>6. CASE RegisterWrite(p)  BY <2>6 DEF RegisterWrite, Return, ReleaseGuard
  <2>7. CASE Update(p)  BY <2>7 DEF Update, MayUpdate, Active, GoTo
  <2>8. CASE UpdateWrite(p)  BY <2>8 DEF UpdateWrite, Return, ReleaseGuard
  <2>9. CASE Unregister(p)  BY <2>9 DEF Unregister, MayUnregister, Active, GoTo
  <2>10. CASE RemoveProfile(p)  BY <2>10 DEF RemoveProfile, GoTo
  <2>11. CASE RemoveState(p)  BY <2>11 DEF RemoveState, GoTo
  <2>12. CASE RemoveStop(p)  BY <2>12 DEF RemoveStop, GoTo
  <2>13. CASE RemoveDir(p)  BY <2>13 DEF RemoveDir, Return, ReleaseGuard
  <2>14. CASE Status(p)  BY <2>14 DEF Status, Return, ReleaseGuard
  <2>15. CASE RequestStop(p)  BY <2>15 DEF RequestStop, MayStop, Active
  <2>16. CASE RequestStopWrite(p)  BY <2>16 DEF RequestStopWrite, ReleaseGuard, GoToOp, Active
  <2>17. CASE RequestStopLate(p)  BY <2>17 DEF RequestStopLate, ReleaseGuard, Return, Active
  <2>18. CASE StopReturns(p)  BY <2>18 DEF StopReturns, Return, ReleaseGuard, Active
  <2>19. CASE StopPollsAgain(p)  BY <2>19 DEF StopPollsAgain, GoTo, ReleaseGuard, Active
  <2>20. CASE Start(p)  BY <2>20 DEF Start, MayStart, Active
  <2>21. CASE StartWrite(p)  BY <2>21 DEF StartWrite, ReleaseGuard, GoToOp
  <2>22. CASE Plan(p)  BY <2>22 DEF Plan, GoTo
  <2>23. CASE Spawn(p)  BY <2>23 DEF Spawn
  <2>24. CASE AttachJob(p)  BY <2>24 DEF AttachJob, GoToOp
  <2>25. CASE UpdateRun(p)  BY <2>25 DEF UpdateRun, ReleaseGuard, GoToOp
  <2>26. CASE StopSeen(p)  BY <2>26 DEF StopSeen, StopMatches, Leave
  <2>27. CASE KillRuntime(p)  BY <2>27 DEF KillRuntime
  <2>28. CASE FinalSave(p)  BY <2>28 DEF FinalSave, ReleaseGuard, GoToOp
  <2>29. CASE DropLease(p)  BY <2>29 DEF DropLease, Return
    <2> QED BY <1>1, <2>1, <2>2, <2>3, <2>4, <2>5, <2>6, <2>7, <2>8, <2>9,
            <2>10, <2>11, <2>12, <2>13, <2>14, <2>15, <2>16, <2>17, <2>18,
            <2>19, <2>20, <2>21, <2>22, <2>23, <2>24, <2>25, <2>26, <2>27,
            <2>28, <2>29 DEF Progress
<1>2. ASSUME NEW p \in Proc, Environment(p) PROVE StopInv'
  <2>0. ASSUME NEW c \in Commands, Invoke(p, c) PROVE StopInv'  BY <2>0 DEF Invoke, GoToOp
  <2>1. CASE LaunchFails(p)  BY <2>1 DEF LaunchFails, Leave
  <2>2. CASE MarkerSeen(p)  BY <2>2 DEF MarkerSeen
  <2>3. CASE LoopEnds(p)
    <3>1. PICK o \in {"ok", "bad", "error"}, m \in BOOLEAN : Leave(p, o, m)
      BY <2>3 DEF LoopEnds
    <3> QED BY <2>3, <3>1 DEF LoopEnds, Leave
  <2>4. CASE StopWaitExpires(p)  BY <2>4 DEF StopWaitExpires, Return, ReleaseGuard, Active
  <2>5. CASE RegisterFail(p)  BY <2>5 DEF RegisterFail, Return, ReleaseGuard
  <2>6. CASE ClockFails(p)  BY <2>6 DEF ClockFails, FailUpdate
  <2>7. CASE IoError(p)  BY <2>7 DEF IoError, Return, ReleaseGuard
  <2>8. CASE UpdateIoError(p)  BY <2>8 DEF UpdateIoError, FailUpdate, ReleaseGuard
  <2>9. CASE Crash(p)  BY <2>9 DEF Crash, Return
  <2> QED BY <1>2, <2>0, <2>1, <2>2, <2>3, <2>4, <2>5, <2>6, <2>7, <2>8, <2>9 DEF Environment
<1>3. ASSUME NEW r \in Runs, RuntimeExits(r) PROVE StopInv'  BY <1>3 DEF RuntimeExits
<1>4. CASE UNCHANGED vars  BY <1>4
<1> QED BY <1>1, <1>2, <1>3, <1>4 DEF Next

\* a finished stop is final: the run id is never supervised again
LEMMA EndedInvStep == IInv /\ [Next]_vars => EndedInv'
<1> SUFFICES ASSUME IInv, [Next]_vars PROVE EndedInv'
  OBVIOUS
<1> USE ConstantsAssumption DEF IInv, TypeOK, LocalsType, FilesType,
       OthersType, PlaceInv, LeaseInv, RunInv, KidInv, EndedInv,        disk,
       locals, hist, vars, Runs, NoRun, VmState, RunState, NoState, Commands,
       Events, Ops, Removing, Guarded, Running, Places, Supervising,
       Supervises, Live, At, Known
<1>1. ASSUME NEW p \in Proc, Progress(p) PROVE EndedInv'
  <2>1. CASE AcquireGuard(p)  BY <2>1 DEF AcquireGuard, GoTo
  <2>2. CASE GuardTimeout(p)  BY <2>2 DEF GuardTimeout, Return
  <2>3. CASE UpdateTimeout(p)  BY <2>3 DEF UpdateTimeout, FailUpdate
  <2>4. CASE Refused(p)  BY <2>4 DEF Refused, Return, ReleaseGuard
  <2>5. CASE Register(p)  BY <2>5 DEF Register, GoTo
  <2>6. CASE RegisterWrite(p)  BY <2>6 DEF RegisterWrite, Return, ReleaseGuard
  <2>7. CASE Update(p)  BY <2>7 DEF Update, MayUpdate, Active, GoTo
  <2>8. CASE UpdateWrite(p)  BY <2>8 DEF UpdateWrite, Return, ReleaseGuard
  <2>9. CASE Unregister(p)  BY <2>9 DEF Unregister, MayUnregister, Active, GoTo
  <2>10. CASE RemoveProfile(p)  BY <2>10 DEF RemoveProfile, GoTo
  <2>11. CASE RemoveState(p)  BY <2>11 DEF RemoveState, GoTo
  <2>12. CASE RemoveStop(p)  BY <2>12 DEF RemoveStop, GoTo
  <2>13. CASE RemoveDir(p)  BY <2>13 DEF RemoveDir, Return, ReleaseGuard
  <2>14. CASE Status(p)  BY <2>14 DEF Status, Return, ReleaseGuard
  <2>15. CASE RequestStop(p)  BY <2>15 DEF RequestStop, MayStop, Active
  <2>16. CASE RequestStopWrite(p)  BY <2>16 DEF RequestStopWrite, ReleaseGuard, GoToOp, Active
  <2>17. CASE RequestStopLate(p)
    <3>1. \A q \in Proc : (Supervises(q)' => Supervises(q)) /\ (Supervises(q)' => run'[q] = run[q])
      BY <2>17 DEF RequestStopLate, Return
    <3>2. ended' = ended \cup {run[p]} /\ lease = NoProc
      BY <2>17 DEF RequestStopLate, Active
    <3>3. \A q \in Proc : ~Supervises(q)
      BY <3>2
    <3>4. run[p] \in Runs
      BY <2>17, RunOfSupervisor DEF RequestStopLate
    <3>5. kid' = kid /\ lost' = lost
      BY <2>17 DEF RequestStopLate
    <3>6. Live(run[p]) => run[p] \in lost /\ kid[run[p]] = "spawned"
      BY <3>2, <3>4
    <3> HIDE <2>17 DEF Supervises
    <3> QED BY <3>1, <3>2, <3>3, <3>5, <3>6
  <2>18. CASE StopReturns(p)  BY <2>18 DEF StopReturns, Return, ReleaseGuard, Active
  <2>19. CASE StopPollsAgain(p)  BY <2>19 DEF StopPollsAgain, GoTo, ReleaseGuard, Active
  <2>20. CASE Start(p)  BY <2>20 DEF Start, MayStart, Active
  <2>21. CASE StartWrite(p)  BY <2>21 DEF StartWrite, ReleaseGuard, GoToOp
  <2>22. CASE Plan(p)  BY <2>22 DEF Plan, GoTo
  <2>23. CASE Spawn(p)
    <3>1. \A q \in Proc : (Supervises(q)' => Supervises(q)) /\ (Supervises(q)' => run'[q] = run[q])
      BY <2>23 DEF Spawn
    <3>2. run[p] \notin ended
      BY <2>23 DEF Spawn
    <3>3. ended' = ended /\ lost' = lost /\ kid' = [kid EXCEPT ![run[p]] = "spawned"]
      BY <2>23 DEF Spawn
    <3> HIDE <2>23 DEF Supervises
    <3>4. \A r \in ended : kid'[r] = kid[r]
      BY <3>2, <3>3
    <3> QED BY <3>1, <3>3, <3>4
  <2>24. CASE AttachJob(p)
    <3>1. \A q \in Proc : (Supervises(q)' => Supervises(q)) /\ (Supervises(q)' => run'[q] = run[q])
      BY <2>24 DEF AttachJob, GoToOp
    <3>2. run[p] \notin ended
      BY <2>24 DEF AttachJob
    <3>3. ended' = ended /\ lost' = lost /\ (\E x : kid' = [kid EXCEPT ![run[p]] = x])
      BY <2>24 DEF AttachJob
    <3> HIDE <2>24 DEF Supervises
    <3>4. \A r \in ended : kid'[r] = kid[r]
      BY <3>2, <3>3
    <3> QED BY <3>1, <3>3, <3>4
  <2>25. CASE UpdateRun(p)  BY <2>25 DEF UpdateRun, ReleaseGuard, GoToOp
  <2>26. CASE StopSeen(p)  BY <2>26 DEF StopSeen, StopMatches, Leave
  <2>27. CASE KillRuntime(p)  BY <2>27 DEF KillRuntime
  <2>28. CASE FinalSave(p)  BY <2>28 DEF FinalSave, ReleaseGuard, GoToOp
  <2>29. CASE DropLease(p)  BY <2>29 DEF DropLease, Return
    <2> QED BY <1>1, <2>1, <2>2, <2>3, <2>4, <2>5, <2>6, <2>7, <2>8, <2>9,
            <2>10, <2>11, <2>12, <2>13, <2>14, <2>15, <2>16, <2>17, <2>18,
            <2>19, <2>20, <2>21, <2>22, <2>23, <2>24, <2>25, <2>26, <2>27,
            <2>28, <2>29 DEF Progress
<1>2. ASSUME NEW p \in Proc, Environment(p) PROVE EndedInv'
  <2>0. ASSUME NEW c \in Commands, Invoke(p, c) PROVE EndedInv'  BY <2>0 DEF Invoke, GoToOp
  <2>1. CASE LaunchFails(p)  BY <2>1 DEF LaunchFails, Leave
  <2>2. CASE MarkerSeen(p)  BY <2>2 DEF MarkerSeen
  <2>3. CASE LoopEnds(p)
    <3>1. PICK o \in {"ok", "bad", "error"}, m \in BOOLEAN : Leave(p, o, m)
      BY <2>3 DEF LoopEnds
    <3> QED BY <2>3, <3>1 DEF LoopEnds, Leave
  <2>4. CASE StopWaitExpires(p)  BY <2>4 DEF StopWaitExpires, Return, ReleaseGuard, Active
  <2>5. CASE RegisterFail(p)  BY <2>5 DEF RegisterFail, Return, ReleaseGuard
  <2>6. CASE ClockFails(p)  BY <2>6 DEF ClockFails, FailUpdate
  <2>7. CASE IoError(p)  BY <2>7 DEF IoError, Return, ReleaseGuard
  <2>8. CASE UpdateIoError(p)  BY <2>8 DEF UpdateIoError, FailUpdate, ReleaseGuard
  <2>9. CASE Crash(p)  BY <2>9 DEF Crash, Return
  <2> QED BY <1>2, <2>0, <2>1, <2>2, <2>3, <2>4, <2>5, <2>6, <2>7, <2>8, <2>9 DEF Environment
<1>3. ASSUME NEW r \in Runs, RuntimeExits(r) PROVE EndedInv'  BY <1>3 DEF RuntimeExits
<1>4. CASE UNCHANGED vars  BY <1>4
<1> QED BY <1>1, <1>2, <1>3, <1>4 DEF Next

\* every run ends with a save or is lost
LEMMA SaveInvStep == IInv /\ [Next]_vars => SaveInv'
<1> SUFFICES ASSUME IInv, [Next]_vars PROVE SaveInv'
  OBVIOUS
<1> USE ConstantsAssumption DEF IInv, TypeOK, LocalsType, FilesType,
       OthersType, PlaceInv, LeaseInv, DiskInv, KidInv, SaveInv, RunInv,
       disk, locals, hist, vars, Runs, NoRun, VmState, RunState, NoState,
       Commands, Events, Ops, Removing, Guarded, Running, Places, Supervising,
       Supervises, Live, At, Known
<1>1. ASSUME NEW p \in Proc, Progress(p) PROVE SaveInv'
  <2>1. CASE AcquireGuard(p)  BY <2>1 DEF AcquireGuard, GoTo
  <2>2. CASE GuardTimeout(p)
    <3>1. ~Supervises(p) /\ lease # p
      BY <2>2 DEF GuardTimeout
    <3> QED BY <2>2, <3>1 DEF GuardTimeout, Return
  <2>3. CASE UpdateTimeout(p)  BY <2>3 DEF UpdateTimeout, FailUpdate
  <2>4. CASE Refused(p)  BY <2>4 DEF Refused, Return, ReleaseGuard
  <2>5. CASE Register(p)  BY <2>5 DEF Register, GoTo
  <2>6. CASE RegisterWrite(p)  BY <2>6 DEF RegisterWrite, Return, ReleaseGuard
  <2>7. CASE Update(p)  BY <2>7 DEF Update, MayUpdate, Active, GoTo
  <2>8. CASE UpdateWrite(p)  BY <2>8 DEF UpdateWrite, Return, ReleaseGuard
  <2>9. CASE Unregister(p)  BY <2>9 DEF Unregister, MayUnregister, Active, GoTo
  <2>10. CASE RemoveProfile(p)  BY <2>10 DEF RemoveProfile, GoTo
  <2>11. CASE RemoveState(p)  BY <2>11 DEF RemoveState, GoTo
  <2>12. CASE RemoveStop(p)  BY <2>12 DEF RemoveStop, GoTo
  <2>13. CASE RemoveDir(p)  BY <2>13 DEF RemoveDir, Return, ReleaseGuard
  <2>14. CASE Status(p)  BY <2>14 DEF Status, Return, ReleaseGuard
  <2>15. CASE RequestStop(p)  BY <2>15 DEF RequestStop, MayStop, Active
  <2>16. CASE RequestStopWrite(p)  BY <2>16 DEF RequestStopWrite, ReleaseGuard, GoToOp, Active
  <2>17. CASE RequestStopLate(p)  BY <2>17 DEF RequestStopLate, ReleaseGuard, Return, Active
  <2>18. CASE StopReturns(p)  BY <2>18 DEF StopReturns, Return, ReleaseGuard, Active
  <2>19. CASE StopPollsAgain(p)  BY <2>19 DEF StopPollsAgain, GoTo, ReleaseGuard, Active
  <2>20. CASE Start(p)  BY <2>20 DEF Start, MayStart, Active
  <2>21. CASE StartWrite(p)  BY <2>21 DEF StartWrite, ReleaseGuard, GoToOp
  <2>22. CASE Plan(p)  BY <2>22 DEF Plan, GoTo
  <2>23. CASE Spawn(p)  BY <2>23 DEF Spawn
  <2>24. CASE AttachJob(p)  BY <2>24 DEF AttachJob, GoToOp
  <2>25. CASE UpdateRun(p)  BY <2>25 DEF UpdateRun, ReleaseGuard, GoToOp
  <2>26. CASE StopSeen(p)  BY <2>26 DEF StopSeen, StopMatches, Leave
  <2>27. CASE KillRuntime(p)  BY <2>27 DEF KillRuntime
  <2>28. CASE FinalSave(p)  BY <2>28 DEF FinalSave, ReleaseGuard, GoToOp
  <2>29. CASE DropLease(p)  BY <2>29 DEF DropLease, Return
    <2> QED BY <1>1, <2>1, <2>2, <2>3, <2>4, <2>5, <2>6, <2>7, <2>8, <2>9,
            <2>10, <2>11, <2>12, <2>13, <2>14, <2>15, <2>16, <2>17, <2>18,
            <2>19, <2>20, <2>21, <2>22, <2>23, <2>24, <2>25, <2>26, <2>27,
            <2>28, <2>29 DEF Progress
<1>2. ASSUME NEW p \in Proc, Environment(p) PROVE SaveInv'
  <2>0. ASSUME NEW c \in Commands, Invoke(p, c) PROVE SaveInv'  BY <2>0 DEF Invoke, GoToOp
  <2>1. CASE LaunchFails(p)  BY <2>1 DEF LaunchFails, Leave
  <2>2. CASE MarkerSeen(p)  BY <2>2 DEF MarkerSeen
  <2>3. CASE LoopEnds(p)
    <3>1. PICK o \in {"ok", "bad", "error"}, m \in BOOLEAN : Leave(p, o, m)
      BY <2>3 DEF LoopEnds
    <3> QED BY <2>3, <3>1 DEF LoopEnds, Leave
  <2>4. CASE StopWaitExpires(p)  BY <2>4 DEF StopWaitExpires, Return, ReleaseGuard, Active
  <2>5. CASE RegisterFail(p)  BY <2>5 DEF RegisterFail, Return, ReleaseGuard
  <2>6. CASE ClockFails(p)  BY <2>6 DEF ClockFails, FailUpdate
  <2>7. CASE IoError(p)
    <3>1. op[p] \notin Supervising
      BY <2>7 DEF IoError
    <3>2. Supervises(p) => ~Live(run[p]) /\ run[p] \in Runs
      BY <2>7, <3>1, RunOfSupervisor DEF KidInv
    <3>3. \A q \in Proc : q # p => at'[q] = at[q] /\ op'[q] = op[q] /\ run'[q] = run[q]
      BY <2>7 DEF IoError, Return
    <3>4. at'[p] = "idle" /\ op'[p] = "none"
      BY <2>7 DEF IoError, Return
    <3>5. lease' = (IF lease = p THEN NoProc ELSE lease) /\ state' = state /\ kid' = kid /\ lost' = lost /\ lastRun' = lastRun
      BY <2>7 DEF IoError
    <3> HIDE <2>7
    <3> QED BY <3>1, <3>2, <3>3, <3>4, <3>5
  <2>8. CASE UpdateIoError(p)  BY <2>8 DEF UpdateIoError, FailUpdate, ReleaseGuard
  <2>9. CASE Crash(p)  BY <2>9 DEF Crash, Return
  <2> QED BY <1>2, <2>0, <2>1, <2>2, <2>3, <2>4, <2>5, <2>6, <2>7, <2>8, <2>9 DEF Environment
<1>3. ASSUME NEW r \in Runs, RuntimeExits(r) PROVE SaveInv'  BY <1>3 DEF RuntimeExits
<1>4. CASE UNCHANGED vars  BY <1>4
<1> QED BY <1>1, <1>2, <1>3, <1>4 DEF Next

\* initial states satisfy the inductive invariant
LEMMA InitIInv == Init => IInv
<1> SUFFICES ASSUME Init PROVE IInv
  OBVIOUS
<1> USE ConstantsAssumption DEF Init, NoRun, Runs
<1>1. TypeOK
  <2>1. LocalsType
    BY DEF LocalsType, Places, Ops
  <2>2. FilesType
    <3>1. state \in RunState \cup {NoState}
      OBVIOUS
    <3>2. dir \in BOOLEAN /\ temp \in BOOLEAN
      OBVIOUS
    <3>3. profile \in 0 .. MaxRevision /\ stop \in 0 .. MaxRuns
      OBVIOUS
    <3> QED BY <3>1, <3>2, <3>3 DEF FilesType
  <2>3. guard \in Proc \cup {NoProc} /\ lease \in Proc \cup {NoProc} /\ lastRun \in 0 .. MaxRuns
    OBVIOUS
  <2>4. kid \in [Runs -> {"none", "spawned", "attached", "dead"}]
    OBVIOUS
  <2>5. lost \subseteq Runs /\ asked \subseteq Runs /\ ended \subseteq Runs
    OBVIOUS
  <2> QED BY <2>1, <2>2, <2>3, <2>4, <2>5 DEF TypeOK, OthersType
<1>2. GuardInv /\ PlaceInv
  BY DEF GuardInv, PlaceInv, Guarded, Removing, Running
<1>3. LeaseInv /\ RunInv /\ DiskInv
  BY DEF LeaseInv, RunInv, DiskInv, Supervises, Supervising, Events, At, Removing
<1>4. KidInv /\ StopInv /\ EndedInv /\ SaveInv
  BY DEF KidInv, StopInv, EndedInv, SaveInv, NoState, Supervises, Supervising,
         Events, Live
<1> QED BY <1>1, <1>2, <1>3, <1>4 DEF IInv

\* every step keeps it
LEMMA NextIInv == IInv /\ [Next]_vars => IInv'
BY LocalsTypeStep, FilesTypeStep, OthersTypeStep, GuardInvStep, PlaceInvStep,
   LeaseInvStep, RunInvStep, DiskInvStep, KidInvStep, StopInvStep, EndedInvStep,
   SaveInvStep DEF IInv, TypeOK

\* The locks, the files and the runtimes agree in every reachable state, for any
\* number of processes, runs and revisions: the invariant of registry.rs.
THEOREM Invariance == Spec => []IInv
BY InitIInv, NextIInv, PTL DEF Spec

-----------------------------------------------------------------------------
(* What it implies *)

\* Every variable keeps its type: the files, locks and processes of registry.rs.
THEOREM TypeCorrect == Spec => []TypeOK
<1>1. IInv => TypeOK
  BY DEF IInv
<1> QED BY <1>1, Invariance, PTL

\* The lease pins the entry of its supervisor, and an uncontended lease is a
\* supervisor's (start_using).
THEOREM LeaseIsOwned == Spec => []LeaseNamesItsRun
<1>1. IInv => LeaseNamesItsRun
  BY DEF IInv, LeaseNamesItsRun, TypeOK, OthersType, LocalsType, GuardInv, LeaseInv, DiskInv,
         Supervises, Supervising, Guarded, At
<1> QED BY <1>1, Invariance, PTL

\* A live runtime has the one supervisor that holds the lease (ManagedChild drops
\* before the lease), unless its supervisor crashed and it joined no job.
THEOREM RuntimesAreLeased == Spec => []RuntimeIsLeased
<1>1. IInv => RuntimeIsLeased
  <2> SUFFICES ASSUME IInv, NEW r \in Runs, Live(r), r \notin lost \/ kid[r] = "attached"
               PROVE  lease # NoProc /\ run[lease] = r /\ Supervises(lease)
    BY DEF RuntimeIsLeased
  <2> QED BY DEF IInv, KidInv, Supervises
<1> QED BY <1>1, Invariance, PTL

\* update is locked out while a run is supervised, so the run's recorded revision
\* stays the profile's (start_using, update).
THEOREM RunsKeepTheirRevision == Spec => []RunKeepsItsRevision
<1>1. IInv => RunKeepsItsRevision
  BY DEF IInv, RunKeepsItsRevision, TypeOK, OthersType, DiskInv
<1> QED BY <1>1, Invariance, PTL

\* A run stops only on a request that names it (stop_matches, request_stop).
THEOREM StopsAreTargeted == Spec => []StopHitsItsRun
<1>1. IInv => StopHitsItsRun
  BY DEF IInv, StopHitsItsRun, StopInv
<1> QED BY <1>1, Invariance, PTL

\* stop succeeds only when the runtime it asked to end is gone (stop).
THEOREM StopsAreReportedTruthfully == Spec => []StopReportsTheEnd
<1>1. IInv => StopReportsTheEnd
  BY DEF IInv, StopReportsTheEnd, EndedInv
<1> QED BY <1>1, Invariance, PTL

\* status says interrupted only of a run that lost its supervisor or its last
\* save (status_unlocked).
THEOREM InterruptedIsTruthful == Spec => []InterruptedMeansLost
<1>1. IInv => InterruptedMeansLost
  <2> SUFFICES ASSUME IInv, guard = NoProc, Known, StatusUnlocked = "interrupted"
               PROVE  state.id \in lost
    BY DEF InterruptedMeansLost
  <2>1. state.id # NoRun /\ ~Active /\ state.st \in {"starting", "running"}
    <3>1. state.st \in VmState
      BY DEF IInv, TypeOK, FilesType, RunState, NoState, VmState
    <3> QED BY <3>1 DEF StatusUnlocked, VmState
  <2> QED BY <2>1 DEF IInv, SaveInv, Active
<1> QED BY <1>1, Invariance, PTL

\* A profile appears only where no older run left a state or a stop request:
\* register creates the directory, unregister removes it last.
LEMMA FreshStep ==
  IInv /\ [Next]_vars => (profile = 0 /\ profile' > 0 => state = NoState /\ stop = NoRun)
<1> SUFFICES ASSUME IInv, [Next]_vars, profile = 0, profile' > 0
             PROVE  state = NoState /\ stop = NoRun
  OBVIOUS
<1>1. PICK p \in Proc : RegisterWrite(p) \/ UpdateWrite(p)
  <2> USE DEF vars, disk
  <2>1. ASSUME NEW p \in Proc, Progress(p) PROVE RegisterWrite(p) \/ UpdateWrite(p)
    BY <2>1 DEF Progress, AcquireGuard, GuardTimeout, UpdateTimeout, Refused, Register,
       Update, Unregister, RemoveProfile, RemoveState, RemoveStop, RemoveDir, Status,
       RequestStop, RequestStopWrite, RequestStopLate, StopReturns, StopPollsAgain,
       Start, StartWrite, Plan, Spawn, AttachJob, UpdateRun, StopSeen, KillRuntime,
       FinalSave, DropLease
  <2>2. ASSUME NEW p \in Proc, Environment(p) PROVE FALSE
    <3>1. profile' = profile
      BY <2>2 DEF Environment, Invoke, LaunchFails, MarkerSeen, LoopEnds, StopWaitExpires,
         RegisterFail, ClockFails, IoError, UpdateIoError, Crash
    <3> QED BY <3>1
  <2>3. ASSUME NEW r \in Runs, RuntimeExits(r) PROVE FALSE
    BY <2>3 DEF RuntimeExits
  <2>4. CASE UNCHANGED vars
    BY <2>4
  <2> QED BY <2>1, <2>2, <2>3, <2>4 DEF Next
<1>2. ~UpdateWrite(p)
  BY ConstantsAssumption DEF IInv, DiskInv, UpdateWrite, Known
<1> QED BY <1>1, <1>2 DEF IInv, DiskInv, RegisterWrite

\* The first profile of an entry never appears next to a state.json or stop.json
\* of an earlier registration: existing_path and the order of unregister.
THEOREM RegistrationIsFresh == Spec => FreshRegistration
<1>1. IInv /\ [Next]_vars => [profile = 0 /\ profile' > 0 => state = NoState /\ stop = NoRun]_vars
  BY FreshStep
<1> QED BY <1>1, Invariance, PTL DEF Spec, FreshRegistration

-----------------------------------------------------------------------------
(* The refinement of VmLifecycle *)

\* every step of a command is a step of the lifecycle or leaves it alone
LEMMA LifecycleStep == IInv /\ [Next]_vars => [Lifecycle!Next]_<<Phase, profile, lastRun>>
<1> DEFINE Stutter == UNCHANGED <<Phase, profile, lastRun>>
<1> SUFFICES ASSUME IInv, [Next]_vars PROVE Lifecycle!Next \/ Stutter
  OBVIOUS
<1> USE ConstantsAssumption DEF IInv, TypeOK, LocalsType, FilesType, OthersType,
       GuardInv, PlaceInv, LeaseInv, DiskInv, disk, locals, hist, vars, Runs,
       NoRun, Commands, Events, Ops, Removing, Guarded, Running, Places,
       Supervising, Supervises, At, Known, Phase
<1>1. ASSUME NEW p \in Proc, Progress(p) PROVE Lifecycle!Next \/ Stutter
  <2>1. CASE AcquireGuard(p)  BY <2>1 DEF AcquireGuard, GoTo
  <2>2. CASE GuardTimeout(p)  BY <2>2 DEF GuardTimeout, Return
  <2>3. CASE UpdateTimeout(p)  BY <2>3 DEF UpdateTimeout, FailUpdate
  <2>4. CASE Refused(p)  BY <2>4 DEF Refused, Return, ReleaseGuard
  <2>5. CASE Register(p)
    <3>1. Lifecycle!Create
      BY <2>5 DEF Register, GoTo, Lifecycle!Create
    <3> QED BY <3>1 DEF Lifecycle!Next
  <2>6. CASE RegisterWrite(p)
    <3>1. Lifecycle!Revise
      BY <2>6 DEF RegisterWrite, Return, ReleaseGuard, Lifecycle!Revise
    <3> QED BY <3>1 DEF Lifecycle!Next
  <2>7. CASE Update(p)  BY <2>7 DEF Update, MayUpdate, Active, GoTo
  <2>8. CASE UpdateWrite(p)
    <3>1. Lifecycle!Revise
      BY <2>8 DEF UpdateWrite, Return, ReleaseGuard, Lifecycle!Revise
    <3> QED BY <3>1 DEF Lifecycle!Next
  <2>9. CASE Unregister(p)  BY <2>9 DEF Unregister, MayUnregister, Active, GoTo
  <2>10. CASE RemoveProfile(p)
    <3>1. Lifecycle!Forget
      BY <2>10 DEF RemoveProfile, GoTo, Lifecycle!Forget
    <3> QED BY <3>1 DEF Lifecycle!Next
  <2>11. CASE RemoveState(p)  BY <2>11 DEF RemoveState, GoTo
  <2>12. CASE RemoveStop(p)  BY <2>12 DEF RemoveStop, GoTo
  <2>13. CASE RemoveDir(p)
    <3>1. Lifecycle!Remove
      BY <2>13 DEF RemoveDir, Return, ReleaseGuard, Lifecycle!Remove
    <3> QED BY <3>1 DEF Lifecycle!Next
  <2>14. CASE Status(p)  BY <2>14 DEF Status, Return, ReleaseGuard
  <2>15. CASE RequestStop(p)  BY <2>15 DEF RequestStop, MayStop, Active
  <2>16. CASE RequestStopWrite(p)  BY <2>16 DEF RequestStopWrite, ReleaseGuard, GoToOp, Active
  <2>17. CASE RequestStopLate(p)  BY <2>17 DEF RequestStopLate, ReleaseGuard, Return, Active
  <2>18. CASE StopReturns(p)  BY <2>18 DEF StopReturns, Return, ReleaseGuard, Active
  <2>19. CASE StopPollsAgain(p)  BY <2>19 DEF StopPollsAgain, GoTo, ReleaseGuard, Active
  <2>20. CASE Start(p)
    <3>1. Lifecycle!Begin
      BY <2>20 DEF Start, MayStart, Active, Lifecycle!Begin
    <3> QED BY <3>1 DEF Lifecycle!Next
  <2>21. CASE StartWrite(p)  BY <2>21 DEF StartWrite, ReleaseGuard, GoToOp
  <2>22. CASE Plan(p)  BY <2>22 DEF Plan, GoTo
  <2>23. CASE Spawn(p)  BY <2>23 DEF Spawn
  <2>24. CASE AttachJob(p)  BY <2>24 DEF AttachJob, GoToOp
  <2>25. CASE UpdateRun(p)  BY <2>25 DEF UpdateRun, ReleaseGuard, GoToOp
  <2>26. CASE StopSeen(p)  BY <2>26 DEF StopSeen, StopMatches, Leave
  <2>27. CASE KillRuntime(p)  BY <2>27 DEF KillRuntime
  <2>28. CASE FinalSave(p)  BY <2>28 DEF FinalSave, ReleaseGuard, GoToOp
  <2>29. CASE DropLease(p)
    <3>1. Lifecycle!End
      BY <2>29 DEF DropLease, Return, Lifecycle!End
    <3> QED BY <3>1 DEF Lifecycle!Next
    <2> QED BY <1>1, <2>1, <2>2, <2>3, <2>4, <2>5, <2>6, <2>7, <2>8, <2>9,
            <2>10, <2>11, <2>12, <2>13, <2>14, <2>15, <2>16, <2>17, <2>18,
            <2>19, <2>20, <2>21, <2>22, <2>23, <2>24, <2>25, <2>26, <2>27,
            <2>28, <2>29 DEF Progress
<1>2. ASSUME NEW p \in Proc, Environment(p) PROVE Lifecycle!Next \/ Stutter
  <2>0. ASSUME NEW c \in Commands, Invoke(p, c) PROVE Lifecycle!Next \/ Stutter  BY <2>0 DEF Invoke, GoToOp
  <2>1. CASE LaunchFails(p)  BY <2>1 DEF LaunchFails, Leave
  <2>2. CASE MarkerSeen(p)  BY <2>2 DEF MarkerSeen
  <2>3. CASE LoopEnds(p)
    <3>1. PICK o \in {"ok", "bad", "error"}, m \in BOOLEAN : Leave(p, o, m)
      BY <2>3 DEF LoopEnds
    <3> QED BY <2>3, <3>1 DEF LoopEnds, Leave
  <2>4. CASE StopWaitExpires(p)  BY <2>4 DEF StopWaitExpires, Return, ReleaseGuard, Active
  <2>5. CASE RegisterFail(p)
    <3>1. CASE dir'
      BY <2>5, <3>1 DEF RegisterFail, Return, ReleaseGuard
    <3>2. CASE ~dir'
      <4>1. Lifecycle!Remove
        BY <2>5, <3>2 DEF RegisterFail, Return, ReleaseGuard, Lifecycle!Remove
      <4> QED BY <4>1 DEF Lifecycle!Next
    <3> QED BY <3>1, <3>2
  <2>6. CASE ClockFails(p)  BY <2>6 DEF ClockFails, FailUpdate
  <2>7. CASE IoError(p)
    <3>1. CASE Supervises(p)
      <4>1. Lifecycle!End
        BY <2>7, <3>1 DEF IoError, Return, ReleaseGuard, Lifecycle!End
      <4> QED BY <4>1 DEF Lifecycle!Next
    <3>2. CASE ~Supervises(p)
      BY <2>7, <3>2 DEF IoError, Return, ReleaseGuard
    <3> QED BY <3>1, <3>2
  <2>8. CASE UpdateIoError(p)  BY <2>8 DEF UpdateIoError, FailUpdate, ReleaseGuard
  <2>9. CASE Crash(p)
    <3>1. CASE Supervises(p)
      <4>1. Lifecycle!End
        BY <2>9, <3>1 DEF Crash, Return, Lifecycle!End
      <4> QED BY <4>1 DEF Lifecycle!Next
    <3>2. CASE ~Supervises(p)
      BY <2>9, <3>2 DEF Crash, Return
    <3> QED BY <3>1, <3>2
  <2> QED BY <1>2, <2>0, <2>1, <2>2, <2>3, <2>4, <2>5, <2>6, <2>7, <2>8, <2>9 DEF Environment
<1>3. ASSUME NEW r \in Runs, RuntimeExits(r) PROVE Lifecycle!Next \/ Stutter  BY <1>3 DEF RuntimeExits
<1>4. CASE UNCHANGED vars  BY <1>4
<1> QED BY <1>1, <1>2, <1>3, <1>4 DEF Next

\* The registry implements the lifecycle: one supervised run at a time, each with
\* a new run id, and an entry that changes or disappears only between runs.
THEOREM Refinement == Spec => ImplementsLifecycle
<1>1. Init => Lifecycle!Init
  BY DEF Init, Lifecycle!Init, Phase
<1>2. IInv /\ [Next]_vars => [Lifecycle!Next]_(Lifecycle!lifecycle)
  BY LifecycleStep DEF Lifecycle!lifecycle
<1> QED BY <1>1, <1>2, Invariance, PTL DEF Spec, ImplementsLifecycle, Lifecycle!Spec
=============================================================================
