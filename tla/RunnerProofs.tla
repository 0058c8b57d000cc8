---------------------------- MODULE RunnerProofs ----------------------------
(***************************************************************************)
(* Proofs about module Runner: its invariants, and that it implements      *)
(* SupervisedRun, for every log limit, with or without jobs.               *)
(***************************************************************************)
EXTENDS Runner, TLAPS

Early       == {"check", "prepare", "spawn"}
Supervising == {"attach", "started", "read", "readErr", "look", "tryWait", "reread", "rereadErr",
                "lookAgain", "stop", "timers", "drop"}

\* where the function is decides whether there is a runtime, and what was told of it
PhaseInv ==
  /\ at \in Early => child = "none" /\ told = 0 /\ timer = "unset" /\ end = NoEnd
  /\ at \in Supervising \cup {"unwind"} => child \in {"alive", "exited"}
  /\ at \in Supervising \ {"drop"} => end = NoEnd
  /\ at \in {"attach", "started"} => told = 0 /\ timer = "unset"
  /\ at \in {"reread", "rereadErr", "lookAgain"} => child = "exited"
  /\ at = "save" => child = "reaped"
  /\ at \in {"raise", "done"} => child \in {"none", "reaped"}
  /\ timer = "unset" => told \in 0 .. 1
  /\ result = "none" <=> at # "done"

\* what was read is in the logs, and after an exit it is all there is
ReadInv ==
  /\ out.has \subseteq log["stdout"].has /\ out.size <= log["stdout"].size
  /\ text # OverLimit => \A t \in text : Written(t)
  /\ text = OverLimit => log["stdout"].size + log["stderr"].size > MaxLog
  /\ at \in {"tryWait", "stop", "timers"} => ~Shows("panic")
  /\ at = "rereadErr" => out = log["stdout"]
  /\ at = "lookAgain" /\ text # OverLimit => \A t \in Token : Written(t) => t \in text

\* what the loop ended with was true then, and still is
EndInv ==
  /\ ExitIsJudgedOnTheWholeLog /\ ReasonsAreTruthful
  /\ timer # "unset" => plan.marker /\ Written("marker")
  /\ end.reason = "guest_exit" \/ end.code # "none" => child # "alive"

IInv == TypeOK /\ PhaseInv /\ ReadInv /\ EndInv

-----------------------------------------------------------------------------
\* a token that was written stays in the logs
LEMMA WrittenStays ==
  ASSUME NEW t, NEW f \in File, Write(f), TypeOK, Written(t)
  PROVE  Written(t)'
  BY DEF Write, Written, TypeOK, Log, File

\* a write makes no log smaller
LEMMA LogsGrow ==
  ASSUME NEW f \in File, Write(f), TypeOK
  PROVE  \A g \in File : log[g].has \subseteq log'[g].has /\ log[g].size <= log'[g].size
                         /\ log'[g] \in Log
  BY DEF Write, TypeOK, Log, File, Token

USE ConstantsAssumption

\* Every step keeps the phase part.
LEMMA PhaseStep ==
  ASSUME TypeOK, PhaseInv, [Next]_vars
  PROVE  PhaseInv'
<1>1. CASE Step
  <2>1. CASE Check \/ Prepare \/ Spawn \/ AttachJob \/ AttachFails \/ NotifyStarted
    BY <2>1 DEF TypeOK, PhaseInv, Early, Supervising, Check, Prepare, Spawn, AttachJob, AttachFails,
                NotifyStarted, Goto, proc, clock
  <2>2. CASE ReadStdout("read", "readErr") \/ ReadStdout("reread", "rereadErr")
    BY <2>2 DEF TypeOK, PhaseInv, Early, Supervising, ReadStdout, Goto, proc, clock
  <2>3. CASE ReadStderr("readErr", "look") \/ ReadStderr("rereadErr", "lookAgain")
    BY <2>3 DEF TypeOK, PhaseInv, Early, Supervising, ReadStderr, Goto, proc, clock
  <2>4. CASE LookOverLimit \/ Look
    BY <2>4 DEF TypeOK, PhaseInv, Early, Supervising, LookOverLimit, Look, LoopEnds, proc, clock
  <2>5. CASE TryWait \/ LookAgain \/ StopRequested \/ Timers
    BY <2>5 DEF TypeOK, PhaseInv, Early, Supervising, TryWait, LookAgain, StopRequested, Timers,
                LoopEnds, proc, clock
  <2>6. CASE DropChild \/ Save \/ IoFails \/ MarkerNotifyFails \/ RaiseError
    BY <2>6 DEF TypeOK, PhaseInv, Early, Supervising, DropChild, Save, IoFails, MarkerNotifyFails,
                RaiseError, Goto, proc, clock
  <2> QED BY <1>1, <2>1, <2>2, <2>3, <2>4, <2>5, <2>6 DEF Step
<1>2. CASE Done \/ UNCHANGED vars
  BY <1>2 DEF PhaseInv, Done, vars
<1>3. CASE \E f \in File : Write(f)
  BY <1>3 DEF PhaseInv, Write, clock
<1>4. CASE Exit \/ MarkerAges \/ TimeoutPasses \/ RequestStop
  BY <1>4 DEF TypeOK, PhaseInv, Early, Supervising, Exit, MarkerAges, TimeoutPasses, RequestStop,
              proc, clock
<1> QED BY <1>1, <1>2, <1>3, <1>4 DEF Next

\* Every step keeps the types: told stays below its limit because the phases tell when
\* the caller was told.
LEMMA TypeStep ==
  ASSUME TypeOK, PhaseInv, [Next]_vars
  PROVE  TypeOK'
<1> USE DEF TypeOK
<1>e. ASSUME NEW x \in BOOLEAN, NEW r, NEW c \in {"none", "ok", "bad"}, LoopEnds(x, r, c),
             r \in {"log_limit", "guest_kernel_panic", "guest_exit", "stop_requested",
                    "failed_or_unverified_exit", "verified_then_stopped", "timeout"}
      PROVE  end' \in End /\ at' = "drop"
  BY <1>e DEF LoopEnds, End
<1>1. CASE Step
  <2>1. CASE Check \/ Prepare \/ Spawn \/ AttachJob \/ AttachFails
    BY <2>1 DEF Check, Prepare, Spawn, AttachJob, AttachFails, Goto, proc, clock, Places
  <2>2. CASE NotifyStarted
    BY <2>2 DEF PhaseInv, NotifyStarted, Goto, proc, clock, Places
  <2>3. CASE ReadStdout("read", "readErr") \/ ReadStdout("reread", "rereadErr")
    BY <2>3 DEF ReadStdout, Goto, proc, clock, File, Places
  <2>4. CASE ReadStderr("readErr", "look") \/ ReadStderr("rereadErr", "lookAgain")
    <3>1. out.has \cup log["stderr"].has \in SUBSET Token
      BY DEF File, Log
    <3>2. at' \in {"look", "lookAgain"}
      BY <2>4 DEF ReadStderr, Goto
    <3>3. text' = OverLimit \/ text' = out.has \cup log["stderr"].has
      BY <2>4 DEF ReadStderr
    <3>4. text' \in (SUBSET Token) \cup {OverLimit}
      BY <3>1, <3>3
    <3> QED BY <2>4, <3>2, <3>4 DEF ReadStderr, proc, clock, Places
  <2>5. CASE LookOverLimit
    <3>1. end' \in End /\ at' = "drop"
      BY <2>5, <1>e DEF LookOverLimit
    <3> QED BY <2>5, <3>1 DEF LookOverLimit, proc, clock, Places
  <2>6. CASE Look
    <3>1. end' \in End /\ at' \in {"drop", "tryWait"}
      BY <2>6, <1>e DEF Look
    <3>2. seen' \in BOOLEAN
      BY <2>6 DEF Look
    <3>3. told' \in 0 .. 2 /\ timer' \in {"unset", "set", "elapsed"}
      BY <2>6 DEF Look, PhaseInv
    <3> QED BY <2>6, <3>1, <3>2, <3>3 DEF Look, proc, Places
  <2>7. CASE TryWait
    BY <2>7 DEF TryWait, proc, clock, Places
  <2>8. CASE LookAgain
    <3>1. end' \in End /\ at' = "drop"
      <4>1. (exit = "ok" /\ (plan.marker => seen \/ (plan.marker /\ Shows("marker")))) \in BOOLEAN
        OBVIOUS
      <4> QED BY <2>8, <1>e, <4>1 DEF LookAgain
    <3>2. seen' \in BOOLEAN
      BY <2>8 DEF LookAgain
    <3> QED BY <2>8, <3>1, <3>2 DEF LookAgain, proc, clock, Places
  <2>9. CASE StopRequested \/ Timers
    <3>1. end' \in End /\ at' \in {"drop", "timers", "read"}
      BY <2>9, <1>e DEF StopRequested, Timers
    <3>2. UNCHANGED <<plan, child, exit, log, out, text, seen, timer, late, stop, told, result>>
      BY <2>9 DEF StopRequested, Timers, proc, clock
    <3> QED BY <3>1, <3>2 DEF Places
  <2>10. CASE DropChild \/ Save \/ IoFails \/ MarkerNotifyFails \/ RaiseError
    <3>1. at' \in Places
      BY <2>10 DEF DropChild, Save, IoFails, MarkerNotifyFails, RaiseError, Goto, Places
    <3>2. UNCHANGED <<plan, exit, log, out, text, late, stop, end, told>>
      BY <2>10 DEF DropChild, Save, IoFails, MarkerNotifyFails, RaiseError, proc, clock
    <3>3. child' \in {child, "none", "reaped"} /\ timer' \in {timer, "set"}
          /\ result' \in {result, "error", "report"}
      BY <2>10 DEF DropChild, Save, IoFails, MarkerNotifyFails, RaiseError, proc, clock
    <3>4. seen' \in BOOLEAN
      BY <2>10 DEF DropChild, Save, IoFails, MarkerNotifyFails, RaiseError
    <3>5. /\ plan' \in Plan /\ exit' \in {"none", "ok", "bad"} /\ log' \in [File -> Log] /\ out' \in Log
          /\ text' \in (SUBSET Token) \cup {OverLimit} /\ end' \in End /\ told' \in 0 .. 2
      BY <3>2
    <3>6. late' \in BOOLEAN /\ stop' \in BOOLEAN
      BY <3>2
    <3> QED BY <3>1, <3>3, <3>4, <3>5, <3>6
  <2> QED BY <1>1, <2>1, <2>2, <2>3, <2>4, <2>5, <2>6, <2>7, <2>8, <2>9, <2>10 DEF Step
<1>2. CASE Done \/ UNCHANGED vars
  BY <1>2 DEF Done, vars
<1>3. ASSUME NEW f \in File, Write(f) PROVE TypeOK'
  <2>1. log' \in [File -> Log]
    BY <1>3 DEF Write, Log, File, Token
  <2> QED BY <1>3, <2>1 DEF Write, clock
<1>4. CASE Exit
  BY <1>4 DEF Exit, clock
<1>5. CASE MarkerAges \/ TimeoutPasses
  BY <1>5 DEF MarkerAges, TimeoutPasses, proc
<1>6. CASE RequestStop
  BY <1>6 DEF RequestStop, proc
<1> QED BY <1>1, <1>2, <1>3, <1>4, <1>5, <1>6 DEF Next

\* Every step keeps the transcript part: reads return what is in the logs, writes only
\* add to them, and nothing is written after the exit.
LEMMA ReadStep ==
  ASSUME TypeOK, PhaseInv, ReadInv, [Next]_vars
  PROVE  ReadInv'
<1>1. CASE Step
  <2>1. CASE ReadStdout("read", "readErr") \/ ReadStdout("reread", "rereadErr")
    <3>1. out' = log["stdout"] /\ UNCHANGED <<log, text>> /\ at' \in {"readErr", "rereadErr"}
      BY <2>1 DEF ReadStdout, Goto, proc
    <3> QED BY <3>1 DEF ReadInv, Written, Shows, TypeOK, Log, File
  <2>2. CASE ReadStderr("readErr", "look") \/ ReadStderr("rereadErr", "lookAgain")
    <3>1. out.size \in Nat /\ log["stdout"].size \in Nat /\ log["stderr"].size \in Nat
      BY DEF TypeOK, Log, File
    <3>2. at' \in {"look", "lookAgain"} /\ UNCHANGED <<log, out>>
      BY <2>2 DEF ReadStderr, Goto, proc
    <3>3. CASE out.size + log["stderr"].size > MaxLog
      <4>1. text' = OverLimit
        BY <2>2, <3>3 DEF ReadStderr
      <4> QED BY <3>1, <3>2, <3>3, <4>1 DEF ReadInv, Written, Shows
    <3>4. CASE ~(out.size + log["stderr"].size > MaxLog)
      <4>1. text' = out.has \cup log["stderr"].has
        BY <2>2, <3>4 DEF ReadStderr
      <4>2. text' \subseteq Token
        BY <4>1 DEF TypeOK, Log, File
      <4>3. text' # OverLimit
        BY <4>2 DEF Token, OverLimit
      <4>4. at' = "lookAgain" => out = log["stdout"]
        BY <2>2 DEF ReadStderr, Goto, ReadInv
      <4>5. \A t \in text' : Written(t)
        BY <4>1 DEF ReadInv, Written, Shows, File
      <4>6. at' = "lookAgain" => \A t \in Token : Written(t) => t \in text'
        BY <4>1, <4>4 DEF Written, File
      <4> QED BY <3>2, <4>3, <4>5, <4>6 DEF ReadInv, Written, Shows
    <3> QED BY <3>3, <3>4
  <2>3. CASE Check \/ Prepare \/ Spawn \/ AttachJob \/ AttachFails \/ NotifyStarted
    BY <2>3 DEF ReadInv, Written, Shows, Check, Prepare, Spawn, AttachJob, AttachFails, NotifyStarted, Goto, proc
  <2>4. CASE LookOverLimit \/ Look \/ TryWait
    BY <2>4 DEF ReadInv, Written, Shows, LookOverLimit, Look, TryWait, LoopEnds, proc
  <2>5. CASE LookAgain \/ StopRequested \/ Timers
    BY <2>5 DEF ReadInv, Written, Shows, LookAgain, StopRequested, Timers, LoopEnds, proc
  <2>6. CASE DropChild \/ Save \/ IoFails \/ MarkerNotifyFails \/ RaiseError
    BY <2>6 DEF ReadInv, Written, Shows, DropChild, Save, IoFails, MarkerNotifyFails, RaiseError, Goto, proc
  <2> QED BY <1>1, <2>1, <2>2, <2>3, <2>4, <2>5, <2>6 DEF Step
<1>2. CASE Done \/ UNCHANGED vars
  BY <1>2 DEF ReadInv, Written, Shows, Done, vars
<1>3. ASSUME NEW f \in File, Write(f) PROVE ReadInv'
  <2>1. UNCHANGED <<at, out, text>> /\ at # "rereadErr" /\ at # "lookAgain"
    BY <1>3 DEF Write, PhaseInv
  <2>2. \A t : Written(t) => Written(t)'
    BY <1>3, WrittenStays
  <2>3. /\ log["stdout"].has \subseteq log'["stdout"].has /\ log["stdout"].size <= log'["stdout"].size
        /\ log["stderr"].size <= log'["stderr"].size
        /\ {log'["stdout"], log'["stderr"]} \subseteq Log
    BY <1>3, LogsGrow DEF File
  <2> QED BY <2>1, <2>2, <2>3 DEF ReadInv, Shows, TypeOK, Log, File
<1>4. CASE Exit \/ MarkerAges \/ TimeoutPasses \/ RequestStop
  BY <1>4 DEF ReadInv, Written, Shows, Exit, MarkerAges, TimeoutPasses, RequestStop, proc
<1> QED BY <1>1, <1>2, <1>3, <1>4 DEF Next

\* Every step keeps the truth of the end.
LEMMA EndStep ==
  ASSUME IInv, [Next]_vars
  PROVE  EndInv'
<1> USE DEF IInv, EndInv, ExitIsJudgedOnTheWholeLog, ReasonsAreTruthful, Shows
<1>1. CASE Step
  <2>1. CASE Check \/ Prepare \/ AttachJob \/ AttachFails \/ NotifyStarted
    BY <2>1 DEF Written, Check, Prepare, AttachJob, AttachFails, NotifyStarted, Goto, proc, clock
  <2>9. CASE Spawn
    <3>1. end = NoEnd
      BY <2>9 DEF Spawn, Goto, PhaseInv, Early
    <3> QED BY <2>9, <3>1 DEF NoEnd, Written, Spawn, Goto, clock
  <2>2. CASE \/ ReadStdout("read", "readErr") \/ ReadStdout("reread", "rereadErr")
             \/ ReadStderr("readErr", "look") \/ ReadStderr("rereadErr", "lookAgain")
    BY <2>2 DEF PhaseInv, Supervising, NoEnd, Written, ReadStdout, ReadStderr, Goto, proc, clock
  <2>3. CASE LookOverLimit
    BY <2>3 DEF ReadInv, NoEnd, OverLimit, Written, LookOverLimit, LoopEnds, proc, clock
  <2>4. CASE Look
    <3>1. Shows("marker") => Written("marker")
      BY DEF Shows, ReadInv
    <3>2. Shows("panic") => Written("panic")
      BY DEF Shows, ReadInv
    <3>3. UNCHANGED <<plan, child, exit, log, late, stop>>
      BY <2>4 DEF Look, proc
    <3>4. \/ Shows("panic") /\ end' = [success |-> FALSE, reason |-> "guest_kernel_panic", code |-> "none"]
          \/ end' = end
      BY <2>4 DEF Look, LoopEnds
    <3>5. (timer' # "unset" \/ seen') => plan.marker /\ Written("marker")
      BY <2>4, <3>1 DEF Look
    <3>6. end = NoEnd /\ text' = text
      BY <2>4 DEF Look, PhaseInv, Supervising
    <3>7. end' # NoEnd => (Shows("panic") <=> end'.reason = "guest_kernel_panic")
      BY <3>4, <3>6 DEF NoEnd
    <3>8. end'.reason # "timeout"
      BY <3>4, <3>6 DEF NoEnd
    <3> HIDE DEF Shows
    <3>9. Shows("panic")' <=> Shows("panic")
      BY <3>6 DEF Shows
    <3> QED BY <3>2, <3>3, <3>4, <3>5, <3>7, <3>8, <3>9 DEF Written
  <2>5. CASE LookAgain
    BY <2>5 DEF TypeOK, PhaseInv, ReadInv, Written, LookAgain, Shows, LoopEnds, Token, proc, clock
  <2>6. CASE TryWait \/ StopRequested \/ Timers
    BY <2>6 DEF ReadInv, NoEnd, Written, TryWait, StopRequested, Timers, LoopEnds, proc, clock
  <2>7. CASE DropChild \/ Save \/ IoFails \/ RaiseError
    BY <2>7 DEF Written, DropChild, Save, IoFails, RaiseError, Goto, proc, clock
  <2>8. CASE MarkerNotifyFails
    BY <2>8 DEF ReadInv, Written, Shows, MarkerNotifyFails, proc
  <2> QED BY <1>1, <2>1, <2>2, <2>3, <2>4, <2>5, <2>6, <2>7, <2>8, <2>9 DEF Step
<1>2. CASE Done \/ UNCHANGED vars
  BY <1>2 DEF Written, Done, vars
<1>3. ASSUME NEW f \in File, Write(f) PROVE EndInv'
  <2>1. child = "alive" /\ UNCHANGED <<plan, child, exit, seen, timer, late, stop, end, text>>
    BY <1>3 DEF Write, clock
  <2>2. \A t : Written(t) => Written(t)'
    BY <1>3, WrittenStays
  <2>3. /\ log["stdout"].size <= log'["stdout"].size /\ log["stderr"].size <= log'["stderr"].size
        /\ {log'["stdout"], log'["stderr"]} \subseteq Log
    BY <1>3, LogsGrow DEF File
  <2> QED BY <2>1, <2>2, <2>3 DEF TypeOK, Log, File
<1>4. CASE Exit \/ MarkerAges \/ TimeoutPasses \/ RequestStop
  <2>1. CASE Exit
    BY <2>1 DEF Written, Exit, clock
  <2>2. CASE MarkerAges
    BY <2>2 DEF Written, MarkerAges, NoEnd, proc
  <2>3. CASE TimeoutPasses
    BY <2>3 DEF Written, TimeoutPasses, proc
  <2>4. CASE RequestStop
    BY <2>4 DEF Written, RequestStop, proc
  <2> QED BY <1>4, <2>1, <2>2, <2>3, <2>4
<1> QED BY <1>1, <1>2, <1>3, <1>4 DEF Next

\* The inductive invariant holds in every reachable state.
THEOREM Invariance == Spec => []IInv
<1>1. Init => IInv
  <2> SUFFICES ASSUME Init PROVE IInv
    OBVIOUS
  <2>1. TypeOK
    <3>1. end \in End /\ log \in [File -> Log] /\ out \in Log
      BY DEF Init, NoEnd, End, Log, File, Token, Empty
    <3>2. text \in (SUBSET Token) \cup {OverLimit}
      BY DEF Init
    <3>3. plan \in Plan /\ at \in Places /\ child = "none" /\ exit = "none" /\ timer = "unset"
      BY DEF Init, Places
    <3>4. seen \in BOOLEAN /\ late \in BOOLEAN /\ stop \in BOOLEAN /\ told = 0 /\ result = "none"
      BY DEF Init
    <3> QED BY <3>1, <3>2, <3>3, <3>4 DEF TypeOK
  <2>2. PhaseInv
    BY DEF Init, PhaseInv, Early, Supervising
  <2>3. ReadInv
    BY DEF Init, ReadInv, Empty, File, OverLimit
  <2>4. EndInv
    BY DEF Init, EndInv, ExitIsJudgedOnTheWholeLog, ReasonsAreTruthful, NoEnd
  <2> QED BY <2>1, <2>2, <2>3, <2>4 DEF IInv
<1>2. IInv /\ [Next]_vars => IInv'
  BY TypeStep, PhaseStep, ReadStep, EndStep DEF IInv
<1> QED BY <1>1, <1>2, PTL DEF Spec

\* Every variable keeps its type.
THEOREM TypeCorrect == Spec => []TypeOK
  BY Invariance, PTL DEF IInv

\* Whatever way execute_controlled returns, the runtime it launched is gone.
THEOREM NoRuntimeSurvives == Spec => []NoRuntimeIsLeft
<1>1. IInv => NoRuntimeIsLeft
  BY DEF IInv, PhaseInv, NoRuntimeIsLeft
<1> QED BY <1>1, Invariance, PTL

\* A guest exit is judged on all the runtime wrote, for every log limit.
THEOREM ExitsAreJudgedOnTheWholeLog == Spec => []ExitIsJudgedOnTheWholeLog
<1>1. IInv => ExitIsJudgedOnTheWholeLog
  BY DEF IInv, EndInv
<1> QED BY <1>1, Invariance, PTL

\* Every reason a run reports happened, and is the one the order of the code gives: a panic
\* before all others, the two seconds of a smoke run before the timeout.
THEOREM TruthfulReasons == Spec => []ReasonsAreTruthful
<1>1. IInv => ReasonsAreTruthful
  BY DEF IInv, EndInv
<1> QED BY <1>1, Invariance, PTL

-----------------------------------------------------------------------------
LEMMA ContractStep == IInv /\ [Next]_vars => [Contract!Next]_<<Runtime, told, Outcome>>
<1> DEFINE Stutter == UNCHANGED <<Runtime, told, Outcome>>
<1> SUFFICES ASSUME IInv, [Next]_vars PROVE Contract!Next \/ Stutter
  OBVIOUS
<1>1. CASE Step
  <2>1. CASE Spawn
    <3>1. Contract!Launch
      BY <2>1 DEF IInv, PhaseInv, Early, Spawn, Goto, Contract!Launch, Runtime, Outcome
    <3> QED BY <3>1 DEF Contract!Next
  <2>2. CASE NotifyStarted
    <3>1. Runtime = "live" /\ UNCHANGED <<Runtime, Outcome>> /\ told = 0
      BY <2>2 DEF IInv, PhaseInv, Supervising, NotifyStarted, Goto, proc, Runtime, Outcome
    <3>2. Contract!Tell \/ Stutter
      BY <2>2, <3>1 DEF NotifyStarted, Contract!Tell
    <3> QED BY <3>2 DEF Contract!Next
  <2>3. CASE Look
    <3>1. Runtime = "live" /\ UNCHANGED Runtime
      BY <2>3 DEF IInv, PhaseInv, Supervising, Look, proc, Runtime
    <3>2. UNCHANGED Outcome
      BY <2>3 DEF IInv, PhaseInv, Look, Outcome
    <3>3. told' = told \/ (told' = told + 1 /\ told < 2)
      BY <2>3 DEF IInv, PhaseInv, Look
    <3> QED BY <3>1, <3>2, <3>3 DEF Contract!Tell, Contract!Next
  <2>4. CASE AttachFails
    <3>1. Contract!Reap
      BY <2>4 DEF IInv, PhaseInv, Supervising, AttachFails, Goto, Contract!Reap, Runtime, Outcome
    <3> QED BY <3>1 DEF Contract!Next
  <2>5. CASE DropChild
    <3>1. UNCHANGED <<told, Outcome>>
      BY <2>5 DEF IInv, PhaseInv, DropChild, Goto, Outcome
    <3>2. Runtime = "live" /\ Runtime' = "gone"
      BY <2>5 DEF IInv, PhaseInv, Supervising, DropChild, Goto, Runtime
    <3> QED BY <3>1, <3>2 DEF Contract!Reap, Contract!Next
  <2>6. CASE Save
    <3>1. Runtime = "gone" /\ UNCHANGED <<Runtime, told>> /\ Outcome = "none"
      BY <2>6 DEF IInv, PhaseInv, Save, Goto, proc, Runtime, Outcome
    <3>2. Outcome' \in {"failed", "passed"}
      BY <2>6 DEF Save, Outcome
    <3> QED BY <3>1, <3>2 DEF Contract!Return, Contract!Next
  <2>7. CASE RaiseError
    <3>1. Runtime \in {"none", "gone"} /\ UNCHANGED <<Runtime, told>> /\ Outcome = "none"
      BY <2>7 DEF IInv, PhaseInv, RaiseError, Goto, proc, Runtime, Outcome
    <3>2. Outcome' = "error"
      BY <2>7 DEF RaiseError, Outcome
    <3> QED BY <3>1, <3>2 DEF Contract!Return, Contract!Refuse, Contract!Next
  <2>8. CASE \/ Check \/ Prepare \/ AttachJob \/ LookOverLimit \/ TryWait \/ LookAgain
             \/ StopRequested \/ Timers \/ IoFails \/ MarkerNotifyFails
             \/ ReadStdout("read", "readErr") \/ ReadStdout("reread", "rereadErr")
             \/ ReadStderr("readErr", "look") \/ ReadStderr("rereadErr", "lookAgain")
    <3>1. UNCHANGED <<child, told, result>> /\ result = "none"
      BY <2>8 DEF IInv, PhaseInv, Check, Prepare, AttachJob, LookOverLimit, TryWait, LookAgain,
                  StopRequested, Timers, IoFails, MarkerNotifyFails, ReadStdout, ReadStderr, Goto, proc
    <3> QED BY <3>1 DEF Runtime, Outcome
  <2> QED BY <1>1, <2>1, <2>2, <2>3, <2>4, <2>5, <2>6, <2>7, <2>8 DEF Step
<1>2. CASE Done \/ UNCHANGED vars
  BY <1>2 DEF Done, vars, Runtime, Outcome
<1>3. CASE \E f \in File : Write(f)
  BY <1>3 DEF Write, Runtime, Outcome
<1>4. CASE Exit \/ MarkerAges \/ TimeoutPasses \/ RequestStop
  BY <1>4 DEF Exit, MarkerAges, TimeoutPasses, RequestStop, proc, Runtime, Outcome
<1> QED BY <1>1, <1>2, <1>3, <1>4 DEF Next

\* A run implements SupervisedRun: its caller is told of a live runtime only, twice at
\* most, and gets a result when the runtime is gone or was never there.
THEOREM Refinement == Spec => ImplementsSupervisedRun
<1>1. Init => Contract!Init
  BY DEF Init, Contract!Init, Runtime, Outcome
<1> QED BY <1>1, ContractStep, Invariance, PTL DEF Spec, ImplementsSupervisedRun, Contract!Spec
=============================================================================
