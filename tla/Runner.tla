------------------------------- MODULE Runner -------------------------------
(***************************************************************************)
(* execute_controlled of crates/limiar/src/runner.rs: it launches the      *)
(* runtime of a plan, follows its transcript, and ends it.                 *)
(*                                                                         *)
(* The runtime writes its two log files while they are read, one after the *)
(* other, and may exit at any time.  A log is abstracted to what the loop  *)
(* looks for in it and to its size; a clock to the two limits it reaches.  *)
(***************************************************************************)
EXTENDS Naturals

CONSTANTS
  MaxLog,    \* MAX_LOG_BYTES, in writes of the runtime
  MaxWrites, \* bound: writes of the runtime to each file
  Job        \* the runtime is put in a kill-on-close job (Windows)

ASSUME ConstantsAssumption == MaxLog \in Nat /\ MaxWrites \in Nat /\ Job \in BOOLEAN

VARIABLES
  plan,     \* what the caller passes
  at,       \* where execute_controlled is
  child,    \* the runtime process
  exit,     \* the status it exited with of its own accord
  log,      \* stdout.log and stderr.log
  out,      \* what read_transcript has of stdout.log
  text,     \* what the last read_transcript returned
  seen,     \* marker_seen
  timer,    \* marker_time, and whether it is two seconds ago
  late,     \* the timeout has passed
  stop,     \* a stop was requested
  end,      \* what the loop ended with
  told,     \* history: the events notified
  result    \* what execute_controlled returned

proc  == <<child, exit, log>>
clock == <<timer, late, stop>>
vars  == <<plan, at, child, exit, log, out, text, seen, timer, late, stop, end, told, result>>

File  == {"stdout", "stderr"}
Token == {"marker", "panic"}
Log   == [has : SUBSET Token, size : Nat]

Plan == [ready : BOOLEAN, gpu_assignment : BOOLEAN, marker : BOOLEAN, \* serial_marker is given
         mode : {"run", "smoke"}, controlled : BOOLEAN]

\* read_transcript's None
OverLimit == {"over"}

NoEnd == [success |-> FALSE, reason |-> "none", code |-> "none"]
End   == [success : BOOLEAN, code : {"none", "ok", "bad"},
          reason : {"none", "log_limit", "guest_kernel_panic", "guest_exit", "stop_requested",
                    "failed_or_unverified_exit", "verified_then_stopped", "timeout"}]

Places == {"check", "prepare", "spawn", "attach", "started", "read", "readErr", "look", "tryWait",
           "reread", "rereadErr", "lookAgain", "stop", "timers", "drop", "save", "unwind", "raise", "done"}

TypeOK ==
  /\ plan \in Plan /\ at \in Places
  /\ child \in {"none", "alive", "exited", "reaped"} /\ exit \in {"none", "ok", "bad"}
  /\ log \in [File -> Log] /\ out \in Log
  /\ text \in (SUBSET Token) \cup {OverLimit}
  /\ seen \in BOOLEAN /\ timer \in {"unset", "set", "elapsed"} /\ late \in BOOLEAN /\ stop \in BOOLEAN
  /\ end \in End /\ told \in 0 .. 2 /\ result \in {"none", "error", "report"}

Empty == [has |-> {}, size |-> 0]

Init ==
  /\ plan \in Plan /\ at = "check"
  /\ child = "none" /\ exit = "none" /\ log = [f \in File |-> Empty]
  /\ out = Empty /\ text = {} /\ seen = FALSE
  /\ timer = "unset" /\ late = FALSE /\ stop = FALSE
  /\ end = NoEnd /\ told = 0 /\ result = "none"

Goto(p, q) == at = p /\ at' = q

-----------------------------------------------------------------------------
(* Up to the loop *)

Accepted ==
  /\ plan.ready /\ ~plan.gpu_assignment
  /\ plan.mode = "smoke" => plan.marker

\* the checks, and the directory with its log files
Check == Goto("check", IF Accepted THEN "prepare" ELSE "raise")
         /\ UNCHANGED <<plan, proc, out, text, seen, clock, end, told, result>>

Prepare == Goto("prepare", "spawn")
           /\ UNCHANGED <<plan, proc, out, text, seen, clock, end, told, result>>

Spawn ==
  /\ Goto("spawn", IF Job THEN "attach" ELSE "started")
  /\ child' = "alive"
  /\ UNCHANGED <<plan, exit, log, out, text, seen, clock, end, told, result>>

AttachJob == Goto("attach", "started")
             /\ UNCHANGED <<plan, proc, out, text, seen, clock, end, told, result>>

\* mutant: the error is returned, the child left
AttachFailsAlone ==
  /\ Goto("attach", "raise")
  /\ UNCHANGED <<plan, proc, out, text, seen, clock, end, told, result>>

\* spawn kills and waits for the child before it returns the error: there is no
\* ManagedChild yet whose drop would do it
AttachFails ==
  /\ Goto("attach", "raise")
  /\ child' = "reaped"
  /\ UNCHANGED <<plan, exit, log, out, text, seen, clock, end, told, result>>

NotifyStarted ==
  /\ Goto("started", "read")
  /\ told' = IF plan.controlled THEN told + 1 ELSE told
  /\ UNCHANGED <<plan, proc, out, text, seen, clock, end, result>>

-----------------------------------------------------------------------------
(* The loop *)

\* read_transcript reads one file after the other
ReadStdout(p, q) ==
  /\ Goto(p, q) /\ out' = log["stdout"]
  /\ UNCHANGED <<plan, proc, text, seen, clock, end, told, result>>

ReadStderr(p, q) ==
  /\ Goto(p, q)
  /\ text' = IF out.size + log["stderr"].size > MaxLog THEN OverLimit
             ELSE out.has \cup log["stderr"].has
  /\ UNCHANGED <<plan, proc, out, seen, clock, end, told, result>>

LoopEnds(success, reason, code) ==
  /\ at' = "drop"
  /\ end' = [success |-> success, reason |-> reason, code |-> code]

Shows(token) == text # OverLimit /\ token \in text

LookOverLimit ==
  /\ at = "look" /\ text = OverLimit
  /\ LoopEnds(FALSE, "log_limit", "none")
  /\ UNCHANGED <<plan, proc, out, text, seen, clock, told, result>>

\* the first time the marker shows it is notified, before the search for a panic
Look ==
  LET found == plan.marker /\ (seen \/ Shows("marker"))
      first == found /\ timer = "unset"
  IN /\ at = "look" /\ text # OverLimit
     /\ seen' = (seen \/ found)
     /\ timer' = IF first THEN "set" ELSE timer
     /\ told' = IF first /\ plan.controlled THEN told + 1 ELSE told
     /\ IF Shows("panic") THEN LoopEnds(FALSE, "guest_kernel_panic", "none")
                          ELSE at' = "tryWait" /\ UNCHANGED end
     /\ UNCHANGED <<plan, proc, out, text, late, stop, result>>

TryWaitNoReread ==                     \* mutant: the text read before the exit is judged
  /\ at = "tryWait"
  /\ at' = IF child = "exited" THEN "lookAgain" ELSE "stop"
  /\ UNCHANGED <<plan, proc, out, text, seen, clock, end, told, result>>

TryWait ==
  /\ at = "tryWait"
  /\ at' = IF child = "exited" THEN "reread" ELSE "stop"
  /\ UNCHANGED <<plan, proc, out, text, seen, clock, end, told, result>>

\* the transcript after the exit decides; the marker is not notified any more
LookAgain ==
  LET found    == seen \/ (plan.marker /\ Shows("marker"))
      verified == exit = "ok" /\ (plan.marker => found)
  IN /\ at = "lookAgain"
     /\ \/ text = OverLimit /\ LoopEnds(FALSE, "log_limit", exit) /\ UNCHANGED seen
        \/ Shows("panic") /\ LoopEnds(FALSE, "guest_kernel_panic", exit) /\ UNCHANGED seen
        \/ /\ text # OverLimit /\ ~Shows("panic")
           /\ seen' = found
           /\ LoopEnds(verified, IF verified THEN "guest_exit" ELSE "failed_or_unverified_exit", exit)
     /\ UNCHANGED <<plan, proc, out, text, clock, told, result>>

StopRequested ==
  /\ at = "stop"
  /\ IF plan.controlled /\ stop THEN LoopEnds(TRUE, "stop_requested", "none")
                                ELSE at' = "timers" /\ UNCHANGED end
  /\ UNCHANGED <<plan, proc, out, text, seen, clock, told, result>>

TimersUnseen ==                        \* mutant: a run that shows the marker never times out
  /\ at = "timers"
  /\ \/ timer = "elapsed" /\ LoopEnds(TRUE, "verified_then_stopped", "none")
     \/ timer # "elapsed" /\ late /\ ~seen /\ LoopEnds(FALSE, "timeout", "none")
     \/ timer # "elapsed" /\ ~(late /\ ~seen) /\ at' = "read" /\ UNCHANGED end
  /\ UNCHANGED <<plan, proc, out, text, seen, clock, told, result>>

TimersTimeoutFirst ==                  \* mutant: the timeout is looked at before the two seconds
  LET dwelt == plan.mode = "smoke" /\ timer = "elapsed" IN
  /\ at = "timers"
  /\ \/ late /\ LoopEnds(FALSE, "timeout", "none")
     \/ ~late /\ dwelt /\ LoopEnds(TRUE, "verified_then_stopped", "none")
     \/ ~late /\ ~dwelt /\ at' = "read" /\ UNCHANGED end
  /\ UNCHANGED <<plan, proc, out, text, seen, clock, told, result>>

\* smoke runs end two seconds after the marker, all runs at the timeout
Timers ==
  LET dwelt == plan.mode = "smoke" /\ timer = "elapsed" IN
  /\ at = "timers"
  /\ \/ dwelt /\ LoopEnds(TRUE, "verified_then_stopped", "none")
     \/ ~dwelt /\ late /\ LoopEnds(FALSE, "timeout", "none")
     \/ ~dwelt /\ ~late /\ at' = "read" /\ UNCHANGED end
  /\ UNCHANGED <<plan, proc, out, text, seen, clock, told, result>>

-----------------------------------------------------------------------------
(* After the loop *)

\* ManagedChild's drop kills the runtime and waits for it, when the loop has ended and
\* when an error unwinds through it
DropChild ==
  /\ Goto("drop", "save") \/ Goto("unwind", "raise")
  /\ child' = "reaped"
  /\ UNCHANGED <<plan, exit, log, out, text, seen, clock, end, told, result>>

Save ==
  /\ Goto("save", "done") /\ result' = "report"
  /\ UNCHANGED <<plan, proc, out, text, seen, clock, end, told>>

\* any ? of the function: a directory, a file, the child, a callback.  A ManagedChild
\* unwinds from spawn's return to its explicit drop.
IoFails ==
  /\ at \in {"prepare", "spawn", "started", "read", "readErr", "tryWait", "reread", "rereadErr",
             "stop", "save"}
  /\ at \in {"started", "stop"} => plan.controlled
  /\ at' = IF at \in {"prepare", "spawn", "save"} THEN "raise" ELSE "unwind"
  /\ UNCHANGED <<plan, proc, out, text, seen, clock, end, told, result>>

\* the callback fails for the marker after marker_seen is set
MarkerNotifyFails ==
  /\ at = "look" /\ plan.marker /\ Shows("marker") /\ timer = "unset" /\ plan.controlled
  /\ at' = "unwind" /\ seen' = TRUE /\ timer' = "set"
  /\ UNCHANGED <<plan, proc, out, text, late, stop, end, told, result>>

RaiseError ==
  /\ Goto("raise", "done") /\ result' = "error"
  /\ UNCHANGED <<plan, proc, out, text, seen, clock, end, told>>

-----------------------------------------------------------------------------
(* The runtime, the clock and the user *)

Write(f) ==
  /\ child = "alive" /\ log[f].size < MaxWrites
  /\ \E t \in {{}} \cup {{x} : x \in Token} :
       log' = [log EXCEPT ![f] = [has |-> @.has \cup t, size |-> @.size + 1]]
  /\ UNCHANGED <<plan, at, child, exit, out, text, seen, clock, end, told, result>>

Exit ==
  /\ child = "alive" /\ child' = "exited" /\ exit' \in {"ok", "bad"}
  /\ UNCHANGED <<plan, at, log, out, text, seen, clock, end, told, result>>

\* the loop's clock is not read after its end
MarkerAges ==
  /\ timer = "set" /\ end = NoEnd /\ timer' = "elapsed"
  /\ UNCHANGED <<plan, at, proc, out, text, seen, late, stop, end, told, result>>

TimeoutPasses ==
  /\ child # "none" /\ ~late /\ late' = TRUE
  /\ UNCHANGED <<plan, at, proc, out, text, seen, timer, stop, end, told, result>>

RequestStop ==
  /\ plan.controlled /\ ~stop /\ result = "none" /\ stop' = TRUE
  /\ UNCHANGED <<plan, at, proc, out, text, seen, timer, late, end, told, result>>

Step ==
  \/ Check \/ Prepare \/ Spawn \/ AttachJob \/ AttachFails \/ NotifyStarted
  \/ ReadStdout("read", "readErr") \/ ReadStderr("readErr", "look") \/ LookOverLimit \/ Look
  \/ TryWait \/ ReadStdout("reread", "rereadErr") \/ ReadStderr("rereadErr", "lookAgain") \/ LookAgain
  \/ StopRequested \/ Timers \/ DropChild \/ Save \/ IoFails \/ MarkerNotifyFails \/ RaiseError

Done == at = "done" /\ UNCHANGED vars

Next ==
  \/ Step \/ Done
  \/ \E f \in File : Write(f)
  \/ Exit \/ MarkerAges \/ TimeoutPasses \/ RequestStop

Spec     == Init /\ [][Next]_vars
\* the supervisor's thread runs and time passes; nothing is asked of the runtime
FairSpec == Spec /\ WF_vars(Step) /\ WF_vars(TimeoutPasses)

-----------------------------------------------------------------------------
(* Properties *)

Written(t) == \E f \in File : t \in log[f].has

\* No way out of the function, early errors included, leaves a runtime behind, and
\* the report is written when it is gone (ManagedChild, spawn).
NoRuntimeIsLeft == result # "none" => child \in {"none", "reaped"}

\* A guest exit is a success only on the complete transcript: everything the runtime
\* wrote before it exited is judged, not what one of the earlier reads showed.
ExitIsJudgedOnTheWholeLog ==
  end.reason = "guest_exit" =>
    exit = "ok" /\ ~Written("panic") /\ (plan.marker => Written("marker"))

\* Reasons are truthful: each names something that really happened, and of several
\* that did the one that counts most.  A panic in the transcript that was judged
\* outranks the marker next to it, the exit, a stop and the timers; two seconds after
\* the marker outrank the timeout.
ReasonsAreTruthful ==
  /\ end # NoEnd => (Shows("panic") <=> end.reason = "guest_kernel_panic")
  /\ end.reason = "timeout" => ~(plan.mode = "smoke" /\ timer = "elapsed")
  /\ end.reason = "timeout" => late
  /\ end.reason = "log_limit" => log["stdout"].size + log["stderr"].size > MaxLog
  /\ end.reason = "guest_kernel_panic" => Written("panic")
  /\ end.reason = "stop_requested" => stop /\ plan.controlled
  /\ end.reason = "verified_then_stopped" => plan.mode = "smoke" /\ Written("marker")
  /\ end.code # "none" => end.code = exit
  /\ seen => plan.marker /\ Written("marker")

\* The function returns, whatever the runtime does or does not do.
RunEnds == <>(result # "none")

Outcome == IF result = "report" THEN (IF end.success THEN "passed" ELSE "failed") ELSE result
Runtime == IF child = "none" THEN "none" ELSE IF child = "reaped" THEN "gone" ELSE "live"
Contract == INSTANCE SupervisedRun WITH runtime <- Runtime, result <- Outcome

\* A run implements what its caller sees of it: it is told of the runtime only while
\* there is one, of the start and the marker once each, and returns when it is gone.
ImplementsSupervisedRun == Contract!Spec
=============================================================================
