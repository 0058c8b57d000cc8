------------------------------ MODULE HcsProbe ------------------------------
(***************************************************************************)
(* probe of crates/limiar/src/hcs.rs: a disposable compute system is       *)
(* created, started, given a GPU and watched over its serial pipe until    *)
(* its guest has reported and powered off; then it is closed and its       *)
(* absence is verified.                                                    *)
(*                                                                         *)
(* External: the compute service, and the guest, which prints its report   *)
(* as guest/linux/probe-init.sh does, waits for the acknowledgement and    *)
(* powers off, or panics, or is stopped.                                   *)
(***************************************************************************)
EXTENDS Naturals, Sequences

CONSTANT Scripts   \* the reports a guest may print

Line == {"dxg", "render", "render_failed", "userspace_ok", "ready", "panic"}

\* the script ends with its "ready"
ASSUME ScriptsAssumption ==
  \A s \in Scripts : s \in Seq(Line \ {"panic"}) /\ \A i \in DOMAIN s : s[i] = "ready" => i = Len(s)

VARIABLES
  at, render,                 \* where probe is; plan.render_marker is given
  svc, exit, closing,         \* the system in the service, its exit type, its end asked for
  todo, out, poweroff,        \* the guest: lines to print, lines printed, the order to power off
  pipe, got,                  \* the serial pipe: open or broken; lines of out received
  handle,                     \* System.handle is not null
  connected, stopped, late,   \* locals of the loop, and its deadline
  acknowledged, report

guest == <<svc, exit, closing, todo, out, poweroff, pipe>>
local == <<got, connected, stopped, late, acknowledged>>
vars  == <<at, render, guest, handle, local, report>>

Stages == {"load_hcs", "create_vm", "start_vm", "attach_gpu_pv", "guest_probe", "complete"}
Errors == {"none", "failed", "panic", "incomplete", "not_graceful", "not_rendered",
           "disconnected", "timeout"}
Report == [stage : Stages, error : Errors, vm_created : BOOLEAN, gpu_request_accepted : BOOLEAN,
           guest_boot_verified : BOOLEAN, guest_dxg : BOOLEAN, guest_rendering_verified : BOOLEAN,
           guest_exit_type : {"none", "graceful", "forced"}, cleanup_verified : BOOLEAN,
           success : BOOLEAN]

TypeOK ==
  /\ at \in {"load", "create", "start", "connect", "attach", "receive", "state", "drain", "judge",
             "dropSystem", "absent", "report", "done", "error", "crashed"}
  /\ render \in BOOLEAN /\ svc \in {"absent", "created", "running", "stopped"}
  /\ exit \in {"none", "graceful", "forced"} /\ closing \in BOOLEAN /\ poweroff \in BOOLEAN
  /\ pipe \in {"none", "open", "broken"} /\ got \in 0 .. Len(out) /\ handle \in BOOLEAN
  /\ connected \in BOOLEAN /\ stopped \in BOOLEAN /\ late \in BOOLEAN /\ acknowledged \in BOOLEAN
  /\ report \in Report

Init ==
  /\ at = "load" /\ render \in BOOLEAN
  /\ svc = "absent" /\ exit = "none" /\ closing = FALSE
  /\ todo \in Scripts /\ out = <<>> /\ poweroff = FALSE /\ pipe = "none"
  /\ handle = FALSE /\ got = 0 /\ connected = FALSE /\ stopped = FALSE /\ late = FALSE
  /\ acknowledged = FALSE
  /\ report = [stage |-> "load_hcs", error |-> "none", vm_created |-> FALSE,
               gpu_request_accepted |-> FALSE, guest_boot_verified |-> FALSE, guest_dxg |-> FALSE,
               guest_rendering_verified |-> FALSE, guest_exit_type |-> "none",
               cleanup_verified |-> FALSE, success |-> FALSE]

Live == {"created", "running", "stopped"}

-----------------------------------------------------------------------------
(* The closure of probe: a step of a stage succeeds, or fails and unwinds *)

Advance(p, q, stage) == at = p /\ at' = q /\ report' = [report EXCEPT !.stage = stage]

FailAt(p, error) == at = p /\ at' = "dropSystem" /\ report' = [report EXCEPT !.error = error]

Load == /\ Advance("load", "create", "create_vm")
        /\ UNCHANGED <<render, guest, handle, local>>

\* without the library there is nothing to verify
LoadFails == /\ at = "load" /\ at' = "report" /\ report' = [report EXCEPT !.error = "failed"]
             /\ UNCHANGED <<render, guest, handle, local>>

\* an operation that fails, or is cancelled when it takes too long, may have had its effect
Cancelled(effect, none) == effect \/ none

\* the call itself hands out the handle
CreateSystem ==
  /\ at = "create" /\ at' = "start" /\ svc' = "created" /\ handle' = TRUE
  /\ report' = [report EXCEPT !.stage = "start_vm", !.vm_created = TRUE]
  /\ UNCHANGED <<render, exit, closing, todo, out, poweroff, pipe, local>>

CreateForgets ==                       \* mutant: the system exists only once create succeeded
  /\ FailAt("create", "failed")
  /\ handle' = FALSE /\ svc' \in {"absent", "created"}
  /\ UNCHANGED <<render, exit, closing, todo, out, poweroff, pipe, local>>

\* an immediate error leaves no system, a late one or a timeout leaves the handle's
CreateFails ==
  /\ FailAt("create", "failed")
  /\ handle' \in BOOLEAN /\ svc' \in {"absent"} \cup IF handle' THEN {"created"} ELSE {}
  /\ UNCHANGED <<render, exit, closing, todo, out, poweroff, pipe, local>>

Start ==
  /\ at = "start" /\ at' = "connect" /\ svc' = "running" /\ pipe' = "open"
  /\ UNCHANGED <<render, exit, closing, todo, out, poweroff, handle, local, report>>

StartFails ==
  /\ FailAt("start", "failed")
  /\ Cancelled(svc' = "running" /\ pipe' = "open", UNCHANGED <<svc, pipe>>)
  /\ UNCHANGED <<render, exit, closing, todo, out, poweroff, handle, local>>

Connect == /\ pipe = "open" /\ Advance("connect", "attach", "attach_gpu_pv")
           /\ UNCHANGED <<render, guest, handle, local>>

Attach ==
  /\ at = "attach" /\ at' = "receive"
  /\ report' = [report EXCEPT !.stage = "guest_probe", !.gpu_request_accepted = TRUE]
  /\ UNCHANGED <<render, guest, handle, local>>

\* the pipe never appears, an operation or a file fails, the log grows over its limit
StepFails ==
  /\ \E p \in {"connect", "attach", "receive", "state", "drain"} : FailAt(p, "failed")
  /\ UNCHANGED <<render, guest, handle, local>>

\* receive: one chunk of what is available, or false when the pipe is broken
Receive ==
  \/ pipe = "open" /\ connected' = TRUE
     /\ IF got = Len(out) THEN got' = got ELSE got' \in got + 1 .. Len(out)
  \/ pipe = "broken" /\ connected' = FALSE /\ got' = got

ReceiveStep ==
  /\ at = "receive" /\ at' = "state" /\ Receive
  /\ UNCHANGED <<render, guest, handle, stopped, late, acknowledged, report>>

StateUndrained ==                      \* mutant: what was received before the stop is judged
  /\ at = "state" /\ at' = "judge" /\ stopped' = (svc = "stopped")
  /\ UNCHANGED <<render, guest, handle, got, connected, late, acknowledged, report>>

State ==
  /\ at = "state" /\ stopped' = (svc = "stopped")
  /\ at' = IF stopped' THEN "drain" ELSE "judge"
  /\ UNCHANGED <<render, guest, handle, got, connected, late, acknowledged, report>>

\* after the stop, until nothing more comes
Drain ==
  /\ at = "drain" /\ Receive
  /\ at' = IF ~connected' \/ got' = got THEN "judge" ELSE "drain"
  /\ UNCHANGED <<render, guest, handle, stopped, late, acknowledged, report>>

Text        == SubSeq(out, 1, got)
Has(s, l)   == \E i \in DOMAIN s : s[i] = l
Complete(s) == Has(s, "ready") /\ Has(s, "userspace_ok")
Rendered(s) == /\ \E i \in DOMAIN s : s[i] = "render" /\ \A j \in DOMAIN s : s[j] = "render" => j = i
               /\ ~Has(s, "render_failed")

Noted == [report EXCEPT !.guest_boot_verified = Complete(Text), !.guest_dxg = Has(Text, "dxg"),
                        !.guest_rendering_verified = render /\ Rendered(Text)]

Ack == Complete(Text) /\ ~acknowledged /\ ~stopped

\* write_all of the acknowledgement has no deadline: it may wait for the pipe for ever
Writes == at = "judge" /\ Ack /\ ~Has(Text, "panic") /\ pipe = "open"

JudgePanic == FailAt("judge", "panic") /\ Has(Text, "panic") /\ UNCHANGED <<render, guest, handle, local>>

JudgeStopped ==
  LET noted == [Noted EXCEPT !.guest_exit_type = exit]
      error == CASE ~Complete(Text) -> "incomplete"
                 [] exit # "graceful" -> "not_graceful"
                 [] render /\ ~noted.guest_rendering_verified -> "not_rendered"
                 [] OTHER -> "none"
  IN /\ at = "judge" /\ at' = "dropSystem" /\ stopped /\ ~Has(Text, "panic")
     /\ report' = [noted EXCEPT !.error = error, !.stage = IF error = "none" THEN "complete" ELSE @]
     /\ UNCHANGED <<render, guest, handle, local>>

AckFails ==
  /\ at = "judge" /\ at' = "dropSystem" /\ Ack /\ ~Has(Text, "panic")
  /\ report' = [Noted EXCEPT !.error = "failed"]
  /\ UNCHANGED <<render, guest, handle, local>>

JudgeRunning ==
  /\ at = "judge" /\ ~stopped /\ ~Has(Text, "panic")
  /\ Ack => pipe = "open"
  /\ IF Ack THEN acknowledged' = TRUE /\ poweroff' = TRUE ELSE UNCHANGED <<acknowledged, poweroff>>
  /\ \/ ~connected /\ at' = "dropSystem" /\ report' = [Noted EXCEPT !.error = "disconnected"]
     \/ connected /\ late /\ at' = "dropSystem" /\ report' = [Noted EXCEPT !.error = "timeout"]
     \/ connected /\ ~late /\ at' = "receive" /\ report' = Noted
  /\ UNCHANGED <<render, svc, exit, closing, todo, out, pipe, handle, got, connected, stopped, late>>

-----------------------------------------------------------------------------
(* After the closure *)

\* the drop of System, where there is a handle: terminate, whether it succeeds or not,
\* and close; the configuration asks for the end of the system at the last close
DropSystem ==
  /\ at = "dropSystem" /\ at' = "absent" /\ late' = FALSE
  /\ handle' = FALSE /\ closing' = handle
  /\ UNCHANGED <<render, svc, exit, todo, out, poweroff, pipe, got, connected, stopped,
                 acknowledged, report>>

EnumerateTrusting ==                   \* mutant: a list that cannot be read is taken as empty
  /\ at = "absent" /\ at' = "report"
  /\ report' = [report EXCEPT !.cleanup_verified = (svc = "absent" \/ ~late)]
  /\ UNCHANGED <<render, guest, handle, local>>

EnumerateForever ==                    \* mutant: no deadline
  /\ at = "absent"
  /\ IF svc = "absent" THEN at' = "report" ELSE at' = at
  /\ UNCHANGED <<render, guest, handle, local, report>>

\* wait_absent: list the system until it is gone, a list fails or ten seconds have passed
Enumerate ==
  /\ at = "absent"
  /\ \/ svc = "absent" /\ at' = "report" /\ report' = [report EXCEPT !.cleanup_verified = TRUE]
     \/ at' = "report" /\ UNCHANGED report
     \/ svc # "absent" /\ ~late /\ UNCHANGED <<at, report>>
  /\ UNCHANGED <<render, guest, handle, local>>

SuccessUnchecked ==                    \* mutant: the cleanup does not count
  /\ at = "report" /\ at' = "done" /\ report' = [report EXCEPT !.success = (report.error = "none")]
  /\ UNCHANGED <<render, guest, handle, local>>

Conclude ==
  /\ at = "report" /\ at' \in {"done", "error"}
  /\ report' = [report EXCEPT !.success = (report.error = "none" /\ report.cleanup_verified)]
  /\ UNCHANGED <<render, guest, handle, local>>

Probe ==
  \/ Load \/ LoadFails \/ CreateSystem \/ CreateFails \/ Start \/ StartFails \/ Connect \/ Attach
  \/ StepFails \/ ReceiveStep \/ State \/ Drain \/ JudgePanic \/ JudgeStopped \/ JudgeRunning \/ AckFails
  \/ DropSystem \/ Enumerate \/ Conclude

\* the probe's process dies, and its last handle is closed for it
Crash ==
  /\ at \notin {"done", "error", "crashed"} /\ at' = "crashed"
  /\ handle' = FALSE /\ closing' = (closing \/ handle)
  /\ UNCHANGED <<render, svc, exit, todo, out, poweroff, pipe, local, report>>

-----------------------------------------------------------------------------
(* The guest, the service and the clock *)

GuestPrints ==
  /\ svc = "running" /\ pipe = "open" /\ todo # <<>> /\ ~Has(out, "panic")
  /\ out' = Append(out, Head(todo)) /\ todo' = Tail(todo)
  /\ UNCHANGED <<at, render, svc, exit, closing, poweroff, pipe, handle, local, report>>

GuestPanics ==
  /\ svc = "running" /\ pipe = "open" /\ ~Has(out, "panic") /\ out' = Append(out, "panic")
  /\ UNCHANGED <<at, render, svc, exit, closing, todo, poweroff, pipe, handle, local, report>>

\* a guest that read the acknowledgement at the end of its script powers off; any other
\* end, that of a panic included, is not graceful
GuestStops ==
  /\ svc = "running" /\ svc' = "stopped"
  /\ exit' = IF poweroff /\ todo = <<>> /\ ~Has(out, "panic") /\ ~closing THEN "graceful" ELSE "forced"
  /\ UNCHANGED <<at, render, closing, todo, out, poweroff, pipe, handle, local, report>>

\* the end of the pipe discards what was not read
PipeBreaks ==
  /\ pipe = "open" /\ svc # "running" /\ pipe' = "broken"
  /\ UNCHANGED <<at, render, svc, exit, closing, todo, out, poweroff, handle, local, report>>

SystemEnds ==
  /\ closing /\ svc \in Live /\ svc' = "absent"
  /\ pipe' = IF pipe = "open" THEN "broken" ELSE pipe
  /\ UNCHANGED <<at, render, exit, closing, todo, out, poweroff, handle, local, report>>

DeadlinePasses ==
  /\ at \in {"receive", "state", "drain", "judge", "absent"} /\ ~late /\ late' = TRUE
  /\ UNCHANGED <<at, render, guest, handle, got, connected, stopped, acknowledged, report>>

Next ==
  \/ Probe \/ Crash
  \/ GuestPrints \/ GuestPanics \/ GuestStops \/ PipeBreaks \/ SystemEnds \/ DeadlinePasses

Spec     == Init /\ [][Next]_vars
\* the probe's thread runs where it does not wait for a write, and time passes; nothing is
\* asked of guest and service
FairSpec == Spec /\ WF_vars(~Writes /\ Probe) /\ WF_vars(DeadlinePasses)

-----------------------------------------------------------------------------
(* Properties *)

\* A success is proven: the guest printed its whole report and never panicked, was told
\* to power off and did, rendered exactly once where that was asked, and no system is left.
SuccessIsProven ==
  report.success =>
    /\ Complete(out) /\ ~Has(out, "panic") /\ acknowledged /\ exit = "graceful"
    /\ render => Rendered(out)
    /\ report.gpu_request_accepted /\ svc = "absent" /\ ~handle

\* A system in the service is held by its handle or on its way out, on every path: an
\* operation that timed out, an early error and a crash included (ShouldTerminateOnLastHandleClosed).
SystemIsOwned == svc \in Live => handle \/ closing

\* cleanup_verified is a statement about the service, and it stays true.
CleanupIsFinal == report.cleanup_verified => svc = "absent" /\ ~handle

\* The order to power off is given when the whole report has been received, so nothing
\* of it can be lost in the exit that follows.
ReportPrecedesPoweroff == exit = "graceful" => Complete(Text)

\* A guest that stopped is judged on all it printed: the error of a panic is "panic", and
\* a report is incomplete only if the guest did not finish it or the pipe broke over it.
ErrorsNameTheirCause ==
  pipe = "open" /\ at = "dropSystem" /\ stopped =>
    /\ report.error = "incomplete" => ~Complete(out) /\ ~Has(out, "panic")
    /\ report.error = "not_graceful" => ~Has(out, "panic")

\* The probe ends whatever guest and service do, unless they keep the pipe open and never
\* take the acknowledgement.
ProbeEnds == <>(at \in {"done", "error", "crashed"}) \/ <>[]Writes
=============================================================================
