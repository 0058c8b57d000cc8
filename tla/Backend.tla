------------------------------ MODULE Backend ------------------------------
(***************************************************************************)
(* The backend service: its start, its main loop and its pipe reader       *)
(* (backend/src/main.rs, ipc.rs), what it reports in the control region    *)
(* (protocol.rs, shmem.rs) and the surfaces it presents on                 *)
(* (presentation.rs).                                                      *)
(*                                                                         *)
(* Here the ring is a sequence of commands and a handler an outcome: the   *)
(* modules CommandRing and Renderer look inside.  A fence is named by its  *)
(* place in the ring, as one device numbers its fences.  The doorbell and  *)
(* shutdown events only cut the loop's wait of 5 ms short: the wait ends   *)
(* anyhow, and the reader sets the shutdown flag before the event.         *)
(***************************************************************************)
EXTENDS Naturals, Sequences

CONSTANTS
  Mode,        \* presentation_mode of the configuration
  Sizes,       \* sizes a resize command asks for
  FirstSize,   \* width and height of the configuration
  MaxCommands, \* bound: commands the guest submits
  MaxMessages, \* bound: messages the device sends
  MaxFaults,   \* bound: broken pipes, lost devices, closed windows and Ctrl+C, together
  None         \* no surface, no resize

ASSUME ConstantsAssumption ==
  /\ Mode \in {"headless", "windowed", "dual"}
  /\ FirstSize \in Sizes /\ None \notin Sizes
  /\ MaxCommands \in Nat /\ MaxMessages \in Nat /\ MaxFaults \in Nat

VARIABLES
  main,      \* where the main thread is
  reader,    \* where the pipe reader thread is
  shutdown,  \* the shutdown flag the threads share
  pipe,      \* the pipe to the device
  inbox,     \* messages of the device not read yet
  sent,      \* messages the device sent
  ring,      \* the commands submitted
  consumer,  \* consumer_ptr
  completed, \* host_fence_completed
  current,   \* current_fence of the command processor
  lastIrq,   \* last_irq_fence
  announced, \* the newest fence the device got an interrupt for
  processed, \* the batch has processed a command
  present,   \* pending_present
  resize,    \* pending_resize
  status,    \* status flags of the control region
  code,      \* error_code
  lost,      \* the D3D11 device is lost, and whether that was reported
  closed,    \* the user closed the window
  size,      \* width and height of the presentation's configuration
  swapchain, \* size of its swapchain
  shared,    \* size of its shared texture
  handled,   \* history: the last present the loop handled
  faults     \* faults so far

threads == <<main, reader, shutdown>>
device  == <<pipe, inbox, sent>>
fences  == <<completed, current, lastIrq, announced>>
batch   == <<processed, present, resize>>
pace    == <<fences, batch>>
report  == <<status, code>>
world   == <<lost, closed, faults>>
surface == <<size, swapchain, shared>>
screen  == <<surface, handled>>
vars    == <<main, reader, shutdown, pipe, inbox, sent, ring, consumer, completed, current, lastIrq,
             announced, processed, present, resize, status, code, lost, closed, size, swapchain,
             shared, handled, faults>>

Command  == {"fence", "present", "create", "shader"} \cup Sizes
Fallible == {"create", "shader"}
Message  == {"handshake", "doorbell", "shutdown"}
Starting == {"connect", "handshake", "render", "startReader", "ready"}
Looping  == {"top", "batch", "fence", "announce", "present", "resize", "resizing", "more", "wait"}
Ending   == {"status", "join", "exited"}

Place == 0 .. MaxCommands

TypeOK ==
  /\ main \in Starting \cup Looping \cup Ending \cup {"failed"}
  /\ reader \in {"none", "check", "read", "exited"} /\ shutdown \in BOOLEAN
  /\ pipe \in {"none", "up", "down"} /\ inbox \in Seq(Message) /\ sent \in 0 .. MaxMessages
  /\ ring \in Seq(Command) /\ consumer \in 0 .. Len(ring)
  /\ completed \in Place /\ current \in Place /\ lastIrq \in Place /\ announced \in Place
  /\ processed \in BOOLEAN /\ present \in Place /\ handled \in Place
  /\ resize \in Sizes \cup {None}
  /\ status \subseteq {"READY", "ERROR", "DEVICE_LOST", "RESIZING", "SHUTDOWN"}
  /\ code \in {"none", "device_lost", "shader_compile", "out_of_memory", "internal", "not_found"}
  /\ lost \in {"no", "lost", "reported"} /\ closed \in BOOLEAN /\ faults \in 0 .. MaxFaults
  /\ size \in Sizes /\ swapchain \in Sizes \cup {None} /\ shared \in Sizes \cup {None}

Init ==
  /\ main = "connect" /\ reader = "none" /\ shutdown = FALSE
  /\ pipe = "none" /\ inbox = <<>> /\ sent = 0
  /\ ring = <<>> /\ consumer = 0
  /\ completed = 0 /\ current = 0 /\ lastIrq = 0 /\ announced = 0
  /\ processed = FALSE /\ present = 0 /\ resize = None
  /\ status = {} /\ code = "none" /\ lost = "no" /\ closed = FALSE
  /\ size = FirstSize /\ swapchain = None /\ shared = None
  /\ handled = 0 /\ faults = 0

Goto(p, q) == main = p /\ main' = q

\* set_error also sets the flag; nothing in the backend clears either
SetError(c, flags) == code' = c /\ status' = status \cup flags \cup {"ERROR"}

-----------------------------------------------------------------------------
(* The pipe *)

\* read_message: a message, or an error once the pipe is broken and drained
Reads(m) == inbox # <<>> /\ Head(inbox) = m /\ inbox' = Tail(inbox) /\ UNCHANGED <<pipe, sent>>
ReadFails == pipe = "down" /\ inbox = <<>> /\ UNCHANGED device

\* send_message: reads and writes of the handle serialize, so that a write waits for
\* the reader's pending read
MayWrite == reader # "read"

-----------------------------------------------------------------------------
(* Start *)

\* init_pipe_server
WaitForConnection ==
  /\ Goto("connect", "handshake") /\ pipe # "none"
  /\ UNCHANGED <<reader, shutdown, device, ring, consumer, pace, report, world, screen>>

\* opens the shared memory and checks its control region, each of which may fail, and
\* acknowledges; any other message is an error
PerformHandshake ==
  /\ main = "handshake"
  /\ \/ Reads("handshake") /\ main' = "failed"
     \/ Reads("handshake") /\ pipe = "up" /\ main' = "render"
     \/ Reads("shutdown") /\ main' = "failed"
     \/ ReadFails /\ main' = "failed"
  /\ UNCHANGED <<reader, shutdown, ring, consumer, pace, report, world, screen>>

\* the window and its swapchain, the shared texture: each for its modes
InitRenderer ==
  /\ main = "render"
  /\ \/ /\ main' = "startReader"
        /\ swapchain' = IF Mode = "headless" THEN None ELSE size
        /\ shared' = IF Mode = "windowed" THEN None ELSE size
     \/ main' = "failed" /\ UNCHANGED <<swapchain, shared>>
  /\ UNCHANGED <<reader, shutdown, device, ring, consumer, pace, report, world, size, handled>>

StartPipeReader ==
  /\ Goto("startReader", "ready") /\ reader' = "check"
  /\ UNCHANGED <<shutdown, device, ring, consumer, pace, report, world, screen>>

Ready ==
  /\ Goto("ready", "top") /\ status' = {"READY"}
  /\ UNCHANGED <<reader, shutdown, device, ring, consumer, pace, code, world, screen>>

-----------------------------------------------------------------------------
(* The pipe reader *)

ReaderChecks ==
  /\ reader = "check" /\ reader' = IF shutdown THEN "exited" ELSE "read"
  /\ UNCHANGED <<main, shutdown, device, ring, consumer, pace, report, world, screen>>

\* mutant: only the shutdown message sets the flag
ReaderReadsQuietly ==
  /\ reader = "read"
  /\ \/ Reads("doorbell") /\ reader' = "check" /\ UNCHANGED shutdown
     \/ Reads("shutdown") /\ reader' = "exited" /\ shutdown' = TRUE
     \/ ReadFails /\ reader' = "exited" /\ UNCHANGED shutdown
  /\ UNCHANGED <<main, ring, consumer, pace, report, world, screen>>

\* a doorbell signals the event inside read_message; a second handshake, which the device
\* never sends, would only be logged
ReaderReads ==
  /\ reader = "read"
  /\ \/ Reads("doorbell") /\ reader' = "check" /\ UNCHANGED shutdown
     \/ (Reads("shutdown") \/ ReadFails) /\ reader' = "exited" /\ shutdown' = TRUE
  /\ UNCHANGED <<main, ring, consumer, pace, report, world, screen>>

Reader == ReaderChecks \/ ReaderReads

-----------------------------------------------------------------------------
(* The main loop *)

Shutdown ==
  /\ Goto("top", "status") /\ shutdown
  /\ UNCHANGED <<reader, shutdown, device, ring, consumer, pace, report, world, screen>>

\* the loss of the device is reported once; process_messages ends the loop when the
\* window was closed
Top ==
  /\ main = "top" /\ ~shutdown
  /\ main' = IF closed THEN "status" ELSE "batch"
  /\ processed' = FALSE
  /\ IF lost = "lost" THEN lost' = "reported" /\ SetError("device_lost", {"DEVICE_LOST"})
                     ELSE UNCHANGED <<report, lost>>
  /\ UNCHANGED <<reader, shutdown, device, ring, consumer, fences, present, resize, closed,
                  faults, screen>>

Pending == consumer < Len(ring)
Upcoming == ring[consumer + 1]  \* the command at the consumer position

\* the ring is empty, or more than 1 MB is processed: what some commands may amount to
BatchEnds ==
  /\ Goto("batch", "present") /\ (~Pending \/ processed)
  /\ UNCHANGED <<reader, shutdown, device, ring, consumer, pace, report, world, screen>>

\* a handler that succeeds; the loop takes a pending present at once, in the place of
\* the one before, and leaves a pending resize with the processor
Process ==
  /\ Goto("batch", "fence") /\ Pending
  /\ consumer' = consumer + 1 /\ processed' = TRUE
  /\ current' = IF Upcoming = "fence" THEN consumer' ELSE current
  /\ present' = IF Upcoming = "present" THEN consumer' ELSE present
  /\ resize' = IF Upcoming \in Sizes THEN Upcoming ELSE resize
  /\ UNCHANGED <<reader, shutdown, device, ring, completed, lastIrq, announced, report, world,
                  screen>>

\* mutant: an error starts the loop anew
ProcessFailsToTop ==
  /\ Goto("batch", "top") /\ Pending
  /\ Upcoming = "create" /\ SetError("internal", {})
  /\ present' = 0 /\ UNCHANGED processed
  /\ UNCHANGED <<reader, shutdown, device, ring, consumer, fences, resize, world, screen>>

\* an error leaves the command in the ring and ends the batch
ProcessFails ==
  /\ Goto("batch", "present") /\ Pending
  /\ Upcoming = "create"
  /\ SetError("internal", {}) \/ SetError("out_of_memory", {})
  /\ UNCHANGED <<reader, shutdown, device, ring, consumer, pace, world, screen>>

\* a shader that does not compile leaves it there too, and the batch goes on with it
ShaderFails ==
  /\ Goto("batch", "batch") /\ Pending
  /\ Upcoming = "shader" /\ SetError("shader_compile", {})
  /\ UNCHANGED <<reader, shutdown, device, ring, consumer, pace, world, screen>>

\* mutant: the fence the guest requested last completes
CompleteRequested ==
  LET asked == {f \in DOMAIN ring : ring[f] = "fence"} IN
  /\ main = "fence"
  /\ IF current > lastIrq
     THEN main' = "announce" /\ lastIrq' = current
          /\ completed' = CHOOSE f \in asked : \A g \in asked : g <= f
     ELSE main' = "batch" /\ UNCHANGED <<completed, lastIrq>>
  /\ UNCHANGED <<reader, shutdown, device, ring, consumer, current, announced, batch, report,
                  world, screen>>

\* mutant: the first fence is taken for one completed already
CompleteLater ==
  /\ main = "fence"
  /\ IF current > lastIrq + 1
     THEN main' = "announce" /\ lastIrq' = current /\ completed' = current
     ELSE main' = "batch" /\ UNCHANGED <<completed, lastIrq>>
  /\ UNCHANGED <<reader, shutdown, device, ring, consumer, current, announced, batch, report,
                  world, screen>>

Complete ==
  /\ main = "fence"
  /\ IF current > lastIrq THEN main' = "announce" /\ lastIrq' = current /\ completed' = current
                          ELSE main' = "batch" /\ UNCHANGED <<completed, lastIrq>>
  /\ UNCHANGED <<reader, shutdown, device, ring, consumer, current, announced, batch, report,
                  world, screen>>

\* the interrupt; a broken pipe is only logged
Announce ==
  /\ Goto("announce", "batch") /\ MayWrite
  /\ announced' = IF pipe = "up" THEN completed ELSE announced
  /\ UNCHANGED <<reader, shutdown, device, ring, consumer, completed, current, lastIrq, batch,
                  report, world, screen>>

\* the present of the batch: its texture is unknown, the swapchain refuses, or it shows
Present ==
  /\ Goto("present", "resize")
  /\ present' = 0
  /\ handled' = IF present = 0 THEN handled ELSE present
  /\ \/ UNCHANGED report
     \/ present # 0 /\ SetError("not_found", {})
     \/ present # 0 /\ swapchain # None /\ SetError("device_lost", {})
  /\ UNCHANGED <<reader, shutdown, device, ring, consumer, fences, processed, resize, world,
                  surface>>

NoResize ==
  /\ Goto("resize", "more") /\ resize = None
  /\ UNCHANGED <<reader, shutdown, device, ring, consumer, pace, report, world, screen>>

BeginResize ==
  /\ Goto("resize", "resizing") /\ resize # None
  /\ status' = status \cup {"RESIZING"}
  /\ UNCHANGED <<reader, shutdown, device, ring, consumer, pace, code, world, screen>>

\* resize(): the new size is kept before anything follows it; the swapchain's buffers,
\* its view, or the new shared texture may then fail
Resized(swapOk, viewOk, textureOk) ==
  LET changed == resize # size
      fits    == changed /\ swapOk /\ viewOk
  IN /\ size' = resize
     /\ swapchain' = IF changed /\ swapchain # None /\ swapOk THEN resize ELSE swapchain
     /\ shared' = IF ~fits \/ shared = None THEN shared ELSE IF textureOk THEN resize ELSE None

\* mutant: a failed resize is only logged
ResizeUnreported ==
  /\ Goto("resizing", "more") /\ resize' = None
  /\ \E swapOk, viewOk, textureOk \in BOOLEAN :
       /\ swapchain = None => swapOk /\ viewOk
       /\ Resized(swapOk, viewOk, textureOk)
  /\ status' = status \ {"RESIZING"} /\ UNCHANGED code
  /\ UNCHANGED <<reader, shutdown, device, ring, consumer, fences, processed, present, world,
                  handled>>

\* mutant: a failed resize returns before the flag is cleared
ResizeFlagStays ==
  /\ Goto("resizing", "more") /\ resize' = None
  /\ \E textureOk \in BOOLEAN :
       /\ ~textureOk => resize # size /\ shared # None
       /\ Resized(TRUE, TRUE, textureOk)
       /\ IF textureOk THEN status' = status \ {"RESIZING"} /\ UNCHANGED code
                       ELSE SetError("internal", {})
  /\ UNCHANGED <<reader, shutdown, device, ring, consumer, fences, processed, present, world,
                  handled>>

Resize ==
  /\ Goto("resizing", "more") /\ resize' = None
  /\ \E swapOk, viewOk, textureOk \in BOOLEAN :
       LET failed == ~(swapOk /\ viewOk /\ textureOk) IN
       /\ swapchain = None => swapOk /\ viewOk
       /\ shared = None => textureOk
       /\ failed => resize # size
       /\ Resized(swapOk, viewOk, textureOk)
       /\ status' = (IF failed THEN status \cup {"ERROR"} ELSE status) \ {"RESIZING"}
       /\ code' = IF failed THEN "internal" ELSE code
  /\ UNCHANGED <<reader, shutdown, device, ring, consumer, fences, processed, present, world,
                  handled>>

More ==
  /\ Goto("more", IF processed THEN "top" ELSE "wait")
  /\ UNCHANGED <<reader, shutdown, device, ring, consumer, pace, report, world, screen>>

\* wait_for_doorbell: an event, or 5 ms
WaitForDoorbell ==
  /\ Goto("wait", "top")
  /\ UNCHANGED <<reader, shutdown, device, ring, consumer, pace, report, world, screen>>

-----------------------------------------------------------------------------
(* The end *)

\* set_status replaces every flag
SetShutdownStatus ==
  /\ Goto("status", "join") /\ status' = {"SHUTDOWN"}
  /\ UNCHANGED <<reader, shutdown, device, ring, consumer, pace, code, world, screen>>

\* the pipeline is dropped with the service
Join ==
  /\ Goto("join", "exited") /\ reader = "exited"
  /\ UNCHANGED <<reader, shutdown, device, ring, consumer, pace, report, world, screen>>

Main ==
  \/ WaitForConnection \/ PerformHandshake \/ InitRenderer \/ StartPipeReader \/ Ready
  \/ Shutdown \/ Top
  \/ BatchEnds \/ Process \/ ProcessFails \/ ShaderFails \/ Complete \/ Announce
  \/ Present \/ NoResize \/ BeginResize \/ Resize \/ More \/ WaitForDoorbell
  \/ SetShutdownStatus \/ Join

-----------------------------------------------------------------------------
(* The device, the guest and the user *)

Connect ==
  /\ pipe = "none" /\ pipe' = "up"
  /\ UNCHANGED <<threads, inbox, sent, ring, consumer, pace, report, world, screen>>

\* the device begins with a handshake, or gives up with a shutdown; its doorbells follow
\* the acknowledgement
Send(m) ==
  /\ pipe = "up" /\ sent < MaxMessages
  /\ CASE m = "handshake" -> sent = 0
       [] m = "doorbell"  -> main \notin {"connect", "handshake"}
       [] m = "shutdown"  -> TRUE
  /\ inbox' = Append(inbox, m) /\ sent' = IF m = "shutdown" THEN MaxMessages ELSE sent + 1
  /\ UNCHANGED <<threads, pipe, ring, consumer, pace, report, world, screen>>

Fault == faults < MaxFaults /\ faults' = faults + 1

Break ==
  /\ pipe = "up" /\ pipe' = "down" /\ Fault
  /\ UNCHANGED <<threads, inbox, sent, ring, consumer, pace, report, lost, closed, screen>>

Submit(c) ==
  /\ Len(ring) < MaxCommands /\ ring' = Append(ring, c)
  /\ UNCHANGED <<threads, device, consumer, pace, report, world, screen>>

DeviceLost ==
  /\ main \in Looping /\ lost = "no" /\ lost' = "lost" /\ Fault
  /\ UNCHANGED <<threads, device, ring, consumer, pace, report, closed, screen>>

\* the handler of Ctrl+C only sets the flag
CtrlC ==
  /\ ~shutdown /\ shutdown' = TRUE /\ Fault
  /\ UNCHANGED <<main, reader, device, ring, consumer, pace, report, lost, closed, screen>>

CloseWindow ==
  /\ swapchain # None /\ main \in Looping /\ ~closed /\ closed' = TRUE /\ Fault
  /\ UNCHANGED <<threads, device, ring, consumer, pace, report, lost, screen>>

\* the process has ended, waits for a device that does not speak, or for its reader: the
\* join after Ctrl+C or a closed window and the interrupt wait for a message
Over ==
  /\ \/ main \in {"exited", "failed"}
     \/ main = "handshake" /\ inbox = <<>>
     \/ main \in {"join", "announce"} /\ reader = "read" /\ inbox = <<>>
  /\ UNCHANGED vars

Next ==
  \/ Main \/ Reader \/ Over
  \/ Connect \/ Break \/ DeviceLost \/ CtrlC \/ CloseWindow
  \/ \E m \in Message : Send(m)
  \/ \E c \in Command : Submit(c)

Spec     == Init /\ [][Next]_vars
\* both threads run, and the waits of the main loop have a timeout; nothing is asked of
\* the device, the guest or the user
FairSpec == Spec /\ WF_vars(Main) /\ WF_vars(Reader)

-----------------------------------------------------------------------------
(* Properties *)

IsFence(f) == f \in DOMAIN ring /\ ring[f] = "fence"

\* A completed fence is one the guest submitted, and every command up to it is
\* consumed: a guest that waits for it may reuse what those commands read.
FencesTellTheTruth == completed # 0 => IsFence(completed) /\ completed <= consumer

\* Each completed fence is announced by an interrupt of its own, unless the pipe broke
\* (the code compares with last_irq_fence before it sends).
FencesAreAnnounced ==
  main \notin {"fence", "announce"} /\ pipe # "down" => announced = completed

\* The flags the guest reads agree with what the service is doing, and the error flag
\* with the error code.
StatusIsTruthful ==
  /\ "READY" \in status <=> main \in Looping \cup {"status"}
  /\ "RESIZING" \in status <=> main = "resizing"
  /\ "SHUTDOWN" \in status <=> main \in {"join", "exited"}
  /\ "DEVICE_LOST" \in status => lost = "reported"
  /\ "SHUTDOWN" \notin status => ("ERROR" \in status <=> code # "none")

\* However the batch ended, with an error or at its limit, the newest present the
\* processor took from the ring was handed to the presentation before the next batch.
PresentsAreHandled ==
  main = "top" => \A p \in 1 .. consumer : ring[p] = "present" => p <= handled

\* A surface that does not have the configured size, or is gone, goes with an error the
\* guest can see: resize() keeps the size before it changes the surfaces.
SurfacesFollowOrErr ==
  main \in Looping \ {"resizing"} /\ "ERROR" \notin status =>
    /\ swapchain = IF Mode = "headless" THEN None ELSE size
    /\ shared = IF Mode = "windowed" THEN None ELSE size

\* The interrupt waits for the reader's pending read
WriteBehindRead == main = "announce" /\ reader = "read"

\* A submitted fence completes, or the service ends, or it hangs for one of the three
\* reasons the code leaves open: the device never sends a word, the command at the head
\* of the ring fails again and again, an interrupt waits behind the reader's read.
FenceWaitsEnd ==
  \A f \in 1 .. MaxCommands :
    IsFence(f) /\ pipe # "none" ~>
      \/ completed >= f \/ main \in Ending \cup {"failed"}
      \/ [](main = "handshake")
      \/ [](Pending /\ Upcoming \in Fallible)
      \/ []WriteBehindRead

\* Once the device says goodbye or its pipe breaks the process ends, whatever it was
\* doing, unless a shader that does not compile keeps the batch going.
ShutdownEndsTheProcess ==
  pipe = "down" \/ (\E i \in DOMAIN inbox : inbox[i] = "shutdown") ~>
    main \in {"exited", "failed"} \/ [](main = "batch" /\ Pending /\ Upcoming = "shader")
=============================================================================
