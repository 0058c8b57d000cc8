---------------------------- MODULE BackendProofs ----------------------------
(***************************************************************************)
(* Proofs about module Backend: its safety invariants, for every bound,    *)
(* presentation mode and set of sizes.                                     *)
(***************************************************************************)
EXTENDS Backend, SequenceTheorems, TLAPS

\* the fences the guest sees follow those the processor met, which follow the consumer
FenceInv ==
  /\ completed = lastIrq /\ lastIrq <= current /\ current <= consumer
  /\ current # 0 => IsFence(current)
  /\ lastIrq # 0 => IsFence(lastIrq)
  /\ pipe = "none" => main = "connect"
  /\ main # "announce" /\ pipe # "down" => announced = completed

StatusInv ==
  /\ StatusIsTruthful
  /\ main \in Starting \cup {"failed"} => status = {} /\ code = "none"

\* a present the consumer passed was handled, or is pending in the batch
PresentInv ==
  /\ \A p \in 1 .. consumer : ring[p] = "present" => p <= handled \/ p <= present
  /\ handled <= consumer /\ present <= consumer
  /\ present # 0 => handled < present
  /\ main \notin {"batch", "fence", "announce", "present"} => present = 0

Fits ==
  /\ swapchain = IF Mode = "headless" THEN None ELSE size
  /\ shared = IF Mode = "windowed" THEN None ELSE size

SurfaceInv ==
  /\ main \in {"startReader", "ready"} \cup Looping /\ "ERROR" \notin status => Fits
  /\ main = "resizing" => resize # None

IInv == TypeOK /\ Len(ring) <= MaxCommands /\ FenceInv /\ StatusInv /\ PresentInv /\ SurfaceInv

USE ConstantsAssumption

-----------------------------------------------------------------------------
(* What the steps do to the variables the parts share *)

\* No action but Submit changes the ring, and the consumer moves with Process only.
LEMMA RingStep ==
  ASSUME TypeOK, [Next]_vars
  PROVE  \/ UNCHANGED <<ring, consumer>>
         \/ Process /\ UNCHANGED ring
         \/ (\E c \in Command : Submit(c)) /\ UNCHANGED <<main, reader, consumer>>
<1>1. CASE Main
  <2>1. CASE WaitForConnection \/ PerformHandshake \/ InitRenderer \/ StartPipeReader \/ Ready
    BY <2>1 DEF WaitForConnection, PerformHandshake, InitRenderer, StartPipeReader, Ready
  <2>2. CASE Shutdown \/ Top \/ BatchEnds \/ ProcessFails \/ ShaderFails \/ Complete \/ Announce
    BY <2>2 DEF Shutdown, Top, BatchEnds, ProcessFails, ShaderFails, Complete, Announce
  <2>3. CASE Present \/ NoResize \/ BeginResize \/ Resize \/ More \/ WaitForDoorbell
    BY <2>3 DEF Present, NoResize, BeginResize, Resize, More, WaitForDoorbell
  <2>4. CASE SetShutdownStatus \/ Join
    BY <2>4 DEF SetShutdownStatus, Join
  <2>5. CASE Process
    BY <2>5 DEF Process
  <2> QED BY <1>1, <2>1, <2>2, <2>3, <2>4, <2>5 DEF Main
<1>2. CASE Reader \/ Over \/ UNCHANGED vars
  BY <1>2 DEF Reader, ReaderChecks, ReaderReads, Over, vars
<1>3. CASE Connect \/ Break \/ DeviceLost \/ CtrlC \/ CloseWindow \/ \E m \in Message : Send(m)
  BY <1>3 DEF Connect, Break, DeviceLost, CtrlC, CloseWindow, Send
<1>4. CASE \E c \in Command : Submit(c)
  BY <1>4 DEF Submit, threads
<1> QED BY <1>1, <1>2, <1>3, <1>4 DEF Next

\* The commands a submission leaves before it.
LEMMA SubmitKeeps ==
  ASSUME NEW c \in Command, Submit(c), TypeOK, Len(ring) <= MaxCommands
  PROVE  /\ ring' \in Seq(Command) /\ Len(ring') = Len(ring) + 1 /\ Len(ring') <= MaxCommands
         /\ \A i \in 1 .. Len(ring) : ring'[i] = ring[i]
  BY DEF Submit, TypeOK

-----------------------------------------------------------------------------
\* Every step keeps the types.
LEMMA TypeStep ==
  ASSUME IInv, [Next]_vars
  PROVE  TypeOK' /\ Len(ring)' <= MaxCommands
<1> USE DEF TypeOK, IInv
<1>1. ASSUME NEW m \in Message, Reads(m) PROVE inbox' \in Seq(Message) /\ UNCHANGED <<pipe, sent>>
  BY <1>1, HeadTailProperties DEF Reads
<1>2. CASE Main
  <2>1. CASE WaitForConnection \/ StartPipeReader
    <3>1. UNCHANGED <<shutdown, pipe, inbox, sent, ring, consumer, completed, current,
                      lastIrq, announced, processed, present, resize, status, code, lost,
                      closed, size, swapchain, shared, handled, faults>>
      BY <2>1 DEF WaitForConnection, StartPipeReader, threads, device, pace, fences, batch, report, world, screen, surface
    <3>2. main' \in Starting \cup Looping \cup Ending \cup {"failed"}
      BY <2>1 DEF WaitForConnection, StartPipeReader, Goto, Starting, Looping, Ending
    <3>3. reader' \in {reader, "check"}
      BY <2>1 DEF WaitForConnection, StartPipeReader
    <3> QED BY <3>1, <3>2, <3>3
  <2>2. CASE PerformHandshake
    <3>1. UNCHANGED <<reader, shutdown, ring, consumer, completed, current, lastIrq,
                      announced, processed, present, resize, status, code, lost, closed,
                      size, swapchain, shared, handled, faults>>
      BY <2>2 DEF PerformHandshake, threads, device, pace, fences, batch, report, world, screen, surface
    <3>2. main' \in Starting \cup Looping \cup Ending \cup {"failed"}
      BY <2>2 DEF PerformHandshake, Goto, Starting, Looping, Ending
    <3>3. inbox' \in Seq(Message) /\ UNCHANGED <<pipe, sent>>
      BY <2>2, <1>1 DEF PerformHandshake, ReadFails, device, Message
    <3> QED BY <3>1, <3>2, <3>3
  <2>3. CASE InitRenderer
    <3>1. UNCHANGED <<reader, shutdown, pipe, inbox, sent, ring, consumer, completed,
                      current, lastIrq, announced, processed, present, resize, status, code,
                      lost, closed, size, handled, faults>>
      BY <2>3 DEF InitRenderer, threads, device, pace, fences, batch, report, world, screen, surface
    <3>2. main' \in Starting \cup Looping \cup Ending \cup {"failed"}
      BY <2>3 DEF InitRenderer, Goto, Starting, Looping, Ending
    <3>3. swapchain' \in Sizes \cup {None} /\ shared' \in Sizes \cup {None}
      BY <2>3 DEF InitRenderer
    <3> QED BY <3>1, <3>2, <3>3
  <2>4. CASE Ready \/ Shutdown
    <3>1. UNCHANGED <<reader, shutdown, pipe, inbox, sent, ring, consumer, completed,
                      current, lastIrq, announced, processed, present, resize, code, lost,
                      closed, size, swapchain, shared, handled, faults>>
      BY <2>4 DEF Ready, Shutdown, threads, device, pace, fences, batch, report, world, screen, surface
    <3>2. main' \in Starting \cup Looping \cup Ending \cup {"failed"}
      BY <2>4 DEF Ready, Shutdown, Goto, Starting, Looping, Ending
    <3>3. status' \subseteq {"READY", "ERROR", "DEVICE_LOST", "RESIZING", "SHUTDOWN"}
      BY <2>4 DEF Ready, Shutdown, SetError, report
    <3> QED BY <3>1, <3>2, <3>3
  <2>5. CASE Top
    <3>1. UNCHANGED <<reader, shutdown, pipe, inbox, sent, ring, consumer, completed,
                      current, lastIrq, announced, present, resize, closed, size, swapchain,
                      shared, handled, faults>>
      BY <2>5 DEF Top, threads, device, pace, fences, batch, report, world, screen, surface
    <3>2. main' \in Starting \cup Looping \cup Ending \cup {"failed"}
      BY <2>5 DEF Top, Goto, Starting, Looping, Ending
    <3>3. processed' \in BOOLEAN
      BY <2>5 DEF Top
    <3>4. lost' \in {"no", "lost", "reported"}
      BY <2>5 DEF Top
    <3>5. status' \subseteq {"READY", "ERROR", "DEVICE_LOST", "RESIZING", "SHUTDOWN"}
      BY <2>5 DEF Top, SetError, report
    <3>6. code' \in {"none", "device_lost", "shader_compile", "out_of_memory", "internal", "not_found"}
      BY <2>5 DEF Top, SetError, report
    <3> QED BY <3>1, <3>2, <3>3, <3>4, <3>5, <3>6
  <2>6. CASE BatchEnds \/ ShaderFails \/ ProcessFails
    <3>1. UNCHANGED <<reader, shutdown, pipe, inbox, sent, ring, consumer, completed,
                      current, lastIrq, announced, processed, present, resize, lost, closed,
                      size, swapchain, shared, handled, faults>>
      BY <2>6 DEF BatchEnds, ShaderFails, ProcessFails, threads, device, pace, fences, batch, report, world, screen, surface
    <3>2. main' \in Starting \cup Looping \cup Ending \cup {"failed"}
      BY <2>6 DEF BatchEnds, ShaderFails, ProcessFails, Goto, Starting, Looping, Ending
    <3>3. status' \subseteq {"READY", "ERROR", "DEVICE_LOST", "RESIZING", "SHUTDOWN"}
      BY <2>6 DEF BatchEnds, ShaderFails, ProcessFails, SetError, report
    <3>4. code' \in {"none", "device_lost", "shader_compile", "out_of_memory", "internal", "not_found"}
      BY <2>6 DEF BatchEnds, ShaderFails, ProcessFails, SetError, report
    <3> QED BY <3>1, <3>2, <3>3, <3>4
  <2>7. CASE Process
    <3>1. UNCHANGED <<reader, shutdown, pipe, inbox, sent, ring, completed, lastIrq,
                      announced, status, code, lost, closed, size, swapchain, shared,
                      handled, faults>>
      BY <2>7 DEF Process, threads, device, pace, fences, batch, report, world, screen, surface
    <3>2. main' \in Starting \cup Looping \cup Ending \cup {"failed"}
      BY <2>7 DEF Process, Goto, Starting, Looping, Ending
    <3>3. consumer' \in 0 .. Len(ring) /\ consumer' \in Place
      BY <2>7 DEF Process, Pending, Place
    <3>4. current' \in Place /\ present' \in Place
      BY <2>7, <3>3 DEF Process
    <3>5. resize' \in Sizes \cup {None}
      BY <2>7 DEF Process
    <3>6. processed' \in BOOLEAN
      BY <2>7 DEF Process
    <3> QED BY <3>1, <3>2, <3>3, <3>4, <3>5, <3>6
  <2>8. CASE Complete \/ Announce
    <3>1. UNCHANGED <<reader, shutdown, pipe, inbox, sent, ring, consumer, current,
                      processed, present, resize, status, code, lost, closed, size,
                      swapchain, shared, handled, faults>>
      BY <2>8 DEF Complete, Announce, threads, device, pace, fences, batch, report, world, screen, surface
    <3>2. main' \in Starting \cup Looping \cup Ending \cup {"failed"}
      BY <2>8 DEF Complete, Announce, Goto, Starting, Looping, Ending
    <3>3. completed' \in Place /\ lastIrq' \in Place /\ announced' \in Place
      BY <2>8 DEF Complete, Announce, Goto, fences
    <3> QED BY <3>1, <3>2, <3>3
  <2>9. CASE Present
    <3>1. UNCHANGED <<reader, shutdown, pipe, inbox, sent, ring, consumer, completed,
                      current, lastIrq, announced, processed, resize, lost, closed, size,
                      swapchain, shared, faults>>
      BY <2>9 DEF Present, threads, device, pace, fences, batch, report, world, screen, surface
    <3>2. main' \in Starting \cup Looping \cup Ending \cup {"failed"}
      BY <2>9 DEF Present, Goto, Starting, Looping, Ending
    <3>3. present' \in Place /\ handled' \in Place
      BY <2>9 DEF Present, Place
    <3>4. status' \subseteq {"READY", "ERROR", "DEVICE_LOST", "RESIZING", "SHUTDOWN"}
      BY <2>9 DEF Present, SetError, report
    <3>5. code' \in {"none", "device_lost", "shader_compile", "out_of_memory", "internal", "not_found"}
      BY <2>9 DEF Present, SetError, report
    <3> QED BY <3>1, <3>2, <3>3, <3>4, <3>5
  <2>10. CASE NoResize \/ BeginResize \/ More \/ WaitForDoorbell
    <3>1. UNCHANGED <<reader, shutdown, pipe, inbox, sent, ring, consumer, completed,
                      current, lastIrq, announced, processed, present, resize, code, lost,
                      closed, size, swapchain, shared, handled, faults>>
      BY <2>10 DEF NoResize, BeginResize, More, WaitForDoorbell, threads, device, pace, fences, batch, report, world, screen, surface
    <3>2. main' \in Starting \cup Looping \cup Ending \cup {"failed"}
      BY <2>10 DEF NoResize, BeginResize, More, WaitForDoorbell, Goto, Starting, Looping, Ending
    <3>3. status' \subseteq {"READY", "ERROR", "DEVICE_LOST", "RESIZING", "SHUTDOWN"}
      BY <2>10 DEF NoResize, BeginResize, More, WaitForDoorbell, report
    <3> QED BY <3>1, <3>2, <3>3
  <2>11. CASE Resize
    <3>1. UNCHANGED <<reader, shutdown, pipe, inbox, sent, ring, consumer, completed,
                      current, lastIrq, announced, processed, present, lost, closed, handled,
                      faults>>
      BY <2>11 DEF Resize, threads, device, pace, fences, batch, report, world, screen, surface
    <3>2. main' \in Starting \cup Looping \cup Ending \cup {"failed"}
      BY <2>11 DEF Resize, Goto, Starting, Looping, Ending
    <3>3. resize \in Sizes
      BY <2>11 DEF Resize, Goto, SurfaceInv
    <3>4. resize' = None
      BY <2>11 DEF Resize
    <3>5. size' \in Sizes /\ swapchain' \in Sizes \cup {None} /\ shared' \in Sizes \cup {None}
      BY <2>11, <3>3 DEF Resize, Resized
    <3>6. status' \subseteq {"READY", "ERROR", "DEVICE_LOST", "RESIZING", "SHUTDOWN"}
      BY <2>11 DEF Resize, SetError, report
    <3>7. code' \in {"none", "device_lost", "shader_compile", "out_of_memory", "internal", "not_found"}
      BY <2>11 DEF Resize, SetError, report
    <3> QED BY <3>1, <3>2, <3>3, <3>4, <3>5, <3>6, <3>7
  <2>12. CASE SetShutdownStatus \/ Join
    <3>1. UNCHANGED <<reader, shutdown, pipe, inbox, sent, ring, consumer, completed,
                      current, lastIrq, announced, processed, present, resize, code, lost,
                      closed, size, swapchain, shared, handled, faults>>
      BY <2>12 DEF SetShutdownStatus, Join, threads, device, pace, fences, batch, report, world, screen, surface
    <3>2. main' \in Starting \cup Looping \cup Ending \cup {"failed"}
      BY <2>12 DEF SetShutdownStatus, Join, Goto, Starting, Looping, Ending
    <3>3. status' \subseteq {"READY", "ERROR", "DEVICE_LOST", "RESIZING", "SHUTDOWN"}
      BY <2>12 DEF SetShutdownStatus, Join, SetError, report
    <3> QED BY <3>1, <3>2, <3>3
  <2> QED BY <1>2, <2>1, <2>2, <2>3, <2>4, <2>5, <2>6, <2>7, <2>8, <2>9, <2>10, <2>11, <2>12 DEF Main
<1>3. CASE Reader
  <2>1. UNCHANGED <<main, ring, consumer, completed, current, lastIrq, announced,
                    processed, present, resize, status, code, lost, closed, size,
                    swapchain, shared, handled, faults>>
    BY <1>3 DEF Reader, ReaderChecks, ReaderReads, threads, device, pace, fences, batch, report, world, screen, surface
  <2>2. inbox' \in Seq(Message) /\ UNCHANGED <<pipe, sent>>
    BY <1>3, <1>1 DEF Reader, ReaderChecks, ReaderReads, ReadFails, device, Message
  <2>3. reader' \in {"check", "read", "exited"} /\ shutdown' \in BOOLEAN
    BY <1>3 DEF Reader, ReaderChecks, ReaderReads
  <2> QED BY <2>1, <2>2, <2>3
<1>4. CASE Over \/ UNCHANGED vars
  <2>1. UNCHANGED <<main, reader, shutdown, pipe, inbox, sent, ring, consumer, completed,
                    current, lastIrq, announced, processed, present, resize, status, code,
                    lost, closed, size, swapchain, shared, handled, faults>>
    BY <1>4 DEF Over, vars
  <2> QED BY <2>1
<1>5. CASE Connect \/ Break
  <2>1. UNCHANGED <<main, reader, shutdown, inbox, sent, ring, consumer, completed,
                    current, lastIrq, announced, processed, present, resize, status, code,
                    lost, closed, size, swapchain, shared, handled>>
    BY <1>5 DEF Connect, Break, threads, device, pace, fences, batch, report, world, screen, surface
  <2>2. pipe' \in {"up", "down"}
    BY <1>5 DEF Connect, Break
  <2>3. faults' \in 0 .. MaxFaults
    BY <1>5 DEF Connect, Break, Fault, world
  <2> QED BY <2>1, <2>2, <2>3
<1>6. CASE DeviceLost \/ CtrlC \/ CloseWindow
  <2>1. UNCHANGED <<main, reader, pipe, inbox, sent, ring, consumer, completed, current,
                    lastIrq, announced, processed, present, resize, status, code, size,
                    swapchain, shared, handled>>
    BY <1>6 DEF DeviceLost, CtrlC, CloseWindow, threads, device, pace, fences, batch, report, world, screen, surface
  <2>2. lost' \in {"no", "lost", "reported"}
    BY <1>6 DEF DeviceLost, CtrlC, CloseWindow
  <2>3. shutdown' \in BOOLEAN /\ closed' \in BOOLEAN
    BY <1>6 DEF DeviceLost, CtrlC, CloseWindow, threads
  <2>4. faults' \in 0 .. MaxFaults
    BY <1>6 DEF DeviceLost, CtrlC, CloseWindow, Fault
  <2> QED BY <2>1, <2>2, <2>3, <2>4
<1>7. ASSUME NEW m \in Message, Send(m) PROVE TypeOK' /\ Len(ring)' <= MaxCommands
  <2>1. UNCHANGED <<main, reader, shutdown, pipe, ring, consumer, completed, current,
                    lastIrq, announced, processed, present, resize, status, code, lost,
                    closed, size, swapchain, shared, handled, faults>>
    BY <1>7 DEF Send, threads, device, pace, fences, batch, report, world, screen, surface
  <2>2. inbox' \in Seq(Message) /\ sent' \in 0 .. MaxMessages
    BY <1>7 DEF Send
  <2> QED BY <2>1, <2>2
<1>8. ASSUME NEW c \in Command, Submit(c) PROVE TypeOK' /\ Len(ring)' <= MaxCommands
  <2>1. UNCHANGED <<main, reader, shutdown, pipe, inbox, sent, consumer, completed,
                    current, lastIrq, announced, processed, present, resize, status, code,
                    lost, closed, size, swapchain, shared, handled, faults>>
    BY <1>8 DEF Submit, threads, device, pace, fences, batch, report, world, screen, surface
  <2>2. ring' \in Seq(Command) /\ Len(ring') = Len(ring) + 1 /\ Len(ring') <= MaxCommands
    BY <1>8, SubmitKeeps
  <2> QED BY <2>1, <2>2
<1> QED BY <1>2, <1>3, <1>4, <1>5, <1>6, <1>7, <1>8 DEF Next

\* Every step keeps the order of the fences.
LEMMA FenceStep ==
  ASSUME IInv, [Next]_vars
  PROVE  FenceInv'
<1> USE DEF IInv, FenceInv
<1>1. CASE Main
  <2>1. CASE WaitForConnection
    BY <2>1 DEF WaitForConnection, IsFence, Goto, device, pace, fences
  <2>2. CASE PerformHandshake
    <3>1. main = "handshake" /\ main' # "announce" /\ UNCHANGED <<pipe, ring, consumer, fences>>
      BY <2>2 DEF PerformHandshake, Reads, ReadFails, device, pace
    <3> QED BY <3>1 DEF IsFence, fences
  <2>3. CASE InitRenderer \/ StartPipeReader \/ Ready \/ Shutdown \/ Top
    BY <2>3 DEF InitRenderer, StartPipeReader, Ready, Shutdown, Top, IsFence, Goto, device, pace, fences
  <2>4. CASE BatchEnds \/ ProcessFails \/ ShaderFails
    BY <2>4 DEF BatchEnds, ProcessFails, ShaderFails, IsFence, Goto, device, pace, fences
  <2>5. CASE Process
    <3>1. /\ UNCHANGED <<pipe, ring, completed, lastIrq, announced>> /\ main = "batch" /\ main' = "fence"
          /\ consumer' = consumer + 1 /\ consumer' \in DOMAIN ring
      BY <2>5 DEF Process, Pending, Goto, device, TypeOK
    <3>2. current' = current \/ (current' = consumer' /\ ring[consumer'] = "fence")
      BY <2>5 DEF Process, Upcoming
    <3> QED BY <3>1, <3>2 DEF IsFence, TypeOK, Place
  <2>6. CASE Complete
    <3>1. UNCHANGED <<pipe, ring, consumer, current, announced>> /\ main = "fence"
      BY <2>6 DEF Complete, device
    <3>2. \/ current > lastIrq /\ main' = "announce" /\ lastIrq' = current /\ completed' = current
          \/ main' = "batch" /\ UNCHANGED <<completed, lastIrq>>
      BY <2>6 DEF Complete
    <3> QED BY <3>1, <3>2 DEF IsFence, TypeOK, Place
  <2>7. CASE Announce
    <3>1. /\ UNCHANGED <<pipe, ring, consumer, current, completed, lastIrq>> /\ main = "announce"
          /\ main' = "batch" /\ (pipe = "up" => announced' = completed)
      BY <2>7 DEF Announce, Goto, device
    <3> QED BY <3>1 DEF IsFence, TypeOK
  <2>8. CASE Present \/ NoResize \/ BeginResize \/ Resize \/ More \/ WaitForDoorbell
    BY <2>8 DEF Present, NoResize, BeginResize, Resize, More, WaitForDoorbell, IsFence, Goto, device, pace,
                fences
  <2>9. CASE SetShutdownStatus \/ Join
    BY <2>9 DEF SetShutdownStatus, Join, IsFence, Goto, device, pace, fences
  <2> QED BY <1>1, <2>1, <2>2, <2>3, <2>4, <2>5, <2>6, <2>7, <2>8, <2>9 DEF Main
<1>2. CASE Reader
  <2>1. UNCHANGED <<main, pipe, ring, consumer, fences>>
    BY <1>2 DEF Reader, ReaderChecks, ReaderReads, Reads, ReadFails, device, pace
  <2> QED BY <2>1 DEF IsFence, fences
<1>3. CASE Over \/ UNCHANGED vars
  BY <1>3 DEF Over, vars, IsFence
<1>4. CASE Connect \/ Break
  BY <1>4 DEF Connect, Break, IsFence, threads, pace, fences
<1>5. CASE DeviceLost \/ CtrlC \/ CloseWindow \/ \E m \in Message : Send(m)
  BY <1>5 DEF DeviceLost, CtrlC, CloseWindow, Send, IsFence, threads, device, pace, fences
<1>6. ASSUME NEW c \in Command, Submit(c) PROVE FenceInv'
  <2>1. UNCHANGED <<main, pipe, consumer, completed, current, lastIrq, announced>>
    BY <1>6 DEF Submit, threads, device, pace, fences
  <2>2. \A f : IsFence(f) => IsFence(f)'
    BY <1>6, SubmitKeeps DEF IsFence, TypeOK
  <2> QED BY <2>1, <2>2
<1> QED BY <1>1, <1>2, <1>3, <1>4, <1>5, <1>6 DEF Next

\* Every step keeps the truth of the status.
LEMMA StatusStep ==
  ASSUME IInv, [Next]_vars
  PROVE  StatusInv'
<1> USE DEF IInv, StatusInv, StatusIsTruthful, Starting, Looping
<1>1. CASE Main
  <2>1. CASE WaitForConnection \/ PerformHandshake \/ InitRenderer \/ StartPipeReader
    BY <2>1 DEF WaitForConnection, PerformHandshake, InitRenderer, StartPipeReader, Goto, report, world
  <2>2. CASE Ready \/ SetShutdownStatus \/ Join
    BY <2>2 DEF Ready, SetShutdownStatus, Join, Goto, report, world
  <2>3. CASE Shutdown \/ BatchEnds \/ Process \/ Complete \/ Announce
    BY <2>3 DEF Shutdown, BatchEnds, Process, Complete, Announce, Goto, report, world
  <2>4. CASE Top
    BY <2>4 DEF Top, SetError, report
  <2>5. CASE ProcessFails \/ ShaderFails \/ Present
    BY <2>5 DEF ProcessFails, ShaderFails, Present, SetError, Goto, report, world
  <2>6. CASE NoResize \/ BeginResize \/ More \/ WaitForDoorbell
    BY <2>6 DEF NoResize, BeginResize, More, WaitForDoorbell, Goto, report, world
  <2>7. CASE Resize
    <3>1. PICK failed \in BOOLEAN :
            /\ status' = (IF failed THEN status \cup {"ERROR"} ELSE status) \ {"RESIZING"}
            /\ code' = IF failed THEN "internal" ELSE code
      BY <2>7 DEF Resize
    <3>2. main = "resizing" /\ main' = "more" /\ UNCHANGED lost
      BY <2>7 DEF Resize, Goto, world
    <3> QED BY <3>1, <3>2
  <2> QED BY <1>1, <2>1, <2>2, <2>3, <2>4, <2>5, <2>6, <2>7 DEF Main
<1>2. CASE Reader \/ Over \/ UNCHANGED vars
  BY <1>2 DEF Reader, ReaderChecks, ReaderReads, Over, vars, report, world
<1>3. CASE Connect \/ Break \/ DeviceLost \/ CtrlC \/ CloseWindow
  BY <1>3 DEF Connect, Break, DeviceLost, CtrlC, CloseWindow, threads, report, world
<1>4. CASE (\E m \in Message : Send(m)) \/ \E c \in Command : Submit(c)
  BY <1>4 DEF Send, Submit, threads, report, world
<1> QED BY <1>1, <1>2, <1>3, <1>4 DEF Next

\* Every step keeps track of the presents.
LEMMA PresentStep ==
  ASSUME IInv, [Next]_vars
  PROVE  PresentInv'
<1> USE DEF IInv, PresentInv
<1>n. consumer \in Nat /\ present \in Nat /\ handled \in Nat
  BY DEF TypeOK, Place
<1>1. CASE Main
  <2>1. CASE WaitForConnection \/ PerformHandshake \/ InitRenderer \/ StartPipeReader \/ Ready
    BY <2>1 DEF WaitForConnection, PerformHandshake, InitRenderer, StartPipeReader, Ready, Goto, pace,
                batch, screen
  <2>2. CASE Shutdown \/ Top \/ BatchEnds \/ ProcessFails \/ ShaderFails \/ Complete \/ Announce
    BY <2>2 DEF Shutdown, Top, BatchEnds, ProcessFails, ShaderFails, Complete, Announce, Goto, pace,
                batch, screen
  <2>3. CASE Process
    <3>1. /\ UNCHANGED <<ring, handled>> /\ main' = "fence" /\ consumer' = consumer + 1
          /\ present' = IF ring[consumer'] = "present" THEN consumer' ELSE present
      BY <2>3 DEF Process, Upcoming, Goto, screen
    <3> QED BY <1>n, <3>1
  <2>4. CASE Present
    <3>1. /\ UNCHANGED <<ring, consumer>> /\ main' = "resize" /\ present' = 0
          /\ handled' = IF present = 0 THEN handled ELSE present
      BY <2>4 DEF Present, Goto
    <3> QED BY <1>n, <3>1
  <2>5. CASE NoResize \/ BeginResize \/ Resize \/ More \/ WaitForDoorbell
    BY <2>5 DEF NoResize, BeginResize, Resize, More, WaitForDoorbell, Goto, pace, batch, screen
  <2>6. CASE SetShutdownStatus \/ Join
    BY <2>6 DEF SetShutdownStatus, Join, Goto, pace, batch, screen
  <2> QED BY <1>1, <2>1, <2>2, <2>3, <2>4, <2>5, <2>6 DEF Main
<1>2. CASE Reader \/ Over \/ UNCHANGED vars
  BY <1>2 DEF Reader, ReaderChecks, ReaderReads, Over, vars, pace, batch, screen
<1>3. CASE Connect \/ Break \/ DeviceLost \/ CtrlC \/ CloseWindow \/ \E m \in Message : Send(m)
  BY <1>3 DEF Connect, Break, DeviceLost, CtrlC, CloseWindow, Send, threads, pace, batch, screen
<1>4. ASSUME NEW c \in Command, Submit(c) PROVE PresentInv'
  <2>1. UNCHANGED <<main, consumer, present, handled>>
    BY <1>4 DEF Submit, threads, pace, batch, screen
  <2>2. \A i \in 1 .. consumer : ring'[i] = ring[i]
    BY <1>4, SubmitKeeps DEF TypeOK
  <2> QED BY <2>1, <2>2
<1> QED BY <1>1, <1>2, <1>3, <1>4 DEF Next

\* Every step keeps the surfaces at the configured size, or reports an error.
LEMMA SurfaceStep ==
  ASSUME IInv, [Next]_vars
  PROVE  SurfaceInv'
<1> USE DEF IInv, SurfaceInv, Fits, Looping
<1>1. CASE Main
  <2>1. CASE WaitForConnection \/ PerformHandshake
    BY <2>1 DEF WaitForConnection, PerformHandshake, Goto
  <2>2. CASE InitRenderer
    BY <2>2 DEF InitRenderer
  <2>3. CASE StartPipeReader \/ Ready
    BY <2>3 DEF StartPipeReader, Ready, StatusInv, Starting, Goto, report, screen, surface
  <2>4. CASE Shutdown \/ BatchEnds \/ Process \/ Complete \/ Announce
    BY <2>4 DEF Shutdown, BatchEnds, Process, Complete, Announce, Goto, report, screen, surface
  <2>5. CASE Top
    BY <2>5 DEF Top, SetError, report, screen, surface
  <2>6. CASE ProcessFails \/ ShaderFails \/ Present
    BY <2>6 DEF ProcessFails, ShaderFails, Present, SetError, Goto, report, screen, surface
  <2>7. CASE NoResize \/ BeginResize \/ More \/ WaitForDoorbell
    BY <2>7 DEF NoResize, BeginResize, More, WaitForDoorbell, Goto, pace, batch, report, screen, surface
  <2>8. CASE Resize
    <3>1. PICK swapOk, viewOk, textureOk \in BOOLEAN :
            LET failed == ~(swapOk /\ viewOk /\ textureOk) IN
            /\ Resized(swapOk, viewOk, textureOk)
            /\ status' = (IF failed THEN status \cup {"ERROR"} ELSE status) \ {"RESIZING"}
      BY <2>8 DEF Resize
    <3>2. main = "resizing" /\ main' = "more" /\ size # None /\ resize \in Sizes
      BY <2>8 DEF Resize, Goto, TypeOK
    <3>3. CASE swapOk /\ viewOk /\ textureOk
      BY <3>1, <3>2, <3>3 DEF Resized
    <3>4. CASE ~(swapOk /\ viewOk /\ textureOk)
      <4>1. "ERROR" \in status'
        BY <3>1, <3>4
      <4> QED BY <3>2, <4>1
    <3> QED BY <3>3, <3>4
  <2>9. CASE SetShutdownStatus \/ Join
    BY <2>9 DEF SetShutdownStatus, Join, Goto
  <2> QED BY <1>1, <2>1, <2>2, <2>3, <2>4, <2>5, <2>6, <2>7, <2>8, <2>9 DEF Main
<1>2. CASE Reader \/ Over \/ UNCHANGED vars
  BY <1>2 DEF Reader, ReaderChecks, ReaderReads, Over, vars, pace, batch, report, screen, surface
<1>3. CASE Connect \/ Break \/ DeviceLost \/ CtrlC \/ CloseWindow
  BY <1>3 DEF Connect, Break, DeviceLost, CtrlC, CloseWindow, threads, pace, batch, report, screen, surface
<1>4. CASE (\E m \in Message : Send(m)) \/ \E c \in Command : Submit(c)
  BY <1>4 DEF Send, Submit, threads, pace, batch, report, screen, surface
<1> QED BY <1>1, <1>2, <1>3, <1>4 DEF Next

-----------------------------------------------------------------------------
\* The inductive invariant holds in every reachable state.
THEOREM Invariance == Spec => []IInv
<1>1. Init => IInv
  <2> SUFFICES ASSUME Init PROVE IInv
    OBVIOUS
  <2>1. TypeOK /\ Len(ring) <= MaxCommands
    <3>1. /\ ring \in Seq(Command) /\ Len(ring) = 0 /\ inbox \in Seq(Message)
          /\ consumer = 0 /\ sent = 0 /\ faults = 0
      BY DEF Init
    <3>2. main \in Starting \cup Looping \cup Ending \cup {"failed"} /\ reader = "none" /\ pipe = "none"
      BY DEF Init, Starting
    <3>3. completed \in Place /\ current \in Place /\ lastIrq \in Place /\ announced \in Place
          /\ present \in Place /\ handled \in Place
      BY DEF Init, Place
    <3>4. shutdown \in BOOLEAN /\ processed \in BOOLEAN /\ closed \in BOOLEAN /\ lost = "no"
      BY DEF Init
    <3>5. /\ resize = None /\ swapchain = None /\ shared = None /\ size \in Sizes /\ status = {}
          /\ code = "none"
      BY DEF Init
    <3> QED BY <3>1, <3>2, <3>3, <3>4, <3>5 DEF TypeOK
  <2>2. FenceInv /\ PresentInv /\ SurfaceInv
    BY DEF Init, FenceInv, PresentInv, SurfaceInv, Looping
  <2>3. StatusInv
    BY DEF Init, StatusInv, StatusIsTruthful, Looping
  <2> QED BY <2>1, <2>2, <2>3 DEF IInv
<1>2. IInv /\ [Next]_vars => IInv'
  BY TypeStep, FenceStep, StatusStep, PresentStep, SurfaceStep DEF IInv
<1> QED BY <1>1, <1>2, PTL DEF Spec

\* Every variable keeps its type.
THEOREM TypeCorrect == Spec => []TypeOK
  BY Invariance, PTL DEF IInv

\* Every completed fence was submitted, and everything up to it is consumed.
THEOREM FencesAreTruthful == Spec => []FencesTellTheTruth
<1>1. IInv => FencesTellTheTruth
  BY DEF IInv, FenceInv, TypeOK, Place, FencesTellTheTruth
<1> QED BY <1>1, Invariance, PTL

\* While the pipe holds, every completed fence had its interrupt.
THEOREM FencesGetInterrupts == Spec => []FencesAreAnnounced
<1>1. IInv => FencesAreAnnounced
  BY DEF IInv, FenceInv, FencesAreAnnounced
<1> QED BY <1>1, Invariance, PTL

\* The status flags agree with the main loop and the error code.
THEOREM TruthfulStatus == Spec => []StatusIsTruthful
<1>1. IInv => StatusIsTruthful
  BY DEF IInv, StatusInv
<1> QED BY <1>1, Invariance, PTL

\* No batch begins with a present of an earlier one unhandled.
THEOREM PresentsReachThePresentation == Spec => []PresentsAreHandled
<1>1. IInv => PresentsAreHandled
  BY DEF IInv, PresentInv, TypeOK, Place, PresentsAreHandled
<1> QED BY <1>1, Invariance, PTL

\* A surface that lost its size is reported.
THEOREM SurfacesFitOrErr == Spec => []SurfacesFollowOrErr
<1>1. IInv => SurfacesFollowOrErr
  BY DEF IInv, SurfaceInv, Fits, SurfacesFollowOrErr
<1> QED BY <1>1, Invariance, PTL
=============================================================================
