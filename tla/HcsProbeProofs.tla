--------------------------- MODULE HcsProbeProofs ---------------------------
(***************************************************************************)
(* Proofs about module HcsProbe: its safety invariants, for every set of   *)
(* reports whose last line is the one that says so.                        *)
(***************************************************************************)
EXTENDS HcsProbe, SequenceTheorems, TLAPS

Early  == {"load", "create", "start"}
Closed == {"absent", "report", "done", "error", "crashed"}
Over   == {"done", "error", "crashed"}

\* the types, by kind
Flags ==
  /\ render \in BOOLEAN /\ closing \in BOOLEAN /\ poweroff \in BOOLEAN /\ handle \in BOOLEAN
  /\ connected \in BOOLEAN /\ stopped \in BOOLEAN /\ late \in BOOLEAN /\ acknowledged \in BOOLEAN
States ==
  /\ at \in {"load", "create", "start", "connect", "attach", "receive", "state", "drain", "judge",
             "dropSystem", "absent", "report", "done", "error", "crashed"}
  /\ svc \in {"absent", "created", "running", "stopped"} /\ exit \in {"none", "graceful", "forced"}
  /\ pipe \in {"none", "open", "broken"}

\* what the guest printed and is going to print
GuestInv ==
  /\ todo \in Seq(Line \ {"panic"}) /\ out \in Seq(Line)
  /\ \A i \in DOMAIN todo : todo[i] = "ready" => i = Len(todo)
  /\ \A i \in DOMAIN out : out[i] = "ready" =>
       todo = <<>> /\ \A j \in DOMAIN out : j > i => out[j] = "panic"

\* who holds the system, and when it can run
LifeInv ==
  /\ at \in {"load", "create"} => svc = "absent" /\ pipe = "none" /\ ~handle
  /\ at = "start" => svc = "created" /\ pipe = "none"
  /\ at \in Early => ~stopped /\ exit = "none"
  /\ at \in Closed => ~handle
  /\ at \notin Closed => ~closing
  /\ svc \in Live => handle \/ closing
  /\ exit # "none" => svc \in {"stopped", "absent"}
  /\ stopped => svc \in {"stopped", "absent"}

\* what is received, and what the order to power off follows from
TextInv ==
  /\ poweroff => acknowledged /\ Complete(Text)
  /\ exit = "graceful" => poweroff /\ ~Has(out, "panic")
  /\ at = "judge" /\ stopped /\ pipe = "open" => got = Len(out)

Proven ==
  /\ stopped /\ exit = "graceful" /\ Complete(Text) /\ report.gpu_request_accepted
  /\ render => Rendered(Text)

\* what the report says
ReportInv ==
  /\ at \in {"receive", "state", "drain", "judge"} => report.gpu_request_accepted
  /\ at \in {"dropSystem", "absent", "report"} /\ report.error = "none" => Proven
  /\ report.cleanup_verified => svc = "absent" /\ at \in {"report"} \cup Over
  /\ report.success => Proven /\ report.cleanup_verified /\ at \in Over
  /\ ErrorsNameTheirCause

IInv == TypeOK /\ GuestInv /\ LifeInv /\ TextInv /\ ReportInv

-----------------------------------------------------------------------------
(* The text received *)

\* A prefix of a sequence has its first elements.
LEMMA Prefix ==
  ASSUME NEW s \in Seq(Line), NEW n \in 0 .. Len(s)
  PROVE  /\ SubSeq(s, 1, n) \in Seq(Line) /\ Len(SubSeq(s, 1, n)) = n
         /\ \A i \in 1 .. n : SubSeq(s, 1, n)[i] = s[i]
  BY SubSeqProperties

\* The received text has the lines up to got.
LEMMA TextLines ==
  ASSUME out \in Seq(Line), got \in 0 .. Len(out)
  PROVE  Text \in Seq(Line) /\ Len(Text) = got /\ \A i \in 1 .. got : Text[i] = out[i]
  BY Prefix DEF Text

\* Nothing that was received is lost when more is printed or received.
LEMMA TextGrows ==
  ASSUME out \in Seq(Line), got \in 0 .. Len(out), out' \in Seq(Line), got' \in 0 .. Len(out'),
         got <= got', \A i \in 1 .. Len(out) : out'[i] = out[i], Complete(Text), Len(out) <= Len(out')
  PROVE  Complete(Text)'
<1>1. ASSUME NEW l, Has(Text, l) PROVE Has(Text', l)
  <2>1. PICK i \in 1 .. got : out[i] = l
    BY <1>1, TextLines DEF Has
  <2>2. i \in 1 .. got' /\ out'[i] = l
    BY <2>1
  <2>3. Text' \in Seq(Line) /\ Len(Text') = got' /\ Text'[i] = out'[i]
    BY <2>2, Prefix DEF Text
  <2> QED BY <2>2, <2>3 DEF Has
<1> QED BY <1>1 DEF Complete

\* The whole report was received if its last line was and the guest did not panic.
LEMMA WholeText ==
  ASSUME TypeOK, GuestInv, Complete(Text), ~Has(out, "panic")
  PROVE  Text = out
<1>1. PICK i \in 1 .. got : out[i] = "ready"
  BY TextLines DEF TypeOK, GuestInv, Complete, Has
<1>2. \A j \in DOMAIN out : ~(j > i)
  BY <1>1 DEF TypeOK, GuestInv, Has
<1>3. got = Len(out)
  BY <1>1, <1>2 DEF TypeOK, GuestInv
<1> QED BY <1>3, TextLines DEF TypeOK, GuestInv

-----------------------------------------------------------------------------
\* Every step keeps the guest part.
LEMMA GuestStep ==
  ASSUME GuestInv, [Next]_vars
  PROVE  GuestInv' /\ Len(out) <= Len(out') /\ \A i \in 1 .. Len(out) : out'[i] = out[i]
<1>1. CASE GuestPrints
  <2> DEFINE x == Head(todo)
  <2>1. /\ x \in Line \ {"panic"} /\ out' = Append(out, x) /\ todo' = Tail(todo) /\ todo # <<>>
        /\ x = "ready" => todo' = <<>>
    BY <1>1, HeadTailProperties DEF GuestInv, GuestPrints
  <2>2. todo' \in Seq(Line \ {"panic"}) /\ Len(todo') = Len(todo) - 1
        /\ \A i \in DOMAIN todo' : todo'[i] = todo[i + 1]
    BY <2>1, HeadTailProperties DEF GuestInv
  <2>3. /\ out' \in Seq(Line) /\ Len(out') = Len(out) + 1 /\ out'[Len(out) + 1] = x
        /\ \A i \in 1 .. Len(out) : out'[i] = out[i]
    BY <2>1, AppendProperties DEF GuestInv
  <2>4. \A i \in DOMAIN todo' : todo'[i] = "ready" => i = Len(todo')
    BY <2>2, SMTT(30) DEF GuestInv
  <2>5. \A i \in DOMAIN out : out[i] # "ready"
    BY <2>1 DEF GuestInv
  <2>6. \A i \in DOMAIN out' : out'[i] = "ready" => i = Len(out')
    BY <2>3, <2>5 DEF GuestInv
  <2>7. \A i \in DOMAIN out' : out'[i] = "ready" =>
          todo' = <<>> /\ \A j \in DOMAIN out' : j > i => out'[j] = "panic"
    BY <2>1, <2>3, <2>6
  <2> QED BY <2>2, <2>3, <2>4, <2>7 DEF GuestInv
<1>2. CASE GuestPanics
  <2>1. /\ out' \in Seq(Line) /\ Len(out') = Len(out) + 1 /\ out'[Len(out) + 1] = "panic"
        /\ \A i \in 1 .. Len(out) : out'[i] = out[i]
        /\ UNCHANGED todo
    BY <1>2, AppendProperties DEF GuestInv, GuestPanics, Line
  <2> QED BY <2>1, SMTT(30) DEF GuestInv
<1>3. CASE UNCHANGED <<todo, out>>
  BY <1>3 DEF GuestInv
<1>4. CASE Probe \/ Crash \/ GuestStops \/ PipeBreaks \/ SystemEnds \/ DeadlinePasses \/ UNCHANGED vars
  <2>1. CASE Load \/ LoadFails \/ CreateSystem \/ CreateFails \/ Start \/ StartFails \/ Connect \/ Attach
    BY <1>3, <2>1 DEF Load, LoadFails, CreateSystem, CreateFails, Start, StartFails, Connect, Attach, guest
  <2>2. CASE StepFails \/ ReceiveStep \/ State \/ Drain \/ JudgePanic \/ JudgeStopped \/ JudgeRunning \/ AckFails
    BY <1>3, <2>2 DEF StepFails, ReceiveStep, State, Drain, JudgePanic, JudgeStopped, JudgeRunning,
                      AckFails, guest
  <2>3. CASE DropSystem \/ Enumerate \/ Conclude
    BY <1>3, <2>3 DEF DropSystem, Enumerate, Conclude, guest
  <2>4. CASE Crash \/ GuestStops \/ PipeBreaks \/ SystemEnds \/ DeadlinePasses \/ UNCHANGED vars
    BY <1>3, <2>4 DEF Crash, GuestStops, PipeBreaks, SystemEnds, DeadlinePasses, vars, guest
  <2> QED BY <1>4, <2>1, <2>2, <2>3, <2>4 DEF Probe
<1> QED BY <1>1, <1>2, <1>4 DEF Next

-----------------------------------------------------------------------------
(* Inductiveness *)

\* The initial states satisfy the invariant.
LEMMA InitInv == Init => IInv
<1> SUFFICES ASSUME Init PROVE IInv
  OBVIOUS
<1>1. todo \in Seq(Line \ {"panic"}) /\ \A i \in DOMAIN todo : todo[i] = "ready" => i = Len(todo)
  BY ScriptsAssumption DEF Init
<1>2. GuestInv
  BY <1>1 DEF Init, GuestInv
<1>3. TypeOK
  <2>1. report \in Report
    BY DEF Init, Report, Stages, Errors
  <2>2. Len(out) = 0
    BY DEF Init
  <2>3. Flags
    BY DEF Init, Flags
  <2>4. States
    BY DEF Init, States
  <2>5. got \in 0 .. Len(out)
    BY <2>2 DEF Init
  <2> QED BY <2>1, <2>3, <2>4, <2>5 DEF TypeOK, Flags, States
<1>4. LifeInv /\ TextInv
  BY DEF Init, LifeInv, TextInv, Early, Closed, Live
<1>5. ReportInv
  BY DEF Init, ReportInv, Proven, Over, ErrorsNameTheirCause
<1> QED BY <1>2, <1>3, <1>4, <1>5 DEF IInv

\* What is noted of the text is a report.
LEMMA NotedType ==
  ASSUME report \in Report, render \in BOOLEAN
  PROVE  Noted \in Report
  BY ZenonT(30) DEF Noted, Report, Complete, Has, Rendered

\* Every step keeps the type of the report.
LEMMA ReportTypeStep ==
  ASSUME report \in Report, render \in BOOLEAN, exit \in {"none", "graceful", "forced"}, [Next]_vars
  PROVE  report' \in Report
<1>1. CASE Load \/ LoadFails \/ CreateSystem \/ CreateFails
  BY <1>1, ZenonT(30) DEF Report, Stages, Errors, Load, LoadFails, CreateSystem, CreateFails, Advance, FailAt
<1>2. CASE Start \/ StartFails \/ Connect \/ Attach \/ StepFails
  BY <1>2, ZenonT(30) DEF Report, Stages, Errors, Start, StartFails, Connect, Attach, StepFails, Advance, FailAt
<1>3. CASE ReceiveStep \/ State \/ Drain \/ DropSystem \/ Enumerate
  BY <1>3 DEF Report, ReceiveStep, State, Drain, DropSystem, Enumerate
<1>4. CASE JudgePanic \/ JudgeStopped \/ JudgeRunning \/ AckFails
  <2>1. Noted \in Report
    BY NotedType
  <2>2. CASE JudgeStopped
    BY <2>1, <2>2, ZenonT(30) DEF JudgeStopped, Report, Stages, Errors
  <2>3. CASE JudgePanic \/ JudgeRunning \/ AckFails
    BY <2>1, <2>3 DEF JudgePanic, JudgeRunning, AckFails, FailAt, Report, Stages, Errors
  <2> QED BY <1>4, <2>2, <2>3
<1>5. CASE Conclude
  BY <1>5 DEF Report, Conclude
<1>6. CASE UNCHANGED report
  BY <1>6
<1> QED BY <1>1, <1>2, <1>3, <1>4, <1>5, <1>6 DEF Next, Probe, Crash, GuestPrints, GuestPanics,
          GuestStops, PipeBreaks, SystemEnds, DeadlinePasses, vars

\* Every step keeps the types.
LEMMA TypeStep ==
  ASSUME IInv, [Next]_vars
  PROVE  TypeOK'
<1>0. got \in 0 .. Len(out) /\ Len(out) \in Nat /\ Len(out') \in Nat /\ Len(out) <= Len(out')
  BY GuestStep DEF IInv, TypeOK, GuestInv
<1>1. got' \in 0 .. Len(out')
  <2>1. CASE ReceiveStep \/ Drain
    BY <1>0, <2>1 DEF ReceiveStep, Drain, Receive, guest
  <2>2. CASE UNCHANGED got
    BY <1>0, <2>2
  <2>3. UNCHANGED got \/ ReceiveStep \/ Drain
    BY DEF Next, Probe, Load, LoadFails, CreateSystem, CreateFails, Start, StartFails, Connect, Attach,
      StepFails, State, DropSystem, Enumerate, Conclude, JudgePanic, JudgeStopped, JudgeRunning,
      AckFails, Crash, GuestPrints, GuestPanics, GuestStops, PipeBreaks, SystemEnds, DeadlinePasses,
      vars, local
  <2> QED BY <2>1, <2>2, <2>3
<1>2. report' \in Report
  BY ReportTypeStep DEF IInv, TypeOK
<1>3. Flags'
  <2> USE DEF IInv, TypeOK, Flags
  <2>1. CASE Load \/ LoadFails \/ CreateSystem \/ CreateFails \/ Start \/ StartFails \/ Connect \/ Attach
    BY <2>1 DEF Load, LoadFails, CreateSystem, CreateFails, Start, StartFails, Connect, Attach,
         Cancelled, guest, local
  <2>2. CASE StepFails \/ State \/ DropSystem \/ Enumerate \/ Conclude \/ ReceiveStep \/ Drain
    BY <2>2, ZenonT(30) DEF StepFails, State, DropSystem, Enumerate, Conclude, ReceiveStep, Drain, Receive, guest,
         local
  <2>3. CASE JudgePanic \/ JudgeStopped \/ JudgeRunning \/ AckFails
    BY <2>3 DEF JudgePanic, JudgeStopped, JudgeRunning, AckFails, guest, local
  <2>4. CASE Crash \/ GuestPrints \/ GuestPanics \/ GuestStops \/ PipeBreaks \/ SystemEnds
             \/ DeadlinePasses \/ UNCHANGED vars
    BY <2>4, ZenonT(30) DEF Crash, GuestPrints, GuestPanics, GuestStops, PipeBreaks, SystemEnds, DeadlinePasses,
         vars, guest, local
  <2> QED BY <2>1, <2>2, <2>3, <2>4 DEF Next, Probe
<1>4. States'
  <2> USE DEF IInv, TypeOK, States
  <2>1. CASE Load \/ LoadFails \/ CreateSystem \/ CreateFails \/ Start \/ StartFails \/ Connect \/ Attach
    BY <2>1 DEF Load, LoadFails, CreateSystem, CreateFails, Start, StartFails, Connect, Attach,
         Cancelled, Advance, FailAt, guest
  <2>2. CASE StepFails \/ State \/ DropSystem \/ Enumerate \/ Conclude \/ ReceiveStep \/ Drain
    BY <2>2 DEF StepFails, State, DropSystem, Enumerate, Conclude, ReceiveStep, Drain, FailAt, guest
  <2>3. CASE JudgePanic \/ JudgeStopped \/ JudgeRunning \/ AckFails
    BY <2>3 DEF JudgePanic, JudgeStopped, JudgeRunning, AckFails, FailAt, guest
  <2>4. CASE Crash \/ GuestPrints \/ GuestPanics \/ GuestStops \/ PipeBreaks \/ SystemEnds
             \/ DeadlinePasses \/ UNCHANGED vars
    BY <2>4 DEF Crash, GuestPrints, GuestPanics, GuestStops, PipeBreaks, SystemEnds, DeadlinePasses,
         vars, guest
  <2> QED BY <2>1, <2>2, <2>3, <2>4 DEF Next, Probe
<1> QED BY <1>1, <1>2, <1>3, <1>4 DEF TypeOK, Flags, States

\* Every step keeps who holds the system.
LEMMA LifeStep ==
  ASSUME IInv, [Next]_vars
  PROVE  LifeInv'
<1> USE DEF IInv, LifeInv, Early, Closed, Live
<1>1. CASE Load \/ LoadFails \/ CreateSystem \/ CreateFails \/ Start \/ StartFails \/ Connect \/ Attach
  BY <1>1 DEF TypeOK, Load, LoadFails, CreateSystem, CreateFails, Start,
       StartFails, Connect, Attach, Advance, FailAt, Cancelled, guest, local
<1>2. CASE StepFails \/ State \/ DropSystem \/ Enumerate \/ Conclude
  BY <1>2 DEF TypeOK, StepFails, State, DropSystem, Enumerate, Conclude, FailAt, guest, local
<1>3. CASE ReceiveStep \/ Drain
  BY <1>3 DEF TypeOK, ReceiveStep, Drain, guest
<1>4. CASE JudgePanic \/ JudgeStopped \/ JudgeRunning \/ AckFails
  BY <1>4 DEF TypeOK, JudgePanic, JudgeStopped, JudgeRunning, AckFails, FailAt, guest, local
<1>5. CASE Crash \/ GuestPrints \/ GuestPanics \/ GuestStops \/ PipeBreaks \/ SystemEnds \/ DeadlinePasses
           \/ UNCHANGED vars
  BY <1>5 DEF TypeOK, Crash, GuestPrints, GuestPanics, GuestStops, PipeBreaks, SystemEnds,
       DeadlinePasses, vars, guest, local
<1> QED BY <1>1, <1>2, <1>3, <1>4, <1>5 DEF Next, Probe

\* No step forgets received lines.
LEMMA GotGrows ==
  ASSUME IInv, [Next]_vars
  PROVE  got <= got'
<1>1. CASE ReceiveStep \/ Drain
  BY <1>1 DEF IInv, TypeOK, GuestInv, ReceiveStep, Drain, Receive
<1>2. CASE UNCHANGED got
  BY <1>2 DEF IInv, TypeOK, GuestInv
<1>3. UNCHANGED got \/ ReceiveStep \/ Drain
  BY DEF Next, Probe, Load, LoadFails, CreateSystem, CreateFails, Start, StartFails, Connect, Attach,
    StepFails, State, DropSystem, Enumerate, Conclude, JudgePanic, JudgeStopped, JudgeRunning,
    AckFails, Crash, GuestPrints, GuestPanics, GuestStops, PipeBreaks, SystemEnds, DeadlinePasses,
    vars, local
<1> QED BY <1>1, <1>2, <1>3

\* The lines change only while the system runs.
LEMMA OutGrows ==
  ASSUME [Next]_vars, svc # "running"
  PROVE  UNCHANGED out
  BY DEF Next, Probe, Load, LoadFails, CreateSystem, CreateFails, Start, StartFails, Connect, Attach,
    StepFails, ReceiveStep, State, Drain, DropSystem, Enumerate, Conclude, JudgePanic, JudgeStopped,
    JudgeRunning, AckFails, Crash, GuestPrints, GuestPanics, GuestStops, PipeBreaks, SystemEnds,
    DeadlinePasses, vars, guest

\* Every step keeps what the order to power off follows from.
LEMMA TextStep ==
  ASSUME IInv, [Next]_vars
  PROVE  TextInv'
<1>1. poweroff' => acknowledged' /\ Complete(Text)'
  <2>1. Complete(Text) => Complete(Text)'
    BY GuestStep, TypeStep, GotGrows, TextGrows DEF IInv, TypeOK, GuestInv
  <2>2. CASE JudgeRunning
    <3>1. poweroff' => acknowledged' /\ Complete(Text)
      BY <2>2 DEF IInv, TextInv, JudgeRunning, Ack
    <3> QED BY <2>1, <3>1
  <2>3. CASE UNCHANGED <<poweroff, acknowledged>>
    BY <2>1, <2>3 DEF IInv, TextInv
  <2>4. JudgeRunning \/ UNCHANGED <<poweroff, acknowledged>>
    BY DEF Next, Probe, Load, LoadFails, CreateSystem, CreateFails, Start, StartFails, Connect, Attach,
      StepFails, ReceiveStep, State, Drain, DropSystem, Enumerate, Conclude, JudgePanic, JudgeStopped,
      AckFails, Crash, GuestPrints, GuestPanics, GuestStops, PipeBreaks, SystemEnds, DeadlinePasses,
      vars, guest, local
  <2> QED BY <2>2, <2>3, <2>4
<1>2. exit' = "graceful" => poweroff' /\ ~Has(out, "panic")'
  <2>1. CASE GuestStops
    BY <2>1 DEF IInv, TextInv, GuestStops, Has
  <2>2. CASE UNCHANGED exit
    <3> SUFFICES ASSUME exit = "graceful" PROVE poweroff' /\ ~Has(out, "panic")'
      BY <2>2
    <3>1. svc # "running"
      BY DEF IInv, LifeInv
    <3>2. UNCHANGED out
      BY <3>1, OutGrows
    <3>3. poweroff /\ ~Has(out, "panic")
      BY DEF IInv, TextInv
    <3>4. poweroff'
      BY <3>3 DEF Next, Probe, Load, LoadFails, CreateSystem, CreateFails, Start, StartFails, Connect,
        Attach, StepFails, ReceiveStep, State, Drain, DropSystem, Enumerate, Conclude, JudgePanic,
        JudgeStopped, JudgeRunning, AckFails, Crash, GuestPrints, GuestPanics, GuestStops, PipeBreaks,
        SystemEnds, DeadlinePasses, vars, guest
    <3> QED BY <3>2, <3>3, <3>4 DEF Has
  <2>3. GuestStops \/ UNCHANGED exit
    BY DEF Next, Probe, Load, LoadFails, CreateSystem, CreateFails, Start, StartFails, Connect, Attach,
      StepFails, ReceiveStep, State, Drain, DropSystem, Enumerate, Conclude, JudgePanic, JudgeStopped,
      JudgeRunning, AckFails, Crash, GuestPrints, GuestPanics, PipeBreaks, SystemEnds, DeadlinePasses,
      vars, guest
  <2> QED BY <2>1, <2>2, <2>3
<1>3. at' = "judge" /\ stopped' /\ pipe' = "open" => got' = Len(out')
  <2> SUFFICES ASSUME at' = "judge", stopped', pipe' = "open" PROVE got' = Len(out')
    OBVIOUS
  <2>1. CASE Drain
    BY <2>1 DEF IInv, TypeOK, GuestInv, Drain, Receive, guest
  <2>2. CASE State
    BY <2>2 DEF State
  <2>3. CASE at = "judge" /\ UNCHANGED <<got, stopped>> /\ pipe = "open"
    BY <2>3, OutGrows DEF IInv, LifeInv, TextInv
  <2>4. Drain \/ State \/ (at = "judge" /\ UNCHANGED <<got, stopped>> /\ pipe = "open")
    BY DEF Next, Probe, Load, LoadFails, CreateSystem, CreateFails, Start, StartFails, Connect, Attach,
      StepFails, ReceiveStep, DropSystem, Enumerate, Conclude, JudgePanic, JudgeStopped,
      JudgeRunning, AckFails, Crash, GuestPrints, GuestPanics, GuestStops, PipeBreaks, SystemEnds,
      DeadlinePasses, vars, guest, local, Advance, FailAt
  <2> QED BY <2>1, <2>2, <2>3, <2>4
<1> QED BY <1>1, <1>2, <1>3 DEF TextInv

\* What is proven stays proven: nothing is received or printed any more.
LEMMA ProvenStep ==
  ASSUME IInv, [Next]_vars, Proven, at \in {"dropSystem", "absent", "report"} \cup Over
  PROVE  UNCHANGED <<stopped, exit, render, got, out>>
<1>1. svc # "running"
  BY DEF IInv, LifeInv, Proven
<1> QED BY <1>1 DEF Over, Next, Probe, Load, LoadFails, CreateSystem, CreateFails, Start, StartFails,
      Connect, Attach, StepFails, ReceiveStep, State, Drain, DropSystem, Enumerate, Conclude, JudgePanic,
      JudgeStopped, JudgeRunning, AckFails, Crash, GuestPrints, GuestPanics, GuestStops, PipeBreaks,
      SystemEnds, DeadlinePasses, vars, guest, local, Advance, FailAt

\* A report with no error before the cleanup is proven.
LEMMA JudgedIsProven ==
  ASSUME IInv, JudgeStopped, report'.error = "none"
  PROVE  Proven'
<1>1. /\ Complete(Text) /\ exit = "graceful" /\ stopped /\ (render => Rendered(Text))
      /\ report'.gpu_request_accepted
  BY DEF IInv, TypeOK, Report, ReportInv, JudgeStopped, Noted
<1>2. UNCHANGED <<out, got, exit, stopped, render>>
  BY DEF JudgeStopped, guest, local
<1>3. UNCHANGED Text
  BY <1>2 DEF Text
<1>4. Complete(Text)' /\ (Rendered(Text) => Rendered(Text)')
  BY <1>1, <1>3 DEF Complete, Has, Rendered
<1> QED BY <1>1, <1>2, <1>4 DEF Proven

\* Every step keeps what the report says.
LEMMA ReportStep ==
  ASSUME IInv, [Next]_vars
  PROVE  ReportInv'
<1>0. TypeOK' /\ LifeInv' /\ TextInv' /\ report \in Report /\ report' \in Report
  BY TypeStep, LifeStep, TextStep DEF IInv, TypeOK
<1>1. at' \in {"receive", "state", "drain", "judge"} => report'.gpu_request_accepted
  <2>1. Noted.gpu_request_accepted = report.gpu_request_accepted
    BY <1>0 DEF Noted, Report
  <2> QED BY <1>0, <2>1 DEF IInv, ReportInv, Report, Next, Probe, Load, LoadFails, CreateSystem,
    CreateFails, Start, StartFails, Connect, Attach, StepFails, ReceiveStep, State, Drain, DropSystem,
    Enumerate, Conclude, JudgePanic, JudgeStopped, JudgeRunning, AckFails, Crash, GuestPrints,
    GuestPanics, GuestStops, PipeBreaks, SystemEnds, DeadlinePasses, vars, Advance, FailAt
<1>2. Proven /\ report'.gpu_request_accepted = report.gpu_request_accepted
        /\ at \in {"dropSystem", "absent", "report"} \cup Over => Proven'
  BY ProvenStep DEF Proven, Text, Complete, Has, Rendered
<1>3. at' \in {"dropSystem", "absent", "report"} /\ report'.error = "none" => Proven'
  <2> SUFFICES ASSUME at' \in {"dropSystem", "absent", "report"}, report'.error = "none" PROVE Proven'
    OBVIOUS
  <2>1. \/ JudgeStopped
        \/ /\ at \in {"dropSystem", "absent", "report"} /\ report.error = "none"
           /\ report'.gpu_request_accepted = report.gpu_request_accepted
    <3>1. CASE ReceiveStep \/ State \/ Drain \/ DropSystem \/ Start \/ Crash \/ GuestPrints
               \/ GuestPanics \/ GuestStops \/ PipeBreaks \/ SystemEnds \/ DeadlinePasses
               \/ UNCHANGED vars
      BY <3>1 DEF ReceiveStep, State, Drain, DropSystem, Start, Crash, GuestPrints, GuestPanics,
        GuestStops, PipeBreaks, SystemEnds, DeadlinePasses, vars
    <3>2. CASE Enumerate
      BY <1>0, <3>2 DEF Enumerate, Report
    <3>3. CASE JudgePanic \/ JudgeRunning \/ AckFails
      <4>1. Noted \in Report
        BY NotedType DEF IInv, TypeOK
      <4> QED BY <1>0, <3>3, <4>1 DEF JudgePanic, JudgeRunning, AckFails, FailAt, Report
    <3>4. CASE LoadFails \/ CreateFails \/ StartFails \/ StepFails
      BY <1>0, <3>4 DEF LoadFails, CreateFails, StartFails, StepFails, FailAt, Report
    <3>5. CASE Load \/ CreateSystem \/ Connect \/ Attach \/ Conclude
      BY <3>5 DEF Load, CreateSystem, Connect, Attach, Conclude, Advance
    <3> QED BY <3>1, <3>2, <3>3, <3>4, <3>5 DEF Next, Probe
  <2>2. CASE JudgeStopped
    BY <2>2, JudgedIsProven
  <2>3. CASE /\ at \in {"dropSystem", "absent", "report"} /\ report.error = "none"
             /\ report'.gpu_request_accepted = report.gpu_request_accepted
    BY <1>2, <2>3 DEF IInv, ReportInv
  <2> QED BY <2>1, <2>2, <2>3
<1>4. report'.cleanup_verified => svc' = "absent" /\ at' \in {"report"} \cup Over
  <2>1. Noted.cleanup_verified = report.cleanup_verified
    BY <1>0 DEF Noted, Report
  <2>2. CASE report.cleanup_verified
    BY <2>2 DEF IInv, ReportInv, Over, Live, Next, Probe, Load, LoadFails, CreateSystem, CreateFails,
      Start, StartFails, Connect, Attach, StepFails, ReceiveStep, State, Drain, DropSystem, Enumerate,
      Conclude, JudgePanic, JudgeStopped, JudgeRunning, AckFails, Crash, GuestPrints, GuestPanics,
      GuestStops, PipeBreaks, SystemEnds, DeadlinePasses, vars, guest, Advance, FailAt
  <2>3. CASE Enumerate
    BY <1>0, <2>3 DEF IInv, ReportInv, Enumerate, Report, guest, Over
  <2>4. CASE ~report.cleanup_verified /\ ~Enumerate
    <3>1. ~report'.cleanup_verified
      BY <1>0, <2>1, <2>4 DEF Report, Next, Probe, Load, LoadFails, CreateSystem, CreateFails,
        Start, StartFails, Connect, Attach, StepFails, ReceiveStep, State, Drain, DropSystem,
        Conclude, JudgePanic, JudgeStopped, JudgeRunning, AckFails, Crash, GuestPrints, GuestPanics,
        GuestStops, PipeBreaks, SystemEnds, DeadlinePasses, vars, Advance, FailAt
    <3> QED BY <3>1
  <2> QED BY <2>2, <2>3, <2>4
<1>5. report'.success => Proven' /\ report'.cleanup_verified /\ at' \in Over
  <2>1. CASE Conclude
    BY <1>0, <1>2, <2>1 DEF IInv, ReportInv, Conclude, Report, Over
  <2>2. CASE report.success /\ ~Conclude
    <3>1. UNCHANGED report /\ at' \in Over
      BY <2>2 DEF IInv, ReportInv, Over, Next, Probe, Load, LoadFails, CreateSystem, CreateFails,
        Start, StartFails, Connect, Attach, StepFails, ReceiveStep, State, Drain, DropSystem, Enumerate,
        JudgePanic, JudgeStopped, JudgeRunning, AckFails, Crash, GuestPrints, GuestPanics,
        GuestStops, PipeBreaks, SystemEnds, DeadlinePasses, vars, Advance, FailAt
    <3> QED BY <1>2, <2>2, <3>1 DEF IInv, ReportInv
  <2>3. CASE ~report.success /\ ~Conclude
    <3>1. Noted.success = report.success
      BY <1>0 DEF Noted, Report
    <3>2. ~report'.success
      BY <1>0, <2>3, <3>1 DEF Report, Next, Probe, Load, LoadFails, CreateSystem, CreateFails,
        Start, StartFails, Connect, Attach, StepFails, ReceiveStep, State, Drain, DropSystem, Enumerate,
        JudgePanic, JudgeStopped, JudgeRunning, AckFails, Crash, GuestPrints, GuestPanics,
        GuestStops, PipeBreaks, SystemEnds, DeadlinePasses, vars, Advance, FailAt
    <3> QED BY <3>2
  <2> QED BY <2>1, <2>2, <2>3
<1>6. ErrorsNameTheirCause'
  <2> SUFFICES ASSUME pipe' = "open", at' = "dropSystem", stopped'
               PROVE  /\ report'.error = "incomplete" => ~Complete(out)' /\ ~Has(out, "panic")'
                      /\ report'.error = "not_graceful" => ~Has(out, "panic")'
    BY DEF ErrorsNameTheirCause
  <2>1. CASE JudgeStopped
    <3>1. got = Len(out) /\ UNCHANGED out
      BY <2>1 DEF IInv, TextInv, JudgeStopped, guest
    <3>2. Text = out
      BY <3>1, TextLines DEF IInv, TypeOK, GuestInv
    <3>3. /\ report'.error = "incomplete" => ~Complete(Text)
          /\ ~Has(Text, "panic")
      <4>1. Noted \in Report
        BY NotedType DEF IInv, TypeOK
      <4> QED BY <2>1, <4>1 DEF JudgeStopped, Report
    <3> QED BY <3>1, <3>2, <3>3 DEF Complete, Has
  <2>2. CASE at = "dropSystem" /\ pipe = "open" /\ UNCHANGED <<report, stopped>>
    <3>1. UNCHANGED out
      BY <2>2, OutGrows DEF IInv, LifeInv
    <3> QED BY <2>2, <3>1 DEF IInv, ReportInv, ErrorsNameTheirCause, Complete, Has
  <2>3. CASE report'.error \notin {"incomplete", "not_graceful"}
    BY <2>3
  <2>4. \/ JudgeStopped
        \/ at = "dropSystem" /\ pipe = "open" /\ UNCHANGED <<report, stopped>>
        \/ report'.error \notin {"incomplete", "not_graceful"}
    <3>1. CASE StepFails \/ CreateFails \/ StartFails \/ JudgePanic \/ AckFails \/ JudgeRunning
      <4>1. Noted \in Report
        BY NotedType DEF IInv, TypeOK
      <4> QED BY <1>0, <3>1, <4>1 DEF StepFails, CreateFails, StartFails, JudgePanic, AckFails,
                JudgeRunning, FailAt, Report
    <3>2. CASE ~(StepFails \/ CreateFails \/ StartFails \/ JudgePanic \/ AckFails \/ JudgeRunning)
      BY <3>2 DEF Next, Probe, Load, LoadFails, CreateSystem, Start, Connect, Attach, ReceiveStep,
        State, Drain, DropSystem, Enumerate, Conclude, Crash, GuestPrints, GuestPanics, GuestStops,
        PipeBreaks, SystemEnds, DeadlinePasses, vars, guest, local, Advance
    <3> QED BY <3>1, <3>2
  <2> QED BY <2>1, <2>2, <2>3, <2>4
<1> QED BY <1>1, <1>3, <1>4, <1>5, <1>6 DEF ReportInv

-----------------------------------------------------------------------------
(* Theorems *)

\* The strengthened invariant holds in every reachable state.
THEOREM Invariance == Spec => []IInv
<1>1. IInv /\ [Next]_vars => IInv'
  <2> SUFFICES ASSUME IInv, [Next]_vars PROVE IInv'
    OBVIOUS
  <2>1. GuestInv'
    BY GuestStep DEF IInv
  <2> QED BY <2>1, TypeStep, LifeStep, TextStep, ReportStep DEF IInv
<1> QED BY <1>1, InitInv, PTL DEF Spec

\* Type correctness, the number of lines received included.
THEOREM TypeCorrect == Spec => []TypeOK
  BY Invariance, PTL DEF IInv

\* A system in the service is held or on its way out, on every path of probe and after a crash.
THEOREM OwnedSystems == Spec => []SystemIsOwned
<1>1. IInv => SystemIsOwned
  BY DEF IInv, LifeInv, SystemIsOwned
<1> QED BY <1>1, Invariance, PTL

\* Once the cleanup is verified there is no system, and there never is one again.
THEOREM FinalCleanup == Spec => []CleanupIsFinal
<1>1. IInv => CleanupIsFinal
  BY DEF IInv, LifeInv, ReportInv, Closed, Over, CleanupIsFinal
<1> QED BY <1>1, Invariance, PTL

\* A graceful exit follows the whole report.
THEOREM ReportsPrecedePoweroff == Spec => []ReportPrecedesPoweroff
<1>1. IInv => ReportPrecedesPoweroff
  BY DEF IInv, TextInv, ReportPrecedesPoweroff
<1> QED BY <1>1, Invariance, PTL

\* An error names what the guest did.
THEOREM TruthfulErrors == Spec => []ErrorsNameTheirCause
<1>1. IInv => ErrorsNameTheirCause
  BY DEF IInv, ReportInv
<1> QED BY <1>1, Invariance, PTL

\* A success is proven, by all the guest printed and not only by what was received.
THEOREM ProvenSuccess == Spec => []SuccessIsProven
<1>1. IInv => SuccessIsProven
  <2> SUFFICES ASSUME IInv, report.success PROVE SuccessIsProven
    BY DEF SuccessIsProven
  <2>1. Proven /\ svc = "absent" /\ ~handle /\ ~Has(out, "panic") /\ acknowledged
    BY DEF IInv, ReportInv, LifeInv, TextInv, Proven, Closed, Over
  <2>2. Text = out
    BY <2>1, WholeText DEF IInv, Proven
  <2> QED BY <2>1, <2>2 DEF Proven, SuccessIsProven
<1> QED BY <1>1, Invariance, PTL
=============================================================================
