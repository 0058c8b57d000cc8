---------------------------- MODULE CommandQueue ----------------------------
(***************************************************************************)
(* What the command ring promises the guest and the host                   *)
(* (protocol/pvgpu_protocol.h): an unbounded first-in first-out queue that *)
(* takes batches of commands and hands them out one at a time.             *)
(***************************************************************************)
EXTENDS SequencesExt

CONSTANT Command

VARIABLES
  queue,  \* commands published and not yet processed
  done    \* commands processed

Init == queue = <<>> /\ done = <<>>

\* a batch of commands goes to the end
Submit ==
  /\ queue' \in Seq(Command) /\ IsStrictPrefix(queue, queue')
  /\ UNCHANGED done

Take ==
  /\ queue # <<>>
  /\ done' = Append(done, Head(queue)) /\ queue' = Tail(queue)

Next == Submit \/ Take

Spec == Init /\ [][Next]_<<queue, done>>
=============================================================================
