--------------------------- MODULE SupervisedRun ---------------------------
(***************************************************************************)
(* One supervised run as its caller sees it (RunControl and RunReport of   *)
(* crates/limiar/src/runner.rs): a runtime is launched at most once, told  *)
(* of in order, and gone before there is a result.                         *)
(***************************************************************************)
EXTENDS Naturals

VARIABLES
  runtime,   \* the child process: "none" yet, "live" or "gone"
  told,      \* the events the caller got: 0, 1 (Started) or 2 (MarkerSeen too)
  result     \* "none", "error", "failed" or "passed"

Init == runtime = "none" /\ told = 0 /\ result = "none"

Launch ==
  /\ runtime = "none" /\ result = "none"
  /\ runtime' = "live" /\ UNCHANGED <<told, result>>

Tell ==
  /\ runtime = "live" /\ told < 2
  /\ told' = told + 1 /\ UNCHANGED <<runtime, result>>

Reap ==
  /\ runtime = "live"
  /\ runtime' = "gone" /\ UNCHANGED <<told, result>>

Refuse ==
  /\ runtime = "none" /\ result = "none"
  /\ result' = "error" /\ UNCHANGED <<runtime, told>>

Return ==
  /\ runtime = "gone" /\ result = "none"
  /\ \E r \in {"error", "failed", "passed"} : result' = r
  /\ UNCHANGED <<runtime, told>>

Next == Launch \/ Tell \/ Reap \/ Refuse \/ Return

Spec == Init /\ [][Next]_<<runtime, told, result>>
=============================================================================
