----------------------------- MODULE VmLifecycle -----------------------------
(***************************************************************************)
(* What the registry promises about one virtual machine                    *)
(* (docs/MANAGED-VMS.md): at most one supervised run at a time, each with  *)
(* a run id of its own, and an entry that changes or disappears only       *)
(* between runs.                                                           *)
(***************************************************************************)
EXTENDS Naturals

VARIABLES
  phase,     \* absent, idle, or active: supervised
  revision,  \* profile revision, 0 without a usable profile
  runs       \* runs begun so far; the latest one is the active one

lifecycle == <<phase, revision, runs>>

Init == phase = "absent" /\ revision = 0 /\ runs = 0

Create == phase = "absent" /\ phase' = "idle" /\ UNCHANGED <<revision, runs>>

\* the first profile, or an update
Revise == phase = "idle" /\ revision' = revision + 1 /\ UNCHANGED <<phase, runs>>

\* unregister drops the profile first, the entry last
Forget == phase = "idle" /\ revision' = 0 /\ UNCHANGED <<phase, runs>>

Remove ==
  /\ phase = "idle" /\ revision = 0
  /\ phase' = "absent" /\ UNCHANGED <<revision, runs>>

Begin ==
  /\ phase = "idle" /\ revision > 0
  /\ phase' = "active" /\ runs' = runs + 1 /\ UNCHANGED revision

End == phase = "active" /\ phase' = "idle" /\ UNCHANGED <<revision, runs>>

Next == Create \/ Revise \/ Forget \/ Remove \/ Begin \/ End

Spec == Init /\ [][Next]_lifecycle
=============================================================================
