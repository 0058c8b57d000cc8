--------------------------- MODULE MCVmRegistry ---------------------------
(* Instances of VmRegistry for TLC. *)
EXTENDS VmRegistry, TLC

\* processes are interchangeable: no action compares them but for equality
ProcSymmetry == Permutations(Proc)
=============================================================================
