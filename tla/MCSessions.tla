----------------------------- MODULE MCSessions -----------------------------
(* Instances of Sessions for TLC. *)
EXTENDS Sessions, TLC

ProcSymmetry == Permutations(Procs)
SessionSymmetry == ProcSymmetry \cup (Permutations(Sids \ Loners) \cup Permutations(Loners))
=============================================================================
