--------------------------- MODULE MCSearchFolders ---------------------------
(* Instances of SearchFolders for TLC. *)
EXTENDS SearchFolders, TLC

ProcSymmetry == Permutations(Procs)
=============================================================================
