--------------------------- MODULE MCTableUpdates ---------------------------
(* An instance of TableUpdates for TLC. *)
EXTENDS TableUpdates, TLC

CONSTANTS s1, s2, p1, p2, t1, inbox, trash, m1
=============================================================================
