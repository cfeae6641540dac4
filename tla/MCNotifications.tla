-------------------------- MODULE MCNotifications --------------------------
(* Instances of Notifications for TLC. *)
EXTENDS Notifications, TLC

NotificationSymmetry ==
  Permutations(Sids) \cup Permutations(Conns) \cup Permutations(Procs)
=============================================================================
