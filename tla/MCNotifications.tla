-------------------------- MODULE MCNotifications --------------------------
(* Instances of Notifications for TLC. *)
EXTENDS Notifications, TLC

\* Overlapping passes are interchangeable.
PassSymmetry == Permutations(Passes)
=============================================================================
