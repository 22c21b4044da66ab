-------------------------- MODULE MCNotifications --------------------------
(* A small instance of Notifications: silences for good, for a time, and of
   a negative length. *)
EXTENDS Notifications

MCDurations == {-1, 0, 1, 3}
=============================================================================
