--------------------------- MODULE MCEventTracker ---------------------------
(* A small instance of EventTracker: two regular checks. *)
EXTENDS EventTracker, TLC

Symmetric == Permutations(Checks) \cup Permutations(EventIds)
=============================================================================
