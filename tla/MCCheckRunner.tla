---------------------------- MODULE MCCheckRunner ----------------------------
(* CheckRunner with room for a loop that is being replaced. *)
EXTENDS CheckRunner
=============================================================================
