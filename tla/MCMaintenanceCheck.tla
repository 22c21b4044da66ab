------------------------- MODULE MCMaintenanceCheck -------------------------
(* Overlapping runs of the maintenance check over a few files. *)
EXTENDS MaintenanceCheck
=============================================================================
