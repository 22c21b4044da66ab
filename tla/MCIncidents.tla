---------------------------- MODULE MCIncidents ----------------------------
(* Incidents with interchangeable checks and events. *)
EXTENDS Incidents, TLC

Symmetric == Permutations(Checks) \cup Permutations(EventIds)

\* The built-in maintenance check passes without a notification
\* (checks/maintenance/check.go:70).
MaintenanceSilent == {<<Maintenance, "passing">>}

\* A check of the application that also fails without one.
ChecksSilent == Checks \X {"passing", "critical"}

(* States that differ only in what neither a step nor a property of the run  *)
(* reads any more count as one: the number that a notification has carried,  *)
(* and, where no property is about alerts, the history of alerts.            *)
Calling == [n \in Names |-> <<call[n].result, call[n].event>>]
NumbersView == <<trackerVars, updater, pc, Calling, commands, issued>>
AlertsView == <<NumbersView, alert, muted>>
=============================================================================
