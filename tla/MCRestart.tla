------------------------------ MODULE MCRestart ------------------------------
(* Restart with interchangeable events. *)
EXTENDS Restart, TLC

Symmetric == Permutations(EventIds)

\* The built-in maintenance check passes without a notification
\* (checks/maintenance/check.go:70).
MaintenanceSilent == {<<Maintenance, "passing">>}

(* States that differ only in what neither a step nor a property reads any   *)
(* more count as one.                                                        *)

\* Rows that the last process has read.
RowsToRead ==
  LET read(n) == restarts = MaxRestarts /\ pc[n] # "new"
  IN <<IF restarts = MaxRestarts /\ loaded THEN {} ELSE trackerRow,
       [n \in Names |-> IF read(n) THEN {} ELSE rows[n]]>>

\* The number that a notification has carried.
Calling == [n \in Names |-> <<call[n].result, call[n].event>>]

\* What was issued and announced before a row was lost or a tracker replaced.
HistoryRead ==
  <<IF stale \/ displaced THEN {} ELSE issued,
    IF stale /\ displaced THEN <<>> ELSE <<alert, muted>>>>

View == <<trackerVars, updater, pc, Calling, commands, HistoryRead, RowsToRead, processVars>>
=============================================================================
