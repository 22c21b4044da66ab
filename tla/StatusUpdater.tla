---------------------------- MODULE StatusUpdater ----------------------------
(***************************************************************************)
(* The StatusUpdater of status.go as operators on its state: what one      *)
(* result of a check does to the counters and the status, and whether it   *)
(* reaches the event tracker, the subscribers and the actions.             *)
(*                                                                         *)
(* An updater is a record.  Its counters are only ever compared with the   *)
(* thresholds, so they stop at CounterCap; Go's ints go on counting.       *)
(***************************************************************************)
EXTENDS Integers

CONSTANTS SuccessesBeforePassing, FailuresBeforeWarning,
          FailuresBeforeCritical, CounterCap

\* Register replaces a threshold of 0 by its default.
ASSUME ThresholdAssumption ==
  /\ SuccessesBeforePassing \in Nat \ {0}
  /\ FailuresBeforeWarning \in Nat \ {0}
  /\ FailuresBeforeCritical \in Nat \ {0}
  /\ CounterCap \in Nat
  /\ CounterCap >= SuccessesBeforePassing
  /\ CounterCap >= FailuresBeforeWarning
  /\ CounterCap >= FailuresBeforeCritical

\* What one run of a check reports; a status is always one of these, and
\* "initializing" appears only in a notification.
Results == {"passing", "warning", "critical", "timeout"}
Failing == Results \ {"passing"}

Updaters == [status : Results, initialized : BOOLEAN,
             successes : 0..CounterCap, failures : 0..CounterCap]

\* newStatusUpdaterInternal: critical until the first threshold is reached.
NewUpdater == [status |-> "critical", initialized |-> FALSE,
               successes |-> 0, failures |-> 0]

Counting(n) == IF n < CounterCap THEN n + 1 ELSE n

\* Fault: a success does not break a run of failures.
CountedKeepsFailures(u, result) ==
  IF result = "passing"
  THEN [u EXCEPT !.successes = Counting(u.successes)]
  ELSE [u EXCEPT !.failures = Counting(u.failures), !.successes = 0]

\* A failure of any kind counts towards both failure thresholds.
Counted(u, result) ==
  IF result = "passing"
  THEN [u EXCEPT !.successes = Counting(u.successes), !.failures = 0]
  ELSE [u EXCEPT !.failures = Counting(u.failures), !.successes = 0]

\* The number of results in a row that makes a result the status.
Threshold(result) == CASE result = "passing" -> SuccessesBeforePassing
                       [] result = "warning" -> FailuresBeforeWarning
                       [] OTHER              -> FailuresBeforeCritical

\* Fault: one result more than the threshold is needed.
CrossesLate(u, result) ==
  IF result = "passing" THEN Counted(u, result).successes > Threshold(result)
                        ELSE Counted(u, result).failures > Threshold(result)

Crosses(u, result) ==
  IF result = "passing" THEN Counted(u, result).successes >= Threshold(result)
                        ELSE Counted(u, result).failures >= Threshold(result)

\* The updater after the result: below the threshold only the counters move.
Updated(u, result) ==
  IF Crosses(u, result)
  THEN [Counted(u, result) EXCEPT !.status = result, !.initialized = TRUE]
  ELSE Counted(u, result)

\* Fault: the synthetic initial status counts as one that was announced.
NotifiesOnChangeOnly(u, result, disableNotification) ==
  Crosses(u, result) /\ u.status # result /\ ~disableNotification

\* Fault: each result at its threshold notifies.
NotifiesEachTime(u, result, disableNotification) ==
  Crosses(u, result) /\ ~disableNotification

\* A change of status notifies, and so does the first status of all.
Notifies(u, result, disableNotification) ==
  /\ Crosses(u, result)
  /\ u.status # result \/ ~u.initialized
  /\ ~disableNotification
=============================================================================
