------------------------------ MODULE Debounce ------------------------------
(***************************************************************************)
(* One check's StatusUpdater fed with arbitrary results, and what its      *)
(* subscribers have been told.  The properties compare the status with the *)
(* log of results itself, never with the counters that compute it.         *)
(***************************************************************************)
EXTENDS StatusUpdater, Sequences

CONSTANT MaxResults  \* bound: results fed to the updater

ASSUME MaxResultsAssumption == MaxResults \in Nat

VARIABLES updater,
          log,        \* history: every result so far
          told,       \* history: the statuses of the notifications sent
          unheard     \* history: a status was entered without a notification
                      \* since the last notification

vars == <<updater, log, told, unheard>>

TypeOK ==
  /\ updater \in Updaters
  /\ log \in Seq(Results)
  /\ told \in Seq(Results \cup {"initializing"})
  /\ unheard \in BOOLEAN

\* NewStatusUpdater has sent the "initializing" notification.
Init ==
  /\ updater = NewUpdater
  /\ log = <<>>
  /\ told = <<"initializing">>
  /\ unheard = FALSE

\* StatusUpdater.update, under the updater's mutex.
update(result, disableNotification) ==
  /\ Len(log) < MaxResults
  /\ updater' = Updated(updater, result)
  /\ log' = Append(log, result)
  /\ IF Notifies(updater, result, disableNotification)
     THEN told' = Append(told, result) /\ unheard' = FALSE
     ELSE /\ UNCHANGED told
          /\ unheard' = (\/ unheard
                         \/ disableNotification
                            /\ Notifies(updater, result, FALSE))

\* A check answers with anything but a timeout; a timeout cannot ask for
\* silence (check.go passes false).
Next ==
  \/ \E result \in Results \ {"timeout"}, disableNotification \in BOOLEAN :
       update(result, disableNotification)
  \/ update("timeout", FALSE)

Spec == Init /\ [][Next]_vars

-----------------------------------------------------------------------------
Latest(sequence) == sequence[Len(sequence)]

\* The results that count towards a status: a failure of any kind counts
\* towards each of the failing statuses.
Towards(status) == IF status = "passing" THEN {"passing"} ELSE Failing

\* The results end in a run that is long enough to make the last one the status.
RunComplete(results) ==
  /\ results # <<>>
  /\ Len(results) >= Threshold(Latest(results))
  /\ \A i \in Len(results) - Threshold(Latest(results)) + 1 .. Len(results) :
       results[i] \in Towards(Latest(results))

\* A status is entered only by a result of that kind that completes a run of
\* the promised length: successes for passing, failures of any kind for the
\* others.
EnteredAfterRun ==
  [][updater'.status # updater.status =>
       RunComplete(log') /\ updater'.status = Latest(log')]_vars

\* No result is held back longer than promised: once the last result
\* completes its run it is the status, whatever came before.
ReachedAfterRun ==
  RunComplete(log) => updater.status = Latest(log) /\ updater.initialized

\* Subscribers know the status: from the first status on, the last
\* notification named the current one, unless a response asked for silence
\* when the status was entered.
SubscribersKnow ==
  updater.initialized /\ ~unheard => Latest(told) = updater.status

\* Nobody is told the same thing twice: a notification repeats the one before
\* it only if a status in between was kept silent.
NoRepeatedAlert ==
  [][told' # told /\ ~unheard => Latest(told') # Latest(told)]_vars

\* The counters count exactly the run the log ends in, up to their cap.
CountersMatchLog ==
  /\ updater.successes <= Len(log) /\ updater.failures <= Len(log)
  /\ \A i \in Len(log) - updater.successes + 1 .. Len(log) : log[i] = "passing"
  /\ \A i \in Len(log) - updater.failures + 1 .. Len(log) : log[i] # "passing"
  /\ updater.successes < CounterCap /\ updater.successes < Len(log)
       => log[Len(log) - updater.successes] # "passing"
  /\ updater.failures < CounterCap /\ updater.failures < Len(log)
       => log[Len(log) - updater.failures] = "passing"

\* The inductive invariant.
DebounceInv ==
  /\ TypeOK
  /\ CountersMatchLog
  /\ told # <<>>
  /\ SubscribersKnow
  /\ ~updater.initialized => Latest(told) = "initializing"
=============================================================================
