-------------------------------- MODULE Restart --------------------------------
(***************************************************************************)
(* Incidents across restarts of the process: SaveState copies the tracker  *)
(* and then each updater into rows, the process stops at any moment, and   *)
(* New and Register of the next process read the rows back.                *)
(*                                                                         *)
(* A row is in the database as soon as it is saved: what a persister may   *)
(* lose on the way (SqlitePersister.tla) is one more row not saved.  An    *)
(* absent row is the empty set.  Subscribers, and with them the history    *)
(* variables, live on.                                                     *)
(***************************************************************************)
EXTENDS Incidents

CONSTANT MaxRestarts  \* bound

ASSUME MaxRestartsAssumption == MaxRestarts \in Nat

VARIABLES trackerRow,  \* the row of the tracker's state, or none
          rows,        \* name -> the row of the check, or none
          loaded,      \* New has loaded the tracker's state
          saving,      \* a SaveState is under way
          copied,      \* the checks it has copied
          restarts,
          stale,       \* history: a row was not the state its process stopped
                       \* with, or could not be read
          displaced    \* history: a check ran on a tracker that New replaced

rowVars == <<trackerRow, rows>>
processVars == <<loaded, saving, copied, restarts, stale, displaced>>
restartVars == <<vars, rowVars, processVars>>

TrackerStates ==
  [eventIDs : [Names -> MaybeEvent], sequences : [EventIds -> Nat],
   maintenanceEventID : MaybeEvent, maintenanceActive : BOOLEAN,
   maintenanceChecks : SUBSET Checks]

CheckStates == [status : Results, successes : 0..CounterCap, failures : 0..CounterCap]

RestartTypeOK ==
  /\ IncidentsTypeOK
  /\ trackerRow \subseteq TrackerStates
  /\ rows \in [Names -> SUBSET CheckStates]
  /\ loaded \in BOOLEAN /\ saving \in BOOLEAN /\ stale \in BOOLEAN
  /\ displaced \in BOOLEAN
  /\ copied \subseteq Names
  /\ restarts \in 0..MaxRestarts

RestartInit ==
  /\ IncidentsInit
  /\ trackerRow = {}
  /\ rows = [n \in Names |-> {}]
  /\ loaded = FALSE
  /\ saving = FALSE
  /\ copied = {}
  /\ restarts = 0
  /\ stale = FALSE
  /\ displaced = FALSE

-----------------------------------------------------------------------------
(* SaveState *)

TrackerState ==
  [eventIDs |-> eventIDs, sequences |-> sequences,
   maintenanceEventID |-> maintenanceEventID,
   maintenanceActive |-> maintenanceActive,
   maintenanceChecks |-> maintenanceChecks]

\* StatusUpdater.GetState: whether a status was ever reached is not saved.
CheckState(n) == [status |-> updater[n].status, successes |-> updater[n].successes,
                  failures |-> updater[n].failures]

Registered == {n \in Names : pc[n] # "new"}

\* SaveState holds the mutex of Health from its first check to its last, and
\* Register from its beginning to its end.
SaveHoldsHealth == copied # {}
RegisterHoldsHealth == \E n \in Names : Registering(n)

\* What the last process saves is never read, and not followed.
SaveTracker ==
  /\ loaded /\ ~saving /\ restarts < MaxRestarts
  /\ trackerRow' = {TrackerState}
  /\ saving' = TRUE
  /\ UNCHANGED <<vars, rows, loaded, copied, restarts, stale, displaced>>

\* GetState of an updater waits for an update under way.
SaveCheck(n) ==
  /\ saving /\ n \in Registered \ copied
  /\ pc[n] = "idle" /\ ~RegisterHoldsHealth
  /\ rows' = [rows EXCEPT ![n] = {CheckState(n)}]
  /\ saving' = (Registered # copied \cup {n})
  /\ copied' = IF saving' THEN copied \cup {n} ELSE {}
  /\ UNCHANGED <<vars, trackerRow, loaded, restarts, stale, displaced>>

\* There is no check to copy.
SaveNoCheck ==
  /\ saving /\ Registered = {}
  /\ saving' = FALSE
  /\ UNCHANGED <<vars, rowVars, loaded, copied, restarts, stale, displaced>>

-----------------------------------------------------------------------------
(* Stop and start *)

\* The rows are the state of the process, and nothing is under way.
AllSaved ==
  /\ trackerRow = {TrackerState}
  /\ \A n \in Names :
       \/ pc[n] = "idle" /\ rows[n] = {CheckState(n)}
       \/ pc[n] = "new" /\ rows[n] = {}

\* The process exits or is killed, and another one starts.
Restart ==
  /\ restarts < MaxRestarts
  /\ restarts' = restarts + 1
  /\ stale' = (stale \/ ~AllSaved)
  /\ loaded' = FALSE /\ saving' = FALSE /\ copied' = {}
  /\ eventIDs' = [n \in Names |-> NoEvent]
  /\ sequences' = [id \in EventIds |-> 0]
  /\ maintenanceEventID' = NoEvent
  /\ maintenanceActive' = FALSE
  /\ maintenanceChecks' = {}
  /\ updater' = [n \in Names |-> NewUpdater]
  /\ pc' = [n \in Names |-> "new"]
  /\ call' = [n \in Names |-> NoCall]
  /\ commands' = {}
  /\ UNCHANGED <<minter, historyVars, rowVars, displaced>>

\* Fault: the sequence counters are not restored.
RestoreTrackerUncounted(state) ==
  /\ eventIDs' = state.eventIDs
  /\ maintenanceEventID' = state.maintenanceEventID
  /\ maintenanceActive' = state.maintenanceActive
  /\ maintenanceChecks' = state.maintenanceChecks
  /\ UNCHANGED <<sequences, minter>>

\* Fault: whether maintenance is active is not restored.
RestoreTrackerInactive(state) ==
  /\ eventIDs' = state.eventIDs
  /\ sequences' = state.sequences
  /\ maintenanceEventID' = state.maintenanceEventID
  /\ maintenanceChecks' = state.maintenanceChecks
  /\ UNCHANGED <<maintenanceActive, minter>>

\* EventTracker.RestoreState replaces whatever the tracker holds.
RestoreTracker(state) ==
  /\ eventIDs' = state.eventIDs
  /\ sequences' = state.sequences
  /\ maintenanceEventID' = state.maintenanceEventID
  /\ maintenanceActive' = state.maintenanceActive
  /\ maintenanceChecks' = state.maintenanceChecks
  /\ UNCHANGED minter

\* The row, or nothing: there is none, or it cannot be read or parsed.
LoadEventTrackerState == {trackerRow, {}}
LoadCheckState(n) == {rows[n], {}}

\* The last part of New.  Its options come first, and with WithChecks they
\* have registered checks, which run already.  An error is logged only.
LoadTracker ==
  /\ ~loaded /\ ~RegisterHoldsHealth
  /\ loaded' = TRUE
  /\ \E found \in LoadEventTrackerState :
       /\ stale' = (stale \/ found # trackerRow)
       /\ \/ found = {} /\ UNCHANGED trackerVars
          \/ \E state \in found : RestoreTracker(state)
  /\ UNCHANGED <<callVars, commands, historyVars, rowVars, saving, copied, restarts,
                 displaced>>

\* Register runs within New, before the row is read, or after New.
Registers ==
  /\ ~SaveHoldsHealth
  /\ displaced' = (displaced \/ (~loaded /\ trackerRow # {}))
  /\ UNCHANGED <<commands, historyVars, rowVars, loaded, saving, copied, restarts>>

\* Register of a check for which nothing is loaded.
RegisterNew(n, found) ==
  /\ Registers
  /\ found = {} /\ stale' = (stale \/ rows[n] # {})
  /\ Register(n)

\* Fault: only the counters are restored; a silent updater starts as passing.
RestoredCounters(state) ==
  [status |-> "passing", initialized |-> TRUE,
   successes |-> state.successes, failures |-> state.failures]

\* StatusUpdater.RestoreState
Restored(state) ==
  [status |-> state.status, initialized |-> TRUE,
   successes |-> state.successes, failures |-> state.failures]

\* Fault: a restored failure is not announced.
AnnounceNothing(n) == Goto(n, "idle") /\ UNCHANGED <<trackerVars, call>>

\* A restored failure goes to the subscribers again, tagged "restored:true",
\* with the event the tracker has for it, or a new one.
Announce(n) ==
  /\ \E id \in MaybeEvent :
       /\ GetOrCreateEventID(n, FALSE, id)
       /\ Calls(n, "initializing", id)
  /\ Goto(n, "numbering")

\* Register of a check with a row.
RegisterRestored(n, found) ==
  /\ Registers /\ ~RegisterHoldsHealth
  /\ pc[n] = "new"
  /\ UNCHANGED stale
  /\ \E state \in found :
       /\ updater' = [updater EXCEPT ![n] = Restored(state)]
       /\ IF state.status \in Failing
          THEN Announce(n)
          ELSE Goto(n, "idle") /\ UNCHANGED <<trackerVars, call>>

\* Checks that run and report, and commands.
Run == Handlers /\ UNCHANGED <<rowVars, processVars>>

RestartNext ==
  \/ Run
  \/ SaveTracker \/ SaveNoCheck \/ Restart \/ LoadTracker
  \/ \E n \in Names :
       \/ SaveCheck(n)
       \/ \E found \in LoadCheckState(n) : RegisterNew(n, found) \/ RegisterRestored(n, found)

RestartSpec == RestartInit /\ [][RestartNext]_restartVars

-----------------------------------------------------------------------------
(* Properties *)

\* "This should be called before any checks are registered", says RestoreState.
\* Then, whenever the process stops and whatever was saved by that time, the
\* tracker of the next one is consistent and calls work with the events it holds.
RestartInv ==
  /\ RestartTypeOK
  /\ TrackerInv
  /\ ~displaced => CallsMatchTracker

\* Whenever the process stops, a failing check has an open alert, and the alert
\* carries the event the check is attached to.  A check that failed silently is
\* the exception, until its next notification.
FailingIsAnnounced ==
  \A n \in Names :
    ~displaced /\ ~muted[n] /\ pc[n] = "idle" /\ updater[n].status \in Failing
      => alert[n] # NoEvent /\ alert[n] = eventIDs[n]

\* "State persistence solves this": if everything was saved, a check that
\* passes has no alert left open, however long before the restart it was sent,
\* unless it passed silently.
PassingIsResolved ==
  \A n \in Names :
    ~stale /\ ~muted[n] /\ pc[n] = "idle" /\ updater[n].status = "passing"
      => alert[n] = NoEvent

\* "Event IDs reset, breaking alert correlation": if everything was saved, an
\* alert that was open at the restart is repeated and resolved under its event,
\* unless its check passed silently in between.
AlertSurvivesRestart ==
  [][\A n \in Names :
       Send(n) /\ ~stale /\ ~displaced /\ alert[n] # NoEvent /\ ~muted[n]
         => call[n].event = alert[n]]_restartVars

\* Nor is a number of an event given out twice, to a notification or to a
\* command, of a shared event while some check is attached to it.
NumbersSurviveRestart ==
  [][\A id \in EventIds :
       /\ ~stale /\ ~displaced /\ UNCHANGED loaded
       /\ sequences'[id] > sequences[id]
       /\ InUse(id) \/ minter[id] # Maintenance
       => [event |-> id, sequence |-> sequences'[id]] \notin issued]_restartVars
=============================================================================
