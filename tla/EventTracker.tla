---------------------------- MODULE EventTracker ----------------------------
(***************************************************************************)
(* The EventTracker of events.go: which event (incident) each check is     *)
(* attached to, the sequence counter of each event, and the maintenance    *)
(* window that makes checks failing inside it share one event.             *)
(*                                                                         *)
(* Every exported method runs under the tracker's mutex, so one method     *)
(* call is one atomic action here; a call's result is a parameter of its   *)
(* action.  Next lets any caller make any call with any event ID it may    *)
(* hold.  Incidents.tla restricts the calls to the ones status.go makes.   *)
(*                                                                         *)
(* A Go map is a total function: NoEvent (the empty string) stands for an  *)
(* absent entry of eventIDs, 0 for an absent entry of sequences.  Neither  *)
(* value is ever stored by the code.                                       *)
(***************************************************************************)
EXTENDS Naturals

CONSTANTS Checks,        \* the names of the regular checks
          Maintenance,   \* maintenanceCheckName
          EventIds,      \* what generateShortUUID can return
          NoEvent,       \* the empty event ID
          MaxSequence    \* bound: notifications counted for one event

ASSUME MaintenanceAssumption == Maintenance \notin Checks
\* Register rejects a check without a name, so "" is no name either.
ASSUME NoEventAssumption == NoEvent \notin EventIds \cup Checks \cup {Maintenance}
ASSUME MaxSequenceAssumption == MaxSequence \in Nat

Names == Checks \cup {Maintenance}
MaybeEvent == EventIds \cup {NoEvent}

VARIABLES eventIDs,            \* check name -> the event it is attached to
          sequences,           \* event -> last sequence number issued
          maintenanceEventID,  \* the event of the last maintenance window
          maintenanceActive,   \* TRUE from its first failure to its recovery
          maintenanceChecks,   \* checks that joined the maintenance event
          minter               \* history: event -> the name that minted it

mapVars == <<eventIDs, minter>>
maintenanceVars == <<maintenanceEventID, maintenanceActive, maintenanceChecks>>
trackerVars == <<eventIDs, sequences, maintenanceEventID, maintenanceActive,
                 maintenanceChecks, minter>>

TypeOK ==
  /\ eventIDs \in [Names -> MaybeEvent]
  /\ sequences \in [EventIds -> Nat]
  /\ maintenanceEventID \in MaybeEvent
  /\ maintenanceActive \in BOOLEAN
  /\ maintenanceChecks \subseteq Checks
  /\ minter \in [EventIds -> Names \cup {NoEvent}]

Init ==
  /\ eventIDs = [n \in Names |-> NoEvent]
  /\ sequences = [id \in EventIds |-> 0]
  /\ maintenanceEventID = NoEvent
  /\ maintenanceActive = FALSE
  /\ maintenanceChecks = {}
  /\ minter = [id \in EventIds |-> NoEvent]

-----------------------------------------------------------------------------
Minted == {id \in EventIds : minter[id] # NoEvent}

\* Attached names hold the event; the loops of ClearSequence and of
\* maybeCleanupMaintenanceEvent look for one.
Attached(id) == {n \in Names : eventIDs[n] = id}
InUse(id) == id # NoEvent /\ Attached(id) # {}

\* 64 random bits: a new ID is one that was never minted before.
generateShortUUID(n, id) ==
  /\ id \in EventIds \ Minted
  /\ minter' = [minter EXCEPT ![id] = n]

Attach(n, id) == eventIDs' = [eventIDs EXCEPT ![n] = id]

-----------------------------------------------------------------------------
(* handleMaintenanceCheck *)

MaintenanceEnds(id) ==
  /\ id = eventIDs[Maintenance]
  /\ maintenanceActive' = FALSE
  /\ Attach(Maintenance, NoEvent)
  /\ UNCHANGED <<sequences, maintenanceEventID, maintenanceChecks, minter>>

MaintenanceStarts(id) ==
  /\ ~maintenanceActive
  /\ generateShortUUID(Maintenance, id)
  /\ maintenanceEventID' = id
  /\ maintenanceActive' = TRUE
  /\ maintenanceChecks' = {}
  /\ Attach(Maintenance, id)
  /\ UNCHANGED sequences

MaintenanceContinues(id) ==
  /\ maintenanceActive
  /\ id = maintenanceEventID
  /\ Attach(Maintenance, id)
  /\ UNCHANGED <<sequences, maintenanceVars, minter>>

\* Fault: the window stays open when the maintenance check recovers.
MaintenanceEndsStaysActive(isHealthy, id) ==
  IF isHealthy
  THEN /\ id = eventIDs[Maintenance]
       /\ Attach(Maintenance, NoEvent)
       /\ UNCHANGED <<sequences, maintenanceVars, minter>>
  ELSE MaintenanceStarts(id) \/ MaintenanceContinues(id)

\* Fault: the end of maintenance detaches every check that joined it.
MaintenanceEndsForAll(isHealthy, id) ==
  IF isHealthy
  THEN /\ id = eventIDs[Maintenance]
       /\ maintenanceActive' = FALSE
       /\ eventIDs' = [n \in Names |-> IF n \in maintenanceChecks \cup {Maintenance}
                                       THEN NoEvent ELSE eventIDs[n]]
       /\ UNCHANGED <<sequences, maintenanceEventID, maintenanceChecks, minter>>
  ELSE MaintenanceStarts(id) \/ MaintenanceContinues(id)

handleMaintenanceCheck(isHealthy, id) ==
  \/ isHealthy /\ MaintenanceEnds(id)
  \/ ~isHealthy /\ (MaintenanceStarts(id) \/ MaintenanceContinues(id))

-----------------------------------------------------------------------------
(* handleRegularCheck *)

\* maybeCleanupMaintenanceEvent, after c has been detached from id.
EventOver(c, id) ==
  /\ id = maintenanceEventID
  /\ ~maintenanceActive
  /\ \A n \in Names \ {c} : eventIDs[n] # NoEvent => eventIDs[n] # id

\* Fault: the resolved check keeps its entry in maintenanceChecks, and with
\* it a claim on the maintenance event.
CheckRecoversStaysListed(c, id) ==
  /\ id = eventIDs[c]
  /\ Attach(c, NoEvent)
  /\ UNCHANGED <<sequences, maintenanceVars, minter>>

CheckRecovers(c, id) ==
  /\ id = eventIDs[c]
  /\ Attach(c, NoEvent)
  /\ maintenanceEventID' = IF EventOver(c, id) THEN NoEvent
                                               ELSE maintenanceEventID
  /\ maintenanceChecks' = IF EventOver(c, id) THEN {}
                                              ELSE maintenanceChecks \ {c}
  /\ UNCHANGED <<sequences, maintenanceActive, minter>>

\* A failing check that already has an event keeps it, maintenance or not.
CheckStillFails(c, id) ==
  /\ eventIDs[c] # NoEvent
  /\ id = eventIDs[c]
  /\ UNCHANGED trackerVars

CheckFailsInMaintenance(c, id) ==
  /\ eventIDs[c] = NoEvent
  /\ maintenanceActive
  /\ id = maintenanceEventID
  /\ maintenanceChecks' = maintenanceChecks \cup {c}
  /\ Attach(c, id)
  /\ UNCHANGED <<sequences, maintenanceEventID, maintenanceActive, minter>>

\* The code's branch for a check still listed in maintenanceChecks reuses the
\* maintenance event; any other check gets an event of its own.
CheckFailsOutside(c, id) ==
  /\ eventIDs[c] = NoEvent
  /\ ~maintenanceActive
  /\ IF c \in maintenanceChecks /\ maintenanceEventID # NoEvent
     THEN id = maintenanceEventID /\ UNCHANGED minter
     ELSE generateShortUUID(c, id)
  /\ Attach(c, id)
  /\ UNCHANGED <<sequences, maintenanceVars>>

CheckFails(c, id) ==
  \/ CheckStillFails(c, id)
  \/ CheckFailsInMaintenance(c, id)
  \/ CheckFailsOutside(c, id)

handleRegularCheck(c, isHealthy, id) ==
  \/ isHealthy /\ CheckRecovers(c, id)
  \/ ~isHealthy /\ CheckFails(c, id)

GetOrCreateEventID(n, isHealthy, id) ==
  \/ n = Maintenance /\ handleMaintenanceCheck(isHealthy, id)
  \/ n \in Checks /\ handleRegularCheck(n, isHealthy, id)

-----------------------------------------------------------------------------
(* Sequence numbers *)

GetNextSequence(id, seq) ==
  \/ id = NoEvent /\ seq = 0 /\ UNCHANGED trackerVars
  \/ /\ id # NoEvent
     /\ sequences[id] < MaxSequence
     /\ seq = sequences[id] + 1
     /\ sequences' = [sequences EXCEPT ![id] = seq]
     /\ UNCHANGED <<mapVars, maintenanceVars>>

\* Fault: the counter goes with the first check that recovers.
ClearSequenceAlways(id) ==
  /\ sequences' = [e \in EventIds |-> IF e = id THEN 0 ELSE sequences[e]]
  /\ UNCHANGED <<mapVars, maintenanceVars>>

\* Fault: the counter of the maintenance event is left for later.
ClearSequenceSparesMaintenance(id) ==
  \/ /\ id = NoEvent \/ InUse(id) \/ id = maintenanceEventID
     /\ UNCHANGED trackerVars
  \/ /\ id # NoEvent /\ ~InUse(id) /\ id # maintenanceEventID
     /\ sequences' = [sequences EXCEPT ![id] = 0]
     /\ UNCHANGED <<mapVars, maintenanceVars>>

ClearSequence(id) ==
  \/ (id = NoEvent \/ InUse(id)) /\ UNCHANGED trackerVars
  \/ /\ id # NoEvent /\ ~InUse(id)
     /\ sequences' = [sequences EXCEPT ![id] = 0]
     /\ UNCHANGED <<mapVars, maintenanceVars>>
-----------------------------------------------------------------------------
\* Any caller, any call; the event IDs it passes are ones it was given.
Next ==
  \/ \E n \in Names, isHealthy \in BOOLEAN, id \in MaybeEvent :
        GetOrCreateEventID(n, isHealthy, id)
  \/ \E id \in Minted \cup {NoEvent} :
        \/ \E seq \in 0..MaxSequence : GetNextSequence(id, seq)
        \/ ClearSequence(id)

Spec == Init /\ [][Next]_trackerVars

-----------------------------------------------------------------------------
(* Properties *)

\* The flag and the map agree: maintenance is active exactly while the
\* maintenance check holds an event, and that event is maintenanceEventID,
\* the one handed to the other checks.
WindowIsHeld ==
  /\ maintenanceActive <=> eventIDs[Maintenance] # NoEvent
  /\ maintenanceActive => eventIDs[Maintenance] = maintenanceEventID

\* maintenanceChecks never outlives the attachment it records, so the branch
\* that reuses the maintenance event outside a window cannot be taken.
ListedChecksAreAttached ==
  \A c \in maintenanceChecks :
    eventIDs[c] # NoEvent /\ eventIDs[c] = maintenanceEventID

\* A name is attached to an event of its own or to a maintenance event, so
\* two checks share an event only through maintenance.
OwnOrMaintenanceEvent ==
  \A n \in Names :
    eventIDs[n] # NoEvent => minter[eventIDs[n]] \in {n, Maintenance}

MaintenanceEventIsMinted ==
  maintenanceEventID # NoEvent => minter[maintenanceEventID] = Maintenance

\* A fresh event starts counting at 1.
UnmintedUncounted == \A id \in EventIds \ Minted : sequences[id] = 0

\* The inductive invariant.
TrackerInv ==
  /\ TypeOK
  /\ WindowIsHeld
  /\ ListedChecksAreAttached
  /\ OwnOrMaintenanceEvent
  /\ MaintenanceEventIsMinted
  /\ UnmintedUncounted

\* The tracker implements the ledger: event IDs are stable from failure to
\* resolution, failures inside a maintenance window join its event, and an
\* event that ended is never reopened.
Ledger == INSTANCE IncidentLedger WITH incident <- eventIDs, used <- Minted
LedgerSpec == Ledger!Spec

\* Once the last check left an event, no call attaches a check to it again: a
\* consumer that closed an incident never sees it come back.
EventsNeverReopen == Ledger!EndedStaysEnded
=============================================================================
