------------------------- MODULE EventTrackerProofs -------------------------
(***************************************************************************)
(* For every set of checks and event IDs: TrackerInv is an inductive       *)
(* invariant of the event tracker, and the tracker implements the incident *)
(* ledger.                                                                 *)
(***************************************************************************)
EXTENDS EventTracker, TLAPS

USE MaintenanceAssumption, NoEventAssumption, MaxSequenceAssumption
USE DEF Names, MaybeEvent, Minted, Attach, Attached, InUse,
        mapVars, maintenanceVars, trackerVars

\* The tracker starts with nothing attached, counted or minted.
LEMMA TrackerInit == ASSUME Init PROVE TrackerInv
<1> USE DEF Init
<1>1. TypeOK                    BY DEF TypeOK
<1>2. WindowIsHeld              BY DEF WindowIsHeld
<1>3. ListedChecksAreAttached   BY DEF ListedChecksAreAttached
<1>4. OwnOrMaintenanceEvent     BY DEF OwnOrMaintenanceEvent
<1>5. MaintenanceEventIsMinted  BY DEF MaintenanceEventIsMinted
<1>6. UnmintedUncounted         BY DEF UnmintedUncounted
<1> QED  BY <1>1, <1>2, <1>3, <1>4, <1>5, <1>6 DEF TrackerInv

-----------------------------------------------------------------------------
(* Each call preserves the invariant. *)

\* The recovery of the maintenance check closes the window; the checks that
\* joined it stay attached to its event.
LEMMA MaintenanceEndsInv ==
  ASSUME TrackerInv, NEW id, MaintenanceEnds(id)
  PROVE  TrackerInv'
<1> USE DEF TrackerInv, MaintenanceEnds
<1>1. TypeOK'                    BY DEF TypeOK
<1>2. WindowIsHeld'              BY DEF TypeOK, WindowIsHeld
<1>3. ListedChecksAreAttached'   BY DEF TypeOK, ListedChecksAreAttached
<1>4. OwnOrMaintenanceEvent'     BY DEF TypeOK, OwnOrMaintenanceEvent
<1>5. MaintenanceEventIsMinted'  BY DEF TypeOK, MaintenanceEventIsMinted
<1>6. UnmintedUncounted'         BY DEF TypeOK, UnmintedUncounted
<1> QED  BY <1>1, <1>2, <1>3, <1>4, <1>5, <1>6

\* The first failure of the maintenance check opens a window with a new event
\* that no regular check holds yet.
LEMMA MaintenanceStartsInv ==
  ASSUME TrackerInv, NEW id, MaintenanceStarts(id)
  PROVE  TrackerInv'
<1> USE DEF TrackerInv, MaintenanceStarts, generateShortUUID
<1>1. TypeOK'                    BY DEF TypeOK
<1>2. WindowIsHeld'              BY DEF TypeOK, WindowIsHeld
<1>3. ListedChecksAreAttached'   BY DEF TypeOK, ListedChecksAreAttached
<1>4. OwnOrMaintenanceEvent'     BY DEF TypeOK, OwnOrMaintenanceEvent
<1>5. MaintenanceEventIsMinted'  BY DEF TypeOK, MaintenanceEventIsMinted
<1>6. UnmintedUncounted'         BY DEF TypeOK, UnmintedUncounted
<1> QED  BY <1>1, <1>2, <1>3, <1>4, <1>5, <1>6

\* A further failure inside a window changes nothing: by WindowIsHeld the
\* maintenance check already holds the event it is given.
LEMMA MaintenanceContinuesStutters ==
  ASSUME TrackerInv, NEW id, MaintenanceContinues(id)
  PROVE  UNCHANGED trackerVars
  BY DEF TrackerInv, MaintenanceContinues, WindowIsHeld, TypeOK

\* A check that recovers leaves its event and maintenanceChecks; when it was
\* the last one on a maintenance event whose window is over, the event is
\* forgotten, and nothing else was listed under it.
LEMMA CheckRecoversInv ==
  ASSUME TrackerInv, NEW c \in Checks, NEW id, CheckRecovers(c, id)
  PROVE  TrackerInv'
<1> USE DEF TrackerInv, CheckRecovers, EventOver
<1>1. TypeOK'                    BY DEF TypeOK
<1>2. WindowIsHeld'              BY DEF TypeOK, WindowIsHeld
<1>3. ListedChecksAreAttached'   BY DEF TypeOK, ListedChecksAreAttached
<1>4. OwnOrMaintenanceEvent'     BY DEF TypeOK, OwnOrMaintenanceEvent
<1>5. MaintenanceEventIsMinted'  BY DEF TypeOK, MaintenanceEventIsMinted
<1>6. UnmintedUncounted'         BY DEF TypeOK, UnmintedUncounted
<1> QED  BY <1>1, <1>2, <1>3, <1>4, <1>5, <1>6

\* A check that fails inside a window joins the event the window holds.
LEMMA CheckFailsInMaintenanceInv ==
  ASSUME TrackerInv, NEW c \in Checks, NEW id, CheckFailsInMaintenance(c, id)
  PROVE  TrackerInv'
<1> USE DEF TrackerInv, CheckFailsInMaintenance
<1>1. TypeOK'                    BY DEF TypeOK
<1>2. WindowIsHeld'              BY DEF TypeOK, WindowIsHeld
<1>3. ListedChecksAreAttached'
  BY DEF TypeOK, WindowIsHeld, ListedChecksAreAttached
<1>4. OwnOrMaintenanceEvent'
  BY DEF TypeOK, WindowIsHeld, OwnOrMaintenanceEvent, MaintenanceEventIsMinted
<1>5. MaintenanceEventIsMinted'  BY DEF TypeOK, MaintenanceEventIsMinted
<1>6. UnmintedUncounted'         BY DEF TypeOK, UnmintedUncounted
<1> QED  BY <1>1, <1>2, <1>3, <1>4, <1>5, <1>6

\* Outside a window a newly failing check always gets a new event: the branch
\* that reuses the maintenance event is dead by ListedChecksAreAttached.
LEMMA FailureOutsideIsFresh ==
  ASSUME TrackerInv, NEW c \in Checks, NEW id, CheckFailsOutside(c, id)
  PROVE  generateShortUUID(c, id)
  BY DEF TrackerInv, CheckFailsOutside, ListedChecksAreAttached

\* A new event is held by nobody and counted by nobody yet.
LEMMA CheckFailsOutsideInv ==
  ASSUME TrackerInv, NEW c \in Checks, NEW id, CheckFailsOutside(c, id)
  PROVE  TrackerInv'
<1>0. generateShortUUID(c, id)   BY FailureOutsideIsFresh
<1>a. /\ ~maintenanceActive
      /\ eventIDs[c] = NoEvent
      /\ eventIDs' = [eventIDs EXCEPT ![c] = id]
      /\ UNCHANGED <<sequences, maintenanceVars>>
  BY DEF CheckFailsOutside
<1> USE <1>0, <1>a DEF TrackerInv, generateShortUUID
<1>1. TypeOK'                    BY DEF TypeOK
<1>2. WindowIsHeld'              BY DEF TypeOK, WindowIsHeld
<1>3. ListedChecksAreAttached'   BY DEF TypeOK, ListedChecksAreAttached
<1>4. OwnOrMaintenanceEvent'     BY DEF TypeOK, OwnOrMaintenanceEvent
<1>5. MaintenanceEventIsMinted'  BY DEF TypeOK, MaintenanceEventIsMinted
<1>6. UnmintedUncounted'         BY DEF TypeOK, UnmintedUncounted
<1> QED  BY <1>1, <1>2, <1>3, <1>4, <1>5, <1>6

\* Counting touches only an event that was minted.
LEMMA GetNextSequenceInv ==
  ASSUME TrackerInv, NEW id \in Minted \cup {NoEvent}, NEW seq,
         GetNextSequence(id, seq)
  PROVE  TrackerInv'
<1> USE DEF TrackerInv
<1>1. CASE id = NoEvent
  BY <1>1 DEF GetNextSequence, TypeOK, WindowIsHeld, ListedChecksAreAttached,
              OwnOrMaintenanceEvent, MaintenanceEventIsMinted, UnmintedUncounted
<1>2. CASE id # NoEvent
  <2>1. /\ id \in Minted
        /\ sequences' = [sequences EXCEPT ![id] = sequences[id] + 1]
        /\ UNCHANGED <<mapVars, maintenanceVars>>
    BY <1>2 DEF GetNextSequence
  <2> QED
    BY <2>1 DEF TypeOK, WindowIsHeld, ListedChecksAreAttached,
              OwnOrMaintenanceEvent, MaintenanceEventIsMinted, UnmintedUncounted
<1> QED  BY <1>1, <1>2

\* Dropping a counter disturbs no attachment.
LEMMA ClearSequenceInv ==
  ASSUME TrackerInv, NEW id \in Minted \cup {NoEvent}, ClearSequence(id)
  PROVE  TrackerInv'
  BY DEF TrackerInv, ClearSequence, TypeOK, WindowIsHeld,
         ListedChecksAreAttached, OwnOrMaintenanceEvent,
         MaintenanceEventIsMinted, UnmintedUncounted

\* The invariant speaks of the tracker's variables only.
LEMMA UnchangedInv == ASSUME TrackerInv, UNCHANGED trackerVars PROVE TrackerInv'
  BY DEF TrackerInv, TypeOK, WindowIsHeld, ListedChecksAreAttached,
         OwnOrMaintenanceEvent, MaintenanceEventIsMinted, UnmintedUncounted

-----------------------------------------------------------------------------
(* The next-state relation and the specification *)

\* One call of GetOrCreateEventID is one of the cases above.
LEMMA GetOrCreateEventIDInv ==
  ASSUME TrackerInv, NEW n \in Names, NEW isHealthy \in BOOLEAN, NEW id,
         GetOrCreateEventID(n, isHealthy, id)
  PROVE  TrackerInv'
<1>1. CASE MaintenanceEnds(id)      BY <1>1, MaintenanceEndsInv
<1>2. CASE MaintenanceStarts(id)    BY <1>2, MaintenanceStartsInv
<1>3. CASE MaintenanceContinues(id)
  BY <1>3, MaintenanceContinuesStutters, UnchangedInv
<1>4. CASE n \in Checks /\ CheckRecovers(n, id)
  BY <1>4, CheckRecoversInv
<1>5. CASE n \in Checks /\ CheckFails(n, id)
  <2>1. CASE CheckStillFails(n, id)
    BY <2>1, UnchangedInv DEF CheckStillFails
  <2>2. CASE CheckFailsInMaintenance(n, id)
    BY <1>5, <2>2, CheckFailsInMaintenanceInv
  <2>3. CASE CheckFailsOutside(n, id)
    BY <1>5, <2>3, CheckFailsOutsideInv
  <2> QED  BY <1>5, <2>1, <2>2, <2>3 DEF CheckFails
<1> QED
  BY <1>1, <1>2, <1>3, <1>4, <1>5
  DEF GetOrCreateEventID, handleMaintenanceCheck, handleRegularCheck

\* Each step of any caller preserves the invariant.
LEMMA TrackerNext == ASSUME TrackerInv, [Next]_trackerVars PROVE TrackerInv'
<1>1. ASSUME NEW n \in Names, NEW isHealthy \in BOOLEAN, NEW id \in MaybeEvent,
             GetOrCreateEventID(n, isHealthy, id)
      PROVE  TrackerInv'
  BY <1>1, GetOrCreateEventIDInv
<1>2. ASSUME NEW id \in Minted \cup {NoEvent}, NEW seq \in 0..MaxSequence,
             GetNextSequence(id, seq)
      PROVE  TrackerInv'
  BY <1>2, GetNextSequenceInv
<1>3. ASSUME NEW id \in Minted \cup {NoEvent}, ClearSequence(id)
      PROVE  TrackerInv'
  BY <1>3, ClearSequenceInv
<1>4. CASE UNCHANGED trackerVars  BY <1>4, UnchangedInv
<1> QED  BY <1>1, <1>2, <1>3, <1>4 DEF Next

\* The maintenance window and the event map agree at every moment, whatever
\* the checks do: the window is open exactly while the maintenance check holds
\* its event, checks share an event only through maintenance, and
\* maintenanceChecks never outlives the attachments it records.
THEOREM TrackerSafe == Spec => []TrackerInv
<1>1. Init => TrackerInv  BY TrackerInit
<1>2. TrackerInv /\ [Next]_trackerVars => TrackerInv'  BY TrackerNext
<1> QED  BY <1>1, <1>2, PTL DEF Spec

-----------------------------------------------------------------------------
(* The tracker implements the incident ledger. *)

\* An empty tracker is an empty ledger.
LEMMA LedgerInit == ASSUME Init PROVE Ledger!Init
  BY DEF Init, Ledger!Init

\* The recovery of a name that holds an event resolves its incident; that of
\* one that holds none is a stutter.
LEMMA DetachRefines ==
  ASSUME TrackerInv, NEW n \in Names,
         Attach(n, NoEvent), UNCHANGED minter
  PROVE  [Ledger!Next]_(Ledger!ledgerVars)
<1>1. CASE eventIDs[n] = NoEvent
  <2>1. eventIDs' = eventIDs  BY <1>1 DEF TrackerInv, TypeOK
  <2> QED  BY <2>1 DEF Ledger!ledgerVars
<1>2. CASE eventIDs[n] # NoEvent
  <2>1. Ledger!Resolve(n)  BY <1>2 DEF Ledger!Resolve
  <2> QED  BY <2>1 DEF Ledger!Next
<1> QED  BY <1>1, <1>2

\* A failure outside maintenance, or the one that starts it, opens an incident
\* under an ID never used before.
LEMMA MintRefines ==
  ASSUME TrackerInv, NEW n \in Names, NEW id,
         ~maintenanceActive, eventIDs[n] = NoEvent,
         generateShortUUID(n, id), Attach(n, id)
  PROVE  Ledger!Next
<1>1. id \in EventIds \ Minted  BY DEF generateShortUUID
<1>2. Minted' = Minted \cup {id}
  BY DEF generateShortUUID, TrackerInv, TypeOK
<1>3. eventIDs[Maintenance] = NoEvent  BY DEF TrackerInv, WindowIsHeld
<1>4. Ledger!Open(n, id)  BY <1>1, <1>2, <1>3 DEF Ledger!Open
<1> QED  BY <1>1, <1>4 DEF Ledger!Next

\* A failure inside a window joins the incident of the maintenance check.
LEMMA JoinRefines ==
  ASSUME TrackerInv, NEW c \in Checks, NEW id, CheckFailsInMaintenance(c, id)
  PROVE  Ledger!Next
<1>1. /\ eventIDs[Maintenance] # NoEvent
      /\ id = eventIDs[Maintenance]
  BY DEF CheckFailsInMaintenance, TrackerInv, WindowIsHeld
<1>2. Ledger!JoinMaintenance(c)
  BY <1>1 DEF CheckFailsInMaintenance, Ledger!JoinMaintenance
<1> QED  BY <1>2 DEF Ledger!Next

\* Every call that answers with an event ID is a ledger step or a stutter.
LEMMA GetOrCreateEventIDRefines ==
  ASSUME TrackerInv, NEW n \in Names, NEW isHealthy \in BOOLEAN, NEW id,
         GetOrCreateEventID(n, isHealthy, id)
  PROVE  [Ledger!Next]_(Ledger!ledgerVars)
<1>1. CASE MaintenanceEnds(id)
  BY <1>1, DetachRefines DEF MaintenanceEnds
<1>2. CASE MaintenanceStarts(id)
  <2>1. eventIDs[Maintenance] = NoEvent
    BY <1>2 DEF MaintenanceStarts, TrackerInv, WindowIsHeld
  <2> QED  BY <1>2, <2>1, MintRefines DEF MaintenanceStarts
<1>3. CASE MaintenanceContinues(id)
  BY <1>3, MaintenanceContinuesStutters DEF Ledger!ledgerVars
<1>4. CASE n \in Checks /\ CheckRecovers(n, id)
  BY <1>4, DetachRefines DEF CheckRecovers
<1>5. CASE n \in Checks /\ CheckFails(n, id)
  <2>1. CASE CheckStillFails(n, id)
    BY <2>1 DEF CheckStillFails, Ledger!ledgerVars
  <2>2. CASE CheckFailsInMaintenance(n, id)
    BY <1>5, <2>2, JoinRefines
  <2>3. CASE CheckFailsOutside(n, id)
    <3>1. generateShortUUID(n, id)  BY <1>5, <2>3, FailureOutsideIsFresh
    <3> QED  BY <1>5, <2>3, <3>1, MintRefines DEF CheckFailsOutside
  <2> QED  BY <1>5, <2>1, <2>2, <2>3 DEF CheckFails
<1> QED
  BY <1>1, <1>2, <1>3, <1>4, <1>5
  DEF GetOrCreateEventID, handleMaintenanceCheck, handleRegularCheck

\* Counting leaves the ledger alone.
LEMMA StepRefines ==
  ASSUME TrackerInv, [Next]_trackerVars
  PROVE  [Ledger!Next]_(Ledger!ledgerVars)
<1>1. ASSUME NEW n \in Names, NEW isHealthy \in BOOLEAN, NEW id \in MaybeEvent,
             GetOrCreateEventID(n, isHealthy, id)
      PROVE  [Ledger!Next]_(Ledger!ledgerVars)
  BY <1>1, GetOrCreateEventIDRefines
<1>2. ASSUME NEW id, NEW seq, GetNextSequence(id, seq)
      PROVE  UNCHANGED Ledger!ledgerVars
  BY <1>2 DEF GetNextSequence, Ledger!ledgerVars
<1>3. ASSUME NEW id, ClearSequence(id)
      PROVE  UNCHANGED Ledger!ledgerVars
  BY <1>3 DEF ClearSequence, Ledger!ledgerVars
<1>4. CASE UNCHANGED trackerVars  BY <1>4 DEF Ledger!ledgerVars
<1> QED  BY <1>1, <1>2, <1>3, <1>4 DEF Next

\* The tracker keeps the ledger's promise for every number of checks and
\* events: an event ID is stable from the failure to the resolution, a failure
\* inside a window joins its event, and an event that ended never reopens.
THEOREM TrackerImplementsLedger == Spec => LedgerSpec
<1>1. Init => Ledger!Init  BY LedgerInit
<1>2. TrackerInv /\ [Next]_trackerVars => [Ledger!Next]_(Ledger!ledgerVars)
  BY StepRefines
<1> QED  BY <1>1, <1>2, TrackerSafe, PTL DEF Spec, LedgerSpec, Ledger!Spec

\* A ledger step never attaches a name to an ID that was used and that nobody
\* holds: Open takes an unused one, JoinMaintenance one that is held.
LEMMA LedgerStepReopensNothing ==
  ASSUME TrackerInv, Ledger!Next,
         NEW id \in Minted, ~Ledger!Held(id)
  PROVE  ~Ledger!Held(id)'
<1> USE DEF Ledger!Held, TrackerInv, TypeOK
<1>1. ASSUME NEW n \in Names, NEW new \in EventIds, Ledger!Open(n, new)
      PROVE  ~Ledger!Held(id)'
  BY <1>1 DEF Ledger!Open
<1>2. ASSUME NEW n \in Names, Ledger!JoinMaintenance(n)
      PROVE  ~Ledger!Held(id)'
  BY <1>2 DEF Ledger!JoinMaintenance
<1>3. ASSUME NEW n \in Names, Ledger!Resolve(n)
      PROVE  ~Ledger!Held(id)'
  BY <1>3 DEF Ledger!Resolve
<1> QED  BY <1>1, <1>2, <1>3 DEF Ledger!Next

\* Once the last check left an event, no check is ever attached to it again.
THEOREM EventsEndForGood == Spec => EventsNeverReopen
<1>1. TrackerInv /\ [Next]_trackerVars
        => [\A id \in Minted : ~Ledger!Held(id) => ~Ledger!Held(id)']_(Ledger!ledgerVars)
  BY StepRefines, LedgerStepReopensNothing
<1> QED  BY <1>1, TrackerSafe, PTL DEF Spec, EventsNeverReopen, Ledger!EndedStaysEnded
=============================================================================
