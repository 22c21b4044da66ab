---------------------------- MODULE IncidentsProofs ----------------------------
(***************************************************************************)
(* For any checks and thresholds: what the interleaved handlers of many    *)
(* checks keep of the tracker's promises.  Every step of a handler is one  *)
(* call of the tracker, so the lemmas of EventTrackerProofs carry over.    *)
(***************************************************************************)
EXTENDS Incidents, EventTrackerProofs

USE MaintenanceAssumption, NoEventAssumption, MaxSequenceAssumption,
    ThresholdAssumption, ReportsAssumption, SilencesAssumption, MaxCommandsAssumption
USE DEF Names, MaybeEvent, Minted, InUse, Attached, Goto

Labels == {"new", "idle", "numbering", "sending", "acting", "clearing"}
CallResults == Results \cup {"none", "initializing"}
CallTypes == [result : CallResults, event : MaybeEvent, sequence : Nat]

Free(n) == pc[n] \in {"new", "idle"}

-----------------------------------------------------------------------------
(* What the tracker and the updater answer *)

\* An event is given back when a check is healthy.  Otherwise the check keeps
\* the event it has, or gets one that is new or that somebody has.
LEMMA AskFacts ==
  ASSUME TrackerInv, NEW n \in Names, NEW isHealthy \in BOOLEAN, NEW id \in MaybeEvent,
         GetOrCreateEventID(n, isHealthy, id)
  PROVE  /\ sequences' = sequences
         /\ eventIDs' = [eventIDs EXCEPT ![n] = IF isHealthy THEN NoEvent ELSE id]
         /\ isHealthy => id = eventIDs[n]
         /\ ~isHealthy => /\ id \in EventIds /\ minter'[id] # NoEvent
                          /\ eventIDs[n] # NoEvent => id = eventIDs[n]
                          /\ eventIDs[n] = NoEvent => id \notin Minted \/ InUse(id)
         /\ \A e \in Minted : minter'[e] = minter[e]
<1> USE DEF TrackerInv, TypeOK
<1>1. CASE n = Maintenance /\ isHealthy /\ MaintenanceEnds(id)
  BY <1>1 DEF MaintenanceEnds, Attach
<1>2. CASE n = Maintenance /\ ~isHealthy /\ MaintenanceStarts(id)
  BY <1>2 DEF MaintenanceStarts, Attach, generateShortUUID, WindowIsHeld
<1>3. CASE n = Maintenance /\ ~isHealthy /\ MaintenanceContinues(id)
  BY <1>3 DEF MaintenanceContinues, Attach, WindowIsHeld, OwnOrMaintenanceEvent, maintenanceVars
<1>4. CASE n \in Checks /\ isHealthy /\ CheckRecovers(n, id)
  BY <1>4 DEF CheckRecovers, Attach
<1>5. CASE n \in Checks /\ ~isHealthy /\ CheckStillFails(n, id)
  BY <1>5 DEF CheckStillFails, trackerVars, OwnOrMaintenanceEvent
<1>6. CASE n \in Checks /\ ~isHealthy /\ CheckFailsInMaintenance(n, id)
  BY <1>6 DEF CheckFailsInMaintenance, Attach, WindowIsHeld, OwnOrMaintenanceEvent
<1>7. CASE n \in Checks /\ ~isHealthy /\ CheckFailsOutside(n, id)
  <2>1. generateShortUUID(n, id)  BY <1>7, FailureOutsideIsFresh
  <2> QED  BY <1>7, <2>1 DEF CheckFailsOutside, Attach, generateShortUUID, maintenanceVars
<1> QED
  BY <1>1, <1>2, <1>3, <1>4, <1>5, <1>6, <1>7
  DEF GetOrCreateEventID, handleMaintenanceCheck, handleRegularCheck, CheckFails

\* Counting moves one counter by one.
LEMMA CountFacts ==
  ASSUME TrackerInv, NEW id \in MaybeEvent, NEW seq, GetNextSequence(id, seq)
  PROVE  /\ UNCHANGED <<eventIDs, minter>>
         /\ seq \in Nat
         /\ id = NoEvent => seq = 0 /\ sequences' = sequences
         /\ id # NoEvent => /\ seq = sequences[id] + 1
                            /\ sequences' = [sequences EXCEPT ![id] = seq]
BY DEF GetNextSequence, trackerVars, mapVars, TrackerInv, TypeOK

\* Counting a result moves the counters only.
LEMMA CountedIsUpdater ==
  ASSUME NEW u \in Updaters, NEW result \in Results
  PROVE  Counted(u, result) \in Updaters /\ Counted(u, result).status = u.status
<1>1. Counting(u.successes) \in 0..CounterCap /\ Counting(u.failures) \in 0..CounterCap
  BY DEF Updaters, Counting
<1>z. 0 \in 0..CounterCap  OBVIOUS
<1>2. CASE result = "passing"
  <2>1. Counted(u, result) = [u EXCEPT !.successes = Counting(u.successes), !.failures = 0]
    BY <1>2 DEF Counted
  <2> QED  BY <1>1, <1>z, <2>1 DEF Updaters
<1>3. CASE result # "passing"
  <2>1. Counted(u, result) = [u EXCEPT !.failures = Counting(u.failures), !.successes = 0]
    BY <1>3 DEF Counted
  <2> QED  BY <1>1, <1>z, <2>1 DEF Updaters
<1> QED  BY <1>2, <1>3

\* A result at its threshold becomes the status.
LEMMA UpdatedIsUpdater ==
  ASSUME NEW u \in Updaters, NEW result \in Results
  PROVE  /\ Updated(u, result) \in Updaters
         /\ Crosses(u, result) => Updated(u, result).status = result
         /\ ~Crosses(u, result) => Updated(u, result).status = u.status
<1> DEFINE c == Counted(u, result)
<1>1. c \in Updaters /\ c.status = u.status  BY CountedIsUpdater
<1>2. CASE Crosses(u, result)
  <2>1. Updated(u, result) = [c EXCEPT !.status = result, !.initialized = TRUE]
    BY <1>2 DEF Updated
  <2> HIDE DEF c
  <2> QED  BY <1>1, <1>2, <2>1 DEF Updaters
<1>3. CASE ~Crosses(u, result)
  <2>1. Updated(u, result) = c  BY <1>3 DEF Updated
  <2> HIDE DEF c
  <2> QED  BY <1>1, <1>3, <2>1
<1> QED  BY <1>2, <1>3

-----------------------------------------------------------------------------
(* The inductive invariant *)

\* A check between calls works with nothing.  A call in progress works with an
\* event that its own check or the maintenance check minted, so that two calls
\* work with one event only through maintenance.
CallsAreOwn ==
  \A n \in Names :
    /\ Free(n) => call[n] = NoCall
    /\ pc[n] = "clearing" => call[n].result = "passing"
    /\ call[n].event # NoEvent => minter[call[n].event] \in {n, Maintenance}

IssuedAreMinted == \A number \in issued : number.event \in Minted

\* What holds whatever the tracker held when the process started.
CoreInv ==
  /\ IncidentsTypeOK
  /\ TrackerInv
  /\ CallsAreOwn
  /\ IssuedAreMinted

\* The counter of this event may not be dropped yet.
Counts(id) ==
  \/ InUse(id)
  \/ minter[id] # Maintenance /\ \E n \in Names : call[n].event = id

\* While an event counts, its counter is at the last number issued.
IssuedAreCounted ==
  \A number \in issued :
    Counts(number.event) => number.sequence <= sequences[number.event]

PathInv ==
  /\ CoreInv
  /\ CallsMatchTracker
  /\ IssuedAreCounted
  /\ EndedEventsAreForgotten

\* What the lemmas below use of the types.
LEMMA CoreTypes ==
  ASSUME CoreInv
  PROVE  /\ eventIDs \in [Names -> MaybeEvent] /\ sequences \in [EventIds -> Nat]
         /\ minter \in [EventIds -> Names \cup {NoEvent}]
         /\ updater \in [Names -> Updaters]
         /\ pc \in [Names -> Labels] /\ call \in [Names -> CallTypes]
         /\ issued \subseteq Numbers /\ alert \in [Names -> MaybeEvent]
         /\ muted \in [Names -> BOOLEAN]
         /\ \A n \in Names : call[n].event \in Minted \cup {NoEvent}
<1>1. /\ eventIDs \in [Names -> MaybeEvent] /\ sequences \in [EventIds -> Nat]
      /\ minter \in [EventIds -> Names \cup {NoEvent}]
      /\ updater \in [Names -> Updaters]
      /\ pc \in [Names -> Labels] /\ call \in [Names -> CallTypes]
      /\ issued \subseteq Numbers /\ alert \in [Names -> MaybeEvent]
      /\ muted \in [Names -> BOOLEAN]
  BY DEF CoreInv, IncidentsTypeOK, TypeOK, Labels, CallTypes, CallResults
<1>2. ASSUME NEW n \in Names PROVE call[n].event \in Minted \cup {NoEvent}
  BY <1>1 DEF CoreInv, CallsAreOwn, CallTypes
<1> QED  BY <1>1, <1>2

\* Before the first registration nothing is held, counted or issued.
LEMMA PathInit == ASSUME IncidentsInit PROVE PathInv
<1> USE DEF IncidentsInit
<1>1. TrackerInv  BY TrackerInit
<1>2. NewUpdater \in Updaters  BY DEF NewUpdater, Updaters, Results
<1>3. IncidentsTypeOK
  BY <1>1, <1>2 DEF IncidentsTypeOK, TrackerInv, NoCall
<1>4. CallsMatchTracker /\ CallsAreOwn
  BY DEF CallsMatchTracker, CallsAreOwn, NoCall
<1>5. IssuedAreMinted /\ IssuedAreCounted /\ EndedEventsAreForgotten
  BY DEF IssuedAreMinted, IssuedAreCounted, EndedEventsAreForgotten, Init
<1> QED  BY <1>1, <1>3, <1>4, <1>5 DEF PathInv, CoreInv

-----------------------------------------------------------------------------
(* A registration or a result at its threshold asks for an event. *)

\* What Register and CrossThreshold have in common.
Asks(n, result, id) ==
  /\ Free(n)
  /\ GetOrCreateEventID(n, result = "passing", id)
  /\ Calls(n, result, id)
  /\ Goto(n, "numbering") \/ Goto(n, "acting")
  /\ muted' \in [Names -> BOOLEAN]
  /\ UNCHANGED <<commands, issued, alert>>

\* The call begins with the event the tracker gives.
LEMMA AsksCall ==
  ASSUME CoreInv, NEW n \in Names, NEW result \in CallResults, NEW id \in MaybeEvent,
         Asks(n, result, id)
  PROVE  /\ call[n] = NoCall
         /\ call' = [call EXCEPT ![n] = [result |-> result, event |-> id, sequence |-> 0]]
         /\ pc' = [pc EXCEPT ![n] = "numbering"] \/ pc' = [pc EXCEPT ![n] = "acting"]
         /\ UNCHANGED <<commands, issued, alert>> /\ muted' \in [Names -> BOOLEAN]
BY DEF Asks, Calls, CoreInv, CallsAreOwn

\* The event is the check's own, or that of maintenance.
LEMMA AsksCore ==
  ASSUME CoreInv, NEW n \in Names, NEW result \in CallResults, NEW id \in MaybeEvent,
         Asks(n, result, id), updater' \in [Names -> Updaters]
  PROVE  CoreInv' /\ (CallsMatchTracker => CallsMatchTracker')
<1> DEFINE healthy == result = "passing"
<1>0. IncidentsTypeOK /\ TrackerInv /\ CallsAreOwn /\ IssuedAreMinted
  BY DEF CoreInv
<1>1. /\ eventIDs' = [eventIDs EXCEPT ![n] = IF healthy THEN NoEvent ELSE id]
      /\ healthy => id = eventIDs[n]
      /\ ~healthy => id \in EventIds /\ minter'[id] # NoEvent
      /\ \A e \in Minted : minter'[e] = minter[e]
  BY <1>0, AskFacts DEF Asks
<1>2. TrackerInv'  BY <1>0, GetOrCreateEventIDInv DEF Asks
<1>3. minter' \in [EventIds -> Names \cup {NoEvent}]
  BY <1>2 DEF TrackerInv, TypeOK
<1>4. IncidentsTypeOK'
  <2>1. pc' \in [Names -> Labels]
    BY AsksCall, CoreTypes DEF Labels
  <2>2. [result |-> result, event |-> id, sequence |-> 0] \in CallTypes
    BY DEF CallTypes
  <2>3. call' \in [Names -> CallTypes]
    BY <2>2, AsksCall, CoreTypes
  <2> QED
    BY <1>0, <1>2, <2>1, <2>3, AsksCall DEF IncidentsTypeOK, TrackerInv, Labels, CallTypes, CallResults
<1>5. call'[n].event = id /\ \A m \in Names \ {n} : call'[m] = call[m] /\ pc'[m] = pc[m]
  BY AsksCall, CoreTypes
<1>6. ASSUME CallsMatchTracker PROVE CallsMatchTracker'
  BY <1>1, <1>5, <1>6, AsksCall, CoreTypes DEF CallsMatchTracker, CallTypes
<1>7. id # NoEvent => minter'[id] \in {n, Maintenance}
  BY <1>0, <1>1, <1>2, CoreTypes DEF TrackerInv, OwnOrMaintenanceEvent
<1>8. CallsAreOwn'
  <2>1. ~Free(n)' /\ pc'[n] # "clearing"  BY AsksCall, CoreTypes DEF Free
  <2>2. ASSUME NEW m \in Names \ {n}, call[m].event # NoEvent
        PROVE  minter'[call[m].event] \in {m, Maintenance}
    <3>1. call[m].event \in Minted  BY <2>2, CoreTypes
    <3>2. minter[call[m].event] \in {m, Maintenance}  BY <1>0, <2>2 DEF CallsAreOwn
    <3> QED  BY <1>1, <3>1, <3>2
  <2> QED  BY <1>0, <1>5, <1>7, <2>1, <2>2 DEF CallsAreOwn, Free
<1>9. IssuedAreMinted'
  BY <1>0, <1>1, <1>3, AsksCall DEF IssuedAreMinted
<1> QED  BY <1>2, <1>4, <1>6, <1>8, <1>9 DEF CoreInv

\* An event that is new has no numbers yet; one that is shared is in use.
LEMMA AsksInv ==
  ASSUME PathInv, NEW n \in Names, NEW result \in CallResults, NEW id \in MaybeEvent,
         Asks(n, result, id), updater' \in [Names -> Updaters]
  PROVE  PathInv'
<1> DEFINE healthy == result = "passing"
<1>0. /\ CoreInv /\ TrackerInv /\ IssuedAreMinted
      /\ CallsMatchTracker /\ IssuedAreCounted /\ EndedEventsAreForgotten
  BY DEF PathInv, CoreInv
<1>1. /\ sequences' = sequences
      /\ eventIDs' = [eventIDs EXCEPT ![n] = IF healthy THEN NoEvent ELSE id]
      /\ healthy => id = eventIDs[n]
      /\ ~healthy => /\ eventIDs[n] # NoEvent => id = eventIDs[n]
                     /\ eventIDs[n] = NoEvent => id \notin Minted \/ InUse(id)
      /\ \A e \in Minted : minter'[e] = minter[e]
  BY <1>0, AskFacts DEF Asks
<1>2. CoreInv' /\ CallsMatchTracker'  BY <1>0, AsksCore
<1>3. /\ call[n] = NoCall
      /\ call' = [call EXCEPT ![n] = [result |-> result, event |-> id, sequence |-> 0]]
      /\ UNCHANGED issued
  BY <1>0, AsksCall
<1>4. call'[n].event = id /\ \A m \in Names \ {n} : call'[m] = call[m]
  BY <1>0, <1>3, CoreTypes
<1>5. \A e \in EventIds : Counts(e)' => Counts(e) \/ e \notin Minted
  BY <1>0, <1>1, <1>4, CoreTypes DEF Counts
<1>6. IssuedAreCounted'
  BY <1>0, <1>1, <1>3, <1>5 DEF IssuedAreCounted, IssuedAreMinted
<1>7. EndedEventsAreForgotten'
  <2> SUFFICES ASSUME NEW e \in EventIds, ~InUse(e)', \A m \in Names : call'[m].event # e
               PROVE  sequences[e] = 0
    BY <1>1 DEF EndedEventsAreForgotten
  <2>1. e # id /\ e # NoEvent  BY <1>4
  <2>2. \A m \in Names : eventIDs[m] # e
    BY <1>0, <1>1, <2>1, CoreTypes
  <2>3. \A m \in Names : call[m].event # e
    BY <1>3, <1>4, <2>1 DEF NoCall
  <2> QED  BY <1>0, <2>2, <2>3 DEF EndedEventsAreForgotten
<1> QED  BY <1>2, <1>6, <1>7 DEF PathInv

-----------------------------------------------------------------------------
(* A call goes on: it notifies, acts or returns. *)

\* What Number, Send, SkipAction and StartCommand do to the call: it goes on
\* with its event, or it returns.
Moves(n) ==
  /\ ~Free(n)
  /\ \A m \in Names \ {n} : call'[m] = call[m] /\ pc'[m] = pc[m]
  /\ \/ /\ call'[n].event = call[n].event /\ call'[n].result = call[n].result
        /\ pc'[n] \in Labels \ {"new", "idle"}
        /\ pc'[n] = "clearing" => call[n].result = "passing"
     \/ call'[n] = NoCall /\ pc'[n] = "idle"

\* A call that returns without clearing leaves no event behind.
LeavesNoEvent(n) ==
  \/ call'[n].event = call[n].event
  \/ call[n].event = NoEvent \/ InUse(call[n].event)

\* The tracker's part of a move: nothing, or one number.
Takes(n) ==
  \/ UNCHANGED <<trackerVars, issued>>
  \/ \E seq \in Nat : TakeNumber(call[n].event, seq)

\* One number is one more on one counter.
LEMMA TakesFacts ==
  ASSUME CoreInv, NEW n \in Names, Takes(n)
  PROVE  /\ TrackerInv'
         /\ UNCHANGED <<eventIDs, minter>>
         /\ \/ UNCHANGED <<sequences, issued>>
            \/ \E seq \in Nat :
                 /\ call[n].event # NoEvent
                 /\ seq = sequences[call[n].event] + 1
                 /\ sequences' = [sequences EXCEPT ![call[n].event] = seq]
                 /\ issued' = issued \cup {[event |-> call[n].event, sequence |-> seq]}
<1>1. CASE UNCHANGED <<trackerVars, issued>>
  BY <1>1, UnchangedInv DEF CoreInv, trackerVars
<1>2. ASSUME NEW seq \in Nat, TakeNumber(call[n].event, seq), call[n].event = NoEvent
      PROVE  UNCHANGED <<trackerVars, issued>>
  BY <1>2 DEF TakeNumber, GetNextSequence
<1>3. ASSUME NEW seq \in Nat, TakeNumber(call[n].event, seq), call[n].event # NoEvent
      PROVE  /\ TrackerInv' /\ UNCHANGED <<eventIDs, minter>>
             /\ seq = sequences[call[n].event] + 1
             /\ sequences' = [sequences EXCEPT ![call[n].event] = seq]
             /\ issued' = issued \cup {[event |-> call[n].event, sequence |-> seq]}
  <2>1. TrackerInv'
    BY <1>3, CoreTypes, GetNextSequenceInv DEF CoreInv, TakeNumber
  <2> QED  BY <1>3, <2>1 DEF TakeNumber, GetNextSequence, mapVars
<1> QED  BY <1>1, <1>2, <1>3 DEF Takes

\* What the move of a call cannot disturb.
LEMMA MovesCore ==
  ASSUME CoreInv, NEW n \in Names, Moves(n), Takes(n), IncidentsTypeOK'
  PROVE  CoreInv' /\ (CallsMatchTracker => CallsMatchTracker')
<1>0. CallsAreOwn /\ IssuedAreMinted  BY DEF CoreInv
<1>1. TrackerInv' /\ UNCHANGED <<eventIDs, minter>>  BY TakesFacts
<1>2. \A m \in Names \ {n} : call'[m] = call[m] /\ pc'[m] = pc[m]  BY DEF Moves
<1>3. CallsAreOwn'
  BY <1>0, <1>1, <1>2 DEF Moves, CallsAreOwn, Free, NoCall
<1>4. IssuedAreMinted'
  BY <1>0, <1>1, TakesFacts, CoreTypes DEF IssuedAreMinted
<1>5. ASSUME CallsMatchTracker PROVE CallsMatchTracker'
  BY <1>1, <1>2, <1>5 DEF Moves, CallsMatchTracker, Free
<1> QED  BY <1>1, <1>3, <1>4, <1>5 DEF CoreInv

\* A number taken is above the last one; an event that is left was not the
\* call's to lose.
LEMMA MovesInv ==
  ASSUME PathInv, NEW n \in Names, Moves(n), Takes(n), LeavesNoEvent(n), IncidentsTypeOK'
  PROVE  PathInv'
<1>0. /\ CoreInv /\ CallsMatchTracker
      /\ IssuedAreMinted /\ IssuedAreCounted /\ EndedEventsAreForgotten
  BY DEF PathInv, CoreInv
<1>1. /\ sequences \in [EventIds -> Nat] /\ issued \subseteq Numbers
      /\ call[n].event \in Minted \cup {NoEvent}
  BY <1>0, CoreTypes
<1>2. CoreInv' /\ CallsMatchTracker'  BY <1>0, MovesCore
<1>3. UNCHANGED <<eventIDs, minter>>  BY <1>0, TakesFacts
<1>4. call'[n].event \in {call[n].event, NoEvent}
      /\ \A m \in Names \ {n} : call'[m] = call[m]
  BY DEF Moves, NoCall
<1>5. \A e \in EventIds : Counts(e)' => Counts(e)
  BY <1>3, <1>4 DEF Counts
<1>6. IssuedAreCounted'
  <2>1. CASE UNCHANGED <<sequences, issued>>
    BY <1>0, <1>5, <2>1 DEF IssuedAreCounted, IssuedAreMinted
  <2>2. ASSUME NEW seq \in Nat,
               call[n].event # NoEvent,
               seq = sequences[call[n].event] + 1,
               sequences' = [sequences EXCEPT ![call[n].event] = seq],
               issued' = issued \cup {[event |-> call[n].event, sequence |-> seq]},
               NEW number \in issued'
        PROVE  Counts(number.event)' => number.sequence <= sequences'[number.event]
    <3> DEFINE id == call[n].event
    <3>1. id \in Minted /\ sequences'[id] = seq /\ sequences[id] \in Nat
      BY <1>1, <2>2
    <3>2. CASE number = [event |-> id, sequence |-> seq]
      BY <3>1, <3>2
    <3>3. CASE number \in issued
      <4>1. number.event \in Minted /\ number.sequence \in Nat
            /\ (Counts(number.event) => number.sequence <= sequences[number.event])
        BY <1>0, <1>1, <3>3 DEF IssuedAreCounted, IssuedAreMinted, Numbers
      <4>2. sequences[number.event] <= sequences'[number.event]
            /\ sequences[number.event] \in Nat /\ sequences'[number.event] \in Nat
        BY <1>1, <2>2, <3>1, <4>1
      <4> QED  BY <1>5, <4>1, <4>2
    <3> QED  BY <2>2, <3>2, <3>3
  <2> QED  BY <1>0, <2>1, <2>2, TakesFacts DEF IssuedAreCounted
<1>7. EndedEventsAreForgotten'
  <2> SUFFICES ASSUME NEW e \in EventIds, ~InUse(e), \A m \in Names : call'[m].event # e
               PROVE  sequences'[e] = 0
    BY <1>3 DEF EndedEventsAreForgotten
  <2>1. e # NoEvent  OBVIOUS
  <2>2. call[n].event # e
    BY <2>1 DEF LeavesNoEvent
  <2>3. sequences[e] = 0
    BY <1>0, <1>4, <2>2 DEF EndedEventsAreForgotten
  <2> QED  BY <1>0, <1>1, <2>2, <2>3, TakesFacts
<1> QED  BY <1>2, <1>6, <1>7 DEF PathInv

-----------------------------------------------------------------------------
(* The end of a resolution drops the counter, if nobody else needs it. *)

\* The call is over, and at most its counter is gone.
LEMMA ClearFacts ==
  ASSUME CoreInv, NEW n \in Names, Clear(n)
  PROVE  /\ TrackerInv'
         /\ pc[n] = "clearing"
         /\ pc' = [pc EXCEPT ![n] = "idle"] /\ call' = [call EXCEPT ![n] = NoCall]
         /\ UNCHANGED <<eventIDs, minter, updater, commands, issued, alert, muted>>
         /\ \/ /\ call[n].event = NoEvent \/ InUse(call[n].event)
               /\ sequences' = sequences
            \/ /\ call[n].event # NoEvent /\ ~InUse(call[n].event)
               /\ sequences' = [sequences EXCEPT ![call[n].event] = 0]
<1>1. TrackerInv'  BY CoreTypes, ClearSequenceInv DEF CoreInv, Clear
<1> QED  BY <1>1 DEF Clear, Return, Goto, historyVars, ClearSequence, trackerVars, mapVars

\* What the end of a call cannot disturb.
LEMMA ClearCore ==
  ASSUME CoreInv, NEW n \in Names, Clear(n)
  PROVE  CoreInv' /\ (CallsMatchTracker => CallsMatchTracker')
<1>0. IncidentsTypeOK /\ CallsAreOwn /\ IssuedAreMinted  BY DEF CoreInv
<1>1. /\ call'[n] = NoCall /\ pc'[n] = "idle"
      /\ \A m \in Names \ {n} : call'[m] = call[m] /\ pc'[m] = pc[m]
      /\ UNCHANGED <<eventIDs, minter, issued>>
  BY CoreTypes, ClearFacts
<1>2. IncidentsTypeOK'
  BY <1>0, ClearFacts DEF IncidentsTypeOK, TrackerInv, NoCall
<1>3. CallsAreOwn'
  BY <1>0, <1>1 DEF CallsAreOwn, Free, NoCall
<1>4. ASSUME CallsMatchTracker PROVE CallsMatchTracker'
  BY <1>1, <1>4 DEF CallsMatchTracker
<1> QED  BY <1>0, <1>1, <1>2, <1>3, <1>4, ClearFacts DEF CoreInv, IssuedAreMinted

\* Another call can only need the event through maintenance, and then only
\* while some check is attached to it.
LEMMA ClearInv == ASSUME PathInv, NEW n \in Names, Clear(n) PROVE PathInv'
<1> DEFINE id == call[n].event
<1>0. /\ CoreInv /\ CallsMatchTracker /\ CallsAreOwn
      /\ IssuedAreMinted /\ IssuedAreCounted /\ EndedEventsAreForgotten
  BY DEF PathInv, CoreInv
<1>1. sequences \in [EventIds -> Nat] /\ id \in Minted \cup {NoEvent}
  BY <1>0, CoreTypes
<1>2. CoreInv' /\ CallsMatchTracker'  BY <1>0, ClearCore
<1>3. /\ UNCHANGED <<eventIDs, minter, issued>>
      /\ \/ /\ id = NoEvent \/ InUse(id)
            /\ sequences' = sequences
         \/ id # NoEvent /\ ~InUse(id) /\ sequences' = [sequences EXCEPT ![id] = 0]
  BY <1>0, ClearFacts
<1>4. call'[n] = NoCall /\ \A m \in Names \ {n} : call'[m] = call[m]
  BY <1>0, CoreTypes, ClearFacts
<1>5. \A e \in EventIds : Counts(e)' => Counts(e) /\ (e # id \/ InUse(id))
  <2> SUFFICES ASSUME NEW e \in EventIds, Counts(e)', ~InUse(e)
               PROVE  Counts(e) /\ e # id
    BY <1>3 DEF Counts
  <2>1. PICK m \in Names : call'[m].event = e /\ minter[e] # Maintenance
    BY <1>3 DEF Counts
  <2>2. m # n /\ call[m].event = e
    BY <1>4, <2>1 DEF NoCall
  <2>3. minter[e] = m
    BY <1>0, <2>1, <2>2 DEF CallsAreOwn
  <2>4. e # id
    BY <1>0, <2>1, <2>2, <2>3 DEF CallsAreOwn
  <2> QED  BY <2>1, <2>2, <2>4 DEF Counts
<1>6. IssuedAreCounted'
  <2> SUFFICES ASSUME NEW number \in issued
               PROVE  Counts(number.event)' => number.sequence <= sequences'[number.event]
    BY <1>3 DEF IssuedAreCounted
  <2>1. number.event \in Minted
        /\ (Counts(number.event) => number.sequence <= sequences[number.event])
    BY <1>0 DEF IssuedAreCounted, IssuedAreMinted
  <2> QED  BY <1>1, <1>3, <1>5, <2>1
<1>7. EndedEventsAreForgotten'
  <2> SUFFICES ASSUME NEW e \in EventIds, ~InUse(e), \A m \in Names : call'[m].event # e
               PROVE  sequences'[e] = 0
    BY <1>3 DEF EndedEventsAreForgotten
  <2>1. CASE e = id  BY <1>1, <1>3, <2>1
  <2>2. CASE e # id
    <3>1. \A m \in Names : call[m].event # e  BY <1>4, <2>2
    <3>2. sequences[e] = 0  BY <1>0, <3>1 DEF EndedEventsAreForgotten
    <3> QED  BY <1>1, <1>3, <2>2, <3>2
  <2> QED  BY <2>1, <2>2
<1> QED  BY <1>2, <1>6, <1>7 DEF PathInv

-----------------------------------------------------------------------------
(* The steps of a call *)

\* A registration asks like a failing result.
LEMMA RegisterAsks ==
  ASSUME CoreInv, NEW n \in Names, Register(n)
  PROVE  /\ \E id \in MaybeEvent : Asks(n, "initializing", id)
         /\ updater' \in [Names -> Updaters] /\ "initializing" \in CallResults
BY CoreTypes DEF Register, Asks, Free, CallResults, historyVars

\* At its threshold a result asks for the event.
LEMMA CrossThresholdAsks ==
  ASSUME CoreInv, NEW n \in Names, NEW result \in Results,
         NEW disableNotification \in BOOLEAN, CrossThreshold(n, result, disableNotification)
  PROVE  /\ \E id \in MaybeEvent : Asks(n, result, id)
         /\ updater' \in [Names -> Updaters] /\ result \in CallResults
<1>1. PICK id \in MaybeEvent :
        GetOrCreateEventID(n, result = "passing", id) /\ Calls(n, result, id)
  BY DEF CrossThreshold
<1>0. muted' \in [Names -> BOOLEAN]
  BY CoreTypes DEF CrossThreshold, Mutes
<1>2. Asks(n, result, id)
  BY <1>0, <1>1 DEF CrossThreshold, Asks, Free
<1>3. updater' \in [Names -> Updaters] /\ result \in CallResults
  BY CoreTypes, UpdatedIsUpdater DEF CrossThreshold, CallResults
<1> QED  BY <1>2, <1>3

\* Below its threshold a result reaches nothing but its updater.
LEMMA CountResultCounts ==
  ASSUME CoreInv, NEW n \in Names, NEW result \in Results, CountResult(n, result)
  PROVE  /\ updater' \in [Names -> Updaters]
         /\ UNCHANGED <<trackerVars, pc, call, commands, historyVars>>
BY CoreTypes, UpdatedIsUpdater DEF CountResult

\* A notification takes one number, an empty event none.
LEMMA NumberMoves ==
  ASSUME CoreInv, NEW n \in Names, Number(n)
  PROVE  Moves(n) /\ Takes(n) /\ call'[n].event = call[n].event /\ IncidentsTypeOK'
<1>0. IncidentsTypeOK  BY DEF CoreInv
<1>1. PICK seq \in 0..MaxSequence :
        TakeNumber(call[n].event, seq) /\ call' = [call EXCEPT ![n].sequence = seq]
  BY DEF Number
<1>2. /\ pc[n] = "numbering" /\ pc' = [pc EXCEPT ![n] = "sending"]
      /\ UNCHANGED <<updater, commands, alert, muted>>
  BY DEF Number
<1>3. Takes(n)  BY <1>1 DEF Takes
<1>4. call' \in [Names -> CallTypes] /\ issued' \subseteq Numbers
  BY <1>1, CoreTypes DEF CallTypes, TakeNumber, Numbers
<1>5. IncidentsTypeOK'
  BY <1>0, <1>2, <1>3, <1>4, TakesFacts
  DEF IncidentsTypeOK, TrackerInv, CallTypes, CallResults
<1>6. Moves(n) /\ call'[n].event = call[n].event
  BY <1>1, <1>2, CoreTypes DEF Moves, Free, Labels, CallTypes
<1> QED  BY <1>3, <1>5, <1>6

\* After its notification a registration is over and an update goes on.
LEMMA SendMoves ==
  ASSUME CoreInv, NEW n \in Names, Send(n)
  PROVE  /\ Moves(n) /\ Takes(n) /\ IncidentsTypeOK'
         /\ call'[n].event = call[n].event \/ call[n].result = "initializing"
<1>0. IncidentsTypeOK /\ TrackerInv  BY DEF CoreInv
<1>1. /\ pc[n] = "sending"
      /\ UNCHANGED <<trackerVars, updater, commands, issued>>
      /\ alert' \in [Names -> MaybeEvent] /\ muted' \in [Names -> BOOLEAN]
  BY CoreTypes DEF Send, CallTypes
<1>2. TrackerInv'  BY <1>0, <1>1, UnchangedInv
<1>3. NoCall \in CallTypes  BY DEF NoCall, CallTypes, CallResults
<1>4. \/ /\ Registering(n)
         /\ pc' = [pc EXCEPT ![n] = "idle"] /\ call' = [call EXCEPT ![n] = NoCall]
      \/ pc' = [pc EXCEPT ![n] = "acting"] /\ call' = call
  BY DEF Send, Return
<1>5. IncidentsTypeOK'
  BY <1>0, <1>1, <1>2, <1>3, <1>4, CoreTypes
  DEF IncidentsTypeOK, TrackerInv, Labels, CallTypes, CallResults
<1>6. Moves(n)
  BY <1>1, <1>4, CoreTypes DEF Moves, Free, Labels
<1> QED  BY <1>1, <1>4, <1>5, <1>6 DEF Takes, Registering

\* After its action an update returns, unless it has a counter to clear.
LEMMA AfterActingMoves ==
  ASSUME CoreInv, NEW n \in Names, pc[n] = "acting", AfterActing(n)
  PROVE  /\ Moves(n) /\ pc' \in [Names -> Labels] /\ call' \in [Names -> CallTypes]
         /\ \/ call'[n].event = call[n].event
            \/ call[n].result # "passing" \/ call[n].event = NoEvent
<1>1. CASE call[n].result = "passing" /\ call[n].event # NoEvent
  BY <1>1, CoreTypes DEF AfterActing, Moves, Free, Labels
<1>2. CASE ~(call[n].result = "passing" /\ call[n].event # NoEvent)
  <2>1. pc' = [pc EXCEPT ![n] = "idle"] /\ call' = [call EXCEPT ![n] = NoCall]
    BY <1>2 DEF AfterActing, Return
  <2>2. NoCall \in CallTypes  BY DEF NoCall, CallTypes, CallResults
  <2> QED  BY <1>2, <2>1, <2>2, CoreTypes DEF Moves, Free, Labels
<1> QED  BY <1>1, <1>2

\* No command: the update goes on or returns.
LEMMA SkipActionMoves ==
  ASSUME CoreInv, NEW n \in Names, SkipAction(n)
  PROVE  /\ Moves(n) /\ Takes(n) /\ IncidentsTypeOK'
         /\ \/ call'[n].event = call[n].event
            \/ call[n].result # "passing" \/ call[n].event = NoEvent
<1>0. IncidentsTypeOK /\ TrackerInv  BY DEF CoreInv
<1>1. /\ pc[n] = "acting" /\ AfterActing(n)
      /\ UNCHANGED <<trackerVars, updater, commands, issued, alert, muted>>
  BY DEF SkipAction, historyVars
<1>2. TrackerInv'  BY <1>0, <1>1, UnchangedInv
<1>3. IncidentsTypeOK'
  BY <1>0, <1>1, <1>2, AfterActingMoves
  DEF IncidentsTypeOK, TrackerInv, Labels, CallTypes, CallResults
<1> QED  BY <1>1, <1>3, AfterActingMoves DEF Takes

\* A command takes its number before the update goes on.
LEMMA StartCommandMoves ==
  ASSUME CoreInv, NEW n \in Names, StartCommand(n)
  PROVE  /\ Moves(n) /\ Takes(n) /\ IncidentsTypeOK'
         /\ \/ call'[n].event = call[n].event
            \/ call[n].result # "passing" \/ call[n].event = NoEvent
<1>0. IncidentsTypeOK  BY DEF CoreInv
<1>1. PICK seq \in 1..MaxSequence :
        /\ TakeNumber(call[n].event, seq)
        /\ commands' = commands \cup {[event |-> call[n].event, sequence |-> seq]}
  BY DEF StartCommand
<1>2. /\ pc[n] = "acting" /\ AfterActing(n)
      /\ UNCHANGED <<updater, alert, muted>>
  BY DEF StartCommand
<1>3. Takes(n)  BY <1>1 DEF Takes
<1>4. call[n].event \in Minted \cup {NoEvent} /\ seq \in Nat
  BY CoreTypes
<1>5. commands' \subseteq Numbers /\ issued' \subseteq Numbers
  BY <1>0, <1>1, <1>4 DEF TakeNumber, IncidentsTypeOK, Numbers
<1>6. IncidentsTypeOK'
  BY <1>0, <1>2, <1>3, <1>5, AfterActingMoves, TakesFacts
  DEF IncidentsTypeOK, TrackerInv, Labels, CallTypes, CallResults
<1> QED  BY <1>2, <1>3, <1>6, AfterActingMoves

\* While a call works with the tracker's event, a failing one has it in use.
LEMMA CallLeavesNoEvent ==
  ASSUME CoreInv, CallsMatchTracker, NEW n \in Names, ~Free(n),
         \/ call'[n].event = call[n].event
         \/ call[n].result # "passing" \/ call[n].event = NoEvent
  PROVE  LeavesNoEvent(n)
BY DEF LeavesNoEvent, CallsMatchTracker, Free

-----------------------------------------------------------------------------
(* The next-state relation and the specification *)

\* The steps of the call of n, whichever results it gives.
CallStep(n) ==
  \/ Register(n)
  \/ \E result \in Results, disableNotification \in BOOLEAN :
       update(n, result, disableNotification)
  \/ Number(n) \/ Send(n) \/ SkipAction(n) \/ StartCommand(n) \/ Clear(n)

\* Neither the end of a command, a result below its threshold nor a stutter
\* touches what the invariants speak of.
LEMMA RestInv ==
  ASSUME CoreInv, UNCHANGED <<trackerVars, pc, call, historyVars>>,
         updater' \in [Names -> Updaters], commands' \subseteq commands
  PROVE  /\ CoreInv' /\ (CallsMatchTracker => CallsMatchTracker')
         /\ PathInv => PathInv'
<1>1. /\ UNCHANGED <<eventIDs, sequences, minter, pc, call, issued, alert, muted>>
      /\ UNCHANGED trackerVars
  BY DEF trackerVars, historyVars
<1>2. TrackerInv'  BY <1>1, UnchangedInv DEF CoreInv
<1>3. CoreInv' /\ (CallsMatchTracker => CallsMatchTracker')
  BY <1>1, <1>2
  DEF CoreInv, IncidentsTypeOK, TrackerInv, CallsMatchTracker, CallsAreOwn, Free, IssuedAreMinted
<1> QED
  BY <1>1, <1>3 DEF PathInv, Counts, IssuedAreCounted, EndedEventsAreForgotten

\* The core survives every step, and so does the match with the tracker.
LEMMA CoreNext ==
  ASSUME CoreInv, NEW n \in Names, CallStep(n)
  PROVE  CoreInv' /\ (CallsMatchTracker => CallsMatchTracker')
<1>1. CASE Register(n)  BY <1>1, RegisterAsks, AsksCore
<1>2. ASSUME NEW result \in Results, NEW disableNotification \in BOOLEAN,
             update(n, result, disableNotification)
      PROVE  CoreInv' /\ (CallsMatchTracker => CallsMatchTracker')
  <2>1. CASE CountResult(n, result)
    BY <2>1, CountResultCounts, RestInv
  <2>2. CASE CrossThreshold(n, result, disableNotification)
    <3>1. /\ \E id \in MaybeEvent : Asks(n, result, id)
          /\ updater' \in [Names -> Updaters] /\ result \in CallResults
      BY <1>2, <2>2, CrossThresholdAsks
    <3> QED  BY <3>1, AsksCore
  <2> QED  BY <1>2, <2>1, <2>2 DEF update
<1>3. CASE Number(n)  BY <1>3, NumberMoves, MovesCore
<1>4. CASE Send(n)  BY <1>4, SendMoves, MovesCore
<1>5. CASE SkipAction(n)  BY <1>5, SkipActionMoves, MovesCore
<1>6. CASE StartCommand(n)  BY <1>6, StartCommandMoves, MovesCore
<1>7. CASE Clear(n)  BY <1>7, ClearCore
<1> QED  BY <1>1, <1>2, <1>3, <1>4, <1>5, <1>6, <1>7 DEF CallStep

\* So do the counters.
LEMMA PathStep == ASSUME PathInv, NEW n \in Names, CallStep(n) PROVE PathInv'
<1>0. CoreInv /\ CallsMatchTracker  BY DEF PathInv
<1>1. CASE Register(n)  BY <1>0, <1>1, RegisterAsks, AsksInv
<1>2. ASSUME NEW result \in Results, NEW disableNotification \in BOOLEAN,
             update(n, result, disableNotification)
      PROVE  PathInv'
  <2>1. CASE CountResult(n, result)
    BY <1>0, <2>1, CountResultCounts, RestInv
  <2>2. CASE CrossThreshold(n, result, disableNotification)
    <3>1. /\ \E id \in MaybeEvent : Asks(n, result, id)
          /\ updater' \in [Names -> Updaters] /\ result \in CallResults
      BY <1>0, <1>2, <2>2, CrossThresholdAsks
    <3> QED  BY <1>0, <3>1, AsksInv
  <2> QED  BY <1>2, <2>1, <2>2 DEF update
<1>3. CASE Number(n)
  BY <1>0, <1>3, NumberMoves, MovesInv DEF LeavesNoEvent
<1>4. CASE Send(n)
  <2>1. call'[n].event = call[n].event \/ call[n].result # "passing"
    BY <1>0, <1>4, SendMoves
  <2>2. LeavesNoEvent(n)
    BY <1>0, <1>4, <2>1, SendMoves, CallLeavesNoEvent DEF Moves
  <2> QED  BY <1>0, <1>4, <2>2, SendMoves, MovesInv
<1>5. CASE SkipAction(n)
  BY <1>0, <1>5, SkipActionMoves, CallLeavesNoEvent, MovesInv DEF Moves
<1>6. CASE StartCommand(n)
  BY <1>0, <1>6, StartCommandMoves, CallLeavesNoEvent, MovesInv DEF Moves
<1>7. CASE Clear(n)  BY <1>7, ClearInv
<1> QED  BY <1>1, <1>2, <1>3, <1>4, <1>5, <1>6, <1>7 DEF CallStep

\* Every step is one of these.
LEMMA PathNext == ASSUME PathInv, [IncidentsNext]_vars PROVE PathInv'
<1>0. CoreInv /\ updater \in [Names -> Updaters]  BY CoreTypes DEF PathInv
<1>1. CASE \E n \in Names : CallStep(n)  BY <1>1, PathStep
<1>2. ASSUME NEW number \in commands, CommandEnds(number)  PROVE PathInv'
  BY <1>0, <1>2, RestInv DEF CommandEnds, callVars
<1>3. CASE UNCHANGED vars
  BY <1>0, <1>3, RestInv DEF vars, callVars
<1>4. IncidentsNext => (\E n \in Names : CallStep(n)) \/ \E number \in commands : CommandEnds(number)
  BY DEF IncidentsNext, Handlers, Handles, CallStep
<1> QED  BY <1>1, <1>2, <1>3, <1>4

\* The invariant of the whole path, for any checks and thresholds.
LEMMA PathSafe == IncidentsSpec => []PathInv
<1>1. IncidentsInit => PathInv  BY PathInit
<1>2. PathInv /\ [IncidentsNext]_vars => PathInv'  BY PathNext
<1> QED  BY <1>1, <1>2, PTL DEF IncidentsSpec

\* However the handlers interleave, the tracker stays consistent and a call in
\* progress works with the event its check is attached to.
THEOREM IncidentsSafe == IncidentsSpec => []IncidentsInv
<1>1. PathInv => IncidentsInv  BY DEF PathInv, CoreInv, IncidentsInv
<1> QED  BY <1>1, PathSafe, PTL

\* In the words of the flapping run: no call loses its event to another check.
THEOREM CallsKeepTheirEvent == IncidentsSpec => []CallsMatchTracker
<1>1. PathInv => CallsMatchTracker  BY DEF PathInv
<1> QED  BY <1>1, PathSafe, PTL

\* No counter leaks, in whatever order the checks of an event recover.
THEOREM NoCounterLeaks == IncidentsSpec => []EndedEventsAreForgotten
<1>1. PathInv => EndedEventsAreForgotten  BY DEF PathInv
<1> QED  BY <1>1, PathSafe, PTL

-----------------------------------------------------------------------------
(* The handlers use the tracker as it may be used, so its promises carry over. *)

\* Every step of a handler is a call that the tracker allows, or none: a call
\* passes on only an event that it was given.
LEMMA StepsAreTrackerCalls ==
  ASSUME CoreInv, [IncidentsNext]_vars
  PROVE  [Next]_trackerVars
<1>1. \A n \in Names : call[n].event \in Minted \cup {NoEvent}  BY CoreTypes
<1>2. ASSUME NEW n \in Names, NEW isHealthy \in BOOLEAN, NEW id \in MaybeEvent,
             GetOrCreateEventID(n, isHealthy, id)
      PROVE  Next
  BY <1>2 DEF Next
<1>3. ASSUME NEW n \in Names, NEW seq \in 0..MaxSequence, TakeNumber(call[n].event, seq)
      PROVE  Next
  BY <1>1, <1>3 DEF Next, TakeNumber
<1>4. ASSUME NEW n \in Names, Clear(n) PROVE Next
  BY <1>1, <1>4 DEF Next, Clear
<1>5. ASSUME NEW n \in Names, NEW result \in Reports, NEW disableNotification,
             update(n, result, disableNotification)
      PROVE  [Next]_trackerVars
  <2>1. CASE CountResult(n, result)
    BY <2>1 DEF CountResult
  <2>2. CASE CrossThreshold(n, result, disableNotification)
    BY <1>2, <2>2 DEF CrossThreshold
  <2> QED  BY <1>5, <2>1, <2>2 DEF update
<1>6. ASSUME NEW n \in Names, Register(n) PROVE Next
  BY <1>2, <1>6 DEF Register
<1>7. ASSUME NEW n \in Names, Number(n) PROVE Next
  BY <1>3, <1>7 DEF Number
<1>8. ASSUME NEW n \in Names, StartCommand(n) PROVE Next
  <2>1. PICK seq \in 1..MaxSequence : TakeNumber(call[n].event, seq)
    BY <1>8 DEF StartCommand
  <2>2. seq \in 0..MaxSequence  OBVIOUS
  <2> QED  BY <1>3, <2>1, <2>2
<1>9. ASSUME NEW n \in Names, Send(n) \/ SkipAction(n) PROVE UNCHANGED trackerVars
  BY <1>9 DEF Send, SkipAction
<1>10. ASSUME NEW number \in commands, CommandEnds(number) PROVE UNCHANGED trackerVars
  BY <1>10 DEF CommandEnds
<1>11. CASE UNCHANGED vars  BY <1>11 DEF vars
<1> QED
  BY <1>4, <1>5, <1>6, <1>7, <1>8, <1>9, <1>10, <1>11 DEF IncidentsNext, Handlers, Handles

\* However the handlers of the checks interleave, what they do to the tracker
\* is a sequence of calls that the tracker allows.
THEOREM HandlersUseTracker == IncidentsSpec => Spec
<1>1. IncidentsInit => Init  BY DEF IncidentsInit
<1>2. PathInv /\ [IncidentsNext]_vars => [Next]_trackerVars
  BY StepsAreTrackerCalls DEF PathInv
<1> QED  BY <1>1, <1>2, PathSafe, PTL DEF IncidentsSpec, Spec

\* So the whole path keeps the ledger of incidents: an event is stable from
\* the failure to the resolution of its check.
THEOREM PathImplementsLedger == IncidentsSpec => LedgerSpec
BY HandlersUseTracker, TrackerImplementsLedger, PTL

\* And an event that every check has left is never seen again.
THEOREM EventsEndForGoodOnPath == IncidentsSpec => EventsNeverReopen
BY HandlersUseTracker, EventsEndForGood, PTL

-----------------------------------------------------------------------------
(* Numbers are issued once while they count. *)

\* Only GetNextSequence raises a counter, and then for the event of a call.
LEMMA OnlyTakesCount ==
  ASSUME PathInv, [IncidentsNext]_vars, NEW id \in EventIds, sequences'[id] > sequences[id]
  PROVE  UNCHANGED <<eventIDs, minter>> /\ \E n \in Names : call[n].event = id
<1>0. TrackerInv /\ TypeOK /\ sequences \in [EventIds -> Nat]
  BY CoreTypes DEF PathInv, CoreInv, TrackerInv
<1>1. ~(sequences' = sequences) BY <1>0
<1>2. ASSUME NEW n \in Names, NEW healthy \in BOOLEAN, NEW e \in MaybeEvent,
             GetOrCreateEventID(n, healthy, e)
      PROVE  FALSE
  BY <1>0, <1>1, <1>2, AskFacts
<1>3. ASSUME NEW n \in Names, NEW seq, TakeNumber(call[n].event, seq)
      PROVE  UNCHANGED <<eventIDs, minter>> /\ call[n].event = id
  BY <1>0, <1>1, <1>3 DEF TakeNumber, GetNextSequence, trackerVars, mapVars
<1>4. ASSUME NEW n \in Names, Clear(n) PROVE FALSE
  BY <1>0, <1>1, <1>4 DEF Clear, ClearSequence, trackerVars
<1>5. ASSUME UNCHANGED trackerVars PROVE FALSE
  BY <1>1, <1>5 DEF trackerVars
<1>6. ASSUME NEW n \in Names, NEW result \in Reports, NEW disableNotification,
             update(n, result, disableNotification)
      PROVE  FALSE
  BY <1>2, <1>5, <1>6 DEF update, CountResult, CrossThreshold
<1>7. ASSUME NEW n \in Names, Register(n) PROVE FALSE
  BY <1>2, <1>7 DEF Register
<1>8. ASSUME NEW n \in Names, Send(n) \/ SkipAction(n) PROVE FALSE
  BY <1>5, <1>8 DEF Send, SkipAction
<1>9. ASSUME NEW n \in Names, Number(n) \/ StartCommand(n)
      PROVE  UNCHANGED <<eventIDs, minter>> /\ call[n].event = id
  BY <1>3, <1>9 DEF Number, StartCommand
<1>10. ASSUME NEW number \in commands, CommandEnds(number) PROVE FALSE
  BY <1>5, <1>10 DEF CommandEnds
<1>11. CASE UNCHANGED vars  BY <1>5, <1>11 DEF vars
<1> QED
  BY <1>4, <1>6, <1>7, <1>8, <1>9, <1>10, <1>11 DEF IncidentsNext, Handlers, Handles

\* A number of an event that counts is above all that were issued before.
LEMMA NewNumberIsNew ==
  ASSUME PathInv, [IncidentsNext]_vars,
         NEW id \in EventIds, sequences'[id] > sequences[id], Counts(id)
  PROVE  [event |-> id, sequence |-> sequences'[id]] \notin issued
<1> SUFFICES ASSUME [event |-> id, sequence |-> sequences'[id]] \in issued  PROVE FALSE
  OBVIOUS
<1>1. sequences'[id] <= sequences[id]  BY DEF PathInv, IssuedAreCounted
<1>2. sequences[id] \in Nat /\ sequences'[id] \in Nat
  <2>1. PathInv'  BY PathNext
  <2> QED  BY <2>1, CoreTypes DEF PathInv, CoreInv, TrackerInv, TypeOK
<1> QED  BY <1>1, <1>2

\* While some check is attached to an event, none of its numbers is issued
\* twice, whoever of the checks that share it recovers in between.
THEOREM OpenNumbersIssuedOnce == IncidentsSpec => OpenEventNumbersAreUnique
<1>1. ASSUME PathInv, [IncidentsNext]_vars
      PROVE  [\A id \in EventIds :
                sequences'[id] > sequences[id] /\ InUse(id)
                  => [event |-> id, sequence |-> sequences'[id]] \notin issued]_vars
  BY <1>1, NewNumberIsNew DEF Counts
<1> QED  BY <1>1, PathSafe, PTL DEF IncidentsSpec, OpenEventNumbersAreUnique

\* An event that no other check shares never issues a number twice, not even
\* between the recovery that leaves it and the end of the resolution.
THEOREM PrivateNumbersIssuedOnce == IncidentsSpec => PrivateNumbersAreUnique
<1>1. ASSUME PathInv, [IncidentsNext]_vars
      PROVE  [\A id \in EventIds :
                sequences'[id] > sequences[id] /\ minter[id] # Maintenance
                  => [event |-> id, sequence |-> sequences'[id]] \notin issued]_vars
  BY <1>1, OnlyTakesCount, NewNumberIsNew DEF Counts
<1> QED  BY <1>1, PathSafe, PTL DEF IncidentsSpec, PrivateNumbersAreUnique

-----------------------------------------------------------------------------
(* An alert keeps its event, unless a response asks for silence. *)

\* Where the open alert of a check that is not muted is: on the event the check
\* is attached to, until its resolution, which carries that event, has been sent.
HoldsAlert(n) ==
  /\ pc[n] = "new" => alert[n] = NoEvent
  /\ Free(n) => /\ alert[n] # NoEvent => eventIDs[n] = alert[n]
                /\ updater[n].status = "passing" => alert[n] = NoEvent
  /\ ~Free(n) /\ call[n].result # "passing"
       => (alert[n] # NoEvent => call[n].event = alert[n])
  /\ ~Free(n) /\ call[n].result = "passing"
       => IF pc[n] \in {"numbering", "sending"}
          THEN alert[n] # NoEvent => call[n].event = alert[n]
          ELSE alert[n] = NoEvent

AlertIsHeld(n) ==
  /\ pc[n] = "new" \/ (~Free(n) /\ call[n].result # "passing")
       => updater[n].status # "passing"
  /\ ~muted[n] => HoldsAlert(n)

AlertsAreHeld == \A n \in Names : AlertIsHeld(n)

\* A step of one check leaves the alerts of the others alone.
LEMMA OthersKeepAlerts ==
  ASSUME AlertsAreHeld, NEW n \in Names, AlertIsHeld(n)',
         \A m \in Names \ {n} : /\ pc'[m] = pc[m] /\ call'[m] = call[m]
                                /\ updater'[m] = updater[m] /\ alert'[m] = alert[m]
                                /\ muted'[m] = muted[m] /\ eventIDs'[m] = eventIDs[m]
  PROVE  AlertsAreHeld'
BY DEF AlertsAreHeld, AlertIsHeld, HoldsAlert, Free

\* What the lemmas below use of the invariant.
LEMMA AlertTypes ==
  ASSUME PathInv
  PROVE  /\ IncidentsTypeOK /\ TrackerInv /\ CallsMatchTracker
         /\ eventIDs \in [Names -> MaybeEvent] /\ alert \in [Names -> MaybeEvent]
         /\ pc \in [Names -> Labels] /\ call \in [Names -> CallTypes]
         /\ updater \in [Names -> Updaters] /\ muted \in [Names -> BOOLEAN]
BY CoreTypes DEF PathInv, CoreInv

\* Before its registration a check has no alert.
LEMMA RegisterAlert ==
  ASSUME PathInv, AlertsAreHeld, NEW n \in Names, Register(n)
  PROVE  AlertsAreHeld'
<1>1. PICK id \in MaybeEvent :
        GetOrCreateEventID(n, FALSE, id) /\ Calls(n, "initializing", id)
  BY DEF Register
<1>2. eventIDs' = [eventIDs EXCEPT ![n] = id]  BY <1>1, AlertTypes, AskFacts
<1>3. /\ pc[n] = "new" /\ pc' = [pc EXCEPT ![n] = "numbering"]
      /\ call' = [call EXCEPT ![n] = [result |-> "initializing", event |-> id, sequence |-> 0]]
      /\ UNCHANGED <<updater, alert, muted>>
  BY <1>1 DEF Register, Calls, historyVars
<1>4. AlertIsHeld(n)'
  BY <1>3, AlertTypes DEF AlertsAreHeld, AlertIsHeld, HoldsAlert, Free
<1> QED  BY <1>2, <1>3, <1>4, AlertTypes, OthersKeepAlerts

\* Below its threshold a result changes no status.
LEMMA CountResultAlert ==
  ASSUME PathInv, AlertsAreHeld, NEW n \in Names, NEW result \in Results,
         CountResult(n, result)
  PROVE  AlertsAreHeld'
<1>1. /\ updater' = [updater EXCEPT ![n] = Updated(updater[n], result)]
      /\ UNCHANGED <<eventIDs, pc, call, alert, muted>>
  BY DEF CountResult, trackerVars, historyVars
<1>2. updater'[n].status = updater[n].status
  BY <1>1, AlertTypes, UpdatedIsUpdater DEF CountResult
<1>3. AlertIsHeld(n)'
  BY <1>1, <1>2 DEF AlertsAreHeld, AlertIsHeld, HoldsAlert, Free
<1> QED  BY <1>1, <1>3, AlertTypes, OthersKeepAlerts

\* A resolution that is not announced finds no alert, for the status was passing,
\* or it mutes the check, as a silent failure does.
LEMMA CrossThresholdAlert ==
  ASSUME PathInv, AlertsAreHeld, NEW n \in Names, NEW result \in Results,
         NEW disableNotification \in BOOLEAN, CrossThreshold(n, result, disableNotification)
  PROVE  AlertsAreHeld'
<1> DEFINE flips == result = "passing" <=> updater[n].status # "passing"
           notifies == Notifies(updater[n], result, disableNotification)
<1>1. PICK id \in MaybeEvent :
        GetOrCreateEventID(n, result = "passing", id) /\ Calls(n, result, id)
  BY DEF CrossThreshold
<1>2. /\ eventIDs' = [eventIDs EXCEPT ![n] = IF result = "passing" THEN NoEvent ELSE id]
      /\ result = "passing" => id = eventIDs[n]
      /\ result # "passing" /\ eventIDs[n] # NoEvent => id = eventIDs[n]
  BY <1>1, AlertTypes, AskFacts
<1>3. /\ pc[n] = "idle" /\ Crosses(updater[n], result)
      /\ updater' = [updater EXCEPT ![n] = Updated(updater[n], result)]
      /\ call' = [call EXCEPT ![n] = [result |-> result, event |-> id, sequence |-> 0]]
      /\ pc' = [pc EXCEPT ![n] = IF notifies THEN "numbering" ELSE "acting"]
      /\ muted' = [muted EXCEPT ![n] = muted[n] \/ (disableNotification /\ flips)]
      /\ UNCHANGED alert
  BY <1>1 DEF CrossThreshold, Calls, Mutes
<1>4. updater'[n].status = result
  BY <1>3, AlertTypes, UpdatedIsUpdater
<1>5. AlertIsHeld(n)'
  <2>0. pc'[n] \in {"numbering", "acting"} /\ call'[n].result = result
    BY <1>3, AlertTypes
  <2> SUFFICES ASSUME ~muted'[n]  PROVE HoldsAlert(n)'
    BY <1>4, <2>0 DEF AlertIsHeld, Free
  <2>1. ~muted[n] /\ ~(disableNotification /\ flips)
    BY <1>3, AlertTypes
  <2>2. /\ alert[n] # NoEvent => eventIDs[n] = alert[n]
        /\ updater[n].status = "passing" => alert[n] = NoEvent
    BY <1>3, <2>1 DEF AlertsAreHeld, AlertIsHeld, HoldsAlert, Free
  <2>3. ~notifies /\ result = "passing" => alert[n] = NoEvent
    BY <1>3, <2>1, <2>2 DEF Notifies
  <2>4. /\ pc'[n] = IF notifies THEN "numbering" ELSE "acting"
        /\ call'[n].result = result /\ call'[n].event = id
        /\ alert'[n] = alert[n]
    BY <1>3, AlertTypes
  <2>5. alert[n] # NoEvent => id = alert[n]
    BY <1>2, <2>2
  <2> QED  BY <1>4, <2>3, <2>4, <2>5 DEF HoldsAlert, Free
<1>6. \A m \in Names \ {n} : muted'[m] = muted[m]
  BY <1>3, AlertTypes
<1> QED  BY <1>2, <1>3, <1>5, <1>6, AlertTypes, OthersKeepAlerts

\* Numbering keeps the event of the call.
LEMMA NumberAlert ==
  ASSUME PathInv, AlertsAreHeld, NEW n \in Names, Number(n)
  PROVE  AlertsAreHeld'
<1>1. PICK seq \in 0..MaxSequence :
        TakeNumber(call[n].event, seq) /\ call' = [call EXCEPT ![n].sequence = seq]
  BY DEF Number
<1>2. /\ pc[n] = "numbering" /\ pc' = [pc EXCEPT ![n] = "sending"]
      /\ UNCHANGED <<updater, alert, eventIDs, muted>>
  BY <1>1 DEF Number, TakeNumber, GetNextSequence, trackerVars, mapVars
<1>3. call'[n].event = call[n].event /\ call'[n].result = call[n].result
  BY <1>1, AlertTypes DEF CallTypes
<1>4. AlertIsHeld(n)'
  BY <1>2, <1>3, AlertTypes DEF AlertsAreHeld, AlertIsHeld, HoldsAlert, Free
<1> QED  BY <1>1, <1>2, <1>4, AlertTypes, OthersKeepAlerts

\* The notification opens the alert, or resolves it.
LEMMA SendAlert ==
  ASSUME PathInv, AlertsAreHeld, NEW n \in Names, Send(n)
  PROVE  AlertsAreHeld'
<1>1. /\ pc[n] = "sending"
      /\ alert' = [alert EXCEPT ![n] = IF call[n].result = "passing" THEN NoEvent
                                       ELSE call[n].event]
      /\ muted' = [muted EXCEPT ![n] = FALSE]
      /\ UNCHANGED <<updater, eventIDs>>
  BY DEF Send, trackerVars
<1>2. call[n].result # "passing" => /\ updater[n].status # "passing"
                                    /\ eventIDs[n] = call[n].event
  BY <1>1, AlertTypes DEF AlertsAreHeld, AlertIsHeld, CallsMatchTracker, Free
<1>3. CASE Registering(n)
  <2>1. pc' = [pc EXCEPT ![n] = "idle"] /\ call' = [call EXCEPT ![n] = NoCall]
    BY <1>3 DEF Send, Return
  <2>2. AlertIsHeld(n)'
    BY <1>1, <1>2, <1>3, <2>1, AlertTypes DEF AlertIsHeld, HoldsAlert, Free, Registering
  <2> QED  BY <1>1, <2>1, <2>2, AlertTypes, OthersKeepAlerts
<1>4. CASE ~Registering(n)
  <2>1. pc' = [pc EXCEPT ![n] = "acting"] /\ call' = call
    BY <1>4 DEF Send
  <2>2. AlertIsHeld(n)'
    BY <1>1, <1>2, <2>1, AlertTypes DEF AlertIsHeld, HoldsAlert, Free
  <2> QED  BY <1>1, <2>1, <2>2, AlertTypes, OthersKeepAlerts
<1> QED  BY <1>3, <1>4

\* The rest of a call, after its notification.
LEMMA AfterActingAlert ==
  ASSUME PathInv, AlertsAreHeld, NEW n \in Names,
         \/ pc[n] = "acting" /\ AfterActing(n)
         \/ pc[n] = "clearing" /\ Return(n),
         UNCHANGED <<eventIDs, updater, alert, muted>>
  PROVE  AlertsAreHeld'
<1>1. pc[n] \in {"acting", "clearing"}  OBVIOUS
<1>2. ~muted[n] =>
      IF call[n].result = "passing"
      THEN alert[n] = NoEvent
      ELSE /\ alert[n] # NoEvent => eventIDs[n] = alert[n]
           /\ updater[n].status # "passing"
  BY <1>1, AlertTypes DEF AlertsAreHeld, AlertIsHeld, HoldsAlert, Free, CallsMatchTracker
<1>3. CASE Goto(n, "clearing") /\ call[n].result = "passing" /\ UNCHANGED call
  <2>1. AlertIsHeld(n)'
    BY <1>2, <1>3, AlertTypes DEF AlertIsHeld, HoldsAlert, Free
  <2> QED  BY <1>3, <2>1, AlertTypes, OthersKeepAlerts
<1>4. CASE Return(n)
  <2>1. pc' = [pc EXCEPT ![n] = "idle"] /\ call' = [call EXCEPT ![n] = NoCall]
    BY <1>4 DEF Return
  <2>2. AlertIsHeld(n)'
    BY <1>2, <2>1, AlertTypes DEF AlertIsHeld, HoldsAlert, Free
  <2> QED  BY <2>1, <2>2, AlertTypes, OthersKeepAlerts
<1> QED  BY <1>3, <1>4 DEF AfterActing

\* Every step keeps the alerts on their events.
LEMMA AlertsNext ==
  ASSUME PathInv, AlertsAreHeld, [IncidentsNext]_vars
  PROVE  AlertsAreHeld'
<1>1. ASSUME NEW n \in Names, NEW result \in Results, NEW disableNotification \in BOOLEAN,
             update(n, result, disableNotification)
      PROVE  AlertsAreHeld'
  BY <1>1, CountResultAlert, CrossThresholdAlert DEF update
<1>2. ASSUME NEW n \in Names, Register(n) \/ Number(n) \/ Send(n)
      PROVE  AlertsAreHeld'
  BY <1>2, RegisterAlert, NumberAlert, SendAlert
<1>3. ASSUME NEW n \in Names, SkipAction(n) \/ StartCommand(n) \/ Clear(n)
      PROVE  AlertsAreHeld'
  <2>1. UNCHANGED <<eventIDs, updater, alert, muted>>
    BY <1>3 DEF SkipAction, StartCommand, Clear, TakeNumber, GetNextSequence,
                ClearSequence, trackerVars, mapVars, historyVars
  <2>2. \/ pc[n] = "acting" /\ AfterActing(n)
        \/ pc[n] = "clearing" /\ Return(n)
    BY <1>3 DEF SkipAction, StartCommand, Clear
  <2> QED  BY <2>1, <2>2, AfterActingAlert
<1>4. ASSUME UNCHANGED <<eventIDs, updater, pc, call, alert, muted>>  PROVE AlertsAreHeld'
  BY <1>4 DEF AlertsAreHeld, AlertIsHeld, HoldsAlert, Free
<1>5. ASSUME NEW number \in commands, CommandEnds(number)  PROVE AlertsAreHeld'
  BY <1>4, <1>5 DEF CommandEnds, trackerVars, callVars, historyVars
<1>6. CASE UNCHANGED vars
  BY <1>4, <1>6 DEF vars, trackerVars, callVars, historyVars
<1> QED  BY <1>1, <1>2, <1>3, <1>5, <1>6 DEF IncidentsNext, Handlers, Handles

\* An alert keeps its event, whichever responses ask for silence: every later
\* notification of the check, its resolution included, carries it.  Only a check
\* that changed silently between failing and passing since its last notification
\* is excepted, and only until its next one.
THEOREM AlertsKeepTheirEvent == IncidentsSpec => AlertKeepsItsEvent
<1>1. IncidentsInit => AlertsAreHeld
  BY DEF IncidentsInit, Init, AlertsAreHeld, AlertIsHeld, HoldsAlert, Free, NewUpdater, NoCall
<1>2. PathInv /\ AlertsAreHeld /\ [IncidentsNext]_vars => AlertsAreHeld'
  BY AlertsNext
<1>3. PathInv /\ AlertsAreHeld /\ [IncidentsNext]_vars
      => [\A n \in Names :
            Send(n) /\ alert[n] # NoEvent /\ ~muted[n] => call[n].event = alert[n]]_vars
  BY DEF AlertsAreHeld, AlertIsHeld, HoldsAlert, Send, Free
<1> QED  BY <1>1, <1>2, <1>3, PathSafe, PTL DEF IncidentsSpec, AlertKeepsItsEvent
=============================================================================
