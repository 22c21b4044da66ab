---------------------------- MODULE RestartProofs ----------------------------
(***************************************************************************)
(* For any checks, thresholds and number of restarts: what incidents keep  *)
(* across restarts.                                                        *)
(***************************************************************************)
EXTENDS Restart, IncidentsProofs

USE MaintenanceAssumption, NoEventAssumption, MaxSequenceAssumption,
    ThresholdAssumption, ReportsAssumption, SilencesAssumption, MaxCommandsAssumption,
    MaxRestartsAssumption
USE DEF Names, MaybeEvent, Minted, InUse, Attached, Goto

-----------------------------------------------------------------------------
(* The inductive invariant, in four parts *)

\* TrackerInv of a saved state, judged by the events minted since.
RowIsSound(state) ==
  /\ state.maintenanceActive <=> state.eventIDs[Maintenance] # NoEvent
  /\ state.maintenanceActive => state.eventIDs[Maintenance] = state.maintenanceEventID
  /\ \A c \in state.maintenanceChecks :
       state.eventIDs[c] # NoEvent /\ state.eventIDs[c] = state.maintenanceEventID
  /\ \A n \in Names :
       state.eventIDs[n] # NoEvent => minter[state.eventIDs[n]] \in {n, Maintenance}
  /\ state.maintenanceEventID # NoEvent => minter[state.maintenanceEventID] = Maintenance
  /\ \A id \in EventIds \ Minted : state.sequences[id] = 0

\* The status says what the call under way is about.
StatusFollowsCall(n) ==
  /\ pc[n] = "new" => updater[n] = NewUpdater
  /\ ~Free(n) => (call[n].result = "passing" <=> updater[n].status = "passing")

\* Whatever was saved and loaded: a row is a state a tracker may be in, and
\* short of a displaced tracker nothing runs before a row that is there is read.
SoundInv ==
  /\ RestartTypeOK
  /\ CoreInv
  /\ \A state \in trackerRow : RowIsSound(state)
  /\ \A n \in Names : StatusFollowsCall(n)
  /\ ~loaded /\ ~displaced /\ trackerRow # {} => \A n \in Names : pc[n] = "new"

\* A failing check has its alert, at the latest when its call has sent, unless
\* it failed silently.
Announced(n) ==
  /\ pc[n] = "idle" /\ updater[n].status # "passing" /\ ~muted[n]
       => alert[n] # NoEvent /\ alert[n] = eventIDs[n]
  /\ ~Free(n) /\ call[n].result # "passing" => call[n].event # NoEvent
  /\ pc[n] \in {"acting", "clearing"} /\ call[n].result # "passing" /\ ~muted[n]
       => alert[n] = call[n].event

AnnouncedInv == CallsMatchTracker /\ \A n \in Names : Announced(n)

\* A passing check has no alert, at the latest when its call has sent, unless it
\* passed silently.  A check that is not registered yet is what its row says.
Resolved(n) ==
  ~muted[n] =>
    /\ pc[n] = "new" => /\ rows[n] = {} => alert[n] = NoEvent
                        /\ \A state \in rows[n] : state.status = "passing" => alert[n] = NoEvent
    /\ pc[n] = "idle" /\ updater[n].status = "passing" => alert[n] = NoEvent
    /\ pc[n] \in {"acting", "clearing"} /\ call[n].result = "passing" => alert[n] = NoEvent

\* An open alert is on the event its check is attached to, or was when the row
\* of the tracker was saved, or that its call resolves, unless its check passed
\* silently.
Lasting(n) ==
  alert[n] # NoEvent /\ ~muted[n] =>
    /\ pc[n] = "new" /\ ~loaded =>
         trackerRow # {} /\ \A state \in trackerRow : state.eventIDs[n] = alert[n]
    /\ pc[n] = "new" /\ loaded => eventIDs[n] = alert[n]
    /\ pc[n] = "idle" => eventIDs[n] = alert[n]
    /\ ~Free(n) => call[n].event = alert[n]

\* What IssuedAreCounted and EndedEventsAreForgotten say, of a saved state.
RowIsCounted(state) ==
  /\ \A number \in issued :
       (\E n \in Names : state.eventIDs[n] = number.event)
         => number.sequence <= state.sequences[number.event]
  /\ \A id \in EventIds :
       (\A n \in Names : state.eventIDs[n] # id) => state.sequences[id] = 0

LastingInv ==
  /\ PathInv
  /\ \A n \in Names : Lasting(n)
  /\ ~loaded => \A state \in trackerRow : RowIsCounted(state)

RestartsInv ==
  /\ SoundInv
  /\ ~displaced => AnnouncedInv
  /\ ~stale => \A n \in Names : Resolved(n)
  /\ ~stale /\ ~displaced => LastingInv

-----------------------------------------------------------------------------
(* What one step does to one check *)

\* The other checks are left alone.
OthersKeep(n) ==
  \A m \in Names \ {n} :
    /\ pc'[m] = pc[m] /\ call'[m] = call[m] /\ updater'[m] = updater[m]
    /\ alert'[m] = alert[m] /\ eventIDs'[m] = eventIDs[m] /\ muted'[m] = muted[m]

\* A result below its threshold changes no status.
OnlyCounted(n) ==
  /\ pc[n] = "idle"
  /\ UNCHANGED <<pc, call, alert, eventIDs, muted>>
  /\ updater'[n].status = updater[n].status

\* A call begins with an event: a failing check keeps the one it has.
Begins(n, result, id) ==
  /\ call'[n].result = result /\ call'[n].event = id
  /\ alert' = alert
  /\ eventIDs'[n] = IF result = "passing" THEN NoEvent ELSE id
  /\ result # "passing" => id # NoEvent
  /\ eventIDs[n] # NoEvent \/ result = "passing" => id = eventIDs[n]

\* A result at its threshold: without a notification the status is the old one,
\* or another failing one, or the check is muted.
Crossed(n, result, id) ==
  /\ pc[n] = "idle"
  /\ Begins(n, result, id)
  /\ updater'[n].status = result
  /\ \/ pc'[n] = "numbering"
     \/ pc'[n] = "acting" /\ (updater[n].status = "passing" <=> result = "passing")
     \/ pc'[n] = "acting" /\ muted'[n]
  /\ muted[n] => muted'[n]

\* A notification takes its number.
Numbered(n) ==
  /\ pc[n] = "numbering" /\ pc'[n] = "sending"
  /\ call'[n].result = call[n].result /\ call'[n].event = call[n].event
  /\ UNCHANGED <<updater, alert, eventIDs, muted>>

\* A notification is the last word on its check.
Sent(n) ==
  /\ pc[n] = "sending"
  /\ alert'[n] = IF call[n].result = "passing" THEN NoEvent ELSE call[n].event
  /\ UNCHANGED <<updater, eventIDs>> /\ ~muted'[n]
  /\ \/ pc'[n] = "idle" /\ call[n].result = "initializing"
     \/ pc'[n] = "acting" /\ call'[n] = call[n]

\* After its notification a call ends, or has a counter to clear.
Ended(n) ==
  /\ pc[n] \in {"acting", "clearing"}
  /\ UNCHANGED <<updater, alert, eventIDs, muted>>
  /\ \/ pc'[n] = "idle"
     \/ pc'[n] = "clearing" /\ call'[n] = call[n]

\* Everything a check that runs may do.
Runs(n) ==
  \/ OnlyCounted(n)
  \/ \E result \in Results, id \in MaybeEvent : Crossed(n, result, id)
  \/ Numbered(n) \/ Sent(n) \/ Ended(n)

\* A check is registered, and its call begins.
Begun(n, id) ==
  /\ pc[n] = "new" /\ pc'[n] = "numbering"
  /\ Begins(n, "initializing", id) /\ muted' = muted

\* The answer of the tracker begins a call.
LEMMA AsksBegins ==
  ASSUME CoreInv, NEW n \in Names, NEW result \in CallResults, NEW id \in MaybeEvent,
         Asks(n, result, id)
  PROVE  /\ Begins(n, result, id)
         /\ \A m \in Names \ {n} : eventIDs'[m] = eventIDs[m]
         /\ \A e \in Minted : minter'[e] = minter[e]
<1>1. /\ eventIDs' = [eventIDs EXCEPT ![n] = IF result = "passing" THEN NoEvent ELSE id]
      /\ result = "passing" => id = eventIDs[n]
      /\ result # "passing" => /\ id \in EventIds
                               /\ eventIDs[n] # NoEvent => id = eventIDs[n]
      /\ \A e \in Minted : minter'[e] = minter[e]
  BY AskFacts DEF Asks, CoreInv
<1> QED  BY <1>1, AsksCall, CoreTypes DEF Begins

\* A result does one of the first two.
LEMMA UpdateRuns ==
  ASSUME CoreInv, NEW n \in Names, NEW result \in Results,
         NEW disableNotification \in BOOLEAN, update(n, result, disableNotification)
  PROVE  /\ OthersKeep(n) /\ Runs(n)
         /\ \A e \in Minted : minter'[e] = minter[e]
<1>1. CASE CountResult(n, result)
  <2>1. /\ pc[n] = "idle"
        /\ updater' = [updater EXCEPT ![n] = Updated(updater[n], result)]
        /\ UNCHANGED <<pc, call, alert, eventIDs, minter, muted>>
    BY <1>1 DEF CountResult, trackerVars, historyVars
  <2>2. updater'[n].status = updater[n].status
    BY <1>1, <2>1, CoreTypes, UpdatedIsUpdater DEF CountResult
  <2> QED  BY <2>1, <2>2, CoreTypes DEF OthersKeep, Runs, OnlyCounted
<1>2. CASE CrossThreshold(n, result, disableNotification)
  <2>1. PICK id \in MaybeEvent :
          GetOrCreateEventID(n, result = "passing", id) /\ Calls(n, result, id)
    BY <1>2 DEF CrossThreshold
  <2> DEFINE flips == result = "passing" <=> updater[n].status # "passing"
             notifies == Notifies(updater[n], result, disableNotification)
  <2>2. /\ pc[n] = "idle" /\ Crosses(updater[n], result)
        /\ updater' = [updater EXCEPT ![n] = Updated(updater[n], result)]
        /\ pc' = [pc EXCEPT ![n] = IF notifies THEN "numbering" ELSE "acting"]
        /\ muted' = [muted EXCEPT ![n] = muted[n] \/ (disableNotification /\ flips)]
        /\ UNCHANGED <<commands, issued, alert>>
    BY <1>2 DEF CrossThreshold, Mutes
  <2>3. muted' \in [Names -> BOOLEAN]
    BY <2>2, CoreTypes
  <2>4. Asks(n, result, id) /\ result \in CallResults
    BY <2>1, <2>2, <2>3 DEF Asks, Free, CallResults
  <2>5. updater'[n].status = result
    BY <2>2, CoreTypes, UpdatedIsUpdater
  <2>6. /\ muted'[n] <=> muted[n] \/ (disableNotification /\ flips)
        /\ \A m \in Names \ {n} : muted'[m] = muted[m]
    BY <2>2, CoreTypes
  <2>7. ~notifies => ~flips \/ muted'[n]
    BY <2>2, <2>6 DEF Notifies
  <2>8. pc'[n] = IF notifies THEN "numbering" ELSE "acting"
    BY <2>2, CoreTypes
  <2>9. Crossed(n, result, id)
    BY <2>2, <2>4, <2>7, <2>8, <2>5, <2>6, AsksBegins DEF Crossed
  <2>10. /\ \A m \in Names \ {n} : eventIDs'[m] = eventIDs[m]
         /\ \A e \in Minted : minter'[e] = minter[e]
    BY <2>4, AsksBegins
  <2>11. ASSUME NEW m \in Names \ {n}
         PROVE  /\ pc'[m] = pc[m] /\ call'[m] = call[m]
                /\ updater'[m] = updater[m] /\ alert'[m] = alert[m]
    BY <2>1, <2>2, CoreTypes DEF Calls
  <2>12. OthersKeep(n)  BY <2>6, <2>10, <2>11 DEF OthersKeep
  <2>13. Runs(n)  BY <2>9 DEF Runs
  <2> QED  BY <2>10, <2>12, <2>13
<1> QED  BY <1>1, <1>2 DEF update

\* The rest of a call is one of the others.
LEMMA CallRuns ==
  ASSUME CoreInv, NEW n \in Names,
         Number(n) \/ Send(n) \/ SkipAction(n) \/ StartCommand(n) \/ Clear(n)
  PROVE  OthersKeep(n) /\ Runs(n) /\ UNCHANGED minter
<1>1. CASE Number(n)
  <2>1. PICK seq \in 0..MaxSequence :
          TakeNumber(call[n].event, seq) /\ call' = [call EXCEPT ![n].sequence = seq]
    BY <1>1 DEF Number
  <2>2. /\ pc[n] = "numbering" /\ pc' = [pc EXCEPT ![n] = "sending"]
        /\ UNCHANGED <<updater, alert, eventIDs, minter, muted>>
    BY <1>1, <2>1 DEF Number, TakeNumber, GetNextSequence, trackerVars, mapVars
  <2>3. Numbered(n)  BY <2>1, <2>2, CoreTypes DEF Numbered, CallTypes
  <2> QED  BY <2>1, <2>2, <2>3, CoreTypes DEF OthersKeep, Runs
<1>2. CASE Send(n)
  <2>1. /\ pc[n] = "sending"
        /\ alert' = [alert EXCEPT ![n] = IF call[n].result = "passing" THEN NoEvent
                                         ELSE call[n].event]
        /\ muted' = [muted EXCEPT ![n] = FALSE]
        /\ UNCHANGED <<updater, eventIDs, minter>>
    BY <1>2 DEF Send, trackerVars
  <2>2. \/ /\ call[n].result = "initializing"
           /\ pc' = [pc EXCEPT ![n] = "idle"] /\ call' = [call EXCEPT ![n] = NoCall]
        \/ pc' = [pc EXCEPT ![n] = "acting"] /\ call' = call
    BY <1>2 DEF Send, Return, Registering
  <2>3. Sent(n)  BY <2>1, <2>2, CoreTypes DEF Sent
  <2> QED  BY <2>1, <2>2, <2>3, CoreTypes DEF OthersKeep, Runs
<1>3. ASSUME pc[n] \in {"acting", "clearing"}, AfterActing(n) \/ Return(n),
             UNCHANGED <<updater, alert, eventIDs, minter, muted>>
      PROVE  OthersKeep(n) /\ Runs(n) /\ UNCHANGED minter
  <2>1. \/ pc' = [pc EXCEPT ![n] = "idle"] /\ call' = [call EXCEPT ![n] = NoCall]
        \/ pc' = [pc EXCEPT ![n] = "clearing"] /\ call' = call
    BY <1>3 DEF AfterActing, Return
  <2>2. Ended(n)  BY <1>3, <2>1, CoreTypes DEF Ended
  <2> QED  BY <1>3, <2>1, <2>2, CoreTypes DEF OthersKeep, Runs
<1>4. CASE SkipAction(n)
  BY <1>3, <1>4 DEF SkipAction, trackerVars, historyVars
<1>5. CASE Clear(n)
  BY <1>3, <1>5 DEF Clear, ClearSequence, trackerVars, mapVars, historyVars
<1>6. CASE StartCommand(n)
  BY <1>3, <1>6 DEF StartCommand, TakeNumber, GetNextSequence, trackerVars, mapVars
<1> QED  BY <1>1, <1>2, <1>4, <1>5, <1>6

\* A check that runs is a step of a call, and does what Runs says.
LEMMA RunFacts ==
  ASSUME CoreInv, NEW n \in Names, Handles(n)
  PROVE  /\ \A e \in Minted : minter'[e] = minter[e]
         /\ CallStep(n) /\ OthersKeep(n) /\ Runs(n)
<1>1. ASSUME NEW result \in Results, NEW disableNotification \in BOOLEAN,
             update(n, result, disableNotification)
      PROVE  /\ \A e \in Minted : minter'[e] = minter[e]
             /\ CallStep(n) /\ OthersKeep(n) /\ Runs(n)
  BY <1>1, UpdateRuns DEF CallStep
<1>2. CASE Number(n) \/ Send(n) \/ SkipAction(n) \/ StartCommand(n) \/ Clear(n)
  BY <1>2, CallRuns DEF CallStep
<1> QED  BY <1>1, <1>2 DEF Handles

-----------------------------------------------------------------------------
(* What running and registering keep for each check *)

\* What is said of the checks that are left alone stays true.
LEMMA OthersStay ==
  ASSUME NEW n \in Names, OthersKeep(n), NEW m \in Names \ {n}
  PROVE  /\ StatusFollowsCall(m) => StatusFollowsCall(m)'
         /\ Announced(m) => Announced(m)'
         /\ UNCHANGED rows /\ Resolved(m) => Resolved(m)'
         /\ UNCHANGED <<trackerRow, loaded>> /\ Lasting(m) => Lasting(m)'
BY DEF OthersKeep, StatusFollowsCall, Announced, Resolved, Lasting, Free

\* A call is about what the status has become.
LEMMA RunsStatus ==
  ASSUME NEW n \in Names, CoreInv, StatusFollowsCall(n), Runs(n)
  PROVE  StatusFollowsCall(n)'
<1>1. CASE OnlyCounted(n)
  BY <1>1, CoreTypes DEF OnlyCounted, StatusFollowsCall, Free
<1>2. ASSUME NEW result \in Results, NEW id \in MaybeEvent, Crossed(n, result, id)
      PROVE  StatusFollowsCall(n)'
  BY <1>2 DEF Crossed, Begins, StatusFollowsCall, Free
<1>3. CASE Numbered(n) \/ Sent(n) \/ Ended(n)
  BY <1>3 DEF Numbered, Sent, Ended, StatusFollowsCall, Free
<1> QED  BY <1>1, <1>2, <1>3 DEF Runs

\* A failing check has its alert: a result without a notification only repeats
\* a status, and so finds the alert where the check is attached.
LEMMA RunsAnnounced ==
  ASSUME NEW n \in Names, CallsMatchTracker, StatusFollowsCall(n), Announced(n), Runs(n)
  PROVE  Announced(n)'
<1>1. CASE OnlyCounted(n)
  BY <1>1 DEF OnlyCounted, Announced, Free
<1>2. ASSUME NEW result \in Results, NEW id \in MaybeEvent, Crossed(n, result, id)
      PROVE  Announced(n)'
  BY <1>2 DEF Crossed, Begins, Announced, Free
<1>3. CASE Numbered(n)
  BY <1>3 DEF Numbered, Announced, Free
<1>4. CASE Sent(n) \/ Ended(n)
  <2>1. ~Free(n) /\ pc[n] \notin {"new", "idle"}  BY <1>4 DEF Sent, Ended, Free
  <2>2. IF call[n].result = "passing"
        THEN updater[n].status = "passing"
        ELSE /\ updater[n].status # "passing"
             /\ call[n].event = eventIDs[n] /\ call[n].event # NoEvent
    BY <2>1 DEF StatusFollowsCall, CallsMatchTracker, Announced
  <2> QED  BY <1>4, <2>1, <2>2 DEF Sent, Ended, Announced, Free
<1> QED  BY <1>1, <1>2, <1>3, <1>4 DEF Runs

\* A passing check has no alert: a resolution without a notification only
\* repeats that the check passes.
LEMMA RunsResolved ==
  ASSUME NEW n \in Names, StatusFollowsCall(n), Resolved(n), Runs(n)
  PROVE  Resolved(n)'
<1>1. CASE OnlyCounted(n)
  BY <1>1 DEF OnlyCounted, Resolved
<1>2. ASSUME NEW result \in Results, NEW id \in MaybeEvent, Crossed(n, result, id)
      PROVE  Resolved(n)'
  BY <1>2 DEF Crossed, Begins, Resolved
<1>3. CASE Numbered(n)
  BY <1>3 DEF Numbered, Resolved
<1>4. CASE Sent(n) \/ Ended(n)
  <2>1. ~Free(n)  BY <1>4 DEF Sent, Ended, Free
  <2> QED  BY <1>4, <2>1 DEF Sent, Ended, Resolved, StatusFollowsCall
<1> QED  BY <1>1, <1>2, <1>3, <1>4 DEF Runs

\* An open alert stays on its event: a failing check keeps the event it is
\* attached to, and a resolution is about the event the check leaves.
LEMMA RunsLasting ==
  ASSUME NEW n \in Names, CallsMatchTracker, StatusFollowsCall(n), Resolved(n),
         Lasting(n), Runs(n)
  PROVE  Lasting(n)'
<1>1. CASE OnlyCounted(n)
  BY <1>1 DEF OnlyCounted, Lasting, Free
<1>2. ASSUME NEW result \in Results, NEW id \in MaybeEvent, Crossed(n, result, id)
      PROVE  Lasting(n)'
  BY <1>2 DEF Crossed, Begins, Lasting, Free
<1>3. CASE Numbered(n)
  BY <1>3 DEF Numbered, Lasting, Free
<1>4. CASE Sent(n) \/ Ended(n)
  <2>1. ~Free(n) /\ pc[n] \notin {"new", "idle"}  BY <1>4 DEF Sent, Ended, Free
  <2>2. call[n].result # "passing" => eventIDs[n] = call[n].event
    BY <2>1 DEF CallsMatchTracker
  <2>3. ~muted[n] /\ pc[n] \in {"acting", "clearing"} /\ call[n].result = "passing"
          => alert[n] = NoEvent
    BY DEF Resolved
  <2> QED  BY <1>4, <2>1, <2>2, <2>3 DEF Sent, Ended, Lasting, Free
<1> QED  BY <1>1, <1>2, <1>3, <1>4 DEF Runs

\* A registration, or the repeated alert of a restored failure, begins like a
\* failing result.
LEMMA BegunStays ==
  ASSUME NEW n \in Names, NEW id \in MaybeEvent, Begun(n, id),
         updater'[n].status # "passing"
  PROVE  /\ StatusFollowsCall(n)' /\ Announced(n)' /\ Resolved(n)'
         /\ Lasting(n) /\ (loaded \/ trackerRow = {}) => Lasting(n)'
BY DEF Begun, Begins, StatusFollowsCall, Announced, Resolved, Lasting, Free

-----------------------------------------------------------------------------
(* Checks that run and are registered *)

\* A saved state stays sound, and counted while no number is issued: events
\* are only ever added.
LEMMA RowsStay ==
  ASSUME RestartTypeOK, \A e \in Minted : minter'[e] = minter[e],
         minter' \in [EventIds -> Names \cup {NoEvent}],
         NEW state \in TrackerStates, RowIsSound(state)
  PROVE  RowIsSound(state)'
<1>1. \A e \in EventIds : e \notin Minted' => e \notin Minted
  OBVIOUS
<1>2. \A n \in Names : state.eventIDs[n] \in MaybeEvent
      /\ state.maintenanceEventID \in MaybeEvent
  BY DEF TrackerStates
<1>3. \A n \in Names : state.eventIDs[n] # NoEvent => state.eventIDs[n] \in Minted
  BY <1>2 DEF RowIsSound
<1>4. state.maintenanceEventID # NoEvent => state.maintenanceEventID \in Minted
  BY <1>2 DEF RowIsSound
<1> QED  BY <1>1, <1>3, <1>4 DEF RowIsSound

\* The frame of a step that neither saves nor loads.
Proceeds(n) ==
  /\ OthersKeep(n)
  /\ UNCHANGED <<rowVars, loaded, saving, copied, restarts>>
  /\ \A e \in Minted : minter'[e] = minter[e]
  /\ stale' \in BOOLEAN /\ (~stale' => ~stale)
  /\ displaced' \in BOOLEAN
  /\ ~displaced' => ~displaced /\ (loaded \/ trackerRow = {})

\* What is left to show of such a step is what it does to its own check, and
\* what becomes of the counters.
LEMMA ProceedsInv ==
  ASSUME RestartsInv, NEW n \in Names, Proceeds(n), CoreInv',
         StatusFollowsCall(n)',
         ~displaced' => CallsMatchTracker' /\ Announced(n)',
         ~stale' => Resolved(n)',
         ~stale' /\ ~displaced' => PathInv' /\ Lasting(n)'
  PROVE  RestartsInv'
<1>0. SoundInv  BY DEF RestartsInv
<1>1. SoundInv'
  <2>1. RestartTypeOK'
    BY <1>0 DEF SoundInv, RestartTypeOK, CoreInv, Proceeds, rowVars
  <2>2. \A state \in trackerRow' : RowIsSound(state)'
    <3>1. minter' \in [EventIds -> Names \cup {NoEvent}]
      BY DEF CoreInv, TrackerInv, TypeOK
    <3> QED
      BY <1>0, <3>1, RowsStay DEF SoundInv, RestartTypeOK, Proceeds, rowVars
  <2>3. \A m \in Names : StatusFollowsCall(m)'
    BY <1>0, OthersStay DEF SoundInv, Proceeds
  <2>4. ~loaded' /\ ~displaced' => trackerRow' = {}
    BY DEF Proceeds, rowVars
  <2> QED  BY <2>1, <2>2, <2>3, <2>4 DEF SoundInv
<1>2. ~displaced' => AnnouncedInv'
  BY OthersStay DEF RestartsInv, AnnouncedInv, Proceeds
<1>3. ~stale' => \A m \in Names : Resolved(m)'
  BY OthersStay DEF RestartsInv, Proceeds, rowVars
<1>4. ASSUME ~stale', ~displaced' PROVE LastingInv'
  <2>1. LastingInv  BY <1>4 DEF RestartsInv, Proceeds
  <2>2. \A m \in Names : Lasting(m)'
    BY <1>4, <2>1, OthersStay DEF LastingInv, Proceeds, rowVars
  <2>3. ~loaded' => trackerRow' = {}
    BY <1>4 DEF Proceeds, rowVars
  <2> QED  BY <1>4, <2>2, <2>3 DEF LastingInv
<1> QED  BY <1>1, <1>2, <1>3, <1>4 DEF RestartsInv

\* Whatever a check reports.  Nothing runs before a row that is there is read,
\* unless the tracker is displaced.
LEMMA RunInv ==
  ASSUME RestartsInv, NEW n \in Names, Handles(n), UNCHANGED <<rowVars, processVars>>
  PROVE  RestartsInv'
<1>0. SoundInv /\ CoreInv  BY DEF RestartsInv, SoundInv
<1>1. CallStep(n) /\ OthersKeep(n) /\ Runs(n)
  BY <1>0, RunFacts
<1>2. \A e \in Minted : minter'[e] = minter[e]
  BY <1>0, RunFacts
<1>3. CoreInv' /\ (CallsMatchTracker => CallsMatchTracker')
  BY <1>0, <1>1, CoreNext
<1>4. pc[n] # "new"
  BY <1>1 DEF Runs, OnlyCounted, Crossed, Numbered, Sent, Ended
<1>5. Proceeds(n)
  BY <1>0, <1>1, <1>2, <1>4 DEF Proceeds, SoundInv, RestartTypeOK, rowVars, processVars
<1>6. StatusFollowsCall(n) /\ StatusFollowsCall(n)'
  BY <1>0, <1>1, RunsStatus DEF SoundInv
<1>7. ~displaced' => CallsMatchTracker' /\ Announced(n)'
  BY <1>1, <1>3, <1>5, <1>6, RunsAnnounced DEF RestartsInv, AnnouncedInv, Proceeds
<1>8. ~stale' => Resolved(n)'
  BY <1>1, <1>5, <1>6, RunsResolved DEF RestartsInv, Proceeds
<1>9. ~stale' /\ ~displaced' => PathInv' /\ Lasting(n)'
  BY <1>1, <1>5, <1>6, PathStep, RunsLasting
  DEF RestartsInv, LastingInv, AnnouncedInv, Proceeds
<1> QED  BY <1>3, <1>5, <1>6, <1>7, <1>8, <1>9, ProceedsInv

\* Both kinds of registration ask for an event.
LEMMA BegunInv ==
  ASSUME RestartsInv, NEW n \in Names, NEW id \in MaybeEvent,
         Registers, ~stale' => ~stale, stale' \in BOOLEAN,
         pc[n] = "new", Goto(n, "numbering"),
         GetOrCreateEventID(n, FALSE, id), Calls(n, "initializing", id),
         updater' \in [Names -> Updaters], updater'[n].status # "passing",
         \A m \in Names \ {n} : updater'[m] = updater[m]
  PROVE  RestartsInv'
<1>0. SoundInv /\ CoreInv  BY DEF RestartsInv, SoundInv
<1>1. "initializing" \in CallResults  BY DEF CallResults
<1>2. Asks(n, "initializing", id)
  BY <1>0, CoreTypes DEF Asks, Free, Registers, historyVars
<1>3. CoreInv' /\ (CallsMatchTracker => CallsMatchTracker')
  BY <1>0, <1>1, <1>2, AsksCore
<1>4. /\ Begins(n, "initializing", id)
      /\ \A m \in Names \ {n} : eventIDs'[m] = eventIDs[m]
      /\ \A e \in Minted : minter'[e] = minter[e]
  BY <1>0, <1>1, <1>2, AsksBegins
<1>5. /\ call' = [call EXCEPT ![n] = [result |-> "initializing", event |-> id, sequence |-> 0]]
      /\ UNCHANGED <<alert, muted>>
  BY <1>0, <1>1, <1>2, AsksCall DEF Registers, historyVars
<1>6. Begun(n, id)  BY <1>0, <1>4, <1>5, CoreTypes DEF Begun
<1>7. OthersKeep(n)  BY <1>0, <1>4, <1>5, CoreTypes DEF OthersKeep
<1>8. Proceeds(n)
  BY <1>0, <1>4, <1>7 DEF Proceeds, Registers, rowVars, SoundInv, RestartTypeOK
<1>9. ~stale' /\ ~displaced' => PathInv' /\ Lasting(n)'
  BY <1>1, <1>2, <1>6, <1>8, AsksInv, BegunStays DEF RestartsInv, LastingInv, Proceeds
<1>10. ~displaced' => CallsMatchTracker'
  BY <1>3, <1>8 DEF RestartsInv, AnnouncedInv, Proceeds
<1> QED  BY <1>3, <1>6, <1>8, <1>9, <1>10, BegunStays, ProceedsInv

\* A check for which nothing is loaded starts as critical and is announced.
LEMMA RegisterNewInv ==
  ASSUME RestartsInv, NEW n \in Names, NEW found, RegisterNew(n, found)
  PROVE  RestartsInv'
<1>0. SoundInv /\ CoreInv  BY DEF RestartsInv, SoundInv
<1>1. PICK id \in MaybeEvent :
        GetOrCreateEventID(n, FALSE, id) /\ Calls(n, "initializing", id)
  BY DEF RegisterNew, Register
<1>2. /\ pc[n] = "new" /\ Goto(n, "numbering") /\ UNCHANGED updater
      /\ stale' = (stale \/ rows[n] # {}) /\ Registers
  BY DEF RegisterNew, Register
<1>3. updater[n].status # "passing"
  BY <1>0, <1>2 DEF SoundInv, StatusFollowsCall, NewUpdater
<1>4. updater \in [Names -> Updaters] /\ stale \in BOOLEAN
  BY <1>0, CoreTypes DEF SoundInv, RestartTypeOK
<1> QED  BY <1>1, <1>2, <1>3, <1>4, BegunInv

\* A check with a row: a failure is announced again, a success is not.
LEMMA RegisterRestoredInv ==
  ASSUME RestartsInv, NEW n \in Names, NEW found \in LoadCheckState(n),
         RegisterRestored(n, found)
  PROVE  RestartsInv'
<1>0. SoundInv /\ CoreInv /\ StatusFollowsCall(n)  BY DEF RestartsInv, SoundInv
<1>1. PICK state \in found :
        /\ updater' = [updater EXCEPT ![n] = Restored(state)]
        /\ IF state.status \in Failing
           THEN Announce(n)
           ELSE Goto(n, "idle") /\ UNCHANGED <<trackerVars, call>>
  BY DEF RegisterRestored
<1>2. state \in rows[n] /\ state \in CheckStates
  BY <1>0 DEF LoadCheckState, SoundInv, RestartTypeOK
<1>3. /\ updater' \in [Names -> Updaters] /\ updater'[n].status = state.status
      /\ \A m \in Names \ {n} : updater'[m] = updater[m]
  BY <1>0, <1>1, <1>2, CoreTypes DEF Restored, CheckStates, Updaters
<1>4. pc[n] = "new" /\ Registers /\ UNCHANGED stale /\ stale \in BOOLEAN
  BY <1>0 DEF RegisterRestored, SoundInv, RestartTypeOK
<1>5. CASE state.status \in Failing
  <2>1. PICK id \in MaybeEvent :
          GetOrCreateEventID(n, FALSE, id) /\ Calls(n, "initializing", id)
    BY <1>1, <1>5 DEF Announce
  <2>2. Goto(n, "numbering")  BY <1>1, <1>5 DEF Announce
  <2> QED  BY <1>3, <1>4, <1>5, <2>1, <2>2, BegunInv DEF Failing
<1>6. CASE state.status \notin Failing
  <2>1. /\ pc' = [pc EXCEPT ![n] = "idle"] /\ UNCHANGED <<trackerVars, call>>
        /\ UNCHANGED <<commands, historyVars>>
        /\ updater'[n].status = "passing"
    BY <1>1, <1>2, <1>3, <1>4, <1>6 DEF Failing, CheckStates, Registers
  <2>2. UNCHANGED <<eventIDs, sequences, minter, alert, issued, muted>>
    BY <2>1 DEF trackerVars, historyVars
  <2>3. pc'[n] = "idle" /\ \A m \in Names \ {n} : pc'[m] = pc[m]
    BY <1>0, <2>1, CoreTypes
  <2>4. CoreInv'
    <3>1. TrackerInv'  BY <1>0, <2>1, UnchangedInv DEF CoreInv
    <3>2. IncidentsTypeOK'
      BY <1>0, <1>3, <2>1, <2>2, <3>1 DEF CoreInv, IncidentsTypeOK, TrackerInv
    <3> QED
      BY <1>0, <1>4, <2>1, <2>2, <2>3, <3>1, <3>2
      DEF CoreInv, CallsAreOwn, IssuedAreMinted, Free
  <2>5. OthersKeep(n)  BY <1>3, <2>1, <2>2, <2>3 DEF OthersKeep
  <2>6. Proceeds(n)
    BY <1>0, <1>4, <2>2, <2>5
    DEF Proceeds, Registers, rowVars, SoundInv, RestartTypeOK
  <2>7. StatusFollowsCall(n)' /\ Announced(n)'
    BY <2>1, <2>3 DEF StatusFollowsCall, Announced, Free
  <2>8. CallsMatchTracker => CallsMatchTracker'
    BY <2>1, <2>2, <2>3 DEF CallsMatchTracker
  <2>9. ~stale' => Resolved(n)'
    BY <1>2, <1>4, <2>2, <2>3, <1>6 DEF RestartsInv, Resolved, Failing, CheckStates
  <2>10. ASSUME ~stale', ~displaced' PROVE PathInv' /\ Lasting(n)'
    <3>1. LastingInv  BY <2>6, <2>10 DEF RestartsInv, Proceeds
    <3>2. PathInv'
      BY <2>1, <2>2, <2>4, <2>8, <3>1
      DEF LastingInv, PathInv, Counts, IssuedAreCounted, EndedEventsAreForgotten
    <3>3. loaded \/ trackerRow = {}  BY <2>6, <2>10 DEF Proceeds
    <3>4. Lasting(n)'
      BY <1>4, <2>2, <2>3, <3>1, <3>3 DEF LastingInv, Lasting, Free
    <3> QED  BY <3>2, <3>4
  <2> QED
    BY <2>4, <2>6, <2>7, <2>8, <2>9, <2>10, ProceedsInv
    DEF RestartsInv, AnnouncedInv, Proceeds
<1> QED  BY <1>5, <1>6

-----------------------------------------------------------------------------
(* SaveState *)

\* Saving looks only: the rows are all that changes.  Nor does the end of a
\* command change what the invariants speak of.
LEMMA SavingKeeps ==
  ASSUME UNCHANGED <<trackerVars, callVars, historyVars, loaded, stale, displaced>>,
         commands' \subseteq commands
  PROVE  /\ UNCHANGED <<eventIDs, sequences, minter, pc, call, updater, alert, issued, muted>>
         /\ CoreInv => CoreInv'
         /\ CallsMatchTracker => CallsMatchTracker'
         /\ PathInv => PathInv'
         /\ \A n \in Names : /\ StatusFollowsCall(n) => StatusFollowsCall(n)'
                             /\ Announced(n) => Announced(n)'
         /\ \A state : /\ RowIsSound(state) => RowIsSound(state)'
                       /\ RowIsCounted(state) => RowIsCounted(state)'
<1>2. UNCHANGED <<eventIDs, sequences, minter, pc, call, updater, alert, issued, muted>>
  BY DEF trackerVars, callVars, historyVars
<1>3. /\ CoreInv => CoreInv' /\ (CallsMatchTracker => CallsMatchTracker')
      /\ CoreInv /\ PathInv => PathInv'
  <2>1. ASSUME CoreInv PROVE updater' \in [Names -> Updaters]
    BY <1>2, <2>1, CoreTypes
  <2>2. UNCHANGED <<trackerVars, pc, call, historyVars>>  BY <1>2
  <2> QED  BY <2>1, <2>2, RestInv
<1>4. CallsMatchTracker => CallsMatchTracker'
  BY <1>2 DEF CallsMatchTracker
<1>5. PathInv => CoreInv  BY DEF PathInv
<1> QED
  BY <1>2, <1>3, <1>4, <1>5
  DEF StatusFollowsCall, Announced, Free, RowIsSound, RowIsCounted

\* The tracker that is saved is one a tracker may be.
LEMMA SaveTrackerInv == ASSUME RestartsInv, SaveTracker PROVE RestartsInv'
<1>0. SoundInv /\ CoreInv  BY DEF RestartsInv, SoundInv
<1>1. /\ loaded /\ trackerRow' = {TrackerState}
      /\ UNCHANGED <<vars, rows, loaded, copied, restarts, stale, displaced>>
      /\ saving' \in BOOLEAN
  BY DEF SaveTracker
<1>2. /\ UNCHANGED <<eventIDs, sequences, minter, pc, call, updater, alert, issued, muted>>
      /\ CoreInv' /\ \A n \in Names : StatusFollowsCall(n)'
  BY <1>0, <1>1, SavingKeeps DEF SoundInv, vars
<1>3. TrackerState \in TrackerStates /\ RowIsSound(TrackerState)
  BY <1>0 DEF CoreInv, TrackerInv, TypeOK, TrackerState, TrackerStates, RowIsSound,
              WindowIsHeld, ListedChecksAreAttached, OwnOrMaintenanceEvent,
              MaintenanceEventIsMinted, UnmintedUncounted
<1>4. SoundInv'
  <2>1. RestartTypeOK'
    BY <1>0, <1>1, <1>2, <1>3 DEF SoundInv, RestartTypeOK, CoreInv
  <2>2. \A state \in trackerRow' : RowIsSound(state)'
    BY <1>1, <1>3, SavingKeeps DEF vars
  <2> QED  BY <1>1, <1>2, <2>1, <2>2 DEF SoundInv
<1>5. ~displaced' => AnnouncedInv'
  BY <1>1, SavingKeeps DEF RestartsInv, AnnouncedInv, vars
<1>6. ~stale' => \A n \in Names : Resolved(n)'
  BY <1>1, <1>2 DEF RestartsInv, Resolved
<1>7. ~stale' /\ ~displaced' => LastingInv'
  <2>1. ASSUME LastingInv PROVE LastingInv'
    BY <1>1, <1>2, <2>1, SavingKeeps DEF LastingInv, Lasting, Free, vars
  <2> QED  BY <1>1, <2>1 DEF RestartsInv
<1> QED  BY <1>4, <1>5, <1>6, <1>7 DEF RestartsInv

\* The rest of SaveState writes rows of checks that are registered.
LEMMA SaveChecksInv ==
  ASSUME RestartsInv, SaveNoCheck \/ \E n \in Names : SaveCheck(n)
  PROVE  RestartsInv'
<1>0. SoundInv /\ CoreInv  BY DEF RestartsInv, SoundInv
<1>1. /\ UNCHANGED <<vars, trackerRow, loaded, restarts, stale, displaced>>
      /\ saving' \in BOOLEAN /\ copied' \subseteq Names
  BY <1>0 DEF SaveNoCheck, SaveCheck, rowVars, SoundInv, RestartTypeOK
<1>2. /\ UNCHANGED <<eventIDs, sequences, minter, pc, call, updater, alert, issued, muted>>
      /\ CoreInv' /\ \A n \in Names : StatusFollowsCall(n)'
  BY <1>0, <1>1, SavingKeeps DEF SoundInv, vars
<1>3. /\ rows' \in [Names -> SUBSET CheckStates]
      /\ \A n \in Names : pc[n] = "new" => rows'[n] = rows[n]
  <2>1. CASE SaveNoCheck
    BY <1>0, <2>1 DEF SaveNoCheck, rowVars, SoundInv, RestartTypeOK
  <2>2. ASSUME NEW n \in Names, SaveCheck(n)
        PROVE  /\ rows' \in [Names -> SUBSET CheckStates]
               /\ \A m \in Names : pc[m] = "new" => rows'[m] = rows[m]
    <3>1. CheckState(n) \in CheckStates
      BY <1>0, CoreTypes DEF CheckState, CheckStates, Updaters
    <3>2. rows' = [rows EXCEPT ![n] = {CheckState(n)}] /\ pc[n] = "idle"
      BY <2>2 DEF SaveCheck
    <3> QED  BY <1>0, <3>1, <3>2 DEF SoundInv, RestartTypeOK
  <2> QED  BY <2>1, <2>2
<1>4. SoundInv'
  <2>1. RestartTypeOK'
    BY <1>0, <1>1, <1>2, <1>3 DEF SoundInv, RestartTypeOK, CoreInv
  <2>2. \A state \in trackerRow' : RowIsSound(state)'
    BY <1>0, <1>1, SavingKeeps DEF SoundInv, vars
  <2> QED  BY <1>0, <1>1, <1>2, <2>1, <2>2 DEF SoundInv
<1>5. ~displaced' => AnnouncedInv'
  BY <1>1, SavingKeeps DEF RestartsInv, AnnouncedInv, vars
<1>6. ~stale' => \A n \in Names : Resolved(n)'
  BY <1>1, <1>2, <1>3 DEF RestartsInv, Resolved
<1>7. ~stale' /\ ~displaced' => LastingInv'
  <2>1. ASSUME LastingInv PROVE LastingInv'
    BY <1>1, <1>2, <2>1, SavingKeeps DEF LastingInv, Lasting, Free, vars
  <2> QED  BY <1>1, <2>1 DEF RestartsInv
<1> QED  BY <1>4, <1>5, <1>6, <1>7 DEF RestartsInv

-----------------------------------------------------------------------------
(* Stop and start *)

\* The process that starts has nothing; what was open when everything was
\* saved is in the rows.
LEMMA NextProcessInv == ASSUME RestartsInv, Restart PROVE RestartsInv'
<1>0. SoundInv /\ CoreInv  BY DEF RestartsInv, SoundInv
<1>1. /\ UNCHANGED <<minter, issued, alert, muted, trackerRow, rows, displaced>>
      /\ eventIDs' = [n \in Names |-> NoEvent]
      /\ sequences' = [id \in EventIds |-> 0]
      /\ maintenanceEventID' = NoEvent /\ maintenanceActive' = FALSE
      /\ maintenanceChecks' = {}
      /\ updater' = [n \in Names |-> NewUpdater]
      /\ pc' = [n \in Names |-> "new"]
      /\ call' = [n \in Names |-> NoCall]
      /\ commands' = {}
      /\ stale' = (stale \/ ~AllSaved) /\ loaded' = FALSE
  BY DEF Restart, historyVars, rowVars
<1>2. CoreInv'
  <2>1. TrackerInv'
    BY <1>0, <1>1 DEF CoreInv, TrackerInv, TypeOK, WindowIsHeld, ListedChecksAreAttached,
                      OwnOrMaintenanceEvent, MaintenanceEventIsMinted, UnmintedUncounted
  <2>2. NewUpdater \in Updaters  BY DEF NewUpdater, Updaters, Results
  <2>3. IncidentsTypeOK'
    BY <1>0, <1>1, <2>1, <2>2 DEF CoreInv, IncidentsTypeOK, TrackerInv, NoCall
  <2> QED
    BY <1>0, <1>1, <2>1, <2>3 DEF CoreInv, CallsAreOwn, IssuedAreMinted, NoCall
<1>3. SoundInv'
  <2>1. RestartTypeOK'
    <3>1. restarts' \in 0..MaxRestarts /\ saving' = FALSE /\ copied' = {}
      BY <1>0 DEF Restart, SoundInv, RestartTypeOK
    <3> QED  BY <1>0, <1>1, <1>2, <3>1 DEF SoundInv, RestartTypeOK, CoreInv
  <2>2. \A state \in trackerRow' : RowIsSound(state)'
    BY <1>0, <1>1 DEF SoundInv, RowIsSound
  <2> QED  BY <1>1, <1>2, <2>1, <2>2 DEF SoundInv, StatusFollowsCall, Free
<1>4. ~displaced' => AnnouncedInv'
  BY <1>1 DEF AnnouncedInv, CallsMatchTracker, Announced, Free
<1>5. ASSUME ~stale', NEW n \in Names PROVE Resolved(n)'
  <2>1. /\ Resolved(n)
        /\ \/ pc[n] = "idle" /\ rows[n] = {CheckState(n)}
           \/ pc[n] = "new" /\ rows[n] = {}
    BY <1>1, <1>5 DEF RestartsInv, AllSaved
  <2>2. CheckState(n).status = updater[n].status  BY DEF CheckState
  <2> QED  BY <1>1, <2>1, <2>2 DEF Resolved
<1>6. ASSUME ~stale', ~displaced' PROVE LastingInv'
  <2>1. LastingInv /\ trackerRow = {TrackerState} /\ \A n \in Names : Free(n)
    BY <1>1, <1>6 DEF RestartsInv, AllSaved, Free
  <2>2. TrackerState.eventIDs = eventIDs /\ TrackerState.sequences = sequences
    BY DEF TrackerState
  <2>3. \A n \in Names : Lasting(n)'
    BY <1>1, <2>1, <2>2 DEF LastingInv, Lasting, Free
  <2>4. \A n \in Names : call[n].event = NoEvent
    BY <1>0, <2>1 DEF CoreInv, CallsAreOwn, NoCall
  <2>5. \A state \in trackerRow' : RowIsCounted(state)'
    <3>1. \A number \in issued :
            (\E n \in Names : eventIDs[n] = number.event)
              => number.sequence <= sequences[number.event]
      BY <1>0, <2>1 DEF LastingInv, PathInv, IssuedAreCounted, CoreInv, IssuedAreMinted, Counts
    <3>2. \A id \in EventIds : (\A n \in Names : eventIDs[n] # id) => sequences[id] = 0
      BY <2>1, <2>4 DEF LastingInv, PathInv, EndedEventsAreForgotten
    <3> QED  BY <1>1, <2>1, <2>2, <3>1, <3>2 DEF RowIsCounted
  <2>6. PathInv'
    BY <1>0, <1>1, <1>2
    DEF PathInv, CallsMatchTracker, IssuedAreCounted, Counts, EndedEventsAreForgotten,
        CoreInv, IssuedAreMinted, NoCall
  <2> QED  BY <2>3, <2>5, <2>6 DEF LastingInv
<1> QED  BY <1>3, <1>4, <1>5, <1>6 DEF RestartsInv

\* New reads the row before any check is registered, or displaces what the
\* tracker holds.
LEMMA LoadTrackerInv == ASSUME RestartsInv, LoadTracker PROVE RestartsInv'
<1>0. SoundInv /\ CoreInv  BY DEF RestartsInv, SoundInv
<1>1. PICK found \in LoadEventTrackerState :
        /\ stale' = (stale \/ found # trackerRow)
        /\ \/ found = {} /\ UNCHANGED trackerVars
           \/ \E state \in found : RestoreTracker(state)
  BY DEF LoadTracker
<1>2. /\ ~loaded /\ loaded' = TRUE
      /\ UNCHANGED <<updater, pc, call, commands, issued, alert, muted, trackerRow, rows,
                     saving, copied, restarts, displaced>>
  BY DEF LoadTracker, callVars, historyVars, rowVars
<1>3. /\ UNCHANGED minter /\ TrackerInv'
      /\ \/ UNCHANGED <<eventIDs, sequences>> /\ found = {}
         \/ \E state \in trackerRow : /\ eventIDs' = state.eventIDs
                                      /\ sequences' = state.sequences
  <2>1. CASE found = {} /\ UNCHANGED trackerVars
    BY <1>0, <2>1, UnchangedInv DEF CoreInv, trackerVars
  <2>2. ASSUME NEW state \in found, RestoreTracker(state)
        PROVE  /\ state \in trackerRow /\ UNCHANGED minter /\ TrackerInv'
               /\ eventIDs' = state.eventIDs /\ sequences' = state.sequences
    <3>1. state \in trackerRow /\ state \in TrackerStates /\ RowIsSound(state)
      BY <1>0 DEF LoadEventTrackerState, SoundInv, RestartTypeOK
    <3>2. TypeOK'
      BY <1>0, <2>2, <3>1 DEF RestoreTracker, TrackerStates, CoreInv, TrackerInv, TypeOK
    <3> QED
      BY <2>2, <3>1, <3>2
      DEF RestoreTracker, RowIsSound, TrackerInv, WindowIsHeld, ListedChecksAreAttached,
          OwnOrMaintenanceEvent, MaintenanceEventIsMinted, UnmintedUncounted
  <2> QED  BY <1>1, <2>1, <2>2
<1>4. CoreInv'
  BY <1>0, <1>2, <1>3
  DEF CoreInv, IncidentsTypeOK, TrackerInv, CallsAreOwn, Free, IssuedAreMinted
<1>5. SoundInv'
  <2>1. RestartTypeOK'
    BY <1>0, <1>1, <1>2, <1>4 DEF SoundInv, RestartTypeOK, CoreInv
  <2> QED
    BY <1>0, <1>2, <1>3, <1>4, <2>1 DEF SoundInv, RowIsSound, StatusFollowsCall, Free
<1>6. trackerRow # {} /\ ~displaced => \A n \in Names : pc[n] = "new"
  BY <1>0, <1>2 DEF SoundInv
<1>7. ASSUME ~displaced' PROVE AnnouncedInv'
  <2>1. CASE UNCHANGED <<eventIDs, sequences>>
    BY <1>2, <1>7, <2>1 DEF RestartsInv, AnnouncedInv, CallsMatchTracker, Announced, Free
  <2>2. CASE trackerRow # {}
    BY <1>2, <1>6, <1>7, <2>2 DEF AnnouncedInv, CallsMatchTracker, Announced, Free
  <2> QED  BY <1>3, <2>1, <2>2
<1>8. ~stale' => \A n \in Names : Resolved(n)'
  BY <1>1, <1>2 DEF RestartsInv, Resolved
<1>9. ASSUME ~stale', ~displaced' PROVE LastingInv'
  <2>0. LastingInv /\ found = trackerRow  BY <1>1, <1>2, <1>9 DEF RestartsInv
  <2>1. CASE trackerRow = {}
    <3>1. UNCHANGED <<eventIDs, sequences>>  BY <1>3, <2>1
    <3>2. \A n \in Names : Lasting(n)'
      BY <1>2, <2>0, <2>1, <3>1 DEF LastingInv, Lasting, Free
    <3>3. PathInv'
      BY <1>2, <1>3, <1>4, <2>0, <3>1
      DEF LastingInv, PathInv, CallsMatchTracker, Counts, IssuedAreCounted,
          EndedEventsAreForgotten
    <3> QED  BY <1>2, <3>2, <3>3 DEF LastingInv
  <2>2. CASE trackerRow # {}
    <3>0. PICK state \in trackerRow : eventIDs' = state.eventIDs /\ sequences' = state.sequences
      BY <1>3, <2>0, <2>2
    <3>1. \A n \in Names : pc[n] = "new" /\ call[n] = NoCall
      BY <1>0, <1>2, <1>6, <1>9, <2>2 DEF CoreInv, CallsAreOwn, Free
    <3>2. \A n \in Names : Lasting(n)'
      BY <1>2, <2>0, <3>0, <3>1 DEF LastingInv, Lasting, Free
    <3>3. RowIsCounted(state)  BY <1>2, <2>0 DEF LastingInv
    <3>4. IssuedAreCounted'
      BY <1>0, <1>2, <1>3, <3>0, <3>1, <3>3
      DEF IssuedAreCounted, Counts, RowIsCounted, CoreInv, IssuedAreMinted, NoCall
    <3>5. EndedEventsAreForgotten'
      BY <3>0, <3>3 DEF EndedEventsAreForgotten, RowIsCounted
    <3>6. CallsMatchTracker'  BY <1>2, <3>1 DEF CallsMatchTracker
    <3> QED  BY <1>2, <1>4, <3>2, <3>4, <3>5, <3>6 DEF LastingInv, PathInv
  <2> QED  BY <2>1, <2>2
<1> QED  BY <1>5, <1>7, <1>8, <1>9 DEF RestartsInv

-----------------------------------------------------------------------------
(* The next-state relation and the specification *)

\* In the first process nothing is saved and nothing is held.
LEMMA RestartsInit == ASSUME RestartInit PROVE RestartsInv
<1>1. PathInv  BY PathInit DEF RestartInit
<1>2. SoundInv
  <2>1. CoreInv /\ IncidentsTypeOK  BY <1>1 DEF PathInv, CoreInv
  <2>2. RestartTypeOK
    <3>1. 0 \in 0..MaxRestarts  OBVIOUS
    <3>2. [n \in Names |-> {}] \in [Names -> SUBSET CheckStates]  OBVIOUS
    <3> QED  BY <2>1, <3>1, <3>2 DEF RestartInit, RestartTypeOK
  <2>3. \A n \in Names : StatusFollowsCall(n)
    BY DEF RestartInit, IncidentsInit, StatusFollowsCall, Free
  <2> QED  BY <2>1, <2>2, <2>3 DEF RestartInit, SoundInv
<1>3. AnnouncedInv /\ \A n \in Names : Resolved(n)
  BY <1>1 DEF RestartInit, IncidentsInit, PathInv, AnnouncedInv, Announced, Resolved, Free
<1>4. LastingInv
  BY <1>1 DEF RestartInit, IncidentsInit, LastingInv, Lasting
<1> QED  BY <1>2, <1>3, <1>4 DEF RestartsInv

\* Every step is one of these.
LEMMA RestartsNext == ASSUME RestartsInv, [RestartNext]_restartVars PROVE RestartsInv'
<1>1. ASSUME UNCHANGED <<trackerVars, callVars, historyVars, rowVars, processVars>>,
             commands' \subseteq commands
      PROVE  RestartsInv'
  <2>1. /\ UNCHANGED <<trackerVars, callVars, historyVars, loaded, stale, displaced>>
        /\ UNCHANGED <<trackerRow, rows, saving, copied, restarts>>
        /\ commands' \subseteq commands
    BY <1>1 DEF rowVars, processVars
  <2>2. SoundInv'
    BY <2>1, SavingKeeps DEF RestartsInv, SoundInv, RestartTypeOK, CoreInv
  <2>3. ~displaced' => AnnouncedInv'
    BY <2>1, SavingKeeps DEF RestartsInv, AnnouncedInv
  <2>4. ~stale' => \A n \in Names : Resolved(n)'
    BY <2>1, SavingKeeps DEF RestartsInv, Resolved
  <2>5. ASSUME LastingInv PROVE LastingInv'
    BY <2>1, <2>5, SavingKeeps DEF LastingInv, Lasting, Free
  <2> QED  BY <2>1, <2>2, <2>3, <2>4, <2>5 DEF RestartsInv
<1>2. CASE Run
  <2>1. ASSUME NEW number \in commands, CommandEnds(number) PROVE RestartsInv'
    BY <1>1, <1>2, <2>1 DEF CommandEnds, Run
  <2> QED  BY <1>2, <2>1, RunInv DEF Run, Handlers
<1>3. CASE RestartNext /\ ~Run
  BY <1>3, SaveTrackerInv, SaveChecksInv, NextProcessInv, LoadTrackerInv,
     RegisterNewInv, RegisterRestoredInv
  DEF RestartNext
<1>4. CASE UNCHANGED restartVars
  BY <1>1, <1>4 DEF restartVars, vars
<1> QED  BY <1>2, <1>3, <1>4

\* The invariant of any number of processes, one after the other.
LEMMA RestartsSafe == RestartSpec => []RestartsInv
<1> QED  BY RestartsInit, RestartsNext, PTL DEF RestartSpec

\* Whatever was saved, lost or half saved when a process stopped, the tracker
\* of the next one is consistent, and unless New replaces it under a running
\* check, calls work with the events it holds.
THEOREM RestartedTrackerIsSound == RestartSpec => []RestartInv
<1>1. RestartsInv => RestartInv
  BY DEF RestartsInv, SoundInv, CoreInv, AnnouncedInv, RestartInv
<1> QED  BY <1>1, RestartsSafe, PTL

\* A failing check has an open alert on the event it is attached to, from its
\* first announcement on, whenever the process stops.  A check that failed
\* silently has it from its next notification on.
THEOREM FailuresStayAnnounced == RestartSpec => []FailingIsAnnounced
<1>1. RestartsInv => FailingIsAnnounced
  BY DEF RestartsInv, AnnouncedInv, Announced, FailingIsAnnounced, Failing
<1> QED  BY <1>1, RestartsSafe, PTL

\* If everything was saved, no alert of an earlier process is left open when
\* the check passes, unless it passed silently.
THEOREM SuccessesStayResolved == RestartSpec => []PassingIsResolved
<1>1. RestartsInv => PassingIsResolved
  BY DEF RestartsInv, Resolved, PassingIsResolved
<1> QED  BY <1>1, RestartsSafe, PTL

\* If everything was saved, an alert that was open at a restart is repeated
\* and resolved under its event, unless its check changed silently between
\* failing and passing since its last notification.
THEOREM AlertsSurviveRestarts == RestartSpec => AlertSurvivesRestart
<1>1. RestartsInv /\ [RestartNext]_restartVars
        => [\A n \in Names :
              Send(n) /\ ~stale /\ ~displaced /\ alert[n] # NoEvent /\ ~muted[n]
                => call[n].event = alert[n]]_restartVars
  BY DEF RestartsInv, LastingInv, Lasting, Free, Send
<1> QED  BY <1>1, RestartsSafe, PTL DEF RestartSpec, AlertSurvivesRestart

\* Apart from New reading the row, only the handlers raise a counter.
LEMMA OnlyHandlersCount ==
  ASSUME RestartsInv, [RestartNext]_restartVars, UNCHANGED loaded,
         NEW id \in EventIds, sequences'[id] > sequences[id]
  PROVE  [IncidentsNext]_vars
<1>0. TrackerInv /\ sequences \in [EventIds -> Nat]
  BY CoreTypes DEF RestartsInv, SoundInv, CoreInv
<1>1. ~(sequences' = sequences)  BY <1>0
<1>2. CASE Run  BY <1>2 DEF Run, IncidentsNext
<1>3. CASE Restart
  <2>1. sequences'[id] = 0 /\ sequences[id] \in Nat  BY <1>0, <1>3 DEF Restart
  <2> QED  BY <2>1
<1>4. CASE LoadTracker  BY <1>4 DEF LoadTracker
<1>5. ASSUME NEW n \in Names, NEW found, RegisterNew(n, found)  PROVE IncidentsNext
  BY <1>5 DEF RegisterNew, IncidentsNext
<1>6. ASSUME NEW n \in Names, NEW found, RegisterRestored(n, found)  PROVE FALSE
  <2>1. CASE Announce(n)
    BY <1>0, <1>1, <2>1, AskFacts DEF Announce
  <2>2. CASE UNCHANGED trackerVars
    BY <1>1, <2>2 DEF trackerVars
  <2> QED  BY <1>6, <2>1, <2>2 DEF RegisterRestored
<1>7. CASE SaveTracker \/ SaveNoCheck \/ (\E n \in Names : SaveCheck(n)) \/ UNCHANGED restartVars
  BY <1>7 DEF SaveTracker, SaveNoCheck, SaveCheck, restartVars
<1> QED  BY <1>2, <1>3, <1>4, <1>5, <1>6, <1>7 DEF RestartNext

\* If everything was saved, no number of an event is given out twice while it
\* counts, to a notification or to a command, on whichever sides of a restart.
THEOREM NumbersSurviveRestarts == RestartSpec => NumbersSurviveRestart
<1>1. ASSUME RestartsInv, [RestartNext]_restartVars,
             ~stale, ~displaced, UNCHANGED loaded,
             NEW id \in EventIds, sequences'[id] > sequences[id],
             InUse(id) \/ minter[id] # Maintenance
      PROVE  [event |-> id, sequence |-> sequences'[id]] \notin issued
  <2>1. PathInv  BY <1>1 DEF RestartsInv, LastingInv
  <2>2. [IncidentsNext]_vars  BY <1>1, OnlyHandlersCount
  <2>3. Counts(id)  BY <1>1, <2>1, <2>2, OnlyTakesCount DEF Counts
  <2> QED  BY <1>1, <2>1, <2>2, <2>3, NewNumberIsNew
<1>2. RestartsInv /\ [RestartNext]_restartVars
        => [\A id \in EventIds :
              /\ ~stale /\ ~displaced /\ UNCHANGED loaded
              /\ sequences'[id] > sequences[id]
              /\ InUse(id) \/ minter[id] # Maintenance
              => [event |-> id, sequence |-> sequences'[id]] \notin issued]_restartVars
  BY <1>1
<1> QED  BY <1>2, RestartsSafe, PTL DEF RestartSpec, NumbersSurviveRestart

\* If everything was saved, no counter leaks across restarts: an event that
\* nobody is attached to any more has none.
THEOREM NoCounterLeaksAcrossRestarts ==
  RestartSpec => [](~stale /\ ~displaced => EndedEventsAreForgotten)
<1>1. RestartsInv => (~stale /\ ~displaced => EndedEventsAreForgotten)
  BY DEF RestartsInv, LastingInv, PathInv
<1> QED  BY <1>1, RestartsSafe, PTL
=============================================================================
