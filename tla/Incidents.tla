------------------------------ MODULE Incidents ------------------------------
(***************************************************************************)
(* The path of a check result through the program: the StatusUpdater of    *)
(* each check, the one EventTracker they share, and what the subscribers   *)
(* receive.                                                                *)
(*                                                                         *)
(* update holds its own updater's mutex throughout, so the results of one  *)
(* check are handled one after the other; but it takes the tracker's mutex *)
(* anew for each call, so handlers of different checks interleave between  *)
(* any two calls.  One step here is one such call.  Register runs under    *)
(* the mutex of Health: registrations do not overlap each other, but they  *)
(* do overlap the results of checks registered before.                     *)
(*                                                                         *)
(* Whether an action's command runs is left open (ActionRunner.tla says    *)
(* when); a command that runs takes its number at once and sends later.    *)
(***************************************************************************)
EXTENDS EventTracker, StatusUpdater, FiniteSets

CONSTANTS Reports,     \* the results the checks give, a part of Results
          Silences,    \* who gives which of them with NoNotification; the
                       \* loop reports a timeout always without
          MaxCommands  \* bound: commands running at a time

ASSUME ReportsAssumption == Reports \subseteq Results
ASSUME SilencesAssumption == Silences \subseteq Names \X (Results \ {"timeout"})
ASSUME MaxCommandsAssumption == MaxCommands \in Nat

VARIABLES updater,    \* name -> its updater
          pc,         \* name -> where its registration or update stands
          call,       \* name -> what that call works with
          commands,   \* the numbers of the commands still running
          issued,     \* history: every number ever issued for an event
          alert,      \* history: name -> event of its last alert not resolved
          muted       \* history: name -> see Mutes

callVars == <<updater, pc, call>>
historyVars == <<issued, alert, muted>>
vars == <<trackerVars, callVars, commands, historyVars>>

Numbers == [event : MaybeEvent, sequence : Nat]
NoCall == [result |-> "none", event |-> NoEvent, sequence |-> 0]

IncidentsTypeOK ==
  /\ TypeOK
  /\ updater \in [Names -> Updaters]
  /\ pc \in [Names -> {"new", "idle", "numbering", "sending", "acting", "clearing"}]
  /\ call \in [Names -> [result : Results \cup {"none", "initializing"},
                         event : MaybeEvent, sequence : Nat]]
  /\ commands \subseteq Numbers
  /\ issued \subseteq Numbers
  /\ alert \in [Names -> MaybeEvent]
  /\ muted \in [Names -> BOOLEAN]

IncidentsInit ==
  /\ Init
  /\ updater = [n \in Names |-> NewUpdater]
  /\ pc = [n \in Names |-> "new"]
  /\ call = [n \in Names |-> NoCall]
  /\ commands = {}
  /\ issued = {}
  /\ alert = [n \in Names |-> NoEvent]
  /\ muted = [n \in Names |-> FALSE]

-----------------------------------------------------------------------------
Goto(n, label) == pc' = [pc EXCEPT ![n] = label]

\* The call of n is over and keeps nothing.
Return(n) == Goto(n, "idle") /\ call' = [call EXCEPT ![n] = NoCall]

Calls(n, result, id) ==
  call' = [call EXCEPT ![n] = [result |-> result, event |-> id, sequence |-> 0]]

Registering(n) == call[n].result = "initializing"

\* Register of a check without saved state: NewStatusUpdater asks for an event
\* as for a critical check, before the check has run at all.
Register(n) ==
  /\ pc[n] = "new"
  /\ \A m \in Names : ~Registering(m)
  /\ \E id \in MaybeEvent :
       /\ GetOrCreateEventID(n, FALSE, id)
       /\ Calls(n, "initializing", id)
  /\ Goto(n, "numbering")
  /\ UNCHANGED <<updater, commands, historyVars>>

\* A response with NoNotification that makes a failing check pass or a passing
\* one fail leaves the subscribers with an alert that is over, or without one,
\* until the next notification.
Mutes(n, result, disableNotification) ==
  LET flips == result = "passing" <=> updater[n].status # "passing"
  IN  muted' = [muted EXCEPT ![n] = @ \/ (disableNotification /\ flips)]

\* Fault: every result asks for the event, not only one at its threshold.
UpdateAsksAlways(n, result, disableNotification) ==
  /\ pc[n] = "idle"
  /\ updater' = [updater EXCEPT ![n] = Updated(updater[n], result)]
  /\ \E id \in MaybeEvent :
       /\ GetOrCreateEventID(n, result = "passing", id)
       /\ Calls(n, result, id)
  /\ Goto(n, IF Notifies(updater[n], result, disableNotification)
             THEN "numbering" ELSE "acting")
  /\ Mutes(n, result, disableNotification)
  /\ UNCHANGED <<commands, issued, alert>>

\* A result below its threshold only counts.
CountResult(n, result) ==
  /\ pc[n] = "idle"
  /\ ~Crosses(updater[n], result)
  /\ updater' = [updater EXCEPT ![n] = Updated(updater[n], result)]
  /\ UNCHANGED <<trackerVars, pc, call, commands, historyVars>>

\* A result at its threshold sets the status and asks for the event: a failing
\* one to have one, a passing one to give it back.
CrossThreshold(n, result, disableNotification) ==
  /\ pc[n] = "idle"
  /\ Crosses(updater[n], result)
  /\ updater' = [updater EXCEPT ![n] = Updated(updater[n], result)]
  /\ \E id \in MaybeEvent :
       /\ GetOrCreateEventID(n, result = "passing", id)
       /\ Calls(n, result, id)
  /\ Goto(n, IF Notifies(updater[n], result, disableNotification)
             THEN "numbering" ELSE "acting")
  /\ Mutes(n, result, disableNotification)
  /\ UNCHANGED <<commands, issued, alert>>

update(n, result, disableNotification) ==
  \/ CountResult(n, result)
  \/ CrossThreshold(n, result, disableNotification)

\* The number of a notification; an empty event has none.
TakeNumber(id, seq) ==
  /\ GetNextSequence(id, seq)
  /\ issued' = IF id = NoEvent THEN issued
               ELSE issued \cup {[event |-> id, sequence |-> seq]}

Number(n) ==
  /\ pc[n] = "numbering"
  /\ \E seq \in 0..MaxSequence :
       /\ TakeNumber(call[n].event, seq)
       /\ call' = [call EXCEPT ![n].sequence = seq]
  /\ Goto(n, "sending")
  /\ UNCHANGED <<updater, commands, alert, muted>>

\* Notifications.Send.  A failing or initializing status is an alert that the
\* subscribers hold open until the same check reports passing.
Send(n) ==
  /\ pc[n] = "sending"
  /\ alert' = [alert EXCEPT ![n] = IF call[n].result = "passing" THEN NoEvent
                                   ELSE call[n].event]
  /\ muted' = [muted EXCEPT ![n] = FALSE]
  /\ IF Registering(n) THEN Return(n)
                       ELSE Goto(n, "acting") /\ UNCHANGED call
  /\ UNCHANGED <<trackerVars, updater, commands, issued>>

\* Only a resolution goes on to clear the counter of its event.
AfterActing(n) ==
  IF call[n].result = "passing" /\ call[n].event # NoEvent
  THEN Goto(n, "clearing") /\ UNCHANGED call
  ELSE Return(n)

\* The action of the result runs no command.
SkipAction(n) ==
  /\ pc[n] = "acting"
  /\ AfterActing(n)
  /\ UNCHANGED <<trackerVars, updater, commands, historyVars>>

\* The command starts, its number already taken.
StartCommand(n) ==
  /\ pc[n] = "acting"
  /\ call[n].event # NoEvent
  /\ \E seq \in 1..MaxSequence :
       /\ TakeNumber(call[n].event, seq)
       /\ commands' = commands \cup {[event |-> call[n].event, sequence |-> seq]}
  /\ Cardinality(commands) < MaxCommands
  /\ AfterActing(n)
  /\ UNCHANGED <<updater, alert, muted>>

\* Fault: the number of a command's notification is taken when it is sent.
CommandEndsNumbersLate(number) ==
  /\ number \in commands
  /\ commands' = commands \ {number}
  /\ \E seq \in 1..MaxSequence : TakeNumber(number.event, seq)
  /\ UNCHANGED <<callVars, alert, muted>>

\* The command's notification goes out, however late.
CommandEnds(number) ==
  /\ number \in commands
  /\ commands' = commands \ {number}
  /\ UNCHANGED <<trackerVars, callVars, historyVars>>

Clear(n) ==
  /\ pc[n] = "clearing"
  /\ ClearSequence(call[n].event)
  /\ Return(n)
  /\ UNCHANGED <<updater, commands, historyVars>>

Handles(n) ==
  \/ \E result \in Reports, disableNotification \in BOOLEAN :
       /\ disableNotification => <<n, result>> \in Silences
       /\ update(n, result, disableNotification)
  \/ Number(n) \/ Send(n)
  \/ SkipAction(n) \/ StartCommand(n)
  \/ Clear(n)

Handlers ==
  \/ \E n \in Names : Handles(n)
  \/ \E number \in commands : CommandEnds(number)

IncidentsNext ==
  \/ \E n \in Names : Register(n)
  \/ Handlers

IncidentsSpec == IncidentsInit /\ [][IncidentsNext]_vars

-----------------------------------------------------------------------------
(* Properties *)

\* "The active event ID must stay stable from the moment an alert fires until
\* the resolution notification is actually sent": while an alert of a check is
\* open, every notification of that check, its resolution included, carries
\* the event of the alert.  The one exception is a check that passed silently
\* meanwhile (NoNotification), which ends the event and leaves the alert; the
\* next notification of the check puts that right.
AlertKeepsItsEvent ==
  [][\A n \in Names :
       Send(n) /\ alert[n] # NoEvent /\ ~muted[n] => call[n].event = alert[n]]_vars

\* "Resetting the counter early would issue duplicate (event_id, sequence)
\* pairs to downstream consumers": no pair is issued twice.
NumbersAreUnique ==
  [][\A id \in EventIds :
       sequences'[id] > sequences[id]
         => [event |-> id, sequence |-> sequences'[id]] \notin issued]_vars

\* The same as long as the event is open, that is, while some check is attached
\* to it: whichever check of a shared event recovers, the counter stays for the
\* others.
OpenEventNumbersAreUnique ==
  [][\A id \in EventIds :
       sequences'[id] > sequences[id] /\ InUse(id)
         => [event |-> id, sequence |-> sequences'[id]] \notin issued]_vars

\* The same for the event of one regular check, which no other check shares.
PrivateNumbersAreUnique ==
  [][\A id \in EventIds :
       sequences'[id] > sequences[id] /\ minter[id] # Maintenance
         => [event |-> id, sequence |-> sequences'[id]] \notin issued]_vars

\* No counter leaks: an event that no check is attached to and no call is
\* working with has no counter left, in whatever order the checks of a shared
\* event recovered.
EndedEventsAreForgotten ==
  \A id \in EventIds :
    ~InUse(id) /\ (\A n \in Names : call[n].event # id) => sequences[id] = 0

\* A call works with the event its check is attached to, or, when it resolves
\* the check, with one the check has just left for good.
CallsMatchTracker ==
  \A n \in Names :
    pc[n] \notin {"new", "idle"} =>
      IF call[n].result = "passing" THEN eventIDs[n] = NoEvent
                                    ELSE eventIDs[n] = call[n].event

IncidentsInv ==
  /\ IncidentsTypeOK
  /\ TrackerInv
  /\ CallsMatchTracker
=============================================================================
