--------------------------- MODULE IncidentLedger ---------------------------
(***************************************************************************)
(* What the event tracker promises a consumer of event IDs, with no word   *)
(* about how it keeps the promise.  Each name has at most one incident at  *)
(* a time.  A new incident opens under an ID never used before, except     *)
(* that a name which fails while the maintenance check has an open         *)
(* incident always joins that one.  An incident then keeps its ID until    *)
(* its own resolution, and an ID that nobody holds is never held again.    *)
(***************************************************************************)
CONSTANTS Names, Maintenance, EventIds, NoEvent

VARIABLES incident,  \* name -> the ID of its open incident, or NoEvent
          used       \* every ID ever given out

ledgerVars == <<incident, used>>

Init ==
  /\ incident = [n \in Names |-> NoEvent]
  /\ used = {}

Open(n, id) ==
  /\ incident[n] = NoEvent
  /\ incident[Maintenance] = NoEvent
  /\ id \in EventIds \ used
  /\ incident' = [incident EXCEPT ![n] = id]
  /\ used' = used \cup {id}

JoinMaintenance(n) ==
  /\ incident[n] = NoEvent
  /\ incident[Maintenance] # NoEvent
  /\ incident' = [incident EXCEPT ![n] = incident[Maintenance]]
  /\ UNCHANGED used

Resolve(n) ==
  /\ incident[n] # NoEvent
  /\ incident' = [incident EXCEPT ![n] = NoEvent]
  /\ UNCHANGED used

Next == \E n \in Names :
          \/ \E id \in EventIds : Open(n, id)
          \/ JoinMaintenance(n)
          \/ Resolve(n)

Spec == Init /\ [][Next]_ledgerVars

Held(id) == \E n \in Names : incident[n] = id

\* An event that ended stays ended: once nobody holds a used ID, no later
\* step attaches a name to it again.  A consumer may drop a resolved event
\* for good.
EndedStaysEnded == [][\A id \in used : ~Held(id) => ~Held(id)']_ledgerVars
=============================================================================
