--------------------------- MODULE WriteBehindStore ---------------------------
(***************************************************************************)
(* What a persister with debounced saves promises, whatever its timers and *)
(* locks.  The states saved under a key are numbered 1, 2, ...; number 0   *)
(* is no state.  A save is accepted at once and waits; it is stored at     *)
(* most once, unless it is given up.  Nothing is stored that does not      *)
(* wait, so a state that was superseded, stored or given up never comes    *)
(* back.                                                                   *)
(***************************************************************************)
EXTENDS Integers

CONSTANT Keys

VARIABLES newest,   \* key -> number of the last save accepted
          waiting,  \* key -> the saves that may still be stored
          stored    \* key -> the save that is stored

vars == <<newest, waiting, stored>>

Init ==
  /\ newest \in [Keys -> Nat]
  /\ stored = newest
  /\ waiting = [k \in Keys |-> {}]

\* A new save supersedes any that wait, or goes in beside them.
Accept(k) ==
  /\ newest' = [newest EXCEPT ![k] = newest[k] + 1]
  /\ \E others \in SUBSET waiting[k] :
       waiting' = [waiting EXCEPT ![k] = others \cup {newest[k] + 1}]
  /\ UNCHANGED stored

Store(k, save) ==
  /\ save \in waiting[k]
  /\ stored' = [stored EXCEPT ![k] = save]
  /\ waiting' = [waiting EXCEPT ![k] = @ \ {save}]
  /\ UNCHANGED newest

\* Saves are given up when their write fails or the store has been closed.
GiveUp ==
  /\ waiting' \in [Keys -> SUBSET UNION {waiting[k] : k \in Keys}]
  /\ \A k \in Keys : waiting'[k] \subseteq waiting[k]
  /\ UNCHANGED <<newest, stored>>

\* A deletion takes what is stored, never what waits.
Delete(k) ==
  /\ stored' = [stored EXCEPT ![k] = 0]
  /\ UNCHANGED <<newest, waiting>>

Next ==
  \/ \E k \in Keys :
       Accept(k) \/ Delete(k) \/ \E save \in waiting[k] : Store(k, save)
  \/ GiveUp

Spec == Init /\ [][Next]_vars
=============================================================================
