---------------------------- MODULE SqlitePersister ----------------------------
(***************************************************************************)
(* The Persister of persister/sqlite/sqlite.go: saves wait in memory until *)
(* a timer's goroutine, or Close, flushes them to the database.            *)
(*                                                                         *)
(* debounceMu guards the pending saves and the timer, mu guards closed and *)
(* the database; nothing holds both.  One step is one critical section of  *)
(* debounceMu, or one statement on the database: a flush keeps mu over all *)
(* of its statements, but each is a transaction of its own and may fail    *)
(* for itself.                                                             *)
(*                                                                         *)
(* The states saved under a key are numbered, 0 is none.  The database may *)
(* hold rows from an earlier process.                                      *)
(***************************************************************************)
EXTENDS Integers

CONSTANTS Tracker,   \* the key of the tracker's state
          Checks,    \* the names of the checks
          Timers,    \* bound: goroutines of time.AfterFunc at a time
          NoTimer,   \* a nil debounceTimer
          Closers,   \* callers of Close
          MaxSaves   \* bound: saves of one key

ASSUME KeyAssumption == Tracker \notin Checks
ASSUME RoutineAssumption == NoTimer \notin Timers /\ Timers \cap Closers = {}
ASSUME MaxSavesAssumption == MaxSaves \in Nat \ {0}

Keys == Checks \cup {Tracker}
Routines == Timers \cup Closers

VARIABLES pending,        \* key -> pending save, pendingEventState included
          debounceTimer,  \* the timer that was scheduled, or NoTimer
          pc,             \* routine -> where it stands
          batch,          \* routine -> what is left of the flush it makes
          closed,
          rows,           \* key -> the state in the database
          saved,          \* history: key -> its last save
          lost,           \* history: key -> last save that failed or was deleted
          promised,       \* history: what was saved when Close was called first
          overlapped      \* history: two flushes were under way at once

historyVars == <<saved, lost, promised, overlapped>>
vars == <<pending, debounceTimer, pc, batch, closed, rows, historyVars>>

Nothing == [k \in Keys |-> 0]
Saves == [Keys -> 0..MaxSaves]

TypeOK ==
  /\ pending \in Saves
  /\ debounceTimer \in Timers \cup {NoTimer}
  /\ pc \in [Routines -> {"free", "ticking", "fired", "flushing", "waiting",
                          "writing", "closing", "done"}]
  /\ batch \in [Routines -> Saves]
  /\ closed \in BOOLEAN
  /\ rows \in Saves
  /\ saved \in Saves /\ lost \in Saves /\ promised \in Saves
  /\ overlapped \in BOOLEAN

\* New, on a database that may have been used before.
Init ==
  /\ rows \in [Keys -> 0..1]
  /\ pending = Nothing
  /\ debounceTimer = NoTimer
  /\ pc = [r \in Routines |-> "free"]
  /\ batch = [r \in Routines |-> Nothing]
  /\ closed = FALSE
  /\ saved = rows
  /\ lost = Nothing
  /\ promised = Nothing
  /\ overlapped = FALSE

-----------------------------------------------------------------------------
Goto(r, label) == pc' = [pc EXCEPT ![r] = label]

\* A flush is under way from its snapshot of the pending saves to its end.
Flushing(r) == pc[r] \in {"waiting", "writing"}
MuFree == \A r \in Routines : pc[r] # "writing"

Greater(a, b) == IF a >= b THEN a ELSE b

\* Only the first save after a flush starts a timer.
scheduleSave ==
  \/ debounceTimer # NoTimer /\ UNCHANGED <<debounceTimer, pc>>
  \/ /\ debounceTimer = NoTimer
     /\ \E t \in Timers :
          pc[t] = "free" /\ debounceTimer' = t /\ Goto(t, "ticking")

\* SaveEventTrackerState and SaveCheckState answer at once, and even when the
\* persister has been closed.
Save(k) ==
  /\ saved[k] < MaxSaves
  /\ pending' = [pending EXCEPT ![k] = saved[k] + 1]
  /\ saved' = [saved EXCEPT ![k] = saved[k] + 1]
  /\ scheduleSave
  /\ UNCHANGED <<batch, closed, rows, lost, promised, overlapped>>

\* The interval is over: from here on Stop comes too late.
Expire(t) ==
  /\ pc[t] = "ticking"
  /\ Goto(t, "fired")
  /\ UNCHANGED <<pending, debounceTimer, batch, closed, rows, historyVars>>

\* Fault: the goroutine does not forget the timer.
FireKeepsTimer(t) ==
  /\ pc[t] = "fired"
  /\ Goto(t, "flushing")
  /\ UNCHANGED <<pending, debounceTimer, batch, closed, rows, historyVars>>

\* The goroutine forgets the timer, whichever it is by now, before it flushes.
Fire(t) ==
  /\ pc[t] = "fired"
  /\ debounceTimer' = NoTimer
  /\ Goto(t, "flushing")
  /\ UNCHANGED <<pending, batch, closed, rows, historyVars>>

\* Close stops the timer first, unless it has fired.
StopTimer(c) ==
  /\ c \in Closers /\ pc[c] = "free"
  /\ debounceTimer' = NoTimer
  /\ pc' = [r \in Routines |->
              CASE r = c -> "flushing"
                [] r = debounceTimer /\ pc[r] = "ticking" -> "free"
                [] OTHER -> pc[r]]
  /\ promised' = IF \A d \in Closers : pc[d] = "free" THEN saved ELSE promised
  /\ UNCHANGED <<pending, batch, closed, rows, saved, lost, overlapped>>

-----------------------------------------------------------------------------
(* flushPending *)

\* Fault: the saves that were taken stay pending.
TakePendingKeeps(r) ==
  /\ pc[r] = "flushing"
  /\ batch' = [batch EXCEPT ![r] = pending]
  /\ overlapped' = (overlapped \/ \E q \in Routines : Flushing(q))
  /\ Goto(r, "waiting")
  /\ UNCHANGED <<pending, debounceTimer, closed, rows, saved, lost, promised>>

TakePending(r) ==
  /\ pc[r] = "flushing"
  /\ batch' = [batch EXCEPT ![r] = pending]
  /\ pending' = Nothing
  /\ overlapped' = (overlapped \/ \E q \in Routines : Flushing(q))
  /\ Goto(r, "waiting")
  /\ UNCHANGED <<debounceTimer, closed, rows, saved, lost, promised>>

AfterFlush(r) == Goto(r, IF r \in Closers THEN "closing" ELSE "free")

\* With mu: a closed persister drops what was taken.
BeginWrites(r) ==
  /\ pc[r] = "waiting" /\ MuFree
  /\ IF closed THEN batch' = [batch EXCEPT ![r] = Nothing] /\ AfterFlush(r)
               ELSE UNCHANGED batch /\ Goto(r, "writing")
  /\ UNCHANGED <<pending, debounceTimer, closed, rows, historyVars>>

\* Fault: the first failing statement ends the flush.
WriteFailsStops(r, k) ==
  /\ batch' = [batch EXCEPT ![r] = Nothing]
  /\ lost' = [lost EXCEPT ![k] = Greater(@, batch[r][k])]
  /\ UNCHANGED rows

\* A failing statement is logged; the others of the flush go on.
WriteFails(r, k) ==
  /\ batch' = [batch EXCEPT ![r][k] = 0]
  /\ lost' = [lost EXCEPT ![k] = Greater(@, batch[r][k])]
  /\ UNCHANGED rows

WriteSucceeds(r, k) ==
  /\ rows' = [rows EXCEPT ![k] = batch[r][k]]
  /\ batch' = [batch EXCEPT ![r][k] = 0]
  /\ UNCHANGED lost

\* The tracker's state is written first, then the checks in any order.
WriteRow(r, k) ==
  /\ pc[r] = "writing" /\ batch[r][k] # 0
  /\ k # Tracker => batch[r][Tracker] = 0
  /\ WriteSucceeds(r, k) \/ WriteFails(r, k)
  /\ UNCHANGED <<pending, debounceTimer, pc, closed, saved, promised, overlapped>>

EndWrites(r) ==
  /\ pc[r] = "writing" /\ batch[r] = Nothing
  /\ AfterFlush(r)
  /\ UNCHANGED <<pending, debounceTimer, batch, closed, rows, historyVars>>

-----------------------------------------------------------------------------
\* Fault: Close marks the persister closed before its flush has got mu.
CloseDatabaseEarly(c) ==
  /\ pc[c] \in {"waiting", "closing"} /\ MuFree
  /\ closed' = TRUE
  /\ Goto(c, IF pc[c] = "closing" THEN "done" ELSE pc[c])
  /\ UNCHANGED <<pending, debounceTimer, batch, rows, historyVars>>

CloseDatabase(c) ==
  /\ pc[c] = "closing" /\ MuFree
  /\ closed' = TRUE
  /\ Goto(c, "done")
  /\ UNCHANGED <<pending, debounceTimer, batch, rows, historyVars>>

\* The row goes at once; a save of the same check that waits is not touched.
DeleteCheckState(k) ==
  /\ MuFree /\ ~closed
  /\ rows' = [rows EXCEPT ![k] = 0]
  /\ lost' = [lost EXCEPT ![k] = Greater(@, rows[k])]
  /\ UNCHANGED <<pending, debounceTimer, pc, batch, closed, saved, promised, overlapped>>

FlushStep(r) ==
  TakePending(r) \/ BeginWrites(r) \/ EndWrites(r) \/ \E k \in Keys : WriteRow(r, k)

TimerStep(t) == Expire(t) \/ Fire(t) \/ FlushStep(t)
CloserStep(c) == FlushStep(c) \/ CloseDatabase(c)

Next ==
  \/ \E k \in Keys : Save(k)
  \/ \E k \in Checks : DeleteCheckState(k)
  \/ \E t \in Timers : TimerStep(t)
  \/ \E c \in Closers : StopTimer(c) \/ CloserStep(c)

\* Timers expire and goroutines run on.
Fairness ==
  /\ \A t \in Timers : WF_vars(TimerStep(t))
  /\ \A c \in Closers : WF_vars(CloserStep(c))

Spec == Init /\ [][Next]_vars /\ Fairness

-----------------------------------------------------------------------------
(* Properties *)

\* No save waits for nobody: whatever is pending has a timer that will take
\* it, or a flush that has not taken its snapshot yet.
PendingHasFlush ==
  pending # Nothing =>
    \/ debounceTimer # NoTimer
    \/ \E r \in Routines : pc[r] = "flushing"

\* The timer that was scheduled is one that will flush.
TimerIsLive ==
  debounceTimer # NoTimer => pc[debounceTimer] \in {"ticking", "fired"}

\* A save in one place is in no other, and what is pending is the last save.
SavesAreApart ==
  \A k \in Keys :
    /\ pending[k] # 0 => pending[k] = saved[k] /\ pending[k] # rows[k]
    /\ rows[k] <= saved[k] /\ lost[k] <= saved[k]
    /\ \A r \in Routines :
         /\ batch[r][k] <= saved[k]
         /\ batch[r][k] # 0 =>
              /\ Flushing(r)
              /\ batch[r][k] \notin {pending[k], rows[k]}
              /\ \A q \in Routines \ {r} : batch[r][k] # batch[q][k]

\* mu is a mutex.
OneWriter ==
  \A r, q \in Routines : pc[r] = "writing" /\ pc[q] = "writing" => r = q

PersisterInv ==
  /\ TypeOK
  /\ OneWriter
  /\ TimerIsLive
  /\ PendingHasFlush
  /\ SavesAreApart

\* While the persister is open the last save of every key waits, is being
\* written, is in the database, or failed or was deleted: no race of saves,
\* timers and Close loses it, short of two flushes under way at once.
LastSaveIsKept ==
  ~closed /\ ~overlapped =>
    \A k \in Keys :
      \/ saved[k] \in {pending[k], rows[k], lost[k]}
      \/ \E r \in Routines : saved[k] = batch[r][k]

\* What the caller of Close may rely on for a save made before.
KeptByClose(k) == rows[k] >= promised[k] \/ lost[k] >= promised[k]

\* "Close releases resources and flushes any pending saves": what was saved
\* when Close was called is in the database when it is closed.
CloseFlushes == closed => \A k \in Keys : KeptByClose(k)

\* The same as long as no flush of a timer is under way beside that of Close.
UndisturbedCloseFlushes == ~overlapped => CloseFlushes

\* Every save is stored, or superseded by one that is stored, unless its write
\* fails, it is deleted or the persister is closed: no save is left behind.
SavedIsStored ==
  \A k \in Keys : \A save \in 1..MaxSaves :
    pending[k] = save ~> (rows[k] >= save \/ lost[k] >= save \/ closed)

\* The persister implements the store: a save is written at most once, and
\* never after it was superseded or given up.
Store == INSTANCE WriteBehindStore WITH
           newest  <- saved,
           stored  <- rows,
           waiting <- [k \in Keys |-> ({pending[k]} \cup {batch[r][k] : r \in Routines}) \ {0}]
StoreSpec == Store!Spec
=============================================================================
