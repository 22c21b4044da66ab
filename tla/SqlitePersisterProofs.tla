------------------------- MODULE SqlitePersisterProofs -------------------------
(***************************************************************************)
(* For any number of checks, timers and callers of Close: no pending save  *)
(* is left without somebody to flush it, and no race loses the last save,  *)
(* as long as flushes do not overlap.                                      *)
(***************************************************************************)
EXTENDS SqlitePersister, TLAPS

USE KeyAssumption, RoutineAssumption, MaxSavesAssumption
USE DEF Routines, Goto, Flushing

Labels == {"free", "ticking", "fired", "flushing", "waiting", "writing", "closing", "done"}

-----------------------------------------------------------------------------
(* PersisterInv is inductive. *)

\* A new persister has nothing in hand.
LEMMA PersisterInit == ASSUME Init PROVE PersisterInv
<1> USE DEF Init, Nothing
<1>1. rows \in [Keys -> 0..MaxSaves]  OBVIOUS
<1>2. TypeOK
  <2>1. Nothing \in Saves /\ rows \in Saves  BY <1>1 DEF Saves
  <2>2. pc \in [Routines -> Labels] /\ batch \in [Routines -> Saves]
    BY <2>1 DEF Labels
  <2> QED  BY <2>1, <2>2 DEF TypeOK, Labels
<1>3. OneWriter  BY DEF OneWriter
<1>4. TimerIsLive  BY DEF TimerIsLive
<1>5. PendingHasFlush  BY DEF PendingHasFlush, Nothing
<1>6. SavesAreApart  BY <1>1 DEF SavesAreApart
<1> QED  BY <1>2, <1>3, <1>4, <1>5, <1>6 DEF PersisterInv

\* A save is newer than any other of its key.
LEMMA SaveStaysApart ==
  ASSUME PersisterInv, NEW k \in Keys, Save(k)
  PROVE  TypeOK' /\ SavesAreApart'
<1> USE DEF PersisterInv, Save
<1>1. saved[k] \in Nat /\ saved[k] + 1 \in 0..MaxSaves  BY DEF TypeOK, Saves
<1>2. pending' \in Saves /\ saved' \in Saves  BY <1>1 DEF TypeOK, Saves
<1>3. debounceTimer' \in Timers \cup {NoTimer} /\ pc' \in [Routines -> Labels]
  BY DEF scheduleSave, TypeOK, Labels
<1>4. TypeOK'  BY <1>2, <1>3 DEF TypeOK, Labels
<1>5. \A r \in Routines : Flushing(r) => Flushing(r)'  BY DEF scheduleSave, TypeOK
<1>6. ASSUME NEW j \in Keys
      PROVE  /\ pending[j] \in Nat /\ saved[j] \in Nat /\ rows[j] \in Nat /\ lost[j] \in Nat
             /\ pending'[j] = IF j = k THEN saved[j] + 1 ELSE pending[j]
             /\ saved'[j] = IF j = k THEN saved[j] + 1 ELSE saved[j]
             /\ \A r \in Routines : batch[r][j] \in Nat
  BY DEF TypeOK, Saves
<1>7. SavesAreApart'  BY <1>5, <1>6 DEF SavesAreApart
<1> QED  BY <1>4, <1>7

\* It has a timer.
LEMMA SaveKeepsInv ==
  ASSUME PersisterInv, NEW k \in Keys, Save(k) PROVE PersisterInv'
<1>1. OneWriter'  BY DEF PersisterInv, OneWriter, Save, scheduleSave, TypeOK
<1>2. TimerIsLive'  BY DEF PersisterInv, TimerIsLive, Save, scheduleSave, TypeOK
<1>3. debounceTimer' # NoTimer  BY DEF Save, scheduleSave
<1> QED  BY <1>1, <1>2, <1>3, SaveStaysApart DEF PersisterInv, PendingHasFlush

\* Steps that move a routine and touch no save.
LEMMA MoveStaysApart ==
  ASSUME SavesAreApart, UNCHANGED <<pending, batch, rows, saved, lost>>,
         \A r \in Routines : Flushing(r) => Flushing(r)' \/ \A k \in Keys : batch[r][k] = 0
  PROVE  SavesAreApart'
BY DEF SavesAreApart

\* An expired timer still is one that will flush.
LEMMA ExpireKeepsInv ==
  ASSUME PersisterInv, NEW t \in Timers, Expire(t) PROVE PersisterInv'
<1> USE DEF PersisterInv, Expire, historyVars
<1>1. TypeOK'  BY DEF TypeOK
<1>2. OneWriter'  BY DEF OneWriter, TypeOK
<1>3. TimerIsLive'  BY DEF TimerIsLive, TypeOK
<1>4. PendingHasFlush'  BY DEF PendingHasFlush, TypeOK
<1>5. SavesAreApart'  BY MoveStaysApart DEF TypeOK
<1> QED  BY <1>1, <1>2, <1>3, <1>4, <1>5

\* The goroutine that forgets the timer is about to flush.
LEMMA FireKeepsInv ==
  ASSUME PersisterInv, NEW t \in Timers, Fire(t) PROVE PersisterInv'
<1> USE DEF PersisterInv, Fire, historyVars
<1>1. TypeOK'  BY DEF TypeOK
<1>2. OneWriter'  BY DEF OneWriter, TypeOK
<1>3. TimerIsLive'  BY DEF TimerIsLive
<1>4. PendingHasFlush'  BY DEF PendingHasFlush, TypeOK
<1>5. SavesAreApart'  BY MoveStaysApart DEF TypeOK
<1> QED  BY <1>1, <1>2, <1>3, <1>4, <1>5

\* So is the caller of Close that stops the timer.
LEMMA StopTimerKeepsInv ==
  ASSUME PersisterInv, NEW c \in Closers, StopTimer(c) PROVE PersisterInv'
<1> USE DEF PersisterInv, StopTimer
<1>1. /\ pc' \in [Routines -> Labels]
      /\ pc[c] = "free" /\ pc'[c] = "flushing"
  BY DEF TypeOK, Labels
<1>2. \A r \in Routines \ {c} : pc'[r] = pc[r] \/ (pc[r] = "ticking" /\ pc'[r] = "free")
  BY DEF TypeOK
<1>3. promised' \in Saves  BY DEF TypeOK
<1>4. TypeOK'  BY <1>1, <1>3 DEF TypeOK, Labels
<1>5. OneWriter'  BY <1>1, <1>2 DEF OneWriter
<1>6. TimerIsLive' /\ PendingHasFlush'  BY <1>1 DEF TimerIsLive, PendingHasFlush
<1>7. SavesAreApart'  BY <1>1, <1>2, MoveStaysApart
<1> QED  BY <1>4, <1>5, <1>6, <1>7

\* A flush begins with nothing in hand, and takes what is pending.
LEMMA TakenIsPending ==
  ASSUME PersisterInv, NEW r \in Routines, TakePending(r), NEW k \in Keys
  PROVE  /\ batch[r][k] = 0 /\ batch'[r][k] = pending[k] /\ pending'[k] = 0
         /\ \A q \in Routines \ {r} : batch'[q][k] = batch[q][k]
<1> USE DEF PersisterInv, TakePending, Nothing
<1>1. batch[r][k] = 0  BY DEF SavesAreApart
<1>2. pending'[k] = 0  OBVIOUS
<1>3. batch'[r][k] = pending[k] /\ \A q \in Routines \ {r} : batch'[q][k] = batch[q][k]
  BY DEF TypeOK
<1> QED  BY <1>1, <1>2, <1>3

\* The pending saves change hands as a whole.
LEMMA TakePendingKeepsInv ==
  ASSUME PersisterInv, NEW r \in Routines, TakePending(r) PROVE PersisterInv'
<1>0. ASSUME NEW k \in Keys
      PROVE  /\ batch'[r][k] = pending[k] /\ pending'[k] = 0
             /\ \A q \in Routines \ {r} : batch'[q][k] = batch[q][k]
  BY TakenIsPending
<1> USE DEF PersisterInv, TakePending
<1>1. TypeOK'
  <2>1. pending' \in Saves  BY DEF Nothing, Saves
  <2>2. batch' \in [Routines -> Saves]  BY DEF TypeOK
  <2>3. overlapped' \in BOOLEAN  BY DEF TypeOK
  <2>4. pc' \in [Routines -> Labels]  BY DEF TypeOK, Labels
  <2> QED  BY <2>1, <2>2, <2>3, <2>4 DEF TypeOK, Labels
<1>2. OneWriter'  BY DEF OneWriter, TypeOK
<1>3. TimerIsLive'  BY DEF TimerIsLive, TypeOK
<1>4. PendingHasFlush'  BY DEF PendingHasFlush
<1>5. \A q \in Routines : Flushing(q)' <=> Flushing(q) \/ q = r  BY DEF TypeOK
<1>6. \A k \in Keys : pending[k] \in Nat /\ saved[k] \in Nat  BY DEF TypeOK, Saves
<1>7. UNCHANGED <<rows, saved, lost>>  OBVIOUS
<1>8. SavesAreApart'
  <2>1. \A k \in Keys : rows[k] <= saved[k] /\ lost[k] <= saved[k]
    BY DEF SavesAreApart
  <2>2. ASSUME NEW k \in Keys, NEW q \in Routines
        PROVE  /\ batch'[q][k] <= saved[k]
               /\ batch'[q][k] # 0 =>
                    /\ Flushing(q)'
                    /\ batch'[q][k] \notin {0, rows[k]}
                    /\ \A p \in Routines \ {q} : batch'[q][k] # batch'[p][k]
    <3>1. CASE q = r  BY <1>0, <1>5, <1>6, <3>1 DEF SavesAreApart
    <3>2. CASE q # r  BY <1>0, <1>5, <1>6, <3>2 DEF SavesAreApart
    <3> QED  BY <3>1, <3>2
  <2> QED  BY <1>0, <1>7, <2>1, <2>2 DEF SavesAreApart
<1> QED  BY <1>1, <1>2, <1>3, <1>4, <1>8

\* What a routine does after its flush concerns no timer.
LEMMA AfterFlushLabel ==
  ASSUME TypeOK, NEW r \in Routines, AfterFlush(r)
  PROVE  /\ pc' \in [Routines -> Labels]
         /\ pc'[r] = IF r \in Closers THEN "closing" ELSE "free"
         /\ \A q \in Routines \ {r} : pc'[q] = pc[q]
BY DEF AfterFlush, TypeOK, Labels

\* mu is taken while nobody has it.
LEMMA BeginWritesKeepsInv ==
  ASSUME PersisterInv, NEW r \in Routines, BeginWrites(r) PROVE PersisterInv'
<1> USE DEF PersisterInv, BeginWrites, historyVars
<1>1. CASE closed
  <2> USE <1>1
  <2>1. /\ pc' \in [Routines -> Labels]
        /\ pc'[r] \in {"closing", "free"}
        /\ \A q \in Routines \ {r} : pc'[q] = pc[q]
    BY AfterFlushLabel
  <2>2. TypeOK'
    <3>1. Nothing \in Saves  BY DEF Nothing, Saves
    <3> QED  BY <2>1, <3>1 DEF TypeOK, Labels
  <2>3. OneWriter'  BY <2>1 DEF OneWriter
  <2>4. TimerIsLive'  BY <2>1 DEF TimerIsLive, TypeOK
  <2>5. PendingHasFlush'  BY <2>1 DEF PendingHasFlush
  <2>6. \A k \in Keys : saved[k] \in Nat /\ batch'[r][k] = 0 /\ \A q \in Routines \ {r} : batch'[q][k] = batch[q][k]
    BY DEF Nothing, TypeOK, Saves
  <2>7. SavesAreApart'  BY <2>1, <2>6 DEF SavesAreApart
  <2> QED  BY <2>2, <2>3, <2>4, <2>5, <2>7
<1>2. CASE ~closed
  <2> USE <1>2
  <2>1. TypeOK'  BY DEF TypeOK
  <2>2. OneWriter'  BY DEF OneWriter, MuFree, TypeOK
  <2>3. TimerIsLive'  BY DEF TimerIsLive, TypeOK
  <2>4. PendingHasFlush'  BY DEF PendingHasFlush, TypeOK
  <2>5. SavesAreApart'  BY MoveStaysApart DEF TypeOK
  <2> QED  BY <2>1, <2>2, <2>3, <2>4, <2>5
<1> QED  BY <1>1, <1>2

\* A write ends the way of one save, in the database or lost.
LEMMA WrittenIsTaken ==
  ASSUME PersisterInv, NEW r \in Routines, NEW k \in Keys, WriteRow(r, k)
  PROVE  /\ batch'[r][k] = 0
         /\ \A q \in Routines, j \in Keys : <<q, j>> # <<r, k>> => batch'[q][j] = batch[q][j]
         /\ \A j \in Keys \ {k} : rows'[j] = rows[j] /\ lost'[j] = lost[j]
         /\ \/ rows'[k] = batch[r][k] /\ lost' = lost
            \/ rows' = rows /\ lost'[k] = Greater(lost[k], batch[r][k])
<1> USE DEF PersisterInv, WriteRow, TypeOK, Saves
<1>1. batch' = [batch EXCEPT ![r][k] = 0]  BY DEF WriteSucceeds, WriteFails
<1>2. /\ batch'[r][k] = 0
      /\ \A q \in Routines, j \in Keys : <<q, j>> # <<r, k>> => batch'[q][j] = batch[q][j]
  BY <1>1
<1>3. CASE WriteSucceeds(r, k)  BY <1>2, <1>3 DEF WriteSucceeds
<1>4. CASE WriteFails(r, k)  BY <1>2, <1>4 DEF WriteFails
<1> QED  BY <1>3, <1>4

\* Every statement of a flush is one such write.
LEMMA WriteRowKeepsInv ==
  ASSUME PersisterInv, NEW r \in Routines, NEW k \in Keys, WriteRow(r, k)
  PROVE  PersisterInv'
<1> USE DEF PersisterInv
<1>1. /\ pc[r] = "writing" /\ batch[r][k] # 0
      /\ UNCHANGED <<pending, debounceTimer, pc, closed, saved, promised, overlapped>>
  BY DEF WriteRow
<1>2. batch[r][k] \in 0..MaxSaves /\ lost[k] \in 0..MaxSaves  BY DEF TypeOK, Saves
<1>3. TypeOK'
  <2>1. batch' \in [Routines -> Saves]
    BY DEF WriteRow, WriteSucceeds, WriteFails, TypeOK, Saves
  <2>2. rows' \in Saves /\ lost' \in Saves
    BY <1>2 DEF WriteRow, WriteSucceeds, WriteFails, TypeOK, Saves, Greater
  <2> QED  BY <1>1, <2>1, <2>2 DEF TypeOK
<1>4. OneWriter' /\ TimerIsLive' /\ PendingHasFlush'
  BY <1>1 DEF OneWriter, TimerIsLive, PendingHasFlush
<1>5. SavesAreApart'
  <2>1. \A j \in Keys : rows'[j] <= saved'[j] /\ lost'[j] <= saved'[j]
    BY <1>1, <1>2, WrittenIsTaken DEF SavesAreApart, Greater
  <2>2. \A j \in Keys : pending'[j] # 0 => pending'[j] = saved'[j] /\ pending'[j] # rows'[j]
    BY <1>1, <1>2, WrittenIsTaken DEF SavesAreApart
  <2>3. ASSUME NEW j \in Keys, NEW q \in Routines, batch'[q][j] # 0
        PROVE  /\ <<q, j>> # <<r, k>> /\ batch'[q][j] = batch[q][j]
               /\ Flushing(q)'
               /\ batch'[q][j] \notin {pending'[j], rows'[j]}
    BY <1>1, <2>3, WrittenIsTaken DEF SavesAreApart
  <2>4. \A j \in Keys, q \in Routines : batch'[q][j] = 0 \/ batch'[q][j] = batch[q][j]
    BY WrittenIsTaken
  <2>5. \A j \in Keys, q \in Routines : batch'[q][j] <= saved'[j]
    BY <1>1, <2>4 DEF SavesAreApart, TypeOK, Saves
  <2>6. \A j \in Keys, q \in Routines : batch'[q][j] # 0 =>
           \A p \in Routines \ {q} : batch'[q][j] # batch'[p][j]
    BY <2>4 DEF SavesAreApart
  <2> QED  BY <2>1, <2>2, <2>3, <2>5, <2>6 DEF SavesAreApart
<1> QED  BY <1>3, <1>4, <1>5

\* A flush ends with nothing in hand.
LEMMA EndWritesKeepsInv ==
  ASSUME PersisterInv, NEW r \in Routines, EndWrites(r) PROVE PersisterInv'
<1> USE DEF PersisterInv, EndWrites, historyVars
<1>1. /\ pc' \in [Routines -> Labels]
      /\ pc'[r] \in {"closing", "free"}
      /\ \A q \in Routines \ {r} : pc'[q] = pc[q]
  BY AfterFlushLabel
<1>2. TypeOK'  BY <1>1 DEF TypeOK, Labels
<1>3. OneWriter'  BY <1>1 DEF OneWriter
<1>4. TimerIsLive'  BY <1>1 DEF TimerIsLive, TypeOK
<1>5. PendingHasFlush'  BY <1>1 DEF PendingHasFlush
<1>6. SavesAreApart'  BY <1>1, MoveStaysApart DEF Nothing
<1> QED  BY <1>2, <1>3, <1>4, <1>5, <1>6

\* Closing the database moves no save.
LEMMA CloseDatabaseKeepsInv ==
  ASSUME PersisterInv, NEW c \in Closers, CloseDatabase(c) PROVE PersisterInv'
<1> USE DEF PersisterInv, CloseDatabase, historyVars
<1>1. TypeOK'  BY DEF TypeOK
<1>2. OneWriter'  BY DEF OneWriter, TypeOK
<1>3. TimerIsLive'  BY DEF TimerIsLive, TypeOK
<1>4. PendingHasFlush'  BY DEF PendingHasFlush, TypeOK
<1>5. SavesAreApart'  BY MoveStaysApart DEF TypeOK
<1> QED  BY <1>1, <1>2, <1>3, <1>4, <1>5

\* A deletion takes what is in the database only.
LEMMA DeleteKeepsInv ==
  ASSUME PersisterInv, NEW k \in Keys, DeleteCheckState(k) PROVE PersisterInv'
<1> USE DEF PersisterInv, DeleteCheckState
<1>1. rows' \in Saves /\ lost' \in Saves  BY DEF TypeOK, Saves, Greater
<1>2. TypeOK'  BY <1>1 DEF TypeOK
<1>3. OneWriter' /\ TimerIsLive' /\ PendingHasFlush'
  BY DEF OneWriter, TimerIsLive, PendingHasFlush
<1>4. \A j \in Keys : /\ rows'[j] = 0 \/ rows'[j] = rows[j]
                      /\ lost'[j] \in {lost[j], rows[j]}
                      /\ saved[j] \in Nat
  BY DEF TypeOK, Saves, Greater
<1>5. SavesAreApart'  BY <1>4 DEF SavesAreApart
<1> QED  BY <1>2, <1>3, <1>5

\* Hence every step keeps the invariant.
LEMMA PersisterNext == ASSUME PersisterInv, [Next]_vars PROVE PersisterInv'
<1>1. ASSUME NEW k \in Keys, Save(k) PROVE PersisterInv'  BY <1>1, SaveKeepsInv
<1>2. ASSUME NEW k \in Checks, DeleteCheckState(k) PROVE PersisterInv'
  BY <1>2, DeleteKeepsInv DEF Keys
<1>3. ASSUME NEW r \in Routines, FlushStep(r) PROVE PersisterInv'
  BY <1>3, TakePendingKeepsInv, BeginWritesKeepsInv, EndWritesKeepsInv, WriteRowKeepsInv
  DEF FlushStep
<1>4. ASSUME NEW t \in Timers, TimerStep(t) PROVE PersisterInv'
  BY <1>3, <1>4, ExpireKeepsInv, FireKeepsInv DEF TimerStep
<1>5. ASSUME NEW c \in Closers, StopTimer(c) \/ CloserStep(c) PROVE PersisterInv'
  BY <1>3, <1>5, StopTimerKeepsInv, CloseDatabaseKeepsInv DEF CloserStep
<1>6. CASE UNCHANGED vars
  BY <1>6 DEF vars, historyVars, PersisterInv, TypeOK, OneWriter, TimerIsLive,
              PendingHasFlush, SavesAreApart
<1> QED  BY <1>1, <1>2, <1>4, <1>5, <1>6 DEF Next

\* However saves, timers and callers of Close interleave, what is pending has
\* somebody who will flush it, and no save is ever in two places.
THEOREM PersisterSafe == Spec => []PersisterInv
<1>1. Init => PersisterInv  BY PersisterInit
<1>2. PersisterInv /\ [Next]_vars => PersisterInv'  BY PersisterNext
<1> QED  BY <1>1, <1>2, PTL DEF Spec

-----------------------------------------------------------------------------
(* The last save is kept. *)

\* The strengthening: without an overlap one routine has all that was taken,
\* and what it has is newer than the database.
OneFlush ==
  ~overlapped => \A r, q \in Routines : Flushing(r) /\ Flushing(q) => r = q

WritesAreNewer ==
  ~overlapped => \A r \in Routines, k \in Keys : batch[r][k] # 0 => rows[k] < batch[r][k]

LastSaveInv == OneFlush /\ WritesAreNewer /\ LastSaveIsKept

\* What the lemmas below need of the types.
LEMMA Numbers ==
  ASSUME PersisterInv, NEW k \in Keys
  PROVE  /\ pending[k] \in Nat /\ rows[k] \in Nat /\ saved[k] \in Nat
         /\ lost[k] \in Nat /\ promised[k] \in Nat
         /\ rows[k] <= saved[k] /\ lost[k] <= saved[k]
         /\ \A r \in Routines : batch[r][k] \in Nat /\ batch[r][k] <= saved[k]
BY DEF PersisterInv, TypeOK, Saves, SavesAreApart

\* A new persister has stored the last save.
LEMMA LastSaveInit == ASSUME Init PROVE LastSaveInv
BY DEF Init, Nothing, LastSaveInv, OneFlush, WritesAreNewer, LastSaveIsKept

\* Steps that touch no save.
LEMMA QuietKeepsLastSave ==
  ASSUME LastSaveInv, UNCHANGED <<pending, batch, rows, saved, lost, overlapped>>,
         closed => closed', \A r \in Routines : Flushing(r)' => Flushing(r)
  PROVE  LastSaveInv'
BY DEF LastSaveInv, OneFlush, WritesAreNewer, LastSaveIsKept

\* The last save is the one that is pending.
LEMMA SaveKeepsLastSave ==
  ASSUME PersisterInv, LastSaveInv, NEW k \in Keys, Save(k) PROVE LastSaveInv'
<1> USE DEF LastSaveInv
<1>1. \A r \in Routines : Flushing(r)' => Flushing(r)
  BY DEF Save, scheduleSave, PersisterInv, TypeOK
<1>2. \A j \in Keys : pending'[j] = saved'[j] \/ (pending'[j] = pending[j] /\ saved'[j] = saved[j])
  BY DEF Save, PersisterInv, TypeOK, Saves
<1>3. UNCHANGED <<batch, closed, rows, lost, overlapped>>  BY DEF Save
<1> QED  BY <1>1, <1>2, <1>3 DEF OneFlush, WritesAreNewer, LastSaveIsKept

\* A flush that overlaps no other is the only one to have anything.
LEMMA TakePendingKeepsLastSave ==
  ASSUME PersisterInv, LastSaveInv, NEW r \in Routines, TakePending(r) PROVE LastSaveInv'
<1>1. CASE overlapped'
  BY <1>1 DEF LastSaveInv, OneFlush, WritesAreNewer, LastSaveIsKept
<1>2. CASE ~overlapped'
  <2>1. ~overlapped /\ \A q \in Routines : ~Flushing(q)  BY <1>2 DEF TakePending
  <2>2. OneFlush'  BY <2>1 DEF OneFlush, TakePending, PersisterInv, TypeOK
  <2>3. UNCHANGED <<closed, rows, saved, lost>>  BY DEF TakePending
  <2>4. ASSUME NEW k \in Keys
        PROVE  /\ batch'[r][k] = pending[k]
               /\ \A q \in Routines : batch[q][k] = 0
               /\ \A q \in Routines \ {r} : batch'[q][k] = 0
    BY <2>1, TakenIsPending DEF PersisterInv, SavesAreApart
  <2>5. ASSUME NEW k \in Keys, pending[k] # 0 PROVE rows[k] < pending[k]
    BY <2>5, Numbers DEF PersisterInv, SavesAreApart
  <2>6. WritesAreNewer'  BY <2>3, <2>4, <2>5 DEF WritesAreNewer
  <2>7. ASSUME ~closed', NEW k \in Keys
        PROVE  saved[k] \in {rows[k], lost[k]} \/ saved[k] = batch'[r][k]
    BY <2>1, <2>3, <2>4, <2>7, Numbers DEF LastSaveInv, LastSaveIsKept
  <2>8. LastSaveIsKept'  BY <2>3, <2>7 DEF LastSaveIsKept
  <2> QED  BY <2>2, <2>6, <2>8 DEF LastSaveInv
<1> QED  BY <1>1, <1>2

\* Only a closed persister drops what was taken.
LEMMA BeginWritesKeepsLastSave ==
  ASSUME PersisterInv, LastSaveInv, NEW r \in Routines, BeginWrites(r) PROVE LastSaveInv'
<1>1. CASE closed
  <2>1. \A q \in Routines : Flushing(q)' => Flushing(q)
    BY <1>1, AfterFlushLabel DEF BeginWrites, PersisterInv
  <2>2. /\ closed' /\ UNCHANGED <<rows, overlapped>>
        /\ \A q \in Routines, k \in Keys : batch'[q][k] \in {0, batch[q][k]}
    BY <1>1 DEF BeginWrites, historyVars, Nothing, PersisterInv, TypeOK
  <2> QED  BY <2>1, <2>2 DEF LastSaveInv, OneFlush, WritesAreNewer, LastSaveIsKept
<1>2. CASE ~closed
  <2>1. \A q \in Routines : Flushing(q)' => Flushing(q)
    BY <1>2 DEF BeginWrites, PersisterInv, TypeOK
  <2> QED  BY <1>2, <2>1, QuietKeepsLastSave DEF BeginWrites, historyVars
<1> QED  BY <1>1, <1>2

\* A write moves the database forward, or counts as lost.
LEMMA WriteRowKeepsLastSave ==
  ASSUME PersisterInv, LastSaveInv, NEW r \in Routines, NEW k \in Keys, WriteRow(r, k)
  PROVE  LastSaveInv'
<1>1. /\ Flushing(r) /\ batch[r][k] # 0
      /\ UNCHANGED <<pending, pc, closed, saved, overlapped>>
  BY DEF WriteRow
<1>2. OneFlush'  BY <1>1 DEF LastSaveInv, OneFlush
<1>3. CASE overlapped
  BY <1>1, <1>2, <1>3 DEF LastSaveInv, WritesAreNewer, LastSaveIsKept
<1>4. CASE ~overlapped
  <2>1. \A q \in Routines \ {r}, j \in Keys : batch[q][j] = 0
    BY <1>1, <1>4 DEF LastSaveInv, OneFlush, PersisterInv, SavesAreApart
  <2>2. WritesAreNewer'
    BY <1>1, <1>4, <2>1, WrittenIsTaken DEF LastSaveInv, WritesAreNewer
  <2>3. ASSUME ~closed, NEW j \in Keys, j # k
        PROVE  \/ saved'[j] \in {pending'[j], rows'[j], lost'[j]}
               \/ \E q \in Routines : saved'[j] = batch'[q][j]
    BY <1>1, <1>4, <2>3, WrittenIsTaken DEF LastSaveInv, LastSaveIsKept
  <2>4. ASSUME ~closed PROVE saved'[k] \in {pending'[k], rows'[k], lost'[k]}
    <3>1. rows[k] < batch[r][k]  BY <1>1, <1>4 DEF LastSaveInv, WritesAreNewer
    <3>2. batch[r][k] \in Nat /\ batch[r][k] <= saved[k] /\ rows[k] \in Nat
          /\ saved[k] \in Nat /\ lost[k] \in Nat /\ lost[k] <= saved[k]
      BY Numbers
    <3>3. saved[k] \in {pending[k], lost[k], batch[r][k]}
      BY <1>4, <2>1, <2>4, <3>1, <3>2 DEF LastSaveInv, LastSaveIsKept
    <3> QED  BY <1>1, <3>2, <3>3, WrittenIsTaken DEF Greater
  <2> QED  BY <1>1, <1>2, <2>2, <2>3, <2>4 DEF LastSaveInv, LastSaveIsKept
<1> QED  BY <1>3, <1>4

\* A deleted row counts as lost.
LEMMA DeleteKeepsLastSave ==
  ASSUME PersisterInv, LastSaveInv, NEW k \in Keys, DeleteCheckState(k) PROVE LastSaveInv'
<1>1. UNCHANGED <<pending, pc, batch, closed, saved, overlapped>>  BY DEF DeleteCheckState
<1>2. OneFlush'  BY <1>1 DEF LastSaveInv, OneFlush
<1>3. ASSUME NEW j \in Keys
      PROVE  /\ rows'[j] <= rows[j] /\ rows'[j] \in Nat /\ lost'[j] \in {lost[j], rows[j]}
             /\ saved[j] = lost[j] => saved[j] = lost'[j]
             /\ saved[j] = rows[j] => saved[j] \in {lost'[j], rows'[j]}
  <2>1. /\ rows' = [rows EXCEPT ![k] = 0]
        /\ lost' = [lost EXCEPT ![k] = Greater(lost[k], rows[k])]
        /\ rows \in [Keys -> Nat] /\ lost \in [Keys -> Nat]
    BY DEF DeleteCheckState, PersisterInv, TypeOK, Saves
  <2> QED  BY <2>1, Numbers DEF Greater
<1>4. WritesAreNewer'  BY <1>1, <1>3, Numbers DEF LastSaveInv, WritesAreNewer
<1>5. LastSaveIsKept'  BY <1>1, <1>3 DEF LastSaveInv, LastSaveIsKept
<1> QED  BY <1>2, <1>4, <1>5 DEF LastSaveInv

\* Hence every step keeps the last save.
LEMMA LastSaveNext ==
  ASSUME PersisterInv, LastSaveInv, [Next]_vars PROVE LastSaveInv'
<1>1. ASSUME NEW k \in Keys, Save(k) PROVE LastSaveInv'  BY <1>1, SaveKeepsLastSave
<1>2. ASSUME NEW k \in Checks, DeleteCheckState(k) PROVE LastSaveInv'
  BY <1>2, DeleteKeepsLastSave DEF Keys
<1>3. ASSUME NEW r \in Routines, FlushStep(r) PROVE LastSaveInv'
  <2>1. ASSUME EndWrites(r) PROVE LastSaveInv'
    <3>1. \A q \in Routines : Flushing(q)' => Flushing(q)
      BY <2>1, AfterFlushLabel DEF EndWrites, PersisterInv
    <3> QED  BY <2>1, <3>1, QuietKeepsLastSave DEF EndWrites, historyVars
  <2> QED  BY <1>3, <2>1, TakePendingKeepsLastSave, BeginWritesKeepsLastSave,
              WriteRowKeepsLastSave DEF FlushStep
<1>4. ASSUME NEW t \in Timers, Expire(t) \/ Fire(t) PROVE LastSaveInv'
  <2>1. \A q \in Routines : Flushing(q)' => Flushing(q)
    BY <1>4 DEF Expire, Fire, PersisterInv, TypeOK
  <2> QED  BY <1>4, <2>1, QuietKeepsLastSave DEF Expire, Fire, historyVars
<1>5. ASSUME NEW c \in Closers, StopTimer(c) \/ CloseDatabase(c) PROVE LastSaveInv'
  <2>1. \A q \in Routines : Flushing(q)' => Flushing(q)
    BY <1>5 DEF StopTimer, CloseDatabase, PersisterInv, TypeOK
  <2> QED  BY <1>5, <2>1, QuietKeepsLastSave DEF StopTimer, CloseDatabase, historyVars
<1>6. CASE UNCHANGED vars
  BY <1>6, QuietKeepsLastSave DEF vars, historyVars
<1> QED
  BY <1>1, <1>2, <1>3, <1>4, <1>5, <1>6 DEF Next, TimerStep, CloserStep

\* While the persister is open, no race of saves, timers, deletions and Close
\* loses the last save of a key, unless two flushes overlap.
THEOREM LastSaveSafe == Spec => []LastSaveIsKept
<1>1. Init => PersisterInv /\ LastSaveInv  BY PersisterInit, LastSaveInit
<1>2. PersisterInv /\ LastSaveInv /\ [Next]_vars => PersisterInv' /\ LastSaveInv'
  BY PersisterNext, LastSaveNext
<1>3. LastSaveInv => LastSaveIsKept  BY DEF LastSaveInv
<1> QED  BY <1>1, <1>2, <1>3, PTL DEF Spec

-----------------------------------------------------------------------------
(* Close flushes what it was called with, unless flushes overlap. *)

\* The strengthening: from the first call of Close on, what was saved by then
\* is on its way, and a caller that flushes has it in hand itself.
Carried(k) ==
  \/ KeptByClose(k)
  \/ pending[k] >= promised[k]
  \/ \E r \in Routines : batch[r][k] >= promised[k]

CloserCarries(c, k) ==
  /\ Flushing(c) => KeptByClose(k) \/ batch[c][k] >= promised[k]
  /\ pc[c] \in {"closing", "done"} => KeptByClose(k)

CloseInv ==
  /\ \A k \in Keys : promised[k] <= saved[k]
  /\ (\A c \in Closers : pc[c] = "free") => ~closed
  /\ ~overlapped =>
       \A k \in Keys : /\ Carried(k)
                       /\ \A c \in Closers : CloserCarries(c, k)
                       /\ closed => KeptByClose(k)

\* Nothing is promised before Close is called.
LEMMA CloseInit == ASSUME Init PROVE CloseInv
BY DEF Init, Nothing, CloseInv, Carried, CloserCarries, KeptByClose

\* Saves only add to what was promised.
LEMMA SaveKeepsClose ==
  ASSUME PersisterInv, CloseInv, NEW k \in Keys, Save(k) PROVE CloseInv'
<1>1. \A c \in Closers : pc'[c] = pc[c]
  BY DEF Save, scheduleSave, PersisterInv, TypeOK
<1>2. \A j \in Keys : /\ saved'[j] \in {saved[j], saved[j] + 1}
                      /\ pending'[j] = pending[j] \/ pending'[j] = saved[j] + 1
  BY DEF Save, PersisterInv, TypeOK, Saves
<1>3. UNCHANGED <<batch, closed, rows, lost, promised, overlapped>>  BY DEF Save
<1>4. \A j \in Keys : promised[j] \in Nat /\ saved[j] \in Nat /\ promised[j] <= saved[j]
  BY Numbers DEF CloseInv
<1>5. \A j \in Keys : promised'[j] <= saved'[j]  BY <1>2, <1>3, <1>4
<1>6. \A j \in Keys : Carried(j) => Carried(j)'
  BY <1>2, <1>3, <1>4 DEF Carried, KeptByClose
<1> QED  BY <1>1, <1>3, <1>5, <1>6 DEF CloseInv, CloserCarries, KeptByClose

\* Timers come and go beside it.
LEMMA TimerKeepsClose ==
  ASSUME PersisterInv, CloseInv, NEW t \in Timers, Expire(t) \/ Fire(t) PROVE CloseInv'
<1>1. \A c \in Closers : pc'[c] = pc[c]
  BY DEF Expire, Fire, PersisterInv, TypeOK
<1>2. UNCHANGED <<pending, batch, closed, rows, historyVars>>  BY DEF Expire, Fire
<1> QED  BY <1>1, <1>2 DEF historyVars, CloseInv, Carried, CloserCarries, KeptByClose

\* Close promises the last save, which the persister has kept so far.
LEMMA StopTimerKeepsClose ==
  ASSUME PersisterInv, LastSaveInv, CloseInv, NEW c \in Closers, StopTimer(c)
  PROVE  CloseInv'
<1>1. /\ pc[c] = "free" /\ pc'[c] = "flushing"
      /\ \A d \in Closers \ {c} : pc'[d] = pc[d] \/ (pc[d] = "ticking" /\ pc'[d] = "free")
  BY DEF StopTimer, PersisterInv, TypeOK
<1>2. UNCHANGED <<pending, batch, closed, rows, saved, lost, overlapped>>
  BY DEF StopTimer
<1>3. CASE \A d \in Closers : pc[d] = "free"
  <2>1. promised' = saved /\ ~closed'  BY <1>2, <1>3 DEF StopTimer, CloseInv
  <2>2. \A k \in Keys : promised'[k] <= saved'[k]  BY <1>2, <2>1, Numbers
  <2>3. ASSUME ~overlapped', NEW k \in Keys PROVE Carried(k)'
    <3>1. \/ saved[k] \in {pending[k], rows[k], lost[k]}
          \/ \E r \in Routines : saved[k] = batch[r][k]
      BY <1>2, <2>1, <2>3 DEF LastSaveInv, LastSaveIsKept
    <3> QED  BY <1>2, <2>1, <3>1, Numbers DEF Carried, KeptByClose
  <2>4. \A d \in Closers, k \in Keys : CloserCarries(d, k)'
    BY <1>1, <1>3 DEF CloserCarries
  <2> QED  BY <1>1, <2>1, <2>2, <2>3, <2>4 DEF CloseInv
<1>4. CASE ~ \A d \in Closers : pc[d] = "free"
  <2>1. promised' = promised  BY <1>4 DEF StopTimer
  <2> QED  BY <1>1, <1>2, <2>1 DEF CloseInv, Carried, CloserCarries, KeptByClose
<1> QED  BY <1>3, <1>4

\* Without an overlap the routine that takes the pending saves is the only one
\* to carry what was promised.
LEMMA TakePendingKeepsClose ==
  ASSUME PersisterInv, CloseInv, NEW r \in Routines, TakePending(r) PROVE CloseInv'
<1>1. /\ pc[r] = "flushing" /\ pc'[r] = "waiting"
      /\ \A q \in Routines \ {r} : pc'[q] = pc[q]
      /\ UNCHANGED <<closed, rows, saved, lost, promised>>
  BY DEF TakePending, PersisterInv, TypeOK
<1>2. (\A c \in Closers : pc'[c] = "free") => \A c \in Closers : pc[c] = "free"
  BY <1>1
<1>3. CASE overlapped'  BY <1>1, <1>2, <1>3 DEF CloseInv
<1>4. CASE ~overlapped'
  <2>1. ~overlapped /\ \A q \in Routines : ~Flushing(q)  BY <1>4 DEF TakePending
  <2>2. ASSUME NEW k \in Keys PROVE KeptByClose(k) \/ batch'[r][k] >= promised[k]
    <3>1. \A q \in Routines : batch[q][k] = 0
      BY <2>1 DEF PersisterInv, SavesAreApart
    <3>2. batch'[r][k] = pending[k]  BY TakenIsPending
    <3> QED  BY <2>1, <3>1, <3>2, Numbers DEF CloseInv, Carried, KeptByClose
  <2>3. \A k \in Keys : Carried(k)'  BY <1>1, <2>2 DEF Carried, KeptByClose
  <2>4. \A c \in Closers, k \in Keys : CloserCarries(c, k)'
    BY <1>1, <2>1, <2>2 DEF CloseInv, CloserCarries, KeptByClose
  <2> QED  BY <1>1, <1>2, <2>1, <2>3, <2>4 DEF CloseInv, KeptByClose
<1> QED  BY <1>3, <1>4

\* A persister is closed when nothing promised is left to drop.
LEMMA BeginWritesKeepsClose ==
  ASSUME PersisterInv, CloseInv, NEW r \in Routines, BeginWrites(r) PROVE CloseInv'
<1>1. UNCHANGED <<pending, closed, rows, historyVars>> /\ pc[r] = "waiting"
  BY DEF BeginWrites
<1>2. /\ pc'[r] \in {"writing", "closing", "free"} /\ (r \in Closers => pc'[r] # "free")
      /\ \A q \in Routines \ {r} : pc'[q] = pc[q]
  BY AfterFlushLabel DEF BeginWrites, PersisterInv, TypeOK
<1>3. (\A c \in Closers : pc'[c] = "free") => \A c \in Closers : pc[c] = "free"
  BY <1>2
<1>4. CASE closed
  BY <1>1, <1>3, <1>4 DEF historyVars, CloseInv, Carried, CloserCarries, KeptByClose
<1>5. CASE ~closed
  <2>1. batch' = batch /\ pc'[r] = "writing"
    BY <1>5 DEF BeginWrites, PersisterInv, TypeOK
  <2> QED
    BY <1>1, <1>2, <1>3, <2>1 DEF historyVars, CloseInv, Carried, CloserCarries, KeptByClose
<1> QED  BY <1>4, <1>5

\* A write keeps what it carried, or counts it as lost.
LEMMA WriteRowKeepsClose ==
  ASSUME PersisterInv, LastSaveInv, CloseInv,
         NEW r \in Routines, NEW k \in Keys, WriteRow(r, k)
  PROVE  CloseInv'
<1>1. /\ Flushing(r) /\ batch[r][k] # 0
      /\ UNCHANGED <<pending, pc, closed, saved, promised, overlapped>>
  BY DEF WriteRow
<1>2. CASE overlapped  BY <1>1, <1>2 DEF CloseInv
<1>3. CASE ~overlapped
  <2>1. \A q \in Routines \ {r} : ~Flushing(q) /\ \A j \in Keys : batch[q][j] = 0
    BY <1>1, <1>3 DEF LastSaveInv, OneFlush, PersisterInv, SavesAreApart
  <2>2. \A j \in Keys : KeptByClose(j) => KeptByClose(j)'
    <3>1. rows[k] < batch[r][k]  BY <1>1, <1>3 DEF LastSaveInv, WritesAreNewer
    <3>2. KeptByClose(k) => KeptByClose(k)'
      BY <1>1, <3>1, WrittenIsTaken, Numbers DEF KeptByClose, Greater
    <3> QED  BY <1>1, <3>2, WrittenIsTaken DEF KeptByClose
  <2>3. batch[r][k] >= promised[k] => KeptByClose(k)'
    BY <1>1, WrittenIsTaken, Numbers DEF KeptByClose, Greater
  <2>4. \A j \in Keys : KeptByClose(j) \/ batch[r][j] >= promised[j]
                          => KeptByClose(j)' \/ batch'[r][j] >= promised'[j]
    BY <1>1, <2>2, <2>3, WrittenIsTaken
  <2>5. ASSUME NEW j \in Keys, NEW q \in Routines \ {r}, batch[q][j] >= promised[j]
        PROVE  KeptByClose(j)'
    <3>1. promised[j] = 0  BY <2>1, <2>5, Numbers
    <3> QED  BY <2>2, <3>1, Numbers DEF KeptByClose
  <2>6. \A j \in Keys : Carried(j)'
    BY <1>1, <1>3, <2>2, <2>4, <2>5 DEF CloseInv, Carried
  <2>7. \A c \in Closers, j \in Keys : CloserCarries(c, j)'
    BY <1>1, <1>3, <2>1, <2>2, <2>4 DEF CloseInv, CloserCarries
  <2> QED  BY <1>1, <1>3, <2>2, <2>6, <2>7 DEF CloseInv
<1> QED  BY <1>2, <1>3

\* A flush of Close ends with everything promised kept.
LEMMA EndWritesKeepsClose ==
  ASSUME PersisterInv, CloseInv, NEW r \in Routines, EndWrites(r) PROVE CloseInv'
<1>1. /\ UNCHANGED <<pending, batch, closed, rows, historyVars>>
      /\ pc[r] = "writing" /\ \A k \in Keys : batch[r][k] = 0
  BY DEF EndWrites, Nothing
<1>2. /\ pc'[r] \in {"closing", "free"} /\ (r \in Closers => pc'[r] # "free")
      /\ \A q \in Routines \ {r} : pc'[q] = pc[q]
  BY AfterFlushLabel DEF EndWrites, PersisterInv
<1>3. (\A c \in Closers : pc'[c] = "free") => \A c \in Closers : pc[c] = "free"
  BY <1>2
<1>4. ASSUME ~overlapped, r \in Closers, NEW k \in Keys PROVE KeptByClose(k)
  BY <1>1, <1>4, Numbers DEF CloseInv, CloserCarries, KeptByClose
<1> QED
  BY <1>1, <1>2, <1>3, <1>4 DEF historyVars, CloseInv, Carried, CloserCarries, KeptByClose

\* So the database may be closed.
LEMMA CloseDatabaseKeepsClose ==
  ASSUME PersisterInv, CloseInv, NEW c \in Closers, CloseDatabase(c) PROVE CloseInv'
<1>1. /\ pc[c] = "closing" /\ pc'[c] = "done" /\ \A d \in Closers \ {c} : pc'[d] = pc[d]
      /\ UNCHANGED <<pending, batch, rows, historyVars>>
  BY DEF CloseDatabase, PersisterInv, TypeOK
<1> QED  BY <1>1 DEF historyVars, CloseInv, Carried, CloserCarries, KeptByClose

\* A deleted row counts as lost.
LEMMA DeleteKeepsClose ==
  ASSUME PersisterInv, CloseInv, NEW k \in Keys, DeleteCheckState(k) PROVE CloseInv'
<1>1. UNCHANGED <<pending, pc, batch, closed, saved, promised, overlapped>>
  BY DEF DeleteCheckState
<1>2. \A j \in Keys : KeptByClose(j) => KeptByClose(j)'
  <2>1. /\ rows' = [rows EXCEPT ![k] = 0]
        /\ lost' = [lost EXCEPT ![k] = Greater(lost[k], rows[k])]
        /\ rows \in [Keys -> Nat] /\ lost \in [Keys -> Nat]
    BY DEF DeleteCheckState, PersisterInv, TypeOK, Saves
  <2> QED  BY <1>1, <2>1, Numbers DEF KeptByClose, Greater
<1> QED  BY <1>1, <1>2 DEF CloseInv, Carried, CloserCarries

\* Hence every step keeps the promise.
LEMMA CloseNext ==
  ASSUME PersisterInv, LastSaveInv, CloseInv, [Next]_vars PROVE CloseInv'
<1>1. ASSUME NEW k \in Keys, Save(k) PROVE CloseInv'  BY <1>1, SaveKeepsClose
<1>2. ASSUME NEW k \in Checks, DeleteCheckState(k) PROVE CloseInv'
  BY <1>2, DeleteKeepsClose DEF Keys
<1>3. ASSUME NEW r \in Routines, FlushStep(r) PROVE CloseInv'
  BY <1>3, TakePendingKeepsClose, BeginWritesKeepsClose, EndWritesKeepsClose,
     WriteRowKeepsClose DEF FlushStep
<1>4. ASSUME NEW t \in Timers, TimerStep(t) PROVE CloseInv'
  BY <1>3, <1>4, TimerKeepsClose DEF TimerStep
<1>5. ASSUME NEW c \in Closers, StopTimer(c) \/ CloserStep(c) PROVE CloseInv'
  BY <1>3, <1>5, StopTimerKeepsClose, CloseDatabaseKeepsClose DEF CloserStep
<1>6. CASE UNCHANGED vars
  BY <1>6 DEF vars, historyVars, CloseInv, Carried, CloserCarries, KeptByClose
<1> QED  BY <1>1, <1>2, <1>4, <1>5, <1>6 DEF Next

\* What was saved when Close was first called is in the database once it is
\* closed, or its write failed or it was deleted, unless two flushes overlap.
THEOREM CloseSafe == Spec => []UndisturbedCloseFlushes
<1>1. Init => PersisterInv /\ LastSaveInv /\ CloseInv
  BY PersisterInit, LastSaveInit, CloseInit
<1>2. PersisterInv /\ LastSaveInv /\ CloseInv /\ [Next]_vars
        => PersisterInv' /\ LastSaveInv' /\ CloseInv'
  BY PersisterNext, LastSaveNext, CloseNext
<1>3. CloseInv => UndisturbedCloseFlushes
  BY DEF CloseInv, UndisturbedCloseFlushes, CloseFlushes
<1> QED  BY <1>1, <1>2, <1>3, PTL DEF Spec

-----------------------------------------------------------------------------
(* The persister implements the store. *)

\* The saves of a key that may still be written, as StoreSpec reads them.
Waiting(k) == ({pending[k]} \cup {batch[r][k] : r \in Routines}) \ {0}

WaitingMap == [j \in Keys |-> Waiting(j)]

\* A new persister has none.
LEMMA StoreInit == ASSUME Init PROVE Store!Init
<1>1. saved \in [Keys -> Nat] /\ rows = saved  BY DEF Init
<1>2. WaitingMap = [k \in Keys |-> {}]  BY DEF Init, Nothing, WaitingMap, Waiting
<1> QED  BY <1>1, <1>2 DEF Store!Init, WaitingMap, Waiting

\* A step after which the same saves wait and the rows are the same.
LEMMA StoreStutters ==
  ASSUME UNCHANGED <<saved, rows>>, \A k \in Keys : Waiting(k)' = Waiting(k)
  PROVE  UNCHANGED Store!vars
<1>1. WaitingMap' = WaitingMap  BY DEF WaitingMap
<1> QED  BY <1>1 DEF Store!vars, WaitingMap, Waiting

\* A step after which fewer saves wait.
LEMMA StoreGivesUp ==
  ASSUME UNCHANGED <<saved, rows>>, \A k \in Keys : Waiting(k)' \subseteq Waiting(k)
  PROVE  Store!GiveUp
<1>1. WaitingMap' \in [Keys -> SUBSET UNION {WaitingMap[k] : k \in Keys}]
  BY DEF WaitingMap
<1>2. \A k \in Keys : WaitingMap'[k] \subseteq WaitingMap[k]  BY DEF WaitingMap
<1> QED  BY <1>1, <1>2 DEF Store!GiveUp, WaitingMap, Waiting

\* Save accepts, and supersedes the save that was pending.
LEMMA SaveIsAccept ==
  ASSUME PersisterInv, NEW k \in Keys, Save(k) PROVE Store!Accept(k)
<1> DEFINE others == {batch[r][k] : r \in Routines} \ {0}
<1>1. saved' = [saved EXCEPT ![k] = saved[k] + 1] /\ rows' = rows /\ batch' = batch
  BY DEF Save
<1>2. pending' = [pending EXCEPT ![k] = saved[k] + 1] /\ pending \in [Keys -> Nat]
      /\ saved[k] \in Nat
  BY DEF Save, PersisterInv, TypeOK, Saves
<1>3. Waiting(k)' = others \cup {saved[k] + 1} /\ others \in SUBSET Waiting(k)
  BY <1>1, <1>2 DEF Waiting
<1>4. \A j \in Keys \ {k} : Waiting(j)' = Waiting(j)  BY <1>1, <1>2 DEF Waiting
<1>5. WaitingMap' = [WaitingMap EXCEPT ![k] = others \cup {saved[k] + 1}]
  BY <1>3, <1>4 DEF WaitingMap
<1>6. others \in SUBSET WaitingMap[k]  BY <1>3 DEF WaitingMap
<1> QED  BY <1>1, <1>5, <1>6 DEF Store!Accept, WaitingMap, Waiting

\* A flush only takes saves over.
LEMMA TakePendingStutters ==
  ASSUME PersisterInv, NEW r \in Routines, TakePending(r) PROVE UNCHANGED Store!vars
<1>1. ASSUME NEW k \in Keys PROVE Waiting(k)' = Waiting(k)
  <2>1. /\ batch[r][k] = 0 /\ batch'[r][k] = pending[k] /\ pending'[k] = 0
        /\ \A q \in Routines \ {r} : batch'[q][k] = batch[q][k]
    BY TakenIsPending
  <2> QED  BY <2>1 DEF Waiting
<1>2. UNCHANGED <<saved, rows>>  BY DEF TakePending
<1> QED  BY <1>1, <1>2, StoreStutters

\* A closed persister gives up what was taken.
LEMMA BeginWritesGivesUp ==
  ASSUME PersisterInv, NEW r \in Routines, BeginWrites(r) PROVE Store!GiveUp
<1>1. \A q \in Routines, k \in Keys : batch'[q][k] \in {0, batch[q][k]}
  BY DEF BeginWrites, Nothing, PersisterInv, TypeOK
<1>2. UNCHANGED <<pending, saved, rows>>  BY DEF BeginWrites, historyVars
<1>3. \A k \in Keys : Waiting(k)' \subseteq Waiting(k)  BY <1>1, <1>2 DEF Waiting
<1> QED  BY <1>2, <1>3, StoreGivesUp

\* A write stores a save, or gives it up.
LEMMA WriteRowIsStore ==
  ASSUME PersisterInv, NEW r \in Routines, NEW k \in Keys, WriteRow(r, k)
  PROVE  Store!Store(k, batch[r][k]) \/ Store!GiveUp
<1>1. UNCHANGED <<pending, saved>> /\ batch[r][k] # 0  BY DEF WriteRow
<1>2. /\ batch'[r][k] = 0
      /\ \A q \in Routines, j \in Keys : <<q, j>> # <<r, k>> => batch'[q][j] = batch[q][j]
  BY WrittenIsTaken
<1>3. \A j \in Keys \ {k} : Waiting(j)' = Waiting(j)  BY <1>1, <1>2 DEF Waiting
<1>4. batch[r][k] # pending[k] /\ \A q \in Routines \ {r} : batch[q][k] # batch[r][k]
  BY <1>1 DEF PersisterInv, SavesAreApart
<1>5. Waiting(k)' = Waiting(k) \ {batch[r][k]} /\ batch[r][k] \in Waiting(k)
  BY <1>1, <1>2, <1>4 DEF Waiting
<1>6. CASE rows' = rows
  <2>1. \A j \in Keys : Waiting(j)' \subseteq Waiting(j)  BY <1>3, <1>5
  <2> QED  BY <1>1, <1>6, <2>1, StoreGivesUp
<1>7. CASE rows' = [rows EXCEPT ![k] = batch[r][k]]
  <2>1. WaitingMap' = [WaitingMap EXCEPT ![k] = WaitingMap[k] \ {batch[r][k]}]
    BY <1>3, <1>5 DEF WaitingMap
  <2>2. batch[r][k] \in WaitingMap[k]  BY <1>5 DEF WaitingMap
  <2> QED  BY <1>1, <1>7, <2>1, <2>2 DEF Store!Store, WaitingMap, Waiting
<1> QED  BY <1>6, <1>7 DEF WriteRow, WriteSucceeds, WriteFails

\* Every step is a step of the store, or none.
LEMMA StoreNext == ASSUME PersisterInv, [Next]_vars PROVE [Store!Next]_(Store!vars)
<1>1. ASSUME NEW k \in Keys, Save(k) PROVE Store!Next
  BY <1>1, SaveIsAccept DEF Store!Next
<1>2. ASSUME NEW k \in Checks, DeleteCheckState(k) PROVE Store!Next
  <2>1. k \in Keys /\ rows' = [rows EXCEPT ![k] = 0] /\ UNCHANGED <<saved, pending, batch>>
    BY <1>2 DEF DeleteCheckState, Keys
  <2>2. Store!Delete(k)  BY <2>1 DEF Store!Delete
  <2> QED  BY <2>1, <2>2 DEF Store!Next
<1>3. ASSUME UNCHANGED <<pending, batch, saved, rows>> PROVE UNCHANGED Store!vars
  BY <1>3, StoreStutters DEF Waiting
<1>4. ASSUME NEW r \in Routines, FlushStep(r) PROVE [Store!Next]_(Store!vars)
  <2>1. CASE TakePending(r)  BY <2>1, TakePendingStutters
  <2>2. CASE BeginWrites(r)  BY <2>2, BeginWritesGivesUp DEF Store!Next
  <2>3. CASE EndWrites(r)  BY <1>3, <2>3 DEF EndWrites, historyVars
  <2>4. ASSUME NEW k \in Keys, WriteRow(r, k) PROVE Store!Next
    <3>1. Store!Store(k, batch[r][k]) \/ Store!GiveUp  BY <2>4, WriteRowIsStore
    <3>2. batch[r][k] \in Waiting(k)
      BY <2>4 DEF WriteRow, Waiting
    <3>3. batch[r][k] \in WaitingMap[k]  BY <3>2 DEF WaitingMap
    <3>4. CASE Store!GiveUp  BY <3>4 DEF Store!Next
    <3>5. CASE Store!Store(k, batch[r][k])
      <4>1. \E save \in WaitingMap[k] : Store!Store(k, save)
        BY <3>3, <3>5 DEF Store!Store
      <4> QED  BY <4>1 DEF Store!Next, Store!Store, WaitingMap, Waiting
    <3> QED  BY <3>1, <3>4, <3>5
  <2> QED  BY <1>4, <2>1, <2>2, <2>3, <2>4 DEF FlushStep
<1>5. ASSUME NEW t \in Timers, Expire(t) \/ Fire(t) PROVE UNCHANGED Store!vars
  BY <1>3, <1>5 DEF Expire, Fire, historyVars
<1>6. ASSUME NEW c \in Closers, StopTimer(c) \/ CloseDatabase(c)
      PROVE  UNCHANGED Store!vars
  BY <1>3, <1>6 DEF StopTimer, CloseDatabase, historyVars
<1>7. CASE UNCHANGED vars  BY <1>3, <1>7 DEF vars, historyVars
<1> QED
  BY <1>1, <1>2, <1>4, <1>5, <1>6, <1>7 DEF Next, TimerStep, CloserStep

\* Behind its timers and locks the persister is a store that writes a save at
\* most once, never after it was superseded or given up.
THEOREM PersisterImplementsStore == Spec => StoreSpec
<1>1. Init => PersisterInv /\ Store!Init  BY PersisterInit, StoreInit
<1>2. PersisterInv /\ [Next]_vars => PersisterInv'  BY PersisterNext
<1>3. PersisterInv /\ [Next]_vars => [Store!Next]_(Store!vars)  BY StoreNext
<1> QED  BY <1>1, <1>2, <1>3, PTL DEF Spec, StoreSpec, Store!Spec
=============================================================================
