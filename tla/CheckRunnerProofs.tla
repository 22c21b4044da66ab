--------------------------- MODULE CheckRunnerProofs ---------------------------
(***************************************************************************)
(* For any number of loops and runs: however often a check is started and  *)
(* paused, the loops that go on are that of the last Start and those that  *)
(* a Start on the running check left behind, which go on for good.         *)
(***************************************************************************)
EXTENDS CheckRunner, TLAPS

USE NoLoopAssumption
USE DEF Running, LeftRunning

\* A check is created without a loop.
LEMMA RunnerInit == ASSUME Init PROVE LoopsThatGoOn
<1> USE DEF Init
<1>1. TypeOK  BY DEF TypeOK, NoRun
<1> QED  BY <1>1 DEF LoopsThatGoOn

\* A new loop takes the place of one that Pause has stopped, or of none, or
\* leaves a running one behind.
LEMMA StartKeepsInv ==
  ASSUME LoopsThatGoOn, NEW l \in Loops, Start(l) PROVE LoopsThatGoOn'
<1> USE DEF LoopsThatGoOn, Start
<1>1. TypeOK'
  <2>1. orphans' \subseteq Loops  BY DEF TypeOK
  <2>2. stopped' \in [Loops -> BOOLEAN]  BY DEF TypeOK
  <2> QED  BY <2>1, <2>2 DEF TypeOK
<1>2. current' = l /\ l # NoLoop /\ ~paused' /\ ~stopped'[l]
  BY DEF TypeOK
<1>3. l \notin Running /\ l \notin orphans \cup LeftRunning  OBVIOUS
<1>4. {k \in Running' : ~stopped'[k]} = {k \in Running : ~stopped[k]} \cup {l}
  BY DEF TypeOK
<1> QED  BY <1>1, <1>2, <1>3, <1>4

\* Pause stops the loop of the last Start.
LEMMA PauseKeepsInv ==
  ASSUME LoopsThatGoOn, Pause PROVE LoopsThatGoOn'
<1> USE DEF LoopsThatGoOn, Pause
<1>1. TypeOK'  BY DEF TypeOK
<1>2. current' = current /\ paused' /\ stopped'[current']  BY DEF TypeOK
<1>3. {k \in Running' : ~stopped'[k]} = {k \in Running : ~stopped[k]} \ {current}
  BY DEF TypeOK
<1>4. LeftRunning = {current} /\ LeftRunning' = {}  OBVIOUS
<1> QED  BY <1>1, <1>2, <1>3, <1>4

\* A run starts, and its loop goes on.
LEMMA TickKeepsInv ==
  ASSUME LoopsThatGoOn, NEW l \in Loops, Tick(l) PROVE LoopsThatGoOn'
<1> USE DEF LoopsThatGoOn, Tick
<1>1. run' \in [Runs -> [pc : {"free", "starting", "selecting"}, ready : SUBSET Ready]]
  BY DEF TypeOK, check
<1>2. Running' = Running  BY DEF TypeOK
<1> QED  BY <1>1, <1>2 DEF TypeOK

\* Its timer gets due.
LEMMA TimerDueKeepsInv ==
  ASSUME LoopsThatGoOn, NEW l \in Loops, TimerDue(l) PROVE LoopsThatGoOn'
<1> USE DEF LoopsThatGoOn, TimerDue
<1>1. Running' = Running  BY DEF TypeOK
<1> QED  BY <1>1 DEF TypeOK

\* A loop ends only if it was stopped, so never the one that goes on.
LEMMA EndLoopKeepsInv ==
  ASSUME LoopsThatGoOn, NEW l \in Loops, EndLoop(l) PROVE LoopsThatGoOn'
<1> USE DEF LoopsThatGoOn, EndLoop
<1>1. Running' = Running \ {l} /\ stopped[l]  BY DEF TypeOK
<1> QED  BY <1>1 DEF TypeOK

\* A run has no part in the loops.
LEMMA RunStepKeepsInv ==
  ASSUME LoopsThatGoOn, NEW r \in Runs, RunStep(r) PROVE LoopsThatGoOn'
<1>1. run' \in [Runs -> [pc : {"free", "starting", "selecting"}, ready : SUBSET Ready]]
  <2> USE DEF LoopsThatGoOn, TypeOK, Ready
  <2>1. CASE Answer(r)    BY <2>1 DEF Answer, Arrives
  <2>2. CASE Deadline(r)  BY <2>2 DEF Deadline, Arrives
  <2>3. CASE Wait(r)      BY <2>3 DEF Wait
  <2>4. CASE Report(r)    BY <2>4 DEF Report, NoRun
  <2> QED  BY <2>1, <2>2, <2>3, <2>4 DEF RunStep
<1>2. UNCHANGED <<paused, current, stopped, loop, orphans>>
  BY DEF RunStep, Answer, Deadline, Arrives, Wait, Report
<1> QED  BY <1>1, <1>2 DEF LoopsThatGoOn, TypeOK

\* Hence every step keeps the invariant.
LEMMA RunnerNext == ASSUME LoopsThatGoOn, [Next]_vars PROVE LoopsThatGoOn'
<1>1. CASE Pause  BY <1>1, PauseKeepsInv
<1>2. ASSUME NEW l \in Loops, Start(l) PROVE LoopsThatGoOn'  BY <1>2, StartKeepsInv
<1>3. ASSUME NEW l \in Loops, LoopStep(l) PROVE LoopsThatGoOn'
  BY <1>3, TickKeepsInv, TimerDueKeepsInv, EndLoopKeepsInv DEF LoopStep
<1>4. ASSUME NEW r \in Runs, RunStep(r) PROVE LoopsThatGoOn'  BY <1>4, RunStepKeepsInv
<1>5. CASE UNCHANGED vars
  BY <1>5 DEF vars, LoopsThatGoOn, TypeOK
<1> QED  BY <1>1, <1>2, <1>3, <1>4, <1>5 DEF Next

\* Pause never closes a channel twice, no resumption revives a loop that was
\* paused, and a Start on a running check leaves a loop that nothing stops.
THEOREM RunnerSafe == Spec => []LoopsThatGoOn
<1>1. Init => LoopsThatGoOn  BY RunnerInit
<1>2. LoopsThatGoOn /\ [Next]_vars => LoopsThatGoOn'  BY RunnerNext
<1> QED  BY <1>1, <1>2, PTL DEF Spec
=============================================================================
