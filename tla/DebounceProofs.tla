--------------------------- MODULE DebounceProofs ---------------------------
(***************************************************************************)
(* For every choice of thresholds and every sequence of results: the       *)
(* counters match the log, so the status changes exactly when the log ends *)
(* in a run of the promised length, and subscribers are told of each       *)
(* change once.                                                            *)
(***************************************************************************)
EXTENDS Debounce, TLAPS

USE ThresholdAssumption, MaxResultsAssumption

\* Before the first result nothing is counted and only the start was told.
LEMMA DebounceInit == ASSUME Init PROVE DebounceInv
<1> USE DEF Init
<1>1. updater = NewUpdater /\ updater \in Updaters
  BY DEF NewUpdater, Updaters, Results
<1>2. /\ told \in Seq(Results \cup {"initializing"})
      /\ told # <<>>
      /\ Latest(told) = "initializing"
  BY DEF Latest
<1>3. TypeOK
  <2>1. log \in Seq(Results)  OBVIOUS
  <2>2. unheard \in BOOLEAN  OBVIOUS
  <2> QED  BY <1>1, <1>2, <2>1, <2>2, Zenon DEF TypeOK
<1>4. CountersMatchLog
  <2>1. Len(log) = 0 /\ updater.successes = 0 /\ updater.failures = 0
    BY <1>1 DEF NewUpdater
  <2> QED  BY <2>1 DEF CountersMatchLog
<1>5. SubscribersKnow   BY <1>1 DEF NewUpdater, SubscribersKnow
<1> QED  BY <1>2, <1>3, <1>4, <1>5 DEF DebounceInv

\* The counters of a result stay in range, and they are all it changes unless
\* it crosses its threshold.
LEMMA CountedType ==
  ASSUME NEW u \in Updaters, NEW result \in Results
  PROVE  /\ Counted(u, result) \in Updaters
         /\ Updated(u, result) \in Updaters
         /\ Updated(u, result).successes = Counted(u, result).successes
         /\ Updated(u, result).failures = Counted(u, result).failures
<1>1. /\ Counting(u.successes) \in 0..CounterCap
      /\ Counting(u.failures) \in 0..CounterCap
  BY DEF Counting, Updaters
<1>2. Counted(u, result) \in Updaters
  <2>1. 0 \in 0..CounterCap  OBVIOUS
  <2>2. CASE result = "passing"
    <3>1. Counted(u, result) =
            [u EXCEPT !.successes = Counting(u.successes), !.failures = 0]
      BY <2>2 DEF Counted
    <3> QED  BY <1>1, <2>1, <3>1 DEF Updaters
  <2>3. CASE result # "passing"
    <3>1. Counted(u, result) =
            [u EXCEPT !.failures = Counting(u.failures), !.successes = 0]
      BY <2>3 DEF Counted
    <3> QED  BY <1>1, <2>1, <3>1 DEF Updaters
  <2> QED  BY <2>2, <2>3
<1>3. CASE Crosses(u, result)
  <2>1. Updated(u, result) =
          [Counted(u, result) EXCEPT !.status = result, !.initialized = TRUE]
    BY <1>3 DEF Updated
  <2> QED  BY <1>2, <2>1 DEF Updaters
<1>4. CASE ~Crosses(u, result)
  BY <1>2, <1>4 DEF Updated
<1> QED  BY <1>2, <1>3, <1>4

\* Adding a result keeps the counters equal to the run the log ends in.
LEMMA CountersFollowLog ==
  ASSUME DebounceInv, NEW result \in Results,
         log' = Append(log, result), updater' = Updated(updater, result)
  PROVE  CountersMatchLog'
<1>1. /\ updater'.successes = Counted(updater, result).successes
      /\ updater'.failures = Counted(updater, result).failures
  BY CountedType DEF DebounceInv, TypeOK
<1>2. /\ log \in Seq(Results)
      /\ Len(log) \in Nat
      /\ Len(log') = Len(log) + 1
      /\ log'[Len(log) + 1] = result
      /\ \A i \in 1..Len(log) : log'[i] = log[i]
  BY DEF DebounceInv, TypeOK
<1>3. CASE result = "passing"
  <2>1. /\ updater'.failures = 0
        /\ updater'.successes = Counting(updater.successes)
    BY <1>1, <1>3 DEF Counted, DebounceInv, TypeOK, Updaters
  <2>2. /\ \A i \in Len(log) - updater.successes + 1 .. Len(log) : log[i] = "passing"
        /\ updater.successes < CounterCap /\ updater.successes < Len(log)
             => log[Len(log) - updater.successes] # "passing"
        /\ updater.successes \in 0..CounterCap /\ updater.successes <= Len(log)
    BY DEF DebounceInv, CountersMatchLog, TypeOK, Updaters
  <2>3. updater'.successes \in 0..CounterCap /\ updater'.successes <= updater.successes + 1
    BY <2>1, <2>2 DEF Counting
  <2>4. \A i \in Len(log') - updater'.successes + 1 .. Len(log') : log'[i] = "passing"
    BY <1>2, <1>3, <2>2, <2>3
  <2>5. ASSUME updater'.successes < CounterCap, updater'.successes < Len(log')
        PROVE  log'[Len(log') - updater'.successes] # "passing"
    <3>1. updater'.successes = updater.successes + 1  BY <2>1, <2>2, <2>5 DEF Counting
    <3> QED  BY <1>2, <2>2, <2>5, <3>1
  <2>6. /\ updater'.failures <= Len(log')
        /\ updater'.successes <= Len(log')
        /\ \A i \in Len(log') - updater'.failures + 1 .. Len(log') : log'[i] # "passing"
    BY <1>2, <2>1, <2>2, <2>3
  <2>7. updater'.failures < CounterCap /\ updater'.failures < Len(log')
          => log'[Len(log') - updater'.failures] = "passing"
    BY <1>2, <1>3, <2>1
  <2> QED  BY <2>4, <2>5, <2>6, <2>7 DEF CountersMatchLog
<1>4. CASE result # "passing"
  <2>1. /\ updater'.successes = 0
        /\ updater'.failures = Counting(updater.failures)
    BY <1>1, <1>4 DEF Counted, DebounceInv, TypeOK, Updaters
  <2>2. /\ \A i \in Len(log) - updater.failures + 1 .. Len(log) : log[i] # "passing"
        /\ updater.failures < CounterCap /\ updater.failures < Len(log)
             => log[Len(log) - updater.failures] = "passing"
        /\ updater.failures \in 0..CounterCap /\ updater.failures <= Len(log)
    BY DEF DebounceInv, CountersMatchLog, TypeOK, Updaters
  <2>3. updater'.failures \in 0..CounterCap /\ updater'.failures <= updater.failures + 1
    BY <2>1, <2>2 DEF Counting
  <2>4. \A i \in Len(log') - updater'.failures + 1 .. Len(log') : log'[i] # "passing"
    BY <1>2, <1>4, <2>2, <2>3
  <2>5. ASSUME updater'.failures < CounterCap, updater'.failures < Len(log')
        PROVE  log'[Len(log') - updater'.failures] = "passing"
    <3>1. updater'.failures = updater.failures + 1  BY <2>1, <2>2, <2>5 DEF Counting
    <3> QED  BY <1>2, <2>2, <2>5, <3>1
  <2>6. /\ updater'.successes <= Len(log')
        /\ updater'.failures <= Len(log')
        /\ \A i \in Len(log') - updater'.successes + 1 .. Len(log') : log'[i] = "passing"
    BY <1>2, <2>1, <2>2, <2>3
  <2>7. updater'.successes < CounterCap /\ updater'.successes < Len(log')
          => log'[Len(log') - updater'.successes] # "passing"
    BY <1>2, <1>4, <2>1
  <2> QED  BY <2>4, <2>5, <2>6, <2>7 DEF CountersMatchLog
<1> QED  BY <1>3, <1>4

\* What the code decides with its counters is what the log says: a result
\* crosses its threshold exactly when it completes a run of that length.
LEMMA CrossesIffRunComplete ==
  ASSUME DebounceInv, NEW result \in Results,
         log' = Append(log, result), updater' = Updated(updater, result)
  PROVE  Crosses(updater, result) <=> RunComplete(log')
<1>1. CountersMatchLog'  BY CountersFollowLog
<1>2. /\ updater'.successes = Counted(updater, result).successes
      /\ updater'.failures = Counted(updater, result).failures
      /\ updater' \in Updaters
  BY CountedType DEF DebounceInv, TypeOK
<1>3. /\ log' \in Seq(Results)
      /\ log' # <<>>
      /\ Len(log') \in Nat
      /\ Latest(log') = result
      /\ \A i \in 1..Len(log') : log'[i] \in Results
  BY DEF DebounceInv, TypeOK, Latest
<1>4. /\ Threshold(result) \in Nat \ {0}
      /\ Threshold(result) <= CounterCap
  BY DEF Threshold
<1>5. CASE result = "passing"
  <2> DEFINE T == Threshold(result)
             k == updater'.successes
  <2>1. Crosses(updater, result) <=> k >= T
    BY <1>2, <1>5 DEF Crosses
  <2>2. RunComplete(log') <=>
          /\ Len(log') >= T
          /\ \A i \in Len(log') - T + 1 .. Len(log') : log'[i] = "passing"
    BY <1>3, <1>4, <1>5 DEF RunComplete, Towards
  <2>3. /\ k \in 0..CounterCap /\ k <= Len(log')
        /\ \A i \in Len(log') - k + 1 .. Len(log') : log'[i] = "passing"
        /\ k < CounterCap /\ k < Len(log') => ~(log'[Len(log') - k] = "passing")
    BY <1>1, <1>2 DEF CountersMatchLog, Updaters
  <2> HIDE DEF T, k
  <2>t. T \in Nat \ {0} /\ T <= CounterCap  BY <1>4 DEF T
  <2>4. ASSUME k >= T  PROVE RunComplete(log')
    <3>1. Len(log') - T + 1 .. Len(log') \subseteq Len(log') - k + 1 .. Len(log')
      BY <1>3, <2>3, <2>4, <2>t
    <3> QED  BY <1>3, <2>2, <2>3, <2>4, <2>t, <3>1
  <2>5. ASSUME k < T  PROVE ~RunComplete(log')
    <3>1. CASE k < Len(log')
      <4>1. Len(log') >= T => Len(log') - k \in Len(log') - T + 1 .. Len(log')
        BY <1>3, <2>3, <2>5, <2>t
      <4>2. ~(log'[Len(log') - k] = "passing")
        BY <2>3, <2>5, <2>t, <3>1
      <4>3. SUFFICES ASSUME RunComplete(log')
                     PROVE  FALSE
        OBVIOUS
      <4>4. Len(log') - k \in Len(log') - T + 1 .. Len(log')
        BY <2>2, <4>1, <4>3
      <4> QED  BY <2>2, <4>2, <4>3, <4>4
    <3>2. CASE k = Len(log')  BY <1>3, <2>2, <2>5, <2>t, <3>2
    <3> QED  BY <1>3, <2>3, <3>1, <3>2
  <2> QED  BY <2>1, <2>3, <2>4, <2>5, <2>t
<1>6. CASE result # "passing"
  <2> DEFINE T == Threshold(result)
             k == updater'.failures
  <2>1. Crosses(updater, result) <=> k >= T
    BY <1>2, <1>6 DEF Crosses
  <2>2. RunComplete(log') <=>
          /\ Len(log') >= T
          /\ \A i \in Len(log') - T + 1 .. Len(log') : log'[i] # "passing"
    BY <1>3, <1>4, <1>6 DEF RunComplete, Towards, Failing, Results
  <2>3. /\ k \in 0..CounterCap /\ k <= Len(log')
        /\ \A i \in Len(log') - k + 1 .. Len(log') : log'[i] # "passing"
        /\ k < CounterCap /\ k < Len(log') => ~(log'[Len(log') - k] # "passing")
    BY <1>1, <1>2 DEF CountersMatchLog, Updaters
  <2> HIDE DEF T, k
  <2>t. T \in Nat \ {0} /\ T <= CounterCap  BY <1>4 DEF T
  <2>4. ASSUME k >= T  PROVE RunComplete(log')
    <3>1. Len(log') - T + 1 .. Len(log') \subseteq Len(log') - k + 1 .. Len(log')
      BY <1>3, <2>3, <2>4, <2>t
    <3> QED  BY <1>3, <2>2, <2>3, <2>4, <2>t, <3>1
  <2>5. ASSUME k < T  PROVE ~RunComplete(log')
    <3>1. CASE k < Len(log')
      <4>1. Len(log') >= T => Len(log') - k \in Len(log') - T + 1 .. Len(log')
        BY <1>3, <2>3, <2>5, <2>t
      <4>2. ~(log'[Len(log') - k] # "passing")
        BY <2>3, <2>5, <2>t, <3>1
      <4>3. SUFFICES ASSUME RunComplete(log')
                     PROVE  FALSE
        OBVIOUS
      <4>4. Len(log') - k \in Len(log') - T + 1 .. Len(log')
        BY <2>2, <4>1, <4>3
      <4> QED  BY <2>2, <4>2, <4>3, <4>4
    <3>2. CASE k = Len(log')  BY <1>3, <2>2, <2>5, <2>t, <3>2
    <3> QED  BY <1>3, <2>3, <3>1, <3>2
  <2> QED  BY <2>1, <2>3, <2>4, <2>5, <2>t
<1> QED  BY <1>5, <1>6

-----------------------------------------------------------------------------
\* One result: what it leaves of the invariant, in the order of DebounceInv.
LEMMA UpdateInv ==
  ASSUME DebounceInv, NEW result \in Results, NEW disableNotification \in BOOLEAN,
         update(result, disableNotification)
  PROVE  DebounceInv'
<1>1. updater' = Updated(updater, result) /\ log' = Append(log, result)
  BY DEF update
<1>2. updater \in Updaters /\ updater' \in Updaters
  BY <1>1, CountedType DEF DebounceInv, TypeOK
<1>3. /\ told \in Seq(Results \cup {"initializing"}) /\ told # <<>>
      /\ Len(Append(told, result)) = Len(told) + 1
      /\ Append(told, result) # <<>>
      /\ Latest(Append(told, result)) = result
      /\ Append(told, result) \in Seq(Results \cup {"initializing"})
  BY DEF DebounceInv, TypeOK, Latest
<1>4. TypeOK'
  <2>1. log' \in Seq(Results)  BY <1>1 DEF DebounceInv, TypeOK
  <2>2. unheard' \in BOOLEAN  BY DEF update, DebounceInv, TypeOK
  <2>3. told' \in Seq(Results \cup {"initializing"})  BY <1>3 DEF update
  <2> QED  BY <1>2, <2>1, <2>2, <2>3 DEF TypeOK
<1>5. CountersMatchLog'  BY <1>1, CountersFollowLog
<1>6. told' # <<>>  BY <1>3 DEF update
<1>7. CASE Crosses(updater, result)
  <2>1. updater'.status = result /\ updater'.initialized
    BY <1>1, <1>7, <1>2, CountedType DEF Updated, Updaters
  <2>2. CASE Notifies(updater, result, disableNotification)
    <3>1. Latest(told') = result  BY <1>3, <2>2 DEF update
    <3> QED  BY <1>4, <1>5, <1>6, <2>1, <3>1 DEF DebounceInv, SubscribersKnow
  <2>3. CASE ~Notifies(updater, result, disableNotification)
    <3>1. told' = told
      BY <2>3 DEF update
    <3>2. ~unheard' => /\ ~unheard
                       /\ updater.initialized /\ updater.status = result
      BY <1>2, <1>7, <2>3, Zenon DEF update, Notifies, DebounceInv, TypeOK, Updaters
    <3>3. SubscribersKnow'
      BY <2>1, <3>1, <3>2 DEF DebounceInv, SubscribersKnow, Latest
    <3> QED  BY <1>4, <1>5, <1>6, <2>1, <3>3 DEF DebounceInv
  <2> QED  BY <2>2, <2>3
<1>8. CASE ~Crosses(updater, result)
  <2>1. /\ updater'.status = updater.status
        /\ updater'.initialized = updater.initialized
    BY <1>1, <1>2, <1>8 DEF Updated, Counted, Updaters
  <2>2. ~Notifies(updater, result, disableNotification) /\ ~Notifies(updater, result, FALSE)
    BY <1>8 DEF Notifies
  <2>3. told' = told /\ (~unheard' => ~unheard)
    BY <2>2 DEF update
  <2>4. SubscribersKnow'
    BY <2>1, <2>3 DEF DebounceInv, SubscribersKnow, Latest
  <2>5. ~updater'.initialized => Latest(told') = "initializing"
    BY <2>1, <2>3 DEF DebounceInv, Latest
  <2> QED  BY <1>4, <1>5, <1>6, <2>4, <2>5 DEF DebounceInv
<1> QED  BY <1>7, <1>8

\* Every step is one result, or leaves everything as it was.
LEMMA DebounceNext == ASSUME DebounceInv, [Next]_vars PROVE DebounceInv'
<1>1. ASSUME NEW result \in Results, NEW disableNotification \in BOOLEAN,
             update(result, disableNotification)
      PROVE  DebounceInv'
  BY <1>1, UpdateInv
<1>2. CASE UNCHANGED vars
  BY <1>2 DEF vars, DebounceInv, TypeOK, CountersMatchLog, SubscribersKnow, Latest
<1> QED  BY <1>1, <1>2 DEF Next, Results

\* The inductive invariant, for every choice of thresholds.
THEOREM DebounceSafe == Spec => []DebounceInv
<1>1. Init => DebounceInv  BY DebounceInit
<1>2. DebounceInv /\ [Next]_vars => DebounceInv'  BY DebounceNext
<1> QED  BY <1>1, <1>2, PTL DEF Spec

\* The status changes only to the kind of the result that completes a run of
\* the promised length.
THEOREM StatusNeedsRun == Spec => EnteredAfterRun
<1>1. ASSUME DebounceInv, [Next]_vars
      PROVE  [updater'.status # updater.status =>
                RunComplete(log') /\ updater'.status = Latest(log')]_vars
  <2>1. ASSUME NEW result \in Results, NEW disableNotification \in BOOLEAN,
               update(result, disableNotification),
               updater'.status # updater.status
        PROVE  RunComplete(log') /\ updater'.status = Latest(log')
    <3>1. updater' = Updated(updater, result) /\ log' = Append(log, result)
      BY <2>1 DEF update
    <3>2. updater \in Updaters /\ log \in Seq(Results)
      BY <1>1 DEF DebounceInv, TypeOK
    <3>3. Crosses(updater, result)
      BY <2>1, <3>1, <3>2 DEF Updated, Counted, Updaters
    <3>4. updater'.status = result
      BY <3>1, <3>2, <3>3, CountedType DEF Updated, Updaters
    <3>5. Latest(log') = result  BY <3>1, <3>2 DEF Latest
    <3> QED  BY <1>1, <3>1, <3>3, <3>4, <3>5, CrossesIffRunComplete
  <2> QED  BY <1>1, <2>1 DEF Next, Results
<1> QED  BY <1>1, DebounceSafe, PTL DEF Spec, EnteredAfterRun

\* No result is held back: whenever the log ends in a run of the promised
\* length, its last result is the status.
THEOREM RunReachesStatus == Spec => []ReachedAfterRun
<1>1. Init => ReachedAfterRun  BY DEF Init, ReachedAfterRun, RunComplete
<1>2. ASSUME DebounceInv, ReachedAfterRun, [Next]_vars
      PROVE  ReachedAfterRun'
  <2>1. ASSUME NEW result \in Results, NEW disableNotification \in BOOLEAN,
               update(result, disableNotification), RunComplete(log')
        PROVE  updater'.status = Latest(log') /\ updater'.initialized
    <3>1. updater' = Updated(updater, result) /\ log' = Append(log, result)
      BY <2>1 DEF update
    <3>2. updater \in Updaters /\ log \in Seq(Results)
      BY <1>2 DEF DebounceInv, TypeOK
    <3>3. Crosses(updater, result)
      BY <1>2, <2>1, <3>1, CrossesIffRunComplete
    <3>4. updater'.status = result /\ updater'.initialized
      BY <3>1, <3>2, <3>3, CountedType DEF Updated, Updaters
    <3>5. Latest(log') = result  BY <3>1, <3>2 DEF Latest
    <3> QED  BY <3>4, <3>5
  <2>2. CASE UNCHANGED vars
    BY <1>2, <2>2 DEF vars, ReachedAfterRun, RunComplete, Latest
  <2> QED  BY <1>2, <2>1, <2>2 DEF Next, Results, ReachedAfterRun
<1> QED  BY <1>1, <1>2, DebounceSafe, PTL DEF Spec

\* No notification repeats the one before it, unless a status in between was
\* kept silent.
THEOREM NothingToldTwice == Spec => NoRepeatedAlert
<1>1. ASSUME DebounceInv, [Next]_vars
      PROVE  [told' # told /\ ~unheard => Latest(told') # Latest(told)]_vars
  <2>1. ASSUME NEW result \in Results, NEW disableNotification \in BOOLEAN,
               update(result, disableNotification),
               told' # told, ~unheard
        PROVE  Latest(told') # Latest(told)
    <3>1. Notifies(updater, result, disableNotification)
      BY <2>1 DEF update
    <3>2. told' = Append(told, result) /\ Latest(told') = result
      BY <1>1, <2>1, <3>1 DEF update, DebounceInv, TypeOK, Latest
    <3>3. Latest(told) # result
      BY <1>1, <2>1, <3>1 DEF Notifies, DebounceInv, SubscribersKnow, Results
    <3> QED  BY <3>2, <3>3
  <2> QED  BY <1>1, <2>1 DEF Next, Results
<1> QED  BY <1>1, DebounceSafe, PTL DEF Spec, NoRepeatedAlert
=============================================================================
