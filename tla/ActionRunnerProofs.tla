-------------------------- MODULE ActionRunnerProofs --------------------------
(***************************************************************************)
(* For every configuration, any cooldowns and any length of time, restarts *)
(* included: when the commands of a check run.                             *)
(***************************************************************************)
EXTENDS ActionRunner, TLAPS

USE BoundAssumption, SecondAssumption, ConfigurationAssumption
USE DEF Never, Times

\* Whole seconds.
Whole(t) == (t \div TicksPerSecond) * TicksPerSecond

\* An action keeps its permission to run only when it has nothing to run.
NothingToRun == \A k \in Kinds : runner.canRun[k] => ~config[k].command

\* lastRun is the time of the last run, less the part of a second that a row
\* leaves out.  An action that is not configured has none.
TimesAgree ==
  \A k \in Kinds :
    /\ startedAt[k] <= clock
    /\ startedAt[k] = Never \/ (startedAt[k] >= 0 /\ config[k].configured)
    /\ \/ runner.lastRun[k] = startedAt[k]
       \/ startedAt[k] >= 0 /\ runner.lastRun[k] = Whole(startedAt[k])

\* After the run of a command the status stays, until a result of another kind.
StatusRemembers ==
  \A k \in Kinds : HasRun(k) /\ since[k] \subseteq {k} => runner.status = k

RunnerInv == TypeOK /\ NothingToRun /\ TimesAgree /\ StatusRemembers

-----------------------------------------------------------------------------
\* What a row leaves out is less than a second, and nothing the second time.
LEMMA WholeSeconds ==
  ASSUME NEW t \in Nat
  PROVE  /\ Whole(t) \in Nat /\ Whole(t) <= t /\ t < Whole(t) + TicksPerSecond
         /\ Whole(Whole(t)) = Whole(t)
<1>1. t \div TicksPerSecond \in Nat  OBVIOUS
<1>2. Whole(t) <= t /\ t < Whole(t) + TicksPerSecond  BY DEF Whole
<1>3. Whole(t) \in Nat  BY <1>1 DEF Whole
<1>4. ((t \div TicksPerSecond) * TicksPerSecond) \div TicksPerSecond = t \div TicksPerSecond
  OBVIOUS
<1> QED  BY <1>2, <1>3, <1>4 DEF Whole

\* The fields of an action.
LEMMA ActionTypes ==
  ASSUME TypeOK, NEW k \in Kinds
  PROVE  /\ config[k].cooldown \in 0..MaxCooldown
         /\ config[k].command \in BOOLEAN /\ config[k].configured \in BOOLEAN
BY DEF TypeOK, Actions

\* A command runs only when its action is unlocked by this very result.
LEMMA RunsUnlocked ==
  ASSUME NothingToRun, NEW k \in Kinds, Runs(k)
  PROVE  config[k].configured /\ Unlocked(k)
BY DEF Runs, CanRun, NothingToRun

\* The runner after a result, field by field.
LEMMA HandledFields ==
  ASSUME TypeOK, NEW k \in Kinds, Handle(k)
  PROVE  /\ runner' \in [status : Kinds \cup {"initializing"},
                         canRun : [Kinds -> BOOLEAN], lastRun : [Kinds -> Times]]
         /\ runner'.status = IF config[k].configured => Unlocked(k) THEN k ELSE runner.status
         /\ runner'.canRun[k] => CanRun(k) /\ ~Runs(k)
         /\ runner'.lastRun[k] = IF Runs(k) THEN clock ELSE runner.lastRun[k]
         /\ \A j \in Kinds \ {k} : /\ runner'.canRun[j] = runner.canRun[j]
                                   /\ runner'.lastRun[j] = runner.lastRun[j]
<1> DEFINE status == IF config[k].configured => Unlocked(k) THEN k ELSE runner.status
           canRun == [runner.canRun EXCEPT ![k] = CanRun(k) /\ ~Runs(k)]
           lastRun == [runner.lastRun EXCEPT ![k] = IF Runs(k) THEN clock ELSE @]
<1>1. runner' = [status |-> status, canRun |-> canRun, lastRun |-> lastRun]
  BY DEF Handle, Handled, TypeOK, Runners
<1>2. status \in Kinds \cup {"initializing"}  BY DEF TypeOK, Runners
<1>3. canRun \in [Kinds -> BOOLEAN] /\ (canRun[k] => CanRun(k) /\ ~Runs(k))
      /\ \A j \in Kinds \ {k} : canRun[j] = runner.canRun[j]
  <2>1. (CanRun(k) /\ ~Runs(k)) \in BOOLEAN  OBVIOUS
  <2>2. runner.canRun \in [Kinds -> BOOLEAN]  BY DEF TypeOK, Runners
  <2> HIDE DEF status, lastRun
  <2> QED  BY <2>1, <2>2
<1>4. /\ lastRun \in [Kinds -> Times]
      /\ lastRun[k] = IF Runs(k) THEN clock ELSE runner.lastRun[k]
      /\ \A j \in Kinds \ {k} : lastRun[j] = runner.lastRun[j]
  BY DEF TypeOK, Runners
<1> HIDE DEF canRun, lastRun
<1> QED  BY <1>1, <1>2, <1>3, <1>4

\* The histories after a result.
LEMMA HandledHistory ==
  ASSUME TypeOK, NEW k \in Kinds, Handle(k)
  PROVE  /\ UNCHANGED <<config, clock>>
         /\ ran' = IF Runs(k) THEN k ELSE "none"
         /\ startedAt' \in [Kinds -> Times] /\ since' \in [Kinds -> SUBSET Kinds]
         /\ startedAt'[k] = IF Runs(k) THEN clock ELSE startedAt[k]
         /\ since'[k] = IF Runs(k) THEN {} ELSE since[k] \cup {k}
         /\ \A j \in Kinds \ {k} : /\ startedAt'[j] = startedAt[j]
                                   /\ since'[j] = since[j] \cup {k}
<1>1. CASE Runs(k)
  <2>1. /\ startedAt' = [startedAt EXCEPT ![k] = clock] /\ ran' = k
        /\ since' = [j \in Kinds |-> IF j = k THEN {} ELSE since[j] \cup {k}]
        /\ UNCHANGED <<config, clock>>
    BY <1>1 DEF Handle
  <2>2. clock \in Times  BY DEF TypeOK
  <2> QED  BY <1>1, <2>1, <2>2 DEF TypeOK
<1>2. CASE ~Runs(k)
  <2>1. /\ since' = [j \in Kinds |-> since[j] \cup {k}]
        /\ ran' = "none" /\ UNCHANGED <<startedAt, config, clock>>
    BY <1>2 DEF Handle
  <2> QED  BY <1>2, <2>1 DEF TypeOK
<1> QED  BY <1>1, <1>2

\* A restart keeps the status, and of an action no more than it had.
LEMMA RestartFields ==
  ASSUME RunnerInv, Restart
  PROVE  /\ runner' \in Runners
         /\ runner'.status = runner.status
         /\ \A k \in Kinds :
              /\ runner'.canRun[k] => runner.canRun[k]
              /\ runner'.lastRun[k] =
                   IF config[k].configured /\ runner.lastRun[k] # Never
                   THEN Whole(runner.lastRun[k]) ELSE Never
<1> DEFINE row == ToRow(GetState)
           restored == FromRow(row)
           kept == {k \in Kinds : config[k].configured}
           timed == {k \in kept : runner.lastRun[k] # Never}
<1>0. runner' = RestoreState(restored)  BY DEF Restart
<1>1. /\ row.status = runner.status
      /\ row.lastRun = [k \in timed |-> runner.lastRun[k] \div TicksPerSecond]
      /\ row.canRun = [k \in kept |-> runner.canRun[k]]
  BY DEF ToRow, GetState
<1>2. DOMAIN row.lastRun = timed /\ DOMAIN row.canRun = kept  BY <1>1
<1> HIDE DEF row
<1>3. DOMAIN row.lastRun \cup DOMAIN row.canRun = kept  BY <1>2
<1>4. /\ restored.status = runner.status
      /\ restored.actions =
           [k \in kept |-> [lastRun |-> IF k \in timed THEN row.lastRun[k] * TicksPerSecond
                                                       ELSE Never,
                            canRun |-> k \in kept /\ row.canRun[k]]]
  BY <1>1, <1>2, <1>3, Zenon DEF FromRow
<1>5. ASSUME NEW k \in kept
      PROVE  /\ restored.actions[k].lastRun = IF k \in timed THEN Whole(runner.lastRun[k])
                                                             ELSE Never
             /\ restored.actions[k].canRun = (k \in kept /\ runner.canRun[k])
  BY <1>1, <1>4 DEF Whole
<1>6. {k \in DOMAIN restored.actions : config[k].configured} = kept  BY <1>4
<1> DEFINE canRun == [k \in Kinds |-> k \in kept /\ restored.actions[k].canRun]
           lastRun == [k \in Kinds |-> IF k \in kept THEN restored.actions[k].lastRun
                                                    ELSE Never]
<1>7. runner' = [status |-> runner.status, canRun |-> canRun, lastRun |-> lastRun]
  <2> HIDE DEF restored
  <2> QED  BY <1>0, <1>4, <1>6, Zenon DEF RestoreState
<1>8. ASSUME NEW k \in Kinds
      PROVE  /\ canRun[k] \in BOOLEAN /\ (canRun[k] => runner.canRun[k])
             /\ lastRun[k] = IF k \in timed THEN Whole(runner.lastRun[k]) ELSE Never
  BY <1>5
<1>9. ASSUME NEW k \in timed PROVE Whole(runner.lastRun[k]) \in Times
  <2>1. runner.lastRun[k] \in Nat /\ runner.lastRun[k] <= MaxTime
    BY <1>9, WholeSeconds DEF RunnerInv, TimesAgree, TypeOK, Runners
  <2> QED  BY <2>1, WholeSeconds
<1>10. canRun \in [Kinds -> BOOLEAN]  BY <1>8
<1>11. lastRun \in [Kinds -> Times]  BY <1>8, <1>9
<1> HIDE DEF canRun, lastRun, restored
<1>12. runner' \in Runners
  BY <1>7, <1>10, <1>11 DEF RunnerInv, TypeOK, Runners
<1> QED  BY <1>7, <1>8, <1>12

-----------------------------------------------------------------------------
(* The invariant *)

\* A new runner has run nothing.
LEMMA ActionsInit == ASSUME Init PROVE RunnerInv
<1> USE DEF Init, NewActionRunner
<1>1. runner \in Runners  BY DEF Runners
<1>2. TypeOK  BY <1>1 DEF TypeOK
<1>3. NothingToRun  BY DEF NothingToRun
<1>4. TimesAgree  BY DEF TimesAgree
<1>5. StatusRemembers  BY DEF StatusRemembers, HasRun
<1> QED  BY <1>2, <1>3, <1>4, <1>5 DEF RunnerInv

\* A result that runs its command is one that unlocked it, and so sets the
\* status; further results of its kind find the status set.
LEMMA HandleKeepsInv ==
  ASSUME RunnerInv, NEW k \in Kinds, Handle(k) PROVE RunnerInv'
<1> USE DEF RunnerInv
<1>1. TypeOK'
  BY HandledFields, HandledHistory DEF TypeOK, Runners
<1>2. NothingToRun'
  BY HandledFields, HandledHistory DEF NothingToRun, Runs
<1>3. TimesAgree'
  <2>1. clock \in Nat  BY DEF TypeOK
  <2>2. \A j \in Kinds \ {k} : runner'.lastRun[j] = runner.lastRun[j]
    BY HandledFields
  <2>3. \A j \in Kinds \ {k} : startedAt'[j] = startedAt[j]
    BY HandledHistory
  <2>4. UNCHANGED config  BY HandledHistory
  <2>5. CASE Runs(k)
    <3>1. startedAt'[k] = clock /\ runner'.lastRun[k] = clock /\ clock' = clock
      BY <2>5, HandledFields, HandledHistory
    <3>2. config[k].configured  BY <2>5, RunsUnlocked
    <3> QED  BY <2>1, <2>2, <2>3, <2>4, <3>1, <3>2 DEF TimesAgree
  <2>6. CASE ~Runs(k)
    <3>1. startedAt'[k] = startedAt[k] /\ runner'.lastRun[k] = runner.lastRun[k]
          /\ clock' = clock
      BY <2>6, HandledFields, HandledHistory
    <3> QED  BY <2>2, <2>3, <2>4, <3>1 DEF TimesAgree
  <2> QED  BY <2>5, <2>6
<1>4. ASSUME NEW j \in Kinds, HasRun(j)', since'[j] \subseteq {j}
      PROVE  runner'.status = j
  <2>1. j = k  BY <1>4, HandledHistory
  <2>2. CASE Runs(k)
    BY <2>1, <2>2, RunsUnlocked, HandledFields
  <2>3. CASE ~Runs(k)
    <3>1. startedAt'[k] = startedAt[k] /\ since[k] \subseteq {k}
      BY <1>4, <2>1, <2>3, HandledHistory
    <3>2. runner.status = k  BY <1>4, <2>1, <3>1 DEF HasRun, StatusRemembers
    <3> QED  BY <2>1, <3>2, HandledFields
  <2> QED  BY <2>2, <2>3
<1> QED  BY <1>1, <1>2, <1>3, <1>4 DEF StatusRemembers

\* Time passes after every run.
LEMMA TickKeepsInv == ASSUME RunnerInv, Tick PROVE RunnerInv'
<1> USE DEF RunnerInv, Tick
<1>1. TypeOK'  BY DEF TypeOK
<1>2. NothingToRun'  BY DEF NothingToRun
<1>3. TimesAgree'  BY DEF TypeOK, TimesAgree
<1>4. StatusRemembers'  BY DEF StatusRemembers, HasRun
<1> QED  BY <1>1, <1>2, <1>3, <1>4

\* A restart takes the part of a second off lastRun, once.
LEMMA RestartKeepsInv == ASSUME RunnerInv, Restart PROVE RunnerInv'
<1>0. UNCHANGED <<config, clock, startedAt, since>> /\ ran' = "none"  BY DEF Restart
<1>1. TypeOK'  BY <1>0, RestartFields DEF RunnerInv, TypeOK
<1>2. NothingToRun'  BY <1>0, RestartFields DEF RunnerInv, NothingToRun
<1>3. ASSUME NEW k \in Kinds
      PROVE  \/ runner'.lastRun[k] = startedAt[k]
             \/ startedAt[k] >= 0 /\ runner'.lastRun[k] = Whole(startedAt[k])
  <2>1. CASE config[k].configured /\ runner.lastRun[k] # Never
    <3>1. runner'.lastRun[k] = Whole(runner.lastRun[k])  BY <2>1, RestartFields
    <3>2. startedAt[k] \in Nat
          /\ runner.lastRun[k] \in {startedAt[k], Whole(startedAt[k])}
      BY <2>1 DEF RunnerInv, TimesAgree, TypeOK
    <3> QED  BY <3>1, <3>2, WholeSeconds
  <2>2. CASE config[k].configured /\ runner.lastRun[k] = Never
    <3>1. runner'.lastRun[k] = runner.lastRun[k]  BY <2>2, RestartFields
    <3> QED  BY <3>1 DEF RunnerInv, TimesAgree
  <2>3. CASE ~config[k].configured
    <3>1. runner'.lastRun[k] = Never  BY <2>3, RestartFields
    <3> QED  BY <2>3, <3>1 DEF RunnerInv, TimesAgree
  <2> QED  BY <2>1, <2>2, <2>3
<1>4. TimesAgree'  BY <1>0, <1>3 DEF RunnerInv, TimesAgree
<1>5. StatusRemembers'  BY <1>0, RestartFields DEF RunnerInv, StatusRemembers, HasRun
<1> QED  BY <1>1, <1>2, <1>4, <1>5 DEF RunnerInv

\* Hence every step keeps the invariant.
LEMMA ActionsNext == ASSUME RunnerInv, [Next]_vars PROVE RunnerInv'
<1>1. ASSUME NEW k \in Kinds, Handle(k) PROVE RunnerInv'  BY <1>1, HandleKeepsInv
<1>2. CASE Tick  BY <1>2, TickKeepsInv
<1>3. CASE Restart  BY <1>3, RestartKeepsInv
<1>4. CASE UNCHANGED vars
  BY <1>4 DEF vars, RunnerInv, TypeOK, NothingToRun, TimesAgree, StatusRemembers, HasRun
<1> QED
  BY <1>1, <1>2, <1>3, <1>4 DEF Next, Success, Failure, Warning, Timeout, Kinds

\* The times an action holds are times of the clock, through any number of
\* restarts.
THEOREM ActionsSafe == Spec => []TypeOK
<1>1. Init => RunnerInv  BY ActionsInit
<1>2. RunnerInv /\ [Next]_vars => RunnerInv'  BY ActionsNext
<1>3. RunnerInv => TypeOK  BY DEF RunnerInv
<1> QED  BY <1>1, <1>2, <1>3, PTL DEF Spec

-----------------------------------------------------------------------------
(* When commands run *)

\* A step that runs a command is the result that unlocked it.
LEMMA RanIsHandled ==
  ASSUME RunnerInv, [Next]_vars, ~UNCHANGED vars, NEW k \in Kinds, ran' = k
  PROVE  config[k].command /\ config[k].configured /\ Unlocked(k)
<1>1. k # "none"  BY DEF Kinds
<1>2. PICK j \in Kinds : Handle(j)
  BY <1>1 DEF Next, Tick, Restart, Success, Failure, Warning, Timeout, Kinds
<1>3. j = k /\ Runs(k)  BY <1>1, <1>2, HandledHistory DEF RunnerInv
<1> QED  BY <1>3, RunsUnlocked DEF RunnerInv, Runs

\* The SuccessAction does not run again while the check stays healthy, under a
\* cooldown or not, and not after a restart either.
THEOREM SuccessRunsOncePerRecovery == Spec => SuccessOncePerRecovery
<1>1. Init => RunnerInv  BY ActionsInit
<1>2. RunnerInv /\ [Next]_vars => RunnerInv'  BY ActionsNext
<1>3. ASSUME RunnerInv, [Next]_vars
      PROVE  [ran' = "passing" /\ HasRun("passing")
                => since["passing"] \cap FailingKinds # {}]_vars
  <2> SUFFICES ASSUME ~UNCHANGED vars, ran' = "passing", HasRun("passing")
               PROVE  since["passing"] \cap FailingKinds # {}
    OBVIOUS
  <2>1. "passing" \in Kinds  BY DEF Kinds
  <2>2. runner.status # "passing"  BY <1>3, <2>1, RanIsHandled DEF Unlocked
  <2>3. ~(since["passing"] \subseteq {"passing"})
    BY <1>3, <2>1, <2>2 DEF RunnerInv, StatusRemembers
  <2> QED  BY <1>3, <2>1, <2>3 DEF RunnerInv, TypeOK, FailingKinds
<1> QED  BY <1>1, <1>2, <1>3, PTL DEF Spec, SuccessOncePerRecovery

\* An action that waits for another status runs once per stretch of results of
\* its kind, however often the process is restarted meanwhile.
THEOREM ActionRunsOncePerStretch == Spec => OncePerStretch
<1>1. Init => RunnerInv  BY ActionsInit
<1>2. RunnerInv /\ [Next]_vars => RunnerInv'  BY ActionsNext
<1>3. ASSUME RunnerInv, [Next]_vars
      PROVE  [\A k \in FailingKinds :
                ran' = k /\ config[k].onlyAfterHealthy /\ HasRun(k)
                  => since[k] \ {k} # {}]_vars
  <2> SUFFICES ASSUME ~UNCHANGED vars, NEW k \in FailingKinds,
                      ran' = k, config[k].onlyAfterHealthy, HasRun(k)
               PROVE  since[k] \ {k} # {}
    OBVIOUS
  <2>1. k \in Kinds  BY DEF FailingKinds
  <2>2. runner.status # k  BY <1>3, <2>1, RanIsHandled DEF Unlocked
  <2> QED  BY <1>3, <2>1, <2>2 DEF RunnerInv, StatusRemembers
<1> QED  BY <1>1, <1>2, <1>3, PTL DEF Spec, OncePerStretch

\* A command under a cooldown runs when the cooldown is over and, but for less
\* than a second after a restart, not before.
THEOREM CooldownIsKept == Spec => RunsOutsideCooldown
<1> DEFINE Kept(k) ==
      /\ ran' = k => clock - startedAt[k] > config[k].cooldown - TicksPerSecond
      /\ clock - startedAt[k] >= config[k].cooldown => ran' = k
<1>1. Init => RunnerInv  BY ActionsInit
<1>2. RunnerInv /\ [Next]_vars => RunnerInv'  BY ActionsNext
<1>3. ASSUME RunnerInv, NEW k \in FailingKinds, Handle(k),
             config[k].configured, config[k].command, ~config[k].onlyAfterHealthy
      PROVE  Kept(k)
  <2>1. k \in Kinds /\ k # "passing" /\ k # "none"  BY DEF FailingKinds, Kinds
  <2>2. ran' = k <=> Runs(k)
    BY <1>3, <2>1, HandledHistory DEF RunnerInv
  <2>3. Runs(k) <=> clock - runner.lastRun[k] >= config[k].cooldown
    BY <1>3, <2>1 DEF Runs, CanRun, Unlocked, RunnerInv, NothingToRun
  <2>4. /\ clock \in Int /\ startedAt[k] \in Int /\ config[k].cooldown \in Int
        /\ runner.lastRun[k] \in Int
        /\ runner.lastRun[k] <= startedAt[k]
        /\ startedAt[k] < runner.lastRun[k] + TicksPerSecond
    <3>1. clock \in Int /\ startedAt[k] \in Int /\ config[k].cooldown \in Int
      BY <1>3, <2>1, ActionTypes DEF RunnerInv, TypeOK
    <3>2. CASE runner.lastRun[k] = startedAt[k]  BY <3>1, <3>2
    <3>3. CASE startedAt[k] >= 0 /\ runner.lastRun[k] = Whole(startedAt[k])
      BY <3>1, <3>3, WholeSeconds
    <3> QED  BY <1>3, <2>1, <3>2, <3>3, <3>1 DEF RunnerInv, TimesAgree
  <2> QED  BY <2>2, <2>3, <2>4
<1>4. RunnerInv /\ [Next]_vars
        => [\A k \in FailingKinds :
              /\ Handle(k)
              /\ config[k].configured /\ config[k].command
              /\ ~config[k].onlyAfterHealthy
              => Kept(k)]_vars
  BY <1>3
<1> QED  BY <1>1, <1>2, <1>4, PTL DEF Spec, RunsOutsideCooldown

-----------------------------------------------------------------------------
(* A new incident runs its action. *)

OnTransition(k) ==
  config[k].configured /\ config[k].command /\ config[k].onlyAfterHealthy

NoCooldowns == \A j \in Kinds : config[j].cooldown = 0

NewIncident(k) == "passing" \in since[k] \/ (since[k] = {} /\ ~HasRun(k))

\* The strengthening: what would be a new incident of its kind finds the
\* status at something else.
IncidentReady ==
  NoCooldowns => \A k \in FailingKinds :
                    OnTransition(k) /\ NewIncident(k) => runner.status # k

\* Without cooldowns a passing result always sets the status.
LEMMA PassingSetsStatus ==
  ASSUME RunnerInv, NoCooldowns, Handle("passing") PROVE runner'.status = "passing"
<1>1. "passing" \in Kinds  BY DEF Kinds
<1>2. clock - runner.lastRun["passing"] >= config["passing"].cooldown
  <2>1. clock \in Nat /\ startedAt["passing"] \in Int /\ startedAt["passing"] <= clock
    BY <1>1 DEF RunnerInv, TypeOK, TimesAgree
  <2>2. runner.lastRun["passing"] \in Int /\ runner.lastRun["passing"] <= clock
    BY <1>1, <2>1, WholeSeconds DEF RunnerInv, TimesAgree
  <2> QED  BY <1>1, <2>1, <2>2 DEF NoCooldowns
<1>3. runner.status # "passing" => Unlocked("passing")  BY <1>2 DEF Unlocked
<1> QED  BY <1>1, <1>3, HandledFields DEF RunnerInv

\* A new incident unlocks its action, and is new no longer.
LEMMA HandleKeepsReady ==
  ASSUME RunnerInv, IncidentReady, NEW j \in Kinds, Handle(j) PROVE IncidentReady'
<1> SUFFICES ASSUME NoCooldowns', NEW k \in FailingKinds, OnTransition(k)', NewIncident(k)'
             PROVE  runner'.status # k
  BY DEF IncidentReady
<1>1. k \in Kinds /\ k # "passing"  BY DEF FailingKinds
<1>2. NoCooldowns /\ OnTransition(k)
  BY HandledHistory DEF RunnerInv, NoCooldowns, OnTransition
<1>3. NewIncident(k) => runner.status # k  BY <1>2 DEF IncidentReady
<1>4. CASE j = "passing"  BY <1>1, <1>2, <1>4, PassingSetsStatus
<1>5. CASE j # "passing" /\ j # k
  <2>1. NewIncident(k)
    <3>1. since'[k] = since[k] \cup {j}
      BY <1>1, <1>5, HandledHistory DEF RunnerInv
    <3> QED  BY <1>5, <3>1 DEF NewIncident
  <2> QED  BY <1>3, <1>5, <2>1, HandledFields DEF RunnerInv
<1>6. CASE j = k
  <2>1. CASE Runs(k)
    <3>1. startedAt'[k] = clock /\ since'[k] = {}
      BY <1>6, <2>1, HandledHistory DEF RunnerInv
    <3>2. clock # Never  BY DEF RunnerInv, TypeOK
    <3> QED  BY <3>1, <3>2 DEF NewIncident, HasRun
  <2>2. CASE ~Runs(k)
    <3>1. since'[k] = since[k] \cup {k}
      BY <1>6, <2>2, HandledHistory DEF RunnerInv
    <3>2. NewIncident(k)  BY <1>1, <3>1 DEF NewIncident
    <3>3. Runs(k)
      BY <1>2, <1>3, <3>2 DEF OnTransition, Runs, CanRun, Unlocked
    <3> QED  BY <2>2, <3>3
  <2> QED  BY <2>1, <2>2
<1> QED  BY <1>4, <1>5, <1>6

\* Hence every step keeps it.
LEMMA ReadyNext ==
  ASSUME RunnerInv, IncidentReady, [Next]_vars PROVE IncidentReady'
<1>1. ASSUME NEW k \in Kinds, Handle(k) PROVE IncidentReady'  BY <1>1, HandleKeepsReady
<1>2. CASE Tick
  BY <1>2 DEF Tick, IncidentReady, NoCooldowns, OnTransition, NewIncident, HasRun
<1>3. CASE Restart
  <2>1. runner'.status = runner.status  BY <1>3, RestartFields
  <2> QED
    BY <1>3, <2>1 DEF Restart, IncidentReady, NoCooldowns, OnTransition, NewIncident, HasRun
<1>4. CASE UNCHANGED vars
  BY <1>4 DEF vars, IncidentReady, NoCooldowns, OnTransition, NewIncident, HasRun
<1> QED
  BY <1>1, <1>2, <1>3, <1>4 DEF Next, Success, Failure, Warning, Timeout, Kinds

\* The first failure of a check, and each one after it was healthy, runs an
\* action that waits for another status, if no action has a cooldown.
THEOREM EachIncidentRunsAction == Spec => IncidentRunsAction
<1>1. Init => RunnerInv /\ IncidentReady
  BY ActionsInit DEF Init, NewActionRunner, IncidentReady, FailingKinds, Kinds
<1>2. RunnerInv /\ IncidentReady /\ [Next]_vars => RunnerInv' /\ IncidentReady'
  BY ActionsNext, ReadyNext
<1>3. ASSUME RunnerInv, IncidentReady, NEW k \in FailingKinds, Handle(k),
             OnTransition(k), NoCooldowns,
             since[k] = {} => ~HasRun(k), since[k] # {} => "passing" \in since[k]
      PROVE  ran' = k
  <2>1. runner.status # k  BY <1>3 DEF IncidentReady, NewIncident
  <2>2. Runs(k)  BY <1>3, <2>1 DEF OnTransition, Runs, CanRun, Unlocked
  <2> QED  BY <1>3, <2>2, HandledHistory DEF RunnerInv, FailingKinds
<1>4. RunnerInv /\ IncidentReady /\ [Next]_vars
        => [\A k \in FailingKinds :
              /\ Handle(k)
              /\ config[k].configured /\ config[k].command
              /\ config[k].onlyAfterHealthy
              /\ \A j \in Kinds : config[j].cooldown = 0
              /\ since[k] = {} => ~HasRun(k)
              /\ since[k] # {} => "passing" \in since[k]
              => ran' = k]_vars
  BY <1>3 DEF OnTransition, NoCooldowns
<1> QED  BY <1>1, <1>2, <1>4, PTL DEF Spec, IncidentRunsAction
=============================================================================
