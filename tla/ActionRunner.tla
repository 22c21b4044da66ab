---------------------------- MODULE ActionRunner ----------------------------
(***************************************************************************)
(* The ActionRunner of actions.go: which results run the command of their  *)
(* action, under a cooldown (UnlockAfterDuration) or once per transition   *)
(* (UnlockOnlyAfterHealthy).  All four handlers share one status field.    *)
(*                                                                         *)
(* StatusUpdater.update calls a handler for every result whose threshold   *)
(* is reached, one at a time.  An action is named by the status of the     *)
(* results it handles.  The command itself runs in a goroutine that later  *)
(* only sends a notification, so here a run is the decision to run it.     *)
(*                                                                         *)
(* Restart is a shutdown after SaveState and Close, and a new process with *)
(* the same configuration: the runner goes through a row of check_states,  *)
(* which keeps times in whole seconds (persister/sqlite/sqlite.go).        *)
(***************************************************************************)
EXTENDS Integers

CONSTANTS Configurations,  \* the sets of actions a check may be given
          MaxCooldown,     \* bound: the longest cooldown
          TicksPerSecond,
          MaxTime          \* bound: ticks of the clock

Kinds == {"passing", "warning", "critical", "timeout"}
FailingKinds == Kinds \ {"passing"}

\* What handlers read of an Action; configured is FALSE for a nil action.
Actions == [configured : BOOLEAN, onlyAfterHealthy : BOOLEAN,
            cooldown : 0..MaxCooldown, command : BOOLEAN]

ASSUME BoundAssumption == MaxCooldown \in Nat \ {0} /\ MaxTime \in Nat
ASSUME SecondAssumption == TicksPerSecond \in Nat \ {0}
ASSUME ConfigurationAssumption == Configurations \subseteq [Kinds -> Actions]

\* The zero time: before every cooldown.
Never == 0 - MaxCooldown
Times == Never..MaxTime

VARIABLES config,      \* kind -> its action
          runner,      \* status, canRun and lastRun of each action
          clock,
          ran,         \* history: the kind whose command the last step ran
          startedAt,   \* history: kind -> when its command last ran, or Never
          since        \* history: kind -> the kinds of results since that run

vars == <<config, runner, clock, ran, startedAt, since>>

Runners == [status : Kinds \cup {"initializing"},
            canRun : [Kinds -> BOOLEAN], lastRun : [Kinds -> Times]]

TypeOK ==
  /\ config \in Configurations
  /\ runner \in Runners
  /\ clock \in 0..MaxTime
  /\ ran \in Kinds \cup {"none"}
  /\ startedAt \in [Kinds -> Times]
  /\ since \in [Kinds -> SUBSET Kinds]

\* Fault: the runner starts as if the check had been critical already.
NewCriticalRunner == [status |-> "critical", canRun |-> [k \in Kinds |-> FALSE],
                      lastRun |-> [k \in Kinds |-> Never]]

NewActionRunner == [status |-> "initializing", canRun |-> [k \in Kinds |-> FALSE],
                    lastRun |-> [k \in Kinds |-> Never]]

Init ==
  /\ config \in Configurations
  /\ runner = NewActionRunner
  /\ clock = 0
  /\ ran = "none"
  /\ startedAt = [k \in Kinds |-> Never]
  /\ since = [k \in Kinds |-> {}]

-----------------------------------------------------------------------------
\* Fault: Success forgets that it must not run in a steady passing state.
UnlockedWhilePassing(k) ==
  IF config[k].onlyAfterHealthy
  THEN runner.status # k
  ELSE clock - runner.lastRun[k] >= config[k].cooldown

\* Fault: the cooldown is one tick longer than configured.
UnlockedLate(k) ==
  IF config[k].onlyAfterHealthy
  THEN runner.status # k
  ELSE /\ clock - runner.lastRun[k] > config[k].cooldown
       /\ k = "passing" => runner.status # "passing"

\* Whether this result unlocks its action.  Success alone also needs a change
\* of status under a cooldown; otherwise it would run in steady health.
Unlocked(k) ==
  IF config[k].onlyAfterHealthy
  THEN runner.status # k
  ELSE /\ clock - runner.lastRun[k] >= config[k].cooldown
       /\ k = "passing" => runner.status # "passing"

CanRun(k) == config[k].configured /\ (Unlocked(k) \/ runner.canRun[k])

Runs(k) == CanRun(k) /\ config[k].command

\* Fault: lastRun holds when the action may run again.
HandledStoresDeadline(k) ==
  [runner EXCEPT
    !.status = IF config[k].configured => Unlocked(k) THEN k ELSE @,
    !.canRun[k] = CanRun(k) /\ ~Runs(k),
    !.lastRun[k] = IF Runs(k) THEN clock + config[k].cooldown ELSE @]

\* The runner after a result of kind k.  Its status follows only when the
\* action is not configured or is unlocked.
Handled(k) ==
  [runner EXCEPT
    !.status = IF config[k].configured => Unlocked(k) THEN k ELSE @,
    !.canRun[k] = CanRun(k) /\ ~Runs(k),
    !.lastRun[k] = IF Runs(k) THEN clock ELSE @]

Handle(k) ==
  /\ runner' = Handled(k)
  /\ IF Runs(k)
     THEN /\ ran' = k
          /\ startedAt' = [startedAt EXCEPT ![k] = clock]
          /\ since' = [j \in Kinds |-> IF j = k THEN {} ELSE since[j] \cup {k}]
     ELSE /\ ran' = "none"
          /\ since' = [j \in Kinds |-> since[j] \cup {k}]
          /\ UNCHANGED startedAt
  /\ UNCHANGED <<config, clock>>

Success == Handle("passing")
Failure == Handle("critical")
Warning == Handle("warning")
Timeout == Handle("timeout")

Tick ==
  /\ clock < MaxTime
  /\ clock' = clock + 1
  /\ ran' = "none"
  /\ UNCHANGED <<config, runner, startedAt, since>>

-----------------------------------------------------------------------------
(* Save and restore *)

\* A nil action has no state.
GetState ==
  [status |-> runner.status,
   actions |-> [k \in {j \in Kinds : config[j].configured} |->
                  [lastRun |-> runner.lastRun[k], canRun |-> runner.canRun[k]]]]

\* saveCheckStateInternal: a key outside a function's domain is a NULL column,
\* as for a lastRun that is the zero time.
ToRow(state) ==
  [status  |-> state.status,
   lastRun |-> [k \in {j \in DOMAIN state.actions : state.actions[j].lastRun # Never} |->
                  state.actions[k].lastRun \div TicksPerSecond],
   canRun  |-> [k \in DOMAIN state.actions |-> state.actions[k].canRun]]

\* scanCheckState
FromRow(row) ==
  [status  |-> row.status,
   actions |-> [k \in DOMAIN row.lastRun \cup DOMAIN row.canRun |->
                  [lastRun |-> IF k \in DOMAIN row.lastRun
                               THEN row.lastRun[k] * TicksPerSecond ELSE Never,
                   canRun  |-> k \in DOMAIN row.canRun /\ row.canRun[k]]]]

\* Fault: the status of the runner is not restored.
RestoreActionsOnly(state) ==
  LET restored == {k \in DOMAIN state.actions : config[k].configured} IN
  [status  |-> NewActionRunner.status,
   canRun  |-> [k \in Kinds |-> k \in restored /\ state.actions[k].canRun],
   lastRun |-> [k \in Kinds |-> IF k \in restored THEN state.actions[k].lastRun
                                                 ELSE Never]]

\* RestoreState on the runner of a new process.
RestoreState(state) ==
  LET restored == {k \in DOMAIN state.actions : config[k].configured} IN
  [status  |-> state.status,
   canRun  |-> [k \in Kinds |-> k \in restored /\ state.actions[k].canRun],
   lastRun |-> [k \in Kinds |-> IF k \in restored THEN state.actions[k].lastRun
                                                 ELSE Never]]

Restart ==
  /\ runner' = RestoreState(FromRow(ToRow(GetState)))
  /\ ran' = "none"
  /\ UNCHANGED <<config, clock, startedAt, since>>

Next == Success \/ Failure \/ Warning \/ Timeout \/ Tick \/ Restart

Spec == Init /\ [][Next]_vars

-----------------------------------------------------------------------------
HasRun(k) == startedAt[k] # Never

\* "SuccessAction ... never again while the check stays healthy": between two
\* runs there was a failing result, under a cooldown as well.
SuccessOncePerRecovery ==
  [][ran' = "passing" /\ HasRun("passing")
       => since["passing"] \cap FailingKinds # {}]_vars

\* Under UnlockOnlyAfterHealthy the action of a failure does not run again
\* while results of that one kind go on.
OncePerStretch ==
  [][\A k \in FailingKinds :
       ran' = k /\ config[k].onlyAfterHealthy /\ HasRun(k)
         => since[k] \ {k} # {}]_vars

\* A failure that comes when the cooldown of its action is over runs it, and
\* one that comes earlier does not, across restarts: no run is lost to, or
\* escapes, a cooldown, but for the part of a second that a row leaves out.
RunsOutsideCooldown ==
  [][\A k \in FailingKinds :
       /\ Handle(k)
       /\ config[k].configured /\ config[k].command
       /\ ~config[k].onlyAfterHealthy
       => /\ ran' = k => clock - startedAt[k] > config[k].cooldown - TicksPerSecond
          /\ clock - startedAt[k] >= config[k].cooldown => ran' = k]_vars

\* A command that runs only after healthy runs for the first failure of its
\* kind and for each one after the check was healthy, provided no other
\* action of the check has a cooldown.
IncidentRunsAction ==
  [][\A k \in FailingKinds :
       /\ Handle(k)
       /\ config[k].configured /\ config[k].command
       /\ config[k].onlyAfterHealthy
       /\ \A j \in Kinds : config[j].cooldown = 0
       /\ since[k] = {} => ~HasRun(k)
       /\ since[k] # {} => "passing" \in since[k]
       => ran' = k]_vars
=============================================================================
