# Verification of health-go

TLA+ models of the health-check library in `src/`, checked with TLC, and proofs
about them checked with TLAPS. Line numbers refer to the sources.

## 1. The system

`health-go` runs health checks inside a service, decides a status for each,
announces changes on a channel, runs shell commands on them, and answers an
HTTP endpoint. Several checks that fail for one reason are tied together by an
event ID, whose notifications are numbered.

| Part | State | Operations | Hard because |
|---|---|---|---|
| Event tracker (`events.go`) | event of each check, counter of each event, maintenance window | `GetOrCreateEventID`, `GetNextSequence`, `ClearSequence`, save, restore | shared by all checks, one mutex per call but no transaction across calls; maintenance events are shared |
| Status updater (`status.go`) | status, run counters, `initialized`, one per check | `update`, constructors, save, restore | debouncing with three thresholds, first result, silent responses; calls the tracker several times per result |
| Action runner (`actions.go`) | one status, `canRun` and `lastRun` per action | `Success`, `Failure`, `Warning`, `Timeout`, save, restore | two unlocking rules over one shared status; commands finish late |
| Check scheduling (`check.go`) | pause flag and channel | `Start`, `Pause`, run loop, `check` | runs overlap, deadlines race answers |
| Notifications (`notifications.go`) | disabled flag, time and duration, bounded channel | `Send`, `Disable`, `Enable` | expiry is noticed only by `Send`, a full channel drops |
| Maintenance check (`checks/maintenance`) | a file | its check function | switches the notifications it is reported through |
| Health container (`health.go`, `options.go`) | checks by name, persister | `New`, `Register`, `Status`, `SaveState` | order of construction, snapshots over many locks |
| SQLite persister (`persister/sqlite`) | pending saves, timer, database | `Save*`, `Load*`, `Delete`, flush, `Close` | debounced writes, crash, concurrent flushes |
| Built-in checks (`checks/*`) | none | one probe each | network I/O only |

How they interact: a check's goroutine gives its result to `StatusUpdater.update`,
which holds the updater's mutex while it calls the tracker (one short critical
section per call), `Notifications.Send` (which never blocks), and a handler of
the action runner. `Register` does the same for the "initializing"
notification under the mutex of `Health`. `SaveState` copies the tracker, then
each updater; `New` and `Register` read the copies back.

What makes each part correct:

* tracker: an event ID is stable from failure to resolution, failures inside a
  maintenance window share its event and only those do, an ended event never
  comes back, numbers of an event do not repeat, counters do not leak;
* updater: the status is what the last results say, no earlier and no later;
  each change is announced once;
* action runner: a command runs once per transition or once per cooldown, and
  no run is lost;
* scheduling: a paused check stays silent, one that is not paused keeps being
  run, and every run reports (in no particular order);
* notifications: nothing is lost while enabled and not full;
* persistence: what is restored is a state the program was in, and is recent.

## 2. Modules

| Module | Models | Correspondence |
|---|---|---|
| `IncidentLedger` | the tracker's promise | abstract: `Open`, `JoinMaintenance`, `Resolve` |
| `EventTracker` | `events.go` | a variable per field, an action per method and branch |
| `StatusUpdater` | `status.go` | a record per updater; `Counted`, `Crosses`, `Updated`, `Notifies` are the parts of `update` |
| `Debounce` | one updater and its subscribers | one action per result |
| `ActionRunner` | `actions.go`, and the row of a runner in `sqlite.go` | `Unlocked`, `CanRun`, `Runs`, `Handled` are the common body of the four handlers; `ToRow`, `FromRow` and `RestoreState` are a restart |
| `Incidents` | tracker, updaters, registration and commands together | a step per tracker call; `pc` and `call` are the handler's position and locals |
| `Restart` | the same across restarts: `New`, `Register`, `SaveState` | EXTENDS `Incidents`; a row per key, one action per row copied or read |
| `CheckRunner` | `check.go` | loops and runs with their positions, and which channels of a run are ready |
| `TimedSilence` | the sender's promise | abstract: a countdown, `Offer`, `Take` |
| `Notifications` | `notifications.go` | an action per method, plus the clock and the subscriber |
| `MaintenanceCheck` | `checks/maintenance/check.go` | a step per call of the check function; `pc` and `message` are its position and what it read; operator, application and other checks beside it |
| `WriteBehindStore` | the persister's promise | abstract: `Accept`, `Store`, `GiveUp`, `Delete` |
| `SqlitePersister` | `persister/sqlite/sqlite.go` | a step per critical section of `debounceMu` and per statement under `mu`; `pc` and `batch` are a flush's position and locals |
| `*Proofs` | | the proofs about the module of that name; those about `Notifications` open `MaintenanceCheckProofs` |
| `MC*` | | small instances |

`Incidents` EXTENDS `EventTracker` and `StatusUpdater` and uses their operators
as they are, so what is proved or checked of them is what it runs. In the same
way `Restart` EXTENDS `Incidents`, and `MaintenanceCheck` EXTENDS
`Notifications`. The other parts meet through small interfaces, and each model
leaves the other side free:

* `CheckRunner` says when a run reports; `Debounce` and `Incidents` take any
  results in any order.
* `ActionRunner` decides whether a command runs; `Incidents` lets it run or not.
* `Notifications` decides whether `Send` delivers; `Incidents` counts every
  `Send` as delivered. In the code it may drop: the number is then taken but
  not seen.
* `SqlitePersister` decides what reaches the database; `Restart` lets any save
  be made or not.

Definitions marked `Fault:` are wrong versions of the definition after them,
of the kind a change to the code could introduce. Nothing refers to them; they
serve to confirm that each property notices such a change.

Abstractions, with their reasons:

* A map is a total function whose default (`NoEvent`, 0, no row) stands for an
  absent key; the code never stores those values.
* Event IDs are fresh values: 64 random bits are taken not to collide.
* Counters of an updater stop at `CounterCap`, at least the largest threshold:
  they are only compared with thresholds.
* Thresholds are positive. `Register` replaces 0 by a default; a negative one
  would act as 1.
* Messages, tags and notifiers are left out; a notification is its check, its
  status, its event and its number.
* `Silences` says which results a check gives with `NoNotification`. A timeout
  is reported by the loop, always aloud (`check.go:87`).
* In `Incidents` a command without an event takes no number and is not followed.
* In `ActionRunner` and `Notifications` the clock moves in ticks; the zero
  `lastRun` is older than every cooldown. A row keeps whole seconds of
  `TicksPerSecond` ticks.
* In `MaintenanceCheck` a file is what the check makes of it: absent,
  unreadable, plain, or with a control prefix, with or without a number. A
  file that vanishes between `os.Stat` and `os.ReadFile` is a plain one, as in
  the code. Integers have the width `MaxInt`, and `time.Second` is
  `TicksPerSecond`, so that the product of the two can overflow.
* `CheckRunner` leaves durations out: what is due comes sooner or later, in any
  order. A loop and the channel it was started with go by one name. Which
  status a run reports is left to the updater's models.
* `SqlitePersister` numbers the saves of a key and forgets their contents. A
  timer's goroutine and a caller of `Close` are routines; a timer that has been
  stopped or has flushed may be used again.
* `Restart` has a row in the database as soon as it is saved. What a persister
  loses on the way is, for the next process, one more row that was not saved. A
  row may be absent or unreadable. What the last process saves, which nobody
  reads, is left out. A process whose tracker was replaced after checks had
  registered runs on like any other.
* History variables: `issued`, `alert` and `muted` in `Incidents` (the numbers
  given out; the alert the subscribers hold open for a check; whether a silent
  response has changed between passing and failing since the check's last
  notification); `fresh`, `over`, `settled` and `relapsed` in
  `MaintenanceCheck` (the runs that started after the file was gone; whether
  one of them has ended; whether none that started earlier was left then;
  whether an earlier one has disabled notifications since); `orphans` in
  `CheckRunner` (the loops that `Start` on a running check left behind); `saved`, `lost`, `promised`, `overlapped` in
  `SqlitePersister` (last saves, what failed or was deleted, what was saved
  when `Close` was called, two flushes at once); `stale`, `displaced` in
  `Restart` (a row was not what its process stopped with, a check ran on a
  tracker that `New` replaced).

## 3. Runs

| Run | Instance | What it shows |
|---|---|---|
| `tracker` | 2 checks and maintenance, 4 events, 1 number | `TrackerInv`, the ledger, sharing only through maintenance, and no reopened event, for arbitrary callers. Four events are two maintenance windows and an event of its own for each check; numbering is independent of attachment, so one number is enough. |
| `debounce` | thresholds 3, 1, 2; 7 results | status and log of results agree; announcements agree with the status. Seven results are a full recovery (3) after a full failure (2) with two results to disturb them. |
| `actions` | 50 configurations, cooldown 2, time 3, 2 ticks per second | every setting of the success and failure actions, beside a warning action that only records, under a cooldown, or a timeout action without one; a restart through a row of the database at any moment. Time passes one whole cooldown and one tick more; two ticks per second make `lastRun` lose one. |
| `incidents` | 2 checks and maintenance, 3 events, 5 numbers per event | interleavings of registration, failure and recovery. Five numbers allow three initial notifications and two resolutions of one shared event. The maintenance check may pass silently, as the built-in one does. Symmetric in checks and events: only safety is checked. |
| `flapping` | 1 check and maintenance, 2 successes to recover, 3 events, 4 numbers, 1 command | a check that flaps during recovery, beside maintenance that comes and goes, with late commands. The check may give any of its results silently. |
| `restart` | 1 check and maintenance, which may pass silently, 2 events, 3 numbers, thresholds 1, 1 restart, no commands | saves and a stop at any moment, rows missing, old, of different moments or unreadable. `RestartInv` and `FailingIsAnnounced` hold then too; `PassingIsResolved`, `AlertSurvivesRestart` and `NumbersSurviveRestart` when everything was saved. One restart is enough: what a process starts from is any state of the one before it. Three numbers are an alert, its repetition after the restart and its resolution. Symmetric in events. The proofs are for any silent responses, and with commands. |
| `check_runner` | 2 loops, 2 runs | pauses and resumes at any moment, also of a running check; answers, deadlines and hanging check functions. Two loops are one that is being replaced by another, or one that nothing stops beside the one of the last `Start`; two runs overlap. The proof is for any number of loops. Deadlock is checked. |
| `notifications` | channel of 2, durations -1, 0, 1, 3, time 5 | the sender implements `TimedSilence`: time for a silence of 3, another one in its place, and its end without a call. |
| `maintenance` | 2 overlapping runs, files with the numbers 0, 1 and 3, the last of which overflows as a duration, application silences 0 and 1, channel of 1, time 2 | a file silences for as long as it says (`SilenceLastsAsWritten`), and the end of maintenance is noticed: a run that ends and started after the removal leaves notifications enabled, and only a run that started before it may disable them again, until the next end of a newer one (`EnabledWhenOver`). Every file may be written, edited or removed at any moment, before and after every call of a run. Two runs are enough for one to overtake the other; the proof is for any number. Not symmetric, because liveness is checked. |
| `sqlite` | the tracker's row and one check's, 2 timers, 1 caller of `Close`, 2 saves per key, any old rows | no save is left without a flush, the last save is kept, `Close` flushes when undisturbed, every save is stored or superseded, and the persister implements `WriteBehindStore`. Two timers are a flush that waits beside one that is scheduled; two saves of a key are one that is superseded. The proofs are for any number. |

`incidents`, `flapping` and `restart` have a `VIEW`: states that differ only in
what no step and no property of the run reads any more count as one (the
operators and the reasons are in `MCIncidents` and `MCRestart`).

The bounds `MaxSequence`, `MaxResults`, `MaxTime`, `MaxCommands`, `MaxSaves`,
`MaxRestarts` and the finite set of event IDs stop a behaviour when used up,
which is why those runs do not check deadlock; the code has no such stops.
Update calls of one check exclude each other and no call waits while it holds
the tracker's mutex, so there is no lock cycle to look for. Nor is there one in
the persister: nothing holds `debounceMu` and `mu` at once.

Fairness:

* `maintenance`: each run keeps starting and each call of a run is eventually
  made. `runCheckWithChan` (`check.go:54`) starts a run after every interval,
  and the check makes only calls that return; a paused check, or a file system
  that hangs, is outside that assumption. Nothing is assumed of the operator,
  the application, the other checks, the subscriber or the clock.
  `RemovalEnables` and `ControlFileDisables` need it: without it no run comes
  back to look at the file.
* `check_runner`: timers and deadlines come, goroutines run on, and a `select`
  does not pass over a ready channel for ever. The check function may hang:
  `Answer` has no fairness. `Tick` is strongly fair only because `Runs` bounds
  the runs under way; in the code a run can always be started. `PauseStops`
  needs the fair `select`: a loop that finds its timer due and its channel
  closed may take either.
* `sqlite`: timers expire and goroutines run on. Nothing is assumed of those
  who save, delete or close. `SavedIsStored` needs it.

Runs that find a disagreement between the code and what its comments say:

* `incidents_numbers`: two checks of a shared event recover at once and number
  1 of the event is issued twice (`events.go:221`). `incidents` shows that this
  needs every check to have left the event (`OpenEventNumbersAreUnique`), and
  `flapping` that events of one check are safe (`PrivateNumbersAreUnique`).
* `sqlite_close`: a timer's flush has taken the pending saves and waits for
  `mu`; `Close` finds nothing to flush, closes, and the flush then drops what
  it took (`sqlite.go:455`, `:508`). `UndisturbedCloseFlushes` says that this
  needs two flushes at once.

Other behaviour of the models that a reader of the documentation may not
expect, for which no run is kept. Results and notifications:

* A passing response with `NoNotification` ends an event without a resolution
  (`status.go:128`; the comment at `:101` speaks of the notification as sent),
  and the next failure gets another event while the first alert is still open.
  The maintenance check gives such a response when it re-enables notifications
  (`checks/maintenance/check.go:70`), and the README configures it with
  `SuccessesBeforePassing: 1`. A failing one puts the check on an event of
  which nothing is announced as long as the status stays the same
  (`status.go:169`). The tracker's part is the same with and without silence
  (`IncidentsInv`, `EndedEventsAreForgotten`); what the subscribers hold
  (`AlertKeepsItsEvent`, `FailingIsAnnounced`, `PassingIsResolved`,
  `AlertSurvivesRestart`) is stated for a check that is not `muted`, that is,
  with that exception until its next notification.
* Each run is a goroutine of its own (`check.go:71`). A run that takes longer
  than the interval reports after a later one, and the counters and the status
  are those of the order in which the results came in; nothing tells an old
  result from a new one. `Debounce` and `Incidents` take them in any order.
* Registering the maintenance check opens a maintenance window until its first
  result (`status.go:36`; `README.md:398` names an unhealthy check).
* `maintenanceEventID` outlives a window that no check joined (`events.go:34`
  says it is empty outside maintenance).
* When a run's deadline and its answer are both ready, either may be reported
  (`check.go:85`; `README.md:256`).
* `Start` on a running check leaves the first loop running, and `Pause` cannot
  stop it any more (`check.go:19`); the README's example pauses first.
  `LoopsThatGoOn` and `PauseStops` say which loops go on then.

Actions:

* A failure inside its cooldown is not recorded, so that the recovery after it
  is hidden from the `SuccessAction` (`actions.go:120`, `health_test.go:1124`).
* `UnlockOnlyAfterHealthy` switches the cooldown of its action off
  (`types.go:206`), and a result of a third kind unlocks the action again
  (`health_test.go:1077`). `OncePerStretch` and `IncidentRunsAction` say what
  holds.
* A restart cuts `lastRun` to whole seconds, and with it up to a second off a
  cooldown (`sqlite.go:601`). `RunsOutsideCooldown` says by how much at most.

Silences:

* After a timed silence has run out `Enabled` answers no until the next `Send`
  (`README.md:306`). The maintenance check that asks it then keeps its recovery
  silent although notifications were on.
* A file that asks for an hour of silence gets another hour after each
  notification that passes in between (`README.md:428`); `ControlFileDisables`
  is the general form.
* A run that read the file before its removal may disable notifications after
  another run has seen that the file is gone, and after that the next end of a
  run enables them (`checks/maintenance/check.go:87`). `EnabledWhenOver` says
  how far this goes.
* A run of the maintenance check without a file lifts a silence of the
  application (`checks/maintenance/check.go:67`, `README.md:300`).
* A number of seconds above 9223372036 overflows when it is multiplied by
  `time.Second` (`checks/maintenance/check.go:125`); the silence may then be
  over before it begins. `SilenceLastsAsWritten` is about the numbers below. A
  number that is no int at all, and 0, mean for good.
* A silence is not saved. After a restart other checks may notify before the
  first run of the maintenance check disables notifications again.

Persistence:

* `WithChecks` registers checks before `New` loads the tracker's state
  (`health.go:38`), although `RestoreState` is to come first (`events.go:265`).
  The events those checks were given are then replaced.
* The README's example of a shutdown (`README.md:495`) calls `SaveState` and
  exits. With the SQLite persister the saves still wait for the timer and are
  lost; `Close` would write them.
* When two flushes overlap, the one with the older saves may write last, and
  the row goes back to them (`sqlite.go:497`). `LastSaveIsKept` excludes
  overlapping flushes; `WriteBehindStore` says what holds with them.
* `DeleteCheckState` does not touch a save that waits; it brings the row back
  (`sqlite.go:440`).
* After a crash an alert can stay open for good: its check was saved as
  passing, failed and alerted, and passes again after the restart. The restored
  status is passing, so nothing changes. `PassingIsResolved` is for the case
  that everything was saved.
* A check saved before its first threshold has the status "critical" it was
  created with. The restart takes it for a real one, announces it as restored,
  and a first passing result then counts as a recovery (`status.go:274`).

## 4. Proofs

`EventTrackerProofs`, from the assumptions that the maintenance check is not
among the regular ones and that the empty ID is neither an event nor a name:

* `TrackerSafe`: `TrackerInv` is inductive. Its parts need each other. A check
  that fails inside a window joins `maintenanceEventID`; that this is the event
  the maintenance check itself holds is `WindowIsHeld`. That the branch reusing
  a maintenance event outside a window (`events.go:146`) is never taken needs
  `ListedChecksAreAttached`: an entry of `maintenanceChecks` never outlives the
  attachment it records.
* `TrackerImplementsLedger`: with `incident <- eventIDs` and `used <- Minted`
  (history: every ID given out) each call is a ledger step or a stutter.
* `EventsEndForGood` follows.

`DebounceProofs`, for all positive thresholds and any cap that covers them:

* `CountersMatchLog` is the strengthening: a counter equals the length of the
  run the log ends in, up to the cap. From it `CrossesIffRunComplete`: what the
  code decides by counters is what the log says.
* `DebounceSafe`, `StatusNeedsRun`, `RunReachesStatus` and `NothingToldTwice`
  state the properties of the run for
  every instance.

`IncidentsProofs`, for any number of checks, events and commands and any
thresholds. Every step of a handler is one call of the tracker, so the lemmas of
`EventTrackerProofs` carry over; what is new is what the handlers hold between
their calls:

* `PathInv` is the inductive invariant: `IncidentsInv`, and three facts.
  `CallsAreOwn`: two calls at work on one event work on an event of the
  maintenance check. So a private event has one caller at a time, and its
  counter is cleared only after its resolution was numbered. `IssuedAreCounted`:
  while a check or such a call holds an event, its counter is at least every
  number issued. `EndedEventsAreForgotten`: an event nobody holds or works on
  has no counter.
* Its part `CoreInv`, the types, `TrackerInv` and `CallsAreOwn`, is inductive by
  itself, which the restarts below need: after a row was lost, counters may be
  too low, and only that part still holds.
* `HandlersUseTracker` is the composition: whatever the handlers do, the tracker
  behaves as `EventTracker` says, that is `IncidentsSpec => Spec`. It needs that
  a handler passes on only an event it was given. `PathImplementsLedger` and
  `EventsEndForGoodOnPath` are the theorems about the tracker carried over, with
  the real handlers as its callers.
* `IncidentsSafe`, `CallsKeepTheirEvent`, `NoCounterLeaks`,
  `OpenNumbersIssuedOnce` and `PrivateNumbersIssuedOnce` follow from `PathInv`.
  For shared events the last one fails, as `incidents_numbers` shows.
* `AlertsKeepTheirEvent`, for any silent responses. The strengthening
  `AlertIsHeld` says that the event of an open alert is the one its check is
  attached to, or the one the call under way resolves, unless the check is
  muted: a silent recovery makes it false, which is the first of the behaviours
  above, and the next notification makes it true again.

`ActionRunnerProofs`, for any configurations, cooldowns, length of time and
number of restarts: `ActionsSafe`, `SuccessRunsOncePerRecovery`,
`ActionRunsOncePerStretch`, `CooldownIsKept`, `EachIncidentRunsAction`. They need
that `lastRun` never lies in the future and is at most a second behind the last
run of the command, and that the history of results agrees with the status the
runner remembers.

`CheckRunnerProofs`, for any number of loops and runs: `RunnerSafe`. It says that
`Pause` closes the channel of the last `Start` only, never twice, and that the
loops that go on are that one and those that `Start` on a running check left
behind.

`MaintenanceCheckProofs` begins with the sender, for any capacity, any set of
integer durations and any length of time:

* `SenderImplementsSilence`: with `Remaining`, the time stamp plus the duration
  less the clock while `Send` would be suppressed, a `Send` is an `Offer`, a
  tick is an `Elapse` or a stutter, `Disable` a `Silence`. Needs `Lifted`, that
  an enabled sender has no duration left over.
* `SenderSafe`: its type, with the bound of the channel.

It goes on with the check, for any number of runs, any files, any width of
integers and any positive `TicksPerSecond`:

* `MaintenanceSafe`: `EnabledWhenOver` says that after the end of a run that
  started after the removal notifications are enabled, until a file is written
  or the application disables them, except that each run that started before
  the removal may disable them until the next end of a newer one (`relapsed`);
  and that the exception is over when a newer run ends with none of those left
  (`settled`). It is not inductive: a run that is about to call
  `NotificationsDisable` would break it. `NoStaleRunWhenSettled` says that no
  such run is left once the end of maintenance is settled, `FreshRunSawNoFile`
  that a newer one only enables. The lemmas about each method of the sender
  carry its part.
* `FilesSilenceAsWritten`: a number whose duration fits the width is not
  wrapped, and the run passes it on as it read it.
* `CheckImplementsSilence`: with runs of the check, an application and other
  checks as its callers, the sender still implements `TimedSilence`, for
  silences of any length: a duration that overflows is still one the countdown
  knows.

`SqlitePersisterProofs`, for any number of checks, timers, closers and saves:

* `PersisterSafe`: `PersisterInv` is inductive. `SavesAreApart`, that no save is
  in two places, is what makes the others work: a row that is written is not
  one that waits elsewhere. `TimerIsLive` and `PendingHasFlush` need each other.
* `LastSaveSafe`: while flushes do not overlap, a save that has left `pending`
  is in the one batch under way, in the database, or lost.
* `CloseSafe`: without overlap a batch in the hands of `Close` holds all that
  was promised and is not stored yet, so `closed` finds it written.
* `PersisterImplementsStore`: `newest <- saved`, `stored <- rows`, and what
  waits is what is pending or in a batch. A row written is a `Store`, a failure
  or a dropped batch a `GiveUp`; taking the pending saves is a stutter.

`RestartProofs`, for any number of checks, events and restarts and any
thresholds. Each step of a process is one of `Incidents`; what is new is what
the rows say about the next process. `RestartsInv` has four parts, each under
the condition it needs, because the properties hold under different ones:

* `SoundInv`, always, also after `New` replaced a tracker under running checks:
  the tracker, and every row of it, is a state a tracker may
  be in (`RowIsSound`), judged by the events minted since. A row that was saved
  long ago must still be sound when it is read, which holds because an event
  keeps who minted it. A tracker that is not read yet has no check running
  on it, unless `New` registered checks first.
* `AnnouncedInv`, unless the tracker was displaced: a failing check that is not
  muted has its alert on the event it is attached to, at the latest when its
  call has sent.
* `Resolved`, if every row is what its process stopped with: a check without a
  row, or with the row of a passing one, has no alert unless it is muted.
* `LastingInv`, under both conditions: `PathInv`; that an open alert of a check
  that is not muted is on the event its check holds, that the tracker's row has
  kept, or that a call resolves; and that the counters in a row that is not
  read yet are at least every number issued.

From them `RestartedTrackerIsSound`, `FailuresStayAnnounced`,
`SuccessesStayResolved`, `AlertsSurviveRestarts`, `NumbersSurviveRestarts` and
`NoCounterLeaksAcrossRestarts`. The proof goes by what a step does to the one
check that takes it (`Runs`, `Begins`) and that the others keep what they
have (`OthersKeep`). Nothing is assumed about who responds silently; a silent
response sets `muted`, which outlives the process as the alert does, and the
properties about alerts make that exception.

Only model-checked: the liveness properties `RemovalEnables`,
`ControlFileDisables`, `PauseStops`, `KeepsChecking`, `EveryRunReports` and
`SavedIsStored`, which are out of the prover's reach, and the two
disagreements, which are counterexamples of a small instance. Every safety
and action property and every refinement that a run checks is proved.

## 5. Not modelled

* `Status` and `Handler` (`health.go`, `status.go`): they only read. `Status`
  reads the checks one by one and promises no snapshot, so the overall status
  may be one that held at no moment.
* The built-in checks: clients of external services, each a single probe.
* How a row is laid out in SQL and JSON, except for `lastRun`; the schema; and
  `LoadAllCheckStates`, which the library does not call.
* The HTTP encoding, tracing, system metrics, the running of shell commands,
  and the programs in `_examples`.
