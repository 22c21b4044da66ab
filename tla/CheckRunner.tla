----------------------------- MODULE CheckRunner -----------------------------
(***************************************************************************)
(* The schedule of one check (check.go): Start and Pause, which the        *)
(* application may call at any time, the loops that Start leaves running,  *)
(* and the runs a loop starts, each with a deadline.                       *)
(*                                                                         *)
(* Every Start makes a loop with a pausedChan of its own; the two go by    *)
(* one name here.  Time is left out: an interval, an offset or a deadline  *)
(* is over sooner or later, in any order.  What a run reports goes to      *)
(* StatusUpdater.update, and Debounce takes any results in any order.      *)
(***************************************************************************)
EXTENDS FiniteSets, Integers

CONSTANTS Loops,  \* bound: loops of runCheckWithChan at a time
          Runs,   \* bound: runs of the check function under way at a time
          NoLoop  \* a nil pausedChan

ASSUME NoLoopAssumption == NoLoop \notin Loops

VARIABLES paused,   \* runtime.paused
          current,  \* the loop whose channel is runtime.pausedChan
          stopped,  \* loop -> its channel is closed
          loop,     \* loop -> where it stands
          run,      \* run -> where it stands and which of its channels are ready
          orphans   \* history: loops a Start left running without a stop

vars == <<paused, current, stopped, loop, run, orphans>>

Ready == {"answer", "deadline"}
NoRun == [pc |-> "free", ready |-> {}]

TypeOK ==
  /\ paused \in BOOLEAN
  /\ current \in Loops \cup {NoLoop}
  /\ stopped \in [Loops -> BOOLEAN]
  /\ loop \in [Loops -> {"free", "first", "waiting", "due"}]
  /\ run \in [Runs -> [pc : {"free", "starting", "selecting"}, ready : SUBSET Ready]]
  /\ orphans \subseteq Loops

Init ==
  /\ paused = FALSE
  /\ current = NoLoop
  /\ stopped = [l \in Loops |-> FALSE]
  /\ loop = [l \in Loops |-> "free"]
  /\ run = [r \in Runs |-> NoRun]
  /\ orphans = {}

-----------------------------------------------------------------------------
\* The loop that a Start on a running check leaves behind: its channel is no
\* longer the one that Pause closes.
LeftRunning == IF paused THEN {} ELSE {current} \ {NoLoop}

\* Fault: a second Start goes on with the channel that Pause has closed.
StartKeepsChannel(l) ==
  /\ loop[l] = "free" /\ (current = NoLoop \/ l = current)
  /\ paused' = FALSE
  /\ current' = l
  /\ loop' = [loop EXCEPT ![l] = "first"]
  /\ orphans' = orphans \cup LeftRunning
  /\ UNCHANGED <<stopped, run>>

Start(l) ==
  /\ loop[l] = "free"
  /\ paused' = FALSE
  /\ current' = l
  /\ stopped' = [stopped EXCEPT ![l] = FALSE]
  /\ loop' = [loop EXCEPT ![l] = "first"]
  /\ orphans' = orphans \cup LeftRunning
  /\ UNCHANGED run

\* Closes the channel of the last Start.  Before any Start, and on a paused
\* check, Pause does nothing.
Pause ==
  /\ current # NoLoop /\ ~paused
  /\ paused' = TRUE
  /\ stopped' = [stopped EXCEPT ![current] = TRUE]
  /\ UNCHANGED <<current, loop, run, orphans>>

-----------------------------------------------------------------------------
(* runCheckWithChan *)

\* check: a goroutine of its own for each run; the loop does not wait for it.
check == \E r \in Runs :
  /\ run[r].pc = "free"
  /\ run' = [run EXCEPT ![r].pc = "starting"]

\* Fault: the timer is not set again after a run.
TickOnce(l) ==
  /\ loop[l] \in {"first", "due"}
  /\ check
  /\ loop' = [loop EXCEPT ![l] = "free"]
  /\ UNCHANGED <<paused, current, stopped, orphans>>

\* The first run at once, the next ones when the timer is due.  A loop whose
\* channel is closed as well may take either.
Tick(l) ==
  /\ loop[l] \in {"first", "due"}
  /\ check
  /\ loop' = [loop EXCEPT ![l] = "waiting"]
  /\ UNCHANGED <<paused, current, stopped, orphans>>

TimerDue(l) ==
  /\ loop[l] = "waiting"
  /\ loop' = [loop EXCEPT ![l] = "due"]
  /\ UNCHANGED <<paused, current, stopped, run, orphans>>

\* Fault: the loop looks at the channel of the check, not at its own.
EndLoopOfCurrent(l) ==
  /\ loop[l] \in {"waiting", "due"} /\ stopped[current]
  /\ loop' = [loop EXCEPT ![l] = "free"]
  /\ UNCHANGED <<paused, current, stopped, run, orphans>>

EndLoop(l) ==
  /\ loop[l] \in {"waiting", "due"} /\ stopped[l]
  /\ loop' = [loop EXCEPT ![l] = "free"]
  /\ UNCHANGED <<paused, current, stopped, run, orphans>>

-----------------------------------------------------------------------------
(* One run *)

\* A channel gets ready.  The goroutine that waits in its select takes the
\* first that does; before it waits, both may get ready.
Arrives(r, channel) ==
  /\ run[r].pc = "starting" \/ (run[r].pc = "selecting" /\ run[r].ready = {})
  /\ run' = [run EXCEPT ![r].ready = @ \cup {channel}]
  /\ UNCHANGED <<paused, current, stopped, loop, orphans>>

\* The check function may hang; the context does not.
Answer(r) == "answer" \notin run[r].ready /\ Arrives(r, "answer")
Deadline(r) == "deadline" \notin run[r].ready /\ Arrives(r, "deadline")

Wait(r) ==
  /\ run[r].pc = "starting"
  /\ run' = [run EXCEPT ![r].pc = "selecting"]
  /\ UNCHANGED <<paused, current, stopped, loop, orphans>>

\* Fault: only an answer ends a run.
ReportAnswer(r) ==
  /\ run[r].pc = "selecting" /\ "answer" \in run[r].ready
  /\ run' = [run EXCEPT ![r] = NoRun]
  /\ UNCHANGED <<paused, current, stopped, loop, orphans>>

\* update with the answer or with a timeout; an answer after that is dropped.
Report(r) ==
  /\ run[r].pc = "selecting" /\ run[r].ready # {}
  /\ run' = [run EXCEPT ![r] = NoRun]
  /\ UNCHANGED <<paused, current, stopped, loop, orphans>>

LoopStep(l) == Tick(l) \/ TimerDue(l) \/ EndLoop(l)
RunStep(r) == Answer(r) \/ Deadline(r) \/ Wait(r) \/ Report(r)

Next ==
  \/ Pause
  \/ \E l \in Loops : Start(l) \/ LoopStep(l)
  \/ \E r \in Runs : RunStep(r)

\* Goroutines run on, timers and deadlines come, and a select does not pass
\* over a ready channel for ever.  Nothing makes a check function answer.  (In
\* the code a run can always be started; here Tick may have to wait for one of
\* Runs, hence strong fairness.)
Fairness ==
  /\ \A l \in Loops : SF_vars(Tick(l)) /\ WF_vars(TimerDue(l)) /\ WF_vars(EndLoop(l))
  /\ \A r \in Runs : WF_vars(Deadline(r)) /\ WF_vars(Wait(r)) /\ WF_vars(Report(r))

Spec == Init /\ [][Next]_vars /\ Fairness

-----------------------------------------------------------------------------
(* Properties *)

Running == {l \in Loops : loop[l] # "free"}

\* The flag and the channel agree, so Pause never closes a channel twice (a
\* panic), and the loops that go on are those that a Start on a running check
\* left behind, for good, and that of the last Start while the check is not
\* paused: however fast a check is paused and resumed, no loop that was paused
\* survives and none that should go on is stopped.
LoopsThatGoOn ==
  /\ TypeOK
  /\ current # NoLoop => (paused <=> stopped[current])
  /\ current \notin orphans
  /\ {l \in Running : ~stopped[l]} = orphans \cup LeftRunning

\* "Pause the check (stops running)": the loop that Pause was meant for ends,
\* resumed or not; after Pause only the loops that a Start on the running check
\* left behind go on, and without such a Start the check falls silent, runs
\* under way included, unless it is resumed.
PauseStops ==
  /\ \A l \in Loops : stopped[l] ~> loop[l] = "free"
  /\ paused ~> ~paused \/ Running = orphans
  /\ paused /\ orphans = {} ~>
       ~paused \/ (Running = {} /\ \A r \in Runs : run[r] = NoRun)

\* A check that is not paused keeps being run, whatever its function does.
KeepsChecking ==
  current # NoLoop /\ ~paused ~> paused \/ \E r \in Runs : run[r].pc = "starting"

\* Every run reports, though the check function may hang.
EveryRunReports == \A r \in Runs : run[r].pc # "free" ~> run[r].pc = "free"
=============================================================================
