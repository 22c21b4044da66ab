-------------------------- MODULE MaintenanceCheck --------------------------
(***************************************************************************)
(* The maintenance check of checks/maintenance/check.go with the           *)
(* notification sender it switches (Config.Health is set): a file that an  *)
(* operator writes, edits and removes, runs of the check that read it, an  *)
(* application that disables and enables notifications itself, and the     *)
(* other checks, which send.                                               *)
(*                                                                         *)
(* A run calls os.Stat, os.ReadFile, NotificationsEnabled and then         *)
(* NotificationsDisable or NotificationsEnable, each a step of its own.    *)
(* Runs overlap when one takes longer than the interval, and one that has  *)
(* passed its deadline still finishes.  Its answer concerns the status     *)
(* updater and is left to Incidents.tla.                                   *)
(*                                                                         *)
(* A file is what the check makes of it: a number is a file that holds     *)
(* HEALTH_GO_DISABLE_NOTIFICATIONS_<number>.                               *)
(***************************************************************************)
EXTENDS Notifications

CONSTANTS NoFile,
          Unreadable,      \* os.Stat fails, but not with IsNotExist
          Plain,           \* no control prefix, empty, or ReadFile fails
          Indefinite,      \* the prefix without a number
          Seconds,         \* the numbers
          TicksPerSecond,  \* time.Second
          MaxInt,          \* largest value of a Go int and of a time.Duration
          Runs             \* runs of the check that may be under way at once

ASSUME FilesAssumption ==
  /\ Seconds \subseteq Nat
  /\ {NoFile, Unreadable, Plain, Indefinite} \cap Seconds = {}
  /\ NoFile \notin {Unreadable, Plain, Indefinite}
  /\ Indefinite \notin {Unreadable, Plain}
  /\ Unreadable # Plain
ASSUME WidthAssumption == TicksPerSecond \in Nat \ {0} /\ MaxInt \in Nat

Controls == {Indefinite} \cup Seconds
Files == {NoFile, Unreadable, Plain} \cup Controls

VARIABLES file,
          pc,       \* run -> its next call, or "idle"
          message,  \* run -> what it read
          fresh,    \* history: run -> it found no file, and there is none since
          over,     \* history: a fresh run has ended since the file was removed
                    \* and since the application last disabled notifications
          settled,  \* history: and no run that may have seen a file was left
          relapsed  \* history: such a run has disabled notifications since a
                    \* fresh run last ended

claims == <<fresh, over, settled, relapsed>>
runVars == <<file, pc, message, claims>>
vars == <<senderVars, runVars>>

MaintenanceTypeOK ==
  /\ TypeOK
  /\ file \in Files
  /\ pc \in [Runs -> {"idle", "readFile", "askEnabled", "disable",
                      "askDisabled", "enable"}]
  /\ message \in [Runs -> Controls \cup {NoFile}]
  /\ fresh \in [Runs -> BOOLEAN]
  /\ over \in BOOLEAN /\ settled \in BOOLEAN /\ relapsed \in BOOLEAN

MaintenanceInit ==
  /\ Init
  /\ file \in Files
  /\ pc = [r \in Runs |-> "idle"]
  /\ message = [r \in Runs |-> NoFile]
  /\ fresh = [r \in Runs |-> FALSE]
  /\ over = FALSE /\ settled = FALSE /\ relapsed = FALSE

-----------------------------------------------------------------------------
\* The product of two 64-bit integers.
Wrapped(x) == ((x + MaxInt + 1) % (2 * MaxInt + 2)) - (MaxInt + 1)

\* Fault: takes the number for nanoseconds.
ParseUnscaled(c) == IF c = Indefinite \/ c > MaxInt THEN 0 ELSE c

\* A number that Atoi rejects counts as none.
parseNotificationDisable(c) ==
  IF c = Indefinite \/ c > MaxInt THEN 0 ELSE Wrapped(c * TicksPerSecond)

Goto(r, label) == pc' = [pc EXCEPT ![r] = label]

\* A run is under way that started before the file was removed.
Stale(r) == pc[r] # "idle" /\ ~fresh[r]

\* The end of a run.  A run that disables notifications ends with that.
Return(r) ==
  /\ Goto(r, "idle")
  /\ fresh' = [fresh EXCEPT ![r] = FALSE]
  /\ over' = (over \/ fresh[r])
  /\ settled' = (settled \/ (fresh[r] /\ \A q \in Runs : ~Stale(q)))
  /\ relapsed' = (~fresh[r] /\ (relapsed \/ (over /\ pc[r] = "disable")))

Stat(r) ==
  /\ pc[r] = "idle"
  /\ \/ /\ file = NoFile
        /\ Goto(r, "askDisabled")
        /\ fresh' = [fresh EXCEPT ![r] = TRUE]
     \/ /\ file = Unreadable
        /\ UNCHANGED <<pc, fresh>>
     \/ /\ file \notin {NoFile, Unreadable}
        /\ Goto(r, "readFile")
        /\ UNCHANGED fresh
  /\ UNCHANGED <<senderVars, file, message, over, settled, relapsed>>

\* The file may have changed, or be gone, since Stat.
ReadFile(r) ==
  /\ pc[r] = "readFile"
  /\ \/ /\ file \in Controls
        /\ message' = [message EXCEPT ![r] = file]
        /\ Goto(r, "askEnabled")
        /\ UNCHANGED claims
     \/ /\ file \notin Controls
        /\ Return(r)
        /\ UNCHANGED message
  /\ UNCHANGED <<senderVars, file>>

\* Fault: the test is the wrong way round.
AskEnabledInverted(r) ==
  /\ pc[r] = "askEnabled"
  /\ \/ Enabled /\ Return(r)
     \/ ~Enabled /\ Goto(r, "disable") /\ UNCHANGED claims
  /\ UNCHANGED <<senderVars, file, message>>

AskEnabled(r) ==
  /\ pc[r] = "askEnabled"
  /\ \/ Enabled /\ Goto(r, "disable") /\ UNCHANGED claims
     \/ ~Enabled /\ Return(r)
  /\ UNCHANGED <<senderVars, file, message>>

DisableCall(r) ==
  /\ pc[r] = "disable"
  /\ Disable(parseNotificationDisable(message[r]))
  /\ Return(r)
  /\ UNCHANGED <<file, message>>

\* Fault: takes a timed silence for one that ends by itself.
AskDisabledIgnoresTimed(r) ==
  /\ pc[r] = "askDisabled"
  /\ \/ /\ disabled /\ disabledDuration = 0
        /\ Goto(r, "enable") /\ UNCHANGED claims
     \/ /\ disabled => disabledDuration # 0
        /\ Return(r)
  /\ UNCHANGED <<senderVars, file, message>>

AskDisabled(r) ==
  /\ pc[r] = "askDisabled"
  /\ \/ ~Enabled /\ Goto(r, "enable") /\ UNCHANGED claims
     \/ Enabled /\ Return(r)
  /\ UNCHANGED <<senderVars, file, message>>

EnableCall(r) ==
  /\ pc[r] = "enable"
  /\ Enable
  /\ Return(r)
  /\ UNCHANGED <<file, message>>

RunStep(r) == \/ ReadFile(r)
              \/ AskEnabled(r)
              \/ DisableCall(r)
              \/ AskDisabled(r)
              \/ EnableCall(r)

-----------------------------------------------------------------------------
NothingOver == over' = FALSE /\ settled' = FALSE /\ relapsed' = FALSE

\* The operator writes, edits or removes the file.
ChangeFile(c) ==
  /\ c # file
  /\ file' = c
  /\ fresh' = [r \in Runs |-> FALSE]
  /\ NothingOver
  /\ UNCHANGED <<senderVars, pc, message>>

ApplicationDisables(d) ==
  /\ Disable(d)
  /\ NothingOver
  /\ UNCHANGED <<file, pc, message, fresh>>

ApplicationEnables == Enable /\ UNCHANGED runVars

\* Another check reports; its Send may find that a silence has run out.
OthersSend(m) == Send(m) /\ UNCHANGED runVars

Environment ==
  \/ \E c \in Files : ChangeFile(c)
  \/ \E d \in Durations : ApplicationDisables(d)
  \/ ApplicationEnables
  \/ \E m \in Messages : OthersSend(m)
  \/ Receive /\ UNCHANGED runVars
  \/ Tick /\ UNCHANGED runVars

MaintenanceNext ==
  \/ \E r \in Runs : Stat(r) \/ RunStep(r)
  \/ Environment

MaintenanceSpec == MaintenanceInit /\ [][MaintenanceNext]_vars

\* The run loop starts the check again and again, and a run ends.
Fairness == \A r \in Runs : WF_vars(Stat(r)) /\ WF_vars(RunStep(r))

FairSpec == MaintenanceSpec /\ Fairness

-----------------------------------------------------------------------------
(* Properties *)

\* "When the file is removed, the check passes and notifications are
\* automatically re-enabled" (README.md): once a run that started after the
\* removal has ended, notifications are enabled, until a file is written or the
\* application disables them, with one exception.  A run that started before
\* the removal and is still under way may disable them once more; then the next
\* end of a run that started after it enables them again.  When such a run ends
\* with no older one left, the exception is over.
EnabledWhenOver ==
  /\ over /\ ~relapsed => Enabled
  /\ settled => Enabled

\* Why: no run is left then that may still disable them.
NoStaleRunWhenSettled ==
  settled => over /\ ~relapsed /\ \A r \in Runs : ~Stale(r)

\* A fresh run only ever enables, and its claim ends with the next file.
FreshRunSawNoFile ==
  /\ over => file = NoFile
  /\ \A r \in Runs : fresh[r] => file = NoFile /\ pc[r] \in {"askDisabled", "enable"}

\* A run switches notifications off only for what it read in a control file.
ControlIsRead ==
  \A r \in Runs : pc[r] \in {"askEnabled", "disable"} => message[r] \in Controls

\* "HEALTH_GO_DISABLE_NOTIFICATIONS_300: Disable notifications for 300 seconds":
\* when a run disables notifications, perhaps long after it read the file, the
\* sender is silent for that long from then on, and without a number, or with
\* 0, for good.  A number of seconds that a time.Duration cannot hold promises
\* nothing.
SilenceLastsAsWritten ==
  [][\A r \in Runs : DisableCall(r) =>
       /\ message[r] \in {Indefinite, 0} => Remaining' = -1
       /\ \A seconds \in Seconds \ {0} :
            message[r] = seconds /\ seconds <= MaxInt /\ seconds * TicksPerSecond <= MaxInt
              => Remaining' = seconds * TicksPerSecond]_vars

\* The inductive invariant, together with that of the sender.
MaintenanceInv ==
  /\ MaintenanceTypeOK
  /\ ControlIsRead
  /\ EnabledWhenOver
  /\ NoStaleRunWhenSettled
  /\ FreshRunSawNoFile

\* A run that read the file before its removal may disable notifications
\* after it, for good and with nobody left to lift the silence by hand: if the
\* file stays away, later runs enable them again.
RemovalEnables == <>[](file = NoFile) => []<>Enabled

\* A control file left in place keeps disabling, also after the application
\* or the end of a timed silence has enabled notifications.
ControlFileDisables == <>[](file \in Controls) => []<>~Enabled
=============================================================================
