----------------------- MODULE MaintenanceCheckProofs -----------------------
(***************************************************************************)
(* The sender: for every capacity, every set of durations and any length   *)
(* of time, its flag and time stamp implement a countdown that Send obeys. *)
(*                                                                         *)
(* The check: for any number of overlapping runs, any files and any calls  *)
(* of the application, notifications are enabled once maintenance is over  *)
(* and a run that has seen it ends, and stay so unless an older run is     *)
(* still under way, which may disable them until the next newer one ends.  *)
(***************************************************************************)
EXTENDS MaintenanceCheck, TLAPS

USE CapacityAssumption, DurationsAssumption, MaxTimeAssumption
USE DEF flagVars, senderVars, Elapsed, Suppressed

-----------------------------------------------------------------------------
(* The sender *)

\* While notifications are enabled no duration is left over, which Elapsed
\* would read as a silence.
Lifted == ~disabled => disabledDuration = 0

SenderInv == TypeOK /\ Lifted

\* A sender is created enabled.
LEMMA SenderInit == ASSUME Init PROVE SenderInv
<1> USE DEF Init
<1>1. disabled \in BOOLEAN  OBVIOUS
<1>2. disabledDuration \in Int /\ disabledTime \in Nat /\ now \in Nat /\ disabledTime <= now
  OBVIOUS
<1>3. channel \in Seq(Messages) /\ Len(channel) <= Capacity  OBVIOUS
<1>4. Lifted  BY DEF Lifted
<1> QED  BY <1>1, <1>2, <1>3, <1>4 DEF SenderInv, TypeOK

\* The channel keeps its type and its bound when a notification is put.
LEMMA PutFits ==
  ASSUME channel \in Seq(Messages), Len(channel) <= Capacity,
         NEW m \in Messages, Put(m)
  PROVE  channel' \in Seq(Messages) /\ Len(channel') <= Capacity
<1>1. Capacity \in Nat  OBVIOUS
<1>2. CASE Len(channel) < Capacity
  <2>1. channel' = Append(channel, m)  BY <1>2 DEF Put
  <2>2. Len(channel') = Len(channel) + 1  BY <2>1
  <2>3. Len(channel) \in Nat  OBVIOUS
  <2> QED  BY <1>1, <1>2, <2>1, <2>2, <2>3
<1>3. CASE ~(Len(channel) < Capacity)
  BY <1>3 DEF Put
<1> QED  BY <1>2, <1>3

\* A Send that lifts an elapsed silence clears its duration too.
LEMMA SendKeepsInv ==
  ASSUME SenderInv, NEW m \in Messages, Send(m) PROVE SenderInv'
<1> USE DEF SenderInv, Lifted
<1>1. CASE SendSuppressed(m)  BY <1>1 DEF SendSuppressed, TypeOK
<1>2. CASE SendAttempted(m)
  <2>1. channel' \in Seq(Messages) /\ Len(channel') <= Capacity
    BY <1>2, PutFits DEF SendAttempted, TypeOK
  <2>2. disabled' = FALSE /\ disabledDuration' = 0
    BY <1>2 DEF SendAttempted
  <2>3. disabledTime' = disabledTime /\ now' = now
    BY <1>2 DEF SendAttempted
  <2>4. disabled' \in BOOLEAN  BY <2>2
  <2>5. disabledDuration' \in Int  BY <2>2
  <2> QED  BY <2>1, <2>2, <2>3, <2>4, <2>5 DEF TypeOK
<1> QED  BY <1>1, <1>2 DEF Send

\* Disable may be given any number.
LEMMA DisableKeepsInv ==
  ASSUME SenderInv, NEW d \in Int, Disable(d) PROVE SenderInv'
BY DEF SenderInv, Lifted, Disable, TypeOK

\* Enable clears the duration with the flag.
LEMMA EnableKeepsInv == ASSUME SenderInv, Enable PROVE SenderInv'
<1> USE DEF SenderInv, Lifted, Enable
<1>1. disabled' \in BOOLEAN  OBVIOUS
<1>2. disabledDuration' \in Int /\ Lifted'  OBVIOUS
<1> QED  BY <1>1, <1>2 DEF TypeOK

\* The subscriber only shortens the channel.
LEMMA ReceiveKeepsInv == ASSUME SenderInv, Receive PROVE SenderInv'
BY DEF SenderInv, Lifted, Receive, TypeOK

\* Time passes after the last Disable.
LEMMA TickKeepsInv == ASSUME SenderInv, Tick PROVE SenderInv'
BY DEF SenderInv, Lifted, Tick, TypeOK

\* Hence every step does.
LEMMA SenderStep == ASSUME SenderInv, [Next]_senderVars PROVE SenderInv'
<1>1. ASSUME NEW m \in Messages, Send(m) PROVE SenderInv'
  BY <1>1, SendKeepsInv
<1>2. ASSUME NEW d \in Durations, Disable(d) PROVE SenderInv'
  <2>1. d \in Int  OBVIOUS
  <2> QED  BY <1>2, <2>1, DisableKeepsInv
<1>3. CASE UNCHANGED senderVars
  BY <1>3 DEF SenderInv, Lifted, TypeOK
<1> QED  BY <1>1, <1>2, <1>3, EnableKeepsInv, ReceiveKeepsInv, TickKeepsInv DEF Next

\* The state of the sender is well formed: in particular the channel never
\* holds more than its capacity, so a subscriber that stops reading costs
\* notifications and not memory.
THEOREM SenderSafe == Spec => []TypeOK
<1>1. Init => SenderInv  BY SenderInit
<1>2. SenderInv /\ [Next]_senderVars => SenderInv'  BY SenderStep
<1>3. SenderInv => TypeOK  BY DEF SenderInv
<1> QED  BY <1>1, <1>2, <1>3, PTL DEF Spec

-----------------------------------------------------------------------------
(* The sender implements the countdown. *)

\* The countdown stands still while neither the flag nor the clock moves.
LEMMA RemainingKept ==
  ASSUME UNCHANGED <<disabled, disabledDuration, disabledTime, now>>
  PROVE  UNCHANGED Remaining
BY DEF Remaining

\* It is 0 exactly when Send would try the channel.
LEMMA RemainingZero ==
  ASSUME SenderInv PROVE Remaining = 0 <=> ~Suppressed
BY DEF SenderInv, TypeOK, Remaining

\* A Send is an Offer: lifting a silence that has run out does not change the
\* countdown.
LEMMA SendOffers ==
  ASSUME SenderInv, NEW m \in Messages, Send(m)
  PROVE  Silence!Offer(m)
<1>1. CASE SendSuppressed(m)
  <2>1. UNCHANGED Remaining  BY <1>1, RemainingKept DEF SendSuppressed
  <2>2. Remaining # 0  BY <1>1, RemainingZero DEF SendSuppressed
  <2>3. UNCHANGED channel  BY <1>1 DEF SendSuppressed
  <2> QED  BY <2>1, <2>2, <2>3 DEF Silence!Offer
<1>2. CASE SendAttempted(m)
  <2>1. Remaining = 0  BY <1>2, RemainingZero DEF SendAttempted
  <2>2. Remaining' = 0  BY <1>2 DEF SendAttempted, Remaining
  <2>3. Put(m)  BY <1>2 DEF SendAttempted
  <2> QED  BY <2>1, <2>2, <2>3 DEF Silence!Offer, Put
<1> QED  BY <1>1, <1>2 DEF Send

\* Disable starts a countdown from the duration; 0 is for good, and a negative
\* duration is no silence.
LEMMA DisableCountsDown ==
  ASSUME SenderInv, NEW d \in Int, Disable(d)
  PROVE  /\ d > 0 => Remaining' = d
         /\ d = 0 => Remaining' = -1
         /\ d < 0 => Remaining' = 0
BY DEF SenderInv, TypeOK, Disable, Remaining

LEMMA DisableSilences ==
  ASSUME SenderInv, NEW d \in Int, Disable(d)
  PROVE  \E e \in ({d} \cap Nat) \cup {0, Silence!Forever} : Silence!Silence(e)
<1> USE DEF Silence!Silence, Silence!Forever
<1>1. UNCHANGED channel  BY DEF Disable
<1>2. CASE d > 0  BY <1>1, <1>2, DisableCountsDown
<1>3. CASE d = 0  BY <1>1, <1>3, DisableCountsDown
<1>4. CASE d < 0  BY <1>1, <1>4, DisableCountsDown
<1> QED  BY <1>2, <1>3, <1>4

\* A tick shortens a timed silence and nothing else; the last one ends it
\* although no call is made.
LEMMA TickElapses ==
  ASSUME SenderInv, Tick
  PROVE  Silence!Elapse \/ UNCHANGED <<Remaining, channel>>
<1> USE DEF Tick, SenderInv, TypeOK, Remaining
<1>1. CASE Suppressed /\ disabledDuration # 0
  <2>1. Remaining > 0  BY <1>1
  <2>2. Remaining' = Remaining - 1  BY <1>1
  <2> QED  BY <2>1, <2>2 DEF Silence!Elapse
<1>2. CASE ~(Suppressed /\ disabledDuration # 0)
  <2>1. UNCHANGED Remaining  BY <1>2
  <2> QED  BY <2>1
<1> QED  BY <1>1, <1>2

\* Every step is a step of the abstract specification or a stutter.
LEMMA SenderRefines ==
  ASSUME SenderInv, [Next]_senderVars
  PROVE  [Silence!Next]_Silence!silenceVars
<1> USE DEF Silence!Next, Silence!silenceVars
<1>1. ASSUME NEW m \in Messages, Send(m) PROVE Silence!Next
  BY <1>1, SendOffers
<1>2. ASSUME NEW d \in Durations, Disable(d) PROVE Silence!Next
  <2>1. d \in Int  OBVIOUS
  <2>2. PICK e \in ({d} \cap Nat) \cup {0, Silence!Forever} : Silence!Silence(e)
    BY <1>2, <2>1, DisableSilences
  <2>3. e \in {x \in Durations : x > 0} \cup {0, Silence!Forever}
    BY <2>2
  <2> QED  BY <2>2, <2>3
<1>3. CASE Enable
  <2>1. Remaining' = 0 /\ UNCHANGED channel  BY <1>3 DEF Enable, Remaining
  <2> QED  BY <2>1 DEF Silence!Silence
<1>4. CASE Receive
  <2>1. UNCHANGED Remaining  BY <1>4, RemainingKept DEF Receive
  <2> QED  BY <1>4, <2>1 DEF Receive, Silence!Take
<1>5. CASE Tick  BY <1>5, TickElapses
<1>6. CASE UNCHANGED senderVars
  <2>1. UNCHANGED Remaining  BY <1>6, RemainingKept
  <2> QED  BY <1>6, <2>1
<1> QED  BY <1>1, <1>2, <1>3, <1>4, <1>5, <1>6 DEF Next

\* The sender implements the countdown: a notification is dropped only during
\* a silence somebody asked for and that has not run out, or when the channel
\* is full, and no Send changes when a silence ends.
THEOREM SenderImplementsSilence == Spec => SilenceSpec
<1>1. Init => Silence!Init  BY DEF Init, Silence!Init, Remaining
<1>2. Init => SenderInv  BY SenderInit
<1>3. SenderInv /\ [Next]_senderVars => SenderInv'  BY SenderStep
<1>4. SenderInv /\ [Next]_senderVars => [Silence!Next]_Silence!silenceVars
  BY SenderRefines
<1> QED  BY <1>1, <1>2, <1>3, <1>4, PTL DEF Spec, SilenceSpec, Silence!Spec

-----------------------------------------------------------------------------
(* The maintenance check, which switches the sender *)

\* What every step of a run or of its environment keeps.
Inv == SenderInv /\ MaintenanceInv

USE DEF Goto, Controls, Files, claims

\* What the histories of the runs say of the flag and of each other.
Claims == EnabledWhenOver /\ NoStaleRunWhenSettled /\ FreshRunSawNoFile

ClaimsTypeOK ==
  /\ fresh \in [Runs -> BOOLEAN]
  /\ over \in BOOLEAN /\ settled \in BOOLEAN /\ relapsed \in BOOLEAN

\* The program starts with every run idle, whatever the file.
LEMMA MaintenanceStart == ASSUME MaintenanceInit PROVE Inv
<1> USE DEF MaintenanceInit
<1>1. SenderInv  BY SenderInit
<1>2. MaintenanceTypeOK  BY <1>1 DEF MaintenanceTypeOK, SenderInv
<1>3. Claims /\ ControlIsRead
  BY DEF Claims, ControlIsRead, EnabledWhenOver, NoStaleRunWhenSettled, FreshRunSawNoFile
<1> QED  BY <1>1, <1>2, <1>3 DEF Inv, MaintenanceInv, Claims

\* Whatever number a file holds, a duration comes out.
LEMMA ParsedIsInt ==
  ASSUME NEW c \in Controls PROVE parseNotificationDisable(c) \in Int
<1>1. c = Indefinite \/ c \in Nat  BY FilesAssumption
<1>2. ASSUME NEW x \in Int PROVE Wrapped(x) \in Int
  BY WidthAssumption DEF Wrapped
<1>3. ASSUME c \in Nat PROVE c * TicksPerSecond \in Int
  BY <1>3, WidthAssumption
<1> QED  BY <1>1, <1>2, <1>3 DEF parseNotificationDisable

-----------------------------------------------------------------------------
(* The steps of a run. *)

\* The end of a run that started after the removal, with notifications enabled,
\* makes the claim; with no older run left it settles it.
LEMMA FreshReturn ==
  ASSUME Inv, NEW r \in Runs, Return(r), UNCHANGED file, fresh[r], ~disabled'
  PROVE  Claims' /\ ClaimsTypeOK'
<1> USE DEF Inv, MaintenanceInv, MaintenanceTypeOK, Return
<1>1. over' = TRUE /\ relapsed' = FALSE
  <2>1. fresh[r] = TRUE  OBVIOUS
  <2> QED  BY <2>1, Zenon
<1>3. settled' \in BOOLEAN  BY Zenon
<1>4. fresh' \in [Runs -> BOOLEAN]  OBVIOUS
<1>5. file' = NoFile  BY DEF FreshRunSawNoFile
<1>6. FreshRunSawNoFile'  BY <1>5 DEF FreshRunSawNoFile
<1>7. EnabledWhenOver'  BY DEF EnabledWhenOver, Enabled
<1>8. NoStaleRunWhenSettled'
  <2>1. SUFFICES ASSUME settled', NEW q \in Runs PROVE ~Stale(q)'
    BY <1>1 DEF NoStaleRunWhenSettled
  <2>2. ~Stale(q)  BY <2>1, Zenon DEF NoStaleRunWhenSettled
  <2>3. CASE q = r  BY <2>3 DEF Stale
  <2>4. CASE q # r  BY <2>2, <2>4 DEF Stale
  <2> QED  BY <2>3, <2>4
<1> QED  BY <1>1, <1>3, <1>4, <1>6, <1>7, <1>8 DEF Claims, ClaimsTypeOK

\* The end of any other run withdraws the claim if it disables notifications,
\* and nothing was settled while it was under way.
LEMMA StaleReturn ==
  ASSUME Inv, NEW r \in Runs, Return(r), UNCHANGED file, Stale(r),
         ~disabled => ~disabled' \/ pc[r] = "disable"
  PROVE  Claims' /\ ClaimsTypeOK'
<1> USE DEF Inv, MaintenanceInv, MaintenanceTypeOK, Return
<1>0. fresh[r] = FALSE  BY DEF Stale
<1>1. over' = over
  <2>1. over' = (over \/ fresh[r])  OBVIOUS
  <2> QED  BY <1>0, <2>1, Zenon
<1>2. ~settled  BY DEF NoStaleRunWhenSettled
<1>3. settled' = FALSE  BY <1>0, <1>2, Zenon
<1>4. relapsed' \in BOOLEAN  BY Zenon
<1>5. fresh' = fresh  BY <1>0
<1>6. relapsed \/ (over /\ pc[r] = "disable") => relapsed'  BY <1>0, Zenon
<1>7. EnabledWhenOver'
  <2>1. SUFFICES ASSUME over, ~relapsed' PROVE ~disabled'
    BY <1>1, <1>3 DEF EnabledWhenOver, Enabled
  <2>2. ~relapsed /\ pc[r] # "disable"  BY <1>6, <2>1
  <2> QED  BY <2>1, <2>2 DEF EnabledWhenOver, Enabled
<1>8. NoStaleRunWhenSettled'  BY <1>3 DEF NoStaleRunWhenSettled
<1>9. FreshRunSawNoFile'  BY <1>0, <1>1, <1>5 DEF FreshRunSawNoFile
<1> QED  BY <1>1, <1>3, <1>4, <1>5, <1>7, <1>8, <1>9 DEF Claims, ClaimsTypeOK

\* A run that goes on makes and withdraws no claim.
LEMMA RunGoesOn ==
  ASSUME Inv, NEW r \in Runs, pc[r] # "idle", UNCHANGED <<file, claims, disabled>>,
         NEW label, label # "idle", fresh[r] => label = "enable", Goto(r, label)
  PROVE  Claims' /\ ClaimsTypeOK'
<1> USE DEF Inv, MaintenanceInv, MaintenanceTypeOK
<1>1. ClaimsTypeOK'  BY DEF ClaimsTypeOK
<1>2. EnabledWhenOver'  BY DEF EnabledWhenOver, Enabled
<1>3. NoStaleRunWhenSettled'
  <2>1. ASSUME NEW q \in Runs PROVE Stale(q)' <=> Stale(q)  BY DEF Stale
  <2> QED  BY <2>1 DEF NoStaleRunWhenSettled
<1>4. FreshRunSawNoFile'  BY DEF FreshRunSawNoFile
<1> QED  BY <1>1, <1>2, <1>3, <1>4 DEF Claims

\* The parts of the invariant, put together.
LEMMA RunKeepsInv ==
  ASSUME SenderInv', Claims', ClaimsTypeOK', ControlIsRead', file' \in Files,
         pc' \in [Runs -> {"idle", "readFile", "askEnabled", "disable",
                           "askDisabled", "enable"}],
         message' \in [Runs -> Controls \cup {NoFile}]
  PROVE  Inv'
<1>1. MaintenanceTypeOK'  BY DEF MaintenanceTypeOK, ClaimsTypeOK, SenderInv
<1> QED  BY <1>1 DEF Inv, MaintenanceInv, Claims

\* A run that starts while the file is gone is fresh; what is settled already
\* says that the file is gone.
LEMMA StatKeepsInv ==
  ASSUME Inv, NEW r \in Runs, Stat(r) PROVE Inv'
<1> USE DEF Inv, MaintenanceInv, MaintenanceTypeOK, Stat
<1>1. SenderInv'  BY DEF senderVars, SenderInv, Lifted, TypeOK
<1>2. fresh' \in [Runs -> BOOLEAN]  OBVIOUS
<1>3. ClaimsTypeOK'  BY <1>2 DEF ClaimsTypeOK
<1>4. EnabledWhenOver'  BY DEF EnabledWhenOver, Enabled, senderVars
<1>5. NoStaleRunWhenSettled'
  <2>1. SUFFICES ASSUME settled, NEW q \in Runs PROVE ~Stale(q)'
    BY DEF NoStaleRunWhenSettled
  <2>2. file = NoFile /\ ~Stale(q)
    BY <2>1 DEF NoStaleRunWhenSettled, FreshRunSawNoFile
  <2>3. Goto(r, "askDisabled") /\ fresh' = [fresh EXCEPT ![r] = TRUE]
    BY <2>2, FilesAssumption
  <2> QED  BY <2>2, <2>3 DEF Stale
<1>6. FreshRunSawNoFile'  BY DEF FreshRunSawNoFile
<1>7. ControlIsRead'  BY DEF ControlIsRead
<1>8. pc' \in [Runs -> {"idle", "readFile", "askEnabled", "disable",
                        "askDisabled", "enable"}]
  OBVIOUS
<1> QED  BY <1>1, <1>3, <1>4, <1>5, <1>6, <1>7, <1>8, RunKeepsInv DEF Claims

\* A run that read the file is not fresh.
LEMMA ReadFileKeepsInv ==
  ASSUME Inv, NEW r \in Runs, ReadFile(r) PROVE Inv'
<1> USE DEF Inv, MaintenanceInv, MaintenanceTypeOK, ReadFile
<1>1. SenderInv'  BY DEF senderVars, SenderInv, Lifted, TypeOK
<1>2. ~fresh[r] /\ Stale(r)  BY DEF FreshRunSawNoFile, Stale
<1>3. disabled' = disabled  BY DEF senderVars
<1>4. Claims' /\ ClaimsTypeOK'
  <2>1. CASE file \in Controls  BY <1>2, <1>3, <2>1, RunGoesOn
  <2>2. CASE file \notin Controls  BY <1>2, <1>3, <2>2, StaleReturn
  <2> QED  BY <2>1, <2>2
<1>5. ControlIsRead'  BY DEF ControlIsRead, Return
<1>6. pc' \in [Runs -> {"idle", "readFile", "askEnabled", "disable",
                        "askDisabled", "enable"}]
  BY DEF Return
<1>7. message' \in [Runs -> Controls \cup {NoFile}]  OBVIOUS
<1> QED  BY <1>1, <1>4, <1>5, <1>6, <1>7, RunKeepsInv

\* Nor is a run that asks whether to disable.
LEMMA AskEnabledKeepsInv ==
  ASSUME Inv, NEW r \in Runs, AskEnabled(r) PROVE Inv'
<1> USE DEF Inv, MaintenanceInv, MaintenanceTypeOK, AskEnabled
<1>1. SenderInv'  BY DEF senderVars, SenderInv, Lifted, TypeOK
<1>2. ~fresh[r] /\ Stale(r)  BY DEF FreshRunSawNoFile, Stale
<1>3. disabled' = disabled  BY DEF senderVars
<1>4. Claims' /\ ClaimsTypeOK'
  <2>1. CASE Enabled  BY <1>2, <1>3, <2>1, RunGoesOn
  <2>2. CASE ~Enabled  BY <1>2, <1>3, <2>2, StaleReturn
  <2> QED  BY <2>1, <2>2
<1>5. ControlIsRead'  BY DEF ControlIsRead, Return
<1>6. pc' \in [Runs -> {"idle", "readFile", "askEnabled", "disable",
                        "askDisabled", "enable"}]
  BY DEF Return
<1> QED  BY <1>1, <1>4, <1>5, <1>6, RunKeepsInv

\* A run that disables started before the removal: it withdraws the claim.
LEMMA DisableCallKeepsInv ==
  ASSUME Inv, NEW r \in Runs, DisableCall(r),
         parseNotificationDisable(message[r]) \in Int
  PROVE  Inv'
<1> USE DEF Inv, MaintenanceInv, MaintenanceTypeOK, DisableCall
<1>1. SenderInv'  BY DisableKeepsInv
<1>2. Stale(r)  BY DEF FreshRunSawNoFile, Stale
<1>3. Claims' /\ ClaimsTypeOK'  BY <1>2, StaleReturn
<1>4. ControlIsRead'  BY DEF ControlIsRead, Return
<1>5. pc' \in [Runs -> {"idle", "readFile", "askEnabled", "disable",
                        "askDisabled", "enable"}]
  BY DEF Return
<1> QED  BY <1>1, <1>3, <1>4, <1>5, RunKeepsInv

\* A run that found no file ends here only while notifications are enabled.
LEMMA AskDisabledKeepsInv ==
  ASSUME Inv, NEW r \in Runs, AskDisabled(r) PROVE Inv'
<1> USE DEF Inv, MaintenanceInv, MaintenanceTypeOK, AskDisabled
<1>1. SenderInv'  BY DEF senderVars, SenderInv, Lifted, TypeOK
<1>2. disabled' = disabled  BY DEF senderVars
<1>3. Claims' /\ ClaimsTypeOK'
  <2>1. CASE ~Enabled  BY <1>2, <2>1, RunGoesOn
  <2>2. CASE Enabled /\ fresh[r]  BY <1>2, <2>2, FreshReturn DEF Enabled
  <2>3. CASE Enabled /\ ~fresh[r]  BY <1>2, <2>3, StaleReturn DEF Stale
  <2> QED  BY <2>1, <2>2, <2>3
<1>4. ControlIsRead'  BY DEF ControlIsRead, Return
<1>5. pc' \in [Runs -> {"idle", "readFile", "askEnabled", "disable",
                        "askDisabled", "enable"}]
  BY DEF Return
<1> QED  BY <1>1, <1>3, <1>4, <1>5, RunKeepsInv

\* A run that enables may claim that notifications are enabled.
LEMMA EnableCallKeepsInv ==
  ASSUME Inv, NEW r \in Runs, EnableCall(r) PROVE Inv'
<1> USE DEF Inv, MaintenanceInv, MaintenanceTypeOK, EnableCall
<1>1. SenderInv'  BY EnableKeepsInv
<1>2. ~disabled'  BY DEF Enable
<1>3. Claims' /\ ClaimsTypeOK'
  <2>1. CASE fresh[r]  BY <1>2, <2>1, FreshReturn
  <2>2. CASE ~fresh[r]  BY <1>2, <2>2, StaleReturn DEF Stale
  <2> QED  BY <2>1, <2>2
<1>4. ControlIsRead'  BY DEF ControlIsRead, Return
<1>5. pc' \in [Runs -> {"idle", "readFile", "askEnabled", "disable",
                        "askDisabled", "enable"}]
  BY DEF Return
<1> QED  BY <1>1, <1>3, <1>4, <1>5, RunKeepsInv

-----------------------------------------------------------------------------
(* The steps of the others. *)

\* A written file or a silence of the application ends what was claimed.
LEMMA NothingOverKeeps ==
  ASSUME Inv, NothingOver,
         \A r \in Runs : fresh'[r] =>
           fresh[r] /\ file' = file /\ pc'[r] = pc[r]
  PROVE  Claims'
BY DEF Inv, MaintenanceInv, Claims, NothingOver, EnabledWhenOver, NoStaleRunWhenSettled,
       FreshRunSawNoFile

\* The operator changes no flag, and no run is fresh any longer.
LEMMA ChangeFileKeepsInv ==
  ASSUME Inv, NEW c \in Files, ChangeFile(c) PROVE Inv'
<1> USE DEF Inv, MaintenanceInv, MaintenanceTypeOK, ChangeFile
<1>1. SenderInv'  BY DEF senderVars, SenderInv, Lifted, TypeOK
<1>2. Claims'  BY NothingOverKeeps
<1>3. ClaimsTypeOK'  BY DEF ClaimsTypeOK, NothingOver
<1>4. ControlIsRead'  BY DEF ControlIsRead
<1> QED  BY <1>1, <1>2, <1>3, <1>4, RunKeepsInv

\* The application may disable for any duration.
LEMMA ApplicationDisablesKeepsInv ==
  ASSUME Inv, NEW d \in Int, ApplicationDisables(d) PROVE Inv'
<1> USE DEF Inv, MaintenanceInv, MaintenanceTypeOK, ApplicationDisables
<1>1. SenderInv'  BY DisableKeepsInv
<1>2. Claims'  BY NothingOverKeeps
<1>3. ClaimsTypeOK'  BY DEF ClaimsTypeOK, NothingOver
<1>4. ControlIsRead'  BY DEF ControlIsRead
<1> QED  BY <1>1, <1>2, <1>3, <1>4, RunKeepsInv

\* Any other step of the environment leaves the runs alone and may only enable.
LEMMA OthersKeepInv ==
  ASSUME Inv, SenderInv', UNCHANGED <<file, pc, message, claims>>,
         ~disabled => ~disabled'
  PROVE  Inv'
<1> USE DEF Inv, MaintenanceInv, MaintenanceTypeOK
<1>1. EnabledWhenOver'  BY DEF EnabledWhenOver, Enabled
<1>2. NoStaleRunWhenSettled'  BY DEF NoStaleRunWhenSettled, Stale
<1>3. FreshRunSawNoFile'  BY DEF FreshRunSawNoFile
<1>4. ControlIsRead'  BY DEF ControlIsRead
<1>5. ClaimsTypeOK'  BY DEF ClaimsTypeOK
<1> QED  BY <1>1, <1>2, <1>3, <1>4, <1>5, RunKeepsInv DEF Claims

\* Every step preserves the invariant.
LEMMA MaintenanceStep == ASSUME Inv, [MaintenanceNext]_vars PROVE Inv'
<1>1. ASSUME NEW r \in Runs, Stat(r) \/ RunStep(r) PROVE Inv'
  <2>1. ASSUME DisableCall(r) PROVE Inv'
    <3>1. message[r] \in Controls
      BY <2>1 DEF Inv, MaintenanceInv, ControlIsRead, DisableCall
    <3> QED  BY <2>1, <3>1, ParsedIsInt, DisableCallKeepsInv
  <2> QED  BY <1>1, <2>1, StatKeepsInv, ReadFileKeepsInv, AskEnabledKeepsInv,
              AskDisabledKeepsInv, EnableCallKeepsInv DEF RunStep
<1>2. ASSUME NEW c \in Files, ChangeFile(c) PROVE Inv'
  BY <1>2, ChangeFileKeepsInv
<1>3. ASSUME NEW d \in Durations, ApplicationDisables(d) PROVE Inv'
  BY <1>3, DurationsAssumption, ApplicationDisablesKeepsInv
<1>4. CASE ApplicationEnables
  <2>1. SenderInv'  BY <1>4, EnableKeepsInv DEF ApplicationEnables, Inv
  <2>2. ~disabled'  BY <1>4 DEF ApplicationEnables, Enable
  <2> QED  BY <1>4, <2>1, <2>2, OthersKeepInv DEF ApplicationEnables, runVars
<1>5. ASSUME NEW m \in Messages, OthersSend(m) PROVE Inv'
  <2>1. SenderInv'  BY <1>5, SendKeepsInv DEF OthersSend, Inv
  <2>2. ~disabled => ~disabled'
    BY <1>5 DEF OthersSend, Send, SendSuppressed, SendAttempted, senderVars
  <2> QED  BY <1>5, <2>1, <2>2, OthersKeepInv DEF OthersSend, runVars
<1>6. CASE UNCHANGED runVars /\ (Receive \/ Tick \/ UNCHANGED senderVars)
  <2>1. SenderInv'
    BY <1>6, ReceiveKeepsInv, TickKeepsInv
       DEF Inv, senderVars, SenderInv, Lifted, TypeOK
  <2>2. disabled' = disabled  BY <1>6 DEF Receive, Tick, flagVars, senderVars
  <2> QED  BY <1>6, <2>1, <2>2, OthersKeepInv DEF runVars
<1> QED  BY <1>1, <1>2, <1>3, <1>4, <1>5, <1>6
         DEF MaintenanceNext, Environment, vars

\* Once a run that started after the removal of the file has ended,
\* notifications are enabled until a file is written or the application
\* disables them, except that a run that started before the removal may disable
\* them until the next end of a newer one.  Once such an end leaves no older
\* run under way, not even that.
THEOREM MaintenanceSafe == MaintenanceSpec => []MaintenanceInv
<1>1. MaintenanceInit => Inv  BY MaintenanceStart
<1>2. Inv /\ [MaintenanceNext]_vars => Inv'  BY MaintenanceStep
<1>3. Inv => MaintenanceInv  BY DEF Inv
<1> QED  BY <1>1, <1>2, <1>3, PTL DEF MaintenanceSpec

-----------------------------------------------------------------------------
(* How long a file silences. *)

\* A division leaves a remainder below its divisor.
LEMMA SmallRemainder ==
  ASSUME NEW m \in Nat \ {0}, NEW x \in 0..(m - 1) PROVE x % m = x
OBVIOUS

\* A product of positive numbers is positive.
LEMMA PositiveProduct ==
  ASSUME NEW a \in Nat \ {0}, NEW b \in Nat \ {0} PROVE a * b # 0
<1>1. (a - 1) * b \in Nat /\ a - 1 \in Nat  OBVIOUS
<1>2. a * b = (a - 1) * b + b  OBVIOUS
<1> QED  BY <1>1, <1>2

\* What a 64-bit integer can hold is not wrapped.
LEMMA FittingIsKept ==
  ASSUME NEW x \in Nat, x <= MaxInt PROVE Wrapped(x) = x
<1>1. MaxInt \in Nat  BY WidthAssumption
<1> DEFINE m == 2 * MaxInt + 2
           y == x + MaxInt + 1
<1>2. m \in Nat \ {0} /\ y \in 0..(m - 1)  BY <1>1
<1>3. y % m = y
  <2> HIDE DEF m, y
  <2> QED  BY <1>2, SmallRemainder
<1> QED  BY <1>1, <1>3 DEF Wrapped

\* A number of seconds that fits is the duration that Disable gets.
LEMMA ParsedAsWritten ==
  ASSUME NEW seconds \in Seconds, seconds <= MaxInt, seconds * TicksPerSecond <= MaxInt
  PROVE  parseNotificationDisable(seconds) = seconds * TicksPerSecond
<1>1. seconds \in Nat /\ seconds # Indefinite  BY FilesAssumption
<1>2. TicksPerSecond \in Nat /\ MaxInt \in Nat  BY WidthAssumption
<1>3. seconds * TicksPerSecond \in Nat  BY <1>1, <1>2
<1>4. Wrapped(seconds * TicksPerSecond) = seconds * TicksPerSecond
  BY <1>3, FittingIsKept
<1> QED  BY <1>1, <1>2, <1>4 DEF parseNotificationDisable

\* Without a number, and with 0, it is the duration that never elapses.
LEMMA ParsedForGood ==
  ASSUME NEW c \in {Indefinite, 0} PROVE parseNotificationDisable(c) = 0
<1>1. CASE c = Indefinite  BY <1>1 DEF parseNotificationDisable
<1>2. CASE c # Indefinite
  <2>1. c = 0 /\ c * TicksPerSecond = 0 /\ MaxInt \in Nat
    BY <1>2, WidthAssumption
  <2>2. Wrapped(0) = 0  BY <2>1, FittingIsKept
  <2> QED  BY <1>2, <2>1, <2>2 DEF parseNotificationDisable
<1> QED  BY <1>1, <1>2

\* Whenever a run disables notifications, the sender is silent for as long as
\* the file it read says.
THEOREM FilesSilenceAsWritten == MaintenanceSpec => SilenceLastsAsWritten
<1>1. ASSUME Inv, NEW r \in Runs, DisableCall(r)
      PROVE  /\ message[r] \in {Indefinite, 0} => Remaining' = -1
             /\ \A seconds \in Seconds \ {0} :
                  message[r] = seconds /\ seconds <= MaxInt
                    /\ seconds * TicksPerSecond <= MaxInt
                    => Remaining' = seconds * TicksPerSecond
  <2>0. SenderInv /\ Disable(parseNotificationDisable(message[r]))
    BY <1>1 DEF Inv, DisableCall
  <2>1. ASSUME message[r] \in {Indefinite, 0} PROVE Remaining' = -1
    <3>1. parseNotificationDisable(message[r]) = 0  BY <2>1, ParsedForGood
    <3> QED  BY <2>0, <3>1, DisableCountsDown
  <2>2. ASSUME NEW seconds \in Seconds \ {0}, message[r] = seconds,
               seconds <= MaxInt, seconds * TicksPerSecond <= MaxInt
        PROVE  Remaining' = seconds * TicksPerSecond
    <3>1. parseNotificationDisable(message[r]) = seconds * TicksPerSecond
      BY <2>2, ParsedAsWritten
    <3>2. seconds \in Nat \ {0} /\ TicksPerSecond \in Nat \ {0}
      BY FilesAssumption, WidthAssumption
    <3>3. seconds * TicksPerSecond \in Nat  BY <3>2
    <3>4. seconds * TicksPerSecond # 0  BY <3>2, PositiveProduct
    <3> QED  BY <2>0, <3>1, <3>3, <3>4, DisableCountsDown
  <2> QED  BY <2>1, <2>2
<1>2. MaintenanceInit => Inv  BY MaintenanceStart
<1>3. Inv /\ [MaintenanceNext]_vars => Inv'  BY MaintenanceStep
<1>4. Inv /\ [MaintenanceNext]_vars
        => [\A r \in Runs : DisableCall(r) =>
              /\ message[r] \in {Indefinite, 0} => Remaining' = -1
              /\ \A seconds \in Seconds \ {0} :
                   message[r] = seconds /\ seconds <= MaxInt
                     /\ seconds * TicksPerSecond <= MaxInt
                     => Remaining' = seconds * TicksPerSecond]_vars
  BY <1>1
<1> QED  BY <1>2, <1>3, <1>4, PTL DEF MaintenanceSpec, SilenceLastsAsWritten

-----------------------------------------------------------------------------
(* The sender under the check. *)

\* The countdown for silences of any length, such as a file may ask for.
AnySilence == INSTANCE TimedSilence WITH
                remaining <- Remaining, queue <- channel, Lengths <- Nat \ {0}

\* A silence somebody asks for, whoever it is, is a step of the countdown.
LEMMA DisableSilencesAny ==
  ASSUME SenderInv, NEW d \in Int, Disable(d) PROVE AnySilence!Next
<1>1. PICK e \in ({d} \cap Nat) \cup {0, Silence!Forever} : Silence!Silence(e)
  BY DisableSilences
<1>2. e \in (Nat \ {0}) \cup {0, AnySilence!Forever}
  BY <1>1 DEF Silence!Forever, AnySilence!Forever
<1>3. AnySilence!Silence(e)  BY <1>1 DEF Silence!Silence, AnySilence!Silence
<1> QED  BY <1>2, <1>3 DEF AnySilence!Next

\* So is a call of Enable: it is a silence of no length.
LEMMA EnableLiftsAny ==
  ASSUME Enable PROVE AnySilence!Next
<1>1. Remaining' = 0 /\ UNCHANGED channel  BY DEF Enable, Remaining
<1> QED  BY <1>1 DEF AnySilence!Silence, AnySilence!Next

\* Every step of a run, of the operator, of the application and of the other
\* checks is a step of the countdown or a stutter.
LEMMA MaintenanceRefines ==
  ASSUME Inv, [MaintenanceNext]_vars
  PROVE  [AnySilence!Next]_AnySilence!silenceVars
<1> USE DEF AnySilence!silenceVars
<1>0. SenderInv  BY DEF Inv
<1>1. CASE UNCHANGED senderVars
  <2>1. UNCHANGED Remaining  BY <1>1, RemainingKept
  <2> QED  BY <1>1, <2>1
<1>2. ASSUME NEW r \in Runs, DisableCall(r) PROVE AnySilence!Next
  <2>1. message[r] \in Controls  BY <1>2 DEF DisableCall, Inv, MaintenanceInv, ControlIsRead
  <2>2. parseNotificationDisable(message[r]) \in Int  BY <2>1, ParsedIsInt
  <2> QED  BY <1>0, <1>2, <2>2, DisableSilencesAny DEF DisableCall
<1>3. ASSUME NEW r \in Runs, EnableCall(r) PROVE AnySilence!Next
  BY <1>3, EnableLiftsAny DEF EnableCall
<1>4. ASSUME NEW r \in Runs, Stat(r) \/ RunStep(r), ~DisableCall(r), ~EnableCall(r)
      PROVE  UNCHANGED senderVars
  BY <1>4 DEF Stat, RunStep, ReadFile, AskEnabled, AskDisabled
<1>5. ASSUME NEW d \in Durations, ApplicationDisables(d) PROVE AnySilence!Next
  BY <1>0, <1>5, DisableSilencesAny DEF ApplicationDisables
<1>6. CASE ApplicationEnables
  BY <1>6, EnableLiftsAny DEF ApplicationEnables
<1>7. ASSUME NEW m \in Messages, OthersSend(m) PROVE AnySilence!Next
  <2>1. Silence!Offer(m)  BY <1>0, <1>7, SendOffers DEF OthersSend
  <2> QED  BY <2>1 DEF Silence!Offer, AnySilence!Offer, AnySilence!Next
<1>8. CASE Receive
  <2>1. UNCHANGED Remaining  BY <1>8, RemainingKept DEF Receive
  <2> QED  BY <1>8, <2>1 DEF Receive, AnySilence!Take, AnySilence!Next
<1>9. CASE Tick
  <2>1. Silence!Elapse \/ UNCHANGED <<Remaining, channel>>
    BY <1>0, <1>9, TickElapses
  <2> QED  BY <2>1 DEF Silence!Elapse, AnySilence!Elapse, AnySilence!Next
<1>10. ASSUME NEW c \in Files, ChangeFile(c) PROVE UNCHANGED senderVars
  BY <1>10 DEF ChangeFile
<1> QED
  BY <1>1, <1>2, <1>3, <1>4, <1>5, <1>6, <1>7, <1>8, <1>9, <1>10
     DEF MaintenanceNext, Environment, vars

\* However many runs and callers switch it, and whatever durations they parse,
\* wrapped ones included, the sender stays a countdown: the last caller
\* decides how long it is silent, and nothing else is ever dropped but what
\* does not fit the channel.
THEOREM CheckImplementsSilence == MaintenanceSpec => AnySilence!Spec
<1>1. MaintenanceInit => AnySilence!Init
  BY DEF MaintenanceInit, Init, AnySilence!Init, Remaining
<1>2. MaintenanceInit => Inv  BY MaintenanceStart
<1>3. Inv /\ [MaintenanceNext]_vars => Inv'  BY MaintenanceStep
<1>4. Inv /\ [MaintenanceNext]_vars => [AnySilence!Next]_AnySilence!silenceVars
  BY MaintenanceRefines
<1> QED  BY <1>1, <1>2, <1>3, <1>4, PTL DEF MaintenanceSpec, AnySilence!Spec
=============================================================================
