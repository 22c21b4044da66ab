---------------------------- MODULE Notifications ----------------------------
(***************************************************************************)
(* The notification sender of notifications.go.  Its flag, the time and    *)
(* the duration of the last Disable are guarded by one mutex, so a method  *)
(* is one atomic action; the channel of New is drained by the subscriber.  *)
(*                                                                         *)
(* The clock advances in ticks.  Nothing happens in the sender when a      *)
(* silence runs out: only the next Send notices.                           *)
(***************************************************************************)
EXTENDS Integers, Sequences

CONSTANTS Messages,   \* CheckNotification values
          Capacity,   \* buffer size of the channel
          Durations,  \* what callers pass to Disable
          MaxTime     \* bound: where the clock stops

ASSUME CapacityAssumption == Capacity \in Nat \ {0}
ASSUME DurationsAssumption == Durations \subseteq Int
ASSUME MaxTimeAssumption == MaxTime \in Nat

VARIABLES disabled, disabledDuration, disabledTime, channel,
          now         \* the clock of time.Now

flagVars == <<disabled, disabledDuration, disabledTime>>
senderVars == <<disabled, disabledDuration, disabledTime, channel, now>>

TypeOK ==
  /\ disabled \in BOOLEAN
  /\ disabledDuration \in Int
  /\ disabledTime \in Nat /\ now \in Nat /\ disabledTime <= now
  /\ channel \in Seq(Messages) /\ Len(channel) <= Capacity

Init ==
  /\ disabled = FALSE
  /\ disabledDuration = 0
  /\ disabledTime = 0
  /\ channel = <<>>
  /\ now = 0

-----------------------------------------------------------------------------
\* A duration of 0 never elapses; a negative one has elapsed at once.
Elapsed == disabledDuration # 0 /\ now - disabledTime >= disabledDuration

\* Send would return without trying the channel.
Suppressed == disabled /\ ~Elapsed

\* Fault: counts on the reader to keep up.
PutUnbounded(m) ==
  channel' = Append(channel, m)

\* The select with a default case: what does not fit is dropped.
Put(m) ==
  channel' = IF Len(channel) < Capacity THEN Append(channel, m) ELSE channel

SendSuppressed(m) ==
  /\ Suppressed
  /\ UNCHANGED senderVars

\* A Send after the end of the silence lifts it before it tries the channel.
SendAttempted(m) ==
  /\ ~Suppressed
  /\ disabled' = FALSE
  /\ disabledDuration' = IF disabled THEN 0 ELSE disabledDuration
  /\ Put(m)
  /\ UNCHANGED <<disabledTime, now>>

Send(m) == SendSuppressed(m) \/ SendAttempted(m)

\* Fault: a silence in force keeps the time at which it began.
DisableKeepsTime(d) ==
  /\ disabled' = TRUE
  /\ disabledDuration' = d
  /\ disabledTime' = IF disabled THEN disabledTime ELSE now
  /\ UNCHANGED <<channel, now>>

Disable(d) ==
  /\ disabled' = TRUE
  /\ disabledDuration' = d
  /\ disabledTime' = now
  /\ UNCHANGED <<channel, now>>

\* Fault: leaves a silence for good where there was a timed one.
EnableClearsDuration ==
  /\ disabledDuration' = 0
  /\ UNCHANGED <<disabled, disabledTime, channel, now>>

Enable ==
  /\ disabled' = FALSE
  /\ disabledDuration' = 0
  /\ UNCHANGED <<disabledTime, channel, now>>

Enabled == ~disabled

\* The subscriber takes the oldest notification.
Receive ==
  /\ channel # <<>>
  /\ channel' = Tail(channel)
  /\ UNCHANGED <<flagVars, now>>

Tick ==
  /\ now < MaxTime
  /\ now' = now + 1
  /\ UNCHANGED <<flagVars, channel>>

Next ==
  \/ \E m \in Messages : Send(m)
  \/ \E d \in Durations : Disable(d)
  \/ Enable
  \/ Receive
  \/ Tick

Spec == Init /\ [][Next]_senderVars

-----------------------------------------------------------------------------
(* Properties *)

\* The silence left, as a caller who knows the clock would compute it.
Remaining ==
  CASE ~Suppressed                            -> 0
    [] Suppressed /\ disabledDuration = 0     -> -1
    [] Suppressed /\ disabledDuration # 0     -> disabledTime + disabledDuration - now

\* The flag that only Send resets, together with a time stamp, behaves as a
\* countdown: a silence ends on its own at the time asked for, a later Disable
\* replaces it, and Send drops a notification only during a silence or when
\* the channel is full, without ever waiting.
Silence == INSTANCE TimedSilence WITH
             remaining <- Remaining, queue <- channel,
             Lengths <- {d \in Durations : d > 0}
SilenceSpec == Silence!Spec
=============================================================================
