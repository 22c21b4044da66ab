---------------------------- MODULE TimedSilence ----------------------------
(***************************************************************************)
(* What a caller of the notification sender may rely on.  A silence is a   *)
(* countdown that ends by itself, or Forever; a message offered during it  *)
(* vanishes.  At any other time a message is queued if there is room and   *)
(* lost if there is none.  Offering never waits and never changes when the *)
(* silence ends.                                                           *)
(***************************************************************************)
EXTENDS Integers, Sequences

CONSTANTS Messages, Capacity,
          Lengths     \* the silences callers ask for, in ticks

VARIABLES remaining,  \* ticks of silence left, or Forever
          queue       \* messages not yet taken by the subscriber

silenceVars == <<remaining, queue>>

Forever == -1

Init ==
  /\ remaining = 0
  /\ queue = <<>>

\* A new silence replaces the one in force, whichever is longer; 0 lifts it.
Silence(d) ==
  /\ remaining' = d
  /\ UNCHANGED queue

Offer(m) ==
  /\ queue' = IF remaining = 0 /\ Len(queue) < Capacity
              THEN Append(queue, m) ELSE queue
  /\ UNCHANGED remaining

Take ==
  /\ queue # <<>>
  /\ queue' = Tail(queue)
  /\ UNCHANGED remaining

Elapse ==
  /\ remaining > 0
  /\ remaining' = remaining - 1
  /\ UNCHANGED queue

Next ==
  \/ \E d \in Lengths \cup {0, Forever} : Silence(d)
  \/ \E m \in Messages : Offer(m)
  \/ Take
  \/ Elapse

Spec == Init /\ [][Next]_silenceVars
=============================================================================
