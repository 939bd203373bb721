---------------------------- MODULE Subscriptions ----------------------------
(***************************************************************************)
(* What a user of gpui's subscriptions may rely on, without the map, the   *)
(* cells and the passes of SubscriberSet: a subscription is created inert  *)
(* or live, becomes live when activated, and is over once it is cancelled, *)
(* its callback declines to be called again, or its emitter goes.  A       *)
(* callback is invoked only while its subscription is live and is never    *)
(* reentered.                                                              *)
(***************************************************************************)
EXTENDS Sequences, Naturals

CONSTANT Subs

VARIABLES phase,    \* where each subscription is in its life
          running   \* callbacks in progress, innermost last

svars == <<phase, running>>

Phases == {"unborn", "inert", "live", "over"}

Init == phase = [i \in Subs |-> "unborn"] /\ running = <<>>

Move(S, from, to) ==
  /\ S # {}
  /\ \A i \in S : phase[i] \in from
  /\ phase' = [i \in Subs |-> IF i \in S THEN to ELSE phase[i]]

Create(i)   == /\ \E to \in {"inert", "live"} : Move({i}, {"unborn"}, to)
               /\ UNCHANGED running
Activate(i) == Move({i}, {"inert"}, "live") /\ UNCHANGED running

\* Cancelled by their owner, or gone with their emitter.
Finish(S) == Move(S, {"inert", "live", "over"}, "over") /\ UNCHANGED running

Invoke(i) == /\ phase[i] = "live"
             /\ \A j \in DOMAIN running : running[j] # i
             /\ running' = Append(running, i)
             /\ UNCHANGED phase

\* A callback that returns may end its own subscription.
Return(keep) ==
  /\ running # <<>>
  /\ running' = SubSeq(running, 1, Len(running) - 1)
  /\ IF keep THEN UNCHANGED phase
     ELSE Move({running[Len(running)]}, {"live", "over"}, "over")

Next == \/ \E i \in Subs : Create(i) \/ Activate(i) \/ Invoke(i)
        \/ \E S \in SUBSET Subs : Finish(S)
        \/ \E keep \in BOOLEAN : Return(keep)

Spec == Init /\ [][Next]_svars
=============================================================================
