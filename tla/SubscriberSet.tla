---------------------------- MODULE SubscriberSet ----------------------------
(***************************************************************************)
(* gpui's SubscriberSet (crates/gpui/src/subscription.rs): the container   *)
(* behind every observe, subscribe, on_release, on_quit and observe_global *)
(* of an App.  All of it runs on the main thread, so the only concurrency  *)
(* is reentrancy: a callback that a pass over the set invokes may itself   *)
(* insert, activate, cancel, detach or join subscriptions and start passes *)
(* of its own, over the same emitter or another one.                       *)
(*                                                                         *)
(* A pass is a frame of `stack`.  `retain` moves the emitter's subscribers *)
(* out of the map for its duration, calls them in ascending order and puts *)
(* the kept ones back next to those inserted meanwhile; `remove` hands the *)
(* subscribers out for good through a lazy iterator.                       *)
(***************************************************************************)
EXTENDS Integers, Sequences, FiniteSets

CONSTANTS Keys,      \* emitter keys (entity ids, type ids or ())
          MaxId,     \* bound: subscriptions ever created
          MaxDepth,  \* bound: nesting of passes
          Released   \* keys of sets whose owner makes remove passes
                     \* (release_listeners, quit_observers), the others
                     \* being of sets it makes retain passes over, or
                     \* discards (observers, listeners)

ASSUME BoundsAssumption == MaxId \in Nat /\ MaxDepth \in Nat
ASSUME ReleasedAssumption == Released \subseteq Keys

Ids  == 0 .. MaxId - 1
NoId == -1              \* no callback of this pass is running

VARIABLES
  next,     \* next_subscriber_id
  keyOf,    \* the emitter_key each subscription was inserted under
  stored,   \* subscribers: a key that is absent and one whose map has been
            \* taken (None) behave alike, both are {}
  active,   \* ids whose `active` cell is set
  dropped,  \* ids whose `dropped` cell is set
  handles,  \* Subscription values still owned by someone: the set of ids
            \* each of them unsubscribes (more than one after join)
  stack,    \* passes in progress, innermost last
  ended     \* auxiliary: ids whose callback was consumed, discarded or
            \* answered false

vars == <<next, keyOf, stored, active, dropped, handles, stack, ended>>

Frame == [op     : {"retain", "remove"},
          key    : Keys,
          rest   : SUBSET Ids,          \* not visited yet
          kept   : SUBSET Ids,          \* visited, going back into the map
          cur    : Ids \cup {NoId},     \* whose callback is running
          due    : SUBSET Ids,          \* auxiliary: live when the pass began
          called : SUBSET Ids]          \* auxiliary: called by this pass

TypeOK == /\ next \in 0 .. MaxId
          /\ keyOf \in [0 .. next - 1 -> Keys]
          /\ stored \in [Keys -> SUBSET Ids]
          /\ active \subseteq Ids
          /\ dropped \subseteq Ids
          /\ handles \subseteq SUBSET Ids
          /\ stack \in Seq(Frame)
          /\ Len(stack) <= MaxDepth
          /\ ended \subseteq Ids

Depth == Len(stack)
Top   == stack[Depth]

\* Subscribers are visited in the order of their ids.
IsNext(i) == i \in Top.rest /\ \A j \in Top.rest : i <= j

\* The subscribers a frame owns.
Holds(f) == f.rest \cup f.kept \cup ({f.cur} \ {NoId})

\* Callers get control outside every pass and inside a running callback.
UserRuns == stack # <<>> => Top.cur # NoId

\* The pass on top is looking for its next subscriber.
Scanning(op) == stack # <<>> /\ Top.op = op /\ Top.cur = NoId

------------------------------------------------------------------------------
Init == /\ next = 0
        /\ keyOf = [i \in 0 .. -1 |-> 0]
        /\ stored = [k \in Keys |-> {}]
        /\ active = {}
        /\ dropped = {}
        /\ handles = {}
        /\ stack = <<>>
        /\ ended = {}

(***************************************************************************)
(* What callers do.                                                        *)
(***************************************************************************)
AddSubscriber(k) ==
  /\ UserRuns
  /\ next < MaxId
  /\ keyOf' = [i \in 0 .. next |-> IF i = next THEN k ELSE keyOf[i]]
  /\ stored' = [stored EXCEPT ![k] = @ \cup {next}]
  /\ handles' = handles \cup {{next}}
  /\ UNCHANGED <<dropped, stack, ended>>

NewSubscriber(k) == AddSubscriber(k) /\ next' = next + 1

Insert(k) == NewSubscriber(k) /\ UNCHANGED active

\* An owner that activates at once.
InsertActive(k) == NewSubscriber(k) /\ active' = active \cup {next}

\* The closure insert returned: run at once, or by a deferred effect after
\* the subscription has been cancelled or its emitter removed.
Activate(i) ==
  /\ UserRuns
  /\ i < next
  /\ i \notin active
  /\ active' = active \cup {i}
  /\ UNCHANGED <<next, keyOf, stored, dropped, handles, stack, ended>>

Cancel(h) ==
  /\ UserRuns
  /\ h \in handles
  /\ dropped' = dropped \cup h
  /\ handles' = handles \ {h}
  /\ UNCHANGED <<next, keyOf, active, stack, ended>>

\* Dropping a Subscription.  Ids that a pass has taken out of the map are
\* only marked.
Unsubscribe(h) ==
  Cancel(h) /\ stored' = [k \in Keys |-> stored[k] \ {i \in h : keyOf[i] = k}]

Detach(h) ==
  /\ UserRuns
  /\ h \in handles
  /\ handles' = handles \ {h}
  /\ UNCHANGED <<next, keyOf, stored, active, dropped, stack, ended>>

Join(a, b) ==
  /\ UserRuns
  /\ a \in handles /\ b \in handles /\ a # b
  /\ handles' = (handles \ {a, b}) \cup {a \cup b}
  /\ UNCHANGED <<next, keyOf, stored, active, dropped, stack, ended>>

(***************************************************************************)
(* Passes.                                                                 *)
(***************************************************************************)
Born    == 0 .. next - 1
Live(i) == i \in active /\ i \notin dropped \cup ended

NewFrame(op, k) ==
  [op |-> op, key |-> k, rest |-> stored[k], kept |-> {}, cur |-> NoId,
   due |-> {i \in Born : keyOf[i] = k /\ Live(i)}, called |-> {}]

StartPass(op, k) ==
  /\ UserRuns
  /\ Depth < MaxDepth
  /\ stored[k] # {}
  /\ stack' = Append(stack, NewFrame(op, k))
  /\ UNCHANGED <<next, keyOf, active, dropped, handles, ended>>

\* Mutant of Begin: the subscribers are read and not taken.
BeginWithoutTaking(op, k) == StartPass(op, k) /\ UNCHANGED stored

\* retain and remove both start by emptying the key; on an empty key they
\* return at once.
Begin(op, k) == StartPass(op, k) /\ stored' = [stored EXCEPT ![k] = {}]

RetainBegin(k) == k \notin Released /\ Begin("retain", k)
RemoveBegin(k) == k \in Released /\ Begin("remove", k)

ReplaceTop(f) == stack' = [stack EXCEPT ![Depth] = f]

Call(i) ==
  ReplaceTop([Top EXCEPT !.rest = @ \ {i}, !.cur = i, !.called = @ \cup {i}])

\* The pass on top decides about its next subscriber.
Visit(op, i) ==
  /\ Scanning(op)
  /\ IsNext(i)
  /\ UNCHANGED <<next, keyOf, stored, active, dropped, handles>>

\* An inactive subscriber stays, even a cancelled one.
RetainSkip == \E i \in Ids :
  /\ Visit("retain", i) /\ i \notin active
  /\ ReplaceTop([Top EXCEPT !.rest = @ \ {i}, !.kept = @ \cup {i}])
  /\ UNCHANGED ended

\* Mutant of RetainDiscard: a cancelled subscriber stops the pass.
RetainStopAtCancelled == \E i \in Ids :
  /\ Visit("retain", i) /\ i \in active /\ i \in dropped
  /\ ReplaceTop([Top EXCEPT !.rest = {}, !.kept = @ \cup (Top.rest \ {i})])
  /\ UNCHANGED ended

RetainDiscard == \E i \in Ids :
  /\ Visit("retain", i) /\ i \in active /\ i \in dropped
  /\ ReplaceTop([Top EXCEPT !.rest = @ \ {i}])
  /\ UNCHANGED ended

\* Mutant of RetainCall: the `dropped` cell is not read before the call.
RetainCallUnchecked == \E i \in Ids :
  Visit("retain", i) /\ i \in active /\ Call(i) /\ UNCHANGED ended

RetainCall == \E i \in Ids :
  Visit("retain", i) /\ i \in active /\ i \notin dropped /\ Call(i) /\ UNCHANGED ended

\* A callback that answers false at once: the weak handle to its emitter or
\* to its observer could not be upgraded, so no user code runs.
RetainDecline == \E i \in Ids :
  /\ Visit("retain", i) /\ i \in active /\ i \notin dropped
  /\ ReplaceTop([Top EXCEPT !.rest = @ \ {i}])
  /\ ended' = ended \cup {i}

\* The callback answers whether it wants to stay; a cancellation that came
\* while it ran wins.
RetainReturn(keep) ==
  /\ stack # <<>> /\ Top.op = "retain" /\ Top.cur # NoId
  /\ LET i == Top.cur
     IN  /\ ReplaceTop([Top EXCEPT
              !.cur = NoId,
              !.kept = IF keep /\ i \notin dropped THEN @ \cup {i} ELSE @])
         /\ ended' = IF keep THEN ended ELSE ended \cup {i}
  /\ UNCHANGED <<next, keyOf, stored, active, dropped, handles>>

LeavePass(op) ==
  /\ Scanning(op) /\ Top.rest = {}
  /\ stack' = SubSeq(stack, 1, Depth - 1)
  /\ UNCHANGED <<next, keyOf, active, dropped, handles, ended>>

\* Mutant of RetainEnd: the kept subscribers overwrite the new ones.
RetainEndOverwriting ==
  LeavePass("retain") /\ stored' = [stored EXCEPT ![Top.key] = Top.kept]

RetainEnd ==
  LeavePass("retain") /\ stored' = [stored EXCEPT ![Top.key] = Top.kept \cup @]

\* The iterator of remove filters on `active` alone.
RemoveSkip == \E i \in Ids :
  /\ Visit("remove", i) /\ i \notin active
  /\ ReplaceTop([Top EXCEPT !.rest = @ \ {i}])
  /\ ended' = ended \cup {i}

RemoveCall == \E i \in Ids :
  Visit("remove", i) /\ i \in active /\ Call(i) /\ UNCHANGED ended

RemoveReturn ==
  /\ stack # <<>> /\ Top.op = "remove" /\ Top.cur # NoId
  /\ ReplaceTop([Top EXCEPT !.cur = NoId])
  /\ ended' = ended \cup {Top.cur}
  /\ UNCHANGED <<next, keyOf, stored, active, dropped, handles>>

RemoveEnd == LeavePass("remove") /\ UNCHANGED stored

\* remove whose iterator is dropped unread, for the keys K: an entity was
\* released, its observers and listeners go.
Discard(K) ==
  /\ K \cap Released = {}
  /\ UserRuns
  /\ ended' = ended \cup UNION {stored[k] : k \in K}
  /\ stored' = [k \in Keys |-> IF k \in K THEN {} ELSE stored[k]]
  /\ UNCHANGED <<next, keyOf, active, dropped, handles, stack>>

Next == \/ \E k \in Keys : \/ Insert(k) \/ InsertActive(k)
                           \/ RetainBegin(k) \/ RemoveBegin(k) \/ Discard({k})
        \/ \E i \in Ids : Activate(i)
        \/ \E h \in handles : Unsubscribe(h) \/ Detach(h)
        \/ \E a \in handles, b \in handles : Join(a, b)
        \/ RetainSkip \/ RetainDiscard \/ RetainDecline \/ RetainCall
        \/ \E keep \in BOOLEAN : RetainReturn(keep)
        \/ RetainEnd
        \/ RemoveSkip \/ RemoveCall \/ RemoveReturn \/ RemoveEnd

Spec == Init /\ [][Next]_vars
------------------------------------------------------------------------------
(***************************************************************************)
(* Properties.                                                             *)
(***************************************************************************)

\* A subscriber is owned once: by the map under its own key, or by one pass
\* over that key, and within a pass it is waiting, running or kept.  A
\* callback is an FnMut, so two owners would be two mutable borrows of it.
OneOwner ==
  /\ \A k \in Keys : \A i \in stored[k] : i < next /\ keyOf[i] = k
  /\ \A j \in 1 .. Depth :
       LET f == stack[j]
       IN  /\ \A i \in Holds(f) : i < next /\ keyOf[i] = f.key
           /\ Holds(f) \cap stored[f.key] = {}
           /\ f.rest \cap f.kept = {}
           /\ f.cur \notin f.rest \cup f.kept
           /\ \A l \in 1 .. Depth : l # j => Holds(f) \cap Holds(stack[l]) = {}

\* However passes nest and whatever their callbacks do to the set, a
\* subscription nobody cancelled and that did not end itself is still owned
\* by the map or by a pass that will put it back.
NoSubscriberLost ==
  \A i \in Born \ (dropped \cup ended) :
    \/ i \in stored[keyOf[i]]
    \/ \E j \in 1 .. Depth : i \in Holds(stack[j])

Ends(f) == Len(stack') < Depth /\ f = Top
Missed(f) == {i \in f.due : Live(i) /\ i \notin f.called}

\* A pass that is not nested in another pass over the same emitter calls
\* every subscriber that was live when it began and is live when it ends.
OutermostPassReachesAll ==
  [][ \A j \in 1 .. Depth :
        (Ends(stack[j]) /\ \A l \in 1 .. j - 1 : stack[l].key # stack[j].key)
           => Missed(stack[j]) = {} ]_vars

\* The doc of Subscription: "When dropped, the subscription is cancelled and
\* the callback will no longer be invoked."  A retain pass looks at `dropped`
\* before every call; the iterator of remove looks at `active` alone, and a
\* release callback may have cancelled the next one.
Invokes(i) ==
  /\ stack # <<>> /\ Top.cur = NoId
  /\ Len(stack') = Depth /\ stack'[Depth].cur = i

DroppedIsNotInvoked == [][ \A i \in dropped : ~Invokes(i) ]_vars

(***************************************************************************)
(* What the set promises its users: Subscriptions.                         *)
(***************************************************************************)
\* Cancelled in time: once a remove pass has taken a subscription out of the
\* map, cancelling it comes too late.
Cancelled(i) ==
  i \in dropped /\ \A j \in 1 .. Depth : stack[j].op = "remove" => i \notin Holds(stack[j])

Phase(i) == CASE i >= next -> "unborn"
              [] i < next /\ (Cancelled(i) \/ i \in ended) -> "over"
              [] i < next /\ ~Cancelled(i) /\ i \notin ended \cup active -> "inert"
              [] OTHER -> "live"

Running == [j \in 1 .. (IF UserRuns THEN Depth ELSE Depth - 1) |-> stack[j].cur]

Promise == INSTANCE Subscriptions WITH
             Subs    <- Ids,
             phase   <- [i \in Ids |-> Phase(i)],
             running <- Running

\* Every behaviour of the set is one its users may rely on: a callback runs
\* only while its subscription is live, never inside itself, and an ended or
\* cancelled subscription stays so.
KeepsPromise == Promise!Spec
=============================================================================
