------------------------------ MODULE AppEffects ------------------------------
(***************************************************************************)
(* The effect cycle of gpui's App (crates/gpui/src/app.rs): user code runs *)
(* inside nested updates and queues effects; the end of the outermost      *)
(* update flushes them, and the callbacks a flush runs are user code that  *)
(* queues more.  shutdown flushes too, but not as the end of an update, so *)
(* that an update in one of its callbacks flushes inside its flush; the    *)
(* program ends after it.  The App's observers, global_observers,          *)
(* event_listeners, release_listeners and new_entity_observers are one     *)
(* SubscriberSet here, keyed by topic.                                     *)
(*                                                                         *)
(* A global is an emitter that is never released.  Left out: windows (no   *)
(* entity is tracked by one, so notify always queues), the event type a    *)
(* listener filters on, and the handles that entity values own.            *)
(***************************************************************************)
EXTENDS Integers, Sequences, FiniteSets, Functions

CONSTANTS Entities,  \* bound: entities ever created
          Globals,   \* global types
          MaxId,     \* bound: subscriptions ever made
          MaxNest,   \* bound: updates one inside the other
          MaxFuel,   \* bound: operations of user code
          Kinds      \* which subscriptions user code makes

ASSUME BoundsAssumption == MaxFuel \in Nat /\ MaxNest \in Nat \ {0} /\ MaxId \in Nat
ASSUME EntitiesAssumption == Entities \cap Globals = {}
ASSUME KindsAssumption == Kinds \subseteq {"notify", "emit", "release", "created"}

Emitters == Entities \cup Globals
AnyType  == "entity"                    \* the one type of entities observed
Topics   == ({"notify"} \X Emitters) \cup ({"emit", "release"} \X Entities)
              \cup {<<"created", AnyType>>}

VARIABLES
  \* The subscriber sets.
  next, keyOf, stored, active, dropped, handles, stack, ended,
  \* The App.
  pendingUpdates,  \* pending_updates
  flushing,        \* flushing_effects
  effects,         \* pending_effects
  pendingNotify,   \* pending_notifications, pending_global_notifications
  phase,           \* where flush_effects is, "idle" outside of it
  applying,        \* the effect it is applying
  batch,           \* what take_dropped returned, the head being released
  suspended,       \* the flush of shutdown, while another one is made inside
  \* Entities.
  born,            \* created so far
  held,            \* those user code has a handle to
  refs,            \* strong handles: user code's, those of EntityCreated
                   \* effects and those callbacks are given
  droppedIds,      \* unreferenced entities, to be released
  \* Auxiliary.
  fuel,            \* operations user code may still make
  emitted,         \* events emitted
  owed,            \* <<i, n>>: i was live when event n was emitted (n = 0:
                   \* when its emitter notified) and has not been called
  early,           \* i was inert when its emitter notified, none of whose
                   \* notifications was queued then; not called since
  lost             \* <<i, n>> whose effect was applied by a flush inside the
                   \* pass of shutdown's flush that holds i

setVars    == <<next, keyOf, stored, active, dropped, handles, stack, ended>>
levelVars  == <<flushing, suspended>>
flushVars  == <<levelVars, phase, applying, batch>>
queueVars  == <<effects, pendingNotify>>
entityVars == <<born, held, refs, droppedIds>>
auxVars    == <<emitted, owed, early, lost>>
vars       == <<setVars, pendingUpdates, flushVars, queueVars, entityVars, fuel, auxVars>>

Subs == INSTANCE SubscriberSet WITH
          Keys <- Topics, MaxDepth <- 2, Released <- {"release"} \X Entities

NoEffect == [op |-> "none"]
Effect == [op : {"none", "defer"}]
            \cup [op : {"notify"}, on : Emitters]
            \cup [op : {"emit"}, on : Entities, n : 1 .. MaxFuel]
            \cup [op : {"created"}, on : Entities]
            \cup [op : {"activate"}, sub : Subs!Ids]

Phases == {"idle", "take", "release", "listeners", "listening", "apply", "pass", "defer", "over"}

TypeOK == /\ Subs!TypeOK
          /\ pendingUpdates \in 0 .. MaxNest
          /\ flushing \in BOOLEAN
          /\ effects \in Seq(Effect)
          /\ pendingNotify \subseteq Emitters
          /\ phase \in Phases
          /\ applying \in Effect
          /\ batch \in Seq(Entities)
          /\ suspended \in Seq([phase : Phases, applying : Effect, batch : Seq(Entities)])
          /\ Len(suspended) <= 1
          /\ born \subseteq Entities
          /\ held \subseteq born
          /\ refs \in [Entities -> Nat]
          /\ droppedIds \in Seq(Entities)
          /\ fuel \in 0 .. MaxFuel
          /\ emitted \in 0 .. MaxFuel
          /\ owed \subseteq Subs!Ids \X (0 .. MaxFuel)
          /\ early \subseteq Subs!Ids
          /\ lost \subseteq Subs!Ids \X (0 .. MaxFuel)

Init == /\ Subs!Init
        /\ pendingUpdates = 0 /\ flushing = FALSE
        /\ effects = <<>> /\ pendingNotify = {}
        /\ phase = "idle" /\ applying = NoEffect /\ batch = <<>>
        /\ suspended = <<>> /\ lost = {}
        /\ born = {} /\ held = {} /\ refs = [e \in Entities |-> 0] /\ droppedIds = <<>>
        /\ fuel = MaxFuel /\ emitted = 0 /\ owed = {} /\ early = {}

(***************************************************************************)
(* Handles and effects.                                                    *)
(***************************************************************************)
Referenced(m) == m \in Globals \/ (m \in born /\ refs[m] > 0)

AddRef(m) == refs' = IF m \in Globals THEN refs ELSE [refs EXCEPT ![m] = @ + 1]

\* The last handle lists its entity for release.
DropRef(m) ==
  /\ refs' = IF m \in Globals THEN refs ELSE [refs EXCEPT ![m] = @ - 1]
  /\ droppedIds' = IF m \in Entities /\ refs[m] = 1
                   THEN Append(droppedIds, m) ELSE droppedIds

KeepRefs == UNCHANGED <<refs, droppedIds>>

Push(x) == effects' = Append(effects, x)

------------------------------------------------------------------------------
(***************************************************************************)
(* User code: outside every update, inside one, in a callback or in a      *)
(* deferred closure.                                                       *)
(***************************************************************************)
CallbackRuns == phase \in {"pass", "listening"} /\ Subs!Top.cur # Subs!NoId

UserCode == /\ fuel > 0
            /\ phase \in {"idle", "defer"} \/ CallbackRuns
            /\ fuel' = fuel - 1

StartUpdate ==
  /\ UserCode
  /\ pendingUpdates < MaxNest
  /\ pendingUpdates' = pendingUpdates + 1
  /\ UNCHANGED <<setVars, flushVars, queueVars, entityVars, auxVars>>

\* App::new.
New(e) ==
  /\ UserCode
  /\ pendingUpdates > 0
  /\ e \notin born
  /\ born' = born \cup {e} /\ held' = held \cup {e}
  /\ refs' = [refs EXCEPT ![e] = 2]
  /\ Push([op |-> "created", on |-> e])
  /\ UNCHANGED <<setVars, pendingUpdates, flushVars, pendingNotify, droppedIds, auxVars>>

\* Clone or upgrade, up to one handle in user code's hands.
Hold(e) ==
  /\ UserCode
  /\ Referenced(e) /\ e \notin held
  /\ held' = held \cup {e}
  /\ AddRef(e)
  /\ UNCHANGED <<setVars, pendingUpdates, flushVars, queueVars, born, droppedIds, auxVars>>

\* On any thread, so that it comes between any two steps of a flush.
Release(e) ==
  /\ fuel > 0 /\ fuel' = fuel - 1
  /\ e \in held
  /\ held' = held \ {e}
  /\ DropRef(e)
  /\ UNCHANGED <<setVars, pendingUpdates, flushVars, queueVars, born, auxVars>>

\* observe, observe_global and subscribe: activation is deferred.
Observe(t) ==
  /\ UserCode
  /\ t[1] \in Kinds \cap {"notify", "emit"} /\ Referenced(t[2])
  /\ Subs!Insert(t)
  /\ Push([op |-> "activate", sub |-> next])
  /\ UNCHANGED <<pendingUpdates, flushVars, pendingNotify, entityVars, auxVars>>

\* observe_release and observe_new activate at once.
ObserveNow(t) ==
  /\ UserCode
  /\ t[1] \in Kinds \cap {"release", "created"}
  /\ t[1] = "release" => Referenced(t[2])
  /\ Subs!InsertActive(t)
  /\ UNCHANGED <<pendingUpdates, flushVars, queueVars, entityVars, auxVars>>

Unsubscribe(h) ==
  /\ UserCode
  /\ Subs!Unsubscribe(h)
  /\ UNCHANGED <<pendingUpdates, flushVars, queueVars, entityVars, auxVars>>

Detach(h) ==
  /\ UserCode
  /\ Subs!Detach(h)
  /\ UNCHANGED <<pendingUpdates, flushVars, queueVars, entityVars, auxVars>>

Listeners(t) == {i \in Subs!Born : keyOf[i] = t /\ i \notin dropped \cup ended}

Notified(m) ==
  /\ UserCode
  /\ m \in born \cup Globals
  /\ pendingNotify' = pendingNotify \cup {m}
  /\ LET ls == Listeners(<<"notify", m>>)
     IN  /\ owed' = owed \cup ((ls \cap active) \X {0})
         /\ early' = IF m \in pendingNotify THEN early ELSE early \cup (ls \ active)
  /\ UNCHANGED <<setVars, pendingUpdates, flushVars, entityVars, emitted, lost>>

\* Mutant of Notify: nothing coalesces.
NotifyAlwaysQueues(m) == Notified(m) /\ Push([op |-> "notify", on |-> m])

\* Mutant of Notify: a notify goes before what is queued.
NotifyInFront(m) ==
  /\ Notified(m)
  /\ effects' = IF m \in pendingNotify THEN effects
                ELSE <<[op |-> "notify", on |-> m]>> \o effects

\* notify, and what the accessors of globals push: one effect per emitter.
Notify(m) ==
  /\ Notified(m)
  /\ effects' = IF m \in pendingNotify THEN effects
                ELSE Append(effects, [op |-> "notify", on |-> m])

EmitNumbered(e) ==
  /\ UserCode
  /\ Referenced(e)
  /\ emitted' = emitted + 1
  /\ owed' = owed \cup ((Listeners(<<"emit", e>>) \cap active) \X {emitted + 1})
  /\ UNCHANGED <<setVars, pendingUpdates, flushVars, pendingNotify, entityVars, early, lost>>

\* Mutant of Emit: push_front.
EmitInFront(e) ==
  EmitNumbered(e) /\ effects' = <<[op |-> "emit", on |-> e, n |-> emitted + 1]>> \o effects

Emit(e) == EmitNumbered(e) /\ Push([op |-> "emit", on |-> e, n |-> emitted + 1])

Defer ==
  /\ UserCode
  /\ Push([op |-> "defer"])
  /\ UNCHANGED <<setVars, pendingUpdates, flushVars, pendingNotify, entityVars, auxVars>>

\* The update that a flush ends is in progress until it has.
InFlush == IF flushing THEN 1 ELSE 0

BeginFlush ==
  /\ phase' = "take"
  /\ IF phase = "idle"
     THEN UNCHANGED <<suspended, applying, batch>>
     ELSE /\ suspended' = <<[phase |-> phase, applying |-> applying, batch |-> batch]>>
          /\ applying' = NoEffect /\ batch' = <<>>

EndUpdate(flushes) ==
  /\ phase \in {"idle", "defer"} \/ CallbackRuns
  /\ pendingUpdates > InFlush
  /\ IF flushes
     THEN flushing' = TRUE /\ BeginFlush /\ UNCHANGED pendingUpdates
     ELSE pendingUpdates' = pendingUpdates - 1 /\ UNCHANGED flushVars
  /\ UNCHANGED <<setVars, queueVars, entityVars, fuel, auxVars>>

\* finish_update: the outermost update outside a flush flushes.  User code
\* ends the updates it began, so a flush keeps the one that started it.
FinishUpdate == EndUpdate(~flushing /\ pendingUpdates = 1)

\* The platform quits: what shutdown does once its quit observers, which are
\* user code outside every update, have been called.  flushing_effects is not
\* set.
Shutdown ==
  /\ UserCode
  /\ phase = "idle" /\ pendingUpdates = 0
  /\ BeginFlush
  /\ UNCHANGED <<setVars, pendingUpdates, flushing, queueVars, entityVars, auxVars>>

UserStep == \/ StartUpdate \/ Defer \/ Shutdown
            \/ \E e \in Entities : New(e) \/ Hold(e) \/ Release(e) \/ Emit(e)
            \/ \E t \in Topics : Observe(t) \/ ObserveNow(t)
            \/ \E h \in handles : Unsubscribe(h) \/ Detach(h)
            \/ \E m \in Emitters : Notify(m)

------------------------------------------------------------------------------
(***************************************************************************)
(* flush_effects: release what was dropped, apply one effect, repeat.      *)
(***************************************************************************)
TakeDropped ==
  /\ phase = "take"
  /\ batch' = droppedIds /\ droppedIds' = <<>>
  /\ phase' = IF droppedIds = <<>> THEN "apply" ELSE "release"
  /\ UNCHANGED <<setVars, pendingUpdates, levelVars, applying, queueVars, born, held, refs, fuel, auxVars>>

ReleaseFirst(kinds) ==
  /\ phase = "release"
  /\ IF batch = <<>>
     THEN phase' = "take" /\ UNCHANGED setVars
     ELSE phase' = "listeners" /\ Subs!Discard(kinds \X {Head(batch)})
  /\ UNCHANGED <<pendingUpdates, levelVars, applying, batch, queueVars, entityVars, fuel, auxVars>>

\* Mutant of ReleaseDropped: the observers of a released entity stay.
ReleaseDroppedKeepingObservers == ReleaseFirst({"emit"})

ReleaseDropped == ReleaseFirst({"notify", "emit"})

NextDropped == phase' = "release" /\ batch' = Tail(batch)

CallReleaseListeners ==
  /\ phase = "listeners"
  /\ LET t == <<"release", Head(batch)>>
     IN  IF stored[t] = {} THEN NextDropped /\ UNCHANGED setVars
         ELSE phase' = "listening" /\ Subs!RemoveBegin(t) /\ UNCHANGED batch
  /\ UNCHANGED <<pendingUpdates, levelVars, applying, queueVars, entityVars, fuel, auxVars>>

ReleaseListener ==
  /\ phase = "listening"
  /\ Subs!RemoveSkip \/ Subs!RemoveCall
  /\ UNCHANGED <<pendingUpdates, flushVars, queueVars, entityVars, fuel, auxVars>>

ReleaseListenersEnd ==
  /\ phase = "listening"
  /\ Subs!RemoveEnd
  /\ NextDropped
  /\ UNCHANGED <<pendingUpdates, levelVars, applying, queueVars, entityVars, fuel, auxVars>>

\* The queue is empty: the flush and the update that began it end, and a
\* flush of shutdown that was suspended goes on.
FlushEnd ==
  /\ phase = "apply" /\ effects = <<>>
  /\ IF suspended = <<>>
     THEN /\ phase' = IF flushing THEN "idle" ELSE "over"
          /\ UNCHANGED <<applying, batch>>
     ELSE /\ phase' = Head(suspended).phase
          /\ applying' = Head(suspended).applying /\ batch' = Head(suspended).batch
  /\ suspended' = <<>> /\ flushing' = FALSE
  /\ pendingUpdates' = pendingUpdates - InFlush
  /\ UNCHANGED <<setVars, queueVars, entityVars, fuel, auxVars>>

\* The effect x is the next one, of kind `op`.
Pop(op, x) ==
  /\ phase = "apply" /\ effects # <<>>
  /\ x = Head(effects) /\ x.op = op
  /\ effects' = Tail(effects)

ApplyActivate(x) ==
  /\ Pop("activate", x)
  /\ Subs!Activate(x.sub)
  /\ phase' = "take"
  /\ UNCHANGED <<pendingUpdates, levelVars, applying, batch, pendingNotify, entityVars, fuel, auxVars>>

ApplyDefer(x) ==
  /\ Pop("defer", x)
  /\ phase' = "defer"
  /\ UNCHANGED <<setVars, pendingUpdates, levelVars, applying, batch, pendingNotify, entityVars, fuel, auxVars>>

TopicOf(x) == IF x.op = "created" THEN <<"created", AnyType>> ELSE <<x.op, x.on>>

Serves(x, i, n) == /\ x.op \in {"notify", "emit"}
                   /\ keyOf[i] = <<x.op, x.on>>
                   /\ n = IF x.op = "emit" THEN x.n ELSE 0

\* Auxiliary: applied inside the pass of a suspended flush over the same
\* subscribers, x does not reach those of them it took, but a notification
\* those it has still to call.
Misses(x) ==
  IF suspended # <<>> /\ Head(suspended).phase = "pass"
  THEN LET f == Subs!Top
           took == IF x.op = "notify" THEN Subs!Holds(f) \ f.rest ELSE Subs!Holds(f)
       IN  {o \in owed : o[1] \in took /\ Serves(x, o[1], o[2])}
  ELSE {}

StartEffectPass(x) ==
  /\ \E op \in {"notify", "emit", "created"} : Pop(op, x)
  /\ IF stored[TopicOf(x)] = {}
     THEN /\ phase' = "take"
          /\ IF x.op = "created" THEN DropRef(x.on) ELSE KeepRefs
          /\ UNCHANGED <<setVars, applying>>
     ELSE /\ phase' = "pass" /\ applying' = x
          /\ Subs!RetainBegin(TopicOf(x))
          /\ KeepRefs
  /\ lost' = lost \cup Misses(x)
  /\ UNCHANGED <<pendingUpdates, levelVars, batch, born, held, fuel, emitted, owed, early>>

\* Mutant of ApplyToSubscribers: the emitter stays in pending_notifications.
ApplyKeepingPending(x) == StartEffectPass(x) /\ UNCHANGED pendingNotify

\* Notify, Emit and EntityCreated make a pass over their subscribers, none
\* if there are none.
ApplyToSubscribers(x) ==
  /\ StartEffectPass(x)
  /\ pendingNotify' = IF x.op = "notify" THEN pendingNotify \ {x.on} ELSE pendingNotify

PassSkip ==
  /\ phase = "pass"
  /\ Subs!RetainSkip \/ Subs!RetainDiscard
  /\ UNCHANGED <<pendingUpdates, flushVars, queueVars, entityVars, fuel, auxVars>>

Called(i) ==
  /\ phase = "pass"
  /\ IF Referenced(applying.on) THEN Subs!RetainCall ELSE Subs!RetainDecline
  /\ Subs!IsNext(i)
  /\ owed' = owed \ {<<i, IF applying.op = "emit" THEN applying.n ELSE 0>>}
  /\ early' = early \ {i}
  /\ UNCHANGED <<pendingUpdates, flushVars, queueVars, born, held, droppedIds, fuel, emitted, lost>>

\* The handlers of observe and subscribe upgrade a weak handle to their
\* emitter and pass it on; the entity of EntityCreated is carried by it.
PassCall == \E i \in Subs!Ids :
  /\ Called(i)
  /\ IF Referenced(applying.on) /\ applying.op # "created"
     THEN AddRef(applying.on) ELSE UNCHANGED refs

PassEnd ==
  /\ phase = "pass"
  /\ Subs!RetainEnd
  /\ phase' = "take" /\ applying' = NoEffect
  /\ IF applying.op = "created" THEN DropRef(applying.on) ELSE KeepRefs
  /\ UNCHANGED <<pendingUpdates, levelVars, batch, queueVars, born, held, fuel, auxVars>>

\* A callback ends the updates it began before it returns.
CallbackReturns(keep) ==
  /\ CallbackRuns /\ pendingUpdates = InFlush
  /\ IF phase = "pass" THEN Subs!RetainReturn(keep) ELSE Subs!RemoveReturn
  /\ IF applying.op \in {"notify", "emit"} THEN DropRef(applying.on) ELSE KeepRefs
  /\ UNCHANGED <<pendingUpdates, flushVars, queueVars, born, held, fuel, auxVars>>

DeferReturns ==
  /\ phase = "defer" /\ pendingUpdates = InFlush
  /\ phase' = "take"
  /\ UNCHANGED <<setVars, pendingUpdates, levelVars, applying, batch, queueVars, entityVars, fuel, auxVars>>

FlushStep == \/ TakeDropped \/ ReleaseDropped
             \/ CallReleaseListeners \/ ReleaseListener \/ ReleaseListenersEnd
             \/ \E x \in {effects[i] : i \in DOMAIN effects} :
                  ApplyActivate(x) \/ ApplyDefer(x) \/ ApplyToSubscribers(x)
             \/ PassSkip \/ PassCall \/ PassEnd
             \/ FlushEnd

Returns == FinishUpdate \/ DeferReturns \/ \E keep \in BOOLEAN : CallbackReturns(keep)

Next == UserStep \/ Returns \/ FlushStep

Spec == Init /\ [][Next]_vars

\* The main thread runs on: flush_effects is a loop without waits, and user
\* code (callbacks, closures, updates) returns.
FairSpec == Spec /\ WF_vars(FlushStep) /\ WF_vars(Returns)
------------------------------------------------------------------------------
(***************************************************************************)
(* Properties.                                                             *)
(***************************************************************************)

\* pending_notifications is the set of emitters with a Notify in the queue,
\* which has one at most for each: a notify that finds its emitter in the
\* set is not queued, so a stale member would silence the emitter for good.
PendingNotifyIsQueued ==
  /\ pendingNotify = {x.on : x \in {effects[i] : i \in {j \in DOMAIN effects : effects[j].op = "notify"}}}
  /\ \A i, j \in DOMAIN effects :
       effects[i].op = "notify" /\ effects[i] = effects[j] => i = j

\* Flushes belong to the outermost update or to shutdown: between callbacks no
\* other update is in progress, so no entity is leased when callbacks lease
\* theirs, and a flush starts inside another in shutdown's alone, where two
\* passes are one inside the other at most.
FlushIsOutermost ==
  /\ flushing => phase \notin {"idle", "over"}
  /\ suspended # <<>> => flushing
  /\ phase \notin {"idle", "defer"} /\ ~CallbackRuns => pendingUpdates = InFlush
  /\ Len(stack) = (IF phase \in {"pass", "listening"} THEN 1 ELSE 0)
       + (IF suspended # <<>> /\ Head(suspended).phase \in {"pass", "listening"} THEN 1 ELSE 0)

\* Types, and both of these.
Consistent == TypeOK /\ PendingNotifyIsQueued /\ FlushIsOutermost

\* The passes in progress over observers and listeners.
Passes == (IF phase = "pass" THEN {[for |-> applying, rest |-> Subs!Top.rest]} ELSE {})
   \cup (IF suspended # <<>> /\ Head(suspended).phase = "pass"
         THEN {[for |-> Head(suspended).applying, rest |-> stack[1].rest]} ELSE {})

\* A live subscription that has an event or a notification coming finds its
\* effect in the queue, or in a pass being made with it still to be called:
\* coalescing, cancellations of others and releases lose it nothing.  Only
\* shutdown does, which may apply an effect while it has the subscription out
\* of its set.
OwedIsPending ==
  \A o \in owed \ lost : Subs!Live(o[1]) =>
    \/ \E k \in DOMAIN effects : Serves(effects[k], o[1], o[2])
    \/ \E p \in Passes : Serves(p.for, o[1], o[2]) /\ o[1] \in p.rest

\* Once an entity is released nothing subscribes to it any more, and while
\* one of its callbacks runs it is not released.
ReleasedIsForgotten ==
  /\ \A e \in born : refs[e] = 0 =>
       \/ e \in Range(droppedIds \o batch \o (IF suspended = <<>> THEN <<>> ELSE Head(suspended).batch))
       \/ \A k \in {"notify", "emit", "release"} : stored[<<k, e>>] = {}
  /\ CallbackRuns /\ applying.op # "none" => Referenced(applying.on)
  /\ suspended # <<>> /\ Head(suspended).applying.op # "none" => Referenced(Head(suspended).applying.on)

\* A listener is called for the events of its emitter in emission order.
EventsInOrder ==
  [][ \A i \in Subs!Ids :
        (applying.op = "emit" /\ <<i, applying.n>> \in owed /\ <<i, applying.n>> \notin owed')
          => \A m \in 1 .. applying.n - 1 : <<i, m>> \notin owed \ lost ]_vars

\* An observer hears of a notification made after observe returned, though it
\* is inert until a deferred effect of its own is applied, unless the emitter's
\* notification was queued before it: with that one, made for others, the new
\* one is coalesced, and it is applied while the observer is inert.
ObserversHearNotify ==
  phase = "idle" /\ pendingUpdates = 0 /\ effects = <<>>
    => \A i \in early : ~Subs!Live(i)

\* A flush is to come or goes on, and it has not found for the last time that
\* nothing was dropped.
WillTakeDropped ==
  \/ pendingUpdates > InFlush \/ suspended # <<>>
  \/ phase \notin {"idle", "over"} /\ ~(phase = "apply" /\ effects = <<>>)

\* An entity that loses its last handle on any thread is released by the flush
\* that comes or goes on, unless that flush has just looked for the last time:
\* what another thread drops after this, or between updates, waits for the
\* next update, which nothing asks for.
UnreferencedReleased ==
  \A e \in Entities :
    (WillTakeDropped /\ e \in born /\ refs[e] = 0) ~>
      (\A k \in {"notify", "emit", "release"} : stored[<<k, e>>] = {})

\* What a subscription is owed while an update or a flush is in progress it
\* gets, all of it, unless it ends first or a flush inside shutdown's loses it.
Owes(i) == Subs!Live(i) /\ \E n \in 0 .. MaxFuel : <<i, n>> \in owed \ lost

OwedDelivered ==
  \A i \in Subs!Ids :
    ((pendingUpdates > 0 \/ phase \notin {"idle", "over"}) /\ Owes(i)) ~> ~Owes(i)
=============================================================================
