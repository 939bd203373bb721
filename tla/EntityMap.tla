------------------------------ MODULE EntityMap ------------------------------
(***************************************************************************)
(* gpui's EntityMap (crates/gpui/src/app/entity_map.rs): reference-counted *)
(* entities whose values live in the App and whose handles may be cloned,  *)
(* dropped and upgraded on any thread.                                     *)
(*                                                                         *)
(* The counters sit behind an RwLock.  A thread holds it across two atomic *)
(* operations in two places only, so its state is read off the threads'    *)
(* pc: "upgrading" is a reader between the load and the exchange of        *)
(* atomic_incr_if_not_zero, "last" is the upgradable reader that took a    *)
(* count to zero and waits to become the writer.  Every other critical     *)
(* section has one atomic operation and is one step.                       *)
(*                                                                         *)
(* The App, whose refcount table outlives every handle here, is on Main.   *)
(* accessed_entities, which only view caching reads, is left out.          *)
(***************************************************************************)
EXTENDS Integers, Sequences, FiniteSets

CONSTANTS Threads,  \* threads that own handles
          Main,     \* the one the App is on
          Ids,      \* bound: entity ids (never reused: they are generational)
          Handles,  \* bound: strong handles alive at once
          Slot,     \* owner of a handle that is still a Slot
          None      \* what a handle that does not exist refers to

ASSUME MainAssumption    == Main \in Threads
ASSUME HandlesAssumption == IsFiniteSet(Handles)
ASSUME NoneAssumption    == None \notin Ids
ASSUME OwnerAssumption   == /\ Slot \notin Threads \cup Ids
                            /\ Threads \cap Ids = {}

VARIABLES
  refers,     \* the entity each handle refers to, None if it does not exist
  owner,      \* who owns each handle: a thread, an entity's value or a Slot
  counted,    \* keys of EntityRefCounts.counts
  count,      \* EntityRefCounts.counts
  droppedIds, \* EntityRefCounts.dropped_entity_ids
  value,      \* where each entity's value is
  pc,         \* what each thread is doing
  target,     \* the entity it does it to
  loaded      \* the count it read last

refvars == <<refers, owner, counted, count, droppedIds>>
pcvars  == <<pc, target, loaded>>
vars    == <<refvars, value, pcvars>>

Owners == Threads \cup Ids \cup {Slot}
\* "slot": reserved, not inserted; "map": in entities; "lease": on the stack;
\* "releasing": out of the map for good, its release callbacks running
Places == {"unborn", "slot", "map", "lease", "releasing", "gone"}

HandlesTo(e) == {h \in Handles : refers[h] = e}
Free(h)      == refers[h] = None

TypeOK == /\ refers \in [Handles -> Ids \cup {None}]
          /\ owner \in [Handles -> Owners]
          /\ counted \subseteq Ids
          /\ count \in [Ids -> Nat]
          /\ droppedIds \in Seq(Ids)
          /\ value \in [Ids -> Places]
          /\ pc \in [Threads -> {"idle", "upgrading", "last"}]
          /\ target \in [Threads -> Ids \cup {None}]
          /\ loaded \in [Threads -> Nat]

Idle(t) == pc[t] = "idle"

\* No reader, no upgradable reader.
WriteLockFree == \A t \in Threads : Idle(t)

\* A thread uses its own handles; Main also Slots, and the handles in values
\* it has at hand.
AtHand(o)     == o \in Ids /\ value[o] \in {"lease", "releasing"}
Reaches(t, h) ==
  /\ ~Free(h)
  /\ owner[h] = t \/ (t = Main /\ (owner[h] = Slot \/ AtHand(owner[h])))

------------------------------------------------------------------------------
Init == /\ refers = [h \in Handles |-> None]
        /\ owner = [h \in Handles |-> Main]
        /\ counted = {}
        /\ count = [e \in Ids |-> 0]
        /\ droppedIds = <<>>
        /\ value = [e \in Ids |-> "unborn"]
        /\ pc = [t \in Threads |-> "idle"]
        /\ target = [t \in Threads |-> None]
        /\ loaded = [t \in Threads |-> 0]

(***************************************************************************)
(* The App, on Main.                                                       *)
(***************************************************************************)
Reserve(e, h) ==
  /\ WriteLockFree
  /\ value[e] = "unborn" /\ Free(h)
  /\ counted' = counted \cup {e}
  /\ count' = [count EXCEPT ![e] = 1]
  /\ refers' = [refers EXCEPT ![h] = e]
  /\ owner' = [owner EXCEPT ![h] = Slot]
  /\ value' = [value EXCEPT ![e] = "slot"]
  /\ UNCHANGED <<droppedIds, pcvars>>

\* The Slot becomes an ordinary handle.
Insert(h) ==
  /\ Idle(Main)
  /\ ~Free(h) /\ owner[h] = Slot
  /\ owner' = [owner EXCEPT ![h] = Main]
  /\ value' = [value EXCEPT ![refers[h]] = "map"]
  /\ UNCHANGED <<refers, counted, count, droppedIds, pcvars>>

\* lease panics on a value that is not in the map.  The handle is needed to
\* begin a lease, not to end it (GpuiBorrow drops its own).
LeaseEntity(h) ==
  /\ Idle(Main)
  /\ Reaches(Main, h) /\ value[refers[h]] = "map"
  /\ value' = [value EXCEPT ![refers[h]] = "lease"]
  /\ UNCHANGED <<refvars, pcvars>>

EndLease(e) ==
  /\ Idle(Main)
  /\ value[e] = "lease"
  /\ value' = [value EXCEPT ![e] = "map"]
  /\ UNCHANGED <<refvars, pcvars>>

\* Only the outermost update flushes, and leases end inside their update.
OutsideUpdates == \A e \in Ids : value[e] \notin {"lease", "releasing"}

Listed == {droppedIds[i] : i \in 1 .. Len(droppedIds)}

\* take_dropped: an id that was reserved and never inserted has no value.
TakeDropped ==
  /\ WriteLockFree
  /\ OutsideUpdates
  /\ droppedIds # <<>>
  /\ counted' = counted \ Listed
  /\ value' = [e \in Ids |-> IF e \notin Listed THEN value[e]
                             ELSE IF value[e] = "map" THEN "releasing" ELSE "gone"]
  /\ droppedIds' = <<>>
  /\ UNCHANGED <<refers, owner, count, pcvars>>

\* The value is freed once the handles in its fields have been dropped.
FinishRelease(e) ==
  /\ Idle(Main)
  /\ value[e] = "releasing"
  /\ \A h \in Handles : Free(h) \/ owner[h] # e
  /\ value' = [value EXCEPT ![e] = "gone"]
  /\ UNCHANGED <<refvars, pcvars>>

(***************************************************************************)
(* Handles, on any thread.                                                 *)
(***************************************************************************)
\* Sending a handle to a thread, or moving it in or out of a value at hand.
Move(t, h, o) ==
  /\ Idle(t)
  /\ Reaches(t, h)
  /\ owner[h] # Slot
  /\ o \in Threads \/ (t = Main /\ AtHand(o))
  /\ owner' = [owner EXCEPT ![h] = o]
  /\ UNCHANGED <<refers, counted, count, droppedIds, value, pcvars>>

AddHandle(t, g, e) ==
  /\ count' = [count EXCEPT ![e] = @ + 1]
  /\ refers' = [refers EXCEPT ![g] = e]
  /\ owner' = [owner EXCEPT ![g] = t]

Clone(t, h, g) ==
  /\ Idle(t)
  /\ Reaches(t, h) /\ Free(g)
  /\ AddHandle(t, g, refers[h])
  /\ UNCHANGED <<counted, droppedIds, value, pcvars>>

\* Mutant of Drop: prev_count is taken for the new count.
DropOffByOne(t, h) ==
  /\ Idle(t)
  /\ \A u \in Threads : pc[u] # "last"
  /\ Reaches(t, h)
  /\ LET e == refers[h]
     IN  /\ count' = [count EXCEPT ![e] = @ - 1]
         /\ IF count[e] = 0
            THEN /\ pc' = [pc EXCEPT ![t] = "last"]
                 /\ target' = [target EXCEPT ![t] = e]
            ELSE UNCHANGED <<pc, target>>
  /\ refers' = [refers EXCEPT ![h] = None]
  /\ UNCHANGED <<owner, counted, droppedIds, value, loaded>>

\* Dropping the last handle keeps the upgradable lock.
Drop(t, h) ==
  /\ Idle(t)
  /\ \A u \in Threads : pc[u] # "last"
  /\ Reaches(t, h)
  /\ LET e == refers[h]
     IN  /\ count' = [count EXCEPT ![e] = @ - 1]
         /\ IF count[e] = 1
            THEN /\ pc' = [pc EXCEPT ![t] = "last"]
                 /\ target' = [target EXCEPT ![t] = e]
            ELSE UNCHANGED <<pc, target>>
  /\ refers' = [refers EXCEPT ![h] = None]
  /\ UNCHANGED <<owner, counted, droppedIds, value, loaded>>

\* The upgrade to the write lock waits for the readers.
ListDropped(t) ==
  /\ pc[t] = "last"
  /\ \A u \in Threads \ {t} : Idle(u)
  /\ droppedIds' = Append(droppedIds, target[t])
  /\ pc' = [pc EXCEPT ![t] = "idle"]
  /\ UNCHANGED <<refers, owner, counted, count, value, target, loaded>>

(***************************************************************************)
(* Upgrading a weak handle, which anyone may have to any entity.           *)
(***************************************************************************)
\* Mutant of UpgradeLoad: any counted entity may be upgraded.
UpgradeLoadCounted(t, e) ==
  /\ Idle(t)
  /\ e \in counted
  /\ pc' = [pc EXCEPT ![t] = "upgrading"]
  /\ target' = [target EXCEPT ![t] = e]
  /\ loaded' = [loaded EXCEPT ![t] = count[e]]
  /\ UNCHANGED <<refvars, value>>

UpgradeLoad(t, e) ==
  /\ Idle(t)
  /\ e \in counted /\ count[e] # 0
  /\ pc' = [pc EXCEPT ![t] = "upgrading"]
  /\ target' = [target EXCEPT ![t] = e]
  /\ loaded' = [loaded EXCEPT ![t] = count[e]]
  /\ UNCHANGED <<refvars, value>>

\* Mutant of UpgradeExchange: a plain store of the loaded count plus one.
UpgradeStore(t, g) ==
  /\ pc[t] = "upgrading" /\ Free(g)
  /\ count' = [count EXCEPT ![target[t]] = loaded[t] + 1]
  /\ refers' = [refers EXCEPT ![g] = target[t]]
  /\ owner' = [owner EXCEPT ![g] = t]
  /\ pc' = [pc EXCEPT ![t] = "idle"]
  /\ UNCHANGED <<counted, droppedIds, value, target, loaded>>

UpgradeExchange(t, g) ==
  /\ pc[t] = "upgrading"
  /\ loaded[t] = count[target[t]] /\ Free(g)
  /\ AddHandle(t, g, target[t])
  /\ pc' = [pc EXCEPT ![t] = "idle"]
  /\ UNCHANGED <<counted, droppedIds, value, target, loaded>>

\* The exchange fails on a count that moved: start over, or give up at zero.
UpgradeRetry(t) ==
  /\ pc[t] = "upgrading"
  /\ loaded[t] # count[target[t]]
  /\ IF count[target[t]] = 0
     THEN pc' = [pc EXCEPT ![t] = "idle"] /\ UNCHANGED loaded
     ELSE loaded' = [loaded EXCEPT ![t] = count[target[t]]] /\ UNCHANGED pc
  /\ UNCHANGED <<refvars, value, target>>

------------------------------------------------------------------------------
AppStep == \/ \E e \in Ids, h \in Handles : Reserve(e, h)
           \/ \E h \in Handles : Insert(h) \/ LeaseEntity(h)
           \/ \E e \in Ids : EndLease(e) \/ FinishRelease(e)
           \/ TakeDropped

HandleStep(t) == \/ \E h \in Handles : Drop(t, h)
                 \/ \E h \in Handles, o \in Owners : Move(t, h, o)
                 \/ \E h \in Handles, g \in Handles : Clone(t, h, g)
                 \/ ListDropped(t)

UpgradeStep(t) == \/ \E e \in Ids : UpgradeLoad(t, e)
                  \/ \E g \in Handles : UpgradeExchange(t, g)
                  \/ UpgradeRetry(t)

Next == AppStep \/ \E t \in Threads : HandleStep(t) \/ UpgradeStep(t)

Spec == Init /\ [][Next]_vars
------------------------------------------------------------------------------
(***************************************************************************)
(* Properties.                                                             *)
(***************************************************************************)

\* The counter of an entity is the number of its strong handles, whatever
\* the threads are in the middle of.
CountIsHandles == \A e \in counted : count[e] = Cardinality(HandlesTo(e))

\* A strong handle is never left dangling: its entity is still counted (or
\* clone and drop would panic with "detected over-release") and its value
\* has not been handed to the release callbacks.
HandleKeepsEntity ==
  \A h \in Handles : ~Free(h) => /\ refers[h] \in counted
                                 /\ value[refers[h]] \in {"slot", "map", "lease"}

Unreferenced(e) == e \in counted /\ count[e] = 0

\* An entity without handles is listed for release exactly once: in
\* dropped_entity_ids, or by the one thread that took its count to zero.
\* take_dropped unwraps the count of each listed id and asserts it is zero.
UnreferencedListedOnce ==
  /\ \A i, j \in 1 .. Len(droppedIds) : droppedIds[i] = droppedIds[j] => i = j
  /\ \A t \in Threads : pc[t] = "last" => /\ target[t] \notin Listed
                                        /\ \A u \in Threads \ {t} : pc[u] # "last"
  /\ \A e \in Listed : Unreferenced(e)
  /\ \A t \in Threads : pc[t] = "last" => Unreferenced(target[t])
  /\ \A e \in Ids : Unreferenced(e) =>
       e \in Listed \/ \E t \in Threads : pc[t] = "last" /\ target[t] = e

\* A value is in the map or leased exactly while its entity is counted: no
\* lease ends after its entity was released and puts the value back.
TablesAgree == \A e \in Ids : e \in counted <=> value[e] \in {"slot", "map", "lease"}

\* Handles are shared ownership, with weak upgrades racing the last drop.
Promise == INSTANCE SharedOwnership WITH
             Entities <- Ids,
             refs     <- [e \in Ids |-> HandlesTo(e)],
             state    <- [e \in Ids |-> IF value[e] = "unborn" THEN "unborn"
                                        ELSE IF e \in counted THEN "alive"
                                        ELSE "released"]

KeepsPromise == Promise!Spec
=============================================================================
