--------------------------- MODULE EntityMapProofs ---------------------------
(***************************************************************************)
(* Proofs about EntityMap, for any number of threads, entities and         *)
(* handles: its counters, its release list and its tables stay consistent, *)
(* and it implements SharedOwnership.                                      *)
(***************************************************************************)
EXTENDS EntityMap, FiniteSetTheorems, TLAPS

\* An upgrade or a last drop in progress is about an entity that is still
\* counted: take_dropped needs the lock to itself.  An upgrade that loaded
\* zero has given up.
BusyTargetCounted ==
  \A t \in Threads : /\ ~Idle(t) => target[t] \in counted
                     /\ pc[t] = "upgrading" => loaded[t] # 0

\* The inductive invariant.
IInv == /\ TypeOK
        /\ CountIsHandles
        /\ HandleKeepsEntity
        /\ UnreferencedListedOnce
        /\ TablesAgree
        /\ BusyTargetCounted

------------------------------------------------------------------------------
(***************************************************************************)
(* Handles are counted as cardinalities.                                   *)
(***************************************************************************)

\* The handles to an entity are finitely many, so their number is a natural.
LEMMA HandlesFinite ==
  ASSUME NEW e
  PROVE  IsFiniteSet(HandlesTo(e)) /\ Cardinality(HandlesTo(e)) \in Nat
BY HandlesAssumption, FS_Subset, FS_CardinalityType DEF HandlesTo

\* A handle that comes to exist adds one to its entity and changes no other.
LEMMA HandleAdded ==
  ASSUME TypeOK, NEW g \in Handles, NEW e \in Ids, Free(g),
         refers' = [refers EXCEPT ![g] = e]
  PROVE  /\ HandlesTo(e)' = HandlesTo(e) \cup {g}
         /\ g \notin HandlesTo(e)
         /\ Cardinality(HandlesTo(e)') = Cardinality(HandlesTo(e)) + 1
         /\ \A x \in Ids : x # e => HandlesTo(x)' = HandlesTo(x)
<1>1. g \notin HandlesTo(e)
  BY NoneAssumption DEF HandlesTo, Free
<1>2. HandlesTo(e)' = HandlesTo(e) \cup {g}
  BY DEF HandlesTo, TypeOK
<1>3. \A x \in Ids : x # e => HandlesTo(x)' = HandlesTo(x)
  BY NoneAssumption DEF HandlesTo, TypeOK, Free
<1> QED
  BY <1>1, <1>2, <1>3, HandlesFinite, FS_AddElement

\* A handle that is dropped takes one from its entity and changes no other.
LEMMA HandleRemoved ==
  ASSUME TypeOK, NEW h \in Handles, NEW e \in Ids, refers[h] = e,
         refers' = [refers EXCEPT ![h] = None]
  PROVE  /\ HandlesTo(e)' = HandlesTo(e) \ {h}
         /\ h \in HandlesTo(e)
         /\ Cardinality(HandlesTo(e)') = Cardinality(HandlesTo(e)) - 1
         /\ \A x \in Ids : x # e => HandlesTo(x)' = HandlesTo(x)
<1>1. HandlesTo(e)' = HandlesTo(e) \ {h}
  BY NoneAssumption DEF HandlesTo, TypeOK
<1>2. h \in HandlesTo(e)
  BY DEF HandlesTo
<1>3. \A x \in Ids : x # e => HandlesTo(x)' = HandlesTo(x)
  BY NoneAssumption DEF HandlesTo, TypeOK
<1> QED
  BY <1>1, <1>2, <1>3, HandlesFinite, FS_RemoveElement

------------------------------------------------------------------------------
(***************************************************************************)
(* The invariant holds initially and is preserved by every action.         *)
(***************************************************************************)
LEMMA InitIInv == Init => IInv
<1> SUFFICES ASSUME Init PROVE IInv
  OBVIOUS
<1>1. TypeOK
  BY MainAssumption DEF Init, TypeOK, Owners, Places
<1> QED
  BY <1>1 DEF Init, IInv, CountIsHandles, HandleKeepsEntity, Free, UnreferencedListedOnce,
          Listed, Unreferenced, TablesAgree, BusyTargetCounted, Idle


\* Counters, when no handle comes or goes.
LEMMA CountKept ==
  ASSUME IInv, UNCHANGED refers, UNCHANGED count, counted' \subseteq counted
  PROVE  CountIsHandles'
BY DEF IInv, CountIsHandles, HandlesTo

\* The release list, when no entity gains or loses its last handle.
LEMMA ListKept ==
  ASSUME IInv, UNCHANGED <<droppedIds, pc, target>>,
         \A e \in Ids : Unreferenced(e)' <=> Unreferenced(e)
  PROVE  UnreferencedListedOnce'
<1>1. Listed' = Listed
  BY DEF Listed
<1>2. \A e \in Listed : e \in Ids
  BY DEF IInv, UnreferencedListedOnce, Unreferenced, TypeOK
<1>3. \A t \in Threads : pc[t] = "last" => target[t] \in Ids /\ Unreferenced(target[t])
  BY DEF IInv, UnreferencedListedOnce, Unreferenced, TypeOK
<1>4. \A t \in Threads : pc[t] = "last" => Unreferenced(target[t])'
  <2> SUFFICES ASSUME NEW t \in Threads, pc[t] = "last" PROVE Unreferenced(target[t])'
    OBVIOUS
  <2> DEFINE x == target[t]
  <2>1. x \in Ids /\ Unreferenced(x)
    BY <1>3
  <2>2. x' = x
    OBVIOUS
  <2> HIDE DEF x
  <2>3. count'[x] = 0 /\ x \in counted'
    BY <2>1 DEF Unreferenced
  <2> QED
    BY <2>2, <2>3 DEF x, Unreferenced
<1>5. \A e \in Listed' : Unreferenced(e)'
  BY <1>1, <1>2 DEF IInv, UnreferencedListedOnce
<1>6. \A e \in Ids : Unreferenced(e)' =>
        e \in Listed \/ \E t \in Threads : pc[t] = "last" /\ target[t] = e
  BY DEF IInv, UnreferencedListedOnce
<1> QED
  BY <1>1, <1>4, <1>5, <1>6 DEF IInv, UnreferencedListedOnce

LEMMA ReserveIInv ==
  ASSUME IInv, NEW e \in Ids, NEW h \in Handles, Reserve(e, h)
  PROVE  IInv'
<1>1. e \notin counted
  BY DEF IInv, Reserve, TablesAgree
<1>2. TypeOK'
  BY DEF IInv, Reserve, TypeOK, Owners, Places, pcvars
<1>3. CountIsHandles'
  <2>1. HandlesTo(e) = {}
    BY <1>1, NoneAssumption DEF IInv, HandleKeepsEntity, HandlesTo, Free
  <2>2. Cardinality(HandlesTo(e)') = 1
    <3>1. TypeOK /\ Free(h) /\ refers' = [refers EXCEPT ![h] = e]
      BY DEF Reserve, IInv
    <3>2. Cardinality(HandlesTo(e)') = Cardinality(HandlesTo(e)) + 1
      BY <3>1, HandleAdded
    <3> QED
      BY <2>1, <3>2, FS_EmptySet
  <2>3. \A x \in Ids : x # e => HandlesTo(x)' = HandlesTo(x)
    BY HandleAdded DEF Reserve, IInv
  <2> QED
    BY <2>2, <2>3 DEF Reserve, IInv, CountIsHandles, TypeOK
<1>4. HandleKeepsEntity'
  BY <1>1 DEF Reserve, IInv, HandleKeepsEntity, Free, TypeOK
<1>5. UnreferencedListedOnce'
  BY <1>1, ListKept DEF Reserve, IInv, Unreferenced, TypeOK, pcvars
<1>6. TablesAgree' /\ BusyTargetCounted'
  BY <1>1 DEF Reserve, IInv, TablesAgree, BusyTargetCounted, TypeOK, Idle, pcvars
<1> QED
  BY <1>2, <1>3, <1>4, <1>5, <1>6 DEF IInv

\* Insert, lease, end of lease, end of release and move: only the place of a
\* value or the owner of a handle changes.
LEMMA PlaceIInv ==
  ASSUME IInv,
         UNCHANGED <<refers, counted, count, droppedIds, pcvars>>,
         owner' \in [Handles -> Owners],
         value' \in [Ids -> Places],
         \A e \in Ids : value'[e] \in {"slot", "map", "lease"}
                          <=> value[e] \in {"slot", "map", "lease"}
  PROVE  IInv'
<1>1. TypeOK'
  BY DEF IInv, TypeOK, pcvars
<1>2. CountIsHandles'
  BY CountKept
<1>3. HandleKeepsEntity' /\ TablesAgree'
  BY NoneAssumption DEF IInv, HandleKeepsEntity, TablesAgree, Free, TypeOK
<1>4. UnreferencedListedOnce' /\ BusyTargetCounted'
  BY DEF IInv, UnreferencedListedOnce, Listed, Unreferenced, BusyTargetCounted, Idle, pcvars
<1> QED
  BY <1>1, <1>2, <1>3, <1>4 DEF IInv

LEMMA HandlePlaceIInv ==
  ASSUME IInv, NEW h \in Handles, Insert(h) \/ LeaseEntity(h)
  PROVE  IInv'
<1>1. CASE Insert(h)
  <2>1. refers[h] \in Ids /\ value[refers[h]] \in {"slot", "map", "lease"}
    BY <1>1 DEF Insert, Free, IInv, TypeOK, HandleKeepsEntity
  <2> QED
    BY <1>1, <2>1, PlaceIInv, MainAssumption DEF Insert, IInv, TypeOK, Owners, Places
<1>2. CASE LeaseEntity(h)
  <2>1. refers[h] \in Ids /\ value[refers[h]] = "map"
    BY <1>2 DEF LeaseEntity, Reaches, Free, IInv, TypeOK
  <2> QED
    BY <1>2, <2>1, PlaceIInv DEF LeaseEntity, IInv, TypeOK, Places, refvars
<1> QED
  BY <1>1, <1>2

LEMMA ValuePlaceIInv ==
  ASSUME IInv, NEW e \in Ids, EndLease(e) \/ FinishRelease(e)
  PROVE  IInv'
<1>1. CASE EndLease(e)
  BY <1>1, PlaceIInv DEF EndLease, IInv, TypeOK, Places, refvars
<1>2. CASE FinishRelease(e)
  BY <1>2, PlaceIInv DEF FinishRelease, IInv, TypeOK, Places, refvars
<1> QED
  BY <1>1, <1>2

LEMMA TakeDroppedIInv ==
  ASSUME IInv, TakeDropped
  PROVE  IInv'
<1>1. \A e \in Listed : HandlesTo(e) = {}
  <2> SUFFICES ASSUME NEW e \in Listed PROVE HandlesTo(e) = {}
    OBVIOUS
  <2>1. e \in counted /\ count[e] = 0
    BY DEF IInv, UnreferencedListedOnce, Unreferenced
  <2>2. Cardinality(HandlesTo(e)) = 0
    BY <2>1 DEF IInv, CountIsHandles
  <2> QED
    BY <2>2, HandlesFinite, FS_EmptySet
<1>2. TypeOK'
  BY DEF IInv, TypeOK, TakeDropped, Places, pcvars
<1>3. CountIsHandles'
  BY CountKept DEF TakeDropped
<1>4. \A h \in Handles : ~Free(h) => refers[h] \notin Listed
  BY <1>1 DEF HandlesTo
<1>5. HandleKeepsEntity'
  BY <1>4, NoneAssumption DEF TakeDropped, IInv, HandleKeepsEntity, Free, TypeOK
<1>6. UnreferencedListedOnce'
  BY DEF TakeDropped, IInv, UnreferencedListedOnce, Listed, Unreferenced, WriteLockFree, Idle, TypeOK, pcvars
<1>7. TablesAgree'
  BY DEF TakeDropped, IInv, TablesAgree, TypeOK
<1>8. BusyTargetCounted'
  BY DEF TakeDropped, WriteLockFree, BusyTargetCounted, Idle, pcvars
<1> QED
  BY <1>2, <1>3, <1>5, <1>6, <1>7, <1>8 DEF IInv

LEMMA MoveIInv ==
  ASSUME IInv, NEW t \in Threads, NEW h \in Handles, NEW o \in Owners, Move(t, h, o)
  PROVE  IInv'
BY PlaceIInv DEF Move, IInv, TypeOK

\* Clone and the successful exchange of an upgrade: one more handle to an
\* entity whose count is not zero.
LEMMA AddHandleIInv ==
  ASSUME IInv, NEW t \in Threads, NEW g \in Handles, NEW e \in Ids,
         e \in counted, count[e] # 0, Free(g), AddHandle(t, g, e),
         UNCHANGED <<counted, droppedIds, value, target, loaded>>,
         pc' \in [Threads -> {"idle", "upgrading", "last"}],
         \A u \in Threads : \/ pc'[u] = pc[u]
                            \/ pc[u] = "upgrading" /\ pc'[u] = "idle"
  PROVE  IInv'
<1>1. TypeOK'
  BY DEF IInv, TypeOK, AddHandle, Owners
<1>2. CountIsHandles'
  <2>1. /\ Cardinality(HandlesTo(e)') = Cardinality(HandlesTo(e)) + 1
        /\ \A x \in Ids : x # e => HandlesTo(x)' = HandlesTo(x)
    BY HandleAdded DEF AddHandle, IInv
  <2> QED
    BY <2>1 DEF AddHandle, IInv, CountIsHandles, TypeOK
<1>3. HandleKeepsEntity'
  BY DEF AddHandle, IInv, HandleKeepsEntity, TablesAgree, Free, TypeOK
<1>4. UnreferencedListedOnce'
  <2>1. \A x \in Ids : Unreferenced(x)' <=> Unreferenced(x)
    BY DEF Unreferenced, AddHandle, IInv, TypeOK
  <2>2. \A u \in Threads : pc'[u] = "last" <=> pc[u] = "last"
    OBVIOUS
  <2>3. Listed' = Listed
    BY DEF Listed
  <2>4. \A u \in Threads : pc'[u] = "last" => target'[u] \in Ids /\ target'[u] # e /\ Unreferenced(target'[u])
    BY <2>2 DEF IInv, UnreferencedListedOnce, Unreferenced, TypeOK
  <2>5. \A u \in Threads : pc'[u] = "last" => Unreferenced(target[u])'
    BY <2>4 DEF Unreferenced, AddHandle, IInv, TypeOK
  <2>6. \A x \in Listed' : Unreferenced(x)'
    BY <2>1, <2>3 DEF IInv, UnreferencedListedOnce, Unreferenced, TypeOK
  <2> QED
    BY <2>1, <2>2, <2>3, <2>5, <2>6 DEF IInv, UnreferencedListedOnce
<1>5. TablesAgree' /\ BusyTargetCounted'
  BY DEF IInv, TablesAgree, BusyTargetCounted, Idle
<1> QED
  BY <1>1, <1>2, <1>3, <1>4, <1>5 DEF IInv

LEMMA ReferencedCount ==
  ASSUME IInv, NEW h \in Handles, ~Free(h)
  PROVE  refers[h] \in Ids /\ refers[h] \in counted /\ count[refers[h]] # 0
<1> DEFINE e == refers[h]
<1>1. e \in Ids /\ e \in counted /\ h \in HandlesTo(e)
  BY DEF IInv, TypeOK, HandleKeepsEntity, Free, HandlesTo
<1>2. Cardinality(HandlesTo(e)) # 0
  BY <1>1, HandlesFinite, FS_EmptySet
<1> QED
  BY <1>1, <1>2 DEF IInv, CountIsHandles

LEMMA CloneIInv ==
  ASSUME IInv, NEW t \in Threads, NEW h \in Handles, NEW g \in Handles, Clone(t, h, g)
  PROVE  IInv'
<1> DEFINE e == refers[h]
<1>1. e \in Ids /\ e \in counted /\ count[e] # 0
  BY ReferencedCount DEF Clone, Reaches
<1>2. AddHandle(t, g, e) /\ Free(g)
  BY DEF Clone
<1>3. UNCHANGED <<counted, droppedIds, value, target, loaded, pc>>
  BY DEF Clone, pcvars
<1> HIDE DEF e
<1> QED
  BY <1>1, <1>2, <1>3, AddHandleIInv DEF IInv, TypeOK

LEMMA DropIInv ==
  ASSUME IInv, NEW t \in Threads, NEW h \in Handles, Drop(t, h)
  PROVE  IInv'
<1>0. ~Free(h)
  BY DEF Drop, Reaches
<1>5. PICK e \in Ids : refers[h] = e
  BY <1>0 DEF IInv, TypeOK, Free
<1>1. e \in counted /\ count[e] # 0 /\ count[e] \in Nat
  BY <1>0, <1>5, ReferencedCount DEF IInv, TypeOK
<1>2. /\ refers' = [refers EXCEPT ![h] = None]
      /\ count' = [count EXCEPT ![e] = @ - 1]
      /\ UNCHANGED <<owner, counted, droppedIds, value, loaded>>
  BY <1>5 DEF Drop
<1>3. /\ pc[t] = "idle"
      /\ \A u \in Threads : pc[u] # "last"
  BY DEF Drop, Idle
<1>4. IF count[e] = 1
      THEN pc' = [pc EXCEPT ![t] = "last"] /\ target' = [target EXCEPT ![t] = e]
      ELSE UNCHANGED <<pc, target>>
  BY <1>5 DEF Drop
<1>6. TypeOK'
  <2>1. count[e] - 1 \in Nat
    BY <1>1
  <2>2. refers' \in [Handles -> Ids \cup {None}] /\ count' \in [Ids -> Nat]
    BY <1>2, <2>1 DEF IInv, TypeOK
  <2>3. pc' \in [Threads -> {"idle", "upgrading", "last"}] /\ target' \in [Threads -> Ids \cup {None}]
    BY <1>4 DEF IInv, TypeOK
  <2> QED
    BY <1>2, <2>2, <2>3 DEF IInv, TypeOK
<1>7. CountIsHandles'
  <2>1. /\ Cardinality(HandlesTo(e)') = Cardinality(HandlesTo(e)) - 1
        /\ \A x \in Ids : x # e => HandlesTo(x)' = HandlesTo(x)
    BY <1>1, <1>2, <1>5, HandleRemoved DEF IInv
  <2> QED
    BY <2>1, <1>1, <1>2 DEF IInv, CountIsHandles, TypeOK
<1>8. HandleKeepsEntity' /\ TablesAgree'
  BY <1>2, NoneAssumption DEF IInv, HandleKeepsEntity, TablesAgree, Free, TypeOK
<1>9. BusyTargetCounted'
  BY <1>1, <1>2, <1>4 DEF IInv, BusyTargetCounted, Idle, TypeOK
<1>10. UnreferencedListedOnce'
  <2>1. Listed' = Listed
    BY <1>2 DEF Listed
  <2>2. e \notin Listed
    BY <1>1 DEF IInv, UnreferencedListedOnce, Unreferenced
  <2>3. \A x \in Listed : Unreferenced(x)'
    BY <1>1, <1>2, <2>2 DEF IInv, UnreferencedListedOnce, Unreferenced, TypeOK
  <2>4. CASE count[e] = 1
    <3>1. pc'[t] = "last" /\ target'[t] = e /\ \A u \in Threads \ {t} : pc'[u] # "last"
      BY <1>3, <1>4, <2>4 DEF IInv, TypeOK
    <3>2. \A u \in Threads : pc'[u] = "last" => u = t
      BY <3>1
    <3>3. \A x \in Ids : Unreferenced(x)' => x = e \/ Unreferenced(x)
      BY <1>1, <1>2 DEF Unreferenced, IInv, TypeOK
    <3>4. \A x \in Ids : Unreferenced(x)' => x \in Listed \/ x = e
      BY <3>3, <1>3 DEF IInv, UnreferencedListedOnce
    <3>5. count'[e] = 0 /\ e \in counted'
      BY <1>1, <1>2, <2>4 DEF IInv, TypeOK
    <3>6. \A u \in Threads : pc'[u] = "last" => Unreferenced(target[u])'
      BY <3>1, <3>2, <3>5 DEF Unreferenced
    <3>7. \A i, j \in 1 .. Len(droppedIds') : droppedIds'[i] = droppedIds'[j] => i = j
      BY <1>2 DEF IInv, UnreferencedListedOnce
    <3> QED
      BY <2>1, <2>2, <2>3, <3>1, <3>2, <3>4, <3>6, <3>7 DEF UnreferencedListedOnce
  <2>5. CASE count[e] # 1
    <3>1. \A x \in Ids : Unreferenced(x)' <=> Unreferenced(x)
      BY <1>1, <1>2, <2>5 DEF Unreferenced, IInv, TypeOK
    <3> QED
      BY <3>1, <1>2, <1>4, <2>5, ListKept
  <2> QED
    BY <2>4, <2>5
<1> QED
  BY <1>6, <1>7, <1>8, <1>9, <1>10 DEF IInv

LEMMA ListDroppedIInv ==
  ASSUME IInv, NEW t \in Threads, ListDropped(t)
  PROVE  IInv'
<1> DEFINE e == target[t]
<1>1. /\ pc[t] = "last" /\ \A u \in Threads \ {t} : pc[u] = "idle"
      /\ droppedIds' = Append(droppedIds, e)
      /\ pc' = [pc EXCEPT ![t] = "idle"]
      /\ UNCHANGED <<refers, owner, counted, count, value, target, loaded>>
  BY DEF ListDropped, Idle
<1>2. e \in Ids /\ Unreferenced(e) /\ e \notin Listed
  BY <1>1 DEF IInv, UnreferencedListedOnce, Unreferenced, TypeOK
<1> HIDE DEF e
<1>3. TypeOK'
  BY <1>1, <1>2 DEF IInv, TypeOK
<1>4. CountIsHandles' /\ HandleKeepsEntity' /\ TablesAgree' /\ BusyTargetCounted'
  BY <1>1, CountKept DEF IInv, HandleKeepsEntity, TablesAgree, BusyTargetCounted, Free, Idle, TypeOK
<1>5. UnreferencedListedOnce'
  <2>1. /\ Len(droppedIds') = Len(droppedIds) + 1
        /\ \A i \in 1 .. Len(droppedIds) : droppedIds'[i] = droppedIds[i]
        /\ droppedIds'[Len(droppedIds')] = e
        /\ Len(droppedIds) \in Nat
    BY <1>1, <1>2 DEF IInv, TypeOK
  <2>2. Listed' = Listed \cup {e}
    BY <2>1 DEF Listed
  <2>3. \A x \in Ids : Unreferenced(x)' <=> Unreferenced(x)
    BY <1>1 DEF Unreferenced
  <2>4. \A u \in Threads : pc'[u] # "last"
    BY <1>1 DEF IInv, TypeOK
  <2>5. \A i, j \in 1 .. Len(droppedIds') : droppedIds'[i] = droppedIds'[j] => i = j
    <3>1. \A i \in 1 .. Len(droppedIds) : droppedIds[i] # e
      BY <1>2 DEF Listed
    <3> QED
      BY <2>1, <3>1 DEF IInv, UnreferencedListedOnce
  <2>6. \A x \in Listed' : Unreferenced(x)'
    BY <1>2, <2>2, <2>3 DEF IInv, UnreferencedListedOnce, Unreferenced, TypeOK
  <2>7. \A x \in Ids : Unreferenced(x) => x \in Listed \/ x = e
    BY <1>1 DEF IInv, UnreferencedListedOnce, e
  <2> QED
    BY <2>2, <2>3, <2>4, <2>5, <2>6, <2>7 DEF UnreferencedListedOnce
<1> QED
  BY <1>3, <1>4, <1>5 DEF IInv

LEMMA UpgradeIInv ==
  ASSUME IInv, NEW t \in Threads, UpgradeStep(t)
  PROVE  IInv'
<1>1. ASSUME NEW e \in Ids, UpgradeLoad(t, e)
      PROVE  IInv'
  <2>1. TypeOK'
    BY <1>1 DEF UpgradeLoad, IInv, TypeOK, refvars
  <2>2. CountIsHandles' /\ HandleKeepsEntity' /\ TablesAgree' /\ BusyTargetCounted'
    BY <1>1, CountKept DEF UpgradeLoad, IInv, HandleKeepsEntity, TablesAgree, BusyTargetCounted,
       Free, Idle, TypeOK, refvars
  <2>3. UnreferencedListedOnce'
    BY <1>1 DEF UpgradeLoad, IInv, UnreferencedListedOnce, Unreferenced, Listed, Idle, TypeOK, refvars
  <2> QED
    BY <2>1, <2>2, <2>3 DEF IInv
<1>2. ASSUME NEW g \in Handles, UpgradeExchange(t, g)
      PROVE  IInv'
  <2>1. PICK e \in Ids : e = target[t]
    BY <1>2 DEF UpgradeExchange, IInv, BusyTargetCounted, Idle, TypeOK
  <2>2. e \in counted /\ count[e] # 0
    BY <1>2, <2>1 DEF UpgradeExchange, IInv, BusyTargetCounted, Idle
  <2>3. AddHandle(t, g, e) /\ Free(g)
    BY <1>2, <2>1 DEF UpgradeExchange
  <2>4. /\ pc[t] = "upgrading" /\ pc' = [pc EXCEPT ![t] = "idle"]
        /\ UNCHANGED <<counted, droppedIds, value, target, loaded>>
    BY <1>2 DEF UpgradeExchange
  <2> QED
    BY <2>2, <2>3, <2>4, AddHandleIInv DEF IInv, TypeOK
<1>3. CASE UpgradeRetry(t)
  <2>1. TypeOK'
    BY <1>3 DEF UpgradeRetry, IInv, BusyTargetCounted, Idle, TypeOK, refvars
  <2>2. CountIsHandles' /\ HandleKeepsEntity' /\ TablesAgree' /\ BusyTargetCounted'
    BY <1>3, CountKept DEF UpgradeRetry, IInv, HandleKeepsEntity, TablesAgree, BusyTargetCounted,
       Free, Idle, TypeOK, refvars
  <2>3. UnreferencedListedOnce'
    <3>1. \A u \in Threads : pc'[u] = "last" <=> pc[u] = "last"
      BY <1>3 DEF UpgradeRetry, IInv, TypeOK
    <3>2. UNCHANGED <<counted, count, droppedIds, target>>
      BY <1>3 DEF UpgradeRetry, refvars
    <3> QED
      BY <3>1, <3>2 DEF IInv, UnreferencedListedOnce, Unreferenced, Listed
  <2> QED
    BY <2>1, <2>2, <2>3 DEF IInv
<1> QED
  BY <1>1, <1>2, <1>3 DEF UpgradeStep

\* Every step preserves the invariant.
LEMMA NextIInv == IInv /\ [Next]_vars => IInv'
<1> SUFFICES ASSUME IInv, [Next]_vars PROVE IInv'
  OBVIOUS
<1>1. CASE AppStep
  BY <1>1, ReserveIInv, HandlePlaceIInv, ValuePlaceIInv, TakeDroppedIInv DEF AppStep
<1>2. ASSUME NEW t \in Threads, HandleStep(t) PROVE IInv'
  BY <1>2, DropIInv, MoveIInv, CloneIInv, ListDroppedIInv DEF HandleStep
<1>3. ASSUME NEW t \in Threads, UpgradeStep(t) PROVE IInv'
  BY <1>3, UpgradeIInv
<1>4. CASE UNCHANGED vars
  BY <1>4, PlaceIInv DEF vars, refvars, IInv, TypeOK
<1> QED
  BY <1>1, <1>2, <1>3, <1>4 DEF Next

------------------------------------------------------------------------------
(***************************************************************************)
(* Safety.                                                                 *)
(***************************************************************************)

\* The inductive invariant holds in every reachable state.
THEOREM Invariance == Spec => []IInv
BY InitIInv, NextIInv, PTL DEF Spec

\* Types, whatever the threads interleave; in particular no counter is ever
\* taken below zero.
THEOREM TypeCorrect == Spec => []TypeOK
BY Invariance, PTL DEF IInv

\* A counter is the number of strong handles.
THEOREM CountsAreHandles == Spec => []CountIsHandles
BY Invariance, PTL DEF IInv

\* A strong handle keeps its entity counted and its value in the App.
THEOREM HandlesKeepEntities == Spec => []HandleKeepsEntity
BY Invariance, PTL DEF IInv

\* An unreferenced entity is listed for release exactly once.
THEOREM ListedOnce == Spec => []UnreferencedListedOnce
BY Invariance, PTL DEF IInv

\* Values and counters agree on which entities exist.
THEOREM TablesAlwaysAgree == Spec => []TablesAgree
BY Invariance, PTL DEF IInv

------------------------------------------------------------------------------
(***************************************************************************)
(* EntityMap implements SharedOwnership.                                   *)
(***************************************************************************)
Refs   == [e \in Ids |-> HandlesTo(e)]
States == [e \in Ids |-> IF value[e] = "unborn" THEN "unborn"
                        ELSE IF e \in counted THEN "alive"
                        ELSE "released"]

LEMMA InitPromise == Init => Promise!Init
<1> SUFFICES ASSUME Init PROVE Promise!Init
  OBVIOUS
<1>1. \A e \in Ids : HandlesTo(e) = {}
  BY NoneAssumption DEF Init, HandlesTo
<1> QED
  BY <1>1 DEF Init, Promise!Init

\* Steps that touch neither handles nor the release of entities stutter.
LEMMA StutterPromise ==
  ASSUME IInv, UNCHANGED <<refers, counted>>,
         \A e \in Ids : value'[e] = "unborn" <=> value[e] = "unborn"
  PROVE  UNCHANGED Promise!ovars
<1>1. Refs' = Refs
  BY DEF Refs, HandlesTo
<1>2. States' = States
  BY DEF States
<1> QED
  BY <1>1, <1>2 DEF Promise!ovars, Refs, States

\* A handle that does not exist yet is nobody's.
LEMMA FreeIsFresh ==
  ASSUME NEW h \in Handles, Free(h)
  PROVE  Promise!Fresh(h)
BY NoneAssumption DEF Promise!Fresh, HandlesTo, Free

LEMMA ReservePromise ==
  ASSUME IInv, NEW e \in Ids, NEW h \in Handles, Reserve(e, h)
  PROVE  Promise!Create(e, h)
<1>1. e \notin counted /\ HandlesTo(e) = {}
  BY NoneAssumption DEF IInv, Reserve, TablesAgree, HandleKeepsEntity, HandlesTo, Free
<1>2. TypeOK /\ Free(h) /\ refers' = [refers EXCEPT ![h] = e]
  BY DEF IInv, Reserve
<1>3. Refs' = [Refs EXCEPT ![e] = {h}]
  <2>1. HandlesTo(e)' = {h} /\ \A x \in Ids : x # e => HandlesTo(x)' = HandlesTo(x)
    <3>1. /\ HandlesTo(e)' = HandlesTo(e) \cup {h}
          /\ \A x \in Ids : x # e => HandlesTo(x)' = HandlesTo(x)
      BY <1>2, HandleAdded
    <3> QED
      BY <1>1, <3>1
  <2> QED
    BY <2>1 DEF Refs
<1>4. States' = [States EXCEPT ![e] = "alive"] /\ States[e] = "unborn"
  BY DEF Reserve, IInv, TypeOK, States
<1> QED
  BY <1>2, <1>3, <1>4, FreeIsFresh DEF Promise!Create, Refs, States

LEMMA AddHandlePromise ==
  ASSUME IInv, NEW t \in Threads, NEW g \in Handles, NEW e \in Ids,
         Free(g), AddHandle(t, g, e), UNCHANGED <<counted, value>>,
         e \in counted, count[e] # 0
  PROVE  Promise!Share(e, g)
<1>1. HandlesTo(e) # {}
  BY FS_EmptySet DEF IInv, CountIsHandles
<1>2. TypeOK /\ refers' = [refers EXCEPT ![g] = e]
  BY DEF IInv, AddHandle
<1>3. Refs' = [Refs EXCEPT ![e] = @ \cup {g}]
  BY <1>2, HandleAdded DEF Refs
<1>4. States' = States
  BY DEF States
<1> QED
  BY <1>1, <1>3, <1>4, FreeIsFresh DEF Promise!Share, Refs, States

LEMMA DropPromise ==
  ASSUME IInv, NEW t \in Threads, NEW h \in Handles, Drop(t, h)
  PROVE  \E e \in Ids : Promise!Forget(e, h)
<1>1. PICK e \in Ids : refers[h] = e
  BY DEF Drop, Reaches, IInv, TypeOK, Free
<1>2. TypeOK /\ refers' = [refers EXCEPT ![h] = None] /\ UNCHANGED <<counted, value>>
  BY DEF IInv, Drop
<1>3. Refs' = [Refs EXCEPT ![e] = @ \ {h}] /\ h \in Refs[e]
  BY <1>1, <1>2, HandleRemoved DEF Refs
<1>4. States' = States
  BY <1>2 DEF States
<1> QED
  BY <1>3, <1>4 DEF Promise!Forget, Refs, States

LEMMA TakeDroppedPromise ==
  ASSUME IInv, TakeDropped
  PROVE  \E S \in SUBSET Ids : Promise!Release(S)
<1>1. \A e \in Listed : e \in Ids /\ e \in counted /\ count[e] = 0
  BY DEF IInv, UnreferencedListedOnce, Unreferenced, TypeOK
<1>2. \A e \in Listed : Refs[e] = {}
  <2> SUFFICES ASSUME NEW e \in Listed PROVE HandlesTo(e) = {}
    BY <1>1 DEF Refs
  <2>1. Cardinality(HandlesTo(e)) = 0
    BY <1>1 DEF IInv, CountIsHandles
  <2> QED
    BY <2>1, HandlesFinite, FS_EmptySet
<1>3. \A e \in Listed : States[e] = "alive"
  BY <1>1 DEF States, IInv, TablesAgree
<1>4. Refs' = Refs
  BY DEF Refs, HandlesTo, TakeDropped
<1>5. States' = [e \in Ids |-> IF e \in Listed THEN "released" ELSE States[e]]
  BY <1>1 DEF States, TakeDropped, IInv, TablesAgree, TypeOK
<1>6. PICK S \in SUBSET Ids : S = Listed
  BY <1>1
<1>7. Promise!Release(S)
  BY <1>2, <1>3, <1>4, <1>5, <1>6 DEF Promise!Release, Refs, States
<1> QED
  BY <1>7

\* Every step is a step of SharedOwnership or leaves it unchanged.
LEMMA NextPromise == IInv /\ [Next]_vars => [Promise!Next]_(Promise!ovars)
<1> SUFFICES ASSUME IInv, [Next]_vars PROVE [Promise!Next]_(Promise!ovars)
  OBVIOUS
<1>1. ASSUME NEW e \in Ids, NEW h \in Handles, Reserve(e, h) PROVE Promise!Next
  BY <1>1, ReservePromise DEF Promise!Next
<1>2. CASE TakeDropped
  BY <1>2, TakeDroppedPromise DEF Promise!Next
<1>3. ASSUME NEW h \in Handles, Insert(h) \/ LeaseEntity(h) PROVE UNCHANGED Promise!ovars
  <2>1. refers[h] \in Ids /\ value[refers[h]] \in {"slot", "map", "lease"}
    BY <1>3 DEF Insert, LeaseEntity, Reaches, Free, IInv, TypeOK, HandleKeepsEntity
  <2> QED
    BY <1>3, <2>1, StutterPromise DEF Insert, LeaseEntity, refvars, IInv, TypeOK
<1>4. ASSUME NEW e \in Ids, EndLease(e) \/ FinishRelease(e) PROVE UNCHANGED Promise!ovars
  BY <1>4, StutterPromise DEF EndLease, FinishRelease, refvars, IInv, TypeOK
<1>5. ASSUME NEW t \in Threads, NEW h \in Handles, Drop(t, h) PROVE Promise!Next
  BY <1>5, DropPromise DEF Promise!Next
<1>6. ASSUME NEW t \in Threads, NEW h \in Handles, NEW g \in Handles, Clone(t, h, g)
      PROVE  Promise!Next
  <2>1. PICK e \in Ids : e = refers[h]
    BY <1>6, ReferencedCount DEF Clone, Reaches
  <2>2. /\ e \in counted /\ count[e] # 0 /\ Free(g)
        /\ AddHandle(t, g, e) /\ UNCHANGED <<counted, value>>
    BY <1>6, <2>1, ReferencedCount DEF Clone, Reaches
  <2> QED
    BY <2>2, AddHandlePromise DEF Promise!Next
<1>7. ASSUME NEW t \in Threads, NEW g \in Handles, UpgradeExchange(t, g) PROVE Promise!Next
  <2>1. PICK e \in Ids : e = target[t]
    BY <1>7 DEF UpgradeExchange, IInv, BusyTargetCounted, Idle, TypeOK
  <2>2. /\ e \in counted /\ count[e] # 0 /\ Free(g)
        /\ AddHandle(t, g, e) /\ UNCHANGED <<counted, value>>
    BY <1>7, <2>1 DEF UpgradeExchange, IInv, BusyTargetCounted, Idle
  <2> QED
    BY <2>2, AddHandlePromise DEF Promise!Next
<1>8. ASSUME NEW t \in Threads,
             \/ \E h \in Handles, o \in Owners : Move(t, h, o)
             \/ ListDropped(t)
             \/ \E e \in Ids : UpgradeLoad(t, e)
             \/ UpgradeRetry(t)
      PROVE  UNCHANGED Promise!ovars
  BY <1>8, StutterPromise DEF Move, ListDropped, UpgradeLoad, UpgradeRetry, refvars
<1>9. CASE UNCHANGED vars
  BY <1>9, StutterPromise DEF vars, refvars
<1> QED
  BY <1>1, <1>2, <1>3, <1>4, <1>5, <1>6, <1>7, <1>8, <1>9 DEF Next, AppStep, HandleStep, UpgradeStep

\* Handles, on any number of threads with weak upgrades racing the last drop,
\* are shared ownership: an entity is released once, unreferenced, for good.
THEOREM ImplementsSharedOwnership == Spec => KeepsPromise
<1>1. Init => Promise!Init
  BY InitPromise
<1>2. IInv /\ [Next]_vars => [Promise!Next]_(Promise!ovars)
  BY NextPromise
<1> QED
  BY <1>1, <1>2, Invariance, PTL DEF Spec, KeepsPromise, Promise!Spec
=============================================================================
