-------------------------- MODULE SubscriberSetProofs --------------------------
(***************************************************************************)
(* Proofs about SubscriberSet, for any keys, any number of subscriptions   *)
(* and any nesting of passes of any kind: a subscriber always has exactly  *)
(* one owner, none is lost, and a step of the set is a step that           *)
(* Subscriptions allows, or one its users do not see.                      *)
(***************************************************************************)
EXTENDS SubscriberSet, SequenceTheorems, TLAPS

\* remove hands its subscribers out for good.
RemoveKeepsNone == \A j \in 1 .. Depth : stack[j].op = "remove" => stack[j].kept = {}

\* The inductive invariant.
IInv == TypeOK /\ OneOwner /\ NoSubscriberLost /\ RemoveKeepsNone

------------------------------------------------------------------------------
(***************************************************************************)
(* The three ways in which a step changes the stack.                       *)
(***************************************************************************)
LEMMA TopFrame ==
  ASSUME TypeOK, stack # <<>>
  PROVE  Depth \in 1 .. Depth /\ Depth \in Nat /\ Top \in Frame
BY LenProperties, EmptySeq, ElementOfSeq DEF TypeOK, Depth, Top

LEMMA DepthBound ==
  ASSUME TypeOK
  PROVE  Depth \in Nat /\ Depth <= MaxDepth
BY LenProperties DEF TypeOK, Depth

LEMMA Pushed ==
  ASSUME TypeOK, NEW f \in Frame, stack' = Append(stack, f)
  PROVE  /\ stack' \in Seq(Frame)
         /\ Depth \in Nat /\ Depth' = Depth + 1
         /\ \A j \in 1 .. Depth : stack'[j] = stack[j]
         /\ stack'[Depth + 1] = f
BY AppendProperties, LenProperties DEF TypeOK, Depth

LEMMA Replaced ==
  ASSUME TypeOK, stack # <<>>, NEW f \in Frame, ReplaceTop(f)
  PROVE  /\ stack' \in Seq(Frame)
         /\ Depth' = Depth
         /\ \A j \in 1 .. Depth : stack'[j] = IF j = Depth THEN f ELSE stack[j]
BY TopFrame, ExceptSeq DEF TypeOK, Depth, ReplaceTop

LEMMA Popped ==
  ASSUME TypeOK, stack # <<>>, stack' = SubSeq(stack, 1, Depth - 1)
  PROVE  /\ stack' \in Seq(Frame)
         /\ Depth \in Nat /\ Depth' = Depth - 1
         /\ \A j \in 1 .. Depth - 1 : stack'[j] = stack[j]
<1> DEFINE n == Depth - 1
<1>1. n \in Nat /\ Depth = n + 1
  BY TopFrame
<1>2. \A i \in 1 .. n : stack[i] \in Frame
  BY <1>1, ElementOfSeq DEF TypeOK, Depth
<1>3. stack' = SubSeq(stack, 1, n)
  OBVIOUS
<1> HIDE DEF n
<1>4. /\ stack' \in Seq(Frame)
      /\ Len(stack') = n
      /\ \A j \in 1 .. n : stack'[j] = stack[j]
  BY <1>1, <1>2, <1>3, SubSeqProperties
<1> QED
  BY <1>1, <1>4 DEF n, Depth

------------------------------------------------------------------------------
(***************************************************************************)
(* Types.                                                                  *)
(***************************************************************************)
\* A step of a pass replaces its frame by one of the right type.
LEMMA FrameTypes ==
  ASSUME TypeOK, stack # <<>>, NEW i \in Ids, NEW S, S \subseteq Ids
  PROVE  /\ [Top EXCEPT !.rest = @ \ {i}] \in Frame
         /\ [Top EXCEPT !.rest = @ \ {i}, !.kept = @ \cup {i}] \in Frame
         /\ [Top EXCEPT !.rest = @ \ {i}, !.cur = i, !.called = @ \cup {i}] \in Frame
         /\ [Top EXCEPT !.cur = NoId, !.kept = S] \in Frame
         /\ [Top EXCEPT !.cur = NoId] \in Frame
<1>1. Top \in Frame
  BY TopFrame
<1> QED
  BY <1>1 DEF Frame

LEMMA InitTypeOK == Init => TypeOK
BY BoundsAssumption, EmptySeq DEF Init, TypeOK, Ids, Depth

LEMMA NewFrameType ==
  ASSUME TypeOK, NEW k \in Keys, NEW op \in {"retain", "remove"}
  PROVE  NewFrame(op, k) \in Frame
BY BoundsAssumption DEF NewFrame, Frame, TypeOK, Ids, Born

\* Every step keeps the types.
LEMMA NextTypeOK == TypeOK /\ [Next]_vars => TypeOK'
<1> SUFFICES ASSUME TypeOK, [Next]_vars PROVE TypeOK'
  OBVIOUS
<1> USE BoundsAssumption
<1>1. ASSUME NEW k \in Keys, AddSubscriber(k), next' = next + 1,
             active' = active \/ active' = active \cup {next}
      PROVE  TypeOK'
  <2>1. next \in Ids /\ next' \in 0 .. MaxId
    BY <1>1 DEF AddSubscriber, TypeOK, Ids
  <2>2. keyOf' \in [0 .. next' - 1 -> Keys]
    BY <1>1, <2>1 DEF AddSubscriber, TypeOK, Ids
  <2> QED
    BY <1>1, <2>1, <2>2 DEF AddSubscriber, TypeOK, Depth, Ids
<1>2. ASSUME NEW i \in Ids, Activate(i) PROVE TypeOK'
  BY <1>2 DEF Activate, TypeOK, Depth, Ids
<1>3. ASSUME NEW h \in handles, Unsubscribe(h) \/ Detach(h) PROVE TypeOK'
  BY <1>3 DEF Unsubscribe, Cancel, Detach, TypeOK, Depth, Ids
<1>4. ASSUME NEW a \in handles, NEW b \in handles, Join(a, b) PROVE TypeOK'
  <2>1. a \in SUBSET Ids /\ b \in SUBSET Ids
    BY DEF TypeOK
  <2>2. handles' \subseteq SUBSET Ids
    BY <1>4, <2>1 DEF Join, TypeOK
  <2> QED
    BY <1>4, <2>2 DEF Join, TypeOK, Depth
<1>5. ASSUME NEW k \in Keys, NEW op \in {"retain", "remove"}, Begin(op, k) PROVE TypeOK'
  <2>1. stack' = Append(stack, NewFrame(op, k)) /\ Depth < MaxDepth
    BY <1>5 DEF Begin, StartPass
  <2>2. stack' \in Seq(Frame) /\ Depth \in Nat /\ Depth' = Depth + 1
    BY <2>1, Pushed, NewFrameType
  <2>3. Depth' <= MaxDepth
    BY <2>1, <2>2
  <2> QED
    BY <1>5, <2>2, <2>3 DEF Begin, StartPass, TypeOK, Depth, Ids
<1>6. ASSUME NEW k \in Keys, Discard({k}) PROVE TypeOK'
  <2>1. UNION {stored[j] : j \in {k}} = stored[k]
    OBVIOUS
  <2>2. ended' \subseteq Ids
    BY <1>6, <2>1 DEF Discard, TypeOK
  <2>3. stored' \in [Keys -> SUBSET Ids]
    BY <1>6 DEF Discard, TypeOK
  <2> QED
    BY <1>6, <2>2, <2>3 DEF Discard, TypeOK
<1>7. ASSUME stack # <<>>, NEW f \in Frame, ReplaceTop(f), ended' \subseteq Ids,
             UNCHANGED <<next, keyOf, stored, active, dropped, handles>>
      PROVE  TypeOK'
  <2>1. stack' \in Seq(Frame) /\ Depth' <= MaxDepth
    BY <1>7, Replaced, DepthBound
  <2> QED
    BY <1>7, <2>1 DEF TypeOK, Depth, Ids
<1>8. ASSUME \/ RetainSkip \/ RetainDiscard \/ RetainDecline \/ RetainCall
             \/ RemoveSkip \/ RemoveCall
      PROVE  TypeOK'
  <2>1. PICK i \in Ids : /\ stack # <<>> /\ ended' \subseteq Ids
                         /\ UNCHANGED <<next, keyOf, stored, active, dropped, handles>>
                         /\ \/ ReplaceTop([Top EXCEPT !.rest = @ \ {i}])
                            \/ ReplaceTop([Top EXCEPT !.rest = @ \ {i}, !.kept = @ \cup {i}])
                            \/ Call(i)
    BY <1>8 DEF RetainSkip, RetainDiscard, RetainDecline, RetainCall, RemoveSkip, RemoveCall,
                Visit, Scanning, TypeOK
  <2> QED
    BY <1>7, <2>1, FrameTypes DEF Call
<1>9. ASSUME NEW keep \in BOOLEAN, RetainReturn(keep) PROVE TypeOK'
  <2>1. Top \in Frame /\ Top.cur \in Ids
    BY <1>9, TopFrame DEF RetainReturn, Frame
  <2> DEFINE S == IF keep /\ Top.cur \notin dropped THEN Top.kept \cup {Top.cur} ELSE Top.kept
  <2>2. S \subseteq Ids /\ ended' \subseteq Ids
    BY <1>9, <2>1 DEF RetainReturn, Frame, TypeOK
  <2>3. ReplaceTop([Top EXCEPT !.cur = NoId, !.kept = S])
    BY <1>9 DEF RetainReturn
  <2>4. [Top EXCEPT !.cur = NoId, !.kept = S] \in Frame
    BY <1>9, <2>1, <2>2, FrameTypes DEF RetainReturn
  <2> QED
    BY <1>7, <1>9, <2>2, <2>3, <2>4 DEF RetainReturn
<1>10. ASSUME RemoveReturn PROVE TypeOK'
  <2>1. Top \in Frame /\ Top.cur \in Ids
    BY <1>10, TopFrame DEF RemoveReturn, Frame
  <2>2. [Top EXCEPT !.cur = NoId] \in Frame /\ ended' \subseteq Ids
    BY <1>10, <2>1, FrameTypes DEF RemoveReturn, TypeOK
  <2> QED
    BY <1>7, <1>10, <2>2 DEF RemoveReturn
<1>11. ASSUME RetainEnd \/ RemoveEnd PROVE TypeOK'
  <2>1. stack # <<>> /\ stack' = SubSeq(stack, 1, Depth - 1)
    BY <1>11 DEF RetainEnd, RemoveEnd, LeavePass, Scanning
  <2>2. stack' \in Seq(Frame) /\ Depth' <= MaxDepth
    BY <2>1, Popped, DepthBound
  <2>3. Top.key \in Keys /\ Top.kept \subseteq Ids
    BY <2>1, TopFrame DEF Frame
  <2> QED
    BY <1>11, <2>2, <2>3 DEF RetainEnd, RemoveEnd, LeavePass, TypeOK, Depth, Ids
<1>12. CASE UNCHANGED vars
  BY <1>12 DEF vars, TypeOK, Depth
<1> QED
  BY <1>1, <1>2, <1>3, <1>4, <1>5, <1>6, <1>8, <1>9, <1>10, <1>11, <1>12
  DEF Next, Insert, InsertActive, NewSubscriber, RetainBegin, RemoveBegin

------------------------------------------------------------------------------
(***************************************************************************)
(* Ownership.  A step leaves the stack alone, pushes a frame, replaces the *)
(* top one or pops it; one lemma for each.                                 *)
(***************************************************************************)
Owned == OneOwner /\ NoSubscriberLost /\ RemoveKeepsNone

LEMMA OwnedTypes ==
  ASSUME TypeOK, NEW j \in 1 .. Depth
  PROVE  stack[j] \in Frame /\ stack[j].key \in Keys /\ Holds(stack[j]) \subseteq Ids
<1>1. stack[j] \in Frame
  BY ElementOfSeq DEF TypeOK, Depth
<1> QED
  BY <1>1 DEF Frame, Holds

\* The map gives up subscribers that were cancelled or discarded.
LEMMA MapShrinks ==
  ASSUME TypeOK, Owned, UNCHANGED <<next, keyOf, stack>>,
         \A k \in Keys : stored'[k] \subseteq stored[k],
         dropped \subseteq dropped', ended \subseteq ended',
         \A k \in Keys : stored[k] \ stored'[k] \subseteq dropped' \cup ended'
  PROVE  Owned'
<1>1. OneOwner'
  <2>1. \A j \in 1 .. Depth : stack[j].key \in Keys
    BY OwnedTypes
  <2> QED
    BY <2>1 DEF Owned, OneOwner, Depth, Holds
<1>2. NoSubscriberLost'
  <2> SUFFICES ASSUME NEW i \in Born, i \notin dropped', i \notin ended'
               PROVE  \/ i \in stored'[keyOf[i]]
                      \/ \E j \in 1 .. Depth : i \in Holds(stack[j])
    BY DEF NoSubscriberLost, Born, Depth, Holds
  <2>1. keyOf[i] \in Keys
    BY DEF TypeOK, Born
  <2> QED
    BY <2>1 DEF Owned, NoSubscriberLost
<1> QED
  BY <1>1, <1>2 DEF Owned, RemoveKeepsNone, Depth

\* A subscriber is born into the map.
LEMMA MapGrows ==
  ASSUME TypeOK, Owned, NEW k \in Keys, AddSubscriber(k), next' = next + 1
  PROVE  Owned'
<1> USE BoundsAssumption
<1>1. /\ \A i \in Ids : i < next => keyOf'[i] = keyOf[i]
      /\ keyOf'[next] = k
      /\ \A l \in Keys : stored'[l] = IF l = k THEN stored[l] \cup {next} ELSE stored[l]
      /\ next \in Ids
      /\ UNCHANGED <<stack, dropped, ended>>
  <2>1. next \in 0 .. MaxId /\ next \in Ids
    BY DEF AddSubscriber, TypeOK, Ids
  <2>2. \A i \in 0 .. next : keyOf'[i] = IF i = next THEN k ELSE keyOf[i]
    BY DEF AddSubscriber
  <2>3. \A i \in Ids : i < next => i \in 0 .. next /\ i # next
    BY <2>1 DEF Ids
  <2>4. /\ \A l \in Keys : stored'[l] = IF l = k THEN stored[l] \cup {next} ELSE stored[l]
        /\ UNCHANGED <<stack, dropped, ended>>
    BY DEF AddSubscriber, TypeOK
  <2>5. next \in 0 .. next
    BY <2>1
  <2> QED
    BY <2>1, <2>2, <2>3, <2>4, <2>5
<1>2. \A j \in 1 .. Depth : stack[j].key \in Keys /\ Holds(stack[j]) \subseteq Ids
  BY OwnedTypes
<1>3. OneOwner'
  <2>1. \A l \in Keys : \A i \in stored'[l] : i < next' /\ keyOf'[i] = l
    <3>1. \A l \in Keys : \A i \in stored[l] : i \in Ids /\ i < next /\ keyOf[i] = l
      BY DEF Owned, OneOwner, TypeOK
    <3>2. next < next' /\ \A i \in Ids : i < next => i < next'
      BY <1>1 DEF Ids
    <3> SUFFICES ASSUME NEW l \in Keys, NEW i \in stored'[l]
                 PROVE  i < next' /\ keyOf'[i] = l
      OBVIOUS
    <3>3. CASE i \in stored[l]
      BY <1>1, <3>1, <3>2, <3>3
    <3>4. CASE i \notin stored[l]
      BY <1>1, <3>2, <3>4
    <3> QED
      BY <3>3, <3>4
  <2>2. \A j \in 1 .. Depth : /\ next \notin Holds(stack[j])
                              /\ \A i \in Holds(stack[j]) : i < next' /\ keyOf'[i] = stack[j].key
                              /\ Holds(stack[j]) \cap stored'[stack[j].key] = {}
    <3> SUFFICES ASSUME NEW j \in 1 .. Depth
                 PROVE  /\ next \notin Holds(stack[j])
                        /\ \A i \in Holds(stack[j]) : i < next' /\ keyOf'[i] = stack[j].key
                        /\ Holds(stack[j]) \cap stored'[stack[j].key] = {}
      OBVIOUS
    <3>1. /\ \A i \in Holds(stack[j]) : i < next /\ keyOf[i] = stack[j].key
          /\ Holds(stack[j]) \cap stored[stack[j].key] = {}
      BY DEF Owned, OneOwner
    <3>2. \A i \in Holds(stack[j]) : i \in Ids /\ i < next'
      BY <1>1, <1>2, <3>1 DEF Ids
    <3>3. next \notin Holds(stack[j])
      BY <1>1, <3>1 DEF Ids
    <3> QED
      BY <1>1, <1>2, <3>1, <3>2, <3>3
  <2> QED
    BY <1>1, <2>1, <2>2 DEF Owned, OneOwner, Depth, Holds
<1>4. NoSubscriberLost'
  <2> SUFFICES ASSUME NEW i \in 0 .. next, i \notin dropped, i \notin ended
               PROVE  \/ i \in stored'[keyOf'[i]]
                      \/ \E j \in 1 .. Depth : i \in Holds(stack[j])
    BY <1>1 DEF NoSubscriberLost, Born, Depth, Holds, TypeOK
  <2>1. CASE i = next
    BY <1>1, <2>1
  <2>2. CASE i # next
    <3>1. i \in Born /\ i \in Ids /\ i < next /\ keyOf[i] \in Keys
      BY <2>2 DEF TypeOK, Born, Ids
    <3> QED
      BY <1>1, <3>1 DEF Owned, NoSubscriberLost
  <2> QED
    BY <2>1, <2>2
<1> QED
  BY <1>1, <1>3, <1>4 DEF Owned, RemoveKeepsNone, Depth

\* A pass takes the subscribers of its key out of the map.
LEMMA PassTakes ==
  ASSUME TypeOK, Owned, NEW k \in Keys, NEW op \in {"retain", "remove"}, Begin(op, k)
  PROVE  Owned'
<1> DEFINE f == NewFrame(op, k)
<1>1. f \in Frame
  BY NewFrameType
<1>2. /\ f.key = k /\ Holds(f) = stored[k] /\ f.rest \cap f.kept = {}
      /\ f.kept = {} /\ f.cur \notin f.rest \cup f.kept
  BY BoundsAssumption DEF NewFrame, Holds, TypeOK, Ids, NoId
<1>3. /\ Depth \in Nat /\ Depth' = Depth + 1 /\ stack'[Depth + 1] = f
      /\ \A j \in 1 .. Depth : stack'[j] = stack[j]
  BY <1>1, Pushed DEF Begin, StartPass
<1>4. \A l \in Keys : stored'[l] = IF l = k THEN {} ELSE stored[l]
  BY DEF Begin, StartPass, TypeOK
<1>5. UNCHANGED <<next, keyOf, dropped, ended>>
  BY DEF Begin, StartPass
<1>6. \A j \in 1 .. Depth : stack[j].key \in Keys
  BY OwnedTypes
<1> HIDE DEF f
<1>7. \A j \in 1 .. Depth : Holds(stack[j]) \cap Holds(f) = {}
  BY <1>2 DEF Owned, OneOwner
<1>8. OneOwner'
  <2>1. \A l \in Keys : \A i \in stored'[l] : i < next' /\ keyOf'[i] = l
    BY <1>4, <1>5 DEF Owned, OneOwner
  <2>2. ASSUME NEW j \in 1 .. Depth'
        PROVE  /\ \A i \in Holds(stack'[j]) : i < next' /\ keyOf'[i] = stack'[j].key
               /\ Holds(stack'[j]) \cap stored'[stack'[j].key] = {}
               /\ stack'[j].rest \cap stack'[j].kept = {}
               /\ stack'[j].cur \notin stack'[j].rest \cup stack'[j].kept
    BY <1>2, <1>3, <1>4, <1>5, <1>6 DEF Owned, OneOwner
  <2>3. ASSUME NEW j \in 1 .. Depth', NEW l \in 1 .. Depth', l # j
        PROVE  Holds(stack'[j]) \cap Holds(stack'[l]) = {}
    BY <1>3, <1>7, <2>3 DEF Owned, OneOwner
  <2> QED
    BY <2>1, <2>2, <2>3 DEF OneOwner, Holds
<1>9. NoSubscriberLost'
  <2> SUFFICES ASSUME NEW i \in Born, i \notin dropped, i \notin ended
               PROVE  \/ i \in stored'[keyOf[i]]
                      \/ \E j \in 1 .. Depth' : i \in Holds(stack'[j])
    BY <1>5 DEF NoSubscriberLost, Born, Holds
  <2>1. keyOf[i] \in Keys
    BY DEF TypeOK, Born
  <2>2. CASE i \in stored[keyOf[i]]
    BY <1>2, <1>3, <1>4, <2>1, <2>2
  <2>3. CASE \E j \in 1 .. Depth : i \in Holds(stack[j])
    BY <1>3, <2>3
  <2> QED
    BY <2>2, <2>3 DEF Owned, NoSubscriberLost
<1>10. RemoveKeepsNone'
  BY <1>2, <1>3 DEF Owned, RemoveKeepsNone
<1> QED
  BY <1>8, <1>9, <1>10 DEF Owned

\* A pass moves its subscribers along, and lets go only of cancelled or
\* ended ones.
LEMMA PassAdvances ==
  ASSUME TypeOK, Owned, stack # <<>>, NEW f \in Frame, ReplaceTop(f),
         UNCHANGED <<next, keyOf, stored, dropped>>, ended \subseteq ended',
         f.key = Top.key, f.op = Top.op,
         Holds(f) \subseteq Holds(Top),
         Holds(Top) \ Holds(f) \subseteq dropped \cup ended',
         f.rest \cap f.kept = {}, f.cur \notin f.rest \cup f.kept,
         f.op = "remove" => f.kept = {}
  PROVE  Owned'
<1>1. /\ Depth' = Depth /\ Depth \in 1 .. Depth
      /\ \A j \in 1 .. Depth : stack'[j] = IF j = Depth THEN f ELSE stack[j]
  BY Replaced, TopFrame
<1>2. stack[Depth] = Top
  BY DEF Top
<1>3. OneOwner'
  <2>1. \A l \in Keys : \A i \in stored'[l] : i < next' /\ keyOf'[i] = l
    BY DEF Owned, OneOwner
  <2>2. ASSUME NEW j \in 1 .. Depth
        PROVE  /\ \A i \in Holds(stack'[j]) : i < next' /\ keyOf'[i] = stack'[j].key
               /\ Holds(stack'[j]) \cap stored'[stack'[j].key] = {}
               /\ stack'[j].rest \cap stack'[j].kept = {}
               /\ stack'[j].cur \notin stack'[j].rest \cup stack'[j].kept
    BY <1>1, <1>2 DEF Owned, OneOwner
  <2>3. ASSUME NEW j \in 1 .. Depth, NEW l \in 1 .. Depth, l # j
        PROVE  Holds(stack'[j]) \cap Holds(stack'[l]) = {}
    BY <1>1, <1>2, <2>3 DEF Owned, OneOwner
  <2> QED
    BY <1>1, <2>1, <2>2, <2>3 DEF OneOwner, Holds
<1>4. NoSubscriberLost'
  <2> SUFFICES ASSUME NEW i \in Born, i \notin dropped, i \notin ended'
               PROVE  \/ i \in stored[keyOf[i]]
                      \/ \E j \in 1 .. Depth : i \in Holds(stack'[j])
    BY <1>1 DEF NoSubscriberLost, Born, Holds
  <2> QED
    BY <1>1, <1>2 DEF Owned, NoSubscriberLost
<1>5. RemoveKeepsNone'
  BY <1>1 DEF Owned, RemoveKeepsNone
<1> QED
  BY <1>3, <1>4, <1>5 DEF Owned

\* A pass that is over puts what it kept back into the map.
LEMMA PassPutsBack ==
  ASSUME TypeOK, Owned, RetainEnd \/ RemoveEnd
  PROVE  Owned'
<1>1. /\ stack # <<>> /\ stack' = SubSeq(stack, 1, Depth - 1)
      /\ Top.cur = NoId /\ Top.rest = {}
      /\ UNCHANGED <<next, keyOf, dropped, ended>>
  BY DEF RetainEnd, RemoveEnd, LeavePass, Scanning
<1>2. /\ Depth \in 1 .. Depth /\ Depth \in Nat /\ Depth' = Depth - 1
      /\ \A j \in 1 .. Depth - 1 : stack'[j] = stack[j]
  BY <1>1, Popped, TopFrame
<1>3. stack[Depth] = Top /\ Top.key \in Keys /\ Holds(Top) = Top.kept
  BY <1>1, <1>2, OwnedTypes DEF Top, Holds
<1>4. \A k \in Keys : stored'[k] = IF k = Top.key THEN Top.kept \cup stored[k] ELSE stored[k]
  <2>1. CASE RetainEnd
    BY <2>1, <1>3 DEF RetainEnd, TypeOK
  <2>2. CASE RemoveEnd
    <3>1. Top.kept = {}
      BY <2>2, <1>2, <1>3 DEF Owned, RemoveKeepsNone, RemoveEnd, LeavePass, Scanning
    <3> QED
      BY <2>2, <3>1 DEF RemoveEnd
  <2> QED
    BY <2>1, <2>2
<1>5. \A j \in 1 .. Depth - 1 : j \in 1 .. Depth /\ j # Depth /\ stack[j].key \in Keys
  BY <1>2, OwnedTypes
<1>6. OneOwner'
  <2>1. \A l \in Keys : \A i \in stored'[l] : i < next' /\ keyOf'[i] = l
    <3>1. \A i \in Top.kept : i < next /\ keyOf[i] = Top.key
      BY <1>2, <1>3 DEF Owned, OneOwner
    <3>2. \A l \in Keys : \A i \in stored[l] : i < next /\ keyOf[i] = l
      BY DEF Owned, OneOwner
    <3> QED
      BY <1>1, <1>4, <3>1, <3>2
  <2>2. ASSUME NEW j \in 1 .. Depth - 1
        PROVE  /\ \A i \in Holds(stack[j]) : i < next' /\ keyOf'[i] = stack[j].key
               /\ Holds(stack[j]) \cap stored'[stack[j].key] = {}
               /\ stack[j].rest \cap stack[j].kept = {}
               /\ stack[j].cur \notin stack[j].rest \cup stack[j].kept
    <3>1. Holds(stack[j]) \cap Top.kept = {}
      BY <1>2, <1>3, <1>5 DEF Owned, OneOwner
    <3> QED
      BY <1>1, <1>4, <1>5, <3>1 DEF Owned, OneOwner
  <2>3. ASSUME NEW j \in 1 .. Depth - 1, NEW l \in 1 .. Depth - 1, l # j
        PROVE  Holds(stack[j]) \cap Holds(stack[l]) = {}
    BY <1>5, <2>3 DEF Owned, OneOwner
  <2> QED
    BY <1>2, <2>1, <2>2, <2>3 DEF OneOwner, Holds
<1>7. NoSubscriberLost'
  <2> SUFFICES ASSUME NEW i \in Born, i \notin dropped, i \notin ended
               PROVE  \/ i \in stored'[keyOf[i]]
                      \/ \E j \in 1 .. Depth - 1 : i \in Holds(stack'[j])
    BY <1>1, <1>2 DEF NoSubscriberLost, Born, Holds
  <2>1. keyOf[i] \in Keys
    BY DEF TypeOK, Born
  <2>2. CASE i \in stored[keyOf[i]]
    BY <1>4, <2>1, <2>2
  <2>3. ASSUME NEW j \in 1 .. Depth, i \in Holds(stack[j])
        PROVE  \/ i \in stored'[keyOf[i]]
               \/ \E l \in 1 .. Depth - 1 : i \in Holds(stack'[l])
    <3>1. CASE j = Depth
      <4>1. i \in Top.kept /\ keyOf[i] = Top.key
        BY <1>2, <1>3, <2>3, <3>1 DEF Owned, OneOwner
      <4> QED
        BY <1>3, <1>4, <4>1
    <3>2. CASE j # Depth
      BY <1>2, <2>3, <3>2
    <3> QED
      BY <3>1, <3>2
  <2> QED
    BY <2>2, <2>3 DEF Owned, NoSubscriberLost
<1>8. RemoveKeepsNone'
  BY <1>2, <1>5 DEF Owned, RemoveKeepsNone
<1> QED
  BY <1>6, <1>7, <1>8 DEF Owned

LEMMA InitOwned == Init => Owned
<1> SUFFICES ASSUME Init PROVE Owned
  OBVIOUS
<1>1. Depth = 0 /\ Born = {} /\ \A k \in Keys : stored[k] = {}
  BY EmptySeq DEF Init, Depth, Born
<1> QED
  BY <1>1 DEF Owned, OneOwner, NoSubscriberLost, RemoveKeepsNone

\* Every step keeps subscribers owned.
LEMMA NextOwned == TypeOK /\ Owned /\ [Next]_vars => Owned'
<1> SUFFICES ASSUME TypeOK, Owned, [Next]_vars PROVE Owned'
  OBVIOUS
<1>1. ASSUME NEW k \in Keys, Insert(k) \/ InsertActive(k) PROVE Owned'
  BY <1>1, MapGrows DEF Insert, InsertActive, NewSubscriber
<1>2. ASSUME NEW i \in Ids, Activate(i) PROVE Owned'
  BY <1>2, MapShrinks DEF Activate
<1>3. ASSUME NEW h \in handles, Unsubscribe(h) PROVE Owned'
  <2>1. \A k \in Keys : /\ stored'[k] \subseteq stored[k]
                        /\ stored[k] \ stored'[k] \subseteq dropped'
    BY <1>3 DEF Unsubscribe, Cancel
  <2> QED
    BY <1>3, <2>1, MapShrinks DEF Unsubscribe, Cancel
<1>4. ASSUME NEW h \in handles, Detach(h) PROVE Owned'
  BY <1>4, MapShrinks DEF Detach
<1>5. ASSUME NEW a \in handles, NEW b \in handles, Join(a, b) PROVE Owned'
  BY <1>5, MapShrinks DEF Join
<1>6. ASSUME NEW k \in Keys, RetainBegin(k) \/ RemoveBegin(k) PROVE Owned'
  BY <1>6, PassTakes DEF RetainBegin, RemoveBegin
<1>7. ASSUME NEW k \in Keys, Discard({k}) PROVE Owned'
  <2>1. UNION {stored[j] : j \in {k}} = stored[k]
    OBVIOUS
  <2>2. \A l \in Keys : /\ stored'[l] \subseteq stored[l]
                        /\ stored[l] \ stored'[l] \subseteq ended'
    BY <1>7, <2>1 DEF Discard
  <2> QED
    BY <1>7, <2>2, MapShrinks DEF Discard
<1>8. ASSUME \/ RetainSkip \/ RetainDiscard \/ RetainDecline \/ RetainCall
             \/ RemoveSkip \/ RemoveCall
      PROVE  Owned'
  <2>1. PICK i \in Ids :
          /\ stack # <<>> /\ Top.cur = NoId /\ i \in Top.rest /\ ended \subseteq ended'
          /\ UNCHANGED <<next, keyOf, stored, active, dropped, handles>>
          /\ \/ /\ ReplaceTop([Top EXCEPT !.rest = @ \ {i}])
                /\ i \in dropped \cup ended'
             \/ /\ ReplaceTop([Top EXCEPT !.rest = @ \ {i}, !.kept = @ \cup {i}])
                /\ Top.op = "retain"
             \/ Call(i)
    BY <1>8 DEF RetainSkip, RetainDiscard, RetainDecline, RetainCall, RemoveSkip, RemoveCall,
                Visit, Scanning, IsNext
  <2>2. Top \in Frame /\ i # NoId
    BY TopFrame, <2>1 DEF Ids, NoId
  <2>3. /\ Top.rest \cap Top.kept = {}
        /\ Top.op = "remove" => Top.kept = {}
        /\ NoId \notin Top.rest \cup Top.kept
    BY <2>1, TopFrame DEF Owned, OneOwner, RemoveKeepsNone, Top
  <2>4. CASE ReplaceTop([Top EXCEPT !.rest = @ \ {i}]) /\ i \in dropped \cup ended'
    <3> DEFINE f == [Top EXCEPT !.rest = @ \ {i}]
    <3>1. /\ f \in Frame /\ f.key = Top.key /\ f.op = Top.op
          /\ f.rest = Top.rest \ {i} /\ f.kept = Top.kept /\ f.cur = NoId
      BY <2>1, <2>2, FrameTypes DEF Frame
    <3> HIDE DEF f
    <3> QED
      BY <2>1, <2>3, <2>4, <3>1, PassAdvances DEF Holds, f
  <2>5. CASE /\ ReplaceTop([Top EXCEPT !.rest = @ \ {i}, !.kept = @ \cup {i}])
             /\ Top.op = "retain"
    <3> DEFINE f == [Top EXCEPT !.rest = @ \ {i}, !.kept = @ \cup {i}]
    <3>1. /\ f \in Frame /\ f.key = Top.key /\ f.op = Top.op
          /\ f.rest = Top.rest \ {i} /\ f.kept = Top.kept \cup {i} /\ f.cur = NoId
      BY <2>1, <2>2, FrameTypes DEF Frame
    <3> HIDE DEF f
    <3> QED
      BY <2>1, <2>2, <2>3, <2>5, <3>1, PassAdvances DEF Holds, f
  <2>6. CASE Call(i)
    <3> DEFINE f == [Top EXCEPT !.rest = @ \ {i}, !.cur = i, !.called = @ \cup {i}]
    <3>1. /\ f \in Frame /\ f.key = Top.key /\ f.op = Top.op
          /\ f.rest = Top.rest \ {i} /\ f.kept = Top.kept /\ f.cur = i
      BY <2>1, <2>2, FrameTypes DEF Frame
    <3> HIDE DEF f
    <3> QED
      BY <2>1, <2>2, <2>3, <2>6, <3>1, PassAdvances DEF Holds, Call, f
  <2> QED
    BY <2>1, <2>4, <2>5, <2>6
<1>9. ASSUME NEW keep \in BOOLEAN, RetainReturn(keep) PROVE Owned'
  <2>1. /\ stack # <<>> /\ Top.op = "retain" /\ Top.cur # NoId
        /\ UNCHANGED <<next, keyOf, stored, dropped>>
        /\ ended' = IF keep THEN ended ELSE ended \cup {Top.cur}
    BY <1>9 DEF RetainReturn
  <2>2. Top \in Frame /\ Top.cur \in Ids
    BY <2>1, TopFrame DEF Frame
  <2> DEFINE S == IF keep /\ Top.cur \notin dropped THEN Top.kept \cup {Top.cur} ELSE Top.kept
             f == [Top EXCEPT !.cur = NoId, !.kept = S]
  <2>3. ReplaceTop(f)
    BY <1>9 DEF RetainReturn
  <2>4. S \subseteq Ids
    BY <2>2 DEF Frame
  <2>5. f \in Frame
    BY <2>1, <2>2, <2>4, FrameTypes
  <2>6. /\ f.key = Top.key /\ f.op = Top.op
        /\ f.rest = Top.rest /\ f.kept = S /\ f.cur = NoId
    BY <2>2 DEF Frame
  <2>7. /\ Top.rest \cap Top.kept = {} /\ Top.cur \notin Top.rest \cup Top.kept
        /\ Top.rest \subseteq Ids
    BY <2>1, <2>2, TopFrame DEF Owned, OneOwner, Top, Frame
  <2>8. NoId \notin Ids
    BY DEF NoId, Ids
  <2> HIDE DEF f
  <2> QED
    BY <2>1, <2>2, <2>3, <2>4, <2>5, <2>6, <2>7, <2>8, PassAdvances DEF Holds
<1>10. ASSUME RemoveReturn PROVE Owned'
  <2>1. /\ stack # <<>> /\ Top.op = "remove" /\ Top.cur # NoId
        /\ UNCHANGED <<next, keyOf, stored, dropped>>
        /\ ended' = ended \cup {Top.cur}
        /\ ReplaceTop([Top EXCEPT !.cur = NoId])
    BY <1>10 DEF RemoveReturn
  <2>2. Top \in Frame /\ Top.cur \in Ids /\ Top.rest \subseteq Ids
    BY <2>1, TopFrame DEF Frame
  <2> DEFINE f == [Top EXCEPT !.cur = NoId]
  <2>3. /\ f \in Frame /\ f.key = Top.key /\ f.op = Top.op
        /\ f.rest = Top.rest /\ f.kept = Top.kept /\ f.cur = NoId
    BY <2>1, <2>2, FrameTypes DEF Frame
  <2>4. Top.kept = {}
    BY <2>1, TopFrame DEF Owned, RemoveKeepsNone, Top
  <2>5. NoId \notin Ids
    BY DEF NoId, Ids
  <2> HIDE DEF f
  <2> QED
    BY <2>1, <2>2, <2>3, <2>4, <2>5, PassAdvances DEF Holds, f
<1>11. ASSUME RetainEnd \/ RemoveEnd PROVE Owned'
  BY <1>11, PassPutsBack
<1>12. CASE UNCHANGED vars
  BY <1>12, MapShrinks DEF vars
<1> QED
  BY <1>1, <1>2, <1>3, <1>4, <1>5, <1>6, <1>7, <1>8, <1>9, <1>10, <1>11, <1>12 DEF Next

------------------------------------------------------------------------------
(***************************************************************************)
(* What an outermost pass still has to call.                               *)
(***************************************************************************)
FirstOfKey(j) == \A l \in 1 .. j - 1 : stack[l].key # stack[j].key

\* What was live when an outermost pass began, and is still, has been called
\* or is next.  It was active then, so the pass skips none of it.
NoneMissed ==
  \A j \in 1 .. Depth : /\ stack[j].due \subseteq active
                        /\ FirstOfKey(j)
                             => (\A i \in stack[j].due :
                                    Live(i) => i \in stack[j].called \cup stack[j].rest)

\* What is over stays so.
LEMMA LiveShrinks ==
  ASSUME [Next]_vars
  PROVE  /\ active \subseteq active'
         /\ \A i \in active : Live(i)' => Live(i)
<1>1. active \subseteq active' /\ dropped \subseteq dropped' /\ ended \subseteq ended'
  BY DEF Next, vars, Insert, InsertActive, NewSubscriber, AddSubscriber, Activate, Unsubscribe,
         Cancel, Detach, Join, RetainBegin, RemoveBegin, Begin, StartPass, Discard, RetainSkip,
         RetainDiscard, RetainDecline, RetainCall, RetainReturn, RetainEnd, RemoveSkip, RemoveCall,
         RemoveReturn, RemoveEnd, Visit, LeavePass
<1> QED
  BY <1>1 DEF Live

\* A frame that a step leaves as it is, or one of its kind that has skipped or
\* called one subscriber.
LEMMA FrameReaches ==
  ASSUME NEW f, NEW g, f.due \subseteq active, g.due = f.due,
         active \subseteq active', \A i \in active : Live(i)' => Live(i),
         \A i \in f.rest \ g.rest : i \in g.called \/ i \notin f.due \/ ~Live(i)',
         f.called \subseteq g.called
  PROVE  /\ g.due \subseteq active'
         /\ (\A i \in f.due : Live(i) => i \in f.called \cup f.rest)
            => (\A i \in g.due : Live(i)' => i \in g.called \cup g.rest)
BY DEF Live

LEMMA NextReaches == IInv /\ NoneMissed /\ [Next]_vars => NoneMissed'
<1> SUFFICES ASSUME IInv, NoneMissed, [Next]_vars PROVE NoneMissed'
  OBVIOUS
<1>0. TypeOK /\ Depth \in Nat /\ active \subseteq active' /\ \A i \in active : Live(i)' => Live(i)
  BY LiveShrinks, DepthBound DEF IInv
<1>1. ASSUME UNCHANGED stack PROVE NoneMissed'
  <2> SUFFICES ASSUME NEW j \in 1 .. Depth
               PROVE  /\ stack[j].due \subseteq active'
                      /\ FirstOfKey(j)
                           => (\A i \in stack[j].due :
                                  Live(i)' => i \in stack[j].called \cup stack[j].rest)
    BY <1>1 DEF NoneMissed, FirstOfKey, Depth, Live
  <2> QED
    BY <1>0, FrameReaches DEF NoneMissed
<1>2. ASSUME NEW k \in Keys, NEW op \in {"retain", "remove"}, Begin(op, k) PROVE NoneMissed'
  <2> DEFINE f == NewFrame(op, k)
  <2>1. /\ Depth' = Depth + 1 /\ stack'[Depth + 1] = f
        /\ \A j \in 1 .. Depth : stack'[j] = stack[j]
    BY <1>0, <1>2, NewFrameType, Pushed DEF Begin, StartPass
  <2>2. /\ f.key = k /\ f.rest = stored[k] /\ f.due = {i \in Born : keyOf[i] = k /\ Live(i)}
        /\ UNCHANGED <<active, dropped, ended>>
    BY <1>2 DEF NewFrame, Begin, StartPass
  <2> HIDE DEF f
  <2>3. ASSUME \A l \in 1 .. Depth : stack[l].key # k
        PROVE  f.due \subseteq f.rest
    <3> SUFFICES ASSUME NEW i \in Born, keyOf[i] = k, Live(i) PROVE i \in stored[k]
      BY <2>2
    <3>1. i \in stored[k] \/ \E j \in 1 .. Depth : i \in Holds(stack[j])
      BY DEF IInv, NoSubscriberLost, Live
    <3>2. ASSUME NEW j \in 1 .. Depth, i \in Holds(stack[j]) PROVE keyOf[i] = stack[j].key
      BY <3>2 DEF IInv, OneOwner
    <3> QED
      BY <2>3, <3>1, <3>2
  <2> SUFFICES ASSUME NEW j \in 1 .. Depth + 1
               PROVE  /\ stack'[j].due \subseteq active'
                      /\ FirstOfKey(j)'
                           => (\A i \in stack'[j].due :
                                  Live(i)' => i \in stack'[j].called \cup stack'[j].rest)
    BY <2>1 DEF NoneMissed
  <2>4. CASE j = Depth + 1
    <3>1. f.due \subseteq active'
      BY <2>2 DEF Live
    <3>2. ASSUME FirstOfKey(j)' PROVE (\A i \in f.due : Live(i)' => i \in f.called \cup f.rest)
      <4>1. \A l \in 1 .. Depth : stack[l].key # k
        BY <1>0, <2>1, <2>2, <2>4, <3>2 DEF FirstOfKey
      <4> QED
        BY <2>3, <4>1
    <3> QED
      BY <2>1, <2>4, <3>1, <3>2
  <2>5. CASE j \in 1 .. Depth
    <3>1. stack'[j] = stack[j] /\ FirstOfKey(j)' = FirstOfKey(j)
      <4>1. \A l \in 1 .. j : l \in 1 .. Depth
        BY <1>0, <2>5
      <4> QED
        BY <2>1, <2>5, <4>1 DEF FirstOfKey
    <3> QED
      BY <1>0, <2>5, <3>1, FrameReaches DEF NoneMissed
  <2> QED
    BY <1>0, <2>4, <2>5
<1>3. ASSUME stack # <<>>, NEW g \in Frame, ReplaceTop(g), g.key = Top.key, g.due = Top.due,
             Top.called \subseteq g.called,
             \A i \in Top.rest \ g.rest : i \in g.called \/ i \notin active \/ ~Live(i)'
      PROVE  NoneMissed'
  <2>1. /\ Depth' = Depth /\ stack[Depth] = Top /\ Depth \in 1 .. Depth
        /\ \A j \in 1 .. Depth : stack'[j] = IF j = Depth THEN g ELSE stack[j]
    BY <1>0, <1>3, Replaced, TopFrame DEF Top
  <2> SUFFICES ASSUME NEW j \in 1 .. Depth
               PROVE  /\ stack'[j].due \subseteq active'
                      /\ FirstOfKey(j)'
                           => (\A i \in stack'[j].due :
                                  Live(i)' => i \in stack'[j].called \cup stack'[j].rest)
    BY <2>1 DEF NoneMissed
  <2>2. FirstOfKey(j)' = FirstOfKey(j)
    <3>1. \A l \in 1 .. Depth : stack'[l].key = stack[l].key
      BY <1>3, <2>1
    <3>2. \A l \in 1 .. j : l \in 1 .. Depth
      BY <1>0
    <3> QED
      BY <3>1, <3>2 DEF FirstOfKey
  <2>3. CASE j = Depth
    <3>1. Top.due \subseteq active /\ (FirstOfKey(j)
         => (\A i \in Top.due : Live(i) => i \in Top.called \cup Top.rest))
      BY <2>1, <2>3 DEF NoneMissed
    <3>2. \A i \in Top.rest \ g.rest : i \in g.called \/ i \notin Top.due \/ ~Live(i)'
      BY <1>3, <3>1
    <3>3. /\ g.due \subseteq active'
          /\ (\A i \in Top.due : Live(i) => i \in Top.called \cup Top.rest)
             => (\A i \in g.due : Live(i)' => i \in g.called \cup g.rest)
      BY <1>0, <1>3, <3>1, <3>2, FrameReaches
    <3> QED
      BY <2>1, <2>2, <2>3, <3>1, <3>3
  <2>4. CASE j # Depth
    BY <1>0, <2>1, <2>2, <2>4, FrameReaches DEF NoneMissed
  <2> QED
    BY <2>3, <2>4
<1>4. ASSUME RetainEnd \/ RemoveEnd PROVE NoneMissed'
  <2>1. /\ Depth' = Depth - 1
        /\ \A j \in 1 .. Depth - 1 : stack'[j] = stack[j]
    BY <1>0, <1>4, Popped DEF RetainEnd, RemoveEnd, LeavePass, Scanning
  <2> SUFFICES ASSUME NEW j \in 1 .. Depth - 1
               PROVE  /\ stack'[j].due \subseteq active'
                      /\ FirstOfKey(j)'
                           => (\A i \in stack'[j].due :
                                  Live(i)' => i \in stack'[j].called \cup stack'[j].rest)
    BY <2>1 DEF NoneMissed
  <2>2. j \in 1 .. Depth /\ \A l \in 1 .. j : l \in 1 .. Depth - 1
    BY <1>0
  <2>3. stack'[j] = stack[j] /\ FirstOfKey(j)' = FirstOfKey(j)
    BY <2>1, <2>2 DEF FirstOfKey
  <2> QED
    BY <1>0, <2>2, <2>3, FrameReaches DEF NoneMissed
<1>5. ASSUME \/ RetainSkip \/ RetainDiscard \/ RetainDecline \/ RetainCall
             \/ RemoveSkip \/ RemoveCall
      PROVE  NoneMissed'
  <2>1. PICK i \in Ids :
          /\ stack # <<>>
          /\ \/ /\ ReplaceTop([Top EXCEPT !.rest = @ \ {i}])
                /\ ~Live(i)'
             \/ /\ ReplaceTop([Top EXCEPT !.rest = @ \ {i}, !.kept = @ \cup {i}])
                /\ i \notin active
             \/ ReplaceTop([Top EXCEPT !.rest = @ \ {i}, !.cur = i, !.called = @ \cup {i}])
    BY <1>5 DEF RetainSkip, RetainDiscard, RetainDecline, RetainCall, RemoveSkip, RemoveCall,
                Visit, Scanning, Live, Call
  <2>2. Top \in Frame
    BY <1>0, <2>1, TopFrame
  <2>3. CASE ReplaceTop([Top EXCEPT !.rest = @ \ {i}]) /\ ~Live(i)'
    <3> DEFINE g == [Top EXCEPT !.rest = @ \ {i}]
    <3>1. /\ g \in Frame /\ g.key = Top.key /\ g.due = Top.due
          /\ g.called = Top.called /\ g.rest = Top.rest \ {i}
      BY <1>0, <2>1, <2>2, FrameTypes DEF Frame
    <3> HIDE DEF g
    <3> QED
      BY <1>3, <2>1, <2>3, <3>1 DEF g
  <2>4. CASE /\ ReplaceTop([Top EXCEPT !.rest = @ \ {i}, !.kept = @ \cup {i}])
             /\ i \notin active
    <3> DEFINE g == [Top EXCEPT !.rest = @ \ {i}, !.kept = @ \cup {i}]
    <3>1. /\ g \in Frame /\ g.key = Top.key /\ g.due = Top.due
          /\ g.called = Top.called /\ g.rest = Top.rest \ {i}
      BY <1>0, <2>1, <2>2, FrameTypes DEF Frame
    <3> HIDE DEF g
    <3> QED
      BY <1>3, <2>1, <2>4, <3>1 DEF g
  <2>5. CASE ReplaceTop([Top EXCEPT !.rest = @ \ {i}, !.cur = i, !.called = @ \cup {i}])
    <3> DEFINE g == [Top EXCEPT !.rest = @ \ {i}, !.cur = i, !.called = @ \cup {i}]
    <3>1. /\ g \in Frame /\ g.key = Top.key /\ g.due = Top.due
          /\ g.called = Top.called \cup {i} /\ g.rest = Top.rest \ {i}
      BY <1>0, <2>1, <2>2, FrameTypes DEF Frame
    <3> HIDE DEF g
    <3> QED
      BY <1>3, <2>1, <2>5, <3>1 DEF g
  <2> QED
    BY <2>1, <2>3, <2>4, <2>5
<1>6. ASSUME RemoveReturn \/ \E keep \in BOOLEAN : RetainReturn(keep) PROVE NoneMissed'
  <2>1. stack # <<>> /\ Top \in Frame /\ Top.cur \in Ids
    BY <1>0, <1>6, TopFrame DEF RemoveReturn, RetainReturn, Frame
  <2>2. PICK S \in SUBSET Ids : \/ ReplaceTop([Top EXCEPT !.cur = NoId])
                                \/ ReplaceTop([Top EXCEPT !.cur = NoId, !.kept = S])
    <3>1. CASE RemoveReturn
      BY <3>1 DEF RemoveReturn
    <3>2. ASSUME NEW keep \in BOOLEAN, RetainReturn(keep)
          PROVE  \E S \in SUBSET Ids : ReplaceTop([Top EXCEPT !.cur = NoId, !.kept = S])
      <4> DEFINE S == IF keep /\ Top.cur \notin dropped THEN Top.kept \cup {Top.cur} ELSE Top.kept
      <4>1. S \in SUBSET Ids
        BY <2>1 DEF Frame
      <4>2. ReplaceTop([Top EXCEPT !.cur = NoId, !.kept = S])
        BY <3>2 DEF RetainReturn
      <4> QED
        BY <4>1, <4>2
    <3> QED
      BY <1>6, <3>1, <3>2
  <2>3. CASE ReplaceTop([Top EXCEPT !.cur = NoId])
    <3> DEFINE g == [Top EXCEPT !.cur = NoId]
    <3>1. /\ g \in Frame /\ g.key = Top.key /\ g.due = Top.due
          /\ g.called = Top.called /\ g.rest = Top.rest
      BY <1>0, <2>1, FrameTypes DEF Frame
    <3> HIDE DEF g
    <3> QED
      BY <1>3, <2>1, <2>3, <3>1 DEF g
  <2>4. CASE ReplaceTop([Top EXCEPT !.cur = NoId, !.kept = S])
    <3> DEFINE g == [Top EXCEPT !.cur = NoId, !.kept = S]
    <3>1. /\ g \in Frame /\ g.key = Top.key /\ g.due = Top.due
          /\ g.called = Top.called /\ g.rest = Top.rest
      BY <1>0, <2>1, FrameTypes DEF Frame
    <3> HIDE DEF g
    <3> QED
      BY <1>3, <2>1, <2>4, <3>1 DEF g
  <2> QED
    BY <2>2, <2>3, <2>4
<1>7. CASE UNCHANGED vars
  BY <1>1, <1>7 DEF vars
<1> QED
  BY <1>1, <1>2, <1>4, <1>5, <1>6, <1>7
  DEF Next, Insert, InsertActive, NewSubscriber, AddSubscriber, Activate, Unsubscribe, Cancel,
      Detach, Join, RetainBegin, RemoveBegin, Discard

\* Only the end of a pass takes a frame away.
LEMMA NeverShorter ==
  ASSUME TypeOK, Next
  PROVE  RetainEnd \/ RemoveEnd \/ Len(stack') >= Depth
<1>0. Depth \in Nat
  BY DepthBound
<1>1. CASE UNCHANGED stack
  BY <1>0, <1>1 DEF Depth
<1>2. ASSUME NEW f, stack' = [stack EXCEPT ![Depth] = f] PROVE Len(stack') >= Depth
  <2>1. DOMAIN stack' = DOMAIN stack
    BY <1>2
  <2> QED
    BY <1>0, <1>2, <2>1, LenProperties DEF TypeOK, Depth
<1>3. ASSUME NEW f \in Frame, stack' = Append(stack, f) PROVE Len(stack') >= Depth
  <2>1. Depth' = Depth + 1
    BY <1>3, Pushed
  <2> QED
    BY <1>0, <2>1 DEF Depth
<1>4. ASSUME NEW k \in Keys, RetainBegin(k) \/ RemoveBegin(k) PROVE Len(stack') >= Depth
  BY <1>3, <1>4, NewFrameType DEF RetainBegin, RemoveBegin, Begin, StartPass
<1>5. ASSUME \/ RetainSkip \/ RetainDiscard \/ RetainDecline \/ RetainCall
             \/ RemoveSkip \/ RemoveCall \/ RemoveReturn
             \/ \E keep \in BOOLEAN : RetainReturn(keep)
      PROVE  Len(stack') >= Depth
  <2>1. \E f : stack' = [stack EXCEPT ![Depth] = f]
    BY <1>5 DEF RetainSkip, RetainDiscard, RetainDecline, RetainCall, RemoveSkip, RemoveCall,
                RemoveReturn, RetainReturn, Call, ReplaceTop
  <2> QED
    BY <1>2, <2>1
<1> QED
  BY <1>1, <1>4, <1>5
  DEF Next, Insert, InsertActive, NewSubscriber, AddSubscriber, Activate, Unsubscribe, Cancel,
      Detach, Join, Discard

LEMMA InitReaches == Init => NoneMissed
BY EmptySeq DEF Init, NoneMissed, Depth

------------------------------------------------------------------------------
(***************************************************************************)
(* The theorems.                                                           *)
(***************************************************************************)
\* The inductive invariant holds: a step of retain, remove or a caller
\* finds every subscriber owned once and leaves it so.
THEOREM Invariance == Spec => []IInv
<1>1. Init => IInv
  BY InitTypeOK, InitOwned DEF IInv, Owned
<1>2. IInv /\ [Next]_vars => IInv'
  BY NextTypeOK, NextOwned DEF IInv, Owned
<1> QED
  BY <1>1, <1>2, PTL DEF Spec

\* Whatever re-enters the set, its maps, cells, handles and passes keep
\* their types: an id is never given out twice, so keyOf stays a function
\* of the ids given out.
THEOREM TypeCorrect == Spec => []TypeOK
<1>1. IInv => TypeOK
  BY DEF IInv
<1> QED
  BY <1>1, Invariance, PTL

\* A callback, which is an FnMut, is never reachable from two places: from
\* the map and a pass, or from two passes.
THEOREM SubscribersHaveOneOwner == Spec => []OneOwner
<1>1. IInv => OneOwner
  BY DEF IInv
<1> QED
  BY <1>1, Invariance, PTL

\* A subscription that was neither cancelled nor ended is still in the map,
\* or held by a pass that puts it back.
THEOREM NoneLost == Spec => []NoSubscriberLost
<1>1. IInv => NoSubscriberLost
  BY DEF IInv
<1> QED
  BY <1>1, Invariance, PTL

\* A pass that no other pass over the same emitter is around has called, when
\* it ends, all that was live when it began and still is: an observer that
\* others cancel, notify or insert around is not passed over.
THEOREM OutermostReachesAll == Spec => OutermostPassReachesAll
<1>1. Init => NoneMissed
  BY InitReaches
<1>2. IInv /\ NoneMissed /\ [Next]_vars => NoneMissed'
  BY NextReaches
<1> DEFINE Reaches == \A j \in 1 .. Depth :
                        (Ends(stack[j]) /\ \A l \in 1 .. j - 1 : stack[l].key # stack[j].key)
                          => Missed(stack[j]) = {}
<1>3. IInv /\ NoneMissed /\ [Next]_vars => [Reaches]_vars
  <2> SUFFICES ASSUME IInv, NoneMissed, Next, NEW j \in 1 .. Depth, Ends(stack[j]), FirstOfKey(j)
               PROVE  Missed(stack[j]) = {}
    BY DEF FirstOfKey
  <2>1. Top.rest = {}
    <3>1. RetainEnd \/ RemoveEnd \/ Len(stack') >= Depth
      BY NeverShorter DEF IInv
    <3>2. Depth \in Nat /\ Len(stack') < Depth
      BY DepthBound DEF IInv, Ends
    <3>3. stack' \in Seq(Frame) /\ Len(stack') \in Nat
      BY NextTypeOK, LenProperties DEF IInv, TypeOK
    <3> QED
      BY <3>1, <3>2, <3>3 DEF RetainEnd, RemoveEnd, LeavePass
  <2>2. stack[j] = Top
    BY DEF Ends
  <2> QED
    BY <2>1, <2>2 DEF NoneMissed, Missed
<1> QED
  BY <1>1, <1>2, <1>3, Invariance, PTL DEF Spec, OutermostPassReachesAll

(***************************************************************************)
(* What the refinement rests on, next to the invariant of the set.         *)
(***************************************************************************)
\* remove passes are over the keys of release listeners and quit observers.
RemovesReleased ==
  \A j \in 1 .. Depth : stack[j].op = "remove" <=> stack[j].key \in Released

\* A pass starts another only through the callback it is running.
Suspended == \A j \in 1 .. Depth - 1 : stack[j].cur # NoId

\* What has an owner has not ended.
OwnedGoesOn == /\ \A k \in Keys : stored[k] \cap ended = {}
               /\ \A j \in 1 .. Depth : Holds(stack[j]) \cap ended = {}

UsedIsBorn == active \cup dropped \cup ended \subseteq Born /\ handles \subseteq SUBSET Born

\* A release listener that is cancelled leaves the map: only retain puts
\* cancelled subscribers back.
ListensUntilCancelled == \A k \in Released : stored[k] \cap dropped = {}

CalledIsActive == \A j \in 1 .. Depth : stack[j].cur # NoId => stack[j].cur \in active

Proper == /\ RemovesReleased /\ Suspended /\ OwnedGoesOn /\ UsedIsBorn
          /\ ListensUntilCancelled /\ CalledIsActive

LEMMA InitProper == Init => Proper
<1> SUFFICES ASSUME Init PROVE Proper
  OBVIOUS
<1>1. Depth = 0
  BY EmptySeq DEF Init, Depth
<1>2. \A k \in Keys : stored[k] = {}
  BY DEF Init
<1> QED
  BY <1>1, <1>2, ReleasedAssumption
  DEF Init, Proper, RemovesReleased, Suspended, OwnedGoesOn, UsedIsBorn, ListensUntilCancelled,
      CalledIsActive

------------------------------------------------------------------------------
(***************************************************************************)
(* Steps that leave the stack alone.                                       *)
(***************************************************************************)
LEMMA MapProper ==
  ASSUME IInv, Proper, UNCHANGED stack, active \subseteq active', UsedIsBorn',
         \A k \in Keys : stored'[k] \cap ended' = {},
         \A j \in 1 .. Depth : Holds(stack[j]) \cap ended' = {},
         \A k \in Released : stored'[k] \cap dropped' = {}
  PROVE  Proper'
BY DEF Proper, RemovesReleased, Suspended, OwnedGoesOn, ListensUntilCancelled, CalledIsActive,
       Depth, Holds

LEMMA AddProper ==
  ASSUME IInv, Proper, NEW k \in Keys, Insert(k) \/ InsertActive(k)
  PROVE  Proper'
<1>1. next \in Nat /\ next' = next + 1 /\ next \notin Born /\ next \in Born' /\ Born \subseteq Born'
  BY BoundsAssumption DEF Insert, InsertActive, NewSubscriber, IInv, TypeOK, Born
<1>2. /\ \A l \in Keys : stored'[l] \subseteq stored[l] \cup {next}
      /\ handles' = handles \cup {{next}}
      /\ active \subseteq active' /\ active' \subseteq active \cup {next}
      /\ UNCHANGED <<dropped, stack, ended>>
  BY DEF Insert, InsertActive, NewSubscriber, AddSubscriber, IInv, TypeOK
<1>3. next \notin dropped \cup ended
  BY <1>1 DEF Proper, UsedIsBorn
<1>4. UsedIsBorn'
  BY <1>1, <1>2 DEF Proper, UsedIsBorn
<1>5. /\ \A l \in Keys : stored'[l] \cap ended' = {}
      /\ \A j \in 1 .. Depth : Holds(stack[j]) \cap ended' = {}
  BY <1>2, <1>3 DEF Proper, OwnedGoesOn
<1>6. \A l \in Released : stored'[l] \cap dropped' = {}
  BY <1>2, <1>3, ReleasedAssumption DEF Proper, ListensUntilCancelled
<1> QED
  BY <1>2, <1>4, <1>5, <1>6, MapProper

LEMMA OwnersProper ==
  ASSUME IInv, Proper,
         \/ \E i \in Ids : Activate(i)
         \/ \E h \in handles : Unsubscribe(h) \/ Detach(h)
         \/ \E a \in handles, b \in handles : Join(a, b)
  PROVE  Proper'
<1>1. CASE \E i \in Ids : Activate(i)
  <2>1. PICK i \in Ids : i < next /\ active' = active \cup {i}
    BY <1>1 DEF Activate
  <2>2. i \in Born
    BY <2>1, BoundsAssumption DEF Born, Ids, IInv, TypeOK
  <2>3. UsedIsBorn'
    BY <1>1, <2>1, <2>2 DEF Proper, UsedIsBorn, Activate, Born
  <2> QED
    BY <1>1, <2>1, <2>3, MapProper DEF Activate, Proper, OwnedGoesOn, ListensUntilCancelled
<1>2. ASSUME NEW h \in handles, Unsubscribe(h) PROVE Proper'
  <2>1. /\ dropped' = dropped \cup h /\ handles' = handles \ {h}
        /\ \A k \in Keys : stored'[k] = stored[k] \ {i \in h : keyOf[i] = k}
        /\ UNCHANGED <<next, active, stack, ended>>
    BY <1>2 DEF Unsubscribe, Cancel
  <2>2. UsedIsBorn'
    BY <2>1 DEF Proper, UsedIsBorn, Born
  <2>3. ASSUME NEW k \in Released PROVE stored'[k] \cap dropped' = {}
    <3>1. k \in Keys /\ \A i \in stored[k] : keyOf[i] = k
      BY ReleasedAssumption DEF IInv, OneOwner
    <3> QED
      BY <2>1, <3>1 DEF Proper, ListensUntilCancelled
  <2> QED
    BY <2>1, <2>2, <2>3, MapProper DEF Proper, OwnedGoesOn
<1>3. ASSUME NEW h \in handles, Detach(h) PROVE Proper'
  <2>1. UsedIsBorn'
    BY <1>3 DEF Detach, Proper, UsedIsBorn, Born
  <2> QED
    BY <1>3, <2>1, MapProper DEF Detach, Proper, OwnedGoesOn, ListensUntilCancelled
<1>4. ASSUME NEW a \in handles, NEW b \in handles, Join(a, b) PROVE Proper'
  <2>1. UsedIsBorn'
    BY <1>4 DEF Join, Proper, UsedIsBorn, Born
  <2> QED
    BY <1>4, <2>1, MapProper DEF Join, Proper, OwnedGoesOn, ListensUntilCancelled
<1> QED
  BY <1>1, <1>2, <1>3, <1>4

LEMMA DiscardProper ==
  ASSUME IInv, Proper, NEW k \in Keys, Discard({k})
  PROVE  Proper'
<1>1. UNION {stored[l] : l \in {k}} = stored[k]
  OBVIOUS
<1>2. /\ ended' = ended \cup stored[k]
      /\ \A l \in Keys : stored'[l] = IF l = k THEN {} ELSE stored[l]
      /\ UNCHANGED <<next, active, dropped, handles, stack>>
  BY <1>1 DEF Discard
<1>3. \A l \in Keys : \A i \in stored[l] : i < next /\ keyOf[i] = l
  BY DEF IInv, OneOwner
<1>4. UsedIsBorn'
  <2>1. stored[k] \subseteq Born
    BY <1>3, BoundsAssumption DEF Born, Ids, IInv, TypeOK
  <2> QED
    BY <1>2, <2>1 DEF Proper, UsedIsBorn, Born
<1>5. \A j \in 1 .. Depth : Holds(stack[j]) \cap ended' = {}
  <2> SUFFICES ASSUME NEW j \in 1 .. Depth, NEW i \in Holds(stack[j]), i \in stored[k] PROVE FALSE
    BY <1>2 DEF Proper, OwnedGoesOn
  <2>1. keyOf[i] = stack[j].key /\ Holds(stack[j]) \cap stored[stack[j].key] = {}
    BY DEF IInv, OneOwner
  <2> QED
    BY <1>3, <2>1
<1>6. \A l \in Keys : stored'[l] \cap ended' = {}
  BY <1>2, <1>3 DEF Proper, OwnedGoesOn
<1>7. \A l \in Released : stored'[l] \cap dropped' = {}
  BY <1>2, ReleasedAssumption DEF Proper, ListensUntilCancelled
<1> QED
  BY <1>2, <1>4, <1>5, <1>6, <1>7, MapProper

------------------------------------------------------------------------------
(***************************************************************************)
(* Steps of a pass.                                                        *)
(***************************************************************************)
\* A callback runs in every frame below a new one.
LEMMA AllRun ==
  ASSUME IInv, Proper, UserRuns
  PROVE  \A j \in 1 .. Depth : stack[j].cur # NoId
<1> SUFFICES ASSUME NEW j \in 1 .. Depth PROVE stack[j].cur # NoId
  OBVIOUS
<1>1. Depth \in Nat /\ stack # <<>> /\ stack[Depth] = Top
  BY DepthBound, EmptySeq DEF IInv, Depth, Top
<1>2. j = Depth \/ j \in 1 .. Depth - 1
  BY <1>1
<1> QED
  BY <1>1, <1>2 DEF UserRuns, Proper, Suspended

LEMMA BeginProper ==
  ASSUME IInv, Proper, NEW k \in Keys, NEW op \in {"retain", "remove"}, Begin(op, k),
         op = "remove" <=> k \in Released
  PROVE  Proper'
<1> DEFINE f == NewFrame(op, k)
<1>1. /\ Depth \in Nat /\ Depth' = Depth + 1 /\ stack'[Depth + 1] = f
      /\ \A j \in 1 .. Depth : stack'[j] = stack[j]
  BY NewFrameType, Pushed DEF Begin, StartPass, IInv
<1>2. f.key = k /\ f.op = op /\ f.cur = NoId /\ Holds(f) = stored[k]
  BY DEF NewFrame, Holds
<1>3. /\ \A l \in Keys : stored'[l] \subseteq stored[l]
      /\ UserRuns
      /\ UNCHANGED <<next, active, dropped, handles, ended>>
  BY DEF Begin, StartPass, IInv, TypeOK
<1> HIDE DEF f
<1>4. RemovesReleased'
  BY <1>1, <1>2 DEF Proper, RemovesReleased
<1>5. Suspended'
  BY <1>1, <1>3, AllRun DEF Suspended
<1>6. OwnedGoesOn'
  <2>1. \A l \in Keys : stored'[l] \cap ended' = {}
    BY <1>3 DEF Proper, OwnedGoesOn
  <2>2. \A j \in 1 .. Depth' : Holds(stack'[j]) \cap ended' = {}
    BY <1>1, <1>2, <1>3 DEF Proper, OwnedGoesOn
  <2> QED
    BY <2>1, <2>2 DEF OwnedGoesOn, Holds
<1>7. UsedIsBorn'
  BY <1>3 DEF Proper, UsedIsBorn, Born
<1>8. ListensUntilCancelled'
  BY <1>3, ReleasedAssumption DEF Proper, ListensUntilCancelled
<1>9. CalledIsActive'
  BY <1>1, <1>2, <1>3 DEF Proper, CalledIsActive
<1> QED
  BY <1>4, <1>5, <1>6, <1>7, <1>8, <1>9 DEF Proper

\* A pass moves along.
LEMMA TopProper ==
  ASSUME IInv, Proper, stack # <<>>, NEW f \in Frame, ReplaceTop(f),
         UNCHANGED <<next, stored, active, dropped, handles>>,
         f.key = Top.key, f.op = Top.op,
         Holds(f) \subseteq Holds(Top),
         NEW S, S \subseteq Holds(Top), S \cap Holds(f) = {}, ended' = ended \cup S,
         f.cur # NoId => f.cur \in active
  PROVE  Proper'
<1>1. /\ Depth' = Depth /\ Depth \in 1 .. Depth /\ Depth \in Nat
      /\ \A j \in 1 .. Depth : stack'[j] = IF j = Depth THEN f ELSE stack[j]
  BY Replaced, TopFrame DEF IInv
<1>2. stack[Depth] = Top
  BY DEF Top
<1>3. \A i \in S : i < next /\ keyOf[i] = Top.key
  BY <1>1, <1>2 DEF IInv, OneOwner
<1>4. RemovesReleased'
  BY <1>1, <1>2 DEF Proper, RemovesReleased
<1>5. Suspended'
  <2>1. \A j \in 1 .. Depth - 1 : stack'[j] = stack[j]
    BY <1>1
  <2> QED
    BY <1>1, <2>1 DEF Proper, Suspended
<1>6. OwnedGoesOn'
  <2>1. ASSUME NEW k \in Keys PROVE stored[k] \cap ended' = {}
    <3>1. \A i \in stored[k] : keyOf[i] = k
      BY DEF IInv, OneOwner
    <3>2. Holds(Top) \cap stored[Top.key] = {}
      BY <1>1, <1>2 DEF IInv, OneOwner
    <3> QED
      BY <1>3, <3>1, <3>2 DEF Proper, OwnedGoesOn
  <2>2. ASSUME NEW j \in 1 .. Depth PROVE Holds(stack'[j]) \cap ended' = {}
    <3>1. CASE j = Depth
      BY <1>1, <1>2, <3>1 DEF Proper, OwnedGoesOn
    <3>2. CASE j # Depth
      <4>1. Holds(stack[j]) \cap Holds(Top) = {}
        BY <1>1, <1>2, <3>2 DEF IInv, OneOwner
      <4> QED
        BY <1>1, <3>2, <4>1 DEF Proper, OwnedGoesOn
    <3> QED
      BY <3>1, <3>2
  <2> QED
    BY <1>1, <2>1, <2>2 DEF OwnedGoesOn, Holds
<1>7. UsedIsBorn'
  <2>1. Top \in Frame
    BY TopFrame DEF IInv
  <2>2. S \subseteq Ids
    BY <1>1, <1>2, OwnedTypes DEF IInv
  <2>3. S \subseteq Born
    BY <1>3, <2>2, BoundsAssumption DEF Born, Ids, IInv, TypeOK
  <2> QED
    BY <2>3 DEF Proper, UsedIsBorn, Born
<1>8. ListensUntilCancelled'
  BY DEF Proper, ListensUntilCancelled
<1>9. CalledIsActive'
  BY <1>1 DEF Proper, CalledIsActive
<1> QED
  BY <1>4, <1>5, <1>6, <1>7, <1>8, <1>9 DEF Proper

LEMMA EndProper ==
  ASSUME IInv, Proper, RetainEnd \/ RemoveEnd
  PROVE  Proper'
<1>1. /\ stack # <<>> /\ stack' = SubSeq(stack, 1, Depth - 1)
      /\ UNCHANGED <<next, active, dropped, handles, ended>>
  BY DEF RetainEnd, RemoveEnd, LeavePass, Scanning
<1>2. /\ Depth \in 1 .. Depth /\ Depth \in Nat /\ Depth' = Depth - 1
      /\ \A j \in 1 .. Depth - 1 : stack'[j] = stack[j] /\ j \in 1 .. Depth
  BY <1>1, Popped, TopFrame DEF IInv
<1>3. stack[Depth] = Top /\ Top.key \in Keys
  BY <1>2, OwnedTypes DEF Top, IInv
<1>4. \A k \in Keys : stored'[k] \subseteq stored[k] \cup (IF k = Top.key THEN Top.kept ELSE {})
  BY <1>3 DEF RetainEnd, RemoveEnd, IInv, TypeOK
<1>5. \A k \in Released : stored'[k] \subseteq stored[k]
  <2>1. CASE RetainEnd
    <3>1. Top.key \notin Released
      BY <1>2, <1>3, <2>1 DEF Proper, RemovesReleased, RetainEnd, LeavePass, Scanning
    <3> QED
      BY <1>4, <3>1, ReleasedAssumption
  <2>2. CASE RemoveEnd
    BY <2>2 DEF RemoveEnd
  <2> QED
    BY <2>1, <2>2
<1>6. RemovesReleased' /\ CalledIsActive'
  BY <1>1, <1>2 DEF Proper, RemovesReleased, CalledIsActive
<1>7. Suspended'
  <2>1. \A j \in 1 .. Depth' - 1 : j \in 1 .. Depth - 1
    BY <1>2
  <2> QED
    BY <1>2, <2>1 DEF Proper, Suspended
<1>8. OwnedGoesOn'
  <2>1. Top.kept \cap ended = {}
    BY <1>2, <1>3 DEF Proper, OwnedGoesOn, Holds
  <2>2. \A k \in Keys : stored'[k] \cap ended' = {}
    BY <1>1, <1>4, <2>1 DEF Proper, OwnedGoesOn
  <2>3. \A j \in 1 .. Depth' : Holds(stack'[j]) \cap ended' = {}
    BY <1>1, <1>2 DEF Proper, OwnedGoesOn
  <2> QED
    BY <2>2, <2>3 DEF OwnedGoesOn, Holds
<1>9. UsedIsBorn' /\ ListensUntilCancelled'
  BY <1>1, <1>5 DEF Proper, UsedIsBorn, ListensUntilCancelled, Born
<1> QED
  BY <1>6, <1>7, <1>8, <1>9 DEF Proper

\* A step of the pass on top, which becomes f and ends the subscriptions S:
\* it is past a subscriber, calls one, or has called it.
Progress(f, S) ==
  /\ stack # <<>> /\ ReplaceTop(f) /\ f.key = Top.key /\ f.op = Top.op
  /\ Holds(f) \subseteq Holds(Top)
  /\ S \subseteq Holds(Top) /\ S \cap Holds(f) = {}
  /\ Top.op = "remove" => Holds(Top) \ Holds(f) \subseteq S
  /\ ended' = ended \cup S
  /\ UNCHANGED <<next, keyOf, stored, active, dropped, handles>>

Passes(f, S)  == Progress(f, S) /\ Top.cur = NoId /\ f.cur = NoId
Calls(f)      == /\ Progress(f, {}) /\ Top.cur = NoId /\ f.cur \in Holds(f) \cap active
                 /\ f.cur \in dropped => f.op = "remove"
Returns(f, S) == /\ Progress(f, S) /\ f.cur = NoId
                 /\ Top.cur # NoId /\ S \in {{}, {Top.cur}}

LEMMA VisitSteps ==
  ASSUME IInv, \/ RetainSkip \/ RetainDiscard \/ RetainDecline \/ RetainCall
               \/ RemoveSkip \/ RemoveCall
  PROVE  \E f \in Frame : Calls(f) \/ \E S \in SUBSET Ids : Passes(f, S)
<1>1. PICK i \in Ids :
        /\ stack # <<>> /\ Top.cur = NoId /\ i \in Top.rest
        /\ UNCHANGED <<next, keyOf, stored, active, dropped, handles>>
        /\ \/ /\ ReplaceTop([Top EXCEPT !.rest = @ \ {i}])
              /\ \E S \in {{}, {i}} : ended' = ended \cup S /\ (Top.op = "remove" => S = {i})
           \/ /\ ReplaceTop([Top EXCEPT !.rest = @ \ {i}, !.kept = @ \cup {i}])
              /\ ended' = ended /\ Top.op = "retain"
           \/ /\ Call(i)
              /\ i \in active /\ ended' = ended
              /\ i \in dropped => Top.op = "remove"
  <2>1. CASE RetainSkip
    BY <2>1 DEF RetainSkip, Visit, Scanning, IsNext
  <2>2. CASE RetainDiscard
    BY <2>2 DEF RetainDiscard, Visit, Scanning, IsNext
  <2>3. CASE RetainDecline
    BY <2>3 DEF RetainDecline, Visit, Scanning, IsNext
  <2>4. CASE RetainCall
    BY <2>4 DEF RetainCall, Visit, Scanning, IsNext
  <2>5. CASE RemoveSkip
    BY <2>5 DEF RemoveSkip, Visit, Scanning, IsNext
  <2>6. CASE RemoveCall
    BY <2>6 DEF RemoveCall, Visit, Scanning, IsNext
  <2> QED
    BY <2>1, <2>2, <2>3, <2>4, <2>5, <2>6
<1>2. Top \in Frame /\ Depth \in 1 .. Depth /\ stack[Depth] = Top /\ i # NoId
  BY <1>1, TopFrame DEF IInv, Top, Ids, NoId
<1>3. Top.rest \cap Top.kept = {} /\ Top.op \in {"retain", "remove"}
  BY <1>2 DEF IInv, OneOwner, Frame
<1>4. ASSUME ReplaceTop([Top EXCEPT !.rest = @ \ {i}]),
             NEW S \in {{}, {i}}, ended' = ended \cup S, Top.op = "remove" => S = {i}
      PROVE  \E f \in Frame, T \in SUBSET Ids : Passes(f, T)
  <2> DEFINE f == [Top EXCEPT !.rest = @ \ {i}]
  <2>1. /\ f \in Frame /\ f.key = Top.key /\ f.op = Top.op
        /\ f.rest = Top.rest \ {i} /\ f.kept = Top.kept /\ f.cur = NoId /\ ReplaceTop(f)
    <3>1. f \in Frame
      BY <1>1, <1>2, FrameTypes DEF IInv
    <3>2. ReplaceTop(f)
      BY <1>4
    <3> QED
      BY <1>1, <1>2, <3>1, <3>2 DEF Frame
  <2> HIDE DEF f
  <2>2. i \in Holds(Top) /\ Holds(f) = Holds(Top) \ {i}
    BY <1>1, <1>2, <1>3, <2>1 DEF Holds
  <2>3. Passes(f, S)
    BY <1>1, <1>4, <2>1, <2>2 DEF Passes, Progress
  <2> QED
    BY <2>1, <2>3
<1>5. ASSUME ReplaceTop([Top EXCEPT !.rest = @ \ {i}, !.kept = @ \cup {i}]),
             ended' = ended
      PROVE  \E f \in Frame : Passes(f, {})
  <2> DEFINE f == [Top EXCEPT !.rest = @ \ {i}, !.kept = @ \cup {i}]
  <2>1. /\ f \in Frame /\ f.key = Top.key /\ f.op = Top.op
        /\ f.rest = Top.rest \ {i} /\ f.kept = Top.kept \cup {i} /\ f.cur = NoId /\ ReplaceTop(f)
    <3>1. f \in Frame
      BY <1>1, <1>2, FrameTypes DEF IInv
    <3>2. ReplaceTop(f)
      BY <1>5
    <3> QED
      BY <1>1, <1>2, <3>1, <3>2 DEF Frame
  <2> HIDE DEF f
  <2>2. Holds(f) = Holds(Top)
    BY <1>1, <2>1 DEF Holds
  <2>3. Passes(f, {})
    BY <1>1, <1>5, <2>1, <2>2 DEF Passes, Progress
  <2> QED
    BY <2>1, <2>3
<1>6. ASSUME Call(i), i \in active, ended' = ended, i \in dropped => Top.op = "remove"
      PROVE  \E f \in Frame : Calls(f)
  <2> DEFINE f == [Top EXCEPT !.rest = @ \ {i}, !.cur = i, !.called = @ \cup {i}]
  <2>1. /\ f \in Frame /\ f.key = Top.key /\ f.op = Top.op
        /\ f.rest = Top.rest \ {i} /\ f.kept = Top.kept /\ f.cur = i /\ ReplaceTop(f)
    <3>1. f \in Frame
      BY <1>1, <1>2, FrameTypes DEF IInv
    <3>2. ReplaceTop(f)
      BY <1>6 DEF Call
    <3> QED
      BY <1>1, <1>2, <3>1, <3>2 DEF Frame
  <2> HIDE DEF f
  <2>2. Holds(f) = Holds(Top) /\ i \in Holds(f)
    BY <1>1, <1>2, <2>1 DEF Holds
  <2>3. Calls(f)
    BY <1>1, <1>6, <2>1, <2>2 DEF Calls, Progress
  <2> QED
    BY <2>1, <2>3
<1> QED
  BY <1>1, <1>4, <1>5, <1>6

LEMMA ReturnSteps ==
  ASSUME IInv, RemoveReturn \/ \E keep \in BOOLEAN : RetainReturn(keep)
  PROVE  \E f \in Frame, S \in SUBSET Ids : Returns(f, S)
<1>1. stack # <<>> /\ Top.cur # NoId /\ UNCHANGED <<next, keyOf, stored, active, dropped, handles>>
  BY DEF RemoveReturn, RetainReturn
<1>2. Top \in Frame /\ Top.cur \in Ids /\ stack[Depth] = Top /\ Depth \in 1 .. Depth
  BY <1>1, TopFrame DEF IInv, Top, Frame
<1>3. Top.cur \notin Top.rest \cup Top.kept /\ NoId \notin Ids /\ Top.kept \subseteq Ids
  BY <1>2 DEF IInv, OneOwner, NoId, Ids, Frame
<1>4. CASE RemoveReturn
  <2> DEFINE f == [Top EXCEPT !.cur = NoId]
  <2>1. /\ f \in Frame /\ f.key = Top.key /\ f.op = Top.op /\ f.rest = Top.rest
        /\ f.kept = Top.kept /\ f.cur = NoId /\ ReplaceTop(f) /\ ended' = ended \cup {Top.cur}
    BY <1>1, <1>2, <1>4, FrameTypes DEF Frame, IInv, RemoveReturn
  <2> HIDE DEF f
  <2>2. Holds(f) = Holds(Top) \ {Top.cur} /\ Top.cur \in Holds(Top)
    BY <1>1, <1>2, <1>3, <2>1 DEF Holds
  <2>3. Returns(f, {Top.cur})
    BY <1>1, <2>1, <2>2 DEF Returns, Progress
  <2> QED
    BY <1>2, <2>1, <2>3
<1>5. ASSUME NEW keep \in BOOLEAN, RetainReturn(keep)
      PROVE  \E f \in Frame, S \in SUBSET Ids : Returns(f, S)
  <2> DEFINE K == IF keep /\ Top.cur \notin dropped THEN Top.kept \cup {Top.cur} ELSE Top.kept
             f == [Top EXCEPT !.cur = NoId, !.kept = K]
             S == IF keep THEN {} ELSE {Top.cur}
  <2>1. K \subseteq Ids /\ Top.op = "retain" /\ ReplaceTop(f)
    BY <1>2, <1>3, <1>5 DEF RetainReturn
  <2>2. f \in Frame
    BY <1>1, <1>2, <2>1, FrameTypes DEF IInv
  <2>3. f.key = Top.key /\ f.op = Top.op /\ f.rest = Top.rest /\ f.kept = K /\ f.cur = NoId
    BY <1>2 DEF Frame
  <2>4. ended' = ended \cup S
    BY <1>5 DEF RetainReturn
  <2> HIDE DEF f
  <2>5. /\ Holds(f) \subseteq Holds(Top) /\ Top.cur \in Holds(Top)
        /\ keep \/ Top.cur \notin Holds(f)
    BY <1>1, <1>2, <1>3, <2>3 DEF Holds
  <2>6. Returns(f, S)
    BY <1>1, <2>1, <2>3, <2>4, <2>5 DEF Returns, Progress
  <2> QED
    BY <1>2, <2>2, <2>6
<1> QED
  BY <1>4, <1>5

LEMMA NextProper == IInv /\ Proper /\ [Next]_vars => Proper'
<1> SUFFICES ASSUME IInv, Proper, [Next]_vars PROVE Proper'
  OBVIOUS
<1>1. ASSUME NEW k \in Keys,
             Insert(k) \/ InsertActive(k) \/ RetainBegin(k) \/ RemoveBegin(k) \/ Discard({k})
      PROVE  Proper'
  BY <1>1, AddProper, BeginProper, DiscardProper DEF RetainBegin, RemoveBegin
<1>2. ASSUME NEW f \in Frame, NEW S \in SUBSET Ids, Progress(f, S), f.cur # NoId => f.cur \in active
      PROVE  Proper'
  BY <1>2, TopProper DEF Progress
<1>3. CASE \/ RetainSkip \/ RetainDiscard \/ RetainDecline \/ RetainCall
           \/ RemoveSkip \/ RemoveCall
  BY <1>2, <1>3, VisitSteps DEF Passes, Calls
<1>4. CASE RemoveReturn \/ \E keep \in BOOLEAN : RetainReturn(keep)
  BY <1>2, <1>4, ReturnSteps DEF Returns
<1>5. CASE UNCHANGED vars
  BY <1>5, MapProper DEF vars, Proper, UsedIsBorn, Born, OwnedGoesOn, ListensUntilCancelled
<1> QED
  BY <1>1, <1>3, <1>4, <1>5, OwnersProper, EndProper DEF Next

------------------------------------------------------------------------------
(***************************************************************************)
(* What users see of a step: the phases of subscriptions.                  *)
(***************************************************************************)
Phases == [i \in Ids |-> Phase(i)]

Over(i)     == Cancelled(i) \/ i \in ended
ToRemove(i) == \E j \in 1 .. Depth : stack[j].op = "remove" /\ i \in Holds(stack[j])

PhaseOf(i) == IF i \notin Born THEN "unborn"
              ELSE IF Over(i) THEN "over"
              ELSE IF i \in active THEN "live" ELSE "inert"

LEMMA PhaseIs ==
  ASSUME TypeOK, TypeOK', NEW i \in Ids
  PROVE  Phase(i) = PhaseOf(i) /\ Phase(i)' = PhaseOf(i)'
<1>0. next \in Nat /\ next' \in Nat /\ i \in Nat
  <2>1. next \in 0 .. MaxId
    BY DEF TypeOK
  <2>2. next' \in 0 .. MaxId
    BY DEF TypeOK
  <2> QED
    BY <2>1, <2>2, BoundsAssumption DEF Ids
<1>1. (i \in Born <=> i < next) /\ (i \in Born' <=> i < next')
  <2>1. i \in Born <=> i < next
    BY <1>0 DEF Born
  <2>2. i \in Born' <=> i < next'
    <3>1. PICK n \in Nat : n = next'
      BY <1>0
    <3>2. Born' = 0 .. n - 1
      BY <3>1 DEF Born
    <3>3. i \in 0 .. n - 1 <=> i < n
      BY <1>0
    <3> QED
      BY <3>1, <3>2, <3>3
  <2> QED
    BY <2>1, <2>2
<1>2. (i >= next <=> ~(i < next)) /\ (i >= next' <=> ~(i < next'))
  BY <1>0
<1>3. Phase(i) = PhaseOf(i)
  BY <1>1, <1>2 DEF Phase, PhaseOf, Over
<1>4. Phase(i)' = PhaseOf(i)'
  BY <1>1, <1>2 DEF Phase, PhaseOf, Over
<1> QED
  BY <1>3, <1>4

LEMMA CancelledIs ==
  ASSUME NEW i
  PROVE  /\ Over(i) <=> (i \in dropped /\ ~ToRemove(i)) \/ i \in ended
         /\ Over(i)' <=> (i \in dropped' /\ ~ToRemove(i)') \/ i \in ended'
BY DEF Over, Cancelled, ToRemove

\* Subscriptions come to an end.
LEMMA PhasesEnd ==
  ASSUME TypeOK, TypeOK', UNCHANGED <<next, active>>, NEW S, S \subseteq Born,
         \A i \in Born \ S : Over(i)' <=> Over(i),
         \A i \in S : Over(i)'
  PROVE  /\ Phases' = [i \in Ids |-> IF i \in S THEN "over" ELSE Phases[i]]
         /\ \A i \in S : Phases[i] = PhaseOf(i) /\ Phases[i] \in {"inert", "live", "over"}
<1>1. S \subseteq Ids
  BY BoundsAssumption DEF Born, Ids, TypeOK
<1>2. ASSUME NEW i \in Ids PROVE Phase(i)' = IF i \in S THEN "over" ELSE Phase(i)
  BY <1>2, PhaseIs DEF PhaseOf, Born
<1>3. ASSUME NEW i \in S PROVE Phase(i) = PhaseOf(i) /\ Phase(i) \in {"inert", "live", "over"}
  BY <1>1, <1>3, PhaseIs DEF PhaseOf
<1> QED
  BY <1>1, <1>2, <1>3 DEF Phases

LEMMA PhasesStay ==
  ASSUME TypeOK, TypeOK', UNCHANGED <<next, active>>,
         \A i \in Born : Over(i)' <=> Over(i)
  PROVE  Phases' = Phases
BY PhaseIs DEF Phases, PhaseOf, Born

LEMMA PhasesAdd ==
  ASSUME IInv, IInv', Proper, NEW k \in Keys, Insert(k) \/ InsertActive(k)
  PROVE  Promise!Create(next) /\ next \in Ids
<1>0. TypeOK /\ TypeOK'
  BY DEF IInv
<1>1. next \in Nat /\ next' = next + 1 /\ next \in Ids
  BY <1>0, BoundsAssumption DEF Insert, InsertActive, NewSubscriber, AddSubscriber, TypeOK, Ids
<1>2. UNCHANGED <<dropped, ended, stack>> /\ (active' = active \/ active' = active \cup {next})
  BY DEF Insert, InsertActive, NewSubscriber, AddSubscriber
<1>3. next \notin Born /\ Born' = Born \cup {next}
  BY <1>1 DEF Born
<1>4. \A i \in Ids : Over(i)' <=> Over(i)
  BY <1>2 DEF Over, Cancelled, Depth, Holds
<1>5. ~Over(next)
  BY <1>3 DEF Over, Cancelled, Proper, UsedIsBorn
<1>6. PICK to \in {"inert", "live"} :
        to = IF active' = active THEN "inert" ELSE "live"
  OBVIOUS
<1>7. next \notin active
  BY <1>3 DEF Proper, UsedIsBorn
<1>8. \A i \in Ids : Phase(i)' = IF i = next THEN to ELSE Phase(i)
  BY <1>0, <1>1, <1>2, <1>3, <1>4, <1>5, <1>6, <1>7, PhaseIs DEF PhaseOf
<1>9. Phase(next) = "unborn"
  BY <1>0, <1>1, <1>3, PhaseIs DEF PhaseOf
<1>10. UNCHANGED Running
  BY <1>2 DEF Running, UserRuns, Depth, Top
<1> QED
  BY <1>1, <1>8, <1>9, <1>10 DEF Promise!Create, Promise!Move

LEMMA OwnersPromise ==
  ASSUME IInv, IInv', Proper,
         \/ \E i \in Ids : Activate(i)
         \/ \E h \in handles : Unsubscribe(h) \/ Detach(h)
         \/ \E a \in handles, b \in handles : Join(a, b)
         \/ \E k \in Keys : Discard({k})
  PROVE  Promise!Next \/ UNCHANGED Promise!svars
<1>0. TypeOK /\ TypeOK'
  BY DEF IInv
<1>1. TypeOK /\ TypeOK' /\ Born \subseteq Ids
  <2>1. next \in 0 .. MaxId
    BY <1>0 DEF TypeOK
  <2> QED
    BY <1>0, <2>1, BoundsAssumption DEF Born, Ids
<1>2. UNCHANGED <<next, stack>>
  BY DEF Activate, Unsubscribe, Cancel, Detach, Join, Discard
<1>3. UNCHANGED Running /\ Born' = Born
  BY <1>2 DEF Running, UserRuns, Depth, Top, Born
<1>4. \A i : ToRemove(i)' = ToRemove(i)
  BY <1>2 DEF ToRemove, Depth, Holds
<1>5. ASSUME NEW S, S \subseteq Born, UNCHANGED active,
             \A i \in Born \ S : Over(i)' <=> Over(i),
             \A i \in S : Over(i)'
      PROVE  Promise!Next \/ UNCHANGED Promise!svars
  <2>1. /\ Phases' = [i \in Ids |-> IF i \in S THEN "over" ELSE Phases[i]]
        /\ \A i \in S : Phases[i] \in {"inert", "live", "over"}
    BY <1>1, <1>2, <1>5, PhasesEnd
  <2>2. CASE S = {}
    BY <2>1, <2>2, <1>3 DEF Promise!svars, Phases
  <2>3. CASE S # {}
    <3>1. Promise!Finish(S)
      BY <1>3, <2>1, <2>3 DEF Promise!Finish, Promise!Move, Phases
    <3>2. S \in SUBSET Ids
      BY <1>1, <1>5
    <3> QED
      BY <3>1, <3>2 DEF Promise!Next
  <2> QED
    BY <2>2, <2>3
<1>6. ASSUME NEW i \in Ids, Activate(i) PROVE Promise!Next \/ UNCHANGED Promise!svars
  <2>1. i \in Born /\ i \notin active /\ active' = active \cup {i} /\ UNCHANGED <<dropped, ended>>
    BY <1>1, <1>6, BoundsAssumption DEF Activate, Born, TypeOK, Ids
  <2>2. \A l : Over(l)' <=> Over(l)
    BY <1>4, <2>1, CancelledIs
  <2>3. \A l \in Ids : Phase(l)' = IF l = i /\ ~Over(i) THEN "live" ELSE Phase(l)
    BY <1>1, <1>3, <2>1, <2>2, PhaseIs DEF PhaseOf
  <2>4. CASE Over(i)
    BY <1>3, <2>3, <2>4 DEF Promise!svars
  <2>5. CASE ~Over(i)
    <3>1. Phase(i) = "inert"
      BY <1>1, <2>1, <2>5, PhaseIs DEF PhaseOf
    <3>2. Promise!Activate(i)
      BY <1>3, <2>3, <2>5, <3>1 DEF Promise!Activate, Promise!Move
    <3> QED
      BY <3>2 DEF Promise!Next
  <2> QED
    BY <2>4, <2>5
<1>7. ASSUME NEW h \in handles, Unsubscribe(h) PROVE Promise!Next \/ UNCHANGED Promise!svars
  <2>1. h \subseteq Born /\ dropped' = dropped \cup h /\ UNCHANGED <<active, ended>>
    BY <1>7 DEF Unsubscribe, Cancel, Proper, UsedIsBorn
  <2> DEFINE S == {i \in h : ~ToRemove(i)}
  <2>2. \A i \in Born \ S : Over(i)' <=> Over(i)
    BY <1>4, <2>1, CancelledIs
  <2>3. \A i \in S : Over(i)'
    BY <1>4, <2>1, CancelledIs
  <2> QED
    BY <1>5, <2>1, <2>2, <2>3
<1>8. ASSUME \/ \E h \in handles : Detach(h)
             \/ \E a \in handles, b \in handles : Join(a, b)
      PROVE  Promise!Next \/ UNCHANGED Promise!svars
  <2>1. UNCHANGED <<dropped, ended, active>>
    BY <1>8 DEF Detach, Join
  <2>2. \A i \in Born : Over(i)' <=> Over(i)
    BY <1>4, <2>1, CancelledIs
  <2>3. Phases' = Phases
    BY <1>1, <1>2, <2>1, <2>2, PhasesStay
  <2> QED
    BY <1>3, <2>3 DEF Promise!svars, Phases
<1>9. ASSUME NEW k \in Keys, Discard({k}) PROVE Promise!Next \/ UNCHANGED Promise!svars
  <2>1. UNION {stored[l] : l \in {k}} = stored[k]
    OBVIOUS
  <2>2. ended' = ended \cup stored[k] /\ UNCHANGED <<dropped, active>>
    BY <1>9, <2>1 DEF Discard
  <2>3. stored[k] \subseteq Born
    BY <1>1, BoundsAssumption DEF IInv, OneOwner, TypeOK, Born, Ids
  <2>4. /\ \A i \in Born \ stored[k] : Over(i)' <=> Over(i)
        /\ \A i \in stored[k] : Over(i)'
    BY <1>4, <2>2, CancelledIs
  <2> QED
    BY <1>5, <2>2, <2>3, <2>4
<1> QED
  BY <1>6, <1>7, <1>8, <1>9

------------------------------------------------------------------------------
(***************************************************************************)
(* What users see of a pass.                                               *)
(***************************************************************************)
LEMMA ToRemoveNext ==
  ASSUME NEW i
  PROVE  ToRemove(i)' <=> \E j \in 1 .. Depth' : stack'[j].op = "remove" /\ i \in Holds(stack'[j])
BY DEF ToRemove, Holds

LEMMA ProgressPhases ==
  ASSUME IInv, IInv', Proper, NEW f \in Frame, NEW S, Progress(f, S)
  PROVE  /\ Phases' = [i \in Ids |-> IF i \in S THEN "over" ELSE Phases[i]]
         /\ \A i \in S : Phases[i] = PhaseOf(i) /\ Phases[i] \in {"inert", "live", "over"}
<1>0. TypeOK /\ TypeOK'
  BY DEF IInv
<1>1. /\ stack # <<>> /\ ReplaceTop(f) /\ f.op = Top.op
      /\ Holds(f) \subseteq Holds(Top) /\ S \subseteq Holds(Top)
      /\ Top.op = "remove" => Holds(Top) \ Holds(f) \subseteq S
      /\ ended' = ended \cup S
      /\ UNCHANGED <<next, active, dropped>>
  BY DEF Progress
<1>2. /\ Depth' = Depth /\ Depth \in 1 .. Depth /\ stack[Depth] = Top
      /\ \A j \in 1 .. Depth : stack'[j] = IF j = Depth THEN f ELSE stack[j]
  BY <1>0, <1>1, Replaced, TopFrame DEF Top
<1>3. S \subseteq Born
  <2>1. S \subseteq Ids /\ \A i \in S : i < next
    BY <1>0, <1>1, <1>2, OwnedTypes DEF IInv, OneOwner
  <2>2. next \in 0 .. MaxId
    BY <1>0 DEF TypeOK
  <2> QED
    BY <2>1, <2>2, BoundsAssumption DEF Ids, Born
<1>4. ASSUME NEW i, i \notin S PROVE ToRemove(i)' <=> ToRemove(i)
  <2>1. f.op = "remove" => (i \in Holds(f) <=> i \in Holds(Top))
    BY <1>1, <1>4
  <2>2. ASSUME NEW j \in 1 .. Depth
        PROVE  (stack'[j].op = "remove" /\ i \in Holds(stack'[j]))
                 <=> (stack[j].op = "remove" /\ i \in Holds(stack[j]))
    BY <1>1, <1>2, <2>1
  <2> QED
    BY <1>2, <2>2, ToRemoveNext DEF ToRemove
<1>5. /\ \A i \in Born \ S : Over(i)' <=> Over(i)
      /\ \A i \in S : Over(i)'
  BY <1>1, <1>4, CancelledIs
<1> QED
  BY <1>0, <1>1, <1>3, <1>5, PhasesEnd

\* The callbacks in progress are those of the frames, but for a pass on top
\* that is looking for its next subscriber.
LEMMA FramesRun ==
  ASSUME TypeOK, NEW n \in Nat, n <= Depth, NEW r, r = [j \in 1 .. n |-> stack[j].cur]
  PROVE  r \in Seq(Ids \cup {NoId}) /\ Len(r) = n
<1>1. \A j \in 1 .. n : j \in 1 .. Depth
  BY DepthBound
<1>2. \A j \in 1 .. n : stack[j].cur \in Ids \cup {NoId}
  BY <1>1, OwnedTypes DEF Frame
<1>3. r \in [1 .. n -> Ids \cup {NoId}]
  BY <1>2
<1>4. r \in Seq(Ids \cup {NoId})
  BY <1>3, SeqDef
<1> QED
  BY <1>3, <1>4, LenProperties

LEMMA PassesPromise ==
  ASSUME IInv, IInv', Proper, NEW f \in Frame, NEW S \in SUBSET Ids, Passes(f, S)
  PROVE  Promise!Next \/ UNCHANGED Promise!svars
<1>1. /\ stack # <<>> /\ ReplaceTop(f) /\ Top.cur = NoId /\ f.cur = NoId
  BY DEF Passes, Progress
<1>2. /\ Depth' = Depth /\ Depth \in 1 .. Depth /\ Depth \in Nat
      /\ \A j \in 1 .. Depth : stack'[j] = IF j = Depth THEN f ELSE stack[j]
  BY <1>1, Replaced, TopFrame DEF IInv
<1>3. Running' = Running
  <2>1. ~UserRuns
    BY <1>1 DEF UserRuns
  <2>2. stack' # <<>> /\ Top'.cur = NoId
    <3>1. Top' = f
      BY <1>2 DEF Top
    <3> QED
      BY <1>1, <1>2, <3>1, EmptySeq DEF Depth
  <2>3. Running = [j \in 1 .. Depth - 1 |-> stack[j].cur]
    BY <2>1 DEF Running
  <2>4. Running' = [j \in 1 .. Depth - 1 |-> stack'[j].cur]
    BY <1>2, <2>2 DEF Running, UserRuns
  <2>5. \A j \in 1 .. Depth - 1 : stack'[j] = stack[j]
    BY <1>2
  <2> QED
    BY <2>3, <2>4, <2>5
<1>4. /\ Phases' = [i \in Ids |-> IF i \in S THEN "over" ELSE Phases[i]]
      /\ \A i \in S : Phases[i] \in {"inert", "live", "over"}
  BY ProgressPhases DEF Passes
<1>5. CASE S = {}
  BY <1>3, <1>4, <1>5 DEF Promise!svars, Phases
<1>6. CASE S # {}
  <2>1. Promise!Finish(S)
    BY <1>3, <1>4, <1>6 DEF Promise!Finish, Promise!Move, Phases
  <2> QED
    BY <2>1 DEF Promise!Next
<1> QED
  BY <1>5, <1>6

LEMMA CallsPromise ==
  ASSUME IInv, IInv', Proper, NEW f \in Frame, Calls(f)
  PROVE  Promise!Invoke(f.cur) /\ f.cur \in Ids
<1>1. /\ stack # <<>> /\ ReplaceTop(f) /\ Top.cur = NoId /\ f.op = Top.op
      /\ f.cur \in Holds(Top) /\ f.cur \in active /\ Progress(f, {})
      /\ f.cur \in dropped => Top.op = "remove"
  BY DEF Calls, Progress
<1>2. /\ Depth' = Depth /\ Depth \in 1 .. Depth /\ Depth \in Nat /\ stack[Depth] = Top
      /\ \A j \in 1 .. Depth : stack'[j] = IF j = Depth THEN f ELSE stack[j]
  BY <1>1, Replaced, TopFrame DEF IInv, Top
<1>3. f.cur \in Ids /\ f.cur # NoId /\ TypeOK /\ TypeOK'
  <2>1. Holds(Top) \subseteq Ids
    BY <1>2, OwnedTypes DEF IInv
  <2> QED
    BY <1>1, <2>1 DEF Ids, NoId, IInv
<1>4. UNCHANGED Phases
  <2>1. Phases' = [i \in Ids |-> IF i \in {} THEN "over" ELSE Phases[i]]
    BY <1>1, ProgressPhases
  <2> QED
    BY <2>1 DEF Phases
<1>5. Phases[f.cur] = "live"
  <2>1. ~Over(f.cur)
    <3>1. f.cur \notin ended
      BY <1>1, <1>2 DEF Proper, OwnedGoesOn
    <3>2. f.cur \in dropped => ToRemove(f.cur)
      BY <1>1, <1>2 DEF ToRemove
    <3> QED
      BY <3>1, <3>2, CancelledIs
  <2>2. f.cur \in Born
    BY <1>1 DEF Proper, UsedIsBorn
  <2> QED
    BY <1>1, <1>3, <2>1, <2>2, PhaseIs DEF Phases, PhaseOf
<1>6. Running = [j \in 1 .. Depth - 1 |-> stack[j].cur]
  BY <1>1 DEF Running, UserRuns
<1>7. ASSUME NEW j \in DOMAIN Running PROVE Running[j] # f.cur
  <2>1. j \in 1 .. Depth /\ j # Depth /\ Running[j] = stack[j].cur
    BY <1>2, <1>6
  <2>2. Holds(stack[j]) \cap Holds(Top) = {}
    BY <1>2, <2>1 DEF IInv, OneOwner
  <2> QED
    BY <1>1, <1>3, <2>1, <2>2 DEF Holds
<1>8. Running' = Append(Running, f.cur)
  <2>1. Top' = f
    BY <1>2 DEF Top
  <2>2. Running' = [j \in 1 .. Depth |-> stack'[j].cur]
    BY <1>2, <1>3, <2>1 DEF Running, UserRuns
  <2>3. Running \in Seq(Ids \cup {NoId}) /\ Len(Running) = Depth - 1
    BY <1>2, <1>3, <1>6, FramesRun
  <2>4. Running' \in Seq(Ids \cup {NoId}) /\ Len(Running') = Depth
    <3>1. \A j \in 1 .. Depth : stack'[j].cur \in Ids \cup {NoId}
      BY <1>2, <1>3, OwnedTypes DEF Frame
    <3>2. Running' \in [1 .. Depth -> Ids \cup {NoId}]
      BY <2>2, <3>1
    <3>3. Running' \in Seq(Ids \cup {NoId})
      BY <1>2, <3>2, SeqDef
    <3> QED
      BY <1>2, <3>2, <3>3, LenProperties
  <2> DEFINE a == Append(Running, f.cur)
  <2>5. /\ a \in Seq(Ids \cup {NoId}) /\ Len(a) = Depth
        /\ \A j \in 1 .. Depth - 1 : a[j] = Running[j]
        /\ a[Depth] = f.cur
    <3>1. /\ a \in Seq(Ids \cup {NoId}) /\ Len(a) = Len(Running) + 1
          /\ \A j \in 1 .. Len(Running) : a[j] = Running[j]
          /\ a[Len(Running) + 1] = f.cur
      BY <1>3, <2>3, AppendProperties
    <3>2. Len(Running) + 1 = Depth
      BY <1>2, <2>3
    <3> QED
      BY <2>3, <3>1, <3>2
  <2> HIDE DEF a
  <2>6. ASSUME NEW j \in 1 .. Depth PROVE Running'[j] = a[j]
    <3>1. CASE j = Depth
      BY <1>2, <2>2, <2>5, <3>1
    <3>2. CASE j # Depth
      <4>1. j \in 1 .. Depth - 1
        BY <1>2, <3>2
      <4> QED
        BY <1>2, <1>6, <2>2, <2>5, <3>2, <4>1
    <3> QED
      BY <3>1, <3>2
  <2>7. Running' = a
    BY <2>4, <2>5, <2>6, SeqEqual
  <2> QED
    BY <2>7 DEF a
<1> QED
  BY <1>3, <1>4, <1>5, <1>7, <1>8 DEF Promise!Invoke, Phases

LEMMA ReturnsPromise ==
  ASSUME IInv, IInv', Proper, NEW f \in Frame, NEW S \in SUBSET Ids, Returns(f, S)
  PROVE  \E keep \in BOOLEAN : Promise!Return(keep)
<1>1. /\ stack # <<>> /\ ReplaceTop(f) /\ f.cur = NoId
      /\ Top.cur # NoId /\ S \in {{}, {Top.cur}} /\ Progress(f, S)
  BY DEF Returns, Progress
<1>2. /\ Depth' = Depth /\ Depth \in 1 .. Depth /\ Depth \in Nat /\ stack[Depth] = Top
      /\ \A j \in 1 .. Depth : stack'[j] = IF j = Depth THEN f ELSE stack[j]
  BY <1>1, Replaced, TopFrame DEF IInv, Top
<1>3. TypeOK /\ TypeOK'
  BY DEF IInv
<1>4. Running = [j \in 1 .. Depth |-> stack[j].cur]
  BY <1>1 DEF Running, UserRuns
<1>5. Running \in Seq(Ids \cup {NoId}) /\ Len(Running) = Depth
  BY <1>2, <1>3, <1>4, FramesRun
<1>6. Running' = [j \in 1 .. Depth - 1 |-> stack[j].cur]
  <2>1. stack' # <<>> /\ Top' = f
    BY <1>2, EmptySeq DEF Depth, Top
  <2>2. Running' = [j \in 1 .. Depth - 1 |-> stack'[j].cur]
    BY <1>1, <1>2, <2>1 DEF Running, UserRuns
  <2>3. \A j \in 1 .. Depth - 1 : stack'[j] = stack[j]
    BY <1>2
  <2> QED
    BY <2>2, <2>3
<1>7. Running' = SubSeq(Running, 1, Len(Running) - 1)
  <2> DEFINE n == Depth - 1
             s == SubSeq(Running, 1, n)
  <2>1. n \in Nat /\ n <= Depth
    BY <1>2
  <2>2. Running' \in Seq(Ids \cup {NoId}) /\ Len(Running') = n
    BY <1>3, <1>6, <2>1, FramesRun
  <2>3. \A j \in 1 .. n : Running[j] \in Ids \cup {NoId} /\ Running[j] = stack[j].cur
    BY <1>2, <1>4, <1>5, ElementOfSeq
  <2> HIDE DEF n
  <2>4. s \in Seq(Ids \cup {NoId}) /\ Len(s) = n /\ \A j \in 1 .. n : s[j] = Running[j]
    <3>1. /\ s \in Seq(Ids \cup {NoId})
          /\ Len(s) = IF 1 <= n THEN n - 1 + 1 ELSE 0
          /\ \A j \in 1 .. n - 1 + 1 : s[j] = Running[1 + j - 1]
      BY <2>1, <2>3, SubSeqProperties
    <3>2. /\ (IF 1 <= n THEN n - 1 + 1 ELSE 0) = n
          /\ \A j \in 1 .. n : j \in 1 .. n - 1 + 1 /\ 1 + j - 1 = j
      BY <2>1
    <3> QED
      BY <3>1, <3>2
  <2> HIDE DEF s
  <2>5. \A j \in 1 .. n : Running'[j] = s[j]
    BY <1>6, <2>3, <2>4 DEF n
  <2>6. Running' = s
    BY <2>2, <2>4, <2>5, SeqEqual
  <2> QED
    BY <1>5, <2>6 DEF s, n
<1>8. Running # <<>> /\ Running[Len(Running)] = Top.cur
  BY <1>2, <1>4, <1>5, EmptySeq
<1>9. /\ Phases' = [i \in Ids |-> IF i \in S THEN "over" ELSE Phases[i]]
      /\ \A i \in S : Phases[i] = PhaseOf(i) /\ Phases[i] \in {"inert", "live", "over"}
  BY <1>1, ProgressPhases
<1>10. CASE S = {}
  <2>1. Phases' = Phases
    BY <1>9, <1>10 DEF Phases
  <2>2. Promise!Return(TRUE)
    BY <1>7, <1>8, <2>1 DEF Promise!Return, Phases
  <2> QED
    BY <2>2
<1>11. CASE S = {Top.cur}
  <2>1. Phases[Top.cur] \in {"live", "over"}
    <3>1. Top.cur \in active
      BY <1>1, <1>2 DEF Proper, CalledIsActive
    <3> QED
      BY <1>9, <1>11, <3>1 DEF PhaseOf
  <2>2. Promise!Move({Top.cur}, {"live", "over"}, "over")
    BY <1>9, <1>11, <2>1 DEF Promise!Move, Phases
  <2>3. Promise!Return(FALSE)
    BY <1>7, <1>8, <2>2 DEF Promise!Return
  <2> QED
    BY <2>3
<1> QED
  BY <1>1, <1>10, <1>11

\* A pass that begins or ends is nothing a user sees.
LEMMA BeginPromise ==
  ASSUME IInv, IInv', Proper, NEW k \in Keys, NEW op \in {"retain", "remove"}, Begin(op, k),
         op = "remove" <=> k \in Released
  PROVE  UNCHANGED Promise!svars
<1> DEFINE f == NewFrame(op, k)
<1>1. /\ Depth \in Nat /\ Depth' = Depth + 1 /\ stack'[Depth + 1] = f
      /\ \A j \in 1 .. Depth : stack'[j] = stack[j]
  BY NewFrameType, Pushed DEF Begin, StartPass, IInv
<1>2. f.op = op /\ f.cur = NoId /\ Holds(f) = stored[k]
  BY DEF NewFrame, Holds
<1>3. UserRuns /\ UNCHANGED <<next, active, dropped, ended>> /\ TypeOK /\ TypeOK'
  BY DEF Begin, StartPass, IInv
<1> HIDE DEF f
<1>4. Running' = Running
  <2>1. stack' # <<>> /\ Top' = f
    BY <1>1, EmptySeq DEF Depth, Top
  <2>2. Running' = [j \in 1 .. Depth' - 1 |-> stack'[j].cur]
    BY <1>2, <2>1 DEF Running, UserRuns
  <2>3. Running = [j \in 1 .. Depth |-> stack[j].cur] /\ Depth' - 1 = Depth
    BY <1>1, <1>3 DEF Running
  <2> QED
    BY <1>1, <2>2, <2>3
<1>5. ASSUME NEW i, i \in dropped PROVE ToRemove(i)' <=> ToRemove(i)
  <2>1. f.op = "remove" => i \notin Holds(f)
    BY <1>2, <1>5 DEF Proper, ListensUntilCancelled
  <2>2. \A j \in 1 .. Depth' : j = Depth + 1 \/ j \in 1 .. Depth
    BY <1>1
  <2>3. \A j \in 1 .. Depth : j \in 1 .. Depth'
    BY <1>1
  <2> QED
    BY <1>1, <2>1, <2>2, <2>3, ToRemoveNext DEF ToRemove
<1>6. \A i \in Born : Over(i)' <=> Over(i)
  BY <1>3, <1>5, CancelledIs
<1>7. Phases' = Phases
  BY <1>3, <1>6, PhasesStay
<1> QED
  BY <1>4, <1>7 DEF Promise!svars, Phases

LEMMA EndPromise ==
  ASSUME IInv, IInv', Proper, RetainEnd \/ RemoveEnd
  PROVE  UNCHANGED Promise!svars
<1>1. /\ stack # <<>> /\ stack' = SubSeq(stack, 1, Depth - 1) /\ Top.cur = NoId /\ Top.rest = {}
      /\ UNCHANGED <<next, active, dropped, ended>> /\ TypeOK /\ TypeOK'
  BY DEF RetainEnd, RemoveEnd, LeavePass, Scanning, IInv
<1>2. /\ Depth \in 1 .. Depth /\ Depth \in Nat /\ Depth' = Depth - 1 /\ stack[Depth] = Top
      /\ \A j \in 1 .. Depth - 1 : stack'[j] = stack[j]
  BY <1>1, Popped, TopFrame DEF Top
<1>3. Running' = Running
  <2>1. Running = [j \in 1 .. Depth - 1 |-> stack[j].cur]
    BY <1>1 DEF Running, UserRuns
  <2>2. UserRuns'
    <3> SUFFICES ASSUME stack' # <<>> PROVE stack'[Depth'].cur # NoId
      BY DEF UserRuns, Top
    <3>1. Depth' # 0
      BY <1>1, EmptySeq DEF TypeOK, Depth
    <3>2. Depth' \in 1 .. Depth - 1
      BY <1>2, <3>1
    <3> QED
      BY <1>2, <3>2 DEF Proper, Suspended
  <2>3. Running' = [j \in 1 .. Depth - 1 |-> stack'[j].cur]
    BY <1>2, <2>2 DEF Running
  <2> QED
    BY <1>2, <2>1, <2>3
<1>4. ASSUME NEW i PROVE ToRemove(i)' <=> ToRemove(i)
  <2>1. Top.op = "remove" => Holds(Top) = {}
    BY <1>1, <1>2 DEF Holds, IInv, RemoveKeepsNone
  <2>2. \A j \in 1 .. Depth : j = Depth \/ j \in 1 .. Depth - 1
    BY <1>2
  <2>3. \A j \in 1 .. Depth - 1 : j \in 1 .. Depth
    BY <1>2
  <2> QED
    BY <1>2, <2>1, <2>2, <2>3, ToRemoveNext DEF ToRemove
<1>5. \A i \in Born : Over(i)' <=> Over(i)
  BY <1>1, <1>4, CancelledIs
<1>6. Phases' = Phases
  BY <1>1, <1>5, PhasesStay
<1> QED
  BY <1>3, <1>6 DEF Promise!svars, Phases

------------------------------------------------------------------------------
(***************************************************************************)
(* The refinement.                                                         *)
(***************************************************************************)
LEMMA InitPromise == Init => Promise!Init
<1> SUFFICES ASSUME Init PROVE Promise!Init
  OBVIOUS
<1>1. next = 0 /\ stack = <<>> /\ Depth = 0
  BY EmptySeq DEF Init, Depth
<1>2. Running = <<>>
  <2>1. Running = [j \in 1 .. 0 |-> stack[j].cur]
    BY <1>1 DEF Running, UserRuns
  <2>2. Running \in [1 .. 0 -> {NoId}]
    BY <2>1
  <2> QED
    BY <2>2, SeqDef, EmptySeq, LenProperties
<1>3. \A i \in Ids : Phase(i) = "unborn"
  BY <1>1, BoundsAssumption DEF Phase, Ids
<1> QED
  BY <1>2, <1>3 DEF Promise!Init

LEMMA NextPromise == IInv /\ IInv' /\ Proper /\ [Next]_vars => [Promise!Next]_(Promise!svars)
<1> SUFFICES ASSUME IInv, IInv', Proper, [Next]_vars PROVE [Promise!Next]_(Promise!svars)
  OBVIOUS
<1>1. ASSUME NEW k \in Keys, Insert(k) \/ InsertActive(k) PROVE Promise!Next
  BY <1>1, PhasesAdd DEF Promise!Next
<1>2. ASSUME NEW k \in Keys, RetainBegin(k) \/ RemoveBegin(k) PROVE UNCHANGED Promise!svars
  BY <1>2, BeginPromise DEF RetainBegin, RemoveBegin
<1>3. CASE \/ RetainSkip \/ RetainDiscard \/ RetainDecline \/ RetainCall
           \/ RemoveSkip \/ RemoveCall
  <2>1. PICK f \in Frame : Calls(f) \/ \E S \in SUBSET Ids : Passes(f, S)
    BY <1>3, VisitSteps
  <2>2. CASE Calls(f)
    BY <2>2, CallsPromise DEF Promise!Next
  <2>3. ASSUME NEW S \in SUBSET Ids, Passes(f, S) PROVE Promise!Next \/ UNCHANGED Promise!svars
    BY <2>3, PassesPromise
  <2> QED
    BY <2>1, <2>2, <2>3
<1>4. CASE RemoveReturn \/ \E keep \in BOOLEAN : RetainReturn(keep)
  BY <1>4, ReturnSteps, ReturnsPromise DEF Promise!Next
<1>5. CASE RetainEnd \/ RemoveEnd
  BY <1>5, EndPromise
<1>6. CASE \/ \E i \in Ids : Activate(i)
           \/ \E h \in handles : Unsubscribe(h) \/ Detach(h)
           \/ \E a \in handles, b \in handles : Join(a, b)
           \/ \E k \in Keys : Discard({k})
  BY <1>6, OwnersPromise
<1>7. CASE UNCHANGED vars
  BY <1>7 DEF vars, Promise!svars, Phase, Cancelled, Running, UserRuns, Depth, Top, Holds
<1> QED
  BY <1>1, <1>2, <1>3, <1>4, <1>5, <1>6, <1>7 DEF Next

\* Whatever callbacks do to the set that calls them, and however its passes
\* nest, a callback is invoked only while its subscription is live and never
\* inside itself, and a subscription that ended or was cancelled stays so.
THEOREM ImplementsSubscriptions == Spec => KeepsPromise
<1>1. Init => Promise!Init
  BY InitPromise
<1>2. Init => Proper
  BY InitProper
<1>3. IInv /\ Proper /\ [Next]_vars => Proper'
  BY NextProper
<1>4. IInv /\ IInv' /\ Proper /\ [Next]_vars => [Promise!Next]_(Promise!svars)
  BY NextPromise
<1> QED
  BY <1>1, <1>2, <1>3, <1>4, Invariance, PTL DEF Spec, KeepsPromise, Promise!Spec
=============================================================================
