--------------------------- MODULE AppEffectsProofs ---------------------------
(***************************************************************************)
(* Proofs about AppEffects, for any entities, globals and subscriptions,   *)
(* and user code of any length.                                            *)
(***************************************************************************)
EXTENDS AppEffects, SequenceTheorems, TLAPS

LEMMA NatFacts == MaxFuel \in Nat /\ MaxNest \in Nat /\ MaxNest > 0 /\ MaxId \in Nat
BY BoundsAssumption

------------------------------------------------------------------------------
(***************************************************************************)
(* The subscriber sets keep their types.                                   *)
(***************************************************************************)
Depth == Len(stack)

LEMMA SetDepth == Subs!Depth = Depth /\ (Subs!TypeOK => Depth \in Nat /\ stack \in Seq(Subs!Frame))
BY LenProperties DEF Subs!Depth, Subs!TypeOK, Depth

LEMMA TopFrame ==
  ASSUME Subs!TypeOK, stack # <<>>
  PROVE  Depth \in 1 .. Depth /\ Depth \in Nat /\ Subs!Top = stack[Depth] /\ Subs!Top \in Subs!Frame
BY SetDepth, LenProperties, EmptySeq, ElementOfSeq DEF Subs!TypeOK, Subs!Depth, Depth, Subs!Top

LEMMA Pushed ==
  ASSUME Subs!TypeOK, NEW f \in Subs!Frame, stack' = Append(stack, f)
  PROVE  /\ stack' \in Seq(Subs!Frame) /\ stack' # <<>>
         /\ Depth \in Nat /\ Depth' = Depth + 1
         /\ \A j \in 1 .. Depth : stack'[j] = stack[j]
         /\ stack'[Depth + 1] = f
BY AppendProperties, LenProperties, EmptySeq DEF Subs!TypeOK, Depth

LEMMA Replaced ==
  ASSUME Subs!TypeOK, stack # <<>>, NEW f \in Subs!Frame, Subs!ReplaceTop(f)
  PROVE  /\ stack' \in Seq(Subs!Frame) /\ stack' # <<>>
         /\ Depth' = Depth
         /\ \A j \in 1 .. Depth : stack'[j] = IF j = Depth THEN f ELSE stack[j]
BY TopFrame, ExceptSeq, EmptySeq DEF Subs!TypeOK, Depth, Subs!Depth, Subs!ReplaceTop

LEMMA Popped ==
  ASSUME Subs!TypeOK, stack # <<>>, stack' = SubSeq(stack, 1, Depth - 1)
  PROVE  /\ stack' \in Seq(Subs!Frame)
         /\ Depth \in Nat /\ Depth' = Depth - 1
         /\ \A j \in 1 .. Depth - 1 : stack'[j] = stack[j]
<1> DEFINE n == Depth - 1
<1>1. n \in Nat /\ Depth = n + 1
  BY TopFrame
<1>2. \A i \in 1 .. n : stack[i] \in Subs!Frame
  BY <1>1, ElementOfSeq DEF Subs!TypeOK, Depth
<1>3. stack' = SubSeq(stack, 1, n)
  OBVIOUS
<1> HIDE DEF n
<1>4. /\ stack' \in Seq(Subs!Frame)
      /\ Len(stack') = n
      /\ \A j \in 1 .. n : stack'[j] = stack[j]
  BY <1>1, <1>2, <1>3, SubSeqProperties
<1> QED
  BY <1>1, <1>4 DEF n, Depth

\* A step of the pass on top leaves the frames below it and the map.
Advances == /\ stack # <<>> /\ stack' # <<>> /\ Depth' = Depth
            /\ \A j \in 1 .. Depth - 1 : stack'[j] = stack[j]
            /\ Subs!Top'.op = Subs!Top.op /\ Subs!Top'.key = Subs!Top.key
            /\ UNCHANGED stored

LEMMA SetAdvances ==
  ASSUME Subs!TypeOK, stack # <<>>, NEW f \in Subs!Frame, Subs!ReplaceTop(f),
         f.op = Subs!Top.op, f.key = Subs!Top.key,
         UNCHANGED <<next, keyOf, stored, active, dropped, handles>>, ended' \subseteq Subs!Ids
  PROVE  Subs!TypeOK' /\ Advances /\ Subs!Top' = f
<1>1. /\ stack' \in Seq(Subs!Frame) /\ stack' # <<>> /\ Depth' = Depth
      /\ \A j \in 1 .. Depth : stack'[j] = IF j = Depth THEN f ELSE stack[j]
  BY Replaced
<1>2. Depth \in 1 .. Depth /\ Depth \in Nat
  BY TopFrame
<1>3. Subs!TypeOK'
  BY <1>1 DEF Subs!TypeOK, Depth
<1>4. Subs!Top' = f
  BY <1>1, <1>2, <1>3 DEF Subs!Top, Subs!Depth, Depth
<1>5. \A j \in 1 .. Depth - 1 : stack'[j] = stack[j]
  BY <1>1, <1>2
<1> QED
  BY <1>1, <1>3, <1>4, <1>5 DEF Advances

LEMMA SetVisits ==
  ASSUME Subs!TypeOK,
         Subs!RetainSkip \/ Subs!RetainDiscard \/ Subs!RetainDecline \/ Subs!RemoveSkip
  PROVE  Subs!TypeOK' /\ Advances /\ Subs!Top.cur = Subs!NoId /\ Subs!Top'.cur = Subs!NoId
<1>1. PICK i \in Subs!Ids :
        /\ stack # <<>> /\ Subs!Top.cur = Subs!NoId
        /\ UNCHANGED <<next, keyOf, stored, active, dropped, handles>> /\ ended' \subseteq Subs!Ids
        /\ \/ Subs!ReplaceTop([Subs!Top EXCEPT !.rest = @ \ {i}])
           \/ Subs!ReplaceTop([Subs!Top EXCEPT !.rest = @ \ {i}, !.kept = @ \cup {i}])
  BY DEF Subs!RetainSkip, Subs!RetainDiscard, Subs!RetainDecline, Subs!RemoveSkip, Subs!Visit,
         Subs!Scanning, Subs!TypeOK
<1>2. Subs!Top \in Subs!Frame
  BY <1>1, TopFrame
<1> DEFINE f == [Subs!Top EXCEPT !.rest = @ \ {i}]
           g == [Subs!Top EXCEPT !.rest = @ \ {i}, !.kept = @ \cup {i}]
<1>3. /\ f \in Subs!Frame /\ f.op = Subs!Top.op /\ f.key = Subs!Top.key /\ f.cur = Subs!Top.cur
      /\ g \in Subs!Frame /\ g.op = Subs!Top.op /\ g.key = Subs!Top.key /\ g.cur = Subs!Top.cur
  BY <1>2 DEF Subs!Frame
<1>4. Subs!ReplaceTop(f) \/ Subs!ReplaceTop(g)
  BY <1>1
<1> HIDE DEF f, g
<1> QED
  BY <1>1, <1>3, <1>4, SetAdvances

LEMMA SetCalls ==
  ASSUME Subs!TypeOK, Subs!RetainCall \/ Subs!RemoveCall
  PROVE  Subs!TypeOK' /\ Advances /\ Subs!Top.cur = Subs!NoId /\ Subs!Top'.cur # Subs!NoId
<1>1. PICK i \in Subs!Ids :
        /\ stack # <<>> /\ Subs!Top.cur = Subs!NoId
        /\ UNCHANGED <<next, keyOf, stored, active, dropped, handles, ended>>
        /\ Subs!ReplaceTop([Subs!Top EXCEPT !.rest = @ \ {i}, !.cur = i, !.called = @ \cup {i}])
  BY DEF Subs!RetainCall, Subs!RemoveCall, Subs!Visit, Subs!Scanning, Subs!Call
<1>2. Subs!Top \in Subs!Frame /\ i # Subs!NoId
  BY <1>1, TopFrame, NatFacts DEF Subs!Ids, Subs!NoId
<1> DEFINE f == [Subs!Top EXCEPT !.rest = @ \ {i}, !.cur = i, !.called = @ \cup {i}]
<1>3. f \in Subs!Frame /\ f.op = Subs!Top.op /\ f.key = Subs!Top.key /\ f.cur = i
  BY <1>2 DEF Subs!Frame
<1>4. ended' \subseteq Subs!Ids
  BY <1>1 DEF Subs!TypeOK
<1> HIDE DEF f
<1> QED
  BY <1>1, <1>2, <1>3, <1>4, SetAdvances DEF f

LEMMA SetReturns ==
  ASSUME Subs!TypeOK, NEW keep \in BOOLEAN, Subs!RetainReturn(keep) \/ Subs!RemoveReturn
  PROVE  Subs!TypeOK' /\ Advances /\ Subs!Top.cur # Subs!NoId /\ Subs!Top'.cur = Subs!NoId
<1>1. /\ stack # <<>> /\ Subs!Top.cur # Subs!NoId
      /\ UNCHANGED <<next, keyOf, stored, active, dropped, handles>>
  BY DEF Subs!RetainReturn, Subs!RemoveReturn
<1>2. Subs!Top \in Subs!Frame /\ Subs!Top.cur \in Subs!Ids
  BY <1>1, TopFrame DEF Subs!Frame
<1> DEFINE S == IF keep /\ Subs!Top.cur \notin dropped THEN Subs!Top.kept \cup {Subs!Top.cur}
                ELSE Subs!Top.kept
           f == [Subs!Top EXCEPT !.cur = Subs!NoId, !.kept = S]
           g == [Subs!Top EXCEPT !.cur = Subs!NoId]
<1>3. Subs!ReplaceTop(f) \/ Subs!ReplaceTop(g)
  BY DEF Subs!RetainReturn, Subs!RemoveReturn
<1>4. S \subseteq Subs!Ids
  BY <1>2 DEF Subs!Frame
<1> HIDE DEF S
<1>5. /\ f \in Subs!Frame /\ f.op = Subs!Top.op /\ f.key = Subs!Top.key /\ f.cur = Subs!NoId
      /\ g \in Subs!Frame /\ g.op = Subs!Top.op /\ g.key = Subs!Top.key /\ g.cur = Subs!NoId
  BY <1>2, <1>4 DEF Subs!Frame
<1>6. ended' \subseteq Subs!Ids
  BY <1>2 DEF Subs!RetainReturn, Subs!RemoveReturn, Subs!TypeOK
<1> HIDE DEF f, g
<1> QED
  BY <1>1, <1>3, <1>5, <1>6, SetAdvances

LEMMA SetBegins ==
  ASSUME Subs!TypeOK, NEW k \in Topics, Subs!RetainBegin(k) \/ Subs!RemoveBegin(k)
  PROVE  /\ Subs!TypeOK' /\ stored[k] # {}
         /\ stack' # <<>> /\ Depth \in Nat /\ Depth' = Depth + 1
         /\ \A j \in 1 .. Depth : stack'[j] = stack[j]
         /\ Subs!Top'.key = k /\ Subs!Top'.cur = Subs!NoId
         /\ Subs!Top'.op = IF Subs!RetainBegin(k) THEN "retain" ELSE "remove"
         /\ \A l \in Topics : stored'[l] = IF l = k THEN {} ELSE stored[l]
<1>1. PICK op \in {"retain", "remove"} :
        Subs!Begin(op, k) /\ op = IF Subs!RetainBegin(k) THEN "retain" ELSE "remove"
  BY DEF Subs!RetainBegin, Subs!RemoveBegin
<1> DEFINE f == Subs!NewFrame(op, k)
<1>2. f \in Subs!Frame /\ f.op = op /\ f.key = k /\ f.cur = Subs!NoId
  BY NatFacts DEF Subs!NewFrame, Subs!Frame, Subs!TypeOK, Subs!Ids, Subs!Born
<1>3. /\ stack' = Append(stack, f) /\ Depth < 2 /\ stored[k] # {}
      /\ UNCHANGED <<next, keyOf, active, dropped, handles, ended>>
  BY <1>1, SetDepth DEF Subs!Begin, Subs!StartPass
<1> HIDE DEF f
<1>4. /\ stack' \in Seq(Subs!Frame) /\ stack' # <<>> /\ Depth \in Nat /\ Depth' = Depth + 1
      /\ \A j \in 1 .. Depth : stack'[j] = stack[j]
      /\ stack'[Depth + 1] = f
  BY <1>2, <1>3, Pushed
<1>5. stored' \in [Topics -> SUBSET Subs!Ids]
      /\ \A l \in Topics : stored'[l] = IF l = k THEN {} ELSE stored[l]
  BY <1>1 DEF Subs!Begin, Subs!TypeOK
<1>6. Subs!TypeOK'
  BY <1>3, <1>4, <1>5 DEF Subs!TypeOK, Depth
<1>7. Subs!Top' = f
  BY <1>4 DEF Subs!Top, Subs!Depth, Depth
<1> QED
  BY <1>1, <1>2, <1>3, <1>4, <1>5, <1>6, <1>7

LEMMA SetEnds ==
  ASSUME Subs!TypeOK, Subs!RetainEnd \/ Subs!RemoveEnd
  PROVE  /\ Subs!TypeOK' /\ stack # <<>> /\ Subs!Top.cur = Subs!NoId
         /\ Depth \in 1 .. Depth /\ Depth \in Nat /\ Depth' = Depth - 1
         /\ \A j \in 1 .. Depth - 1 : stack'[j] = stack[j]
         /\ Subs!Top.key \in Topics
         /\ \A l \in Topics : l # Subs!Top.key => stored'[l] = stored[l]
         /\ Subs!RemoveEnd => UNCHANGED stored
<1>1. /\ stack # <<>> /\ Subs!Top.cur = Subs!NoId
      /\ stack' = SubSeq(stack, 1, Depth - 1)
      /\ UNCHANGED <<next, keyOf, active, dropped, handles, ended>>
  BY SetDepth DEF Subs!RetainEnd, Subs!RemoveEnd, Subs!LeavePass, Subs!Scanning
<1>2. /\ stack' \in Seq(Subs!Frame) /\ Depth' = Depth - 1
      /\ \A j \in 1 .. Depth - 1 : stack'[j] = stack[j]
  BY <1>1, Popped
<1>3. Subs!Top \in Subs!Frame /\ Depth \in 1 .. Depth /\ Depth \in Nat
  BY <1>1, TopFrame
<1>4. Subs!Top.key \in Topics /\ Subs!Top.kept \subseteq Subs!Ids
  BY <1>3 DEF Subs!Frame
<1>5. stored' \in [Topics -> SUBSET Subs!Ids]
  BY <1>4 DEF Subs!RetainEnd, Subs!RemoveEnd, Subs!TypeOK
<1>6. Subs!TypeOK'
  BY <1>1, <1>2, <1>3, <1>5 DEF Subs!TypeOK, Depth
<1>7. /\ \A l \in Topics : l # Subs!Top.key => stored'[l] = stored[l]
      /\ Subs!RemoveEnd => UNCHANGED stored
  BY <1>4 DEF Subs!RetainEnd, Subs!RemoveEnd, Subs!TypeOK
<1> QED
  BY <1>1, <1>2, <1>3, <1>4, <1>6, <1>7

\* What user code does to the sets.
LEMMA SetGrows ==
  ASSUME Subs!TypeOK, NEW t \in Topics, Subs!Insert(t) \/ Subs!InsertActive(t)
  PROVE  /\ Subs!TypeOK' /\ UNCHANGED stack
         /\ \A l \in Topics : l # t => stored'[l] = stored[l]
<1>1. /\ next \in Subs!Ids /\ next' = next + 1 /\ next' \in 0 .. MaxId
      /\ active' = active \/ active' = active \cup {next}
      /\ UNCHANGED <<dropped, stack, ended>>
  BY NatFacts
  DEF Subs!Insert, Subs!InsertActive, Subs!NewSubscriber, Subs!AddSubscriber, Subs!TypeOK, Subs!Ids
<1>2. keyOf' \in [0 .. next' - 1 -> Topics]
  BY <1>1 DEF Subs!Insert, Subs!InsertActive, Subs!NewSubscriber, Subs!AddSubscriber, Subs!TypeOK,
              Subs!Ids
<1>3. /\ stored' \in [Topics -> SUBSET Subs!Ids] /\ handles' \subseteq SUBSET Subs!Ids
      /\ \A l \in Topics : l # t => stored'[l] = stored[l]
  BY <1>1 DEF Subs!Insert, Subs!InsertActive, Subs!NewSubscriber, Subs!AddSubscriber, Subs!TypeOK
<1> QED
  BY <1>1, <1>2, <1>3 DEF Subs!TypeOK

LEMMA SetShrinks ==
  ASSUME Subs!TypeOK,
         \/ \E i \in Subs!Ids : Subs!Activate(i)
         \/ \E h \in handles : Subs!Unsubscribe(h) \/ Subs!Detach(h)
         \/ \E K \in SUBSET Topics : Subs!Discard(K)
         \/ UNCHANGED setVars
  PROVE  /\ Subs!TypeOK' /\ UNCHANGED stack
         /\ \A l \in Topics : stored'[l] \subseteq stored[l]
<1>1. ASSUME NEW i \in Subs!Ids, Subs!Activate(i)
      PROVE  /\ Subs!TypeOK' /\ UNCHANGED stack
             /\ \A l \in Topics : stored'[l] \subseteq stored[l]
  BY <1>1 DEF Subs!Activate, Subs!TypeOK
<1>2. ASSUME NEW h \in handles, Subs!Unsubscribe(h) \/ Subs!Detach(h)
      PROVE  /\ Subs!TypeOK' /\ UNCHANGED stack
             /\ \A l \in Topics : stored'[l] \subseteq stored[l]
  BY <1>2 DEF Subs!Unsubscribe, Subs!Cancel, Subs!Detach, Subs!TypeOK
<1>3. ASSUME NEW K \in SUBSET Topics, Subs!Discard(K)
      PROVE  /\ Subs!TypeOK' /\ UNCHANGED stack
             /\ \A l \in Topics : stored'[l] \subseteq stored[l]
  <2>1. UNION {stored[k] : k \in K} \subseteq Subs!Ids
    BY DEF Subs!TypeOK
  <2> QED
    BY <1>3, <2>1 DEF Subs!Discard, Subs!TypeOK
<1>4. CASE UNCHANGED setVars
  BY <1>4 DEF setVars, Subs!TypeOK
<1> QED
  BY <1>1, <1>2, <1>3, <1>4

------------------------------------------------------------------------------
(***************************************************************************)
(* The queue of effects.                                                   *)
(***************************************************************************)
In(s) == {s[i] : i \in DOMAIN s}

OnceIn(s, x) == \A i, j \in DOMAIN s : s[i] = x /\ s[j] = x => i = j

LEMMA InSeq ==
  ASSUME NEW S, NEW s \in Seq(S)
  PROVE  /\ Len(s) \in Nat /\ DOMAIN s = 1 .. Len(s)
         /\ In(s) \subseteq S
         /\ s = <<>> <=> In(s) = {}
<1>1. Len(s) \in Nat /\ DOMAIN s = 1 .. Len(s) /\ In(s) \subseteq S
  BY LenProperties, ElementOfSeq DEF In
<1>2. ASSUME s # <<>> PROVE In(s) # {}
  <2>1. 1 \in DOMAIN s
    BY <1>1, <1>2, EmptySeq
  <2> QED
    BY <2>1 DEF In
<1>3. ASSUME s = <<>> PROVE In(s) = {}
  <2>1. DOMAIN s = {}
    BY <1>1, <1>3, EmptySeq
  <2> QED
    BY <2>1 DEF In
<1> QED
  BY <1>1, <1>2, <1>3

LEMMA Appended ==
  ASSUME NEW S, NEW s \in Seq(S), NEW x \in S
  PROVE  /\ Append(s, x) \in Seq(S)
         /\ In(Append(s, x)) = In(s) \cup {x}
         /\ \A y : OnceIn(s, y) /\ (y = x => x \notin In(s)) => OnceIn(Append(s, x), y)
<1> DEFINE a == Append(s, x)
           n == Len(s)
<1>1. /\ a \in Seq(S) /\ Len(a) = n + 1 /\ a[n + 1] = x
      /\ \A i \in 1 .. n : a[i] = s[i]
  BY AppendProperties
<1>2. n \in Nat /\ DOMAIN s = 1 .. n /\ DOMAIN a = 1 .. n + 1
  BY <1>1, InSeq
<1> HIDE DEF a, n
<1>3. \A i \in 1 .. n + 1 : i = n + 1 \/ i \in 1 .. n
  BY <1>2
<1>4. \A i \in 1 .. n : i \in 1 .. n + 1
  BY <1>2
<1>5. n + 1 \in 1 .. n + 1
  BY <1>2
<1>6. In(a) = In(s) \cup {x}
  BY <1>1, <1>2, <1>3, <1>4, <1>5 DEF In
<1>7. ASSUME NEW y, OnceIn(s, y), y = x => x \notin In(s) PROVE OnceIn(a, y)
  <2>1. y = x => \A i \in 1 .. n : s[i] # y
    BY <1>2, <1>7 DEF In
  <2> QED
    BY <1>1, <1>2, <1>3, <1>7, <2>1 DEF OnceIn
<1> QED
  BY <1>1, <1>6, <1>7 DEF a

LEMMA Tailed ==
  ASSUME NEW S, NEW s \in Seq(S), s # <<>>
  PROVE  /\ Head(s) \in S /\ Tail(s) \in Seq(S)
         /\ In(s) = In(Tail(s)) \cup {Head(s)}
         /\ \A y : OnceIn(s, y) => OnceIn(Tail(s), y) /\ (y = Head(s) => y \notin In(Tail(s)))
<1> DEFINE a == Tail(s)
           n == Len(s)
<1>1. /\ a \in Seq(S) /\ Len(a) = n - 1 /\ Head(s) = s[1] /\ Head(s) \in S
      /\ \A i \in 1 .. Len(a) : a[i] = s[i + 1]
  BY HeadTailProperties
<1>2. n \in Nat /\ n # 0 /\ DOMAIN s = 1 .. n /\ DOMAIN a = 1 .. n - 1
  BY <1>1, InSeq, EmptySeq
<1> HIDE DEF a, n
<1>3. \A i \in 1 .. n : i = 1 \/ (i - 1 \in 1 .. n - 1 /\ i = (i - 1) + 1)
  BY <1>2
<1>4. \A i \in 1 .. n - 1 : i + 1 \in 1 .. n /\ i + 1 # 1
  BY <1>2
<1>5. 1 \in 1 .. n
  BY <1>2
<1>6. \A i \in 1 .. n - 1 : a[i] = s[i + 1]
  BY <1>1
<1>7. In(s) = In(a) \cup {Head(s)}
  <2>1. In(s) \subseteq In(a) \cup {Head(s)}
    <3> SUFFICES ASSUME NEW i \in 1 .. n, i # 1 PROVE s[i] \in In(a)
      BY <1>1, <1>2 DEF In
    <3>1. i - 1 \in 1 .. n - 1 /\ a[i - 1] = s[i]
      BY <1>3, <1>6
    <3> QED
      BY <1>2, <3>1 DEF In
  <2>2. In(a) \cup {Head(s)} \subseteq In(s)
    BY <1>1, <1>2, <1>4, <1>5, <1>6 DEF In
  <2> QED
    BY <2>1, <2>2
<1>8. ASSUME NEW y, OnceIn(s, y) PROVE OnceIn(a, y) /\ (y = Head(s) => y \notin In(a))
  <2>1. ASSUME NEW i \in 1 .. n - 1, NEW k \in 1 .. n - 1, a[i] = y, a[k] = y PROVE i = k
    <3>1. i + 1 \in 1 .. n /\ k + 1 \in 1 .. n /\ s[i + 1] = y /\ s[k + 1] = y
      BY <1>4, <1>6, <2>1
    <3>2. i + 1 = k + 1
      BY <1>2, <1>8, <3>1 DEF OnceIn
    <3> QED
      BY <3>2
  <2>2. ASSUME NEW i \in 1 .. n - 1, y = Head(s) PROVE a[i] # y
    BY <1>1, <1>2, <1>4, <1>5, <1>6, <1>8, <2>2 DEF OnceIn
  <2> QED
    BY <1>2, <2>1, <2>2 DEF OnceIn, In
<1> QED
  BY <1>1, <1>7, <1>8 DEF a

LEMMA EmptyIs == \A S : In(<<>>) = {} /\ <<>> \in Seq(S) /\ Len(<<>>) = 0
BY InSeq, EmptySeq

Notice(m)   == [op |-> "notify", on |-> m]
Event(e, n) == [op |-> "emit", on |-> e, n |-> n]
Creation(e) == [op |-> "created", on |-> e]

LEMMA EffectShapes ==
  /\ NoEffect \in Effect /\ NoEffect.op = "none"
  /\ [op |-> "defer"] \in Effect
  /\ \A m \in Emitters : Notice(m) \in Effect
  /\ \A e \in Entities : Creation(e) \in Effect
  /\ \A e \in Entities, n \in 1 .. MaxFuel : Event(e, n) \in Effect
  /\ \A i \in Subs!Ids : [op |-> "activate", sub |-> i] \in Effect
BY DEF NoEffect, Effect, Notice, Creation, Event

LEMMA EffectIs ==
  ASSUME NEW x \in Effect
  PROVE  /\ x.op \in {"none", "defer", "notify", "emit", "created", "activate"}
         /\ x.op = "notify" => x.on \in Emitters /\ x = Notice(x.on)
         /\ x.op = "created" => x.on \in Entities /\ x = Creation(x.on)
         /\ x.op = "emit" => x.on \in Entities /\ x.n \in 1 .. MaxFuel
         /\ x.op = "activate" => x.sub \in Subs!Ids
BY DEF Effect, Notice, Creation

LEMMA TopicIs ==
  ASSUME NEW x \in Effect, x.op \in {"notify", "emit", "created"}
  PROVE  /\ TopicOf(x) \in Topics /\ x.on \in Emitters
         /\ TopicOf(x) \notin {"release"} \X Entities
         /\ \A k, e : TopicOf(x) = <<k, e>> => x.op = k /\ (k # "created" => e = x.on)
BY EffectIs DEF TopicOf, Topics, Emitters, AnyType

------------------------------------------------------------------------------
(***************************************************************************)
(* Flushes and their passes.                                               *)
(***************************************************************************)
InPass == {"pass", "listening"}

\* The flush that shutdown makes and that an update in it suspends.
Sus == Head(suspended)

\* A flush in the phase ph that applies x and releases b has the frame f.
Suits(ph, x, b, f) ==
  /\ ph = "pass" => /\ x.op \in {"notify", "emit", "created"} /\ x.on \in born \cup Globals
                    /\ f.op = "retain" /\ f.key = TopicOf(x)
  /\ ph # "pass" => x = NoEffect
  /\ ph \in {"listeners", "listening"} => b # <<>>
  /\ ph \notin {"release", "listeners", "listening"} => b = <<>>
  /\ ph = "listening" => f.op = "remove" /\ f.key = <<"release", Head(b)>>

SuspendedSuits ==
  suspended # <<>> => /\ Sus.phase \in InPass \cup {"defer"}
                      /\ Suits(Sus.phase, Sus.applying, Sus.batch, stack[1])
                      /\ Sus.phase # "defer" => stack[1].cur # Subs!NoId

Levels == FlushIsOutermost /\ Suits(phase, applying, batch, Subs!Top) /\ SuspendedSuits

\* How many frames the flushes have.
Frames == (IF phase \in InPass THEN 1 ELSE 0)
            + (IF suspended # <<>> /\ Sus.phase \in InPass THEN 1 ELSE 0)

LEMMA LevelFacts ==
  ASSUME TypeOK, Levels
  PROVE  /\ Subs!TypeOK /\ Depth = Frames /\ Frames \in 0 .. 2
         /\ stack = <<>> <=> Depth = 0
         /\ suspended # <<>> => flushing
         /\ flushing => phase \notin {"idle", "over"}
         /\ phase \notin {"idle", "defer"} /\ ~CallbackRuns => pendingUpdates = InFlush
         /\ InFlush \in 0 .. 1
<1>1. Subs!TypeOK
  BY DEF TypeOK
<1>2. Depth = Frames
  BY DEF Levels, FlushIsOutermost, Depth, Frames, InPass, Sus
<1>3. stack = <<>> <=> Depth = 0
  BY <1>1, EmptySeq DEF Depth, Subs!TypeOK
<1> QED
  BY <1>1, <1>2, <1>3 DEF Levels, FlushIsOutermost, Frames, InFlush

\* User code that neither begins nor ends an update or a flush.
Quiet == /\ UNCHANGED <<stack, pendingUpdates, flushing, suspended, phase, applying, batch>>
         /\ born \subseteq born'

LEMMA QuietLevels == TypeOK /\ Levels /\ Quiet => Levels'
<1> SUFFICES ASSUME TypeOK, Levels, Quiet PROVE Levels'
  OBVIOUS
<1>1. Subs!Top' = Subs!Top /\ Sus' = Sus /\ born \subseteq born'
      /\ UNCHANGED <<stack, pendingUpdates, flushing, suspended, phase, applying, batch>>
  BY DEF Quiet, Subs!Top, Subs!Depth, Sus
<1>2. CallbackRuns' = CallbackRuns /\ InFlush' = InFlush
  BY <1>1 DEF CallbackRuns, InFlush
<1>3. FlushIsOutermost'
  BY <1>1, <1>2 DEF Levels, FlushIsOutermost
<1>4. Suits(phase, applying, batch, Subs!Top)' /\ SuspendedSuits'
  BY <1>1 DEF Levels, Suits, SuspendedSuits, TopicOf
<1> QED
  BY <1>3, <1>4 DEF Levels

\* A flush goes on in the phase ph, outside of passes and of user code.
LEMMA OutsidePass ==
  ASSUME TypeOK, Levels, phase \notin InPass,
         UNCHANGED <<stack, pendingUpdates, flushing, suspended, born>>,
         phase' \in {"take", "release", "listeners", "apply", "defer"},
         phase \in {"idle", "defer"} => pendingUpdates = InFlush,
         phase = "idle" => ~flushing,
         applying' = NoEffect, phase' = "listeners" => batch' # <<>>,
         phase' \notin {"release", "listeners"} => batch' = <<>>
  PROVE  Levels'
<1>1. Sus' = Sus /\ InFlush' = InFlush /\ ~CallbackRuns' /\ ~CallbackRuns
  BY DEF Sus, InFlush, CallbackRuns, InPass
<1>2. FlushIsOutermost'
  BY <1>1 DEF Levels, FlushIsOutermost, InPass
<1>3. Suits(phase, applying, batch, Subs!Top)'
  BY DEF Suits
<1>4. SuspendedSuits'
  BY <1>1 DEF Levels, SuspendedSuits, Suits, TopicOf
<1> QED
  BY <1>2, <1>3, <1>4 DEF Levels

\* A pass begins.
LEMMA PassBegins ==
  ASSUME TypeOK, Levels, NEW k \in Topics, Subs!RetainBegin(k) \/ Subs!RemoveBegin(k),
         phase \notin InPass \cup {"idle", "defer"}, phase' \in InPass,
         UNCHANGED <<pendingUpdates, flushing, suspended, born>>,
         Suits(phase', applying', batch',
               [op |-> IF Subs!RetainBegin(k) THEN "retain" ELSE "remove", key |-> k])
  PROVE  Levels'
<1>1. Sus' = Sus /\ InFlush' = InFlush
  BY DEF Sus, InFlush
<1>2. /\ Depth' = Depth + 1 /\ \A j \in 1 .. Depth : stack'[j] = stack[j]
      /\ Subs!Top'.key = k /\ Subs!Top'.cur = Subs!NoId
      /\ Subs!Top'.op = IF Subs!RetainBegin(k) THEN "retain" ELSE "remove"
  BY SetBegins DEF TypeOK
<1>3. Depth = Frames /\ ~CallbackRuns /\ ~CallbackRuns' /\ pendingUpdates = InFlush
      /\ (flushing => phase \notin {"idle", "over"}) /\ (suspended # <<>> => flushing)
  BY <1>2, LevelFacts DEF CallbackRuns, InPass
<1>4. FlushIsOutermost'
  BY <1>1, <1>2, <1>3 DEF FlushIsOutermost, Frames, Depth, Sus, InPass
<1>5. Suits(phase, applying, batch, Subs!Top)'
  BY <1>2 DEF Suits, TopicOf
<1>6. SuspendedSuits'
  <2>1. suspended # <<>> /\ Sus.phase \in InPass => stack'[1] = stack[1]
    BY <1>2, <1>3 DEF Frames
  <2> QED
    BY <1>1, <2>1 DEF Levels, SuspendedSuits, Suits, TopicOf, InPass
<1> QED
  BY <1>4, <1>5, <1>6 DEF Levels

\* The pass on top goes on.
LEMMA PassGoesOn ==
  ASSUME TypeOK, Levels, Advances, phase \in InPass, CallbackRuns => pendingUpdates = InFlush,
         UNCHANGED <<pendingUpdates, flushing, suspended, phase, applying, batch, born>>
  PROVE  /\ Levels'
         /\ suspended # <<>> /\ Sus.phase \in InPass => stack'[1] = stack[1]
<1>1. Sus' = Sus /\ InFlush' = InFlush
  BY DEF Sus, InFlush
<1>2. Depth = Frames /\ pendingUpdates = InFlush
      /\ (flushing => phase \notin {"idle", "over"}) /\ (suspended # <<>> => flushing)
  BY LevelFacts DEF InPass
<1>3. suspended # <<>> /\ Sus.phase \in InPass => stack'[1] = stack[1]
  BY <1>2 DEF Advances, Frames
<1>4. FlushIsOutermost'
  BY <1>1, <1>2 DEF Levels, FlushIsOutermost, Advances, Frames, Depth, Sus, InPass
<1>5. Suits(phase, applying, batch, Subs!Top)'
  BY DEF Levels, Suits, Advances, TopicOf
<1>6. SuspendedSuits'
  BY <1>1, <1>3 DEF Levels, SuspendedSuits, Suits, TopicOf, InPass
<1> QED
  BY <1>3, <1>4, <1>5, <1>6 DEF Levels

\* The pass on top ends.
LEMMA PassEnds ==
  ASSUME TypeOK, Levels, Subs!RetainEnd \/ Subs!RemoveEnd, phase \in InPass,
         UNCHANGED <<pendingUpdates, flushing, suspended, born>>,
         phase' \in {"take", "release"}, applying' = NoEffect, phase' = "take" => batch' = <<>>
  PROVE  /\ Levels'
         /\ suspended # <<>> /\ Sus.phase \in InPass => stack'[1] = stack[1]
<1>1. Sus' = Sus /\ InFlush' = InFlush
  BY DEF Sus, InFlush
<1>2. /\ Depth' = Depth - 1 /\ \A j \in 1 .. Depth - 1 : stack'[j] = stack[j]
      /\ Subs!Top.cur = Subs!NoId
  BY SetEnds DEF TypeOK
<1>3. Depth = Frames /\ ~CallbackRuns /\ ~CallbackRuns' /\ pendingUpdates = InFlush
      /\ (flushing => phase \notin {"idle", "over"}) /\ (suspended # <<>> => flushing)
  BY <1>2, LevelFacts DEF CallbackRuns, InPass
<1>4. suspended # <<>> /\ Sus.phase \in InPass => stack'[1] = stack[1]
  BY <1>2, <1>3 DEF Frames
<1>5. FlushIsOutermost'
  BY <1>1, <1>2, <1>3 DEF FlushIsOutermost, Frames, Depth, Sus, InPass
<1>6. Suits(phase, applying, batch, Subs!Top)'
  BY DEF Suits
<1>7. SuspendedSuits'
  BY <1>1, <1>4 DEF Levels, SuspendedSuits, Suits, TopicOf, InPass
<1> QED
  BY <1>4, <1>5, <1>6, <1>7 DEF Levels

LEMMA UserIsQuiet ==
  ASSUME TypeOK,
         \/ Defer
         \/ \E e \in Entities : New(e) \/ Hold(e) \/ Release(e) \/ Emit(e)
         \/ \E t \in Topics : Observe(t) \/ ObserveNow(t)
         \/ \E h \in handles : Unsubscribe(h) \/ Detach(h)
         \/ \E m \in Emitters : Notify(m)
  PROVE  Quiet
<1>1. Subs!TypeOK
  BY DEF TypeOK
<1>2. ASSUME NEW t \in Topics, Observe(t) \/ ObserveNow(t) PROVE Quiet
  BY <1>1, <1>2, SetGrows DEF Observe, ObserveNow, Quiet, flushVars, levelVars, entityVars
<1>3. ASSUME NEW h \in handles, Unsubscribe(h) \/ Detach(h) PROVE Quiet
  BY <1>1, <1>3, SetShrinks DEF Unsubscribe, Detach, Quiet, flushVars, levelVars, entityVars
<1>4. ASSUME NEW m \in Emitters, Notify(m) PROVE Quiet
  BY <1>4 DEF Notify, Notified, Quiet, setVars, flushVars, levelVars, entityVars
<1>5. ASSUME NEW e \in Entities, New(e) \/ Hold(e) \/ Release(e) \/ Emit(e) PROVE Quiet
  BY <1>5
  DEF New, Hold, Release, Emit, EmitNumbered, Quiet, setVars, flushVars, levelVars, entityVars
<1>6. CASE Defer
  BY <1>6 DEF Defer, Quiet, setVars, flushVars, levelVars, entityVars
<1> QED
  BY <1>2, <1>3, <1>4, <1>5, <1>6

\* User code begins and ends updates.
LEMMA UpdateLevels ==
  ASSUME TypeOK, Levels, StartUpdate \/ EndUpdate(FALSE)
  PROVE  Levels'
<1>1. UNCHANGED <<setVars, flushVars, entityVars>> /\ (phase \in {"idle", "defer"} \/ CallbackRuns)
  BY DEF StartUpdate, EndUpdate, UserCode
<1>2. /\ Subs!Top' = Subs!Top /\ Sus' = Sus /\ InFlush' = InFlush /\ CallbackRuns' = CallbackRuns
      /\ UNCHANGED <<stack, flushing, suspended, phase, applying, batch, born>>
  BY <1>1
  DEF setVars, flushVars, levelVars, entityVars, Subs!Top, Subs!Depth, Sus, InFlush, CallbackRuns
<1>3. FlushIsOutermost'
  BY <1>1, <1>2 DEF Levels, FlushIsOutermost
<1>4. Suits(phase, applying, batch, Subs!Top)' /\ SuspendedSuits'
  BY <1>2 DEF Levels, Suits, SuspendedSuits, TopicOf
<1> QED
  BY <1>3, <1>4 DEF Levels

\* What BeginFlush suspends.
LEMMA HeadOfOne == \A x : Head(<<x>>) = x /\ <<x>> # <<>>
OBVIOUS

LEMMA FlushBegins ==
  ASSUME TypeOK, Levels, EndUpdate(TRUE), ~flushing, pendingUpdates = 1
  PROVE  /\ Levels'
         /\ suspended = <<>>
         /\ IF phase = "idle" THEN suspended' = <<>>
            ELSE /\ suspended' # <<>> /\ phase \in InPass \cup {"defer"}
                 /\ Sus' = [phase |-> phase, applying |-> applying, batch |-> batch]
                 /\ phase \in InPass => stack'[1] = Subs!Top
<1>1. /\ UNCHANGED <<stack, pendingUpdates, born>> /\ flushing' = TRUE /\ phase' = "take"
      /\ phase \in {"idle", "defer"} \/ CallbackRuns
      /\ phase = "idle" => UNCHANGED <<suspended, applying, batch>>
      /\ phase # "idle" =>
           /\ suspended' = <<[phase |-> phase, applying |-> applying, batch |-> batch]>>
           /\ applying' = NoEffect /\ batch' = <<>>
  BY DEF EndUpdate, BeginFlush, setVars, entityVars
<1>2. suspended = <<>> /\ Depth = Frames /\ Subs!TypeOK
  BY LevelFacts
<1>3. phase \in InPass => Subs!Top = stack[1]
  BY <1>2, TopFrame DEF Frames, Depth, Subs!Top, Subs!Depth
<1>4. phase # "idle" => /\ phase \in InPass \cup {"defer"} /\ suspended' # <<>>
                        /\ Sus' = [phase |-> phase, applying |-> applying, batch |-> batch]
  BY <1>1, HeadOfOne DEF Sus, CallbackRuns, InPass
<1>5. InFlush' = 1 /\ ~CallbackRuns'
  BY <1>1 DEF InFlush, CallbackRuns
<1>6. FlushIsOutermost'
  BY <1>1, <1>2, <1>4, <1>5 DEF FlushIsOutermost, Frames, Depth, Sus, InPass
<1>7. Suits(phase, applying, batch, Subs!Top)'
  BY <1>1 DEF Levels, Suits
<1>8. SuspendedSuits'
  <2>1. CASE phase = "idle"
    BY <1>1, <1>2, <2>1 DEF SuspendedSuits
  <2>2. CASE phase # "idle"
    <3>1. phase \in InPass => stack'[1].cur # Subs!NoId
      BY <1>1, <1>3 DEF CallbackRuns, InPass
    <3>2. Suits(phase, applying, batch, stack[1])
      BY <1>3 DEF Levels, Suits, InPass
    <3>3. Suits(Sus'.phase, Sus'.applying, Sus'.batch, stack'[1])
      BY <1>1, <1>4, <2>2, <3>2
    <3> QED
      BY <1>1, <1>4, <2>2, <3>1, <3>3 DEF SuspendedSuits, Suits, TopicOf
  <2> QED
    BY <2>1, <2>2
<1> QED
  BY <1>1, <1>2, <1>3, <1>4, <1>6, <1>7, <1>8 DEF Levels

LEMMA FlushEnds ==
  ASSUME TypeOK, Levels, FlushEnd
  PROVE  /\ Levels' /\ pendingUpdates' = 0 /\ suspended' = <<>>
         /\ UNCHANGED <<setVars, queueVars, entityVars, fuel, auxVars>>
         /\ IF suspended = <<>>
            THEN phase' \in {"idle", "over"} /\ UNCHANGED <<applying, batch>>
            ELSE /\ phase' = Sus.phase /\ applying' = Sus.applying /\ batch' = Sus.batch
                 /\ Sus.phase \in InPass => Subs!Top' = stack[1]
<1>1. /\ UNCHANGED <<setVars, queueVars, entityVars, fuel, auxVars, stack, born>>
      /\ phase = "apply" /\ suspended' = <<>> /\ flushing' = FALSE
      /\ pendingUpdates' = pendingUpdates - InFlush
      /\ suspended = <<>> => /\ phase' = IF flushing THEN "idle" ELSE "over"
                             /\ UNCHANGED <<applying, batch>>
      /\ suspended # <<>> => phase' = Sus.phase /\ applying' = Sus.applying /\ batch' = Sus.batch
  BY DEF FlushEnd, Sus, setVars, entityVars
<1>2. Depth = Frames /\ pendingUpdates = InFlush /\ InFlush \in 0 .. 1 /\ Subs!TypeOK
  BY <1>1, LevelFacts DEF CallbackRuns
<1>3. suspended # <<>> /\ Sus.phase \in InPass => Subs!Top' = stack[1]
  BY <1>1, <1>2 DEF Frames, Depth, Subs!Top, Subs!Depth, InPass
<1>4. pendingUpdates' = 0 /\ InFlush' = 0
  BY <1>1, <1>2 DEF InFlush
<1>5. suspended # <<>> => /\ Sus.phase \in InPass \cup {"defer"}
                          /\ Suits(Sus.phase, Sus.applying, Sus.batch, stack[1])
                          /\ Sus.phase # "defer" => stack[1].cur # Subs!NoId
  BY DEF Levels, SuspendedSuits
<1>6. FlushIsOutermost'
  <2>1. suspended = <<>> => phase' \in {"idle", "over"} /\ ~CallbackRuns'
    BY <1>1 DEF CallbackRuns
  <2>2. suspended # <<>> => phase' = "defer" \/ CallbackRuns'
    BY <1>1, <1>3, <1>5 DEF CallbackRuns, InPass
  <2> QED
    BY <1>1, <1>2, <1>4, <1>5, <2>1, <2>2 DEF FlushIsOutermost, Frames, Depth, InPass
<1>7. Suits(phase, applying, batch, Subs!Top)'
  <2>1. CASE suspended = <<>>
    BY <1>1, <2>1 DEF Levels, Suits
  <2>2. CASE suspended # <<>>
    BY <1>1, <1>3, <1>5, <2>2 DEF Suits, TopicOf, InPass
  <2> QED
    BY <2>1, <2>2
<1>8. SuspendedSuits'
  BY <1>1 DEF SuspendedSuits
<1> QED
  BY <1>1, <1>3, <1>4, <1>6, <1>7, <1>8 DEF Levels

------------------------------------------------------------------------------
(***************************************************************************)
(* The queue: a Notify effect for each pending emitter, one EntityCreated  *)
(* for an entity, and all about entities that were born.                   *)
(***************************************************************************)
Queue ==
  /\ \A m \in Emitters : m \in pendingNotify <=> Notice(m) \in In(effects)
  /\ \A m \in Emitters : OnceIn(effects, Notice(m))
  /\ \A e \in Entities : OnceIn(effects, Creation(e))
  /\ \A x \in In(effects) : x.op \in {"notify", "emit", "created"} => x.on \in born \cup Globals

\* Events are numbered by operations of user code.
Bounded == emitted + fuel <= MaxFuel

LEMMA QueueIsPending == TypeOK /\ Queue => PendingNotifyIsQueued
<1> SUFFICES ASSUME TypeOK, Queue PROVE PendingNotifyIsQueued
  OBVIOUS
<1>1. effects \in Seq(Effect) /\ pendingNotify \subseteq Emitters
  BY DEF TypeOK
<1>2. \A i \in DOMAIN effects : effects[i].op = "notify" =>
        /\ effects[i].on \in Emitters
        /\ effects[i] = Notice(effects[i].on) /\ effects[i] \in In(effects)
  BY <1>1, InSeq, EffectIs DEF In
<1>3. \A m \in pendingNotify :
        \E i \in DOMAIN effects : effects[i].op = "notify" /\ effects[i].on = m
  BY <1>1 DEF Queue, In, Notice
<1>4. pendingNotify =
        {x.on : x \in {effects[i] : i \in {j \in DOMAIN effects : effects[j].op = "notify"}}}
  BY <1>2, <1>3 DEF Queue
<1>5. \A i, j \in DOMAIN effects : effects[i].op = "notify" /\ effects[i] = effects[j] => i = j
  BY <1>2 DEF Queue, OnceIn
<1> QED
  BY <1>4, <1>5 DEF PendingNotifyIsQueued

LEMMA QueueKept == TypeOK /\ Queue /\ UNCHANGED queueVars /\ born \subseteq born' => Queue'
BY DEF Queue, queueVars

LEMMA QueuePushed ==
  ASSUME TypeOK, Queue, NEW x \in Effect, Push(x), born \subseteq born',
         x.op \in {"notify", "emit", "created"} => x.on \in born' \cup Globals,
         \A e \in Entities : x = Creation(e) => x \notin In(effects),
         IF x.op = "notify" THEN pendingNotify' = pendingNotify \cup {x.on} /\ x \notin In(effects)
         ELSE UNCHANGED pendingNotify
  PROVE  Queue' /\ effects' \in Seq(Effect)
<1>1. /\ effects' \in Seq(Effect)
      /\ In(effects') = In(effects) \cup {x}
      /\ \A y : OnceIn(effects, y) /\ (y = x => x \notin In(effects)) => OnceIn(effects', y)
  BY Appended DEF TypeOK, Push
<1>2. /\ \A m : Notice(m).op = "notify" /\ Notice(m).on = m
      /\ x.op = "notify" => x = Notice(x.on) /\ x.on \in Emitters
  BY EffectIs DEF Notice
<1>3. \A m \in Emitters : m \in pendingNotify' <=> Notice(m) \in In(effects')
  BY <1>1, <1>2 DEF Queue
<1>4. \A m \in Emitters : OnceIn(effects', Notice(m))
  BY <1>1, <1>2 DEF Queue
<1>5. \A e \in Entities : OnceIn(effects', Creation(e))
  BY <1>1 DEF Queue
<1>6. \A y \in In(effects') : y.op \in {"notify", "emit", "created"} => y.on \in born' \cup Globals
  BY <1>1 DEF Queue
<1> QED
  BY <1>1, <1>3, <1>4, <1>5, <1>6 DEF Queue

LEMMA QueuePopped ==
  ASSUME TypeOK, Queue, NEW x, NEW op, Pop(op, x), born \subseteq born',
         pendingNotify' = IF x.op = "notify" THEN pendingNotify \ {x.on} ELSE pendingNotify
  PROVE  /\ Queue' /\ effects' \in Seq(Effect)
         /\ x \in Effect /\ x.op = op /\ x \in In(effects)
         /\ op \in {"notify", "emit", "created"} => x.on \in born \cup Globals
         /\ In(effects) = In(effects') \cup {x}
         /\ \A e \in Entities : x = Creation(e) => x \notin In(effects')
<1>1. effects # <<>> /\ x = Head(effects) /\ x.op = op /\ effects' = Tail(effects)
  BY DEF Pop
<1>2. /\ x \in Effect /\ effects' \in Seq(Effect)
      /\ In(effects) = In(effects') \cup {x}
      /\ \A y : OnceIn(effects, y) => OnceIn(effects', y) /\ (y = x => y \notin In(effects'))
  BY <1>1, Tailed DEF TypeOK
<1>3. /\ \A m : Notice(m).op = "notify" /\ Notice(m).on = m
      /\ x.op = "notify" => x = Notice(x.on) /\ x.on \in Emitters
  BY <1>2, EffectIs DEF Notice
<1>4. \A m \in Emitters : m \in pendingNotify' <=> Notice(m) \in In(effects')
  BY <1>2, <1>3 DEF Queue
<1>5. Queue'
  BY <1>2, <1>4 DEF Queue
<1>6. \A e \in Entities : x = Creation(e) => x \notin In(effects')
  BY <1>2 DEF Queue
<1>7. op \in {"notify", "emit", "created"} => x.on \in born \cup Globals
  BY <1>1, <1>2 DEF Queue
<1> QED
  BY <1>1, <1>2, <1>5, <1>6, <1>7

LEMMA UserQueues ==
  ASSUME TypeOK, Queue, Bounded,
         \/ Defer
         \/ \E e \in Entities : New(e) \/ Hold(e) \/ Release(e) \/ Emit(e)
         \/ \E t \in Topics : Observe(t) \/ ObserveNow(t)
         \/ \E h \in handles : Unsubscribe(h) \/ Detach(h)
         \/ \E m \in Emitters : Notify(m)
  PROVE  Queue' /\ effects' \in Seq(Effect)
<1>1. effects \in Seq(Effect) /\ born \subseteq Entities
  BY DEF TypeOK
<1>2. CASE Defer
  <2> DEFINE x == [op |-> "defer"]
  <2>1. x \in Effect /\ Push(x) /\ UNCHANGED <<born, pendingNotify>>
    BY <1>2, EffectShapes DEF Defer, entityVars
  <2>2. x.op = "defer" /\ \A e : x # Creation(e)
    BY DEF Creation
  <2> QED
    BY <2>1, <2>2, QueuePushed
<1>3. ASSUME NEW e \in Entities, New(e) PROVE Queue' /\ effects' \in Seq(Effect)
  <2>1. /\ Creation(e) \in Effect /\ Push(Creation(e)) /\ UNCHANGED pendingNotify
        /\ e \notin born /\ born' = born \cup {e}
    BY <1>3, EffectShapes DEF New, Creation
  <2>2. e \notin Globals
    BY EntitiesAssumption
  <2>3. Creation(e).op = "created" /\ Creation(e).on = e
    BY DEF Creation
  <2>4. Creation(e) \notin In(effects)
    BY <2>1, <2>2, <2>3 DEF Queue
  <2> QED
    BY <2>1, <2>3, <2>4, QueuePushed
<1>4. ASSUME NEW e \in Entities, Emit(e) PROVE Queue' /\ effects' \in Seq(Effect)
  <2> DEFINE x == Event(e, emitted + 1)
  <2>1. emitted + 1 \in 1 .. MaxFuel
    BY <1>4, BoundsAssumption DEF Emit, EmitNumbered, UserCode, TypeOK, Bounded
  <2>2. x \in Effect /\ Push(x) /\ UNCHANGED <<born, pendingNotify>> /\ Referenced(e)
    BY <1>4, <2>1, EffectShapes DEF Emit, EmitNumbered, entityVars, Event
  <2>3. x.op = "emit" /\ x.on = e /\ \A d : x # Creation(d)
    BY DEF Event, Creation
  <2>4. e \in born \cup Globals
    BY <2>2 DEF Referenced
  <2> HIDE DEF x
  <2> QED
    BY <2>2, <2>3, <2>4, QueuePushed
<1>5. ASSUME NEW t \in Topics, Observe(t) PROVE Queue' /\ effects' \in Seq(Effect)
  <2> DEFINE x == [op |-> "activate", sub |-> next]
  <2>1. next \in Subs!Ids
    BY <1>5, NatFacts DEF Observe, Subs!Insert, Subs!NewSubscriber, Subs!AddSubscriber, TypeOK,
                         Subs!TypeOK, Subs!Ids
  <2>2. x \in Effect /\ Push(x) /\ UNCHANGED <<born, pendingNotify>>
    BY <1>5, <2>1, EffectShapes DEF Observe, entityVars
  <2>3. x.op = "activate" /\ \A d : x # Creation(d)
    BY DEF Creation
  <2> HIDE DEF x
  <2> QED
    BY <2>2, <2>3, QueuePushed
<1>6. ASSUME NEW m \in Emitters, Notify(m) PROVE Queue' /\ effects' \in Seq(Effect)
  <2>1. /\ pendingNotify' = pendingNotify \cup {m} /\ UNCHANGED born /\ m \in born \cup Globals
        /\ effects' = IF m \in pendingNotify THEN effects ELSE Append(effects, Notice(m))
    BY <1>6 DEF Notify, Notified, entityVars, Notice
  <2>2. Notice(m) \in Effect /\ Notice(m).op = "notify" /\ Notice(m).on = m
        /\ \A d : Notice(m) # Creation(d)
    BY EffectShapes DEF Notice, Creation
  <2>3. CASE m \in pendingNotify
    BY <1>1, <2>1, <2>3, QueueKept DEF queueVars
  <2>4. CASE m \notin pendingNotify
    <3>1. Notice(m) \notin In(effects)
      BY <2>4 DEF Queue
    <3>2. Push(Notice(m))
      BY <2>1, <2>4 DEF Push
    <3> QED
      BY <2>1, <2>2, <3>1, <3>2, QueuePushed
  <2> QED
    BY <2>3, <2>4
<1>7. ASSUME UNCHANGED queueVars, born \subseteq born' PROVE Queue' /\ effects' \in Seq(Effect)
  BY <1>1, <1>7, QueueKept DEF queueVars
<1>8. ASSUME NEW e \in Entities, Hold(e) \/ Release(e) PROVE Queue' /\ effects' \in Seq(Effect)
  BY <1>7, <1>8 DEF Hold, Release
<1>9. ASSUME NEW t \in Topics, ObserveNow(t) PROVE Queue' /\ effects' \in Seq(Effect)
  BY <1>7, <1>9 DEF ObserveNow, entityVars
<1>10. ASSUME NEW h \in handles, Unsubscribe(h) \/ Detach(h)
       PROVE  Queue' /\ effects' \in Seq(Effect)
  BY <1>7, <1>10 DEF Unsubscribe, Detach, entityVars
<1> QED
  BY <1>2, <1>3, <1>4, <1>5, <1>6, <1>8, <1>9, <1>10

------------------------------------------------------------------------------
(***************************************************************************)
(* The steps of a flush, and what each makes of passes and levels.         *)
(***************************************************************************)
LEMMA TakeDroppedIs ==
  ASSUME TypeOK, Levels, TakeDropped
  PROVE  Levels' /\ batch = <<>>
<1>1. /\ UNCHANGED <<stack, pendingUpdates, flushing, suspended, applying, born>>
      /\ phase = "take" /\ batch' = droppedIds
      /\ phase' = IF droppedIds = <<>> THEN "apply" ELSE "release"
  BY DEF TakeDropped, setVars, levelVars
<1>2. applying = NoEffect /\ batch = <<>>
  BY <1>1 DEF Levels, Suits
<1> QED
  BY <1>1, <1>2, OutsidePass DEF InPass

LEMMA ReleaseDroppedIs ==
  ASSUME TypeOK, Levels, ReleaseDropped
  PROVE  /\ Levels' /\ Subs!TypeOK' /\ phase = "release" /\ phase' \in {"take", "listeners"}
         /\ UNCHANGED batch
         /\ phase' = "take" => batch = <<>> /\ UNCHANGED setVars
         /\ phase' = "listeners" =>
              /\ batch # <<>> /\ Head(batch) \in Entities
              /\ stored' = [k \in Topics |-> IF k \in {"notify", "emit"} \X {Head(batch)} THEN {}
                                             ELSE stored[k]]
<1>1. /\ UNCHANGED <<pendingUpdates, flushing, suspended, applying, batch, born>>
      /\ phase = "release"
      /\ IF batch = <<>> THEN phase' = "take" /\ UNCHANGED setVars
         ELSE phase' = "listeners" /\ Subs!Discard({"notify", "emit"} \X {Head(batch)})
  BY DEF ReleaseDropped, ReleaseFirst, levelVars, entityVars
<1>2. Subs!TypeOK
  BY DEF TypeOK
<1>3. batch # <<>> => Head(batch) \in Entities
  BY HeadTailProperties DEF TypeOK
<1>4. batch # <<>> => {"notify", "emit"} \X {Head(batch)} \in SUBSET Topics
  BY <1>3 DEF Topics, Emitters
<1>5. Subs!TypeOK' /\ UNCHANGED stack
  BY <1>1, <1>2, <1>4, SetShrinks
<1>6. applying = NoEffect
  BY <1>1 DEF Levels, Suits
<1>7. Levels'
  BY <1>1, <1>5, <1>6, OutsidePass DEF InPass
<1> QED
  BY <1>1, <1>3, <1>5, <1>7 DEF Subs!Discard

LEMMA CallListenersIs ==
  ASSUME TypeOK, Levels, CallReleaseListeners
  PROVE  /\ Levels' /\ Subs!TypeOK' /\ phase = "listeners"
         /\ batch # <<>> /\ Head(batch) \in Entities
         /\ IF stored[<<"release", Head(batch)>>] = {}
            THEN phase' = "release" /\ batch' = Tail(batch) /\ UNCHANGED setVars
            ELSE /\ phase' = "listening" /\ batch' = batch
                 /\ \A l \in Topics : stored'[l] = IF l = <<"release", Head(batch)>> THEN {}
                                                   ELSE stored[l]
         /\ suspended # <<>> /\ Sus.phase \in InPass => stack'[1] = stack[1]
<1> DEFINE t == <<"release", Head(batch)>>
<1>1. /\ UNCHANGED <<pendingUpdates, flushing, suspended, applying, born>>
      /\ phase = "listeners"
      /\ IF stored[t] = {} THEN phase' = "release" /\ batch' = Tail(batch) /\ UNCHANGED setVars
         ELSE phase' = "listening" /\ Subs!RemoveBegin(t) /\ UNCHANGED batch
  BY DEF CallReleaseListeners, NextDropped, levelVars, entityVars
<1>2. Subs!TypeOK /\ batch # <<>> /\ applying = NoEffect
  BY <1>1 DEF TypeOK, Levels, Suits
<1>3. Head(batch) \in Entities
  BY <1>2, HeadTailProperties DEF TypeOK
<1>4. t \in Topics
  BY <1>3 DEF Topics
<1>5. CASE stored[t] = {}
  <2>1. UNCHANGED stack /\ Subs!TypeOK'
    BY <1>1, <1>2, <1>5, SetShrinks
  <2> QED
    BY <1>1, <1>2, <1>3, <1>5, <2>1, OutsidePass DEF InPass
<1>6. CASE stored[t] # {}
  <2>1. /\ Subs!TypeOK' /\ \A j \in 1 .. Depth : stack'[j] = stack[j]
        /\ \A l \in Topics : stored'[l] = IF l = t THEN {} ELSE stored[l]
    BY <1>1, <1>2, <1>4, <1>6, SetBegins
  <2>2. suspended # <<>> /\ Sus.phase \in InPass => stack'[1] = stack[1]
    BY <2>1, LevelFacts DEF Frames
  <2>3. ~Subs!RetainBegin(t)
    BY <1>3 DEF Subs!RetainBegin
  <2>4. Suits(phase', applying', batch',
              [op |-> IF Subs!RetainBegin(t) THEN "retain" ELSE "remove", key |-> t])
    BY <1>1, <1>2, <1>6, <2>3 DEF Suits
  <2>5. Levels'
    BY <1>1, <1>4, <1>6, <2>4, PassBegins DEF InPass
  <2> QED
    BY <1>1, <1>2, <1>3, <1>6, <2>1, <2>2, <2>5
<1> QED
  BY <1>5, <1>6

LEMMA ListenersIs ==
  ASSUME TypeOK, Levels, ReleaseListener
  PROVE  /\ Levels' /\ Subs!TypeOK' /\ UNCHANGED stored /\ phase = "listening"
         /\ suspended # <<>> /\ Sus.phase \in InPass => stack'[1] = stack[1]
<1>1. /\ UNCHANGED <<pendingUpdates, flushing, suspended, phase, applying, batch, born>>
      /\ phase = "listening" /\ (Subs!RemoveSkip \/ Subs!RemoveCall)
  BY DEF ReleaseListener, flushVars, levelVars, entityVars
<1>2. Subs!TypeOK' /\ Advances /\ Subs!Top.cur = Subs!NoId
  BY <1>1, SetVisits, SetCalls DEF TypeOK
<1> QED
  BY <1>1, <1>2, PassGoesOn DEF InPass, CallbackRuns, Advances

LEMMA ListenersEndIs ==
  ASSUME TypeOK, Levels, ReleaseListenersEnd
  PROVE  /\ Levels' /\ Subs!TypeOK' /\ UNCHANGED stored /\ phase = "listening"
         /\ phase' = "release" /\ batch' = Tail(batch) /\ batch # <<>>
         /\ suspended # <<>> /\ Sus.phase \in InPass => stack'[1] = stack[1]
<1>1. /\ UNCHANGED <<pendingUpdates, flushing, suspended, applying, born>>
      /\ phase = "listening" /\ Subs!RemoveEnd /\ phase' = "release" /\ batch' = Tail(batch)
  BY DEF ReleaseListenersEnd, NextDropped, levelVars, entityVars
<1>2. Subs!TypeOK' /\ UNCHANGED stored
  BY <1>1, SetEnds DEF TypeOK
<1>3. batch # <<>> /\ applying = NoEffect
  BY <1>1 DEF Levels, Suits
<1> QED
  BY <1>1, <1>2, <1>3, PassEnds DEF InPass

LEMMA SkipIs ==
  ASSUME TypeOK, Levels, PassSkip
  PROVE  /\ Levels' /\ Subs!TypeOK' /\ UNCHANGED stored /\ phase = "pass"
         /\ Subs!Top.cur = Subs!NoId /\ Subs!Top'.cur = Subs!NoId
         /\ suspended # <<>> /\ Sus.phase \in InPass => stack'[1] = stack[1]
<1>1. /\ UNCHANGED <<pendingUpdates, flushing, suspended, phase, applying, batch, born>>
      /\ phase = "pass" /\ (Subs!RetainSkip \/ Subs!RetainDiscard)
  BY DEF PassSkip, flushVars, levelVars, entityVars
<1>2. /\ Subs!TypeOK' /\ Advances /\ Subs!Top.cur = Subs!NoId /\ Subs!Top'.cur = Subs!NoId
  BY <1>1, SetVisits DEF TypeOK
<1> QED
  BY <1>1, <1>2, PassGoesOn DEF InPass, CallbackRuns, Advances

LEMMA CallIs ==
  ASSUME TypeOK, Levels, PassCall
  PROVE  /\ Levels' /\ Subs!TypeOK' /\ UNCHANGED stored /\ phase = "pass"
         /\ Subs!Top.cur = Subs!NoId
         /\ IF Referenced(applying.on) THEN Subs!Top'.cur # Subs!NoId ELSE Subs!Top'.cur = Subs!NoId
         /\ suspended # <<>> /\ Sus.phase \in InPass => stack'[1] = stack[1]
<1>1. /\ UNCHANGED <<pendingUpdates, flushing, suspended, phase, applying, batch, born>>
      /\ phase = "pass"
      /\ IF Referenced(applying.on) THEN Subs!RetainCall ELSE Subs!RetainDecline
  BY DEF PassCall, Called, flushVars, levelVars
<1>2. /\ Subs!TypeOK' /\ Advances /\ Subs!Top.cur = Subs!NoId
      /\ IF Referenced(applying.on) THEN Subs!Top'.cur # Subs!NoId ELSE Subs!Top'.cur = Subs!NoId
  BY <1>1, SetVisits, SetCalls DEF TypeOK
<1> QED
  BY <1>1, <1>2, PassGoesOn DEF InPass, CallbackRuns, Advances

LEMMA EndIs ==
  ASSUME TypeOK, Levels, PassEnd
  PROVE  /\ Levels' /\ Subs!TypeOK' /\ phase = "pass" /\ Subs!Top.cur = Subs!NoId
         /\ \A l \in Topics : l # TopicOf(applying) => stored'[l] = stored[l]
         /\ suspended # <<>> /\ Sus.phase \in InPass => stack'[1] = stack[1]
<1>1. /\ UNCHANGED <<pendingUpdates, flushing, suspended, batch, born>>
      /\ phase = "pass" /\ Subs!RetainEnd /\ phase' = "take" /\ applying' = NoEffect
  BY DEF PassEnd, levelVars
<1>2. /\ Subs!TypeOK' /\ Subs!Top.cur = Subs!NoId
      /\ \A l \in Topics : l # Subs!Top.key => stored'[l] = stored[l]
  BY <1>1, SetEnds DEF TypeOK
<1>3. Subs!Top.key = TopicOf(applying) /\ batch = <<>>
  BY <1>1 DEF Levels, Suits
<1> QED
  BY <1>1, <1>2, <1>3, PassEnds DEF InPass

LEMMA ReturnsIs ==
  ASSUME TypeOK, Levels, NEW keep \in BOOLEAN, CallbackReturns(keep)
  PROVE  /\ Levels' /\ Subs!TypeOK' /\ UNCHANGED stored /\ phase \in InPass
         /\ Subs!Top.cur # Subs!NoId /\ Subs!Top'.cur = Subs!NoId
         /\ suspended # <<>> /\ Sus.phase \in InPass => stack'[1] = stack[1]
<1>1. /\ UNCHANGED <<pendingUpdates, flushing, suspended, phase, applying, batch, born>>
      /\ CallbackRuns /\ pendingUpdates = InFlush
      /\ Subs!RetainReturn(keep) \/ Subs!RemoveReturn
  BY DEF CallbackReturns, flushVars, levelVars
<1>2. /\ Subs!TypeOK' /\ Advances /\ Subs!Top.cur # Subs!NoId /\ Subs!Top'.cur = Subs!NoId
  BY <1>1, SetReturns DEF TypeOK
<1> QED
  BY <1>1, <1>2, PassGoesOn DEF InPass, CallbackRuns, Advances

LEMMA DeferReturnsIs ==
  ASSUME TypeOK, Levels, DeferReturns
  PROVE  Levels'
<1>1. /\ UNCHANGED <<stack, pendingUpdates, flushing, suspended, applying, batch, born>>
      /\ phase = "defer" /\ pendingUpdates = InFlush /\ phase' = "take"
  BY DEF DeferReturns, setVars, levelVars, entityVars
<1>2. applying = NoEffect /\ batch = <<>>
  BY <1>1 DEF Levels, Suits
<1> QED
  BY <1>1, <1>2, OutsidePass DEF InPass

LEMMA ShutdownIs ==
  ASSUME TypeOK, Levels, Shutdown
  PROVE  /\ Levels' /\ phase = "idle" /\ phase' = "take"
         /\ UNCHANGED <<setVars, flushing, suspended, applying, batch, queueVars, entityVars>>
<1>1. /\ UNCHANGED <<setVars, pendingUpdates, flushing, suspended, applying, batch>>
      /\ UNCHANGED <<queueVars, entityVars>>
      /\ phase = "idle" /\ pendingUpdates = 0 /\ phase' = "take"
  BY DEF Shutdown, BeginFlush
<1>2. applying = NoEffect /\ batch = <<>> /\ ~flushing
  BY <1>1, LevelFacts DEF Levels, Suits
<1>3. InFlush = 0 /\ UNCHANGED <<stack, born>>
  BY <1>1, <1>2 DEF InFlush, setVars, entityVars
<1> QED
  BY <1>1, <1>2, <1>3, OutsidePass DEF InPass

LEMMA ApplyIs ==
  ASSUME TypeOK, Levels, Queue, NEW x, ApplyActivate(x) \/ ApplyDefer(x)
  PROVE  /\ Levels' /\ Subs!TypeOK' /\ UNCHANGED <<stack, stored>>
         /\ phase = "apply" /\ phase' \in {"take", "defer"} /\ x.op \in {"activate", "defer"}
<1>1. PICK op \in {"activate", "defer"} : Pop(op, x) /\ (op = "activate" => Subs!Activate(x.sub))
  BY DEF ApplyActivate, ApplyDefer
<1>2. /\ UNCHANGED <<pendingUpdates, flushing, suspended, applying, batch, pendingNotify, born>>
      /\ phase = "apply" /\ phase' \in {"take", "defer"}
  BY DEF ApplyActivate, ApplyDefer, Pop, levelVars, entityVars
<1>3. x \in Effect /\ x.op = op
  BY <1>1, Tailed DEF Pop, TypeOK
<1>4. op = "activate" => x.sub \in Subs!Ids
  BY <1>3, EffectIs
<1>5. Subs!TypeOK' /\ UNCHANGED <<stack, stored>>
  <2>1. CASE ApplyActivate(x)
    <3>1. Subs!Activate(x.sub) /\ x.op = "activate"
      BY <2>1 DEF ApplyActivate, Pop
    <3>2. x.sub \in Subs!Ids
      BY <1>3, <3>1, EffectIs
    <3> QED
      BY <3>1, <3>2, SetShrinks DEF TypeOK, Subs!Activate
  <2>2. CASE ApplyDefer(x)
    BY <2>2, SetShrinks DEF ApplyDefer, TypeOK, setVars
  <2> QED
    BY <2>1, <2>2
<1>6. applying = NoEffect /\ batch = <<>>
  BY <1>2 DEF Levels, Suits
<1> QED
  BY <1>2, <1>3, <1>5, <1>6, OutsidePass DEF InPass

LEMMA StartIs ==
  ASSUME TypeOK, Levels, Queue, NEW x, ApplyToSubscribers(x)
  PROVE  /\ Levels' /\ Subs!TypeOK' /\ phase = "apply" /\ batch = <<>> /\ UNCHANGED batch
         /\ x.op \in {"notify", "emit", "created"} /\ x \in Effect /\ Pop(x.op, x)
         /\ IF stored[TopicOf(x)] = {} THEN phase' = "take" /\ UNCHANGED <<setVars, applying>>
            ELSE /\ phase' = "pass" /\ applying' = x /\ Subs!Top'.cur = Subs!NoId
                 /\ \A l \in Topics : stored'[l] = IF l = TopicOf(x) THEN {} ELSE stored[l]
         /\ suspended # <<>> /\ Sus.phase \in InPass => stack'[1] = stack[1]
<1> DEFINE t == TopicOf(x)
<1>1. /\ UNCHANGED <<pendingUpdates, flushing, suspended, batch, born>>
      /\ phase = "apply" /\ x.op \in {"notify", "emit", "created"} /\ Pop(x.op, x)
      /\ IF stored[t] = {} THEN phase' = "take" /\ UNCHANGED <<setVars, applying>>
         ELSE phase' = "pass" /\ applying' = x /\ Subs!RetainBegin(t)
      /\ pendingNotify' = IF x.op = "notify" THEN pendingNotify \ {x.on} ELSE pendingNotify
  BY DEF ApplyToSubscribers, StartEffectPass, Pop, levelVars
<1>2. x \in Effect /\ x.on \in born \cup Globals
  BY <1>1, QueuePopped
<1>3. t \in Topics
  BY <1>1, <1>2, TopicIs
<1>4. Subs!TypeOK /\ applying = NoEffect /\ batch = <<>>
  BY <1>1 DEF TypeOK, Levels, Suits
<1>5. CASE stored[t] = {}
  <2>1. UNCHANGED stack /\ Subs!TypeOK'
    BY <1>1, <1>4, <1>5, SetShrinks
  <2> QED
    BY <1>1, <1>2, <1>4, <1>5, <2>1, OutsidePass DEF InPass
<1>6. CASE stored[t] # {}
  <2>1. /\ Subs!TypeOK' /\ \A j \in 1 .. Depth : stack'[j] = stack[j]
        /\ \A l \in Topics : stored'[l] = IF l = t THEN {} ELSE stored[l]
        /\ Subs!Top'.cur = Subs!NoId
    BY <1>1, <1>3, <1>4, <1>6, SetBegins
  <2>2. suspended # <<>> /\ Sus.phase \in InPass => stack'[1] = stack[1]
    BY <2>1, LevelFacts DEF Frames
  <2>3. Suits(phase', applying', batch',
              [op |-> IF Subs!RetainBegin(t) THEN "retain" ELSE "remove", key |-> t])
    BY <1>1, <1>2, <1>4, <1>6 DEF Suits
  <2>4. Levels'
    BY <1>1, <1>3, <1>6, <2>3, PassBegins DEF InPass
  <2> QED
    BY <1>1, <1>2, <1>4, <1>6, <2>1, <2>2, <2>4
<1> QED
  BY <1>5, <1>6

------------------------------------------------------------------------------
(***************************************************************************)
(* All the steps: levels and the queue.                                    *)
(***************************************************************************)
UserActs == \/ Defer
            \/ \E e \in Entities : New(e) \/ Hold(e) \/ Release(e) \/ Emit(e)
            \/ \E t \in Topics : Observe(t) \/ ObserveNow(t)
            \/ \E h \in handles : Unsubscribe(h) \/ Detach(h)
            \/ \E m \in Emitters : Notify(m)

PassActs == \/ ReleaseListener \/ PassSkip \/ PassCall \/ PassEnd \/ ReleaseListenersEnd
            \/ \E keep \in BOOLEAN : CallbackReturns(keep)

FlushActs == \/ TakeDropped \/ ReleaseDropped \/ CallReleaseListeners \/ DeferReturns \/ Shutdown
             \/ \E x : ApplyActivate(x) \/ ApplyDefer(x) \/ ApplyToSubscribers(x)

\* Every step is one of these.
LEMMA Steps ==
  ASSUME [Next]_vars
  PROVE  \/ UserActs \/ PassActs \/ FlushActs
         \/ StartUpdate \/ EndUpdate(FALSE) \/ FlushEnd
         \/ EndUpdate(TRUE) /\ ~flushing /\ pendingUpdates = 1
         \/ UNCHANGED vars
BY DEF Next, UserStep, Returns, FlushStep, FinishUpdate, UserActs, PassActs, FlushActs, EndUpdate

LEMMA NextLevels == TypeOK /\ Levels /\ Queue /\ [Next]_vars => Levels'
<1> SUFFICES ASSUME TypeOK, Levels, Queue, [Next]_vars PROVE Levels'
  OBVIOUS
<1>1. CASE UserActs
  BY <1>1, UserIsQuiet, QuietLevels DEF UserActs
<1>2. CASE PassActs
  BY <1>2, ListenersIs, SkipIs, CallIs, EndIs, ListenersEndIs, ReturnsIs DEF PassActs
<1>3. CASE FlushActs
  BY <1>3, TakeDroppedIs, ReleaseDroppedIs, CallListenersIs, DeferReturnsIs, ShutdownIs, ApplyIs,
     StartIs DEF FlushActs
<1>4. CASE UNCHANGED vars
  <2>1. Quiet
    BY <1>4 DEF vars, Quiet, setVars, flushVars, levelVars, entityVars
  <2> QED
    BY <2>1, QuietLevels
<1> QED
  BY <1>1, <1>2, <1>3, <1>4, Steps, UpdateLevels, FlushBegins, FlushEnds

LEMMA NextQueue == TypeOK /\ Queue /\ Bounded /\ [Next]_vars => Queue' /\ effects' \in Seq(Effect)
<1> SUFFICES ASSUME TypeOK, Queue, Bounded, [Next]_vars PROVE Queue' /\ effects' \in Seq(Effect)
  OBVIOUS
<1>1. ASSUME UNCHANGED queueVars, born \subseteq born' PROVE Queue' /\ effects' \in Seq(Effect)
  BY <1>1, QueueKept DEF queueVars, TypeOK
<1>2. CASE UserActs
  BY <1>2, UserQueues DEF UserActs
<1>3. CASE PassActs
  BY <1>1, <1>3
  DEF PassActs, ReleaseListener, PassSkip, PassCall, Called, PassEnd, ReleaseListenersEnd,
      CallbackReturns, entityVars
<1>4. CASE FlushActs
  <2>1. ASSUME NEW x, ApplyActivate(x) \/ ApplyDefer(x) \/ ApplyToSubscribers(x)
        PROVE  Queue' /\ effects' \in Seq(Effect)
    <3>1. PICK op : (Pop(op, x) /\ op # "notify") \/ (ApplyToSubscribers(x) /\ Pop(op, x))
      BY <2>1 DEF ApplyActivate, ApplyDefer, ApplyToSubscribers, StartEffectPass
    <3>2. /\ born \subseteq born'
          /\ pendingNotify' = IF x.op = "notify" THEN pendingNotify \ {x.on} ELSE pendingNotify
      BY <2>1 DEF ApplyActivate, ApplyDefer, ApplyToSubscribers, StartEffectPass, Pop, entityVars
    <3> QED
      BY <3>1, <3>2, QueuePopped
  <2>2. CASE TakeDropped \/ ReleaseDropped \/ CallReleaseListeners \/ DeferReturns \/ Shutdown
    BY <1>1, <2>2
    DEF TakeDropped, ReleaseDropped, ReleaseFirst, CallReleaseListeners, DeferReturns, Shutdown,
        entityVars
  <2> QED
    BY <1>4, <2>1, <2>2 DEF FlushActs
<1>5. CASE StartUpdate \/ EndUpdate(FALSE) \/ EndUpdate(TRUE) \/ FlushEnd
  BY <1>1, <1>5 DEF StartUpdate, EndUpdate, FlushEnd, entityVars
<1>6. CASE UNCHANGED vars
  BY <1>1, <1>6 DEF vars, entityVars
<1> QED
  BY <1>2, <1>3, <1>4, <1>5, <1>6, Steps

------------------------------------------------------------------------------
(***************************************************************************)
(* The handles to an entity: user code's, its EntityCreated effect's while *)
(* it is queued or applied, and one that each callback is given.           *)
(***************************************************************************)
One(p) == IF p THEN 1 ELSE 0

\* A pass with the frame f, in the phase ph of a flush that applies x.
Takes(ph, x, f, e) == ph = "pass" /\ x.on = e /\ (x.op = "created" \/ f.cur # Subs!NoId)

UserHas(e)  == One(e \in held)
QueueHas(e) == One(Creation(e) \in In(effects))
PassHas(e)  == One(Takes(phase, applying, Subs!Top, e))
SusHas(e)   == One(suspended # <<>> /\ Takes(Sus.phase, Sus.applying, stack[1], e))

Counted == \A e \in Entities : refs[e] = UserHas(e) + QueueHas(e) + PassHas(e) + SusHas(e)

HandlesCounted == /\ Counted /\ refs \in [Entities -> Nat]
                  /\ born \subseteq Entities /\ held \subseteq born

LEMMA CountsAre ==
  ASSUME NEW e
  PROVE  /\ UserHas(e) \in 0 .. 1 /\ QueueHas(e) \in 0 .. 1
         /\ PassHas(e) \in 0 .. 1 /\ SusHas(e) \in 0 .. 1
BY DEF UserHas, QueueHas, PassHas, SusHas, One

LEMMA PassKept ==
  ASSUME UNCHANGED <<stack, suspended, phase, applying>>, NEW e
  PROVE  PassHas(e)' = PassHas(e) /\ SusHas(e)' = SusHas(e)
BY DEF PassHas, SusHas, Takes, Subs!Top, Subs!Depth, Sus

LEMMA SusKept ==
  ASSUME UNCHANGED suspended, suspended # <<>> /\ Sus.phase \in InPass => stack'[1] = stack[1],
         NEW e
  PROVE  SusHas(e)' = SusHas(e)
BY DEF SusHas, Takes, Sus, InPass

LEMMA UserCounts ==
  ASSUME TypeOK, Levels, Queue, Bounded, HandlesCounted, UserActs
  PROVE  HandlesCounted'
<1>1. /\ refs \in [Entities -> Nat] /\ born \subseteq Entities /\ held \subseteq born
      /\ effects \in Seq(Effect) /\ Entities \cap Globals = {}
  BY EntitiesAssumption DEF TypeOK
<1>2. \A e \in Entities : PassHas(e)' = PassHas(e) /\ SusHas(e)' = SusHas(e)
  BY UserIsQuiet, PassKept DEF UserActs, Quiet
<1>3. ASSUME NEW x \in Effect, effects' = Append(effects, x) \/ UNCHANGED effects, x.op # "created",
             UNCHANGED <<born, held, refs>>
      PROVE  HandlesCounted'
  <2>1. In(effects') = In(effects) \cup {x} \/ In(effects') = In(effects)
    <3>1. In(Append(effects, x)) = In(effects) \cup {x}
      BY <1>1, <1>3, Appended
    <3> QED
      BY <1>3, <3>1
  <2>2. \A e : Creation(e).op = "created"
    BY DEF Creation
  <2>3. \A e \in Entities : UserHas(e)' = UserHas(e) /\ QueueHas(e)' = QueueHas(e)
    <3> SUFFICES ASSUME NEW e \in Entities
                 PROVE  UserHas(e)' = UserHas(e) /\ QueueHas(e)' = QueueHas(e)
      OBVIOUS
    <3>1. Creation(e) \in In(effects') <=> Creation(e) \in In(effects)
      BY <1>3, <2>1, <2>2
    <3> QED
      BY <1>3, <3>1 DEF UserHas, QueueHas
  <2> QED
    BY <1>1, <1>2, <1>3, <2>3 DEF HandlesCounted, Counted
<1>4. CASE Defer
  <2>1. [op |-> "defer"] \in Effect /\ effects' = Append(effects, [op |-> "defer"])
        /\ UNCHANGED <<born, held, refs>>
    BY <1>4, EffectShapes DEF Defer, Push, entityVars
  <2> QED
    BY <1>3, <2>1
<1>5. ASSUME NEW t \in Topics, Observe(t)
      PROVE  HandlesCounted'
  <2> DEFINE x == [op |-> "activate", sub |-> next]
  <2>1. next \in Subs!Ids
    BY <1>5, NatFacts DEF Observe, Subs!Insert, Subs!NewSubscriber, Subs!AddSubscriber, TypeOK,
                         Subs!TypeOK, Subs!Ids
  <2>2. /\ x \in Effect /\ x.op = "activate"
        /\ effects' = Append(effects, x) /\ UNCHANGED <<born, held, refs>>
    BY <1>5, <2>1, EffectShapes DEF Observe, Push, entityVars
  <2> HIDE DEF x
  <2> QED
    BY <1>3, <2>2
<1>6. ASSUME NEW m \in Emitters, Notify(m)
      PROVE  HandlesCounted'
  <2>1. /\ effects' = Append(effects, Notice(m)) \/ UNCHANGED effects
        /\ UNCHANGED <<born, held, refs>>
    BY <1>6 DEF Notify, Notified, Notice, entityVars
  <2>2. Notice(m) \in Effect /\ Notice(m).op = "notify"
    BY EffectShapes DEF Notice
  <2> QED
    BY <1>3, <2>1, <2>2
<1>7. ASSUME NEW e \in Entities, Emit(e)
      PROVE  HandlesCounted'
  <2> DEFINE x == Event(e, emitted + 1)
  <2>1. emitted + 1 \in 1 .. MaxFuel
    BY <1>7, BoundsAssumption DEF Emit, EmitNumbered, UserCode, TypeOK, Bounded
  <2>2. /\ x \in Effect /\ x.op = "emit"
        /\ effects' = Append(effects, x) /\ UNCHANGED <<born, held, refs>>
    BY <1>7, <2>1, EffectShapes DEF Emit, EmitNumbered, Event, Push, entityVars
  <2> HIDE DEF x
  <2> QED
    BY <1>3, <2>2
<1>8. ASSUME UNCHANGED <<effects, born, held, refs>>
      PROVE  HandlesCounted'
  BY <1>3, <1>8, EffectShapes
<1>9. ASSUME NEW e \in Entities, Hold(e)
      PROVE  HandlesCounted'
  <2>1. /\ e \in born /\ e \notin held /\ held' = held \cup {e} /\ UNCHANGED <<born, effects>>
        /\ refs' = [refs EXCEPT ![e] = @ + 1]
    BY <1>1, <1>9 DEF Hold, Referenced, AddRef, queueVars
  <2>2. \A d \in Entities : /\ QueueHas(d)' = QueueHas(d)
                            /\ UserHas(d)' = IF d = e THEN UserHas(d) + 1 ELSE UserHas(d)
    BY <2>1 DEF QueueHas, UserHas, One
  <2> QED
    BY <1>1, <1>2, <2>1, <2>2, CountsAre DEF HandlesCounted, Counted
<1>10. ASSUME NEW e \in Entities, Release(e)
       PROVE  HandlesCounted'
  <2>1. /\ e \in held /\ held' = held \ {e} /\ UNCHANGED <<born, effects>>
        /\ refs' = [refs EXCEPT ![e] = @ - 1]
    BY <1>1, <1>10 DEF Release, DropRef, queueVars
  <2>2. \A d \in Entities : /\ QueueHas(d)' = QueueHas(d)
                            /\ UserHas(d) = IF d = e THEN UserHas(d)' + 1 ELSE UserHas(d)'
    BY <2>1 DEF QueueHas, UserHas, One
  <2>3. \A d \in Entities : UserHas(d)' \in 0 .. 1
    BY DEF UserHas, One
  <2>4. Counted'
    <3> SUFFICES ASSUME NEW d \in Entities
                 PROVE  refs'[d] = UserHas(d)' + QueueHas(d)' + PassHas(d)' + SusHas(d)'
      BY DEF Counted
    <3>1. refs[d] = UserHas(d) + QueueHas(d) + PassHas(d) + SusHas(d)
      BY DEF HandlesCounted, Counted
    <3>2. refs'[d] = IF d = e THEN refs[d] - 1 ELSE refs[d]
      BY <1>1, <2>1
    <3> QED
      BY <1>2, <2>2, <2>3, <3>1, <3>2, CountsAre
  <2>5. \A d \in Entities : refs'[d] \in Nat
    BY <1>1, <1>2, <2>2, <2>3, <2>4, CountsAre DEF Counted
  <2>6. refs' \in [Entities -> Nat]
    BY <1>1, <2>1, <2>5
  <2> QED
    BY <1>1, <2>1, <2>4, <2>6 DEF HandlesCounted
<1>11. ASSUME NEW e \in Entities, New(e)
       PROVE  HandlesCounted'
  <2>1. /\ e \notin born /\ born' = born \cup {e} /\ held' = held \cup {e}
        /\ refs' = [refs EXCEPT ![e] = 2] /\ effects' = Append(effects, Creation(e))
    BY <1>11 DEF New, Push, Creation
  <2>2. In(effects') = In(effects) \cup {Creation(e)}
    BY <1>1, <2>1, EffectShapes, Appended
  <2>3. Creation(e).op = "created" /\ \A d : Creation(d).on = d
    BY DEF Creation
  <2>4. Creation(e) \notin In(effects)
    BY <1>1, <2>1, <2>3 DEF Queue
  <2>5. PassHas(e) = 0 /\ SusHas(e) = 0
    BY <1>1, <2>1 DEF PassHas, SusHas, Takes, One, Levels, SuspendedSuits, Suits
  <2>6. \A d \in Entities : /\ QueueHas(d)' = IF d = e THEN 1 ELSE QueueHas(d)
                            /\ UserHas(d)' = IF d = e THEN 1 ELSE UserHas(d)
    BY <2>1, <2>2, <2>3 DEF QueueHas, UserHas, One
  <2> QED
    BY <1>1, <1>2, <2>1, <2>5, <2>6, CountsAre DEF HandlesCounted, Counted
<1>12. ASSUME NEW t \in Topics, ObserveNow(t)
       PROVE  HandlesCounted'
  BY <1>8, <1>12 DEF ObserveNow, queueVars, entityVars
<1>13. ASSUME NEW h \in handles, Unsubscribe(h) \/ Detach(h)
       PROVE  HandlesCounted'
  BY <1>8, <1>13 DEF Unsubscribe, Detach, queueVars, entityVars
<1> QED
  BY <1>4, <1>5, <1>6, <1>7, <1>9, <1>10, <1>11, <1>12, <1>13 DEF UserActs

LEMMA CountsNext ==
  ASSUME NEW e
  PROVE  /\ UserHas(e)' \in 0 .. 1 /\ QueueHas(e)' \in 0 .. 1
         /\ PassHas(e)' \in 0 .. 1 /\ SusHas(e)' \in 0 .. 1
BY DEF UserHas, QueueHas, PassHas, SusHas, One

\* The handles that a step makes and drops are those whose holders it changes.
LEMMA Recounted ==
  ASSUME HandlesCounted, UNCHANGED <<born, held>>, NEW r \in [Entities -> Int], refs' = r,
         \A e \in Entities :
           r[e] = refs[e] + (QueueHas(e)' - QueueHas(e)) + (PassHas(e)' - PassHas(e))
                    + (SusHas(e)' - SusHas(e))
  PROVE  HandlesCounted'
<1>1. \A e \in Entities : UserHas(e)' = UserHas(e)
  BY DEF UserHas
<1>2. ASSUME NEW e \in Entities
      PROVE  /\ r[e] = UserHas(e)' + QueueHas(e)' + PassHas(e)' + SusHas(e)'
             /\ r[e] \in Nat
  <2>1. refs[e] = UserHas(e) + QueueHas(e) + PassHas(e) + SusHas(e)
    BY DEF HandlesCounted, Counted
  <2>2. r[e] = refs[e] + (QueueHas(e)' - QueueHas(e)) + (PassHas(e)' - PassHas(e))
                 + (SusHas(e)' - SusHas(e))
    OBVIOUS
  <2> QED
    BY <1>1, <2>1, <2>2, CountsAre, CountsNext
<1> QED
  BY <1>2 DEF HandlesCounted, Counted

LEMMA Unchanged ==
  ASSUME HandlesCounted, UNCHANGED <<born, held, refs>>,
         \A e \in Entities : QueueHas(e)' = QueueHas(e) /\ PassHas(e)' = PassHas(e)
                               /\ SusHas(e)' = SusHas(e)
  PROVE  HandlesCounted'
<1> DEFINE r == refs
<1>1. r \in [Entities -> Int] /\ refs' = r
  BY DEF HandlesCounted
<1>2. \A e \in Entities :
        r[e] = refs[e] + (QueueHas(e)' - QueueHas(e)) + (PassHas(e)' - PassHas(e))
                 + (SusHas(e)' - SusHas(e))
  BY <1>1, CountsAre
<1> HIDE DEF r
<1> QED
  BY <1>1, <1>2, Recounted

\* Outside of passes over observers and listeners.
LEMMA OutsideCounts ==
  ASSUME HandlesCounted, phase # "pass", phase' # "pass",
         UNCHANGED <<born, held, refs, suspended>>,
         suspended # <<>> /\ Sus.phase \in InPass => stack'[1] = stack[1],
         \A e \in Entities : QueueHas(e)' = QueueHas(e)
  PROVE  HandlesCounted'
<1>1. \A e \in Entities : PassHas(e)' = PassHas(e)
  BY DEF PassHas, Takes, One
<1>2. \A e \in Entities : SusHas(e)' = SusHas(e)
  BY SusKept
<1> QED
  BY <1>1, <1>2, Unchanged

LEMMA PopCounts ==
  ASSUME TypeOK, Queue, NEW x, Pop(x.op, x), born \subseteq born',
         pendingNotify' = IF x.op = "notify" THEN pendingNotify \ {x.on} ELSE pendingNotify,
         NEW e \in Entities
  PROVE  QueueHas(e) = QueueHas(e)' + One(x.op = "created" /\ x.on = e)
<1>1. /\ x \in Effect /\ In(effects) = In(effects') \cup {x}
      /\ x = Creation(e) => x \notin In(effects')
  BY QueuePopped
<1>2. x.op = "created" /\ x.on = e <=> x = Creation(e)
  BY <1>1, EffectIs DEF Creation
<1> QED
  BY <1>1, <1>2 DEF QueueHas, One

LEMMA SkipCounts ==
  ASSUME TypeOK, Levels, HandlesCounted, PassSkip
  PROVE  HandlesCounted'
<1>1. UNCHANGED <<born, held, refs, effects, phase, applying, suspended>>
  BY DEF PassSkip, entityVars, queueVars, flushVars, levelVars
<1>2. \A e \in Entities : QueueHas(e)' = QueueHas(e)
  BY <1>1 DEF QueueHas
<1>3. \A e \in Entities : PassHas(e)' = PassHas(e) /\ SusHas(e)' = SusHas(e)
  BY <1>1, SkipIs, SusKept DEF PassHas, Takes
<1> QED
  BY <1>1, <1>2, <1>3, Unchanged

\* The emitter of the effect being applied.
LEMMA Emitter ==
  ASSUME Levels, HandlesCounted, phase = "pass"
  PROVE  /\ applying.op \in {"notify", "emit", "created"}
         /\ applying.on \in Globals \/ applying.on \in Entities
         /\ applying.on \in Globals => applying.on \notin Entities
BY EntitiesAssumption DEF Levels, Suits, HandlesCounted

\* A handle to m more, or one less.
LEMMA RefsMore ==
  ASSUME refs \in [Entities -> Nat], NEW m, m \in Globals \/ m \in Entities, AddRef(m)
  PROVE  /\ refs' \in [Entities -> Int]
         /\ \A e \in Entities : refs'[e] = refs[e] + One(e = m)
BY EntitiesAssumption DEF AddRef, One

LEMMA RefsLess ==
  ASSUME refs \in [Entities -> Nat], NEW m, m \in Globals \/ m \in Entities, DropRef(m)
  PROVE  /\ refs' \in [Entities -> Int]
         /\ \A e \in Entities : refs'[e] = refs[e] - One(e = m)
BY EntitiesAssumption DEF DropRef, One

LEMMA CallCounts ==
  ASSUME TypeOK, Levels, HandlesCounted, PassCall
  PROVE  HandlesCounted'
<1> DEFINE m == applying.on
<1>1. /\ UNCHANGED <<born, held, effects, phase, applying, suspended>> /\ phase = "pass"
      /\ IF Referenced(m) /\ applying.op # "created" THEN AddRef(m) ELSE UNCHANGED refs
  BY DEF PassCall, Called, queueVars, flushVars, levelVars
<1>2. \A e \in Entities : QueueHas(e)' = QueueHas(e) /\ SusHas(e)' = SusHas(e)
  BY <1>1, CallIs, SusKept DEF QueueHas
<1>3. refs \in [Entities -> Nat]
  BY DEF HandlesCounted
<1>4. CASE Referenced(m) /\ applying.op # "created"
  <2>1. refs' \in [Entities -> Int] /\ \A e \in Entities : refs'[e] = refs[e] + One(e = m)
    BY <1>1, <1>3, <1>4, Emitter, RefsMore
  <2>2. \A e \in Entities : PassHas(e)' = PassHas(e) + One(e = m)
    BY <1>1, <1>4, CallIs DEF PassHas, Takes, One
  <2> DEFINE r == refs'
  <2>3. \A e \in Entities :
          r[e] = refs[e] + (QueueHas(e)' - QueueHas(e)) + (PassHas(e)' - PassHas(e))
                   + (SusHas(e)' - SusHas(e))
    BY <1>2, <1>3, <2>1, <2>2, CountsAre DEF One
  <2>4. r \in [Entities -> Int] /\ refs' = r
    BY <2>1
  <2> HIDE DEF r
  <2> QED
    BY <1>1, <2>3, <2>4, Recounted
<1>5. CASE ~(Referenced(m) /\ applying.op # "created")
  <2>1. \A e \in Entities : PassHas(e)' = PassHas(e)
    BY <1>1, <1>5, CallIs DEF PassHas, Takes
  <2> QED
    BY <1>1, <1>2, <1>5, <2>1, Unchanged
<1> QED
  BY <1>4, <1>5

LEMMA PassEndCounts ==
  ASSUME TypeOK, Levels, HandlesCounted, PassEnd
  PROVE  HandlesCounted'
<1> DEFINE m == applying.on
<1>1. /\ UNCHANGED <<born, held, effects, suspended>> /\ phase = "pass" /\ phase' # "pass"
      /\ IF applying.op = "created" THEN DropRef(m) ELSE UNCHANGED refs
  BY DEF PassEnd, queueVars, levelVars, KeepRefs
<1>2. \A e \in Entities : QueueHas(e)' = QueueHas(e) /\ SusHas(e)' = SusHas(e)
  BY <1>1, EndIs, SusKept DEF QueueHas
<1>3. refs \in [Entities -> Nat]
  BY DEF HandlesCounted
<1>4. \A e \in Entities : PassHas(e)' = 0
  BY <1>1 DEF PassHas, Takes, One
<1>5. CASE applying.op = "created"
  <2>1. refs' \in [Entities -> Int] /\ \A e \in Entities : refs'[e] = refs[e] - One(e = m)
    BY <1>1, <1>3, <1>5, Emitter, RefsLess
  <2>2. \A e \in Entities : PassHas(e) = One(e = m)
    BY <1>1, <1>5 DEF PassHas, Takes, One
  <2> DEFINE r == refs'
  <2>3. \A e \in Entities :
          r[e] = refs[e] + (QueueHas(e)' - QueueHas(e)) + (PassHas(e)' - PassHas(e))
                   + (SusHas(e)' - SusHas(e))
    BY <1>2, <1>3, <1>4, <2>1, <2>2, CountsAre DEF One
  <2>4. r \in [Entities -> Int] /\ refs' = r
    BY <2>1
  <2> HIDE DEF r
  <2> QED
    BY <1>1, <2>3, <2>4, Recounted
<1>6. CASE applying.op # "created"
  <2>1. \A e \in Entities : PassHas(e) = 0
    BY <1>1, <1>6, EndIs DEF PassHas, Takes, One
  <2> QED
    BY <1>1, <1>2, <1>4, <1>6, <2>1, Unchanged
<1> QED
  BY <1>5, <1>6

LEMMA ReturnCounts ==
  ASSUME TypeOK, Levels, HandlesCounted, NEW keep \in BOOLEAN, CallbackReturns(keep)
  PROVE  HandlesCounted'
<1> DEFINE m == applying.on
<1>1. /\ UNCHANGED <<born, held, effects, suspended, phase, applying>> /\ phase \in InPass
      /\ IF applying.op \in {"notify", "emit"} THEN DropRef(m) ELSE UNCHANGED refs
  BY DEF CallbackReturns, CallbackRuns, queueVars, flushVars, levelVars, KeepRefs, InPass
<1>2. \A e \in Entities : QueueHas(e)' = QueueHas(e) /\ SusHas(e)' = SusHas(e)
  BY <1>1, ReturnsIs, SusKept DEF QueueHas
<1>3. refs \in [Entities -> Nat]
  BY DEF HandlesCounted
<1>4. phase # "pass" => applying.op = "none"
  BY EffectShapes DEF Levels, Suits
<1>5. CASE applying.op \in {"notify", "emit"}
  <2>1. phase = "pass"
    BY <1>4, <1>5
  <2>2. refs' \in [Entities -> Int] /\ \A e \in Entities : refs'[e] = refs[e] - One(e = m)
    BY <1>1, <1>3, <1>5, <2>1, Emitter, RefsLess
  <2>3. \A e \in Entities : PassHas(e) = PassHas(e)' + One(e = m) /\ PassHas(e)' = 0
    BY <1>1, <1>5, <2>1, ReturnsIs DEF PassHas, Takes, One
  <2> DEFINE r == refs'
  <2>4. \A e \in Entities :
          r[e] = refs[e] + (QueueHas(e)' - QueueHas(e)) + (PassHas(e)' - PassHas(e))
                   + (SusHas(e)' - SusHas(e))
    BY <1>2, <1>3, <2>2, <2>3, CountsAre DEF One
  <2>5. r \in [Entities -> Int] /\ refs' = r
    BY <2>2
  <2> HIDE DEF r
  <2> QED
    BY <1>1, <2>4, <2>5, Recounted
<1>6. CASE applying.op \notin {"notify", "emit"}
  <2>1. \A e \in Entities : PassHas(e)' = PassHas(e)
    <3>1. phase = "pass" => applying.op = "created"
      BY <1>6, Emitter
    <3> QED
      BY <1>1, <3>1 DEF PassHas, Takes, One
  <2> QED
    BY <1>1, <1>2, <1>6, <2>1, Unchanged
<1> QED
  BY <1>5, <1>6

LEMMA StartCounts ==
  ASSUME TypeOK, Levels, Queue, HandlesCounted, NEW x, ApplyToSubscribers(x)
  PROVE  HandlesCounted'
<1> DEFINE m == x.on
           starts == stored[TopicOf(x)] # {}
<1>1. /\ UNCHANGED <<born, held, suspended>> /\ phase = "apply"
      /\ IF starts THEN phase' = "pass" /\ applying' = x ELSE phase' = "take"
      /\ IF ~starts /\ x.op = "created" THEN DropRef(m) ELSE UNCHANGED refs
      /\ pendingNotify' = IF x.op = "notify" THEN pendingNotify \ {x.on} ELSE pendingNotify
  BY DEF ApplyToSubscribers, StartEffectPass, Pop, KeepRefs, levelVars
<1>2. x \in Effect /\ Pop(x.op, x) /\ (starts => Subs!Top'.cur = Subs!NoId)
  BY StartIs
<1>3. \A e \in Entities : QueueHas(e) = QueueHas(e)' + One(x.op = "created" /\ m = e)
  BY <1>1, <1>2, PopCounts
<1>4. \A e \in Entities : SusHas(e)' = SusHas(e)
  BY <1>1, StartIs, SusKept
<1>5. refs \in [Entities -> Nat] /\ \A e \in Entities : PassHas(e) = 0
  BY <1>1 DEF HandlesCounted, PassHas, Takes, One
<1>6. CASE ~starts /\ x.op = "created"
  <2>1. refs' \in [Entities -> Int] /\ \A e \in Entities : refs'[e] = refs[e] - One(e = m)
    BY <1>1, <1>2, <1>5, <1>6, EffectIs, RefsLess
  <2>2. \A e \in Entities : PassHas(e)' = 0
    BY <1>1, <1>6 DEF PassHas, Takes, One
  <2> DEFINE r == refs'
  <2>3. \A e \in Entities :
          r[e] = refs[e] + (QueueHas(e)' - QueueHas(e)) + (PassHas(e)' - PassHas(e))
                   + (SusHas(e)' - SusHas(e))
    BY <1>3, <1>4, <1>5, <1>6, <2>1, <2>2, CountsAre, CountsNext DEF One
  <2>4. r \in [Entities -> Int] /\ refs' = r
    BY <2>1
  <2> HIDE DEF r
  <2> QED
    BY <1>1, <2>3, <2>4, Recounted
<1>7. CASE starts \/ x.op # "created"
  <2>1. \A e \in Entities : PassHas(e)' = One(x.op = "created" /\ m = e)
    BY <1>1, <1>2, <1>7 DEF PassHas, Takes, One
  <2> DEFINE r == refs
  <2>2. r \in [Entities -> Int] /\ refs' = r
    BY <1>1, <1>5, <1>7
  <2>3. \A e \in Entities :
          r[e] = refs[e] + (QueueHas(e)' - QueueHas(e)) + (PassHas(e)' - PassHas(e))
                   + (SusHas(e)' - SusHas(e))
    BY <1>3, <1>4, <1>5, <2>1, CountsAre, CountsNext DEF One
  <2> HIDE DEF r
  <2> QED
    BY <1>1, <2>2, <2>3, Recounted
<1> QED
  BY <1>6, <1>7

\* A flush inside shutdown's takes over and gives back the pass.
LEMMA FlushCounts ==
  ASSUME TypeOK, Levels, HandlesCounted,
         FlushEnd \/ (EndUpdate(TRUE) /\ ~flushing /\ pendingUpdates = 1)
  PROVE  HandlesCounted'
<1>1. UNCHANGED <<born, held, refs, effects>>
  BY DEF FlushEnd, EndUpdate, entityVars, queueVars
<1>2. \A e \in Entities : QueueHas(e)' = QueueHas(e)
  BY <1>1 DEF QueueHas
<1>3. \A e \in Entities : PassHas(e)' + SusHas(e)' = PassHas(e) + SusHas(e)
  <2>1. CASE FlushEnd
    <3>1. phase = "apply" /\ suspended' = <<>>
      BY <2>1 DEF FlushEnd
    <3>2. CASE suspended = <<>>
      BY <2>1, <3>1, <3>2, FlushEnds DEF PassHas, SusHas, Takes, One
    <3>3. CASE suspended # <<>>
      BY <2>1, <3>1, <3>3, FlushEnds DEF PassHas, SusHas, Takes, One, InPass
    <3> QED
      BY <3>2, <3>3
  <2>2. CASE EndUpdate(TRUE) /\ ~flushing /\ pendingUpdates = 1
    <3>1. phase' = "take"
      BY <2>2 DEF EndUpdate, BeginFlush
    <3>2. CASE phase = "idle"
      BY <2>2, <3>1, <3>2, FlushBegins DEF PassHas, SusHas, Takes, One
    <3>3. CASE phase # "idle"
      BY <2>2, <3>1, <3>3, FlushBegins DEF PassHas, SusHas, Takes, One, InPass
    <3> QED
      BY <3>2, <3>3
  <2> QED
    BY <2>1, <2>2
<1> DEFINE r == refs
<1>4. \A e \in Entities :
        r[e] = refs[e] + (QueueHas(e)' - QueueHas(e)) + (PassHas(e)' - PassHas(e))
                 + (SusHas(e)' - SusHas(e))
  BY <1>2, <1>3, CountsAre, CountsNext DEF HandlesCounted
<1>5. r \in [Entities -> Int] /\ refs' = r
  BY <1>1 DEF HandlesCounted
<1> HIDE DEF r
<1> QED
  BY <1>1, <1>4, <1>5, Recounted

LEMMA NextCounts ==
  ASSUME TypeOK, Levels, Queue, Bounded, HandlesCounted, [Next]_vars
  PROVE  HandlesCounted'
<1>1. CASE UserActs
  BY <1>1, UserCounts
<1>2. CASE PassActs
  <2>1. CASE ReleaseListener \/ ReleaseListenersEnd
    <3>1. /\ UNCHANGED <<born, held, refs, suspended, effects>>
          /\ phase # "pass" /\ phase' # "pass"
      BY <2>1
      DEF ReleaseListener, ReleaseListenersEnd, NextDropped, entityVars, queueVars, flushVars,
          levelVars
    <3> QED
      BY <2>1, <3>1, ListenersIs, ListenersEndIs, OutsideCounts DEF QueueHas
  <2> QED
    BY <1>2, <2>1, SkipCounts, CallCounts, PassEndCounts, ReturnCounts DEF PassActs
<1>3. CASE FlushActs
  <2>1. CASE TakeDropped \/ ReleaseDropped \/ CallReleaseListeners \/ DeferReturns \/ Shutdown
    <3>1. /\ UNCHANGED <<born, held, refs, suspended, effects>>
          /\ phase # "pass" /\ phase' # "pass"
      BY <2>1
      DEF TakeDropped, ReleaseDropped, ReleaseFirst, CallReleaseListeners, DeferReturns, Shutdown,
          BeginFlush, NextDropped, entityVars, queueVars, levelVars
    <3>2. suspended # <<>> /\ Sus.phase \in InPass => stack'[1] = stack[1]
      BY <2>1, CallListenersIs
      DEF TakeDropped, ReleaseDropped, ReleaseFirst, DeferReturns, Shutdown, setVars, Subs!Discard
    <3> QED
      BY <3>1, <3>2, OutsideCounts DEF QueueHas
  <2>2. ASSUME NEW x, ApplyActivate(x) \/ ApplyDefer(x) PROVE HandlesCounted'
    <3>1. /\ UNCHANGED <<born, held, refs, suspended, pendingNotify>> /\ Pop(x.op, x)
          /\ x.op \in {"activate", "defer"}
      BY <2>2 DEF ApplyActivate, ApplyDefer, Pop, entityVars, levelVars
    <3>2. \A e \in Entities : QueueHas(e)' = QueueHas(e)
      <4>1. \A e \in Entities : QueueHas(e) = QueueHas(e)' + One(x.op = "created" /\ x.on = e)
        BY <3>1, PopCounts
      <4> QED
        BY <3>1, <4>1, CountsNext DEF One
    <3> QED
      BY <2>2, <3>1, <3>2, ApplyIs, OutsideCounts
  <2>3. ASSUME NEW x, ApplyToSubscribers(x) PROVE HandlesCounted'
    BY <2>3, StartCounts
  <2> QED
    BY <1>3, <2>1, <2>2, <2>3 DEF FlushActs
<1>4. CASE StartUpdate \/ EndUpdate(FALSE) \/ UNCHANGED vars
  <2>1. UNCHANGED <<born, held, refs, effects, stack, suspended, phase, applying>>
    BY <1>4 DEF StartUpdate, EndUpdate, vars, setVars, flushVars, levelVars, queueVars, entityVars
  <2> QED
    BY <2>1, PassKept, Unchanged DEF QueueHas
<1>5. CASE FlushEnd \/ (EndUpdate(TRUE) /\ ~flushing /\ pendingUpdates = 1)
  BY <1>5, FlushCounts
<1>6. \/ UserActs \/ PassActs \/ FlushActs
      \/ StartUpdate \/ EndUpdate(FALSE) \/ FlushEnd
      \/ EndUpdate(TRUE) /\ ~flushing /\ pendingUpdates = 1
      \/ UNCHANGED vars
  BY Steps
<1> QED
  BY <1>1, <1>2, <1>3, <1>4, <1>5, <1>6

------------------------------------------------------------------------------
(***************************************************************************)
(* Types.                                                                  *)
(***************************************************************************)
Suspension == [phase : Phases, applying : Effect, batch : Seq(Entities)]

Controls == /\ pendingUpdates \in 0 .. MaxNest /\ flushing \in BOOLEAN
            /\ phase \in Phases /\ applying \in Effect /\ batch \in Seq(Entities)
            /\ suspended \in Seq(Suspension) /\ Len(suspended) <= 1

Marks == /\ pendingNotify \subseteq Emitters
         /\ droppedIds \in Seq(Entities)
         /\ fuel \in 0 .. MaxFuel /\ emitted \in 0 .. MaxFuel /\ Bounded
         /\ owed \subseteq Subs!Ids \X (0 .. MaxFuel)
         /\ early \subseteq Subs!Ids
         /\ lost \subseteq Subs!Ids \X (0 .. MaxFuel)

LEMMA TypesAre ==
  TypeOK /\ Bounded <=> /\ Subs!TypeOK /\ Controls /\ Marks /\ effects \in Seq(Effect)
                        /\ refs \in [Entities -> Nat] /\ born \subseteq Entities
                        /\ held \subseteq born
BY DEF TypeOK, Controls, Marks, Suspension

\* Steps that change none of these.
LEMMA MarksKept ==
  ASSUME Marks, UNCHANGED <<fuel, auxVars, pendingNotify, droppedIds>>
  PROVE  Marks'
BY DEF Marks, Bounded, auxVars

LEMMA ControlsKept ==
  ASSUME Controls, UNCHANGED <<pendingUpdates, flushing, phase, applying, batch, suspended>>
  PROVE  Controls'
BY DEF Controls

LEMMA ListenersAre ==
  ASSUME Subs!TypeOK, NEW t
  PROVE  Listeners(t) \subseteq Subs!Ids
BY NatFacts DEF Listeners, Subs!Born, Subs!Ids, Subs!TypeOK

LEMMA DropLists ==
  ASSUME droppedIds \in Seq(Entities), NEW m, DropRef(m)
  PROVE  droppedIds' \in Seq(Entities)
BY AppendProperties DEF DropRef

LEMMA UserSets == TypeOK /\ UserActs => Subs!TypeOK'
<1> SUFFICES ASSUME TypeOK, UserActs PROVE Subs!TypeOK'
  OBVIOUS
<1>1. Subs!TypeOK
  BY DEF TypeOK
<1>2. ASSUME NEW t \in Topics, Observe(t) \/ ObserveNow(t) PROVE Subs!TypeOK'
  BY <1>1, <1>2, SetGrows DEF Observe, ObserveNow
<1>3. ASSUME NEW h \in handles, Unsubscribe(h) \/ Detach(h) PROVE Subs!TypeOK'
  BY <1>1, <1>3, SetShrinks DEF Unsubscribe, Detach
<1>4. CASE UNCHANGED setVars
  BY <1>1, <1>4, SetShrinks
<1> QED
  BY <1>2, <1>3, <1>4 DEF UserActs, Defer, New, Hold, Release, Emit, EmitNumbered, Notify, Notified

LEMMA UserMarks ==
  ASSUME TypeOK, Bounded, UserActs
  PROVE  Marks'
<1>1. Subs!TypeOK /\ Marks /\ MaxFuel \in Nat
  BY TypesAre, NatFacts
<1>2. fuel > 0 /\ fuel' = fuel - 1
  BY DEF UserActs, Defer, New, Hold, Release, Emit, EmitNumbered, Notify, Notified, Observe,
         ObserveNow, Unsubscribe, Detach, UserCode
<1>3. ASSUME UNCHANGED <<auxVars, pendingNotify, droppedIds>> PROVE Marks'
  BY <1>1, <1>2, <1>3 DEF Marks, Bounded, auxVars
<1>4. ASSUME NEW e \in Entities, Release(e) PROVE Marks'
  <2>1. UNCHANGED <<auxVars, pendingNotify>> /\ droppedIds' \in Seq(Entities)
    BY <1>1, <1>4, DropLists DEF Release, queueVars, Marks
  <2> QED
    BY <1>1, <1>2, <2>1 DEF Marks, Bounded, auxVars
<1>5. ASSUME NEW e \in Entities, Emit(e) PROVE Marks'
  <2> DEFINE ls == Listeners(<<"emit", e>>)
  <2>1. /\ emitted' = emitted + 1 /\ owed' = owed \cup ((ls \cap active) \X {emitted + 1})
        /\ UNCHANGED <<pendingNotify, droppedIds, early, lost>>
    BY <1>5 DEF Emit, EmitNumbered, entityVars
  <2>2. ls \subseteq Subs!Ids
    BY <1>1, ListenersAre
  <2>3. emitted + 1 \in 0 .. MaxFuel
    BY <1>1, <1>2 DEF Marks, Bounded
  <2> HIDE DEF ls
  <2>4. owed' \subseteq Subs!Ids \X (0 .. MaxFuel)
    BY <1>1, <2>1, <2>2, <2>3 DEF Marks
  <2> QED
    BY <1>1, <1>2, <2>1, <2>3, <2>4 DEF Marks, Bounded
<1>6. ASSUME NEW m \in Emitters, Notify(m) PROVE Marks'
  <2> DEFINE ls == Listeners(<<"notify", m>>)
  <2>1. /\ pendingNotify' = pendingNotify \cup {m}
        /\ owed' = owed \cup ((ls \cap active) \X {0})
        /\ early' \subseteq early \cup ls
        /\ UNCHANGED <<droppedIds, emitted, lost>>
    BY <1>6 DEF Notify, Notified, entityVars
  <2>2. ls \subseteq Subs!Ids
    BY <1>1, ListenersAre
  <2> HIDE DEF ls
  <2>3. 0 \in 0 .. MaxFuel
    BY <1>1
  <2>4. owed' \subseteq Subs!Ids \X (0 .. MaxFuel)
    BY <1>1, <2>1, <2>2, <2>3 DEF Marks
  <2> QED
    BY <1>1, <1>2, <2>1, <2>2, <2>4 DEF Marks, Bounded
<1>7. ASSUME NEW e \in Entities, New(e) \/ Hold(e) PROVE Marks'
  BY <1>3, <1>7 DEF New, Hold, queueVars
<1>8. ASSUME NEW t \in Topics, Observe(t) \/ ObserveNow(t) PROVE Marks'
  BY <1>3, <1>8 DEF Observe, ObserveNow, queueVars, entityVars
<1>9. ASSUME NEW h \in handles, Unsubscribe(h) \/ Detach(h) PROVE Marks'
  BY <1>3, <1>9 DEF Unsubscribe, Detach, queueVars, entityVars
<1>10. CASE Defer
  BY <1>3, <1>10 DEF Defer, entityVars
<1> QED
  BY <1>4, <1>5, <1>6, <1>7, <1>8, <1>9, <1>10 DEF UserActs

LEMMA PassMarks ==
  ASSUME TypeOK, Bounded, PassActs
  PROVE  Marks'
<1>1. Marks
  BY TypesAre
<1>2. CASE ReleaseListener \/ ReleaseListenersEnd \/ PassSkip
  BY <1>1, <1>2, MarksKept
  DEF ReleaseListener, ReleaseListenersEnd, PassSkip, queueVars, entityVars
<1>3. CASE PassCall
  <2>1. /\ UNCHANGED <<fuel, emitted, lost, pendingNotify, droppedIds>>
        /\ owed' \subseteq owed /\ early' \subseteq early
    BY <1>3 DEF PassCall, Called, queueVars
  <2> QED
    BY <1>1, <2>1 DEF Marks, Bounded
<1>4. ASSUME NEW keep \in BOOLEAN, PassEnd \/ CallbackReturns(keep) PROVE Marks'
  <2>1. /\ UNCHANGED <<fuel, auxVars, pendingNotify>>
        /\ UNCHANGED droppedIds \/ DropRef(applying.on)
    BY <1>4 DEF PassEnd, CallbackReturns, KeepRefs, queueVars
  <2>2. droppedIds' \in Seq(Entities)
    BY <1>1, <2>1, DropLists DEF Marks
  <2> QED
    BY <1>1, <2>1, <2>2 DEF Marks, Bounded, auxVars
<1> QED
  BY <1>2, <1>3, <1>4 DEF PassActs

LEMMA FlushMarks ==
  ASSUME TypeOK, Bounded, FlushActs
  PROVE  Marks'
<1>1. Marks /\ <<>> \in Seq(Entities)
  BY TypesAre, EmptyIs
<1>2. CASE TakeDropped
  BY <1>1, <1>2 DEF TakeDropped, Marks, Bounded, auxVars, queueVars
<1>3. CASE ReleaseDropped \/ CallReleaseListeners \/ DeferReturns
  BY <1>1, <1>3, MarksKept
  DEF ReleaseDropped, ReleaseFirst, CallReleaseListeners, DeferReturns, queueVars, entityVars
<1>4. CASE Shutdown
  <2>1. fuel > 0 /\ fuel' = fuel - 1 /\ UNCHANGED <<auxVars, pendingNotify, droppedIds>>
    BY <1>4 DEF Shutdown, UserCode, queueVars, entityVars
  <2> QED
    BY <1>1, <2>1, NatFacts DEF Marks, Bounded, auxVars
<1>5. ASSUME NEW x, ApplyActivate(x) \/ ApplyDefer(x) PROVE Marks'
  BY <1>1, <1>5, MarksKept DEF ApplyActivate, ApplyDefer, entityVars
<1>6. ASSUME NEW x, ApplyToSubscribers(x) PROVE Marks'
  <2>1. /\ UNCHANGED <<fuel, emitted, owed, early>>
        /\ UNCHANGED droppedIds \/ DropRef(x.on)
        /\ pendingNotify' \subseteq pendingNotify
        /\ lost' \subseteq lost \cup owed
    BY <1>6 DEF ApplyToSubscribers, StartEffectPass, KeepRefs, Misses
  <2>2. droppedIds' \in Seq(Entities)
    BY <1>1, <2>1, DropLists DEF Marks
  <2> QED
    BY <1>1, <2>1, <2>2 DEF Marks, Bounded
<1> QED
  BY <1>2, <1>3, <1>4, <1>5, <1>6 DEF FlushActs

LEMMA PassControls ==
  ASSUME TypeOK, Bounded, Levels, PassActs
  PROVE  Controls' /\ Subs!TypeOK'
<1>1. Controls
  BY TypesAre
<1>2. Subs!TypeOK'
  BY ListenersIs, SkipIs, CallIs, EndIs, ListenersEndIs, ReturnsIs DEF PassActs
<1>3. CASE ReleaseListenersEnd
  <2>1. /\ UNCHANGED <<pendingUpdates, flushing, applying, suspended>>
        /\ phase' = "release" /\ batch' = Tail(batch) /\ batch # <<>>
    BY <1>3, ListenersEndIs DEF ReleaseListenersEnd, levelVars
  <2>2. batch' \in Seq(Entities)
    BY <1>1, <2>1, HeadTailProperties DEF Controls
  <2> QED
    BY <1>1, <1>2, <2>1, <2>2 DEF Controls, Phases
<1>4. CASE PassEnd
  <2>1. /\ UNCHANGED <<pendingUpdates, flushing, batch, suspended>>
        /\ phase' = "take" /\ applying' = NoEffect
    BY <1>4 DEF PassEnd, levelVars
  <2> QED
    BY <1>1, <1>2, <2>1, EffectShapes DEF Controls, Phases
<1>5. CASE UNCHANGED <<pendingUpdates, flushVars>>
  BY <1>1, <1>2, <1>5, ControlsKept DEF flushVars, levelVars
<1> QED
  BY <1>3, <1>4, <1>5
  DEF PassActs, ReleaseListener, PassSkip, PassCall, Called, CallbackReturns

LEMMA FlushControls ==
  ASSUME TypeOK, Bounded, Levels, Queue, FlushActs
  PROVE  Controls' /\ Subs!TypeOK'
<1>1. Controls /\ Subs!TypeOK /\ droppedIds \in Seq(Entities)
  BY TypesAre DEF Marks
<1>2. ASSUME UNCHANGED <<pendingUpdates, flushing, suspended>>, phase' \in Phases,
             applying' \in Effect, batch' \in Seq(Entities), Subs!TypeOK'
      PROVE  Controls' /\ Subs!TypeOK'
  BY <1>1, <1>2 DEF Controls
<1>3. CASE TakeDropped
  <2>1. /\ UNCHANGED <<setVars, pendingUpdates, flushing, suspended, applying>>
        /\ phase' \in {"apply", "release"} /\ batch' = droppedIds
    BY <1>3 DEF TakeDropped, levelVars
  <2> QED
    BY <1>1, <1>2, <2>1, SetShrinks DEF Controls, Phases
<1>4. CASE ReleaseDropped
  <2>1. UNCHANGED <<pendingUpdates, flushing, suspended, applying>>
    BY <1>4 DEF ReleaseDropped, ReleaseFirst, levelVars
  <2> QED
    BY <1>1, <1>2, <1>4, <2>1, ReleaseDroppedIs DEF Controls, Phases
<1>5. CASE CallReleaseListeners
  <2>1. UNCHANGED <<pendingUpdates, flushing, suspended, applying>>
    BY <1>5 DEF CallReleaseListeners, levelVars
  <2>2. /\ phase' \in {"release", "listening"} /\ batch # <<>> /\ Subs!TypeOK'
        /\ batch' = batch \/ batch' = Tail(batch)
    BY <1>5, CallListenersIs
  <2>3. batch' \in Seq(Entities)
    BY <1>1, <2>2, HeadTailProperties DEF Controls
  <2> QED
    BY <1>1, <1>2, <2>1, <2>2, <2>3 DEF Controls, Phases
<1>6. CASE DeferReturns \/ Shutdown
  <2>1. /\ UNCHANGED <<setVars, pendingUpdates, flushing, suspended, applying, batch>>
        /\ phase' = "take"
    BY <1>6, ShutdownIs DEF DeferReturns, Shutdown, levelVars
  <2> QED
    BY <1>1, <1>2, <2>1, SetShrinks DEF Controls, Phases
<1>7. ASSUME NEW x, ApplyActivate(x) \/ ApplyDefer(x) PROVE Controls' /\ Subs!TypeOK'
  <2>1. UNCHANGED <<pendingUpdates, flushing, suspended, applying, batch>>
    BY <1>7 DEF ApplyActivate, ApplyDefer, levelVars
  <2> QED
    BY <1>1, <1>2, <1>7, <2>1, ApplyIs DEF Controls, Phases
<1>8. ASSUME NEW x, ApplyToSubscribers(x) PROVE Controls' /\ Subs!TypeOK'
  <2>1. UNCHANGED <<pendingUpdates, flushing, suspended, batch>>
    BY <1>8 DEF ApplyToSubscribers, StartEffectPass, levelVars
  <2>2. phase' \in {"take", "pass"} /\ applying' \in {applying, x} /\ x \in Effect /\ Subs!TypeOK'
    BY <1>8, StartIs
  <2> QED
    BY <1>1, <1>2, <2>1, <2>2 DEF Controls, Phases
<1> QED
  BY <1>3, <1>4, <1>5, <1>6, <1>7, <1>8 DEF FlushActs

LEMMA OneLong == \A S, x : x \in S => <<x>> \in Seq(S) /\ Len(<<x>>) = 1
OBVIOUS

LEMMA UpdateControls ==
  ASSUME TypeOK, Bounded, Levels,
         \/ StartUpdate \/ EndUpdate(FALSE) \/ FlushEnd
         \/ EndUpdate(TRUE) /\ ~flushing /\ pendingUpdates = 1
  PROVE  Controls' /\ Subs!TypeOK' /\ Marks'
<1>1. Controls /\ Subs!TypeOK /\ Marks /\ MaxNest \in Nat /\ MaxNest > 0 /\ InFlush \in 0 .. 1
  BY TypesAre, NatFacts DEF InFlush
<1>2. Subs!TypeOK'
  <2>1. UNCHANGED setVars
    BY DEF StartUpdate, EndUpdate, FlushEnd
  <2> QED
    BY <1>1, <2>1, SetShrinks
<1>3. Marks'
  <2>1. CASE EndUpdate(FALSE) \/ EndUpdate(TRUE) \/ FlushEnd
    BY <1>1, <2>1, MarksKept DEF EndUpdate, FlushEnd, queueVars, entityVars
  <2>2. CASE StartUpdate
    BY <1>1, <2>2, NatFacts
    DEF StartUpdate, UserCode, queueVars, entityVars, auxVars, Marks, Bounded
  <2> QED
    BY <2>1, <2>2
<1>4. CASE StartUpdate \/ EndUpdate(FALSE)
  <2>1. UNCHANGED <<flushing, phase, applying, batch, suspended>>
    BY <1>4 DEF StartUpdate, EndUpdate, flushVars, levelVars
  <2>2. pendingUpdates' \in 0 .. MaxNest
    BY <1>1, <1>4 DEF StartUpdate, EndUpdate, Controls
  <2> QED
    BY <1>1, <1>2, <1>3, <2>1, <2>2 DEF Controls
<1>5. CASE FlushEnd
  <2>1. pendingUpdates' = 0 /\ suspended' = <<>>
    BY <1>5, FlushEnds
  <2>2. /\ flushing' = FALSE
        /\ IF suspended = <<>> THEN phase' \in {"idle", "over"} /\ UNCHANGED <<applying, batch>>
           ELSE phase' = Sus.phase /\ applying' = Sus.applying /\ batch' = Sus.batch
    BY <1>5 DEF FlushEnd, Sus
  <2>3. suspended # <<>> => Sus \in Suspension
    BY <1>1, HeadTailProperties DEF Controls, Sus
  <2>4. phase' \in Phases /\ applying' \in Effect /\ batch' \in Seq(Entities)
    BY <1>1, <2>2, <2>3 DEF Controls, Suspension, Phases
  <2>5. suspended' \in Seq(Suspension) /\ Len(suspended') <= 1
    BY <2>1, EmptyIs
  <2>6. pendingUpdates' \in 0 .. MaxNest /\ flushing' \in BOOLEAN
    <3>1. 0 \in 0 .. MaxNest /\ FALSE \in BOOLEAN
      BY NatFacts
    <3> QED
      BY <2>1, <2>2, <3>1
  <2>7. Controls'
    BY <2>4, <2>5, <2>6 DEF Controls
  <2> QED
    BY <1>2, <1>3, <2>7
<1>6. CASE EndUpdate(TRUE) /\ ~flushing /\ pendingUpdates = 1
  <2> DEFINE s == [phase |-> phase, applying |-> applying, batch |-> batch]
  <2>1. /\ UNCHANGED pendingUpdates /\ flushing' = TRUE /\ phase' = "take"
        /\ IF phase = "idle" THEN UNCHANGED <<suspended, applying, batch>>
           ELSE suspended' = <<s>> /\ applying' = NoEffect /\ batch' = <<>>
    BY <1>6 DEF EndUpdate, BeginFlush
  <2>2. s \in Suspension
    BY <1>1 DEF Controls, Suspension
  <2> HIDE DEF s
  <2>3. suspended' \in Seq(Suspension) /\ Len(suspended') <= 1
    <3>1. <<s>> \in Seq(Suspension) /\ Len(<<s>>) = 1
      BY <2>2, OneLong
    <3>2. suspended \in Seq(Suspension) /\ Len(suspended) <= 1
      BY <1>1 DEF Controls
    <3>3. suspended' = suspended \/ suspended' = <<s>>
      BY <2>1
    <3> DEFINE t == <<s>>
    <3> HIDE DEF t
    <3>4. CASE suspended' = t
      <4>1. t \in Seq(Suspension) /\ Len(t) = 1
        BY <3>1 DEF t
      <4> QED
        BY <3>4, <4>1
    <3> QED
      BY <3>2, <3>3, <3>4 DEF t
  <2>4. applying' \in Effect /\ batch' \in Seq(Entities)
    BY <1>1, <2>1, EmptyIs, EffectShapes DEF Controls
  <2> QED
    BY <1>1, <1>2, <1>3, <2>1, <2>3, <2>4 DEF Controls, Phases
<1> QED
  BY <1>4, <1>5, <1>6

------------------------------------------------------------------------------
(***************************************************************************)
(* Types, the pending notifications and the levels of flushes.             *)
(***************************************************************************)
FlushInv == TypeOK /\ Bounded /\ Levels /\ Queue /\ HandlesCounted

LEMMA FlushInvInit == Init => FlushInv
<1> SUFFICES ASSUME Init PROVE FlushInv
  OBVIOUS
<1>1. /\ stack = <<>> /\ next = 0 /\ keyOf = [i \in 0 .. -1 |-> 0]
      /\ stored = [k \in Topics |-> {}] /\ active = {} /\ dropped = {} /\ handles = {}
      /\ ended = {}
  BY DEF Init, Subs!Init
<1>2. Subs!TypeOK
  <2>1. keyOf \in [0 .. next - 1 -> Topics]
    BY <1>1
  <2>2. <<>> \in Seq(Subs!Frame) /\ Len(<<>>) = 0
    BY EmptyIs
  <2>3. stack \in Seq(Subs!Frame) /\ Len(stack) <= 2
    BY <1>1, <2>2
  <2>4. stored \in [Topics -> SUBSET Subs!Ids]
    BY <1>1
  <2> QED
    BY <1>1, <2>1, <2>3, <2>4, NatFacts DEF Subs!TypeOK
<1>3. Controls
  <2>1. batch \in Seq(Entities) /\ suspended \in Seq(Suspension) /\ Len(suspended) <= 1
    <3>1. <<>> \in Seq(Entities) /\ <<>> \in Seq(Suspension) /\ Len(<<>>) = 0
      BY EmptyIs
    <3> QED
      BY <3>1 DEF Init
  <2>2. /\ pendingUpdates = 0 /\ flushing = FALSE /\ phase = "idle" /\ applying = NoEffect
        /\ 0 \in 0 .. MaxNest
    BY NatFacts DEF Init
  <2> QED
    BY <2>1, <2>2, EffectShapes DEF Controls, Phases
<1>4. Marks
  BY EmptyIs, NatFacts DEF Init, Marks, Bounded
<1>5. TypeOK /\ Bounded
  BY <1>2, <1>3, <1>4, TypesAre, EmptyIs DEF Init
<1>6. In(effects) = {} /\ DOMAIN effects = {}
  BY EmptyIs DEF Init
<1>7. Levels
  <2>1. FlushIsOutermost
    BY <1>1, EmptyIs DEF Init, FlushIsOutermost
  <2>2. Suits(phase, applying, batch, Subs!Top) /\ SuspendedSuits
    BY DEF Init, Suits, SuspendedSuits
  <2> QED
    BY <2>1, <2>2 DEF Levels
<1>8. Queue
  BY <1>6 DEF Init, Queue, OnceIn
<1>9. HandlesCounted
  BY <1>6 DEF Init, HandlesCounted, Counted, UserHas, QueueHas, PassHas, SusHas, Takes, One
<1> QED
  BY <1>5, <1>7, <1>8, <1>9 DEF FlushInv

LEMMA FlushInvNext == FlushInv /\ [Next]_vars => FlushInv'
<1> SUFFICES ASSUME FlushInv, [Next]_vars PROVE FlushInv'
  OBVIOUS
<1>1. TypeOK /\ Bounded /\ Levels /\ Queue /\ HandlesCounted
  BY DEF FlushInv
<1>2. Levels' /\ Queue' /\ effects' \in Seq(Effect) /\ HandlesCounted'
  BY <1>1, NextLevels, NextQueue, NextCounts
<1>3. Controls' /\ Subs!TypeOK' /\ Marks'
  <2>1. CASE UserActs
    <3>1. Quiet /\ Controls
      BY <1>1, <2>1, UserIsQuiet, TypesAre DEF UserActs
    <3> QED
      BY <1>1, <2>1, <3>1, UserSets, UserMarks, ControlsKept DEF Quiet
  <2>2. CASE PassActs
    BY <1>1, <2>2, PassControls, PassMarks
  <2>3. CASE FlushActs
    BY <1>1, <2>3, FlushControls, FlushMarks
  <2>4. CASE UNCHANGED vars
    <3>1. Subs!TypeOK /\ Controls /\ Marks
      BY <1>1, TypesAre
    <3> QED
      BY <2>4, <3>1, SetShrinks, ControlsKept, MarksKept
      DEF vars, flushVars, levelVars, queueVars, entityVars
  <2>5. CASE \/ StartUpdate \/ EndUpdate(FALSE) \/ FlushEnd
             \/ EndUpdate(TRUE) /\ ~flushing /\ pendingUpdates = 1
    BY <1>1, <2>5, UpdateControls
  <2>6. \/ UserActs \/ PassActs \/ FlushActs
        \/ StartUpdate \/ EndUpdate(FALSE) \/ FlushEnd
        \/ EndUpdate(TRUE) /\ ~flushing /\ pendingUpdates = 1
        \/ UNCHANGED vars
    BY Steps
  <2> QED
    BY <2>1, <2>2, <2>3, <2>4, <2>5, <2>6
<1>4. TypeOK' /\ Bounded'
  BY <1>2, <1>3 DEF TypeOK, Controls, Marks, Suspension, HandlesCounted
<1> QED
  BY <1>2, <1>4 DEF FlushInv

\* The flush cycle, whatever user code does inside it and however long, keeps
\* pending_notifications equal to the Notify effects in the queue, starts a
\* flush inside another in shutdown's alone and calls nobody while another
\* update is in progress.
THEOREM EffectsConsistent == Spec => []Consistent
<1>1. FlushInv => Consistent
  BY QueueIsPending DEF FlushInv, Consistent, Levels
<1> QED
  BY <1>1, FlushInvInit, FlushInvNext, PTL DEF Spec

------------------------------------------------------------------------------
(***************************************************************************)
(* Released entities: a dead one, born and without handles, is listed for  *)
(* release or nothing subscribes to it.                                    *)
(***************************************************************************)
Dead(e) == e \in born /\ refs[e] = 0

\* What flushes have taken from dropped_entity_ids and not released yet.
Taken  == In(batch) \cup (IF suspended # <<>> THEN In(Sus.batch) ELSE {})
Listed == In(droppedIds) \cup Taken

\* A pass is made for e, which puts subscribers to it back when it ends.
PassOver(e) == phase = "pass" /\ applying.op \in {"notify", "emit"} /\ applying.on = e

Silent(e)    == stored[<<"notify", e>>] = {} /\ stored[<<"emit", e>>] = {} /\ ~PassOver(e)
Forgotten(e) == Silent(e) /\ stored[<<"release", e>>] = {}

Lists ==
  /\ \A e \in Listed : Dead(e)
  /\ \A e \in born \ Listed : Dead(e) => Forgotten(e)
  /\ phase = "listeners" => Silent(Head(batch))
  /\ phase = "listening" => Forgotten(Head(batch))
  /\ suspended # <<>> /\ Sus.phase = "listening" => Forgotten(Head(Sus.batch))

LEMMA FlushFacts ==
  ASSUME FlushInv, [Next]_vars
  PROVE  /\ TypeOK /\ Levels /\ Queue /\ HandlesCounted /\ Subs!TypeOK
         /\ refs \in [Entities -> Nat] /\ refs' \in [Entities -> Nat]
         /\ droppedIds \in Seq(Entities) /\ batch \in Seq(Entities)
         /\ born \subseteq Entities /\ born' \subseteq Entities /\ Entities \cap Globals = {}
BY FlushInvNext, EntitiesAssumption DEF FlushInv, TypeOK

\* How handles come and go.
LEMMA HandleSteps ==
  ASSUME FlushInv, [Next]_vars
  PROVE  \/ UNCHANGED <<refs, born, droppedIds>>
         \/ TakeDropped /\ UNCHANGED <<refs, born>> /\ droppedIds' = <<>>
         \/ \E m \in born \cup Globals : DropRef(m) /\ UNCHANGED born
         \/ \E m : Referenced(m) /\ AddRef(m) /\ UNCHANGED <<born, droppedIds>>
         \/ \E e \in Entities \ born : /\ born' = born \cup {e} /\ refs' = [refs EXCEPT ![e] = 2]
                                       /\ UNCHANGED droppedIds
<1> DEFINE Goal ==
      \/ UNCHANGED <<refs, born, droppedIds>>
      \/ TakeDropped /\ UNCHANGED <<refs, born>> /\ droppedIds' = <<>>
      \/ \E m \in born \cup Globals : DropRef(m) /\ UNCHANGED born
      \/ \E m : Referenced(m) /\ AddRef(m) /\ UNCHANGED <<born, droppedIds>>
      \/ \E e \in Entities \ born : /\ born' = born \cup {e} /\ refs' = [refs EXCEPT ![e] = 2]
                                    /\ UNCHANGED droppedIds
<1>1. TypeOK /\ Levels /\ Queue /\ held \subseteq born
  BY FlushFacts DEF HandlesCounted
<1>2. CASE UserActs
  <2>1. ASSUME NEW e \in Entities, New(e) PROVE Goal
    BY <2>1 DEF New
  <2>2. ASSUME NEW e \in Entities, Hold(e) PROVE Goal
    BY <2>2 DEF Hold
  <2>3. ASSUME NEW e \in Entities, Release(e) PROVE Goal
    BY <1>1, <2>3 DEF Release
  <2>4. CASE UNCHANGED entityVars
    BY <2>4 DEF entityVars
  <2> QED
    BY <1>2, <2>1, <2>2, <2>3, <2>4
    DEF UserActs, Defer, Emit, EmitNumbered, Observe, ObserveNow, Unsubscribe, Detach, Notify,
        Notified
<1>3. CASE PassActs
  <2>1. phase = "pass" => applying.on \in born \cup Globals
    BY <1>1 DEF Levels, Suits
  <2>2. CASE PassCall
    BY <2>2 DEF PassCall, Called
  <2>3. CASE PassEnd
    BY <2>1, <2>3 DEF PassEnd, KeepRefs
  <2>4. ASSUME NEW keep \in BOOLEAN, CallbackReturns(keep) PROVE Goal
    <3>1. UNCHANGED born /\ (UNCHANGED <<refs, droppedIds>> \/ DropRef(applying.on))
      BY <2>4 DEF CallbackReturns, KeepRefs
    <3>2. applying.op \notin {"notify", "emit"} => UNCHANGED <<refs, droppedIds>>
      BY <2>4 DEF CallbackReturns, KeepRefs
    <3>3. applying.op \in {"notify", "emit"} => phase = "pass"
      BY <1>1, EffectShapes DEF Levels, Suits
    <3> QED
      BY <2>1, <3>1, <3>2, <3>3
  <2>5. CASE ReleaseListener \/ PassSkip \/ ReleaseListenersEnd
    BY <2>5 DEF ReleaseListener, PassSkip, ReleaseListenersEnd, entityVars
  <2> QED
    BY <1>3, <2>2, <2>3, <2>4, <2>5 DEF PassActs
<1>4. CASE FlushActs
  <2>1. CASE TakeDropped
    BY <2>1 DEF TakeDropped
  <2>2. ASSUME NEW x, ApplyToSubscribers(x) PROVE Goal
    <3>1. x.on \in born \cup Globals
      <4>1. Pop(x.op, x) /\ x.op \in {"notify", "emit", "created"}
        BY <1>1, <2>2, StartIs
      <4>2. effects \in Seq(Effect) /\ x = Head(effects) /\ effects # <<>>
        BY <1>1, <4>1 DEF Pop, TypeOK
      <4>3. x \in In(effects)
        BY <4>2, Tailed
      <4> QED
        BY <1>1, <4>1, <4>3 DEF Queue
    <3> QED
      BY <2>2, <3>1 DEF ApplyToSubscribers, StartEffectPass, KeepRefs
  <2>3. CASE UNCHANGED entityVars
    BY <2>3 DEF entityVars
  <2> QED
    BY <1>4, <2>1, <2>2, <2>3
    DEF FlushActs, ReleaseDropped, ReleaseFirst, CallReleaseListeners, DeferReturns, Shutdown,
        ApplyActivate, ApplyDefer
<1>5. CASE StartUpdate \/ EndUpdate(FALSE) \/ EndUpdate(TRUE) \/ FlushEnd \/ UNCHANGED vars
  BY <1>5 DEF StartUpdate, EndUpdate, FlushEnd, vars, entityVars
<1> QED
  BY <1>2, <1>3, <1>4, <1>5, Steps

\* The dead stay dead, and who dies is listed.
LEMMA DeadSteps ==
  ASSUME FlushInv, [Next]_vars
  PROVE  /\ \A e : Dead(e) => Dead(e)'
         /\ \A e : Dead(e)' => Dead(e) \/ e \in In(droppedIds')
         /\ \A e \in In(droppedIds') : e \in In(droppedIds) \/ Dead(e)'
         /\ ~TakeDropped => In(droppedIds) \subseteq In(droppedIds')
<1>1. /\ refs \in [Entities -> Nat] /\ refs' \in [Entities -> Nat]
      /\ droppedIds \in Seq(Entities)
      /\ born \subseteq Entities /\ Entities \cap Globals = {}
  BY FlushFacts
<1>2. CASE UNCHANGED <<refs, born, droppedIds>>
  BY <1>2 DEF Dead
<1>3. CASE TakeDropped /\ UNCHANGED <<refs, born>> /\ droppedIds' = <<>>
  <2>1. In(droppedIds') = {}
    BY <1>3, EmptyIs
  <2> QED
    BY <1>3, <2>1 DEF Dead
<1>4. ASSUME NEW m \in born \cup Globals, DropRef(m), UNCHANGED born
      PROVE  /\ \A e : Dead(e) => Dead(e)'
             /\ \A e : Dead(e)' => Dead(e) \/ e \in In(droppedIds')
             /\ \A e \in In(droppedIds') : e \in In(droppedIds) \/ Dead(e)'
             /\ In(droppedIds) \subseteq In(droppedIds')
  <2>1. CASE m \in Globals
    <3>1. UNCHANGED <<refs, droppedIds>>
      BY <1>1, <1>4, <2>1 DEF DropRef
    <3> QED
      BY <1>4, <3>1 DEF Dead
  <2>2. CASE m \notin Globals
    <3>1. /\ m \in born /\ m \in Entities /\ refs' = [refs EXCEPT ![m] = @ - 1]
          /\ droppedIds' = IF refs[m] = 1 THEN Append(droppedIds, m) ELSE droppedIds
      BY <1>1, <1>4, <2>2 DEF DropRef
    <3>2. refs'[m] = refs[m] - 1 /\ refs[m] \in Nat /\ refs'[m] \in Nat
      BY <1>1, <3>1
    <3>3. \A e \in Entities : e # m => refs'[e] = refs[e]
      BY <1>1, <3>1
    <3>4. In(droppedIds') = IF refs[m] = 1 THEN In(droppedIds) \cup {m} ELSE In(droppedIds)
      <4>1. In(Append(droppedIds, m)) = In(droppedIds) \cup {m}
        BY <1>1, <3>1, Appended
      <4> QED
        BY <3>1, <4>1
    <3> QED
      BY <1>1, <1>4, <3>1, <3>2, <3>3, <3>4 DEF Dead
  <2> QED
    BY <2>1, <2>2
<1>5. ASSUME NEW m, Referenced(m), AddRef(m), UNCHANGED <<born, droppedIds>>
      PROVE  /\ \A e : Dead(e) => Dead(e)'
             /\ \A e : Dead(e)' => Dead(e)
  <2>1. \A e \in born : (refs[e] = 0 <=> refs'[e] = 0)
    BY <1>1, <1>5 DEF Referenced, AddRef
  <2> QED
    BY <1>5, <2>1 DEF Dead
<1>6. ASSUME NEW d \in Entities \ born, born' = born \cup {d}, refs' = [refs EXCEPT ![d] = 2],
             UNCHANGED droppedIds
      PROVE  /\ \A e : Dead(e) => Dead(e)'
             /\ \A e : Dead(e)' => Dead(e)
  BY <1>1, <1>6 DEF Dead
<1> QED
  BY <1>2, <1>3, <1>4, <1>5, <1>6, HandleSteps

\* Entities leave the batch of a flush once they have been released.
LEMMA TakenSteps ==
  ASSUME FlushInv, [Next]_vars
  PROVE  /\ Taken' \subseteq Taken \cup In(droppedIds)
         /\ TakeDropped => Taken \cup In(droppedIds) \subseteq Taken'
         /\ \/ Taken \subseteq Taken'
            \/ /\ Taken \subseteq Taken' \cup {Head(batch)}
               /\ \/ phase = "listening"
                  \/ phase = "listeners" /\ stored[<<"release", Head(batch)>>] = {}
<1> DEFINE Goal ==
      /\ Taken' \subseteq Taken \cup In(droppedIds)
      /\ TakeDropped => Taken \cup In(droppedIds) \subseteq Taken'
      /\ \/ Taken \subseteq Taken'
         \/ /\ Taken \subseteq Taken' \cup {Head(batch)}
            /\ \/ phase = "listening"
               \/ phase = "listeners" /\ stored[<<"release", Head(batch)>>] = {}
<1>1. TypeOK /\ Levels /\ Queue /\ batch \in Seq(Entities)
  BY FlushFacts
<1>2. ASSUME UNCHANGED <<batch, suspended>>, phase # "take" PROVE Goal
  BY <1>2 DEF Taken, Sus, TakeDropped
<1>3. CASE TakeDropped
  <2>1. /\ batch = <<>> /\ batch' = droppedIds /\ UNCHANGED suspended
    BY <1>1, <1>3, TakeDroppedIs DEF TakeDropped, levelVars
  <2>2. In(batch) = {}
    BY <2>1, EmptyIs
  <2> QED
    BY <2>1, <2>2 DEF Taken, Sus
<1>4. ASSUME ReleaseListenersEnd \/ (CallReleaseListeners /\ UNCHANGED setVars)
      PROVE  Goal
  <2>1. /\ batch # <<>> /\ batch' = Tail(batch) /\ UNCHANGED suspended
        /\ \/ phase = "listening"
           \/ phase = "listeners" /\ stored[<<"release", Head(batch)>>] = {}
    <3>1. CASE ReleaseListenersEnd
      BY <1>1, <3>1, ListenersEndIs DEF ReleaseListenersEnd, levelVars
    <3>2. CASE CallReleaseListeners /\ UNCHANGED setVars
      <4>1. stored[<<"release", Head(batch)>>] = {}
        <5> SUFFICES ASSUME stored[<<"release", Head(batch)>>] # {} PROVE FALSE
          OBVIOUS
        <5>1. Head(batch) \in Entities /\ \A l \in Topics :
                stored'[l] = IF l = <<"release", Head(batch)>> THEN {} ELSE stored[l]
          BY <1>1, <3>2, CallListenersIs
        <5>2. <<"release", Head(batch)>> \in Topics
          BY <5>1 DEF Topics
        <5> QED
          BY <3>2, <5>1, <5>2 DEF setVars
      <4> QED
        BY <1>1, <3>2, <4>1, CallListenersIs DEF CallReleaseListeners, levelVars
    <3> QED
      BY <1>4, <3>1, <3>2
  <2>2. In(batch) = In(batch') \cup {Head(batch)}
    BY <1>1, <2>1, Tailed
  <2> QED
    BY <2>1, <2>2 DEF Taken, Sus, TakeDropped
<1>5. CASE UserActs
  <2>1. UNCHANGED <<batch, suspended>>
    BY <1>1, <1>5, UserIsQuiet DEF UserActs, Quiet
  <2>2. Taken' = Taken
    BY <2>1 DEF Taken, Sus
  <2>3. CASE TakeDropped
    BY <1>3, <2>3
  <2> QED
    BY <2>2, <2>3
<1>6. ASSUME UNCHANGED <<batch, suspended>> PROVE Goal
  <2>1. Taken' = Taken
    BY <1>6 DEF Taken, Sus
  <2> QED
    BY <1>3, <2>1
<1>7. CASE PassActs
  BY <1>4, <1>6, <1>7
  DEF PassActs, ReleaseListener, PassSkip, PassCall, Called, PassEnd, CallbackReturns, flushVars,
      levelVars
<1>8. CASE FlushActs
  <2>1. CASE CallReleaseListeners
    <3>1. UNCHANGED suspended /\ (UNCHANGED batch \/ UNCHANGED setVars)
      BY <2>1 DEF CallReleaseListeners, levelVars
    <3> QED
      BY <1>4, <1>6, <2>1, <3>1
  <2>2. ASSUME NEW x, ApplyActivate(x) \/ ApplyDefer(x) \/ ApplyToSubscribers(x) PROVE Goal
    BY <1>6, <2>2 DEF ApplyActivate, ApplyDefer, ApplyToSubscribers, StartEffectPass, levelVars
  <2>3. CASE ReleaseDropped \/ DeferReturns \/ Shutdown
    BY <1>1, <1>6, <2>3, ShutdownIs DEF ReleaseDropped, ReleaseFirst, DeferReturns, levelVars
  <2> QED
    BY <1>3, <1>8, <2>1, <2>2, <2>3 DEF FlushActs
<1>9. CASE StartUpdate \/ EndUpdate(FALSE) \/ UNCHANGED vars
  BY <1>6, <1>9 DEF StartUpdate, EndUpdate, vars, flushVars, levelVars
<1>10. CASE FlushEnd
  <2>1. phase = "apply" /\ suspended' = <<>>
    BY <1>10 DEF FlushEnd
  <2>2. batch = <<>> /\ In(batch) = {}
    BY <1>1, <2>1, EmptyIs DEF Levels, Suits
  <2>3. Taken' = Taken
    BY <1>1, <1>10, <2>1, <2>2, FlushEnds DEF Taken
  <2> QED
    BY <2>1, <2>3 DEF TakeDropped
<1>11. CASE EndUpdate(TRUE) /\ ~flushing /\ pendingUpdates = 1
  <2>1. phase \in {"idle", "defer"} \/ CallbackRuns
    BY <1>11 DEF EndUpdate
  <2>2. Taken' = Taken
    <3>1. CASE phase = "idle"
      BY <1>1, <1>11, <3>1, FlushBegins DEF Taken, EndUpdate, BeginFlush
    <3>2. CASE phase # "idle"
      <4>1. batch' = <<>> /\ In(batch') = {}
        BY <1>11, <3>2, EmptyIs DEF EndUpdate, BeginFlush
      <4> QED
        BY <1>1, <1>11, <3>2, <4>1, FlushBegins DEF Taken
    <3> QED
      BY <3>1, <3>2
  <2> QED
    BY <2>1, <2>2 DEF TakeDropped, CallbackRuns
<1>12. \/ UserActs \/ PassActs \/ FlushActs
       \/ StartUpdate \/ EndUpdate(FALSE) \/ FlushEnd
       \/ EndUpdate(TRUE) /\ ~flushing /\ pendingUpdates = 1
       \/ UNCHANGED vars
  BY Steps
<1> QED
  BY <1>5, <1>7, <1>8, <1>9, <1>10, <1>11, <1>12

\* A callback that runs has a handle to its emitter.
LEMMA CallbackRefs ==
  ASSUME FlushInv
  PROVE  /\ phase = "pass" /\ Subs!Top.cur # Subs!NoId => Referenced(applying.on)
         /\ suspended # <<>> /\ Sus.phase = "pass" => Referenced(Sus.applying.on)
<1>1. Levels /\ Counted /\ born \subseteq Entities
  BY DEF FlushInv, HandlesCounted
<1>2. ASSUME phase = "pass", Subs!Top.cur # Subs!NoId PROVE Referenced(applying.on)
  <2>1. applying.on \in born \cup Globals
    BY <1>1, <1>2 DEF Levels, Suits
  <2>2. PassHas(applying.on) = 1
    BY <1>2 DEF PassHas, Takes, One
  <2>3. applying.on \in born => refs[applying.on] > 0
    BY <1>1, <2>2, CountsAre DEF Counted
  <2> QED
    BY <2>1, <2>3 DEF Referenced
<1>3. ASSUME suspended # <<>>, Sus.phase = "pass" PROVE Referenced(Sus.applying.on)
  <2>1. Sus.applying.on \in born \cup Globals /\ stack[1].cur # Subs!NoId
    BY <1>1, <1>3 DEF Levels, SuspendedSuits, Suits
  <2>2. SusHas(Sus.applying.on) = 1
    BY <1>3, <2>1 DEF SusHas, Takes, One
  <2>3. Sus.applying.on \in born => refs[Sus.applying.on] > 0
    BY <1>1, <2>2, CountsAre DEF Counted
  <2> QED
    BY <2>1, <2>3 DEF Referenced
<1> QED
  BY <1>2, <1>3

\* Nothing new subscribes to a dead entity, and only a pass made for it puts
\* subscribers back.
LEMMA DeadTopics ==
  ASSUME FlushInv, [Next]_vars, NEW e, Dead(e), NEW k \in {"notify", "emit", "release"},
         PassOver(e) => k = "release"
  PROVE  stored'[<<k, e>>] \subseteq stored[<<k, e>>]
<1> DEFINE t == <<k, e>>
           Goal == stored'[t] \subseteq stored[t]
<1>1. /\ TypeOK /\ Levels /\ Queue /\ Subs!TypeOK
      /\ e \in Entities /\ e \notin Globals /\ ~Referenced(e)
  BY FlushFacts DEF Dead, Referenced
<1>2. t \in Topics /\ t[1] = k /\ t[2] = e
  BY <1>1 DEF Topics, Emitters
<1>3. CASE UNCHANGED stored
  BY <1>3
<1>4. CASE UserActs
  <2>1. ASSUME NEW s \in Topics, Observe(s) \/ ObserveNow(s) PROVE Goal
    <3>1. s # t
      BY <1>1, <1>2, <2>1 DEF Observe, ObserveNow
    <3> QED
      BY <1>1, <1>2, <2>1, <3>1, SetGrows DEF Observe, ObserveNow
  <2>2. ASSUME NEW h \in handles, Unsubscribe(h) \/ Detach(h) PROVE Goal
    BY <1>1, <1>2, <2>2, SetShrinks DEF Unsubscribe, Detach
  <2> QED
    BY <1>3, <1>4, <2>1, <2>2
    DEF UserActs, Defer, New, Hold, Release, Emit, EmitNumbered, Notify, Notified, setVars
<1>5. CASE PassActs
  <2>1. CASE PassEnd
    <3>1. applying \in Effect /\ applying.op \in {"notify", "emit", "created"} /\ phase = "pass"
      BY <1>1, <2>1 DEF TypeOK, Levels, Suits, PassEnd
    <3>2. t # TopicOf(applying)
      BY <3>1, TopicIs DEF PassOver
    <3> QED
      BY <1>1, <1>2, <2>1, <3>2, EndIs
  <2> QED
    BY <1>1, <1>3, <1>5, <2>1, ListenersIs, SkipIs, CallIs, ListenersEndIs, ReturnsIs DEF PassActs
<1>6. CASE FlushActs
  <2>1. CASE ReleaseDropped
    BY <1>1, <1>2, <2>1, ReleaseDroppedIs DEF setVars
  <2>2. CASE CallReleaseListeners
    BY <1>1, <1>2, <2>2, CallListenersIs DEF setVars
  <2>3. ASSUME NEW x, ApplyActivate(x) \/ ApplyDefer(x) PROVE Goal
    BY <1>1, <2>3, ApplyIs
  <2>4. ASSUME NEW x, ApplyToSubscribers(x) PROVE Goal
    BY <1>1, <1>2, <2>4, StartIs DEF setVars
  <2> QED
    BY <1>3, <1>6, <2>1, <2>2, <2>3, <2>4
    DEF FlushActs, TakeDropped, DeferReturns, Shutdown, setVars
<1>7. CASE StartUpdate \/ EndUpdate(FALSE) \/ EndUpdate(TRUE) \/ FlushEnd \/ UNCHANGED vars
  BY <1>3, <1>7 DEF StartUpdate, EndUpdate, FlushEnd, vars, setVars
<1> QED
  BY <1>4, <1>5, <1>6, <1>7, Steps

\* No pass for a dead entity begins, unless it has subscribers.
LEMMA DeadPasses ==
  ASSUME FlushInv, [Next]_vars, NEW e, Dead(e), Silent(e)
  PROVE  ~PassOver(e)'
<1> SUFFICES ASSUME PassOver(e)' PROVE FALSE
  OBVIOUS
<1>1. TypeOK /\ Levels /\ Queue /\ e \in Entities /\ e \notin Globals /\ ~Referenced(e)
  BY FlushFacts DEF Dead, Referenced
<1>2. phase' = "pass" /\ applying'.on = e /\ applying'.op \in {"notify", "emit"}
  BY DEF PassOver
<1>3. ~UNCHANGED <<phase, applying>>
  BY DEF PassOver, Silent
<1>4. ASSUME NEW x, ApplyToSubscribers(x) PROVE FALSE
  <2>1. stored[TopicOf(x)] # {} /\ applying' = x
    BY <1>1, <1>2, <1>4, StartIs
  <2>2. TopicOf(x) = <<x.op, e>>
    BY <1>2, <2>1 DEF TopicOf
  <2> QED
    BY <1>2, <2>1, <2>2 DEF Silent
<1>5. CASE FlushEnd
  <2>1. suspended # <<>> /\ Sus.phase = "pass" /\ Sus.applying.on = e
    BY <1>1, <1>2, <1>5, FlushEnds
  <2> QED
    BY <1>1, <2>1, CallbackRefs
<1>6. CASE UserActs
  BY <1>1, <1>3, <1>6, UserIsQuiet DEF UserActs, Quiet
<1>7. CASE PassActs
  BY <1>2, <1>3, <1>7
  DEF PassActs, ReleaseListener, PassSkip, PassCall, Called, PassEnd, ReleaseListenersEnd,
      NextDropped, CallbackReturns, flushVars
<1>8. CASE FlushActs
  BY <1>2, <1>4, <1>8
  DEF FlushActs, TakeDropped, ReleaseDropped, ReleaseFirst, CallReleaseListeners, NextDropped,
      DeferReturns, Shutdown, BeginFlush, ApplyActivate, ApplyDefer
<1>9. CASE StartUpdate \/ EndUpdate(FALSE) \/ EndUpdate(TRUE) \/ UNCHANGED vars
  BY <1>2, <1>3, <1>9 DEF StartUpdate, EndUpdate, BeginFlush, vars, flushVars
<1> QED
  BY <1>5, <1>6, <1>7, <1>8, <1>9, Steps

LEMMA ForgottenStays ==
  ASSUME FlushInv, [Next]_vars, NEW e, Dead(e), Silent(e)
  PROVE  /\ Silent(e)'
         /\ Forgotten(e) => Forgotten(e)'
         /\ stored[<<"release", e>>] = {} => Forgotten(e)'
<1>1. \A k \in {"notify", "emit", "release"} : stored'[<<k, e>>] \subseteq stored[<<k, e>>]
  BY DeadTopics DEF Silent
<1> QED
  BY <1>1, DeadPasses DEF Silent, Forgotten

------------------------------------------------------------------------------
\* The head of a batch is listed, so dead.
LEMMA HeadsAreDead ==
  ASSUME FlushInv, Lists
  PROVE  /\ phase \in {"listeners", "listening"} => Dead(Head(batch))
         /\ suspended # <<>> /\ Sus.phase = "listening" => Dead(Head(Sus.batch))
<1>1. /\ TypeOK /\ Levels /\ batch \in Seq(Entities)
      /\ suspended # <<>> => Sus.batch \in Seq(Entities)
  <2>1. FlushInv => suspended \in Seq(Suspension) /\ batch \in Seq(Entities)
    BY DEF FlushInv, TypeOK, Suspension
  <2>2. suspended # <<>> => Sus \in Suspension
    BY <2>1, HeadTailProperties DEF Sus
  <2> QED
    BY <2>1, <2>2 DEF FlushInv, Suspension
<1>2. ASSUME phase \in {"listeners", "listening"} PROVE Dead(Head(batch))
  <2>1. batch # <<>>
    BY <1>1, <1>2 DEF Levels, Suits
  <2>2. Head(batch) \in In(batch)
    BY <1>1, <2>1, Tailed
  <2> QED
    BY <2>2 DEF Lists, Listed, Taken
<1>3. ASSUME suspended # <<>>, Sus.phase = "listening" PROVE Dead(Head(Sus.batch))
  <2>1. Sus.batch # <<>>
    BY <1>1, <1>3 DEF Levels, SuspendedSuits, Suits
  <2>2. Head(Sus.batch) \in In(Sus.batch)
    BY <1>1, <1>3, <2>1, Tailed
  <2> QED
    BY <1>3, <2>2 DEF Lists, Listed, Taken
<1> QED
  BY <1>2, <1>3

\* How a flush comes to the listeners of an entity.
LEMMA PhaseSteps ==
  ASSUME FlushInv, [Next]_vars
  PROVE  /\ phase' \in {"listeners", "listening"} =>
              \/ UNCHANGED <<phase, batch>>
              \/ ReleaseDropped /\ phase' = "listeners"
              \/ CallReleaseListeners /\ phase' = "listening"
              \/ /\ suspended # <<>> /\ Sus.phase = "listening" /\ phase' = "listening"
                 /\ batch' = Sus.batch
         /\ suspended' # <<>> =>
              \/ UNCHANGED suspended
              \/ Sus'.phase = phase /\ Sus'.batch = batch
<1> DEFINE Listens == \/ UNCHANGED <<phase, batch>>
                      \/ ReleaseDropped /\ phase' = "listeners"
                      \/ CallReleaseListeners /\ phase' = "listening"
                      \/ /\ suspended # <<>> /\ Sus.phase = "listening" /\ phase' = "listening"
                         /\ batch' = Sus.batch
           Suspends == UNCHANGED suspended \/ (Sus'.phase = phase /\ Sus'.batch = batch)
<1>1. TypeOK /\ Levels /\ Queue
  BY FlushFacts
<1>2. CASE UserActs
  BY <1>1, <1>2, UserIsQuiet DEF UserActs, Quiet
<1>3. CASE PassActs
  BY <1>3
  DEF PassActs, ReleaseListener, PassSkip, PassCall, Called, PassEnd, ReleaseListenersEnd,
      NextDropped, CallbackReturns, flushVars, levelVars
<1>4. CASE FlushActs
  <2>1. CASE ReleaseDropped
    BY <1>1, <2>1, ReleaseDroppedIs DEF ReleaseDropped, ReleaseFirst, levelVars
  <2>2. CASE CallReleaseListeners
    BY <2>2 DEF CallReleaseListeners, NextDropped, levelVars
  <2>3. ASSUME NEW x, ApplyActivate(x) \/ ApplyDefer(x) \/ ApplyToSubscribers(x)
        PROVE  phase' \notin {"listeners", "listening"} /\ UNCHANGED suspended
    BY <1>1, <2>3, StartIs, ApplyIs
    DEF ApplyActivate, ApplyDefer, ApplyToSubscribers, StartEffectPass, levelVars
  <2>4. CASE TakeDropped \/ DeferReturns \/ Shutdown
    BY <1>1, <2>4, ShutdownIs DEF TakeDropped, DeferReturns, levelVars
  <2> QED
    BY <1>4, <2>1, <2>2, <2>3, <2>4 DEF FlushActs
<1>5. CASE StartUpdate \/ EndUpdate(FALSE) \/ UNCHANGED vars
  BY <1>5 DEF StartUpdate, EndUpdate, vars, flushVars, levelVars
<1>6. CASE FlushEnd
  <2>1. /\ suspended' = <<>>
        /\ IF suspended = <<>> THEN phase' \in {"idle", "over"}
           ELSE phase' = Sus.phase /\ batch' = Sus.batch
    BY <1>1, <1>6, FlushEnds
  <2>2. suspended # <<>> => Sus.phase \in {"pass", "listening", "defer"}
    BY <1>1 DEF Levels, SuspendedSuits, InPass
  <2> QED
    BY <2>1, <2>2
<1>7. CASE EndUpdate(TRUE) /\ ~flushing /\ pendingUpdates = 1
  <2>1. phase' = "take"
    BY <1>7 DEF EndUpdate, BeginFlush
  <2>2. suspended' = <<>> \/ (Sus'.phase = phase /\ Sus'.batch = batch)
    BY <1>1, <1>7, FlushBegins
  <2> QED
    BY <2>1, <2>2
<1>8. \/ UserActs \/ PassActs \/ FlushActs
      \/ StartUpdate \/ EndUpdate(FALSE) \/ FlushEnd
      \/ EndUpdate(TRUE) /\ ~flushing /\ pendingUpdates = 1
      \/ UNCHANGED vars
  BY Steps
<1> QED
  BY <1>2, <1>3, <1>4, <1>5, <1>6, <1>7, <1>8

LEMMA NextLists ==
  ASSUME FlushInv, Lists, [Next]_vars
  PROVE  Lists'
<1>1. \A e : Dead(e) /\ Forgotten(e) => Forgotten(e)'
  BY ForgottenStays DEF Forgotten
<1>2. \A e : Dead(e) /\ Silent(e) => Silent(e)'
  BY ForgottenStays
<1>3. ASSUME NEW e \in Listed' PROVE Dead(e)'
  <2>1. e \in In(droppedIds') \/ e \in Taken'
    BY DEF Listed
  <2>2. e \in Listed \/ Dead(e)'
    BY <2>1, DeadSteps, TakenSteps DEF Listed
  <2> QED
    BY <2>2, DeadSteps DEF Lists
<1>4. ASSUME NEW e \in born' \ Listed', Dead(e)' PROVE Forgotten(e)'
  <2>1. e \notin In(droppedIds') /\ e \notin Taken'
    BY <1>4 DEF Listed
  <2>2. Dead(e)
    BY <1>4, <2>1, DeadSteps
  <2>3. CASE e \notin Listed
    BY <1>1, <2>2, <2>3 DEF Lists, Dead
  <2>4. CASE e \in Listed
    <3>1. e \in Taken
      <4>1. CASE TakeDropped
        BY <2>1, <2>4, <4>1, TakenSteps DEF Listed
      <4>2. CASE ~TakeDropped
        BY <2>1, <2>4, <4>2, DeadSteps DEF Listed
      <4> QED
        BY <4>1, <4>2
    <3>2. /\ e = Head(batch)
          /\ \/ phase = "listening"
             \/ phase = "listeners" /\ stored[<<"release", e>>] = {}
      BY <2>1, <3>1, TakenSteps
    <3> QED
      BY <1>1, <2>2, <3>2 DEF Lists, Forgotten
  <2> QED
    BY <2>3, <2>4
<1>5. ASSUME phase' = "listeners" PROVE Silent(Head(batch))'
  <2>1. CASE UNCHANGED <<phase, batch>>
    <3>1. Silent(Head(batch)) /\ Dead(Head(batch)) /\ Head(batch)' = Head(batch)
      BY <1>5, <2>1, HeadsAreDead DEF Lists
    <3>2. \A e : e = Head(batch) => Silent(e)'
      BY <1>2, <3>1
    <3> QED
      BY <2>1, <3>2 DEF Silent, PassOver
  <2>2. CASE ReleaseDropped
    <3>1. /\ UNCHANGED batch /\ Head(batch) \in Entities
          /\ stored' = [k \in Topics |-> IF k \in {"notify", "emit"} \X {Head(batch)} THEN {}
                                         ELSE stored[k]]
      BY <1>5, <2>2, FlushFacts, ReleaseDroppedIs
    <3>2. <<"notify", Head(batch)>> \in Topics /\ <<"emit", Head(batch)>> \in Topics
      BY <3>1 DEF Topics, Emitters
    <3> QED
      BY <1>5, <3>1, <3>2 DEF Silent, PassOver
  <2> QED
    BY <1>5, <2>1, <2>2, PhaseSteps
<1>6. ASSUME phase' = "listening" PROVE Forgotten(Head(batch))'
  <2>1. CASE UNCHANGED <<phase, batch>>
    <3>1. Forgotten(Head(batch)) /\ Dead(Head(batch)) /\ Head(batch)' = Head(batch)
      BY <1>6, <2>1, HeadsAreDead DEF Lists
    <3>2. \A e : e = Head(batch) => Forgotten(e)'
      BY <1>1, <3>1
    <3> QED
      BY <2>1, <3>2 DEF Forgotten, Silent, PassOver
  <2>2. CASE CallReleaseListeners
    <3>1. /\ batch' = batch /\ Head(batch) \in Entities /\ phase = "listeners"
          /\ \A l \in Topics : stored'[l] = IF l = <<"release", Head(batch)>> THEN {}
                                            ELSE stored[l]
      BY <1>6, <2>2, FlushFacts, CallListenersIs
    <3>2. Silent(Head(batch)) /\ Dead(Head(batch))
      BY <3>1, HeadsAreDead DEF Lists
    <3>3. <<"release", Head(batch)>> \in Topics
      BY <3>1 DEF Topics
    <3>4. \A e : e = Head(batch) => Silent(e)'
      BY <1>2, <3>2
    <3> QED
      BY <3>1, <3>3, <3>4 DEF Forgotten, Silent, PassOver
  <2>3. CASE suspended # <<>> /\ Sus.phase = "listening" /\ batch' = Sus.batch
    <3>1. Forgotten(Head(Sus.batch)) /\ Dead(Head(Sus.batch))
      BY <2>3, HeadsAreDead DEF Lists
    <3>2. \A e : e = Head(Sus.batch) => Forgotten(e)'
      BY <1>1, <3>1
    <3> QED
      BY <2>3, <3>2 DEF Forgotten, Silent, PassOver
  <2> QED
    BY <1>6, <2>1, <2>2, <2>3, PhaseSteps
<1>7. ASSUME suspended' # <<>>, Sus'.phase = "listening" PROVE Forgotten(Head(Sus.batch))'
  <2>1. CASE UNCHANGED suspended
    <3>1. Forgotten(Head(Sus.batch)) /\ Dead(Head(Sus.batch)) /\ Sus' = Sus
      BY <1>7, <2>1, HeadsAreDead DEF Lists, Sus
    <3>2. \A e : e = Head(Sus.batch) => Forgotten(e)'
      BY <1>1, <3>1
    <3> QED
      BY <3>1, <3>2 DEF Forgotten, Silent, PassOver
  <2>2. CASE Sus'.phase = phase /\ Sus'.batch = batch
    <3>1. Forgotten(Head(batch)) /\ Dead(Head(batch))
      BY <1>7, <2>2, HeadsAreDead DEF Lists
    <3>2. \A e : e = Head(batch) => Forgotten(e)'
      BY <1>1, <3>1
    <3> QED
      BY <2>2, <3>2 DEF Forgotten, Silent, PassOver
  <2> QED
    BY <1>7, <2>1, <2>2, PhaseSteps
<1> QED
  BY <1>3, <1>4, <1>5, <1>6, <1>7 DEF Lists

LEMMA Joined ==
  ASSUME NEW S, NEW s \in Seq(S), NEW t \in Seq(S)
  PROVE  s \o t \in Seq(S) /\ In(s \o t) = In(s) \cup In(t)
<1>1. /\ s \o t \in Seq(S) /\ Len(s \o t) = Len(s) + Len(t)
      /\ \A i \in 1 .. Len(s) + Len(t) : (s \o t)[i] = IF i <= Len(s) THEN s[i] ELSE t[i - Len(s)]
  BY ConcatProperties
<1> DEFINE a == s \o t
           m == Len(s)
           n == Len(t)
<1>2. /\ m \in Nat /\ n \in Nat
      /\ DOMAIN s = 1 .. m /\ DOMAIN t = 1 .. n /\ DOMAIN a = 1 .. m + n
  BY <1>1, InSeq
<1>3. \A i \in 1 .. m + n : a[i] = IF i <= m THEN s[i] ELSE t[i - m]
  BY <1>1
<1> HIDE DEF a, m, n
<1>4. \A i \in 1 .. m : i \in 1 .. m + n /\ a[i] = s[i]
  BY <1>2, <1>3
<1>5. \A i \in 1 .. n : i + m \in 1 .. m + n /\ a[i + m] = t[i]
  BY <1>2, <1>3
<1>6. \A i \in 1 .. m + n : (i \in 1 .. m /\ a[i] = s[i]) \/ (i - m \in 1 .. n /\ a[i] = t[i - m])
  BY <1>2, <1>3
<1>7. In(a) = In(s) \cup In(t)
  <2>1. In(a) \subseteq In(s) \cup In(t)
    BY <1>2, <1>6 DEF In
  <2>2. In(s) \cup In(t) \subseteq In(a)
    BY <1>2, <1>4, <1>5 DEF In
  <2> QED
    BY <2>1, <2>2
<1> QED
  BY <1>1, <1>7 DEF a

LEMMA ListsForget == FlushInv /\ Lists => ReleasedIsForgotten
<1> SUFFICES ASSUME FlushInv, Lists PROVE ReleasedIsForgotten
  OBVIOUS
<1>1. /\ droppedIds \in Seq(Entities) /\ batch \in Seq(Entities) /\ Levels
      /\ suspended \in Seq(Suspension)
  BY DEF FlushInv, TypeOK, Suspension
<1> DEFINE b == IF suspended = <<>> THEN <<>> ELSE Head(suspended).batch
<1>2. b \in Seq(Entities) /\ In(batch) \cup In(b) = Taken
  <2>1. CASE suspended = <<>>
    BY <2>1, EmptyIs DEF Taken
  <2>2. CASE suspended # <<>>
    <3>1. Sus \in Suspension
      BY <1>1, <2>2, HeadTailProperties DEF Sus
    <3> QED
      BY <2>2, <3>1 DEF Taken, Sus, Suspension
  <2> QED
    BY <2>1, <2>2
<1> HIDE DEF b
<1>3. Range(droppedIds \o batch \o b) = Listed
  <2> DEFINE a == droppedIds \o batch
  <2>1. a \in Seq(Entities) /\ In(a) = In(droppedIds) \cup In(batch)
    BY <1>1, Joined
  <2> HIDE DEF a
  <2>2. In(a \o b) = In(a) \cup In(b)
    BY <1>2, <2>1, Joined
  <2>3. Range(a \o b) = Listed
    BY <1>2, <2>1, <2>2 DEF Range, In, Listed
  <2> QED
    BY <2>3 DEF a
<1>4. \A e \in born : refs[e] = 0 =>
        \/ e \in Range(droppedIds \o batch \o b)
        \/ \A k \in {"notify", "emit", "release"} : stored[<<k, e>>] = {}
  BY <1>3 DEF Lists, Dead, Forgotten, Silent
<1>5. CallbackRuns /\ applying.op # "none" => Referenced(applying.on)
  BY <1>1, CallbackRefs, EffectShapes DEF CallbackRuns, Levels, Suits
<1>6. suspended # <<>> /\ Sus.applying.op # "none" => Referenced(Sus.applying.on)
  BY <1>1, CallbackRefs, EffectShapes DEF Levels, SuspendedSuits, Suits
<1> QED
  BY <1>4, <1>5, <1>6 DEF ReleasedIsForgotten, Sus, b

LEMMA ListsInit == Init => Lists
<1> SUFFICES ASSUME Init PROVE Lists
  OBVIOUS
<1>1. born = {} /\ phase = "idle" /\ suspended = <<>> /\ In(droppedIds) = {} /\ In(batch) = {}
  BY EmptyIs DEF Init
<1> QED
  BY <1>1 DEF Lists, Listed, Taken

\* However handles are dropped, by callbacks, by other threads or by the flush
\* itself, and at whatever step of it, an entity without handles is listed for
\* release until nothing subscribes to it; one whose callback runs has some.
THEOREM ReleasedForgotten == Spec => []ReleasedIsForgotten
<1>1. FlushInv /\ Lists /\ [Next]_vars => (FlushInv /\ Lists)'
  BY FlushInvNext, NextLists
<1> QED
  BY <1>1, FlushInvInit, ListsInit, ListsForget, PTL DEF Spec
------------------------------------------------------------------------------
(***************************************************************************)
(* Who owns the subscribers of the App's sets.                             *)
(***************************************************************************)
\* The map owns subscribers that go on, each under its own key.
MapOwns == \A k \in Topics : \A i \in stored[k] : i \in Subs!Born /\ keyOf[i] = k /\ i \notin ended

\* So does the frame of a pass, and each of them once.
FrameOwns(f) ==
  /\ \A i \in Subs!Holds(f) : i \in Subs!Born /\ keyOf[i] = f.key /\ i \notin ended
  /\ Subs!Holds(f) \cap stored[f.key] = {}
  /\ f.rest \cap f.kept = {} /\ f.cur \notin f.rest \cup f.kept
  /\ f.op = "remove" => f.kept = {}

FramesOwn == /\ \A j \in 1 .. Depth : FrameOwns(stack[j])
             /\ \A j, l \in 1 .. Depth : j # l => Subs!Holds(stack[j]) \cap Subs!Holds(stack[l]) = {}

\* A subscription that goes on is in one or the other.
HasOwner(i) == i \in stored[keyOf[i]] \/ \E j \in 1 .. Depth : i \in Subs!Holds(stack[j])
NoneLost    == \A i \in Subs!Born \ (dropped \cup ended) : HasOwner(i)

UsedIsBorn == active \cup ended \subseteq Subs!Born

Owned == MapOwns /\ FramesOwn /\ NoneLost /\ UsedIsBorn

LEMMA FrameTypes ==
  ASSUME Subs!TypeOK
  PROVE  /\ \A j \in 1 .. Depth : /\ stack[j] \in Subs!Frame /\ stack[j].key \in Topics
                                  /\ Subs!Holds(stack[j]) \subseteq Subs!Ids
         /\ \A i \in Subs!Born : keyOf[i] \in Topics
         /\ Subs!NoId \notin Subs!Ids
<1>1. \A j \in 1 .. Depth : stack[j] \in Subs!Frame
  BY ElementOfSeq DEF Subs!TypeOK, Depth
<1>2. \A i \in Subs!Born : keyOf[i] \in Topics
  BY DEF Subs!TypeOK, Subs!Born
<1>3. Subs!NoId \notin Subs!Ids
  BY NatFacts DEF Subs!NoId, Subs!Ids
<1> QED
  BY <1>1, <1>2, <1>3 DEF Subs!Frame, Subs!Holds

\* The map gives up subscribers that were cancelled or discarded.
LEMMA MapShrinks ==
  ASSUME Subs!TypeOK, Owned, UNCHANGED <<next, keyOf, stack>>,
         \A k \in Topics : /\ stored'[k] \subseteq stored[k]
                           /\ stored[k] \ stored'[k] \subseteq dropped' \cup ended'
                           /\ stored'[k] \cap ended' = {},
         \A j \in 1 .. Depth : Subs!Holds(stack[j]) \cap ended' = {},
         dropped \subseteq dropped', ended \subseteq ended', UsedIsBorn'
  PROVE  Owned'
<1>1. \A j \in 1 .. Depth : stack[j].key \in Topics
  BY FrameTypes
<1>2. Subs!Born' = Subs!Born /\ Depth' = Depth
  BY DEF Subs!Born, Depth
<1>3. MapOwns'
  BY <1>2 DEF Owned, MapOwns
<1>4. \A j \in 1 .. Depth : FrameOwns(stack[j])'
  <2> SUFFICES ASSUME NEW j \in 1 .. Depth PROVE FrameOwns(stack[j])'
    OBVIOUS
  <2>1. FrameOwns(stack[j]) /\ stack[j].key \in Topics /\ Subs!Holds(stack[j])' = Subs!Holds(stack[j])
    BY <1>1 DEF Owned, FramesOwn, Subs!Holds
  <2> QED
    BY <1>2, <2>1 DEF FrameOwns
<1>5. FramesOwn'
  BY <1>2, <1>4 DEF Owned, FramesOwn, Subs!Holds
<1>6. NoneLost'
  <2> SUFFICES ASSUME NEW i \in Subs!Born, i \notin dropped', i \notin ended'
               PROVE  i \in stored'[keyOf[i]] \/ \E j \in 1 .. Depth : i \in Subs!Holds(stack[j])
    BY <1>2 DEF NoneLost, HasOwner, Subs!Holds
  <2>1. keyOf[i] \in Topics
    BY FrameTypes
  <2> QED
    BY <2>1 DEF Owned, NoneLost, HasOwner
<1> QED
  BY <1>3, <1>5, <1>6 DEF Owned

\* A subscriber is born into the map.
LEMMA MapGrows ==
  ASSUME Subs!TypeOK, Owned, NEW k \in Topics, Subs!Insert(k) \/ Subs!InsertActive(k)
  PROVE  /\ Owned'
         /\ next \notin Subs!Born /\ Subs!Born' = Subs!Born \cup {next}
         /\ \A i \in Subs!Born : keyOf'[i] = keyOf[i]
         /\ keyOf'[next] = k
<1>1. /\ next \in Nat /\ next' = next + 1
      /\ keyOf' = [i \in 0 .. next |-> IF i = next THEN k ELSE keyOf[i]]
      /\ \A l \in Topics : stored'[l] = IF l = k THEN stored[l] \cup {next} ELSE stored[l]
      /\ active \subseteq active' /\ active' \subseteq active \cup {next}
      /\ UNCHANGED <<stack, dropped, ended>>
  <2>1. next \in Nat /\ stored \in [Topics -> SUBSET Subs!Ids]
    BY NatFacts DEF Subs!TypeOK
  <2>2. Subs!AddSubscriber(k) /\ next' = next + 1 /\ active' \in {active, active \cup {next}}
    BY DEF Subs!Insert, Subs!InsertActive, Subs!NewSubscriber
  <2> QED
    BY <2>1, <2>2 DEF Subs!AddSubscriber
<1>2. next \notin Subs!Born /\ Subs!Born' = Subs!Born \cup {next} /\ \A i \in Subs!Born : i \in 0 .. next
  BY <1>1 DEF Subs!Born
<1>3. next \in 0 .. next /\ \A i \in Subs!Born : i # next /\ i \in 0 .. next
  BY <1>1, <1>2
<1>4. keyOf'[next] = k /\ \A i \in Subs!Born : keyOf'[i] = keyOf[i]
  BY <1>1, <1>3
<1>5. Depth' = Depth /\ next \notin active \cup ended
  BY <1>1, <1>2 DEF Depth, Owned, UsedIsBorn
<1>11. \A l \in Topics : stored'[l] = IF l = k THEN stored[l] \cup {next} ELSE stored[l]
  BY <1>1
<1>12. UNCHANGED <<stack, dropped, ended>>
  BY <1>1
<1>6. MapOwns'
  <2> SUFFICES ASSUME NEW l \in Topics, NEW i \in stored'[l]
               PROVE  i \in Subs!Born' /\ keyOf'[i] = l /\ i \notin ended'
    BY DEF MapOwns
  <2>1. CASE i \in stored[l]
    BY <1>1, <1>2, <1>4, <2>1 DEF Owned, MapOwns
  <2>2. CASE i = next /\ l = k
    BY <1>1, <1>2, <1>4, <1>5, <2>2
  <2> QED
    BY <1>11, <2>1, <2>2
<1>7. \A j \in 1 .. Depth : FrameOwns(stack[j])' /\ next \notin Subs!Holds(stack[j])
  <2> SUFFICES ASSUME NEW j \in 1 .. Depth
               PROVE  FrameOwns(stack[j])' /\ next \notin Subs!Holds(stack[j])
    OBVIOUS
  <2>1. FrameOwns(stack[j]) /\ stack[j].key \in Topics /\ Subs!Holds(stack[j])' = Subs!Holds(stack[j])
    BY <1>12, FrameTypes DEF Owned, FramesOwn, Subs!Holds
  <2>2. next \notin Subs!Holds(stack[j])
    BY <1>2, <2>1 DEF FrameOwns
  <2>3. Subs!Holds(stack[j]) \cap stored'[stack[j].key] = {}
    BY <1>11, <2>1, <2>2 DEF FrameOwns
  <2>4. \A i \in Subs!Holds(stack[j]) : /\ i \in Subs!Born' /\ i \notin ended'
                                       /\ keyOf'[i] = stack[j].key
    BY <1>2, <1>4, <1>12, <2>1 DEF FrameOwns
  <2> QED
    BY <1>12, <2>1, <2>2, <2>3, <2>4 DEF FrameOwns
<1>8. FramesOwn'
  BY <1>12, <1>5, <1>7 DEF Owned, FramesOwn, Subs!Holds
<1>9. NoneLost'
  <2> SUFFICES ASSUME NEW i \in Subs!Born', i \notin dropped, i \notin ended
               PROVE  i \in stored'[keyOf'[i]] \/ \E j \in 1 .. Depth : i \in Subs!Holds(stack[j])
    BY <1>1, <1>5 DEF NoneLost, HasOwner, Subs!Holds
  <2>1. CASE i = next
    BY <1>4, <1>11, <2>1
  <2>2. CASE i \in Subs!Born
    <3>1. keyOf[i] \in Topics /\ keyOf'[i] = keyOf[i]
      BY <1>4, <2>2, FrameTypes
    <3> QED
      BY <1>1, <2>2, <3>1 DEF Owned, NoneLost, HasOwner
  <2> QED
    BY <1>2, <2>1, <2>2
<1>10. UsedIsBorn'
  BY <1>1, <1>2 DEF Owned, UsedIsBorn
<1> QED
  BY <1>2, <1>4, <1>6, <1>8, <1>9, <1>10 DEF Owned

\* A pass takes the subscribers of its key out of the map.
LEMMA PassTakes ==
  ASSUME Subs!TypeOK, Owned, NEW k \in Topics, Subs!RetainBegin(k) \/ Subs!RemoveBegin(k)
  PROVE  /\ Owned' /\ UNCHANGED <<next, keyOf, active, dropped, ended>>
         /\ Subs!Top'.rest = stored[k]
<1>1. PICK op \in {"retain", "remove"} : Subs!Begin(op, k)
  BY DEF Subs!RetainBegin, Subs!RemoveBegin
<1>2. Subs!NewFrame(op, k) \in Subs!Frame
  BY NatFacts DEF Subs!NewFrame, Subs!Frame, Subs!TypeOK, Subs!Ids, Subs!Born
<1>3. PICK f \in Subs!Frame : f = Subs!NewFrame(op, k)
  BY <1>2
<1>4. /\ f.key = k /\ Subs!Holds(f) = stored[k] /\ f.kept = {} /\ f.rest = stored[k]
      /\ f.cur = Subs!NoId
  BY <1>3 DEF Subs!NewFrame, Subs!Holds
<1>5. /\ Depth \in Nat /\ Depth' = Depth + 1 /\ stack'[Depth + 1] = f
      /\ \A j \in 1 .. Depth : stack'[j] = stack[j]
      /\ UNCHANGED <<next, keyOf, active, dropped, ended>>
  BY <1>1, <1>3, Pushed DEF Subs!Begin, Subs!StartPass
<1>6. \A l \in Topics : stored'[l] = IF l = k THEN {} ELSE stored[l]
  BY <1>1 DEF Subs!Begin, Subs!StartPass, Subs!TypeOK
<1>7. Subs!Top' = f
  BY <1>5 DEF Subs!Top, Subs!Depth, Depth
<1>8. Subs!Born' = Subs!Born
  BY <1>5 DEF Subs!Born
<1>9. /\ \A i \in stored[k] : i \in Subs!Born /\ keyOf[i] = k /\ i \notin ended
      /\ f.cur \notin stored[k]
  BY <1>4, FrameTypes DEF Owned, MapOwns, Subs!TypeOK
<1>10. MapOwns'
  BY <1>5, <1>6, <1>8 DEF Owned, MapOwns
<1>11. \A j \in 1 .. Depth' : FrameOwns(stack[j])'
  <2> SUFFICES ASSUME NEW j \in 1 .. Depth' PROVE FrameOwns(stack[j])'
    OBVIOUS
  <2>1. CASE j = Depth + 1
    BY <1>4, <1>5, <1>6, <1>8, <1>9, <2>1 DEF FrameOwns, Subs!Holds
  <2>2. CASE j \in 1 .. Depth
    <3>1. stack[j].key \in Topics /\ FrameOwns(stack[j]) /\ stack'[j] = stack[j]
      BY <1>5, <2>2, FrameTypes DEF Owned, FramesOwn
    <3> QED
      BY <1>5, <1>6, <1>8, <3>1 DEF FrameOwns, Subs!Holds
  <2> QED
    BY <1>5, <2>1, <2>2
<1>12. \A j \in 1 .. Depth : Subs!Holds(stack[j]) \cap stored[k] = {}
  <2> SUFFICES ASSUME NEW j \in 1 .. Depth, NEW i \in Subs!Holds(stack[j]), i \in stored[k] PROVE FALSE
    OBVIOUS
  <2> QED
    BY <1>9 DEF Owned, FramesOwn, FrameOwns
<1>13. FramesOwn'
  <2>1. ASSUME NEW j \in 1 .. Depth', NEW l \in 1 .. Depth', j # l
        PROVE  Subs!Holds(stack'[j]) \cap Subs!Holds(stack'[l]) = {}
    <3>1. CASE j = Depth + 1
      BY <1>4, <1>5, <1>12, <2>1, <3>1
    <3>2. CASE l = Depth + 1
      BY <1>4, <1>5, <1>12, <2>1, <3>2
    <3>3. CASE j \in 1 .. Depth /\ l \in 1 .. Depth
      BY <1>5, <2>1, <3>3 DEF Owned, FramesOwn
    <3> QED
      BY <1>5, <3>1, <3>2, <3>3
  <2> QED
    BY <1>11, <2>1 DEF FramesOwn, Subs!Holds
<1>14. NoneLost'
  <2> SUFFICES ASSUME NEW i \in Subs!Born, i \notin dropped, i \notin ended
               PROVE  i \in stored'[keyOf[i]] \/ \E j \in 1 .. Depth' : i \in Subs!Holds(stack'[j])
    BY <1>5, <1>8 DEF NoneLost, HasOwner, Subs!Holds
  <2>1. keyOf[i] \in Topics
    BY FrameTypes
  <2>2. CASE i \in stored[keyOf[i]] /\ keyOf[i] # k
    BY <1>6, <2>1, <2>2
  <2>3. CASE i \in stored[k]
    BY <1>4, <1>5, <2>3
  <2>4. CASE \E j \in 1 .. Depth : i \in Subs!Holds(stack[j])
    BY <1>5, <2>4
  <2> QED
    BY <2>2, <2>3, <2>4 DEF Owned, NoneLost, HasOwner
<1>15. UsedIsBorn'
  BY <1>5, <1>8 DEF Owned, UsedIsBorn
<1> QED
  BY <1>4, <1>5, <1>7, <1>10, <1>13, <1>14, <1>15 DEF Owned

\* A pass moves its subscribers along, and lets go only of those that were
\* cancelled or that end.
LEMMA PassMoves ==
  ASSUME Subs!TypeOK, Owned, stack # <<>>, NEW f \in Subs!Frame, Subs!ReplaceTop(f),
         UNCHANGED <<next, keyOf, stored, active, dropped>>,
         f.key = Subs!Top.key, f.op = Subs!Top.op, Subs!Holds(f) \subseteq Subs!Holds(Subs!Top),
         NEW S, ended' = ended \cup S, S \subseteq Subs!Holds(Subs!Top), S \cap Subs!Holds(f) = {},
         Subs!Holds(Subs!Top) \ Subs!Holds(f) \subseteq dropped \cup S,
         f.rest \cap f.kept = {}, f.cur \notin f.rest \cup f.kept,
         f.op = "remove" => f.kept = {}
  PROVE  Owned'
<1>1. /\ Depth' = Depth /\ Depth \in 1 .. Depth
      /\ \A j \in 1 .. Depth : stack'[j] = IF j = Depth THEN f ELSE stack[j]
  BY Replaced, TopFrame
<1>2. Subs!Top = stack[Depth] /\ Subs!Born' = Subs!Born
  BY TopFrame DEF Subs!Born
<1>3. FrameOwns(Subs!Top) /\ Subs!Top.key \in Topics
  BY <1>1, <1>2, FrameTypes DEF Owned, FramesOwn
<1>4. MapOwns'
  <2> SUFFICES ASSUME NEW k \in Topics, NEW i \in stored[k]
               PROVE  i \in Subs!Born /\ keyOf[i] = k /\ i \notin S
    BY <1>2 DEF Owned, MapOwns
  <2>1. i \in Subs!Born /\ keyOf[i] = k
    BY DEF Owned, MapOwns
  <2> QED
    BY <1>3, <2>1 DEF FrameOwns
<1>5. \A j \in 1 .. Depth : FrameOwns(stack[j])'
  <2> SUFFICES ASSUME NEW j \in 1 .. Depth PROVE FrameOwns(stack[j])'
    OBVIOUS
  <2>1. CASE j = Depth
    BY <1>1, <1>2, <1>3, <2>1 DEF FrameOwns, Subs!Holds
  <2>2. CASE j # Depth
    <3>1. FrameOwns(stack[j]) /\ stack'[j] = stack[j]
          /\ Subs!Holds(stack[j]) \cap Subs!Holds(Subs!Top) = {}
      BY <1>1, <1>2, <2>2 DEF Owned, FramesOwn
    <3> QED
      BY <1>2, <3>1 DEF FrameOwns, Subs!Holds
  <2> QED
    BY <2>1, <2>2
<1>6. FramesOwn'
  <2>1. ASSUME NEW j \in 1 .. Depth, NEW l \in 1 .. Depth, j # l
        PROVE  Subs!Holds(stack'[j]) \cap Subs!Holds(stack'[l]) = {}
    BY <1>1, <1>2, <2>1 DEF Owned, FramesOwn
  <2> QED
    BY <1>1, <1>5, <2>1 DEF FramesOwn, Subs!Holds
<1>7. NoneLost'
  <2> SUFFICES ASSUME NEW i \in Subs!Born, i \notin dropped, i \notin ended'
               PROVE  i \in stored[keyOf[i]] \/ \E j \in 1 .. Depth : i \in Subs!Holds(stack'[j])
    BY <1>1, <1>2 DEF NoneLost, HasOwner, Subs!Holds
  <2> QED
    BY <1>1, <1>2 DEF Owned, NoneLost, HasOwner
<1>8. UsedIsBorn'
  BY <1>2, <1>3 DEF Owned, UsedIsBorn, FrameOwns
<1> QED
  BY <1>4, <1>6, <1>7, <1>8 DEF Owned

\* A pass that is over puts what it kept back into the map.
LEMMA PassPutsBack ==
  ASSUME Subs!TypeOK, Owned, Subs!RetainEnd \/ Subs!RemoveEnd
  PROVE  Owned' /\ UNCHANGED <<next, keyOf, active, dropped, ended>> /\ Subs!Top.rest = {}
<1>1. /\ stack # <<>> /\ stack' = SubSeq(stack, 1, Depth - 1)
      /\ Subs!Top.cur = Subs!NoId /\ Subs!Top.rest = {}
      /\ UNCHANGED <<next, keyOf, active, dropped, ended>>
  BY SetDepth DEF Subs!RetainEnd, Subs!RemoveEnd, Subs!LeavePass, Subs!Scanning
<1>2. /\ Depth \in 1 .. Depth /\ Depth \in Nat /\ Depth' = Depth - 1
      /\ \A j \in 1 .. Depth - 1 : stack'[j] = stack[j]
  BY <1>1, Popped, TopFrame
<1>3. /\ Subs!Top = stack[Depth] /\ Subs!Top.key \in Topics
      /\ Subs!Holds(Subs!Top) = Subs!Top.kept /\ FrameOwns(Subs!Top)
  BY <1>1, <1>2, TopFrame, FrameTypes DEF Subs!Holds, Owned, FramesOwn
<1>4. \A k \in Topics : stored'[k] = IF k = Subs!Top.key THEN Subs!Top.kept \cup stored[k]
                                     ELSE stored[k]
  <2>1. CASE Subs!RetainEnd
    BY <2>1, <1>3 DEF Subs!RetainEnd, Subs!TypeOK
  <2>2. CASE Subs!RemoveEnd
    <3>1. Subs!Top.kept = {}
      BY <2>2, <1>3 DEF FrameOwns, Subs!RemoveEnd, Subs!LeavePass, Subs!Scanning
    <3> QED
      BY <2>2, <3>1 DEF Subs!RemoveEnd
  <2> QED
    BY <2>1, <2>2
<1>5. \A j \in 1 .. Depth - 1 : /\ j \in 1 .. Depth /\ j # Depth
                               /\ stack[j].key \in Topics /\ FrameOwns(stack[j])
                               /\ Subs!Holds(stack[j]) \cap Subs!Top.kept = {}
  <2>1. \A j \in 1 .. Depth - 1 : j \in 1 .. Depth /\ j # Depth
    BY <1>2
  <2> QED
    BY <1>2, <1>3, <2>1, FrameTypes DEF Owned, FramesOwn
<1>6. Subs!Born' = Subs!Born
  BY <1>1 DEF Subs!Born
<1>7. MapOwns'
  <2> SUFFICES ASSUME NEW k \in Topics, NEW i \in stored'[k]
               PROVE  i \in Subs!Born /\ keyOf[i] = k /\ i \notin ended
    BY <1>1, <1>6 DEF MapOwns
  <2>1. CASE i \in stored[k]
    BY <2>1 DEF Owned, MapOwns
  <2>2. CASE k = Subs!Top.key /\ i \in Subs!Top.kept
    BY <1>3, <2>2 DEF FrameOwns
  <2> QED
    BY <1>4, <2>1, <2>2
<1>8. \A j \in 1 .. Depth - 1 : FrameOwns(stack[j])'
  <2> SUFFICES ASSUME NEW j \in 1 .. Depth - 1 PROVE FrameOwns(stack[j])'
    OBVIOUS
  <2>1. /\ stack'[j] = stack[j] /\ stack[j].key \in Topics /\ FrameOwns(stack[j])
        /\ Subs!Holds(stack[j]) \cap Subs!Top.kept = {}
    BY <1>2, <1>5
  <2>2. Subs!Holds(stack[j]) \cap stored'[stack[j].key] = {}
    BY <1>4, <2>1 DEF FrameOwns
  <2> QED
    BY <1>1, <1>6, <2>1, <2>2 DEF FrameOwns, Subs!Holds
<1>9. FramesOwn'
  <2>1. ASSUME NEW j \in 1 .. Depth - 1, NEW l \in 1 .. Depth - 1, j # l
        PROVE  Subs!Holds(stack'[j]) \cap Subs!Holds(stack'[l]) = {}
    BY <1>2, <1>5, <2>1 DEF Owned, FramesOwn
  <2> QED
    BY <1>2, <1>8, <2>1 DEF FramesOwn, Subs!Holds
<1>10. NoneLost'
  <2> SUFFICES ASSUME NEW i \in Subs!Born, i \notin dropped, i \notin ended
               PROVE  i \in stored'[keyOf[i]] \/ \E j \in 1 .. Depth - 1 : i \in Subs!Holds(stack'[j])
    BY <1>1, <1>2, <1>6 DEF NoneLost, HasOwner, Subs!Holds
  <2>1. keyOf[i] \in Topics
    BY FrameTypes
  <2>2. CASE i \in stored[keyOf[i]]
    BY <1>4, <2>1, <2>2
  <2>3. CASE i \in Subs!Top.kept
    BY <1>3, <1>4, <2>3 DEF FrameOwns
  <2>4. ASSUME NEW j \in 1 .. Depth - 1, i \in Subs!Holds(stack[j])
        PROVE  \E l \in 1 .. Depth - 1 : i \in Subs!Holds(stack'[l])
    BY <1>2, <2>4
  <2>5. \A j \in 1 .. Depth : j = Depth \/ j \in 1 .. Depth - 1
    BY <1>2
  <2>6. \/ i \in stored[keyOf[i]] \/ i \in Subs!Top.kept
        \/ \E j \in 1 .. Depth - 1 : i \in Subs!Holds(stack[j])
    BY <1>3, <2>5 DEF Owned, NoneLost, HasOwner
  <2> QED
    BY <2>2, <2>3, <2>4, <2>6
<1>11. UsedIsBorn'
  BY <1>1, <1>6 DEF Owned, UsedIsBorn
<1> QED
  BY <1>1, <1>7, <1>9, <1>10, <1>11 DEF Owned

\* What the steps of the App do to its sets.
Scans == \/ Subs!RetainSkip \/ Subs!RetainDiscard \/ Subs!RetainDecline \/ Subs!RetainCall
         \/ Subs!RemoveSkip \/ Subs!RemoveCall

SetsNext == \/ \E t \in Topics : \/ Subs!Insert(t) \/ Subs!InsertActive(t)
                                 \/ Subs!RetainBegin(t) \/ Subs!RemoveBegin(t)
            \/ \E h \in handles : Subs!Unsubscribe(h) \/ Subs!Detach(h)
            \/ \E i \in Subs!Ids : Subs!Activate(i)
            \/ \E K \in SUBSET Topics : Subs!Discard(K)
            \/ Scans
            \/ \E keep \in BOOLEAN : Subs!RetainReturn(keep) \/ Subs!RemoveReturn
            \/ Subs!RetainEnd \/ Subs!RemoveEnd
            \/ UNCHANGED setVars

LEMMA SetSteps ==
  ASSUME FlushInv, [Next]_vars
  PROVE  SetsNext
<1>1. TypeOK /\ Levels /\ Queue
  BY DEF FlushInv
<1>2. CASE UserActs
  <2>1. CASE \E t \in Topics : Observe(t) \/ ObserveNow(t)
    BY <2>1 DEF Observe, ObserveNow, SetsNext
  <2>2. CASE \E h \in handles : Unsubscribe(h) \/ Detach(h)
    BY <2>2 DEF Unsubscribe, Detach, SetsNext
  <2>3. CASE UNCHANGED setVars
    BY <2>3 DEF SetsNext
  <2> QED
    BY <1>2, <2>1, <2>2, <2>3
    DEF UserActs, Defer, New, Hold, Release, Emit, EmitNumbered, Notify, Notified
<1>3. CASE PassActs
  BY <1>3
  DEF PassActs, ReleaseListener, PassSkip, PassCall, Called, PassEnd, ReleaseListenersEnd,
      CallbackReturns, SetsNext, Scans
<1>4. CASE FlushActs
  <2>1. CASE ReleaseDropped
    <3>1. ReleaseFirst({"notify", "emit"}) /\ (batch # <<>> => Head(batch) \in Entities)
      BY <1>1, <2>1, HeadTailProperties DEF ReleaseDropped, TypeOK
    <3>2. batch # <<>> => {"notify", "emit"} \X {Head(batch)} \in SUBSET Topics
      BY <3>1 DEF Topics, Emitters
    <3> QED
      BY <3>1, <3>2 DEF ReleaseFirst, SetsNext
  <2>2. CASE CallReleaseListeners
    <3>1. batch # <<>> /\ Head(batch) \in Entities
      BY <1>1, <2>2, CallListenersIs
    <3>2. <<"release", Head(batch)>> \in Topics
      BY <3>1 DEF Topics
    <3> QED
      BY <2>2, <3>2 DEF CallReleaseListeners, SetsNext
  <2>3. ASSUME NEW x, ApplyActivate(x) PROVE SetsNext
    <3>1. Pop("activate", x) /\ Subs!Activate(x.sub)
      BY <2>3 DEF ApplyActivate
    <3>2. x \in Effect /\ x.op = "activate"
      BY <1>1, <3>1, Tailed DEF Pop, TypeOK
    <3>3. x.sub \in Subs!Ids
      BY <3>2, EffectIs
    <3> QED
      BY <3>1, <3>3 DEF SetsNext
  <2>4. ASSUME NEW x, ApplyToSubscribers(x) PROVE SetsNext
    <3>1. x.op \in {"notify", "emit", "created"} /\ x \in Effect /\ Pop(x.op, x)
      BY <1>1, <2>4, StartIs
    <3>2. TopicOf(x) \in Topics
      BY <1>1, <3>1, TopicIs
    <3> QED
      BY <2>4, <3>2 DEF ApplyToSubscribers, StartEffectPass, SetsNext
  <2>5. CASE UNCHANGED setVars
    BY <2>5 DEF SetsNext
  <2> QED
    BY <1>4, <2>1, <2>2, <2>3, <2>4, <2>5
    DEF FlushActs, TakeDropped, DeferReturns, Shutdown, ApplyDefer
<1>5. CASE \/ StartUpdate \/ EndUpdate(FALSE) \/ FlushEnd \/ EndUpdate(TRUE) \/ UNCHANGED vars
  BY <1>5 DEF StartUpdate, EndUpdate, FlushEnd, vars, SetsNext
<1> QED
  BY <1>2, <1>3, <1>4, <1>5, Steps

\* What is given out, activated, cancelled or ended stays so.
SetsGoOn == /\ Subs!Born \subseteq Subs!Born' /\ \A i \in Subs!Born : keyOf'[i] = keyOf[i]
            /\ active \subseteq active' /\ dropped \subseteq dropped' /\ ended \subseteq ended'

\* A pass moves along.
LEMMA ScansOwned ==
  ASSUME Subs!TypeOK, Owned, Scans
  PROVE  Owned' /\ SetsGoOn
<1>1. PICK i \in Subs!Ids :
        /\ stack # <<>> /\ Subs!Top.cur = Subs!NoId /\ i \in Subs!Top.rest /\ ended \subseteq ended'
        /\ UNCHANGED <<next, keyOf, stored, active, dropped>>
        /\ \/ /\ Subs!ReplaceTop([Subs!Top EXCEPT !.rest = @ \ {i}])
              /\ \/ i \in dropped /\ ended' = ended
                 \/ ended' = ended \cup {i}
           \/ /\ Subs!ReplaceTop([Subs!Top EXCEPT !.rest = @ \ {i}, !.kept = @ \cup {i}])
              /\ Subs!Top.op = "retain" /\ ended' = ended
           \/ Subs!Call(i) /\ ended' = ended
  BY DEF Scans, Subs!RetainSkip, Subs!RetainDiscard, Subs!RetainDecline, Subs!RetainCall,
         Subs!RemoveSkip, Subs!RemoveCall, Subs!Visit, Subs!Scanning, Subs!IsNext
<1>2. Subs!Top \in Subs!Frame /\ i # Subs!NoId
  BY <1>1, TopFrame, FrameTypes
<1>3. /\ FrameOwns(Subs!Top) /\ Subs!Top.key \in Topics
      /\ Subs!NoId \notin Subs!Top.rest \cup Subs!Top.kept
  <2>1. Subs!Top = stack[Depth] /\ Depth \in 1 .. Depth
    BY <1>1, TopFrame
  <2> QED
    BY <1>2, <2>1, FrameTypes DEF Owned, FramesOwn, Subs!Frame
<1>4. SetsGoOn
  BY <1>1 DEF SetsGoOn, Subs!Born
<1>5. ASSUME Subs!ReplaceTop([Subs!Top EXCEPT !.rest = @ \ {i}]),
             NEW S \in {{}, {i}}, ended' = ended \cup S, i \in dropped \cup S
      PROVE  Owned'
  <2> DEFINE f == [Subs!Top EXCEPT !.rest = @ \ {i}]
  <2>1. /\ f \in Subs!Frame /\ f.key = Subs!Top.key /\ f.op = Subs!Top.op
        /\ f.rest = Subs!Top.rest \ {i} /\ f.kept = Subs!Top.kept /\ f.cur = Subs!NoId
    BY <1>1, <1>2 DEF Subs!Frame
  <2>2. Subs!ReplaceTop(f)
    BY <1>5
  <2> HIDE DEF f
  <2>3. /\ Subs!Holds(Subs!Top) = Subs!Top.rest \cup Subs!Top.kept
        /\ Subs!Holds(f) = (Subs!Top.rest \ {i}) \cup Subs!Top.kept
    BY <1>1, <2>1 DEF Subs!Holds
  <2>4. /\ Subs!Holds(f) \subseteq Subs!Holds(Subs!Top) /\ S \subseteq Subs!Holds(Subs!Top)
        /\ S \cap Subs!Holds(f) = {}
        /\ Subs!Holds(Subs!Top) \ Subs!Holds(f) \subseteq dropped \cup S
    BY <1>1, <1>3, <1>5, <2>3 DEF FrameOwns
  <2>5. /\ f.rest \cap f.kept = {} /\ f.cur \notin f.rest \cup f.kept
        /\ f.op = "remove" => f.kept = {}
    BY <1>3, <2>1 DEF FrameOwns
  <2> QED
    BY <1>1, <1>5, <2>1, <2>2, <2>4, <2>5, PassMoves
<1>6. ASSUME Subs!ReplaceTop([Subs!Top EXCEPT !.rest = @ \ {i}, !.kept = @ \cup {i}]),
             Subs!Top.op = "retain", ended' = ended
      PROVE  Owned'
  <2> DEFINE f == [Subs!Top EXCEPT !.rest = @ \ {i}, !.kept = @ \cup {i}]
  <2>1. /\ f \in Subs!Frame /\ f.key = Subs!Top.key /\ f.op = Subs!Top.op
        /\ f.rest = Subs!Top.rest \ {i} /\ f.kept = Subs!Top.kept \cup {i} /\ f.cur = Subs!NoId
    BY <1>1, <1>2 DEF Subs!Frame
  <2>2. Subs!ReplaceTop(f)
    BY <1>6
  <2> HIDE DEF f
  <2>3. Subs!Holds(f) = Subs!Holds(Subs!Top)
    BY <1>1, <2>1 DEF Subs!Holds
  <2>4. /\ f.rest \cap f.kept = {} /\ f.cur \notin f.rest \cup f.kept
        /\ f.op = "remove" => f.kept = {}
    BY <1>2, <1>3, <1>6, <2>1 DEF FrameOwns
  <2>5. ended' = ended \cup {} /\ {} \subseteq Subs!Holds(Subs!Top) /\ {} \cap Subs!Holds(f) = {}
        /\ Subs!Holds(Subs!Top) \ Subs!Holds(f) \subseteq dropped \cup {}
    BY <1>6, <2>3
  <2> QED
    BY <1>1, <2>1, <2>2, <2>3, <2>4, <2>5, PassMoves
<1>7. ASSUME Subs!Call(i), ended' = ended PROVE Owned'
  <2> DEFINE f == [Subs!Top EXCEPT !.rest = @ \ {i}, !.cur = i, !.called = @ \cup {i}]
  <2>1. /\ f \in Subs!Frame /\ f.key = Subs!Top.key /\ f.op = Subs!Top.op
        /\ f.rest = Subs!Top.rest \ {i} /\ f.kept = Subs!Top.kept /\ f.cur = i
    BY <1>2 DEF Subs!Frame
  <2>2. Subs!ReplaceTop(f)
    BY <1>7 DEF Subs!Call
  <2> HIDE DEF f
  <2>3. Subs!Holds(f) = Subs!Holds(Subs!Top)
    BY <1>1, <1>2, <2>1 DEF Subs!Holds
  <2>4. /\ f.rest \cap f.kept = {} /\ f.cur \notin f.rest \cup f.kept
        /\ f.op = "remove" => f.kept = {}
    BY <1>1, <1>3, <2>1 DEF FrameOwns
  <2>5. ended' = ended \cup {} /\ {} \subseteq Subs!Holds(Subs!Top) /\ {} \cap Subs!Holds(f) = {}
        /\ Subs!Holds(Subs!Top) \ Subs!Holds(f) \subseteq dropped \cup {}
    BY <1>7, <2>3
  <2> QED
    BY <1>1, <2>1, <2>2, <2>3, <2>4, <2>5, PassMoves
<1>8. (i \in dropped /\ ended' = ended) => (ended' = ended \cup {} /\ i \in dropped \cup {})
  OBVIOUS
<1> QED
  BY <1>1, <1>4, <1>5, <1>6, <1>7, <1>8

\* A callback returns.
LEMMA ReturnsOwned ==
  ASSUME Subs!TypeOK, Owned, NEW keep \in BOOLEAN, Subs!RetainReturn(keep) \/ Subs!RemoveReturn
  PROVE  Owned' /\ SetsGoOn /\ UNCHANGED <<next, keyOf, active, dropped>>
         /\ Subs!Top'.rest = Subs!Top.rest
<1> DEFINE i == Subs!Top.cur
<1>1. /\ stack # <<>> /\ i # Subs!NoId /\ UNCHANGED <<next, keyOf, stored, active, dropped>>
      /\ ended \subseteq ended'
  BY DEF Subs!RetainReturn, Subs!RemoveReturn
<1>2. Subs!Top \in Subs!Frame /\ i \in Subs!Ids /\ Subs!Top = stack[Depth] /\ Depth \in 1 .. Depth
  BY <1>1, TopFrame DEF Subs!Frame
<1>3. FrameOwns(Subs!Top)
  BY <1>2 DEF Owned, FramesOwn
<1>4. SetsGoOn
  BY <1>1 DEF SetsGoOn, Subs!Born
<1>5. PICK S \in SUBSET Subs!Ids, T \in SUBSET Subs!Ids :
        /\ Subs!ReplaceTop([Subs!Top EXCEPT !.cur = Subs!NoId, !.kept = S])
        /\ ended' = ended \cup T /\ T \subseteq {i}
        /\ \/ S = Subs!Top.kept /\ i \in dropped \cup T
           \/ S = Subs!Top.kept \cup {i} /\ T = {} /\ Subs!Top.op = "retain"
  <2>1. CASE Subs!RemoveReturn
    <3>1. [Subs!Top EXCEPT !.cur = Subs!NoId, !.kept = Subs!Top.kept] = [Subs!Top EXCEPT !.cur = Subs!NoId]
      BY <1>2 DEF Subs!Frame
    <3>2. Subs!ReplaceTop([Subs!Top EXCEPT !.cur = Subs!NoId, !.kept = Subs!Top.kept])
          /\ ended' = ended \cup {i}
      BY <2>1, <3>1 DEF Subs!RemoveReturn
    <3>3. Subs!Top.kept \in SUBSET Subs!Ids
      BY <1>2 DEF Subs!Frame
    <3> QED
      BY <1>2, <3>2, <3>3
  <2>2. CASE Subs!RetainReturn(keep)
    <3> DEFINE A == IF keep /\ i \notin dropped THEN Subs!Top.kept \cup {i} ELSE Subs!Top.kept
    <3>1. /\ Subs!ReplaceTop([Subs!Top EXCEPT !.cur = Subs!NoId, !.kept = A])
          /\ ended' = (IF keep THEN ended ELSE ended \cup {i}) /\ Subs!Top.op = "retain"
      BY <2>2 DEF Subs!RetainReturn
    <3>2. A \in SUBSET Subs!Ids
      BY <1>2 DEF Subs!Frame
    <3>3. CASE keep /\ i \notin dropped
      <4>1. A = Subs!Top.kept \cup {i} /\ ended' = ended \cup {}
        BY <3>1, <3>3
      <4> QED
        BY <3>1, <3>2, <4>1
    <3>4. CASE keep /\ i \in dropped
      <4>1. /\ A = Subs!Top.kept /\ ended' = ended \cup {} /\ i \in dropped \cup {}
            /\ {} \in SUBSET Subs!Ids /\ {} \subseteq {i}
        BY <3>1, <3>4
      <4> HIDE DEF A
      <4> QED
        BY <3>1, <3>2, <4>1
    <3>5. CASE ~keep
      <4>1. A = Subs!Top.kept /\ ended' = ended \cup {i}
        BY <3>1, <3>5
      <4> QED
        BY <1>2, <3>1, <3>2, <4>1
    <3> QED
      BY <3>3, <3>4, <3>5
  <2> QED
    BY <2>1, <2>2
<1> DEFINE f == [Subs!Top EXCEPT !.cur = Subs!NoId, !.kept = S]
<1>6. /\ f \in Subs!Frame /\ f.key = Subs!Top.key /\ f.op = Subs!Top.op
      /\ f.rest = Subs!Top.rest /\ f.kept = S /\ f.cur = Subs!NoId
  BY <1>2, <1>5 DEF Subs!Frame
<1>7. Subs!ReplaceTop(f)
  BY <1>5
<1> HIDE DEF f
<1>8. /\ Subs!Holds(f) = Subs!Top.rest \cup S
      /\ Subs!Holds(Subs!Top) = Subs!Top.rest \cup Subs!Top.kept \cup {i}
      /\ i \notin Subs!Top.rest \cup Subs!Top.kept
  BY <1>1, <1>3, <1>6 DEF Subs!Holds, FrameOwns
<1>9. /\ Subs!Holds(f) \subseteq Subs!Holds(Subs!Top) /\ T \subseteq Subs!Holds(Subs!Top)
      /\ T \cap Subs!Holds(f) = {}
      /\ Subs!Holds(Subs!Top) \ Subs!Holds(f) \subseteq dropped \cup T
  BY <1>5, <1>8
<1>10. /\ f.rest \cap f.kept = {} /\ f.cur \notin f.rest \cup f.kept
       /\ f.op = "remove" => f.kept = {}
  <2>1. Subs!NoId \notin Subs!Top.rest \cup S
    BY <1>2, <1>5, FrameTypes DEF Subs!Frame
  <2> QED
    BY <1>3, <1>5, <1>6, <1>8, <2>1 DEF FrameOwns
<1>11. Owned'
  BY <1>1, <1>5, <1>6, <1>7, <1>9, <1>10, PassMoves
<1>12. Subs!Top' = f
  BY <1>1, <1>2, <1>6, <1>7, Replaced DEF Subs!Top, Subs!Depth, Depth
<1> QED
  BY <1>1, <1>4, <1>6, <1>11, <1>12

LEMMA OwnedNext ==
  ASSUME FlushInv, Owned, [Next]_vars
  PROVE  Owned' /\ SetsGoOn
<1>1. Subs!TypeOK /\ SetsNext
  BY SetSteps DEF FlushInv, TypeOK
<1>2. ASSUME NEW t \in Topics, Subs!Insert(t) \/ Subs!InsertActive(t) PROVE Owned' /\ SetsGoOn
  BY <1>1, <1>2, MapGrows
  DEF SetsGoOn, Subs!Insert, Subs!InsertActive, Subs!NewSubscriber, Subs!AddSubscriber
<1>3. ASSUME NEW t \in Topics, Subs!RetainBegin(t) \/ Subs!RemoveBegin(t) PROVE Owned' /\ SetsGoOn
  BY <1>1, <1>3, PassTakes DEF SetsGoOn, Subs!Born
<1>4. ASSUME UNCHANGED <<next, keyOf, stack, ended>>, dropped \subseteq dropped',
             active \subseteq active', active' \subseteq Subs!Born,
             \A k \in Topics : stored'[k] \subseteq stored[k] /\ stored[k] \ stored'[k] \subseteq dropped'
      PROVE  Owned' /\ SetsGoOn
  <2>1. /\ \A k \in Topics : stored'[k] \cap ended' = {}
        /\ \A j \in 1 .. Depth : Subs!Holds(stack[j]) \cap ended' = {}
    BY <1>4 DEF Owned, MapOwns, FramesOwn, FrameOwns
  <2>2. UsedIsBorn' /\ SetsGoOn
    BY <1>4 DEF Owned, UsedIsBorn, SetsGoOn, Subs!Born
  <2> QED
    BY <1>1, <1>4, <2>1, <2>2, MapShrinks
<1>5. ASSUME NEW h \in handles, Subs!Unsubscribe(h) \/ Subs!Detach(h) PROVE Owned' /\ SetsGoOn
  <2>1. \A k \in Topics : stored'[k] \subseteq stored[k] /\ stored[k] \ stored'[k] \subseteq dropped'
    BY <1>5 DEF Subs!Unsubscribe, Subs!Cancel, Subs!Detach
  <2> QED
    BY <1>4, <1>5, <2>1 DEF Subs!Unsubscribe, Subs!Cancel, Subs!Detach, Owned, UsedIsBorn
<1>6. ASSUME NEW i \in Subs!Ids, Subs!Activate(i) PROVE Owned' /\ SetsGoOn
  <2>1. i \in Subs!Born
    BY <1>1, <1>6, NatFacts DEF Subs!Activate, Subs!Born, Subs!Ids, Subs!TypeOK
  <2> QED
    BY <1>4, <1>6, <2>1 DEF Subs!Activate, Owned, UsedIsBorn
<1>7. ASSUME NEW K \in SUBSET Topics, Subs!Discard(K) PROVE Owned' /\ SetsGoOn
  <2>1. /\ ended' = ended \cup UNION {stored[k] : k \in K}
        /\ \A k \in Topics : stored'[k] = IF k \in K THEN {} ELSE stored[k]
        /\ UNCHANGED <<next, keyOf, active, dropped, stack>>
    BY <1>7 DEF Subs!Discard
  <2>2. \A k \in K : k \in Topics
    OBVIOUS
  <2>3. \A k \in Topics \ K : stored[k] \cap ended' = {}
    BY <2>1, <2>2 DEF Owned, MapOwns
  <2>4. \A k \in Topics : stored'[k] \cap ended' = {}
    BY <2>1, <2>3
  <2>5. \A j \in 1 .. Depth : Subs!Holds(stack[j]) \cap ended' = {}
    <3> SUFFICES ASSUME NEW j \in 1 .. Depth, NEW i \in Subs!Holds(stack[j]), i \in ended' PROVE FALSE
      OBVIOUS
    <3>1. FrameOwns(stack[j])
      BY DEF Owned, FramesOwn
    <3>2. PICK k \in K : i \in stored[k]
      BY <2>1, <3>1 DEF FrameOwns
    <3> QED
      BY <2>2, <3>1, <3>2 DEF FrameOwns, Owned, MapOwns
  <2>6. UsedIsBorn' /\ SetsGoOn
    <3>1. UNION {stored[k] : k \in K} \subseteq Subs!Born
      BY <2>2 DEF Owned, MapOwns
    <3> QED
      BY <2>1, <3>1 DEF Owned, UsedIsBorn, SetsGoOn, Subs!Born
  <2>7. \A k \in Topics : stored'[k] \subseteq stored[k] /\ stored[k] \ stored'[k] \subseteq dropped' \cup ended'
    BY <2>1
  <2> QED
    BY <1>1, <2>1, <2>4, <2>5, <2>6, <2>7, MapShrinks
<1>8. ASSUME Subs!RetainEnd \/ Subs!RemoveEnd PROVE Owned' /\ SetsGoOn
  BY <1>1, <1>8, PassPutsBack DEF SetsGoOn, Subs!Born
<1>9. CASE UNCHANGED setVars
  BY <1>4, <1>9 DEF setVars, Owned, UsedIsBorn
<1> QED
  BY <1>1, <1>2, <1>3, <1>5, <1>6, <1>7, <1>8, <1>9, ScansOwned, ReturnsOwned DEF SetsNext

LEMMA OwnedInit == Init => Owned
<1> SUFFICES ASSUME Init PROVE Owned
  OBVIOUS
<1>1. /\ stack = <<>> /\ next = 0 /\ stored = [k \in Topics |-> {}] /\ active = {} /\ ended = {}
  BY DEF Init, Subs!Init
<1>2. Depth = 0 /\ Subs!Born = {}
  BY <1>1, EmptyIs DEF Depth, Subs!Born
<1> QED
  BY <1>1, <1>2 DEF Owned, MapOwns, FramesOwn, NoneLost, UsedIsBorn

------------------------------------------------------------------------------
(***************************************************************************)
(* The order of the queue.                                                 *)
(***************************************************************************)
Activation(i) == [op |-> "activate", sub |-> i]

Before(s, x, y) == \E a, b \in DOMAIN s : a < b /\ s[a] = x /\ s[b] = y

LEMMA OrderAppended ==
  ASSUME NEW S, NEW s \in Seq(S), NEW z \in S
  PROVE  /\ \A x, y : Before(s, x, y) => Before(Append(s, z), x, y)
         /\ \A x \in In(s) : Before(Append(s, z), x, z)
         /\ \A x, y : Before(Append(s, z), x, y) => Before(s, x, y) \/ (x \in In(s) /\ y = z)
<1>1. /\ Append(s, z) \in Seq(S) /\ Len(Append(s, z)) = Len(s) + 1 /\ Append(s, z)[Len(s) + 1] = z
      /\ \A i \in 1 .. Len(s) : Append(s, z)[i] = s[i]
  BY AppendProperties
<1> DEFINE t == Append(s, z)
           n == Len(s)
<1>2. n \in Nat /\ DOMAIN s = 1 .. n /\ DOMAIN t = 1 .. n + 1
  BY <1>1, InSeq
<1>3. t[n + 1] = z /\ \A i \in 1 .. n : t[i] = s[i]
  BY <1>1
<1> HIDE DEF t, n
<1>4. /\ n + 1 \in 1 .. n + 1 /\ \A a \in 1 .. n : a \in 1 .. n + 1 /\ a < n + 1
      /\ \A b \in 1 .. n + 1 : b = n + 1 \/ b \in 1 .. n
      /\ \A a, b \in 1 .. n + 1 : a < b => a \in 1 .. n
  BY <1>2
<1>5. \A x, y : Before(s, x, y) => Before(t, x, y)
  BY <1>2, <1>3, <1>4 DEF Before
<1>6. \A x \in In(s) : Before(t, x, z)
  BY <1>2, <1>3, <1>4 DEF Before, In
<1>7. ASSUME NEW x, NEW y, Before(t, x, y) PROVE Before(s, x, y) \/ (x \in In(s) /\ y = z)
  <2>1. PICK a \in 1 .. n + 1, b \in 1 .. n + 1 : a < b /\ t[a] = x /\ t[b] = y
    BY <1>2, <1>7 DEF Before
  <2>2. a \in 1 .. n /\ s[a] = x
    BY <1>3, <1>4, <2>1
  <2>3. CASE b = n + 1
    BY <1>2, <1>3, <2>1, <2>2, <2>3 DEF In
  <2>4. CASE b \in 1 .. n
    BY <1>2, <1>3, <2>1, <2>2, <2>4 DEF Before
  <2> QED
    BY <1>4, <2>3, <2>4
<1> QED
  BY <1>5, <1>6, <1>7 DEF t

LEMMA OrderTailed ==
  ASSUME NEW S, NEW s \in Seq(S), s # <<>>
  PROVE  /\ \A x, y : Before(s, x, y) => /\ y \in In(Tail(s))
                                         /\ x # Head(s) => Before(Tail(s), x, y)
         /\ \A x, y : Before(Tail(s), x, y) => Before(s, x, y)
         /\ \A y \in In(Tail(s)) : Before(s, Head(s), y)
<1>1. /\ Tail(s) \in Seq(S) /\ Len(Tail(s)) = Len(s) - 1 /\ Head(s) = s[1]
      /\ \A i \in 1 .. Len(Tail(s)) : Tail(s)[i] = s[i + 1]
  BY HeadTailProperties
<1> DEFINE t == Tail(s)
           n == Len(s)
<1>2. n \in Nat /\ n # 0 /\ DOMAIN s = 1 .. n /\ DOMAIN t = 1 .. n - 1
  BY <1>1, InSeq, EmptySeq
<1>3. \A i \in 1 .. n - 1 : t[i] = s[i + 1]
  BY <1>1
<1> HIDE DEF t, n
<1>4. /\ 1 \in 1 .. n
      /\ \A i \in 1 .. n : i = 1 \/ (i - 1 \in 1 .. n - 1 /\ i = (i - 1) + 1)
      /\ \A i \in 1 .. n - 1 : i + 1 \in 1 .. n /\ 1 < i + 1
      /\ \A a, b \in 1 .. n : a < b => b # 1 /\ a - 1 < b - 1
      /\ \A a, b \in 1 .. n - 1 : a < b => a + 1 < b + 1
  BY <1>2
<1>5. ASSUME NEW x, NEW y, Before(s, x, y)
      PROVE  y \in In(t) /\ (x # Head(s) => Before(t, x, y))
  <2>1. PICK a \in 1 .. n, b \in 1 .. n : a < b /\ s[a] = x /\ s[b] = y
    BY <1>2, <1>5 DEF Before
  <2>2. b - 1 \in 1 .. n - 1 /\ t[b - 1] = y /\ a - 1 < b - 1
    BY <1>3, <1>4, <2>1
  <2>3. y \in In(t)
    BY <1>2, <2>2 DEF In
  <2>4. ASSUME x # Head(s) PROVE Before(t, x, y)
    <3>1. a # 1
      BY <1>1, <2>1, <2>4
    <3>2. a - 1 \in 1 .. n - 1 /\ t[a - 1] = x
      BY <1>3, <1>4, <2>1, <3>1
    <3> QED
      BY <1>2, <2>2, <3>2 DEF Before
  <2> QED
    BY <2>3, <2>4
<1>6. ASSUME NEW x, NEW y, Before(t, x, y) PROVE Before(s, x, y)
  <2>1. PICK a \in 1 .. n - 1, b \in 1 .. n - 1 : a < b /\ t[a] = x /\ t[b] = y
    BY <1>2, <1>6 DEF Before
  <2>2. /\ a + 1 \in 1 .. n /\ b + 1 \in 1 .. n /\ a + 1 < b + 1
        /\ s[a + 1] = x /\ s[b + 1] = y
    BY <1>3, <1>4, <2>1
  <2> QED
    BY <1>2, <2>2 DEF Before
<1>7. ASSUME NEW y \in In(t) PROVE Before(s, Head(s), y)
  <2>1. PICK b \in 1 .. n - 1 : t[b] = y
    BY <1>2 DEF In
  <2>2. b + 1 \in 1 .. n /\ 1 < b + 1 /\ s[b + 1] = y
    BY <1>3, <1>4, <2>1
  <2> QED
    BY <1>1, <1>2, <1>4, <2>2 DEF Before
<1> QED
  BY <1>5, <1>6, <1>7 DEF t

\* The queue grows by what user code pushes and shrinks by what is applied.
Pushes(x) == /\ UserActs /\ x \in Effect /\ effects' = Append(effects, x)
             /\ x.op = "emit" => x.n = emitted + 1 /\ emitted' = emitted + 1
Pops(x)   == /\ ApplyActivate(x) \/ ApplyDefer(x) \/ ApplyToSubscribers(x)
             /\ effects # <<>> /\ x = Head(effects) /\ x \in Effect /\ effects' = Tail(effects)

LEMMA QueueSteps ==
  ASSUME FlushInv, [Next]_vars
  PROVE  UNCHANGED effects \/ (\E x : Pushes(x)) \/ (\E x : Pops(x))
<1>1. TypeOK /\ Queue /\ Bounded /\ effects \in Seq(Effect)
  BY DEF FlushInv, TypeOK
<1>2. CASE UserActs
  <2>1. \A x : Push(x) => effects' = Append(effects, x)
    BY DEF Push
  <2>2. CASE Defer
    BY <1>2, <2>1, <2>2, EffectShapes DEF Defer, Pushes
  <2>3. ASSUME NEW e \in Entities, New(e) PROVE \E x : Pushes(x)
    BY <1>2, <2>1, <2>3, EffectShapes DEF New, Pushes, Creation
  <2>4. ASSUME NEW e \in Entities, Emit(e) PROVE \E x : Pushes(x)
    <3>1. emitted + 1 \in 1 .. MaxFuel
      BY <1>1, <2>4, NatFacts DEF Emit, EmitNumbered, UserCode, TypeOK, Bounded
    <3>2. /\ Event(e, emitted + 1) \in Effect /\ emitted' = emitted + 1
          /\ effects' = Append(effects, Event(e, emitted + 1))
      BY <2>1, <2>4, <3>1, EffectShapes DEF Emit, EmitNumbered, Event
    <3>3. Event(e, emitted + 1).n = emitted + 1
      BY DEF Event
    <3> QED
      BY <1>2, <3>2, <3>3 DEF Pushes
  <2>5. ASSUME NEW t \in Topics, Observe(t) PROVE \E x : Pushes(x)
    <3>1. next \in Subs!Ids
      BY <1>1, <2>5, NatFacts
      DEF Observe, Subs!Insert, Subs!NewSubscriber, Subs!AddSubscriber, TypeOK, Subs!TypeOK, Subs!Ids
    <3> QED
      BY <1>2, <2>1, <2>5, <3>1, EffectShapes DEF Observe, Pushes
  <2>6. ASSUME NEW m \in Emitters, Notify(m) PROVE UNCHANGED effects \/ \E x : Pushes(x)
    BY <1>2, <2>6, EffectShapes DEF Notify, Pushes, Notice
  <2>7. CASE UNCHANGED effects
    BY <2>7
  <2> QED
    BY <1>2, <2>2, <2>3, <2>4, <2>5, <2>6, <2>7
    DEF UserActs, Hold, Release, ObserveNow, Unsubscribe, Detach, queueVars
<1>3. CASE PassActs
  BY <1>3
  DEF PassActs, ReleaseListener, PassSkip, PassCall, Called, PassEnd, ReleaseListenersEnd,
      CallbackReturns, queueVars
<1>4. CASE FlushActs
  <2>1. ASSUME NEW x, ApplyActivate(x) \/ ApplyDefer(x) \/ ApplyToSubscribers(x) PROVE Pops(x)
    <3>1. effects # <<>> /\ x = Head(effects) /\ effects' = Tail(effects)
      BY <2>1 DEF ApplyActivate, ApplyDefer, ApplyToSubscribers, StartEffectPass, Pop
    <3> QED
      BY <1>1, <2>1, <3>1, Tailed DEF Pops
  <2>2. CASE TakeDropped \/ ReleaseDropped \/ CallReleaseListeners \/ DeferReturns \/ Shutdown
    BY <2>2
    DEF TakeDropped, ReleaseDropped, ReleaseFirst, CallReleaseListeners, DeferReturns, Shutdown,
        queueVars
  <2> QED
    BY <1>4, <2>1, <2>2 DEF FlushActs
<1>5. CASE StartUpdate \/ EndUpdate(FALSE) \/ EndUpdate(TRUE) \/ FlushEnd \/ UNCHANGED vars
  BY <1>5 DEF StartUpdate, EndUpdate, FlushEnd, queueVars, vars
<1> QED
  BY <1>2, <1>3, <1>4, <1>5, Steps

------------------------------------------------------------------------------
(***************************************************************************)
(* What comes to a subscription: the effect n is queued, or it is applied  *)
(* by a pass that has the subscription still to visit.                     *)
(***************************************************************************)
InQueue(i, n) == \E x \in In(effects) : Serves(x, i, n)
InTop(i, n)   == phase = "pass" /\ Serves(applying, i, n) /\ i \in Subs!Top.rest
InSus(i, n)   == /\ suspended # <<>> /\ Sus.phase = "pass"
                 /\ Serves(Sus.applying, i, n) /\ i \in stack[1].rest
Comes(i, n)   == InQueue(i, n) \/ InTop(i, n) \/ InSus(i, n)

\* The number a call in the pass on top answers.
Number == IF applying.op = "emit" THEN applying.n ELSE 0

OwedCome == \A o \in owed \ lost : Subs!Live(o[1]) => Comes(o[1], o[2])

LEMMA OwedComes == OwedIsPending <=> OwedCome
<1>1. \A i, n : InQueue(i, n) <=> \E k \in DOMAIN effects : Serves(effects[k], i, n)
  BY DEF InQueue, In
<1>2. ASSUME NEW i, NEW n
      PROVE  (\E p \in Passes : Serves(p.for, i, n) /\ i \in p.rest) <=> InTop(i, n) \/ InSus(i, n)
  <2> DEFINE P == IF phase = "pass" THEN {[for |-> applying, rest |-> Subs!Top.rest]} ELSE {}
             S == IF suspended # <<>> /\ Sus.phase = "pass"
                  THEN {[for |-> Sus.applying, rest |-> stack[1].rest]} ELSE {}
             Q(p) == Serves(p.for, i, n) /\ i \in p.rest
  <2>1. Passes = P \cup S
    BY DEF Passes, Sus
  <2>5. ASSUME NEW x, NEW R
        PROVE  (\E p \in {[for |-> x, rest |-> R]} : Q(p)) <=> Serves(x, i, n) /\ i \in R
    <3>1. \A p : p \in {[for |-> x, rest |-> R]} <=> p = [for |-> x, rest |-> R]
      OBVIOUS
    <3>2. [for |-> x, rest |-> R].for = x /\ [for |-> x, rest |-> R].rest = R
      OBVIOUS
    <3> QED
      BY <3>1, <3>2
  <2>2. (\E p \in P : Q(p)) <=> InTop(i, n)
    BY <2>5 DEF InTop
  <2>3. (\E p \in S : Q(p)) <=> InSus(i, n)
    <3>1. CASE suspended # <<>> /\ Sus.phase = "pass"
      BY <2>5, <3>1 DEF InSus
    <3>2. CASE ~(suspended # <<>> /\ Sus.phase = "pass")
      BY <3>2 DEF InSus
    <3> QED
      BY <3>1, <3>2
  <2>4. (\E p \in Passes : Q(p)) <=> (\E p \in P : Q(p)) \/ (\E p \in S : Q(p))
    BY <2>1
  <2> QED
    BY <2>2, <2>3, <2>4
<1> QED
  BY <1>1, <1>2 DEF OwedIsPending, OwedCome, Comes

\* What the pass on top has still to visit.
LEMMA RestSteps ==
  ASSUME Subs!TypeOK, NEW j \in Subs!Ids, Subs!IsNext(j), stack # <<>>,
         \/ Subs!ReplaceTop([Subs!Top EXCEPT !.rest = @ \ {j}])
         \/ Subs!ReplaceTop([Subs!Top EXCEPT !.rest = @ \ {j}, !.kept = @ \cup {j}])
         \/ Subs!Call(j)
  PROVE  Subs!Top'.rest = Subs!Top.rest \ {j}
<1>1. Subs!Top \in Subs!Frame
  BY TopFrame
<1> DEFINE f == [Subs!Top EXCEPT !.rest = @ \ {j}]
           g == [Subs!Top EXCEPT !.rest = @ \ {j}, !.kept = @ \cup {j}]
           h == [Subs!Top EXCEPT !.rest = @ \ {j}, !.cur = j, !.called = @ \cup {j}]
<1>2. /\ f \in Subs!Frame /\ f.rest = Subs!Top.rest \ {j}
      /\ g \in Subs!Frame /\ g.rest = Subs!Top.rest \ {j}
      /\ h \in Subs!Frame /\ h.rest = Subs!Top.rest \ {j}
  BY <1>1 DEF Subs!Frame
<1>3. Subs!ReplaceTop(f) \/ Subs!ReplaceTop(g) \/ Subs!ReplaceTop(h)
  BY DEF Subs!Call
<1> HIDE DEF f, g, h
<1>4. PICK z \in Subs!Frame : Subs!ReplaceTop(z) /\ z.rest = Subs!Top.rest \ {j}
  BY <1>2, <1>3
<1>5. Subs!Top' = z
  BY <1>4, TopFrame, Replaced DEF Subs!Top, Subs!Depth, Depth
<1> QED
  BY <1>4, <1>5

LEMMA SkipRests ==
  ASSUME Subs!TypeOK, Subs!RetainSkip \/ Subs!RetainDiscard
  PROVE  \E j \in Subs!Ids : /\ j \notin active \/ j \in dropped
                             /\ Subs!Top'.rest = Subs!Top.rest \ {j}
<1>1. PICK j \in Subs!Ids :
        /\ Subs!IsNext(j) /\ stack # <<>> /\ (j \notin active \/ j \in dropped)
        /\ \/ Subs!ReplaceTop([Subs!Top EXCEPT !.rest = @ \ {j}])
           \/ Subs!ReplaceTop([Subs!Top EXCEPT !.rest = @ \ {j}, !.kept = @ \cup {j}])
  BY DEF Subs!RetainSkip, Subs!RetainDiscard, Subs!Visit, Subs!Scanning
<1> QED
  BY <1>1, RestSteps

\* A pass calls a live subscriber, the next.
LEMMA CallRests ==
  ASSUME FlushInv, Owned, NEW i \in Subs!Ids, Called(i)
  PROVE  /\ Subs!Top'.rest = Subs!Top.rest \ {i} /\ i \in Subs!Top.rest /\ Subs!Live(i)
         /\ keyOf[i] = TopicOf(applying) /\ phase = "pass"
<1>1. Subs!TypeOK /\ phase = "pass" /\ Levels
  BY DEF FlushInv, TypeOK, Called
<1>2. PICK j \in Subs!Ids :
        /\ Subs!IsNext(j) /\ stack # <<>> /\ j \in active /\ j \notin dropped
        /\ \/ Subs!ReplaceTop([Subs!Top EXCEPT !.rest = @ \ {j}])
           \/ Subs!Call(j)
  BY DEF Called, Subs!RetainCall, Subs!RetainDecline, Subs!Visit, Subs!Scanning
<1>3. Subs!Top'.rest = Subs!Top.rest \ {j}
  BY <1>1, <1>2, RestSteps
<1>4. i = j
  <2>1. Subs!IsNext(i) /\ Subs!IsNext(j) /\ i \in Int /\ j \in Int
    BY <1>2, NatFacts DEF Called, Subs!Ids
  <2>2. i <= j /\ j <= i
    BY <2>1 DEF Subs!IsNext
  <2> QED
    BY <2>1, <2>2
<1>5. i \in Subs!Holds(Subs!Top) /\ i \in Subs!Top.rest
  BY <1>2, <1>4 DEF Subs!IsNext, Subs!Holds
<1>6. FrameOwns(Subs!Top)
  BY <1>1, <1>2, TopFrame DEF Owned, FramesOwn
<1>7. keyOf[i] = Subs!Top.key /\ i \notin ended
  BY <1>5, <1>6 DEF FrameOwns
<1>8. Subs!Top.key = TopicOf(applying)
  BY <1>1 DEF Levels, Suits
<1> QED
  BY <1>1, <1>2, <1>3, <1>4, <1>5, <1>7, <1>8 DEF Subs!Live

LEMMA TopNext ==
  ASSUME FlushInv, Owned, [Next]_vars, NEW i \in active, NEW n, i \notin dropped', InTop(i, n)
  PROVE  InTop(i, n)' \/ InSus(i, n)' \/ (Called(i) /\ n = Number)
<1>1. /\ TypeOK /\ Levels /\ Queue /\ Subs!TypeOK /\ i \in Subs!Ids
      /\ phase = "pass" /\ Serves(applying, i, n) /\ i \in Subs!Top.rest
  BY DEF FlushInv, TypeOK, Subs!TypeOK, InTop
<1>2. keyOf'[i] = keyOf[i] /\ i \notin dropped
  BY OwnedNext DEF Owned, UsedIsBorn, SetsGoOn
<1>3. ASSUME UNCHANGED <<phase, applying>>, i \in Subs!Top'.rest PROVE InTop(i, n)'
  BY <1>1, <1>2, <1>3 DEF InTop, Serves
<1>4. CASE UserActs
  <2>1. Quiet
    BY <1>1, <1>4, UserIsQuiet DEF UserActs
  <2> QED
    BY <1>1, <1>3, <2>1 DEF Quiet, Subs!Top, Subs!Depth
<1>5. CASE PassActs
  <2>1. CASE PassSkip
    <3>1. i \in Subs!Top'.rest
      BY <1>1, <1>2, <2>1, SkipRests DEF PassSkip
    <3> QED
      BY <1>3, <2>1, <3>1 DEF PassSkip, flushVars
  <2>2. ASSUME NEW j \in Subs!Ids, Called(j) PROVE InTop(i, n)' \/ (Called(i) /\ n = Number)
    <3>1. CASE j = i
      BY <1>1, <2>2, <3>1 DEF Serves, Number
    <3>2. CASE j # i
      <4>1. i \in Subs!Top'.rest
        BY <1>1, <2>2, <3>2, CallRests
      <4> QED
        BY <1>3, <2>2, <4>1 DEF Called, flushVars
    <3> QED
      BY <3>1, <3>2
  <2>3. ~PassEnd
    BY <1>1, PassPutsBack DEF PassEnd, Owned
  <2>4. ASSUME NEW keep \in BOOLEAN, CallbackReturns(keep) PROVE InTop(i, n)'
    <3>1. i \in Subs!Top'.rest
      BY <1>1, <2>4, ReturnsOwned DEF CallbackReturns
    <3> QED
      BY <1>3, <2>4, <3>1 DEF CallbackReturns, flushVars
  <2>5. CASE ReleaseListener \/ ReleaseListenersEnd
    BY <1>1, <2>5 DEF ReleaseListener, ReleaseListenersEnd
  <2> QED
    BY <1>5, <2>1, <2>2, <2>3, <2>4, <2>5 DEF PassActs, PassCall
<1>6. CASE FlushActs
  <2>1. FALSE
    BY <1>1, <1>6, StartIs, ApplyIs
    DEF FlushActs, TakeDropped, ReleaseDropped, ReleaseFirst, CallReleaseListeners, DeferReturns,
        Shutdown
  <2> QED
    BY <2>1
<1>7. CASE StartUpdate \/ EndUpdate(FALSE) \/ UNCHANGED vars
  <2>1. UNCHANGED <<phase, applying, stack>>
    BY <1>7 DEF StartUpdate, EndUpdate, vars, setVars, flushVars
  <2> QED
    BY <1>1, <1>3, <2>1 DEF Subs!Top, Subs!Depth
<1>8. CASE EndUpdate(TRUE) /\ ~flushing /\ pendingUpdates = 1
  <2>1. /\ suspended' # <<>> /\ stack'[1] = Subs!Top
        /\ Sus' = [phase |-> phase, applying |-> applying, batch |-> batch]
    BY <1>1, <1>8, FlushBegins DEF InPass
  <2>2. Sus'.phase = phase /\ Sus'.applying = applying
    BY <2>1
  <2>3. Serves(Sus.applying, i, n)'
    BY <1>1, <1>2, <2>2 DEF Serves
  <2> QED
    BY <1>1, <2>1, <2>2, <2>3 DEF InSus
<1>9. ~FlushEnd
  BY <1>1 DEF FlushEnd
<1> QED
  BY <1>4, <1>5, <1>6, <1>7, <1>8, <1>9, Steps

\* The pass of a suspended flush waits.
LEMMA SuspendedWaits ==
  ASSUME FlushInv, [Next]_vars, suspended # <<>>, Sus.phase \in InPass
  PROVE  \/ UNCHANGED suspended /\ stack'[1] = stack[1]
         \/ FlushEnd
<1>1. TypeOK /\ Levels /\ Queue /\ flushing /\ phase # "idle"
  BY LevelFacts DEF FlushInv
<1>2. CASE UserActs
  BY <1>1, <1>2, UserIsQuiet DEF UserActs, Quiet
<1>3. CASE PassActs
  <2>1. UNCHANGED suspended
    BY <1>3 DEF PassActs, ReleaseListener, PassSkip, PassCall, Called, PassEnd, ReleaseListenersEnd,
      NextDropped, CallbackReturns, flushVars, levelVars
  <2> QED
    BY <1>1, <1>3, <2>1, SkipIs, CallIs, EndIs, ListenersIs, ListenersEndIs, ReturnsIs DEF PassActs
<1>4. CASE FlushActs
  <2>1. CASE CallReleaseListeners
    BY <1>1, <2>1, CallListenersIs DEF CallReleaseListeners, levelVars
  <2>2. ASSUME NEW x, ApplyToSubscribers(x) PROVE UNCHANGED suspended /\ stack'[1] = stack[1]
    BY <1>1, <2>2, StartIs DEF ApplyToSubscribers, StartEffectPass, levelVars
  <2>3. ASSUME NEW x, ApplyActivate(x) \/ ApplyDefer(x)
        PROVE  UNCHANGED suspended /\ stack'[1] = stack[1]
    BY <1>1, <2>3, ApplyIs DEF ApplyActivate, ApplyDefer, levelVars
  <2>4. CASE TakeDropped \/ ReleaseDropped \/ DeferReturns \/ Shutdown
    BY <1>1, <2>4
    DEF TakeDropped, ReleaseDropped, ReleaseFirst, DeferReturns, Shutdown, Subs!Discard, setVars,
        levelVars
  <2> QED
    BY <1>4, <2>1, <2>2, <2>3, <2>4 DEF FlushActs
<1>5. CASE StartUpdate \/ EndUpdate(FALSE) \/ UNCHANGED vars
  BY <1>5 DEF StartUpdate, EndUpdate, vars, setVars, flushVars, levelVars
<1>6. ~(EndUpdate(TRUE) /\ ~flushing)
  BY <1>1
<1> QED
  BY <1>2, <1>3, <1>4, <1>5, <1>6, Steps

LEMMA SusNext ==
  ASSUME FlushInv, Owned, [Next]_vars, NEW i \in active, NEW n, InSus(i, n)
  PROVE  InTop(i, n)' \/ InSus(i, n)'
<1>1. /\ TypeOK /\ Levels /\ suspended # <<>> /\ Sus.phase = "pass" /\ Sus.phase \in InPass
      /\ Serves(Sus.applying, i, n) /\ i \in stack[1].rest
  BY DEF FlushInv, InSus, InPass
<1>2. keyOf'[i] = keyOf[i]
  BY OwnedNext DEF Owned, UsedIsBorn, SetsGoOn
<1>3. CASE UNCHANGED suspended /\ stack'[1] = stack[1]
  BY <1>1, <1>2, <1>3 DEF InSus, Serves, Sus
<1>4. CASE FlushEnd
  <2>1. phase' = "pass" /\ applying' = Sus.applying /\ Subs!Top' = stack[1]
    BY <1>1, <1>4, FlushEnds
  <2> QED
    BY <1>1, <1>2, <2>1 DEF InTop, Serves
<1> QED
  BY <1>1, <1>3, <1>4, SuspendedWaits

\* An effect that leaves the queue finds whom it serves in the set, unless the
\* pass of a suspended flush has them: then they miss it, but those it has
\* still to call for a notification.
LEMMA AppliedFinds ==
  ASSUME FlushInv, Owned, NEW x, ApplyToSubscribers(x), NEW i \in active, NEW n,
         i \notin dropped \cup ended, Serves(x, i, n),
         suspended # <<>> => <<i, n>> \in owed \ lost'
  PROVE  InTop(i, n)' \/ InSus(i, n)
<1>1. /\ TypeOK /\ Subs!TypeOK /\ Levels /\ Queue /\ phase = "apply"
      /\ i \in Subs!Born /\ x.op \in {"notify", "emit"}
  BY StartIs DEF FlushInv, TypeOK, Owned, UsedIsBorn, Serves
<1> DEFINE t == <<x.op, x.on>>
<1>2. TopicOf(x) = t /\ keyOf[i] = t /\ t \in Topics
  BY <1>1, FrameTypes DEF TopicOf, Serves
<1>3. HasOwner(i)
  BY <1>1 DEF Owned, NoneLost
<1>4. CASE i \in stored[t]
  <2>1. /\ Subs!RetainBegin(t) /\ phase' = "pass" /\ applying' = x
    BY <1>2, <1>4 DEF ApplyToSubscribers, StartEffectPass
  <2>2. i \in Subs!Top'.rest /\ keyOf'[i] = keyOf[i]
    BY <1>1, <1>2, <1>4, <2>1, PassTakes
  <2> QED
    BY <2>1, <2>2 DEF InTop, Serves
<1>5. ASSUME NEW j \in 1 .. Depth, i \in Subs!Holds(stack[j]) PROVE InSus(i, n)
  <2>1. /\ suspended # <<>> /\ Sus.phase \in InPass /\ j = 1 /\ Depth = 1
    <3>1. Depth = Frames /\ phase \notin InPass /\ Depth \in 0 .. 2
      BY <1>1, LevelFacts DEF InPass
    <3> QED
      BY <3>1 DEF Frames
  <2>2. stack # <<>> /\ Subs!Top = stack[1]
    BY <1>1, <2>1, SetDepth, LevelFacts DEF Subs!Top, Subs!Depth, Depth
  <2>3. stack[1].key = t
    BY <1>2, <1>5, <2>1 DEF Owned, FramesOwn, FrameOwns
  <2>4. Suits(Sus.phase, Sus.applying, Sus.batch, stack[1]) /\ stack[1].cur # Subs!NoId
    BY <1>1, <2>1 DEF Levels, SuspendedSuits, InPass
  <2>5. Sus.phase = "pass"
    BY <1>1, <2>1, <2>3, <2>4 DEF Suits, InPass
  <2>6. TopicOf(Sus.applying) = t /\ Sus.applying.op \in {"notify", "emit", "created"}
    BY <2>3, <2>4, <2>5 DEF Suits
  <2>7. Sus.applying.op = x.op /\ Sus.applying.on = x.on
    BY <1>1, <2>6 DEF TopicOf
  <2>8. <<i, n>> \in owed /\ <<i, n>> \notin Misses(x)
    BY <2>1 DEF ApplyToSubscribers, StartEffectPass
  <2>9. Misses(x) = {o \in owed : /\ o[1] \in (IF x.op = "notify"
                                               THEN Subs!Holds(stack[1]) \ stack[1].rest
                                               ELSE Subs!Holds(stack[1]))
                                  /\ Serves(x, o[1], o[2])}
    BY <2>1, <2>2, <2>5 DEF Misses, Sus
  <2>10. x.op = "notify" /\ i \in stack[1].rest
    BY <1>5, <2>1, <2>8, <2>9
  <2>11. Serves(Sus.applying, i, n)
    BY <2>7, <2>10 DEF Serves
  <2> QED
    BY <2>1, <2>5, <2>10, <2>11 DEF InSus
<1> QED
  BY <1>2, <1>3, <1>4, <1>5 DEF HasOwner

LEMMA ComesNext ==
  ASSUME FlushInv, Owned, [Next]_vars, NEW i \in active, NEW n, i \notin dropped' \cup ended',
         Comes(i, n), \A x : ApplyToSubscribers(x) /\ suspended # <<>> => <<i, n>> \in owed \ lost'
  PROVE  Comes(i, n)' \/ (Called(i) /\ n = Number)
<1>1. effects \in Seq(Effect) /\ i \notin dropped \cup ended /\ keyOf'[i] = keyOf[i]
  BY OwnedNext DEF FlushInv, TypeOK, Owned, UsedIsBorn, SetsGoOn
<1>2. CASE InTop(i, n)
  BY <1>2, TopNext DEF Comes
<1>3. CASE InSus(i, n)
  BY <1>3, SusNext DEF Comes
<1>4. ASSUME NEW y \in In(effects), Serves(y, i, n) PROVE Comes(i, n)'
  <2>1. CASE y \in In(effects')
    BY <1>1, <1>4, <2>1 DEF Comes, InQueue, Serves
  <2>2. CASE UNCHANGED effects
    BY <1>4, <2>1, <2>2
  <2>3. ASSUME NEW x, Pushes(x) PROVE y \in In(effects')
    BY <1>1, <1>4, <2>3, Appended DEF Pushes
  <2>4. ASSUME NEW x, Pops(x) PROVE Comes(i, n)'
    <3>1. CASE y = x
      <4>1. ApplyToSubscribers(x)
        BY <1>4, <2>4, <3>1 DEF Pops, ApplyActivate, ApplyDefer, Pop, Serves
      <4> QED
        BY <1>1, <1>3, <1>4, <3>1, <4>1, AppliedFinds, SusNext DEF Comes
    <3>2. CASE y # x
      BY <1>1, <1>4, <2>1, <2>4, <3>2, Tailed DEF Pops
    <3> QED
      BY <3>1, <3>2
  <2> QED
    BY <2>1, <2>2, <2>3, <2>4, QueueSteps
<1> QED
  BY <1>2, <1>3, <1>4 DEF Comes, InQueue

------------------------------------------------------------------------------
(***************************************************************************)
(* What a live subscription is owed comes to it.                           *)
(***************************************************************************)
OwedIsActive == \A o \in owed : o[1] \in active

OwedInv == OwedIsActive /\ OwedIsPending

\* User code owes to active subscriptions, and queues it for them.
LEMMA NewlyOwed ==
  ASSUME FlushInv, Owned, [Next]_vars, NEW i, NEW n, <<i, n>> \in owed' \ owed
  PROVE  i \in active /\ InQueue(i, n)'
<1>1. /\ TypeOK /\ Queue /\ Bounded /\ effects \in Seq(Effect)
  BY DEF FlushInv, TypeOK
<1>2. ASSUME NEW m \in Emitters, Notify(m) PROVE i \in active /\ InQueue(i, n)'
  <2>1. i \in active /\ keyOf[i] = <<"notify", m>> /\ n = 0 /\ keyOf' = keyOf
    BY <1>2 DEF Notify, Notified, Listeners, setVars
  <2>2. Notice(m) \in In(effects')
    <3>1. CASE m \in pendingNotify
      BY <1>1, <1>2, <3>1 DEF Queue, Notify, Notice
    <3>2. CASE m \notin pendingNotify
      <4>1. effects' = Append(effects, Notice(m)) /\ Notice(m) \in Effect
        BY <1>2, <3>2, EffectShapes DEF Notify, Notice
      <4> QED
        BY <1>1, <4>1, Appended
    <3> QED
      BY <3>1, <3>2
  <2>3. Serves(Notice(m), i, n)'
    BY <2>1 DEF Serves, Notice
  <2> QED
    BY <2>1, <2>2, <2>3 DEF InQueue
<1>3. ASSUME NEW e \in Entities, Emit(e) PROVE i \in active /\ InQueue(i, n)'
  <2>1. /\ i \in active /\ keyOf[i] = <<"emit", e>> /\ n = emitted + 1 /\ keyOf' = keyOf
        /\ effects' = Append(effects, Event(e, n)) /\ fuel > 0
    BY <1>3 DEF Emit, EmitNumbered, Listeners, setVars, Push, Event, UserCode
  <2>2. n \in 1 .. MaxFuel
    BY <1>1, <2>1, NatFacts DEF TypeOK, Bounded
  <2>3. Event(e, n) \in In(effects')
    BY <1>1, <2>1, <2>2, EffectShapes, Appended
  <2>4. Serves(Event(e, n), i, n)'
    BY <2>1 DEF Serves, Event
  <2> QED
    BY <2>1, <2>3, <2>4 DEF InQueue
<1>4. ASSUME owed' \subseteq owed PROVE FALSE
  BY <1>4
<1>5. CASE UserActs
  BY <1>2, <1>3, <1>4, <1>5
  DEF UserActs, Defer, New, Hold, Release, Observe, ObserveNow, Unsubscribe, Detach, auxVars
<1>6. CASE PassActs
  BY <1>4, <1>6
  DEF PassActs, ReleaseListener, PassSkip, PassCall, Called, PassEnd, ReleaseListenersEnd,
      CallbackReturns, auxVars
<1>7. CASE FlushActs
  BY <1>4, <1>7
  DEF FlushActs, TakeDropped, ReleaseDropped, ReleaseFirst, CallReleaseListeners, DeferReturns,
      Shutdown, ApplyActivate, ApplyDefer, ApplyToSubscribers, StartEffectPass, auxVars
<1>8. CASE StartUpdate \/ EndUpdate(FALSE) \/ EndUpdate(TRUE) \/ FlushEnd \/ UNCHANGED vars
  BY <1>4, <1>8 DEF StartUpdate, EndUpdate, FlushEnd, auxVars, vars
<1> QED
  BY <1>5, <1>6, <1>7, <1>8, Steps

\* What is lost stays so.
LEMMA LostStays ==
  ASSUME [Next]_vars
  PROVE  lost \subseteq lost'
<1>1. CASE UserActs
  BY <1>1
  DEF UserActs, Defer, New, Hold, Release, Observe, ObserveNow, Unsubscribe, Detach, Notify, Notified,
      Emit, EmitNumbered, auxVars
<1>2. CASE PassActs
  BY <1>2
  DEF PassActs, ReleaseListener, PassSkip, PassCall, Called, PassEnd, ReleaseListenersEnd,
      CallbackReturns, auxVars
<1>3. CASE FlushActs
  BY <1>3
  DEF FlushActs, TakeDropped, ReleaseDropped, ReleaseFirst, CallReleaseListeners, DeferReturns,
      Shutdown, ApplyActivate, ApplyDefer, ApplyToSubscribers, StartEffectPass, auxVars
<1>4. CASE StartUpdate \/ EndUpdate(FALSE) \/ EndUpdate(TRUE) \/ FlushEnd \/ UNCHANGED vars
  BY <1>4 DEF StartUpdate, EndUpdate, FlushEnd, auxVars, vars
<1> QED
  BY <1>1, <1>2, <1>3, <1>4, Steps

LEMMA OwedInvNext ==
  ASSUME FlushInv, Owned, OwedInv, [Next]_vars
  PROVE  OwedInv'
<1>1. SetsGoOn /\ lost \subseteq lost' /\ owed' \subseteq Subs!Ids \X (0 .. MaxFuel)
  BY OwnedNext, LostStays, FlushInvNext DEF FlushInv, TypeOK
<1>2. \A o \in owed' : o = <<o[1], o[2]>>
  BY <1>1
<1>3. \A o \in owed' : o[1] \in active
  BY <1>2, NewlyOwed DEF OwedInv, OwedIsActive
<1>4. OwedIsActive'
  BY <1>1, <1>3 DEF OwedIsActive, SetsGoOn
<1>5. ASSUME NEW o \in owed', o \notin lost', Subs!Live(o[1])' PROVE Comes(o[1], o[2])'
  <2>1. CASE o \notin owed
    BY <1>2, <1>5, <2>1, NewlyOwed DEF Comes
  <2>2. CASE o \in owed
    <3>1. o[1] \notin dropped' \cup ended' /\ o[1] \in active
      BY <1>3, <1>5 DEF Subs!Live
    <3>2. o \notin lost /\ Subs!Live(o[1])
      BY <1>1, <1>5, <3>1 DEF Subs!Live, SetsGoOn
    <3>3. Comes(o[1], o[2])
      BY <2>2, <3>2, OwedComes DEF OwedInv, OwedCome
    <3>4. ~(Called(o[1]) /\ o[2] = Number)
      BY <1>2, <1>5 DEF Called, Number
    <3>5. <<o[1], o[2]>> \in owed \ lost'
      BY <1>2, <1>5, <2>2
    <3> QED
      BY <3>1, <3>3, <3>4, <3>5, ComesNext
  <2> QED
    BY <2>1, <2>2
<1>6. OwedIsPending'
  <2>1. OwedCome'
    BY <1>5 DEF OwedCome
  <2>2. (OwedIsPending <=> OwedCome)'
    BY OwedComes, PTL
  <2> QED
    BY <2>1, <2>2
<1> QED
  BY <1>4, <1>6 DEF OwedInv

LEMMA OwedInvInit == Init => OwedInv
BY DEF Init, OwedInv, OwedIsActive, OwedIsPending

\* Coalescing, cancellations of others, releases and flushes inside callbacks
\* lose a live subscription nothing it is owed, shutdown's flush apart.
THEOREM OwedPending == Spec => []OwedIsPending
<1>1. FlushInv /\ Owned /\ OwedInv /\ [Next]_vars => (FlushInv /\ Owned /\ OwedInv)'
  BY FlushInvNext, OwnedNext, OwedInvNext
<1>2. OwedInv => OwedIsPending
  BY DEF OwedInv
<1> QED
  BY <1>1, <1>2, FlushInvInit, OwnedInit, OwedInvInit, PTL DEF Spec

------------------------------------------------------------------------------
(***************************************************************************)
(* An observer that was inert when its emitter notified.                   *)
(***************************************************************************)
\* Whoever is born and not active has its activation queued.
InertIsQueued == \A i \in Subs!Born \ active : Activation(i) \in In(effects)

\* The flush of shutdown goes on, or is over.
InShutdown == phase # "idle" /\ (~flushing \/ suspended # <<>>)

\* The activation comes before the notification.
EarlyComes(i) ==
  IF i \in active THEN Comes(i, 0)
  ELSE \E m : keyOf[i] = <<"notify", m>> /\ Before(effects, Activation(i), Notice(m))

EarlyIsComing == /\ early \subseteq Subs!Born
                 /\ ~InShutdown => \A i \in early \ (dropped \cup ended) : EarlyComes(i)

LEMMA ActivationIs == \A x \in Effect : x.op = "activate" => x = Activation(x.sub)
<1> SUFFICES ASSUME NEW x \in Effect, x.op = "activate" PROVE x = Activation(x.sub)
  OBVIOUS
<1>1. x \in [op : {"activate"}, sub : Subs!Ids]
  BY DEF Effect
<1> QED
  BY <1>1 DEF Activation

\* How subscriptions become active.
LEMMA ActiveSteps ==
  ASSUME FlushInv, Owned, [Next]_vars
  PROVE  /\ \A i \in Subs!Born' \ active' : i \in Subs!Born \ active \/ Pushes(Activation(i))
         /\ \A i \in Subs!Born \cap active' : i \in active \/ Pops(Activation(i))
         /\ \A i : Pops(Activation(i)) => i \in active'
<1>1. TypeOK /\ Subs!TypeOK /\ Queue /\ effects \in Seq(Effect)
  BY DEF FlushInv, TypeOK
<1>2. ASSUME NEW t \in Topics, Observe(t)
      PROVE  /\ Pushes(Activation(next)) /\ active' = active /\ Subs!Born' = Subs!Born \cup {next}
  <2>1. next \in Subs!Ids
    BY <1>1, <1>2, NatFacts
    DEF Observe, Subs!Insert, Subs!NewSubscriber, Subs!AddSubscriber, Subs!TypeOK, Subs!Ids
  <2>2. Subs!Insert(t) /\ effects' = Append(effects, Activation(next)) /\ UserActs
    BY <1>2 DEF Observe, Push, Activation, UserActs
  <2>3. Activation(next) \in Effect /\ Activation(next).op # "emit"
    BY <2>1, EffectShapes DEF Activation
  <2> QED
    BY <1>1, <2>2, <2>3, MapGrows DEF Pushes, Subs!Insert
<1>3. ASSUME NEW t \in Topics, ObserveNow(t)
      PROVE  /\ active' = active \cup {next} /\ next \notin Subs!Born
             /\ Subs!Born' = Subs!Born \cup {next} /\ UNCHANGED effects
  <2>1. Subs!InsertActive(t) /\ UNCHANGED effects
    BY <1>3 DEF ObserveNow, queueVars
  <2> QED
    BY <1>1, <2>1, MapGrows DEF Subs!InsertActive
<1>4. ASSUME NEW x, ApplyActivate(x)
      PROVE  /\ x = Activation(x.sub) /\ Pops(x) /\ active' = active \cup {x.sub}
             /\ Subs!Born' = Subs!Born
  <2>1. effects # <<>> /\ x = Head(effects) /\ effects' = Tail(effects) /\ x.op = "activate"
    BY <1>4 DEF ApplyActivate, Pop
  <2>2. x \in Effect
    BY <1>1, <2>1, Tailed
  <2> QED
    BY <1>4, <2>1, <2>2, ActivationIs DEF Pops, ApplyActivate, Subs!Activate, Subs!Born
<1>5. \/ (Subs!Born' = Subs!Born /\ active' = active)
      \/ (\E t \in Topics : Observe(t) \/ ObserveNow(t))
      \/ \E x : ApplyActivate(x)
  <2>1. CASE UNCHANGED <<next, active>>
    BY <2>1 DEF Subs!Born
  <2>2. CASE UserActs
    BY <2>1, <2>2
    DEF UserActs, Defer, New, Hold, Release, Unsubscribe, Detach, Notify, Notified, Emit, EmitNumbered,
        setVars, Subs!Unsubscribe, Subs!Cancel, Subs!Detach
  <2>3. CASE PassActs
    BY <2>1, <2>3
    DEF PassActs, ReleaseListener, PassSkip, PassCall, Called, PassEnd, ReleaseListenersEnd,
        CallbackReturns, Subs!RetainSkip, Subs!RetainDiscard, Subs!RetainDecline, Subs!RetainCall,
        Subs!RemoveSkip, Subs!RemoveCall, Subs!Visit, Subs!RetainReturn, Subs!RemoveReturn,
        Subs!RetainEnd, Subs!RemoveEnd, Subs!LeavePass
  <2>4. CASE FlushActs
    BY <2>1, <2>4
    DEF FlushActs, TakeDropped, ReleaseDropped, ReleaseFirst, CallReleaseListeners, DeferReturns,
        Shutdown, ApplyDefer, ApplyToSubscribers, StartEffectPass, setVars, Subs!Discard,
        Subs!RetainBegin, Subs!RemoveBegin, Subs!Begin, Subs!StartPass
  <2>5. CASE StartUpdate \/ EndUpdate(FALSE) \/ EndUpdate(TRUE) \/ FlushEnd \/ UNCHANGED vars
    BY <2>1, <2>5 DEF StartUpdate, EndUpdate, FlushEnd, setVars, vars
  <2> QED
    BY <2>2, <2>3, <2>4, <2>5, Steps
<1>6. ASSUME NEW i, Pops(Activation(i)) PROVE i \in active'
  <2>1. ApplyActivate(Activation(i))
    BY <1>6 DEF Pops, ApplyDefer, ApplyToSubscribers, StartEffectPass, Pop, Activation
  <2> QED
    BY <2>1 DEF ApplyActivate, Subs!Activate, Activation
<1> QED
  BY <1>2, <1>3, <1>4, <1>5, <1>6

LEMMA InertNext ==
  ASSUME FlushInv, Owned, InertIsQueued, [Next]_vars
  PROVE  InertIsQueued'
<1> SUFFICES ASSUME NEW i \in Subs!Born', i \notin active' PROVE Activation(i) \in In(effects')
  BY DEF InertIsQueued
<1>1. effects \in Seq(Effect)
  BY DEF FlushInv, TypeOK
<1>2. CASE Pushes(Activation(i))
  BY <1>1, <1>2, Appended DEF Pushes
<1>3. CASE i \in Subs!Born \ active
  <2>1. Activation(i) \in In(effects) /\ ~Pops(Activation(i))
    BY <1>3, ActiveSteps DEF InertIsQueued
  <2>2. ASSUME NEW x, Pushes(x) PROVE Activation(i) \in In(effects')
    BY <1>1, <2>1, <2>2, Appended DEF Pushes
  <2>3. ASSUME NEW x, Pops(x) PROVE Activation(i) \in In(effects')
    <3>1. x # Activation(i)
      BY <2>1, <2>3
    <3> QED
      BY <1>1, <2>1, <2>3, <3>1, Tailed DEF Pops
  <2> QED
    BY <2>1, <2>2, <2>3, QueueSteps
<1> QED
  BY <1>2, <1>3, ActiveSteps

\* Before shutdown no flush is made inside another, and there is no way back.
LEMMA BeforeShutdown ==
  ASSUME FlushInv, [Next]_vars, ~InShutdown'
  PROVE  ~InShutdown /\ suspended = <<>>
<1>1. TypeOK /\ Levels /\ Queue
  BY DEF FlushInv
<1>2. /\ flushing => phase # "idle"
      /\ suspended # <<>> => flushing
  BY <1>1, LevelFacts
<1>3. phase' = "idle" => ~InShutdown
  <2>1. CASE UserActs
    BY <1>1, <2>1, UserIsQuiet DEF UserActs, Quiet, InShutdown
  <2>2. CASE PassActs
    BY <2>2
    DEF PassActs, ReleaseListener, PassSkip, PassCall, Called, PassEnd, ReleaseListenersEnd,
        NextDropped, CallbackReturns, flushVars, InShutdown
  <2>3. CASE FlushActs
    BY <1>1, <2>3, StartIs, ApplyIs
    DEF FlushActs, TakeDropped, ReleaseDropped, ReleaseFirst, CallReleaseListeners, NextDropped,
        DeferReturns, Shutdown, BeginFlush
  <2>4. CASE StartUpdate \/ EndUpdate(FALSE) \/ EndUpdate(TRUE) \/ UNCHANGED vars
    BY <2>4 DEF StartUpdate, EndUpdate, BeginFlush, vars, flushVars, levelVars, InShutdown
  <2>5. CASE FlushEnd
    <3>1. suspended # <<>> => Sus.phase \in {"pass", "listening", "defer"}
      BY <1>1 DEF Levels, SuspendedSuits, InPass
    <3> QED
      BY <2>5, <3>1 DEF FlushEnd, InShutdown, Sus
  <2> QED
    BY <2>1, <2>2, <2>3, <2>4, <2>5, Steps
<1>4. flushing' /\ suspended' = <<>> => ~InShutdown
  <2>1. CASE UNCHANGED <<flushing, suspended>>
    BY <2>1 DEF InShutdown
  <2>2. CASE UserActs
    BY <1>1, <2>1, <2>2, UserIsQuiet DEF UserActs, Quiet
  <2>3. CASE PassActs
    BY <2>1, <2>3
    DEF PassActs, ReleaseListener, PassSkip, PassCall, Called, PassEnd, ReleaseListenersEnd,
        NextDropped, CallbackReturns, flushVars, levelVars
  <2>4. CASE FlushActs
    <3>1. UNCHANGED <<flushing, suspended>>
      BY <1>1, <2>4, ShutdownIs
      DEF FlushActs, TakeDropped, ReleaseDropped, ReleaseFirst, CallReleaseListeners, NextDropped,
          DeferReturns, ApplyActivate, ApplyDefer, ApplyToSubscribers, StartEffectPass, levelVars
    <3> QED
      BY <2>1, <3>1
  <2>5. CASE StartUpdate \/ EndUpdate(FALSE) \/ UNCHANGED vars
    BY <2>1, <2>5 DEF StartUpdate, EndUpdate, vars, flushVars, levelVars
  <2>6. CASE EndUpdate(TRUE) /\ ~flushing /\ pendingUpdates = 1
    BY <1>1, <2>6, FlushBegins DEF InShutdown
  <2>7. CASE FlushEnd
    BY <2>7 DEF FlushEnd
  <2> QED
    BY <2>2, <2>3, <2>4, <2>5, <2>6, <2>7, Steps
<1> QED
  BY <1>2, <1>3, <1>4 DEF InShutdown

\* User code finds observers inert; a call answers them.
LEMMA EarlySteps ==
  ASSUME FlushInv, [Next]_vars, NEW i \in early'
  PROVE  /\ ~Called(i)
         /\ \/ i \in early
            \/ \E m \in Emitters : /\ Pushes(Notice(m)) /\ i \in Subs!Born \ active
                                   /\ keyOf[i] = <<"notify", m>> /\ UNCHANGED <<keyOf, active>>
<1>1. ~Called(i)
  BY DEF Called
<1>2. ASSUME NEW m \in Emitters, Notify(m), i \notin early
      PROVE  /\ Pushes(Notice(m)) /\ i \in Subs!Born \ active
             /\ keyOf[i] = <<"notify", m>> /\ UNCHANGED <<keyOf, active>>
  <2>1. /\ m \notin pendingNotify /\ i \in Listeners(<<"notify", m>>) \ active
        /\ UNCHANGED setVars /\ effects' = Append(effects, Notice(m)) /\ UserActs
    BY <1>2 DEF Notify, Notified, Notice, UserActs
  <2>2. Notice(m) \in Effect /\ Notice(m).op # "emit"
    BY EffectShapes DEF Notice
  <2> QED
    BY <2>1, <2>2 DEF Pushes, Listeners, setVars
<1>3. CASE early' \subseteq early
  BY <1>1, <1>3
<1>4. CASE UserActs
  BY <1>1, <1>2, <1>3, <1>4
  DEF UserActs, Defer, New, Hold, Release, Observe, ObserveNow, Unsubscribe, Detach, Emit,
      EmitNumbered, auxVars
<1>5. CASE PassActs
  BY <1>3, <1>5
  DEF PassActs, ReleaseListener, PassSkip, PassCall, Called, PassEnd, ReleaseListenersEnd,
      CallbackReturns, auxVars
<1>6. CASE FlushActs
  BY <1>3, <1>6
  DEF FlushActs, TakeDropped, ReleaseDropped, ReleaseFirst, CallReleaseListeners, DeferReturns,
      Shutdown, ApplyActivate, ApplyDefer, ApplyToSubscribers, StartEffectPass, auxVars
<1>7. CASE StartUpdate \/ EndUpdate(FALSE) \/ EndUpdate(TRUE) \/ FlushEnd \/ UNCHANGED vars
  BY <1>3, <1>7 DEF StartUpdate, EndUpdate, FlushEnd, auxVars, vars
<1> QED
  BY <1>4, <1>5, <1>6, <1>7, Steps

LEMMA EarlyNext ==
  ASSUME FlushInv, Owned, InertIsQueued, EarlyIsComing, [Next]_vars
  PROVE  EarlyIsComing'
<1>1. SetsGoOn /\ effects \in Seq(Effect)
  BY OwnedNext DEF FlushInv, TypeOK
<1>2. (early \subseteq Subs!Born)'
  BY <1>1, EarlySteps DEF EarlyIsComing, SetsGoOn
<1>3. ASSUME ~InShutdown', NEW i \in early', i \notin dropped' \cup ended' PROVE EarlyComes(i)'
  <2>1. ~InShutdown /\ suspended = <<>>
    BY <1>3, BeforeShutdown
  <2>2. CASE i \notin early
    <3>1. PICK m \in Emitters : /\ Pushes(Notice(m)) /\ i \in Subs!Born \ active
                                /\ keyOf[i] = <<"notify", m>> /\ UNCHANGED <<keyOf, active>>
      BY <2>2, EarlySteps
    <3>2. Activation(i) \in In(effects)
      BY <3>1 DEF InertIsQueued
    <3>3. Before(effects', Activation(i), Notice(m))
      BY <1>1, <3>1, <3>2, OrderAppended DEF Pushes
    <3> QED
      BY <3>1, <3>3 DEF EarlyComes, Before
  <2>3. CASE i \in early
    <3>1. /\ EarlyComes(i) /\ i \in Subs!Born /\ ~Called(i)
      BY <1>1, <1>3, <2>1, <2>3, EarlySteps DEF EarlyIsComing, SetsGoOn
    <3>2. CASE i \in active
      <4>1. Comes(i, 0)'
        BY <1>3, <2>1, <3>1, <3>2, ComesNext DEF EarlyComes
      <4> QED
        BY <1>1, <3>2, <4>1 DEF EarlyComes, SetsGoOn
    <3>3. CASE i \notin active
      <4>1. PICK m : keyOf[i] = <<"notify", m>> /\ Before(effects, Activation(i), Notice(m))
        BY <3>1, <3>3 DEF EarlyComes
      <4>2. keyOf'[i] = keyOf[i]
        BY <1>1, <3>1 DEF SetsGoOn
      <4>3. CASE i \in active'
        <5>1. Pops(Activation(i))
          BY <3>1, <3>3, <4>3, ActiveSteps
        <5>2. Notice(m) \in In(effects')
          BY <1>1, <4>1, <5>1, OrderTailed DEF Pops
        <5>3. Serves(Notice(m), i, 0)'
          BY <4>1, <4>2 DEF Serves, Notice
        <5>4. InQueue(i, 0)'
          BY <5>2, <5>3 DEF InQueue
        <5> QED
          BY <4>3, <5>4 DEF EarlyComes, Comes
      <4>4. CASE i \notin active'
        <5>1. ~Pops(Activation(i))
          BY <4>4, ActiveSteps
        <5>2. ASSUME NEW x, Pushes(x) PROVE Before(effects', Activation(i), Notice(m))
          BY <1>1, <4>1, <5>2, OrderAppended DEF Pushes
        <5>3. ASSUME NEW x, Pops(x) PROVE Before(effects', Activation(i), Notice(m))
          <6>1. x # Activation(i)
            BY <5>1, <5>3
          <6> QED
            BY <1>1, <4>1, <5>3, <6>1, OrderTailed DEF Pops
        <5>4. Before(effects', Activation(i), Notice(m))
          BY <4>1, <5>2, <5>3, QueueSteps
        <5> QED
          BY <4>1, <4>2, <4>4, <5>4 DEF EarlyComes, Before
      <4> QED
        BY <4>3, <4>4
    <3> QED
      BY <3>2, <3>3
  <2> QED
    BY <2>2, <2>3
<1> QED
  BY <1>2, <1>3 DEF EarlyIsComing

LEMMA EarlyInit == Init => InertIsQueued /\ EarlyIsComing
<1> SUFFICES ASSUME Init PROVE InertIsQueued /\ EarlyIsComing
  OBVIOUS
<1>1. next = 0 /\ early = {}
  BY DEF Init, Subs!Init
<1> QED
  BY <1>1 DEF InertIsQueued, EarlyIsComing, Subs!Born

LEMMA EarlyHear == FlushInv /\ EarlyIsComing => ObserversHearNotify
<1> SUFFICES ASSUME FlushInv, EarlyIsComing, phase = "idle", effects = <<>>,
                    NEW i \in early, Subs!Live(i)
             PROVE  FALSE
  BY DEF ObserversHearNotify
<1>1. suspended = <<>> /\ ~InShutdown
  BY LevelFacts DEF FlushInv, InShutdown
<1>2. Comes(i, 0)
  BY <1>1 DEF EarlyIsComing, EarlyComes, Subs!Live
<1>3. In(effects) = {}
  BY EmptyIs
<1> QED
  BY <1>1, <1>2, <1>3 DEF Comes, InQueue, InTop, InSus

\* The activation of an observer is queued before any notification made after
\* observe returned, unless that is coalesced with one queued before: so the
\* observer is active when it is applied, whatever is subscribed, cancelled or
\* released in between.
THEOREM ObserversHear == Spec => []ObserversHearNotify
<1>1. FlushInv /\ Owned /\ InertIsQueued /\ EarlyIsComing /\ [Next]_vars
        => (FlushInv /\ Owned /\ InertIsQueued /\ EarlyIsComing)'
  BY FlushInvNext, OwnedNext, InertNext, EarlyNext
<1> QED
  BY <1>1, FlushInvInit, OwnedInit, EarlyInit, EarlyHear, PTL DEF Spec

------------------------------------------------------------------------------
(***************************************************************************)
(* Events are queued and applied in the order of their numbers.            *)
(***************************************************************************)
\* x was emitted, before all that is queued.
Follows(x) == x.op = "emit" => /\ x.n <= emitted
                               /\ \A y \in In(effects) : y.op = "emit" => x.n < y.n

EventsSorted ==
  /\ \A x, y : Before(effects, x, y) /\ x.op = "emit" /\ y.op = "emit" => x.n < y.n
  /\ \A x \in In(effects) : x.op = "emit" => x.n <= emitted
  /\ Follows(applying)
  /\ suspended # <<>> => Follows(Sus.applying)

LEMMA EventFacts ==
  ASSUME TypeOK
  PROVE  /\ emitted \in Nat /\ effects \in Seq(Effect)
         /\ \A x \in Effect : x.op = "emit" => x.n \in Nat
         /\ \A x \in In(effects) : x \in Effect
         /\ applying \in Effect /\ (suspended # <<>> => Sus.applying \in Effect)
<1>1. suspended \in Seq(Suspension) /\ effects \in Seq(Effect)
  BY DEF TypeOK, Suspension
<1>2. suspended # <<>> => Sus \in Suspension
  BY <1>1, HeadTailProperties DEF Sus
<1>3. \A x \in Effect : x.op = "emit" => x.n \in 1 .. MaxFuel
  BY EffectIs
<1>4. emitted \in Nat /\ \A n \in 1 .. MaxFuel : n \in Nat
  BY NatFacts DEF TypeOK
<1>5. In(effects) \subseteq Effect
  BY <1>1, InSeq
<1> QED
  BY <1>1, <1>2, <1>3, <1>4, <1>5 DEF Suspension, TypeOK

\* What is emitted gets the next number.
LEMMA EmittedSteps ==
  ASSUME FlushInv, [Next]_vars
  PROVE  UNCHANGED emitted \/ emitted' = emitted + 1
<1>1. CASE UserActs
  BY <1>1
  DEF UserActs, Defer, New, Hold, Release, Observe, ObserveNow, Unsubscribe, Detach, Notify, Notified,
      Emit, EmitNumbered, auxVars
<1>2. CASE PassActs
  BY <1>2
  DEF PassActs, ReleaseListener, PassSkip, PassCall, Called, PassEnd, ReleaseListenersEnd,
      CallbackReturns, auxVars
<1>3. CASE FlushActs
  BY <1>3
  DEF FlushActs, TakeDropped, ReleaseDropped, ReleaseFirst, CallReleaseListeners, DeferReturns,
      Shutdown, ApplyActivate, ApplyDefer, ApplyToSubscribers, StartEffectPass, auxVars
<1>4. CASE StartUpdate \/ EndUpdate(FALSE) \/ EndUpdate(TRUE) \/ FlushEnd \/ UNCHANGED vars
  BY <1>4 DEF StartUpdate, EndUpdate, FlushEnd, auxVars, vars
<1> QED
  BY <1>1, <1>2, <1>3, <1>4, Steps

\* A flush applies what it was applying, what it takes from the queue, what
\* the flush it resumes was applying, or nothing.
LEMMA ApplyingSteps ==
  ASSUME FlushInv, [Next]_vars
  PROVE  /\ \/ applying' \in {applying, NoEffect} \/ Pops(applying')
            \/ suspended # <<>> /\ applying' = Sus.applying /\ UNCHANGED effects
         /\ suspended' # <<>> => \/ UNCHANGED suspended
                                 \/ Sus'.applying = applying /\ UNCHANGED effects
<1>1. TypeOK /\ Levels /\ Queue /\ effects \in Seq(Effect)
  BY DEF FlushInv, TypeOK
<1>2. CASE UserActs
  BY <1>1, <1>2, UserIsQuiet DEF UserActs, Quiet
<1>3. CASE PassActs
  BY <1>3
  DEF PassActs, ReleaseListener, PassSkip, PassCall, Called, PassEnd, ReleaseListenersEnd,
      NextDropped, CallbackReturns, flushVars, levelVars
<1>4. CASE FlushActs
  <2>1. ASSUME NEW x, ApplyToSubscribers(x) PROVE applying' = applying \/ Pops(applying')
    <3>1. x \in Effect /\ Pop(x.op, x) /\ applying' \in {applying, x}
      BY <1>1, <2>1, StartIs
    <3> QED
      BY <2>1, <3>1 DEF Pops, Pop
  <2>2. UNCHANGED suspended
    BY <1>1, <1>4, ShutdownIs
    DEF FlushActs, TakeDropped, ReleaseDropped, ReleaseFirst, CallReleaseListeners, NextDropped,
        DeferReturns, ApplyActivate, ApplyDefer, ApplyToSubscribers, StartEffectPass, levelVars
  <2>3. CASE ~(\E x : ApplyToSubscribers(x))
    BY <1>1, <1>4, <2>2, <2>3, ShutdownIs
    DEF FlushActs, TakeDropped, ReleaseDropped, ReleaseFirst, CallReleaseListeners, NextDropped,
        DeferReturns, ApplyActivate, ApplyDefer
  <2> QED
    BY <2>1, <2>2, <2>3
<1>5. CASE StartUpdate \/ EndUpdate(FALSE) \/ UNCHANGED vars
  BY <1>5 DEF StartUpdate, EndUpdate, vars, flushVars, levelVars
<1>6. CASE EndUpdate(TRUE) /\ ~flushing /\ pendingUpdates = 1
  <2>1. IF phase = "idle" THEN suspended' = <<>>
        ELSE Sus' = [phase |-> phase, applying |-> applying, batch |-> batch]
    BY <1>1, <1>6, FlushBegins
  <2>2. applying' \in {applying, NoEffect} /\ UNCHANGED effects
    BY <1>6 DEF EndUpdate, BeginFlush, queueVars
  <2> QED
    BY <2>1, <2>2
<1>7. CASE FlushEnd
  BY <1>1, <1>7, FlushEnds DEF queueVars
<1> QED
  BY <1>2, <1>3, <1>4, <1>5, <1>6, <1>7, Steps

LEMMA SortedNext ==
  ASSUME FlushInv, EventsSorted, [Next]_vars
  PROVE  EventsSorted'
<1>1. /\ emitted \in Nat /\ effects \in Seq(Effect) /\ \A x \in Effect : x.op = "emit" => x.n \in Nat
      /\ \A x \in In(effects) : x \in Effect
      /\ applying \in Effect /\ (suspended # <<>> => Sus.applying \in Effect)
  BY EventFacts DEF FlushInv
<1>2. UNCHANGED emitted \/ emitted' = emitted + 1
  BY EmittedSteps
<1>3. \A n \in Nat : n <= emitted => n <= emitted'
  BY <1>1, <1>2
\* What followed goes on to.
<1>4. ASSUME NEW x \in Effect, Follows(x) PROVE Follows(x)'
  <2>1. ASSUME x.op = "emit", NEW y \in In(effects'), y.op = "emit" PROVE x.n < y.n
    <3>1. x.n <= emitted /\ x.n \in Nat
      BY <1>1, <1>4, <2>1 DEF Follows
    <3>2. CASE y \in In(effects)
      BY <1>4, <2>1, <3>2 DEF Follows
    <3>3. ASSUME Pushes(y) PROVE x.n < y.n
      <4>1. y.n = emitted + 1
        BY <2>1, <3>3 DEF Pushes
      <4> QED
        BY <1>1, <3>1, <4>1
    <3>4. ASSUME NEW z, Pushes(z) PROVE y \in In(effects) \/ Pushes(y)
      BY <1>1, <2>1, <3>4, Appended DEF Pushes
    <3>5. ASSUME NEW z, Pops(z) PROVE y \in In(effects)
      BY <1>1, <2>1, <3>5, Tailed DEF Pops
    <3> QED
      BY <2>1, <3>2, <3>3, <3>4, <3>5, QueueSteps
  <2>2. x.op = "emit" => x.n <= emitted'
    BY <1>1, <1>3, <1>4 DEF Follows
  <2> QED
    BY <2>1, <2>2 DEF Follows
\* The next effect is followed by the others.
<1>5. ASSUME NEW x, Pops(x) PROVE Follows(x)'
  <2>1. x \in In(effects) /\ \A y \in In(effects') : Before(effects, x, y)
    BY <1>1, <1>5, Tailed, OrderTailed DEF Pops
  <2>2. x.op = "emit" => x.n <= emitted'
    BY <1>1, <1>3, <2>1 DEF EventsSorted
  <2> QED
    BY <2>1, <2>2 DEF EventsSorted, Follows
<1>6. Follows(applying)'
  <2>1. CASE applying' = NoEffect
    BY <2>1 DEF Follows, NoEffect
  <2>2. ASSUME NEW x \in Effect, Follows(x), applying' = x PROVE Follows(applying)'
    <3>1. Follows(x)'
      BY <1>4, <2>2
    <3> QED
      BY <2>2, <3>1 DEF Follows
  <2>3. ASSUME NEW x, Pops(x), applying' = x PROVE Follows(applying)'
    <3>1. Follows(x)'
      BY <1>5, <2>3
    <3> QED
      BY <2>3, <3>1 DEF Follows
  <2> QED
    BY <1>1, <2>1, <2>2, <2>3, ApplyingSteps DEF EventsSorted
<1>7. ASSUME suspended' # <<>> PROVE Follows(Sus.applying)'
  <2>1. ASSUME NEW x \in Effect, Follows(x), Sus'.applying = x PROVE Follows(Sus.applying)'
    <3>1. Follows(x)'
      BY <1>4, <2>1
    <3> QED
      BY <2>1, <3>1 DEF Follows
  <2>2. UNCHANGED suspended => Sus' = Sus
    BY DEF Sus
  <2> QED
    BY <1>1, <1>7, <2>1, <2>2, ApplyingSteps DEF EventsSorted
<1>8. ASSUME NEW x \in In(effects'), x.op = "emit" PROVE x.n <= emitted'
  <2>1. CASE x \in In(effects)
    BY <1>1, <1>3, <1>8, <2>1 DEF EventsSorted
  <2>2. ASSUME NEW z, Pushes(z) PROVE x.n <= emitted'
    <3>1. CASE x = z
      <4>1. x.n = emitted + 1 /\ emitted' = emitted + 1
        BY <1>8, <2>2, <3>1 DEF Pushes
      <4> QED
        BY <1>1, <4>1
    <3> QED
      BY <1>1, <1>8, <2>1, <2>2, <3>1, Appended DEF Pushes
  <2>3. ASSUME NEW z, Pops(z) PROVE x.n <= emitted'
    BY <1>1, <1>8, <2>1, <2>3, Tailed DEF Pops
  <2> QED
    BY <1>8, <2>1, <2>2, <2>3, QueueSteps
<1>9. ASSUME NEW x, NEW y, Before(effects', x, y), x.op = "emit", y.op = "emit" PROVE x.n < y.n
  <2>1. CASE Before(effects, x, y)
    BY <1>9, <2>1 DEF EventsSorted
  <2>2. ASSUME NEW z, Pushes(z) PROVE x.n < y.n
    <3>1. CASE x \in In(effects) /\ y = z
      <4>1. x.n <= emitted /\ x.n \in Nat /\ y.n = emitted + 1
        BY <1>1, <1>9, <2>2, <3>1 DEF EventsSorted, Pushes
      <4> QED
        BY <1>1, <4>1
    <3> QED
      BY <1>1, <1>9, <2>1, <2>2, <3>1, OrderAppended DEF Pushes
  <2>3. ASSUME NEW z, Pops(z) PROVE x.n < y.n
    BY <1>1, <1>9, <2>1, <2>3, OrderTailed DEF Pops
  <2>4. CASE UNCHANGED effects
    BY <1>9, <2>1, <2>4
  <2> QED
    BY <2>2, <2>3, <2>4, QueueSteps
<1> QED
  BY <1>6, <1>7, <1>8, <1>9 DEF EventsSorted

LEMMA SortedInit == Init => EventsSorted
<1> SUFFICES ASSUME Init PROVE EventsSorted
  OBVIOUS
<1>1. effects = <<>> /\ applying = NoEffect /\ suspended = <<>> /\ In(effects) = {}
  BY EmptyIs DEF Init
<1>2. \A x, y : ~Before(effects, x, y)
  BY <1>1 DEF In, Before
<1> QED
  BY <1>1, <1>2 DEF EventsSorted, Follows, NoEffect

\* What is owed is answered by a call alone.
LEMMA AnsweredByCall ==
  ASSUME [Next]_vars, NEW i, NEW n, <<i, n>> \in owed, <<i, n>> \notin owed'
  PROVE  i \in Subs!Ids /\ Called(i) /\ n = Number
<1>1. ASSUME owed \subseteq owed' PROVE FALSE
  BY <1>1
<1>2. CASE UserActs
  BY <1>1, <1>2
  DEF UserActs, Defer, New, Hold, Release, Observe, ObserveNow, Unsubscribe, Detach, Notify, Notified,
      Emit, EmitNumbered, auxVars
<1>3. CASE PassActs
  <2>1. ASSUME NEW j \in Subs!Ids, Called(j) PROVE i = j /\ n = Number
    BY <2>1 DEF Called, Number
  <2> QED
    BY <1>1, <1>3, <2>1
    DEF PassActs, ReleaseListener, PassSkip, PassCall, PassEnd, ReleaseListenersEnd,
        CallbackReturns, auxVars
<1>4. CASE FlushActs
  BY <1>1, <1>4
  DEF FlushActs, TakeDropped, ReleaseDropped, ReleaseFirst, CallReleaseListeners, DeferReturns,
      Shutdown, ApplyActivate, ApplyDefer, ApplyToSubscribers, StartEffectPass, auxVars
<1>5. CASE StartUpdate \/ EndUpdate(FALSE) \/ EndUpdate(TRUE) \/ FlushEnd \/ UNCHANGED vars
  BY <1>1, <1>5 DEF StartUpdate, EndUpdate, FlushEnd, auxVars, vars
<1> QED
  BY <1>2, <1>3, <1>4, <1>5, Steps

LEMMA InOrder ==
  ASSUME FlushInv, Owned, OwedInv, EventsSorted, [Next]_vars,
         NEW i \in Subs!Ids, applying.op = "emit",
         <<i, applying.n>> \in owed, <<i, applying.n>> \notin owed',
         NEW m \in 1 .. applying.n - 1, <<i, m>> \in owed \ lost
  PROVE  FALSE
<1>1. /\ Called(i) /\ Subs!Live(i) /\ i \in Subs!Top.rest /\ phase = "pass"
      /\ keyOf[i] = TopicOf(applying)
  BY AnsweredByCall, CallRests
<1>2. applying.n \in Nat /\ m < applying.n /\ \A x \in In(effects) : x.op = "emit" => x.n \in Nat
  <2>1. applying.n \in Nat /\ \A x \in In(effects) : x.op = "emit" => x.n \in Nat
    BY EventFacts DEF FlushInv
  <2> QED
    BY <2>1
<1>3. Comes(i, m)
  BY <1>1, OwedComes DEF OwedInv, OwedCome
<1>4. ~InQueue(i, m)
  <2> SUFFICES ASSUME NEW x \in In(effects), Serves(x, i, m) PROVE FALSE
    BY DEF InQueue
  <2>1. x.op = "emit" /\ x.n = m
    BY <1>1 DEF Serves, TopicOf
  <2>2. applying.n < x.n
    BY <2>1 DEF EventsSorted, Follows
  <2> QED
    BY <1>2, <2>1, <2>2
<1>5. ~InTop(i, m)
  <2>1. Serves(applying, i, m) => m = applying.n
    BY DEF Serves
  <2> QED
    BY <1>2, <2>1 DEF InTop
<1>6. ~InSus(i, m)
  <2> SUFFICES ASSUME suspended # <<>>, Sus.phase = "pass", i \in stack[1].rest PROVE FALSE
    BY DEF InSus
  <2>1. Depth = 2 /\ stack # <<>> /\ Subs!TypeOK
    <3>1. Depth = Frames /\ (stack = <<>> <=> Depth = 0) /\ Subs!TypeOK
      BY LevelFacts DEF FlushInv
    <3> QED
      BY <1>1, <3>1 DEF Frames, InPass
  <2>2. Subs!Top = stack[2]
    BY <2>1, TopFrame
  <2>3. i \in Subs!Holds(stack[1]) /\ i \in Subs!Holds(stack[2])
    BY <1>1, <2>2 DEF Subs!Holds
  <2>4. 1 \in 1 .. Depth /\ 2 \in 1 .. Depth
    BY <2>1
  <2> QED
    BY <2>3, <2>4 DEF Owned, FramesOwn
<1> QED
  BY <1>3, <1>4, <1>5, <1>6 DEF Comes

\* A listener gets the events of its emitter in the order of their emission,
\* those its callbacks emit meanwhile after those that were queued; only what
\* shutdown's flush lost is skipped.
THEOREM EventsOrdered == Spec => EventsInOrder
<1>1. FlushInv /\ Owned /\ OwedInv /\ EventsSorted /\ [Next]_vars
        => (FlushInv /\ Owned /\ OwedInv /\ EventsSorted)'
  BY FlushInvNext, OwnedNext, OwedInvNext, SortedNext
<1>2. FlushInv /\ Owned /\ OwedInv /\ EventsSorted /\ [Next]_vars
        => [\A i \in Subs!Ids :
              (applying.op = "emit" /\ <<i, applying.n>> \in owed /\ <<i, applying.n>> \notin owed')
                => \A m \in 1 .. applying.n - 1 : <<i, m>> \notin owed \ lost ]_vars
  BY InOrder
<1> QED
  BY <1>1, <1>2, FlushInvInit, OwnedInit, OwedInvInit, SortedInit, PTL DEF Spec, EventsInOrder
=============================================================================
