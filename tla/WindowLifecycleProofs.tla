------------------------- MODULE WindowLifecycleProofs -------------------------
(***************************************************************************)
(* Proofs about WindowLifecycle, for any number of windows, of observers   *)
(* and of operations of user code, and for any nesting of calls: windows   *)
(* are back when effects flush, a removed window is closed, and the App    *)
(* quits with its last one.                                                *)
(***************************************************************************)
EXTENDS WindowLifecycle, SequenceTheorems, TLAPS

Calls   == {"build", "update"}          \* those on window_update_stack
Holding == {"build", "update", "draw"}  \* those that have a window out of its slot

CallsAt == {j \in DOMAIN stack : stack[j].op \in Calls}

Deferred(w) == \E i \in DOMAIN effects : effects[i] = [op |-> "defer", on |-> w]

(***************************************************************************)
(* The inductive invariant: Consistent, and                                *)
(***************************************************************************)
\* a window is out of its slot in one call, and only then,
HeldOnce == \A j, k \in DOMAIN stack :
  stack[j].op \in Holding /\ stack[k].op \in Holding /\ stack[j].on = stack[k].on => j = k
HeldIsOut == \A w \in Windows : slot[w] = "empty" <=> w \in On(Holding)
ClosedIsClosed == \A w \in On({"closed"}) : slot[w] = "closed"

\* a removed window will be updated once more,
DrawnDefers     == \A w \in On({"draw"}) : Deferred(w)
RemovedCloses   == \A w \in removed :
  slot[w] = "closed" \/ w \in On(Calls) \/ (slot[w] # "unborn" /\ Deferred(w))
ClosedIsRemoved == \A w \in Windows : slot[w] = "closed" => w \in removed
RemovedIsEarly  == \A w \in removed : slot[w] = "in" \/ w \in On({"build", "draw"}) => w \in early

\* entities are made in windows,
Born(e) == e.op = "created" => e.on = None \/ slot[e.on] # "unborn"
CreatedIsBorn == /\ applying = NoEffect \/ applying.op = "created"
                 /\ Born(applying) /\ \A i \in DOMAIN effects : Born(effects[i])

\* the lock is held while a flush visits windows or closes a removed one,
LockedVisits ==
  /\ writeLocked => flushing /\ focusDead /\ applying = NoEffect
  /\ writeLocked /\ stack # <<>> => stack[1].op = "closed" /\ stack[1].on \in early
  /\ ~writeLocked => visiting = {}
VisitedIsOpen == \A w \in visiting : slot[w] \in {"empty", "in"} \/ \E e \in early : slot[e] = "closed"

\* and the flush leaves nothing to do.
FlushedIsDone == ~flushing => applying = NoEffect /\ (stack = <<>> => effects = <<>>)
LastQuits     == removed # {} /\ NoWindows /\ QuitOnEmpty => quit \/ Observing

Held == HeldOnce /\ HeldIsOut /\ ClosedIsClosed /\ UpdatedOnce
Owed == /\ DrawnDefers /\ RemovedCloses /\ ClosedIsRemoved /\ RemovedIsEarly /\ CreatedIsBorn
        /\ LockedVisits /\ VisitedIsOpen /\ FlushedIsDone /\ LastQuits /\ HaltsIfRemoved
IInv == TypeOK /\ Held /\ Owed

------------------------------------------------------------------------------
(***************************************************************************)
(* Frames, and the three ways in which a step changes the stack.           *)
(***************************************************************************)
LEMMA FrameFields ==
  /\ \A f \in Frames : /\ f.op \in {"app", "closed"} \cup Holding
                       /\ f.op # "app" => f.on \in Windows
  /\ [op |-> "app"] \in Frames
  /\ \A w \in Windows, o \in {"update", "build", "draw", "closed"} :
       [op |-> o, on |-> w] \in Frames
BY DEF Frames, Holding

LEMMA EffectFields ==
  /\ \A e \in Effects : /\ e.op \in {"defer", "created"}
                        /\ e.op = "defer" => e.on \in Windows /\ e = [op |-> "defer", on |-> e.on]
                        /\ e.op = "created" => e.on \in Windows \cup {None}
                        /\ e.op = "created" => e.left \in 0 .. NewObservers
  /\ \A w \in Windows : [op |-> "defer", on |-> w] \in Effects
  /\ NoEffect.op = "none"
BY DEF Effects, NoEffect

LEMMA StackFacts ==
  ASSUME TypeOK
  PROVE  /\ stack \in Seq(Frames) /\ Len(stack) \in Nat /\ DOMAIN stack = 1 .. Len(stack)
         /\ \A j \in DOMAIN stack : stack[j] \in Frames
         /\ stack = <<>> => Len(stack) = 0
         /\ stack # <<>> => Len(stack) \in DOMAIN stack /\ Top \in Frames
BY LenProperties, EmptySeq, ElementOfSeq DEF TypeOK, Top

\* What Pop leaves.
LEMMA PopFacts ==
  ASSUME NEW S, NEW s \in Seq(S), s # <<>>
  PROVE  /\ Pop(s) \in Seq(S)
         /\ Len(s) \in Nat \ {0}
         /\ Len(Pop(s)) = Len(s) - 1
         /\ DOMAIN Pop(s) = 1 .. Len(s) - 1
         /\ \A j \in 1 .. Len(s) - 1 : Pop(s)[j] = s[j]
<1>1. Len(s) \in Nat \ {0}
  BY EmptySeq
<1>2. PICK n \in Nat : Len(s) = n + 1
  <2>1. Len(s) - 1 \in Nat /\ Len(s) = (Len(s) - 1) + 1
    BY <1>1
  <2> QED
    BY <2>1
<1>3. \A j \in 1 .. n : s[j] \in S
  BY <1>2, ElementOfSeq
<1>4. Pop(s) = SubSeq(s, 1, n)
  BY <1>2 DEF Pop
<1>5. /\ SubSeq(s, 1, n) \in Seq(S) /\ Len(SubSeq(s, 1, n)) = n
      /\ \A j \in 1 .. n : SubSeq(s, 1, n)[j] = s[j]
  BY <1>3, SubSeqProperties
<1>6. DOMAIN Pop(s) = 1 .. n
  BY <1>4, <1>5, LenProperties
<1> QED
  BY <1>1, <1>2, <1>4, <1>5, <1>6

LEMMA Pushed ==
  ASSUME TypeOK, NEW f \in Frames, PushFrame(f)
  PROVE  /\ stack' \in Seq(Frames) /\ stack' # <<>>
         /\ DOMAIN stack' = 1 .. Len(stack) + 1
         /\ \A j \in DOMAIN stack : stack'[j] = stack[j]
         /\ stack'[Len(stack) + 1] = f
         /\ \A ops : On(ops)' = IF f.op \in ops THEN On(ops) \cup {f.on} ELSE On(ops)
<1>1. /\ stack' \in Seq(Frames) /\ stack' # <<>>
      /\ DOMAIN stack' = 1 .. Len(stack) + 1
      /\ \A j \in DOMAIN stack : stack'[j] = stack[j]
      /\ stack'[Len(stack) + 1] = f
  BY StackFacts, AppendProperties, LenProperties DEF PushFrame
<1>2. DOMAIN stack = 1 .. Len(stack) /\ Len(stack) \in Nat
  BY StackFacts
<1>3. DOMAIN stack' = DOMAIN stack \cup {Len(stack) + 1}
  BY <1>1, <1>2
<1>4. ASSUME NEW ops
      PROVE  On(ops)' = IF f.op \in ops THEN On(ops) \cup {f.on} ELSE On(ops)
  BY <1>1, <1>3 DEF On
<1> QED
  BY <1>1, <1>4

LEMMA Popped ==
  ASSUME TypeOK, HeldOnce, stack # <<>>, stack' = Pop(stack)
  PROVE  /\ stack' \in Seq(Frames)
         /\ DOMAIN stack = DOMAIN stack' \cup {Len(stack)} /\ Len(stack) \notin DOMAIN stack'
         /\ stack' = <<>> <=> Len(stack) = 1
         /\ stack' # <<>> => 1 \in DOMAIN stack'
         /\ \A j \in DOMAIN stack' : stack'[j] = stack[j] /\ j < Len(stack)
         /\ \A ops : Top.op \notin ops => On(ops)' = On(ops)
         /\ \A ops \in SUBSET Holding : Top.op \in ops => On(ops)' = On(ops) \ {Top.on}
<1>1. /\ stack' \in Seq(Frames) /\ Len(stack) \in Nat \ {0} /\ Len(stack') = Len(stack) - 1
      /\ DOMAIN stack' = 1 .. Len(stack) - 1
      /\ \A j \in DOMAIN stack' : stack'[j] = stack[j]
  BY PopFacts, StackFacts
<1>2. DOMAIN stack = 1 .. Len(stack)
  BY StackFacts
<1>3. DOMAIN stack = DOMAIN stack' \cup {Len(stack)} /\ Len(stack) \notin DOMAIN stack'
  BY <1>1, <1>2
<1>4. stack' = <<>> <=> Len(stack) = 1
  BY <1>1, EmptySeq
<1>5. Top = stack[Len(stack)]
  BY DEF Top
<1>6. ASSUME NEW ops, Top.op \notin ops PROVE On(ops)' = On(ops)
  BY <1>1, <1>3, <1>5, <1>6 DEF On
<1>7. ASSUME NEW ops \in SUBSET Holding, Top.op \in ops PROVE On(ops)' = On(ops) \ {Top.on}
  <2>1. \A j \in DOMAIN stack' : stack[j].op \in ops => stack[j].on # Top.on
    BY <1>3, <1>5, <1>7 DEF HeldOnce
  <2>2. \A x : x \in On(ops) <=> x = Top.on \/ \E j \in DOMAIN stack' : stack[j].op \in ops /\ x = stack[j].on
    BY <1>3, <1>5, <1>7 DEF On
  <2>3. \A x : x \in On(ops)' <=> \E j \in DOMAIN stack' : stack[j].op \in ops /\ x = stack[j].on
    BY <1>1 DEF On
  <2> QED
    BY <2>1, <2>2, <2>3
<1>8. stack' # <<>> => 1 \in DOMAIN stack'
  BY <1>1, EmptySeq
<1> QED
  BY <1>1, <1>3, <1>4, <1>6, <1>7, <1>8

LEMMA Replaced ==
  ASSUME TypeOK, HeldOnce, stack # <<>>, NEW f \in Frames, Replace(f), Top.op \in Holding
  PROVE  /\ stack' \in Seq(Frames) /\ stack' # <<>>
         /\ DOMAIN stack' = DOMAIN stack
         /\ \A j \in DOMAIN stack : stack'[j] = IF j = Len(stack) THEN f ELSE stack[j]
         /\ \A ops : Top.op \notin ops =>
              On(ops)' = IF f.op \in ops THEN On(ops) \cup {f.on} ELSE On(ops)
         /\ \A ops \in SUBSET Holding : Top.op \in ops =>
              On(ops)' = IF f.op \in ops THEN (On(ops) \ {Top.on}) \cup {f.on}
                         ELSE On(ops) \ {Top.on}
<1>1. /\ Pop(stack) \in Seq(Frames) /\ Len(stack) \in Nat \ {0} /\ Len(Pop(stack)) = Len(stack) - 1
      /\ DOMAIN Pop(stack) = 1 .. Len(stack) - 1
      /\ \A j \in 1 .. Len(stack) - 1 : Pop(stack)[j] = stack[j]
  BY PopFacts, StackFacts
<1>2. /\ stack' \in Seq(Frames) /\ stack' # <<>> /\ Len(stack') = Len(stack)
      /\ \A j \in 1 .. Len(stack) - 1 : stack'[j] = stack[j]
      /\ stack'[Len(stack)] = f
  <2>1. stack' = Append(Pop(stack), f)
    BY DEF Replace
  <2> QED
    BY <1>1, <2>1, AppendProperties
<1>3. DOMAIN stack' = 1 .. Len(stack) /\ DOMAIN stack = 1 .. Len(stack)
  BY <1>2, StackFacts, LenProperties
<1>4. /\ Top = stack[Len(stack)] /\ Len(stack) \in DOMAIN stack
      /\ \A j \in DOMAIN stack : j # Len(stack) => stack'[j] = stack[j]
  BY <1>1, <1>2, <1>3 DEF Top
<1>5. \A ops : \A x : x \in On(ops)' <=>
        \/ f.op \in ops /\ x = f.on
        \/ \E j \in DOMAIN stack : j # Len(stack) /\ stack[j].op \in ops /\ x = stack[j].on
  BY <1>2, <1>3, <1>4 DEF On
<1>6. \A ops : \A x : x \in On(ops) <=>
        \/ Top.op \in ops /\ x = Top.on
        \/ \E j \in DOMAIN stack : j # Len(stack) /\ stack[j].op \in ops /\ x = stack[j].on
  BY <1>4 DEF On
<1>7. ASSUME NEW ops, Top.op \notin ops
      PROVE  On(ops)' = IF f.op \in ops THEN On(ops) \cup {f.on} ELSE On(ops)
  <2>1. \A x : x \in On(ops)' <=> (f.op \in ops /\ x = f.on) \/ x \in On(ops)
    BY <1>5, <1>6, <1>7
  <2>2. CASE f.op \in ops
    BY <2>1, <2>2
  <2>3. CASE f.op \notin ops
    BY <2>1, <2>3
  <2> QED
    BY <2>2, <2>3
<1>8. ASSUME NEW ops \in SUBSET Holding, Top.op \in ops
      PROVE  On(ops)' = IF f.op \in ops THEN (On(ops) \ {Top.on}) \cup {f.on}
                        ELSE On(ops) \ {Top.on}
  <2>1. \A j \in DOMAIN stack : j # Len(stack) /\ stack[j].op \in ops => stack[j].on # Top.on
    BY <1>4, <1>8 DEF HeldOnce
  <2> QED
    BY <1>5, <1>6, <1>8, <2>1
<1> QED
  BY <1>2, <1>3, <1>4, <1>7, <1>8

\* The sets of windows in calls, by the kinds of call.
LEMMA OnKinds ==
  /\ On(Calls) = On({"build"}) \cup On({"update"})
  /\ On(Holding) = On(Calls) \cup On({"draw"})
  /\ On({"build", "draw"}) = On({"build"}) \cup On({"draw"})
  /\ On({"update", "build", "draw"}) = On(Holding)
  /\ Observing <=> \E w : w \in On({"closed"})
BY DEF On, Calls, Holding, Observing

LEMMA ObservingNext == Observing' <=> \E w : w \in On({"closed"})'
BY DEF On, Observing

LEMMA OnTypes ==
  ASSUME TypeOK, NEW ops \in SUBSET (Holding \cup {"closed"})
  PROVE  On(ops) \subseteq Windows
BY StackFacts, FrameFields DEF On, Holding

------------------------------------------------------------------------------
(***************************************************************************)
(* pending_effects and window_update_stack.                                *)
(***************************************************************************)
LEMMA EffectAppended ==
  ASSUME TypeOK, NEW e \in Effects, effects' = Append(effects, e)
  PROVE  /\ effects' \in Seq(Effects) /\ effects' # <<>>
         /\ \A w : Deferred(w) \/ e = [op |-> "defer", on |-> w] => Deferred(w)'
         /\ \A i \in DOMAIN effects' : effects'[i] = e \/ \E j \in DOMAIN effects : effects'[i] = effects[j]
<1>1. effects \in Seq(Effects) /\ Len(effects) \in Nat /\ DOMAIN effects = 1 .. Len(effects)
  BY LenProperties DEF TypeOK
<1>2. /\ effects' \in Seq(Effects) /\ effects' # <<>> /\ Len(effects') = Len(effects) + 1
      /\ \A j \in DOMAIN effects : effects'[j] = effects[j]
      /\ effects'[Len(effects) + 1] = e
  BY <1>1, AppendProperties
<1>3. DOMAIN effects' = DOMAIN effects \cup {Len(effects) + 1}
  BY <1>1, <1>2, LenProperties
<1> QED
  BY <1>2, <1>3 DEF Deferred

LEMMA EffectTaken ==
  ASSUME TypeOK, effects # <<>>, effects' = Tail(effects)
  PROVE  /\ effects' \in Seq(Effects) /\ Head(effects) \in Effects
         /\ \E j \in DOMAIN effects : Head(effects) = effects[j]
         /\ \A w : Deferred(w) => Deferred(w)' \/ Head(effects) = [op |-> "defer", on |-> w]
         /\ \A i \in DOMAIN effects' : \E j \in DOMAIN effects : effects'[i] = effects[j]
<1>1. effects \in Seq(Effects) /\ Len(effects) \in Nat \ {0} /\ DOMAIN effects = 1 .. Len(effects)
  BY LenProperties, EmptySeq DEF TypeOK
<1>2. /\ effects' \in Seq(Effects) /\ Head(effects) \in Effects /\ Len(effects') = Len(effects) - 1
      /\ \A j \in 1 .. Len(effects') : effects'[j] = effects[j + 1]
  BY <1>1, HeadTailProperties
<1>3. DOMAIN effects' = 1 .. Len(effects) - 1
  BY <1>1, <1>2, LenProperties
<1>4. Head(effects) = effects[1] /\ 1 \in DOMAIN effects
  BY <1>1
<1>5. \A i \in DOMAIN effects' : i + 1 \in DOMAIN effects /\ effects'[i] = effects[i + 1]
  BY <1>1, <1>2, <1>3
<1>6. \A j \in DOMAIN effects : j = 1 \/ (j - 1 \in DOMAIN effects' /\ effects'[j - 1] = effects[j])
  <2> TAKE j \in DOMAIN effects
  <2>1. j \in Nat /\ j # 1 => j - 1 \in 1 .. Len(effects') /\ (j - 1) + 1 = j
    BY <1>1, <1>2
  <2> QED
    BY <1>1, <1>2, <1>3, <2>1
<1>7. ASSUME NEW w, Deferred(w)
      PROVE  Deferred(w)' \/ Head(effects) = [op |-> "defer", on |-> w]
  <2>1. PICK j \in DOMAIN effects : effects[j] = [op |-> "defer", on |-> w]
    BY <1>7 DEF Deferred
  <2>2. CASE j = 1
    BY <1>4, <2>1, <2>2
  <2>3. CASE j # 1
    BY <1>6, <2>1, <2>3 DEF Deferred
  <2> QED
    BY <2>2, <2>3
<1> QED
  BY <1>2, <1>4, <1>5, <1>7

LEMMA UpdateStackFacts ==
  ASSUME TypeOK
  PROVE  /\ updateStack \in Seq(Windows) /\ Len(updateStack) \in Nat
         /\ DOMAIN updateStack = 1 .. Len(updateStack)
         /\ \A i \in DOMAIN updateStack : updateStack[i] \in Windows
         /\ updateStack # <<>> => Len(updateStack) \in DOMAIN updateStack
         /\ updateStack = <<>> <=> DOMAIN updateStack = {}
         /\ Last(updateStack) \in Windows \cup {None}
<1>1. /\ updateStack \in Seq(Windows) /\ Len(updateStack) \in Nat
      /\ DOMAIN updateStack = 1 .. Len(updateStack)
  BY LenProperties DEF TypeOK
<1>2. updateStack # <<>> => Len(updateStack) \in Nat \ {0}
  BY <1>1, EmptySeq
<1>3. updateStack = <<>> => Len(updateStack) = 0
  BY EmptySeq
<1>4. \A i \in DOMAIN updateStack : updateStack[i] \in Windows
  BY <1>1, ElementOfSeq
<1>5. updateStack # <<>> => Len(updateStack) \in DOMAIN updateStack
  BY <1>1, <1>2
<1>6. DOMAIN updateStack = {} => updateStack = <<>>
  BY <1>5
<1>7. updateStack = <<>> => DOMAIN updateStack = {}
  BY <1>1, <1>3
<1> QED
  BY <1>1, <1>4, <1>5, <1>6, <1>7 DEF Last

\* UpdatedOnce in terms of the positions of calls.
OnceAt ==
  /\ \A i, j \in DOMAIN updateStack : updateStack[i] = updateStack[j] => i = j
  /\ \A i \in DOMAIN updateStack : \E j \in CallsAt : stack[j].on = updateStack[i]
  /\ \A j \in CallsAt : \E i \in DOMAIN updateStack : stack[j].on = updateStack[i]
  /\ \A j, k \in CallsAt : \A i, l \in DOMAIN updateStack :
       j < k /\ stack[j].on = updateStack[i] /\ stack[k].on = updateStack[l] => i < l

LEMMA UpdatedOnceAt == UpdatedOnce <=> OnceAt
<1>1. {j \in DOMAIN stack : stack[j].op \in {"build", "update"}} = CallsAt
  BY DEF CallsAt, Calls
<1>2. {updateStack[i] : i \in DOMAIN updateStack} = {stack[j].on : j \in CallsAt}
        <=> /\ \A i \in DOMAIN updateStack : \E j \in CallsAt : stack[j].on = updateStack[i]
            /\ \A j \in CallsAt : \E i \in DOMAIN updateStack : stack[j].on = updateStack[i]
  <2>1. {updateStack[i] : i \in DOMAIN updateStack} = {stack[j].on : j \in CallsAt}
        <=> \A x : (\E i \in DOMAIN updateStack : x = updateStack[i])
                     <=> (\E j \in CallsAt : x = stack[j].on)
    OBVIOUS
  <2> QED
    BY <2>1
<1> QED
  BY <1>1, <1>2 DEF UpdatedOnce, OnceAt

LEMMA UpdatedOnceAtNext == UpdatedOnce' <=> OnceAt'
BY UpdatedOnceAt, PTL

\* The innermost call is about the window last pushed.
LEMMA LastCall ==
  ASSUME TypeOK, UpdatedOnce, stack # <<>>, Top.op \in Calls
  PROVE  updateStack # <<>> /\ updateStack[Len(updateStack)] = Top.on
<1>1. Len(stack) \in CallsAt /\ Top = stack[Len(stack)] /\ \A j \in CallsAt : j \in 1 .. Len(stack)
  BY StackFacts DEF CallsAt, Top
<1>2. PICK i \in DOMAIN updateStack : Top.on = updateStack[i]
  BY <1>1, UpdatedOnceAt DEF OnceAt
<1>3. updateStack # <<>> /\ Len(updateStack) \in DOMAIN updateStack
  BY <1>2, UpdateStackFacts
<1>4. PICK j \in CallsAt : stack[j].on = updateStack[Len(updateStack)]
  BY <1>3, UpdatedOnceAt DEF OnceAt
<1>5. CASE j = Len(stack)
  BY <1>1, <1>3, <1>4, <1>5
<1>6. CASE j # Len(stack)
  <2>1. j < Len(stack)
    BY <1>1, <1>6, StackFacts
  <2>2. Len(updateStack) < i
    BY <1>1, <1>2, <1>3, <1>4, <2>1, UpdatedOnceAt DEF OnceAt
  <2> QED
    BY <1>2, <2>2, UpdateStackFacts
<1> QED
  BY <1>5, <1>6

------------------------------------------------------------------------------
(***************************************************************************)
(* Types.                                                                  *)
(***************************************************************************)
LEMMA InitTypeOK == Init => TypeOK
<1>1. <<>> \in Seq(Windows) /\ <<>> \in Seq(Frames) /\ <<>> \in Seq(Effects)
  BY EmptySeq
<1>2. MaxFuel \in 0 .. MaxFuel
  BY NumbersAssumption
<1> QED
  BY <1>1, <1>2 DEF Init, TypeOK

LEMMA Entered ==
  ASSUME TypeOK, NEW w \in Windows, EnterWindow(w)
  PROVE  /\ slot[w] = "in" /\ slot' = [slot EXCEPT ![w] = "empty"]
         /\ PushFrame([op |-> "update", on |-> w])
         /\ updateStack' = Append(updateStack, w)
         /\ slot' \in [Windows -> {"unborn", "empty", "in", "closed"}]
         /\ updateStack' \in Seq(Windows) /\ stack' \in Seq(Frames)
<1>1. /\ slot[w] = "in" /\ slot' = [slot EXCEPT ![w] = "empty"]
      /\ PushFrame([op |-> "update", on |-> w]) /\ updateStack' = Append(updateStack, w)
  BY DEF EnterWindow, Enter
<1>2. updateStack' \in Seq(Windows)
  BY <1>1, AppendProperties DEF TypeOK
<1>3. stack' \in Seq(Frames)
  BY <1>1, FrameFields, Pushed
<1> QED
  BY <1>1, <1>2, <1>3 DEF TypeOK

LEMMA UserCodeFuel ==
  ASSUME TypeOK, UserCode
  PROVE  fuel' \in 0 .. MaxFuel
BY NumbersAssumption DEF TypeOK, UserCode

\* A call that returns.
LEMMA LeftTypes ==
  ASSUME TypeOK, stack # <<>>
  PROVE  Pop(stack) \in Seq(Frames) /\ Len(stack) \in Nat
BY PopFacts, StackFacts

LEMMA CallTypes ==
  ASSUME TypeOK, Held, stack # <<>>, Top.op \in Calls
  PROVE  Pop(updateStack) \in Seq(Windows) /\ Top.on \in Windows
<1>1. updateStack # <<>>
  BY LastCall DEF Held
<1>2. Pop(updateStack) \in Seq(Windows)
  BY <1>1, PopFacts DEF TypeOK
<1> QED
  BY <1>2, StackFacts, FrameFields DEF Calls

LEMMA UserTypeOK ==
  ASSUME TypeOK, UserStep
  PROVE  TypeOK'
<1>1. CASE UpdateApp
  <2>1. stack' \in Seq(Frames)
    BY <1>1, FrameFields, Pushed DEF UpdateApp
  <2> QED
    BY <1>1, <2>1, UserCodeFuel DEF UpdateApp, TypeOK, focusVars, flushVars, auxVars
<1>2. CASE NewEntity
  <2> DEFINE e == [op |-> "created", on |-> Last(updateStack), left |-> NewObservers]
  <2>1. e \in Effects
    BY UpdateStackFacts, NumbersAssumption DEF Effects
  <2>2. effects' \in Seq(Effects)
    BY <1>2, <2>1, EffectAppended DEF NewEntity
  <2> QED
    BY <1>2, <2>2, UserCodeFuel DEF NewEntity, TypeOK, focusVars, callVars, auxVars
<1>3. CASE DropFocusHandle
  BY <1>3, UserCodeFuel DEF DropFocusHandle, TypeOK, callVars, auxVars
<1>4. ASSUME NEW w \in Windows, UpdateWindow(w) PROVE TypeOK'
  BY <1>4, UserCodeFuel, Entered DEF UpdateWindow, TypeOK, focusVars, flushVars, auxVars
<1>5. ASSUME NEW w \in Windows, RemoveWindow(w) PROVE TypeOK'
  BY <1>5, UserCodeFuel DEF RemoveWindow, TypeOK, focusVars, flushVars, callVars
<1>6. ASSUME NEW w \in Windows, OpenWindow(w) PROVE TypeOK'
  <2>1. stack' \in Seq(Frames)
    BY <1>6, FrameFields, Pushed DEF OpenWindow
  <2>2. updateStack' \in Seq(Windows)
    BY <1>6, AppendProperties DEF OpenWindow, TypeOK
  <2> QED
    BY <1>6, <2>1, <2>2, UserCodeFuel DEF OpenWindow, TypeOK, focusVars, flushVars, auxVars
<1> QED
  BY <1>1, <1>2, <1>3, <1>4, <1>5, <1>6 DEF UserStep

LEMMA ReturnTypeOK ==
  ASSUME TypeOK, Held, Returns
  PROVE  TypeOK'
<1>1. CASE AppReturns
  BY <1>1, LeftTypes DEF AppReturns, Running, LeaveCall, TypeOK, focusVars, auxVars
<1>2. CASE BuildReturns
  <2>1. /\ stack # <<>> /\ Top.op = "build" /\ updateStack' = Pop(updateStack)
        /\ effects' = Append(effects, [op |-> "defer", on |-> Top.on])
        /\ Replace([op |-> "draw", on |-> Top.on])
        /\ UNCHANGED <<slot, removed, focusVars, flushing, applying, halted, quit, fuel, auxVars>>
    BY <1>2 DEF BuildReturns, Running
  <2>2. updateStack' \in Seq(Windows) /\ Top.on \in Windows
    BY <2>1, CallTypes DEF Calls
  <2>3. effects' \in Seq(Effects)
    BY <2>1, <2>2, EffectFields, EffectAppended
  <2>4. stack' \in Seq(Frames)
    BY <2>1, <2>2, FrameFields, Replaced DEF Held, Holding
  <2> QED
    BY <2>1, <2>2, <2>3, <2>4 DEF TypeOK, focusVars, auxVars
<1>3. CASE DrawReturns
  <2>1. Top.on \in Windows
    BY <1>3, StackFacts, FrameFields DEF DrawReturns, Running
  <2> QED
    BY <1>3, <2>1, LeftTypes DEF DrawReturns, Running, LeaveCall, TypeOK, focusVars, auxVars
<1>4. CASE UpdateReturns
  <2>1. stack # <<>> /\ Top.op \in Calls
    BY <1>4 DEF UpdateReturns, Running, Calls
  <2> QED
    BY <1>4, <2>1, CallTypes, LeftTypes DEF UpdateReturns, LeaveCall, TypeOK, focusVars, auxVars
<1>5. CASE CloseWindow
  <2>1. stack # <<>> /\ Top.op \in Calls /\ Top.op \in Holding
    BY <1>5 DEF CloseWindow, Running, Calls, Holding
  <2>2. Pop(updateStack) \in Seq(Windows) /\ Top.on \in Windows
    BY <2>1, CallTypes
  <2>3. slot' \in [Windows -> {"unborn", "empty", "in", "closed"}] /\ updateStack' \in Seq(Windows)
    BY <1>5, <2>2 DEF CloseWindow, TypeOK
  <2>4. stack' \in Seq(Frames)
    <3>1. CASE Observing
      BY <1>5, <2>1, <3>1, LeftTypes DEF CloseWindow, LeaveCall
    <3>2. CASE ~Observing
      BY <1>5, <2>1, <2>2, <3>2, FrameFields, Replaced DEF CloseWindow, Held
    <3> QED
      BY <3>1, <3>2
  <2>5. flushing' \in BOOLEAN /\ quit' \in BOOLEAN /\ told' \subseteq Windows
    BY <1>5, <2>2 DEF CloseWindow, LeaveCall, TypeOK
  <2> QED
    BY <1>5, <2>3, <2>4, <2>5 DEF CloseWindow, TypeOK, focusVars
<1>6. CASE ClosedReturns
  <2>1. stack' \in Seq(Frames) /\ flushing' \in BOOLEAN /\ quit' \in BOOLEAN
    BY <1>6, LeftTypes DEF ClosedReturns, Running, LeaveCall, TypeOK
  <2> QED
    BY <1>6, <2>1 DEF ClosedReturns, TypeOK, focusVars, auxVars
<1> QED
  BY <1>1, <1>2, <1>3, <1>4, <1>5, <1>6 DEF Returns

LEMMA FlushTypeOK ==
  ASSUME TypeOK, FlushStep
  PROVE  TypeOK'
<1>1. CASE BeginRelease
  BY <1>1 DEF BeginRelease, TypeOK, callVars, flushVars, auxVars
<1>2. ASSUME NEW w \in Windows, Visit(w) PROVE TypeOK'
  <2>1. /\ slot' \in [Windows -> {"unborn", "empty", "in", "closed"}]
        /\ told' \subseteq Windows /\ visiting' \subseteq Windows
        /\ halted' \in {"no", "expect", "unwrap", "lock"}
    BY <1>2 DEF Visit, TypeOK
  <2>2. stack' \in Seq(Frames)
    BY <1>2, FrameFields, Pushed DEF Visit, TypeOK
  <2> QED
    BY <1>2, <2>1, <2>2 DEF Visit, TypeOK
<1>3. CASE EndRelease
  BY <1>3 DEF EndRelease, TypeOK, callVars, flushVars, auxVars
<1>4. CASE ApplyDefer
  <2> DEFINE w == Head(effects).on
  <2>1. effects' \in Seq(Effects) /\ w \in Windows
    BY <1>4, EffectTaken, EffectFields DEF ApplyDefer
  <2>2. /\ slot' \in [Windows -> {"unborn", "empty", "in", "closed"}]
        /\ stack' \in Seq(Frames) /\ updateStack' \in Seq(Windows)
    <3>1. CASE slot[w] = "in"
      BY <1>4, <2>1, <3>1, Entered DEF ApplyDefer
    <3>2. CASE slot[w] # "in"
      BY <1>4, <3>2 DEF ApplyDefer, callVars, TypeOK
    <3> QED
      BY <3>1, <3>2
  <2> QED
    BY <1>4, <2>1, <2>2 DEF ApplyDefer, TypeOK, focusVars, auxVars
<1>5. CASE ApplyCreated
  <2>1. effects' \in Seq(Effects) /\ applying' \in Effects
    BY <1>5, EffectTaken DEF ApplyCreated
  <2> QED
    BY <1>5, <2>1 DEF ApplyCreated, TypeOK, focusVars, callVars, auxVars
<1>6. CASE CallNewObserver
  <2>1. UpdateForCreated /\ applying \in Effects /\ applying.left > 0
    BY <1>6 DEF CallNewObserver, UpdateForCreated, TypeOK
  <2>2. applying' \in Effects
    BY <2>1, NumbersAssumption DEF UpdateForCreated, Effects
  <2>3. /\ slot' \in [Windows -> {"unborn", "empty", "in", "closed"}]
        /\ stack' \in Seq(Frames) /\ updateStack' \in Seq(Windows)
        /\ halted' \in {"no", "expect", "unwrap", "lock"}
    <3>1. CASE applying.on = None
      BY <2>1, <3>1, FrameFields, Pushed DEF UpdateForCreated, TypeOK
    <3>2. CASE applying.on # None /\ slot[applying.on] = "in"
      <4>1. applying.on \in Windows
        BY <2>1, <3>2, EffectFields
      <4> QED
        BY <2>1, <3>2, <4>1, Entered DEF UpdateForCreated, TypeOK
    <3>3. CASE applying.on # None /\ slot[applying.on] # "in"
      BY <2>1, <3>3 DEF UpdateForCreated, callVars, TypeOK
    <3> QED
      BY <3>1, <3>2, <3>3
  <2> QED
    BY <2>1, <2>2, <2>3 DEF UpdateForCreated, TypeOK, focusVars, auxVars
<1>7. CASE CreatedDone
  BY <1>7 DEF CreatedDone, TypeOK, focusVars, callVars, auxVars
<1>8. CASE FlushEnds
  BY <1>8 DEF FlushEnds, TypeOK, focusVars, callVars, auxVars
<1> QED
  BY <1>1, <1>2, <1>3, <1>4, <1>5, <1>6, <1>7, <1>8 DEF FlushStep

------------------------------------------------------------------------------
(***************************************************************************)
(* Held: each window in a call is in one, and out of its slot.             *)
(***************************************************************************)
\* Only the frames of calls matter to UpdatedOnce.
LEMMA CallsSame ==
  ASSUME UpdatedOnce, UNCHANGED updateStack, CallsAt' = CallsAt,
         \A j \in CallsAt : stack'[j].on = stack[j].on
  PROVE  UpdatedOnce'
<1>1. OnceAt
  BY UpdatedOnceAt
<1>2. \A i \in DOMAIN updateStack' : \E j \in CallsAt' : stack'[j].on = updateStack'[i]
  BY <1>1 DEF OnceAt
<1>3. \A j \in CallsAt' : \E i \in DOMAIN updateStack' : stack'[j].on = updateStack'[i]
  BY <1>1 DEF OnceAt
<1>4. \A j, k \in CallsAt' : \A i, l \in DOMAIN updateStack' :
        j < k /\ stack'[j].on = updateStack'[i] /\ stack'[k].on = updateStack'[l] => i < l
  BY <1>1 DEF OnceAt
<1>5. \A i, j \in DOMAIN updateStack' : updateStack'[i] = updateStack'[j] => i = j
  BY <1>1 DEF OnceAt
<1> QED
  BY <1>2, <1>3, <1>4, <1>5, UpdatedOnceAtNext DEF OnceAt

LEMMA CallPushed ==
  ASSUME TypeOK, Held, NEW w \in Windows, w \notin On(Calls), NEW o \in Calls,
         PushFrame([op |-> o, on |-> w]), updateStack' = Append(updateStack, w)
  PROVE  UpdatedOnce'
<1> DEFINE n == Len(stack) + 1
           m == Len(updateStack) + 1
<1>1. /\ DOMAIN stack' = DOMAIN stack \cup {n} /\ n \notin DOMAIN stack /\ n \in Nat
      /\ \A j \in DOMAIN stack : stack'[j] = stack[j] /\ j < n /\ j \in Nat
      /\ stack'[n].op = o /\ stack'[n].on = w
  <2>1. [op |-> o, on |-> w] \in Frames
    BY FrameFields DEF Calls
  <2>2. /\ DOMAIN stack' = 1 .. n /\ DOMAIN stack = 1 .. Len(stack) /\ Len(stack) \in Nat
        /\ \A j \in DOMAIN stack : stack'[j] = stack[j]
        /\ stack'[n] = [op |-> o, on |-> w]
    BY <2>1, Pushed, StackFacts
  <2> QED
    BY <2>2
<1>2. /\ DOMAIN updateStack' = DOMAIN updateStack \cup {m} /\ m \notin DOMAIN updateStack /\ m \in Nat
      /\ \A i \in DOMAIN updateStack : updateStack'[i] = updateStack[i] /\ i < m /\ i \in Nat
      /\ updateStack'[m] = w
  <2>1. Len(updateStack') = m /\ DOMAIN updateStack' = 1 .. m
    BY UpdateStackFacts, AppendProperties, LenProperties
  <2> QED
    BY <2>1, UpdateStackFacts, AppendProperties
<1> HIDE DEF n, m
<1>3. CallsAt' = CallsAt \cup {n} /\ CallsAt \subseteq DOMAIN stack
  BY <1>1 DEF CallsAt, Calls
<1>4. \A j \in CallsAt : stack[j].on # w
  BY DEF CallsAt, On
<1>5. OnceAt
  BY UpdatedOnceAt DEF Held
<1>6. \A i \in DOMAIN updateStack : updateStack[i] # w
  BY <1>4, <1>5 DEF OnceAt
<1>7. stack'[n].on = w /\ \A j \in CallsAt : stack'[j].on = stack[j].on
  BY <1>1, <1>3
<1>8. \A i, j \in DOMAIN updateStack' : updateStack'[i] = updateStack'[j] => i = j
  BY <1>2, <1>5, <1>6 DEF OnceAt
<1>9. \A i \in DOMAIN updateStack' : \E j \in CallsAt' : stack'[j].on = updateStack'[i]
  BY <1>2, <1>3, <1>5, <1>7 DEF OnceAt
<1>10. \A j \in CallsAt' : \E i \in DOMAIN updateStack' : stack'[j].on = updateStack'[i]
  BY <1>2, <1>3, <1>5, <1>7 DEF OnceAt
<1>11. ASSUME NEW j \in CallsAt', NEW k \in CallsAt',
              NEW i \in DOMAIN updateStack', NEW l \in DOMAIN updateStack',
              j < k, stack'[j].on = updateStack'[i], stack'[k].on = updateStack'[l]
       PROVE  i < l
  <2>1. j \in DOMAIN stack /\ j \in CallsAt
    BY <1>1, <1>3, <1>11
  <2>2. stack[j].on = updateStack'[i] /\ i \in DOMAIN updateStack
    BY <1>2, <1>4, <1>7, <1>11, <2>1
  <2>3. CASE k = n
    <3>1. l = m
      BY <1>2, <1>6, <1>7, <1>11, <2>3
    <3> QED
      BY <1>2, <2>2, <3>1
  <2>4. CASE k # n
    <3>1. k \in CallsAt /\ k \in DOMAIN stack
      BY <1>3, <2>4
    <3>2. stack[k].on = updateStack'[l] /\ l \in DOMAIN updateStack
      BY <1>2, <1>4, <1>7, <1>11, <3>1
    <3>3. stack[j].on = updateStack[i] /\ stack[k].on = updateStack[l]
      BY <1>2, <2>2, <3>2
    <3> QED
      BY <1>5, <1>11, <2>1, <2>2, <3>1, <3>2, <3>3 DEF OnceAt
  <2> QED
    BY <2>3, <2>4
<1> QED
  BY <1>8, <1>9, <1>10, <1>11, UpdatedOnceAtNext DEF OnceAt

\* The innermost call goes, and with it the window last pushed.
LEMMA CallPopped ==
  ASSUME TypeOK, Held, stack # <<>>, Top.op \in Calls, updateStack' = Pop(updateStack),
         CallsAt' = CallsAt \ {Len(stack)}, \A j \in CallsAt' : stack'[j] = stack[j]
  PROVE  UpdatedOnce'
<1> DEFINE n == Len(stack)
           m == Len(updateStack)
<1>1. updateStack # <<>> /\ updateStack[m] = Top.on
  BY LastCall DEF Held
<1>2. m \in DOMAIN updateStack
  BY <1>1, UpdateStackFacts
<1>3. /\ DOMAIN updateStack' = DOMAIN updateStack \ {m}
      /\ \A i \in DOMAIN updateStack' : updateStack'[i] = updateStack[i]
  <2>1. /\ DOMAIN updateStack' = 1 .. m - 1 /\ m \in Nat \ {0}
        /\ \A i \in 1 .. m - 1 : updateStack'[i] = updateStack[i]
    BY <1>1, PopFacts, UpdateStackFacts
  <2> QED
    BY <2>1, UpdateStackFacts
<1>4. n \in CallsAt /\ stack[n].on = Top.on
  BY StackFacts DEF CallsAt, Top
<1>5. OnceAt
  BY UpdatedOnceAt DEF Held
<1>6. \A j \in CallsAt' : stack[j].on # Top.on
  BY <1>4 DEF CallsAt, Held, HeldOnce, Holding, Calls
<1> HIDE DEF n, m
<1>7. CallsAt' = CallsAt \ {n}
  BY DEF n
<1>8. \A i, j \in DOMAIN updateStack' : updateStack'[i] = updateStack'[j] => i = j
  BY <1>3, <1>5 DEF OnceAt
<1>9. \A i \in DOMAIN updateStack' : \E j \in CallsAt' : stack'[j].on = updateStack'[i]
  <2> TAKE i \in DOMAIN updateStack'
  <2>1. PICK j \in CallsAt : stack[j].on = updateStack[i]
    BY <1>3, <1>5 DEF OnceAt
  <2>2. j # n
    BY <1>1, <1>2, <1>3, <1>4, <1>5, <2>1 DEF OnceAt
  <2> QED
    BY <1>3, <1>7, <2>1, <2>2
<1>10. \A j \in CallsAt' : \E i \in DOMAIN updateStack' : stack'[j].on = updateStack'[i]
  <2> TAKE j \in CallsAt'
  <2>1. PICK i \in DOMAIN updateStack : stack[j].on = updateStack[i]
    BY <1>5, <1>7 DEF OnceAt
  <2>2. i # m
    BY <1>1, <1>6, <2>1
  <2> QED
    BY <1>3, <2>1, <2>2
<1>11. \A j, k \in CallsAt' : \A i, l \in DOMAIN updateStack' :
         j < k /\ stack'[j].on = updateStack'[i] /\ stack'[k].on = updateStack'[l] => i < l
  BY <1>3, <1>5, <1>7 DEF OnceAt
<1> QED
  BY <1>8, <1>9, <1>10, <1>11, UpdatedOnceAtNext DEF OnceAt

LEMMA HeldStays ==
  ASSUME Held, UNCHANGED <<slot, stack, updateStack>>
  PROVE  Held'
<1>1. HeldOnce' /\ HeldIsOut' /\ ClosedIsClosed'
  BY DEF Held, HeldOnce, HeldIsOut, ClosedIsClosed, On
<1>2. UpdatedOnce'
  BY DEF Held, UpdatedOnce
<1> QED
  BY <1>1, <1>2 DEF Held

\* A frame that has no window out of its slot.
LEMMA HeldQuietPushed ==
  ASSUME TypeOK, Held, NEW f \in Frames, f.op \notin Holding, PushFrame(f), UNCHANGED updateStack,
         \A w \in Windows : slot'[w] = "empty" <=> slot[w] = "empty",
         \A w \in Windows : slot[w] = "closed" => slot'[w] = "closed",
         f.op = "closed" => slot'[f.on] = "closed"
  PROVE  Held'
<1>1. /\ DOMAIN stack' = DOMAIN stack \cup {Len(stack) + 1} /\ Len(stack) + 1 \notin DOMAIN stack
      /\ \A j \in DOMAIN stack : stack'[j] = stack[j]
      /\ stack'[Len(stack) + 1] = f
  <2>1. /\ DOMAIN stack' = 1 .. Len(stack) + 1
        /\ \A j \in DOMAIN stack : stack'[j] = stack[j]
        /\ stack'[Len(stack) + 1] = f
    BY Pushed
  <2>2. DOMAIN stack = 1 .. Len(stack) /\ Len(stack) \in Nat
    BY StackFacts
  <2> QED
    BY <2>1, <2>2
<1>2. \A ops : On(ops)' = IF f.op \in ops THEN On(ops) \cup {f.on} ELSE On(ops)
  BY Pushed
<1>3. HeldOnce'
  BY <1>1 DEF Held, HeldOnce
<1>4. HeldIsOut'
  BY <1>2 DEF Held, HeldIsOut
<1>5. ClosedIsClosed'
  BY <1>2, OnTypes DEF Held, ClosedIsClosed
<1>6. UpdatedOnce'
  <2>1. CallsAt' = CallsAt
    BY <1>1 DEF CallsAt, Calls, Holding
  <2>2. \A j \in CallsAt : stack'[j].on = stack[j].on
    BY <1>1 DEF CallsAt
  <2> QED
    BY <2>1, <2>2, CallsSame DEF Held
<1> QED
  BY <1>3, <1>4, <1>5, <1>6 DEF Held

\* A window is taken to be updated or built.
LEMMA HeldTaken ==
  ASSUME TypeOK, Held, NEW w \in Windows, NEW o \in Calls, PushFrame([op |-> o, on |-> w]),
         updateStack' = Append(updateStack, w),
         slot[w] \in {"in", "unborn"}, slot' = [slot EXCEPT ![w] = "empty"]
  PROVE  Held'
<1> DEFINE f == [op |-> o, on |-> w]
<1>1. f \in Frames /\ f.op \in Holding /\ f.op # "closed" /\ f.on = w
  BY FrameFields DEF Calls, Holding
<1>2. /\ DOMAIN stack' = DOMAIN stack \cup {Len(stack) + 1} /\ Len(stack) + 1 \notin DOMAIN stack
      /\ \A j \in DOMAIN stack : stack'[j] = stack[j]
      /\ stack'[Len(stack) + 1] = f
  <2>1. /\ DOMAIN stack' = 1 .. Len(stack) + 1
        /\ \A j \in DOMAIN stack : stack'[j] = stack[j]
        /\ stack'[Len(stack) + 1] = f
    BY <1>1, Pushed
  <2>2. DOMAIN stack = 1 .. Len(stack) /\ Len(stack) \in Nat
    BY StackFacts
  <2> QED
    BY <2>1, <2>2
<1>3. \A ops : On(ops)' = IF f.op \in ops THEN On(ops) \cup {f.on} ELSE On(ops)
  BY <1>1, Pushed
<1> HIDE DEF f
<1>4. w \notin On(Holding)
  BY DEF Held, HeldIsOut
<1>5. \A j \in DOMAIN stack : stack[j].op \in Holding => stack[j].on # w
  BY <1>4 DEF On
<1>6. HeldOnce'
  BY <1>1, <1>2, <1>5 DEF Held, HeldOnce
<1>7. \A v \in Windows : slot'[v] = IF v = w THEN "empty" ELSE slot[v]
  BY DEF TypeOK
<1>8. HeldIsOut'
  BY <1>1, <1>3, <1>7 DEF Held, HeldIsOut
<1>9. ClosedIsClosed'
  <2>1. On({"closed"})' = On({"closed"}) /\ On({"closed"}) \subseteq Windows
    BY <1>1, <1>3, OnTypes
  <2> QED
    BY <1>7, <2>1 DEF Held, ClosedIsClosed
<1>10. UpdatedOnce'
  BY <1>4, CallPushed, OnKinds
<1> QED
  BY <1>6, <1>8, <1>9, <1>10 DEF Held

\* A frame that has no window out of its slot goes.
LEMMA HeldQuietPopped ==
  ASSUME TypeOK, Held, stack # <<>>, Top.op \notin Holding, stack' = Pop(stack),
         UNCHANGED <<updateStack, slot>>
  PROVE  Held'
<1>1. /\ DOMAIN stack = DOMAIN stack' \cup {Len(stack)} /\ Len(stack) \notin DOMAIN stack'
      /\ \A j \in DOMAIN stack' : stack'[j] = stack[j]
      /\ \A ops : Top.op \notin ops => On(ops)' = On(ops)
  BY Popped DEF Held
<1>2. HeldOnce'
  BY <1>1 DEF Held, HeldOnce
<1>3. HeldIsOut'
  BY <1>1 DEF Held, HeldIsOut
<1>4. ClosedIsClosed'
  <2>1. ASSUME NEW v \in On({"closed"})' PROVE v \in On({"closed"})
    <3>1. PICK j \in DOMAIN stack' : stack'[j].op = "closed" /\ v = stack'[j].on
      BY <2>1 DEF On
    <3>2. j \in DOMAIN stack /\ stack[j].op = "closed" /\ v = stack[j].on
      BY <1>1, <3>1
    <3> QED
      BY <3>2 DEF On
  <2> QED
    BY <2>1 DEF Held, ClosedIsClosed
<1>5. UpdatedOnce'
  <2>1. stack[Len(stack)].op \notin Calls
    BY DEF Top, Calls, Holding
  <2>2. CallsAt' = CallsAt
    BY <1>1, <2>1 DEF CallsAt
  <2>3. \A j \in CallsAt : stack'[j].on = stack[j].on
    BY <1>1, <2>2 DEF CallsAt
  <2> QED
    BY <2>2, <2>3, CallsSame DEF Held
<1> QED
  BY <1>2, <1>3, <1>4, <1>5 DEF Held

\* The window of the innermost frame is put back, or closed.
LEMMA HeldPopped ==
  ASSUME TypeOK, Held, stack # <<>>, Top.op \in Holding, stack' = Pop(stack),
         updateStack' = IF Top.op \in Calls THEN Pop(updateStack) ELSE updateStack,
         NEW s \in {"in", "closed"}, slot' = [slot EXCEPT ![Top.on] = s]
  PROVE  Held'
<1>1. /\ DOMAIN stack = DOMAIN stack' \cup {Len(stack)} /\ Len(stack) \notin DOMAIN stack'
      /\ \A j \in DOMAIN stack' : stack'[j] = stack[j]
      /\ \A ops : Top.op \notin ops => On(ops)' = On(ops)
      /\ On(Holding)' = On(Holding) \ {Top.on}
  BY Popped DEF Held
<1>2. HeldOnce'
  BY <1>1 DEF Held, HeldOnce
<1>3. Top.on \in Windows /\ Top = stack[Len(stack)] /\ Top.on \in On(Holding)
  BY StackFacts, FrameFields DEF Top, On, Holding
<1>4. \A v \in Windows : slot'[v] = IF v = Top.on THEN s ELSE slot[v]
  BY <1>3 DEF TypeOK
<1>5. HeldIsOut'
  BY <1>1, <1>3, <1>4 DEF Held, HeldIsOut
<1>6. ClosedIsClosed'
  <2>1. On({"closed"})' = On({"closed"}) /\ On({"closed"}) \subseteq Windows
    BY <1>1, OnTypes DEF Holding
  <2>2. slot[Top.on] = "empty"
    BY <1>3 DEF Held, HeldIsOut
  <2> QED
    BY <1>4, <2>1, <2>2 DEF Held, ClosedIsClosed
<1>7. UpdatedOnce'
  <2>1. CallsAt' = CallsAt \ {Len(stack)} /\ \A j \in CallsAt' : stack'[j] = stack[j]
    BY <1>1 DEF CallsAt
  <2>2. CASE Top.op \in Calls
    BY <2>1, <2>2, CallPopped
  <2>3. CASE Top.op \notin Calls
    <3>1. Len(stack) \notin CallsAt
      BY <1>3, <2>3 DEF CallsAt
    <3> QED
      BY <2>1, <2>3, <3>1, CallsSame DEF Held
  <2> QED
    BY <2>2, <2>3
<1> QED
  BY <1>2, <1>5, <1>6, <1>7 DEF Held

\* The call that builds a window goes on to draw it.
LEMMA HeldDrawn ==
  ASSUME TypeOK, Held, stack # <<>>, Top.op = "build", Replace([op |-> "draw", on |-> Top.on]),
         updateStack' = Pop(updateStack), UNCHANGED slot
  PROVE  Held'
<1> DEFINE f == [op |-> "draw", on |-> Top.on]
<1>1. Top.on \in Windows /\ Top = stack[Len(stack)] /\ Len(stack) \in DOMAIN stack
  BY StackFacts, FrameFields DEF Top
<1>2. f \in Frames /\ f.op = "draw" /\ f.on = Top.on /\ Top.op \in Holding /\ Top.op \in Calls
  BY <1>1, FrameFields DEF Holding, Calls
<1>3. /\ DOMAIN stack' = DOMAIN stack
      /\ \A j \in DOMAIN stack : stack'[j] = IF j = Len(stack) THEN f ELSE stack[j]
      /\ On({"closed"})' = On({"closed"})
      /\ On(Holding)' = (On(Holding) \ {Top.on}) \cup {f.on}
  BY <1>2, Replaced DEF Held, Holding
<1> HIDE DEF f
<1>4. Top.on \in On(Holding)
  BY <1>1, <1>2 DEF On
<1>5. HeldOnce'
  <2>1. \A j \in DOMAIN stack : /\ stack'[j].op \in Holding => stack[j].op \in Holding
                                /\ stack[j].op \in Holding => stack'[j].on = stack[j].on
    BY <1>1, <1>2, <1>3
  <2> QED
    BY <1>3, <2>1 DEF Held, HeldOnce
<1>6. HeldIsOut'
  BY <1>2, <1>3, <1>4 DEF Held, HeldIsOut
<1>7. ClosedIsClosed'
  BY <1>3 DEF Held, ClosedIsClosed
<1>8. UpdatedOnce'
  <2>1. CallsAt' = CallsAt \ {Len(stack)} /\ \A j \in CallsAt' : stack'[j] = stack[j]
    BY <1>2, <1>3 DEF CallsAt, Calls
  <2> QED
    BY <1>2, <2>1, CallPopped
<1> QED
  BY <1>5, <1>6, <1>7, <1>8 DEF Held

\* The update that closes a window goes on to tell its observers.
LEMMA HeldClosed ==
  ASSUME TypeOK, Held, stack # <<>>, Top.op = "update", Replace([op |-> "closed", on |-> Top.on]),
         updateStack' = Pop(updateStack), slot' = [slot EXCEPT ![Top.on] = "closed"]
  PROVE  Held'
<1> DEFINE f == [op |-> "closed", on |-> Top.on]
<1>1. Top.on \in Windows /\ Top = stack[Len(stack)] /\ Len(stack) \in DOMAIN stack
  BY StackFacts, FrameFields DEF Top
<1>2. f \in Frames /\ f.op = "closed" /\ f.on = Top.on /\ Top.op \in Holding /\ Top.op \in Calls
  BY <1>1, FrameFields DEF Holding, Calls
<1>3. /\ DOMAIN stack' = DOMAIN stack
      /\ \A j \in DOMAIN stack : stack'[j] = IF j = Len(stack) THEN f ELSE stack[j]
      /\ On({"closed"})' = On({"closed"}) \cup {f.on}
      /\ On(Holding)' = On(Holding) \ {Top.on}
  BY <1>2, Replaced DEF Held, Holding
<1> HIDE DEF f
<1>4. HeldOnce'
  BY <1>2, <1>3 DEF Held, HeldOnce, Holding
<1>5. \A v \in Windows : slot'[v] = IF v = Top.on THEN "closed" ELSE slot[v]
  BY <1>1 DEF TypeOK
<1>6. HeldIsOut'
  BY <1>3, <1>5 DEF Held, HeldIsOut
<1>7. ClosedIsClosed'
  <2>1. ASSUME NEW v \in On({"closed"})' PROVE slot'[v] = "closed"
    <3>1. v = Top.on \/ (v \in On({"closed"}) /\ v \in Windows)
      BY <1>2, <1>3, OnTypes
    <3>2. CASE v = Top.on
      BY <1>1, <1>5, <3>2
    <3>3. CASE v # Top.on
      BY <1>5, <3>1, <3>3 DEF Held, ClosedIsClosed
    <3> QED
      BY <3>2, <3>3
  <2> QED
    BY <2>1 DEF ClosedIsClosed
<1>8. UpdatedOnce'
  <2>1. CallsAt' = CallsAt \ {Len(stack)} /\ \A j \in CallsAt' : stack'[j] = stack[j]
    BY <1>2, <1>3 DEF CallsAt, Calls
  <2> QED
    BY <1>2, <2>1, CallPopped
<1> QED
  BY <1>4, <1>6, <1>7, <1>8 DEF Held

LEMMA HeldEntered ==
  ASSUME TypeOK, Held, NEW w \in Windows, EnterWindow(w)
  PROVE  Held'
<1>1. /\ slot[w] \in {"in", "unborn"} /\ slot' = [slot EXCEPT ![w] = "empty"]
      /\ PushFrame([op |-> "update", on |-> w]) /\ updateStack' = Append(updateStack, w)
  BY Entered
<1>2. "update" \in Calls
  BY DEF Calls
<1> QED
  BY <1>1, <1>2, HeldTaken

LEMMA UserHeld ==
  ASSUME TypeOK, Held, UserStep
  PROVE  Held'
<1>1. CASE UpdateApp
  <2> DEFINE f == [op |-> "app"]
  <2>1. f \in Frames /\ f.op \notin Holding /\ f.op # "closed"
    BY FrameFields DEF Holding
  <2>2. PushFrame(f) /\ UNCHANGED <<slot, updateStack>>
    BY <1>1 DEF UpdateApp
  <2> HIDE DEF f
  <2> QED
    BY <2>1, <2>2, HeldQuietPushed
<1>2. CASE NewEntity
  BY <1>2, HeldStays DEF NewEntity, callVars
<1>3. CASE DropFocusHandle
  BY <1>3, HeldStays DEF DropFocusHandle, callVars
<1>4. ASSUME NEW w \in Windows, UpdateWindow(w) PROVE Held'
  BY <1>4, HeldEntered DEF UpdateWindow
<1>5. ASSUME NEW w \in Windows, RemoveWindow(w) PROVE Held'
  BY <1>5, HeldStays DEF RemoveWindow, callVars
<1>6. ASSUME NEW w \in Windows, OpenWindow(w) PROVE Held'
  <2>1. /\ PushFrame([op |-> "build", on |-> w]) /\ updateStack' = Append(updateStack, w)
        /\ slot[w] \in {"in", "unborn"} /\ slot' = [slot EXCEPT ![w] = "empty"]
    BY <1>6 DEF OpenWindow
  <2>2. "build" \in Calls
    BY DEF Calls
  <2> QED
    BY <2>1, <2>2, HeldTaken
<1> QED
  BY <1>1, <1>2, <1>3, <1>4, <1>5, <1>6 DEF UserStep

LEMMA ReturnHeld ==
  ASSUME TypeOK, Held, Returns
  PROVE  Held'
<1>1. CASE AppReturns
  <2>1. stack # <<>> /\ Top.op \notin Holding /\ stack' = Pop(stack) /\ UNCHANGED <<updateStack, slot>>
    BY <1>1 DEF AppReturns, Running, LeaveCall, Holding
  <2> QED
    BY <2>1, HeldQuietPopped
<1>2. CASE BuildReturns
  <2>1. /\ stack # <<>> /\ Top.op = "build" /\ Replace([op |-> "draw", on |-> Top.on])
        /\ updateStack' = Pop(updateStack) /\ UNCHANGED slot
    BY <1>2 DEF BuildReturns, Running
  <2> QED
    BY <2>1, HeldDrawn
<1>3. CASE DrawReturns
  <2>1. /\ stack # <<>> /\ Top.op \in Holding /\ Top.op \notin Calls
        /\ stack' = Pop(stack) /\ UNCHANGED updateStack /\ slot' = [slot EXCEPT ![Top.on] = "in"]
    BY <1>3 DEF DrawReturns, Running, LeaveCall, Holding, Calls
  <2> QED
    BY <2>1, HeldPopped
<1>4. CASE UpdateReturns
  <2>1. /\ stack # <<>> /\ Top.op \in Holding /\ Top.op \in Calls
        /\ stack' = Pop(stack) /\ updateStack' = Pop(updateStack)
        /\ slot' = [slot EXCEPT ![Top.on] = "in"]
    BY <1>4 DEF UpdateReturns, Running, LeaveCall, Holding, Calls
  <2> QED
    BY <2>1, HeldPopped
<1>5. CASE CloseWindow
  <2>1. /\ stack # <<>> /\ Top.op = "update" /\ Top.op \in Holding /\ Top.op \in Calls
        /\ updateStack' = Pop(updateStack) /\ slot' = [slot EXCEPT ![Top.on] = "closed"]
    BY <1>5 DEF CloseWindow, Running, Holding, Calls
  <2>2. CASE Observing
    <3>1. stack' = Pop(stack)
      BY <1>5, <2>2 DEF CloseWindow, LeaveCall
    <3> QED
      BY <2>1, <3>1, HeldPopped
  <2>3. CASE ~Observing
    <3>1. Replace([op |-> "closed", on |-> Top.on])
      BY <1>5, <2>3 DEF CloseWindow
    <3> QED
      BY <2>1, <3>1, HeldClosed
  <2> QED
    BY <2>2, <2>3
<1>6. CASE ClosedReturns
  <2>1. stack # <<>> /\ Top.op \notin Holding /\ stack' = Pop(stack) /\ UNCHANGED <<updateStack, slot>>
    BY <1>6 DEF ClosedReturns, Running, LeaveCall, Holding
  <2> QED
    BY <2>1, HeldQuietPopped
<1> QED
  BY <1>1, <1>2, <1>3, <1>4, <1>5, <1>6 DEF Returns

LEMMA FlushHeld ==
  ASSUME TypeOK, Held, FlushStep
  PROVE  Held'
<1>1. CASE BeginRelease
  BY <1>1, HeldStays DEF BeginRelease, callVars
<1>2. ASSUME NEW w \in Windows, Visit(w) PROVE Held'
  <2>1. CASE slot[w] = "in" /\ w \in removed
    <3> DEFINE f == [op |-> "closed", on |-> w]
    <3>1. f \in Frames /\ f.op \notin Holding /\ f.on = w
      BY FrameFields DEF Holding
    <3>2. PushFrame(f) /\ UNCHANGED updateStack /\ slot' = [slot EXCEPT ![w] = "closed"]
      BY <1>2, <2>1 DEF Visit
    <3> HIDE DEF f
    <3>3. \A v \in Windows : slot'[v] = IF v = w THEN "closed" ELSE slot[v]
      BY <3>2 DEF TypeOK
    <3> QED
      BY <2>1, <3>1, <3>2, <3>3, HeldQuietPushed
  <2>2. CASE ~(slot[w] = "in" /\ w \in removed)
    BY <1>2, <2>2, HeldStays DEF Visit
  <2> QED
    BY <2>1, <2>2
<1>3. CASE EndRelease
  BY <1>3, HeldStays DEF EndRelease, callVars
<1>4. CASE ApplyDefer
  <2> DEFINE w == Head(effects).on
  <2>1. w \in Windows
    BY <1>4, EffectTaken, EffectFields DEF ApplyDefer
  <2>2. IF slot[w] = "in" THEN EnterWindow(w) ELSE UNCHANGED <<slot, callVars>>
    BY <1>4 DEF ApplyDefer
  <2> HIDE DEF w
  <2> QED
    BY <2>1, <2>2, HeldEntered, HeldStays DEF callVars
<1>5. CASE ApplyCreated
  BY <1>5, HeldStays DEF ApplyCreated, callVars
<1>6. CASE CallNewObserver
  <2>1. UpdateForCreated /\ applying \in Effects
    BY <1>6 DEF CallNewObserver, UpdateForCreated, TypeOK
  <2>2. CASE applying.on = None
    <3> DEFINE f == [op |-> "app"]
    <3>1. f \in Frames /\ f.op \notin Holding /\ f.op # "closed"
      BY FrameFields DEF Holding
    <3>2. PushFrame(f) /\ UNCHANGED <<slot, updateStack>>
      BY <2>1, <2>2 DEF UpdateForCreated
    <3> HIDE DEF f
    <3> QED
      BY <3>1, <3>2, HeldQuietPushed
  <2>3. CASE applying.on # None /\ slot[applying.on] = "in"
    <3>1. applying.on \in Windows /\ EnterWindow(applying.on)
      BY <2>1, <2>3, EffectFields DEF UpdateForCreated
    <3> QED
      BY <3>1, HeldEntered
  <2>4. CASE applying.on # None /\ slot[applying.on] # "in"
    BY <2>1, <2>4, HeldStays DEF UpdateForCreated, callVars
  <2> QED
    BY <2>2, <2>3, <2>4
<1>7. CASE CreatedDone
  BY <1>7, HeldStays DEF CreatedDone, callVars
<1>8. CASE FlushEnds
  BY <1>8, HeldStays DEF FlushEnds, callVars
<1> QED
  BY <1>1, <1>2, <1>3, <1>4, <1>5, <1>6, <1>7, <1>8 DEF FlushStep

------------------------------------------------------------------------------
(***************************************************************************)
(* Owed.  No step is taken once the App has halted, and a slot goes from   *)
(* unborn to in and empty and ends as closed.                              *)
(***************************************************************************)
LEMMA NotHalted == Next => halted = "no"
<1>1. UserStep => halted = "no"
  BY DEF UserStep, UpdateApp, NewEntity, DropFocusHandle, UpdateWindow, RemoveWindow, OpenWindow,
         UserCode, Idle
<1>2. FlushStep => halted = "no"
  BY DEF FlushStep, BeginRelease, Visit, EndRelease, ApplyDefer, ApplyCreated, CallNewObserver,
         UpdateForCreated, CreatedDone, FlushEnds, NextEffect, Flushing
<1> QED
  BY <1>1, <1>2 DEF Next

SlotSame      == UNCHANGED <<slot, removed>>
SlotTaken(w)  == /\ slot[w] \in {"in", "unborn"} /\ slot' = [slot EXCEPT ![w] = "empty"]
                 /\ UNCHANGED removed
SlotBack(w)   == /\ slot[w] = "empty" /\ slot' = [slot EXCEPT ![w] = "in"]
                 /\ UNCHANGED removed
SlotClosed(w) == /\ slot[w] \in {"in", "empty"} /\ slot' = [slot EXCEPT ![w] = "closed"]
                 /\ w \in removed /\ UNCHANGED removed

SlotStep == \/ SlotSame \/ (UNCHANGED slot /\ removed \subseteq removed')
            \/ \E w \in Windows : SlotTaken(w) \/ SlotBack(w) \/ SlotClosed(w)

LEMMA TopHeld ==
  ASSUME TypeOK, Held, stack # <<>>, Top.op \in Holding
  PROVE  Top.on \in Windows /\ Top.on \in On({Top.op}) /\ slot[Top.on] = "empty"
<1>1. Top = stack[Len(stack)] /\ Len(stack) \in DOMAIN stack /\ Top \in Frames
  BY StackFacts DEF Top
<1>2. Top.on \in Windows
  BY <1>1, FrameFields DEF Holding
<1>3. Top.on \in On({Top.op}) /\ Top.on \in On(Holding)
  BY <1>1 DEF On
<1> QED
  BY <1>2, <1>3 DEF Held, HeldIsOut

LEMMA SlotSteps ==
  ASSUME TypeOK, Held, Next
  PROVE  SlotStep
<1>1. CASE UserStep
  <2>1. CASE UpdateApp \/ NewEntity \/ DropFocusHandle
    BY <2>1 DEF UpdateApp, NewEntity, DropFocusHandle, SlotStep, SlotSame
  <2>2. ASSUME NEW w \in Windows, UpdateWindow(w) PROVE SlotStep
    BY <2>2, Entered DEF UpdateWindow, SlotStep, SlotTaken
  <2>3. ASSUME NEW w \in Windows, RemoveWindow(w) PROVE SlotStep
    BY <2>3 DEF RemoveWindow, SlotStep
  <2>4. ASSUME NEW w \in Windows, OpenWindow(w) PROVE SlotStep
    BY <2>4 DEF OpenWindow, SlotStep, SlotTaken
  <2> QED
    BY <1>1, <2>1, <2>2, <2>3, <2>4 DEF UserStep
<1>2. CASE Returns
  <2>1. CASE AppReturns \/ BuildReturns \/ ClosedReturns
    BY <2>1 DEF AppReturns, BuildReturns, ClosedReturns, SlotStep, SlotSame
  <2>2. CASE DrawReturns \/ UpdateReturns
    <3>1. stack # <<>> /\ Top.op \in Holding /\ slot' = [slot EXCEPT ![Top.on] = "in"] /\ UNCHANGED removed
      BY <2>2 DEF DrawReturns, UpdateReturns, Running, Holding
    <3> QED
      BY <3>1, TopHeld DEF SlotStep, SlotBack
  <2>3. CASE CloseWindow
    <3>1. /\ stack # <<>> /\ Top.op \in Holding /\ slot' = [slot EXCEPT ![Top.on] = "closed"]
          /\ Top.on \in removed /\ UNCHANGED removed
      BY <2>3 DEF CloseWindow, Running, Holding
    <3> QED
      BY <3>1, TopHeld DEF SlotStep, SlotClosed
  <2> QED
    BY <1>2, <2>1, <2>2, <2>3 DEF Returns
<1>3. CASE FlushStep
  <2>1. CASE BeginRelease \/ EndRelease \/ ApplyCreated \/ CreatedDone \/ FlushEnds
    BY <2>1 DEF BeginRelease, EndRelease, ApplyCreated, CreatedDone, FlushEnds, SlotStep, SlotSame
  <2>2. ASSUME NEW w \in Windows, Visit(w) PROVE SlotStep
    BY <2>2 DEF Visit, SlotStep, SlotSame, SlotClosed
  <2>3. CASE ApplyDefer
    <3>1. Head(effects).on \in Windows
      BY <2>3, EffectTaken, EffectFields DEF ApplyDefer
    <3> QED
      BY <2>3, <3>1, Entered DEF ApplyDefer, SlotStep, SlotSame, SlotTaken
  <2>4. CASE CallNewObserver
    <3>1. UpdateForCreated /\ applying \in Effects
      BY <2>4 DEF CallNewObserver, UpdateForCreated, TypeOK
    <3>2. CASE applying.on = None \/ slot[applying.on] # "in"
      BY <3>1, <3>2 DEF UpdateForCreated, SlotStep, SlotSame
    <3>3. CASE applying.on # None /\ slot[applying.on] = "in"
      <4>1. applying.on \in Windows /\ EnterWindow(applying.on) /\ UNCHANGED removed
        BY <3>1, <3>3, EffectFields DEF UpdateForCreated
      <4> QED
        BY <4>1, Entered DEF SlotStep, SlotTaken
    <3> QED
      BY <3>2, <3>3
  <2> QED
    BY <1>3, <2>1, <2>2, <2>3, <2>4 DEF FlushStep
<1> QED
  BY <1>1, <1>2, <1>3 DEF Next

LEMMA SlotGrows ==
  ASSUME TypeOK, SlotStep
  PROVE  /\ \A w \in Windows : slot[w] # "unborn" => slot'[w] # "unborn"
         /\ \A w \in Windows : slot[w] = "closed" => slot'[w] = "closed"
         /\ \A w \in Windows : slot'[w] = "closed" => slot[w] = "closed" \/ w \in removed
         /\ removed \subseteq removed'
BY DEF SlotStep, SlotSame, SlotTaken, SlotBack, SlotClosed, TypeOK

LEMMA EarlyGrows == Next => early \subseteq early'
<1>1. UserStep => early \subseteq early'
  BY DEF UserStep, UpdateApp, NewEntity, DropFocusHandle, UpdateWindow, RemoveWindow, OpenWindow, auxVars
<1>2. Returns => early \subseteq early'
  BY DEF Returns, AppReturns, BuildReturns, DrawReturns, UpdateReturns, CloseWindow, ClosedReturns, auxVars
<1>3. FlushStep => early \subseteq early'
  BY DEF FlushStep, BeginRelease, Visit, EndRelease, ApplyDefer, ApplyCreated, CallNewObserver,
         UpdateForCreated, CreatedDone, FlushEnds, auxVars
<1> QED
  BY <1>1, <1>2, <1>3 DEF Next

LEMMA NextClosedIsRemoved ==
  ASSUME TypeOK, Held, Next, ClosedIsRemoved
  PROVE  ClosedIsRemoved'
BY SlotSteps, SlotGrows DEF ClosedIsRemoved

(***************************************************************************)
(* What is owed to a removed window.                                       *)
(***************************************************************************)
Promised == DrawnDefers /\ RemovedCloses /\ RemovedIsEarly

\* Steps that take no window out of a call.
LEMMA PromisesStay ==
  ASSUME Promised, TypeOK, UNCHANGED <<removed, early>>,
         On(Calls) \subseteq On(Calls)', On({"draw"})' \subseteq On({"draw"}),
         On({"build", "draw"})' \subseteq On({"build", "draw"}),
         \A w : Deferred(w) => Deferred(w)',
         \A w \in Windows : slot'[w] = slot[w] \/ (slot[w] = "in" /\ slot'[w] = "empty")
  PROVE  Promised'
<1>1. DrawnDefers'
  BY DEF Promised, DrawnDefers
<1>2. RemovedCloses'
  <2> SUFFICES ASSUME NEW v \in removed'
               PROVE  slot'[v] = "closed" \/ v \in On(Calls)' \/ (slot'[v] # "unborn" /\ Deferred(v)')
    BY DEF RemovedCloses
  <2>1. v \in removed /\ v \in Windows
    BY DEF TypeOK
  <2>2. slot[v] = "closed" \/ v \in On(Calls) \/ (slot[v] # "unborn" /\ Deferred(v))
    BY <2>1 DEF Promised, RemovedCloses
  <2> QED
    BY <2>1, <2>2
<1>3. RemovedIsEarly'
  <2> SUFFICES ASSUME NEW v \in removed', slot'[v] = "in" \/ v \in On({"build", "draw"})'
               PROVE  v \in early'
    BY DEF RemovedIsEarly
  <2>1. v \in removed /\ v \in Windows
    BY DEF TypeOK
  <2> QED
    BY <2>1 DEF Promised, RemovedIsEarly
<1> QED
  BY <1>1, <1>2, <1>3 DEF Promised

LEMMA OnSame ==
  ASSUME UNCHANGED stack, NEW ops
  PROVE  On(ops)' = On(ops)
BY DEF On

LEMMA DeferredSame == UNCHANGED effects => \A w : Deferred(w) => Deferred(w)'
BY DEF Deferred

LEMMA SameKeepsPromises ==
  ASSUME Promised, TypeOK, UNCHANGED <<stack, slot, removed, early>>,
         \A w : Deferred(w) => Deferred(w)'
  PROVE  Promised'
<1>1. /\ On(Calls)' = On(Calls) /\ On({"draw"})' = On({"draw"})
      /\ On({"build", "draw"})' = On({"build", "draw"})
  BY OnSame
<1> QED
  BY <1>1, PromisesStay

\* A window is updated, or the App.
LEMMA PushKeepsPromises ==
  ASSUME Promised, TypeOK, UNCHANGED <<removed, early>>,
         NEW f \in Frames, f.op \in {"app", "update"}, PushFrame(f),
         \A w : Deferred(w) => Deferred(w)',
         \A w \in Windows : slot'[w] = slot[w] \/ (slot[w] = "in" /\ slot'[w] = "empty")
  PROVE  Promised'
<1>1. \A ops : On(ops)' = IF f.op \in ops THEN On(ops) \cup {f.on} ELSE On(ops)
  BY Pushed
<1>2. /\ On(Calls) \subseteq On(Calls)' /\ On({"draw"})' = On({"draw"})
      /\ On({"build", "draw"})' = On({"build", "draw"})
  BY <1>1
<1> QED
  BY <1>2, PromisesStay

LEMMA EnterKeepsPromises ==
  ASSUME Promised, TypeOK, UNCHANGED <<removed, early>>, NEW w \in Windows, EnterWindow(w),
         \A v : Deferred(v) => Deferred(v)'
  PROVE  Promised'
<1> DEFINE f == [op |-> "update", on |-> w]
<1>1. f \in Frames /\ f.op \in {"app", "update"}
  BY FrameFields
<1>2. PushFrame(f) /\ slot[w] = "in" /\ slot' = [slot EXCEPT ![w] = "empty"]
  BY Entered
<1>3. \A v \in Windows : slot'[v] = slot[v] \/ (slot[v] = "in" /\ slot'[v] = "empty")
  BY <1>2 DEF TypeOK
<1> HIDE DEF f
<1> QED
  BY <1>1, <1>2, <1>3, PushKeepsPromises

\* A call about the App, or about a closed window, is over.
LEMMA QuietPopKeepsPromises ==
  ASSUME Promised, TypeOK, Held, UNCHANGED <<slot, removed, early, effects>>, stack # <<>>,
         Top.op \notin Holding, stack' = Pop(stack)
  PROVE  Promised'
<1>1. \A ops : Top.op \notin ops => On(ops)' = On(ops)
  BY Popped DEF Held
<1>2. /\ On(Calls)' = On(Calls) /\ On({"draw"})' = On({"draw"})
      /\ On({"build", "draw"})' = On({"build", "draw"})
  BY <1>1 DEF Calls, Holding
<1> QED
  BY <1>2, DeferredSame, PromisesStay

\* A window goes back into its slot, or is closed.
LEMMA PopKeepsPromises ==
  ASSUME Promised, TypeOK, Held, UNCHANGED <<removed, early, effects>>, stack # <<>>,
         Top.op \in {"update", "draw"}, stack' = Pop(stack) \/ Replace([op |-> "closed", on |-> Top.on]),
         NEW s \in {"in", "closed"}, slot' = [slot EXCEPT ![Top.on] = s],
         Top.op = "update" /\ s = "in" => Top.on \notin removed,
         s = "closed" => Top.op = "update"
  PROVE  Promised'
<1>1. Top.on \in Windows /\ Top.on \in On({Top.op}) /\ Top.op \in Holding
  BY TopHeld DEF Holding
<1>2. \A v \in Windows : slot'[v] = IF v = Top.on THEN s ELSE slot[v]
  BY <1>1 DEF TypeOK
<1>3. /\ \A ops : Top.op \notin ops /\ "closed" \notin ops => On(ops)' = On(ops)
      /\ \A ops \in SUBSET Holding : Top.op \in ops => On(ops)' = On(ops) \ {Top.on}
  <2>1. CASE stack' = Pop(stack)
    BY <2>1, Popped DEF Held
  <2>2. CASE Replace([op |-> "closed", on |-> Top.on])
    <3> DEFINE f == [op |-> "closed", on |-> Top.on]
    <3>1. f \in Frames /\ f.op = "closed"
      BY <1>1, FrameFields
    <3>2. Replace(f)
      BY <2>2
    <3> HIDE DEF f
    <3>3. "closed" \notin Holding
      BY DEF Holding
    <3> QED
      BY <1>1, <3>1, <3>2, <3>3, Replaced DEF Held
  <2> QED
    BY <2>1, <2>2
<1>4. CASE Top.op = "update"
  <2>1. /\ On(Calls)' = On(Calls) \ {Top.on} /\ On({"draw"})' = On({"draw"})
        /\ On({"build", "draw"})' = On({"build", "draw"})
    BY <1>3, <1>4 DEF Calls, Holding
  <2>2. DrawnDefers'
    BY <2>1, DeferredSame DEF Promised, DrawnDefers
  <2>3. RemovedCloses'
    <3> SUFFICES ASSUME NEW v \in removed
                 PROVE  slot'[v] = "closed" \/ v \in On(Calls)' \/ (slot'[v] # "unborn" /\ Deferred(v)')
      BY DEF RemovedCloses
    <3>1. v \in Windows
      BY DEF TypeOK
    <3>2. slot[v] = "closed" \/ v \in On(Calls) \/ (slot[v] # "unborn" /\ Deferred(v))
      BY DEF Promised, RemovedCloses
    <3> QED
      BY <1>2, <1>4, <2>1, <3>1, <3>2, DeferredSame
  <2>4. RemovedIsEarly'
    <3> SUFFICES ASSUME NEW v \in removed, slot'[v] = "in" \/ v \in On({"build", "draw"})'
                 PROVE  v \in early
      BY DEF RemovedIsEarly
    <3>1. v \in Windows
      BY DEF TypeOK
    <3>2. v # Top.on => slot[v] = "in" \/ v \in On({"build", "draw"})
      BY <1>2, <2>1, <3>1
    <3>3. v = Top.on => v \in On({"build", "draw"})
      BY <1>2, <1>4, <2>1, <3>1
    <3> QED
      BY <3>2, <3>3 DEF Promised, RemovedIsEarly
  <2> QED
    BY <2>2, <2>3, <2>4 DEF Promised
<1>5. CASE Top.op = "draw"
  <2>1. /\ On(Calls)' = On(Calls) /\ On({"draw"})' = On({"draw"}) \ {Top.on}
        /\ On({"build", "draw"})' = On({"build", "draw"}) \ {Top.on} /\ s = "in"
    BY <1>3, <1>5 DEF Calls, Holding
  <2>2. DrawnDefers'
    BY <2>1, DeferredSame DEF Promised, DrawnDefers
  <2>3. RemovedCloses'
    <3> SUFFICES ASSUME NEW v \in removed
                 PROVE  slot'[v] = "closed" \/ v \in On(Calls)' \/ (slot'[v] # "unborn" /\ Deferred(v)')
      BY DEF RemovedCloses
    <3>1. v \in Windows
      BY DEF TypeOK
    <3>2. slot[v] = "closed" \/ v \in On(Calls) \/ (slot[v] # "unborn" /\ Deferred(v))
      BY DEF Promised, RemovedCloses
    <3>3. v = Top.on => slot[v] = "empty"
      BY <1>1, TopHeld
    <3> QED
      BY <1>2, <2>1, <3>1, <3>2, <3>3, DeferredSame
  <2>4. RemovedIsEarly'
    <3> SUFFICES ASSUME NEW v \in removed, slot'[v] = "in" \/ v \in On({"build", "draw"})'
                 PROVE  v \in early
      BY DEF RemovedIsEarly
    <3>1. v \in Windows
      BY DEF TypeOK
    <3>2. v # Top.on => slot[v] = "in" \/ v \in On({"build", "draw"})
      BY <1>2, <2>1, <3>1
    <3>3. v = Top.on => v \in On({"build", "draw"})
      BY <1>1, <1>5, OnKinds
    <3> QED
      BY <3>2, <3>3 DEF Promised, RemovedIsEarly
  <2> QED
    BY <2>2, <2>3, <2>4 DEF Promised
<1> QED
  BY <1>4, <1>5

\* A window is removed, and opened.
LEMMA RemoveKeepsPromises ==
  ASSUME Promised, TypeOK, Held, NEW w \in Windows, RemoveWindow(w)
  PROVE  Promised'
<1>1. /\ w \in On({"update", "build", "draw"}) /\ removed' = removed \cup {w}
      /\ early' = IF w \in On({"build", "draw"}) THEN early \cup {w} ELSE early
      /\ UNCHANGED <<slot, stack, effects>>
  BY DEF RemoveWindow, callVars, flushVars
<1>2. /\ On(Calls)' = On(Calls) /\ On({"draw"})' = On({"draw"})
      /\ On({"build", "draw"})' = On({"build", "draw"})
  BY <1>1, OnSame
<1>3. w \in On(Holding) /\ slot[w] = "empty"
  BY <1>1, OnKinds DEF Held, HeldIsOut
<1>4. DrawnDefers'
  BY <1>1, <1>2, DeferredSame DEF Promised, DrawnDefers
<1>5. w \in On(Calls) \/ Deferred(w)
  BY <1>3, OnKinds DEF Promised, DrawnDefers
<1>6. RemovedCloses'
  BY <1>1, <1>2, <1>3, <1>5, DeferredSame DEF Promised, RemovedCloses
<1>7. RemovedIsEarly'
  BY <1>1, <1>2, <1>3 DEF Promised, RemovedIsEarly
<1> QED
  BY <1>4, <1>6, <1>7 DEF Promised

LEMMA OpenKeepsPromises ==
  ASSUME Promised, TypeOK, Held, NEW w \in Windows, OpenWindow(w)
  PROVE  Promised'
<1> DEFINE f == [op |-> "build", on |-> w]
<1>1. /\ slot[w] = "unborn" /\ slot' = [slot EXCEPT ![w] = "empty"] /\ PushFrame(f)
      /\ UNCHANGED <<removed, early, effects>>
  BY DEF OpenWindow, flushVars, auxVars
<1>2. f \in Frames /\ f.op = "build" /\ f.on = w
  BY FrameFields
<1> HIDE DEF f
<1>3. /\ On(Calls)' = On(Calls) \cup {w} /\ On({"draw"})' = On({"draw"})
      /\ On({"build", "draw"})' = On({"build", "draw"}) \cup {w}
  BY <1>1, <1>2, Pushed DEF Calls
<1>4. w \notin On(Calls)
  BY <1>1, OnKinds DEF Held, HeldIsOut
<1>5. w \notin removed
  BY <1>1, <1>4 DEF Promised, RemovedCloses
<1>6. \A v \in Windows : slot'[v] = IF v = w THEN "empty" ELSE slot[v]
  BY <1>1 DEF TypeOK
<1>7. removed \subseteq Windows
  BY DEF TypeOK
<1>8. DrawnDefers'
  BY <1>1, <1>3, DeferredSame DEF Promised, DrawnDefers
<1>9. RemovedCloses'
  BY <1>1, <1>3, <1>6, <1>7, DeferredSame DEF Promised, RemovedCloses
<1>10. RemovedIsEarly'
  BY <1>1, <1>3, <1>5, <1>6, <1>7 DEF Promised, RemovedIsEarly
<1> QED
  BY <1>8, <1>9, <1>10 DEF Promised

\* The root view is built, and one more update of the window deferred.
LEMMA BuildKeepsPromises ==
  ASSUME Promised, TypeOK, Held, BuildReturns
  PROVE  Promised'
<1> DEFINE f == [op |-> "draw", on |-> Top.on]
           e == [op |-> "defer", on |-> Top.on]
<1>1. /\ stack # <<>> /\ Top.op = "build" /\ Replace(f) /\ effects' = Append(effects, e)
      /\ UNCHANGED <<slot, removed, early>>
  BY DEF BuildReturns, Running, auxVars
<1>2. Top.on \in Windows /\ slot[Top.on] = "empty" /\ Top.op \in Holding
  BY <1>1, TopHeld DEF Holding
<1>3. f \in Frames /\ f.op = "draw" /\ f.on = Top.on /\ e \in Effects
  BY <1>2, FrameFields, EffectFields
<1>4. PICK w \in Windows : w = Top.on
  BY <1>2
<1>5. (\A v : Deferred(v) => Deferred(v)') /\ Deferred(w)'
  BY <1>1, <1>3, <1>4, EffectAppended
<1> HIDE DEF f, e
<1>6. /\ On(Calls)' = On(Calls) \ {w} /\ On({"draw"})' = On({"draw"}) \cup {w}
      /\ On({"build", "draw"})' = (On({"build", "draw"}) \ {w}) \cup {w}
  BY <1>1, <1>2, <1>3, <1>4, Replaced DEF Held, Calls, Holding
<1>7. w \in On({"build", "draw"})
  BY <1>1, <1>2, <1>4, TopHeld, OnKinds
<1>8. DrawnDefers'
  BY <1>5, <1>6 DEF Promised, DrawnDefers
<1>9. RemovedCloses'
  BY <1>1, <1>2, <1>4, <1>5, <1>6 DEF Promised, RemovedCloses
<1>10. RemovedIsEarly'
  BY <1>1, <1>6, <1>7 DEF Promised, RemovedIsEarly
<1> QED
  BY <1>8, <1>9, <1>10 DEF Promised

\* What was deferred for a window updates it, if it is not closed.
LEMMA DeferKeepsPromises ==
  ASSUME Promised, TypeOK, Held, ApplyDefer
  PROVE  Promised'
<1> DEFINE w == Head(effects).on
<1>1. /\ stack = <<>> /\ effects # <<>> /\ effects' = Tail(effects) /\ Head(effects).op = "defer"
      /\ UNCHANGED <<removed, early>>
      /\ IF slot[w] = "in" THEN EnterWindow(w) ELSE UNCHANGED <<slot, callVars>>
  BY DEF ApplyDefer, NextEffect, Flushing, auxVars
<1>2. w \in Windows /\ Head(effects) = [op |-> "defer", on |-> w]
  BY <1>1, EffectTaken, EffectFields
<1>3. \A v : Deferred(v) => Deferred(v)' \/ v = w
  BY <1>1, <1>2, EffectTaken
<1> HIDE DEF w
<1>4. \A ops : On(ops) = {}
  BY <1>1, StackFacts DEF On
<1>5. slot[w] # "empty"
  BY <1>2, <1>4 DEF Held, HeldIsOut
<1>6. w \in removed => slot[w] # "unborn"
  BY <1>4 DEF Promised, RemovedCloses
<1>7. CASE slot[w] = "in"
  <2> DEFINE f == [op |-> "update", on |-> w]
  <2>1. PushFrame(f) /\ slot' = [slot EXCEPT ![w] = "empty"]
    BY <1>1, <1>2, <1>7, Entered
  <2>2. f \in Frames /\ f.op = "update" /\ f.on = w
    BY <1>2, FrameFields
  <2> HIDE DEF f
  <2>3. On(Calls)' = {w} /\ On({"draw"})' = {} /\ On({"build", "draw"})' = {}
    BY <1>4, <2>1, <2>2, Pushed DEF Calls
  <2>4. \A v \in Windows : slot'[v] = IF v = w THEN "empty" ELSE slot[v]
    BY <1>2, <2>1 DEF TypeOK
  <2>5. removed \subseteq Windows
    BY DEF TypeOK
  <2>6. DrawnDefers'
    BY <2>3 DEF DrawnDefers
  <2>7. RemovedCloses'
    BY <1>1, <1>3, <1>4, <2>3, <2>4, <2>5 DEF Promised, RemovedCloses
  <2>8. RemovedIsEarly'
    BY <1>1, <2>3, <2>4, <2>5 DEF Promised, RemovedIsEarly
  <2> QED
    BY <2>6, <2>7, <2>8 DEF Promised
<1>8. CASE slot[w] # "in"
  <2>1. UNCHANGED <<slot, stack>>
    BY <1>1, <1>8 DEF callVars
  <2>2. \A ops : On(ops)' = {}
    BY <1>4, <2>1, OnSame
  <2>3. w \in removed => slot[w] = "closed"
    BY <1>2, <1>5, <1>6, <1>8 DEF TypeOK
  <2>4. DrawnDefers'
    BY <2>2 DEF DrawnDefers
  <2>5. RemovedCloses'
    BY <1>1, <1>3, <1>4, <2>1, <2>3 DEF Promised, RemovedCloses
  <2>6. RemovedIsEarly'
    BY <1>1, <2>1, <2>2 DEF Promised, RemovedIsEarly
  <2> QED
    BY <2>4, <2>5, <2>6 DEF Promised
<1> QED
  BY <1>7, <1>8

LEMMA UserPromised ==
  ASSUME Promised, TypeOK, Held, UserStep
  PROVE  Promised'
<1>1. CASE UpdateApp
  <2> DEFINE f == [op |-> "app"]
  <2>1. f \in Frames /\ f.op \in {"app", "update"}
    BY FrameFields
  <2>2. PushFrame(f) /\ UNCHANGED <<slot, removed, early, effects>>
    BY <1>1 DEF UpdateApp, flushVars, auxVars
  <2> HIDE DEF f
  <2> QED
    BY <2>1, <2>2, DeferredSame, PushKeepsPromises
<1>2. CASE NewEntity
  <2> DEFINE e == [op |-> "created", on |-> Last(updateStack), left |-> NewObservers]
  <2>1. e \in Effects
    BY UpdateStackFacts, NumbersAssumption DEF Effects
  <2>2. effects' = Append(effects, e) /\ UNCHANGED <<slot, stack, removed, early>>
    BY <1>2 DEF NewEntity, callVars, auxVars
  <2> QED
    BY <2>1, <2>2, EffectAppended, SameKeepsPromises
<1>3. CASE DropFocusHandle
  BY <1>3, DeferredSame, SameKeepsPromises DEF DropFocusHandle, callVars, auxVars
<1>4. ASSUME NEW w \in Windows, UpdateWindow(w) PROVE Promised'
  BY <1>4, DeferredSame, EnterKeepsPromises DEF UpdateWindow, flushVars, auxVars
<1> QED
  BY <1>1, <1>2, <1>3, <1>4, RemoveKeepsPromises, OpenKeepsPromises DEF UserStep

LEMMA ReturnPromised ==
  ASSUME Promised, TypeOK, Held, Returns
  PROVE  Promised'
<1>1. CASE AppReturns
  <2>1. /\ UNCHANGED <<slot, removed, early, effects>> /\ stack # <<>>
        /\ Top.op \notin Holding /\ stack' = Pop(stack)
    BY <1>1 DEF AppReturns, Running, LeaveCall, Holding, auxVars
  <2> QED
    BY <2>1, QuietPopKeepsPromises
<1>2. CASE DrawReturns
  <2>1. /\ UNCHANGED <<removed, early, effects>> /\ stack # <<>> /\ Top.op = "draw"
        /\ stack' = Pop(stack) /\ slot' = [slot EXCEPT ![Top.on] = "in"]
    BY <1>2 DEF DrawReturns, Running, LeaveCall, auxVars
  <2> QED
    BY <2>1, PopKeepsPromises
<1>3. CASE UpdateReturns
  <2>1. /\ UNCHANGED <<removed, early, effects>> /\ stack # <<>> /\ Top.op = "update"
        /\ Top.on \notin removed
        /\ stack' = Pop(stack) /\ slot' = [slot EXCEPT ![Top.on] = "in"]
    BY <1>3 DEF UpdateReturns, Running, LeaveCall, auxVars
  <2> QED
    BY <2>1, PopKeepsPromises
<1>4. CASE CloseWindow
  <2>1. /\ UNCHANGED <<removed, early, effects>> /\ stack # <<>> /\ Top.op = "update"
        /\ slot' = [slot EXCEPT ![Top.on] = "closed"]
        /\ stack' = Pop(stack) \/ Replace([op |-> "closed", on |-> Top.on])
    BY <1>4 DEF CloseWindow, Running, LeaveCall
  <2> QED
    BY <2>1, PopKeepsPromises
<1>5. CASE ClosedReturns
  <2>1. /\ UNCHANGED <<slot, removed, early, effects>> /\ stack # <<>>
        /\ Top.op \notin Holding /\ stack' = Pop(stack)
    BY <1>5 DEF ClosedReturns, Running, LeaveCall, Holding, auxVars
  <2> QED
    BY <2>1, QuietPopKeepsPromises
<1> QED
  BY <1>1, <1>2, <1>3, <1>4, <1>5, BuildKeepsPromises DEF Returns

\* A window removed while it was built or drawn is closed.
LEMMA VisitKeepsPromises ==
  ASSUME Promised, TypeOK, Held, NEW w \in Windows, Visit(w)
  PROVE  Promised'
<1>1. UNCHANGED <<removed, early, effects>>
  BY DEF Visit
<1>2. CASE slot[w] = "in" /\ w \in removed
  <2> DEFINE f == [op |-> "closed", on |-> w]
  <2>1. PushFrame(f) /\ slot' = [slot EXCEPT ![w] = "closed"]
    BY <1>2 DEF Visit
  <2>2. f \in Frames /\ f.op = "closed" /\ f.on = w
    BY FrameFields
  <2> HIDE DEF f
  <2>3. /\ On(Calls)' = On(Calls) /\ On({"draw"})' = On({"draw"})
        /\ On({"build", "draw"})' = On({"build", "draw"})
    BY <2>1, <2>2, Pushed DEF Calls
  <2>4. \A v \in Windows : slot'[v] = IF v = w THEN "closed" ELSE slot[v]
    BY <2>1 DEF TypeOK
  <2>5. removed \subseteq Windows
    BY DEF TypeOK
  <2>6. DrawnDefers'
    BY <1>1, <2>3, DeferredSame DEF Promised, DrawnDefers
  <2>7. RemovedCloses'
    BY <1>1, <2>3, <2>4, <2>5, DeferredSame DEF Promised, RemovedCloses
  <2>8. RemovedIsEarly'
    BY <1>1, <2>3, <2>4, <2>5 DEF Promised, RemovedIsEarly
  <2> QED
    BY <2>6, <2>7, <2>8 DEF Promised
<1>3. CASE ~(slot[w] = "in" /\ w \in removed)
  BY <1>1, <1>3, DeferredSame, SameKeepsPromises DEF Visit
<1> QED
  BY <1>2, <1>3

LEMMA FlushPromised ==
  ASSUME Promised, TypeOK, Held, FlushStep
  PROVE  Promised'
<1>1. CASE BeginRelease
  BY <1>1, DeferredSame, SameKeepsPromises DEF BeginRelease, callVars, flushVars, auxVars
<1>2. CASE EndRelease
  BY <1>2, DeferredSame, SameKeepsPromises DEF EndRelease, callVars, flushVars, auxVars
<1>3. CASE ApplyCreated
  <2>1. /\ effects # <<>> /\ effects' = Tail(effects) /\ Head(effects).op = "created"
        /\ UNCHANGED <<stack, slot, removed, early>>
    BY <1>3 DEF ApplyCreated, callVars, auxVars
  <2>2. \A w : Deferred(w) => Deferred(w)' \/ Head(effects) = [op |-> "defer", on |-> w]
    BY <2>1, EffectTaken
  <2>3. \A w : Head(effects) # [op |-> "defer", on |-> w]
    BY <2>1
  <2> QED
    BY <2>1, <2>2, <2>3, SameKeepsPromises
<1>4. CASE CallNewObserver
  <2>1. UpdateForCreated /\ applying \in Effects /\ UNCHANGED <<removed, early, effects>>
    BY <1>4 DEF CallNewObserver, UpdateForCreated, TypeOK, auxVars
  <2>2. CASE applying.on = None
    <3> DEFINE f == [op |-> "app"]
    <3>1. f \in Frames /\ f.op \in {"app", "update"}
      BY FrameFields
    <3>2. PushFrame(f) /\ UNCHANGED slot
      BY <2>1, <2>2 DEF UpdateForCreated
    <3> HIDE DEF f
    <3> QED
      BY <2>1, <3>1, <3>2, DeferredSame, PushKeepsPromises
  <2>3. CASE applying.on # None /\ slot[applying.on] = "in"
    <3>1. applying.on \in Windows /\ EnterWindow(applying.on)
      BY <2>1, <2>3, EffectFields DEF UpdateForCreated
    <3> QED
      BY <2>1, <3>1, DeferredSame, EnterKeepsPromises
  <2>4. CASE applying.on # None /\ slot[applying.on] # "in"
    BY <2>1, <2>4, DeferredSame, SameKeepsPromises DEF UpdateForCreated, callVars
  <2> QED
    BY <2>2, <2>3, <2>4
<1>5. CASE CreatedDone
  BY <1>5, DeferredSame, SameKeepsPromises DEF CreatedDone, callVars, auxVars
<1>6. CASE FlushEnds
  BY <1>6, DeferredSame, SameKeepsPromises DEF FlushEnds, callVars, auxVars
<1> QED
  BY <1>1, <1>2, <1>3, <1>4, <1>5, <1>6, VisitKeepsPromises, DeferKeepsPromises DEF FlushStep

(***************************************************************************)
(* The effects, and the lock on the focus handles.                         *)
(***************************************************************************)
\* An entity is made in a window that is out of its slot.
LEMMA NextCreatedIsBorn ==
  ASSUME TypeOK, Held, CreatedIsBorn, Next
  PROVE  CreatedIsBorn'
<1>1. \A w \in Windows : slot[w] # "unborn" => slot'[w] # "unborn"
  BY SlotSteps, SlotGrows
<1>2. \A e \in Effects \cup {NoEffect} : Born(e) => Born(e)'
  BY <1>1, EffectFields DEF Born
<1>3. /\ applying \in Effects \cup {NoEffect}
      /\ \A i \in DOMAIN effects : effects[i] \in Effects
  BY ElementOfSeq, LenProperties DEF TypeOK
<1>4. Born(applying)' \/ applying' # applying
  BY <1>2, <1>3 DEF CreatedIsBorn, Born
<1>5. \A i \in DOMAIN effects : Born(effects[i])
  BY DEF CreatedIsBorn
<1> DEFINE KeptEffects == \A i \in DOMAIN effects' : \E j \in DOMAIN effects : effects'[i] = effects[j]
           BornEffects == \A i \in DOMAIN effects : Born(effects[i])
<1>6. ASSUME KeptEffects PROVE BornEffects'
  <2> SUFFICES ASSUME NEW i \in DOMAIN effects' PROVE Born(effects[i])'
    OBVIOUS
  <2>1. PICK e \in Effects : e = effects'[i] /\ Born(e)
    BY <1>3, <1>5, <1>6
  <2> QED
    BY <1>2, <2>1 DEF Born
<1>7. CASE UNCHANGED <<effects, applying>>
  BY <1>4, <1>6, <1>7 DEF CreatedIsBorn
<1>8. CASE NewEntity
  <2> DEFINE e == [op |-> "created", on |-> Last(updateStack), left |-> NewObservers]
  <2>1. e \in Effects
    BY UpdateStackFacts, NumbersAssumption DEF Effects
  <2>2. effects' = Append(effects, e) /\ UNCHANGED <<slot, applying>>
    BY <1>8 DEF NewEntity
  <2>3. Last(updateStack) # None => slot[Last(updateStack)] # "unborn"
    <3>1. SUFFICES ASSUME updateStack # <<>> PROVE slot[Last(updateStack)] # "unborn"
      BY DEF Last
    <3>2. PICK j \in CallsAt : stack[j].on = Last(updateStack)
      BY <3>1, UpdateStackFacts, UpdatedOnceAt DEF Held, OnceAt, Last
    <3>3. Last(updateStack) \in On(Holding) /\ Last(updateStack) \in Windows
      <4>1. Last(updateStack) \in On(Calls)
        BY <3>2 DEF CallsAt, On
      <4>2. On(Calls) \subseteq Windows
        BY OnTypes DEF Calls, Holding
      <4> QED
        BY <4>1, <4>2, OnKinds
    <3> QED
      BY <3>3 DEF Held, HeldIsOut
  <2>4. e.on = Last(updateStack)
    OBVIOUS
  <2>5. \A i \in DOMAIN effects' : effects'[i] = e \/ \E j \in DOMAIN effects : effects'[i] = effects[j]
    BY <2>1, <2>2, EffectAppended
  <2>6. e.on = None \/ slot'[e.on] # "unborn"
    BY <2>2, <2>3, <2>4
  <2> HIDE DEF e
  <2>7. BornEffects'
    <3> SUFFICES ASSUME NEW i \in DOMAIN effects' PROVE Born(effects[i])'
      OBVIOUS
    <3>1. CASE effects'[i] = e
      BY <2>6, <3>1 DEF Born
    <3>2. CASE effects'[i] # e
      <4>1. PICK j \in DOMAIN effects : effects'[i] = effects[j]
        BY <2>5, <3>2
      <4> QED
        BY <1>5, <2>2, <4>1 DEF Born
    <3> QED
      BY <3>1, <3>2
  <2> QED
    BY <1>4, <2>2, <2>7 DEF CreatedIsBorn
<1>9. CASE BuildReturns
  <2> DEFINE e == [op |-> "defer", on |-> Top.on]
  <2>1. Top.on \in Windows /\ effects' = Append(effects, e) /\ UNCHANGED <<slot, applying>>
    BY <1>9, TopHeld DEF BuildReturns, Running, Holding
  <2>2. e \in Effects /\ e.op = "defer"
    BY <2>1, EffectFields
  <2>3. \A i \in DOMAIN effects' : effects'[i] = e \/ \E j \in DOMAIN effects : effects'[i] = effects[j]
    BY <2>1, <2>2, EffectAppended
  <2> HIDE DEF e
  <2>4. BornEffects'
    <3> SUFFICES ASSUME NEW i \in DOMAIN effects' PROVE Born(effects[i])'
      OBVIOUS
    <3>1. CASE effects'[i] = e
      BY <2>2, <3>1 DEF Born
    <3>2. CASE effects'[i] # e
      <4>1. PICK j \in DOMAIN effects : effects'[i] = effects[j]
        BY <2>3, <3>2
      <4> QED
        BY <1>5, <2>1, <4>1 DEF Born
    <3> QED
      BY <3>1, <3>2
  <2> QED
    BY <1>4, <2>1, <2>4 DEF CreatedIsBorn
<1>10. CASE ApplyDefer
  <2>1. KeptEffects /\ UNCHANGED applying
    BY <1>10, EffectTaken DEF ApplyDefer
  <2> QED
    BY <1>4, <1>6, <2>1 DEF CreatedIsBorn
<1>11. CASE ApplyCreated
  <2>1. KeptEffects /\ applying' = Head(effects) /\ Head(effects).op = "created"
        /\ \E j \in DOMAIN effects : Head(effects) = effects[j]
    BY <1>11, EffectTaken DEF ApplyCreated
  <2>2. UNCHANGED slot
    BY <1>11 DEF ApplyCreated
  <2>3. Born(applying)'
    BY <1>5, <2>1, <2>2 DEF Born
  <2> QED
    BY <1>6, <2>1, <2>3 DEF CreatedIsBorn
<1>12. CASE CallNewObserver
  <2>1. /\ KeptEffects /\ applying \in Effects /\ applying.op = "created"
        /\ applying' = [applying EXCEPT !.left = @ - 1]
    BY <1>12 DEF CallNewObserver, UpdateForCreated, TypeOK, CreatedIsBorn
  <2>2. applying'.op = applying.op /\ applying'.on = applying.on
    BY <2>1 DEF Effects
  <2>3. applying.on = None \/ slot'[applying.on] # "unborn"
    BY <1>1, <2>1, EffectFields DEF CreatedIsBorn, Born
  <2>4. Born(applying)'
    BY <2>2, <2>3 DEF Born
  <2> QED
    BY <1>6, <2>1, <2>2, <2>4 DEF CreatedIsBorn
<1>13. CASE CreatedDone
  <2>1. KeptEffects /\ applying' = NoEffect
    BY <1>13 DEF CreatedDone
  <2>2. Born(applying)'
    BY <2>1, EffectFields DEF Born
  <2> QED
    BY <1>6, <2>1, <2>2 DEF CreatedIsBorn
<1> QED
  <2>1. CASE UserStep
    BY <1>7, <1>8, <2>1 DEF UserStep, UpdateApp, DropFocusHandle, UpdateWindow, RemoveWindow,
       OpenWindow, flushVars
  <2>2. CASE Returns
    BY <1>7, <1>9, <2>2 DEF Returns, AppReturns, DrawReturns, UpdateReturns, CloseWindow, ClosedReturns
  <2>3. CASE FlushStep
    BY <1>7, <1>10, <1>11, <1>12, <1>13, <2>3 DEF FlushStep, BeginRelease, Visit, EndRelease,
       FlushEnds, flushVars
  <2> QED
    BY <2>1, <2>2, <2>3 DEF Next

\* The outermost call stays, or is over.
LEMMA FirstPushed ==
  ASSUME TypeOK, NEW f \in Frames, PushFrame(f)
  PROVE  stack'[1] = IF stack = <<>> THEN f ELSE stack[1]
<1>1. CASE stack = <<>>
  BY <1>1, Pushed, StackFacts
<1>2. CASE stack # <<>>
  <2>1. 1 \in DOMAIN stack
    BY <1>2, StackFacts
  <2> QED
    BY <1>2, <2>1, Pushed
<1> QED
  BY <1>1, <1>2

LEMMA FirstReturned ==
  ASSUME TypeOK, Held, Returns, stack # <<>>
  PROVE  /\ stack' # <<>> /\ stack[1].op = "closed" => stack'[1] = stack[1]
         /\ stack' = <<>> => flushing'
<1>1. CASE LeaveCall
  <2>1. stack' = Pop(stack)
    BY <1>1 DEF LeaveCall
  <2>2. /\ stack' = <<>> <=> Len(stack) = 1
        /\ stack' # <<>> => stack'[1] = stack[1]
    BY <2>1, Popped DEF Held
  <2> QED
    BY <1>1, <2>2 DEF LeaveCall
<1>2. ASSUME NEW o \in {"draw", "closed"}, Replace([op |-> o, on |-> Top.on]), Top.op \in Holding
      PROVE  /\ stack' # <<>> /\ stack[1].op = "closed" => stack'[1] = stack[1]
             /\ stack' # <<>>
  <2> DEFINE f == [op |-> o, on |-> Top.on]
  <2>1. f \in Frames
    BY <1>2, StackFacts, FrameFields DEF Holding
  <2>2. Replace(f)
    BY <1>2
  <2> HIDE DEF f
  <2>3. /\ stack' # <<>>
        /\ \A j \in DOMAIN stack : stack'[j] = IF j = Len(stack) THEN f ELSE stack[j]
    BY <1>2, <2>1, <2>2, Replaced DEF Held
  <2>4. 1 \in DOMAIN stack /\ Top = stack[Len(stack)]
    BY StackFacts DEF Top
  <2>5. stack[1].op = "closed" => Len(stack) # 1
    BY <1>2, <2>4 DEF Holding
  <2> QED
    BY <2>3, <2>4, <2>5
<1>3. BuildReturns => /\ Replace([op |-> "draw", on |-> Top.on]) /\ Top.op \in Holding
  BY DEF BuildReturns, Running, Holding
<1>4. CloseWindow => LeaveCall \/ (Replace([op |-> "closed", on |-> Top.on]) /\ Top.op \in Holding)
  BY DEF CloseWindow, Running, Holding
<1> QED
  BY <1>1, <1>2, <1>3, <1>4 DEF Returns, AppReturns, DrawReturns, UpdateReturns, ClosedReturns

LEMMA ReturnFields ==
  ASSUME TypeOK, Returns
  PROVE  /\ stack # <<>> /\ UNCHANGED <<focusDead, writeLocked, visiting, applying, early>>
         /\ flushing => flushing'
<1>1. stack # <<>>
  BY DEF Returns, AppReturns, BuildReturns, DrawReturns, UpdateReturns, CloseWindow, ClosedReturns, Running
<1>2. UNCHANGED <<focusDead, writeLocked, visiting, applying, early>>
  BY DEF Returns, AppReturns, BuildReturns, DrawReturns, UpdateReturns, CloseWindow, ClosedReturns,
     focusVars, auxVars
<1>3. LeaveCall \/ UNCHANGED flushing
  BY DEF Returns, AppReturns, BuildReturns, DrawReturns, UpdateReturns, CloseWindow, ClosedReturns
<1>4. flushing => flushing'
  BY <1>3 DEF LeaveCall, TypeOK
<1> QED
  BY <1>1, <1>2, <1>4

\* Whoever starts a call while the lock is held is within one.
LEMMA NextLockedVisits ==
  ASSUME TypeOK, Held, Next, LockedVisits, RemovedIsEarly
  PROVE  LockedVisits'
<1>1. early \subseteq early'
  BY EarlyGrows
<1>2. CASE Returns
  <2>1. /\ stack # <<>> /\ UNCHANGED <<focusDead, writeLocked, visiting, applying, early>>
        /\ flushing => flushing'
    BY <1>2, ReturnFields
  <2>2. stack' # <<>> /\ stack[1].op = "closed" => stack'[1] = stack[1]
    BY <1>2, <2>1, FirstReturned
  <2> QED
    BY <2>1, <2>2 DEF LockedVisits
<1>3. CASE UserStep
  <2>1. Idle \/ stack # <<>>
    BY <1>3 DEF UserStep, UpdateApp, NewEntity, DropFocusHandle, UpdateWindow, RemoveWindow,
       OpenWindow, UserCode
  <2>2. writeLocked => stack # <<>>
    BY <2>1 DEF LockedVisits, Idle
  <2>3. UNCHANGED <<writeLocked, visiting, flushing, applying>> /\ (focusDead => focusDead')
    <3>1. CASE DropFocusHandle
      BY <3>1 DEF DropFocusHandle
    <3>2. CASE ~DropFocusHandle
      <4>1. UNCHANGED focusVars
        BY <1>3, <3>2 DEF UserStep, UpdateApp, NewEntity, UpdateWindow, RemoveWindow, OpenWindow
      <4>2. UNCHANGED <<flushing, applying>>
        BY <1>3, <3>2 DEF UserStep, UpdateApp, NewEntity, UpdateWindow, RemoveWindow, OpenWindow, flushVars
      <4> QED
        BY <4>1, <4>2 DEF focusVars
    <3> QED
      BY <3>1, <3>2
  <2>4. UNCHANGED stack \/ \E f \in Frames : PushFrame(f)
    BY <1>3, FrameFields DEF UserStep, UpdateApp, NewEntity, DropFocusHandle, UpdateWindow,
       RemoveWindow, OpenWindow, callVars, EnterWindow, Enter
  <2>5. stack # <<>> => stack'[1] = stack[1]
    BY <2>4, FirstPushed
  <2> QED
    BY <1>1, <2>2, <2>3, <2>5 DEF LockedVisits
<1>4. CASE FlushStep
  <2>1. stack = <<>>
    BY <1>4 DEF FlushStep, BeginRelease, Visit, EndRelease, ApplyDefer, ApplyCreated,
       CallNewObserver, UpdateForCreated, CreatedDone, FlushEnds, NextEffect, Flushing
  <2>2. CASE BeginRelease
    BY <2>1, <2>2 DEF BeginRelease, Flushing, LockedVisits, callVars, flushVars
  <2>3. ASSUME NEW w \in Windows, Visit(w) PROVE LockedVisits'
    <3>1. w \in visiting /\ writeLocked
      BY <2>3 DEF Visit, LockedVisits
    <3>2. UNCHANGED <<focusDead, writeLocked, flushing, applying, early>> /\ visiting' \subseteq visiting
      BY <2>3 DEF Visit
    <3>3. CASE slot[w] = "in" /\ w \in removed
      <4> DEFINE f == [op |-> "closed", on |-> w]
      <4>1. PushFrame(f)
        BY <2>3, <3>3 DEF Visit
      <4>2. f \in Frames /\ f.op = "closed" /\ f.on = w
        BY FrameFields
      <4> HIDE DEF f
      <4>3. stack'[1] = f
        BY <2>1, <4>1, <4>2, FirstPushed
      <4>4. w \in early
        BY <3>3 DEF RemovedIsEarly
      <4> QED
        BY <3>1, <3>2, <4>2, <4>3, <4>4 DEF LockedVisits
    <3>4. CASE ~(slot[w] = "in" /\ w \in removed)
      <4>1. UNCHANGED stack
        BY <2>3, <3>4 DEF Visit
      <4> QED
        BY <2>1, <3>1, <3>2, <4>1 DEF LockedVisits
    <3> QED
      BY <3>3, <3>4
  <2>4. CASE EndRelease
    BY <2>4 DEF EndRelease, LockedVisits
  <2>5. CASE ApplyDefer \/ ApplyCreated \/ FlushEnds
    <3>1. ~focusDead /\ UNCHANGED <<focusDead, writeLocked, visiting>>
      BY <2>5 DEF ApplyDefer, ApplyCreated, FlushEnds, NextEffect, focusVars
    <3> QED
      BY <3>1 DEF LockedVisits
  <2>6. CASE CallNewObserver \/ CreatedDone
    <3>1. applying # NoEffect /\ UNCHANGED <<focusDead, writeLocked, visiting>>
      BY <2>6 DEF CallNewObserver, UpdateForCreated, CreatedDone, focusVars
    <3> QED
      BY <3>1 DEF LockedVisits
  <2> QED
    BY <1>4, <2>2, <2>3, <2>4, <2>5, <2>6 DEF FlushStep
<1> QED
  BY <1>2, <1>3, <1>4 DEF Next

\* A window that is closed while others are yet to be visited is closed by
\* the release, which had closed one removed early.
LEMMA NextVisitedIsOpen ==
  ASSUME TypeOK, Held, Next, LockedVisits, RemovedIsEarly, VisitedIsOpen
  PROVE  VisitedIsOpen'
<1>1. /\ \A w \in Windows : slot[w] = "closed" => slot'[w] = "closed"
      /\ early \subseteq early' /\ early \subseteq Windows
  BY SlotSteps, SlotGrows, EarlyGrows DEF TypeOK
<1>2. (\E e \in early : slot[e] = "closed") => \E e \in early' : slot'[e] = "closed"
  BY <1>1
<1>3. visiting' \subseteq visiting \/ BeginRelease
  <2>1. UserStep => UNCHANGED visiting
    BY DEF UserStep, UpdateApp, NewEntity, DropFocusHandle, UpdateWindow, RemoveWindow,
       OpenWindow, focusVars
  <2>2. Returns => UNCHANGED visiting
    BY DEF Returns, AppReturns, BuildReturns, DrawReturns, UpdateReturns, CloseWindow,
       ClosedReturns, focusVars
  <2>3. FlushStep => visiting' \subseteq visiting \/ BeginRelease
    BY DEF FlushStep, Visit, EndRelease, ApplyDefer, ApplyCreated, CallNewObserver,
       UpdateForCreated, CreatedDone, FlushEnds, focusVars
  <2> QED
    BY <2>1, <2>2, <2>3 DEF Next
<1>4. CASE BeginRelease
  BY <1>4 DEF BeginRelease, VisitedIsOpen
<1>5. CASE visiting' \subseteq visiting
  <2> SUFFICES ASSUME NEW v \in visiting, v \in visiting',
                      ~ \E e \in early' : slot'[e] = "closed"
               PROVE  slot'[v] \in {"empty", "in"}
    BY <1>5 DEF VisitedIsOpen
  <2>1. slot[v] \in {"empty", "in"} /\ v \in Windows
    BY <1>2 DEF VisitedIsOpen, TypeOK
  <2>2. writeLocked
    BY DEF LockedVisits
  <2>3. SUFFICES ASSUME slot'[v] \notin {"empty", "in"} PROVE FALSE
    OBVIOUS
  <2>4. SlotClosed(v)
    BY <2>1, <2>3, SlotSteps DEF SlotStep, SlotSame, SlotTaken, SlotBack, SlotClosed, TypeOK
  <2>5. stack = <<>>
    <3> SUFFICES ASSUME stack # <<>> PROVE FALSE
      OBVIOUS
    <3>1. stack[1].op = "closed" /\ stack[1].on \in early /\ 1 \in DOMAIN stack
      BY <2>2, StackFacts DEF LockedVisits
    <3>2. slot[stack[1].on] = "closed"
      BY <3>1 DEF Held, ClosedIsClosed, On
    <3> QED
      BY <1>2, <3>1, <3>2
  <2>6. slot[v] = "in" /\ v \in removed
    <3>1. \A ops : On(ops) = {}
      BY <2>5, StackFacts DEF On
    <3> QED
      BY <2>1, <2>4, <3>1 DEF SlotClosed, Held, HeldIsOut
  <2>7. v \in early /\ slot'[v] = "closed"
    BY <2>1, <2>4, <2>6 DEF RemovedIsEarly, SlotClosed, TypeOK
  <2> QED
    BY <1>1, <2>7
<1> QED
  BY <1>3, <1>4, <1>5

\* A flush that ends has applied every effect, and no call is over without one.
LEMMA NextFlushedIsDone ==
  ASSUME TypeOK, Held, Next, FlushedIsDone
  PROVE  FlushedIsDone'
<1>1. CASE Returns
  <2>1. UNCHANGED applying /\ stack # <<>> /\ (flushing => flushing')
    BY <1>1, ReturnFields
  <2>2. stack' = <<>> => flushing'
    BY <1>1, <2>1, FirstReturned
  <2> QED
    BY <2>1, <2>2 DEF FlushedIsDone
<1>2. CASE UserStep
  <2>1. UNCHANGED <<flushing, applying>>
    BY <1>2 DEF UserStep, UpdateApp, NewEntity, DropFocusHandle, UpdateWindow, RemoveWindow,
       OpenWindow, flushVars
  <2>2. (UNCHANGED <<stack, effects>>) \/ stack' # <<>>
    <3>1. CASE NewEntity
      BY <3>1 DEF NewEntity, UserCode, callVars
    <3>2. CASE UpdateApp
      BY <3>2, FrameFields, Pushed DEF UpdateApp
    <3>3. ASSUME NEW w \in Windows, UpdateWindow(w) PROVE stack' # <<>>
      BY <3>3, Entered, FrameFields, Pushed DEF UpdateWindow
    <3>4. ASSUME NEW w \in Windows, OpenWindow(w) PROVE stack' # <<>>
      BY <3>4, FrameFields, Pushed DEF OpenWindow
    <3> QED
      BY <1>2, <3>1, <3>2, <3>3, <3>4 DEF UserStep, DropFocusHandle, RemoveWindow, callVars, flushVars
  <2> QED
    BY <2>1, <2>2 DEF FlushedIsDone
<1>3. CASE FlushStep
  BY <1>3 DEF FlushStep, BeginRelease, Visit, EndRelease, ApplyDefer, ApplyCreated,
     CallNewObserver, UpdateForCreated, CreatedDone, FlushEnds, NextEffect, Flushing,
     FlushedIsDone, flushVars
<1> QED
  BY <1>1, <1>2, <1>3 DEF Next

(***************************************************************************)
(* Quitting and halting.                                                   *)
(***************************************************************************)
LEMMA OpenWindowStays == ASSUME NEW w \in Windows, slot'[w] \in {"empty", "in"} PROVE ~NoWindows'
BY DEF NoWindows

LEMMA ObservingPushed ==
  ASSUME TypeOK, NEW f \in Frames, PushFrame(f)
  PROVE  Observing' <=> Observing \/ f.op = "closed"
<1>1. On({"closed"})' = IF f.op \in {"closed"} THEN On({"closed"}) \cup {f.on} ELSE On({"closed"})
  BY Pushed
<1> QED
  BY <1>1, ObservingNext, OnKinds

LEMMA QuitStays ==
  ASSUME TypeOK, LastQuits, quit => quit', Observing => Observing',
         UNCHANGED <<slot, removed>>
  PROVE  LastQuits'
BY DEF LastQuits, NoWindows

LEMMA NextLastQuits ==
  ASSUME TypeOK, Held, Next, LastQuits
  PROVE  LastQuits'
<1>1. ASSUME UNCHANGED <<slot, stack, removed, quit>> PROVE LastQuits'
  <2>1. Observing' <=> Observing
    BY <1>1 DEF Observing
  <2> QED
    BY <1>1, <2>1, QuitStays
<1>2. ASSUME NEW w \in Windows, EnterWindow(w) PROVE LastQuits'
  <2>1. slot'[w] = "empty"
    BY <1>2, Entered DEF TypeOK
  <2> QED
    BY <2>1, OpenWindowStays DEF LastQuits
<1>3. ASSUME PushFrame([op |-> "app"]), UNCHANGED <<slot, removed, quit>> PROVE LastQuits'
  <2>1. Observing' <=> Observing
    BY <1>3, FrameFields, ObservingPushed
  <2> QED
    BY <1>3, <2>1, QuitStays
<1>4. CASE UserStep
  <2>1. CASE UpdateApp
    BY <1>3, <2>1 DEF UpdateApp
  <2>2. CASE NewEntity \/ DropFocusHandle
    BY <1>1, <2>2 DEF NewEntity, DropFocusHandle, callVars
  <2>3. ASSUME NEW w \in Windows, RemoveWindow(w) PROVE LastQuits'
    <3>1. w \in On({"update", "build", "draw"}) /\ UNCHANGED slot
      BY <2>3 DEF RemoveWindow
    <3>2. slot'[w] = "empty"
      BY <3>1, OnKinds DEF Held, HeldIsOut
    <3> QED
      BY <3>2, OpenWindowStays DEF LastQuits
  <2>4. ASSUME NEW w \in Windows, OpenWindow(w) PROVE LastQuits'
    <3>1. slot'[w] = "empty"
      BY <2>4 DEF OpenWindow, TypeOK
    <3> QED
      BY <3>1, OpenWindowStays DEF LastQuits
  <2> QED
    BY <1>2, <1>4, <2>1, <2>2, <2>3, <2>4 DEF UserStep, UpdateWindow
<1>5. CASE Returns
  <2>1. CASE AppReturns
    <3>1. /\ stack # <<>> /\ Top.op = "app" /\ stack' = Pop(stack) /\ UNCHANGED <<slot, removed, quit>>
      BY <2>1 DEF AppReturns, Running, LeaveCall
    <3>2. On({"closed"})' = On({"closed"})
      BY <3>1, Popped DEF Held
    <3>3. Observing => Observing'
      BY <3>2, ObservingNext, OnKinds
    <3> QED
      BY <3>1, <3>3, QuitStays
  <2>2. CASE BuildReturns \/ DrawReturns \/ UpdateReturns
    <3>1. /\ stack # <<>> /\ Top.op \in Holding
          /\ UNCHANGED slot \/ slot' = [slot EXCEPT ![Top.on] = "in"]
      BY <2>2 DEF BuildReturns, DrawReturns, UpdateReturns, Running, Holding
    <3>2. PICK w \in Windows : w = Top.on
      BY <3>1, TopHeld
    <3>3. slot'[w] \in {"empty", "in"}
      BY <3>1, <3>2, TopHeld DEF TypeOK
    <3> QED
      BY <3>3, OpenWindowStays DEF LastQuits
  <2>3. CASE CloseWindow
    <3>1. CASE Observing
      BY <2>3, <3>1 DEF CloseWindow, LastQuits
    <3>2. CASE ~Observing
      <4> DEFINE f == [op |-> "closed", on |-> Top.on]
      <4>1. stack # <<>> /\ Top.op = "update" /\ Top.op \in Holding /\ Replace(f)
        BY <2>3, <3>2 DEF CloseWindow, Running, Holding
      <4>2. f \in Frames /\ f.op = "closed"
        BY <4>1, TopHeld, FrameFields
      <4> HIDE DEF f
      <4>3. On({"closed"})' = On({"closed"}) \cup {f.on}
        BY <4>1, <4>2, Replaced DEF Held
      <4> QED
        BY <4>3, ObservingNext DEF LastQuits
    <3> QED
      BY <3>1, <3>2
  <2>4. CASE ClosedReturns
    BY <2>4 DEF ClosedReturns, LastQuits, NoWindows
  <2> QED
    BY <1>5, <2>1, <2>2, <2>3, <2>4 DEF Returns
<1>6. CASE FlushStep
  <2>1. CASE BeginRelease \/ EndRelease \/ ApplyCreated \/ CreatedDone \/ FlushEnds
    BY <1>1, <2>1 DEF BeginRelease, EndRelease, ApplyCreated, CreatedDone, FlushEnds, callVars
  <2>2. ASSUME NEW w \in Windows, Visit(w) PROVE LastQuits'
    <3>1. CASE slot[w] = "in" /\ w \in removed
      <4> DEFINE f == [op |-> "closed", on |-> w]
      <4>1. PushFrame(f)
        BY <2>2, <3>1 DEF Visit
      <4>2. f \in Frames /\ f.op = "closed"
        BY FrameFields
      <4> HIDE DEF f
      <4> QED
        BY <4>1, <4>2, ObservingPushed DEF LastQuits
    <3>2. CASE ~(slot[w] = "in" /\ w \in removed)
      BY <1>1, <2>2, <3>2 DEF Visit
    <3> QED
      BY <3>1, <3>2
  <2>3. CASE ApplyDefer
    <3> DEFINE w == Head(effects).on
    <3>1. w \in Windows
      BY <2>3, EffectTaken, EffectFields DEF ApplyDefer
    <3>2. IF slot[w] = "in" THEN EnterWindow(w) ELSE UNCHANGED <<slot, callVars>>
      BY <2>3 DEF ApplyDefer
    <3>3. UNCHANGED <<removed, quit>>
      BY <2>3 DEF ApplyDefer
    <3> HIDE DEF w
    <3> QED
      BY <1>1, <1>2, <3>1, <3>2, <3>3 DEF callVars
  <2>4. CASE CallNewObserver
    <3>1. UpdateForCreated /\ applying \in Effects /\ UNCHANGED <<removed, quit>>
      BY <2>4 DEF CallNewObserver, UpdateForCreated, TypeOK
    <3>2. CASE applying.on = None
      BY <1>3, <3>1, <3>2 DEF UpdateForCreated
    <3>3. CASE applying.on # None /\ slot[applying.on] = "in"
      <4>1. applying.on \in Windows /\ EnterWindow(applying.on)
        BY <3>1, <3>3, EffectFields DEF UpdateForCreated
      <4> QED
        BY <1>2, <4>1
    <3>4. CASE applying.on # None /\ slot[applying.on] # "in"
      BY <1>1, <3>1, <3>4 DEF UpdateForCreated, callVars
    <3> QED
      BY <3>2, <3>3, <3>4
  <2> QED
    BY <1>6, <2>1, <2>2, <2>3, <2>4 DEF FlushStep
<1> QED
  BY <1>4, <1>5, <1>6 DEF Next

LEMMA NextHaltsIfRemoved ==
  ASSUME IInv, Next
  PROVE  HaltsIfRemoved'
<1> USE DEF IInv, Owed
<1>1. halted = "no"
  BY NotHalted
<1>2. ASSUME UNCHANGED halted PROVE HaltsIfRemoved'
  BY <1>1, <1>2 DEF HaltsIfRemoved
<1>3. CASE DropFocusHandle
  <2>1. CASE writeLocked
    <3>1. stack # <<>>
      BY <1>3, <2>1 DEF DropFocusHandle, UserCode, Idle, LockedVisits
    <3>2. UNCHANGED <<stack, early>> /\ halted' = "lock"
      BY <1>3, <2>1 DEF DropFocusHandle, callVars, auxVars
    <3> QED
      BY <2>1, <3>1, <3>2 DEF HaltsIfRemoved, LockedVisits
  <2>2. CASE ~writeLocked
    BY <1>2, <1>3, <2>2 DEF DropFocusHandle
  <2> QED
    BY <2>1, <2>2
<1>4. ASSUME NEW w \in Windows, Visit(w) PROVE HaltsIfRemoved'
  <2>1. CASE slot[w] = "in"
    BY <1>2, <1>4, <2>1 DEF Visit
  <2>2. CASE slot[w] # "in"
    <3>1. /\ w \in visiting /\ stack = <<>> /\ halted' = "unwrap" /\ UNCHANGED <<slot, early>>
      BY <1>4, <2>2 DEF Visit, Flushing
    <3>2. \A ops : On(ops) = {}
      BY <3>1, StackFacts DEF On
    <3>3. \E e \in early : slot[e] = "closed"
      BY <2>2, <3>1, <3>2 DEF VisitedIsOpen, Held, HeldIsOut
    <3> QED
      BY <3>1, <3>3 DEF HaltsIfRemoved
  <2> QED
    BY <2>1, <2>2
<1>5. CASE CallNewObserver
  <2>1. UpdateForCreated /\ applying \in Effects /\ applying.op = "created" /\ stack = <<>>
    BY <1>5 DEF CallNewObserver, UpdateForCreated, Flushing, TypeOK, CreatedIsBorn
  <2>2. CASE applying.on = None \/ slot[applying.on] = "in"
    BY <1>2, <2>1, <2>2 DEF UpdateForCreated
  <2>3. CASE applying.on # None /\ slot[applying.on] # "in"
    <3>1. applying.on \in Windows /\ slot[applying.on] # "unborn"
      BY <2>1, <2>3, EffectFields DEF CreatedIsBorn, Born
    <3>2. \A ops : On(ops) = {}
      BY <2>1, StackFacts DEF On
    <3>3. slot[applying.on] = "closed"
      BY <2>3, <3>1, <3>2 DEF Held, HeldIsOut, TypeOK
    <3>4. applying.on \in removed
      BY <3>1, <3>3 DEF ClosedIsRemoved
    <3>5. /\ applying' = [applying EXCEPT !.left = @ - 1] /\ halted' = "expect"
          /\ UNCHANGED <<slot, removed>>
      BY <2>1, <2>3 DEF UpdateForCreated
    <3>6. applying'.on = applying.on
      BY <2>1, <3>5 DEF Effects
    <3> QED
      BY <3>3, <3>4, <3>5, <3>6 DEF HaltsIfRemoved
  <2> QED
    BY <2>2, <2>3
<1> QED
  <2>1. UserStep => DropFocusHandle \/ UNCHANGED halted
    BY DEF UserStep, UpdateApp, NewEntity, UpdateWindow, RemoveWindow, OpenWindow, flushVars
  <2>2. Returns => UNCHANGED halted
    BY DEF Returns, AppReturns, BuildReturns, DrawReturns, UpdateReturns, CloseWindow,
       ClosedReturns, flushVars
  <2>3. FlushStep => CallNewObserver \/ (\E w \in Windows : Visit(w)) \/ UNCHANGED halted
    BY DEF FlushStep, BeginRelease, EndRelease, ApplyDefer, ApplyCreated, CreatedDone, FlushEnds, flushVars
  <2> QED
    BY <1>2, <1>3, <1>4, <1>5, <2>1, <2>2, <2>3 DEF Next

------------------------------------------------------------------------------
LEMMA InitIInv == Init => IInv
<1> SUFFICES ASSUME Init PROVE IInv
  OBVIOUS
<1>1. TypeOK
  BY InitTypeOK
<1>2. /\ DOMAIN stack = {} /\ DOMAIN effects = {} /\ DOMAIN updateStack = {}
      /\ stack = <<>> /\ effects = <<>>
  BY EmptySeq DEF Init
<1>3. \A ops : On(ops) = {}
  BY <1>2 DEF On
<1>4. Held
  <2>1. UpdatedOnce
    BY <1>2, UpdatedOnceAt DEF OnceAt, CallsAt
  <2> QED
    BY <1>2, <1>3, <2>1 DEF Init, Held, HeldOnce, HeldIsOut, ClosedIsClosed
<1>5. DrawnDefers /\ RemovedCloses /\ ClosedIsRemoved /\ RemovedIsEarly
  BY <1>3 DEF Init, DrawnDefers, RemovedCloses, ClosedIsRemoved, RemovedIsEarly
<1>6. CreatedIsBorn
  BY <1>2, EffectFields DEF Init, CreatedIsBorn, Born
<1>7. LockedVisits /\ VisitedIsOpen /\ FlushedIsDone /\ LastQuits /\ HaltsIfRemoved
  BY DEF Init, LockedVisits, VisitedIsOpen, FlushedIsDone, LastQuits, HaltsIfRemoved
<1> QED
  BY <1>1, <1>4, <1>5, <1>6, <1>7 DEF IInv, Owed

LEMMA NextIInv ==
  ASSUME IInv, Next
  PROVE  IInv'
<1>1. TypeOK /\ Held /\ Owed
  BY DEF IInv
<1>2. TypeOK'
  BY <1>1, UserTypeOK, ReturnTypeOK, FlushTypeOK DEF Next
<1>3. Held'
  BY <1>1, UserHeld, ReturnHeld, FlushHeld DEF Next
<1>4. Promised
  BY <1>1 DEF Owed, Promised
<1>5. Promised'
  BY <1>1, <1>4, UserPromised, ReturnPromised, FlushPromised DEF Next
<1>6. ClosedIsRemoved' /\ CreatedIsBorn'
  BY <1>1, NextClosedIsRemoved, NextCreatedIsBorn DEF Owed
<1>7. LockedVisits' /\ VisitedIsOpen'
  BY <1>1, NextLockedVisits, NextVisitedIsOpen DEF Owed
<1>8. FlushedIsDone' /\ LastQuits'
  BY <1>1, NextFlushedIsDone, NextLastQuits DEF Owed
<1>9. HaltsIfRemoved'
  BY NextHaltsIfRemoved
<1> QED
  BY <1>2, <1>3, <1>5, <1>6, <1>7, <1>8, <1>9 DEF IInv, Owed, Promised

\* Where nothing happens, nothing changes.
LEMMA StutterIInv ==
  ASSUME IInv, UNCHANGED vars
  PROVE  IInv'
<1>1. UNCHANGED <<slot, removed, stack, updateStack, focusDead, writeLocked, visiting, flushing,
                  effects, applying, halted, quit, fuel, told, early>>
  BY DEF vars, callVars, focusVars, flushVars, auxVars
<1>2. TypeOK'
  BY <1>1 DEF IInv, TypeOK
<1>3. Held'
  BY <1>1, HeldStays DEF IInv
<1>4. /\ \A ops : On(ops)' = On(ops) /\ \A w : Deferred(w) <=> Deferred(w)'
      /\ NoWindows' = NoWindows /\ Observing' = Observing
  BY <1>1 DEF On, Deferred, NoWindows, Observing
<1>5. Promised'
  BY <1>1, <1>4, SameKeepsPromises DEF IInv, Owed, Promised
<1>6. ClosedIsRemoved' /\ CreatedIsBorn'
  BY <1>1 DEF IInv, Owed, ClosedIsRemoved, CreatedIsBorn, Born
<1>7. LockedVisits' /\ VisitedIsOpen' /\ FlushedIsDone' /\ HaltsIfRemoved'
  BY <1>1 DEF IInv, Owed, LockedVisits, VisitedIsOpen, FlushedIsDone, HaltsIfRemoved
<1>8. LastQuits'
  BY <1>1, <1>4 DEF IInv, Owed, LastQuits
<1> QED
  BY <1>2, <1>3, <1>5, <1>6, <1>7, <1>8 DEF IInv, Owed, Promised

\* The inductive invariant holds: what update_window_id, remove_window and
\* release_dropped_focus_handles rely on, in every state of every run.
THEOREM Invariance == Spec => []IInv
<1>1. IInv /\ [Next]_vars => IInv'
  BY NextIInv, StutterIInv
<1> QED
  BY InitIInv, <1>1, PTL DEF Spec

\* update_window_id: windows are back in their slots, and off
\* window_update_stack, between the calls of a flush.
THEOREM StaysConsistent == Spec => []Consistent
<1>1. IInv => Consistent
  <2> SUFFICES ASSUME IInv PROVE Consistent
    OBVIOUS
  <2>1. TypeOK /\ UpdatedOnce
    BY DEF IInv, Held
  <2>2. ASSUME stack = <<>> PROVE updateStack = <<>> /\ \A w \in Windows : slot[w] # "empty"
    <3>1. DOMAIN stack = {}
      BY <2>1, <2>2, StackFacts
    <3>2. CallsAt = {} /\ \A ops : On(ops) = {}
      BY <3>1 DEF CallsAt, On
    <3>3. DOMAIN updateStack = {}
      BY <2>1, <3>2, UpdatedOnceAt DEF OnceAt
    <3>4. updateStack = <<>>
      BY <2>1, <3>3, UpdateStackFacts
    <3> QED
      BY <3>2, <3>4 DEF IInv, Held, HeldIsOut
  <2> QED
    BY <2>1, <2>2 DEF Consistent, WindowsBackWhenFlushing, Flushing
<1> QED
  BY Invariance, <1>1, PTL

\* Window::remove_window works whenever it is called: an idle App has no
\* removed window left open, the one removed while it was built or drawn too.
THEOREM RemovedGo == Spec => []RemovedGoesAway
<1>1. IInv => RemovedGoesAway
  <2> SUFFICES ASSUME IInv, Idle PROVE \A w \in removed : slot[w] = "closed"
    BY DEF RemovedGoesAway
  <2>1. stack = <<>> /\ effects = <<>>
    BY DEF Idle, IInv, Owed, FlushedIsDone
  <2>2. On(Calls) = {}
    BY <2>1, StackFacts DEF IInv, On
  <2>3. \A w : ~Deferred(w)
    BY <2>1, EmptySeq DEF Deferred
  <2> QED
    BY <2>2, <2>3 DEF IInv, Owed, RemovedCloses
<1> QED
  BY Invariance, <1>1, PTL

\* The three panics and deadlocks of the window calls all come from a window
\* that was removed.
THEOREM HaltsOnlyIfRemoved == Spec => []HaltsIfRemoved
BY Invariance, PTL DEF IInv, Owed

\* With a quit mode that says so the App quits once its last window is
\* closed, and never while one is open or out of its slot.
THEOREM QuitsAsAsked == Spec => QuitsWithLast
<1>1. IInv => (Idle /\ QuitOnEmpty /\ NoWindows /\ removed # {} => quit)
  <2> SUFFICES ASSUME IInv, Idle, QuitOnEmpty, NoWindows, removed # {} PROVE quit
    OBVIOUS
  <2>1. ~Observing
    BY StackFacts DEF IInv, Idle, Observing
  <2> QED
    BY <2>1 DEF IInv, Owed, LastQuits
<1>2. IInv /\ [Next]_vars => [quit' # quit => NoWindows']_vars
  <2> SUFFICES ASSUME IInv, Next, quit' # quit PROVE NoWindows'
    BY DEF vars
  <2> quit \in BOOLEAN
    BY DEF IInv, TypeOK
  <2>1. CASE UserStep
    BY <2>1 DEF UserStep, UpdateApp, NewEntity, DropFocusHandle, UpdateWindow, RemoveWindow, OpenWindow
  <2>2. CASE Returns
    <3>1. CloseWindow \/ ClosedReturns
      BY <2>2 DEF Returns, AppReturns, BuildReturns, DrawReturns, UpdateReturns
    <3>2. CASE CloseWindow
      <4>1. quit' = quit \/ quit' = (quit \/ (QuitOnEmpty /\ NoWindows'))
        BY <3>2 DEF CloseWindow
      <4> QED
        BY <4>1
    <3>3. CASE ClosedReturns
      <4>1. quit' = (quit \/ (QuitOnEmpty /\ NoWindows)) /\ UNCHANGED slot
        BY <3>3 DEF ClosedReturns
      <4>2. NoWindows' <=> NoWindows
        BY <4>1 DEF NoWindows
      <4> QED
        BY <4>1, <4>2
    <3> QED
      BY <3>1, <3>2, <3>3
  <2>3. CASE FlushStep
    BY <2>3 DEF FlushStep, BeginRelease, Visit, EndRelease, ApplyDefer, ApplyCreated,
       CallNewObserver, UpdateForCreated, CreatedDone, FlushEnds
  <2> QED
    BY <2>1, <2>2, <2>3 DEF Next
<1> QED
  BY Invariance, <1>1, <1>2, PTL DEF Spec, QuitsWithLast

\* The closing of a window is told to the observers of closed windows, unless
\* an observer of another closing is itself at work.
THEOREM ClosesObserved == Spec => ClosedIsObserved
<1> DEFINE Heard == \A w \in Windows : slot'[w] = "closed" /\ slot[w] # "closed"
              => w \in told' \/ \E c \in Windows \ {w} : slot[c] = "closed" /\ Observing
<1>1. IInv /\ [Next]_vars => [Heard]_vars
  <2> SUFFICES ASSUME IInv, Next, NEW w \in Windows, slot'[w] = "closed", slot[w] # "closed",
                      w \notin told'
               PROVE  \E c \in Windows \ {w} : slot[c] = "closed" /\ Observing
    BY DEF vars
  <2>1. TypeOK /\ Held
    BY DEF IInv
  <2>2. PICK v \in Windows : SlotTaken(v) \/ SlotBack(v) \/ SlotClosed(v)
    BY <2>1, SlotSteps DEF SlotStep, SlotSame
  <2>3. w = v /\ slot' = [slot EXCEPT ![w] = "closed"]
    BY <2>1, <2>2 DEF SlotTaken, SlotBack, SlotClosed, TypeOK
  <2>4. CASE CloseWindow
    <3>1. CASE Observing
      <4>1. PICK c : c \in On({"closed"})
        BY <3>1, OnKinds
      <4>2. c \in Windows /\ slot[c] = "closed"
        BY <2>1, <4>1, OnTypes DEF Held, ClosedIsClosed
      <4> QED
        BY <3>1, <4>2
    <3>2. CASE ~Observing
      <4>1. stack # <<>> /\ Top.op \in Holding /\ slot' = [slot EXCEPT ![Top.on] = "closed"] /\ Top.on \in told'
        BY <2>4, <3>2 DEF CloseWindow, Running, Holding
      <4>2. Top.on \in Windows
        BY <2>1, <4>1, TopHeld
      <4>3. w = Top.on
        BY <2>1, <4>1, <4>2 DEF TypeOK
      <4> QED
        BY <4>1, <4>3
    <3> QED
      BY <3>1, <3>2
  <2>5. ASSUME NEW u \in Windows, Visit(u) PROVE FALSE
    <3>1. slot' = [slot EXCEPT ![u] = "closed"] /\ u \in told'
      BY <2>5 DEF Visit
    <3>2. w = u
      BY <2>1, <3>1 DEF TypeOK
    <3> QED
      BY <3>1, <3>2
  <2>6. CASE ~CloseWindow /\ ~ \E u \in Windows : Visit(u)
    <3>1. UNCHANGED slot \/ (\E u \in Windows : EnterWindow(u) \/ OpenWindow(u)) \/ DrawReturns \/ UpdateReturns
      <4>1. UserStep => UNCHANGED slot \/ \E u \in Windows : EnterWindow(u) \/ OpenWindow(u)
        BY DEF UserStep, UpdateApp, NewEntity, DropFocusHandle, UpdateWindow, RemoveWindow
      <4>2. Returns => UNCHANGED slot \/ DrawReturns \/ UpdateReturns
        BY <2>6 DEF Returns, AppReturns, BuildReturns, ClosedReturns
      <4>3. ApplyDefer => UNCHANGED slot \/ \E u \in Windows : EnterWindow(u)
        BY <2>1, EffectTaken, EffectFields DEF ApplyDefer
      <4>4. CallNewObserver => UNCHANGED slot \/ \E u \in Windows : EnterWindow(u)
        <5> SUFFICES ASSUME CallNewObserver PROVE UNCHANGED slot \/ \E u \in Windows : EnterWindow(u)
          OBVIOUS
        <5>1. UpdateForCreated /\ applying \in Effects
          BY <2>1 DEF CallNewObserver, UpdateForCreated, TypeOK
        <5>2. CASE applying.on # None /\ slot[applying.on] = "in"
          BY <5>1, <5>2, EffectFields DEF UpdateForCreated
        <5>3. CASE ~(applying.on # None /\ slot[applying.on] = "in")
          BY <5>1, <5>3 DEF UpdateForCreated
        <5> QED
          BY <5>2, <5>3
      <4>5. FlushStep => UNCHANGED slot \/ \E u \in Windows : EnterWindow(u)
        BY <2>6, <4>3, <4>4 DEF FlushStep, BeginRelease, EndRelease, ApplyCreated, CreatedDone, FlushEnds
      <4> QED
        BY <4>1, <4>2, <4>5 DEF Next
    <3>2. CASE DrawReturns \/ UpdateReturns
      <4>1. stack # <<>> /\ Top.op \in Holding /\ slot' = [slot EXCEPT ![Top.on] = "in"]
        BY <3>2 DEF DrawReturns, UpdateReturns, Running, Holding
      <4> QED
        BY <2>1, <4>1, TopHeld DEF TypeOK
    <3>3. ASSUME NEW u \in Windows, EnterWindow(u) \/ OpenWindow(u) PROVE FALSE
      <4>1. slot' = [slot EXCEPT ![u] = "empty"]
        BY <2>1, <3>3, Entered DEF OpenWindow
      <4> QED
        BY <2>1, <4>1 DEF TypeOK
    <3> QED
      BY <3>1, <3>2, <3>3
  <2> QED
    BY <2>4, <2>5, <2>6
<1> QED
  BY Invariance, <1>1, PTL DEF Spec, ClosedIsObserved
=============================================================================
