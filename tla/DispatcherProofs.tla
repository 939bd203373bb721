-------------------------- MODULE DispatcherProofs --------------------------
(***************************************************************************)
(* Proofs about LinuxDispatcher, for any pool of workers and any number of *)
(* runnables, and whatever of them panics: no runnable waits for a worker  *)
(* that sleeps, none waits for a ping that nobody makes, the unwrap of pop *)
(* does not fail; and RunOnce is implemented: a runnable is in one place   *)
(* at a time, and leaves the last one to run, or because nobody is left to *)
(* run it.  At the end, proofs about MainThreadWake.                       *)
(***************************************************************************)
EXTENDS LinuxDispatcher, MainThreadWake, SequenceTheorems, FiniteSetTheorems, TLAPS

\* receiver_count: the receiver of the event source, and its clone while the
\* source is processed.
CountIsReceivers ==
  receivers = IF loop = "drains" THEN 2 ELSE IF loop = "dropped" THEN 0 ELSE 1

\* A worker has a runnable only while it runs it.
RunningRuns == \A w \in Workers : running[w] # None => worker[w] = "runs"

\* Only these points of the event loop run user code, so that a panic leaves
\* one receiver.
MainRuns == /\ running[Main] # None => loop = "idles"
            /\ sending[Main] # None => loop \in {"polls", "handles"} \/ running[Main] # None

\* The inductive invariant.
IInv == /\ TypeOK /\ CountIsReceivers /\ RunningRuns /\ MainRuns
        /\ SleepersAreNotNeeded /\ QueuedIsPinged /\ NoWorkerPanics

------------------------------------------------------------------------------
(***************************************************************************)
(* Queues.                                                                 *)
(***************************************************************************)
Queues(S) == [Priorities -> Seq(S)]

LEMMA ThreePriorities ==
  /\ High # Medium /\ High # Low /\ Medium # Low
  /\ High \in Priorities /\ Medium \in Priorities /\ Low \in Priorities
  /\ \A p \in Priorities : p = High \/ p = Medium \/ p = Low
BY DEF Priorities, High, Medium, Low

\* The coins of pop_inner find an element of a queue that has one, whatever
\* it holds: the last coin thrown has the whole of what is left of the mass.
LEMMA SomeCoinComesUp ==
  ASSUME NEW q, ~IsEmpty(q)
  PROVE  ~MayPopNothing(q)
<1> SUFFICES ASSUME MayPopNothing(q) PROVE FALSE
  OBVIOUS
<1>1. Weight(High) = 60 /\ Weight(Medium) = 30 /\ Weight(Low) = 10
  BY ThreePriorities DEF Weight
<1>2. \A p \in Priorities : q[p] = <<>> \/ Weight(p) < MassAt(q, p)
  BY DEF MayPopNothing, PassedOver
<1>3. q[Low] = <<>>
  <2> SUFFICES ASSUME q[Low] # <<>> PROVE FALSE
    OBVIOUS
  <2>1. Weight(Low) < MassAt(q, Low)
    BY <1>2, ThreePriorities
  <2>2. MassAt(q, Low) = Held(q, Low)
    BY <1>1, ThreePriorities DEF MassAt, FullMass, Held
  <2>3. Held(q, Low) = Weight(Low)
    BY DEF Held
  <2> QED
    BY <1>1, <2>1, <2>2, <2>3
<1>4. q[Medium] = <<>>
  <2> SUFFICES ASSUME q[Medium] # <<>> PROVE FALSE
    OBVIOUS
  <2>1. Weight(Medium) < MassAt(q, Medium)
    BY <1>2, ThreePriorities
  <2>2. MassAt(q, Medium) = Weight(Medium)
    BY <1>1, <1>3, ThreePriorities DEF MassAt, FullMass, Held
  <2> QED
    BY <1>1, <2>1, <2>2
<1>5. q[High] = <<>>
  <2> SUFFICES ASSUME q[High] # <<>> PROVE FALSE
    OBVIOUS
  <2>1. Weight(High) < MassAt(q, High)
    BY <1>2, ThreePriorities
  <2>2. MassAt(q, High) = Weight(High)
    BY <1>1, <1>3, <1>4, ThreePriorities DEF MassAt, FullMass, Held
  <2> QED
    BY <1>1, <2>1, <2>2
<1> QED
  BY <1>3, <1>4, <1>5, ThreePriorities DEF IsEmpty

LEMMA LengthIsNat ==
  ASSUME NEW S, NEW q \in Queues(S), NEW p \in Priorities
  PROVE  Length(q, p) \in Nat /\ (q[p] = <<>> => Length(q, p) = 0)
<1>1. q[p] \in Seq(S)
  BY DEF Queues
<1> QED
  BY <1>1, LenProperties, EmptySeq DEF Length

LEMMA SizeIsNat ==
  ASSUME NEW S, NEW q \in Queues(S)
  PROVE  Size(q) \in Nat /\ (IsEmpty(q) => Size(q) = 0)
BY LengthIsNat, ThreePriorities DEF Size, IsEmpty

\* Replacing one FIFO by one that is longer or shorter by k.
LEMMA Resized ==
  ASSUME NEW S, NEW q \in Queues(S), NEW p \in Priorities,
         NEW s \in Seq(S), NEW k \in Int, Len(s) = Length(q, p) + k
  PROVE  [q EXCEPT ![p] = s] \in Queues(S) /\ Size([q EXCEPT ![p] = s]) = Size(q) + k
<1> DEFINE r == [q EXCEPT ![p] = s]
<1>1. r \in Queues(S)
  BY DEF Queues
<1>2. \A x \in Priorities : r[x] = IF x = p THEN s ELSE q[x]
  BY DEF Queues
<1> HIDE DEF r
<1>3. \A x \in Priorities :
        Length(r, x) = IF x = p THEN Length(q, x) + k ELSE Length(q, x)
  <2> SUFFICES ASSUME NEW x \in Priorities
               PROVE  Length(r, x) = IF x = p THEN Length(q, x) + k ELSE Length(q, x)
    OBVIOUS
  <2>1. CASE x = p
    BY <2>1, <1>2 DEF Length
  <2>2. CASE x # p
    BY <2>2, <1>2 DEF Length
  <2> QED
    BY <2>1, <2>2
<1>4. \A x \in Priorities : Length(q, x) \in Nat
  BY LengthIsNat
<1>5. Size(r) = Size(q) + k
  <2>1. CASE p = High
    BY <2>1, <1>3, <1>4, ThreePriorities DEF Size
  <2>2. CASE p = Medium
    BY <2>2, <1>3, <1>4, ThreePriorities DEF Size
  <2>3. CASE p = Low
    BY <2>3, <1>3, <1>4, ThreePriorities DEF Size
  <2> QED
    BY ThreePriorities, <2>1, <2>2, <2>3
<1> QED
  BY <1>1, <1>5 DEF r

LEMMA Pushing ==
  ASSUME NEW S, NEW q \in Queues(S), NEW p \in Priorities, NEW x \in S
  PROVE  Push(q, p, x) \in Queues(S) /\ Size(Push(q, p, x)) = Size(q) + 1
<1>1. q[p] \in Seq(S)
  BY DEF Queues
<1>2. Append(q[p], x) \in Seq(S) /\ Len(Append(q[p], x)) = Length(q, p) + 1
  BY <1>1, AppendProperties DEF Length
<1>3. Push(q, p, x) = [q EXCEPT ![p] = Append(q[p], x)]
  BY DEF Push
<1> DEFINE s == Append(q[p], x)
<1>4. s \in Seq(S) /\ Len(s) = Length(q, p) + 1
  BY <1>2
<1> HIDE DEF s
<1>5. [q EXCEPT ![p] = s] \in Queues(S) /\ Size([q EXCEPT ![p] = s]) = Size(q) + 1
  BY <1>4, Resized
<1> QED
  BY <1>3, <1>5 DEF s

LEMMA Popping ==
  ASSUME NEW S, NEW q \in Queues(S), NEW p \in Priorities, q[p] # <<>>
  PROVE  /\ PopFront(q, p) \in Queues(S)
         /\ Size(PopFront(q, p)) = Size(q) - 1
         /\ Head(q[p]) \in S
<1>1. q[p] \in Seq(S) /\ Len(q[p]) \in Nat
  BY LenProperties DEF Queues
<1>2. /\ Tail(q[p]) \in Seq(S) /\ Len(Tail(q[p])) = Length(q, p) + -1
      /\ Head(q[p]) \in S
  BY <1>1, HeadTailProperties DEF Length
<1>3. PopFront(q, p) = [q EXCEPT ![p] = Tail(q[p])]
  BY DEF PopFront
<1> DEFINE s == Tail(q[p])
<1>4. s \in Seq(S) /\ Len(s) = Length(q, p) + -1
  BY <1>2
<1> HIDE DEF s
<1>5. [q EXCEPT ![p] = s] \in Queues(S) /\ Size([q EXCEPT ![p] = s]) = Size(q) + -1
  BY <1>4, Resized
<1>6. PopFront(q, p) \in Queues(S) /\ Size(PopFront(q, p)) = Size(q) + -1
  BY <1>3, <1>5 DEF s
<1> QED
  BY <1>2, <1>6, SizeIsNat

------------------------------------------------------------------------------
(***************************************************************************)
(* Types.                                                                  *)
(***************************************************************************)
LEMMA PoolIsQueues ==
  ASSUME TypeOK
  PROVE  pool \in Queues(PoolJobs) /\ main \in Queues(MainJobs)
BY DEF TypeOK, Queues

LEMMA SenderTypes ==
  ASSUME TypeOK, NEW t \in Threads, sending[t] # None
  PROVE  /\ sending[t] \in Dispatches
         /\ sending[t].job \in PoolJobs \cup MainJobs
BY DEF TypeOK, Dispatches

\* A step of a dispatch: its record changes, or goes.
LEMMA SendingSteps ==
  ASSUME TypeOK, NEW t \in Threads
  PROVE  /\ [sending EXCEPT ![t] = None] \in [Threads -> Dispatches \cup {None}]
         /\ \A j \in Jobs \ TimerJobs :
              [sending EXCEPT ![t] = [job |-> j, at |-> "count"]]
                \in [Threads -> Dispatches \cup {None}]
         /\ sending[t] # None => \A a \in {"push", "ping"} :
              [sending EXCEPT ![t].at = a] \in [Threads -> Dispatches \cup {None}]
<1>1. [sending EXCEPT ![t] = None] \in [Threads -> Dispatches \cup {None}]
  BY DEF TypeOK
<1>2. \A j \in Jobs \ TimerJobs : [job |-> j, at |-> "count"] \in Dispatches
  BY DEF Dispatches, Jobs
<1>3. ASSUME sending[t] # None, NEW a \in {"push", "ping"}
      PROVE  [sending EXCEPT ![t].at = a] \in [Threads -> Dispatches \cup {None}]
  <2>1. [sending[t] EXCEPT !.at = a] \in Dispatches
    BY <1>3, SenderTypes DEF Dispatches
  <2>2. [sending EXCEPT ![t].at = a] = [sending EXCEPT ![t] = [sending[t] EXCEPT !.at = a]]
    BY DEF TypeOK
  <2> QED
    BY <2>1, <2>2 DEF TypeOK
<1> QED
  BY <1>1, <1>2, <1>3 DEF TypeOK

\* What a panic in t changes.
LEMMA Unwinding ==
  ASSUME TypeOK, NEW t \in Threads, NEW jobs \in SUBSET Jobs, Unwind(t, jobs)
  PROVE  /\ running' \in [Threads -> Jobs \cup {None}]
         /\ fallen' \subseteq Threads /\ done' \subseteq Jobs
         /\ worker' \in [Workers -> {"recv", "asleep", "woken", "runs", "panicked"}]
         /\ loop' \in {"polls", "drains", "handles", "idles", "ended", "dropped"}
         /\ UNCHANGED <<pool, main, receivers, pinged, drained, idles, stopped, timers, fresh>>
<1> USE DEF mainVars
<1>1. running' \in [Threads -> Jobs \cup {None}] /\ fallen' \subseteq Threads
  BY DEF TypeOK, Unwind
<1>2. done' \subseteq Jobs
  <2>1. running[t] \in Jobs \cup {None}
    BY DEF TypeOK
  <2> QED
    BY <2>1 DEF TypeOK, Unwind
<1>3. worker' \in [Workers -> {"recv", "asleep", "woken", "runs", "panicked"}]
  BY DEF TypeOK, Unwind
<1>4. loop' \in {"polls", "drains", "handles", "idles", "ended", "dropped"}
  BY DEF TypeOK, Unwind
<1> QED
  BY <1>1, <1>2, <1>3, <1>4 DEF Unwind

\* A dispatch that panics is about a job, and finds every worker unwound.
LEMMA PoolIsGone ==
  ASSUME TypeOK, NEW t \in Threads, DispatchPanics(t)
  PROVE  /\ sending[t].job \in Jobs /\ sending[t] # None
         /\ Unwind(t, {sending[t].job})
         /\ sending' = [sending EXCEPT ![t] = None]
         /\ \A w \in Workers : worker[w] = "panicked"
<1>1. /\ sending[t] # None /\ sending[t].job \in PoolJobs
      /\ Receivers(sending[t].job) = 0
      /\ Unwind(t, {sending[t].job})
      /\ sending' = [sending EXCEPT ![t] = None]
  BY DEF DispatchPanics, At
<1> DEFINE alive == {w \in Workers : worker[w] # "panicked"}
<1>2. Cardinality(alive) = 0
  BY <1>1, JobsAssumption DEF Receivers
<1>3. IsFiniteSet(alive)
  BY ThreadsAssumption, FS_Subset
<1>4. alive = {}
  BY <1>2, <1>3, FS_EmptySet
<1> QED
  BY <1>1, <1>4 DEF Jobs

LEMMA TypeStep ==
  ASSUME IInv, Next
  PROVE  TypeOK'
<1> USE DEF poolVars, mainVars, loopVars, auxVars
<1>0. TypeOK
  BY DEF IInv
<1>1. ASSUME NEW t \in Threads, NEW j \in Jobs, Dispatch(t, j)
      PROVE  TypeOK'
  BY <1>0, <1>1, SendingSteps DEF TypeOK, Dispatch
<1>2. ASSUME NEW t \in Threads, NEW j \in Jobs, DispatchAfter(t, j)
      PROVE  TypeOK'
  BY <1>0, <1>2 DEF TypeOK, DispatchAfter
<1>3. ASSUME NEW t \in Threads, CountReceivers(t)
      PROVE  TypeOK'
  <2>1. sending' \in [Threads -> Dispatches \cup {None}]
    BY <1>0, <1>3, SendingSteps DEF CountReceivers, At
  <2>2. done' \subseteq Jobs
    BY <1>0, <1>3, SenderTypes DEF TypeOK, CountReceivers, At, Jobs
  <2> QED
    BY <1>0, <1>3, <2>1, <2>2 DEF TypeOK, CountReceivers
<1>21. ASSUME NEW t \in Threads, RunnablePanics(t)
       PROVE  TypeOK'
  <2>1. Unwind(t, {}) /\ sending' = sending
    BY <1>21 DEF RunnablePanics
  <2> QED
    BY <1>0, <2>1, Unwinding DEF TypeOK
<1>22. ASSUME NEW t \in Threads, DispatchPanics(t)
       PROVE  TypeOK'
  <2>1. Unwind(t, {sending[t].job}) /\ {sending[t].job} \in SUBSET Jobs
    BY <1>0, <1>22, PoolIsGone
  <2>2. sending' \in [Threads -> Dispatches \cup {None}]
    BY <1>0, <1>22, PoolIsGone, SendingSteps
  <2> QED
    BY <1>0, <2>1, <2>2, Unwinding DEF TypeOK
<1>4. ASSUME NEW t \in Threads, SendPool(t)
      PROVE  TypeOK'
  <2>1. sending' \in [Threads -> Dispatches \cup {None}]
    BY <1>0, <1>4, SendingSteps DEF SendPool, PushPool, At
  <2>2. pool' \in Queues(PoolJobs)
    BY <1>0, <1>4, PoolIsQueues, Pushing, JobsAssumption DEF SendPool, PushPool
  <2>3. worker' \in [Workers -> {"recv", "asleep", "woken", "runs", "panicked"}]
    BY <1>0, <1>4 DEF TypeOK, SendPool, NotifyOne, Asleep
  <2> QED
    BY <1>0, <1>4, <2>1, <2>2, <2>3 DEF TypeOK, SendPool, PushPool, Queues
<1>5. ASSUME NEW t \in Threads, SendMain(t)
      PROVE  TypeOK'
  <2>1. sending' \in [Threads -> Dispatches \cup {None}]
    BY <1>0, <1>5, SendingSteps DEF SendMain, At
  <2>2. main' \in Queues(MainJobs)
    BY <1>0, <1>5, PoolIsQueues, Pushing, ThreePriorities DEF SendMain
  <2> QED
    BY <1>0, <1>5, <2>1, <2>2 DEF TypeOK, SendMain, Queues
<1>6. ASSUME NEW t \in Threads, Ping(t)
      PROVE  TypeOK'
  <2>1. sending' \in [Threads -> Dispatches \cup {None}]
    BY <1>0, <1>6, SendingSteps DEF Ping, At
  <2> QED
    BY <1>0, <1>6, <2>1 DEF TypeOK, Ping
<1>7. ASSUME NEW w \in Workers, Sleep(w)
      PROVE  TypeOK'
  BY <1>0, <1>7 DEF TypeOK, Sleep, WaitForNotify
<1>8. ASSUME NEW w \in Workers, Pop(w)
      PROVE  TypeOK'
  <2>1. ~MayPopNothing(pool)
    BY <1>8, SomeCoinComesUp DEF Pop, PopFrom
  <2>2. PICK p \in Priorities : PopFrom(w, p) /\ pool' = PopFront(pool, p) /\ MayPop(pool, p)
    BY <1>8, <2>1 DEF Pop, PopFrom
  <2>3. pool' \in Queues(PoolJobs) /\ Head(pool[p]) \in PoolJobs
    BY <1>0, <2>2, PoolIsQueues, Popping DEF MayPop
  <2>4. running' \in [Threads -> Jobs \cup {None}]
    BY <1>0, <2>1, <2>2, <2>3 DEF PopFrom, TypeOK, Jobs
  <2>5. worker' \in [Workers -> {"recv", "asleep", "woken", "runs", "panicked"}]
    BY <1>0, <2>1, <2>2 DEF PopFrom, TypeOK
  <2> QED
    BY <1>0, <2>2, <2>3, <2>4, <2>5 DEF TypeOK, PopFrom, Queues
<1>9. ASSUME NEW t \in Threads, Finish(t)
      PROVE  /\ running' \in [Threads -> Jobs \cup {None}]
             /\ done' \subseteq Jobs
             /\ UNCHANGED <<sending, fresh>>
  BY <1>0, <1>9 DEF TypeOK, Finish
<1>10. ASSUME NEW w \in Workers, WorkerReturns(w)
       PROVE  TypeOK'
  BY <1>0, <1>9, <1>10 DEF TypeOK, WorkerReturns, Threads
<1>11. CASE IdleReturns
  BY <1>0, <1>9, <1>11 DEF TypeOK, IdleReturns, Threads
<1>12. CASE TimerReturns
  <2>1. Finish(Timer)
    BY <1>12 DEF TimerReturns
  <2> QED
    BY <1>0, <1>9, <1>12, <2>1 DEF TypeOK, TimerReturns, Threads
<1>13. CASE ReadPing
  <2>1. receivers = 1
    BY <1>13 DEF ReadPing, IInv, CountIsReceivers
  <2>2. receivers' \in 0 .. 2
    BY <1>13, <2>1 DEF ReadPing
  <2> QED
    BY <1>0, <1>13, <2>2 DEF TypeOK, ReadPing
<1>14. CASE Take
  <2>1. PICK p \in Priorities : /\ MayPop(main, p)
                                /\ main' = PopFront(main, p)
                                /\ idles' = Append(idles, Head(main[p]))
    BY <1>14 DEF Take
  <2>2. main' \in Queues(MainJobs) /\ Head(main[p]) \in MainJobs
    BY <1>0, <2>1, PoolIsQueues, Popping DEF MayPop
  <2>3. idles' \in Seq(MainJobs)
    BY <1>0, <2>1, <2>2, AppendProperties DEF TypeOK
  <2> QED
    BY <1>0, <1>14, <2>2, <2>3 DEF TypeOK, Take, Queues
<1>15. CASE DrainEnds
  BY <1>0, <1>15 DEF TypeOK, DrainEnds, StopDraining, IInv, CountIsReceivers
<1>16. CASE Idle
  <2>1. Head(idles) \in MainJobs /\ Tail(idles) \in Seq(MainJobs)
    BY <1>0, <1>16, HeadTailProperties DEF TypeOK, Idle
  <2> QED
    BY <1>0, <1>16, <2>1 DEF TypeOK, Idle, Jobs
<1>17. CASE HandlersEnd \/ Iterate
  BY <1>0, <1>17 DEF TypeOK, HandlersEnd, Iterate
<1>18. CASE DropReceiver
  BY <1>0, <1>18 DEF TypeOK, DropReceiver, IInv, CountIsReceivers
<1>19. CASE Stop
  BY <1>0, <1>19 DEF TypeOK, Stop
<1>20. ASSUME NEW j \in TimerJobs, Fire(j)
       PROVE  TypeOK'
  BY <1>0, <1>20 DEF TypeOK, Fire, Jobs
<1> QED
  BY <1>1, <1>2, <1>3, <1>4, <1>5, <1>6, <1>7, <1>8, <1>10, <1>11, <1>12, <1>13,
     <1>14, <1>15, <1>16, <1>17, <1>18, <1>19, <1>20, <1>21, <1>22
     DEF Next, Send, Work, RunLoop, RunTimer

------------------------------------------------------------------------------
(***************************************************************************)
(* The counts of receivers and what workers run.                           *)
(***************************************************************************)
LEMMA CountStep ==
  ASSUME IInv, Next
  PROVE  CountIsReceivers'
<1> USE DEF poolVars, mainVars, loopVars, auxVars, IInv, CountIsReceivers
<1>1. CASE ReadPing
  BY <1>1 DEF ReadPing
<1>2. CASE Take
  BY <1>2 DEF Take
<1>3. CASE DrainEnds
  BY <1>3 DEF DrainEnds, StopDraining
<1>4. CASE HandlersEnd \/ Iterate
  BY <1>4 DEF HandlersEnd, Iterate
<1>5. CASE DropReceiver
  BY <1>5 DEF DropReceiver
<1>6. CASE UNCHANGED <<receivers, loop>>
  BY <1>6
<1>7. ASSUME NEW t \in Threads, NEW jobs, Unwind(t, jobs),
             t = Main => loop \in {"polls", "handles", "idles"}
      PROVE  CountIsReceivers'
  BY <1>7 DEF Unwind
<1>8. ASSUME NEW t \in Threads, RunnablePanics(t)
      PROVE  CountIsReceivers'
  <2>1. Unwind(t, {}) /\ (t = Main => loop = "idles")
    BY <1>8, JobsAssumption DEF RunnablePanics, MainRuns
  <2> QED
    BY <1>7, <2>1
<1>9. ASSUME NEW t \in Threads, DispatchPanics(t)
      PROVE  CountIsReceivers'
  <2>1. Unwind(t, {sending[t].job}) /\ sending[t] # None
    BY <1>9, PoolIsGone
  <2>2. t = Main => loop \in {"polls", "handles", "idles"}
    BY <2>1 DEF MainRuns
  <2> QED
    BY <1>7, <2>1, <2>2
<1> QED
  BY <1>1, <1>2, <1>3, <1>4, <1>5, <1>6, <1>8, <1>9
     DEF Next, Send, Work, RunLoop, RunTimer, Dispatch, DispatchAfter, CountReceivers,
         SendPool, PushPool, SendMain, Ping, Sleep, WaitForNotify, Pop, PopFrom, WorkerReturns, Idle,
         IdleReturns, TimerReturns, Fire, Stop

LEMMA MainRunsStep ==
  ASSUME IInv, Next
  PROVE  MainRuns'
<1> USE DEF poolVars, mainVars, loopVars, auxVars
<1>0. TypeOK /\ MainRuns /\ Main \in Threads /\ Timer # Main /\ Main \notin Workers
  BY ThreadsAssumption DEF IInv, Threads
<1>1. ASSUME NEW t \in Threads, NEW jobs, Unwind(t, jobs),
             sending' = sending \/ sending' = [sending EXCEPT ![t] = None],
             t = Main => sending'[Main] = None
      PROVE  MainRuns'
  <2>1. CASE t = Main
    <3>1. running'[Main] = None
      BY <1>0, <1>1, <2>1 DEF Unwind, TypeOK
    <3> QED
      BY <1>1, <2>1, <3>1 DEF MainRuns
  <2>2. CASE t # Main
    <3>1. UNCHANGED <<running[Main], sending[Main], loop>>
      BY <1>0, <1>1, <2>2 DEF Unwind, TypeOK
    <3> QED
      BY <1>0, <3>1 DEF MainRuns
  <2> QED
    BY <2>1, <2>2
<1>2. ASSUME NEW t \in Threads, RunnablePanics(t)
      PROVE  MainRuns'
  BY <1>1, <1>2 DEF RunnablePanics
<1>3. ASSUME NEW t \in Threads, DispatchPanics(t)
      PROVE  MainRuns'
  <2>1. Unwind(t, {sending[t].job}) /\ sending' = [sending EXCEPT ![t] = None]
    BY <1>0, <1>3, PoolIsGone
  <2>2. sending'[t] = None
    BY <1>0, <2>1 DEF TypeOK
  <2> QED
    BY <1>1, <2>1, <2>2
<1>4. ASSUME NEW t \in Threads, NEW j \in Jobs, Dispatch(t, j)
      PROVE  MainRuns'
  <2>1. CASE t = Main
    BY <1>0, <1>4, <2>1 DEF Dispatch, UserCode, MainRuns
  <2>2. CASE t # Main
    BY <1>0, <1>4, <2>2 DEF Dispatch, MainRuns, TypeOK
  <2> QED
    BY <2>1, <2>2
<1>5. ASSUME UNCHANGED <<running[Main], loop>>, sending'[Main] # None => sending[Main] # None
      PROVE  MainRuns'
  BY <1>0, <1>5 DEF MainRuns
<1>6. ASSUME NEW t \in Threads, CountReceivers(t) \/ SendPool(t) \/ SendMain(t) \/ Ping(t)
      PROVE  MainRuns'
  <2>1. UNCHANGED <<running, loop>> /\ sending[t] # None
    BY <1>6 DEF CountReceivers, SendPool, PushPool, SendMain, Ping, At
  <2>2. \E x : sending' = [sending EXCEPT ![t] = x]
    BY <1>6 DEF CountReceivers, SendPool, PushPool, SendMain, Ping
  <2>3. sending'[Main] # None => sending[Main] # None
    BY <1>0, <2>1, <2>2 DEF TypeOK
  <2> QED
    BY <1>5, <2>1, <2>3
<1>7. ASSUME NEW w \in Workers, Sleep(w) \/ Pop(w) \/ WorkerReturns(w)
      PROVE  MainRuns'
  <2>1. UNCHANGED <<sending, loop>>
    BY <1>7 DEF Sleep, WaitForNotify, Pop, PopFrom, WorkerReturns, Finish
  <2>2. running' = running \/ \E x : running' = [running EXCEPT ![w] = x]
    BY <1>7 DEF Sleep, WaitForNotify, Pop, PopFrom, WorkerReturns, Finish
  <2>3. running'[Main] = running[Main]
    BY <1>0, <2>2 DEF TypeOK
  <2> QED
    BY <1>5, <2>1, <2>3
<1>8. CASE TimerReturns \/ \E j \in TimerJobs : Fire(j)
  <2>1. UNCHANGED <<sending, loop>>
    BY <1>8 DEF TimerReturns, Fire, Finish
  <2>2. \E x : running' = [running EXCEPT ![Timer] = x]
    BY <1>8 DEF TimerReturns, Fire, Finish
  <2>3. running'[Main] = running[Main]
    BY <1>0, <2>2 DEF TypeOK
  <2> QED
    BY <1>5, <2>1, <2>3
<1>9. CASE ReadPing \/ Take \/ HandlersEnd \/ Iterate \/ DropReceiver
  BY <1>0, <1>9 DEF ReadPing, Take, HandlersEnd, Iterate, DropReceiver, MainRuns
<1>10. CASE DrainEnds
  BY <1>0, <1>10 DEF DrainEnds, StopDraining, MainRuns
<1>11. CASE Idle
  BY <1>0, <1>11 DEF Idle, MainRuns
<1>12. CASE IdleReturns
  BY <1>0, <1>12 DEF IdleReturns, Finish, MainRuns, TypeOK
<1>13. CASE Stop \/ \E t \in Threads, j \in Jobs : DispatchAfter(t, j)
  BY <1>5, <1>13 DEF Stop, DispatchAfter
<1> QED
  BY <1>2, <1>3, <1>4, <1>6, <1>7, <1>8, <1>9, <1>10, <1>11, <1>12, <1>13
     DEF Next, Send, Work, RunLoop, RunTimer

\* The steps of the pool; every other step leaves it alone.
LEMMA PoolSteps ==
  ASSUME TypeOK, Next
  PROVE  \/ \E t \in Threads : SendPool(t) \/ RunnablePanics(t) \/ DispatchPanics(t)
         \/ \E w \in Workers : Sleep(w) \/ Pop(w) \/ WorkerReturns(w)
         \/ /\ UNCHANGED <<pool, worker>>
            /\ \A w \in Workers : running'[w] = running[w]
<1> USE DEF poolVars, mainVars, loopVars, auxVars
<1>1. CASE \E t \in Threads : CountReceivers(t) \/ SendMain(t) \/ Ping(t)
  BY <1>1 DEF CountReceivers, SendMain, Ping
<1>2. CASE \E t \in Threads, j \in Jobs : Dispatch(t, j) \/ DispatchAfter(t, j)
  BY <1>2 DEF Dispatch, DispatchAfter
<1>3. CASE Stop \/ ReadPing \/ Take \/ DrainEnds \/ HandlersEnd \/ Iterate \/ DropReceiver
  BY <1>3 DEF Stop, ReadPing, Take, DrainEnds, StopDraining, HandlersEnd, Iterate, DropReceiver
<1>4. CASE Idle \/ IdleReturns
  BY <1>4, ThreadsAssumption DEF Idle, IdleReturns, Finish, TypeOK, Threads
<1>5. CASE TimerReturns \/ \E j \in TimerJobs : Fire(j)
  BY <1>5, ThreadsAssumption DEF TimerReturns, Fire, Finish, TypeOK, Threads
<1> QED
  BY <1>1, <1>2, <1>3, <1>4, <1>5 DEF Next, Send, Work, RunLoop, RunTimer

LEMMA RunningStep ==
  ASSUME IInv, Next
  PROVE  RunningRuns'
<1> USE DEF IInv, RunningRuns, poolVars, mainVars, loopVars, auxVars
<1>1. ASSUME NEW t \in Threads, SendPool(t)
      PROVE  RunningRuns'
  BY <1>1 DEF SendPool, PushPool, NotifyOne, Asleep, TypeOK
<1>2. ASSUME NEW w \in Workers, Sleep(w)
      PROVE  RunningRuns'
  BY <1>2 DEF Sleep, WaitForNotify, HasLock, TypeOK
<1>3. ASSUME NEW w \in Workers, Pop(w)
      PROVE  RunningRuns'
  <2>1. ~MayPopNothing(pool)
    BY <1>3, SomeCoinComesUp DEF Pop, PopFrom
  <2>2. PICK x : /\ running' = [running EXCEPT ![w] = x]
                 /\ worker' = [worker EXCEPT ![w] = "runs"]
    BY <1>3, <2>1 DEF Pop, PopFrom
  <2> QED
    BY <2>2 DEF TypeOK, Threads
<1>4. ASSUME NEW w \in Workers, WorkerReturns(w)
      PROVE  RunningRuns'
  BY <1>4 DEF WorkerReturns, Finish, TypeOK, Threads
<1>5. CASE UNCHANGED <<pool, worker>> /\ \A w \in Workers : running'[w] = running[w]
  BY <1>5
<1>6. ASSUME NEW t \in Threads, NEW jobs, Unwind(t, jobs)
      PROVE  RunningRuns'
  <2>1. ASSUME NEW w \in Workers, running'[w] # None PROVE worker'[w] = "runs"
    <3>1. w # t /\ running'[w] = running[w]
      BY <1>6, <2>1 DEF Unwind, TypeOK, Threads
    <3> QED
      BY <1>6, <2>1, <3>1 DEF Unwind, TypeOK
  <2> QED
    BY <2>1
<1>7. ASSUME NEW t \in Threads, RunnablePanics(t) \/ DispatchPanics(t)
      PROVE  RunningRuns'
  BY <1>6, <1>7 DEF RunnablePanics, DispatchPanics
<1> QED
  BY <1>1, <1>2, <1>3, <1>4, <1>5, <1>7, PoolSteps

------------------------------------------------------------------------------
(***************************************************************************)
(* No runnable waits for a worker that sleeps.                             *)
(***************************************************************************)
LEMMA SleepersStep ==
  ASSUME IInv, Next
  PROVE  SleepersAreNotNeeded'
<1>0. /\ TypeOK
      /\ IsFiniteSet(Asleep) /\ IsFiniteSet(Woken)
      /\ Cardinality(Woken) \in Nat
      /\ Size(pool) \in Nat
      /\ Asleep # {} => Size(pool) <= Cardinality(Woken)
  <2>1. IsFiniteSet(Asleep) /\ IsFiniteSet(Woken)
    BY ThreadsAssumption, FS_Subset DEF Asleep, Woken
  <2> QED
    BY <2>1, FS_CardinalityType, PoolIsQueues, SizeIsNat DEF IInv, SleepersAreNotNeeded
<1>1. ASSUME NEW t \in Threads, SendPool(t)
      PROVE  SleepersAreNotNeeded'
  <2>1. Size(pool') = Size(pool) + 1
    BY <1>0, <1>1, PoolIsQueues, Pushing, JobsAssumption DEF SendPool, PushPool
  <2>2. CASE Asleep = {}
    BY <1>1, <2>2 DEF SendPool, NotifyOne, Asleep, SleepersAreNotNeeded
  <2>3. CASE Asleep # {}
    <3>1. PICK w \in Asleep : worker' = [worker EXCEPT ![w] = "woken"]
      BY <1>1, <2>3 DEF SendPool, NotifyOne
    <3>2. w \notin Woken /\ Woken' = Woken \cup {w}
      BY <1>0, <3>1 DEF Asleep, Woken, TypeOK
    <3>3. Cardinality(Woken') = Cardinality(Woken) + 1
      BY <1>0, <3>2, FS_AddElement
    <3> QED
      BY <1>0, <2>1, <2>3, <3>3 DEF SleepersAreNotNeeded
  <2> QED
    BY <2>2, <2>3
<1>2. ASSUME NEW w \in Workers, Sleep(w)
      PROVE  SleepersAreNotNeeded'
  <2>1. Size(pool') = 0
    BY <1>0, <1>2, PoolIsQueues, SizeIsNat DEF Sleep, WaitForNotify
  <2>2. Cardinality(Woken') \in Nat
    <3>1. IsFiniteSet(Woken')
      BY ThreadsAssumption, FS_Subset DEF Woken
    <3> QED
      BY <3>1, FS_CardinalityType
  <2> QED
    BY <2>1, <2>2 DEF SleepersAreNotNeeded
<1>3. ASSUME NEW w \in Workers, Pop(w)
      PROVE  SleepersAreNotNeeded'
  <2>1. ~MayPopNothing(pool)
    BY <1>3, SomeCoinComesUp DEF Pop, PopFrom
  <2>2. PICK p \in Priorities : /\ pool' = PopFront(pool, p) /\ MayPop(pool, p)
                                /\ worker' = [worker EXCEPT ![w] = "runs"]
                                /\ HasLock(w)
    BY <1>3, <2>1 DEF Pop, PopFrom
  <2>3. Size(pool') = Size(pool) - 1
    BY <1>0, <2>2, PoolIsQueues, Popping DEF MayPop
  <2>4. Asleep' = Asleep /\ Woken' = Woken \ {w}
    BY <1>0, <2>2 DEF Asleep, Woken, HasLock, TypeOK
  <2>5. Cardinality(Woken \ {w}) = IF w \in Woken THEN Cardinality(Woken) - 1
                                                  ELSE Cardinality(Woken)
    BY <1>0, FS_RemoveElement
  <2>6. Cardinality(Woken') \in Nat
    BY <1>0, <2>4, FS_RemoveElement, FS_CardinalityType
  <2> QED
    BY <1>0, <2>3, <2>4, <2>5, <2>6 DEF SleepersAreNotNeeded
<1>4. ASSUME NEW w \in Workers, WorkerReturns(w)
      PROVE  SleepersAreNotNeeded'
  <2>1. worker[w] = "runs"
    BY <1>4 DEF WorkerReturns, Finish, IInv, RunningRuns
  <2>2. Asleep' = Asleep /\ Woken' = Woken /\ pool' = pool
    BY <1>0, <1>4, <2>1 DEF WorkerReturns, Asleep, Woken, TypeOK
  <2> QED
    BY <1>0, <2>2 DEF SleepersAreNotNeeded
<1>5. CASE UNCHANGED <<pool, worker>>
  BY <1>0, <1>5 DEF SleepersAreNotNeeded, Asleep, Woken
<1>6. ASSUME NEW t \in Threads, RunnablePanics(t) \/ DispatchPanics(t)
      PROVE  SleepersAreNotNeeded'
  <2>1. pool' = pool /\ worker' = IF t \in Workers THEN [worker EXCEPT ![t] = "panicked"] ELSE worker
    BY <1>6 DEF RunnablePanics, DispatchPanics, Unwind
  <2>2. t \in Workers => worker[t] \in {"runs", "panicked"}
    <3>1. CASE RunnablePanics(t)
      BY <3>1, JobsAssumption DEF RunnablePanics, IInv, RunningRuns
    <3>2. CASE DispatchPanics(t)
      BY <1>0, <3>2, PoolIsGone
    <3> QED
      BY <1>6, <3>1, <3>2
  <2>3. Asleep' = Asleep /\ Woken' = Woken
    BY <1>0, <2>1, <2>2 DEF Asleep, Woken, TypeOK
  <2> QED
    BY <1>0, <2>1, <2>3 DEF SleepersAreNotNeeded
<1> QED
  BY <1>0, <1>1, <1>2, <1>3, <1>4, <1>5, <1>6, PoolSteps

\* Who falls stays so.
LEMMA FallenStay ==
  ASSUME Next
  PROVE  fallen \subseteq fallen'
BY DEF Next, Send, Work, RunLoop, RunTimer, Dispatch, DispatchAfter, Stop, CountReceivers,
       RunnablePanics, DispatchPanics, Unwind, SendPool, PushPool, SendMain, Ping, Sleep, WaitForNotify,
       Pop, PopFrom, WorkerReturns, ReadPing, Take, DrainEnds, StopDraining, HandlersEnd, Idle,
       IdleReturns, Iterate, DropReceiver, Fire, TimerReturns

LEMMA PanicStep ==
  ASSUME IInv, Next
  PROVE  NoWorkerPanics'
<1>0. TypeOK /\ NoWorkerPanics /\ fallen \subseteq fallen'
  BY FallenStay DEF IInv
<1>1. ASSUME NEW t \in Threads, SendPool(t)
      PROVE  NoWorkerPanics'
  BY <1>0, <1>1 DEF SendPool, NotifyOne, Asleep, TypeOK, NoWorkerPanics
<1>2. ASSUME NEW w \in Workers, Sleep(w) \/ WorkerReturns(w)
      PROVE  NoWorkerPanics'
  BY <1>0, <1>2 DEF Sleep, WaitForNotify, WorkerReturns, TypeOK, NoWorkerPanics
<1>3. ASSUME NEW w \in Workers, Pop(w)
      PROVE  NoWorkerPanics'
  <2>1. worker' = [worker EXCEPT ![w] = "runs"]
    BY <1>3, SomeCoinComesUp DEF Pop, PopFrom
  <2> QED
    BY <1>0, <2>1 DEF TypeOK, NoWorkerPanics
<1>4. CASE UNCHANGED <<pool, worker>>
  BY <1>0, <1>4 DEF NoWorkerPanics
<1>5. ASSUME NEW t \in Threads, RunnablePanics(t) \/ DispatchPanics(t)
      PROVE  NoWorkerPanics'
  <2>1. /\ fallen' = fallen \cup {t}
        /\ worker' = IF t \in Workers THEN [worker EXCEPT ![t] = "panicked"] ELSE worker
    BY <1>5 DEF RunnablePanics, DispatchPanics, Unwind
  <2> QED
    BY <1>0, <2>1 DEF TypeOK, NoWorkerPanics
<1> QED
  BY <1>0, <1>1, <1>2, <1>3, <1>4, <1>5, PoolSteps

(***************************************************************************)
(* No foreground runnable waits for a ping that nobody makes.              *)
(***************************************************************************)
LEMMA PingedStep ==
  ASSUME IInv, Next
  PROVE  QueuedIsPinged'
<1> DEFINE Pinging == \E t \in Threads : At(t, "ping")
<1> USE DEF poolVars, mainVars, loopVars, auxVars
<1>0. /\ TypeOK
      /\ IsEmpty(main) \/ pinged \/ Pinging \/ loop \in {"drains", "ended", "dropped"}
  BY DEF IInv, QueuedIsPinged
<1>1. ASSUME NEW t \in Threads, SendMain(t)
      PROVE  QueuedIsPinged'
  <2>1. At(t, "ping")'
    <3>1. sending[t] \in Dispatches
      BY <1>0, <1>1, SenderTypes DEF SendMain, At
    <3>2. sending'[t] = [sending[t] EXCEPT !.at = "ping"]
      BY <1>0, <1>1 DEF SendMain, TypeOK
    <3>3. sending'[t].at = "ping"
      BY <3>1, <3>2 DEF Dispatches
    <3>4. sending'[t] # None
      BY <3>1, <3>2, JobsAssumption DEF Dispatches
    <3> QED
      BY <3>3, <3>4 DEF At
  <2> QED
    BY <2>1 DEF QueuedIsPinged
<1>2. ASSUME NEW t \in Threads, Ping(t)
      PROVE  QueuedIsPinged'
  BY <1>2 DEF Ping, QueuedIsPinged
<1>3. CASE ReadPing \/ Take
  BY <1>3 DEF ReadPing, Take, QueuedIsPinged
<1>4. CASE DrainEnds
  BY <1>4 DEF DrainEnds, StopDraining, QueuedIsPinged
<1>5. CASE HandlersEnd \/ Iterate
  BY <1>0, <1>5 DEF HandlersEnd, Iterate, QueuedIsPinged, At
<1>6. CASE DropReceiver
  BY <1>6 DEF DropReceiver, QueuedIsPinged
<1>7. CASE UNCHANGED <<main, pinged, loop>> /\ (Pinging => Pinging')
  BY <1>0, <1>7 DEF QueuedIsPinged
<1>8. ASSUME NEW t \in Threads, UNCHANGED <<main, pinged, loop>>, ~At(t, "ping"),
             NEW x, sending' = [sending EXCEPT ![t] = x]
      PROVE  QueuedIsPinged'
  <2>1. ASSUME NEW u \in Threads, At(u, "ping") PROVE At(u, "ping")'
    BY <1>0, <1>8, <2>1 DEF At, TypeOK
  <2> QED
    BY <1>7, <1>8, <2>1
<1>9. ASSUME NEW t \in Threads, CountReceivers(t) \/ SendPool(t)
      PROVE  QueuedIsPinged'
  <2>1. UNCHANGED <<main, pinged, loop>> /\ ~At(t, "ping")
    BY <1>9 DEF CountReceivers, SendPool, PushPool, At
  <2>2. \E x : sending' = [sending EXCEPT ![t] = x]
    BY <1>9 DEF CountReceivers, SendPool, PushPool
  <2> QED
    BY <1>8, <2>1, <2>2
<1>10. ASSUME NEW t \in Threads, NEW j \in Jobs, Dispatch(t, j)
       PROVE  QueuedIsPinged'
  BY <1>8, <1>10 DEF Dispatch, UserCode, At
<1>11. CASE UNCHANGED <<main, pinged, loop, sending>>
  BY <1>7, <1>11 DEF At
<1>12. ASSUME NEW t \in Threads, RunnablePanics(t) \/ DispatchPanics(t)
       PROVE  QueuedIsPinged'
  <2>1. main' = main /\ pinged' = pinged /\ (loop' = loop \/ loop' = "ended")
    BY <1>12 DEF RunnablePanics, DispatchPanics, Unwind
  <2>2. CASE loop' = "ended"
    BY <2>2 DEF QueuedIsPinged
  <2>3. CASE loop' = loop /\ RunnablePanics(t)
    BY <1>11, <2>1, <2>3 DEF RunnablePanics
  <2>4. CASE loop' = loop /\ DispatchPanics(t)
    BY <1>8, <2>1, <2>4 DEF DispatchPanics, At
  <2> QED
    BY <1>12, <2>1, <2>2, <2>3, <2>4
<1> QED
  BY <1>1, <1>2, <1>3, <1>4, <1>5, <1>6, <1>9, <1>10, <1>11, <1>12
     DEF Next, Send, Work, RunLoop, RunTimer, DispatchAfter, Sleep, WaitForNotify, Pop, PopFrom,
         WorkerReturns, Finish, Idle, IdleReturns, TimerReturns, Fire, Stop

------------------------------------------------------------------------------
LEMMA Initially ==
  ASSUME Init
  PROVE  IInv
<1>1. EmptyQueues \in Queues(PoolJobs) /\ EmptyQueues \in Queues(MainJobs)
  BY EmptySeq DEF EmptyQueues, Queues
<1>2. IsEmpty(EmptyQueues)
  BY DEF IsEmpty, EmptyQueues
<1>3. TypeOK
  <2>1. idles \in Seq(MainJobs)
    BY EmptySeq DEF Init
  <2>2. /\ running \in [Threads -> Jobs \cup {None}]
        /\ sending \in [Threads -> Dispatches \cup {None}]
    BY DEF Init
  <2>3. /\ worker \in [Workers -> {"recv", "asleep", "woken", "runs", "panicked"}]
        /\ loop \in {"polls", "drains", "handles", "idles", "ended", "dropped"}
        /\ receivers \in 0 .. 2
    BY DEF Init
  <2>4. pinged \in BOOLEAN /\ drained \in BOOLEAN /\ stopped \in BOOLEAN
    BY DEF Init
  <2>5. /\ timers \subseteq TimerJobs /\ fresh \subseteq Jobs /\ done \subseteq Jobs
        /\ fallen \subseteq Threads
    BY DEF Init
  <2>6. /\ pool \in [Priorities -> Seq(PoolJobs)]
        /\ main \in [Priorities -> Seq(MainJobs)]
    BY <1>1 DEF Init, Queues
  <2> QED
    BY <2>1, <2>2, <2>3, <2>4, <2>5, <2>6 DEF TypeOK
<1>4. Asleep = {}
  BY DEF Init, Asleep
<1>5. CountIsReceivers /\ RunningRuns /\ MainRuns /\ NoWorkerPanics
  BY DEF Init, CountIsReceivers, RunningRuns, MainRuns, NoWorkerPanics, Threads
<1> QED
  BY <1>2, <1>3, <1>4, <1>5 DEF Init, IInv, SleepersAreNotNeeded, QueuedIsPinged

\* The inductive invariant holds.
THEOREM Invariance == Spec => []IInv
<1>1. Init => IInv
  BY Initially
<1>2. IInv /\ [Next]_vars => IInv'
  <2> SUFFICES ASSUME IInv, [Next]_vars PROVE IInv'
    OBVIOUS
  <2>1. CASE Next
    BY <2>1, TypeStep, CountStep, RunningStep, MainRunsStep, SleepersStep, PingedStep, PanicStep DEF IInv
  <2>2. CASE UNCHANGED vars
    BY <2>2 DEF vars, poolVars, mainVars, loopVars, auxVars, IInv, TypeOK, CountIsReceivers,
       RunningRuns, MainRuns, SleepersAreNotNeeded, QueuedIsPinged, NoWorkerPanics, Asleep, Woken, At
  <2> QED
    BY <2>1, <2>2
<1> QED
  BY <1>1, <1>2, PTL DEF Spec

\* Types: what the threads, the queues and the counters hold.
THEOREM TypeCorrect == Spec => []TypeOK
BY Invariance, PTL DEF IInv

\* For any pool: a runnable in the queue has a worker awake, or woken for it,
\* so the condition variable loses no wakeup.
THEOREM NoLostWakeup == Spec => []SleepersAreNotNeeded
BY Invariance, PTL DEF IInv

\* For any number of threads that dispatch to the main thread at any time:
\* the event loop hears of every runnable in its queue.
THEOREM NoLostPing == Spec => []QueuedIsPinged
BY Invariance, PTL DEF IInv

\* For queues of any contents: pop finds a runnable.
THEOREM PopFinds == Spec => []NoWorkerPanics
BY Invariance, PTL DEF IInv


------------------------------------------------------------------------------
(***************************************************************************)
(* What a FIFO and a queue hold, and that they hold it once.               *)
(***************************************************************************)
In(s) == {s[i] : i \in DOMAIN s}

Once(s) == \A i, k \in DOMAIN s : s[i] = s[k] => i = k

OnceIn(q) == /\ \A p \in Priorities : Once(q[p])
             /\ \A p, r \in Priorities : p # r => In(q[p]) \cap In(q[r]) = {}

LEMMA InSeq ==
  ASSUME NEW S, NEW s \in Seq(S)
  PROVE  /\ Len(s) \in Nat /\ DOMAIN s = 1 .. Len(s)
         /\ In(s) \subseteq S
BY LenProperties, ElementOfSeq DEF In

LEMMA Appended ==
  ASSUME NEW S, NEW s \in Seq(S), NEW x \in S
  PROVE  /\ In(Append(s, x)) = In(s) \cup {x}
         /\ Once(s) /\ x \notin In(s) => Once(Append(s, x))
<1> DEFINE a == Append(s, x)
           n == Len(s)
<1>1. /\ a \in Seq(S) /\ Len(a) = n + 1 /\ a[n + 1] = x
      /\ \A i \in 1 .. n : a[i] = s[i]
  BY AppendProperties
<1>2. n \in Nat /\ DOMAIN s = 1 .. n /\ DOMAIN a = 1 .. n + 1
  BY <1>1, InSeq
<1> HIDE DEF a, n
<1>3. \A i \in 1 .. n + 1 : i = n + 1 \/ i \in 1 .. n
  BY <1>2
<1>4. \A i \in 1 .. n : i \in 1 .. n + 1
  BY <1>2
<1>5. n + 1 \in 1 .. n + 1
  BY <1>2
<1>6. In(a) = In(s) \cup {x}
  BY <1>1, <1>2, <1>3, <1>4, <1>5 DEF In
<1>7. ASSUME Once(s), x \notin In(s) PROVE Once(a)
  <2>1. \A i \in 1 .. n : s[i] # x
    BY <1>2, <1>7 DEF In
  <2> QED
    BY <1>1, <1>2, <1>3, <1>7, <2>1 DEF Once
<1> QED
  BY <1>6, <1>7 DEF a

LEMMA Tailed ==
  ASSUME NEW S, NEW s \in Seq(S), s # <<>>
  PROVE  /\ Head(s) \in S
         /\ In(s) = In(Tail(s)) \cup {Head(s)}
         /\ Once(s) => Once(Tail(s)) /\ Head(s) \notin In(Tail(s))
<1> DEFINE a == Tail(s)
           n == Len(s)
<1>1. /\ a \in Seq(S) /\ Len(a) = n - 1 /\ Head(s) = s[1] /\ Head(s) \in S
      /\ \A i \in 1 .. Len(a) : a[i] = s[i + 1]
  BY HeadTailProperties
<1>2. n \in Nat /\ n # 0 /\ DOMAIN s = 1 .. n /\ DOMAIN a = 1 .. n - 1
  BY <1>1, InSeq, EmptySeq
<1> HIDE DEF a, n
<1>3. \A i \in 1 .. n : i = 1 \/ (i - 1 \in 1 .. n - 1 /\ i = (i - 1) + 1)
  BY <1>2
<1>4. \A i \in 1 .. n - 1 : i + 1 \in 1 .. n /\ i + 1 # 1
  BY <1>2
<1>5. 1 \in 1 .. n
  BY <1>2
<1>6. \A i \in 1 .. n - 1 : a[i] = s[i + 1]
  BY <1>1
<1>7. In(s) = In(a) \cup {Head(s)}
  <2>1. In(s) \subseteq In(a) \cup {Head(s)}
    <3> SUFFICES ASSUME NEW i \in 1 .. n, i # 1 PROVE s[i] \in In(a)
      BY <1>1, <1>2 DEF In
    <3>1. i - 1 \in 1 .. n - 1 /\ a[i - 1] = s[i]
      BY <1>3, <1>6
    <3> QED
      BY <1>2, <3>1 DEF In
  <2>2. In(a) \cup {Head(s)} \subseteq In(s)
    BY <1>1, <1>2, <1>4, <1>5, <1>6 DEF In
  <2> QED
    BY <2>1, <2>2
<1>8. ASSUME Once(s) PROVE Once(a) /\ Head(s) \notin In(a)
  <2>1. ASSUME NEW i \in 1 .. n - 1, NEW k \in 1 .. n - 1, a[i] = a[k] PROVE i = k
    <3>1. i + 1 \in 1 .. n /\ k + 1 \in 1 .. n /\ s[i + 1] = s[k + 1]
      BY <1>4, <1>6, <2>1
    <3>2. i + 1 = k + 1
      BY <1>2, <1>8, <3>1 DEF Once
    <3> QED
      BY <3>2
  <2>2. ASSUME NEW i \in 1 .. n - 1 PROVE a[i] # Head(s)
    BY <1>1, <1>2, <1>4, <1>5, <1>6, <1>8 DEF Once
  <2> QED
    BY <1>2, <2>1, <2>2 DEF Once, In
<1> QED
  BY <1>1, <1>7, <1>8 DEF a

LEMMA ContentsIs ==
  ASSUME NEW S, NEW q \in Queues(S)
  PROVE  /\ \A x : x \in Contents(q) <=> \E p \in Priorities : x \in In(q[p])
         /\ Contents(q) \subseteq S
         /\ \A p \in Priorities : q[p] \in Seq(S)
<1>1. \A p \in Priorities : q[p] \in Seq(S) /\ In(q[p]) \subseteq S
  BY InSeq DEF Queues
<1>2. Contents(q) = UNION {In(q[p]) : p \in Priorities}
  BY DEF Contents, In
<1> QED
  BY <1>1, <1>2

LEMMA PushedOnce ==
  ASSUME NEW S, NEW q \in Queues(S), NEW p \in Priorities, NEW x \in S
  PROVE  /\ Contents(Push(q, p, x)) = Contents(q) \cup {x}
         /\ OnceIn(q) /\ x \notin Contents(q) => OnceIn(Push(q, p, x))
<1> DEFINE r == Push(q, p, x)
           s == Append(q[p], x)
<1>1. q[p] \in Seq(S) /\ s \in Seq(S)
  BY AppendProperties DEF Queues
<1>2. r \in Queues(S) /\ r[p] = s /\ \A l \in Priorities : l # p => r[l] = q[l]
  <2>1. r = [q EXCEPT ![p] = s]
    BY DEF Push
  <2> HIDE DEF r, s
  <2> QED
    BY <1>1, <2>1 DEF Queues
<1>3. In(s) = In(q[p]) \cup {x} /\ (Once(q[p]) /\ x \notin In(q[p]) => Once(s))
  BY <1>1, Appended
<1> HIDE DEF r, s
<1>4. Contents(r) = Contents(q) \cup {x}
  <2>1. \A y : y \in Contents(r) <=> y \in Contents(q) \cup {x}
    BY <1>2, <1>3, ContentsIs
  <2> QED
    BY <2>1
<1>5. ASSUME OnceIn(q), x \notin Contents(q) PROVE OnceIn(r)
  <2>1. \A l \in Priorities : x \notin In(q[l])
    BY <1>5, ContentsIs
  <2> QED
    BY <1>2, <1>3, <1>5, <2>1 DEF OnceIn
<1> QED
  BY <1>4, <1>5 DEF r

LEMMA PoppedOnce ==
  ASSUME NEW S, NEW q \in Queues(S), NEW p \in Priorities, q[p] # <<>>
  PROVE  /\ Head(q[p]) \in S
         /\ Contents(q) = Contents(PopFront(q, p)) \cup {Head(q[p])}
         /\ OnceIn(q) => /\ OnceIn(PopFront(q, p))
                         /\ Head(q[p]) \notin Contents(PopFront(q, p))
<1> DEFINE r == PopFront(q, p)
           s == Tail(q[p])
           x == Head(q[p])
<1>1. q[p] \in Seq(S) /\ s \in Seq(S)
  BY HeadTailProperties DEF Queues
<1>2. r \in Queues(S) /\ r[p] = s /\ \A l \in Priorities : l # p => r[l] = q[l]
  <2>1. r = [q EXCEPT ![p] = s]
    BY DEF PopFront
  <2> HIDE DEF r, s, x
  <2> QED
    BY <1>1, <2>1 DEF Queues
<1>3. x \in S /\ In(q[p]) = In(s) \cup {x} /\ (Once(q[p]) => Once(s) /\ x \notin In(s))
  BY <1>1, Tailed
<1> HIDE DEF r, s, x
<1>4. Contents(q) = Contents(r) \cup {x}
  <2>1. \A y : y \in Contents(q) <=> y \in Contents(r) \cup {x}
    BY <1>2, <1>3, ContentsIs
  <2> QED
    BY <2>1
<1>5. ASSUME OnceIn(q) PROVE OnceIn(r) /\ x \notin Contents(r)
  <2>1. OnceIn(r)
    BY <1>2, <1>3, <1>5 DEF OnceIn
  <2>2. \A l \in Priorities : x \notin In(r[l])
    BY <1>2, <1>3, <1>5 DEF OnceIn
  <2> QED
    BY <1>2, <2>1, <2>2, ContentsIs
<1> QED
  BY <1>3, <1>4, <1>5 DEF r, x

------------------------------------------------------------------------------
(***************************************************************************)
(* Where a runnable is.                                                    *)
(***************************************************************************)
Sends(t) == sending[t] # None /\ sending[t].at # "ping"
Sent     == {sending[t].job : t \in {u \in Threads : Sends(u)}}

SentOnce ==
  \A t, u \in Threads : Sends(t) /\ Sends(u) /\ sending[t].job = sending[u].job => t = u

\* In one place at a time, and in none before it is dispatched.
Placed == /\ SentOnce /\ OnceIn(pool) /\ OnceIn(main) /\ Once(idles)
          /\ Sent \cap (Contents(pool) \cup Contents(main) \cup In(idles)) = {}
          /\ Contents(main) \cap In(idles) = {}
          /\ fresh \cap Waiting = {}

\* A thread that a panic unwound runs no more.
FallenRest == /\ \A w \in Workers : w \in fallen => worker[w] = "panicked"
              /\ Main \in fallen => loop \in {"ended", "dropped"}

LEMMA WaitingIs ==
  /\ Waiting = Sent \cup Contents(pool) \cup Contents(main) \cup In(idles) \cup timers
  /\ Waiting' = Sent' \cup Contents(pool') \cup Contents(main') \cup In(idles') \cup timers'
<1>1. Waiting = Sent \cup Contents(pool) \cup Contents(main) \cup In(idles) \cup timers
  BY DEF Waiting, Sent, Sends, In
<1>2. Waiting' = Sent' \cup Contents(pool') \cup Contents(main') \cup In(idles') \cup timers'
  BY DEF Waiting, Sent, Sends, In, Contents
<1> QED
  BY <1>1, <1>2

LEMMA PlaceTypes ==
  ASSUME TypeOK
  PROVE  /\ Sent \subseteq PoolJobs \cup MainJobs
         /\ Contents(pool) \subseteq PoolJobs
         /\ Contents(main) \subseteq MainJobs
         /\ In(idles) \subseteq MainJobs
         /\ timers \subseteq TimerJobs
<1>1. Sent \subseteq PoolJobs \cup MainJobs
  BY SenderTypes DEF Sent, Sends
<1>2. Contents(pool) \subseteq PoolJobs /\ Contents(main) \subseteq MainJobs
  BY PoolIsQueues, ContentsIs
<1>3. In(idles) \subseteq MainJobs /\ timers \subseteq TimerJobs
  BY InSeq DEF TypeOK
<1> QED
  BY <1>1, <1>2, <1>3

LEMMA KindsDiffer ==
  /\ PoolJobs \cap MainJobs = {} /\ PoolJobs \cap TimerJobs = {} /\ MainJobs \cap TimerJobs = {}
  /\ Main \notin Workers /\ Main # Timer /\ Timer \notin Workers
  /\ Main \in Threads /\ Timer \in Threads /\ Workers \subseteq Threads
  /\ None \notin Jobs /\ PoolJobs \subseteq Jobs /\ MainJobs \subseteq Jobs /\ TimerJobs \subseteq Jobs
BY ThreadsAssumption, JobsAssumption DEF Threads, Jobs

\* The steps of a dispatch.
LEMMA SendingChanges ==
  ASSUME TypeOK, SentOnce, NEW t \in Threads, NEW v, sending' = [sending EXCEPT ![t] = v]
  PROVE  /\ ~Sends(t) /\ v # None /\ v.at # "ping" /\ v.job \notin Sent
              => SentOnce' /\ Sent' = Sent \cup {v.job}
         /\ Sends(t) /\ (v = None \/ v.at = "ping")
              => SentOnce' /\ Sent' = Sent \ {sending[t].job} /\ sending[t].job \in Sent
         /\ Sends(t) /\ v # None /\ v.at # "ping" /\ v.job = sending[t].job
              => SentOnce' /\ Sent' = Sent
         /\ ~Sends(t) /\ (v = None \/ v.at = "ping") => SentOnce' /\ Sent' = Sent
<1>1. /\ \A u \in Threads : sending'[u] = IF u = t THEN v ELSE sending[u]
  BY DEF TypeOK
<1>2. \A u \in Threads : Sends(u)' <=> IF u = t THEN v # None /\ v.at # "ping" ELSE Sends(u)
  BY <1>1 DEF Sends
<1>3. \A x : x \in Sent <=> \E u \in Threads : Sends(u) /\ sending[u].job = x
  BY DEF Sent
<1>4. \A x : x \in Sent' <=> \E u \in Threads : Sends(u)' /\ sending'[u].job = x
  BY DEF Sent
<1>5. SentOnce' <=> \A r, u \in Threads :
                      Sends(r)' /\ Sends(u)' /\ sending'[r].job = sending'[u].job => r = u
  BY DEF SentOnce
<1>6. ASSUME ~Sends(t), v # None, v.at # "ping", v.job \notin Sent
      PROVE  SentOnce' /\ Sent' = Sent \cup {v.job}
  <2>1. \A x : x \in Sent' <=> x \in Sent \cup {v.job}
    BY <1>1, <1>2, <1>3, <1>4, <1>6
  <2>2. SentOnce'
    BY <1>1, <1>2, <1>3, <1>5, <1>6 DEF SentOnce
  <2> QED
    BY <2>1, <2>2
<1>7. ASSUME Sends(t), v = None \/ v.at = "ping"
      PROVE  SentOnce' /\ Sent' = Sent \ {sending[t].job} /\ sending[t].job \in Sent
  <2>1. \A x : x \in Sent' <=> x \in Sent \ {sending[t].job}
    BY <1>1, <1>2, <1>3, <1>4, <1>7 DEF SentOnce
  <2>2. SentOnce'
    BY <1>1, <1>2, <1>5, <1>7 DEF SentOnce
  <2> QED
    BY <1>3, <1>7, <2>1, <2>2
<1>8. ASSUME Sends(t), v # None, v.at # "ping", v.job = sending[t].job
      PROVE  SentOnce' /\ Sent' = Sent
  <2>1. \A x : x \in Sent' <=> x \in Sent
    BY <1>1, <1>2, <1>3, <1>4, <1>8
  <2>2. SentOnce'
    BY <1>1, <1>2, <1>5, <1>8 DEF SentOnce
  <2> QED
    BY <2>1, <2>2
<1>9. ASSUME ~Sends(t), v = None \/ v.at = "ping" PROVE SentOnce' /\ Sent' = Sent
  <2>1. \A x : x \in Sent' <=> x \in Sent
    BY <1>1, <1>2, <1>3, <1>4, <1>9
  <2>2. SentOnce'
    BY <1>1, <1>2, <1>5, <1>9 DEF SentOnce
  <2> QED
    BY <2>1, <2>2
<1> QED
  BY <1>6, <1>7, <1>8, <1>9

LEMMA SendingStays ==
  ASSUME UNCHANGED sending
  PROVE  Sent' = Sent /\ (SentOnce => SentOnce')
BY DEF Sent, SentOnce, Sends

------------------------------------------------------------------------------
(***************************************************************************)
(* Steps, one lemma for each kind: a runnable stays in one place, and what *)
(* RunOnce sees is one of its steps, or nothing.                           *)
(***************************************************************************)
RunsOnOf(j) == IF j \in PoolJobs THEN Workers ELSE IF j \in MainJobs THEN {Main} ELSE {Timer}

Gone == fallen \cup (IF loop \in {"ended", "dropped"} THEN {Main} ELSE {})

Unseen == UNCHANGED <<fresh, Waiting, running, Gone>>

LEMMA UnseenIsStutter == Unseen => UNCHANGED Promise!rvars
BY DEF Unseen, Promise!rvars, Gone

\* What an action of RunOnce is, without the substitution.
LEMMA DispatchSeen ==
  ASSUME NEW j \in Jobs, j \in fresh, fresh' = fresh \ {j},
         Waiting' = Waiting \cup {j}, UNCHANGED <<running, Gone>>
  PROVE  Promise!Next
<1>1. Promise!Dispatch(j)
  BY DEF Promise!Dispatch, Gone
<1> QED
  BY <1>1 DEF Promise!Next

LEMMA RunSeen ==
  ASSUME NEW t \in Threads, NEW j \in Jobs, j \in Waiting, t \in RunsOnOf(j), t \notin Gone,
         running[t] = None, Waiting' = Waiting \ {j},
         running' = [running EXCEPT ![t] = j], UNCHANGED <<fresh, Gone>>
  PROVE  Promise!Next
<1>1. Promise!Run(t, j)
  BY DEF Promise!Run, Gone, RunsOnOf
<1> QED
  BY <1>1 DEF Promise!Next

LEMMA ReturnSeen ==
  ASSUME NEW t \in Threads, running[t] # None, running' = [running EXCEPT ![t] = None],
         UNCHANGED <<fresh, Waiting, Gone>>
  PROVE  Promise!Next
<1>1. Promise!Return(t)
  BY DEF Promise!Return, Gone
<1> QED
  BY <1>1 DEF Promise!Next

LEMMA GiveUpSeen ==
  ASSUME NEW j \in Jobs, j \in fresh \cup Waiting, RunsOnOf(j) \subseteq Gone,
         fresh' = fresh \ {j}, Waiting' = Waiting \ {j}, UNCHANGED <<running, Gone>>
  PROVE  Promise!Next
<1>1. Promise!GiveUp(j)
  BY DEF Promise!GiveUp, Promise!NobodyRuns, Gone, RunsOnOf
<1> QED
  BY <1>1 DEF Promise!Next

LEMMA EndSeen ==
  ASSUME NEW t \in Threads, NEW js \in SUBSET Waiting, js \subseteq Jobs,
         \A j \in js : RunsOnOf(j) \subseteq Gone,
         Waiting' = Waiting \ js, Gone' = Gone \cup {t},
         running' = [running EXCEPT ![t] = None], UNCHANGED fresh
  PROVE  Promise!Next
<1>1. Promise!End(t, js)
  BY DEF Promise!End, Promise!NobodyRuns, Gone, RunsOnOf
<1> QED
  BY <1>1 DEF Promise!Next

Seen == Promise!Next \/ UNCHANGED Promise!rvars

LEMMA DispatchStep ==
  ASSUME IInv, Placed, NEW t \in Threads, NEW j \in Jobs, Dispatch(t, j)
  PROVE  Placed' /\ Seen
<1> DEFINE v == [job |-> j, at |-> "count"]
<1>1. /\ sending' = [sending EXCEPT ![t] = v] /\ sending[t] = None
      /\ j \in fresh /\ fresh' = fresh \ {j}
      /\ UNCHANGED <<pool, main, idles, timers, running, loop, fallen>>
  BY DEF Dispatch, UserCode, MayCome, poolVars, mainVars, loopVars
<1>2. v # None /\ v.at # "ping" /\ v.job = j
  <2>1. j \in PoolJobs \cup MainJobs
    BY DEF Dispatch, Jobs
  <2> QED
    BY <2>1, JobsAssumption DEF Dispatches
<1> HIDE DEF v
<1>3. j \notin Sent \cup Contents(pool) \cup Contents(main) \cup In(idles)
  BY <1>1, WaitingIs DEF Placed
<1>4. SentOnce' /\ Sent' = Sent \cup {j}
  BY <1>1, <1>2, <1>3, SendingChanges DEF IInv, Placed, Sends
<1>5. Waiting' = Waiting \cup {j}
  BY <1>1, <1>4, WaitingIs
<1>6. Placed'
  BY <1>1, <1>3, <1>4, <1>5 DEF Placed
<1>7. Promise!Next
  BY <1>1, <1>5, DispatchSeen DEF Gone
<1> QED
  BY <1>6, <1>7 DEF Seen

LEMMA DispatchAfterStep ==
  ASSUME IInv, Placed, NEW t \in Threads, NEW j \in Jobs, DispatchAfter(t, j)
  PROVE  Placed' /\ Seen
<1>1. /\ j \in fresh /\ j \in TimerJobs /\ fresh' = fresh \ {j}
      /\ timers' = IF Timer \in fallen THEN timers ELSE timers \cup {j}
      /\ UNCHANGED <<pool, main, idles, sending, running, loop, fallen>>
  BY DEF DispatchAfter, MayCome, poolVars, mainVars, loopVars
<1>2. j \notin Waiting
  BY <1>1 DEF Placed
<1>3. Waiting' = IF Timer \in fallen THEN Waiting \ {j} ELSE Waiting \cup {j}
  BY <1>1, <1>2, WaitingIs, SendingStays
<1>4. Placed'
  BY <1>1, <1>2, <1>3, SendingStays DEF Placed
<1>5. CASE Timer \in fallen
  <2>1. RunsOnOf(j) \subseteq Gone
    BY <1>1, <1>5, KindsDiffer DEF RunsOnOf, Gone
  <2>2. Promise!Next
    BY <1>1, <1>3, <1>5, <2>1, GiveUpSeen DEF Gone
  <2> QED
    BY <1>4, <2>2 DEF Seen
<1>6. CASE Timer \notin fallen
  <2>1. Promise!Next
    BY <1>1, <1>3, <1>6, DispatchSeen DEF Gone
  <2> QED
    BY <1>4, <2>1 DEF Seen
<1> QED
  BY <1>5, <1>6

\* A runnable leaves the dispatch in which it was.
LEMMA Leaves ==
  ASSUME IInv, Placed, NEW t \in Threads, Sends(t), NEW v, v = None \/ v.at = "ping",
         sending' = [sending EXCEPT ![t] = v],
         UNCHANGED <<pool, main, idles, timers>>, fresh' = fresh
  PROVE  /\ Placed'
         /\ sending[t].job \in Waiting /\ sending[t].job \in Jobs
         /\ Waiting' = Waiting \ {sending[t].job}
<1> DEFINE j == sending[t].job
<1>1. SentOnce' /\ Sent' = Sent \ {j} /\ j \in Sent
  BY SendingChanges DEF IInv, Placed
<1>2. j \in PoolJobs \cup MainJobs
  BY <1>1, PlaceTypes DEF IInv
<1>3. j \notin Contents(pool) \cup Contents(main) \cup In(idles) \cup timers
  BY <1>1, <1>2, PlaceTypes, KindsDiffer DEF Placed, IInv
<1>4. Waiting' = Waiting \ {j}
  BY <1>1, <1>3, WaitingIs
<1>5. Placed'
  BY <1>1, <1>4 DEF Placed
<1> QED
  BY <1>1, <1>2, <1>4, <1>5, WaitingIs, KindsDiffer

LEMMA CountReceiversStep ==
  ASSUME IInv, Placed, NEW t \in Threads, CountReceivers(t)
  PROVE  Placed' /\ Seen
<1> DEFINE j == sending[t].job
<1>0. Sends(t)
  BY DEF CountReceivers, At, Sends
<1>1. UNCHANGED <<pool, main, idles, timers, running, fresh, fallen, loop>>
  BY DEF CountReceivers, poolVars, mainVars, loopVars
<1>2. CASE sending' = [sending EXCEPT ![t].at = "push"]
  <2> DEFINE v == [sending[t] EXCEPT !.at = "push"]
  <2>1. sending' = [sending EXCEPT ![t] = v]
    BY <1>2
  <2>2. v # None /\ v.at # "ping" /\ v.job = j
    <3>1. sending[t] \in Dispatches
      BY <1>0, SenderTypes DEF IInv, Sends
    <3>2. v \in Dispatches /\ v.at = "push" /\ v.job = j
      BY <3>1 DEF Dispatches
    <3> QED
      BY <3>2, JobsAssumption
  <2> HIDE DEF v
  <2>3. SentOnce' /\ Sent' = Sent
    BY <1>0, <2>1, <2>2, SendingChanges DEF IInv, Placed
  <2>4. Waiting' = Waiting
    BY <1>1, <2>3, WaitingIs
  <2>5. Placed'
    BY <1>1, <2>3, <2>4 DEF Placed
  <2>6. Unseen
    BY <1>1, <2>4 DEF Unseen, Gone
  <2> QED
    BY <2>5, <2>6, UnseenIsStutter DEF Seen
<1>3. CASE sending' = [sending EXCEPT ![t] = None] /\ Receivers(j) = 0 /\ j \in MainJobs
  <2>1. Placed' /\ j \in Waiting /\ j \in Jobs /\ Waiting' = Waiting \ {j}
    BY <1>0, <1>1, <1>3, Leaves
  <2>2. j \notin fresh
    BY <2>1 DEF Placed
  <2>3. RunsOnOf(j) \subseteq Gone
    <3>1. receivers = 0
      BY <1>3 DEF Receivers
    <3>2. loop = "dropped"
      BY <3>1 DEF IInv, CountIsReceivers
    <3> QED
      BY <1>3, <3>2, KindsDiffer DEF RunsOnOf, Gone
  <2>4. Promise!Next
    BY <1>1, <2>1, <2>2, <2>3, GiveUpSeen DEF Gone
  <2> QED
    BY <2>1, <2>4 DEF Seen
<1> QED
  BY <1>2, <1>3 DEF CountReceivers

\* Steps that move no runnable.
LEMMA StillPlaced ==
  ASSUME Placed, SentOnce', Sent' = Sent, UNCHANGED <<pool, main, idles, timers, fresh>>
  PROVE  Placed' /\ Waiting' = Waiting
<1>1. Waiting' = Waiting
  BY WaitingIs
<1> QED
  BY <1>1 DEF Placed

LEMMA PanicSteps ==
  ASSUME IInv, Placed, NEW t \in Threads, RunnablePanics(t) \/ DispatchPanics(t)
  PROVE  Placed' /\ Seen
<1>0. TypeOK
  BY DEF IInv
<1>1. /\ running' = [running EXCEPT ![t] = None] /\ fallen' = fallen \cup {t}
      /\ loop' = IF t = Main THEN "ended" ELSE loop
      /\ UNCHANGED <<pool, main, idles, timers, fresh>>
  BY DEF RunnablePanics, DispatchPanics, Unwind, mainVars
<1>2. Gone' = Gone \cup {t}
  <2>1. CASE t = Main
    BY <1>1, <2>1 DEF Gone
  <2>2. CASE t # Main
    BY <1>1, <2>2 DEF Gone
  <2> QED
    BY <2>1, <2>2
<1>3. CASE RunnablePanics(t)
  <2>1. Placed' /\ Waiting' = Waiting
    BY <1>1, <1>3, SendingStays, StillPlaced DEF RunnablePanics, Placed
  <2>2. {} \in SUBSET Waiting /\ {} \subseteq Jobs /\ Waiting' = Waiting \ {}
    BY <2>1
  <2>3. \A j \in {} : RunsOnOf(j) \subseteq Gone
    OBVIOUS
  <2>4. Promise!Next
    BY <1>1, <1>2, <2>2, <2>3, EndSeen
  <2> QED
    BY <2>1, <2>4 DEF Seen
<1>4. CASE DispatchPanics(t)
  <2> DEFINE j == sending[t].job
  <2>1. sending' = [sending EXCEPT ![t] = None] /\ \A w \in Workers : worker[w] = "panicked"
    BY <1>0, <1>4, PoolIsGone
  <2>2. Sends(t) /\ j \in PoolJobs
    BY <1>4 DEF DispatchPanics, At, Sends
  <2>3. Placed' /\ j \in Waiting /\ j \in Jobs /\ Waiting' = Waiting \ {j}
    BY <1>1, <2>1, <2>2, Leaves
  <2>4. RunsOnOf(j) \subseteq Gone
    BY <2>1, <2>2 DEF IInv, NoWorkerPanics, RunsOnOf, Gone
  <2> HIDE DEF j
  <2>5. Promise!Next
    <3>1. {j} \in SUBSET Waiting /\ {j} \subseteq Jobs /\ \A i \in {j} : RunsOnOf(i) \subseteq Gone
      BY <2>3, <2>4
    <3> QED
      BY <1>1, <1>2, <2>3, <3>1, EndSeen
  <2> QED
    BY <2>3, <2>5 DEF Seen
<1> QED
  BY <1>3, <1>4

LEMMA SendPoolStep ==
  ASSUME IInv, Placed, NEW t \in Threads, SendPool(t)
  PROVE  Placed' /\ Seen
<1> DEFINE j == sending[t].job
<1>1. /\ Sends(t) /\ j \in PoolJobs /\ PriorityOf[j] \in Priorities
      /\ pool' = Push(pool, PriorityOf[j], j)
      /\ sending' = [sending EXCEPT ![t] = None]
      /\ UNCHANGED <<main, idles, timers, running, fresh, fallen, loop>>
  BY JobsAssumption DEF SendPool, PushPool, At, Sends, mainVars, loopVars, auxVars
<1>2. SentOnce' /\ Sent' = Sent \ {j} /\ j \in Sent
  BY <1>1, SendingChanges DEF IInv, Placed
<1> HIDE DEF j
<1>3. j \notin Contents(pool) /\ OnceIn(pool)
  BY <1>2 DEF Placed
<1>4. Contents(pool') = Contents(pool) \cup {j} /\ OnceIn(pool')
  BY <1>1, <1>3, PushedOnce, PoolIsQueues DEF IInv
<1>5. Waiting' = Waiting
  BY <1>1, <1>2, <1>4, WaitingIs
<1>6. j \notin Contents(main) \cup In(idles)
  BY <1>1, PlaceTypes, KindsDiffer DEF IInv
<1>7. Placed'
  <2>1. OnceIn(pool)' /\ OnceIn(main)' /\ Once(idles)' /\ (fresh \cap Waiting = {})'
    BY <1>1, <1>4, <1>5 DEF Placed, OnceIn
  <2>2. Sent' \cap (Contents(pool') \cup Contents(main) \cup In(idles)) = {}
    BY <1>2, <1>4 DEF Placed
  <2> QED
    BY <1>1, <1>2, <2>1, <2>2 DEF Placed, Contents
<1>8. Unseen
  BY <1>1, <1>5 DEF Unseen, Gone
<1> QED
  BY <1>7, <1>8, UnseenIsStutter DEF Seen

LEMMA SendMainStep ==
  ASSUME IInv, Placed, NEW t \in Threads, SendMain(t)
  PROVE  Placed' /\ Seen
<1> DEFINE j == sending[t].job
           v == [sending[t] EXCEPT !.at = "ping"]
<1>1. /\ Sends(t) /\ j \in MainJobs /\ Medium \in Priorities
      /\ main' = Push(main, Medium, j)
      /\ sending' = [sending EXCEPT ![t] = v]
      /\ UNCHANGED <<pool, idles, timers, running, fresh, fallen, loop>>
  BY ThreePriorities DEF SendMain, At, Sends, poolVars, loopVars, auxVars
<1>2. v.at = "ping"
  BY <1>1, SenderTypes DEF Dispatches, IInv, Sends
<1> HIDE DEF v
<1>3. SentOnce' /\ Sent' = Sent \ {j} /\ j \in Sent
  BY <1>1, <1>2, SendingChanges DEF IInv, Placed
<1> HIDE DEF j
<1>4. j \notin Contents(main) /\ OnceIn(main)
  BY <1>3 DEF Placed
<1>5. Contents(main') = Contents(main) \cup {j} /\ OnceIn(main')
  BY <1>1, <1>4, PushedOnce, PoolIsQueues DEF IInv
<1>6. Waiting' = Waiting
  BY <1>1, <1>3, <1>5, WaitingIs
<1>7. j \notin In(idles)
  BY <1>3 DEF Placed
<1>8. Placed'
  <2>1. OnceIn(pool)' /\ OnceIn(main)' /\ Once(idles)' /\ (fresh \cap Waiting = {})'
    BY <1>1, <1>5, <1>6 DEF Placed, OnceIn
  <2>2. /\ Sent' \cap (Contents(pool) \cup Contents(main') \cup In(idles)) = {}
        /\ Contents(main') \cap In(idles) = {}
    BY <1>3, <1>5, <1>7 DEF Placed
  <2> QED
    BY <1>1, <1>3, <2>1, <2>2 DEF Placed, Contents
<1>9. Unseen
  BY <1>1, <1>6 DEF Unseen, Gone
<1> QED
  BY <1>8, <1>9, UnseenIsStutter DEF Seen

LEMMA PingStep ==
  ASSUME IInv, Placed, NEW t \in Threads, Ping(t)
  PROVE  Placed' /\ Seen
<1>1. /\ ~Sends(t) /\ sending' = [sending EXCEPT ![t] = None]
      /\ UNCHANGED <<pool, main, idles, timers, running, fresh, fallen, loop>>
  BY DEF Ping, At, Sends, poolVars, loopVars, auxVars
<1>2. SentOnce' /\ Sent' = Sent
  BY <1>1, SendingChanges DEF IInv, Placed
<1>3. Placed' /\ Waiting' = Waiting
  BY <1>1, <1>2, StillPlaced
<1>4. Unseen
  BY <1>1, <1>3 DEF Unseen, Gone
<1> QED
  BY <1>3, <1>4, UnseenIsStutter DEF Seen

LEMMA PopStep ==
  ASSUME IInv, Placed, FallenRest, NEW w \in Workers, Pop(w)
  PROVE  Placed' /\ Seen
<1>1. PICK p \in Priorities : PopFrom(w, p) /\ pool' = PopFront(pool, p) /\ pool[p] # <<>>
  <2>1. PICK p \in Priorities :
          PopFrom(w, p) /\ pool' = IF MayPopNothing(pool) THEN pool ELSE PopFront(pool, p)
    BY DEF Pop
  <2>2. ~MayPopNothing(pool)
    BY <2>1, SomeCoinComesUp DEF PopFrom
  <2> QED
    BY <2>1, <2>2 DEF PopFrom, MayPop
<1> DEFINE j == Head(pool[p])
<1>2. /\ HasLock(w) /\ running' = [running EXCEPT ![w] = j]
      /\ UNCHANGED <<main, idles, timers, sending, fresh, fallen, loop>>
  <2>1. ~MayPopNothing(pool)
    BY <1>1, SomeCoinComesUp DEF PopFrom
  <2> QED
    BY <1>1, <2>1 DEF PopFrom, mainVars, loopVars, auxVars
<1>3. /\ j \in PoolJobs /\ Contents(pool) = Contents(pool') \cup {j}
      /\ OnceIn(pool') /\ j \notin Contents(pool')
  BY <1>1, PoppedOnce, PoolIsQueues DEF IInv, Placed
<1> HIDE DEF j
<1>4. Sent' = Sent /\ SentOnce'
  BY <1>2, SendingStays DEF Placed
<1>5. j \notin Sent \cup Contents(main) \cup In(idles) \cup timers
  BY <1>3, PlaceTypes, KindsDiffer DEF IInv, Placed
<1>6. Waiting' = Waiting \ {j} /\ j \in Waiting
  BY <1>2, <1>3, <1>4, <1>5, WaitingIs
<1>7. Placed'
  <2>1. OnceIn(pool)' /\ OnceIn(main)' /\ Once(idles)' /\ (fresh \cap Waiting = {})'
    BY <1>2, <1>3, <1>6 DEF Placed, OnceIn
  <2>2. Sent \cap (Contents(pool') \cup Contents(main) \cup In(idles)) = {}
    BY <1>3 DEF Placed
  <2> QED
    BY <1>2, <1>4, <2>1, <2>2 DEF Placed, Contents
<1>8. /\ w \in Threads /\ j \in Jobs /\ w \in RunsOnOf(j) /\ w # Main
      /\ w \notin fallen /\ running[w] = None
  BY <1>2, <1>3, KindsDiffer DEF RunsOnOf, FallenRest, IInv, RunningRuns, HasLock
<1>9. Promise!Next
  BY <1>2, <1>6, <1>8, RunSeen DEF Gone
<1> QED
  BY <1>7, <1>9 DEF Seen

\* Steps that change neither a place nor who runs.
LEMMA StillStep ==
  ASSUME IInv, Placed,
         \/ \E w \in Workers : Sleep(w)
         \/ ReadPing \/ DrainEnds \/ HandlersEnd \/ DropReceiver \/ Stop
  PROVE  Placed' /\ Seen
<1> USE DEF poolVars, mainVars, loopVars, auxVars
<1>1. UNCHANGED <<pool, main, idles, timers, running, sending, fresh, fallen>>
  <2>1. ASSUME NEW w \in Workers, Sleep(w)
        PROVE  UNCHANGED <<pool, main, idles, timers, running, sending, fresh, fallen>>
    BY <2>1 DEF Sleep, WaitForNotify
  <2>2. CASE ReadPing \/ DrainEnds \/ HandlersEnd \/ DropReceiver \/ Stop
    BY <2>2 DEF ReadPing, DrainEnds, StopDraining, HandlersEnd, DropReceiver, Stop
  <2> QED
    BY <2>1, <2>2
<1>2. loop \in {"ended", "dropped"} <=> loop' \in {"ended", "dropped"}
  <2>1. ASSUME NEW w \in Workers, Sleep(w) PROVE loop' = loop
    BY <2>1 DEF Sleep, WaitForNotify
  <2>2. CASE ReadPing \/ DrainEnds \/ HandlersEnd \/ DropReceiver \/ Stop
    BY <2>2 DEF ReadPing, DrainEnds, StopDraining, HandlersEnd, DropReceiver, Stop
  <2> QED
    BY <2>1, <2>2
<1>3. Placed' /\ Waiting' = Waiting
  BY <1>1, SendingStays, StillPlaced DEF Placed
<1>4. Unseen
  BY <1>1, <1>2, <1>3 DEF Unseen, Gone
<1> QED
  BY <1>3, <1>4, UnseenIsStutter DEF Seen

LEMMA TakeStep ==
  ASSUME IInv, Placed, Take
  PROVE  Placed' /\ Seen
<1>1. PICK p \in Priorities :
        /\ main[p] # <<>> /\ main' = PopFront(main, p)
        /\ idles' = Append(idles, Head(main[p]))
  BY DEF Take, MayPop
<1> DEFINE j == Head(main[p])
<1>2. UNCHANGED <<pool, timers, running, sending, fresh, fallen, loop>>
  BY DEF Take, poolVars, auxVars
<1>3. /\ j \in MainJobs /\ Contents(main) = Contents(main') \cup {j}
      /\ OnceIn(main') /\ j \notin Contents(main')
  BY <1>1, PoppedOnce, PoolIsQueues DEF IInv, Placed
<1>4. idles' = Append(idles, j)
  BY <1>1
<1> HIDE DEF j
<1>5. j \notin In(idles) /\ Once(idles) /\ j \notin Sent
  BY <1>3 DEF Placed
<1>6. In(idles') = In(idles) \cup {j} /\ Once(idles')
  BY <1>3, <1>4, <1>5, Appended DEF IInv, TypeOK
<1>7. Sent' = Sent /\ SentOnce'
  BY <1>2, SendingStays DEF Placed
<1>8. Waiting' = Waiting
  BY <1>2, <1>3, <1>6, <1>7, WaitingIs
<1>9. Placed'
  <2>1. OnceIn(pool)' /\ OnceIn(main)' /\ Once(idles)' /\ (fresh \cap Waiting = {})'
    BY <1>2, <1>3, <1>6, <1>8 DEF Placed, OnceIn, Once
  <2>2. /\ Sent \cap (Contents(pool) \cup Contents(main') \cup In(idles')) = {}
        /\ Contents(main') \cap In(idles') = {}
    BY <1>3, <1>5, <1>6 DEF Placed
  <2> QED
    BY <1>2, <1>7, <2>1, <2>2 DEF Placed, Contents, In
<1>10. Unseen
  BY <1>2, <1>8 DEF Unseen, Gone
<1> QED
  BY <1>9, <1>10, UnseenIsStutter DEF Seen

LEMMA IdleStep ==
  ASSUME IInv, Placed, FallenRest, Idle
  PROVE  Placed' /\ Seen
<1> DEFINE j == Head(idles)
<1>1. /\ loop = "idles" /\ idles # <<>> /\ running[Main] = None
      /\ running' = [running EXCEPT ![Main] = j] /\ idles' = Tail(idles)
      /\ UNCHANGED <<pool, main, timers, sending, fresh, fallen, loop>>
  BY DEF Idle, poolVars, mainVars, auxVars
<1>2. /\ j \in MainJobs /\ In(idles) = In(idles') \cup {j}
      /\ Once(idles') /\ j \notin In(idles')
  BY <1>1, Tailed DEF IInv, TypeOK, Placed
<1> HIDE DEF j
<1>3. Sent' = Sent /\ SentOnce'
  BY <1>1, SendingStays DEF Placed
<1>4. j \notin Sent \cup Contents(pool) \cup Contents(main) \cup timers
  BY <1>2, PlaceTypes, KindsDiffer DEF IInv, Placed
<1>5. Waiting' = Waiting \ {j} /\ j \in Waiting
  BY <1>1, <1>2, <1>3, <1>4, WaitingIs
<1>6. Placed'
  <2>1. OnceIn(pool)' /\ OnceIn(main)' /\ Once(idles)' /\ (fresh \cap Waiting = {})'
    BY <1>1, <1>2, <1>5 DEF Placed, OnceIn, Once
  <2>2. /\ Sent \cap (Contents(pool) \cup Contents(main) \cup In(idles')) = {}
        /\ Contents(main) \cap In(idles') = {}
    BY <1>2 DEF Placed
  <2> QED
    BY <1>1, <1>3, <2>1, <2>2 DEF Placed, Contents, In
<1>7. Main \in Threads /\ j \in Jobs /\ Main \in RunsOnOf(j) /\ Main \notin Gone
  BY <1>1, <1>2, KindsDiffer DEF RunsOnOf, FallenRest, Gone
<1>8. Promise!Next
  BY <1>1, <1>5, <1>7, RunSeen DEF Gone
<1> QED
  BY <1>6, <1>8 DEF Seen

LEMMA FireStep ==
  ASSUME IInv, Placed, NEW j \in TimerJobs, Fire(j)
  PROVE  Placed' /\ Seen
<1>1. /\ running[Timer] = None /\ j \in timers /\ Timer \notin fallen
      /\ timers' = timers \ {j} /\ running' = [running EXCEPT ![Timer] = j]
      /\ UNCHANGED <<pool, main, idles, sending, fresh, fallen, loop>>
  BY DEF Fire, poolVars, mainVars, loopVars, auxVars
<1>2. Sent' = Sent /\ SentOnce'
  BY <1>1, SendingStays DEF Placed
<1>3. j \notin Sent \cup Contents(pool) \cup Contents(main) \cup In(idles)
  BY PlaceTypes, KindsDiffer DEF IInv
<1>4. Waiting' = Waiting \ {j} /\ j \in Waiting
  BY <1>1, <1>2, <1>3, WaitingIs
<1>5. Placed'
  BY <1>1, <1>2, <1>4 DEF Placed
<1>6. Timer \in Threads /\ j \in Jobs /\ Timer \in RunsOnOf(j) /\ Timer \notin Gone
  BY <1>1, KindsDiffer DEF RunsOnOf, Gone
<1>7. Promise!Next
  BY <1>1, <1>4, <1>6, RunSeen DEF Gone
<1> QED
  BY <1>5, <1>7 DEF Seen

LEMMA ReturnSteps ==
  ASSUME IInv, Placed, NEW t \in Threads, Finish(t),
         UNCHANGED <<pool, main, idles, timers, fallen, loop>>
  PROVE  Placed' /\ Seen
<1>1. /\ running[t] # None /\ running' = [running EXCEPT ![t] = None]
      /\ UNCHANGED <<sending, fresh>>
  BY DEF Finish
<1>2. Placed' /\ Waiting' = Waiting
  BY <1>1, SendingStays, StillPlaced DEF Placed
<1>3. Promise!Next
  BY <1>1, <1>2, ReturnSeen DEF Gone
<1> QED
  BY <1>2, <1>3 DEF Seen

LEMMA IterateStep ==
  ASSUME IInv, Placed, Iterate
  PROVE  Placed' /\ Seen
<1>1. /\ loop' = (IF stopped THEN "ended" ELSE "polls") /\ loop \in {"idles", "polls"}
      /\ running[Main] = None
      /\ UNCHANGED <<pool, main, idles, timers, running, sending, fresh, fallen>>
  BY DEF Iterate, IInv, MainRuns, poolVars, mainVars, auxVars
<1>2. Placed' /\ Waiting' = Waiting
  BY <1>1, SendingStays, StillPlaced DEF Placed
<1>3. CASE stopped
  <2>1. Gone' = Gone \cup {Main}
    BY <1>1, <1>3 DEF Gone
  <2>2. running' = [running EXCEPT ![Main] = None]
    BY <1>1 DEF IInv, TypeOK
  <2>3. {} \in SUBSET Waiting /\ {} \subseteq Jobs /\ Waiting' = Waiting \ {}
    BY <1>2
  <2>4. \A j \in {} : RunsOnOf(j) \subseteq Gone
    OBVIOUS
  <2>5. Promise!Next
    BY <1>1, <2>1, <2>2, <2>3, <2>4, KindsDiffer, EndSeen
  <2> QED
    BY <1>2, <2>5 DEF Seen
<1>4. CASE ~stopped
  <2>1. Unseen
    BY <1>1, <1>2, <1>4 DEF Unseen, Gone
  <2> QED
    BY <1>2, <2>1, UnseenIsStutter DEF Seen
<1> QED
  BY <1>3, <1>4

\* A thread that is gone stays so.
LEMMA FallenStep ==
  ASSUME IInv, FallenRest, Next
  PROVE  FallenRest'
<1> USE DEF poolVars, mainVars, loopVars, auxVars
<1>0. TypeOK /\ RunningRuns /\ MainRuns
  BY DEF IInv
<1>1. ASSUME NEW t \in Threads, NEW js, Unwind(t, js) PROVE FallenRest'
  BY <1>0, <1>1, KindsDiffer DEF Unwind, FallenRest, TypeOK
<1>2. ASSUME NEW t \in Threads, SendPool(t) PROVE FallenRest'
  BY <1>0, <1>2 DEF SendPool, PushPool, NotifyOne, Asleep, FallenRest, TypeOK
<1>3. ASSUME NEW w \in Workers, Sleep(w) \/ Pop(w) PROVE FallenRest'
  BY <1>0, <1>3 DEF Sleep, WaitForNotify, Pop, PopFrom, HasLock, FallenRest, TypeOK
<1>4. ASSUME NEW w \in Workers, WorkerReturns(w) PROVE FallenRest'
  BY <1>0, <1>4 DEF WorkerReturns, Finish, RunningRuns, FallenRest, TypeOK
<1>5. CASE ReadPing \/ Take \/ DrainEnds \/ HandlersEnd \/ Idle \/ Iterate \/ DropReceiver
  BY <1>5 DEF ReadPing, Take, DrainEnds, StopDraining, HandlersEnd, Idle, Iterate, DropReceiver,
              FallenRest
<1>6. ASSUME UNCHANGED <<worker, loop, fallen>> PROVE FallenRest'
  BY <1>6 DEF FallenRest
<1>7. CASE IdleReturns \/ Stop \/ RunTimer
  BY <1>6, <1>7 DEF IdleReturns, Stop, RunTimer, TimerReturns, Fire
<1>8. ASSUME NEW t \in Threads,
             \/ CountReceivers(t) \/ SendMain(t) \/ Ping(t)
             \/ \E j \in Jobs : Dispatch(t, j) \/ DispatchAfter(t, j)
      PROVE  FallenRest'
  BY <1>6, <1>8 DEF CountReceivers, SendMain, Ping, Dispatch, DispatchAfter
<1>9. ASSUME NEW t \in Threads, RunnablePanics(t) \/ DispatchPanics(t) PROVE FallenRest'
  BY <1>1, <1>9 DEF RunnablePanics, DispatchPanics
<1> QED
  BY <1>2, <1>3, <1>4, <1>5, <1>7, <1>8, <1>9 DEF Next, Send, Work, RunLoop

LEMMA NextPlaced ==
  ASSUME IInv, Placed, FallenRest, Next
  PROVE  Placed' /\ Seen
<1> USE DEF poolVars, mainVars, loopVars
<1>1. ASSUME NEW t \in Threads, NEW j \in Jobs, Dispatch(t, j) \/ DispatchAfter(t, j)
      PROVE  Placed' /\ Seen
  BY <1>1, DispatchStep, DispatchAfterStep
<1>2. ASSUME NEW t \in Threads, Send(t) \/ RunnablePanics(t) PROVE Placed' /\ Seen
  BY <1>2, CountReceiversStep, PanicSteps, SendPoolStep, SendMainStep, PingStep DEF Send
<1>3. ASSUME NEW w \in Workers, Work(w) PROVE Placed' /\ Seen
  <2>1. CASE WorkerReturns(w)
    BY <2>1, KindsDiffer, ReturnSteps DEF WorkerReturns
  <2>2. CASE Sleep(w) \/ Pop(w)
    BY <2>2, StillStep, PopStep
  <2> QED
    BY <1>3, <2>1, <2>2 DEF Work
<1>4. CASE RunLoop
  <2>1. CASE IdleReturns
    BY <2>1, KindsDiffer, ReturnSteps DEF IdleReturns
  <2>2. CASE ReadPing \/ DrainEnds \/ HandlersEnd
    BY <2>2, StillStep
  <2> QED
    BY <1>4, <2>1, <2>2, TakeStep, IdleStep, IterateStep DEF RunLoop
<1>5. CASE Stop \/ DropReceiver
  BY <1>5, StillStep
<1>6. CASE RunTimer
  <2>1. CASE TimerReturns
    BY <2>1, KindsDiffer, ReturnSteps DEF TimerReturns
  <2> QED
    BY <1>6, <2>1, FireStep DEF RunTimer
<1> QED
  BY <1>1, <1>2, <1>3, <1>4, <1>5, <1>6 DEF Next

------------------------------------------------------------------------------
(***************************************************************************)
(* The refinement.                                                         *)
(***************************************************************************)
LEMMA InitPlaced == Init => Placed /\ FallenRest /\ Promise!Init
<1> SUFFICES ASSUME Init PROVE Placed /\ FallenRest /\ Promise!Init
  OBVIOUS
<1>1. /\ \A p \in Priorities : pool[p] = <<>> /\ main[p] = <<>>
      /\ idles = <<>> /\ timers = {} /\ fallen = {} /\ loop = "polls" /\ fresh = Jobs
      /\ running = [t \in Threads |-> None] /\ \A t \in Threads : sending[t] = None
  BY DEF Init, EmptyQueues
<1>2. DOMAIN <<>> = {}
  OBVIOUS
<1>3. In(idles) = {} /\ Once(idles) /\ \A p \in Priorities : In(pool[p]) = {} /\ In(main[p]) = {}
  BY <1>1, <1>2 DEF In, Once
<1>4. OnceIn(pool) /\ OnceIn(main)
  BY <1>1, <1>2, <1>3 DEF OnceIn, Once
<1>5. Contents(pool) = {} /\ Contents(main) = {}
  BY <1>1, <1>2 DEF Contents
<1>6. Sent = {} /\ SentOnce
  BY <1>1 DEF Sent, SentOnce, Sends
<1>7. Waiting = {}
  BY <1>1, <1>3, <1>5, <1>6, WaitingIs
<1>8. Promise!Init
  BY <1>1, <1>7 DEF Promise!Init
<1>9. Placed /\ FallenRest
  BY <1>1, <1>3, <1>4, <1>5, <1>6, <1>7 DEF Placed, FallenRest
<1> QED
  BY <1>8, <1>9

\* For any pool and any number of runnables, however their dispatches, the
\* workers and the event loop interleave and whatever panics: a runnable runs
\* once, on a thread of its kind, and is lost only with those threads.
THEOREM ImplementsRunOnce == Spec => KeepsPromise
<1>1. Init => Placed /\ FallenRest /\ Promise!Init
  BY InitPlaced
<1>2. IInv /\ Placed /\ FallenRest /\ [Next]_vars
        => Placed' /\ FallenRest' /\ [Promise!Next]_(Promise!rvars)
  <2> SUFFICES ASSUME IInv, Placed, FallenRest, [Next]_vars
               PROVE  Placed' /\ FallenRest' /\ [Promise!Next]_(Promise!rvars)
    OBVIOUS
  <2>1. CASE Next
    BY <2>1, NextPlaced, FallenStep DEF Seen
  <2>2. CASE UNCHANGED vars
    <3>1. UNCHANGED <<pool, main, idles, timers, running, sending, fresh, fallen, loop, worker>>
      BY <2>2 DEF vars, poolVars, mainVars, loopVars, auxVars
    <3>2. Placed' /\ Waiting' = Waiting
      BY <3>1, SendingStays, StillPlaced DEF Placed
    <3>3. Unseen /\ FallenRest'
      BY <3>1, <3>2 DEF Unseen, Gone, FallenRest
    <3> QED
      BY <3>2, <3>3, UnseenIsStutter
  <2> QED
    BY <2>1, <2>2
<1> QED
  BY <1>1, <1>2, Invariance, PTL DEF Spec, KeepsPromise, Promise!Spec
------------------------------------------------------------------------------
(***************************************************************************)
(* The other platforms: how a runnable wakes the main thread on Windows    *)
(* and on the web (MainThreadWake), for any number of runnables and of     *)
(* failed calls.                                                           *)
(***************************************************************************)

\* A send that found the flag set after it was cleared is the business of
\* whoever set it, who has yet to post the message or has.
RecheckedHasWake ==
  platform = "windows" /\ mainThread = "recheck" /\ flag /\ lost # "send" =>
    wakes > 0 \/ \E i \in Items : at[i] = "signalled"

\* On the web, what is queued since the last pop is of senders that have not
\* set `signal` or, once the loop sleeps, have not notified it.
UnpoppedIsSent ==
  platform = "web" /\ lost = "no" =>
    /\ mainThread \in {"clear", "wait"} => \A i \in queue : at[i] = "sent"
    /\ mainThread = "idle" => wakes > 0 \/ \A i \in queue : at[i] \in {"sent", "signalled"}

\* The loop finds `signal` set before it sleeps only after such a race.
SetIsRaced == platform = "web" /\ mainThread = "wait" /\ flag => lost = "race"

WakeInv == /\ WakeTypeOK /\ QueuedIsWoken /\ FlagHasWake
           /\ AsleepIsNotified /\ ExitsOnlyRaced
           /\ RecheckedHasWake /\ UnpoppedIsSent /\ SetIsRaced

LEMMA InitWakeInv == WakeInit => WakeInv
<1> SUFFICES ASSUME WakeInit PROVE WakeInv
  OBVIOUS
<1>1. WakeTypeOK
  <2>1. platform \in {"windows", "web"} /\ mainThread \in MainSteps
    BY DEF WakeInit, MainSteps
  <2>2. failed \in 0 .. MaxFailed
    BY FailedAssumption DEF WakeInit
  <2>3. at \in [Items -> {"new", "sent", "signalled", "done"}]
    BY DEF WakeInit
  <2>4. /\ queue \subseteq Items /\ ran \subseteq Items /\ flag \in BOOLEAN /\ wakes \in Nat
        /\ lost \in {"no", "send", "timeout", "race"}
    BY DEF WakeInit
  <2> QED
    BY <2>1, <2>2, <2>3, <2>4 DEF WakeTypeOK
<1>2. QueuedIsWoken /\ FlagHasWake /\ AsleepIsNotified /\ ExitsOnlyRaced
  BY DEF WakeInit, QueuedIsWoken, FlagHasWake, AsleepIsNotified, ExitsOnlyRaced
<1>3. RecheckedHasWake /\ UnpoppedIsSent /\ SetIsRaced
  BY DEF WakeInit, RecheckedHasWake, UnpoppedIsSent, SetIsRaced
<1> QED
  BY <1>1, <1>2, <1>3 DEF WakeInv

LEMMA NextWakeInv == WakeInv /\ [WakeNext]_wakeVars => WakeInv'
<1> SUFFICES ASSUME WakeInv, [WakeNext]_wakeVars PROVE WakeInv'
  OBVIOUS
<1> USE DEF WakeInv, WakeTypeOK, MainSteps, QueuedIsWoken, FlagHasWake,
            AsleepIsNotified, ExitsOnlyRaced, RecheckedHasWake, UnpoppedIsSent, SetIsRaced
<1>1. ASSUME NEW i \in Items, SendRunnable(i) PROVE WakeInv'
  BY <1>1 DEF SendRunnable, Moves
<1>2. ASSUME NEW i \in Items, Swap(i) PROVE WakeInv'
  BY <1>2 DEF Swap, Moves
<1>3. ASSUME NEW i \in Items, PostMessage(i) PROVE WakeInv'
  BY <1>3 DEF PostMessage, Moves
<1>4. ASSUME NEW i \in Items, PostMessageFails(i) PROVE WakeInv'
  BY <1>4, FailedAssumption DEF PostMessageFails, Moves
<1>5. ASSUME NEW i \in Items, Store(i) PROVE WakeInv'
  BY <1>5 DEF Store, Moves
<1>6. ASSUME NEW i \in Items, NotifyWaiter(i) PROVE WakeInv'
  BY <1>6 DEF NotifyWaiter, Moves
<1>7. CASE Wake
  BY <1>7 DEF Wake
<1>8. ASSUME NEW i \in Items, PopAndRun(i) PROVE WakeInv'
  BY <1>8 DEF PopAndRun, TakeAndRun
<1>9. CASE PopNothing
  BY <1>9 DEF PopNothing
<1>10. CASE TimeOut
  BY <1>10 DEF TimeOut, Goes
<1>11. CASE TimeOutFails
  <2>1. /\ platform = "windows" /\ mainThread = "pop" /\ mainThread' = "idle" /\ flag' = FALSE
        /\ UNCHANGED <<platform, at, queue, ran, wakes>>
    BY <1>11 DEF TimeOutFails, TimeOutLosing, Goes
  <2>2. lost' \in {"send", "timeout"}
    BY <1>11 DEF TimeOutFails, TimeOutLosing
  <2>3. failed' \in 0 .. MaxFailed
    BY <1>11, FailedAssumption DEF TimeOutFails, TimeOutLosing
  <2> QED
    BY <2>1, <2>2, <2>3
<1>12. CASE Clear
  BY <1>12 DEF Clear, Goes
<1>13. CASE Recheck
  BY <1>13 DEF Recheck, Goes, TakeAndRun
<1>14. CASE SetAgain
  BY <1>14 DEF SetAgain, Goes
<1>15. CASE WaitAsync
  BY <1>15 DEF WaitAsync, Goes
<1>16. CASE UNCHANGED wakeVars
  BY <1>16 DEF wakeVars
<1> QED
  BY <1>1, <1>2, <1>3, <1>4, <1>5, <1>6, <1>7, <1>8, <1>9, <1>10, <1>11, <1>12, <1>13,
     <1>14, <1>15, <1>16 DEF WakeNext, MainThread, Sender

LEMMA WakeInvariance == WakeSpec => []WakeInv
BY InitWakeInv, NextWakeInv, PTL DEF WakeSpec

\* Types, for any number of runnables and of failed calls of PostMessage.
THEOREM WakeTypeCorrect == WakeSpec => []WakeTypeOK
BY WakeInvariance, PTL DEF WakeInv

\* Nothing waits in the queue that nobody will look for, but for a message
\* that could not be posted and a post that raced the sleep of the waker loop.
THEOREM NoLostWake == WakeSpec => []QueuedIsWoken
BY WakeInvariance, PTL DEF WakeInv

\* A thread that finds wake_posted set may leave the wake to another.
THEOREM SetFlagIsEnough == WakeSpec => []FlagHasWake
BY WakeInvariance, PTL DEF WakeInv

\* The waker loop does not sleep through a `signal` that is set.
THEOREM SleepsUnsignalled == WakeSpec => []AsleepIsNotified
BY WakeInvariance, PTL DEF WakeInv

\* The waker loop exits only if a post came between its last pop and its sleep.
THEOREM ExitIsARace == WakeSpec => []ExitsOnlyRaced
BY WakeInvariance, PTL DEF WakeInv
=============================================================================
