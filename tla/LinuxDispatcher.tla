--------------------------- MODULE LinuxDispatcher ---------------------------
(***************************************************************************)
(* How gpui's runnables get to run on Linux (crates/gpui_linux/src/linux/  *)
(* dispatcher.rs over crates/gpui/src/queue.rs): background ones through a *)
(* priority queue that a pool of workers waits on, foreground ones through *)
(* a priority queue whose sender pings the main thread's event loop,       *)
(* delayed ones through a thread that sleeps.  A runnable that runs on any *)
(* of these threads is user code and dispatches others.                    *)
(*                                                                         *)
(* A critical section of a queue's lock is one step; what a thread does    *)
(* outside it (the load of receiver_count before it, the ping after it) is *)
(* a step of its own.  A panic of a runnable unwinds its thread, for good. *)
(* Left out: the end of the senders, which live in the dispatcher and so   *)
(* as long as the process.                                                 *)
(***************************************************************************)
EXTENDS PriorityQueue, FiniteSets

CONSTANTS Workers,     \* threads of the pool
          Main,        \* the thread of the event loop
          Timer,       \* the thread of the timers
          PoolJobs,    \* runnables to run in the pool
          MainJobs,    \* runnables to run on the main thread
          TimerJobs,   \* runnables to run after a while
          PriorityOf,  \* the priority of each background runnable
          Panicking,   \* bound: the runnables that may panic
          Together,    \* bound: sets of runnables, one of which is dispatched
          None

Threads == Workers \cup {Main, Timer}
Jobs    == PoolJobs \cup MainJobs \cup TimerJobs

\* A dispatch being made, and its next step.
Dispatches == [job : PoolJobs \cup MainJobs, at : {"count", "push", "ping"}]

ASSUME ThreadsAssumption ==
  /\ IsFiniteSet(Workers) /\ Workers # {}
  /\ Main \notin Workers \cup {Timer} /\ Timer \notin Workers
ASSUME JobsAssumption ==
  /\ PoolJobs \cap MainJobs = {} /\ PoolJobs \cap TimerJobs = {}
  /\ MainJobs \cap TimerJobs = {}
  /\ None \notin Jobs \cup Dispatches
  /\ PriorityOf \in [PoolJobs -> Priorities] /\ Panicking \subseteq Jobs

VARIABLES
  pool,       \* the queue of background_sender
  worker,     \* what each worker does
  main,       \* the queue of main_sender
  receivers,  \* receiver_count of that queue
  pinged,     \* the ping source of the event loop is readable
  loop,       \* what the event loop does
  drained,    \* it has taken a runnable since the last ping
  idles,      \* runnables it has taken, inserted as idle callbacks
  stopped,    \* LoopSignal::stop was called
  timers,     \* runnables sent to the timer thread
  running,    \* the runnable a thread runs
  sending,    \* the dispatch a thread is making
  fallen,     \* threads that a panic of user code has unwound
  fresh,      \* auxiliary: runnables not dispatched yet
  done        \* auxiliary: runnables that ran or were forgotten

poolVars  == <<pool, worker>>
mainVars  == <<main, receivers, pinged>>
loopVars  == <<loop, drained, idles, stopped>>
auxVars   == <<fresh, done>>
vars == <<poolVars, mainVars, loopVars, timers, running, sending, fallen, auxVars>>

TypeOK ==
  /\ pool \in [Priorities -> Seq(PoolJobs)]
  /\ worker \in [Workers -> {"recv", "asleep", "woken", "runs", "panicked"}]
  /\ main \in [Priorities -> Seq(MainJobs)]
  /\ receivers \in 0 .. 2
  /\ pinged \in BOOLEAN /\ drained \in BOOLEAN /\ stopped \in BOOLEAN
  /\ loop \in {"polls", "drains", "handles", "idles", "ended", "dropped"}
  /\ idles \in Seq(MainJobs)
  /\ timers \subseteq TimerJobs
  /\ running \in [Threads -> Jobs \cup {None}]
  /\ sending \in [Threads -> Dispatches \cup {None}]
  /\ fallen \subseteq Threads
  /\ fresh \subseteq Jobs /\ done \subseteq Jobs

Init == /\ pool = EmptyQueues /\ main = EmptyQueues
        /\ worker = [w \in Workers |-> "recv"]
        /\ receivers = 1 /\ pinged = FALSE
        /\ loop = "polls" /\ drained = FALSE /\ idles = <<>> /\ stopped = FALSE
        /\ timers = {}
        /\ running = [t \in Threads |-> None]
        /\ sending = [t \in Threads |-> None]
        /\ fallen = {} /\ fresh = Jobs /\ done = {}

------------------------------------------------------------------------------
(***************************************************************************)
(* User code: a runnable, or on the main thread the handler of some other  *)
(* event.                                                                  *)
(***************************************************************************)
UserCode(t) == /\ sending[t] = None
               /\ running[t] # None \/ (t = Main /\ loop \in {"polls", "handles"})

MayCome(j) == /\ j \in fresh
              /\ \E js \in Together : {j} \cup (Jobs \ fresh) \subseteq js

\* dispatch and dispatch_on_main_thread.
Dispatch(t, j) ==
  /\ UserCode(t)
  /\ MayCome(j) /\ j \notin TimerJobs
  /\ fresh' = fresh \ {j}
  /\ sending' = [sending EXCEPT ![t] = [job |-> j, at |-> "count"]]
  /\ UNCHANGED <<poolVars, mainVars, loopVars, timers, running, done, fallen>>

\* The timer thread that a panic has unwound took its channel with it.
DispatchAfter(t, j) ==
  /\ UserCode(t)
  /\ MayCome(j) /\ j \in TimerJobs
  /\ fresh' = fresh \ {j}
  /\ IF Timer \in fallen
     THEN done' = done \cup {j} /\ UNCHANGED timers
     ELSE timers' = timers \cup {j} /\ UNCHANGED done
  /\ UNCHANGED <<poolVars, mainVars, loopVars, running, sending, fallen>>

Stop ==
  /\ UserCode(Main) /\ ~stopped
  /\ stopped' = TRUE
  /\ UNCHANGED <<poolVars, mainVars, loop, drained, idles, timers, running, sending, auxVars, fallen>>

At(t, step) == sending[t] # None /\ sending[t].at = step

\* Each worker has a receiver of the pool, until it is unwound.
Receivers(j) == IF j \in MainJobs THEN receivers
                ELSE Cardinality({w \in Workers : worker[w] # "panicked"})

\* The count is read before the lock is taken.  On the main thread's queue,
\* with no receiver, the runnable is forgotten.
CountReceivers(t) ==
  /\ At(t, "count")
  /\ LET j == sending[t].job
     IN  \/ /\ Receivers(j) > 0
            /\ sending' = [sending EXCEPT ![t].at = "push"]
            /\ UNCHANGED done
         \/ /\ Receivers(j) = 0 /\ j \in MainJobs
            /\ sending' = [sending EXCEPT ![t] = None]
            /\ done' = done \cup {j}
  /\ UNCHANGED <<poolVars, mainVars, loopVars, timers, running, fresh, fallen>>

\* A panic in thread t: its receivers go with it, and the event loop ends if
\* it is the main thread.
Unwind(t, jobs) ==
  /\ fallen' = fallen \cup {t}
  /\ running' = [running EXCEPT ![t] = None]
  /\ done' = done \cup jobs \cup ({running[t]} \ {None})
  /\ worker' = IF t \in Workers THEN [worker EXCEPT ![t] = "panicked"] ELSE worker
  /\ loop' = IF t = Main THEN "ended" ELSE loop
  /\ UNCHANGED <<pool, mainVars, drained, idles, stopped, timers, fresh>>

\* Nobody catches the panic of a runnable.
RunnablePanics(t) ==
  /\ running[t] \in Panicking /\ sending[t] = None
  /\ Unwind(t, {})
  /\ UNCHANGED sending

\* dispatch panics when the pool has no worker left.
DispatchPanics(t) ==
  /\ At(t, "count")
  /\ LET j == sending[t].job IN j \in PoolJobs /\ Receivers(j) = 0 /\ Unwind(t, {j})
  /\ sending' = [sending EXCEPT ![t] = None]

Asleep == {w \in Workers : worker[w] = "asleep"}
Woken  == {w \in Workers : worker[w] = "woken"}

PushPool(t) ==
  /\ At(t, "push") /\ sending[t].job \in PoolJobs
  /\ pool' = Push(pool, PriorityOf[sending[t].job], sending[t].job)
  /\ sending' = [sending EXCEPT ![t] = None]
  /\ UNCHANGED <<mainVars, loopVars, timers, running, auxVars, fallen>>

NotifyOne == IF Asleep = {} THEN UNCHANGED worker
             ELSE \E w \in Asleep : worker' = [worker EXCEPT ![w] = "woken"]

\* Mutant of SendPool: a worker is woken for the first runnable only.
SendPoolWhenEmpty(t) ==
  PushPool(t) /\ IF IsEmpty(pool) THEN NotifyOne ELSE UNCHANGED worker

SendPool(t) == PushPool(t) /\ NotifyOne

\* Foreground runnables all have the default priority; nobody waits on the
\* condition variable of their queue.
SendMain(t) ==
  /\ At(t, "push") /\ sending[t].job \in MainJobs
  /\ main' = Push(main, Medium, sending[t].job)
  /\ sending' = [sending EXCEPT ![t].at = "ping"]
  /\ UNCHANGED <<poolVars, receivers, pinged, loopVars, timers, running, auxVars, fallen>>

Ping(t) ==
  /\ At(t, "ping")
  /\ pinged' = TRUE
  /\ sending' = [sending EXCEPT ![t] = None]
  /\ UNCHANGED <<poolVars, main, receivers, loopVars, timers, running, auxVars, fallen>>

Send(t) == CountReceivers(t) \/ DispatchPanics(t) \/ SendPool(t) \/ SendMain(t) \/ Ping(t)

Finish(t) == /\ running[t] # None /\ sending[t] = None
             /\ running' = [running EXCEPT ![t] = None]
             /\ done' = done \cup {running[t]}
             /\ UNCHANGED <<sending, fresh>>

------------------------------------------------------------------------------
(***************************************************************************)
(* A worker: the iterator over its receiver.                               *)
(***************************************************************************)
\* recv holds the lock here: the worker has just come for a runnable, or
\* has been woken.
HasLock(w) == worker[w] \in {"recv", "woken"}

WaitForNotify(w) ==
  /\ HasLock(w)
  /\ worker' = [worker EXCEPT ![w] = "asleep"]
  /\ UNCHANGED <<pool, mainVars, loopVars, timers, running, sending, auxVars, fallen>>

\* Mutant of Sleep: a worker that comes back waits without a look at the queue.
SleepUnlooking(w) == WaitForNotify(w) /\ (worker[w] = "recv" \/ IsEmpty(pool))

Sleep(w) == WaitForNotify(w) /\ IsEmpty(pool)

\* pop_inner under the lock; pop unwraps its answer, which is none if no
\* coin came up true.
PopFrom(w, p) ==
  /\ HasLock(w) /\ ~IsEmpty(pool)
  /\ IF MayPopNothing(pool)
     THEN /\ worker' = [worker EXCEPT ![w] = "panicked"]
          /\ UNCHANGED running
     ELSE /\ MayPop(pool, p)
          /\ worker' = [worker EXCEPT ![w] = "runs"]
          /\ running' = [running EXCEPT ![w] = Head(pool[p])]
  /\ UNCHANGED <<mainVars, loopVars, timers, sending, auxVars, fallen>>

\* Mutant of Pop: the front is read and removed in two critical sections, so
\* another worker may see it between them.
PopTwice(w) ==
  \E p \in Priorities : PopFrom(w, p) /\ pool' \in {pool, PopFront(pool, p)}

Pop(w) ==
  \E p \in Priorities :
    /\ PopFrom(w, p)
    /\ pool' = IF MayPopNothing(pool) THEN pool ELSE PopFront(pool, p)

WorkerReturns(w) ==
  /\ Finish(w)
  /\ worker' = [worker EXCEPT ![w] = "recv"]
  /\ UNCHANGED <<pool, mainVars, loopVars, timers, fallen>>

Work(w) == Sleep(w) \/ Pop(w) \/ WorkerReturns(w)

(***************************************************************************)
(* The event loop.                                                         *)
(***************************************************************************)
\* process_events: the ping source is drained and the receiver cloned.
ReadPing ==
  /\ loop = "polls" /\ pinged /\ sending[Main] = None
  /\ loop' = "drains" /\ pinged' = FALSE /\ drained' = FALSE
  /\ receivers' = receivers + 1
  /\ UNCHANGED <<poolVars, main, idles, stopped, timers, running, sending, auxVars, fallen>>

\* The clients insert the runnable as an idle callback.
Take ==
  /\ loop = "drains" /\ ~IsEmpty(main)
  /\ \E p \in Priorities :
       /\ MayPop(main, p)
       /\ main' = PopFront(main, p)
       /\ idles' = Append(idles, Head(main[p]))
  /\ drained' = TRUE
  /\ UNCHANGED <<poolVars, receivers, pinged, loop, stopped, timers, running, sending, auxVars, fallen>>

StopDraining ==
  /\ loop = "drains"
  /\ loop' = "handles"
  /\ UNCHANGED <<poolVars, main, drained, idles, stopped, timers, running, sending, auxVars, fallen>>

\* Mutant of DrainEnds: the loop stops before the queue is empty.
DrainEndsEarly == StopDraining /\ receivers' = receivers - 1 /\ UNCHANGED pinged

\* The queue was seen empty; after a pass that found something the source is
\* pinged again.
DrainEnds ==
  /\ StopDraining
  /\ IsEmpty(main)
  /\ pinged' = (pinged \/ drained)
  /\ receivers' = receivers - 1

\* The other sources of the iteration have been handled too.
HandlersEnd ==
  /\ loop = "handles" /\ sending[Main] = None
  /\ loop' = "idles"
  /\ UNCHANGED <<poolVars, mainVars, drained, idles, stopped, timers, running, sending, auxVars, fallen>>

Idle ==
  /\ loop = "idles" /\ idles # <<>> /\ running[Main] = None
  /\ running' = [running EXCEPT ![Main] = Head(idles)]
  /\ idles' = Tail(idles)
  /\ UNCHANGED <<poolVars, mainVars, loop, drained, stopped, timers, sending, auxVars, fallen>>

IdleReturns == Finish(Main) /\ UNCHANGED <<poolVars, mainVars, loopVars, timers, fallen>>

\* The end of an iteration of the loop.
Iterate ==
  /\ \/ loop = "idles" /\ idles = <<>> /\ running[Main] = None
     \/ loop = "polls" /\ stopped /\ sending[Main] = None
  /\ loop' = IF stopped THEN "ended" ELSE "polls"
  /\ UNCHANGED <<poolVars, mainVars, drained, idles, stopped, timers, running, sending, auxVars, fallen>>

\* The event loop's sources go with its last handle.
DropReceiver ==
  /\ loop = "ended"
  /\ loop' = "dropped" /\ receivers' = receivers - 1
  /\ UNCHANGED <<poolVars, main, pinged, drained, idles, stopped, timers, running, sending, auxVars, fallen>>

RunLoop == ReadPing \/ Take \/ DrainEnds \/ HandlersEnd \/ Idle \/ IdleReturns \/ Iterate

(***************************************************************************)
(* The timer thread.                                                       *)
(***************************************************************************)
Fire(j) ==
  /\ running[Timer] = None /\ j \in timers /\ Timer \notin fallen
  /\ timers' = timers \ {j}
  /\ running' = [running EXCEPT ![Timer] = j]
  /\ UNCHANGED <<poolVars, mainVars, loopVars, sending, auxVars, fallen>>

TimerReturns == Finish(Timer) /\ UNCHANGED <<poolVars, mainVars, loopVars, timers, fallen>>

RunTimer == TimerReturns \/ \E j \in TimerJobs : Fire(j)

Next == \/ \E t \in Threads : \/ \E j \in Jobs : Dispatch(t, j) \/ DispatchAfter(t, j)
                              \/ Send(t) \/ RunnablePanics(t)
        \/ \E w \in Workers : Work(w)
        \/ Stop \/ RunLoop \/ DropReceiver
        \/ RunTimer

Spec == Init /\ [][Next]_vars

\* Threads are scheduled, runnables and event handlers return, and timers
\* fire.
FairSpec == /\ Spec
            /\ \A t \in Threads : WF_vars(Send(t))
            /\ \A w \in Workers : WF_vars(Work(w))
            /\ WF_vars(RunLoop)
            /\ WF_vars(RunTimer)
------------------------------------------------------------------------------
(***************************************************************************)
(* Properties.                                                             *)
(***************************************************************************)

\* While a worker sleeps, the queued runnables are not more than the workers
\* woken for them: notify_one wakes one worker for each, an awake worker that
\* takes a runnable somebody was woken for leaves that one to sleep again,
\* and no runnable waits for a worker that sleeps.
SleepersAreNotNeeded == Asleep # {} => Size(pool) <= Cardinality(Woken)

\* A foreground runnable in the queue will be seen: the loop is pinged or
\* will be by the thread that pushed it, or it is draining, or is over.
QueuedIsPinged ==
  \/ IsEmpty(main)
  \/ pinged \/ \E t \in Threads : At(t, "ping")
  \/ loop \in {"drains", "ended", "dropped"}

Contents(q) == UNION {{q[p][i] : i \in DOMAIN q[p]} : p \in Priorities}

Waiting ==
  {sending[t].job : t \in {u \in Threads : sending[u] # None /\ sending[u].at # "ping"}}
    \cup Contents(pool) \cup Contents(main) \cup {idles[i] : i \in DOMAIN idles} \cup timers

\* Whoever takes it, and however often it is looked for, a dispatched runnable
\* runs once, on a thread of its kind, and is lost only with those threads.
Promise == INSTANCE RunOnce WITH
             waiting <- Waiting,
             over    <- fallen \cup (IF loop \in {"ended", "dropped"} THEN {Main} ELSE {}),
             RunsOn  <- [j \in Jobs |-> IF j \in PoolJobs THEN Workers
                                        ELSE IF j \in MainJobs THEN {Main} ELSE {Timer}]

KeepsPromise == Promise!Spec

\* The coins of pop_inner always find an element of a queue that has one:
\* the unwrap of pop does not fail, and a worker ends only by what it runs.
NoWorkerPanics == \A w \in Workers : worker[w] = "panicked" => w \in fallen

\* Every dispatched runnable runs, a foreground one unless the event loop
\* ends, a background one as long as one worker is left, a delayed one unless
\* its thread was unwound: once no more are dispatched, none stays in a queue
\* or in a thread.
DispatchedRuns ==
  <>[](Jobs \ fresh \subseteq
         done \cup (IF loop \in {"ended", "dropped"} THEN MainJobs ELSE {})
              \cup (IF Workers \subseteq fallen THEN PoolJobs ELSE {})
              \cup (IF Timer \in fallen THEN TimerJobs ELSE {}))
=============================================================================
