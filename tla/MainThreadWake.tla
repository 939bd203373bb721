---------------------------- MODULE MainThreadWake ----------------------------
(***************************************************************************)
(* How a runnable sent to the main thread wakes it on Windows              *)
(* (gpui_windows: dispatcher.rs, platform.rs) and on the web (gpui_web:    *)
(* dispatcher.rs).  Both put it in a queue and set a flag all sends share: *)
(* on Windows the one who sets wake_posted posts a message, on the web the *)
(* waker loop sleeps in Atomics.waitAsync while `signal` is 0.             *)
(*                                                                         *)
(* Left out: priorities (PriorityQueue), the receiver dropped at exit, the *)
(* input and paint messages a Windows loop out of time processes, its move *)
(* and resize loops, and timers.                                           *)
(***************************************************************************)
EXTENDS Naturals

CONSTANTS Items,     \* runnables sent from other threads
          MaxFailed  \* bound: calls of PostMessage that fail

ASSUME FailedAssumption == MaxFailed \in Nat

VARIABLES
  platform,  \* "windows" or "web"
  at,        \* of a runnable: how far the thread that sends it is
  queue,     \* runnables in the queue
  ran,       \* runnables run
  flag,      \* wake_posted, or `signal` being 1
  wakes,     \* messages posted, or 1 for a resolved promise of waitAsync
  mainThread, \* where the main thread is
  \* Auxiliary.
  failed,    \* calls of PostMessage that failed
  lost       \* since the main thread last woke: "send" or "timeout" if a
             \* call of PostMessage failed, "race" if a post set `signal`
             \* between the last pop of the waker loop and its sleep

wakeVars == <<platform, at, queue, ran, flag, wakes, mainThread, failed, lost>>

MainSteps == IF platform = "web" THEN {"clear", "wait", "idle", "pop", "exited"}
                                 ELSE {"idle", "pop", "clear", "recheck", "set"}

WakeTypeOK == /\ platform \in {"windows", "web"}
              /\ at \in [Items -> {"new", "sent", "signalled", "done"}]
              /\ queue \subseteq Items /\ ran \subseteq Items
              /\ flag \in BOOLEAN
              /\ wakes \in Nat
              /\ mainThread \in MainSteps
              /\ failed \in 0 .. MaxFailed
              /\ lost \in {"no", "send", "timeout", "race"}

WakeInit == /\ platform \in {"windows", "web"}
            /\ at = [i \in Items |-> "new"] /\ queue = {} /\ ran = {}
            /\ flag = FALSE /\ wakes = 0
            /\ mainThread = IF platform = "web" THEN "clear" ELSE "idle"
            /\ failed = 0 /\ lost = "no"

------------------------------------------------------------------------------
(***************************************************************************)
(* Threads that send.                                                      *)
(***************************************************************************)
Moves(i, from, to) == at[i] = from /\ at' = [at EXCEPT ![i] = to]

SendRunnable(i) ==
  /\ Moves(i, "new", "sent")
  /\ queue' = queue \cup {i}
  /\ UNCHANGED <<platform, ran, flag, wakes, mainThread, failed, lost>>

\* wake_posted.swap(true): who finds it set leaves the wake to another.
Swap(i) ==
  /\ platform = "windows"
  /\ Moves(i, "sent", IF flag THEN "done" ELSE "signalled")
  /\ flag' = TRUE
  /\ UNCHANGED <<platform, queue, ran, wakes, mainThread, failed, lost>>

PostMessage(i) ==
  /\ platform = "windows"
  /\ Moves(i, "signalled", "done")
  /\ wakes' = wakes + 1
  /\ UNCHANGED <<platform, queue, ran, flag, mainThread, failed, lost>>

\* The error is logged, and wake_posted stays set.
PostMessageFails(i) ==
  /\ platform = "windows"
  /\ Moves(i, "signalled", "done")
  /\ failed < MaxFailed
  /\ failed' = failed + 1 /\ lost' = "send"
  /\ UNCHANGED <<platform, queue, ran, flag, wakes, mainThread>>

\* MainThreadMailbox::post.
Store(i) ==
  /\ platform = "web"
  /\ Moves(i, "sent", "signalled")
  /\ flag' = TRUE
  /\ lost' = IF mainThread \in {"clear", "wait"} THEN "race" ELSE lost
  /\ UNCHANGED <<platform, queue, ran, wakes, mainThread, failed>>

NotifyWaiter(i) ==
  /\ platform = "web"
  /\ Moves(i, "signalled", "done")
  /\ wakes' = IF mainThread = "idle" THEN 1 ELSE wakes
  /\ UNCHANGED <<platform, queue, ran, flag, mainThread, failed, lost>>

Sender(i) == \/ SendRunnable(i) \/ Swap(i) \/ PostMessage(i) \/ Store(i) \/ NotifyWaiter(i)

------------------------------------------------------------------------------
(***************************************************************************)
(* The main thread.                                                        *)
(***************************************************************************)
Goes(p, from, to) == platform = p /\ mainThread = from /\ mainThread' = to

\* A message begins run_foreground_task, the promise drain.
Wake ==
  /\ mainThread = "idle" /\ wakes > 0
  /\ mainThread' = "pop"
  /\ wakes' = wakes - 1 /\ lost' = "no"
  /\ UNCHANGED <<platform, at, queue, ran, flag, failed>>

TakeAndRun(i) ==
  /\ i \in queue
  /\ queue' = queue \ {i} /\ ran' = ran \cup {i}

\* Mutant of PopAndRun: one runnable each time.
PopAndRunOne(i) ==
  /\ mainThread = "pop" /\ TakeAndRun(i) /\ mainThread' = "clear"
  /\ UNCHANGED <<platform, at, flag, wakes, failed, lost>>

PopAndRun(i) ==
  /\ mainThread = "pop" /\ TakeAndRun(i)
  /\ UNCHANGED <<platform, at, flag, wakes, mainThread, failed, lost>>

\* Windows goes on to clear the flag, the waker loop to the top of its loop.
PopNothing ==
  /\ mainThread = "pop" /\ queue = {}
  /\ mainThread' = "clear"
  /\ UNCHANGED <<platform, at, queue, ran, flag, wakes, failed, lost>>

TimeOut ==
  /\ Goes("windows", "pop", "idle")
  /\ wakes' = wakes + 1
  /\ UNCHANGED <<platform, at, queue, ran, flag, failed, lost>>

TimeOutLosing ==
  /\ Goes("windows", "pop", "idle")
  /\ failed < MaxFailed
  /\ failed' = failed + 1
  /\ lost' = IF lost = "send" THEN lost ELSE "timeout"
  /\ UNCHANGED <<platform, at, queue, ran, wakes>>

\* Mutant of TimeOutFails: the error is ignored.
TimeOutFailsIgnored == TimeOutLosing /\ UNCHANGED flag

\* Out of time, run_foreground_task posts itself a message.  If it cannot,
\* the next send will.
TimeOutFails == TimeOutLosing /\ flag' = FALSE

\* Mutant of Clear: the flag stays set.
ClearNothing ==
  /\ Goes("windows", "clear", "recheck") \/ Goes("web", "clear", "wait")
  /\ UNCHANGED <<platform, at, queue, ran, flag, wakes, failed, lost>>

Clear ==
  /\ Goes("windows", "clear", "recheck") \/ Goes("web", "clear", "wait")
  /\ flag' = FALSE
  /\ UNCHANGED <<platform, at, queue, ran, wakes, failed, lost>>

\* Mutant of Recheck: the queue is not looked at again.
RecheckNothing ==
  /\ Goes("windows", "recheck", "idle")
  /\ UNCHANGED <<platform, at, queue, ran, flag, wakes, failed, lost>>

\* The pop after the flag is cleared, and the flag set again if it finds one.
Recheck ==
  \/ Goes("windows", "recheck", "idle") /\ queue = {}
       /\ UNCHANGED <<platform, at, queue, ran, flag, wakes, failed, lost>>
  \/ Goes("windows", "recheck", "set") /\ \E i \in Items : TakeAndRun(i)
       /\ UNCHANGED <<platform, at, flag, wakes, failed, lost>>

SetAgain ==
  /\ Goes("windows", "set", "pop")
  /\ flag' = TRUE
  /\ UNCHANGED <<platform, at, queue, ran, wakes, failed, lost>>

\* Mutant of WaitAsync: the value is not compared.
WaitAsyncAlways ==
  /\ Goes("web", "wait", "idle")
  /\ UNCHANGED <<platform, at, queue, ran, flag, wakes, failed, lost>>

\* Atomics.waitAsync(signal, 0): the loop exits unless `signal` is 0.
WaitAsync ==
  /\ Goes("web", "wait", IF flag THEN "exited" ELSE "idle")
  /\ UNCHANGED <<platform, at, queue, ran, flag, wakes, failed, lost>>

MainThread == \/ Wake \/ PopNothing \/ TimeOut \/ Clear \/ Recheck \/ SetAgain \/ WaitAsync
              \/ \E i \in Items : PopAndRun(i)

WakeNext == \/ MainThread \/ TimeOutFails
            \/ \E i \in Items : Sender(i) \/ PostMessageFails(i)

WakeSpec == WakeInit /\ [][WakeNext]_wakeVars

\* Threads run, and run_foreground_task is not always out of time at once.
WakeFairSpec == /\ WakeSpec /\ WF_wakeVars(MainThread)
                /\ SF_wakeVars(PopNothing \/ \E i \in Items : PopAndRun(i))
                /\ \A i \in Items : WF_wakeVars(Sender(i))
------------------------------------------------------------------------------
(***************************************************************************)
(* Properties.                                                             *)
(***************************************************************************)

\* A runnable in the queue has somebody who will look: a wake on its way, the
\* main thread about to pop, or a sender about to signal.  The exceptions are
\* a message that could not be posted and a post that came as the waker loop
\* went to sleep, and they last until the main thread wakes again.
QueuedIsWoken ==
  queue # {} /\ lost = "no" =>
    \/ wakes > 0
    \/ \E i \in Items : at[i] \in {"sent", "signalled"}
    \/ mainThread \in {"pop", "recheck", "set"} \/ (platform = "windows" /\ mainThread = "clear")

\* What sends that find wake_posted set rely on: a message is posted or about
\* to be, or run_foreground_task has yet to look at the queue.  A send that
\* fails to post breaks it, a loop out of time that fails to does not.
FlagHasWake ==
  platform = "windows" /\ flag /\ lost # "send" =>
    wakes > 0 \/ mainThread # "idle" \/ \E i \in Items : at[i] = "signalled"

\* The same for the waker loop: it sleeps with `signal` set only while a
\* sender is about to notify it or has.
AsleepIsNotified ==
  platform = "web" /\ mainThread = "idle" /\ flag =>
    wakes > 0 \/ \E i \in Items : at[i] = "signalled"

\* The waker loop exits, for good, only if a post set `signal` after the loop
\* last found the queue empty and before it slept.
ExitsOnlyRaced == mainThread = "exited" => lost = "race"

\* Every runnable sent runs, but for those left behind by a message that
\* could not be posted or by the exit of the waker loop, until the main thread
\* wakes again.
SentRuns == <>[](lost = "no" => queue = {})
=============================================================================
