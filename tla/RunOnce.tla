------------------------------- MODULE RunOnce -------------------------------
(***************************************************************************)
(* What a dispatcher promises, without queues, counters or wakeups: a      *)
(* runnable is dispatched once, waits, and then one thread of its kind     *)
(* runs it, once.  It is given up only when no thread is left to run it.   *)
(***************************************************************************)
CONSTANTS Jobs, Threads, None,
          RunsOn  \* of a runnable: the threads that may run it

VARIABLES fresh,    \* runnables not dispatched yet
          waiting,  \* dispatched, and not begun
          running,  \* the runnable a thread runs
          over      \* threads that run no more

rvars == <<fresh, waiting, running, over>>

Init == /\ fresh = Jobs /\ waiting = {} /\ over = {}
        /\ running = [t \in Threads |-> None]

Dispatch(j) == /\ j \in fresh
               /\ fresh' = fresh \ {j}
               /\ waiting' = waiting \cup {j}
               /\ UNCHANGED <<running, over>>

Run(t, j) == /\ j \in waiting
             /\ t \in RunsOn[j] \ over /\ running[t] = None
             /\ waiting' = waiting \ {j}
             /\ running' = [running EXCEPT ![t] = j]
             /\ UNCHANGED <<fresh, over>>

Return(t) == /\ running[t] # None
             /\ running' = [running EXCEPT ![t] = None]
             /\ UNCHANGED <<fresh, waiting, over>>

NobodyRuns(j) == RunsOn[j] \subseteq over

GiveUp(j) == /\ j \in fresh \cup waiting
             /\ NobodyRuns(j)
             /\ fresh' = fresh \ {j} /\ waiting' = waiting \ {j}
             /\ UNCHANGED <<running, over>>

\* A thread ends, with what it was running and what it failed to dispatch.
End(t, js) == /\ \A j \in js : NobodyRuns(j)
              /\ over' = over \cup {t}
              /\ running' = [running EXCEPT ![t] = None]
              /\ waiting' = waiting \ js
              /\ UNCHANGED fresh

Next == \/ \E j \in Jobs : Dispatch(j) \/ GiveUp(j) \/ \E t \in Threads : Run(t, j)
        \/ \E t \in Threads : Return(t) \/ \E js \in SUBSET waiting : End(t, js)

Spec == Init /\ [][Next]_rvars
=============================================================================
