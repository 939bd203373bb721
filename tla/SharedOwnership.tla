--------------------------- MODULE SharedOwnership ---------------------------
(***************************************************************************)
(* What gpui's entity handles promise, without counters, locks or lists:   *)
(* an entity is alive from its creation, may gain a handle only while it   *)
(* has one, and is released once, after its last handle is gone.           *)
(***************************************************************************)
CONSTANTS Entities, Handles

VARIABLES refs,    \* the strong handles to each entity
          state    \* unborn, alive or released

ovars == <<refs, state>>

Init == /\ refs = [e \in Entities |-> {}]
        /\ state = [e \in Entities |-> "unborn"]

Fresh(h) == \A e \in Entities : h \notin refs[e]

Create(e, h) == /\ state[e] = "unborn"
                /\ Fresh(h)
                /\ state' = [state EXCEPT ![e] = "alive"]
                /\ refs' = [refs EXCEPT ![e] = {h}]

Share(e, h) == /\ refs[e] # {}
               /\ Fresh(h)
               /\ refs' = [refs EXCEPT ![e] = @ \cup {h}]
               /\ UNCHANGED state

Forget(e, h) == /\ h \in refs[e]
                /\ refs' = [refs EXCEPT ![e] = @ \ {h}]
                /\ UNCHANGED state

\* Unreferenced entities are released in batches.
Release(S) == /\ \A e \in S : state[e] = "alive" /\ refs[e] = {}
              /\ state' = [e \in Entities |-> IF e \in S THEN "released" ELSE state[e]]
              /\ UNCHANGED refs

Next == \/ \E e \in Entities, h \in Handles : Create(e, h) \/ Share(e, h) \/ Forget(e, h)
        \/ \E S \in SUBSET Entities : Release(S)

Spec == Init /\ [][Next]_ovars
=============================================================================
