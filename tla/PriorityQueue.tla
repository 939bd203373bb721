---------------------------- MODULE PriorityQueue ----------------------------
(***************************************************************************)
(* The contents of gpui's priority queue (crates/gpui/src/queue.rs): one   *)
(* FIFO per priority, and a pop that throws a biased coin for each of them *)
(* that has an element.  Which thread holds the lock, waits or is woken is *)
(* the business of the modules that use a queue.                           *)
(***************************************************************************)
EXTENDS Integers, Sequences

High   == "high"
Medium == "medium"
Low    == "low"

Priorities == {High, Medium, Low}

Weight(p) == CASE p = High -> 60 [] p = Medium -> 30 [] p = Low -> 10

EmptyQueues == [p \in Priorities |-> <<>>]

IsEmpty(q) == \A p \in Priorities : q[p] = <<>>

Length(q, p) == Len(q[p])

Size(q) == Length(q, High) + Length(q, Medium) + Length(q, Low)

Push(q, p, x) == [q EXCEPT ![p] = Append(@, x)]

PopFront(q, p) == [q EXCEPT ![p] = Tail(@)]

\* What a FIFO adds to the mass: nothing when it is empty.
Held(q, p) == IF q[p] = <<>> THEN 0 ELSE Weight(p)

FullMass(q) == Held(q, High) + Held(q, Medium) + Held(q, Low)

\* Mutant of MassAt: the mass is not reduced after a coin that came up false.
MassUnreduced(q, p) == FullMass(q)

\* The mass when it is the turn of p: the FIFOs before it have had theirs.
MassAt(q, p) == CASE p = High   -> FullMass(q)
                  [] p = Medium -> FullMass(q) - Held(q, High)
                  [] p = Low    -> FullMass(q) - Held(q, High) - Held(q, Medium)

\* random_ratio(Weight(p), MassAt(q, p)) may come up false.
PassedOver(q, p) == q[p] = <<>> \/ Weight(p) < MassAt(q, p)

Before(p) == CASE p = High -> {} [] p = Medium -> {High}
               [] p = Low -> {High, Medium}

\* A pop may take the first element of p.
MayPop(q, p) == q[p] # <<>> /\ \A r \in Before(p) : PassedOver(q, r)

\* No coin need come up true: the pop may find nothing.
MayPopNothing(q) == \A p \in Priorities : PassedOver(q, p)
=============================================================================
