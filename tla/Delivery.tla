------------------------------- MODULE Delivery -------------------------------
(***************************************************************************)
(* What the task pipeline of distributed-system promises about a task: it  *)
(* is under way from its publication on, each store takes it once at most  *)
(* while it is, and once it is over nothing brings it back.                *)
(***************************************************************************)
EXTENDS Naturals

CONSTANTS
    Tasks,      \* requests, by request_id
    Stores      \* whoever stores results

VARIABLES
    fate,       \* "new", "underway" or "over"
    stored      \* rows, by store and task

dvars == <<fate, stored>>

Init ==
    /\ fate = [t \in Tasks |-> "new"]
    /\ stored = [a \in Stores |-> [t \in Tasks |-> 0]]

\* A task sets out, or is dropped as soon as it is published.
Publish(t) ==
    /\ fate[t] = "new"
    /\ fate' = [fate EXCEPT ![t] = "underway"]
    /\ UNCHANGED stored

\* A store takes a task, which may be the end of its way.
Store(a, t) ==
    /\ fate[t] = "underway" /\ stored[a][t] = 0
    /\ stored' = [stored EXCEPT ![a][t] = 1]
    /\ fate' \in {fate, [fate EXCEPT ![t] = "over"]}

\* Tasks get lost on their way, or have been stored wherever they go.
End(lost) ==
    /\ lost # {} /\ \A t \in lost : fate[t] = "underway"
    /\ fate' = [t \in Tasks |-> IF t \in lost THEN "over" ELSE fate[t]]
    /\ UNCHANGED stored

Next ==
    \/ \E t \in Tasks : Publish(t) \/ \E a \in Stores : Store(a, t)
    \/ \E lost \in SUBSET Tasks : End(lost)

Spec == Init /\ [][Next]_dvars
=============================================================================
