-------------------------------- MODULE Rooms --------------------------------
(***************************************************************************)
(* What the channel registry promises, without Channel objects, lookups,   *)
(* locks and jobs: a relation between users and channels, entered and left *)
(* one user at a time, with operators made by the first to enter and by    *)
(* operators.  A channel with members in it disappears only where handlers *)
(* interleave.                                                             *)
(***************************************************************************)
CONSTANTS Users, Chans

VARIABLES
    serial,     \* handlers run one at a time
    who,        \* the members of each channel
    ops         \* its operators

rvars == <<serial, who, ops>>

Init ==
    /\ serial \in BOOLEAN
    /\ who = [c \in Chans |-> {}]
    /\ ops = [c \in Chans |-> {}]

\* The first to enter becomes an operator.
Enter(u, c) ==
    /\ u \notin who[c]
    /\ who' = [who EXCEPT ![c] = @ \cup {u}]
    /\ ops' = [ops EXCEPT ![c] = IF who[c] = {} THEN {u} ELSE @]
    /\ UNCHANGED serial

Leave(u, c) ==
    /\ u \in who[c]
    /\ who' = [who EXCEPT ![c] = @ \ {u}]
    /\ ops' = [ops EXCEPT ![c] = @ \ {u}]
    /\ UNCHANGED serial

\* An operator makes a member one, or makes it none.
Promote(a, v, c) ==
    /\ a \in ops[c] /\ v \in who[c]
    /\ \/ ops' = [ops EXCEPT ![c] = @ \cup {v}]
       \/ ops' = [ops EXCEPT ![c] = @ \ {v}]
    /\ UNCHANGED <<serial, who>>

\* The race of remove_empty_channel: the name leads nowhere, or to a new
\* channel, while the members are still in the old one.
Split(c) ==
    /\ ~serial
    /\ who' = [who EXCEPT ![c] = {}]
    /\ ops' = [ops EXCEPT ![c] = {}]
    /\ UNCHANGED serial

Next ==
    \E c \in Chans :
        \/ \E u \in Users : Enter(u, c) \/ Leave(u, c)
        \/ \E a, v \in Users : Promote(a, v, c)
        \/ Split(c)

Spec == Init /\ [][Next]_rvars
=============================================================================
