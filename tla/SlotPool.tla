------------------------------ MODULE SlotPool ------------------------------
(***************************************************************************)
(* What the per-IP connection limiter promises to the accept path: every   *)
(* address has max slots; a connection is admitted exactly when a slot of  *)
(* its address is free, and a slot is free again as soon as the connection *)
(* that held it has released it.  No counter and no map: only who holds.   *)
(***************************************************************************)
EXTENDS Naturals, FiniteSets

CONSTANTS Conns,    \* connection tasks
          IPs,      \* peer addresses
          IpOf      \* the address each connection comes from

VARIABLES max,      \* limits.per_ip_max_connections, which nothing changes
          holders,  \* connections that were admitted and have not released
          refused   \* connections that were turned away

vars == <<max, holders, refused>>

HoldersOf(ip) == {c \in holders : IpOf[c] = ip}

Init == max \in Nat /\ holders = {} /\ refused = {}

Admit(c) ==
    /\ c \notin holders \cup refused
    /\ Cardinality(HoldersOf(IpOf[c])) < max
    /\ holders' = holders \cup {c}
    /\ UNCHANGED <<max, refused>>

Refuse(c) ==
    /\ c \notin holders \cup refused
    /\ Cardinality(HoldersOf(IpOf[c])) = max
    /\ refused' = refused \cup {c}
    /\ UNCHANGED <<max, holders>>

Release(c) ==
    /\ c \in holders
    /\ holders' = holders \ {c}
    /\ UNCHANGED <<max, refused>>

\* A refused task ends, and its identity serves a later connection.
Forget(c) ==
    /\ c \in refused
    /\ refused' = refused \ {c}
    /\ UNCHANGED <<max, holders>>

Next == \E c \in Conns : Admit(c) \/ Refuse(c) \/ Release(c) \/ Forget(c)

Spec == Init /\ [][Next]_vars
=============================================================================
