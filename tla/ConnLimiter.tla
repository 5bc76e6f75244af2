---------------------------- MODULE ConnLimiter ----------------------------
(***************************************************************************)
(* The per-IP connection limiter of the IRC server                         *)
(* (irc-server/src/limiter.rs): a concurrent map from address to counter.  *)
(*                                                                         *)
(* try_acquire keeps the map entry locked while its compare-and-swap loop  *)
(* runs, so it is one step.  release is two: the counter is decremented    *)
(* under a read guard, the guard is dropped, and only then is the entry    *)
(* removed if it is still zero.  Other connections run in between.         *)
(***************************************************************************)
EXTENDS Naturals, FiniteSets

CONSTANTS Conns,    \* connection tasks, from any worker thread
          IPs,      \* peer addresses
          IpOf,     \* the address each connection comes from
          Max,      \* limits.per_ip_max_connections
          MaxU32,   \* largest value of the AtomicU32 counter
          Absent    \* no entry in the map

ASSUME LimiterAssumption ==
    /\ IsFiniteSet(Conns)
    /\ IpOf \in [Conns -> IPs]
    /\ MaxU32 \in Nat
    /\ Max \in 0..MaxU32
    /\ Absent \notin Nat

VARIABLES counts,   \* the DashMap<IpAddr, AtomicU32>
          task      \* what each connection task is doing with the limiter

vars == <<counts, task>>

TypeOK ==
    /\ counts \in [IPs -> 0..MaxU32 \cup {Absent}]
    /\ task \in [Conns -> {"idle", "held", "refused", "removing"}]

Init ==
    /\ counts = [ip \in IPs |-> Absent]
    /\ task = [c \in Conns |-> "idle"]

\* entry(ip).or_insert_with(0): the value the loop works on.
Entry(ip) == IF counts[ip] = Absent THEN 0 ELSE counts[ip]

\* fetch_sub(1) on a u32.
Decrement(n) == IF n = 0 THEN MaxU32 ELSE n - 1

\* Seeded fault: admits one connection too many.
TryAcquireOffByOne(c) ==
    LET ip == IpOf[c] IN
    /\ task[c] = "idle"
    /\ Entry(ip) <= Max
    /\ counts' = [counts EXCEPT ![ip] = Entry(ip) + 1]
    /\ task' = [task EXCEPT ![c] = "held"]

\* or_insert_with has already created the entry when the slot is refused.
TryAcquire(c) ==
    LET ip == IpOf[c] IN
    /\ task[c] = "idle"
    /\ \/ /\ Entry(ip) >= Max
          /\ counts' = [counts EXCEPT ![ip] = Entry(ip)]
          /\ task' = [task EXCEPT ![c] = "refused"]
       \/ /\ Entry(ip) < Max
          /\ counts' = [counts EXCEPT ![ip] = Entry(ip) + 1]
          /\ task' = [task EXCEPT ![c] = "held"]

\* The task of a refused connection returns; a later connection may come.
Refused(c) ==
    /\ task[c] = "refused"
    /\ task' = [task EXCEPT ![c] = "idle"]
    /\ UNCHANGED counts

\* Seeded fault: the last release leaves its entry behind.
ReleaseKeepsEntry(c) ==
    LET ip == IpOf[c] IN
    /\ task[c] = "held"
    /\ counts' = [counts EXCEPT ![ip] = Decrement(@)]
    /\ task' = [task EXCEPT ![c] = IF counts[ip] < 1 THEN "removing" ELSE "idle"]

\* First half of release: decrement, and stay to remove if it looked last.
Release(c) ==
    LET ip == IpOf[c] IN
    /\ task[c] = "held"
    /\ IF counts[ip] = Absent
       THEN task' = [task EXCEPT ![c] = "idle"] /\ UNCHANGED counts
       ELSE /\ counts' = [counts EXCEPT ![ip] = Decrement(@)]
            /\ task' = [task EXCEPT ![c] =
                            IF counts[ip] <= 1 THEN "removing" ELSE "idle"]

\* Seeded fault: removes the entry without looking at it again.
RemoveUnchecked(c) ==
    /\ task[c] = "removing"
    /\ counts' = [counts EXCEPT ![IpOf[c]] = Absent]
    /\ task' = [task EXCEPT ![c] = "idle"]

\* Second half of release, on the map as it is by now.
RemoveIfZero(c) ==
    LET ip == IpOf[c] IN
    /\ task[c] = "removing"
    /\ counts' = [counts EXCEPT ![ip] = IF @ = 0 THEN Absent ELSE @]
    /\ task' = [task EXCEPT ![c] = "idle"]

Next == \E c \in Conns :
    TryAcquire(c) \/ Refused(c) \/ Release(c) \/ RemoveIfZero(c)

Spec == Init /\ [][Next]_vars
-----------------------------------------------------------------------------
Holders(ip) == {c \in Conns : task[c] = "held" /\ IpOf[c] = ip}
Removing(ip) == {c \in Conns : task[c] = "removing" /\ IpOf[c] = ip}

\* The inductive invariant: every counter is the number of holders, within
\* the limit, and a zero counter has a releasing task about to remove it.
CountIsHolders ==
    \A ip \in IPs : Entry(ip) = Cardinality(Holders(ip)) /\ Entry(ip) <= Max
ZeroIsBeingRemoved ==
    Max > 0 => \A ip \in IPs : counts[ip] = 0 => Removing(ip) # {}
IInv == TypeOK /\ CountIsHolders /\ ZeroIsBeingRemoved

\* The limiter never admits more than limits.per_ip_max_connections
\* connections of one address, whatever releases and removals overlap
\* (connection.rs calls try_acquire before it serves the socket).
AtMostMax == \A ip \in IPs : Cardinality(Holders(ip)) <= Max

\* The map does not grow with past clients: once no release of an address is
\* half done, an entry means that some connection still holds a slot
\* (limiter.rs: "removed to avoid unbounded map growth").  With a limit of
\* zero, try_acquire itself leaves zero entries behind.
NoStaleEntry ==
    Max > 0 =>
        \A ip \in IPs :
            Removing(ip) = {} =>
                (counts[ip] # Absent <=> Holders(ip) # {})

\* The counter map implements the pool of slots: admission and refusal are
\* decided as if by the set of connections that hold a slot.
Slots == INSTANCE SlotPool
    WITH max <- Max,
         holders <- {c \in Conns : task[c] = "held"},
         refused <- {c \in Conns : task[c] = "refused"}
ImplementsSlots == Slots!Spec
=============================================================================
