------------------------- MODULE ConnLimiterProofs -------------------------
(***************************************************************************)
(* Proofs about the per-IP connection limiter, for any set of connections, *)
(* addresses and any limit.                                                *)
(***************************************************************************)
EXTENDS ConnLimiter, FiniteSetTheorems, TLAPS

\* The connections that hold a slot of an address are finitely many: the
\* counter of irc-server/src/limiter.rs has a number to agree with.
LEMMA HoldersFinite ==
    ASSUME NEW ip
    PROVE  IsFiniteSet(Holders(ip)) /\ Cardinality(Holders(ip)) \in Nat
<1>1. Holders(ip) \in SUBSET Conns BY DEF Holders
<1> QED BY <1>1, FS_Subset, FS_CardinalityType, LimiterAssumption
           DEF LimiterAssumption

\* An admitted connection adds one holder to its address and to no other.
LEMMA HoldersGrow ==
    ASSUME TypeOK, NEW c \in Conns, task[c] # "held",
           task' = [task EXCEPT ![c] = "held"], NEW ip \in IPs
    PROVE  Cardinality(Holders(ip)') =
             IF ip = IpOf[c] THEN Cardinality(Holders(ip)) + 1
                             ELSE Cardinality(Holders(ip))
<1>1. CASE ip = IpOf[c]
  <2>1. Holders(ip)' = Holders(ip) \cup {c} BY <1>1 DEF Holders, TypeOK
  <2>2. c \notin Holders(ip) BY DEF Holders
  <2> QED BY <1>1, <2>1, <2>2, HoldersFinite, FS_AddElement
<1>2. CASE ip # IpOf[c]
  <2>1. Holders(ip)' = Holders(ip) BY <1>2 DEF Holders, TypeOK
  <2> QED BY <1>2, <2>1
<1> QED BY <1>1, <1>2

\* A releasing connection takes one holder from its address.
LEMMA HoldersShrink ==
    ASSUME TypeOK, NEW c \in Conns, task[c] = "held", NEW s, s # "held",
           task' = [task EXCEPT ![c] = s], NEW ip \in IPs
    PROVE  Cardinality(Holders(ip)') =
             IF ip = IpOf[c] THEN Cardinality(Holders(ip)) - 1
                             ELSE Cardinality(Holders(ip))
<1>1. CASE ip = IpOf[c]
  <2>1. Holders(ip)' = Holders(ip) \ {c} BY <1>1 DEF Holders, TypeOK
  <2>2. c \in Holders(ip) BY <1>1 DEF Holders
  <2> QED BY <1>1, <2>1, <2>2, HoldersFinite, FS_RemoveElement
<1>2. CASE ip # IpOf[c]
  <2>1. Holders(ip)' = Holders(ip) BY <1>2 DEF Holders, TypeOK
  <2> QED BY <1>2, <2>1
<1> QED BY <1>1, <1>2

\* Every other change of a task leaves the holders alone.
LEMMA HoldersKeep ==
    ASSUME TypeOK, NEW c \in Conns, task[c] # "held", NEW s, s # "held",
           task' = [task EXCEPT ![c] = s], NEW ip \in IPs
    PROVE  Holders(ip)' = Holders(ip)
BY DEF Holders, TypeOK

LEMMA LimiterInit == Init => IInv
<1> SUFFICES ASSUME Init PROVE IInv OBVIOUS
<1> USE LimiterAssumption DEF LimiterAssumption
<1>1. TypeOK BY DEF Init, TypeOK
<1>2. \A ip \in IPs : Holders(ip) = {} BY DEF Holders, Init
<1>3. CountIsHolders BY <1>2, FS_EmptySet DEF CountIsHolders, Entry, Init
<1>4. ZeroIsBeingRemoved BY DEF ZeroIsBeingRemoved, Init
<1> QED BY <1>1, <1>3, <1>4 DEF IInv

LEMMA LimiterStep == IInv /\ [Next]_vars => IInv'
<1> SUFFICES ASSUME IInv, [Next]_vars PROVE IInv' OBVIOUS
<1> USE LimiterAssumption DEF LimiterAssumption
<1>0. TypeOK /\ CountIsHolders /\ ZeroIsBeingRemoved BY DEF IInv
<1>1. ASSUME NEW c \in Conns, TryAcquire(c) PROVE IInv'
  <2> DEFINE ip == IpOf[c]
  <2>0. ip \in IPs /\ Entry(ip) \in Nat /\ task[c] = "idle"
    BY <1>0, <1>1 DEF TypeOK, Entry, TryAcquire
  <2>1. CASE /\ Entry(ip) >= Max
             /\ counts' = [counts EXCEPT ![ip] = Entry(ip)]
             /\ task' = [task EXCEPT ![c] = "refused"]
    <3>1. TypeOK' BY <1>0, <2>0, <2>1 DEF TypeOK, Entry
    <3>2. \A i \in IPs : Entry(i)' = Entry(i)
      BY <1>0, <2>0, <2>1 DEF TypeOK, Entry
    <3>3. \A i \in IPs : Holders(i)' = Holders(i)
      BY <1>0, <2>0, <2>1, HoldersKeep
    <3>4. CountIsHolders' BY <1>0, <3>2, <3>3 DEF CountIsHolders
    <3>5. ZeroIsBeingRemoved'
      <4> SUFFICES ASSUME Max > 0, NEW i \in IPs, counts'[i] = 0
                   PROVE  Removing(i)' # {}
        BY DEF ZeroIsBeingRemoved
      <4>1. counts[i] = 0 BY <1>0, <2>0, <2>1 DEF TypeOK, Entry
      <4>2. PICK d \in Conns : task[d] = "removing" /\ IpOf[d] = i
        BY <1>0, <4>1 DEF ZeroIsBeingRemoved, Removing
      <4>3. task'[d] = "removing" BY <1>0, <2>0, <2>1, <4>2 DEF TypeOK
      <4> QED BY <4>2, <4>3 DEF Removing
    <3> QED BY <3>1, <3>4, <3>5 DEF IInv
  <2>2. CASE /\ Entry(ip) < Max
             /\ counts' = [counts EXCEPT ![ip] = Entry(ip) + 1]
             /\ task' = [task EXCEPT ![c] = "held"]
    <3>1. TypeOK' BY <1>0, <2>0, <2>2 DEF TypeOK
    <3>2. \A i \in IPs : Entry(i)' = IF i = ip THEN Entry(i) + 1 ELSE Entry(i)
      BY <1>0, <2>0, <2>2 DEF TypeOK, Entry
    <3>3. \A i \in IPs : Cardinality(Holders(i)') =
             IF i = ip THEN Cardinality(Holders(i)) + 1
                       ELSE Cardinality(Holders(i))
      BY <1>0, <2>0, <2>2, HoldersGrow
    <3>4. CountIsHolders'
      BY <1>0, <2>0, <2>2, <3>2, <3>3 DEF CountIsHolders
    <3>5. ZeroIsBeingRemoved'
      <4> SUFFICES ASSUME Max > 0, NEW i \in IPs, counts'[i] = 0
                   PROVE  Removing(i)' # {}
        BY DEF ZeroIsBeingRemoved
      <4>1. counts[i] = 0 BY <1>0, <2>0, <2>2 DEF TypeOK, Entry
      <4>2. PICK d \in Conns : task[d] = "removing" /\ IpOf[d] = i
        BY <1>0, <4>1 DEF ZeroIsBeingRemoved, Removing
      <4>3. task'[d] = "removing" BY <1>0, <2>0, <2>2, <4>2 DEF TypeOK
      <4> QED BY <4>2, <4>3 DEF Removing
    <3> QED BY <3>1, <3>4, <3>5 DEF IInv
  <2> QED BY <1>1, <2>1, <2>2 DEF TryAcquire
<1>2. ASSUME NEW c \in Conns, Refused(c) PROVE IInv'
  <2>1. TypeOK' BY <1>0, <1>2 DEF TypeOK, Refused
  <2>2. \A i \in IPs : Holders(i)' = Holders(i)
    BY <1>0, <1>2, HoldersKeep DEF Refused
  <2>3. CountIsHolders' BY <1>0, <1>2, <2>2 DEF CountIsHolders, Entry, Refused
  <2>4. \A i \in IPs : Removing(i)' = Removing(i)
    BY <1>0, <1>2 DEF Removing, Refused, TypeOK
  <2>5. ZeroIsBeingRemoved'
    BY <1>0, <1>2, <2>4 DEF ZeroIsBeingRemoved, Refused
  <2> QED BY <2>1, <2>3, <2>5 DEF IInv
<1>3. ASSUME NEW c \in Conns, Release(c) PROVE IInv'
  <2> DEFINE ip == IpOf[c]
             next == IF counts[ip] <= 1 THEN "removing" ELSE "idle"
  <2>0. ip \in IPs /\ task[c] = "held" BY <1>3 DEF Release
  <2>1. counts[ip] \in 1..MaxU32
    <3>1. c \in Holders(ip) BY <2>0 DEF Holders
    <3>2. Cardinality(Holders(ip)) # 0 BY <3>1, HoldersFinite, FS_EmptySet
    <3>3. Entry(ip) # 0 BY <1>0, <2>0, <3>2 DEF CountIsHolders
    <3> QED BY <1>0, <2>0, <3>3 DEF TypeOK, Entry
  <2>2. counts' = [counts EXCEPT ![ip] = counts[ip] - 1]
        /\ task' = [task EXCEPT ![c] = next]
    BY <1>3, <2>1 DEF Release, Decrement
  <2>3. next # "held" /\ next \in {"idle", "removing"} OBVIOUS
  <2>4. TypeOK' BY <1>0, <2>0, <2>1, <2>2, <2>3 DEF TypeOK
  <2>5. \A i \in IPs : Entry(i)' = IF i = ip THEN Entry(i) - 1 ELSE Entry(i)
    BY <1>0, <2>0, <2>1, <2>2 DEF TypeOK, Entry
  <2>6. \A i \in IPs : Cardinality(Holders(i)') =
           IF i = ip THEN Cardinality(Holders(i)) - 1
                     ELSE Cardinality(Holders(i))
    BY <1>0, <2>0, <2>2, <2>3, HoldersShrink
  <2>7. CountIsHolders'
    <3> SUFFICES ASSUME NEW i \in IPs
                 PROVE  Entry(i)' = Cardinality(Holders(i)') /\ Entry(i)' <= Max
      BY DEF CountIsHolders
    <3>1. Entry(i) \in Nat BY <1>0 DEF TypeOK, Entry
    <3> QED BY <1>0, <2>5, <2>6, <3>1 DEF CountIsHolders
  <2>8. ZeroIsBeingRemoved'
    <3> SUFFICES ASSUME Max > 0, NEW i \in IPs, counts'[i] = 0
                 PROVE  Removing(i)' # {}
      BY DEF ZeroIsBeingRemoved
    <3>1. CASE i = ip
      <4>1. counts[ip] = 1 BY <1>0, <2>0, <2>1, <2>2, <3>1 DEF TypeOK
      <4>2. task'[c] = "removing" BY <1>0, <2>2, <4>1 DEF TypeOK
      <4> QED BY <3>1, <4>2 DEF Removing
    <3>2. CASE i # ip
      <4>1. counts[i] = 0 BY <1>0, <2>2, <3>2 DEF TypeOK
      <4>2. PICK d \in Conns : task[d] = "removing" /\ IpOf[d] = i
        BY <1>0, <4>1 DEF ZeroIsBeingRemoved, Removing
      <4>3. task'[d] = "removing" BY <1>0, <2>0, <2>2, <4>2 DEF TypeOK
      <4> QED BY <4>2, <4>3 DEF Removing
    <3> QED BY <3>1, <3>2
  <2> QED BY <2>4, <2>7, <2>8 DEF IInv
<1>4. ASSUME NEW c \in Conns, RemoveIfZero(c) PROVE IInv'
  <2> DEFINE ip == IpOf[c]
  <2>0. ip \in IPs /\ task[c] = "removing"
        /\ task' = [task EXCEPT ![c] = "idle"]
        /\ counts' = [counts EXCEPT ![ip] =
                        IF counts[ip] = 0 THEN Absent ELSE counts[ip]]
    BY <1>4 DEF RemoveIfZero
  <2>1. TypeOK' BY <1>0, <2>0 DEF TypeOK
  <2>2. \A i \in IPs : Entry(i)' = Entry(i) BY <1>0, <2>0 DEF TypeOK, Entry
  <2>3. \A i \in IPs : Holders(i)' = Holders(i) BY <1>0, <2>0, HoldersKeep
  <2>4. CountIsHolders' BY <1>0, <2>2, <2>3 DEF CountIsHolders
  <2>5. ZeroIsBeingRemoved'
    <3> SUFFICES ASSUME Max > 0, NEW i \in IPs, counts'[i] = 0
                 PROVE  Removing(i)' # {}
      BY DEF ZeroIsBeingRemoved
    <3>1. i # ip /\ counts[i] = 0 BY <1>0, <2>0 DEF TypeOK
    <3>2. PICK d \in Conns : task[d] = "removing" /\ IpOf[d] = i
      BY <1>0, <3>1 DEF ZeroIsBeingRemoved, Removing
    <3>3. task'[d] = "removing" BY <1>0, <2>0, <3>1, <3>2 DEF TypeOK
    <3> QED BY <3>2, <3>3 DEF Removing
  <2> QED BY <2>1, <2>4, <2>5 DEF IInv
<1>5. CASE UNCHANGED vars
  <2>1. \A ip : Holders(ip)' = Holders(ip) /\ Removing(ip)' = Removing(ip)
    BY <1>5 DEF Holders, Removing, vars
  <2> QED BY <1>0, <1>5, <2>1
          DEF IInv, TypeOK, CountIsHolders, ZeroIsBeingRemoved, Entry, vars
<1> QED BY <1>1, <1>2, <1>3, <1>4, <1>5 DEF Next

LEMMA LimiterInv == Spec => []IInv
BY LimiterInit, LimiterStep, PTL DEF Spec

\* The counters are u32 and never wrap below zero (fetch_sub, limiter.rs).
THEOREM CountersTyped == Spec => []TypeOK
<1>1. IInv => TypeOK BY DEF IInv
<1> QED BY <1>1, LimiterInv, PTL

\* At every moment and for every limit, an address holds at most Max slots
\* (try_acquire and release, limiter.rs).
THEOREM NeverOverLimit == Spec => []AtMostMax
<1>1. IInv => AtMostMax BY DEF IInv, CountIsHolders, AtMostMax
<1> QED BY <1>1, LimiterInv, PTL

\* Once its releases are finished, an address has an entry exactly when a
\* connection holds one of its slots (remove_if in release, limiter.rs).
THEOREM EntriesAreReclaimed == Spec => []NoStaleEntry
<1>1. IInv => NoStaleEntry
  <2> SUFFICES ASSUME IInv, Max > 0, NEW ip \in IPs, Removing(ip) = {}
               PROVE  counts[ip] # Absent <=> Holders(ip) # {}
    BY DEF NoStaleEntry
  <2> USE LimiterAssumption DEF LimiterAssumption
  <2>1. counts[ip] # 0 BY DEF IInv, ZeroIsBeingRemoved
  <2>2. Entry(ip) = Cardinality(Holders(ip)) BY DEF IInv, CountIsHolders
  <2>3. Cardinality(Holders(ip)) = 0 <=> Holders(ip) = {}
    BY HoldersFinite, FS_EmptySet
  <2> QED BY <2>1, <2>2, <2>3 DEF IInv, TypeOK, Entry
<1> QED BY <1>1, LimiterInv, PTL

\* Every step of the counter map is a step of the pool of slots, or changes
\* nothing the pool can see: no admission above the limit, and no refusal
\* while a slot is free, in any interleaving of releases and removals.
THEOREM LimiterRefinesSlots == Spec => ImplementsSlots
<1> USE LimiterAssumption DEF LimiterAssumption
<1> DEFINE H == {c \in Conns : task[c] = "held"}
           R == {c \in Conns : task[c] = "refused"}
<1>1. Init => Slots!Init BY DEF Init, Slots!Init
<1>2. IInv /\ [Next]_vars => [Slots!Next]_(Slots!vars)
  <2> SUFFICES ASSUME IInv, [Next]_vars PROVE [Slots!Next]_(Slots!vars) OBVIOUS
  <2>0. TypeOK BY DEF IInv
  <2>a. \A ip : Slots!HoldersOf(ip) = Holders(ip)
    BY DEF Slots!HoldersOf, Holders
  <2>c. \A S : Slots!Cardinality(S) = Cardinality(S)
    BY DEF Slots!Cardinality, Cardinality
  <2>b. \A ip \in IPs : Entry(ip) = Cardinality(Holders(ip)) /\ Entry(ip) <= Max
                        /\ Entry(ip) \in Nat
    BY HoldersFinite DEF IInv, CountIsHolders
  <2>1. ASSUME NEW c \in Conns, TryAcquire(c) PROVE Slots!Admit(c) \/ Slots!Refuse(c)
    <3>1. c \notin H /\ c \notin R BY <2>1 DEF TryAcquire
    <3>2. CASE Entry(IpOf[c]) >= Max /\ task' = [task EXCEPT ![c] = "refused"]
      <4>1. R' = R \cup {c} /\ H' = H BY <2>0, <2>1, <3>1, <3>2 DEF TypeOK
      <4>2. Slots!Cardinality(Slots!HoldersOf(IpOf[c])) = Max
        BY <2>a, <2>b, <2>c, <3>2
      <4> QED BY <3>1, <4>1, <4>2 DEF Slots!Refuse
    <3>3. CASE Entry(IpOf[c]) < Max /\ task' = [task EXCEPT ![c] = "held"]
      <4>1. H' = H \cup {c} /\ R' = R BY <2>0, <2>1, <3>1, <3>3 DEF TypeOK
      <4>2. Slots!Cardinality(Slots!HoldersOf(IpOf[c])) < Max
        BY <2>a, <2>b, <2>c, <3>3
      <4> QED BY <3>1, <4>1, <4>2 DEF Slots!Admit
    <3> QED BY <2>1, <3>2, <3>3 DEF TryAcquire
  <2>2. ASSUME NEW c \in Conns, Refused(c) PROVE Slots!Forget(c)
    BY <2>0, <2>2 DEF TypeOK, Refused, Slots!Forget
  <2>3. ASSUME NEW c \in Conns, Release(c) PROVE Slots!Release(c)
    <3>1. task[c] = "held" /\ \E s \in {"idle", "removing"} :
                                 task' = [task EXCEPT ![c] = s]
      BY <2>3 DEF Release
    <3>2. H' = H \ {c} /\ R' = R BY <2>0, <3>1 DEF TypeOK
    <3> QED BY <3>1, <3>2 DEF Slots!Release
  <2>4. ASSUME NEW c \in Conns, RemoveIfZero(c) PROVE UNCHANGED Slots!vars
    BY <2>0, <2>4 DEF TypeOK, RemoveIfZero, Slots!vars
  <2>5. CASE UNCHANGED vars BY <2>5 DEF vars, Slots!vars
  <2> QED BY <2>1, <2>2, <2>3, <2>4, <2>5 DEF Next, Slots!Next
<1> QED BY <1>1, <1>2, LimiterInv, PTL DEF Spec, ImplementsSlots, Slots!Spec
=============================================================================
