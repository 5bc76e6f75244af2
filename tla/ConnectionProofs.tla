--------------------------- MODULE ConnectionProofs ---------------------------
(***************************************************************************)
(* For any connections, operators, limits and queue: every slot of the     *)
(* limiter belongs to one served connection, and nobody leaves the users   *)
(* map without an announcement.                                            *)
(***************************************************************************)
EXTENDS Connection, FiniteSetTheorems, TLAPS

Serving == {c \in Conns : pc[c] \in Served}

\* Where a connection's user may be in the map, and where it is gone from it
\* for good.
InMap == {"reading", "killing", "draining", "removing"}

\* Why nobody leaves unannounced: a running KILL has announced its target
\* before it takes it out of the map, and cleanup its own user.
Accounted ==
    /\ \A c \in users : pc[c] \in InMap
    /\ \A c \in Conns :
           /\ pc[c] \in InMap /\ c \notin users => announced[c]
           /\ pc[c] = "killing" => announced[target[c]]
           /\ pc[c] \in {"removing", "releasing", "gone"} => announced[c]

IInv == TypeOK /\ SlotPerConnection /\ Accounted
-----------------------------------------------------------------------------
(***************************************************************************)
(* The slots.                                                              *)
(***************************************************************************)
\* The served connections can be counted.
LEMMA ServingFinite ==
    /\ IsFiniteSet(Serving) /\ Cardinality(Serving) \in Nat
    /\ SlotPerConnection <=> slots = Cardinality(Serving)
<1>1. Serving \in SUBSET Conns
  BY DEF Serving
<1>2. IsFiniteSet(Serving) /\ Cardinality(Serving) \in Nat
  BY <1>1, FS_Subset, FS_CardinalityType, ConnectionAssumption
<1>3. QED  BY <1>2 DEF SlotPerConnection, Serving

\* A connection that was not served is one more.
LEMMA OneMoreServed ==
    ASSUME TypeOK, NEW c \in Conns, pc[c] \notin Served, Goto(c, "accepted")
    PROVE  Cardinality(Serving') = Cardinality(Serving) + 1
<1>1. Serving' = Serving \cup {c} /\ c \notin Serving
  BY DEF Serving, Goto, TypeOK, Served
<1>2. QED  BY <1>1, ServingFinite, FS_AddElement

\* A connection that is not served any more is one less.
LEMMA OneLessServed ==
    ASSUME TypeOK, NEW c \in Conns, pc[c] \in Served, Goto(c, "gone")
    PROVE  Cardinality(Serving') = Cardinality(Serving) - 1 /\ Cardinality(Serving) > 0
<1>1. Serving' = Serving \ {c} /\ c \in Serving
  BY DEF Serving, Goto, TypeOK, Served
<1>2. Cardinality(Serving') = Cardinality(Serving) - 1
  BY <1>1, ServingFinite, FS_RemoveElement
<1>3. IsFiniteSet(Serving') /\ Cardinality(Serving') \in Nat
  BY <1>1, ServingFinite, FS_RemoveElement, FS_CardinalityType
<1>4. QED  BY <1>2, <1>3, ServingFinite

\* Moving on within its service changes nothing for the slots.
LEMMA StillServed ==
    ASSUME TypeOK, NEW c \in Conns, pc[c] \in Served, NEW where \in Served, Goto(c, where)
    PROVE  Serving' = Serving
  BY DEF Serving, Goto, TypeOK

\* Slots and service change together.
LEMMA SlotStep ==
    ASSUME TypeOK, SlotPerConnection, [Next]_vars
    PROVE  SlotPerConnection' /\ slots' \in 0 .. max
<1> USE DEF Served
<1>1. slots = Cardinality(Serving) /\ slots \in 0 .. max /\ max \in Nat
  BY ServingFinite, ConnectionAssumption DEF TypeOK
<1>2. SlotPerConnection' <=> slots' = Cardinality(Serving')
  BY DEF SlotPerConnection, Serving
<1>3. CASE slots' = slots /\ Serving' = Serving
  BY <1>1, <1>2, <1>3
<1>4. CASE slots' = slots /\ pc' = pc
  BY <1>3, <1>4 DEF Serving
<1>5. ASSUME NEW c \in Conns, NEW where \in Served, pc[c] \in Served, Goto(c, where),
             slots' = slots
      PROVE  SlotPerConnection' /\ slots' \in 0 .. max
  BY <1>3, <1>5, StillServed
<1>6. ASSUME NEW c \in Conns, Accept(c)
      PROVE  SlotPerConnection' /\ slots' \in 0 .. max
  <2>1. CASE slots < max /\ Goto(c, "accepted") /\ slots' = slots + 1
    <3>1. Cardinality(Serving') = Cardinality(Serving) + 1
      BY <1>6, <2>1, OneMoreServed DEF Accept
    <3>2. QED  BY <1>1, <1>2, <2>1, <3>1
  <2>2. CASE Goto(c, "refused") /\ slots' = slots
    BY <1>3, <1>6, <2>2 DEF Accept, Serving, Goto, TypeOK
  <2>3. QED  BY <1>6, <2>1, <2>2 DEF Accept
<1>7. ASSUME NEW c \in Conns, Release(c)
      PROVE  SlotPerConnection' /\ slots' \in 0 .. max
  <2>1. Cardinality(Serving') = Cardinality(Serving) - 1 /\ Cardinality(Serving) > 0
    BY <1>7, OneLessServed DEF Release
  <2>2. slots' = slots - 1
    BY <1>7 DEF Release
  <2>3. QED  BY <1>1, <1>2, <2>1, <2>2
<1>8. ASSUME NEW c \in Conns,
             Admit(c) \/ HandleFrame(c) \/ KillRemove(c) \/ ReadEnd(c) \/ Deadline(c)
                 \/ CleanupLook(c) \/ CleanupRemove(c)
      PROVE  SlotPerConnection' /\ slots' \in 0 .. max
  BY <1>4, <1>5, <1>8
     DEF Admit, HandleFrame, Read, ReadRegistration, ReadCommand, ReadQuit, ReadFlood,
         KillLook, KillRemove, ReadEnd, Deadline, CleanupLook, CleanupRemove
<1>9. ASSUME NEW c \in Conns,
             WriteNext(c) \/ WriteEnd(c) \/ ClientSend(c) \/ ClientClose(c) \/ TimerElapses(c)
      PROVE  SlotPerConnection' /\ slots' \in 0 .. max
  BY <1>4, <1>9 DEF WriteNext, WriteEnd, ClientSend, ClientClose, TimerElapses
<1>10. CASE UNCHANGED vars
  BY <1>4, <1>10 DEF vars
<1>11. QED  BY <1>6, <1>7, <1>8, <1>9, <1>10 DEF Next, Finish
-----------------------------------------------------------------------------
(***************************************************************************)
(* Types.                                                                  *)
(***************************************************************************)
\* A message is queued or dropped.
LEMMA SendTyped ==
    ASSUME TypeOK, NEW c \in Conns, Send(c)
    PROVE  outbox' \in [Conns -> 0..Queue]
  BY ConnectionAssumption DEF TypeOK, Send

\* Each step keeps the types; that slots stay within the limit needs the count.
LEMMA TypeStep ==
    ASSUME TypeOK, SlotPerConnection, [Next]_vars
    PROVE  TypeOK'
<1> USE ConnectionAssumption DEF Served
<1>1. slots' \in 0 .. max
  BY SlotStep
<1>2. ASSUME NEW c \in Conns, Accept(c) \/ Admit(c)
      PROVE  TypeOK'
  <2>1. CASE Accept(c)
    BY <1>1, <2>1 DEF Accept, Goto, TypeOK
  <2>2. CASE Admit(c)
    <3>1. outbox' \in [Conns -> 0..Queue]
      BY <2>2 DEF Admit, TypeOK
    <3>2. pc' \in [Conns -> Served \cup {"offered", "refused", "gone"}]
      BY <2>2 DEF Admit, Goto, TypeOK
    <3>3. QED  BY <1>1, <2>2, <3>1, <3>2 DEF Admit, TypeOK
  <2>3. QED  BY <1>2, <2>1, <2>2
<1>3. ASSUME NEW c \in Conns, ReadRegistration(c)
      PROVE  TypeOK'
  BY <1>1, <1>3, SendTyped DEF ReadRegistration, Read, TypeOK
<1>4. ASSUME NEW c \in Conns, ReadCommand(c)
      PROVE  TypeOK'
  <2>1. outbox' \in [Conns -> 0..Queue]
    BY <1>4, SendTyped DEF ReadCommand, Findable, TypeOK
  <2>2. QED  BY <1>1, <1>4, <2>1 DEF ReadCommand, Read, TypeOK
<1>5. ASSUME NEW c \in Conns, ReadQuit(c) \/ ReadFlood(c)
      PROVE  TypeOK'
  <2>1. outbox' \in [Conns -> 0..Queue]
    BY <1>5, SendTyped DEF ReadQuit, ReadFlood, TypeOK
  <2>2. pc' \in [Conns -> Served \cup {"offered", "refused", "gone"}]
    BY <1>5 DEF ReadQuit, ReadFlood, Goto, TypeOK
  <2>3. QED  BY <1>1, <1>5, <2>1, <2>2 DEF ReadQuit, ReadFlood, Read, TypeOK
<1>6. ASSUME NEW c \in Conns, NEW d \in Conns, KillLook(c, d)
      PROVE  TypeOK'
  BY <1>1, <1>6, SendTyped DEF KillLook, Read, Goto, TypeOK
<1>7. ASSUME NEW c \in Conns, KillRemove(c) \/ ReadEnd(c) \/ Deadline(c)
      PROVE  TypeOK'
  BY <1>1, <1>7 DEF KillRemove, ReadEnd, Deadline, Goto, TypeOK
<1>8. ASSUME NEW c \in Conns, WriteNext(c) \/ WriteEnd(c)
      PROVE  TypeOK'
  <2>1. outbox' \in [Conns -> 0..Queue]
    BY <1>8 DEF WriteNext, WriteEnd, TypeOK
  <2>2. QED  BY <1>1, <1>8, <2>1 DEF WriteNext, WriteEnd, TypeOK
<1>9. ASSUME NEW c \in Conns, Finish(c)
      PROVE  TypeOK'
  BY <1>1, <1>9 DEF Finish, CleanupLook, CleanupRemove, Release, Goto, TypeOK
<1>10. ASSUME NEW c \in Conns, ClientSend(c) \/ ClientClose(c) \/ TimerElapses(c)
       PROVE  TypeOK'
  BY <1>1, <1>10 DEF ClientSend, ClientClose, TimerElapses, TypeOK
<1>11. CASE UNCHANGED vars
  BY <1>11 DEF vars, TypeOK
<1>12. QED
  BY <1>2, <1>3, <1>4, <1>5, <1>6, <1>7, <1>8, <1>9, <1>10, <1>11 DEF Next, HandleFrame
-----------------------------------------------------------------------------
(***************************************************************************)
(* Announcements.                                                          *)
(***************************************************************************)
\* Nobody leaves the map, or is cleaned up, without an announcement.
LEMMA AccountedStep ==
    ASSUME TypeOK, Accounted, [Next]_vars
    PROVE  Accounted'
<1> USE DEF InMap
<1>1. CASE /\ users' = users /\ target' = target /\ announced' = announced
           /\ \/ pc' = pc
              \/ \E c \in Conns : pc[c] \in {"reading", "killing"} /\ Goto(c, "draining")
              \/ \E c \in Conns : pc[c] = "offered"
                                  /\ (Goto(c, "accepted") \/ Goto(c, "refused"))
              \/ \E c \in Conns : pc[c] = "releasing" /\ Goto(c, "gone")
  BY <1>1 DEF Accounted, Goto, TypeOK
<1>2. ASSUME NEW c \in Conns, Accept(c) \/ Release(c)
      PROVE  Accounted'
  BY <1>1, <1>2 DEF Accept, Release
<1>3. ASSUME NEW c \in Conns, Admit(c)
      PROVE  Accounted'
  BY <1>3 DEF Admit, Accounted, Goto, TypeOK
<1>4. ASSUME NEW c \in Conns,
             ReadRegistration(c) \/ ReadCommand(c) \/ ReadQuit(c) \/ ReadFlood(c)
                 \/ ReadEnd(c) \/ Deadline(c)
      PROVE  Accounted'
  BY <1>1, <1>4 DEF ReadRegistration, ReadCommand, ReadQuit, ReadFlood, Read, ReadEnd, Deadline
<1>5. ASSUME NEW c \in Conns, NEW d \in Conns, KillLook(c, d)
      PROVE  Accounted'
  BY <1>5 DEF KillLook, Read, Accounted, Goto, TypeOK
<1>6. ASSUME NEW c \in Conns, KillRemove(c)
      PROVE  Accounted'
  BY <1>6 DEF KillRemove, Accounted, Goto, TypeOK
<1>7. ASSUME NEW c \in Conns, CleanupLook(c) \/ CleanupRemove(c)
      PROVE  Accounted'
  BY <1>7 DEF CleanupLook, CleanupRemove, Accounted, Goto, TypeOK
<1>8. ASSUME NEW c \in Conns,
             WriteNext(c) \/ WriteEnd(c) \/ ClientSend(c) \/ ClientClose(c) \/ TimerElapses(c)
      PROVE  Accounted'
  BY <1>1, <1>8 DEF WriteNext, WriteEnd, ClientSend, ClientClose, TimerElapses
<1>9. CASE UNCHANGED vars
  BY <1>1, <1>9 DEF vars
<1>10. QED
  BY <1>2, <1>3, <1>4, <1>5, <1>6, <1>7, <1>8, <1>9 DEF Next, HandleFrame, Finish
-----------------------------------------------------------------------------
(***************************************************************************)
(* The invariant, and the properties it implies.                           *)
(***************************************************************************)
\* The initial states satisfy the invariant.
LEMMA InitEstablishes == Init => IInv
<1> SUFFICES ASSUME Init PROVE IInv
  OBVIOUS
<1>1. TypeOK /\ Accounted
  BY ConnectionAssumption DEF Init, TypeOK, Accounted, InMap
<1>2. Serving = {}
  BY DEF Init, Serving, Served
<1>3. SlotPerConnection
  BY <1>2, ServingFinite, FS_EmptySet DEF Init
<1>4. QED  BY <1>1, <1>3 DEF IInv

\* The inductive invariant holds whatever the connections do, fair or not.
THEOREM Invariant == Spec => []IInv
<1>1. IInv /\ [Next]_vars => IInv'
  BY TypeStep, SlotStep, AccountedStep DEF IInv
<1>2. QED  BY <1>1, InitEstablishes, PTL DEF Spec

\* The variables keep their types, and the slots in use their limit.
THEOREM Typed == Spec => []TypeOK
<1>1. IInv => TypeOK  BY DEF IInv
<1>2. QED  BY <1>1, Invariant, PTL

\* However a connection ends and whoever kills its user, its slot is given
\* back once (handle_connection, connection.rs:107).
THEOREM SlotsMatch == Spec => []SlotPerConnection
<1>1. IInv => SlotPerConnection  BY DEF IInv
<1>2. QED  BY <1>1, Invariant, PTL

\* Nobody is left in the map by a connection that is over, and nobody leaves
\* it without a QUIT to the peers (cleanup, handle_kill).
THEOREM NobodyLeavesSilently == Spec => []LeavesAreAnnounced
<1>1. IInv => LeavesAreAnnounced
  BY DEF IInv, TypeOK, Accounted, LeavesAreAnnounced, InMap, Served
<1>2. QED  BY <1>1, Invariant, PTL
-----------------------------------------------------------------------------
(***************************************************************************)
(* The refinement.  What the pool sees is who is served and who was        *)
(* refused.                                                                *)
(***************************************************************************)
Refusing == {c \in Conns : pc[c] = "refused"}

\* All connections are of one address.
LEMMA PoolOfOne ==
    ASSUME NEW c \in Conns, SlotPerConnection
    PROVE  Slots!Cardinality(Slots!HoldersOf([k \in Conns |-> "peer"][c])) = slots
<1>1. \A S : Slots!Cardinality(S) = Cardinality(S)
  BY DEF Slots!Cardinality, Cardinality
<1>2. Slots!HoldersOf([k \in Conns |-> "peer"][c]) = Serving
  BY DEF Slots!HoldersOf, Serving
<1>3. QED  BY <1>1, <1>2, ServingFinite

\* An admission takes a slot that is free, a refusal finds none, and only the
\* release at the end gives one back.
LEMMA PoolStep ==
    ASSUME IInv, [Next]_vars
    PROVE  [Slots!Next]_(Slots!vars)
<1> USE DEF Served
<1>1. TypeOK /\ SlotPerConnection /\ slots \in 0 .. max /\ max \in Nat
  BY ConnectionAssumption DEF IInv, TypeOK
<1>2. max' = max
  BY DEF Next, Accept, Admit, HandleFrame, ReadRegistration, ReadCommand, ReadQuit, ReadFlood,
         KillLook, Read, KillRemove, ReadEnd, Deadline, WriteNext, WriteEnd, Finish,
         CleanupLook, CleanupRemove, Release, ClientSend, ClientClose, TimerElapses, vars
<1>3. CASE Serving' = Serving /\ Refusing' = Refusing
  BY <1>2, <1>3 DEF Slots!vars, Serving, Refusing
<1>4. CASE pc' = pc
  BY <1>3, <1>4 DEF Serving, Refusing
<1>5. ASSUME NEW c \in Conns, NEW where \in Served, pc[c] \in Served, Goto(c, where)
      PROVE  [Slots!Next]_(Slots!vars)
  <2>1. Serving' = Serving
    BY <1>1, <1>5, StillServed
  <2>2. Refusing' = Refusing
    BY <1>1, <1>5 DEF Refusing, Goto, TypeOK
  <2>3. QED  BY <1>3, <2>1, <2>2
<1>6. ASSUME NEW c \in Conns, Accept(c)
      PROVE  Slots!Admit(c) \/ Slots!Refuse(c)
  <2>1. c \notin Serving /\ c \notin Refusing
    BY <1>6 DEF Accept, Serving, Refusing
  <2>2. CASE slots < max /\ Goto(c, "accepted")
    <3>1. Serving' = Serving \cup {c} /\ Refusing' = Refusing
      BY <1>1, <1>6, <2>2 DEF Accept, Goto, TypeOK, Serving, Refusing
    <3>2. QED  BY <1>1, <1>2, <2>1, <2>2, <3>1, PoolOfOne DEF Slots!Admit, Serving, Refusing
  <2>3. CASE ~(slots < max) /\ Goto(c, "refused")
    <3>1. Serving' = Serving /\ Refusing' = Refusing \cup {c}
      BY <1>1, <1>6, <2>3 DEF Accept, Goto, TypeOK, Serving, Refusing
    <3>2. slots = max
      BY <1>1, <2>3
    <3>3. QED  BY <1>1, <1>2, <2>1, <3>1, <3>2, PoolOfOne DEF Slots!Refuse, Serving, Refusing
  <2>4. QED  BY <1>6, <2>2, <2>3 DEF Accept
<1>7. ASSUME NEW c \in Conns, Release(c)
      PROVE  Slots!Release(c)
  <2>1. c \in Serving /\ Serving' = Serving \ {c} /\ Refusing' = Refusing
    BY <1>1, <1>7 DEF Release, Goto, TypeOK, Serving, Refusing
  <2>2. QED  BY <1>2, <2>1 DEF Slots!Release, Serving, Refusing
<1>8. ASSUME NEW c \in Conns,
             Admit(c) \/ HandleFrame(c) \/ KillRemove(c) \/ ReadEnd(c) \/ Deadline(c)
                 \/ CleanupLook(c) \/ CleanupRemove(c)
      PROVE  [Slots!Next]_(Slots!vars)
  BY <1>4, <1>5, <1>8
     DEF Admit, HandleFrame, Read, ReadRegistration, ReadCommand, ReadQuit, ReadFlood,
         KillLook, KillRemove, ReadEnd, Deadline, CleanupLook, CleanupRemove
<1>9. ASSUME NEW c \in Conns,
             WriteNext(c) \/ WriteEnd(c) \/ ClientSend(c) \/ ClientClose(c) \/ TimerElapses(c)
      PROVE  [Slots!Next]_(Slots!vars)
  BY <1>4, <1>9 DEF WriteNext, WriteEnd, ClientSend, ClientClose, TimerElapses
<1>10. CASE UNCHANGED vars
  BY <1>4, <1>10 DEF vars
<1>11. QED  BY <1>6, <1>7, <1>8, <1>9, <1>10 DEF Next, Finish, Slots!Next

\* The connection driver needs no more of the limiter than the pool of slots
\* that ConnLimiter implements (handle_connection, try_acquire, release).
THEOREM DriverRefinesSlots == Spec => ImplementsSlots
<1>1. Init => Slots!Init
  BY ConnectionAssumption DEF Init, Slots!Init, Served
<1>2. QED
  BY <1>1, Invariant, PoolStep, PTL DEF Spec, ImplementsSlots, Slots!Spec
=============================================================================
