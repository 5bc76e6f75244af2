------------------------- MODULE NickRegistryProofs -------------------------
(***************************************************************************)
(* Proofs about the nick registry, for any users, nicks, operators and any *)
(* number of runtime workers.                                              *)
(***************************************************************************)
EXTENDS NickRegistry, FiniteSetTheorems, TLAPS

THEOREM NickTypingInit == Init => TypeOK
BY NickAssumption
   DEF NickAssumption, Init, TypeOK, ClaimPCs, RemovePCs, SeenPCs

THEOREM NickTypingStep == TypeOK /\ [Next]_vars => TypeOK'
<1> SUFFICES ASSUME TypeOK, [Next]_vars PROVE TypeOK' OBVIOUS
<1> USE NickAssumption DEF NickAssumption, TypeOK, Goto, Leave, At, Begin, Return,
                           locals, ClaimPCs, RemovePCs, SeenPCs
<1>1. ASSUME NEW u \in Users, Connect(u) PROVE TypeOK' BY <1>1 DEF Connect
<1>2. ASSUME NEW u \in Users, NEW n \in Nicks, ClaimLook(u, n) PROVE TypeOK'
  BY <1>2 DEF ClaimLook
<1>3. ASSUME NEW u \in Users, NEW n \in Nicks, ClaimRefused(u, n) PROVE TypeOK'
  BY <1>3 DEF ClaimRefused, vars
<1>4. ASSUME NEW u \in Users, NEW n \in Nicks, KillLook(u, n) PROVE TypeOK'
  BY <1>4 DEF KillLook
<1>5. ASSUME NEW u \in Users, ClaimPrior(u) PROVE TypeOK' BY <1>5 DEF ClaimPrior
<1>6. ASSUME NEW u \in Users, ClaimCheck(u) PROVE TypeOK' BY <1>6 DEF ClaimCheck
<1>7. ASSUME NEW u \in Users, ClaimEvict(u) PROVE TypeOK' BY <1>7 DEF ClaimEvict
<1>8. ASSUME NEW u \in Users, ClaimInsert(u) PROVE TypeOK' BY <1>8 DEF ClaimInsert
<1>9. ASSUME NEW u \in Users, SetNick(u) PROVE TypeOK' BY <1>9 DEF SetNick
<1>10. ASSUME NEW u \in Users, Disconnect(u) PROVE TypeOK' BY <1>10 DEF Disconnect
<1>11. ASSUME NEW u \in Users, KillLookup(u) PROVE TypeOK' BY <1>11 DEF KillLookup
<1>12. ASSUME NEW u \in Users, RemoveTake(u) PROVE TypeOK' BY <1>12 DEF RemoveTake
<1>13. ASSUME NEW u \in Users, RemoveSnap(u) PROVE TypeOK' BY <1>13 DEF RemoveSnap
<1>14. ASSUME NEW u \in Users, RemoveCheck(u) PROVE TypeOK' BY <1>14 DEF RemoveCheck
<1>15. ASSUME NEW u \in Users, RemoveEvict(u) PROVE TypeOK' BY <1>15 DEF RemoveEvict
<1>16. CASE UNCHANGED vars BY <1>16 DEF vars
<1> QED BY <1>1, <1>2, <1>3, <1>4, <1>5, <1>6, <1>7, <1>8, <1>9, <1>10, <1>11,
           <1>12, <1>13, <1>14, <1>15, <1>16 DEF Next, Claim, Remove

THEOREM NickTyping == Spec => []TypeOK
BY NickTypingInit, NickTypingStep, PTL DEF Spec

LEMMA HeldSlotsStep == TypeOK /\ OnlyHeldSlots /\ [Next]_vars => OnlyHeldSlots'
<1> SUFFICES ASSUME TypeOK, OnlyHeldSlots, [Next]_vars PROVE OnlyHeldSlots' OBVIOUS
<1>0. TypeOK' BY NickTypingStep
<1> USE NickAssumption DEF NickAssumption, TypeOK, OnlyHeldSlots, Held, Goto, Leave, At,
        Begin, Return, locals, ClaimPCs, RemovePCs, SeenPCs
<1>1. ASSUME NEW u \in Users, Connect(u) PROVE OnlyHeldSlots' BY <1>1 DEF Connect
<1>2. ASSUME NEW u \in Users, NEW n \in Nicks, ClaimLook(u, n) PROVE OnlyHeldSlots'
  BY <1>2 DEF ClaimLook
<1>3. ASSUME NEW u \in Users, NEW n \in Nicks, ClaimRefused(u, n) PROVE OnlyHeldSlots'
  BY <1>3 DEF ClaimRefused, vars
<1>4. ASSUME NEW u \in Users, NEW n \in Nicks, KillLook(u, n) PROVE OnlyHeldSlots'
  BY <1>4 DEF KillLook
<1>5. ASSUME NEW u \in Users, ClaimPrior(u) PROVE OnlyHeldSlots' BY <1>5 DEF ClaimPrior
<1>6. ASSUME NEW u \in Users, ClaimCheck(u) PROVE OnlyHeldSlots' BY <1>6 DEF ClaimCheck
<1>7. ASSUME NEW u \in Users, ClaimEvict(u) PROVE OnlyHeldSlots' BY <1>7 DEF ClaimEvict
<1>8. ASSUME NEW u \in Users, ClaimInsert(u) PROVE OnlyHeldSlots'
  BY <1>8 DEF ClaimInsert
<1>9. ASSUME NEW u \in Users, SetNick(u) PROVE OnlyHeldSlots' BY <1>9 DEF SetNick
<1>10. ASSUME NEW u \in Users, Disconnect(u) PROVE OnlyHeldSlots' BY <1>10 DEF Disconnect
<1>11. ASSUME NEW u \in Users, KillLookup(u) PROVE OnlyHeldSlots' BY <1>11 DEF KillLookup
<1>12. ASSUME NEW u \in Users, RemoveTake(u) PROVE OnlyHeldSlots' BY <1>12 DEF RemoveTake
<1>13. ASSUME NEW u \in Users, RemoveSnap(u) PROVE OnlyHeldSlots' BY <1>13 DEF RemoveSnap
<1>14. ASSUME NEW u \in Users, RemoveCheck(u) PROVE OnlyHeldSlots'
  BY <1>14 DEF RemoveCheck
<1>15. ASSUME NEW u \in Users, RemoveEvict(u) PROVE OnlyHeldSlots'
  BY <1>15 DEF RemoveEvict
<1>16. CASE UNCHANGED vars BY <1>16 DEF vars
<1> QED BY <1>1, <1>2, <1>3, <1>4, <1>5, <1>6, <1>7, <1>8, <1>9, <1>10, <1>11,
           <1>12, <1>13, <1>14, <1>15, <1>16 DEF Next, Claim, Remove

LEMMA HeldSlots == Spec => []OnlyHeldSlots
<1>1. Init => OnlyHeldSlots
  BY NickAssumption DEF NickAssumption, Init, OnlyHeldSlots, Held
<1> QED BY <1>1, HeldSlotsStep, NickTyping, PTL DEF Spec

\* For any number of workers, user_by_nick (state/mod.rs) never resolves a
\* nick to a user at rest that goes by another one.
THEOREM NicksRouteToBearers == Spec => []RoutesToBearer
<1>1. TypeOK /\ OnlyHeldSlots => RoutesToBearer
  BY DEF TypeOK, OnlyHeldSlots, RoutesToBearer, Held, At
<1> QED BY <1>1, NickTyping, HeldSlots, PTL

-----------------------------------------------------------------------------
\* With one worker a handler begins only when no other is running.
LEMMA BeginAlone ==
    ASSUME workers = 1, WorkerFree
    PROVE  Busy = {}
<1>1. IsFiniteSet(Busy)
  <2>1. Busy \in SUBSET Users BY DEF Busy
  <2> QED BY <2>1, NickAssumption, FS_Subset DEF NickAssumption
<1>2. Cardinality(Busy) \in Nat BY <1>1, FS_CardinalityType
<1>3. Cardinality(Busy) = 0 BY <1>2 DEF WorkerFree
<1> QED BY <1>1, <1>3, FS_EmptySet

LEMMA OneWorkerStep ==
    IInv /\ [Next]_vars => UndisturbedOnOneWorker'
<1> SUFFICES ASSUME IInv, [Next]_vars, workers' = 1
             PROVE  (OneAtATime /\ SlotsInOrder /\ HandlerInOrder)'
  BY DEF UndisturbedOnOneWorker
<1>0. TypeOK' BY NickTypingStep DEF IInv
<1>a. TypeOK /\ OnlyHeldSlots BY DEF IInv
<1>b. workers = 1
  BY DEF Next, Connect, ClaimLook, ClaimRefused, KillLook, Claim, ClaimPrior,
         ClaimCheck, ClaimEvict, ClaimInsert, SetNick, Disconnect, Remove,
         KillLookup, RemoveTake, RemoveSnap, RemoveCheck, RemoveEvict, vars
<1>c. OneAtATime /\ SlotsInOrder /\ HandlerInOrder
  BY <1>b DEF IInv, UndisturbedOnOneWorker
<1>d. WorkerFree => \A u \in Users : pc[u] = "idle"
  BY <1>b, BeginAlone DEF Busy
<1> DEFINE Goal == (OneAtATime /\ SlotsInOrder /\ HandlerInOrder)'
<1> USE <1>0, <1>a, <1>c, <1>d, NickAssumption
    DEF NickAssumption, TypeOK, OnlyHeldSlots, Held, Goto, Leave, At, Begin, Return,
        locals, ClaimPCs, RemovePCs, RemovedPCs, SeenPCs, OneAtATime, Busy,
        SlotsInOrder, HandlerInOrder, Accounted
<1>1. ASSUME NEW u \in Users, Connect(u) PROVE Goal
  <2>1. OneAtATime' BY <1>1 DEF Connect
  <2>2. SlotsInOrder' BY <1>1 DEF Connect
  <2>3. HandlerInOrder' BY <1>1 DEF Connect
  <2> QED BY <2>1, <2>2, <2>3
<1>2. ASSUME NEW u \in Users, NEW n \in Nicks, ClaimLook(u, n) PROVE Goal
  <2>1. OneAtATime' BY <1>2 DEF ClaimLook
  <2>2. SlotsInOrder' BY <1>2 DEF ClaimLook
  <2>3. HandlerInOrder' BY <1>2 DEF ClaimLook
  <2> QED BY <2>1, <2>2, <2>3
<1>3. ASSUME NEW u \in Users, NEW n \in Nicks, ClaimRefused(u, n) PROVE Goal
  <2>1. OneAtATime' BY <1>3 DEF ClaimRefused, vars
  <2>2. SlotsInOrder' BY <1>3 DEF ClaimRefused, vars
  <2>3. HandlerInOrder' BY <1>3 DEF ClaimRefused, vars
  <2> QED BY <2>1, <2>2, <2>3
<1>4. ASSUME NEW u \in Users, NEW n \in Nicks, KillLook(u, n) PROVE Goal
  <2>1. OneAtATime' BY <1>4 DEF KillLook
  <2>2. SlotsInOrder' BY <1>4 DEF KillLook
  <2>3. HandlerInOrder' BY <1>4 DEF KillLook
  <2> QED BY <2>1, <2>2, <2>3
<1>5. ASSUME NEW u \in Users, ClaimPrior(u) PROVE Goal
  <2>1. OneAtATime' BY <1>5 DEF ClaimPrior
  <2>2. SlotsInOrder' BY <1>5 DEF ClaimPrior
  <2>3. HandlerInOrder' BY <1>5 DEF ClaimPrior
  <2> QED BY <2>1, <2>2, <2>3
<1>6. ASSUME NEW u \in Users, ClaimCheck(u) PROVE Goal
  <2>1. OneAtATime' BY <1>6 DEF ClaimCheck
  <2>2. SlotsInOrder' BY <1>6 DEF ClaimCheck
  <2>3. HandlerInOrder' BY <1>6 DEF ClaimCheck
  <2> QED BY <2>1, <2>2, <2>3
<1>7. ASSUME NEW u \in Users, ClaimEvict(u) PROVE Goal
  <2>1. OneAtATime' BY <1>7 DEF ClaimEvict
  <2>2. SlotsInOrder' BY <1>7 DEF ClaimEvict
  <2>3. HandlerInOrder' BY <1>7 DEF ClaimEvict
  <2> QED BY <2>1, <2>2, <2>3
<1>8. ASSUME NEW u \in Users, ClaimInsert(u) PROVE Goal
  <2>1. OneAtATime' BY <1>8 DEF ClaimInsert
  <2>2. SlotsInOrder' BY <1>8 DEF ClaimInsert
  <2>3. HandlerInOrder' BY <1>8 DEF ClaimInsert
  <2> QED BY <2>1, <2>2, <2>3
<1>9. ASSUME NEW u \in Users, SetNick(u) PROVE Goal
  <2>1. OneAtATime' BY <1>9 DEF SetNick
  <2>2. SlotsInOrder' BY <1>9 DEF SetNick
  <2>3. HandlerInOrder' BY <1>9 DEF SetNick
  <2> QED BY <2>1, <2>2, <2>3
<1>10. ASSUME NEW u \in Users, Disconnect(u) PROVE Goal
  <2>1. OneAtATime' BY <1>10 DEF Disconnect
  <2>2. SlotsInOrder' BY <1>10 DEF Disconnect
  <2>3. HandlerInOrder' BY <1>10 DEF Disconnect
  <2> QED BY <2>1, <2>2, <2>3
<1>11. ASSUME NEW u \in Users, KillLookup(u) PROVE Goal
  <2>1. OneAtATime' BY <1>11 DEF KillLookup
  <2>2. SlotsInOrder' BY <1>11 DEF KillLookup
  <2>3. HandlerInOrder' BY <1>11 DEF KillLookup
  <2> QED BY <2>1, <2>2, <2>3
<1>12. ASSUME NEW u \in Users, RemoveTake(u) PROVE Goal
  <2>1. OneAtATime' BY <1>12 DEF RemoveTake
  <2>2. SlotsInOrder' BY <1>12 DEF RemoveTake
  <2>3. HandlerInOrder' BY <1>12 DEF RemoveTake
  <2> QED BY <2>1, <2>2, <2>3
<1>13. ASSUME NEW u \in Users, RemoveSnap(u) PROVE Goal
  <2>1. OneAtATime' BY <1>13 DEF RemoveSnap
  <2>2. SlotsInOrder' BY <1>13 DEF RemoveSnap
  <2>3. HandlerInOrder' BY <1>13 DEF RemoveSnap
  <2> QED BY <2>1, <2>2, <2>3
<1>14. ASSUME NEW u \in Users, RemoveCheck(u) PROVE Goal
  <2>1. OneAtATime' BY <1>14 DEF RemoveCheck
  <2>2. SlotsInOrder' BY <1>14 DEF RemoveCheck
  <2>3. HandlerInOrder' BY <1>14 DEF RemoveCheck
  <2> QED BY <2>1, <2>2, <2>3
<1>15. ASSUME NEW u \in Users, RemoveEvict(u) PROVE Goal
  <2>1. OneAtATime' BY <1>15 DEF RemoveEvict
  <2>2. SlotsInOrder' BY <1>15 DEF RemoveEvict
  <2>3. HandlerInOrder' BY <1>15 DEF RemoveEvict
  <2> QED BY <2>1, <2>2, <2>3
<1>16. CASE UNCHANGED vars BY <1>16 DEF vars
<1> QED BY <1>1, <1>2, <1>3, <1>4, <1>5, <1>6, <1>7, <1>8, <1>9, <1>10, <1>11,
           <1>12, <1>13, <1>14, <1>15, <1>16 DEF Next, Claim, Remove

LEMMA NickInv == Spec => []IInv
<1>1. Init => UndisturbedOnOneWorker
  BY NickAssumption
     DEF NickAssumption, Init, UndisturbedOnOneWorker, OneAtATime, Busy,
         SlotsInOrder, Accounted, RemovedPCs, HandlerInOrder, Held, ClaimPCs
<1>2. Init => IInv
  BY <1>1, NickTypingInit, NickAssumption
     DEF NickAssumption, IInv, Init, OnlyHeldSlots, Held
<1>3. IInv /\ [Next]_vars => IInv'
  BY NickTypingStep, HeldSlotsStep, OneWorkerStep DEF IInv
<1> QED BY <1>2, <1>3, PTL DEF Spec

\* On one worker, whatever users do, the nick map is the exact index of the
\* live users' nicks between handlers (claim_nick, remove_user).
THEOREM NicksAreExactOnOneWorker == Spec => []ExactOnOneWorker
<1>1. IInv => ExactOnOneWorker
  BY DEF IInv, TypeOK, ExactOnOneWorker, UndisturbedOnOneWorker, Quiescent,
         Busy, SlotsInOrder, Accounted, RemovedPCs, Held
<1> QED BY <1>1, NickInv, PTL

\* Nicks as the users bear them, at any moment.
NoSharedNick == \A u, v \in users : u # v /\ nick[u] # NoNick => nick[u] # nick[v]

\* With the nicks in order, only a user in the middle of a NICK bears another
\* nick than the one whose slot is its own, and that one is free of others.
LEMMA SetNickUnique ==
    ASSUME IInv, workers = 1, NoSharedNick, NEW u \in Users, SetNick(u)
    PROVE  NoSharedNick'
<1>1. TypeOK /\ SlotsInOrder /\ HandlerInOrder /\ OneAtATime
  BY DEF IInv, UndisturbedOnOneWorker
<1>2. /\ u \in users /\ want[u] \in Nicks /\ pc[u] = "claim_set"
      /\ users' = users /\ nick' = [nick EXCEPT ![u] = want[u]]
  BY <1>1 DEF SetNick, At, HandlerInOrder, TypeOK, ClaimPCs
<1>3. nicks[want[u]] = u BY <1>1, <1>2 DEF SlotsInOrder, Accounted, Held
<1>4. ASSUME NEW v \in users, v # u PROVE nick[v] # want[u]
  <2>1. v \in Users BY <1>1 DEF TypeOK
  <2>2. pc[v] = "idle" BY <1>1, <1>2, <1>4, <2>1 DEF OneAtATime, Busy
  <2>3. Held(v) = nick[v] BY <2>2 DEF Held
  <2> QED BY <1>1, <1>2, <1>3, <1>4, <2>3 DEF SlotsInOrder, Accounted
<1> QED BY <1>1, <1>2, <1>4 DEF NoSharedNick, TypeOK

LEMMA NextUnique ==
    ASSUME IInv, workers = 1, NoSharedNick, [Next]_vars
    PROVE  NoSharedNick'
<1>1. TypeOK /\ OnlyHeldSlots BY DEF IInv
<1>2. CASE \E u \in Users : SetNick(u) BY <1>2, SetNickUnique
<1>3. ASSUME NEW u \in Users, Connect(u) PROVE NoSharedNick'
  <2>1. nick[u] = NoNick /\ users' = users \cup {u} /\ nick' = nick
    BY <1>1, <1>3 DEF Connect, OnlyHeldSlots
  <2> QED BY <1>1, <2>1 DEF NoSharedNick, TypeOK
<1>4. CASE nick' = nick /\ users' \subseteq users BY <1>4 DEF NoSharedNick
<1>5. \/ \E u \in Users : Connect(u) \/ SetNick(u)
      \/ nick' = nick /\ users' \subseteq users
  BY DEF Next, Claim, Remove, ClaimLook, ClaimRefused, KillLook, ClaimPrior, ClaimCheck,
         ClaimEvict, ClaimInsert, Disconnect, KillLookup, RemoveTake, RemoveSnap,
         RemoveCheck, RemoveEvict, vars
<1> QED BY <1>2, <1>3, <1>4, <1>5

\* On one worker nobody takes a nick that a live user bears, as the doc of
\* claim_nick says (state/mod.rs), even while a handler runs.
THEOREM NicksAreUniqueOnOneWorker == Spec => [](workers = 1 => NoSharedNick /\ UniqueNick)
<1>1. Init => (workers = 1 => NoSharedNick) BY DEF Init, NoSharedNick
<1>2. IInv /\ (workers = 1 => NoSharedNick) /\ [Next]_vars => (workers = 1 => NoSharedNick)'
  <2>1. [Next]_vars => workers' = workers
    BY DEF Next, Connect, ClaimLook, ClaimRefused, KillLook, Claim, ClaimPrior,
           ClaimCheck, ClaimEvict, ClaimInsert, SetNick, Disconnect, Remove,
           KillLookup, RemoveTake, RemoveSnap, RemoveCheck, RemoveEvict, vars
  <2> QED BY <2>1, NextUnique
<1>3. NoSharedNick => UniqueNick BY DEF NoSharedNick, UniqueNick
<1> QED BY <1>1, <1>2, <1>3, NickInv, PTL DEF Spec
=============================================================================
