---------------------------- MODULE MonitorProofs ----------------------------
(***************************************************************************)
(* Proofs about MONITOR, for any users, watchers, nicks and limit: the     *)
(* steps are steps of the nick registry, whose invariant is used here, and *)
(* on one worker watchers know the state of the nicks they watch.          *)
(***************************************************************************)
EXTENDS Monitor, NickRegistryProofs, SequenceTheorems

\* A user's registration is completed only once it has a nick, and a
\* connection that has not been accepted watches nothing.
Registered == \A u \in registered : nick[u] \in Nicks
NewWatchNothing == \A w \in Watchers : conn[w] = "new" => monitor_list[w] = {}

\* The inductive invariant.  On one worker one user is in a handler at most,
\* and what a watcher was last told of a nick is so unless that handler is
\* changing the nick, has a note about it left, or asks about it.
Quiet(u) ==
    /\ pc[u] = "idle" /\ conn[u] # "closing" /\ notes[u] = <<>>
    /\ u \in Watchers => query[u] = NoQuery

AskInOrder(u) ==
    u \in Asking =>
        /\ pc[u] = "idle" /\ notes[u] = <<>>
        /\ \A n \in query[u].online : State(n) = "online"
        /\ \A n \in query[u].offline : State(n) = "offline"

\* The notes of a cleanup, of a NICK, and what is left of these.
QuitNote(u) ==
    /\ pc[u] = "rm_take" /\ conn[u] = "closing"
    /\ Len(notes[u]) = 1
    /\ notes[u][1].state = "offline" /\ notes[u][1].nick = nick[u]
LastNote(u) ==
    /\ pc[u] = "idle" /\ u \in users
    /\ Len(notes[u]) = 1
    /\ notes[u][1].state = "online" /\ notes[u][1].nick = nick[u]
NickNotes(u) ==
    /\ pc[u] = "idle" /\ u \in users
    /\ Len(notes[u]) = 2
    /\ notes[u][1].state = "offline"
    /\ notes[u][1].nick = nick[u] \/ nicks[notes[u][1].nick] = Nobody
    /\ notes[u][2].state = "online" /\ notes[u][2].nick = nick[u]
    /\ ~notes[u][2].listed
TellInOrder(u) == notes[u] = <<>> \/ QuitNote(u) \/ LastNote(u) \/ NickNotes(u)

RemoveInOrder(u) ==
    /\ conn[u] = "closing" => pc[u] \in RemovedPCs \cup {"rm_take"} /\ victim[u] = u
    /\ conn[u] = "closing" /\ pc[u] = "rm_take" => u \in users
    /\ pc[u] # "idle" => conn[u] \in {"open", "closing"}
    /\ pc[u] \in {"claim_insert", "claim_set"} /\ nick[u] \in Nicks \ {want[u]}
         => nicks[nick[u]] = Nobody

Awaits(w, u) == ~notes[u][1].listed \/ w \in notes[u][1].to

\* A cleanup removes its user once all that watch its nick know.
QuitTold(u) ==
    conn[u] = "closing" /\ pc[u] = "rm_take" =>
        \A w \in Watchers \cap users :
            nick[u] \in monitor_list[w] \ missed[w] =>
                heard[w][nick[u]] = "offline" \/ (QuitNote(u) /\ Awaits(w, u))

Moving(u, n) ==
    \/ pc[u] \in {"claim_insert", "claim_set"} /\ n \in {nick[u], want[u]}
    \/ pc[u] \in RemovedPCs /\ conn[u] = "open" /\ n = nick[victim[u]]
    \/ pc[u] = "rm_take" /\ conn[u] = "closing" /\ n = nick[u]
Noting(u, w, n) ==
    \/ LastNote(u) /\ n = notes[u][1].nick /\ Awaits(w, u)
    \/ NickNotes(u) /\ n = notes[u][1].nick /\ Awaits(w, u)
    \/ NickNotes(u) /\ n = notes[u][2].nick
AsksFor(w, n) == n \in query[w].ask \cup query[w].online \cup query[w].offline

KnownBut(u) ==
    \A w \in Watchers \cap users : \A n \in monitor_list[w] \ missed[w] :
        \/ heard[w][n] = State(n)
        \/ Moving(u, n) \/ Noting(u, w, n) \/ (u = w /\ AsksFor(w, n))

Only(u) ==
    /\ \A v \in Users \ {u} : Quiet(v)
    /\ AskInOrder(u) /\ TellInOrder(u) /\ RemoveInOrder(u) /\ QuitTold(u)
    /\ KnownBut(u)

Sound == IInv /\ MonitorTypeOK /\ Registered /\ NewWatchNothing
MonitorInv == Sound /\ (workers = 1 /\ Users # {} => \E u \in Users : Only(u))
-----------------------------------------------------------------------------
(***************************************************************************)
(* Every step is one of the registry or leaves it alone.                   *)
(***************************************************************************)
LEMMA RegistrySteps == [MonitorNext]_allvars => [Next]_vars
<1> SUFFICES ASSUME [MonitorNext]_allvars PROVE [Next]_vars OBVIOUS
<1>1. ASSUME NEW u \in Users, RegistryStep(u) PROVE [Next]_vars
  BY <1>1 DEF RegistryStep, Enter, Start, Go, Evict, Renamed, Named, Finalize, Quit,
              Next, Claim, Remove
<1>2. ASSUME NEW u \in Users, NotifyList(u) PROVE UNCHANGED vars
  BY <1>2 DEF NotifyList
<1>3. ASSUME NEW u \in Users, NEW w \in Watchers, NotifyOne(u, w) PROVE UNCHANGED vars
  BY <1>3 DEF NotifyOne
<1>4. ASSUME NEW w \in Watchers, MonitorStep(w) PROVE UNCHANGED vars
  BY <1>4 DEF MonitorStep, MonitorAdd, MonitorRemove, MonitorStatus, MonitorTell,
              MonitorLook
<1>5. CASE UNCHANGED allvars BY <1>5 DEF allvars
<1> QED BY <1>1, <1>2, <1>3, <1>4, <1>5 DEF MonitorNext

\* MONITOR adds to the registry and takes nothing away from it.
LEMMA RefinesRegistry == MonitorSpec => Spec
<1>1. MonitorInit => Init BY DEF MonitorInit
<1> QED BY <1>1, RegistrySteps, PTL DEF MonitorSpec, Spec
-----------------------------------------------------------------------------
(***************************************************************************)
(* Type correctness.                                                       *)
(***************************************************************************)
\* What is left of the notes of a handler that has some is well-typed.
LEMMA LeftTyped ==
    ASSUME MonitorTypeOK, NEW u \in Users, notes[u] # <<>>,
           NEW rest \in SUBSET Watchers
    PROVE  Left(u, rest) \in [Users -> Seq(NoteSet)]
<1>1. notes[u] \in Seq(NoteSet) BY DEF MonitorTypeOK
<1>2. Tail(notes[u]) \in Seq(NoteSet) BY <1>1, HeadTailProperties
<1>3. Len(notes[u]) \in Nat /\ Len(notes[u]) > 0
  BY <1>1, EmptySeq
<1>4. notes[u][1] \in NoteSet BY <1>1, <1>3, ElementOfSeq
<1>5. [notes[u][1] EXCEPT !.listed = TRUE, !.to = rest] \in NoteSet
  BY <1>4 DEF NoteSet
<1>6. [notes[u] EXCEPT ![1] = [@ EXCEPT !.listed = TRUE, !.to = rest]] \in Seq(NoteSet)
  BY <1>1, <1>3, <1>5, ExceptSeq
<1> QED BY <1>2, <1>6 DEF Left, MonitorTypeOK

\* The notes a handler begins with are well-typed.
LEMMA NotesTyped ==
    ASSUME NEW old \in Nicks, NEW new \in Nicks
    PROVE  /\ <<Note("offline", old)>> \in Seq(NoteSet)
           /\ <<Note("offline", old), Note("online", new)>> \in Seq(NoteSet)
<1>1. Note("offline", old) \in NoteSet /\ Note("online", new) \in NoteSet
  BY DEF Note, NoteSet, States
<1> QED BY <1>1

\* A list of nicks is finite, as all the nicks are.
LEMMA ListsFinite ==
    ASSUME NEW some \in SUBSET Nicks
    PROVE  IsFiniteSet(some) /\ Cardinality(some) \in Nat
BY MonitorAssumption, FS_Subset, FS_CardinalityType DEF MonitorAssumption

\* No list of a watcher grows beyond the limit.
LEMMA ListsLimited ==
    ASSUME NEW list \in SUBSET Nicks, NEW some \in SUBSET Nicks
    PROVE  /\ Cardinality(list \cup some) <= Cardinality(list) + Cardinality(some)
           /\ Cardinality(list \ some) <= Cardinality(list)
<1>1. IsFiniteSet(list) /\ IsFiniteSet(some) BY ListsFinite
<1>2. Cardinality(list \cup some)
        = Cardinality(list) + Cardinality(some) - Cardinality(list \cap some)
  BY <1>1, FS_Union
<1>3. list \cap some \in SUBSET Nicks /\ list \ some \in SUBSET Nicks OBVIOUS
<1> QED BY <1>1, <1>2, <1>3, ListsFinite, FS_Subset

LEMMA MonitorTypingStep ==
    MonitorTypeOK /\ Registered /\ TypeOK /\ [MonitorNext]_allvars
        => MonitorTypeOK' /\ Registered'
<1> SUFFICES ASSUME MonitorTypeOK, Registered, TypeOK, [MonitorNext]_allvars
             PROVE  MonitorTypeOK' /\ Registered'
  OBVIOUS
<1> DEFINE Goal == MonitorTypeOK' /\ Registered'
<1>a. Watchers \subseteq Users BY MonitorAssumption DEF MonitorAssumption
<1>1. ASSUME NEW u \in Users, Enter(u) \/ Start(u) \/ Go(u) PROVE Goal
  <2>1. UNCHANGED mvars BY <1>1 DEF Enter, Start, Go
  <2>2. UNCHANGED nick
    BY <1>1 DEF Enter, Start, Go, Connect, ClaimLook, ClaimRefused, KillLook, ClaimPrior,
                ClaimCheck, ClaimEvict, ClaimInsert, KillLookup, RemoveTake, RemoveSnap,
                RemoveCheck, vars
  <2> QED BY <2>1, <2>2 DEF mvars, MonitorTypeOK, Registered
<1>2. ASSUME NEW u \in Users, Evict(u) PROVE Goal
  BY <1>2 DEF Evict, RemoveEvict, Missing, MonitorTypeOK, Registered
<1>3. ASSUME NEW u \in Users, Renamed(u) PROVE Goal
  <2>1. nick[u] \in Nicks /\ want[u] \in Nicks
    BY <1>3 DEF Renamed, SetNick, At, TypeOK, Registered, ClaimPCs
  <2>2. <<Note("offline", nick[u]), Note("online", want[u])>> \in Seq(NoteSet)
    BY <2>1, NotesTyped
  <2>3. MonitorTypeOK' BY <1>3, <2>2 DEF Renamed, MonitorTypeOK
  <2>4. Registered' BY <1>3, <2>1 DEF Renamed, SetNick, Registered, TypeOK
  <2> QED BY <2>3, <2>4
<1>4. ASSUME NEW u \in Users, Named(u) PROVE Goal
  <2>1. want[u] \in Nicks BY <1>4 DEF Named, SetNick, At, TypeOK, ClaimPCs
  <2>2. MonitorTypeOK' BY <1>4 DEF Named, Missing, MonitorTypeOK
  <2>3. Registered' BY <1>4, <2>1 DEF Named, SetNick, Registered, TypeOK
  <2> QED BY <2>2, <2>3
<1>5. ASSUME NEW u \in Users, Finalize(u) PROVE Goal
  BY <1>5 DEF Finalize, vars, MonitorTypeOK, Registered, TypeOK
<1>6. ASSUME NEW u \in Users, Quit(u) PROVE Goal
  <2>1. notes' \in [Users -> Seq(NoteSet)]
    <3>1. CASE nick[u] = NoNick BY <1>6, <3>1 DEF Quit, MonitorTypeOK
    <3>2. CASE nick[u] # NoNick
      <4>1. <<Note("offline", nick[u])>> \in Seq(NoteSet)
        BY <3>2, NotesTyped DEF TypeOK
      <4> QED BY <1>6, <4>1 DEF Quit, MonitorTypeOK
    <3> QED BY <3>1, <3>2
  <2>2. MonitorTypeOK' BY <1>6, <2>1 DEF Quit, MonitorTypeOK
  <2>3. Registered' BY <1>6 DEF Quit, Disconnect, Registered
  <2> QED BY <2>2, <2>3
<1>7. ASSUME NEW u \in Users, NotifyList(u) PROVE Goal
  <2>1. notes' \in [Users -> Seq(NoteSet)]
    BY <1>7, LeftTyped DEF NotifyList, Telling
  <2> QED BY <1>7, <2>1 DEF NotifyList, vars, MonitorTypeOK, Registered
<1>8. ASSUME NEW u \in Users, NEW w \in Watchers, NotifyOne(u, w) PROVE Goal
  <2>1. notes[u] \in Seq(NoteSet) /\ notes[u] # <<>>
    BY <1>8 DEF NotifyOne, Telling, MonitorTypeOK
  <2>2. notes[u][1] \in NoteSet BY <2>1, EmptySeq, ElementOfSeq
  <2>3. notes' \in [Users -> Seq(NoteSet)]
    BY <1>8, <2>1, <2>2, LeftTyped DEF NotifyOne, NoteSet
  <2>4. heard' \in [Watchers -> [Nicks -> States \cup {"nothing"}]]
    <3>1. notes[u][1].nick \in Nicks /\ notes[u][1].state \in States
      BY <2>2 DEF NoteSet
    <3>2. [heard[w] EXCEPT ![notes[u][1].nick] = notes[u][1].state]
            \in [Nicks -> States \cup {"nothing"}]
      BY <3>1 DEF MonitorTypeOK
    <3>3. \/ heard' = heard
          \/ heard' = [heard EXCEPT
                         ![w] = [heard[w] EXCEPT ![notes[u][1].nick] = notes[u][1].state]]
      BY <1>8 DEF NotifyOne
    <3> QED BY <3>2, <3>3 DEF MonitorTypeOK
  <2>5. missed' \in [Watchers -> SUBSET Nicks]
    BY <1>8 DEF NotifyOne, MonitorTypeOK
  <2> QED BY <1>8, <2>3, <2>4, <2>5 DEF NotifyOne, vars, MonitorTypeOK, Registered
<1>9. ASSUME NEW w \in Watchers, NEW some \in SUBSET Nicks, MonitorAdd(w, some)
      PROVE  Goal
  <2>1. monitor_list[w] \in SUBSET Nicks BY DEF MonitorTypeOK
  <2>2. Cardinality(monitor_list[w] \cup some) <= MonitorLimit
    <3>1. monitor_list[w] \cup some \in SUBSET Nicks BY <2>1
    <3>2. /\ Cardinality(monitor_list[w] \cup some) \in Nat
          /\ Cardinality(monitor_list[w]) \in Nat
          /\ Cardinality(some) \in Nat
      BY <2>1, <3>1, ListsFinite
    <3>3. Cardinality(monitor_list[w] \cup some)
            <= Cardinality(monitor_list[w]) + Cardinality(some)
      BY <2>1, ListsLimited
    <3>4. Cardinality(monitor_list[w]) + Cardinality(some) <= MonitorLimit
      BY <1>9 DEF MonitorAdd
    <3> QED BY <3>2, <3>3, <3>4, MonitorAssumption DEF MonitorAssumption
  <2>3. [NoQuery EXCEPT !.ask = some, !.locked = TRUE] \in QuerySet
    BY DEF NoQuery, QuerySet
  <2> QED BY <1>9, <2>2, <2>3 DEF MonitorAdd, vars, MonitorTypeOK, Registered
<1>10. ASSUME NEW w \in Watchers, NEW some \in SUBSET Nicks, MonitorRemove(w, some)
       PROVE  Goal
  <2>1. monitor_list[w] \in SUBSET Nicks BY DEF MonitorTypeOK
  <2>2. Cardinality(monitor_list[w] \ some) <= MonitorLimit
    <3>1. monitor_list[w] \ some \in SUBSET Nicks BY <2>1
    <3>2. /\ Cardinality(monitor_list[w] \ some) \in Nat
          /\ Cardinality(monitor_list[w]) \in Nat
      BY <2>1, <3>1, ListsFinite
    <3>3. Cardinality(monitor_list[w] \ some) <= Cardinality(monitor_list[w])
      BY <2>1, ListsLimited
    <3>4. Cardinality(monitor_list[w]) <= MonitorLimit BY DEF MonitorTypeOK
    <3> QED BY <3>2, <3>3, <3>4, MonitorAssumption DEF MonitorAssumption
  <2>3. heard' \in [Watchers -> [Nicks -> States \cup {"nothing"}]]
    BY <1>10 DEF MonitorRemove, MonitorTypeOK
  <2> QED BY <1>10, <2>2, <2>3 DEF MonitorRemove, vars, MonitorTypeOK, Registered
<1>11. ASSUME NEW w \in Watchers, MonitorStatus(w) PROVE Goal
  <2>1. [NoQuery EXCEPT !.ask = monitor_list[w]] \in QuerySet
    BY DEF NoQuery, QuerySet, MonitorTypeOK
  <2> QED BY <1>11, <2>1 DEF MonitorStatus, vars, MonitorTypeOK, Registered
<1>12. ASSUME NEW w \in Watchers, NEW n \in Nicks, MonitorLook(w, n) PROVE Goal
  <2>1. query[w] \in QuerySet BY DEF MonitorTypeOK
  <2>2. query' \in [Watchers -> QuerySet]
    BY <1>12, <2>1 DEF MonitorLook, MonitorTypeOK, QuerySet
  <2> QED BY <1>12, <2>2 DEF MonitorLook, vars, MonitorTypeOK, Registered
<1>13. ASSUME NEW w \in Watchers, MonitorTell(w) PROVE Goal
  <2>1. heard' \in [Watchers -> [Nicks -> States \cup {"nothing"}]]
    BY <1>13 DEF MonitorTell, MonitorTypeOK, States
  <2>2. NoQuery \in QuerySet BY DEF NoQuery, QuerySet
  <2> QED BY <1>13, <2>1, <2>2 DEF MonitorTell, vars, MonitorTypeOK, Registered
<1>14. CASE UNCHANGED allvars
  BY <1>14 DEF allvars, mvars, vars, MonitorTypeOK, Registered
<1> QED
  BY <1>1, <1>2, <1>3, <1>4, <1>5, <1>6, <1>7, <1>8, <1>9, <1>10, <1>11, <1>12, <1>13, <1>14
     DEF MonitorNext, RegistryStep, MonitorStep

LEMMA MonitorTypingInit == MonitorInit => MonitorTypeOK /\ Registered
<1>1. {} \in SUBSET Nicks /\ Cardinality({}) <= MonitorLimit
  BY FS_EmptySet, MonitorAssumption DEF MonitorAssumption
<1> QED BY <1>1 DEF MonitorInit, MonitorTypeOK, Registered, NoQuery, QuerySet, States

\* MONITOR_LIMIT holds for any watchers and nicks, with the types.
THEOREM MonitorTyped == MonitorSpec => []MonitorTypeOK
BY MonitorTypingInit, MonitorTypingStep, RefinesRegistry, NickTyping, PTL DEF MonitorSpec

\* Only an accepted connection watches anything.
LEMMA NewWatchNothingStep ==
    TypeOK /\ MonitorTypeOK /\ NewWatchNothing /\ [MonitorNext]_allvars => NewWatchNothing'
<1> SUFFICES ASSUME TypeOK, MonitorTypeOK, NewWatchNothing, [MonitorNext]_allvars,
                    NEW w \in Watchers, conn'[w] = "new"
             PROVE  monitor_list'[w] = {}
  BY DEF NewWatchNothing
<1>0. w \in Users BY MonitorAssumption DEF MonitorAssumption
<1>1. conn[w] = "new"
  <2>1. [Next]_vars BY RegistrySteps
  <2> QED
    BY <1>0, <2>1 DEF Next, Connect, ClaimLook, ClaimRefused, KillLook, Claim, ClaimPrior,
         ClaimCheck, ClaimEvict, ClaimInsert, SetNick, Disconnect, Remove, Return,
         KillLookup, RemoveTake, RemoveSnap, RemoveCheck, RemoveEvict, vars, TypeOK
<1>2. monitor_list'[w] = monitor_list[w]
  <2>1. ASSUME NEW u \in Users, RegistryStep(u) PROVE monitor_list' = monitor_list
    BY <2>1 DEF RegistryStep, Enter, Start, Go, Evict, Renamed, Named, Finalize, Quit, mvars
  <2>2. ASSUME NEW v \in Watchers, MonitorStep(v) PROVE monitor_list'[w] = monitor_list[w]
    BY <1>0, <1>1, <2>2
       DEF MonitorStep, MonitorAdd, MonitorRemove, MonitorStatus, MonitorTell, MonitorLook,
           MayMonitor, Begin, MonitorTypeOK
  <2> QED BY <2>1, <2>2 DEF MonitorNext, NotifyList, NotifyOne, allvars, mvars
<1> QED BY <1>1, <1>2 DEF NewWatchNothing
-----------------------------------------------------------------------------
(***************************************************************************)
(* One worker: one handler at a time.                                      *)
(***************************************************************************)
\* With one worker a handler begins only when no other is under way.
LEMMA FreeAlone ==
    ASSUME workers = 1, NEW u \in Users, Free(u)
    PROVE  Occupied = {}
<1>1. Occupied \in SUBSET Users
  BY MonitorAssumption DEF MonitorAssumption, Occupied, Busy, Telling, Asking
<1>2. IsFiniteSet(Occupied) BY <1>1, NickAssumption, FS_Subset DEF NickAssumption
<1>3. Cardinality(Occupied) \in Nat BY <1>2, FS_CardinalityType
<1>4. Cardinality(Occupied) = 0 BY <1>3 DEF Free
<1> QED BY <1>2, <1>4, FS_EmptySet

\* Who acts is the only user that may be in a handler, and a handler that
\* begins finds everybody quiet.
LEMMA Actor ==
    ASSUME workers = 1, MonitorInv, NEW u \in Users, ~Quiet(u) \/ Free(u)
    PROVE  Only(u) /\ (Free(u) => Quiet(u))
<1>1. PICK o \in Users : Only(o) BY DEF MonitorInv
<1>2. CASE ~Quiet(u)
  <2>1. u = o BY <1>1, <1>2 DEF Only
  <2>2. ~Free(u)
    <3>1. ASSUME Free(u) PROVE FALSE
      <4>1. Occupied = {} BY <3>1, FreeAlone
      <4>2. pc[u] = "idle" /\ notes[u] = <<>> /\ (u \in Watchers => query[u] = NoQuery)
        BY <4>1 DEF Occupied, Busy, Telling, Asking
      <4>3. conn[u] # "closing"
        BY <1>1, <2>1, <4>2 DEF Only, RemoveInOrder, RemovedPCs
      <4> QED BY <1>2, <4>2, <4>3 DEF Quiet
    <3> QED BY <3>1
  <2> QED BY <1>1, <2>1, <2>2
<1>3. CASE Quiet(u) /\ Free(u)
  <2>1. Occupied = {} BY <1>3, FreeAlone
  <2>2. pc[o] = "idle" /\ notes[o] = <<>> /\ (o \in Watchers => query[o] = NoQuery)
    BY <2>1 DEF Occupied, Busy, Telling, Asking
  <2>3. conn[o] # "closing"
    BY <1>1, <2>2 DEF Only, RemoveInOrder, RemovedPCs
  <2>4. Quiet(o) BY <2>2, <2>3 DEF Quiet
  <2>5. \A v \in Users : Quiet(v) BY <1>1, <2>4 DEF Only
  <2>6. AskInOrder(u) /\ TellInOrder(u) /\ RemoveInOrder(u) /\ QuitTold(u)
    BY <1>3 DEF Quiet, AskInOrder, Asking, TellInOrder, RemoveInOrder, QuitTold
  <2>7. KnownBut(u)
    <3>1. ~LastNote(o) /\ ~NickNotes(o)
      BY <2>2, EmptySeq DEF LastNote, NickNotes
    <3>2. \A n \in Nicks : ~Moving(o, n) BY <2>2 DEF Moving, RemovedPCs
    <3>3. \A w \in Watchers, n \in Nicks : o = w => ~AsksFor(w, n)
      BY <2>2 DEF AsksFor, NoQuery
    <3>4. \A w \in Watchers : monitor_list[w] \subseteq Nicks
      BY DEF MonitorInv, Sound, MonitorTypeOK
    <3> QED BY <1>1, <3>1, <3>2, <3>3, <3>4 DEF Only, KnownBut, Noting
  <2> QED BY <1>3, <2>5, <2>6, <2>7 DEF Only
<1> QED BY <1>2, <1>3

\* When everybody is quiet, what watchers know is so.
LEMMA QuietKnown ==
    ASSUME Sound, NEW u \in Users, Quiet(u), KnownBut(u),
           NEW w \in Watchers \cap users, NEW n \in monitor_list[w] \ missed[w]
    PROVE  heard[w][n] = State(n)
<1>1. ~LastNote(u) /\ ~NickNotes(u) BY EmptySeq DEF Quiet, LastNote, NickNotes
<1>2. ~Moving(u, n) BY DEF Quiet, Moving, RemovedPCs
<1>3. u = w => ~AsksFor(w, n) BY DEF Quiet, AsksFor, NoQuery
<1> QED BY <1>1, <1>2, <1>3 DEF KnownBut, Noting

\* A handler of the registry that tells nobody asks nobody either, and what
\* watchers know is so but for the nicks it moves.
LEMMA MidHandler ==
    ASSUME Sound, NEW u \in Users, Only(u), pc[u] # "idle", u \notin Telling
    PROVE  /\ notes[u] = <<>> /\ u \notin Asking
           /\ \A w \in Watchers \cap users : \A n \in monitor_list[w] \ missed[w] :
                 heard[w][n] = State(n) \/ Moving(u, n)
<1>1. notes[u] = <<>> BY DEF Telling
<1>2. u \notin Asking BY DEF Only, AskInOrder
<1>3. ~LastNote(u) /\ ~NickNotes(u) BY DEF LastNote, NickNotes
<1>4. \A w \in Watchers, n \in Nicks : u = w => ~AsksFor(w, n)
  BY <1>2 DEF AsksFor, Asking, NoQuery
<1>5. \A w \in Watchers : monitor_list[w] \subseteq Nicks BY DEF Sound, MonitorTypeOK
<1> QED BY <1>1, <1>2, <1>3, <1>4, <1>5 DEF Only, KnownBut, Noting

\* Such a handler's step keeps the invariant if it keeps the nicks it moves.
LEMMA MidStep ==
    ASSUME Sound, NEW u \in Users, Only(u), pc[u] # "idle", u \notin Telling,
           UNCHANGED <<notes, query>>,
           \A v \in Users \ {u} : pc'[v] = pc[v] /\ conn'[v] = conn[v],
           RemoveInOrder(u)', QuitTold(u)',
           \A w \in Watchers \cap users' : \A n \in monitor_list'[w] \ missed'[w] :
               heard'[w][n] = State(n)' \/ Moving(u, n)'
    PROVE  Only(u)'
<1>1. notes[u] = <<>> /\ u \notin Asking BY MidHandler
<1>2. \A v \in Users \ {u} : Quiet(v)' BY DEF Only, Quiet
<1>3. AskInOrder(u)' BY <1>1 DEF AskInOrder, Asking
<1>4. TellInOrder(u)' BY <1>1 DEF TellInOrder
<1>5. KnownBut(u)' BY DEF KnownBut
<1> QED BY <1>2, <1>3, <1>4, <1>5 DEF Only

\* What the invariant of the registry says on one worker.
LEMMA OneWorkerFacts ==
    ASSUME Sound, workers = 1
    PROVE  TypeOK /\ OnlyHeldSlots /\ SlotsInOrder /\ HandlerInOrder
BY DEF Sound, IInv, UndisturbedOnOneWorker

\* The nick of a live or removed user leads to it, but during a claim.
LEMMA SlotOfNick ==
    ASSUME Sound, workers = 1, NEW v \in Accounted, NEW n \in Nicks,
           pc[v] \notin {"claim_insert", "claim_set"}
    PROVE  v \in Users /\ (nicks[n] = v <=> nick[v] = n)
<1>1. v \in Users BY OneWorkerFacts DEF TypeOK, Accounted, RemovedPCs, RemovePCs
<1>2. nicks[n] = v <=> Held(v) = n BY OneWorkerFacts DEF SlotsInOrder
<1> QED BY <1>1, <1>2 DEF Held

\* The steps of a handler that tell nobody.
LEMMA GoStep ==
    ASSUME Sound, workers = 1, NEW u \in Users, Only(u), Go(u)
    PROVE  Only(u)'
<1> USE OneWorkerFacts
<1>a. u \notin Telling /\ UNCHANGED mvars BY DEF Go
<1>b. pc[u] # "idle"
  BY DEF Go, ClaimPrior, ClaimCheck, ClaimEvict, ClaimInsert, KillLookup, RemoveTake,
         RemoveCheck, RemoveSnap, At
<1>c. RemoveInOrder(u) /\ QuitTold(u) BY DEF Only
<1>d. \A w \in Watchers \cap users : \A n \in monitor_list[w] \ missed[w] :
         heard[w][n] = State(n) \/ Moving(u, n)
  BY <1>a, <1>b, MidHandler
<1>e. \A w \in Watchers : monitor_list[w] \subseteq Nicks BY DEF Sound, MonitorTypeOK
<1> DEFINE Known == \A w \in Watchers \cap users' : \A n \in monitor_list'[w] \ missed'[w] :
                        heard'[w][n] = State(n)' \/ Moving(u, n)'
<1>f. ASSUME \A v \in Users \ {u} : pc'[v] = pc[v] /\ conn'[v] = conn[v],
             RemoveInOrder(u)', QuitTold(u)', Known
      PROVE  Only(u)'
  BY <1>a, <1>b, <1>f, MidStep DEF mvars
<1>1. CASE ClaimPrior(u)
  <2>1. \A v \in Users \ {u} : pc'[v] = pc[v] /\ conn'[v] = conn[v]
    BY <1>1 DEF ClaimPrior, Leave, Goto, TypeOK
  <2>2. RemoveInOrder(u)'
    <3>1. u \in users => pc'[u] # "claim_insert" \/ nick[u] = NoNick
      BY <1>1 DEF ClaimPrior, Goto, TypeOK
    <3> QED
      BY <1>1, <1>c, <3>1, NickAssumption
         DEF ClaimPrior, Leave, Goto, At, TypeOK, RemoveInOrder, RemovedPCs, NickAssumption
  <2>3. QuitTold(u)' BY <1>1, <1>c, <2>2 DEF ClaimPrior, Leave, Goto, At, TypeOK, QuitTold
  <2>4. Known
    <3>1. \A n : ~Moving(u, n) BY <1>1 DEF ClaimPrior, At, Moving, RemovedPCs
    <3> QED BY <1>1, <1>a, <1>d, <3>1 DEF ClaimPrior, mvars, State
  <2> QED BY <1>f, <2>1, <2>2, <2>3, <2>4
<1>2. CASE ClaimCheck(u)
  <2>0. pc'[u] = "claim_evict"
    <3>1. u \in Accounted /\ seen[u] = nick[u] /\ seen[u] \in Nicks
      BY <1>2 DEF ClaimCheck, At, TypeOK, SeenPCs, HandlerInOrder, OnlyHeldSlots, Accounted
    <3>2. nicks[seen[u]] = u BY <1>2, <3>1, SlotOfNick DEF ClaimCheck, At
    <3> QED BY <1>2, <3>2 DEF ClaimCheck, Goto, TypeOK
  <2>1. \A v \in Users \ {u} : pc'[v] = pc[v] /\ conn'[v] = conn[v]
    BY <1>2 DEF ClaimCheck, Goto, TypeOK
  <2>2. RemoveInOrder(u)'
    BY <1>2, <1>c, <2>0 DEF ClaimCheck, At, RemoveInOrder, RemovedPCs
  <2>3. QuitTold(u)' BY <2>0 DEF QuitTold
  <2>4. Known
    <3>1. \A n : ~Moving(u, n) BY <1>2 DEF ClaimCheck, At, Moving, RemovedPCs
    <3> QED BY <1>2, <1>a, <1>d, <3>1 DEF ClaimCheck, mvars, State
  <2> QED BY <1>f, <2>1, <2>2, <2>3, <2>4
<1>3. CASE ClaimEvict(u)
  <2>0. pc'[u] = "claim_insert" /\ seen[u] = nick[u] /\ seen[u] \in Nicks
    BY <1>3 DEF ClaimEvict, At, Goto, TypeOK, SeenPCs, OnlyHeldSlots
  <2>1. \A v \in Users \ {u} : pc'[v] = pc[v] /\ conn'[v] = conn[v]
    BY <1>3 DEF ClaimEvict, Goto, TypeOK
  <2>2. RemoveInOrder(u)'
    BY <1>3, <1>c, <2>0 DEF ClaimEvict, At, RemoveInOrder, RemovedPCs, TypeOK
  <2>3. QuitTold(u)' BY <2>0 DEF QuitTold
  <2>4. Known
    <3>1. \A n : ~Moving(u, n) BY <1>3 DEF ClaimEvict, At, Moving, RemovedPCs
    <3>2. \A n \in Nicks : n = nick[u] \/ State(n)' = State(n)
      BY <1>3, <2>0 DEF ClaimEvict, State, TypeOK
    <3>3. \A n : n = nick[u] => Moving(u, n)' BY <1>3, <2>0 DEF ClaimEvict, Moving
    <3> QED BY <1>3, <1>a, <1>d, <1>e, <3>1, <3>2, <3>3 DEF ClaimEvict, mvars
  <2> QED BY <1>f, <2>1, <2>2, <2>3, <2>4
<1>4. CASE ClaimInsert(u)
  <2>0. pc'[u] = "claim_set" /\ want[u] \in Nicks
    BY <1>4 DEF ClaimInsert, At, Goto, TypeOK, ClaimPCs
  <2>1. \A v \in Users \ {u} : pc'[v] = pc[v] /\ conn'[v] = conn[v]
    BY <1>4 DEF ClaimInsert, Goto, TypeOK
  <2>2. RemoveInOrder(u)'
    BY <1>4, <1>c, <2>0 DEF ClaimInsert, At, RemoveInOrder, RemovedPCs, TypeOK, locals
  <2>3. QuitTold(u)' BY <2>0 DEF QuitTold
  <2>4. Known
    <3>1. \A n : Moving(u, n) <=> Moving(u, n)'
      BY <1>4, <2>0 DEF ClaimInsert, At, Moving, RemovedPCs, locals
    <3>2. \A n \in Nicks : n = want[u] \/ State(n)' = State(n)
      BY <1>4, <2>0 DEF ClaimInsert, State, TypeOK
    <3>3. \A n : n = want[u] => Moving(u, n)' BY <1>4, <2>0 DEF ClaimInsert, Moving, locals
    <3> QED BY <1>4, <1>a, <1>d, <1>e, <3>1, <3>2, <3>3 DEF ClaimInsert, mvars
  <2> QED BY <1>f, <2>1, <2>2, <2>3, <2>4
<1>5. CASE KillLookup(u)
  <2>0. conn[u] # "closing" BY <1>5, <1>c DEF KillLookup, At, RemoveInOrder, RemovedPCs
  <2>1. \A v \in Users \ {u} : pc'[v] = pc[v] /\ conn'[v] = conn[v]
    BY <1>5 DEF KillLookup, Goto, Leave, TypeOK
  <2>2. RemoveInOrder(u)'
    BY <1>5, <1>c, <2>0 DEF KillLookup, At, Goto, Leave, RemoveInOrder, RemovedPCs, TypeOK
  <2>3. QuitTold(u)' BY <1>5, <2>0 DEF KillLookup, QuitTold
  <2>4. Known
    <3>1. \A n : ~Moving(u, n) BY <1>5 DEF KillLookup, At, Moving, RemovedPCs
    <3> QED BY <1>5, <1>a, <1>d, <3>1 DEF KillLookup, mvars, State
  <2> QED BY <1>f, <2>1, <2>2, <2>3, <2>4
<1>6. CASE RemoveTake(u)
  <2>0. /\ victim[u] \in Users
        /\ conn[u] = "open" \/ (conn[u] = "closing" /\ victim[u] = u /\ u \in users)
    BY <1>6, <1>c DEF RemoveTake, At, RemoveInOrder, RemovedPCs, TypeOK, RemovePCs
  <2>1. \A v \in Users \ {u} : pc'[v] = pc[v] /\ conn'[v] = conn[v]
    BY <1>6 DEF RemoveTake, Return, Goto, Leave, TypeOK
  <2>2. RemoveInOrder(u)'
    BY <1>6, <1>c, <2>0 DEF RemoveTake, Return, At, Goto, Leave, RemoveInOrder, RemovedPCs,
                            TypeOK, locals
  <2>3. QuitTold(u)'
    BY <1>6, <2>0 DEF RemoveTake, Return, At, Goto, Leave, QuitTold, TypeOK
  <2>4. Known
    <3>1. CASE victim[u] \notin users
      <4>1. conn[u] = "open" BY <2>0, <3>1
      <4>2. \A n : ~Moving(u, n) BY <1>6, <4>1 DEF RemoveTake, At, Moving, RemovedPCs
      <4>3. users' = users BY <1>6, <3>1 DEF RemoveTake
      <4> QED BY <1>6, <1>a, <1>d, <4>2, <4>3 DEF RemoveTake, mvars, State
    <3>2. CASE victim[u] \in users
      <4>1. pc[victim[u]] \notin {"claim_insert", "claim_set"}
        BY <1>6, <2>0 DEF Only, Quiet, RemoveTake, At
      <4>2. \A n \in Nicks : nicks[n] = victim[u] <=> nick[victim[u]] = n
        BY <3>2, <4>1, SlotOfNick DEF Accounted
      <4>3. \A n \in Nicks : State(n)' = IF n = nick[victim[u]] THEN "offline" ELSE State(n)
        BY <1>6, <3>2, <4>2 DEF RemoveTake, State
      <4>4. pc'[u] = "rm_snap" /\ UNCHANGED <<conn, locals, nick>>
        BY <1>6, <3>2 DEF RemoveTake, Goto, TypeOK
      <4>5. CASE conn[u] = "open"
        <5>1. \A n : ~Moving(u, n) BY <1>6, <4>5 DEF RemoveTake, At, Moving, RemovedPCs
        <5>2. \A n : n = nick[victim[u]] => Moving(u, n)'
          BY <4>4, <4>5 DEF Moving, RemovedPCs, locals
        <5> QED BY <1>6, <1>a, <1>d, <1>e, <4>3, <5>1, <5>2 DEF RemoveTake, mvars
      <4>6. CASE conn[u] = "closing"
        <5>1. victim[u] = u BY <2>0, <4>6
        <5>2. \A n : Moving(u, n) => n = nick[u]
          BY <1>6, <4>6 DEF RemoveTake, At, Moving, RemovedPCs
        <5>3. ~QuitNote(u) BY <1>a, EmptySeq DEF Telling, QuitNote
        <5>4. \A w \in Watchers \cap users : nick[u] \in monitor_list[w] \ missed[w] =>
                 heard[w][nick[u]] = "offline"
          BY <1>6, <1>c, <4>6, <5>3 DEF RemoveTake, At, QuitTold
        <5> QED BY <1>6, <1>a, <1>d, <1>e, <4>3, <5>1, <5>2, <5>4 DEF RemoveTake, mvars
      <4> QED BY <2>0, <4>5, <4>6
    <3> QED BY <3>1, <3>2
  <2> QED BY <1>f, <2>1, <2>2, <2>3, <2>4
<1>7. CASE RemoveSnap(u)
  <2>0. conn[u] \in {"open", "closing"} /\ victim[u] \in Users
    BY <1>7, <1>c DEF RemoveSnap, At, RemoveInOrder, RemovedPCs, TypeOK, RemovePCs
  <2>1. \A v \in Users \ {u} : pc'[v] = pc[v] /\ conn'[v] = conn[v]
    BY <1>7 DEF RemoveSnap, Return, Goto, Leave, TypeOK
  <2>2. RemoveInOrder(u)'
    BY <1>7, <1>c, <2>0 DEF RemoveSnap, Return, At, Goto, Leave, RemoveInOrder, RemovedPCs,
                            TypeOK
  <2>3. QuitTold(u)'
    BY <1>7, <2>0 DEF RemoveSnap, Return, At, Goto, Leave, QuitTold, TypeOK
  <2>4. Known
    <3>1. CASE nick[victim[u]] = NoNick
      <4>1. \A n \in Nicks : ~Moving(u, n)
        BY <1>7, <3>1, NickAssumption DEF RemoveSnap, At, Moving, RemovedPCs, NickAssumption
      <4> QED BY <1>7, <1>a, <1>d, <1>e, <4>1 DEF RemoveSnap, mvars, State
    <3>2. CASE nick[victim[u]] # NoNick
      <4>1. pc'[u] = "rm_check" /\ UNCHANGED <<conn, victim, nick>>
        BY <1>7, <3>2 DEF RemoveSnap, Goto, TypeOK
      <4>2. \A n : Moving(u, n) => Moving(u, n)'
        BY <1>7, <4>1 DEF RemoveSnap, At, Moving, RemovedPCs
      <4> QED BY <1>7, <1>a, <1>d, <4>2 DEF RemoveSnap, mvars, State
    <3> QED BY <3>1, <3>2
  <2> QED BY <1>f, <2>1, <2>2, <2>3, <2>4
<1>8. CASE RemoveCheck(u)
  <2>0. conn[u] \in {"open", "closing"} /\ pc[u] = "rm_check"
    BY <1>8, <1>c DEF RemoveCheck, At, RemoveInOrder
  <2>a. pc'[u] = "rm_evict" /\ UNCHANGED <<conn, locals>>
    <3>1. /\ victim[u] \in Accounted /\ seen[u] = nick[victim[u]] /\ seen[u] \in Nicks
          /\ victim[u] \in Users
      BY <2>0 DEF TypeOK, SeenPCs, RemovePCs, HandlerInOrder, Accounted, RemovedPCs
    <3>2. pc[victim[u]] \notin {"claim_insert", "claim_set"}
      BY <2>0, <3>1 DEF Only, Quiet
    <3>3. nicks[seen[u]] = victim[u] BY <3>1, <3>2, SlotOfNick
    <3> QED BY <1>8, <3>3 DEF RemoveCheck, Goto, TypeOK
  <2>1. \A v \in Users \ {u} : pc'[v] = pc[v] /\ conn'[v] = conn[v]
    BY <1>8, <2>a DEF RemoveCheck, Return, Leave, Goto, TypeOK
  <2>2. RemoveInOrder(u)'
    BY <2>0, <2>a, <1>c DEF RemoveInOrder, RemovedPCs, locals
  <2>3. QuitTold(u)' BY <2>a DEF QuitTold
  <2>4. Known
    <3>1. \A n : Moving(u, n) => Moving(u, n)'
      BY <1>8, <2>0, <2>a DEF RemoveCheck, Moving, RemovedPCs, locals
    <3> QED BY <1>8, <1>a, <1>d, <3>1 DEF RemoveCheck, mvars, State
  <2> QED BY <1>f, <2>1, <2>2, <2>3, <2>4
<1> QED BY <1>1, <1>2, <1>3, <1>4, <1>5, <1>6, <1>7, <1>8 DEF Go

\* The slot that remove_user frees was nobody's that is live, so only a KILL
\* has watchers left that know nothing.
LEMMA EvictStep ==
    ASSUME Sound, workers = 1, NEW u \in Users, Only(u), Evict(u)
    PROVE  Only(u)'
<1> USE OneWorkerFacts
<1>0. /\ pc[u] = "rm_evict" /\ conn[u] \in {"open", "closing"} /\ victim[u] \in Users
      /\ victim[u] \in Accounted /\ victim[u] \notin users
      /\ seen[u] = nick[victim[u]] /\ seen[u] \in Nicks
  BY DEF Evict, RemoveEvict, At, TypeOK, SeenPCs, RemovePCs, HandlerInOrder, Accounted,
         RemovedPCs, Only, RemoveInOrder
<1>1. notes[u] = <<>>
  BY <1>0 DEF Only, TellInOrder, QuitNote, LastNote, NickNotes
<1>2. \A w \in Watchers \cap users : \A n \in monitor_list[w] \ missed[w] :
         heard[w][n] = State(n) \/ Moving(u, n)
  BY <1>0, <1>1, MidHandler DEF Telling
<1>3. \A v \in Users \ {u} : pc'[v] = pc[v] /\ conn'[v] = conn[v]
  BY DEF Evict, RemoveEvict, Return, Leave, Goto, TypeOK
<1>4. pc'[u] = "idle" /\ conn'[u] # "closing" /\ users' = users
  BY <1>0 DEF Evict, RemoveEvict, Return, Leave, Goto, TypeOK
<1>5. RemoveInOrder(u)' /\ QuitTold(u)' BY <1>4 DEF RemoveInOrder, QuitTold
<1>6. \A n \in Nicks : State(n)' = State(n)
  <2>1. nicks[seen[u]] \notin users
    <3>1. pc[victim[u]] \notin {"claim_insert", "claim_set"}
      BY <1>0 DEF Only, Quiet
    <3>2. nicks[seen[u]] = victim[u] BY <1>0, <3>1, SlotOfNick
    <3> QED BY <1>0, <3>2
  <2>2. nicks' = [nicks EXCEPT ![seen[u]] = Nobody] BY DEF Evict, RemoveEvict
  <2> QED BY <1>0, <1>4, <2>1, <2>2, NickAssumption DEF State, TypeOK, NickAssumption
<1>7. \A w \in Watchers : monitor_list[w] \subseteq Nicks /\ monitor_list' = monitor_list
  BY DEF Sound, MonitorTypeOK, Evict
<1>8. \A w \in Watchers : \A n \in monitor_list[w] \ missed'[w] :
         n \notin missed[w] /\ ~Moving(u, n)
  <2>1. CASE conn[u] = "closing"
    BY <1>0, <2>1 DEF Evict, Moving, RemovedPCs
  <2>2. CASE conn[u] = "open"
    <3>1. \A n : Moving(u, n) => n = seen[u] BY <1>0, <2>2 DEF Moving
    <3>2. \A w \in Watchers :
             missed'[w] = missed[w] \cup (monitor_list[w] \cap {seen[u]})
      BY <2>2 DEF Evict, Missing
    <3> QED BY <3>1, <3>2
  <2> QED BY <1>0, <2>1, <2>2
<1>9. \A w \in Watchers \cap users' : \A n \in monitor_list'[w] \ missed'[w] :
         heard'[w][n] = State(n)' \/ Moving(u, n)'
  BY <1>2, <1>4, <1>6, <1>7, <1>8 DEF Evict
<1> QED BY <1>0, <1>1, <1>3, <1>5, <1>9, MidStep DEF Evict, Telling

\* The steps with which a handler of the registry begins.
LEMMA BeginStep ==
    ASSUME Sound, workers = 1, NEW u \in Users, Only(u), Quiet(u),
           Enter(u) \/ Start(u) \/ Finalize(u) \/ Quit(u)
    PROVE  Only(u)'
<1> USE OneWorkerFacts
<1>a. \A v \in Users : Quiet(v) BY DEF Only
<1>b. \A w \in Watchers \cap users : \A n \in monitor_list[w] \ missed[w] :
         heard[w][n] = State(n)
  BY QuietKnown DEF Only
<1>c. u \notin Asking BY DEF Quiet, Asking
<1>d. \A w \in Watchers : monitor_list[w] \subseteq Nicks BY DEF Sound, MonitorTypeOK
<1>1. CASE Enter(u)
  <2>1. \A v \in Users : Quiet(v)'
    BY <1>1, <1>a DEF Enter, Connect, mvars, Quiet, TypeOK
  <2>2. AskInOrder(u)' /\ TellInOrder(u)' /\ RemoveInOrder(u)' /\ QuitTold(u)'
    BY <2>1 DEF Quiet, AskInOrder, Asking, TellInOrder, RemoveInOrder, QuitTold
  <2>3. \A n \in Nicks : State(n)' = State(n)
    <3>1. nick[u] = NoNick /\ pc[u] = "idle"
      BY <1>1 DEF Enter, Connect, OnlyHeldSlots
    <3>2. \A n \in Nicks : nicks[n] # u
      BY <3>1, NickAssumption DEF OnlyHeldSlots, Held, NickAssumption
    <3> QED BY <1>1, <3>2 DEF Enter, Connect, State
  <2>4. u \in Watchers => monitor_list[u] = {}
    BY <1>1 DEF Enter, Connect, Sound, NewWatchNothing
  <2>5. KnownBut(u)'
    BY <1>1, <1>b, <1>d, <2>3, <2>4 DEF Enter, Connect, mvars, KnownBut
  <2> QED BY <2>1, <2>2, <2>5 DEF Only
<1>2. CASE Start(u)
  <2>1. \A v \in Users \ {u} : Quiet(v)'
    BY <1>2, <1>a DEF Start, ClaimLook, ClaimRefused, KillLook, Goto, mvars, Quiet, vars, TypeOK
  <2>2. conn[u] = "open" /\ conn' = conn
    BY <1>2 DEF Start, ClaimLook, ClaimRefused, KillLook, Begin, vars
  <2>3. AskInOrder(u)' BY <1>2, <1>c DEF Start, mvars, AskInOrder, Asking
  <2>4. TellInOrder(u)' BY <1>2, <1>a DEF Start, mvars, TellInOrder, Quiet
  <2>5. RemoveInOrder(u)'
    <3>1. ASSUME NEW n \in Nicks, ClaimLook(u, n) PROVE RemoveInOrder(u)'
      <4>1. nicks[n] = u => nick[u] = n
        BY <1>a DEF OnlyHeldSlots, Held, Quiet
      <4> QED BY <2>2, <3>1, <4>1 DEF ClaimLook, Goto, RemoveInOrder, TypeOK
    <3>2. ASSUME NEW n \in Nicks, ClaimRefused(u, n) PROVE RemoveInOrder(u)'
      BY <2>2, <3>2, <1>a DEF ClaimRefused, vars, RemoveInOrder, Quiet
    <3>3. ASSUME NEW n \in Nicks, KillLook(u, n) PROVE RemoveInOrder(u)'
      BY <2>2, <3>3 DEF KillLook, Goto, RemoveInOrder, TypeOK
    <3> QED BY <1>2, <3>1, <3>2, <3>3 DEF Start
  <2>6. QuitTold(u)' BY <2>2 DEF QuitTold
  <2>7. KnownBut(u)'
    BY <1>2, <1>b DEF Start, ClaimLook, ClaimRefused, KillLook, mvars, vars, KnownBut, State
  <2> QED BY <2>1, <2>3, <2>4, <2>5, <2>6, <2>7 DEF Only
<1>3. CASE Finalize(u)
  <2>1. \A v \in Users : Quiet(v)' BY <1>3, <1>a DEF Finalize, vars, Quiet
  <2>2. AskInOrder(u)' /\ TellInOrder(u)' /\ RemoveInOrder(u)' /\ QuitTold(u)'
    BY <2>1 DEF Quiet, AskInOrder, Asking, TellInOrder, RemoveInOrder, QuitTold
  <2>3. KnownBut(u)' BY <1>3, <1>b DEF Finalize, vars, KnownBut, State
  <2> QED BY <2>1, <2>2, <2>3 DEF Only
<1>4. CASE Quit(u)
  <2>1. \A v \in Users \ {u} : Quiet(v)'
    BY <1>4, <1>a DEF Quit, Disconnect, Goto, Quiet, TypeOK, Sound, MonitorTypeOK
  <2>2. AskInOrder(u)' BY <1>4, <1>c DEF Quit, AskInOrder, Asking
  <2>3. RemoveInOrder(u)'
    BY <1>4, <1>a DEF Quit, Disconnect, Begin, At, Goto, RemoveInOrder, Quiet, TypeOK
  <2>4. /\ u \in users /\ nick[u] # NoNick => QuitNote(u)' /\ \A w : Awaits(w, u)'
        /\ u \notin users \/ nick[u] = NoNick => notes'[u] = <<>>
    <3>1. CASE u \in users /\ nick[u] # NoNick
      <4>1. notes'[u] = <<Note("offline", nick[u])>>
        BY <1>4, <3>1 DEF Quit, Sound, MonitorTypeOK
      <4>2. /\ Len(notes'[u]) = 1 /\ notes'[u][1] = Note("offline", nick[u])
            /\ nick' = nick /\ pc'[u] = "rm_take" /\ conn'[u] = "closing"
        BY <1>4, <3>1, <4>1 DEF Quit, Disconnect, Goto, TypeOK
      <4> QED BY <3>1, <4>2 DEF QuitNote, Awaits, Note
    <3>2. CASE u \notin users \/ nick[u] = NoNick
      BY <1>4, <1>a, <3>2 DEF Quit, Quiet
    <3> QED BY <3>1, <3>2
  <2>5. TellInOrder(u)' BY <2>4 DEF TellInOrder
  <2>6. QuitTold(u)'
    <3>1. nick' = nick /\ users' = users /\ UNCHANGED <<monitor_list, missed>>
      BY <1>4 DEF Quit, Disconnect
    <3>2. u \notin users => conn'[u] # "closing"
      BY <1>4 DEF Quit, Disconnect, TypeOK
    <3> QED BY <1>d, <2>4, <3>1, <3>2, NickAssumption DEF QuitTold, NickAssumption
  <2>7. KnownBut(u)' BY <1>4, <1>b DEF Quit, Disconnect, KnownBut, State
  <2> QED BY <2>1, <2>2, <2>3, <2>5, <2>6, <2>7 DEF Only
<1> QED BY <1>1, <1>2, <1>3, <1>4

\* A registered user's NICK leaves the notes of both nicks, which are all it
\* moved; another user's leaves nobody that knows.
LEMMA NamedStep ==
    ASSUME Sound, workers = 1, NEW u \in Users, Only(u), Renamed(u) \/ Named(u)
    PROVE  Only(u)'
<1> USE OneWorkerFacts
<1>0. /\ pc[u] = "claim_set" /\ conn[u] = "open" /\ want[u] \in Nicks /\ u \in users
      /\ nick'[u] = want[u] /\ pc'[u] = "idle" /\ conn' = conn
      /\ UNCHANGED <<users, nicks, heard, monitor_list, query>>
      /\ \A v \in Users \ {u} : pc'[v] = pc[v]
  <2>1. SetNick(u) BY DEF Renamed, Named
  <2>2. pc[u] = "claim_set" /\ u \in users BY <2>1 DEF SetNick, At, HandlerInOrder
  <2>3. conn[u] = "open" BY <2>2 DEF Only, RemoveInOrder, RemovedPCs
  <2> QED BY <2>1, <2>2, <2>3 DEF SetNick, Leave, Goto, TypeOK, ClaimPCs, Renamed, Named
<1>1. notes[u] = <<>>
  BY <1>0 DEF Only, TellInOrder, QuitNote, LastNote, NickNotes
<1>2. /\ u \notin Asking
      /\ \A w \in Watchers \cap users : \A n \in monitor_list[w] \ missed[w] :
            heard[w][n] = State(n) \/ n \in {nick[u], want[u]}
  <2>1. \A n : Moving(u, n) => n \in {nick[u], want[u]}
    BY <1>0 DEF Moving, RemovedPCs
  <2> QED BY <1>0, <1>1, <2>1, MidHandler DEF Telling
<1>3. AskInOrder(u)' BY <1>0, <1>2 DEF AskInOrder, Asking
<1>4. RemoveInOrder(u)' BY <1>0 DEF RemoveInOrder
<1>5. QuitTold(u)' BY <1>0 DEF QuitTold
<1>6. \A n : State(n)' = State(n) BY <1>0 DEF State
<1>7. CASE Renamed(u)
  <2>0. nick[u] \in Nicks BY <1>7 DEF Renamed, Sound, Registered
  <2>1. \A v \in Users \ {u} : Quiet(v)'
    BY <1>0, <1>7 DEF Renamed, Only, Quiet, Sound, MonitorTypeOK
  <2>2. notes'[u] = <<Note("offline", nick[u]), Note("online", want[u])>>
    BY <1>7 DEF Renamed, Sound, MonitorTypeOK
  <2>3. /\ Len(notes'[u]) = 2
        /\ notes'[u][1] = Note("offline", nick[u])
        /\ notes'[u][2] = Note("online", want[u])
    BY <2>2
  <2>4. nick[u] = want[u] \/ nicks[nick[u]] = Nobody
    BY <1>0, <2>0 DEF Only, RemoveInOrder
  <2>5. NickNotes(u)' /\ \A w : Awaits(w, u)'
    BY <1>0, <2>3, <2>4 DEF NickNotes, Awaits, Note
  <2>6. \A n \in {nick[u], want[u]} : n = notes'[u][1].nick \/ n = notes'[u][2].nick
    BY <2>3 DEF Note
  <2>7. missed' = missed BY <1>7 DEF Renamed
  <2>8. KnownBut(u)' BY <1>0, <1>2, <1>6, <2>5, <2>6, <2>7 DEF KnownBut, Noting
  <2> QED BY <1>3, <1>4, <1>5, <2>1, <2>5, <2>8 DEF Only, TellInOrder
<1>8. CASE Named(u)
  <2>1. \A v \in Users \ {u} : Quiet(v)' BY <1>0, <1>8 DEF Named, Only, Quiet
  <2>2. TellInOrder(u)' BY <1>1, <1>8 DEF Named, TellInOrder
  <2>3. \A w \in Watchers :
           missed'[w] = missed[w] \cup (monitor_list[w] \cap {nick[u], want[u]})
    BY <1>8 DEF Named, Missing
  <2>4. KnownBut(u)' BY <1>0, <1>2, <1>6, <2>3 DEF KnownBut
  <2> QED BY <1>3, <1>4, <1>5, <2>1, <2>2, <2>4 DEF Only
<1> QED BY <1>7, <1>8

\* The notes are told in order, one watcher after the other.
LEMMA ToldNotes ==
    ASSUME MonitorTypeOK, NEW u \in Users, notes[u] # <<>>,
           NEW rest \in SUBSET Watchers, notes' = Left(u, rest)
    PROVE  /\ \A v \in Users \ {u} : notes'[v] = notes[v]
           /\ notes[u] \in Seq(NoteSet) /\ notes[u][1] \in NoteSet
           /\ rest = {} => /\ Len(notes'[u]) = Len(notes[u]) - 1
                           /\ Len(notes[u]) = 1 => notes'[u] = <<>>
                           /\ Len(notes[u]) = 2 => notes'[u][1] = notes[u][2]
           /\ rest # {} =>
                /\ Len(notes'[u]) = Len(notes[u])
                /\ notes'[u][1] = [notes[u][1] EXCEPT !.listed = TRUE, !.to = rest]
                /\ Len(notes[u]) = 2 => notes'[u][2] = notes[u][2]
<1>1. notes[u] \in Seq(NoteSet) BY DEF MonitorTypeOK
<1>2. Len(notes[u]) \in Nat /\ Len(notes[u]) > 0 BY <1>1, EmptySeq
<1>3. notes[u][1] \in NoteSet BY <1>1, <1>2, ElementOfSeq
<1>4. \A v \in Users \ {u} : notes'[v] = notes[v] BY DEF Left, MonitorTypeOK
<1>5. CASE rest = {}
  <2>1. notes'[u] = Tail(notes[u]) BY <1>5 DEF Left, MonitorTypeOK
  <2>2. /\ Tail(notes[u]) \in Seq(NoteSet)
        /\ Len(Tail(notes[u])) = Len(notes[u]) - 1
        /\ \A i \in 1 .. Len(Tail(notes[u])) : Tail(notes[u])[i] = notes[u][i + 1]
    BY <1>1, HeadTailProperties
  <2>3. Len(notes[u]) = 1 => Tail(notes[u]) = <<>>
    <3>1. Tail(notes[u]) # <<>> => Len(Tail(notes[u])) \in Nat \ {0}
      BY <2>2, EmptySeq
    <3>2. Len(notes[u]) = 1 => Len(Tail(notes[u])) = 0 BY <2>2
    <3> QED BY <3>1, <3>2
  <2>4. Len(notes[u]) = 2 => Tail(notes[u])[1] = notes[u][2] BY <2>2
  <2> QED BY <1>1, <1>3, <1>4, <1>5, <2>1, <2>2, <2>3, <2>4
<1>6. CASE rest # {}
  <2> DEFINE note == [notes[u][1] EXCEPT !.listed = TRUE, !.to = rest]
  <2>1. note \in NoteSet BY <1>3 DEF NoteSet
  <2>2. notes'[u] = [notes[u] EXCEPT ![1] = note] BY <1>6 DEF Left, MonitorTypeOK
  <2> HIDE DEF note
  <2>3. /\ Len(notes'[u]) = Len(notes[u])
        /\ \A j \in 1 .. Len(notes[u]) :
              notes'[u][j] = IF j = 1 THEN note ELSE notes[u][j]
    BY <1>1, <1>2, <2>1, <2>2, ExceptSeq
  <2>4. notes'[u][1] = note BY <1>2, <2>3
  <2>5. Len(notes[u]) = 2 => notes'[u][2] = notes[u][2] BY <2>3
  <2> QED BY <1>1, <1>3, <1>4, <1>6, <2>3, <2>4, <2>5 DEF note
<1> QED BY <1>5, <1>6

\* Telling keeps the invariant if whoever is not awaited any more has been
\* told, and nobody is told anything else.
LEMMA TellStep ==
    ASSUME Sound, workers = 1, NEW u \in Users, Only(u), notes[u] # <<>>,
           NEW rest \in SUBSET Watchers, notes' = Left(u, rest),
           UNCHANGED <<vars, monitor_list, query>>,
           \A w \in Watchers \cap users : Awaits(w, u) =>
               \/ w \in rest
               \/ notes[u][1].nick \in monitor_list[w] =>
                     heard'[w][notes[u][1].nick] = notes[u][1].state,
           \A w \in Watchers : \A n \in monitor_list[w] \ missed'[w] :
               \/ n \notin missed[w] /\ heard'[w][n] = heard[w][n]
               \/ n = notes[u][1].nick /\ heard'[w][n] = notes[u][1].state
    PROVE  Only(u)'
<1> USE OneWorkerFacts
<1> DEFINE note == notes[u][1]
<1>a. MonitorTypeOK BY DEF Sound
<1>b. note \in NoteSet /\ \A v \in Users \ {u} : notes'[v] = notes[v]
  BY <1>a, ToldNotes
<1>c. note.nick \in Nicks BY <1>b DEF NoteSet
<1>d. /\ rest = {} => /\ Len(notes'[u]) = Len(notes[u]) - 1
                      /\ Len(notes[u]) = 1 => notes'[u] = <<>>
                      /\ Len(notes[u]) = 2 => notes'[u][1] = notes[u][2]
      /\ rest # {} => /\ Len(notes'[u]) = Len(notes[u])
                      /\ notes'[u][1] = [note EXCEPT !.listed = TRUE, !.to = rest]
                      /\ Len(notes[u]) = 2 => notes'[u][2] = notes[u][2]
  BY <1>a, ToldNotes
<1>e. rest # {} => /\ notes'[u][1].nick = note.nick /\ notes'[u][1].state = note.state
                   /\ notes'[u][1].to = rest
  BY <1>b, <1>d DEF NoteSet
<1> HIDE DEF note
<1>f. UNCHANGED <<pc, conn, users, nicks, nick, want, victim>> BY DEF vars, locals
<1>g. /\ \A w \in rest : Awaits(w, u)'
      /\ \A n : State(n)' = State(n)
      /\ \A n : Moving(u, n)' <=> Moving(u, n)
  BY <1>e, <1>f DEF Awaits, State, Moving
<1>1. \A v \in Users \ {u} : Quiet(v)' BY <1>b, <1>f DEF Only, Quiet
<1>2. AskInOrder(u)'
  BY <1>f DEF Only, AskInOrder, Asking
<1>3. RemoveInOrder(u)' BY <1>f DEF Only, RemoveInOrder
<1>4. QuitNote(u) => IF rest = {} THEN notes'[u] = <<>> ELSE QuitNote(u)'
  BY <1>d, <1>e, <1>f DEF QuitNote, note
<1>5. LastNote(u) => IF rest = {} THEN notes'[u] = <<>> ELSE LastNote(u)'
  BY <1>d, <1>e, <1>f DEF LastNote, note
<1>6. NickNotes(u) => IF rest = {} THEN LastNote(u)' /\ \A w : Awaits(w, u)'
                      ELSE NickNotes(u)'
  BY <1>d, <1>e, <1>f DEF NickNotes, LastNote, Awaits, note
<1>7. QuitNote(u) \/ LastNote(u) \/ NickNotes(u) BY DEF Only, TellInOrder
<1>8. TellInOrder(u)' BY <1>4, <1>5, <1>6, <1>7 DEF TellInOrder
<1>9. QuitTold(u)'
  <2> SUFFICES ASSUME conn[u] = "closing", pc[u] = "rm_take",
                      NEW w \in Watchers \cap users,
                      nick[u] \in monitor_list[w] \ missed'[w]
               PROVE  heard'[w][nick[u]] = "offline" \/ (QuitNote(u)' /\ Awaits(w, u)')
    BY <1>f DEF QuitTold
  <2>1. QuitNote(u) BY <1>7 DEF LastNote, NickNotes
  <2>2. note.nick = nick[u] /\ note.state = "offline" BY <2>1 DEF QuitNote, note
  <2>3. \/ nick[u] \notin missed[w] /\ heard'[w][nick[u]] = heard[w][nick[u]]
        \/ heard'[w][nick[u]] = "offline"
    BY <2>2 DEF note
  <2>4. nick[u] \notin missed[w] => heard[w][nick[u]] = "offline" \/ Awaits(w, u)
    BY DEF Only, QuitTold
  <2>5. Awaits(w, u) => w \in rest \/ heard'[w][nick[u]] = "offline"
    BY <2>2 DEF note
  <2> QED BY <1>4, <1>g, <2>1, <2>3, <2>4, <2>5
<1>10. KnownBut(u)'
  <2> SUFFICES ASSUME NEW w \in Watchers \cap users, NEW n \in monitor_list[w] \ missed'[w]
               PROVE  heard'[w][n] = State(n) \/ Moving(u, n) \/ Noting(u, w, n)'
    BY <1>f, <1>g DEF KnownBut
  <2>0. n \in Nicks BY <1>a DEF MonitorTypeOK
  <2>1. \/ n \notin missed[w] /\ heard'[w][n] = heard[w][n]
        \/ n = note.nick /\ heard'[w][n] = note.state
    BY DEF note
  <2>2. n \notin missed[w] => heard[w][n] = State(n) \/ Moving(u, n) \/ Noting(u, w, n)
    <3>1. u = w => ~AsksFor(w, n)
      BY DEF Only, AskInOrder, Asking, AsksFor, NoQuery
    <3> QED BY <3>1 DEF Only, KnownBut
  <2>3. n = note.nick /\ Awaits(w, u) => w \in rest \/ heard'[w][n] = note.state
    BY DEF note
  <2>4. CASE QuitNote(u)
    <3>1. n = note.nick => Moving(u, n) BY <2>4 DEF QuitNote, Moving, note
    <3>2. ~LastNote(u) /\ ~NickNotes(u) BY <2>4 DEF QuitNote, LastNote, NickNotes
    <3> QED BY <2>1, <2>2, <3>1, <3>2 DEF Noting
  <2>5. CASE LastNote(u)
    <3>1. /\ ~Moving(u, n) /\ ~NickNotes(u)
          /\ note.state = "online" /\ note.nick = nick[u] /\ u \in Accounted
          /\ pc[u] = "idle" /\ u \in users
      BY <2>5 DEF LastNote, NickNotes, Moving, RemovedPCs, Accounted, note
    <3>2. n = note.nick => State(n) = note.state
      BY <2>0, <3>1, SlotOfNick DEF State
    <3>3. n = note.nick /\ w \in rest => Noting(u, w, n)'
      BY <1>5, <1>e, <1>g, <2>5 DEF Noting
    <3>4. n # note.nick => ~Noting(u, w, n) BY <3>1 DEF Noting, note
    <3>5. Noting(u, w, n) => Awaits(w, u) BY <3>1 DEF Noting
    <3> QED BY <2>1, <2>2, <2>3, <3>1, <3>2, <3>3, <3>4, <3>5
  <2>6. CASE NickNotes(u)
    <3>1. /\ ~Moving(u, n) /\ ~LastNote(u)
          /\ note.state = "offline" /\ notes[u][2].nick = nick[u]
          /\ note.nick = nick[u] \/ nicks[note.nick] = Nobody
      BY <2>6 DEF LastNote, NickNotes, Moving, RemovedPCs, note
    <3>2. CASE n = nick[u]
      <4>1. rest = {} => Noting(u, w, n)'
        BY <1>6, <1>f, <2>6, <3>2 DEF Noting, LastNote
      <4>2. rest # {} => Noting(u, w, n)'
        BY <1>6, <1>f, <2>6, <3>2 DEF Noting, NickNotes
      <4> QED BY <4>1, <4>2
    <3>3. CASE n # nick[u]
      <4>1. n = note.nick => State(n) = note.state
        BY <3>1, <3>3, NickAssumption DEF State, TypeOK, NickAssumption
      <4>2. n = note.nick /\ w \in rest => Noting(u, w, n)'
        BY <1>6, <1>e, <1>g, <2>6 DEF Noting
      <4>3. Noting(u, w, n) => n = note.nick /\ Awaits(w, u)
        BY <3>1, <3>3 DEF Noting, note
      <4> QED BY <2>1, <2>2, <2>3, <3>1, <4>1, <4>2, <4>3
    <3> QED BY <3>2, <3>3
  <2> QED BY <1>7, <2>4, <2>5, <2>6
<1> QED BY <1>1, <1>2, <1>3, <1>8, <1>9, <1>10 DEF Only

LEMMA NotifyStep ==
    ASSUME Sound, workers = 1, NEW u \in Users, Only(u),
           NotifyList(u) \/ \E w \in Watchers : NotifyOne(u, w)
    PROVE  Only(u)'
<1>0. notes[u] # <<>> BY DEF NotifyList, NotifyOne, Telling
<1>1. CASE NotifyList(u)
  <2>1. notes' = Left(u, users \cap Watchers) /\ UNCHANGED <<heard, missed>>
    BY <1>1 DEF NotifyList
  <2> QED BY <1>0, <1>1, <2>1, TellStep DEF NotifyList
<1>2. ASSUME NEW w \in Watchers, NotifyOne(u, w) PROVE Only(u)'
  <2> DEFINE note == notes[u][1]
  <2>1. /\ note.listed /\ notes' = Left(u, note.to \ {w})
        /\ UNCHANGED <<vars, monitor_list, query>>
    BY <1>2 DEF NotifyOne
  <2>2. notes[u] \in Seq(NoteSet) BY DEF Sound, MonitorTypeOK
  <2>3. note \in NoteSet BY <1>0, <2>2, EmptySeq, ElementOfSeq
  <2>4. note.to \ {w} \in SUBSET Watchers /\ note.nick \in Nicks BY <2>3 DEF NoteSet
  <2>5. /\ note.nick \in monitor_list[w] =>
             /\ heard' = [heard EXCEPT ![w][note.nick] = note.state]
             /\ missed' = [missed EXCEPT ![w] = @ \ {note.nick}]
        /\ note.nick \notin monitor_list[w] => UNCHANGED <<heard, missed>>
    BY <1>2 DEF NotifyOne
  <2>6. /\ note.nick \in monitor_list[w] => heard'[w][note.nick] = note.state
        /\ \A v \in Watchers : \A n \in Nicks :
              \/ heard'[v][n] = heard[v][n] /\ (n \notin missed'[v] => n \notin missed[v])
              \/ n = note.nick /\ heard'[v][n] = note.state
    <3>1. CASE note.nick \in monitor_list[w]
      <4>1. /\ heard' = [heard EXCEPT ![w] = [heard[w] EXCEPT ![note.nick] = note.state]]
            /\ missed' = [missed EXCEPT ![w] = @ \ {note.nick}]
        BY <2>5, <3>1
      <4>2. /\ heard \in [Watchers -> [Nicks -> States \cup {"nothing"}]]
            /\ missed \in [Watchers -> SUBSET Nicks]
        BY DEF Sound, MonitorTypeOK
      <4>3. /\ heard'[w] = [heard[w] EXCEPT ![note.nick] = note.state]
            /\ \A v \in Watchers \ {w} : heard'[v] = heard[v] /\ missed'[v] = missed[v]
            /\ missed'[w] = missed[w] \ {note.nick}
        BY <4>1, <4>2
      <4> QED BY <2>4, <4>2, <4>3
    <3>2. CASE note.nick \notin monitor_list[w]
      BY <2>5, <3>2
    <3> QED BY <3>1, <3>2
  <2>7. \A v \in Watchers \cap users : Awaits(v, u) =>
            \/ v \in note.to \ {w}
            \/ note.nick \in monitor_list[v] => heard'[v][note.nick] = note.state
    BY <2>1, <2>6 DEF Awaits
  <2>8. \A v \in Watchers : \A n \in monitor_list[v] \ missed'[v] :
            \/ n \notin missed[v] /\ heard'[v][n] = heard[v][n]
            \/ n = note.nick /\ heard'[v][n] = note.state
    BY <2>6 DEF Sound, MonitorTypeOK
  <2> QED BY <1>0, <2>1, <2>4, <2>7, <2>8, TellStep
<1> QED BY <1>1, <1>2
-----------------------------------------------------------------------------
(***************************************************************************)
(* MONITOR on one worker.                                                  *)
(***************************************************************************)
LEMMA AskStep ==
    ASSUME Sound, workers = 1, NEW w \in Watchers, Only(w), Quiet(w),
           NEW some \in SUBSET Nicks,
           MonitorAdd(w, some) \/ MonitorRemove(w, some) \/ MonitorStatus(w)
    PROVE  Only(w)'
<1>0. w \in Users /\ UNCHANGED <<vars, notes>>
  BY MonitorAssumption DEF MonitorAssumption, MonitorAdd, MonitorRemove, MonitorStatus
<1>a. UNCHANGED <<pc, conn, users, nicks, nick>> BY <1>0 DEF vars
<1>b. MonitorTypeOK /\ query[w] = NoQuery BY DEF Sound, Quiet
<1>c. \A v \in Watchers \cap users : \A n \in monitor_list[v] \ missed[v] :
         heard[v][n] = State(n)
  BY <1>0, QuietKnown DEF Only
<1>1. \A v \in Users \ {w} : Quiet(v)'
  BY <1>0, <1>a, <1>b
     DEF Only, Quiet, MonitorAdd, MonitorRemove, MonitorStatus, MonitorTypeOK
<1>2. TellInOrder(w)' /\ RemoveInOrder(w)' /\ QuitTold(w)'
  BY <1>0, <1>a DEF Quiet, TellInOrder, RemoveInOrder, QuitTold
<1>3. query'[w].online = {} /\ query'[w].offline = {}
  <2>1. query[w].online = {} /\ query[w].offline = {} BY <1>b DEF NoQuery
  <2>2. ASSUME NEW ask PROVE LET asked == [NoQuery EXCEPT !.ask = ask]
                                       locked == [NoQuery EXCEPT !.ask = ask,
                                                                 !.locked = TRUE]
                                   IN  /\ asked.online = {} /\ asked.offline = {}
                                       /\ locked.online = {} /\ locked.offline = {}
    BY DEF NoQuery
  <2>3. \/ query' = query
        \/ query'[w] = [NoQuery EXCEPT !.ask = some, !.locked = TRUE]
        \/ query'[w] = [NoQuery EXCEPT !.ask = monitor_list[w]]
    BY <1>b DEF MonitorAdd, MonitorRemove, MonitorStatus, MonitorTypeOK
  <2> QED BY <2>1, <2>2, <2>3
<1>4. AskInOrder(w)' BY <1>0, <1>a, <1>3 DEF AskInOrder, Quiet
<1>5. KnownBut(w)'
  <2> SUFFICES ASSUME NEW v \in Watchers \cap users, NEW n \in monitor_list'[v] \ missed'[v]
               PROVE  heard'[v][n] = State(n) \/ (w = v /\ AsksFor(v, n)')
    BY <1>a DEF KnownBut, State
  <2>1. CASE MonitorAdd(w, some)
    <3>1. w = v /\ n \in some => AsksFor(v, n)'
      BY <1>b, <2>1 DEF MonitorAdd, AsksFor, NoQuery, MonitorTypeOK
    <3>2. w # v \/ n \notin some => n \in monitor_list[v] \ missed[v]
      BY <1>b, <2>1 DEF MonitorAdd, MonitorTypeOK
    <3> QED BY <1>c, <2>1, <3>1, <3>2 DEF MonitorAdd
  <2>2. CASE MonitorRemove(w, some)
    <3>1. n \in monitor_list[v] \ missed[v] /\ n \in Nicks /\ (w = v => n \notin some)
      BY <1>b, <2>2 DEF MonitorRemove, MonitorTypeOK
    <3>2. heard'[v][n] = heard[v][n]
      BY <1>b, <2>2, <3>1 DEF MonitorRemove, MonitorTypeOK
    <3> QED BY <1>c, <3>1, <3>2
  <2>3. CASE MonitorStatus(w)
    BY <1>c, <2>3 DEF MonitorStatus
  <2> QED BY <2>1, <2>2, <2>3
<1> QED BY <1>1, <1>2, <1>4, <1>5 DEF Only

\* The locks taken one nick after the other make no difference on one worker:
\* what was looked up first still holds when the last nick has been.
LEMMA AnswerStep ==
    ASSUME Sound, workers = 1, NEW w \in Watchers, Only(w), w \in Asking,
           MonitorTell(w) \/ \E n \in Nicks : MonitorLook(w, n)
    PROVE  Only(w)'
<1>0. w \in Users /\ UNCHANGED <<vars, notes, monitor_list>>
  BY MonitorAssumption DEF MonitorAssumption, MonitorTell, MonitorLook
<1>a. UNCHANGED <<pc, conn, users, nicks, nick>> BY <1>0 DEF vars
<1>b. MonitorTypeOK BY DEF Sound
<1>c. /\ pc[w] = "idle" /\ notes[w] = <<>> /\ conn[w] # "closing"
      /\ \A n \in query[w].online : State(n) = "online"
      /\ \A n \in query[w].offline : State(n) = "offline"
  BY DEF Only, AskInOrder, RemoveInOrder, RemovedPCs
<1>d. \A v \in Watchers \cap users : \A n \in monitor_list[v] \ missed[v] :
         heard[v][n] = State(n) \/ (w = v /\ AsksFor(v, n))
  <2>1. ~LastNote(w) /\ ~NickNotes(w) BY <1>c, EmptySeq DEF LastNote, NickNotes
  <2>2. \A n : ~Moving(w, n) BY <1>c DEF Moving, RemovedPCs
  <2> QED BY <2>1, <2>2 DEF Only, KnownBut, Noting
<1>1. \A v \in Users \ {w} : Quiet(v)'
  BY <1>0, <1>a, <1>b DEF Only, Quiet, MonitorTell, MonitorLook, MonitorTypeOK
<1>2. TellInOrder(w)' /\ RemoveInOrder(w)' /\ QuitTold(w)'
  BY <1>0, <1>a, <1>c DEF TellInOrder, RemoveInOrder, QuitTold
<1>3. CASE MonitorTell(w)
  <2>1. AskInOrder(w)' BY <1>b, <1>3 DEF MonitorTell, AskInOrder, Asking, MonitorTypeOK
  <2>2. KnownBut(w)'
    <3> SUFFICES ASSUME NEW v \in Watchers \cap users,
                        NEW n \in monitor_list[v] \ missed'[v]
                 PROVE  heard'[v][n] = State(n)
      BY <1>0, <1>a DEF KnownBut, State
    <3>0. n \in Nicks BY <1>b DEF MonitorTypeOK
    <3>1. CASE v # w
      BY <1>b, <1>d, <1>3, <3>1 DEF MonitorTell, MonitorTypeOK
    <3>2. CASE v = w
      <4>1. query[w].ask = {} BY <1>3 DEF MonitorTell
      <4>2. heard'[w][n] = IF n \in query[w].online THEN "online"
                           ELSE IF n \in query[w].offline THEN "offline" ELSE heard[w][n]
        BY <1>b, <1>3, <3>0 DEF MonitorTell, MonitorTypeOK
      <4>3. n \notin query[w].online \cup query[w].offline => n \notin missed[w]
        BY <1>b, <1>3, <3>2 DEF MonitorTell, MonitorTypeOK
      <4>4. n \notin query[w].online \cup query[w].offline => ~AsksFor(w, n)
        BY <4>1 DEF AsksFor
      <4> QED BY <1>c, <1>d, <3>2, <4>2, <4>3, <4>4
    <3> QED BY <3>1, <3>2
  <2> QED BY <1>1, <1>2, <2>1, <2>2 DEF Only
<1>4. ASSUME NEW m \in Nicks, MonitorLook(w, m) PROVE Only(w)'
  <2>0. query[w] \in QuerySet BY <1>b DEF MonitorTypeOK
  <2>1. /\ query'[w].ask = query[w].ask \ {m}
        /\ query'[w].online = IF State(m) = "online" THEN query[w].online \cup {m}
                              ELSE query[w].online
        /\ query'[w].offline = IF State(m) = "online" THEN query[w].offline
                               ELSE query[w].offline \cup {m}
        /\ UNCHANGED <<heard, missed>>
    BY <1>b, <1>4, <2>0 DEF MonitorLook, MonitorTypeOK, QuerySet, State
  <2>2. State(m) \in States /\ \A n : State(n)' = State(n) BY <1>a DEF State, States
  <2>3. AskInOrder(w)'
    BY <1>0, <1>a, <1>c, <2>1, <2>2 DEF AskInOrder, States
  <2>4. \A n : AsksFor(w, n) => AsksFor(w, n)' BY <1>4, <2>1 DEF AsksFor
  <2>5. KnownBut(w)' BY <1>0, <1>a, <1>d, <2>1, <2>2, <2>4 DEF KnownBut
  <2> QED BY <1>1, <1>2, <2>3, <2>5 DEF Only
<1> QED BY <1>3, <1>4

LEMMA MonitorInvStep == MonitorInv /\ [MonitorNext]_allvars => MonitorInv'
<1> SUFFICES ASSUME MonitorInv, [MonitorNext]_allvars PROVE MonitorInv' OBVIOUS
<1>1. [Next]_vars BY RegistrySteps
<1>2. Sound'
  <2>1. IInv'
    BY <1>1, NickTypingStep, HeldSlotsStep, OneWorkerStep DEF MonitorInv, Sound, IInv
  <2> QED
    BY <2>1, MonitorTypingStep, NewWatchNothingStep DEF MonitorInv, Sound, IInv
<1>3. workers' = workers
  BY <1>1 DEF Next, Connect, ClaimLook, ClaimRefused, KillLook, Claim, ClaimPrior,
         ClaimCheck, ClaimEvict, ClaimInsert, SetNick, Disconnect, Remove,
         KillLookup, RemoveTake, RemoveSnap, RemoveCheck, RemoveEvict, vars
<1>4. ASSUME workers = 1, Users # {} PROVE \E u \in Users : Only(u)'
  <2> USE <1>4
  <2>a. Sound /\ Watchers \subseteq Users
    BY MonitorAssumption DEF MonitorAssumption, MonitorInv
  <2>1. ASSUME NEW u \in Users, RegistryStep(u) PROVE Only(u)'
    <3>1. CASE Enter(u) \/ Start(u) \/ Finalize(u) \/ Quit(u)
      <4>1. Free(u) BY <3>1 DEF Enter, Start, Finalize, Quit
      <4> QED BY <2>a, <3>1, <4>1, Actor, BeginStep
    <3>2. CASE Go(u) \/ Evict(u) \/ Renamed(u) \/ Named(u)
      <4>1. pc[u] # "idle"
        BY <3>2 DEF Go, Evict, Renamed, Named, ClaimPrior, ClaimCheck, ClaimEvict,
             ClaimInsert, SetNick, KillLookup, RemoveTake, RemoveCheck, RemoveSnap,
             RemoveEvict, At
      <4>2. Only(u) BY <4>1, Actor DEF Quiet
      <4> QED BY <2>a, <3>2, <4>2, GoStep, EvictStep, NamedStep
    <3> QED BY <2>1, <3>1, <3>2 DEF RegistryStep
  <2>2. ASSUME NEW u \in Users, NotifyList(u) \/ \E w \in Watchers : NotifyOne(u, w)
        PROVE  Only(u)'
    <3>1. notes[u] # <<>> BY <2>2 DEF NotifyList, NotifyOne, Telling
    <3>2. Only(u) BY <3>1, Actor DEF Quiet
    <3> QED BY <2>a, <2>2, <3>2, NotifyStep
  <2>3. ASSUME NEW w \in Watchers, MonitorStep(w) PROVE Only(w)'
    <3>0. w \in Users BY <2>a
    <3>1. ASSUME NEW some \in SUBSET Nicks,
                 MonitorAdd(w, some) \/ MonitorRemove(w, some) \/ MonitorStatus(w)
          PROVE  Only(w)'
      <4>1. Free(w) BY <3>1 DEF MonitorAdd, MonitorRemove, MonitorStatus, MayMonitor
      <4> QED BY <2>a, <3>0, <3>1, <4>1, Actor, AskStep
    <3>2. ASSUME MonitorTell(w) \/ \E n \in Nicks : MonitorLook(w, n)
          PROVE  Only(w)'
      <4>1. w \in Asking
        <5>1. NoQuery.ask = {} BY DEF NoQuery
        <5>2. w \in Asking \/ query[w].ask # {} BY <3>2 DEF MonitorTell, MonitorLook
        <5> QED BY <5>1, <5>2 DEF Asking
      <4>2. Only(w) BY <3>0, <4>1, Actor DEF Quiet, Asking
      <4> QED BY <2>a, <3>2, <4>1, <4>2, AnswerStep
    <3>3. {} \in SUBSET Nicks OBVIOUS
    <3> QED BY <2>3, <3>1, <3>2, <3>3 DEF MonitorStep
  <2>4. CASE UNCHANGED allvars
    <3>1. PICK u \in Users : Only(u) BY DEF MonitorInv
    <3>2. Only(u)'
      BY <2>4, <3>1
         DEF allvars, mvars, vars, locals, Only, Quiet, AskInOrder, Asking, State,
             TellInOrder, QuitNote, LastNote, NickNotes, RemoveInOrder, QuitTold, Awaits,
             KnownBut, Moving, Noting, AsksFor
    <3> QED BY <3>2
  <2> QED BY <2>a, <2>1, <2>2, <2>3, <2>4 DEF MonitorNext
<1> QED BY <1>2, <1>3, <1>4 DEF MonitorInv

\* On one worker, whoever watches a nick knows its state between handlers, for
\* any users, watchers and nicks, but for a KILL and a user not registered.
THEOREM WatchersKnow == MonitorSpec => []PresenceIsTrue
<1>1. MonitorInit => MonitorInv
  <2>1. MonitorInit => TypeOK /\ OnlyHeldSlots /\ UndisturbedOnOneWorker
    BY NickTypingInit, NickAssumption
       DEF MonitorInit, NickAssumption, Init, OnlyHeldSlots, UndisturbedOnOneWorker,
           OneAtATime, Busy, SlotsInOrder, Accounted, RemovedPCs, HandlerInOrder, Held, ClaimPCs
  <2>2. MonitorInit => MonitorTypeOK /\ Registered
    BY MonitorTypingInit
  <2>3. MonitorInit => NewWatchNothing BY DEF MonitorInit, NewWatchNothing
  <2>4. MonitorInit => \A u \in Users : Only(u)
    BY MonitorAssumption
       DEF MonitorAssumption, MonitorInit, Init, Only, Quiet, AskInOrder, Asking, TellInOrder,
           RemoveInOrder, QuitTold, KnownBut
  <2> QED BY <2>1, <2>2, <2>3, <2>4 DEF MonitorInv, Sound, IInv
<1>2. MonitorInv => PresenceIsTrue
  <2> SUFFICES ASSUME MonitorInv, workers = 1, Occupied = {}, NEW w \in Watchers \cap users,
                      NEW n \in monitor_list[w] \ missed[w]
               PROVE  heard[w][n] = State(n)
    BY DEF PresenceIsTrue
  <2>1. w \in Users BY MonitorAssumption DEF MonitorAssumption
  <2>2. PICK u \in Users : Only(u) BY <2>1 DEF MonitorInv
  <2>3. pc[u] = "idle" /\ notes[u] = <<>> /\ (u \in Watchers => query[u] = NoQuery)
    BY DEF Occupied, Busy, Telling, Asking
  <2>4. Quiet(u) BY <2>2, <2>3 DEF Quiet, Only, RemoveInOrder, RemovedPCs
  <2> QED BY <2>2, <2>4, QuietKnown DEF MonitorInv, Only
<1> QED BY <1>1, <1>2, MonitorInvStep, PTL DEF MonitorSpec
=============================================================================
