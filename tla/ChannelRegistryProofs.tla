------------------------ MODULE ChannelRegistryProofs ------------------------
(***************************************************************************)
(* For any users, channels and operators: typing of ChannelRegistry, that  *)
(* only killed users linger in the channels people can find, and that the  *)
(* registry implements Rooms, on any number of workers; and on one worker  *)
(* that clients and server agree, that channel operators are earned, that  *)
(* messages reach those they are for and that only empty channels are      *)
(* removed.  ClientView takes no other steps; of its queues, that they     *)
(* keep their bound and that what is on its way makes each client's lists  *)
(* true.                                                                   *)
(***************************************************************************)
EXTENDS ClientView, FiniteSetTheorems, WellFoundedInduction, TLAPS

(***************************************************************************)
(* Jobs: which locals each position of a handler has, and that each record *)
(* a handler makes is one.                                                 *)
(***************************************************************************)
LEMMA JobLocals ==
    ASSUME NEW j \in Jobs
    PROVE  /\ j.at \in LockPCs => j.obj \in Objs
           /\ j.at \in {"join_lock", "part_lock", "msg_lock", "join_tell",
                        "part_tell", "drop_remove"} => j.chan \in Chans
           /\ j.at \in {"purge", "drop_look", "drop_remove"} => j.todo \in SUBSET Chans
           /\ j.at = "purge" => j.emptied \in SUBSET Chans
           /\ j.at \in {"purge", "remove"} => j.victim \in Users
           /\ j.at \in {"drop_look", "drop_remove"} =>
                j.victim \in Users \cup {Nobody}
BY DEF Jobs, Idle, LockPCs

LEMMA LockJobs ==
    ASSUME NEW c \in Chans, NEW o \in Objs
    PROVE  /\ [at |-> "join_lock", chan |-> c, obj |-> o] \in Jobs
           /\ [at |-> "part_lock", chan |-> c, obj |-> o] \in Jobs
           /\ [at |-> "msg_lock", chan |-> c, obj |-> o] \in Jobs
           /\ [at |-> "mode_lock", obj |-> o] \in Jobs
BY DEF Jobs

LEMMA IdleJob == Idle \in Jobs
BY DEF Jobs

LEMMA TellJobs ==
    ASSUME NEW c \in Chans, NEW r \in SUBSET Users
    PROVE  /\ [at |-> "join_tell", chan |-> c] \in Jobs
           /\ [at |-> "part_tell", chan |-> c] \in Jobs
           /\ [at |-> "msg_tell", chan |-> c, rcpt |-> r] \in Jobs
BY DEF Jobs

LEMMA RemovalJobs ==
    ASSUME NEW t \in SUBSET Chans, NEW e \in SUBSET Chans, NEW c \in Chans,
           NEW v \in Users \cup {Nobody}
    PROVE  /\ v \in Users => PurgeJob(t, e, v) \in Jobs
           /\ AfterDrops(t, v) \in Jobs
           /\ [at |-> "drop_remove", chan |-> c, todo |-> t, victim |-> v] \in Jobs
<1>1. v \in Users => PurgeJob(t, e, v) \in Jobs
  BY DEF Jobs, PurgeJob
<1>2. [at |-> "drop_remove", chan |-> c, todo |-> t, victim |-> v] \in Jobs
  BY DEF Jobs
<1>3. [at |-> "drop_look", todo |-> t, victim |-> v] \in Jobs
  BY DEF Jobs
<1>4. v \in Users => [at |-> "remove", victim |-> v] \in Jobs
  BY DEF Jobs
<1>5. AfterDrops(t, v) \in Jobs
  BY <1>3, <1>4, IdleJob DEF AfterDrops
<1> QED BY <1>1, <1>2, <1>5

(***************************************************************************)
(* Typing.                                                                 *)
(***************************************************************************)
LEMMA UpdateTyped ==
    ASSUME NEW mems \in [Objs -> SUBSET Users], NEW opers \in [Objs -> SUBSET Users],
           \A o \in Objs : opers[o] \subseteq mems[o],
           Update(mems, opers)
    PROVE  /\ members' \in [Objs -> SUBSET Users]
           /\ ops' \in [Objs -> SUBSET Users]
           /\ \A o \in Objs : ops'[o] \subseteq members'[o]
<1>1. members' = [o \in Objs |-> IF o \in Held' THEN mems[o] ELSE {}]
  BY DEF Update
<1>2. ops' = [o \in Objs |-> IF o \in Held' THEN opers[o] ELSE {}]
  BY DEF Update
<1>3. \A o \in Objs : mems[o] \in SUBSET Users /\ opers[o] \in SUBSET Users
  OBVIOUS
<1> QED BY <1>1, <1>2, <1>3

LEMMA DoTyped ==
    ASSUME TypeOK, NEW u \in Users, NEW j \in Jobs, Do(u, j)
    PROVE  /\ job' \in [Users -> Jobs]
           /\ job'[u] = j
           /\ \A a \in Users \ {u} : job'[a] = job[a]
BY DEF TypeOK, Do

\* Init types every variable (the empty ServerState, state/mod.rs).
LEMMA InitTypeOK == Init => TypeOK
BY IdleJob DEF Init, TypeOK

\* The handlers that take no lock on an object, or whose locked section
\* changes no member list.
LEMMA LookTyped ==
    ASSUME TypeOK, NEW u \in Users, NEW c \in Chans,
           JoinLook(u, c) \/ PartLook(u, c) \/ ModeLook(u, c) \/ SpeakLook(u, c)
    PROVE  TypeOK'
<1>1. CASE JoinLook(u, c) /\ channels[c] # Absent
  <2>1. channels[c] \in Objs
    BY <1>1 DEF TypeOK
  <2>2. Do(u, [at |-> "join_lock", chan |-> c, obj |-> channels[c]]) /\ channels' = channels
    BY <1>1 DEF JoinLook
  <2>3. job' \in [Users -> Jobs]
    BY <2>1, <2>2, LockJobs, DoTyped
  <2> QED BY <1>1, <2>2, <2>3 DEF TypeOK, JoinLook
<1>2. CASE JoinLook(u, c) /\ channels[c] = Absent
  <2>1. PICK o \in Objs \ Held :
          /\ channels' = [channels EXCEPT ![c] = o]
          /\ Do(u, [at |-> "join_lock", chan |-> c, obj |-> o])
    BY <1>2 DEF JoinLook
  <2>2. job' \in [Users -> Jobs]
    BY <2>1, LockJobs, DoTyped
  <2> QED BY <1>2, <2>1, <2>2 DEF TypeOK, JoinLook
<1>3. CASE PartLook(u, c) \/ ModeLook(u, c) \/ SpeakLook(u, c)
  <2>1. channels[c] \in Objs
    BY <1>3 DEF TypeOK, PartLook, ModeLook, SpeakLook
  <2>2. job' \in [Users -> Jobs]
    BY <1>3, <2>1, LockJobs, DoTyped DEF PartLook, ModeLook, SpeakLook
  <2> QED BY <1>3, <2>2 DEF TypeOK, PartLook, ModeLook, SpeakLook
<1> QED BY <1>1, <1>2, <1>3

LEMMA LockTyped ==
    ASSUME TypeOK, NEW u \in Users,
           JoinLock(u) \/ PartLock(u) \/ ModeLock(u) \/ SpeakLock(u)
    PROVE  TypeOK'
<1> DEFINE o == job[u].obj
<1>1. job[u] \in Jobs /\ job[u].at \in LockPCs
  BY DEF TypeOK, At, LockPCs, JoinLock, PartLock, ModeLock, SpeakLock
<1>2. o \in Objs
  BY <1>1, JobLocals
<1>3. At(u, "join_lock") \/ At(u, "part_lock") \/ At(u, "msg_lock") => job[u].chan \in Chans
  BY <1>1, JobLocals DEF At
<1>4. job' \in [Users -> Jobs]
  <2>1. members[o] \in SUBSET Users
    BY <1>2 DEF TypeOK
  <2>2. CASE Do(u, Idle)
    BY <2>2, IdleJob, DoTyped
  <2>3. CASE JoinLock(u) /\ ~Do(u, Idle)
    <3>1. Do(u, [at |-> "join_tell", chan |-> job[u].chan]) /\ At(u, "join_lock")
      BY <2>3 DEF JoinLock
    <3> QED BY <1>3, <3>1, TellJobs, DoTyped
  <2>4. CASE PartLock(u) /\ ~Do(u, Idle)
    <3>1. Do(u, [at |-> "part_tell", chan |-> job[u].chan]) /\ At(u, "part_lock")
      BY <2>4 DEF PartLock
    <3> QED BY <1>3, <3>1, TellJobs, DoTyped
  <2>5. CASE SpeakLock(u) /\ ~Do(u, Idle)
    <3>1. /\ Do(u, [at |-> "msg_tell", chan |-> job[u].chan, rcpt |-> members[o] \ {u}])
          /\ At(u, "msg_lock")
      BY <2>5 DEF SpeakLock
    <3> QED BY <1>3, <2>1, <3>1, TellJobs, DoTyped
  <2>6. CASE ModeLock(u)
    BY <2>2, <2>6 DEF ModeLock
  <2> QED BY <2>2, <2>3, <2>4, <2>5, <2>6
<1>5. PICK mems, opers :
        /\ mems \in [Objs -> SUBSET Users]
        /\ opers \in [Objs -> SUBSET Users]
        /\ \A x \in Objs : opers[x] \subseteq mems[x]
        /\ Update(mems, opers)
  <2>1. CASE Update(members, ops)
    BY <2>1 DEF TypeOK
  <2>2. CASE JoinLock(u) /\ ~Update(members, ops)
    <3> DEFINE m == [members EXCEPT ![o] = @ \cup {u}]
               p == [ops EXCEPT ![o] = IF members[o] = {} THEN {u} ELSE @]
    <3>1. Update(m, p)
      BY <2>2 DEF JoinLock
    <3>2. /\ m \in [Objs -> SUBSET Users]
          /\ p \in [Objs -> SUBSET Users]
          /\ \A x \in Objs : p[x] \subseteq m[x]
      BY <1>2 DEF TypeOK
    <3> QED BY <3>1, <3>2
  <2>3. CASE PartLock(u) /\ ~Update(members, ops)
    <3> DEFINE m == [members EXCEPT ![o] = @ \ {u}]
               p == [ops EXCEPT ![o] = @ \ {u}]
    <3>1. Update(m, p)
      BY <2>3 DEF PartLock
    <3>2. /\ m \in [Objs -> SUBSET Users]
          /\ p \in [Objs -> SUBSET Users]
          /\ \A x \in Objs : p[x] \subseteq m[x]
      BY <1>2 DEF TypeOK
    <3> QED BY <3>1, <3>2
  <2>4. CASE ModeLock(u) /\ ~Update(members, ops)
    <3>1. PICK v \in Users :
            /\ v \in members[o]
            /\ \/ Update(members, [ops EXCEPT ![o] = @ \cup {v}])
               \/ Update(members, [ops EXCEPT ![o] = @ \ {v}])
      BY <2>4 DEF ModeLock
    <3> DEFINE p == [ops EXCEPT ![o] = @ \cup {v}]
               q == [ops EXCEPT ![o] = @ \ {v}]
    <3>2. /\ p \in [Objs -> SUBSET Users]
          /\ q \in [Objs -> SUBSET Users]
          /\ \A x \in Objs : p[x] \subseteq members[x] /\ q[x] \subseteq members[x]
      BY <1>2, <3>1 DEF TypeOK
    <3> QED BY <3>1, <3>2 DEF TypeOK
  <2>5. CASE SpeakLock(u)
    BY <2>5, <2>1 DEF SpeakLock
  <2> QED BY <2>1, <2>2, <2>3, <2>4, <2>5
<1>6. /\ members' \in [Objs -> SUBSET Users]
      /\ ops' \in [Objs -> SUBSET Users]
      /\ \A x \in Objs : ops'[x] \subseteq members'[x]
  BY <1>5, UpdateTyped
<1>7. UNCHANGED <<workers, users, conn, channels, told, killed>>
  BY DEF JoinLock, PartLock, ModeLock, SpeakLock
<1> QED BY <1>4, <1>6, <1>7 DEF TypeOK

LEMMA TellTyped ==
    ASSUME TypeOK, NEW u \in Users,
           JoinTell(u) \/ PartTell(u) \/ SpeakTell(u)
    PROVE  TypeOK'
<1>1. job[u] \in Jobs
  BY DEF TypeOK
<1>2. CASE JoinTell(u)
  <2>1. job[u].chan \in Chans
    BY <1>1, <1>2, JobLocals DEF JoinTell, At
  <2>2. job' \in [Users -> Jobs]
    BY <1>2, IdleJob, DoTyped DEF JoinTell
  <2>3. told' \in [Users -> SUBSET Chans]
    BY <1>2, <2>1 DEF TypeOK, JoinTell
  <2> QED BY <1>2, <2>2, <2>3 DEF TypeOK, JoinTell
<1>3. CASE PartTell(u)
  <2>1. job[u].chan \in Chans
    BY <1>1, <1>3, JobLocals DEF PartTell, At
  <2>2. AfterDrops({job[u].chan}, Nobody) \in Jobs
    BY <2>1, RemovalJobs
  <2>3. job' \in [Users -> Jobs]
    BY <1>3, <2>2, DoTyped DEF PartTell
  <2>4. told' \in [Users -> SUBSET Chans]
    BY <1>3, <2>1 DEF TypeOK, PartTell
  <2> QED BY <1>3, <2>3, <2>4 DEF TypeOK, PartTell
<1>4. CASE SpeakTell(u)
  <2>1. job' \in [Users -> Jobs]
    BY <1>4, IdleJob, DoTyped DEF SpeakTell
  <2> QED BY <1>4, <2>1 DEF TypeOK, SpeakTell
<1> QED BY <1>2, <1>3, <1>4

LEMMA DropTyped ==
    ASSUME TypeOK, NEW u \in Users, DropLook(u) \/ DropRemove(u)
    PROVE  TypeOK'
<1>1. job[u] \in Jobs
  BY DEF TypeOK
<1>2. job[u].todo \in SUBSET Chans /\ job[u].victim \in Users \cup {Nobody}
  BY <1>1, JobLocals DEF DropLook, DropRemove, At
<1>3. CASE DropLook(u)
  <2>1. PICK c \in job[u].todo :
          Do(u, IF channels[c] # Absent /\ Mapped(c) = {}
                THEN [at |-> "drop_remove", chan |-> c, todo |-> job[u].todo \ {c},
                      victim |-> job[u].victim]
                ELSE AfterDrops(job[u].todo \ {c}, job[u].victim))
    BY <1>3 DEF DropLook
  <2>2. c \in Chans /\ job[u].todo \ {c} \in SUBSET Chans
    BY <1>2
  <2>3. /\ [at |-> "drop_remove", chan |-> c, todo |-> job[u].todo \ {c},
            victim |-> job[u].victim] \in Jobs
        /\ AfterDrops(job[u].todo \ {c}, job[u].victim) \in Jobs
    BY <1>2, <2>2, RemovalJobs
  <2>4. job' \in [Users -> Jobs]
    BY <2>1, <2>3, DoTyped
  <2> QED BY <1>3, <2>4 DEF TypeOK, DropLook
<1>4. CASE DropRemove(u)
  <2>1. job[u].chan \in Chans
    BY <1>1, <1>4, JobLocals DEF DropRemove, At
  <2>2. AfterDrops(job[u].todo, job[u].victim) \in Jobs
    BY <1>2, RemovalJobs, <2>1
  <2>3. job' \in [Users -> Jobs]
    BY <1>4, <2>2, DoTyped DEF DropRemove
  <2>4. channels' \in [Chans -> Objs \cup {Absent}]
    BY <1>4, <2>1 DEF TypeOK, DropRemove
  <2>5. /\ members \in [Objs -> SUBSET Users]
        /\ ops \in [Objs -> SUBSET Users]
        /\ \A o \in Objs : ops[o] \subseteq members[o]
        /\ Update(members, ops)
    BY <1>4 DEF TypeOK, DropRemove
  <2>6. /\ members' \in [Objs -> SUBSET Users]
        /\ ops' \in [Objs -> SUBSET Users]
        /\ \A o \in Objs : ops'[o] \subseteq members'[o]
    BY <2>5, UpdateTyped
  <2> QED BY <1>4, <2>3, <2>4, <2>6 DEF TypeOK, DropRemove
<1> QED BY <1>3, <1>4

LEMMA EndTyped ==
    ASSUME TypeOK, NEW u \in Users, Disconnect(u) \/ RemoveUser(u)
    PROVE  TypeOK'
<1>1. CASE Disconnect(u)
  <2>1. PurgeJob(Chans, {}, u) \in Jobs
    BY RemovalJobs DEF PurgeJob, Jobs
  <2>2. job' \in [Users -> Jobs]
    BY <1>1, <2>1, DoTyped DEF Disconnect, TypeOK
  <2>3. conn' \in [Users -> {"new", "open", "closing", "gone"}]
    BY <1>1 DEF Disconnect, TypeOK
  <2> QED BY <1>1, <2>2, <2>3 DEF TypeOK, Disconnect
<1>2. CASE RemoveUser(u)
  <2>1. job' \in [Users -> Jobs]
    BY <1>2, IdleJob, DoTyped DEF RemoveUser
  <2>2. conn' \in [Users -> {"new", "open", "closing", "gone"}]
    BY <1>2 DEF RemoveUser, TypeOK
  <2> QED BY <1>2, <2>1, <2>2 DEF TypeOK, RemoveUser
<1> QED BY <1>1, <1>2

LEMMA PurgeTyped ==
    ASSUME TypeOK, NEW u \in Users, Purge(u)
    PROVE  TypeOK'
<1> DEFINE v == job[u].victim
           here(c) == v \in Mapped(c)
           emptied(c) == job[u].emptied \cup
                         (IF here(c) /\ members[channels[c]] = {v} THEN {c} ELSE {})
<1>1. /\ job[u].todo \in SUBSET Chans
      /\ job[u].emptied \in SUBSET Chans
      /\ v \in Users
  BY JobLocals DEF TypeOK, Purge, At
<1>2. PICK c \in job[u].todo :
        /\ IF here(c)
           THEN /\ members' = [members EXCEPT ![channels[c]] = @ \ {v}]
                /\ ops' = [ops EXCEPT ![channels[c]] = @ \ {v}]
           ELSE UNCHANGED <<members, ops>>
        /\ Do(u, IF job[u].todo \ {c} = {} THEN AfterDrops(emptied(c), v)
                 ELSE PurgeJob(job[u].todo \ {c}, emptied(c), v))
  BY DEF Purge
<1>3. c \in Chans /\ job[u].todo \ {c} \in SUBSET Chans /\ emptied(c) \in SUBSET Chans
  BY <1>1
<1>4. /\ AfterDrops(emptied(c), v) \in Jobs
      /\ PurgeJob(job[u].todo \ {c}, emptied(c), v) \in Jobs
  <2> HIDE DEF emptied
  <2> QED BY <1>1, <1>3, RemovalJobs
<1>5. job' \in [Users -> Jobs]
  <2> HIDE DEF emptied
  <2> QED BY <1>2, <1>4, DoTyped
<1>6. here(c) => channels[c] \in Objs
  BY <1>3 DEF TypeOK, Mapped
<1>7. /\ members' \in [Objs -> SUBSET Users]
      /\ ops' \in [Objs -> SUBSET Users]
      /\ \A o \in Objs : ops'[o] \subseteq members'[o]
  BY <1>2, <1>6 DEF TypeOK
<1> QED BY <1>5, <1>7 DEF TypeOK, Purge

\* Every step of every handler keeps the state typed, and operators members
\* of their channel (join_one, handle_part, apply_channel_modes,
\* purge_user_from_channels).
LEMMA NextTyped ==
    ASSUME TypeOK, [Next]_vars
    PROVE  TypeOK'
<1>1. CASE UNCHANGED vars
  BY <1>1 DEF vars, TypeOK
<1>2. ASSUME NEW u \in Users, Connect(u) PROVE TypeOK'
  BY <1>2 DEF Connect, TypeOK
<1>3. ASSUME NEW u \in Users, NEW v \in Users, Kill(u, v) PROVE TypeOK'
  <2>1. PurgeJob(Chans, {}, v) \in Jobs
    BY RemovalJobs DEF PurgeJob, Jobs
  <2>2. job' \in [Users -> Jobs]
    BY <1>3, <2>1, DoTyped DEF Kill
  <2> QED BY <1>3, <2>2 DEF Kill, TypeOK
<1> QED
  BY <1>1, <1>2, <1>3, LookTyped, LockTyped, TellTyped, DropTyped, EndTyped, PurgeTyped
  DEF Next

(***************************************************************************)
(* Ghosts.  What most steps have in common: they let only users with an    *)
(* open connection into channels, and start no removal but of a user whose *)
(* connection is closing and that has left what was walked.                *)
(***************************************************************************)
LEMMA StepKeeps ==
    ASSUME IInv, TypeOK', FreedAreEmpty',
           NEW u \in Users, NEW j \in Jobs, Do(u, j),
           UNCHANGED <<users, conn>>, killed \subseteq killed',
           \A c \in Chans : Mapped(c)' \subseteq Mapped(c) \cup {w \in Users : conn[w] = "open"},
           j.at \in LockPCs => conn[u] = "open",
           \A v \in Users \ killed' :
               j.at \in RemovalPCs /\ j.victim = v =>
                   /\ v = u
                   /\ conn[u] = "closing"
                   /\ \A c \in Chans :
                        c \in (IF j.at = "purge" THEN j.todo ELSE {}) \/ u \notin Mapped(c)'
    PROVE  IInv'
<1>1. job'[u] = j /\ \A a \in Users \ {u} : job'[a] = job[a]
  BY DoTyped DEF IInv
<1>2. GhostsWereKilled'
  BY DEF IInv, GhostsWereKilled, OpenAreKnown
<1>3. LockersAreOpen'
  BY <1>1 DEF IInv, LockersAreOpen
<1>4. OpenAreKnown'
  BY DEF IInv, OpenAreKnown
<1>5. ClosingAreLeaving'
  <2> SUFFICES ASSUME NEW a \in Users, NEW v \in Victims(a)' \ killed'
               PROVE  /\ v = a
                      /\ conn'[a] = "closing"
                      /\ \A c \in Chans \ ToVisit(a)' : a \notin Mapped(c)'
    BY DEF ClosingAreLeaving
  <2>1. v \in Users \ killed' /\ job'[a].at \in RemovalPCs /\ job'[a].victim = v
    BY DEF Victims
  <2>2. CASE a = u
    BY <1>1, <2>1, <2>2 DEF ToVisit, At
  <2>3. CASE a # u
    <3>1. v \in Victims(a) \ killed /\ ToVisit(a)' = ToVisit(a)
      BY <1>1, <2>1, <2>3 DEF Victims, ToVisit, At
    <3>2. /\ v = a
          /\ conn[a] = "closing"
          /\ \A c \in Chans \ ToVisit(a) : a \notin Mapped(c)
      BY <3>1 DEF IInv, ClosingAreLeaving
    <3> QED BY <3>1, <3>2
  <2> QED BY <2>2, <2>3
<1> QED BY <1>2, <1>3, <1>4, <1>5 DEF IInv

\* A step outside the locked sections that only takes members away frees no
\* object that has members.
LEMMA QuietStep ==
    ASSUME IInv, TypeOK', NEW u \in Users, NEW j \in Jobs, Do(u, j),
           job[u].at \notin LockPCs,
           channels' = channels,
           \A o \in Objs : members'[o] \subseteq members[o]
    PROVE  /\ FreedAreEmpty'
           /\ \A c \in Chans : Mapped(c)' \subseteq Mapped(c)
<1>1. \A a \in Users \ {u} : job'[a] = job[a]
  BY DoTyped DEF IInv
<1>2. Held \subseteq Held'
  BY <1>1 DEF Held
<1>3. FreedAreEmpty'
  BY <1>2 DEF IInv, FreedAreEmpty
<1>4. \A c \in Chans : Mapped(c)' \subseteq Mapped(c)
  BY DEF IInv, TypeOK, Mapped
<1> QED BY <1>3, <1>4

\* A locked section: Update frees what nothing refers to any more.
LEMMA UpdateKeeps ==
    ASSUME TypeOK, TypeOK', NEW S, NEW mems, NEW opers, Update(mems, opers),
           \A c \in Chans : channels'[c] \in {channels[c], Absent},
           \A o \in Objs : mems[o] \subseteq members[o] \cup S
    PROVE  /\ FreedAreEmpty'
           /\ \A c \in Chans : Mapped(c)' \subseteq Mapped(c) \cup S
<1>1. members' = [o \in Objs |-> IF o \in Held' THEN mems[o] ELSE {}]
  BY DEF Update
<1>2. FreedAreEmpty'
  BY <1>1 DEF FreedAreEmpty
<1>3. \A o \in Objs : members'[o] \subseteq members[o] \cup S
  BY <1>1
<1>4. ASSUME NEW c \in Chans PROVE Mapped(c)' \subseteq Mapped(c) \cup S
  <2>1. CASE channels'[c] = Absent
    BY <2>1 DEF Mapped
  <2>2. CASE channels'[c] # Absent
    <3>1. channels'[c] = channels[c] /\ channels[c] \in Objs
      BY <2>2 DEF TypeOK
    <3> QED BY <1>3, <2>2, <3>1 DEF Mapped
  <2> QED BY <2>1, <2>2
<1> QED BY <1>2, <1>4

\* Beginning a handler: a fresh Channel object has no members.
LEMMA LookKeeps ==
    ASSUME IInv, TypeOK', NEW u \in Users, NEW c \in Chans,
           JoinLook(u, c) \/ PartLook(u, c) \/ ModeLook(u, c) \/ SpeakLook(u, c)
    PROVE  IInv'
<1>1. conn[u] = "open" /\ job[u] = Idle
  BY DEF Begin, JoinLook, PartLook, ModeLook, SpeakLook
<1>2. job[u].at \notin LockPCs
  BY <1>1 DEF Idle, LockPCs
<1>3. UNCHANGED <<users, conn, killed, members>>
  BY DEF JoinLook, PartLook, ModeLook, SpeakLook
<1>4. PICK o \in Objs, p \in {"join_lock", "part_lock", "msg_lock", "mode_lock"} :
        /\ \/ channels' = channels
           \/ o \notin Held /\ channels[c] = Absent /\ channels' = [channels EXCEPT ![c] = o]
        /\ \/ p # "mode_lock" /\ Do(u, [at |-> p, chan |-> c, obj |-> o])
           \/ p = "mode_lock" /\ Do(u, [at |-> p, obj |-> o])
  <2>1. CASE JoinLook(u, c) /\ channels[c] = Absent
    BY <2>1 DEF JoinLook
  <2>2. CASE ~(JoinLook(u, c) /\ channels[c] = Absent)
    <3>1. channels[c] \in Objs /\ channels' = channels
      BY <2>2 DEF JoinLook, PartLook, ModeLook, SpeakLook, IInv, TypeOK
    <3> QED BY <2>2, <3>1 DEF JoinLook, PartLook, ModeLook, SpeakLook
  <2> QED BY <2>1, <2>2
<1>5. PICK j \in Jobs : Do(u, j) /\ j.at \in LockPCs
  BY <1>4, LockJobs DEF LockPCs
<1>6. j.at \notin RemovalPCs
  BY <1>5 DEF LockPCs, RemovalPCs
<1>7. FreedAreEmpty' /\ \A d \in Chans : Mapped(d)' \subseteq Mapped(d)
  <2>1. CASE channels' = channels
    BY <1>2, <1>3, <1>5, <2>1, QuietStep
  <2>2. CASE channels' # channels
    <3>1. /\ o \notin Held
          /\ channels[c] = Absent
          /\ channels' = [channels EXCEPT ![c] = o]
      BY <1>4, <2>2
    <3>2. members[o] = {}
      BY <3>1 DEF IInv, FreedAreEmpty
    <3>3. \A a \in Users \ {u} : job'[a] = job[a]
      BY <1>5, DoTyped DEF IInv
    <3>4. \A d \in Chans : channels[d] \in Objs => channels'[d] = channels[d]
      BY <3>1, ChannelAssumption DEF IInv, TypeOK
    <3>5. Held \subseteq Held'
      BY <1>2, <3>3, <3>4 DEF Held
    <3>6. FreedAreEmpty'
      BY <1>3, <3>5 DEF IInv, FreedAreEmpty
    <3>7. \A d \in Chans : Mapped(d)' \subseteq Mapped(d)
      BY <1>3, <3>1, <3>2 DEF Mapped, IInv, TypeOK
    <3> QED BY <3>6, <3>7
  <2> QED BY <2>1, <2>2
<1> QED BY <1>1, <1>3, <1>5, <1>6, <1>7, StepKeeps

\* The locked section of JOIN lets in the joiner, whose connection is open.
LEMMA LockKeeps ==
    ASSUME IInv, TypeOK', NEW u \in Users,
           JoinLock(u) \/ PartLock(u) \/ ModeLock(u) \/ SpeakLock(u)
    PROVE  IInv'
<1> DEFINE o == job[u].obj
           S == {w \in Users : conn[w] = "open"}
<1>1. u \in S
  BY DEF IInv, LockersAreOpen, LockPCs, At, JoinLock, PartLock, ModeLock, SpeakLock
<1>2. UNCHANGED <<users, conn, killed, channels>>
  BY DEF JoinLock, PartLock, ModeLock, SpeakLock
<1>3. PICK j : Do(u, j) /\ j.at \in {"idle", "join_tell", "part_tell", "msg_tell"}
  BY DEF JoinLock, PartLock, ModeLock, SpeakLock, Idle
<1>4. j \in Jobs
  BY <1>3 DEF Do, IInv, TypeOK
<1>5. PICK mems, opers :
        /\ Update(mems, opers)
        /\ \A x \in Objs : mems[x] \subseteq members[x] \cup S
  <2>1. CASE \E opers : Update(members, opers)
    BY <2>1
  <2>2. CASE ~\E opers : Update(members, opers)
    <3> DEFINE m == [members EXCEPT ![o] = @ \cup {u}]
               n == [members EXCEPT ![o] = @ \ {u}]
    <3>1. (\E opers : Update(m, opers)) \/ (\E opers : Update(n, opers))
      BY <2>2 DEF JoinLock, PartLock, ModeLock, SpeakLock
    <3>2. \A x \in Objs : m[x] \subseteq members[x] \cup S /\ n[x] \subseteq members[x] \cup S
      BY <1>1 DEF IInv, TypeOK
    <3> HIDE DEF m, n, S
    <3> QED BY <3>1, <3>2
  <2> QED BY <2>1, <2>2
<1>6. FreedAreEmpty' /\ \A c \in Chans : Mapped(c)' \subseteq Mapped(c) \cup S
  <2> HIDE DEF S
  <2> QED BY <1>2, <1>5, UpdateKeeps DEF IInv
<1>7. j.at \notin LockPCs /\ j.at \notin RemovalPCs
  BY <1>3 DEF LockPCs, RemovalPCs
<1> QED BY <1>2, <1>3, <1>4, <1>6, <1>7, StepKeeps

\* What follows the drops of remove_empty_channel.
LEMMA AfterDropsPlace ==
    ASSUME NEW t, NEW v
    PROVE  /\ AfterDrops(t, v).at \in {"drop_look", "remove", "idle"}
           /\ AfterDrops(t, v).at # "idle" => AfterDrops(t, v).victim = v
           /\ AfterDrops(t, v).at = "remove" => v # Nobody
BY DEF AfterDrops, Idle

LEMMA TellKeeps ==
    ASSUME IInv, TypeOK', NEW u \in Users,
           JoinTell(u) \/ PartTell(u) \/ SpeakTell(u)
    PROVE  IInv'
<1>1. UNCHANGED <<users, conn, killed, channels, members>>
  BY DEF JoinTell, PartTell, SpeakTell
<1>2. job[u].at \notin LockPCs
  BY DEF LockPCs, At, JoinTell, PartTell, SpeakTell
<1>3. PICK j : Do(u, j) /\ (j = Idle \/ j = AfterDrops({job[u].chan}, Nobody))
  BY DEF JoinTell, PartTell, SpeakTell
<1>4. j \in Jobs
  BY <1>3 DEF Do, IInv, TypeOK
<1>5. j.at \notin LockPCs
  BY <1>3, AfterDropsPlace DEF Idle, LockPCs
<1>6. j.at \in RemovalPCs => j.victim \notin Users
  BY <1>3, AfterDropsPlace, ChannelAssumption DEF Idle, RemovalPCs
<1>7. FreedAreEmpty' /\ \A c \in Chans : Mapped(c)' \subseteq Mapped(c)
  BY <1>1, <1>2, <1>3, <1>4, QuietStep
<1> QED BY <1>1, <1>3, <1>4, <1>5, <1>6, <1>7, StepKeeps

\* remove_empty_channel, on behalf of a removal: the walk is over, so the
\* victim is in no channel any more.
LEMMA DropKeeps ==
    ASSUME IInv, TypeOK', NEW u \in Users, DropLook(u) \/ DropRemove(u)
    PROVE  IInv'
<1> DEFINE v == job[u].victim
<1>1. UNCHANGED <<users, conn, killed>>
  BY DEF DropLook, DropRemove
<1>2. job[u].at \in {"drop_look", "drop_remove"}
  BY DEF At, DropLook, DropRemove
<1>3. PICK j : /\ Do(u, j)
               /\ j.at \in {"drop_look", "drop_remove", "remove", "idle"}
               /\ j.at # "idle" => j.victim = v
  <2>1. CASE DropRemove(u)
    BY <2>1, AfterDropsPlace DEF DropRemove
  <2>2. CASE DropLook(u)
    <3>1. PICK c, j : /\ Do(u, j)
                      /\ \/ j = [at |-> "drop_remove", chan |-> c,
                                todo |-> job[u].todo \ {c}, victim |-> v]
                         \/ j = AfterDrops(job[u].todo \ {c}, v)
      BY <2>2 DEF DropLook
    <3> QED BY <3>1, AfterDropsPlace
  <2> QED BY <2>1, <2>2
<1>4. j \in Jobs
  BY <1>3 DEF Do, IInv, TypeOK
<1>5. FreedAreEmpty' /\ \A c \in Chans : Mapped(c)' \subseteq Mapped(c)
  <2>1. CASE DropLook(u)
    BY <1>2, <1>3, <1>4, <2>1, QuietStep DEF DropLook, LockPCs
  <2>2. CASE DropRemove(u)
    <3>1. \A c \in Chans : channels'[c] \in {channels[c], Absent}
      BY <2>2 DEF DropRemove, IInv, TypeOK
    <3>2. Update(members, ops) /\ \A x \in Objs : members[x] \subseteq members[x] \cup {}
      BY <2>2 DEF DropRemove
    <3>3. FreedAreEmpty' /\ \A c \in Chans : Mapped(c)' \subseteq Mapped(c) \cup {}
      BY <3>1, <3>2, UpdateKeeps DEF IInv
    <3> QED BY <3>3
  <2> QED BY <2>1, <2>2
<1>6. ASSUME NEW w \in Users \ killed, j.at \in RemovalPCs, j.victim = w
      PROVE  w = u /\ conn[u] = "closing" /\ \A c \in Chans : u \notin Mapped(c)'
  <2>1. w = v
    BY <1>3, <1>6 DEF RemovalPCs
  <2>2. w \in Victims(u) \ killed
    BY <1>2, <2>1 DEF Victims, RemovalPCs
  <2>3. ToVisit(u) = {}
    BY <1>2 DEF ToVisit, At
  <2>4. w = u /\ conn[u] = "closing" /\ \A c \in Chans : u \notin Mapped(c)
    BY <2>2, <2>3 DEF IInv, ClosingAreLeaving
  <2> QED BY <2>4, <1>5
<1>7. j.at \notin LockPCs
  BY <1>3 DEF LockPCs
<1> QED BY <1>1, <1>3, <1>4, <1>5, <1>6, <1>7, StepKeeps

\* One visit of the walk of purge_user_from_channels.
LEMMA PurgeKeeps ==
    ASSUME IInv, TypeOK', NEW u \in Users, Purge(u)
    PROVE  IInv'
<1> DEFINE v == job[u].victim
<1>1. UNCHANGED <<users, conn, killed, channels>>
  BY DEF Purge
<1>2. job[u].at = "purge" /\ job[u].at \notin LockPCs /\ v \in Users
  BY JobLocals DEF Purge, At, LockPCs, IInv, TypeOK
<1>3. PICK c, j, e :
        /\ c \in job[u].todo
        /\ IF v \in Mapped(c)
           THEN members' = [members EXCEPT ![channels[c]] = @ \ {v}]
           ELSE members' = members
        /\ Do(u, j)
        /\ j = IF job[u].todo \ {c} = {} THEN AfterDrops(e, v)
               ELSE PurgeJob(job[u].todo \ {c}, e, v)
  BY DEF Purge
<1>4. j \in Jobs
  BY <1>3 DEF Do, IInv, TypeOK
<1>5. c \in Chans
  BY <1>2, <1>3, JobLocals DEF IInv, TypeOK
<1>6. FreedAreEmpty' /\ \A d \in Chans : Mapped(d)' \subseteq Mapped(d)
  <2>1. \A o \in Objs : members'[o] \subseteq members[o]
    BY <1>3 DEF IInv, TypeOK
  <2> QED BY <1>1, <1>2, <1>3, <1>4, <2>1, QuietStep
<1>7. v \notin Mapped(c)'
  BY <1>1, <1>3, <1>5 DEF Mapped, IInv, TypeOK
<1>8. /\ j.at \in {"drop_look", "remove", "idle", "purge"}
      /\ j.at # "idle" => j.victim = v
      /\ j.at = "purge" => j.todo = job[u].todo \ {c}
      /\ j.at # "purge" => job[u].todo \ {c} = {}
  BY <1>3, AfterDropsPlace DEF PurgeJob
<1>9. ASSUME NEW w \in Users \ killed, j.at \in RemovalPCs, j.victim = w
      PROVE  /\ w = u
             /\ conn[u] = "closing"
             /\ \A d \in Chans :
                  d \in (IF j.at = "purge" THEN j.todo ELSE {}) \/ u \notin Mapped(d)'
  <2>1. w = v
    BY <1>8, <1>9 DEF RemovalPCs
  <2>2. w \in Victims(u) \ killed /\ ToVisit(u) = job[u].todo
    BY <1>2, <2>1 DEF Victims, RemovalPCs, ToVisit, At
  <2>3. w = u /\ conn[u] = "closing" /\ \A d \in Chans \ job[u].todo : u \notin Mapped(d)
    BY <2>2 DEF IInv, ClosingAreLeaving
  <2>4. \A d \in Chans \ (job[u].todo \ {c}) : u \notin Mapped(d)'
    BY <1>6, <1>7, <2>1, <2>3
  <2> QED BY <1>8, <2>3, <2>4
<1>10. j.at \notin LockPCs
  BY <1>8 DEF LockPCs
<1> QED BY <1>1, <1>3, <1>4, <1>6, <1>9, <1>10, StepKeeps

\* handle_kill marks its victim before it touches a channel.
LEMMA KillKeeps ==
    ASSUME IInv, TypeOK', NEW u \in Users, NEW v \in Users, Kill(u, v)
    PROVE  IInv'
<1> DEFINE j == PurgeJob(Chans, {}, v)
<1>1. /\ UNCHANGED <<users, conn, channels, members>>
      /\ killed' = killed \cup {v}
      /\ Do(u, j)
      /\ job[u].at \notin LockPCs
  BY DEF Kill, Begin, Idle, LockPCs
<1>2. j.at = "purge" /\ j.victim = v
  BY DEF PurgeJob
<1>3. j \in Jobs
  BY <1>1 DEF Do, IInv, TypeOK
<1>4. j.at \notin LockPCs
  BY <1>2 DEF LockPCs
<1> HIDE DEF j
<1>5. FreedAreEmpty' /\ \A c \in Chans : Mapped(c)' \subseteq Mapped(c)
  BY <1>1, <1>3, QuietStep
<1> QED BY <1>1, <1>2, <1>3, <1>4, <1>5, StepKeeps

\* The end of cleanup and of handle_kill: a victim no operator has killed has
\* left all its channels, and its own connection is the one that ends.
LEMMA RemoveUserKeeps ==
    ASSUME IInv, TypeOK', NEW u \in Users, RemoveUser(u)
    PROVE  IInv'
<1> DEFINE v == job[u].victim
<1>1. /\ UNCHANGED <<killed, channels, members>>
      /\ users' = users \ {v}
      /\ conn' = [conn EXCEPT ![u] = IF @ = "closing" THEN "gone" ELSE @]
      /\ Do(u, Idle)
      /\ job[u].at = "remove"
  BY DEF RemoveUser, At
<1>2. v \in Users /\ Idle \in Jobs
  BY <1>1, JobLocals, IdleJob DEF IInv, TypeOK
<1>3. v \notin killed => /\ v = u
                        /\ conn[u] = "closing"
                        /\ \A c \in Chans : u \notin Mapped(c)
  <2>1. SUFFICES ASSUME v \notin killed
                 PROVE  /\ v = u
                        /\ conn[u] = "closing"
                        /\ \A c \in Chans : u \notin Mapped(c)
    OBVIOUS
  <2>2. v \in Victims(u) \ killed /\ ToVisit(u) = {}
    BY <1>1, <1>2, <2>1 DEF Victims, RemovalPCs, ToVisit, At
  <2> QED BY <2>2 DEF IInv, ClosingAreLeaving
<1>4. FreedAreEmpty' /\ \A c \in Chans : Mapped(c)' \subseteq Mapped(c)
  BY <1>1, <1>2, QuietStep DEF LockPCs
<1>5. job'[u] = Idle /\ \A a \in Users \ {u} : job'[a] = job[a]
  BY <1>1, <1>2, DoTyped DEF IInv
<1>6. /\ conn'[u] = IF conn[u] = "closing" THEN "gone" ELSE conn[u]
      /\ \A a \in Users \ {u} : conn'[a] = conn[a]
  BY <1>1 DEF IInv, TypeOK
<1>7. GhostsWereKilled'
  BY <1>1, <1>3, <1>4 DEF IInv, GhostsWereKilled
<1>8. OpenAreKnown'
  BY <1>1, <1>3, <1>6 DEF IInv, OpenAreKnown
<1>9. LockersAreOpen'
  BY <1>5, <1>6 DEF IInv, LockersAreOpen, LockPCs, Idle
<1>10. ClosingAreLeaving'
  <2>1. ASSUME NEW a \in Users, NEW w \in Victims(a)' \ killed'
        PROVE  /\ w = a
               /\ conn'[a] = "closing"
               /\ \A c \in Chans \ ToVisit(a)' : a \notin Mapped(c)'
    <3>1. a # u
      BY <1>5, <2>1 DEF Victims, RemovalPCs, Idle
    <3>2. w \in Victims(a) \ killed /\ ToVisit(a)' = ToVisit(a) /\ conn'[a] = conn[a]
      BY <1>1, <1>5, <1>6, <2>1, <3>1 DEF Victims, ToVisit, At
    <3> QED BY <1>4, <3>2 DEF IInv, ClosingAreLeaving
  <2> QED BY <2>1 DEF ClosingAreLeaving
<1> QED BY <1>4, <1>7, <1>8, <1>9, <1>10 DEF IInv

\* run inserts a user no handler runs for; cleanup begins its walk with every
\* channel before it.
LEMMA ConnectKeeps ==
    ASSUME IInv, TypeOK', NEW u \in Users, Connect(u)
    PROVE  IInv'
<1>1. /\ UNCHANGED <<job, channels, members, killed>>
      /\ users' = users \cup {u}
      /\ conn[u] = "new" /\ conn'[u] = "open"
      /\ \A a \in Users \ {u} : conn'[a] = conn[a]
  BY DEF Connect, IInv, TypeOK
<1>2. Held' = Held
  BY <1>1 DEF Held
<1>3. FreedAreEmpty' /\ GhostsWereKilled'
  BY <1>1, <1>2 DEF IInv, FreedAreEmpty, GhostsWereKilled, Mapped
<1>4. OpenAreKnown' /\ LockersAreOpen'
  BY <1>1 DEF IInv, OpenAreKnown, LockersAreOpen
<1>5. ClosingAreLeaving'
  BY <1>1 DEF IInv, ClosingAreLeaving, Victims, ToVisit, At, Mapped
<1> QED BY <1>3, <1>4, <1>5 DEF IInv

LEMMA DisconnectKeeps ==
    ASSUME IInv, TypeOK', NEW u \in Users, Disconnect(u)
    PROVE  IInv'
<1>1. /\ UNCHANGED <<users, channels, members, killed>>
      /\ conn'[u] \in {"closing", "gone"}
      /\ \A a \in Users \ {u} : conn'[a] = conn[a]
      /\ job[u] = Idle
  BY DEF Disconnect, Begin, IInv, TypeOK
<1>2. PICK j \in Jobs : /\ Do(u, j)
                        /\ j = Idle \/ (j = PurgeJob(Chans, {}, u) /\ conn'[u] = "closing")
  <2>1. job' \in [Users -> Jobs]
    BY DEF TypeOK
  <2>2. CASE u \in users
    BY <2>1, <2>2 DEF Disconnect, Do, IInv, TypeOK
  <2>3. CASE u \notin users
    BY <1>1, <2>3, IdleJob DEF Disconnect, Do, IInv, TypeOK
  <2> QED BY <2>2, <2>3
<1>3. job[u].at \notin LockPCs
  BY <1>1 DEF Idle, LockPCs
<1>4. job'[u] = j /\ \A a \in Users \ {u} : job'[a] = job[a]
  BY <1>2, DoTyped DEF IInv
<1>5. FreedAreEmpty' /\ \A c \in Chans : Mapped(c)' \subseteq Mapped(c)
  BY <1>1, <1>2, <1>3, QuietStep
<1>6. GhostsWereKilled' /\ OpenAreKnown'
  BY <1>1, <1>5 DEF IInv, GhostsWereKilled, OpenAreKnown
<1>7. j.at \notin LockPCs
  BY <1>2 DEF Idle, PurgeJob, LockPCs
<1>8. LockersAreOpen'
  BY <1>1, <1>4, <1>7 DEF IInv, LockersAreOpen
<1>9. ClosingAreLeaving'
  <2>1. ASSUME NEW a \in Users, NEW w \in Victims(a)' \ killed'
        PROVE  /\ w = a
               /\ conn'[a] = "closing"
               /\ \A c \in Chans \ ToVisit(a)' : a \notin Mapped(c)'
    <3>1. CASE a = u
      <4>1. j = PurgeJob(Chans, {}, u) /\ conn'[u] = "closing"
        BY <1>2, <1>4, <2>1, <3>1 DEF Victims, RemovalPCs, Idle
      <4>2. w = u /\ ToVisit(u)' = Chans
        BY <1>4, <2>1, <3>1, <4>1 DEF Victims, ToVisit, At, PurgeJob
      <4> QED BY <3>1, <4>1, <4>2
    <3>2. CASE a # u
      <4>1. w \in Victims(a) \ killed /\ ToVisit(a)' = ToVisit(a) /\ conn'[a] = conn[a]
        BY <1>1, <1>4, <2>1, <3>2 DEF Victims, ToVisit, At
      <4> QED BY <1>5, <4>1 DEF IInv, ClosingAreLeaving
    <3> QED BY <3>1, <3>2
  <2> QED BY <2>1 DEF ClosingAreLeaving
<1> QED BY <1>5, <1>6, <1>8, <1>9 DEF IInv

LEMMA InitIInv == Init => IInv
<1> SUFFICES ASSUME Init PROVE IInv
  OBVIOUS
<1>1. TypeOK
  BY InitTypeOK
<1>2. FreedAreEmpty /\ OpenAreKnown
  BY DEF Init, FreedAreEmpty, OpenAreKnown
<1>3. LockersAreOpen /\ ClosingAreLeaving
  BY DEF Init, LockersAreOpen, ClosingAreLeaving, Victims, LockPCs, RemovalPCs, Idle
<1>4. GhostsWereKilled
  BY DEF Init, GhostsWereKilled, Mapped
<1> QED BY <1>1, <1>2, <1>3, <1>4 DEF IInv

\* Every step of every handler, whatever overlaps it, keeps the invariant.
LEMMA NextIInv ==
    ASSUME IInv, [Next]_vars
    PROVE  IInv'
<1>1. TypeOK'
  BY NextTyped DEF IInv
<1>2. CASE UNCHANGED vars
  <2>1. Held' = Held
    BY <1>2 DEF vars, Held
  <2>2. FreedAreEmpty' /\ GhostsWereKilled'
    BY <1>2, <2>1 DEF vars, IInv, FreedAreEmpty, GhostsWereKilled, Mapped
  <2>3. OpenAreKnown' /\ LockersAreOpen'
    BY <1>2 DEF vars, IInv, OpenAreKnown, LockersAreOpen
  <2>4. ClosingAreLeaving'
    BY <1>2 DEF vars, IInv, ClosingAreLeaving, Victims, ToVisit, At, Mapped
  <2> QED BY <1>1, <2>2, <2>3, <2>4 DEF IInv
<1> QED
  BY <1>1, <1>2, ConnectKeeps, LookKeeps, KillKeeps, DisconnectKeeps, LockKeeps,
     TellKeeps, DropKeeps, PurgeKeeps, RemoveUserKeeps
  DEF Next

\* Whatever overlaps, the state stays typed and operators are members: the
\* locked sections of state/channel.rs's callers change both together.
THEOREM Typed == Spec => []TypeOK
<1> QED BY InitTypeOK, NextTyped, PTL DEF Spec

\* Only killed users linger: on any number of workers, whatever joins, parts,
\* kills and removals of empty channels overlap, cleanup leaves no ghost of a
\* connection that closed by itself in a channel that people can find.
THEOREM GhostsOnlyByKill == Spec => []GhostsWereKilled
<1>1. IInv => GhostsWereKilled
  BY DEF IInv
<1> QED BY <1>1, InitIInv, NextIInv, PTL DEF Spec
-----------------------------------------------------------------------------
(***************************************************************************)
(* One worker.  Then one user is in a handler at most, and the clients     *)
(* know which channels they are in but for what this handler has left to   *)
(* tell or, when it removes a user, for that user; and a channel stands    *)
(* empty only while the handler that fills or removes it runs.             *)
(***************************************************************************)
Apart == \A c, d \in Chans : c # d /\ channels[c] # Absent => channels[c] # channels[d]
NewAreNowhere ==
    \A u \in Users : conn[u] = "new" =>
        job[u] = Idle /\ told[u] = {} /\ \A o \in Objs : u \notin members[o]

Exempt(u, c, v) ==
    \/ job[u].at \in {"join_tell", "part_tell"} /\ job[u].chan = c /\ v = u
    \/ job[u].at \in RemovalPCs /\ job[u].victim = v
MayBeEmpty(u, c) ==
    \/ job[u].at \in {"join_lock", "part_tell", "drop_remove"} /\ job[u].chan = c
    \/ job[u].at = "purge" /\ c \in job[u].emptied
    \/ job[u].at \in {"drop_look", "drop_remove"} /\ c \in job[u].todo

KnownBut(u) ==
    \A c \in Chans, v \in users :
        (v \in Mapped(c) <=> c \in told[v]) \/ Exempt(u, c, v)
FullBut(u) ==
    \A c \in Chans : channels[c] # Absent /\ Mapped(c) = {} => MayBeEmpty(u, c)

InOrder(u) ==
    LET c == job[u].chan IN
    /\ job[u].at \in {"join_lock", "part_lock", "msg_lock"} => channels[c] = job[u].obj
    /\ At(u, "join_tell") => u \in Mapped(c)
    /\ At(u, "part_tell") => u \notin Mapped(c)
    /\ At(u, "drop_remove") => Mapped(c) = {}
    /\ At(u, "msg_tell") => /\ u \in InTheRoom(c) \cup killed
                            /\ job[u].rcpt \cap users = InTheRoom(c) \ {u}
Only(u) ==
    /\ \A v \in Users \ {u} : job[v] = Idle
    /\ KnownBut(u) /\ FullBut(u) /\ InOrder(u)

Sound == IInv /\ Apart /\ NewAreNowhere
ChanInv ==
    /\ Sound
    /\ workers = 1 /\ Users # {} => \E u \in Users : Only(u)
    /\ Users = {} => \A c \in Chans : channels[c] = Absent

\* The lists of the objects that the map leads to are those handed to Update.
LEMMA UpdateMapped ==
    ASSUME NEW mems, NEW opers, Update(mems, opers),
           NEW c \in Chans, channels'[c] \in Objs
    PROVE  /\ members'[channels'[c]] = mems[channels'[c]]
           /\ ops'[channels'[c]] = opers[channels'[c]]
<1>1. channels'[c] \in Held' BY DEF Held
<1> QED BY <1>1 DEF Update

\* A locked section that leaves the lists as they are.
LEMMA UpdateSame ==
    ASSUME TypeOK, TypeOK', NEW opers, Update(members, opers), channels' = channels
    PROVE  \A c \in Chans : Mapped(c)' = Mapped(c)
<1> SUFFICES ASSUME NEW c \in Chans PROVE Mapped(c)' = Mapped(c) OBVIOUS
<1>1. CASE channels[c] = Absent BY <1>1 DEF Mapped
<1>2. CASE channels[c] # Absent
  <2>1. channels'[c] \in Objs BY <1>2 DEF TypeOK
  <2>2. members'[channels'[c]] = members[channels'[c]] BY <2>1, UpdateMapped
  <2> QED BY <1>2, <2>2 DEF Mapped
<1> QED BY <1>1, <1>2

\* Two names lead to two objects: a new entry gets an unreferenced object.
LEMMA ApartStep ==
    ASSUME IInv, Apart, [Next]_vars
    PROVE  Apart'
<1>1. CASE channels' = channels BY <1>1 DEF Apart
<1>2. ASSUME NEW u \in Users, NEW c \in Chans, JoinLook(u, c), channels' # channels
      PROVE  Apart'
  <2>1. PICK o \in Objs \ Held : channels' = [channels EXCEPT ![c] = o]
    BY <1>2 DEF JoinLook
  <2>2. \A d \in Chans : channels[d] # o BY <2>1 DEF Held
  <2> QED BY <2>1, <2>2 DEF Apart, IInv, TypeOK
<1>3. ASSUME NEW u \in Users, DropRemove(u) PROVE Apart'
  BY <1>3, ChannelAssumption DEF DropRemove, Apart, IInv, TypeOK
<1>4. CASE UNCHANGED vars BY <1>1, <1>4 DEF vars
<1> QED
  BY <1>1, <1>2, <1>3, <1>4
  DEF Next, Connect, JoinLook, PartLook, ModeLook, SpeakLook, Kill, Disconnect,
      JoinLock, JoinTell, PartLock, PartTell, DropLook, ModeLock, SpeakLock,
      SpeakTell, Purge, RemoveUser

\* Only JOIN adds to a member list, and only the joiner.
LEMMA WhoEnters ==
    ASSUME IInv, TypeOK', [Next]_vars, NEW w \in Users, NEW o \in Objs,
           w \in members'[o], w \notin members[o]
    PROVE  JoinLock(w)
<1>1. ASSUME NEW mems, NEW opers, Update(mems, opers) PROVE members'[o] \subseteq mems[o]
  BY <1>1 DEF Update
<1>2. \A u \in Users : ~DropRemove(u) /\ ~SpeakLock(u) /\ ~ModeLock(u)
  BY <1>1 DEF DropRemove, SpeakLock, ModeLock
<1>3. \A u \in Users : ~PartLock(u)
  <2>1. ASSUME NEW u \in Users, PartLock(u) PROVE FALSE
    <3> DEFINE m == [members EXCEPT ![job[u].obj] = @ \ {u}]
    <3>1. Update(members, ops) \/ Update(m, [ops EXCEPT ![job[u].obj] = @ \ {u}])
      BY <2>1 DEF PartLock
    <3>2. m[o] \subseteq members[o] BY DEF IInv, TypeOK
    <3> HIDE DEF m
    <3> QED BY <1>1, <3>1, <3>2
  <2> QED BY <2>1
<1>4. \A u \in Users : ~Purge(u)
  <2>1. ASSUME NEW u \in Users, Purge(u) PROVE FALSE
    <3>1. PICK c \in job[u].todo :
            \/ members' = [members EXCEPT ![channels[c]] = @ \ {job[u].victim}]
            \/ members' = members
      BY <2>1 DEF Purge
    <3> QED BY <3>1 DEF IInv, TypeOK
  <2> QED BY <2>1
<1>5. ASSUME NEW u \in Users, JoinLock(u) PROVE u = w
  <2> DEFINE m == [members EXCEPT ![job[u].obj] = @ \cup {u}]
             p == [ops EXCEPT ![job[u].obj] = IF members[job[u].obj] = {} THEN {u} ELSE @]
  <2>1. Update(members, ops) \/ Update(m, p) BY <1>5 DEF JoinLock
  <2>2. m[o] \subseteq members[o] \cup {u} BY DEF IInv, TypeOK
  <2> HIDE DEF m, p
  <2> QED BY <1>1, <2>1, <2>2
<1>6. members' # members OBVIOUS
<1> QED
  BY <1>2, <1>3, <1>4, <1>5, <1>6
  DEF Next, vars, Connect, JoinLook, PartLook, ModeLook, SpeakLook, Kill, Disconnect,
      JoinTell, PartTell, DropLook, SpeakTell, RemoveUser

\* A client is told of its channels by its own handlers alone.
LEMMA NewStep ==
    ASSUME IInv, TypeOK', NewAreNowhere, [Next]_vars
    PROVE  NewAreNowhere'
<1> SUFFICES ASSUME NEW w \in Users, conn'[w] = "new"
             PROVE  /\ job'[w] = Idle /\ told'[w] = {}
                    /\ \A o \in Objs : w \notin members'[o]
  BY DEF NewAreNowhere
<1>1. conn[w] = "new"
  BY DEF Next, vars, Connect, JoinLook, PartLook, ModeLook, SpeakLook, Kill, Disconnect,
      JoinLock, JoinTell, PartLock, PartTell, DropLook, DropRemove, ModeLock, SpeakLock,
      SpeakTell, Purge, RemoveUser, IInv, TypeOK
<1>2. job[w] = Idle /\ told[w] = {} /\ \A o \in Objs : w \notin members[o]
  BY <1>1 DEF NewAreNowhere
<1>3. ~JoinLock(w) BY <1>2 DEF JoinLock, At, Idle
<1>4. \A o \in Objs : w \notin members'[o] BY <1>2, <1>3, WhoEnters
<1>5. ASSUME NEW u \in Users, u # w, NEW j, Do(u, j) PROVE job'[w] = Idle
  BY <1>2, <1>5 DEF Do, IInv, TypeOK
<1>6. job'[w] = Idle /\ told'[w] = {}
  <2>1. CASE UNCHANGED <<job, told>> BY <1>2, <2>1
  <2>2. ASSUME NEW u \in Users, u # w,
               JoinLock(u) \/ PartLock(u) \/ ModeLock(u) \/ SpeakLock(u) \/ DropLook(u)
               \/ DropRemove(u) \/ Purge(u) \/ RemoveUser(u) \/ SpeakTell(u)
        PROVE job'[w] = Idle /\ told'[w] = {}
    BY <1>2, <1>5, <2>2 DEF JoinLock, PartLock, ModeLock, SpeakLock, DropLook, DropRemove,
       Purge, RemoveUser, SpeakTell
  <2>3. ASSUME NEW u \in Users, u # w, JoinTell(u) \/ PartTell(u)
        PROVE job'[w] = Idle /\ told'[w] = {}
    BY <1>2, <1>5, <2>3 DEF JoinTell, PartTell, IInv, TypeOK
  <2>4. ASSUME NEW u \in Users, Begin(u) PROVE u # w BY <1>1, <2>4 DEF Begin
  <2>5. ASSUME NEW u \in Users, NEW c \in Chans,
               JoinLook(u, c) \/ PartLook(u, c) \/ ModeLook(u, c) \/ SpeakLook(u, c)
        PROVE job'[w] = Idle /\ told'[w] = {}
    BY <1>2, <1>5, <2>4, <2>5 DEF JoinLook, PartLook, ModeLook, SpeakLook
  <2>6. ASSUME NEW u \in Users, NEW v \in Users, Kill(u, v) \/ Disconnect(u)
        PROVE job'[w] = Idle /\ told'[w] = {}
    BY <1>2, <1>5, <2>4, <2>6 DEF Kill, Disconnect
  <2>7. ASSUME NEW u \in Users, job[u].at # "idle" PROVE u # w BY <1>2, <2>7 DEF Idle
  <2>8. ASSUME NEW u \in Users,
               JoinLock(u) \/ PartLock(u) \/ ModeLock(u) \/ SpeakLock(u) \/ DropLook(u)
               \/ DropRemove(u) \/ Purge(u) \/ RemoveUser(u) \/ SpeakTell(u)
               \/ JoinTell(u) \/ PartTell(u)
        PROVE u # w
    BY <2>7, <2>8 DEF JoinLock, PartLock, ModeLock, SpeakLock, DropLook, DropRemove,
       Purge, RemoveUser, SpeakTell, JoinTell, PartTell, At
  <2> QED BY <2>1, <2>2, <2>3, <2>5, <2>6, <2>8 DEF Next, Connect, vars
<1> QED BY <1>4, <1>6
-----------------------------------------------------------------------------
\* On one worker, who finds it free finds everybody idle.
LEMMA FreeAlone ==
    ASSUME workers = 1, WorkerFree
    PROVE  \A u \in Users : job[u] = Idle
<1>1. Busy \in SUBSET Users BY DEF Busy
<1>2. IsFiniteSet(Busy) BY <1>1, ChannelAssumption, FS_Subset
<1>3. Cardinality(Busy) \in Nat BY <1>2, FS_CardinalityType
<1>4. Cardinality(Busy) = 0 BY <1>3 DEF WorkerFree
<1>5. Busy = {} BY <1>2, <1>4, FS_EmptySet
<1> QED BY <1>5 DEF Busy

\* When nobody is in a handler, clients and server agree.
LEMMA IdleKnown ==
    ASSUME TypeOK, NEW u \in Users, job[u] = Idle, KnownBut(u), FullBut(u)
    PROVE  \A c \in Chans :
             /\ channels[c] # Absent => Mapped(c) # {}
             /\ \A v \in users : v \in Mapped(c) <=> c \in told[v]
BY DEF KnownBut, FullBut, Exempt, MayBeEmpty, Idle, RemovalPCs

\* Who acts is the only user that may be in a handler.
LEMMA Actor ==
    ASSUME workers = 1, ChanInv, NEW u \in Users, job[u] # Idle \/ WorkerFree
    PROVE  Only(u) /\ (WorkerFree => job[u] = Idle)
<1>1. PICK o \in Users : Only(o) BY DEF ChanInv
<1>2. CASE job[u] # Idle
  <2>1. u = o BY <1>1, <1>2 DEF Only
  <2> QED BY <1>1, <1>2, <2>1, FreeAlone
<1>3. CASE job[u] = Idle /\ WorkerFree
  <2>1. \A v \in Users : job[v] = Idle BY <1>3, FreeAlone
  <2>2. KnownBut(u) /\ FullBut(u)
    BY <1>1, <2>1, IdleKnown DEF Only, KnownBut, FullBut, ChanInv, Sound, IInv
  <2>3. InOrder(u) BY <1>3 DEF InOrder, At, Idle
  <2> QED BY <1>3, <2>1, <2>2, <2>3 DEF Only
<1> QED BY <1>2, <1>3

(***************************************************************************)
(* One step of the one running handler.                                    *)
(***************************************************************************)
\* A step after which the others are as idle as before.
LEMMA StillAlone ==
    ASSUME IInv, NEW u \in Users, Only(u), NEW j \in Jobs, Do(u, j)
    PROVE  job'[u] = j /\ \A v \in Users \ {u} : job'[v] = Idle
BY DoTyped DEF IInv, Only

\* A step that changes no channel and tells nobody anything.
LEMMA SameRooms ==
    ASSUME NEW u \in Users, Only(u),
           UNCHANGED <<users, told>>,
           \A c \in Chans : Mapped(c)' = Mapped(c)
                            /\ (channels'[c] # Absent => channels[c] # Absent),
           \A c \in Chans, v \in users : Exempt(u, c, v) => Exempt(u, c, v)',
           \A c \in Chans : Mapped(c) = {} /\ channels[c] # Absent /\ MayBeEmpty(u, c)
                            => MayBeEmpty(u, c)'
    PROVE  KnownBut(u)' /\ FullBut(u)'
<1>1. KnownBut(u)' BY DEF Only, KnownBut
<1>2. FullBut(u)' BY DEF Only, FullBut
<1> QED BY <1>1, <1>2

\* What a handler that looks a channel up finds there is what there was, also
\* if it makes the channel: the object it takes is nobody's.
LEMMA LookRooms ==
    ASSUME Sound, NEW u \in Users, NEW c \in Chans,
           JoinLook(u, c) \/ PartLook(u, c) \/ ModeLook(u, c) \/ SpeakLook(u, c)
    PROVE  \A d \in Chans : Mapped(d)' = Mapped(d)
<1>1. members' = members BY DEF JoinLook, PartLook, ModeLook, SpeakLook
<1>2. CASE channels' = channels BY <1>1, <1>2 DEF Mapped
<1>3. CASE channels' # channels
  <2>1. PICK o \in Objs \ Held : /\ channels' = [channels EXCEPT ![c] = o]
                                 /\ channels[c] = Absent
    BY <1>3 DEF JoinLook, PartLook, ModeLook, SpeakLook
  <2>2. members[o] = {} BY DEF Sound, IInv, FreedAreEmpty
  <2> QED BY <1>1, <2>1, <2>2 DEF Mapped, Sound, IInv, TypeOK
<1> QED BY <1>2, <1>3

LEMMA LookStep ==
    ASSUME Sound, TypeOK', NEW u \in Users, Only(u), job[u] = Idle, NEW c \in Chans,
           JoinLook(u, c) \/ PartLook(u, c) \/ ModeLook(u, c) \/ SpeakLook(u, c)
    PROVE  Only(u)'
<1>1. UNCHANGED <<users, conn, members, told, killed>>
  BY DEF JoinLook, PartLook, ModeLook, SpeakLook
<1>2. PICK j : /\ Do(u, j) /\ j.at \in LockPCs
               /\ j.at # "mode_lock" => channels'[j.chan] = j.obj
               /\ channels' # channels => j.at = "join_lock" /\ j.chan = c
  <2>1. CASE JoinLook(u, c) /\ channels[c] = Absent
    <3>1. PICK o \in Objs : /\ Do(u, [at |-> "join_lock", chan |-> c, obj |-> o])
                            /\ channels' = [channels EXCEPT ![c] = o]
      BY <2>1 DEF JoinLook
    <3>2. channels'[c] = o BY <3>1 DEF Sound, IInv, TypeOK
    <3> QED BY <3>1, <3>2 DEF LockPCs
  <2>2. CASE ModeLook(u, c)
    <3>1. channels' = channels /\ Do(u, [at |-> "mode_lock", obj |-> channels[c]])
      BY <2>2 DEF ModeLook
    <3> QED BY <3>1 DEF LockPCs
  <2>3. CASE ~ModeLook(u, c) /\ ~(JoinLook(u, c) /\ channels[c] = Absent)
    <3>1. PICK p \in {"join_lock", "part_lock", "msg_lock"} :
            /\ Do(u, [at |-> p, chan |-> c, obj |-> channels[c]])
            /\ channels' = channels
      BY <2>3 DEF JoinLook, PartLook, SpeakLook
    <3> QED BY <3>1 DEF LockPCs
  <2> QED BY <2>1, <2>2, <2>3
<1>3. j \in Jobs BY <1>2 DEF Do, Sound, IInv, TypeOK
<1>4. job'[u] = j /\ \A v \in Users \ {u} : job'[v] = Idle
  BY <1>2, <1>3, StillAlone DEF Sound
<1>5. InOrder(u)' BY <1>2, <1>4 DEF InOrder, At, LockPCs
<1>6. ASSUME NEW d \in Chans
      PROVE  /\ Mapped(d)' = Mapped(d)
             /\ channels'[d] = channels[d] \/ (d = c /\ j.at = "join_lock" /\ j.chan = c)
  <2>1. CASE channels' = channels BY <1>1, <2>1 DEF Mapped
  <2>2. CASE channels' # channels
    <3>1. \E o \in Objs : channels' = [channels EXCEPT ![c] = o]
      BY <2>2 DEF JoinLook, PartLook, ModeLook, SpeakLook
    <3> QED BY <1>2, <2>2, <3>1, LookRooms DEF Sound, IInv, TypeOK
  <2> QED BY <2>1, <2>2
<1>7. \A d \in Chans, v \in users : v \in Mapped(d) <=> d \in told[v]
  BY IdleKnown DEF Sound, IInv, Only
<1>8. KnownBut(u)' BY <1>1, <1>6, <1>7 DEF KnownBut
<1>9. FullBut(u)'
  <2> SUFFICES ASSUME NEW d \in Chans, channels'[d] # Absent, Mapped(d)' = {}
               PROVE  MayBeEmpty(u, d)'
    BY DEF FullBut
  <2>1. channels[d] # Absent => Mapped(d) # {} BY IdleKnown DEF Sound, IInv, Only
  <2> QED BY <1>4, <1>6, <2>1 DEF MayBeEmpty
<1> QED BY <1>4, <1>5, <1>8, <1>9 DEF Only

\* A locked section that changes the list of one channel changes no other's.
LEMMA LockRooms ==
    ASSUME Sound, channels' = channels, NEW c \in Chans, NEW o \in Objs, channels[c] = o,
           NEW some \in SUBSET Users, NEW opers,
           Update([members EXCEPT ![o] = some], opers), NEW d \in Chans
    PROVE  Mapped(d)' = IF d = c THEN some ELSE Mapped(d)
<1> DEFINE m == [members EXCEPT ![o] = some]
<1>1. CASE channels[d] = Absent BY <1>1, ChannelAssumption DEF Mapped
<1>2. CASE channels[d] # Absent
  <2>1. channels'[d] \in Objs BY <1>2 DEF Sound, IInv, TypeOK
  <2>2. members'[channels[d]] = m[channels[d]]
    <3> HIDE DEF m
    <3>1. Update(m, opers) BY DEF m
    <3> QED BY <2>1, <3>1, UpdateMapped
  <2>3. d # c => channels[d] # o BY <1>2, ChannelAssumption DEF Sound, Apart
  <2>4. members \in [Objs -> SUBSET Users] BY DEF Sound, IInv, TypeOK
  <2>5. m[channels[d]] = IF d = c THEN some ELSE members[channels[d]]
    BY <2>1, <2>3, <2>4
  <2> QED BY <1>2, <2>2, <2>5 DEF Mapped
<1> QED BY <1>1, <1>2

\* JOIN: under the lock the joiner enters the channel that it found.
LEMMA JoinLockStep ==
    ASSUME Sound, TypeOK', NEW u \in Users, Only(u), JoinLock(u)
    PROVE  Only(u)'
<1> DEFINE o == job[u].obj
           c == job[u].chan
           m == [members EXCEPT ![o] = @ \cup {u}]
           p == [ops EXCEPT ![o] = IF members[o] = {} THEN {u} ELSE @]
<1>1. /\ UNCHANGED <<users, channels, told, killed>>
      /\ job[u].at = "join_lock"
  BY DEF JoinLock, At
<1>2. o \in Objs /\ c \in Chans
  BY <1>1, JobLocals DEF LockPCs, Sound, IInv, TypeOK
<1>3. channels[c] = o /\ channels[c] # Absent
  BY <1>1, <1>2, ChannelAssumption DEF Only, InOrder
<1>4. /\ \A d \in Chans, v \in users : v \in Mapped(d) <=> d \in told[v]
      /\ \A d \in Chans : channels[d] # Absent /\ Mapped(d) = {} => d = c
  BY <1>1 DEF Only, KnownBut, FullBut, Exempt, MayBeEmpty, RemovalPCs
<1>5. CASE u \in members[o]
  <2>1. Do(u, Idle) /\ Update(members, ops) BY <1>5 DEF JoinLock
  <2>2. job'[u] = Idle /\ \A v \in Users \ {u} : job'[v] = Idle
    BY <2>1, IdleJob, StillAlone DEF Sound
  <2>3. \A d \in Chans : Mapped(d)' = Mapped(d)
    BY <1>1, <2>1, UpdateSame DEF Sound, IInv
  <2>4. Mapped(c) # {} BY <1>3, <1>5 DEF Mapped
  <2>5. KnownBut(u)' BY <1>1, <1>4, <2>3 DEF KnownBut
  <2>6. FullBut(u)' BY <1>1, <1>4, <2>3, <2>4 DEF FullBut
  <2>7. InOrder(u)' BY <2>2 DEF InOrder, At, Idle
  <2> QED BY <2>2, <2>5, <2>6, <2>7 DEF Only
<1>6. CASE u \notin members[o]
  <2>1. Do(u, [at |-> "join_tell", chan |-> c]) /\ Update(m, p)
    BY <1>6 DEF JoinLock
  <2>2. [at |-> "join_tell", chan |-> c] \in Jobs BY <1>2, TellJobs
  <2>3. /\ job'[u] = [at |-> "join_tell", chan |-> c]
        /\ \A v \in Users \ {u} : job'[v] = Idle
    BY <2>1, <2>2, StillAlone DEF Sound
  <2>4. \A d \in Chans :
          Mapped(d)' = IF d = c THEN Mapped(d) \cup {u} ELSE Mapped(d)
    <3>1. /\ members[o] \cup {u} \in SUBSET Users /\ Mapped(c) = members[o]
          /\ m = [members EXCEPT ![o] = members[o] \cup {u}]
      BY <1>2, <1>3 DEF Mapped, Sound, IInv, TypeOK
    <3> HIDE DEF m, p
    <3> QED BY <1>1, <1>2, <1>3, <2>1, <3>1, LockRooms
  <2>5. KnownBut(u)' BY <1>1, <1>4, <2>3, <2>4 DEF KnownBut, Exempt
  <2>6. FullBut(u)' BY <1>1, <1>4, <2>4 DEF FullBut
  <2>7. InOrder(u)' BY <1>2, <2>3, <2>4 DEF InOrder, At
  <2> QED BY <2>3, <2>5, <2>6, <2>7 DEF Only
<1> QED BY <1>5, <1>6

\* PART: under the lock the member leaves the channel that it found.
LEMMA PartLockStep ==
    ASSUME Sound, TypeOK', NEW u \in Users, Only(u), PartLock(u)
    PROVE  Only(u)'
<1> DEFINE o == job[u].obj
           c == job[u].chan
           m == [members EXCEPT ![o] = @ \ {u}]
           p == [ops EXCEPT ![o] = @ \ {u}]
<1>1. /\ UNCHANGED <<users, channels, told, killed>>
      /\ job[u].at = "part_lock"
  BY DEF PartLock, At
<1>2. o \in Objs /\ c \in Chans
  BY <1>1, JobLocals DEF LockPCs, Sound, IInv, TypeOK
<1>3. channels[c] = o /\ channels[c] # Absent
  BY <1>1, <1>2, ChannelAssumption DEF Only, InOrder
<1>4. /\ \A d \in Chans, v \in users : v \in Mapped(d) <=> d \in told[v]
      /\ \A d \in Chans : channels[d] # Absent => Mapped(d) # {}
  BY <1>1 DEF Only, KnownBut, FullBut, Exempt, MayBeEmpty, RemovalPCs
<1>5. CASE u \notin members[o]
  <2>1. Do(u, Idle) /\ Update(members, ops) BY <1>5 DEF PartLock
  <2>2. job'[u] = Idle /\ \A v \in Users \ {u} : job'[v] = Idle
    BY <2>1, IdleJob, StillAlone DEF Sound
  <2>3. \A d \in Chans : Mapped(d)' = Mapped(d)
    BY <1>1, <2>1, UpdateSame DEF Sound, IInv
  <2>4. KnownBut(u)' BY <1>1, <1>4, <2>3 DEF KnownBut
  <2>5. FullBut(u)' BY <1>1, <1>4, <2>3 DEF FullBut
  <2>6. InOrder(u)' BY <2>2 DEF InOrder, At, Idle
  <2> QED BY <2>2, <2>4, <2>5, <2>6 DEF Only
<1>6. CASE u \in members[o]
  <2>1. Do(u, [at |-> "part_tell", chan |-> c]) /\ Update(m, p)
    BY <1>6 DEF PartLock
  <2>2. [at |-> "part_tell", chan |-> c] \in Jobs BY <1>2, TellJobs
  <2>3. /\ job'[u] = [at |-> "part_tell", chan |-> c]
        /\ \A v \in Users \ {u} : job'[v] = Idle
    BY <2>1, <2>2, StillAlone DEF Sound
  <2>4. \A d \in Chans :
          Mapped(d)' = IF d = c THEN Mapped(d) \ {u} ELSE Mapped(d)
    <3>1. /\ members[o] \ {u} \in SUBSET Users /\ Mapped(c) = members[o]
          /\ m = [members EXCEPT ![o] = members[o] \ {u}]
      BY <1>2, <1>3 DEF Mapped, Sound, IInv, TypeOK
    <3> HIDE DEF m, p
    <3> QED BY <1>1, <1>2, <1>3, <2>1, <3>1, LockRooms
  <2>5. KnownBut(u)' BY <1>1, <1>4, <2>3, <2>4 DEF KnownBut, Exempt
  <2>6. FullBut(u)' BY <1>1, <1>4, <2>3, <2>4 DEF FullBut, MayBeEmpty
  <2>7. InOrder(u)' BY <1>2, <2>3, <2>4 DEF InOrder, At
  <2> QED BY <2>3, <2>5, <2>6, <2>7 DEF Only
<1> QED BY <1>5, <1>6

\* MODE and a message: under the lock no member list changes, and the audience
\* of a message is the member list.
LEMMA ReadLockStep ==
    ASSUME Sound, TypeOK', NEW u \in Users, Only(u), ModeLock(u) \/ SpeakLock(u)
    PROVE  Only(u)'
<1> DEFINE o == job[u].obj
           c == job[u].chan
<1>1. /\ UNCHANGED <<users, channels, told, killed>>
      /\ job[u].at \in {"mode_lock", "msg_lock"}
  BY DEF ModeLock, SpeakLock, At
<1>2. PICK j : /\ Do(u, j)
               /\ \/ j = Idle
                  \/ /\ job[u].at = "msg_lock" /\ u \in members[o]
                     /\ j = [at |-> "msg_tell", chan |-> c, rcpt |-> members[o] \ {u}]
  BY DEF ModeLock, SpeakLock, At
<1>3. j \in Jobs BY <1>2 DEF Do, Sound, IInv, TypeOK
<1>4. job'[u] = j /\ \A v \in Users \ {u} : job'[v] = Idle
  BY <1>2, <1>3, StillAlone DEF Sound
<1>5. \E opers : Update(members, opers) BY DEF ModeLock, SpeakLock
<1>6. \A d \in Chans : Mapped(d)' = Mapped(d)
  BY <1>1, <1>5, UpdateSame DEF Sound, IInv
<1>7. KnownBut(u)' /\ FullBut(u)'
  BY <1>1, <1>6, SameRooms DEF Exempt, MayBeEmpty, RemovalPCs
<1>8. InOrder(u)'
  <2>1. CASE j = Idle BY <1>4, <2>1 DEF InOrder, At, Idle
  <2>2. CASE j # Idle
    <3>1. job[u].at = "msg_lock" /\ c \in Chans /\ o \in Objs
      BY <1>2, <2>2, JobLocals DEF LockPCs, Sound, IInv, TypeOK
    <3>2. Mapped(c) = members[o]
      BY <3>1, ChannelAssumption DEF Only, InOrder, Mapped
    <3>3. \A v \in users : v \in Mapped(c) <=> c \in told[v]
      BY <3>1 DEF Only, KnownBut, Exempt, RemovalPCs
    <3>4. u \in InTheRoom(c) \cup killed
      BY <1>2, <2>2, <3>1, <3>2, <3>3 DEF InTheRoom, Sound, IInv, GhostsWereKilled
    <3>5. (members[o] \ {u}) \cap users = InTheRoom(c) \ {u}
      BY <3>2, <3>3 DEF InTheRoom
    <3>6. \A d \in Chans : InTheRoom(d)' = InTheRoom(d) BY <1>1 DEF InTheRoom
    <3>7. job'[u] = [at |-> "msg_tell", chan |-> c, rcpt |-> members[o] \ {u}]
      BY <1>2, <1>4, <2>2
    <3> QED BY <1>1, <3>1, <3>4, <3>5, <3>6, <3>7 DEF InOrder, At
  <2> QED BY <2>1, <2>2
<1> QED BY <1>4, <1>7, <1>8 DEF Only

\* The client learns of its own JOIN or PART, and a message ends.
LEMMA TellStep ==
    ASSUME Sound, TypeOK', NEW u \in Users, Only(u),
           JoinTell(u) \/ PartTell(u) \/ SpeakTell(u)
    PROVE  Only(u)'
<1> DEFINE c == job[u].chan
<1>1. UNCHANGED <<users, channels, members, killed>>
  BY DEF JoinTell, PartTell, SpeakTell
<1>2. \A d \in Chans : Mapped(d)' = Mapped(d) BY <1>1 DEF Mapped
<1>3. job[u].at \in {"join_tell", "part_tell", "msg_tell"}
  BY DEF JoinTell, PartTell, SpeakTell, At
<1>4. \A d \in Chans, v \in users : v # u => (v \in Mapped(d) <=> d \in told[v])
  BY <1>3 DEF Only, KnownBut, Exempt, RemovalPCs
<1>5. \A v \in users : v # u => told'[v] = told[v]
  BY DEF JoinTell, PartTell, SpeakTell, Sound, IInv, TypeOK
<1>6. \A d \in Chans : u \in users => (u \in Mapped(d) <=> d \in told'[u])
  <2> SUFFICES ASSUME NEW d \in Chans, u \in users
               PROVE  u \in Mapped(d) <=> d \in told'[u]
    OBVIOUS
  <2>1. CASE JoinTell(u)
    <3>1. told'[u] = told[u] \cup {c} BY <2>1 DEF JoinTell, Sound, IInv, TypeOK
    <3>2. job[u].at = "join_tell" /\ u \in Mapped(c)
      BY <2>1 DEF JoinTell, At, Only, InOrder
    <3>3. d # c => (u \in Mapped(d) <=> d \in told[u])
      BY <3>2 DEF Only, KnownBut, Exempt, RemovalPCs
    <3> QED BY <3>1, <3>2, <3>3
  <2>2. CASE PartTell(u)
    <3>1. told'[u] = told[u] \ {c} BY <2>2 DEF PartTell, Sound, IInv, TypeOK
    <3>2. job[u].at = "part_tell" /\ u \notin Mapped(c)
      BY <2>2 DEF PartTell, At, Only, InOrder
    <3>3. d # c => (u \in Mapped(d) <=> d \in told[u])
      BY <3>2 DEF Only, KnownBut, Exempt, RemovalPCs
    <3> QED BY <3>1, <3>2, <3>3
  <2>3. CASE SpeakTell(u)
    <3>1. told' = told /\ job[u].at = "msg_tell" BY <2>3 DEF SpeakTell, At
    <3> QED BY <3>1 DEF Only, KnownBut, Exempt, RemovalPCs
  <2> QED BY <2>1, <2>2, <2>3
<1>7. KnownBut(u)' BY <1>1, <1>2, <1>4, <1>5, <1>6 DEF KnownBut
<1>8. PICK j : /\ Do(u, j)
               /\ \/ j = Idle /\ ~PartTell(u)
                  \/ job[u].at = "part_tell" /\ j = AfterDrops({c}, Nobody)
  BY DEF JoinTell, PartTell, SpeakTell, At
<1>9. j \in Jobs BY <1>8 DEF Do, Sound, IInv, TypeOK
<1>10. job'[u] = j /\ \A v \in Users \ {u} : job'[v] = Idle
  BY <1>8, <1>9, StillAlone DEF Sound
<1>11. InOrder(u)'
  BY <1>8, <1>10, AfterDropsPlace DEF InOrder, At, Idle
<1>12. FullBut(u)'
  <2> SUFFICES ASSUME NEW d \in Chans, channels[d] # Absent, Mapped(d) = {}
               PROVE  MayBeEmpty(u, d)'
    BY <1>1, <1>2 DEF FullBut
  <2>1. job[u].at = "part_tell" /\ d = c
    BY <1>3 DEF Only, FullBut, MayBeEmpty
  <2>2. PartTell(u) BY <2>1 DEF JoinTell, SpeakTell, At
  <2>3. j = [at |-> "drop_look", todo |-> {c}, victim |-> Nobody]
    BY <1>8, <2>2 DEF AfterDrops
  <2> QED BY <1>10, <2>1, <2>3 DEF MayBeEmpty
<1> QED BY <1>7, <1>10, <1>11, <1>12 DEF Only

\* The removal of the entry of an empty channel changes no list.
LEMMA DropRooms ==
    ASSUME Sound, NEW c \in Chans, Mapped(c) = {}, channels' = [channels EXCEPT ![c] = Absent],
           Update(members, ops), NEW d \in Chans
    PROVE  Mapped(d)' = Mapped(d)
<1>1. channels'[d] = IF d = c THEN Absent ELSE channels[d]
  BY DEF Sound, IInv, TypeOK
<1>2. CASE channels'[d] = Absent BY <1>1, <1>2 DEF Mapped
<1>3. CASE channels'[d] # Absent
  <2>1. channels'[d] \in Objs /\ channels'[d] = channels[d]
    BY <1>1, <1>3 DEF Sound, IInv, TypeOK
  <2>2. members'[channels'[d]] = members[channels'[d]] BY <2>1, UpdateMapped
  <2> QED BY <1>1, <1>3, <2>1, <2>2 DEF Mapped
<1> QED BY <1>2, <1>3

\* remove_empty_channel looks at the channels that were emptied ...
LEMMA DropLookStep ==
    ASSUME Sound, TypeOK', NEW u \in Users, Only(u), DropLook(u)
    PROVE  Only(u)'
<1> DEFINE v == job[u].victim
<1>1. UNCHANGED <<users, channels, members, told, killed>> /\ job[u].at = "drop_look"
  BY DEF DropLook, At
<1>2. PICK c \in job[u].todo :
        Do(u, IF channels[c] # Absent /\ Mapped(c) = {}
              THEN [at |-> "drop_remove", chan |-> c, todo |-> job[u].todo \ {c},
                    victim |-> v]
              ELSE AfterDrops(job[u].todo \ {c}, v))
  BY DEF DropLook
<1>3. PICK j : /\ Do(u, j)
               /\ j = IF channels[c] # Absent /\ Mapped(c) = {}
                      THEN [at |-> "drop_remove", chan |-> c,
                            todo |-> job[u].todo \ {c}, victim |-> v]
                      ELSE AfterDrops(job[u].todo \ {c}, v)
  BY <1>2
<1>4. j \in Jobs BY <1>3 DEF Do, Sound, IInv, TypeOK
<1>5. job'[u] = j /\ \A w \in Users \ {u} : job'[w] = Idle
  BY <1>3, <1>4, StillAlone DEF Sound
<1>6. \A d \in Chans : Mapped(d)' = Mapped(d) BY <1>1 DEF Mapped
<1>7. /\ j.at \in {"drop_remove", "drop_look", "remove", "idle"}
      /\ j.at # "idle" => j.victim = v
      /\ j.at = "idle" => v = Nobody
      /\ j.at = "drop_remove" => j.chan = c /\ Mapped(c) = {}
  BY <1>3, AfterDropsPlace DEF AfterDrops
<1>8. users \subseteq Users /\ Nobody \notin users
  BY ChannelAssumption DEF Sound, IInv, TypeOK
<1>9. \A d \in Chans, w \in users : Exempt(u, d, w) => Exempt(u, d, w)'
  BY <1>1, <1>5, <1>7, <1>8 DEF Exempt, RemovalPCs
<1>10. ASSUME NEW d \in Chans, Mapped(d) = {}, channels[d] # Absent, MayBeEmpty(u, d)
       PROVE  MayBeEmpty(u, d)'
  <2>1. d \in job[u].todo BY <1>1, <1>10 DEF MayBeEmpty
  <2>2. CASE j.at = "drop_remove" BY <1>3, <1>5, <1>7, <2>1, <2>2, AfterDropsPlace DEF MayBeEmpty
  <2>3. CASE j.at # "drop_remove"
    <3>1. d # c /\ j = AfterDrops(job[u].todo \ {c}, v) BY <1>3, <1>10, <2>3
    <3>2. j = [at |-> "drop_look", todo |-> job[u].todo \ {c}, victim |-> v]
      BY <2>1, <3>1 DEF AfterDrops
    <3> QED BY <1>5, <2>1, <3>1, <3>2 DEF MayBeEmpty
  <2> QED BY <2>2, <2>3
<1>11. KnownBut(u)' /\ FullBut(u)'
  BY <1>1, <1>6, <1>9, <1>10, SameRooms
<1>12. InOrder(u)' BY <1>5, <1>6, <1>7, <1>4, JobLocals DEF InOrder, At
<1> QED BY <1>5, <1>11, <1>12 DEF Only

\* ... and removes an entry that on one worker is still empty.
LEMMA DropRemoveStep ==
    ASSUME Sound, TypeOK', NEW u \in Users, Only(u), DropRemove(u)
    PROVE  Only(u)'
<1> DEFINE v == job[u].victim
           c == job[u].chan
           j == AfterDrops(job[u].todo, v)
<1>1. /\ UNCHANGED <<users, told, killed>>
      /\ channels' = [channels EXCEPT ![c] = Absent]
      /\ Update(members, ops)
      /\ Do(u, j)
      /\ job[u].at = "drop_remove"
  BY DEF DropRemove, At
<1>2. j \in Jobs BY <1>1 DEF Do, Sound, IInv, TypeOK
<1>3. job'[u] = j /\ \A w \in Users \ {u} : job'[w] = Idle
  <2> HIDE DEF j
  <2> QED BY <1>1, <1>2, StillAlone DEF Sound
<1>4. Mapped(c) = {} /\ c \in Chans
  BY <1>1, JobLocals DEF Only, InOrder, At, Sound, IInv, TypeOK
<1>5. \A d \in Chans : /\ Mapped(d)' = Mapped(d)
                       /\ channels'[d] = IF d = c THEN Absent ELSE channels[d]
  <2>1. \A d \in Chans : channels'[d] = IF d = c THEN Absent ELSE channels[d]
    BY <1>1 DEF Sound, IInv, TypeOK
  <2> QED BY <1>1, <1>4, <2>1, DropRooms
<1>6. /\ j.at \in {"drop_look", "remove", "idle"}
      /\ j.at # "idle" => j.victim = v
      /\ j.at = "idle" => v = Nobody
  BY AfterDropsPlace DEF AfterDrops
<1>7. users \subseteq Users /\ Nobody \notin users
  BY ChannelAssumption DEF Sound, IInv, TypeOK
<1>8. KnownBut(u)'
  <2>1. \A d \in Chans, w \in users : Exempt(u, d, w) => Exempt(u, d, w)'
    BY <1>1, <1>3, <1>6, <1>7 DEF Exempt, RemovalPCs
  <2> QED BY <1>1, <1>5, <2>1 DEF Only, KnownBut
<1>9. FullBut(u)'
  <2> SUFFICES ASSUME NEW d \in Chans, channels'[d] # Absent, Mapped(d)' = {}
               PROVE  MayBeEmpty(u, d)'
    BY DEF FullBut
  <2>1. d # c /\ channels[d] # Absent /\ Mapped(d) = {} BY <1>5
  <2>2. d \in job[u].todo BY <1>1, <2>1 DEF Only, FullBut, MayBeEmpty
  <2>3. j = [at |-> "drop_look", todo |-> job[u].todo, victim |-> v]
    BY <2>2 DEF AfterDrops
  <2> QED BY <1>3, <2>2, <2>3 DEF MayBeEmpty
<1>10. InOrder(u)' BY <1>3, <1>6 DEF InOrder, At
<1> QED BY <1>3, <1>8, <1>9, <1>10 DEF Only

\* KILL and cleanup begin: of the victim clients and server may disagree now.
LEMMA RemovalBegins ==
    ASSUME Sound, TypeOK', NEW u \in Users, Only(u), job[u] = Idle,
           NEW v \in Users, Kill(u, v) \/ Disconnect(u)
    PROVE  Only(u)'
<1>1. UNCHANGED <<users, channels, members, told>> BY DEF Kill, Disconnect
<1>2. PICK j : Do(u, j) /\ (j = Idle \/ \E w \in Users : j = PurgeJob(Chans, {}, w))
  <2>1. CASE Kill(u, v) BY <2>1 DEF Kill
  <2>2. CASE Disconnect(u) /\ u \in users BY <2>2 DEF Disconnect
  <2>3. CASE Disconnect(u) /\ u \notin users
    BY <2>3 DEF Disconnect, Do, Sound, IInv, TypeOK
  <2> QED BY <2>1, <2>2, <2>3
<1>3. j \in Jobs BY <1>2 DEF Do, Sound, IInv, TypeOK
<1>4. job'[u] = j /\ \A w \in Users \ {u} : job'[w] = Idle
  BY <1>2, <1>3, StillAlone DEF Sound
<1>5. \A d \in Chans : Mapped(d)' = Mapped(d) BY <1>1 DEF Mapped
<1>6. KnownBut(u)' /\ FullBut(u)'
  BY <1>1, <1>5, SameRooms DEF Exempt, MayBeEmpty, Idle, RemovalPCs
<1>7. InOrder(u)' BY <1>2, <1>4 DEF InOrder, At, Idle, PurgeJob
<1> QED BY <1>4, <1>6, <1>7 DEF Only

\* One visit of the walk over the channels changes one list.
LEMMA VisitRooms ==
    ASSUME Sound, channels' = channels, NEW c \in Chans, NEW v,
           IF v \in Mapped(c) THEN members' = [members EXCEPT ![channels[c]] = @ \ {v}]
           ELSE members' = members,
           NEW d \in Chans
    PROVE  Mapped(d)' = IF d = c THEN Mapped(d) \ {v} ELSE Mapped(d)
<1>1. CASE v \notin Mapped(c) BY <1>1 DEF Mapped
<1>2. CASE v \in Mapped(c)
  <2>1. channels[c] # Absent /\ channels[c] \in Objs
    BY <1>2 DEF Mapped, Sound, IInv, TypeOK
  <2>2. d # c => channels[d] # channels[c] BY <2>1 DEF Sound, Apart
  <2> QED BY <1>2, <2>1, <2>2 DEF Mapped, Sound, IInv, TypeOK
<1> QED BY <1>1, <1>2

\* One visit of the walk over the channels notes a channel that it empties.
LEMMA PurgeStep ==
    ASSUME Sound, TypeOK', NEW u \in Users, Only(u), Purge(u)
    PROVE  Only(u)'
<1> DEFINE v == job[u].victim
<1>1. UNCHANGED <<users, channels, told, killed>> /\ job[u].at = "purge"
  BY DEF Purge, At
<1>2. v \in Users /\ job[u].todo \subseteq Chans /\ job[u].emptied \subseteq Chans
  BY <1>1, JobLocals DEF Sound, IInv, TypeOK
<1> DEFINE Emptied(c) == job[u].emptied \cup
               (IF v \in Mapped(c) /\ members[channels[c]] = {v} THEN {c} ELSE {})
           Then(c) == IF job[u].todo \ {c} = {} THEN AfterDrops(Emptied(c), v)
                      ELSE PurgeJob(job[u].todo \ {c}, Emptied(c), v)
<1>3. PICK c \in job[u].todo :
        /\ IF v \in Mapped(c)
           THEN members' = [members EXCEPT ![channels[c]] = @ \ {v}]
           ELSE members' = members
        /\ Do(u, Then(c))
  BY DEF Purge
<1>4. PICK e, j : /\ e = Emptied(c) /\ Do(u, j)
                  /\ j = IF job[u].todo \ {c} = {} THEN AfterDrops(e, v)
                         ELSE PurgeJob(job[u].todo \ {c}, e, v)
  BY <1>3
<1>5. j \in Jobs BY <1>3, <1>4 DEF Do, Sound, IInv, TypeOK
<1>6. job'[u] = j /\ \A w \in Users \ {u} : job'[w] = Idle
  BY <1>3, <1>4, <1>5, StillAlone DEF Sound
<1>7. c \in Chans BY <1>2, <1>3, <1>4
<1>8. v # Nobody BY <1>2, ChannelAssumption
<1>9. /\ j.at \in {"purge", "drop_look", "remove"}
      /\ j.victim = v
      /\ j.at = "purge" => j.emptied = e
      /\ j.at = "drop_look" => j.todo = e
      /\ j.at = "remove" => e = {}
  BY <1>3, <1>4, <1>8 DEF AfterDrops, PurgeJob
<1>10. \A d \in Chans : Mapped(d)' = IF d = c THEN Mapped(d) \ {v} ELSE Mapped(d)
  BY <1>1, <1>3, <1>4, <1>7, VisitRooms
<1>11. KnownBut(u)'
  <2>1. \A d \in Chans, w \in users :
          (w \in Mapped(d) <=> d \in told[w]) \/ w = v
    BY <1>1 DEF Only, KnownBut, Exempt, RemovalPCs
  <2>2. \A d \in Chans, w \in users : w = v => Exempt(u, d, w)'
    BY <1>6, <1>9 DEF Exempt, RemovalPCs
  <2> QED BY <1>1, <1>10, <2>1, <2>2 DEF KnownBut
<1>12. FullBut(u)'
  <2> SUFFICES ASSUME NEW d \in Chans, channels'[d] # Absent, Mapped(d)' = {}
               PROVE  MayBeEmpty(u, d)'
    BY DEF FullBut
  <2>1. d \in e
    <3>1. CASE Mapped(d) = {}
      BY <1>1, <1>3, <1>4, <3>1 DEF Only, FullBut, MayBeEmpty
    <3>2. CASE Mapped(d) # {}
      <4>1. d = c /\ Mapped(c) = {v} BY <1>10, <3>2
      <4> QED BY <1>1, <1>3, <1>4, <4>1 DEF Mapped
    <3> QED BY <3>1, <3>2
  <2> QED BY <1>6, <1>9, <2>1 DEF MayBeEmpty
<1>13. InOrder(u)' BY <1>6, <1>9 DEF InOrder, At
<1> QED BY <1>6, <1>11, <1>12, <1>13 DEF Only

\* The victim leaves the users map, and with it what disagreed.
LEMMA RemoveStep ==
    ASSUME Sound, TypeOK', NEW u \in Users, Only(u), RemoveUser(u)
    PROVE  Only(u)'
<1>1. /\ UNCHANGED <<channels, members, told>>
      /\ users' = users \ {job[u].victim}
      /\ Do(u, Idle)
      /\ job[u].at = "remove"
  BY DEF RemoveUser, At
<1>2. job'[u] = Idle /\ \A w \in Users \ {u} : job'[w] = Idle
  BY <1>1, IdleJob, StillAlone DEF Sound
<1>3. \A d \in Chans : Mapped(d)' = Mapped(d) BY <1>1 DEF Mapped
<1>4. KnownBut(u)' BY <1>1, <1>3 DEF Only, KnownBut, Exempt
<1>5. FullBut(u)' BY <1>1, <1>3 DEF Only, FullBut, MayBeEmpty
<1>6. InOrder(u)' BY <1>2 DEF InOrder, At, Idle
<1> QED BY <1>2, <1>4, <1>5, <1>6 DEF Only

\* A new client is in no channel, and knows of none.
LEMMA ConnectStep ==
    ASSUME Sound, TypeOK', NEW u \in Users, Only(u), job[u] = Idle, Connect(u)
    PROVE  Only(u)'
<1>1. /\ UNCHANGED <<job, channels, members, told>>
      /\ users' = users \cup {u}
      /\ conn[u] = "new"
  BY DEF Connect
<1>2. \A d \in Chans : Mapped(d)' = Mapped(d) /\ u \notin Mapped(d) /\ d \notin told[u]
  BY <1>1 DEF Mapped, Sound, NewAreNowhere, IInv, TypeOK
<1>3. \A d \in Chans, w \in users : w \in Mapped(d) <=> d \in told[w]
  BY IdleKnown DEF Sound, IInv, Only
<1>4. KnownBut(u)' BY <1>1, <1>2, <1>3 DEF KnownBut
<1>5. FullBut(u)' BY <1>1, <1>2 DEF Only, FullBut, MayBeEmpty
<1>6. InOrder(u)' BY <1>1 DEF InOrder, At, Idle
<1> QED BY <1>1, <1>4, <1>5, <1>6 DEF Only

LEMMA InitChanInv == Init => ChanInv
<1> SUFFICES ASSUME Init PROVE ChanInv OBVIOUS
<1>1. IInv BY InitIInv
<1>2. Apart /\ NewAreNowhere BY DEF Init, Apart, NewAreNowhere
<1>3. ASSUME NEW u \in Users PROVE Only(u)
  BY DEF Init, Only, KnownBut, FullBut, InOrder, At, Idle
<1>4. \A c \in Chans : channels[c] = Absent BY DEF Init
<1> QED BY <1>1, <1>2, <1>3, <1>4 DEF ChanInv, Sound

\* Whose step it is: nobody but the acting user may be in a handler.
LEMMA NextChanInv ==
    ASSUME ChanInv, [Next]_vars
    PROVE  ChanInv'
<1>1. IInv' /\ TypeOK' BY NextIInv DEF ChanInv, Sound, IInv
<1>2. Sound' BY <1>1, ApartStep, NewStep DEF ChanInv, Sound
<1>3. workers' = workers
  BY DEF Next, vars, Connect, JoinLook, PartLook, ModeLook, SpeakLook, Kill, Disconnect,
      JoinLock, JoinTell, PartLock, PartTell, DropLook, DropRemove, ModeLock, SpeakLock,
      SpeakTell, Purge, RemoveUser
<1>4. ASSUME workers = 1, NEW u \in Users, UNCHANGED vars, Only(u) PROVE Only(u)'
  BY <1>4 DEF vars, Only, KnownBut, FullBut, InOrder, Exempt, MayBeEmpty, Mapped,
      InTheRoom, At
<1>5. ASSUME workers = 1, NEW u \in Users, WorkerFree,
             \/ Connect(u) \/ Disconnect(u)
             \/ \E c \in Chans : JoinLook(u, c) \/ PartLook(u, c) \/ ModeLook(u, c)
                                 \/ SpeakLook(u, c)
             \/ \E v \in Users : Kill(u, v)
      PROVE  Only(u)'
  <2>1. Only(u) /\ job[u] = Idle BY <1>5, Actor
  <2> QED BY <1>1, <1>5, <2>1, ConnectStep, LookStep, RemovalBegins DEF ChanInv
<1>6. ASSUME workers = 1, NEW u \in Users,
             \/ JoinLock(u) \/ PartLock(u) \/ ModeLock(u) \/ SpeakLock(u)
             \/ JoinTell(u) \/ PartTell(u) \/ SpeakTell(u)
             \/ DropLook(u) \/ DropRemove(u) \/ Purge(u) \/ RemoveUser(u)
      PROVE  Only(u)'
  <2>1. job[u] # Idle
    BY <1>6 DEF JoinLock, PartLock, ModeLock, SpeakLock, JoinTell, PartTell, SpeakTell,
       DropLook, DropRemove, Purge, RemoveUser, At, Idle
  <2>2. Only(u) BY <1>6, <2>1, Actor
  <2> QED BY <1>1, <1>6, <2>2, JoinLockStep, PartLockStep, ReadLockStep, TellStep,
             DropLookStep, DropRemoveStep, PurgeStep, RemoveStep DEF ChanInv
<1>7. ASSUME workers = 1, Users # {} PROVE \E u \in Users : Only(u)'
  <2>1. CASE UNCHANGED vars BY <1>4, <1>7, <2>1 DEF ChanInv
  <2>2. CASE Next
    <3>1. ASSUME NEW u \in Users,
                 \/ Connect(u) \/ Disconnect(u)
                 \/ \E c \in Chans : JoinLook(u, c) \/ PartLook(u, c) \/ ModeLook(u, c)
                                     \/ SpeakLook(u, c)
                 \/ \E v \in Users : Kill(u, v)
          PROVE  WorkerFree
      BY <3>1 DEF Connect, Disconnect, JoinLook, PartLook, ModeLook, SpeakLook, Kill, Begin
    <3> QED BY <1>5, <1>6, <1>7, <2>2, <3>1 DEF Next
  <2> QED BY <2>1, <2>2
<1>8. Users = {} => channels' = channels BY DEF Next, vars
<1> QED BY <1>2, <1>3, <1>7, <1>8 DEF ChanInv
-----------------------------------------------------------------------------
\* Operators are added by MODE, and by the JOIN of an empty channel.
LEMMA WhoBecomesOp ==
    ASSUME IInv, TypeOK', [Next]_vars, NEW c \in Chans,
           NEW w \in MappedOps(c)' \ MappedOps(c)
    PROVE  \E u \in Users :
             /\ job[u].at \in {"join_lock", "mode_lock"} /\ channels[c] = job[u].obj
             /\ \/ u \in MappedOps(c)
                \/ /\ JoinLock(u) /\ w = u /\ Mapped(c) = {}
<1>1. channels'[c] # Absent /\ channels'[c] \in Objs /\ w \in ops'[channels'[c]]
  BY DEF MappedOps, TypeOK
<1>2. channels'[c] = channels[c] => w \notin ops[channels[c]]
  BY <1>1 DEF MappedOps
<1>3. ASSUME NEW mems, NEW opers, Update(mems, opers) PROVE w \in opers[channels'[c]]
  BY <1>1, <1>3 DEF Update
<1>4. ASSUME channels' = channels, ops' = ops PROVE FALSE BY <1>1, <1>2, <1>4
<1>5. \A u \in Users, d \in Chans : ~JoinLook(u, d)
  <2>1. ASSUME NEW u \in Users, NEW d \in Chans, JoinLook(u, d) PROVE FALSE
    <3>1. ops' = ops BY <2>1 DEF JoinLook
    <3>2. channels' # channels BY <1>4, <3>1
    <3>3. PICK o \in Objs \ Held : channels' = [channels EXCEPT ![d] = o]
      BY <2>1, <3>2 DEF JoinLook
    <3>4. ops[o] = {} BY DEF IInv, TypeOK, FreedAreEmpty
    <3> QED BY <1>1, <1>2, <3>1, <3>3, <3>4 DEF IInv, TypeOK
  <2> QED BY <2>1
<1>6. \A u \in Users : ~DropRemove(u)
  <2>1. ASSUME NEW u \in Users, DropRemove(u) PROVE FALSE
    <3>1. channels' = [channels EXCEPT ![job[u].chan] = Absent] /\ Update(members, ops)
      BY <2>1 DEF DropRemove
    <3>2. channels'[c] = channels[c] BY <1>1, <3>1 DEF IInv, TypeOK
    <3> QED BY <1>2, <1>3, <3>1, <3>2
  <2> QED BY <2>1
<1>7. \A u \in Users : ~SpeakLock(u)
  BY <1>2, <1>3 DEF SpeakLock
<1>8. \A u \in Users : ~PartLock(u)
  <2>1. ASSUME NEW u \in Users, PartLock(u) PROVE FALSE
    <3> DEFINE p == [ops EXCEPT ![job[u].obj] = @ \ {u}]
    <3>1. /\ channels' = channels
          /\ \/ Update(members, ops)
             \/ Update([members EXCEPT ![job[u].obj] = @ \ {u}], p)
      BY <2>1 DEF PartLock
    <3>2. p[channels[c]] \subseteq ops[channels[c]] BY <1>1, <3>1 DEF IInv, TypeOK
    <3> HIDE DEF p
    <3> QED BY <1>2, <1>3, <3>1, <3>2
  <2> QED BY <2>1
<1>9. \A u \in Users : ~Purge(u)
  <2>1. ASSUME NEW u \in Users, Purge(u) PROVE FALSE
    <3>1. PICK d \in job[u].todo :
            \/ ops' = [ops EXCEPT ![channels[d]] = @ \ {job[u].victim}]
            \/ ops' = ops
      BY <2>1 DEF Purge
    <3>2. channels' = channels BY <2>1 DEF Purge
    <3> QED BY <1>1, <1>2, <3>1, <3>2 DEF IInv, TypeOK
  <2> QED BY <2>1
<1>10. PICK u \in Users : JoinLock(u) \/ ModeLock(u)
  BY <1>4, <1>5, <1>6, <1>7, <1>8, <1>9
  DEF Next, vars, Connect, PartLook, ModeLook, SpeakLook, Kill, Disconnect,
      JoinTell, PartTell, DropLook, SpeakTell, RemoveUser
<1> DEFINE o == job[u].obj
<1>11. /\ channels' = channels
       /\ job[u].at \in {"join_lock", "mode_lock"}
       /\ o \in Objs
  <2>1. channels' = channels /\ job[u].at \in {"join_lock", "mode_lock"}
    BY <1>10 DEF JoinLock, ModeLock, At
  <2> QED BY <2>1, JobLocals DEF IInv, TypeOK, LockPCs
<1>12. CASE JoinLock(u)
  <2> DEFINE m == [members EXCEPT ![o] = @ \cup {u}]
             p == [ops EXCEPT ![o] = IF members[o] = {} THEN {u} ELSE @]
  <2>1. Update(members, ops) \/ Update(m, p) BY <1>12 DEF JoinLock
  <2>2. w \in p[channels[c]]
    <3> HIDE DEF m, p
    <3> QED BY <1>2, <1>3, <1>11, <2>1
  <2>3. channels[c] = o /\ members[o] = {} /\ w = u
    BY <1>1, <1>2, <1>11, <2>2 DEF IInv, TypeOK
  <2> QED BY <1>1, <1>11, <1>12, <2>3 DEF Mapped
<1>13. CASE ModeLock(u)
  <2>1. PICK v \in Users :
          /\ u \in ops[o]
          /\ \/ Update(members, [ops EXCEPT ![o] = @ \cup {v}])
             \/ Update(members, [ops EXCEPT ![o] = @ \ {v}])
             \/ Update(members, ops)
    BY <1>2, <1>3, <1>11, <1>13 DEF ModeLock
  <2> DEFINE p == [ops EXCEPT ![o] = @ \cup {v}]
             q == [ops EXCEPT ![o] = @ \ {v}]
  <2>2. w \in p[channels[c]] \/ w \in q[channels[c]]
    <3>1. Update(members, p) \/ Update(members, q) \/ Update(members, ops) BY <2>1
    <3> HIDE DEF p, q
    <3> QED BY <1>2, <1>3, <1>11, <3>1
  <2>3. channels[c] = o BY <1>1, <1>2, <1>11, <2>2 DEF IInv, TypeOK
  <2> QED BY <1>1, <1>11, <2>1, <2>3 DEF MappedOps
<1> QED BY <1>10, <1>12, <1>13

\* On one worker, between handlers, clients and server agree about who is in
\* which channel, and no channel stands empty (join_one, handle_part,
\* remove_empty_channel, purge_user_from_channels).
THEOREM RoomsAreTruthful == Spec => []TruthfulOnOneWorker
<1>1. ASSUME ChanInv PROVE TruthfulOnOneWorker
  <2> SUFFICES ASSUME workers = 1, Quiescent, NEW c \in Chans
               PROVE  /\ channels[c] # Absent => Mapped(c) # {}
                      /\ Mapped(c) \cap users = InTheRoom(c)
    BY DEF TruthfulOnOneWorker
  <2>1. users \subseteq Users BY <1>1 DEF ChanInv, Sound, IInv, TypeOK
  <2>2. CASE Users = {}
    <3>1. channels[c] = Absent /\ users = {} BY <1>1, <2>1, <2>2 DEF ChanInv
    <3> QED BY <3>1 DEF Mapped, InTheRoom
  <2>3. CASE Users # {}
    <3>1. PICK u \in Users : Only(u) BY <1>1, <2>3 DEF ChanInv
    <3>2. job[u] = Idle BY DEF Quiescent, Busy
    <3>3. /\ channels[c] # Absent => Mapped(c) # {}
          /\ \A v \in users : v \in Mapped(c) <=> c \in told[v]
      BY <1>1, <3>1, <3>2, IdleKnown DEF Only, ChanInv, Sound, IInv
    <3> QED BY <3>3 DEF InTheRoom
  <2> QED BY <2>2, <2>3
<1> QED BY <1>1, InitChanInv, NextChanInv, PTL DEF Spec

\* On one worker, a channel message comes from a member its client knows to be
\* one, or from a killed user, and goes to all others and to nobody else
\* (deliver_to_channel).
THEOREM AudienceIsRight == Spec => []AudienceOnOneWorker
<1>1. ASSUME ChanInv PROVE AudienceOnOneWorker
  <2> SUFFICES ASSUME workers = 1, NEW u \in Users, At(u, "msg_tell")
               PROVE  /\ u \in InTheRoom(job[u].chan) \cup killed
                      /\ job[u].rcpt \cap users = InTheRoom(job[u].chan) \ {u}
    BY DEF AudienceOnOneWorker
  <2>1. job[u] # Idle BY DEF At, Idle
  <2>2. Only(u) BY <1>1, <2>1, Actor
  <2> QED BY <2>2 DEF Only, InOrder
<1> QED BY <1>1, InitChanInv, NextChanInv, PTL DEF Spec

\* On one worker no channel is taken over: an operator is made by an operator,
\* or joins when no live user is in the channel (join_one,
\* apply_channel_modes).
THEOREM NoTakeover == Spec => OpIsEarned
<1>1. ASSUME ChanInv, [Next]_vars PROVE OpsAreEarned
  <2> SUFFICES ASSUME workers = 1, NEW c \in Chans,
                      NEW w \in MappedOps(c)' \ MappedOps(c)
               PROVE  \E a \in Busy : \/ a \in MappedOps(c)
                                      \/ a = w /\ InTheRoom(c) \subseteq {w}
    BY DEF OpsAreEarned
  <2>1. IInv /\ TypeOK' BY <1>1, NextIInv DEF ChanInv, Sound, IInv
  <2>2. PICK u \in Users :
          /\ job[u].at \in {"join_lock", "mode_lock"} /\ channels[c] = job[u].obj
          /\ u \in MappedOps(c) \/ (JoinLock(u) /\ w = u /\ Mapped(c) = {})
    BY <1>1, <2>1, WhoBecomesOp
  <2>3. u \in Busy /\ job[u] # Idle BY <2>2 DEF Busy, Idle
  <2>4. CASE JoinLock(u) /\ w = u /\ Mapped(c) = {}
    <3>1. Only(u) /\ job[u].at = "join_lock" BY <1>1, <2>3, <2>4, Actor DEF JoinLock, At
    <3>2. InTheRoom(c) = {}
      BY <2>4, <3>1 DEF Only, KnownBut, Exempt, RemovalPCs, InTheRoom
    <3> QED BY <2>3, <2>4, <3>2
  <2> QED BY <2>2, <2>3, <2>4
<1>2. Spec => []ChanInv BY InitChanInv, NextChanInv, PTL DEF Spec
<1> QED BY <1>1, <1>2, PTL DEF Spec, OpIsEarned
-----------------------------------------------------------------------------
(***************************************************************************)
(* What people find under the channels' names is what Rooms promises.      *)
(***************************************************************************)
\* Nothing changes for those who look a channel up.
LEMMA SameForAll ==
    ASSUME workers' = workers,
           \A d \in Chans : Mapped(d)' = Mapped(d) /\ MappedOps(d)' = MappedOps(d)
    PROVE  UNCHANGED Room!rvars
<1>1. [d \in Chans |-> Mapped(d)]' = [d \in Chans |-> Mapped(d)] OBVIOUS
<1>2. [d \in Chans |-> MappedOps(d)]' = [d \in Chans |-> MappedOps(d)] OBVIOUS
<1> QED BY <1>1, <1>2 DEF Room!rvars

\* One channel changes: somebody enters it or leaves it, an operator changes
\* another one, or its members are out of everybody's sight.
LEMMA OneRoomChanges ==
    ASSUME workers' = workers, NEW c \in Chans, NEW some, NEW opers,
           \A d \in Chans : /\ Mapped(d)' = IF d = c THEN some ELSE Mapped(d)
                            /\ MappedOps(d)' = IF d = c THEN opers ELSE MappedOps(d),
           \/ \E u \in Users : /\ u \notin Mapped(c) /\ some = Mapped(c) \cup {u}
                               /\ opers = IF Mapped(c) = {} THEN {u} ELSE MappedOps(c)
           \/ \E u \in Users : /\ u \in Mapped(c) /\ some = Mapped(c) \ {u}
                               /\ opers = MappedOps(c) \ {u}
           \/ \E a, v \in Users : /\ a \in MappedOps(c) /\ v \in Mapped(c) /\ some = Mapped(c)
                                  /\ opers \in {MappedOps(c) \cup {v}, MappedOps(c) \ {v}}
           \/ workers # 1 /\ some = {} /\ opers = {}
    PROVE  Room!Next
<1> DEFINE who == [d \in Chans |-> Mapped(d)]
           ofs == [d \in Chans |-> MappedOps(d)]
<1>1. who' = [who EXCEPT ![c] = some] /\ who[c] = Mapped(c) OBVIOUS
<1>2. ofs' = [ofs EXCEPT ![c] = opers] /\ ofs[c] = MappedOps(c) OBVIOUS
<1>3. (workers = 1)' <=> (workers = 1) OBVIOUS
<1>4. ASSUME NEW u \in Users, u \notin Mapped(c), some = Mapped(c) \cup {u},
             opers = IF Mapped(c) = {} THEN {u} ELSE MappedOps(c)
      PROVE  Room!Enter(u, c)
  BY <1>1, <1>2, <1>3, <1>4 DEF Room!Enter
<1>5. ASSUME NEW u \in Users, u \in Mapped(c), some = Mapped(c) \ {u},
             opers = MappedOps(c) \ {u}
      PROVE  Room!Leave(u, c)
  BY <1>1, <1>2, <1>3, <1>5 DEF Room!Leave
<1>6. ASSUME NEW a \in Users, NEW v \in Users, a \in MappedOps(c), v \in Mapped(c),
             some = Mapped(c), opers \in {MappedOps(c) \cup {v}, MappedOps(c) \ {v}}
      PROVE  Room!Promote(a, v, c)
  <2>1. who' = who BY <1>6
  <2> QED BY <1>1, <1>2, <1>3, <1>6, <2>1 DEF Room!Promote
<1>7. ASSUME workers # 1, some = {}, opers = {} PROVE Room!Split(c)
  BY <1>1, <1>2, <1>3, <1>7 DEF Room!Split
<1> QED BY <1>4, <1>5, <1>6, <1>7 DEF Room!Next

\* After a locked section, the lists are those handed to Update.
LEMMA LockedLists ==
    ASSUME TypeOK, channels' = channels, NEW mems, NEW opers, Update(mems, opers),
           NEW d \in Chans
    PROVE  /\ Mapped(d)' = IF channels[d] = Absent THEN {} ELSE mems[channels[d]]
           /\ MappedOps(d)' = IF channels[d] = Absent THEN {} ELSE opers[channels[d]]
<1>1. CASE channels[d] = Absent BY <1>1 DEF Mapped, MappedOps
<1>2. CASE channels[d] # Absent
  <2>1. channels'[d] \in Objs BY <1>2 DEF TypeOK
  <2>2. /\ members'[channels'[d]] = mems[channels'[d]]
        /\ ops'[channels'[d]] = opers[channels'[d]]
    BY <2>1, UpdateMapped
  <2> QED BY <1>2, <2>2 DEF Mapped, MappedOps
<1> QED BY <1>1, <1>2

\* A locked section changes the lists of one object, which is people's channel
\* of some name, or of none.
LEMMA LockedRoom ==
    ASSUME Sound, UNCHANGED <<workers, channels>>, NEW o \in Objs,
           NEW some, NEW opers,
           Update([members EXCEPT ![o] = some], [ops EXCEPT ![o] = opers]),
           \/ \E u \in Users : /\ u \notin members[o] /\ some = members[o] \cup {u}
                               /\ opers = IF members[o] = {} THEN {u} ELSE ops[o]
           \/ \E u \in Users : /\ u \in members[o] /\ some = members[o] \ {u}
                               /\ opers = ops[o] \ {u}
           \/ \E a, v \in Users : /\ a \in ops[o] /\ v \in members[o] /\ some = members[o]
                                  /\ opers \in {ops[o] \cup {v}, ops[o] \ {v}}
           \/ some = members[o] /\ opers = ops[o]
    PROVE  Room!Next \/ UNCHANGED Room!rvars
<1> DEFINE m == [members EXCEPT ![o] = some]
           p == [ops EXCEPT ![o] = opers]
<1>1. TypeOK BY DEF Sound, IInv
<1>2. \A x \in Objs : /\ m[x] = IF x = o THEN some ELSE members[x]
                      /\ p[x] = IF x = o THEN opers ELSE ops[x]
  BY <1>1 DEF TypeOK
<1>3. \A d \in Chans :
        /\ Mapped(d)' = IF channels[d] = Absent THEN {} ELSE m[channels[d]]
        /\ MappedOps(d)' = IF channels[d] = Absent THEN {} ELSE p[channels[d]]
  <2> HIDE DEF m, p
  <2>1. Update(m, p) BY DEF m, p
  <2> QED BY <1>1, <2>1, LockedLists
<1>4. \A d \in Chans : channels[d] # o => /\ Mapped(d)' = Mapped(d)
                                          /\ MappedOps(d)' = MappedOps(d)
  <2> HIDE DEF m, p
  <2> QED BY <1>1, <1>2, <1>3 DEF Mapped, MappedOps, TypeOK
<1>5. CASE \A d \in Chans : channels[d] # o BY <1>4, <1>5, SameForAll
<1>6. ASSUME NEW c \in Chans, channels[c] = o PROVE Room!Next \/ UNCHANGED Room!rvars
  <2>1. o # Absent BY ChannelAssumption
  <2>2. \A d \in Chans : d # c => channels[d] # o BY <1>6, <2>1 DEF Sound, Apart
  <2>3. Mapped(c) = members[o] /\ MappedOps(c) = ops[o] BY <1>6, <2>1 DEF Mapped, MappedOps
  <2>4. Mapped(c)' = some /\ MappedOps(c)' = opers
    <3> HIDE DEF m, p
    <3> QED BY <1>2, <1>3, <1>6, <2>1
  <2>5. \A d \in Chans : /\ Mapped(d)' = IF d = c THEN some ELSE Mapped(d)
                         /\ MappedOps(d)' = IF d = c THEN opers ELSE MappedOps(d)
    BY <1>4, <2>2, <2>4
  <2>6. CASE some = members[o] /\ opers = ops[o] BY <2>3, <2>5, <2>6, SameForAll
  <2>7. CASE \/ \E u \in Users : /\ u \notin members[o] /\ some = members[o] \cup {u}
                                 /\ opers = IF members[o] = {} THEN {u} ELSE ops[o]
             \/ \E u \in Users : /\ u \in members[o] /\ some = members[o] \ {u}
                                 /\ opers = ops[o] \ {u}
             \/ \E a, v \in Users : /\ a \in ops[o] /\ v \in members[o] /\ some = members[o]
                                    /\ opers \in {ops[o] \cup {v}, ops[o] \ {v}}
    <3>1. \/ \E u \in Users : /\ u \notin Mapped(c) /\ some = Mapped(c) \cup {u}
                              /\ opers = IF Mapped(c) = {} THEN {u} ELSE MappedOps(c)
          \/ \E u \in Users : /\ u \in Mapped(c) /\ some = Mapped(c) \ {u}
                              /\ opers = MappedOps(c) \ {u}
          \/ \E a, v \in Users : /\ a \in MappedOps(c) /\ v \in Mapped(c) /\ some = Mapped(c)
                                 /\ opers \in {MappedOps(c) \cup {v}, MappedOps(c) \ {v}}
      BY <2>3, <2>7
    <3> QED BY <2>5, <3>1, OneRoomChanges
  <2> QED BY <2>6, <2>7
<1> QED BY <1>5, <1>6

\* A lookup finds what there was, also if it makes the channel.
LEMMA LookImplements ==
    ASSUME Sound, NEW u \in Users, NEW c \in Chans,
           JoinLook(u, c) \/ PartLook(u, c) \/ ModeLook(u, c) \/ SpeakLook(u, c)
    PROVE  UNCHANGED Room!rvars
<1>1. UNCHANGED <<workers, ops>> BY DEF JoinLook, PartLook, ModeLook, SpeakLook
<1>2. ASSUME NEW d \in Chans PROVE MappedOps(d)' = MappedOps(d)
  <2>1. CASE channels' = channels BY <1>1, <2>1 DEF MappedOps
  <2>2. CASE channels' # channels
    <3>1. PICK o \in Objs \ Held : /\ channels' = [channels EXCEPT ![c] = o]
                                   /\ channels[c] = Absent
      BY <2>2 DEF JoinLook, PartLook, ModeLook, SpeakLook
    <3>2. ops[o] = {} BY DEF Sound, IInv, FreedAreEmpty, TypeOK
    <3> QED BY <1>1, <3>1, <3>2 DEF MappedOps, Sound, IInv, TypeOK
  <2> QED BY <2>1, <2>2
<1> QED BY <1>1, <1>2, LookRooms, SameForAll

\* The locked sections.
LEMMA LockImplements ==
    ASSUME Sound, NEW u \in Users,
           JoinLock(u) \/ PartLock(u) \/ ModeLock(u) \/ SpeakLock(u)
    PROVE  Room!Next \/ UNCHANGED Room!rvars
<1> DEFINE o == job[u].obj
<1>1. /\ UNCHANGED <<workers, channels>>
      /\ job[u].at \in LockPCs
  BY DEF JoinLock, PartLock, ModeLock, SpeakLock, At, LockPCs
<1>2. TypeOK /\ o \in Objs BY <1>1, JobLocals DEF Sound, IInv, TypeOK
<1>3. members = [members EXCEPT ![o] = members[o]] /\ ops = [ops EXCEPT ![o] = ops[o]]
  BY <1>2 DEF TypeOK
<1>4. CASE Update(members, ops)
  <2>1. Update([members EXCEPT ![o] = members[o]], [ops EXCEPT ![o] = ops[o]])
    BY <1>3, <1>4
  <2> HIDE DEF o
  <2> QED BY <1>1, <1>2, <2>1, LockedRoom
<1>5. ASSUME JoinLock(u), ~Update(members, ops) PROVE Room!Next \/ UNCHANGED Room!rvars
  <2> DEFINE opers == IF members[o] = {} THEN {u} ELSE ops[o]
  <2>1. u \notin members[o] BY <1>5 DEF JoinLock
  <2>2. Update([members EXCEPT ![o] = members[o] \cup {u}], [ops EXCEPT ![o] = opers])
    BY <1>2, <1>5 DEF JoinLock, TypeOK
  <2> HIDE DEF o
  <2> QED BY <1>1, <1>2, <2>1, <2>2, LockedRoom
<1>6. ASSUME PartLock(u), ~Update(members, ops) PROVE Room!Next \/ UNCHANGED Room!rvars
  <2>1. u \in members[o] BY <1>6 DEF PartLock
  <2>2. Update([members EXCEPT ![o] = members[o] \ {u}], [ops EXCEPT ![o] = ops[o] \ {u}])
    BY <1>2, <1>6 DEF PartLock, TypeOK
  <2> HIDE DEF o
  <2> QED BY <1>1, <1>2, <2>1, <2>2, LockedRoom
<1>7. ASSUME ModeLock(u), ~Update(members, ops) PROVE Room!Next \/ UNCHANGED Room!rvars
  <2>1. PICK v \in Users : /\ u \in ops[o] /\ v \in members[o]
                           /\ \/ Update(members, [ops EXCEPT ![o] = ops[o] \cup {v}])
                              \/ Update(members, [ops EXCEPT ![o] = ops[o] \ {v}])
    BY <1>2, <1>7 DEF ModeLock, TypeOK
  <2>2. PICK opers \in {ops[o] \cup {v}, ops[o] \ {v}} :
          Update([members EXCEPT ![o] = members[o]], [ops EXCEPT ![o] = opers])
    BY <1>3, <2>1
  <2> HIDE DEF o
  <2> QED BY <1>1, <1>2, <2>1, <2>2, LockedRoom
<1>8. SpeakLock(u) => Update(members, ops) BY DEF SpeakLock
<1> QED BY <1>4, <1>5, <1>6, <1>7, <1>8

\* The walk takes the victim off one channel.
LEMMA PurgeImplements ==
    ASSUME Sound, NEW u \in Users, Purge(u)
    PROVE  Room!Next \/ UNCHANGED Room!rvars
<1>1. TypeOK /\ UNCHANGED <<workers, channels>> BY DEF Purge, Sound, IInv
<1>2. At(u, "purge") BY DEF Purge
<1>3. job[u].todo \subseteq Chans /\ job[u].victim \in Users
  BY <1>1, <1>2 DEF TypeOK, At, Jobs, Idle
<1>4. PICK c \in job[u].todo :
        IF job[u].victim \in Mapped(c)
        THEN /\ members' = [members EXCEPT ![channels[c]] = @ \ {job[u].victim}]
             /\ ops' = [ops EXCEPT ![channels[c]] = @ \ {job[u].victim}]
        ELSE UNCHANGED <<members, ops>>
  BY DEF Purge
<1> DEFINE v == job[u].victim
<1>5. c \in Chans /\ v \in Users BY <1>3, <1>4
<1>6. CASE v \notin Mapped(c)
  BY <1>1, <1>4, <1>6, SameForAll DEF Mapped, MappedOps
<1>7. CASE v \in Mapped(c)
  <2>1. channels[c] # Absent /\ channels[c] \in Objs
    BY <1>1, <1>5, <1>7 DEF Mapped, TypeOK
  <2>2. \A d \in Chans : d # c => channels[d] # channels[c] BY <1>5, <2>1 DEF Sound, Apart
  <2>3. \A d \in Chans : /\ Mapped(d)' = IF d = c THEN Mapped(c) \ {v} ELSE Mapped(d)
                         /\ MappedOps(d)' = IF d = c THEN MappedOps(c) \ {v} ELSE MappedOps(d)
    BY <1>1, <1>4, <1>5, <1>7, <2>1, <2>2 DEF Mapped, MappedOps, TypeOK
  <2>4. Room!Next
    <3> HIDE DEF v
    <3> QED BY <1>1, <1>5, <1>7, <2>3, OneRoomChanges
  <2> QED BY <2>4
<1> QED BY <1>6, <1>7

\* An entry that is removed leads to an empty channel, unless another handler
\* came in between.
LEMMA DropImplements ==
    ASSUME ChanInv, NEW u \in Users, DropRemove(u)
    PROVE  Room!Next \/ UNCHANGED Room!rvars
<1> DEFINE c == job[u].chan
<1>1. Sound /\ TypeOK BY DEF ChanInv, Sound, IInv
<1>2. At(u, "drop_remove") BY DEF DropRemove
<1>3. c \in Chans BY <1>1, <1>2 DEF TypeOK, At, Jobs, Idle
<1>4. /\ workers' = workers /\ channels' = [channels EXCEPT ![c] = Absent]
      /\ Update(members, ops)
  BY DEF DropRemove
<1>5. \A d \in Chans : /\ Mapped(d)' = IF d = c THEN {} ELSE Mapped(d)
                       /\ MappedOps(d)' = IF d = c THEN {} ELSE MappedOps(d)
  <2> SUFFICES ASSUME NEW d \in Chans
               PROVE  /\ Mapped(d)' = IF d = c THEN {} ELSE Mapped(d)
                      /\ MappedOps(d)' = IF d = c THEN {} ELSE MappedOps(d)
    OBVIOUS
  <2>1. channels'[d] = IF d = c THEN Absent ELSE channels[d] BY <1>1, <1>4 DEF TypeOK
  <2>2. CASE channels'[d] = Absent BY <2>1, <2>2 DEF Mapped, MappedOps
  <2>3. CASE channels'[d] # Absent
    <3>1. channels'[d] \in Objs /\ channels'[d] = channels[d] /\ d # c
      BY <1>1, <2>1, <2>3 DEF TypeOK
    <3>2. /\ members'[channels'[d]] = members[channels'[d]]
          /\ ops'[channels'[d]] = ops[channels'[d]]
      BY <1>4, <3>1, UpdateMapped
    <3> QED BY <2>3, <3>1, <3>2 DEF Mapped, MappedOps
  <2> QED BY <2>2, <2>3
<1>6. CASE workers = 1
  <2>1. job[u] # Idle BY <1>2 DEF At, Idle
  <2>2. Mapped(c) = {} BY <1>2, <1>6, <2>1, Actor DEF Only, InOrder
  <2>3. MappedOps(c) = {} BY <1>1, <1>3, <2>2 DEF TypeOK, Mapped, MappedOps
  <2> QED BY <1>4, <1>5, <2>2, <2>3, SameForAll
<1>7. CASE workers # 1
  <2> HIDE DEF c
  <2> QED BY <1>3, <1>4, <1>5, <1>7, OneRoomChanges
<1> QED BY <1>6, <1>7

\* Each step of the registry is a step of Rooms, or shows nothing there.
LEMMA RoomsStep ==
    ASSUME ChanInv, [Next]_vars
    PROVE  Room!Next \/ UNCHANGED Room!rvars
<1>1. Sound BY DEF ChanInv
<1>2. CASE UNCHANGED <<workers, channels, members, ops>>
  BY <1>2, SameForAll DEF Mapped, MappedOps
<1>3. \/ UNCHANGED <<workers, channels, members, ops>>
      \/ \E u \in Users :
            \/ \E c \in Chans : JoinLook(u, c) \/ PartLook(u, c) \/ ModeLook(u, c)
                                \/ SpeakLook(u, c)
            \/ JoinLock(u) \/ PartLock(u) \/ ModeLock(u) \/ SpeakLock(u)
            \/ Purge(u) \/ DropRemove(u)
  BY DEF Next, vars, Connect, Kill, Disconnect, JoinTell, PartTell, DropLook, SpeakTell,
         RemoveUser
<1> QED BY <1>1, <1>2, <1>3, LookImplements, LockImplements, PurgeImplements, DropImplements

\* On any number of workers, what people find under the channels' names
\* changes as Rooms says: one member at a time, with operators that are made
\* by operators or by entering an empty channel, and on one worker no channel
\* disappears with members in it (state/mod.rs, state/channel.rs and the
\* handlers of JOIN, PART, MODE, KILL and cleanup).
THEOREM RegistryIsRooms == Spec => ImplementsRooms
<1>1. Init => Room!Init
  <2> SUFFICES ASSUME Init PROVE Room!Init
    OBVIOUS
  <2>1. \A c \in Chans : Mapped(c) = {} /\ MappedOps(c) = {} BY DEF Init, Mapped, MappedOps
  <2> QED BY <2>1 DEF Room!Init
<1>2. ChanInv /\ [Next]_vars => [Room!Next]_(Room!rvars)
  BY RoomsStep
<1>3. Spec => []ChanInv BY InitChanInv, NextChanInv, PTL DEF Spec
<1> QED BY <1>1, <1>2, <1>3, PTL DEF Spec, ImplementsRooms, Room!Spec

\* "Remove a channel once it has no members left" (remove_empty_channel): on
\* one worker never before, so that the split the run channel_split shows
\* needs two.
THEOREM OnlyEmptyRemovedOnOneWorker == Spec /\ [](workers = 1) => OnlyEmptyRemoved
<1> DEFINE Step == \A c \in Chans :
               channels[c] # Absent /\ channels'[c] = Absent => Mapped(c) = {}
<1>1. ASSUME ChanInv, [Next]_vars, workers = 1 PROVE Step
  <2> SUFFICES ASSUME NEW c \in Chans, channels[c] # Absent, channels'[c] = Absent
               PROVE  Mapped(c) = {}
    OBVIOUS
  <2>1. TypeOK BY <1>1 DEF ChanInv, Sound, IInv
  <2>2. ASSUME NEW u \in Users, NEW d \in Chans, JoinLook(u, d) PROVE FALSE
    BY <2>1, <2>2, ChannelAssumption DEF JoinLook, TypeOK
  <2>3. PICK u \in Users : DropRemove(u)
    BY <1>1, <2>2
    DEF Next, vars, Connect, PartLook, ModeLook, SpeakLook, Kill, Disconnect, JoinLock,
        JoinTell, PartLock, PartTell, DropLook, ModeLock, SpeakLock, SpeakTell, Purge,
        RemoveUser
  <2>4. At(u, "drop_remove") /\ c = job[u].chan BY <2>1, <2>3 DEF DropRemove, TypeOK
  <2>5. job[u] # Idle BY <2>4 DEF At, Idle
  <2> QED BY <1>1, <2>4, <2>5, Actor DEF Only, InOrder
<1>2. Spec => []ChanInv BY InitChanInv, NextChanInv, PTL DEF Spec
<1>3. ChanInv /\ [Next]_vars /\ workers = 1 => [Step]_vars BY <1>1
<1> HIDE DEF Step
<1>4. Spec /\ [](workers = 1) => [][Step]_vars BY <1>2, <1>3, PTL DEF Spec
<1> QED BY <1>4 DEF Step, OnlyEmptyRemoved
-----------------------------------------------------------------------------
(***************************************************************************)
(* ClientView: its steps are steps of the server, and its types hold.      *)
(***************************************************************************)
LEMMA ViewStep == [ViewNext]_allvars => [Next]_vars
<1> SUFFICES ASSUME [ViewNext]_allvars PROVE [Next]_vars
  OBVIOUS
<1>1. CASE UNCHANGED allvars BY <1>1 DEF allvars
<1>2. ASSUME NEW u \in Users, Enter(u) PROVE Next BY <1>2 DEF Enter, Next
<1>3. ASSUME NEW u \in Users, Go(u) PROVE Next BY <1>3 DEF Go, Next
<1>4. ASSUME NEW u \in Users, Change(u) PROVE Next BY <1>4 DEF Change, Next
<1>5. ASSUME NEW u \in Users, TellChange(u) PROVE Next BY <1>5 DEF TellChange, Next
<1>6. ASSUME NEW u \in Users, TellNames(u) PROVE UNCHANGED vars BY <1>6 DEF TellNames
<1>7. ASSUME NEW u \in Users, Leave(u) PROVE Next BY <1>7 DEF Leave, Next
<1>8. ASSUME NEW u \in Users, TellQuit(u) PROVE UNCHANGED vars BY <1>8 DEF TellQuit
<1>9. ASSUME NEW u \in Users, Remove(u) PROVE Next BY <1>9 DEF Remove, Next
<1>10. ASSUME NEW u \in Users, Receive(u) PROVE UNCHANGED vars BY <1>10 DEF Receive
<1> QED
  BY <1>1, <1>2, <1>3, <1>4, <1>5, <1>6, <1>7, <1>8, <1>9, <1>10 DEF ViewNext

\* The server with its clients takes the steps of the server alone: what the
\* theorems above say of the registry holds with queues and clients around it
\* (join_one, handle_part, handle_kill, cleanup).
THEOREM ViewIsAServer == ViewSpec => Spec
<1>1. ViewInit => Init BY DEF ViewInit
<1> QED BY <1>1, ViewStep, PTL DEF ViewSpec, Spec

\* A handler that is to tell a change has noted whom, and a QUIT of KILL is
\* told before the walk over the channels.
Promised(u) ==
    /\ job[u].at \in {"join_tell", "part_tell"} => rest[u].send = "change"
    /\ rest[u].send = "quit" /\ conn[u] # "closing" => job[u].at = "purge"
ViewInv == TypeOK /\ ViewTypeOK /\ \A u \in Users : Promised(u)

LEMMA RestTyped ==
    ASSUME rest \in [Users -> Rests], NEW u \in Users, NEW r \in Rests, Rest(u, r)
    PROVE  /\ rest' \in [Users -> Rests]
           /\ rest'[u] = r
           /\ \A w \in Users \ {u} : rest'[w] = rest[w]
BY DEF Rest

LEMMA NothingRests ==
    /\ Nothing \in Rests /\ Nothing.send = "nothing"
    /\ \A some \in SUBSET Users :
          /\ [send |-> "change", to |-> some] \in Rests
          /\ [send |-> "quit", to |-> some] \in Rests
    /\ \A c \in Chans : [send |-> "names", chan |-> c] \in Rests
BY DEF Nothing, Rests

LEMMA RestLocals ==
    ASSUME NEW r \in Rests
    PROVE  r.send = "names" => r.chan \in Chans
BY DEF Rests, Nothing

LEMMA SendTyped ==
    ASSUME ViewTypeOK, NEW to, NEW msg \in Messages, Send(to, msg), Outbound \in Nat
    PROVE  /\ inbox' \in [Users -> Seq(Messages)]
           /\ \A w \in Users : Len(inbox'[w]) <= Outbound
           /\ lost' \in [Users -> SUBSET Chans]
<1> DEFINE got == {w \in to \cap users \cap Following : Len(inbox[w]) < Outbound}
<1>1. \A w \in Users : /\ inbox[w] \in Seq(Messages) /\ Len(inbox[w]) <= Outbound
                       /\ lost[w] \in SUBSET Chans
  BY DEF ViewTypeOK
<1>2. ASSUME NEW w \in Users
      PROVE  /\ Append(inbox[w], msg) \in Seq(Messages)
             /\ w \in got => Len(Append(inbox[w], msg)) <= Outbound
  BY <1>1
<1>3. About(msg) \in SUBSET Chans BY DEF About, Messages
<1>4. inbox' = [w \in Users |-> IF w \in got THEN Append(inbox[w], msg) ELSE inbox[w]]
  BY DEF Send
<1>5. inbox' \in [Users -> Seq(Messages)] /\ \A w \in Users : Len(inbox'[w]) <= Outbound
  <2> HIDE DEF got
  <2> QED BY <1>1, <1>2, <1>4
<1>6. lost' \in [Users -> SUBSET Chans]
  BY <1>1, <1>3 DEF Send
<1> QED BY <1>5, <1>6

LEMMA ListedTyped ==
    ASSUME NEW w \in Users, NEW nicks \in (SUBSET Users) \cup {Absent}, NEW msg \in Messages
    PROVE  Listed(w, nicks, msg) \in (SUBSET Users) \cup {Absent}
<1>1. CASE msg.kind = "join"
  <2>1. msg.who \in Users BY <1>1 DEF Messages
  <2> QED BY <1>1, <2>1 DEF Listed, Joined
<1>2. CASE msg.kind = "names"
  <2>1. msg.nicks \in SUBSET Users BY <1>2 DEF Messages
  <2> QED BY <1>2, <2>1 DEF Listed, Named
<1>3. CASE msg.kind \in {"part", "quit"}
  BY <1>3 DEF Listed, Departed
<1>4. msg.kind \in {"join", "names", "part", "quit"} BY DEF Messages
<1> QED BY <1>1, <1>2, <1>3, <1>4

LEMMA ReceiveTyped ==
    ASSUME ViewInv, NEW u \in Users, Receive(u), Outbound \in Nat
    PROVE  ViewTypeOK' /\ \A w \in Users : Promised(w)'
<1>1. /\ inbox[u] \in Seq(Messages) /\ inbox[u] # <<>> /\ Len(inbox[u]) <= Outbound
      /\ view[u] \in [Chans -> (SUBSET Users) \cup {Absent}]
  BY DEF ViewInv, ViewTypeOK, Receive
<1>2. /\ Head(inbox[u]) \in Messages /\ Tail(inbox[u]) \in Seq(Messages)
      /\ Len(Tail(inbox[u])) <= Outbound
  BY <1>1
<1>3. Apply(u, view[u], Head(inbox[u])) \in [Chans -> (SUBSET Users) \cup {Absent}]
  <2>1. \A c \in Chans : Listed(u, view[u][c], Head(inbox[u])) \in (SUBSET Users) \cup {Absent}
    BY <1>1, <1>2, ListedTyped
  <2> QED BY <1>1, <2>1 DEF Apply
<1>4. view' \in [Users -> [Chans -> (SUBSET Users) \cup {Absent}]]
  BY <1>3 DEF Receive, ViewInv, ViewTypeOK
<1>5. inbox' \in [Users -> Seq(Messages)] /\ \A w \in Users : Len(inbox'[w]) <= Outbound
  BY <1>2 DEF Receive, ViewInv, ViewTypeOK
<1>6. UNCHANGED <<job, conn, rest, lost>> BY DEF Receive, vars
<1> QED BY <1>4, <1>5, <1>6 DEF ViewInv, ViewTypeOK, Promised

LEMMA EnterTyped ==
    ASSUME ViewInv, NEW u \in Users, Enter(u)
    PROVE  ViewTypeOK' /\ \A w \in Users : Promised(w)'
<1>1. UNCHANGED <<rest, inbox, view, lost>> BY DEF Enter, SendsNothing, cvars
<1>2. job \in [Users -> Jobs] /\ conn \in [Users -> {"new", "open", "closing", "gone"}]
  BY DEF ViewInv, TypeOK
<1>3. rest[u].send = "nothing" BY NothingRests DEF Enter, Free
<1>4. \A w \in Users \ {u} : job'[w] = job[w] /\ conn'[w] = conn[w]
  BY <1>2 DEF Enter, Connect, JoinLook, PartLook, ModeLook, SpeakLook, Do
<1>5. job'[u].at \notin {"join_tell", "part_tell"}
  <2>1. CASE Connect(u)
    <3>1. job'[u] = job[u] BY <2>1 DEF Connect
    <3> QED BY <1>3, <3>1 DEF ViewInv, Promised
  <2>2. ASSUME NEW c \in Chans,
               JoinLook(u, c) \/ PartLook(u, c) \/ ModeLook(u, c) \/ SpeakLook(u, c)
        PROVE  job'[u].at \notin {"join_tell", "part_tell"}
    BY <1>2, <2>2 DEF JoinLook, PartLook, ModeLook, SpeakLook, Do
  <2> QED BY <2>1, <2>2 DEF Enter
<1> QED BY <1>1, <1>3, <1>4, <1>5 DEF ViewInv, ViewTypeOK, Promised

LEMMA GoTyped ==
    ASSUME ViewInv, NEW u \in Users, Go(u)
    PROVE  ViewTypeOK' /\ \A w \in Users : Promised(w)'
<1>1. UNCHANGED <<rest, inbox, view, lost>> BY DEF Go, SendsNothing, cvars
<1>2. job \in [Users -> Jobs] BY DEF ViewInv, TypeOK
<1>3. UNCHANGED conn
  BY DEF Go, ModeLock, SpeakLock, SpeakTell, DropLook, DropRemove, Purge
<1>4. \A w \in Users \ {u} : job'[w] = job[w]
  BY <1>2 DEF Go, ModeLock, SpeakLock, SpeakTell, DropLook, DropRemove, Purge, Do
<1>5. job'[u].at \notin {"join_tell", "part_tell"}
  <2>1. \A todo, v : AfterDrops(todo, v).at \notin {"join_tell", "part_tell"}
    BY DEF AfterDrops, Idle
  <2>2. CASE ModeLock(u) \/ SpeakLock(u) \/ SpeakTell(u)
    BY <1>2, <2>2 DEF ModeLock, SpeakLock, SpeakTell, Do, Idle
  <2>3. CASE DropLook(u) BY <1>2, <2>1, <2>3 DEF DropLook, Do
  <2>4. CASE DropRemove(u) BY <1>2, <2>1, <2>4 DEF DropRemove, Do
  <2>5. CASE Purge(u) BY <1>2, <2>1, <2>5 DEF Purge, PurgeJob, Do
  <2> QED BY <2>2, <2>3, <2>4, <2>5 DEF Go
<1>6. ~(rest[u].send = "quit" /\ conn[u] # "closing")
  <2> SUFFICES ASSUME rest[u].send = "quit", conn[u] # "closing" PROVE FALSE
    OBVIOUS
  <2>1. job[u].at = "purge" /\ rest[u] # Nothing
    BY NothingRests DEF ViewInv, Promised
  <2> QED
    BY <2>1 DEF Go, ModeLock, SpeakLock, SpeakTell, DropLook, DropRemove, At
<1> QED BY <1>1, <1>3, <1>4, <1>5, <1>6 DEF ViewInv, ViewTypeOK, Promised

LEMMA ChangeTyped ==
    ASSUME ViewInv, NEW u \in Users, Change(u)
    PROVE  ViewTypeOK' /\ \A w \in Users : Promised(w)'
<1> DEFINE o == job[u].obj
<1>1. UNCHANGED <<inbox, view, lost, conn>> BY DEF Change, JoinLock, PartLock
<1>2. job \in [Users -> Jobs] /\ rest \in [Users -> Rests]
  BY DEF ViewInv, TypeOK, ViewTypeOK
<1>3. o \in Objs /\ members[o] \in SUBSET Users
  <2>1. job[u].at \in LockPCs BY DEF Change, JoinLock, PartLock, At, LockPCs
  <2> QED BY <1>2, <2>1, JobLocals DEF ViewInv, TypeOK
<1>4. \A w \in Users \ {u} : job'[w] = job[w]
  BY <1>2 DEF Change, JoinLock, PartLock, Do
<1>5. \E r \in Rests : /\ Rest(u, r)
                       /\ r.send # "quit"
                       /\ job'[u].at \in {"join_tell", "part_tell"} => r.send = "change"
  <2>1. /\ [send |-> "change", to |-> members[o] \cup {u}] \in Rests
        /\ [send |-> "change", to |-> members[o]] \in Rests
    BY <1>3, NothingRests
  <2>2. CASE u \in members[o]
    <3>1. CASE JoinLock(u) /\ Rest(u, Nothing)
      BY <1>2, <2>2, <3>1, NothingRests DEF JoinLock, Do, Idle
    <3>2. CASE PartLock(u) /\ Rest(u, [send |-> "change", to |-> members[o]])
      BY <2>1, <3>2
    <3> QED BY <2>2, <3>1, <3>2 DEF Change
  <2>3. CASE u \notin members[o]
    <3>1. CASE JoinLock(u) /\ Rest(u, [send |-> "change", to |-> members[o] \cup {u}])
      BY <2>1, <3>1
    <3>2. CASE PartLock(u) /\ Rest(u, Nothing)
      BY <1>2, <2>3, <3>2, NothingRests DEF PartLock, Do, Idle
    <3> QED BY <2>3, <3>1, <3>2 DEF Change
  <2> QED BY <2>2, <2>3
<1>6. PICK r \in Rests : /\ Rest(u, r)
                         /\ r.send # "quit"
                         /\ job'[u].at \in {"join_tell", "part_tell"} => r.send = "change"
  BY <1>5
<1>7. /\ rest' \in [Users -> Rests]
      /\ rest'[u] = r
      /\ \A w \in Users \ {u} : rest'[w] = rest[w]
  BY <1>2, <1>6, RestTyped
<1> QED BY <1>1, <1>4, <1>6, <1>7 DEF ViewInv, ViewTypeOK, Promised

LEMMA TellChangeTyped ==
    ASSUME ViewInv, NEW u \in Users, TellChange(u), Outbound \in Nat
    PROVE  ViewTypeOK' /\ \A w \in Users : Promised(w)'
<1>1. UNCHANGED <<view, conn>> BY DEF TellChange, JoinTell, PartTell
<1>2. job \in [Users -> Jobs] /\ rest \in [Users -> Rests]
  BY DEF ViewInv, TypeOK, ViewTypeOK
<1>3. job[u].chan \in Chans
  <2>1. job[u].at \in {"join_tell", "part_tell"} BY DEF TellChange, JoinTell, PartTell, At
  <2> QED BY <1>2, <2>1, JobLocals
<1>4. \A w \in Users \ {u} : job'[w] = job[w]
  BY <1>2 DEF TellChange, JoinTell, PartTell, Do
<1>5. job'[u].at \notin {"join_tell", "part_tell"}
  BY <1>2 DEF TellChange, JoinTell, PartTell, Do, AfterDrops, Idle
<1>6. PICK msg \in Messages : Send(rest[u].to, msg)
  <2>1. Join(u, job[u].chan) \in Messages /\ Part(u, job[u].chan) \in Messages
    BY <1>3 DEF Join, Part, Messages
  <2> QED BY <2>1 DEF TellChange
<1>7. PICK r \in Rests : Rest(u, r) /\ r.send # "quit"
  <2>1. [send |-> "names", chan |-> job[u].chan] \in Rests BY <1>3, NothingRests
  <2> QED BY <2>1, NothingRests DEF TellChange
<1>8. /\ rest' \in [Users -> Rests]
      /\ rest'[u] = r
      /\ \A w \in Users \ {u} : rest'[w] = rest[w]
  BY <1>2, <1>7, RestTyped
<1>9. /\ inbox' \in [Users -> Seq(Messages)]
      /\ \A w \in Users : Len(inbox'[w]) <= Outbound
      /\ lost' \in [Users -> SUBSET Chans]
  BY <1>6, SendTyped DEF ViewInv
<1> QED BY <1>1, <1>4, <1>5, <1>7, <1>8, <1>9 DEF ViewInv, ViewTypeOK, Promised

LEMMA TellNamesTyped ==
    ASSUME ViewInv, NEW u \in Users, TellNames(u), Outbound \in Nat
    PROVE  ViewTypeOK' /\ \A w \in Users : Promised(w)'
<1>1. UNCHANGED <<view, job, conn>> BY DEF TellNames, vars
<1>2. rest \in [Users -> Rests] /\ rest[u].send = "names" /\ Rest(u, Nothing)
  BY DEF ViewInv, ViewTypeOK, TellNames
<1>3. /\ rest' \in [Users -> Rests]
      /\ rest'[u].send = "nothing"
      /\ \A w \in Users \ {u} : rest'[w] = rest[w]
  BY <1>2, RestTyped, NothingRests
<1>4. /\ inbox' \in [Users -> Seq(Messages)]
      /\ \A w \in Users : Len(inbox'[w]) <= Outbound
      /\ lost' \in [Users -> SUBSET Chans]
  <2> DEFINE c == rest[u].chan
  <2>1. c \in Chans BY <1>2, RestLocals
  <2>2. CASE channels[c] # Absent
    <3>1. channels[c] \in Objs BY <2>1, <2>2 DEF ViewInv, TypeOK
    <3>2. Mapped(c) \cap users \in SUBSET Users
      BY <2>2, <3>1 DEF Mapped, ViewInv, TypeOK
    <3>3. Names(c, Mapped(c) \cap users) \in Messages
      BY <2>1, <3>2 DEF Names, Messages
    <3>4. Send({u}, Names(c, Mapped(c) \cap users)) BY <2>2 DEF TellNames
    <3> QED BY <3>3, <3>4, SendTyped DEF ViewInv
  <2>3. CASE channels[c] = Absent
    BY <2>3 DEF TellNames, ViewInv, ViewTypeOK
  <2> QED BY <2>2, <2>3
<1> QED BY <1>1, <1>2, <1>3, <1>4 DEF ViewInv, ViewTypeOK, Promised

LEMMA LeaveTyped ==
    ASSUME ViewInv, NEW u \in Users, Leave(u)
    PROVE  ViewTypeOK' /\ \A w \in Users : Promised(w)'
<1>1. UNCHANGED <<inbox, view, lost>> BY DEF Leave
<1>2. /\ job \in [Users -> Jobs] /\ conn \in [Users -> {"new", "open", "closing", "gone"}]
      /\ rest \in [Users -> Rests]
  BY DEF ViewInv, TypeOK, ViewTypeOK
<1>3. \A w \in Users \ {u} : job'[w] = job[w] /\ conn'[w] = conn[w]
  BY <1>2 DEF Leave, Kill, Disconnect, Do
<1>4. \A v \in Users : [send |-> "quit", to |-> Peers(v)] \in Rests
  <2> TAKE v \in Users
  <2>1. \A c \in Chans : Mapped(c) \subseteq Users BY DEF Mapped, ViewInv, TypeOK
  <2>2. Peers(v) \in SUBSET Users BY <2>1 DEF Peers
  <2> QED BY <2>2, NothingRests
<1>5. \E r \in Rests : /\ Rest(u, r)
                       /\ job'[u].at \notin {"join_tell", "part_tell"}
                       /\ r.send = "quit" /\ conn'[u] # "closing" => job'[u].at = "purge"
  <2>1. ASSUME NEW v \in Users, Kill(u, v), Rest(u, [send |-> "quit", to |-> Peers(v)])
        PROVE  job'[u].at = "purge"
    BY <1>2, <2>1 DEF Kill, Do, PurgeJob
  <2>2. ASSUME Disconnect(u), u \in users PROVE job'[u].at = "purge"
    BY <1>2, <2>2 DEF Disconnect, Do, PurgeJob
  <2>3. ASSUME Disconnect(u), u \notin users PROVE job'[u].at = "idle"
    BY <1>2, <2>3 DEF Disconnect, Begin, Idle
  <2> QED BY <1>4, <2>1, <2>2, <2>3, NothingRests DEF Leave
<1>6. PICK r \in Rests : /\ Rest(u, r)
                         /\ job'[u].at \notin {"join_tell", "part_tell"}
                         /\ r.send = "quit" /\ conn'[u] # "closing" => job'[u].at = "purge"
  BY <1>5
<1>7. /\ rest' \in [Users -> Rests]
      /\ rest'[u] = r
      /\ \A w \in Users \ {u} : rest'[w] = rest[w]
  BY <1>2, <1>6, RestTyped
<1> QED BY <1>1, <1>3, <1>6, <1>7 DEF ViewInv, ViewTypeOK, Promised

LEMMA TellQuitTyped ==
    ASSUME ViewInv, NEW u \in Users, TellQuit(u), Outbound \in Nat
    PROVE  ViewTypeOK' /\ \A w \in Users : Promised(w)'
<1>1. UNCHANGED <<view, job, conn>> BY DEF TellQuit, vars
<1>2. rest \in [Users -> Rests] /\ rest[u].send = "quit" /\ Rest(u, Nothing)
  BY DEF ViewInv, ViewTypeOK, TellQuit
<1>3. /\ rest' \in [Users -> Rests]
      /\ rest'[u].send = "nothing"
      /\ \A w \in Users \ {u} : rest'[w] = rest[w]
  BY <1>2, RestTyped, NothingRests
<1>4. Quit(job[u].victim) \in Messages
  <2>1. job[u].at \in {"purge", "remove"}
    BY <1>2 DEF TellQuit, At, ViewInv, Promised
  <2>2. job[u].victim \in Users BY <2>1, JobLocals DEF ViewInv, TypeOK
  <2> QED BY <2>2 DEF Quit, Messages
<1>5. /\ inbox' \in [Users -> Seq(Messages)]
      /\ \A w \in Users : Len(inbox'[w]) <= Outbound
      /\ lost' \in [Users -> SUBSET Chans]
  BY <1>4, SendTyped DEF TellQuit, ViewInv
<1> QED BY <1>1, <1>2, <1>3, <1>5 DEF ViewInv, ViewTypeOK, Promised

LEMMA RemoveTyped ==
    ASSUME ViewInv, NEW u \in Users, Remove(u)
    PROVE  ViewTypeOK' /\ \A w \in Users : Promised(w)'
<1>1. UNCHANGED <<rest, inbox, view, lost>> BY DEF Remove, SendsNothing, cvars
<1>2. job \in [Users -> Jobs] /\ conn \in [Users -> {"new", "open", "closing", "gone"}]
  BY DEF ViewInv, TypeOK
<1>3. \A w \in Users \ {u} : job'[w] = job[w] /\ conn'[w] = conn[w]
  BY <1>2 DEF Remove, RemoveUser, Do
<1>4. job'[u].at \notin {"join_tell", "part_tell"} /\ rest[u].send = "nothing"
  BY <1>2, NothingRests DEF Remove, RemoveUser, Do, Idle
<1> QED BY <1>1, <1>3, <1>4 DEF ViewInv, ViewTypeOK, Promised

LEMMA InitViewInv == ViewInit => ViewInv
<1> SUFFICES ASSUME ViewInit PROVE ViewInv
  OBVIOUS
<1>1. TypeOK BY InitTypeOK DEF ViewInit
<1>2. Outbound \in Nat BY ViewAssumption
<1>3. ViewTypeOK BY <1>2, NothingRests DEF ViewInit, ViewTypeOK
<1>4. ASSUME NEW u \in Users PROVE Promised(u)
  BY NothingRests DEF ViewInit, Init, Idle, Promised
<1> QED BY <1>1, <1>3, <1>4 DEF ViewInv

LEMMA NextViewInv == ViewInv /\ [ViewNext]_allvars => ViewInv'
<1> SUFFICES ASSUME ViewInv, [ViewNext]_allvars PROVE ViewInv'
  OBVIOUS
<1>1. Outbound \in Nat BY ViewAssumption
<1>2. TypeOK' BY ViewStep, NextTyped DEF ViewInv
<1>3. CASE UNCHANGED allvars
  BY <1>2, <1>3 DEF ViewInv, ViewTypeOK, Promised, allvars, vars, cvars
<1>4. CASE ViewNext
  <2>1. PICK u \in Users : \/ Enter(u) \/ Go(u) \/ Change(u) \/ TellChange(u)
                           \/ TellNames(u) \/ Leave(u) \/ TellQuit(u) \/ Remove(u)
                           \/ Receive(u)
    BY <1>4 DEF ViewNext
  <2>2. ViewTypeOK' /\ \A w \in Users : Promised(w)'
    BY <1>1, <2>1, EnterTyped, GoTyped, ChangeTyped, TellChangeTyped, TellNamesTyped,
       LeaveTyped, TellQuitTyped, RemoveTyped, ReceiveTyped
  <2> QED BY <1>2, <2>2 DEF ViewInv
<1> QED BY <1>3, <1>4

\* Every message, list and pending answer is well formed, and no queue holds
\* more than its bound, whatever is sent while the client does not read
\* (User::send, OUTBOUND_QUEUE; NetworkState).
THEOREM ViewTyped == ViewSpec => []ViewTypeOK
<1>1. ViewInv => ViewTypeOK BY DEF ViewInv
<1> QED BY <1>1, InitViewInv, NextViewInv, PTL DEF ViewSpec

-----------------------------------------------------------------------------
(***************************************************************************)
(* What a client makes of a queue, by induction on its length: a message   *)
(* that is appended is applied last, one that is read was applied first.   *)
(***************************************************************************)
LEMMA Least ==
    ASSUME NEW T \in SUBSET Nat, T # {}
    PROVE  \E m \in T : \A k \in T : m <= k
<1> DEFINE R == {p \in Nat \X Nat : p[1] < p[2]}
<1>1. IsWellFoundedOn(R, Nat) BY NatLessThanWellFounded DEF OpToRel
<1>2. \E m \in T : \A k \in T : ~ (<<k, m>> \in R)
  <2> HIDE DEF R
  <2> QED BY <1>1, WFMin
<1>3. \A k, m \in Nat : k < m => <<k, m>> \in R OBVIOUS
<1>4. PICK m \in T : \A k \in T : ~ (<<k, m>> \in R) BY <1>2
<1>5. \A k \in T : ~ (k < m)
  <2> HIDE DEF R
  <2> QED BY <1>3, <1>4
<1> QED BY <1>5

\* The lists after each of the first n messages of a queue.
Steps(w, lists, queue, n, f) ==
    f = [i \in 0..n |-> IF i = 0 THEN lists ELSE Apply(w, f[i - 1], queue[i])]

Follows(w, f, queue, n) == \A i \in 1..n : f[i] = Apply(w, f[i - 1], queue[i])

LEMMA StepsExist ==
    ASSUME NEW w, NEW lists, NEW queue, NEW n \in Nat
    PROVE  \E f : Steps(w, lists, queue, n, f)
<1> DEFINE T == {k \in Nat : ~ \E f : Steps(w, lists, queue, k, f)}
<1> SUFFICES ASSUME T # {} PROVE FALSE
  BY DEF T
<1>1. PICK m \in T : \A k \in T : m <= k
  <2>1. T \in SUBSET Nat OBVIOUS
  <2> HIDE DEF T
  <2> QED BY <2>1, Least
<1>2. CASE m = 0
  <2> DEFINE f == [i \in 0..0 |-> lists]
  <2>1. f = [i \in 0..0 |-> IF i = 0 THEN lists ELSE Apply(w, f[i - 1], queue[i])]
    OBVIOUS
  <2>2. Steps(w, lists, queue, 0, f) BY <2>1 DEF Steps
  <2> QED BY <1>2, <2>2
<1>3. CASE m # 0
  <2>1. m - 1 \in Nat /\ m - 1 \notin T BY <1>1, <1>3
  <2>2. PICK f : Steps(w, lists, queue, m - 1, f) BY <2>1
  <2>3. f = [i \in 0..(m - 1) |-> IF i = 0 THEN lists ELSE Apply(w, f[i - 1], queue[i])]
    BY <2>2 DEF Steps
  <2> DEFINE g == [i \in 0..m |-> IF i = m THEN Apply(w, f[m - 1], queue[m]) ELSE f[i]]
  <2>4. \A i \in 0..m :
          g[i] = IF i = 0 THEN lists ELSE Apply(w, g[i - 1], queue[i])
    BY <1>3, <2>1, <2>3
  <2>5. g = [i \in 0..m |-> g[i]] OBVIOUS
  <2>6. g = [i \in 0..m |-> IF i = 0 THEN lists ELSE Apply(w, g[i - 1], queue[i])]
    <3> HIDE DEF g
    <3> QED BY <2>4, <2>5
  <2>7. Steps(w, lists, queue, m, g) BY <2>6 DEF Steps
  <2> QED BY <1>1, <2>7
<1> QED BY <1>2, <1>3

\* What the message before made of the lists decides what the next one does.
LEMMA StepsAgree ==
    ASSUME NEW w, NEW f, NEW g, NEW queue, NEW n \in Nat, f[0] = g[0],
           Follows(w, f, queue, n), Follows(w, g, queue, n)
    PROVE  f[n] = g[n]
<1> DEFINE T == {k \in 0..n : f[k] # g[k]}
<1> SUFFICES ASSUME T # {} PROVE FALSE
  OBVIOUS
<1>1. PICK m \in T : \A k \in T : m <= k
  <2>1. T \in SUBSET Nat OBVIOUS
  <2> HIDE DEF T
  <2> QED BY <2>1, Least
<1>2. m # 0 /\ m \in 1..n OBVIOUS
<1>3. f[m - 1] = g[m - 1] BY <1>1, <1>2
<1> QED BY <1>2, <1>3 DEF Follows

LEMMA AfterSteps ==
    ASSUME NEW w, NEW lists, NEW queue, Len(queue) \in Nat
    PROVE  \E f : Steps(w, lists, queue, Len(queue), f)
                  /\ After(w, lists, queue) = f[Len(queue)]
<1> DEFINE n == Len(queue)
           g == CHOOSE f : f = [i \in 0..n |->
                   IF i = 0 THEN lists ELSE Apply(w, f[i - 1], queue[i])]
<1>1. After(w, lists, queue) = g[n] BY DEF After
<1>2. \E f : f = [i \in 0..n |-> IF i = 0 THEN lists ELSE Apply(w, f[i - 1], queue[i])]
  <2>1. n \in Nat OBVIOUS
  <2> HIDE DEF n, g
  <2>2. PICK f : Steps(w, lists, queue, n, f) BY <2>1, StepsExist
  <2> QED BY <2>2 DEF Steps
<1>3. g = [i \in 0..n |-> IF i = 0 THEN lists ELSE Apply(w, g[i - 1], queue[i])]
  BY <1>2
<1>4. Steps(w, lists, queue, n, g)
  <2> HIDE DEF g
  <2> QED BY <1>3 DEF Steps
<1> QED BY <1>1, <1>4

\* The recursion of Steps, one message at a time.
LEMMA StepsValues ==
    ASSUME NEW w, NEW lists, NEW queue, NEW n \in Nat, NEW f,
           Steps(w, lists, queue, n, f)
    PROVE  /\ f[0] = lists
           /\ Follows(w, f, queue, n)
<1>1. \A i \in 0..n : f[i] = IF i = 0 THEN lists ELSE Apply(w, f[i - 1], queue[i])
  BY DEF Steps
<1> QED BY <1>1 DEF Follows

LEMMA AfterNone ==
    ASSUME NEW w, NEW lists
    PROVE  After(w, lists, <<>>) = lists
<1>1. Len(<<>>) = 0 OBVIOUS
<1>2. PICK f : Steps(w, lists, <<>>, 0, f) /\ After(w, lists, <<>>) = f[0]
  BY <1>1, AfterSteps
<1>3. 0 \in Nat OBVIOUS
<1> QED BY <1>2, <1>3, StepsValues

LEMMA AfterAppend ==
    ASSUME NEW w, NEW lists, NEW S, NEW queue \in Seq(S), NEW msg \in S
    PROVE  After(w, lists, Append(queue, msg)) = Apply(w, After(w, lists, queue), msg)
<1> DEFINE n == Len(queue)
           longer == Append(queue, msg)
<1>1. n \in Nat /\ Len(longer) = n + 1 /\ longer[n + 1] = msg
  OBVIOUS
<1>2. \A i \in 1..n : longer[i] = queue[i] OBVIOUS
<1>3. PICK f : Steps(w, lists, queue, n, f) /\ After(w, lists, queue) = f[n]
  BY <1>1, AfterSteps
<1>4. PICK g : Steps(w, lists, longer, n + 1, g) /\ After(w, lists, longer) = g[n + 1]
  <2>1. n + 1 \in Nat BY <1>1
  <2> HIDE DEF longer
  <2> QED BY <1>1, <2>1, AfterSteps
<1> HIDE DEF n, longer
<1>5. f[0] = lists /\ Follows(w, f, queue, n)
  BY <1>1, <1>3, StepsValues
<1>6. g[0] = lists /\ Follows(w, g, longer, n + 1)
  <2>1. n + 1 \in Nat BY <1>1
  <2> QED BY <2>1, <1>4, StepsValues
<1>7. Follows(w, g, queue, n) BY <1>1, <1>2, <1>6 DEF Follows
<1>8. f[n] = g[n] BY <1>1, <1>5, <1>6, <1>7, StepsAgree
<1>9. g[n + 1] = Apply(w, g[n], msg) BY <1>1, <1>6 DEF Follows
<1> QED BY <1>3, <1>4, <1>8, <1>9 DEF longer

LEMMA AfterHead ==
    ASSUME NEW w, NEW lists, NEW S, NEW queue \in Seq(S), queue # <<>>
    PROVE  After(w, Apply(w, lists, Head(queue)), Tail(queue)) = After(w, lists, queue)
<1> DEFINE n == Len(Tail(queue))
           first == Apply(w, lists, Head(queue))
           tail == Tail(queue)
<1>1. n \in Nat /\ Len(queue) = n + 1 /\ Head(queue) = queue[1]
  OBVIOUS
<1>2. \A i \in 1..n : tail[i] = queue[i + 1] OBVIOUS
<1>3. PICK f : Steps(w, first, tail, n, f) /\ After(w, first, tail) = f[n]
  <2> HIDE DEF first
  <2> QED BY <1>1, AfterSteps
<1>4. PICK g : Steps(w, lists, queue, n + 1, g) /\ After(w, lists, queue) = g[n + 1]
  BY <1>1, AfterSteps
<1> HIDE DEF n, tail, first
<1>5. f[0] = first /\ Follows(w, f, tail, n)
  BY <1>1, <1>3, StepsValues
<1>6. g[0] = lists /\ Follows(w, g, queue, n + 1)
  <2>1. n + 1 \in Nat BY <1>1
  <2> QED BY <2>1, <1>4, StepsValues
<1> DEFINE h == [i \in 0..n |-> g[i + 1]]
<1>7. h[0] = first /\ h[n] = g[n + 1]
  BY <1>1, <1>6 DEF first, Follows
<1>8. Follows(w, h, tail, n)
  <2> SUFFICES ASSUME NEW i \in 1..n PROVE h[i] = Apply(w, h[i - 1], tail[i])
    BY DEF Follows
  <2>1. i \in 0..n /\ i - 1 \in 0..n /\ (i - 1) + 1 = i /\ i + 1 \in 1..(n + 1)
        /\ (i + 1) - 1 = i
    BY <1>1
  <2>2. h[i] = g[i + 1] /\ h[i - 1] = g[i] BY <2>1
  <2>3. g[i + 1] = Apply(w, g[i], queue[i + 1]) BY <1>6, <2>1 DEF Follows
  <2> HIDE DEF h
  <2> QED BY <1>2, <2>2, <2>3
<1>9. f[n] = h[n]
  <2> HIDE DEF h
  <2> QED BY <1>1, <1>5, <1>7, <1>8, StepsAgree
<1> QED BY <1>3, <1>4, <1>7, <1>9 DEF first, tail

-----------------------------------------------------------------------------
(***************************************************************************)
(* What reaches the lists of a client.  A client that reads changes        *)
(* nothing of what it will have seen, and a message that is sent is        *)
(* applied, or spoils the lists it is about.                               *)
(***************************************************************************)
LEMMA ReadSeen ==
    ASSUME ViewTypeOK, NEW u \in Users, Receive(u), NEW w \in Users
    PROVE  Seen(w)' = Seen(w)
<1>1. CASE w = u
  <2>1. /\ inbox[u] \in Seq(Messages) /\ inbox[u] # <<>>
        /\ inbox'[u] = Tail(inbox[u])
        /\ view'[u] = Apply(u, view[u], Head(inbox[u]))
    BY DEF Receive, ViewTypeOK
  <2> QED BY <1>1, <2>1, AfterHead DEF Seen
<1>2. CASE w # u
  BY <1>2 DEF Receive, ViewTypeOK, Seen
<1> QED BY <1>1, <1>2

LEMMA SentSeen ==
    ASSUME ViewTypeOK, NEW to, NEW msg \in Messages, Send(to, msg), view' = view,
           NEW w \in Following \cap users, w \in Users, NEW c \in Chans, c \notin lost'[w]
    PROVE  /\ Seen(w)'[c] = IF w \in to /\ c \in About(msg)
                            THEN Listed(w, Seen(w)[c], msg) ELSE Seen(w)[c]
           /\ \/ c \notin lost[w]
              \/ w \in to /\ msg.kind = "part" /\ msg.who = w /\ msg.chan = c
<1> DEFINE got == {x \in to \cap users \cap Following : Len(inbox[x]) < Outbound}
<1>1. /\ inbox'[w] = IF w \in got THEN Append(inbox[w], msg) ELSE inbox[w]
      /\ lost'[w] = IF w \in got
                    THEN IF msg.kind = "part" /\ msg.who = w THEN lost[w] \ {msg.chan}
                         ELSE lost[w]
                    ELSE IF w \in to \cap users \cap Following THEN lost[w] \cup About(msg)
                    ELSE lost[w]
  BY DEF Send
<1>2. inbox[w] \in Seq(Messages) BY DEF ViewTypeOK
<1>3. CASE w \in got
  <2>1. Seen(w)' = Apply(w, Seen(w), msg)
    <3>1. inbox'[w] = Append(inbox[w], msg) BY <1>1, <1>3
    <3> QED BY <1>2, <3>1, AfterAppend DEF Seen
  <2>2. Seen(w)'[c] = IF c \in About(msg) THEN Listed(w, Seen(w)[c], msg) ELSE Seen(w)[c]
    <3> HIDE DEF got
    <3> QED BY <2>1 DEF Apply
  <2> QED BY <1>1, <1>3, <2>2
<1>4. CASE w \notin got
  <2>1. Seen(w)' = Seen(w) BY <1>1, <1>4 DEF Seen
  <2>2. ~(w \in to /\ c \in About(msg)) /\ c \notin lost[w] BY <1>1, <1>4
  <2> QED BY <2>1, <2>2
<1> QED BY <1>3, <1>4

(***************************************************************************)
(* One worker.  Of the one running handler: whom it has noted, and what    *)
(* the lists of the clients may miss, or keep, until it has told them.     *)
(***************************************************************************)
Removing(u, x) == job[u].at \in RemovalPCs /\ job[u].victim = x /\ x # Nobody
Telling(u, c) == job[u].at \in {"join_tell", "part_tell"} /\ job[u].chan = c
Naming(u, c) == rest[u].send = "names" /\ rest[u].chan = c

MayMiss(u, w, c, x) ==
    (Telling(u, c) /\ x = u) \/ Removing(u, x) \/ (Naming(u, c) /\ w = u)
MayKeep(u, w, c, x) ==
    \/ Telling(u, c) /\ x = u
    \/ Removing(u, x) /\ rest[u].send = "quit" /\ w \in rest[u].to

Right(u, w, c) ==
    LET seen == Seen(w)[c] IN
    IF w \in Mapped(c)
    THEN /\ seen # Absent
         /\ \A x \in Mapped(c) \cap users : x \in seen \/ MayMiss(u, w, c, x)
         /\ \A x \in seen :
              /\ x \in Mapped(c) \/ MayKeep(u, w, c, x)
              /\ Removing(u, x) => MayKeep(u, w, c, x)
    ELSE seen = Absent

\* The list of the client that is removed, that leaves or that joins.
Own(u, w, c) ==
    \/ Removing(u, w)
    \/ At(u, "part_tell") /\ Telling(u, c) /\ w = u
    \/ At(u, "join_tell") /\ Telling(u, c) /\ w = u /\ Seen(w)[c] = Absent
ListOK(u, w, c) == Own(u, w, c) \/ (~(Telling(u, c) /\ w = u) /\ Right(u, w, c))

Noted(u) ==
    /\ job[u].at \in {"join_tell", "part_tell"} =>
          rest[u].to = Mapped(job[u].chan) \cup {u}
    /\ rest[u].send = "names" => job[u] = Idle
    /\ rest[u].send = "quit" => \E v \in Users : Removing(u, v)
Acts(u) ==
    /\ \A v \in Users \ {u} : job[v] = Idle /\ rest[v] = Nothing
    /\ Noted(u)
    /\ \A w \in Following \cap users : \A c \in Chans \ lost[w] : ListOK(u, w, c)

NewAreUnknown ==
    \A w \in Users : conn[w] = "new" =>
        w \notin users /\ inbox[w] = <<>> /\ view[w] = [c \in Chans |-> Absent]
ViewSound ==
    /\ ChanInv /\ ViewInv /\ NewAreUnknown
    /\ workers = 1 /\ Users # {} => \E u \in Users : Acts(u)

LEMMA FollowingTyped ==
    ASSUME TypeOK
    PROVE  Following \in SUBSET Users /\ users \in SUBSET Users
BY ViewAssumption DEF TypeOK, Following

LEMMA MappedTyped ==
    ASSUME TypeOK, NEW c \in Chans
    PROVE  Mapped(c) \in SUBSET Users
BY DEF Mapped, TypeOK

\* Nothing is owed by one who is in no handler and has nothing to send.
LEMMA NothingOwed ==
    ASSUME NEW u, job[u] = Idle, rest[u] = Nothing
    PROVE  /\ \A c : ~Telling(u, c) /\ ~Naming(u, c)
           /\ \A x : ~Removing(u, x)
           /\ \A w, c, x : ~MayMiss(u, w, c, x) /\ ~MayKeep(u, w, c, x)
           /\ \A w, c : ~Own(u, w, c)
<1>1. /\ \A c : ~Telling(u, c) /\ ~Naming(u, c)
      /\ \A x : ~Removing(u, x)
  BY NothingRests DEF Telling, Naming, Removing, RemovalPCs, Idle
<1> QED BY <1>1 DEF MayMiss, MayKeep, Own

\* When nobody is in a handler, it may be anyone's turn.
LEMMA TurnOfAnyone ==
    ASSUME TypeOK, NEW o \in Users, Acts(o), NEW u \in Users,
           \A v \in Users : job[v] = Idle /\ rest[v] = Nothing
    PROVE  Acts(u)
<1>1. Noted(u) BY NothingRests DEF Noted, Idle
<1>2. ASSUME NEW w \in Following \cap users, NEW c \in Chans \ lost[w]
      PROVE  ListOK(u, w, c)
  <2>1. ListOK(o, w, c) BY DEF Acts
  <2>2. Right(o, w, c) BY <2>1, NothingOwed DEF ListOK
  <2>3. Right(u, w, c) BY <2>2, NothingOwed DEF Right
  <2> QED BY <2>3, NothingOwed DEF ListOK
<1> QED BY <1>1, <1>2 DEF Acts

LEMMA FreeOccupied ==
    ASSUME workers = 1, NEW u \in Users, Free(u)
    PROVE  \A v \in Users : job[v] = Idle /\ rest[v] = Nothing
<1>1. Occupied \in SUBSET Users BY DEF Occupied, Busy
<1>2. IsFiniteSet(Occupied) BY <1>1, ChannelAssumption, FS_Subset
<1>3. Cardinality(Occupied) \in Nat BY <1>2, FS_CardinalityType
<1>4. Cardinality(Occupied) = 0 BY <1>3 DEF Free
<1>5. Occupied = {} BY <1>2, <1>4, FS_EmptySet
<1> QED BY <1>5 DEF Occupied, Busy

\* Who takes a step is the one that acts.
LEMMA ViewActor ==
    ASSUME ViewSound, workers = 1, NEW u \in Users,
           Free(u) \/ job[u] # Idle \/ rest[u] # Nothing
    PROVE  Acts(u) /\ (job[u] # Idle => Only(u))
<1>1. TypeOK BY DEF ViewSound, ViewInv
<1>2. PICK o \in Users : Acts(o) BY DEF ViewSound
<1>3. Acts(u)
  <2>1. CASE job[u] # Idle \/ rest[u] # Nothing
    <3>1. u = o BY <1>2, <2>1 DEF Acts
    <3> QED BY <1>2, <3>1
  <2>2. CASE Free(u) BY <1>1, <1>2, <2>2, FreeOccupied, TurnOfAnyone
  <2> QED BY <2>1, <2>2
<1>4. job[u] # Idle => Only(u) BY Actor DEF ViewSound
<1> QED BY <1>3, <1>4

(***************************************************************************)
(* One step of the one running handler.                                    *)
(***************************************************************************)
\* A list that nothing is sent to, and that may be as wrong as before.
LEMMA RightKept ==
    ASSUME NEW u, NEW w, NEW c, Right(u, w, c),
           Mapped(c)' = Mapped(c), users' = users, Seen(w)'[c] = Seen(w)[c],
           \A x : /\ MayMiss(u, w, c, x) => MayMiss(u, w, c, x)'
                  /\ MayKeep(u, w, c, x) => MayKeep(u, w, c, x)'
                  /\ Removing(u, x)' => Removing(u, x)
    PROVE  Right(u, w, c)'
BY DEF Right

\* Steps that change no channel and send nothing.
LEMMA QuietActs ==
    ASSUME NEW u \in Users, Acts(u), UNCHANGED <<workers, users, inbox, view, lost>>,
           \A v \in Users \ {u} : job'[v] = Idle /\ rest'[v] = rest[v],
           job[u].at \notin {"join_tell", "part_tell"},
           job'[u].at \notin {"join_tell", "part_tell"},
           \A x : Removing(u, x)' <=> Removing(u, x),
           rest[u].send # "names",
           rest'[u] = rest[u] \/ (rest'[u] = Nothing /\ \A x : ~Removing(u, x)),
           \A c \in Chans : Mapped(c)' = Mapped(c)
    PROVE  Acts(u)'
<1>1. \A c : ~Telling(u, c) /\ ~Telling(u, c)' BY DEF Telling
<1>2. rest'[u].send # "names" BY NothingRests
<1>3. \A c : ~Naming(u, c) /\ ~Naming(u, c)' BY <1>2 DEF Naming
<1>4. Noted(u)' BY <1>2, NothingRests DEF Noted, Acts
<1>5. ASSUME NEW w \in Following \cap users, NEW c \in Chans \ lost[w]
      PROVE  ListOK(u, w, c)'
  <2>1. ListOK(u, w, c) BY DEF Acts
  <2>2. Own(u, w, c) <=> Removing(u, w) BY <1>1 DEF Own
  <2>3. CASE Removing(u, w) BY <2>3 DEF ListOK, Own
  <2>4. CASE ~Removing(u, w)
    <3>1. Right(u, w, c) BY <2>1, <2>2, <2>4 DEF ListOK
    <3>2. Seen(w)'[c] = Seen(w)[c] BY DEF Seen
    <3>3. \A x : MayMiss(u, w, c, x) => MayMiss(u, w, c, x)' BY <1>1, <1>3 DEF MayMiss
    <3>4. \A x : MayKeep(u, w, c, x) => MayKeep(u, w, c, x)' BY <1>1 DEF MayKeep
    <3>5. Right(u, w, c)' BY <3>1, <3>2, <3>3, <3>4, RightKept
    <3> QED BY <1>1, <3>5 DEF ListOK
  <2> QED BY <2>3, <2>4
<1>6. Following' = Following BY DEF Following
<1> QED BY <1>4, <1>5, <1>6 DEF Acts

\* What every step of a handler leaves as it is for the others.
LEMMA OthersIdle ==
    ASSUME TypeOK, NEW u \in Users, Acts(u), NEW j, job' = [job EXCEPT ![u] = j]
    PROVE  job'[u] = j /\ \A v \in Users \ {u} : job'[v] = Idle
BY DEF TypeOK, Acts

LEMMA LookActs ==
    ASSUME ViewSound, NEW u \in Users, Acts(u), Free(u), NEW c \in Chans,
           JoinLook(u, c) \/ PartLook(u, c) \/ ModeLook(u, c) \/ SpeakLook(u, c), SendsNothing
    PROVE  Acts(u)'
<1>1. UNCHANGED <<workers, users, rest, inbox, view, lost>>
  BY DEF JoinLook, PartLook, ModeLook, SpeakLook, SendsNothing, cvars
<1>2. job[u] = Idle /\ rest[u] = Nothing
  BY DEF JoinLook, PartLook, ModeLook, SpeakLook, Begin, Free
<1>3. PICK j : Do(u, j) /\ j.at \in LockPCs
  <2>1. CASE JoinLook(u, c)
    <3>1. \E o : Do(u, [at |-> "join_lock", chan |-> c, obj |-> o])
      BY <2>1 DEF JoinLook
    <3> QED BY <3>1 DEF LockPCs
  <2>2. CASE PartLook(u, c) BY <2>2 DEF PartLook, LockPCs
  <2>3. CASE ModeLook(u, c) BY <2>3 DEF ModeLook, LockPCs
  <2>4. CASE SpeakLook(u, c) BY <2>4 DEF SpeakLook, LockPCs
  <2> QED BY <2>1, <2>2, <2>3, <2>4
<1>4. job'[u] = j /\ \A v \in Users \ {u} : job'[v] = Idle
  BY <1>3, OthersIdle DEF Do, ViewSound, ViewInv
<1>5. \A d \in Chans : Mapped(d)' = Mapped(d) BY LookRooms DEF ViewSound, ChanInv
<1>6. /\ job[u].at \notin {"join_tell", "part_tell"}
      /\ job'[u].at \notin {"join_tell", "part_tell"}
      /\ \A x : ~Removing(u, x) /\ ~Removing(u, x)'
  BY <1>2, <1>3, <1>4 DEF Idle, LockPCs, Removing, RemovalPCs
<1>7. rest[u].send # "names" BY <1>2, NothingRests
<1> QED BY <1>1, <1>4, <1>5, <1>6, <1>7, QuietActs

\* A new client has an empty view of the channels, and is in none.
LEMMA ConnectActs ==
    ASSUME ViewSound, NEW u \in Users, Acts(u), Free(u), Connect(u), SendsNothing
    PROVE  Acts(u)'
<1>1. /\ UNCHANGED <<workers, job, channels, members, rest, inbox, view, lost>>
      /\ users' = users \cup {u} /\ conn[u] = "new"
  BY DEF Connect, SendsNothing, cvars
<1>2. TypeOK BY DEF ViewSound, ViewInv
<1>3. job[u] = Idle /\ rest[u] = Nothing
  BY <1>1 DEF Free, ViewSound, ChanInv, Sound, NewAreNowhere
<1>4. \A c \in Chans : Mapped(c)' = Mapped(c) /\ u \notin Mapped(c)
  BY <1>1, <1>2 DEF Mapped, ViewSound, ChanInv, Sound, NewAreNowhere, TypeOK
<1>5. Noted(u)' BY <1>1, <1>3, NothingRests DEF Noted, Idle
<1>6. ASSUME NEW w \in Following \cap users', NEW c \in Chans \ lost[w]
      PROVE  ListOK(u, w, c)'
  <2>1. Seen(w)' = Seen(w) BY <1>1 DEF Seen
  <2>2. CASE w = u
    <3>1. Seen(u) = [d \in Chans |-> Absent]
      BY <1>1, AfterNone DEF ViewSound, NewAreUnknown, Seen
    <3>2. Right(u, w, c)' BY <1>4, <2>1, <2>2, <3>1 DEF Right
    <3> QED BY <1>1, <1>3, <3>2 DEF ListOK, Telling, Idle
  <2>3. CASE w # u
    <3>1. ListOK(u, w, c) BY <1>1, <2>3 DEF Acts
    <3>2. Right(u, w, c) BY <1>3, <3>1, NothingOwed DEF ListOK
    <3>3. \A x : ~MayMiss(u, w, c, x) /\ ~MayKeep(u, w, c, x) /\ ~Removing(u, x)
      BY <1>3, NothingOwed
    <3>4. \A x : ~Removing(u, x)' BY <1>1, <3>3 DEF Removing
    <3>5. Right(u, w, c)' BY <1>1, <1>4, <2>1, <3>2, <3>3, <3>4 DEF Right
    <3> QED BY <1>1, <1>3, <3>5 DEF ListOK, Telling, Idle
  <2> QED BY <2>2, <2>3
<1>7. Following' = Following BY <1>1 DEF Following
<1> QED BY <1>1, <1>5, <1>6, <1>7 DEF Acts

\* Locked sections that change no list of members, messages, and the removal
\* of channels that are empty.
LEMMA GoActs ==
    ASSUME ViewSound, TypeOK', NEW u \in Users, Acts(u), Only(u), SendsNothing,
           \/ ModeLock(u) \/ SpeakLock(u) \/ SpeakTell(u)
           \/ DropLook(u) \/ DropRemove(u)
    PROVE  Acts(u)'
<1>1. UNCHANGED <<workers, users, rest, inbox, view, lost>>
  BY DEF ModeLock, SpeakLock, SpeakTell, DropLook, DropRemove, SendsNothing, cvars
<1>2. TypeOK /\ Sound /\ job[u] \in Jobs BY DEF ViewSound, ViewInv, ChanInv, TypeOK
<1>3. /\ job[u] # Idle
      /\ job[u].at \in {"mode_lock", "msg_lock", "msg_tell", "drop_look", "drop_remove"}
  BY DEF ModeLock, SpeakLock, SpeakTell, DropLook, DropRemove, At, Idle
<1>4. PICK j : /\ Do(u, j)
               /\ \/ job[u].at \notin RemovalPCs /\ (j = Idle \/ j.at = "msg_tell")
                  \/ /\ job[u].at \in RemovalPCs
                     /\ \/ \E todo : j = AfterDrops(todo, job[u].victim)
                        \/ j.at = "drop_remove" /\ j.victim = job[u].victim
  <2>1. CASE ModeLock(u) \/ SpeakLock(u) \/ SpeakTell(u)
    BY <2>1 DEF ModeLock, SpeakLock, SpeakTell, At, RemovalPCs
  <2>2. CASE DropLook(u) BY <2>2 DEF DropLook, At, RemovalPCs
  <2>3. CASE DropRemove(u) BY <2>3 DEF DropRemove, At, RemovalPCs
  <2> QED BY <2>1, <2>2, <2>3
<1>5. job'[u] = j /\ \A v \in Users \ {u} : job'[v] = Idle
  BY <1>2, <1>4, OthersIdle DEF Do
<1>6. job'[u].at \notin {"join_tell", "part_tell"}
  BY <1>4, <1>5 DEF AfterDrops, Idle
<1>7. \A x : Removing(u, x)' <=> Removing(u, x)
  <2>1. CASE job[u].at \notin RemovalPCs
    BY <1>4, <1>5, <2>1 DEF Removing, RemovalPCs, Idle
  <2>2. CASE job[u].at \in RemovalPCs
    BY <1>4, <1>5, <2>2 DEF Removing, RemovalPCs, AfterDrops, Idle
  <2> QED BY <2>1, <2>2
<1>8. \A c \in Chans : Mapped(c)' = Mapped(c)
  <2>1. CASE ModeLock(u) \/ SpeakLock(u)
    <3>1. channels' = channels /\ \E opers : Update(members, opers)
      BY <2>1 DEF ModeLock, SpeakLock
    <3> QED BY <1>2, <3>1, UpdateSame
  <2>2. CASE SpeakTell(u) \/ DropLook(u)
    BY <2>2 DEF SpeakTell, DropLook, Mapped
  <2>3. CASE DropRemove(u)
    <3>1. Mapped(job[u].chan) = {} /\ job[u].chan \in Chans
      BY <1>2, <2>3, JobLocals DEF DropRemove, At, Only, InOrder
    <3> QED BY <1>2, <2>3, <3>1, DropRooms DEF DropRemove
  <2> QED BY <2>1, <2>2, <2>3
<1>9. rest[u].send # "names" BY <1>3 DEF Acts, Noted
<1> QED BY <1>1, <1>3, <1>5, <1>6, <1>7, <1>8, <1>9, QuietActs DEF Acts

\* The walk takes the victim off a channel: the others may list it until its
\* QUIT is told, and do no more if it was.
LEMMA PurgeActs ==
    ASSUME ViewSound, NEW u \in Users, Acts(u), SendsNothing, Purge(u)
    PROVE  Acts(u)'
<1> DEFINE v == job[u].victim
           Emptied(c) == job[u].emptied \cup
               (IF v \in Mapped(c) /\ members[channels[c]] = {v} THEN {c} ELSE {})
           Then(c) == IF job[u].todo \ {c} = {} THEN AfterDrops(Emptied(c), v)
                      ELSE PurgeJob(job[u].todo \ {c}, Emptied(c), v)
<1>1. /\ UNCHANGED <<workers, users, channels, rest, inbox, view, lost>>
      /\ job[u].at = "purge"
  BY DEF Purge, At, SendsNothing, cvars
<1>2. TypeOK /\ Sound /\ job[u] \in Jobs BY DEF ViewSound, ViewInv, ChanInv, TypeOK
<1>3. v \in Users /\ v # Nobody /\ job[u].todo \subseteq Chans
  BY <1>1, <1>2, JobLocals, ChannelAssumption
<1>4. PICK c \in job[u].todo :
        /\ IF v \in Mapped(c)
           THEN members' = [members EXCEPT ![channels[c]] = @ \ {v}]
           ELSE members' = members
        /\ Do(u, Then(c))
  BY DEF Purge
<1>5. PICK j : Do(u, j) /\ j.at \in {"purge", "drop_look", "remove"} /\ j.victim = v
  BY <1>3, <1>4 DEF AfterDrops, PurgeJob
<1>6. job'[u] = j /\ \A w \in Users \ {u} : job'[w] = Idle
  BY <1>2, <1>5, OthersIdle DEF Do
<1>7. /\ \A d : ~Telling(u, d) /\ ~Telling(u, d)'
      /\ \A x : Removing(u, x) <=> x = v
      /\ \A x : Removing(u, x)' <=> x = v
  BY <1>1, <1>3, <1>5, <1>6 DEF Telling, Removing, RemovalPCs
<1>8. \A d \in Chans : Mapped(d)' = IF d = c THEN Mapped(d) \ {v} ELSE Mapped(d)
  BY <1>1, <1>2, <1>3, <1>4, VisitRooms
<1>9. Noted(u)'
  <2>1. rest[u].send # "names" BY <1>1 DEF Acts, Noted, Idle
  <2> QED BY <1>1, <1>3, <1>5, <1>6, <1>7, <2>1 DEF Noted
<1>10. ASSUME NEW w \in Following \cap users, NEW d \in Chans \ lost[w]
       PROVE  ListOK(u, w, d)'
  <2>1. ListOK(u, w, d) BY DEF Acts
  <2>2. CASE w = v BY <1>7, <2>2 DEF ListOK, Own
  <2>3. CASE w # v
    <3>1. Right(u, w, d) BY <1>7, <2>1, <2>3 DEF ListOK, Own
    <3>2. Seen(w)'[d] = Seen(w)[d] BY <1>1 DEF Seen
    <3>3. \A x : /\ MayMiss(u, w, d, x)' <=> MayMiss(u, w, d, x)
                 /\ MayKeep(u, w, d, x)' <=> MayKeep(u, w, d, x)
      BY <1>1, <1>7 DEF MayMiss, MayKeep, Naming
    <3>4. w \in Mapped(d)' <=> w \in Mapped(d) BY <1>8, <2>3
    <3>5. Right(u, w, d)'
      BY <1>1, <1>7, <1>8, <3>1, <3>2, <3>3, <3>4 DEF Right
    <3> QED BY <1>7, <3>5 DEF ListOK
  <2> QED BY <2>2, <2>3
<1>11. Following' = Following BY <1>1 DEF Following
<1> QED BY <1>1, <1>6, <1>9, <1>10, <1>11 DEF Acts

\* Under the lock the joiner enters the channel and notes the members, or the
\* member leaves and notes them; nobody has been told yet.
LEMMA ChangeActs ==
    ASSUME ViewSound, TypeOK', NEW u \in Users, Acts(u), Only(u), Change(u)
    PROVE  Acts(u)'
<1> DEFINE o == job[u].obj
           k == job[u].chan
<1>1. /\ UNCHANGED <<workers, users, channels, inbox, view, lost>>
      /\ job[u].at \in {"join_lock", "part_lock"} /\ job[u] # Idle
  BY DEF Change, JoinLock, PartLock, At, Idle
<1>2. TypeOK /\ Sound /\ job[u] \in Jobs /\ rest \in [Users -> Rests]
  BY DEF ViewSound, ViewInv, ViewTypeOK, ChanInv, TypeOK
<1>3. o \in Objs /\ k \in Chans BY <1>1, <1>2, JobLocals DEF LockPCs
<1>4. channels[k] = o /\ Mapped(k) = members[o] /\ members[o] \in SUBSET Users
  <2>1. channels[k] = o BY <1>1 DEF Only, InOrder
  <2> QED BY <1>2, <1>3, <2>1, ChannelAssumption DEF Mapped, TypeOK
<1>5. /\ rest[u].send # "names" /\ rest[u].send # "quit"
      /\ \A c : ~Telling(u, c) /\ \A x : ~Removing(u, x)
  BY <1>1 DEF Acts, Noted, Telling, Removing, RemovalPCs
<1>6. \A v \in Users \ {u} : rest'[v] = rest[v]
  BY <1>2 DEF Change, Rest
<1>7. CASE (JoinLock(u) /\ u \in members[o]) \/ (PartLock(u) /\ u \notin members[o])
  <2>1. Do(u, Idle) /\ Update(members, ops) /\ Rest(u, Nothing)
    BY <1>7, <1>1 DEF Change, JoinLock, PartLock, At
  <2>2. job'[u] = Idle /\ \A v \in Users \ {u} : job'[v] = Idle
    BY <1>2, <2>1, OthersIdle DEF Do
  <2>3. rest'[u] = Nothing BY <1>2, <2>1 DEF Rest
  <2>4. \A c \in Chans : Mapped(c)' = Mapped(c) BY <1>1, <1>2, <2>1, UpdateSame
  <2>5. /\ job'[u].at \notin {"join_tell", "part_tell"}
        /\ \A x : ~Removing(u, x)'
    BY <2>2 DEF Removing, RemovalPCs, Idle
  <2> QED BY <1>1, <1>5, <1>6, <2>2, <2>3, <2>4, <2>5, QuietActs
<1>8. ASSUME NEW now \in SUBSET Users, NEW p \in {"join_tell", "part_tell"},
             now = (IF p = "join_tell" THEN members[o] \cup {u} ELSE members[o] \ {u}),
             p = "join_tell" => u \notin members[o],
             Do(u, [at |-> p, chan |-> k]),
             Rest(u, [send |-> "change", to |-> now \cup {u}]),
             NEW opers, Update([members EXCEPT ![o] = now], opers)
      PROVE  Acts(u)'
  <2>1. /\ job'[u] = [at |-> p, chan |-> k]
        /\ \A v \in Users \ {u} : job'[v] = Idle
    BY <1>2, <1>8, OthersIdle DEF Do
  <2>2. rest'[u] = [send |-> "change", to |-> now \cup {u}] BY <1>2, <1>8 DEF Rest
  <2>3. \A c \in Chans : Mapped(c)' = IF c = k THEN now ELSE Mapped(c)
    BY <1>1, <1>2, <1>3, <1>4, <1>8, LockRooms
  <2>4. /\ \A c : Telling(u, c)' <=> c = k
        /\ \A x : ~Removing(u, x)'
        /\ \A c : ~Naming(u, c) /\ ~Naming(u, c)'
    BY <1>5, <1>8, <2>1, <2>2 DEF Telling, Removing, RemovalPCs, Naming
  <2>5. Noted(u)' BY <1>3, <2>1, <2>2, <2>3 DEF Noted
  <2>6. ASSUME NEW w \in Following \cap users, NEW c \in Chans \ lost[w]
        PROVE  ListOK(u, w, c)'
    <3>1. ListOK(u, w, c) /\ Seen(w)' = Seen(w) BY <1>1 DEF Acts, Seen
    <3>2. Right(u, w, c) BY <1>5, <3>1 DEF ListOK, Own
    <3>3. \A x : ~MayMiss(u, w, c, x) /\ ~MayKeep(u, w, c, x)
      BY <1>5, <2>4 DEF MayMiss, MayKeep
    <3>4. CASE c # k
      <4>1. Right(u, w, c)' BY <1>1, <1>5, <2>3, <2>4, <3>1, <3>2, <3>3, <3>4, RightKept
      <4> QED BY <2>4, <3>4, <4>1 DEF ListOK
    <3>5. CASE c = k /\ w = u
      <4>1. p = "join_tell" => Seen(u)[k] = Absent
        BY <1>4, <1>8, <3>2, <3>5 DEF Right
      <4> QED BY <1>8, <2>1, <2>4, <3>1, <3>5, <4>1 DEF ListOK, Own, At
    <3>6. CASE c = k /\ w # u
      <4>1. \A x : /\ MayMiss(u, w, c, x)' <=> x = u
                   /\ MayKeep(u, w, c, x)' <=> x = u
        BY <2>4, <3>6 DEF MayMiss, MayKeep
      <4>2. /\ w \in Mapped(c)' <=> w \in Mapped(c)
            /\ \A x : x # u => (x \in Mapped(c)' <=> x \in Mapped(c))
        BY <1>4, <1>8, <2>3, <3>6
      <4>3. Right(u, w, c)' BY <1>1, <2>4, <3>1, <3>2, <3>3, <4>1, <4>2 DEF Right
      <4> QED BY <3>6, <4>3 DEF ListOK
    <3> QED BY <3>4, <3>5, <3>6
  <2>7. Following' = Following BY <1>1 DEF Following
  <2> QED BY <1>1, <1>6, <2>1, <2>5, <2>6, <2>7 DEF Acts
<1>9. CASE JoinLock(u) /\ u \notin members[o]
  <2> DEFINE now == members[o] \cup {u}
  <2>1. /\ Do(u, [at |-> "join_tell", chan |-> k])
        /\ \E opers : Update([members EXCEPT ![o] = now], opers)
    <3>1. [members EXCEPT ![o] = @ \cup {u}] = [members EXCEPT ![o] = members[o] \cup {u}]
      OBVIOUS
    <3> QED BY <1>9, <3>1 DEF JoinLock
  <2>2. Rest(u, [send |-> "change", to |-> now]) /\ now \cup {u} = now
    BY <1>1, <1>9 DEF Change, JoinLock, PartLock, At
  <2>3. now \in SUBSET Users BY <1>4
  <2> QED BY <1>8, <1>9, <2>1, <2>2, <2>3
<1>10. CASE PartLock(u) /\ u \in members[o]
  <2> DEFINE now == members[o] \ {u}
  <2>1. /\ Do(u, [at |-> "part_tell", chan |-> k])
        /\ \E opers : Update([members EXCEPT ![o] = now], opers)
    <3>1. [members EXCEPT ![o] = @ \ {u}] = [members EXCEPT ![o] = members[o] \ {u}]
      OBVIOUS
    <3> QED BY <1>10, <3>1 DEF PartLock
  <2>2. Rest(u, [send |-> "change", to |-> members[o]]) /\ now \cup {u} = members[o]
    BY <1>1, <1>10 DEF Change, JoinLock, PartLock, At
  <2>3. now \in SUBSET Users BY <1>4
  <2> QED BY <1>8, <1>10, <2>1, <2>2, <2>3
<1> QED BY <1>7, <1>9, <1>10 DEF Change

\* A message about a member that some clients have not heard of yet.
LEMMA JoinedRight ==
    ASSUME NEW w, NEW nicks, NEW who
    PROVE  /\ nicks # Absent => Joined(w, nicks, who) = nicks \cup {who}
           /\ nicks = Absent /\ who # w => Joined(w, nicks, who) = Absent
           /\ nicks = Absent /\ who = w => Joined(w, nicks, who) = {w}
           /\ who # w /\ nicks # Absent => Departed(w, nicks, who) = nicks \ {who}
           /\ nicks = Absent \/ who = w => Departed(w, nicks, who) = Absent
BY DEF Joined, Departed

\* What is sent about a list that was right makes lists of users.
LEMMA RightTyped ==
    ASSUME TypeOK, NEW u \in Users, NEW w, NEW c \in Chans, Right(u, w, c), w \in Mapped(c),
           \A x : MayKeep(u, w, c, x) => x \in Users
    PROVE  Seen(w)[c] \subseteq Users
BY MappedTyped DEF Right

LEMMA TellJoinActs ==
    ASSUME ViewSound, NEW u \in Users, Acts(u), Only(u), JoinTell(u),
           Send(rest[u].to, Join(u, job[u].chan)), view' = view,
           Rest(u, [send |-> "names", chan |-> job[u].chan])
    PROVE  Acts(u)'
<1>0. PICK k, msg : k = job[u].chan /\ msg = Join(u, k) OBVIOUS
<1>1. UNCHANGED <<workers, users, channels, members>> /\ At(u, "join_tell") /\ Do(u, Idle)
  BY DEF JoinTell
<1>2. TypeOK /\ ViewTypeOK /\ job[u] \in Jobs /\ rest \in [Users -> Rests]
  BY DEF ViewSound, ViewInv, ViewTypeOK, TypeOK
<1>3. k \in Chans /\ u \in Mapped(k) /\ rest[u].to = Mapped(k) \cup {u}
  BY <1>0, <1>1, <1>2, JobLocals DEF Only, InOrder, At, Acts, Noted
<1>4. /\ msg \in Messages /\ msg.kind = "join" /\ About(msg) = {k}
      /\ \A w, nicks : Listed(w, nicks, msg) = Joined(w, nicks, u)
  BY <1>0, <1>3 DEF Join, Messages, About, Listed
<1>5. job'[u] = Idle /\ \A v \in Users \ {u} : job'[v] = Idle
  BY <1>1, <1>2, OthersIdle DEF Do
<1>6. /\ rest'[u] = [send |-> "names", chan |-> k]
      /\ \A v \in Users \ {u} : rest'[v] = rest[v]
  BY <1>0, <1>2 DEF Rest
<1>7. /\ \A c : Telling(u, c) <=> c = k
      /\ \A c : ~Telling(u, c)' /\ ~Naming(u, c)
      /\ \A x : ~Removing(u, x) /\ ~Removing(u, x)'
      /\ \A c : Naming(u, c)' <=> c = k
  BY <1>0, <1>1, <1>5, <1>6 DEF Telling, Naming, Removing, RemovalPCs, At, Idle, Acts, Noted
<1>8. Noted(u)' BY <1>5, <1>6 DEF Noted, Idle
<1>9. \A c \in Chans : Mapped(c)' = Mapped(c) BY <1>1 DEF Mapped
<1>10. ASSUME NEW w \in Following \cap users, w \in Users, NEW c \in Chans \ lost'[w]
       PROVE  ListOK(u, w, c)'
  <2>1. /\ Seen(w)'[c] = IF w \in rest[u].to /\ c = k THEN Joined(w, Seen(w)[c], u)
                         ELSE Seen(w)[c]
        /\ c \notin lost[w]
    <3>1. Send(rest[u].to, msg) BY <1>0
    <3>2. /\ Seen(w)'[c] = IF w \in rest[u].to /\ c \in About(msg)
                            THEN Listed(w, Seen(w)[c], msg) ELSE Seen(w)[c]
          /\ \/ c \notin lost[w]
             \/ w \in rest[u].to /\ msg.kind = "part" /\ msg.who = w /\ msg.chan = c
      <4>1. w \in Following \cap users /\ w \in Users /\ c \in Chans /\ c \notin lost'[w]
        BY <1>10
      <4>2. msg \in Messages BY <1>4
      <4>3. ViewTypeOK BY <1>2
      <4> QED BY <4>1, <4>2, <4>3, <3>1, SentSeen
    <3> QED BY <1>4, <3>2
  <2>2. ListOK(u, w, c) BY <2>1 DEF Acts
  <2>3. \A x : MayKeep(u, w, c, x) => c = k /\ x = u BY <1>7 DEF MayKeep
  <2>4. CASE c # k
    <3>1. Right(u, w, c) BY <1>7, <2>2, <2>4 DEF ListOK, Own
    <3>2. \A x : ~MayMiss(u, w, c, x) BY <1>7, <2>4 DEF MayMiss
    <3>3. Right(u, w, c)' BY <1>1, <1>7, <1>9, <2>1, <2>3, <2>4, <3>1, <3>2, RightKept
    <3> QED BY <1>7, <3>3 DEF ListOK
  <2>5. CASE c = k /\ w = u
    <3>1. Seen(u)[k] = Absent BY <1>1, <1>7, <2>2, <2>5 DEF ListOK, Own, At
    <3>2. Seen(u)'[k] = {u} BY <1>3, <2>1, <2>5, <3>1, JoinedRight
    <3>3. {u} # Absent BY ViewAssumption
    <3>4. \A x : MayMiss(u, u, k, x)' BY <1>7 DEF MayMiss
    <3>5. Right(u, u, k)' BY <1>3, <1>7, <1>9, <3>2, <3>3, <3>4 DEF Right
    <3> QED BY <1>7, <2>5, <3>5 DEF ListOK
  <2>6. CASE c = k /\ w # u
    <3>1. Right(u, w, k) BY <1>1, <1>7, <2>2, <2>6 DEF ListOK, Own
    <3>2. CASE w \notin Mapped(k)
      <4>1. Seen(w)'[k] = Absent BY <1>3, <2>1, <2>6, <3>1, <3>2 DEF Right
      <4>2. Right(u, w, k)' BY <1>3, <1>9, <3>2, <4>1 DEF Right
      <4> QED BY <1>7, <2>6, <4>2 DEF ListOK
    <3>3. CASE w \in Mapped(k)
      <4>1. Seen(w)[k] # Absent /\ Seen(w)[k] \subseteq Users
        BY <1>2, <1>3, <2>3, <2>6, <3>1, <3>3, RightTyped DEF Right
      <4>2. Seen(w)'[k] = Seen(w)[k] \cup {u}
        BY <1>3, <2>1, <2>6, <3>3, <4>1, JoinedRight
      <4>3. Seen(w)[k] \cup {u} # Absent BY <4>1, ViewAssumption
      <4>4. \A x : MayMiss(u, w, k, x) => x = u BY <1>7, <2>6 DEF MayMiss
      <4>5. Right(u, w, k)'
        BY <1>1, <1>3, <1>7, <1>9, <2>3, <2>6, <3>1, <3>3, <4>2, <4>3, <4>4 DEF Right
      <4> QED BY <1>7, <2>6, <4>5 DEF ListOK
    <3> QED BY <3>2, <3>3
  <2> QED BY <2>4, <2>5, <2>6
<1>11. Following' = Following /\ Following \subseteq Users
  BY <1>1, <1>2, FollowingTyped DEF Following
<1> QED BY <1>1, <1>5, <1>6, <1>8, <1>10, <1>11 DEF Acts

LEMMA TellPartActs ==
    ASSUME ViewSound, NEW u \in Users, Acts(u), Only(u), PartTell(u),
           Send(rest[u].to, Part(u, job[u].chan)), view' = view, Rest(u, Nothing)
    PROVE  Acts(u)'
<1>0. PICK k, msg : k = job[u].chan /\ msg = Part(u, k) OBVIOUS
<1>1. /\ UNCHANGED <<workers, users, channels, members>> /\ At(u, "part_tell")
      /\ Do(u, AfterDrops({k}, Nobody))
  BY <1>0 DEF PartTell
<1>2. TypeOK /\ ViewTypeOK /\ job[u] \in Jobs /\ rest \in [Users -> Rests]
  BY DEF ViewSound, ViewInv, ViewTypeOK, TypeOK
<1>3. k \in Chans /\ u \notin Mapped(k) /\ rest[u].to = Mapped(k) \cup {u}
  BY <1>0, <1>1, <1>2, JobLocals DEF Only, InOrder, At, Acts, Noted
<1>4. /\ msg \in Messages /\ msg.kind = "part" /\ msg.who = u /\ msg.chan = k
      /\ About(msg) = {k}
      /\ \A w, nicks : Listed(w, nicks, msg) = Departed(w, nicks, u)
  BY <1>0, <1>3 DEF Part, Messages, About, Listed
<1>5. /\ job'[u] = [at |-> "drop_look", todo |-> {k}, victim |-> Nobody]
      /\ \A v \in Users \ {u} : job'[v] = Idle
  BY <1>1, <1>2, OthersIdle DEF Do, AfterDrops
<1>6. /\ rest'[u] = Nothing
      /\ \A v \in Users \ {u} : rest'[v] = rest[v]
  BY <1>0, <1>2 DEF Rest
<1>7. /\ \A c : Telling(u, c) <=> c = k
      /\ \A c : ~Telling(u, c)' /\ ~Naming(u, c) /\ ~Naming(u, c)'
      /\ \A x : ~Removing(u, x) /\ ~Removing(u, x)'
  BY <1>0, <1>1, <1>5, <1>6, NothingRests
  DEF Telling, Naming, Removing, RemovalPCs, At, Idle, Acts, Noted
<1>8. Noted(u)' BY <1>5, <1>6, NothingRests DEF Noted
<1>9. \A c \in Chans : Mapped(c)' = Mapped(c) BY <1>1 DEF Mapped
<1>10. ASSUME NEW w \in Following \cap users, w \in Users, NEW c \in Chans \ lost'[w]
       PROVE  ListOK(u, w, c)'
  <2>1. /\ Seen(w)'[c] = IF w \in rest[u].to /\ c = k THEN Departed(w, Seen(w)[c], u)
                         ELSE Seen(w)[c]
        /\ c \notin lost[w] \/ (c = k /\ w = u)
    <3>1. Send(rest[u].to, msg) BY <1>0
    <3>2. /\ Seen(w)'[c] = IF w \in rest[u].to /\ c \in About(msg)
                            THEN Listed(w, Seen(w)[c], msg) ELSE Seen(w)[c]
          /\ \/ c \notin lost[w]
             \/ w \in rest[u].to /\ msg.kind = "part" /\ msg.who = w /\ msg.chan = c
      <4>1. w \in Following \cap users /\ w \in Users /\ c \in Chans /\ c \notin lost'[w]
        BY <1>10
      <4>2. msg \in Messages BY <1>4
      <4>3. ViewTypeOK BY <1>2
      <4> QED BY <4>1, <4>2, <4>3, <3>1, SentSeen
    <3> QED BY <1>4, <3>2
  <2>2. c \notin lost[w] => ListOK(u, w, c) BY DEF Acts
  <2>3. \A x : MayKeep(u, w, c, x) => c = k /\ x = u BY <1>7 DEF MayKeep
  <2>4. CASE c # k
    <3>1. Right(u, w, c) BY <1>7, <2>1, <2>2, <2>4 DEF ListOK, Own
    <3>2. \A x : ~MayMiss(u, w, c, x) BY <1>7, <2>4 DEF MayMiss
    <3>3. Right(u, w, c)' BY <1>1, <1>7, <1>9, <2>1, <2>3, <2>4, <3>1, <3>2, RightKept
    <3> QED BY <1>7, <3>3 DEF ListOK
  <2>5. CASE c = k /\ w = u
    <3>1. Seen(u)'[k] = Absent BY <1>3, <2>1, <2>5, JoinedRight
    <3>2. Right(u, u, k)' BY <1>3, <1>9, <3>1 DEF Right
    <3> QED BY <1>7, <2>5, <3>2 DEF ListOK
  <2>6. CASE c = k /\ w # u
    <3>1. Right(u, w, k) BY <1>1, <1>7, <2>1, <2>2, <2>6 DEF ListOK, Own
    <3>2. CASE w \notin Mapped(k)
      <4>1. Seen(w)'[k] = Absent BY <1>3, <2>1, <2>6, <3>1, <3>2 DEF Right
      <4>2. Right(u, w, k)' BY <1>3, <1>9, <3>2, <4>1 DEF Right
      <4> QED BY <1>7, <2>6, <4>2 DEF ListOK
    <3>3. CASE w \in Mapped(k)
      <4>1. Seen(w)[k] # Absent /\ Seen(w)[k] \subseteq Users
        BY <1>2, <1>3, <2>3, <2>6, <3>1, <3>3, RightTyped DEF Right
      <4>2. Seen(w)'[k] = Seen(w)[k] \ {u}
        BY <1>3, <2>1, <2>6, <3>3, <4>1, JoinedRight
      <4>3. Seen(w)[k] \ {u} # Absent BY <4>1, ViewAssumption
      <4>4. \A x : MayMiss(u, w, k, x) => x = u BY <1>7, <2>6 DEF MayMiss
      <4>5. Right(u, w, k)'
        BY <1>1, <1>3, <1>7, <1>9, <2>3, <2>6, <3>1, <3>3, <4>2, <4>3, <4>4 DEF Right
      <4> QED BY <1>7, <2>6, <4>5 DEF ListOK
    <3> QED BY <3>2, <3>3
  <2> QED BY <2>4, <2>5, <2>6
<1>11. Following' = Following /\ Following \subseteq Users
  BY <1>1, <1>2, FollowingTyped DEF Following
<1> QED BY <1>1, <1>5, <1>6, <1>8, <1>10, <1>11 DEF Acts

\* The joiner learns the live members of the channel as it is by now.
LEMMA TellNamesActs ==
    ASSUME ViewSound, NEW u \in Users, Acts(u), TellNames(u)
    PROVE  Acts(u)'
<1>0. PICK k : k = rest[u].chan OBVIOUS
<1>1. /\ UNCHANGED <<workers, users, job, channels, members, view>>
      /\ rest[u].send = "names" /\ Rest(u, Nothing) /\ job[u] = Idle
  BY DEF TellNames, vars, Acts, Noted
<1>2. TypeOK /\ ViewTypeOK /\ rest \in [Users -> Rests]
  BY DEF ViewSound, ViewInv, ViewTypeOK
<1>3. k \in Chans BY <1>0, <1>1, <1>2, RestLocals
<1>4. rest'[u] = Nothing /\ \A v \in Users \ {u} : rest'[v] = rest[v]
  BY <1>1, <1>2 DEF Rest
<1>5. /\ \A c : ~Telling(u, c) /\ ~Telling(u, c)' /\ ~Naming(u, c)'
      /\ \A x : ~Removing(u, x) /\ ~Removing(u, x)'
      /\ \A c : Naming(u, c) <=> c = k
  BY <1>0, <1>1, <1>4, NothingRests DEF Telling, Naming, Removing, RemovalPCs, Idle
<1>6. Noted(u)' BY <1>1, <1>4, NothingRests DEF Noted, Idle
<1>7. \A c \in Chans : Mapped(c)' = Mapped(c) BY <1>1 DEF Mapped
<1>8. ASSUME NEW w \in Following \cap users, w \in Users, NEW c \in Chans \ lost'[w]
      PROVE  ListOK(u, w, c)'
  <2>1. \A x : ~MayKeep(u, w, c, x) BY <1>5 DEF MayKeep
  <2>2. \A x : MayMiss(u, w, c, x) <=> (c = k /\ w = u) BY <1>5 DEF MayMiss
  <2>3. CASE channels[k] = Absent
    <3>1. UNCHANGED <<inbox, lost>> BY <1>0, <2>3 DEF TellNames
    <3>2. Right(u, w, c) /\ Seen(w)' = Seen(w)
      BY <1>1, <1>5, <3>1 DEF Acts, ListOK, Own, Seen
    <3>3. Mapped(k) = {} BY <2>3 DEF Mapped
    <3>4. Right(u, w, c)' BY <1>1, <1>5, <1>7, <2>1, <2>2, <3>2, <3>3 DEF Right
    <3> QED BY <1>5, <3>4 DEF ListOK
  <2>4. CASE channels[k] # Absent
    <3>1. PICK some, msg : some = Mapped(k) \cap users /\ msg = Names(k, some) OBVIOUS
    <3>2. Send({u}, msg) BY <1>0, <2>4, <3>1 DEF TellNames
    <3>3. some \in SUBSET Users BY <1>2, <1>3, <3>1, MappedTyped
    <3>4. /\ msg \in Messages /\ msg.kind = "names" /\ About(msg) = {k}
          /\ \A nicks : Listed(w, nicks, msg) = Named(nicks, some)
      BY <1>3, <3>1, <3>3 DEF Names, Messages, About, Listed
    <3>5. /\ Seen(w)'[c] = IF w \in {u} /\ c \in About(msg)
                            THEN Listed(w, Seen(w)[c], msg) ELSE Seen(w)[c]
          /\ \/ c \notin lost[w]
             \/ w \in {u} /\ msg.kind = "part" /\ msg.who = w /\ msg.chan = c
      <4>1. w \in Following \cap users /\ w \in Users /\ c \in Chans /\ c \notin lost'[w]
        BY <1>8
      <4>2. msg \in Messages BY <3>4
      <4>3. ViewTypeOK /\ view' = view BY <1>1, <1>2
      <4> QED BY <4>1, <4>2, <4>3, <3>2, SentSeen
    <3>6. Right(u, w, c) BY <1>5, <3>4, <3>5 DEF Acts, ListOK, Own
    <3>7. CASE c # k \/ w # u
      <4>1. Seen(w)'[c] = Seen(w)[c] BY <3>4, <3>5, <3>7
      <4>2. Right(u, w, c)' BY <1>1, <1>5, <1>7, <2>1, <2>2, <3>6, <3>7, <4>1, RightKept
      <4> QED BY <1>5, <4>2 DEF ListOK
    <3>8. CASE c = k /\ w = u
      <4>1. Seen(u)'[k] = Named(Seen(u)[k], some) BY <3>4, <3>5, <3>8
      <4>2. CASE u \notin Mapped(k)
        <5>1. Seen(u)'[k] = Absent BY <3>6, <3>8, <4>1, <4>2 DEF Right, Named
        <5>2. Right(u, u, k)' BY <1>7, <1>3, <4>2, <5>1 DEF Right
        <5> QED BY <1>5, <3>8, <5>2 DEF ListOK
      <4>3. CASE u \in Mapped(k)
        <5>1. Seen(u)[k] # Absent /\ Seen(u)[k] \subseteq Users
          BY <1>2, <1>3, <2>1, <3>6, <3>8, <4>3, RightTyped DEF Right
        <5>2. Seen(u)'[k] = Seen(u)[k] \cup some BY <4>1, <5>1 DEF Named
        <5>3. Seen(u)[k] \cup some # Absent BY <3>3, <5>1, ViewAssumption
        <5>4. Right(u, u, k)'
          BY <1>1, <1>3, <1>5, <1>7, <2>1, <3>1, <3>6, <3>8, <4>3, <5>2, <5>3 DEF Right
        <5> QED BY <1>5, <3>8, <5>4 DEF ListOK
      <4> QED BY <4>2, <4>3
    <3> QED BY <3>7, <3>8
  <2> QED BY <2>3, <2>4
<1>9. Following' = Following /\ Following \subseteq Users
  BY <1>1, <1>2, FollowingTyped DEF Following
<1> QED BY <1>1, <1>4, <1>6, <1>8, <1>9 DEF Acts

\* KILL and cleanup note the peers of the user: whoever lists it is one.
LEMMA LeaveActs ==
    ASSUME ViewSound, NEW u \in Users, Acts(u), Leave(u)
    PROVE  Acts(u)'
<1>1. /\ UNCHANGED <<workers, users, channels, members, inbox, view, lost>>
      /\ job[u] = Idle /\ rest[u] = Nothing
  BY DEF Leave, Kill, Disconnect, Begin, Free
<1>2. TypeOK /\ ViewTypeOK /\ rest \in [Users -> Rests]
  BY DEF ViewSound, ViewInv, ViewTypeOK
<1>3. \A c \in Chans : Mapped(c)' = Mapped(c) BY <1>1 DEF Mapped
<1>4. \A v \in Users \ {u} : rest'[v] = rest[v] BY <1>2 DEF Leave, Rest
<1>5. /\ \A c : ~Telling(u, c) /\ \A x : ~Removing(u, x)
      /\ \A w, c, x : ~MayMiss(u, w, c, x) /\ ~MayKeep(u, w, c, x)
      /\ \A w, c : ~Own(u, w, c)
  BY <1>1, NothingOwed
<1>6. ASSUME NEW v \in Users, Do(u, PurgeJob(Chans, {}, v)),
             Rest(u, [send |-> "quit", to |-> Peers(v)])
      PROVE  Acts(u)'
  <2>1. job'[u] = PurgeJob(Chans, {}, v) /\ \A w \in Users \ {u} : job'[w] = Idle
    BY <1>2, <1>6, OthersIdle DEF Do
  <2>2. rest'[u] = [send |-> "quit", to |-> Peers(v)] BY <1>2, <1>6 DEF Rest
  <2>3. /\ \A c : ~Telling(u, c)' /\ ~Naming(u, c)'
        /\ \A x : Removing(u, x)' <=> x = v
    BY <2>1, <2>2, ChannelAssumption DEF Telling, Naming, Removing, RemovalPCs, PurgeJob
  <2>4. Noted(u)' BY <2>1, <2>2, <2>3 DEF Noted, PurgeJob
  <2>5. ASSUME NEW w \in Following \cap users, NEW c \in Chans \ lost[w]
        PROVE  ListOK(u, w, c)'
    <3>1. CASE w = v BY <2>3, <3>1 DEF ListOK, Own
    <3>2. CASE w # v
      <4>1. Right(u, w, c) /\ Seen(w)' = Seen(w) BY <1>1, <1>5 DEF Acts, ListOK, Seen
      <4>2. \A x : /\ MayMiss(u, w, c, x)' <=> x = v
                   /\ MayKeep(u, w, c, x)' <=> (x = v /\ w \in Peers(v))
        BY <2>2, <2>3 DEF MayMiss, MayKeep
      <4>3. w \in Mapped(c) /\ v \in Mapped(c) => w \in Peers(v)
        <5> DEFINE rooms == {Mapped(d) : d \in {e \in Chans : v \in Mapped(e)}}
        <5>1. v \in Mapped(c) => Mapped(c) \in rooms OBVIOUS
        <5>2. Peers(v) = (UNION rooms) \ {v} BY DEF Peers
        <5> HIDE DEF rooms
        <5> QED BY <3>2, <5>1, <5>2
      <4>4. Right(u, w, c)' BY <1>1, <1>3, <1>5, <2>3, <4>1, <4>2, <4>3 DEF Right
      <4> QED BY <2>3, <4>4 DEF ListOK
    <3> QED BY <3>1, <3>2
  <2>6. Following' = Following BY <1>1 DEF Following
  <2> QED BY <1>1, <1>4, <2>1, <2>4, <2>5, <2>6 DEF Acts
<1>7. ASSUME UNCHANGED job, rest' = rest PROVE Acts(u)'
  <2>1. rest[u].send # "names" BY <1>1, NothingRests
  <2>2. /\ job[u].at \notin {"join_tell", "part_tell"}
        /\ \A x : Removing(u, x)' <=> Removing(u, x)
    BY <1>1, <1>7 DEF Idle, Removing
  <2>3. \A v \in Users \ {u} : job'[v] = Idle BY <1>7 DEF Acts
  <2> QED BY <1>1, <1>3, <1>7, <2>1, <2>2, <2>3, QuietActs
<1>8. ASSUME NEW v \in Users, Kill(u, v), Rest(u, [send |-> "quit", to |-> Peers(v)])
      PROVE  Acts(u)'
  BY <1>6, <1>8 DEF Kill
<1>9. CASE Disconnect(u) /\ u \in users /\ Rest(u, [send |-> "quit", to |-> Peers(u)])
  BY <1>6, <1>9 DEF Disconnect
<1> QED
  <2>1. CASE \E v \in Users : Kill(u, v) /\ Rest(u, [send |-> "quit", to |-> Peers(v)])
    BY <1>8, <2>1
  <2>2. CASE Disconnect(u) /\ u \notin users /\ Rest(u, Nothing)
    <3>1. rest' = rest BY <1>1, <1>2, <2>2 DEF Rest
    <3> QED BY <1>7, <2>2, <3>1 DEF Disconnect
  <2> QED BY <1>9, <2>1, <2>2 DEF Leave

\* The QUIT takes the user off the lists of all that may have it.
LEMMA TellQuitActs ==
    ASSUME ViewSound, NEW u \in Users, Acts(u), TellQuit(u)
    PROVE  Acts(u)'
<1>0. PICK v, msg : v = job[u].victim /\ msg = Quit(v) OBVIOUS
<1>1. /\ UNCHANGED <<workers, users, job, channels, members, view>>
      /\ rest[u].send = "quit" /\ Rest(u, Nothing) /\ Send(rest[u].to, msg)
  BY <1>0 DEF TellQuit, vars
<1>2. TypeOK /\ ViewTypeOK /\ rest \in [Users -> Rests]
  BY DEF ViewSound, ViewInv, ViewTypeOK
<1>3. v \in Users /\ job[u].at \in RemovalPCs /\ v # Nobody
  <2>1. PICK x \in Users : Removing(u, x) BY <1>1 DEF Acts, Noted
  <2> QED BY <1>0, <2>1 DEF Removing
<1>4. /\ msg \in Messages /\ msg.kind = "quit" /\ About(msg) = Chans
      /\ \A w, nicks : Listed(w, nicks, msg) = Departed(w, nicks, v)
  BY <1>0, <1>3 DEF Quit, Messages, About, Listed
<1>5. rest'[u] = Nothing /\ \A x \in Users \ {u} : rest'[x] = rest[x]
  BY <1>1, <1>2 DEF Rest
<1>6. /\ \A c : ~Telling(u, c) /\ ~Telling(u, c)' /\ ~Naming(u, c) /\ ~Naming(u, c)'
      /\ \A x : Removing(u, x) <=> x = v
      /\ \A x : Removing(u, x)' <=> x = v
  BY <1>0, <1>1, <1>3, <1>5, NothingRests DEF Telling, Naming, Removing, RemovalPCs
<1>7. Noted(u)' BY <1>1, <1>3, <1>5, NothingRests DEF Noted, RemovalPCs
<1>8. \A c \in Chans : Mapped(c)' = Mapped(c) BY <1>1 DEF Mapped
<1>9. ASSUME NEW w \in Following \cap users, w \in Users, NEW c \in Chans \ lost'[w]
      PROVE  ListOK(u, w, c)'
  <2>1. /\ Seen(w)'[c] = IF w \in rest[u].to /\ c \in About(msg)
                         THEN Listed(w, Seen(w)[c], msg) ELSE Seen(w)[c]
        /\ \/ c \notin lost[w]
           \/ w \in rest[u].to /\ msg.kind = "part" /\ msg.who = w /\ msg.chan = c
    <3>1. w \in Following \cap users /\ w \in Users /\ c \in Chans /\ c \notin lost'[w]
      BY <1>9
    <3>2. msg \in Messages BY <1>4
    <3>3. ViewTypeOK /\ view' = view /\ Send(rest[u].to, msg) BY <1>1, <1>2
    <3> QED BY <3>1, <3>2, <3>3, SentSeen
  <2>2. /\ Seen(w)'[c] = IF w \in rest[u].to THEN Departed(w, Seen(w)[c], v)
                         ELSE Seen(w)[c]
        /\ c \notin lost[w]
    BY <1>4, <2>1
  <2>3. CASE w = v BY <1>6, <2>3 DEF ListOK, Own
  <2>4. CASE w # v
    <3>1. Right(u, w, c) BY <1>6, <2>2, <2>4 DEF Acts, ListOK, Own
    <3>2. \A x : /\ MayMiss(u, w, c, x) <=> x = v
                 /\ MayKeep(u, w, c, x) <=> (x = v /\ w \in rest[u].to)
                 /\ MayMiss(u, w, c, x)' <=> x = v
      BY <1>1, <1>6 DEF MayMiss, MayKeep
    <3>3. CASE w \notin Mapped(c)
      <4>1. Seen(w)'[c] = Absent BY <2>2, <3>1, <3>3, JoinedRight DEF Right
      <4>2. Right(u, w, c)' BY <1>8, <3>3, <4>1 DEF Right
      <4> QED BY <1>6, <4>2 DEF ListOK
    <3>4. CASE w \in Mapped(c)
      <4>1. Seen(w)[c] # Absent /\ Seen(w)[c] \subseteq Users
        BY <1>2, <1>3, <3>1, <3>2, <3>4, RightTyped DEF Right
      <4>2. Seen(w)'[c] = Seen(w)[c] \ {v}
        <5>1. CASE w \in rest[u].to BY <2>2, <2>4, <4>1, <5>1, JoinedRight
        <5>2. CASE w \notin rest[u].to
          <6>1. v \notin Seen(w)[c] BY <1>6, <3>1, <3>2, <3>4, <5>2 DEF Right
          <6> QED BY <2>2, <5>2, <6>1
        <5> QED BY <5>1, <5>2
      <4>3. Seen(w)[c] \ {v} # Absent BY <4>1, ViewAssumption
      <4>4. Right(u, w, c)'
        BY <1>1, <1>6, <1>8, <3>1, <3>2, <3>4, <4>2, <4>3 DEF Right
      <4> QED BY <1>6, <4>4 DEF ListOK
    <3> QED BY <3>3, <3>4
  <2> QED BY <2>3, <2>4
<1>10. Following' = Following /\ Following \subseteq Users
  BY <1>1, <1>2, FollowingTyped DEF Following
<1> QED BY <1>1, <1>5, <1>7, <1>9, <1>10 DEF Acts

\* The victim leaves the users map: from then on the lists are right.
LEMMA RemoveActs ==
    ASSUME ViewSound, NEW u \in Users, Acts(u), Remove(u)
    PROVE  Acts(u)'
<1>0. PICK v : v = job[u].victim OBVIOUS
<1>1. /\ UNCHANGED <<workers, channels, members, rest, inbox, view, lost>>
      /\ users' = users \ {v} /\ Do(u, Idle) /\ job[u].at = "remove" /\ rest[u] = Nothing
  BY <1>0 DEF Remove, RemoveUser, SendsNothing, cvars, At
<1>2. TypeOK /\ job[u] \in Jobs BY DEF ViewSound, ViewInv, TypeOK
<1>3. v \in Users /\ v # Nobody BY <1>0, <1>1, <1>2, JobLocals, ChannelAssumption
<1>4. job'[u] = Idle /\ \A x \in Users \ {u} : job'[x] = Idle
  BY <1>1, <1>2, OthersIdle DEF Do
<1>5. /\ \A c : ~Telling(u, c) /\ ~Telling(u, c)' /\ ~Naming(u, c)
      /\ \A x : Removing(u, x) <=> x = v
      /\ \A x : ~Removing(u, x)'
  BY <1>0, <1>1, <1>3, <1>4, NothingRests DEF Telling, Naming, Removing, RemovalPCs, Idle
<1>6. Noted(u)' BY <1>1, <1>4, NothingRests DEF Noted, Idle
<1>7. \A c \in Chans : Mapped(c)' = Mapped(c) BY <1>1 DEF Mapped
<1>8. ASSUME NEW w \in Following \cap users', NEW c \in Chans \ lost[w]
      PROVE  ListOK(u, w, c)'
  <2>1. w \in users /\ w # v BY <1>1, <1>8
  <2>2. Right(u, w, c) BY <1>5, <2>1 DEF Acts, ListOK, Own
  <2>3. Seen(w)' = Seen(w) BY <1>1 DEF Seen
  <2>4. \A x : ~MayKeep(u, w, c, x) /\ (MayMiss(u, w, c, x) <=> x = v)
    BY <1>1, <1>5, NothingRests DEF MayKeep, MayMiss
  <2>5. Right(u, w, c)' BY <1>1, <1>5, <1>7, <2>2, <2>3, <2>4 DEF Right
  <2> QED BY <1>5, <2>5 DEF ListOK
<1>9. Following' = Following BY <1>1 DEF Following
<1> QED BY <1>1, <1>4, <1>6, <1>8, <1>9 DEF Acts

\* A client that reads, and a step in which nothing happens.
LEMMA ReadActs ==
    ASSUME ViewSound, NEW o \in Users, Acts(o), UNCHANGED <<vars, rest, lost>>,
           \A w \in Users : Seen(w)' = Seen(w)
    PROVE  Acts(o)'
<1>1. UNCHANGED <<workers, users, job, channels, members, rest, lost>> BY DEF vars
<1>2. \A c \in Chans : Mapped(c)' = Mapped(c) BY <1>1 DEF Mapped
<1>3. /\ \A c : /\ Telling(o, c)' <=> Telling(o, c)
                /\ Naming(o, c)' <=> Naming(o, c)
      /\ \A x : Removing(o, x)' <=> Removing(o, x)
  BY <1>1 DEF Telling, Naming, Removing
<1>4. Noted(o)'
  <2>1. job[o].at \in {"join_tell", "part_tell"} => job[o].chan \in Chans
    BY JobLocals DEF ViewSound, ViewInv, TypeOK
  <2> QED BY <1>1, <1>2, <1>3, <2>1 DEF Acts, Noted
<1>5. ASSUME NEW w \in Following \cap users, NEW c \in Chans \ lost[w], w \in Users
      PROVE  ListOK(o, w, c)'
  <2>1. ListOK(o, w, c) /\ Seen(w)' = Seen(w) BY <1>5 DEF Acts
  <2>2. \A x : /\ MayMiss(o, w, c, x) => MayMiss(o, w, c, x)'
               /\ MayKeep(o, w, c, x) => MayKeep(o, w, c, x)'
    BY <1>1, <1>3 DEF MayMiss, MayKeep
  <2>3. Own(o, w, c) => Own(o, w, c)' BY <1>1, <1>3, <2>1 DEF Own, At
  <2>4. Right(o, w, c) => Right(o, w, c)' BY <1>1, <1>2, <1>3, <2>1, <2>2, RightKept
  <2> QED BY <1>3, <2>1, <2>3, <2>4 DEF ListOK
<1>6. Following' = Following /\ Following \subseteq Users
  BY <1>1, FollowingTyped DEF Following, ViewSound, ViewInv
<1> QED BY <1>1, <1>4, <1>5, <1>6 DEF Acts

\* Until it connects a client is sent nothing.
LEMMA NewStaysUnknown ==
    ASSUME ViewSound, [ViewNext]_allvars
    PROVE  NewAreUnknown'
<1> SUFFICES ASSUME NEW w \in Users, conn'[w] = "new"
             PROVE  /\ w \notin users' /\ inbox'[w] = <<>>
                    /\ view'[w] = [c \in Chans |-> Absent]
  BY DEF NewAreUnknown
<1>1. TypeOK /\ ViewTypeOK BY DEF ViewSound, ViewInv
<1>2. conn[w] = "new" /\ (w \in users' => w \in users)
  <2>1. [Next]_vars BY ViewStep
  <2> QED
    BY <1>1, <2>1
    DEF Next, vars, Connect, JoinLook, PartLook, ModeLook, SpeakLook, Kill, Disconnect,
        JoinLock, JoinTell, PartLock, PartTell, DropLook, DropRemove, ModeLock, SpeakLock,
        SpeakTell, Purge, RemoveUser, TypeOK
<1>3. w \notin users /\ inbox[w] = <<>> /\ view[w] = [c \in Chans |-> Absent]
  BY <1>2 DEF ViewSound, NewAreUnknown
<1>4. ASSUME NEW to, NEW msg, Send(to, msg) PROVE inbox'[w] = <<>>
  BY <1>3, <1>4 DEF Send
<1>5. inbox'[w] = <<>> /\ view'[w] = view[w]
  <2>1. CASE UNCHANGED allvars BY <1>3, <2>1 DEF allvars, cvars
  <2>2. ASSUME NEW u \in Users, Enter(u) \/ Go(u) \/ Change(u) \/ Leave(u) \/ Remove(u)
        PROVE  inbox'[w] = <<>> /\ view'[w] = view[w]
    BY <1>3, <2>2 DEF Enter, Go, Change, Leave, Remove, SendsNothing, cvars
  <2>3. ASSUME NEW u \in Users, TellChange(u) \/ TellQuit(u)
        PROVE  inbox'[w] = <<>> /\ view'[w] = view[w]
    BY <1>4, <2>3 DEF TellChange, TellQuit
  <2>4. ASSUME NEW u \in Users, TellNames(u)
        PROVE  inbox'[w] = <<>> /\ view'[w] = view[w]
    BY <1>3, <1>4, <2>4 DEF TellNames
  <2>5. ASSUME NEW u \in Users, Receive(u)
        PROVE  inbox'[w] = <<>> /\ view'[w] = view[w]
    BY <1>1, <1>3, <2>5 DEF Receive, ViewTypeOK
  <2> QED BY <2>1, <2>2, <2>3, <2>4, <2>5 DEF ViewNext
<1> QED BY <1>2, <1>3, <1>5

\* Every step of the one running handler keeps the lists as right as they were.
LEMMA ViewActs ==
    ASSUME ViewSound, TypeOK', workers = 1, [ViewNext]_allvars, Users # {}
    PROVE  \E u \in Users : Acts(u)'
<1>1. TypeOK /\ ViewTypeOK BY DEF ViewSound, ViewInv
<1>2. PICK o \in Users : Acts(o) BY DEF ViewSound
<1>3. CASE UNCHANGED allvars
  <2>1. UNCHANGED <<vars, rest, lost>> BY <1>3 DEF allvars, cvars
  <2>2. \A w \in Users : Seen(w)' = Seen(w) BY <1>3 DEF allvars, cvars, Seen
  <2> QED BY <1>2, <2>1, <2>2, ReadActs
<1>4. ASSUME NEW u \in Users, Receive(u) PROVE \E v \in Users : Acts(v)'
  <2>1. UNCHANGED <<vars, rest, lost>> BY <1>4 DEF Receive
  <2>2. \A w \in Users : Seen(w)' = Seen(w) BY <1>1, <1>4, ReadSeen
  <2> QED BY <1>2, <2>1, <2>2, ReadActs
<1>5. ASSUME NEW u \in Users, Enter(u) PROVE Acts(u)'
  <2>1. Free(u) /\ SendsNothing BY <1>5 DEF Enter
  <2>2. Acts(u) BY <2>1, ViewActor
  <2> QED BY <1>5, <2>1, <2>2, ConnectActs, LookActs DEF Enter
<1>6. ASSUME NEW u \in Users, Go(u) \/ Change(u) \/ TellChange(u) \/ Remove(u)
      PROVE  Acts(u)'
  <2>1. job[u] # Idle
    BY <1>6 DEF Go, Change, TellChange, Remove, ModeLock, SpeakLock, SpeakTell, DropLook,
       DropRemove, Purge, JoinLock, PartLock, JoinTell, PartTell, RemoveUser, At, Idle
  <2>2. Acts(u) /\ Only(u) BY <2>1, ViewActor
  <2>3. CASE Go(u) BY <2>2, <2>3, GoActs, PurgeActs DEF Go
  <2>4. CASE Change(u) BY <2>2, <2>4, ChangeActs
  <2>5. CASE TellChange(u) BY <2>2, <2>5, TellJoinActs, TellPartActs DEF TellChange
  <2>6. CASE Remove(u) BY <2>2, <2>6, RemoveActs
  <2> QED BY <1>6, <2>3, <2>4, <2>5, <2>6
<1>7. ASSUME NEW u \in Users, TellNames(u) \/ TellQuit(u) PROVE Acts(u)'
  <2>1. rest[u] # Nothing BY <1>7, NothingRests DEF TellNames, TellQuit
  <2>2. Acts(u) BY <2>1, ViewActor
  <2> QED BY <1>7, <2>2, TellNamesActs, TellQuitActs
<1>8. ASSUME NEW u \in Users, Leave(u) PROVE Acts(u)'
  <2>1. Free(u) BY <1>8 DEF Leave
  <2>2. Acts(u) BY <2>1, ViewActor
  <2> QED BY <1>8, <2>2, LeaveActs
<1> QED BY <1>3, <1>4, <1>5, <1>6, <1>7, <1>8 DEF ViewNext

LEMMA InitViewSound == ViewInit => ViewSound
<1> SUFFICES ASSUME ViewInit PROVE ViewSound
  OBVIOUS
<1>1. ChanInv /\ ViewInv BY InitChanInv, InitViewInv DEF ViewInit
<1>2. NewAreUnknown BY DEF ViewInit, Init, NewAreUnknown
<1>3. ASSUME NEW u \in Users PROVE Acts(u)
  <2>1. \A v \in Users : job[v] = Idle /\ rest[v] = Nothing BY DEF ViewInit, Init
  <2>2. Noted(u) BY <2>1, NothingRests DEF Noted, Idle
  <2>3. users = {} BY DEF ViewInit, Init
  <2> QED BY <2>1, <2>2, <2>3 DEF Acts
<1> QED BY <1>1, <1>2, <1>3 DEF ViewSound

LEMMA NextViewSound == ViewSound /\ [ViewNext]_allvars => ViewSound'
<1> SUFFICES ASSUME ViewSound, [ViewNext]_allvars PROVE ViewSound'
  OBVIOUS
<1>1. [Next]_vars BY ViewStep
<1>2. ChanInv' BY <1>1, NextChanInv DEF ViewSound
<1>3. ViewInv' BY NextViewInv DEF ViewSound
<1>4. NewAreUnknown' BY NewStaysUnknown
<1>5. workers' = workers
  BY <1>1
  DEF Next, vars, Connect, JoinLook, PartLook, ModeLook, SpeakLook, Kill, Disconnect,
      JoinLock, JoinTell, PartLock, PartTell, DropLook, DropRemove, ModeLock, SpeakLock,
      SpeakTell, Purge, RemoveUser
<1>6. workers = 1 /\ Users # {} => \E u \in Users : Acts(u)' BY <1>3, ViewActs DEF ViewInv
<1> QED BY <1>2, <1>3, <1>4, <1>5, <1>6 DEF ViewSound

\* On one worker, between handlers, every client that lost no message lists
\* the members of the channels it is in, and nobody else, and no other channel
\* (join_one, send_names, handle_part, handle_kill, cleanup;
\* NetworkState::apply).
THEOREM ViewsAreTrue == ViewSpec => []ViewIsTrue
<1>1. ViewSound => ViewIsTrue
  <2> SUFFICES ASSUME ViewSound, workers = 1, Occupied = {},
                      NEW w \in Following \cap users, NEW c \in Chans \ lost[w]
               PROVE  IF w \in Mapped(c)
                      THEN /\ Seen(w)[c] # Absent
                           /\ Mapped(c) \cap users \subseteq Seen(w)[c]
                           /\ Seen(w)[c] \subseteq Mapped(c)
                      ELSE Seen(w)[c] = Absent
    BY DEF ViewIsTrue
  <2>1. w \in Users BY FollowingTyped DEF ViewSound, ViewInv
  <2>2. PICK u \in Users : Acts(u) BY <2>1 DEF ViewSound
  <2>3. job[u] = Idle /\ rest[u] = Nothing BY DEF Occupied, Busy
  <2>4. Right(u, w, c) BY <2>2, <2>3, NothingOwed DEF Acts, ListOK
  <2>5. \A x : ~MayMiss(u, w, c, x) /\ ~MayKeep(u, w, c, x) BY <2>3, NothingOwed
  <2> QED BY <2>4, <2>5 DEF Right
<1> QED BY <1>1, InitViewSound, NextViewSound, PTL DEF ViewSpec
=============================================================================
