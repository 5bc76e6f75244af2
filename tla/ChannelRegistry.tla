--------------------------- MODULE ChannelRegistry ---------------------------
(***************************************************************************)
(* Who is in which channel of the IRC server: the map channels of          *)
(* ServerState (irc-server/src/state/mod.rs), the Channel objects it leads *)
(* to (state/channel.rs) and the handlers that join, leave, speak, change  *)
(* operators, kill, and clean up after a closed connection.                *)
(*                                                                         *)
(* A handler looks a channel up, keeps a counted reference to the object,  *)
(* and locks the object later; it looks at the member list, unlocks, and   *)
(* tells the members later.  Each action is one such access.  As in        *)
(* NickRegistry, a handler occupies a worker until it returns, so that on  *)
(* one worker it runs undisturbed and on two the accesses interleave.      *)
(*                                                                         *)
(* Users are named by their id: which nick leads to whom is the subject of *)
(* NickRegistry.  A channel has only the state that decides something: the *)
(* flags n, t, m, i, k and l and the voice of a member are stored by       *)
(* handle_mode and read by nothing but the MODE reply.                     *)
(***************************************************************************)
EXTENDS Naturals, FiniteSets

CONSTANTS Users,         \* user ids; never reused (next_user_id)
          Chans,         \* channel names, case-folded
          Objs,          \* Channel objects; one is reused once unreferenced
          Opers,         \* users that hold Privilege::Kill
          WorkerCounts,  \* sizes the runtime may have
          Nobody,        \* no victim: the channel is left by PART
          Absent         \* no entry in the channels map

ASSUME ChannelAssumption ==
    /\ IsFiniteSet(Users)
    /\ Opers \subseteq Users
    /\ WorkerCounts \subseteq Nat \ {0}
    /\ Nobody \notin Users
    /\ Absent \notin Objs

VARIABLES workers,   \* worker threads of the runtime, fixed at start
          users,     \* ServerState.users
          conn,      \* life of each connection task
          job,       \* where the task is inside a handler, with its locals
          channels,  \* ServerState.channels
          members,   \* Channel.members of each object ...
          ops,       \* ... and those with MemberMode.op
          told,      \* channels each client was told it is in (JOIN, PART)
          killed     \* history: users some operator has killed

vars == <<workers, users, conn, job, channels, members, ops, told, killed>>

Idle == [at |-> "idle"]
Jobs ==
    {Idle}
    \cup [at : {"join_lock", "part_lock", "msg_lock"}, chan : Chans, obj : Objs]
    \cup [at : {"join_tell", "part_tell"}, chan : Chans]
    \cup [at : {"mode_lock"}, obj : Objs]
    \cup [at : {"msg_tell"}, chan : Chans, rcpt : SUBSET Users]
    \cup [at : {"purge"}, todo : SUBSET Chans, emptied : SUBSET Chans,
          victim : Users]
    \cup [at : {"drop_look"}, todo : SUBSET Chans, victim : Users \cup {Nobody}]
    \cup [at : {"drop_remove"}, chan : Chans, todo : SUBSET Chans,
          victim : Users \cup {Nobody}]
    \cup [at : {"remove"}, victim : Users]

TypeOK ==
    /\ workers \in WorkerCounts
    /\ users \in SUBSET Users
    /\ conn \in [Users -> {"new", "open", "closing", "gone"}]
    /\ job \in [Users -> Jobs]
    /\ channels \in [Chans -> Objs \cup {Absent}]
    /\ members \in [Objs -> SUBSET Users]
    /\ ops \in [Objs -> SUBSET Users]
    /\ \A o \in Objs : ops[o] \subseteq members[o]
    /\ told \in [Users -> SUBSET Chans]
    /\ killed \in SUBSET Users

Init ==
    /\ workers \in WorkerCounts
    /\ users = {}
    /\ conn = [u \in Users |-> "new"]
    /\ job = [u \in Users |-> Idle]
    /\ channels = [c \in Chans |-> Absent]
    /\ members = [o \in Objs |-> {}]
    /\ ops = [o \in Objs |-> {}]
    /\ told = [u \in Users |-> {}]
    /\ killed = {}

Busy == {u \in Users : job[u] # Idle}
WorkerFree == Cardinality(Busy) < workers

At(u, step) == job[u].at = step
Do(u, j) == job' = [job EXCEPT ![u] = j]
Begin(u) == conn[u] = "open" /\ job[u] = Idle /\ WorkerFree

\* Objects the map or a running handler refers to.
LockPCs == {"join_lock", "part_lock", "mode_lock", "msg_lock"}
Held == {o \in Objs : \/ \E c \in Chans : channels[c] = o
                      \/ \E u \in Users : job[u].at \in LockPCs /\ job[u].obj = o}

\* The member lists after a step; an object with no reference left is freed.
Update(mems, opers) ==
    /\ members' = [o \in Objs |-> IF o \in Held' THEN mems[o] ELSE {}]
    /\ ops' = [o \in Objs |-> IF o \in Held' THEN opers[o] ELSE {}]

Mapped(c) == IF channels[c] = Absent THEN {} ELSE members[channels[c]]
MappedOps(c) == IF channels[c] = Absent THEN {} ELSE ops[channels[c]]
-----------------------------------------------------------------------------
\* run inserts the user; the client then registers (connection.rs).
Connect(u) ==
    /\ conn[u] = "new"
    /\ WorkerFree
    /\ conn' = [conn EXCEPT ![u] = "open"]
    /\ users' = users \cup {u}
    /\ UNCHANGED <<workers, job, channels, members, ops, told, killed>>

-----------------------------------------------------------------------------
(* JOIN: join_one. *)

\* channel_or_create: the entry is found or made in one locked step.
JoinLook(u, c) ==
    /\ Begin(u)
    /\ \/ /\ channels[c] # Absent
          /\ Do(u, [at |-> "join_lock", chan |-> c, obj |-> channels[c]])
          /\ UNCHANGED channels
       \/ \E o \in Objs \ Held :
          /\ channels[c] = Absent
          /\ channels' = [channels EXCEPT ![c] = o]
          /\ Do(u, [at |-> "join_lock", chan |-> c, obj |-> o])
    /\ UNCHANGED <<workers, users, conn, members, ops, told, killed>>

\* Seeded fault: whoever joins becomes an operator.
JoinLockAsOp(u) ==
    LET o == job[u].obj IN
    /\ At(u, "join_lock")
    /\ UNCHANGED <<workers, users, conn, channels, told, killed>>
    /\ IF u \in members[o]
       THEN Do(u, Idle) /\ Update(members, ops)
       ELSE /\ Do(u, [at |-> "join_tell", chan |-> job[u].chan])
            /\ Update([members EXCEPT ![o] = @ \cup {u}], [ops EXCEPT ![o] = @ \cup {u}])

\* Under the object's write lock: the first member becomes an operator.
JoinLock(u) ==
    LET o == job[u].obj IN
    /\ At(u, "join_lock")
    /\ UNCHANGED <<workers, users, conn, channels, told, killed>>
    /\ IF u \in members[o]
       THEN Do(u, Idle) /\ Update(members, ops)
       ELSE /\ Do(u, [at |-> "join_tell", chan |-> job[u].chan])
            /\ Update([members EXCEPT ![o] = @ \cup {u}],
                      [ops EXCEPT ![o] = IF members[o] = {} THEN {u} ELSE @])

\* broadcast reaches those of the members that are still in the users map;
\* of the clients' state only the joiner's own changes.
JoinTell(u) ==
    /\ At(u, "join_tell")
    /\ told' = IF u \in users
               THEN [told EXCEPT ![u] = @ \cup {job[u].chan}] ELSE told
    /\ Do(u, Idle)
    /\ UNCHANGED <<workers, users, conn, channels, members, ops, killed>>

-----------------------------------------------------------------------------
(* PART: handle_part, ending in remove_empty_channel. *)

\* After the drops of remove_empty_channel: PART returns, a removal goes on.
AfterDrops(todo, victim) ==
    IF todo # {} THEN [at |-> "drop_look", todo |-> todo, victim |-> victim]
    ELSE IF victim = Nobody THEN Idle
    ELSE [at |-> "remove", victim |-> victim]

PartLook(u, c) ==
    /\ Begin(u)
    /\ channels[c] # Absent
    /\ Do(u, [at |-> "part_lock", chan |-> c, obj |-> channels[c]])
    /\ UNCHANGED <<workers, users, conn, channels, members, ops, told, killed>>

PartLock(u) ==
    LET o == job[u].obj IN
    /\ At(u, "part_lock")
    /\ UNCHANGED <<workers, users, conn, channels, told, killed>>
    /\ IF u \notin members[o]
       THEN Do(u, Idle) /\ Update(members, ops)
       ELSE /\ Do(u, [at |-> "part_tell", chan |-> job[u].chan])
            /\ Update([members EXCEPT ![o] = @ \ {u}], [ops EXCEPT ![o] = @ \ {u}])

\* Seeded fault: the emptied channel is never removed.
PartTellNoDrop(u) ==
    /\ At(u, "part_tell")
    /\ told' = IF u \in users
               THEN [told EXCEPT ![u] = @ \ {job[u].chan}] ELSE told
    /\ Do(u, Idle)
    /\ UNCHANGED <<workers, users, conn, channels, members, ops, killed>>

PartTell(u) ==
    /\ At(u, "part_tell")
    /\ told' = IF u \in users
               THEN [told EXCEPT ![u] = @ \ {job[u].chan}] ELSE told
    /\ Do(u, AfterDrops({job[u].chan}, Nobody))
    /\ UNCHANGED <<workers, users, conn, channels, members, ops, killed>>

\* Seeded fault: whoever leaves takes itself for the last one.
DropLookBlindly(u) ==
    /\ At(u, "drop_look")
    /\ \E c \in job[u].todo :
        Do(u, [at |-> "drop_remove", chan |-> c, todo |-> job[u].todo \ {c},
               victim |-> job[u].victim])
    /\ UNCHANGED <<workers, users, conn, channels, members, ops, told, killed>>

\* remove_empty_channel, first half: is the object mapped now empty?
DropLook(u) ==
    /\ At(u, "drop_look")
    /\ \E c \in job[u].todo :
        LET rest == job[u].todo \ {c} IN
        Do(u, IF channels[c] # Absent /\ Mapped(c) = {}
              THEN [at |-> "drop_remove", chan |-> c, todo |-> rest,
                    victim |-> job[u].victim]
              ELSE AfterDrops(rest, job[u].victim))
    /\ UNCHANGED <<workers, users, conn, channels, members, ops, told, killed>>

\* Second half: the guard is dropped, the entry is removed as it is by now.
DropRemove(u) ==
    /\ At(u, "drop_remove")
    /\ channels' = [channels EXCEPT ![job[u].chan] = Absent]
    /\ Do(u, AfterDrops(job[u].todo, job[u].victim))
    /\ UNCHANGED <<workers, users, conn, told, killed>>
    /\ Update(members, ops)

-----------------------------------------------------------------------------
(* MODE +o and -o: apply_channel_modes, under one write lock.  A target    *)
(* that is not a live user or not a member is skipped.                     *)

ModeLook(u, c) ==
    /\ Begin(u)
    /\ channels[c] # Absent
    /\ Do(u, [at |-> "mode_lock", obj |-> channels[c]])
    /\ UNCHANGED <<workers, users, conn, channels, members, ops, told, killed>>

\* Seeded fault: the target's membership is not looked at.
ModeLockStranger(u) ==
    LET o == job[u].obj IN
    /\ At(u, "mode_lock")
    /\ Do(u, Idle)
    /\ UNCHANGED <<workers, users, conn, channels, told, killed>>
    /\ \E v \in Users :
        Update(members, IF u \in ops[o] THEN [ops EXCEPT ![o] = @ \cup {v}] ELSE ops)

\* Whom the change is about is resolved under the lock.
ModeLock(u) ==
    LET o == job[u].obj IN
    /\ At(u, "mode_lock")
    /\ Do(u, Idle)
    /\ UNCHANGED <<workers, users, conn, channels, told, killed>>
    /\ \/ u \notin ops[o] /\ Update(members, ops)
       \/ \E v \in Users :
            /\ u \in ops[o]
            /\ IF v \in users \cap members[o]
               THEN \/ Update(members, [ops EXCEPT ![o] = @ \cup {v}])
                    \/ Update(members, [ops EXCEPT ![o] = @ \ {v}])
               ELSE Update(members, ops)

-----------------------------------------------------------------------------
(* PRIVMSG and NOTICE to a channel: deliver_to_channel.  A TOPIC change    *)
(* takes the same steps, and differs in that it echoes to the speaker.     *)

SpeakLook(u, c) ==
    /\ Begin(u)
    /\ channels[c] # Absent
    /\ Do(u, [at |-> "msg_lock", chan |-> c, obj |-> channels[c]])
    /\ UNCHANGED <<workers, users, conn, channels, members, ops, told, killed>>

\* Seeded fault: anybody may speak.
SpeakLockAnyone(u) ==
    LET o == job[u].obj IN
    /\ At(u, "msg_lock")
    /\ Do(u, [at |-> "msg_tell", chan |-> job[u].chan, rcpt |-> members[o] \ {u}])
    /\ UNCHANGED <<workers, users, conn, channels, told, killed>>
    /\ Update(members, ops)

\* Only members may speak; the audience is the member list of this moment.
SpeakLock(u) ==
    LET o == job[u].obj IN
    /\ At(u, "msg_lock")
    /\ Do(u, IF u \in members[o]
             THEN [at |-> "msg_tell", chan |-> job[u].chan,
                   rcpt |-> members[o] \ {u}]
             ELSE Idle)
    /\ UNCHANGED <<workers, users, conn, channels, told, killed>>
    /\ Update(members, ops)

SpeakTell(u) ==
    /\ At(u, "msg_tell")
    /\ Do(u, Idle)
    /\ UNCHANGED <<workers, users, conn, channels, members, ops, told, killed>>

-----------------------------------------------------------------------------
(* KILL and cleanup: purge_user_from_channels, then remove_user.           *)

PurgeJob(todo, emptied, v) ==
    [at |-> "purge", todo |-> todo, emptied |-> emptied, victim |-> v]

\* handle_kill resolves the target among the live users and sends it ERROR.
\* The target's own task goes on reading.
Kill(a, v) ==
    /\ Begin(a)
    /\ a \in Opers
    /\ v \in users
    /\ Do(a, PurgeJob(Chans, {}, v))
    /\ killed' = killed \cup {v}
    /\ UNCHANGED <<workers, users, conn, channels, members, ops, told>>

\* Seeded fault: cleanup forgets the channels.
DisconnectKeepsRooms(u) ==
    /\ Begin(u)
    /\ IF u \in users
       THEN /\ Do(u, [at |-> "remove", victim |-> u])
            /\ conn' = [conn EXCEPT ![u] = "closing"]
       ELSE UNCHANGED job /\ conn' = [conn EXCEPT ![u] = "gone"]
    /\ UNCHANGED <<workers, users, channels, members, ops, told, killed>>

\* cleanup: a user that is no longer in the map has nothing to clean up.
Disconnect(u) ==
    /\ Begin(u)
    /\ IF u \in users
       THEN Do(u, PurgeJob(Chans, {}, u)) /\ conn' = [conn EXCEPT ![u] = "closing"]
       ELSE UNCHANGED job /\ conn' = [conn EXCEPT ![u] = "gone"]
    /\ UNCHANGED <<workers, users, channels, members, ops, told, killed>>

\* The walk over the map visits one entry, under the object's write lock.
Purge(a) ==
    /\ At(a, "purge")
    /\ \E c \in job[a].todo :
        LET v == job[a].victim
            o == channels[c]
            todo == job[a].todo \ {c}
            here == v \in Mapped(c)
            emptied == job[a].emptied \cup
                       (IF here /\ members[o] = {v} THEN {c} ELSE {})
        IN
        /\ IF here
           THEN /\ members' = [members EXCEPT ![o] = @ \ {v}]
                /\ ops' = [ops EXCEPT ![o] = @ \ {v}]
           ELSE UNCHANGED <<members, ops>>
        /\ Do(a, IF todo = {} THEN AfterDrops(emptied, v)
                 ELSE PurgeJob(todo, emptied, v))
    /\ UNCHANGED <<workers, users, conn, channels, told, killed>>

RemoveUser(a) ==
    /\ At(a, "remove")
    /\ users' = users \ {job[a].victim}
    /\ conn' = [conn EXCEPT ![a] = IF @ = "closing" THEN "gone" ELSE @]
    /\ Do(a, Idle)
    /\ UNCHANGED <<workers, channels, members, ops, told, killed>>

-----------------------------------------------------------------------------
Next ==
    \E u \in Users :
        \/ Connect(u)
        \/ \E c \in Chans :
            JoinLook(u, c) \/ PartLook(u, c) \/ ModeLook(u, c) \/ SpeakLook(u, c)
        \/ \E v \in Users : Kill(u, v)
        \/ Disconnect(u)
        \/ JoinLock(u) \/ JoinTell(u)
        \/ PartLock(u) \/ PartTell(u)
        \/ DropLook(u) \/ DropRemove(u)
        \/ ModeLock(u)
        \/ SpeakLock(u) \/ SpeakTell(u)
        \/ Purge(u) \/ RemoveUser(u)

Spec == Init /\ [][Next]_vars
-----------------------------------------------------------------------------
Quiescent == Busy = {}
InTheRoom(c) == {u \in users : c \in told[u]}

\* On any number of workers, a channel people can find has only live members
\* and members some operator has killed: a connection that closes by itself
\* leaves no ghost behind (cleanup, connection.rs), whatever joins, parts
\* and removals of the same channel overlap.
GhostsWereKilled ==
    \A c \in Chans : Mapped(c) \subseteq users \cup killed

\* The inductive invariant.  Only a running handler or the map keeps an object
\* alive; handlers run for open connections, whose users are in the map unless
\* killed; and a closing user is in no channel the walk has left behind.
RemovalPCs == {"purge", "drop_look", "drop_remove", "remove"}
Victims(a) == {v \in Users : job[a].at \in RemovalPCs /\ job[a].victim = v}
ToVisit(a) == IF At(a, "purge") THEN job[a].todo ELSE {}

FreedAreEmpty == \A o \in Objs \ Held : members[o] = {}
OpenAreKnown == \A u \in Users : conn[u] = "open" => u \in users \cup killed
LockersAreOpen == \A u \in Users : job[u].at \in LockPCs => conn[u] = "open"
ClosingAreLeaving ==
    \A a \in Users : \A v \in Victims(a) \ killed :
        /\ v = a
        /\ conn[a] = "closing"
        /\ \A c \in Chans \ ToVisit(a) : a \notin Mapped(c)
IInv ==
    /\ TypeOK
    /\ FreedAreEmpty
    /\ OpenAreKnown
    /\ LockersAreOpen
    /\ ClosingAreLeaving
    /\ GhostsWereKilled

\* On one worker, between handlers, the server and its clients agree: a live
\* user is a member of exactly the channels it was told it is in, and no
\* channel without members stays in the map (remove_empty_channel).
TruthfulOnOneWorker ==
    workers = 1 /\ Quiescent =>
        \A c \in Chans :
            /\ channels[c] # Absent => Mapped(c) # {}
            /\ Mapped(c) \cap users = InTheRoom(c)

\* On one worker, whoever becomes a channel operator was made one by an
\* operator of that channel, or joined when no live user was in it (join_one
\* and apply_channel_modes): a channel cannot be taken over.
OpsAreEarned ==
    workers = 1 =>
        \A c \in Chans : \A u \in MappedOps(c)' \ MappedOps(c) :
            \E a \in Busy : a \in MappedOps(c) \/ (a = u /\ InTheRoom(c) \subseteq {u})
OpIsEarned == [][OpsAreEarned]_vars

\* On one worker, a channel message comes from somebody who was told to be in
\* the channel, or was killed, and goes to all others who were told so and to
\* nobody else (deliver_to_channel, broadcast).
AudienceOnOneWorker ==
    workers = 1 =>
        \A u \in Users : At(u, "msg_tell") =>
            /\ u \in InTheRoom(job[u].chan) \cup killed
            /\ job[u].rcpt \cap users = InTheRoom(job[u].chan) \ {u}

\* "Clean up: remove from channels, remove from state": between handlers, a
\* killed user is in no channel that people can find.
KilledStayOut ==
    Quiescent => \A c \in Chans : Mapped(c) \cap killed = {}

\* "Remove a channel once it has no members left": never before.
OnlyEmptyRemoved ==
    [][\A c \in Chans :
        channels[c] # Absent /\ channels'[c] = Absent => Mapped(c) = {}]_vars

\* On any number of workers, what people find under the channels' names is
\* entered and left one member at a time, and operators are made by operators
\* or by entering an empty channel; on one worker no channel disappears with
\* members in it: lookups, locks, freed objects and two-step removals do not
\* show (join_one, handle_part, apply_channel_modes, purge_user_from_channels,
\* remove_empty_channel).
Room == INSTANCE Rooms WITH serial <- (workers = 1),
                            who <- [c \in Chans |-> Mapped(c)],
                            ops <- [c \in Chans |-> MappedOps(c)]
ImplementsRooms == Room!Spec
=============================================================================
