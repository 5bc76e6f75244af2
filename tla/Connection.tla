------------------------------ MODULE Connection ------------------------------
(***************************************************************************)
(* The life of the connections of the IRC server (connection.rs): a slot   *)
(* of the limiter is taken, the user enters the map, banned hosts are      *)
(* turned away, frames are read until something ends the reading, the      *)
(* write task is awaited, cleanup tells the peers and forgets the user,    *)
(* and the slot is given back.                                             *)
(*                                                                         *)
(* Each connection is two tasks, a reader and a writer.  What joins them   *)
(* is reference counting: the writer ends when it has sent what is queued  *)
(* and every sender is gone, and the sender lives in User, which the       *)
(* reader, the users map and a running KILL refer to.                      *)
(*                                                                         *)
(* The limiter is its specification, SlotPool; how nicks lead to users is  *)
(* in NickRegistry, what a KILL does to channels in ChannelRegistry, and   *)
(* when a client floods in FloodBucket.                                    *)
(***************************************************************************)
EXTENDS Naturals, FiniteSets

CONSTANTS Conns,   \* connections offered, named by the UserId each would get
          Opers,   \* those whose user holds Privilege::Kill
          Limits,  \* values limits.per_ip_max_connections may have
          Queue    \* capacity of the outbound queue (256 in the code)

ASSUME ConnectionAssumption ==
    /\ IsFiniteSet(Conns)
    /\ Opers \subseteq Conns
    /\ Limits \subseteq Nat
    /\ Queue \in Nat \ {0}

VARIABLES max,        \* limits.per_ip_max_connections, fixed at start
          slots,      \* limiter: connections counted; all have one address
          users,      \* ServerState.users
          pc,         \* where the reader task is
          target,     \* the user a running KILL has looked up
          stage,      \* how far the user has registered
          timer,      \* the registration deadline has passed
          sock,       \* the peer's end of the socket
          pending,    \* a frame has arrived and is unread
          outbox,     \* messages in the outbound queue
          writer,     \* the write task still runs
          announced   \* history: some QUIT for the user went to its peers

vars == <<max, slots, users, pc, target, stage, timer, sock, pending, outbox, writer,
          announced>>

\* Reader positions that count as a served connection.
Served == {"accepted", "reading", "killing", "draining", "removing", "releasing"}

TypeOK ==
    /\ max \in Limits
    /\ slots \in 0..max
    /\ users \in SUBSET Conns
    /\ pc \in [Conns -> Served \cup {"offered", "refused", "gone"}]
    /\ target \in [Conns -> Conns]
    /\ stage \in [Conns -> {"anonymous", "named", "registered"}]
    /\ timer \in [Conns -> BOOLEAN]
    /\ sock \in [Conns -> {"up", "closed", "reset"}]
    /\ pending \in [Conns -> BOOLEAN]
    /\ outbox \in [Conns -> 0..Queue]
    /\ writer \in [Conns -> BOOLEAN]
    /\ announced \in [Conns -> BOOLEAN]

Init ==
    /\ max \in Limits
    /\ slots = 0
    /\ users = {}
    /\ pc = [c \in Conns |-> "offered"]
    /\ target = [c \in Conns |-> c]
    /\ stage = [c \in Conns |-> "anonymous"]
    /\ timer = [c \in Conns |-> FALSE]
    /\ sock = [c \in Conns |-> "up"]
    /\ pending = [c \in Conns |-> FALSE]
    /\ outbox = [c \in Conns |-> 0]
    /\ writer = [c \in Conns |-> FALSE]
    /\ announced = [c \in Conns |-> FALSE]

Goto(c, where) == pc' = [pc EXCEPT ![c] = where]

\* User::send: a full queue, or one whose writer is gone, drops the message.
Send(c) ==
    outbox' = [outbox EXCEPT ![c] = IF writer[c] /\ @ < Queue THEN @ + 1 ELSE @]

\* Every sender is dropped: the map's, the reader's, and those of handlers.
NoSender(c) ==
    /\ c \notin users
    /\ pc[c] \notin {"reading", "killing"}
    /\ \A k \in Conns : pc[k] = "killing" => target[k] # c

\* Users that user_by_nick can find.
Findable == {c \in users : stage[c] # "anonymous"}
-----------------------------------------------------------------------------
(* handle_connection and run, up to the read loop. *)

\* Seeded fault: admits one connection too many.
AcceptOffByOne(c) ==
    /\ pc[c] = "offered"
    /\ IF slots <= max
       THEN Goto(c, "accepted") /\ slots' = slots + 1
       ELSE Goto(c, "refused") /\ UNCHANGED slots
    /\ UNCHANGED <<max, users, target, stage, timer, sock, pending, outbox, writer,
                   announced>>

Accept(c) ==
    /\ pc[c] = "offered"
    /\ IF slots < max
       THEN Goto(c, "accepted") /\ slots' = slots + 1
       ELSE Goto(c, "refused") /\ UNCHANGED slots
    /\ UNCHANGED <<max, users, target, stage, timer, sock, pending, outbox, writer,
                   announced>>

\* insert_user, the write task spawned, the K-line check.
Admit(c) ==
    /\ pc[c] = "accepted"
    /\ users' = users \cup {c}
    /\ writer' = [writer EXCEPT ![c] = TRUE]
    /\ \/ Goto(c, "reading") /\ UNCHANGED outbox
       \/ Goto(c, "draining") /\ outbox' = [outbox EXCEPT ![c] = 1]
    /\ UNCHANGED <<max, slots, target, stage, timer, sock, pending, announced>>

-----------------------------------------------------------------------------
(* read_loop_with_deadline: one frame at a time, each handled to its end   *)
(* before the next is read.                                                *)

Read(c) ==
    /\ pc[c] = "reading"
    /\ pending[c]
    /\ pending' = [pending EXCEPT ![c] = FALSE]
    /\ UNCHANGED <<max, slots, users, timer, sock, writer>>

\* NICK, then what completes the registration, then the welcome burst.
ReadRegistration(c) ==
    /\ Read(c)
    /\ stage[c] # "registered"
    /\ stage' = [stage EXCEPT ![c] = IF @ = "anonymous" THEN "named" ELSE "registered"]
    /\ IF stage[c] = "named" THEN Send(c) ELSE UNCHANGED outbox
    /\ UNCHANGED <<pc, target, announced>>

\* A command that is answered, or a message for another user.
ReadCommand(c) ==
    /\ Read(c)
    /\ \/ Send(c)
       \/ stage[c] = "registered" /\ \E d \in Findable : Send(d)
    /\ UNCHANGED <<pc, target, stage, announced>>

\* QUIT, or a frame that does not parse.
ReadQuit(c) ==
    /\ Read(c)
    /\ Goto(c, "draining")
    /\ UNCHANGED <<target, stage, outbox, announced>>

\* A registered user whose bucket is empty: ERROR, and the frame is dropped.
ReadFlood(c) ==
    /\ Read(c)
    /\ stage[c] = "registered"
    /\ Send(c)
    /\ Goto(c, "draining")
    /\ UNCHANGED <<target, stage, announced>>

\* Seeded fault: the QUIT is sent by the clean-up, and KILL leaves it to that.
KillLookSilent(c, d) ==
    /\ Read(c)
    /\ c \in Opers
    /\ stage[c] = "registered"
    /\ d \in Findable
    /\ Send(d)
    /\ target' = [target EXCEPT ![c] = d]
    /\ Goto(c, "killing")
    /\ UNCHANGED <<stage, announced>>

\* handle_kill up to the clean-up: the target's ERROR, the QUIT to its peers.
KillLook(c, d) ==
    /\ Read(c)
    /\ c \in Opers
    /\ stage[c] = "registered"
    /\ d \in Findable
    /\ Send(d)
    /\ announced' = [announced EXCEPT ![d] = TRUE]
    /\ target' = [target EXCEPT ![c] = d]
    /\ Goto(c, "killing")
    /\ UNCHANGED stage

\* purge_user_from_channels and remove_user; the target's tasks live on.
KillRemove(c) ==
    /\ pc[c] = "killing"
    /\ users' = users \ {target[c]}
    /\ target' = [target EXCEPT ![c] = c]
    /\ Goto(c, "reading")
    /\ UNCHANGED <<max, slots, stage, timer, sock, pending, outbox, writer, announced>>

\* The stream ends or fails.
ReadEnd(c) ==
    /\ pc[c] = "reading"
    /\ \/ sock[c] = "closed" /\ ~pending[c]
       \/ sock[c] = "reset"
    /\ Goto(c, "draining")
    /\ UNCHANGED <<max, slots, users, target, stage, timer, sock, pending, outbox,
                   writer, announced>>

\* Seeded fault: whoever has claimed a nick is spared.
DeadlineNamedSpared(c) ==
    /\ pc[c] = "reading"
    /\ stage[c] = "anonymous"
    /\ timer[c]
    /\ ~pending[c]
    /\ sock[c] = "up"
    /\ Goto(c, "draining")
    /\ UNCHANGED <<max, slots, users, target, stage, timer, sock, pending, outbox,
                   writer, announced>>

\* The select is biased: the deadline is looked at when no frame is ready.
Deadline(c) ==
    /\ pc[c] = "reading"
    /\ stage[c] # "registered"
    /\ timer[c]
    /\ ~pending[c]
    /\ sock[c] = "up"
    /\ Goto(c, "draining")
    /\ UNCHANGED <<max, slots, users, target, stage, timer, sock, pending, outbox,
                   writer, announced>>

-----------------------------------------------------------------------------
(* write_loop. *)

\* A peer that is gone answers the first message with a reset and the
\* second write fails; a peer that is there may take its time.
WriteNext(c) ==
    /\ writer[c]
    /\ outbox[c] > 0
    /\ \/ /\ sock[c] # "reset"
          /\ outbox' = [outbox EXCEPT ![c] = @ - 1]
          /\ sock' = [sock EXCEPT ![c] = IF @ = "closed" THEN "reset" ELSE @]
          /\ UNCHANGED writer
       \/ /\ sock[c] = "reset"
          /\ outbox' = [outbox EXCEPT ![c] = 0]
          /\ writer' = [writer EXCEPT ![c] = FALSE]
          /\ UNCHANGED sock
    /\ UNCHANGED <<max, slots, users, pc, target, stage, timer, pending, announced>>

\* Seeded fault: only a failing write ends the task.
WriteEndOnReset(c) ==
    /\ writer[c]
    /\ outbox[c] = 0
    /\ sock[c] = "reset"
    /\ NoSender(c)
    /\ writer' = [writer EXCEPT ![c] = FALSE]
    /\ UNCHANGED <<max, slots, users, pc, target, stage, timer, sock, pending, outbox,
                   announced>>

WriteEnd(c) ==
    /\ writer[c]
    /\ outbox[c] = 0
    /\ NoSender(c)
    /\ writer' = [writer EXCEPT ![c] = FALSE]
    /\ UNCHANGED <<max, slots, users, pc, target, stage, timer, sock, pending, outbox,
                   announced>>

-----------------------------------------------------------------------------
(* The end of run, cleanup and the release. *)

\* Seeded fault: a user that is gone from the map ends the whole task.
CleanupLookReturns(c) ==
    /\ pc[c] = "draining"
    /\ ~writer[c]
    /\ IF c \in users
       THEN Goto(c, "removing") /\ announced' = [announced EXCEPT ![c] = TRUE]
       ELSE Goto(c, "gone") /\ UNCHANGED announced
    /\ UNCHANGED <<max, slots, users, target, stage, timer, sock, pending, outbox, writer>>

\* cleanup tells the peers of a user that is still in the map.
CleanupLook(c) ==
    /\ pc[c] = "draining"
    /\ ~writer[c]
    /\ IF c \in users
       THEN Goto(c, "removing") /\ announced' = [announced EXCEPT ![c] = TRUE]
       ELSE Goto(c, "releasing") /\ UNCHANGED announced
    /\ UNCHANGED <<max, slots, users, target, stage, timer, sock, pending, outbox, writer>>

CleanupRemove(c) ==
    /\ pc[c] = "removing"
    /\ users' = users \ {c}
    /\ Goto(c, "releasing")
    /\ UNCHANGED <<max, slots, target, stage, timer, sock, pending, outbox, writer,
                   announced>>

Release(c) ==
    /\ pc[c] = "releasing"
    /\ slots' = slots - 1
    /\ Goto(c, "gone")
    /\ UNCHANGED <<max, users, target, stage, timer, sock, pending, outbox, writer,
                   announced>>

-----------------------------------------------------------------------------
(* The clients and the clock. *)

\* What arrives once the reading has ended is never read.
ClientSend(c) ==
    /\ pc[c] \in {"reading", "killing"}
    /\ sock[c] = "up"
    /\ ~pending[c]
    /\ pending' = [pending EXCEPT ![c] = TRUE]
    /\ UNCHANGED <<max, slots, users, pc, target, stage, timer, sock, outbox, writer,
                   announced>>

ClientClose(c) ==
    /\ pc[c] \in Served
    /\ sock[c] = "up"
    /\ sock' = [sock EXCEPT ![c] = "closed"]
    /\ UNCHANGED <<max, slots, users, pc, target, stage, timer, pending, outbox, writer,
                   announced>>

TimerElapses(c) ==
    /\ pc[c] = "reading"
    /\ stage[c] # "registered"
    /\ ~timer[c]
    /\ timer' = [timer EXCEPT ![c] = TRUE]
    /\ UNCHANGED <<max, slots, users, pc, target, stage, sock, pending, outbox, writer,
                   announced>>

-----------------------------------------------------------------------------
HandleFrame(c) ==
    \/ ReadRegistration(c) \/ ReadCommand(c) \/ ReadQuit(c) \/ ReadFlood(c)
    \/ \E d \in Conns : KillLook(c, d)

Finish(c) == CleanupLook(c) \/ CleanupRemove(c) \/ Release(c)

Next ==
    \E c \in Conns :
        \/ Accept(c) \/ Admit(c)
        \/ HandleFrame(c) \/ KillRemove(c) \/ ReadEnd(c) \/ Deadline(c)
        \/ WriteNext(c) \/ WriteEnd(c)
        \/ Finish(c)
        \/ ClientSend(c) \/ ClientClose(c) \/ TimerElapses(c)

\* The runtime goes on polling every task that can go on, and time passes.
\* Nothing obliges a client: it may neither send, nor close, nor read, so
\* that a write need only return once the peer is known to be gone.
Fairness ==
    \A c \in Conns :
        /\ WF_vars(Admit(c))
        /\ WF_vars(HandleFrame(c))
        /\ WF_vars(KillRemove(c))
        /\ WF_vars(ReadEnd(c))
        /\ WF_vars(Deadline(c))
        /\ WF_vars(sock[c] # "up" /\ WriteNext(c))
        /\ WF_vars(WriteEnd(c))
        /\ WF_vars(Finish(c))
        /\ WF_vars(TimerElapses(c))

Spec == Init /\ [][Next]_vars /\ Fairness
-----------------------------------------------------------------------------
\* Each served connection holds one slot and each slot is held by one, however
\* the connection ends and whoever kills its user (handle_connection).
SlotPerConnection == slots = Cardinality({c \in Conns : pc[c] \in Served})

\* The driver uses the limiter as the pool of slots its counters implement: a
\* connection is turned away exactly when all slots are held, and each gives its
\* slot back once, whatever ends it (handle_connection, run).
Slots == INSTANCE SlotPool
    WITH IPs <- {"peer"},
         IpOf <- [c \in Conns |-> "peer"],
         holders <- {c \in Conns : pc[c] \in Served},
         refused <- {c \in Conns : pc[c] = "refused"}
ImplementsSlots == Slots!Spec

\* A user is in the map only while its connection is served, and when the
\* connection is over its peers have been told, by cleanup or by the KILL
\* that took the user out of the map (cleanup, handle_kill).
LeavesAreAnnounced ==
    /\ \A c \in users : pc[c] \in Served
    /\ \A c \in Conns : pc[c] \in {"releasing", "gone"} => c \notin users /\ announced[c]

\* A killed user whose reading has ended is given up completely, unless its
\* peer holds up the write task by not reading (run, write_loop).
KilledAreReleased ==
    \A c \in Conns :
        (pc[c] = "draining" /\ c \notin users)
            ~> (pc[c] = "gone" \/ (sock[c] = "up" /\ outbox[c] > 0))

\* A connection that no more frames come from does not stay unregistered:
\* the deadline ends its reading (read_frame).
DeadlineEndsSilence ==
    \A c \in Conns :
        (pc[c] = "reading" /\ stage[c] # "registered")
            ~> (pc[c] # "reading" \/ stage[c] = "registered" \/ pending[c])

\* "Drop the user so the mpsc sender goes away.  The write task sees its
\* receiver close and exits cleanly": a connection whose peer has closed and
\* whose reading has ended is given up.
ClosedAreReleased ==
    \A c \in Conns : (pc[c] = "draining" /\ sock[c] # "up") ~> pc[c] = "gone"
=============================================================================
