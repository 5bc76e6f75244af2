----------------------------- MODULE ClientView -----------------------------
(***************************************************************************)
(* What clients make of the channels: the server of ChannelRegistry, whose *)
(* steps are kept, sends JOIN, PART, NAMES and QUIT through the bounded    *)
(* queue of each user (User::send), and the client core (irc-client-core,  *)
(* state.rs) keeps a list of the members of each channel it is in.         *)
(*                                                                         *)
(* A message goes to all followed clients in one step, and the walk over   *)
(* the channels that finds the peers of a user is one step.  A handler     *)
(* with something left to send keeps its worker.  Users stand for their    *)
(* nicks; a change of nick is told to nobody but the user.                 *)
(***************************************************************************)
EXTENDS ChannelRegistry, Sequences

CONSTANTS Viewers,   \* the clients followed, for each number of workers
          Outbound   \* OUTBOUND_QUEUE (256 in the code)

ASSUME ViewAssumption ==
    /\ Viewers \in [WorkerCounts -> SUBSET Users]
    /\ Outbound \in Nat
    /\ \A some \in SUBSET Users : some # Absent

VARIABLES rest,    \* what the handler of each user has still to send
          inbox,   \* messages on their way to each client
          view,    \* NetworkState.channels of each client: the nicks of each
          lost     \* channels a client's list of which a dropped message spoils

cvars == <<rest, inbox, view, lost>>
allvars == <<vars, cvars>>

Following == Viewers[workers]

Join(u, c) == [kind |-> "join", who |-> u, chan |-> c]
Part(u, c) == [kind |-> "part", who |-> u, chan |-> c]
Quit(u) == [kind |-> "quit", who |-> u]
Names(c, some) == [kind |-> "names", chan |-> c, nicks |-> some]
Messages ==
    [kind : {"join", "part"}, who : Users, chan : Chans]
    \cup [kind : {"quit"}, who : Users]
    \cup [kind : {"names"}, chan : Chans, nicks : SUBSET Users]

\* The recipients were noted when the lists were read.
Nothing == [send |-> "nothing"]
Rests ==
    {Nothing}
    \cup [send : {"change"}, to : SUBSET Users]
    \cup [send : {"names"}, chan : Chans]
    \cup [send : {"quit"}, to : SUBSET Users]

ViewInit ==
    /\ Init
    /\ rest = [u \in Users |-> Nothing]
    /\ inbox = [w \in Users |-> <<>>]
    /\ view = [w \in Users |-> [c \in Chans |-> Absent]]
    /\ lost = [w \in Users |-> {}]

Occupied == Busy \cup {u \in Users : rest[u] # Nothing}
Free(u) == rest[u] = Nothing /\ Cardinality(Occupied) < workers
Rest(u, r) == rest' = [rest EXCEPT ![u] = r]
-----------------------------------------------------------------------------
(* NetworkState::apply. *)

\* One list, of the client w, after a JOIN, a PART or QUIT, or a NAMES reply.
Joined(w, nicks, who) ==
    IF nicks # Absent THEN nicks \cup {who} ELSE IF who = w THEN {w} ELSE Absent
Departed(w, nicks, who) ==
    IF nicks = Absent \/ who = w THEN Absent ELSE nicks \ {who}
Named(nicks, some) ==
    IF nicks = Absent THEN Absent ELSE nicks \cup some

Listed(w, nicks, msg) ==
    CASE msg.kind = "join" -> Joined(w, nicks, msg.who)
      [] msg.kind \in {"part", "quit"} -> Departed(w, nicks, msg.who)
      [] msg.kind = "names" -> Named(nicks, msg.nicks)

\* The channels that a message is about.
About(msg) == IF msg.kind = "quit" THEN Chans ELSE {msg.chan}

Apply(w, lists, msg) ==
    [c \in Chans |-> IF c \in About(msg) THEN Listed(w, lists[c], msg) ELSE lists[c]]

Receive(w) ==
    /\ inbox[w] # <<>>
    /\ view' = [view EXCEPT ![w] = Apply(w, @, Head(inbox[w]))]
    /\ inbox' = [inbox EXCEPT ![w] = Tail(@)]
    /\ UNCHANGED <<vars, rest, lost>>

\* Seeded fault: the queue has no bound.
SendUnbounded(to, msg) ==
    /\ inbox' = [w \in Users |->
          IF w \in to \cap users \cap Following THEN Append(inbox[w], msg) ELSE inbox[w]]
    /\ UNCHANGED lost

\* broadcast: each recipient that is still in the users map gets the message,
\* unless its queue is full.  Its own PART rids a client of a spoilt list.
Send(to, msg) ==
    LET got == {w \in to \cap users \cap Following : Len(inbox[w]) < Outbound} IN
    /\ inbox' = [w \in Users |-> IF w \in got THEN Append(inbox[w], msg) ELSE inbox[w]]
    /\ lost' = [w \in Users |->
          IF w \in got
          THEN IF msg.kind = "part" /\ msg.who = w THEN lost[w] \ {msg.chan} ELSE lost[w]
          ELSE IF w \in to \cap users \cap Following THEN lost[w] \cup About(msg)
          ELSE lost[w]]
-----------------------------------------------------------------------------
(* The handlers. *)
SendsNothing == UNCHANGED cvars

Enter(u) ==
    /\ Free(u)
    /\ \/ Connect(u)
       \/ \E c \in Chans :
             JoinLook(u, c) \/ PartLook(u, c) \/ ModeLook(u, c) \/ SpeakLook(u, c)
    /\ SendsNothing

\* Steps whose messages change no list of members, and the walks of a removal;
\* KILL walks once its QUIT is sent.
Go(u) ==
    /\ \/ ModeLock(u) \/ SpeakLock(u) \/ SpeakTell(u)
       \/ DropLook(u) \/ DropRemove(u)
       \/ Purge(u) /\ (rest[u] # Nothing => conn[u] = "closing")
    /\ SendsNothing

\* join_one and handle_part note the recipients under the object's lock.
Change(u) ==
    LET o == job[u].obj IN
    /\ \/ /\ JoinLock(u)
          /\ Rest(u, IF u \in members[o] THEN Nothing
                     ELSE [send |-> "change", to |-> members[o] \cup {u}])
       \/ /\ PartLock(u)
          /\ Rest(u, IF u \notin members[o] THEN Nothing
                     ELSE [send |-> "change", to |-> members[o]])
    /\ UNCHANGED <<inbox, view, lost>>

\* The departing user gets its PART as well.
TellChange(u) ==
    /\ \/ /\ JoinTell(u)
          /\ Send(rest[u].to, Join(u, job[u].chan))
          /\ Rest(u, [send |-> "names", chan |-> job[u].chan])
       \/ /\ PartTell(u)
          /\ Send(rest[u].to, Part(u, job[u].chan))
          /\ Rest(u, Nothing)
    /\ UNCHANGED view

\* send_names looks the channel up again and lists its live members.
TellNames(u) ==
    /\ rest[u].send = "names"
    /\ LET c == rest[u].chan IN
       IF channels[c] # Absent
       THEN Send({u}, Names(c, Mapped(c) \cap users))
       ELSE UNCHANGED <<inbox, lost>>
    /\ Rest(u, Nothing)
    /\ UNCHANGED <<vars, view>>

Peers(v) == (UNION {Mapped(c) : c \in {d \in Chans : v \in Mapped(d)}}) \ {v}

\* Seeded fault: cleanup looks the peers up when the channels are left.
LeaveAskedLate(u) ==
    /\ Free(u)
    /\ \/ \E v \in Users :
             Kill(u, v) /\ Rest(u, [send |-> "quit", to |-> Peers(v)])
       \/ /\ Disconnect(u)
          /\ Rest(u, IF u \in users THEN [send |-> "quit", to |-> {}] ELSE Nothing)
    /\ UNCHANGED <<inbox, view, lost>>

\* handle_kill and cleanup look the peers up before the channels are left ...
Leave(u) ==
    /\ Free(u)
    /\ \/ \E v \in Users :
             Kill(u, v) /\ Rest(u, [send |-> "quit", to |-> Peers(v)])
       \/ /\ Disconnect(u)
          /\ Rest(u, IF u \in users THEN [send |-> "quit", to |-> Peers(u)] ELSE Nothing)
    /\ UNCHANGED <<inbox, view, lost>>

\* ... and tell them: KILL at once, cleanup when they are left.
TellQuit(u) ==
    /\ rest[u].send = "quit"
    /\ conn[u] = "closing" => At(u, "remove")
    /\ Send(rest[u].to, Quit(job[u].victim))
    /\ Rest(u, Nothing)
    /\ UNCHANGED <<vars, view>>

Remove(u) ==
    /\ rest[u] = Nothing
    /\ RemoveUser(u)
    /\ SendsNothing

ViewNext ==
    \E u \in Users :
        \/ Enter(u) \/ Go(u) \/ Change(u) \/ TellChange(u) \/ TellNames(u)
        \/ Leave(u) \/ TellQuit(u) \/ Remove(u)
        \/ Receive(u)

ViewSpec == ViewInit /\ [][ViewNext]_allvars
-----------------------------------------------------------------------------
\* Type invariant; no queue exceeds its bound.
ViewTypeOK ==
    /\ rest \in [Users -> Rests]
    /\ inbox \in [Users -> Seq(Messages)]
    /\ \A w \in Users : Len(inbox[w]) <= Outbound
    /\ view \in [Users -> [Chans -> (SUBSET Users) \cup {Absent}]]
    /\ lost \in [Users -> SUBSET Chans]

\* What the client w makes of a queue of messages, from the lists it has ...
After(w, lists, queue) ==
    LET after[i \in 0..Len(queue)] ==
            IF i = 0 THEN lists ELSE Apply(w, after[i - 1], queue[i])
    IN  after[Len(queue)]

\* ... and so of those that are on their way to it.
Seen(w) == After(w, view[w], inbox[w])

\* On one worker, between handlers, the messages sent make each client list
\* the members of the channels it is in, a killed one perhaps excepted, and
\* nobody else, and no other channel, unless its queue was full and dropped
\* one since it last left the channel (join_one, send_names, handle_part,
\* handle_kill, cleanup; NetworkState::apply).
ViewIsTrue ==
    workers = 1 /\ Occupied = {} =>
        \A w \in Following \cap users : \A c \in Chans \ lost[w] :
            IF w \in Mapped(c)
            THEN /\ Seen(w)[c] # Absent
                 /\ Mapped(c) \cap users \subseteq Seen(w)[c]
                 /\ Seen(w)[c] \subseteq Mapped(c)
            ELSE Seen(w)[c] = Absent
=============================================================================
