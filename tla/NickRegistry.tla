---------------------------- MODULE NickRegistry ----------------------------
(***************************************************************************)
(* Who owns which nickname on the IRC server: the maps users and nicks of  *)
(* ServerState (irc-server/src/state/mod.rs), the nick each User carries   *)
(* (state/user.rs), and the handlers that change them: NICK, KILL and the  *)
(* cleanup of a closed connection.                                         *)
(*                                                                         *)
(* Handlers are synchronous: a task that has begun one occupies a runtime  *)
(* worker until it returns.  But every access to a map takes and drops the *)
(* lock of one shard, so with two workers the accesses of two handlers     *)
(* interleave.  Each action below is one such access; with a single worker *)
(* a handler runs undisturbed.  What the same handlers do to channels is   *)
(* the subject of ChannelRegistry.                                         *)
(***************************************************************************)
EXTENDS Naturals, FiniteSets

CONSTANTS Users,         \* user ids; never reused (next_user_id)
          Nicks,         \* valid nicknames, case-folded
          Opers,         \* users that hold Privilege::Kill
          WorkerCounts,  \* sizes the runtime may have
          Nobody,        \* no entry in the nicks map
          NoNick         \* User.nick is None

ASSUME NickAssumption ==
    /\ IsFiniteSet(Users)
    /\ Opers \subseteq Users
    /\ WorkerCounts \subseteq Nat \ {0}
    /\ Nobody \notin Users
    /\ NoNick \notin Nicks

VARIABLES workers,  \* worker threads of the runtime, fixed at start
          users,    \* ServerState.users
          nicks,    \* ServerState.nicks
          nick,     \* User.nick, kept in the shared User object
          conn,     \* life of each connection task
          pc,       \* where the task is inside a handler
          want,     \* local: the nick being claimed
          seen,     \* local: the nick read from a snapshot
          victim    \* local: the user being removed

locals == <<want, seen, victim>>
vars == <<workers, users, nicks, nick, conn, pc, locals>>

ClaimPCs == {"claim_prior", "claim_check", "claim_evict", "claim_insert",
             "claim_set"}
RemovePCs == {"kill_lookup", "rm_take", "rm_snap", "rm_check", "rm_evict"}

RemovedPCs == {"rm_snap", "rm_check", "rm_evict"}
SeenPCs == {"claim_check", "claim_evict", "rm_check", "rm_evict"}

TypeOK ==
    /\ workers \in WorkerCounts
    /\ users \in SUBSET Users
    /\ nicks \in [Nicks -> Users \cup {Nobody}]
    /\ nick \in [Users -> Nicks \cup {NoNick}]
    /\ conn \in [Users -> {"new", "open", "closing", "gone"}]
    /\ pc \in [Users -> {"idle"} \cup ClaimPCs \cup RemovePCs]
    /\ want \in [Users -> Nicks \cup {NoNick}]
    /\ seen \in [Users -> Nicks \cup {NoNick}]
    /\ victim \in [Users -> Users \cup {Nobody}]
    /\ \A u \in Users :
        /\ pc[u] \in ClaimPCs => want[u] \in Nicks
        /\ pc[u] \in SeenPCs => seen[u] \in Nicks
        /\ pc[u] \in RemovePCs => victim[u] \in Users

Init ==
    /\ workers \in WorkerCounts
    /\ users = {}
    /\ nicks = [n \in Nicks |-> Nobody]
    /\ nick = [u \in Users |-> NoNick]
    /\ conn = [u \in Users |-> "new"]
    /\ pc = [u \in Users |-> "idle"]
    /\ want = [u \in Users |-> NoNick]
    /\ seen = [u \in Users |-> NoNick]
    /\ victim = [u \in Users |-> Nobody]

Busy == {u \in Users : pc[u] # "idle"}
WorkerFree == Cardinality(Busy) < workers

At(u, from) == pc[u] = from
Goto(u, to) == pc' = [pc EXCEPT ![u] = to]

\* A handler returns; its locals are gone.
Leave(u) ==
    /\ Goto(u, "idle")
    /\ want' = [want EXCEPT ![u] = NoNick]
    /\ seen' = [seen EXCEPT ![u] = NoNick]
    /\ victim' = [victim EXCEPT ![u] = Nobody]

\* A handler begins: the connection is read, and a worker polls its task.
Begin(u) == conn[u] = "open" /\ At(u, "idle") /\ WorkerFree

-----------------------------------------------------------------------------
\* run: the accepted connection enters the users map.
Connect(u) ==
    /\ conn[u] = "new"
    /\ At(u, "idle")
    /\ WorkerFree
    /\ conn' = [conn EXCEPT ![u] = "open"]
    /\ users' = users \cup {u}
    /\ UNCHANGED <<workers, nicks, nick, pc, locals>>

-----------------------------------------------------------------------------
(* NICK: handle_nick and ServerState::claim_nick. *)

\* Is the slot taken?  Somebody else's refuses the claim, one's own makes
\* it a no-op, and a free one is claimed by the steps that follow.
ClaimLook(u, n) ==
    /\ Begin(u)
    /\ nicks[n] \in {u, Nobody}
    /\ Goto(u, IF nicks[n] = u THEN "claim_set" ELSE "claim_prior")
    /\ want' = [want EXCEPT ![u] = n]
    /\ UNCHANGED <<workers, users, nicks, nick, conn, seen, victim>>

\* ERR_NICKNAMEINUSE: nothing changes but the handler has run.
ClaimRefused(u, n) ==
    /\ Begin(u)
    /\ nicks[n] \notin {u, Nobody}
    /\ UNCHANGED vars

\* Seeded fault: the nick held so far is not looked up, so never released.
ClaimKeepsPrior(u) ==
    /\ At(u, "claim_prior")
    /\ IF u \in users
       THEN Goto(u, "claim_insert") /\ UNCHANGED locals
       ELSE Leave(u)
    /\ UNCHANGED <<workers, users, nicks, nick, conn>>

\* Seeded fault: a first claim looks up a prior nick there is none of.
ClaimPriorUnwrapped(u) ==
    /\ At(u, "claim_prior")
    /\ u \in users
    /\ seen' = [seen EXCEPT ![u] = nick[u]]
    /\ Goto(u, "claim_check")
    /\ UNCHANGED <<workers, users, nicks, nick, conn, want, victim>>

\* The user's prior nick; a user that has been killed is unknown by now.
ClaimPrior(u) ==
    /\ At(u, "claim_prior")
    /\ IF u \notin users
       THEN Leave(u)
       ELSE /\ seen' = [seen EXCEPT ![u] = nick[u]]
            /\ Goto(u, IF nick[u] = NoNick THEN "claim_insert"
                                           ELSE "claim_check")
            /\ UNCHANGED <<want, victim>>
    /\ UNCHANGED <<workers, users, nicks, nick, conn>>

\* Does the prior slot still belong to this user?
ClaimCheck(u) ==
    /\ At(u, "claim_check")
    /\ Goto(u, IF nicks[seen[u]] = u THEN "claim_evict" ELSE "claim_insert")
    /\ UNCHANGED <<workers, users, nicks, nick, conn, locals>>

\* The guard is dropped; the slot is removed whoever owns it by now.
ClaimEvict(u) ==
    /\ At(u, "claim_evict")
    /\ nicks' = [nicks EXCEPT ![seen[u]] = Nobody]
    /\ Goto(u, "claim_insert")
    /\ UNCHANGED <<workers, users, nick, conn, locals>>

\* The new slot is overwritten, whoever owns it by now.
ClaimInsert(u) ==
    /\ At(u, "claim_insert")
    /\ nicks' = [nicks EXCEPT ![want[u]] = u]
    /\ Goto(u, "claim_set")
    /\ UNCHANGED <<workers, users, nick, conn, locals>>

\* handle_nick: the claim is done, the user learns its new nick.
SetNick(u) ==
    /\ At(u, "claim_set")
    /\ nick' = [nick EXCEPT ![u] = want[u]]
    /\ Leave(u)
    /\ UNCHANGED <<workers, users, nicks, conn>>

Claim(u) ==
    \/ ClaimPrior(u)
    \/ ClaimCheck(u)
    \/ ClaimEvict(u)
    \/ ClaimInsert(u)
    \/ SetNick(u)

-----------------------------------------------------------------------------
(* KILL by an operator, and the cleanup of a connection that has closed;   *)
(* both end in ServerState::remove_user.                                   *)

\* user_by_nick, first half: the id behind the nick.
KillLook(a, n) ==
    /\ Begin(a)
    /\ a \in Opers
    /\ nicks[n] # Nobody
    /\ victim' = [victim EXCEPT ![a] = nicks[n]]
    /\ Goto(a, "kill_lookup")
    /\ UNCHANGED <<workers, users, nicks, nick, conn, want, seen>>

\* user_by_nick, second half: the user behind the id, if it is still there.
KillLookup(a) ==
    /\ At(a, "kill_lookup")
    /\ IF victim[a] \in users
       THEN Goto(a, "rm_take") /\ UNCHANGED locals
       ELSE Leave(a)
    /\ UNCHANGED <<workers, users, nicks, nick, conn>>

\* cleanup: a user that is no longer in the map has nothing to clean up.
Disconnect(u) ==
    /\ Begin(u)
    /\ IF u \in users
       THEN /\ conn' = [conn EXCEPT ![u] = "closing"]
            /\ victim' = [victim EXCEPT ![u] = u]
            /\ Goto(u, "rm_take")
       ELSE /\ conn' = [conn EXCEPT ![u] = "gone"]
            /\ UNCHANGED <<victim, pc>>
    /\ UNCHANGED <<workers, users, nicks, nick, want, seen>>

\* remove_user returns to its caller.
Return(a) ==
    /\ Leave(a)
    /\ conn' = [conn EXCEPT ![a] = IF @ = "closing" THEN "gone" ELSE @]

RemoveTake(a) ==
    /\ At(a, "rm_take")
    /\ IF victim[a] \in users
       THEN Goto(a, "rm_snap") /\ UNCHANGED <<conn, locals>>
       ELSE Return(a)
    /\ users' = users \ {victim[a]}
    /\ UNCHANGED <<workers, nicks, nick>>

RemoveSnap(a) ==
    /\ At(a, "rm_snap")
    /\ IF nick[victim[a]] = NoNick
       THEN Return(a)
       ELSE /\ seen' = [seen EXCEPT ![a] = nick[victim[a]]]
            /\ Goto(a, "rm_check")
            /\ UNCHANGED <<conn, want, victim>>
    /\ UNCHANGED <<workers, users, nicks, nick>>

\* Seeded fault: the removed user's nick stays reserved.
RemoveForgetsNick(a) ==
    /\ At(a, "rm_check")
    /\ Return(a)
    /\ UNCHANGED <<workers, users, nicks, nick>>

RemoveCheck(a) ==
    /\ At(a, "rm_check")
    /\ IF nicks[seen[a]] = victim[a]
       THEN Goto(a, "rm_evict") /\ UNCHANGED <<conn, locals>>
       ELSE Return(a)
    /\ UNCHANGED <<workers, users, nicks, nick>>

\* The guard is dropped; the slot is removed whoever owns it by now.
RemoveEvict(a) ==
    /\ At(a, "rm_evict")
    /\ nicks' = [nicks EXCEPT ![seen[a]] = Nobody]
    /\ Return(a)
    /\ UNCHANGED <<workers, users, nick>>

Remove(a) ==
    \/ KillLookup(a)
    \/ RemoveTake(a)
    \/ RemoveSnap(a)
    \/ RemoveCheck(a)
    \/ RemoveEvict(a)

-----------------------------------------------------------------------------
Next ==
    \E u \in Users :
        \/ Connect(u)
        \/ \E n \in Nicks : ClaimLook(u, n) \/ ClaimRefused(u, n) \/ KillLook(u, n)
        \/ Claim(u)
        \/ Disconnect(u)
        \/ Remove(u)

Spec == Init /\ [][Next]_vars
-----------------------------------------------------------------------------
Quiescent == Busy = {}

\* On any number of workers, a nick never leads to a user that goes by
\* another one: what user_by_nick finds for PRIVMSG, MODE +o or KILL is a
\* user whose own nick is the one asked for, unless that user is in the
\* middle of a NICK.
RoutesToBearer ==
    \A n \in Nicks : \A u \in users :
        nicks[n] = u /\ At(u, "idle") => nick[u] = n

\* On one worker the registry is exact between handlers: a slot belongs to
\* the one live user of that nick, no live user lacks its slot, and no slot
\* outlives its user (claim_nick and remove_user together).
ExactOnOneWorker ==
    workers = 1 /\ Quiescent =>
        \A n \in Nicks :
            /\ nicks[n] \in users \cup {Nobody}
            /\ \A u \in users : nicks[n] = u <=> nick[u] = n

\* The inductive invariant.  Held(u) is the nick whose slot may be u's: its
\* nick, except that a claim gives it up before it takes the new one.
Held(u) ==
    CASE pc[u] = "claim_insert" -> NoNick
      [] pc[u] = "claim_set" -> want[u]
      [] OTHER -> nick[u]
OnlyHeldSlots ==
    /\ \A n \in Nicks, u \in Users : nicks[n] = u => Held(u) = n
    /\ \A u \in Users :
        /\ pc[u] \in {"claim_check", "claim_evict"} => seen[u] = nick[u]
        /\ conn[u] = "new" => nick[u] = NoNick /\ pc[u] = "idle"

\* On one worker, the users whose slots are in order: the live ones and the
\* one that is being removed.
Accounted == users \cup {victim[a] : a \in {b \in Users : pc[b] \in RemovedPCs}}
OneAtATime == \A u, v \in Busy : u = v
SlotsInOrder ==
    \A n \in Nicks :
        /\ nicks[n] \in Accounted \cup {Nobody}
        /\ \A u \in Accounted : nicks[n] = u <=> Held(u) = n
HandlerInOrder ==
    \A u \in Users :
        /\ pc[u] \in {"claim_check", "claim_evict", "claim_insert", "claim_set"}
             => u \in users
        /\ pc[u] \in ClaimPCs \ {"claim_set"} => nicks[want[u]] = Nobody
        /\ pc[u] \in RemovedPCs => victim[u] \notin users
        /\ pc[u] \in {"rm_check", "rm_evict"} => seen[u] = nick[victim[u]]
UndisturbedOnOneWorker ==
    workers = 1 => OneAtATime /\ SlotsInOrder /\ HandlerInOrder
IInv == TypeOK /\ OnlyHeldSlots /\ UndisturbedOnOneWorker

\* "Reserve nick for user_id.  Fails if the nickname is already owned by a
\* different user": no two live users go by the same nick.
UniqueNick ==
    Quiescent =>
        \A u, v \in users : u # v /\ nick[u] # NoNick => nick[u] # nick[v]
=============================================================================
