------------------------------- MODULE Monitor -------------------------------
(***************************************************************************)
(* MONITOR: users that watch nicks (irc-server/src/handler/monitor.rs) on  *)
(* top of the nick registry, whose steps are those of NickRegistry.  Who   *)
(* watches a nick is told its state when it asks, and whenever a           *)
(* registered user takes or gives up a nick and whenever a connection is   *)
(* cleaned up.  Neither a KILL nor the NICK of a user that is not          *)
(* registered yet tells anybody.                                           *)
(*                                                                         *)
(* A handler of NickRegistry that has watchers to tell goes on with notes, *)
(* and one of MONITOR with a query; both keep its worker busy.  Nicks are  *)
(* case-folded, as in NickRegistry.                                        *)
(***************************************************************************)
EXTENDS NickRegistry, Sequences

CONSTANTS Watchers,     \* users that send MONITOR
          MonitorLimit  \* MONITOR_LIMIT

ASSUME MonitorAssumption ==
    /\ Watchers \subseteq Users
    /\ IsFiniteSet(Nicks)
    /\ MonitorLimit \in Nat

VARIABLES registered,    \* users whose registration is complete
          monitor_list,  \* the nicks each watcher watches
          query,         \* the MONITOR handler of each watcher
          notes,         \* what a handler has still to tell watchers, in order
          heard,         \* the last state of a nick each watcher was sent
          missed         \* nicks that changed since then, and nobody was told

mvars == <<registered, monitor_list, query, notes, heard, missed>>
allvars == <<vars, mvars>>

States == {"online", "offline"}

\* to: the watchers still to be told, once state.users() has been listed.
Note(state, n) == [state |-> state, nick |-> n, listed |-> FALSE, to |-> {}]
NoteSet == [state : States, nick : Nicks, listed : BOOLEAN, to : SUBSET Watchers]

\* ask: the nicks to be looked up still.  MONITOR + looks them up under the
\* write lock of its own user.
NoQuery == [ask |-> {}, online |-> {}, offline |-> {}, locked |-> FALSE]
QuerySet == [ask : SUBSET Nicks, online : SUBSET Nicks, offline : SUBSET Nicks,
             locked : BOOLEAN]

MonitorInit ==
    /\ Init
    /\ registered = {}
    /\ monitor_list = [w \in Watchers |-> {}]
    /\ query = [w \in Watchers |-> NoQuery]
    /\ notes = [u \in Users |-> <<>>]
    /\ heard = [w \in Watchers |-> [n \in Nicks |-> "nothing"]]
    /\ missed = [w \in Watchers |-> {}]

Telling == {u \in Users : notes[u] # <<>>}
Asking == {w \in Watchers : query[w] # NoQuery}
Occupied == Busy \cup Telling \cup Asking

\* A worker polls u, which is in no handler.
Free(u) == u \notin Telling \cup Asking /\ Cardinality(Occupied) < workers

\* What a watcher that is told nothing of the nicks has missed.
Missing(some) == [w \in Watchers |-> missed[w] \cup (monitor_list[w] \cap some)]
-----------------------------------------------------------------------------
(* Steps of NickRegistry that tell nobody. *)
Enter(u) ==
    /\ Free(u) /\ Connect(u)
    /\ UNCHANGED mvars

\* KILL is for registered users.
Start(u) ==
    /\ Free(u)
    /\ \E n \in Nicks :
          ClaimLook(u, n) \/ ClaimRefused(u, n) \/ (u \in registered /\ KillLook(u, n))
    /\ UNCHANGED mvars

Unlocked(u) == u \in Watchers => ~query[u].locked

\* A snapshot of the victim waits for the victim's lock.
Go(u) ==
    /\ u \notin Telling
    /\ \/ ClaimPrior(u) \/ ClaimCheck(u) \/ ClaimEvict(u) \/ ClaimInsert(u)
       \/ KillLookup(u) \/ RemoveTake(u) \/ RemoveCheck(u)
       \/ RemoveSnap(u) /\ Unlocked(victim[u])
    /\ UNCHANGED mvars

\* The slot is freed: of a connection that closes, whose watchers know, or of
\* a killed user.
Evict(u) ==
    /\ RemoveEvict(u)
    /\ missed' = IF conn[u] = "closing" THEN missed ELSE Missing({seen[u]})
    /\ UNCHANGED <<registered, monitor_list, query, notes, heard>>
-----------------------------------------------------------------------------
(* NICK, registration and cleanup. *)

\* Seeded fault: only the new nick is announced.
RenamedToOnly(u) ==
    /\ SetNick(u)
    /\ u \in registered
    /\ notes' = [notes EXCEPT ![u] = <<Note("online", want[u])>>]
    /\ UNCHANGED <<registered, monitor_list, query, heard, missed>>

\* handle_nick of a registered user.
Renamed(u) ==
    /\ SetNick(u)
    /\ u \in registered
    /\ notes' = [notes EXCEPT ![u] =
           <<Note("offline", nick[u]), Note("online", want[u])>>]
    /\ UNCHANGED <<registered, monitor_list, query, heard, missed>>

\* handle_nick before that; it completes the registration if USER has come and
\* CAP is over.
Named(u) ==
    /\ SetNick(u)
    /\ u \notin registered
    /\ registered' \in {registered, registered \cup {u}}
    /\ missed' = Missing({nick[u], want[u]})
    /\ UNCHANGED <<monitor_list, query, notes, heard>>

\* USER or CAP END completes the registration.
Finalize(u) ==
    /\ Free(u) /\ Begin(u)
    /\ u \notin registered /\ nick[u] # NoNick
    /\ registered' = registered \cup {u}
    /\ UNCHANGED <<vars, monitor_list, query, notes, heard, missed>>

\* cleanup: the watchers are told before the user is removed.
Quit(u) ==
    /\ Free(u) /\ Disconnect(u)
    /\ notes' = IF u \in users /\ nick[u] # NoNick
                THEN [notes EXCEPT ![u] = <<Note("offline", nick[u])>>]
                ELSE notes
    /\ UNCHANGED <<registered, monitor_list, query, heard, missed>>
-----------------------------------------------------------------------------
(* notify_online and notify_offline. *)

\* The notes once u's first one has watchers left to be told.
Left(u, rest) ==
    IF rest = {} THEN [notes EXCEPT ![u] = Tail(@)]
    ELSE [notes EXCEPT ![u][1] = [@ EXCEPT !.listed = TRUE, !.to = rest]]

\* state.users(): users that watch nothing are passed over.
NotifyList(u) ==
    /\ u \in Telling /\ ~notes[u][1].listed
    /\ notes' = Left(u, users \cap Watchers)
    /\ UNCHANGED <<vars, registered, monitor_list, query, heard, missed>>

NotifyOne(u, w) ==
    LET note == notes[u][1] IN
    /\ u \in Telling /\ note.listed /\ w \in note.to
    /\ Unlocked(w)
    /\ notes' = Left(u, note.to \ {w})
    /\ IF note.nick \in monitor_list[w]
       THEN /\ heard' = [heard EXCEPT ![w][note.nick] = note.state]
            /\ missed' = [missed EXCEPT ![w] = @ \ {note.nick}]
       ELSE UNCHANGED <<heard, missed>>
    /\ UNCHANGED <<vars, registered, monitor_list, query>>
-----------------------------------------------------------------------------
(* MONITOR. *)
MayMonitor(w) ==
    /\ Free(w) /\ Begin(w)
    /\ w \in registered

\* Seeded fault: the limit is compared with the list before the addition.
MonitorAddOffByOne(w, some) ==
    /\ MayMonitor(w) /\ some # {}
    /\ Cardinality(monitor_list[w]) <= MonitorLimit
    /\ monitor_list' = [monitor_list EXCEPT ![w] = @ \cup some]
    /\ query' = [query EXCEPT ![w] = [NoQuery EXCEPT !.ask = some, !.locked = TRUE]]
    /\ UNCHANGED <<vars, registered, notes, heard, missed>>

\* MONITOR +: beyond the limit the command is refused as a whole.
MonitorAdd(w, some) ==
    /\ MayMonitor(w) /\ some # {}
    /\ Cardinality(monitor_list[w]) + Cardinality(some) <= MonitorLimit
    /\ monitor_list' = [monitor_list EXCEPT ![w] = @ \cup some]
    /\ query' = [query EXCEPT ![w] = [NoQuery EXCEPT !.ask = some, !.locked = TRUE]]
    /\ UNCHANGED <<vars, registered, notes, heard, missed>>

\* MONITOR S asks about the whole list.
MonitorStatus(w) ==
    /\ MayMonitor(w) /\ monitor_list[w] # {}
    /\ query' = [query EXCEPT ![w] = [NoQuery EXCEPT !.ask = monitor_list[w]]]
    /\ UNCHANGED <<vars, registered, monitor_list, notes, heard, missed>>

\* user_by_nick of one nick.  After the last, MONITOR + drops its lock.
MonitorLook(w, n) ==
    /\ n \in query[w].ask
    /\ LET asked == [query[w] EXCEPT !.ask = @ \ {n},
                                     !.locked = @ /\ query[w].ask # {n}]
       IN  query' = [query EXCEPT ![w] =
               IF nicks[n] \in users THEN [asked EXCEPT !.online = @ \cup {n}]
                                     ELSE [asked EXCEPT !.offline = @ \cup {n}]]
    /\ UNCHANGED <<vars, registered, monitor_list, notes, heard, missed>>

\* RPL_MONONLINE and RPL_MONOFFLINE.
MonitorTell(w) ==
    /\ w \in Asking /\ query[w].ask = {}
    /\ heard' = [heard EXCEPT ![w] = [n \in Nicks |->
           IF n \in query[w].online THEN "online"
           ELSE IF n \in query[w].offline THEN "offline" ELSE @[n]]]
    /\ missed' = [missed EXCEPT ![w] = @ \ (query[w].online \cup query[w].offline)]
    /\ query' = [query EXCEPT ![w] = NoQuery]
    /\ UNCHANGED <<vars, registered, monitor_list, notes>>

\* MONITOR - and MONITOR C.
MonitorRemove(w, some) ==
    /\ MayMonitor(w)
    /\ monitor_list[w] \cap some # {}
    /\ monitor_list' = [monitor_list EXCEPT ![w] = @ \ some]
    /\ heard' = [heard EXCEPT ![w] = [n \in Nicks |->
           IF n \in some THEN "nothing" ELSE @[n]]]
    /\ missed' = [missed EXCEPT ![w] = @ \ some]
    /\ UNCHANGED <<vars, registered, query, notes>>
-----------------------------------------------------------------------------
RegistryStep(u) ==
    \/ Enter(u) \/ Start(u) \/ Go(u) \/ Evict(u)
    \/ Renamed(u) \/ Named(u) \/ Finalize(u) \/ Quit(u)

MonitorStep(w) ==
    \/ \E some \in SUBSET Nicks : MonitorAdd(w, some) \/ MonitorRemove(w, some)
    \/ MonitorStatus(w) \/ MonitorTell(w)
    \/ \E n \in Nicks : MonitorLook(w, n)

MonitorNext ==
    \/ \E u \in Users :
          RegistryStep(u) \/ NotifyList(u) \/ \E w \in Watchers : NotifyOne(u, w)
    \/ \E w \in Watchers : MonitorStep(w)

MonitorSpec == MonitorInit /\ [][MonitorNext]_allvars
-----------------------------------------------------------------------------
\* Type invariant.  No list exceeds the limit, which monitor_add compares with
\* the length before the addition and the number of nicks together.
MonitorTypeOK ==
    /\ registered \subseteq Users
    /\ monitor_list \in [Watchers -> SUBSET Nicks]
    /\ \A w \in Watchers : Cardinality(monitor_list[w]) <= MonitorLimit
    /\ query \in [Watchers -> QuerySet]
    /\ notes \in [Users -> Seq(NoteSet)]
    /\ heard \in [Watchers -> [Nicks -> States \cup {"nothing"}]]
    /\ missed \in [Watchers -> SUBSET Nicks]

State(n) == IF nicks[n] \in users THEN "online" ELSE "offline"

\* On one worker, between handlers, what a user was last told of a nick it
\* watches is so, however the nick changed hands since it asked, unless a KILL
\* or a user not registered yet was the last to change it.  The order in which
\* handle_nick and cleanup tell and change (registration.rs:161,
\* connection.rs:282) matters to nobody then.
PresenceIsTrue ==
    workers = 1 /\ Occupied = {} =>
        \A w \in Watchers \cap users :
            \A n \in monitor_list[w] \ missed[w] : heard[w][n] = State(n)
=============================================================================
