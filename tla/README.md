# A verification of the concurrent programs of rnd-rust

The repository is an archive of twelve independent Rust programs that share no
code and no state. This project is about the three whose core is concurrent,
stateful protocol logic:

* the IRC server, `src/irc/crates/irc-server`: tasks over shared maps;
* the orchestration of EVM trading tasks in `src/dex-volume-app/backend`:
  workers, a work queue, ownership records, heartbeats and a sweep;
* the task pipeline `src/distributed-system`: four services over NATS.

Paths in the sections on the IRC server are relative to that crate's `src/`
unless they begin with `src/`; those in the sections on the others name the
file, whose full path is in `PROJECT.json`.

## The system

### The IRC server: parts, state, operations

| Part | Source | State | Operations |
|---|---|---|---|
| connection limiter | `limiter.rs` | concurrent map from address to counter | `try_acquire`, `release` |
| flood control | `flood.rs` | tokens and time of last refill, per connection | `try_consume` |
| connection driver | `connection.rs` | two tasks per connection, an outbound queue of 256 messages, a registration deadline | accept, admit, read and dispatch a frame, time out, write, clean up |
| nickname registry | `state/mod.rs`, `handler/registration.rs` | maps `users` (id to user) and `nicks` (nick to id), the nick in each `User` | `claim_nick`, `remove_user`, `user_by_nick`; NICK, USER, CAP, PASS |
| channel registry | `state/mod.rs`, `state/channel.rs`, `handler/channel.rs`, `handler/mode.rs`, `handler/messaging.rs` | map `channels` (name to shared `Channel`), members and their modes in each | JOIN, PART, TOPIC, NAMES, MODE, PRIVMSG, NOTICE, removal of empty channels, purge of a user |
| operators | `handler/oper.rs`, `oper.rs` | class of each operator, K-line list | OPER, KILL, KLINE, UNKLINE |
| accounts, SASL | `handler/account.rs`, `handler/sasl.rs`, `store.rs` | account store, mechanism and account of a session | REGISTER, VERIFY, AUTHENTICATE |
| MONITOR | `handler/monitor.rs` | watch list of each user | add, remove, list, status, notifications |
| listeners | `runtime.rs`, `main.rs`, `tls.rs`, `proxy_proto.rs` | accept loops, shutdown signal | accept, shut down |
| bouncer | `src/irc/crates/irc-bnc` | upstream connection, channel list, message buffers, relay | connect, buffer, replay, relay |
| client core | `src/irc/crates/irc-client-core` | the client's view of networks and channels | apply a message, connect, DCC |
| protocol | `src/irc/crates/irc-proto` | none | parse, serialise |

### The IRC server: how the parts interact

One tokio runtime runs everything; `main.rs` builds it with
`new_multi_thread`, so it has one worker thread per core. Each accepted socket
becomes a reader task and a writer task. The reader takes a slot of the
limiter, inserts the `User` into `users`, and handles one frame at a time: a
handler looks users and channels up in the maps of `ServerState`, clones the
counted reference, drops the map's lock, and goes on with the clone. It speaks
to other users by pushing into the queue their writer task drains. There are no
transactions: a handler that checks one map and changes another does so in
separate locked accesses, and handlers of other connections run in between
whenever there is a second worker. Except for account commands no handler
awaits, so on a single worker every handler runs undisturbed.

### EVM task orchestration

| Part | Source | State | Operations |
|---|---|---|---|
| ownership records | `task_ownership.rs` | in Redis, per project: the worker and the generation of its claim | `claim_task`, `release_task`, `force_release`, `get_owner` |
| heartbeats, failures | `task_heartbeat.rs`, `task_state.rs` | a key with a TTL of 30 s, a counter | refresh, clear, look; count, reset |
| requests | `start_task.rs`, `stop_task.rs` | `projects.status` in Postgres | guard, mark, publish a command on the JetStream work queue |
| commands | `commands.rs`, `worker-evm/src/main.rs` | the queue `VM_EVM_COMMANDS` | fetch, spawn, acknowledge; claim and start, or stop |
| trading loop | `volume_maker.rs` | the task in a Redis hash | set up, beat, check, trade, nap or pause; stop itself after failures in a row |
| worker process | `worker-evm/src/main.rs`, `init.rs` | its `worker_id` | start-up recovery, shutdown |
| orphan sweep | `orphan_sweep.rs` | a restart lock | once a minute: find running projects that do not beat, force-release, ask for a start |

The api-server asks a worker by request-reply; any worker of the group answers,
marks the project running and publishes a command; any worker consumes it,
claims the project and spawns the loop. The loop looks at the beginning of each
iteration whether its task is still in the hash and whether the record's
generation is still the one it claimed. Nothing else stops a loop whose project
has been given to another worker.

### The task pipeline

`gateway` accepts a task over HTTP, publishes it on `tasks.<type>` and answers
202. The `processor`s form a queue group; one of them spawns a job, which waits,
asks the enrichers by request-reply with a timeout, and publishes the result on
`results.<type>`. Every `aggregator` subscribes to all results and inserts each
into the one database; `GET /stats` counts the rows by two queries. NATS is used
without JetStream: a message reaches those subscribed at that moment, once at
most. Every message is handled by a spawned job, and nothing is retried.

### The other programs

`irc-bnc` and `irc-proto` belong to the IRC stack and are listed below as planned
or left out; of `irc-client-core` the lists of members are modelled. The Solana worker, the simulations and the
web parts of `dex-volume-app`, and `perception`, `bambu-homelab`, `makana`,
`monitored`, `downloader`, `localsend-rs`, `solana-twitter-sniper`,
`solana-thunder` and `solana-rpc-tester` are listed in `PROJECT.json` as not
modelled, with the reason.

### What is hard, and what makes each part correct

* *Check, drop the lock, act.* `release`, `claim_nick`, `remove_user`,
  `remove_empty_channel` and the channel handlers all do it. Correct means: the
  limit holds and no counter is left over; a nick leads to the user who bears
  it; a channel that can be found has only live members; on one worker, where
  nothing interferes, the registries are exact.
* *Removal by two hands.* KILL removes a user while its connection goes on;
  cleanup removes it when the connection ends. Correct means: the peers are
  told, the slot is released once, nothing stays in the maps.
* *Told before or after.* MONITOR answers from the maps of the moment, and NICK
  and cleanup tell the watchers one by one, after or before the maps change.
  Correct means: what a watcher was last told of a nick is so.
* *What the client shows.* JOIN, PART, QUIT and NAMES reach a client through a
  queue that drops what it cannot hold, and the client adds and strikes nicks as
  they come. Correct means: its list of a channel becomes the server's, unless a
  message was dropped, and then until the client leaves the channel.
* *Termination by reference counting.* The writer ends when the last reference
  to the `User` is dropped. Correct means: every connection whose reading has
  ended is given up.
* *Time.* The deadline races the frames; the bucket's arithmetic decides who is
  cut off.
* *Who runs the project?* Start requests, queued commands, the sweep and
  start-up recovery may all lead to a loop, on two workers, while an older loop
  sleeps. Correct means: of the loops that claimed one record, one is current;
  whatever crashes, a project marked running is traded again or stopped; and, as
  the guards' comments say, two loops of a generation never trade, which fails.
* *At most once.* Nothing in the pipeline refuses a second row. Correct means:
  no aggregator stores a task twice, a task whose jobs and messages are gone
  stays gone, no job waits for ever, and a task of a steady system is stored.

`PROJECT.json` lists these as hazards at their lines, with the properties that
cover them and, where none does yet, what is planned.

## The modules

| Module | Models | Role |
|---|---|---|
| `SlotPool` | what the limiter promises: connections that hold slots of an address, up to a limit | abstract specification, implemented by `ConnLimiter` and by `Connection` |
| `Rooms` | what the channel registry promises: a relation of users to channels and its operators | abstract specification |
| `ConnLimiter` | `limiter.rs` | implements `SlotPool` |
| `FloodBucket` | `flood.rs` and the kick in `connection.rs` | component |
| `NickRegistry` | `users`, `nicks`, NICK, KILL, cleanup | component |
| `Monitor` | watch lists, MONITOR, its notifications in NICK and cleanup, completed registrations | composition: extends `NickRegistry` |
| `ChannelRegistry` | `channels`, JOIN, PART, MODE o, channel messages, KILL, cleanup | component, implements `Rooms` |
| `ClientView` | JOIN, PART, QUIT and NAMES through the users' queues to the client core's lists of members | composition: extends `ChannelRegistry` |
| `Connection` | `connection.rs`, with the slots as a count, KILL and cleanup as seen by the tasks | composition |
| `TaskOwnership` | the scripts of `task_ownership.rs` on one record, as operators | used by `VolumeTask` |
| `VolumeTask` | one project: requests, queue, handlers, loop, heartbeat, worker processes, sweep | composition |
| `Delivery` | what the pipeline promises of a task and its stores | abstract specification |
| `Pipeline` | gateway, processors, enrichers, aggregators, and NATS between them | implements `Delivery` |
| `MC…` | instances for TLC | |
| `…Proofs` | theorems for TLAPS | |

Each module abstracts the others to what it needs. `Connection` keeps the
limiter as a count of one address's slots, and is proved to implement the same
`SlotPool` as `ConnLimiter`: the driver asks for slots and gives them back as
the limiter's counters expect. The nick and channel modules start a user's life
at admission and end it at cleanup, and `Connection` shows when these happen.

`Rooms` says what is left of the channel registry without `Channel` objects,
lookups, locks and jobs: one user at a time enters or leaves, the first to enter
is operator, operators make others operators. A channel loses its members in
another way, `Split`, only where handlers interleave. The refinement mapping
takes the members and operators of the object the name leads to.

### Grain and correspondence

One action is one access to shared state under one lock, or one poll of a task
up to such an access. The program counter of a handler, with the locals it
carries, is `pc` (with `want`, `seen`, `victim`) in `NickRegistry`, the record
`job` in `ChannelRegistry`, and `pc` in `Connection`. An access map from each
definition to its lines is in `PROJECT.json`, "map".

`Monitor` takes the steps of `NickRegistry` and adds what they tell: a handler
with watchers to tell goes on with `notes`, the list of nicks to be announced,
each of them first listing the users and then looking at one watcher after the
other; a MONITOR command goes on with `query`, one lookup of a nick after the
other, which MONITOR + does under its own user's lock, so that others that look
at that user wait. Adding nicks and taking the lock are one step, since nobody
sees the list before the lock is dropped; so are the two halves of
`user_by_nick`, which looks at two maps: the answer is true at the second look
or at the first. A handler that returns forgets its locals.

`ClientView` takes the steps of `ChannelRegistry` and adds what they send: `rest`
is what a handler has still to send, with the recipients it noted when it read
the member lists, and a handler that has something left keeps its worker. A
message goes to all followed clients in one step, which is exact for the one
client the run follows, and the walk that finds the peers of a user is one step;
`Viewers` chooses the clients followed for each number of workers. The queue, the
writer task and the socket are one bounded queue, whose client takes messages
whenever it likes. Users stand for their nicks.

`NickRegistry` and `ChannelRegistry` model the worker threads: a handler that
is under way occupies one, and another begins only if one is free. `workers`
takes a value of `WorkerCounts` at the start and keeps it, so a single run
covers the server on one core and on several, and a property may say which it
is about. In `Connection` all interleavings are allowed.

In `VolumeTask` everything a worker runs is a job: the list of the calls it is
still to make, each one access to Redis, Postgres or the queue, and one step.
A handler is its list (`StartRequest`, `StopCommand`, ...); guards cut the list
short; the loop replaces its list by the next stage. Jobs of two workers, and of
one, interleave freely and die with their process. Single steps are: the status
and the heartbeat read by the start request's guard, the three reads of the
loop's check, `get_owner` with `force_release` in the sweep, and the delivery of
a command with its acknowledgement, between which the code does nothing but
spawn. An iteration's trades are one step, `Work`, with what they do to the
failure counter, which is capped at the number it is compared with. Projects
have wallets, Redis and Postgres answer, `WORKER_ID` is set, so that a worker
that comes back finds its records, and there is one api-server, whose restart
lock has always expired by its next sweep. Locking a project, which ends in a
stop request, is left out.

In `Pipeline` an action is one step of a job, or NATS passing one message on.
NATS itself is external and does not fail; a message may be lost, a job may end
with an error at any moment (an answer that comes too late is one), a service
may crash with its jobs and with what it published and did not flush. One
`GET /stats` runs at a time. Serialisation does not fail.

What data means is abstracted: frames are kinds chosen when they are read,
messages are counted, nicks and channel names are case-folded model values,
numerics and texts are left out. MONITOR compares nicks without regard to ASCII
case and the nick map folds by RFC 1459; the difference, in four characters, is
left out. `FloodBucket` counts tokens in units of `1/Q`
where the code has a `f64`. A `Channel` object that nothing refers to any more
is freed and its identity used again; so a run needs as many objects as can be
referred to at a time, not as many as are ever made. A task of the
pipeline is its id and whether its type has a dot in it.

History variables record what no program variable remembers: `told` (what each
client has been told of its channels), `killed`, `announced`, the window and
refill accounts of `FloodBucket`, `heard` and `missed` of `Monitor` (what a
watcher was last sent of a nick, and whether the nick changed since then without
anybody being told), `lost` of `ClientView` (the lists that a dropped message
spoils, until the client's own PART reaches it), and `fresh` in a job of `VolumeTask`: the
record has not been deleted since the job claimed it. No action depends on them.

Definitions that begin with "Seeded fault:" are alternatives of the definition
after them, each with a mistake such code could contain. Nothing uses them in
the runs; each shows that a property notices its mistake.

## Checked with TLC

| Run | Instance | Shows |
|---|---|---|
| `limiter` | 3 tasks, 2 addresses, limit 2, counters modulo 3 | no slot is lost or given twice, no entry left behind, `SlotPool` implemented |
| `flood` | burst 2, rate 2 per 3 ticks, 8 ticks | every window is bounded, nobody is cut off early |
| `nicks` | 3 users (1 operator, who watches nicks, 1 at a time), 2 nicks, 1 and 2 workers | a nick leads to its bearer; on one worker the registry is exact and the watcher knows its nick's state |
| `nick_race` | the same, 2 workers | **violated**: two users get one nick |
| `channels` | 3 users (1 operator), 1 channel, 1 and 2 workers; on 1 the operator's client behind a queue of 1 | only killed users linger; on one worker clients and server agree, operators are earned, audiences are right, the client's list is true; `Rooms` implemented |
| `kill_ghost` | the same without clients, 1 worker | **violated**: a killed user rejoins |
| `channel_split` | the same without clients, 2 workers | **violated**: a channel with a member is removed |
| `connection` | 2 connections (1 operator), limits 1 and 2, queue of 2 | slots, map and announcements match; killed users are given up; silent ones time out; `SlotPool` implemented |
| `connection_drain` | the same | **violated**: a closed connection is never given up |
| `tasks` | 1 project, 2 workers, 2 jobs at a time, 1 user start, 1 user stop, 1 fault, 1 queued command | claims tell loops apart; a running project is traded again or stopped |
| `tasks_twice` | the same | **violated**: two loops of one generation trade |
| `pipeline` | 2 tasks (1 with a dotted type), 2 processors, 2 enrichers, 2 aggregators, 2 faults | stored once at most, statistics add up, only faults lose tasks, jobs end, steady tasks arrive, `Delivery` implemented |

Why the bounds are enough. A race here needs two handlers and something they
disagree about: three users give a third party that observes or is looked up,
two nicks a rename (and a list of one nick a limit that is met), one channel a reuse of the same name. Three objects are
one for the map and one for each of two workers. The limiter's race needs one
releasing and one acquiring task of the same address, the third task holds or
takes the slot, and the second address shows that they do not mix. `MaxU32`
is 2 so that a decrement below zero would show as a wrap-around to it. In
`FloodBucket` a whole token takes one and a half ticks, so that refills meet the
cap at a fraction, and `MaxTime` covers several refills of the burst. A queue of
two can be full, empty and between.

In `channels` a queue of one message is empty or full, so every message may be
the one that is dropped and every two may both arrive; with a longer queue, or
clients followed on two workers, the run exceeds five minutes.

In `tasks` the sweep's restarts are not counted: the user's one start, and
however many the sweep asks for, run on either worker, so two jobs are a loop and
the handler that is about to replace or stop it, or two loops. One fault is a crash,
a shutdown or a failed set-up at any moment; the heartbeat may expire any number
of times, which is what makes the sweep act. In `pipeline` two of each service
show competition (processors), the first of two answers (enrichers) and two
stores; two faults let one undo what another left. The dotted task checks that
what nobody receives disturbs nothing.

The symmetry sets permute the plain users, the objects and the channels, which
no definition tells apart; the run with liveness uses none.

Deadlock is not checked where the system may stop: when time is up
(`FloodBucket`), when every user is gone, when a project has been stopped and
its users have nothing left to ask (`VolumeTask`), or when all connections are over or,
as `connection_drain` shows, stuck. The limiter and the
pipeline are checked for it.

### Fairness

`Connection`: every step of a reader or writer task is weakly fair, because the
runtime polls every task that is ready, and the deadline elapses. Nothing is
assumed of clients: they may stay silent or connected for ever. In particular a
client that does not read may hold a write up for ever, so a write is fair only
once the peer has closed, when the kernel reports it, and `KilledAreReleased`
excepts the connection that is held up.

`VolumeTask`: every job's next call is weakly fair, and the TTL of a heartbeat
nobody refreshes expires. The sweep, the consumers and the restart of a
process are strongly fair: they are periodic, and they may find the bounded job
slots taken again and again, which is the model's limit and not the code's.
Nothing is assumed of users or of how trades end. `TimePasses` is the one
assumption about speed: a call takes far less than the TTL or the sweep's
minute, so time passes only where a loop trades or sleeps, where nothing runs,
or where no worker is up to fetch. A loop that naps beats every ten seconds and
its key does not expire; one that trades or pauses does not beat.

`Pipeline`: NATS passes messages on and jobs run on, weakly fair for each task,
and a service that has stopped is started again, as the deployments in
`deploy/k8s` do. Faults are never fair.

### Findings

The five violated runs are disagreements between the code and its own
comments; `PROJECT.json`, "findings", quotes them. In short: `claim_nick` is
not atomic; KILL does not end the connection; `remove_empty_channel` may remove
a channel that was just joined; a connection that ends by QUIT, by closing,
by the deadline or by a K-line is never cleaned up while the users map holds
the sender its writer waits for: no QUIT to its peers, its nick and its slot
kept, until a failing write or a KILL ends it; and the ownership record forgets
its generation when it is deleted, so that a loop whose heartbeat ran out while
it traded or paused takes the record of the restarted one for its own.

`Recovered` and `OneCurrentLoop` hold beside the last one: a project is always
served again, at times by two loops; and claims of one record are told apart,
which is all the check can do.

## Proved with TLAPS

* `ConnLimiterProofs`: `NeverOverLimit`, `EntriesAreReclaimed`,
  `LimiterRefinesSlots`, for any finite set of tasks and any limit. The
  inductive invariant `IInv` says that each counter is the number of holders,
  within the limit, and that a zero counter has a task about to remove it. The
  limit alone is not inductive, because the decision is made on the counter.
* `FloodBucketProofs`: `FloodLimit`, `KicksAreDeserved`, for every rate, burst
  and unit. The invariant is a pair of accounts: what the window used and what
  is left never exceed burst and refill; since the bucket was last full nothing
  was lost to the cap, so the account is exact.
* `NickRegistryProofs`: `NicksRouteToBearers` on any number of workers and
  `NicksAreExactOnOneWorker`. The first rests on `Held`, the nick whose slot may
  be a user's at each step of a claim; the second on at most one handler being
  under way, whose intermediate states `SlotsInOrder` and `HandlerInOrder`
  describe. `NicksAreUniqueOnOneWorker`: the property that the run `nick_race`
  violates holds on one worker, at every moment and not only between handlers;
  so the race needs two.
* `MonitorProofs`: every step of `Monitor` is one of `NickRegistry` or leaves it
  alone (`RefinesRegistry`), so the theorems above hold beside MONITOR as well;
  `MonitorTyped`, with the limit of the lists, on any number of workers; and
  `WatchersKnow`, that is `PresenceIsTrue`, on one. The last is inductive only
  with all that a handler may be in the middle of: `Only` says that everybody
  but one user is quiet, and what watchers know is so but for the nicks that
  user's handler is moving (`Moving`), has notes about (`Noting`) or asks about
  (`AsksFor`). `QuitTold` is needed because cleanup tells the watchers first:
  when the user is removed, all that watch its nick already believe it.
* `ChannelRegistryProofs`: `Typed` (operators are members) and
  `GhostsOnlyByKill`, on any number of workers. `GhostsWereKilled` alone is not
  inductive: a handler may add its user to a channel after a removal walked
  past it. `IInv` says why only KILL makes that matter: a handler waiting for
  an object's lock runs for an open connection (`LockersAreOpen`), open users
  are in the users map or killed (`OpenAreKnown`), and a closing user is in no
  channel its own walk has left behind (`ClosingAreLeaving`). `FreedAreEmpty`
  is for JOIN: the object it makes has no members. On one worker
  `RoomsAreTruthful`, `AudienceIsRight` and `NoTakeover`, from a second
  invariant, `ChanInv`: one user is in a handler at most, clients and server
  agree but for what that handler has still to tell or for the user it removes
  (`KnownBut`), only the channels it fills or empties stand empty (`FullBut`),
  and its locals still fit the map (`InOrder`). `Apart` (two names never lead
  to one object) is what makes a change of one member list a change of one
  channel. `ViewIsAServer`: every step of `ClientView` is one of
  `ChannelRegistry` or leaves it alone, so all this holds in the run as well.
  `RegistryIsRooms`, the refinement of `Rooms`, on any number of workers: a
  locked section changes one object, so what is found under one name or nothing
  (`LockedRoom`); a lookup shows an empty object where there was none
  (`LookImplements`); a removal is a `Split`, on one worker of nobody
  (`DropImplements`). Hence `OnlyEmptyRemovedOnOneWorker`: what the run
  `channel_split` violates holds on one worker.
* The queues of `ClientView`, also in `ChannelRegistryProofs`. `ViewTyped`: no
  queue exceeds its bound; it needs `Promised`, that a handler that is to tell a
  change has noted whom, and that KILL tells before it walks. `ViewsAreTrue`,
  that is `ViewIsTrue`: what a client will show once it has taken everything from
  its queue (`Seen`) is the server's list. That is an induction over the queue,
  which the proof makes once, by a least number (`Least`), for two lemmas: a
  message at the end of the queue acts after all the others, and taking the
  first one changes nothing. `ViewSound` says what is still amiss in the middle
  of a handler, and who may see it: members not yet told (`MayMiss`), leavers
  still listed by those whom the handler has noted (`MayKeep`, `Noted`), and the
  list of the one who joins, leaves or is removed (`Own`). Without these the
  property is not inductive, because a handler changes the members in one step
  and tells of it in another.
* `ConnectionProofs`: `Typed`, `SlotsMatch`, `NobodyLeavesSilently` and
  `DriverRefinesSlots`, without use of the fairness. Slots are the number of
  connections between accept and release, so the proof counts: `OneMoreServed`
  and `OneLessServed` say what entering or leaving that set does to its
  cardinality; the same lemmas carry the refinement of `SlotPool`. `Accounted`
  ties the users map to the place of each connection and to what has been
  announced.
* `VolumeTaskProofs`: `Typed` and `Fencing`, for any number of workers and jobs
  and any bounds. `OneCurrentLoop` alone is not inductive: a fresh job could
  hold a generation still to come. `Fenced` says that fresh jobs are of the
  worker in the record and of generations up to the record's, all different,
  and that there are none without a record. `OneLoopWhileRecordIsKept`: what
  `tasks_twice` violates holds in every behaviour in which no record is deleted,
  so that a deletion under a loop is what it takes. The proof follows the lists
  of calls: the calls of a loop stand behind the claim (`Ordered`), so who makes
  one has claimed (`Entitled`).
* `PipelineProofs`: `Typed`, `StoredOnce`, `StatsAddUp`, `OnlyFaultsLose` and
  `Implements`, the refinement of `Delivery`, for any numbers of services, tasks
  and faults.
  `OnePlace` says that a task is in one place on its way: in its task message,
  in the job of one processor, in one result message, or past them; so a result
  is delivered once. `Counted` says that counts taken earlier are of fewer rows.
  The refinement goes action by action: each step that moves a task on is a
  stutter, the step that takes its last place away is `End`, an insertion is
  `Store`, and a crash is an `End` of every task whose last place it was.
  `OnlyFaultsLose` is the safe part of `SteadyTasksAreStored`: a step takes away
  an aggregator's last chance to store a task only if it is a fault or if nobody
  was there to take the task on; so no timeout, late answer or order of messages
  loses one. A job that waits keeps its place by what it waits for (`Awaited`):
  its request, an answer, or an enricher at work.

The assumptions are those the modules name (`LimiterAssumption`,
`FloodAssumption`, `NickAssumption`, `MonitorAssumption`, `ChannelAssumption`,
`ViewAssumption`, `ConnectionAssumption`, `WorkersAssumption`, `BoundsAssumption`,
`PipelineAssumption`): finite sets, naturals, and that markers such as
`Nobody` are not users and `Absent` is not a set of them. TLC evaluates them in the runs.

Every invariant and every action property of a passing run is proved, and so
are the four refinements (`SlotPool` twice, `Rooms`, `Delivery`). Of the
properties of violated runs, `UniqueNick` and `OnlyEmptyRemoved` are proved for
one worker, and `OneLoop` while no ownership record is deleted. Only model-checked is liveness, which the prover cannot treat:
`KilledAreReleased` and `DeadlineEndsSilence` of `Connection`, `Recovered` of
`VolumeTask`, `JobsEnd` and `SteadyTasksAreStored` of `Pipeline`.
No module has recursive operators.

## Not modelled, and the plan

In this order:

1. `Registration` and `Accounts`: CAP, NICK, USER, PASS, SASL and account
   commands of one session against the store, with the awaits between reading
   and using the session's state; a registration is announced once, an account
   is set only after its proof, OPER's required account.
2. `Klines`: bans against connections already admitted; and the order of the
   two locks that `monitor_add` and `registered_count` take, which depends on the
   fairness of the map's own locks.
3. `Bouncer`: buffer, replay, relay and reconnection; the abstract
   specification is a log each client has a prefix of.
4. `Runtime`: shutdown against connections under way.
5. `VolumeTask` with the scheduled locking of projects and two api-servers, and
   the Solana worker, which keeps its tasks by the same records.

The design of the pipeline
(`src/distributed-system/docs/superpowers/specs/2026-03-29-distributed-system-design.md`,
line 312) wants recovery "from pod failure without data loss". The code does not
attempt it: accepted tasks live in jobs' memory and in messages NATS does not
keep. `SteadyTasksAreStored` is therefore about a system in which no further
fault happens, and `Delivery` lets a task end anywhere on its way.

Left out for good: parsing and formatting (`irc-proto`, numerics), hashing and
TLS, the GUI, and the contents of topics and channel modes other than `o`,
which the server stores and nothing reads. In `Monitor` no queue is full: a
watcher that does not read loses presence notices like any other message.
In `ClientView` no nick changes: the server tells a new nick to the user alone, so
that a client's list goes on showing the old one. The client core does not
reconnect: a session starts with no lists and ends with them.
`PresenceIsTrue` excepts the two changes that the code tells nobody, a KILL and
the NICK of a user whose registration is not complete; `missed` keeps account of
them, and the registration itself is not told either. Lost, duplicated or reordered
messages do not arise between the server's tasks, whose queues are reliable
until full; sockets are byte streams that end or fail.
