----------------------------- MODULE VolumeTask -----------------------------
(***************************************************************************)
(* The life of one EVM volume-making project: who may run its trading      *)
(* loop, and how it is started, stopped and recovered.  The api-server     *)
(* asks a worker over NATS to start or stop it; the worker publishes a     *)
(* command on a work queue; any worker consumes it, claims the project in  *)
(* Redis and spawns the loop; the loop proves itself alive by a heartbeat  *)
(* with a TTL, and a sweep in the api-server restarts a running project    *)
(* whose heartbeat is gone.                                                *)
(*                                                                         *)
(* Everything a worker runs - a request handler, a command handler, a      *)
(* loop, its start-up recovery, its shutdown - is a job: a list of calls   *)
(* still to make, each to Redis, Postgres or the work queue, and each one  *)
(* step.  Jobs interleave, and die with their worker.                      *)
(***************************************************************************)
EXTENDS TaskOwnership, Sequences, FiniteSets

CONSTANTS
    Jobs,           \* slots for jobs: at most this many run at once
    MaxFailures,    \* failures in a row after which a loop stops itself
    QueueCap,       \* bound on the commands published or about to be
    MaxStarts,      \* bound on the start requests of users
    MaxStops,       \* bound on the stop requests of users
    MaxFaults       \* bound on crashes and shutdowns of workers and failed set-ups

\* The bounds are numbers, and job slots are numbered.
ASSUME BoundsAssumption ==
    /\ Jobs \subseteq Nat
    /\ {MaxFailures, QueueCap, MaxStarts, MaxStops, MaxFaults} \subseteq Nat

VARIABLES
    status,         \* projects.status in Postgres
    cached,         \* the task is in the Redis hash h:evm:tasks
    owner,          \* the ownership record
    heartbeat,      \* the heartbeat key exists
    failures,       \* the failure counter in Redis
    queue,          \* VM_EVM_COMMANDS, oldest command first
    job,            \* the jobs of the workers
    phase,          \* whether a worker process runs
    sweep,          \* where the orphan sweep is
    budget          \* what is left of the bounded inputs

vars == <<status, cached, owner, heartbeat, failures, queue, job, phase,
          sweep, budget>>

(***************************************************************************)
(* The lists of calls.                                                     *)
(***************************************************************************)
StartRequest == <<"guardAlive", "markRunning", "beat", "publishStart">>
StopRequest == <<"forget", "publishStop", "unbeat", "release", "markStopped">>
StartCommand == <<"guardStatus", "uncache", "claim", "cache", "setup">>
StopCommand == <<"forget", "release">>
AutoStop == <<"uncache", "unbeat", "release", "markStopped">>
Recovery == <<"orphaned", "forceRelease">>
Shutdown == <<"release", "unbeat">>

\* Where a loop is in its iteration, once spawned.
LoopCalls == {"setup", "loopBeat", "check", "work", "nap", "pause"}

Calls == LoopCalls \cup
    {"guardAlive", "markRunning", "beat", "publishStart", "uncache", "forget",
     "publishStop", "unbeat", "release", "markStopped", "guardStatus", "claim",
     "cache", "orphaned", "forceRelease"}

Idle == [at |-> NoWorker, todo |-> <<>>, gen |-> 0, fresh |-> FALSE]

\* gen: the generation the job claimed, which its loop checks.
\* fresh: the ownership record has not been deleted since this job claimed it.
\* It is history, read by no action.
Job == {Idle} \cup [at : Workers, todo : Seq(Calls), gen : Nat, fresh : BOOLEAN]

\* A job whose next call is c.
At(j, c) == job[j].todo # <<>> /\ Head(job[j].todo) = c

Free == {j \in Jobs : job[j] = Idle}

\* The jobs once a worker runs a new one, in the first free slot.
Spawned(w, todo) ==
    LET slot == CHOOSE j \in Free : \A k \in Free : j <= k
    IN  [job EXCEPT ![slot] = [at |-> w, todo |-> todo, gen |-> 0, fresh |-> FALSE]]

\* The jobs once j goes on with the calls of todo, or ends when there are none.
With(j, todo) ==
    [job EXCEPT ![j] = IF todo = <<>> THEN Idle ELSE [@ EXCEPT !.todo = todo]]

Rest(j) == Tail(job[j].todo)

Goto(j, todo) == job' = With(j, todo)

\* The same jobs, none of them having claimed the present record.
Outdated(jobs) ==
    [j \in Jobs |-> [at |-> jobs[j].at, todo |-> jobs[j].todo, gen |-> jobs[j].gen,
                     fresh |-> FALSE]]

\* Room in the queue for what the running requests are still to publish and
\* one command more.
Room ==
    Len(queue) + Cardinality({j \in Jobs :
        \E i \in DOMAIN job[j].todo : job[j].todo[i] \in {"publishStart", "publishStop"}})
        < QueueCap

\* A worker takes requests and commands once its start-up recovery is over.
Taking(w) ==
    /\ phase[w] = "up"
    /\ \A j \in Jobs : job[j].at = w =>
           Head(job[j].todo) \notin {"orphaned", "forceRelease"}
    /\ Free # {}

Init ==
    /\ status = "stopped" /\ cached = FALSE /\ owner = Unowned
    /\ heartbeat = FALSE /\ failures = 0 /\ queue = <<>>
    /\ job = [j \in Jobs |-> Idle]
    /\ phase = [w \in Workers |-> "up"]
    /\ sweep = "idle"
    /\ budget = [starts |-> MaxStarts, stops |-> MaxStops, faults |-> MaxFaults]
-----------------------------------------------------------------------------
(***************************************************************************)
(* Requests of users, and the work queue.                                  *)
(***************************************************************************)
UserStart(w) ==
    /\ budget.starts > 0 /\ Taking(w) /\ Room
    /\ budget' = [budget EXCEPT !.starts = @ - 1]
    /\ job' = Spawned(w, StartRequest)
    /\ UNCHANGED <<status, cached, owner, heartbeat, failures, queue, phase,
                   sweep>>

UserStop(w) ==
    /\ budget.stops > 0 /\ Taking(w) /\ Room
    /\ budget' = [budget EXCEPT !.stops = @ - 1]
    /\ job' = Spawned(w, StopRequest)
    /\ UNCHANGED <<status, cached, owner, heartbeat, failures, queue, phase,
                   sweep>>

\* A worker fetches the oldest command, spawns its handler and acknowledges it.
Consume(w) ==
    /\ queue # <<>> /\ Taking(w)
    /\ queue' = Tail(queue)
    /\ job' = Spawned(w, IF Head(queue) = "START" THEN StartCommand ELSE StopCommand)
    /\ UNCHANGED <<status, cached, owner, heartbeat, failures, phase, sweep, budget>>

Publish(j) ==
    /\ \/ At(j, "publishStart") /\ queue' = Append(queue, "START")
       \/ At(j, "publishStop") /\ queue' = Append(queue, "STOP")
    /\ Goto(j, Rest(j))
    /\ UNCHANGED <<status, cached, owner, heartbeat, failures, phase, sweep, budget>>
-----------------------------------------------------------------------------
(***************************************************************************)
(* The calls of the handlers.                                              *)
(***************************************************************************)
\* start_task_req: a running project that beats is left alone.
GuardAlive(j) ==
    /\ At(j, "guardAlive")
    /\ Goto(j, IF status = "running" /\ heartbeat THEN <<>> ELSE Rest(j))
    /\ UNCHANGED <<status, cached, owner, heartbeat, failures, queue, phase,
                   sweep, budget>>

MarkStatus(j) ==
    /\ \/ At(j, "markRunning") /\ status' = "running"
       \/ At(j, "markStopped") /\ status' = "stopped"
    /\ Goto(j, Rest(j))
    /\ UNCHANGED <<cached, owner, heartbeat, failures, queue, phase, sweep, budget>>

Beat(j) ==
    /\ \/ At(j, "beat") /\ heartbeat' = TRUE
       \/ At(j, "unbeat") /\ heartbeat' = FALSE
    /\ Goto(j, Rest(j))
    /\ UNCHANGED <<status, cached, owner, failures, queue, phase, sweep, budget>>

CacheTask(j) ==
    /\ \/ At(j, "cache") /\ cached' = TRUE
       \/ At(j, "uncache") /\ cached' = FALSE
    /\ Goto(j, Rest(j))
    /\ UNCHANGED <<status, owner, heartbeat, failures, queue, phase, sweep, budget>>

\* A stop removes the task and resets the failure counter.
ForgetTask(j) ==
    /\ At(j, "forget")
    /\ cached' = FALSE /\ failures' = 0
    /\ Goto(j, Rest(j))
    /\ UNCHANGED <<status, owner, heartbeat, queue, phase, sweep, budget>>

\* process_command: a start whose project is not running any more is stale.
GuardStatus(j) ==
    /\ At(j, "guardStatus")
    /\ Goto(j, IF status = "running" THEN Rest(j) ELSE <<>>)
    /\ UNCHANGED <<status, cached, owner, heartbeat, failures, queue, phase,
                   sweep, budget>>

\* claim_task_generation: the generation claimed is what the loop will check.
Claim(j) ==
    LET w == job[j].at IN
    /\ At(j, "claim")
    /\ IF MayClaim(owner, w)
       THEN /\ owner' = Claimed(owner, w)
            /\ job' = [job EXCEPT ![j] =
                   [at |-> w, todo |-> Rest(j), gen |-> Claimed(owner, w).gen,
                    fresh |-> TRUE]]
       ELSE Goto(j, <<>>) /\ UNCHANGED owner
    /\ UNCHANGED <<status, cached, heartbeat, failures, queue, phase, sweep, budget>>

\* release_task, and force_release of start-up recovery, which looks at nothing.
Release(j) ==
    /\ At(j, "release") \/ At(j, "forceRelease")
    /\ IF At(j, "forceRelease") \/ MayRelease(owner, job[j].at)
       THEN owner' = Unowned /\ job' = Outdated(With(j, Rest(j)))
       ELSE Goto(j, Rest(j)) /\ UNCHANGED owner
    /\ UNCHANGED <<status, cached, heartbeat, failures, queue, phase, sweep, budget>>

\* self_initialize leaves a project that still beats alone.
Orphaned(j) ==
    /\ At(j, "orphaned")
    /\ Goto(j, IF heartbeat THEN <<>> ELSE Rest(j))
    /\ UNCHANGED <<status, cached, owner, heartbeat, failures, queue, phase,
                   sweep, budget>>
-----------------------------------------------------------------------------
(***************************************************************************)
(* The loop.                                                               *)
(***************************************************************************)
Draining(j) == phase[job[j].at] = "draining"

\* Pools and keys are fetched once; any failure ends the loop before it began,
\* with the project still running and the record still held.
Setup(j) ==
    /\ At(j, "setup")
    /\ \/ Goto(j, <<"loopBeat">>) /\ UNCHANGED budget
       \/ /\ Goto(j, <<>>)
          /\ budget.faults > 0 /\ budget' = [budget EXCEPT !.faults = @ - 1]
    /\ UNCHANGED <<status, cached, owner, heartbeat, failures, queue, phase,
                   sweep>>

\* An iteration beats first, then looks at the shutdown signal.
LoopBeat(j) ==
    /\ At(j, "loopBeat")
    /\ heartbeat' = TRUE
    /\ Goto(j, IF Draining(j) THEN <<>> ELSE <<"check">>)
    /\ UNCHANGED <<status, cached, owner, failures, queue, phase, sweep, budget>>

\* The loop ends when the task is gone from the cache or the generation is not
\* its own; it compares generations and not who holds the record.  Failures in
\* a row make it stop the project.
Check(j) ==
    /\ At(j, "check")
    /\ Goto(j, IF ~cached \/ GenerationOf(owner) # job[j].gen THEN <<>>
               ELSE IF failures >= MaxFailures THEN AutoStop
               ELSE <<"work">>)
    /\ UNCHANGED <<status, cached, owner, heartbeat, failures, queue, phase,
                   sweep, budget>>

\* The counter, which is only ever compared with MaxFailures.
OneMore == IF failures < MaxFailures THEN failures + 1 ELSE failures

\* One iteration: it dispatches trades, whose outcome counts a failure, resets
\* the counter or is still unknown, and naps; or it fails, or skips the trade,
\* and pauses for the interval.
Work(j) ==
    /\ At(j, "work")
    /\ \/ /\ Goto(j, <<"nap">>)
          /\ failures' \in {0, failures, OneMore}
       \/ /\ Goto(j, <<"pause">>)
          /\ failures' \in {failures, OneMore}
    /\ UNCHANGED <<status, cached, owner, heartbeat, queue, phase, sweep, budget>>

\* The sleep between iterations beats every ten seconds, whoever owns the
\* project by then, and is cut short by a shutdown.
Nap(j) ==
    /\ At(j, "nap")
    /\ \/ ~Draining(j) /\ heartbeat' = TRUE /\ UNCHANGED job
       \/ ~Draining(j) /\ Goto(j, <<"loopBeat">>) /\ UNCHANGED heartbeat
       \/ Draining(j) /\ Goto(j, <<>>) /\ UNCHANGED heartbeat
    /\ UNCHANGED <<status, cached, owner, failures, queue, phase, sweep, budget>>

\* The sleep after a failed or skipped iteration is plain: it does not beat.
Pause(j) ==
    /\ At(j, "pause")
    /\ Goto(j, <<"loopBeat">>)
    /\ UNCHANGED <<status, cached, owner, heartbeat, failures, queue, phase,
                   sweep, budget>>

\* A call of a job, and the fetch of a command, take far less than the TTL or
\* the sweep's period: time passes where a loop sleeps or waits for the chain,
\* where nothing runs, and where no worker is there to fetch.
TimePasses ==
    /\ \A j \in Jobs : job[j] # Idle => Head(job[j].todo) \in {"work", "nap", "pause"}
    /\ queue # <<>> => \A w \in Workers : phase[w] # "up"

\* Seeded fault: the heartbeat is set without a TTL.
HeartbeatStays == heartbeat /\ FALSE /\ UNCHANGED vars

\* A loop that naps beats well within the TTL.
HeartbeatExpires ==
    /\ heartbeat /\ TimePasses
    /\ \A j \in Jobs : ~At(j, "nap")
    /\ heartbeat' = FALSE
    /\ UNCHANGED <<status, cached, owner, failures, queue, job, phase, sweep, budget>>
-----------------------------------------------------------------------------
(***************************************************************************)
(* Worker processes come and go.                                           *)
(***************************************************************************)
\* A crash, or the end of a shutdown's twelve seconds, takes every job along.
Exit(w) ==
    /\ \/ phase[w] = "up" /\ budget.faults > 0
          /\ budget' = [budget EXCEPT !.faults = @ - 1]
       \/ phase[w] = "draining" /\ UNCHANGED budget
    /\ phase' = [phase EXCEPT ![w] = "down"]
    /\ job' = [j \in Jobs |-> IF job[j].at = w THEN Idle ELSE job[j]]
    /\ UNCHANGED <<status, cached, owner, heartbeat, failures, queue, sweep>>

\* What a worker does first or last to the project, if the record names it.
WithOwn(w, todo) == IF owner.worker = w THEN Spawned(w, todo) ELSE job

\* A shutdown releases what get_owned_projects lists; the jobs go on meanwhile.
Drain(w) ==
    /\ budget.faults > 0 /\ Taking(w)
    /\ budget' = [budget EXCEPT !.faults = @ - 1]
    /\ phase' = [phase EXCEPT ![w] = "draining"]
    /\ job' = WithOwn(w, Shutdown)
    /\ UNCHANGED <<status, cached, owner, heartbeat, failures, queue, sweep>>

\* self_initialize of the worker started again under the same worker_id.
Boot(w) ==
    /\ phase[w] = "down" /\ Free # {}
    /\ phase' = [phase EXCEPT ![w] = "up"]
    /\ job' = WithOwn(w, Recovery)
    /\ UNCHANGED <<status, cached, owner, heartbeat, failures, queue, sweep, budget>>
-----------------------------------------------------------------------------
(***************************************************************************)
(* The orphan sweep of the api-server.                                     *)
(***************************************************************************)
\* A running project that does not beat is an orphan.
SweepFinds ==
    /\ sweep = "idle" /\ status = "running" /\ ~heartbeat
    /\ sweep' = "release"
    /\ UNCHANGED <<status, cached, owner, heartbeat, failures, queue, job, phase, budget>>

\* force_release: the record goes, whoever holds it by now.
SweepReleases ==
    /\ sweep = "release"
    /\ sweep' = "restart"
    /\ owner' = Unowned
    /\ job' = Outdated(job)
    /\ UNCHANGED <<status, cached, heartbeat, failures, queue, phase,
                   budget>>

\* The start request reaches a worker of the group, or nobody answers.
SweepRestarts ==
    /\ sweep = "restart"
    /\ sweep' = "asleep"
    /\ \/ \E w \in Workers : Taking(w) /\ Room /\ job' = Spawned(w, StartRequest)
       \/ (\A w \in Workers : phase[w] # "up") /\ UNCHANGED job
    /\ UNCHANGED <<status, cached, owner, heartbeat, failures, queue, phase, budget>>

\* The sweep's minute is over, and with it the restart lock.
SweepWakes ==
    /\ sweep = "asleep" /\ TimePasses
    /\ sweep' = "idle"
    /\ UNCHANGED <<status, cached, owner, heartbeat, failures, queue, job, phase,
                   budget>>
-----------------------------------------------------------------------------
Handler(j) ==
    \/ Publish(j) \/ GuardAlive(j) \/ MarkStatus(j) \/ Beat(j)
    \/ CacheTask(j) \/ ForgetTask(j) \/ GuardStatus(j) \/ Claim(j)
    \/ Release(j) \/ Orphaned(j)

Loop(j) ==
    \/ Setup(j) \/ LoopBeat(j) \/ Check(j) \/ Work(j) \/ Nap(j) \/ Pause(j)

Sweep == SweepFinds \/ SweepReleases \/ SweepRestarts \/ SweepWakes

Next ==
    \/ \E w \in Workers :
          UserStart(w) \/ UserStop(w) \/ Consume(w) \/ Exit(w) \/ Drain(w) \/ Boot(w)
    \/ \E j \in Jobs : Handler(j) \/ Loop(j)
    \/ HeartbeatExpires \/ Sweep

Spec == Init /\ [][Next]_vars

\* The scheduler runs every job; sleeps, TTLs and the sweep's period end; the
\* queue is polled and workers that ended are started again.  A consumer, a
\* boot and the sweep's request may find every slot busy, again and again.
Fairness ==
    /\ \A j \in Jobs : WF_vars(Handler(j) \/ Loop(j))
    /\ WF_vars(HeartbeatExpires)
    /\ SF_vars(Sweep)
    /\ SF_vars(\E w \in Workers : Consume(w) \/ Boot(w))

FairSpec == Spec /\ Fairness
-----------------------------------------------------------------------------
(***************************************************************************)
(* Properties.                                                             *)
(***************************************************************************)
\* Every variable has its type.  A record that is there has a generation from
\* 1 up: a loop of generation 0 would take an absent record for its own
\* (get_task_generation, worker-evm/src/cache/mod.rs).
TypeOK ==
    /\ status \in {"running", "stopped"}
    /\ cached \in BOOLEAN /\ heartbeat \in BOOLEAN
    /\ owner \in Ownership
    /\ failures \in 0 .. MaxFailures
    /\ queue \in Seq({"START", "STOP"})
    /\ job \in [Jobs -> Job]
    /\ phase \in [Workers -> {"up", "draining", "down"}]
    /\ sweep \in {"idle", "release", "restart", "asleep"}
    /\ budget \in [starts : Nat, stops : Nat, faults : Nat]

\* Of all the jobs that claimed the present ownership record, whatever request,
\* command, sweep or restart they come from, one at most carries its
\* generation: the others are superseded and end at their next check
\* (claim_task with the generation check of volume_maker.rs).
OneCurrentLoop ==
    \A i, k \in Jobs :
        /\ job[i].fresh /\ job[i].gen = owner.gen
        /\ job[k].fresh /\ job[k].gen = owner.gen
        => i = k

\* A loop that passed the checks of its iteration and trades.
Serving(j) == At(j, "work")

\* A project marked running comes to be traded, or is stopped, whatever crash,
\* shutdown, failed set-up, refused claim or stale command came in between: the
\* heartbeat runs out and the orphan sweep starts it again.
Recovered == status = "running" ~> (status = "stopped" \/ \E j \in Jobs : Serving(j))

\* What start_task.rs says its guard is for, and volume_maker.rs its check of
\* generations: no two loops trade for the project in one generation.
OneLoop ==
    \A i, k \in Jobs : Serving(i) /\ Serving(k) /\ job[i].gen = job[k].gen => i = k
=============================================================================
