------------------------------- MODULE Pipeline -------------------------------
(***************************************************************************)
(* The four services of distributed-system and the NATS server between     *)
(* them.  The gateway publishes a task, one processor of a queue group     *)
(* takes it, asks the enrichers and publishes the result, and every        *)
(* aggregator stores it.  NATS keeps nothing: a message goes to whoever    *)
(* subscribes at that moment, and each service spawns a job per message.   *)
(*                                                                         *)
(* An action is one step of a job, or the server passing on one message.   *)
(* Services crash with all their jobs, and are started again.              *)
(***************************************************************************)
EXTENDS Naturals

CONSTANTS
    Tasks,      \* requests, by the request_id the gateway gives them
    Dotted,     \* those of a type with a dot in it
    Gateway,
    Procs,      \* processors, one queue group
    Enrichers,
    Aggs,       \* aggregators, which share one database
    NoOne,
    MaxFaults   \* bound on crashes, failing jobs, lost messages, late answers

Services == {Gateway} \cup Procs \cup Enrichers \cup Aggs

ASSUME PipelineAssumption ==
    /\ Dotted \subseteq Tasks
    /\ MaxFaults \in Nat
    /\ NoOne \notin Services

VARIABLES
    request,    \* how the gateway's handler of each task stands
    wire,       \* messages published and not yet passed on
    job,        \* the processors' jobs
    enriching,  \* the enrichers' jobs: who enriches what for whom
    storing,    \* the aggregators' jobs
    rows,       \* rows in the database, by who inserted them and the task
    stats,      \* a GET /stats under way, or the last answer
    up,         \* services that run and are subscribed
    faults      \* faults that may still happen

vars == <<request, wire, job, enriching, storing, rows, stats, up, faults>>

Message(kind, t, from, to) == [kind |-> kind, task |-> t, from |-> from, to |-> to]
TaskMessage(t) == Message("task", t, Gateway, NoOne)
EnrichmentRequest(p, t) == Message("ask", t, p, NoOne)
EnrichmentResponse(e, p, t) == Message("reply", t, e, p)
TaskResult(p, t) == Message("result", t, p, NoOne)

Messages ==
    {TaskMessage(t) : t \in Tasks}
    \cup {EnrichmentRequest(p, t) : p \in Procs, t \in Tasks}
    \cup {EnrichmentResponse(e, p, t) : e \in Enrichers, p \in Procs, t \in Tasks}
    \cup {TaskResult(p, t) : p \in Procs, t \in Tasks}

Counts == [Aggs -> [Tasks -> Nat]]
NoRows == [a \in Aggs |-> [t \in Tasks |-> 0]]

\* total and grouped: the rows each of the two queries counted.
NoStats == [for |-> NoOne, total |-> NoRows, grouped |-> NoRows]

Init ==
    /\ request = [t \in Tasks |-> "new"]
    /\ wire = {} /\ enriching = {} /\ storing = {}
    /\ job = [p \in Procs |-> [t \in Tasks |-> "none"]]
    /\ rows = NoRows /\ stats = NoStats
    /\ up = Services
    /\ faults \in 0 .. MaxFaults
-----------------------------------------------------------------------------
(***************************************************************************)
(* The gateway.                                                            *)
(***************************************************************************)
Submit(t) ==
    /\ Gateway \in up /\ request[t] = "new"
    /\ request' = [request EXCEPT ![t] = "open"]
    /\ wire' = wire \cup {TaskMessage(t)}
    /\ UNCHANGED <<job, enriching, storing, rows, stats, up, faults>>

\* The publication fails: 500.
Refuse(t) ==
    /\ Gateway \in up /\ request[t] = "new"
    /\ request' = [request EXCEPT ![t] = "refused"]
    /\ UNCHANGED <<wire, job, enriching, storing, rows, stats, up, faults>>

\* Seeded fault: the task is published again before the answer.
AcceptAfterRetry(t) ==
    /\ request[t] = "open"
    /\ request' = [request EXCEPT ![t] = "accepted"]
    /\ wire' = wire \cup {TaskMessage(t)}
    /\ UNCHANGED <<job, enriching, storing, rows, stats, up, faults>>

\* 202.
Accept(t) ==
    /\ request[t] = "open"
    /\ request' = [request EXCEPT ![t] = "accepted"]
    /\ UNCHANGED <<wire, job, enriching, storing, rows, stats, up, faults>>
-----------------------------------------------------------------------------
(***************************************************************************)
(* The processors and the enrichers.                                       *)
(***************************************************************************)
SetJob(p, t, state) == job' = [job EXCEPT ![p][t] = state]

\* Seeded fault: a processor that is gone is still in the queue group.
DeliverTaskToGone(t) ==
    /\ TaskMessage(t) \in wire
    /\ wire' = wire \ {TaskMessage(t)}
    /\ \E p \in Procs : SetJob(p, t, "working")
    /\ UNCHANGED <<request, enriching, storing, rows, stats, up, faults>>

\* One of the queue group gets the task.  Nobody does when none runs, or when
\* the subject has more tokens than "tasks.*" matches.
DeliverTask(t) ==
    /\ TaskMessage(t) \in wire
    /\ wire' = wire \ {TaskMessage(t)}
    /\ \/ t \notin Dotted /\ \E p \in Procs \cap up : SetJob(p, t, "working")
       \/ (t \in Dotted \/ Procs \cap up = {}) /\ UNCHANGED job
    /\ UNCHANGED <<request, enriching, storing, rows, stats, up, faults>>

\* The delay is over: request-reply with the enrichers.
AskEnricher(p, t) ==
    /\ job[p][t] = "working"
    /\ SetJob(p, t, "asking")
    /\ wire' = wire \cup {EnrichmentRequest(p, t)}
    /\ UNCHANGED <<request, enriching, storing, rows, stats, up, faults>>

\* Every enricher takes the request.  With none there, NATS answers "no
\* responders", an error that ends the job.
DeliverAsk(p, t) ==
    /\ EnrichmentRequest(p, t) \in wire
    /\ wire' = wire \ {EnrichmentRequest(p, t)}
    /\ enriching' = enriching \cup {<<e, p, t>> : e \in Enrichers \cap up}
    /\ IF Enrichers \cap up = {} THEN SetJob(p, t, "none") ELSE UNCHANGED job
    /\ UNCHANGED <<request, storing, rows, stats, up, faults>>

Answer(e, p, t) ==
    /\ <<e, p, t>> \in enriching
    /\ enriching' = enriching \ {<<e, p, t>>}
    /\ wire' = wire \cup {EnrichmentResponse(e, p, t)}
    /\ UNCHANGED <<request, job, storing, rows, stats, up, faults>>

\* The first answer counts; one that nobody waits for is dropped.
DeliverReply(e, p, t) ==
    /\ EnrichmentResponse(e, p, t) \in wire
    /\ wire' = wire \ {EnrichmentResponse(e, p, t)}
    /\ IF job[p][t] = "asking" THEN SetJob(p, t, "enriched") ELSE UNCHANGED job
    /\ UNCHANGED <<request, enriching, storing, rows, stats, up, faults>>

\* An answer may still come.
Awaited(p, t) ==
    \/ EnrichmentRequest(p, t) \in wire
    \/ \E e \in Enrichers :
           <<e, p, t>> \in enriching \/ EnrichmentResponse(e, p, t) \in wire

\* Seeded fault: the timeout is shorter than an enrichment takes.
TimeOutEarly(p, t) ==
    /\ job[p][t] = "asking"
    /\ SetJob(p, t, "none")
    /\ UNCHANGED <<request, wire, enriching, storing, rows, stats, up, faults>>

\* Seeded fault: the request has no timeout.
TimeOutNever(p, t) == FALSE /\ UNCHANGED vars

\* enrich_timeout has passed.  An answer that is late is a fault (Fail).
TimeOut(p, t) ==
    /\ job[p][t] = "asking" /\ ~Awaited(p, t)
    /\ SetJob(p, t, "none")
    /\ UNCHANGED <<request, wire, enriching, storing, rows, stats, up, faults>>

PublishResult(p, t) ==
    /\ job[p][t] = "enriched"
    /\ SetJob(p, t, "none")
    /\ wire' = wire \cup {TaskResult(p, t)}
    /\ UNCHANGED <<request, enriching, storing, rows, stats, up, faults>>
-----------------------------------------------------------------------------
(***************************************************************************)
(* The aggregators.                                                        *)
(***************************************************************************)
\* There is no queue group: each aggregator takes the result.
DeliverResult(p, t) ==
    /\ TaskResult(p, t) \in wire
    /\ wire' = wire \ {TaskResult(p, t)}
    /\ storing' = storing \cup {<<a, t>> : a \in Aggs \cap up}
    /\ UNCHANGED <<request, job, enriching, rows, stats, up, faults>>

\* Seeded fault: an insertion whose outcome is in doubt is tried again.
InsertAgain(a, t) ==
    /\ <<a, t>> \in storing
    /\ rows' = [rows EXCEPT ![a][t] = IF @ < 2 THEN @ + 1 ELSE @]
    /\ storing' \in {storing, storing \ {<<a, t>>}}
    /\ UNCHANGED <<request, wire, job, enriching, stats, up, faults>>

\* A plain INSERT: no column but the row's own id is unique.
Insert(a, t) ==
    /\ <<a, t>> \in storing
    /\ storing' = storing \ {<<a, t>>}
    /\ rows' = [rows EXCEPT ![a][t] = @ + 1]
    /\ UNCHANGED <<request, wire, job, enriching, stats, up, faults>>

\* query_stats counts all rows, then the rows of each type, in two statements
\* that are no transaction.  One GET /stats at a time.
CountTotal(a) ==
    /\ a \in up /\ stats.for = NoOne
    /\ stats' = [for |-> a, total |-> rows, grouped |-> NoRows]
    /\ UNCHANGED <<request, wire, job, enriching, storing, rows, up, faults>>

\* Seeded fault: the rows of each type are counted first.
CountTotalLast(a) ==
    /\ stats.for = a
    /\ stats' = [for |-> NoOne, total |-> rows, grouped |-> stats.total]
    /\ UNCHANGED <<request, wire, job, enriching, storing, rows, up, faults>>

CountByType(a) ==
    /\ stats.for = a
    /\ stats' = [stats EXCEPT !.for = NoOne, !.grouped = rows]
    /\ UNCHANGED <<request, wire, job, enriching, storing, rows, up, faults>>
-----------------------------------------------------------------------------
(***************************************************************************)
(* Faults.                                                                 *)
(***************************************************************************)
\* A job ends with an error: a processor's (a late answer among others), an
\* enricher's, or an insertion that the database refuses.
Fail ==
    /\ faults > 0 /\ faults' = faults - 1
    /\ \/ /\ \E p \in Procs, t \in Tasks :
                 job[p][t] # "none" /\ SetJob(p, t, "none")
          /\ UNCHANGED <<enriching, storing>>
       \/ /\ \E x \in enriching : enriching' = enriching \ {x}
          /\ UNCHANGED <<job, storing>>
       \/ /\ \E x \in storing : storing' = storing \ {x}
          /\ UNCHANGED <<job, enriching>>
    /\ UNCHANGED <<request, wire, rows, stats, up>>

\* NATS delivers at most once.
Lose ==
    /\ faults > 0 /\ faults' = faults - 1
    /\ \E m \in wire : wire' = wire \ {m}
    /\ UNCHANGED <<request, job, enriching, storing, rows, stats, up>>

\* Its jobs die, and what it has published may not have left its buffer.
Crash(i) ==
    /\ i \in up /\ faults > 0 /\ faults' = faults - 1
    /\ up' = up \ {i}
    /\ request' = [t \in Tasks |-> IF i = Gateway /\ request[t] = "open"
                                      THEN "cut" ELSE request[t]]
    /\ \E lost \in SUBSET {m \in wire : m.from = i} : wire' = wire \ lost
    /\ job' = [p \in Procs |-> IF p = i THEN [t \in Tasks |-> "none"] ELSE job[p]]
    /\ enriching' = {x \in enriching : x[1] # i}
    /\ storing' = {x \in storing : x[1] # i}
    /\ stats' = IF stats.for = i THEN NoStats ELSE stats
    /\ UNCHANGED rows

Restart(i) ==
    /\ i \in Services \ up
    /\ up' = up \cup {i}
    /\ UNCHANGED <<request, wire, job, enriching, storing, rows, stats, faults>>
-----------------------------------------------------------------------------
ProcessorStep(p, t) ==
    \/ AskEnricher(p, t) \/ DeliverAsk(p, t) \/ TimeOut(p, t)
    \/ PublishResult(p, t) \/ DeliverResult(p, t)

\* What takes a task further without a fault.
Progress(t) ==
    \/ Accept(t) \/ DeliverTask(t)
    \/ \E p \in Procs : ProcessorStep(p, t)
    \/ \E p \in Procs, e \in Enrichers : Answer(e, p, t) \/ DeliverReply(e, p, t)
    \/ \E a \in Aggs : Insert(a, t)

Next ==
    \/ \E t \in Tasks : Submit(t) \/ Refuse(t) \/ Progress(t)
    \/ \E a \in Aggs : CountTotal(a) \/ CountByType(a)
    \/ \E i \in Services : Crash(i) \/ Restart(i)
    \/ Fail \/ Lose

Spec == Init /\ [][Next]_vars

\* The server passes on every message, jobs run on, and a service that has
\* stopped is started again.
Fairness ==
    /\ \A t \in Tasks : WF_vars(Progress(t))
    /\ \A i \in Services : WF_vars(Restart(i))

FairSpec == Spec /\ Fairness
-----------------------------------------------------------------------------
\* Type invariant; jobs are jobs of services that run, as a crash ends them.
TypeOK ==
    /\ request \in [Tasks -> {"new", "open", "accepted", "refused", "cut"}]
    /\ wire \subseteq Messages
    /\ job \in [Procs -> [Tasks -> {"none", "working", "asking", "enriched"}]]
    /\ enriching \subseteq (Enrichers \cap up) \X Procs \X Tasks
    /\ storing \subseteq (Aggs \cap up) \X Tasks
    /\ \A p \in Procs \ up : job[p] = [t \in Tasks |-> "none"]
    /\ rows \in Counts
    /\ stats \in [for : (Aggs \cap up) \cup {NoOne}, total : Counts, grouped : Counts]
    /\ up \subseteq Services
    /\ faults \in 0 .. MaxFaults

\* However many processors, enrichers and aggregators there are, and whatever
\* crashes, is lost or comes late, no aggregator stores a task twice: the
\* insertion (db.rs:21) has no constraint that would refuse a second row, so
\* this rests on the queue group and on nothing being sent again.
OncePerAggregator == \A a \in Aggs, t \in Tasks : rows[a][t] <= 1

\* The two queries of query_stats (db.rs:72, :76) see different rows, but the
\* total in the answer never exceeds what its by_task_type adds up to.
StatsNeverOvercount ==
    stats.for = NoOne =>
        \A a \in Aggs, t \in Tasks : stats.total[a][t] <= stats.grouped[a][t]

\* A task that is submitted once everything runs and no further fault happens,
\* and for which the gateway answers 202, is stored in the end, unless its type
\* has a dot.
SteadyTasksAreStored ==
    \A t \in Tasks \ Dotted :
        []((faults = 0 /\ up = Services /\ request[t] = "new"
               /\ <>(request[t] = "accepted"))
            => <>(\E a \in Aggs : rows[a][t] > 0))

\* No job of a processor waits for ever, whoever crashes or whatever gets lost:
\* the timeout of the enrichment request (main.rs:136) ends it.
JobsEnd ==
    \A p \in Procs, t \in Tasks : job[p][t] # "none" ~> job[p][t] = "none"

\* On its way to the aggregator a, or stored there: a task with its message, a
\* job with whatever it waits for, or its result.
Bound(t, a) ==
    \/ TaskMessage(t) \in wire
    \/ \E p \in Procs :
           \/ job[p][t] \in {"working", "enriched"}
           \/ job[p][t] = "asking" /\ Awaited(p, t)
           \/ TaskResult(p, t) \in wire
    \/ <<a, t>> \in storing \/ rows[a][t] > 0

\* From the moment the gateway publishes it (submit_task) until each aggregator
\* has stored it (process_message, handle_enrich_request, run_nats_consumer,
\* insert_result), a task is lost to an aggregator only by a fault, or because
\* no processor, no enricher, or not that aggregator was there to take it on;
\* no order of messages, jobs and timeouts loses one.
Losses ==
    \A t \in Tasks \ Dotted, a \in Aggs :
        Bound(t, a) \/ (request[t] = "new" /\ request'[t] = "open") =>
            \/ Bound(t, a)'
            \/ faults' < faults
            \/ Procs \cap up = {} \/ Enrichers \cap up = {} \/ a \notin up
LossesAreFaults == [][Losses]_vars

\* What is left of a task that can still be stored.
UnderWay(t) ==
    \/ \E m \in wire : m.task = t /\ m.kind \in {"task", "result"}
    \/ \E p \in Procs : job[p][t] # "none"
    \/ \E a \in Aggs : <<a, t>> \in storing

Fate == [t \in Tasks |->
    IF request[t] \in {"new", "refused"} THEN "new"
    ELSE IF UnderWay(t) THEN "underway" ELSE "over"]

D == INSTANCE Delivery WITH Stores <- Aggs, fate <- Fate, stored <- rows

\* The services together do what Delivery promises: a task whose jobs and
\* messages are gone never comes back, as nobody retries, and each aggregator
\* stores it at most once before that.
ImplementsDelivery == D!Spec
=============================================================================
