---------------------------- MODULE PipelineProofs ----------------------------
(***************************************************************************)
(* Safety of the pipeline for any tasks, services and faults, and that it  *)
(* implements Delivery.                                                    *)
(*                                                                         *)
(* A task is in one place at a time - the gateway's message, one           *)
(* processor's job, that processor's result, the aggregators' jobs - and   *)
(* moves on only.  While it is in one of the first three places nothing    *)
(* is stored of it, which is why no aggregator can meet it again.          *)
(***************************************************************************)
EXTENDS Pipeline, TLAPS

\* Nothing of the task is stored, or about to be.
Unstored(t) == \A a \in Aggs : <<a, t>> \notin storing /\ rows[a][t] = 0

NotPublished(t) == \A p \in Procs : TaskResult(p, t) \notin wire

NotWorkedOn(t) == \A p \in Procs : job[p][t] = "none"

\* Before the gateway publishes a task there is nothing of it.
BeforeSubmission == \A t \in Tasks :
    request[t] \in {"new", "refused"} =>
        TaskMessage(t) \notin wire /\ NotWorkedOn(t) /\ NotPublished(t) /\ Unstored(t)

AsMessage == \A t \in Tasks :
    TaskMessage(t) \in wire => NotWorkedOn(t) /\ NotPublished(t) /\ Unstored(t)

AsJob == \A p \in Procs, t \in Tasks :
    job[p][t] # "none" =>
        /\ \A q \in Procs : job[q][t] # "none" => p = q
        /\ NotPublished(t) /\ Unstored(t)

AsResult == \A p \in Procs, t \in Tasks :
    TaskResult(p, t) \in wire =>
        /\ \A q \in Procs : TaskResult(q, t) \in wire => p = q
        /\ Unstored(t)

AsRow == \A a \in Aggs, t \in Tasks : <<a, t>> \in storing => rows[a][t] = 0

OnePlace == BeforeSubmission /\ AsMessage /\ AsJob /\ AsResult /\ AsRow

\* What the first query counted is still there for the second.
Counted == \A a \in Aggs, t \in Tasks :
    stats.total[a][t] <= IF stats.for = NoOne THEN stats.grouped[a][t] ELSE rows[a][t]

IInv == TypeOK /\ OnePlace /\ OncePerAggregator /\ Counted
-----------------------------------------------------------------------------
(***************************************************************************)
(* Messages.                                                               *)
(***************************************************************************)
\* A message determines its kind and the task it is about.
LEMMA MessageFields ==
    ASSUME NEW t, NEW p, NEW e
    PROVE  /\ TaskMessage(t).kind = "task" /\ TaskMessage(t).task = t
           /\ EnrichmentRequest(p, t).kind = "ask" /\ EnrichmentRequest(p, t).task = t
           /\ EnrichmentResponse(e, p, t).kind = "reply" /\ EnrichmentResponse(e, p, t).task = t
           /\ TaskResult(p, t).kind = "result" /\ TaskResult(p, t).task = t
           /\ TaskResult(p, t).from = p
BY DEF Message, TaskMessage, EnrichmentRequest, EnrichmentResponse, TaskResult

\* The four sorts of messages are different, and each message of Messages is
\* of one of them.
LEMMA MessageKinds ==
    ASSUME NEW m \in Messages
    PROVE  /\ m.kind = "task" => m = TaskMessage(m.task)
           /\ m.kind = "result" => m.from \in Procs /\ m = TaskResult(m.from, m.task)
           /\ m.task \in Tasks
BY DEF Messages, Message, TaskMessage, EnrichmentRequest, EnrichmentResponse, TaskResult

\* Seen from where a task can be stored, nothing is new: tasks stay where they
\* are or get lost.
Fades ==
    /\ \A t \in Tasks :
        /\ TaskMessage(t) \in wire' => TaskMessage(t) \in wire
        /\ request'[t] \in {"new", "refused"} <=> request[t] \in {"new", "refused"}
    /\ \A p \in Procs, t \in Tasks :
        /\ TaskResult(p, t) \in wire' => TaskResult(p, t) \in wire
        /\ job'[p][t] # "none" => job[p][t] # "none"
    /\ storing' \subseteq storing /\ rows' = rows

\* The actions that do no more than that.
FadingAction ==
    \/ \E t \in Tasks : Refuse(t) \/ Accept(t)
    \/ \E p \in Procs, t \in Tasks :
           AskEnricher(p, t) \/ DeliverAsk(p, t) \/ TimeOut(p, t)
    \/ \E e \in Enrichers, p \in Procs, t \in Tasks :
           Answer(e, p, t) \/ DeliverReply(e, p, t)
    \/ \E a \in Aggs : CountTotal(a) \/ CountByType(a)
    \/ \E i \in Services : Crash(i) \/ Restart(i)
    \/ Fail \/ Lose \/ UNCHANGED vars

\* Every step is one of those, or takes a task to its next place.
LEMMA Steps ==
    ASSUME [Next]_vars
    PROVE  \/ FadingAction
           \/ \E t \in Tasks : Submit(t) \/ DeliverTask(t)
           \/ \E p \in Procs, t \in Tasks : PublishResult(p, t) \/ DeliverResult(p, t)
           \/ \E a \in Aggs, t \in Tasks : Insert(a, t)
  BY DEF Next, Progress, ProcessorStep, FadingAction

\* A task whose job changes its state, or ends, has had a job.
LEMMA JobChanges ==
    ASSUME TypeOK, NEW p \in Procs, NEW t \in Tasks, NEW state, SetJob(p, t, state),
           state = "none" \/ job[p][t] # "none"
    PROVE  \A q \in Procs, u \in Tasks : job'[q][u] # "none" => job[q][u] # "none"
  BY DEF TypeOK, SetJob

\* Wire gains at most a message that is no task and no result.
LEMMA WireChanges ==
    ASSUME NEW m, m.kind \notin {"task", "result"}, wire' \subseteq wire \cup {m}
    PROVE  /\ \A t \in Tasks : TaskMessage(t) \in wire' => TaskMessage(t) \in wire
           /\ \A p \in Procs, t \in Tasks :
                  TaskResult(p, t) \in wire' => TaskResult(p, t) \in wire
  BY MessageFields

\* Enrichment, answers to the client, statistics, faults and restarts bring no
\* task to a new place.
LEMMA Fading ==
    ASSUME TypeOK, FadingAction
    PROVE  Fades
<1>1. ASSUME NEW t \in Tasks, Refuse(t) \/ Accept(t)
      PROVE  Fades
  BY <1>1 DEF Refuse, Accept, Fades, TypeOK
<1>2. ASSUME NEW p \in Procs, NEW t \in Tasks, AskEnricher(p, t)
      PROVE  Fades
  <2>1. wire' \subseteq wire \cup {EnrichmentRequest(p, t)}
    BY <1>2 DEF AskEnricher
  <2>2. EnrichmentRequest(p, t).kind \notin {"task", "result"}
    BY MessageFields
  <2>3. SetJob(p, t, "asking") /\ job[p][t] # "none"
    BY <1>2 DEF AskEnricher
  <2>4. request' = request /\ storing' = storing /\ rows' = rows
    BY <1>2 DEF AskEnricher
  <2>5. QED  BY <2>1, <2>2, <2>3, <2>4, WireChanges, JobChanges DEF Fades
<1>3. ASSUME NEW p \in Procs, NEW t \in Tasks, DeliverAsk(p, t)
      PROVE  Fades
  <2>1. wire' \subseteq wire /\ request' = request /\ storing' = storing /\ rows' = rows
    BY <1>3 DEF DeliverAsk
  <2>2. SetJob(p, t, "none") \/ UNCHANGED job
    BY <1>3 DEF DeliverAsk
  <2>3. QED  BY <2>1, <2>2, JobChanges DEF Fades
<1>4. ASSUME NEW p \in Procs, NEW t \in Tasks, TimeOut(p, t)
      PROVE  Fades
  BY <1>4, JobChanges DEF TimeOut, Fades
<1>5. ASSUME NEW e \in Enrichers, NEW p \in Procs, NEW t \in Tasks, Answer(e, p, t)
      PROVE  Fades
  <2>1. wire' \subseteq wire \cup {EnrichmentResponse(e, p, t)}
    BY <1>5 DEF Answer
  <2>2. EnrichmentResponse(e, p, t).kind \notin {"task", "result"}
    BY MessageFields
  <2>3. request' = request /\ job' = job /\ storing' = storing /\ rows' = rows
    BY <1>5 DEF Answer
  <2>4. QED  BY <2>1, <2>2, <2>3, WireChanges DEF Fades
<1>6. ASSUME NEW e \in Enrichers, NEW p \in Procs, NEW t \in Tasks, DeliverReply(e, p, t)
      PROVE  Fades
  <2>1. wire' \subseteq wire /\ request' = request /\ storing' = storing /\ rows' = rows
    BY <1>6 DEF DeliverReply
  <2>2. (job[p][t] # "none" /\ SetJob(p, t, "enriched")) \/ UNCHANGED job
    BY <1>6 DEF DeliverReply
  <2>3. QED  BY <2>1, <2>2, JobChanges DEF Fades
<1>7. ASSUME NEW a \in Aggs, CountTotal(a) \/ CountByType(a)
      PROVE  Fades
  BY <1>7 DEF CountTotal, CountByType, Fades
<1>8. ASSUME NEW i \in Services, Crash(i)
      PROVE  Fades
  <2>1. wire' \subseteq wire /\ storing' \subseteq storing /\ rows' = rows
    BY <1>8 DEF Crash
  <2>2. \A t \in Tasks : request'[t] \in {"new", "refused"}
                            <=> request[t] \in {"new", "refused"}
    BY <1>8 DEF Crash
  <2>3. \A p \in Procs, t \in Tasks : job'[p][t] # "none" => job[p][t] # "none"
    BY <1>8 DEF Crash
  <2>4. QED  BY <2>1, <2>2, <2>3 DEF Fades
<1>9. ASSUME NEW i \in Services, Restart(i)
      PROVE  Fades
  BY <1>9 DEF Restart, Fades
<1>10. CASE Fail
  <2>1. wire' = wire /\ request' = request /\ storing' \subseteq storing /\ rows' = rows
    BY <1>10 DEF Fail
  <2>2. (\E p \in Procs, t \in Tasks : SetJob(p, t, "none")) \/ UNCHANGED job
    BY <1>10 DEF Fail
  <2>3. QED  BY <2>1, <2>2, JobChanges DEF Fades
<1>11. CASE Lose
  BY <1>11 DEF Lose, Fades
<1>12. CASE UNCHANGED vars
  BY <1>12 DEF vars, Fades
<1>13. QED
  BY <1>1, <1>2, <1>3, <1>4, <1>5, <1>6, <1>7, <1>8, <1>9, <1>10, <1>11, <1>12
     DEF FadingAction
-----------------------------------------------------------------------------
(***************************************************************************)
(* A task is in one place.                                                 *)
(***************************************************************************)
\* Losing things leaves a task in one place at most.
LEMMA FadingKeeps ==
    ASSUME OnePlace, Fades
    PROVE  OnePlace'
<1> USE DEF Fades, Unstored, NotPublished, NotWorkedOn
<1>1. BeforeSubmission'  BY DEF OnePlace, BeforeSubmission
<1>2. AsMessage'  BY DEF OnePlace, AsMessage
<1>3. AsJob'  BY DEF OnePlace, AsJob
<1>4. AsResult'  BY DEF OnePlace, AsResult
<1>5. AsRow'  BY DEF OnePlace, AsRow
<1>6. QED  BY <1>1, <1>2, <1>3, <1>4, <1>5 DEF OnePlace

\* The gateway publishes a task nothing is known of.
LEMMA SubmitKeeps ==
    ASSUME TypeOK, OnePlace, NEW t \in Tasks, Submit(t)
    PROVE  OnePlace'
<1>1. /\ \A u \in Tasks : TaskMessage(u) \in wire' => u = t \/ TaskMessage(u) \in wire
      /\ \A p \in Procs, u \in Tasks : TaskResult(p, u) \in wire' => TaskResult(p, u) \in wire
  BY MessageFields DEF Submit
<1>2. /\ job' = job /\ storing' = storing /\ rows' = rows
      /\ NotWorkedOn(t) /\ NotPublished(t) /\ Unstored(t)
      /\ \A u \in Tasks : request'[u] \in {"new", "refused"} =>
             u # t /\ request[u] \in {"new", "refused"}
  BY DEF Submit, OnePlace, BeforeSubmission, TypeOK
<1> USE DEF Unstored, NotPublished, NotWorkedOn
<1>3. BeforeSubmission'  BY <1>1, <1>2 DEF OnePlace, BeforeSubmission
<1>4. AsMessage'  BY <1>1, <1>2 DEF OnePlace, AsMessage
<1>5. AsJob'  BY <1>1, <1>2 DEF OnePlace, AsJob
<1>6. AsResult' /\ AsRow'  BY <1>1, <1>2 DEF OnePlace, AsResult, AsRow
<1>7. QED  BY <1>3, <1>4, <1>5, <1>6 DEF OnePlace

\* The queue group: one processor takes the task, which is no message any more.
LEMMA DeliverTaskKeeps ==
    ASSUME TypeOK, OnePlace, NEW t \in Tasks, DeliverTask(t)
    PROVE  OnePlace'
<1>1. /\ TaskMessage(t) \in wire /\ TaskMessage(t) \notin wire' /\ wire' \subseteq wire
      /\ request' = request /\ storing' = storing /\ rows' = rows
  BY DEF DeliverTask
<1>2. /\ NotWorkedOn(t) /\ NotPublished(t) /\ Unstored(t)
      /\ request[t] \notin {"new", "refused"}
  BY <1>1 DEF OnePlace, AsMessage, BeforeSubmission
<1>3. /\ \A p \in Procs, u \in Tasks : u # t => job'[p][u] = job[p][u]
      /\ \A p, q \in Procs : job'[p][t] # "none" /\ job'[q][t] # "none" => p = q
  <2>1. CASE UNCHANGED job
    BY <2>1, <1>2 DEF NotWorkedOn
  <2>2. CASE \E p \in Procs : SetJob(p, t, "working")
    BY <2>2, <1>2 DEF NotWorkedOn, SetJob, TypeOK
  <2>3. QED  BY <2>1, <2>2 DEF DeliverTask
<1> USE DEF Unstored, NotPublished, NotWorkedOn
<1>4. BeforeSubmission'  BY <1>1, <1>2, <1>3 DEF OnePlace, BeforeSubmission
<1>5. AsMessage'  BY <1>1, <1>2, <1>3 DEF OnePlace, AsMessage
<1>6. AsJob'  BY <1>1, <1>2, <1>3 DEF OnePlace, AsJob
<1>7. AsResult' /\ AsRow'  BY <1>1, <1>2, <1>3 DEF OnePlace, AsResult, AsRow
<1>8. QED  BY <1>4, <1>5, <1>6, <1>7 DEF OnePlace

\* The only processor that works on the task publishes the only result.
LEMMA PublishResultKeeps ==
    ASSUME TypeOK, OnePlace, NEW p \in Procs, NEW t \in Tasks, PublishResult(p, t)
    PROVE  OnePlace'
<1>1. /\ \A u \in Tasks : TaskMessage(u) \in wire' => TaskMessage(u) \in wire
      /\ \A q \in Procs, u \in Tasks : TaskResult(q, u) \in wire' =>
             TaskResult(q, u) \in wire \/ (q = p /\ u = t)
  <2>1. wire' = wire \cup {TaskResult(p, t)}
    BY DEF PublishResult
  <2>2. QED  BY <2>1, MessageFields
<1>2. /\ request' = request /\ storing' = storing /\ rows' = rows
      /\ job[p][t] = "enriched"
  BY DEF PublishResult
<1>3. /\ \A q \in Procs : q # p => job[q][t] = "none"
      /\ NotPublished(t) /\ Unstored(t) /\ TaskMessage(t) \notin wire
      /\ request[t] \notin {"new", "refused"}
  BY <1>2 DEF OnePlace, AsJob, AsMessage, BeforeSubmission, NotWorkedOn
<1>4. /\ \A q \in Procs, u \in Tasks : u # t => job'[q][u] = job[q][u]
      /\ \A q \in Procs : job'[q][t] = "none"
  BY <1>3 DEF PublishResult, SetJob, TypeOK
<1> USE DEF Unstored, NotPublished, NotWorkedOn
<1>5. BeforeSubmission'  BY <1>1, <1>2, <1>3, <1>4 DEF OnePlace, BeforeSubmission
<1>6. AsMessage'  BY <1>1, <1>2, <1>3, <1>4 DEF OnePlace, AsMessage
<1>7. AsJob'  BY <1>1, <1>2, <1>3, <1>4 DEF OnePlace, AsJob
<1>8. AsResult' /\ AsRow'  BY <1>1, <1>2, <1>3, <1>4 DEF OnePlace, AsResult, AsRow
<1>9. QED  BY <1>5, <1>6, <1>7, <1>8 DEF OnePlace

\* The aggregators take a result that none of them has stored, and there is no
\* other.
LEMMA DeliverResultKeeps ==
    ASSUME TypeOK, OnePlace, NEW p \in Procs, NEW t \in Tasks, DeliverResult(p, t)
    PROVE  OnePlace'
<1>1. /\ TaskResult(p, t) \in wire /\ wire' = wire \ {TaskResult(p, t)}
      /\ \A a \in Aggs, u \in Tasks : <<a, u>> \in storing' => u = t \/ <<a, u>> \in storing
      /\ request' = request /\ job' = job /\ rows' = rows
  BY DEF DeliverResult
<1>2. /\ NotWorkedOn(t) /\ Unstored(t) /\ TaskMessage(t) \notin wire
      /\ request[t] \notin {"new", "refused"}
      /\ \A q \in Procs : TaskResult(q, t) \notin wire'
  BY <1>1 DEF OnePlace, AsResult, AsJob, AsMessage, BeforeSubmission, NotWorkedOn, NotPublished
<1> USE DEF Unstored, NotPublished, NotWorkedOn
<1>3. BeforeSubmission'  BY <1>1, <1>2 DEF OnePlace, BeforeSubmission
<1>4. AsMessage'  BY <1>1, <1>2 DEF OnePlace, AsMessage
<1>5. AsJob'  BY <1>1, <1>2 DEF OnePlace, AsJob
<1>6. AsResult'  BY <1>1, <1>2 DEF OnePlace, AsResult
<1>7. AsRow'  BY <1>1, <1>2 DEF OnePlace, AsRow
<1>8. QED  BY <1>3, <1>4, <1>5, <1>6, <1>7 DEF OnePlace

\* An insertion is of a task that is nowhere but with the aggregators.
LEMMA InsertKeeps ==
    ASSUME TypeOK, OnePlace, NEW a \in Aggs, NEW t \in Tasks, Insert(a, t)
    PROVE  /\ OnePlace'
           /\ request[t] \notin {"new", "refused"}
           /\ rows[a][t] = 0 /\ rows' = [rows EXCEPT ![a][t] = 1]
<1>1. /\ <<a, t>> \in storing /\ storing' = storing \ {<<a, t>>}
      /\ request' = request /\ job' = job /\ wire' = wire
      /\ rows[a][t] = 0
  BY DEF Insert, OnePlace, AsRow
<1>2. rows' = [rows EXCEPT ![a][t] = 1]
  BY <1>1 DEF Insert, TypeOK, Counts
<1>3. \A b \in Aggs, u \in Tasks : (b # a \/ u # t) => rows'[b][u] = rows[b][u]
  BY <1>2 DEF TypeOK, Counts
<1>4. /\ NotWorkedOn(t) /\ TaskMessage(t) \notin wire /\ NotPublished(t)
      /\ request[t] \notin {"new", "refused"}
  BY <1>1 DEF OnePlace, AsResult, AsJob, AsMessage, BeforeSubmission, NotWorkedOn,
     NotPublished, Unstored
<1> USE DEF Unstored, NotPublished, NotWorkedOn
<1>5. BeforeSubmission'  BY <1>1, <1>3, <1>4 DEF OnePlace, BeforeSubmission
<1>6. AsMessage'  BY <1>1, <1>3, <1>4 DEF OnePlace, AsMessage
<1>7. AsJob'  BY <1>1, <1>3, <1>4 DEF OnePlace, AsJob
<1>8. AsResult'  BY <1>1, <1>3, <1>4 DEF OnePlace, AsResult
<1>9. AsRow'  BY <1>1, <1>3 DEF OnePlace, AsRow
<1>10. QED  BY <1>1, <1>2, <1>4, <1>5, <1>6, <1>7, <1>8, <1>9 DEF OnePlace
-----------------------------------------------------------------------------
(***************************************************************************)
(* Types, and what the two queries count.                                  *)
(***************************************************************************)
\* The messages that are sent are messages.
LEMMA Sent ==
    ASSUME NEW t \in Tasks
    PROVE  /\ TaskMessage(t) \in Messages
           /\ \A p \in Procs : EnrichmentRequest(p, t) \in Messages /\ TaskResult(p, t) \in Messages
           /\ \A e \in Enrichers, p \in Procs : EnrichmentResponse(e, p, t) \in Messages
  BY DEF Messages

\* A job that has a state may get another one, and a running processor a job.
LEMMA JobTyped ==
    ASSUME TypeOK, NEW p \in Procs, NEW t \in Tasks,
           NEW state \in {"none", "working", "asking", "enriched"}, SetJob(p, t, state),
           p \in up \/ job[p][t] # "none" \/ state = "none", up' = up
    PROVE  /\ job' \in [Procs -> [Tasks -> {"none", "working", "asking", "enriched"}]]
           /\ (\A q \in Procs \ up : job[q] = [u \in Tasks |-> "none"])'
<1>1. job' = [job EXCEPT ![p][t] = state]
  BY DEF SetJob
<1>2. job' \in [Procs -> [Tasks -> {"none", "working", "asking", "enriched"}]]
  BY <1>1 DEF TypeOK
<1>3. ASSUME NEW q \in Procs \ up
      PROVE  job'[q] = [u \in Tasks |-> "none"]
  <2>1. job[q] = [u \in Tasks |-> "none"]
    BY DEF TypeOK
  <2>2. CASE q # p
    BY <1>1, <2>1, <2>2 DEF TypeOK
  <2>3. CASE q = p
    <3>1. state = "none"
      BY <2>1, <2>3, <1>3
    <3>2. job'[q] = [job[q] EXCEPT ![t] = state]
      BY <1>1, <2>3 DEF TypeOK
    <3>3. QED  BY <2>1, <3>1, <3>2
  <2>4. QED  BY <2>2, <2>3
<1>4. QED  BY <1>2, <1>3

\* Each step keeps the types.
LEMMA TypeStep ==
    ASSUME TypeOK, [Next]_vars
    PROVE  TypeOK'
<1> USE PipelineAssumption
<1>1. ASSUME NEW t \in Tasks, Submit(t) \/ Refuse(t) \/ Accept(t)
      PROVE  TypeOK'
  BY <1>1, Sent DEF Submit, Refuse, Accept, TypeOK
<1>2. ASSUME NEW t \in Tasks, DeliverTask(t)
      PROVE  TypeOK'
  <2>1. CASE UNCHANGED job
    BY <1>2, <2>1 DEF DeliverTask, TypeOK
  <2>2. CASE \E p \in Procs \cap up : SetJob(p, t, "working")
    BY <1>2, <2>2, JobTyped DEF DeliverTask, TypeOK
  <2>3. QED  BY <1>2, <2>1, <2>2 DEF DeliverTask
<1>3. ASSUME NEW p \in Procs, NEW t \in Tasks, AskEnricher(p, t)
      PROVE  TypeOK'
  BY <1>3, JobTyped, Sent DEF AskEnricher, TypeOK
<1>4. ASSUME NEW p \in Procs, NEW t \in Tasks, DeliverAsk(p, t)
      PROVE  TypeOK'
  <2>1. enriching' \subseteq (Enrichers \cap up) \X Procs \X Tasks
    BY <1>4 DEF DeliverAsk, TypeOK
  <2>2. CASE UNCHANGED job
    BY <1>4, <2>1, <2>2 DEF DeliverAsk, TypeOK
  <2>3. CASE SetJob(p, t, "none")
    BY <1>4, <2>1, <2>3, JobTyped DEF DeliverAsk, TypeOK
  <2>4. QED  BY <1>4, <2>2, <2>3 DEF DeliverAsk
<1>5. ASSUME NEW e \in Enrichers, NEW p \in Procs, NEW t \in Tasks, Answer(e, p, t)
      PROVE  TypeOK'
  BY <1>5, Sent DEF Answer, TypeOK
<1>6. ASSUME NEW e \in Enrichers, NEW p \in Procs, NEW t \in Tasks, DeliverReply(e, p, t)
      PROVE  TypeOK'
  <2>1. CASE UNCHANGED job
    BY <1>6, <2>1 DEF DeliverReply, TypeOK
  <2>2. CASE job[p][t] = "asking" /\ SetJob(p, t, "enriched")
    BY <1>6, <2>2, JobTyped DEF DeliverReply, TypeOK
  <2>3. QED  BY <1>6, <2>1, <2>2 DEF DeliverReply
<1>7. ASSUME NEW p \in Procs, NEW t \in Tasks, TimeOut(p, t) \/ PublishResult(p, t)
      PROVE  TypeOK'
  BY <1>7, JobTyped, Sent DEF TimeOut, PublishResult, TypeOK
<1>8. ASSUME NEW p \in Procs, NEW t \in Tasks, DeliverResult(p, t)
      PROVE  TypeOK'
  BY <1>8 DEF DeliverResult, TypeOK
<1>9. ASSUME NEW a \in Aggs, NEW t \in Tasks, Insert(a, t)
      PROVE  TypeOK'
  <2>1. rows' \in Counts
    BY <1>9 DEF Insert, TypeOK, Counts
  <2>2. QED  BY <1>9, <2>1 DEF Insert, TypeOK
<1>10. ASSUME NEW a \in Aggs, CountTotal(a) \/ CountByType(a)
       PROVE  TypeOK'
  <2>1. NoRows \in Counts
    BY DEF NoRows, Counts
  <2>2. stats' \in [for : (Aggs \cap up) \cup {NoOne}, total : Counts, grouped : Counts]
    <3>1. rows \in Counts /\ stats.total \in Counts
      BY DEF TypeOK
    <3>2. CASE CountTotal(a)
      BY <2>1, <3>1, <3>2 DEF CountTotal
    <3>3. CASE CountByType(a)
      <4>1. stats' = [for |-> NoOne, total |-> stats.total, grouped |-> rows]
        BY <3>3 DEF CountByType, TypeOK
      <4>2. QED  BY <3>1, <4>1
    <3>4. QED  BY <1>10, <3>2, <3>3
  <2>3. QED  BY <1>10, <2>2 DEF CountTotal, CountByType, TypeOK
<1>11. ASSUME NEW i \in Services, Crash(i)
       PROVE  TypeOK'
  <2>1. NoStats \in [for : {NoOne}, total : Counts, grouped : Counts]
    BY DEF NoStats, NoRows, Counts
  <2>2. /\ enriching' \subseteq (Enrichers \cap up') \X Procs \X Tasks
        /\ storing' \subseteq (Aggs \cap up') \X Tasks
    BY <1>11 DEF Crash, TypeOK
  <2>3. /\ job' \in [Procs -> [Tasks -> {"none", "working", "asking", "enriched"}]]
        /\ \A p \in Procs \ up' : job'[p] = [t \in Tasks |-> "none"]
    BY <1>11 DEF Crash, TypeOK
  <2>4. stats' \in [for : (Aggs \cap up') \cup {NoOne}, total : Counts, grouped : Counts]
    BY <1>11, <2>1 DEF Crash, TypeOK
  <2>5. /\ request' \in [Tasks -> {"new", "open", "accepted", "refused", "cut"}]
        /\ wire' \subseteq Messages /\ rows' \in Counts /\ up' \subseteq Services
        /\ faults' \in 0 .. MaxFaults
    BY <1>11 DEF Crash, TypeOK
  <2>6. QED  BY <2>2, <2>3, <2>4, <2>5 DEF TypeOK
<1>12. ASSUME NEW i \in Services, Restart(i)
       PROVE  TypeOK'
  BY <1>12 DEF Restart, TypeOK
<1>13. CASE Fail
  <2>1. CASE \E p \in Procs, t \in Tasks : job[p][t] # "none" /\ SetJob(p, t, "none")
    BY <1>13, <2>1, JobTyped DEF Fail, TypeOK
  <2>2. CASE UNCHANGED job
    BY <1>13, <2>2 DEF Fail, TypeOK
  <2>3. QED  BY <1>13, <2>1, <2>2 DEF Fail
<1>14. CASE Lose
  BY <1>14 DEF Lose, TypeOK
<1>15. CASE UNCHANGED vars
  BY <1>15 DEF vars, TypeOK
<1>16. QED
  BY <1>1, <1>2, <1>3, <1>4, <1>5, <1>6, <1>7, <1>8, <1>9, <1>10, <1>11, <1>12, <1>13,
     <1>14, <1>15 DEF Next, Progress, ProcessorStep

\* Rows only come, so a total counted before the groups is no greater.
LEMMA CountedStep ==
    ASSUME TypeOK, OnePlace, Counted, [Next]_vars
    PROVE  Counted'
<1>1. ASSUME NEW a \in Aggs, NEW t \in Tasks
      PROVE  /\ rows[a][t] \in Nat /\ rows'[a][t] \in Nat
             /\ stats.total[a][t] \in Nat /\ stats.grouped[a][t] \in Nat
             /\ stats.for # NoOne => stats.for \in Aggs
  BY TypeStep DEF TypeOK, Counts
<1>2. ASSUME NEW a \in Aggs, NEW t \in Tasks
      PROVE  rows[a][t] <= rows'[a][t]
  <2>1. CASE rows' = rows
    BY <1>1, <2>1
  <2>2. CASE \E b \in Aggs, u \in Tasks : Insert(b, u)
    BY <1>1, <2>2 DEF Insert, TypeOK, Counts
  <2>3. QED
    BY <2>1, <2>2, Steps, Fading
       DEF Fades, Submit, DeliverTask, PublishResult, DeliverResult
<1>3. CASE stats' = stats
  BY <1>1, <1>2, <1>3 DEF Counted
<1>4. ASSUME NEW b \in Aggs, CountTotal(b)
      PROVE  Counted'
  <2>1. b # NoOne
    BY PipelineAssumption DEF Services
  <2>2. rows' = rows /\ stats'.for = b /\ stats'.total = rows
    BY <1>4 DEF CountTotal
  <2>3. QED  BY <1>1, <2>1, <2>2 DEF Counted
<1>5. ASSUME NEW b \in Aggs, CountByType(b)
      PROVE  Counted'
  <2>1. /\ stats'.for = NoOne /\ stats'.total = stats.total /\ stats'.grouped = rows
        /\ rows' = rows
    BY <1>5 DEF CountByType, TypeOK
  <2>2. b # NoOne /\ stats.for = b
    BY <1>5, PipelineAssumption DEF CountByType, Services
  <2>3. QED  BY <1>1, <2>1, <2>2 DEF Counted
<1>6. CASE stats' = NoStats
  BY <1>6 DEF NoStats, NoRows, Counted
<1>7. QED
  <2>1. CASE FadingAction
    BY <2>1, <1>3, <1>4, <1>5, <1>6
       DEF FadingAction, Refuse, Accept, AskEnricher, DeliverAsk, TimeOut, Answer,
           DeliverReply, Crash, Restart, Fail, Lose, vars
  <2>2. CASE ~FadingAction
    BY <2>2, <1>3, Steps DEF Submit, DeliverTask, PublishResult, DeliverResult, Insert
  <2>3. QED  BY <2>1, <2>2
-----------------------------------------------------------------------------
(***************************************************************************)
(* The invariant, and the properties it implies.                           *)
(***************************************************************************)
\* The initial states satisfy the invariant.
LEMMA InitEstablishes == Init => IInv
<1> SUFFICES ASSUME Init PROVE IInv
  OBVIOUS
<1>1. TypeOK
  BY PipelineAssumption DEF Init, TypeOK, NoStats, NoRows, Counts
<1>2. OnePlace
  BY DEF Init, OnePlace, BeforeSubmission, AsMessage, AsJob, AsResult, AsRow, Unstored,
     NotPublished, NotWorkedOn, NoRows
<1>3. OncePerAggregator /\ Counted
  BY DEF Init, NoStats, NoRows, OncePerAggregator, Counted
<1>4. QED  BY <1>1, <1>2, <1>3 DEF IInv

\* Every step keeps the invariant.
LEMMA NextKeeps ==
    ASSUME IInv, [Next]_vars
    PROVE  IInv'
<1> USE DEF IInv
<1>1. TypeOK' /\ Counted'
  BY TypeStep, CountedStep
<1>2. CASE FadingAction
  <2>1. Fades
    BY <1>2, Fading
  <2>2. OncePerAggregator'
    BY <2>1 DEF Fades, OncePerAggregator
  <2>3. QED  BY <1>1, <2>1, <2>2, FadingKeeps
<1>3. CASE \E t \in Tasks : Submit(t) \/ DeliverTask(t)
  <2>1. rows' = rows
    BY <1>3 DEF Submit, DeliverTask
  <2>2. OncePerAggregator'
    BY <2>1 DEF OncePerAggregator
  <2>3. QED  BY <1>1, <1>3, <2>2, SubmitKeeps, DeliverTaskKeeps
<1>4. CASE \E p \in Procs, t \in Tasks : PublishResult(p, t) \/ DeliverResult(p, t)
  <2>1. rows' = rows
    BY <1>4 DEF PublishResult, DeliverResult
  <2>2. OncePerAggregator'
    BY <2>1 DEF OncePerAggregator
  <2>3. QED  BY <1>1, <1>4, <2>2, PublishResultKeeps, DeliverResultKeeps
<1>5. ASSUME NEW a \in Aggs, NEW t \in Tasks, Insert(a, t)
      PROVE  IInv'
  <2>1. OnePlace' /\ rows' = [rows EXCEPT ![a][t] = 1]
    BY <1>5, InsertKeeps
  <2>2. OncePerAggregator'
    BY <2>1 DEF OncePerAggregator, TypeOK, Counts
  <2>3. QED  BY <1>1, <2>1, <2>2
<1>6. QED  BY <1>2, <1>3, <1>4, <1>5, Steps

\* The inductive invariant holds for any tasks, services and number of faults.
THEOREM Invariant == Spec => []IInv
<1>1. QED  BY InitEstablishes, NextKeeps, PTL DEF Spec

\* The variables keep their types, and jobs are those of services that run.
THEOREM Typed == Spec => []TypeOK
<1>1. IInv => TypeOK  BY DEF IInv
<1>2. QED  BY <1>1, Invariant, PTL

\* No aggregator stores a task twice (aggregator/src/db.rs:21).
THEOREM StoredOnce == Spec => []OncePerAggregator
<1>1. IInv => OncePerAggregator  BY DEF IInv
<1>2. QED  BY <1>1, Invariant, PTL

\* The total of GET /stats is no more than what its groups add up to
\* (aggregator/src/db.rs:72).
THEOREM StatsAddUp == Spec => []StatsNeverOvercount
<1>1. IInv => StatsNeverOvercount  BY DEF IInv, Counted, StatsNeverOvercount
<1>2. QED  BY <1>1, Invariant, PTL
-----------------------------------------------------------------------------
(***************************************************************************)
(* The pipeline implements Delivery.                                       *)
(***************************************************************************)
\* What can still be stored of a task: its message, a job, a result, an
\* insertion.
Places == \A t \in Tasks :
    UnderWay(t) <=>
        \/ TaskMessage(t) \in wire
        \/ \E p \in Procs : TaskResult(p, t) \in wire \/ job[p][t] # "none"
        \/ \E a \in Aggs : <<a, t>> \in storing

\* The messages about a task that UnderWay speaks of are the task and its result.
LEMMA UnderWayPlaces == TypeOK => Places
<1> SUFFICES ASSUME TypeOK, NEW t \in Tasks
             PROVE  UnderWay(t) <=>
                        \/ TaskMessage(t) \in wire
                        \/ \E p \in Procs : TaskResult(p, t) \in wire \/ job[p][t] # "none"
                        \/ \E a \in Aggs : <<a, t>> \in storing
  BY DEF Places
<1>1. ASSUME NEW m \in wire, m.task = t, m.kind \in {"task", "result"}
      PROVE  TaskMessage(t) \in wire \/ \E p \in Procs : TaskResult(p, t) \in wire
  <2>1. m \in Messages
    BY DEF TypeOK
  <2>2. QED  BY <1>1, <2>1, MessageKinds
<1>2. TaskMessage(t) \in wire => UnderWay(t)
  BY MessageFields DEF UnderWay
<1>3. ASSUME NEW p \in Procs, TaskResult(p, t) \in wire
      PROVE  UnderWay(t)
  BY <1>3, MessageFields DEF UnderWay
<1>4. QED  BY <1>1, <1>2, <1>3 DEF UnderWay

\* Now and after a step.
LEMMA UnderWayIs ==
    ASSUME TypeOK, TypeOK'
    PROVE  Places /\ Places'
<1>1. TypeOK' => Places'
  BY UnderWayPlaces, PTL
<1>2. QED  BY <1>1, UnderWayPlaces

\* A step that stores nothing, publishes no task of the gateway and brings none
\* back is the end of some tasks, or of none.
LEMMA Ends ==
    ASSUME rows' = rows,
           \A t \in Tasks : /\ request'[t] \in {"new", "refused"}
                                <=> request[t] \in {"new", "refused"}
                            /\ UnderWay(t)' => UnderWay(t)
    PROVE  [D!Next]_(D!dvars)
<1> DEFINE lost == {t \in Tasks : Fate[t] # Fate'[t]}
<1>1. \A t \in lost : Fate[t] = "underway" /\ Fate'[t] = "over"
  BY DEF Fate
<1>2. Fate' = [t \in Tasks |-> IF t \in lost THEN "over" ELSE Fate[t]]
  BY <1>1 DEF Fate
<1>3. CASE lost = {}
  <2>1. Fate' = Fate
    BY <1>2, <1>3 DEF Fate
  <2>2. QED  BY <2>1 DEF D!dvars
<1>4. CASE lost # {}
  <2>1. D!End(lost)
    BY <1>1, <1>2, <1>4 DEF D!End
  <2>2. QED  BY <2>1 DEF D!Next
<1>5. QED  BY <1>3, <1>4

\* Each step of the pipeline is a step of Delivery, or changes nothing there.
LEMMA StepImplements ==
    ASSUME IInv, IInv', [Next]_vars
    PROVE  [D!Next]_(D!dvars)
<1> USE DEF IInv
<1>1. Places /\ Places'
  BY UnderWayIs
<1>2. CASE FadingAction
  <2>1. Fades
    BY <1>2, Fading
  <2>2. \A t \in Tasks : UnderWay(t)' => UnderWay(t)
    BY <1>1, <2>1 DEF Places, Fades
  <2>3. QED  BY <2>1, <2>2, Ends DEF Fades
<1>3. ASSUME NEW t \in Tasks, Submit(t)
      PROVE  [D!Next]_(D!dvars)
  <2>1. /\ request[t] = "new" /\ request' = [request EXCEPT ![t] = "open"]
        /\ wire' = wire \cup {TaskMessage(t)}
        /\ job' = job /\ storing' = storing /\ rows' = rows
    BY <1>3 DEF Submit
  <2>2. /\ \A u \in Tasks : u # t => (TaskMessage(u) \in wire' <=> TaskMessage(u) \in wire)
        /\ \A p \in Procs, u \in Tasks : TaskResult(p, u) \in wire' <=> TaskResult(p, u) \in wire
    BY <2>1, MessageFields
  <2>3. \A u \in Tasks : u # t => (UnderWay(u)' <=> UnderWay(u))
    BY <1>1, <2>1, <2>2 DEF Places
  <2>4. UnderWay(t)'
    BY <1>1, <2>1 DEF Places
  <2>5. Fate[t] = "new" /\ Fate' = [Fate EXCEPT ![t] = "underway"]
    <3>1. \A u \in Tasks : u # t => Fate'[u] = Fate[u]
      BY <2>1, <2>3 DEF Fate, TypeOK
    <3>2. Fate'[t] = "underway" /\ Fate[t] = "new"
      BY <2>1, <2>4 DEF Fate, TypeOK
    <3>3. QED  BY <3>1, <3>2 DEF Fate
  <2>6. D!Publish(t)
    BY <2>1, <2>5 DEF D!Publish
  <2>7. QED  BY <2>6 DEF D!Next
<1>4. ASSUME NEW t \in Tasks, DeliverTask(t)
      PROVE  [D!Next]_(D!dvars)
  <2>1. /\ TaskMessage(t) \in wire /\ wire' \subseteq wire
        /\ request' = request /\ storing' = storing /\ rows' = rows
        /\ \A p \in Procs, u \in Tasks : u # t => job'[p][u] = job[p][u]
    BY <1>4 DEF DeliverTask, SetJob, TypeOK
  <2>2. \A u \in Tasks : UnderWay(u)' => UnderWay(u)
    BY <1>1, <2>1 DEF Places
  <2>3. QED  BY <2>1, <2>2, Ends
<1>5. ASSUME NEW p \in Procs, NEW t \in Tasks, PublishResult(p, t)
      PROVE  [D!Next]_(D!dvars)
  <2>1. /\ job[p][t] # "none" /\ wire' = wire \cup {TaskResult(p, t)}
        /\ request' = request /\ storing' = storing /\ rows' = rows
        /\ \A q \in Procs, u \in Tasks : job'[q][u] # "none" => job[q][u] # "none"
    BY <1>5, JobChanges DEF PublishResult
  <2>2. /\ \A u \in Tasks : TaskMessage(u) \in wire' => TaskMessage(u) \in wire
        /\ \A q \in Procs, u \in Tasks :
               TaskResult(q, u) \in wire' => TaskResult(q, u) \in wire \/ u = t
    BY <2>1, MessageFields
  <2>3. \A u \in Tasks : UnderWay(u)' => UnderWay(u)
    BY <1>1, <2>1, <2>2 DEF Places
  <2>4. QED  BY <2>1, <2>3, Ends
<1>6. ASSUME NEW p \in Procs, NEW t \in Tasks, DeliverResult(p, t)
      PROVE  [D!Next]_(D!dvars)
  <2>1. /\ TaskResult(p, t) \in wire /\ wire' \subseteq wire
        /\ request' = request /\ job' = job /\ rows' = rows
        /\ \A a \in Aggs, u \in Tasks : <<a, u>> \in storing' => u = t \/ <<a, u>> \in storing
    BY <1>6 DEF DeliverResult
  <2>2. \A u \in Tasks : UnderWay(u)' => UnderWay(u)
    BY <1>1, <2>1 DEF Places
  <2>3. QED  BY <2>1, <2>2, Ends
<1>7. ASSUME NEW a \in Aggs, NEW t \in Tasks, Insert(a, t)
      PROVE  [D!Next]_(D!dvars)
  <2>1. /\ request[t] \notin {"new", "refused"}
        /\ rows[a][t] = 0 /\ rows' = [rows EXCEPT ![a][t] = 1]
    BY <1>7, InsertKeeps
  <2>2. /\ <<a, t>> \in storing /\ storing' = storing \ {<<a, t>>}
        /\ request' = request /\ job' = job /\ wire' = wire
    BY <1>7 DEF Insert
  <2>3. UnderWay(t) /\ \A u \in Tasks : u # t => (UnderWay(u)' <=> UnderWay(u))
    BY <1>1, <2>2 DEF Places
  <2>4. Fate[t] = "underway"
    BY <2>1, <2>3 DEF Fate
  <2>5. Fate' \in {Fate, [Fate EXCEPT ![t] = "over"]}
    <3>1. \A u \in Tasks : u # t => Fate'[u] = Fate[u]
      BY <2>2, <2>3 DEF Fate
    <3>2. Fate'[t] \in {"underway", "over"}
      BY <2>1, <2>2 DEF Fate
    <3>3. QED  BY <2>4, <3>1, <3>2 DEF Fate
  <2>6. D!Store(a, t)
    BY <2>1, <2>4, <2>5 DEF D!Store
  <2>7. QED  BY <2>6 DEF D!Next
<1>8. QED  BY <1>2, <1>3, <1>4, <1>5, <1>6, <1>7, Steps

\* With everything that can happen to it, the pipeline does what Delivery
\* promises: each aggregator stores a task once at most and while it is under
\* way, and a task that is over never comes back.
THEOREM Implements == Spec => ImplementsDelivery
<1>1. Init => D!Init
  BY DEF Init, D!Init, Fate, NoRows
<1>2. QED  BY <1>1, Invariant, StepImplements, PTL DEF Spec, ImplementsDelivery, D!Spec
-----------------------------------------------------------------------------
(***************************************************************************)
(* Only faults lose a task, and services that are not there.               *)
(***************************************************************************)
\* A message of one sort, or about one task, is none of another.
LEMMA MessagesDiffer ==
    ASSUME NEW t, NEW u, NEW p, NEW q, NEW e, NEW f
    PROVE  /\ TaskMessage(t) = TaskMessage(u) => t = u
           /\ EnrichmentRequest(p, t) = EnrichmentRequest(q, u) => p = q /\ t = u
           /\ EnrichmentResponse(e, p, t) = EnrichmentResponse(f, q, u)
                => e = f /\ p = q /\ t = u
           /\ TaskResult(p, t) = TaskResult(q, u) => p = q /\ t = u
           /\ TaskMessage(t) # EnrichmentRequest(q, u)
           /\ TaskMessage(t) # EnrichmentResponse(f, q, u)
           /\ TaskMessage(t) # TaskResult(q, u)
           /\ EnrichmentRequest(p, t) # EnrichmentResponse(f, q, u)
           /\ EnrichmentRequest(p, t) # TaskResult(q, u)
           /\ EnrichmentResponse(e, p, t) # TaskResult(q, u)
<1>1. /\ EnrichmentRequest(p, t).from = p /\ EnrichmentRequest(q, u).from = q
      /\ EnrichmentResponse(e, p, t).from = e /\ EnrichmentResponse(f, q, u).from = f
      /\ EnrichmentResponse(e, p, t).to = p /\ EnrichmentResponse(f, q, u).to = q
  BY DEF EnrichmentRequest, EnrichmentResponse, Message
<1> QED BY <1>1, MessageFields

\* A job gets another state, and no other job does.
LEMMA OtherJobs ==
    ASSUME TypeOK, NEW p \in Procs, NEW t \in Tasks, NEW state, SetJob(p, t, state)
    PROVE  /\ job'[p][t] = state
           /\ \A q \in Procs, u \in Tasks : (q # p \/ u # t) => job'[q][u] = job[q][u]
BY DEF TypeOK, SetJob

\* The messages and jobs of an enrichment.
LEMMA EnrichmentBound ==
    ASSUME TypeOK, NEW t \in Tasks, NEW a \in Aggs, Bound(t, a),
           NEW p \in Procs, NEW u \in Tasks,
           \/ AskEnricher(p, u) \/ DeliverAsk(p, u) \/ TimeOut(p, u)
           \/ \E e \in Enrichers : Answer(e, p, u) \/ DeliverReply(e, p, u)
    PROVE  Bound(t, a)' \/ Enrichers \cap up = {}
<1>1. rows' = rows /\ storing' = storing
  BY DEF AskEnricher, DeliverAsk, TimeOut, Answer, DeliverReply
<1>2. /\ TaskMessage(t) \in wire => TaskMessage(t) \in wire'
      /\ \A q \in Procs : TaskResult(q, t) \in wire => TaskResult(q, t) \in wire'
  <2>1. PICK m : m.kind \in {"ask", "reply"} /\ wire \ {m} \subseteq wire'
    <3>1. CASE AskEnricher(p, u) \/ DeliverAsk(p, u) \/ TimeOut(p, u)
      <4>1. EnrichmentRequest(p, u).kind = "ask" BY MessageFields
      <4> QED BY <3>1, <4>1 DEF AskEnricher, DeliverAsk, TimeOut
    <3>2. ASSUME NEW e \in Enrichers, Answer(e, p, u) \/ DeliverReply(e, p, u)
          PROVE  \E m : m.kind \in {"ask", "reply"} /\ wire \ {m} \subseteq wire'
      <4>1. EnrichmentResponse(e, p, u).kind = "reply" BY MessageFields
      <4> QED BY <3>2, <4>1 DEF Answer, DeliverReply
    <3> QED BY <3>1, <3>2
  <2>2. TaskMessage(t) # m /\ \A q \in Procs : TaskResult(q, t) # m BY <2>1, MessageFields
  <2> QED BY <2>1, <2>2
<1>3. \A q \in Procs : q # p \/ u # t => job'[q][t] = job[q][t]
  <2>1. job' = job \/ \E state : SetJob(p, u, state)
    BY DEF AskEnricher, DeliverAsk, TimeOut, Answer, DeliverReply
  <2> QED BY <2>1, OtherJobs
<1>4. \A q \in Procs : (q # p \/ u # t) /\ Awaited(q, t) => Awaited(q, t)'
  <2>1. CASE AskEnricher(p, u) \/ TimeOut(p, u)
    BY <2>1 DEF AskEnricher, TimeOut, Awaited
  <2>2. CASE DeliverAsk(p, u) BY <2>2, MessagesDiffer DEF DeliverAsk, Awaited
  <2>3. ASSUME NEW e \in Enrichers, Answer(e, p, u) \/ DeliverReply(e, p, u)
        PROVE  \A q \in Procs : (q # p \/ u # t) /\ Awaited(q, t) => Awaited(q, t)'
    BY <2>3, MessagesDiffer DEF Answer, DeliverReply, Awaited
  <2> QED BY <2>1, <2>2, <2>3
<1>5. ASSUME u = t, job[p][t] \in {"working", "enriched"}
      PROVE  Bound(t, a)' \/ Enrichers \cap up = {}
  <2>1. CASE AskEnricher(p, u)
    <3>1. job'[p][t] = "asking" /\ EnrichmentRequest(p, t) \in wire'
      BY <1>5, <2>1, OtherJobs DEF AskEnricher
    <3> QED BY <3>1 DEF Bound, Awaited
  <2>2. CASE ~AskEnricher(p, u)
    <3>1. job'[p][t] = job[p][t] \/ Enrichers \cap up = {}
      BY <1>5, <2>2 DEF DeliverAsk, TimeOut, Answer, DeliverReply
    <3> QED BY <1>5, <3>1 DEF Bound
  <2> QED BY <2>1, <2>2
<1>6. ASSUME u = t, job[p][t] = "asking", Awaited(p, t)
      PROVE  Bound(t, a)' \/ Enrichers \cap up = {}
  <2>1. CASE DeliverAsk(p, u)
    <3>1. CASE Enrichers \cap up # {}
      <4>1. PICK e \in Enrichers : <<e, p, t>> \in enriching'
        BY <1>6, <2>1, <3>1 DEF DeliverAsk
      <4>2. job'[p][t] = "asking" BY <1>6, <2>1, <3>1 DEF DeliverAsk
      <4> QED BY <4>1, <4>2 DEF Bound, Awaited
    <3> QED BY <3>1
  <2>2. ASSUME NEW e \in Enrichers, Answer(e, p, u) PROVE Bound(t, a)'
    <3>1. EnrichmentResponse(e, p, t) \in wire' /\ job'[p][t] = "asking"
      BY <1>6, <2>2 DEF Answer
    <3> QED BY <3>1 DEF Bound, Awaited
  <2>3. ASSUME NEW e \in Enrichers, DeliverReply(e, p, u) PROVE Bound(t, a)'
    <3>1. job'[p][t] = "enriched" BY <1>6, <2>3, OtherJobs DEF DeliverReply
    <3> QED BY <3>1 DEF Bound
  <2> QED BY <1>6, <2>1, <2>2, <2>3 DEF AskEnricher, TimeOut
<1> QED BY <1>1, <1>2, <1>3, <1>4, <1>5, <1>6 DEF Bound

\* The steps that take a task to its next place.
LEMMA NextPlaceBound ==
    ASSUME TypeOK, NEW t \in Tasks \ Dotted, NEW a \in Aggs, Bound(t, a),
           NEW p \in Procs, NEW u \in Tasks,
           \/ Submit(u) \/ DeliverTask(u) \/ PublishResult(p, u) \/ DeliverResult(p, u)
           \/ \E b \in Aggs : Insert(b, u)
    PROVE  Bound(t, a)' \/ Procs \cap up = {} \/ a \notin up
<1>1. \A q \in Procs : Awaited(q, t) => Awaited(q, t)'
  <2>1. PICK m : m.kind \in {"task", "result"} /\ wire \ {m} \subseteq wire'
    <3>1. TaskMessage(u).kind = "task" /\ TaskResult(p, u).kind = "result" BY MessageFields
    <3>2. CASE Submit(u) \/ DeliverTask(u) BY <3>1, <3>2 DEF Submit, DeliverTask
    <3>3. CASE PublishResult(p, u) \/ DeliverResult(p, u)
      BY <3>1, <3>3 DEF PublishResult, DeliverResult
    <3>4. CASE \E b \in Aggs : Insert(b, u) BY <3>1, <3>4 DEF Insert
    <3> QED BY <3>2, <3>3, <3>4
  <2>2. /\ \A q \in Procs : EnrichmentRequest(q, t) # m
        /\ \A q \in Procs, e \in Enrichers : EnrichmentResponse(e, q, t) # m
    BY <2>1, MessageFields
  <2>3. enriching' = enriching
    BY DEF Submit, DeliverTask, PublishResult, DeliverResult, Insert
  <2> QED BY <2>1, <2>2, <2>3 DEF Awaited
<1>2. CASE Submit(u) BY <1>1, <1>2 DEF Submit, Bound
<1>3. CASE DeliverTask(u)
  <2>1. /\ wire' = wire \ {TaskMessage(u)} /\ storing' = storing /\ rows' = rows
        /\ \A q \in Procs : job'[q][t] = job[q][t] \/ (u = t /\ job'[q][t] = "working")
    BY <1>3, OtherJobs DEF DeliverTask
  <2>2. u = t /\ Procs \cap up # {} => \E q \in Procs : job'[q][t] = "working"
    BY <1>3, OtherJobs DEF DeliverTask
  <2>3. TaskMessage(t) \in wire /\ u # t => TaskMessage(t) \in wire'
    BY <2>1, MessagesDiffer
  <2>4. \A q \in Procs : TaskResult(q, t) \in wire => TaskResult(q, t) \in wire'
    BY <2>1, MessagesDiffer
  <2> QED BY <1>1, <2>1, <2>2, <2>3, <2>4 DEF Bound
<1>4. CASE PublishResult(p, u)
  <2>1. /\ wire' = wire \cup {TaskResult(p, u)} /\ storing' = storing /\ rows' = rows
        /\ \A q \in Procs : job'[q][t] = job[q][t] \/ (u = t /\ q = p)
    BY <1>4, OtherJobs DEF PublishResult
  <2> QED BY <1>1, <2>1 DEF Bound
<1>5. CASE DeliverResult(p, u)
  <2>1. /\ wire' = wire \ {TaskResult(p, u)} /\ storing \subseteq storing'
        /\ rows' = rows /\ job' = job
    BY <1>5 DEF DeliverResult
  <2>2. u = t /\ a \in up => <<a, t>> \in storing' BY <1>5 DEF DeliverResult
  <2>3. TaskMessage(t) \in wire => TaskMessage(t) \in wire' BY <2>1, MessagesDiffer
  <2>4. \A q \in Procs : TaskResult(q, t) \in wire /\ u # t => TaskResult(q, t) \in wire'
    BY <2>1, MessagesDiffer
  <2> QED BY <1>1, <2>1, <2>2, <2>3, <2>4 DEF Bound
<1>6. ASSUME NEW b \in Aggs, Insert(b, u) PROVE Bound(t, a)'
  <2>1. /\ wire' = wire /\ job' = job /\ storing' = storing \ {<<b, u>>}
        /\ rows' = [rows EXCEPT ![b][u] = @ + 1]
    BY <1>6 DEF Insert
  <2>2. /\ rows[a][t] \in Nat
        /\ rows'[a][t] = IF b = a /\ u = t THEN rows[a][t] + 1 ELSE rows[a][t]
    BY <2>1 DEF TypeOK, Counts
  <2>3. rows'[a][t] > 0 \/ (rows'[a][t] = rows[a][t] /\ ~(b = a /\ u = t)) BY <2>2
  <2> QED BY <1>1, <2>1, <2>3 DEF Bound
<1> QED BY <1>2, <1>3, <1>4, <1>5, <1>6

\* What goes on without a fault leaves every task where it is, or takes it on.
LEMMA LossesStep ==
    ASSUME TypeOK, TypeOK', [Next]_vars
    PROVE  Losses
<1> SUFFICES ASSUME NEW t \in Tasks \ Dotted, NEW a \in Aggs,
                    Bound(t, a) \/ (request[t] = "new" /\ request'[t] = "open")
             PROVE  \/ Bound(t, a)' \/ faults' < faults
                    \/ Procs \cap up = {} \/ Enrichers \cap up = {} \/ a \notin up
  BY DEF Losses
<1>1. CASE request[t] = "new" /\ request'[t] = "open"
  <2>1. PICK u \in Tasks : Submit(u)
    <3>1. ~FadingAction BY <1>1, Fading DEF Fades
    <3>2. request' # request BY <1>1
    <3> QED BY <3>1, <3>2, Steps DEF DeliverTask, PublishResult, DeliverResult, Insert
  <2>2. u = t BY <1>1, <2>1 DEF Submit, TypeOK
  <2> QED BY <2>1, <2>2 DEF Submit, Bound
<1>2. CASE Bound(t, a)
  <2>1. CASE Fail \/ Lose \/ \E i \in Services : Crash(i)
    BY <2>1, PipelineAssumption DEF Fail, Lose, Crash, TypeOK
  <2>2. ASSUME \/ UNCHANGED vars
               \/ \E u \in Tasks : Refuse(u) \/ Accept(u)
               \/ \E b \in Aggs : CountTotal(b) \/ CountByType(b)
               \/ \E i \in Services : Restart(i)
        PROVE  Bound(t, a)'
    <3>1. UNCHANGED <<wire, job, enriching, storing, rows>>
      BY <2>2 DEF vars, Refuse, Accept, CountTotal, CountByType, Restart
    <3> QED BY <1>2, <3>1 DEF Bound, Awaited
  <2>3. ASSUME NEW p \in Procs, NEW u \in Tasks,
               \/ AskEnricher(p, u) \/ DeliverAsk(p, u) \/ TimeOut(p, u)
               \/ \E e \in Enrichers : Answer(e, p, u) \/ DeliverReply(e, p, u)
        PROVE  Bound(t, a)' \/ Enrichers \cap up = {}
    BY <1>2, <2>3, EnrichmentBound
  <2>4. ASSUME NEW p \in Procs, NEW u \in Tasks,
               \/ Submit(u) \/ DeliverTask(u) \/ PublishResult(p, u) \/ DeliverResult(p, u)
               \/ \E b \in Aggs : Insert(b, u)
        PROVE  Bound(t, a)' \/ Procs \cap up = {} \/ a \notin up
    BY <1>2, <2>4, NextPlaceBound
  <2>5. CASE Procs = {} BY <2>5
  <2>6. CASE Procs # {} BY <2>1, <2>2, <2>3, <2>4, <2>6, Steps DEF FadingAction
  <2> QED BY <2>5, <2>6
<1> QED BY <1>1, <1>2

\* A task whose publication the gateway began reaches each aggregator that is
\* there, unless there is a fault or no processor or enricher (submit_task,
\* process_message, handle_enrich_request, run_nats_consumer).
THEOREM OnlyFaultsLose == Spec => LossesAreFaults
<1>1. IInv /\ IInv' /\ [Next]_vars => [Losses]_vars
  BY LossesStep DEF IInv
<1> QED BY <1>1, Invariant, PTL DEF Spec, LossesAreFaults
=============================================================================
