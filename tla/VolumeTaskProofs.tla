-------------------------- MODULE VolumeTaskProofs --------------------------
(***************************************************************************)
(* For any workers, any number of job slots and any bounds: the variables  *)
(* keep their types, and the generation of a claim fences off every other  *)
(* claim of the same ownership record; while nobody deletes the record, no *)
(* two loops trade in one generation.                                      *)
(***************************************************************************)
EXTENDS VolumeTask, TLAPS

\* Why one claim at most is current: a job that claimed the present record did
\* so for the worker it names, with a generation of its own, no newer than the
\* record's.
Fenced ==
    /\ \A j \in Jobs : job[j].fresh =>
           job[j].at = owner.worker /\ job[j].gen \in 1 .. owner.gen
    /\ \A i, k \in Jobs :
           job[i].fresh /\ job[k].fresh /\ job[i].gen = job[k].gen => i = k

IInv == TypeOK /\ Fenced

\* The jobs of newer claim nothing that those of older did not.
NoNewClaim(older, newer) ==
    \A j \in Jobs : newer[j].fresh =>
        older[j].fresh /\ newer[j].gen = older[j].gen /\ newer[j].at = older[j].at

\* Short tuples over a set are sequences over it.
LEMMA Tuples ==
    ASSUME NEW Q, NEW a \in Q, NEW b \in Q, NEW c \in Q, NEW d \in Q, NEW e \in Q
    PROVE  /\ <<>> \in Seq(Q) /\ <<a>> \in Seq(Q) /\ <<a, b>> \in Seq(Q)
           /\ <<a, b, c, d>> \in Seq(Q) /\ <<a, b, c, d, e>> \in Seq(Q)
  OBVIOUS

\* The lists of calls that jobs are given are lists of calls.
LEMMA Lists ==
    /\ StartRequest \in Seq(Calls) /\ StopRequest \in Seq(Calls)
    /\ StartCommand \in Seq(Calls) /\ StopCommand \in Seq(Calls)
    /\ AutoStop \in Seq(Calls) /\ Recovery \in Seq(Calls) /\ Shutdown \in Seq(Calls)
    /\ \A c \in LoopCalls : <<c>> \in Seq(Calls)
    /\ <<>> \in Seq(Calls)
<1>1. /\ LoopCalls \subseteq Calls
      /\ {"guardAlive", "markRunning", "beat", "publishStart", "uncache", "forget",
          "publishStop", "unbeat", "release", "markStopped", "guardStatus", "claim",
          "cache", "orphaned", "forceRelease", "setup"} \subseteq Calls
  BY DEF Calls, LoopCalls
<1>2. /\ StartRequest \in Seq(Calls) /\ StopRequest \in Seq(Calls)
      /\ StartCommand \in Seq(Calls) /\ AutoStop \in Seq(Calls)
  BY <1>1, Tuples DEF StartRequest, StopRequest, StartCommand, AutoStop
<1>3. StopCommand \in Seq(Calls) /\ Recovery \in Seq(Calls) /\ Shutdown \in Seq(Calls)
  BY <1>1, Tuples DEF StopCommand, Recovery, Shutdown
<1>4. \A c \in LoopCalls : <<c>> \in Seq(Calls)
  BY <1>1, Tuples
<1>5. <<>> \in Seq(Calls)
  OBVIOUS
<1>6. QED  BY <1>2, <1>3, <1>4, <1>5

\* Going on with a list of calls keeps the jobs typed and claims nothing.
LEMMA GoingOn ==
    ASSUME NEW j \in Jobs, NEW todo \in Seq(Calls), job \in [Jobs -> Job],
           job[j].todo # <<>>
    PROVE  With(j, todo) \in [Jobs -> Job] /\ NoNewClaim(job, With(j, todo))
<1>1. Idle \in Job /\ ~Idle.fresh
  BY DEF Idle, Job
<1>2. [job[j] EXCEPT !.todo = todo] \in Job
  BY DEF Job, Idle
<1>3. With(j, todo) \in [Jobs -> Job]
  BY <1>1, <1>2 DEF With
<1>4. ASSUME NEW k \in Jobs, With(j, todo)[k].fresh
      PROVE  /\ job[k].fresh /\ With(j, todo)[k].gen = job[k].gen
             /\ With(j, todo)[k].at = job[k].at
  <2>1. CASE k = j
    <3>1. todo # <<>>
      BY <2>1, <1>1, <1>4 DEF With
    <3>2. With(j, todo)[k] = [job[j] EXCEPT !.todo = todo]
      BY <2>1, <3>1 DEF With
    <3>3. QED  BY <2>1, <3>2, <1>4, <1>2 DEF Job, Idle
  <2>2. CASE k # j
    BY <2>2, <1>4 DEF With
  <2>3. QED  BY <2>1, <2>2
<1>5. QED  BY <1>3, <1>4 DEF NoNewClaim

\* What is left of a job's calls is a list of calls.
LEMMA RestTyped ==
    ASSUME NEW j \in Jobs, job \in [Jobs -> Job], job[j].todo # <<>>
    PROVE  Rest(j) \in Seq(Calls)
  BY DEF Rest, Job, Idle

\* A new job claims nothing.
LEMMA Spawning ==
    ASSUME NEW w \in Workers, NEW todo \in Seq(Calls), job \in [Jobs -> Job]
    PROVE  Spawned(w, todo) \in [Jobs -> Job] /\ NoNewClaim(job, Spawned(w, todo))
<1> DEFINE slot == CHOOSE j \in Free : \A k \in Free : j <= k
           new == [at |-> w, todo |-> todo, gen |-> 0, fresh |-> FALSE]
<1>1. new \in Job /\ ~new.fresh
  BY DEF Job
<1>2. Spawned(w, todo) = [job EXCEPT ![slot] = new]
  BY DEF Spawned
<1> HIDE DEF slot, new
<1>3. QED  BY <1>1, <1>2 DEF NoNewClaim

\* A step that claims nothing new and leaves the record alone keeps the fence.
LEMMA FenceStands ==
    ASSUME Fenced, NoNewClaim(job, job'), owner' = owner
    PROVE  Fenced'
  BY DEF Fenced, NoNewClaim

\* With the record gone nothing is current, and the fence stands.
LEMMA FenceFalls ==
    ASSUME \A j \in Jobs : ~job'[j].fresh
    PROVE  Fenced'
  BY DEF Fenced

\* Jobs made outdated are typed, and none of them is fresh.
LEMMA Outdating ==
    ASSUME NEW jobs \in [Jobs -> Job]
    PROVE  /\ Outdated(jobs) \in [Jobs -> Job]
           /\ \A j \in Jobs : ~Outdated(jobs)[j].fresh
<1>1. ASSUME NEW j \in Jobs
      PROVE  [at |-> jobs[j].at, todo |-> jobs[j].todo, gen |-> jobs[j].gen,
              fresh |-> FALSE] \in Job
  <2>1. CASE jobs[j] = Idle
    BY <2>1 DEF Job, Idle
  <2>2. CASE jobs[j] # Idle
    BY <2>2 DEF Job
  <2>3. QED  BY <2>1, <2>2
<1>2. QED  BY <1>1 DEF Outdated

\* The initial state satisfies the invariant.
LEMMA Initially == Init => IInv
<1> SUFFICES ASSUME Init PROVE IInv
  OBVIOUS
<1>1. Idle \in Job /\ ~Idle.fresh
  BY DEF Idle, Job
<1>2. Unowned \in Ownership
  BY DEF Ownership
<1>3. TypeOK
  <2>1. 0 \in 0 .. MaxFailures /\ {MaxStarts, MaxStops, MaxFaults} \subseteq Nat
    BY BoundsAssumption
  <2>2. <<>> \in Seq({"START", "STOP"})
    OBVIOUS
  <2>3. budget \in [starts : Nat, stops : Nat, faults : Nat]
    BY <2>1 DEF Init
  <2>4. QED  BY <1>1, <1>2, <2>1, <2>2, <2>3 DEF Init, TypeOK
<1>4. Fenced
  BY <1>1 DEF Init, Fenced
<1>5. QED  BY <1>3, <1>4 DEF IInv

\* Requests and the queue give a worker a new job.
LEMMA Inputs ==
    ASSUME IInv, NEW w \in Workers, UserStart(w) \/ UserStop(w) \/ Consume(w)
    PROVE  IInv'
<1>1. job \in [Jobs -> Job]
  BY DEF IInv, TypeOK
<1>2. CASE UserStart(w)
  <2>1. job' \in [Jobs -> Job] /\ NoNewClaim(job, job')
    BY <1>1, <1>2, Spawning, Lists DEF UserStart
  <2>2. TypeOK'
    BY <2>1, <1>2 DEF IInv, TypeOK, UserStart
  <2>3. QED  BY <2>1, <2>2, <1>2, FenceStands DEF IInv, UserStart
<1>3. CASE UserStop(w)
  <2>1. job' \in [Jobs -> Job] /\ NoNewClaim(job, job')
    BY <1>1, <1>3, Spawning, Lists DEF UserStop
  <2>2. TypeOK'
    BY <2>1, <1>3 DEF IInv, TypeOK, UserStop
  <2>3. QED  BY <2>1, <2>2, <1>3, FenceStands DEF IInv, UserStop
<1>4. CASE Consume(w)
  <2>1. job' \in [Jobs -> Job] /\ NoNewClaim(job, job')
    BY <1>1, <1>4, Spawning, Lists DEF Consume
  <2>2. TypeOK'
    BY <2>1, <1>4 DEF IInv, TypeOK, Consume
  <2>3. QED  BY <2>1, <2>2, <1>4, FenceStands DEF IInv, Consume
<1>5. QED  BY <1>2, <1>3, <1>4

\* The calls of a handler other than claims and releases.
LEMMA HandlerCalls ==
    ASSUME IInv, NEW j \in Jobs,
           \/ Publish(j) \/ GuardAlive(j) \/ MarkStatus(j) \/ Beat(j)
           \/ CacheTask(j) \/ ForgetTask(j) \/ GuardStatus(j) \/ Orphaned(j)
    PROVE  IInv'
<1>1. job \in [Jobs -> Job]
  BY DEF IInv, TypeOK
<1>2. <<>> \in Seq(Calls)
  OBVIOUS
<1>3. CASE Publish(j)
  <2>1. job' \in [Jobs -> Job] /\ NoNewClaim(job, job')
    BY <1>1, <1>2, <1>3, GoingOn, RestTyped DEF Publish, Goto, At
  <2>2. TypeOK'
    <3>1. \A q \in Seq({"START", "STOP"}), c \in {"START", "STOP"} :
              Append(q, c) \in Seq({"START", "STOP"})
      OBVIOUS
    <3>2. queue' \in Seq({"START", "STOP"})
      BY <3>1, <1>3 DEF IInv, TypeOK, Publish
    <3>3. QED  BY <2>1, <3>2, <1>3 DEF IInv, TypeOK, Publish
  <2>3. QED  BY <2>1, <2>2, <1>3, FenceStands DEF IInv, Publish
<1>4. CASE GuardAlive(j)
  <2>1. job' \in [Jobs -> Job] /\ NoNewClaim(job, job')
    BY <1>1, <1>2, <1>4, GoingOn, RestTyped DEF GuardAlive, Goto, At
  <2>2. TypeOK'
    BY <2>1, <1>4 DEF IInv, TypeOK, GuardAlive
  <2>3. QED  BY <2>1, <2>2, <1>4, FenceStands DEF IInv, GuardAlive
<1>5. CASE MarkStatus(j)
  <2>1. job' \in [Jobs -> Job] /\ NoNewClaim(job, job')
    BY <1>1, <1>2, <1>5, GoingOn, RestTyped DEF MarkStatus, Goto, At
  <2>2. TypeOK'
    BY <2>1, <1>5 DEF IInv, TypeOK, MarkStatus
  <2>3. QED  BY <2>1, <2>2, <1>5, FenceStands DEF IInv, MarkStatus
<1>6. CASE Beat(j)
  <2>1. job' \in [Jobs -> Job] /\ NoNewClaim(job, job')
    BY <1>1, <1>2, <1>6, GoingOn, RestTyped DEF Beat, Goto, At
  <2>2. TypeOK'
    BY <2>1, <1>6 DEF IInv, TypeOK, Beat
  <2>3. QED  BY <2>1, <2>2, <1>6, FenceStands DEF IInv, Beat
<1>7. CASE CacheTask(j)
  <2>1. job' \in [Jobs -> Job] /\ NoNewClaim(job, job')
    BY <1>1, <1>2, <1>7, GoingOn, RestTyped DEF CacheTask, Goto, At
  <2>2. TypeOK'
    BY <2>1, <1>7 DEF IInv, TypeOK, CacheTask
  <2>3. QED  BY <2>1, <2>2, <1>7, FenceStands DEF IInv, CacheTask
<1>8. CASE ForgetTask(j)
  <2>1. job' \in [Jobs -> Job] /\ NoNewClaim(job, job')
    BY <1>1, <1>2, <1>8, GoingOn, RestTyped DEF ForgetTask, Goto, At
  <2>2. TypeOK'
    <3>1. 0 \in 0 .. MaxFailures
      BY BoundsAssumption
    <3>2. QED  BY <2>1, <3>1, <1>8 DEF IInv, TypeOK, ForgetTask
  <2>3. QED  BY <2>1, <2>2, <1>8, FenceStands DEF IInv, ForgetTask
<1>9. CASE GuardStatus(j)
  <2>1. job' \in [Jobs -> Job] /\ NoNewClaim(job, job')
    BY <1>1, <1>2, <1>9, GoingOn, RestTyped DEF GuardStatus, Goto, At
  <2>2. TypeOK'
    BY <2>1, <1>9 DEF IInv, TypeOK, GuardStatus
  <2>3. QED  BY <2>1, <2>2, <1>9, FenceStands DEF IInv, GuardStatus
<1>10. CASE Orphaned(j)
  <2>1. job' \in [Jobs -> Job] /\ NoNewClaim(job, job')
    BY <1>1, <1>2, <1>10, GoingOn, RestTyped DEF Orphaned, Goto, At
  <2>2. TypeOK'
    BY <2>1, <1>10 DEF IInv, TypeOK, Orphaned
  <2>3. QED  BY <2>1, <2>2, <1>10, FenceStands DEF IInv, Orphaned
<1>11. QED  BY <1>3, <1>4, <1>5, <1>6, <1>7, <1>8, <1>9, <1>10

\* A claim takes a generation above those of all who claimed the record.
LEMMA Claiming ==
    ASSUME IInv, NEW j \in Jobs, Claim(j)
    PROVE  IInv'
<1> DEFINE w == job[j].at
<1>1. job \in [Jobs -> Job] /\ owner \in Ownership /\ Fenced
  BY DEF IInv, TypeOK
<1>2. job[j].todo # <<>> /\ Rest(j) \in Seq(Calls)
  BY <1>1, RestTyped DEF Claim, At
<1>3. CASE MayClaim(owner, w)
  <2>1. /\ owner' = [worker |-> w, gen |-> owner.gen + 1]
        /\ job' = [job EXCEPT ![j] = [at |-> w, todo |-> Rest(j), gen |-> owner.gen + 1,
                                     fresh |-> TRUE]]
    BY <1>3 DEF Claim, Claimed
  <2>2. owner.gen \in Nat
    BY <1>1 DEF Ownership, Unowned
  <2>3. [at |-> w, todo |-> Rest(j), gen |-> owner.gen + 1, fresh |-> TRUE] \in Job
    BY <1>1, <1>2, <2>2 DEF Job, Idle
  <2>4. job' \in [Jobs -> Job]
    BY <1>1, <2>1, <2>3
  <2>5. \A k \in Jobs \ {j} : job[k].fresh => job[k].at = w /\ job[k].gen \in 1 .. owner.gen
    <3>1. CASE owner.worker = w
      BY <3>1, <1>1 DEF Fenced
    <3>2. CASE owner.worker = NoWorker
      <4>1. owner.gen = 0
        BY <3>2, <1>1, WorkersAssumption DEF Ownership, Unowned
      <4>2. \A k \in Jobs : ~job[k].fresh
        BY <4>1, <1>1 DEF Fenced
      <4>3. QED  BY <4>2
    <3>3. QED  BY <1>3, <3>1, <3>2 DEF MayClaim
  <2>6. Fenced'
    <3>1. \A k \in Jobs \ {j} : job'[k] = job[k]
      BY <1>1, <2>1
    <3>2. job'[j].at = w /\ job'[j].gen = owner.gen + 1 /\ job'[j].fresh
      BY <1>1, <2>1
    <3>3. owner'.worker = w /\ owner'.gen = owner.gen + 1
      BY <2>1
    <3>4. \A k \in Jobs : job'[k].fresh =>
              job'[k].at = owner'.worker /\ job'[k].gen \in 1 .. owner'.gen
      BY <2>2, <2>5, <3>1, <3>2, <3>3
    <3>5. \A i, k \in Jobs :
              job'[i].fresh /\ job'[k].fresh /\ job'[i].gen = job'[k].gen => i = k
      BY <1>1, <2>2, <2>5, <3>1, <3>2 DEF Fenced
    <3>6. QED  BY <3>4, <3>5 DEF Fenced
  <2>7. owner' \in Ownership
    <3>1. w \in Workers
      BY <1>1, <1>2 DEF Job, Idle
    <3>2. QED  BY <3>1, <2>1, <2>2 DEF Ownership
  <2>8. TypeOK'
    BY <2>4, <2>7 DEF IInv, TypeOK, Claim
  <2>9. QED  BY <2>6, <2>8 DEF IInv
<1>4. CASE ~MayClaim(owner, w)
  <2>1. job' = With(j, <<>>) /\ owner' = owner
    BY <1>4 DEF Claim, Goto
  <2>2. job' \in [Jobs -> Job] /\ NoNewClaim(job, job')
    BY <1>1, <1>2, <2>1, GoingOn, Lists
  <2>3. TypeOK'
    BY <2>1, <2>2 DEF IInv, TypeOK, Claim
  <2>4. QED  BY <2>1, <2>2, <2>3, FenceStands DEF IInv
<1>5. QED  BY <1>3, <1>4

\* A release lets the record go for all, or changes nothing.
LEMMA Releasing ==
    ASSUME IInv, NEW j \in Jobs, Release(j)
    PROVE  IInv'
<1>1. job \in [Jobs -> Job] /\ job[j].todo # <<>>
  BY DEF IInv, TypeOK, Release, At
<1>2. With(j, Rest(j)) \in [Jobs -> Job] /\ NoNewClaim(job, With(j, Rest(j)))
  BY <1>1, GoingOn, RestTyped
<1>3. CASE owner' = Unowned /\ job' = Outdated(With(j, Rest(j)))
  <2>1. job' \in [Jobs -> Job] /\ \A k \in Jobs : ~job'[k].fresh
    BY <1>2, <1>3, Outdating
  <2>2. TypeOK'
    BY <2>1, <1>3 DEF IInv, TypeOK, Release, Ownership
  <2>3. QED  BY <2>1, <2>2, FenceFalls DEF IInv
<1>4. CASE owner' = owner /\ job' = With(j, Rest(j))
  <2>1. TypeOK'
    BY <1>2, <1>4 DEF IInv, TypeOK, Release
  <2>2. QED  BY <2>1, <1>2, <1>4, FenceStands DEF IInv
<1>5. QED  BY <1>3, <1>4 DEF Release, Goto

\* A loop claims nothing and leaves the record alone.
LEMMA LoopCall ==
    ASSUME IInv, NEW j \in Jobs, Loop(j)
    PROVE  IInv'
<1>1. job \in [Jobs -> Job]
  BY DEF IInv, TypeOK
<1>2. \A c \in LoopCalls : <<c>> \in Seq(Calls)
  BY Lists
<1>3. /\ <<"loopBeat">> \in Seq(Calls) /\ <<"check">> \in Seq(Calls)
      /\ <<"work">> \in Seq(Calls) /\ <<"nap">> \in Seq(Calls)
      /\ <<"pause">> \in Seq(Calls)
      /\ AutoStop \in Seq(Calls) /\ <<>> \in Seq(Calls)
  BY <1>2, Lists DEF LoopCalls
<1>4. CASE Setup(j)
  <2>1. job' \in [Jobs -> Job] /\ NoNewClaim(job, job')
    BY <1>1, <1>3, <1>4, GoingOn DEF Setup, Goto, At
  <2>2. TypeOK'
    <3>1. budget' \in [starts : Nat, stops : Nat, faults : Nat]
      BY <1>4 DEF IInv, TypeOK, Setup
    <3>2. QED  BY <2>1, <3>1, <1>4 DEF IInv, TypeOK, Setup
  <2>3. QED  BY <2>1, <2>2, <1>4, FenceStands DEF IInv, Setup
<1>5. CASE LoopBeat(j)
  <2>1. job' \in [Jobs -> Job] /\ NoNewClaim(job, job')
    BY <1>1, <1>3, <1>5, GoingOn DEF LoopBeat, Goto, At
  <2>2. TypeOK'
    BY <2>1, <1>5 DEF IInv, TypeOK, LoopBeat
  <2>3. QED  BY <2>1, <2>2, <1>5, FenceStands DEF IInv, LoopBeat
<1>6. CASE Check(j)
  <2>1. job' \in [Jobs -> Job] /\ NoNewClaim(job, job')
    BY <1>1, <1>3, <1>6, GoingOn DEF Check, Goto, At
  <2>2. TypeOK'
    BY <2>1, <1>6 DEF IInv, TypeOK, Check
  <2>3. QED  BY <2>1, <2>2, <1>6, FenceStands DEF IInv, Check
<1>7. CASE Work(j)
  <2>1. job' \in [Jobs -> Job] /\ NoNewClaim(job, job')
    BY <1>1, <1>3, <1>7, GoingOn DEF Work, Goto, At
  <2>2. failures' \in 0 .. MaxFailures
    <3>1. failures \in 0 .. MaxFailures /\ MaxFailures \in Nat
      BY BoundsAssumption DEF IInv, TypeOK
    <3>2. 0 \in 0 .. MaxFailures /\ OneMore \in 0 .. MaxFailures
      BY <3>1 DEF OneMore
    <3>3. QED  BY <3>1, <3>2, <1>7 DEF Work
  <2>3. TypeOK'
    BY <2>1, <2>2, <1>7 DEF IInv, TypeOK, Work
  <2>4. QED  BY <2>1, <2>3, <1>7, FenceStands DEF IInv, Work
<1>8. CASE Nap(j)
  <2>1. job' \in [Jobs -> Job] /\ NoNewClaim(job, job')
    <3>1. NoNewClaim(job, job)
      BY DEF NoNewClaim
    <3>2. QED  BY <1>1, <1>3, <1>8, <3>1, GoingOn DEF Nap, Goto, At
  <2>2. TypeOK'
    BY <2>1, <1>8 DEF IInv, TypeOK, Nap
  <2>3. QED  BY <2>1, <2>2, <1>8, FenceStands DEF IInv, Nap
<1>9. CASE Pause(j)
  <2>1. job' \in [Jobs -> Job] /\ NoNewClaim(job, job')
    BY <1>1, <1>3, <1>9, GoingOn DEF Pause, Goto, At
  <2>2. TypeOK'
    BY <2>1, <1>9 DEF IInv, TypeOK, Pause
  <2>3. QED  BY <2>1, <2>2, <1>9, FenceStands DEF IInv, Pause
<1>10. QED  BY <1>4, <1>5, <1>6, <1>7, <1>8, <1>9 DEF Loop

\* A worker that ends, shuts down or starts claims nothing.
LEMMA Processes ==
    ASSUME IInv, NEW w \in Workers, Exit(w) \/ Drain(w) \/ Boot(w)
    PROVE  IInv'
<1>1. job \in [Jobs -> Job] /\ Idle \in Job /\ ~Idle.fresh
  BY DEF IInv, TypeOK, Job, Idle
<1>2. NoNewClaim(job, job)
  BY DEF NoNewClaim
<1>3. CASE Exit(w)
  <2>1. job' \in [Jobs -> Job] /\ NoNewClaim(job, job')
    BY <1>1, <1>3 DEF Exit, NoNewClaim
  <2>2. phase' \in [Workers -> {"up", "draining", "down"}]
    BY <1>3 DEF IInv, TypeOK, Exit
  <2>3. budget' \in [starts : Nat, stops : Nat, faults : Nat]
    BY <1>3 DEF IInv, TypeOK, Exit
  <2>4. TypeOK'
    BY <2>1, <2>2, <2>3, <1>3 DEF IInv, TypeOK, Exit
  <2>5. QED  BY <2>1, <2>4, <1>3, FenceStands DEF IInv, Exit
<1>4. CASE Drain(w)
  <2>1. job' \in [Jobs -> Job] /\ NoNewClaim(job, job')
    BY <1>1, <1>2, <1>4, Spawning, Lists DEF Drain, WithOwn
  <2>2. phase' \in [Workers -> {"up", "draining", "down"}]
    BY <1>4 DEF IInv, TypeOK, Drain
  <2>3. budget' \in [starts : Nat, stops : Nat, faults : Nat]
    BY <1>4 DEF IInv, TypeOK, Drain
  <2>4. TypeOK'
    BY <2>1, <2>2, <2>3, <1>4 DEF IInv, TypeOK, Drain
  <2>5. QED  BY <2>1, <2>4, <1>4, FenceStands DEF IInv, Drain
<1>5. CASE Boot(w)
  <2>1. job' \in [Jobs -> Job] /\ NoNewClaim(job, job')
    BY <1>1, <1>2, <1>5, Spawning, Lists DEF Boot, WithOwn
  <2>2. phase' \in [Workers -> {"up", "draining", "down"}]
    BY <1>5 DEF IInv, TypeOK, Boot
  <2>3. TypeOK'
    BY <2>1, <2>2, <1>5 DEF IInv, TypeOK, Boot
  <2>4. QED  BY <2>1, <2>3, <1>5, FenceStands DEF IInv, Boot
<1>6. QED  BY <1>3, <1>4, <1>5

\* The heartbeat's end and the sweep: the record is lost to all or kept.
LEMMA Sweeping ==
    ASSUME IInv, HeartbeatExpires \/ Sweep
    PROVE  IInv'
<1>1. job \in [Jobs -> Job] /\ NoNewClaim(job, job)
  BY DEF IInv, TypeOK, NoNewClaim
<1>2. CASE HeartbeatExpires
  <2>1. TypeOK'
    BY <1>2 DEF IInv, TypeOK, HeartbeatExpires
  <2>2. QED  BY <2>1, <1>1, <1>2, FenceStands DEF IInv, HeartbeatExpires
<1>3. CASE SweepFinds
  <2>1. TypeOK'
    BY <1>3 DEF IInv, TypeOK, SweepFinds
  <2>2. QED  BY <2>1, <1>1, <1>3, FenceStands DEF IInv, SweepFinds
<1>4. CASE SweepReleases
  <2>1. job' \in [Jobs -> Job] /\ \A k \in Jobs : ~job'[k].fresh
    BY <1>1, <1>4, Outdating DEF SweepReleases
  <2>2. TypeOK'
    BY <2>1, <1>4 DEF IInv, TypeOK, SweepReleases, Ownership
  <2>3. QED  BY <2>1, <2>2, FenceFalls DEF IInv
<1>5. CASE SweepRestarts
  <2>1. job' \in [Jobs -> Job] /\ NoNewClaim(job, job')
    BY <1>1, <1>5, Spawning, Lists DEF SweepRestarts
  <2>2. TypeOK'
    BY <2>1, <1>5 DEF IInv, TypeOK, SweepRestarts
  <2>3. QED  BY <2>1, <2>2, <1>5, FenceStands DEF IInv, SweepRestarts
<1>6. CASE SweepWakes
  <2>1. TypeOK'
    BY <1>6 DEF IInv, TypeOK, SweepWakes
  <2>2. QED  BY <2>1, <1>1, <1>6, FenceStands DEF IInv, SweepWakes
<1>7. QED  BY <1>2, <1>3, <1>4, <1>5, <1>6 DEF Sweep

\* The invariant is inductive: it holds at the start, and every action of the
\* workers, the queue, the sweep and the clock keeps it.
THEOREM Invariant == Spec => []IInv
<1>1. Init => IInv
  BY Initially
<1>2. IInv /\ [Next]_vars => IInv'
  <2> SUFFICES ASSUME IInv, [Next]_vars PROVE IInv'
    OBVIOUS
  <2>1. ASSUME NEW w \in Workers, UserStart(w) \/ UserStop(w) \/ Consume(w)
        PROVE  IInv'
    BY <2>1, Inputs
  <2>2. ASSUME NEW w \in Workers, Exit(w) \/ Drain(w) \/ Boot(w)
        PROVE  IInv'
    BY <2>2, Processes
  <2>3. ASSUME NEW j \in Jobs, Handler(j)
        PROVE  IInv'
    BY <2>3, HandlerCalls, Claiming, Releasing DEF Handler
  <2>4. ASSUME NEW j \in Jobs, Loop(j)
        PROVE  IInv'
    BY <2>4, LoopCall
  <2>5. CASE HeartbeatExpires \/ Sweep
    BY <2>5, Sweeping
  <2>6. CASE UNCHANGED vars
    BY <2>6 DEF vars, IInv, TypeOK, Fenced
  <2>7. QED  BY <2>1, <2>2, <2>3, <2>4, <2>5, <2>6 DEF Next
<1>3. QED  BY <1>1, <1>2, PTL DEF Spec

\* Whatever the workers do, every variable keeps its type; in particular a
\* record that is present never has generation 0, which an absent one reads as.
THEOREM Typed == Spec => []TypeOK
<1>1. IInv => TypeOK
  BY DEF IInv
<1>2. QED  BY <1>1, Invariant, PTL

\* Of the jobs that claimed the present ownership record one at most carries
\* its generation, for any number of workers, jobs, starts, stops and crashes:
\* claim_task's counter is a fence as long as nobody deletes the record.
THEOREM Fencing == Spec => []OneCurrentLoop
<1>1. IInv => OneCurrentLoop
  BY DEF IInv, Fenced, OneCurrentLoop
<1>2. QED  BY <1>1, Invariant, PTL
-----------------------------------------------------------------------------
(***************************************************************************)
(* What a deletion of the record is needed for: two loops of a generation. *)
(***************************************************************************)
\* The calls that only a job makes that has claimed the project.
ClaimantCalls == LoopCalls \cup {"cache"}

\* Within a list, such a call stands behind the claim.
Ordered(todo) ==
    \A i \in 2 .. Len(todo) : todo[i] \in ClaimantCalls => todo[i - 1] \in {"claim", "cache"}

Leads(todo, fresh) == todo # <<>> /\ Head(todo) \in ClaimantCalls => fresh

\* Whoever is about to make such a call has claimed the present record.
Entitled(jobs) == \A j \in Jobs : Ordered(jobs[j].todo) /\ Leads(jobs[j].todo, jobs[j].fresh)

\* The record that is there is not deleted.
RecordKept == owner' = Unowned => owner = Unowned

LEMMA ListsOrdered ==
    /\ \A todo \in {StartRequest, StopRequest, StartCommand, StopCommand, AutoStop,
                    Recovery, Shutdown, <<>>} : Ordered(todo) /\ Leads(todo, FALSE)
    /\ \A c \in LoopCalls : Ordered(<<c>>)
<1>1. \A c \in {"guardAlive", "markRunning", "beat", "publishStart", "forget", "publishStop",
                "unbeat", "release", "markStopped", "guardStatus", "uncache", "claim",
                "orphaned", "forceRelease"} : c \notin ClaimantCalls
  BY DEF ClaimantCalls, LoopCalls
<1>2. Ordered(StartRequest) /\ Leads(StartRequest, FALSE)
  BY <1>1 DEF StartRequest, Ordered, Leads
<1>3. Ordered(StopRequest) /\ Leads(StopRequest, FALSE)
  BY <1>1 DEF StopRequest, Ordered, Leads
<1>4. Ordered(StartCommand) /\ Leads(StartCommand, FALSE)
  BY <1>1 DEF StartCommand, Ordered, Leads
<1>5. Ordered(StopCommand) /\ Leads(StopCommand, FALSE)
  BY <1>1 DEF StopCommand, Ordered, Leads
<1>6. Ordered(AutoStop) /\ Leads(AutoStop, FALSE)
  BY <1>1 DEF AutoStop, Ordered, Leads
<1>7. Ordered(Recovery) /\ Leads(Recovery, FALSE) /\ Ordered(Shutdown) /\ Leads(Shutdown, FALSE)
  BY <1>1 DEF Recovery, Shutdown, Ordered, Leads
<1>8. Ordered(<<>>) /\ Leads(<<>>, FALSE) /\ \A c \in LoopCalls : Ordered(<<c>>)
  BY DEF Ordered, Leads
<1>9. QED  BY <1>2, <1>3, <1>4, <1>5, <1>6, <1>7, <1>8

\* A job that makes its next call stays in order; only one that has claimed
\* comes to a claimant's call.
LEMMA RestOrdered ==
    ASSUME NEW j \in Jobs, job \in [Jobs -> Job], Entitled(job), job[j].todo # <<>>
    PROVE  /\ Ordered(Rest(j))
           /\ Head(job[j].todo) # "claim" => Leads(Rest(j), job[j].fresh)
           /\ Head(job[j].todo) \notin {"claim", "cache"} => Leads(Rest(j), FALSE)
<1> DEFINE todo == job[j].todo
<1>1. todo \in Seq(Calls) /\ Ordered(todo) /\ Leads(todo, job[j].fresh)
  BY DEF Entitled, Job, Idle
<1>2. /\ Rest(j) \in Seq(Calls) /\ Len(Rest(j)) = Len(todo) - 1
      /\ \A i \in 1 .. Len(Rest(j)) : Rest(j)[i] = todo[i + 1]
      /\ Head(todo) = todo[1] /\ Len(todo) \in Nat \ {0}
  BY <1>1 DEF Rest
<1>3. Ordered(Rest(j))
  <2> SUFFICES ASSUME NEW i \in 2 .. Len(Rest(j)), Rest(j)[i] \in ClaimantCalls
               PROVE  Rest(j)[i - 1] \in {"claim", "cache"}
    BY DEF Ordered
  <2>1. i + 1 \in 2 .. Len(todo) /\ todo[i + 1] \in ClaimantCalls
    BY <1>2
  <2>2. todo[i + 1 - 1] \in {"claim", "cache"}
    BY <1>1, <2>1 DEF Ordered
  <2>3. Rest(j)[i - 1] = todo[i]
    BY <1>2
  <2>4. QED  BY <2>2, <2>3
<1>4. ASSUME Rest(j) # <<>>, Head(Rest(j)) \in ClaimantCalls
      PROVE  Head(todo) \in {"claim", "cache"}
  <2>1. 2 \in 2 .. Len(todo) /\ Head(Rest(j)) = todo[2]
    BY <1>2, <1>4
  <2>2. QED  BY <1>1, <1>2, <1>4, <2>1 DEF Ordered
<1>5. "cache" \in ClaimantCalls
  BY DEF ClaimantCalls
<1>6. Head(todo) = "cache" => job[j].fresh
  BY <1>1, <1>5 DEF Leads
<1>7. QED  BY <1>3, <1>4, <1>6 DEF Leads

LEMMA EntitledGoingOn ==
    ASSUME NEW j \in Jobs, NEW todo, job \in [Jobs -> Job], Entitled(job),
           Ordered(todo), Leads(todo, job[j].fresh)
    PROVE  Entitled(With(j, todo))
<1>1. Ordered(Idle.todo) /\ Leads(Idle.todo, Idle.fresh)
  BY ListsOrdered DEF Idle
<1>2. CASE todo = <<>>
  BY <1>1, <1>2 DEF With, Entitled
<1>3. CASE todo # <<>>
  <2>1. With(j, todo) = [job EXCEPT ![j] = [job[j] EXCEPT !.todo = todo]]
    BY <1>3 DEF With
  <2>2. [job[j] EXCEPT !.todo = todo].todo = todo
        /\ [job[j] EXCEPT !.todo = todo].fresh = job[j].fresh
    BY DEF Job, Idle
  <2>3. QED  BY <2>1, <2>2 DEF Entitled
<1>4. QED  BY <1>2, <1>3

LEMMA EntitledSpawning ==
    ASSUME NEW w \in Workers, NEW todo, job \in [Jobs -> Job], Entitled(job),
           Ordered(todo), Leads(todo, FALSE)
    PROVE  Entitled(Spawned(w, todo))
<1> DEFINE slot == CHOOSE j \in Free : \A k \in Free : j <= k
           new == [at |-> w, todo |-> todo, gen |-> 0, fresh |-> FALSE]
<1>1. Ordered(new.todo) /\ Leads(new.todo, new.fresh)
  OBVIOUS
<1>2. Spawned(w, todo) = [job EXCEPT ![slot] = new]
  BY DEF Spawned
<1> HIDE DEF slot, new
<1>3. QED  BY <1>1, <1>2 DEF Entitled

\* Without a record nobody is entitled, and a step that finds none takes
\* nothing away by marking all jobs outdated.
LEMMA EntitledOutdating ==
    ASSUME IInv, owner = Unowned, NEW jobs, NoNewClaim(job, jobs), Entitled(jobs)
    PROVE  Entitled(Outdated(jobs))
<1>1. \A j \in Jobs : ~jobs[j].fresh
  BY DEF IInv, Fenced, NoNewClaim, Unowned
<1>2. \A j \in Jobs : /\ Outdated(jobs)[j].todo = jobs[j].todo
                      /\ Outdated(jobs)[j].fresh = FALSE
  BY DEF Outdated
<1>3. QED  BY <1>1, <1>2 DEF Entitled, Leads

LEMMA EntitledHandler ==
    ASSUME IInv, Entitled(job), RecordKept, NEW j \in Jobs, Handler(j)
    PROVE  Entitled(job')
<1> DEFINE next == Head(job[j].todo)
<1>1. job \in [Jobs -> Job] /\ job[j].todo # <<>>
  BY DEF IInv, TypeOK, Handler, Publish, GuardAlive, MarkStatus, Beat, CacheTask, ForgetTask,
     GuardStatus, Claim, Release, Orphaned, At
<1>2. Ordered(<<>>) /\ Leads(<<>>, job[j].fresh)
  BY ListsOrdered DEF Leads
<1>3. next # "claim" => Entitled(With(j, Rest(j)))
  BY <1>1, RestOrdered, EntitledGoingOn
<1>4. Entitled(With(j, <<>>))
  BY <1>1, <1>2, EntitledGoingOn
<1>5. CASE Publish(j) \/ GuardAlive(j) \/ MarkStatus(j) \/ Beat(j) \/ CacheTask(j)
           \/ ForgetTask(j) \/ GuardStatus(j) \/ Orphaned(j)
  <2>1. next # "claim"
    BY <1>5 DEF Publish, GuardAlive, MarkStatus, Beat, CacheTask, ForgetTask, GuardStatus,
       Orphaned, At
  <2>2. job' \in {With(j, Rest(j)), With(j, <<>>)}
    BY <1>5 DEF Publish, GuardAlive, MarkStatus, Beat, CacheTask, ForgetTask, GuardStatus,
       Orphaned, Goto
  <2>3. QED  BY <1>3, <1>4, <2>1, <2>2
<1>6. CASE Claim(j)
  <2>1. CASE MayClaim(owner, job[j].at)
    <3> DEFINE new == [at |-> job[j].at, todo |-> Rest(j),
                       gen |-> Claimed(owner, job[j].at).gen, fresh |-> TRUE]
    <3>1. job' = [job EXCEPT ![j] = new]
      BY <1>6, <2>1 DEF Claim
    <3>2. Ordered(new.todo) /\ Leads(new.todo, new.fresh)
      BY <1>1, RestOrdered DEF Leads
    <3> HIDE DEF new
    <3>3. QED  BY <3>1, <3>2 DEF Entitled
  <2>2. CASE ~MayClaim(owner, job[j].at)
    BY <1>4, <1>6, <2>2 DEF Claim, Goto
  <2>3. QED  BY <2>1, <2>2
<1>7. CASE Release(j)
  <2>1. next # "claim"
    BY <1>7 DEF Release, At
  <2>2. CASE job' = With(j, Rest(j))
    BY <1>3, <2>1, <2>2
  <2>3. CASE owner' = Unowned /\ job' = Outdated(With(j, Rest(j)))
    <3>1. owner = Unowned
      BY <2>3 DEF RecordKept
    <3>2. NoNewClaim(job, With(j, Rest(j)))
      BY <1>1, RestTyped, GoingOn
    <3>3. QED  BY <1>3, <2>1, <2>3, <3>1, <3>2, EntitledOutdating
  <2>4. QED  BY <1>7, <2>2, <2>3 DEF Release, Goto
<1>8. QED  BY <1>5, <1>6, <1>7 DEF Handler

\* A loop's calls are those of one that has claimed, and it goes on with such.
LEMMA EntitledLoop ==
    ASSUME IInv, Entitled(job), NEW j \in Jobs, Loop(j)
    PROVE  Entitled(job')
<1>1. job \in [Jobs -> Job] /\ job[j].todo # <<>> /\ Head(job[j].todo) \in LoopCalls
  BY DEF IInv, TypeOK, Loop, Setup, LoopBeat, Check, Work, Nap, Pause, At, LoopCalls
<1>2. job[j].fresh
  BY <1>1 DEF Entitled, Leads, ClaimantCalls
<1>3. \A todo \in {<<"loopBeat">>, <<"check">>, <<"work">>, <<"nap">>, <<"pause">>, AutoStop,
                   <<>>} : Ordered(todo) /\ Leads(todo, job[j].fresh)
  BY <1>2, ListsOrdered DEF Leads, LoopCalls
<1>4. \/ job' = job
      \/ \E todo \in {<<"loopBeat">>, <<"check">>, <<"work">>, <<"nap">>, <<"pause">>, AutoStop,
                      <<>>} : job' = With(j, todo)
  BY DEF Loop, Setup, LoopBeat, Check, Work, Nap, Pause, Goto
<1>5. QED  BY <1>1, <1>3, <1>4, EntitledGoingOn

LEMMA EntitledElse ==
    ASSUME IInv, Entitled(job), RecordKept,
           \/ HeartbeatExpires \/ Sweep
           \/ \E w \in Workers : UserStart(w) \/ UserStop(w) \/ Consume(w)
                                 \/ Exit(w) \/ Drain(w) \/ Boot(w)
    PROVE  Entitled(job')
<1>1. job \in [Jobs -> Job]
  BY DEF IInv, TypeOK
<1>2. \A w \in Workers, todo \in {StartRequest, StopRequest, StartCommand, StopCommand,
                                  Recovery, Shutdown} : Entitled(Spawned(w, todo))
  BY <1>1, ListsOrdered, EntitledSpawning
<1>3. CASE job' = job
  BY <1>3
<1>4. CASE \E w \in Workers, todo \in {StartRequest, StopRequest, StartCommand, StopCommand,
                                       Recovery, Shutdown} : job' = Spawned(w, todo)
  BY <1>2, <1>4
<1>5. ASSUME NEW w \in Workers, Exit(w) PROVE Entitled(job')
  <2>1. Ordered(Idle.todo) /\ Leads(Idle.todo, Idle.fresh)
    BY ListsOrdered DEF Idle
  <2>2. QED  BY <1>5, <2>1 DEF Exit, Entitled
<1>6. CASE SweepReleases
  <2>1. owner = Unowned /\ job' = Outdated(job)
    BY <1>6 DEF SweepReleases, RecordKept
  <2>2. NoNewClaim(job, job)
    BY DEF NoNewClaim
  <2>3. QED  BY <2>1, <2>2, EntitledOutdating
<1>7. CASE HeartbeatExpires \/ Sweep
  <2>1. SweepRestarts => job' = job \/ \E w \in Workers : job' = Spawned(w, StartRequest)
    BY DEF SweepRestarts
  <2>2. QED
    BY <1>3, <1>4, <1>6, <1>7, <2>1 DEF HeartbeatExpires, Sweep, SweepFinds, SweepWakes
<1>8. ASSUME NEW w \in Workers,
             UserStart(w) \/ UserStop(w) \/ Consume(w) \/ Exit(w) \/ Drain(w) \/ Boot(w)
      PROVE  Entitled(job')
  BY <1>3, <1>4, <1>5, <1>8 DEF UserStart, UserStop, Consume, Drain, Boot, WithOwn
<1>9. QED  BY <1>7, <1>8

\* The check of volume_maker.rs stops a loop "superseded by a newer generation":
\* as long as the record that tells loops apart is not deleted, whatever starts,
\* restarts of workers, refused claims and queued commands do, no two loops of
\* one generation trade.  So a deletion under a loop, by the sweep, a stop or a
\* shutdown (force_release, release_task), is what the violation needs.
THEOREM OneLoopWhileRecordIsKept == Spec /\ [][RecordKept]_vars => []OneLoop
<1>1. Init => Entitled(job)
  <2>1. Ordered(Idle.todo) /\ Leads(Idle.todo, Idle.fresh)
    BY ListsOrdered DEF Idle
  <2>2. QED  BY <2>1 DEF Init, Entitled
<1>2. IInv /\ Entitled(job) /\ [Next]_vars /\ [RecordKept]_vars => Entitled(job)'
  <2> SUFFICES ASSUME IInv, Entitled(job), [Next]_vars, [RecordKept]_vars
               PROVE  Entitled(job')
    BY DEF Entitled
  <2>1. CASE UNCHANGED vars
    BY <2>1 DEF vars
  <2>2. CASE Next /\ RecordKept
    BY <2>2, EntitledHandler, EntitledLoop, EntitledElse DEF Next
  <2>3. QED  BY <2>1, <2>2
<1>3. IInv /\ Entitled(job) => OneLoop
  <2> SUFFICES ASSUME IInv, Entitled(job), NEW i \in Jobs, NEW k \in Jobs,
                      Serving(i), Serving(k), job[i].gen = job[k].gen
               PROVE  i = k
    BY DEF OneLoop
  <2>1. job[i].fresh /\ job[k].fresh
    BY DEF Serving, At, Entitled, Leads, ClaimantCalls, LoopCalls
  <2>2. QED  BY <2>1 DEF IInv, Fenced
<1>4. QED  BY <1>1, <1>2, <1>3, Invariant, PTL DEF Spec
=============================================================================
