--------------------------- MODULE TaskOwnership ---------------------------
(***************************************************************************)
(* The ownership record of one project, as the Lua scripts of              *)
(* vm-redis/src/task_ownership.rs keep it in Redis: which worker runs the  *)
(* project, and the generation of its claim.  A script runs as one step.   *)
(* The operators are pure; VolumeTask holds the record in a variable.      *)
(***************************************************************************)
EXTENDS Naturals

CONSTANTS
    Workers,    \* the worker processes, by worker_id
    NoWorker    \* stands for a record that is absent

\* A worker_id is never the mark of an absent record.
ASSUME WorkersAssumption == NoWorker \notin Workers

Unowned == [worker |-> NoWorker, gen |-> 0]

\* Generation 0 is no claim's: it is what an absent record reads as.
Ownership == {Unowned} \cup [worker : Workers, gen : Nat \ {0}]

\* claim_task answers None when another worker holds the record.
MayClaim(record, w) == record.worker \in {NoWorker, w}

\* Seeded fault: the first claim is generation 0.
ClaimedFromZero(record, w) ==
    [worker |-> w, gen |-> IF record = Unowned THEN 0 ELSE record.gen + 1]

\* Seeded fault: a second claim of the same worker keeps the generation.
ClaimedAsBefore(record, w) ==
    [worker |-> w, gen |-> IF record = Unowned THEN 1 ELSE record.gen]

\* The record after a claim that succeeds: generation 1 when it was absent,
\* one more when the worker held it already.
Claimed(record, w) == [worker |-> w, gen |-> record.gen + 1]

\* release_task deletes the record only for the worker that holds it.
MayRelease(record, w) == record.worker = w

\* get_task_generation: the record's generation, 0 when there is none.
GenerationOf(record) == record.gen
=============================================================================
