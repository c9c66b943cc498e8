----------------------------- MODULE Evaluation -----------------------------
(***************************************************************************)
(* Evaluations of a question set (aperag/service/evaluation_service.py,    *)
(* aperag/db/repositories/evaluation.py).  A periodic scan schedules       *)
(* PENDING evaluations and drives RUNNING ones; Celery tasks initialise an *)
(* evaluation, dispatch a batch of its items under a Redis lock, and work  *)
(* on one item.                                                            *)
(*                                                                         *)
(* Evaluations and questions are numbered in the order of gmt_created.     *)
(***************************************************************************)
EXTENDS Integers, FiniteSets

CONSTANTS
    NumEvaluations,
    NumQuestions,
    Workers,         \* Celery worker processes
    Requests,        \* API workers
    NoWorker,        \* the holder of a free lock
    MaxRunning,      \* MAX_CONCURRENT_EVALUATIONS
    Slots,           \* MAX_CONCURRENT_PROCESSING_TASKS_PER_EVALUATION
    Ops,             \* the API operations this instance exercises
    MaxOps,          \* bound: API operations other than creations
    Faults,          \* the faults this instance exercises
    MaxFaults        \* bound: faults

ASSUME ConstantsAssumption ==
    /\ {NumEvaluations, NumQuestions, MaxRunning, Slots, MaxOps, MaxFaults} \subseteq Nat
    /\ NumQuestions > 0
    /\ NoWorker \notin Workers
    /\ Ops \subseteq {"pause", "resume", "retry", "delete"}
    /\ Faults \subseteq {"death", "error", "slow", "expiry"}

VARIABLES
    evaluation,  \* rows of table evaluations
    item,        \* status of the rows of table evaluation_items
    overdue,     \* RUNNING items not updated for the processing timeout
    queue,       \* Celery messages; an identical one that waits absorbs another
    worker,      \* what a worker process is doing
    lock,        \* who holds the Redis lock of an evaluation
    req,         \* open API requests
    ops, faults  \* operations and faults so far

vars == <<evaluation, item, overdue, queue, worker, lock, req, ops, faults>>

-----------------------------------------------------------------------------
Evaluations == 1..NumEvaluations
Questions == 1..NumQuestions
Items == Evaluations \X Questions

EvaluationStatus == {"PENDING", "RUNNING", "PAUSED", "COMPLETED", "FAILED"}
ItemStatus == {"PENDING", "RUNNING", "COMPLETED", "FAILED"}

EvaluationRow == [status : EvaluationStatus \cup {"NONE"}, deleted : BOOLEAN,
                  completed : Int]

\* question is 0 in a message about the whole evaluation.
Message == [kind : {"init", "batch"}, on : Evaluations, question : {0}]
           \cup [kind : {"item"}, on : Evaluations, question : Questions]

InitTask(e) == [kind |-> "init", on |-> e, question |-> 0]
BatchTask(e) == [kind |-> "batch", on |-> e, question |-> 0]
ItemTask(i) == [kind |-> "item", on |-> i[1], question |-> i[2]]

\* on, question: what the worker is busy with.  count: what its last SELECT
\* counted.  done: the items the finalisation counted.  seen: the status an
\* initialisation has read.
Worker == [pc : {"idle", "scan", "coordinate", "init", "locked", "counted",
                 "finalize", "verified", "scored", "taken", "working", "sending"},
           on : 0..NumEvaluations, question : 0..NumQuestions,
           count : Int, done : Nat, seen : EvaluationStatus \cup {"NONE"}]

Idle == [pc |-> "idle", on |-> 0, question |-> 0, count |-> 0, done |-> 0,
         seen |-> "PENDING"]

Request == [pc : {"idle", "read"}, on : 0..NumEvaluations, new : EvaluationStatus]

IdleRequest == [pc |-> "idle", on |-> 0, new |-> "PENDING"]

Init ==
    /\ evaluation = [e \in Evaluations |-> [status |-> "NONE", deleted |-> FALSE,
                                            completed |-> 0]]
    /\ item = [i \in Items |-> "PENDING"]
    /\ overdue = {}
    /\ queue = {}
    /\ worker = [w \in Workers |-> Idle]
    /\ lock = [e \in Evaluations |-> NoWorker]
    /\ req = [r \in Requests |-> IdleRequest]
    /\ ops = 0
    /\ faults = 0

ItemsOf(e) == {i \in Items : i[1] = e}
WithStatus(e, statuses) == {i \in ItemsOf(e) : item[i] \in statuses}

\* The first n of a set of numbers: ORDER BY gmt_created LIMIT n.
First(n, S) == {x \in S : Cardinality({y \in S : y < x}) < n}

-----------------------------------------------------------------------------
(* API requests.                                                            *)

CreateEvaluation(e) ==
    /\ evaluation[e].status = "NONE"
    /\ \A f \in 1..(e - 1) : evaluation[f].status # "NONE"
    /\ evaluation' = [evaluation EXCEPT ![e].status = "PENDING"]
    /\ UNCHANGED <<item, overdue, queue, worker, lock, req, ops, faults>>

ApiCall(op) == op \in Ops /\ ops < MaxOps /\ ops' = ops + 1

Visible(e) == evaluation[e].status # "NONE" /\ ~evaluation[e].deleted

\* update_evaluation_status: a SELECT on the status, then a write by key.
ReadForStatus(r, e, new, current) ==
    /\ req[r].pc = "idle"
    /\ Visible(e) /\ evaluation[e].status \in current
    /\ req' = [req EXCEPT ![r] = [pc |-> "read", on |-> e, new |-> new]]
    /\ UNCHANGED <<evaluation, item, overdue, queue, worker, lock, faults>>

PauseEvaluation(r, e) ==
    ApiCall("pause") /\ ReadForStatus(r, e, "PAUSED", {"RUNNING", "PENDING"})

ResumeEvaluation(r, e) ==
    ApiCall("resume") /\ ReadForStatus(r, e, "PENDING", {"PAUSED"})

WriteStatus(r) ==
    /\ req[r].pc = "read"
    /\ evaluation' = [evaluation EXCEPT ![req[r].on].status = req[r].new]
    /\ req' = [req EXCEPT ![r] = IdleRequest]
    /\ UNCHANGED <<item, overdue, queue, worker, lock, ops, faults>>

\* retry_evaluation holds the evaluation's row; it asks nothing of its status.
RetryEvaluation(e, all) ==
    LET again == WithStatus(e, IF all THEN ItemStatus ELSE {"FAILED"})
        left == IF all THEN 0 ELSE evaluation[e].completed - Cardinality(again)
    IN  /\ ApiCall("retry")
        /\ Visible(e)
        /\ item' = [i \in Items |-> IF i \in again THEN "PENDING" ELSE item[i]]
        /\ overdue' = overdue \ again
        /\ evaluation' = [evaluation EXCEPT ![e].status = "RUNNING",
                                            ![e].completed = left]
        /\ UNCHANGED <<queue, worker, lock, req, faults>>

\* delete_evaluation_by_id sets gmt_deleted and leaves the status.
DeleteEvaluation(e) ==
    /\ ApiCall("delete")
    /\ Visible(e)
    /\ evaluation' = [evaluation EXCEPT ![e].deleted = TRUE]
    /\ UNCHANGED <<item, overdue, queue, worker, lock, req, faults>>

-----------------------------------------------------------------------------
(* The scan (schedule_evaluations).                                         *)

Status(statuses) == {e \in Evaluations : evaluation[e].status \in statuses}

CountRunning(w) ==
    LET n == Cardinality(Status({"RUNNING"}))
    IN  /\ worker[w].pc = "idle"
        /\ worker' = [worker EXCEPT ![w] =
              [Idle EXCEPT !.pc = IF n < MaxRunning THEN "scan" ELSE "coordinate",
                           !.count = n]]
        /\ UNCHANGED <<evaluation, item, overdue, queue, lock, req, ops, faults>>

ScheduleEvaluations(w) ==
    /\ worker[w].pc = "scan"
    /\ queue' = queue \cup
          {InitTask(e) : e \in First(MaxRunning - worker[w].count, Status({"PENDING"}))}
    /\ worker' = [worker EXCEPT ![w].pc = "coordinate"]
    /\ UNCHANGED <<evaluation, item, overdue, lock, req, ops, faults>>

\* The items the coordinator gives back.
ResetsNothing(running) == {}    \* mutant: gmt_updated never before the threshold
StuckItems(running) == {i \in overdue : i[1] \in running /\ item[i] = "RUNNING"}

CoordinateEvaluations(w) ==
    LET running == Status({"RUNNING"})
        stuck == StuckItems(running)
    IN  /\ worker[w].pc = "coordinate"
        /\ item' = [i \in Items |-> IF i \in stuck THEN "PENDING" ELSE item[i]]
        /\ overdue' = overdue \ stuck
        /\ queue' = queue \cup {BatchTask(e) : e \in running}
        /\ worker' = [worker EXCEPT ![w] = Idle]
        /\ UNCHANGED <<evaluation, lock, req, ops, faults>>

-----------------------------------------------------------------------------
(* initialize_evaluation.  It sets RUNNING whatever the status was; the
   flush omits the column if it was read as RUNNING.                        *)

Take(w, m) ==
    /\ worker[w].pc = "idle"
    /\ m \in queue
    /\ queue' = queue \ {m}

StartInitialize(w, e) ==
    /\ Take(w, InitTask(e))
    /\ worker' = [worker EXCEPT ![w] = [Idle EXCEPT !.pc = "init", !.on = e,
                                                    !.seen = evaluation[e].status]]
    /\ UNCHANGED <<evaluation, item, overdue, lock, req, ops, faults>>

CommitInitialize(w) ==
    LET e == worker[w].on
    IN  /\ worker[w].pc = "init"
        /\ evaluation' = IF worker[w].seen = "RUNNING" THEN evaluation
                         ELSE [evaluation EXCEPT ![e].status = "RUNNING"]
        /\ worker' = [worker EXCEPT ![w].pc = "sending"]
        /\ UNCHANGED <<item, overdue, queue, lock, req, ops, faults>>

\* process_evaluation_batch_task.delay, after a commit.
SendBatch(w) ==
    /\ worker[w].pc = "sending"
    /\ queue' = queue \cup {BatchTask(worker[w].on)}
    /\ worker' = [worker EXCEPT ![w] = Idle]
    /\ UNCHANGED <<evaluation, item, overdue, lock, req, ops, faults>>

-----------------------------------------------------------------------------
(* process_evaluation_batch, under the Redis lock of the evaluation.        *)

\* The release script deletes the key only if it holds this task's token.
StopBatch(w) ==
    LET e == worker[w].on
    IN  /\ worker' = [worker EXCEPT ![w] = Idle]
        /\ lock' = IF lock[e] = w THEN [lock EXCEPT ![e] = NoWorker] ELSE lock

\* A task that does not get the lock in time returns.
StartBatch(w, e) ==
    /\ Take(w, BatchTask(e))
    /\ IF lock[e] = NoWorker
       THEN /\ lock' = [lock EXCEPT ![e] = w]
            /\ worker' = [worker EXCEPT ![w] = [Idle EXCEPT !.pc = "locked", !.on = e]]
       ELSE UNCHANGED <<lock, worker>>
    /\ UNCHANGED <<evaluation, item, overdue, req, ops, faults>>

CountItems(w) ==
    LET e == worker[w].on
        n == Cardinality(WithStatus(e, {"RUNNING"}))
    IN  /\ worker[w].pc = "locked"
        /\ IF evaluation[e].status = "RUNNING" /\ ~evaluation[e].deleted /\ n < Slots
           THEN /\ worker' = [worker EXCEPT ![w].pc = "counted", ![w].count = n]
                /\ UNCHANGED lock
           ELSE StopBatch(w)
        /\ UNCHANGED <<evaluation, item, overdue, queue, req, ops, faults>>

DispatchItems(w) ==
    LET e == worker[w].on
        pending == {i[2] : i \in WithStatus(e, {"PENDING"})}
        chosen == First(Slots - worker[w].count, pending)
    IN  /\ worker[w].pc = "counted"
        /\ queue' = queue \cup {ItemTask(<<e, q>>) : q \in chosen}
        /\ IF chosen = {} /\ worker[w].count = 0
           THEN /\ worker' = [worker EXCEPT ![w].pc = "finalize"]
                /\ UNCHANGED lock
           ELSE StopBatch(w)
        /\ UNCHANGED <<evaluation, item, overdue, req, ops, faults>>

\* _finalize_evaluation: its first SELECT, and those that count the items
\* that are done and those that failed.
UnfinishedSkipsRunning == {"PENDING"}    \* mutant: RUNNING items not counted
Unfinished == {"PENDING", "RUNNING"}

VerifyItems(w) ==
    LET e == worker[w].on
    IN  /\ worker[w].pc = "finalize"
        /\ IF WithStatus(e, Unfinished) = {}
           THEN /\ worker' = [worker EXCEPT ![w].pc = "verified"]
                /\ UNCHANGED lock
           ELSE StopBatch(w)
        /\ UNCHANGED <<evaluation, item, overdue, queue, req, ops, faults>>

CountResults(w) ==
    LET e == worker[w].on
    IN  /\ worker[w].pc = "verified"
        /\ worker' = [worker EXCEPT ![w].pc = "scored",
                ![w].done = Cardinality(WithStatus(e, {"COMPLETED", "FAILED"})),
                ![w].count = Cardinality(WithStatus(e, {"FAILED"}))]
        /\ UNCHANGED <<evaluation, item, overdue, queue, lock, req, ops, faults>>

FinalStatus(failed) == IF failed > 0 THEN "FAILED" ELSE "COMPLETED"

FinalizeEvaluation(w) ==
    LET e == worker[w].on
        row == [evaluation[e] EXCEPT !.status = FinalStatus(worker[w].count),
                                     !.completed = worker[w].done]
    IN  /\ worker[w].pc = "scored"
        /\ evaluation' = IF evaluation[e].status = "RUNNING"
                         THEN [evaluation EXCEPT ![e] = row] ELSE evaluation
        /\ StopBatch(w)
        /\ UNCHANGED <<item, overdue, queue, req, ops, faults>>

-----------------------------------------------------------------------------
(* process_evaluation_item.  The claim is an UPDATE of its own; the reads
   that follow its commit are part of the step.                             *)

StartItem(w, i) ==
    /\ Take(w, ItemTask(i))
    /\ worker' = [worker EXCEPT ![w] = [Idle EXCEPT !.pc = "taken", !.on = i[1],
                                                    !.question = i[2]]]
    /\ UNCHANGED <<evaluation, item, overdue, lock, req, ops, faults>>

ClaimsAnyItem(i) == TRUE    \* mutant: no condition on the status
ClaimsFinished(i) == item[i] # "RUNNING"    \* mutant
CanClaim(i) == item[i] = "PENDING"

ClaimItem(w) ==
    LET i == <<worker[w].on, worker[w].question>>
    IN  /\ worker[w].pc = "taken"
        /\ IF CanClaim(i)
           THEN /\ item' = [item EXCEPT ![i] = "RUNNING"]
                /\ worker' = [worker EXCEPT ![w].pc = "working",
                                            ![w].count = evaluation[i[1]].completed]
           ELSE /\ worker' = [worker EXCEPT ![w] = Idle]
                /\ UNCHANGED item
        /\ UNCHANGED <<evaluation, overdue, queue, lock, req, ops, faults>>

\* The item and the counter read before the agent was called are written in
\* one commit, by key.
ProcessSingleItem(w, result) ==
    LET i == <<worker[w].on, worker[w].question>>
    IN  /\ worker[w].pc = "working"
        /\ item' = [item EXCEPT ![i] = result]
        /\ overdue' = overdue \ {i}
        /\ evaluation' = [evaluation EXCEPT ![i[1]].completed = worker[w].count + 1]
        /\ worker' = [worker EXCEPT ![w].pc = "sending"]
        /\ UNCHANGED <<queue, lock, req, ops, faults>>

-----------------------------------------------------------------------------
(* Time and faults.                                                         *)

Fault(kind) ==
    /\ kind \in Faults
    /\ faults < MaxFaults
    /\ faults' = faults + 1

WorksOn(w, i) ==
    worker[w].pc = "working" /\ worker[w].on = i[1] /\ worker[w].question = i[2]

\* An item nobody works on any more, or one that takes too long.
ItemAbandoned(i) ==
    /\ item[i] = "RUNNING" /\ i \notin overdue
    /\ \A w \in Workers : ~WorksOn(w, i)
    /\ overdue' = overdue \cup {i}
    /\ UNCHANGED <<evaluation, item, queue, worker, lock, req, ops, faults>>

ItemSlow(i) ==
    /\ Fault("slow")
    /\ item[i] = "RUNNING" /\ i \notin overdue
    /\ overdue' = overdue \cup {i}
    /\ UNCHANGED <<evaluation, item, queue, worker, lock, req, ops>>

InBatch(w, e) ==
    /\ worker[w].pc \in {"locked", "counted", "finalize", "verified", "scored"}
    /\ worker[w].on = e

\* The lock of a dead worker expires; so may one whose holder is slow.
LockExpires(e) ==
    /\ lock[e] # NoWorker
    /\ IF InBatch(lock[e], e) THEN Fault("expiry") ELSE UNCHANGED faults
    /\ lock' = [lock EXCEPT ![e] = NoWorker]
    /\ UNCHANGED <<evaluation, item, overdue, queue, worker, req, ops>>

WorkerDies(w) ==
    /\ Fault("death")
    /\ worker[w].pc # "idle"
    /\ worker' = [worker EXCEPT ![w] = Idle]
    /\ UNCHANGED <<evaluation, item, overdue, queue, lock, req, ops>>

\* The commit of an initialisation fails: FAILED is written by key.
InitializeFails(w) ==
    /\ Fault("error")
    /\ worker[w].pc = "init"
    /\ evaluation' = [evaluation EXCEPT ![worker[w].on].status = "FAILED"]
    /\ worker' = [worker EXCEPT ![w] = Idle]
    /\ UNCHANGED <<item, overdue, queue, lock, req, ops>>

\* The commit of an item fails: it is FAILED if it is still RUNNING.
ItemErrors(w) ==
    LET i == <<worker[w].on, worker[w].question>>
    IN  /\ Fault("error")
        /\ worker[w].pc = "working"
        /\ item' = IF item[i] = "RUNNING" THEN [item EXCEPT ![i] = "FAILED"] ELSE item
        /\ overdue' = overdue \ {i}
        /\ worker' = [worker EXCEPT ![w].pc = "sending"]
        /\ UNCHANGED <<evaluation, queue, lock, req, ops>>

-----------------------------------------------------------------------------
ApiStep ==
    \/ \E e \in Evaluations : \/ CreateEvaluation(e)
                              \/ \E all \in BOOLEAN : RetryEvaluation(e, all)
                              \/ DeleteEvaluation(e)
    \/ \E r \in Requests, e \in Evaluations : PauseEvaluation(r, e) \/ ResumeEvaluation(r, e)
    \/ \E r \in Requests : WriteStatus(r)

ScanStep(w) == CountRunning(w) \/ ScheduleEvaluations(w) \/ CoordinateEvaluations(w)

\* What a busy worker does next; what an idle one may take up.
Continue(w) ==
    \/ ScheduleEvaluations(w) \/ CoordinateEvaluations(w)
    \/ CommitInitialize(w) \/ SendBatch(w)
    \/ CountItems(w) \/ DispatchItems(w) \/ VerifyItems(w) \/ CountResults(w)
    \/ FinalizeEvaluation(w)
    \/ ClaimItem(w)
    \/ \E result \in {"COMPLETED", "FAILED"} : ProcessSingleItem(w, result)

StartTask(w) ==
    \/ \E e \in Evaluations : StartInitialize(w, e) \/ StartBatch(w, e)
    \/ \E i \in Items : StartItem(w, i)

TimeStep == (\E i \in Items : ItemAbandoned(i)) \/ (\E e \in Evaluations : LockExpires(e))

FaultStep ==
    \/ \E i \in Items : ItemSlow(i)
    \/ \E w \in Workers : WorkerDies(w) \/ InitializeFails(w) \/ ItemErrors(w)

Next ==
    \/ ApiStep
    \/ \E w \in Workers : CountRunning(w) \/ StartTask(w) \/ Continue(w)
    \/ TimeStep
    \/ FaultStep

Spec == Init /\ [][Next]_vars

\* Beat sends the scan every five minutes, workers finish what they take up
\* and each message is taken by some worker.
FairSpec ==
    /\ Spec
    /\ \A w \in Workers : WF_vars(Continue(w))
    /\ SF_vars(\E w \in Workers : CountRunning(w))
    /\ \A e \in Evaluations :
          /\ SF_vars(\E w \in Workers : StartInitialize(w, e))
          /\ SF_vars(\E w \in Workers : StartBatch(w, e))
          /\ WF_vars(LockExpires(e))
    /\ \A i \in Items :
          /\ SF_vars(\E w \in Workers : StartItem(w, i))
          /\ WF_vars(ItemAbandoned(i))

-----------------------------------------------------------------------------
TypeOK ==
    /\ evaluation \in [Evaluations -> EvaluationRow]
    /\ item \in [Items -> ItemStatus]
    /\ overdue \subseteq Items
    /\ queue \subseteq Message
    /\ worker \in [Workers -> Worker]
    /\ lock \in [Evaluations -> Workers \cup {NoWorker}]
    /\ req \in [Requests -> Request]
    /\ ops \in Nat /\ faults \in Nat

\* An evaluation is COMPLETED only when each of its items is COMPLETED, and
\* its progress says so (_finalize_evaluation).
CompletedMeansAllCompleted ==
    \A e \in Evaluations : evaluation[e].status = "COMPLETED" =>
        /\ \A i \in ItemsOf(e) : item[i] = "COMPLETED"
        /\ evaluation[e].completed = NumQuestions

\* No two workers process one item, however often it was dispatched
\* (process_evaluation_item).
ItemClaimedOnce ==
    \A v, w \in Workers, i \in Items : WorksOn(v, i) /\ WorksOn(w, i) => v = w

\* The displayed progress never exceeds the items that are done.
ProgressIsReal ==
    \A e \in Evaluations :
        evaluation[e].completed <= Cardinality(WithStatus(e, {"COMPLETED", "FAILED"}))

\* An evaluation that is not paused or deleted comes to an end, whatever
\* worker dies (schedule_evaluations).
EvaluationsEnd ==
    \A e \in Evaluations :
        []<>(\/ evaluation[e].status \in {"NONE", "PAUSED", "COMPLETED", "FAILED"}
             \/ evaluation[e].deleted)

\* At most MAX_CONCURRENT_EVALUATIONS evaluations run.
RunningIsLimited == Cardinality(Status({"RUNNING"})) <= MaxRunning

=============================================================================
