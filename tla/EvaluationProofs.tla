--------------------------- MODULE EvaluationProofs ---------------------------
(***************************************************************************)
(* Theorems about Evaluation, for every number of evaluations, questions   *)
(* and workers and all values of the bounds.  Safety holds as long as the  *)
(* API does not retry and no item is slow; the runs that allow either show *)
(* what is lost.                                                           *)
(***************************************************************************)
EXTENDS Evaluation, FiniteSetTheorems, TLAPS

-----------------------------------------------------------------------------
(* Type correctness.  A busy worker is busy with something that exists, and
   a request asks for PAUSED or PENDING.                                    *)

BusyOn ==
    /\ \A w \in Workers : worker[w].pc \notin {"idle", "scan", "coordinate"}
                             => worker[w].on \in Evaluations
    /\ \A w \in Workers : worker[w].pc \in {"taken", "working"}
                             => worker[w].question \in Questions
    /\ \A r \in Requests : req[r].pc = "read" =>
          req[r].on \in Evaluations /\ req[r].new \in {"PAUSED", "PENDING"}

Typed == TypeOK /\ BusyOn

\* There are finitely many items, so what the SELECTs count is a number.
LEMMA ItemsFinite ==
    /\ IsFiniteSet(Items)
    /\ \A S \in SUBSET Items : IsFiniteSet(S) /\ Cardinality(S) \in Nat
<1>1. NumEvaluations \in Nat /\ NumQuestions \in Nat
  BY ConstantsAssumption
<1>2. IsFiniteSet(Evaluations) /\ IsFiniteSet(Questions)
  BY <1>1, FS_Interval DEF Evaluations, Questions
<1>3. IsFiniteSet(Items)
  BY <1>2, FS_Product DEF Items
<1> QED BY <1>3, FS_Subset, FS_CardinalityType

LEMMA StatusFinite ==
    ASSUME NEW e, NEW statuses
    PROVE  WithStatus(e, statuses) \subseteq Items /\ Cardinality(WithStatus(e, statuses)) \in Nat
BY ItemsFinite DEF WithStatus, ItemsOf

LEMMA RunningFinite ==
    ASSUME NEW statuses PROVE Cardinality(Status(statuses)) \in Nat
<1>1. IsFiniteSet(Evaluations)
  BY ConstantsAssumption, FS_Interval DEF Evaluations
<1> QED BY <1>1, FS_Subset, FS_CardinalityType DEF Status

LEMMA MessagesTyped ==
    /\ \A e \in Evaluations : InitTask(e) \in Message /\ BatchTask(e) \in Message
    /\ \A i \in Items : ItemTask(i) \in Message
BY DEF InitTask, BatchTask, ItemTask, Message, Items

LEMMA IdleTyped == Idle \in Worker /\ IdleRequest \in Request
<1>1. 0 \in 0..NumEvaluations /\ 0 \in 0..NumQuestions
  BY ConstantsAssumption
<1> QED BY <1>1 DEF Idle, Worker, IdleRequest, Request, EvaluationStatus

\* Two or three fields written at once.
LEMMA FieldsTyped ==
    ASSUME NEW k \in Worker, NEW n \in Int, NEW d \in Nat,
           NEW pc \in {"scan", "coordinate", "counted", "scored", "working"}
    PROVE  /\ [k EXCEPT !.pc = pc, !.count = n] \in Worker
           /\ [k EXCEPT !.pc = pc, !.done = d, !.count = n] \in Worker
BY DEF Worker

LEMMA RowTyped ==
    ASSUME NEW row \in EvaluationRow, NEW status \in EvaluationStatus, NEW n \in Int
    PROVE  [row EXCEPT !.status = status, !.completed = n] \in EvaluationRow
BY DEF EvaluationRow

\* What the API requests write has its type.
LEMMA ApiTyped == Typed /\ ApiStep => Typed'
<1> SUFFICES ASSUME Typed, ApiStep PROVE Typed'
  OBVIOUS
<1> USE DEF Typed, TypeOK, BusyOn
<1>1. ASSUME NEW e \in Evaluations, CreateEvaluation(e) PROVE Typed'
  <2>1. evaluation' \in [Evaluations -> EvaluationRow]
    BY <1>1 DEF CreateEvaluation, EvaluationRow, EvaluationStatus
  <2> QED BY <1>1, <2>1 DEF CreateEvaluation
<1>2. ASSUME NEW e \in Evaluations, NEW all \in BOOLEAN, RetryEvaluation(e, all)
      PROVE  Typed'
  <2> DEFINE again == WithStatus(e, IF all THEN ItemStatus ELSE {"FAILED"})
             left == IF all THEN 0 ELSE evaluation[e].completed - Cardinality(again)
  <2>1. again \subseteq Items /\ left \in Int
    BY StatusFinite DEF EvaluationRow
  <2>2. /\ item' = [i \in Items |-> IF i \in again THEN "PENDING" ELSE item[i]]
        /\ overdue' = overdue \ again
        /\ evaluation' = [evaluation EXCEPT ![e].status = "RUNNING", ![e].completed = left]
        /\ ops' \in Nat /\ UNCHANGED <<queue, worker, lock, req, faults>>
    BY <1>2 DEF RetryEvaluation, ApiCall
  <2> HIDE DEF again, left
  <2>3. item' \in [Items -> ItemStatus] /\ overdue' \subseteq Items
    BY <2>1, <2>2 DEF ItemStatus
  <2>4. evaluation' \in [Evaluations -> EvaluationRow]
    BY <2>1, <2>2 DEF EvaluationRow, EvaluationStatus
  <2> QED BY <2>2, <2>3, <2>4
<1>3. ASSUME NEW e \in Evaluations, DeleteEvaluation(e) PROVE Typed'
  <2>1. evaluation' \in [Evaluations -> EvaluationRow]
    BY <1>3 DEF DeleteEvaluation, EvaluationRow
  <2> QED BY <1>3, <2>1 DEF DeleteEvaluation, ApiCall
<1>4. ASSUME NEW r \in Requests, NEW e \in Evaluations, NEW current,
             NEW new \in {"PAUSED", "PENDING"}, ReadForStatus(r, e, new, current), ops' \in Nat
      PROVE  Typed'
  <2>1. req' = [req EXCEPT ![r] = [pc |-> "read", on |-> e, new |-> new]]
    BY <1>4 DEF ReadForStatus
  <2>2. [pc |-> "read", on |-> e, new |-> new] \in Request
    BY ConstantsAssumption DEF Request, Evaluations, EvaluationStatus
  <2>3. req' \in [Requests -> Request]
    BY <2>1, <2>2
  <2> QED BY <1>4, <2>1, <2>3 DEF ReadForStatus
<1>5. ASSUME NEW r \in Requests, WriteStatus(r) PROVE Typed'
  <2>1. evaluation' \in [Evaluations -> EvaluationRow]
    BY <1>5 DEF WriteStatus, EvaluationRow, EvaluationStatus
  <2>2. req' \in [Requests -> Request]
    BY <1>5, IdleTyped DEF WriteStatus
  <2> QED BY <1>5, <2>1, <2>2 DEF WriteStatus, IdleRequest
<1> QED BY <1>1, <1>2, <1>3, <1>4, <1>5
        DEF ApiStep, PauseEvaluation, ResumeEvaluation, ApiCall

\* A worker that goes on, or takes up a message, is still a worker.
LEMMA ContinueTyped ==
    ASSUME Typed, NEW w \in Workers, Continue(w) \/ CountRunning(w) PROVE Typed'
<1> USE DEF Typed, TypeOK, BusyOn
<1>1. CASE CountRunning(w)
  <2> DEFINE n == Cardinality(Status({"RUNNING"}))
             pc == IF n < MaxRunning THEN "scan" ELSE "coordinate"
  <2>1. n \in Int
    BY RunningFinite
  <2>2. worker' = [worker EXCEPT ![w] = [Idle EXCEPT !.pc = pc, !.count = n]]
    BY <1>1 DEF CountRunning
  <2>3. pc \in {"scan", "coordinate"}
    OBVIOUS
  <2> HIDE DEF n, pc
  <2>4. [Idle EXCEPT !.pc = pc, !.count = n] \in Worker
    BY <2>1, <2>3, IdleTyped, FieldsTyped, 0 \in Nat
  <2>5. worker' \in [Workers -> Worker]
    BY <2>2, <2>4
  <2> QED BY <1>1, <2>2, <2>3, <2>5 DEF CountRunning, Idle
<1>2. CASE ScheduleEvaluations(w)
  <2>1. queue' \subseteq Message
    BY <1>2, MessagesTyped DEF ScheduleEvaluations, First, Status
  <2>2. worker' \in [Workers -> Worker]
    BY <1>2 DEF ScheduleEvaluations, Worker
  <2> QED BY <1>2, <2>1, <2>2 DEF ScheduleEvaluations
<1>3. CASE CoordinateEvaluations(w)
  <2>1. queue' \subseteq Message
    BY <1>3, MessagesTyped DEF CoordinateEvaluations, Status
  <2>2. item' \in [Items -> ItemStatus] /\ overdue' \subseteq Items
    BY <1>3 DEF CoordinateEvaluations, ItemStatus
  <2>3. worker' = [worker EXCEPT ![w] = Idle]
    BY <1>3 DEF CoordinateEvaluations
  <2>4. worker' \in [Workers -> Worker]
    BY <2>3, IdleTyped
  <2> QED BY <1>3, <2>1, <2>2, <2>3, <2>4 DEF CoordinateEvaluations, Idle
<1>4. CASE CommitInitialize(w)
  <2>1. worker' \in [Workers -> Worker]
    BY <1>4 DEF CommitInitialize, Worker
  <2>2. evaluation' \in [Evaluations -> EvaluationRow]
    BY <1>4 DEF CommitInitialize, EvaluationRow, EvaluationStatus
  <2> QED BY <1>4, <2>1, <2>2 DEF CommitInitialize
<1>5. CASE SendBatch(w)
  <2>1. queue' \subseteq Message
    BY <1>5, MessagesTyped DEF SendBatch
  <2>2. worker' \in [Workers -> Worker]
    BY <1>5, IdleTyped DEF SendBatch
  <2> QED BY <1>5, <2>1, <2>2 DEF SendBatch, Idle
<1>6. ASSUME StopBatch(w), UNCHANGED <<evaluation, item, overdue, req, ops, faults>>,
             queue' \subseteq Message
      PROVE  Typed'
  <2>1. worker' = [worker EXCEPT ![w] = Idle]
    BY <1>6 DEF StopBatch
  <2>2. worker' \in [Workers -> Worker]
    BY <2>1, IdleTyped
  <2>3. lock' \in [Evaluations -> Workers \cup {NoWorker}]
    BY <1>6 DEF StopBatch
  <2> QED BY <1>6, <2>1, <2>2, <2>3 DEF Idle
<1>7. CASE CountItems(w)
  <2> DEFINE e == worker[w].on
             n == Cardinality(WithStatus(e, {"RUNNING"}))
  <2>1. n \in Int
    BY StatusFinite
  <2>2. UNCHANGED <<evaluation, item, overdue, queue, req, ops, faults>>
    BY <1>7 DEF CountItems
  <2>3. CASE StopBatch(w)
    BY <1>6, <2>2, <2>3
  <2>4. CASE worker' = [worker EXCEPT ![w].pc = "counted", ![w].count = n] /\ UNCHANGED lock
    <3>1. worker[w].pc = "locked"
      BY <1>7 DEF CountItems
    <3> HIDE DEF n
    <3>2. worker' = [worker EXCEPT ![w] = [worker[w] EXCEPT !.pc = "counted", !.count = n]]
      BY <2>4
    <3>3. [worker[w] EXCEPT !.pc = "counted", !.count = n] \in Worker
      BY <2>1, FieldsTyped, 0 \in Nat
    <3>4. worker' \in [Workers -> Worker]
      BY <3>2, <3>3
    <3> QED BY <2>2, <2>4, <3>1, <3>4
  <2> QED BY <1>7, <2>3, <2>4 DEF CountItems
<1>8. CASE DispatchItems(w)
  <2>1. worker[w].on \in Evaluations /\ worker[w].pc = "counted"
    BY <1>8 DEF DispatchItems
  <2>2. queue' \subseteq Message
    BY <1>8, <2>1, MessagesTyped DEF DispatchItems, First, WithStatus, ItemsOf, Items
  <2>3. UNCHANGED <<evaluation, item, overdue, req, ops, faults>>
    BY <1>8 DEF DispatchItems
  <2>4. CASE StopBatch(w)
    BY <1>6, <2>2, <2>3, <2>4
  <2>5. CASE worker' = [worker EXCEPT ![w].pc = "finalize"] /\ UNCHANGED lock
    <3>1. worker' \in [Workers -> Worker]
      BY <2>5 DEF Worker
    <3> QED BY <2>1, <2>2, <2>3, <2>5, <3>1
  <2> QED BY <1>8, <2>4, <2>5 DEF DispatchItems
<1>9. CASE VerifyItems(w)
  <2>1. worker[w].pc = "finalize" /\ UNCHANGED <<evaluation, item, overdue, queue, req, ops, faults>>
    BY <1>9 DEF VerifyItems
  <2>2. CASE StopBatch(w)
    BY <1>6, <2>1, <2>2
  <2>3. CASE worker' = [worker EXCEPT ![w].pc = "verified"] /\ UNCHANGED lock
    <3>1. worker' \in [Workers -> Worker]
      BY <2>3 DEF Worker
    <3> QED BY <2>1, <2>3, <3>1
  <2> QED BY <1>9, <2>2, <2>3 DEF VerifyItems
<1>10. CASE CountResults(w)
  <2> DEFINE done == Cardinality(WithStatus(worker[w].on, {"COMPLETED", "FAILED"}))
             failed == Cardinality(WithStatus(worker[w].on, {"FAILED"}))
  <2>1. done \in Nat /\ failed \in Int
    BY StatusFinite
  <2>2. worker' = [worker EXCEPT ![w].pc = "scored", ![w].done = done, ![w].count = failed]
    BY <1>10 DEF CountResults
  <2> HIDE DEF done, failed
  <2>3. worker' = [worker EXCEPT ![w] =
                      [worker[w] EXCEPT !.pc = "scored", !.done = done, !.count = failed]]
    BY <2>2
  <2>4. [worker[w] EXCEPT !.pc = "scored", !.done = done, !.count = failed] \in Worker
    BY <2>1, FieldsTyped
  <2>5. worker' \in [Workers -> Worker]
    BY <2>3, <2>4
  <2> QED BY <1>10, <2>2, <2>5 DEF CountResults
<1>11. CASE FinalizeEvaluation(w)
  <2>1. worker[w].on \in Evaluations /\ worker[w].done \in Nat
    BY <1>11 DEF FinalizeEvaluation, Worker
  <2>2. FinalStatus(worker[w].count) \in EvaluationStatus
    BY DEF FinalStatus, EvaluationStatus
  <2> DEFINE status == FinalStatus(worker[w].count)
             done == worker[w].done
  <2>7. evaluation' = evaluation \/ evaluation' = [evaluation EXCEPT ![worker[w].on] =
           [evaluation[worker[w].on] EXCEPT !.status = status, !.completed = done]]
    BY <1>11 DEF FinalizeEvaluation
  <2>8. done \in Int
    BY <2>1
  <2> HIDE DEF status, done
  <2>9. [evaluation[worker[w].on] EXCEPT !.status = status, !.completed = done]
           \in EvaluationRow
    BY <2>1, <2>2, <2>8, RowTyped DEF status
  <2>3. evaluation' \in [Evaluations -> EvaluationRow]
    BY <2>7, <2>9
  <2>4. worker' = [worker EXCEPT ![w] = Idle]
    BY <1>11 DEF FinalizeEvaluation, StopBatch
  <2>5. worker' \in [Workers -> Worker]
    BY <2>4, IdleTyped
  <2>6. lock' \in [Evaluations -> Workers \cup {NoWorker}]
    BY <1>11 DEF FinalizeEvaluation, StopBatch
  <2> QED BY <1>11, <2>3, <2>4, <2>5, <2>6 DEF FinalizeEvaluation, Idle
<1>12. CASE ClaimItem(w)
  <2> DEFINE i == <<worker[w].on, worker[w].question>>
  <2>1. i \in Items /\ worker[w].pc = "taken"
    BY <1>12 DEF ClaimItem, Items
  <2>2. CASE CanClaim(i)
    <3>1. /\ item' = [item EXCEPT ![i] = "RUNNING"]
          /\ worker' = [worker EXCEPT ![w].pc = "working",
                                      ![w].count = evaluation[i[1]].completed]
      BY <1>12, <2>2 DEF ClaimItem
    <3>2. item' \in [Items -> ItemStatus]
      BY <3>1 DEF ItemStatus
    <3>3. evaluation[i[1]].completed \in Int
      BY <2>1 DEF Items, EvaluationRow
    <3> DEFINE n == evaluation[i[1]].completed
    <3>4. worker' = [worker EXCEPT ![w] = [worker[w] EXCEPT !.pc = "working", !.count = n]]
      BY <3>1
    <3> HIDE DEF n
    <3>5. [worker[w] EXCEPT !.pc = "working", !.count = n] \in Worker
      BY <3>3, FieldsTyped, 0 \in Nat DEF n
    <3>6. worker' \in [Workers -> Worker]
      BY <3>4, <3>5
    <3> QED BY <1>12, <2>1, <3>1, <3>2, <3>6 DEF ClaimItem
  <2>3. CASE ~CanClaim(i)
    <3>1. worker' = [worker EXCEPT ![w] = Idle] /\ item' = item
      BY <1>12, <2>3 DEF ClaimItem
    <3>2. worker' \in [Workers -> Worker]
      BY <3>1, IdleTyped
    <3> QED BY <1>12, <3>1, <3>2 DEF ClaimItem, Idle
  <2> QED BY <2>2, <2>3
<1>13. ASSUME NEW result \in {"COMPLETED", "FAILED"}, ProcessSingleItem(w, result)
       PROVE  Typed'
  <2>1. item' \in [Items -> ItemStatus] /\ overdue' \subseteq Items
    BY <1>13 DEF ProcessSingleItem, ItemStatus
  <2>2. worker[w].count + 1 \in Int
    BY DEF Worker
  <2>3. evaluation' \in [Evaluations -> EvaluationRow]
    BY <1>13, <2>2 DEF ProcessSingleItem, EvaluationRow
  <2>4. worker' \in [Workers -> Worker]
    BY <1>13 DEF ProcessSingleItem, Worker
  <2> QED BY <1>13, <2>1, <2>3, <2>4 DEF ProcessSingleItem
<1> QED BY <1>1, <1>2, <1>3, <1>4, <1>5, <1>7, <1>8, <1>9, <1>10, <1>11, <1>12, <1>13
        DEF Continue

LEMMA TakenTyped ==
    ASSUME NEW e \in Evaluations, NEW q \in Questions,
           NEW seen \in EvaluationStatus \cup {"NONE"}
    PROVE  /\ [Idle EXCEPT !.pc = "init", !.on = e, !.seen = seen] \in Worker
           /\ [Idle EXCEPT !.pc = "locked", !.on = e] \in Worker
           /\ [Idle EXCEPT !.pc = "taken", !.on = e, !.question = q] \in Worker
<1>1. e \in 0..NumEvaluations /\ q \in 0..NumQuestions
  BY ConstantsAssumption DEF Evaluations, Questions
<1> QED BY <1>1, IdleTyped DEF Worker, Idle

LEMMA StartTyped ==
    ASSUME Typed, NEW w \in Workers, StartTask(w) PROVE Typed'
<1> USE DEF Typed, TypeOK, BusyOn
<1>1. ASSUME NEW e \in Evaluations, StartInitialize(w, e) PROVE Typed'
  <2> DEFINE seen == evaluation[e].status
  <2>1. worker' = [worker EXCEPT ![w] = [Idle EXCEPT !.pc = "init", !.on = e, !.seen = seen]]
    BY <1>1 DEF StartInitialize
  <2>2. seen \in EvaluationStatus \cup {"NONE"} /\ 1 \in Questions
    BY ConstantsAssumption DEF EvaluationRow, Questions
  <2> HIDE DEF seen
  <2>3. worker' \in [Workers -> Worker]
    BY <2>1, <2>2, TakenTyped
  <2> QED BY <1>1, <2>1, <2>3 DEF StartInitialize, Take, Idle
<1>2. ASSUME NEW e \in Evaluations, StartBatch(w, e) PROVE Typed'
  <2>1. CASE lock[e] = NoWorker
    <3>1. worker' = [worker EXCEPT ![w] = [Idle EXCEPT !.pc = "locked", !.on = e]]
      BY <1>2, <2>1 DEF StartBatch
    <3>2. 1 \in Questions /\ "NONE" \in EvaluationStatus \cup {"NONE"}
      BY ConstantsAssumption DEF Questions
    <3>3. worker' \in [Workers -> Worker]
      BY <3>1, <3>2, TakenTyped
    <3> QED BY <1>2, <2>1, <3>1, <3>3 DEF StartBatch, Take, Idle
  <2>2. CASE lock[e] # NoWorker
    BY <1>2, <2>2 DEF StartBatch, Take
  <2> QED BY <2>1, <2>2
<1>3. ASSUME NEW i \in Items, StartItem(w, i) PROVE Typed'
  <2>1. worker' = [worker EXCEPT ![w] = [Idle EXCEPT !.pc = "taken", !.on = i[1],
                                                     !.question = i[2]]]
    BY <1>3 DEF StartItem
  <2>2. i[1] \in Evaluations /\ i[2] \in Questions
    BY DEF Items
  <2>3. "NONE" \in EvaluationStatus \cup {"NONE"}
    OBVIOUS
  <2>4. worker' \in [Workers -> Worker]
    BY <2>1, <2>2, <2>3, TakenTyped
  <2> QED BY <1>3, <2>1, <2>2, <2>4 DEF StartItem, Take, Idle
<1> QED BY <1>1, <1>2, <1>3 DEF StartTask

LEMMA FaultTyped == Typed /\ (TimeStep \/ FaultStep) => Typed'
<1> SUFFICES ASSUME Typed, TimeStep \/ FaultStep PROVE Typed'
  OBVIOUS
<1> USE DEF Typed, TypeOK, BusyOn
<1>1. ASSUME NEW i \in Items, ItemAbandoned(i) \/ ItemSlow(i) PROVE Typed'
  BY <1>1 DEF ItemAbandoned, ItemSlow, Fault
<1>2. ASSUME NEW e \in Evaluations, LockExpires(e) PROVE Typed'
  BY <1>2 DEF LockExpires, Fault
<1>3. ASSUME NEW w \in Workers, WorkerDies(w) PROVE Typed'
  <2>1. worker' \in [Workers -> Worker]
    BY <1>3, IdleTyped DEF WorkerDies
  <2> QED BY <1>3, <2>1 DEF WorkerDies, Fault, Idle
<1>4. ASSUME NEW w \in Workers, InitializeFails(w) PROVE Typed'
  <2>1. worker' \in [Workers -> Worker]
    BY <1>4, IdleTyped DEF InitializeFails
  <2>2. evaluation' \in [Evaluations -> EvaluationRow]
    BY <1>4 DEF InitializeFails, EvaluationRow, EvaluationStatus
  <2> QED BY <1>4, <2>1, <2>2 DEF InitializeFails, Fault, Idle
<1>5. ASSUME NEW w \in Workers, ItemErrors(w) PROVE Typed'
  <2>1. worker' \in [Workers -> Worker]
    BY <1>5 DEF ItemErrors, Worker
  <2>2. item' \in [Items -> ItemStatus]
    BY <1>5 DEF ItemErrors, ItemStatus
  <2> QED BY <1>5, <2>1, <2>2 DEF ItemErrors, Fault
<1> QED BY <1>1, <1>2, <1>3, <1>4, <1>5 DEF TimeStep, FaultStep

LEMMA InitTyped == Init => Typed
<1>1. 0 \in Int /\ 0 \in Nat
  OBVIOUS
<1> QED BY <1>1, IdleTyped
    DEF Init, Typed, TypeOK, BusyOn, EvaluationRow, ItemStatus, Idle, IdleRequest

LEMMA NextTyped == Typed /\ [Next]_vars => Typed'
<1> SUFFICES ASSUME Typed, [Next]_vars PROVE Typed'
  OBVIOUS
<1>1. CASE Next
  BY <1>1, ApiTyped, ContinueTyped, StartTyped, FaultTyped DEF Next
<1>2. CASE UNCHANGED vars
  BY <1>2 DEF vars, Typed, TypeOK, BusyOn
<1> QED BY <1>1, <1>2

\* Every variable keeps its type, and workers are busy only with evaluations
\* and questions that exist (evaluation_service.py).
THEOREM TypeCorrect == Spec => []TypeOK
<1>1. Typed => TypeOK
  BY DEF Typed
<1> QED BY <1>1, InitTyped, NextTyped, PTL DEF Spec

-----------------------------------------------------------------------------
(* Safety without retries and slow items.  What a worker has read stays     *)
(* true until it writes: the item it holds is RUNNING and not overdue, the  *)
(* counter it will write, plus one, does not exceed the items then done,    *)
(* and an evaluation whose items were seen done has no other items.         *)

NoSecondChance == "retry" \notin Ops /\ "slow" \notin Faults

Final == {"COMPLETED", "FAILED"}
Done(e) == WithStatus(e, Final)

HoldsItem(w) ==
    \A i \in Items : WorksOn(w, i) =>
        /\ item[i] = "RUNNING" /\ i \notin overdue
        /\ worker[w].count <= Cardinality(Done(i[1]))

SawTheEnd(w) ==
    \A e \in Evaluations :
        worker[w].on = e /\ worker[w].pc \in {"verified", "scored"} =>
            /\ Done(e) = ItemsOf(e)
            /\ worker[w].pc = "scored" =>
                  /\ worker[w].done = NumQuestions
                  /\ worker[w].count = Cardinality(WithStatus(e, {"FAILED"}))

Reads == \A w \in Workers : HoldsItem(w) /\ SawTheEnd(w)

\* Only items that are being worked on are overdue.
OverdueRuns == \A i \in overdue : item[i] = "RUNNING"

Safe == /\ Reads /\ OverdueRuns
        /\ ItemClaimedOnce /\ CompletedMeansAllCompleted /\ ProgressIsReal

\* An item that is done stays as it is.
FinalsKept == \A i \in Items : item[i] \in Final => item'[i] = item[i]

LEMMA ItemsOfEvaluation ==
    ASSUME NEW e \in Evaluations
    PROVE  IsFiniteSet(ItemsOf(e)) /\ Cardinality(ItemsOf(e)) = NumQuestions
<1>1. NumQuestions \in Nat
  BY ConstantsAssumption
<1>2. ItemsOf(e) = {e} \X Questions
  BY DEF ItemsOf, Items
<1>3. IsFiniteSet(Questions) /\ Cardinality(Questions) = NumQuestions
  BY <1>1, FS_Interval DEF Questions
<1>4. IsFiniteSet({e}) /\ Cardinality({e}) = 1
  BY FS_Singleton
<1>5. IsFiniteSet(ItemsOf(e)) /\ Cardinality(ItemsOf(e)) = 1 * NumQuestions
  BY <1>2, <1>3, <1>4, FS_Product
<1> QED BY <1>1, <1>5

LEMMA DoneGrows ==
    ASSUME FinalsKept, NEW e
    PROVE  Done(e) \subseteq Done(e)' /\ Cardinality(Done(e)) <= Cardinality(Done(e)')
<1>1. Done(e) \subseteq Done(e)'
  BY DEF FinalsKept, Done, WithStatus, ItemsOf
<1>2. Done(e)' \subseteq Items
  BY DEF Done, WithStatus, ItemsOf
<1>3. IsFiniteSet(Done(e)')
  BY <1>2, ItemsFinite
<1> QED BY <1>1, <1>3, FS_Subset

\* What a worker has read stays true while others work.
LEMMA ReadsKept ==
    ASSUME Typed, FinalsKept, NEW w \in Workers, HoldsItem(w), SawTheEnd(w),
           worker'[w] = worker[w],
           \A i \in Items : WorksOn(w, i) =>
               item'[i] = item[i] /\ (i \in overdue' => i \in overdue)
    PROVE  HoldsItem(w)' /\ SawTheEnd(w)'
<1>1. ASSUME NEW i \in Items, WorksOn(w, i)'
      PROVE  /\ item'[i] = "RUNNING" /\ i \notin overdue'
             /\ worker'[w].count <= Cardinality(Done(i[1])')
  <2>1. WorksOn(w, i)
    BY <1>1 DEF WorksOn
  <2>2. /\ item[i] = "RUNNING" /\ i \notin overdue
        /\ worker[w].count <= Cardinality(Done(i[1]))
    BY <2>1 DEF HoldsItem
  <2>3. /\ Cardinality(Done(i[1])) <= Cardinality(Done(i[1])')
        /\ Cardinality(Done(i[1])) \in Nat /\ Cardinality(Done(i[1])') \in Nat
    <3>1. Done(i[1])' \subseteq Items /\ Done(i[1]) \subseteq Items
      BY DEF Done, WithStatus, ItemsOf
    <3> QED BY <3>1, DoneGrows, ItemsFinite
  <2>4. worker[w].count \in Int
    BY DEF Typed, TypeOK, Worker
  <2> QED BY <2>1, <2>2, <2>3, <2>4
<1>2. ASSUME NEW e \in Evaluations, worker[w].on = e, worker[w].pc \in {"verified", "scored"}
      PROVE  /\ Done(e)' = ItemsOf(e)'
             /\ WithStatus(e, {"FAILED"})' = WithStatus(e, {"FAILED"})
  <2>1. Done(e) = ItemsOf(e)
    BY <1>2 DEF SawTheEnd
  <2>2. \A i \in ItemsOf(e) : item'[i] = item[i]
    BY <2>1 DEF FinalsKept, Done, WithStatus, ItemsOf
  <2> QED BY <2>1, <2>2 DEF Done, WithStatus, ItemsOf
<1>3. SawTheEnd(w)'
  <2> SUFFICES ASSUME NEW e \in Evaluations, worker'[w].on = e,
                      worker'[w].pc \in {"verified", "scored"}
               PROVE  /\ Done(e)' = ItemsOf(e)'
                      /\ worker'[w].pc = "scored" =>
                            /\ worker'[w].done = NumQuestions
                            /\ worker'[w].count = Cardinality(WithStatus(e, {"FAILED"})')
    BY DEF SawTheEnd
  <2> QED BY <1>2 DEF SawTheEnd
<1> QED BY <1>1, <1>3 DEF HoldsItem

LEMMA CompletedKept ==
    ASSUME CompletedMeansAllCompleted, FinalsKept,
           \A e \in Evaluations : evaluation'[e].status = "COMPLETED" =>
               evaluation[e].status = "COMPLETED"
               /\ evaluation'[e].completed = evaluation[e].completed
    PROVE  CompletedMeansAllCompleted'
BY DEF CompletedMeansAllCompleted, FinalsKept, Final, ItemsOf

LEMMA ProgressKept ==
    ASSUME Typed, Typed', ProgressIsReal, FinalsKept,
           \A e \in Evaluations :
               \/ evaluation'[e].completed = evaluation[e].completed
               \/ evaluation'[e].completed <= Cardinality(Done(e)')
    PROVE  ProgressIsReal'
<1> SUFFICES ASSUME NEW e \in Evaluations
             PROVE  evaluation'[e].completed <= Cardinality(Done(e)')
  BY DEF ProgressIsReal, Done, Final
<1>1. evaluation[e].completed <= Cardinality(Done(e))
  BY DEF ProgressIsReal, Done, Final
<1>2. /\ Cardinality(Done(e)) <= Cardinality(Done(e)')
      /\ Cardinality(Done(e)) \in Nat /\ Cardinality(Done(e)') \in Nat
  <2>1. Done(e)' \subseteq Items /\ Done(e) \subseteq Items
    BY DEF Done, WithStatus, ItemsOf
  <2> QED BY <2>1, DoneGrows, ItemsFinite
<1>3. evaluation[e].completed \in Int /\ evaluation'[e].completed \in Int
  BY DEF Typed, TypeOK, EvaluationRow
<1> QED BY <1>1, <1>2, <1>3

\* A step in which no worker starts to hold, see or finish anything.
Bystander(w) ==
    \/ worker'[w].pc \notin {"working", "verified", "scored"}
    \/ /\ worker'[w] = worker[w]
       /\ \A i \in Items : WorksOn(w, i) =>
              item'[i] = item[i] /\ (i \in overdue' => i \in overdue)

LEMMA Quiet ==
    ASSUME Typed, Typed', Safe, FinalsKept, OverdueRuns',
           \A w \in Workers : Bystander(w),
           \A e \in Evaluations :
               /\ evaluation'[e].completed = evaluation[e].completed
               /\ evaluation'[e].status = "COMPLETED" => evaluation[e].status = "COMPLETED"
    PROVE  Safe'
<1>1. ASSUME NEW w \in Workers PROVE HoldsItem(w)' /\ SawTheEnd(w)'
  <2>1. CASE worker'[w].pc \notin {"working", "verified", "scored"}
    BY <2>1 DEF HoldsItem, SawTheEnd, WorksOn
  <2>2. CASE worker'[w].pc \in {"working", "verified", "scored"}
    BY <2>2, ReadsKept DEF Bystander, Safe, Reads
  <2> QED BY <2>1, <2>2
<1>2. ItemClaimedOnce'
  BY DEF Bystander, Safe, ItemClaimedOnce, WorksOn
<1>3. CompletedMeansAllCompleted'
  BY CompletedKept DEF Safe
<1>4. ProgressIsReal'
  BY ProgressKept DEF Safe
<1> QED BY <1>1, <1>2, <1>3, <1>4 DEF Safe, Reads

LEMMA ApiSafe == NoSecondChance /\ Typed /\ Typed' /\ Safe /\ ApiStep => Safe'
<1> SUFFICES ASSUME NoSecondChance, Typed, Typed', Safe, ApiStep PROVE Safe'
  OBVIOUS
<1>1. UNCHANGED <<item, overdue, worker>>
  BY DEF ApiStep, NoSecondChance, CreateEvaluation, RetryEvaluation, ApiCall,
         DeleteEvaluation, PauseEvaluation, ResumeEvaluation, ReadForStatus, WriteStatus
<1>2. ASSUME NEW e \in Evaluations
      PROVE  /\ evaluation'[e].completed = evaluation[e].completed
             /\ evaluation'[e].status = "COMPLETED" => evaluation[e].status = "COMPLETED"
  <2> DEFINE Kept == /\ evaluation'[e].completed = evaluation[e].completed
                     /\ evaluation'[e].status = "COMPLETED"
                           => evaluation[e].status = "COMPLETED"
  <2>0. evaluation \in [Evaluations -> EvaluationRow]
    BY DEF Typed, TypeOK
  <2>1. ASSUME NEW f \in Evaluations, CreateEvaluation(f)
        PROVE  Kept
    BY <2>0, <2>1 DEF CreateEvaluation, EvaluationRow
  <2>2. ASSUME NEW f \in Evaluations, DeleteEvaluation(f)
        PROVE  Kept
    BY <2>0, <2>2 DEF DeleteEvaluation, EvaluationRow
  <2>3. ASSUME NEW q \in Requests, NEW f \in Evaluations,
               PauseEvaluation(q, f) \/ ResumeEvaluation(q, f)
        PROVE  Kept
    BY <2>3 DEF PauseEvaluation, ResumeEvaluation, ReadForStatus
  <2>4. ASSUME NEW q \in Requests, WriteStatus(q)
        PROVE  Kept
    BY <2>0, <2>4 DEF WriteStatus, Typed, BusyOn, EvaluationRow
  <2>5. \A f \in Evaluations, all \in BOOLEAN : ~RetryEvaluation(f, all)
    BY DEF NoSecondChance, RetryEvaluation, ApiCall
  <2> HIDE DEF Kept
  <2>6. Kept
    BY <2>1, <2>2, <2>3, <2>4, <2>5 DEF ApiStep
  <2> QED BY <2>6 DEF Kept
<1>3. FinalsKept /\ OverdueRuns' /\ \A w \in Workers : Bystander(w)
  BY <1>1 DEF FinalsKept, OverdueRuns, Bystander, Safe
<1> QED BY <1>2, <1>3, Quiet

\* The steps of a worker that change no item and finalise nothing.
LEMMA IdleStepsSafe ==
    ASSUME Typed, Typed', Safe, NEW w \in Workers,
           \/ CountRunning(w) \/ ScheduleEvaluations(w) \/ CommitInitialize(w)
           \/ SendBatch(w) \/ CountItems(w) \/ DispatchItems(w) \/ StartTask(w)
    PROVE  Safe'
<1> USE DEF Typed, TypeOK
<1>1. UNCHANGED <<item, overdue>>
  BY DEF CountRunning, ScheduleEvaluations, CommitInitialize, SendBatch, CountItems,
         DispatchItems, StartTask, StartInitialize, StartBatch, StartItem
<1>2. ASSUME NEW e \in Evaluations
      PROVE  /\ evaluation'[e].completed = evaluation[e].completed
             /\ evaluation'[e].status = "COMPLETED" => evaluation[e].status = "COMPLETED"
  <2>1. CASE CommitInitialize(w)
    BY <2>1 DEF CommitInitialize, EvaluationRow
  <2>2. CASE ~CommitInitialize(w)
    BY <2>2 DEF CountRunning, ScheduleEvaluations, SendBatch, CountItems, DispatchItems,
                StartTask, StartInitialize, StartBatch, StartItem
  <2> QED BY <2>1, <2>2
<1>3. ASSUME NEW v \in Workers
      PROVE  worker'[v] = worker[v] \/ worker'[v].pc \notin {"working", "verified", "scored"}
  <2>1. CASE CountRunning(w)
    BY <2>1 DEF CountRunning, Idle
  <2>2. CASE ScheduleEvaluations(w) \/ CommitInitialize(w)
    BY <2>2 DEF ScheduleEvaluations, CommitInitialize, Worker
  <2>3. CASE SendBatch(w)
    BY <2>3 DEF SendBatch, Idle
  <2>4. CASE StopBatch(w)
    BY <2>4 DEF StopBatch, Idle
  <2>5. CASE CountItems(w) /\ ~StopBatch(w)
    <3> DEFINE n == Cardinality(WithStatus(worker[w].on, {"RUNNING"}))
    <3>1. worker' = [worker EXCEPT ![w].pc = "counted", ![w].count = n]
      BY <2>5 DEF CountItems
    <3> HIDE DEF n
    <3> QED BY <3>1 DEF Worker
  <2>6. CASE DispatchItems(w) /\ ~StopBatch(w)
    <3>1. worker' = [worker EXCEPT ![w].pc = "finalize"]
      BY <2>6 DEF DispatchItems
    <3> QED BY <3>1 DEF Worker
  <2>7. ASSUME NEW e \in Evaluations, StartInitialize(w, e)
        PROVE  worker'[v] = worker[v] \/ worker'[v].pc = "init"
    BY <2>7 DEF StartInitialize, Idle
  <2>8. ASSUME NEW e \in Evaluations, StartBatch(w, e)
        PROVE  worker'[v] = worker[v] \/ worker'[v].pc = "locked"
    BY <2>8 DEF StartBatch, Idle
  <2>9. ASSUME NEW i \in Items, StartItem(w, i)
        PROVE  worker'[v] = worker[v] \/ worker'[v].pc = "taken"
    BY <2>9 DEF StartItem, Idle
  <2> QED BY <2>1, <2>2, <2>3, <2>4, <2>5, <2>6, <2>7, <2>8, <2>9 DEF StartTask
<1>4. FinalsKept /\ OverdueRuns' /\ \A v \in Workers : Bystander(v)
  BY <1>1, <1>3 DEF FinalsKept, OverdueRuns, Bystander, Safe
<1> QED BY <1>2, <1>4, Quiet

\* The coordinator gives back overdue items, which nobody holds.
LEMMA CoordinateSafe ==
    ASSUME Typed, Typed', Safe, NEW w \in Workers, CoordinateEvaluations(w)
    PROVE  Safe'
<1> DEFINE stuck == StuckItems(Status({"RUNNING"}))
<1>1. /\ item' = [i \in Items |-> IF i \in stuck THEN "PENDING" ELSE item[i]]
      /\ overdue' = overdue \ stuck
      /\ worker' = [worker EXCEPT ![w] = Idle]
      /\ evaluation' = evaluation
  BY DEF CoordinateEvaluations
<1>2. stuck \subseteq overdue /\ \A i \in stuck : item[i] = "RUNNING"
  BY DEF StuckItems
<1> HIDE DEF stuck
<1>3. FinalsKept
  BY <1>1, <1>2 DEF FinalsKept, Final
<1>4. OverdueRuns'
  BY <1>1 DEF OverdueRuns, Safe, Typed, TypeOK
<1>5. ASSUME NEW v \in Workers PROVE Bystander(v)
  <2>1. \A i \in Items : WorksOn(v, i) => i \notin overdue
    BY DEF Safe, Reads, HoldsItem
  <2>2. CASE v = w
    BY <1>1, <2>2 DEF Bystander, Typed, TypeOK, Idle
  <2>3. CASE v # w
    BY <1>1, <1>2, <2>1, <2>3 DEF Bystander, Typed, TypeOK
  <2> QED BY <2>2, <2>3
<1> QED BY <1>1, <1>3, <1>4, <1>5, Quiet

\* The steps of the finalisation.
LEMMA FinalizeSafe ==
    ASSUME Typed, Typed', Safe, NEW w \in Workers,
           VerifyItems(w) \/ CountResults(w) \/ FinalizeEvaluation(w)
    PROVE  Safe'
<1> DEFINE e == worker[w].on
<1>1. UNCHANGED <<item, overdue>> /\ FinalsKept /\ OverdueRuns'
  BY DEF VerifyItems, CountResults, FinalizeEvaluation, FinalsKept, OverdueRuns, Safe
<1>2. e \in Evaluations
  BY DEF VerifyItems, CountResults, FinalizeEvaluation, Typed, BusyOn
<1>3. worker \in [Workers -> Worker] /\ item \in [Items -> ItemStatus]
      /\ evaluation \in [Evaluations -> EvaluationRow]
  BY DEF Typed, TypeOK
<1>4. ASSUME NEW v \in Workers, v # w, worker'[v] = worker[v]
      PROVE  HoldsItem(v)' /\ SawTheEnd(v)'
  BY <1>1, <1>4, ReadsKept DEF Safe, Reads
<1>5. ASSUME StopBatch(w), evaluation' = evaluation PROVE Safe'
  <2>1. \A v \in Workers : Bystander(v)
    BY <1>1, <1>3, <1>5 DEF StopBatch, Bystander, Idle
  <2> QED BY <1>1, <1>5, <2>1, Quiet
<1>6. ASSUME evaluation' = evaluation, NEW k, worker' = [worker EXCEPT ![w] = k],
             k.on = e, k.pc # "working", SawTheEnd(w)'
      PROVE  Safe'
  <2>1. ASSUME NEW v \in Workers PROVE HoldsItem(v)' /\ SawTheEnd(v)'
    <3>1. CASE v = w
      BY <1>3, <1>6, <3>1 DEF HoldsItem, WorksOn
    <3>2. CASE v # w
      BY <1>3, <1>4, <1>6, <3>2
    <3> QED BY <3>1, <3>2
  <2>2. ItemClaimedOnce'
    BY <1>3, <1>6 DEF Safe, ItemClaimedOnce, WorksOn
  <2>3. CompletedMeansAllCompleted' /\ ProgressIsReal'
    BY <1>1, <1>6, CompletedKept, ProgressKept DEF Safe
  <2> QED BY <1>1, <2>1, <2>2, <2>3 DEF Safe, Reads
<1>7. CASE VerifyItems(w)
  <2>1. CASE WithStatus(e, Unfinished) = {}
    <3> DEFINE k == [worker[w] EXCEPT !.pc = "verified"]
    <3>1. evaluation' = evaluation /\ worker' = [worker EXCEPT ![w] = k]
      BY <1>7, <2>1 DEF VerifyItems
    <3>2. k.on = e /\ k.pc = "verified" /\ worker'[w] = k
      BY <1>3, <3>1 DEF Worker
    <3> HIDE DEF k
    <3>3. Done(e)' = ItemsOf(e)'
      BY <1>1, <1>3, <2>1, <3>2 DEF Done, Final, Unfinished, WithStatus, ItemsOf, ItemStatus
    <3>4. SawTheEnd(w)'
      BY <3>2, <3>3 DEF SawTheEnd
    <3> QED BY <1>6, <3>1, <3>2, <3>4
  <2>2. CASE WithStatus(e, Unfinished) # {}
    BY <1>5, <1>7, <2>2 DEF VerifyItems
  <2> QED BY <2>1, <2>2
<1>8. CASE CountResults(w)
  <2> DEFINE done == Cardinality(Done(e))
             failed == Cardinality(WithStatus(e, {"FAILED"}))
             k == [worker[w] EXCEPT !.pc = "scored", !.done = done, !.count = failed]
  <2>1. evaluation' = evaluation /\ worker' = [worker EXCEPT ![w] = k]
    BY <1>8 DEF CountResults, Done, Final
  <2>2. /\ k.on = e /\ k.pc = "scored" /\ k.done = done /\ k.count = failed
        /\ worker'[w] = k
    <3> HIDE DEF done, failed
    <3> QED BY <1>3, <2>1 DEF Worker
  <2> HIDE DEF k
  <2>3. Done(e) = ItemsOf(e)
    BY <1>2, <1>8 DEF CountResults, Safe, Reads, SawTheEnd
  <2>4. done = NumQuestions
    BY <1>2, <2>3, ItemsOfEvaluation
  <2>5. Done(e)' = ItemsOf(e)' /\ failed = Cardinality(WithStatus(e, {"FAILED"})')
    BY <1>1, <2>2, <2>3 DEF Done, WithStatus, ItemsOf
  <2>6. SawTheEnd(w)'
    BY <2>2, <2>4, <2>5 DEF SawTheEnd
  <2> QED BY <1>6, <2>1, <2>2, <2>6
<1>9. CASE FinalizeEvaluation(w)
  <2>1. worker' = [worker EXCEPT ![w] = Idle]
    BY <1>9 DEF FinalizeEvaluation, StopBatch
  <2>2. CASE evaluation' = evaluation
    BY <1>5, <1>9, <2>2 DEF FinalizeEvaluation
  <2>3. CASE evaluation' # evaluation
    <3> DEFINE status == FinalStatus(worker[w].count)
               done == worker[w].done
    <3>0. PICK x \in Evaluations : x = worker[w].on
      BY <1>2
    <3>1. evaluation' = [evaluation EXCEPT ![x] =
              [evaluation[x] EXCEPT !.status = status, !.completed = done]]
      BY <1>9, <2>3, <3>0 DEF FinalizeEvaluation
    <3>2. /\ Done(x) = ItemsOf(x)
          /\ done = NumQuestions
          /\ worker[w].count = Cardinality(WithStatus(x, {"FAILED"}))
      BY <1>9, <3>0 DEF FinalizeEvaluation, Safe, Reads, SawTheEnd
    <3>3. status = "COMPLETED" => WithStatus(x, {"FAILED"}) = {}
      <4>1. IsFiniteSet(WithStatus(x, {"FAILED"}))
        BY ItemsFinite DEF WithStatus, ItemsOf
      <4>2. Cardinality(WithStatus(x, {"FAILED"})) \in Nat
        BY StatusFinite
      <4> QED BY <3>2, <4>1, <4>2, FS_EmptySet DEF FinalStatus
    <3> HIDE DEF status, done
    <3>5. /\ evaluation'[x].status = status /\ evaluation'[x].completed = done
          /\ \A f \in Evaluations : f # x => evaluation'[f] = evaluation[f]
      BY <1>3, <3>1 DEF EvaluationRow
    <3>6. status = "COMPLETED" => \A i \in ItemsOf(x) : item'[i] = "COMPLETED"
      BY <1>1, <3>2, <3>3 DEF Done, Final, WithStatus, ItemsOf
    <3>7. CompletedMeansAllCompleted'
      <4> SUFFICES ASSUME NEW f \in Evaluations, evaluation'[f].status = "COMPLETED"
                   PROVE  /\ \A i \in ItemsOf(f) : item'[i] = "COMPLETED"
                          /\ evaluation'[f].completed = NumQuestions
        BY DEF CompletedMeansAllCompleted, ItemsOf
      <4>1. CASE f = x
        BY <3>2, <3>5, <3>6, <4>1
      <4>2. CASE f # x
        BY <1>1, <3>5, <4>2 DEF Safe, CompletedMeansAllCompleted
      <4> QED BY <4>1, <4>2
    <3>8. Cardinality(Done(x)') = NumQuestions
      <4>1. Done(x)' = ItemsOf(x)
        BY <1>1, <3>2 DEF Done, WithStatus, ItemsOf
      <4> QED BY <4>1, ItemsOfEvaluation
    <3>9. ProgressIsReal'
      <4>1. NumQuestions \in Nat
        BY ConstantsAssumption
      <4> SUFFICES ASSUME NEW f \in Evaluations
                   PROVE  \/ evaluation'[f].completed = evaluation[f].completed
                          \/ evaluation'[f].completed <= Cardinality(Done(f)')
        BY <1>1, ProgressKept DEF Safe
      <4>2. CASE f = x
        BY <3>2, <3>5, <3>8, <4>1, <4>2
      <4>3. CASE f # x
        BY <3>5, <4>3
      <4> QED BY <4>2, <4>3
    <3>10. ASSUME NEW v \in Workers PROVE HoldsItem(v)' /\ SawTheEnd(v)'
      <4>1. CASE v = w
        BY <1>3, <2>1, <4>1 DEF HoldsItem, SawTheEnd, WorksOn, Idle
      <4>2. CASE v # w
        BY <1>3, <1>4, <2>1, <4>2
      <4> QED BY <4>1, <4>2
    <3>11. ItemClaimedOnce'
      BY <1>3, <2>1 DEF Safe, ItemClaimedOnce, WorksOn, Idle
    <3> QED BY <1>1, <3>7, <3>9, <3>10, <3>11 DEF Safe, Reads
  <2> QED BY <2>2, <2>3
<1> QED BY <1>7, <1>8, <1>9

\* A claim takes an item that is PENDING, so nobody else holds it.
LEMMA ClaimSafe ==
    ASSUME Typed, Typed', Safe, NEW w \in Workers, ClaimItem(w) PROVE Safe'
<1>1. worker \in [Workers -> Worker] /\ item \in [Items -> ItemStatus]
      /\ evaluation \in [Evaluations -> EvaluationRow]
  BY DEF Typed, TypeOK
<1>2. PICK i \in Items : i = <<worker[w].on, worker[w].question>>
  BY DEF ClaimItem, Typed, BusyOn, Items
<1>3. UNCHANGED <<evaluation, overdue>>
  BY DEF ClaimItem
<1>4. CASE ~CanClaim(i)
  <2>1. worker' = [worker EXCEPT ![w] = Idle] /\ item' = item
    BY <1>2, <1>4 DEF ClaimItem
  <2>2. FinalsKept /\ OverdueRuns' /\ \A v \in Workers : Bystander(v)
    BY <1>1, <1>3, <2>1 DEF FinalsKept, OverdueRuns, Safe, Bystander, Idle
  <2> QED BY <1>3, <2>2, Quiet
<1>5. CASE CanClaim(i)
  <2> DEFINE n == evaluation[i[1]].completed
             k == [worker[w] EXCEPT !.pc = "working", !.count = n]
  <2>1. /\ item' = [item EXCEPT ![i] = "RUNNING"] /\ item[i] = "PENDING"
        /\ worker' = [worker EXCEPT ![w] = k]
    BY <1>2, <1>5 DEF ClaimItem, CanClaim
  <2>2. /\ k.pc = "working" /\ k.on = i[1] /\ k.question = i[2] /\ k.count = n
        /\ worker'[w] = k
    <3> HIDE DEF n
    <3> QED BY <1>1, <1>2, <2>1 DEF Worker
  <2> HIDE DEF k
  <2>3. FinalsKept /\ OverdueRuns'
    BY <1>1, <1>3, <2>1 DEF FinalsKept, Final, OverdueRuns, Safe, Typed, TypeOK
  <2>4. \A v \in Workers : ~WorksOn(v, i)
    BY <2>1 DEF Safe, Reads, HoldsItem
  <2>5. ASSUME NEW j \in Items, WorksOn(w, j)' PROVE j = i
    <3>1. j[1] = i[1] /\ j[2] = i[2]
      BY <2>2, <2>5 DEF WorksOn
    <3>2. \A x \in Items : x = <<x[1], x[2]>>
      BY DEF Items
    <3> QED BY <3>1, <3>2
  <2>6. HoldsItem(w)' /\ SawTheEnd(w)'
    <3>1. i[1] \in Evaluations /\ n \in Int
      BY <1>1 DEF Items, EvaluationRow
    <3>2. n <= Cardinality(Done(i[1]))
      BY <3>1 DEF Safe, ProgressIsReal, Done, Final
    <3>3. /\ Cardinality(Done(i[1])) <= Cardinality(Done(i[1])')
          /\ Cardinality(Done(i[1])) \in Nat /\ Cardinality(Done(i[1])') \in Nat
      <4>1. Done(i[1])' \subseteq Items /\ Done(i[1]) \subseteq Items
        BY DEF Done, WithStatus, ItemsOf
      <4> QED BY <2>3, <4>1, DoneGrows, ItemsFinite
    <3>4. n <= Cardinality(Done(i[1])')
      BY <3>1, <3>2, <3>3
    <3>5. item'[i] = "RUNNING" /\ i \notin overdue'
      BY <1>1, <1>3, <2>1 DEF Safe, OverdueRuns
    <3> QED BY <2>2, <2>5, <3>4, <3>5 DEF HoldsItem, SawTheEnd
  <2>7. ASSUME NEW v \in Workers, v # w PROVE HoldsItem(v)' /\ SawTheEnd(v)'
    <3>1. worker'[v] = worker[v]
      BY <1>1, <2>1, <2>7
    <3>2. \A j \in Items : WorksOn(v, j) =>
              item'[j] = item[j] /\ (j \in overdue' => j \in overdue)
      BY <1>1, <1>3, <2>1, <2>4
    <3> QED BY <2>3, <3>1, <3>2, ReadsKept DEF Safe, Reads
  <2>8. ItemClaimedOnce'
    BY <1>1, <2>1, <2>4, <2>5 DEF Safe, ItemClaimedOnce, WorksOn
  <2>9. CompletedMeansAllCompleted' /\ ProgressIsReal'
    BY <1>3, <2>3, CompletedKept, ProgressKept DEF Safe
  <2> QED BY <2>3, <2>6, <2>7, <2>8, <2>9 DEF Safe, Reads
<1> QED BY <1>4, <1>5

\* A result is written over the item its worker alone holds.
LEMMA ResultSafe ==
    ASSUME Typed, Typed', Safe, NEW w \in Workers,
           NEW i \in Items, i = <<worker[w].on, worker[w].question>>,
           worker[w].pc = "working", NEW result \in Final,
           item' = [item EXCEPT ![i] = result], overdue' = overdue \ {i},
           worker' = [worker EXCEPT ![w].pc = "sending"],
           \/ evaluation' = evaluation
           \/ evaluation' = [evaluation EXCEPT ![i[1]].completed = worker[w].count + 1]
    PROVE  Safe'
<1>1. worker \in [Workers -> Worker] /\ item \in [Items -> ItemStatus]
      /\ evaluation \in [Evaluations -> EvaluationRow]
  BY DEF Typed, TypeOK
<1>2. WorksOn(w, i) /\ i[1] \in Evaluations
  BY DEF WorksOn, Items
<1>3. item[i] = "RUNNING" /\ worker[w].count <= Cardinality(Done(i[1]))
  BY <1>2 DEF Safe, Reads, HoldsItem
<1>4. FinalsKept /\ OverdueRuns'
  BY <1>1, <1>3 DEF FinalsKept, Final, OverdueRuns, Safe, Typed, TypeOK
<1>5. worker'[w].pc = "sending" /\ \A v \in Workers : v # w => worker'[v] = worker[v]
  BY <1>1 DEF Worker
<1>6. ASSUME NEW v \in Workers PROVE HoldsItem(v)' /\ SawTheEnd(v)'
  <2>1. CASE v = w
    BY <1>5, <2>1 DEF HoldsItem, SawTheEnd, WorksOn
  <2>2. CASE v # w
    <3>1. ~WorksOn(v, i)
      BY <1>2, <2>2 DEF Safe, ItemClaimedOnce
    <3>2. \A j \in Items : WorksOn(v, j) =>
              item'[j] = item[j] /\ (j \in overdue' => j \in overdue)
      BY <1>1, <3>1
    <3> QED BY <1>4, <1>5, <2>2, <3>2, ReadsKept DEF Safe, Reads
  <2> QED BY <2>1, <2>2
<1>7. ItemClaimedOnce'
  BY <1>5 DEF Safe, ItemClaimedOnce, WorksOn
<1>8. CompletedMeansAllCompleted'
  <2>1. evaluation[i[1]].status # "COMPLETED"
    BY <1>2, <1>3 DEF Safe, CompletedMeansAllCompleted, ItemsOf
  <2>2. ASSUME NEW e \in Evaluations, evaluation'[e].status = "COMPLETED"
        PROVE  evaluation'[e].status = evaluation[e].status
               /\ evaluation'[e].completed = evaluation[e].completed
    BY <1>1, <1>2, <2>1, <2>2 DEF EvaluationRow
  <2> QED BY <1>4, <2>2, CompletedKept DEF Safe
<1>9. ProgressIsReal'
  <2>1. Done(i[1])' = Done(i[1]) \cup {i} /\ i \notin Done(i[1])
    BY <1>1, <1>3 DEF Done, Final, WithStatus, ItemsOf
  <2>2. Done(i[1]) \subseteq Items
    BY DEF Done, WithStatus, ItemsOf
  <2>3. IsFiniteSet(Done(i[1])) /\ Cardinality(Done(i[1])) \in Nat
    BY <2>2, ItemsFinite
  <2>4. Cardinality(Done(i[1])') = Cardinality(Done(i[1])) + 1
    BY <2>1, <2>3, FS_AddElement
  <2>5. worker[w].count + 1 <= Cardinality(Done(i[1])')
    BY <1>1, <1>3, <2>3, <2>4 DEF Worker
  <2>6. ASSUME NEW e \in Evaluations
        PROVE  \/ evaluation'[e].completed = evaluation[e].completed
               \/ evaluation'[e].completed <= Cardinality(Done(e)')
    <3>1. CASE e = i[1]
      BY <1>1, <1>2, <2>5, <3>1 DEF EvaluationRow
    <3>2. CASE e # i[1]
      BY <1>1, <1>2, <3>2 DEF EvaluationRow
    <3> QED BY <3>1, <3>2
  <2> QED BY <1>4, <2>6, ProgressKept DEF Safe
<1> QED BY <1>4, <1>6, <1>7, <1>8, <1>9 DEF Safe, Reads

LEMMA ItemSafe ==
    ASSUME Typed, Typed', Safe, NEW w \in Workers, NEW result \in Final,
           ProcessSingleItem(w, result) \/ ItemErrors(w)
    PROVE  Safe'
<1>1. PICK i \in Items : i = <<worker[w].on, worker[w].question>>
  BY DEF ProcessSingleItem, ItemErrors, Typed, BusyOn, Items
<1>2. CASE ProcessSingleItem(w, result)
  BY <1>1, <1>2, ResultSafe DEF ProcessSingleItem
<1>3. CASE ItemErrors(w)
  <2>1. worker[w].pc = "working"
    BY <1>3 DEF ItemErrors
  <2>2. item[i] = "RUNNING"
    BY <1>1, <2>1 DEF Safe, Reads, HoldsItem, WorksOn
  <2>3. /\ item' = [item EXCEPT ![i] = "FAILED"] /\ overdue' = overdue \ {i}
        /\ worker' = [worker EXCEPT ![w].pc = "sending"] /\ evaluation' = evaluation
    BY <1>1, <1>3, <2>2 DEF ItemErrors
  <2>4. "FAILED" \in Final
    BY DEF Final
  <2> QED BY <1>1, <2>1, <2>3, <2>4, ResultSafe
<1> QED BY <1>2, <1>3

\* Time makes only abandoned items overdue, and the other faults stop a worker.
LEMMA FaultSafe ==
    NoSecondChance /\ Typed /\ Typed' /\ Safe /\ (TimeStep \/ FaultStep) => Safe'
<1> SUFFICES ASSUME NoSecondChance, Typed, Typed', Safe, TimeStep \/ FaultStep PROVE Safe'
  OBVIOUS
<1>1. worker \in [Workers -> Worker] /\ evaluation \in [Evaluations -> EvaluationRow]
  BY DEF Typed, TypeOK
<1>2. ASSUME NEW i \in Items, ItemAbandoned(i) PROVE Safe'
  <2>1. FinalsKept /\ OverdueRuns' /\ \A w \in Workers : Bystander(w)
    BY <1>2 DEF ItemAbandoned, FinalsKept, OverdueRuns, Safe, Bystander
  <2> QED BY <1>2, <2>1, Quiet DEF ItemAbandoned
<1>3. ASSUME NEW e \in Evaluations, LockExpires(e) PROVE Safe'
  <2>1. FinalsKept /\ OverdueRuns' /\ \A w \in Workers : Bystander(w)
    BY <1>3 DEF LockExpires, FinalsKept, OverdueRuns, Safe, Bystander
  <2> QED BY <1>3, <2>1, Quiet DEF LockExpires
<1>4. ASSUME NEW w \in Workers, WorkerDies(w) PROVE Safe'
  <2>1. FinalsKept /\ OverdueRuns' /\ \A v \in Workers : Bystander(v)
    BY <1>1, <1>4 DEF WorkerDies, FinalsKept, OverdueRuns, Safe, Bystander, Idle
  <2> QED BY <1>4, <2>1, Quiet DEF WorkerDies
<1>5. ASSUME NEW w \in Workers, InitializeFails(w) PROVE Safe'
  <2>1. FinalsKept /\ OverdueRuns' /\ \A v \in Workers : Bystander(v)
    BY <1>1, <1>5 DEF InitializeFails, FinalsKept, OverdueRuns, Safe, Bystander, Idle
  <2>2. ASSUME NEW e \in Evaluations
        PROVE  /\ evaluation'[e].completed = evaluation[e].completed
               /\ evaluation'[e].status = "COMPLETED" => evaluation[e].status = "COMPLETED"
    BY <1>1, <1>5 DEF InitializeFails, EvaluationRow
  <2> QED BY <2>1, <2>2, Quiet
<1>6. ASSUME NEW w \in Workers, ItemErrors(w) PROVE Safe'
  <2>1. "FAILED" \in Final
    BY DEF Final
  <2> QED BY <1>6, <2>1, ItemSafe
<1>7. \A i \in Items : ~ItemSlow(i)
  BY DEF NoSecondChance, ItemSlow, Fault
<1> QED BY <1>2, <1>3, <1>4, <1>5, <1>6, <1>7 DEF TimeStep, FaultStep

LEMMA NextSafe == NoSecondChance /\ Typed /\ Safe /\ [Next]_vars => Safe'
<1> SUFFICES ASSUME NoSecondChance, Typed, Safe, [Next]_vars PROVE Safe'
  OBVIOUS
<1>1. Typed'
  BY NextTyped
<1>2. CASE UNCHANGED vars
  <2>1. FinalsKept /\ OverdueRuns' /\ \A w \in Workers : Bystander(w)
    BY <1>2 DEF vars, FinalsKept, OverdueRuns, Safe, Bystander
  <2> QED BY <1>1, <1>2, <2>1, Quiet DEF vars
<1>3. ASSUME NEW w \in Workers, CountRunning(w) \/ StartTask(w) \/ Continue(w) PROVE Safe'
  <2>1. CASE ClaimItem(w)
    BY <1>1, <2>1, ClaimSafe
  <2>2. CASE CoordinateEvaluations(w)
    BY <1>1, <2>2, CoordinateSafe
  <2>3. CASE VerifyItems(w) \/ CountResults(w) \/ FinalizeEvaluation(w)
    BY <1>1, <2>3, FinalizeSafe
  <2>4. ASSUME NEW result \in Final, ProcessSingleItem(w, result) PROVE Safe'
    BY <1>1, <2>4, ItemSafe
  <2> QED BY <1>1, <1>3, <2>1, <2>2, <2>3, <2>4, IdleStepsSafe DEF Continue, Final
<1> QED BY <1>1, <1>2, <1>3, ApiSafe, FaultSafe DEF Next

LEMMA InitSafe == Init => Safe
<1> SUFFICES ASSUME Init PROVE Safe
  OBVIOUS
<1>1. \A e : Cardinality(WithStatus(e, {"COMPLETED", "FAILED"})) \in Nat
  BY StatusFinite
<1>2. ProgressIsReal
  BY <1>1 DEF Init, ProgressIsReal
<1>3. Reads /\ OverdueRuns /\ ItemClaimedOnce /\ CompletedMeansAllCompleted
  BY DEF Init, Idle, Reads, HoldsItem, SawTheEnd, WorksOn, OverdueRuns, ItemClaimedOnce,
         CompletedMeansAllCompleted
<1> QED BY <1>2, <1>3 DEF Safe

LEMMA AlwaysSafe == NoSecondChance => (Spec => []Safe)
<1>1. ASSUME NoSecondChance PROVE Spec => []Safe
  <2>1. Typed /\ Safe /\ [Next]_vars => (Typed /\ Safe)'
    BY <1>1, NextTyped, NextSafe
  <2> QED BY <2>1, InitTyped, InitSafe, PTL DEF Spec
<1> QED BY <1>1

\* However many batches dispatched an item, one worker at most processes it,
\* unless retries or slow items give it back meanwhile (process_evaluation_item).
THEOREM ClaimedOnce == NoSecondChance => (Spec => []ItemClaimedOnce)
<1>1. Safe => ItemClaimedOnce
  BY DEF Safe
<1> QED BY <1>1, AlwaysSafe, PTL

\* Unless someone retries or an item is slow, a COMPLETED evaluation has only
\* COMPLETED items and counts all of them (_finalize_evaluation).
THEOREM CompletedIsComplete == NoSecondChance => (Spec => []CompletedMeansAllCompleted)
<1>1. Safe => CompletedMeansAllCompleted
  BY DEF Safe
<1> QED BY <1>1, AlwaysSafe, PTL

\* Without retries and slow items the counter, read before the agent is called
\* and written afterwards, never runs ahead of the items that are done.
THEOREM ProgressNotAhead == NoSecondChance => (Spec => []ProgressIsReal)
<1>1. Safe => ProgressIsReal
  BY DEF Safe
<1> QED BY <1>1, AlwaysSafe, PTL

=============================================================================
