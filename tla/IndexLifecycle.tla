--------------------------- MODULE IndexLifecycle ---------------------------
(***************************************************************************)
(* The life of a document's search indexes: rows of table document_index   *)
(* are written by API requests (aperag/service/document_service.py through *)
(* aperag/index/manager.py), claimed by passes of the reconciler           *)
(* (aperag/tasks/reconciler.py), worked on by Celery tasks                 *)
(* (config/celery_tasks.py) and closed by the tasks' callbacks.            *)
(*                                                                         *)
(* PostgreSQL runs at READ COMMITTED: a statement sees committed rows; an  *)
(* UPDATE passes over a row its WHERE clause does not match, waits for the *)
(* transaction that holds a row it matches and then evaluates the clause   *)
(* again.  tx[i] is the transaction that holds row i.                      *)
(* An ORM flush writes, by primary key, only the columns whose value was   *)
(* changed in memory since the row was read.                               *)
(***************************************************************************)
EXTENDS Naturals, FiniteSets

CONSTANTS
    Docs,            \* documents
    IndexTypes,      \* DocumentIndexType values a rebuild may name
    ConfigTypes,     \* those the collection's config gives a new document
    Requests,        \* API workers, each with at most one open transaction
    Passes,          \* Celery workers running reconcile_indexes_task
    Ops,             \* the API operations this instance exercises
    MaxVersion,      \* bound: version of a row
    MaxRowId,        \* bound: rows ever inserted per document and type
    MaxWorkflows,    \* bound: dispatches to Celery
    MaxRetries,      \* max_retries of the tasks
    MaxFaults,       \* bound: crashes, lost and repeated deliveries
    CommitBeforeRun  \* TRUE: a claim commits before its tasks validate

ASSUME ConstantsAssumption ==
    /\ Docs # {} /\ IndexTypes # {}
    /\ ConfigTypes \subseteq IndexTypes
    /\ Ops \subseteq {"create", "upload", "confirm", "delete", "rebuild",
                      "rebuild_failed", "expire"}
    /\ {MaxVersion, MaxRowId, MaxWorkflows, MaxRetries, MaxFaults} \subseteq Nat
    /\ CommitBeforeRun \in BOOLEAN

VARIABLES
    docStatus,   \* Document.status
    gmtDeleted,  \* documents whose gmt_deleted is set
    index,       \* committed rows of document_index
    tx,          \* the open transaction that holds a row, if any
    req,         \* open API requests
    pass,        \* reconciler passes, one document each
    tasks,       \* Celery messages, waiting or being worked on
    nextWf,      \* dispatches so far; names the next workflow
    faults       \* faults so far

vars == <<docStatus, gmtDeleted, index, tx, req, pass, tasks, nextWf, faults>>

-----------------------------------------------------------------------------
Index == Docs \X IndexTypes

IndexStatus == {"PENDING", "CREATING", "ACTIVE", "DELETING",
                "DELETION_IN_PROGRESS", "FAILED"}

DocumentStatus == {"NONE", "UPLOADED", "PENDING", "RUNNING", "COMPLETE",
                   "FAILED", "DELETED", "EXPIRED"}

IndexAction == {"create", "update", "delete"}

\* A row.  ABSENT: no such row; id then names the last one there was.
Row == [id : Nat, status : IndexStatus \cup {"ABSENT"},
        version : Nat, observed : Nat]

NoRow == [id |-> 0, status |-> "ABSENT", version |-> 0, observed |-> 0]

Present(row) == row.status # "ABSENT"

\* What a transaction that holds a row will write when it commits.
Tx == [kind : {"none", "claim", "created", "failed", "deleted"},
       wf : Nat, target : Nat, seen : DocumentStatus, new : DocumentStatus]

NoTx == [kind |-> "none", wf |-> 0, target |-> 0, seen |-> "NONE", new |-> "NONE"]

Held(i) == tx[i].kind # "none"

Request == [pc : {"idle", "begun", "read"},
            op : {"none", "confirm", "delete", "rebuild", "rebuild_failed", "expire"},
            doc : Docs, types : SUBSET IndexTypes, seen : [IndexTypes -> Row]]

Item == [type : IndexTypes, id : Nat, action : IndexAction]
Claim == [type : IndexTypes, action : IndexAction, target : Nat]

Pass == [pc : {"idle", "ready", "selected", "dispatched"}, doc : Docs,
         todo : SUBSET Item, cur : Item, target : Nat,
         claimed : SUBSET Claim]

\* A Celery message.  context[t] is context["<t>_version"], 0 when missing.
Task == [wf : Nat, copy : Nat, action : IndexAction,
         kind : {"parse", "trigger", "index"}, doc : Docs,
         types : SUBSET IndexTypes, context : [IndexTypes -> Nat],
         attempt : Nat, pc : {"queued", "running", "failing"}]

\* The values an idle request or pass holds; nothing reads them.
AnyDoc == CHOOSE d \in Docs : TRUE
AnyType == CHOOSE t \in IndexTypes : TRUE

IdleRequest == [pc |-> "idle", op |-> "none", doc |-> AnyDoc, types |-> {},
                seen |-> [t \in IndexTypes |-> NoRow]]

IdlePass == [pc |-> "idle", doc |-> AnyDoc, todo |-> {},
             cur |-> [type |-> AnyType, id |-> 0, action |-> "create"],
             target |-> 0, claimed |-> {}]

Init ==
    /\ docStatus = [d \in Docs |-> "NONE"]
    /\ gmtDeleted = {}
    /\ index = [i \in Index |-> NoRow]
    /\ tx = [i \in Index |-> NoTx]
    /\ req = [r \in Requests |-> IdleRequest]
    /\ pass = [p \in Passes |-> IdlePass]
    /\ tasks = {}
    /\ nextWf = 1
    /\ faults = 0

-----------------------------------------------------------------------------
(* API requests (document_service.py).  Each runs one transaction: it reads
   the document, reads the index rows, and flushes and commits.             *)

\* The row session.add(DocumentIndex(...)) inserts where old is.
NewRow(old) == [id |-> old.id + 1, status |-> "PENDING", version |-> 1, observed |-> 0]

\* A new document: create_documents makes it PENDING with its index rows in
\* one transaction, upload_document makes it UPLOADED without.
CreateDocument(d) ==
    /\ "create" \in Ops
    /\ docStatus[d] = "NONE"
    /\ docStatus' = [docStatus EXCEPT ![d] = "PENDING"]
    /\ index' = [i \in Index |-> IF i[1] = d /\ i[2] \in ConfigTypes
                                 THEN NewRow(index[i]) ELSE index[i]]
    /\ UNCHANGED <<gmtDeleted, tx, req, pass, tasks, nextWf, faults>>

UploadDocument(d) ==
    /\ "upload" \in Ops
    /\ docStatus[d] = "NONE"
    /\ docStatus' = [docStatus EXCEPT ![d] = "UPLOADED"]
    /\ UNCHANGED <<gmtDeleted, index, tx, req, pass, tasks, nextWf, faults>>

BeginRequest(r, op, d, types) ==
    /\ op \in Ops
    /\ req[r].pc = "idle"
    /\ req' = [req EXCEPT ![r] = [pc |-> "begun", op |-> op, doc |-> d,
                                  types |-> types, seen |-> [t \in IndexTypes |-> NoRow]]]
    /\ UNCHANGED <<docStatus, gmtDeleted, index, tx, pass, tasks, nextWf, faults>>

\* query_document: any document that is not DELETED, whatever its state.
QueryDocument(d) == docStatus[d] \notin {"NONE", "DELETED"}

ConfirmDocument(r, d) ==
    /\ docStatus[d] = "UPLOADED"
    /\ BeginRequest(r, "confirm", d, ConfigTypes)

DeleteDocument(r, d) ==
    /\ QueryDocument(d)
    /\ BeginRequest(r, "delete", d, IndexTypes)

RebuildIndexes(r, d, types) ==
    /\ QueryDocument(d)
    /\ BeginRequest(r, "rebuild", d, types)

RebuildFailedIndexes(r, d) ==
    LET failed == {t \in IndexTypes : index[<<d, t>>].status = "FAILED"}
    IN  /\ QueryDocument(d)
        /\ failed # {}
        /\ BeginRequest(r, "rebuild_failed", d, failed)

\* cleanup_expired_documents, for one document older than a day.
CleanupExpired(r, d) ==
    /\ docStatus[d] = "UPLOADED"
    /\ BeginRequest(r, "expire", d, {})

\* The SELECTs of create_or_update_document_indexes, delete_document_indexes.
ReadRows(r) ==
    /\ req[r].pc = "begun"
    /\ req' = [req EXCEPT ![r].pc = "read",
                          ![r].seen = [t \in IndexTypes |-> index[<<req[r].doc, t>>]]]
    /\ UNCHANGED <<docStatus, gmtDeleted, index, tx, pass, tasks, nextWf, faults>>

\* The index types whose row the request writes.
Touched(r) ==
    IF req[r].op = "delete"
    THEN {t \in req[r].types : Present(req[r].seen[t])}
    ELSE req[r].types

\* create_or_update_document_indexes: status is flushed only if it was not
\* already PENDING in memory; version is the one read, plus one.
CreateOrUpdate(seen, now) ==
    IF Present(seen)
    THEN [now EXCEPT !.status = IF seen.status = "PENDING" THEN @ ELSE "PENDING",
                     !.version = seen.version + 1]
    ELSE NewRow(now)

\* delete_document_indexes.
MarkDeleting(seen, now) ==
    [now EXCEPT !.status = IF seen.status = "DELETING" THEN @ ELSE "DELETING"]

\* A flush fails when the row it updates is gone (StaleDataError) or the one
\* it inserts exists (uq_document_index).
FlushFails(seen, now) ==
    IF Present(seen) THEN ~Present(now) \/ now.id # seen.id ELSE Present(now)

WithinBounds(row) == row.version <= MaxVersion /\ row.id <= MaxRowId

StatusAfter(op, status) ==
    IF op = "confirm" THEN "PENDING"
    ELSE IF op = "delete" THEN "DELETED"
    ELSE IF op = "expire" THEN "EXPIRED"
    ELSE status

CommitRequest(r) ==
    LET q == req[r]
        write(t) == IF q.op = "delete"
                    THEN MarkDeleting(q.seen[t], index[<<q.doc, t>>])
                    ELSE CreateOrUpdate(q.seen[t], index[<<q.doc, t>>])
    IN  /\ q.pc = "read"
        /\ \A t \in Touched(r) : /\ ~Held(<<q.doc, t>>)
                                 /\ ~FlushFails(q.seen[t], index[<<q.doc, t>>])
                                 /\ WithinBounds(write(t))
        /\ index' = [i \in Index |-> IF i[1] = q.doc /\ i[2] \in Touched(r)
                                     THEN write(i[2]) ELSE index[i]]
        /\ docStatus' = [docStatus EXCEPT ![q.doc] = StatusAfter(q.op, @)]
        /\ gmtDeleted' = gmtDeleted \cup (IF q.op = "delete" THEN {q.doc} ELSE {})
        /\ req' = [req EXCEPT ![r] = IdleRequest]
        /\ UNCHANGED <<tx, pass, tasks, nextWf, faults>>

RollbackRequest(r) ==
    /\ req[r].pc = "read"
    /\ \E t \in Touched(r) : FlushFails(req[r].seen[t], index[<<req[r].doc, t>>])
    /\ req' = [req EXCEPT ![r] = IdleRequest]
    /\ UNCHANGED <<docStatus, gmtDeleted, index, tx, pass, tasks, nextWf, faults>>

-----------------------------------------------------------------------------
(* The reconciler (DocumentIndexReconciler).  A pass works through the
   documents its scan found one transaction at a time; here a pass is its
   work on one document.                                                    *)

\* The scan's conditions, which the claiming UPDATE repeats.
Needs(row, action) ==
    \/ /\ row.status = "PENDING" /\ row.observed < row.version
       /\ \/ action = "create" /\ row.version = 1
          \/ action = "update" /\ row.version > 1
    \/ row.status = "DELETING" /\ action = "delete"

GetIndexesNeedingReconciliation(p, d) ==
    LET found == {it \in [type : IndexTypes, id : {index[<<d, t>>].id : t \in IndexTypes},
                          action : IndexAction] :
                     /\ it.id = index[<<d, it.type>>].id
                     /\ Needs(index[<<d, it.type>>], it.action)}
    IN  /\ pass[p].pc = "idle"
        /\ found # {}
        /\ pass' = [pass EXCEPT ![p] = [IdlePass EXCEPT !.pc = "ready", !.doc = d,
                                                        !.todo = found]]
        /\ UNCHANGED <<docStatus, gmtDeleted, index, tx, req, tasks, nextWf, faults>>

\* The SELECT that fetches target_version; a missing row is passed over.
SelectIndex(p, it) ==
    LET row == index[<<pass[p].doc, it.type>>]
        rest == pass[p].todo \ {it}
    IN  /\ pass[p].pc = "ready"
        /\ it \in pass[p].todo
        /\ pass' = [pass EXCEPT ![p] =
                       IF Present(row) /\ row.id = it.id
                       THEN [@ EXCEPT !.pc = "selected", !.todo = rest,
                                      !.cur = it, !.target = row.version]
                       ELSE [@ EXCEPT !.todo = rest]]
        /\ UNCHANGED <<docStatus, gmtDeleted, index, tx, req, tasks, nextWf, faults>>

\* The WHERE clause of the claiming UPDATE.
ClaimTrustsScan(row, it) == row.id = it.id    \* mutant: no condition repeated
ClaimMatches(row, it) == row.id = it.id /\ Needs(row, it.action)

\* The conditional UPDATE; the row stays held until the pass commits.
ClaimIndex(p) ==
    LET it == pass[p].cur
        i == <<pass[p].doc, it.type>>
        won == ClaimMatches(index[i], it)
        target == IF it.action = "delete" THEN 0 ELSE pass[p].target
    IN  /\ pass[p].pc = "selected"
        /\ won => ~Held(i)
        /\ pass' = [pass EXCEPT ![p].pc = "ready",
                                ![p].claimed = IF won
                                    THEN @ \cup {[type |-> it.type, action |-> it.action,
                                                  target |-> target]}
                                    ELSE @]
        /\ tx' = IF won THEN [tx EXCEPT ![i] = [NoTx EXCEPT !.kind = "claim"]] ELSE tx
        /\ UNCHANGED <<docStatus, gmtDeleted, index, req, tasks, nextWf, faults>>

\* The rows a pass holds are released by its commit or rollback.
ClaimedBy(p) == {<<pass[p].doc, c.type>> : c \in pass[p].claimed}
Released(p) == [i \in Index |-> IF i \in ClaimedBy(p) THEN NoTx ELSE tx[i]]

\* No index could be claimed: the session is closed, which rolls back.
SkipDocument(p) ==
    /\ pass[p].pc = "ready"
    /\ pass[p].todo = {}
    /\ pass[p].claimed = {}
    /\ pass' = [pass EXCEPT ![p] = IdlePass]
    /\ UNCHANGED <<docStatus, gmtDeleted, index, tx, req, tasks, nextWf, faults>>

\* One workflow per action, for all the types claimed for it.
Batch(p, a) == {c \in pass[p].claimed : c.action = a}

Workflow(p, a) ==
    [wf |-> nextWf, copy |-> 0, action |-> a,
     kind |-> IF a = "delete" THEN "trigger" ELSE "parse",
     doc |-> pass[p].doc, types |-> {c.type : c \in Batch(p, a)},
     context |-> [t \in IndexTypes |->
                     IF \E c \in Batch(p, a) : c.type = t
                     THEN (CHOOSE c \in Batch(p, a) : c.type = t).target ELSE 0],
     attempt |-> 0, pc |-> "queued"]

Actions(p) == {c.action : c \in pass[p].claimed}

ReadyToDispatch(p) ==
    /\ pass[p].pc = "ready"
    /\ pass[p].todo = {}
    /\ pass[p].claimed # {}
    /\ nextWf <= MaxWorkflows

\* Tasks are sent before the claims are committed.
ReconcileDocumentOperations(p) ==
    /\ ReadyToDispatch(p)
    /\ tasks' = tasks \cup {Workflow(p, a) : a \in Actions(p)}
    /\ nextWf' = nextWf + 1
    /\ pass' = [pass EXCEPT ![p].pc = "dispatched"]
    /\ UNCHANGED <<docStatus, gmtDeleted, index, tx, req, faults>>

ClaimedStatusMisspelt(a) ==   \* mutant
    IF a = "delete" THEN "DELETING_IN_PROGRESS" ELSE "CREATING"
ClaimedStatus(a) == IF a = "delete" THEN "DELETION_IN_PROGRESS" ELSE "CREATING"

CommitClaims(p) ==
    LET claim(i) == CHOOSE c \in pass[p].claimed : c.type = i[2]
    IN  /\ pass[p].pc = "dispatched"
        /\ index' = [i \in Index |->
                        IF i \in ClaimedBy(p)
                        THEN [index[i] EXCEPT !.status = ClaimedStatus(claim(i).action)]
                        ELSE index[i]]
        /\ tx' = Released(p)
        /\ pass' = [pass EXCEPT ![p] = IdlePass]
        /\ UNCHANGED <<docStatus, gmtDeleted, req, tasks, nextWf, faults>>

Fault ==
    /\ faults < MaxFaults
    /\ faults' = faults + 1

\* The broker refuses the workflow of a later action after those of the
\* earlier ones were sent: the exception rolls the claims back.
DispatchFails(p, sent) ==
    /\ Fault
    /\ ReadyToDispatch(p)
    /\ \E a \in Actions(p) : a \notin sent
    /\ tasks' = tasks \cup {Workflow(p, a) : a \in Actions(p) \cap sent}
    /\ nextWf' = nextWf + 1
    /\ tx' = Released(p)
    /\ pass' = [pass EXCEPT ![p] = IdlePass]
    /\ UNCHANGED <<docStatus, gmtDeleted, index, req>>

\* The worker dies, or its commit fails, in the middle of a document.
PassDies(p) ==
    /\ Fault
    /\ pass[p].pc # "idle"
    /\ tx' = Released(p)
    /\ pass' = [pass EXCEPT ![p] = IdlePass]
    /\ UNCHANGED <<docStatus, gmtDeleted, index, req, tasks, nextWf>>

-----------------------------------------------------------------------------
(* Celery tasks: parse_document_task, the trigger_*_indexes_workflow tasks,
   create_index_task, update_index_task and delete_index_task.              *)

Rest == <<docStatus, gmtDeleted, index, req, pass, nextWf, faults>>

\* The claim a workflow was sent for is committed before the workflow runs,
\* when the instance assumes so.
Runnable(k) ==
    CommitBeforeRun => \A t \in k.types : tx[<<k.doc, t>>].kind # "claim"

\* get_document_and_collection refuses a DELETED document.
ParseSucceeds(k) ==
    /\ k.kind = "parse" /\ k.pc = "queued" /\ Runnable(k)
    /\ docStatus[k.doc] # "DELETED"
    /\ tasks' = (tasks \ {k}) \cup {[k EXCEPT !.kind = "trigger", !.attempt = 0]}
    /\ UNCHANGED <<Rest, tx>>

\* autoretry: again after the countdown, or the failure callback.
RetryWithoutCallback(k) ==    \* mutant: retries > max_retries is never true
    IF k.attempt < MaxRetries
    THEN {[k EXCEPT !.attempt = @ + 1, !.pc = "queued"]}
    ELSE {}

Retry(k) ==
    IF k.attempt < MaxRetries
    THEN {[k EXCEPT !.attempt = @ + 1, !.pc = "queued"]}
    ELSE {[k EXCEPT !.pc = "failing"]}

ParseFails(k) ==
    /\ k.kind = "parse" /\ k.pc = "queued" /\ Runnable(k)
    /\ tasks' = (tasks \ {k}) \cup Retry(k)
    /\ UNCHANGED <<Rest, tx>>

\* Fan-out into one task per index type.
TriggerIndexTasks(k) ==
    /\ k.kind = "trigger" /\ Runnable(k)
    /\ tasks' = (tasks \ {k}) \cup {[k EXCEPT !.kind = "index", !.types = {t}] : t \in k.types}
    /\ UNCHANGED <<Rest, tx>>

TypeOf(k) == CHOOSE t \in k.types : TRUE
IndexOf(k) == <<k.doc, TypeOf(k)>>

\* _validate_task_relevance, and the shorter check of delete_index_task.
ValidateTaskRelevance(k) ==
    LET row == index[IndexOf(k)]
    IN  /\ row.status = ClaimedStatus(k.action)
        /\ k.action # "delete" =>
              /\ k.context[TypeOf(k)] # 0 => row.version = k.context[TypeOf(k)]
              /\ docStatus[k.doc] \notin {"UPLOADED", "EXPIRED"}

\* An irrelevant task is skipped; DocumentIndexTask.create_index and
\* update_index look the document up again and refuse a DELETED one.
StartIndexTask(k) ==
    /\ k.kind = "index" /\ k.pc = "queued"
    /\ tasks' = (tasks \ {k}) \cup
                   (IF ~ValidateTaskRelevance(k) THEN {}
                    ELSE IF k.action # "delete" /\ docStatus[k.doc] = "DELETED"
                    THEN Retry(k)
                    ELSE {[k EXCEPT !.pc = "running"]})
    /\ UNCHANGED <<Rest, tx>>

IndexTaskFails(k) ==
    /\ k.kind = "index" /\ k.pc = "running"
    /\ tasks' = (tasks \ {k}) \cup Retry(k)
    /\ UNCHANGED <<Rest, tx>>

-----------------------------------------------------------------------------
(* Callbacks (IndexTaskCallbacks).  The first step executes the guarded
   UPDATE or DELETE and computes the document's status from the rows it can
   see; the row is held until CommitCallback.                               *)

\* Document.get_overall_index_status, with row i's status replaced by s.
OverallIndexStatus(d, i, s) ==
    LET statuses == ({index[j].status : j \in {j \in Index \ {i} : j[1] = d}} \cup {s})
                        \ {"ABSENT"}
    IN  IF statuses = {} THEN "PENDING"
        ELSE IF "FAILED" \in statuses THEN "FAILED"
        ELSE IF {"CREATING", "DELETION_IN_PROGRESS"} \cap statuses # {} THEN "RUNNING"
        ELSE IF statuses = {"ACTIVE"} THEN "COMPLETE"
        ELSE "PENDING"

\* _update_document_status leaves these documents alone.
TracksDeleted == {"NONE", "UPLOADED", "EXPIRED"}   \* mutant
Untracked == {"NONE", "DELETED", "UPLOADED", "EXPIRED"}

UpdateDocumentStatus(d, i, s) ==
    IF docStatus[d] \in Untracked THEN docStatus[d] ELSE OverallIndexStatus(d, i, s)

\* matched: the WHERE clause holds.  Otherwise the callback is ignored.
OpenCallback(i, k, kind, target, s, matched) ==
    /\ matched => ~Held(i)
    /\ tx' = IF matched
             THEN [tx EXCEPT ![i] = [kind |-> kind, wf |-> k.wf, target |-> target,
                                     seen |-> docStatus[k.doc],
                                     new |-> UpdateDocumentStatus(k.doc, i, s)]]
             ELSE tx
    /\ UNCHANGED Rest

\* The WHERE clause of on_index_created.
CreatedIgnoresVersion(row, target) == row.status = "CREATING"   \* mutant
CreatedIgnoresStatus(row, target) == row.version = target       \* mutant
CreatedMatches(row, target) == row.status = "CREATING" /\ row.version = target

OnIndexCreated(k) ==
    LET i == IndexOf(k)
        target == k.context[TypeOf(k)]
    IN  /\ k.kind = "index" /\ k.pc = "running" /\ k.action # "delete"
        /\ tasks' = tasks \ {k}
        /\ OpenCallback(i, k, "created", target, "ACTIVE",
                        CreatedMatches(index[i], target))

OnIndexDeleted(k) ==
    LET i == IndexOf(k)
    IN  /\ k.kind = "index" /\ k.pc = "running" /\ k.action = "delete"
        /\ tasks' = tasks \ {k}
        /\ OpenCallback(i, k, "deleted", 0, "ABSENT",
                        index[i].status = "DELETION_IN_PROGRESS")

\* One type after another: parse_document_task fails all types of its batch.
OnIndexFailed(k, t) ==
    LET i == <<k.doc, t>>
    IN  /\ k.pc = "failing"
        /\ t \in k.types
        /\ \A u \in IndexTypes : tx[<<k.doc, u>>].kind = "failed"
                                    => tx[<<k.doc, u>>].wf # k.wf
        /\ tasks' = (tasks \ {k}) \cup
                       (IF k.types = {t} THEN {} ELSE {[k EXCEPT !.types = @ \ {t}]})
        /\ OpenCallback(i, k, "failed", 0, "FAILED",
                        index[i].status \in {"CREATING", "DELETION_IN_PROGRESS"})

Written(c, row) ==
    IF c.kind = "created" THEN [row EXCEPT !.status = "ACTIVE", !.observed = c.target]
    ELSE IF c.kind = "failed" THEN [row EXCEPT !.status = "FAILED"]
    ELSE [NoRow EXCEPT !.id = row.id]

CommitCallback(i) ==
    LET c == tx[i]
    IN  /\ c.kind \in {"created", "failed", "deleted"}
        /\ index' = [index EXCEPT ![i] = Written(c, @)]
        /\ docStatus' = [docStatus EXCEPT ![i[1]] = IF c.new # c.seen THEN c.new ELSE @]
        /\ tx' = [tx EXCEPT ![i] = NoTx]
        /\ UNCHANGED <<gmtDeleted, req, pass, tasks, nextWf, faults>>

\* The commit fails: _handle_index_* logs the exception and carries on.
CallbackLost(i) ==
    /\ Fault
    /\ tx[i].kind \in {"created", "failed", "deleted"}
    /\ tx' = [tx EXCEPT ![i] = NoTx]
    /\ UNCHANGED <<docStatus, gmtDeleted, index, req, pass, tasks, nextWf>>

\* The worker's child process is killed: the message is acknowledged.
TaskLost(k) ==
    /\ Fault
    /\ tasks' = tasks \ {k}
    /\ UNCHANGED <<docStatus, gmtDeleted, index, tx, req, pass, nextWf>>

\* task_acks_late: a message is delivered again while, or after, it is run.
TaskRedelivered(k) ==
    /\ Fault
    /\ k.pc = "running"
    /\ tasks' = tasks \cup {[k EXCEPT !.pc = "queued", !.copy = @ + 1]}
    /\ UNCHANGED <<docStatus, gmtDeleted, index, tx, req, pass, nextWf>>

-----------------------------------------------------------------------------
ApiStep ==
    \/ \E d \in Docs : CreateDocument(d) \/ UploadDocument(d)
    \/ \E r \in Requests, d \in Docs :
          \/ ConfirmDocument(r, d)
          \/ DeleteDocument(r, d)
          \/ \E types \in SUBSET IndexTypes \ {{}} : RebuildIndexes(r, d, types)
          \/ RebuildFailedIndexes(r, d)
          \/ CleanupExpired(r, d)
    \/ \E r \in Requests : ReadRows(r) \/ CommitRequest(r) \/ RollbackRequest(r)

PassStep(p) ==
    \/ \E d \in Docs : GetIndexesNeedingReconciliation(p, d)
    \/ \E it \in pass[p].todo : SelectIndex(p, it)
    \/ ClaimIndex(p)
    \/ SkipDocument(p)
    \/ ReconcileDocumentOperations(p)
    \/ CommitClaims(p)

TaskStep(k) ==
    \/ ParseSucceeds(k)
    \/ ParseFails(k)
    \/ TriggerIndexTasks(k)
    \/ StartIndexTask(k)
    \/ IndexTaskFails(k)
    \/ OnIndexCreated(k)
    \/ OnIndexDeleted(k)
    \/ \E t \in k.types : OnIndexFailed(k, t)

FaultStep ==
    \/ \E p \in Passes : \/ PassDies(p)
                         \/ \E sent \in {{}, {"create"}, {"create", "update"}} :
                               DispatchFails(p, sent)
    \/ \E i \in Index : CallbackLost(i)
    \/ \E k \in tasks : TaskLost(k) \/ TaskRedelivered(k)

Next ==
    \/ ApiStep
    \/ \E p \in Passes : PassStep(p)
    \/ \E k \in tasks : TaskStep(k)
    \/ \E i \in Index : CommitCallback(i)
    \/ FaultStep

Spec == Init /\ [][Next]_vars

\* Fairness: workers take what is queued, retries are finite, transactions
\* end.  Nothing forces a user to send a request.
Fairness ==
    /\ \A r \in Requests : WF_vars(ReadRows(r) \/ CommitRequest(r) \/ RollbackRequest(r))
    /\ \A p \in Passes : WF_vars(PassStep(p))
    /\ \A i \in Index : WF_vars(CommitCallback(i))
    /\ WF_vars(\E k \in tasks : TaskStep(k))

FairSpec == Spec /\ Fairness

-----------------------------------------------------------------------------
(* Properties.                                                              *)

TypeOK ==
    /\ docStatus \in [Docs -> DocumentStatus]
    /\ gmtDeleted \subseteq Docs
    /\ index \in [Index -> Row]
    /\ tx \in [Index -> Tx]
    /\ req \in [Requests -> Request]
    /\ pass \in [Passes -> Pass]
    /\ tasks \subseteq Task
    /\ nextWf \in Nat
    /\ faults \in Nat

\* The moment a success callback turns an index ACTIVE, the version it has
\* observed is the version the row asks for, whatever requests and other
\* callbacks ran since the task was validated (on_index_created).
BecomesActiveUpToDate ==
    [][\A i \in Index :
          index[i].status # "ACTIVE" /\ index'[i].status = "ACTIVE"
             => index'[i].observed = index'[i].version]_vars

\* A deleted document stays DELETED: no callback that read it before the
\* deletion overwrites its status afterwards (_update_document_status).
DeletedStaysDeleted == \A d \in gmtDeleted : docStatus[d] = "DELETED"

\* No index of a deleted document is ever offered for search again.
DeletedIsNotSearchable ==
    \A i \in Index : i[1] \in gmtDeleted => index[i].status # "ACTIVE"

\* However many passes run, the version a row asks for is worked on by at
\* most one create or update workflow (_claim_document_indexes).
WorksOn(k, i) ==
    /\ k.doc = i[1] /\ i[2] \in k.types
    /\ k.action # "delete"
    /\ Present(index[i]) /\ k.context[i[2]] = index[i].version

OneWorkflowPerVersion ==
    \A i \in Index, k, l \in tasks : WorksOn(k, i) /\ WorksOn(l, i) => k.wf = l.wf

\* The failure of a task that worked on an older version leaves the row
\* alone: stale operations are documented to be prevented (on_index_failed).
StaleFailuresIgnored ==
    [][\A k \in tasks : \A t \in k.types :
          /\ k.action # "delete" /\ OnIndexFailed(k, t)
          /\ tx'[<<k.doc, t>>].kind = "failed"
          => k.context[t] = index[<<k.doc, t>>].version]_vars

\* ACTIVE means up to date, as the status is documented.
ActiveIsUpToDate ==
    \A i \in Index : index[i].status = "ACTIVE" => index[i].observed = index[i].version

\* A document all of whose indexes are ACTIVE is COMPLETE once no callback
\* is in the middle of its transaction.
CompleteWhenAllActive ==
    \A d \in Docs :
       LET rows == {i \in Index : i[1] = d /\ Present(index[i])}
       IN  /\ rows # {}
           /\ \A i \in rows : index[i].status = "ACTIVE" /\ ~Held(i)
           => docStatus[d] = "COMPLETE"

\* An index that waits or is being worked on comes to rest, unless something
\* crashed or was lost, after which nobody picks the row up again.
Settled(i) == index[i].status \in {"ACTIVE", "FAILED", "ABSENT"}
EveryIndexSettles == \A i \in Index : []<>(Settled(i) \/ faults > 0)

\* A row is written by the transaction that holds it, and by no other: the
\* parts of RowsHaveOneWriter, on which the properties above rest
\* (_claim_document_indexes and the callbacks of reconciler.py).
ClaimHeld == \A p \in Passes : \A i \in ClaimedBy(p) : tx[i].kind = "claim"

ClaimsDisjoint ==
    \A p, q \in Passes : p # q => ClaimedBy(p) \cap ClaimedBy(q) = {}

\* The row a success callback holds is CREATING at the version it matched.
HeldCreated ==
    \A i \in Index : tx[i].kind = "created" =>
        index[i].status = "CREATING" /\ index[i].version = tx[i].target

\* A document that does not exist has no rows, no callback and no request.
FreshDocument ==
    \A i \in Index : docStatus[i[1]] = "NONE" => ~Present(index[i]) /\ ~Held(i)

RequestsOnDocuments ==
    \A r \in Requests : req[r].pc # "idle" => docStatus[req[r].doc] # "NONE"

NewStatusExists ==
    \A i \in Index : tx[i].kind \in {"created", "failed", "deleted"} => tx[i].new # "NONE"

RowsHaveOneWriter ==
    /\ ClaimHeld /\ ClaimsDisjoint /\ HeldCreated
    /\ FreshDocument /\ RequestsOnDocuments /\ NewStatusExists

=============================================================================
