-------------------------- MODULE LifecycleProofs --------------------------
(***************************************************************************)
(* Theorems about IndexLifecycle, for every set of documents, index types, *)
(* API workers and reconciler passes, and all values of the bounds; and    *)
(* about CollectionLifecycle, for any collections, documents, deletions,   *)
(* limit and retries.                                                      *)
(***************************************************************************)
EXTENDS IndexLifecycle, CollectionLifecycle, FiniteSetTheorems, TLAPS

-----------------------------------------------------------------------------
(* Type correctness.                                                        *)

\* The values the model writes have their types.
LEMMA DefaultsTyped ==
    /\ AnyDoc \in Docs /\ AnyType \in IndexTypes
    /\ NoRow \in Row /\ NoTx \in Tx
    /\ IdleRequest \in Request /\ IdlePass \in Pass
<1>1. AnyDoc \in Docs /\ AnyType \in IndexTypes
  BY ConstantsAssumption DEF AnyDoc, AnyType
<1>2. NoRow \in Row
  BY DEF NoRow, Row
<1>3. NoTx \in Tx
  BY DEF NoTx, Tx, DocumentStatus
<1>4. IdleRequest \in Request
  BY <1>1, <1>2 DEF IdleRequest, Request
<1>5. IdlePass \in Pass
  BY <1>1 DEF IdlePass, Pass, Item, IndexAction
<1> QED BY <1>1, <1>2, <1>3, <1>4, <1>5

LEMMA NewRowTyped == \A entry \in Row : NewRow(entry) \in Row
BY DEF NewRow, Row, IndexStatus

\* Both ORM flushes give a row.
LEMMA FlushTyped ==
    ASSUME NEW seen \in Row, NEW now \in Row
    PROVE  CreateOrUpdate(seen, now) \in Row /\ MarkDeleting(seen, now) \in Row
<1>1. MarkDeleting(seen, now) \in Row
  BY DEF MarkDeleting, Row, IndexStatus
<1>2. CASE Present(seen)
  <2> DEFINE status == IF seen.status = "PENDING" THEN now.status ELSE "PENDING"
             version == seen.version + 1
  <2>1. status \in IndexStatus \cup {"ABSENT"} /\ version \in Nat
    BY DEF Row, IndexStatus
  <2>2. CreateOrUpdate(seen, now) = [now EXCEPT !.status = status, !.version = version]
    BY <1>2 DEF CreateOrUpdate
  <2> HIDE DEF status, version
  <2>3. [now EXCEPT !.status = status, !.version = version] \in Row
    BY <2>1 DEF Row
  <2> QED BY <1>1, <2>2, <2>3
<1>3. CASE ~Present(seen)
  BY <1>1, <1>3, NewRowTyped DEF CreateOrUpdate
<1> QED BY <1>2, <1>3

\* A retried task is a task.
LEMMA RetryTyped ==
    ASSUME NEW k \in Task PROVE Retry(k) \subseteq Task
<1>1. CASE k.attempt < MaxRetries
  <2>1. [k EXCEPT !.attempt = k.attempt + 1, !.pc = "queued"] \in Task
    <3> DEFINE attempt == k.attempt + 1
    <3>1. attempt \in Nat
      BY DEF Task
    <3> HIDE DEF attempt
    <3>2. [k EXCEPT !.attempt = attempt, !.pc = "queued"] \in Task
      BY <3>1 DEF Task
    <3> QED BY <3>2 DEF attempt
  <2> QED BY <1>1, <2>1 DEF Retry
<1>2. CASE ~(k.attempt < MaxRetries)
  <2>1. [k EXCEPT !.pc = "failing"] \in Task
    BY DEF Task
  <2> QED BY <1>2, <2>1 DEF Retry
<1> QED BY <1>1, <1>2

\* What a claimed batch is sent as is a task.
LEMMA WorkflowTyped ==
    ASSUME TypeOK, NEW p \in Passes, NEW a \in IndexAction
    PROVE  Workflow(p, a) \in Task
<1>1. pass[p] \in Pass
  BY DEF TypeOK
<1>2. Batch(p, a) \subseteq Claim
  BY <1>1 DEF Batch, Pass
<1>3. {c.type : c \in Batch(p, a)} \subseteq IndexTypes
  BY <1>2 DEF Claim
<1>4. ASSUME NEW t \in IndexTypes
      PROVE  (IF \E c \in Batch(p, a) : c.type = t
              THEN (CHOOSE c \in Batch(p, a) : c.type = t).target ELSE 0) \in Nat
  <2>1. CASE \E c \in Batch(p, a) : c.type = t
    <3>1. (CHOOSE c \in Batch(p, a) : c.type = t) \in Batch(p, a)
      BY <2>1
    <3> QED BY <3>1, <2>1, <1>2 DEF Claim
  <2>2. CASE ~ \E c \in Batch(p, a) : c.type = t
    BY <2>2
  <2> QED BY <2>1, <2>2
<1>5. nextWf \in Nat /\ pass[p].doc \in Docs
  BY <1>1 DEF TypeOK, Pass
<1> QED BY <1>3, <1>4, <1>5 DEF Workflow, Task, IndexAction

\* Every field an action rewrites keeps its type; one step per action.
LEMMA ApiTyped == TypeOK /\ ApiStep => TypeOK'
<1> SUFFICES ASSUME TypeOK, ApiStep PROVE TypeOK'
  OBVIOUS
<1> USE DEF TypeOK
<1>1. ASSUME NEW d \in Docs, CreateDocument(d)
      PROVE  TypeOK'
  <2>1. docStatus' \in [Docs -> DocumentStatus]
    BY <1>1 DEF CreateDocument, DocumentStatus
  <2>2. index' \in [Index -> Row]
    BY <1>1, NewRowTyped DEF CreateDocument
  <2> QED BY <1>1, <2>1, <2>2 DEF CreateDocument
<1>2. ASSUME NEW d \in Docs, UploadDocument(d)
      PROVE  TypeOK'
  <2>1. docStatus' \in [Docs -> DocumentStatus]
    BY <1>2 DEF UploadDocument, DocumentStatus
  <2> QED BY <1>2, <2>1 DEF UploadDocument
<1>3. ASSUME NEW r \in Requests, NEW d \in Docs, NEW types \in SUBSET IndexTypes,
             NEW op \in {"confirm", "delete", "rebuild", "rebuild_failed", "expire"},
             BeginRequest(r, op, d, types)
      PROVE  TypeOK'
  <2>1. [pc |-> "begun", op |-> op, doc |-> d, types |-> types,
         seen |-> [t \in IndexTypes |-> NoRow]] \in Request
    BY DefaultsTyped DEF Request
  <2>2. req' \in [Requests -> Request]
    BY <1>3, <2>1 DEF BeginRequest
  <2> QED BY <1>3, <2>2 DEF BeginRequest
<1>4. ASSUME NEW r \in Requests, ReadRows(r)
      PROVE  TypeOK'
  <2> DEFINE seen == [t \in IndexTypes |-> index[<<req[r].doc, t>>]]
  <2>1. seen \in [IndexTypes -> Row]
    BY DEF Request, Index
  <2>2. req' = [req EXCEPT ![r] = [req[r] EXCEPT !.pc = "read", !.seen = seen]]
    BY <1>4 DEF ReadRows
  <2> HIDE DEF seen
  <2>3. [req[r] EXCEPT !.pc = "read", !.seen = seen] \in Request
    BY <2>1 DEF Request
  <2>4. req' \in [Requests -> Request]
    BY <2>2, <2>3
  <2> QED BY <1>4, <2>4 DEF ReadRows
<1>5. ASSUME NEW r \in Requests, CommitRequest(r)
      PROVE  TypeOK'
  <2> DEFINE q == req[r]
             write(t) == IF q.op = "delete"
                         THEN MarkDeleting(q.seen[t], index[<<q.doc, t>>])
                         ELSE CreateOrUpdate(q.seen[t], index[<<q.doc, t>>])
  <2>1. \A t \in IndexTypes : write(t) \in Row
    <3> TAKE t \in IndexTypes
    <3>1. q.seen[t] \in Row /\ index[<<q.doc, t>>] \in Row
      BY DEF Request, Index
    <3> QED BY <3>1, FlushTyped
  <2>2. index' \in [Index -> Row]
    <3>1. index' = [i \in Index |-> IF i[1] = q.doc /\ i[2] \in Touched(r)
                                    THEN write(i[2]) ELSE index[i]]
      BY <1>5 DEF CommitRequest
    <3>2. \A i \in Index : i[2] \in IndexTypes
      BY DEF Index
    <3> HIDE DEF write
    <3> QED BY <2>1, <3>1, <3>2
  <2>3. docStatus' \in [Docs -> DocumentStatus]
    <3>1. docStatus' = [docStatus EXCEPT ![q.doc] = StatusAfter(q.op, docStatus[q.doc])]
      BY <1>5 DEF CommitRequest
    <3> QED BY <3>1 DEF StatusAfter, DocumentStatus
  <2>4. gmtDeleted' \subseteq Docs
    BY <1>5 DEF CommitRequest, Request
  <2>5. req' \in [Requests -> Request]
    BY <1>5, DefaultsTyped DEF CommitRequest
  <2> QED BY <1>5, <2>2, <2>3, <2>4, <2>5 DEF CommitRequest
<1>6. ASSUME NEW r \in Requests, RollbackRequest(r)
      PROVE  TypeOK'
  BY <1>6, DefaultsTyped DEF RollbackRequest
<1> QED
  BY <1>1, <1>2, <1>3, <1>4, <1>5, <1>6, ConstantsAssumption
  DEF ApiStep, ConfirmDocument, DeleteDocument, RebuildIndexes,
      RebuildFailedIndexes, CleanupExpired

LEMMA ReleasedTyped ==
    ASSUME TypeOK, NEW p \in Passes PROVE Released(p) \in [Index -> Tx]
BY DefaultsTyped DEF TypeOK, Released

LEMMA PassTyped ==
    ASSUME TypeOK, NEW p \in Passes, PassStep(p) PROVE TypeOK'
<1> USE DEF TypeOK
<1>1. ASSUME NEW d \in Docs, GetIndexesNeedingReconciliation(p, d)
      PROVE  TypeOK'
  <2> DEFINE found == {it \in [type : IndexTypes, id : {index[<<d, t>>].id : t \in IndexTypes},
                               action : IndexAction] :
                          /\ it.id = index[<<d, it.type>>].id
                          /\ Needs(index[<<d, it.type>>], it.action)}
             new == [IdlePass EXCEPT !.pc = "ready", !.doc = d, !.todo = found]
  <2>1. found \subseteq Item
    <3>1. \A t \in IndexTypes : index[<<d, t>>].id \in Nat
      BY DEF Index, Row
    <3> QED BY <3>1 DEF Item
  <2>2. pass' = [pass EXCEPT ![p] = new]
    BY <1>1 DEF GetIndexesNeedingReconciliation
  <2> HIDE DEF found
  <2>3. new \in Pass
    BY <2>1, DefaultsTyped DEF Pass
  <2> HIDE DEF new
  <2>4. pass' \in [Passes -> Pass]
    BY <2>2, <2>3
  <2> QED BY <1>1, <2>4 DEF GetIndexesNeedingReconciliation
<1>2. ASSUME NEW it \in pass[p].todo, SelectIndex(p, it)
      PROVE  TypeOK'
  <2> DEFINE entry == index[<<pass[p].doc, it.type>>]
             todo == pass[p].todo \ {it}
             target == entry.version
  <2>1. it \in Item /\ todo \subseteq Item
    BY DEF Pass
  <2>2. target \in Nat
    BY <2>1 DEF Pass, Item, Index, Row
  <2>3. pass' = [pass EXCEPT ![p] =
                    IF Present(entry) /\ entry.id = it.id
                    THEN [pass[p] EXCEPT !.pc = "selected", !.todo = todo,
                                         !.cur = it, !.target = target]
                    ELSE [pass[p] EXCEPT !.todo = todo]]
    BY <1>2 DEF SelectIndex
  <2> HIDE DEF entry, todo, target
  <2>4. [pass[p] EXCEPT !.pc = "selected", !.todo = todo, !.cur = it,
                        !.target = target] \in Pass
    BY <2>1, <2>2 DEF Pass
  <2>5. [pass[p] EXCEPT !.todo = todo] \in Pass
    BY <2>1 DEF Pass
  <2>6. pass' \in [Passes -> Pass]
    BY <2>3, <2>4, <2>5
  <2> QED BY <1>2, <2>6 DEF SelectIndex
<1>3. ASSUME ClaimIndex(p)
      PROVE  TypeOK'
  <2> DEFINE it == pass[p].cur
             i == <<pass[p].doc, it.type>>
             won == ClaimMatches(index[i], it)
             target == IF it.action = "delete" THEN 0 ELSE pass[p].target
             claim == [type |-> it.type, action |-> it.action, target |-> target]
             claimed == IF won THEN pass[p].claimed \cup {claim} ELSE pass[p].claimed
  <2>1. claim \in Claim
    BY DEF Pass, Item, Claim
  <2>2. claimed \subseteq Claim
    BY <2>1 DEF Pass
  <2>3. pass' = [pass EXCEPT ![p] = [pass[p] EXCEPT !.pc = "ready", !.claimed = claimed]]
    BY <1>3 DEF ClaimIndex
  <2>4. [NoTx EXCEPT !.kind = "claim"] \in Tx
    BY DefaultsTyped DEF Tx
  <2>5. tx' \in [Index -> Tx]
    BY <1>3, <2>4 DEF ClaimIndex
  <2> HIDE DEF claimed
  <2>6. [pass[p] EXCEPT !.pc = "ready", !.claimed = claimed] \in Pass
    BY <2>2 DEF Pass
  <2>7. pass' \in [Passes -> Pass]
    BY <2>3, <2>6
  <2> QED BY <1>3, <2>5, <2>7 DEF ClaimIndex
<1>4. ASSUME SkipDocument(p)
      PROVE  TypeOK'
  BY <1>4, DefaultsTyped DEF SkipDocument
<1>5. ASSUME ReconcileDocumentOperations(p)
      PROVE  TypeOK'
  <2>1. Actions(p) \subseteq IndexAction
    BY DEF Actions, Pass, Claim
  <2>2. tasks' \subseteq Task
    BY <1>5, <2>1, WorkflowTyped DEF ReconcileDocumentOperations
  <2>3. [pass[p] EXCEPT !.pc = "dispatched"] \in Pass
    BY DEF Pass
  <2>4. pass' \in [Passes -> Pass]
    BY <1>5, <2>3 DEF ReconcileDocumentOperations
  <2> QED BY <1>5, <2>2, <2>4 DEF ReconcileDocumentOperations
<1>6. ASSUME CommitClaims(p)
      PROVE  TypeOK'
  <2>2. \A c : \A entry \in Row : [entry EXCEPT !.status = ClaimedStatus(c.action)] \in Row
    BY DEF Row, ClaimedStatus, IndexStatus
  <2>3. index' \in [Index -> Row]
    BY <1>6, <2>2 DEF CommitClaims
  <2>4. tx' \in [Index -> Tx]
    BY <1>6, ReleasedTyped DEF CommitClaims
  <2> QED BY <1>6, <2>3, <2>4, DefaultsTyped DEF CommitClaims
<1> QED
  BY <1>1, <1>2, <1>3, <1>4, <1>5, <1>6 DEF PassStep

\* The status the callbacks compute is a document status.
LEMMA StatusTyped ==
    ASSUME TypeOK, NEW d \in Docs, NEW i, NEW s
    PROVE  UpdateDocumentStatus(d, i, s) \in DocumentStatus \ {"NONE"}
             \/ UpdateDocumentStatus(d, i, s) = docStatus[d]
BY DEF TypeOK, UpdateDocumentStatus, OverallIndexStatus, DocumentStatus

LEMMA CallbackTyped ==
    ASSUME TypeOK, NEW i \in Index, NEW k \in Task, NEW kind \in {"created", "failed", "deleted"},
           NEW target \in Nat, NEW s, NEW matched, OpenCallback(i, k, kind, target, s, matched)
    PROVE  tx' \in [Index -> Tx]
<1> DEFINE new == UpdateDocumentStatus(k.doc, i, s)
           held == [kind |-> kind, wf |-> k.wf, target |-> target,
                    seen |-> docStatus[k.doc], new |-> new]
<1>1. k.wf \in Nat /\ k.doc \in Docs
  BY DEF Task
<1>2. docStatus[k.doc] \in DocumentStatus /\ new \in DocumentStatus
  BY <1>1, StatusTyped DEF TypeOK
<1>3. tx' = IF matched THEN [tx EXCEPT ![i] = held] ELSE tx
  BY DEF OpenCallback
<1> HIDE DEF new
<1>4. held \in Tx
  BY <1>1, <1>2 DEF Tx
<1> HIDE DEF held
<1> QED BY <1>3, <1>4 DEF TypeOK

LEMMA TaskTyped ==
    ASSUME TypeOK, NEW k \in tasks, TaskStep(k) PROVE TypeOK'
<1> USE DEF TypeOK, Rest
<1>k. k \in Task
  OBVIOUS
<1>1. CASE ParseSucceeds(k)
  <2>1. [k EXCEPT !.kind = "trigger", !.attempt = 0] \in Task
    BY <1>k DEF Task
  <2> QED BY <1>1, <2>1 DEF ParseSucceeds
<1>2. CASE ParseFails(k)
  BY <1>2, <1>k, RetryTyped DEF ParseFails
<1>3. CASE TriggerIndexTasks(k)
  <2>1. \A t \in k.types : [k EXCEPT !.kind = "index", !.types = {t}] \in Task
    BY <1>k DEF Task
  <2> QED BY <1>3, <2>1 DEF TriggerIndexTasks
<1>4. CASE StartIndexTask(k)
  <2>1. [k EXCEPT !.pc = "running"] \in Task
    BY <1>k DEF Task
  <2> QED BY <1>4, <1>k, <2>1, RetryTyped DEF StartIndexTask
<1>5. CASE IndexTaskFails(k)
  BY <1>5, <1>k, RetryTyped DEF IndexTaskFails
<1>6. ASSUME NEW i, NEW kind \in {"created", "failed", "deleted"},
             NEW target \in Nat, NEW s, NEW matched,
             OpenCallback(i, k, kind, target, s, matched)
      PROVE  tx' \in [Index -> Tx]
  <2>1. CASE i \in Index
    BY <2>1, <1>6, <1>k, CallbackTyped
  <2>2. CASE i \notin Index
    BY <2>2, <1>6 DEF OpenCallback
  <2> QED BY <2>1, <2>2
<1>7. CASE OnIndexCreated(k)
  <2> DEFINE target == k.context[TypeOf(k)]
             i == IndexOf(k)
  <2>0. OpenCallback(i, k, "created", target, "ACTIVE", CreatedMatches(index[i], target))
    BY <1>7 DEF OnIndexCreated
  <2>1. CASE i \in Index
    <3>1. target \in Nat
      BY <1>k, <2>1 DEF Task, Index, IndexOf
    <3>2. tx' \in [Index -> Tx]
      BY <2>0, <3>1, <1>6
    <3> QED BY <1>7, <3>2 DEF OnIndexCreated, OpenCallback
  <2>2. CASE i \notin Index
    BY <2>2, <1>7 DEF OnIndexCreated, OpenCallback
  <2> QED BY <2>1, <2>2
<1>8. CASE OnIndexDeleted(k)
  <2>1. tx' \in [Index -> Tx]
    BY <1>8, <1>6 DEF OnIndexDeleted
  <2> QED BY <1>8, <2>1 DEF OnIndexDeleted, OpenCallback
<1>9. ASSUME NEW t \in k.types, OnIndexFailed(k, t)
      PROVE  TypeOK'
  <2>1. tx' \in [Index -> Tx]
    BY <1>9, <1>6 DEF OnIndexFailed
  <2>2. [k EXCEPT !.types = k.types \ {t}] \in Task
    BY <1>k DEF Task
  <2>3. tasks' \subseteq Task
    BY <1>9, <2>2 DEF OnIndexFailed
  <2> QED BY <1>9, <2>1, <2>3 DEF OnIndexFailed, OpenCallback
<1> QED
  BY <1>1, <1>2, <1>3, <1>4, <1>5, <1>7, <1>8, <1>9 DEF TaskStep

LEMMA CommitTyped ==
    ASSUME TypeOK, NEW i \in Index, CommitCallback(i) PROVE TypeOK'
<1> USE DEF TypeOK
<1>1. tx[i] \in Tx /\ index[i] \in Row
  OBVIOUS
<1>2. Written(tx[i], index[i]) \in Row
  <2>1. [NoRow EXCEPT !.id = index[i].id] \in Row
    BY <1>1 DEF NoRow, Row
  <2>2. [index[i] EXCEPT !.status = "FAILED"] \in Row
    BY <1>1 DEF Row, IndexStatus
  <2>3. [index[i] EXCEPT !.status = "ACTIVE", !.observed = tx[i].target] \in Row
    <3> DEFINE target == tx[i].target
    <3>1. target \in Nat
      BY <1>1 DEF Tx
    <3> HIDE DEF target
    <3>2. [index[i] EXCEPT !.status = "ACTIVE", !.observed = target] \in Row
      BY <1>1, <3>1 DEF Row, IndexStatus
    <3> QED BY <3>2 DEF target
  <2> QED BY <2>1, <2>2, <2>3 DEF Written
<1>3. index' \in [Index -> Row]
  BY <1>2 DEF CommitCallback
<1>4. docStatus' \in [Docs -> DocumentStatus]
  BY <1>1 DEF CommitCallback, Tx
<1>5. tx' \in [Index -> Tx]
  BY DefaultsTyped DEF CommitCallback
<1> QED BY <1>3, <1>4, <1>5 DEF CommitCallback

LEMMA FaultTyped == TypeOK /\ FaultStep => TypeOK'
<1> SUFFICES ASSUME TypeOK, FaultStep PROVE TypeOK'
  OBVIOUS
<1> USE DEF TypeOK, Fault
<1>1. ASSUME NEW p \in Passes, PassDies(p)
      PROVE  TypeOK'
  BY <1>1, DefaultsTyped, ReleasedTyped DEF PassDies
<1>2. ASSUME NEW p \in Passes, NEW sent, DispatchFails(p, sent)
      PROVE  TypeOK'
  <2>1. Actions(p) \subseteq IndexAction
    BY DEF Actions, Pass, Claim
  <2>2. tasks' \subseteq Task
    BY <1>2, <2>1, WorkflowTyped DEF DispatchFails
  <2> QED BY <1>2, <2>2, DefaultsTyped, ReleasedTyped DEF DispatchFails
<1>3. ASSUME NEW i \in Index, CallbackLost(i)
      PROVE  TypeOK'
  BY <1>3, DefaultsTyped DEF CallbackLost
<1>4. ASSUME NEW k \in tasks, TaskLost(k)
      PROVE  TypeOK'
  BY <1>4 DEF TaskLost
<1>5. ASSUME NEW k \in tasks, TaskRedelivered(k)
      PROVE  TypeOK'
  <2> DEFINE copy == k.copy + 1
  <2>1. k \in Task /\ copy \in Nat
    BY DEF Task
  <2>2. tasks' = tasks \cup {[k EXCEPT !.pc = "queued", !.copy = copy]}
    BY <1>5 DEF TaskRedelivered
  <2> HIDE DEF copy
  <2>3. [k EXCEPT !.pc = "queued", !.copy = copy] \in Task
    BY <2>1 DEF Task
  <2> QED BY <1>5, <2>2, <2>3 DEF TaskRedelivered
<1> QED BY <1>1, <1>2, <1>3, <1>4, <1>5 DEF FaultStep

LEMMA TypeInductive == TypeOK /\ [Next]_vars => TypeOK'
<1> SUFFICES ASSUME TypeOK, [Next]_vars PROVE TypeOK'
  OBVIOUS
<1>1. CASE UNCHANGED vars
  BY <1>1 DEF TypeOK, vars
<1> QED
  BY <1>1, ApiTyped, PassTyped, TaskTyped, CommitTyped, FaultTyped DEF Next

\* Every variable keeps its type: an action may index a row by the document
\* and type it carries only because of this (all actions of Next).
THEOREM TypeCorrect == Spec => []TypeOK
<1>1. Init => TypeOK
  BY DefaultsTyped DEF Init, TypeOK, DocumentStatus
<1> QED BY <1>1, TypeInductive, PTL DEF Spec

-----------------------------------------------------------------------------
(* A row is written by the transaction that holds it, and by no other.      *)

Inv == TypeOK /\ RowsHaveOneWriter

\* Steps that leave the rows, their holders, the documents' statuses and the
\* claims alone preserve the invariant.
LEMMA FrameInv ==
    ASSUME RowsHaveOneWriter, UNCHANGED <<index, tx, docStatus, req>>,
           \A p \in Passes : ClaimedBy(p)' \subseteq ClaimedBy(p)
    PROVE  RowsHaveOneWriter'
BY DEF RowsHaveOneWriter, ClaimHeld, ClaimsDisjoint, HeldCreated, FreshDocument,
       RequestsOnDocuments, NewStatusExists, Present, Held

LEMMA ClaimedInIndex ==
    ASSUME TypeOK, NEW p \in Passes PROVE ClaimedBy(p) \subseteq Index
<1>1. pass[p] \in Pass
  BY DEF TypeOK
<1>2. pass[p].doc \in Docs /\ \A c \in pass[p].claimed : c.type \in IndexTypes
  BY <1>1 DEF Pass, Claim
<1> QED BY <1>2 DEF ClaimedBy, Index

LEMMA NewRowPending ==
    \A entry \in Row : NewRow(entry).status = "PENDING"
BY DEF NewRow

LEMMA ApiInv == Inv /\ ApiStep => RowsHaveOneWriter'
<1> SUFFICES ASSUME Inv, ApiStep PROVE RowsHaveOneWriter'
  OBVIOUS
<1> USE DEF Inv
<1>1. ASSUME NEW d \in Docs, CreateDocument(d)
      PROVE  RowsHaveOneWriter'
  <2>1. docStatus' = [docStatus EXCEPT ![d] = "PENDING"] /\ docStatus[d] = "NONE"
    BY <1>1 DEF CreateDocument
  <2>2. \A i \in Index : i[1] # d => index'[i] = index[i]
    BY <1>1 DEF CreateDocument
  <2>3. \A i \in Index : i[1] = d => ~Held(i)
    BY <2>1 DEF RowsHaveOneWriter, FreshDocument
  <2>4. UNCHANGED <<tx, req, pass>>
    BY <1>1 DEF CreateDocument
  <2>5. ClaimHeld' /\ ClaimsDisjoint' /\ NewStatusExists'
    BY <2>4 DEF RowsHaveOneWriter, ClaimHeld, ClaimsDisjoint, NewStatusExists, ClaimedBy
  <2>6. HeldCreated'
    BY <2>2, <2>3, <2>4 DEF RowsHaveOneWriter, HeldCreated, Held
  <2>7. FreshDocument'
    BY <2>1, <2>2, <2>4 DEF RowsHaveOneWriter, FreshDocument, Held, Present, TypeOK, Index
  <2>8. RequestsOnDocuments'
    BY <2>1, <2>4 DEF RowsHaveOneWriter, RequestsOnDocuments, TypeOK
  <2> QED BY <2>5, <2>6, <2>7, <2>8 DEF RowsHaveOneWriter
<1>2. ASSUME NEW d \in Docs, UploadDocument(d)
      PROVE  RowsHaveOneWriter'
  BY <1>2 DEF UploadDocument, RowsHaveOneWriter, ClaimHeld, ClaimsDisjoint, HeldCreated,
              FreshDocument, RequestsOnDocuments, NewStatusExists, Held, Present,
              TypeOK, Index, ClaimedBy
<1>3. ASSUME NEW r \in Requests, NEW op, NEW d \in Docs, NEW types,
             BeginRequest(r, op, d, types), docStatus[d] # "NONE"
      PROVE  RowsHaveOneWriter'
  BY <1>3 DEF BeginRequest, RowsHaveOneWriter, ClaimHeld, ClaimsDisjoint, HeldCreated,
              FreshDocument, RequestsOnDocuments, NewStatusExists, Held, Present,
              TypeOK, ClaimedBy
<1>4. ASSUME NEW r \in Requests, ReadRows(r)
      PROVE  RowsHaveOneWriter'
  <2>1. \A s \in Requests : req'[s].doc = req[s].doc /\ (req[s].pc = "idle" <=> req'[s].pc = "idle")
    BY <1>4 DEF ReadRows, TypeOK, Request
  <2>2. RequestsOnDocuments'
    BY <1>4, <2>1 DEF ReadRows, RowsHaveOneWriter, RequestsOnDocuments
  <2> QED
    BY <1>4, <2>2 DEF ReadRows, RowsHaveOneWriter, ClaimHeld, ClaimsDisjoint, HeldCreated,
              FreshDocument, NewStatusExists, Held, Present, ClaimedBy
<1>5. ASSUME NEW r \in Requests, CommitRequest(r)
      PROVE  RowsHaveOneWriter'
  <2> DEFINE d == req[r].doc
  <2>1. d \in Docs /\ docStatus[d] # "NONE"
    BY <1>5 DEF CommitRequest, RowsHaveOneWriter, RequestsOnDocuments, TypeOK, Request
  <2>2. docStatus' = [docStatus EXCEPT ![d] = StatusAfter(req[r].op, docStatus[d])]
    BY <1>5 DEF CommitRequest
  <2>3. \A e \in Docs : docStatus'[e] = "NONE" <=> docStatus[e] = "NONE"
    BY <2>1, <2>2 DEF StatusAfter, TypeOK
  <2>4. \A i \in Index : i[1] # d \/ Held(i) => index'[i] = index[i]
    <3> TAKE i \in Index
    <3>1. i = <<i[1], i[2]>>
      BY DEF Index
    <3>2. \A t \in Touched(r) : ~Held(<<d, t>>)
      BY <1>5 DEF CommitRequest
    <3> QED BY <1>5, <3>1, <3>2 DEF CommitRequest
  <2>5. UNCHANGED <<tx, pass>> /\ req' = [req EXCEPT ![r] = IdleRequest]
    BY <1>5 DEF CommitRequest
  <2>6. ClaimHeld' /\ ClaimsDisjoint' /\ NewStatusExists'
    BY <2>5 DEF RowsHaveOneWriter, ClaimHeld, ClaimsDisjoint, NewStatusExists, ClaimedBy
  <2>7. HeldCreated'
    BY <2>4, <2>5 DEF RowsHaveOneWriter, HeldCreated, Held
  <2>8. FreshDocument'
    BY <2>1, <2>3, <2>4, <2>5 DEF RowsHaveOneWriter, FreshDocument, Held, Present, Index
  <2>9. RequestsOnDocuments'
    BY <2>3, <2>5 DEF RowsHaveOneWriter, RequestsOnDocuments, TypeOK, Request, IdleRequest
  <2> QED BY <2>6, <2>7, <2>8, <2>9 DEF RowsHaveOneWriter
<1>6. ASSUME NEW r \in Requests, RollbackRequest(r)
      PROVE  RowsHaveOneWriter'
  BY <1>6 DEF RollbackRequest, RowsHaveOneWriter, ClaimHeld, ClaimsDisjoint, HeldCreated,
              FreshDocument, RequestsOnDocuments, NewStatusExists, Held, Present,
              TypeOK, ClaimedBy, IdleRequest
<1> QED
  BY <1>1, <1>2, <1>3, <1>4, <1>5, <1>6
  DEF ApiStep, ConfirmDocument, DeleteDocument, RebuildIndexes,
      RebuildFailedIndexes, CleanupExpired, QueryDocument

\* A pass that ends takes its claims, and only them, off the rows.
LEMMA ReleaseInv ==
    ASSUME Inv, NEW p \in Passes, tx' = Released(p), pass' = [pass EXCEPT ![p] = IdlePass],
           UNCHANGED <<docStatus, req>>,
           \A i \in Index \ ClaimedBy(p) : index'[i] = index[i],
           \A i \in ClaimedBy(p) : docStatus[i[1]] = "NONE" => index'[i] = index[i]
    PROVE  RowsHaveOneWriter'
<1> USE DEF Inv, RowsHaveOneWriter
<1>1. ClaimedBy(p)' = {} /\ \A q \in Passes : q # p => ClaimedBy(q)' = ClaimedBy(q)
  BY DEF ClaimedBy, IdlePass, TypeOK
<1>2. \A i \in Index : tx'[i] = IF i \in ClaimedBy(p) THEN NoTx ELSE tx[i]
  BY DEF Released
<1>3. ClaimHeld'
  <2> SUFFICES ASSUME NEW q \in Passes, NEW i \in ClaimedBy(q)' PROVE tx'[i].kind = "claim"
    BY DEF ClaimHeld
  <2>1. q # p /\ i \in ClaimedBy(q)
    BY <1>1
  <2>2. i \in Index /\ i \notin ClaimedBy(p)
    BY <2>1, ClaimedInIndex DEF ClaimsDisjoint
  <2> QED BY <2>1, <2>2, <1>2 DEF ClaimHeld
<1>4. ClaimsDisjoint'
  BY <1>1 DEF ClaimsDisjoint
<1>5. HeldCreated'
  BY <1>2 DEF HeldCreated, NoTx
<1>6. FreshDocument'
  BY <1>2 DEF FreshDocument, Held, Present, NoTx
<1>7. NewStatusExists'
  BY <1>2 DEF NewStatusExists, NoTx
<1>8. RequestsOnDocuments'
  BY DEF RequestsOnDocuments
<1> QED BY <1>3, <1>4, <1>5, <1>6, <1>7, <1>8

LEMMA PassInv ==
    ASSUME Inv, NEW p \in Passes, PassStep(p) PROVE RowsHaveOneWriter'
<1> USE DEF Inv
<1>0. pass \in [Passes -> Pass] /\ pass[p] \in Pass
  BY DEF TypeOK
<1>1. ASSUME NEW d \in Docs, GetIndexesNeedingReconciliation(p, d)
      PROVE  RowsHaveOneWriter'
  <2>1. \A q \in Passes : ClaimedBy(q)' \subseteq ClaimedBy(q)
    BY <1>1, <1>0 DEF GetIndexesNeedingReconciliation, ClaimedBy, IdlePass
  <2> QED BY <1>1, <2>1, FrameInv DEF GetIndexesNeedingReconciliation
<1>2. ASSUME NEW it \in pass[p].todo, SelectIndex(p, it)
      PROVE  RowsHaveOneWriter'
  <2>1. \A q \in Passes : pass'[q].claimed = pass[q].claimed /\ pass'[q].doc = pass[q].doc
    BY <1>2, <1>0 DEF SelectIndex, Pass
  <2>2. \A q \in Passes : ClaimedBy(q)' \subseteq ClaimedBy(q)
    BY <2>1 DEF ClaimedBy
  <2> QED BY <1>2, <2>2, FrameInv DEF SelectIndex
<1>3. ASSUME ClaimIndex(p)
      PROVE  RowsHaveOneWriter'
  <2> DEFINE it == pass[p].cur
             i == <<pass[p].doc, it.type>>
  <2>1. /\ i \in Index /\ UNCHANGED <<index, docStatus, req>>
        /\ ClaimMatches(index[i], it) => ~Held(i)
    BY <1>3, <1>0 DEF ClaimIndex, Pass, Item, Index
  <2>2. CASE ~ClaimMatches(index[i], it)
    <3>1. \A q \in Passes : pass'[q].claimed = pass[q].claimed /\ pass'[q].doc = pass[q].doc
      BY <1>3, <1>0, <2>2 DEF ClaimIndex, Pass
    <3>2. \A q \in Passes : ClaimedBy(q)' \subseteq ClaimedBy(q)
      BY <3>1 DEF ClaimedBy
    <3>3. tx' = tx
      BY <1>3, <2>2 DEF ClaimIndex
    <3> QED BY <2>1, <3>2, <3>3, FrameInv
  <2>3. CASE ClaimMatches(index[i], it)
    <3>1. tx' = [tx EXCEPT ![i] = [NoTx EXCEPT !.kind = "claim"]]
      BY <1>3, <2>3 DEF ClaimIndex
    <3>2. \A j \in Index : tx'[j].kind = IF j = i THEN "claim" ELSE tx[j].kind
      BY <2>1, <3>1 DEF TypeOK, NoTx
    <3>3. ClaimedBy(p)' \subseteq ClaimedBy(p) \cup {i}
      BY <1>3, <1>0, <2>3 DEF ClaimIndex, ClaimedBy, Pass
    <3>4. \A q \in Passes : q # p => ClaimedBy(q)' = ClaimedBy(q)
      BY <1>3 DEF ClaimIndex, ClaimedBy, TypeOK
    <3>5. \A q \in Passes : i \notin ClaimedBy(q)
      BY <2>1, <2>3 DEF RowsHaveOneWriter, ClaimHeld, Held
    <3>6. ClaimHeld'
      <4> SUFFICES ASSUME NEW q \in Passes, NEW j \in ClaimedBy(q)' PROVE tx'[j].kind = "claim"
        BY DEF ClaimHeld
      <4>1. CASE j = i
        BY <4>1, <2>1, <3>2
      <4>2. CASE j # i
        <5>1. j \in ClaimedBy(q) /\ j \in Index
          BY <4>2, <3>3, <3>4, ClaimedInIndex
        <5> QED BY <5>1, <4>2, <3>2 DEF RowsHaveOneWriter, ClaimHeld
      <4> QED BY <4>1, <4>2
    <3>7. ClaimsDisjoint'
      BY <3>3, <3>4, <3>5 DEF RowsHaveOneWriter, ClaimsDisjoint
    <3>8. HeldCreated'
      BY <2>1, <3>1, <3>2 DEF RowsHaveOneWriter, HeldCreated, TypeOK
    <3>9. FreshDocument'
      <4>1. Present(index[i])
        BY <2>3 DEF ClaimMatches, Needs, Present
      <4>2. docStatus[i[1]] # "NONE"
        BY <2>1, <4>1 DEF RowsHaveOneWriter, FreshDocument
      <4> QED BY <2>1, <3>2, <4>2 DEF RowsHaveOneWriter, FreshDocument, Held, Present
    <3>10. NewStatusExists'
      BY <2>1, <3>1, <3>2 DEF RowsHaveOneWriter, NewStatusExists, TypeOK
    <3>11. RequestsOnDocuments'
      BY <2>1 DEF RowsHaveOneWriter, RequestsOnDocuments
    <3> QED BY <3>6, <3>7, <3>8, <3>9, <3>10, <3>11 DEF RowsHaveOneWriter
  <2> QED BY <2>2, <2>3
<1>4. ASSUME SkipDocument(p)
      PROVE  RowsHaveOneWriter'
  <2>1. \A q \in Passes : ClaimedBy(q)' \subseteq ClaimedBy(q)
    BY <1>4, <1>0 DEF SkipDocument, ClaimedBy, IdlePass
  <2> QED BY <1>4, <2>1, FrameInv DEF SkipDocument
<1>5. ASSUME ReconcileDocumentOperations(p)
      PROVE  RowsHaveOneWriter'
  <2>1. \A q \in Passes : pass'[q].claimed = pass[q].claimed /\ pass'[q].doc = pass[q].doc
    BY <1>5, <1>0 DEF ReconcileDocumentOperations, Pass
  <2>2. \A q \in Passes : ClaimedBy(q)' \subseteq ClaimedBy(q)
    BY <2>1 DEF ClaimedBy
  <2> QED BY <1>5, <2>2, FrameInv DEF ReconcileDocumentOperations
<1>6. ASSUME CommitClaims(p)
      PROVE  RowsHaveOneWriter'
  <2>1. \A i \in ClaimedBy(p) : i \in Index /\ docStatus[i[1]] # "NONE"
    BY ClaimedInIndex DEF RowsHaveOneWriter, ClaimHeld, FreshDocument, Held
  <2>2. \A i \in Index \ ClaimedBy(p) : index'[i] = index[i]
    BY <1>6 DEF CommitClaims
  <2> QED BY <1>6, <2>1, <2>2, ReleaseInv DEF CommitClaims
<1> QED BY <1>1, <1>2, <1>3, <1>4, <1>5, <1>6 DEF PassStep

LEMMA OpenInv ==
    ASSUME Inv, NEW k \in tasks, NEW t, NEW kind \in {"created", "failed", "deleted"},
           NEW target, NEW s, NEW matched, matched \in BOOLEAN,
           OpenCallback(<<k.doc, t>>, k, kind, target, s, matched),
           matched => Present(index[<<k.doc, t>>]),
           matched /\ kind = "created" => CreatedMatches(index[<<k.doc, t>>], target)
    PROVE  RowsHaveOneWriter'
<1> USE DEF Inv
<1> DEFINE i == <<k.doc, t>>
<1>0. UNCHANGED <<index, docStatus, req, pass>> /\ (matched => ~Held(i))
  BY DEF OpenCallback, Rest
<1>1. \A q \in Passes : ClaimedBy(q)' = ClaimedBy(q)
  BY <1>0 DEF ClaimedBy
<1>2. CASE ~matched \/ i \notin Index
  <2>1. tx' = tx
    BY <1>2 DEF OpenCallback, TypeOK
  <2> QED BY <2>1, <1>0, <1>1, FrameInv
<1>3. CASE matched /\ i \in Index
  <2> DEFINE new == UpdateDocumentStatus(k.doc, i, s)
  <2>1. tx' = [tx EXCEPT ![i] = [kind |-> kind, wf |-> k.wf, target |-> target,
                                 seen |-> docStatus[k.doc], new |-> new]]
    BY <1>3 DEF OpenCallback
  <2>2. k.doc \in Docs /\ docStatus[k.doc] # "NONE"
    BY <1>3 DEF RowsHaveOneWriter, FreshDocument, TypeOK, Task
  <2>3. new # "NONE"
    BY <2>2, StatusTyped
  <2> HIDE DEF new
  <2>4. \A q \in Passes : i \notin ClaimedBy(q)
    BY <1>0, <1>3 DEF RowsHaveOneWriter, ClaimHeld, Held
  <2>5. ClaimHeld' /\ ClaimsDisjoint'
    BY <1>1, <2>1, <2>4 DEF RowsHaveOneWriter, ClaimHeld, ClaimsDisjoint, TypeOK
  <2>6. HeldCreated'
    BY <1>0, <1>3, <2>1 DEF RowsHaveOneWriter, HeldCreated, CreatedMatches, TypeOK
  <2>7. FreshDocument'
    BY <1>0, <1>3, <2>1, <2>2 DEF RowsHaveOneWriter, FreshDocument, Held, Present, TypeOK
  <2>8. NewStatusExists'
    BY <1>3, <2>1, <2>3 DEF RowsHaveOneWriter, NewStatusExists, TypeOK
  <2>9. RequestsOnDocuments'
    BY <1>0 DEF RowsHaveOneWriter, RequestsOnDocuments
  <2> QED BY <2>5, <2>6, <2>7, <2>8, <2>9 DEF RowsHaveOneWriter
<1> QED BY <1>2, <1>3

LEMMA TaskInv ==
    ASSUME Inv, NEW k \in tasks, TaskStep(k) PROVE RowsHaveOneWriter'
<1> USE DEF Inv
<1>1. CASE UNCHANGED <<Rest, tx>>
  <2>1. \A q \in Passes : ClaimedBy(q)' \subseteq ClaimedBy(q)
    BY <1>1 DEF Rest, ClaimedBy
  <2> QED BY <1>1, <2>1, FrameInv DEF Rest
<1>2. CASE OnIndexCreated(k)
  <2> DEFINE i == IndexOf(k)
             target == k.context[TypeOf(k)]
  <2>1. CreatedMatches(index[i], target) => Present(index[i])
    BY DEF CreatedMatches, Present
  <2>2. OpenCallback(i, k, "created", target, "ACTIVE", CreatedMatches(index[i], target))
    BY <1>2 DEF OnIndexCreated
  <2>3. CreatedMatches(index[i], target) \in BOOLEAN
    BY DEF CreatedMatches
  <2> QED BY <2>1, <2>2, <2>3, OpenInv DEF IndexOf
<1>3. CASE OnIndexDeleted(k)
  <2> DEFINE i == IndexOf(k)
             matched == index[i].status = "DELETION_IN_PROGRESS"
  <2>1. matched => Present(index[i])
    BY DEF Present
  <2>2. OpenCallback(i, k, "deleted", 0, "ABSENT", matched)
    BY <1>3 DEF OnIndexDeleted
  <2>3. matched \in BOOLEAN
    OBVIOUS
  <2> HIDE DEF matched
  <2> QED BY <2>1, <2>2, <2>3, OpenInv DEF IndexOf
<1>4. ASSUME NEW t \in k.types, OnIndexFailed(k, t)
      PROVE  RowsHaveOneWriter'
  <2> DEFINE i == <<k.doc, t>>
             matched == index[i].status \in {"CREATING", "DELETION_IN_PROGRESS"}
  <2>1. matched => Present(index[i])
    BY DEF Present
  <2>2. OpenCallback(i, k, "failed", 0, "FAILED", matched)
    BY <1>4 DEF OnIndexFailed
  <2>3. matched \in BOOLEAN
    OBVIOUS
  <2> HIDE DEF matched
  <2> QED BY <2>1, <2>2, <2>3, OpenInv
<1> QED
  BY <1>1, <1>2, <1>3, <1>4 DEF TaskStep, ParseSucceeds, ParseFails, TriggerIndexTasks,
     StartIndexTask, IndexTaskFails

LEMMA CommitInv ==
    ASSUME Inv, NEW i \in Index, CommitCallback(i) PROVE RowsHaveOneWriter'
<1> USE DEF Inv
<1>1. /\ index' = [index EXCEPT ![i] = Written(tx[i], index[i])]
      /\ tx' = [tx EXCEPT ![i] = NoTx]
      /\ tx[i].kind \in {"created", "failed", "deleted"}
      /\ UNCHANGED <<pass, req>>
  BY DEF CommitCallback
<1>2. \A d \in Docs : docStatus'[d] = "NONE" => docStatus[d] = "NONE"
  BY DEF CommitCallback, RowsHaveOneWriter, NewStatusExists, TypeOK
<1>3. docStatus[i[1]] # "NONE" /\ i[1] \in Docs
  BY <1>1 DEF RowsHaveOneWriter, FreshDocument, Held, Index
<1>4. \A d \in Docs : d # i[1] => docStatus'[d] = docStatus[d]
  BY DEF CommitCallback, TypeOK
<1>5. ClaimHeld' /\ ClaimsDisjoint'
  BY <1>1 DEF RowsHaveOneWriter, ClaimHeld, ClaimsDisjoint, ClaimedBy, TypeOK
<1>6. HeldCreated'
  BY <1>1 DEF RowsHaveOneWriter, HeldCreated, TypeOK, NoTx
<1>7. FreshDocument'
  BY <1>1, <1>2, <1>3 DEF RowsHaveOneWriter, FreshDocument, Held, Present, TypeOK, Index
<1>8. NewStatusExists'
  BY <1>1 DEF RowsHaveOneWriter, NewStatusExists, TypeOK, NoTx
<1>9. RequestsOnDocuments'
  BY <1>1, <1>2 DEF RowsHaveOneWriter, RequestsOnDocuments, TypeOK, Request
<1> QED BY <1>5, <1>6, <1>7, <1>8, <1>9 DEF RowsHaveOneWriter

LEMMA FaultInv == Inv /\ FaultStep => RowsHaveOneWriter'
<1> SUFFICES ASSUME Inv, FaultStep PROVE RowsHaveOneWriter'
  OBVIOUS
<1> USE DEF Inv
<1>1. ASSUME NEW p \in Passes, PassDies(p)
      PROVE  RowsHaveOneWriter'
  BY <1>1, ReleaseInv DEF PassDies
<1>2. ASSUME NEW p \in Passes, NEW sent, DispatchFails(p, sent)
      PROVE  RowsHaveOneWriter'
  BY <1>2, ReleaseInv DEF DispatchFails
<1>3. ASSUME NEW i \in Index, CallbackLost(i)
      PROVE  RowsHaveOneWriter'
  BY <1>3 DEF CallbackLost, RowsHaveOneWriter, ClaimHeld, ClaimsDisjoint, HeldCreated,
              FreshDocument, RequestsOnDocuments, NewStatusExists, Held, Present,
              TypeOK, ClaimedBy, NoTx
<1>4. ASSUME NEW k \in tasks, TaskLost(k) \/ TaskRedelivered(k)
      PROVE  RowsHaveOneWriter'
  <2>1. \A q \in Passes : ClaimedBy(q)' \subseteq ClaimedBy(q)
    BY <1>4 DEF TaskLost, TaskRedelivered, ClaimedBy
  <2> QED BY <1>4, <2>1, FrameInv DEF TaskLost, TaskRedelivered
<1> QED BY <1>1, <1>2, <1>3, <1>4 DEF FaultStep

\* A row of document_index is written only by the transaction that holds it:
\* two passes never hold the same row, and the row a success callback
\* matched stays CREATING at the version it matched until it commits.
THEOREM OneWriter == Spec => []RowsHaveOneWriter
<1>1. Init => RowsHaveOneWriter
  BY DEF Init, RowsHaveOneWriter, ClaimHeld, ClaimsDisjoint, HeldCreated, FreshDocument,
         RequestsOnDocuments, NewStatusExists, ClaimedBy, IdlePass, IdleRequest,
         Held, Present, NoTx, NoRow
<1>2. Inv /\ [Next]_vars => RowsHaveOneWriter'
  <2> SUFFICES ASSUME Inv, [Next]_vars PROVE RowsHaveOneWriter'
    OBVIOUS
  <2>1. CASE UNCHANGED vars
    BY <2>1, FrameInv DEF Inv, vars, ClaimedBy
  <2> QED
    BY <2>1, ApiInv, PassInv, TaskInv, CommitInv, FaultInv DEF Next
<1>3. Spec => []TypeOK
  BY TypeCorrect
<1> QED BY <1>1, <1>2, <1>3, PTL DEF Spec, Inv

-----------------------------------------------------------------------------
(* An index becomes ACTIVE only up to date.                                 *)

UpToDateStep ==
    \A i \in Index :
       index[i].status # "ACTIVE" /\ index'[i].status = "ACTIVE"
          => index'[i].observed = index'[i].version

\* No request makes an index ACTIVE: a flush writes PENDING or DELETING, or
\* leaves the status column alone.
LEMMA FlushNotActive ==
    ASSUME NEW seen \in Row, NEW now \in Row, now.status # "ACTIVE"
    PROVE  /\ CreateOrUpdate(seen, now).status # "ACTIVE"
           /\ MarkDeleting(seen, now).status # "ACTIVE"
<1>1. MarkDeleting(seen, now).status # "ACTIVE"
  BY DEF MarkDeleting, Row
<1>2. CreateOrUpdate(seen, now).status # "ACTIVE"
  BY DEF CreateOrUpdate, NewRow, Row
<1> QED BY <1>1, <1>2

\* The property holds of every behaviour of the specification: whatever
\* requests, passes and callbacks ran since the task was dispatched, a
\* success callback that turns an index ACTIVE turns it ACTIVE at the version
\* the row asks for (on_index_created).
THEOREM ActiveUpToDate == Spec => BecomesActiveUpToDate
<1>1. Inv /\ [Next]_vars => UpToDateStep
  <2> SUFFICES ASSUME Inv, [Next]_vars,
                      NEW i \in Index,
                      index[i].status # "ACTIVE", index'[i].status = "ACTIVE"
               PROVE  index'[i].observed = index'[i].version
    BY DEF UpToDateStep
  <2> USE DEF Inv
  <2>0. index[i] \in Row
    BY DEF TypeOK
  <2>1. index'[i] # index[i]
    OBVIOUS
  <2>2. ASSUME NEW d \in Docs, CreateDocument(d)
        PROVE  FALSE
    BY <2>0, <2>2, NewRowPending DEF CreateDocument
  <2>3. ASSUME NEW r \in Requests, CommitRequest(r)
        PROVE  FALSE
    <3> DEFINE q == req[r]
    <3>1. i[1] = q.doc /\ i[2] \in Touched(r) /\ i = <<i[1], i[2]>> /\ i[2] \in IndexTypes
      BY <2>1, <2>3 DEF CommitRequest, Index
    <3>2. index'[i] = IF q.op = "delete" THEN MarkDeleting(q.seen[i[2]], index[i])
                      ELSE CreateOrUpdate(q.seen[i[2]], index[i])
      BY <2>3, <3>1 DEF CommitRequest
    <3>3. q.seen[i[2]] \in Row
      BY <3>1 DEF TypeOK, Request
    <3> QED BY <2>0, <3>2, <3>3, FlushNotActive
  <2>4. ASSUME NEW p \in Passes, CommitClaims(p)
        PROVE  FALSE
    BY <2>0, <2>4 DEF CommitClaims, ClaimedStatus, Row
  <2>5. ASSUME NEW j \in Index, CommitCallback(j)
        PROVE  index'[i].observed = index'[i].version
    <3>1. j = i /\ index'[i] = Written(tx[i], index[i])
      BY <2>1, <2>5 DEF CommitCallback, TypeOK
    <3>2. tx[i].kind = "created"
      BY <2>0, <3>1 DEF Written, NoRow, Row
    <3>3. index[i].version = tx[i].target
      BY <3>2 DEF RowsHaveOneWriter, HeldCreated
    <3> QED BY <2>0, <3>1, <3>2, <3>3 DEF Written, Row
  <2>6. CASE UNCHANGED index
    BY <2>1, <2>6
  <2> QED
    BY <2>2, <2>3, <2>4, <2>5, <2>6
    DEF Next, vars, ApiStep, PassStep, TaskStep, FaultStep, Rest,
        UploadDocument, ConfirmDocument, DeleteDocument, RebuildIndexes,
        RebuildFailedIndexes, CleanupExpired, BeginRequest, ReadRows, RollbackRequest,
        GetIndexesNeedingReconciliation, SelectIndex, ClaimIndex, SkipDocument,
        ReconcileDocumentOperations, ParseSucceeds, ParseFails, TriggerIndexTasks,
        StartIndexTask, IndexTaskFails, OnIndexCreated, OnIndexDeleted, OnIndexFailed,
        OpenCallback, PassDies, DispatchFails, CallbackLost, TaskLost, TaskRedelivered
<1>2. Spec => []Inv
  BY TypeCorrect, OneWriter, PTL DEF Inv
<1> QED BY <1>1, <1>2, PTL DEF Spec, BecomesActiveUpToDate, UpToDateStep

-----------------------------------------------------------------------------
(* What is deleted stays deleted, if requests do not race one another: one  *)
(* API worker, or no request but creations and deletions.  Passes, tasks,   *)
(* callbacks and faults are as many as there may be.                        *)

NoRequestRace ==
    \/ \A r, s \in Requests : r = s
    \/ Ops \subseteq {"create", "upload", "delete"}

Callbacks == {"created", "failed", "deleted"}
Leaving == {"ABSENT", "DELETING", "DELETION_IN_PROGRESS", "FAILED"}

\* The rows of a deleted document are on their way out, and only they are.
DeletedLeave ==
    \A i \in Index :
       /\ i[1] \in gmtDeleted => index[i].status \in Leaving
       /\ index[i].status \in {"DELETING", "DELETION_IN_PROGRESS"} => i[1] \in gmtDeleted

\* A callback holds a row that is there; one that began before the deletion
\* is over, and one that began after it leaves the document's status.
HeldByCallback ==
    \A i \in Index :
       /\ tx[i].kind \in Callbacks =>
             Present(index[i]) /\ (i[1] \in gmtDeleted => tx[i].new = tx[i].seen)
       /\ tx[i].kind = "deleted" => i[1] \in gmtDeleted

ClaimFits(entry, action) ==
    entry.status = IF action = "delete" THEN "DELETING" ELSE "PENDING"

\* A claimed row still is what it was claimed as.
HeldByClaim ==
    \A p \in Passes : \A c \in pass[p].claimed :
       ClaimFits(index[<<pass[p].doc, c.type>>], c.action)

RequestsAlone ==
    \A r \in Requests : req[r].pc # "idle" =>
       /\ req[r].op \in Ops
       /\ req[r].doc \in gmtDeleted => req[r].op = "delete"
       /\ req[r].op = "delete" => req[r].types = IndexTypes

\* What a request has read stays true: no row appears or is asked for anew.
SawRow(r, t) ==
    LET entry == index[<<req[r].doc, t>>]
        seen == req[r].seen[t]
    IN  /\ Present(entry) => Present(seen) /\ seen.version = entry.version
        /\ seen.status = "DELETING" => req[r].doc \in gmtDeleted

ReadsStayTrue ==
    \A r \in Requests : req[r].pc = "read" => \A t \in IndexTypes : SawRow(r, t)

Deletion ==
    /\ DeletedStaysDeleted /\ DeletedLeave /\ HeldByCallback /\ HeldByClaim
    /\ RequestsAlone /\ ReadsStayTrue

LEMMA Pairs ==
    /\ \A d \in Docs, t \in IndexTypes : <<d, t>> \in Index
    /\ \A i \in Index : i = <<i[1], i[2]>> /\ i[1] \in Docs /\ i[2] \in IndexTypes
BY DEF Index

\* Steps that write no row and no document, and open no callback.
LEMMA DeletionFrame ==
    ASSUME Deletion, HeldByClaim', UNCHANGED <<index, docStatus, gmtDeleted, req>>,
           \A i \in Index : tx'[i] = tx[i] \/ tx'[i].kind \notin Callbacks
    PROVE  Deletion'
<1>1. DeletedStaysDeleted' /\ DeletedLeave'
  BY DEF Deletion, DeletedStaysDeleted, DeletedLeave
<1>2. HeldByCallback'
  BY DEF Deletion, HeldByCallback, Callbacks, Present
<1>3. RequestsAlone' /\ ReadsStayTrue'
  BY DEF Deletion, RequestsAlone, ReadsStayTrue, SawRow, Present
<1> QED BY <1>1, <1>2, <1>3 DEF Deletion

LEMMA ClaimsFrame ==
    ASSUME HeldByClaim, UNCHANGED index,
           \A p \in Passes : \A c \in pass'[p].claimed :
              c \in pass[p].claimed /\ pass'[p].doc = pass[p].doc
    PROVE  HeldByClaim'
BY DEF HeldByClaim, ClaimFits

\* A new document has no rows that anybody knows of.
LEMMA CreateDeletes ==
    ASSUME Inv, Deletion, NEW d \in Docs, CreateDocument(d) \/ UploadDocument(d)
    PROVE  Deletion'
<1> USE DEF Inv
<1>1. /\ UNCHANGED <<gmtDeleted, tx, req, pass>> /\ docStatus[d] = "NONE"
      /\ \A e \in Docs : e # d => docStatus'[e] = docStatus[e]
      /\ \A i \in Index : i[1] # d => index'[i] = index[i]
      /\ \A i \in Index : index'[i] = index[i] \/ index'[i].status = "PENDING"
  BY DEF CreateDocument, UploadDocument, TypeOK, NewRow
<1>2. d \notin gmtDeleted
  BY <1>1 DEF Deletion, DeletedStaysDeleted
<1>3. \A i \in Index : i[1] = d => ~ Present(index[i]) /\ ~ Held(i)
  BY <1>1 DEF RowsHaveOneWriter, FreshDocument
<1>4. \A r \in Requests : req[r].pc # "idle" => req[r].doc # d
  BY <1>1 DEF RowsHaveOneWriter, RequestsOnDocuments
<1>5. DeletedStaysDeleted'
  BY <1>1, <1>2 DEF Deletion, DeletedStaysDeleted, TypeOK
<1>6. DeletedLeave'
  BY <1>1, <1>2 DEF Deletion, DeletedLeave
<1>7. HeldByCallback'
  BY <1>1, <1>3 DEF Deletion, HeldByCallback, Held, Callbacks, Present
<1>8. HeldByClaim'
  <2> SUFFICES ASSUME NEW p \in Passes, NEW c \in pass[p].claimed
               PROVE  ClaimFits(index'[<<pass[p].doc, c.type>>], c.action)
    BY <1>1 DEF HeldByClaim
  <2> DEFINE i == <<pass[p].doc, c.type>>
  <2>1. i \in Index /\ i \in ClaimedBy(p)
    BY ClaimedInIndex DEF ClaimedBy
  <2>2. Held(i)
    BY <2>1 DEF RowsHaveOneWriter, ClaimHeld, Held
  <2>3. index'[i] = index[i]
    BY <1>1, <1>3, <2>1, <2>2
  <2> QED BY <2>3 DEF Deletion, HeldByClaim, ClaimFits
<1>9. RequestsAlone'
  BY <1>1 DEF Deletion, RequestsAlone
<1>10. ReadsStayTrue'
  <2> SUFFICES ASSUME NEW r \in Requests, req[r].pc = "read", NEW t \in IndexTypes
               PROVE  SawRow(r, t)'
    BY <1>1 DEF ReadsStayTrue
  <2>1. req[r].doc \in Docs /\ req[r].doc # d
    BY <1>4 DEF TypeOK, Request
  <2>2. index'[<<req[r].doc, t>>] = index[<<req[r].doc, t>>]
    BY <1>1, <2>1, Pairs
  <2> QED BY <1>1, <2>2 DEF Deletion, ReadsStayTrue, SawRow, Present
<1> QED BY <1>5, <1>6, <1>7, <1>8, <1>9, <1>10 DEF Deletion

\* A request begins on a document that is not DELETED.
LEMMA BeginDeletes ==
    ASSUME Inv, Deletion, NEW r \in Requests, NEW op, NEW d \in Docs, NEW types,
           docStatus[d] # "DELETED", op = "delete" => types = IndexTypes,
           BeginRequest(r, op, d, types)
    PROVE  Deletion'
<1> USE DEF Inv
<1>1. /\ UNCHANGED <<docStatus, gmtDeleted, index, tx, pass>> /\ op \in Ops
      /\ \A s \in Requests : s # r => req'[s] = req[s]
      /\ req'[r].pc = "begun" /\ req'[r].op = op /\ req'[r].doc = d /\ req'[r].types = types
  BY DEF BeginRequest, TypeOK
<1>2. d \notin gmtDeleted
  BY DEF Deletion, DeletedStaysDeleted
<1>3. RequestsAlone'
  BY <1>1, <1>2 DEF Deletion, RequestsAlone
<1>4. ReadsStayTrue'
  BY <1>1 DEF Deletion, ReadsStayTrue, SawRow, Present
<1> QED
  BY <1>1, <1>3, <1>4 DEF Deletion, DeletedStaysDeleted, DeletedLeave, HeldByCallback,
     HeldByClaim, ClaimFits, Present

LEMMA ReadDeletes ==
    ASSUME Inv, Deletion, NEW r \in Requests, ReadRows(r)
    PROVE  Deletion'
<1> USE DEF Inv
<1>1. /\ UNCHANGED <<docStatus, gmtDeleted, index, tx, pass>> /\ req[r].pc = "begun"
      /\ \A s \in Requests : s # r => req'[s] = req[s]
      /\ req'[r].op = req[r].op /\ req'[r].doc = req[r].doc /\ req'[r].types = req[r].types
      /\ req'[r].seen = [t \in IndexTypes |-> index[<<req[r].doc, t>>]]
  BY DEF ReadRows, TypeOK, Request
<1>2. RequestsAlone'
  BY <1>1 DEF Deletion, RequestsAlone
<1>3. ReadsStayTrue'
  <2> SUFFICES ASSUME NEW s \in Requests, req'[s].pc = "read", NEW t \in IndexTypes
               PROVE  SawRow(s, t)'
    BY DEF ReadsStayTrue
  <2>1. CASE s # r
    BY <1>1, <2>1 DEF Deletion, ReadsStayTrue, SawRow, Present
  <2>2. CASE s = r
    <3> DEFINE i == <<req[r].doc, t>>
    <3>1. i \in Index /\ i[1] = req[r].doc /\ req'[r].seen[t] = index[i]
      BY <1>1, Pairs DEF TypeOK, Request
    <3>2. index[i].status = "DELETING" => req[r].doc \in gmtDeleted
      BY <3>1 DEF Deletion, DeletedLeave
    <3> QED BY <1>1, <2>2, <3>1, <3>2 DEF SawRow, Present
  <2> QED BY <2>1, <2>2
<1> QED
  BY <1>1, <1>2, <1>3 DEF Deletion, DeletedStaysDeleted, DeletedLeave, HeldByCallback,
     HeldByClaim, ClaimFits, Present

\* A request that deletes and commits marks every row that is there.
LEMMA MarkRows ==
    ASSUME Inv, Deletion, NEW r \in Requests, CommitRequest(r), req[r].op = "delete",
           NEW i \in Index
    PROVE  /\ index'[i].id = index[i].id /\ index'[i].version = index[i].version
           /\ Present(index'[i]) <=> Present(index[i])
           /\ i[1] = req[r].doc =>
                /\ Present(index[i]) => ~ Held(i)
                /\ index'[i].status \in Leaving
           /\ i[1] # req[r].doc => index'[i] = index[i]
<1> USE DEF Inv
<1> DEFINE t == i[2]
           seen == req[r].seen[t]
<1>1. /\ i[1] \in Docs /\ t \in IndexTypes /\ i = <<i[1], t>> /\ index[i] \in Row
      /\ seen \in Row /\ req[r].pc = "read"
  BY Pairs DEF TypeOK, Request, CommitRequest
<1>2. CASE i[1] # req[r].doc
  BY <1>2 DEF CommitRequest
<1>3. CASE i[1] = req[r].doc /\ t \notin Touched(r)
  <2>1. index'[i] = index[i]
    BY <1>3 DEF CommitRequest
  <2>2. req[r].types = IndexTypes
    BY <1>1 DEF Deletion, RequestsAlone
  <2>3. ~ Present(seen)
    BY <1>1, <1>3, <2>2 DEF Touched
  <2>4. ~ Present(index[i])
    BY <1>1, <1>3, <2>3 DEF Deletion, ReadsStayTrue, SawRow
  <2> QED BY <2>1, <2>4 DEF Present, Leaving
<1>4. CASE i[1] = req[r].doc /\ t \in Touched(r)
  <2>1. index'[i] = MarkDeleting(seen, index[i])
    BY <1>1, <1>4 DEF CommitRequest
  <2>2. ~ Held(i) /\ ~ FlushFails(seen, index[i]) /\ Present(seen)
    BY <1>1, <1>4 DEF CommitRequest, Touched
  <2>3. Present(index[i])
    BY <2>2 DEF FlushFails
  <2>4. seen.status = "DELETING" => index[i].status \in Leaving
    BY <1>1, <1>4 DEF Deletion, ReadsStayTrue, SawRow, DeletedLeave
  <2>5. /\ index'[i].id = index[i].id /\ index'[i].version = index[i].version
        /\ index'[i].status = IF seen.status = "DELETING" THEN index[i].status ELSE "DELETING"
    BY <1>1, <2>1 DEF MarkDeleting, Row
  <2> QED BY <1>4, <2>2, <2>3, <2>4, <2>5 DEF Present, Leaving
<1> QED BY <1>2, <1>3, <1>4

\* Any other request asks for work on a document that is not deleted, and no
\* other request is at work.
LEMMA AskRows ==
    ASSUME NoRequestRace, Inv, Deletion, NEW r \in Requests, CommitRequest(r), req[r].op # "delete"
    PROVE  /\ req[r].doc \notin gmtDeleted /\ gmtDeleted' = gmtDeleted
           /\ \A s \in Requests : s = r
           /\ \A i \in Index : index'[i].status \in {"PENDING", index[i].status}
           /\ \A i \in Index : i[1] # req[r].doc \/ Held(i) => index'[i] = index[i]
           /\ \A i \in Index : Present(index[i]) /\ index'[i] # index[i]
                                  => index'[i].version = index[i].version + 1
<1> USE DEF Inv
<1>1. req[r].pc = "read" /\ req[r] \in Request /\ req[r].doc \notin gmtDeleted
  BY DEF CommitRequest, TypeOK, Deletion, RequestsAlone
<1>2. gmtDeleted' = gmtDeleted
  BY DEF CommitRequest
<1>3. req[r].op \in Ops /\ req[r].op \notin {"create", "upload", "delete"}
  BY <1>1 DEF Deletion, RequestsAlone, Request
<1>4. \A s \in Requests : s = r
  BY <1>3 DEF NoRequestRace
<1>5. ASSUME NEW i \in Index
      PROVE  /\ index'[i].status \in {"PENDING", index[i].status}
             /\ i[1] # req[r].doc \/ Held(i) => index'[i] = index[i]
             /\ Present(index[i]) /\ index'[i] # index[i]
                  => index'[i].version = index[i].version + 1
  <2> DEFINE seen == req[r].seen[i[2]]
  <2>1. index[i] \in Row /\ i = <<i[1], i[2]>> /\ seen \in Row
    BY <1>1, Pairs DEF TypeOK, Request
  <2>2. CASE i[1] # req[r].doc \/ i[2] \notin Touched(r)
    BY <2>2 DEF CommitRequest
  <2>3. CASE i[1] = req[r].doc /\ i[2] \in Touched(r)
    <3>1. index'[i] = CreateOrUpdate(seen, index[i]) /\ ~ Held(i)
      BY <2>1, <2>3 DEF CommitRequest
    <3>2. CreateOrUpdate(seen, index[i]).status \in {"PENDING", index[i].status}
      BY <2>1 DEF CreateOrUpdate, NewRow, Row
    <3>3. Present(seen) => CreateOrUpdate(seen, index[i]).version = seen.version + 1
      BY <2>1 DEF CreateOrUpdate, Row
    <3>4. Present(index[i]) => Present(seen) /\ seen.version = index[i].version
      <4>1. SawRow(r, i[2]) /\ i = <<req[r].doc, i[2]>>
        BY <1>1, <2>1, <2>3, Pairs DEF Deletion, ReadsStayTrue
      <4> QED BY <4>1 DEF SawRow
    <3> QED BY <2>3, <3>1, <3>2, <3>3, <3>4
  <2> QED BY <2>2, <2>3
<1> QED BY <1>1, <1>2, <1>4, <1>5

LEMMA RequestDeletes ==
    ASSUME NoRequestRace, Inv, Deletion, NEW r \in Requests, CommitRequest(r)
    PROVE  Deletion'
<1> USE DEF Inv
<1> DEFINE d == req[r].doc
<1>0. /\ UNCHANGED <<tx, pass>> /\ d \in Docs /\ req[r].pc = "read"
      /\ req'[r].pc = "idle" /\ \A s \in Requests : s # r => req'[s] = req[s]
      /\ docStatus' = [docStatus EXCEPT ![d] = StatusAfter(req[r].op, docStatus[d])]
      /\ gmtDeleted' = gmtDeleted \cup (IF req[r].op = "delete" THEN {d} ELSE {})
  BY DEF CommitRequest, TypeOK, Request, IdleRequest
<1>1. \A i \in Index : Held(i) => index'[i] = index[i]
  <2> SUFFICES ASSUME NEW i \in Index, Held(i) PROVE index'[i] = index[i]
    OBVIOUS
  <2>1. \A t \in Touched(r) : ~ Held(<<d, t>>)
    BY DEF CommitRequest
  <2> QED BY <2>1, Pairs DEF CommitRequest
<1>2. HeldByClaim'
  <2> SUFFICES ASSUME NEW p \in Passes, NEW c \in pass[p].claimed
               PROVE  ClaimFits(index'[<<pass[p].doc, c.type>>], c.action)
    BY <1>0 DEF HeldByClaim
  <2> DEFINE i == <<pass[p].doc, c.type>>
  <2>1. i \in Index /\ i \in ClaimedBy(p)
    BY ClaimedInIndex DEF ClaimedBy
  <2>2. index'[i] = index[i]
    BY <1>1, <2>1 DEF RowsHaveOneWriter, ClaimHeld, Held
  <2> QED BY <2>2 DEF Deletion, HeldByClaim, ClaimFits
<1>3. CASE req[r].op = "delete"
  <2>1. gmtDeleted' = gmtDeleted \cup {d} /\ docStatus'[d] = "DELETED"
        /\ \A e \in Docs : e # d => docStatus'[e] = docStatus[e]
    BY <1>0, <1>3 DEF StatusAfter, TypeOK
  <2>2. DeletedStaysDeleted'
    BY <2>1 DEF Deletion, DeletedStaysDeleted, TypeOK
  <2>3. DeletedLeave'
    BY <1>3, <2>1, MarkRows DEF Deletion, DeletedLeave
  <2>4. HeldByCallback'
    <3> SUFFICES ASSUME NEW i \in Index
                 PROVE  /\ tx[i].kind \in Callbacks =>
                             Present(index'[i]) /\ (i[1] \in gmtDeleted' => tx[i].new = tx[i].seen)
                        /\ tx[i].kind = "deleted" => i[1] \in gmtDeleted'
      BY <1>0 DEF HeldByCallback
    <3>1. tx[i].kind \in Callbacks => Held(i) /\ Present(index[i])
      BY DEF Deletion, HeldByCallback, Callbacks, Held
    <3>2. tx[i].kind \in Callbacks => i[1] # d
      BY <1>3, <3>1, MarkRows
    <3> QED BY <1>3, <2>1, <3>1, <3>2, MarkRows DEF Deletion, HeldByCallback
  <2>5. RequestsAlone'
    <3> SUFFICES ASSUME NEW s \in Requests, s # r, req[s].pc # "idle"
                 PROVE  /\ req[s].op \in Ops
                        /\ req[s].doc \in gmtDeleted' => req[s].op = "delete"
                        /\ req[s].op = "delete" => req[s].types = IndexTypes
      BY <1>0 DEF RequestsAlone
    <3>1. /\ req[s].op \in Ops /\ req[s] \in Request
          /\ req[s].op = "delete" => req[s].types = IndexTypes
      BY DEF Deletion, RequestsAlone, TypeOK
    <3>2. req[s].op = "delete"
      BY <3>1 DEF NoRequestRace, Request
    <3> QED BY <3>1, <3>2
  <2>6. ReadsStayTrue'
    <3> SUFFICES ASSUME NEW s \in Requests, s # r, req[s].pc = "read", NEW t \in IndexTypes
                 PROVE  SawRow(s, t)'
      BY <1>0 DEF ReadsStayTrue
    <3> DEFINE i == <<req[s].doc, t>>
    <3>1. i \in Index
      BY Pairs DEF TypeOK, Request
    <3>2. (Present(index'[i]) <=> Present(index[i])) /\ index'[i].version = index[i].version
      BY <1>3, <3>1, MarkRows
    <3>3. SawRow(s, t) /\ req'[s] = req[s]
      BY <1>0 DEF Deletion, ReadsStayTrue
    <3> QED BY <2>1, <3>2, <3>3 DEF SawRow, Present
  <2> QED BY <1>2, <2>2, <2>3, <2>4, <2>5, <2>6 DEF Deletion
<1>4. CASE req[r].op # "delete"
  <2>1. d \notin gmtDeleted /\ gmtDeleted' = gmtDeleted
        /\ \A e \in Docs : e # d => docStatus'[e] = docStatus[e]
    BY <1>0, <1>4, AskRows DEF TypeOK
  <2>2. DeletedStaysDeleted'
    BY <2>1 DEF Deletion, DeletedStaysDeleted, TypeOK
  <2>3. DeletedLeave'
    BY <1>4, <2>1, AskRows DEF Deletion, DeletedLeave
  <2>4. HeldByCallback'
    BY <1>0, <1>1, <2>1 DEF Deletion, HeldByCallback, Callbacks, Held, Present
  <2>5. RequestsAlone' /\ ReadsStayTrue'
    BY <1>0, <1>4, AskRows DEF RequestsAlone, ReadsStayTrue
  <2> QED BY <1>2, <2>2, <2>3, <2>4, <2>5 DEF Deletion
<1> QED BY <1>3, <1>4

LEMMA ApiDeletes == NoRequestRace /\ Inv /\ Deletion /\ ApiStep => Deletion'
<1> SUFFICES ASSUME NoRequestRace, Inv, Deletion, ApiStep PROVE Deletion'
  OBVIOUS
<1>1. ASSUME NEW r \in Requests, RollbackRequest(r)
      PROVE  Deletion'
  <2>1. /\ UNCHANGED <<docStatus, gmtDeleted, index, tx, pass>>
        /\ req'[r].pc = "idle" /\ \A s \in Requests : s # r => req'[s] = req[s]
    BY <1>1 DEF RollbackRequest, IdleRequest, Inv, TypeOK
  <2> QED
    BY <2>1 DEF Deletion, DeletedStaysDeleted, DeletedLeave, HeldByCallback, HeldByClaim,
       ClaimFits, RequestsAlone, ReadsStayTrue, SawRow, Present
<1>2. ASSUME NEW r \in Requests, NEW d \in Docs,
             \/ ConfirmDocument(r, d)
             \/ DeleteDocument(r, d)
             \/ \E types \in SUBSET IndexTypes \ {{}} : RebuildIndexes(r, d, types)
             \/ RebuildFailedIndexes(r, d)
             \/ CleanupExpired(r, d)
      PROVE  Deletion'
  BY <1>2, BeginDeletes DEF ConfirmDocument, DeleteDocument, RebuildIndexes,
     RebuildFailedIndexes, CleanupExpired, QueryDocument
<1> QED BY <1>1, <1>2, CreateDeletes, ReadDeletes, RequestDeletes DEF ApiStep

\* A commit of claims moves rows that still are what they were claimed as.
LEMMA ClaimedRows ==
    ASSUME Inv, Deletion, NEW p \in Passes, CommitClaims(p), NEW i \in ClaimedBy(p)
    PROVE  /\ i \in Index /\ index'[i].id = index[i].id /\ index'[i].version = index[i].version
           /\ \/ index[i].status = "DELETING" /\ index'[i].status = "DELETION_IN_PROGRESS"
              \/ index[i].status = "PENDING" /\ index'[i].status = "CREATING"
<1> USE DEF Inv
<1> DEFINE c == CHOOSE c \in pass[p].claimed : c.type = i[2]
<1>1. i \in Index /\ i[1] = pass[p].doc /\ \E b \in pass[p].claimed : b.type = i[2]
  BY ClaimedInIndex DEF ClaimedBy
<1>2. c \in pass[p].claimed /\ c.type = i[2]
  BY <1>1
<1>3. index'[i] = [index[i] EXCEPT !.status = ClaimedStatus(c.action)]
  BY <1>1 DEF CommitClaims
<1> HIDE DEF c
<1>4. ClaimFits(index[i], c.action)
  BY <1>1, <1>2, Pairs DEF Deletion, HeldByClaim
<1>5. index[i] \in Row
  BY <1>1 DEF TypeOK
<1>6. index'[i].id = index[i].id /\ index'[i].version = index[i].version
      /\ index'[i].status = ClaimedStatus(c.action)
  BY <1>3, <1>5 DEF Row
<1> QED BY <1>1, <1>4, <1>6 DEF ClaimFits, ClaimedStatus

LEMMA ClaimsDelete ==
    ASSUME Inv, Deletion, NEW p \in Passes, CommitClaims(p)
    PROVE  Deletion'
<1> USE DEF Inv
<1>1. /\ UNCHANGED <<docStatus, gmtDeleted, req>>
      /\ \A i \in Index : tx'[i] = IF i \in ClaimedBy(p) THEN NoTx ELSE tx[i]
      /\ \A q \in Passes : q # p => pass'[q] = pass[q]
      /\ pass'[p].claimed = {}
  BY DEF CommitClaims, Released, IdlePass, TypeOK
<1>2. \A i \in Index \ ClaimedBy(p) : index'[i] = index[i]
  BY DEF CommitClaims
<1>3. \A i \in ClaimedBy(p) :
        /\ i \in Index /\ index'[i].version = index[i].version
        /\ \/ index[i].status = "DELETING" /\ index'[i].status = "DELETION_IN_PROGRESS"
           \/ index[i].status = "PENDING" /\ index'[i].status = "CREATING"
  BY ClaimedRows
<1>4. \A i \in Index : (Present(index'[i]) <=> Present(index[i])) /\ index'[i].version = index[i].version
  BY <1>2, <1>3 DEF Present
<1>5. DeletedStaysDeleted' /\ RequestsAlone'
  BY <1>1 DEF Deletion, DeletedStaysDeleted, RequestsAlone
<1>6. DeletedLeave'
  BY <1>1, <1>2, <1>3 DEF Deletion, DeletedLeave, Leaving
<1>7. HeldByCallback'
  BY <1>1, <1>4 DEF Deletion, HeldByCallback, Callbacks, NoTx
<1>8. HeldByClaim'
  <2> SUFFICES ASSUME NEW q \in Passes, q # p, NEW c \in pass[q].claimed
               PROVE  ClaimFits(index'[<<pass[q].doc, c.type>>], c.action)
    BY <1>1 DEF HeldByClaim
  <2> DEFINE i == <<pass[q].doc, c.type>>
  <2>1. i \in ClaimedBy(q) /\ i \in Index
    BY ClaimedInIndex DEF ClaimedBy
  <2>2. index'[i] = index[i]
    BY <1>2, <2>1 DEF RowsHaveOneWriter, ClaimsDisjoint
  <2> QED BY <2>2 DEF Deletion, HeldByClaim, ClaimFits
<1>9. ReadsStayTrue'
  <2> SUFFICES ASSUME NEW s \in Requests, req[s].pc = "read", NEW t \in IndexTypes
               PROVE  SawRow(s, t)'
    BY <1>1 DEF ReadsStayTrue
  <2>1. <<req[s].doc, t>> \in Index
    BY Pairs DEF TypeOK, Request
  <2> QED BY <1>1, <1>4, <2>1 DEF Deletion, ReadsStayTrue, SawRow, Present
<1> QED BY <1>5, <1>6, <1>7, <1>8, <1>9 DEF Deletion

LEMMA PassDeletes ==
    ASSUME Inv, Deletion, NEW p \in Passes, PassStep(p)
    PROVE  Deletion'
<1> USE DEF Inv
<1>0. pass \in [Passes -> Pass] /\ pass[p] \in Pass /\ HeldByClaim
  BY DEF TypeOK, Deletion
<1>1. ASSUME NEW d \in Docs, GetIndexesNeedingReconciliation(p, d)
      PROVE  Deletion'
  <2>1. \A q \in Passes : \A c \in pass'[q].claimed : c \in pass[q].claimed /\ pass'[q].doc = pass[q].doc
    BY <1>0, <1>1 DEF GetIndexesNeedingReconciliation, IdlePass
  <2> QED BY <1>0, <1>1, <2>1, ClaimsFrame, DeletionFrame DEF GetIndexesNeedingReconciliation
<1>2. ASSUME NEW it \in pass[p].todo, SelectIndex(p, it)
      PROVE  Deletion'
  <2>1. \A q \in Passes : \A c \in pass'[q].claimed : c \in pass[q].claimed /\ pass'[q].doc = pass[q].doc
    BY <1>0, <1>2 DEF SelectIndex, Pass
  <2> QED BY <1>0, <1>2, <2>1, ClaimsFrame, DeletionFrame DEF SelectIndex
<1>3. ASSUME SkipDocument(p) \/ ReconcileDocumentOperations(p)
      PROVE  Deletion'
  <2>1. \A q \in Passes : \A c \in pass'[q].claimed : c \in pass[q].claimed /\ pass'[q].doc = pass[q].doc
    BY <1>0, <1>3 DEF SkipDocument, ReconcileDocumentOperations, IdlePass, Pass
  <2> QED
    BY <1>0, <1>3, <2>1, ClaimsFrame, DeletionFrame DEF SkipDocument, ReconcileDocumentOperations
<1>4. ASSUME ClaimIndex(p)
      PROVE  Deletion'
  <2> DEFINE it == pass[p].cur
             i == <<pass[p].doc, it.type>>
  <2>1. i \in Index /\ UNCHANGED <<index, docStatus, gmtDeleted, req>>
    BY <1>0, <1>4 DEF ClaimIndex, Pass, Item, Index
  <2>2. \A j \in Index : tx'[j] = tx[j] \/ tx'[j].kind \notin Callbacks
    BY <1>4, <2>1 DEF ClaimIndex, TypeOK, NoTx, Callbacks
  <2>3. pass'[p].doc = pass[p].doc /\ \A q \in Passes : q # p => pass'[q] = pass[q]
    BY <1>0, <1>4 DEF ClaimIndex, Pass
  <2>4. ASSUME NEW c \in pass'[p].claimed, c \notin pass[p].claimed
        PROVE  ClaimMatches(index[i], it) /\ c.type = it.type /\ c.action = it.action
    BY <1>0, <1>4, <2>4 DEF ClaimIndex, Pass
  <2>5. ClaimMatches(index[i], it) => ClaimFits(index[i], it.action)
    BY DEF ClaimMatches, Needs, ClaimFits
  <2>6. HeldByClaim'
    <3> SUFFICES ASSUME NEW q \in Passes, NEW c \in pass'[q].claimed
                 PROVE  ClaimFits(index[<<pass[q].doc, c.type>>], c.action)
      BY <2>1, <2>3 DEF HeldByClaim
    <3>1. CASE c \in pass[q].claimed
      BY <1>0, <3>1 DEF HeldByClaim
    <3>2. CASE c \notin pass[q].claimed
      BY <2>3, <2>4, <2>5, <3>2
    <3> QED BY <3>1, <3>2
  <2> QED BY <2>1, <2>2, <2>6, DeletionFrame
<1> QED BY <1>1, <1>2, <1>3, <1>4, ClaimsDelete DEF PassStep

\* A callback that opens on a row of a deleted document sees it DELETED.
LEMMA OpenDeletes ==
    ASSUME Inv, Deletion, NEW k \in tasks, NEW t, NEW kind \in Callbacks,
           NEW target, NEW s, NEW matched, matched \in BOOLEAN,
           OpenCallback(<<k.doc, t>>, k, kind, target, s, matched),
           matched => Present(index[<<k.doc, t>>]),
           matched /\ kind = "deleted" => index[<<k.doc, t>>].status = "DELETION_IN_PROGRESS"
    PROVE  Deletion'
<1> USE DEF Inv
<1> DEFINE i == <<k.doc, t>>
           new == UpdateDocumentStatus(k.doc, i, s)
<1>1. UNCHANGED <<index, docStatus, gmtDeleted, req, pass>>
  BY DEF OpenCallback, Rest
<1>2. HeldByClaim'
  BY <1>1, ClaimsFrame DEF Deletion
<1>3. CASE ~ matched \/ i \notin Index
  <2>1. tx' = tx
    BY <1>3 DEF OpenCallback, TypeOK
  <2> QED BY <1>1, <1>2, <2>1, DeletionFrame
<1>4. CASE matched /\ i \in Index
  <2>1. k.doc \in gmtDeleted => new = docStatus[k.doc]
    BY DEF UpdateDocumentStatus, Untracked, Deletion, DeletedStaysDeleted
  <2>2. tx' = [tx EXCEPT ![i] = [kind |-> kind, wf |-> k.wf, target |-> target,
                                 seen |-> docStatus[k.doc], new |-> new]]
    BY <1>4 DEF OpenCallback
  <2> HIDE DEF new
  <2>3. /\ tx'[i].kind = kind /\ tx'[i].seen = docStatus[k.doc] /\ tx'[i].new = new
        /\ \A j \in Index : j # i => tx'[j] = tx[j]
    BY <1>4, <2>2 DEF TypeOK
  <2>4. kind = "deleted" => k.doc \in gmtDeleted
    BY <1>4 DEF Deletion, DeletedLeave
  <2>5. HeldByCallback'
    BY <1>1, <1>4, <2>1, <2>3, <2>4 DEF Deletion, HeldByCallback, Present
  <2> QED
    BY <1>1, <1>2, <2>5 DEF Deletion, DeletedStaysDeleted, DeletedLeave, RequestsAlone,
       ReadsStayTrue, SawRow, Present
<1> QED BY <1>3, <1>4

LEMMA TaskDeletes ==
    ASSUME Inv, Deletion, NEW k \in tasks, TaskStep(k)
    PROVE  Deletion'
<1>1. CASE UNCHANGED <<Rest, tx>>
  BY <1>1, ClaimsFrame, DeletionFrame DEF Rest, Deletion
<1>2. CASE OnIndexCreated(k)
  <2> DEFINE i == IndexOf(k)
             target == k.context[TypeOf(k)]
             matched == CreatedMatches(index[i], target)
  <2>1. (matched => Present(index[i])) /\ matched \in BOOLEAN
    BY DEF CreatedMatches, Present
  <2>2. OpenCallback(i, k, "created", target, "ACTIVE", matched)
    BY <1>2 DEF OnIndexCreated
  <2> HIDE DEF matched
  <2> QED BY <2>1, <2>2, OpenDeletes DEF IndexOf, Callbacks
<1>3. CASE OnIndexDeleted(k)
  <2> DEFINE i == IndexOf(k)
             matched == index[i].status = "DELETION_IN_PROGRESS"
  <2>1. (matched => Present(index[i])) /\ matched \in BOOLEAN
    BY DEF Present
  <2>2. OpenCallback(i, k, "deleted", 0, "ABSENT", matched)
    BY <1>3 DEF OnIndexDeleted
  <2>3. matched => index[i].status = "DELETION_IN_PROGRESS"
    OBVIOUS
  <2> HIDE DEF matched
  <2> QED BY <2>1, <2>2, <2>3, OpenDeletes DEF IndexOf, Callbacks
<1>4. ASSUME NEW t \in k.types, OnIndexFailed(k, t)
      PROVE  Deletion'
  <2> DEFINE i == <<k.doc, t>>
             matched == index[i].status \in {"CREATING", "DELETION_IN_PROGRESS"}
  <2>1. (matched => Present(index[i])) /\ matched \in BOOLEAN
    BY DEF Present
  <2>2. OpenCallback(i, k, "failed", 0, "FAILED", matched)
    BY <1>4 DEF OnIndexFailed
  <2> HIDE DEF matched
  <2> QED BY <2>1, <2>2, OpenDeletes DEF Callbacks
<1> QED
  BY <1>1, <1>2, <1>3, <1>4 DEF TaskStep, ParseSucceeds, ParseFails, TriggerIndexTasks,
     StartIndexTask, IndexTaskFails

\* What a callback writes: a row that leaves stays one that leaves.
LEMMA WrittenRows ==
    ASSUME Inv, NEW i \in Index, CommitCallback(i)
    PROVE  /\ index'[i] = Written(tx[i], index[i])
           /\ tx[i].kind \in Callbacks
           /\ index'[i].status = IF tx[i].kind = "created" THEN "ACTIVE"
                                 ELSE IF tx[i].kind = "failed" THEN "FAILED" ELSE "ABSENT"
           /\ Present(index'[i]) => index'[i].version = index[i].version
           /\ tx[i].kind = "created" => index[i].status = "CREATING"
<1>1. index'[i] = Written(tx[i], index[i]) /\ tx[i].kind \in Callbacks /\ index[i] \in Row
  BY DEF CommitCallback, Inv, TypeOK, Callbacks
<1>2. /\ Written(tx[i], index[i]).status = IF tx[i].kind = "created" THEN "ACTIVE"
                                           ELSE IF tx[i].kind = "failed" THEN "FAILED" ELSE "ABSENT"
      /\ tx[i].kind \in {"created", "failed"} => Written(tx[i], index[i]).version = index[i].version
  BY <1>1 DEF Written, Row, NoRow
<1> QED BY <1>1, <1>2 DEF Inv, RowsHaveOneWriter, HeldCreated, Present, Callbacks

LEMMA CommitDeletes ==
    ASSUME Inv, Deletion, NEW i \in Index, CommitCallback(i)
    PROVE  Deletion'
<1> USE DEF Inv
<1>1. /\ UNCHANGED <<gmtDeleted, req, pass>>
      /\ docStatus' = [docStatus EXCEPT ![i[1]] = IF tx[i].new # tx[i].seen THEN tx[i].new ELSE @]
      /\ tx'[i].kind = "none" /\ \A j \in Index : j # i => tx'[j] = tx[j] /\ index'[j] = index[j]
  BY DEF CommitCallback, TypeOK, NoTx
<1>2. \A j \in Index : Present(index'[j]) => Present(index[j]) /\ index'[j].version = index[j].version
  BY <1>1, WrittenRows DEF Deletion, HeldByCallback
<1>3. DeletedStaysDeleted'
  BY <1>1, WrittenRows DEF Deletion, DeletedStaysDeleted, HeldByCallback, TypeOK
<1>4. DeletedLeave'
  BY <1>1, WrittenRows DEF Deletion, DeletedLeave, Leaving
<1>5. HeldByCallback'
  BY <1>1 DEF Deletion, HeldByCallback, Callbacks, Present
<1>6. HeldByClaim'
  <2> SUFFICES ASSUME NEW p \in Passes, NEW c \in pass[p].claimed
               PROVE  ClaimFits(index'[<<pass[p].doc, c.type>>], c.action)
    BY <1>1 DEF HeldByClaim
  <2> DEFINE j == <<pass[p].doc, c.type>>
  <2>1. j \in Index /\ j \in ClaimedBy(p)
    BY ClaimedInIndex DEF ClaimedBy
  <2>2. j # i
    BY <2>1, WrittenRows DEF RowsHaveOneWriter, ClaimHeld, Callbacks
  <2> QED BY <1>1, <2>1, <2>2 DEF Deletion, HeldByClaim, ClaimFits
<1>7. RequestsAlone'
  BY <1>1 DEF Deletion, RequestsAlone
<1>8. ReadsStayTrue'
  <2> SUFFICES ASSUME NEW s \in Requests, req[s].pc = "read", NEW t \in IndexTypes
               PROVE  SawRow(s, t)'
    BY <1>1 DEF ReadsStayTrue
  <2>1. <<req[s].doc, t>> \in Index
    BY Pairs DEF TypeOK, Request
  <2> QED BY <1>1, <1>2, <2>1 DEF Deletion, ReadsStayTrue, SawRow, Present
<1> QED BY <1>3, <1>4, <1>5, <1>6, <1>7, <1>8 DEF Deletion

LEMMA FaultDeletes == Inv /\ Deletion /\ FaultStep => Deletion'
<1> SUFFICES ASSUME Inv, Deletion, FaultStep PROVE Deletion'
  OBVIOUS
<1>0. HeldByClaim
  BY DEF Deletion
<1>1. ASSUME NEW p \in Passes, NEW sent, PassDies(p) \/ DispatchFails(p, sent)
      PROVE  Deletion'
  <2>1. \A i \in Index : tx'[i] = tx[i] \/ tx'[i].kind \notin Callbacks
    BY <1>1 DEF PassDies, DispatchFails, Released, NoTx, Callbacks
  <2>2. \A q \in Passes : \A c \in pass'[q].claimed : c \in pass[q].claimed /\ pass'[q].doc = pass[q].doc
    BY <1>1 DEF PassDies, DispatchFails, IdlePass, Inv, TypeOK
  <2> QED BY <1>0, <1>1, <2>1, <2>2, ClaimsFrame, DeletionFrame DEF PassDies, DispatchFails
<1>2. ASSUME NEW i \in Index, CallbackLost(i)
      PROVE  Deletion'
  <2>1. \A j \in Index : tx'[j] = tx[j] \/ tx'[j].kind \notin Callbacks
    BY <1>2 DEF CallbackLost, NoTx, Callbacks, Inv, TypeOK
  <2> QED BY <1>0, <1>2, <2>1, ClaimsFrame, DeletionFrame DEF CallbackLost
<1>3. ASSUME NEW k \in tasks, TaskLost(k) \/ TaskRedelivered(k)
      PROVE  Deletion'
  BY <1>0, <1>3, ClaimsFrame, DeletionFrame DEF TaskLost, TaskRedelivered
<1> QED BY <1>1, <1>2, <1>3 DEF FaultStep

LEMMA Deleting == NoRequestRace => (Spec => []Deletion)
<1>1. Init => Deletion
  BY DEF Init, Deletion, DeletedStaysDeleted, DeletedLeave, HeldByCallback, HeldByClaim,
     RequestsAlone, ReadsStayTrue, IdlePass, IdleRequest, NoTx, NoRow, Callbacks
<1>2. NoRequestRace /\ Inv /\ Deletion /\ [Next]_vars => Deletion'
  <2> SUFFICES ASSUME NoRequestRace, Inv, Deletion, [Next]_vars PROVE Deletion'
    OBVIOUS
  <2>1. CASE UNCHANGED vars
    BY <2>1, ClaimsFrame, DeletionFrame DEF vars, Deletion
  <2> QED
    BY <2>1, ApiDeletes, PassDeletes, TaskDeletes, CommitDeletes, FaultDeletes DEF Next
<1>3. Spec => []Inv
  BY TypeCorrect, OneWriter, PTL DEF Inv
<1> SUFFICES ASSUME NoRequestRace PROVE Spec => []Deletion
  OBVIOUS
<1>4. Inv /\ Deletion /\ [Next]_vars => Deletion'
  BY <1>2
<1> QED BY <1>1, <1>3, <1>4, PTL DEF Spec

\* Where requests do not race one another, a deleted document stays DELETED
\* however its callbacks, which read its status before they write it, run.
THEOREM StaysDeleted == NoRequestRace => (Spec => []DeletedStaysDeleted)
<1>1. Deletion => DeletedStaysDeleted
  BY DEF Deletion
<1> SUFFICES ASSUME NoRequestRace PROVE Spec => []DeletedStaysDeleted
  OBVIOUS
<1>2. Spec => []Deletion
  BY Deleting
<1> QED BY <1>1, <1>2, PTL

\* Nor is an index of it ever offered for search again.
THEOREM NotSearchable == NoRequestRace => (Spec => []DeletedIsNotSearchable)
<1>1. Deletion => DeletedIsNotSearchable
  BY DEF Deletion, DeletedLeave, DeletedIsNotSearchable, Leaving
<1> SUFFICES ASSUME NoRequestRace PROVE Spec => []DeletedIsNotSearchable
  OBVIOUS
<1>2. Spec => []Deletion
  BY Deleting
<1> QED BY <1>1, <1>2, PTL

-----------------------------------------------------------------------------
(* One workflow per version.  What a task or a pass knows of a row is never *)
(* newer than the row, and a version is dispatched by the pass that has     *)
(* claimed it, which moves it out of PENDING.                               *)

NotNewer(i, version) ==
    /\ Present(index[i]) \/ i[1] \in gmtDeleted
    /\ Present(index[i]) => version <= index[i].version

TasksNotNewer ==
    \A k \in tasks : \A t \in k.types : NotNewer(<<k.doc, t>>, k.context[t])

PassesNotNewer ==
    \A p \in Passes :
       /\ pass[p].pc = "selected" => NotNewer(<<pass[p].doc, pass[p].cur.type>>, pass[p].target)
       /\ \A c \in pass[p].claimed : NotNewer(<<pass[p].doc, c.type>>, c.target)

Sent(i) == \E p \in Passes : pass[p].pc = "dispatched" /\ i \in ClaimedBy(p)

SentOnce ==
    /\ OneWorkflowPerVersion
    /\ \A i \in Index, k \in tasks :
          WorksOn(k, i) /\ index[i].status = "PENDING" => Sent(i)

Once == TasksNotNewer /\ PassesNotNewer /\ SentOnce

\* The claims of a pass are rolled back after a workflow was sent for them.
ClaimLost(p) ==
    \/ PassDies(p) /\ pass[p].pc = "dispatched"
    \/ \E sent \in {{}, {"create"}, {"create", "update"}} :
          DispatchFails(p, sent) /\ Actions(p) \cap sent # {}

ClaimsKept == [][\A p \in Passes : ~ ClaimLost(p)]_vars

DInv == Inv /\ Deletion

\* The steps that write rows.
LEMMA RowWriters ==
    ASSUME [Next]_vars
    PROVE  \/ UNCHANGED <<index, gmtDeleted>>
           \/ \E d \in Docs : CreateDocument(d)
           \/ \E r \in Requests : CommitRequest(r)
           \/ \E p \in Passes : CommitClaims(p)
           \/ \E i \in Index : CommitCallback(i)
BY DEF Next, vars, ApiStep, PassStep, TaskStep, FaultStep, Rest,
   UploadDocument, ConfirmDocument, DeleteDocument, RebuildIndexes,
   RebuildFailedIndexes, CleanupExpired, BeginRequest, ReadRows, RollbackRequest,
   GetIndexesNeedingReconciliation, SelectIndex, ClaimIndex, SkipDocument,
   ReconcileDocumentOperations, ParseSucceeds, ParseFails, TriggerIndexTasks,
   StartIndexTask, IndexTaskFails, OnIndexCreated, OnIndexDeleted, OnIndexFailed,
   OpenCallback, PassDies, DispatchFails, CallbackLost, TaskLost, TaskRedelivered

\* A row is removed and not made again when its document is deleted; until
\* then its version grows, and grows with every new request for work.
LEMMA RowsMove ==
    ASSUME NoRequestRace, DInv, [Next]_vars, NEW i \in Index
    PROVE  /\ gmtDeleted \subseteq gmtDeleted'
           /\ Present(index[i]) /\ ~ Present(index'[i]) => i[1] \in gmtDeleted
           /\ ~ Present(index[i]) /\ i[1] \in gmtDeleted => ~ Present(index'[i])
           /\ Present(index[i]) /\ Present(index'[i]) =>
                \/ index'[i].version > index[i].version
                \/ /\ index'[i].version = index[i].version
                   /\ index'[i].status = "PENDING" => index[i].status = "PENDING"
<1> USE DEF DInv, Inv
<1>0. index[i] \in Row /\ index[i].version \in Nat
  BY DEF TypeOK, Row
<1>1. CASE UNCHANGED <<index, gmtDeleted>>
  BY <1>0, <1>1
<1>2. ASSUME NEW d \in Docs, CreateDocument(d)
      PROVE  /\ gmtDeleted' = gmtDeleted
             /\ index'[i] = index[i] \/ (~ Present(index[i]) /\ i[1] \notin gmtDeleted)
  <2>1. gmtDeleted' = gmtDeleted /\ docStatus[d] = "NONE"
        /\ (index'[i] = index[i] \/ i[1] = d)
    BY <1>2 DEF CreateDocument
  <2> QED
    BY <2>1 DEF Deletion, DeletedStaysDeleted, RowsHaveOneWriter, FreshDocument
<1>3. ASSUME NEW r \in Requests, CommitRequest(r), req[r].op = "delete"
      PROVE  /\ gmtDeleted \subseteq gmtDeleted' /\ index'[i].version = index[i].version
             /\ Present(index'[i]) <=> Present(index[i])
             /\ index'[i].status = "PENDING" => index[i].status = "PENDING"
  <2>1. gmtDeleted \subseteq gmtDeleted'
    BY <1>3 DEF CommitRequest
  <2> QED BY <1>3, <2>1, MarkRows DEF Leaving
<1>4. ASSUME NEW r \in Requests, CommitRequest(r), req[r].op # "delete"
      PROVE  /\ gmtDeleted' = gmtDeleted
             /\ Present(index[i]) => Present(index'[i])
             /\ i[1] \in gmtDeleted => index'[i] = index[i]
             /\ Present(index[i]) /\ index'[i] # index[i]
                  => index'[i].version = index[i].version + 1
  BY <1>4, AskRows DEF Present
<1>5. ASSUME NEW p \in Passes, CommitClaims(p)
      PROVE  /\ gmtDeleted' = gmtDeleted /\ index'[i].version = index[i].version
             /\ Present(index'[i]) <=> Present(index[i])
             /\ index'[i].status = "PENDING" => index[i].status = "PENDING"
  <2>1. gmtDeleted' = gmtDeleted /\ (i \notin ClaimedBy(p) => index'[i] = index[i])
    BY <1>5 DEF CommitClaims
  <2> QED BY <1>5, <2>1, ClaimedRows DEF Present
<1>6. ASSUME NEW j \in Index, CommitCallback(j)
      PROVE  /\ gmtDeleted' = gmtDeleted
             /\ Present(index'[i]) => Present(index[i]) /\ index'[i].version = index[i].version
             /\ Present(index[i]) /\ ~ Present(index'[i]) => i[1] \in gmtDeleted
             /\ index'[i].status = "PENDING" => index[i].status = "PENDING"
  <2>1. gmtDeleted' = gmtDeleted /\ (i # j => index'[i] = index[i])
    BY <1>6 DEF CommitCallback
  <2>2. CASE i = j
    <3>1. tx[i].kind \in Callbacks /\ Present(index[i])
      BY <1>6, <2>2, WrittenRows DEF Deletion, HeldByCallback
    <3>2. ~ Present(index'[i]) => tx[i].kind = "deleted"
      BY <1>6, <2>2, WrittenRows DEF Present, Callbacks
    <3>3. index'[i].status # "PENDING" /\ (Present(index'[i]) => index'[i].version = index[i].version)
      BY <1>6, <2>2, WrittenRows
    <3> QED BY <2>1, <3>1, <3>2, <3>3 DEF Deletion, HeldByCallback
  <2> QED BY <2>1, <2>2
<1>7. CASE \E d \in Docs : CreateDocument(d)
  BY <1>0, <1>2, <1>7
<1>8. CASE \E r \in Requests : CommitRequest(r)
  BY <1>0, <1>3, <1>4, <1>8
<1>9. CASE \E p \in Passes : CommitClaims(p)
  BY <1>0, <1>5, <1>9
<1>10. CASE \E j \in Index : CommitCallback(j)
  BY <1>0, <1>6, <1>10
<1> QED BY <1>1, <1>7, <1>8, <1>9, <1>10, RowWriters

LEMMA StaysNotNewer ==
    ASSUME NoRequestRace, DInv, [Next]_vars, NEW i \in Index, NEW version \in Nat, NotNewer(i, version)
    PROVE  NotNewer(i, version)'
<1>1. index[i].version \in Nat
  BY DEF DInv, Inv, TypeOK, Row
<1>2. index'[i].version \in Nat
  BY TypeInductive DEF DInv, Inv, TypeOK, Row
<1> QED BY <1>1, <1>2, RowsMove DEF NotNewer

\* A task that comes from another works on no more, for the same workflow.
From(l, k) ==
    /\ l.wf = k.wf /\ l.action = k.action /\ l.doc = k.doc
    /\ l.types \subseteq k.types /\ l.context = k.context

Dispatches(p) ==
    /\ ReadyToDispatch(p)
    /\ UNCHANGED index
    /\ pass'[p].pc = "dispatched" \/ ClaimLost(p)
    /\ pass'[p].pc = "dispatched" => ClaimedBy(p)' = ClaimedBy(p)

LEMMA RetryFrom ==
    ASSUME NEW k \in Task, NEW l \in Retry(k) PROVE From(l, k)
BY DEF Retry, Task, From

LEMMA StepFrom ==
    ASSUME DInv, NEW k \in tasks, TaskStep(k), NEW l \in tasks', l \notin tasks
    PROVE  From(l, k)
<1>0. k \in Task
  BY DEF DInv, Inv, TypeOK
<1>1. CASE ParseSucceeds(k)
  BY <1>0, <1>1 DEF ParseSucceeds, From, Task
<1>2. CASE ParseFails(k) \/ IndexTaskFails(k)
  BY <1>0, <1>2, RetryFrom DEF ParseFails, IndexTaskFails
<1>3. CASE TriggerIndexTasks(k)
  <2>1. PICK t \in k.types : l = [k EXCEPT !.kind = "index", !.types = {t}]
    BY <1>3 DEF TriggerIndexTasks
  <2>2. l.types = {t} /\ l.wf = k.wf /\ l.action = k.action /\ l.doc = k.doc /\ l.context = k.context
    BY <1>0, <2>1 DEF Task
  <2> QED BY <2>1, <2>2 DEF From
<1>4. CASE StartIndexTask(k)
  <2>1. l \in Retry(k) \/ l = [k EXCEPT !.pc = "running"]
    BY <1>4 DEF StartIndexTask
  <2> QED BY <1>0, <2>1, RetryFrom DEF From, Task
<1>5. CASE OnIndexCreated(k) \/ OnIndexDeleted(k)
  BY <1>5 DEF OnIndexCreated, OnIndexDeleted
<1>6. ASSUME NEW t \in k.types, OnIndexFailed(k, t)
      PROVE  From(l, k)
  <2>1. l = [k EXCEPT !.types = k.types \ {t}]
    BY <1>6 DEF OnIndexFailed
  <2> QED BY <1>0, <2>1 DEF From, Task
<1> QED BY <1>1, <1>2, <1>3, <1>4, <1>5, <1>6 DEF TaskStep

\* Every task is one that was there, comes from one, or is dispatched now.
LEMMA TasksFrom ==
    ASSUME DInv, [Next]_vars, NEW l \in tasks'
    PROVE  \/ \E k \in tasks : From(l, k)
           \/ \E p \in Passes : Dispatches(p) /\ \E a \in Actions(p) : l = Workflow(p, a)
<1> USE DEF DInv, Inv
<1>0. CASE l \in tasks
  BY <1>0 DEF From
<1>1. ASSUME l \notin tasks, NEW k \in tasks, TaskStep(k)
      PROVE  From(l, k)
  BY <1>1, StepFrom
<1>2. ASSUME l \notin tasks, NEW k \in tasks, TaskLost(k) \/ TaskRedelivered(k)
      PROVE  From(l, k)
  <2>1. l = [k EXCEPT !.pc = "queued", !.copy = k.copy + 1] /\ k \in Task
    BY <1>2 DEF TaskLost, TaskRedelivered, TypeOK
  <2>2. l.types = k.types /\ l.wf = k.wf /\ l.action = k.action /\ l.doc = k.doc /\ l.context = k.context
    BY <2>1 DEF Task
  <2> QED BY <2>2 DEF From
<1>3. ASSUME l \notin tasks, NEW p \in Passes, ReconcileDocumentOperations(p)
      PROVE  Dispatches(p) /\ \E a \in Actions(p) : l = Workflow(p, a)
  <2>1. pass'[p].pc = "dispatched" /\ pass'[p].doc = pass[p].doc /\ pass'[p].claimed = pass[p].claimed
    BY <1>3 DEF ReconcileDocumentOperations, TypeOK, Pass
  <2>2. ClaimedBy(p)' = ClaimedBy(p)
    BY <2>1 DEF ClaimedBy
  <2> QED BY <1>3, <2>1, <2>2 DEF ReconcileDocumentOperations, Dispatches
<1>4. ASSUME l \notin tasks, NEW p \in Passes,
             NEW sent \in {{}, {"create"}, {"create", "update"}}, DispatchFails(p, sent)
      PROVE  Dispatches(p) /\ \E a \in Actions(p) : l = Workflow(p, a)
  <2>1. pass'[p].pc = "idle"
    BY <1>4 DEF DispatchFails, IdlePass, TypeOK
  <2>2. PICK a \in Actions(p) \cap sent : l = Workflow(p, a)
    BY <1>4 DEF DispatchFails
  <2>3. ClaimLost(p)
    BY <1>4, <2>2 DEF ClaimLost
  <2> QED BY <1>4, <2>1, <2>2, <2>3 DEF DispatchFails, Dispatches
<1>5. CASE UNCHANGED tasks
  BY <1>0, <1>5
<1> QED
  BY <1>0, <1>1, <1>2, <1>3, <1>4, <1>5
  DEF Next, vars, ApiStep, PassStep, FaultStep, CreateDocument, UploadDocument,
      ConfirmDocument, DeleteDocument, RebuildIndexes, RebuildFailedIndexes,
      CleanupExpired, BeginRequest, ReadRows, CommitRequest, RollbackRequest,
      GetIndexesNeedingReconciliation, SelectIndex, ClaimIndex, SkipDocument,
      CommitClaims, CommitCallback, PassDies, CallbackLost

\* What a pass has selected or claimed it had selected, or selects now.
LEMMA PassesFrom ==
    ASSUME DInv, [Next]_vars, NEW p \in Passes
    PROVE  /\ pass'[p].pc = "selected" =>
                \/ /\ pass[p].pc = "selected" /\ pass'[p].doc = pass[p].doc
                   /\ pass'[p].cur = pass[p].cur /\ pass'[p].target = pass[p].target
                \/ LET entry == index[<<pass'[p].doc, pass'[p].cur.type>>]
                   IN  UNCHANGED index /\ Present(entry) /\ pass'[p].target = entry.version
           /\ \A c \in pass'[p].claimed :
                /\ pass'[p].doc = pass[p].doc
                /\ \/ c \in pass[p].claimed
                   \/ /\ pass[p].pc = "selected" /\ c.type = pass[p].cur.type
                      /\ c.target \in {0, pass[p].target}
           /\ pass[p].pc = "dispatched" =>
                pass'[p] = pass[p] \/ CommitClaims(p) \/ ClaimLost(p)
<1> USE DEF DInv, Inv
<1>0. pass \in [Passes -> Pass] /\ pass[p] \in Pass
  BY DEF TypeOK
<1>1. CASE pass'[p] = pass[p]
  BY <1>1
<1>2. CASE pass'[p] = IdlePass /\ (pass[p].pc # "dispatched" \/ CommitClaims(p) \/ ClaimLost(p))
  BY <1>2 DEF IdlePass
<1>3. ASSUME NEW d \in Docs, GetIndexesNeedingReconciliation(p, d)
      PROVE  pass'[p].pc = "ready" /\ pass'[p].claimed = {} /\ pass[p].pc = "idle"
  BY <1>0, <1>3 DEF GetIndexesNeedingReconciliation, IdlePass
<1>4. ASSUME NEW it \in pass[p].todo, SelectIndex(p, it)
      PROVE  /\ pass'[p].doc = pass[p].doc /\ pass'[p].claimed = pass[p].claimed
             /\ UNCHANGED index /\ pass[p].pc = "ready"
             /\ pass'[p].pc = "selected" =>
                  LET entry == index[<<pass'[p].doc, pass'[p].cur.type>>]
                  IN  Present(entry) /\ pass'[p].target = entry.version
  BY <1>0, <1>4 DEF SelectIndex, Pass
<1>5. ASSUME ClaimIndex(p)
      PROVE  /\ pass'[p].doc = pass[p].doc /\ pass'[p].pc = "ready" /\ pass[p].pc = "selected"
             /\ \A c \in pass'[p].claimed :
                  \/ c \in pass[p].claimed
                  \/ c.type = pass[p].cur.type /\ c.target \in {0, pass[p].target}
  BY <1>0, <1>5 DEF ClaimIndex, Pass
<1>6. ASSUME ReconcileDocumentOperations(p)
      PROVE  /\ pass'[p].doc = pass[p].doc /\ pass'[p].claimed = pass[p].claimed
             /\ pass'[p].pc = "dispatched" /\ pass[p].pc = "ready"
  BY <1>0, <1>6 DEF ReconcileDocumentOperations, ReadyToDispatch, Pass
<1>7. ASSUME SkipDocument(p) \/ CommitClaims(p)
      PROVE  pass'[p] = IdlePass /\ (pass[p].pc # "dispatched" \/ CommitClaims(p))
  BY <1>0, <1>7 DEF SkipDocument, CommitClaims
<1>8. ASSUME NEW q \in Passes, NEW sent, PassDies(q) \/ DispatchFails(q, sent)
      PROVE  \/ pass'[p] = pass[p]
             \/ pass'[p] = IdlePass /\ (pass[p].pc # "dispatched" \/ ClaimLost(p))
  BY <1>0, <1>8 DEF PassDies, DispatchFails, ReadyToDispatch, ClaimLost
<1>9. ASSUME NEW q \in Passes, q # p, PassStep(q)
      PROVE  pass'[p] = pass[p]
  BY <1>0, <1>9 DEF PassStep, GetIndexesNeedingReconciliation, SelectIndex, ClaimIndex,
     SkipDocument, ReconcileDocumentOperations, CommitClaims
<1>10. CASE PassStep(p)
  BY <1>2, <1>3, <1>4, <1>5, <1>6, <1>7, <1>10 DEF PassStep
<1>11. CASE UNCHANGED pass
  BY <1>1, <1>11
<1>12. CASE FaultStep
  BY <1>1, <1>2, <1>8, <1>11, <1>12 DEF FaultStep, CallbackLost, TaskLost, TaskRedelivered
<1>13. \/ FaultStep \/ UNCHANGED pass
       \/ \E q \in Passes : PassStep(q)
  BY DEF Next, vars, ApiStep, TaskStep, Rest, CreateDocument, UploadDocument,
     ConfirmDocument, DeleteDocument, RebuildIndexes, RebuildFailedIndexes,
     CleanupExpired, BeginRequest, ReadRows, CommitRequest, RollbackRequest,
     ParseSucceeds, ParseFails, TriggerIndexTasks, StartIndexTask, IndexTaskFails,
     OnIndexCreated, OnIndexDeleted, OnIndexFailed, OpenCallback, CommitCallback
<1> QED BY <1>1, <1>9, <1>10, <1>11, <1>12, <1>13

\* What a pass dispatches it has claimed, and nobody has claimed it besides.
LEMMA DispatchedWork ==
    ASSUME DInv, PassesNotNewer, NEW p \in Passes, Dispatches(p), NEW a \in Actions(p),
           NEW l, l = Workflow(p, a), NEW t \in l.types
    PROVE  /\ <<l.doc, t>> \in Index /\ <<l.doc, t>> \in ClaimedBy(p)
           /\ l.wf = nextWf /\ l.context[t] \in Nat
           /\ NotNewer(<<l.doc, t>>, l.context[t])
           /\ l.action # "delete" =>
                index[<<l.doc, t>>].status = "PENDING" /\ ~ Sent(<<l.doc, t>>)
<1> USE DEF DInv, Inv
<1> DEFINE c == CHOOSE c \in Batch(p, a) : c.type = t
           i == <<l.doc, t>>
<1>1. /\ l.wf = nextWf /\ l.action = a /\ l.doc = pass[p].doc
      /\ l.types = {b.type : b \in Batch(p, a)}
      /\ t \in IndexTypes => l.context[t] = c.target
  BY DEF Workflow
<1>2. \E b \in Batch(p, a) : b.type = t
  BY <1>1
<1>3. c \in pass[p].claimed /\ c.type = t /\ c.action = a
  BY <1>2 DEF Batch
<1>4. c \in Claim /\ pass[p].pc = "ready"
  BY <1>3 DEF TypeOK, Pass, Dispatches, ReadyToDispatch
<1> HIDE DEF c
<1>5. i \in ClaimedBy(p) /\ i \in Index
  BY <1>1, <1>3, ClaimedInIndex DEF ClaimedBy
<1>6. NotNewer(i, c.target)
  BY <1>1, <1>3 DEF PassesNotNewer
<1>7. a # "delete" => index[i].status = "PENDING"
  BY <1>1, <1>3 DEF Deletion, HeldByClaim, ClaimFits
<1>8. ~ Sent(i)
  BY <1>4, <1>5 DEF Sent, RowsHaveOneWriter, ClaimsDisjoint
<1> QED BY <1>1, <1>3, <1>4, <1>5, <1>6, <1>7, <1>8 DEF Claim

\* A task that works on a row after a step came from one that did before.
LEMMA OldWork ==
    ASSUME NoRequestRace, DInv, TasksNotNewer, [Next]_vars, NEW k \in tasks, NEW l, From(l, k),
           NEW i \in Index, WorksOn(l, i)'
    PROVE  /\ WorksOn(k, i)
           /\ index'[i].status = "PENDING" => index[i].status = "PENDING"
<1>1. /\ k \in Task /\ index[i].version \in Nat /\ index'[i].version \in Nat
      /\ i = <<i[1], i[2]>> /\ i[2] \in IndexTypes
  BY Pairs, TypeInductive DEF DInv, Inv, TypeOK, Row
<1>2. /\ k.doc = i[1] /\ i[2] \in k.types /\ k.action # "delete"
      /\ Present(index'[i]) /\ k.context[i[2]] = index'[i].version
  BY DEF WorksOn, From
<1>3. NotNewer(i, k.context[i[2]])
  BY <1>1, <1>2 DEF TasksNotNewer
<1>4. Present(index[i])
  BY <1>2, <1>3, RowsMove DEF NotNewer
<1>5. index'[i].version <= index[i].version
  BY <1>2, <1>3, <1>4 DEF NotNewer
<1>6. /\ index'[i].version = index[i].version
      /\ index'[i].status = "PENDING" => index[i].status = "PENDING"
  BY <1>1, <1>2, <1>4, <1>5, RowsMove
<1> QED BY <1>2, <1>4, <1>6 DEF WorksOn

\* The pass that dispatched a version keeps its claim until it commits.
LEMMA SentStays ==
    ASSUME DInv, [Next]_vars, \A p \in Passes : ~ ClaimLost(p),
           NEW i \in Index, Sent(i), index'[i].status = "PENDING"
    PROVE  Sent(i)'
<1>1. PICK p \in Passes : pass[p].pc = "dispatched" /\ i \in ClaimedBy(p)
  BY DEF Sent
<1>2. ~ CommitClaims(p)
  BY <1>1, ClaimedRows DEF DInv
<1>3. pass'[p] = pass[p]
  BY <1>1, <1>2, PassesFrom
<1> QED BY <1>1, <1>3 DEF Sent, ClaimedBy

LEMMA OnceInductive ==
    ASSUME NoRequestRace, DInv, Once, [Next]_vars, \A p \in Passes : ~ ClaimLost(p)
    PROVE  Once'
<1> USE DEF Once
<1>1. TasksNotNewer'
  <2> SUFFICES ASSUME NEW l \in tasks', NEW t \in l.types
               PROVE  NotNewer(<<l.doc, t>>, l.context[t])'
    BY DEF TasksNotNewer
  <2>1. ASSUME NEW k \in tasks, From(l, k)
        PROVE  NotNewer(<<l.doc, t>>, l.context[t])'
    <3>1. k \in Task /\ t \in k.types /\ l.doc = k.doc /\ l.context = k.context
      BY <2>1 DEF From, DInv, Inv, TypeOK
    <3>2. <<l.doc, t>> \in Index /\ l.context[t] \in Nat /\ NotNewer(<<l.doc, t>>, l.context[t])
      BY <3>1, Pairs DEF TasksNotNewer, Task
    <3> QED BY <3>2, StaysNotNewer
  <2>2. ASSUME NEW p \in Passes, Dispatches(p), NEW a \in Actions(p), l = Workflow(p, a)
        PROVE  NotNewer(<<l.doc, t>>, l.context[t])'
    BY <2>2, DispatchedWork, StaysNotNewer
  <2> QED BY <2>1, <2>2, TasksFrom
<1>2. PassesNotNewer'
  <2>0. pass' \in [Passes -> Pass] /\ pass \in [Passes -> Pass] /\ index \in [Index -> Row]
    BY TypeInductive DEF DInv, Inv, TypeOK
  <2>1. ASSUME NEW p \in Passes, pass'[p].pc = "selected"
        PROVE  NotNewer(<<pass[p].doc, pass[p].cur.type>>, pass[p].target)'
    <3>1. PICK i \in Index, target \in Nat :
             i = <<pass'[p].doc, pass'[p].cur.type>> /\ target = pass'[p].target
      BY <2>0, Pairs DEF Pass, Item
    <3>2. CASE UNCHANGED index /\ Present(index[i]) /\ target = index[i].version
      BY <2>0, <3>1, <3>2 DEF NotNewer, Row
    <3>3. CASE /\ pass[p].pc = "selected" /\ pass'[p].doc = pass[p].doc
               /\ pass'[p].cur = pass[p].cur /\ target = pass[p].target
      <4>1. NotNewer(i, target)
        BY <3>1, <3>3 DEF PassesNotNewer
      <4>2. NotNewer(i, target)'
        BY <4>1, StaysNotNewer
      <4> QED BY <3>1, <4>2 DEF NotNewer
    <3> QED BY <2>1, <3>1, <3>2, <3>3, PassesFrom
  <2>2. ASSUME NEW p \in Passes, NEW c \in pass'[p].claimed
        PROVE  NotNewer(<<pass[p].doc, c.type>>, c.target)'
    <3>1. c.target \in Nat /\ pass[p].target \in Nat /\ pass'[p].doc = pass[p].doc
      BY <2>0, <2>2, PassesFrom DEF Pass, Claim
    <3>2. PICK i \in Index : i = <<pass[p].doc, c.type>>
      <4>1. pass'[p] \in Pass /\ pass[p] \in Pass
        BY <2>0
      <4>2. c.type \in IndexTypes /\ pass[p].doc \in Docs
        BY <2>2, <4>1 DEF Pass, Claim
      <4> QED BY <4>2, Pairs
    <3>3. c \in pass[p].claimed \/ (/\ pass[p].pc = "selected" /\ c.type = pass[p].cur.type
                                    /\ c.target \in {0, pass[p].target})
      BY <2>2, PassesFrom
    <3>4. index[i].version \in Nat
      BY <2>0 DEF Row
    <3>5. NotNewer(i, c.target)
      <4>1. CASE c \in pass[p].claimed
        BY <3>2, <4>1 DEF PassesNotNewer
      <4>2. CASE pass[p].pc = "selected" /\ c.type = pass[p].cur.type
        <5>1. NotNewer(i, pass[p].target)
          BY <3>2, <4>2 DEF PassesNotNewer
        <5>2. NotNewer(i, 0)
          BY <3>4, <5>1 DEF NotNewer
        <5> QED BY <3>3, <4>1, <5>1, <5>2
      <4> QED BY <3>3, <4>1, <4>2
    <3>6. NotNewer(i, c.target)'
      BY <3>1, <3>5, StaysNotNewer
    <3> QED BY <3>1, <3>2, <3>6 DEF NotNewer
  <2> QED BY <2>1, <2>2 DEF PassesNotNewer
<1>3. SentOnce'
  <2>1. ASSUME NEW i \in Index, NEW l \in tasks', WorksOn(l, i)'
        PROVE  \/ \E k \in tasks : From(l, k) /\ WorksOn(k, i)
               \/ \E p \in Passes :
                     /\ l.wf = nextWf /\ i \in ClaimedBy(p) /\ Dispatches(p)
                     /\ index[i].status = "PENDING" /\ ~ Sent(i) /\ UNCHANGED index
    <3>1. ASSUME NEW k \in tasks, From(l, k)
          PROVE  WorksOn(k, i)
      BY <2>1, <3>1, OldWork
    <3>2. ASSUME NEW p \in Passes, Dispatches(p), NEW a \in Actions(p), l = Workflow(p, a)
          PROVE  /\ l.wf = nextWf /\ i \in ClaimedBy(p)
                 /\ index[i].status = "PENDING" /\ ~ Sent(i) /\ UNCHANGED index
      <4>1. i = <<l.doc, i[2]>> /\ i[2] \in l.types /\ l.action # "delete"
        BY <2>1, Pairs DEF WorksOn
      <4> QED BY <3>2, <4>1, DispatchedWork DEF Dispatches
    <3> QED BY <3>1, <3>2, TasksFrom
  <2>2. ASSUME NEW i \in Index, NEW k \in tasks', NEW l \in tasks', WorksOn(k, i)', WorksOn(l, i)'
        PROVE  k.wf = l.wf
    <3>1. \A m \in tasks : WorksOn(m, i) /\ index[i].status = "PENDING" => Sent(i)
      BY DEF SentOnce
    <3>2. \A m, n \in tasks : WorksOn(m, i) /\ WorksOn(n, i) => m.wf = n.wf
      BY DEF SentOnce, OneWorkflowPerVersion
    <3>3. \/ \E m \in tasks : From(k, m) /\ WorksOn(m, i)
          \/ k.wf = nextWf /\ index[i].status = "PENDING" /\ ~ Sent(i)
      BY <2>1, <2>2
    <3>4. \/ \E n \in tasks : From(l, n) /\ WorksOn(n, i)
          \/ l.wf = nextWf /\ index[i].status = "PENDING" /\ ~ Sent(i)
      BY <2>1, <2>2
    <3> QED BY <3>1, <3>2, <3>3, <3>4 DEF From
  <2>3. ASSUME NEW i \in Index, NEW l \in tasks', WorksOn(l, i)', index'[i].status = "PENDING"
        PROVE  Sent(i)'
    <3>1. ASSUME NEW k \in tasks, From(l, k)
          PROVE  Sent(i)
      BY <2>3, <3>1, OldWork DEF SentOnce
    <3>2. ASSUME NEW p \in Passes, i \in ClaimedBy(p), Dispatches(p)
          PROVE  Sent(i)'
      <4>1. pass'[p].pc = "dispatched" /\ ClaimedBy(p)' = ClaimedBy(p)
        BY <3>2 DEF Dispatches
      <4> QED BY <3>2, <4>1 DEF Sent
    <3> QED BY <2>1, <2>3, <3>1, <3>2, SentStays
  <2> QED BY <2>2, <2>3 DEF SentOnce, OneWorkflowPerVersion
<1> QED BY <1>1, <1>2, <1>3

\* However many passes run, whatever is retried, and whichever callbacks
\* and tasks crash, are lost or are delivered again, the version a row asks
\* for is worked on by one workflow, as long as requests do not race one
\* another and no pass loses its claims once it has sent the workflow for them.
THEOREM OneWorkflow == NoRequestRace => (Spec /\ ClaimsKept => []OneWorkflowPerVersion)
<1>1. Init => Once
  BY DEF Init, Once, TasksNotNewer, PassesNotNewer, SentOnce, OneWorkflowPerVersion, IdlePass
<1>2. Once => OneWorkflowPerVersion
  BY DEF Once, SentOnce
<1> SUFFICES ASSUME NoRequestRace PROVE Spec /\ ClaimsKept => []OneWorkflowPerVersion
  OBVIOUS
<1>3. DInv /\ Once /\ [Next]_vars /\ [\A p \in Passes : ~ ClaimLost(p)]_vars => Once'
  <2> SUFFICES ASSUME DInv, Once, [Next]_vars, [\A p \in Passes : ~ ClaimLost(p)]_vars
               PROVE  Once'
    OBVIOUS
  <2>1. CASE \A p \in Passes : ~ ClaimLost(p)
    BY <2>1, OnceInductive
  <2>2. CASE UNCHANGED vars
    BY <2>2 DEF vars, Once, TasksNotNewer, PassesNotNewer, NotNewer, SentOnce, Sent,
                ClaimedBy, OneWorkflowPerVersion, WorksOn
  <2> QED BY <2>1, <2>2
<1>4. Spec => []Inv
  BY TypeCorrect, OneWriter, PTL DEF Inv
<1>5. Spec => []Deletion
  BY Deleting
<1> QED BY <1>1, <1>2, <1>3, <1>4, <1>5, PTL DEF Spec, ClaimsKept, DInv

-----------------------------------------------------------------------------
(* The quota of collections, and the stores of a collection *)

\* A deletion is of a collection that was there, and drops its stores only
\* when the row is DELETED for good.
Asked ==
  \A r \in Deleters :
    deleter[r].step # "idle" =>
      /\ deleter[r].collection \in Collections
      /\ row[deleter[r].collection] # "absent"
      /\ deleter[r].step \in {"queued", "vectors"} => row[deleter[r].collection] = "DELETED"

\* A task that works indexes a document of a collection.
Busy ==
  \A w \in Indexers :
    indexer[w].step # "idle" =>
      indexer[w].collection \in Collections /\ indexer[w].document \in Documents

\* What is indexed and was not lost is stored, before the collection is
\* created too, until it is deleted.
StoredIn(c, k) == indexed[c][k] \ lost[c][k] \subseteq Contents(stores[c][k])

Stored == \A c \in Collections, k \in Kinds : row[c] # "DELETED" => StoredIn(c, k)

\* A count that waits to be written misses what came since, and counts what
\* went since.
Counted ==
  \A q \in Recounts :
    recount[q].step = "counted" =>
      /\ Cardinality(ActiveCollections) <= recount[q].count + recount[q].created
      /\ recount[q].count <= Cardinality(ActiveCollections) + recount[q].deleted

CollectionIInv ==
  CollectionTypeOK /\ Asked /\ Busy /\ Stored /\ Counted /\ UsageIsExplained

\* A task that failed is queued again, with one more retry, or has ended.
LEMMA FailedTask ==
  ASSUME NEW t, t.retries \in 0 .. MaxTaskRetries
  PROVE  \/ /\ AfterFailure(t) = [t EXCEPT !.step = "queued", !.retries = t.retries + 1]
            /\ t.retries + 1 \in 0 .. MaxTaskRetries
         \/ AfterFailure(t) = [t EXCEPT !.step = "ended"]
BY NumbersAreNatural DEF AfterFailure

\* One store of one collection is written.
LEMMA OneStore ==
  ASSUME NEW S, NEW f \in [Collections -> [Kinds -> S]], NEW v \in S,
         NEW c \in Collections, NEW k \in Kinds
  PROVE  /\ [f EXCEPT ![c][k] = v] \in [Collections -> [Kinds -> S]]
         /\ [f EXCEPT ![c][k] = v][c][k] = v
         /\ \A d \in Collections, l \in Kinds :
              d # c \/ l # k => [f EXCEPT ![c][k] = v][d][l] = f[d][l]
OBVIOUS

LEMMA KindsAre == "VECTOR" \in Kinds /\ "FULLTEXT" \in Kinds
BY DEF Kinds

LEMMA ContentsTyped ==
  ASSUME NEW s \in {NoStore} \cup SUBSET Documents
  PROVE  Contents(s) \in SUBSET Documents
BY DEF Contents

\* A set of documents is a store, and its own contents.
LEMMA ContentsOf ==
  ASSUME NEW s \in SUBSET Documents
  PROVE  Contents(s) = s
BY NamesAssumption DEF Contents

ActiveCount == Cardinality(ActiveCollections)

LEMMA ActiveFinite ==
  IsFiniteSet(ActiveCollections) /\ ActiveCount \in Nat
BY CollectionsAreFinite, FS_Subset, FS_CardinalityType DEF ActiveCollections, ActiveCount

-----------------------------------------------------------------------------
(* The steps, by the part of the state they touch *)

\* What a step of an index task does to the stores of the collection.
LEMMA IndexEffect ==
  ASSUME CollectionTypeOK, Busy, NEW w \in Indexers, IndexTask(w)
  PROVE  /\ UNCHANGED <<row, quotaVars, init, deleter>>
         /\ indexer' \in [Indexers -> Indexer] /\ Busy'
         /\ \/ UNCHANGED storeVars
            \/ \E c \in Collections, k \in Kinds, d \in Documents :
                 /\ indexed' = [indexed EXCEPT ![c][k] = indexed[c][k] \cup {d}]
                 /\ \/ /\ stores' = [stores EXCEPT ![c][k] = Contents(stores[c][k]) \cup {d}]
                       /\ lost' = [lost EXCEPT ![c][k] = lost[c][k] \ {d}]
                    \/ /\ lost' = [lost EXCEPT ![c][k] = lost[c][k] \cup {d}]
                       /\ UNCHANGED stores
         /\ mishaps' \subseteq Mishaps
<1> DEFINE t == indexer[w]
<1>1. /\ indexer \in [Indexers -> Indexer] /\ t \in Indexer /\ IdleIndexer \in Indexer
      /\ IdleIndexer.step = "idle" /\ mishaps \subseteq Mishaps
  BY DEF CollectionTypeOK, Indexer, IdleIndexer, Kinds
<1>2. CASE LookForStore(w)
  <2>1. /\ indexer' = [indexer EXCEPT ![w] = [t EXCEPT !.step = "looked",
                         !.existed = stores[t.collection][t.kind] # NoStore]]
        /\ t.step = "started"
    BY <1>2 DEF LookForStore
  <2>2. [t EXCEPT !.step = "looked", !.existed = stores[t.collection][t.kind] # NoStore]
          \in Indexer
    BY <1>1 DEF Indexer
  <2>3. /\ indexer'[w].collection = t.collection /\ indexer'[w].document = t.document
        /\ \A v \in Indexers \ {w} : indexer'[v] = indexer[v]
    BY <1>1, <2>1 DEF Indexer
  <2>4. Busy'
    BY <2>1, <2>3 DEF Busy
  <2> QED BY <1>1, <1>2, <2>1, <2>2, <2>4 DEF LookForStore
<1>3. ASSUME indexer' = [indexer EXCEPT ![w] = IdleIndexer]
      PROVE  indexer' \in [Indexers -> Indexer] /\ Busy'
  BY <1>1, <1>3 DEF Busy
<1>4. CASE IndexFails(w)
  BY <1>1, <1>3, <1>4 DEF IndexFails
<1>5. CASE WriteStore(w) \/ SkipStore(w)
  <2>1. t.collection \in Collections /\ t.document \in Documents /\ t.kind \in Kinds
    BY <1>1, <1>5 DEF WriteStore, SkipStore, Busy, Indexer
  <2>2. CASE WriteStore(w)
    BY <1>1, <1>3, <2>1, <2>2 DEF WriteStore, Note, Mishaps
  <2>3. CASE SkipStore(w)
    <3>1. t.kind = "FULLTEXT"
      BY <2>3 DEF SkipStore
    <3> QED BY <1>1, <1>3, <2>1, <2>3, <3>1 DEF SkipStore
  <2> QED BY <1>5, <2>2, <2>3
<1> QED BY <1>2, <1>4, <1>5 DEF IndexTask

\* What a step of an initialisation does.
LEMMA InitEffect ==
  ASSUME CollectionTypeOK, NEW c \in Collections, InitTask(c)
  PROVE  /\ UNCHANGED <<row, quotaVars, deleter, indexer, indexed>>
         /\ init' \in [Collections -> [step : InitSteps, retries : 0 .. MaxTaskRetries]]
         /\ \/ UNCHANGED storeVars
            \/ /\ stores' = [stores EXCEPT ![c]["VECTOR"] = {}]
               /\ lost' = [lost EXCEPT ![c]["VECTOR"] =
                             lost[c]["VECTOR"] \cup Contents(stores[c]["VECTOR"])]
            \/ /\ stores' = [stores EXCEPT ![c]["FULLTEXT"] = Contents(stores[c]["FULLTEXT"])]
               /\ UNCHANGED lost
         /\ mishaps' \subseteq Mishaps
<1> DEFINE T == [step : InitSteps, retries : 0 .. MaxTaskRetries]
<1>1. /\ init \in [Collections -> T] /\ init[c] \in T /\ mishaps \subseteq Mishaps
      /\ init[c].retries \in 0 .. MaxTaskRetries
  BY DEF CollectionTypeOK
<1>2. \A s \in InitSteps : [init EXCEPT ![c].step = s] \in [Collections -> T]
  BY <1>1
<1>3. CASE InitRead(c)
  BY <1>1, <1>2, <1>3 DEF InitRead, InitSteps, storeVars
<1>4. CASE InitVectors(c)
  BY <1>1, <1>2, <1>4 DEF InitVectors, InitSteps, Recreated, Note, Mishaps
<1>5. CASE InitFulltext(c)
  BY <1>1, <1>2, <1>5 DEF InitFulltext, InitSteps, Note, Mishaps
<1>6. CASE InitFails(c)
  <2>1. /\ \A n \in 0 .. MaxTaskRetries : [init[c] EXCEPT !.step = "queued", !.retries = n] \in T
        /\ [init[c] EXCEPT !.step = "ended"] \in T
    BY <1>1 DEF InitSteps
  <2>2. AfterFailure(init[c]) \in T
    BY <1>1, <2>1, FailedTask
  <2>3. init' \in [Collections -> T]
    BY <1>1, <1>6, <2>2 DEF InitFails
  <2>4. mishaps' \subseteq Mishaps
    BY <1>1, <1>6 DEF InitFails, Note, Mishaps
  <2> QED BY <1>6, <2>3, <2>4 DEF InitFails, storeVars
<1> QED BY <1>3, <1>4, <1>5, <1>6 DEF InitTask

\* What a step of a deletion task does: nothing in the collection it is for
\* is kept from being dropped, nothing else is touched.
LEMMA DropEffect ==
  ASSUME CollectionTypeOK, Asked, NEW r \in Deleters, DeleteTask(r)
  PROVE  /\ UNCHANGED <<row, quotaVars, init, indexer, indexed, lost>>
         /\ deleter[r].step \in {"queued", "vectors"}
         /\ deleter' \in [Deleters -> [step : DeleteSteps, retries : 0 .. MaxTaskRetries,
                                       collection : Collections \cup {NoCollection}]]
         /\ deleter'[r].collection = deleter[r].collection
         /\ \A s \in Deleters \ {r} : deleter'[s] = deleter[s]
         /\ \/ UNCHANGED stores
            \/ \E k \in Kinds : stores' = [stores EXCEPT ![deleter[r].collection][k] = NoStore]
         /\ mishaps' \subseteq Mishaps
<1> DEFINE D == [step : DeleteSteps, retries : 0 .. MaxTaskRetries,
                 collection : Collections \cup {NoCollection}]
<1>1. /\ deleter \in [Deleters -> D] /\ deleter[r] \in D /\ mishaps \subseteq Mishaps
      /\ deleter[r].retries \in 0 .. MaxTaskRetries
  BY DEF CollectionTypeOK
<1>2. \A s \in DeleteSteps : /\ [deleter EXCEPT ![r].step = s] \in [Deleters -> D]
                             /\ [deleter EXCEPT ![r].step = s][r].collection = deleter[r].collection
  BY <1>1
<1>3. CASE DropVectors(r)
  BY <1>1, <1>2, <1>3, KindsAre DEF DropVectors, DeleteSteps
<1>4. CASE DropFulltext(r)
  BY <1>1, <1>2, <1>4, KindsAre DEF DropFulltext, DeleteSteps
<1>5. CASE DeleteFails(r)
  <2>1. /\ \A n \in 0 .. MaxTaskRetries :
             /\ [deleter[r] EXCEPT !.step = "queued", !.retries = n] \in D
             /\ [deleter[r] EXCEPT !.step = "queued", !.retries = n].collection
                  = deleter[r].collection
        /\ [deleter[r] EXCEPT !.step = "ended"] \in D
        /\ [deleter[r] EXCEPT !.step = "ended"].collection = deleter[r].collection
    BY <1>1 DEF DeleteSteps
  <2>2. /\ AfterFailure(deleter[r]) \in D
        /\ AfterFailure(deleter[r]).collection = deleter[r].collection
    BY <1>1, <2>1, FailedTask
  <2>3. deleter' = [deleter EXCEPT ![r] = AfterFailure(deleter[r])]
    BY <1>5 DEF DeleteFails
  <2>4. deleter' \in [Deleters -> D]
    BY <1>1, <2>2, <2>3
  <2>5. mishaps' \subseteq Mishaps
    BY <1>1, <1>5 DEF DeleteFails, Note, Mishaps
  <2> QED BY <1>1, <1>5, <2>2, <2>3, <2>4, <2>5 DEF DeleteFails, storeVars
<1> QED BY <1>3, <1>4, <1>5 DEF DeleteTask

\* What the quota's own requests do.
LEMMA RecountEffect ==
  ASSUME CollectionTypeOK,
         \/ \E n \in Limits : UpdateCollectionLimit(n)
         \/ \E q \in Recounts : CountCollections(q) \/ WriteCount(q)
  PROVE  /\ UNCHANGED <<row, init, deleter, indexer, storeVars, mishaps>>
         /\ usage' \in Nat /\ limit' \in Limits /\ unpaid' \in Nat /\ overpaid' \in Nat
         /\ recount' \in [Recounts -> Recount]
<1>1. /\ recount \in [Recounts -> Recount] /\ IdleRecount \in Recount /\ limit \in Limits
      /\ usage \in Nat /\ unpaid \in Nat /\ overpaid \in Nat
  BY DEF CollectionTypeOK, Recount, IdleRecount
<1>2. ASSUME NEW n \in Limits, UpdateCollectionLimit(n)
      PROVE  UNCHANGED <<usage, recount, unpaid, overpaid>> /\ limit' = n
  BY <1>2 DEF UpdateCollectionLimit
<1>3. ASSUME NEW q \in Recounts, CountCollections(q)
      PROVE  /\ UNCHANGED <<usage, limit, unpaid, overpaid>>
             /\ recount' \in [Recounts -> Recount]
  <2>1. ActiveCount \in Nat
    BY ActiveFinite
  <2>2. [IdleRecount EXCEPT !.step = "counted", !.count = ActiveCount] \in Recount
    BY <2>1 DEF Recount, IdleRecount
  <2> QED BY <1>1, <1>3, <2>2 DEF CountCollections, ActiveCount
<1>4. ASSUME NEW q \in Recounts, WriteCount(q)
      PROVE  /\ usage' \in Nat /\ limit' = limit /\ unpaid' \in Nat /\ overpaid' \in Nat
             /\ recount' \in [Recounts -> Recount]
  <2>1. recount[q] \in Recount
    BY <1>1
  <2>2. recount[q].count \in Nat /\ recount[q].created \in Nat /\ recount[q].deleted \in Nat
    BY <2>1 DEF Recount
  <2> QED BY <1>1, <1>4, <2>2 DEF WriteCount
<1> QED BY <1>1, <1>2, <1>3, <1>4 DEF UpdateCollectionLimit, CountCollections, WriteCount, storeVars

\* The counts that wait take note of a collection that comes or goes.
LEMMA MissedTyped ==
  ASSUME CollectionTypeOK, NEW a \in {0, 1}, NEW b \in {0, 1}, Missed(a, b)
  PROVE  /\ recount' \in [Recounts -> Recount]
         /\ \A q \in Recounts :
              recount[q].step = "counted" =>
                /\ recount'[q].count = recount[q].count
                /\ recount'[q].created = recount[q].created + a
                /\ recount'[q].deleted = recount[q].deleted + b
         /\ \A q \in Recounts : recount'[q].step = recount[q].step
<1>1. recount \in [Recounts -> Recount]
  BY DEF CollectionTypeOK
<1>2. ASSUME NEW q \in Recounts
      PROVE  LET n == [recount[q] EXCEPT !.created = recount[q].created + a,
                                         !.deleted = recount[q].deleted + b]
             IN  /\ n \in Recount /\ n.count = recount[q].count
                 /\ n.created = recount[q].created + a /\ n.deleted = recount[q].deleted + b
                 /\ n.step = recount[q].step
  <2>1. recount[q] \in Recount /\ a \in Nat /\ b \in Nat
    BY <1>1
  <2>2. /\ recount[q].created + a \in Nat /\ recount[q].deleted + b \in Nat
    BY <2>1 DEF Recount
  <2> QED BY <2>1, <2>2 DEF Recount
<1> QED BY <1>1, <1>2 DEF Missed

\* What a request does that deletes a collection.
LEMMA DeleteEffect ==
  ASSUME CollectionTypeOK, Asked, NEW r \in Deleters, DeleteCommit(r)
  PROVE  LET c == deleter[r].collection
         IN  /\ UNCHANGED <<limit, init, indexer, storeVars, overpaid>>
             /\ c \in Collections /\ row[c] \in {"ACTIVE", "DELETED"}
             /\ row' = [row EXCEPT ![c] = "DELETED"]
             /\ usage' = ReleasedQuota(usage)
             /\ row[c] = "DELETED" => unpaid' = unpaid + 1 /\ recount' = recount
             /\ row[c] = "ACTIVE" => unpaid' = unpaid /\ Missed(0, 1)
             /\ deleter' \in [Deleters -> [step : DeleteSteps, retries : 0 .. MaxTaskRetries,
                                           collection : Collections \cup {NoCollection}]]
             /\ deleter'[r].collection = c
             /\ \A s \in Deleters \ {r} : deleter'[s] = deleter[s]
             /\ mishaps' \subseteq Mishaps
<1>1. /\ deleter[r].collection \in Collections
      /\ row[deleter[r].collection] \in {"ACTIVE", "DELETED"}
  BY DEF DeleteCommit, Asked, CollectionTypeOK, RowStatus
<1>2. /\ deleter' \in [Deleters -> [step : DeleteSteps, retries : 0 .. MaxTaskRetries,
                                    collection : Collections \cup {NoCollection}]]
      /\ deleter'[r].collection = deleter[r].collection
      /\ \A s \in Deleters \ {r} : deleter'[s] = deleter[s]
  BY DEF DeleteCommit, CollectionTypeOK, DeleteSteps
<1>3. mishaps' \subseteq Mishaps
  BY DEF DeleteCommit, CollectionTypeOK, Note, Mishaps
<1> QED BY <1>1, <1>2, <1>3 DEF DeleteCommit

\* Every step keeps the types.
LEMMA CollectionTypeInv ==
  ASSUME CollectionTypeOK, Asked, Busy, [CollectionNext]_collectionVars
  PROVE  CollectionTypeOK' /\ Busy'
<1> USE DEF CollectionTypeOK
<1>1. ASSUME NEW c \in Collections, CreateCollection(c) PROVE CollectionTypeOK' /\ Busy'
  <2>1. /\ usage' \in Nat /\ recount' \in [Recounts -> Recount]
        /\ row' \in [Collections -> RowStatus]
        /\ init' \in [Collections -> [step : InitSteps, retries : 0 .. MaxTaskRetries]]
        /\ mishaps' \subseteq Mishaps
    <3>1. PICK sent \in BOOLEAN :
            /\ init' = [init EXCEPT ![c].step = IF sent THEN "queued" ELSE "ended"]
            /\ Note("unsent", ~ sent)
      BY <1>1 DEF CreateCollection
    <3>2. init' \in [Collections -> [step : InitSteps, retries : 0 .. MaxTaskRetries]]
      BY <3>1 DEF InitSteps
    <3>3. recount' \in [Recounts -> Recount]
      BY <1>1, MissedTyped DEF CreateCollection
    <3>4. mishaps' \subseteq Mishaps
      BY <3>1 DEF Note, Mishaps
    <3> QED BY <1>1, <3>2, <3>3, <3>4 DEF CreateCollection, RowStatus
  <2>2. UNCHANGED <<limit, deleter, indexer, stores, indexed, lost, unpaid, overpaid>>
    BY <1>1 DEF CreateCollection, storeVars
  <2> QED BY <2>1, <2>2 DEF Busy
<1>2. ASSUME NEW c \in Collections, InitTask(c) PROVE CollectionTypeOK' /\ Busy'
  <2>1. /\ stores' \in [Collections -> [Kinds -> {NoStore} \cup SUBSET Documents]]
        /\ lost' \in [Collections -> [Kinds -> SUBSET Documents]]
    <3>1. \A k \in Kinds : /\ stores[c][k] \in {NoStore} \cup SUBSET Documents
                           /\ Contents(stores[c][k]) \in SUBSET Documents
      BY DEF Contents
    <3>2. \A k \in Kinds : lost[c][k] \cup Contents(stores[c][k]) \in SUBSET Documents
      BY <3>1
    <3>3. CASE UNCHANGED storeVars
      BY <3>3 DEF storeVars
    <3>4. CASE /\ stores' = [stores EXCEPT ![c]["VECTOR"] = {}]
               /\ lost' = [lost EXCEPT ![c]["VECTOR"] =
                             lost[c]["VECTOR"] \cup Contents(stores[c]["VECTOR"])]
      <4>1. {} \in {NoStore} \cup SUBSET Documents
        OBVIOUS
      <4> QED BY <3>2, <3>4, <4>1, KindsAre, OneStore
    <3>5. CASE /\ stores' = [stores EXCEPT ![c]["FULLTEXT"] = Contents(stores[c]["FULLTEXT"])]
               /\ UNCHANGED lost
      <4>1. Contents(stores[c]["FULLTEXT"]) \in {NoStore} \cup SUBSET Documents
        BY <3>1, KindsAre
      <4> QED BY <3>5, <4>1, KindsAre, OneStore
    <3> QED BY <1>2, <3>3, <3>4, <3>5, InitEffect
  <2>2. /\ UNCHANGED <<row, usage, limit, recount, unpaid, overpaid, deleter, indexer, indexed>>
        /\ init' \in [Collections -> [step : InitSteps, retries : 0 .. MaxTaskRetries]]
        /\ mishaps' \subseteq Mishaps
    BY <1>2, InitEffect DEF quotaVars
  <2> QED BY <2>1, <2>2 DEF Busy
<1>3. ASSUME NEW w \in Indexers, IndexTask(w) PROVE CollectionTypeOK' /\ Busy'
  <2>1. /\ stores' \in [Collections -> [Kinds -> {NoStore} \cup SUBSET Documents]]
        /\ indexed' \in [Collections -> [Kinds -> SUBSET Documents]]
        /\ lost' \in [Collections -> [Kinds -> SUBSET Documents]]
    <3>1. CASE UNCHANGED storeVars
      BY <3>1 DEF storeVars
    <3>2. CASE ~ UNCHANGED storeVars
      <4>1. PICK c \in Collections, k \in Kinds, d \in Documents :
              /\ indexed' = [indexed EXCEPT ![c][k] = indexed[c][k] \cup {d}]
              /\ \/ /\ stores' = [stores EXCEPT ![c][k] = Contents(stores[c][k]) \cup {d}]
                    /\ lost' = [lost EXCEPT ![c][k] = lost[c][k] \ {d}]
                 \/ /\ lost' = [lost EXCEPT ![c][k] = lost[c][k] \cup {d}]
                    /\ UNCHANGED stores
        BY <1>3, <3>2, IndexEffect
      <4>2. stores[c][k] \in {NoStore} \cup SUBSET Documents
        OBVIOUS
      <4>3. /\ Contents(stores[c][k]) \cup {d} \in {NoStore} \cup SUBSET Documents
            /\ indexed[c][k] \cup {d} \in SUBSET Documents
            /\ lost[c][k] \cup {d} \in SUBSET Documents /\ lost[c][k] \ {d} \in SUBSET Documents
        BY <4>2, ContentsTyped
      <4>4. indexed' \in [Collections -> [Kinds -> SUBSET Documents]]
        BY <4>1, <4>3, OneStore
      <4>5. CASE /\ stores' = [stores EXCEPT ![c][k] = Contents(stores[c][k]) \cup {d}]
                 /\ lost' = [lost EXCEPT ![c][k] = lost[c][k] \ {d}]
        BY <4>3, <4>4, <4>5, OneStore
      <4>6. CASE lost' = [lost EXCEPT ![c][k] = lost[c][k] \cup {d}] /\ UNCHANGED stores
        BY <4>3, <4>4, <4>6, OneStore
      <4> QED BY <4>1, <4>5, <4>6
    <3> QED BY <3>1, <3>2
  <2> QED BY <1>3, <2>1, IndexEffect DEF quotaVars
<1>4. ASSUME NEW w \in Indexers, NEW k \in Kinds, NEW c \in Collections, NEW d \in Documents,
             IndexDocument(w, k, c, d)
      PROVE  CollectionTypeOK' /\ Busy'
  <2> DEFINE t == [IdleIndexer EXCEPT !.step = "started", !.kind = k, !.collection = c,
                                      !.document = d]
  <2>1. t \in Indexer /\ t.collection = c /\ t.document = d
    BY DEF Indexer, IdleIndexer
  <2>2. indexer' = [indexer EXCEPT ![w] = t]
    BY <1>4 DEF IndexDocument
  <2>3. indexer' \in [Indexers -> Indexer] /\ Busy'
    BY <2>1, <2>2 DEF Busy
  <2> QED BY <1>4, <2>3 DEF IndexDocument, quotaVars, storeVars
<1>5. ASSUME NEW r \in Deleters, NEW c \in Collections, DeleteCheck(r, c)
      PROVE  CollectionTypeOK' /\ Busy'
  <2> DEFINE D == [step : DeleteSteps, retries : 0 .. MaxTaskRetries,
                   collection : Collections \cup {NoCollection}]
  <2>1. /\ deleter[r] \in D
        /\ deleter' = [deleter EXCEPT ![r] = [deleter[r] EXCEPT !.step = "checked",
                                                                !.collection = c]]
    BY <1>5 DEF DeleteCheck
  <2>2. [deleter[r] EXCEPT !.step = "checked", !.collection = c] \in D
    BY <2>1 DEF DeleteSteps
  <2>3. deleter' \in [Deleters -> D]
    BY <2>1, <2>2
  <2> QED BY <1>5, <2>3 DEF DeleteCheck, quotaVars, storeVars, Busy
<1>6. ASSUME NEW r \in Deleters, DeleteCommit(r) PROVE CollectionTypeOK' /\ Busy'
  <2>1. /\ usage' \in Nat /\ unpaid' \in Nat /\ recount' \in [Recounts -> Recount]
        /\ row' \in [Collections -> RowStatus]
    <3> DEFINE c == deleter[r].collection
    <3>1. /\ row[c] \in {"ACTIVE", "DELETED"} /\ row' = [row EXCEPT ![c] = "DELETED"]
          /\ usage' = ReleasedQuota(usage)
          /\ row[c] = "DELETED" => unpaid' = unpaid + 1 /\ recount' = recount
          /\ row[c] = "ACTIVE" => unpaid' = unpaid /\ Missed(0, 1)
      BY <1>6, DeleteEffect
    <3>2. recount' \in [Recounts -> Recount]
      BY <3>1, MissedTyped
    <3>3. usage' \in Nat /\ unpaid' \in Nat
      BY <3>1 DEF ReleasedQuota
    <3>4. row' \in [Collections -> RowStatus]
      BY <3>1 DEF RowStatus
    <3> QED BY <3>2, <3>3, <3>4
  <2>2. /\ UNCHANGED <<limit, init, indexer, stores, indexed, lost, overpaid>>
        /\ deleter' \in [Deleters -> [step : DeleteSteps, retries : 0 .. MaxTaskRetries,
                                      collection : Collections \cup {NoCollection}]]
        /\ mishaps' \subseteq Mishaps
    BY <1>6, DeleteEffect DEF storeVars
  <2> QED BY <2>1, <2>2 DEF Busy
<1>7. ASSUME NEW r \in Deleters, DeleteTask(r) PROVE CollectionTypeOK' /\ Busy'
  <2>1. stores' \in [Collections -> [Kinds -> {NoStore} \cup SUBSET Documents]]
    <3>1. deleter[r].collection \in Collections
      BY <1>7, DropEffect DEF Asked
    <3>2. NoStore \in {NoStore} \cup SUBSET Documents
      OBVIOUS
    <3> HIDE DEF CollectionTypeOK
    <3>3. UNCHANGED stores \/ \E k \in Kinds :
            stores' = [stores EXCEPT ![deleter[r].collection][k] = NoStore]
      BY <1>7, DropEffect
    <3>4. stores \in [Collections -> [Kinds -> {NoStore} \cup SUBSET Documents]]
      BY DEF CollectionTypeOK
    <3>5. ASSUME NEW k \in Kinds
          PROVE  [stores EXCEPT ![deleter[r].collection][k] = NoStore]
                   \in [Collections -> [Kinds -> {NoStore} \cup SUBSET Documents]]
      BY <3>1, <3>2, <3>4
    <3> QED BY <3>3, <3>4, <3>5
  <2>2. /\ UNCHANGED <<row, usage, limit, recount, unpaid, overpaid, init, indexer, indexed,
                       lost>>
        /\ deleter' \in [Deleters -> [step : DeleteSteps, retries : 0 .. MaxTaskRetries,
                                      collection : Collections \cup {NoCollection}]]
        /\ mishaps' \subseteq Mishaps
    BY <1>7, DropEffect DEF quotaVars
  <2> QED BY <2>1, <2>2 DEF Busy
<1>8. ASSUME \/ \E n \in Limits : UpdateCollectionLimit(n)
             \/ \E q \in Recounts : CountCollections(q) \/ WriteCount(q)
      PROVE  CollectionTypeOK' /\ Busy'
  BY <1>8, RecountEffect DEF storeVars, Busy
<1>9. CASE UNCHANGED collectionVars
  BY <1>9 DEF collectionVars, quotaVars, storeVars, Busy
<1> QED BY <1>1, <1>2, <1>3, <1>4, <1>5, <1>6, <1>7, <1>8, <1>9 DEF CollectionNext

\* A row never becomes absent again, and DELETED is its last status.
LEMMA RowsLast ==
  ASSUME CollectionTypeOK, Asked, Busy, [CollectionNext]_collectionVars
  PROVE  \A c \in Collections : /\ row[c] # "absent" => row'[c] # "absent"
                                /\ row[c] = "DELETED" => row'[c] = "DELETED"
<1>0. row \in [Collections -> RowStatus]
  BY DEF CollectionTypeOK
<1>1. ASSUME NEW c \in Collections, CreateCollection(c)
      PROVE  row[c] = "absent" /\ row' = [row EXCEPT ![c] = "ACTIVE"]
  BY <1>1 DEF CreateCollection
<1>2. ASSUME NEW r \in Deleters, DeleteCommit(r)
      PROVE  row' = [row EXCEPT ![deleter[r].collection] = "DELETED"]
  BY <1>2 DEF DeleteCommit
<1>3. \/ row' = row \/ \E c \in Collections : CreateCollection(c)
      \/ \E r \in Deleters : DeleteCommit(r)
  BY InitEffect, IndexEffect, DropEffect, RecountEffect
     DEF CollectionNext, collectionVars, IndexDocument, DeleteCheck
<1> QED BY <1>0, <1>1, <1>2, <1>3

\* No deletion is confused about its collection.
LEMMA AskedInv ==
  ASSUME CollectionTypeOK, Asked, Busy, [CollectionNext]_collectionVars
  PROVE  Asked'
<1> SUFFICES ASSUME NEW r \in Deleters, deleter'[r].step # "idle"
             PROVE  /\ deleter'[r].collection \in Collections
                    /\ row'[deleter'[r].collection] # "absent"
                    /\ deleter'[r].step \in {"queued", "vectors"} =>
                         row'[deleter'[r].collection] = "DELETED"
  BY DEF Asked
<1>1. CASE deleter'[r] = deleter[r]
  BY <1>1, RowsLast DEF Asked
<1>2. CASE \E c \in Collections : DeleteCheck(r, c)
  BY <1>2 DEF DeleteCheck, CollectionTypeOK
<1>3. CASE DeleteCommit(r)
  <2>1. row \in [Collections -> RowStatus]
    BY DEF CollectionTypeOK
  <2> QED BY <1>3, <2>1, DeleteEffect
<1>4. CASE DeleteTask(r)
  BY <1>4, DropEffect DEF Asked
<1>5. ASSUME NEW s \in Deleters \ {r}, DeleteTask(s) \/ DeleteCommit(s)
                                       \/ \E c \in Collections : DeleteCheck(s, c)
      PROVE  deleter'[r] = deleter[r]
  <2>1. ASSUME NEW c \in Collections, DeleteCheck(s, c) PROVE deleter'[r] = deleter[r]
    BY <2>1 DEF DeleteCheck, CollectionTypeOK
  <2> QED BY <1>5, <2>1, DropEffect, DeleteEffect
<1>6. CASE UNCHANGED deleter
  BY <1>1, <1>6
<1>7. \/ UNCHANGED deleter
      \/ \E s \in Deleters : \/ DeleteTask(s) \/ DeleteCommit(s)
                             \/ \E c \in Collections : DeleteCheck(s, c)
  BY InitEffect, IndexEffect, RecountEffect
     DEF CollectionNext, collectionVars, CreateCollection, IndexDocument
<1> QED BY <1>1, <1>2, <1>3, <1>4, <1>5, <1>6, <1>7

\* A store of a collection that is not deleted is never dropped; what a
\* creation empties or a task passes over is lost.
LEMMA StoredInv ==
  ASSUME CollectionTypeOK, Asked, Busy, Stored, [CollectionNext]_collectionVars
  PROVE  Stored'
<1> SUFFICES ASSUME NEW c \in Collections, NEW k \in Kinds, row'[c] # "DELETED"
             PROVE  StoredIn(c, k)'
  BY DEF Stored
<1>1. row[c] # "DELETED" /\ StoredIn(c, k)
  BY RowsLast DEF Stored
<1>2. /\ stores \in [Collections -> [Kinds -> {NoStore} \cup SUBSET Documents]]
      /\ indexed \in [Collections -> [Kinds -> SUBSET Documents]]
      /\ lost \in [Collections -> [Kinds -> SUBSET Documents]]
      /\ \A d \in Collections, l \in Kinds : Contents(stores[d][l]) \in SUBSET Documents
  BY DEF CollectionTypeOK, Contents
<1>3. CASE /\ stores'[c][k] = stores[c][k] /\ indexed'[c][k] = indexed[c][k]
           /\ lost'[c][k] = lost[c][k]
  BY <1>1, <1>3 DEF StoredIn
<1>4. ASSUME NEW d \in Collections, InitTask(d) PROVE StoredIn(c, k)'
  <2>1. indexed' = indexed
    BY <1>4, InitEffect
  <2>2. CASE UNCHANGED storeVars
    BY <1>3, <2>2 DEF storeVars
  <2>3. CASE /\ stores' = [stores EXCEPT ![d]["VECTOR"] = {}]
             /\ lost' = [lost EXCEPT ![d]["VECTOR"] =
                           lost[d]["VECTOR"] \cup Contents(stores[d]["VECTOR"])]
    <3>1. CASE c = d /\ k = "VECTOR"
      <4>1. lost'[c][k] = lost[c][k] \cup Contents(stores[c][k])
        BY <1>2, <2>3, <3>1, KindsAre
      <4> QED BY <1>1, <2>1, <4>1 DEF StoredIn
    <3>2. CASE ~ (c = d /\ k = "VECTOR")
      BY <1>2, <1>3, <2>1, <2>3, <3>2, KindsAre
    <3> QED BY <3>1, <3>2
  <2>4. CASE /\ stores' = [stores EXCEPT ![d]["FULLTEXT"] = Contents(stores[d]["FULLTEXT"])]
             /\ UNCHANGED lost
    <3>1. CASE c = d /\ k = "FULLTEXT"
      <4>1. stores'[c][k] = Contents(stores[c][k])
        BY <1>2, <2>4, <3>1, KindsAre
      <4>2. Contents(stores'[c][k]) = Contents(stores[c][k])
        BY <1>2, <4>1, ContentsOf
      <4> QED BY <1>1, <2>1, <2>4, <4>2 DEF StoredIn
    <3>2. CASE ~ (c = d /\ k = "FULLTEXT")
      BY <1>2, <1>3, <2>1, <2>4, <3>2, KindsAre
    <3> QED BY <3>1, <3>2
  <2> QED BY <1>4, <2>2, <2>3, <2>4, InitEffect
<1>5. ASSUME NEW w \in Indexers, IndexTask(w) PROVE StoredIn(c, k)'
  <2>1. CASE UNCHANGED storeVars
    BY <1>3, <2>1 DEF storeVars
  <2>2. CASE ~ UNCHANGED storeVars
    <3>1. PICK b \in Collections, l \in Kinds, d \in Documents :
            /\ indexed' = [indexed EXCEPT ![b][l] = indexed[b][l] \cup {d}]
            /\ \/ /\ stores' = [stores EXCEPT ![b][l] = Contents(stores[b][l]) \cup {d}]
                  /\ lost' = [lost EXCEPT ![b][l] = lost[b][l] \ {d}]
               \/ /\ lost' = [lost EXCEPT ![b][l] = lost[b][l] \cup {d}]
                  /\ UNCHANGED stores
      BY <1>5, <2>2, IndexEffect
    <3>2. CASE c = b /\ k = l
      <4>1. indexed'[c][k] = indexed[c][k] \cup {d}
        BY <1>2, <3>1, <3>2
      <4>2. CASE /\ stores' = [stores EXCEPT ![b][l] = Contents(stores[b][l]) \cup {d}]
                 /\ lost' = [lost EXCEPT ![b][l] = lost[b][l] \ {d}]
        <5>1. stores'[c][k] = Contents(stores[c][k]) \cup {d} /\ lost'[c][k] = lost[c][k] \ {d}
          BY <1>2, <3>2, <4>2
        <5>2. Contents(stores'[c][k]) = Contents(stores[c][k]) \cup {d}
          <6>1. Contents(stores[c][k]) \cup {d} \in SUBSET Documents
            BY <1>2
          <6> QED BY <5>1, <6>1, ContentsOf
        <5> QED BY <1>1, <4>1, <5>1, <5>2 DEF StoredIn
      <4>3. CASE lost' = [lost EXCEPT ![b][l] = lost[b][l] \cup {d}] /\ UNCHANGED stores
        <5>1. lost'[c][k] = lost[c][k] \cup {d}
          BY <1>2, <3>2, <4>3
        <5> QED BY <1>1, <4>1, <4>3, <5>1 DEF StoredIn
      <4> QED BY <3>1, <4>2, <4>3
    <3>3. CASE ~ (c = b /\ k = l)
      BY <1>2, <1>3, <3>1, <3>3
    <3> QED BY <3>2, <3>3
  <2> QED BY <2>1, <2>2
<1>6. ASSUME NEW r \in Deleters, DeleteTask(r) PROVE StoredIn(c, k)'
  <2>1. deleter[r].collection \in Collections /\ deleter[r].collection # c
    BY <1>1, <1>6, DropEffect DEF Asked
  <2>2. stores'[c][k] = stores[c][k] /\ UNCHANGED <<indexed, lost>>
    BY <1>2, <1>6, <2>1, DropEffect
  <2> QED BY <1>3, <2>2
<1>7. CASE UNCHANGED storeVars
  BY <1>3, <1>7 DEF storeVars
<1>8. UNCHANGED storeVars \/ (\E d \in Collections : InitTask(d))
      \/ (\E w \in Indexers : IndexTask(w)) \/ (\E r \in Deleters : DeleteTask(r))
  BY DeleteEffect, RecountEffect
     DEF CollectionNext, collectionVars, CreateCollection, IndexDocument, DeleteCheck
<1> QED BY <1>4, <1>5, <1>6, <1>7, <1>8

\* A creation and a deletion move the quota and the number of collections
\* alike, and every count that waits takes note of them; a deletion of what
\* was deleted moves the quota and what is unpaid.
LEMMA UsageInv ==
  ASSUME CollectionTypeOK, Asked, Busy, Counted, UsageIsExplained,
         [CollectionNext]_collectionVars
  PROVE  UsageIsExplained' /\ Counted'
<1> DEFINE n == Cardinality(ActiveCollections)
<1>0. /\ IsFiniteSet(ActiveCollections) /\ n \in Nat /\ usage \in Nat /\ unpaid \in Nat
      /\ overpaid \in Nat /\ recount \in [Recounts -> Recount]
      /\ \A q \in Recounts : /\ recount[q].count \in Nat /\ recount[q].created \in Nat
                             /\ recount[q].deleted \in Nat
  BY ActiveFinite DEF ActiveCount, CollectionTypeOK, Recount
<1>1. ASSUME NEW c \in Collections, CreateCollection(c) PROVE UsageIsExplained' /\ Counted'
  <2>1. ActiveCollections' = ActiveCollections \cup {c} /\ c \notin ActiveCollections
    BY <1>1 DEF CreateCollection, ActiveCollections, CollectionTypeOK
  <2>2. n' = n + 1
    BY <1>0, <2>1, FS_AddElement
  <2>3. usage' = usage + 1 /\ unpaid' = unpaid /\ overpaid' = overpaid /\ Missed(1, 0)
    BY <1>1 DEF CreateCollection
  <2> HIDE DEF n
  <2>4. UsageIsExplained'
    BY <1>0, <2>2, <2>3 DEF UsageIsExplained, n
  <2>5. Counted'
    BY <1>0, <2>2, <2>3, MissedTyped DEF Counted, n
  <2> QED BY <2>4, <2>5
<1>2. ASSUME NEW r \in Deleters, DeleteCommit(r) PROVE UsageIsExplained' /\ Counted'
  <2> DEFINE c == deleter[r].collection
  <2>1. c \in Collections /\ row[c] \in {"ACTIVE", "DELETED"} /\ row' = [row EXCEPT ![c] = "DELETED"]
        /\ usage' = (IF usage > 0 THEN usage - 1 ELSE 0) /\ overpaid' = overpaid
    BY <1>2, DeleteEffect DEF ReleasedQuota
  <2>2. CASE row[c] = "ACTIVE"
    <3>1. ActiveCollections' = ActiveCollections \ {c} /\ c \in ActiveCollections
      BY <2>1, <2>2 DEF ActiveCollections, CollectionTypeOK
    <3>2. n' \in Nat /\ n' = n - 1
      BY <1>0, <3>1, FS_RemoveElement, FS_CardinalityType
    <3>3. unpaid' = unpaid /\ Missed(0, 1)
      BY <1>2, <2>2, DeleteEffect
    <3> HIDE DEF n
    <3>4. UsageIsExplained'
      BY <1>0, <2>1, <3>2, <3>3 DEF UsageIsExplained, n
    <3>5. Counted'
      BY <1>0, <3>2, <3>3, MissedTyped DEF Counted, n
    <3> QED BY <3>4, <3>5
  <2>3. CASE row[c] = "DELETED"
    <3>1. ActiveCollections' = ActiveCollections
      BY <2>1, <2>3 DEF ActiveCollections, CollectionTypeOK
    <3>2. unpaid' = unpaid + 1 /\ recount' = recount /\ n' = n
      BY <1>2, <2>3, <3>1, DeleteEffect
    <3> QED BY <1>0, <2>1, <3>1, <3>2 DEF UsageIsExplained, Counted
  <2> QED BY <2>1, <2>2, <2>3
<1>3. ASSUME NEW q \in Recounts, CountCollections(q) PROVE UsageIsExplained' /\ Counted'
  <2> DEFINE new == [IdleRecount EXCEPT !.step = "counted", !.count = n]
  <2>1. /\ ActiveCollections' = ActiveCollections /\ UNCHANGED <<usage, unpaid, overpaid>>
        /\ recount' = [recount EXCEPT ![q] = new]
    BY <1>3 DEF CountCollections, ActiveCollections
  <2>2. new.count = n /\ new.created = 0 /\ new.deleted = 0
    BY DEF IdleRecount
  <2> HIDE DEF new
  <2>3. Counted'
    BY <1>0, <2>1, <2>2 DEF Counted
  <2> QED BY <2>1, <2>3 DEF UsageIsExplained
<1>4. ASSUME NEW q \in Recounts, WriteCount(q) PROVE UsageIsExplained' /\ Counted'
  <2>1. /\ ActiveCollections' = ActiveCollections /\ recount[q].step = "counted"
        /\ usage' = recount[q].count /\ unpaid' = recount[q].created
        /\ overpaid' = recount[q].deleted /\ recount' = [recount EXCEPT ![q] = IdleRecount]
    BY <1>4 DEF WriteCount, ActiveCollections
  <2>2. IdleRecount.step = "idle"
    BY DEF IdleRecount
  <2> QED BY <1>0, <2>1, <2>2 DEF UsageIsExplained, Counted
<1>5. CASE UNCHANGED <<row, usage, recount, unpaid, overpaid>>
  BY <1>5 DEF UsageIsExplained, Counted, ActiveCollections
<1>6. \/ UNCHANGED <<row, usage, recount, unpaid, overpaid>>
      \/ \E c \in Collections : CreateCollection(c)
      \/ \E r \in Deleters : DeleteCommit(r)
      \/ \E q \in Recounts : CountCollections(q) \/ WriteCount(q)
  BY InitEffect, IndexEffect, DropEffect
     DEF CollectionNext, collectionVars, quotaVars, UpdateCollectionLimit, IndexDocument,
         DeleteCheck
<1> QED BY <1>1, <1>2, <1>3, <1>4, <1>5, <1>6

\* The invariant holds in every state.
LEMMA CollectionInvariance == CollectionSpec => []CollectionIInv
<1>1. CollectionInit => CollectionIInv
  <2> SUFFICES ASSUME CollectionInit PROVE CollectionIInv
    OBVIOUS
  <2>1. ActiveCollections = {}
    BY DEF CollectionInit, ActiveCollections
  <2>2. Cardinality(ActiveCollections) = 0
    BY <2>1, FS_EmptySet
  <2>3. UsageIsExplained /\ Counted
    BY <2>2 DEF UsageIsExplained, Counted, CollectionInit, IdleRecount
  <2>4. CollectionTypeOK
    BY NumbersAreNatural
       DEF CollectionInit, CollectionTypeOK, RowStatus, InitSteps, DeleteSteps, Mishaps,
           Recount, IdleRecount, Indexer, IdleIndexer, Kinds
  <2>5. Asked /\ Busy /\ Stored
    BY DEF CollectionInit, Asked, Busy, IdleIndexer, Stored, StoredIn
  <2> QED BY <2>3, <2>4, <2>5 DEF CollectionIInv
<1>2. CollectionIInv /\ [CollectionNext]_collectionVars => CollectionIInv'
  BY CollectionTypeInv, AskedInv, StoredInv, UsageInv DEF CollectionIInv
<1> QED BY <1>1, <1>2, PTL DEF CollectionSpec

\* The variables of the life of collections always have their types.
THEOREM CollectionTypeCorrect == CollectionSpec => []CollectionTypeOK
<1>1. CollectionIInv => CollectionTypeOK
  BY DEF CollectionIInv
<1> QED BY <1>1, CollectionInvariance, PTL

\* The quota is the number of the collections, but for the places that
\* deletions of a deleted collection freed and for what committed between the
\* count and the write of a recalculation, whatever tasks and retries do.
THEOREM UsageExplained == CollectionSpec => []UsageIsExplained
<1>1. CollectionIInv => UsageIsExplained
  BY DEF CollectionIInv
<1> QED BY <1>1, CollectionInvariance, PTL

\* A collection is created only where the limit of that moment has room.
THEOREM CreatedInLimit == CollectionSpec => CreatedWithinLimit
<1>1. CollectionIInv /\ [CollectionNext]_collectionVars =>
        [~ ActiveCollections' \subseteq ActiveCollections =>
           Cardinality(ActiveCollections') <= limit + unpaid]_collectionVars
  <2> SUFFICES ASSUME CollectionIInv, [CollectionNext]_collectionVars,
                      ~ ActiveCollections' \subseteq ActiveCollections
               PROVE  Cardinality(ActiveCollections') <= limit + unpaid
    OBVIOUS
  <2>1. CollectionTypeOK /\ Asked /\ Busy /\ UsageIsExplained
    BY DEF CollectionIInv
  <2>2. PICK c \in Collections : CreateCollection(c)
    <3>1. ASSUME NEW r \in Deleters, DeleteCommit(r)
          PROVE  ActiveCollections' \subseteq ActiveCollections
      BY <2>1, <3>1, DeleteEffect DEF ActiveCollections, CollectionTypeOK
    <3>2. row' = row => ActiveCollections' \subseteq ActiveCollections
      BY DEF ActiveCollections
    <3> QED BY <2>1, <3>1, <3>2, InitEffect, IndexEffect, DropEffect, RecountEffect
            DEF CollectionNext, collectionVars, IndexDocument, DeleteCheck
  <2>3. /\ ActiveCollections' = ActiveCollections \cup {c} /\ c \notin ActiveCollections
        /\ usage + 1 <= limit
    BY <2>1, <2>2 DEF CreateCollection, ActiveCollections, CollectionTypeOK, HasRoom
  <2>4. Cardinality(ActiveCollections') = Cardinality(ActiveCollections) + 1
    BY <2>1, <2>3, ActiveFinite, FS_AddElement
  <2>5. /\ Cardinality(ActiveCollections) \in Nat /\ usage \in Nat /\ limit \in Nat
        /\ unpaid \in Nat
    BY <2>1, ActiveFinite, NumbersAreNatural DEF ActiveCount, CollectionTypeOK
  <2> QED BY <2>1, <2>3, <2>4, <2>5 DEF UsageIsExplained
<1> QED BY <1>1, CollectionInvariance, PTL DEF CollectionSpec, CreatedWithinLimit

\* An ACTIVE index stays in its store until its collection is deleted, unless
\* initialisation empties the store of it, or it was never put there.
THEOREM IndexedStays == CollectionSpec => []IndexedIsStored
<1>1. CollectionIInv => IndexedIsStored
  BY DEF CollectionIInv, Stored, StoredIn, IndexedIsStored, ActiveCollections
<1> QED BY <1>1, CollectionInvariance, PTL
=============================================================================
