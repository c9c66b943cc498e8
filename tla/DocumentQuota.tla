---------------------------- MODULE DocumentQuota ----------------------------
(***************************************************************************)
(* The document quota of one user: the row max_document_count of           *)
(* user_quota (aperag/service/quota_service.py), and the requests that add *)
(* documents to collections and take them out of them                      *)
(* (aperag/service/document_service.py).                                   *)
(*                                                                         *)
(* A request is one transaction.  SELECT ... FOR UPDATE and a flushed      *)
(* UPDATE or INSERT hold their row until it ends; the other reads see what *)
(* is committed.  A document is a name in a collection: after its deletion *)
(* the name is not used again.                                             *)
(***************************************************************************)
EXTENDS Naturals, FiniteSets

CONSTANTS
    Collections,     \* collections of the user
    Names,           \* file names
    Requests,        \* API workers, each with at most one open transaction
    NoRequest,       \* the holder of a free row
    Limits,          \* values an administrator gives max_document_count
    CollectionLimits \* and max_document_count_per_collection

ASSUME ConstantsAssumption ==
    /\ Collections # {} /\ Names # {}
    /\ IsFiniteSet(Collections) /\ IsFiniteSet(Names)
    /\ NoRequest \notin Requests
    /\ Limits # {} /\ Limits \subseteq Nat
    /\ CollectionLimits # {} /\ CollectionLimits \subseteq Nat

VARIABLES
    doc,        \* Document.status; ADDED stands for PENDING and what follows it
    limit,      \* quota_limit
    perCollection, \* quota_limit of max_document_count_per_collection
    usage,      \* current_usage
    unpaid,     \* history: documents the usage does not count any more
    quotaLock,  \* the request that holds the quota row
    docLock,    \* the request that holds the row of a document
    req         \* open requests

vars == <<doc, limit, perCollection, usage, unpaid, quotaLock, docLock, req>>

-----------------------------------------------------------------------------
Docs == Collections \X Names
DocumentStatus == {"NONE", "UPLOADED", "ADDED", "EXPIRED", "DELETED"}

NoDoc == <<>>

\* todo: documents of the request not yet handled.  mine: those it has
\* flushed.  amount: what it consumes.  read: the limit of the collection, or the
\* usage, that it read.
\* used: current_usage as it will be written.
Request == [op : {"none", "create", "confirm", "delete", "expire", "recount"},
            pc : {"idle", "quota", "count", "next", "found", "release", "recounted", "write"},
            todo : SUBSET Docs, cur : Docs \cup {NoDoc}, mine : SUBSET Docs,
            amount : Nat, read : Nat, used : Nat]

IdleRequest == [op |-> "none", pc |-> "idle", todo |-> {}, cur |-> NoDoc, mine |-> {},
                amount |-> 0, read |-> 0, used |-> 0]

Init ==
    /\ doc = [d \in Docs |-> "NONE"]
    /\ limit \in Limits
    /\ perCollection \in CollectionLimits
    /\ usage = 0
    /\ unpaid = 0
    /\ quotaLock = NoRequest
    /\ docLock = [d \in Docs |-> NoRequest]
    /\ req = [r \in Requests |-> IdleRequest]

WithStatus(statuses) == {d \in Docs : doc[d] \in statuses}
Added == WithStatus({"ADDED"})

\* A row lock: a request waits while another holds the row.
FreeForAll(holder, r) == TRUE    \* mutant: no FOR UPDATE
Free(holder, r) == holder \in {NoRequest, r}

KeepsQuota(r) ==    \* mutant: the transaction is not rolled back
    /\ docLock' = [d \in Docs |-> IF docLock[d] = r THEN NoRequest ELSE docLock[d]]
    /\ UNCHANGED quotaLock

Unlock(r) ==
    /\ docLock' = [d \in Docs |-> IF docLock[d] = r THEN NoRequest ELSE docLock[d]]
    /\ quotaLock' = IF quotaLock = r THEN NoRequest ELSE quotaLock

\* The transaction ends without effect.
Abort(r) ==
    /\ req' = [req EXCEPT ![r] = IdleRequest]
    /\ Unlock(r)

-----------------------------------------------------------------------------
\* upload_document: INSERT ... ON CONFLICT DO NOTHING.
UploadDocument(d) ==
    /\ doc[d] = "NONE"
    /\ docLock[d] = NoRequest
    /\ doc' = [doc EXCEPT ![d] = "UPLOADED"]
    /\ UNCHANGED <<limit, perCollection, usage, unpaid, quotaLock, docLock, req>>

\* create_documents, confirm_documents and delete_documents take a list of
\* names or ids of one collection; nothing is asked of their state.
Begin(r, op, D) ==
    /\ req[r].pc = "idle"
    /\ req' = [req EXCEPT ![r] = [IdleRequest EXCEPT
                 !.op = op, !.pc = IF op = "delete" THEN "next" ELSE "quota",
                 !.todo = D, !.amount = Cardinality(D)]]
    /\ UNCHANGED <<doc, limit, perCollection, usage, unpaid, quotaLock, docLock>>

OverByOne(amount) == usage > limit    \* mutant
OverLimit(amount) == usage + amount > limit

\* check_and_consume_quota.
ConsumeQuota(r) ==
    /\ req[r].pc = "quota"
    /\ Free(quotaLock, r)
    /\ IF OverLimit(req[r].amount)
       THEN Abort(r)
       ELSE /\ quotaLock' = r
            /\ req' = [req EXCEPT ![r].pc = "count", ![r].used = usage + req[r].amount]
            /\ UNCHANGED docLock
    /\ UNCHANGED <<doc, limit, perCollection, usage, unpaid>>

CollectionOf(r) == CHOOSE c \in Collections : \A d \in req[r].todo : d[1] = c

\* Staged documents are not counted, expired ones are.
IgnoresAmount(c, amount) ==    \* mutant
    Cardinality({d \in WithStatus({"ADDED", "EXPIRED"}) : d[1] = c}) > perCollection
OverCollectionLimit(c, amount) ==
    Cardinality({d \in WithStatus({"ADDED", "EXPIRED"}) : d[1] = c}) + amount > perCollection

\* The count and the limit are read without a lock.
CheckCollection(r) ==
    /\ req[r].pc = "count"
    /\ IF OverCollectionLimit(CollectionOf(r), req[r].amount)
       THEN Abort(r)
       ELSE /\ req' = [req EXCEPT ![r].pc = "next", ![r].read = perCollection]
            /\ UNCHANGED <<quotaLock, docLock>>
    /\ UNCHANGED <<doc, limit, perCollection, usage, unpaid>>

\* The statuses a request acts on; it passes over the others, whose quota
\* stays consumed.
Wanted(op) ==
    IF op = "create" THEN {"NONE"}
    ELSE IF op = "confirm" THEN {"UPLOADED"}
    ELSE {"UPLOADED", "ADDED", "EXPIRED"}

\* The SELECT of a document (of _check_duplicate_document, for a file).
QueryDocument(r, d) ==
    /\ req[r].pc = "next"
    /\ d \in req[r].todo
    /\ req' = [req EXCEPT ![r].todo = @ \ {d},
                          ![r].pc = IF doc[d] \in Wanted(req[r].op) THEN "found" ELSE @,
                          ![r].cur = IF doc[d] \in Wanted(req[r].op) THEN d ELSE @]
    /\ UNCHANGED <<doc, limit, perCollection, usage, unpaid, quotaLock, docLock>>

\* The row is written and held; a new one may meet the unique index.
FlushDocument(r) ==
    LET d == req[r].cur
    IN  /\ req[r].pc = "found"
        /\ req[r].op # "expire"
        /\ Free(docLock[d], r)
        /\ IF req[r].op = "create" /\ doc[d] # "NONE"
           THEN Abort(r)
           ELSE /\ docLock' = [docLock EXCEPT ![d] = r]
                /\ req' = [req EXCEPT ![r].mine = @ \cup {d}, ![r].cur = NoDoc,
                             ![r].pc = IF req[r].op = "delete" THEN "release" ELSE "next"]
                /\ UNCHANGED quotaLock
        /\ UNCHANGED <<doc, limit, perCollection, usage, unpaid>>

\* release_quota, after each document of a deletion.
Less(n) == IF n = 0 THEN 0 ELSE n - 1

ReleaseQuota(r) ==
    /\ req[r].pc = "release"
    /\ Free(quotaLock, r)
    /\ quotaLock' = r
    /\ req' = [req EXCEPT ![r].pc = "next",
                          ![r].used = Less(IF quotaLock = r THEN @ ELSE usage)]
    /\ UNCHANGED <<doc, limit, perCollection, usage, unpaid, docLock>>

Commit(r) ==
    LET q == req[r]
        deletes == q.op = "delete"
    IN  /\ q.pc = "next"
        /\ q.todo = {}
        /\ doc' = [d \in Docs |-> IF d \notin q.mine THEN doc[d]
                                  ELSE IF deletes THEN "DELETED" ELSE "ADDED"]
        /\ usage' = IF deletes /\ q.mine = {} THEN usage ELSE q.used
        /\ unpaid' = IF deletes THEN unpaid + Cardinality(q.mine \ Added) ELSE unpaid
        /\ Abort(r)
        /\ UNCHANGED <<limit, perCollection>>

-----------------------------------------------------------------------------
\* cleanup_expired_documents, for one of the documents it finds.
FindExpired(r, d) ==
    /\ req[r].pc = "idle"
    /\ doc[d] = "UPLOADED"
    /\ req' = [req EXCEPT ![r] = [IdleRequest EXCEPT !.op = "expire", !.pc = "found",
                                                     !.cur = d]]
    /\ UNCHANGED <<doc, limit, perCollection, usage, unpaid, quotaLock, docLock>>

\* recalculate_user_usage counts the documents that are not DELETED, reads
\* the quota without a lock, and writes the count if it is another value.
Recount(r) ==
    /\ req[r].pc = "idle"
    /\ req' = [req EXCEPT ![r] = [IdleRequest EXCEPT !.op = "recount", !.pc = "recounted",
                 !.used = Cardinality(WithStatus({"UPLOADED", "ADDED", "EXPIRED"}))]]
    /\ UNCHANGED <<doc, limit, perCollection, usage, unpaid, quotaLock, docLock>>

ReadUsage(r) ==
    /\ req[r].pc = "recounted"
    /\ req' = [req EXCEPT ![r].pc = "write", ![r].read = usage]
    /\ UNCHANGED <<doc, limit, perCollection, usage, unpaid, quotaLock, docLock>>

WriteUsage(r) ==
    LET added == Cardinality(Added)
    IN  /\ req[r].pc = "write"
        /\ Free(quotaLock, r)
        /\ IF req[r].read = req[r].used
           THEN UNCHANGED <<usage, unpaid>>
           ELSE /\ usage' = req[r].used
                /\ unpaid' = IF added > req[r].used THEN added - req[r].used ELSE 0
        /\ req' = [req EXCEPT ![r] = IdleRequest]
        /\ UNCHANGED <<doc, limit, perCollection, quotaLock, docLock>>

\* update_user_quota writes the column quota_limit alone, of one row or of
\* several, whatever the usage; a batch of two rows is two of these steps.
UpdateUserQuota(n) ==
    /\ quotaLock = NoRequest
    /\ limit' = n
    /\ UNCHANGED <<doc, perCollection, usage, unpaid, quotaLock, docLock, req>>

UpdateCollectionQuota(n) ==
    /\ perCollection' = n
    /\ UNCHANGED <<doc, limit, usage, unpaid, quotaLock, docLock, req>>

ExpireDocument(r) ==
    /\ req[r].pc = "found" /\ req[r].op = "expire"
    /\ Free(docLock[req[r].cur], r)
    /\ doc' = [doc EXCEPT ![req[r].cur] = "EXPIRED"]
    /\ req' = [req EXCEPT ![r] = IdleRequest]
    /\ UNCHANGED <<limit, perCollection, usage, unpaid, quotaLock, docLock>>

-----------------------------------------------------------------------------
\* The holder of the row a request waits for.
WaitsFor(r) ==
    IF req[r].pc \in {"quota", "release", "write"} THEN quotaLock
    ELSE IF req[r].pc = "found" THEN docLock[req[r].cur]
    ELSE NoRequest

InCycle(r) ==
    \E S \in SUBSET Requests :
        /\ r \in S
        /\ \A q \in S : WaitsFor(q) \in S \ {q} /\ \E p \in S : WaitsFor(p) = q

\* PostgreSQL aborts a transaction of a cycle (deadlock_timeout).
DeadlockDetected(r) ==
    /\ InCycle(r)
    /\ Abort(r)
    /\ UNCHANGED <<doc, limit, perCollection, usage, unpaid>>

Step(r) ==
    \/ ConsumeQuota(r) \/ CheckCollection(r)
    \/ \E d \in req[r].todo : QueryDocument(r, d)
    \/ FlushDocument(r)
    \/ ReleaseQuota(r) \/ Commit(r)
    \/ ReadUsage(r) \/ WriteUsage(r) \/ ExpireDocument(r)

Lists == (UNION {SUBSET ({c} \X Names) : c \in Collections}) \ {{}}

Next ==
    \/ \E d \in Docs : UploadDocument(d)
    \/ \E n \in Limits : UpdateUserQuota(n)
    \/ \E n \in CollectionLimits : UpdateCollectionQuota(n)
    \/ \E r \in Requests :
          \/ \E op \in {"create", "confirm", "delete"}, D \in Lists : Begin(r, op, D)
          \/ \E d \in Docs : FindExpired(r, d)
          \/ Recount(r)
          \/ Step(r)
          \/ DeadlockDetected(r)

Spec == Init /\ [][Next]_vars

\* PostgreSQL grants a row to those that wait for it in turn, and looks for
\* deadlocks while they wait.
FairSpec ==
    /\ Spec
    /\ \A r \in Requests : SF_vars(Step(r))
    /\ WF_vars(\E r \in Requests : DeadlockDetected(r))

-----------------------------------------------------------------------------
TypeOK ==
    /\ doc \in [Docs -> DocumentStatus]
    /\ limit \in Limits /\ perCollection \in CollectionLimits
    /\ usage \in Nat /\ unpaid \in Nat
    /\ quotaLock \in Requests \cup {NoRequest}
    /\ docLock \in [Docs -> Requests \cup {NoRequest}]
    /\ req \in [Requests -> Request]

\* The usage counts every document of the user's collections, except one
\* for each release that no consumption had paid for: of a document that
\* was only staged, had expired or was deleted twice (_delete_document), or
\* that a recalculation missed (recalculate_user_usage).
UsageIsAccounted == Cardinality(Added) <= usage + unpaid

\* Documents are added only while the user's limit, as it is at that moment,
\* has room for them, however requests and changes of the limit interleave
\* (check_and_consume_quota); unpaid releases are the only way round it.
GrowthIsPaid ==
    [][Added' \ Added # {} => Cardinality(Added') <= limit + unpaid]_vars

InCollection(c, D) == {d \in D : d[1] = c}

\* A request that adds documents to a collection leaves it within the
\* max_document_count_per_collection that it checked, although neither the
\* limit nor the count is locked, other requests add documents meanwhile, and
\* an administrator may set the limit below the count (_check_document_quotas,
\* update_user_quota).
CollectionGrowthHasRoom ==
    [][\A c \in Collections :
          ~ InCollection(c, Added') \subseteq Added =>
            \E r \in Requests :
              /\ req[r].pc = "next" /\ req'[r].pc = "idle"
              /\ Cardinality(InCollection(c, Added')) <= req[r].read]_vars

\* Every request ends: the rows are taken in an order that allows
\* deadlocks, and the database resolves each of them.
RequestsEnd == \A r \in Requests : []<>(req[r].pc = "idle")

\* The documented limit, without the exception.
LimitIsKept ==
    [][Added' \ Added # {} => Cardinality(Added') <= limit]_vars

=============================================================================
