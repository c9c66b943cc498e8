# fuseAgent (ApeRAG): a TLA+ model of its concurrent work

fuseAgent keeps documents in collections, builds search indexes and graphs from
them, and answers questions with agents. Its HTTP API writes rows of a
PostgreSQL database that say what is wanted; periodic Celery tasks compare that
with what there is, claim rows and send tasks; the tasks do the slow work and
close the rows. Nothing but the columns of those rows, a few Redis keys and the
order of commits keeps API workers, passes and tasks from getting in each
other's way. Inside an API worker, tasks of one event loop stream the answers of
agents and execute flows. The order in which all these get to work is what these
modules are about.

Paths below are relative to `src/`, and `aperag/` unless stated otherwise.

- [1. The system](#1-the-system): components, state, operations, interactions
- [2. The plan](#2-the-plan): modules in order, and what is left
- [3. How the models are made](#3-how-the-models-are-made)
- [4. The modules](#4-the-modules): correspondence with the code
- [5. What the runs show](#5-what-the-runs-show): bounds, fairness
- [6. Counterexamples](#6-counterexamples)
- [7. What is proved](#7-what-is-proved)
- [8. What is only model-checked, and what is not modelled](#8-what-is-only-model-checked-and-what-is-not-modelled)

Commands, in this directory:

    tlc -workers 2 -config IndexRequests.cfg MCIndexLifecycle
    tlapm LifecycleProofs.tla


## 1. The system

### Modelled components

**Document index lifecycle** (`index/manager.py`, `tasks/reconciler.py`,
`service/document_service.py`, `config/celery_tasks.py`).
State: `document.status` and `gmt_deleted`; one row of `document_index` per
document and index type with `status`, `version` (asked for) and
`observed_version` (done); Celery messages.
Operations: create, upload, confirm, rebuild, rebuild failed, delete, expire;
`reconcile_indexes_task` (scan, claim, dispatch, commit); parse, trigger,
create/update/delete tasks with retries; the callbacks `on_index_created`,
`on_index_deleted`, `on_index_failed`.
Hard: requests change rows while passes claim them and tasks work on them;
passes overlap; the workflow is sent *before* the claim is committed; callbacks
are late, lost, repeated; two callbacks compute one document status at a time.
Correct if: a version is worked on once, an index becomes ACTIVE only with the
version asked for, a deleted document stays deleted and is not searchable, every index
comes to rest.

**Collection summary** (`service/collection_summary_service.py`,
`CollectionSummaryReconciler` in `tasks/reconciler.py`,
`service/collection_service.py`).
State: the collection's config flag and description; its row of
`collection_summary` with `status`, `version`, `observed_version`.
Operations: creating, updating and deleting a collection, which trigger or
withdraw the summary in a second transaction, which may fail; passes that share one session over
all rows; the task; `on_summary_generated`, `on_summary_failed`.
Hard: overlapping passes; a failed broker call leaves a claim in the session of
the next row; triggers during generation; a text written over a user's edit.
Correct if: one task per version, COMPLETE only for the version asked for, an
update whose trigger runs by itself leaves a row exactly if the config wants one,
no GENERATING row without a task, every
generation ends.

**Evaluation** (`service/evaluation_service.py`,
`db/repositories/evaluation.py`, `concurrent_control/redis_lock.py`).
State: rows of `evaluations` (status, progress) and `evaluation_items`; one
Redis lock per evaluation; Celery messages.
Operations: create, pause, resume, retry, delete; the scan; initialise, process
a batch, process an item, finalise.
Hard: duplicate messages; workers that die between a claim and a result; items
that outlast the timeout; the lock expiring under its holder; pauses and retries
between a check and the write that rests on it.
Correct if: an item has one worker, COMPLETED means every item is, progress is
real, evaluations end.

**Document quota** (`service/quota_service.py`, `service/document_service.py`).
State: the user's rows of `user_quota` (`quota_limit` and `current_usage` of
`max_document_count`, `quota_limit` of `max_document_count_per_collection`), the
documents, row locks.
Operations: create, confirm and delete documents, expire, recalculate, change
either limit.
Hard: checks against a value that concurrent transactions change; releases that
nothing paid for; row locks taken in two orders.
Correct if: usage accounts for every document that was added, nobody adds past
the limit of that moment or past the collection's that it checked, every request
ends.

**Collections** (`service/collection_service.py`, `tasks/collection.py`,
`config/celery_tasks.py`).
State: the row's `status`; `quota_limit` and `current_usage` of
`max_collection_count`; a store of vectors in Qdrant and an index in
Elasticsearch for each collection.
Operations: create and delete, each in a transaction with its quota; recalculate
the usage, change the limit; `collection_init_task`, `collection_delete_task`,
with their retries; documents are indexed meanwhile.
Hard: a task is sent after the commit or not at all; creating a store that exists
empties it; a write to a store that is gone may create it again, or be left out;
concurrent deletions of one collection; a count that is written over later
changes; tasks that give up.
Correct if: the quota can be explained by the collections there are, none is
created past the limit, what is ACTIVE is stored unless it was emptied out or
passed over, stores come and go with the row.

**MiroFish graph** (`service/mirofish_graph_service.py`, `config/celery_tasks.py`,
`service/document_service.py`, `service/collection_service.py`).
State: `graph_revision`, `graph_status` and the active graph, fields of the JSON
config of a collection; a graph in Neo4j for each revision.
Operations: a confirmation requests a revision and sends a build; a build reads
the confirmed documents it can read, clears and fills the graph of its revision
and makes it the active one; failures are recorded; the collection is updated and deleted.
Hard: the config is read and written back as a whole, by requests, builds and
forms, without a lock; builds overlap, end out of order, are retried and
delivered again.
Correct if: a newer graph is never replaced by an older one, the graph that is
served exists and has what its build could read, a confirmed document gets into
it or the user sees a failure, unless the build could not read it.

**Locks** (`concurrent_control/redis_lock.py`).
State: one Redis key with a value and a time to live; for each holder whether it
believes it has the lock; its watchdog.
Operations: acquire, with attempts and a timeout; renew; release; expiry.
Hard: stalls, crashes, calls whose answer is lost, a key that expires under its
holder.
Correct if: nobody frees the lock of another, two holders are inside together
only after something went wrong, the key is always freed again.

**Flow engine** (`flow/engine.py`, `flow/base/models.py`,
`service/flow_service.py`).
State: the nodes and edges of a flow, the outputs so far, the queue of events.
Operations: sort into levels or reject, execute a level at once, stream the
events to a client.
Hard: nodes that run while another one of their level fails; events of nodes
after the failure of the flow; a client that leaves.
Correct if: a node has its inputs, exactly the flows with a cycle or with an edge
whose end is no node are rejected, the end is announced last, the stream ends.

**Agent chat** (`service/agent_chat_service.py`, `agent/agent_session_manager.py`,
`agent/agent_message_queue.py`, `agent/agent_event_listener.py`).
State: for each message a queue, its producer and its consumer; a table of
sessions, each with a language model.
Operations: receive a message, find or make the session, generate, dispatch
results of tools, send, close; clean up expired sessions.
Hard: sessions are shared and closed across awaits, without locks; a producer
may raise at any point and a client leave at any point.
Correct if: the stream of a message is framed, a session that is handed out is
open, messages come to their end.

**LightRAG graph** (`graph/lightrag/lightrag.py`, `graph/lightrag/operate.py`,
`graph/lightrag_manager.py`, `db/repositories/graph.py`,
`db/repositories/lightrag.py`).
State: tables of chunks, of nodes and edges, and of the vectors of entities and
relations; each node, edge and vector names the chunks it was extracted from.
Operations: index a document (chunks, extraction by a language model, one
connected component after the other, merging of each entity and relation);
delete it (scan of everything, a plan, a dozen statements that carry it out).
Hard: every await is a point where the tasks of other documents go on, and every
statement commits by itself; merging is read, model call, write, under a lock
per item; the deletion takes no locks, and a task that fails half way is
retried from its start.
Correct if: merges lose no source of each other, what an aborted deletion left
can still be found, an edge has both its nodes.

### How they interact

| From | To | By |
|---|---|---|
| document requests | index rows | one transaction: document status, index rows (and the quota) |
| beat | reconcilers, evaluation scan | Celery message, every minute / five minutes |
| index reconciler | tasks | Celery chains sent inside the claiming transaction |
| tasks | index rows, document status | callbacks, a transaction each |
| collection requests | summary rows | a second transaction after the collection's commit |
| summary task | collection description | guarded UPDATE in the callback |
| scan, batches, items | evaluation | rows, messages, the Redis lock |
| confirmations | MiroFish builds | the revision in the config, then a Celery message |
| collection requests | stores | Celery messages after the commit |
| messages of a chat | session, client | the table of sessions; a queue that a consumer sends |
| flow execution | client | a queue of events |
| graph index tasks | nodes, edges, vectors | statements of their own, between locks of the process |
| document requests | quota | `SELECT ... FOR UPDATE`, held until the request commits |

IndexLifecycle and DocumentQuota both model the document requests, each with
the rows it is about. They are separate modules since no decision of the quota
depends on an index row and the other way round; what a request does to the
document's status is in both.

The batches of an evaluation take the lock that RedisLock models; Evaluation has
it as one variable with a fault `expiry`, which is what `KeepsPromise` says of
the lock: it is lost only by time. CollectionLifecycle and MiroFishGraph are
about different fields of one row; the deletion of a collection is in both.

### Components that are not modelled

| Component | Why |
|---|---|
| Export (`service/export_service.py`, `config/export_tasks.py`) | reads a collection into an archive; its one race, the unlocked count of running exports (`service/export_service.py:67`), is the one of `RunningIsLimited` in Evaluation |
| Marketplace | publication and subscription rows with a unique constraint, a transaction each |
| Indexers (`index/*_index.py`) | I/O on the stores, per document version; when the vector and full-text ones look for their store and write is in CollectionLifecycle |
| Queries and manual merges of the LightRAG graph | reads, and operations of one user at a time |
| Vector and object stores, parsing, language models, sources, web search | adapters of external services, text conversion |
| Chat history, bots, prompts, question sets, settings, API keys, audit, authentication | single-row reads and writes |
| MCP server, views, schemas, tracing, web frontend, deployment, migrations | keep no state of their own, or not part of the program's logic |

## 2. The plan

Most important behaviour first; each module has constants with named
assumptions, one action per operation and no RECURSIVE operator, so that it can
be proved about.

| | Module | Uses | State |
|---|---|---|---|
| 1 | IndexLifecycle, LifecycleProofs | | done |
| 2 | CollectionSummary, CollectionSummaryProofs | | done |
| 3 | Evaluation, EvaluationProofs | | done |
| 4 | DocumentQuota, DocumentQuotaProofs | | done |
| 5 | RedisLock, RedisLockProofs | implements Lease | done |
| 6 | MiroFishGraph, MiroFishGraphProofs | | done |
| 7 | CollectionLifecycle, LifecycleProofs | | done |
| 8 | FlowEngine, StreamProofs | | done |
| 9 | AgentChat, StreamProofs | | done |
| 10 | LightRAGGraph, LightRAGGraphProofs | | done |
| 11 | VectorContents: what the store holds, per version | IndexLifecycle | open |
| 12 | Export | | open |

Abstract specifications: Lease, what a lock that expires can promise, implemented
by SET NX, the watchdog and the release script (done); the index as a register
that settles on the last version asked for (with 10).

Theorems worth proving next: with 10 and 11, that what the store holds of a document
settles on the last version asked for.


## 3. How the models are made

**Transactions.** PostgreSQL runs at READ COMMITTED. A statement sees committed
rows. An UPDATE passes over a row its WHERE clause does not match; one it
matches but another transaction holds is waited for, after which the clause is
evaluated again. So a transaction is several actions, one per statement that
sees something another transaction may change; writes become visible in the
action that commits; the transaction that holds a row is part of the state
(`tx`, `holder`, `quotaLock`, `docLock`).

**ORM flushes.** SQLAlchemy writes, by primary key, only the columns whose value
was changed in memory since the row was read. An assignment of the value that
was read writes nothing (`CreateOrUpdate`, `Triggered`, `CommitInitialize`). A
flush of a row that has gone or was inserted meanwhile raises, and the request
is rolled back.

**Messages.** A Celery message is a record in a set; a worker may take any of
them. In IndexLifecycle a redelivery is a second copy. In Evaluation an
identical message that waits absorbs another one; a message that was taken has
left the set, so duplicates do occur.

**Data.** Documents, index types, collections and names are model values; parsed
files, texts, scores and answers are absent: a task succeeds or fails. Counters
are naturals; every bound on them is a constant, in a guard, and named there.

**Event loops.** Between two awaits a coroutine is not interrupted: what it does
there is one action, and state read before an await is a variable of the task
(FlowEngine, AgentChat, the watchdog of RedisLock).

**Faults.** Actions of their own, counted against a bound (`MaxFaults`), of the
kinds in a constant `Faults`. Where a property cannot hold after a fault, a
history variable `mishaps` keeps which kinds have happened, and the property
names those it excepts.

Operators marked `mutant` or `Mutated` beside a definition are variants of it with a
plausible bug. They are used by no specification; each shows that some property
tells the code from that bug.


## 4. The modules

Each has a companion `MC...` that adds what TLC needs: symmetry sets, constraints,
the sets a constant stands for.

### IndexLifecycle

| State | Code |
|---|---|
| `docStatus`, `gmtDeleted` | `Document.status`, `Document.gmt_deleted` |
| `index[<<d, t>>]` | the row of `document_index`; `ABSENT` for none; `id` tells a new row from the one deleted before it |
| `tx[i]` | the transaction that holds the row: a claim or a callback, with what it will write |
| `req[r]` | an API worker's open transaction with the rows it read |
| `pass[p]` | a reconciler pass at one document: what the scan returned, what it claimed |
| `tasks` | messages of a workflow: parse, trigger, one task per type, with the context of versions |

Requests: `Begin...` reads the document, `ReadRows` the index rows,
`CommitRequest` flushes and commits, `RollbackRequest` is a failed flush.
`CreateDocument` and `UploadDocument` touch only rows nobody else can see and
are one action. A pass goes `GetIndexesNeedingReconciliation`, `SelectIndex` and
`ClaimIndex` for each row, `ReconcileDocumentOperations` (sends one workflow per
kind of operation) and `CommitClaims`; `SkipDocument` when nothing was claimed.
A task goes `StartIndexTask` (the relevance check), success or failure,
`Retry`; a callback opens (`OnIndexCreated`, `OnIndexDeleted`, `OnIndexFailed`:
its conditional UPDATE, then the status computed from the rows it sees) and ends
(`CommitCallback`). Faults: `DispatchFails`, `PassDies`, `CallbackLost`,
`TaskLost`, `TaskRedelivered`.

Celery's own `self.retry` inside a task body is not modelled; autoretry is.

### CollectionSummary

| State | Code |
|---|---|
| `collection[c]` | whether the collection exists, `enable_summary`, who wrote the description |
| `summary[c]` | the row of `collection_summary` |
| `holder[c]` | the pass whose session has claimed the row and not committed |
| `pass[p]` | the rows its scan returned, expired by each commit of the session |
| `tasks` | messages, before and after the callback has read the description |

`CreateCollection` and `UpdateCollection` commit the collection;
`ReadSummary` and `TriggerGeneration` are the transaction that follows;
`TriggerFails` is an exception or the end of the process before it has committed,
after which nothing triggers again until the next update. `adrift` is a history
variable: the collections whose last update has no trigger that ran by itself,
because it failed or because another one of the collection was open with it. A pass
goes through `TakeSummary`, `ClaimSummary`, `ScheduleSummaryGeneration`,
`CommitSession` for each row and `EndPass`. The callback's conditional UPDATE of
the summary row and its commit are one step; the read of the description and its
guarded write are two. `POST /summary/generate` is not an action: its handler
raises before it reaches the service (`views/collections.py:96`).

### Evaluation

| State | Code |
|---|---|
| `evaluation[e]` | `status`, `gmt_deleted`, `completed_questions` |
| `item[<<e, q>>]`, `overdue` | `evaluation_items.status`; RUNNING items with an old `gmt_updated` |
| `worker[w]` | a Celery process: which task, and what it has read |
| `lock[e]` | the Redis key of the evaluation |
| `req[r]` | an API request between its SELECT and its write |

Evaluations and questions are numbered by `gmt_created`. A batch goes
`StartBatch` (takes the lock or returns), `CountItems`, `DispatchItems`; with
nothing pending or running it goes on to `VerifyItems`, `CountResults`,
`FinalizeEvaluation`. An item goes `StartItem`, `ClaimItem`,
`ProcessSingleItem` or `ItemErrors`, `SendBatch`. The status check of a batch
and the count that follows it are one step, and so are the two counts of the
finalisation. A slow item, an expired lock, a failed commit and a dead worker
are faults; the expiry of a dead worker's lock is not, and `ItemAbandoned` (time
passes for an item nobody works on) is not either.

### DocumentQuota

One user. `ADDED` stands for PENDING, RUNNING, COMPLETE and FAILED, which the
quota does not distinguish. A file name is used once in a collection. A request
is `Begin`, then `ConsumeQuota` (takes the quota row), `CheckCollection` (counts
and reads `perCollection`, without a lock), `QueryDocument`/`FlushDocument` for each document,
`ReleaseQuota` for a deletion, `Commit`. `Recount`, `ReadUsage`, `WriteUsage`
are the three statements of the recalculation; `FindExpired`, `ExpireDocument`
the cleanup, one document per transaction: the code expires a batch in one, which
has fewer interleavings as to the quota, since the cleanup takes no row of it and
changes each document by itself. `UpdateUserQuota` and `UpdateCollectionQuota` set
the two limits to any value, also below what there is; an update of both in one
request is two steps, as no request reads both at once. A cycle of waiting transactions is
broken by the database (`DeadlockDetected`). Row locks of `document_index` are
not modelled.

`unpaid` is a history variable, not part of the code: it counts releases that
nothing had paid for (a staged or expired document, one that a concurrent
request deleted) and what a recalculation missed. It states precisely how far
the usage may fall behind the documents.

### CollectionLifecycle

| State | Code |
|---|---|
| `row[c]` | `collection.status` |
| `usage`, `limit` | the owner's `current_usage` and `quota_limit` of `max_collection_count` |
| `recount[q]` | `recalculate_user_usage` between its count and its write |
| `init[c]`, `deleter[r]` | the initialisation task; a delete request and the task it sends |
| `indexer[w]` | a vector or full-text index task of a document: what it has found of the store |
| `stores[c][k]` | the Qdrant collection (`VECTOR`) and the Elasticsearch index (`FULLTEXT`) with their documents |
| `indexed[c][k]` | documents whose index of this kind is ACTIVE |
| `unpaid`, `overpaid` | history: collections the usage may miss, places it may count for none |
| `lost[c][k]`, `mishaps` | history: documents that were emptied out of a store or never put there; what went wrong |

A creation is one step, as it holds the quota row from the check to the commit. A
deletion is two: the service checks that the collection is there, and reads it
again, without its status, in the transaction. Each store is a step of the tasks.
An index task goes `IndexDocument` (reads the collection), `LookForStore`, then
`WriteStore` or `SkipStore`. What a write does to a store that is not there differs:
`QdrantVectorStore` notes when it is built whether the store exists, creates it at
the write if it did not, and fails if it has gone since; the full-text task looks
before each chunk, leaves the chunk out if there is no index, and writes one that
goes between the look and the write into being again. Nothing asks for the status
of the collection any more. `WriteCount` reads and writes the row of the quota; a
recalculation that read the value it had counted writes nothing, as one that never
ends.
`initialize_collection` reads a row that is ACTIVE and writes ACTIVE back, which
SQLAlchemy makes no UPDATE of.

### MiroFishGraph

| State | Code |
|---|---|
| `config` | `graph_revision`, `graph_status`, `active_graph_revision` in the collection's config |
| `request[q]`, `build[e]`, `failing` | confirmations, executions of build tasks, calls of `handle_build_failure`, each with the config it has read |
| `graph[r]` | Neo4j: the documents whose chunks the graph of revision r has |
| `wanted[r]`, `skipped[r]`, `mishaps` | history: what had been confirmed when r was asked for; what its latest build could not read; what went wrong |

`WriteConfig` writes what was read with the changes of the writer, whatever the
row has by then; if that is not what the writer had read, the write that came
between is lost, which is the mishap `lost_write`. A build goes `StartBuild`
(clears the graph of its revision; `CollectDocumentTexts` is any part of the
confirmed documents that is not empty, since the code logs an exception of one
document and goes on without it), `PersistChunks`, `FinalizeRead` (compares
revisions), then `FinalizeWrite` or `DropStaleGraph`. `MaxRetries` is what
autoretry allows (2 in the code), `SelfRetries` what the task compares with (3).

### RedisLock, Lease

A holder acquires only when it does not hold: `acquire` of a lock object that is
held returns True at once, but every caller makes an object of its own. A SET that
Redis carries out after its caller was told of a failure, and went on, is not
modelled; one that was carried out before is (`Orphan` of Lease).

A holder makes a new random value at each acquire, and at most one of its values
is in Redis, so `key` is the holder whose value the key has. Time is in units:
`Tick` counts the key and the watchdogs down, and waits for a watchdog that is
due unless that is stalled. `Renewing` holders use `redis_lock_with_renewal`, the
others acquire and release, as the batches of an evaluation do. `Lease` is the
promise: a lease is granted to one holder, is given back or lapses, and whoever
is inside without it is one whose lease lapsed.

### FlowEngine

One execution. `Missing` are names that edges may have and the flow has no nodes
for: neither the parser nor the engine looks. A target of that kind is a KeyError
(`TargetsExist`), a source is never counted down, so that its targets are never
taken, which is called a cycle. `RejectFlow` is either. `FlowParser.parse` validates
a flow by the same sort, so that a parsed flow that is not sortable is rejected
before `execute_flow`, without any event; a `FlowInstance` made by hand
(`service/collection_service.py:540`) is not parsed. `flow/tests/test_validation.py`
expects `validate()` to check the references of inputs as well; no code does, and
the model has no such check.

`Taken[k]` is what Kahn's algorithm has taken out after k rounds;
`NextGroup` is the next level, whose nodes are then `created`, as coroutines are.
`FailFlow` is `gather` raising: the other nodes of the level stay and go on.
`SendEvent`, `AwaitFlow`, `Answer` are `stream_flow_events`; `Disconnect` is the
client's.

### AgentChat

| State | Code |
|---|---|
| `handler[r]`, `producer[r]`, `consumer[r]` | `_handle_single_message`, `process_agent_message`, `_consume_messages_from_queue` |
| `queue[r]`, `received[r]`, `tools` | `AgentMessageQueue`; what the client got; results of tools in the event bus |
| `table`, `state`, `expired` | `_chat_sessions`; the life of each session, named after the message that made it |
| `listed`, `closing` | `cleanup_expired_sessions` between its awaits |

The answer is put before its references are made: `AgentAnswers` puts content and
stop, `ReferencesFail` the content only, after which the producer has raised.
`_ready` of a session becomes false at the end of `_cleanup`, so a session that
is being closed counts as ready. `state` is `closing` as soon as its language
model is gone.

### LightRAGGraph

One collection (workspace) in the PostgreSQL stores, and the graph index tasks
of its documents in one Celery worker, whose threads share the locks.

| State | Code |
|---|---|
| `owner[c]` | `full_doc_id` of a chunk, in the table of chunks and in the one of their vectors, which are written one after the other: one step here |
| `graph[i]`, `vectors[i]` | `source_id` of a node or an edge and `chunk_ids` of its vector, as sets; `{}` for no row |
| `lock[i]` | the ThreadingLock `entity:...` or `relationship:...` |
| `indexer[d]` | the index task: its text, what was extracted, what is left to merge, the item in hand and what it read |
| `deleter[d]` | the delete task: the chunks it read, and what it will remove (`gone`, `vgone`) and keep (`kept`, `vkept`) |
| `mishaps` | history, see below |

`found[i]` are the chunks an item was extracted from. A merge is `MergeRead`
(takes the lock and reads), for a relation `CheckEnd` and `InsertEnd` for each
end, `UpsertItem`, `UpsertVector` (and frees the lock). `Ready` is the order of
`_grouping_process_chunk_results`, a component at a time, and of
`merge_nodes_and_edges`, entities before relations. A deletion goes `ReadChunks`,
`ScanEntityVectors`, `ScanRelationVectors`, `GetAllLabels`, `ScanNode` and
`ScanEdges` for each node, then the writes of step 4 in the code's order, one
action per statement that commits; `FindKept` and `RewriteKept` are the read and
the write of one node or edge. `IndexFails` and `DeleteFails` may happen at every
point. The taking of a lock and the read after it are one step, and so are the
reads of the edges of one node. `max_retries` is a constant. One index task and
one delete task exist per document. The code does not ensure it: a rebuild sends a
new task although the old one is at work, and a redelivered one (`task_acks_late`)
runs beside the first. IndexLifecycle has both, for the rows of the index; two tasks
that merge the same document at once are not modelled here. The locks of the items
hold between them as between two documents, but what a task takes out or counts of
its own document does not.

What an update finds is added; what the old text of the document had stays,
since nothing removes it: `IndexedIsFound` is about the last text.

`mishaps` are what the code does nothing about, each noted in the step in which
it happens: a chunk of another document with the same content changes its owner
(`shared_chunk`); a deletion starts while the index task of its document is at
work (`overtaken`); a deletion writes what is no longer what it read, or what a
merge has in hand, or a merge writes back what a deletion is taking away
(`raced_deletion`); an end of a relation is inserted over a node that has
appeared since it was looked for (`raced_end`); edges of other documents go with
a node (`dropped_edge`); `delete_entity` logs an error and forgets it
(`swallowed_error`).


## 5. What the runs show

| Run | Instance | Shows |
|---|---|---|
| index_requests | 1 document, 1 type, 1 API worker, 2 passes, all operations, versions to 3 | types; a version has one workflow; a held row has one writer; ACTIVE is reached only with the version asked for; a deleted document stays deleted |
| index_settles | 1 document, 1 type, 2 API workers, create and delete, 1 retry, 1 fault, fair | the index of a deleted document is never ACTIVE again; every index comes to rest unless something was lost |
| summary_requests | 1 collection, 2 API workers, triggers that fail or overlap, 2 passes, a creation and an update, a refused dispatch, a dead pass or a lost worker, fair | an update whose trigger runs by itself leaves a row exactly if the config wants one, whatever was left before; one task per version; GENERATING has a task; COMPLETE only for the version asked for; generations end |
| evaluation_final | 2 questions, 2 workers, pause, resume, delete, 1 fault | COMPLETED means all completed; one worker per item; progress is real |
| evaluation_ends | 1 question, 2 workers, pause, resume, retry, 1 fault of any kind, fair | evaluations end |
| quota_limits | 2 names, 2 requests, both limits changing between 1 and 2, fair | usage accounts for what was added; growth is paid; a collection grows only within the limit that was read for it; every request ends |
| graph_served | 2 confirmations, 1 retry, 1 redelivery, forms, a deletion, documents that cannot be read or 1 mishap, fair | the newest graph wins; the graph served has what its build could read; a confirmed document gets into it, or its build could not read it, or the user sees a failure |
| collections | the stores of 1 collection, 1 document, 2 deletions, 1 index task, 1 retry; the quota of 3 collections, 2 deletions, 2 recalculations, limits 1 and 2; fair | what is ACTIVE is stored; the stores follow the row; usage is explained; none is created past the limit of that moment |
| lock_promise | 2 holders that renew and 1 that does not, expiry 3, renewal 2, 2 attempts, fair | mutual exclusion until something goes wrong; every step is one of Lease; the key is freed |
| flow_run | all 4096 graphs over 3 nodes with at most one edge that begins or ends outside them, fair | inputs are ready; exactly flows with a cycle or an edge without an end are rejected; the end is complete; the stream ends |
| graph_merged | 2 documents with a text each that may be the same, 2 entities and their relation, 1 retry or update, symmetric | merges lose nothing of each other; sources are rows of the table of chunks; an edge has its nodes |
| agent_messages | 2 messages of one chat, 1 with tools, fair | answers are framed; what is handed out is open; messages end |

### Bounds, and why they are enough

*Passes and workers: two.* The claims, conditional UPDATEs and locks are all
between two parties; a third does what the second does. Proofs remove the bound
for the properties of section 7.

*Versions: three* in IndexRequests (create, one change while a task works, one
more after it); *row ids: one or two*, which is a row, and its successor after a
deletion. *Faults: one or two*, anywhere. *MaxWorkflows* admits at least one
workflow for each version. *MaxOps 2 or 3* in Evaluation: a pause and a
resumption, or two retries, at any point.

*Evaluation: two questions, one slot*, so that there is always an item that has
to wait for the other. *MaxRunning = 1* with one evaluation. *Quota: two names,
limits 1 and 2*, so that each limit is reached with a document left over, and goes
below what there is while a request is before or past its check.

*Graph: two confirmations*, a revision and a newer one. *Collections: three
with limits of one and two*, so that one is made of what a deletion released, one of
a raised limit, and one while a recalculation is between its count and its write;
*two deletions* meet at one collection, *two recalculations* overwrite each other.
*Summary: two updates*, of which the first is the creation: its trigger fails, or
overlaps the second's, or the second mends what it left.
*Lock: three holders*, so that one loses the key, one gets it, and one waits or
interferes; the times are the smallest with a renewal before the expiry.
*Flows: three nodes* have every shape a level can have (chain, fork, join, cycle,
a node apart), and one edge to, from, or between names outside them has each way to
be without an end beside every graph. *Chat: two messages on two connections*, which share the session,
with one result of a tool.

*LightRAG graph: two documents, two entities and the relation between them*. A
text is one chunk; the model finds all three in it, or an entity, or one end of
a relation and not the other. So two merges meet at a node and at an edge, an
end is missing, a deletion finds what it must keep, and one of the tasks fails
and starts again, or a document gets another text.

Symmetry is used where no liveness is checked, over requests, passes, workers and
documents, none of which is named in a definition or ordered.

### What the instances leave out on purpose

- index_requests has one API worker. Two of them can lose an increment of
  `version`, and can confirm and delete a staged
  document at once, which breaks `DeletedStaysDeleted`: see IndexConfirmDelete.
  `ConfigTypes = IndexTypes` there, as a rebuild names types the config has.
- index_settles has create and delete only: `DeletedIsNotSearchable` is about
  deletions racing index work. With a rebuild, rows can be made anew for a
  document whose deletion the rebuild did not see. `EveryIndexSettles` excepts
  behaviours in which a pass or a worker died or a message or callback was lost
  or repeated: a row whose callback was lost stays in progress for good.
- index_settles assumes `CommitBeforeRun`: a claim commits before the task it
  sent validates. The code does not ensure that; it holds whenever the broker is
  slower than a commit. IndexStuck shows what happens without it. In
  summary_requests a task may run early, which is a mishap of its own (`early`);
  `GeneratingHasTask` and `GenerationsEnd` except it, a version that was changed
  under a GENERATING row (`raised`; a late trigger can also lower it) and a task
  that was lost (`TasksRun`), `OneTaskPerVersion` a pass that died.
- `GenerationsEnd` is about rows that are claimed. A trigger that meets an existing
  row raises its version and leaves its status, so that nobody claims it:
  SummarySurprises. The row of a deleted collection may stay GENERATING; the
  properties except it.
- evaluation_final has no retries (EvaluationRetryRace is the other case) and
  no slow items: an item that outlasts the timeout is handed out again while its
  worker goes on, as the code intends.
- one task per version is claimed for passes that do not die: a pass that dies
  after sending rolls its claim back, and the next one sends again. The
  callbacks' version checks, not the claim, make that harmless.
- graph_served follows a behaviour until a write of the config is lost, or until
  a second mishap of another kind (`OneMishap`) or a mishap where a build skipped a document (`OneThing`), the stores of
  collections until a mishap other than a task that gave up (`UntilMishap`): CONSTRAINTs that leave out only
  states in which the properties promise nothing, so that a behaviour that is
  cut off is one that satisfies them. The lost write itself is not rare: two
  requests that read the config together are enough.
- collections is about one thing at a time (`OneAtATime`): the stores of one
  collection while the others do not exist and the limit is one (`AboutTheStores`), or
  the quota of all while their tasks wait in the queues (`AboutTheQuota`). No step of a
  task reads or writes the quota, and no store depends on another collection.
  CollectionSurprises follows a behaviour until a mishap other than the one it shows
  (`BeforeRevival`).
- quota_limits explores the lower limit of a collection where the other one is high, no
  release was unpaid, and no expiry or recalculation is on its way (`Separately`): these
  move the usage, on which that limit does not depend. The proofs have no such condition.
- graph_merged follows a behaviour until a mishap and through one retry or update
  (`OneRepeat`). `IndexedIsFound` and `SourcesAreStored` promise nothing after a
  mishap; `EdgesHaveEnds` does, unless it is `raced_deletion`, which the run leaves
  to the proof. The mishaps are not rare; LightRAGDroppedEdge shows one of them.
- `MutualExclusion` excepts what the code can do nothing about: a holder that
  does not renew and takes too long, a watchdog that stalls past the expiry, a
  call of Redis that fails. A crash is not excepted.
- `MessagesEnd` is about messages with a model; AgentRefusal is the other case.

### Fairness

*Requests that have started end* (WF), *passes and callbacks go on* (WF),
*messages are taken* (WF on the set of tasks in IndexLifecycle and
CollectionSummary, where retries are finite). In Evaluation each message is
taken by some worker although workers are busy again and again: SF per message,
which a broker that delivers in order gives. The scan is SF, as beat sends it
every five minutes. A dead worker's lock expires (WF, `SET EX`), an abandoned
item becomes overdue (WF). In DocumentQuota SF of a request's steps is
PostgreSQL's queue for a row lock, and WF of `DeadlockDetected` its
`deadlock_timeout`. In MiroFishGraph and CollectionLifecycle requests, builds and
tasks go on (WF); in RedisLock time does (WF of `Tick`), watchdogs run
and resume, blocks end. In FlowEngine and AgentChat the event loop runs every
task and calls of runners, models and agents return or raise (WF per task). No
fairness is assumed for what users do or for faults, crashes included.

`CHECK_DEADLOCK FALSE` where the system comes to rest: with the bounds used up and
nothing queued (IndexLifecycle, CollectionSummary, MiroFishGraph,
CollectionLifecycle, LightRAGGraph), when the flow or all messages have ended (FlowEngine,
AgentChat), when everybody's lock is free and nobody tries (RedisLock). Evaluation
and DocumentQuota never stop, and are checked for deadlock.


## 6. Counterexamples

These configurations state what one might expect of the code, or what its
comments, docstrings and documents say, and what TLC refutes. They are kept for
whoever changes the code there. Where two share an instance, the second
property stands in a comment of the configuration and is checked in its place.

| Configuration | Module | Refutes | What happens |
|---|---|---|---|
| IndexStale | MCIndexLifecycle | ActiveIsUpToDate | `db/models.py:121`: "Index is up-to-date and ready for use". A rebuild that read PENDING assigns the status the row had; claimed and completed meanwhile, the row is ACTIVE with `version = observed_version + 1`, which no scan selects |
| IndexStuck | MCIndexLifecycle | EveryIndexSettles | a task validates before its claim is committed, is dropped, and the row stays CREATING |
| IndexComplete | MCIndexLifecycle | CompleteWhenAllActive | two callbacks do not see each other's row; the document stays RUNNING |
| IndexConfirmDelete | MCIndexLifecycle | DeletedStaysDeleted | a confirmation that read UPLOADED commits after the deletion |
| IndexStale | MCIndexLifecycle | StaleFailuresIgnored | the failure of an older workflow fails the row of a newer one |
| SummarySurprises | MCCollectionSummary | SummarySettles | a trigger of an existing row raises `version` and leaves the status: never selected |
| SummarySurprises | MCCollectionSummary | EditsAreKept | a user's edit does not change `gmt_updated`; the generated text overwrites it |
| SummarySurprises | MCCollectionSummary | EveryUpdateTriggers | `service/collection_summary_service.py:49`: "If enable_summary is true, create/update CollectionSummary". The trigger fails after the config was committed: the row stays as the old config wanted it |
| SummaryLeakedClaim | MCCollectionSummary | GeneratingHasTask | a failed broker call leaves a claim that the next row's commit writes |
| EvaluationRetryRace | MCEvaluation | CompletedMeansAllCompleted | `service/evaluation_service.py:283`: finalised "using an optimistic lock", which is `status = RUNNING`; a retry between check and write leaves it RUNNING and the items PENDING |
| EvaluationSlotLeak | MCEvaluation | EvaluationsEnd | a deleted evaluation stays RUNNING and holds the only slot |
| EvaluationLimitRace | MCEvaluation | RunningIsLimited | overlapping scans each have room |
| QuotaRecount | MCDocumentQuota | LimitIsKept | `docs/en-US/design/quota-system-design.md:181`: the recalculation updates the usage "atomically". It counts and writes later; a document added in between is not counted, and the next one goes past the limit |
| CollectionSurprises | MCCollectionLifecycle | ActiveIsReadyForUse | an initialisation that is tried again empties a store whose documents are ACTIVE; a full-text task finds no index, leaves its chunks out and succeeds |
| CollectionSurprises | MCCollectionLifecycle | NothingIsRevived | "Delete a collection and all its associated data": an index task that began before the deletion writes after it and creates the store again |
| GraphSurprises | MCMiroFishGraph | FailureKeepsGraph | "Graph update failed. Existing graph remains available.": a redelivered build that has become stale deletes the graph of its revision, which is served |
| GraphSurprises | MCMiroFishGraph | NoBuildIsForgotten | a build gives up after 2 retries, its failure is recorded at 3: the status stays building |
| LightRAGDroppedEdge | MCLightRAGGraph | OthersKeepTheirGraph | the model names an entity in a relation only; its node exists already and does not get the document as a source. When the document the node came from is deleted, the node goes with every edge at it, the relation of the other document included |
| FlowDangling | MCFlowEngine | OnlyCyclesAreRejected | `flow/engine.py:205`: "Flow contains cycles", of an acyclic flow with an edge from a node that is not there |
| AgentRefusal | MCAgentChat | RefusalIsReported | the model is checked before the `try` whose `finally` closes the queue: the consumer waits forever and the refusal is never sent |
| AgentSessions | MCAgentChat | ExtraSessionsAreCleanedUp | "we create an extra session that gets cleaned up later": a session that was overwritten in the table is in nobody's hands |
| AgentSessions | MCAgentChat | FreshSessionsStayOpen | the cleanup pops a key it listed; by then the key has a fresh session |


## 7. What is proved

For all values of the constants, under the assumptions each module names
(bounds are naturals, sets of operations and faults are the named ones, the name
of a free lock is no holder's). No bound of section 5 is assumed.

LifecycleProofs and StreamProofs are each about two components and extend the
modules of both, which therefore have no name in common: those of CollectionLifecycle
and AgentChat that others have, too, carry a prefix (`CollectionSpec`, `ChatSpec`). A
theorem about one of the two uses nothing of the other.

**LifecycleProofs**

Of IndexLifecycle, for any documents, index types, workers and passes:

- `TypeCorrect`: `Spec => []TypeOK`. TypeOK is inductive; one lemma per group of
  actions (requests, passes, tasks, callbacks, faults).
- `OneWriter`: `Spec => []RowsHaveOneWriter`. The invariant's parts support one
  another: a row that a pass has claimed is held by a claim (`ClaimHeld`), no two
  passes have claimed one row (`ClaimsDisjoint`), a row held by a success
  callback is CREATING at the version it matched (`HeldCreated`). The last needs
  that requests cannot write a held row, hence what is known of documents that
  do not exist yet (`FreshDocument`, `RequestsOnDocuments`), because the creation
  of a document is the one write that asks nobody.
- `ActiveUpToDate`: `Spec => BecomesActiveUpToDate`. Only `CommitCallback` turns
  a row ACTIVE (a flush keeps or writes PENDING: `FlushNotActive`), and it writes
  as observed version the one it matched, which by `HeldCreated` is still the
  row's.
- `StaysDeleted`, `NotSearchable`: `NoRequestRace` implies
  `Spec => []DeletedStaysDeleted` and `Spec => []DeletedIsNotSearchable`.
  `NoRequestRace` says that there is one API worker, or that requests only create and
  delete documents; passes, tasks, callbacks and faults are any. The condition is the
  true one as far as requests go: IndexConfirmDelete violates the first with two
  workers and a confirmation. The invariant `Deletion` says that a deletion
  commits only when no callback holds a row of the document, as it marks every row
  that is there (`MarkRows`, `ReadsStayTrue`) and waits for the holders; a callback that
  opens later sees DELETED and leaves it (`HeldByCallback`). From then on the rows are
  ABSENT, DELETING, DELETION_IN_PROGRESS or FAILED (`DeletedLeave`): a claim moves a row
  from what it was claimed as (`HeldByClaim`), and a success callback needs CREATING.
- `OneWorkflow`: `NoRequestRace` implies `Spec /\ ClaimsKept => []OneWorkflowPerVersion`,
  where `ClaimsKept` says that no step is a pass that dies, or whose dispatch fails,
  after it has sent a workflow for its claims (`ClaimLost`): the claims are rolled back,
  the rows stay PENDING and the next pass sends them again; with MaxFaults = 1 TLC finds two
  workflows in the instance of IndexRequests. Every other fault is allowed: lost tasks, redelivered ones, crashed
  callbacks, passes that die earlier.
  What tasks and passes know of a row is never newer than the row (`TasksNotNewer`,
  `PassesNotNewer`), and whoever asks for work again raises the version (`RowsMove`); so
  a task works on the present version only if it was sent for it, and while the row is
  PENDING the pass that sent it still holds its claim (`SentOnce`).

Of CollectionLifecycle, for any collections, documents, index tasks, deletions,
recalculations, limits and retries, and for every mishap (the runs stop at one that their property excludes):

- `CollectionTypeCorrect`: `CollectionSpec => []CollectionTypeOK`.
- `UsageExplained`: `CollectionSpec => []UsageIsExplained`. Creations and deletions move
  the quota and the number of collections alike; a deletion whose collection another
  one has deleted meanwhile moves the quota and `unpaid`. A recalculation between its
  count and its write differs from the collections by those that came and those that
  went since (`CountsExplained`), which become `unpaid` and `overpaid` when it writes,
  whatever the usage was before. `Asked` (a deletion is of a collection that was created)
  rules out a further case.
- `CreatedInLimit`: `CollectionSpec => CreatedWithinLimit`. Only `CreateCollection` adds
  one, where the usage has room below the limit of that moment, and by `UsageIsExplained`
  there are at most `unpaid` more collections than the usage.
- `IndexedStays`: `CollectionSpec => []IndexedIsStored`. `Stored` says of every
  collection that is not deleted that what is indexed and not lost is in its stores. A
  deletion task has a collection whose row is DELETED (`Asked`), and no row ever leaves
  DELETED (`RowsLast`), so it drops no store that is in use, however long it was queued.

**CollectionSummaryProofs**

For any collections, requests and passes; the assumptions on the constants are
those of the module.

- `TypeCorrect`: `Spec => []TypeOK`.
- `CompleteUpToDate`: `Spec => BecomesCompleteUpToDate`. Only the success callback
  turns a row COMPLETE, at the version its UPDATE matched.
- `OneTask`: `Spec => []OneTaskPerVersion`. The inductive invariant `IInv` says that a
  claimed row is one that can be claimed, as nobody else writes it (`HeldClaimable`);
  that a pass holds the version it will send (`ClaimsHeld`); and that a row which has
  a task cannot be claimed, except by the pass that has just sent it (`OneTaskPerRow`).
  The claim is the only lock in this argument, and it is an UPDATE that is not
  committed.
- `GeneratingWaits`: `NoLeak` implies `Spec => []GeneratingHasTask`. A pass uses one
  session for all rows: a claim whose task the broker refused stays in the session
  and is committed with the next row's. `NoLeak` says that the broker refuses
  nothing or that there is no other row; SummaryLeakedClaim is what happens
  without it. `GInv` adds that the rest of a pass is about other rows
  (`TodoApart`, `HoldsOne`) and that a claim's task is queued until the commit and
  matches the row after it (`Awaited`).
- `MatchesConfig`: `Spec => []SummaryMatchesConfig`, for any number of requests whose
  triggers overlap or fail. `ConfigFollows` says that a collection which is not adrift
  has at most one request open, that this one has the config that was committed last
  (`LastWord`), and that the row is what the config asks for when none is open. The
  trigger decides by the row it has read, which passes and callbacks change meanwhile
  but neither make nor remove.

**EvaluationProofs**

- `TypeCorrect`: `Spec => []TypeOK`, from `Typed`, which adds that a worker that
  is not idle or scanning has an evaluation, and an item worker a question.
- `ClaimedOnce`, `CompletedIsComplete`, `ProgressNotAhead`: `ItemClaimedOnce`,
  `CompletedMeansAllCompleted` and `ProgressIsReal` always hold, *if the instance
  has no retries and no slow items* (`NoSecondChance`): the two ways to take an
  item away from its worker. All other operations and faults are included. The
  inductive invariant `Safe` says that what a worker read stays true until it
  writes: its item is RUNNING and not overdue, the counter it will write is
  covered by items done (`HoldsItem`); an evaluation whose items it saw done has
  no others, and what it counted is what there is (`SawTheEnd`); overdue items
  are RUNNING (`OverdueRuns`). Neither the Redis lock nor the optimistic lock is
  needed for these three, and `Safe` does not mention them: the claim of an item
  is what they rest on. Pauses, resumptions and deletions change no item, which
  is why they do no harm.

**DocumentQuotaProofs**

For any collections, names, requests and limits.

- `TypeCorrect`: `Spec => []TypeOK`.
- `UsageAccounts`: `Spec => []UsageIsAccounted`; `CollectionsHaveRoom`:
  `Spec => CollectionGrowthHasRoom`; `GrowthPaid`: `Spec => GrowthIsPaid`. One invariant
  carries all three: a request that has consumed quota holds the quota row until it
  commits (`Paid`), so that the usage and the limit are what it read, it has at most
  the documents it has paid for (`Shape`), and with them their collection is within the
  limit it read, whatever that limit is by now;
  a deletion has released one place per document it has flushed (`Given`). The count
  of the collection is safe although it locks nothing of the collection: every way
  into it goes through the quota row. The sums are those of cardinalities of sets of
  documents, from the library's theorems about finite sets.

**MiroFishGraphProofs**

For any requests, retries and redeliveries.

- `TypeCorrect`: `Spec => []TypeOK`.
- `NewestWins`: `Spec => NewestGraphWins`. Until a write of the config is lost nothing
  knows a revision that the config does not have (`Ordered`), and a build that goes
  on to its last write was not older than the config it compared itself with
  (`Compared`): a write that loses nothing finds that config still there.
- `ServedIsComplete`: `Spec => []ServedGraphIsComplete`. As long as no write is lost,
  the requests hand out the revisions one after the other, so no two have the same
  (`Apart`), and there are no more revisions than requests that asked: the bound on
  revisions is reached by nobody. As long as nothing is redelivered either, a build
  is the only one that clears, fills or deletes the graph of its revision, and the
  only one that says what was skipped of it (`OwnBuild`), and it is over when that
  graph is active (`Complete`).

**RedisLockProofs**

- `TypeCorrect`: `Spec => []TypeOK`.
- `Exclusion`: `Spec => []MutualExclusion`, for any number of holders and any
  expiry longer than the renewal interval. The inductive invariant says that as
  long as nothing went wrong whoever is inside owns the key, that its watchdog is
  on, and that the watchdog wakes up before the key expires.
- `Implements`: `Spec => Promise!Spec`, the refinement of Lease with `owner <- key`
  and `inside <- Inside`: the initial state is one of Lease, and each action is
  `Acquire`, `Orphan`, `Leave`, `Lapse` or a stutter. It needs that the key of a
  holder outside is no obstacle to it (`Leave` frees the key only for its owner).

**StreamProofs**

Of FlowEngine, for any nodes and graphs:

- `TypeCorrect`: `Spec => []TypeOK`.
- `InputsReady`: `Spec => []InputsAreReady`, for every set of nodes and edges. The
  inductive invariant says that a node is done exactly when its output is there,
  that no node outside the groups so far has been created, and that every
  group's nodes have their sources in earlier groups, all of which are done.
- `EndAnnounced`: `Spec => []EndIsComplete`. While nothing has failed the events are one
  of the flow, one of every node that runs and two of every node that is done
  (`Counted`; cardinalities of finite sets); what has failed stays failed, and a
  flow ends only when all nodes are done.
- `UnsoundFlowsRejected`: `Spec => []OnlyUnsoundFlowsAreRejected`, for every graph,
  edges to and from names that are no nodes included. The engine
  sorts by `Taken`, the reference is `Closure`, and both are recursive functions;
  `Sound` (the ends exist, and `Layered`: every set of nodes has one without a source in
  the set) says the same of the edges alone, and is what the invariant `Accepted` keeps
  from step to step. A sortable flow has all its ends, as a node with a source that is
  not there is never taken (`SortableHasEnds`). It is layered and acyclic because a node is taken after its sources,
  hence after all that reach it. One that is not sortable has nodes that are never
  taken, each with a source among them (`NothingLeft`: every round takes at
  least one); going back from source to source as many steps as there are nodes
  meets one twice (the pigeonhole principle), and that walk is in the closure.
  The induction this needs is stated of sets and functions, since a theorem
  about operators cannot be used: `LeastNumber`, from the well-foundedness of
  the natural numbers; `Upwards`, induction over a set; `Iterates`, that a function
  has runs of any length, from which `TakenUnfolds` and `ClosureUnfolds` obtain
  that the two recursive functions exist and satisfy their equations.

Of AgentChat, for any messages, chats and assignments of messages to chats:

- `ChatTypeCorrect`: `ChatSpec => []ChatTypeOK`.
- `AnswerFramed`: `ChatSpec => []AnswerIsFramed`. What was sent is no inductive
  invariant; what was sent followed by what waits (`Said`) is: while the client reads it
  is framed, it is empty before the start, and between the start and the end of the
  producer it is `Ongoing` (`FramedFor`). Reading moves the border between the two and
  leaves `Said` as it is. The queue is open until the producer ends, and a
  result of a tool is on its way only while the agent works or after the queue was
  closed, which takes nothing more (`PutQueue`): so no result comes before the start
  or after the end. `RestsFor` says that nothing of a message is left when its handler
  has ended, whose result may still be on its way. `StepsOf` sorts the steps of the
  module by what they do to one stream.
- `HandedOut`: `ChatSpec => HandedOutIsOpen`. A session that is being closed counts
  as ready, so that the look at the table is only safe because of `Handed`: a session in
  the table that is being closed has expired, and an expired one is not used. A message
  closes a session that it found expired; the background task closes one that it takes
  out of the table, whether or not it has expired (the key was listed, the session
  may be another by now), and that is its only place (`Own`, `OnePlace`).

**LightRAGGraphProofs**

For any numbers of documents, entities, relations, texts, answers of the model,
updates and retries.

- `TypeCorrect`: `Spec => []TypeOK`, from `Base`, which adds that a merge holds the
  lock of its item and that item is left to merge (`Held`), and that a deletion
  rewrites only what its scan found sources for (`Rewrites`).
- `EndsThere`: `Spec => []EdgesHaveEnds`. The inductive invariant adds `Linked`: as
  long as no deletion ran into a merge, the ends of a relation in hand that were
  checked are still there. They are, because removing a node whose edge is
  locked is what `raced_deletion` means, and because a rewrite puts a node in the
  place of one that is there.
- `FoundStays`: `Spec => []IndexedIsFound`, from `Clean`: without a mishap the chunks
  of a document at work are its own (`OwnedDoc`), what a merge has read is what is
  there (`CurrentTask`: the lock), and what was merged so far is in the graph and
  in the vectors (`FoundTask`). A deletion removes sources of its own document
  (`DeletionTakes`), and other merges only add (`IndexingAdds`).
- `StoredStays`: `Spec => []SourcesAreStored`. A deletion takes its chunks out of the
  store last. `Swept` says, for each of its steps, which entities and relations may
  still name its chunks: those its scans have yet to reach or have planned to rewrite
  or remove, first in the vectors (`VectorLeft`), then only in the nodes and edges
  (`GraphLeft`), and at the end none.
  The scan finds a relation by its ends, so this rests on `EdgesHaveEnds`; and no
  merge brings a chunk back, as it writes what it has read and its own.


## 8. What is only model-checked, and what is not modelled

Liveness (`EveryIndexSettles`, `GenerationsEnd`, `EvaluationsEnd`, `RequestsEnd`,
`DocumentsGetIntoGraph`, `StoresFollowTheRow`, `KeyIsFreed`, `StreamEnds`,
`MessagesEnd`) rests on fairness and ENABLED, which the proof
system does not handle, and stays with TLC. `OneWorkflowPerVersion`,
`DeletedStaysDeleted` and `DeletedIsNotSearchable` are proved under conditions on
requests and faults (section 7); without them they fail. Every other invariant and
action property of the runs is proved. No module declares a RECURSIVE operator.

Left out of the modelled components: what tasks do to parsed files; what the
stores hold for each version of a document; Celery `self.retry` of index tasks;
ordering of messages in a queue (any message may be taken, which includes every
order); listing, searching, previews and downloads; the quota of bots;
notification, logging and tracing; failures of the database other than failed
flushes and deadlocks; the object store, whose files are deleted before the
deletion commits; the values that flow nodes exchange; the
descriptions, weights and keywords of the LightRAG graph and its Neo4j store; `shutdown_all` of the
agent sessions and the evaluation's own use of them.
