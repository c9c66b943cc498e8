------------------------ MODULE CollectionLifecycle ------------------------
(***************************************************************************)
(* A collection from its creation to its deletion: the row and the quota   *)
(* of its owner, written by requests in one transaction, recounted and     *)
(* limited anew by an administrator; the vector store and the full-text    *)
(* index, created and deleted by Celery tasks that are sent after the      *)
(* commit; and the documents that index tasks write into them meanwhile.   *)
(*                                                                         *)
(* No write asks whether the collection still exists.  recreate_collection *)
(* of Qdrant empties a store that exists, and both kinds of store are      *)
(* created again by a write that comes late.                               *)
(***************************************************************************)
EXTENDS Naturals, FiniteSets

CONSTANTS Collections, Documents,
          Deleters,        \* requests that delete a collection
          Indexers,        \* workers that index documents
          Recounts,        \* requests that recalculate the quota
          Limits,          \* values an administrator gives max_collection_count
          MaxTaskRetries,  \* RETRY_MAX_RETRIES_COLLECTION
          NoStore, NoCollection, NoDocument

ASSUME CollectionsAreFinite == IsFiniteSet(Collections)
ASSUME NamesAssumption ==
  /\ \A store \in SUBSET Documents : store # NoStore
  /\ NoCollection \notin Collections /\ NoDocument \notin Documents
ASSUME NumbersAreNatural == Limits \subseteq Nat /\ MaxTaskRetries \in Nat

Kinds == {"VECTOR", "FULLTEXT"}
RowStatus == {"absent", "ACTIVE", "DELETED"}
InitSteps == {"none", "queued", "read", "vectors", "ended"}
DeleteSteps == {"idle", "checked", "queued", "vectors", "ended"}
Mishaps == {"init_after_deletion", "revived", "unsent", "gave_up"}

\* existed: the store was there when the task looked for it.
Indexer == [step : {"idle", "started", "looked"}, kind : Kinds, existed : BOOLEAN,
            collection : Collections \cup {NoCollection},
            document : Documents \cup {NoDocument}]
IdleIndexer == [step |-> "idle", kind |-> "VECTOR", existed |-> FALSE,
                collection |-> NoCollection, document |-> NoDocument]

\* created and deleted: history, the collections that were since the count.
Recount == [step : {"idle", "counted"}, count : Nat, created : Nat, deleted : Nat]
IdleRecount == [step |-> "idle", count |-> 0, created |-> 0, deleted |-> 0]

VARIABLES
  row,       \* collection.status
  usage,     \* current_usage of the owner's max_collection_count
  limit,     \* quota_limit of it
  recount,   \* requests that recalculate it
  init,      \* collection_init_task
  deleter,   \* delete requests, then their collection_delete_task
  indexer,   \* index tasks
  stores,    \* the documents in the stores of a collection, or NoStore
  indexed,   \* documents whose index of a kind is ACTIVE
  unpaid,    \* history: collections that the usage may miss,
  overpaid,  \* and places it may count for none
  lost,      \* history: documents that were emptied out of a store, or never put there
  mishaps    \* history: what went wrong so far

quotaVars == <<usage, limit, recount, unpaid, overpaid>>
storeVars == <<stores, indexed, lost>>
collectionVars == <<row, quotaVars, init, deleter, indexer, storeVars, mishaps>>

CollectionInit ==
  /\ row = [c \in Collections |-> "absent"]
  /\ usage = 0
  /\ limit \in Limits
  /\ recount = [q \in Recounts |-> IdleRecount]
  /\ init = [c \in Collections |-> [step |-> "none", retries |-> 0]]
  /\ deleter = [r \in Deleters |->
                  [step |-> "idle", collection |-> NoCollection, retries |-> 0]]
  /\ indexer = [w \in Indexers |-> IdleIndexer]
  /\ stores = [c \in Collections |-> [k \in Kinds |-> NoStore]]
  /\ indexed = [c \in Collections |-> [k \in Kinds |-> {}]]
  /\ unpaid = 0
  /\ overpaid = 0
  /\ lost = [c \in Collections |-> [k \in Kinds |-> {}]]
  /\ mishaps = {}

Note(mishap, happened) ==
  mishaps' = IF happened THEN mishaps \cup {mishap} ELSE mishaps

\* An exception in a task: self.retry queues it again, or gives it up.
AfterFailure(t) ==
  IF t.retries < MaxTaskRetries THEN [t EXCEPT !.step = "queued", !.retries = @ + 1]
                            ELSE [t EXCEPT !.step = "ended"]

ActiveCollections == {c \in Collections : row[c] = "ACTIVE"}

-----------------------------------------------------------------------------
(* The quota.  Each of these steps is the part of a transaction that holds   *)
(* the row, or one that reads it without a lock.                             *)

NoLimit == usage <= limit       \* mutant
HasRoom == usage + 1 <= limit

KeepsQuota(n) == n   \* mutant: a deletion releases nothing
ReleasedQuota(n) == IF n > 0 THEN n - 1 ELSE 0

\* update_user_quota, which does not look at the usage.
UpdateCollectionLimit(n) ==
  /\ limit' = n
  /\ UNCHANGED <<row, usage, recount, init, deleter, indexer, storeVars, unpaid, overpaid,
                 mishaps>>

\* recalculate_user_usage counts the collections, and later writes the count.
CountCollections(q) ==
  /\ recount[q].step = "idle"
  /\ recount' = [recount EXCEPT ![q] =
                   [IdleRecount EXCEPT !.step = "counted",
                                       !.count = Cardinality(ActiveCollections)]]
  /\ UNCHANGED <<row, usage, limit, init, deleter, indexer, storeVars, unpaid, overpaid,
                 mishaps>>

WriteCount(q) ==
  /\ recount[q].step = "counted"
  /\ usage' = recount[q].count
  /\ unpaid' = recount[q].created
  /\ overpaid' = recount[q].deleted
  /\ recount' = [recount EXCEPT ![q] = IdleRecount]
  /\ UNCHANGED <<row, limit, init, deleter, indexer, storeVars, mishaps>>

\* Collections come and go between a count and its write.
Missed(created, deleted) ==
  recount' = [q \in Recounts |->
                IF recount[q].step = "idle" THEN recount[q]
                ELSE [recount[q] EXCEPT !.created = @ + created, !.deleted = @ + deleted]]

-----------------------------------------------------------------------------
(* create_collection: the quota row is locked until the row is committed, so *)
(* the transaction is one step.  The task is sent after the commit, or never *)
(* if the process dies or the broker refuses it.                             *)

CreateCollection(c) ==
  /\ row[c] = "absent"
  /\ HasRoom
  /\ row' = [row EXCEPT ![c] = "ACTIVE"]
  /\ usage' = usage + 1
  /\ Missed(1, 0)
  /\ \E sent \in BOOLEAN :
       /\ init' = [init EXCEPT ![c].step = IF sent THEN "queued" ELSE "ended"]
       /\ Note("unsent", ~ sent)
  /\ UNCHANGED <<limit, deleter, indexer, storeVars, unpaid, overpaid>>

-----------------------------------------------------------------------------
(* initialize_collection.  A task that is delivered twice (task_acks_late)    *)
(* does what a retried one does.                                             *)

InitRead(c) ==
  /\ init[c].step = "queued"
  /\ row[c] # "DELETED"
  /\ init' = [init EXCEPT ![c].step = "read"]
  /\ UNCHANGED <<row, quotaVars, deleter, indexer, storeVars, mishaps>>

\* create_collection of the connector: recreate_collection.
Recreated(store) == {}

Contents(store) == IF store = NoStore THEN {} ELSE store

InitVectors(c) ==
  /\ init[c].step = "read"
  /\ stores' = [stores EXCEPT ![c].VECTOR = Recreated(@)]
  /\ lost' = [lost EXCEPT ![c].VECTOR = @ \cup Contents(stores[c].VECTOR)]
  /\ init' = [init EXCEPT ![c].step = "vectors"]
  /\ Note("init_after_deletion", row[c] = "DELETED")
  /\ UNCHANGED <<row, quotaVars, deleter, indexer, indexed>>

\* An index that exists is left as it is.  The status that was read is ACTIVE
\* already, so that writing it back is no UPDATE: the row is left alone.
InitFulltext(c) ==
  /\ init[c].step = "vectors"
  /\ stores' = [stores EXCEPT ![c].FULLTEXT = Contents(@)]
  /\ init' = [init EXCEPT ![c].step = "ended"]
  /\ Note("init_after_deletion", row[c] = "DELETED")
  /\ UNCHANGED <<row, quotaVars, deleter, indexer, indexed, lost>>

\* A store cannot be reached, or the collection is deleted when it is read.
InitFails(c) ==
  /\ init[c].step \in {"queued", "read", "vectors"}
  /\ init' = [init EXCEPT ![c] = AfterFailure(@)]
  /\ Note("gave_up", AfterFailure(init[c]).step = "ended")
  /\ UNCHANGED <<row, quotaVars, deleter, indexer, storeVars>>

-----------------------------------------------------------------------------
(* An index task of a document.  It reads the collection, looks whether the  *)
(* store exists, and much later writes; the callback then makes the index    *)
(* ACTIVE.                                                                   *)

IndexDocument(w, k, c, d) ==
  /\ indexer[w].step = "idle"
  /\ row[c] = "ACTIVE"
  /\ indexer' = [indexer EXCEPT ![w] =
                   [IdleIndexer EXCEPT !.step = "started", !.kind = k, !.collection = c,
                                       !.document = d]]
  /\ UNCHANGED <<row, quotaVars, init, deleter, storeVars, mishaps>>

\* QdrantVectorStore looks as it is built, before the documents are embedded;
\* _insert_chunk before each chunk.
LookForStore(w) ==
  LET t == indexer[w]
  IN  /\ t.step = "started"
      /\ indexer' = [indexer EXCEPT ![w].step = "looked",
                                    ![w].existed = stores[t.collection][t.kind] # NoStore]
      /\ UNCHANGED <<row, quotaVars, init, deleter, storeVars, mishaps>>

\* QdrantVectorStore.add creates the collection if it did not find it, and
\* fails if the one it found is gone; es.index creates an index that is gone.
Writable(t) ==
  IF t.kind = "VECTOR" THEN ~ t.existed \/ stores[t.collection].VECTOR # NoStore
                       ELSE t.existed

WriteStore(w) ==
  LET t == indexer[w]
      c == t.collection
  IN  /\ t.step = "looked"
      /\ Writable(t)
      /\ stores' = [stores EXCEPT ![c][t.kind] = Contents(@) \cup {t.document}]
      /\ indexed' = [indexed EXCEPT ![c][t.kind] = @ \cup {t.document}]
      /\ lost' = [lost EXCEPT ![c][t.kind] = @ \ {t.document}]
      /\ indexer' = [indexer EXCEPT ![w] = IdleIndexer]
      /\ Note("revived", row[c] = "DELETED" /\ stores[c][t.kind] = NoStore)
      /\ UNCHANGED <<row, quotaVars, init, deleter>>

\* _insert_chunk warns of a missing index and returns: the task succeeds.
SkipStore(w) ==
  LET t == indexer[w]
      c == t.collection
  IN  /\ t.step = "looked" /\ t.kind = "FULLTEXT" /\ ~ t.existed
      /\ indexed' = [indexed EXCEPT ![c].FULLTEXT = @ \cup {t.document}]
      /\ lost' = [lost EXCEPT ![c].FULLTEXT = @ \cup {t.document}]
      /\ indexer' = [indexer EXCEPT ![w] = IdleIndexer]
      /\ UNCHANGED <<row, quotaVars, init, deleter, stores, mishaps>>

IndexFails(w) ==
  /\ indexer[w].step # "idle"
  /\ indexer' = [indexer EXCEPT ![w] = IdleIndexer]
  /\ UNCHANGED <<row, quotaVars, init, deleter, storeVars, mishaps>>

-----------------------------------------------------------------------------
(* delete_collection of the service *)

SendsBeforeCommit(r, c) ==   \* mutant: the task does not wait for the commit
  /\ deleter[r].step = "idle"
  /\ row[c] = "ACTIVE"
  /\ deleter' = [deleter EXCEPT ![r].step = "queued", ![r].collection = c]
  /\ UNCHANGED <<row, quotaVars, init, indexer, storeVars, mishaps>>

DeleteCheck(r, c) ==
  /\ deleter[r].step = "idle"
  /\ row[c] = "ACTIVE"
  /\ deleter' = [deleter EXCEPT ![r].step = "checked", ![r].collection = c]
  /\ UNCHANGED <<row, quotaVars, init, indexer, storeVars, mishaps>>

\* The row is read again without its status; the release locks the quota row.
\* The task is sent after the commit, or never.
DeleteCommit(r) ==
  LET c == deleter[r].collection
  IN /\ deleter[r].step = "checked"
     /\ row' = [row EXCEPT ![c] = "DELETED"]
     /\ usage' = ReleasedQuota(usage)
     /\ IF row[c] = "DELETED" THEN /\ unpaid' = unpaid + 1
                                   /\ UNCHANGED recount
                              ELSE /\ Missed(0, 1)
                                   /\ UNCHANGED unpaid
     /\ \E sent \in BOOLEAN :
          /\ deleter' = [deleter EXCEPT ![r].step = IF sent THEN "queued" ELSE "ended"]
          /\ Note("unsent", ~ sent)
     /\ UNCHANGED <<limit, init, indexer, storeVars, overpaid>>

-----------------------------------------------------------------------------
(* delete_collection of the task: the vector store, then the full-text index *)

DropVectors(r) ==
  /\ deleter[r].step = "queued"
  /\ stores' = [stores EXCEPT ![deleter[r].collection].VECTOR = NoStore]
  /\ deleter' = [deleter EXCEPT ![r].step = "vectors"]
  /\ UNCHANGED <<row, quotaVars, init, indexer, indexed, lost, mishaps>>

KeepsFulltext(r) ==   \* mutant: only the vector store is dropped
  /\ deleter[r].step = "vectors"
  /\ deleter' = [deleter EXCEPT ![r].step = "ended"]
  /\ UNCHANGED <<row, quotaVars, init, indexer, storeVars, mishaps>>

DropFulltext(r) ==
  /\ deleter[r].step = "vectors"
  /\ stores' = [stores EXCEPT ![deleter[r].collection].FULLTEXT = NoStore]
  /\ deleter' = [deleter EXCEPT ![r].step = "ended"]
  /\ UNCHANGED <<row, quotaVars, init, indexer, indexed, lost, mishaps>>

DeleteFails(r) ==
  /\ deleter[r].step \in {"queued", "vectors"}
  /\ deleter' = [deleter EXCEPT ![r] = AfterFailure(@)]
  /\ Note("gave_up", AfterFailure(deleter[r]).step = "ended")
  /\ UNCHANGED <<row, quotaVars, init, indexer, storeVars>>

-----------------------------------------------------------------------------
InitTask(c) == InitRead(c) \/ InitVectors(c) \/ InitFulltext(c) \/ InitFails(c)

IndexTask(w) == LookForStore(w) \/ WriteStore(w) \/ SkipStore(w) \/ IndexFails(w)

DeleteTask(r) == DropVectors(r) \/ DropFulltext(r) \/ DeleteFails(r)

CollectionNext ==
  \/ \E c \in Collections : CreateCollection(c)
  \/ \E c \in Collections : InitTask(c)
  \/ \E n \in Limits : UpdateCollectionLimit(n)
  \/ \E q \in Recounts : CountCollections(q) \/ WriteCount(q)
  \/ \E w \in Indexers, k \in Kinds, c \in Collections, d \in Documents :
        IndexDocument(w, k, c, d)
  \/ \E w \in Indexers : IndexTask(w)
  \/ \E r \in Deleters, c \in Collections : DeleteCheck(r, c)
  \/ \E r \in Deleters : DeleteCommit(r) \/ DeleteTask(r)

CollectionSpec == CollectionInit /\ [][CollectionNext]_collectionVars

\* Requests that go on end, and tasks that were sent are run.
FairCollectionSpec ==
  /\ CollectionSpec
  /\ \A c \in Collections : WF_collectionVars(InitTask(c))
  /\ \A r \in Deleters : WF_collectionVars(DeleteCommit(r) \/ DeleteTask(r))

-----------------------------------------------------------------------------
CollectionTypeOK ==
  /\ row \in [Collections -> RowStatus]
  /\ usage \in Nat /\ limit \in Limits
  /\ recount \in [Recounts -> Recount]
  /\ init \in [Collections -> [step : InitSteps, retries : 0 .. MaxTaskRetries]]
  /\ deleter \in [Deleters -> [step : DeleteSteps, retries : 0 .. MaxTaskRetries,
                               collection : Collections \cup {NoCollection}]]
  /\ indexer \in [Indexers -> Indexer]
  /\ stores \in [Collections -> [Kinds -> {NoStore} \cup SUBSET Documents]]
  /\ indexed \in [Collections -> [Kinds -> SUBSET Documents]]
  /\ unpaid \in Nat /\ overpaid \in Nat
  /\ lost \in [Collections -> [Kinds -> SUBSET Documents]]
  /\ mishaps \subseteq Mishaps

\* The quota is the number of the user's collections, but for two things the
\* code does: a deletion that meets a collection which another one has deleted
\* frees a place that nobody gave up (delete_collection), and a recalculation
\* misses the collections that were created, and counts those that were
\* deleted, between its count and its write (recalculate_user_usage), no more.
UsageIsExplained ==
  /\ Cardinality(ActiveCollections) <= usage + unpaid
  /\ usage <= Cardinality(ActiveCollections) + overpaid

\* A collection is created only while the limit of that moment has room for
\* it, however deletions, recalculations and changes of the limit interleave,
\* but for what the usage misses (check_and_consume_quota).
CreatedWithinLimit ==
  [][~ ActiveCollections' \subseteq ActiveCollections =>
       Cardinality(ActiveCollections') <= limit + unpaid]_collectionVars

\* What is ACTIVE is in the store of its collection, unless initialisation
\* emptied the store of it or the task passed over a missing index: no
\* deletion drops a store of a collection that is not deleted, and no
\* initialisation or write takes another document away.
IndexedIsStored ==
  \A c \in ActiveCollections, k \in Kinds :
    indexed[c][k] \ lost[c][k] \subseteq Contents(stores[c][k])

\* "ACTIVE: Index is up-to-date and ready for use".
ActiveIsReadyForUse ==
  \A c \in ActiveCollections, k \in Kinds : indexed[c][k] \subseteq Contents(stores[c][k])

Gone(c) == \A k \in Kinds : stores[c][k] = NoStore
Ready(c) == \A k \in Kinds : stores[c][k] # NoStore

\* A collection gets its stores or is deleted, and a deleted collection loses
\* them for good, unless a task was not sent or gave up, initialisation
\* overlapped the deletion, or an index task that had begun before the
\* deletion wrote after it and created a store again.
StoresFollowTheRow ==
  \A c \in Collections :
    /\ row[c] = "ACTIVE" ~> (Ready(c) \/ row[c] = "DELETED" \/ mishaps # {})
    /\ row[c] = "DELETED" ~> [](Gone(c) \/ mishaps # {})

\* "Delete a collection and all its associated data", although an index task
\* is still at work.
NothingIsRevived ==
  \A c \in Collections :
    row[c] = "DELETED" ~> [](Gone(c) \/ mishaps \ {"revived"} # {})
=============================================================================
