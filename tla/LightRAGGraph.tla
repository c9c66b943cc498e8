---------------------------- MODULE LightRAGGraph ----------------------------
(***************************************************************************)
(* The knowledge graph of one collection: the tables of chunks, of nodes   *)
(* and edges, and of the vectors of entities and relations, each of which  *)
(* names the chunks it was extracted from.  Celery tasks in the threads of *)
(* one worker index documents, reading, merging and writing one entity or  *)
(* relation at a time under a lock of its own, and delete documents, from  *)
(* a scan of everything and without any lock.  Every await is a point at   *)
(* which other tasks run; every statement commits by itself.               *)
(***************************************************************************)
EXTENDS Naturals, FiniteSets

CONSTANTS Docs, Entities, Relations, Chunks, Texts,
          Ends,         \* the source and the target of a relation
          ChunksOf,     \* the chunks of a text: the same for equal texts
          Answers,      \* what the language model may extract from a chunk
          MaxUpdates,   \* bound: new texts of a document
          MaxRetries,   \* max_retries of the index tasks
          NoDoc, NoItem

Items == Entities \cup Relations

ASSUME RelationsHaveEnds ==
  /\ Entities \cap Relations = {}
  /\ NoItem \notin Items
  /\ NoDoc \notin Docs
  /\ Ends \in [Relations -> {pair \in Entities \X Entities : pair[1] # pair[2]}]
ASSUME TextsHaveChunks == ChunksOf \in [Texts -> (SUBSET Chunks) \ {{}}]
ASSUME AnswersAreItems == Answers \in [Chunks -> SUBSET SUBSET Items]
ASSUME BoundsAreNatural == {MaxUpdates, MaxRetries} \subseteq Nat

IndexSteps == {"idle", "queued", "started", "chunked", "merging", "read", "missing",
               "written", "indexed", "failed"}
DeleteSteps == {"idle", "queued", "chunks", "entities", "relations", "labels", "node", "entity_vectors",
                "relation_vectors", "vectors", "nodes", "edges",
                "deleted", "failed"}
Mishaps == {"shared_chunk", "overtaken", "raced_deletion", "raced_end", "dropped_edge",
            "swallowed_error"}

VARIABLES
  owner,    \* full_doc_id of a chunk, or NoDoc if there is no such row
  graph,    \* source_id of a node or an edge as a set, {} if there is none
  vectors,  \* chunk_ids of the vector of an entity or a relation, {} if there is none
  lock,     \* who holds the lock of an entity or a relation
  indexer,  \* the index task of a document
  deleter,  \* the delete task of a document
  mishaps   \* history: what went wrong so far

store == <<owner, graph, vectors>>
vars == <<owner, graph, vectors, lock, indexer, deleter, mishaps>>

Nothing == [i \in Items |-> {}]

Init ==
  /\ owner = [c \in Chunks |-> NoDoc]
  /\ graph = Nothing
  /\ vectors = Nothing
  /\ lock = [i \in Items |-> NoDoc]
  /\ \E text \in [Docs -> Texts] :
       indexer = [d \in Docs |->
                    [step |-> "idle", text |-> text[d], updates |-> 0, retries |-> 0,
                     found |-> Nothing, left |-> {}, item |-> NoItem, end |-> 1, seen |-> {}]]
  /\ deleter = [d \in Docs |->
                  [step |-> "idle", retries |-> 0, chunks |-> {}, left |-> {}, item |-> NoItem,
                   gone |-> {}, kept |-> Nothing, vgone |-> {}, vkept |-> Nothing]]
  /\ mishaps = {}

Note(mishap, happened) ==
  mishaps' = IF happened THEN mishaps \cup {mishap} ELSE mishaps

Deleted(d) == deleter[d].step # "idle"
Present(table) == {i \in Items : table[i] # {}}

-----------------------------------------------------------------------------
(* process_document: the text is cut into chunks whose ids are hashes of     *)
(* their content, so that documents with the same content share them.        *)

RequestIndex(d) ==
  /\ indexer[d].step = "idle"
  /\ ~ Deleted(d)
  /\ indexer' = [indexer EXCEPT ![d].step = "queued"]
  /\ UNCHANGED <<store, lock, deleter, mishaps>>

\* A rebuild: update_index of the graph is create_index, with another text.
RequestUpdate(d) ==
  /\ indexer[d].step \in {"indexed", "failed"}
  /\ ~ Deleted(d)
  /\ indexer[d].updates < MaxUpdates
  /\ \E text \in Texts :
       indexer' = [indexer EXCEPT ![d] =
         [@ EXCEPT !.step = "queued", !.text = text, !.updates = indexer[d].updates + 1,
                   !.retries = 0]]
  /\ UNCHANGED <<store, lock, deleter, mishaps>>

\* The task reads the document; one that is deleted is not found.
StartIndex(d) ==
  /\ indexer[d].step = "queued"
  /\ ~ Deleted(d)
  /\ indexer' = [indexer EXCEPT ![d].step = "started"]
  /\ UNCHANGED <<store, lock, deleter, mishaps>>

InsertChunks(d) ==
  LET chunks == ChunksOf[indexer[d].text] IN
  /\ indexer[d].step = "started"
  /\ owner' = [c \in Chunks |-> IF c \in chunks THEN d ELSE owner[c]]
  /\ Note("shared_chunk", \E c \in chunks : owner[c] \notin {NoDoc, d})
  /\ indexer' = [indexer EXCEPT ![d].step = "chunked"]
  /\ UNCHANGED <<graph, vectors, lock, deleter>>

\* The model answers for each chunk; relations may name entities that it did
\* not list, and a retried task may get other answers.
ExtractEntities(d) ==
  LET chunks == ChunksOf[indexer[d].text] IN
  /\ indexer[d].step = "chunked"
  /\ \E answer \in [chunks -> SUBSET Items] :
       LET found == [i \in Items |-> {c \in chunks : i \in answer[c]}] IN
       /\ \A c \in chunks : answer[c] \in Answers[c]
       /\ indexer' = [indexer EXCEPT ![d] =
            [@ EXCEPT !.found = found, !.left = Present(found),
                      !.step = IF Present(found) = {} THEN "indexed" ELSE "merging"]]
  /\ UNCHANGED <<store, lock, deleter, mishaps>>

-----------------------------------------------------------------------------
(* Merging, one connected component of the extraction after the other, and   *)
(* in each the entities before the relations.                                *)

EndsOf(r) == {Ends[r][1], Ends[r][2]}

\* A set of items that no relation of the extraction leaves.
Closed(found, items) ==
  \A r \in Relations \cap Present(found) :
    ({r} \cup EndsOf(r)) \cap items # {} => {r} \cup EndsOf(r) \subseteq items

Component(found, i) ==
  {j \in Items : \A items \in SUBSET Items : i \in items /\ Closed(found, items) => j \in items}

Ready(ix, i) ==
  LET component == Component(ix.found, i)
      begun == Present(ix.found) \ ix.left IN
  /\ i \in ix.left
  /\ \A j \in ix.left : Component(ix.found, j) \cap begun # {} => j \in component
  /\ i \in Relations => component \cap ix.left \cap Entities = {}

LocksNothing(i) == i \in Items   \* mutant: no lock

Lockable(i) == lock[i] = NoDoc

\* The lock is taken and the item is read.
MergeRead(d, i) ==
  /\ indexer[d].step = "merging"
  /\ Ready(indexer[d], i)
  /\ Lockable(i)
  /\ lock' = [lock EXCEPT ![i] = d]
  /\ indexer' = [indexer EXCEPT ![d] =
       [@ EXCEPT !.step = "read", !.item = i, !.seen = graph[i],
                 !.end = IF i \in Relations THEN 1 ELSE 3]]
  /\ UNCHANGED <<store, deleter, mishaps>>

Merged(ix) == ix.seen \cup ix.found[ix.item]

\* has_node for the next end of a relation.
CheckEnd(d) ==
  LET ix == indexer[d] IN
  /\ ix.step = "read"
  /\ ix.end \in 1..2
  /\ indexer' = IF graph[Ends[ix.item][ix.end]] = {}
                THEN [indexer EXCEPT ![d].step = "missing"]
                ELSE [indexer EXCEPT ![d].end = @ + 1]
  /\ UNCHANGED <<store, lock, deleter, mishaps>>

\* A missing end becomes an UNKNOWN node, under the lock of the relation and
\* not under its own, and without a vector.
InsertEnd(d) ==
  LET ix == indexer[d]
      e == Ends[ix.item][ix.end] IN
  /\ ix.step = "missing"
  /\ graph' = [graph EXCEPT ![e] = Merged(ix)]
  /\ indexer' = [indexer EXCEPT ![d] = [@ EXCEPT !.step = "read", !.end = ix.end + 1]]
  /\ Note("raced_end", graph[e] # {} \/ lock[e] # NoDoc)
  /\ UNCHANGED <<owner, vectors, lock, deleter>>

\* A merge writes back the sources that a running deletion is removing.
RevivesSources(d) ==
  \E other \in Docs : deleter[other].chunks \cap Merged(indexer[d]) # {}

UpsertItem(d) ==
  LET ix == indexer[d] IN
  /\ ix.step = "read"
  /\ ix.end = 3
  /\ graph' = [graph EXCEPT ![ix.item] = Merged(ix)]
  /\ indexer' = [indexer EXCEPT ![d].step = "written"]
  /\ Note("raced_deletion", RevivesSources(d))
  /\ UNCHANGED <<owner, vectors, lock, deleter>>

\* The locks of a task are released when it leaves their block, whatever ends it.
Released(d) == [i \in Items |-> IF lock[i] = d THEN NoDoc ELSE lock[i]]

UpsertVector(d) ==
  LET ix == indexer[d]
      left == ix.left \ {ix.item} IN
  /\ ix.step = "written"
  /\ vectors' = [vectors EXCEPT ![ix.item] = Merged(ix)]
  /\ lock' = Released(d)
  /\ indexer' = [indexer EXCEPT ![d] =
       [@ EXCEPT !.left = left, !.item = NoItem, !.seen = {},
                 !.step = IF left = {} THEN "indexed" ELSE "merging"]]
  /\ Note("raced_deletion", RevivesSources(d))
  /\ UNCHANGED <<owner, graph, deleter>>

\* An exception anywhere: the task is retried from its start, or gives up.
AfterFailure(t) ==
  IF t.retries < MaxRetries THEN [t EXCEPT !.step = "queued", !.retries = @ + 1]
                            ELSE [t EXCEPT !.step = "failed"]

IndexFails(d) ==
  /\ indexer[d].step \notin {"idle", "indexed", "failed"}
  /\ lock' = Released(d)
  /\ indexer' = [indexer EXCEPT ![d] =
       AfterFailure([@ EXCEPT !.left = {}, !.item = NoItem, !.seen = {}])]
  /\ UNCHANGED <<store, deleter, mishaps>>

-----------------------------------------------------------------------------
(* adelete_by_doc_id: everything is read before anything is written.  gone   *)
(* and vgone are what has no source left without the chunks of the document, *)
(* kept and vkept the sources of what has.                                   *)

RequestDelete(d) ==
  /\ indexer[d].step # "idle"
  /\ ~ Deleted(d)
  /\ deleter' = [deleter EXCEPT ![d].step = "queued"]
  /\ UNCHANGED <<store, lock, indexer, mishaps>>

ChunksFirst(d) ==   \* mutant: the chunks are deleted when they have been read
  LET chunks == {c \in Chunks : owner[c] = d} IN
  /\ deleter[d].step = "queued"
  /\ owner' = [c \in Chunks |-> IF c \in chunks THEN NoDoc ELSE owner[c]]
  /\ deleter' = [deleter EXCEPT ![d] =
       [@ EXCEPT !.chunks = chunks, !.step = IF chunks = {} THEN "deleted" ELSE "chunks"]]
  /\ Note("overtaken", indexer[d].step \notin {"idle", "queued", "indexed", "failed"})
  /\ UNCHANGED <<graph, vectors, lock, indexer>>

ReadChunks(d) ==
  LET chunks == {c \in Chunks : owner[c] = d} IN
  /\ deleter[d].step = "queued"
  /\ deleter' = [deleter EXCEPT ![d] =
       [@ EXCEPT !.chunks = chunks, !.step = IF chunks = {} THEN "deleted" ELSE "chunks"]]
  /\ Note("overtaken", indexer[d].step \notin {"idle", "queued", "indexed", "failed"})
  /\ UNCHANGED <<store, lock, indexer>>

Remaining(d, table) == [i \in Items |-> table[i] \ deleter[d].chunks]
Unsourced(d, table) == {i \in Present(table) : table[i] \subseteq deleter[d].chunks}

\* Vectors that lose nothing are left alone.
PlanVectors(d, items) ==
  LET losing == {i \in items : vectors[i] \cap deleter[d].chunks # {}} IN
  [deleter[d] EXCEPT
     !.vgone = @ \cup (Unsourced(d, vectors) \cap items),
     !.vkept = [i \in Items |-> IF i \in losing THEN Remaining(d, vectors)[i] ELSE @[i]]]

ScanEntityVectors(d) ==
  /\ deleter[d].step = "chunks"
  /\ deleter' = [deleter EXCEPT ![d] = [PlanVectors(d, Entities) EXCEPT !.step = "entities"]]
  /\ UNCHANGED <<store, lock, indexer, mishaps>>

\* The relations are read, then the labels: between the two only the plan waits.
ScanRelationVectors(d) ==
  /\ deleter[d].step = "entities"
  /\ deleter' = [deleter EXCEPT ![d] = [PlanVectors(d, Relations) EXCEPT !.step = "relations"]]
  /\ UNCHANGED <<store, lock, indexer, mishaps>>

GetAllLabels(d) ==
  /\ deleter[d].step = "relations"
  /\ deleter' = [deleter EXCEPT ![d] = [@ EXCEPT !.step = "labels", !.left = Present(graph) \cap Entities]]
  /\ UNCHANGED <<store, lock, indexer, mishaps>>

\* What is there and what it keeps; nodes and edges that lose nothing are
\* rewritten too.
PlanGraph(d, items) ==
  [deleter[d] EXCEPT
     !.gone = @ \cup (Unsourced(d, graph) \cap items),
     !.kept = [i \in Items |-> IF i \in items /\ Remaining(d, graph)[i] # {}
                               THEN Remaining(d, graph)[i] ELSE @[i]]]

ScanNode(d, e) ==
  /\ deleter[d].step = "labels"
  /\ e \in deleter[d].left
  /\ deleter' = [deleter EXCEPT ![d] = [PlanGraph(d, {e}) EXCEPT !.step = "node", !.item = e]]
  /\ UNCHANGED <<store, lock, indexer, mishaps>>

EdgesAt(nodes) == {r \in Relations : EndsOf(r) \cap nodes # {}}

ScanEdges(d) ==
  LET e == deleter[d].item IN
  /\ deleter[d].step = "node"
  /\ deleter' = [deleter EXCEPT ![d] =
       [PlanGraph(d, EdgesAt({e})) EXCEPT !.step = "labels", !.item = NoItem,
                                          !.left = deleter[d].left \ {e}]]
  /\ UNCHANGED <<store, lock, indexer, mishaps>>

-----------------------------------------------------------------------------
(* The writes of the deletion.  It is raced if what it overwrites is not     *)
(* what it read, or is in the hands of a merge that has read it already.     *)

VectorRaced(d, i, sources) ==
  lock[i] # NoDoc \/ Remaining(d, vectors)[i] # sources

GraphRaced(d, i, sources) ==
  \/ \E j \in {i} \cup EdgesAt({i}) : lock[j] # NoDoc
  \/ Remaining(d, graph)[i] # sources

\* One statement per entity; an error of one is logged and forgotten.
DeleteEntityVector(d, e) ==
  /\ deleter[d].step = "labels"
  /\ deleter[d].left = {}
  /\ e \in deleter[d].vgone \cap Entities
  /\ deleter' = [deleter EXCEPT ![d].vgone = @ \ {e}]
  /\ \/ /\ vectors' = [vectors EXCEPT ![e] = {}]
        /\ Note("raced_deletion", VectorRaced(d, e, {}))
     \/ /\ vectors' = vectors
        /\ Note("swallowed_error", TRUE)
  /\ UNCHANGED <<owner, graph, lock, indexer>>

WriteVectors(d, items) ==
  /\ vectors' = [i \in Items |-> IF i \in items THEN deleter[d].vkept[i] ELSE vectors[i]]
  /\ Note("raced_deletion", \E i \in items : VectorRaced(d, i, deleter[d].vkept[i]))

UpdateEntityVectors(d) ==
  /\ deleter[d].step = "labels"
  /\ deleter[d].left = {}
  /\ deleter[d].vgone \cap Entities = {}
  /\ WriteVectors(d, Present(deleter[d].vkept) \cap Entities)
  /\ deleter' = [deleter EXCEPT ![d].step = "entity_vectors"]
  /\ UNCHANGED <<owner, graph, lock, indexer>>

\* One transaction deletes, the next one updates.
DeleteRelationVectors(d) ==
  /\ deleter[d].step = "entity_vectors"
  /\ WriteVectors(d, deleter[d].vgone)
  /\ deleter' = [deleter EXCEPT ![d].step = "relation_vectors"]
  /\ UNCHANGED <<owner, graph, lock, indexer>>

UpdateRelationVectors(d) ==
  /\ deleter[d].step = "relation_vectors"
  /\ WriteVectors(d, Present(deleter[d].vkept) \cap Relations)
  /\ deleter' = [deleter EXCEPT ![d].step = "vectors"]
  /\ UNCHANGED <<owner, graph, lock, indexer>>

OnlyNodes(nodes) == nodes   \* mutant: the edges stay

\* delete_graph_nodes_batch: the nodes, and every edge at them.
WithEdges(nodes) == nodes \cup EdgesAt(nodes)

RemoveNodes(d) ==
  LET nodes == deleter[d].gone \cap Entities
      removed == WithEdges(nodes) IN
  /\ deleter[d].step = "vectors"
  /\ graph' = [i \in Items |-> IF i \in removed THEN {} ELSE graph[i]]
  /\ deleter' = [deleter EXCEPT ![d] =
       [@ EXCEPT !.step = "nodes", !.left = Present(deleter[d].kept) \cap Entities]]
  /\ mishaps' = mishaps
       \cup (IF \E e \in nodes : GraphRaced(d, e, {}) THEN {"raced_deletion"} ELSE {})
       \cup (IF \E r \in EdgesAt(nodes) : Remaining(d, graph)[r] # {} THEN {"dropped_edge"} ELSE {})
  /\ UNCHANGED <<owner, vectors, lock, indexer>>

\* What is still there is written back with the sources of the scan.
FindKept(d, i) ==
  /\ deleter[d].step \in {"nodes", "edges"}
  /\ deleter[d].item = NoItem
  /\ i \in deleter[d].left
  /\ deleter' = [deleter EXCEPT ![d] =
       [@ EXCEPT !.left = deleter[d].left \ {i}, !.item = IF graph[i] = {} THEN NoItem ELSE i]]
  /\ UNCHANGED <<store, lock, indexer, mishaps>>

RewriteKept(d) ==
  LET i == deleter[d].item IN
  /\ deleter[d].step \in {"nodes", "edges"}
  /\ i # NoItem
  /\ graph' = [graph EXCEPT ![i] = deleter[d].kept[i]]
  /\ deleter' = [deleter EXCEPT ![d].item = NoItem]
  /\ Note("raced_deletion", GraphRaced(d, i, deleter[d].kept[i]))
  /\ UNCHANGED <<owner, vectors, lock, indexer>>

RemoveEdges(d) ==
  LET removed == deleter[d].gone \cap Relations IN
  /\ deleter[d].step = "nodes"
  /\ deleter[d].left = {} /\ deleter[d].item = NoItem
  /\ graph' = [i \in Items |-> IF i \in removed THEN {} ELSE graph[i]]
  /\ deleter' = [deleter EXCEPT ![d] =
       [@ EXCEPT !.step = "edges", !.left = Present(deleter[d].kept) \cap Relations]]
  /\ Note("raced_deletion", \E r \in removed : GraphRaced(d, r, {}))
  /\ UNCHANGED <<owner, vectors, lock, indexer>>

Forgotten(t) ==
  [t EXCEPT !.chunks = {}, !.left = {}, !.item = NoItem, !.gone = {}, !.kept = Nothing,
            !.vgone = {}, !.vkept = Nothing]

\* Last of all, so that a deletion that fails finds the chunks again.
DeleteChunks(d) ==
  /\ deleter[d].step = "edges"
  /\ deleter[d].left = {} /\ deleter[d].item = NoItem
  /\ owner' = [c \in Chunks |-> IF c \in deleter[d].chunks THEN NoDoc ELSE owner[c]]
  /\ deleter' = [deleter EXCEPT ![d] = [Forgotten(@) EXCEPT !.step = "deleted"]]
  /\ UNCHANGED <<graph, vectors, lock, indexer, mishaps>>

DeleteFails(d) ==
  /\ deleter[d].step \notin {"idle", "deleted", "failed"}
  /\ deleter' = [deleter EXCEPT ![d] = AfterFailure(Forgotten(@))]
  /\ UNCHANGED <<store, lock, indexer, mishaps>>

-----------------------------------------------------------------------------
RequestStep(d) == RequestIndex(d) \/ RequestUpdate(d) \/ RequestDelete(d)

IndexStep(d) ==
  \/ StartIndex(d) \/ InsertChunks(d) \/ ExtractEntities(d)
  \/ \E i \in Items : MergeRead(d, i)
  \/ CheckEnd(d) \/ InsertEnd(d) \/ UpsertItem(d) \/ UpsertVector(d)
  \/ IndexFails(d)

DeleteStep(d) ==
  \/ ReadChunks(d) \/ ScanEntityVectors(d) \/ ScanRelationVectors(d) \/ GetAllLabels(d)
  \/ \E e \in Entities : ScanNode(d, e) \/ DeleteEntityVector(d, e)
  \/ ScanEdges(d)
  \/ UpdateEntityVectors(d) \/ DeleteRelationVectors(d) \/ UpdateRelationVectors(d)
  \/ RemoveNodes(d) \/ RemoveEdges(d)
  \/ \E i \in Items : FindKept(d, i)
  \/ RewriteKept(d) \/ DeleteChunks(d) \/ DeleteFails(d)

Next == \E d \in Docs : RequestStep(d) \/ IndexStep(d) \/ DeleteStep(d)

Spec == Init /\ [][Next]_vars

-----------------------------------------------------------------------------
IndexTasks ==
  [step : IndexSteps, text : Texts, updates : 0..MaxUpdates, retries : 0..MaxRetries,
   found : [Items -> SUBSET Chunks], left : SUBSET Items, item : Items \cup {NoItem},
   end : 1..3, seen : SUBSET Chunks]

DeleteTasks ==
  [step : DeleteSteps, retries : 0..MaxRetries, chunks : SUBSET Chunks, left : SUBSET Items,
   item : Items \cup {NoItem}, gone : SUBSET Items, kept : [Items -> SUBSET Chunks],
   vgone : SUBSET Items, vkept : [Items -> SUBSET Chunks]]

\* Every variable has its type.
TypeOK ==
  /\ owner \in [Chunks -> Docs \cup {NoDoc}]
  /\ graph \in [Items -> SUBSET Chunks]
  /\ vectors \in [Items -> SUBSET Chunks]
  /\ lock \in [Items -> Docs \cup {NoDoc}]
  /\ indexer \in [Docs -> IndexTasks]
  /\ deleter \in [Docs -> DeleteTasks]
  /\ mishaps \subseteq Mishaps

(* What a document was found to contain is in the graph and in the vectors   *)
(* when its indexing has ended, whatever is indexed, retried or deleted      *)
(* beside it: merge_nodes_and_edges loses no source to another task.         *)
IndexedIsFound ==
  \A d \in Docs : indexer[d].step = "indexed" /\ ~ Deleted(d) /\ mishaps = {} =>
    \A i \in Items : indexer[d].found[i] \subseteq graph[i] \cap vectors[i]

(* The sources of nodes, edges and vectors are rows of the table of chunks,  *)
(* also between the steps of a deletion and after one that failed half way:  *)
(* a retry of adelete_by_doc_id can still find what is left to remove.       *)
SourcesAreStored ==
  mishaps = {} => \A i \in Items : \A c \in graph[i] \cup vectors[i] : owner[c] # NoDoc

(* An edge has both its nodes: what _merge_edges_then_upsert checks before   *)
(* it writes is not undone by a deletion, as long as none runs into a merge. *)
EdgesHaveEnds ==
  "raced_deletion" \notin mishaps =>
    \A r \in Relations : graph[r] # {} => \A e \in EndsOf(r) : graph[e] # {}

(* Deleting one document takes nothing of another away from the graph.       *)
(* Refuted by LightRAGDroppedEdge.cfg: a node goes with its edges.           *)
OthersKeepTheirGraph ==
  \A d \in Docs : indexer[d].step = "indexed" /\ ~ Deleted(d) /\ mishaps \subseteq {"dropped_edge"} =>
    \A i \in Items : indexer[d].found[i] \subseteq graph[i]
=============================================================================
