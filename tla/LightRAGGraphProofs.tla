------------------------- MODULE LightRAGGraphProofs -------------------------
(***************************************************************************)
(* For any documents, entities, relations, texts and answers: an edge has  *)
(* its nodes as long as no deletion runs into a merge, and what indexing   *)
(* found stays in the graph and in the vectors as long as nothing happens  *)
(* that the model counts as a mishap.                                      *)
(***************************************************************************)
EXTENDS LightRAGGraph, TLAPS

Merging == {"read", "missing", "written"}

\* A merge holds the lock of an item that is left to merge.
HeldTask(d, ix, locks) ==
  /\ ix.left \subseteq Present(ix.found)
  /\ ix.step \in Merging => ix.item \in ix.left /\ locks[ix.item] = d
  /\ ix.step = "indexed" => ix.left = {}
  /\ ix.step = "missing" => ix.end \in 1..2
  /\ ix.step \in {"read", "missing"} /\ ix.end \in 1..2 => ix.item \in Relations

Held == \A d \in Docs : HeldTask(d, indexer[d], lock)

\* A deletion rewrites what keeps a source.
RewriteTask(t) ==
  /\ t.item # NoItem => t.step \in {"node", "nodes", "edges"}
  /\ t.step \in {"nodes", "edges"} =>
       /\ t.left \subseteq Present(t.kept)
       /\ t.item # NoItem => t.item \in Present(t.kept)

Rewrites == \A d \in Docs : RewriteTask(deleter[d])

\* The ends of a relation that were checked are there.
LinkedTask(ix, nodes) ==
  ix.step \in {"read", "missing"} /\ ix.item \in Relations =>
    \A k \in 1..2 : k < ix.end => nodes[Ends[ix.item][k]] # {}

Linked == "raced_deletion" \notin mishaps => \A d \in Docs : LinkedTask(indexer[d], graph)

\* Both ends of a relation are entities.
LEMMA EndsAreEntities ==
  ASSUME NEW r \in Relations
  PROVE /\ Ends[r][1] \in Entities /\ Ends[r][2] \in Entities
        /\ EndsOf(r) = {Ends[r][1], Ends[r][2]} /\ EndsOf(r) \subseteq Entities
        /\ \A k \in 1..2 : Ends[r][k] \in EndsOf(r)
  BY RelationsHaveEnds DEF EndsOf

\* The steps of the tasks, one by one.
LEMMA StepNames ==
  /\ "queued" \in IndexSteps /\ "started" \in IndexSteps /\ "chunked" \in IndexSteps
  /\ "merging" \in IndexSteps /\ "read" \in IndexSteps /\ "missing" \in IndexSteps
  /\ "written" \in IndexSteps /\ "indexed" \in IndexSteps /\ "failed" \in IndexSteps
  /\ "idle" \in IndexSteps
  /\ \A s \in {"idle", "queued", "chunks", "entities", "relations", "labels", "node", "entity_vectors",
               "relation_vectors", "vectors", "nodes", "edges", "deleted", "failed"} : s \in DeleteSteps
  BY DEF IndexSteps, DeleteSteps

\* The retry of a task keeps its type.
LEMMA RetryTypes ==
  /\ \A t \in IndexTasks : AfterFailure(t) \in IndexTasks
  /\ \A t \in DeleteTasks : AfterFailure(Forgotten(t)) \in DeleteTasks
<1>1. ASSUME NEW t \in IndexTasks PROVE AfterFailure(t) \in IndexTasks
  <2>1. CASE t.retries < MaxRetries
    <3>1. t.retries + 1 \in 0..MaxRetries
      BY <2>1, BoundsAreNatural DEF IndexTasks
    <3>. QED BY <2>1, <3>1, StepNames DEF AfterFailure, IndexTasks
  <2>2. CASE ~ (t.retries < MaxRetries)
    BY <2>2, StepNames DEF AfterFailure, IndexTasks
  <2>. QED BY <2>1, <2>2
<1>2. ASSUME NEW t \in DeleteTasks PROVE Forgotten(t) \in DeleteTasks
  BY DEF Forgotten, DeleteTasks, Nothing
<1>3. ASSUME NEW t \in DeleteTasks PROVE AfterFailure(t) \in DeleteTasks
  <2>1. CASE t.retries < MaxRetries
    <3>1. t.retries + 1 \in 0..MaxRetries
      BY <2>1, BoundsAreNatural DEF DeleteTasks
    <3>2. "queued" \in DeleteSteps
      BY DEF DeleteSteps
    <3>. QED BY <2>1, <3>1, <3>2 DEF AfterFailure, DeleteTasks
  <2>2. CASE ~ (t.retries < MaxRetries)
    <3>1. "failed" \in DeleteSteps
      BY DEF DeleteSteps
    <3>. QED BY <2>2, <3>1 DEF AfterFailure, DeleteTasks
  <2>. QED BY <2>1, <2>2
<1>. QED BY <1>1, <1>2, <1>3

\* The plans of a deletion keep its type.
LEMMA PlanTypes ==
  ASSUME TypeOK, NEW d \in Docs, NEW items \in SUBSET Items
  PROVE PlanVectors(d, items) \in DeleteTasks /\ PlanGraph(d, items) \in DeleteTasks
<1>1. deleter[d] \in DeleteTasks
  BY DEF TypeOK
<1>2. /\ Remaining(d, vectors) \in [Items -> SUBSET Chunks] /\ Remaining(d, graph) \in [Items -> SUBSET Chunks]
      /\ Unsourced(d, vectors) \subseteq Items /\ Unsourced(d, graph) \subseteq Items
  BY DEF TypeOK, Remaining, Unsourced, Present
<1>3. PlanVectors(d, items) \in DeleteTasks
  BY <1>1, <1>2 DEF PlanVectors, DeleteTasks
<1>4. PlanGraph(d, items) \in DeleteTasks
  BY <1>1, <1>2 DEF PlanGraph, DeleteTasks
<1>. QED BY <1>3, <1>4

\* A step of an index task keeps the types if it keeps those of what it writes.
LEMMA IndexTypes ==
  ASSUME TypeOK, NEW d \in Docs, NEW t \in IndexTasks, indexer' = [indexer EXCEPT ![d] = t],
         deleter' = deleter, owner' \in [Chunks -> Docs \cup {NoDoc}],
         graph' \in [Items -> SUBSET Chunks], vectors' \in [Items -> SUBSET Chunks],
         lock' \in [Items -> Docs \cup {NoDoc}], mishaps' \subseteq Mishaps
  PROVE TypeOK'
  BY DEF TypeOK

\* So does a step of a delete task.
LEMMA DeleteTypes ==
  ASSUME TypeOK, NEW d \in Docs, NEW t \in DeleteTasks, deleter' = [deleter EXCEPT ![d] = t],
         indexer' = indexer, lock' = lock, owner' \in [Chunks -> Docs \cup {NoDoc}],
         graph' \in [Items -> SUBSET Chunks], vectors' \in [Items -> SUBSET Chunks],
         mishaps' \subseteq Mishaps
  PROVE TypeOK'
  BY DEF TypeOK

\* The mishaps that are noted are mishaps of the model.
LEMMA NoteTypes ==
  ASSUME TypeOK, NEW mishap \in Mishaps, NEW P, Note(mishap, P)
  PROVE mishaps' \subseteq Mishaps
  BY DEF TypeOK, Note

\* The ends of a task: what it has read, what it writes, where it goes on.
LEMMA TaskTypes ==
  ASSUME TypeOK, NEW d \in Docs
  PROVE /\ indexer[d] \in IndexTasks /\ deleter[d] \in DeleteTasks
        /\ Released(d) \in [Items -> Docs \cup {NoDoc}]
        /\ \A i \in Items : indexer[d].found[i] \subseteq Chunks
        /\ indexer[d].item \in Items => Merged(indexer[d]) \subseteq Chunks
        /\ store' = store => /\ owner' \in [Chunks -> Docs \cup {NoDoc}]
                             /\ graph' \in [Items -> SUBSET Chunks] /\ vectors' \in [Items -> SUBSET Chunks]
<1>1. indexer[d] \in IndexTasks /\ deleter[d] \in DeleteTasks
  BY DEF TypeOK
<1>2. \A i \in Items : indexer[d].found[i] \subseteq Chunks
  BY <1>1 DEF IndexTasks
<1>3. indexer[d].item \in Items => Merged(indexer[d]) \subseteq Chunks
  BY <1>1 DEF IndexTasks, Merged
<1>4. Released(d) \in [Items -> Docs \cup {NoDoc}]
  BY DEF TypeOK, Released
<1>. QED BY <1>1, <1>2, <1>3, <1>4 DEF TypeOK, store

\* Requests and the steps of an index task keep the types.
LEMMA TypeIndex ==
  ASSUME TypeOK, Held, NEW d \in Docs, RequestStep(d) \/ IndexStep(d)
  PROVE TypeOK'
<1> USE StepNames, TaskTypes
<1>1. CASE RequestIndex(d)
  <2>1. [indexer[d] EXCEPT !.step = "queued"] \in IndexTasks
    BY DEF IndexTasks
  <2>. QED BY <1>1, <2>1, IndexTypes DEF RequestIndex, TypeOK
<1>2. CASE RequestUpdate(d)
  <2>1. PICK text \in Texts :
          indexer' = [indexer EXCEPT ![d] =
            [indexer[d] EXCEPT !.step = "queued", !.text = text, !.updates = indexer[d].updates + 1, !.retries = 0]]
    BY <1>2 DEF RequestUpdate
  <2>2. indexer[d].updates + 1 \in 0..MaxUpdates /\ 0 \in 0..MaxRetries
    BY <1>2, BoundsAreNatural DEF RequestUpdate, IndexTasks
  <2>3. [indexer[d] EXCEPT !.step = "queued", !.text = text, !.updates = indexer[d].updates + 1, !.retries = 0] \in IndexTasks
    BY <2>2 DEF IndexTasks
  <2>. QED BY <1>2, <2>1, <2>3, IndexTypes DEF RequestUpdate, TypeOK
<1>3. CASE RequestDelete(d)
  <2>1. [deleter[d] EXCEPT !.step = "queued"] \in DeleteTasks
    BY DEF DeleteTasks
  <2>. QED BY <1>3, <2>1, DeleteTypes DEF RequestDelete, TypeOK
<1>4. CASE StartIndex(d)
  <2>1. [indexer[d] EXCEPT !.step = "started"] \in IndexTasks
    BY DEF IndexTasks
  <2>. QED BY <1>4, <2>1, IndexTypes DEF StartIndex, TypeOK
<1>5. CASE InsertChunks(d)
  <2>1. [indexer[d] EXCEPT !.step = "chunked"] \in IndexTasks
    BY DEF IndexTasks
  <2>2. mishaps' \subseteq Mishaps
    BY <1>5, NoteTypes DEF InsertChunks, Mishaps
  <2>3. owner' \in [Chunks -> Docs \cup {NoDoc}]
    BY <1>5 DEF InsertChunks, TypeOK
  <2>. QED BY <1>5, <2>1, <2>2, <2>3, IndexTypes DEF InsertChunks, TypeOK
<1>6. CASE ExtractEntities(d)
  <2> DEFINE chunks == ChunksOf[indexer[d].text]
             Found(answer) == [i \in Items |-> {c \in chunks : i \in answer[c]}]
             Task(found) == [indexer[d] EXCEPT !.found = found, !.left = Present(found),
                               !.step = IF Present(found) = {} THEN "indexed" ELSE "merging"]
  <2>1. PICK answer \in [chunks -> SUBSET Items] :
          indexer' = [indexer EXCEPT ![d] = Task(Found(answer))]
    BY <1>6, Zenon DEF ExtractEntities
  <2>2. chunks \subseteq Chunks
    BY TextsHaveChunks DEF IndexTasks
  <2>3. Found(answer) \in [Items -> SUBSET Chunks] /\ Present(Found(answer)) \subseteq Items
    BY <2>2 DEF Present
  <2>4. ASSUME NEW found \in [Items -> SUBSET Chunks], Present(found) \subseteq Items
        PROVE Task(found) \in IndexTasks
    BY <2>4 DEF IndexTasks
  <2>. HIDE DEF Found, Task
  <2>. QED BY <1>6, <2>1, <2>3, <2>4, IndexTypes DEF ExtractEntities, TypeOK
<1>7. ASSUME NEW i \in Items, MergeRead(d, i) PROVE TypeOK'
  <2> DEFINE end == IF i \in Relations THEN 1 ELSE 3
  <2>1. graph[i] \in SUBSET Chunks /\ end \in 1..3
    BY DEF TypeOK
  <2>2. ASSUME NEW n \in 1..3, NEW seen \in SUBSET Chunks
        PROVE [indexer[d] EXCEPT !.step = "read", !.item = i, !.seen = seen, !.end = n] \in IndexTasks
    BY DEF IndexTasks
  <2>3. [indexer[d] EXCEPT !.step = "read", !.item = i, !.seen = graph[i], !.end = end] \in IndexTasks
    BY <2>1, <2>2
  <2>4. lock' \in [Items -> Docs \cup {NoDoc}]
    BY <1>7 DEF MergeRead, TypeOK
  <2>. QED BY <1>7, <2>3, <2>4, IndexTypes DEF MergeRead, TypeOK
<1>8. CASE CheckEnd(d)
  <2>1. [indexer[d] EXCEPT !.step = "missing"] \in IndexTasks
    BY DEF IndexTasks
  <2>2. indexer[d].end + 1 \in 1..3
    BY <1>8 DEF CheckEnd
  <2>3. [indexer[d] EXCEPT !.end = @ + 1] \in IndexTasks
    BY <2>2 DEF IndexTasks
  <2>4. PICK t \in IndexTasks : indexer' = [indexer EXCEPT ![d] = t]
    <3>1. CASE graph[Ends[indexer[d].item][indexer[d].end]] = {}
      BY <1>8, <2>1, <3>1 DEF CheckEnd
    <3>2. CASE graph[Ends[indexer[d].item][indexer[d].end]] # {}
      BY <1>8, <2>3, <3>2 DEF CheckEnd
    <3>. QED BY <3>1, <3>2
  <2>. QED BY <1>8, <2>4, IndexTypes DEF CheckEnd, TypeOK
<1>9. CASE InsertEnd(d)
  <2>1. indexer[d].end \in 1..2 /\ indexer[d].item \in Items
    BY <1>9 DEF InsertEnd, Held, HeldTask, Present, Merging, IndexTasks
  <2>5. indexer[d].end + 1 \in 1..3
    BY <2>1
  <2>2. [indexer[d] EXCEPT !.step = "read", !.end = indexer[d].end + 1] \in IndexTasks
    BY <2>5 DEF IndexTasks
  <2>3. mishaps' \subseteq Mishaps
    BY <1>9, NoteTypes DEF InsertEnd, Mishaps
  <2>4. graph' \in [Items -> SUBSET Chunks]
    BY <1>9, <2>1 DEF InsertEnd, TypeOK
  <2>. QED BY <1>9, <2>2, <2>3, <2>4, IndexTypes DEF InsertEnd, TypeOK
<1>10. CASE UpsertItem(d)
  <2>1. [indexer[d] EXCEPT !.step = "written"] \in IndexTasks
    BY DEF IndexTasks
  <2>2. indexer[d].item \in Items
    BY <1>10 DEF UpsertItem, Held, HeldTask, Present, Merging, IndexTasks
  <2>3. mishaps' \subseteq Mishaps
    BY <1>10, NoteTypes DEF UpsertItem, Mishaps
  <2>4. graph' \in [Items -> SUBSET Chunks]
    BY <1>10, <2>2 DEF UpsertItem, TypeOK
  <2>. QED BY <1>10, <2>1, <2>3, <2>4, IndexTypes DEF UpsertItem, TypeOK
<1>11. CASE UpsertVector(d)
  <2> DEFINE left == indexer[d].left \ {indexer[d].item}
  <2>1. [indexer[d] EXCEPT !.left = left, !.item = NoItem, !.seen = {},
                    !.step = IF left = {} THEN "indexed" ELSE "merging"] \in IndexTasks
    BY DEF IndexTasks
  <2>2. indexer[d].item \in Items
    BY <1>11 DEF UpsertVector, Held, HeldTask, Present, Merging, IndexTasks
  <2>3. mishaps' \subseteq Mishaps
    BY <1>11, NoteTypes DEF UpsertVector, Mishaps
  <2>4. vectors' \in [Items -> SUBSET Chunks]
    BY <1>11, <2>2 DEF UpsertVector, TypeOK
  <2>. QED BY <1>11, <2>1, <2>3, <2>4, IndexTypes DEF UpsertVector, TypeOK
<1>12. CASE IndexFails(d)
  <2>1. [indexer[d] EXCEPT !.left = {}, !.item = NoItem, !.seen = {}] \in IndexTasks
    BY DEF IndexTasks
  <2>. QED BY <1>12, <2>1, RetryTypes, IndexTypes DEF IndexFails, TypeOK
<1>. QED BY <1>1, <1>2, <1>3, <1>4, <1>5, <1>6, <1>7, <1>8, <1>9, <1>10, <1>11, <1>12
         DEF RequestStep, IndexStep

\* What a deletion writes into the vectors.
LEMMA WriteVectorsTypes ==
  ASSUME TypeOK, NEW d \in Docs, NEW items, WriteVectors(d, items)
  PROVE vectors' \in [Items -> SUBSET Chunks] /\ mishaps' \subseteq Mishaps
<1>1. mishaps' \subseteq Mishaps
  BY NoteTypes DEF WriteVectors, Mishaps
<1>2. deleter[d].vkept \in [Items -> SUBSET Chunks]
  BY TaskTypes DEF DeleteTasks
<1>3. vectors' \in [Items -> SUBSET Chunks]
  BY <1>2 DEF WriteVectors, TypeOK
<1>. QED BY <1>1, <1>3

\* The steps of a delete task keep the types.
LEMMA TypeDelete ==
  ASSUME TypeOK, Rewrites, NEW d \in Docs, DeleteStep(d)
  PROVE TypeOK'
<1> USE StepNames, TaskTypes
<1>1. CASE ReadChunks(d)
  <2> DEFINE chunks == {c \in Chunks : owner[c] = d}
  <2>1. [deleter[d] EXCEPT !.chunks = chunks, !.step = IF chunks = {} THEN "deleted" ELSE "chunks"]
          \in DeleteTasks
    BY DEF DeleteTasks
  <2>2. mishaps' \subseteq Mishaps
    BY <1>1, NoteTypes DEF ReadChunks, Mishaps
  <2>. QED BY <1>1, <2>1, <2>2, DeleteTypes DEF ReadChunks, TypeOK
<1>2. CASE ScanEntityVectors(d)
  <2>2. PlanVectors(d, Entities) \in DeleteTasks
    BY PlanTypes DEF Items
  <2>1. [PlanVectors(d, Entities) EXCEPT !.step = "entities"] \in DeleteTasks
    BY <2>2 DEF DeleteTasks
  <2>. QED BY <1>2, <2>1, DeleteTypes DEF ScanEntityVectors, TypeOK
<1>3. CASE ScanRelationVectors(d)
  <2>2. PlanVectors(d, Relations) \in DeleteTasks
    BY PlanTypes DEF Items
  <2>1. [PlanVectors(d, Relations) EXCEPT !.step = "relations"] \in DeleteTasks
    BY <2>2 DEF DeleteTasks
  <2>. QED BY <1>3, <2>1, DeleteTypes DEF ScanRelationVectors, TypeOK
<1>4. CASE GetAllLabels(d)
  <2>1. [deleter[d] EXCEPT !.step = "labels", !.left = Present(graph) \cap Entities] \in DeleteTasks
    BY DEF DeleteTasks, Items
  <2>. QED BY <1>4, <2>1, DeleteTypes DEF GetAllLabels, TypeOK
<1>5. ASSUME NEW e \in Entities, ScanNode(d, e) PROVE TypeOK'
  <2>2. PlanGraph(d, {e}) \in DeleteTasks /\ e \in Items
    BY PlanTypes DEF Items
  <2>1. [PlanGraph(d, {e}) EXCEPT !.step = "node", !.item = e] \in DeleteTasks
    BY <2>2 DEF DeleteTasks
  <2>. QED BY <1>5, <2>1, DeleteTypes DEF ScanNode, TypeOK
<1>6. ASSUME NEW e \in Entities, DeleteEntityVector(d, e) PROVE TypeOK'
  <2>1. [deleter[d] EXCEPT !.vgone = @ \ {e}] \in DeleteTasks
    BY DEF DeleteTasks
  <2>2. mishaps' \subseteq Mishaps
    BY <1>6, NoteTypes DEF DeleteEntityVector, Mishaps
  <2>3. vectors' \in [Items -> SUBSET Chunks]
    BY <1>6 DEF DeleteEntityVector, TypeOK
  <2>. QED BY <1>6, <2>1, <2>2, <2>3, DeleteTypes DEF DeleteEntityVector, TypeOK
<1>7. CASE ScanEdges(d)
  <2>1. EdgesAt({deleter[d].item}) \in SUBSET Items
    BY DEF EdgesAt, Items
  <2>2. [PlanGraph(d, EdgesAt({deleter[d].item})) EXCEPT !.step = "labels", !.item = NoItem,
           !.left = deleter[d].left \ {deleter[d].item}] \in DeleteTasks
    <3>1. deleter[d].left \ {deleter[d].item} \in SUBSET Items
      BY DEF DeleteTasks
    <3>2. PlanGraph(d, EdgesAt({deleter[d].item})) \in DeleteTasks
      BY <2>1, PlanTypes
    <3>. QED BY <3>1, <3>2 DEF DeleteTasks
  <2>. QED BY <1>7, <2>2, DeleteTypes DEF ScanEdges, TypeOK
<1>8. CASE UpdateEntityVectors(d)
  <2>1. [deleter[d] EXCEPT !.step = "entity_vectors"] \in DeleteTasks
    BY DEF DeleteTasks
  <2>. QED BY <1>8, <2>1, WriteVectorsTypes, DeleteTypes DEF UpdateEntityVectors, TypeOK
<1>9. CASE DeleteRelationVectors(d)
  <2>1. [deleter[d] EXCEPT !.step = "relation_vectors"] \in DeleteTasks
    BY DEF DeleteTasks
  <2>. QED BY <1>9, <2>1, WriteVectorsTypes, DeleteTypes DEF DeleteRelationVectors, TypeOK
<1>10. CASE UpdateRelationVectors(d)
  <2>1. [deleter[d] EXCEPT !.step = "vectors"] \in DeleteTasks
    BY DEF DeleteTasks
  <2>. QED BY <1>10, <2>1, WriteVectorsTypes, DeleteTypes DEF UpdateRelationVectors, TypeOK
<1>11. CASE RemoveNodes(d)
  <2>1. [deleter[d] EXCEPT !.step = "nodes", !.left = Present(deleter[d].kept) \cap Entities] \in DeleteTasks
    BY DEF DeleteTasks, Items
  <2>2. mishaps' \subseteq Mishaps
    BY <1>11 DEF RemoveNodes, Mishaps, TypeOK
  <2>3. graph' \in [Items -> SUBSET Chunks]
    BY <1>11 DEF RemoveNodes, TypeOK
  <2>. QED BY <1>11, <2>1, <2>2, <2>3, DeleteTypes DEF RemoveNodes, TypeOK
<1>12. CASE RemoveEdges(d)
  <2>1. [deleter[d] EXCEPT !.step = "edges", !.left = Present(deleter[d].kept) \cap Relations] \in DeleteTasks
    BY DEF DeleteTasks, Items
  <2>2. mishaps' \subseteq Mishaps
    BY <1>12, NoteTypes DEF RemoveEdges, Mishaps
  <2>3. graph' \in [Items -> SUBSET Chunks]
    BY <1>12 DEF RemoveEdges, TypeOK
  <2>. QED BY <1>12, <2>1, <2>2, <2>3, DeleteTypes DEF RemoveEdges, TypeOK
<1>13. ASSUME NEW i \in Items, FindKept(d, i) PROVE TypeOK'
  <2>1. [deleter[d] EXCEPT !.left = deleter[d].left \ {i}, !.item = IF graph[i] = {} THEN NoItem ELSE i]
          \in DeleteTasks
    BY DEF DeleteTasks
  <2>. QED BY <1>13, <2>1, DeleteTypes DEF FindKept, TypeOK
<1>14. CASE RewriteKept(d)
  <2>1. [deleter[d] EXCEPT !.item = NoItem] \in DeleteTasks
    BY DEF DeleteTasks
  <2>2. mishaps' \subseteq Mishaps
    BY <1>14, NoteTypes DEF RewriteKept, Mishaps
  <2>3. \A i \in Items : deleter[d].kept[i] \subseteq Chunks
    BY DEF DeleteTasks
  <2>4. graph' \in [Items -> SUBSET Chunks]
    BY <1>14, <2>3 DEF RewriteKept, TypeOK, DeleteTasks
  <2>. QED BY <1>14, <2>1, <2>2, <2>4, DeleteTypes DEF RewriteKept, TypeOK
<1>15. CASE DeleteChunks(d)
  <2>1. [Forgotten(deleter[d]) EXCEPT !.step = "deleted"] \in DeleteTasks
    BY DEF Forgotten, DeleteTasks, Nothing
  <2>2. owner' \in [Chunks -> Docs \cup {NoDoc}]
    BY <1>15 DEF DeleteChunks, TypeOK
  <2>. QED BY <1>15, <2>1, <2>2, DeleteTypes DEF DeleteChunks, TypeOK
<1>16. CASE DeleteFails(d)
  BY <1>16, RetryTypes, DeleteTypes DEF DeleteFails, TypeOK
<1>. QED BY <1>1, <1>2, <1>3, <1>4, <1>5, <1>6, <1>7, <1>8, <1>9, <1>10, <1>11, <1>12, <1>13, <1>14,
            <1>15, <1>16 DEF DeleteStep

\* Nothing that happened is forgotten.
LEMMA MishapsStay ==
  ASSUME [Next]_vars
  PROVE mishaps \subseteq mishaps'
<1>1. ASSUME NEW d \in Docs, RequestStep(d) \/ IndexStep(d) PROVE mishaps \subseteq mishaps'
  BY <1>1 DEF RequestStep, IndexStep, RequestIndex, RequestUpdate, RequestDelete, StartIndex,
    InsertChunks, ExtractEntities, MergeRead, CheckEnd, InsertEnd, UpsertItem, UpsertVector, IndexFails,
    Note
<1>2. ASSUME NEW d \in Docs, DeleteStep(d) PROVE mishaps \subseteq mishaps'
  BY <1>2 DEF DeleteStep, ReadChunks, ScanEntityVectors, ScanRelationVectors, GetAllLabels, ScanNode,
    DeleteEntityVector, ScanEdges, UpdateEntityVectors, DeleteRelationVectors, UpdateRelationVectors,
    RemoveNodes, RemoveEdges, FindKept, RewriteKept, DeleteChunks, DeleteFails, WriteVectors, Note
<1>. QED BY <1>1, <1>2 DEF Next, vars

\* The locks of the other tasks stay, and so does what they hold.
LEMMA HeldFrame ==
  ASSUME TypeOK, Held, NEW d \in Docs, NEW t, indexer' = [indexer EXCEPT ![d] = t],
         HeldTask(d, t, lock'), \A i \in Items : lock[i] \in Docs \ {d} => lock'[i] = lock[i]
  PROVE Held'
<1> SUFFICES ASSUME NEW other \in Docs PROVE HeldTask(other, indexer'[other], lock')
  BY DEF Held
<1>1. CASE other = d
  BY <1>1 DEF TypeOK
<1>2. CASE other # d
  <2>1. indexer'[other] = indexer[other] /\ HeldTask(other, indexer[other], lock)
    BY <1>2 DEF TypeOK, Held
  <2>2. indexer[other].left \subseteq Items
    BY TaskTypes DEF IndexTasks
  <2>. QED BY <1>2, <2>1, <2>2 DEF HeldTask
<1>. QED BY <1>1, <1>2

\* Requests and index tasks take and release locks of their own.
LEMMA HeldIndex ==
  ASSUME TypeOK, Held, NEW d \in Docs, RequestStep(d) \/ IndexStep(d)
  PROVE Held'
<1>0. HeldTask(d, indexer[d], lock) /\ indexer[d] \in IndexTasks /\ d # NoDoc
  BY TaskTypes, RelationsHaveEnds DEF Held
<1>1. CASE RequestIndex(d)
  <2>1. HeldTask(d, [indexer[d] EXCEPT !.step = "queued"], lock)
    BY <1>0 DEF HeldTask, Merging, IndexTasks
  <2>. QED BY <1>1, <2>1, HeldFrame DEF RequestIndex
<1>2. CASE RequestUpdate(d)
  <2>1. PICK text \in Texts :
          indexer' = [indexer EXCEPT ![d] =
            [indexer[d] EXCEPT !.step = "queued", !.text = text, !.updates = indexer[d].updates + 1, !.retries = 0]]
    BY <1>2 DEF RequestUpdate
  <2>2. HeldTask(d, [indexer[d] EXCEPT !.step = "queued", !.text = text, !.updates = indexer[d].updates + 1,
                                       !.retries = 0], lock)
    BY <1>0 DEF HeldTask, Merging, IndexTasks
  <2>. QED BY <1>2, <2>1, <2>2, HeldFrame DEF RequestUpdate
<1>3. CASE RequestDelete(d)
  BY <1>3 DEF RequestDelete, Held
<1>4. CASE StartIndex(d)
  <2>1. HeldTask(d, [indexer[d] EXCEPT !.step = "started"], lock)
    BY <1>0 DEF HeldTask, Merging, IndexTasks
  <2>. QED BY <1>4, <2>1, HeldFrame DEF StartIndex
<1>5. CASE InsertChunks(d)
  <2>1. HeldTask(d, [indexer[d] EXCEPT !.step = "chunked"], lock)
    BY <1>0 DEF HeldTask, Merging, IndexTasks
  <2>. QED BY <1>5, <2>1, HeldFrame DEF InsertChunks
<1>6. CASE ExtractEntities(d)
  <2> DEFINE chunks == ChunksOf[indexer[d].text]
             Found(answer) == [i \in Items |-> {c \in chunks : i \in answer[c]}]
             Task(found) == [indexer[d] EXCEPT !.found = found, !.left = Present(found),
                               !.step = IF Present(found) = {} THEN "indexed" ELSE "merging"]
  <2>1. PICK answer \in [chunks -> SUBSET Items] :
          indexer' = [indexer EXCEPT ![d] = Task(Found(answer))]
    BY <1>6, Zenon DEF ExtractEntities
  <2>2. ASSUME NEW found PROVE HeldTask(d, Task(found), lock)
    BY <1>0 DEF HeldTask, Merging, IndexTasks
  <2>. HIDE DEF Found, Task
  <2>. QED BY <1>6, <2>1, <2>2, HeldFrame DEF ExtractEntities
<1>7. ASSUME NEW i \in Items, MergeRead(d, i) PROVE Held'
  <2> DEFINE end == IF i \in Relations THEN 1 ELSE 3
             t == [indexer[d] EXCEPT !.step = "read", !.item = i, !.seen = graph[i], !.end = end]
  <2>1. i \in indexer[d].left
    BY <1>7 DEF MergeRead, Ready
  <2>2. lock' = [lock EXCEPT ![i] = d] /\ lock[i] = NoDoc /\ indexer' = [indexer EXCEPT ![d] = t]
    BY <1>7 DEF MergeRead, Lockable
  <2>3. HeldTask(d, t, lock')
    BY <1>0, <2>1, <2>2 DEF HeldTask, Merging, IndexTasks, TypeOK
  <2>4. \A j \in Items : lock[j] \in Docs \ {d} => lock'[j] = lock[j]
    BY <2>2, RelationsHaveEnds DEF TypeOK
  <2>. QED BY <2>2, <2>3, <2>4, HeldFrame
<1>8. CASE CheckEnd(d)
  <2>1. HeldTask(d, [indexer[d] EXCEPT !.step = "missing"], lock)
    BY <1>0, <1>8 DEF CheckEnd, HeldTask, Merging, IndexTasks
  <2>2. HeldTask(d, [indexer[d] EXCEPT !.end = indexer[d].end + 1], lock)
    BY <1>0, <1>8 DEF CheckEnd, HeldTask, Merging, IndexTasks
  <2>3. CASE graph[Ends[indexer[d].item][indexer[d].end]] = {}
    BY <1>8, <2>1, <2>3, HeldFrame DEF CheckEnd
  <2>4. CASE graph[Ends[indexer[d].item][indexer[d].end]] # {}
    BY <1>8, <2>2, <2>4, HeldFrame DEF CheckEnd
  <2>. QED BY <2>3, <2>4
<1>9. CASE InsertEnd(d)
  <2>1. HeldTask(d, [indexer[d] EXCEPT !.step = "read", !.end = indexer[d].end + 1], lock)
    BY <1>0, <1>9 DEF InsertEnd, HeldTask, Merging, IndexTasks
  <2>. QED BY <1>9, <2>1, HeldFrame DEF InsertEnd
<1>10. CASE UpsertItem(d)
  <2>1. HeldTask(d, [indexer[d] EXCEPT !.step = "written"], lock)
    BY <1>0, <1>10 DEF UpsertItem, HeldTask, Merging, IndexTasks
  <2>. QED BY <1>10, <2>1, HeldFrame DEF UpsertItem
<1>11. \A i \in Items : lock[i] \in Docs \ {d} => Released(d)[i] = lock[i]
  BY DEF Released
<1>12. CASE UpsertVector(d)
  <2> DEFINE left == indexer[d].left \ {indexer[d].item}
  <2>1. HeldTask(d, [indexer[d] EXCEPT !.left = left, !.item = NoItem, !.seen = {},
                       !.step = IF left = {} THEN "indexed" ELSE "merging"], lock')
    BY <1>0 DEF HeldTask, Merging, IndexTasks
  <2>. QED BY <1>11, <1>12, <2>1, HeldFrame DEF UpsertVector
<1>13. CASE IndexFails(d)
  <2> DEFINE t == [indexer[d] EXCEPT !.left = {}, !.item = NoItem, !.seen = {}]
  <2>1. t \in IndexTasks /\ t.left = {}
    BY <1>0 DEF IndexTasks
  <2>2. HeldTask(d, AfterFailure(t), lock')
    BY <2>1 DEF HeldTask, AfterFailure, Merging, IndexTasks
  <2>. QED BY <1>11, <1>13, <2>2, HeldFrame DEF IndexFails
<1>. QED BY <1>1, <1>2, <1>3, <1>4, <1>5, <1>6, <1>7, <1>8, <1>9, <1>10, <1>12, <1>13
         DEF RequestStep, IndexStep

\* The plan of a deletion leads to rewrites of what it keeps.
LEMMA RewritesFrame ==
  ASSUME TypeOK, Rewrites, NEW d \in Docs, NEW t, deleter' = [deleter EXCEPT ![d] = t], RewriteTask(t)
  PROVE Rewrites'
  BY DEF TypeOK, Rewrites

\* A step of a deletion rewrites only what its scan kept sources of.
LEMMA RewritesDelete ==
  ASSUME TypeOK, Rewrites, NEW d \in Docs, DeleteStep(d)
  PROVE Rewrites'
<1>0. RewriteTask(deleter[d]) /\ deleter[d] \in DeleteTasks
  BY TaskTypes DEF Rewrites
<1>1. CASE ReadChunks(d)
  <2> DEFINE chunks == {c \in Chunks : owner[c] = d}
  <2>1. RewriteTask([deleter[d] EXCEPT !.chunks = chunks, !.step = IF chunks = {} THEN "deleted" ELSE "chunks"])
    BY <1>0, <1>1 DEF ReadChunks, RewriteTask, DeleteTasks
  <2>. QED BY <1>1, <2>1, RewritesFrame DEF ReadChunks
<1>2. CASE ScanEntityVectors(d)
  <2>1. RewriteTask([PlanVectors(d, Entities) EXCEPT !.step = "entities"])
    BY <1>0, <1>2 DEF ScanEntityVectors, PlanVectors, RewriteTask, DeleteTasks
  <2>. QED BY <1>2, <2>1, RewritesFrame DEF ScanEntityVectors
<1>3. CASE ScanRelationVectors(d)
  <2>1. RewriteTask([PlanVectors(d, Relations) EXCEPT !.step = "relations"])
    BY <1>0, <1>3 DEF ScanRelationVectors, PlanVectors, RewriteTask, DeleteTasks
  <2>. QED BY <1>3, <2>1, RewritesFrame DEF ScanRelationVectors
<1>4. CASE GetAllLabels(d)
  <2>1. RewriteTask([deleter[d] EXCEPT !.step = "labels", !.left = Present(graph) \cap Entities])
    BY <1>0, <1>4 DEF GetAllLabels, RewriteTask, DeleteTasks
  <2>. QED BY <1>4, <2>1, RewritesFrame DEF GetAllLabels
<1>5. ASSUME NEW e \in Entities, ScanNode(d, e) PROVE Rewrites'
  <2>1. RewriteTask([PlanGraph(d, {e}) EXCEPT !.step = "node", !.item = e])
    BY <1>0 DEF PlanGraph, RewriteTask, DeleteTasks
  <2>. QED BY <1>5, <2>1, RewritesFrame DEF ScanNode
<1>6. ASSUME NEW e \in Entities, DeleteEntityVector(d, e) PROVE Rewrites'
  <2>1. RewriteTask([deleter[d] EXCEPT !.vgone = @ \ {e}])
    BY <1>0 DEF RewriteTask, DeleteTasks
  <2>. QED BY <1>6, <2>1, RewritesFrame DEF DeleteEntityVector
<1>7. CASE ScanEdges(d)
  <2>1. RewriteTask([PlanGraph(d, EdgesAt({deleter[d].item})) EXCEPT !.step = "labels", !.item = NoItem,
           !.left = deleter[d].left \ {deleter[d].item}])
    BY <1>0 DEF PlanGraph, RewriteTask, DeleteTasks
  <2>. QED BY <1>7, <2>1, RewritesFrame DEF ScanEdges
<1>8. CASE UpdateEntityVectors(d)
  <2>1. RewriteTask([deleter[d] EXCEPT !.step = "entity_vectors"])
    BY <1>0, <1>8 DEF UpdateEntityVectors, RewriteTask, DeleteTasks
  <2>. QED BY <1>8, <2>1, RewritesFrame DEF UpdateEntityVectors
<1>9. CASE DeleteRelationVectors(d)
  <2>1. RewriteTask([deleter[d] EXCEPT !.step = "relation_vectors"])
    BY <1>0, <1>9 DEF DeleteRelationVectors, RewriteTask, DeleteTasks
  <2>. QED BY <1>9, <2>1, RewritesFrame DEF DeleteRelationVectors
<1>10. CASE UpdateRelationVectors(d)
  <2>1. RewriteTask([deleter[d] EXCEPT !.step = "vectors"])
    BY <1>0, <1>10 DEF UpdateRelationVectors, RewriteTask, DeleteTasks
  <2>. QED BY <1>10, <2>1, RewritesFrame DEF UpdateRelationVectors
<1>11. CASE RemoveNodes(d)
  <2>1. RewriteTask([deleter[d] EXCEPT !.step = "nodes", !.left = Present(deleter[d].kept) \cap Entities])
    BY <1>0, <1>11 DEF RemoveNodes, RewriteTask, DeleteTasks
  <2>. QED BY <1>11, <2>1, RewritesFrame DEF RemoveNodes
<1>12. CASE RemoveEdges(d)
  <2>1. RewriteTask([deleter[d] EXCEPT !.step = "edges", !.left = Present(deleter[d].kept) \cap Relations])
    BY <1>0, <1>12 DEF RemoveEdges, RewriteTask, DeleteTasks
  <2>. QED BY <1>12, <2>1, RewritesFrame DEF RemoveEdges
<1>13. ASSUME NEW i \in Items, FindKept(d, i) PROVE Rewrites'
  <2> DEFINE item == IF graph[i] = {} THEN NoItem ELSE i
  <2>1. RewriteTask([deleter[d] EXCEPT !.left = deleter[d].left \ {i}, !.item = item])
    BY <1>0, <1>13 DEF FindKept, RewriteTask, DeleteTasks
  <2>. QED BY <1>13, <2>1, RewritesFrame DEF FindKept
<1>14. CASE RewriteKept(d)
  <2>1. RewriteTask([deleter[d] EXCEPT !.item = NoItem])
    BY <1>0, <1>14 DEF RewriteKept, RewriteTask, DeleteTasks
  <2>. QED BY <1>14, <2>1, RewritesFrame DEF RewriteKept
<1>15. CASE DeleteChunks(d)
  <2>1. RewriteTask([Forgotten(deleter[d]) EXCEPT !.step = "deleted"])
    BY <1>0 DEF Forgotten, RewriteTask, DeleteTasks
  <2>. QED BY <1>15, <2>1, RewritesFrame DEF DeleteChunks
<1>16. CASE DeleteFails(d)
  <2>1. RewriteTask(AfterFailure(Forgotten(deleter[d])))
    BY <1>0 DEF AfterFailure, Forgotten, RewriteTask, DeleteTasks
  <2>. QED BY <1>16, <2>1, RewritesFrame DEF DeleteFails
<1>. QED BY <1>1, <1>2, <1>3, <1>4, <1>5, <1>6, <1>7, <1>8, <1>9, <1>10, <1>11, <1>12, <1>13, <1>14,
            <1>15, <1>16 DEF DeleteStep

\* Index tasks leave the deletions alone, and deletions the locks and the index tasks.
LEMMA Apart ==
  ASSUME NEW d \in Docs
  PROVE /\ IndexStep(d) => deleter' = deleter
        /\ DeleteStep(d) => indexer' = indexer /\ lock' = lock
  BY DEF IndexStep, StartIndex, InsertChunks, ExtractEntities, MergeRead, CheckEnd, InsertEnd, UpsertItem,
    UpsertVector, IndexFails, DeleteStep, ReadChunks, ScanEntityVectors, ScanRelationVectors, GetAllLabels,
    ScanNode, DeleteEntityVector, ScanEdges, UpdateEntityVectors, DeleteRelationVectors,
    UpdateRelationVectors, RemoveNodes, RemoveEdges, FindKept, RewriteKept, DeleteChunks, DeleteFails

\* A request writes nothing but its task.
LEMMA Requests ==
  ASSUME TypeOK, Rewrites, NEW d \in Docs, RequestStep(d)
  PROVE store' = store /\ lock' = lock /\ mishaps' = mishaps /\ Rewrites'
<1>1. store' = store /\ lock' = lock /\ mishaps' = mishaps
  <2>1. CASE RequestIndex(d)
    BY <2>1 DEF RequestIndex
  <2>2. CASE RequestUpdate(d)
    BY <2>2 DEF RequestUpdate
  <2>3. CASE RequestDelete(d)
    BY <2>3 DEF RequestDelete
  <2>. QED BY <2>1, <2>2, <2>3 DEF RequestStep
<1>2. CASE deleter' = deleter
  BY <1>1, <1>2 DEF Rewrites
<1>3. CASE RequestDelete(d)
  <2>1. RewriteTask([deleter[d] EXCEPT !.step = "queued"])
    BY <1>3, TaskTypes DEF RequestDelete, Deleted, Rewrites, RewriteTask, DeleteTasks
  <2>. QED BY <1>3, <2>1, RewritesFrame DEF RequestDelete
<1>. QED BY <1>1, <1>2, <1>3 DEF RequestStep, RequestIndex, RequestUpdate

\* The part of the invariant that the other parts rest on.
Base == TypeOK /\ Held /\ Rewrites

\* It holds before anything is requested.
LEMMA BaseInit == ASSUME Init PROVE Base
<1>1. Nothing \in [Items -> SUBSET Chunks] /\ {} \subseteq Present(Nothing) /\ 0 \in 0..MaxUpdates
      /\ 0 \in 0..MaxRetries /\ 1 \in 1..3
  BY BoundsAreNatural DEF Nothing, Present
<1>2. PICK text \in [Docs -> Texts] :
        indexer = [d \in Docs |->
                    [step |-> "idle", text |-> text[d], updates |-> 0, retries |-> 0,
                     found |-> Nothing, left |-> {}, item |-> NoItem, end |-> 1, seen |-> {}]]
  BY DEF Init
<1>3. indexer \in [Docs -> IndexTasks]
  BY <1>1, <1>2, StepNames DEF IndexTasks
<1>4. deleter \in [Docs -> DeleteTasks]
  <2>1. "idle" \in DeleteSteps /\ NoItem \in Items \cup {NoItem}
    BY DEF DeleteSteps
  <2>2. [step |-> "idle", retries |-> 0, chunks |-> {}, left |-> {}, item |-> NoItem,
         gone |-> {}, kept |-> Nothing, vgone |-> {}, vkept |-> Nothing] \in DeleteTasks
    BY <1>1, <2>1 DEF DeleteTasks
  <2>. QED BY <2>2 DEF Init
<1>5. TypeOK
  BY <1>1, <1>3, <1>4 DEF Init, TypeOK
<1>6. Held
  BY <1>1, <1>2 DEF Held, HeldTask, Merging
<1>7. Rewrites
  BY DEF Init, Rewrites, RewriteTask
<1>. QED BY <1>5, <1>6, <1>7 DEF Base

\* It is inductive.
LEMMA BaseNext == ASSUME Base, [Next]_vars PROVE Base'
<1> USE DEF Base
<1>1. ASSUME NEW d \in Docs, RequestStep(d) PROVE Base'
  BY <1>1, TypeIndex, HeldIndex, Requests
<1>2. ASSUME NEW d \in Docs, IndexStep(d) PROVE Base'
  <2>1. Rewrites'
    BY <1>2, Apart DEF Rewrites
  <2>. QED BY <1>2, <2>1, TypeIndex, HeldIndex
<1>3. ASSUME NEW d \in Docs, DeleteStep(d) PROVE Base'
  <2>1. Held'
    BY <1>3, Apart DEF Held
  <2>. QED BY <1>3, <2>1, TypeDelete, RewritesDelete
<1>4. CASE UNCHANGED vars
  BY <1>4 DEF vars, TypeOK, Held, Rewrites
<1>. QED BY <1>1, <1>2, <1>3, <1>4 DEF Next

\* Whatever is indexed, updated, retried and deleted at once, every variable
\* keeps its type.
THEOREM TypeCorrect == Spec => []TypeOK
<1>1. Base => TypeOK
  BY DEF Base
<1>. QED BY BaseInit, BaseNext, <1>1, PTL DEF Spec

-----------------------------------------------------------------------------
(* Edges and their nodes.                                                    *)

\* A deletion that is not raced revives nothing, and takes a node away with
\* its edges, none of which is being merged.
LEMMA DeletionEnds ==
  ASSUME Base, NEW d \in Docs, DeleteStep(d), "raced_deletion" \notin mishaps'
  PROVE /\ \A i \in Items : graph[i] = {} => graph'[i] = {}
        /\ \A e \in Entities : graph[e] # {} /\ graph'[e] = {} =>
             \A r \in Relations : e \in EndsOf(r) => graph'[r] = {} /\ lock[r] = NoDoc
<1> USE DEF Base
<1>0. Entities \subseteq Items /\ Relations \subseteq Items /\ Entities \cap Relations = {}
  BY RelationsHaveEnds DEF Items
<1>1. CASE RemoveNodes(d)
  <2> DEFINE nodes == deleter[d].gone \cap Entities
  <2>1. /\ \A i \in Items : graph'[i] = IF i \in nodes \cup EdgesAt(nodes) THEN {} ELSE graph[i]
        /\ \A e \in nodes : ~ GraphRaced(d, e, {})
    BY <1>1 DEF RemoveNodes, WithEdges
  <2>2. ASSUME NEW e \in Entities, graph[e] # {}, graph'[e] = {}, NEW r \in Relations, e \in EndsOf(r)
        PROVE graph'[r] = {} /\ lock[r] = NoDoc
    <3>1. e \in nodes
      BY <1>0, <2>1, <2>2 DEF EdgesAt
    <3>2. r \in EdgesAt(nodes) /\ r \in EdgesAt({e})
      BY <2>2, <3>1 DEF EdgesAt
    <3>3. graph'[r] = {}
      BY <1>0, <2>1, <3>2
    <3>4. lock[r] = NoDoc
      BY <2>1, <3>1, <3>2 DEF GraphRaced
    <3>. QED BY <3>3, <3>4
  <2>3. \A i \in Items : graph[i] = {} => graph'[i] = {}
    BY <2>1
  <2>. QED BY <2>2, <2>3
<1>2. CASE RemoveEdges(d)
  <2>1. \A i \in Items : graph'[i] = IF i \in deleter[d].gone \cap Relations THEN {} ELSE graph[i]
    BY <1>2 DEF RemoveEdges
  <2>. QED BY <1>0, <2>1
<1>3. CASE RewriteKept(d)
  <2> DEFINE item == deleter[d].item
  <2>1. item \in Items /\ deleter[d].kept[item] # {}
    BY <1>3 DEF RewriteKept, Rewrites, RewriteTask, Present
  <2>2. graph' = [graph EXCEPT ![item] = deleter[d].kept[item]]
    BY <1>3 DEF RewriteKept
  <2>3. Remaining(d, graph)[item] = deleter[d].kept[item]
    BY <1>3 DEF RewriteKept, Note, GraphRaced
  <2>4. graph[item] # {}
    BY <2>1, <2>3 DEF Remaining
  <2>5. \A i \in Items : graph'[i] = IF i = item THEN deleter[d].kept[item] ELSE graph[i]
    BY <2>1, <2>2 DEF TypeOK
  <2>. HIDE DEF item
  <2>. QED BY <1>0, <2>1, <2>4, <2>5
<1>4. CASE graph' = graph
  BY <1>4
<1>. QED BY <1>1, <1>2, <1>3, <1>4 DEF DeleteStep, ReadChunks, ScanEntityVectors, ScanRelationVectors,
    GetAllLabels, ScanNode, DeleteEntityVector, ScanEdges, UpdateEntityVectors, DeleteRelationVectors,
    UpdateRelationVectors, FindKept, DeleteChunks, DeleteFails, store

\* Indexing takes nothing away, and writes an edge when its ends are checked.
LEMMA IndexingEnds ==
  ASSUME Base, NEW d \in Docs, IndexStep(d)
  PROVE /\ \A i \in Items : graph[i] # {} => graph'[i] # {}
        /\ \A r \in Relations : graph[r] = {} /\ graph'[r] # {} =>
             indexer[d].step = "read" /\ indexer[d].item = r /\ indexer[d].end = 3
<1> USE DEF Base
<1>0. /\ Entities \subseteq Items /\ Relations \subseteq Items /\ Entities \cap Relations = {}
      /\ HeldTask(d, indexer[d], lock)
  BY RelationsHaveEnds DEF Items, Held
<1>1. indexer[d].step \in Merging => indexer[d].item \in Items /\ Merged(indexer[d]) # {}
  BY <1>0 DEF HeldTask, Present, Merged
<1>2. CASE InsertEnd(d)
  <2> DEFINE e == Ends[indexer[d].item][indexer[d].end]
  <2>1. e \in Entities
    BY <1>0, <1>2, EndsAreEntities DEF InsertEnd, HeldTask
  <2>2. graph' = [graph EXCEPT ![e] = Merged(indexer[d])] /\ Merged(indexer[d]) # {}
    BY <1>1, <1>2 DEF InsertEnd, Merging
  <2>3. \A i \in Items : graph'[i] = IF i = e THEN Merged(indexer[d]) ELSE graph[i]
    BY <2>2 DEF TypeOK
  <2>. HIDE DEF e
  <2>. QED BY <1>0, <2>1, <2>2, <2>3
<1>3. CASE UpsertItem(d)
  <2>1. graph' = [graph EXCEPT ![indexer[d].item] = Merged(indexer[d])] /\ Merged(indexer[d]) # {}
        /\ indexer[d].step = "read" /\ indexer[d].end = 3
    BY <1>1, <1>3 DEF UpsertItem, Merging
  <2>2. \A i \in Items : graph'[i] = IF i = indexer[d].item THEN Merged(indexer[d]) ELSE graph[i]
    BY <2>1 DEF TypeOK
  <2>. QED BY <1>0, <2>1, <2>2
<1>4. CASE graph' = graph
  BY <1>4
<1>. QED BY <1>2, <1>3, <1>4 DEF IndexStep, StartIndex, InsertChunks, ExtractEntities, MergeRead, CheckEnd,
    UpsertVector, IndexFails, store

\* A merge has its ends when it goes on to the next one.
LEMMA LinkedIndex ==
  ASSUME Base, NEW d \in Docs, IndexStep(d), LinkedTask(indexer[d], graph)
  PROVE LinkedTask(indexer'[d], graph')
<1> USE DEF Base
<1>0. /\ indexer[d] \in IndexTasks /\ HeldTask(d, indexer[d], lock) /\ Relations \subseteq Items
      /\ Entities \subseteq Items
  BY TaskTypes DEF Held, Items
<1>1. CASE indexer'[d].step \notin {"read", "missing"}
  BY <1>1 DEF LinkedTask
<1>2. ASSUME NEW i \in Items, MergeRead(d, i) PROVE LinkedTask(indexer'[d], graph')
  <2>1. indexer'[d].item = i /\ indexer'[d].end = IF i \in Relations THEN 1 ELSE 3
    BY <1>0, <1>2 DEF MergeRead, TypeOK, IndexTasks
  <2>. QED BY <2>1 DEF LinkedTask
<1>3. CASE CheckEnd(d)
  <2> DEFINE e == Ends[indexer[d].item][indexer[d].end]
  <2>0. graph' = graph /\ indexer[d].step = "read" /\ indexer[d].end \in 1..2
        /\ indexer[d].item \in Relations
    BY <1>0, <1>3 DEF CheckEnd, store, HeldTask
  <2>1. CASE graph[e] = {}
    <3>1. indexer'[d].item = indexer[d].item /\ indexer'[d].end = indexer[d].end
      BY <1>0, <1>3, <2>1 DEF CheckEnd, TypeOK, IndexTasks
    <3>. QED BY <2>0, <3>1 DEF LinkedTask
  <2>2. CASE graph[e] # {}
    <3>1. indexer'[d].item = indexer[d].item /\ indexer'[d].end = indexer[d].end + 1
      BY <1>0, <1>3, <2>2 DEF CheckEnd, TypeOK, IndexTasks
    <3>2. ASSUME NEW k \in 1..2, k < indexer[d].end + 1 PROVE graph[Ends[indexer[d].item][k]] # {}
      <4>1. CASE k = indexer[d].end
        BY <2>2, <4>1
      <4>2. CASE k < indexer[d].end
        BY <2>0, <4>2 DEF LinkedTask
      <4>. QED BY <2>0, <3>2, <4>1, <4>2
    <3>. QED BY <2>0, <3>1, <3>2 DEF LinkedTask
  <2>. QED BY <2>1, <2>2
<1>4. CASE InsertEnd(d)
  <2> DEFINE e == Ends[indexer[d].item][indexer[d].end]
  <2>0. indexer[d].step = "missing" /\ indexer[d].end \in 1..2 /\ indexer[d].item \in Relations
    BY <1>0, <1>4 DEF InsertEnd, HeldTask
  <2>1. indexer'[d].item = indexer[d].item /\ indexer'[d].end = indexer[d].end + 1
    BY <1>0, <1>4 DEF InsertEnd, TypeOK, IndexTasks
  <2>2. e \in Items /\ Merged(indexer[d]) # {}
    BY <1>0, <2>0, EndsAreEntities DEF HeldTask, Merging, Present, Merged
  <2>3. graph'[e] # {}
    BY <1>4, <2>2 DEF InsertEnd, TypeOK
  <2>4. ASSUME NEW k \in 1..2, k < indexer[d].end + 1 PROVE graph'[Ends[indexer[d].item][k]] # {}
    <3>1. CASE k = indexer[d].end
      BY <2>3, <3>1
    <3>2. CASE k < indexer[d].end
      BY <1>0, <2>0, <3>2, EndsAreEntities, IndexingEnds DEF LinkedTask
    <3>. QED BY <2>0, <2>4, <3>1, <3>2
  <2>. QED BY <2>1, <2>4 DEF LinkedTask
<1>5. CASE UpsertItem(d)
  BY <1>0, <1>1, <1>5 DEF UpsertItem, TypeOK, IndexTasks
<1>6. CASE StartIndex(d)
  BY <1>0, <1>1, <1>6 DEF StartIndex, TypeOK, IndexTasks
<1>7. CASE InsertChunks(d)
  BY <1>0, <1>1, <1>7 DEF InsertChunks, TypeOK, IndexTasks
<1>8. CASE ExtractEntities(d)
  <2>1. indexer'[d].step \in {"indexed", "merging"}
    BY <1>0, <1>8 DEF ExtractEntities, TypeOK, IndexTasks
  <2>. QED BY <1>1, <2>1
<1>9. CASE UpsertVector(d)
  <2>1. indexer'[d].step \in {"indexed", "merging"}
    BY <1>0, <1>9 DEF UpsertVector, TypeOK, IndexTasks
  <2>. QED BY <1>1, <2>1
<1>10. CASE IndexFails(d)
  <2>1. indexer'[d].step \in {"queued", "failed"}
    BY <1>0, <1>10 DEF IndexFails, AfterFailure, TypeOK, IndexTasks
  <2>. QED BY <1>1, <2>1
<1>. QED BY <1>2, <1>3, <1>4, <1>5, <1>6, <1>7, <1>8, <1>9, <1>10 DEF IndexStep

\* An index task changes its own record only.
LEMMA OwnTask ==
  ASSUME TypeOK, NEW d \in Docs, IndexStep(d) \/ RequestStep(d), NEW other \in Docs, other # d
  PROVE indexer'[other] = indexer[other]
  BY DEF IndexStep, StartIndex, InsertChunks, ExtractEntities, MergeRead, CheckEnd, InsertEnd, UpsertItem,
    UpsertVector, IndexFails, RequestStep, RequestIndex, RequestUpdate, RequestDelete, TypeOK

\* Edges and their nodes, when a task of a document takes a step.
LEMMA EndsIndex ==
  ASSUME Base, Linked, EdgesHaveEnds, NEW d \in Docs, IndexStep(d), mishaps \subseteq mishaps'
  PROVE Linked' /\ EdgesHaveEnds'
<1> USE DEF Base
<1> SUFFICES ASSUME "raced_deletion" \notin mishaps'
             PROVE /\ \A other \in Docs : LinkedTask(indexer'[other], graph')
                   /\ \A r \in Relations : graph'[r] # {} => \A e \in EndsOf(r) : graph'[e] # {}
  BY DEF Linked, EdgesHaveEnds
<1>0. /\ \A other \in Docs : LinkedTask(indexer[other], graph)
      /\ \A r \in Relations : graph[r] # {} => \A e \in EndsOf(r) : graph[e] # {}
      /\ Entities \subseteq Items
  BY DEF Linked, EdgesHaveEnds, Items
<1>1. ASSUME NEW other \in Docs PROVE LinkedTask(indexer'[other], graph')
  <2>1. CASE other = d
    BY <1>0, <2>1, LinkedIndex
  <2>2. CASE other # d
    <3>1. indexer'[other] = indexer[other]
      BY <2>2, OwnTask
    <3>. QED BY <1>0, <3>1, IndexingEnds, EndsAreEntities DEF LinkedTask
  <2>. QED BY <2>1, <2>2
<1>2. ASSUME NEW r \in Relations, graph'[r] # {}, NEW e \in EndsOf(r) PROVE graph'[e] # {}
  <2>1. graph[e] # {}
    <3>1. CASE graph[r] # {}
      BY <1>0, <3>1
    <3>2. CASE graph[r] = {}
      <4>1. indexer[d].step = "read" /\ indexer[d].item = r /\ indexer[d].end = 3
        BY <1>2, <3>2, IndexingEnds
      <4>2. \A k \in 1..2 : graph[Ends[r][k]] # {}
        BY <1>0, <4>1 DEF LinkedTask
      <4>. QED BY <4>2, EndsAreEntities
    <3>. QED BY <3>1, <3>2
  <2>. QED BY <1>0, <2>1, IndexingEnds, EndsAreEntities
<1>. QED BY <1>1, <1>2

\* Edges and their nodes, when a deletion takes a step.
LEMMA EndsDelete ==
  ASSUME Base, Linked, EdgesHaveEnds, NEW d \in Docs, DeleteStep(d), mishaps \subseteq mishaps'
  PROVE Linked' /\ EdgesHaveEnds'
<1> USE DEF Base
<1> SUFFICES ASSUME "raced_deletion" \notin mishaps'
             PROVE /\ \A other \in Docs : LinkedTask(indexer'[other], graph')
                   /\ \A r \in Relations : graph'[r] # {} => \A e \in EndsOf(r) : graph'[e] # {}
  BY DEF Linked, EdgesHaveEnds
<1>0. /\ \A other \in Docs : LinkedTask(indexer[other], graph)
      /\ \A r \in Relations : graph[r] # {} => \A e \in EndsOf(r) : graph[e] # {}
      /\ Relations \subseteq Items /\ indexer' = indexer /\ NoDoc \notin Docs
  BY Apart, RelationsHaveEnds DEF Linked, EdgesHaveEnds, Items
<1>1. ASSUME NEW other \in Docs PROVE LinkedTask(indexer'[other], graph')
  <2> SUFFICES ASSUME indexer[other].step \in {"read", "missing"}, indexer[other].item \in Relations,
                      NEW k \in 1..2, k < indexer[other].end
               PROVE graph'[Ends[indexer[other].item][k]] # {}
    BY <1>0 DEF LinkedTask
  <2> DEFINE r == indexer[other].item
  <2>1. lock[r] = other
    BY DEF Held, HeldTask, Merging
  <2>2. graph[Ends[r][k]] # {}
    BY <1>0 DEF LinkedTask
  <2>. QED BY <1>0, <2>1, <2>2, DeletionEnds, EndsAreEntities
<1>2. ASSUME NEW r \in Relations, graph'[r] # {}, NEW e \in EndsOf(r) PROVE graph'[e] # {}
  BY <1>0, <1>2, DeletionEnds, EndsAreEntities
<1>. QED BY <1>1, <1>2

\* Nothing but a deletion that runs into a merge takes a checked end away.
LEMMA EndsInvariant == Spec => [](Base /\ Linked /\ EdgesHaveEnds)
<1> DEFINE IInv == Base /\ Linked /\ EdgesHaveEnds
<1>1. Init => IInv
  <2>1. ASSUME Init PROVE Linked /\ EdgesHaveEnds
    <3>1. \A r \in Relations : graph[r] = {}
      BY <2>1 DEF Init, Nothing, Items
    <3>2. \A d \in Docs : indexer[d].step = "idle"
      BY <2>1 DEF Init
    <3>. QED BY <3>1, <3>2 DEF Linked, LinkedTask, EdgesHaveEnds
  <2>. QED BY <2>1, BaseInit
<1>2. IInv /\ [Next]_vars => IInv'
  <2> SUFFICES ASSUME IInv, [Next]_vars PROVE IInv'
    OBVIOUS
  <2>0. Base' /\ mishaps \subseteq mishaps'
    BY BaseNext, MishapsStay
  <2>1. ASSUME NEW d \in Docs, RequestStep(d) PROVE Linked' /\ EdgesHaveEnds'
    <3>1. graph' = graph /\ mishaps' = mishaps
      BY <2>1, Requests DEF Base, store
    <3>2. indexer'[d].step = "queued" \/ indexer' = indexer
      <4>1. CASE RequestIndex(d)
        BY <4>1, TaskTypes DEF RequestIndex, Base, TypeOK, IndexTasks
      <4>2. CASE RequestUpdate(d)
        BY <4>2, TaskTypes DEF RequestUpdate, Base, TypeOK, IndexTasks
      <4>3. CASE RequestDelete(d)
        BY <4>3 DEF RequestDelete
      <4>. QED BY <2>1, <4>1, <4>2, <4>3 DEF RequestStep
    <3>3. ASSUME NEW other \in Docs, LinkedTask(indexer[other], graph) PROVE LinkedTask(indexer'[other], graph)
      BY <2>1, <3>2, <3>3, OwnTask DEF LinkedTask, Base
    <3>. QED BY <3>1, <3>3 DEF Linked, EdgesHaveEnds
  <2>2. CASE UNCHANGED vars
    <3>1. graph' = graph /\ indexer' = indexer /\ mishaps' = mishaps
      BY <2>2 DEF vars
    <3>. QED BY <2>0, <3>1 DEF Linked, LinkedTask, EdgesHaveEnds
  <2>3. ASSUME NEW d \in Docs, IndexStep(d) PROVE Linked' /\ EdgesHaveEnds'
    BY <2>0, <2>3, EndsIndex
  <2>4. ASSUME NEW d \in Docs, DeleteStep(d) PROVE Linked' /\ EdgesHaveEnds'
    BY <2>0, <2>4, EndsDelete
  <2>. QED BY <2>0, <2>1, <2>2, <2>3, <2>4 DEF Next
<1>. QED BY <1>1, <1>2, PTL DEF Spec

\* An edge has both its nodes, although the merge reads, inserts and writes
\* them in different statements (_merge_edges_then_upsert) and a deletion
\* works from a scan (adelete_by_doc_id), until a deletion runs into a merge.
THEOREM EndsThere == Spec => []EdgesHaveEnds
BY EndsInvariant, PTL

-----------------------------------------------------------------------------
(* What indexing found, as long as there is no mishap.                       *)

\* The chunks of a document are its own: those that it was indexed from while
\* it is not deleted, and those that its deletion removes.
OwnedDoc(d) ==
  /\ \A c \in deleter[d].chunks : owner[c] = d
  /\ ~ Deleted(d) =>
       /\ \A i \in Items : \A c \in indexer[d].found[i] : owner[c] = d
       /\ indexer[d].step = "chunked" => \A c \in ChunksOf[indexer[d].text] : owner[c] = d

\* What a merge has read or written is what is there.
CurrentTask(ix, nodes) ==
  /\ ix.step \in {"read", "missing"} => nodes[ix.item] = ix.seen
  /\ ix.step = "written" => nodes[ix.item] = Merged(ix)

\* What is not left to merge has been merged.
FoundTask(ix, nodes, vecs) ==
  ix.step \in Merging \cup {"merging", "indexed"} =>
    \A i \in Items \ ix.left : ix.found[i] \subseteq nodes[i] /\ ix.found[i] \subseteq vecs[i]

Clean ==
  mishaps = {} =>
    /\ \A d \in Docs : OwnedDoc(d)
    /\ \A d \in Docs : CurrentTask(indexer[d], graph)
    /\ \A d \in Docs : ~ Deleted(d) => FoundTask(indexer[d], graph, vectors)

\* A deletion takes away its chunks and nothing else, brings nothing back, and
\* keeps off what is being merged.
LEMMA DeletionTakes ==
  ASSUME Base, NEW d \in Docs, DeleteStep(d), mishaps' = {}
  PROVE \A i \in Items :
          /\ graph[i] \ deleter[d].chunks \subseteq graph'[i] /\ graph'[i] \subseteq graph[i]
          /\ vectors[i] \ deleter[d].chunks \subseteq vectors'[i] /\ vectors'[i] \subseteq vectors[i]
          /\ lock[i] # NoDoc => graph'[i] = graph[i]
<1> USE DEF Base
<1>0. Entities \subseteq Items /\ Relations \subseteq Items
  BY DEF Items
<1>1. ASSUME NEW items, WriteVectors(d, items), NEW i \in Items
      PROVE vectors[i] \ deleter[d].chunks \subseteq vectors'[i] /\ vectors'[i] \subseteq vectors[i]
  <2>1. i \in items => Remaining(d, vectors)[i] = deleter[d].vkept[i]
    BY <1>1 DEF WriteVectors, Note, VectorRaced
  <2>2. vectors'[i] = IF i \in items THEN deleter[d].vkept[i] ELSE vectors[i]
    BY <1>1 DEF WriteVectors
  <2>. QED BY <2>1, <2>2 DEF Remaining
<1>2. ASSUME NEW e \in Entities, DeleteEntityVector(d, e), NEW i \in Items
      PROVE vectors[i] \ deleter[d].chunks \subseteq vectors'[i] /\ vectors'[i] \subseteq vectors[i]
  <2>1. CASE vectors' = vectors
    BY <2>1
  <2>2. CASE vectors' = [vectors EXCEPT ![e] = {}] /\ Note("raced_deletion", VectorRaced(d, e, {}))
    <3>1. Remaining(d, vectors)[e] = {}
      BY <2>2 DEF Note, VectorRaced
    <3>2. vectors[e] \subseteq deleter[d].chunks
      BY <1>0, <3>1 DEF Remaining
    <3>3. vectors'[i] = IF i = e THEN {} ELSE vectors[i]
      BY <2>2 DEF TypeOK
    <3>. QED BY <3>2, <3>3
  <2>. QED BY <1>2, <2>1, <2>2 DEF DeleteEntityVector
<1>3. CASE RemoveNodes(d)
  <2> DEFINE nodes == deleter[d].gone \cap Entities
  <2>1. /\ \A i \in Items : graph'[i] = IF i \in nodes \cup EdgesAt(nodes) THEN {} ELSE graph[i]
        /\ \A e \in nodes : ~ GraphRaced(d, e, {})
        /\ \A r \in EdgesAt(nodes) : Remaining(d, graph)[r] = {}
        /\ vectors' = vectors
    BY <1>3 DEF RemoveNodes, WithEdges
  <2>2. ASSUME NEW i \in Items, i \in nodes \cup EdgesAt(nodes)
        PROVE graph[i] \subseteq deleter[d].chunks /\ lock[i] = NoDoc
    <3>1. Remaining(d, graph)[i] = {}
      BY <2>1, <2>2 DEF GraphRaced
    <3>2. \E e \in nodes : i \in {e} \cup EdgesAt({e})
      BY <2>2 DEF EdgesAt
    <3>. QED BY <2>1, <3>1, <3>2 DEF GraphRaced, Remaining
  <2>. HIDE DEF nodes
  <2>. QED BY <2>1, <2>2
<1>4. CASE RemoveEdges(d)
  <2>1. /\ \A i \in Items : graph'[i] = IF i \in deleter[d].gone \cap Relations THEN {} ELSE graph[i]
        /\ \A r \in deleter[d].gone \cap Relations : ~ GraphRaced(d, r, {})
        /\ vectors' = vectors
    BY <1>4 DEF RemoveEdges, Note
  <2>2. ASSUME NEW i \in Items, i \in deleter[d].gone \cap Relations
        PROVE graph[i] \subseteq deleter[d].chunks /\ lock[i] = NoDoc
    BY <2>1, <2>2 DEF GraphRaced, Remaining
  <2>. QED BY <2>1, <2>2
<1>5. CASE RewriteKept(d)
  <2> DEFINE item == deleter[d].item
  <2>1. item \in Items /\ graph' = [graph EXCEPT ![item] = deleter[d].kept[item]] /\ vectors' = vectors
        /\ ~ GraphRaced(d, item, deleter[d].kept[item])
    BY <1>5, TaskTypes DEF RewriteKept, Note, DeleteTasks
  <2>2. deleter[d].kept[item] = graph[item] \ deleter[d].chunks /\ lock[item] = NoDoc
    BY <2>1 DEF GraphRaced, Remaining
  <2>3. \A i \in Items : graph'[i] = IF i = item THEN deleter[d].kept[item] ELSE graph[i]
    BY <2>1 DEF TypeOK
  <2>. HIDE DEF item
  <2>. QED BY <2>1, <2>2, <2>3
<1>6. CASE store' = store \/ DeleteChunks(d)
  BY <1>6 DEF store, DeleteChunks
<1>7. CASE \E e \in Entities : DeleteEntityVector(d, e)
  BY <1>2, <1>7 DEF DeleteEntityVector
<1>8. CASE UpdateEntityVectors(d) \/ DeleteRelationVectors(d) \/ UpdateRelationVectors(d)
  BY <1>1, <1>8 DEF UpdateEntityVectors, DeleteRelationVectors, UpdateRelationVectors
<1>9. CASE ReadChunks(d) \/ ScanEntityVectors(d) \/ ScanRelationVectors(d) \/ GetAllLabels(d)
           \/ ScanEdges(d) \/ DeleteFails(d)
  BY <1>6, <1>9 DEF ReadChunks, ScanEntityVectors, ScanRelationVectors, GetAllLabels, ScanEdges, DeleteFails
<1>10. CASE (\E e \in Entities : ScanNode(d, e)) \/ (\E i \in Items : FindKept(d, i))
  BY <1>6, <1>10 DEF ScanNode, FindKept
<1>. QED BY <1>3, <1>4, <1>5, <1>6, <1>7, <1>8, <1>9, <1>10 DEF DeleteStep

\* A deletion keeps chunks of its own document or none, reads them once, and
\* does not start again.
LEMMA DeletionKeeps ==
  ASSUME Base, \A x \in Docs : OwnedDoc(x), NEW d \in Docs, DeleteStep(d)
  PROVE \E t \in DeleteTasks :
          /\ deleter' = [deleter EXCEPT ![d] = t]
          /\ t.chunks \subseteq {c \in Chunks : owner[c] = d} \cap {c \in Chunks : owner'[c] = d}
          /\ t.step # "idle"
          /\ ReadChunks(d) \/ t.chunks \subseteq deleter[d].chunks
<1> USE DEF Base
<1>0. deleter[d] \in DeleteTasks /\ deleter[d].chunks \subseteq {c \in Chunks : owner[c] = d}
      /\ deleter'[d] \in DeleteTasks /\ deleter' = [deleter EXCEPT ![d] = deleter'[d]]
      /\ deleter \in [Docs -> DeleteTasks]
  <2>1. deleter' \in [Docs -> DeleteTasks]
    BY TypeDelete DEF TypeOK
  <2>2. \A x \in Docs : x # d => deleter'[x] = deleter[x]
    BY DEF DeleteStep, ReadChunks, ScanEntityVectors, ScanRelationVectors, GetAllLabels, ScanNode,
      DeleteEntityVector, ScanEdges, UpdateEntityVectors, DeleteRelationVectors, UpdateRelationVectors,
      RemoveNodes, RemoveEdges, FindKept, RewriteKept, DeleteChunks, DeleteFails, TypeOK
  <2>3. deleter[d] \in DeleteTasks /\ \A c \in deleter[d].chunks : owner[c] = d
    BY TaskTypes DEF OwnedDoc
  <2>. QED BY <2>1, <2>2, <2>3 DEF DeleteTasks, TypeOK
<1>1. CASE ReadChunks(d)
  <2>1. deleter'[d].chunks = {c \in Chunks : owner[c] = d} /\ deleter'[d].step # "idle" /\ owner' = owner
    BY <1>0, <1>1 DEF ReadChunks, store, DeleteTasks
  <2>. QED BY <1>0, <1>1, <2>1
<1>2. CASE deleter'[d].chunks = {} /\ deleter'[d].step # "idle"
  BY <1>0, <1>2
<1>3. CASE owner' = owner /\ deleter'[d].chunks = deleter[d].chunks /\ deleter'[d].step # "idle"
  BY <1>0, <1>3
<1>4. Forgotten(deleter[d]) \in DeleteTasks /\ Forgotten(deleter[d]).chunks = {}
  BY <1>0 DEF Forgotten, DeleteTasks, Nothing
<1>5. CASE DeleteChunks(d)
  <2>1. deleter'[d] = [Forgotten(deleter[d]) EXCEPT !.step = "deleted"]
    BY <1>0, <1>5 DEF DeleteChunks
  <2>2. deleter'[d].chunks = {} /\ deleter'[d].step # "idle"
    BY <1>4, <2>1 DEF DeleteTasks
  <2>. QED BY <1>2, <2>2
<1>6. CASE DeleteFails(d)
  <2>1. deleter'[d] = AfterFailure(Forgotten(deleter[d]))
    BY <1>0, <1>6 DEF DeleteFails
  <2>2. deleter'[d].chunks = {} /\ deleter'[d].step # "idle"
    BY <1>4, <2>1 DEF AfterFailure, DeleteTasks
  <2>. QED BY <1>2, <2>2
<1>7. CASE ScanEntityVectors(d)
  <2>1. deleter'[d] = [PlanVectors(d, Entities) EXCEPT !.step = "entities"] /\ owner' = owner
    BY <1>0, <1>7 DEF ScanEntityVectors, store
  <2>. QED BY <1>0, <1>3, <2>1 DEF PlanVectors, DeleteTasks
<1>8. CASE ScanRelationVectors(d)
  <2>1. deleter'[d] = [PlanVectors(d, Relations) EXCEPT !.step = "relations"] /\ owner' = owner
    BY <1>0, <1>8 DEF ScanRelationVectors, store
  <2>. QED BY <1>0, <1>3, <2>1 DEF PlanVectors, DeleteTasks
<1>9. CASE GetAllLabels(d)
  BY <1>0, <1>3, <1>9 DEF GetAllLabels, store, DeleteTasks
<1>10. CASE ScanEdges(d)
  <2>1. deleter'[d] = [PlanGraph(d, EdgesAt({deleter[d].item})) EXCEPT !.step = "labels", !.item = NoItem,
           !.left = deleter[d].left \ {deleter[d].item}] /\ owner' = owner
    BY <1>0, <1>10 DEF ScanEdges, store
  <2>. QED BY <1>0, <1>3, <2>1 DEF PlanGraph, DeleteTasks
<1>11. ASSUME NEW e \in Entities, ScanNode(d, e)
       PROVE owner' = owner /\ deleter'[d].chunks = deleter[d].chunks /\ deleter'[d].step # "idle"
  <2>1. deleter'[d] = [PlanGraph(d, {e}) EXCEPT !.step = "node", !.item = e] /\ owner' = owner
    BY <1>0, <1>11 DEF ScanNode, store
  <2>. QED BY <1>0, <2>1 DEF PlanGraph, DeleteTasks
<1>12. ASSUME NEW e \in Entities, DeleteEntityVector(d, e)
       PROVE owner' = owner /\ deleter'[d].chunks = deleter[d].chunks /\ deleter'[d].step # "idle"
  BY <1>0, <1>12 DEF DeleteEntityVector, DeleteTasks
<1>13. CASE UpdateEntityVectors(d)
  BY <1>0, <1>3, <1>13 DEF UpdateEntityVectors, DeleteTasks
<1>14. CASE DeleteRelationVectors(d)
  BY <1>0, <1>3, <1>14 DEF DeleteRelationVectors, DeleteTasks
<1>15. CASE UpdateRelationVectors(d)
  BY <1>0, <1>3, <1>15 DEF UpdateRelationVectors, DeleteTasks
<1>16. CASE RemoveNodes(d)
  BY <1>0, <1>3, <1>16 DEF RemoveNodes, DeleteTasks
<1>17. CASE RemoveEdges(d)
  BY <1>0, <1>3, <1>17 DEF RemoveEdges, DeleteTasks
<1>18. CASE RewriteKept(d)
  BY <1>0, <1>3, <1>18 DEF RewriteKept, DeleteTasks
<1>19. ASSUME NEW i \in Items, FindKept(d, i)
       PROVE owner' = owner /\ deleter'[d].chunks = deleter[d].chunks /\ deleter'[d].step # "idle"
  BY <1>0, <1>19 DEF FindKept, store, DeleteTasks
<1>. QED BY <1>1, <1>3, <1>5, <1>6, <1>7, <1>8, <1>9, <1>10, <1>11, <1>12, <1>13, <1>14, <1>15, <1>16,
            <1>17, <1>18, <1>19 DEF DeleteStep

\* A deletion removes rows of its own document only.
LEMMA OwnedDelete ==
  ASSUME Base, \A x \in Docs : OwnedDoc(x), NEW d \in Docs, DeleteStep(d)
  PROVE \A x \in Docs : OwnedDoc(x)'
<1> USE DEF Base
<1>1. indexer' = indexer
  BY Apart
<1>2. PICK t \in DeleteTasks :
        /\ deleter' = [deleter EXCEPT ![d] = t]
        /\ t.chunks \subseteq {c \in Chunks : owner[c] = d} \cap {c \in Chunks : owner'[c] = d}
        /\ t.step # "idle"
  BY DeletionKeeps
<1>3. \A c \in Chunks : owner[c] # d => owner'[c] = owner[c]
  BY DEF DeleteStep, ReadChunks, ScanEntityVectors, ScanRelationVectors, GetAllLabels, ScanNode,
    DeleteEntityVector, ScanEdges, UpdateEntityVectors, DeleteRelationVectors, UpdateRelationVectors,
    RemoveNodes, RemoveEdges, FindKept, RewriteKept, DeleteChunks, DeleteFails, OwnedDoc, store
<1>4. ASSUME NEW x \in Docs PROVE OwnedDoc(x)'
  <2>1. CASE x = d
    BY <1>2, <2>1 DEF OwnedDoc, Deleted, TypeOK
  <2>2. CASE x # d
    <3>1. deleter'[x] = deleter[x] /\ OwnedDoc(x)
      BY <1>2, <2>2 DEF TypeOK
    <3>2. /\ deleter[x].chunks \subseteq Chunks
          /\ \A i \in Items : indexer[x].found[i] \subseteq Chunks
          /\ ChunksOf[indexer[x].text] \subseteq Chunks
      BY TaskTypes, TextsHaveChunks DEF IndexTasks, DeleteTasks
    <3>. QED BY <1>1, <1>3, <2>2, <3>1, <3>2 DEF OwnedDoc, Deleted
  <2>. QED BY <2>1, <2>2
<1>. QED BY <1>4

\* Indexing takes no chunk of another document over without a mishap.
LEMMA OwnedIndex ==
  ASSUME Base, \A x \in Docs : OwnedDoc(x), NEW d \in Docs, RequestStep(d) \/ IndexStep(d), mishaps' = {}
  PROVE \A x \in Docs : OwnedDoc(x)'
<1> USE DEF Base
<1>0. /\ \A x \in Docs : deleter'[x].chunks = deleter[x].chunks /\ (Deleted(x) => Deleted(x)')
      /\ indexer[d] \in IndexTasks /\ NoDoc \notin Docs
  <2>1. ASSUME NEW x \in Docs, RequestDelete(d)
        PROVE deleter'[x].chunks = deleter[x].chunks /\ (Deleted(x) => Deleted(x)')
    BY <2>1 DEF RequestDelete, TypeOK, DeleteTasks, Deleted
  <2>2. ASSUME NEW x \in Docs, deleter' = deleter
        PROVE deleter'[x].chunks = deleter[x].chunks /\ (Deleted(x) => Deleted(x)')
    BY <2>2 DEF Deleted
  <2>3. RequestDelete(d) \/ deleter' = deleter
    BY Apart DEF RequestStep, RequestIndex, RequestUpdate
  <2>. QED BY <2>1, <2>2, <2>3, TaskTypes, RelationsHaveEnds
<1>1. ASSUME NEW x \in Docs PROVE /\ \A i \in Items : indexer[x].found[i] \subseteq Chunks
                                  /\ ChunksOf[indexer[x].text] \subseteq Chunks
                                  /\ deleter[x].chunks \subseteq Chunks
  BY TaskTypes, TextsHaveChunks DEF IndexTasks, DeleteTasks
<1>2. ASSUME NEW x \in Docs, x # d PROVE indexer'[x] = indexer[x]
  BY <1>2, OwnTask
<1>3. CASE InsertChunks(d)
  <2> DEFINE chunks == ChunksOf[indexer[d].text]
  <2>1. /\ \A c \in Chunks : owner'[c] = IF c \in chunks THEN d ELSE owner[c]
        /\ \A c \in chunks : owner[c] \in {NoDoc, d}
    BY <1>3 DEF InsertChunks, Note
  <2>2. indexer'[d].found = indexer[d].found /\ indexer'[d].text = indexer[d].text
    BY <1>0, <1>3 DEF InsertChunks, TypeOK, IndexTasks
  <2>3. \A x \in Docs, c \in Chunks : owner[c] = x => owner'[c] = x
    BY <1>0, <2>1
  <2>4. OwnedDoc(d)'
    BY <1>0, <1>1, <2>1, <2>2, <2>3 DEF OwnedDoc
  <2>5. ASSUME NEW x \in Docs, x # d PROVE OwnedDoc(x)'
    <3>1. OwnedDoc(x) /\ indexer'[x] = indexer[x]
      BY <1>2, <2>5
    <3>. HIDE DEF chunks
    <3>. QED BY <1>0, <1>1, <2>3, <3>1 DEF OwnedDoc
  <2>. QED BY <2>4, <2>5
<1>4. CASE ExtractEntities(d)
  <2> DEFINE chunks == ChunksOf[indexer[d].text]
             Found(answer) == [i \in Items |-> {c \in chunks : i \in answer[c]}]
             Task(found) == [indexer[d] EXCEPT !.found = found, !.left = Present(found),
                               !.step = IF Present(found) = {} THEN "indexed" ELSE "merging"]
  <2>1. PICK answer \in [chunks -> SUBSET Items] :
          indexer' = [indexer EXCEPT ![d] = Task(Found(answer))]
    BY <1>4, Zenon DEF ExtractEntities
  <2>2. ASSUME NEW found PROVE Task(found).found = found /\ Task(found).step \in {"indexed", "merging"}
    BY <1>0 DEF IndexTasks
  <2>3. indexer'[d] = Task(Found(answer))
    BY <2>1 DEF TypeOK
  <2>4. indexer'[d].found = Found(answer) /\ indexer'[d].step \in {"indexed", "merging"}
    <3>. HIDE DEF Task, Found
    <3>. QED BY <2>2, <2>3
  <2>5. \A i \in Items : indexer'[d].found[i] \subseteq chunks
    BY <2>4
  <2>6. owner' = owner /\ indexer[d].step = "chunked"
    BY <1>4 DEF ExtractEntities, store
  <2>. HIDE DEF chunks, Found, Task
  <2>7. OwnedDoc(d)'
    BY <1>0, <2>4, <2>5, <2>6 DEF OwnedDoc, chunks
  <2>8. ASSUME NEW x \in Docs, x # d PROVE OwnedDoc(x)'
    BY <1>0, <1>2, <2>6, <2>8 DEF OwnedDoc
  <2>. QED BY <2>7, <2>8
<1>5. CASE owner' = owner /\ indexer'[d].found = indexer[d].found /\ indexer'[d].step # "chunked"
  BY <1>0, <1>2, <1>5 DEF OwnedDoc
<1>6. CASE RequestDelete(d)
  <2>1. owner' = owner /\ indexer' = indexer
    BY <1>6 DEF RequestDelete, store
  <2>. QED BY <1>0, <2>1 DEF OwnedDoc
<1>7. CASE RequestIndex(d) \/ RequestUpdate(d)
  <2>1. CASE RequestIndex(d)
    BY <1>0, <1>5, <2>1 DEF RequestIndex, store, TypeOK, IndexTasks
  <2>2. CASE RequestUpdate(d)
    BY <1>0, <1>5, <2>2 DEF RequestUpdate, store, TypeOK, IndexTasks
  <2>. QED BY <1>7, <2>1, <2>2
<1>8. CASE StartIndex(d)
  BY <1>0, <1>5, <1>8 DEF StartIndex, store, TypeOK, IndexTasks
<1>9. ASSUME NEW i \in Items, MergeRead(d, i) PROVE \A x \in Docs : OwnedDoc(x)'
  BY <1>0, <1>5, <1>9 DEF MergeRead, store, TypeOK, IndexTasks
<1>10. CASE CheckEnd(d)
  BY <1>0, <1>5, <1>10 DEF CheckEnd, store, TypeOK, IndexTasks
<1>11. CASE InsertEnd(d) \/ UpsertItem(d) \/ UpsertVector(d)
  <2>1. CASE InsertEnd(d)
    BY <1>0, <1>5, <2>1 DEF InsertEnd, TypeOK, IndexTasks
  <2>2. CASE UpsertItem(d)
    BY <1>0, <1>5, <2>2 DEF UpsertItem, TypeOK, IndexTasks
  <2>3. CASE UpsertVector(d)
    BY <1>0, <1>5, <2>3 DEF UpsertVector, TypeOK, IndexTasks
  <2>. QED BY <1>11, <2>1, <2>2, <2>3
<1>12. CASE IndexFails(d)
  BY <1>0, <1>5, <1>12 DEF IndexFails, AfterFailure, store, TypeOK, IndexTasks
<1>. QED BY <1>3, <1>4, <1>6, <1>7, <1>8, <1>9, <1>10, <1>11, <1>12 DEF RequestStep, IndexStep

\* Indexing adds sources to what no other task is merging, and takes none away.
LEMMA IndexingAdds ==
  ASSUME Base, Clean, NEW d \in Docs, IndexStep(d), mishaps = {}, mishaps' = {}
  PROVE \A i \in Items :
          /\ graph[i] \subseteq graph'[i]
          /\ vectors'[i] = vectors[i] \/ vectors'[i] = graph[i]
          /\ lock[i] \in Docs \ {d} => graph'[i] = graph[i]
<1> USE DEF Base
<1>0. CurrentTask(indexer[d], graph) /\ HeldTask(d, indexer[d], lock) /\ indexer[d] \in IndexTasks
      /\ NoDoc \notin Docs
  BY TaskTypes, RelationsHaveEnds DEF Clean, Held
<1>1. indexer[d].step \in Merging => indexer[d].item \in Items /\ lock[indexer[d].item] = d
  BY <1>0 DEF HeldTask, Present
<1>2. CASE InsertEnd(d)
  <2> DEFINE e == Ends[indexer[d].item][indexer[d].end]
  <2>1. graph[e] = {} /\ lock[e] = NoDoc
    BY <1>2 DEF InsertEnd, Note
  <2>2. \A i \in Items : i # e => graph'[i] = graph[i]
    BY <1>2 DEF InsertEnd, TypeOK
  <2>3. vectors' = vectors
    BY <1>2 DEF InsertEnd
  <2>. HIDE DEF e
  <2>. QED BY <1>0, <2>1, <2>2, <2>3
<1>3. CASE UpsertItem(d)
  <2> DEFINE item == indexer[d].item
  <2>1. item \in Items /\ lock[item] = d /\ graph[item] = indexer[d].seen /\ vectors' = vectors
    BY <1>0, <1>1, <1>3 DEF UpsertItem, Merging, CurrentTask
  <2>2. \A i \in Items : graph'[i] = IF i = item THEN Merged(indexer[d]) ELSE graph[i]
    BY <1>3 DEF UpsertItem, TypeOK
  <2>3. graph[item] \subseteq Merged(indexer[d])
    BY <2>1 DEF Merged
  <2>. HIDE DEF item
  <2>. QED BY <2>1, <2>2, <2>3
<1>4. CASE UpsertVector(d)
  <2> DEFINE item == indexer[d].item
  <2>1. item \in Items /\ graph[item] = Merged(indexer[d]) /\ graph' = graph
    BY <1>0, <1>1, <1>4 DEF UpsertVector, Merging, CurrentTask
  <2>2. \A i \in Items : vectors'[i] = IF i = item THEN Merged(indexer[d]) ELSE vectors[i]
    BY <1>4 DEF UpsertVector, TypeOK
  <2>. HIDE DEF item
  <2>. QED BY <2>1, <2>2
<1>5. CASE graph' = graph /\ vectors' = vectors
  BY <1>5
<1>6. ASSUME NEW i \in Items, MergeRead(d, i) PROVE graph' = graph /\ vectors' = vectors
  BY <1>6 DEF MergeRead, store
<1>7. CASE StartIndex(d) \/ InsertChunks(d) \/ ExtractEntities(d) \/ CheckEnd(d) \/ IndexFails(d)
  BY <1>5, <1>7 DEF StartIndex, InsertChunks, ExtractEntities, CheckEnd, IndexFails, store
<1>. QED BY <1>2, <1>3, <1>4, <1>5, <1>6, <1>7 DEF IndexStep

\* What a merge has read and written, after a step of its own.
LEMMA OwnStep ==
  ASSUME Base, Clean, NEW d \in Docs, IndexStep(d), mishaps = {}, mishaps' = {}
  PROVE /\ CurrentTask(indexer'[d], graph')
        /\ ~ Deleted(d) => FoundTask(indexer'[d], graph', vectors')
<1> USE DEF Base
<1> DEFINE Goal == /\ CurrentTask(indexer'[d], graph')
                   /\ ~ Deleted(d) => FoundTask(indexer'[d], graph', vectors')
<1>0. /\ CurrentTask(indexer[d], graph) /\ HeldTask(d, indexer[d], lock) /\ indexer[d] \in IndexTasks
      /\ NoDoc \notin Docs
      /\ ~ Deleted(d) => FoundTask(indexer[d], graph, vectors)
      /\ indexer \in [Docs -> IndexTasks]
  BY TaskTypes, RelationsHaveEnds DEF Clean, Held, TypeOK
<1>1. indexer[d].step \in Merging => indexer[d].item \in Items /\ lock[indexer[d].item] = d
  BY <1>0 DEF HeldTask, Present
<1>2. CASE indexer'[d].step \notin Merging \cup {"merging", "indexed"}
  BY <1>2 DEF CurrentTask, FoundTask, Merging
<1>3. ASSUME NEW i \in Items, MergeRead(d, i) PROVE Goal
  <2>1. /\ indexer'[d].step = "read" /\ indexer'[d].item = i /\ indexer'[d].seen = graph[i]
        /\ indexer'[d].left = indexer[d].left /\ indexer'[d].found = indexer[d].found
        /\ indexer[d].step = "merging" /\ graph' = graph /\ vectors' = vectors
    BY <1>0, <1>3 DEF MergeRead, store, IndexTasks
  <2>. QED BY <1>0, <2>1 DEF CurrentTask, FoundTask, Merging
<1>4. CASE CheckEnd(d)
  <2>1. /\ indexer'[d].step \in {"read", "missing"} /\ indexer[d].step = "read"
        /\ indexer'[d].item = indexer[d].item /\ indexer'[d].seen = indexer[d].seen
        /\ indexer'[d].left = indexer[d].left /\ indexer'[d].found = indexer[d].found
        /\ graph' = graph /\ vectors' = vectors
    BY <1>0, <1>4 DEF CheckEnd, store, IndexTasks
  <2>. QED BY <1>0, <2>1 DEF CurrentTask, FoundTask, Merging
<1>5. CASE InsertEnd(d)
  <2> DEFINE e == Ends[indexer[d].item][indexer[d].end]
  <2>1. /\ indexer'[d].step = "read" /\ indexer[d].step = "missing"
        /\ indexer'[d].item = indexer[d].item /\ indexer'[d].seen = indexer[d].seen
        /\ indexer'[d].left = indexer[d].left /\ indexer'[d].found = indexer[d].found
    BY <1>0, <1>5 DEF InsertEnd, IndexTasks
  <2>2. lock[e] = NoDoc /\ \A i \in Items : i # e => graph'[i] = graph[i]
    BY <1>5 DEF InsertEnd, Note, TypeOK
  <2>3. graph'[indexer[d].item] = graph[indexer[d].item]
    BY <1>0, <1>1, <2>1, <2>2 DEF Merging
  <2>4. vectors' = vectors
    BY <1>5 DEF InsertEnd
  <2>5. \A i \in Items : graph[i] \subseteq graph'[i]
    BY IndexingAdds
  <2>. HIDE DEF e
  <2>. QED BY <1>0, <2>1, <2>3, <2>4, <2>5 DEF CurrentTask, FoundTask, Merging
<1>6. CASE UpsertItem(d)
  <2>1. /\ indexer'[d].step = "written" /\ indexer[d].step = "read"
        /\ indexer'[d].item = indexer[d].item /\ indexer'[d].seen = indexer[d].seen
        /\ indexer'[d].left = indexer[d].left /\ indexer'[d].found = indexer[d].found
    BY <1>0, <1>6 DEF UpsertItem, IndexTasks
  <2>2. graph'[indexer[d].item] = Merged(indexer[d]) /\ vectors' = vectors
    BY <1>1, <1>6, <2>1 DEF UpsertItem, Merging, TypeOK
  <2>3. Merged(indexer'[d]) = Merged(indexer[d])
    BY <2>1 DEF Merged
  <2>4. \A i \in Items : graph[i] \subseteq graph'[i]
    BY IndexingAdds
  <2>. QED BY <1>0, <2>1, <2>2, <2>3, <2>4 DEF CurrentTask, FoundTask, Merging
<1>7. CASE UpsertVector(d)
  <2> DEFINE item == indexer[d].item
             left == indexer[d].left \ {item}
  <2>1. /\ indexer'[d].step \in {"merging", "indexed"} /\ indexer[d].step = "written"
        /\ indexer'[d].left = left /\ indexer'[d].found = indexer[d].found /\ graph' = graph
    BY <1>0, <1>7 DEF UpsertVector, IndexTasks
  <2>2. item \in Items /\ graph[item] = Merged(indexer[d])
    BY <1>0, <1>1, <2>1 DEF CurrentTask, Merging
  <2>3. \A i \in Items : vectors'[i] = IF i = item THEN Merged(indexer[d]) ELSE vectors[i]
    BY <1>7 DEF UpsertVector, TypeOK
  <2>4. indexer[d].found[item] \subseteq Merged(indexer[d])
    BY DEF Merged
  <2>5. ASSUME ~ Deleted(d), NEW i \in Items \ left
        PROVE indexer[d].found[i] \subseteq graph'[i] /\ indexer[d].found[i] \subseteq vectors'[i]
    <3>1. CASE i = item
      BY <2>1, <2>2, <2>3, <2>4, <3>1
    <3>2. CASE i # item
      BY <1>0, <2>1, <2>3, <2>5, <3>2 DEF FoundTask, Merging
    <3>. QED BY <3>1, <3>2
  <2>. HIDE DEF item, left
  <2>. QED BY <2>1, <2>5 DEF CurrentTask, FoundTask
<1>8. CASE ExtractEntities(d)
  <2> DEFINE chunks == ChunksOf[indexer[d].text]
             Found(answer) == [i \in Items |-> {c \in chunks : i \in answer[c]}]
             Task(found) == [indexer[d] EXCEPT !.found = found, !.left = Present(found),
                               !.step = IF Present(found) = {} THEN "indexed" ELSE "merging"]
  <2>1. PICK answer \in [chunks -> SUBSET Items] :
          indexer' = [indexer EXCEPT ![d] = Task(Found(answer))]
    BY <1>8, Zenon DEF ExtractEntities
  <2>2. ASSUME NEW found PROVE /\ Task(found).found = found /\ Task(found).left = Present(found)
                               /\ Task(found).step \in {"indexed", "merging"}
    BY <1>0 DEF IndexTasks
  <2>3. indexer'[d] = Task(Found(answer))
    BY <1>0, <2>1
  <2>. HIDE DEF Found, Task
  <2>4. /\ indexer'[d].step \in {"indexed", "merging"}
        /\ indexer'[d].left = Present(indexer'[d].found)
    BY <2>2, <2>3
  <2>. QED BY <2>4 DEF CurrentTask, FoundTask, Present
<1>9. CASE StartIndex(d)
  BY <1>0, <1>2, <1>9 DEF StartIndex, IndexTasks, Merging
<1>10. CASE InsertChunks(d)
  BY <1>0, <1>2, <1>10 DEF InsertChunks, IndexTasks, Merging
<1>11. CASE IndexFails(d)
  <2>1. indexer'[d].step \in {"queued", "failed"}
    BY <1>0, <1>11 DEF IndexFails, AfterFailure, IndexTasks
  <2>. QED BY <1>2, <2>1 DEF Merging
<1>. QED BY <1>3, <1>4, <1>5, <1>6, <1>7, <1>8, <1>9, <1>10, <1>11 DEF IndexStep

\* Nothing is lost when a task indexes.
LEMMA CleanIndex ==
  ASSUME Base, Clean, NEW d \in Docs, IndexStep(d), mishaps \subseteq mishaps'
  PROVE Clean'
<1> USE DEF Base
<1> SUFFICES ASSUME mishaps' = {}
             PROVE /\ \A x \in Docs : OwnedDoc(x)'
                   /\ \A x \in Docs : CurrentTask(indexer'[x], graph')
                   /\ \A x \in Docs : ~ Deleted(x)' => FoundTask(indexer'[x], graph', vectors')
  BY DEF Clean
<1>0. /\ mishaps = {} /\ deleter' = deleter
      /\ \A x \in Docs : OwnedDoc(x) /\ CurrentTask(indexer[x], graph)
                         /\ (~ Deleted(x) => FoundTask(indexer[x], graph, vectors))
  BY Apart DEF Clean
<1>1. ASSUME NEW x \in Docs
      PROVE CurrentTask(indexer'[x], graph') /\ (~ Deleted(x) => FoundTask(indexer'[x], graph', vectors'))
  <2>1. CASE x = d
    BY <1>0, <2>1, OwnStep
  <2>2. CASE x # d
    <3>1. indexer'[x] = indexer[x]
      BY <2>2, OwnTask
    <3>2. indexer[x].step \in Merging => indexer[x].item \in Items /\ lock[indexer[x].item] = x
      BY TaskTypes DEF Held, HeldTask, Present
    <3>3. CurrentTask(indexer[x], graph')
      BY <1>0, <2>2, <3>2, IndexingAdds DEF CurrentTask, Merging
    <3>4. ~ Deleted(x) => FoundTask(indexer[x], graph', vectors')
      BY <1>0, IndexingAdds DEF FoundTask
    <3>. QED BY <3>1, <3>3, <3>4
  <2>. QED BY <2>1, <2>2
<1>2. \A x \in Docs : Deleted(x)' = Deleted(x)
  BY <1>0 DEF Deleted
<1>3. \A x \in Docs : OwnedDoc(x)'
  BY <1>0, OwnedIndex
<1>. QED BY <1>1, <1>2, <1>3

\* Nothing of another document is lost when one is deleted.
LEMMA CleanDelete ==
  ASSUME Base, Clean, NEW d \in Docs, DeleteStep(d), mishaps \subseteq mishaps'
  PROVE Clean'
<1> USE DEF Base
<1> SUFFICES ASSUME mishaps' = {}
             PROVE /\ \A x \in Docs : OwnedDoc(x)'
                   /\ \A x \in Docs : CurrentTask(indexer'[x], graph')
                   /\ \A x \in Docs : ~ Deleted(x)' => FoundTask(indexer'[x], graph', vectors')
  BY DEF Clean
<1>0. /\ mishaps = {} /\ indexer' = indexer /\ NoDoc \notin Docs
      /\ \A x \in Docs : OwnedDoc(x) /\ CurrentTask(indexer[x], graph)
                         /\ (~ Deleted(x) => FoundTask(indexer[x], graph, vectors))
  BY Apart, RelationsHaveEnds DEF Clean
<1>1. \A x \in Docs : OwnedDoc(x)'
  BY <1>0, OwnedDelete
<1>2. Deleted(d) /\ \A x \in Docs : ~ Deleted(x)' => ~ Deleted(x)
  <2>1. Deleted(d)
    BY DEF DeleteStep, ReadChunks, ScanEntityVectors, ScanRelationVectors, GetAllLabels, ScanNode,
      DeleteEntityVector, ScanEdges, UpdateEntityVectors, DeleteRelationVectors, UpdateRelationVectors,
      RemoveNodes, RemoveEdges, FindKept, RewriteKept, DeleteChunks, DeleteFails, Deleted
  <2>2. PICK t \in DeleteTasks : deleter' = [deleter EXCEPT ![d] = t] /\ t.step # "idle"
    BY <1>0, DeletionKeeps
  <2>. QED BY <2>1, <2>2 DEF Deleted, TypeOK
<1>3. ASSUME NEW x \in Docs PROVE CurrentTask(indexer[x], graph')
  <2>1. indexer[x].step \in Merging => indexer[x].item \in Items /\ lock[indexer[x].item] = x
    BY TaskTypes DEF Held, HeldTask, Present
  <2>. QED BY <1>0, <2>1, DeletionTakes DEF CurrentTask, Merging
<1>4. ASSUME NEW x \in Docs, ~ Deleted(x) PROVE FoundTask(indexer[x], graph', vectors')
  <2>1. \A i \in Items : indexer[x].found[i] \cap deleter[d].chunks = {}
    <3>1. x # d /\ OwnedDoc(x) /\ OwnedDoc(d)
      BY <1>0, <1>2, <1>4
    <3>. QED BY <1>4, <3>1 DEF OwnedDoc
  <2>. QED BY <1>0, <1>4, <2>1, DeletionTakes DEF FoundTask
<1>. QED BY <1>0, <1>1, <1>2, <1>3, <1>4

\* Without a mishap, what was read and found stays what is there.
LEMMA CleanInvariant == Spec => [](Base /\ Clean)
<1> DEFINE IInv == Base /\ Clean
<1>1. Init => IInv
  <2> SUFFICES ASSUME Init PROVE IInv
    OBVIOUS
  <2>1. Base
    BY BaseInit
  <2>2. \A d \in Docs : /\ indexer[d].step = "idle" /\ \A i \in Items : indexer[d].found[i] = {}
                        /\ deleter[d].chunks = {}
    BY DEF Init, Nothing
  <2>3. Clean
    BY <2>2 DEF Clean, OwnedDoc, CurrentTask, FoundTask, Merging
  <2>. QED BY <2>1, <2>3
<1>2. IInv /\ [Next]_vars => IInv'
  <2> SUFFICES ASSUME IInv, [Next]_vars PROVE IInv'
    OBVIOUS
  <2>0. Base' /\ mishaps \subseteq mishaps'
    BY BaseNext, MishapsStay
  <2>1. ASSUME NEW d \in Docs, RequestStep(d) PROVE Clean'
    <3>1. graph' = graph /\ vectors' = vectors /\ mishaps' = mishaps
      BY <2>1, Requests DEF Base, store
    <3>2. indexer'[d].step = "queued" \/ indexer' = indexer
      <4>1. CASE RequestIndex(d)
        BY <4>1, TaskTypes DEF RequestIndex, Base, TypeOK, IndexTasks
      <4>2. CASE RequestUpdate(d)
        BY <4>2, TaskTypes DEF RequestUpdate, Base, TypeOK, IndexTasks
      <4>3. CASE RequestDelete(d)
        BY <4>3 DEF RequestDelete
      <4>. QED BY <2>1, <4>1, <4>2, <4>3 DEF RequestStep
    <3>3. \A x \in Docs : ~ Deleted(x)' => ~ Deleted(x)
      BY <2>1 DEF RequestStep, RequestIndex, RequestUpdate, RequestDelete, Base, TypeOK, Deleted
    <3>4. ASSUME NEW x \in Docs, mishaps = {}
          PROVE CurrentTask(indexer'[x], graph) /\ (~ Deleted(x) => FoundTask(indexer'[x], graph, vectors))
      <4>0. CurrentTask(indexer[x], graph) /\ (~ Deleted(x) => FoundTask(indexer[x], graph, vectors))
        BY <3>4 DEF Clean
      <4>1. indexer'[x].step = "queued" \/ indexer'[x] = indexer[x]
        BY <2>1, <3>2, OwnTask DEF Base
      <4>. QED BY <4>0, <4>1 DEF CurrentTask, FoundTask, Merging
    <3>5. mishaps' = {} => \A x \in Docs : OwnedDoc(x)'
      BY <2>1, <3>1, OwnedIndex DEF Clean
    <3>. QED BY <3>1, <3>3, <3>4, <3>5 DEF Clean
  <2>2. CASE UNCHANGED vars
    <3>1. graph' = graph /\ vectors' = vectors /\ indexer' = indexer /\ deleter' = deleter /\ owner' = owner
          /\ mishaps' = mishaps
      BY <2>2 DEF vars
    <3>2. \A x \in Docs : OwnedDoc(x)' = OwnedDoc(x) /\ Deleted(x)' = Deleted(x)
      BY <3>1 DEF OwnedDoc, Deleted
    <3>. QED BY <2>0, <3>1, <3>2 DEF Clean
  <2>3. ASSUME NEW d \in Docs, IndexStep(d) PROVE Clean'
    BY <2>0, <2>3, CleanIndex
  <2>4. ASSUME NEW d \in Docs, DeleteStep(d) PROVE Clean'
    BY <2>0, <2>4, CleanDelete
  <2>. QED BY <2>0, <2>1, <2>2, <2>3, <2>4 DEF Next
<1>. QED BY <1>1, <1>2, PTL DEF Spec

\* Merges of any number of tasks lose nothing of each other and deletions take
\* nothing from other documents: the lock of an item is held from the read to
\* the last write (_merge_nodes_and_edges_impl).
THEOREM FoundStays == Spec => []IndexedIsFound
<1>1. Base /\ Clean => IndexedIsFound
  BY DEF Base, Clean, Held, HeldTask, FoundTask, IndexedIsFound
<1>. QED BY <1>1, CleanInvariant, PTL
-----------------------------------------------------------------------------
(* The sources are stored: a deletion deletes its chunks last, when nothing  *)
(* names them any more.                                                      *)

AtWork(ix) == ix.step \notin {"idle", "queued", "indexed", "failed"}

\* The chunks of a task at work are its own, even if it is being deleted.
WorkingDoc(d) ==
  /\ indexer[d].step = "chunked" => \A c \in ChunksOf[indexer[d].text] : owner[c] = d
  /\ indexer[d].step \in Merging \cup {"merging"} =>
       \A i \in Items : \A c \in indexer[d].found[i] : owner[c] = d

\* What the scans of a deletion have found so far.
PlannedVectors(t) == t.vgone \cup Present(t.vkept)
Planned(t) == t.gone \cup Present(t.kept)

\* The vectors that may still name the chunks of a deletion.
VectorLeft(t, i) ==
  /\ t.step = "entities" /\ i \in Entities => i \in PlannedVectors(t)
  /\ t.step \in {"relations", "labels", "node"} => i \in PlannedVectors(t)
  /\ t.step = "entity_vectors" => i \in Relations \cap PlannedVectors(t)
  /\ t.step = "relation_vectors" => i \in Relations \cap Present(t.vkept)
  /\ t.step \notin {"vectors", "nodes", "edges"}

\* The nodes and edges that may: an edge is found at either end.
GraphLeft(t, i) ==
  /\ t.step \in {"labels", "node"} =>
       \/ i \in Planned(t) \cup (t.left \ {t.item})
       \/ i \in Relations /\ EndsOf(i) \subseteq t.left
  /\ t.step \in {"entity_vectors", "relation_vectors", "vectors"} => i \in Planned(t)
  /\ t.step = "nodes" => i \in t.left \cup {t.item} \/ i \in Relations \cap Planned(t)
  /\ t.step = "edges" => i \in t.left \cup {t.item}

SweptTask(t, nodes, vecs) ==
  \A i \in Items :
    /\ t.kept[i] \cap t.chunks = {} /\ t.vkept[i] \cap t.chunks = {}
    /\ t.step \in {"idle", "queued"} => t.kept[i] = {} /\ t.vkept[i] = {}
    /\ vecs[i] \cap t.chunks # {} => VectorLeft(t, i)
    /\ nodes[i] \cap t.chunks # {} => GraphLeft(t, i)

Resting(d) == deleter[d].chunks # {} => Deleted(d) /\ ~ AtWork(indexer[d])

Stored == \A i \in Items : \A c \in graph[i] \cup vectors[i] : owner[c] # NoDoc

Swept ==
  mishaps = {} =>
    /\ Stored
    /\ \A d \in Docs : WorkingDoc(d) /\ Resting(d)
    /\ \A d \in Docs : SweptTask(deleter[d], graph, vectors)

\* The earlier invariants, on which this one rests.
Earlier == Base /\ Linked /\ EdgesHaveEnds /\ Clean

\* Indexing keeps the owners of chunks without a mishap, and so the chunks of
\* every task at work.
LEMMA WorkingIndex ==
  ASSUME Earlier, NEW d \in Docs, IndexStep(d), mishaps' = {}, \A x \in Docs : WorkingDoc(x)
  PROVE /\ \A c \in Chunks : owner[c] # NoDoc => owner'[c] = owner[c]
        /\ \A x \in Docs : WorkingDoc(x)'
<1> USE DEF Earlier, Base
<1>0. indexer[d] \in IndexTasks /\ NoDoc \notin Docs /\ indexer \in [Docs -> IndexTasks]
  BY TaskTypes, RelationsHaveEnds DEF TypeOK
<1>1. \A c \in Chunks : owner[c] # NoDoc => owner'[c] = owner[c]
  <2>1. CASE InsertChunks(d)
    BY <2>1 DEF InsertChunks, Note
  <2>2. CASE owner' = owner
    BY <2>2
  <2>. QED BY <2>1, <2>2 DEF IndexStep, StartIndex, ExtractEntities, MergeRead, CheckEnd, InsertEnd,
         UpsertItem, UpsertVector, IndexFails, store
<1>2. ASSUME NEW x \in Docs PROVE /\ \A i \in Items : indexer[x].found[i] \subseteq Chunks
                                  /\ ChunksOf[indexer[x].text] \subseteq Chunks
  BY TaskTypes, TextsHaveChunks DEF IndexTasks
<1>3. ASSUME NEW x \in Docs, x # d PROVE WorkingDoc(x)'
  <2>1. indexer'[x] = indexer[x]
    BY <1>3, OwnTask
  <2>2. \A c \in Chunks : owner[c] = x => owner'[c] = x
    BY <1>0, <1>1
  <2>. QED BY <1>2, <2>1, <2>2 DEF WorkingDoc
<1>4. indexer'[d].step \notin Merging \cup {"merging", "chunked"} => WorkingDoc(d)'
  BY DEF WorkingDoc
<1>5. /\ owner' = owner /\ indexer'[d].found = indexer[d].found
      /\ indexer[d].step \in Merging \cup {"merging"} /\ indexer'[d].step # "chunked"
      => WorkingDoc(d)'
  BY DEF WorkingDoc
<1>6. WorkingDoc(d)'
  <2>1. CASE InsertChunks(d)
    <3>1. /\ indexer'[d].step = "chunked" /\ indexer'[d].text = indexer[d].text
          /\ \A c \in ChunksOf[indexer[d].text] : owner'[c] = d
      BY <1>0, <1>2, <2>1 DEF InsertChunks, IndexTasks
    <3>. QED BY <3>1 DEF WorkingDoc, Merging
  <2>2. CASE ExtractEntities(d)
    <3> DEFINE chunks == ChunksOf[indexer[d].text]
               Found(answer) == [i \in Items |-> {c \in chunks : i \in answer[c]}]
               Task(found) == [indexer[d] EXCEPT !.found = found, !.left = Present(found),
                                 !.step = IF Present(found) = {} THEN "indexed" ELSE "merging"]
    <3>1. PICK answer \in [chunks -> SUBSET Items] :
            indexer' = [indexer EXCEPT ![d] = Task(Found(answer))]
      BY <2>2, Zenon DEF ExtractEntities
    <3>2. ASSUME NEW found PROVE Task(found).found = found /\ Task(found).step \in {"indexed", "merging"}
      BY <1>0 DEF IndexTasks
    <3>3. indexer'[d] = Task(Found(answer))
      BY <1>0, <3>1
    <3>4. indexer'[d].found = Found(answer) /\ indexer'[d].step \in {"indexed", "merging"}
      <4>. HIDE DEF Task, Found
      <4>. QED BY <3>2, <3>3
    <3>5. \A i \in Items : indexer'[d].found[i] \subseteq chunks
      BY <3>4
    <3>6. owner' = owner /\ \A c \in chunks : owner[c] = d
      BY <2>2 DEF ExtractEntities, store, WorkingDoc
    <3>. HIDE DEF chunks, Found, Task
    <3>. QED BY <3>4, <3>5, <3>6 DEF WorkingDoc
  <2>3. ASSUME NEW i \in Items, MergeRead(d, i) PROVE WorkingDoc(d)'
    BY <1>0, <1>5, <2>3 DEF MergeRead, store, IndexTasks, Merging
  <2>4. CASE CheckEnd(d)
    BY <1>0, <1>5, <2>4 DEF CheckEnd, store, IndexTasks, Merging
  <2>5. CASE InsertEnd(d)
    BY <1>0, <1>5, <2>5 DEF InsertEnd, IndexTasks, Merging
  <2>6. CASE UpsertItem(d)
    BY <1>0, <1>5, <2>6 DEF UpsertItem, IndexTasks, Merging
  <2>7. CASE UpsertVector(d)
    BY <1>0, <1>5, <2>7 DEF UpsertVector, IndexTasks, Merging
  <2>8. CASE StartIndex(d)
    BY <1>0, <1>4, <2>8 DEF StartIndex, IndexTasks, Merging
  <2>9. CASE IndexFails(d)
    BY <1>0, <1>4, <2>9 DEF IndexFails, AfterFailure, IndexTasks, Merging
  <2>. QED BY <2>1, <2>2, <2>3, <2>4, <2>5, <2>6, <2>7, <2>8, <2>9 DEF IndexStep
<1>. QED BY <1>1, <1>3, <1>6

\* A merge without a mishap brings no source that is not stored, and none
\* that a deletion has in hand.
LEMMA IndexingRevivesNothing ==
  ASSUME Earlier, Swept, NEW d \in Docs, IndexStep(d), mishaps = {}, mishaps' = {},
         NEW i \in Items, NEW c, c \in (graph'[i] \ graph[i]) \cup (vectors'[i] \ vectors[i])
  PROVE owner[c] # NoDoc /\ \A x \in Docs : c \notin deleter[x].chunks
<1> USE DEF Earlier, Base
<1>0. /\ indexer[d] \in IndexTasks /\ NoDoc \notin Docs /\ CurrentTask(indexer[d], graph)
      /\ HeldTask(d, indexer[d], lock) /\ WorkingDoc(d) /\ Stored /\ Entities \subseteq Items
      /\ \A x \in Docs : Resting(x) /\ OwnedDoc(x)
  BY TaskTypes, RelationsHaveEnds DEF Clean, Held, Swept, Items
<1>1. indexer[d].step \in Merging =>
        /\ indexer[d].item \in Items
        /\ \A k \in indexer[d].found[indexer[d].item] :
             owner[k] # NoDoc /\ \A x \in Docs : k \notin deleter[x].chunks
  <2> SUFFICES ASSUME indexer[d].step \in Merging
               PROVE /\ indexer[d].item \in Items
                     /\ \A k \in indexer[d].found[indexer[d].item] :
                          owner[k] # NoDoc /\ \A x \in Docs : k \notin deleter[x].chunks
    OBVIOUS
  <2>1. indexer[d].item \in Items
    BY <1>0 DEF HeldTask, Present
  <2>2. deleter[d].chunks = {}
    BY <1>0 DEF Resting, AtWork, Merging
  <2>3. \A k \in indexer[d].found[indexer[d].item] : owner[k] = d
    BY <1>0, <2>1 DEF WorkingDoc
  <2>. QED BY <1>0, <2>1, <2>2, <2>3 DEF OwnedDoc
<1>2. CASE InsertEnd(d)
  <2> DEFINE item == indexer[d].item
             e == Ends[item][indexer[d].end]
  <2>1. item \in Relations /\ e \in EndsOf(item) /\ e \in Items
    BY <1>0, <1>2, EndsAreEntities DEF InsertEnd, HeldTask
  <2>2. graph[e] = {} /\ vectors' = vectors
    BY <1>2 DEF InsertEnd, Note
  <2>3. graph[item] = {}
    BY <2>1, <2>2 DEF EdgesHaveEnds
  <2>4. indexer[d].seen = {}
    BY <1>0, <1>2, <2>3 DEF InsertEnd, CurrentTask
  <2>5. \A j \in Items : graph'[j] = IF j = e THEN Merged(indexer[d]) ELSE graph[j]
    BY <1>2 DEF InsertEnd, TypeOK
  <2>6. c \in indexer[d].found[item]
    <3>. HIDE DEF e
    <3>. QED BY <2>2, <2>4, <2>5 DEF Merged
  <2>. QED BY <1>1, <1>2, <2>6 DEF InsertEnd, Merging
<1>3. CASE UpsertItem(d)
  <2>1. indexer[d].step = "read" /\ graph[indexer[d].item] = indexer[d].seen /\ vectors' = vectors
    BY <1>0, <1>3 DEF UpsertItem, CurrentTask
  <2>2. \A j \in Items : graph'[j] = IF j = indexer[d].item THEN Merged(indexer[d]) ELSE graph[j]
    BY <1>3 DEF UpsertItem, TypeOK
  <2>3. c \in indexer[d].found[indexer[d].item]
    BY <2>1, <2>2 DEF Merged
  <2>. QED BY <1>1, <2>1, <2>3 DEF Merging
<1>4. CASE UpsertVector(d)
  <2>1. indexer[d].step = "written" /\ graph[indexer[d].item] = Merged(indexer[d]) /\ graph' = graph
    BY <1>0, <1>4 DEF UpsertVector, CurrentTask
  <2>2. \A j \in Items : vectors'[j] = IF j = indexer[d].item THEN Merged(indexer[d]) ELSE vectors[j]
    BY <1>4 DEF UpsertVector, TypeOK
  <2>3. c \in graph[indexer[d].item] /\ c \in Merged(indexer[d]) /\ indexer[d].item \in Items
    BY <1>1, <2>1, <2>2 DEF Merging
  <2>4. ~ RevivesSources(d)
    BY <1>4 DEF UpsertVector, Note
  <2>. QED BY <1>0, <2>3, <2>4 DEF Stored, RevivesSources
<1>5. CASE graph' = graph /\ vectors' = vectors
  BY <1>5
<1>6. ASSUME NEW j \in Items, MergeRead(d, j) PROVE graph' = graph /\ vectors' = vectors
  BY <1>6 DEF MergeRead, store
<1>7. CASE StartIndex(d) \/ InsertChunks(d) \/ ExtractEntities(d) \/ CheckEnd(d) \/ IndexFails(d)
  BY <1>5, <1>7 DEF StartIndex, InsertChunks, ExtractEntities, CheckEnd, IndexFails, store
<1>. QED BY <1>2, <1>3, <1>4, <1>5, <1>6, <1>7 DEF IndexStep

\* What a deletion has in hand stays accounted for as long as nothing adds to it.
LEMMA SweptFrame ==
  ASSUME NEW t, NEW nodes, NEW vecs, NEW nodes2, NEW vecs2, SweptTask(t, nodes, vecs),
         \A i \in Items : nodes2[i] \cap t.chunks \subseteq nodes[i] /\ vecs2[i] \cap t.chunks \subseteq vecs[i]
  PROVE SweptTask(t, nodes2, vecs2)
<1> SUFFICES ASSUME NEW i \in Items
             PROVE /\ t.kept[i] \cap t.chunks = {} /\ t.vkept[i] \cap t.chunks = {}
                   /\ t.step \in {"idle", "queued"} => t.kept[i] = {} /\ t.vkept[i] = {}
                   /\ vecs2[i] \cap t.chunks # {} => VectorLeft(t, i)
                   /\ nodes2[i] \cap t.chunks # {} => GraphLeft(t, i)
  BY DEF SweptTask
<1>1. /\ t.kept[i] \cap t.chunks = {} /\ t.vkept[i] \cap t.chunks = {}
      /\ t.step \in {"idle", "queued"} => t.kept[i] = {} /\ t.vkept[i] = {}
      /\ vecs[i] \cap t.chunks # {} => VectorLeft(t, i)
      /\ nodes[i] \cap t.chunks # {} => GraphLeft(t, i)
  BY DEF SweptTask
<1>2. nodes2[i] \cap t.chunks \subseteq nodes[i] \cap t.chunks /\ vecs2[i] \cap t.chunks \subseteq vecs[i] \cap t.chunks
  OBVIOUS
<1>. QED BY <1>1, <1>2

\* A task that was found at rest stays at rest: its document is deleted.
LEMMA RestingIndex ==
  ASSUME TypeOK, NEW d \in Docs, IndexStep(d) \/ RequestStep(d), \A x \in Docs : Resting(x)
  PROVE \A x \in Docs : Resting(x)'
<1> SUFFICES ASSUME NEW x \in Docs PROVE Resting(x)'
  OBVIOUS
<1>0. Resting(x) /\ indexer[d] \in IndexTasks /\ indexer[x] \in IndexTasks
  BY TaskTypes
<1>1. /\ deleter'[x].chunks = deleter[x].chunks
      /\ Deleted(x) => Deleted(x)'
  <2>1. CASE RequestDelete(d)
    BY <2>1 DEF RequestDelete, TypeOK, DeleteTasks, Deleted
  <2>2. CASE deleter' = deleter
    BY <2>2 DEF Deleted
  <2>. QED BY <2>1, <2>2, Apart DEF RequestStep, RequestIndex, RequestUpdate
<1>2. CASE indexer'[x] = indexer[x] \/ deleter[x].chunks = {}
  BY <1>0, <1>1, <1>2 DEF Resting
<1>3. CASE x # d
  BY <1>2, <1>3, OwnTask
<1>4. CASE x = d /\ Deleted(d) /\ ~ AtWork(indexer[d])
  <2>1. indexer'[d] = indexer[d] \/ IndexFails(d)
    BY <1>4 DEF IndexStep, RequestStep, RequestIndex, RequestUpdate, RequestDelete, StartIndex, InsertChunks,
      ExtractEntities, MergeRead, CheckEnd, InsertEnd, UpsertItem, UpsertVector, AtWork
  <2>2. IndexFails(d) => indexer'[d].step \in {"queued", "failed"}
    BY <1>0, <1>4 DEF IndexFails, AfterFailure, TypeOK, IndexTasks
  <2>. QED BY <1>1, <1>2, <1>4, <2>1, <2>2 DEF Resting, AtWork
<1>. QED BY <1>0, <1>2, <1>3, <1>4 DEF Resting

\* Indexing keeps the sources stored and the deletions on their way.
LEMMA SweptIndex ==
  ASSUME Earlier, Swept, NEW d \in Docs, IndexStep(d), mishaps \subseteq mishaps'
  PROVE Swept'
<1> USE DEF Earlier, Base
<1> SUFFICES ASSUME mishaps' = {}
             PROVE /\ Stored'
                   /\ \A x \in Docs : WorkingDoc(x)' /\ Resting(x)'
                   /\ \A x \in Docs : SweptTask(deleter'[x], graph', vectors')
  BY DEF Swept
<1>0. /\ mishaps = {} /\ deleter' = deleter /\ Stored
      /\ \A x \in Docs : WorkingDoc(x) /\ Resting(x) /\ SweptTask(deleter[x], graph, vectors)
  BY Apart DEF Swept
<1>1. \A c \in Chunks : owner[c] # NoDoc => owner'[c] = owner[c]
  BY <1>0, WorkingIndex
<1>2. TypeOK'
  BY TypeIndex
<1>3. ASSUME NEW i \in Items, NEW c \in graph'[i] \cup vectors'[i] PROVE owner'[c] # NoDoc
  <2>1. c \in Chunks
    BY <1>2, <1>3 DEF TypeOK
  <2>2. owner[c] # NoDoc
    BY <1>0, <1>3, IndexingRevivesNothing DEF Stored
  <2>. QED BY <1>1, <2>1, <2>2
<1>4. ASSUME NEW x \in Docs PROVE SweptTask(deleter[x], graph', vectors')
  <2>1. ASSUME NEW i \in Items
        PROVE /\ graph'[i] \cap deleter[x].chunks \subseteq graph[i]
              /\ vectors'[i] \cap deleter[x].chunks \subseteq vectors[i]
    BY <1>0, IndexingRevivesNothing
  <2>. QED BY <1>0, <2>1, SweptFrame
<1>. QED BY <1>0, <1>3, <1>4, WorkingIndex, RestingIndex DEF Stored
\* A scan plans for every vector that names the chunks of the document.
LEMMA PlanVectorsFinds ==
  ASSUME TypeOK, NEW d \in Docs, NEW items \in SUBSET Items
  PROVE LET t == deleter[d]
            u == PlanVectors(d, items) IN
        /\ u \in DeleteTasks /\ u.chunks = t.chunks /\ u.kept = t.kept /\ u.gone = t.gone /\ u.left = t.left
        /\ u.item = t.item
        /\ PlannedVectors(t) \subseteq PlannedVectors(u)
        /\ \A i \in items : vectors[i] \cap t.chunks # {} => i \in PlannedVectors(u)
        /\ \A i \in Items : t.vkept[i] \cap t.chunks = {} => u.vkept[i] \cap t.chunks = {}
<1> DEFINE t == deleter[d]
           u == PlanVectors(d, items)
           losing == {i \in items : vectors[i] \cap t.chunks # {}}
<1>1. u \in DeleteTasks /\ t \in DeleteTasks
  BY PlanTypes, TaskTypes
<1>2. /\ u.chunks = t.chunks /\ u.kept = t.kept /\ u.gone = t.gone /\ u.left = t.left /\ u.item = t.item
      /\ u.vgone = t.vgone \cup (Unsourced(d, vectors) \cap items)
      /\ \A i \in Items : u.vkept[i] = IF i \in losing THEN Remaining(d, vectors)[i] ELSE t.vkept[i]
  BY <1>1 DEF PlanVectors, DeleteTasks
<1>3. \A i \in Items : Remaining(d, vectors)[i] = vectors[i] \ t.chunks
  BY DEF Remaining
<1>4. ASSUME NEW i \in losing PROVE i \in PlannedVectors(u)
  <2>1. CASE vectors[i] \subseteq t.chunks
    BY <1>2, <2>1 DEF Unsourced, Present, PlannedVectors
  <2>2. CASE vectors[i] \ t.chunks # {}
    <3>1. i \in Items /\ u.vkept[i] # {}
      BY <1>2, <1>3, <2>2
    <3>. QED BY <3>1 DEF Present, PlannedVectors
  <2>. QED BY <2>1, <2>2
<1>5. PlannedVectors(t) \subseteq PlannedVectors(u)
  <2>. HIDE DEF t, u, losing
  <2>. QED BY <1>2, <1>4 DEF PlannedVectors, Present
<1>6. \A i \in Items : t.vkept[i] \cap t.chunks = {} => u.vkept[i] \cap t.chunks = {}
  BY <1>2, <1>3
<1>7. \A i \in items : vectors[i] \cap t.chunks # {} => i \in PlannedVectors(u)
  BY <1>4
<1>. HIDE DEF u
<1>. QED BY <1>1, <1>2, <1>5, <1>6, <1>7 DEF u

\* A scan plans for whatever it finds in the graph.
LEMMA PlanGraphFinds ==
  ASSUME TypeOK, NEW d \in Docs, NEW items \in SUBSET Items
  PROVE LET t == deleter[d]
            u == PlanGraph(d, items) IN
        /\ u \in DeleteTasks /\ u.chunks = t.chunks /\ u.vkept = t.vkept /\ u.vgone = t.vgone /\ u.left = t.left
        /\ Planned(t) \subseteq Planned(u)
        /\ \A i \in items : graph[i] # {} => i \in Planned(u)
        /\ \A i \in Items : t.kept[i] \cap t.chunks = {} => u.kept[i] \cap t.chunks = {}
<1> DEFINE t == deleter[d]
           u == PlanGraph(d, items)
<1>1. u \in DeleteTasks /\ t \in DeleteTasks
  BY PlanTypes, TaskTypes
<1>2. /\ u.chunks = t.chunks /\ u.vkept = t.vkept /\ u.vgone = t.vgone /\ u.left = t.left
      /\ u.gone = t.gone \cup (Unsourced(d, graph) \cap items)
      /\ \A i \in Items : u.kept[i] = IF i \in items /\ graph[i] \ t.chunks # {}
                                      THEN graph[i] \ t.chunks ELSE t.kept[i]
  BY <1>1 DEF PlanGraph, DeleteTasks, Remaining
<1>3. ASSUME NEW i \in items, graph[i] # {} PROVE i \in Planned(u)
  <2>1. CASE graph[i] \subseteq t.chunks
    BY <1>2, <1>3, <2>1 DEF Unsourced, Present, Planned
  <2>2. CASE graph[i] \ t.chunks # {}
    <3>1. i \in Items /\ u.kept[i] # {}
      BY <1>2, <2>2
    <3>. QED BY <3>1 DEF Present, Planned
  <2>. QED BY <2>1, <2>2
<1>4. Planned(t) \subseteq Planned(u)
  <2>. HIDE DEF t, u
  <2>. QED BY <1>2 DEF Planned, Present
<1>5. \A i \in Items : t.kept[i] \cap t.chunks = {} => u.kept[i] \cap t.chunks = {}
  BY <1>2
<1>. HIDE DEF u
<1>. QED BY <1>1, <1>2, <1>3, <1>4, <1>5 DEF u

\* The scans: what a deletion has to sweep is planned for.
LEMMA SweptScan ==
  ASSUME TypeOK, Rewrites, EdgesHaveEnds, NEW d \in Docs, mishaps = {},
         SweptTask(deleter[d], graph, vectors),
         \/ ReadChunks(d) \/ ScanEntityVectors(d) \/ ScanRelationVectors(d) \/ GetAllLabels(d)
         \/ \E e \in Entities : ScanNode(d, e)
         \/ ScanEdges(d)
  PROVE SweptTask(deleter'[d], graph', vectors')
<1> DEFINE t == deleter[d]
           u == deleter'[d]
<1>0. /\ t \in DeleteTasks /\ deleter \in [Docs -> DeleteTasks]
      /\ Entities \in SUBSET Items /\ Relations \in SUBSET Items /\ Items = Entities \cup Relations
      /\ RewriteTask(t) /\ NoItem \notin Items
  BY TaskTypes, RelationsHaveEnds DEF Rewrites, TypeOK, Items
<1>1. graph' = graph /\ vectors' = vectors
  BY DEF ReadChunks, ScanEntityVectors, ScanRelationVectors, GetAllLabels, ScanNode, ScanEdges, store
<1>2. \A i \in Items :
        /\ t.kept[i] \cap t.chunks = {} /\ t.vkept[i] \cap t.chunks = {}
        /\ t.step \in {"idle", "queued"} => t.kept[i] = {} /\ t.vkept[i] = {}
        /\ vectors[i] \cap t.chunks # {} => VectorLeft(t, i)
        /\ graph[i] \cap t.chunks # {} => GraphLeft(t, i)
  BY DEF SweptTask
<1>3. CASE ReadChunks(d)
  <2>1. /\ u.kept = t.kept /\ u.vkept = t.vkept /\ t.step = "queued"
        /\ u.step = "chunks" \/ (u.step = "deleted" /\ u.chunks = {})
    BY <1>0, <1>3 DEF ReadChunks, DeleteTasks
  <2>. HIDE DEF t, u
  <2>. QED BY <1>1, <1>2, <2>1 DEF SweptTask, VectorLeft, GraphLeft, t, u
<1>4. CASE ScanEntityVectors(d)
  <2> DEFINE p == PlanVectors(d, Entities)
  <2>1. /\ p \in DeleteTasks /\ p.chunks = t.chunks /\ p.kept = t.kept
        /\ \A i \in Entities : vectors[i] \cap t.chunks # {} => i \in PlannedVectors(p)
        /\ \A i \in Items : t.vkept[i] \cap t.chunks = {} => p.vkept[i] \cap t.chunks = {}
    BY <1>0, PlanVectorsFinds
  <2>2. u = [p EXCEPT !.step = "entities"]
    BY <1>0, <1>4 DEF ScanEntityVectors
  <2>3. u.step = "entities" /\ u.chunks = t.chunks /\ u.kept = t.kept /\ u.vkept = p.vkept /\ u.vgone = p.vgone
    BY <2>1, <2>2 DEF DeleteTasks
  <2>. HIDE DEF t, u, p
  <2>. QED BY <1>1, <1>2, <2>1, <2>3 DEF SweptTask, VectorLeft, GraphLeft, PlannedVectors, t, u
<1>5. CASE ScanRelationVectors(d)
  <2> DEFINE p == PlanVectors(d, Relations)
  <2>1. /\ p \in DeleteTasks /\ p.chunks = t.chunks /\ p.kept = t.kept
        /\ PlannedVectors(t) \subseteq PlannedVectors(p)
        /\ \A i \in Relations : vectors[i] \cap t.chunks # {} => i \in PlannedVectors(p)
        /\ \A i \in Items : t.vkept[i] \cap t.chunks = {} => p.vkept[i] \cap t.chunks = {}
    BY <1>0, PlanVectorsFinds
  <2>2. u = [p EXCEPT !.step = "relations"] /\ t.step = "entities"
    BY <1>0, <1>5 DEF ScanRelationVectors
  <2>3. u.step = "relations" /\ u.chunks = t.chunks /\ u.kept = t.kept /\ u.vkept = p.vkept /\ u.vgone = p.vgone
    BY <2>1, <2>2 DEF DeleteTasks
  <2>4. PlannedVectors(u) = PlannedVectors(p)
    BY <2>3 DEF PlannedVectors
  <2>. HIDE DEF t, u, p
  <2>5. ASSUME NEW i \in Items, vectors[i] \cap t.chunks # {} PROVE i \in PlannedVectors(u)
    BY <1>0, <1>2, <2>1, <2>2, <2>4, <2>5 DEF VectorLeft
  <2>. QED BY <1>1, <1>2, <2>1, <2>3, <2>5 DEF SweptTask, VectorLeft, GraphLeft, t, u
<1>6. CASE GetAllLabels(d)
  <2>1. /\ u.step = "labels" /\ t.step = "relations" /\ u.left = Present(graph) \cap Entities
        /\ u.chunks = t.chunks /\ u.kept = t.kept /\ u.vkept = t.vkept /\ u.vgone = t.vgone /\ u.item = t.item
    BY <1>0, <1>6 DEF GetAllLabels, DeleteTasks
  <2>2. u.item = NoItem
    BY <1>0, <2>1 DEF RewriteTask
  <2>3. PlannedVectors(u) = PlannedVectors(t)
    BY <2>1 DEF PlannedVectors
  <2>4. ASSUME NEW i \in Items, graph[i] # {}
        PROVE i \in u.left \ {u.item} \/ (i \in Relations /\ EndsOf(i) \subseteq u.left)
    <3>1. CASE i \in Entities
      BY <1>0, <2>1, <2>2, <2>4, <3>1 DEF Present
    <3>2. CASE i \in Relations
      <4>1. \A e \in EndsOf(i) : graph[e] # {} /\ e \in Entities
        BY <2>4, <3>2, EndsAreEntities DEF EdgesHaveEnds
      <4>2. \A e \in EndsOf(i) : e \in u.left
        BY <1>0, <2>1, <4>1 DEF Present
      <4>. QED BY <3>2, <4>2
    <3>. QED BY <1>0, <3>1, <3>2
  <2>. HIDE DEF t, u
  <2>. QED BY <1>1, <1>2, <2>1, <2>3, <2>4 DEF SweptTask, VectorLeft, GraphLeft, t, u
<1>7. ASSUME NEW e \in Entities, ScanNode(d, e) PROVE SweptTask(deleter'[d], graph', vectors')
  <2> DEFINE p == PlanGraph(d, {e})
  <2>1. /\ p \in DeleteTasks /\ p.chunks = t.chunks /\ p.vkept = t.vkept /\ p.vgone = t.vgone /\ p.left = t.left
        /\ Planned(t) \subseteq Planned(p) /\ (graph[e] # {} => e \in Planned(p))
        /\ \A i \in Items : t.kept[i] \cap t.chunks = {} => p.kept[i] \cap t.chunks = {}
    BY <1>0, PlanGraphFinds
  <2>2. u = [p EXCEPT !.step = "node", !.item = e] /\ t.step = "labels"
    BY <1>0, <1>7 DEF ScanNode
  <2>3. /\ u.step = "node" /\ u.item = e /\ u.left = t.left /\ u.chunks = t.chunks /\ u.kept = p.kept
        /\ u.gone = p.gone /\ u.vkept = t.vkept /\ u.vgone = t.vgone
    BY <2>1, <2>2 DEF DeleteTasks
  <2>4. PlannedVectors(u) = PlannedVectors(t) /\ Planned(u) = Planned(p)
    BY <2>3 DEF PlannedVectors, Planned
  <2>. HIDE DEF t, u, p
  <2>5. ASSUME NEW i \in Items, graph[i] \cap t.chunks # {} PROVE GraphLeft(u, i)
    BY <1>2, <2>1, <2>2, <2>3, <2>4, <2>5 DEF GraphLeft
  <2>. QED BY <1>1, <1>2, <2>1, <2>2, <2>3, <2>4, <2>5 DEF SweptTask, VectorLeft, t, u
<1>8. CASE ScanEdges(d)
  <2> DEFINE e == t.item
             p == PlanGraph(d, EdgesAt({e}))
  <2>1. /\ p \in DeleteTasks /\ p.chunks = t.chunks /\ p.vkept = t.vkept /\ p.vgone = t.vgone
        /\ Planned(t) \subseteq Planned(p) /\ \A r \in EdgesAt({e}) : graph[r] # {} => r \in Planned(p)
        /\ \A i \in Items : t.kept[i] \cap t.chunks = {} => p.kept[i] \cap t.chunks = {}
    <3>1. EdgesAt({e}) \in SUBSET Items
      BY <1>0 DEF EdgesAt
    <3>. HIDE DEF e
    <3>. QED BY <3>1, PlanGraphFinds
  <2>2. u = [p EXCEPT !.step = "labels", !.item = NoItem, !.left = t.left \ {e}] /\ t.step = "node"
    BY <1>0, <1>8 DEF ScanEdges
  <2>3. /\ u.step = "labels" /\ u.item = NoItem /\ u.left = t.left \ {e} /\ u.chunks = t.chunks
        /\ u.kept = p.kept /\ u.gone = p.gone /\ u.vkept = t.vkept /\ u.vgone = t.vgone
    BY <2>1, <2>2 DEF DeleteTasks
  <2>4. PlannedVectors(u) = PlannedVectors(t) /\ Planned(u) = Planned(p)
    BY <2>3 DEF PlannedVectors, Planned
  <2>. HIDE DEF t, u, p, e
  <2>5. ASSUME NEW i \in Items, graph[i] \cap t.chunks # {} PROVE GraphLeft(u, i)
    <3>1. i \in Planned(t) \cup (t.left \ {e}) \/ (i \in Relations /\ EndsOf(i) \subseteq t.left)
      BY <1>2, <2>2, <2>5 DEF GraphLeft, e
    <3>2. i \in Relations /\ e \in EndsOf(i) => i \in EdgesAt({e})
      BY DEF EdgesAt
    <3>3. i \in Planned(p) \cup (u.left \ {u.item}) \/ (i \in Relations /\ EndsOf(i) \subseteq u.left)
      BY <1>0, <2>1, <2>3, <2>5, <3>1, <3>2
    <3>. QED BY <2>3, <2>4, <3>3 DEF GraphLeft
  <2>. QED BY <1>1, <1>2, <2>1, <2>2, <2>3, <2>4, <2>5 DEF SweptTask, VectorLeft, t, u
<1>. QED BY <1>3, <1>4, <1>5, <1>6, <1>7, <1>8
\* The writes to the vectors.
LEMMA SweptVectors ==
  ASSUME TypeOK, Rewrites, NEW d \in Docs, mishaps' = {},
         SweptTask(deleter[d], graph, vectors),
         \/ \E e \in Entities : DeleteEntityVector(d, e)
         \/ UpdateEntityVectors(d) \/ DeleteRelationVectors(d) \/ UpdateRelationVectors(d)
  PROVE SweptTask(deleter'[d], graph', vectors')
<1> DEFINE t == deleter[d]
           u == deleter'[d]
<1>0. /\ t \in DeleteTasks /\ deleter \in [Docs -> DeleteTasks]
      /\ Items = Entities \cup Relations /\ Entities \cap Relations = {}
      /\ RewriteTask(t) /\ NoItem \notin Items
  BY TaskTypes, RelationsHaveEnds DEF Rewrites, TypeOK, Items
<1>1. /\ graph' = graph
      /\ u.chunks = t.chunks /\ u.kept = t.kept /\ u.gone = t.gone /\ u.left = t.left /\ u.item = t.item
      /\ u.vkept = t.vkept /\ u.step \notin {"idle", "queued"}
  <2> DEFINE Same == /\ u.chunks = t.chunks /\ u.kept = t.kept /\ u.gone = t.gone /\ u.left = t.left
                     /\ u.item = t.item /\ u.vkept = t.vkept /\ u.step \notin {"idle", "queued"}
  <2>1. ASSUME NEW e \in Entities, DeleteEntityVector(d, e) PROVE Same
    BY <1>0, <2>1 DEF DeleteEntityVector, DeleteTasks
  <2>2. UpdateEntityVectors(d) => Same
    BY <1>0 DEF UpdateEntityVectors, DeleteTasks
  <2>3. DeleteRelationVectors(d) => Same
    BY <1>0 DEF DeleteRelationVectors, DeleteTasks
  <2>4. UpdateRelationVectors(d) => Same
    BY <1>0 DEF UpdateRelationVectors, DeleteTasks
  <2>5. graph' = graph
    BY DEF DeleteEntityVector, UpdateEntityVectors, DeleteRelationVectors, UpdateRelationVectors
  <2>6. Same
    <3>. HIDE DEF Same
    <3>. QED BY <2>1, <2>2, <2>3, <2>4
  <2>. QED BY <2>5, <2>6
<1>2. \A i \in Items :
        /\ t.kept[i] \cap t.chunks = {} /\ t.vkept[i] \cap t.chunks = {}
        /\ vectors[i] \cap t.chunks # {} => VectorLeft(t, i)
        /\ graph[i] \cap t.chunks # {} => GraphLeft(t, i)
  BY DEF SweptTask
<1>3. ASSUME \A i \in Items : vectors'[i] \cap t.chunks # {} => VectorLeft(u, i),
             \A i \in Items : graph[i] \cap t.chunks # {} => GraphLeft(u, i)
      PROVE SweptTask(u, graph', vectors')
  <2>. HIDE DEF t, u
  <2>. QED BY <1>1, <1>2, <1>3 DEF SweptTask
<1>4. ASSUME NEW items, WriteVectors(d, items), NEW i \in Items, vectors'[i] \cap t.chunks # {}
      PROVE i \notin items /\ vectors[i] \cap t.chunks # {}
  <2>1. vectors'[i] = IF i \in items THEN t.vkept[i] ELSE vectors[i]
    BY <1>4 DEF WriteVectors
  <2>. HIDE DEF t
  <2>. QED BY <1>2, <1>4, <2>1
<1>5. ASSUME NEW e \in Entities, DeleteEntityVector(d, e) PROVE SweptTask(u, graph', vectors')
  <2>1. u.step = "labels" /\ t.step = "labels" /\ u.vgone = t.vgone \ {e}
    BY <1>0, <1>5 DEF DeleteEntityVector, DeleteTasks
  <2>2. \A i \in Items : vectors'[i] = IF i = e THEN {} ELSE vectors[i]
    BY <1>5 DEF DeleteEntityVector, Note, TypeOK
  <2>3. ASSUME NEW i \in Items, i # e, i \in PlannedVectors(t) PROVE i \in PlannedVectors(u)
    BY <1>1, <2>1, <2>3 DEF PlannedVectors
  <2>4. Planned(u) = Planned(t)
    BY <1>1 DEF Planned
  <2>. HIDE DEF t, u
  <2>5. \A i \in Items : vectors'[i] \cap t.chunks # {} => VectorLeft(u, i)
    BY <1>2, <2>1, <2>2, <2>3 DEF VectorLeft
  <2>6. \A i \in Items : graph[i] \cap t.chunks # {} => GraphLeft(u, i)
    BY <1>1, <1>2, <2>1, <2>4 DEF GraphLeft
  <2>. QED BY <1>3, <2>5, <2>6
<1>6. CASE UpdateEntityVectors(d)
  <2>1. /\ u.step = "entity_vectors" /\ t.step = "labels" /\ u.vgone = t.vgone /\ t.left = {}
        /\ t.vgone \cap Entities = {} /\ WriteVectors(d, Present(t.vkept) \cap Entities)
    BY <1>0, <1>6 DEF UpdateEntityVectors, DeleteTasks
  <2>2. Planned(u) = Planned(t) /\ PlannedVectors(u) = PlannedVectors(t)
    BY <1>1, <2>1 DEF Planned, PlannedVectors
  <2>3. ASSUME NEW i \in Items, vectors'[i] \cap t.chunks # {} PROVE VectorLeft(u, i)
    <3>1. i \notin Present(t.vkept) \cap Entities /\ vectors[i] \cap t.chunks # {}
      BY <1>4, <2>1, <2>3
    <3>. HIDE DEF t, u
    <3>2. i \in PlannedVectors(t)
      BY <1>2, <2>1, <3>1 DEF VectorLeft
    <3>. QED BY <1>0, <2>1, <2>2, <3>1, <3>2 DEF VectorLeft, PlannedVectors
  <2>4. ASSUME NEW i \in Items, graph[i] \cap t.chunks # {} PROVE GraphLeft(u, i)
    <3>. HIDE DEF t, u
    <3>1. i \in Planned(t) \/ (i \in Relations /\ EndsOf(i) \subseteq {})
      BY <1>2, <2>1, <2>4 DEF GraphLeft
    <3>2. i \in Planned(t)
      BY <3>1, EndsAreEntities
    <3>. QED BY <2>1, <2>2, <3>2 DEF GraphLeft
  <2>. QED BY <1>3, <2>3, <2>4
<1>7. CASE DeleteRelationVectors(d)
  <2>1. u.step = "relation_vectors" /\ t.step = "entity_vectors" /\ WriteVectors(d, t.vgone)
    BY <1>0, <1>7 DEF DeleteRelationVectors, DeleteTasks
  <2>2. Planned(u) = Planned(t)
    BY <1>1 DEF Planned
  <2>3. ASSUME NEW i \in Items, vectors'[i] \cap t.chunks # {} PROVE VectorLeft(u, i)
    <3>1. i \notin t.vgone /\ vectors[i] \cap t.chunks # {}
      BY <1>4, <2>1, <2>3
    <3>. HIDE DEF t, u
    <3>2. i \in Relations \cap PlannedVectors(t)
      BY <1>2, <2>1, <3>1 DEF VectorLeft
    <3>. QED BY <1>1, <2>1, <3>1, <3>2 DEF VectorLeft, PlannedVectors
  <2>. HIDE DEF t, u
  <2>4. \A i \in Items : graph[i] \cap t.chunks # {} => GraphLeft(u, i)
    BY <1>2, <2>1, <2>2 DEF GraphLeft
  <2>. QED BY <1>3, <2>3, <2>4 DEF u
<1>8. CASE UpdateRelationVectors(d)
  <2>1. /\ u.step = "vectors" /\ t.step = "relation_vectors"
        /\ WriteVectors(d, Present(t.vkept) \cap Relations)
    BY <1>0, <1>8 DEF UpdateRelationVectors, DeleteTasks
  <2>2. Planned(u) = Planned(t)
    BY <1>1 DEF Planned
  <2>3. ASSUME NEW i \in Items, vectors'[i] \cap t.chunks # {} PROVE VectorLeft(u, i)
    <3>1. i \notin Present(t.vkept) \cap Relations /\ vectors[i] \cap t.chunks # {}
      BY <1>4, <2>1, <2>3
    <3>. HIDE DEF t, u
    <3>. QED BY <1>2, <2>1, <3>1 DEF VectorLeft
  <2>. HIDE DEF t, u
  <2>4. \A i \in Items : graph[i] \cap t.chunks # {} => GraphLeft(u, i)
    BY <1>2, <2>1, <2>2 DEF GraphLeft
  <2>. QED BY <1>3, <2>3, <2>4 DEF u
<1>. QED BY <1>5, <1>6, <1>7, <1>8

\* The writes to the graph, and the end of the deletion.
LEMMA SweptGraph ==
  ASSUME TypeOK, Rewrites, NEW d \in Docs,
         SweptTask(deleter[d], graph, vectors),
         \/ RemoveNodes(d) \/ RemoveEdges(d) \/ RewriteKept(d)
         \/ \E i \in Items : FindKept(d, i)
         \/ DeleteChunks(d) \/ DeleteFails(d)
  PROVE SweptTask(deleter'[d], graph', vectors')
<1> DEFINE t == deleter[d]
           u == deleter'[d]
<1>0. /\ t \in DeleteTasks /\ deleter \in [Docs -> DeleteTasks]
      /\ Items = Entities \cup Relations /\ Entities \cap Relations = {}
      /\ RewriteTask(t) /\ NoItem \notin Items
  BY TaskTypes, RelationsHaveEnds DEF Rewrites, TypeOK, Items
<1>1. vectors' = vectors
  BY DEF RemoveNodes, RemoveEdges, RewriteKept, FindKept, DeleteChunks, DeleteFails, store
<1>2. \A i \in Items :
        /\ t.kept[i] \cap t.chunks = {} /\ t.vkept[i] \cap t.chunks = {}
        /\ vectors[i] \cap t.chunks # {} => VectorLeft(t, i)
        /\ graph[i] \cap t.chunks # {} => GraphLeft(t, i)
  BY DEF SweptTask
<1>3. ASSUME t.step \in {"vectors", "nodes", "edges"}, u.step \in {"nodes", "edges"},
             u.chunks = t.chunks, u.kept = t.kept, u.vkept = t.vkept,
             \A i \in Items : graph'[i] \cap t.chunks # {} => GraphLeft(u, i)
      PROVE SweptTask(u, graph', vectors')
  <2>. HIDE DEF t, u
  <2>1. \A i \in Items : vectors[i] \cap t.chunks = {}
    <3>1. t.step = "vectors" => \A i \in Items : ~ VectorLeft(t, i)
      BY DEF VectorLeft
    <3>2. t.step \in {"nodes", "edges"} => \A i \in Items : ~ VectorLeft(t, i)
      BY DEF VectorLeft
    <3>. QED BY <1>2, <1>3, <3>1, <3>2
  <2>. QED BY <1>1, <1>2, <1>3, <2>1 DEF SweptTask
<1>4. ASSUME u.chunks = {}, \A i \in Items : u.kept[i] = {} /\ u.vkept[i] = {}
      PROVE SweptTask(u, graph', vectors')
  <2>. HIDE DEF u
  <2>. QED BY <1>4 DEF SweptTask
<1>5. CASE RemoveNodes(d)
  <2>1. /\ u.step = "nodes" /\ t.step = "vectors" /\ u.left = Present(t.kept) \cap Entities
        /\ u.chunks = t.chunks /\ u.kept = t.kept /\ u.vkept = t.vkept /\ u.gone = t.gone
        /\ \A i \in Items : graph'[i] = IF i \in WithEdges(t.gone \cap Entities) THEN {} ELSE graph[i]
    BY <1>0, <1>5 DEF RemoveNodes, DeleteTasks
  <2>2. Planned(u) = Planned(t)
    BY <2>1 DEF Planned
  <2>3. ASSUME NEW i \in Items, graph'[i] \cap t.chunks # {} PROVE GraphLeft(u, i)
    <3>. HIDE DEF t, u
    <3>1. graph[i] \cap t.chunks # {} /\ i \notin t.gone \cap Entities
      BY <2>1, <2>3 DEF WithEdges
    <3>2. i \in Planned(t)
      BY <1>2, <2>1, <3>1 DEF GraphLeft
    <3>. QED BY <1>0, <2>1, <2>2, <3>1, <3>2 DEF GraphLeft, Planned
  <2>. HIDE DEF t, u
  <2>. QED BY <1>3, <2>1, <2>3 DEF u
<1>6. CASE RemoveEdges(d)
  <2>1. /\ u.step = "edges" /\ t.step = "nodes" /\ u.left = Present(t.kept) \cap Relations
        /\ u.chunks = t.chunks /\ u.kept = t.kept /\ u.vkept = t.vkept /\ u.gone = t.gone
        /\ t.left = {} /\ t.item = NoItem
        /\ \A i \in Items : graph'[i] = IF i \in t.gone \cap Relations THEN {} ELSE graph[i]
    BY <1>0, <1>6 DEF RemoveEdges, DeleteTasks
  <2>3. ASSUME NEW i \in Items, graph'[i] \cap t.chunks # {} PROVE GraphLeft(u, i)
    <3>. HIDE DEF t, u
    <3>1. graph[i] \cap t.chunks # {} /\ i \notin t.gone \cap Relations
      BY <2>1, <2>3
    <3>2. i \in Relations \cap Planned(t)
      BY <1>0, <1>2, <2>1, <3>1 DEF GraphLeft
    <3>. QED BY <2>1, <3>1, <3>2 DEF GraphLeft, Planned
  <2>. HIDE DEF t, u
  <2>. QED BY <1>3, <2>1, <2>3 DEF u
<1>7. ASSUME NEW j \in Items, FindKept(d, j) PROVE SweptTask(u, graph', vectors')
  <2>1. /\ u.step = t.step /\ t.step \in {"nodes", "edges"} /\ u.left = t.left \ {j} /\ t.item = NoItem
        /\ u.item = (IF graph[j] = {} THEN NoItem ELSE j)
        /\ u.chunks = t.chunks /\ u.kept = t.kept /\ u.vkept = t.vkept /\ u.gone = t.gone
        /\ graph' = graph
    BY <1>0, <1>7 DEF FindKept, DeleteTasks, store
  <2>2. Planned(u) = Planned(t)
    BY <2>1 DEF Planned
  <2>3. ASSUME NEW i \in Items, graph'[i] \cap t.chunks # {} PROVE GraphLeft(u, i)
    <3>. HIDE DEF t, u
    <3>. QED BY <1>0, <1>2, <2>1, <2>2, <2>3 DEF GraphLeft
  <2>. HIDE DEF t, u
  <2>. QED BY <1>3, <2>1, <2>3
<1>8. CASE RewriteKept(d)
  <2>1. /\ u.step = t.step /\ t.step \in {"nodes", "edges"} /\ u.left = t.left /\ u.item = NoItem
        /\ u.chunks = t.chunks /\ u.kept = t.kept /\ u.vkept = t.vkept /\ u.gone = t.gone
        /\ \A i \in Items : graph'[i] = IF i = t.item THEN t.kept[i] ELSE graph[i]
    BY <1>0, <1>8 DEF RewriteKept, DeleteTasks, TypeOK
  <2>2. Planned(u) = Planned(t)
    BY <2>1 DEF Planned
  <2>3. ASSUME NEW i \in Items, graph'[i] \cap t.chunks # {} PROVE GraphLeft(u, i)
    <3>. HIDE DEF t, u
    <3>1. i # t.item /\ graph[i] \cap t.chunks # {}
      BY <1>2, <2>1, <2>3
    <3>. QED BY <1>2, <2>1, <2>2, <3>1 DEF GraphLeft
  <2>. HIDE DEF t, u
  <2>. QED BY <1>3, <2>1, <2>3 DEF u
<1>9. Forgotten(t) \in DeleteTasks /\ Forgotten(t).chunks = {} /\ Forgotten(t).kept = Nothing
      /\ Forgotten(t).vkept = Nothing
  BY <1>0 DEF Forgotten, DeleteTasks, Nothing
<1>10. CASE DeleteChunks(d)
  <2>1. u = [Forgotten(t) EXCEPT !.step = "deleted"]
    BY <1>0, <1>10 DEF DeleteChunks
  <2>2. u.chunks = {} /\ u.kept = Nothing /\ u.vkept = Nothing
    BY <1>9, <2>1 DEF DeleteTasks
  <2>. QED BY <1>4, <2>2 DEF Nothing
<1>11. CASE DeleteFails(d)
  <2>1. u = AfterFailure(Forgotten(t))
    BY <1>0, <1>11 DEF DeleteFails
  <2>2. u.chunks = {} /\ u.kept = Nothing /\ u.vkept = Nothing
    BY <1>9, <2>1 DEF AfterFailure, DeleteTasks
  <2>. QED BY <1>4, <2>2 DEF Nothing
<1>. QED BY <1>5, <1>6, <1>7, <1>8, <1>10, <1>11

\* A deletion removes the rows of its chunks when nothing names them.
LEMMA RemovesUnnamed ==
  ASSUME Base, NEW d \in Docs, DeleteChunks(d), SweptTask(deleter[d], graph, vectors),
         NEW i \in Items
  PROVE (graph[i] \cup vectors[i]) \cap deleter[d].chunks = {}
<1> DEFINE t == deleter[d]
<1>1. t.step = "edges" /\ t.left = {} /\ t.item = NoItem /\ NoItem \notin Items
  BY RelationsHaveEnds DEF DeleteChunks
<1>2. ~ VectorLeft(t, i) /\ ~ GraphLeft(t, i)
  BY <1>1 DEF VectorLeft, GraphLeft
<1>3. /\ vectors[i] \cap t.chunks # {} => VectorLeft(t, i)
      /\ graph[i] \cap t.chunks # {} => GraphLeft(t, i)
  BY DEF SweptTask
<1>. QED BY <1>2, <1>3

\* Deleting keeps the sources stored, and its own way.
LEMMA SweptDelete ==
  ASSUME Earlier, Swept, NEW d \in Docs, DeleteStep(d), mishaps \subseteq mishaps'
  PROVE Swept'
<1> USE DEF Earlier, Base
<1> SUFFICES ASSUME mishaps' = {}
             PROVE /\ Stored'
                   /\ \A x \in Docs : WorkingDoc(x)' /\ Resting(x)'
                   /\ \A x \in Docs : SweptTask(deleter'[x], graph', vectors')
  BY DEF Swept
<1>0. /\ mishaps = {} /\ indexer' = indexer /\ Stored /\ NoDoc \notin Docs
      /\ \A x \in Docs : WorkingDoc(x) /\ Resting(x) /\ SweptTask(deleter[x], graph, vectors) /\ OwnedDoc(x)
  BY Apart, RelationsHaveEnds DEF Swept, Clean
<1>1. PICK t \in DeleteTasks :
        /\ deleter' = [deleter EXCEPT ![d] = t]
        /\ t.step # "idle"
        /\ ReadChunks(d) \/ t.chunks \subseteq deleter[d].chunks
  BY <1>0, DeletionKeeps
<1>2. deleter'[d] = t /\ \A x \in Docs : x # d => deleter'[x] = deleter[x]
  BY <1>1 DEF TypeOK
<1>3. \A i \in Items : graph'[i] \subseteq graph[i] /\ vectors'[i] \subseteq vectors[i]
  BY DeletionTakes
<1>4. ASSUME NEW c \in Chunks, ~ (DeleteChunks(d) /\ c \in deleter[d].chunks) PROVE owner'[c] = owner[c]
  BY <1>4 DEF DeleteStep, ReadChunks, ScanEntityVectors, ScanRelationVectors, GetAllLabels, ScanNode,
    DeleteEntityVector, ScanEdges, UpdateEntityVectors, DeleteRelationVectors, UpdateRelationVectors,
    RemoveNodes, RemoveEdges, FindKept, RewriteKept, DeleteChunks, DeleteFails, store
<1>5. Stored'
  <2> SUFFICES ASSUME NEW i \in Items, NEW c \in graph'[i] \cup vectors'[i] PROVE owner'[c] # NoDoc
    BY DEF Stored
  <2>1. c \in graph[i] \cup vectors[i] /\ c \in Chunks
    BY <1>3 DEF TypeOK
  <2>2. owner[c] # NoDoc
    BY <1>0, <2>1 DEF Stored
  <2>3. ~ (DeleteChunks(d) /\ c \in deleter[d].chunks)
    BY <1>0, <2>1, RemovesUnnamed
  <2>. QED BY <1>4, <2>1, <2>2, <2>3
<1>6. ASSUME NEW x \in Docs PROVE WorkingDoc(x)'
  <2>1. /\ \A i \in Items : indexer[x].found[i] \subseteq Chunks
        /\ ChunksOf[indexer[x].text] \subseteq Chunks
    BY TaskTypes, TextsHaveChunks DEF IndexTasks
  <2>2. CASE x = d /\ deleter[d].chunks # {}
    <3>1. ~ AtWork(indexer[x])
      BY <1>0, <2>2 DEF Resting
    <3>. QED BY <1>0, <3>1 DEF WorkingDoc, AtWork, Merging
  <2>3. CASE x # d \/ deleter[d].chunks = {}
    <3>1. \A c \in Chunks : owner[c] = x => owner'[c] = x
      BY <1>0, <1>4, <2>3 DEF OwnedDoc
    <3>. QED BY <1>0, <2>1, <3>1 DEF WorkingDoc
  <2>. QED BY <2>2, <2>3
<1>7. ASSUME NEW x \in Docs PROVE Resting(x)'
  <2>1. CASE x # d
    BY <1>0, <1>2, <2>1 DEF Resting, Deleted
  <2>2. CASE x = d /\ ReadChunks(d)
    BY <1>0, <1>1, <1>2, <2>2 DEF ReadChunks, Note, Resting, Deleted, AtWork
  <2>3. CASE x = d /\ t.chunks \subseteq deleter[d].chunks
    BY <1>0, <1>1, <1>2, <2>3 DEF Resting, Deleted
  <2>. QED BY <1>1, <2>1, <2>2, <2>3
<1>8. ASSUME NEW x \in Docs PROVE SweptTask(deleter'[x], graph', vectors')
  <2>1. CASE x # d
    <3>1. SweptTask(deleter[x], graph', vectors')
      BY <1>0, <1>3, SweptFrame
    <3>. QED BY <1>2, <2>1, <3>1
  <2>2. CASE x = d
    BY <1>0, <2>2, SweptScan, SweptVectors, SweptGraph DEF DeleteStep
  <2>. QED BY <2>1, <2>2
<1>. QED BY <1>5, <1>6, <1>7, <1>8

\* Between the steps of any number of deletions, retries and merges included,
\* what the graph and the vectors name is stored: adelete_by_doc_id deletes
\* the chunks of a document after everything that names them, from a scan
\* that finds an edge at either end.
THEOREM StoredStays == Spec => []SourcesAreStored
<1>1. Init => Swept
  <2> SUFFICES ASSUME Init PROVE Swept
    OBVIOUS
  <2>1. \A i \in Items : graph[i] = {} /\ vectors[i] = {}
    BY DEF Init, Nothing
  <2>2. \A d \in Docs : /\ indexer[d].step = "idle" /\ deleter[d].chunks = {}
                        /\ \A i \in Items : deleter[d].kept[i] = {} /\ deleter[d].vkept[i] = {}
    BY DEF Init, Nothing
  <2>. QED BY <2>1, <2>2 DEF Swept, Stored, WorkingDoc, Resting, SweptTask, Merging
<1>2. Earlier /\ Swept /\ [Next]_vars => Swept'
  <2> SUFFICES ASSUME Earlier, Swept, [Next]_vars PROVE Swept'
    OBVIOUS
  <2> USE DEF Earlier, Base
  <2>0. mishaps \subseteq mishaps'
    BY MishapsStay
  <2>1. ASSUME NEW d \in Docs, RequestStep(d) PROVE Swept'
    <3>1. store' = store /\ mishaps' = mishaps
      BY <2>1, Requests
    <3> SUFFICES ASSUME mishaps = {} PROVE Swept'
      BY <3>1 DEF Swept
    <3>2. \A x \in Docs : WorkingDoc(x) /\ Resting(x) /\ SweptTask(deleter[x], graph, vectors)
      BY DEF Swept
    <3>3. indexer'[d].step = "queued" \/ indexer' = indexer
      <4>1. CASE RequestIndex(d)
        BY <4>1, TaskTypes DEF RequestIndex, TypeOK, IndexTasks
      <4>2. CASE RequestUpdate(d)
        BY <4>2, TaskTypes DEF RequestUpdate, TypeOK, IndexTasks
      <4>3. CASE RequestDelete(d)
        BY <4>3 DEF RequestDelete
      <4>. QED BY <2>1, <4>1, <4>2, <4>3 DEF RequestStep
    <3>4. ASSUME NEW x \in Docs PROVE WorkingDoc(x)'
      <4>1. indexer'[x].step = "queued" \/ indexer'[x] = indexer[x]
        BY <2>1, <3>3, OwnTask
      <4>. QED BY <3>1, <3>2, <4>1 DEF WorkingDoc, store, Merging
    <3>5. ASSUME NEW x \in Docs PROVE SweptTask(deleter'[x], graph', vectors')
      <4>1. CASE RequestDelete(d) /\ x = d
        <5>1. /\ deleter'[d].kept = deleter[d].kept /\ deleter'[d].vkept = deleter[d].vkept
              /\ deleter'[d].chunks = deleter[d].chunks /\ deleter[d].step = "idle"
              /\ deleter'[d].step = "queued"
          BY <4>1, TaskTypes DEF RequestDelete, Deleted, TypeOK, DeleteTasks
        <5>2. deleter[d].chunks = {}
          BY <3>2, <5>1 DEF Resting, Deleted
        <5>. QED BY <3>2, <4>1, <5>1, <5>2 DEF SweptTask
      <4>2. CASE deleter'[x] = deleter[x]
        BY <3>1, <3>2, <4>2 DEF store
      <4>3. RequestDelete(d) /\ x # d => deleter'[x] = deleter[x]
        BY DEF RequestDelete, TypeOK
      <4>. QED BY <2>1, <4>1, <4>2, <4>3 DEF RequestStep, RequestIndex, RequestUpdate
    <3>6. \A x \in Docs : Resting(x)'
      BY <2>1, <3>2, RestingIndex
    <3>7. Stored'
      BY <3>1 DEF Swept, Stored, store
    <3>. QED BY <3>4, <3>5, <3>6, <3>7 DEF Swept
  <2>2. CASE UNCHANGED vars
    <3>1. graph' = graph /\ vectors' = vectors /\ indexer' = indexer /\ deleter' = deleter /\ owner' = owner
          /\ mishaps' = mishaps
      BY <2>2 DEF vars
    <3>2. /\ Stored' = Stored
          /\ \A x \in Docs : WorkingDoc(x)' = WorkingDoc(x) /\ Resting(x)' = Resting(x)
      BY <3>1 DEF Stored, WorkingDoc, Resting, Deleted
    <3>. QED BY <3>1, <3>2 DEF Swept
  <2>3. ASSUME NEW d \in Docs, IndexStep(d) PROVE Swept'
    BY <2>0, <2>3, SweptIndex
  <2>4. ASSUME NEW d \in Docs, DeleteStep(d) PROVE Swept'
    BY <2>0, <2>4, SweptDelete
  <2>. QED BY <2>1, <2>2, <2>3, <2>4 DEF Next
<1>3. Swept => SourcesAreStored
  BY DEF Swept, Stored, SourcesAreStored
<1>4. Spec => []Earlier
  BY EndsInvariant, CleanInvariant, PTL DEF Earlier
<1>. QED BY <1>1, <1>2, <1>3, <1>4, PTL DEF Spec
=============================================================================
