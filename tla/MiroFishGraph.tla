--------------------------- MODULE MiroFishGraph ---------------------------
(***************************************************************************)
(* The knowledge graph of one collection that uses the MiroFish engine.    *)
(* Its revision, its status and the graph it serves are fields of the JSON *)
(* config of the collection row.  A request that confirmed documents       *)
(* raises the revision and sends a build task for it; the build writes a   *)
(* graph of its own, named after the revision, and makes it the active one *)
(* unless a newer revision was asked for.  Requests, builds and the form   *)
(* of the user read the whole config and write the whole config back,      *)
(* without a lock.                                                         *)
(***************************************************************************)
EXTENDS Naturals, FiniteSets

CONSTANTS Requests,     \* confirmations; each confirms the document of its name
          MaxRetries,   \* retry_kwargs of the build task
          SelfRetries,  \* Task.max_retries, which the task compares with
          MaxRedeliveries,  \* bound
          NoGraph, Unread

ASSUME RetriesAssumption == MaxRetries \in Nat /\ SelfRetries \in Nat
ASSUME RequestsAssumption == IsFiniteSet(Requests)
ASSUME GraphsAssumption == \A documents \in SUBSET Requests : documents # NoGraph

Revisions == 1 .. Cardinality(Requests)
Deliveries == {1, 2}
Executions == Requests \X Deliveries

GraphStatus == {"waiting", "building", "updating", "ready", "failed"}
Config == [revision : Nat, status : GraphStatus, active : Nat]

RequestSteps == {"idle", "confirmed", "read", "prepared", "ended"}
BuildSteps == {"none", "queued", "cleared", "persisted", "stale",
               "finalizing", "ended"}
Mishaps == {"lost_write", "redelivered", "gave_up", "died"}

VARIABLES
  config,     \* the graph fields of collection.config
  deleted,    \* the collection has status DELETED
  confirmed,  \* documents past UPLOADED
  request,    \* the confirmation requests
  build,      \* the executions of build tasks
  failing,    \* calls of handle_build_failure that go on
  graph,      \* Neo4j: the documents whose chunks the graph of a revision has
  wanted,     \* history: the documents confirmed when a revision was asked for
  skipped,    \* history: those the latest build of a revision could not read
  mishaps     \* history: what went wrong so far

vars == <<config, deleted, confirmed, request, build, failing, graph,
          wanted, skipped, mishaps>>

NewConfig == [revision |-> 0, status |-> "waiting", active |-> 0]
NoBuild == [step |-> "none", revision |-> 0, retries |-> 0, documents |-> {},
            seen |-> NewConfig]

Init ==
  /\ config = NewConfig
  /\ deleted = FALSE
  /\ confirmed = {}
  /\ request = [q \in Requests |-> [step |-> "idle", revision |-> 0,
                                    seen |-> NewConfig]]
  /\ build = [e \in Executions |-> NoBuild]
  /\ failing = {}
  /\ graph = [r \in Revisions |-> NoGraph]
  /\ wanted = [r \in Revisions |-> {}]
  /\ skipped = [r \in Revisions |-> {}]
  /\ mishaps = {}

\* A write of a config that was read before another writer committed.
WriteConfig(new, seen) ==
  /\ config' = new
  /\ mishaps' = mishaps \cup (IF seen # config THEN {"lost_write"} ELSE {})

StaleByTwo(revision, current) == revision + 1 < current.revision   \* mutant

Stale(revision, current) == revision < current.revision

\* handle_build_failure is called.
RecordFailure(revision) ==
  failing' = failing \cup {[revision |-> revision, seen |-> Unread]}

-----------------------------------------------------------------------------
(* A request: DocumentService.confirm_documents after its transaction. *)

ConfirmDocuments(q) ==
  /\ request[q].step = "idle"
  /\ ~ deleted
  /\ confirmed' = confirmed \cup {q}
  /\ request' = [request EXCEPT ![q].step = "confirmed"]
  /\ UNCHANGED <<config, deleted, build, failing, graph, wanted, skipped, mishaps>>

\* prepare_graph_build: the SELECT, which raises if the collection is gone.
PrepareRead(q) ==
  /\ request[q].step = "confirmed"
  /\ request' = [request EXCEPT ![q].step = IF deleted THEN "ended" ELSE "read",
                                ![q].seen = config]
  /\ UNCHANGED <<config, deleted, confirmed, build, failing, graph, wanted, skipped, mishaps>>

\* mutant: an update builds in place
ReusesRevision(current) ==
  IF current.active = 0 THEN current.revision + 1 ELSE current.revision

NextRevision(current) == current.revision + 1

NextStatus(current) ==
  IF current.revision = 0 /\ current.active = 0 THEN "building" ELSE "updating"

\* prepare_graph_build: the flush of the config and the commit.
PrepareWrite(q) ==
  LET seen == request[q].seen
      next == NextRevision(seen)
  IN /\ request[q].step = "read"
     /\ WriteConfig([seen EXCEPT !.revision = next, !.status = NextStatus(seen)],
                    seen)
     /\ request' = [request EXCEPT ![q].step = "prepared", ![q].revision = next]
     /\ wanted' = [wanted EXCEPT ![next] = @ \cup confirmed]
     /\ UNCHANGED <<deleted, confirmed, build, failing, graph, skipped>>

SendBuild(q) ==
  /\ request[q].step = "prepared"
  /\ request' = [request EXCEPT ![q].step = "ended"]
  /\ build' = [build EXCEPT ![<<q, 1>>] =
                 [NoBuild EXCEPT !.step = "queued", !.revision = request[q].revision]]
  /\ UNCHANGED <<config, deleted, confirmed, failing, graph, wanted, skipped, mishaps>>

\* apply_async raises: the request records the failure itself.
SendFails(q) ==
  /\ request[q].step = "prepared"
  /\ request' = [request EXCEPT ![q].step = "ended"]
  /\ RecordFailure(request[q].revision)
  /\ UNCHANGED <<config, deleted, confirmed, build, graph, wanted, skipped, mishaps>>

RequestDies(q) ==
  /\ request[q].step \notin {"idle", "ended"}
  /\ request' = [request EXCEPT ![q].step = "ended"]
  /\ mishaps' = mishaps \cup {"died"}
  /\ UNCHANGED <<config, deleted, confirmed, build, failing, graph, wanted, skipped>>

-----------------------------------------------------------------------------
(* handle_build_failure, called by a request that could not send its build  *)
(* and by a build that gives up.                                           *)

\* _finalize_failure: the row is read and the revision compared.
FailureRead(f) ==
  /\ f.seen = Unread
  /\ failing' = (failing \ {f}) \cup
                  (IF deleted \/ Stale(f.revision, config) THEN {}
                   ELSE {[f EXCEPT !.seen = config]})
  /\ UNCHANGED <<config, deleted, confirmed, request, build, graph, wanted, skipped, mishaps>>

FailureWrite(f) ==
  /\ f.seen # Unread
  /\ WriteConfig([f.seen EXCEPT !.status = "failed"], f.seen)
  /\ failing' = failing \ {f}
  /\ UNCHANGED <<deleted, confirmed, request, build, graph, wanted, skipped>>

-----------------------------------------------------------------------------
(* A build: mirofish_collection_graph_task. *)

\* An exception: Celery queues the task again as long as retry_kwargs allow
\* it; the task itself records the failure only at its own max_retries.
GivesUp(b) == b.retries >= MaxRetries
RecordsFailure(b) == GivesUp(b) /\ b.retries >= SelfRetries

NeverRequeued(b) == [b EXCEPT !.step = "ended"]   \* mutant

AfterFailure(b) ==
  IF GivesUp(b) THEN [b EXCEPT !.step = "ended"]
                ELSE [b EXCEPT !.step = "queued", !.retries = @ + 1]

Raise(e) ==
  /\ build' = [build EXCEPT ![e] = AfterFailure(@)]
  /\ IF RecordsFailure(build[e]) THEN RecordFailure(build[e].revision)
                                 ELSE UNCHANGED failing
  /\ mishaps' = IF GivesUp(build[e]) /\ ~ RecordsFailure(build[e])
                THEN mishaps \cup {"gave_up"} ELSE mishaps

\* A document that has no text or cannot be parsed is skipped, with a
\* warning at most; a build needs one that is not.
CollectDocumentTexts == SUBSET confirmed \ {{}}

\* The collection and its confirmed documents are read, the ontology is
\* generated, and the graph of the revision is deleted and created anew.
StartBuild(e) ==
  LET b == build[e]
  IN /\ b.step = "queued"
     /\ ~ deleted
     /\ \E documents \in CollectDocumentTexts :
          /\ build' = [build EXCEPT ![e].step = "cleared", ![e].documents = documents]
          /\ skipped' = [skipped EXCEPT ![b.revision] = confirmed \ documents]
     /\ graph' = [graph EXCEPT ![b.revision] = {}]
     /\ UNCHANGED <<config, deleted, confirmed, request, failing, wanted, mishaps>>

StartFails(e) ==
  /\ build[e].step = "queued"
  /\ Raise(e)
  /\ UNCHANGED <<config, deleted, confirmed, request, graph, wanted, skipped>>

\* Chunks are merged into the graph node, if it is still there.
WithChunks(contents, documents) ==
  IF contents = NoGraph THEN NoGraph ELSE contents \cup documents

PersistChunks(e) ==
  LET b == build[e]
  IN /\ b.step = "cleared"
     /\ graph' = [graph EXCEPT ![b.revision] = WithChunks(@, b.documents)]
     /\ build' = [build EXCEPT ![e].step = "persisted"]
     /\ UNCHANGED <<config, deleted, confirmed, request, failing, wanted, skipped, mishaps>>

\* A chunk fails after those of some documents were written.
PersistFails(e) ==
  LET b == build[e]
  IN /\ b.step = "cleared"
     /\ \E some \in SUBSET b.documents :
          graph' = [graph EXCEPT ![b.revision] = WithChunks(@, some)]
     /\ Raise(e)
     /\ UNCHANGED <<config, deleted, confirmed, request, wanted, skipped>>

\* _finalize_success: the row is read and the revision compared.
FinalizeRead(e) ==
  LET b == build[e]
  IN /\ b.step = "persisted"
     /\ build' = [build EXCEPT
                    ![e].step = IF deleted \/ Stale(b.revision, config)
                                THEN "stale" ELSE "finalizing",
                    ![e].seen = config]
     /\ UNCHANGED <<config, deleted, confirmed, request, failing, graph, wanted, skipped, mishaps>>

FinalizeWrite(e) ==
  LET b == build[e]
  IN /\ b.step = "finalizing"
     /\ WriteConfig([b.seen EXCEPT !.status = "ready", !.active = b.revision], b.seen)
     /\ build' = [build EXCEPT ![e].step = "ended"]
     /\ UNCHANGED <<deleted, confirmed, request, failing, graph, wanted, skipped>>

\* A stale build deletes the graph it built.
DropStaleGraph(e) ==
  /\ build[e].step = "stale"
  /\ graph' = [graph EXCEPT ![build[e].revision] = NoGraph]
  /\ build' = [build EXCEPT ![e].step = "ended"]
  /\ UNCHANGED <<config, deleted, confirmed, request, failing, wanted, skipped, mishaps>>

\* task_acks_late: a task that is not acknowledged is delivered again, while
\* its first execution goes on, or because its worker died.
Redelivered == {q \in Requests : build[<<q, 2>>].step # "none"}

Redeliver(q) ==
  LET first == <<q, 1>>
      again == <<q, 2>>
  IN /\ build[first].step \notin {"none", "queued"}
     /\ build[again].step = "none"
     /\ Cardinality(Redelivered) < MaxRedeliveries
     /\ \E died \in BOOLEAN :
          build' = [build EXCEPT
                      ![first].step = IF died THEN "ended" ELSE @,
                      ![again] = [NoBuild EXCEPT !.step = "queued",
                                    !.revision = build[first].revision,
                                    !.retries = build[first].retries]]
     /\ mishaps' = mishaps \cup {"redelivered"}
     /\ UNCHANGED <<config, deleted, confirmed, request, failing, graph, wanted, skipped>>

-----------------------------------------------------------------------------
(* The user: the form of a collection holds its whole config, as it was     *)
(* when the form was opened; a deletion writes the status only.            *)

\* Bound: the form was opened just now or when the collection was new.
Forms == {NewConfig, config}

UpdateCollection ==
  /\ ~ deleted
  /\ \E form \in Forms : WriteConfig(form, form)
  /\ UNCHANGED <<deleted, confirmed, request, build, failing, graph, wanted, skipped>>

DeleteCollection ==
  /\ ~ deleted
  /\ deleted' = TRUE
  /\ UNCHANGED <<config, confirmed, request, build, failing, graph, wanted, skipped, mishaps>>

-----------------------------------------------------------------------------
RequestStep(q) ==
  \/ PrepareRead(q)
  \/ PrepareWrite(q)
  \/ SendBuild(q)
  \/ SendFails(q)

BuildStep(e) ==
  \/ StartBuild(e)
  \/ StartFails(e)
  \/ PersistChunks(e)
  \/ PersistFails(e)
  \/ FinalizeRead(e)
  \/ FinalizeWrite(e)
  \/ DropStaleGraph(e)

FailureStep == \E f \in failing : FailureRead(f) \/ FailureWrite(f)

Next ==
  \/ \E q \in Requests : ConfirmDocuments(q) \/ RequestStep(q) \/ RequestDies(q)
  \/ \E e \in Executions : BuildStep(e)
  \/ \E q \in Requests : Redeliver(q)
  \/ FailureStep
  \/ UpdateCollection
  \/ DeleteCollection

\* The API finishes its requests and the workers the tasks they were sent.
Spec == Init /\ [][Next]_vars
FairSpec == Spec /\ \A q \in Requests : WF_vars(RequestStep(q))
                 /\ \A e \in Executions : WF_vars(BuildStep(e))
                 /\ WF_vars(FailureStep)

-----------------------------------------------------------------------------
TypeOK ==
  /\ config \in Config
  /\ deleted \in BOOLEAN
  /\ confirmed \subseteq Requests
  /\ request \in [Requests -> [step : RequestSteps, revision : Nat, seen : Config]]
  /\ build \in [Executions -> [step : BuildSteps, revision : Nat,
                               retries : 0 .. MaxRetries,
                               documents : SUBSET Requests, seen : Config]]
  /\ failing \subseteq [revision : Nat, seen : Config \cup {Unread}]
  /\ graph \in [Revisions -> {NoGraph} \cup SUBSET Requests]
  /\ wanted \in [Revisions -> SUBSET Requests]
  /\ skipped \in [Revisions -> SUBSET Requests]
  /\ mishaps \subseteq Mishaps

\* As long as no write of the config was lost, a build never replaces the
\* graph of a newer revision by its own, and no revision is given out twice:
\* the comparison in _finalize_success.
NewestGraphWins ==
  [][ "lost_write" \notin mishaps' =>
        /\ config'.active >= config.active
        /\ config'.revision >= config.revision ]_vars

\* As long as no write was lost and no task was delivered twice, the graph
\* that is served exists and has all documents that were confirmed when it
\* was asked for, but for those that its own build could not read, whatever
\* builds fail, are retried, overtake each other or delete their graphs.
ServedGraphIsComplete ==
  (mishaps \cap {"lost_write", "redelivered"} = {} /\ config.active # 0) =>
    /\ graph[config.active] # NoGraph
    /\ wanted[config.active] \ skipped[config.active] \subseteq graph[config.active]

\* What the message of status failed promises: "Graph update failed. Existing
\* graph remains available."
FailureKeepsGraph ==
  (config.status = "failed" /\ config.active # 0 /\ ~ deleted) =>
    graph[config.active] # NoGraph

Served(d) ==
  /\ config.active # 0
  /\ graph[config.active] # NoGraph
  /\ d \in graph[config.active]

SkippedByServed(d) == config.active # 0 /\ d \in skipped[config.active]

\* A confirmed document gets into the graph that is served, or the user is
\* shown a failure, unless the build of that graph could not read it, which
\* nobody is told, or something went wrong that only the next confirmation
\* repairs: a crash, a lost write, a build that gave up.
DocumentsGetIntoGraph ==
  \A d \in Requests :
    d \in confirmed ~> \/ Served(d) \/ SkippedByServed(d)
                       \/ config.status = "failed" \/ deleted \/ mishaps # {}

\* A build that nobody works on is not shown as going on.
NoBuildIsForgotten ==
  (/\ \A q \in Requests : request[q].step \in {"idle", "ended"}
   /\ \A e \in Executions : build[e].step \in {"none", "ended"}
   /\ failing = {}
   /\ mishaps \subseteq {"gave_up"}
   /\ ~ deleted)
  => config.status \notin {"building", "updating"}
=============================================================================
