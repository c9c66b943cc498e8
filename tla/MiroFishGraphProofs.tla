------------------------- MODULE MiroFishGraphProofs -------------------------
(***************************************************************************)
(* For any requests, retries and redeliveries: while no write of the       *)
(* config is lost, the revision and the active graph only move forward;    *)
(* while no build is delivered twice either, the graph that is served has  *)
(* every document that was confirmed when its revision was asked for, but  *)
(* for those that its own build could not read.                            *)
(*                                                                         *)
(* A write that loses nothing finds the config it was computed from, so    *)
(* the requests hand out the revisions one after the other, and every      *)
(* build owns the graph of its revision: nobody else clears it, fills it   *)
(* or deletes it, and the build itself is over once the graph is active.   *)
(***************************************************************************)
EXTENDS MiroFishGraph, FiniteSetTheorems, TLAPS

ARequest == [step : RequestSteps, revision : Nat, seen : Config]
ABuild == [step : BuildSteps, revision : Nat, retries : 0 .. MaxRetries,
           documents : SUBSET Requests, seen : Config]

-----------------------------------------------------------------------------
(* The inductive invariant. *)

\* A build that will be made active was not older than the config it read.
Compared ==
  \A e \in Executions :
     build[e].step = "finalizing" => build[e].seen.revision <= build[e].revision

\* Nothing knows a revision that the config does not have yet.
Ordered ==
  "lost_write" \notin mishaps =>
    /\ config.active <= config.revision
    /\ \A q \in Requests : request[q].revision <= config.revision
    /\ \A e \in Executions : build[e].revision <= config.revision

Asked == {q \in Requests : request[q].revision # 0}

\* The graph of a build from the moment it is cleared until it is active.
Filled(b) ==
  /\ b.step \in {"cleared", "persisted", "finalizing"} =>
       /\ graph[b.revision] # NoGraph
       /\ wanted[b.revision] \ skipped[b.revision] \subseteq b.documents
  /\ b.step \in {"persisted", "finalizing"} => b.documents \subseteq graph[b.revision]

\* A request gets its revision when it writes the config, and its only
\* build works on that revision after the request is over.
OwnBuild(q) ==
  LET b == build[<<q, 1>>]
  IN /\ request[q].step \in {"idle", "confirmed", "read"} => request[q].revision = 0
     /\ request[q].step = "prepared" => request[q].revision # 0
     /\ build[<<q, 2>>].step = "none"
     /\ b.step # "none" => /\ request[q].step = "ended"
                           /\ b.revision = request[q].revision
                           /\ b.revision # 0
     /\ Filled(b)

\* The graph that is served was filled by a build that is over.
Complete(revision) ==
  /\ graph[revision] # NoGraph
  /\ wanted[revision] \ skipped[revision] \subseteq graph[revision]
  /\ \E q \in Requests : /\ build[<<q, 1>>].step = "ended"
                         /\ build[<<q, 1>>].revision = revision

Apart ==
  \A q, o \in Requests :
     request[q].revision # 0 /\ request[q].revision = request[o].revision => q = o

Calm == mishaps \cap {"lost_write", "redelivered"} = {}

Owned ==
  Calm => /\ config.revision <= Cardinality(Asked)
          /\ Apart
          /\ \A revision \in Revisions : wanted[revision] \subseteq confirmed
          /\ \A q \in Requests : OwnBuild(q)
          /\ config.active # 0 => Complete(config.active)

IInv == TypeOK /\ Compared /\ Ordered /\ Owned

-----------------------------------------------------------------------------
(* Types *)

LEMMA StatusNames ==
  /\ "waiting" \in GraphStatus /\ "building" \in GraphStatus /\ "updating" \in GraphStatus
  /\ "ready" \in GraphStatus /\ "failed" \in GraphStatus
  BY DEF GraphStatus

LEMMA FirstTypes ==
  /\ NewConfig \in Config /\ NewConfig.revision = 0 /\ NewConfig.active = 0
  /\ NoBuild \in ABuild /\ NoBuild.step = "none" /\ NoBuild.revision = 0
<1>1. NewConfig \in Config /\ NewConfig.revision = 0 /\ NewConfig.active = 0
  BY StatusNames DEF NewConfig, Config
<1>2. 0 \in 0 .. MaxRetries
  BY RetriesAssumption
<1> QED BY <1>1, <1>2 DEF NoBuild, ABuild, BuildSteps

\* What is changed in a config, a request or a build keeps its type.
LEMMA ConfigTypes ==
  ASSUME NEW c \in Config, NEW revision \in Nat, NEW status \in GraphStatus
  PROVE  /\ [c EXCEPT !.revision = revision, !.status = status] \in Config
         /\ [c EXCEPT !.status = status, !.active = revision] \in Config
         /\ [c EXCEPT !.status = status] \in Config
         /\ c.revision \in Nat /\ c.active \in Nat
  BY DEF Config

LEMMA RequestTypes ==
  ASSUME NEW q \in ARequest, NEW step \in RequestSteps, NEW revision \in Nat,
         NEW seen \in Config
  PROVE  /\ [q EXCEPT !.step = step] \in ARequest
         /\ [q EXCEPT !.step = step, !.seen = seen] \in ARequest
         /\ [q EXCEPT !.step = step, !.revision = revision] \in ARequest
         /\ q.revision \in Nat /\ q.seen \in Config
  BY DEF ARequest

LEMMA BuildTypes ==
  ASSUME NEW b \in ABuild, NEW step \in BuildSteps, NEW seen \in Config,
         NEW documents \in SUBSET Requests
  PROVE  /\ [b EXCEPT !.step = step] \in ABuild
         /\ [b EXCEPT !.step = step, !.seen = seen] \in ABuild
         /\ [b EXCEPT !.step = step, !.documents = documents] \in ABuild
         /\ b.revision \in Nat /\ b.seen \in Config /\ b.documents \in SUBSET Requests
         /\ b.retries \in 0 .. MaxRetries /\ b.step \in BuildSteps
  BY DEF ABuild

\* A task that raises is queued again or ends, with its revision.
LEMMA RaisedTypes ==
  ASSUME NEW b \in ABuild
  PROVE  /\ AfterFailure(b) \in ABuild
         /\ AfterFailure(b).revision = b.revision
         /\ AfterFailure(b).step \in {"queued", "ended"}
<1>1. CASE GivesUp(b)
  BY <1>1 DEF AfterFailure, ABuild, BuildSteps
<1>2. CASE ~ GivesUp(b)
  <2>1. b.retries + 1 \in 0 .. MaxRetries
    BY <1>2, RetriesAssumption DEF GivesUp, ABuild
  <2> QED BY <1>2, <2>1 DEF AfterFailure, ABuild, BuildSteps
<1> QED BY <1>1, <1>2

\* The build that a message starts.
LEMMA SentTypes ==
  ASSUME NEW revision \in Nat, NEW retries \in 0 .. MaxRetries
  PROVE  /\ [NoBuild EXCEPT !.step = "queued", !.revision = revision] \in ABuild
         /\ [NoBuild EXCEPT !.step = "queued", !.revision = revision,
                            !.retries = retries] \in ABuild
<1>1. 0 \in 0 .. MaxRetries
  BY RetriesAssumption
<1> QED BY <1>1, FirstTypes DEF ABuild, BuildSteps, NoBuild

LEMMA TypesOf ==
  ASSUME TypeOK
  PROVE  /\ config \in Config /\ config.revision \in Nat /\ config.active \in Nat
         /\ request \in [Requests -> ARequest]
         /\ build \in [Executions -> ABuild]
         /\ graph \in [Revisions -> {NoGraph} \cup SUBSET Requests]
         /\ wanted \in [Revisions -> SUBSET Requests]
         /\ skipped \in [Revisions -> SUBSET Requests]
         /\ \A f \in failing : f.revision \in Nat /\ (f.seen # Unread => f.seen \in Config)
  BY DEF TypeOK, Config, ARequest, ABuild

LEMMA ExecutionNames ==
  \A q \in Requests : <<q, 1>> \in Executions /\ <<q, 2>> \in Executions
  BY DEF Executions, Deliveries

\* The graph of a revision is replaced by documents, or there is none.
LEMMA GraphTypes ==
  ASSUME TypeOK, NEW revision,
         NEW contents, revision \in Revisions => contents \in {NoGraph} \cup SUBSET Requests
  PROVE  [graph EXCEPT ![revision] = contents] \in [Revisions -> {NoGraph} \cup SUBSET Requests]
  BY DEF TypeOK

LEMMA WrittenTypes ==
  ASSUME TypeOK, NEW new \in Config, NEW seen, WriteConfig(new, seen)
  PROVE  config' \in Config /\ mishaps' \subseteq Mishaps
  BY DEF WriteConfig, TypeOK, Mishaps

LEMMA RecordedTypes ==
  ASSUME TypeOK, NEW revision \in Nat, RecordFailure(revision)
  PROVE  failing' \subseteq [revision : Nat, seen : Config \cup {Unread}]
  BY DEF TypeOK, RecordFailure

LEMMA RaiseTypes ==
  ASSUME TypeOK, NEW e \in Executions, Raise(e)
  PROVE  /\ build' \in [Executions -> ABuild]
         /\ failing' \subseteq [revision : Nat, seen : Config \cup {Unread}]
         /\ mishaps' \subseteq Mishaps
<1>1. build[e] \in ABuild /\ build[e].revision \in Nat
  BY TypesOf DEF ABuild
<1>2. build' \in [Executions -> ABuild]
  BY <1>1, RaisedTypes, TypesOf DEF Raise
<1>3. failing' \subseteq [revision : Nat, seen : Config \cup {Unread}]
  BY <1>1, RecordedTypes DEF Raise, TypeOK
<1>4. mishaps' \subseteq Mishaps
  BY DEF Raise, TypeOK, Mishaps
<1> QED BY <1>2, <1>3, <1>4

\* The steps of a request keep the types.
LEMMA RequestsTyped ==
  ASSUME TypeOK, NEW q \in Requests,
         ConfirmDocuments(q) \/ RequestStep(q) \/ RequestDies(q)
  PROVE  TypeOK'
<1> DEFINE p == request[q]
<1>0. config \in Config /\ request \in [Requests -> ARequest]
  BY TypesOf
<1>1. /\ p \in ARequest /\ p.revision \in Nat /\ p.seen \in Config
      /\ config \in Config /\ request \in [Requests -> ARequest]
  BY <1>0 DEF ARequest
<1>2. \A step \in {"confirmed", "read", "prepared", "ended"} : step \in RequestSteps
  BY DEF RequestSteps
<1>3. \A new \in ARequest : [request EXCEPT ![q] = new] \in [Requests -> ARequest]
  BY <1>1
<1>4. ASSUME request' \in [Requests -> ARequest], config' \in Config,
             deleted' = deleted, confirmed' \subseteq Requests,
             build' \in [Executions -> ABuild],
             failing' \subseteq [revision : Nat, seen : Config \cup {Unread}],
             graph' = graph, wanted' \in [Revisions -> SUBSET Requests],
             skipped' = skipped, mishaps' \subseteq Mishaps
      PROVE  TypeOK'
  BY <1>4 DEF TypeOK, ARequest, ABuild
<1>5. CASE ConfirmDocuments(q)
  <2>1. request' = [request EXCEPT ![q] = [p EXCEPT !.step = "confirmed"]]
    BY <1>5 DEF ConfirmDocuments
  <2>2. request' \in [Requests -> ARequest]
    BY <1>1, <1>2, <1>3, <2>1, RequestTypes
  <2> QED BY <1>4, <1>5, <2>2, TypesOf DEF ConfirmDocuments, TypeOK
<1>6. CASE PrepareRead(q)
  <2> DEFINE step == IF deleted THEN "ended" ELSE "read"
  <2>1. request' = [request EXCEPT ![q] = [p EXCEPT !.step = step, !.seen = config]]
    BY <1>6 DEF PrepareRead
  <2>2. request' \in [Requests -> ARequest]
    <3>1. step \in RequestSteps
      BY <1>2
    <3> HIDE DEF step
    <3> QED BY <1>1, <1>3, <2>1, <3>1, RequestTypes
  <2> QED BY <1>4, <1>6, <2>2, TypesOf DEF PrepareRead, TypeOK
<1>7. CASE PrepareWrite(q)
  <2> DEFINE next == NextRevision(p.seen)
             new == [p.seen EXCEPT !.revision = next, !.status = NextStatus(p.seen)]
  <2>1. next \in Nat /\ NextStatus(p.seen) \in GraphStatus
    <3>1. p.seen.revision \in Nat
      BY <1>1 DEF Config
    <3> QED BY <3>1, StatusNames DEF NextRevision, NextStatus
  <2>2. new \in Config
    BY <1>1, <2>1, ConfigTypes
  <2>3. request' = [request EXCEPT ![q] = [p EXCEPT !.step = "prepared", !.revision = next]]
    BY <1>7 DEF PrepareWrite
  <2>4. request' \in [Requests -> ARequest]
    BY <1>1, <1>2, <1>3, <2>1, <2>3, RequestTypes
  <2>5. config' \in Config /\ mishaps' \subseteq Mishaps
    BY <1>7, <2>2, WrittenTypes DEF PrepareWrite
  <2>6. wanted' \in [Revisions -> SUBSET Requests]
    BY <1>7 DEF PrepareWrite, TypeOK
  <2> QED BY <1>4, <1>7, <2>4, <2>5, <2>6, TypesOf DEF PrepareWrite, TypeOK
<1>8. CASE SendBuild(q)
  <2>1. request' = [request EXCEPT ![q] = [p EXCEPT !.step = "ended"]]
    BY <1>8 DEF SendBuild
  <2>2. request' \in [Requests -> ARequest]
    BY <1>1, <1>2, <1>3, <2>1, RequestTypes
  <2>3. build' \in [Executions -> ABuild]
    <3>1. 0 \in 0 .. MaxRetries
      BY RetriesAssumption
    <3> QED BY <1>1, <1>8, <3>1, SentTypes, TypesOf DEF SendBuild
  <2> QED BY <1>4, <1>8, <2>2, <2>3, TypesOf DEF SendBuild, TypeOK
<1>9. CASE SendFails(q)
  <2>1. request' = [request EXCEPT ![q] = [p EXCEPT !.step = "ended"]]
    BY <1>9 DEF SendFails
  <2>2. request' \in [Requests -> ARequest]
    BY <1>1, <1>2, <1>3, <2>1, RequestTypes
  <2>3. failing' \subseteq [revision : Nat, seen : Config \cup {Unread}]
    BY <1>1, <1>9, RecordedTypes DEF SendFails
  <2> QED BY <1>4, <1>9, <2>2, <2>3, TypesOf DEF SendFails, TypeOK
<1>10. CASE RequestDies(q)
  <2>1. request' = [request EXCEPT ![q] = [p EXCEPT !.step = "ended"]]
    BY <1>10 DEF RequestDies
  <2>2. request' \in [Requests -> ARequest]
    BY <1>1, <1>2, <1>3, <2>1, RequestTypes
  <2> QED BY <1>4, <1>10, <2>2, TypesOf DEF RequestDies, TypeOK, Mishaps
<1> QED BY <1>5, <1>6, <1>7, <1>8, <1>9, <1>10 DEF RequestStep

\* So do those of a build.
LEMMA BuildsTyped ==
  ASSUME TypeOK, NEW e \in Executions, BuildStep(e)
  PROVE  TypeOK'
<1> DEFINE b == build[e]
<1>1. /\ b \in ABuild /\ b.revision \in Nat /\ b.seen \in Config
      /\ b.documents \in SUBSET Requests /\ config \in Config
      /\ build \in [Executions -> ABuild] /\ confirmed \in SUBSET Requests
  BY TypesOf DEF ABuild, TypeOK
<1>2. \A step \in {"cleared", "persisted", "stale", "finalizing", "ended"} : step \in BuildSteps
  BY DEF BuildSteps
<1>3. \A new \in ABuild : [build EXCEPT ![e] = new] \in [Executions -> ABuild]
  BY <1>1
<1>4. ASSUME build' \in [Executions -> ABuild], config' \in Config,
             deleted' = deleted, confirmed' = confirmed, request' = request,
             failing' \subseteq [revision : Nat, seen : Config \cup {Unread}],
             graph' \in [Revisions -> {NoGraph} \cup SUBSET Requests],
             wanted' = wanted, skipped' \in [Revisions -> SUBSET Requests],
             mishaps' \subseteq Mishaps
      PROVE  TypeOK'
  BY <1>4 DEF TypeOK, ABuild
<1>5. CASE StartBuild(e)
  <2>1. PICK documents \in SUBSET confirmed :
          /\ build' = [build EXCEPT ![e] = [b EXCEPT !.step = "cleared",
                                                     !.documents = documents]]
          /\ skipped' = [skipped EXCEPT ![b.revision] = confirmed \ documents]
    BY <1>5 DEF StartBuild, CollectDocumentTexts
  <2>2. build' \in [Executions -> ABuild] /\ skipped' \in [Revisions -> SUBSET Requests]
    <3>1. documents \in SUBSET Requests /\ confirmed \ documents \in SUBSET Requests
      BY <1>1
    <3>2. build' \in [Executions -> ABuild]
      BY <1>1, <1>2, <1>3, <2>1, <3>1, BuildTypes
    <3> QED BY <2>1, <3>1, <3>2, TypesOf
  <2>3. graph' \in [Revisions -> {NoGraph} \cup SUBSET Requests]
    BY <1>5, GraphTypes DEF StartBuild
  <2> QED BY <1>4, <1>5, <2>2, <2>3, TypesOf DEF StartBuild, TypeOK
<1>6. CASE StartFails(e)
  BY <1>4, <1>6, RaiseTypes, TypesOf DEF StartFails
<1>7. CASE PersistChunks(e)
  <2>1. build' = [build EXCEPT ![e] = [b EXCEPT !.step = "persisted"]]
    BY <1>7 DEF PersistChunks
  <2>2. build' \in [Executions -> ABuild]
    BY <1>1, <1>2, <1>3, <2>1, BuildTypes
  <2>3. graph' \in [Revisions -> {NoGraph} \cup SUBSET Requests]
    BY <1>1, <1>7 DEF PersistChunks, WithChunks, TypeOK
  <2> QED BY <1>4, <1>7, <2>2, <2>3, TypesOf DEF PersistChunks, TypeOK
<1>8. CASE PersistFails(e)
  <2>1. graph' \in [Revisions -> {NoGraph} \cup SUBSET Requests]
    <3>1. PICK some \in SUBSET b.documents :
             graph' = [graph EXCEPT ![b.revision] = WithChunks(@, some)]
      BY <1>8 DEF PersistFails
    <3> QED BY <1>1, <3>1 DEF WithChunks, TypeOK
  <2> QED BY <1>4, <1>8, <2>1, RaiseTypes, TypesOf DEF PersistFails
<1>9. CASE FinalizeRead(e)
  <2> DEFINE step == IF deleted \/ Stale(b.revision, config) THEN "stale" ELSE "finalizing"
  <2>1. build' = [build EXCEPT ![e] = [b EXCEPT !.step = step, !.seen = config]]
    BY <1>9 DEF FinalizeRead
  <2>2. build' \in [Executions -> ABuild]
    <3>1. step \in BuildSteps
      BY <1>2
    <3> HIDE DEF step
    <3> QED BY <1>1, <1>3, <2>1, <3>1, BuildTypes
  <2> QED BY <1>4, <1>9, <2>2, TypesOf DEF FinalizeRead, TypeOK
<1>10. CASE FinalizeWrite(e)
  <2>1. build' = [build EXCEPT ![e] = [b EXCEPT !.step = "ended"]]
    BY <1>10 DEF FinalizeWrite
  <2>2. build' \in [Executions -> ABuild]
    BY <1>1, <1>2, <1>3, <2>1, BuildTypes
  <2>3. config' \in Config /\ mishaps' \subseteq Mishaps
    BY <1>1, <1>10, ConfigTypes, StatusNames, WrittenTypes DEF FinalizeWrite
  <2> QED BY <1>4, <1>10, <2>2, <2>3, TypesOf DEF FinalizeWrite, TypeOK
<1>11. CASE DropStaleGraph(e)
  <2>1. build' = [build EXCEPT ![e] = [b EXCEPT !.step = "ended"]]
    BY <1>11 DEF DropStaleGraph
  <2>2. build' \in [Executions -> ABuild]
    BY <1>1, <1>2, <1>3, <2>1, BuildTypes
  <2>3. graph' \in [Revisions -> {NoGraph} \cup SUBSET Requests]
    BY <1>11, GraphTypes DEF DropStaleGraph
  <2> QED BY <1>4, <1>11, <2>2, <2>3, TypesOf DEF DropStaleGraph, TypeOK
<1> QED BY <1>5, <1>6, <1>7, <1>8, <1>9, <1>10, <1>11 DEF BuildStep

\* So does everything else.
LEMMA OthersTyped ==
  ASSUME TypeOK,
         \/ \E q \in Requests : Redeliver(q)
         \/ FailureStep \/ UpdateCollection \/ DeleteCollection
         \/ UNCHANGED vars
  PROVE  TypeOK'
<1>1. ASSUME NEW q \in Requests, Redeliver(q) PROVE TypeOK'
  <2> DEFINE first == build[<<q, 1>>]
             again == [NoBuild EXCEPT !.step = "queued", !.revision = first.revision,
                                      !.retries = first.retries]
             Gone(died) == [first EXCEPT !.step = IF died THEN "ended" ELSE first.step]
  <2>1. /\ first \in ABuild /\ build \in [Executions -> ABuild]
        /\ first.revision \in Nat /\ first.retries \in 0 .. MaxRetries
    BY ExecutionNames, TypesOf DEF ABuild
  <2>2. again \in ABuild /\ \A died \in BOOLEAN : Gone(died) \in ABuild
    BY <2>1, SentTypes DEF BuildSteps, ABuild
  <2>3. PICK died \in BOOLEAN :
          build' = [build EXCEPT ![<<q, 1>>] = Gone(died), ![<<q, 2>>] = again]
    BY <1>1 DEF Redeliver
  <2>4. build' \in [Executions -> ABuild]
    <3> HIDE DEF again, Gone
    <3>1. \A new \in ABuild, other \in ABuild :
            [build EXCEPT ![<<q, 1>>] = new, ![<<q, 2>>] = other] \in [Executions -> ABuild]
      BY <2>1
    <3> QED BY <2>2, <2>3, <3>1
  <2> QED BY <1>1, <2>4 DEF Redeliver, TypeOK, ABuild, Mishaps
<1>2. ASSUME NEW f \in failing, FailureRead(f) PROVE TypeOK'
  <2>1. failing' \subseteq [revision : Nat, seen : Config \cup {Unread}]
    BY <1>2 DEF FailureRead, TypeOK
  <2> QED BY <1>2, <2>1 DEF FailureRead, TypeOK
<1>3. ASSUME NEW f \in failing, FailureWrite(f) PROVE TypeOK'
  <2>1. config' \in Config /\ mishaps' \subseteq Mishaps
    BY <1>3, TypesOf, ConfigTypes, StatusNames, WrittenTypes DEF FailureWrite
  <2> QED BY <1>3, <2>1 DEF FailureWrite, TypeOK
<1>4. CASE UpdateCollection
  <2>1. config' \in Config /\ mishaps' \subseteq Mishaps
    BY <1>4, TypesOf, FirstTypes, WrittenTypes DEF UpdateCollection, Forms
  <2> QED BY <1>4, <2>1 DEF UpdateCollection, TypeOK
<1>5. CASE DeleteCollection
  BY <1>5 DEF DeleteCollection, TypeOK
<1>6. CASE UNCHANGED vars
  BY <1>6 DEF vars, TypeOK
<1> QED BY <1>1, <1>2, <1>3, <1>4, <1>5, <1>6 DEF FailureStep

LEMMA TypesKept ==
  ASSUME TypeOK, [Next]_vars
  PROVE  TypeOK'
  BY RequestsTyped, BuildsTyped, OthersTyped DEF Next

-----------------------------------------------------------------------------
(* The order of the revisions *)

\* A write that loses nothing replaces the config it was computed from.
LEMMA NothingLost ==
  ASSUME NEW new, NEW seen, WriteConfig(new, seen), "lost_write" \notin mishaps'
  PROVE  seen = config /\ config' = new /\ "lost_write" \notin mishaps
  BY DEF WriteConfig

\* Every step of a build leaves the other executions alone, and its own
\* execution on its revision.
LEMMA BuildFrame ==
  ASSUME TypeOK, NEW e \in Executions, BuildStep(e)
  PROVE  /\ build'[e].revision = build[e].revision
         /\ \A o \in Executions \ {e} : build'[o] = build[o]
         /\ request' = request /\ confirmed' = confirmed /\ wanted' = wanted
         /\ deleted' = deleted
         /\ \A r \in Revisions \ {build[e].revision} :
              graph'[r] = graph[r] /\ skipped'[r] = skipped[r]
         /\ StartBuild(e) \/ skipped' = skipped
<1>1. build[e] \in ABuild /\ build \in [Executions -> ABuild]
  BY TypesOf
<1>2. /\ graph \in [Revisions -> {NoGraph} \cup SUBSET Requests]
      /\ skipped \in [Revisions -> SUBSET Requests]
  BY TypesOf
<1>3. CASE StartBuild(e)
  <2>1. PICK documents \in SUBSET confirmed :
          /\ build' = [build EXCEPT ![e] = [build[e] EXCEPT !.step = "cleared",
                                              !.documents = documents]]
          /\ skipped' = [skipped EXCEPT ![build[e].revision] = confirmed \ documents]
    BY <1>3 DEF StartBuild, CollectDocumentTexts
  <2>2. build'[e].revision = build[e].revision /\ \A o \in Executions \ {e} : build'[o] = build[o]
    BY <1>1, <2>1 DEF ABuild
  <2> QED BY <1>2, <1>3, <2>1, <2>2 DEF StartBuild
<1>4. CASE StartFails(e) BY <1>1, <1>2, <1>4, RaisedTypes DEF StartFails, Raise
<1>5. CASE PersistChunks(e) BY <1>1, <1>2, <1>5 DEF PersistChunks, ABuild
<1>6. CASE PersistFails(e) BY <1>1, <1>2, <1>6, RaisedTypes DEF PersistFails, Raise
<1>7. CASE FinalizeRead(e) BY <1>1, <1>2, <1>7 DEF FinalizeRead, ABuild
<1>8. CASE FinalizeWrite(e) BY <1>1, <1>2, <1>8 DEF FinalizeWrite, ABuild
<1>9. CASE DropStaleGraph(e) BY <1>1, <1>2, <1>9 DEF DropStaleGraph, ABuild
<1> QED BY <1>3, <1>4, <1>5, <1>6, <1>7, <1>8, <1>9 DEF BuildStep

\* A build writes the config only when it makes its graph the active one.
LEMMA BuildWrites ==
  ASSUME TypeOK, Compared, Ordered, NEW e \in Executions, BuildStep(e),
         "lost_write" \notin mishaps'
  PROVE  /\ "lost_write" \notin mishaps
         /\ \/ config' = config
            \/ /\ build[e].step = "finalizing" /\ build'[e].step = "ended"
               /\ graph' = graph /\ skipped' = skipped
               /\ config'.active = build[e].revision /\ build[e].revision = config.revision
         /\ config'.revision = config.revision /\ config'.active >= config.active
         /\ config'.active <= config'.revision
<1>1. /\ build[e] \in ABuild /\ build \in [Executions -> ABuild] /\ config \in Config
      /\ config.revision \in Nat /\ config.active \in Nat /\ build[e].revision \in Nat
  BY TypesOf DEF ABuild
<1>2. ASSUME config' = config, "lost_write" \in mishaps => "lost_write" \in mishaps'
      PROVE  /\ "lost_write" \notin mishaps
             /\ config'.revision = config.revision /\ config'.active >= config.active
             /\ config'.active <= config'.revision
  BY <1>1, <1>2 DEF Ordered
<1>3. CASE FinalizeWrite(e)
  <2>1. /\ build[e].seen = config /\ "lost_write" \notin mishaps
        /\ config' = [config EXCEPT !.status = "ready", !.active = build[e].revision]
        /\ build[e].step = "finalizing" /\ graph' = graph /\ skipped' = skipped
        /\ build' = [build EXCEPT ![e].step = "ended"]
    BY <1>3, NothingLost DEF FinalizeWrite
  <2>2. /\ config'.active = build[e].revision /\ config'.revision = config.revision
        /\ build'[e].step = "ended"
    BY <1>1, <2>1 DEF Config, ABuild
  <2>3. build[e].revision = config.revision /\ config.active <= config.revision
    BY <1>1, <2>1 DEF Compared, Ordered
  <2> QED BY <1>1, <2>1, <2>2, <2>3
<1>4. CASE StartBuild(e) BY <1>2, <1>4 DEF StartBuild
<1>5. CASE StartFails(e) BY <1>2, <1>5 DEF StartFails, Raise
<1>6. CASE PersistChunks(e) BY <1>2, <1>6 DEF PersistChunks
<1>7. CASE PersistFails(e) BY <1>2, <1>7 DEF PersistFails, Raise
<1>8. CASE FinalizeRead(e) BY <1>2, <1>8 DEF FinalizeRead
<1>9. CASE DropStaleGraph(e) BY <1>2, <1>9 DEF DropStaleGraph
<1> QED BY <1>3, <1>4, <1>5, <1>6, <1>7, <1>8, <1>9 DEF BuildStep

\* A request gets the revision after the one that the config has.
LEMMA PrepareWrites ==
  ASSUME TypeOK, NEW q \in Requests, PrepareWrite(q), "lost_write" \notin mishaps'
  PROVE  /\ "lost_write" \notin mishaps
         /\ request[q].step = "read" /\ request'[q].step = "prepared"
         /\ config'.revision = config.revision + 1 /\ config'.active = config.active
         /\ request'[q].revision = config.revision + 1
         /\ wanted' = [wanted EXCEPT ![config.revision + 1] = @ \cup confirmed]
         /\ UNCHANGED <<confirmed, build, graph, skipped>>
         /\ \A o \in Requests \ {q} : request'[o] = request[o]
<1> DEFINE next == config.revision + 1
<1>1. request[q] \in ARequest /\ request \in [Requests -> ARequest] /\ config \in Config
  BY TypesOf
<1>2. /\ request[q].seen = config /\ "lost_write" \notin mishaps
      /\ config' = [config EXCEPT !.revision = next, !.status = NextStatus(config)]
      /\ request[q].step = "read"
      /\ request' = [request EXCEPT ![q].step = "prepared", ![q].revision = next]
      /\ wanted' = [wanted EXCEPT ![next] = @ \cup confirmed]
      /\ UNCHANGED <<confirmed, build, graph, skipped>>
  BY NothingLost DEF PrepareWrite, NextRevision
<1>3. config'.revision = next /\ config'.active = config.active
  BY <1>1, <1>2 DEF Config
<1>4. /\ request'[q].revision = next /\ request'[q].step = "prepared"
      /\ \A o \in Requests \ {q} : request'[o] = request[o]
  BY <1>1, <1>2 DEF ARequest
<1> QED BY <1>2, <1>3, <1>4

\* Nothing else a request does changes the config.
LEMMA RequestWrites ==
  ASSUME TypeOK, NEW q \in Requests, ~ PrepareWrite(q),
         ConfirmDocuments(q) \/ RequestStep(q) \/ RequestDies(q)
  PROVE  /\ config' = config /\ wanted' = wanted /\ graph' = graph /\ skipped' = skipped
         /\ confirmed \subseteq confirmed' /\ mishaps \subseteq mishaps'
         /\ request'[q].revision = request[q].revision
         /\ \A o \in Requests \ {q} : request'[o] = request[o]
<1>1. request[q] \in ARequest /\ request \in [Requests -> ARequest]
  BY TypesOf
<1>2. CASE ConfirmDocuments(q) BY <1>1, <1>2 DEF ConfirmDocuments, ARequest
<1>3. CASE PrepareRead(q) BY <1>1, <1>3 DEF PrepareRead, ARequest
<1>4. CASE SendBuild(q) BY <1>1, <1>4 DEF SendBuild, ARequest
<1>5. CASE SendFails(q) BY <1>1, <1>5 DEF SendFails, ARequest
<1>6. CASE RequestDies(q) BY <1>1, <1>6 DEF RequestDies, ARequest
<1> QED BY <1>2, <1>3, <1>4, <1>5, <1>6 DEF RequestStep

\* The executions a request can change: its own, when it sends its build.
LEMMA RequestBuilds ==
  ASSUME TypeOK, NEW q \in Requests,
         ConfirmDocuments(q) \/ RequestStep(q) \/ RequestDies(q)
  PROVE  \/ build' = build
         \/ /\ SendBuild(q) /\ request[q].step = "prepared"
            /\ build' = [build EXCEPT ![<<q, 1>>] =
                           [NoBuild EXCEPT !.step = "queued", !.revision = request[q].revision]]
            /\ build'[<<q, 1>>].step = "queued"
            /\ build'[<<q, 1>>].revision = request[q].revision
            /\ \A o \in Executions \ {<<q, 1>>} : build'[o] = build[o]
<1>1. CASE SendBuild(q)
  <2>1. build' = [build EXCEPT ![<<q, 1>>] =
                    [NoBuild EXCEPT !.step = "queued", !.revision = request[q].revision]]
    BY <1>1 DEF SendBuild
  <2>2. build \in [Executions -> ABuild] /\ <<q, 1>> \in Executions
    BY TypesOf, ExecutionNames
  <2>3. build'[<<q, 1>>].step = "queued" /\ build'[<<q, 1>>].revision = request[q].revision
    BY <2>1, <2>2, FirstTypes DEF ABuild
  <2> QED BY <1>1, <2>1, <2>2, <2>3 DEF SendBuild
<1>2. CASE ~ SendBuild(q)
  BY <1>2 DEF ConfirmDocuments, RequestStep, RequestDies, PrepareRead, PrepareWrite, SendFails
<1> QED BY <1>1, <1>2

\* A failure and a form that lose nothing leave revision and active graph.
LEMMA OtherWrites ==
  ASSUME TypeOK,
         \/ \E q \in Requests : Redeliver(q)
         \/ FailureStep \/ UpdateCollection \/ DeleteCollection
         \/ UNCHANGED vars,
         "lost_write" \notin mishaps'
  PROVE  /\ "lost_write" \notin mishaps
         /\ config'.revision = config.revision /\ config'.active = config.active
         /\ request' = request /\ confirmed' = confirmed /\ wanted' = wanted
         /\ graph' = graph /\ skipped' = skipped
<1>1. config \in Config
  BY TypesOf
<1>2. ASSUME NEW f \in failing, FailureWrite(f)
      PROVE  /\ "lost_write" \notin mishaps
             /\ config'.revision = config.revision /\ config'.active = config.active
  <2>1. f.seen = config /\ config' = [f.seen EXCEPT !.status = "failed"] /\ "lost_write" \notin mishaps
    BY <1>2, NothingLost DEF FailureWrite
  <2> QED BY <1>1, <2>1 DEF Config
<1>3. CASE UpdateCollection
  BY <1>3, NothingLost DEF UpdateCollection
<1> QED
  BY <1>2, <1>3 DEF FailureStep, FailureRead, FailureWrite, Redeliver, DeleteCollection, vars

\* A redelivered task works on the revision of the first execution.
LEMMA RedeliverBuilds ==
  ASSUME TypeOK, NEW q \in Requests, Redeliver(q)
  PROVE  /\ build'[<<q, 2>>].step = "queued"
         /\ build'[<<q, 2>>].revision = build[<<q, 1>>].revision
         /\ build'[<<q, 1>>].revision = build[<<q, 1>>].revision
         /\ build'[<<q, 1>>].seen = build[<<q, 1>>].seen
         /\ build'[<<q, 1>>].step \in {"ended", build[<<q, 1>>].step}
         /\ \A o \in Executions \ {<<q, 1>>, <<q, 2>>} : build'[o] = build[o]
         /\ "redelivered" \in mishaps'
<1> DEFINE first == build[<<q, 1>>]
           again == [NoBuild EXCEPT !.step = "queued", !.revision = first.revision,
                                    !.retries = first.retries]
           Stopped(died) == [first EXCEPT !.step = IF died THEN "ended" ELSE first.step]
<1>1. first \in ABuild /\ first.revision \in Nat /\ first.retries \in 0 .. MaxRetries
  BY ExecutionNames, TypesOf DEF ABuild
<1>2. PICK died \in BOOLEAN :
        build' = [build EXCEPT ![<<q, 1>>] = Stopped(died), ![<<q, 2>>] = again]
  BY DEF Redeliver
<1>3. /\ Stopped(died).revision = first.revision /\ Stopped(died).seen = first.seen
      /\ Stopped(died).step \in {"ended", first.step}
  BY <1>1 DEF ABuild
<1>4. again.step = "queued" /\ again.revision = first.revision
  BY FirstTypes DEF ABuild
<1>5. /\ build'[<<q, 1>>] = Stopped(died) /\ build'[<<q, 2>>] = again
      /\ \A o \in Executions \ {<<q, 1>>, <<q, 2>>} : build'[o] = build[o]
  <2> HIDE DEF Stopped, again
  <2>1. build \in [Executions -> ABuild] /\ <<q, 1>> # <<q, 2>>
    BY TypesOf
  <2> QED BY <1>2, <2>1, ExecutionNames
<1> QED BY <1>3, <1>4, <1>5 DEF Redeliver

\* What the comparison in _finalize_success established stays true.
LEMMA ComparedKept ==
  ASSUME TypeOK, Compared, [Next]_vars
  PROVE  Compared'
<1>1. build \in [Executions -> ABuild] /\ config \in Config
  BY TypesOf
<1>2. ASSUME NEW e \in Executions, BuildStep(e) PROVE Compared'
  <2>1. build'[e].step = "finalizing" => build'[e].seen.revision <= build'[e].revision
    <3>1. build[e] \in ABuild
      BY <1>1
    <3>2. CASE FinalizeRead(e)
      BY <1>1, <3>1, <3>2 DEF FinalizeRead, Stale, ABuild, Config
    <3>3. CASE ~ FinalizeRead(e)
      <4>1. build'[e].step # "finalizing"
        <5>1. CASE StartBuild(e) BY <1>1, <3>1, <5>1 DEF StartBuild, ABuild
        <5>2. CASE StartFails(e) BY <1>1, <3>1, <5>2, RaisedTypes DEF StartFails, Raise
        <5>3. CASE PersistChunks(e) BY <1>1, <3>1, <5>3 DEF PersistChunks, ABuild
        <5>4. CASE PersistFails(e) BY <1>1, <3>1, <5>4, RaisedTypes DEF PersistFails, Raise
        <5>5. CASE FinalizeWrite(e) BY <1>1, <3>1, <5>5 DEF FinalizeWrite, ABuild
        <5>6. CASE DropStaleGraph(e) BY <1>1, <3>1, <5>6 DEF DropStaleGraph, ABuild
        <5> QED BY <1>2, <3>3, <5>1, <5>2, <5>3, <5>4, <5>5, <5>6 DEF BuildStep
      <4> QED BY <4>1
    <3> QED BY <3>2, <3>3
  <2> QED BY <1>2, <2>1, BuildFrame DEF Compared
<1>3. ASSUME NEW q \in Requests, ConfirmDocuments(q) \/ RequestStep(q) \/ RequestDies(q)
      PROVE  Compared'
  BY <1>3, RequestBuilds, ExecutionNames DEF Compared
<1>4. ASSUME NEW q \in Requests, Redeliver(q) PROVE Compared'
  BY <1>4, RedeliverBuilds, ExecutionNames DEF Compared
<1>5. CASE FailureStep \/ UpdateCollection \/ DeleteCollection \/ UNCHANGED vars
  BY <1>5 DEF FailureStep, FailureRead, FailureWrite, UpdateCollection, DeleteCollection,
              vars, Compared
<1> QED BY <1>2, <1>3, <1>4, <1>5 DEF Next

\* Without a lost write revisions are compared with a config that only grows.
LEMMA OrderedKept ==
  ASSUME TypeOK, Compared, Ordered, [Next]_vars
  PROVE  /\ Ordered'
         /\ "lost_write" \notin mishaps' =>
              /\ config'.active >= config.active /\ config'.revision >= config.revision
<1> SUFFICES ASSUME "lost_write" \notin mishaps'
             PROVE  /\ Ordered'
                    /\ config'.active >= config.active /\ config'.revision >= config.revision
  BY DEF Ordered
<1>1. /\ config.revision \in Nat /\ config.active \in Nat
      /\ \A q \in Requests : request[q].revision \in Nat
      /\ \A e \in Executions : build[e].revision \in Nat
  BY TypesOf DEF ARequest, ABuild
<1>2. ASSUME NEW e \in Executions, BuildStep(e)
      PROVE  /\ Ordered'
             /\ config'.active >= config.active /\ config'.revision >= config.revision
  <2>1. /\ "lost_write" \notin mishaps
        /\ config'.revision = config.revision /\ config'.active >= config.active
        /\ config'.active <= config'.revision
    BY <1>2, BuildWrites
  <2>2. /\ request' = request /\ build'[e].revision = build[e].revision
        /\ \A o \in Executions \ {e} : build'[o] = build[o]
    BY <1>2, BuildFrame
  <2> QED BY <1>1, <2>1, <2>2 DEF Ordered
<1>3. ASSUME NEW q \in Requests, ConfirmDocuments(q) \/ RequestStep(q) \/ RequestDies(q)
      PROVE  /\ Ordered'
             /\ config'.active >= config.active /\ config'.revision >= config.revision
  <2>1. /\ "lost_write" \notin mishaps
        /\ \A o \in Requests \ {q} : request'[o] = request[o]
        /\ config'.active = config.active
        /\ \/ config'.revision = config.revision /\ request'[q].revision = request[q].revision
           \/ /\ config'.revision = config.revision + 1
              /\ request'[q].revision = config.revision + 1
    BY <1>3, PrepareWrites, RequestWrites
  <2>0. \/ build' = build
        \/ /\ build'[<<q, 1>>].revision = request[q].revision
           /\ \A o \in Executions \ {<<q, 1>>} : build'[o] = build[o]
    BY <1>3, RequestBuilds
  <2>2. \A e \in Executions : build'[e].revision <= config.revision
    BY <2>1, <2>0, ExecutionNames DEF Ordered
  <2>3. \A e \in Executions : build'[e].revision \in Nat
    BY <1>1, <2>0, ExecutionNames
  <2>4. config.active <= config.revision /\ \A o \in Requests : request[o].revision <= config.revision
    BY <2>1 DEF Ordered
  <2>5. config'.revision >= config.revision /\ config'.revision \in Nat
    BY <1>1, <2>1
  <2>6. config'.active <= config'.revision /\ config'.active >= config.active
    BY <1>1, <2>1, <2>4
  <2>7. \A o \in Requests : request'[o].revision <= config'.revision
    BY <1>1, <2>1, <2>4, <2>5
  <2>8. \A e \in Executions : build'[e].revision <= config'.revision
    BY <1>1, <2>2, <2>3, <2>5
  <2> QED BY <2>5, <2>6, <2>7, <2>8 DEF Ordered
<1>4. CASE \/ \E q \in Requests : Redeliver(q)
           \/ FailureStep \/ UpdateCollection \/ DeleteCollection
           \/ UNCHANGED vars
  <2>1. /\ "lost_write" \notin mishaps /\ request' = request
        /\ config'.revision = config.revision /\ config'.active = config.active
    BY <1>4, OtherWrites
  <2>2. \A e \in Executions : build'[e].revision <= config.revision
    <3>1. ASSUME NEW q \in Requests, Redeliver(q)
          PROVE  \A e \in Executions : build'[e].revision <= config.revision
      BY <2>1, <3>1, RedeliverBuilds, ExecutionNames DEF Ordered
    <3>2. CASE build' = build
      BY <2>1, <3>2 DEF Ordered
    <3> QED
      BY <1>4, <3>1, <3>2 DEF FailureStep, FailureRead, FailureWrite, UpdateCollection,
                              DeleteCollection, vars
  <2> QED BY <1>1, <2>1, <2>2 DEF Ordered
<1> QED BY <1>2, <1>3, <1>4 DEF Next

-----------------------------------------------------------------------------
(* Every build owns the graph of its revision *)

\* There are no more revisions than requests that asked for one.
LEMMA AskedTypes ==
  ASSUME TypeOK
  PROVE  /\ IsFiniteSet(Asked) /\ Cardinality(Asked) \in Nat
         /\ Cardinality(Asked) <= Cardinality(Requests) /\ Cardinality(Requests) \in Nat
<1>1. Asked \in SUBSET Requests
  BY DEF Asked
<1> QED BY <1>1, RequestsAssumption, FS_Subset, FS_CardinalityType

LEMMA RevisionsExist ==
  ASSUME TypeOK, config.revision <= Cardinality(Asked), NEW revision \in Nat,
         revision # 0, revision <= config.revision
  PROVE  revision \in Revisions
<1> DEFINE asked == Cardinality(Asked)
           requests == Cardinality(Requests)
           last == config.revision
<1>1. asked \in Nat /\ requests \in Nat /\ asked <= requests /\ last \in Nat /\ last <= asked
      /\ revision <= last
  BY AskedTypes, TypesOf
<1>2. revision \in 1 .. requests
  <2> HIDE DEF asked, requests, last
  <2> QED BY <1>1
<1> QED BY <1>2 DEF Revisions

\* A build that starts has read all confirmed documents or skipped them.
LEMMA Started ==
  ASSUME NEW e \in Executions, StartBuild(e)
  PROVE  \E documents \in SUBSET confirmed :
           /\ build' = [build EXCEPT ![e] = [build[e] EXCEPT !.step = "cleared",
                                               !.documents = documents]]
           /\ skipped' = [skipped EXCEPT ![build[e].revision] = confirmed \ documents]
           /\ graph' = [graph EXCEPT ![build[e].revision] = {}]
<1>1. PICK documents \in CollectDocumentTexts :
        /\ build' = [build EXCEPT ![e].step = "cleared", ![e].documents = documents]
        /\ skipped' = [skipped EXCEPT ![build[e].revision] = confirmed \ documents]
  BY DEF StartBuild
<1>2. graph' = [graph EXCEPT ![build[e].revision] = {}]
  BY DEF StartBuild
<1>3. documents \in SUBSET confirmed
  BY DEF CollectDocumentTexts
<1>4. build' = [build EXCEPT ![e] = [build[e] EXCEPT !.step = "cleared",
                                       !.documents = documents]]
  BY <1>1
<1> QED BY <1>1, <1>2, <1>3, <1>4

\* The build of a request fills the graph of its revision.
LEMMA OwnBuildKept ==
  ASSUME TypeOK, NEW q \in Requests, OwnBuild(q), BuildStep(<<q, 1>>),
         build[<<q, 1>>].revision \in Revisions,
         \A revision \in Revisions : wanted[revision] \subseteq confirmed
  PROVE  OwnBuild(q)'
<1> DEFINE e == <<q, 1>>
           b == build[e]
           after == build'[e]
<1>1. /\ b \in ABuild /\ build \in [Executions -> ABuild] /\ e \in Executions
      /\ graph \in [Revisions -> {NoGraph} \cup SUBSET Requests]
      /\ b.documents \in SUBSET Requests /\ <<q, 2>> \in Executions /\ <<q, 2>> # e
      /\ confirmed \in SUBSET Requests /\ b.revision \in Revisions
      /\ skipped \in [Revisions -> SUBSET Requests]
  BY TypesOf, ExecutionNames DEF ABuild, TypeOK
<1>2. /\ after.revision = b.revision /\ request' = request /\ wanted' = wanted
      /\ build'[<<q, 2>>] = build[<<q, 2>>]
  BY <1>1, BuildFrame
<1>3. b.step # "none"
  BY DEF BuildStep, StartBuild, StartFails, PersistChunks, PersistFails, FinalizeRead,
         FinalizeWrite, DropStaleGraph
<1>4. /\ request[q].step = "ended" /\ b.revision = request[q].revision /\ b.revision # 0
      /\ build[<<q, 2>>].step = "none" /\ Filled(b)
  BY <1>3 DEF OwnBuild
<1>5. /\ after.step \in {"cleared", "persisted", "finalizing"} =>
           /\ graph'[b.revision] # NoGraph
           /\ wanted[b.revision] \ skipped'[b.revision] \subseteq after.documents
      /\ after.step \in {"persisted", "finalizing"} => after.documents \subseteq graph'[b.revision]
  <2>1. CASE StartBuild(e)
    <3>1. PICK documents \in SUBSET confirmed :
             /\ build' = [build EXCEPT ![e] = [b EXCEPT !.step = "cleared",
                                                        !.documents = documents]]
             /\ skipped' = [skipped EXCEPT ![b.revision] = confirmed \ documents]
             /\ graph' = [graph EXCEPT ![b.revision] = {}]
      BY <1>1, <2>1, Started
    <3>4. /\ after = [b EXCEPT !.step = "cleared", !.documents = documents]
          /\ skipped'[b.revision] = confirmed \ documents /\ graph'[b.revision] = {}
      BY <1>1, <3>1
    <3>2. after.step = "cleared" /\ after.documents = documents
      BY <1>1, <3>4 DEF ABuild
    <3>3. wanted[b.revision] \subseteq confirmed /\ {} # NoGraph
      BY <1>1, GraphsAssumption
    <3> QED BY <3>2, <3>3, <3>4
  <2>2. CASE PersistChunks(e)
    <3>1. /\ b.step = "cleared" /\ after = [b EXCEPT !.step = "persisted"]
          /\ graph'[b.revision] = WithChunks(graph[b.revision], b.documents)
      BY <1>1, <2>2 DEF PersistChunks
    <3>2. after.step = "persisted" /\ after.documents = b.documents
      BY <1>1, <3>1 DEF ABuild
    <3>3. /\ graph[b.revision] # NoGraph /\ skipped' = skipped
          /\ wanted[b.revision] \ skipped[b.revision] \subseteq b.documents
      BY <1>4, <2>2, <3>1 DEF Filled, PersistChunks
    <3>4. graph'[b.revision] = graph[b.revision] \cup b.documents
      BY <3>1, <3>3 DEF WithChunks
    <3>5. graph[b.revision] \cup b.documents \in SUBSET Requests
      BY <1>1, <3>3
    <3>6. graph'[b.revision] # NoGraph
      BY <3>4, <3>5, GraphsAssumption
    <3> QED BY <3>2, <3>3, <3>4, <3>6
  <2>3. CASE FinalizeRead(e)
    <3>1. /\ b.step = "persisted" /\ graph' = graph /\ skipped' = skipped
          /\ after.step \in {"stale", "finalizing"} /\ after.documents = b.documents
      BY <1>1, <2>3 DEF FinalizeRead, ABuild
    <3> QED BY <1>4, <3>1 DEF Filled
  <2>4. CASE StartFails(e) \/ PersistFails(e)
    BY <1>1, <2>4, RaisedTypes DEF StartFails, PersistFails, Raise
  <2>5. CASE FinalizeWrite(e)
    BY <1>1, <2>5 DEF FinalizeWrite, ABuild
  <2>6. CASE DropStaleGraph(e)
    BY <1>1, <2>6 DEF DropStaleGraph, ABuild
  <2> QED BY <2>1, <2>2, <2>3, <2>4, <2>5, <2>6 DEF BuildStep
<1> QED BY <1>2, <1>4, <1>5 DEF OwnBuild, Filled

\* Nobody else has its revision.
LEMMA BuildsApart ==
  ASSUME Apart, NEW q \in Requests, NEW o \in Requests, OwnBuild(q), OwnBuild(o), q # o,
         build[<<q, 1>>].step # "none", build[<<o, 1>>].step # "none"
  PROVE  build[<<q, 1>>].revision # build[<<o, 1>>].revision
  BY DEF Apart, OwnBuild

LEMMA BuildKeepsOwned ==
  ASSUME IInv, NEW e \in Executions, BuildStep(e), Calm, Calm'
  PROVE  Owned'
<1>0. /\ config.revision <= Cardinality(Asked) /\ Apart
      /\ \A revision \in Revisions : wanted[revision] \subseteq confirmed
      /\ \A q \in Requests : OwnBuild(q)
      /\ config.active # 0 => Complete(config.active)
      /\ TypeOK /\ Compared /\ Ordered
      /\ "lost_write" \notin mishaps /\ "lost_write" \notin mishaps'
  BY DEF IInv, Owned, Calm
<1>1. build[e].step \in {"queued", "cleared", "persisted", "finalizing", "stale"}
  BY DEF BuildStep, StartBuild, StartFails, PersistChunks, PersistFails, FinalizeRead,
         FinalizeWrite, DropStaleGraph
<1>2. PICK q \in Requests : e = <<q, 1>>
  <2>1. PICK q \in Requests, n \in {1, 2} : e = <<q, n>>
    BY DEF Executions, Deliveries
  <2>2. build[<<q, 2>>].step = "none"
    BY <1>0 DEF OwnBuild
  <2> QED BY <1>1, <2>1, <2>2
<1> DEFINE b == build[e]
<1>3. /\ request' = request /\ confirmed' = confirmed /\ wanted' = wanted
      /\ b.revision = build'[e].revision
      /\ \A o \in Executions \ {e} : build'[o] = build[o]
      /\ \A r \in Revisions \ {b.revision} :
           graph'[r] = graph[r] /\ skipped'[r] = skipped[r]
  BY <1>0, BuildFrame
<1>4. /\ config'.revision = config.revision
      /\ \/ config' = config
         \/ /\ b.step = "finalizing" /\ build'[e].step = "ended" /\ graph' = graph
            /\ skipped' = skipped /\ config'.active = b.revision
  BY <1>0, BuildWrites
<1>5. /\ \A o \in Requests : build[<<o, 1>>].revision \in Nat
      /\ \A o \in Requests : build[<<o, 1>>].revision <= config.revision
      /\ config.active \in Nat /\ config.active <= config.revision
  BY <1>0, TypesOf, ExecutionNames DEF Ordered, ABuild
<1>6. \A o \in Requests : build[<<o, 1>>].step # "none" => build[<<o, 1>>].revision \in Revisions
  BY <1>0, <1>5, RevisionsExist DEF OwnBuild
<1>7. OwnBuild(q)'
  BY <1>0, <1>1, <1>2, <1>6, OwnBuildKept
<1>8. ASSUME NEW o \in Requests \ {q} PROVE OwnBuild(o)'
  <2>1. /\ build'[<<o, 1>>] = build[<<o, 1>>] /\ build'[<<o, 2>>] = build[<<o, 2>>]
    BY <1>2, <1>3, ExecutionNames
  <2>2. CASE build[<<o, 1>>].step = "none"
    BY <1>0, <1>3, <2>1, <2>2 DEF OwnBuild, Filled
  <2>3. CASE build[<<o, 1>>].step # "none"
    <3>1. build[<<o, 1>>].revision # b.revision
      BY <1>0, <1>1, <1>2, <2>3, BuildsApart
    <3>2. /\ graph'[build[<<o, 1>>].revision] = graph[build[<<o, 1>>].revision]
          /\ skipped'[build[<<o, 1>>].revision] = skipped[build[<<o, 1>>].revision]
      BY <1>3, <1>6, <2>3, <3>1
    <3> QED BY <1>0, <1>3, <2>1, <3>2 DEF OwnBuild, Filled
  <2> QED BY <2>2, <2>3
<1>9. ASSUME config'.active # 0 PROVE Complete(config.active)'
  <2>1. CASE config' = config
    <3>1. PICK w \in Requests : /\ build[<<w, 1>>].step = "ended"
                                /\ build[<<w, 1>>].revision = config.active
      BY <1>0, <1>9, <2>1 DEF Complete
    <3>2. w # q /\ build[<<w, 1>>].step # "none" /\ build[<<q, 1>>].step # "none"
      BY <1>1, <1>2, <3>1
    <3>3. config.active # b.revision
      BY <1>0, <1>2, <3>1, <3>2, BuildsApart
    <3>4. config.active \in Revisions
      BY <1>6, <3>1, <3>2
    <3>5. graph'[config.active] = graph[config.active] /\ skipped'[config.active] = skipped[config.active]
      BY <1>3, <3>3, <3>4
    <3>6. build'[<<w, 1>>] = build[<<w, 1>>]
      BY <1>2, <1>3, <3>2, ExecutionNames
    <3> QED BY <1>0, <1>3, <1>9, <2>1, <3>1, <3>5, <3>6 DEF Complete
  <2>2. CASE /\ b.step = "finalizing" /\ build'[e].step = "ended" /\ graph' = graph
             /\ skipped' = skipped /\ config'.active = b.revision
    <3>1. Filled(b)
      BY <1>0, <1>2 DEF OwnBuild
    <3>2. /\ graph[b.revision] # NoGraph
          /\ wanted[b.revision] \ skipped[b.revision] \subseteq graph[b.revision]
      BY <2>2, <3>1 DEF Filled
    <3> QED BY <1>2, <1>3, <2>2, <3>2 DEF Complete
  <2> QED BY <1>4, <2>1, <2>2
<1>10. Asked' = Asked /\ Apart'
  BY <1>0, <1>3 DEF Asked, Apart
<1>11. \A o \in Requests : OwnBuild(o)'
  BY <1>7, <1>8
<1> QED BY <1>0, <1>3, <1>4, <1>9, <1>10, <1>11 DEF Owned

\* A request that writes the config gets a revision that nobody has, and is
\* the first to say which documents it wants.
LEMMA RequestKeepsOwned ==
  ASSUME IInv, NEW q \in Requests, Calm, Calm',
         ConfirmDocuments(q) \/ RequestStep(q) \/ RequestDies(q)
  PROVE  Owned'
<1>0. /\ config.revision <= Cardinality(Asked) /\ Apart
      /\ \A revision \in Revisions : wanted[revision] \subseteq confirmed
      /\ \A o \in Requests : OwnBuild(o)
      /\ config.active # 0 => Complete(config.active)
      /\ TypeOK /\ Compared /\ Ordered
      /\ "lost_write" \notin mishaps /\ "lost_write" \notin mishaps'
  BY DEF IInv, Owned, Calm
<1>1. /\ config.revision \in Nat /\ config.active \in Nat /\ config.active <= config.revision
      /\ request \in [Requests -> ARequest]
      /\ \A o \in Requests : request[o].revision \in Nat
      /\ \A o \in Requests : request[o].revision <= config.revision
      /\ \A o \in Requests : build[<<o, 1>>].revision <= config.revision
      /\ \A o \in Requests : build[<<o, 1>>].revision \in Nat
      /\ wanted \in [Revisions -> SUBSET Requests]
  BY <1>0, TypesOf, ExecutionNames DEF Ordered, ARequest, ABuild
<1>2. \A o \in Requests \ {q} : request'[o] = request[o]
  BY <1>0, PrepareWrites, RequestWrites
<1>3. CASE PrepareWrite(q)
  <2> DEFINE next == config.revision + 1
  <2>1. /\ config'.revision = next /\ config'.active = config.active
        /\ request'[q].revision = next /\ request'[q].step = "prepared"
        /\ request[q].step = "read"
        /\ wanted' = [wanted EXCEPT ![next] = @ \cup confirmed]
        /\ UNCHANGED <<confirmed, build, graph, skipped>>
    BY <1>0, <1>3, PrepareWrites
  <2>2. request[q].revision = 0 /\ build[<<q, 1>>].step = "none"
    BY <1>0, <2>1 DEF OwnBuild
  <2>3. next # 0 /\ next \in Nat /\ \A o \in Requests : request[o].revision # next
    BY <1>1
  <2>4. config'.revision <= Cardinality(Asked')
    <3>1. Asked' = Asked \cup {q} /\ q \notin Asked
      BY <1>2, <2>1, <2>2, <2>3 DEF Asked
    <3>2. Cardinality(Asked \cup {q}) = Cardinality(Asked) + 1
      BY <1>0, <3>1, AskedTypes, FS_AddElement
    <3>3. Cardinality(Asked) \in Nat
      BY <1>0, AskedTypes
    <3> QED BY <1>0, <1>1, <2>1, <3>1, <3>2, <3>3
  <2>5. Apart'
    BY <1>0, <1>2, <2>1, <2>3 DEF Apart
  <2>6. \A revision \in Revisions : wanted'[revision] \subseteq confirmed'
    BY <1>0, <1>1, <2>1
  <2>7. \A revision \in Revisions \ {next} : wanted'[revision] = wanted[revision]
    BY <1>1, <2>1
  <2>8. ASSUME NEW o \in Requests PROVE OwnBuild(o)'
    <3>1. build' = build /\ graph' = graph /\ skipped' = skipped
      BY <2>1
    <3>2. CASE build[<<o, 1>>].step = "none"
      BY <1>0, <1>2, <2>1, <2>3, <3>1, <3>2 DEF OwnBuild, Filled
    <3>3. CASE build[<<o, 1>>].step # "none"
      <4>1. o # q
        BY <2>2, <3>3
      <4>2. /\ build[<<o, 1>>].revision # next
            /\ build[<<o, 1>>].revision \in Revisions
        BY <1>0, <1>1, <2>3, <3>3, RevisionsExist DEF OwnBuild
      <4>3. wanted'[build[<<o, 1>>].revision] = wanted[build[<<o, 1>>].revision]
        BY <2>7, <4>2
      <4> QED BY <1>0, <1>2, <3>1, <4>1, <4>3 DEF OwnBuild, Filled
    <3> QED BY <3>2, <3>3
  <2>9. ASSUME config'.active # 0 PROVE Complete(config.active)'
    <3>1. config.active # next /\ config.active \in Revisions /\ config.active # 0
      BY <1>0, <1>1, <2>1, <2>9, RevisionsExist
    <3>2. wanted'[config.active] = wanted[config.active]
      BY <2>7, <3>1
    <3>3. Complete(config.active)
      BY <1>0, <3>1
    <3> QED BY <2>1, <3>2, <3>3 DEF Complete
  <2> QED BY <2>4, <2>5, <2>6, <2>8, <2>9 DEF Owned
<1>4. CASE ~ PrepareWrite(q)
  <2>0. /\ config' = config /\ wanted' = wanted /\ request'[q].revision = request[q].revision
        /\ graph' = graph /\ skipped' = skipped /\ confirmed \subseteq confirmed'
    BY <1>0, <1>4, RequestWrites
  <2>1. Asked' = Asked /\ Apart'
    BY <1>0, <1>2, <2>0 DEF Asked, Apart
  <2>3. \/ build' = build
        \/ /\ SendBuild(q) /\ request[q].step = "prepared"
           /\ build'[<<q, 1>>].step = "queued"
           /\ build'[<<q, 1>>].revision = request[q].revision
           /\ \A o \in Executions \ {<<q, 1>>} : build'[o] = build[o]
    BY <1>0, RequestBuilds
  <2>4. ASSUME NEW o \in Requests \ {q} PROVE OwnBuild(o)'
    <3>1. build'[<<o, 1>>] = build[<<o, 1>>] /\ build'[<<o, 2>>] = build[<<o, 2>>]
      BY <2>3, ExecutionNames
    <3> QED BY <1>0, <1>2, <2>0, <3>1 DEF OwnBuild, Filled
  <2>5. OwnBuild(q)'
    <3>1. request[q].step # "ended" /\ request[q] \in ARequest
      BY <1>1 DEF ConfirmDocuments, RequestStep, RequestDies, PrepareRead, PrepareWrite,
                  SendBuild, SendFails
    <3>2. build[<<q, 1>>].step = "none" /\ build[<<q, 2>>].step = "none"
      BY <1>0, <3>1 DEF OwnBuild
    <3>3. CASE SendBuild(q)
      <4>1. request'[q].step = "ended"
        BY <1>1, <3>1, <3>3 DEF SendBuild, ARequest
      <4>2. build'[<<q, 2>>].step = "none" /\ request[q].revision # 0
        BY <1>0, <2>3, <3>2, <3>3, ExecutionNames DEF OwnBuild, SendBuild
      <4>3. build'[<<q, 1>>].step \in {"none", "queued"}
        BY <2>3, <3>2
      <4>4. build'[<<q, 1>>].step # "none" => build'[<<q, 1>>].revision = request[q].revision
        BY <2>3, <3>2
      <4> QED BY <2>0, <4>1, <4>2, <4>3, <4>4 DEF OwnBuild, Filled
    <3>4. CASE ~ SendBuild(q)
      <4>1. build' = build
        BY <2>3, <3>4
      <4>2. \/ request'[q].step = "ended"
            \/ /\ request[q].step \in {"idle", "confirmed", "read"}
               /\ request'[q].step \in {"confirmed", "read"}
        <5>1. CASE ConfirmDocuments(q) BY <1>1, <3>1, <5>1 DEF ConfirmDocuments, ARequest
        <5>2. CASE PrepareRead(q) BY <1>1, <3>1, <5>2 DEF PrepareRead, ARequest
        <5>3. CASE SendFails(q) BY <1>1, <3>1, <5>3 DEF SendFails, ARequest
        <5>4. CASE RequestDies(q) BY <1>1, <3>1, <5>4 DEF RequestDies, ARequest
        <5> QED BY <1>4, <3>4, <5>1, <5>2, <5>3, <5>4 DEF RequestStep
      <4> QED BY <1>0, <2>0, <3>2, <4>1, <4>2 DEF OwnBuild, Filled
    <3> QED BY <3>3, <3>4
  <2>6. ASSUME config'.active # 0 PROVE Complete(config.active)'
    <3>1. Complete(config.active)
      BY <1>0, <2>0, <2>6
    <3>2. PICK w \in Requests : /\ build[<<w, 1>>].step = "ended"
                                /\ build[<<w, 1>>].revision = config.active
      BY <3>1 DEF Complete
    <3>3. build'[<<w, 1>>] = build[<<w, 1>>]
      <4>1. CASE w = q
        <5>1. request[q].step = "ended"
          BY <1>0, <3>2, <4>1 DEF OwnBuild
        <5> QED BY <2>3, <4>1, <5>1
      <4> QED BY <2>3, <4>1, ExecutionNames
    <3> QED BY <2>0, <3>1, <3>2, <3>3 DEF Complete
  <2>7. \A revision \in Revisions : wanted'[revision] \subseteq confirmed'
    BY <1>0, <2>0
  <2> QED BY <1>0, <2>0, <2>1, <2>4, <2>5, <2>6, <2>7 DEF Owned
<1> QED BY <1>3, <1>4

LEMMA OwnedKept ==
  ASSUME IInv, [Next]_vars
  PROVE  Owned'
<1> SUFFICES ASSUME Calm' PROVE Owned'
  BY DEF Owned
<1>1. ASSUME NEW e \in Executions, BuildStep(e) PROVE Owned'
  <2>1. Calm
    <3>1. mishaps \subseteq mishaps'
      BY <1>1 DEF BuildStep, StartBuild, StartFails, PersistChunks, PersistFails, FinalizeRead,
                  FinalizeWrite, DropStaleGraph, Raise, WriteConfig
    <3> QED BY <3>1 DEF Calm
  <2> QED BY <1>1, <2>1, BuildKeepsOwned
<1>2. ASSUME NEW q \in Requests, ConfirmDocuments(q) \/ RequestStep(q) \/ RequestDies(q)
      PROVE  Owned'
  <2>1. Calm
    <3>1. mishaps \subseteq mishaps'
      BY <1>2 DEF ConfirmDocuments, RequestStep, RequestDies, PrepareRead, PrepareWrite, SendBuild,
                  SendFails, WriteConfig
    <3> QED BY <3>1 DEF Calm
  <2> QED BY <1>2, <2>1, RequestKeepsOwned
<1>3. ASSUME NEW q \in Requests, Redeliver(q) PROVE FALSE
  BY <1>3 DEF Redeliver, Calm
<1>4. CASE FailureStep \/ UpdateCollection \/ DeleteCollection \/ UNCHANGED vars
  <2>1. /\ "lost_write" \notin mishaps' /\ "redelivered" \notin mishaps' /\ TypeOK
    BY DEF Calm, IInv
  <2>2. /\ config'.revision = config.revision /\ config'.active = config.active
        /\ request' = request /\ confirmed' = confirmed /\ wanted' = wanted /\ graph' = graph
        /\ skipped' = skipped
    BY <1>4, <2>1, OtherWrites
  <2>3. build' = build /\ mishaps \subseteq mishaps'
    BY <1>4 DEF FailureStep, FailureRead, FailureWrite, UpdateCollection, DeleteCollection,
                vars, WriteConfig
  <2>4. Calm
    BY <2>3 DEF Calm
  <2> QED BY <2>2, <2>3, <2>4 DEF IInv, Owned, Asked, Apart, OwnBuild, Filled, Complete
<1> QED BY <1>1, <1>2, <1>3, <1>4 DEF Next

-----------------------------------------------------------------------------
LEMMA Initially ==
  ASSUME Init
  PROVE  IInv
<1>1. TypeOK
  <2>1. NewConfig \in Config /\ \A e \in Executions : build[e] \in ABuild
    BY FirstTypes DEF Init
  <2>2. request \in [Requests -> ARequest]
    BY <2>1 DEF Init, ARequest, RequestSteps
  <2> QED BY <2>1, <2>2 DEF Init, TypeOK, ARequest, ABuild
<1>2. Compared /\ Ordered
  BY FirstTypes DEF Init, Compared, Ordered
<1>3. Owned
  <2>1. Cardinality(Asked) \in Nat
    BY <1>1, AskedTypes
  <2>2. config.revision <= Cardinality(Asked)
    BY <2>1, FirstTypes DEF Init
  <2>3. \A q \in Requests : OwnBuild(q)
    BY FirstTypes, ExecutionNames DEF Init, OwnBuild, Filled
  <2>4. /\ Apart /\ config.active = 0
        /\ \A revision \in Revisions : wanted[revision] \subseteq confirmed
    BY FirstTypes DEF Init, Apart
  <2> QED BY <2>2, <2>3, <2>4 DEF Owned
<1> QED BY <1>1, <1>2, <1>3 DEF IInv

LEMMA Invariance ==
  ASSUME IInv, [Next]_vars
  PROVE  IInv'
<1>1. TypeOK'
  BY TypesKept DEF IInv
<1>2. Compared' /\ Ordered'
  BY ComparedKept, OrderedKept DEF IInv
<1>3. Owned'
  BY OwnedKept
<1> QED BY <1>1, <1>2, <1>3 DEF IInv

\* Every variable keeps its type, for any requests and retries.
THEOREM TypeCorrect == Spec => []TypeOK
<1>1. IInv => TypeOK
  BY DEF IInv
<1> QED BY <1>1, Initially, Invariance, PTL DEF Spec

\* The comparison in _finalize_success works: unless a write of the config
\* is lost, no build replaces the graph of a newer revision by its own, and
\* no revision is handed out twice, even if tasks are delivered twice.
THEOREM NewestWins == Spec => NewestGraphWins
<1>1. IInv /\ [Next]_vars =>
        [ "lost_write" \notin mishaps' =>
            /\ config'.active >= config.active
            /\ config'.revision >= config.revision ]_vars
  BY OrderedKept DEF IInv
<1> QED BY <1>1, Initially, Invariance, PTL DEF Spec, NewestGraphWins

\* The graph that is served has what was asked of it, whatever builds fail,
\* are retried, are overtaken or delete their graphs.
THEOREM ServedIsComplete == Spec => []ServedGraphIsComplete
<1>1. IInv => ServedGraphIsComplete
  BY DEF IInv, Owned, Calm, Complete, ServedGraphIsComplete
<1> QED BY <1>1, Initially, Invariance, PTL DEF Spec

=============================================================================
