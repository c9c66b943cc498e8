-------------------------- MODULE StreamProofs --------------------------
(***************************************************************************)
(* What a client is streamed, of a flow and of a chat.                     *)
(*                                                                         *)
(* For every set of nodes and every set of graphs: a node is created only  *)
(* when the outputs its inputs may refer to are there, the end of the flow *)
(* is announced once, last, and after two events of every node, and a flow *)
(* is rejected exactly if a node can be reached from itself or an edge has *)
(* an end that is no node.                                                 *)
(*                                                                         *)
(* For any messages and chats: an answer of an agent is framed by its      *)
(* start and its end, and the session it comes from is open when it is     *)
(* handed out.                                                             *)
(***************************************************************************)
EXTENDS FlowEngine, AgentChat, FiniteSetTheorems, WellFoundedInduction, TLAPS

TypeOf == /\ edges \subseteq Names \X Names
          /\ node \in [Nodes -> NodeSteps]
          /\ outputs \subseteq Nodes
          /\ group \subseteq grouped /\ grouped \subseteq Nodes

\* The groups taken so far are closed under sources, and all but the last
\* of them are done.
Levels ==
  /\ engine = "new" => grouped = {}
  /\ \A n \in Nodes : n \notin grouped <=> node[n] = "waiting"
  /\ \A n \in grouped : Sources(n) \subseteq grouped \ group
  /\ \A n \in grouped \ group : node[n] = "done"
  /\ \A n \in Nodes : node[n] = "done" => n \in outputs

IInv == TypeOf /\ Levels

LEMMA LevelsInit == Init => IInv
BY GraphsAssumption DEF Init, IInv, TypeOf, Levels, NodeSteps

\* Taking the next group keeps the groups closed, if the last one is done.
LEMMA NextGroupKeeps ==
  ASSUME IInv, GroupDone, NextGroup(grouped), UNCHANGED <<edges, outputs>>, engine' # "new"
  PROVE  IInv'
<1> USE DEF IInv, TypeOf, Levels
<1>1. group' = Independent(grouped) /\ grouped' = grouped \cup group'
  BY DEF NextGroup
<1>2. group' \subseteq Nodes /\ grouped' \ group' = grouped
  BY <1>1 DEF Independent
<1>3. \A n \in Nodes : node'[n] = IF n \in group' THEN "created" ELSE node[n]
  BY DEF NextGroup
<1>4. node' \in [Nodes -> NodeSteps]
  BY DEF NextGroup, NodeSteps
<1>5. \A n \in grouped : node[n] = "done"
  BY DEF GroupDone
<1>6. \A n \in grouped' : Sources(n)' \subseteq grouped' \ group'
  <2>1. \A n \in Nodes : Sources(n)' = Sources(n)
    BY DEF Sources
  <2>2. \A n \in grouped : Sources(n) \subseteq grouped
    OBVIOUS
  <2>3. \A n \in Independent(grouped) : Sources(n) \subseteq grouped
    BY DEF Independent
  <2>. QED BY <1>1, <1>2, <2>1, <2>2, <2>3
<1>7. \A n \in Nodes : n \notin grouped' <=> node'[n] = "waiting"
  BY <1>1, <1>2, <1>3
<1>8. \A n \in grouped' \ group' : node'[n] = "done"
  BY <1>2, <1>3, <1>5
<1>9. \A n \in Nodes : node'[n] = "done" => n \in outputs'
  BY <1>3
<1>10. edges' \subseteq Names \X Names /\ outputs' \subseteq Nodes
  OBVIOUS
<1>11. group' \subseteq grouped' /\ grouped' \subseteq Nodes
  BY <1>1, <1>2
<1>12. TypeOf'
  BY <1>4, <1>10, <1>11
<1>13. Levels'
  BY <1>6, <1>7, <1>8, <1>9
<1>. QED BY <1>12, <1>13

\* A step of a node keeps it in its group, and done only with its output.
LEMMA NodeStepKeeps ==
  ASSUME IInv, NEW n \in Nodes, NodeStep(n)
  PROVE  IInv'
<1> USE DEF IInv, TypeOf, Levels
<1>1. /\ UNCHANGED <<edges, engine, group, grouped>>
      /\ node[n] \in {"created", "running"}
      /\ \E s \in {"running", "done", "failed"} : node' = [node EXCEPT ![n] = s]
      /\ outputs \subseteq outputs' /\ outputs' \subseteq Nodes
      /\ node'[n] = "done" => n \in outputs'
  BY DEF NodeStep, StartNode, UnknownType, EndNode, FailNode
<1>2. \A m \in Nodes : Sources(m)' = Sources(m)
  BY <1>1 DEF Sources
<1>3. node' \in [Nodes -> NodeSteps]
  BY <1>1 DEF NodeSteps
<1>4. \A m \in Nodes \ {n} : node'[m] = node[m]
  BY <1>1
<1>5. n \in grouped /\ node'[n] # "waiting" /\ n \notin grouped \ group
  BY <1>1
<1>. QED BY <1>1, <1>2, <1>3, <1>4, <1>5

LEMMA Invariance == Spec => []IInv
<1>1. IInv /\ [Next]_vars => IInv'
  <2> SUFFICES ASSUME IInv, [Next]_vars PROVE IInv'
    OBVIOUS
  <2>1. CASE StartFlow
    <3>1. grouped = {} /\ group = {}
      BY <2>1 DEF StartFlow, IInv, Levels, TypeOf
    <3>2. GroupDone /\ NextGroup(grouped) /\ UNCHANGED <<edges, outputs>> /\ engine' # "new"
      BY <2>1, <3>1 DEF StartFlow, GroupDone
    <3>. QED BY <3>2, NextGroupKeeps
  <2>2. CASE AdvanceGroup
    <3>1. GroupDone /\ NextGroup(grouped) /\ UNCHANGED <<edges, outputs>> /\ engine' # "new"
      BY <2>2 DEF AdvanceGroup
    <3>. QED BY <3>1, NextGroupKeeps
  <2>3. CASE RejectFlow \/ EndFlow \/ FailFlow
    BY <2>3 DEF RejectFlow, EndFlow, FailFlow, IInv, TypeOf, Levels, Sources
  <2>4. ASSUME NEW n \in Nodes, NodeStep(n) PROVE IInv'
    BY <2>4, NodeStepKeeps
  <2>5. CASE StreamStep \/ Disconnect \/ UNCHANGED vars
    BY <2>5 DEF StreamStep, SendEvent, AwaitFlow, Answer, Disconnect, vars,
               IInv, TypeOf, Levels, Sources
  <2>. QED BY <2>1, <2>2, <2>3, <2>4, <2>5 DEF Next, EngineStep
<1>. QED BY <1>1, LevelsInit, PTL DEF Spec

\* No node is started before the nodes it has edges from have put their
\* outputs into the context.
THEOREM InputsReady == Spec => []InputsAreReady
<1>1. IInv => InputsAreReady
  BY DEF IInv, TypeOf, Levels, InputsAreReady
<1>. QED BY <1>1, Invariance, PTL

-----------------------------------------------------------------------------
(* The events: two of every node that is done, one of every node that runs.  *)

Events == [type : EventTypes, of : Nodes \cup {Flow}]
At(step) == {n \in Nodes : node[n] = step}

Typed ==
  /\ edges \in Graphs /\ engine \in EngineSteps /\ stream \in StreamSteps
  /\ events \in Seq(Events) /\ sent \in 0 .. Len(events)

\* Nothing was announced before the end, and what has failed stays failed, so
\* that a flow which ends has counted every event.
Counted ==
  /\ engine = "new" => events = <<>>
  /\ engine = "running" /\ At("failed") = {} =>
       Len(events) = 1 + Cardinality(At("running")) + 2 * Cardinality(At("done"))
  /\ engine # "returned" => ~ Ended
  /\ engine = "returned" =>
       /\ \A n \in Nodes : node[n] = "done"
       /\ events[Len(events)] = Event("end", Flow)
       /\ Len(events) = 2 * Cardinality(Nodes) + 2

CInv == IInv /\ Typed /\ Counted

\* Sets of nodes are finite.
LEMMA NodesFinite ==
  \A step : IsFiniteSet(At(step)) /\ Cardinality(At(step)) \in Nat
BY NodesAssumption, FS_Subset, FS_CardinalityType DEF At

\* One more event, of a node or of the flow.
LEMMA Emitted ==
  ASSUME events \in Seq(Events), NEW type \in EventTypes, NEW of \in Nodes \cup {Flow},
         Emit(type, of)
  PROVE  /\ events' \in Seq(Events) /\ Len(events') = Len(events) + 1
         /\ events'[Len(events')] = Event(type, of)
         /\ ~ (type = "end" /\ of = Flow) /\ ~ Ended => ~ Ended'
<1>1. Event(type, of) \in Events
  BY DEF Event, Events
<1>2. /\ events' \in Seq(Events) /\ Len(events') = Len(events) + 1 /\ Len(events) \in Nat
      /\ events'[Len(events')] = Event(type, of)
      /\ \A k \in 1 .. Len(events) : events'[k] = events[k]
  BY <1>1 DEF Emit
<1>3. ASSUME ~ (type = "end" /\ of = Flow), ~ Ended PROVE ~ Ended'
  <2>1. Event(type, of) # Event("end", Flow)
    BY <1>3 DEF Event
  <2>2. \A k \in 1 .. Len(events') : k \in 1 .. Len(events) \/ k = Len(events')
    BY <1>2
  <2>. QED BY <1>2, <1>3, <2>1, <2>2 DEF Ended, Event
<1>. QED BY <1>2, <1>3

\* Nothing is failed, running or done in a group that has just been created.
LEMMA NextGroupCounts ==
  ASSUME IInv, NextGroup(grouped)
  PROVE  \A step \in {"running", "done", "failed"} : At(step)' = At(step)
<1>1. \A n \in Nodes : node'[n] = IF n \in Independent(grouped) THEN "created" ELSE node[n]
  BY DEF NextGroup
<1>2. \A n \in Independent(grouped) : node[n] = "waiting"
  BY DEF Independent, IInv, Levels
<1>. QED BY <1>1, <1>2 DEF At

\* A step of the engine keeps the count.
LEMMA EngineCounts ==
  ASSUME CInv, EngineStep
  PROVE  Typed' /\ Counted'
<1> USE DEF CInv, Typed
<1>0. /\ "start" \in EventTypes /\ "end" \in EventTypes /\ "error" \in EventTypes
      /\ "running" \in EngineSteps /\ "raised" \in EngineSteps /\ "returned" \in EngineSteps
      /\ Flow \in Nodes \cup {Flow} /\ Flow \notin Nodes /\ Len(events) \in Nat
      /\ \A of : Event("start", of) # Event("end", Flow) /\ Event("error", of) # Event("end", Flow)
  BY NodesAssumption DEF EventTypes, EngineSteps, Event
<1>1. CASE StartFlow
  <2>1. /\ Emit("start", Flow) /\ engine' = "running" /\ events = <<>> /\ ~ Ended
        /\ UNCHANGED <<edges, sent, stream>> /\ grouped = {}
    BY <1>1 DEF StartFlow, Counted, IInv, Levels
  <2>2. \A step \in {"running", "done", "failed"} : At(step)' = {}
    BY <1>1, <2>1, NextGroupCounts DEF StartFlow, At, IInv, Levels
  <2>3. events' \in Seq(Events) /\ Len(events') = 1 /\ ~ Ended' /\ Len(events) = 0
    BY <1>0, <2>1, Emitted
  <2>4. Cardinality(At("running")') = 0 /\ Cardinality(At("done")') = 0
    BY <2>2, FS_EmptySet
  <2>. QED BY <1>0, <2>1, <2>3, <2>4 DEF Counted
<1>2. CASE RejectFlow
  <2> DEFINE new == <<Event("start", Flow), Event("error", Flow)>>
  <2>1. events = <<>> /\ events' = events \o new /\ engine' = "raised" /\ UNCHANGED <<edges, sent, stream>>
    BY <1>2 DEF RejectFlow, Counted
  <2>2. new \in Seq(Events)
    BY <1>0 DEF Event, Events
  <2>3. events' \in Seq(Events) /\ Len(events') = 2
        /\ events'[1] = Event("start", Flow) /\ events'[2] = Event("error", Flow)
    BY <2>1, <2>2
  <2>4. ~ Ended'
    BY <1>0, <2>3 DEF Ended, Event
  <2>. QED BY <1>0, <2>1, <2>3, <2>4 DEF Counted
<1>3. CASE AdvanceGroup
  <2>1. /\ engine = "running" /\ NextGroup(grouped)
        /\ UNCHANGED <<edges, engine, outputs, events, sent, stream>>
    BY <1>3 DEF AdvanceGroup
  <2>2. At("running")' = At("running") /\ At("done")' = At("done") /\ At("failed")' = At("failed")
    BY <2>1, NextGroupCounts
  <2>3. Ended' = Ended
    BY <2>1 DEF Ended
  <2>. QED BY <2>1, <2>2, <2>3 DEF Counted
<1>4. CASE EndFlow
  <2>1. /\ engine = "running" /\ engine' = "returned" /\ Emit("end", Flow)
        /\ UNCHANGED <<edges, group, grouped, node, outputs, sent, stream>>
    BY <1>4 DEF EndFlow
  <2>2. \A n \in Nodes : node[n] = "done"
    BY <1>4 DEF EndFlow, GroupDone, IInv, Levels, TypeOf
  <2>3. At("failed") = {} /\ At("running") = {} /\ At("done") = Nodes
    BY <2>2 DEF At
  <2>4. Len(events) = 1 + 2 * Cardinality(Nodes) /\ Cardinality(Nodes) \in Nat
    BY <2>1, <2>3, FS_EmptySet, NodesFinite DEF Counted
  <2>5. /\ events' \in Seq(Events) /\ Len(events') = Len(events) + 1
        /\ events'[Len(events')] = Event("end", Flow)
    BY <1>0, <2>1, Emitted
  <2>. QED BY <1>0, <2>1, <2>2, <2>4, <2>5 DEF Counted
<1>5. CASE FailFlow
  <2>1. /\ engine = "running" /\ engine' = "raised" /\ Emit("error", Flow) /\ ~ Ended
        /\ UNCHANGED <<edges, group, grouped, node, outputs, sent, stream>>
    BY <1>5 DEF FailFlow, Counted
  <2>2. events' \in Seq(Events) /\ Len(events') = Len(events) + 1 /\ ~ Ended'
    BY <1>0, <2>1, Emitted
  <2>. QED BY <1>0, <2>1, <2>2 DEF Counted
<1>. QED BY <1>1, <1>2, <1>3, <1>4, <1>5 DEF EngineStep

\* So does a step of a node, which a flow that has returned does not take.
LEMMA NodeCounts ==
  ASSUME CInv, NEW n \in Nodes, NodeStep(n)
  PROVE  Typed' /\ Counted'
<1> USE DEF CInv, Typed
<1>0. /\ \A type \in EventTypes : Event(type, n) # Event("end", Flow)
      /\ "start" \in EventTypes /\ "end" \in EventTypes /\ "error" \in EventTypes
      /\ n # Flow /\ n \in Nodes \cup {Flow} /\ node \in [Nodes -> NodeSteps] /\ Len(events) \in Nat
  BY NodesAssumption DEF EventTypes, Event, IInv, TypeOf
<1>1. /\ UNCHANGED <<edges, engine, sent, stream>> /\ node[n] \in {"created", "running"}
      /\ \/ events' = events
         \/ \E type \in EventTypes : Emit(type, n)
  BY <1>0 DEF NodeStep, StartNode, UnknownType, EndNode, FailNode
<1>2. engine # "returned" /\ engine # "new"
  <2>1. engine # "returned"
    BY <1>1 DEF Counted
  <2>2. engine = "new" => node[n] = "waiting"
    BY DEF IInv, Levels
  <2>. QED BY <1>1, <2>1, <2>2
<1>3. events' \in Seq(Events) /\ Len(events') \in Nat /\ Len(events') >= Len(events) /\ ~ Ended'
  <2>1. ~ Ended
    BY <1>2 DEF Counted
  <2>2. CASE events' = events
    BY <1>0, <2>1, <2>2 DEF Ended
  <2>3. ASSUME NEW type \in EventTypes, Emit(type, n)
        PROVE events' \in Seq(Events) /\ Len(events') = Len(events) + 1 /\ ~ Ended'
    BY <1>0, <2>1, <2>3, Emitted
  <2>. QED BY <1>0, <1>1, <2>2, <2>3
<1>4. ASSUME engine = "running", At("failed")' = {}
      PROVE  Len(events') = 1 + Cardinality(At("running")') + 2 * Cardinality(At("done")')
  <2>1. node'[n] # "failed" /\ \A m \in Nodes : m # n => node'[m] = node[m]
    BY <1>0, <1>4 DEF At, NodeStep, StartNode, UnknownType, EndNode, FailNode
  <2>2. At("failed") = {}
    BY <1>1, <1>4, <2>1 DEF At
  <2>3. Len(events) = 1 + Cardinality(At("running")) + 2 * Cardinality(At("done"))
    BY <1>4, <2>2 DEF Counted
  <2>4. CASE StartNode(n)
    <3>1. At("running")' = At("running") \cup {n} /\ n \notin At("running") /\ At("done")' = At("done")
      BY <1>0, <2>4 DEF StartNode, At
    <3>2. Cardinality(At("running")') = Cardinality(At("running")) + 1
      BY <3>1, FS_AddElement, NodesFinite
    <3>3. Len(events') = Len(events) + 1
      BY <1>0, <2>4, Emitted DEF StartNode
    <3>. QED BY <2>3, <3>1, <3>2, <3>3, NodesFinite
  <2>5. CASE EndNode(n)
    <3>1. /\ At("running")' = At("running") \ {n} /\ n \in At("running")
          /\ At("done")' = At("done") \cup {n} /\ n \notin At("done")
      BY <1>0, <2>5 DEF EndNode, At
    <3>2. Cardinality(At("running")') = Cardinality(At("running")) - 1
      <4>1. Cardinality(At("running") \ {n}) = Cardinality(At("running")) - 1
        BY <3>1, FS_RemoveElement, NodesFinite
      <4>. QED BY <3>1, <4>1
    <3>4. Cardinality(At("done")') = Cardinality(At("done")) + 1
      <4>1. Cardinality(At("done") \cup {n}) = Cardinality(At("done")) + 1
        BY <3>1, FS_AddElement, NodesFinite
      <4>. QED BY <3>1, <4>1
    <3>3. Len(events') = Len(events) + 1
      BY <1>0, <2>5, Emitted DEF EndNode
    <3>. QED BY <2>3, <3>2, <3>3, <3>4, NodesFinite
  <2>6. ~ UnknownType(n) /\ ~ FailNode(n)
    BY <1>0, <2>1 DEF UnknownType, FailNode
  <2>. QED BY <2>4, <2>5, <2>6 DEF NodeStep
<1>5. Typed'
  BY <1>0, <1>1, <1>3
<1>6. Counted'
  BY <1>1, <1>2, <1>3, <1>4 DEF Counted
<1>. QED BY <1>5, <1>6

\* The stream emits nothing.
LEMMA StreamCounts ==
  ASSUME CInv, StreamStep \/ Disconnect \/ UNCHANGED vars
  PROVE  Typed' /\ Counted'
<1> USE DEF CInv, Typed
<1>1. UNCHANGED <<edges, engine, node, events>>
  BY DEF StreamStep, SendEvent, AwaitFlow, Answer, Disconnect, vars
<1>2. Counted'
  <2>1. Ended' = Ended /\ \A step : At(step)' = At(step)
    BY <1>1 DEF Ended, At
  <2>. QED BY <1>1, <2>1 DEF Counted
<1>3. sent' \in 0 .. Len(events) /\ stream' \in StreamSteps
  <2>1. CASE SendEvent
    <3>1. sent + 1 \in 1 .. Len(events) /\ sent' = sent + 1 /\ stream' = AfterEvent(events[sent + 1])
      BY <2>1 DEF SendEvent
    <3>2. events[sent + 1] \in Events
      BY <3>1
    <3>3. \A event \in Events : AfterEvent(event) \in StreamSteps
      BY DEF AfterEvent, Terminal, Event, Events, StreamSteps
    <3>. QED BY <3>1, <3>2, <3>3
  <2>2. CASE AwaitFlow \/ Answer \/ Disconnect \/ UNCHANGED vars
    BY <2>2 DEF AwaitFlow, Answer, Disconnect, vars, StreamSteps
  <2>. QED BY <2>1, <2>2 DEF StreamStep
<1>. QED BY <1>1, <1>2, <1>3

LEMMA Counting == Spec => []CInv
<1>1. Init => Typed /\ Counted
  <2> SUFFICES ASSUME Init PROVE Typed /\ Counted
    OBVIOUS
  <2>1. events \in Seq(Events) /\ Len(events) = 0
    BY DEF Init
  <2>. QED BY <2>1 DEF Init, Typed, Counted, Ended, EngineSteps, StreamSteps
<1>2. IInv /\ Typed /\ Counted /\ [Next]_vars => Typed' /\ Counted'
  BY EngineCounts, NodeCounts, StreamCounts DEF CInv, Next
<1>. QED BY <1>1, <1>2, Invariance, PTL DEF Spec, CInv

\* Every variable keeps its type, and the stream never sends what is not there.
THEOREM TypeCorrect == Spec => []TypeOK
<1>1. CInv => TypeOK
  BY DEF CInv, IInv, TypeOf, Typed, TypeOK, Events
<1>. QED BY <1>1, Counting, PTL

\* Whatever runs at once and whatever fails, the end of a flow is announced
\* once, as the last event, after every node has started and ended.
THEOREM EndAnnounced == Spec => []EndIsComplete
<1>1. CInv => EndIsComplete
  BY DEF CInv, Counted, EndIsComplete
<1>. QED BY <1>1, Counting, PTL

-----------------------------------------------------------------------------
(* Induction and recursion.  They are stated of sets and functions, not of  *)
(* operators: a set of numbers that is closed upwards, a run of a function. *)

\* A set of numbers that is not empty has a least one.
LEMMA LeastNumber ==
  ASSUME NEW T, T \subseteq Nat, T # {}
  PROVE  \E k \in T : \A j \in T : k <= j
<1> DEFINE R == {p \in Nat \X Nat : p[1] < p[2]}
<1>1. IsWellFoundedOn(R, Nat)
  BY NatLessThanWellFounded DEF OpToRel
<1>2. \A j \in Nat, k \in Nat : j < k => <<j, k>> \in R
  OBVIOUS
<1>3. \E k \in T : \A j \in T : <<j, k>> \notin R
  <2> HIDE DEF R
  <2>. QED BY <1>1, WFMin
<1> HIDE DEF R
<1>4. PICK k \in T : \A j \in T : <<j, k>> \notin R
  BY <1>3
<1>5. \A j \in T : k <= j
  <2> SUFFICES ASSUME NEW j \in T PROVE k <= j
    OBVIOUS
  <2>1. j \in Nat /\ k \in Nat /\ (j < k => <<j, k>> \in R) /\ <<j, k>> \notin R
    BY <1>2, <1>4, Zenon
  <2>. QED BY <2>1
<1>. QED BY <1>4, <1>5

\* Induction up to n: what holds of 0 and passes from k - 1 to k holds of all.
LEMMA Upwards ==
  ASSUME NEW n \in Nat, NEW T, 0 \in T, \A k \in 1 .. n : k - 1 \in T => k \in T
  PROVE  0 .. n \subseteq T
<1> SUFFICES ASSUME (0 .. n) \ T # {} PROVE FALSE
  OBVIOUS
<1>1. PICK k \in (0 .. n) \ T : \A j \in (0 .. n) \ T : k <= j
  <2>1. (0 .. n) \ T \subseteq Nat
    OBVIOUS
  <2>. QED BY <2>1, LeastNumber
<1>2. k \in 1 .. n /\ k - 1 \in 0 .. n /\ ~ (k <= k - 1)
  BY <1>1
<1>. QED BY <1>1, <1>2

\* The runs of n steps of a function from a value: there is one.
Runs(S, F, a, n) ==
  {g \in [0 .. n -> S] : g[0] = a /\ \A k \in 1 .. n : g[k] = F[g[k - 1]]}

LEMMA Iterates ==
  ASSUME NEW S, NEW F \in [S -> S], NEW a \in S, NEW n \in Nat
  PROVE  Runs(S, F, a, n) # {}
<1> DEFINE Run(m, g) == g[0] = a /\ \A k \in 1 .. m : g[k] = F[g[k - 1]]
           T == {m \in 0 .. n : \E g \in [0 .. m -> S] : Run(m, g)}
<1>1. 0 \in T
  <2>1. [k \in 0 .. 0 |-> a] \in [0 .. 0 -> S] /\ Run(0, [k \in 0 .. 0 |-> a])
    OBVIOUS
  <2>2. 0 \in 0 .. n
    OBVIOUS
  <2>. QED BY <2>1, <2>2, Zenon
<1>2. ASSUME NEW m \in 1 .. n, m - 1 \in T PROVE m \in T
  <2>1. PICK g \in [0 .. m - 1 -> S] : Run(m - 1, g)
    BY <1>2
  <2> DEFINE h == [k \in 0 .. m |-> IF k = m THEN F[g[m - 1]] ELSE g[k]]
  <2>2. m - 1 \in 0 .. m - 1 /\ \A k \in 0 .. m : k # m => k \in 0 .. m - 1
    OBVIOUS
  <2>3. h \in [0 .. m -> S]
    BY <2>2
  <2>4. \A k \in 1 .. m : h[k] = F[h[k - 1]]
    BY <2>1, <2>2
  <2>5. h[0] = a
    BY <2>1, <2>2
  <2> HIDE DEF h
  <2>. QED BY <2>3, <2>4, <2>5
<1>3. n \in T
  <2> HIDE DEF T
  <2>1. \A m \in 1 .. n : m - 1 \in T => m \in T
    BY <1>2
  <2>. QED BY <1>1, <2>1, Upwards
<1>. QED BY <1>3 DEF Runs

LEMMA NodeCount == Cardinality(Nodes) \in Nat
BY NodesAssumption, FS_CardinalityType

\* What the two recursive functions of the model compute, step by step.
LEMMA TakenUnfolds ==
  /\ Taken[0] = {}
  /\ \A k \in 1 .. Cardinality(Nodes) : Taken[k] = Taken[k - 1] \cup Independent(Taken[k - 1])
  /\ \A k \in 0 .. Cardinality(Nodes) : Taken[k] \subseteq Nodes
<1> DEFINE N == Cardinality(Nodes)
           F == [taken \in SUBSET Nodes |-> taken \cup Independent(taken)]
           Steps(t) == [k \in 0 .. N |-> IF k = 0 THEN {} ELSE t[k - 1] \cup Independent(t[k - 1])]
<1>0. N \in Nat /\ \A k \in 1 .. N : k \in 0 .. N /\ k - 1 \in 0 .. N /\ k # 0
  BY NodeCount
<1>1. F \in [SUBSET Nodes -> SUBSET Nodes]
  BY DEF Independent
<1>2. PICK g \in [0 .. N -> SUBSET Nodes] : g[0] = {} /\ \A k \in 1 .. N : g[k] = F[g[k - 1]]
  <2> DEFINE S == SUBSET Nodes
  <2>1. {} \in S
    OBVIOUS
  <2> HIDE DEF S, F, N
  <2>2. F \in [S -> S]
    BY <1>1 DEF S
  <2>3. Runs(S, F, {}, N) # {}
    BY <1>0, <2>1, <2>2, Iterates
  <2>. QED BY <2>3 DEF S, Runs
<1> HIDE DEF N
<1>3. \A k \in 1 .. N : g[k] = g[k - 1] \cup Independent(g[k - 1])
  BY <1>0, <1>2
<1>4. g = Steps(g)
  <2>1. \A k \in 0 .. N : k # 0 => k \in 1 .. N
    BY <1>0
  <2>. QED BY <1>2, <1>3, <2>1
<1>5. Taken = Steps(Taken)
  <2>1. \E t : t = Steps(t)
    BY <1>4
  <2>. QED BY <2>1, Zenon DEF Taken, N
<1>6. Taken[0] = {} /\ \A k \in 1 .. N : Taken[k] = Taken[k - 1] \cup Independent(Taken[k - 1])
  <2>1. 0 \in 0 .. N
    BY <1>0
  <2>. QED BY <1>0, <1>5, <2>1
<1>7. 0 .. N \subseteq {k \in 0 .. N : Taken[k] \subseteq Nodes}
  <2> DEFINE T == {k \in 0 .. N : Taken[k] \subseteq Nodes}
  <2>1. 0 \in T
    BY <1>0, <1>6
  <2>2. \A k \in 1 .. N : k - 1 \in T => k \in T
    BY <1>0, <1>6 DEF Independent
  <2> HIDE DEF T
  <2>3. 0 .. N \subseteq T
    BY <1>0, <2>1, <2>2, Upwards
  <2>. QED BY <2>3 DEF T
<1>. QED BY <1>6, <1>7 DEF N

\* The closure only grows, from the edges up.
LEMMA ClosureUnfolds ==
  ASSUME edges \subseteq Names \X Names
  PROVE  /\ Closure[0] = edges
         /\ \A k \in 1 .. Cardinality(Nodes) : Closure[k] = Reaches(Closure[k - 1])
         /\ \A k \in 0 .. Cardinality(Nodes) :
              edges \subseteq Closure[k] /\ Closure[k] \subseteq Closure[Cardinality(Nodes)]
<1> DEFINE N == Cardinality(Nodes)
           S == SUBSET (Names \X Names)
           F == [relation \in S |-> Reaches(relation)]
           Steps(c) == [k \in 0 .. N |-> IF k = 0 THEN edges ELSE Reaches(c[k - 1])]
<1>0. N \in Nat /\ 0 \in 0 .. N /\ \A k \in 1 .. N : k \in 0 .. N /\ k - 1 \in 0 .. N /\ k # 0
  BY NodeCount
<1>1. F \in [S -> S] /\ edges \in S
  BY DEF Reaches
<1> HIDE DEF N, S
<1>2. PICK g \in [0 .. N -> S] : g[0] = edges /\ \A k \in 1 .. N : g[k] = F[g[k - 1]]
  <2> HIDE DEF F
  <2>1. Runs(S, F, edges, N) # {}
    BY <1>0, <1>1, Iterates
  <2>. QED BY <2>1 DEF Runs
<1>3. \A k \in 1 .. N : g[k] = Reaches(g[k - 1])
  BY <1>0, <1>2
<1>4. g = Steps(g)
  <2>1. \A k \in 0 .. N : k # 0 => k \in 1 .. N
    BY <1>0
  <2>. QED BY <1>2, <1>3, <2>1
<1>5. Closure = Steps(Closure)
  <2>1. \E c : c = Steps(c)
    BY <1>4
  <2>. QED BY <2>1, Zenon DEF Closure, N
<1>6. Closure[0] = edges /\ \A k \in 1 .. N : Closure[k] = Reaches(Closure[k - 1])
  BY <1>0, <1>5
<1>7. \A k \in 1 .. N : Closure[k - 1] \subseteq Closure[k]
  BY <1>6 DEF Reaches
<1>8. \A k \in 0 .. N : \A j \in 0 .. k : Closure[j] \subseteq Closure[k]
  <2> DEFINE T == {k \in 0 .. N : \A j \in 0 .. k : Closure[j] \subseteq Closure[k]}
  <2>1. 0 \in T
    BY <1>0
  <2>2. ASSUME NEW k \in 1 .. N, k - 1 \in T PROVE k \in T
    <3>1. \A j \in 0 .. k : j \in 0 .. k - 1 \/ j = k
      BY <1>0
    <3>. QED BY <1>0, <1>7, <2>2, <3>1
  <2> HIDE DEF T
  <2>3. 0 .. N \subseteq T
    BY <1>0, <2>1, <2>2, Upwards
  <2>. QED BY <2>3 DEF T
<1>9. \A k \in 0 .. N : k \in 0 .. N /\ 0 \in 0 .. k /\ k \in 0 .. N /\ N \in 0 .. N
  BY <1>0
<1>10. \A k \in 0 .. N : edges \subseteq Closure[k] /\ Closure[k] \subseteq Closure[N]
  BY <1>6, <1>8, <1>9
<1>. QED BY <1>6, <1>10 DEF N

-----------------------------------------------------------------------------
(* Sorting level by level against the transitive closure of the edges.      *)

\* Of every set of nodes one has no source in the set.  This says of the edges
\* what Sortable says of the levels and Cyclic of the closure.
Layered == \A S \in SUBSET Nodes : S # {} => \E n \in S : Sources(n) \cap S = {}

\* A set in which every node has a source is never taken.
LEMMA SortableIsLayered == Sortable => Layered
<1> DEFINE N == Cardinality(Nodes)
<1>0. N \in Nat /\ \A k \in 1 .. N : k \in 0 .. N /\ k - 1 \in 0 .. N
  BY NodeCount
<1>1. SUFFICES ASSUME NEW S \in SUBSET Nodes, S # {}, \A n \in S : Sources(n) \cap S # {}
               PROVE  Taken[N] # Nodes
  BY DEF Sortable, Layered
<1> DEFINE T == {k \in 0 .. N : Taken[k] \cap S = {}}
<1>2. 0 \in T
  BY <1>0, TakenUnfolds
<1>3. ASSUME NEW k \in 1 .. N, k - 1 \in T PROVE k \in T
  <2>1. Taken[k] = Taken[k - 1] \cup Independent(Taken[k - 1]) /\ Taken[k - 1] \cap S = {}
    BY <1>3, TakenUnfolds
  <2>2. Independent(Taken[k - 1]) \cap S = {}
    BY <1>1, <2>1 DEF Independent
  <2>. QED BY <1>0, <2>1, <2>2
<1>4. N \in T
  <2> HIDE DEF T, N
  <2>1. 0 .. N \subseteq T
    BY <1>0, <1>2, <1>3, Upwards
  <2>. QED BY <1>0, <2>1
<1>. QED BY <1>1, <1>4

\* After as many rounds as there are nodes, nothing more can be taken: until
\* then every round takes at least one.
LEMMA NothingLeft == Independent(Taken[Cardinality(Nodes)]) = {}
<1> DEFINE N == Cardinality(Nodes)
           T == {k \in 0 .. N : Independent(Taken[k]) = {} \/ Cardinality(Taken[k]) >= k}
<1>0. N \in Nat /\ N \in 0 .. N /\ \A k \in 1 .. N : k \in 0 .. N /\ k - 1 \in 0 .. N
  BY NodeCount
<1>1. \A k \in 0 .. N : IsFiniteSet(Taken[k]) /\ Cardinality(Taken[k]) \in Nat
  BY TakenUnfolds, NodesAssumption, FS_Subset, FS_CardinalityType
<1>2. 0 \in T
  BY <1>0, <1>1
<1>3. ASSUME NEW k \in 1 .. N, k - 1 \in T PROVE k \in T
  <2>1. Taken[k] = Taken[k - 1] \cup Independent(Taken[k - 1])
    BY TakenUnfolds
  <2>2. CASE Independent(Taken[k - 1]) = {}
    BY <1>0, <2>1, <2>2
  <2>3. CASE Independent(Taken[k - 1]) # {}
    <3>1. Cardinality(Taken[k - 1]) >= k - 1
      BY <1>3, <2>3
    <3>2. Taken[k - 1] \subseteq Taken[k] /\ Taken[k - 1] # Taken[k]
      BY <2>1, <2>3 DEF Independent
    <3>3. Cardinality(Taken[k - 1]) < Cardinality(Taken[k])
      BY <1>0, <1>1, <3>2, FS_Subset
    <3>. QED BY <1>0, <1>1, <3>1, <3>3
  <2>. QED BY <2>2, <2>3
<1>4. N \in T
  <2> HIDE DEF T, N
  <2>1. 0 .. N \subseteq T
    BY <1>0, <1>2, <1>3, Upwards
  <2>. QED BY <1>0, <2>1
<1>5. CASE Cardinality(Taken[N]) >= N
  <2>1. Taken[N] \subseteq Nodes
    BY <1>0, TakenUnfolds
  <2>2. Taken[N] = Nodes
    BY <1>0, <1>1, <1>5, <2>1, NodesAssumption, FS_Subset
  <2>. QED BY <2>2 DEF Independent
<1>. QED BY <1>4, <1>5

\* A node is taken after its sources, hence after all that reach it, and no
\* node is taken after itself.
LEMMA SortableIsAcyclic ==
  ASSUME EndsExist, Sortable
  PROVE  ~ Cyclic
<1> DEFINE N == Cardinality(Nodes)
           After(p) == \A j \in 0 .. N : p[2] \in Taken[j] => j # 0 /\ p[1] \in Taken[j - 1]
           L == {j \in 0 .. N : \A p \in edges : p[2] \in Taken[j] => j # 0 /\ p[1] \in Taken[j - 1]}
           T == {k \in 0 .. N : \A p \in Closure[k] : After(p)}
<1>0. /\ N \in Nat /\ N \in 0 .. N /\ 0 \in 0 .. N
      /\ \A k \in 1 .. N : k \in 0 .. N /\ k - 1 \in 0 .. N
      /\ \A k \in 0 .. N : k # 0 => k \in 1 .. N
  BY NodeCount
<1>e. edges \subseteq Nodes \X Nodes /\ edges \subseteq Names \X Names /\ Nodes \subseteq Names
  BY DEF EndsExist, Names
<1>1. \A j \in 1 .. N : Taken[j - 1] \subseteq Taken[j]
  BY TakenUnfolds
<1>2. \A p \in edges : After(p)
  <2>1. 0 \in L
    BY <1>0, TakenUnfolds
  <2>2. ASSUME NEW j \in 1 .. N, j - 1 \in L PROVE j \in L
    <3>1. SUFFICES ASSUME NEW p \in edges, p[2] \in Taken[j] PROVE p[1] \in Taken[j - 1]
      BY <1>0
    <3>2. CASE p[2] \in Taken[j - 1]
      <4>1. j - 1 # 0 /\ p[1] \in Taken[(j - 1) - 1]
        BY <2>2, <3>2
      <4>2. j - 1 \in 1 .. N
        BY <1>0, <4>1
      <4>. QED BY <1>1, <4>1, <4>2
    <3>3. CASE p[2] \in Independent(Taken[j - 1])
      <4>1. p[1] \in Nodes /\ p[1] \in Names /\ p = <<p[1], p[2]>>
        BY <1>e
      <4>. QED BY <3>3, <4>1 DEF Independent, Sources
    <3>. QED BY <3>1, <3>2, <3>3, TakenUnfolds
  <2>3. 0 .. N \subseteq L
    <3> HIDE DEF L, N
    <3>. QED BY <1>0, <2>1, <2>2, Upwards
  <2>. QED BY <2>3
<1> HIDE DEF L
<1>3. 0 \in T
  BY <1>0, <1>e, <1>2, ClosureUnfolds
<1>4. ASSUME NEW k \in 1 .. N, k - 1 \in T PROVE k \in T
  <2>1. Closure[k] = Reaches(Closure[k - 1]) /\ \A p \in Closure[k - 1] : After(p)
    BY <1>e, <1>4, ClosureUnfolds
  <2>2. SUFFICES ASSUME NEW p \in Closure[k] PROVE After(p)
    BY <1>0
  <2>3. CASE p \in Closure[k - 1]
    BY <2>1, <2>3
  <2>4. ASSUME NEW m \in Names, <<p[1], m>> \in Closure[k - 1], <<m, p[2]>> \in Closure[k - 1]
        PROVE  After(p)
    <3>1. SUFFICES ASSUME NEW j \in 0 .. N, p[2] \in Taken[j] PROVE j # 0 /\ p[1] \in Taken[j - 1]
      OBVIOUS
    <3>2. After(<<m, p[2]>>) /\ After(<<p[1], m>>)
      BY <2>1, <2>4
    <3>3. j # 0 /\ m \in Taken[j - 1]
      BY <3>1, <3>2
    <3>4. j \in 1 .. N /\ m \in Taken[j]
      BY <1>0, <1>1, <3>3
    <3>. QED BY <3>2, <3>3, <3>4
  <2>. QED BY <2>1, <2>3, <2>4 DEF Reaches
<1>5. \A p \in Closure[N] : After(p)
  <2>1. 0 .. N \subseteq T
    <3> HIDE DEF T, N
    <3>. QED BY <1>0, <1>3, <1>4, Upwards
  <2>. QED BY <1>0, <2>1
<1>6. SUFFICES ASSUME NEW n \in Nodes, <<n, n>> \in Closure[N] PROVE FALSE
  BY DEF Cyclic
<1> DEFINE U == {j \in 0 .. N : n \notin Taken[j]}
<1>7. \A j \in 0 .. N : n \in Taken[j] => j # 0 /\ n \in Taken[j - 1]
  BY <1>5, <1>6
<1>8. 0 \in U /\ \A j \in 1 .. N : j - 1 \in U => j \in U
  BY <1>0, <1>7
<1>9. N \in U
  <2> HIDE DEF U, N
  <2>1. 0 .. N \subseteq U
    BY <1>0, <1>8, Upwards
  <2>. QED BY <1>0, <2>1
<1>. QED BY <1>9 DEF Sortable

\* From a node that is never taken one can go back from source to source for
\* ever, so that among as many steps as there are nodes some node comes twice.
LEMMA UnsortableIsCyclic ==
  ASSUME EndsExist, ~ Sortable
  PROVE  Cyclic
<1> DEFINE N == Cardinality(Nodes)
           S == Nodes \ Taken[N]
           F == [n \in S |-> CHOOSE m \in S : <<m, n>> \in edges]
<1>0. /\ N \in Nat /\ N \in 0 .. N /\ 0 \in 0 .. N
      /\ \A k \in 1 .. N : k \in 0 .. N /\ k - 1 \in 0 .. N
  BY NodeCount
<1>e. edges \subseteq Nodes \X Nodes /\ edges \subseteq Names \X Names /\ Nodes \subseteq Names
  BY DEF EndsExist, Names
<1>1. S # {} /\ S \subseteq Nodes
  <2>1. TargetsExist
    BY <1>e DEF TargetsExist
  <2>. QED BY <1>0, <2>1, TakenUnfolds DEF Sortable
<1>2. \A n \in S : F[n] \in S /\ <<F[n], n>> \in edges
  <2>1. \A n \in S : \E m \in S : <<m, n>> \in edges
    BY <1>e, NothingLeft DEF Independent, Sources
  <2>. QED BY <2>1
<1>3. F \in [S -> S]
  BY <1>2
<1>4. PICK a \in S : TRUE
  BY <1>1
<1>5. PICK g \in [0 .. N -> S] : \A k \in 1 .. N : <<g[k], g[k - 1]>> \in edges
  <2> HIDE DEF S, F, N
  <2>1. Runs(S, F, a, N) # {}
    BY <1>0, <1>3, <1>4, Iterates
  <2>2. PICK g \in [0 .. N -> S] : \A k \in 1 .. N : g[k] = F[g[k - 1]]
    BY <2>1 DEF Runs
  <2>3. \A k \in 1 .. N : g[k - 1] \in S
    BY <1>0
  <2>. QED BY <1>2, <2>2, <2>3
<1>6. PICK i \in 0 .. N, j \in 0 .. N : i < j /\ g[i] = g[j]
  <2>1. IsFiniteSet(0 .. N) /\ Cardinality(0 .. N) = N + 1
    BY <1>0, FS_Interval
  <2>2. IsFiniteSet(S) /\ Cardinality(S) <= N /\ Cardinality(S) \in Nat
    BY <1>1, NodesAssumption, FS_Subset, FS_CardinalityType
  <2>3. Cardinality(S) < Cardinality(0 .. N)
    BY <1>0, <2>1, <2>2
  <2> HIDE DEF S, N
  <2>4. PICK x \in 0 .. N, y \in 0 .. N : x # y /\ g[x] = g[y]
    BY <2>1, <2>2, <2>3, FS_PigeonHole
  <2>5. x < y \/ y < x
    BY <1>0, <2>4
  <2>. QED BY <2>4, <2>5
<1> HIDE DEF S, F
<1> DEFINE T == {d \in 0 .. N : d # 0 => \A k \in 0 .. N : k + d <= N => <<g[k + d], g[k]>> \in Closure[d - 1]}
<1>7. 0 \in T
  BY <1>0
<1>8. ASSUME NEW d \in 1 .. N, d - 1 \in T PROVE d \in T
  <2>1. SUFFICES ASSUME NEW k \in 0 .. N, k + d <= N PROVE <<g[k + d], g[k]>> \in Closure[d - 1]
    BY <1>0
  <2>2. /\ k + d \in 1 .. N /\ k + (d - 1) \in 0 .. N /\ (k + d) - 1 = k + (d - 1)
        /\ k + (d - 1) <= N /\ d - 1 \in 0 .. N /\ k + d \in 0 .. N
    BY <1>0, <2>1
  <2>3. <<g[k + d], g[k + (d - 1)]>> \in edges
    BY <1>5, <2>2
  <2>4. g[k] \in Nodes /\ g[k + d] \in Nodes /\ g[k + (d - 1)] \in Nodes
    BY <1>1, <2>2
  <2>5. CASE d = 1
    BY <2>3, <2>5, <1>e, ClosureUnfolds
  <2>6. CASE d # 1
    <3>1. <<g[k + (d - 1)], g[k]>> \in Closure[(d - 1) - 1]
      BY <1>8, <2>2, <2>6
    <3>2. d - 1 \in 1 .. N /\ (d - 1) - 1 \in 0 .. N
      BY <1>0, <2>6
    <3>3. <<g[k + d], g[k + (d - 1)]>> \in Closure[(d - 1) - 1]
      BY <2>3, <3>2, <1>e, ClosureUnfolds
    <3>4. Closure[d - 1] = Reaches(Closure[(d - 1) - 1])
      BY <3>2, <1>e, ClosureUnfolds
    <3>. QED BY <1>e, <2>4, <3>1, <3>3, <3>4 DEF Reaches
  <2>. QED BY <2>5, <2>6
<1>9. j - i \in T
  <2> HIDE DEF T, N
  <2>1. 0 .. N \subseteq T
    BY <1>0, <1>7, <1>8, Upwards
  <2>2. j - i \in 0 .. N
    BY <1>0, <1>6
  <2>. QED BY <2>1, <2>2
<1>10. j - i # 0 /\ i + (j - i) = j /\ j <= N /\ (j - i) - 1 \in 0 .. N
  BY <1>0, <1>6
<1>11. <<g[j], g[i]>> \in Closure[(j - i) - 1]
  BY <1>9, <1>10
<1>12. <<g[i], g[i]>> \in Closure[N] /\ g[i] \in Nodes
  BY <1>1, <1>6, <1>10, <1>11, <1>e, ClosureUnfolds
<1>. QED BY <1>12 DEF Cyclic

\* An edge from what is no node keeps its target from being taken.
LEMMA SortableHasEnds ==
  ASSUME edges \subseteq Names \X Names, Sortable
  PROVE  EndsExist
<1> DEFINE N == Cardinality(Nodes)
           T == {k \in 0 .. N : \A n \in Taken[k] : Sources(n) \subseteq Nodes}
<1>0. N \in Nat /\ N \in 0 .. N /\ \A k \in 1 .. N : k \in 0 .. N /\ k - 1 \in 0 .. N
  BY NodeCount
<1>1. 0 \in T
  BY <1>0, TakenUnfolds
<1>2. ASSUME NEW k \in 1 .. N, k - 1 \in T PROVE k \in T
  <2>1. Taken[k] = Taken[k - 1] \cup Independent(Taken[k - 1]) /\ Taken[k - 1] \subseteq Nodes
    BY <1>0, TakenUnfolds
  <2>. QED BY <1>0, <1>2, <2>1 DEF Independent
<1>3. N \in T
  <2> HIDE DEF T, N
  <2>1. 0 .. N \subseteq T
    BY <1>0, <1>1, <1>2, Upwards
  <2>. QED BY <1>0, <2>1
<1>4. ASSUME NEW edge \in edges PROVE edge \in Nodes \X Nodes
  <2>1. edge[2] \in Taken[N] /\ edge = <<edge[1], edge[2]>> /\ edge[1] \in Names
    BY DEF Sortable, TargetsExist
  <2>2. edge[1] \in Sources(edge[2])
    BY <2>1 DEF Sources
  <2>. QED BY <1>3, <2>1, <2>2 DEF Sortable
<1>. QED BY <1>4 DEF EndsExist

\* The nodes that are never taken would be a set without a first one.
LEMMA LayeredIsSortable ==
  ASSUME EndsExist, Layered
  PROVE  Sortable
<1>0. TargetsExist
  BY DEF EndsExist, TargetsExist
<1>1. Taken[Cardinality(Nodes)] \subseteq Nodes
  BY NodeCount, TakenUnfolds
<1> DEFINE S == Nodes \ Taken[Cardinality(Nodes)]
<1>2. \A n \in S : Sources(n) \cap S # {}
  BY NothingLeft DEF Independent, Sources, EndsExist
<1>3. S \in SUBSET Nodes
  OBVIOUS
<1>4. S = {}
  <2> HIDE DEF S
  <2>. QED BY <1>2, <1>3 DEF Layered
<1>. QED BY <1>0, <1>1, <1>4 DEF Sortable

\* Where the engine is says of the edges whether they are sound; a flow that
\* runs has taken a group, so that its failures are not those of a rejection.
Sound == EndsExist /\ Layered

Accepted ==
  /\ Rejected => ~ Sound
  /\ engine \in {"running", "returned"} => Sound
  /\ engine = "running" => grouped # {}

LEMMA Acceptance == Spec => []Accepted
<1>1. Init => Accepted
  BY DEF Init, Accepted, Rejected
<1>2. IInv /\ Accepted /\ [Next]_vars => Accepted'
  <2> SUFFICES ASSUME IInv, Accepted, [Next]_vars PROVE Accepted'
    OBVIOUS
  <2> USE DEF Rejected
  <2>1. edges' = edges => Sound' = Sound
    BY DEF Sound, EndsExist, Layered, Sources
  <2>2. CASE StartFlow
    <3>1. Sound /\ edges' = edges /\ engine' = "running" /\ grouped' = Independent({})
      BY <2>2, SortableIsLayered, SortableHasEnds DEF StartFlow, NextGroup, Sound, IInv, TypeOf
    <3>2. Independent({}) # {}
      BY <3>1, NodesAssumption DEF Sound, EndsExist, Layered, Independent, Sources
    <3>. QED BY <2>1, <3>1, <3>2 DEF Accepted
  <2>3. CASE RejectFlow
    <3>1. ~ Sound /\ edges' = edges /\ engine' = "raised"
      BY <2>3, LayeredIsSortable DEF RejectFlow, Sound
    <3>. QED BY <2>1, <3>1 DEF Accepted
  <2>4. CASE AdvanceGroup
    <3>1. edges' = edges /\ engine = "running" /\ engine' = engine /\ grouped' = grouped \cup group'
      BY <2>4 DEF AdvanceGroup, NextGroup
    <3>. QED BY <2>1, <3>1 DEF Accepted
  <2>5. CASE EndFlow \/ FailFlow
    <3>1. edges' = edges /\ engine = "running" /\ engine' \in {"returned", "raised"} /\ grouped' = grouped
      BY <2>5 DEF EndFlow, FailFlow
    <3>. QED BY <2>1, <3>1 DEF Accepted
  <2>6. CASE (\E n \in Nodes : NodeStep(n)) \/ StreamStep \/ Disconnect \/ UNCHANGED vars
    <3>1. UNCHANGED <<edges, engine, grouped>>
      BY <2>6 DEF NodeStep, StartNode, UnknownType, EndNode, FailNode,
                  StreamStep, SendEvent, AwaitFlow, Answer, Disconnect, vars
    <3>. QED BY <2>1, <3>1 DEF Accepted
  <2>. QED BY <2>2, <2>3, <2>4, <2>5, <2>6 DEF Next, EngineStep
<1>. QED BY <1>1, <1>2, Invariance, PTL DEF Spec

\* Counting in-degrees down rejects a flow if, and runs it only if, some node
\* can be reached from itself or some edge has an end that is no node, whatever
\* the graph.
THEOREM UnsoundFlowsRejected == Spec => []OnlyUnsoundFlowsAreRejected
<1>1. Accepted => OnlyUnsoundFlowsAreRejected
  <2>1. EndsExist => (Layered <=> ~ Cyclic)
    BY SortableIsLayered, LayeredIsSortable, SortableIsAcyclic, UnsortableIsCyclic
  <2>. QED BY <2>1 DEF Sound, Accepted, OnlyUnsoundFlowsAreRejected
<1>. QED BY <1>1, Acceptance, PTL
-----------------------------------------------------------------------------
(* The stream of a chat.  The queue is read in order, so that what was sent *)
(* and what waits to be sent are one sequence; framing is proved of that.   *)

Queues == [messages : Seq(Messages), closed : BOOLEAN]

ChatTyped ==
  /\ ChatTypeOK
  /\ queue \in [Requests -> Queues]
  /\ received \in [Requests -> Seq(Messages)]

\* Before a message is received and after it has ended nothing is left of it.
RestsFor(r) ==
  handler[r] # "waiting" => /\ producer[r] = "idle" /\ consumer[r] = "idle"
                            /\ queue[r] = NewQueue /\ received[r] = <<>>

\* What was sent, and what waits to be.
Said(r) == received[r] \o queue[r].messages

Framing(f) ==
  \A i \in DOMAIN f :
    /\ f[i] = "start" <=> i = 1
    /\ f[i] = "none" => i = Len(f)
    /\ f[i] = "stop" => /\ \A k \in DOMAIN f : k > i => f[k] = "none"
                        /\ \E j \in 1 .. i : f[j] = "content"

\* The start was said, and no end.
Ongoing(f) == f # <<>> /\ \A i \in DOMAIN f : f[i] \notin {"stop", "none"}

\* The producer after the start and before its end.
Opened == {"looking", "cleaning", "starting", "generating"}

\* While a client reads, everything said to it is framed; it is ongoing until
\* the queue is closed, and results of tools come only after the start.
FramedFor(r) ==
  /\ \A i \in DOMAIN received[r] : received[r][i] # "none"
  /\ producer[r] \in Opened \cup {"begun"} => ~ queue[r].closed
  /\ r \in tools => producer[r] = "generating" \/ queue[r].closed \/ handler[r] = "ended"
  /\ consumer[r] = "reading" => /\ Framing(Said(r))
                                /\ producer[r] = "begun" => Said(r) = <<>>
                                /\ producer[r] \in Opened => Ongoing(Said(r))

\* AnswerIsFramed of one message.
SentFramed(r) ==
  \A i \in DOMAIN received[r] :
    /\ received[r][i] = "start" <=> i = 1
    /\ received[r][i] = "stop" => /\ i = Len(received[r])
                                  /\ \E j \in 1 .. i : received[r][j] = "content"

ChatIInv == ChatTyped /\ \A r \in Requests : FramedFor(r) /\ SentFramed(r) /\ RestsFor(r)

-----------------------------------------------------------------------------
\* A put leaves a closed queue alone and is appended to an open one.
LEMMA PutQueue ==
  ASSUME NEW q \in Queues, NEW m \in Seq(Messages)
  PROVE  /\ Put(q, m) \in Queues /\ Put(q, m).closed = q.closed
         /\ q.closed => Put(q, m) = q
         /\ ~ q.closed => Put(q, m).messages = q.messages \o m
<1>1. q.messages \o m \in Seq(Messages)
  BY DEF Queues
<1>. QED BY <1>1 DEF Put, Queues

\* Closing a queue appends the end of the stream.
LEMMA CloseQueue ==
  ASSUME NEW q \in Queues
  PROVE  /\ Close(q) \in Queues /\ Close(q).closed
         /\ Close(q).messages = q.messages \o <<"none">>
<1>1. /\ Append(q.messages, "none") = q.messages \o <<"none">>
      /\ Append(q.messages, "none") \in Seq(Messages)
  BY DEF Queues, Messages
<1>. QED BY <1>1 DEF Close, Queues

\* What is appended twice is appended at once.
LEMMA Adds ==
  ASSUME NEW s \in Seq(Messages), NEW m \in Seq(Messages), NEW e \in Seq(Messages)
  PROVE  s \o (m \o e) = (s \o m) \o e
OBVIOUS

\* More of an ongoing stream, and its ends.
LEMMA Goes ==
  ASSUME NEW f \in Seq(Messages), Framing(f), Ongoing(f)
  PROVE  /\ Framing(f \o <<"tool">>) /\ Ongoing(f \o <<"tool">>)
         /\ Framing(f \o <<"content">>) /\ Ongoing(f \o <<"content">>)
         /\ Framing(f \o <<"none">>)
         /\ Framing((f \o <<"content", "stop">>) \o <<"none">>)
<1> DEFINE n == Len(f)
<1>0. n \in Nat /\ n # 0
  BY DEF Ongoing
<1>1. ASSUME NEW x \in Messages \ {"start", "stop"}, x # "none" \/ x = "none"
      PROVE  Framing(f \o <<x>>) /\ (x # "none" => Ongoing(f \o <<x>>))
  <2> DEFINE g == f \o <<x>>
  <2>1. Len(g) = n + 1 /\ DOMAIN g = 1 .. n + 1 /\ g[n + 1] = x /\ \A i \in 1 .. n : g[i] = f[i]
    BY <1>0
  <2>2. DOMAIN f = 1 .. n
    OBVIOUS
  <2> HIDE DEF g
  <2>3. \A i \in 1 .. n : f[i] \notin {"stop", "none"} /\ (f[i] = "start" <=> i = 1)
    BY <2>2 DEF Framing, Ongoing
  <2>4. Framing(g)
    BY <1>0, <2>1, <2>3 DEF Framing
  <2>5. x # "none" => Ongoing(g)
    BY <1>0, <2>1, <2>3 DEF Ongoing
  <2>. QED BY <2>4, <2>5 DEF g
<1>2. Framing((f \o <<"content", "stop">>) \o <<"none">>)
  <2> DEFINE h == f \o <<"content", "stop">>
             g == h \o <<"none">>
  <2>0. /\ h \in Seq(Messages) /\ Len(h) = n + 2 /\ \A i \in 1 .. n : h[i] = f[i]
        /\ h[n + 1] = "content" /\ h[n + 2] = "stop"
    BY <1>0 DEF Messages
  <2> HIDE DEF h
  <2>1. /\ Len(g) = n + 3 /\ DOMAIN g = 1 .. n + 3 /\ \A i \in 1 .. n : g[i] = f[i]
        /\ g[n + 1] = "content" /\ g[n + 2] = "stop" /\ g[n + 3] = "none"
    BY <1>0, <2>0
  <2>2. DOMAIN f = 1 .. n
    OBVIOUS
  <2> HIDE DEF g
  <2>3. \A i \in 1 .. n : f[i] \notin {"stop", "none"} /\ (f[i] = "start" <=> i = 1)
    BY <2>2 DEF Framing, Ongoing
  <2>4. \A i \in 1 .. n + 3 : i \in 1 .. n \/ i = n + 1 \/ i = n + 2 \/ i = n + 3
    BY <1>0
  <2>5. Framing(g)
    BY <1>0, <2>1, <2>3, <2>4 DEF Framing
  <2>. QED BY <2>5 DEF g, h
<1>3. /\ "tool" \in Messages \ {"start", "stop"} /\ "content" \in Messages \ {"start", "stop"}
      /\ "none" \in Messages \ {"start", "stop"}
  BY DEF Messages
<1>. QED BY <1>1, <1>2, <1>3

\* What was sent of a framed stream is framed.
LEMMA SentOf ==
  ASSUME NEW s \in Seq(Messages), NEW m \in Seq(Messages), Framing(s \o m),
         \A i \in DOMAIN s : s[i] # "none", NEW i \in DOMAIN s
  PROVE  /\ s[i] = "start" <=> i = 1
         /\ s[i] = "stop" => i = Len(s) /\ \E j \in 1 .. i : s[j] = "content"
<1> DEFINE f == s \o m
<1>1. /\ DOMAIN s = 1 .. Len(s) /\ DOMAIN f = 1 .. Len(s) + Len(m) /\ Len(s) \in Nat /\ Len(m) \in Nat
      /\ \A k \in 1 .. Len(s) : f[k] = s[k] /\ k \in DOMAIN f
  OBVIOUS
<1> HIDE DEF f
<1>2. /\ f[i] = "start" <=> i = 1
      /\ f[i] = "stop" => /\ \A k \in DOMAIN f : k > i => f[k] = "none"
                          /\ \E j \in 1 .. i : f[j] = "content"
  BY <1>1 DEF Framing, f
<1>3. ASSUME s[i] = "stop" PROVE i = Len(s)
  <2>1. Len(s) > i => f[Len(s)] = "none"
    BY <1>1, <1>2, <1>3
  <2>2. Len(s) \in DOMAIN s
    BY <1>1
  <2>. QED BY <1>1, <2>1, <2>2
<1>. QED BY <1>1, <1>2, <1>3

\* The first message that waits is sent.
LEMMA SendsHead ==
  ASSUME NEW s \in Seq(Messages), NEW m \in Seq(Messages), m # <<>>
  PROVE  /\ Head(m) \in Messages /\ Tail(m) \in Seq(Messages)
         /\ Append(s, Head(m)) \in Seq(Messages)
         /\ Append(s, Head(m)) \o Tail(m) = s \o m
         /\ (\A i \in DOMAIN s : s[i] # "none") /\ Head(m) # "none"
              => \A i \in DOMAIN Append(s, Head(m)) : Append(s, Head(m))[i] # "none"
OBVIOUS

-----------------------------------------------------------------------------
(* Types *)

\* A step of the handler, the producer, the consumer or the bus for a message.
MessageStep(r) ==
  \/ Receive(r) \/ ProducerStep(r) \/ ConsumerStep(r) \/ Gather(r)
  \/ ToolResult(r) \/ DispatchTool(r)

\* The steps of a message keep the types of its tasks.
LEMMA RequestTypes ==
  ASSUME ChatTyped, NEW r \in Requests, MessageStep(r)
  PROVE  /\ queue' \in [Requests -> Queues] /\ received' \in [Requests -> Seq(Messages)]
         /\ handler' \in [Requests -> HandlerSteps] /\ producer' \in [Requests -> ProducerSteps]
         /\ consumer' \in [Requests -> ConsumerSteps] /\ tools' \subseteq Requests
<1> USE DEF MessageStep, ChatTyped, ChatTypeOK, HandlerSteps, ProducerSteps, ConsumerSteps
<1>0. /\ queue[r] \in Queues /\ NewQueue \in Queues /\ <<>> \in Seq(Messages)
      /\ <<"start">> \in Seq(Messages) /\ <<"tool">> \in Seq(Messages)
      /\ AnswerMessages \in Seq(Messages) /\ <<"content">> \in Seq(Messages)
  BY DEF NewQueue, Queues, Messages, AnswerMessages
<1>1. CASE Receive(r)
  BY <1>1 DEF Receive
<1>2. CASE Gather(r)
  BY <1>0, <1>2 DEF Gather
<1>3. CASE ConsumerStep(r)
  <2>1. /\ queue[r].messages \in Seq(Messages) /\ queue[r].messages # <<>>
        /\ queue[r].closed \in BOOLEAN
        /\ queue' = [queue EXCEPT ![r] = [queue[r] EXCEPT !.messages = Tail(queue[r].messages)]]
    BY <1>0, <1>3 DEF ConsumerStep, Consume, SendFails, Queues
  <2>2. [queue[r] EXCEPT !.messages = Tail(queue[r].messages)] \in Queues
    BY <1>0, <2>1, SendsHead DEF Queues
  <2>3. queue' \in [Requests -> Queues]
    BY <2>1, <2>2
  <2>4. received' \in [Requests -> Seq(Messages)]
    <3>1. Append(received[r], Head(queue[r].messages)) \in Seq(Messages)
      BY <2>1, SendsHead
    <3>. QED BY <1>3, <3>1 DEF ConsumerStep, Consume, SendFails
  <2>5. consumer' \in [Requests -> ConsumerSteps]
    <3>1. CASE Consume(r)
      <4>1. consumer' = consumer \/ consumer' = [consumer EXCEPT ![r] = "returned"]
        BY <3>1 DEF Consume
      <4>. QED BY <4>1
    <3>2. CASE SendFails(r)
      BY <3>2 DEF SendFails
    <3>. QED BY <1>3, <3>1, <3>2 DEF ConsumerStep
  <2>. QED BY <1>3, <2>3, <2>4, <2>5 DEF ConsumerStep, Consume, SendFails
<1>4. CASE ToolResult(r)
  BY <1>4 DEF ToolResult
<1>5. CASE DispatchTool(r)
  <2>1. Put(queue[r], <<"tool">>) \in Queues
    BY <1>0, PutQueue
  <2>. QED BY <1>5, <2>1 DEF DispatchTool
<1>6. CASE ProducerStep(r)
  <2>1. /\ Put(queue[r], <<"start">>) \in Queues /\ Close(queue[r]) \in Queues
        /\ Close(Put(queue[r], AnswerMessages)) \in Queues
        /\ Close(Put(queue[r], <<"content">>)) \in Queues
    BY <1>0, PutQueue, CloseQueue
  <2>2. queue' \in [Requests -> Queues]
    <3>1. \/ queue' = queue
          \/ queue' = [queue EXCEPT ![r] = Put(queue[r], <<"start">>)]
          \/ queue' = [queue EXCEPT ![r] = Close(queue[r])]
          \/ queue' = [queue EXCEPT ![r] = Close(Put(queue[r], AnswerMessages))]
          \/ queue' = [queue EXCEPT ![r] = Close(Put(queue[r], <<"content">>))]
      BY <1>6 DEF ProducerStep, Refuse, Start, LookupFails, UseSession, ReplaceSession,
                  OldSessionClosed, SessionStarts, SessionFails, GenerationFails, AgentAnswers, ReferencesFail, Raise
    <3>. QED BY <2>1, <3>1
  <2>3. producer' \in [Requests -> ProducerSteps]
    <3>1. \E step \in ProducerSteps : producer' = [producer EXCEPT ![r] = step]
      BY <1>6 DEF ProducerStep, Refuse, Start, LookupFails, UseSession, ReplaceSession,
                  OldSessionClosed, SessionStarts, SessionFails, GenerationFails, AgentAnswers, ReferencesFail, Raise
    <3>. QED BY <3>1
  <2>4. UNCHANGED <<received, handler, consumer, tools>>
    BY <1>6 DEF ProducerStep, Refuse, Start, LookupFails, UseSession, ReplaceSession, OldSessionClosed,
                SessionStarts, SessionFails, GenerationFails, AgentAnswers, ReferencesFail
  <2>. QED BY <2>2, <2>3, <2>4
<1>. QED BY <1>1, <1>2, <1>3, <1>4, <1>5, <1>6

\* The sessions keep their types.
LEMMA SessionTypes ==
  ASSUME ChatTyped, [ChatNext]_chatVars
  PROVE  /\ chat' = chat /\ hasModel' = hasModel
         /\ using' \in [Requests -> Sessions \cup {NoSession}]
         /\ table' \in [Chats -> Sessions \cup {NoSession}]
         /\ state' \in [Sessions -> SessionStates]
         /\ expired' \subseteq Sessions /\ listed' \subseteq Chats
         /\ closing' \in Sessions \cup {NoSession}
<1> USE DEF ChatTyped, ChatTypeOK
<1>0. \A s : CloseSession(s) \/ ClosedSession(s)
               => state' \in [Sessions -> SessionStates]
  BY DEF CloseSession, ClosedSession, SessionStates
<1>1. ASSUME NEW r \in Requests, ProducerStep(r)
      PROVE  /\ chat' = chat /\ hasModel' = hasModel /\ UNCHANGED <<expired, listed, closing>>
             /\ using' \in [Requests -> Sessions \cup {NoSession}]
             /\ table' \in [Chats -> Sessions \cup {NoSession}]
             /\ state' \in [Sessions -> SessionStates]
  <2>0. r \in Sessions /\ chat[r] \in Chats /\ table[chat[r]] \in Sessions \cup {NoSession}
    BY DEF Sessions
  <2>1. CASE \/ Refuse(r) \/ Start(r) \/ LookupFails(r)
             \/ GenerationFails(r) \/ AgentAnswers(r) \/ ReferencesFail(r)
    BY <2>1 DEF Refuse, Start, LookupFails, GenerationFails, AgentAnswers, ReferencesFail, sessionVars
  <2>2. CASE UseSession(r)
    BY <2>0, <2>2 DEF UseSession, sessionVars
  <2>3. CASE ReplaceSession(r)
    <3>1. state' \in [Sessions -> SessionStates]
      BY <1>0, <2>3 DEF ReplaceSession
    <3>. QED BY <2>0, <2>3, <3>1 DEF ReplaceSession
  <2>4. CASE OldSessionClosed(r)
    <3>1. state' \in [Sessions -> SessionStates]
      BY <1>0, <2>4 DEF OldSessionClosed
    <3>. QED BY <2>0, <2>4, <3>1 DEF OldSessionClosed
  <2>5. CASE SessionStarts(r)
    BY <2>0, <2>5 DEF SessionStarts, SessionStates
  <2>6. CASE SessionFails(r)
    BY <2>0, <2>6 DEF SessionFails, SessionStates
  <2>. QED BY <1>1, <2>1, <2>2, <2>3, <2>4, <2>5, <2>6 DEF ProducerStep
<1>2. ASSUME NEW r \in Requests,
             \/ Receive(r) \/ ConsumerStep(r) \/ Gather(r)
             \/ ToolResult(r) \/ DispatchTool(r)
      PROVE  /\ chat' = chat /\ hasModel' = hasModel /\ UNCHANGED sessionVars
             /\ using' \in [Requests -> Sessions \cup {NoSession}]
  BY <1>2 DEF Receive, ConsumerStep, Consume, SendFails, Gather, ToolResult, DispatchTool
<1>3. ASSUME NEW s \in Sessions, Expire(s)
      PROVE  /\ UNCHANGED <<chat, hasModel, using, table, state, listed, closing>>
             /\ expired' \subseteq Sessions
  BY <1>3 DEF Expire
<1>4. CASE CleanupStep
  <2>1. CASE ListExpired
    BY <2>1 DEF ListExpired
  <2>2. CASE ExpiredClosed
    <3>1. state' \in [Sessions -> SessionStates]
      BY <1>0, <2>2 DEF ExpiredClosed
    <3>. QED BY <2>2, <3>1 DEF ExpiredClosed
  <2>3. ASSUME NEW c \in Chats, PopExpired(c)
        PROVE  /\ UNCHANGED <<chat, hasModel, using, expired>> /\ listed' \subseteq Chats
               /\ closing' \in Sessions \cup {NoSession}
               /\ table' \in [Chats -> Sessions \cup {NoSession}]
               /\ state' \in [Sessions -> SessionStates]
    BY <1>0, <2>3 DEF PopExpired
  <2>. QED BY <1>4, <2>1, <2>2, <2>3 DEF CleanupStep
<1>5. CASE UNCHANGED chatVars
  BY <1>5 DEF chatVars, sessionVars
<1>. QED BY <1>1, <1>2, <1>3, <1>4, <1>5 DEF ChatNext, sessionVars

\* The other steps leave the tasks of every message alone.
Tasks == <<handler, producer, consumer, queue, received, tools>>

LEMMA SessionSteps ==
  ASSUME (\E s \in Sessions : Expire(s)) \/ CleanupStep \/ UNCHANGED chatVars
  PROVE  UNCHANGED Tasks
BY DEF Expire, CleanupStep, ListExpired, ExpiredClosed, PopExpired, chatVars, Tasks

\* Every step keeps the types.
LEMMA ChatTypeInv ==
  ASSUME ChatTyped, [ChatNext]_chatVars
  PROVE  ChatTyped'
<1>1. /\ queue' \in [Requests -> Queues] /\ received' \in [Requests -> Seq(Messages)]
      /\ handler' \in [Requests -> HandlerSteps] /\ producer' \in [Requests -> ProducerSteps]
      /\ consumer' \in [Requests -> ConsumerSteps] /\ tools' \subseteq Requests
  <2>1. CASE UNCHANGED Tasks
    BY <2>1 DEF Tasks, ChatTyped, ChatTypeOK
  <2>. QED BY <2>1, RequestTypes, SessionSteps DEF MessageStep, ChatNext
<1>2. \A r \in Requests : /\ queue'[r].messages \in Seq(Messages) /\ queue'[r].closed \in BOOLEAN
                          /\ received'[r] \in Seq(Messages)
  BY <1>1 DEF Queues
<1>. QED BY <1>1, <1>2, SessionTypes DEF ChatTyped, ChatTypeOK

-----------------------------------------------------------------------------
(* What one step does to the stream of one message *)

SameFor(r) ==
  /\ handler'[r] = handler[r] /\ producer'[r] = producer[r] /\ consumer'[r] = consumer[r]
  /\ queue'[r] = queue[r] /\ received'[r] = received[r] /\ (r \in tools' <=> r \in tools)

\* The producer goes on from step to step and says nothing.
GoesOn(r) ==
  /\ producer[r] \in Opened /\ producer'[r] \in Opened
  /\ producer[r] = "generating" => producer'[r] = "generating"
  /\ handler'[r] = handler[r] /\ consumer'[r] = consumer[r]
  /\ queue'[r] = queue[r] /\ received'[r] = received[r]
  /\ r \in tools' => r \in tools \/ producer[r] = "generating"

Raises(r) ==
  /\ producer[r] \in Opened
  /\ producer'[r] = "raised" /\ queue'[r] = Close(queue[r])
  /\ handler'[r] = handler[r] /\ consumer'[r] = consumer[r] /\ received'[r] = received[r] /\ tools' = tools

\* A step leaves the stream of a message alone, or is one of its own.
LEMMA StepsOf ==
  ASSUME ChatTyped, [ChatNext]_chatVars, NEW r \in Requests
  PROVE  \/ SameFor(r) \/ GoesOn(r) \/ Raises(r)
         \/ Receive(r) \/ Refuse(r) \/ Start(r) \/ AgentAnswers(r) \/ ReferencesFail(r)
         \/ DispatchTool(r)
         \/ Consume(r) \/ SendFails(r) \/ Gather(r)
<1> USE DEF MessageStep, ChatTyped, ChatTypeOK
<1>1. CASE UNCHANGED Tasks
  BY <1>1 DEF Tasks, SameFor
<1>2. ASSUME NEW q \in Requests, q # r, MessageStep(q)
      PROVE  SameFor(r)
  <2>1. CASE ProducerStep(q)
    BY <1>2, <2>1 DEF ProducerStep, Refuse, Start, LookupFails, UseSession, ReplaceSession,
                      OldSessionClosed, SessionStarts, SessionFails, GenerationFails, AgentAnswers, ReferencesFail,
                      Raise, SameFor
  <2>2. CASE ConsumerStep(q)
    BY <1>2, <2>2 DEF ConsumerStep, Consume, SendFails, SameFor
  <2>3. CASE Receive(q) \/ Gather(q) \/ ToolResult(q) \/ DispatchTool(q)
    BY <1>2, <2>3 DEF Receive, Gather, ToolResult, DispatchTool, SameFor
  <2>. QED BY <1>2, <2>1, <2>2, <2>3
<1>3. CASE LookupFails(r) \/ SessionFails(r) \/ GenerationFails(r)
  <2>1. Raises(r)
    BY <1>3 DEF LookupFails, SessionFails, GenerationFails, Raise, Raises, Opened
  <2>. QED BY <2>1
<1>4. CASE \/ UseSession(r) \/ ReplaceSession(r) \/ OldSessionClosed(r)
           \/ SessionStarts(r) \/ ToolResult(r)
  <2>1. GoesOn(r)
    BY <1>4 DEF UseSession, ReplaceSession, OldSessionClosed, SessionStarts, ToolResult, GoesOn, Opened
  <2>. QED BY <2>1
<1>. QED BY <1>1, <1>2, <1>3, <1>4, SessionSteps DEF ChatNext, ProducerStep, ConsumerStep

LEMMA Words ==
  \A w \in Messages : <<w>> \in Seq(Messages)
OBVIOUS

\* What is put into the queue of a message is said after the rest.
LEMMA SaysMore ==
  ASSUME ChatTyped, NEW r \in Requests, NEW e \in Seq(Messages), received'[r] = received[r],
         queue'[r].messages = queue[r].messages \o e
  PROVE  Said(r)' = Said(r) \o e
<1>1. received[r] \in Seq(Messages) /\ queue[r].messages \in Seq(Messages)
  BY DEF ChatTyped, Queues
<1>2. received[r] \o (queue[r].messages \o e) = (received[r] \o queue[r].messages) \o e
  BY <1>1, Adds
<1>. QED BY <1>2 DEF Said

\* Every step keeps the stream of every message framed.
LEMMA FramedStep ==
  ASSUME ChatTyped, ChatTyped', [ChatNext]_chatVars,
         NEW r \in Requests, FramedFor(r), SentFramed(r), RestsFor(r)
  PROVE  FramedFor(r)' /\ SentFramed(r)' /\ RestsFor(r)'
<1> DEFINE m == queue[r].messages
<1>0. /\ queue[r] \in Queues /\ received[r] \in Seq(Messages) /\ m \in Seq(Messages)
      /\ queue'[r].messages \in Seq(Messages) /\ received'[r] \in Seq(Messages)
      /\ Said(r) \in Seq(Messages)
  BY DEF ChatTyped, Queues, Said
<1>w. /\ <<"start">> \in Seq(Messages) /\ <<"tool">> \in Seq(Messages)
      /\ <<"none">> \in Seq(Messages) /\ <<"content">> \in Seq(Messages)
      /\ <<"content", "stop">> \in Seq(Messages)
  BY DEF Messages
<1>s. received'[r] = received[r]
        => SentFramed(r)' /\ \A i \in DOMAIN received'[r] : received'[r][i] # "none"
  BY DEF SentFramed, FramedFor
<1>1. CASE SameFor(r)
  BY <1>1, <1>s DEF SameFor, FramedFor, RestsFor, Said
<1>2. CASE GoesOn(r)
  <2>1. Said(r)' = Said(r)
    BY <1>2 DEF GoesOn, Said
  <2>. QED BY <1>2, <1>s, <2>1 DEF GoesOn, FramedFor, RestsFor, Opened
<1>3. CASE Raises(r)
  <2>1. queue'[r].closed /\ queue'[r].messages = m \o <<"none">>
    BY <1>0, <1>3, CloseQueue DEF Raises
  <2>2. Said(r)' = Said(r) \o <<"none">>
    BY <1>w, <1>3, <2>1, SaysMore DEF Raises
  <2>3. consumer[r] = "reading" => Framing(Said(r)')
    BY <1>0, <1>3, <2>2, Goes DEF Raises, FramedFor
  <2>. QED BY <1>3, <1>s, <2>1, <2>3 DEF Raises, FramedFor, RestsFor, Opened
<1>4. CASE Receive(r)
  <2>1. /\ handler[r] = "idle" /\ handler'[r] = "waiting" /\ producer'[r] = "begun"
        /\ consumer'[r] = "reading" /\ UNCHANGED <<queue, received, tools>>
    BY <1>4 DEF Receive, ChatTyped, ChatTypeOK
  <2>2. queue[r] = NewQueue /\ received[r] = <<>> /\ producer[r] = "idle"
    BY <2>1 DEF RestsFor
  <2>3. r \notin tools
    BY <2>1, <2>2 DEF FramedFor, NewQueue
  <2>4. Said(r)' = <<>>
    BY <2>1, <2>2 DEF Said, NewQueue
  <2>5. Framing(<<>>)
    BY DEF Framing
  <2>. QED BY <1>s, <2>1, <2>2, <2>3, <2>4, <2>5 DEF FramedFor, RestsFor, NewQueue, Opened
<1>5. CASE Refuse(r)
  <2>1. /\ producer[r] = "begun" /\ producer'[r] = "raised"
        /\ UNCHANGED <<handler, consumer, queue, received, tools>>
    BY <1>5 DEF Refuse, ChatTyped, ChatTypeOK
  <2>2. Said(r)' = Said(r)
    BY <2>1 DEF Said
  <2>. QED BY <1>s, <2>1, <2>2 DEF FramedFor, RestsFor, Opened
<1>6. CASE Start(r)
  <2>1. /\ producer[r] = "begun" /\ producer'[r] = "looking" /\ queue'[r] = Put(queue[r], <<"start">>)
        /\ UNCHANGED <<handler, consumer, received, tools>>
    BY <1>6 DEF Start, ChatTyped, ChatTypeOK
  <2>2. ~ queue[r].closed /\ ~ queue'[r].closed /\ queue'[r].messages = m \o <<"start">>
    <3>1. ~ queue[r].closed
      BY <2>1 DEF FramedFor
    <3>2. /\ ~ Put(queue[r], <<"start">>).closed
          /\ Put(queue[r], <<"start">>).messages = m \o <<"start">>
      BY <1>0, <1>w, <3>1, PutQueue
    <3>. QED BY <2>1, <3>1, <3>2
  <2>3. Said(r)' = Said(r) \o <<"start">>
    BY <1>w, <2>1, <2>2, SaysMore
  <2>4. consumer[r] = "reading" => Said(r)' = <<"start">>
    BY <2>1, <2>3 DEF FramedFor
  <2>5. Framing(<<"start">>) /\ Ongoing(<<"start">>)
    BY DEF Framing, Ongoing
  <2>. QED BY <1>s, <2>1, <2>2, <2>4, <2>5 DEF FramedFor, RestsFor, Opened
<1>7. CASE AgentAnswers(r)
  <2> DEFINE q == Put(queue[r], AnswerMessages)
  <2>1. /\ producer[r] = "generating" /\ producer'[r] = "returned" /\ queue'[r] = Close(q)
        /\ UNCHANGED <<handler, consumer, received, tools>>
    BY <1>7 DEF AgentAnswers, ChatTyped, ChatTypeOK
  <2>2. q \in Queues /\ q.messages = m \o <<"content", "stop">>
    <3>1. AnswerMessages \in Seq(Messages) /\ ~ queue[r].closed
      BY <2>1 DEF AnswerMessages, Messages, FramedFor, Opened
    <3>. QED BY <1>0, <3>1, PutQueue DEF AnswerMessages
  <2>3. queue'[r].closed /\ queue'[r].messages = (m \o <<"content", "stop">>) \o <<"none">>
    BY <2>1, <2>2, CloseQueue
  <2>4. (m \o <<"content", "stop">>) \o <<"none">> = m \o (<<"content", "stop">> \o <<"none">>)
    BY <1>0, <1>w, Adds
  <2>5. Said(r)' = (Said(r) \o <<"content", "stop">>) \o <<"none">>
    <3> DEFINE e == <<"content", "stop">> \o <<"none">>
    <3>1. e \in Seq(Messages) /\ queue'[r].messages = m \o e
      BY <1>w, <2>3, <2>4
    <3> HIDE DEF e
    <3>2. Said(r)' = Said(r) \o e
      BY <2>1, <3>1, SaysMore
    <3>. QED BY <1>0, <1>w, <3>2, Adds DEF e
  <2>6. consumer[r] = "reading" => Framing(Said(r)')
    BY <1>0, <2>1, <2>5, Goes DEF FramedFor, Opened
  <2>. QED BY <1>s, <2>1, <2>3, <2>6 DEF FramedFor, RestsFor, Opened
<1>7c. CASE ReferencesFail(r)
  <2> DEFINE q == Put(queue[r], <<"content">>)
             f == Said(r) \o <<"content">>
  <2>1. /\ producer[r] = "generating" /\ producer'[r] = "raised" /\ queue'[r] = Close(q)
        /\ UNCHANGED <<handler, consumer, received, tools>>
    BY <1>7c DEF ReferencesFail, ChatTyped, ChatTypeOK
  <2>2. q \in Queues /\ q.messages = m \o <<"content">>
    <3>1. ~ queue[r].closed
      BY <2>1 DEF FramedFor, Opened
    <3>. QED BY <1>0, <1>w, <3>1, PutQueue
  <2>3. queue'[r].closed /\ queue'[r].messages = (m \o <<"content">>) \o <<"none">>
    BY <2>1, <2>2, CloseQueue
  <2>4. Said(r)' = f \o <<"none">>
    <3> DEFINE e == <<"content">> \o <<"none">>
    <3>1. e \in Seq(Messages) /\ queue'[r].messages = m \o e
      BY <1>0, <1>w, <2>3, Adds
    <3> HIDE DEF e
    <3>2. Said(r)' = Said(r) \o e
      BY <2>1, <3>1, SaysMore
    <3>. QED BY <1>0, <1>w, <3>2, Adds DEF e
  <2>5. ASSUME consumer[r] = "reading" PROVE Framing(f \o <<"none">>)
    <3>1. f \in Seq(Messages)
      BY <1>0, <1>w
    <3>2. Framing(f) /\ Ongoing(f)
      BY <1>0, <2>1, <2>5, Goes DEF FramedFor, Opened
    <3> HIDE DEF f
    <3>. QED BY <3>1, <3>2, Goes
  <2>6. consumer[r] = "reading" => Framing(Said(r)')
    BY <2>4, <2>5
  <2>. QED BY <1>s, <2>1, <2>3, <2>6 DEF FramedFor, RestsFor, Opened
<1>8. CASE DispatchTool(r)
  <2>1. /\ r \in tools /\ r \notin tools' /\ UNCHANGED <<handler, producer, consumer, received>>
        /\ queue'[r] # queue[r] => queue'[r] = Put(queue[r], <<"tool">>) /\ handler[r] # "ended"
    <3>1. r \in tools /\ tools' = tools \ {r} /\ UNCHANGED <<handler, producer, consumer, received>>
      BY <1>8 DEF DispatchTool
    <3>2. CASE handler[r] = "ended"
      BY <1>8, <3>1, <3>2 DEF DispatchTool
    <3>3. CASE handler[r] # "ended"
      BY <1>8, <3>1, <3>3 DEF DispatchTool, ChatTyped
    <3>. QED BY <3>2, <3>3
  <2>2. <<"tool">> \in Seq(Messages)
    BY DEF Messages
  <2>3. CASE queue'[r] = queue[r]
    BY <1>s, <2>1, <2>3 DEF FramedFor, RestsFor, Said
  <2>4. CASE queue'[r] # queue[r]
    <3>1. /\ ~ queue[r].closed /\ ~ queue'[r].closed /\ queue'[r].messages = m \o <<"tool">>
          /\ producer[r] = "generating"
      <4>1. queue'[r] = Put(queue[r], <<"tool">>) /\ handler[r] # "ended"
        BY <2>1, <2>4
      <4>2. ~ queue[r].closed
        BY <1>0, <2>2, <2>4, <4>1, PutQueue
      <4>3. ~ queue'[r].closed /\ queue'[r].messages = m \o <<"tool">>
        <5>1. /\ ~ Put(queue[r], <<"tool">>).closed
              /\ Put(queue[r], <<"tool">>).messages = m \o <<"tool">>
          BY <1>0, <2>2, <4>2, PutQueue
        <5>. QED BY <4>1, <5>1
      <4>. QED BY <2>1, <4>1, <4>2, <4>3 DEF FramedFor
    <3>2. Said(r)' = Said(r) \o <<"tool">>
      BY <2>1, <2>2, <3>1, SaysMore
    <3>3. consumer[r] = "reading" => Framing(Said(r)') /\ Ongoing(Said(r)')
      BY <1>0, <3>1, <3>2, Goes DEF FramedFor, Opened
    <3>. QED BY <1>s, <2>1, <3>1, <3>3 DEF FramedFor, RestsFor, Opened
  <2>. QED BY <2>3, <2>4
<1>9. CASE Consume(r)
  <2>1. /\ m # <<>> /\ queue'[r] = [queue[r] EXCEPT !.messages = Tail(m)] /\ consumer[r] = "reading"
        /\ UNCHANGED <<handler, producer, tools>>
    BY <1>9 DEF Consume, ChatTyped, ChatTypeOK
  <2>2. queue'[r].closed = queue[r].closed /\ queue'[r].messages = Tail(m)
    BY <1>0, <2>1 DEF Queues
  <2>3. handler[r] = "waiting"
    BY <2>1 DEF RestsFor
  <2>4. CASE Head(m) = "none"
    <3>1. consumer'[r] = "returned" /\ received' = received
      BY <1>9, <2>4 DEF Consume, ChatTyped, ChatTypeOK
    <3>. QED BY <1>s, <2>1, <2>2, <2>3, <3>1 DEF FramedFor, RestsFor
  <2>5. CASE Head(m) # "none"
    <3>1. received'[r] = Append(received[r], Head(m)) /\ consumer' = consumer
      BY <1>9, <2>5 DEF Consume, ChatTyped, ChatTypeOK
    <3>2. Said(r)' = Said(r) /\ \A i \in DOMAIN received'[r] : received'[r][i] # "none"
      <4>1. \A i \in DOMAIN received[r] : received[r][i] # "none"
        BY DEF FramedFor
      <4>2. /\ Append(received[r], Head(m)) \o Tail(m) = received[r] \o m
            /\ \A i \in DOMAIN Append(received[r], Head(m)) : Append(received[r], Head(m))[i] # "none"
        BY <1>0, <2>1, <2>5, <4>1, SendsHead
      <4>. QED BY <2>2, <3>1, <4>2 DEF Said
    <3>3. FramedFor(r)'
      BY <2>1, <2>2, <3>1, <3>2 DEF FramedFor
    <3>4. Framing(received'[r] \o queue'[r].messages)
      BY <2>1, <3>2 DEF FramedFor, Said
    <3>5. SentFramed(r)'
      <4> DEFINE t == received'[r]
                 n == queue'[r].messages
      <4>1. t \in Seq(Messages) /\ n \in Seq(Messages) /\ Framing(t \o n)
            /\ \A i \in DOMAIN t : t[i] # "none"
        BY <1>0, <3>2, <3>4
      <4> HIDE DEF t, n
      <4>2. ASSUME NEW i \in DOMAIN t
            PROVE  /\ t[i] = "start" <=> i = 1
                   /\ t[i] = "stop" => i = Len(t) /\ \E j \in 1 .. i : t[j] = "content"
        BY <4>1, SentOf
      <4>. QED BY <4>2 DEF SentFramed, t
    <3>. QED BY <2>1, <2>3, <3>3, <3>5 DEF RestsFor
  <2>. QED BY <2>4, <2>5
<1>10. CASE SendFails(r)
  <2>1. /\ queue'[r] = [queue[r] EXCEPT !.messages = Tail(m)]
        /\ consumer[r] = "reading" /\ consumer'[r] = "raised"
        /\ UNCHANGED <<handler, producer, received, tools>>
    BY <1>10 DEF SendFails, ChatTyped, ChatTypeOK
  <2>2. queue'[r].closed = queue[r].closed
    BY <1>0, <2>1 DEF Queues
  <2>. QED BY <1>s, <2>1, <2>2 DEF FramedFor, RestsFor
<1>11. CASE Gather(r)
  <2>1. /\ handler'[r] = "ended" /\ producer'[r] = "idle" /\ consumer'[r] = "idle"
        /\ queue'[r] = NewQueue /\ received'[r] = <<>>
    BY <1>11 DEF Gather, ChatTyped, ChatTypeOK
  <2>. QED BY <2>1 DEF FramedFor, SentFramed, RestsFor, NewQueue, Opened
<1>. QED BY <1>1, <1>2, <1>3, <1>4, <1>5, <1>6, <1>7, <1>7c, <1>8, <1>9, <1>10, <1>11, StepsOf

\* Every stream is framed, in every state.
LEMMA ChatInvariance ==
  ChatSpec => []ChatIInv
<1>1. ChatInit => ChatIInv
  <2> SUFFICES ASSUME ChatInit PROVE ChatIInv
    OBVIOUS
  <2>1. ChatTyped
    <3>1. /\ NewQueue \in Queues /\ NewQueue.closed \in BOOLEAN
          /\ NewQueue.messages \in Seq(Messages)
      BY DEF NewQueue, Queues
    <3>2. <<>> \in Seq(Messages)
      OBVIOUS
    <3>3. ChatTypeOK
      BY AssignmentsAssumption, <3>1, <3>2 DEF ChatInit, ChatTypeOK, HandlerSteps, ProducerSteps,
                                               ConsumerSteps, SessionStates, Sessions
    <3>. QED BY <3>1, <3>2, <3>3 DEF ChatInit, ChatTyped
  <2>2. ASSUME NEW r \in Requests PROVE FramedFor(r) /\ SentFramed(r) /\ RestsFor(r)
    BY DEF ChatInit, FramedFor, SentFramed, RestsFor, NewQueue, Opened
  <2>. QED BY <2>1, <2>2 DEF ChatIInv
<1>2. ChatIInv /\ [ChatNext]_chatVars => ChatIInv'
  <2> SUFFICES ASSUME ChatIInv, [ChatNext]_chatVars PROVE ChatIInv'
    OBVIOUS
  <2>1. ChatTyped'
    BY ChatTypeInv DEF ChatIInv
  <2>2. ASSUME NEW r \in Requests PROVE FramedFor(r)' /\ SentFramed(r)' /\ RestsFor(r)'
    BY <2>1, FramedStep DEF ChatIInv
  <2>. QED BY <2>1, <2>2 DEF ChatIInv
<1>. QED BY <1>1, <1>2, PTL DEF ChatSpec

-----------------------------------------------------------------------------
(* The sessions the table hands out *)

\* A session is in the table under its own chat only.
Own == \A c \in Chats : table[c] \in {NoSession, c} \cup {r \in Requests : chat[r] = c}

\* A session in the table is being closed only if it has expired.
Handed ==
  \A c \in Chats : (table[c] # NoSession /\ state[table[c]] = "closing") => table[c] \in expired

SessionStep ==
  \/ \E r \in Requests : \/ ReplaceSession(r) \/ OldSessionClosed(r)
                         \/ SessionStarts(r) \/ SessionFails(r)
  \/ \E s \in Sessions : Expire(s)
  \/ ExpiredClosed
  \/ \E c \in Chats : PopExpired(c)

\* The other steps leave the sessions alone.
LEMMA OtherSteps ==
  ASSUME [ChatNext]_chatVars, ~ SessionStep
  PROVE  UNCHANGED <<table, state, expired>>
<1>1. ASSUME NEW r \in Requests, ProducerStep(r)
      PROVE  UNCHANGED <<table, state, expired>>
  BY <1>1 DEF ProducerStep, SessionStep, Refuse, Start, LookupFails, UseSession, GenerationFails,
              AgentAnswers, ReferencesFail, sessionVars
<1>2. ASSUME NEW r \in Requests,
             \/ Receive(r) \/ ConsumerStep(r) \/ Gather(r)
             \/ ToolResult(r) \/ DispatchTool(r)
      PROVE  UNCHANGED <<table, state, expired>>
  BY <1>2 DEF Receive, ConsumerStep, Consume, SendFails, Gather, ToolResult, DispatchTool, sessionVars
<1>3. CASE UNCHANGED chatVars
  BY <1>3 DEF chatVars, sessionVars
<1>4. CASE ListExpired
  BY <1>4 DEF ListExpired
<1>. QED BY <1>1, <1>2, <1>3, <1>4 DEF ChatNext, CleanupStep, SessionStep

\* Two chats never have the same session.
LEMMA OnePlace ==
  ASSUME ChatTyped, Own, NEW c \in Chats, NEW d \in Chats, c # d, table[c] = table[d]
  PROVE  table[c] = NoSession
BY NamesAssumption DEF Own

\* Every step keeps the sessions of the table open or expired.
LEMMA HandedStep ==
  ASSUME ChatTyped, Own, Handed, [ChatNext]_chatVars
  PROVE  Own' /\ Handed'
<1> USE DEF ChatTyped, ChatTypeOK
<1>0. NoSession \notin Sessions /\ Requests \subseteq Sessions
  BY NamesAssumption DEF Sessions
<1>c. chat' = chat
  BY SessionTypes
<1>1. CASE UNCHANGED <<table, state, expired>>
  BY <1>1, <1>c DEF Own, Handed
<1>2. ASSUME NEW r \in Requests, ReplaceSession(r) PROVE Own' /\ Handed'
  <2> DEFINE s == table[chat[r]]
  <2>1. /\ s \in Sessions \cup {NoSession} /\ ~ Usable(s)
        /\ table' = table /\ expired' = expired /\ CloseSession(s)
    BY <1>2 DEF ReplaceSession
  <2> HIDE DEF s
  <2>2. \A t \in Sessions : state'[t] # state[t] => t = s /\ state[t] = "ready" /\ s # NoSession
    BY <2>1 DEF CloseSession
  <2>3. Own'
    BY <1>c, <2>1 DEF Own
  <2>4. ASSUME NEW c \in Chats, table[c] # NoSession, state'[table[c]] = "closing"
        PROVE  table[c] \in expired
    <3>1. table[c] \in Sessions
      BY <2>4
    <3>2. CASE state'[table[c]] = state[table[c]]
      BY <2>4, <3>2 DEF Handed
    <3>3. CASE state'[table[c]] # state[table[c]]
      BY <2>1, <2>2, <3>1, <3>3 DEF Usable, Ready
    <3>. QED BY <3>2, <3>3
  <2>. QED BY <2>1, <2>3, <2>4 DEF Handed
<1>3. ASSUME table' = table, expired' = expired,
             \A t \in Sessions : state'[t] = "closing" => state[t] = "closing"
      PROVE  Own' /\ Handed'
  BY <1>c, <1>3 DEF Own, Handed
<1>4. ASSUME NEW s, ClosedSession(s)
      PROVE  \A t \in Sessions : state'[t] = "closing" => state[t] = "closing"
  BY <1>4 DEF ClosedSession
<1>5. ASSUME NEW r \in Requests, OldSessionClosed(r) PROVE Own' /\ Handed'
  BY <1>3, <1>4, <1>5 DEF OldSessionClosed
<1>6. CASE ExpiredClosed
  BY <1>3, <1>4, <1>6 DEF ExpiredClosed
<1>7. ASSUME NEW r \in Requests, SessionFails(r) PROVE Own' /\ Handed'
  BY <1>3, <1>7 DEF SessionFails
<1>8. ASSUME NEW r \in Requests, SessionStarts(r) PROVE Own' /\ Handed'
  <2>1. /\ table' = [table EXCEPT ![chat[r]] = r] /\ state' = [state EXCEPT ![r] = "ready"]
        /\ expired' = expired /\ r \in Sessions
    BY <1>0, <1>8 DEF SessionStarts
  <2>2. Own'
    BY <1>c, <2>1 DEF Own
  <2>3. \A t \in Sessions : state'[t] = "closing" => t # r /\ state[t] = "closing"
    BY <2>1
  <2>4. Handed'
    BY <2>1, <2>3 DEF Handed
  <2>. QED BY <2>2, <2>4
<1>9. ASSUME NEW s \in Sessions, Expire(s) PROVE Own' /\ Handed'
  BY <1>c, <1>9 DEF Expire, Own, Handed
<1>10. ASSUME NEW d \in Chats, PopExpired(d) PROVE Own' /\ Handed'
  <2>1. /\ table' = [table EXCEPT ![d] = NoSession] /\ CloseSession(table[d]) /\ expired' = expired
    BY <1>10 DEF PopExpired
  <2>2. Own'
    BY <1>c, <2>1 DEF Own
  <2>3. ASSUME NEW c \in Chats, table'[c] # NoSession, state'[table'[c]] = "closing"
        PROVE  table'[c] \in expired'
    <3>1. c # d /\ table'[c] = table[c] /\ table[c] # NoSession
      BY <2>1, <2>3
    <3>2. table[c] # table[d]
      BY <3>1, OnePlace
    <3>3. state'[table[c]] = state[table[c]]
      BY <2>1, <3>1, <3>2 DEF CloseSession
    <3>. QED BY <2>1, <2>3, <3>1, <3>3 DEF Handed
  <2>. QED BY <2>2, <2>3 DEF Handed
<1>. QED BY <1>1, <1>2, <1>5, <1>6, <1>7, <1>8, <1>9, <1>10, OtherSteps DEF SessionStep

\* In every state, what the table would hand out is open.
LEMMA Handing ==
  ChatSpec => [](ChatTyped /\ Own /\ Handed)
<1>1. ChatInit => Own /\ Handed
  BY DEF ChatInit, Own, Handed, Sessions
<1>2. ChatTyped /\ Own /\ Handed /\ [ChatNext]_chatVars => (Own /\ Handed)'
  BY HandedStep
<1>3. ChatSpec => []ChatTyped
  <2>1. ChatIInv => ChatTyped
    BY DEF ChatIInv
  <2>. QED BY <2>1, ChatInvariance, PTL
<1>. QED BY <1>1, <1>2, <1>3, PTL DEF ChatSpec

\* The variables of the chats always have their types.
THEOREM ChatTypeCorrect == ChatSpec => []ChatTypeOK
<1>1. ChatIInv => ChatTypeOK
  BY DEF ChatIInv, ChatTyped
<1>. QED BY <1>1, ChatInvariance, PTL

\* Whatever raises, expires or disconnects, a client is sent the start first
\* and the end of an answer last, after its content.
THEOREM AnswerFramed == ChatSpec => []AnswerIsFramed
<1>1. ChatIInv => AnswerIsFramed
  BY DEF ChatIInv, SentFramed, AnswerIsFramed
<1>. QED BY <1>1, ChatInvariance, PTL

\* A message is handed a session that is open: one that is being closed has
\* left the table or has expired.
THEOREM HandedOut == ChatSpec => HandedOutIsOpen
<1> DEFINE A == \A r \in Requests :
                  (producer[r] # "generating" /\ producer'[r] = "generating") => state'[using'[r]] = "ready"
<1>1. ChatTyped /\ Own /\ Handed /\ [ChatNext]_chatVars => [A]_chatVars
  <2> SUFFICES ASSUME ChatTyped, Handed, [ChatNext]_chatVars,
                      NEW r \in Requests, producer[r] # "generating", producer'[r] = "generating"
               PROVE  state'[using'[r]] = "ready"
    OBVIOUS
  <2> USE DEF ChatTyped, ChatTypeOK, MessageStep
  <2>1. CASE UseSession(r)
    <3> DEFINE s == table[chat[r]]
    <3>1. Usable(s) /\ state' = state /\ using'[r] = s /\ chat[r] \in Chats
      BY <2>1 DEF UseSession, sessionVars
    <3>. QED BY <3>1 DEF Usable, Ready, Handed
  <2>2. CASE SessionStarts(r)
    BY <2>2 DEF SessionStarts, Sessions
  <2>3. UseSession(r) \/ SessionStarts(r)
    <3>1. ASSUME NEW q \in Requests, q # r, MessageStep(q)
          PROVE  producer'[r] = producer[r]
      BY <3>1 DEF Receive, Gather, ToolResult, DispatchTool, ConsumerStep, Consume, SendFails,
                  ProducerStep, Refuse, Start, LookupFails, UseSession, ReplaceSession,
                  OldSessionClosed, SessionStarts, SessionFails, GenerationFails, AgentAnswers, ReferencesFail, Raise
    <3>2. CASE \/ Receive(r) \/ Gather(r) \/ ToolResult(r) \/ DispatchTool(r)
               \/ ConsumerStep(r)
      BY <3>2 DEF Receive, Gather, ToolResult, DispatchTool, ConsumerStep, Consume, SendFails
    <3>3. CASE ProducerStep(r)
      BY <3>3 DEF ProducerStep, Refuse, Start, LookupFails, ReplaceSession, OldSessionClosed,
                  SessionFails, GenerationFails, AgentAnswers, ReferencesFail, Raise
    <3>4. CASE UNCHANGED Tasks
      BY <3>4 DEF Tasks
    <3>. QED BY <3>1, <3>2, <3>3, <3>4, SessionSteps DEF ChatNext
  <2>. QED BY <2>1, <2>2, <2>3
<1>2. ChatSpec => [](ChatTyped /\ Own /\ Handed)
  BY Handing
<1>. QED BY <1>1, <1>2, PTL DEF ChatSpec, HandedOutIsOpen
=============================================================================
