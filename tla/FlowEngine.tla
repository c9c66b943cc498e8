----------------------------- MODULE FlowEngine -----------------------------
(***************************************************************************)
(* One execution of a flow: aperag/flow/engine.py runs the nodes of a      *)
(* graph level by level, the nodes of a level at once (asyncio.gather),    *)
(* and puts events into a queue that the debug stream of flow_service.py   *)
(* sends to a client until it sees the end or the failure of the flow.     *)
(***************************************************************************)
EXTENDS Naturals, Sequences, FiniteSets

CONSTANTS Nodes,   \* the nodes of the flow
          Missing, \* names that are no nodes of the flow: nothing keeps an
                   \* edge from naming one
          Graphs,  \* the sets of edges a flow may have
          Flow     \* stands for the flow in its own events

ASSUME NodesAssumption == Nodes # {} /\ IsFiniteSet(Nodes) /\ Flow \notin Nodes
ASSUME MissingAssumption == Missing \cap Nodes = {}

Names == Nodes \cup Missing

ASSUME GraphsAssumption == Graphs \subseteq SUBSET (Names \X Names)

NodeSteps == {"waiting", "created", "running", "done", "failed"}
EngineSteps == {"new", "running", "returned", "raised"}
StreamSteps == {"events", "awaiting", "answering", "ended", "gone"}
EventTypes == {"start", "end", "error"}

VARIABLES
  edges,    \* flow.edges
  engine,   \* where execute_flow is
  group,    \* the group that is executed
  grouped,  \* the nodes of this and the earlier groups: processed
  node,     \* where each node is
  outputs,  \* context.outputs: the nodes that have one
  events,   \* the events that were emitted, in order
  sent,     \* how many of them the stream has sent
  stream    \* where the stream is

vars == <<edges, engine, group, grouped, node, outputs, events, sent, stream>>

Init ==
  /\ edges \in Graphs
  /\ engine = "new"
  /\ group = {} /\ grouped = {}
  /\ node = [n \in Nodes |-> "waiting"]
  /\ outputs = {}
  /\ events = <<>>
  /\ sent = 0
  /\ stream = "events"

Event(type, of) == [type |-> type, of |-> of]
Emit(type, of) == events' = Append(events, Event(type, of))

Sources(n) == {m \in Names : <<m, n>> \in edges}

-----------------------------------------------------------------------------
(* The graph.  In-degrees are counted down as nodes are taken out, so those *)
(* of the nodes left are zero where no source is left: one that is no node  *)
(* is never taken out.                                                     *)

\* mutant: one source is enough
OneSource(taken) ==
  {n \in Nodes \ taken : Sources(n) = {} \/ Sources(n) \cap taken # {}}

Independent(taken) == {n \in Nodes \ taken : Sources(n) \subseteq taken}

\* _topological_sort, level by level: what can be taken out in k rounds.
Taken[k \in 0 .. Cardinality(Nodes)] ==
  IF k = 0 THEN {} ELSE Taken[k - 1] \cup Independent(Taken[k - 1])

\* The in-degree of a target that is no node is a KeyError.
TargetsExist == \A edge \in edges : edge[2] \in Nodes

\* mutant: no final count
StartsSomewhere == TargetsExist /\ Taken[Cardinality(Nodes)] # {}

Sortable == TargetsExist /\ Taken[Cardinality(Nodes)] = Nodes

-----------------------------------------------------------------------------
(* execute_flow *)

\* The next of the groups that _find_parallel_groups made, if there is one.
NextGroup(taken) ==
  /\ group' = Independent(taken)
  /\ grouped' = taken \cup group'
  /\ node' = [n \in Nodes |-> IF n \in group' THEN "created" ELSE node[n]]

StartFlow ==
  /\ engine = "new"
  /\ Sortable
  /\ engine' = "running"
  /\ Emit("start", Flow)
  /\ NextGroup({})
  /\ UNCHANGED <<edges, outputs, sent, stream>>

RejectFlow ==
  /\ engine = "new"
  /\ ~ Sortable
  /\ engine' = "raised"
  /\ events' = events \o <<Event("start", Flow), Event("error", Flow)>>
  /\ UNCHANGED <<edges, group, grouped, node, outputs, sent, stream>>

FirstDone == \E n \in group : node[n] = "done"   \* mutant: not all are awaited

GroupDone == \A n \in group : node[n] = "done"

AdvanceGroup ==
  /\ engine = "running"
  /\ GroupDone
  /\ grouped # Nodes
  /\ NextGroup(grouped)
  /\ UNCHANGED <<edges, engine, outputs, events, sent, stream>>

EndFlow ==
  /\ engine = "running"
  /\ GroupDone
  /\ grouped = Nodes
  /\ engine' = "returned"
  /\ Emit("end", Flow)
  /\ UNCHANGED <<edges, group, grouped, node, outputs, sent, stream>>

\* gather raises at the first failure; the other nodes of the group go on.
FailFlow ==
  /\ engine = "running"
  /\ \E n \in group : node[n] = "failed"
  /\ engine' = "raised"
  /\ Emit("error", Flow)
  /\ UNCHANGED <<edges, group, grouped, node, outputs, sent, stream>>

-----------------------------------------------------------------------------
(* _execute_node *)

\* The inputs are bound: expressions refer to the outputs of nodes before.
StartNode(n) ==
  /\ node[n] = "created"
  /\ node' = [node EXCEPT ![n] = "running"]
  /\ Emit("start", n)
  /\ UNCHANGED <<edges, engine, group, grouped, outputs, sent, stream>>

\* A type that is not registered is raised without an event.
UnknownType(n) ==
  /\ node[n] = "created"
  /\ node' = [node EXCEPT ![n] = "failed"]
  /\ UNCHANGED <<edges, engine, group, grouped, outputs, events, sent, stream>>

EndNode(n) ==
  /\ node[n] = "running"
  /\ node' = [node EXCEPT ![n] = "done"]
  /\ outputs' = outputs \cup {n}
  /\ Emit("end", n)
  /\ UNCHANGED <<edges, engine, group, grouped, sent, stream>>

\* Inputs that cannot be bound, or a runner that raises.
FailNode(n) ==
  /\ node[n] \in {"created", "running"}
  /\ node' = [node EXCEPT ![n] = "failed"]
  /\ Emit("error", n)
  /\ UNCHANGED <<edges, engine, group, grouped, outputs, sent, stream>>

-----------------------------------------------------------------------------
(* stream_flow_events *)

OnlyEnd(event) == event.of = Flow /\ event.type = "end"   \* mutant

Terminal(event) == event.of = Flow /\ event.type \in {"end", "error"}

AfterEvent(event) ==
  CASE ~ Terminal(event) -> "events"
    [] event = Event("end", Flow) -> "awaiting"
    [] event = Event("error", Flow) -> "ended"

SendEvent ==
  /\ stream = "events"
  /\ sent < Len(events)
  /\ sent' = sent + 1
  /\ stream' = AfterEvent(events[sent'])
  /\ UNCHANGED <<edges, engine, group, grouped, node, outputs, events>>

\* The task is awaited and the end nodes are asked for a generator.
EndNodes == {n \in Nodes : \A m \in Nodes : <<n, m>> \notin edges}

AwaitFlow ==
  /\ stream = "awaiting"
  /\ engine = "returned"
  /\ stream' \in (IF EndNodes \cap outputs = {} THEN {"ended"} ELSE {"answering", "ended"})
  /\ UNCHANGED <<edges, engine, group, grouped, node, outputs, events, sent>>

Answer ==
  /\ stream = "answering"
  /\ stream' = "ended"
  /\ UNCHANGED <<edges, engine, group, grouped, node, outputs, events, sent>>

\* The client is gone: the stream is dropped, the flow is executed all the same.
Disconnect ==
  /\ stream \in {"events", "awaiting", "answering"}
  /\ stream' = "gone"
  /\ UNCHANGED <<edges, engine, group, grouped, node, outputs, events, sent>>

-----------------------------------------------------------------------------
EngineStep == StartFlow \/ RejectFlow \/ AdvanceGroup \/ EndFlow \/ FailFlow
NodeStep(n) == StartNode(n) \/ UnknownType(n) \/ EndNode(n) \/ FailNode(n)
StreamStep == SendEvent \/ AwaitFlow \/ Answer

Next ==
  \/ EngineStep
  \/ \E n \in Nodes : NodeStep(n)
  \/ StreamStep
  \/ Disconnect

Spec == Init /\ [][Next]_vars

\* The event loop runs every task, and runners return or raise.
FairSpec ==
  /\ Spec
  /\ WF_vars(EngineStep) /\ WF_vars(StreamStep)
  /\ \A n \in Nodes : WF_vars(NodeStep(n))

-----------------------------------------------------------------------------
TypeOK ==
  /\ edges \in Graphs
  /\ engine \in EngineSteps
  /\ group \subseteq Nodes /\ grouped \subseteq Nodes
  /\ node \in [Nodes -> NodeSteps]
  /\ outputs \subseteq Nodes
  /\ events \in Seq([type : EventTypes, of : Nodes \cup {Flow}])
  /\ sent \in 0 .. Len(events)
  /\ stream \in StreamSteps

\* A node is not started before every node it has an edge from has put its
\* output into the context, whatever runs at once and whatever fails.
InputsAreReady ==
  \A n \in Nodes : node[n] # "waiting" => Sources(n) \subseteq outputs

\* The reference for the sort is the transitive closure of the edges.
Reaches(relation) ==
  relation \cup {p \in Names \X Names :
                   \E m \in Names : <<p[1], m>> \in relation /\ <<m, p[2]>> \in relation}

Closure[k \in 0 .. Cardinality(Nodes)] ==
  IF k = 0 THEN edges ELSE Reaches(Closure[k - 1])

Cyclic == \E n \in Nodes : <<n, n>> \in Closure[Cardinality(Nodes)]

EndsExist == edges \subseteq Nodes \X Nodes

Rejected == engine = "raised" /\ grouped = {}

\* A flow is rejected before any node of it runs exactly if some node can be
\* reached from itself or an edge has an end that is no node of the flow, by
\* counting in-degrees alone: there is no check of the ends of edges.
OnlyUnsoundFlowsAreRejected ==
  /\ Rejected => Cyclic \/ ~ EndsExist
  /\ engine \in {"running", "returned"} => ~ Cyclic /\ EndsExist

\* What the message says, "Flow contains cycles".  It is false of an acyclic
\* flow that has an edge from a node that is not there.
OnlyCyclesAreRejected == Rejected => Cyclic

\* The end of a flow is announced once, after every node has ended and as
\* the last event of all.
Ended == \E i \in 1 .. Len(events) : events[i] = Event("end", Flow)

EndIsComplete ==
  Ended => /\ \A n \in Nodes : node[n] = "done"
           /\ events[Len(events)] = Event("end", Flow)
           /\ Len(events) = 2 * Cardinality(Nodes) + 2

\* Whatever fails, a client that stays is told the outcome: the stream ends.
StreamEnds == <>(stream \in {"ended", "gone"})
=============================================================================
