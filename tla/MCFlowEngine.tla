---------------------------- MODULE MCFlowEngine ----------------------------
(* Every graph over three nodes, cyclic or not, and with one edge more that  *)
(* begins or ends, or both, at a name that is no node.                       *)
EXTENDS FlowEngine
CONSTANTS n1, n2, n3, absent
MCNodes == {n1, n2, n3}
MCMissing == {absent}
MCEdges == MCNodes \X MCNodes
MCDangling == ((MCNodes \cup MCMissing) \X (MCNodes \cup MCMissing)) \ MCEdges
MCGraphs ==
  SUBSET MCEdges \cup {graph \cup {edge} : graph \in SUBSET MCEdges, edge \in MCDangling}
=============================================================================
