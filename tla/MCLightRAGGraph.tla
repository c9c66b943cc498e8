--------------------------- MODULE MCLightRAGGraph ---------------------------
(* LightRAGGraph for TLC: two entities, the relation between them, and a     *)
(* chunk per text, from which a part of them is extracted.  Nothing is       *)
(* promised after a mishap, and one task is retried or repeated.             *)
EXTENDS LightRAGGraph, TLC, FiniteSetsExt
CONSTANTS e1, e2, r, c1, c2, t1, t2

MCEnds == r :> <<e1, e2>>
MCChunksOf == t1 :> {c1} @@ t2 :> {c2}
MCAnswers == c1 :> {{e1, e2, r}, {e1}} @@ c2 :> {{e1, r}, {e2}}

\* Documents are interchangeable.
Symmetry == Permutations(Docs)

Repeats ==
  MapThenSumSet(LAMBDA d : indexer[d].retries + indexer[d].updates + deleter[d].retries, Docs)
OneRepeat == mishaps = {} /\ Repeats <= 1

\* For the counterexample: edges that went with a node, and no other mishap.
OnlyDroppedEdges == mishaps \subseteq {"dropped_edge"}
=============================================================================
