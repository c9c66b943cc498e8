---------------------------- MODULE MCMiroFishGraph ----------------------------
(* MiroFishGraph for TLC: nothing is promised once a write of the config is  *)
(* lost, and one other mishap, or builds that skip documents, are followed   *)
(* to the end.                                                               *)
EXTENDS MiroFishGraph, TLC

OneMishap == Cardinality(mishaps) <= 1 /\ "lost_write" \notin mishaps

NothingSkipped == \A r \in Revisions : skipped[r] = {}

OneThing == mishaps = {} \/ (OneMishap /\ NothingSkipped)

=============================================================================
