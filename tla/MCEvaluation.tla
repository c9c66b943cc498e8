---------------------------- MODULE MCEvaluation ----------------------------
(* Model-checking instances of Evaluation: constants are set in the cfg. *)
EXTENDS Evaluation, TLC

\* Worker processes are interchangeable, and so are API workers.
Symmetry == Permutations(Workers) \cup Permutations(Requests)

=============================================================================
