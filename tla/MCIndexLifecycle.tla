-------------------------- MODULE MCIndexLifecycle --------------------------
(* Model-checking instances of IndexLifecycle: constants are set in the cfg. *)
EXTENDS IndexLifecycle, TLC

\* API workers are interchangeable, and so are reconciler passes.
Symmetry == Permutations(Requests) \cup Permutations(Passes)

=============================================================================
