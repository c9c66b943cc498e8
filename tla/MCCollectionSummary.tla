------------------------ MODULE MCCollectionSummary ------------------------
(* Model-checking instances of CollectionSummary: constants are set in the cfg. *)
EXTENDS CollectionSummary

=============================================================================
