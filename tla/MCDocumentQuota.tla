--------------------------- MODULE MCDocumentQuota ---------------------------
(* DocumentQuota for TLC.  The two limits are low one at a time, and the     *)
(* lower one of the collection is explored without what only the usage       *)
(* tells apart: recalculations, and releases that nothing had paid for.      *)
EXTENDS DocumentQuota, TLC

CollectionLow == perCollection = 1

Separately ==
    CollectionLow =>
        /\ limit = 2 /\ unpaid = 0
        /\ \A r \in Requests : req[r].op \notin {"recount", "expire"}

=============================================================================
