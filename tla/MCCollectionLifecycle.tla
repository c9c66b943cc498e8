------------------------- MODULE MCCollectionLifecycle -------------------------
(* CollectionLifecycle for TLC: the stores of one collection, and the quota  *)
(* of several, which does not depend on what the tasks do.  For the stores,  *)
(* a task that gave up is followed to the end; after any other mishap        *)
(* nothing more is promised.                                                 *)
EXTENDS CollectionLifecycle, TLC

CONSTANT Subject   \* the collection whose stores are explored

UntilMishap == mishaps \subseteq {"gave_up"}

BeforeRevival == mishaps \subseteq {"revived"}

AboutTheStores ==
  /\ UntilMishap
  /\ limit = 1
  /\ \A c \in Collections \ {Subject} : row[c] = "absent"
  /\ \A q \in Recounts : recount[q].step = "idle"

TasksWait ==
  /\ \A c \in Collections : init[c].step \in {"none", "queued"} /\ init[c].retries = 0
  /\ \A r \in Deleters : /\ deleter[r].step \in {"idle", "checked", "queued"}
                          /\ deleter[r].retries = 0
  /\ \A w \in Indexers : indexer[w].step = "idle"

AboutTheQuota == TasksWait /\ mishaps = {}

OneAtATime == AboutTheStores \/ AboutTheQuota

=============================================================================
