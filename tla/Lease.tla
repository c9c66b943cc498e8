------------------------------- MODULE Lease -------------------------------
(***************************************************************************)
(* What a lock that expires can promise.  It belongs to one holder at most *)
(* and is taken from it only by its own release or by time; a holder that  *)
(* goes on without it is one whose time ran out.                           *)
(***************************************************************************)
CONSTANTS Holders, Free

VARIABLES
  owner,   \* the holder the lock is granted to, or Free
  inside,  \* the holders that believe they have it
  lapsed   \* those whose lease ran out while they were inside

vars == <<owner, inside, lapsed>>

Init ==
  /\ owner = Free
  /\ inside = {}
  /\ lapsed = {}

Acquire(p) ==
  /\ owner = Free
  /\ p \notin inside
  /\ owner' = p
  /\ inside' = inside \cup {p}
  /\ UNCHANGED lapsed

\* The lock is granted, and its holder is never told.
Orphan(p) ==
  /\ owner = Free
  /\ owner' = p
  /\ UNCHANGED <<inside, lapsed>>

\* A holder leaves, and frees the lock or lets it run out.
Leave(p) ==
  /\ p \in inside
  /\ owner' \in {owner} \cup (IF owner = p THEN {Free} ELSE {})
  /\ inside' = inside \ {p}
  /\ lapsed' = lapsed \ {p}

Lapse ==
  /\ owner # Free
  /\ owner' = Free
  /\ lapsed' = lapsed \cup (inside \cap {owner})
  /\ UNCHANGED inside

Next ==
  \/ \E p \in Holders : Acquire(p) \/ Orphan(p) \/ Leave(p)
  \/ Lapse

Spec == Init /\ [][Next]_vars
=============================================================================
