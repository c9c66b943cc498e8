----------------------- MODULE CollectionSummaryProofs -----------------------
(***************************************************************************)
(* For any collections, requests and passes: a summary becomes COMPLETE    *)
(* for the version its row asks for; as long as no pass dies no two tasks  *)
(* work for one row; and where no claim can leak into the commit for       *)
(* another collection, what is GENERATING has a task that will close it.   *)
(*                                                                         *)
(* A claim is held from the UPDATE to the commit, and only its holder      *)
(* sends a task for it, so a row that can be claimed has no task.          *)
(***************************************************************************)
EXTENDS CollectionSummary, TLAPS

-----------------------------------------------------------------------------
(* The inductive invariant. *)

\* A claimed row can be claimed: nobody writes it until the commit.
Claimable(row) == Present(row) /\ row.status # "GENERATING"

HeldClaimable == \A c \in Collections : holder[c] # NoPass => Claimable(summary[c])

Claiming == {"claimed", "scheduled"}

\* What a pass has claimed is the version of the row that is there.
ClaimOf(p) ==
    p.cur.id = summary[p.cur.on].id /\ p.cur.version = summary[p.cur.on].version

ClaimsHeld ==
    \A p \in Passes :
       pass[p].pc \in Claiming => holder[pass[p].cur.on] = p /\ ClaimOf(pass[p])

\* The claim of a row whose task was sent, before the commit.
Uncommitted(c) ==
    /\ holder[c] \in Passes
    /\ pass[holder[c]].pc = "scheduled" /\ pass[holder[c]].cur.on = c

TasksKnown == \A k \in tasks : k.id <= summary[k.on].id

\* A row that has a task is not claimed again.
Assigned(k) ==
    k.id = summary[k.on].id => ~ Claimable(summary[k.on]) \/ Uncommitted(k.on)

OneTaskPerRow ==
    "pass" \notin mishaps =>
       /\ \A k \in tasks : Assigned(k)
       /\ \A k, l \in tasks : k.on = l.on /\ k.id = l.id => k = l

IInv == TypeOK /\ HeldClaimable /\ ClaimsHeld /\ TasksKnown /\ OneTaskPerRow

-----------------------------------------------------------------------------
(* No claim leaks *)

\* A claim can be committed with that of another collection only if the
\* broker refuses tasks and there is another collection.
NoLeak == "schedule" \notin Faults \/ \A c, d \in Collections : c = d

\* The rest of a pass has no item of the collection in hand.
TodoApart ==
    \A p \in Passes :
       /\ pass[p].pc # "idle" => \A i, j \in pass[p].todo : i.on = j.on => i = j
       /\ pass[p].pc \in Claiming \cup {"taken"} =>
             \A i \in pass[p].todo : i.on # pass[p].cur.on

\* A pass holds the row in hand and no other; after a refusal it has nothing
\* left to claim.
HoldsOne ==
    \A c \in Collections :
       holder[c] # NoPass =>
          LET p == pass[holder[c]]
          IN  \/ p.pc \in Claiming /\ p.cur.on = c
              \/ p.pc = "ready" /\ p.todo = {}

\* The row of a collection that does not exist yet, and of one in use.
InUse ==
    /\ \A c \in Collections : Present(summary[c]) => collection[c].state # "NONE"
    /\ \A r \in Requests : req[r].pc # "idle" => collection[req[r].on].state # "NONE"

\* The task of a claim does not run before the commit, and closes the row
\* after it.
Awaited ==
    TasksRun =>
       /\ \A p \in Passes :
             pass[p].pc = "scheduled" =>
                \E k \in tasks : /\ k.on = pass[p].cur.on /\ k.pc = "queued"
                                 /\ k.id = pass[p].cur.id
                                 /\ k.version = pass[p].cur.version
       /\ \A c \in Collections :
             summary[c].status = "GENERATING" /\ collection[c].state # "DELETED" =>
                \E k \in tasks : k.on = c /\ Matches(k)

GInv == IInv /\ TodoApart /\ HoldsOne /\ InUse /\ Awaited

-----------------------------------------------------------------------------
(* The config has its way *)

Settled(c) == collection[c].state = "ACTIVE" => (collection[c].enabled <=> Present(summary[c]))

Open(r, c) == req[r].pc # "idle" /\ req[r].on = c

\* A request on its way has the last word about a collection that is not
\* adrift: no other one is, and it finds the row that it read.
LastWord(r) ==
    /\ \A o \in Requests : Open(o, req[r].on) => o = r
    /\ collection[req[r].on].enabled = req[r].enabled
    /\ req[r].pc = "read" =>
          /\ Present(req[r].seen) <=> Present(summary[req[r].on])
          /\ Present(req[r].seen) => req[r].seen.id = summary[req[r].on].id

ConfigFollows ==
    /\ \A c \in Collections :
          collection[c].state = "NONE" =>
             ~ Present(summary[c]) /\ \A r \in Requests : ~ Open(r, c)
    /\ \A c \in Collections \ adrift : (\A r \in Requests : ~ Open(r, c)) => Settled(c)
    /\ \A r \in Requests : req[r].pc # "idle" /\ req[r].on \notin adrift => LastWord(r)

CInv == TypeOK /\ HeldClaimable /\ ConfigFollows

-----------------------------------------------------------------------------
(* Types *)

LEMMA TypesOf ==
    ASSUME TypeOK
    PROVE  /\ collection \in [Collections -> Collection]
           /\ summary \in [Collections -> Row]
           /\ holder \in [Collections -> Passes \cup {NoPass}]
           /\ req \in [Requests -> Request]
           /\ pass \in [Passes -> Pass]
           /\ tasks \subseteq Task /\ sent \in Nat
           /\ \A p \in Passes : pass[p].cur \in Item /\ pass[p].todo \subseteq Item
           /\ \A k \in tasks : k.on \in Collections
    BY DEF TypeOK, Pass, Task

LEMMA FirstTypes ==
           /\ IdleRequest \in Request /\ IdlePass \in Pass /\ Blank \in Collection
           /\ NoRow \in Row /\ AnyCollection \in Collections
<1>1. AnyCollection \in Collections
    BY ConstantsAssumption DEF AnyCollection
<1>2. NoRow \in Row /\ Blank \in Collection
    BY DEF NoRow, Row, Blank, Collection
<1> QED BY <1>1, <1>2 DEF IdleRequest, Request, IdlePass, Pass, Item

LEMMA CollectionTypes ==
    ASSUME NEW c \in Collection, NEW enabled \in BOOLEAN, NEW n \in Nat
    PROVE  /\ [c EXCEPT !.enabled = enabled, !.description = n, !.edits = n] \in Collection
           /\ [c EXCEPT !.state = "DELETED"] \in Collection
           /\ [c EXCEPT !.description = 0, !.updated = n] \in Collection
           /\ c.edits \in Nat /\ c.updated \in Nat
    BY DEF Collection

LEMMA RowTypes ==
    ASSUME NEW row \in Row, NEW n \in Nat
    PROVE  /\ [row EXCEPT !.status = "GENERATING"] \in Row
           /\ [row EXCEPT !.status = "FAILED"] \in Row
           /\ [row EXCEPT !.status = "COMPLETE", !.observed = n] \in Row
           /\ [row EXCEPT !.version = n] \in Row
           /\ row.id \in Nat /\ row.version \in Nat
    BY DEF Row

LEMMA PassTypes ==
    ASSUME NEW p \in Pass, NEW todo \in SUBSET Item, NEW cur \in Item
    PROVE  /\ \A pc \in {"idle", "ready", "taken", "claimed", "scheduled"} :
                 /\ [p EXCEPT !.pc = pc] \in Pass
                 /\ [p EXCEPT !.pc = pc, !.expired = TRUE] \in Pass
                 /\ [p EXCEPT !.pc = pc, !.todo = todo] \in Pass
                 /\ [p EXCEPT !.pc = pc, !.todo = todo, !.cur = cur] \in Pass
    BY DEF Pass

LEMMA TaskTypes ==
    ASSUME NEW k \in Task
    PROVE  /\ [k EXCEPT !.pc = "failing"] \in Task
           /\ [k EXCEPT !.pc = "running"] \in Task
           /\ \A text \in BOOLEAN, seen \in Collection :
                 [k EXCEPT !.pc = "writing", !.text = text, !.seen = seen] \in Task
           /\ k.on \in Collections /\ k.id \in Nat /\ k.version \in Nat
    BY DEF Task

\* What a trigger makes of a row: nothing, no row, a new row, or another
\* version of the same row.
LEMMA TriggeredRow ==
    ASSUME NEW q \in Request, NEW now \in Row,
           NEW row, row = (IF FlushFails(q, now) THEN now ELSE Triggered(q, now))
    PROVE  /\ row \in Row
           /\ \/ row = now
              \/ /\ ~ q.enabled /\ Present(q.seen) /\ now.id = q.seen.id
                 /\ ~ Present(row) /\ row.id = now.id
              \/ /\ q.enabled /\ ~ Present(q.seen) /\ ~ Present(now)
                 /\ row.status = "PENDING" /\ row.id = now.id + 1
              \/ /\ q.enabled /\ Present(q.seen) /\ Present(now) /\ now.id = q.seen.id
                 /\ row.status = now.status /\ row.id = now.id
<1>1. q.enabled \in BOOLEAN /\ q.seen \in Row
    BY DEF Request
<1>2. CASE FlushFails(q, now)
    BY <1>2
<1>3. CASE ~ FlushFails(q, now) /\ ~ q.enabled
    <2>1. CASE Present(q.seen) /\ now.id = q.seen.id
        BY <1>3, <2>1 DEF Triggered, NoRow, Row, Present
    <2>2. CASE ~ (Present(q.seen) /\ now.id = q.seen.id)
        BY <1>3, <2>2 DEF Triggered
    <2> QED BY <2>1, <2>2
<1>4. CASE ~ FlushFails(q, now) /\ q.enabled
    <2>1. CASE ~ Present(q.seen)
        <3>1. row = NewRow(now) /\ ~ Present(now)
            BY <1>4, <2>1 DEF FlushFails, Triggered
        <3> QED BY <1>4, <2>1, <3>1 DEF NewRow, Row
    <2>2. CASE Present(q.seen) /\ q.seen.status = "GENERATING"
        BY <1>4, <2>2 DEF Triggered
    <2>3. CASE Present(q.seen) /\ q.seen.status # "GENERATING"
        <3>1. /\ row = [now EXCEPT !.version = q.seen.version + 1]
              /\ Present(now) /\ now.id = q.seen.id
            BY <1>4, <2>3 DEF FlushFails, Triggered
        <3>2. q.seen.version + 1 \in Nat
            BY <1>1 DEF Row
        <3> QED BY <1>4, <2>3, <3>1, <3>2 DEF Row
    <2> QED BY <2>1, <2>2, <2>3
<1> QED BY <1>2, <1>3, <1>4

\* The steps of a request keep the types.
LEMMA RequestsTyped ==
    ASSUME TypeOK, NEW r \in Requests,
           \/ RequestStep(r) \/ TriggerFails(r)
           \/ \E c \in Collections, enabled \in BOOLEAN :
                 CreateCollection(r, c, enabled) \/ UpdateCollection(r, c, enabled)
    PROVE  TypeOK'
<1>1. /\ collection \in [Collections -> Collection] /\ summary \in [Collections -> Row]
      /\ req \in [Requests -> Request] /\ req[r] \in Request /\ req[r].on \in Collections
    BY TypesOf DEF Request
<1>2. ASSUME collection' \in [Collections -> Collection], summary' \in [Collections -> Row],
             req' \in [Requests -> Request], mishaps' \subseteq Faults \cup {"early", "raised"},
             adrift' \subseteq Collections, UNCHANGED <<holder, pass, tasks, sent>>
      PROVE  TypeOK'
    BY <1>2 DEF TypeOK
<1>3. \A c \in Collections, enabled \in BOOLEAN : Triggering(c, enabled) \in Request
    BY FirstTypes DEF Triggering, Request
<1>4. ASSUME NEW c \in Collections, NEW enabled \in BOOLEAN, CreateCollection(r, c, enabled)
      PROVE  TypeOK'
    <2>1. [state |-> "ACTIVE", enabled |-> enabled, description |-> 1,
           edits |-> 1, updated |-> 1] \in Collection
        BY DEF Collection
    <2>2. collection' \in [Collections -> Collection]
        BY <1>1, <1>4, <2>1 DEF CreateCollection
    <2>3. req' \in [Requests -> Request]
        BY <1>1, <1>3, <1>4 DEF CreateCollection
    <2> QED BY <1>1, <1>2, <1>4, <2>2, <2>3 DEF CreateCollection, Updated, TypeOK
<1>5. ASSUME NEW c \in Collections, NEW enabled \in BOOLEAN, UpdateCollection(r, c, enabled)
      PROVE  TypeOK'
    <2>1. collection[c].edits + 1 \in Nat
        BY <1>1 DEF Collection
    <2>2. collection' \in [Collections -> Collection]
        BY <1>1, <1>5, <2>1, CollectionTypes DEF UpdateCollection
    <2>3. req' \in [Requests -> Request]
        BY <1>1, <1>3, <1>5 DEF UpdateCollection
    <2> QED BY <1>1, <1>2, <1>5, <2>2, <2>3 DEF UpdateCollection, Updated, TypeOK
<1>6. CASE ReadSummary(r)
    <2>1. req' \in [Requests -> Request]
        <3>1. [req[r] EXCEPT !.pc = "read", !.seen = summary[req[r].on]] \in Request
            BY <1>1 DEF Request
        <3> QED BY <1>1, <1>6, <3>1 DEF ReadSummary
    <2> QED BY <1>1, <1>2, <1>6, <2>1 DEF ReadSummary, TypeOK
<1>7. CASE TriggerGeneration(r)
    <2> DEFINE q == req[r]
               now == summary[q.on]
               row == IF FlushFails(q, now) THEN now ELSE Triggered(q, now)
    <2>1. row \in Row
        BY <1>1, TriggeredRow
    <2>2. summary' = [summary EXCEPT ![q.on] = row]
        BY <1>7 DEF TriggerGeneration
    <2>3. summary' \in [Collections -> Row]
        <3> HIDE DEF row
        <3> QED BY <1>1, <2>1, <2>2
    <2>4. req' \in [Requests -> Request]
        <3>1. IdleRequest \in Request
            BY <1>1, FirstTypes
        <3> QED BY <1>1, <1>7, <3>1 DEF TriggerGeneration
    <2>5. mishaps' \subseteq Faults \cup {"early", "raised"}
        BY <1>7 DEF TriggerGeneration, TypeOK
    <2> QED BY <1>1, <1>2, <1>7, <2>3, <2>4, <2>5 DEF TriggerGeneration, TypeOK
<1>8. CASE TriggerFails(r)
    <2>1. IdleRequest \in Request
        BY <1>1, FirstTypes
    <2> QED BY <1>1, <1>2, <1>8, <2>1 DEF TriggerFails, TypeOK
<1> QED BY <1>4, <1>5, <1>6, <1>7, <1>8 DEF RequestStep

LEMMA ReleasedTypes ==
    ASSUME TypeOK, NEW p
    PROVE  Released(p) \in [Collections -> Passes \cup {NoPass}]
    BY DEF TypeOK, Released

\* So do those of a pass.
LEMMA PassesTyped ==
    ASSUME TypeOK, NEW p \in Passes, PassStep(p) \/ ScheduleFails(p) \/ PassDies(p)
    PROVE  TypeOK'
<1>1. /\ summary \in [Collections -> Row] /\ pass \in [Passes -> Pass] /\ pass[p] \in Pass
      /\ pass[p].cur \in Item /\ pass[p].todo \in SUBSET Item /\ pass[p].cur.on \in Collections
      /\ holder \in [Collections -> Passes \cup {NoPass}]
    BY TypesOf DEF Item
<1>2. \A new \in Pass : [pass EXCEPT ![p] = new] \in [Passes -> Pass]
    BY <1>1
<1>3. ASSUME summary' \in [Collections -> Row], pass' \in [Passes -> Pass],
             holder' \in [Collections -> Passes \cup {NoPass}],
             tasks' \subseteq Task, sent' \in Nat, mishaps' \subseteq Faults \cup {"early", "raised"},
             UNCHANGED <<collection, req, adrift>>
      PROVE  TypeOK'
    BY <1>3 DEF TypeOK
<1>4. IdlePass \in Pass
    BY <1>1, FirstTypes
<1>5. CASE GetSummariesNeedingReconciliation(p)
    <2> DEFINE found == {c \in Collections : NeedsReconciliation(summary[c])}
               todo == {[on |-> c, id |-> summary[c].id, version |-> summary[c].version] : c \in found}
    <2>1. todo \in SUBSET Item
        BY <1>1 DEF Item, Row
    <2>2. pass' = [pass EXCEPT ![p] = [IdlePass EXCEPT !.pc = "ready", !.todo = todo]]
        BY <1>5 DEF GetSummariesNeedingReconciliation
    <2>3. pass' \in [Passes -> Pass]
        <3> HIDE DEF todo
        <3> QED BY <1>1, <1>2, <1>4, <2>1, <2>2, PassTypes
    <2> QED BY <1>1, <1>3, <1>5, <2>3 DEF GetSummariesNeedingReconciliation, TypeOK
<1>6. ASSUME NEW it \in pass[p].todo, TakeSummary(p, it) PROVE TypeOK'
    <2> DEFINE now == [it EXCEPT !.version = summary[it.on].version]
               cur == IF pass[p].expired THEN now ELSE it
               rest == pass[p].todo \ {it}
    <2>1. cur \in Item /\ rest \in SUBSET Item
        <3>1. it \in Item /\ it.on \in Collections
            BY <1>1 DEF Item
        <3>2. summary[it.on].version \in Nat
            BY <1>1, <3>1 DEF Row
        <3>3. now \in Item
            BY <3>1, <3>2 DEF Item
        <3> QED BY <1>1, <3>1, <3>3
    <2>2. \/ pass' = [pass EXCEPT ![p] = IdlePass] /\ holder' = Released(p)
          \/ /\ pass' = [pass EXCEPT ![p] = [pass[p] EXCEPT !.pc = "taken", !.todo = rest, !.cur = cur]]
             /\ holder' = holder
        BY <1>1, <1>6 DEF TakeSummary
    <2>3. pass' \in [Passes -> Pass] /\ holder' \in [Collections -> Passes \cup {NoPass}]
        <3>1. [pass[p] EXCEPT !.pc = "taken", !.todo = rest, !.cur = cur] \in Pass
            <4> HIDE DEF cur, rest
            <4> QED BY <1>1, <2>1, PassTypes
        <3> QED BY <1>1, <1>2, <1>4, <2>2, <3>1, ReleasedTypes
    <2> QED BY <1>1, <1>3, <1>6, <2>3 DEF TakeSummary, TypeOK
<1>7. CASE ClaimSummary(p)
    <2>1. pass' \in [Passes -> Pass]
        BY <1>1, <1>2, <1>7, PassTypes DEF ClaimSummary
    <2>2. holder' \in [Collections -> Passes \cup {NoPass}]
        BY <1>1, <1>7 DEF ClaimSummary
    <2> QED BY <1>1, <1>3, <1>7, <2>1, <2>2 DEF ClaimSummary, TypeOK
<1>8. CASE ScheduleSummaryGeneration(p)
    <2>1. pass' \in [Passes -> Pass]
        BY <1>1, <1>2, <1>8, PassTypes DEF ScheduleSummaryGeneration
    <2>2. Blank \in Collection /\ sent \in Nat
        BY <1>1, FirstTypes, TypesOf
    <2>3. tasks' \subseteq Task /\ sent' \in Nat
        <3> DEFINE it == pass[p].cur
                   k == [nr |-> sent, on |-> it.on, id |-> it.id, version |-> it.version,
                         pc |-> "queued", text |-> FALSE, seen |-> Blank]
        <3>1. it.on \in Collections /\ it.id \in Nat /\ it.version \in Nat
            BY <1>1 DEF Item
        <3>2. k \in Task
            <4>1. \A on \in Collections, id \in Nat, version \in Nat, text \in BOOLEAN :
                     [nr |-> sent, on |-> on, id |-> id, version |-> version, pc |-> "queued",
                      text |-> text, seen |-> Blank] \in Task
                BY <2>2 DEF Task
            <4>2. FALSE \in BOOLEAN
                OBVIOUS
            <4> HIDE DEF it
            <4> QED BY <3>1, <4>1, <4>2
        <3>3. tasks' = tasks \cup {k} /\ sent' = sent + 1
            BY <1>8 DEF ScheduleSummaryGeneration
        <3>4. tasks \subseteq Task
            BY TypesOf
        <3> HIDE DEF k
        <3> QED BY <2>2, <3>2, <3>3, <3>4
    <2> QED BY <1>1, <1>3, <1>8, <2>1, <2>3 DEF ScheduleSummaryGeneration, TypeOK
<1>9. CASE CommitSession(p)
    <2>1. pass' \in [Passes -> Pass]
        BY <1>1, <1>2, <1>9, PassTypes DEF CommitSession
    <2>2. summary' \in [Collections -> Row]
        BY <1>1, <1>9, RowTypes DEF CommitSession
    <2> QED BY <1>3, <1>9, <2>1, <2>2, ReleasedTypes DEF CommitSession, TypeOK
<1>10. CASE EndPass(p)
    BY <1>1, <1>2, <1>3, <1>4, <1>10, ReleasedTypes DEF EndPass, TypeOK
<1>11. CASE ScheduleFails(p)
    <2>1. pass' \in [Passes -> Pass]
        BY <1>1, <1>2, <1>11, PassTypes DEF ScheduleFails
    <2> QED BY <1>1, <1>3, <1>11, <2>1 DEF ScheduleFails, Fault, TypeOK
<1>12. CASE PassDies(p)
    BY <1>1, <1>2, <1>3, <1>4, <1>12, ReleasedTypes DEF PassDies, Fault, TypeOK
<1> QED BY <1>5, <1>6, <1>7, <1>8, <1>9, <1>10, <1>11, <1>12 DEF PassStep

\* So does everything else.
LEMMA TasksTyped ==
    ASSUME TypeOK, NEW k \in tasks, TaskStep(k) \/ TaskLost(k)
    PROVE  TypeOK'
<1>1. /\ collection \in [Collections -> Collection] /\ summary \in [Collections -> Row]
      /\ tasks \subseteq Task /\ k \in Task /\ k.on \in Collections /\ k.version \in Nat
    BY TypesOf, TaskTypes
<1>2. ASSUME collection' \in [Collections -> Collection], summary' \in [Collections -> Row],
             tasks' \subseteq Task, mishaps' \subseteq Faults \cup {"early", "raised"},
             UNCHANGED <<holder, req, pass, sent, adrift>>
      PROVE  TypeOK'
    BY <1>2 DEF TypeOK
<1>3. CASE StartTask(k)
    <2>1. tasks' \subseteq Task /\ mishaps' \subseteq Faults \cup {"early", "raised"}
        BY <1>1, <1>3, TaskTypes DEF StartTask, TypeOK
    <2> QED BY <1>1, <1>2, <1>3, <2>1 DEF StartTask, Others
<1>4. CASE GenerationFails(k)
    BY <1>1, <1>2, <1>4, TaskTypes DEF GenerationFails, Others, TypeOK
<1>5. ASSUME NEW text \in BOOLEAN, ReadOnGenerated(k, text) PROVE TypeOK'
    <2>1. [k EXCEPT !.pc = "writing", !.text = text, !.seen = collection[k.on]] \in Task
        BY <1>1, TaskTypes
    <2>2. tasks' \subseteq Task
        BY <1>1, <1>5, <2>1 DEF ReadOnGenerated
    <2> QED BY <1>1, <1>2, <1>5, <2>2 DEF ReadOnGenerated, Others, TypeOK
<1>6. CASE WriteOnGenerated(k)
    <2>1. summary' \in [Collections -> Row]
        BY <1>1, <1>6, RowTypes DEF WriteOnGenerated
    <2>2. collection' \in [Collections -> Collection]
        <3>1. collection[k.on].updated + 1 \in Nat
            BY <1>1 DEF Collection
        <3> QED BY <1>1, <1>6, <3>1, CollectionTypes DEF WriteOnGenerated
    <2> QED BY <1>1, <1>2, <1>6, <2>1, <2>2 DEF WriteOnGenerated, TypeOK
<1>7. CASE OnSummaryFailed(k)
    <2>1. summary' \in [Collections -> Row]
        BY <1>1, <1>7, RowTypes DEF OnSummaryFailed
    <2> QED BY <1>1, <1>2, <1>7, <2>1 DEF OnSummaryFailed, Others, TypeOK
<1>8. CASE TaskLost(k)
    BY <1>1, <1>2, <1>8 DEF TaskLost, Fault, TypeOK
<1> QED BY <1>3, <1>4, <1>5, <1>6, <1>7, <1>8 DEF TaskStep

LEMMA TypesKept ==
    ASSUME TypeOK, [Next]_vars
    PROVE  TypeOK'
<1>1. ASSUME NEW c \in Collections, DeleteCollection(c) PROVE TypeOK'
    BY <1>1, CollectionTypes DEF DeleteCollection, TypeOK
<1>2. CASE UNCHANGED vars
    BY <1>2 DEF vars, TypeOK
<1> QED BY <1>1, <1>2, RequestsTyped, PassesTyped, TasksTyped DEF Next

-----------------------------------------------------------------------------
(* What each actor does to the rows *)

\* A request writes a row that nobody has claimed.
LEMMA RequestEffect ==
    ASSUME TypeOK, NEW r \in Requests,
           \/ RequestStep(r) \/ TriggerFails(r)
           \/ \E c \in Collections, enabled \in BOOLEAN :
                 CreateCollection(r, c, enabled) \/ UpdateCollection(r, c, enabled)
    PROVE  /\ UNCHANGED <<holder, pass, tasks>> /\ mishaps \subseteq mishaps'
           /\ "pass" \in mishaps' => "pass" \in mishaps
           /\ \A c \in Collections :
                 \/ summary'[c] = summary[c]
                 \/ /\ holder[c] = NoPass
                    /\ \/ ~ Present(summary'[c]) /\ summary'[c].id = summary[c].id
                       \/ /\ ~ Present(summary[c])
                          /\ summary'[c].status = "PENDING" /\ summary'[c].id = summary[c].id + 1
                       \/ /\ Present(summary[c])
                          /\ summary'[c].status = summary[c].status
                          /\ summary'[c].id = summary[c].id
                          /\ \/ summary'[c].version = summary[c].version
                             \/ summary[c].status # "GENERATING"
                             \/ "raised" \in mishaps'
<1>1. CASE TriggerGeneration(r)
    <2> DEFINE q == req[r]
               now == summary[q.on]
               row == IF FlushFails(q, now) THEN now ELSE Triggered(q, now)
    <2>1. /\ summary \in [Collections -> Row] /\ q \in Request /\ q.on \in Collections /\ now \in Row
        BY TypesOf DEF Request
    <2>2. /\ summary' = [summary EXCEPT ![q.on] = row]
          /\ row # now => holder[q.on] = NoPass
          /\ UNCHANGED <<holder, pass, tasks>> /\ mishaps \subseteq mishaps'
          /\ mishaps' \subseteq mishaps \cup {"raised"}
        BY <1>1 DEF TriggerGeneration
    <2>3. \/ row = now
          \/ ~ Present(row) /\ row.id = now.id
          \/ ~ Present(now) /\ row.status = "PENDING" /\ row.id = now.id + 1
          \/ Present(now) /\ row.status = now.status /\ row.id = now.id
        BY <2>1, TriggeredRow
    <2> HIDE DEF row
    <2>4. summary'[q.on] = row /\ \A c \in Collections \ {q.on} : summary'[c] = summary[c]
        BY <2>1, <2>2
    <2>5. "pass" \in mishaps' => "pass" \in mishaps
        BY <2>2
    <2>6. row.version # now.version /\ row.status = "GENERATING" => "raised" \in mishaps'
        BY <1>1 DEF TriggerGeneration, row
    <2> QED BY <2>2, <2>3, <2>4, <2>5, <2>6
<1>2. CASE ~ TriggerGeneration(r)
    BY <1>2 DEF RequestStep, ReadSummary, TriggerFails, CreateCollection, UpdateCollection
<1> QED BY <1>1, <1>2

SameWork(k, l) == l.on = k.on /\ l.id = k.id /\ l.version = k.version

\* A task goes on or ends; only a callback that matches writes the row, and
\* then the task is over.
LEMMA TaskEffect ==
    ASSUME TypeOK, NEW k \in tasks, TaskStep(k) \/ TaskLost(k)
    PROVE  /\ UNCHANGED <<holder, pass, req>>
           /\ \/ tasks' = tasks \ {k}
              \/ \E l \in Task : SameWork(k, l) /\ tasks' = (tasks \ {k}) \cup {l}
           /\ \/ summary' = summary
              \/ \E row \in Row :
                    /\ Matches(k) /\ tasks' = tasks \ {k}
                    /\ summary' = [summary EXCEPT ![k.on] = row]
                    /\ row.id = summary[k.on].id /\ row.version = summary[k.on].version
                    /\ row.status \in {"COMPLETE", "FAILED"}
                    /\ row.status = "COMPLETE" => row.observed = row.version
           /\ mishaps \subseteq mishaps'
<1>1. /\ collection \in [Collections -> Collection] /\ summary \in [Collections -> Row]
      /\ k \in Task /\ k.on \in Collections /\ k.version \in Nat
      /\ collection[k.on] \in Collection /\ summary[k.on] \in Row
    BY TypesOf, TaskTypes
<1> DEFINE failing == [k EXCEPT !.pc = "failing"]
           running == [k EXCEPT !.pc = "running"]
           writing(text) == [k EXCEPT !.pc = "writing", !.text = text, !.seen = collection[k.on]]
<1>2. /\ failing \in Task /\ SameWork(k, failing) /\ running \in Task /\ SameWork(k, running)
      /\ \A text \in BOOLEAN : writing(text) \in Task /\ SameWork(k, writing(text))
    BY <1>1 DEF Task, SameWork
<1> HIDE DEF failing, running, writing
<1>3. CASE StartTask(k)
    <2>1. \/ tasks' = tasks \ {k}
          \/ tasks' = (tasks \ {k}) \cup {failing}
          \/ tasks' = (tasks \ {k}) \cup {running}
        BY <1>3 DEF StartTask, failing, running
    <2>2. UNCHANGED <<holder, pass, req, summary>> /\ mishaps \subseteq mishaps'
        BY <1>3 DEF StartTask, Others
    <2> QED BY <1>2, <2>1, <2>2
<1>4. CASE GenerationFails(k)
    <2>1. tasks' = (tasks \ {k}) \cup {failing}
        BY <1>4 DEF GenerationFails, failing
    <2> QED BY <1>2, <1>4, <2>1 DEF GenerationFails, Others
<1>5. ASSUME NEW text \in BOOLEAN, ReadOnGenerated(k, text)
      PROVE  /\ UNCHANGED <<holder, pass, req, summary, mishaps>>
             /\ \/ tasks' = tasks \ {k}
                \/ \E l \in Task : SameWork(k, l) /\ tasks' = (tasks \ {k}) \cup {l}
    <2>1. tasks' = tasks \ {k} \/ tasks' = (tasks \ {k}) \cup {writing(text)}
        BY <1>5 DEF ReadOnGenerated, writing
    <2> QED BY <1>2, <1>5, <2>1 DEF ReadOnGenerated, Others
<1>6. CASE WriteOnGenerated(k)
    <2> DEFINE row == [summary[k.on] EXCEPT !.status = "COMPLETE", !.observed = k.version]
    <2>1. /\ row \in Row /\ row.id = summary[k.on].id /\ row.version = summary[k.on].version
          /\ row.status = "COMPLETE" /\ row.observed = k.version
        BY <1>1 DEF Row
    <2>2. /\ summary' = IF Matches(k) THEN [summary EXCEPT ![k.on] = row] ELSE summary
          /\ tasks' = tasks \ {k} /\ UNCHANGED <<holder, pass, req, mishaps>>
        BY <1>6 DEF WriteOnGenerated
    <2>3. Matches(k) => k.version = summary[k.on].version
        BY DEF Matches
    <2> HIDE DEF row
    <2> QED BY <2>1, <2>2, <2>3
<1>7. CASE OnSummaryFailed(k)
    <2> DEFINE row == [summary[k.on] EXCEPT !.status = "FAILED"]
    <2>1. /\ row \in Row /\ row.id = summary[k.on].id /\ row.version = summary[k.on].version
          /\ row.status = "FAILED"
        BY <1>1 DEF Row
    <2>2. /\ summary' = IF Matches(k) THEN [summary EXCEPT ![k.on] = row] ELSE summary
          /\ tasks' = tasks \ {k} /\ UNCHANGED <<holder, pass, req, mishaps>>
        BY <1>7 DEF OnSummaryFailed, Others
    <2> HIDE DEF row
    <2> QED BY <2>1, <2>2
<1>8. CASE TaskLost(k)
    BY <1>8 DEF TaskLost, Fault
<1> QED BY <1>3, <1>4, <1>5, <1>6, <1>7, <1>8 DEF TaskStep

\* Only a commit of a pass changes rows, those it holds.
LEMMA PassEffect ==
    ASSUME TypeOK, NEW p \in Passes, PassStep(p) \/ ScheduleFails(p) \/ PassDies(p)
    PROVE  /\ UNCHANGED <<req, collection>>
           /\ \A o \in Passes \ {p} : pass'[o] = pass[o]
           /\ \A c \in Collections : holder[c] \notin {p, NoPass} => holder'[c] = holder[c]
           /\ \A c \in Collections : holder'[c] \in {p, NoPass, holder[c]}
           /\ \A c \in Collections :
                 \/ summary'[c] = summary[c]
                 \/ /\ holder[c] = p /\ pass[p].pc = "scheduled"
                    /\ summary'[c] = [summary[c] EXCEPT !.status = "GENERATING"]
                    /\ summary'[c].id = summary[c].id /\ summary'[c].status = "GENERATING"
                    /\ summary'[c].version = summary[c].version
           /\ mishaps \subseteq mishaps'
<1>1. /\ pass \in [Passes -> Pass] /\ holder \in [Collections -> Passes \cup {NoPass}]
      /\ summary \in [Collections -> Row]
    BY TypesOf
<1>2. CASE CommitSession(p)
    <2>1. ASSUME NEW c \in Collections
          PROVE  \/ summary'[c] = summary[c]
                 \/ /\ holder[c] = p /\ pass[p].pc = "scheduled"
                    /\ summary'[c] = [summary[c] EXCEPT !.status = "GENERATING"]
                    /\ summary'[c].id = summary[c].id /\ summary'[c].status = "GENERATING"
                    /\ summary'[c].version = summary[c].version
        BY <1>1, <1>2 DEF CommitSession, Row
    <2> QED BY <1>1, <1>2, <2>1 DEF CommitSession, Released
<1>3. ASSUME NEW it \in pass[p].todo, TakeSummary(p, it)
      PROVE  /\ UNCHANGED <<req, collection, summary, mishaps>>
             /\ \A o \in Passes \ {p} : pass'[o] = pass[o]
             /\ holder' = holder \/ holder' = Released(p)
    BY <1>1, <1>3 DEF TakeSummary
<1>4. CASE GetSummariesNeedingReconciliation(p)
    BY <1>1, <1>4 DEF GetSummariesNeedingReconciliation
<1>5. CASE ClaimSummary(p)
    BY <1>1, <1>5 DEF ClaimSummary
<1>6. CASE ScheduleSummaryGeneration(p)
    BY <1>1, <1>6 DEF ScheduleSummaryGeneration
<1>7. CASE EndPass(p)
    BY <1>1, <1>7 DEF EndPass, Released
<1>8. CASE ScheduleFails(p)
    BY <1>1, <1>8 DEF ScheduleFails, Fault
<1>9. CASE PassDies(p)
    BY <1>1, <1>9 DEF PassDies, Fault, Released
<1> QED BY <1>1, <1>2, <1>3, <1>4, <1>5, <1>6, <1>7, <1>8, <1>9 DEF PassStep, Released

-----------------------------------------------------------------------------
(* One task for a row *)

LEMMA HoldersAre ==
    ASSUME TypeOK
    PROVE  /\ \A c \in Collections : holder[c] \in Passes \cup {NoPass}
           /\ NoPass \notin Passes
           /\ \A p \in Passes : pass[p].cur.on \in Collections
           /\ \A k \in tasks : k.on \in Collections /\ k.id \in Nat
           /\ \A c \in Collections : summary[c].id \in Nat
    BY TypesOf, ConstantsAssumption DEF Item, Row, Task

LEMMA RequestsSafe ==
    ASSUME IInv, TypeOK', NEW r \in Requests,
           \/ RequestStep(r) \/ TriggerFails(r)
           \/ \E c \in Collections, enabled \in BOOLEAN :
                 CreateCollection(r, c, enabled) \/ UpdateCollection(r, c, enabled)
    PROVE  IInv'
<1>1. TypeOK /\ HeldClaimable /\ ClaimsHeld /\ TasksKnown /\ OneTaskPerRow
    BY DEF IInv
<1>2. /\ UNCHANGED <<holder, pass, tasks>> /\ mishaps \subseteq mishaps'
      /\ \A c \in Collections :
            \/ summary'[c] = summary[c]
            \/ /\ holder[c] = NoPass
               /\ \/ ~ Present(summary'[c]) /\ summary'[c].id = summary[c].id
                  \/ summary'[c].id = summary[c].id + 1
                  \/ summary'[c].status = summary[c].status /\ summary'[c].id = summary[c].id
    BY <1>1, RequestEffect
<1>3. HeldClaimable'
    BY <1>1, <1>2 DEF HeldClaimable
<1>4. ClaimsHeld'
    BY <1>1, <1>2, HoldersAre DEF ClaimsHeld, ClaimOf
<1>5. TasksKnown'
    BY <1>1, <1>2, HoldersAre DEF TasksKnown
<1>6. OneTaskPerRow'
    <2>1. ASSUME NEW k \in tasks, Assigned(k) PROVE Assigned(k)'
        <3>1. /\ k.on \in Collections /\ k.id \in Nat /\ summary[k.on].id \in Nat
              /\ k.id <= summary[k.on].id
            BY <1>1, HoldersAre DEF TasksKnown
        <3>2. CASE summary'[k.on] = summary[k.on]
            BY <1>2, <2>1, <3>2 DEF Assigned, Uncommitted
        <3>3. CASE ~ Present(summary'[k.on])
            BY <3>3 DEF Assigned, Claimable
        <3>4. CASE summary'[k.on].id = summary[k.on].id + 1
            BY <3>1, <3>4 DEF Assigned
        <3>5. CASE summary'[k.on].status = summary[k.on].status /\ summary'[k.on].id = summary[k.on].id
            BY <1>2, <2>1, <3>5 DEF Assigned, Claimable, Present, Uncommitted
        <3> QED BY <1>2, <3>1, <3>2, <3>3, <3>4, <3>5
    <2> QED BY <1>1, <1>2, <2>1 DEF OneTaskPerRow
<1> QED BY <1>3, <1>4, <1>5, <1>6 DEF IInv

LEMMA TasksSafe ==
    ASSUME IInv, TypeOK', NEW k \in tasks, TaskStep(k) \/ TaskLost(k)
    PROVE  IInv'
<1>1. TypeOK /\ HeldClaimable /\ ClaimsHeld /\ TasksKnown /\ OneTaskPerRow /\ k.on \in Collections
    BY TypesOf DEF IInv
<1>2. /\ UNCHANGED <<holder, pass>> /\ mishaps \subseteq mishaps'
      /\ \/ tasks' = tasks \ {k}
         \/ \E l \in Task : SameWork(k, l) /\ tasks' = (tasks \ {k}) \cup {l}
    BY <1>1, TaskEffect
<1>3. \/ summary' = summary
      \/ /\ Matches(k) /\ tasks' = tasks \ {k}
         /\ \A c \in Collections \ {k.on} : summary'[c] = summary[c]
         /\ summary'[k.on].id = summary[k.on].id /\ summary'[k.on].version = summary[k.on].version
    <2>1. summary \in [Collections -> Row]
        BY <1>1, TypesOf
    <2> QED BY <1>1, <2>1, TaskEffect
<1>4. \A c \in Collections : summary'[c].id = summary[c].id /\ summary'[c].version = summary[c].version
    BY <1>3
<1>5. \A c \in Collections : holder[c] # NoPass => summary'[c] = summary[c]
    BY <1>1, <1>3 DEF HeldClaimable, Claimable, Matches
<1>6. HeldClaimable'
    BY <1>1, <1>2, <1>5 DEF HeldClaimable
<1>7. ClaimsHeld'
    BY <1>1, <1>2, <1>4, HoldersAre DEF ClaimsHeld, ClaimOf
<1>8. TasksKnown'
    BY <1>1, <1>2, <1>4, HoldersAre DEF TasksKnown, SameWork
<1>9. OneTaskPerRow'
    <2> SUFFICES ASSUME "pass" \notin mishaps'
                 PROVE  /\ \A l \in tasks' : Assigned(l)'
                        /\ \A l, m \in tasks' : l.on = m.on /\ l.id = m.id => l = m
        BY DEF OneTaskPerRow
    <2>1. /\ \A l \in tasks : Assigned(l)
          /\ \A l, m \in tasks : l.on = m.on /\ l.id = m.id => l = m
        BY <1>1, <1>2 DEF OneTaskPerRow
    <2>2. \A l, m \in tasks' : l.on = m.on /\ l.id = m.id => l = m
        BY <1>2, <2>1 DEF SameWork
    <2>3. ASSUME NEW l \in tasks' PROVE Assigned(l)'
        <3>1. CASE summary' = summary
            BY <1>2, <2>1, <3>1 DEF Assigned, Uncommitted, SameWork
        <3>2. CASE summary' # summary
            <4>1. l \in tasks \ {k} /\ Matches(k) /\ l.on \in Collections
                BY <1>1, <1>3, <3>2, HoldersAre
            <4>2. CASE l.on = k.on
                <5>1. l.id # summary[k.on].id
                    BY <2>1, <4>1, <4>2 DEF Matches
                <5> QED BY <1>1, <1>4, <4>2, <5>1 DEF Assigned
            <4>3. CASE l.on # k.on
                <5>1. summary'[l.on] = summary[l.on]
                    BY <1>3, <3>2, <4>1, <4>3
                <5> QED BY <1>2, <2>1, <4>1, <5>1 DEF Assigned, Uncommitted
            <4> QED BY <4>2, <4>3
        <3> QED BY <3>1, <3>2
    <2> QED BY <2>2, <2>3
<1> QED BY <1>6, <1>7, <1>8, <1>9 DEF IInv

\* A pass that sends no task and commits nothing keeps the claims of others;
\* its own are those it holds.
LEMMA PassKeepsClaims ==
    ASSUME IInv, TypeOK', NEW p \in Passes, summary' = summary, tasks' = tasks,
           mishaps \subseteq mishaps',
           \A o \in Passes \ {p} : pass'[o] = pass[o],
           \A c \in Collections : holder[c] \notin {p, NoPass} => holder'[c] = holder[c],
           \A c \in Collections : holder'[c] \in {p, NoPass, holder[c]},
           \A c \in Collections : holder'[c] = p => holder[c] = p \/ Claimable(summary[c]),
           pass'[p].pc \in Claiming => holder'[pass'[p].cur.on] = p /\ ClaimOf(pass'[p]),
           pass[p].pc # "scheduled" \/ "pass" \in mishaps'
    PROVE  IInv'
<1>1. TypeOK /\ HeldClaimable /\ ClaimsHeld /\ TasksKnown /\ OneTaskPerRow
    BY DEF IInv
<1>2. HeldClaimable'
    BY <1>1 DEF HeldClaimable
<1>3. ClaimsHeld'
    <2>1. ASSUME NEW o \in Passes \ {p}, pass[o].pc \in Claiming
          PROVE  holder'[pass[o].cur.on] = o /\ pass[o].cur.on \in Collections
        BY <1>1, <2>1, HoldersAre DEF ClaimsHeld
    <2> QED BY <1>1, <2>1 DEF ClaimsHeld, ClaimOf
<1>4. TasksKnown'
    BY <1>1 DEF TasksKnown
<1>5. OneTaskPerRow'
    <2> SUFFICES ASSUME "pass" \notin mishaps' PROVE OneTaskPerRow'
        BY DEF OneTaskPerRow
    <2>1. \A c \in Collections : Uncommitted(c) => Uncommitted(c)'
        BY <1>1, HoldersAre DEF Uncommitted
    <2>2. \A k \in tasks : Assigned(k) => Assigned(k)'
        BY <1>1, <2>1, HoldersAre DEF Assigned
    <2> QED BY <1>1, <2>2 DEF OneTaskPerRow
<1> QED BY <1>2, <1>3, <1>4, <1>5 DEF IInv

LEMMA SchedulesSafe ==
    ASSUME IInv, TypeOK', NEW p \in Passes, ScheduleSummaryGeneration(p)
    PROVE  IInv'
<1> DEFINE it == pass[p].cur
<1>1. TypeOK /\ HeldClaimable /\ ClaimsHeld /\ TasksKnown /\ OneTaskPerRow
    BY DEF IInv
<1>2. pass[p].pc = "claimed" /\ UNCHANGED <<summary, holder, mishaps>>
    BY DEF ScheduleSummaryGeneration
<1>3. /\ pass'[p].pc = "scheduled" /\ pass'[p].cur = it
      /\ \A o \in Passes \ {p} : pass'[o] = pass[o]
    BY <1>1, TypesOf DEF ScheduleSummaryGeneration, Pass
<1>4. /\ holder[it.on] = p /\ it.id = summary[it.on].id /\ it.version = summary[it.on].version
      /\ it.on \in Collections /\ summary[it.on].id \in Nat /\ Claimable(summary[it.on])
    BY <1>1, <1>2, HoldersAre DEF ClaimsHeld, ClaimOf, Claiming, HeldClaimable
<1>5. PICK k : tasks' = tasks \cup {k} /\ k.on = it.on /\ k.id = it.id
    <2> DEFINE new == [nr |-> sent, on |-> it.on, id |-> it.id, version |-> it.version,
                       pc |-> "queued", text |-> FALSE, seen |-> Blank]
    <2>1. new.on = it.on /\ new.id = it.id
        OBVIOUS
    <2>2. tasks' = tasks \cup {new}
        BY DEF ScheduleSummaryGeneration
    <2> HIDE DEF new
    <2> QED BY <2>1, <2>2
<1>6. HeldClaimable'
    BY <1>1, <1>2 DEF HeldClaimable
<1>7. ClaimsHeld'
    BY <1>1, <1>2, <1>3, <1>4 DEF ClaimsHeld, ClaimOf
<1>8. TasksKnown'
    BY <1>1, <1>2, <1>4, <1>5 DEF TasksKnown
<1>9. OneTaskPerRow'
    <2> SUFFICES ASSUME "pass" \notin mishaps' PROVE OneTaskPerRow'
        BY DEF OneTaskPerRow
    <2>1. /\ \A l \in tasks : Assigned(l)
          /\ \A l, m \in tasks : l.on = m.on /\ l.id = m.id => l = m
        BY <1>1, <1>2 DEF OneTaskPerRow
    <2>2. ~ Uncommitted(it.on)
        BY <1>2, <1>4 DEF Uncommitted
    <2>3. \A l \in tasks : l.on = it.on => l.id # it.id
        BY <1>4, <2>1, <2>2 DEF Assigned
    <2>4. Assigned(k)'
        BY <1>2, <1>3, <1>4, <1>5 DEF Assigned, Uncommitted
    <2>5. \A c \in Collections : Uncommitted(c) => Uncommitted(c)'
        BY <1>1, <1>2, <1>3, HoldersAre DEF Uncommitted
    <2>6. \A l \in tasks : Assigned(l)'
        BY <1>1, <1>2, <2>1, <2>5, HoldersAre DEF Assigned
    <2> QED BY <1>2, <1>5, <2>1, <2>3, <2>4, <2>6 DEF OneTaskPerRow
<1> QED BY <1>6, <1>7, <1>8, <1>9 DEF IInv

LEMMA CommitsSafe ==
    ASSUME IInv, TypeOK', NEW p \in Passes, CommitSession(p)
    PROVE  IInv'
<1>1. TypeOK /\ HeldClaimable /\ ClaimsHeld /\ TasksKnown /\ OneTaskPerRow
    BY DEF IInv
<1>2. /\ pass[p].pc = "scheduled" /\ UNCHANGED <<tasks, mishaps>> /\ holder' = Released(p)
    BY DEF CommitSession
<1>3. pass'[p].pc = "ready" /\ \A o \in Passes \ {p} : pass'[o] = pass[o]
    BY <1>1, TypesOf DEF CommitSession, Pass
<1>4. \A c \in Collections :
         /\ summary'[c].id = summary[c].id /\ summary'[c].version = summary[c].version
         /\ holder[c] = p => summary'[c].status = "GENERATING" /\ holder'[c] = NoPass
         /\ holder[c] # p => summary'[c] = summary[c] /\ holder'[c] = holder[c]
    BY <1>1, TypesOf DEF CommitSession, Released, Row
<1>5. HeldClaimable'
    BY <1>1, <1>4 DEF HeldClaimable
<1>6. ClaimsHeld'
    BY <1>1, <1>3, <1>4, HoldersAre DEF ClaimsHeld, ClaimOf, Claiming
<1>7. TasksKnown'
    BY <1>1, <1>2, <1>4, HoldersAre DEF TasksKnown
<1>8. OneTaskPerRow'
    <2>1. ASSUME NEW l \in tasks, Assigned(l) PROVE Assigned(l)'
        <3>1. l.on \in Collections
            BY <1>1, HoldersAre
        <3>2. CASE holder[l.on] = p
            BY <1>4, <3>1, <3>2 DEF Assigned, Claimable
        <3>3. CASE holder[l.on] # p
            BY <1>3, <1>4, <2>1, <3>1, <3>3 DEF Assigned, Uncommitted
        <3> QED BY <3>2, <3>3
    <2> QED BY <1>1, <1>2, <2>1 DEF OneTaskPerRow
<1> QED BY <1>5, <1>6, <1>7, <1>8 DEF IInv

LEMMA PassesSafe ==
    ASSUME IInv, TypeOK', NEW p \in Passes, PassStep(p) \/ ScheduleFails(p) \/ PassDies(p)
    PROVE  IInv'
<1>1. /\ TypeOK /\ pass \in [Passes -> Pass] /\ pass[p] \in Pass /\ pass[p].cur.on \in Collections
      /\ holder \in [Collections -> Passes \cup {NoPass}] /\ NoPass \notin Passes
    BY TypesOf, HoldersAre DEF IInv
<1>2. /\ \A o \in Passes \ {p} : pass'[o] = pass[o]
      /\ \A c \in Collections : holder[c] \notin {p, NoPass} => holder'[c] = holder[c]
      /\ \A c \in Collections : holder'[c] \in {p, NoPass, holder[c]}
      /\ mishaps \subseteq mishaps'
    BY <1>1, PassEffect
<1>3. ASSUME summary' = summary, tasks' = tasks, pass'[p].pc \notin Claiming,
             pass[p].pc # "scheduled" \/ "pass" \in mishaps',
             \A c \in Collections : holder'[c] \in {NoPass, holder[c]}
      PROVE  IInv'
    BY <1>1, <1>2, <1>3, PassKeepsClaims
<1>4. \A c \in Collections : Released(p)[c] \in {NoPass, holder[c]}
    BY DEF Released
<1>5. IdlePass.pc = "idle" /\ "idle" \notin Claiming /\ "ready" \notin Claiming /\ "taken" \notin Claiming
    BY DEF IdlePass, Claiming
<1>6. CASE GetSummariesNeedingReconciliation(p)
    <2>1. pass'[p].pc = "ready"
        BY <1>1, <1>6 DEF GetSummariesNeedingReconciliation, IdlePass
    <2> QED BY <1>3, <1>5, <1>6, <2>1 DEF GetSummariesNeedingReconciliation
<1>7. ASSUME NEW it \in pass[p].todo, TakeSummary(p, it) PROVE IInv'
    <2>1. pass[p].pc = "ready" /\ pass'[p].pc \in {"idle", "taken"}
        BY <1>1, <1>5, <1>7 DEF TakeSummary, Pass
    <2> QED BY <1>3, <1>4, <1>5, <1>7, <2>1 DEF TakeSummary
<1>8. CASE ClaimSummary(p)
    <2> DEFINE c == pass[p].cur.on
    <2>1. pass[p].pc = "taken" /\ summary' = summary /\ tasks' = tasks
        BY <1>8 DEF ClaimSummary
    <2>2. CASE ClaimMatches(summary[c], pass[p].cur)
        <3>1. /\ holder[c] = NoPass /\ holder' = [holder EXCEPT ![c] = p]
              /\ pass' = [pass EXCEPT ![p].pc = "claimed"]
            BY <1>8, <2>2 DEF ClaimSummary
        <3>2. pass'[p].cur = pass[p].cur /\ holder'[c] = p
            BY <1>1, <3>1 DEF Pass
        <3>3. Claimable(summary[c]) /\ ClaimOf(pass'[p])
            BY <2>2, <3>2 DEF ClaimMatches, Claimable, ClaimOf
        <3>4. \A d \in Collections : holder'[d] = p => holder[d] = p \/ Claimable(summary[d])
            BY <1>1, <3>1, <3>3
        <3> QED BY <1>2, <2>1, <3>2, <3>3, <3>4, PassKeepsClaims
    <2>3. CASE ~ ClaimMatches(summary[c], pass[p].cur)
        <3>1. pass'[p].pc = "ready" /\ holder' = holder
            BY <1>1, <1>8, <2>3 DEF ClaimSummary
        <3> QED BY <1>3, <1>5, <2>1, <3>1
    <2> QED BY <2>2, <2>3
<1>9. CASE ScheduleSummaryGeneration(p)
    BY <1>9, SchedulesSafe
<1>10. CASE CommitSession(p)
    BY <1>10, CommitsSafe
<1>11. CASE EndPass(p)
    BY <1>1, <1>3, <1>4, <1>5, <1>11 DEF EndPass
<1>12. CASE ScheduleFails(p)
    <2>1. pass[p].pc = "claimed" /\ pass'[p].pc = "ready"
        BY <1>1, <1>12 DEF ScheduleFails
    <2> QED BY <1>3, <1>5, <1>12, <2>1 DEF ScheduleFails
<1>13. CASE PassDies(p)
    <2>1. "pass" \in mishaps' /\ pass'[p] = IdlePass
        BY <1>1, <1>13 DEF PassDies, Fault
    <2> QED BY <1>3, <1>4, <1>5, <1>13, <2>1 DEF PassDies
<1> QED BY <1>6, <1>7, <1>8, <1>9, <1>10, <1>11, <1>12, <1>13 DEF PassStep

LEMMA Invariance ==
    ASSUME IInv, [Next]_vars
    PROVE  IInv'
<1>1. TypeOK'
    BY TypesKept DEF IInv
<1>2. CASE UNCHANGED <<summary, holder, pass, tasks, mishaps>>
    BY <1>1, <1>2 DEF IInv, HeldClaimable, ClaimsHeld, ClaimOf, TasksKnown, OneTaskPerRow,
                      Assigned, Uncommitted
<1> QED BY <1>1, <1>2, RequestsSafe, PassesSafe, TasksSafe DEF Next, DeleteCollection, vars

LEMMA Initially ==
    ASSUME Init
    PROVE  IInv
<1>1. TypeOK
    BY FirstTypes, ConstantsAssumption DEF Init, TypeOK
<1>2. /\ \A c \in Collections : holder[c] = NoPass
      /\ \A p \in Passes : pass[p].pc = "idle"
      /\ tasks = {}
    BY DEF Init, IdlePass
<1> QED BY <1>1, <1>2 DEF IInv, HeldClaimable, ClaimsHeld, Claiming, TasksKnown, OneTaskPerRow

-----------------------------------------------------------------------------
(* Theorems on the claims *)

\* Every variable keeps its type, for any collections, requests and passes.
THEOREM TypeCorrect == Spec => []TypeOK
<1>1. IInv => TypeOK
    BY DEF IInv
<1> QED BY <1>1, Initially, Invariance, PTL DEF Spec

\* However many passes scanned a row, no two tasks work on one version of it,
\* as long as no pass dies between sending a task and committing its claim:
\* _claim_summary_for_processing needs no lock of its own.
THEOREM OneTask == Spec => []OneTaskPerVersion
<1>1. IInv => OneTaskPerVersion
    BY DEF IInv, OneTaskPerRow, OneTaskPerVersion
<1> QED BY <1>1, Initially, Invariance, PTL DEF Spec

LEMMA CompletesUpToDate ==
    ASSUME TypeOK, [Next]_vars, NEW c \in Collections,
           summary[c].status # "COMPLETE", summary'[c].status = "COMPLETE"
    PROVE  summary'[c].observed = summary'[c].version
<1>1. summary \in [Collections -> Row]
    BY TypesOf
<1>2. ASSUME NEW r \in Requests,
             \/ RequestStep(r) \/ TriggerFails(r)
             \/ \E d \in Collections, enabled \in BOOLEAN :
                   CreateCollection(r, d, enabled) \/ UpdateCollection(r, d, enabled)
      PROVE  FALSE
    <2>1. \/ summary'[c].status = summary[c].status
          \/ ~ Present(summary'[c]) \/ summary'[c].status = "PENDING"
        BY <1>2, RequestEffect
    <2> QED BY <2>1 DEF Present
<1>3. ASSUME NEW p \in Passes, PassStep(p) \/ ScheduleFails(p) \/ PassDies(p)
      PROVE  FALSE
    BY <1>3, PassEffect
<1>4. ASSUME NEW k \in tasks, TaskStep(k) \/ TaskLost(k)
      PROVE  summary'[c].observed = summary'[c].version
    <2>1. PICK row \in Row : /\ summary' = [summary EXCEPT ![k.on] = row]
                             /\ row.status = "COMPLETE" => row.observed = row.version
        BY <1>4, TaskEffect
    <2> QED BY <1>1, <2>1
<1>5. CASE UNCHANGED summary
    BY <1>5
<1> QED BY <1>2, <1>3, <1>4, <1>5 DEF Next, DeleteCollection, vars

\* A summary that becomes COMPLETE was generated for the version its row asks
\* for: on_summary_generated compares the version in the statement that
\* writes.
THEOREM CompleteUpToDate == Spec => BecomesCompleteUpToDate
<1>1. IInv /\ [Next]_vars =>
         [\A c \in Collections :
             summary[c].status # "COMPLETE" /\ summary'[c].status = "COMPLETE"
                => summary'[c].observed = summary'[c].version]_vars
    BY CompletesUpToDate DEF IInv
<1> QED BY <1>1, Initially, Invariance, PTL DEF Spec, BecomesCompleteUpToDate

-----------------------------------------------------------------------------
(* What is GENERATING is waited for *)

\* A collection never comes back, and is created by a request that is idle.
LEMMA StatesGrow ==
    ASSUME TypeOK, [Next]_vars, NEW c \in Collections
    PROVE  /\ collection[c].state = "DELETED" => collection'[c].state = "DELETED"
           /\ collection[c].state # "NONE" => collection'[c].state # "NONE"
<1>1. collection \in [Collections -> Collection]
    BY TypesOf
<1>2. ASSUME NEW r \in Requests, NEW d \in Collections, NEW enabled \in BOOLEAN,
             CreateCollection(r, d, enabled)
      PROVE  \/ collection'[c] = collection[c]
             \/ collection[c].state = "NONE" /\ collection'[c].state # "NONE"
    BY <1>1, <1>2 DEF CreateCollection
<1>3. ASSUME NEW r \in Requests, NEW d \in Collections, NEW enabled \in BOOLEAN,
             UpdateCollection(r, d, enabled)
      PROVE  collection'[c].state = collection[c].state
    BY <1>1, <1>3 DEF UpdateCollection, Collection
<1>4. ASSUME NEW d \in Collections, DeleteCollection(d)
      PROVE  collection'[c].state \in {"DELETED", collection[c].state}
    BY <1>1, <1>4 DEF DeleteCollection, Collection
<1>5. ASSUME NEW r \in Requests, RequestStep(r) \/ TriggerFails(r)
      PROVE  collection' = collection
    BY <1>5 DEF RequestStep, ReadSummary, TriggerGeneration, TriggerFails
<1>6. ASSUME NEW p \in Passes, PassStep(p) \/ ScheduleFails(p) \/ PassDies(p)
      PROVE  collection' = collection
    BY <1>6, PassEffect
<1>7. ASSUME NEW k \in tasks, TaskStep(k) \/ TaskLost(k)
      PROVE  collection'[c].state = collection[c].state
    <2>1. CASE WriteOnGenerated(k)
        BY <1>1, <2>1 DEF WriteOnGenerated, Collection
    <2>2. CASE ~ WriteOnGenerated(k)
        BY <1>7, <2>2 DEF TaskStep, StartTask, GenerationFails, ReadOnGenerated,
                          OnSummaryFailed, TaskLost, Others
    <2> QED BY <2>1, <2>2
<1>8. CASE UNCHANGED vars
    BY <1>8 DEF vars
<1> QED BY <1>2, <1>3, <1>4, <1>5, <1>6, <1>7, <1>8 DEF Next

\* A row and a request belong to a collection that was created.
LEMMA InUseKept ==
    ASSUME IInv, InUse, [Next]_vars
    PROVE  InUse'
<1>1. /\ TypeOK /\ collection \in [Collections -> Collection] /\ req \in [Requests -> Request]
      /\ summary \in [Collections -> Row]
      /\ \A r \in Requests : req[r] \in Request /\ req[r].on \in Collections
    BY TypesOf DEF IInv, Request
<1>2. ASSUME summary' = summary \/ \A c \in Collections : Present(summary'[c]) => Present(summary[c]),
             req' = req
      PROVE  InUse'
    BY <1>1, <1>2, StatesGrow DEF InUse
<1>3. ASSUME NEW r \in Requests, RequestStep(r) \/ TriggerFails(r) PROVE InUse'
    <2>1. \A c \in Collections \ {req[r].on} : summary'[c] = summary[c]
        BY <1>1, <1>3 DEF RequestStep, ReadSummary, TriggerGeneration, TriggerFails
    <2>2. req[r].pc # "idle"
        BY <1>3 DEF RequestStep, ReadSummary, TriggerGeneration, TriggerFails
    <2>3. \A o \in Requests : req'[o].pc # "idle" => req[o].pc # "idle" /\ req'[o].on = req[o].on
        <3>1. CASE ReadSummary(r)
            BY <1>1, <2>2, <3>1 DEF ReadSummary, Request
        <3>2. CASE TriggerGeneration(r) \/ TriggerFails(r)
            BY <1>1, <3>2 DEF TriggerGeneration, TriggerFails, IdleRequest
        <3> QED BY <1>3, <3>1, <3>2 DEF RequestStep
    <2> QED BY <1>1, <2>1, <2>2, <2>3, StatesGrow DEF InUse
<1>4. ASSUME NEW r \in Requests, NEW c \in Collections, NEW enabled \in BOOLEAN,
             CreateCollection(r, c, enabled) \/ UpdateCollection(r, c, enabled)
      PROVE  InUse'
    <2>1. summary' = summary /\ collection'[c].state # "NONE"
        <3>1. CASE CreateCollection(r, c, enabled)
            BY <1>1, <3>1 DEF CreateCollection
        <3>2. CASE UpdateCollection(r, c, enabled)
            BY <1>1, <3>2 DEF UpdateCollection, Collection
        <3> QED BY <1>4, <3>1, <3>2
    <2>2. \A o \in Requests : req'[o] = req[o] \/ req'[o].on = c
        BY <1>1, <1>4 DEF CreateCollection, UpdateCollection, Triggering
    <2> QED BY <1>1, <2>1, <2>2, StatesGrow DEF InUse
<1>5. ASSUME NEW p \in Passes, PassStep(p) \/ ScheduleFails(p) \/ PassDies(p)
      PROVE  InUse'
    <2>1. req' = req /\ \A c \in Collections : summary'[c] = summary[c] \/ holder[c] = p
        BY <1>1, <1>5, PassEffect
    <2>2. \A c \in Collections : holder[c] = p => Present(summary[c])
        BY <1>1, HoldersAre DEF IInv, HeldClaimable, Claimable
    <2> QED BY <1>2, <2>1, <2>2
<1>6. ASSUME NEW k \in tasks, TaskStep(k) \/ TaskLost(k) PROVE InUse'
    <2>1. k.on \in Collections
        BY <1>1, TypesOf
    <2>2. req' = req
        BY <1>1, <1>6, TaskEffect
    <2>3. \/ summary' = summary
          \/ Matches(k) /\ \A c \in Collections \ {k.on} : summary'[c] = summary[c]
        BY <1>1, <1>6, TaskEffect
    <2>4. \A c \in Collections : Present(summary'[c]) => Present(summary[c])
        BY <2>1, <2>3 DEF Matches, Present
    <2> QED BY <1>2, <2>2, <2>4
<1>7. ASSUME NEW c \in Collections, DeleteCollection(c) PROVE InUse'
    BY <1>2, <1>7 DEF DeleteCollection
<1>8. CASE UNCHANGED vars
    BY <1>2, <1>8 DEF vars
<1> QED BY <1>3, <1>4, <1>5, <1>6, <1>7, <1>8 DEF Next

\* Before a pass takes a row it holds none, and it holds the row in hand only.
LEMMA HoldingKept ==
    ASSUME NoLeak, IInv, TodoApart, HoldsOne, [Next]_vars
    PROVE  TodoApart' /\ HoldsOne'
<1>1. /\ TypeOK /\ pass \in [Passes -> Pass] /\ NoPass \notin Passes
      /\ holder \in [Collections -> Passes \cup {NoPass}]
      /\ \A p \in Passes : pass[p].cur.on \in Collections
      /\ \A p \in Passes : \A i \in pass[p].todo : i.on \in Collections
    BY TypesOf, HoldersAre DEF IInv, Item
<1>2. CASE UNCHANGED <<holder, pass>>
    BY <1>2 DEF TodoApart, HoldsOne
<1>3. ASSUME NEW p \in Passes, PassStep(p) \/ ScheduleFails(p) \/ PassDies(p)
      PROVE  TodoApart' /\ HoldsOne'
    <2> DEFINE q == pass[p]
               Apart(x) ==
                  /\ x.pc # "idle" => \A i, j \in x.todo : i.on = j.on => i = j
                  /\ x.pc \in Claiming \cup {"taken"} => \A i \in x.todo : i.on # x.cur.on
               Holds(x, c) == \/ x.pc \in Claiming /\ x.cur.on = c
                              \/ x.pc = "ready" /\ x.todo = {}
    <2>1. /\ q \in Pass /\ Apart(q)
          /\ \A c \in Collections : holder[c] = p => Holds(q, c)
        BY <1>1 DEF TodoApart, HoldsOne
    <2>2. /\ \A o \in Passes \ {p} : pass'[o] = pass[o]
          /\ \A c \in Collections : holder[c] \notin {p, NoPass} => holder'[c] = holder[c]
          /\ \A c \in Collections : holder'[c] \in {p, NoPass, holder[c]}
        BY <1>1, <1>3, PassEffect
    <2>3. ASSUME Apart(pass'[p]),
                 \A c \in Collections : holder'[c] = p => Holds(pass'[p], c)
          PROVE  TodoApart' /\ HoldsOne'
        <3>1. TodoApart'
            BY <2>2, <2>3 DEF TodoApart
        <3>2. ASSUME NEW c \in Collections, holder'[c] # NoPass
              PROVE  \/ pass'[holder'[c]].pc \in Claiming /\ pass'[holder'[c]].cur.on = c
                     \/ pass'[holder'[c]].pc = "ready" /\ pass'[holder'[c]].todo = {}
            <4>1. CASE holder'[c] = p
                BY <2>3, <4>1
            <4>2. CASE holder'[c] # p
                <5>1. holder'[c] = holder[c] /\ holder[c] \in Passes \ {p}
                    BY <1>1, <2>2, <3>2, <4>2
                <5> QED BY <2>2, <3>2, <5>1 DEF HoldsOne
            <4> QED BY <4>1, <4>2
        <3> QED BY <3>1, <3>2 DEF HoldsOne
    <2>4. /\ "idle" \notin Claiming \cup {"taken"} /\ "ready" \notin Claiming \cup {"taken"}
          /\ "claimed" \in Claiming /\ "scheduled" \in Claiming /\ "taken" \notin Claiming
          /\ IdlePass.pc = "idle"
        BY DEF Claiming, IdlePass
    <2>5. \A c \in Collections : Released(p)[c] # p
        BY <1>1 DEF Released
    <2>6. CASE GetSummariesNeedingReconciliation(p)
        <3> DEFINE found == {c \in Collections : NeedsReconciliation(summary[c])}
                   Entry(c) == [on |-> c, id |-> summary[c].id, version |-> summary[c].version]
                   todo == {Entry(c) : c \in found}
        <3>1. \A i, j \in todo : i.on = j.on => i = j
            OBVIOUS
        <3>2. /\ q.pc = "idle" /\ holder' = holder
              /\ pass' = [pass EXCEPT ![p] = [IdlePass EXCEPT !.pc = "ready", !.todo = todo]]
            BY <2>6 DEF GetSummariesNeedingReconciliation
        <3> HIDE DEF todo
        <3>3. pass'[p].pc = "ready" /\ pass'[p].todo = todo
            BY <1>1, <3>2 DEF IdlePass
        <3>4. \A c \in Collections : holder'[c] # p
            BY <2>1, <2>4, <3>2
        <3> QED BY <2>3, <2>4, <3>1, <3>3, <3>4
    <2>7. ASSUME NEW it \in q.todo, TakeSummary(p, it) PROVE TodoApart' /\ HoldsOne'
        <3>1. q.pc = "ready" /\ \A c \in Collections : holder[c] # p
            BY <2>1, <2>4, <2>7 DEF TakeSummary
        <3>2. CASE pass' = [pass EXCEPT ![p] = IdlePass] /\ holder' = Released(p)
            BY <1>1, <2>3, <2>4, <2>5, <3>2
        <3>3. CASE holder' = holder /\ pass'[p].pc = "taken" /\ pass'[p].todo = q.todo \ {it}
                   /\ pass'[p].cur.on = it.on
            <4>1. Apart(pass'[p])
                BY <2>1, <2>4, <3>1, <3>3
            <4> QED BY <2>3, <3>1, <3>3, <4>1
        <3>4. \/ pass' = [pass EXCEPT ![p] = IdlePass] /\ holder' = Released(p)
              \/ /\ holder' = holder /\ pass'[p].pc = "taken" /\ pass'[p].todo = q.todo \ {it}
                 /\ pass'[p].cur.on = it.on
            <4>1. it \in Item
                BY <2>1 DEF Pass
            <4>2. [it EXCEPT !.version = summary[it.on].version].on = it.on
                BY <4>1 DEF Item
            <4> QED BY <1>1, <2>1, <2>7, <4>2 DEF TakeSummary, Pass
        <3> QED BY <3>2, <3>3, <3>4
    <2>8. CASE ClaimSummary(p)
        <3>1. q.pc = "taken" /\ \A c \in Collections : holder[c] # p
            BY <2>1, <2>4, <2>8 DEF ClaimSummary
        <3>2. /\ pass'[p].todo = q.todo /\ pass'[p].cur = q.cur
              /\ \/ pass'[p].pc = "claimed" /\ holder' = [holder EXCEPT ![q.cur.on] = p]
                 \/ pass'[p].pc = "ready" /\ holder' = holder
            BY <1>1, <2>1, <2>8 DEF ClaimSummary, Pass
        <3>3. Apart(pass'[p])
            BY <2>1, <2>4, <3>1, <3>2
        <3>4. \A c \in Collections : holder'[c] = p => Holds(pass'[p], c)
            BY <1>1, <2>4, <3>1, <3>2
        <3> QED BY <2>3, <3>3, <3>4
    <2>9. CASE ScheduleSummaryGeneration(p)
        <3>1. /\ q.pc = "claimed" /\ holder' = holder
              /\ pass'[p].pc = "scheduled" /\ pass'[p].todo = q.todo /\ pass'[p].cur = q.cur
            BY <1>1, <2>1, <2>9 DEF ScheduleSummaryGeneration, Pass
        <3> QED BY <2>1, <2>3, <2>4, <3>1
    <2>10. CASE CommitSession(p)
        <3>1. /\ q.pc = "scheduled" /\ holder' = Released(p)
              /\ pass'[p].pc = "ready" /\ pass'[p].todo = q.todo
            BY <1>1, <2>1, <2>10 DEF CommitSession, Pass
        <3> QED BY <2>1, <2>3, <2>4, <2>5, <3>1
    <2>11. CASE ScheduleFails(p)
        <3>1. /\ q.pc = "claimed" /\ holder' = holder /\ "schedule" \in Faults
              /\ pass'[p].pc = "ready" /\ pass'[p].todo = q.todo
            BY <1>1, <2>1, <2>11 DEF ScheduleFails, Fault, Pass
        <3>2. q.todo = {}
            BY <1>1, <2>1, <2>4, <3>1 DEF NoLeak
        <3> QED BY <2>3, <2>4, <3>1, <3>2
    <2>12. CASE EndPass(p) \/ PassDies(p)
        <3>1. pass'[p] = IdlePass /\ holder' = Released(p)
            BY <1>1, <2>12 DEF EndPass, PassDies
        <3> QED BY <2>3, <2>4, <2>5, <3>1
    <2> QED
        BY <1>3, <2>6, <2>7, <2>8, <2>9, <2>10, <2>11, <2>12 DEF PassStep
<1>4. ASSUME NEW r \in Requests,
             \/ RequestStep(r) \/ TriggerFails(r)
             \/ \E c \in Collections, enabled \in BOOLEAN :
                   CreateCollection(r, c, enabled) \/ UpdateCollection(r, c, enabled)
      PROVE  UNCHANGED <<holder, pass>>
    BY <1>1, <1>4, RequestEffect
<1>5. ASSUME NEW k \in tasks, TaskStep(k) \/ TaskLost(k) PROVE UNCHANGED <<holder, pass>>
    BY <1>1, <1>5, TaskEffect
<1>6. CASE UNCHANGED vars \/ \E c \in Collections : DeleteCollection(c)
    BY <1>2, <1>6 DEF vars, DeleteCollection
<1> QED BY <1>2, <1>3, <1>4, <1>5, <1>6 DEF Next

\* A task that matches its row goes on until it writes the row.
LEMMA MatchingGoesOn ==
    ASSUME TypeOK, NEW k \in tasks, TaskStep(k), Matches(k), collection[k.on].state = "ACTIVE"
    PROVE  \/ summary'[k.on].status # "GENERATING"
           \/ \E l \in tasks' : SameWork(k, l)
<1>1. k \in Task /\ k.on \in Collections /\ summary \in [Collections -> Row] /\ summary[k.on] \in Row
    BY TypesOf, TaskTypes
<1>2. ~ Gone(k)
    BY DEF Matches, Gone, Present
<1>3. /\ SameWork(k, [k EXCEPT !.pc = "running"])
      /\ SameWork(k, [k EXCEPT !.pc = "failing"])
      /\ \A text \in BOOLEAN :
            SameWork(k, [k EXCEPT !.pc = "writing", !.text = text, !.seen = collection[k.on]])
    BY <1>1 DEF SameWork, Task
<1>4. CASE StartTask(k)
    <2>1. [k EXCEPT !.pc = "running"] \in tasks'
        BY <1>2, <1>4 DEF StartTask
    <2> QED BY <1>3, <2>1
<1>5. CASE GenerationFails(k)
    <2>1. [k EXCEPT !.pc = "failing"] \in tasks'
        BY <1>5 DEF GenerationFails
    <2> QED BY <1>3, <2>1
<1>6. ASSUME NEW text \in BOOLEAN, ReadOnGenerated(k, text)
      PROVE  \E l \in tasks' : SameWork(k, l)
    <2>1. [k EXCEPT !.pc = "writing", !.text = text, !.seen = collection[k.on]] \in tasks'
        BY <1>6 DEF ReadOnGenerated
    <2> QED BY <1>3, <2>1
<1>7. CASE WriteOnGenerated(k)
    BY <1>1, <1>7 DEF WriteOnGenerated, Row
<1>8. CASE OnSummaryFailed(k)
    BY <1>1, <1>8 DEF OnSummaryFailed, Row
<1> QED BY <1>4, <1>5, <1>6, <1>7, <1>8 DEF TaskStep

LEMMA SameMatches ==
    ASSUME NEW k, NEW l, SameWork(k, l), Matches(k)'
    PROVE  Matches(l)'
    BY DEF SameWork, Matches

Waits(p) == \E k \in tasks : /\ k.on = p.cur.on /\ k.pc = "queued"
                             /\ k.id = p.cur.id /\ k.version = p.cur.version

HasTask(c) == \E k \in tasks : k.on = c /\ Matches(k)

\* Mishaps are not forgotten.
LEMMA MishapsGrow ==
    ASSUME TypeOK, [Next]_vars
    PROVE  mishaps \subseteq mishaps'
<1>1. ASSUME NEW r \in Requests,
             \/ RequestStep(r) \/ TriggerFails(r)
             \/ \E c \in Collections, enabled \in BOOLEAN :
                   CreateCollection(r, c, enabled) \/ UpdateCollection(r, c, enabled)
      PROVE  mishaps \subseteq mishaps'
    BY <1>1, RequestEffect
<1>2. ASSUME NEW p \in Passes, PassStep(p) \/ ScheduleFails(p) \/ PassDies(p)
      PROVE  mishaps \subseteq mishaps'
    BY <1>2, PassEffect
<1>3. ASSUME NEW k \in tasks, TaskStep(k) \/ TaskLost(k)
      PROVE  mishaps \subseteq mishaps'
    BY <1>3, TaskEffect
<1> QED BY <1>1, <1>2, <1>3 DEF Next, DeleteCollection, vars

LEMMA RequestsAwait ==
    ASSUME GInv, NEW r \in Requests, TasksRun', TasksRun, [Next]_vars,
           \/ RequestStep(r) \/ TriggerFails(r)
           \/ \E c \in Collections, enabled \in BOOLEAN :
                 CreateCollection(r, c, enabled) \/ UpdateCollection(r, c, enabled)
    PROVE  Awaited'
<1>1. /\ TypeOK /\ \A p \in Passes : pass[p].pc = "scheduled" => Waits(pass[p])
      /\ \A c \in Collections :
            summary[c].status = "GENERATING" /\ collection[c].state # "DELETED" => HasTask(c)
    BY DEF GInv, IInv, Awaited, Waits, HasTask
<1>2. /\ UNCHANGED <<holder, pass, tasks>>
      /\ \A c \in Collections :
            \/ summary'[c].status # "GENERATING"
            \/ /\ summary'[c].status = summary[c].status /\ summary'[c].id = summary[c].id
               /\ summary'[c].version = summary[c].version
    <2>1. "raised" \notin mishaps'
        BY DEF TasksRun
    <2> QED BY <1>1, <2>1, RequestEffect DEF Present
<1>3. ASSUME NEW c \in Collections, summary'[c].status = "GENERATING", collection'[c].state # "DELETED"
      PROVE  \E k \in tasks' : k.on = c /\ Matches(k)'
    <2>1. HasTask(c)
        BY <1>1, <1>2, <1>3, StatesGrow
    <2> QED BY <1>2, <1>3, <2>1 DEF HasTask, Matches
<1> QED BY <1>1, <1>2, <1>3 DEF Awaited, Waits

LEMMA PassesAwait ==
    ASSUME GInv, NEW p \in Passes, TasksRun', TasksRun, [Next]_vars,
           PassStep(p) \/ ScheduleFails(p) \/ PassDies(p)
    PROVE  Awaited'
<1>1. /\ TypeOK /\ \A o \in Passes : pass[o].pc = "scheduled" => Waits(pass[o])
      /\ \A c \in Collections :
            summary[c].status = "GENERATING" /\ collection[c].state # "DELETED" => HasTask(c)
      /\ pass \in [Passes -> Pass] /\ pass[p] \in Pass
    BY TypesOf DEF GInv, IInv, Awaited, Waits, HasTask
<1>2. /\ UNCHANGED <<req, collection>>
      /\ \A o \in Passes \ {p} : pass'[o] = pass[o]
      /\ \A c \in Collections :
            \/ summary'[c] = summary[c]
            \/ /\ holder[c] = p /\ pass[p].pc = "scheduled"
               /\ summary'[c].id = summary[c].id /\ summary'[c].status = "GENERATING"
               /\ summary'[c].version = summary[c].version
    BY <1>1, PassEffect
<1>3. tasks \subseteq tasks'
    BY DEF PassStep, GetSummariesNeedingReconciliation, TakeSummary, ClaimSummary,
           ScheduleSummaryGeneration, CommitSession, EndPass, ScheduleFails, PassDies
<1>4. ASSUME NEW o \in Passes, pass'[o].pc = "scheduled" PROVE Waits(pass[o])'
    <2>1. CASE o # p
        BY <1>1, <1>2, <1>3, <1>4, <2>1 DEF Waits
    <2>2. CASE o = p
        <3>1. ScheduleSummaryGeneration(p)
            <4>1. CASE GetSummariesNeedingReconciliation(p)
                BY <1>1, <1>4, <2>2, <4>1 DEF GetSummariesNeedingReconciliation, IdlePass
            <4>2. ASSUME NEW it \in pass[p].todo, TakeSummary(p, it) PROVE FALSE
                BY <1>1, <1>4, <2>2, <4>2 DEF TakeSummary, IdlePass, Pass
            <4>3. CASE ClaimSummary(p)
                BY <1>1, <1>4, <2>2, <4>3 DEF ClaimSummary, Pass
            <4>4. CASE CommitSession(p)
                BY <1>1, <1>4, <2>2, <4>4 DEF CommitSession, Pass
            <4>5. CASE EndPass(p) \/ PassDies(p)
                BY <1>1, <1>4, <2>2, <4>5 DEF EndPass, PassDies, IdlePass
            <4>6. CASE ScheduleFails(p)
                BY <1>1, <1>4, <2>2, <4>6 DEF ScheduleFails, Pass
            <4> QED BY <4>1, <4>2, <4>3, <4>4, <4>5, <4>6 DEF PassStep
        <3>2. pass'[p].cur = pass[p].cur
            BY <1>1, <3>1 DEF ScheduleSummaryGeneration, Pass
        <3> DEFINE it == pass[p].cur
                   k == [nr |-> sent, on |-> it.on, id |-> it.id, version |-> it.version,
                         pc |-> "queued", text |-> FALSE, seen |-> Blank]
        <3>3. k \in tasks'
            BY <3>1 DEF ScheduleSummaryGeneration
        <3>4. k.on = it.on /\ k.pc = "queued" /\ k.id = it.id /\ k.version = it.version
            OBVIOUS
        <3> HIDE DEF k
        <3>5. \E l \in tasks' : /\ l.on = pass'[p].cur.on /\ l.pc = "queued"
                                /\ l.id = pass'[p].cur.id /\ l.version = pass'[p].cur.version
            BY <3>2, <3>3, <3>4
        <3> QED BY <2>2, <3>5 DEF Waits
    <2> QED BY <2>1, <2>2
<1>5. ASSUME NEW c \in Collections, summary'[c].status = "GENERATING", collection'[c].state # "DELETED"
      PROVE  HasTask(c)'
    <2>1. CASE summary'[c] = summary[c]
        <3>1. HasTask(c)
            BY <1>1, <1>2, <1>5, <2>1
        <3> QED BY <1>3, <2>1, <3>1 DEF HasTask, Matches
    <2>2. CASE /\ holder[c] = p /\ pass[p].pc = "scheduled"
               /\ summary'[c].id = summary[c].id
               /\ summary'[c].version = summary[c].version
        <3>1. pass[p].cur.on = c
            BY <1>1, <2>2, HoldersAre DEF GInv, HoldsOne, Claiming
        <3>2. pass[p].cur.id = summary[c].id /\ pass[p].cur.version = summary[c].version
            BY <2>2, <3>1 DEF GInv, IInv, ClaimsHeld, ClaimOf, Claiming
        <3> QED BY <1>1, <1>3, <1>5, <2>2, <3>1, <3>2 DEF Waits, HasTask, Matches
    <2> QED BY <1>2, <2>1, <2>2
<1> QED BY <1>4, <1>5 DEF Awaited, Waits, HasTask

LEMMA TasksAwait ==
    ASSUME GInv, NEW k \in tasks, TasksRun', TasksRun, [Next]_vars, TaskStep(k) \/ TaskLost(k)
    PROVE  Awaited'
<1>1. /\ TypeOK /\ \A p \in Passes : pass[p].pc = "scheduled" => Waits(pass[p])
      /\ \A c \in Collections :
            summary[c].status = "GENERATING" /\ collection[c].state # "DELETED" => HasTask(c)
      /\ summary \in [Collections -> Row] /\ collection \in [Collections -> Collection]
      /\ k.on \in Collections
    BY TypesOf DEF GInv, IInv, Awaited, Waits, HasTask
<1>2. UNCHANGED <<holder, pass, req>> /\ tasks \ {k} \subseteq tasks'
    BY <1>1, TaskEffect
<1>3. TaskStep(k)
    BY DEF TaskLost, Fault, TasksRun
<1>4. ASSUME NEW p \in Passes, pass'[p].pc = "scheduled" PROVE Waits(pass[p])'
    <2>1. PICK w \in tasks : /\ w.on = pass[p].cur.on /\ w.pc = "queued"
                             /\ w.id = pass[p].cur.id /\ w.version = pass[p].cur.version
        BY <1>1, <1>2, <1>4 DEF Waits
    <2>2. w # k
        <3>1. holder[pass[p].cur.on] = p /\ p # NoPass
            BY <1>1, <1>2, <1>4, HoldersAre DEF GInv, IInv, ClaimsHeld, Claiming
        <3>2. ASSUME w = k PROVE StartTask(k)
            BY <1>3, <2>1, <3>2 DEF TaskStep, GenerationFails, ReadOnGenerated, WriteOnGenerated,
                                    OnSummaryFailed
        <3> QED BY <2>1, <3>1, <3>2 DEF StartTask, TasksRun
    <2> QED BY <1>2, <2>1, <2>2 DEF Waits
<1>5. ASSUME NEW c \in Collections, summary'[c].status = "GENERATING", collection'[c].state # "DELETED"
      PROVE  HasTask(c)'
    <2>1. summary'[c] = summary[c]
        BY <1>1, <1>5, TaskEffect
    <2>2. collection[c].state # "DELETED"
        BY <1>1, <1>5, StatesGrow
    <2>3. PICK w \in tasks : w.on = c /\ Matches(w)
        BY <1>1, <1>5, <2>1, <2>2 DEF HasTask
    <2>4. Matches(w)'
        BY <2>1, <2>3 DEF Matches
    <2>5. CASE w # k
        BY <1>2, <2>3, <2>4, <2>5 DEF HasTask
    <2>6. CASE w = k
        <3>1. collection[c].state = "ACTIVE"
            <4>1. collection[c].state # "NONE"
                BY <2>3 DEF GInv, InUse, Matches, Present
            <4> QED BY <1>1, <2>2, <4>1 DEF Collection
        <3>2. PICK l \in tasks' : SameWork(k, l)
            BY <1>1, <1>3, <1>5, <2>3, <2>6, <3>1, MatchingGoesOn
        <3>3. Matches(l)' /\ l.on = c
            BY <2>3, <2>4, <2>6, <3>2 DEF SameWork, Matches
        <3> QED BY <3>3 DEF HasTask
    <2> QED BY <2>5, <2>6
<1> QED BY <1>4, <1>5 DEF Awaited, Waits, HasTask

LEMMA GInvariance ==
    ASSUME NoLeak, GInv, [Next]_vars
    PROVE  GInv'
<1>1. IInv' /\ InUse' /\ TodoApart' /\ HoldsOne' /\ TypeOK
    BY Invariance, InUseKept, HoldingKept DEF GInv, IInv
<1>2. Awaited'
    <2> SUFFICES ASSUME TasksRun' PROVE Awaited'
        BY DEF Awaited
    <2>1. TasksRun
        BY <1>1, MishapsGrow DEF TasksRun
    <2>2. ASSUME UNCHANGED <<pass, tasks, summary>> PROVE Awaited'
        <3>1. \A c \in Collections : collection'[c].state # "DELETED" => collection[c].state # "DELETED"
            BY <1>1, StatesGrow
        <3> QED BY <2>1, <2>2, <3>1 DEF GInv, Awaited, Matches
    <2> QED BY <2>1, <2>2, RequestsAwait, PassesAwait, TasksAwait DEF Next, DeleteCollection, vars
<1> QED BY <1>1, <1>2 DEF GInv

LEMMA GInitially ==
    ASSUME Init
    PROVE  GInv
<1>1. /\ \A c \in Collections : holder[c] = NoPass /\ summary[c].status = "ABSENT"
      /\ \A p \in Passes : pass[p].pc = "idle"
      /\ \A r \in Requests : req[r].pc = "idle"
    BY DEF Init, IdlePass, IdleRequest, NoRow
<1> QED BY <1>1, Initially DEF GInv, TodoApart, HoldsOne, InUse, Awaited, Claiming, Present

\* Only a claim that has sent its task becomes GENERATING, so a summary in
\* that state waits for a task: for any collections if the broker takes every
\* task, and for one collection whatever it does.  With two collections a
\* claim whose task was refused is committed with the next one.
THEOREM GeneratingWaits ==
    ASSUME NoLeak
    PROVE  Spec => []GeneratingHasTask
<1>1. GInv => GeneratingHasTask
    BY DEF GInv, Awaited, GeneratingHasTask, Matches
<1> QED BY <1>1, GInitially, GInvariance, PTL DEF Spec

-----------------------------------------------------------------------------
(* The summary follows the config *)

\* Passes and tasks neither create nor remove a row.
LEMMA OthersKeepRows ==
    ASSUME TypeOK, HeldClaimable,
           \/ \E p \in Passes : PassStep(p) \/ ScheduleFails(p) \/ PassDies(p)
           \/ \E k \in tasks : TaskStep(k) \/ TaskLost(k)
    PROVE  /\ req' = req /\ adrift' = adrift
           /\ \A c \in Collections : /\ Present(summary'[c]) <=> Present(summary[c])
                                     /\ summary'[c].id = summary[c].id
                                     /\ collection'[c].state = collection[c].state
                                     /\ collection'[c].enabled = collection[c].enabled
<1>1. /\ collection \in [Collections -> Collection] /\ summary \in [Collections -> Row]
    BY TypesOf
<1>2. ASSUME NEW p \in Passes, PassStep(p) \/ ScheduleFails(p) \/ PassDies(p)
      PROVE  /\ req' = req /\ adrift' = adrift /\ collection' = collection
             /\ \A c \in Collections : /\ Present(summary'[c]) <=> Present(summary[c])
                                       /\ summary'[c].id = summary[c].id
    <2>1. \A c \in Collections : holder[c] = p => Present(summary[c])
        BY HoldersAre DEF HeldClaimable, Claimable
    <2>2. adrift' = adrift
        BY <1>2 DEF PassStep, GetSummariesNeedingReconciliation, TakeSummary, ClaimSummary,
                    ScheduleSummaryGeneration, CommitSession, EndPass, ScheduleFails, PassDies
    <2> QED BY <1>2, <2>1, <2>2, PassEffect DEF Present
<1>3. ASSUME NEW k \in tasks, TaskStep(k) \/ TaskLost(k)
      PROVE  /\ req' = req /\ adrift' = adrift
             /\ \A c \in Collections : /\ Present(summary'[c]) <=> Present(summary[c])
                                       /\ summary'[c].id = summary[c].id
                                       /\ collection'[c].state = collection[c].state
                                       /\ collection'[c].enabled = collection[c].enabled
    <2>1. k.on \in Collections
        BY TypesOf
    <2>2. req' = req /\ adrift' = adrift
        BY <1>3, TaskEffect DEF TaskStep, StartTask, GenerationFails, ReadOnGenerated,
                                WriteOnGenerated, OnSummaryFailed, TaskLost, Others
    <2>3. \/ summary' = summary
          \/ /\ Matches(k) /\ \A c \in Collections \ {k.on} : summary'[c] = summary[c]
             /\ summary'[k.on].id = summary[k.on].id /\ summary'[k.on].status \in {"COMPLETE", "FAILED"}
        BY <1>1, <1>3, <2>1, TaskEffect
    <2>4. \A c \in Collections : /\ Present(summary'[c]) <=> Present(summary[c])
                                 /\ summary'[c].id = summary[c].id
        BY <2>1, <2>3 DEF Matches, Present
    <2>5. \A c \in Collections : /\ collection'[c].state = collection[c].state
                                 /\ collection'[c].enabled = collection[c].enabled
        <3>1. CASE WriteOnGenerated(k)
            BY <1>1, <3>1 DEF WriteOnGenerated, Collection
        <3>2. CASE ~ WriteOnGenerated(k)
            BY <1>3, <3>2 DEF TaskStep, StartTask, GenerationFails, ReadOnGenerated,
                              OnSummaryFailed, TaskLost, Others
        <3> QED BY <3>1, <3>2
    <2> QED BY <2>2, <2>4, <2>5
<1> QED BY <1>2, <1>3

LEMMA TriggerFollows ==
    ASSUME TypeOK, ConfigFollows, NEW r \in Requests, TriggerGeneration(r)
    PROVE  ConfigFollows'
<1> DEFINE q == req[r]
           c == q.on
           now == summary[c]
           row == IF FlushFails(q, now) THEN now ELSE Triggered(q, now)
<1>1. /\ summary \in [Collections -> Row] /\ req \in [Requests -> Request] /\ q \in Request
      /\ c \in Collections /\ now \in Row /\ \A o \in Requests : req[o].on \in Collections
    BY TypesOf DEF Request
<1>2. /\ q.pc = "read" /\ summary' = [summary EXCEPT ![c] = row]
      /\ UNCHANGED <<collection, adrift>> /\ req' = [req EXCEPT ![r] = IdleRequest]
    BY DEF TriggerGeneration
<1>3. /\ collection[c].state # "NONE" /\ Open(r, c)
      /\ c \notin adrift => LastWord(r)
    BY <1>1, <1>2 DEF ConfigFollows, Open
<1>4. c \notin adrift => (Present(row) <=> q.enabled)
    <2> SUFFICES ASSUME c \notin adrift PROVE Present(row) <=> q.enabled
        OBVIOUS
    <2>1. /\ Present(q.seen) <=> Present(now)
          /\ Present(q.seen) => q.seen.id = now.id
        BY <1>2, <1>3 DEF LastWord
    <2>2. ~ FlushFails(q, now)
        BY <2>1 DEF FlushFails
    <2> QED BY <1>1, <2>1, <2>2 DEF Triggered, NoRow, NewRow, Present, Row
<1> HIDE DEF row
<1>5. /\ summary'[c] = row /\ \A d \in Collections \ {c} : summary'[d] = summary[d]
      /\ req'[r].pc = "idle" /\ \A o \in Requests \ {r} : req'[o] = req[o]
    BY <1>1, <1>2 DEF IdleRequest
<1>6. \A o \in Requests, d \in Collections : Open(o, d)' <=> Open(o, d) /\ o # r
    BY <1>5 DEF Open
<1>7. ASSUME NEW d \in Collections \ adrift, \A o \in Requests : ~ Open(o, d)'
      PROVE  Settled(d)'
    <2>1. CASE d = c
        BY <1>2, <1>3, <1>4, <1>5, <2>1 DEF Settled, LastWord
    <2>2. CASE d # c
        <3>1. Settled(d)
            BY <1>6, <1>7, <2>2 DEF ConfigFollows, Open
        <3> QED BY <1>2, <1>5, <2>2, <3>1 DEF Settled
    <2> QED BY <2>1, <2>2
<1>8. ASSUME NEW o \in Requests, req'[o].pc # "idle", req'[o].on \notin adrift
      PROVE  LastWord(o)'
    <2>1. o # r /\ req'[o] = req[o] /\ LastWord(o)
        BY <1>5, <1>8 DEF ConfigFollows
    <2>2. req[o].on # c
        BY <1>3, <2>1 DEF LastWord
    <2> QED BY <1>1, <1>2, <1>5, <1>6, <2>1, <2>2 DEF LastWord
<1>9. \A d \in Collections :
         collection'[d].state = "NONE" =>
            ~ Present(summary'[d]) /\ \A o \in Requests : ~ Open(o, d)'
    BY <1>2, <1>3, <1>5, <1>6 DEF ConfigFollows
<1> QED BY <1>2, <1>7, <1>8, <1>9 DEF ConfigFollows

\* A trigger that fails leaves its collection adrift.
LEMMA FailureFollows ==
    ASSUME TypeOK, ConfigFollows, NEW r \in Requests, TriggerFails(r)
    PROVE  ConfigFollows'
<1>1. /\ req \in [Requests -> Request] /\ \A o \in Requests : req[o].on \in Collections
    BY TypesOf DEF Request
<1>2. /\ UNCHANGED <<collection, summary>> /\ adrift' = adrift \cup {req[r].on}
      /\ req'[r].pc = "idle" /\ \A o \in Requests \ {r} : req'[o] = req[o]
    BY <1>1 DEF TriggerFails, IdleRequest
<1>3. \A o \in Requests, d \in Collections : Open(o, d)' <=> Open(o, d) /\ o # r
    BY <1>2 DEF Open
<1>4. ASSUME NEW d \in Collections \ adrift', \A o \in Requests : ~ Open(o, d)'
      PROVE  Settled(d)'
    <2>1. Settled(d)
        BY <1>2, <1>3, <1>4 DEF ConfigFollows, Open
    <2> QED BY <1>2, <2>1 DEF Settled
<1>5. ASSUME NEW o \in Requests, req'[o].pc # "idle", req'[o].on \notin adrift'
      PROVE  LastWord(o)'
    <2>1. o # r /\ req'[o] = req[o] /\ LastWord(o)
        BY <1>2, <1>5 DEF ConfigFollows
    <2> QED BY <1>1, <1>2, <1>3, <2>1 DEF LastWord
<1> QED BY <1>2, <1>3, <1>4, <1>5 DEF ConfigFollows

LEMMA EditsFollow ==
    ASSUME TypeOK, ConfigFollows, NEW r \in Requests, NEW c \in Collections,
           NEW enabled \in BOOLEAN,
           CreateCollection(r, c, enabled) \/ UpdateCollection(r, c, enabled)
    PROVE  ConfigFollows'
<1>1. /\ collection \in [Collections -> Collection] /\ req \in [Requests -> Request]
      /\ \A o \in Requests : req[o].on \in Collections
    BY TypesOf DEF Request
<1>2. /\ req[r].pc = "idle" /\ summary' = summary /\ Updated(c)
      /\ \A d \in Collections \ {c} : collection'[d] = collection[d]
    BY <1>1 DEF CreateCollection, UpdateCollection
<1>3. collection'[c].state = "ACTIVE" /\ collection'[c].enabled = enabled
    <2>1. CASE CreateCollection(r, c, enabled)
        BY <1>1, <2>1 DEF CreateCollection
    <2>2. CASE UpdateCollection(r, c, enabled)
        BY <1>1, <2>2 DEF UpdateCollection, Collection
    <2> QED BY <2>1, <2>2
<1>4. /\ \A d \in Collections \ {c} : d \in adrift' <=> d \in adrift
      /\ c \notin adrift' => \A o \in Requests : ~ Open(o, c)
    BY <1>2 DEF Updated, Open
<1>5. \A d \in Collections \ {c} : Settled(d) => Settled(d)'
    BY <1>2 DEF Settled
<1>6. CASE req' = [req EXCEPT ![r] = Triggering(c, enabled)]
    <2>1. /\ req'[r].pc = "updated" /\ req'[r].on = c /\ req'[r].enabled = enabled
          /\ \A o \in Requests \ {r} : req'[o] = req[o]
        BY <1>1, <1>6 DEF Triggering
    <2>2. \A o \in Requests, d \in Collections : Open(o, d)' <=> Open(o, d) \/ (o = r /\ d = c)
        BY <1>2, <2>1 DEF Open
    <2>3. ASSUME NEW d \in Collections \ adrift', \A o \in Requests : ~ Open(o, d)'
          PROVE  Settled(d)'
        BY <1>4, <1>5, <2>2, <2>3 DEF ConfigFollows
    <2>4. ASSUME NEW o \in Requests, req'[o].pc # "idle", req'[o].on \notin adrift'
          PROVE  LastWord(o)'
        <3>1. CASE o = r
            BY <1>3, <1>4, <2>1, <2>2, <2>4, <3>1 DEF LastWord
        <3>2. CASE o # r
            <4>1. req'[o] = req[o] /\ req[o].on # c
                BY <1>4, <2>1, <2>4, <3>2 DEF Open
            <4>2. LastWord(o)
                BY <1>1, <1>4, <2>4, <4>1 DEF ConfigFollows
            <4> QED BY <1>1, <1>2, <2>2, <4>1, <4>2 DEF LastWord
        <3> QED BY <3>1, <3>2
    <2>5. \A d \in Collections :
             collection'[d].state = "NONE" =>
                ~ Present(summary'[d]) /\ \A o \in Requests : ~ Open(o, d)'
        BY <1>2, <1>3, <2>2 DEF ConfigFollows
    <2> QED BY <2>3, <2>4, <2>5 DEF ConfigFollows
<1>7. CASE req' = req /\ ~ enabled /\ collection[c].state = "NONE"
    <2>1. ~ Present(summary[c]) /\ \A o \in Requests : ~ Open(o, c)
        BY <1>7 DEF ConfigFollows
    <2>2. \A o \in Requests, d \in Collections : Open(o, d)' <=> Open(o, d)
        BY <1>7 DEF Open
    <2>3. ASSUME NEW d \in Collections \ adrift', \A o \in Requests : ~ Open(o, d)'
          PROVE  Settled(d)'
        <3>1. CASE d = c
            BY <1>2, <1>3, <1>7, <2>1, <3>1 DEF Settled
        <3>2. CASE d # c
            BY <1>4, <1>5, <2>2, <2>3, <3>2 DEF ConfigFollows
        <3> QED BY <3>1, <3>2
    <2>4. ASSUME NEW o \in Requests, req'[o].pc # "idle", req'[o].on \notin adrift'
          PROVE  LastWord(o)'
        <3>1. req[o].on # c
            BY <1>7, <2>1, <2>4 DEF Open
        <3>2. LastWord(o)
            BY <1>1, <1>4, <1>7, <2>4, <3>1 DEF ConfigFollows
        <3> QED BY <1>1, <1>2, <1>7, <2>2, <3>1, <3>2 DEF LastWord
    <2>5. \A d \in Collections :
             collection'[d].state = "NONE" =>
                ~ Present(summary'[d]) /\ \A o \in Requests : ~ Open(o, d)'
        BY <1>2, <1>3, <2>2 DEF ConfigFollows
    <2> QED BY <2>3, <2>4, <2>5 DEF ConfigFollows
<1> QED BY <1>1, <1>6, <1>7 DEF CreateCollection, UpdateCollection

LEMMA CInvariance ==
    ASSUME CInv, [Next]_vars
    PROVE  CInv'
<1>1. TypeOK' /\ TypeOK /\ HeldClaimable /\ ConfigFollows
    BY TypesKept DEF CInv
<1>2. HeldClaimable'
    <2>1. ASSUME NEW r \in Requests,
                 \/ RequestStep(r) \/ TriggerFails(r)
                 \/ \E c \in Collections, enabled \in BOOLEAN :
                       CreateCollection(r, c, enabled) \/ UpdateCollection(r, c, enabled)
          PROVE  HeldClaimable'
        BY <1>1, <2>1, RequestEffect DEF HeldClaimable
    <2>2. ASSUME NEW p \in Passes, PassStep(p) \/ ScheduleFails(p) \/ PassDies(p)
          PROVE  HeldClaimable'
        <3> SUFFICES ASSUME NEW c \in Collections, holder'[c] # NoPass PROVE Claimable(summary'[c])
            BY DEF HeldClaimable
        <3>1. CASE CommitSession(p)
            <4>1. holder[c] # p /\ holder[c] # NoPass
                BY <3>1, HoldersAre DEF CommitSession, Released
            <4> QED BY <1>1, <3>1, <4>1, TypesOf DEF CommitSession, HeldClaimable
        <3>2. CASE ClaimSummary(p)
            <4>1. summary' = summary
                BY <3>2 DEF ClaimSummary
            <4>2. \/ holder[c] # NoPass
                  \/ c = pass[p].cur.on /\ ClaimMatches(summary[c], pass[p].cur)
                BY <1>1, <3>2, TypesOf DEF ClaimSummary
            <4> QED BY <1>1, <4>1, <4>2 DEF HeldClaimable, Claimable, ClaimMatches
        <3>3. CASE ~ CommitSession(p) /\ ~ ClaimSummary(p)
            <4>1. summary' = summary /\ (holder' = holder \/ holder' = Released(p))
                BY <2>2, <3>3 DEF PassStep, GetSummariesNeedingReconciliation, TakeSummary,
                                  ScheduleSummaryGeneration, EndPass, ScheduleFails, PassDies
            <4> QED BY <1>1, <4>1 DEF HeldClaimable, Released
        <3> QED BY <3>1, <3>2, <3>3
    <2>3. ASSUME NEW k \in tasks, TaskStep(k) \/ TaskLost(k) PROVE HeldClaimable'
        <3>1. summary \in [Collections -> Row] /\ k.on \in Collections
            BY <1>1, TypesOf
        <3>2. holder' = holder
            BY <1>1, <2>3, TaskEffect
        <3>3. \/ summary' = summary
              \/ Matches(k) /\ \A c \in Collections \ {k.on} : summary'[c] = summary[c]
            BY <1>1, <2>3, <3>1, TaskEffect
        <3> QED BY <1>1, <3>1, <3>2, <3>3 DEF HeldClaimable, Claimable, Matches
    <2> QED BY <1>1, <2>1, <2>2, <2>3 DEF Next, DeleteCollection, vars, HeldClaimable
<1>3. ConfigFollows'
    <2>0. /\ req \in [Requests -> Request]
          /\ \A r \in Requests : req[r] \in Request /\ req[r].on \in Collections
        BY <1>1, TypesOf DEF Request
    <2>1. ASSUME NEW r \in Requests, ReadSummary(r) PROVE ConfigFollows'
        <3>1. /\ req[r].pc = "updated" /\ req'[r].pc = "read"
              /\ req'[r].on = req[r].on /\ req'[r].enabled = req[r].enabled
              /\ req'[r].seen = summary[req[r].on]
              /\ \A o \in Requests \ {r} : req'[o] = req[o]
              /\ UNCHANGED <<collection, summary, adrift>>
            BY <2>0, <2>1 DEF ReadSummary, Request
        <3>2. \A o \in Requests, d \in Collections : Open(o, d)' <=> Open(o, d)
            BY <3>1 DEF Open
        <3>3. \A d \in Collections : Settled(d)' <=> Settled(d)
            BY <3>1 DEF Settled
        <3>4. ASSUME NEW o \in Requests, req'[o].pc # "idle", req'[o].on \notin adrift'
              PROVE  LastWord(o)'
            <4>0. req[o].pc # "idle" /\ req'[o].on = req[o].on
                BY <3>1, <3>4
            <4>1. LastWord(o) /\ req'[o].on = req[o].on
                BY <1>1, <3>1, <3>4, <4>0 DEF ConfigFollows
            <4>2. CASE o = r
                BY <2>0, <3>1, <3>2, <4>1, <4>2 DEF LastWord
            <4>3. CASE o # r
                <5>1. req'[o] = req[o]
                    BY <3>1, <4>3
                <5> QED BY <2>0, <3>1, <3>2, <4>1, <5>1 DEF LastWord
            <4> QED BY <4>2, <4>3
        <3> QED BY <1>1, <3>1, <3>2, <3>3, <3>4 DEF ConfigFollows
    <2>2. ASSUME UNCHANGED <<req, adrift>>,
                 \A c \in Collections :
                    /\ Present(summary'[c]) <=> Present(summary[c])
                    /\ summary'[c].id = summary[c].id
                    /\ collection'[c].enabled = collection[c].enabled
                    /\ collection'[c].state \in {"DELETED", collection[c].state}
          PROVE  ConfigFollows'
        <3>1. \A o \in Requests, d \in Collections : Open(o, d)' <=> Open(o, d)
            BY <2>2 DEF Open
        <3>2. \A d \in Collections : Settled(d) => Settled(d)'
            BY <2>2 DEF Settled
        <3>3. ASSUME NEW o \in Requests, LastWord(o) PROVE LastWord(o)'
            BY <2>0, <2>2, <3>1, <3>3 DEF LastWord
        <3> QED BY <1>1, <2>2, <3>1, <3>2, <3>3 DEF ConfigFollows
    <2>3. ASSUME NEW c \in Collections, DeleteCollection(c) PROVE ConfigFollows'
        <3>1. collection \in [Collections -> Collection]
            BY <1>1, TypesOf
        <3> QED BY <2>2, <2>3, <3>1 DEF DeleteCollection, Collection
    <2>4. ASSUME \/ \E p \in Passes : PassStep(p) \/ ScheduleFails(p) \/ PassDies(p)
                 \/ \E k \in tasks : TaskStep(k) \/ TaskLost(k)
          PROVE  ConfigFollows'
        BY <1>1, <2>2, <2>4, OthersKeepRows
    <2>5. CASE UNCHANGED vars
        BY <2>2, <2>5 DEF vars
    <2> QED BY <1>1, <2>1, <2>3, <2>4, <2>5, TriggerFollows, FailureFollows, EditsFollow
            DEF Next, RequestStep
<1> QED BY <1>1, <1>2, <1>3 DEF CInv

LEMMA CInitially ==
    ASSUME Init
    PROVE  CInv
<1>1. /\ \A c \in Collections : ~ Present(summary[c]) /\ collection[c].state = "NONE"
      /\ \A r \in Requests : req[r].pc = "idle"
    BY DEF Init, IdleRequest, NoRow, Blank, Present
<1> QED BY <1>1, Initially DEF CInv, IInv, ConfigFollows, Settled, Open

\* For any number of requests: an update whose trigger is not lost and meets
\* no other update leaves a summary row exactly if the config enables it,
\* whatever failures and races of triggers came before.
THEOREM MatchesConfig == Spec => []SummaryMatchesConfig
<1>1. CInv => SummaryMatchesConfig
    BY DEF CInv, ConfigFollows, Settled, Open, Resting, SummaryMatchesConfig
<1> QED BY <1>1, CInitially, CInvariance, PTL DEF Spec

=============================================================================
