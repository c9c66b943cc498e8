-------------------------- MODULE CollectionSummary --------------------------
(***************************************************************************)
(* The generated summary of a collection.  Requests that create or update  *)
(* a collection (aperag/service/collection_service.py) trigger it by       *)
(* writing its row of table collection_summary                             *)
(* (aperag/service/collection_summary_service.py); passes of               *)
(* CollectionSummaryReconciler (aperag/tasks/reconciler.py) claim rows and *)
(* send one Celery task for each; the task's callbacks close the row and   *)
(* write the text into the collection's description.                       *)
(*                                                                         *)
(* A reconciler pass works in one session: what it claimed is held until   *)
(* the session commits, whichever summary the commit is for, and a commit  *)
(* expires the rows the scan read, which are read again when next used.    *)
(* Statements run at READ COMMITTED, as in IndexLifecycle.                 *)
(***************************************************************************)
EXTENDS Naturals, FiniteSets

CONSTANTS
    Collections,
    Requests,        \* API workers
    Passes,          \* Celery workers running reconcile_collection_summaries_task
    NoPass,          \* the holder of a row no pass has claimed
    MaxEdits,        \* bound: updates of a collection
    MaxVersion,      \* bound: version of a summary row
    MaxRowId,        \* bound: summary rows ever inserted per collection
    MaxTasks,        \* bound: tasks sent
    Faults,          \* the faults this instance exercises
    MaxFaults        \* bound: kinds of faults in one behaviour

ASSUME ConstantsAssumption ==
    /\ Collections # {}
    /\ NoPass \notin Passes
    /\ {MaxEdits, MaxVersion, MaxRowId, MaxTasks, MaxFaults} \subseteq Nat
    /\ Faults \subseteq {"schedule", "pass", "task"}

VARIABLES
    collection,  \* rows of table collection
    summary,     \* committed rows of collection_summary
    holder,      \* the pass whose open transaction has claimed the row
    req,         \* open API requests
    pass,        \* reconciler passes
    tasks,       \* collection_summary_task messages, waiting or running
    sent,        \* tasks sent so far
    adrift,      \* history: collections without a trigger that ran by itself
                 \* after their last update
    mishaps      \* the faults so far, "early" once a task has read a row whose
                 \* claim was not committed, "raised" once a trigger has
                 \* changed the version of a row claimed since it was read

vars == <<collection, summary, holder, req, pass, tasks, sent, adrift, mishaps>>

-----------------------------------------------------------------------------
\* description: the number of the edit that wrote it, 0 for a generated one.
\* updated: gmt_updated, which only creation and the success callback set.
Collection == [state : {"NONE", "ACTIVE", "DELETED"}, enabled : BOOLEAN,
               description : Nat, edits : Nat, updated : Nat]

Row == [id : Nat, status : {"ABSENT", "PENDING", "GENERATING", "COMPLETE", "FAILED"},
        version : Nat, observed : Nat]

NoRow == [id |-> 0, status |-> "ABSENT", version |-> 0, observed |-> 0]

Present(row) == row.status # "ABSENT"

\* A request between its update of the collection and its trigger, and one
\* whose trigger has read the summary row.
Request == [pc : {"idle", "updated", "read"}, on : Collections,
            enabled : BOOLEAN, seen : Row]

Item == [on : Collections, id : Nat, version : Nat]

\* expired: the session has committed since the scan.
Pass == [pc : {"idle", "ready", "taken", "claimed", "scheduled"},
         todo : SUBSET Item, cur : Item, expired : BOOLEAN]

\* seen: the collection as the success callback read it.
Task == [nr : Nat, on : Collections, id : Nat, version : Nat,
         pc : {"queued", "running", "failing", "writing"},
         text : BOOLEAN, seen : Collection]

AnyCollection == CHOOSE c \in Collections : TRUE
Blank == [state |-> "NONE", enabled |-> FALSE, description |-> 0,
          edits |-> 0, updated |-> 0]
IdleRequest == [pc |-> "idle", on |-> AnyCollection, enabled |-> FALSE, seen |-> NoRow]
IdlePass == [pc |-> "idle", todo |-> {}, expired |-> FALSE,
             cur |-> [on |-> AnyCollection, id |-> 0, version |-> 0]]

Init ==
    /\ collection = [c \in Collections |-> Blank]
    /\ summary = [c \in Collections |-> NoRow]
    /\ holder = [c \in Collections |-> NoPass]
    /\ req = [r \in Requests |-> IdleRequest]
    /\ pass = [p \in Passes |-> IdlePass]
    /\ tasks = {}
    /\ sent = 0
    /\ adrift = {}
    /\ mishaps = {}

-----------------------------------------------------------------------------
(* API requests.  The collection is committed first, the summary triggered
   in a transaction of its own with the config of the committed instance;
   nothing brings the trigger back if it fails, or if the process dies.     *)

Triggering(c, enabled) ==
    [pc |-> "updated", on |-> c, enabled |-> enabled, seen |-> NoRow]

\* History: c waits for the one trigger of this request, or has several open.
Updated(c) ==
    adrift' = IF \E r \in Requests : req[r].pc # "idle" /\ req[r].on = c
              THEN adrift \cup {c} ELSE adrift \ {c}

CreateCollection(r, c, enabled) ==
    /\ req[r].pc = "idle"
    /\ collection[c].state = "NONE"
    /\ collection' = [collection EXCEPT ![c] =
          [state |-> "ACTIVE", enabled |-> enabled, description |-> 1,
           edits |-> 1, updated |-> 1]]
    /\ req' = IF enabled THEN [req EXCEPT ![r] = Triggering(c, TRUE)] ELSE req
    /\ Updated(c)
    /\ UNCHANGED <<summary, holder, pass, tasks, sent, mishaps>>

\* update_collection_by_id, which leaves gmt_updated as it is.
UpdateCollection(r, c, enabled) ==
    LET edit == collection[c].edits + 1
    IN  /\ req[r].pc = "idle"
        /\ collection[c].state = "ACTIVE"
        /\ edit <= MaxEdits
        /\ collection' = [collection EXCEPT ![c] =
              [collection[c] EXCEPT !.enabled = enabled, !.description = edit,
                                    !.edits = edit]]
        /\ req' = [req EXCEPT ![r] = Triggering(c, enabled)]
        /\ Updated(c)
        /\ UNCHANGED <<summary, holder, pass, tasks, sent, mishaps>>

DeleteCollection(c) ==
    /\ collection[c].state = "ACTIVE"
    /\ collection' = [collection EXCEPT ![c].state = "DELETED"]
    /\ UNCHANGED <<summary, holder, req, pass, tasks, sent, mishaps, adrift>>

\* _get_summary_by_collection_id.
ReadSummary(r) ==
    /\ req[r].pc = "updated"
    /\ req' = [req EXCEPT ![r].pc = "read", ![r].seen = summary[req[r].on]]
    /\ UNCHANGED <<collection, summary, holder, pass, tasks, sent, mishaps, adrift>>

NewRow(old) == [id |-> old.id + 1, status |-> "PENDING", version |-> 1, observed |-> 0]

\* The row after trigger_collection_summary_generation: a new one, the same
\* one with the version that was read plus one, or none.
KeepsWhenDisabled(q, now) ==    \* mutant: no deletion
    IF ~q.enabled THEN now
    ELSE IF ~Present(q.seen) THEN NewRow(now)
    ELSE IF q.seen.status = "GENERATING" THEN now
    ELSE [now EXCEPT !.version = q.seen.version + 1]

Triggered(q, now) ==
    IF ~q.enabled
    THEN IF Present(q.seen) /\ now.id = q.seen.id THEN [NoRow EXCEPT !.id = now.id] ELSE now
    ELSE IF ~Present(q.seen) THEN NewRow(now)
    ELSE IF q.seen.status = "GENERATING" THEN now
    ELSE [now EXCEPT !.version = q.seen.version + 1]

\* The UPDATE finds its row gone, or the INSERT meets uq_collection_summary.
FlushFails(q, now) ==
    /\ q.enabled
    /\ IF Present(q.seen)
       THEN q.seen.status # "GENERATING" /\ (~Present(now) \/ now.id # q.seen.id)
       ELSE Present(now)

TriggerGeneration(r) ==
    LET q == req[r]
        now == summary[q.on]
        row == IF FlushFails(q, now) THEN now ELSE Triggered(q, now)
    IN  /\ q.pc = "read"
        /\ row # now => holder[q.on] = NoPass
        /\ row.version <= MaxVersion /\ row.id <= MaxRowId
        /\ summary' = [summary EXCEPT ![q.on] = row]
        /\ mishaps' = IF row.version # now.version /\ row.status = "GENERATING"
                      THEN mishaps \cup {"raised"} ELSE mishaps
        /\ req' = [req EXCEPT ![r] = IdleRequest]
        /\ UNCHANGED <<collection, holder, pass, tasks, sent, adrift>>

\* An exception or the end of the process between the commit of the collection
\* and that of the trigger.
TriggerFails(r) ==
    /\ req[r].pc # "idle"
    /\ req' = [req EXCEPT ![r] = IdleRequest]
    /\ adrift' = adrift \cup {req[r].on}
    /\ UNCHANGED <<collection, summary, holder, pass, tasks, sent, mishaps>>

-----------------------------------------------------------------------------
(* The reconciler (CollectionSummaryReconciler).                            *)

NeedsReconciliation(row) == row.status = "PENDING" /\ row.version # row.observed

GetSummariesNeedingReconciliation(p) ==
    LET found == {c \in Collections : NeedsReconciliation(summary[c])}
    IN  /\ pass[p].pc = "idle"
        /\ found # {}
        /\ pass' = [pass EXCEPT ![p] =
              [IdlePass EXCEPT !.pc = "ready",
                               !.todo = {[on |-> c, id |-> summary[c].id,
                                          version |-> summary[c].version] : c \in found}]]
        /\ UNCHANGED <<collection, summary, holder, req, tasks, sent, mishaps, adrift>>

\* The rows of a session that ends without a commit are released.
Released(p) == [c \in Collections |-> IF holder[c] = p THEN NoPass ELSE holder[c]]

Gone(it) == ~Present(summary[it.on]) \/ summary[it.on].id # it.id

\* summary.id and summary.version: an expired row is selected again.  If it
\* is gone, the access raises, and so does the handler that logs summary.id.
TakeSummary(p, it) ==
    LET now == [it EXCEPT !.version = summary[it.on].version]
        rest == pass[p].todo \ {it}
    IN  /\ pass[p].pc = "ready"
        /\ it \in pass[p].todo
        /\ IF pass[p].expired /\ Gone(it)
           THEN /\ pass' = [pass EXCEPT ![p] = IdlePass]
                /\ holder' = Released(p)
           ELSE /\ pass' = [pass EXCEPT ![p].pc = "taken", ![p].todo = rest,
                               ![p].cur = IF pass[p].expired THEN now ELSE it]
                /\ UNCHANGED holder
        /\ UNCHANGED <<collection, summary, req, tasks, sent, mishaps, adrift>>

\* The WHERE clause of _claim_summary_for_processing.
ClaimAnyStatus(row, it) == row.id = it.id /\ row.version = it.version   \* mutant
ClaimMatches(row, it) ==
    /\ Present(row) /\ row.id = it.id
    /\ row.status # "GENERATING"
    /\ row.version = it.version

ClaimSummary(p) ==
    LET c == pass[p].cur.on
        won == ClaimMatches(summary[c], pass[p].cur)
    IN  /\ pass[p].pc = "taken"
        /\ won => holder[c] = NoPass
        /\ pass' = [pass EXCEPT ![p].pc = IF won THEN "claimed" ELSE "ready"]
        /\ holder' = IF won THEN [holder EXCEPT ![c] = p] ELSE holder
        /\ UNCHANGED <<collection, summary, req, tasks, sent, mishaps, adrift>>

\* The task is sent before the claim is committed.
ScheduleSummaryGeneration(p) ==
    LET it == pass[p].cur
    IN  /\ pass[p].pc = "claimed"
        /\ sent < MaxTasks
        /\ sent' = sent + 1
        /\ tasks' = tasks \cup {[nr |-> sent, on |-> it.on, id |-> it.id,
                                 version |-> it.version, pc |-> "queued",
                                 text |-> FALSE, seen |-> Blank]}
        /\ pass' = [pass EXCEPT ![p].pc = "scheduled"]
        /\ UNCHANGED <<collection, summary, holder, req, mishaps, adrift>>

\* The commit makes every row the session holds GENERATING.
CommitSession(p) ==
    /\ pass[p].pc = "scheduled"
    /\ summary' = [c \in Collections |->
                      IF holder[c] = p THEN [summary[c] EXCEPT !.status = "GENERATING"]
                      ELSE summary[c]]
    /\ holder' = Released(p)
    /\ pass' = [pass EXCEPT ![p].pc = "ready", ![p].expired = TRUE]
    /\ UNCHANGED <<collection, req, tasks, sent, mishaps, adrift>>

EndPass(p) ==
    /\ pass[p].pc = "ready"
    /\ pass[p].todo = {}
    /\ pass' = [pass EXCEPT ![p] = IdlePass]
    /\ holder' = Released(p)
    /\ UNCHANGED <<collection, summary, req, tasks, sent, mishaps, adrift>>

Fault(kind) ==
    /\ kind \in Faults \ mishaps
    /\ Cardinality(mishaps \cap Faults) < MaxFaults
    /\ mishaps' = mishaps \cup {kind}

\* The broker refuses the task: the loop of reconcile_all logs the exception
\* and goes on with the same session, the claim still in it.
ScheduleFails(p) ==
    /\ Fault("schedule")
    /\ pass[p].pc = "claimed"
    /\ pass' = [pass EXCEPT ![p].pc = "ready"]
    /\ UNCHANGED <<collection, summary, holder, req, tasks, sent, adrift>>

PassDies(p) ==
    /\ Fault("pass")
    /\ pass[p].pc # "idle"
    /\ pass' = [pass EXCEPT ![p] = IdlePass]
    /\ holder' = Released(p)
    /\ UNCHANGED <<collection, summary, req, tasks, sent, adrift>>

-----------------------------------------------------------------------------
(* The task (generate_collection_summary_task) and its callbacks.  It turns
   every exception into a failure callback, so Celery never retries it.     *)

Others == <<collection, holder, req, pass, sent, adrift>>

\* What the callbacks' WHERE clauses ask of the row.
MatchesStatusOnly(k) ==    \* mutant: no version check
    /\ summary[k.on].id = k.id
    /\ summary[k.on].status = "GENERATING"

MatchesObserved(k) ==      \* mutant: compares observed_version
    /\ summary[k.on].id = k.id
    /\ summary[k.on].status = "GENERATING"
    /\ summary[k.on].observed = k.version

Matches(k) ==
    /\ summary[k.on].id = k.id
    /\ summary[k.on].status = "GENERATING"
    /\ summary[k.on].version = k.version

\* A missing summary ends the task; a deleted collection, or a row that is
\* not GENERATING the task's version, fails it.
StartTask(k) ==
    /\ k.pc = "queued"
    /\ mishaps' = IF holder[k.on] = NoPass THEN mishaps ELSE mishaps \cup {"early"}
    /\ tasks' = (tasks \ {k}) \cup
          (IF collection[k.on].state = "DELETED" THEN {[k EXCEPT !.pc = "failing"]}
           ELSE IF Gone(k) THEN {}
           ELSE IF ~Matches(k) THEN {[k EXCEPT !.pc = "failing"]}
           ELSE {[k EXCEPT !.pc = "running"]})
    /\ UNCHANGED <<Others, summary>>

GenerationFails(k) ==
    /\ k.pc = "running"
    /\ tasks' = (tasks \ {k}) \cup {[k EXCEPT !.pc = "failing"]}
    /\ UNCHANGED <<Others, summary, mishaps>>

\* on_summary_generated reads the row and the collection, then writes both.
\* text: some document had a summary to reduce.
ReadOnGenerated(k, text) ==
    /\ k.pc = "running"
    /\ tasks' = (tasks \ {k}) \cup
          (IF Matches(k) /\ collection[k.on].state = "ACTIVE"
           THEN {[k EXCEPT !.pc = "writing", !.text = text, !.seen = collection[k.on]]}
           ELSE {})
    /\ UNCHANGED <<Others, summary, mishaps>>

\* The collection's UPDATE: it matches while gmt_updated is what was read.
DescriptionMatches(k) ==
    /\ k.seen.enabled /\ k.text
    /\ collection[k.on].updated = k.seen.updated
    /\ collection[k.on].state = "ACTIVE"

WriteOnGenerated(k) ==
    LET c == k.on
    IN  /\ k.pc = "writing"
        /\ tasks' = tasks \ {k}
        /\ summary' = IF Matches(k)
              THEN [summary EXCEPT ![c] = [summary[c] EXCEPT !.status = "COMPLETE",
                                                             !.observed = k.version]]
              ELSE summary
        /\ collection' = IF Matches(k) /\ DescriptionMatches(k)
              THEN [collection EXCEPT ![c] =
                       [collection[c] EXCEPT !.description = 0,
                                             !.updated = collection[c].updated + 1]]
              ELSE collection
        /\ UNCHANGED <<holder, req, pass, sent, mishaps, adrift>>

OnSummaryFailed(k) ==
    /\ k.pc = "failing"
    /\ tasks' = tasks \ {k}
    /\ summary' = IF Matches(k) THEN [summary EXCEPT ![k.on].status = "FAILED"]
                  ELSE summary
    /\ UNCHANGED <<Others, mishaps>>

TaskLost(k) ==
    /\ Fault("task")
    /\ tasks' = tasks \ {k}
    /\ UNCHANGED <<collection, summary, holder, req, pass, sent, adrift>>

-----------------------------------------------------------------------------
RequestStep(r) == ReadSummary(r) \/ TriggerGeneration(r)

PassStep(p) ==
    \/ GetSummariesNeedingReconciliation(p)
    \/ \E it \in pass[p].todo : TakeSummary(p, it)
    \/ ClaimSummary(p)
    \/ ScheduleSummaryGeneration(p)
    \/ CommitSession(p)
    \/ EndPass(p)

TaskStep(k) ==
    \/ StartTask(k)
    \/ GenerationFails(k)
    \/ \E text \in BOOLEAN : ReadOnGenerated(k, text)
    \/ WriteOnGenerated(k)
    \/ OnSummaryFailed(k)

Next ==
    \/ \E r \in Requests, c \in Collections, enabled \in BOOLEAN :
          CreateCollection(r, c, enabled) \/ UpdateCollection(r, c, enabled)
    \/ \E c \in Collections : DeleteCollection(c)
    \/ \E r \in Requests : RequestStep(r) \/ TriggerFails(r)
    \/ \E p \in Passes : PassStep(p) \/ ScheduleFails(p) \/ PassDies(p)
    \/ \E k \in tasks : TaskStep(k) \/ TaskLost(k)

Spec == Init /\ [][Next]_vars

\* A started request ends, beat runs the reconciler every minute, workers
\* take what is queued.
FairSpec ==
    /\ Spec
    /\ \A r \in Requests : WF_vars(RequestStep(r))
    /\ \A p \in Passes : WF_vars(PassStep(p))
    /\ WF_vars(\E k \in tasks : TaskStep(k))

-----------------------------------------------------------------------------
TypeOK ==
    /\ collection \in [Collections -> Collection]
    /\ summary \in [Collections -> Row]
    /\ holder \in [Collections -> Passes \cup {NoPass}]
    /\ req \in [Requests -> Request]
    /\ pass \in [Passes -> Pass]
    /\ tasks \subseteq Task
    /\ sent \in Nat /\ adrift \subseteq Collections
    /\ mishaps \subseteq Faults \cup {"early", "raised"}

\* A summary that becomes COMPLETE was generated for the version its row
\* asks for, whatever was triggered meanwhile (on_summary_generated).
BecomesCompleteUpToDate ==
    [][\A c \in Collections :
          summary[c].status # "COMPLETE" /\ summary'[c].status = "COMPLETE"
             => summary'[c].observed = summary'[c].version]_vars

\* However many passes scanned a row, no two tasks work on one version of it,
\* unless a pass died between sending a task and committing its claim
\* (_claim_summary_for_processing).
OneTaskPerVersion ==
    "pass" \notin mishaps =>
       \A k, l \in tasks :
          k.on = l.on /\ k.id = l.id /\ k.version = l.version => k = l

Resting(c) ==
    /\ collection[c].state = "ACTIVE"
    /\ \A r \in Requests : req[r].pc = "idle" \/ req[r].on # c

\* An update whose trigger is not lost and meets no other update of its
\* collection leaves a summary row exactly if its config enables it, whatever
\* lost or overlapping triggers left before it, and whatever passes and tasks
\* do meanwhile (trigger_collection_summary_generation).
SummaryMatchesConfig ==
    \A c \in Collections \ adrift :
       Resting(c) => (collection[c].enabled <=> Present(summary[c]))

\* "If enable_summary is true, create/update CollectionSummary.  If
\* enable_summary is false, delete CollectionSummary", after any update.
EveryUpdateTriggers ==
    \A c \in Collections :
       Resting(c) => (collection[c].enabled <=> Present(summary[c]))

\* Every task has run, on the committed claim it was sent for.
TasksRun == mishaps \cap {"early", "raised", "task"} = {}

\* Only a claim that has sent its task becomes GENERATING, so a row in that
\* state waits for a task (_reconcile_single_summary).
GeneratingHasTask ==
    TasksRun =>
       \A c \in Collections :
          collection[c].state = "ACTIVE" /\ summary[c].status = "GENERATING" =>
             \E k \in tasks : k.on = c /\ k.id = summary[c].id

\* A summary that waits for its generation gets it, fails or is withdrawn,
\* unless its collection is deleted (reconcile_all and the callbacks).
GenerationsEnd ==
    \A c \in Collections :
       []<>(\/ collection[c].state = "DELETED"
            \/ summary[c].status \in {"ABSENT", "FAILED", "COMPLETE"}
            \/ ~TasksRun)

\* A version that was asked for is generated, fails or is withdrawn, unless
\* its collection is deleted (CollectionSummary.update_version).
SummarySettles ==
    \A c \in Collections :
       []<>(\/ collection[c].state = "DELETED"
            \/ summary[c].status \in {"ABSENT", "FAILED"}
            \/ summary[c].observed = summary[c].version
            \/ ~TasksRun)

\* A generated description replaces the description its callback read, not
\* one the user has written since (on_summary_generated).
EditsAreKept ==
    [][\A c \in Collections :
          collection'[c].description = 0 /\ collection[c].description # 0 =>
             \E k \in tasks : /\ k.on = c /\ k.pc = "writing"
                              /\ k.seen.description = collection[c].description]_vars

=============================================================================
