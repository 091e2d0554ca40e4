----------------------------- MODULE Embedding ------------------------------
(***************************************************************************)
(* The embedder on the scenes of one video: initial embedding and          *)
(* selective re-embedding, down to the statements of the transactions with *)
(* which they write video_scenes.                                          *)
(*                                                                         *)
(* PostgreSQL runs them at READ COMMITTED.  A statement sees what was      *)
(* committed when it started; a row that an open transaction has deleted   *)
(* or updated is locked until that transaction ends, and who waits for it  *)
(* then goes on with the row as it has become, or without it.  Rows that a *)
(* transaction inserts are seen and locked by nobody else, so they appear  *)
(* with the commit.                                                        *)
(***************************************************************************)
EXTENDS Planner, FiniteSets, Functions

CONSTANTS
    Jobs, NoJob,  \* the jobs of the video
    Runs,         \* goroutines that may be embedding it
    Manifests,    \* what the analyzer or an editor may put into a manifest
    Tables,       \* what video_scenes may hold for the video to begin with
    Faults        \* "db", "gemini", "disk", "crash"; "analyze" and "edit":
                  \* manifests are written again by the analyzer or by hand

UniqueIds(table) == \A x, y \in table : x.id = y.id => x = y

ASSUME ManifestsAssumption == Manifests \subseteq Seq(Scenes)
ASSUME TablesAssumption == \A table \in Tables : table \subseteq Rows /\ UniqueIds(table)

VARIABLES
    status, manifest, rows, runs,
    alone         \* history: the runs that no other run has overlapped

vars == <<status, manifest, rows, runs, alone>>

Statuses == {"READY_FOR_EMBEDDING", "EMBEDDING", "MANUAL_EMBEDDING", "COMPLETED",
             "FAILED"}
Pcs == {"idle", "begin", "load", "read", "embed", "deleting", "writing",
        "complete", "mark"}

NoPlan == [create |-> {}, update |-> <<>>, delete |-> {}]

\* scenes: the manifest it has loaded; vectors: the text that was embedded for
\* each position done; failed: the failed attempts at the next one; left: what
\* the current statements have still to reach (ids to delete, then positions to
\* update); gone: the rows deleted; written: for each row that an UPDATE found, the
\* position of the last one that did.
IdleRun == [pc |-> "idle", job |-> NoJob, again |-> FALSE, scenes |-> <<>>,
            plan |-> NoPlan, vectors |-> <<>>, failed |-> 0,
            left |-> {}, gone |-> {}, written |-> <<>>]

Init ==
    /\ status \in [Jobs -> {"READY_FOR_EMBEDDING", "COMPLETED"}]
    /\ manifest \in [Jobs -> Manifests]
    /\ rows \in Tables
    /\ runs = [r \in Runs |-> IdleRun]
    /\ alone = {}

Goto(r, pc) == runs' = [runs EXCEPT ![r].pc = pc]

\* A call fails and the error path marks the job; an open transaction is
\* rolled back, which releases its locks.
GiveUp(r) ==
    runs' = [runs EXCEPT ![r] = [IdleRun EXCEPT !.pc = "mark", !.job = runs[r].job]]

-----------------------------------------------------------------------------
(* ProcessJob up to the transaction. *)

Start(r, j) ==
    /\ runs[r] = IdleRun
    /\ status[j] \in {"READY_FOR_EMBEDDING", "COMPLETED"}
    /\ runs' = [runs EXCEPT ![r] = [IdleRun EXCEPT !.pc = "begin", !.job = j,
                                                   !.again = status[j] = "COMPLETED"]]
    /\ alone' = {s \in {r} : \A other \in Runs \ {r} : runs[other] = IdleRun}
    /\ UNCHANGED <<status, manifest, rows>>

\* Seeded bug: the re-embedding writes a status nobody knows.
BeginMisspelt(r) ==
    /\ runs[r].pc = "begin"
    /\ status' = [status EXCEPT ![runs[r].job] =
          IF runs[r].again THEN "MANUAL_EMBED" ELSE "EMBEDDING"]
    /\ Goto(r, "load")
    /\ UNCHANGED <<manifest, rows, alone>>

Begin(r) ==
    /\ runs[r].pc = "begin"
    /\ \/ /\ status' = [status EXCEPT ![runs[r].job] =
                IF runs[r].again THEN "MANUAL_EMBEDDING" ELSE "EMBEDDING"]
          /\ Goto(r, "load")
       \/ "db" \in Faults /\ runs' = [runs EXCEPT ![r] = IdleRun] /\ UNCHANGED status
    /\ UNCHANGED <<manifest, rows, alone>>

\* loadManifest, which may find no JSON; a manifest without scenes is marked
\* FAILED as well.  An initial run is going to create every scene.
LoadManifest(r) ==
    /\ runs[r].pc = "load"
    /\ LET scenes == manifest[runs[r].job] IN
       \/ (scenes = <<>> \/ "disk" \in Faults) /\ GiveUp(r)
       \/ /\ scenes # <<>>
          /\ runs' = [runs EXCEPT ![r].scenes = scenes,
                ![r].pc = IF runs[r].again THEN "read" ELSE "embed",
                ![r].plan.create = IF runs[r].again THEN {} ELSE DOMAIN scenes]
    /\ UNCHANGED <<status, manifest, rows, alone>>

\* GetScenesByVideoID and planReembedding
ReadScenes(r) ==
    /\ runs[r].pc = "read"
    /\ \/ \E idx \in Indexes(rows) :
             runs' = [runs EXCEPT
                ![r].plan = PlanReembedding(runs[r].scenes, rows, idx),
                ![r].pc = "embed"]
       \/ "db" \in Faults /\ GiveUp(r)
    /\ UNCHANGED <<status, manifest, rows, alone>>

Put(f, x, v) == [y \in {x} \cup DOMAIN f |-> IF y = x THEN v ELSE f[y]]

\* What the loops over ToUpdate and ToCreate have still to embed.
Pending(run) == (run.plan.create \cup DOMAIN run.plan.update) \ DOMAIN run.vectors

\* The updates come first.
Upcoming(run) ==
    IF Pending(run) \cap DOMAIN run.plan.update # {}
    THEN Pending(run) \cap DOMAIN run.plan.update ELSE Pending(run)

EmbedAttempts == 3

\* One attempt to embed the next scene; the last one that fails ends the run.
EmbedScene(r) ==
    /\ runs[r].pc = "embed"
    /\ \E i \in Upcoming(runs[r]) :
          /\ \A k \in Upcoming(runs[r]) : i <= k
          /\ \/ runs' = [runs EXCEPT ![r].failed = 0,
                    ![r].vectors = Put(@, i, runs[r].scenes[i].soup)]
             \/ /\ "gemini" \in Faults
                /\ IF runs[r].failed + 1 < EmbedAttempts
                   THEN runs' = [runs EXCEPT ![r].failed = @ + 1]
                   ELSE GiveUp(r)
    /\ UNCHANGED <<status, manifest, rows, alone>>

-----------------------------------------------------------------------------
(* The transaction of BulkReplaceScenes or SyncScenes. *)

Locked(r) == runs[r].gone \cup DOMAIN runs[r].written

IsFree(r, id) == \A s \in Runs \ {r} : id \notin Locked(s)

\* Seeded bug: BulkReplaceScenes only inserts.
StartWithoutDelete(r) ==
    /\ runs[r].pc = "embed" /\ Pending(runs[r]) = {}
    /\ runs' = [runs EXCEPT ![r].pc = "deleting", ![r].left = runs[r].plan.delete]
    /\ UNCHANGED <<status, manifest, rows, alone>>

\* DELETE starts: BulkReplaceScenes deletes what is there now.
StartDelete(r) ==
    /\ runs[r].pc = "embed" /\ Pending(runs[r]) = {}
    /\ runs' = [runs EXCEPT ![r].pc = "deleting",
                            ![r].left = IF runs[r].again THEN runs[r].plan.delete
                                                         ELSE IdsOf(rows)]
    /\ UNCHANGED <<status, manifest, rows, alone>>

\* The DELETE reaches a row, once it is not locked: it may be gone by then.
DeleteRow(r, id) ==
    /\ runs[r].pc = "deleting" /\ id \in runs[r].left /\ IsFree(r, id)
    /\ runs' = [runs EXCEPT ![r].left = @ \ {id},
                            ![r].gone = @ \cup ({id} \cap IdsOf(rows))]
    /\ UNCHANGED <<status, manifest, rows, alone>>

StartUpdates(r) ==
    /\ runs[r].pc = "deleting" /\ runs[r].left = {}
    /\ runs' = [runs EXCEPT ![r].pc = "writing", ![r].left = DOMAIN runs[r].plan.update]
    /\ UNCHANGED <<status, manifest, rows, alone>>

\* Seeded bug: an update that hits no row is sent again until it does.
UpdateUntilHit(r) ==
    /\ runs[r].pc = "writing"
    /\ \E i \in runs[r].left :
          LET id == runs[r].plan.update[i] IN
          /\ \A k \in runs[r].left : i <= k
          /\ IsFree(r, id) /\ id \in IdsOf(rows)
          /\ runs' = [runs EXCEPT ![r].left = @ \ {i}, ![r].written = Put(@, id, i)]
    /\ UNCHANGED <<status, manifest, rows, alone>>

\* The updates, in the order of the manifest; one that hits no row is no error.
UpdateRow(r) ==
    /\ runs[r].pc = "writing"
    /\ \E i \in runs[r].left :
          LET id == runs[r].plan.update[i] IN
          /\ \A k \in runs[r].left : i <= k
          /\ IsFree(r, id)
          /\ runs' = [runs EXCEPT ![r].left = @ \ {i},
                ![r].written = IF id \in IdsOf(rows) THEN Put(@, id, i) ELSE @]
    /\ UNCHANGED <<status, manifest, rows, alone>>

\* Seeded bug: every update carries the scene the loop variable ended on.
UpdatedByLoopVariable(run, row) ==
    IF row.id \notin DOMAIN run.written THEN row
    ELSE LET last == Len(run.scenes) IN
         [row EXCEPT !.soup = run.scenes[last].soup, !.vector = run.scenes[last].soup]

\* Seeded bug: the UPDATE sets the content and its hash only.
UpdatedWithoutVector(run, row) ==
    IF row.id \notin DOMAIN run.written THEN row
    ELSE [row EXCEPT !.soup = run.scenes[run.written[row.id]].soup]

\* A row as the updates of a run leave it: the last one wins.
Updated(run, row) ==
    IF row.id \notin DOMAIN run.written THEN row
    ELSE LET i == run.written[row.id] IN
         [row EXCEPT !.soup = run.scenes[i].soup, !.vector = run.vectors[i]]

\* Seeded bug: the queued inserts are never sent.
NewRowsUnsent(run, id) == {}

NewRows(run, id) ==
    {[id |-> id[i], range |-> run.scenes[i].range, soup |-> run.scenes[i].soup,
      vector |-> run.vectors[i]] : i \in run.plan.create}

\* The table after the commit of a run, when id names its new rows.
Committed(run, id) ==
    {Updated(run, row) : row \in {x \in rows : x.id \notin run.gone}} \cup NewRows(run, id)

\* Ids are UUIDs: none that a row or a run still names is given out again.
Named(run) ==
    run.plan.delete \cup Range(run.plan.update) \cup
    (IF run.pc = "deleting" THEN run.left ELSE {})

Unused == Ids \ (IdsOf(rows) \cup UNION {Named(runs[r]) : r \in Runs})

\* The inserts and COMMIT; the reply may be lost.  Ids are only ever compared,
\* so one choice of new ones stands for all.
Commit(r) ==
    /\ runs[r].pc = "writing" /\ runs[r].left = {}
    /\ LET choices == Injection(runs[r].plan.create, Unused) IN
          /\ choices # {}
          /\ rows' = Committed(runs[r], CHOOSE id \in choices : TRUE)
    /\ \/ runs' = [runs EXCEPT ![r] = [IdleRun EXCEPT !.pc = "complete",
                                   !.job = runs[r].job, !.scenes = runs[r].scenes]]
       \/ "db" \in Faults /\ GiveUp(r)
    /\ UNCHANGED <<status, manifest, alone>>

InTransaction(r) == runs[r].pc \in {"deleting", "writing"}

\* BEGIN or any statement may fail.
Fail(r) ==
    /\ "db" \in Faults
    /\ InTransaction(r) \/ (runs[r].pc = "embed" /\ Pending(runs[r]) = {})
    /\ GiveUp(r)
    /\ UNCHANGED <<status, manifest, rows, alone>>

\* PostgreSQL aborts a transaction of a cycle that wait for each other.
Waits(r, s) ==
    \/ /\ runs[r].pc = "deleting" /\ runs[r].left # {}
       /\ \A id \in runs[r].left : ~IsFree(r, id)
       /\ runs[r].left \cap Locked(s) # {}
    \/ /\ runs[r].pc = "writing"
       /\ \E i \in runs[r].left : /\ \A k \in runs[r].left : i <= k
                                  /\ runs[r].plan.update[i] \in Locked(s)

Deadlocked(r) ==
    \E cycle \in SUBSET Runs :
        r \in cycle /\ \A a \in cycle : \E b \in cycle \ {a} : Waits(a, b)

AbortDeadlocked(r) ==
    /\ InTransaction(r) /\ Deadlocked(r)
    /\ GiveUp(r)
    /\ UNCHANGED <<status, manifest, rows, alone>>

-----------------------------------------------------------------------------
Complete(r) ==
    /\ runs[r].pc = "complete"
    /\ \/ status' = [status EXCEPT ![runs[r].job] = "COMPLETED"]
       \/ "db" \in Faults /\ UNCHANGED status
    /\ runs' = [runs EXCEPT ![r] = IdleRun]
    /\ UNCHANGED <<manifest, rows, alone>>

\* failJob ignores the error of its update.
MarkFailed(r) ==
    /\ runs[r].pc = "mark"
    /\ \/ status' = [status EXCEPT ![runs[r].job] = "FAILED"]
       \/ "db" \in Faults /\ UNCHANGED status
    /\ runs' = [runs EXCEPT ![r] = IdleRun]
    /\ UNCHANGED <<manifest, rows, alone>>

\* The worker dies, or the context ends (shutdown, deadline): then no further
\* attempt is made, and no statement is sent, not even the one that marks the job.
Crash(r) ==
    /\ "crash" \in Faults
    /\ runs' = [runs EXCEPT ![r] = IdleRun]
    /\ UNCHANGED <<status, manifest, rows, alone>>

\* The analyzer has (again) written the manifest and announced it.
Analyze(j) ==
    /\ "analyze" \in Faults
    /\ \E m \in Manifests : manifest' = [manifest EXCEPT ![j] = m]
    /\ status' = [status EXCEPT ![j] = "READY_FOR_EMBEDDING"]
    /\ UNCHANGED <<rows, runs, alone>>

EditManifest(j) ==
    /\ "edit" \in Faults
    /\ \E m \in Manifests : manifest' = [manifest EXCEPT ![j] = m]
    /\ UNCHANGED <<status, rows, runs, alone>>

-----------------------------------------------------------------------------
Step(r) ==
    \/ Begin(r) \/ LoadManifest(r) \/ ReadScenes(r) \/ EmbedScene(r)
    \/ StartDelete(r) \/ (\E id \in Ids : DeleteRow(r, id)) \/ StartUpdates(r)
    \/ UpdateRow(r) \/ Commit(r) \/ AbortDeadlocked(r) \/ Complete(r) \/ MarkFailed(r)

Next ==
    \/ \E r \in Runs, j \in Jobs : Start(r, j)
    \/ \E r \in Runs : Step(r) \/ Fail(r) \/ Crash(r)
    \/ \E j \in Jobs : Analyze(j) \/ EditManifest(j)

Spec == Init /\ [][Next]_vars

\* Goroutines are scheduled, PostgreSQL resolves deadlocks, and it queues who
\* waits for a row; nothing is assumed of requests, deliveries, edits or faults.
Fairness ==
    \A r \in Runs :
        WF_vars(Step(r)) /\ SF_vars(UpdateRow(r)) /\ SF_vars(\E id \in Ids : DeleteRow(r, id))

FairSpec == Spec /\ Fairness

=============================================================================
