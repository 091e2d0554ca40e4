----------------------------- MODULE Migrations -----------------------------
(***************************************************************************)
(* cmd/migrate on the table ingestion_job while the API and the workers    *)
(* use it: the eight scripts of migrations/ as golang-migrate runs them,   *)
(* any number of migrate processes, each of which may die at any point.    *)
(*                                                                         *)
(* A process holds an advisory lock of its session.  For each script it    *)
(* records the version to be reached as dirty, runs the script in one      *)
(* transaction, and records the version as clean; nobody migrates a dirty  *)
(* database.  The program's own statements commit one by one.              *)
(***************************************************************************)
EXTENDS Naturals

CONSTANTS
    Processes,  \* those that may run cmd/migrate: a Job's pods, operators
    NoProcess,
    Jobs,       \* rows that ingestion_job may get
    Videos,     \* rows that source_video may have
    VideoOf     \* the video each job is for

ASSUME ProcessesAssumption == NoProcess \notin Processes
ASSUME VideoOfAssumption == VideoOf \in [Jobs -> Videos]

VARIABLES
    version, dirty,  \* the history table; version 0: it is empty
    schema,          \* the definition of ingestion_job
    fileId,          \* ai_provider_file_id of each row
    sourceTable,     \* whether another system has made the table source_video
    videos,          \* its rows
    asked,           \* requests that have found their video and not inserted yet
    lock,            \* the process that holds the advisory lock
    run              \* what each process does

vars == <<version, dirty, schema, fileId, sourceTable, videos, asked, lock, run>>
appVars == <<fileId, sourceTable, videos, asked>>

Last == 4
Versions == 0 .. Last

\* default: DEFAULT NULL and no default are the same to PostgreSQL.
Schemas == [table : BOOLEAN, notNull : BOOLEAN, default : {"null", "empty"},
            fk : {"none", "restrict", "cascade"}]
NoTable == [table |-> FALSE, notNull |-> FALSE, default |-> "null", fk |-> "none"]

FileIds == {"absent", "null", "empty", "file"}  \* "absent": there is no such row

Pcs == {"idle", "locked", "marked", "backfilled", "applied", "failed"}

\* up, script: the script it is at; seen: the rows that its open transaction
\* has updated, which are locked.
Runs == [pc : Pcs, up : BOOLEAN, script : Versions, seen : SUBSET Jobs]
Idle == [pc |-> "idle", up |-> TRUE, script |-> 0, seen |-> {}]

Init ==
    /\ version = 0 /\ dirty = FALSE /\ schema = NoTable
    /\ fileId = [j \in Jobs |-> "absent"]
    /\ sourceTable \in BOOLEAN
    /\ videos = IF sourceTable THEN Videos ELSE {}
    /\ asked = {}
    /\ lock = NoProcess
    /\ run = [p \in Processes |-> Idle]

-----------------------------------------------------------------------------
(* The scripts *)

Rows == {j \in Jobs : fileId[j] # "absent"}
Blank == {j \in Jobs : fileId[j] = "null"}
Orphans == {j \in Rows : VideoOf[j] \notin videos}

NewTable == [table |-> TRUE, notNull |-> TRUE, default |-> "null", fk |-> "none"]

\* What each script makes of the table; 001 up leaves one that exists alone.
InitUp(s) == IF s.table THEN s ELSE NewTable
InitDown(s) == NoTable

\* Seeded bug: the default stays as it is.
AsyncUploadUpKeepingDefault(s) == [s EXCEPT !.notNull = FALSE]

AsyncUploadUp(s) == [s EXCEPT !.notNull = FALSE, !.default = "null"]
AsyncUploadDown(s) == [s EXCEPT !.notNull = TRUE, !.default = "empty"]

FkSourceVideoUp(s) == [s EXCEPT !.fk = "restrict"]
FkSourceVideoDown(s) == [s EXCEPT !.fk = "none"]

CascadeDeleteUp(s) == [s EXCEPT !.fk = "cascade"]
CascadeDeleteDown(s) == [s EXCEPT !.fk = "restrict"]

AfterUp(n, s) ==
    CASE n = 1 -> InitUp(s)
      [] n = 2 -> AsyncUploadUp(s)
      [] n = 3 -> FkSourceVideoUp(s)
      [] n = 4 -> CascadeDeleteUp(s)

AfterDown(n, s) ==
    CASE n = 1 -> InitDown(s)
      [] n = 2 -> AsyncUploadDown(s)
      [] n = 3 -> FkSourceVideoDown(s)
      [] n = 4 -> CascadeDeleteDown(s)

\* Seeded bug: 004 up adds the constraint beside the one it replaces.
UpSucceedsOnlyWithout(n) ==
    /\ n > 1 => schema.table
    /\ n \in {3, 4} => schema.fk = "none" /\ sourceTable /\ Orphans = {}

\* ADD CONSTRAINT wants the name free, which 004 sees to, and source_video, which
\* no script makes; it checks every row.
UpSucceeds(n) ==
    /\ n > 1 => schema.table
    /\ n = 3 => schema.fk = "none"
    /\ n \in {3, 4} => sourceTable /\ Orphans = {}

\* SET NOT NULL checks every row: those that the backfill did not see as well.
DownSucceeds(n, seen) ==
    /\ n > 1 => schema.table
    /\ n = 2 => Blank \subseteq seen
    /\ n = 4 => sourceTable /\ Orphans = {}

Succeeds(r) == IF r.up THEN UpSucceeds(r.script) ELSE DownSucceeds(r.script, r.seen)
After(r) == IF r.up THEN AfterUp(r.script, schema) ELSE AfterDown(r.script, schema)

\* 001 down drops the rows with the table, 002 down commits its backfill.
FileIdsAfter(r) ==
    [j \in Jobs |-> IF ~r.up /\ r.script = 1 THEN "absent"
                    ELSE IF j \in r.seen THEN "empty" ELSE fileId[j]]

-----------------------------------------------------------------------------
(* golang-migrate *)

\* The version a script leads to.
Target(r) == IF r.up THEN r.script ELSE r.script - 1

\* Seeded bug: a rollback at the start of the history is not noticed.
UpOrDownAnywhere(p, up) ==
    /\ lock = NoProcess /\ ~dirty
    /\ up => version < Last
    /\ lock' = p
    /\ run' = [run EXCEPT ![p] = [Idle EXCEPT !.pc = "locked", !.up = up,
                                     !.script = IF up THEN version + 1 ELSE version]]
    /\ UNCHANGED <<version, dirty, schema, appVars>>

\* m.Up and m.Steps(-1) up to the first script.  With a dirty version, with the
\* lock taken for longer than the timeout, and with nothing to do they end
\* here, and change nothing.
UpOrDown(p, up) ==
    /\ lock = NoProcess /\ ~dirty
    /\ IF up THEN version < Last ELSE version > 0
    /\ lock' = p
    /\ run' = [run EXCEPT ![p] = [Idle EXCEPT !.pc = "locked", !.up = up,
                                     !.script = IF up THEN version + 1 ELSE version]]
    /\ UNCHANGED <<version, dirty, schema, appVars>>

SetDirty(p) ==
    /\ run[p].pc = "locked"
    /\ version' = Target(run[p]) /\ dirty' = TRUE
    /\ run' = [run EXCEPT ![p].pc = "marked"]
    /\ UNCHANGED <<schema, appVars, lock>>

IsBackfill(r) == ~r.up /\ r.script = 2

\* Seeded bug: the UPDATE has no WHERE clause.
BackfillAll(p) ==
    /\ run[p].pc = "marked" /\ IsBackfill(run[p]) /\ schema.table
    /\ run' = [run EXCEPT ![p].pc = "backfilled", ![p].seen = Rows]
    /\ UNCHANGED <<version, dirty, schema, appVars, lock>>

\* 002 down begins with an UPDATE that locks the rows it finds, and only these:
\* until ALTER TABLE has the table for itself, others commit theirs.
Backfill(p) ==
    /\ run[p].pc = "marked" /\ IsBackfill(run[p]) /\ schema.table
    /\ run' = [run EXCEPT ![p].pc = "backfilled", ![p].seen = Blank]
    /\ UNCHANGED <<version, dirty, schema, appVars, lock>>

AtCommit(r) == r.pc = "backfilled" \/ (r.pc = "marked" /\ ~IsBackfill(r))

Apply(p) ==
    /\ AtCommit(run[p]) /\ Succeeds(run[p])
    /\ schema' = After(run[p])
    /\ fileId' = FileIdsAfter(run[p])
    /\ run' = [run EXCEPT ![p].pc = "applied", ![p].seen = {}]
    /\ UNCHANGED <<version, dirty, sourceTable, videos, asked, lock>>

\* The transaction is rolled back and the process ends: the version stays dirty.
Fail(p) ==
    /\ AtCommit(run[p]) /\ ~Succeeds(run[p])
    /\ run' = [run EXCEPT ![p] = [Idle EXCEPT !.pc = "failed"]]
    /\ lock' = NoProcess
    /\ UNCHANGED <<version, dirty, schema, appVars>>

\* Seeded bug: a rollback goes on to the script before, as m.Down would.
SetCleanAllDown(p) ==
    /\ run[p].pc = "applied"
    /\ dirty' = FALSE
    /\ LET next == IF run[p].up THEN run[p].script + 1 ELSE run[p].script - 1 IN
       IF next \in 1 .. Last
       THEN run' = [run EXCEPT ![p].pc = "locked", ![p].script = next] /\ UNCHANGED lock
       ELSE run' = [run EXCEPT ![p] = Idle] /\ lock' = NoProcess
    /\ UNCHANGED <<version, schema, appVars>>

\* Up goes on with the next script; Steps(-1) has done its one.
SetClean(p) ==
    /\ run[p].pc = "applied"
    /\ dirty' = FALSE
    /\ IF run[p].up /\ run[p].script < Last
       THEN run' = [run EXCEPT ![p].pc = "locked", ![p].script = @ + 1] /\ UNCHANGED lock
       ELSE run' = [run EXCEPT ![p] = Idle] /\ lock' = NoProcess
    /\ UNCHANGED <<version, schema, appVars>>

\* Killed, cut off from the database, or chosen to break the deadlock of 002
\* down with an UpdateJobAfterUpload that waits for a row of the backfill while
\* ALTER TABLE waits for that update to leave the table.
Abort(p) ==
    /\ lock = p
    /\ run' = [run EXCEPT ![p] = Idle]
    /\ lock' = NoProcess
    /\ UNCHANGED <<version, dirty, schema, appVars>>

Migrate(p) == SetDirty(p) \/ Backfill(p) \/ Apply(p) \/ Fail(p) \/ SetClean(p)

-----------------------------------------------------------------------------
(* The program *)

\* StartIngestion looks for the video, which a database without the table does not
\* have, then inserts.
GetSourceVideo(j) ==
    /\ fileId[j] = "absent" /\ VideoOf[j] \in videos
    /\ asked' = asked \cup {j}
    /\ UNCHANGED <<version, dirty, schema, fileId, sourceTable, videos, lock, run>>

\* The INSERT leaves ai_provider_file_id out: the column's default decides.
Inserts(j) ==
    /\ schema.table
    /\ schema.notNull => schema.default # "null"
    /\ schema.fk # "none" => VideoOf[j] \in videos

CreatePendingJob(j) ==
    /\ j \in asked
    /\ asked' = asked \ {j}
    /\ IF Inserts(j) THEN fileId' = [fileId EXCEPT ![j] = schema.default]
                     ELSE UNCHANGED fileId
    /\ UNCHANGED <<version, dirty, schema, sourceTable, videos, lock, run>>

\* It waits for a row that the backfill has locked; a redelivered upload may
\* write a row a second time.
UpdateJobAfterUpload(j) ==
    /\ j \in Rows
    /\ \A p \in Processes : j \notin run[p].seen
    /\ fileId' = [fileId EXCEPT ![j] = "file"]
    /\ UNCHANGED <<version, dirty, schema, sourceTable, videos, asked, lock, run>>

\* Another system's table: it is made, before or after the migrations or never, a
\* video is added, or deleted if the constraint lets it, ON DELETE CASCADE with
\* its jobs.
CreateTable ==
    /\ ~sourceTable /\ sourceTable' = TRUE
    /\ UNCHANGED <<version, dirty, schema, fileId, videos, asked, lock, run>>

AddVideo(v) ==
    /\ sourceTable /\ videos' = videos \cup {v}
    /\ UNCHANGED <<version, dirty, schema, fileId, sourceTable, asked, lock, run>>

DeleteVideo(v) ==
    LET its == {j \in Rows : VideoOf[j] = v} IN
    /\ v \in videos
    /\ schema.fk = "restrict" => its = {}
    /\ videos' = videos \ {v}
    /\ fileId' = [j \in Jobs |-> IF schema.fk = "cascade" /\ j \in its
                                 THEN "absent" ELSE fileId[j]]
    /\ UNCHANGED <<version, dirty, schema, sourceTable, asked, lock, run>>

Program ==
    \/ \E j \in Jobs : GetSourceVideo(j) \/ CreatePendingJob(j) \/ UpdateJobAfterUpload(j)
    \/ CreateTable \/ (\E v \in Videos : AddVideo(v) \/ DeleteVideo(v))

Next ==
    \/ \E p \in Processes : Migrate(p) \/ Abort(p) \/ (\E up \in BOOLEAN : UpOrDown(p, up))
    \/ Program

Spec == Init /\ [][Next]_vars

=============================================================================
