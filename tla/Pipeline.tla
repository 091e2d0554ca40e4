------------------------------ MODULE Pipeline ------------------------------
(***************************************************************************)
(* The ingestion pipeline: the HTTP handlers, the four Asynq workers, the  *)
(* job row they share in PostgreSQL, the manifest file, the provider's     *)
(* files and the task queues in Redis.                                     *)
(*                                                                         *)
(* A run is one goroutine executing a handler: a delivery of a task (in a  *)
(* worker) or an HTTP request.  It holds what the handler keeps in local   *)
(* variables and a pc that names the next call it makes on shared state;   *)
(* every such call is one atomic step, so runs interleave between calls.   *)
(*                                                                         *)
(* Faults selects what may go wrong:                                       *)
(*   "db", "redis", "gemini", "disk"  a call returns an error (a database  *)
(*               or Redis call may have taken effect all the same);        *)
(*   "crash"     a process dies with the run (every worker exits without   *)
(*               waiting for its handlers), and Asynq redelivers the task; *)
(*   "expire"    the context of a run is cancelled (task timeout, lost     *)
(*               lease, HTTP client gone) while the goroutine runs on;     *)
(*   "edit"      somebody edits a manifest, as re-embedding invites;       *)
(*   "delete"    somebody deletes the source video: ON DELETE CASCADE      *)
(*               takes the row of the job away under the handlers.         *)
(***************************************************************************)
EXTENDS Naturals, FiniteSets

CONSTANTS
    Jobs,         \* job ids; the number of ingest requests that reach the insert
    Files,        \* names the provider can give to uploaded files
    TaskIds,      \* ids of Asynq tasks; bounds the tasks alive at once
    Workers,      \* handler goroutines of the four worker processes, those whose
                  \* context has ended included
    Concurrency,  \* the slots of the server of each queue
    Ingesters,    \* API goroutines serving POST /ingest/:id
    Reembedders,  \* API goroutines serving POST /manual-embed/:id
    NoJob, NoFile, NoTask,
    MaxRetry,     \* asynq.MaxRetry of each task type
    Faults

TaskTypes == {"upload", "state", "analyze", "embed"}
FaultKinds == {"db", "redis", "gemini", "disk", "edit", "delete", "crash",
               "expire"}

ASSUME RetryAssumption == MaxRetry \in [TaskTypes -> Nat]
ASSUME ConcurrencyAssumption == Concurrency \in [TaskTypes -> Nat \ {0}]
ASSUME FaultAssumption == Faults \subseteq FaultKinds
ASSUME NullAssumption ==
    NoJob \notin Jobs /\ NoFile \notin Files /\ NoTask \notin TaskIds
ASSUME GoroutineAssumption ==
    /\ Workers \cap Ingesters = {} /\ Workers \cap Reembedders = {}
    /\ Ingesters \cap Reembedders = {}

VARIABLES
    status,       \* ingestion_job.status, "NONE" before the insert, "GONE" when
                  \* the row has been deleted
    file,         \* ingestion_job.ai_provider_file_id (what it was, of a row gone)
    manifest,     \* the content of <outputDir>/<job>.jsonc
    stored,       \* jobs whose scenes have been committed to video_scene
    provider,     \* the state of each file at the provider
    tasks,        \* the tasks Asynq holds in Redis
    archived,     \* (type, job) of the tasks Asynq gave up on
    runs,         \* the goroutines
    accepted,     \* jobs whose request was answered 202
    unmarked      \* jobs a handler dropped after ignoring a failed FAILED update

vars == <<status, file, manifest, stored, provider, tasks, archived, runs,
          accepted, unmarked>>

Runs == Workers \cup Ingesters \cup Reembedders
Kinds == TaskTypes \cup {"idle", "ingest", "manual"}
Statuses == {"NONE", "PENDING", "UPLOADED_TO_PROVIDER", "PROVIDER_PROCESSING",
             "READY_FOR_ANALYSIS", "ANALYZING", "READY_FOR_EMBEDDING",
             "EMBEDDING", "MANUAL_EMBEDDING", "COMPLETED", "FAILED", "GONE"}
Pcs == {"idle", "enqueue", "get", "upload", "uploaded", "poll", "activate",
        "analyzing", "generate", "truncate", "write", "ready", "embedding",
        "reembedding", "load", "embed", "store", "complete",
        "mark", "markQuiet", "nil", "err"}

\* Half written by the analyzer, or valid JSON, or edited so that it has no scenes
\* or is no JSON any more.
Manifests == {"none", "torn", "whole", "empty", "broken"}

IdleRun == [kind |-> "idle", job |-> NoJob, task |-> NoTask, pc |-> "idle",
            file |-> NoFile, live |-> FALSE]
FreeTask == [state |-> "free", type |-> "upload", job |-> NoJob, retried |-> 0]

TypeOK ==
    /\ status \in [Jobs -> Statuses]
    /\ file \in [Jobs -> Files \cup {NoFile}]
    /\ manifest \in [Jobs -> Manifests]
    /\ stored \in SUBSET Jobs
    /\ provider \in [Files -> {"unused", "PROCESSING", "ACTIVE", "FAILED"}]
    /\ tasks \in [TaskIds -> [state : {"free", "ready", "active"}, type : TaskTypes,
                              job : Jobs \cup {NoJob}, retried : Nat]]
    /\ archived \in SUBSET (TaskTypes \X (Jobs \cup {NoJob}))
    /\ runs \in [Runs -> [kind : Kinds, job : Jobs \cup {NoJob},
                          task : TaskIds \cup {NoTask}, pc : Pcs,
                          file : Files \cup {NoFile}, live : BOOLEAN]]
    /\ accepted \in SUBSET Jobs
    /\ unmarked \in SUBSET Jobs

Init ==
    /\ status = [j \in Jobs |-> "NONE"]
    /\ file = [j \in Jobs |-> NoFile]
    /\ manifest = [j \in Jobs |-> "none"]
    /\ stored = {}
    /\ provider = [f \in Files |-> "unused"]
    /\ tasks = [t \in TaskIds |-> FreeTask]
    /\ archived = {}
    /\ runs = [r \in Runs |-> IdleRun]
    /\ accepted = {}
    /\ unmarked = {}

-----------------------------------------------------------------------------
(* Steps that several handlers share. *)

Goto(r, pc) == runs' = [runs EXCEPT ![r].pc = pc]

\* A call of run r fails when its context is cancelled or the service fails.
CanFail(r, fault) == fault \in Faults \/ ~runs[r].live

\* An UPDATE of a row that is gone hits nothing, and that is no error.
Updated(j, next) == IF status[j] = "GONE" THEN status ELSE [status EXCEPT ![j] = next]

\* UPDATE ... SET status, sent under the run's context.  The last disjunct is
\* a reply that is lost after the update was applied.
UpdateJobStatus(r, next, ok, failed) ==
    \/ /\ runs[r].live
       /\ status' = Updated(runs[r].job, next)
       /\ Goto(r, ok)
    \/ CanFail(r, "db") /\ Goto(r, failed) /\ UNCHANGED status
    \/ /\ "db" \in Faults /\ runs[r].live
       /\ status' = Updated(runs[r].job, next)
       /\ Goto(r, failed)

\* The handler's own status update, when that is all the step does.
SetStatus(r, pc, next, ok, failed) ==
    /\ runs[r].pc = pc
    /\ UpdateJobStatus(r, next, ok, failed)
    /\ UNCHANGED <<file, manifest, stored, provider, tasks, archived, accepted,
                   unmarked>>

\* Seeded bug: the state checker creates its own kind of task.
NextTypeLoops == [ingest |-> "upload", upload |-> "state", state |-> "state",
                  analyze |-> "embed"]

NextType == [ingest |-> "upload", upload |-> "state", state |-> "analyze",
             analyze |-> "embed"]

AddTask(r, t) ==
    /\ tasks[t].state = "free"
    /\ tasks' = [tasks EXCEPT ![t] =
           [state |-> "ready", type |-> NextType[runs[r].kind],
            job |-> runs[r].job, retried |-> 0]]

\* Seeded bug: a failed enqueue is logged and the handler returns nil.
EnqueueUnchecked(r) ==
    /\ runs[r].pc = "enqueue"
    /\ UNCHANGED tasks \/ \E t \in TaskIds : AddTask(r, t)
    /\ Goto(r, "nil")
    /\ accepted' = IF runs[r].kind = "ingest"
                   THEN accepted \cup {runs[r].job} ELSE accepted
    /\ UNCHANGED <<status, file, manifest, stored, provider, archived, unmarked>>

\* Seeded bug: an enqueue may be sent a second time.
EnqueueAgain(r) ==
    /\ runs[r].pc = "enqueue"
    /\ \E t \in TaskIds : AddTask(r, t)
    /\ \E pc \in {"enqueue", "nil"} : Goto(r, pc)
    /\ accepted' = IF runs[r].kind = "ingest"
                   THEN accepted \cup {runs[r].job} ELSE accepted
    /\ UNCHANGED <<status, file, manifest, stored, provider, archived, unmarked>>

\* asynqClient.Enqueue takes no context: an expired run still enqueues.
Enqueue(r) ==
    /\ runs[r].pc = "enqueue"
    /\ \/ /\ \E t \in TaskIds : AddTask(r, t)
          /\ Goto(r, "nil")
          /\ accepted' = IF runs[r].kind = "ingest"
                         THEN accepted \cup {runs[r].job} ELSE accepted
       \/ /\ "redis" \in Faults
          /\ UNCHANGED tasks \/ \E t \in TaskIds : AddTask(r, t)
          /\ Goto(r, "err")
          /\ UNCHANGED accepted
    /\ UNCHANGED <<status, file, manifest, stored, provider, archived, unmarked>>

\* UpdateJobStatus(FAILED) with its error ignored, then an error is returned.
MarkFailed(r) == SetStatus(r, "mark", "FAILED", "err", "err")

\* The same update, after which the handler returns nil: no retry follows.
MarkFailedQuietly(r) ==
    /\ runs[r].pc = "markQuiet"
    /\ UpdateJobStatus(r, "FAILED", "nil", "nil")
    /\ unmarked' = IF status'[runs[r].job] \in {"FAILED", "GONE"}
                   THEN unmarked ELSE unmarked \cup {runs[r].job}
    /\ UNCHANGED <<file, manifest, stored, provider, tasks, archived, accepted>>

-----------------------------------------------------------------------------
(* The API process. *)

\* Ingest up to the insert of CreatePendingJob; a failed insert leaves nothing
\* behind, one whose reply is lost leaves a row and answers 500.
StartIngestion(r, j) ==
    /\ runs[r] = IdleRun
    /\ status[j] = "NONE"
    /\ status' = [status EXCEPT ![j] = "PENDING"]
    /\ \/ runs' = [runs EXCEPT ![r] = [IdleRun EXCEPT !.kind = "ingest", !.job = j,
                                                      !.pc = "enqueue", !.live = TRUE]]
       \/ "db" \in Faults /\ UNCHANGED runs
    /\ UNCHANGED <<file, manifest, stored, provider, tasks, archived, accepted,
                   unmarked>>

\* Reembed calls the embedder's ProcessJob in the request's goroutine.
Reembed(r, j) ==
    /\ runs[r] = IdleRun
    /\ status[j] # "NONE"
    /\ runs' = [runs EXCEPT ![r] = [IdleRun EXCEPT !.kind = "manual", !.job = j,
                                                   !.pc = "get", !.live = TRUE]]
    /\ UNCHANGED <<status, file, manifest, stored, provider, tasks, archived,
                   accepted, unmarked>>

-----------------------------------------------------------------------------
(* Asynq: delivery, acknowledgement, retry, archive, recovery. *)

\* A slot is taken by a delivery, not by its goroutine: one whose context has
\* ended has lost its task (Expire) and works on beside the next delivery.
HasSlot(type) ==
    Cardinality({w \in Workers : runs[w].task # NoTask /\ runs[w].kind = type})
        < Concurrency[type]

Dequeue(w, t) ==
    /\ runs[w] = IdleRun /\ tasks[t].state = "ready" /\ HasSlot(tasks[t].type)
    /\ tasks' = [tasks EXCEPT ![t].state = "active"]
    /\ runs' = [runs EXCEPT ![w] = [kind |-> tasks[t].type, job |-> tasks[t].job,
                                    task |-> t, pc |-> "get", file |-> NoFile,
                                    live |-> TRUE]]
    /\ UNCHANGED <<status, file, manifest, stored, provider, archived, accepted,
                   unmarked>>

Ack(t) ==
    /\ tasks' = [tasks EXCEPT ![t] = FreeTask]
    /\ UNCHANGED archived

\* A failed delivery: retried until MaxRetry retries are used up.
Nack(t) ==
    IF tasks[t].retried < MaxRetry[tasks[t].type]
    THEN /\ tasks' = [tasks EXCEPT ![t].state = "ready", ![t].retried = @ + 1]
         /\ UNCHANGED archived
    ELSE /\ tasks' = [tasks EXCEPT ![t] = FreeTask]
         /\ archived' = archived \cup {<<tasks[t].type, tasks[t].job>>}

\* The handler has returned.  A run without a task of its own (a request, or a
\* worker run whose context had expired) has nothing to settle.
Settle(r) ==
    /\ runs[r].pc \in {"nil", "err"}
    /\ LET t == runs[r].task IN
       IF t = NoTask THEN UNCHANGED <<tasks, archived>>
       ELSE IF runs[r].pc = "nil" THEN Ack(t) ELSE Nack(t)
    /\ runs' = [runs EXCEPT ![r] = IdleRun]
    /\ UNCHANGED <<status, file, manifest, stored, provider, accepted, unmarked>>

\* The context is cancelled; Asynq gives the task up and frees the slot, the
\* goroutine runs on.
Expire(r) ==
    /\ "expire" \in Faults
    /\ runs[r].live
    /\ runs' = [runs EXCEPT ![r].live = FALSE, ![r].task = NoTask]
    /\ UNCHANGED <<status, file, manifest, stored, provider, tasks, archived,
                   accepted, unmarked>>

\* The process dies: the run is gone, its task stays active in Redis.
Crash(r) ==
    /\ "crash" \in Faults
    /\ runs[r] # IdleRun
    /\ runs' = [runs EXCEPT ![r] = IdleRun]
    /\ UNCHANGED <<status, file, manifest, stored, provider, tasks, archived,
                   accepted, unmarked>>

\* Asynq finds an active task whose lease nobody extends.
Recover(t) ==
    /\ tasks[t].state = "active"
    /\ \A r \in Runs : runs[r].task # t
    /\ Nack(t)
    /\ UNCHANGED <<status, file, manifest, stored, provider, runs, accepted,
                   unmarked>>

-----------------------------------------------------------------------------
(* The four handlers, by the call they make. *)

\* Seeded bug: the embedder starts whatever the status of the job.
AfterGetAnyStatus(kind, j) ==
    CASE kind = "upload" -> "upload"
      [] kind = "state" -> IF file[j] = NoFile THEN "markQuiet" ELSE "poll"
      [] kind = "analyze" -> IF file[j] = NoFile THEN "markQuiet" ELSE "analyzing"
      [] OTHER -> IF status[j] = "COMPLETED" THEN "reembedding" ELSE "embedding"

\* The branches each handler takes on the row it has read.
AfterGet(kind, j) ==
    CASE kind = "upload" -> "upload"
      [] kind = "state" -> IF file[j] = NoFile THEN "markQuiet" ELSE "poll"
      [] kind = "analyze" -> IF file[j] = NoFile THEN "markQuiet" ELSE "analyzing"
      [] OTHER -> CASE status[j] = "READY_FOR_EMBEDDING" -> "embedding"
                    [] status[j] = "COMPLETED" -> "reembedding"
                    [] OTHER -> "nil"

\* GetJobByID: a row that is not there is an error like any other.
GetJob(r) ==
    /\ runs[r].pc = "get"
    /\ \/ /\ runs[r].live /\ status[runs[r].job] # "GONE"
          /\ LET j == runs[r].job IN
             runs' = [runs EXCEPT
                ![r].pc = AfterGet(runs[r].kind, j),
                ![r].file = IF runs[r].kind \in {"state", "analyze"}
                            THEN file[j] ELSE NoFile]
       \/ /\ CanFail(r, "db") \/ status[runs[r].job] = "GONE"
          /\ Goto(r, "err")
    /\ UNCHANGED <<status, file, manifest, stored, provider, tasks, archived,
                   accepted, unmarked>>

\* gemini.UploadFile: a new file, which the provider has yet to process.
Uploaded(f) ==
    /\ provider[f] = "unused"
    /\ provider' = [provider EXCEPT ![f] = "PROCESSING"]

\* gemini.GetFileState: what the provider says of a file now.
FileState(f) == provider[f]

UploadFile(r) ==
    /\ runs[r].pc = "upload"
    /\ \/ /\ runs[r].live
          /\ \E f \in Files :
                /\ Uploaded(f)
                /\ runs' = [runs EXCEPT ![r].pc = "uploaded", ![r].file = f]
       \/ CanFail(r, "gemini") /\ Goto(r, "mark") /\ UNCHANGED provider
    /\ UNCHANGED <<status, file, manifest, stored, tasks, archived, accepted,
                   unmarked>>

\* Seeded bug: only the status is written.
UpdateJobWithoutFile(r) ==
    /\ runs[r].pc = "uploaded"
    /\ status' = Updated(runs[r].job, "UPLOADED_TO_PROVIDER")
    /\ runs' = [runs EXCEPT ![r].pc = "enqueue", ![r].file = NoFile]
    /\ UNCHANGED <<file, manifest, stored, provider, tasks, archived, accepted,
                   unmarked>>

\* Uploader: file id and status are written by one UPDATE
UpdateJobAfterUpload(r) ==
    /\ runs[r].pc = "uploaded"
    /\ \/ /\ runs[r].live
          /\ file' = IF status[runs[r].job] = "GONE" THEN file
                     ELSE [file EXCEPT ![runs[r].job] = runs[r].file]
          /\ status' = Updated(runs[r].job, "UPLOADED_TO_PROVIDER")
          /\ \E pc \in {"enqueue"} \cup (IF "db" \in Faults THEN {"err"} ELSE {}) :
                runs' = [runs EXCEPT ![r].pc = pc, ![r].file = NoFile]
       \/ /\ CanFail(r, "db")
          /\ runs' = [runs EXCEPT ![r].pc = "err", ![r].file = NoFile]
          /\ UNCHANGED <<file, status>>
    /\ UNCHANGED <<manifest, stored, provider, tasks, archived, accepted, unmarked>>

\* Seeded bug: every state but FAILED counts as ACTIVE.
PollUnfinished(r) ==
    /\ runs[r].pc = "poll"
    /\ runs' = [runs EXCEPT ![r].file = NoFile, ![r].pc =
          IF FileState(runs[r].file) = "FAILED" THEN "markQuiet" ELSE "activate"]
    /\ UNCHANGED <<status, file, manifest, stored, provider, tasks, archived,
                   accepted, unmarked>>

\* State checker: it asks about the file read by GetJob
PollFileState(r) ==
    /\ runs[r].pc = "poll"
    /\ \/ /\ runs[r].live
          /\ runs' = [runs EXCEPT ![r].file = NoFile, ![r].pc =
                CASE FileState(runs[r].file) = "ACTIVE" -> "activate"
                  [] FileState(runs[r].file) = "FAILED" -> "markQuiet"
                  [] OTHER -> "err"]
       \/ /\ CanFail(r, "gemini")
          /\ runs' = [runs EXCEPT ![r].file = NoFile, ![r].pc = "err"]
    /\ UNCHANGED <<status, file, manifest, stored, provider, tasks, archived,
                   accepted, unmarked>>

\* Seeded bug: the status of the comment on UpdateJobStatus, which no handler knows.
ActivateMisspelt(r) == SetStatus(r, "activate", "READY", "enqueue", "err")

Activate(r) == SetStatus(r, "activate", "READY_FOR_ANALYSIS", "enqueue", "err")

BeginAnalysis(r) == SetStatus(r, "analyzing", "ANALYZING", "generate", "err")

\* Analyzer: the provider answers only for a file it has finished processing.
\* The broken manifest of a failed call goes to a file nothing reads.
\* A reply that has a candidate without content panics; Asynq recovers the
\* panic as an error, and the job is not marked FAILED.
GenerateMetadata(r) ==
    /\ runs[r].pc = "generate"
    /\ \/ /\ runs[r].live /\ provider[runs[r].file] = "ACTIVE"
          /\ runs' = [runs EXCEPT ![r].pc = "truncate", ![r].file = NoFile]
       \/ /\ CanFail(r, "gemini") \/ provider[runs[r].file] # "ACTIVE"
          /\ runs' = [runs EXCEPT ![r].pc = "mark", ![r].file = NoFile]
       \/ /\ "gemini" \in Faults
          /\ runs' = [runs EXCEPT ![r].pc = "err", ![r].file = NoFile]
    /\ UNCHANGED <<status, file, manifest, stored, provider, tasks, archived,
                   accepted, unmarked>>

\* Seeded bug: the error of creating the file is dropped.
TruncateUnchecked(r) ==
    /\ runs[r].pc = "truncate"
    /\ \/ /\ manifest' = [manifest EXCEPT ![runs[r].job] = "torn"]
          /\ Goto(r, "write")
       \/ "disk" \in Faults /\ Goto(r, "ready") /\ UNCHANGED manifest
    /\ UNCHANGED <<status, file, stored, provider, tasks, archived, accepted,
                   unmarked>>

\* Analyzer: os.WriteFile opens with O_TRUNC ...
TruncateManifest(r) ==
    /\ runs[r].pc = "truncate"
    /\ \/ /\ manifest' = [manifest EXCEPT ![runs[r].job] = "torn"]
          /\ Goto(r, "write")
       \/ "disk" \in Faults /\ Goto(r, "mark") /\ UNCHANGED manifest
    /\ UNCHANGED <<status, file, stored, provider, tasks, archived, accepted,
                   unmarked>>

\* Seeded bug: the error of the write is dropped.
WriteUnchecked(r) ==
    /\ runs[r].pc = "write"
    /\ \/ manifest' = [manifest EXCEPT ![runs[r].job] = "whole"]
       \/ "disk" \in Faults /\ UNCHANGED manifest
    /\ Goto(r, "ready")
    /\ UNCHANGED <<status, file, stored, provider, tasks, archived, accepted,
                   unmarked>>

\* ... and writes from offset 0: over the longer text of another writer that
\* finished since the truncation it leaves a tail of that text behind.
WriteManifest(r) ==
    /\ runs[r].pc = "write"
    /\ \/ /\ \E m \in IF manifest[runs[r].job] = "torn"
                      THEN {"whole"} ELSE {"whole", "torn"} :
                manifest' = [manifest EXCEPT ![runs[r].job] = m]
          /\ Goto(r, "ready")
       \/ "disk" \in Faults /\ Goto(r, "mark") /\ UNCHANGED manifest
    /\ UNCHANGED <<status, file, stored, provider, tasks, archived, accepted,
                   unmarked>>

\* Seeded bug: the analyzer does not enqueue the embed task.
FinishWithoutEnqueue(r) == SetStatus(r, "ready", "READY_FOR_EMBEDDING", "nil", "err")

\* Seeded bug: the error of the update is logged only.
FinishUnchecked(r) == SetStatus(r, "ready", "READY_FOR_EMBEDDING", "enqueue", "nil")

FinishAnalysis(r) == SetStatus(r, "ready", "READY_FOR_EMBEDDING", "enqueue", "err")

BeginEmbedding(r) == SetStatus(r, "embedding", "EMBEDDING", "load", "err")

BeginReembedding(r) == SetStatus(r, "reembedding", "MANUAL_EMBEDDING", "load", "err")

\* Embedder: loadManifest, then the check for a manifest without scenes
LoadManifest(r) ==
    /\ runs[r].pc = "load"
    /\ \/ Goto(r, CASE manifest[runs[r].job] = "whole" -> "embed"
                    [] manifest[runs[r].job] = "empty" -> "markQuiet"
                    [] OTHER -> "mark")
       \/ "disk" \in Faults /\ Goto(r, "mark")
    /\ UNCHANGED <<status, file, manifest, stored, provider, tasks, archived,
                   accepted, unmarked>>

\* Embedder: everything between the manifest and the scenes' transaction (one
\* embedding call per scene; before them a re-embed reads the existing scenes).
EmbedScenes(r) ==
    /\ runs[r].pc = "embed"
    /\ \/ runs[r].live /\ Goto(r, "store")
       \/ CanFail(r, "gemini") /\ Goto(r, "mark")
       \/ "db" \in Faults /\ Goto(r, "mark")
    /\ UNCHANGED <<status, file, manifest, stored, provider, tasks, archived,
                   accepted, unmarked>>

\* Seeded bug: the error of the transaction is logged only.
StoreUnchecked(r) ==
    /\ runs[r].pc = "store"
    /\ \/ runs[r].live /\ stored' = stored \cup {runs[r].job}
       \/ CanFail(r, "db") /\ UNCHANGED stored
    /\ Goto(r, "complete")
    /\ UNCHANGED <<status, file, manifest, provider, tasks, archived, accepted,
                   unmarked>>

\* Embedder: BulkReplaceScenes or SyncScenes, one transaction.  Whether
\* video_scene takes the scenes of a video that is gone is up to its own schema,
\* which another system owns.
StoreScenes(r) ==
    /\ runs[r].pc = "store"
    /\ \/ /\ runs[r].live
          /\ stored' = stored \cup {runs[r].job}
          /\ Goto(r, "complete") \/ ("db" \in Faults /\ Goto(r, "mark"))
       \/ /\ CanFail(r, "db") \/ status[runs[r].job] = "GONE"
          /\ Goto(r, "mark") /\ UNCHANGED stored
    /\ UNCHANGED <<status, file, manifest, provider, tasks, archived, accepted,
                   unmarked>>

Complete(r) == SetStatus(r, "complete", "COMPLETED", "nil", "err")

-----------------------------------------------------------------------------
(* The provider and the people around the system. *)

ProviderSettles(f) ==
    /\ provider[f] = "PROCESSING"
    /\ \E s \in {"ACTIVE", "FAILED"} : provider' = [provider EXCEPT ![f] = s]
    /\ UNCHANGED <<status, file, manifest, stored, tasks, archived, runs,
                   accepted, unmarked>>

\* Somebody edits a manifest that has been written.
EditManifest(j) ==
    /\ "edit" \in Faults
    /\ manifest[j] \notin {"none", "torn"}
    /\ \E m \in {"whole", "empty", "broken"} : manifest' = [manifest EXCEPT ![j] = m]
    /\ UNCHANGED <<status, file, stored, provider, tasks, archived, runs,
                   accepted, unmarked>>

\* The source video is deleted, and with it the row of its job.
DeleteVideo(j) ==
    /\ "delete" \in Faults
    /\ status[j] \notin {"NONE", "GONE"}
    /\ status' = [status EXCEPT ![j] = "GONE"]
    /\ UNCHANGED <<file, manifest, stored, provider, tasks, archived, runs,
                   accepted, unmarked>>

-----------------------------------------------------------------------------
Step(r) ==
    \/ Enqueue(r) \/ MarkFailed(r) \/ MarkFailedQuietly(r) \/ Settle(r)
    \/ GetJob(r)
    \/ UploadFile(r) \/ UpdateJobAfterUpload(r)
    \/ PollFileState(r) \/ Activate(r)
    \/ BeginAnalysis(r) \/ GenerateMetadata(r) \/ TruncateManifest(r)
    \/ WriteManifest(r) \/ FinishAnalysis(r)
    \/ BeginEmbedding(r) \/ BeginReembedding(r) \/ LoadManifest(r)
    \/ EmbedScenes(r) \/ StoreScenes(r) \/ Complete(r)

Next ==
    \/ \E r \in Ingesters, j \in Jobs : StartIngestion(r, j)
    \/ \E r \in Reembedders, j \in Jobs : Reembed(r, j)
    \/ \E w \in Workers, t \in TaskIds : Dequeue(w, t)
    \/ \E r \in Runs : Step(r) \/ Expire(r) \/ Crash(r)
    \/ \E t \in TaskIds : Recover(t)
    \/ \E f \in Files : ProviderSettles(f)
    \/ \E j \in Jobs : EditManifest(j) \/ DeleteVideo(j)

Spec == Init /\ [][Next]_vars

\* Goroutines are scheduled, a worker with a free slot takes a task that is
\* due, the recoverer runs, and the provider finishes processing.  Nothing is
\* assumed of requests, faults, edits or deletions.
Fairness ==
    /\ \A r \in Runs : WF_vars(Step(r))
    /\ WF_vars(\E w \in Workers, t \in TaskIds : Dequeue(w, t))
    /\ WF_vars(\E t \in TaskIds : Recover(t))
    /\ \A f \in Files : WF_vars(ProviderSettles(f))

FairSpec == Spec /\ Fairness

=============================================================================
