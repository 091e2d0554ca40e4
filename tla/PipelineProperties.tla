------------------------- MODULE PipelineProperties -------------------------
(* What the pipeline must do, and what the repository says it does.         *)
EXTENDS Pipeline

-----------------------------------------------------------------------------
(* Safety. *)

UploadedStatuses ==
    Statuses \ {"NONE", "PENDING", "FAILED", "PROVIDER_PROCESSING", "GONE"}
AnalyzedStatuses == {"READY_FOR_EMBEDDING", "EMBEDDING", "MANUAL_EMBEDDING", "COMPLETED"}
EmbeddedStatuses == {"MANUAL_EMBEDDING", "COMPLETED"}

\* A status never claims more than the shared state can back, whatever runs
\* twice, dies or expires: past the upload the row has a file id, from
\* READY_FOR_EMBEDDING on a manifest exists, and a job that is COMPLETED (or
\* being re-embedded) has its scenes in video_scene; and no evidence appears
\* before the evidence it is made from.
Entitled(s, j) ==
    /\ s \in UploadedStatuses => file[j] # NoFile
    /\ s \in AnalyzedStatuses => manifest[j] # "none"
    /\ s \in EmbeddedStatuses => j \in stored

EvidenceInOrder(j) ==
    /\ manifest[j] # "none" => file[j] # NoFile
    /\ j \in stored => manifest[j] # "none"

StatusIsBacked == \A j \in Jobs : EvidenceInOrder(j) /\ Entitled(status[j], j)

\* A task never outruns the row it is about: every check-state and analyze
\* task in Redis is for a job whose row, unless it has been deleted, names a file
\* (so the handlers' branch for a missing file id is never taken), every embed
\* task is for a job with a manifest.
Backed(type, j) ==
    /\ status[j] # "NONE"
    /\ type \in {"state", "analyze"} => file[j] # NoFile \/ status[j] = "GONE"
    /\ type = "embed" => manifest[j] # "none"

TaskIsBacked ==
    \A t \in TaskIds :
        tasks[t].state # "free" => /\ tasks[t].job \in Jobs
                                   /\ Backed(tasks[t].type, tasks[t].job)

\* A handler reaches a call only when what it builds on is in place: the pcs of
\* its kind are the only ones it takes, a run about to announce a stage or to
\* enqueue the next one has produced its evidence, and no run starts to embed a
\* job without a manifest or to re-embed one whose scenes were never stored.
EmbedderPcs == {"get", "embedding", "reembedding", "load", "embed", "store",
                "complete", "mark", "markQuiet"}
PcsOf == [ingest |-> {"enqueue"},
          upload |-> {"get", "upload", "uploaded", "enqueue", "mark"},
          state |-> {"get", "poll", "activate", "enqueue", "markQuiet"},
          analyze |-> {"get", "analyzing", "generate", "truncate", "write", "ready",
                       "enqueue", "mark", "markQuiet"},
          embed |-> EmbedderPcs,
          manual |-> EmbedderPcs]

Prepared(run) ==
    /\ run.kind \in DOMAIN PcsOf /\ run.job \in Jobs
    /\ run.pc \in PcsOf[run.kind] \cup {"nil", "err"}
    /\ Backed(run.kind, run.job)
    /\ run.kind \in {"state", "analyze"} /\ run.pc \notin {"get", "nil", "err"}
         => file[run.job] # NoFile
    /\ run.pc = "uploaded" => run.file # NoFile
    /\ run.pc = "enqueue"
         => run.kind \in DOMAIN NextType /\ Backed(NextType[run.kind], run.job)
    /\ run.pc \in {"write", "ready", "embedding", "load", "embed", "store"}
         => manifest[run.job] # "none"
    /\ run.pc \in {"complete", "reembedding"}
         => run.job \in stored /\ manifest[run.job] # "none"

RunIsBacked == \A r \in Runs : runs[r] # IdleRun => Prepared(runs[r])

\* Asynq's side of a delivery: while a run holds a task, the task is active in
\* Redis, is the one the handler was started for, and is held by no other run;
\* so a task is never settled twice for one delivery, nor settled by a run that
\* lost it.
LeaseIsExclusive ==
    \A r \in Runs :
        LET t == runs[r].task IN
        t # NoTask =>
            /\ tasks[t].state = "active"
            /\ tasks[t].type = runs[r].kind /\ tasks[t].job = runs[r].job
            /\ \A s \in Runs \ {r} : runs[s].task # t

InFlight(j) == \E t \in TaskIds : tasks[t].state # "free" /\ tasks[t].job = j

GivenUp(j) == j \in unmarked \/ \E type \in TaskTypes : <<type, j>> \in archived

QueueDriven == {"PENDING", "UPLOADED_TO_PROVIDER", "READY_FOR_ANALYSIS",
                "ANALYZING", "READY_FOR_EMBEDDING"}

\* No job is lost without a trace: while an accepted job is in a status that a
\* task should move on, Asynq holds a task for it or has archived one, or a
\* handler dropped the job after its FAILED update failed.  (The two embedding
\* statuses are not in the list: see EmbeddingEnds.)
NoSilentLoss ==
    \A j \in accepted : status[j] \in QueueDriven => InFlight(j) \/ GivenUp(j)

\* As long as no message is repeated (no crash, no expired context, no lost
\* reply of Redis) the stages of a job follow one another: of two workers with
\* the same job one has nothing left to do but to acknowledge its task.
StagesDoNotOverlap ==
    \A v, w \in Workers :
        v # w /\ runs[v].job = runs[w].job /\ runs[v] # IdleRun
        => "nil" \in {runs[v].pc, runs[w].pc}

\* ... and whoever embeds opens a manifest that has been written to its end, also
\* when it has been edited and analyzed again in between, with one exception.  When
\* the reply to READY_FOR_EMBEDDING is lost the analysis is retried and truncates
\* the file again; no embed task has been enqueued by then, but a re-embed request
\* acts on the status alone.  So a request, and only a request, may find a manifest
\* half written, while Asynq still has the analysis to finish or has given it up.
AnalysisUnfinished(j) ==
    \/ \E t \in TaskIds :
          tasks[t].state # "free" /\ tasks[t].type = "analyze" /\ tasks[t].job = j
    \/ <<"analyze", j>> \in archived

OnlyRequestsReadTorn ==
    \A r \in Runs :
        LET j == runs[r].job IN
        runs[r].pc = "load" =>
            \/ manifest[j] \notin {"none", "torn"}
            \/ runs[r].kind = "manual" /\ manifest[j] = "torn" /\ AnalysisUnfinished(j)

\* No analysis begins before the provider has finished with a file of the job,
\* however often uploader and state checker are delivered: a status past the state
\* check, a task of the later stages and a manifest each rest on an ACTIVE file,
\* the one the row names or one that the row of a job named until a second upload
\* replaced its id (or that was uploaded in vain), so that nobody holds it now.
Lost(f) ==
    /\ \A j \in Jobs : file[j] # f
    /\ \A r \in Runs : runs[r].file = f => runs[r].pc # "uploaded"

FileReady(j) ==
    \E f \in Files : provider[f] = "ACTIVE" /\ (f = file[j] \/ Lost(f))

CheckedStatuses == UploadedStatuses \ {"UPLOADED_TO_PROVIDER"}

AnalysisFollowsActivation ==
    /\ \A j \in Jobs : status[j] \in CheckedStatuses \/ manifest[j] # "none"
                       => FileReady(j)
    /\ \A t \in TaskIds :
          tasks[t].state # "free" /\ tasks[t].type \in {"analyze", "embed"}
          => FileReady(tasks[t].job)

\* The pipeline implements the life cycle of Lifecycle.tla.
Job == INSTANCE Lifecycle WITH
    uploaded <- {j \in Jobs : file[j] # NoFile},
    analyzed <- {j \in Jobs : manifest[j] # "none"},
    embedded <- stored

ImplementsLifecycle == Job!Spec

-----------------------------------------------------------------------------
(* Liveness, under FairSpec. *)

\* Retries end: whatever crashes and fails, the work on a job comes to an end,
\* with no task left to deliver (manual re-embeds may go on for ever).
QueueDrains == \A j \in Jobs : <>[]~InFlight(j)

\* An accepted job comes to rest: COMPLETED or FAILED, or given up (its state
\* check may have used up its retries while the file was processing), or deleted
\* with its video, or left by a dead embedder in a status nothing gets it out of
\* (see EmbeddingEnds).
Abandoned == {"EMBEDDING", "MANUAL_EMBEDDING"}

AcceptedJobEnds ==
    \A j \in Jobs :
        j \in accepted ~> [](\/ status[j] \in {"COMPLETED", "FAILED", "GONE"} \cup Abandoned
                            \/ GivenUp(j))

-----------------------------------------------------------------------------
(* Statements of the repository that the code does not keep. *)

\* README.md:48: COMPLETED is the end of the life cycle: ingestion does not
\* take a completed job back (re-embedding and failing it may).
CompletedStaysIngested ==
    [][\A j \in Jobs : status[j] = "COMPLETED"
          => status'[j] \in {"COMPLETED", "MANUAL_EMBEDDING", "FAILED"}]_vars

\* README.md:48 and 52: a job that is EMBEDDING becomes COMPLETED or FAILED.
EmbeddingEnds ==
    \A j \in Jobs : status[j] = "EMBEDDING" ~> status[j] # "EMBEDDING"

\* embedder.go:241: "failJob sets the job status to FAILED and returns a
\* formatted error": a run of the embedder that gives up has marked its job.
FailJobMarksFailed ==
    [][\A r \in Runs :
          /\ runs[r].kind \in {"embed", "manual"}
          /\ runs[r].pc = "mark" /\ runs'[r].pc = "err"
          => status'[runs[r].job] = "FAILED"]_vars

=============================================================================
