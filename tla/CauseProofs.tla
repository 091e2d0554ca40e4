----------------------------- MODULE CauseProofs -----------------------------
(***************************************************************************)
(* Why a job fails.  If the database, the provider and the disk answer and *)
(* nobody edits a manifest, two accidents are left that can fail a job     *)
(* whose file the provider has accepted: its file id is replaced by that   *)
(* of a second upload, or somebody reads a manifest while it is half       *)
(* written.  This holds for any number of jobs, workers, requests, tasks   *)
(* and retries; processes may die, contexts may be cancelled, replies of   *)
(* Redis may be lost and videos may be deleted.                            *)
(* And, under every fault: what an analysis rests on (the last section).   *)
(***************************************************************************)
EXTENDS SequenceProofs

CallsAnswered == Faults \cap {"db", "gemini", "disk", "edit"} = {}

\* The two accidents.
FileIdKept == \A j \in Jobs : file[j] # NoFile => file'[j] = file[j]

ReadsWhole == \A r \in Runs : runs[r].pc = "load" => manifest[runs[r].job] # "torn"

Rejected(j) == file[j] # NoFile /\ provider[file[j]] = "FAILED"
Processed(j) == file[j] # NoFile /\ provider[file[j]] = "ACTIVE"

\* A job is failed only because the provider could not process its file.
FailedForCause == \A j \in Jobs : status[j] = "FAILED" => Rejected(j)

\* What a handler knows of the file, and why it is about to mark its job.
Justified(run) ==
    /\ run.kind = "state" =>
          /\ run.pc = "poll" => run.file = file[run.job]
          /\ run.pc \in {"activate", "enqueue"} => Processed(run.job)
          /\ run.pc = "markQuiet" => Rejected(run.job)
    /\ run.kind = "analyze" =>
          /\ Processed(run.job)
          /\ run.pc \in {"analyzing", "generate"} => run.file = file[run.job]
    /\ run.kind # "state" => run.pc # "markQuiet"
    /\ run.pc = "mark" => ~run.live \/ status[run.job] = "GONE"

CauseInv ==
    /\ FailedForCause
    /\ \A j \in Jobs : manifest[j] \in {"none", "torn", "whole"}
    /\ \A t \in TaskIds :
          tasks[t].state # "free" /\ tasks[t].type = "analyze" => Processed(tasks[t].job)
    /\ \A r \in Runs : Justified(runs[r])

-----------------------------------------------------------------------------
(* What a step leaves as it was. *)

\* What is known of a job stays true: its file, the provider's verdict, and that
\* it has been deleted.
Kept ==
    \A j \in Jobs :
        /\ file[j] # NoFile => file'[j] = file[j]
        /\ Processed(j) => Processed(j)'
        /\ Rejected(j) => Rejected(j)'
        /\ status[j] = "GONE" => status'[j] = "GONE"

\* The provider does not change its mind about a file.
LEMMA VerdictKept ==
    ASSUME Inv, [Next]_vars, NEW f \in Files, provider[f] \in {"ACTIVE", "FAILED"}
    PROVE  provider'[f] = provider[f]
<1>1. CASE UNCHANGED provider
  BY <1>1
<1>2. ASSUME NEW r \in Runs, UploadFile(r) PROVE provider'[f] = provider[f]
  BY <1>2 DEF UploadFile, Uploaded, Inv, TypeOK
<1>3. ASSUME NEW g \in Files, ProviderSettles(g) PROVE provider'[f] = provider[f]
  BY <1>3 DEF ProviderSettles, Inv, TypeOK
<1>4. ASSUME NEW r \in Runs, Step(r), ~UploadFile(r) PROVE UNCHANGED provider
  BY <1>4 DEF Step, Enqueue, MarkFailed, MarkFailedQuietly, Settle, GetJob, UpdateJobAfterUpload,
              PollFileState, Activate, BeginAnalysis, GenerateMetadata, TruncateManifest,
              WriteManifest, FinishAnalysis, BeginEmbedding, BeginReembedding, LoadManifest,
              EmbedScenes, StoreScenes, Complete, SetStatus
<1> QED
  BY <1>1, <1>2, <1>3, <1>4
  DEF Next, vars, StartIngestion, Reembed, Dequeue, Expire, Crash, Recover, EditManifest,
      DeleteVideo

LEMMA GoneKept ==
    ASSUME Inv, [Next]_vars, NEW j \in Jobs, status[j] = "GONE"
    PROVE  status'[j] = "GONE"
<1>1. ASSUME NEW r, NEW next, NEW ok, NEW failed, UpdateJobStatus(r, next, ok, failed)
      PROVE  status'[j] = "GONE"
  BY <1>1 DEF UpdateJobStatus, Updated, Inv, TypeOK
<1>2. ASSUME NEW r \in Runs, Step(r) PROVE status'[j] = "GONE"
  <2>1. CASE \/ MarkFailed(r) \/ MarkFailedQuietly(r) \/ Activate(r) \/ BeginAnalysis(r)
             \/ FinishAnalysis(r) \/ BeginEmbedding(r) \/ BeginReembedding(r) \/ Complete(r)
    BY <1>1, <2>1 DEF MarkFailed, MarkFailedQuietly, Activate, BeginAnalysis, FinishAnalysis,
                      BeginEmbedding, BeginReembedding, Complete, SetStatus
  <2>2. CASE UpdateJobAfterUpload(r)
    BY <2>2 DEF UpdateJobAfterUpload, Updated, Inv, TypeOK
  <2>3. CASE \/ Enqueue(r) \/ Settle(r) \/ GetJob(r) \/ UploadFile(r) \/ PollFileState(r)
             \/ GenerateMetadata(r) \/ TruncateManifest(r) \/ WriteManifest(r)
             \/ LoadManifest(r) \/ EmbedScenes(r) \/ StoreScenes(r)
    BY <2>3 DEF Enqueue, Settle, GetJob, UploadFile, PollFileState, GenerateMetadata,
                TruncateManifest, WriteManifest, LoadManifest, EmbedScenes, StoreScenes
  <2> QED BY <1>2, <2>1, <2>2, <2>3 DEF Step
<1>3. ASSUME NEW r \in Ingesters, NEW i \in Jobs, StartIngestion(r, i)
      PROVE  status'[j] = "GONE"
  BY <1>3 DEF StartIngestion, Inv, TypeOK
<1>4. ASSUME NEW i \in Jobs, DeleteVideo(i) PROVE status'[j] = "GONE"
  BY <1>4 DEF DeleteVideo, Inv, TypeOK
<1> QED
  BY <1>2, <1>3, <1>4
  DEF Next, vars, Reembed, Dequeue, Expire, Crash, Recover, ProviderSettles, EditManifest

LEMMA NextKeeps == ASSUME Inv, [Next]_vars, FileIdKept PROVE Kept
<1> SUFFICES ASSUME NEW j \in Jobs
             PROVE  /\ file[j] # NoFile => file'[j] = file[j]
                    /\ Processed(j) => Processed(j)'
                    /\ Rejected(j) => Rejected(j)'
                    /\ status[j] = "GONE" => status'[j] = "GONE"
  BY DEF Kept
<1>1. file[j] # NoFile => file[j] \in Files /\ file'[j] = file[j]
  BY DEF FileIdKept, Inv, TypeOK
<1> QED BY <1>1, VerdictKept, GoneKept DEF Processed, Rejected

\* What one run knows of its job, no other run refutes.
LEMMA OthersJustified ==
    ASSUME Inv, Kept, NEW s \in Runs, Justified(runs[s]), runs'[s] = runs[s]
    PROVE  Justified(runs[s])'
<1>1. CASE runs[s].pc = "idle"
  BY <1>1 DEF Justified, Inv, TypeOK, RunIsBacked, Prepared, PcsOf, IdleRun, EmbedderPcs
<1>2. CASE runs[s].pc # "idle"
  <2>1. Prepared(runs[s]) /\ runs[s].job \in Jobs
    BY <1>2, RunAtCall
  <2> QED BY <2>1 DEF Justified, Kept, Prepared
<1> QED BY <1>1, <1>2

-----------------------------------------------------------------------------
(* The steps of a handler. *)

\* A status update is applied under a live context only, and one that may fail
\* has lost its context.
LEMMA UpdateCause ==
    ASSUME CallsAnswered, NEW r, NEW next, NEW ok, NEW failed,
           UpdateJobStatus(r, next, ok, failed)
    PROVE  \/ runs[r].live /\ status' = Updated(runs[r].job, next) /\ Goto(r, ok)
           \/ ~runs[r].live /\ UNCHANGED status /\ Goto(r, failed)
BY DEF UpdateJobStatus, CanFail, CallsAnswered

\* The calls of which Justified says nothing.
Carefree == {"upload", "uploaded", "truncate", "write", "ready", "embedding",
             "reembedding", "load", "embed", "store", "complete", "nil", "err"}

LEMMA CarefreeJustified ==
    ASSUME Inv, Kept, NEW r \in Runs, runs[r].pc # "idle", Justified(runs[r]),
           NEW pc \in Carefree, Arrives(r, pc)
    PROVE  Justified(runs[r])'
<1>1. runs[r].job \in Jobs
  BY RunAtCall
<1>2. Moves(r) /\ runs'[r].pc = pc
  BY ArrivesMoves
<1> QED BY <1>1, <1>2 DEF Justified, Carefree, Kept, Moves

\* A run is about to mark its job, because its context is gone, or the row is.
LEMMA MarkJustified ==
    ASSUME Inv, Kept, NEW r \in Runs, runs[r].pc # "idle", Justified(runs[r]),
           Arrives(r, "mark"), ~runs[r].live \/ status[runs[r].job] = "GONE"
    PROVE  Justified(runs[r])'
<1>1. runs[r].job \in Jobs
  BY RunAtCall
<1>2. Moves(r) /\ runs'[r].pc = "mark"
  BY ArrivesMoves
<1> QED BY <1>1, <1>2 DEF Justified, Kept, Moves

\* The state checker and the analyzer go by the file they have read.
LEMMA GetJustified ==
    ASSUME Inv, Kept, CallsAnswered, NEW r \in Runs, Justified(runs[r]), GetJob(r)
    PROVE  Justified(runs[r])'
<1> DEFINE j == runs[r].job
           kind == runs[r].kind
<1>1. runs[r].pc = "get" /\ UNCHANGED <<file, provider, status>>
  BY DEF GetJob
<1>2. runs[r] \in RunSet /\ Prepared(runs[r]) /\ j \in Jobs
  BY <1>1, RunAtCall
<1>3. CASE Goto(r, "err")
  BY <1>1, <1>3, CarefreeJustified DEF Arrives, Carefree
<1>4. CASE /\ status[j] # "GONE"
           /\ runs' = [runs EXCEPT ![r].pc = AfterGet(kind, j),
                                  ![r].file = IF kind \in {"state", "analyze"}
                                              THEN file[j] ELSE NoFile]
  <2>1. Arrives(r, AfterGet(kind, j))
    BY <1>4 DEF Arrives
  <2>2. Moves(r) /\ runs'[r].pc = AfterGet(kind, j)
    BY <2>1, ArrivesMoves
  <2>3. kind \in {"state", "analyze"} => file[j] # NoFile /\ runs'[r].file = file[j]
    BY <1>2, <1>4 DEF Prepared, Backed, Inv, TypeOK
  <2>4. CASE kind \in {"state", "analyze"}
    <3>1. AfterGet(kind, j) = IF kind = "state" THEN "poll" ELSE "analyzing"
      BY <2>3, <2>4 DEF AfterGet
    <3> QED BY <1>1, <1>2, <2>2, <2>3, <2>4, <3>1 DEF Justified, Moves, Processed
  <2>5. CASE kind \notin {"state", "analyze"}
    <3>1. AfterGet(kind, j) \in Carefree
      BY <2>5 DEF AfterGet, Carefree
    <3> QED BY <1>1, <2>1, <3>1, CarefreeJustified
  <2> QED BY <2>4, <2>5
<1> QED BY <1>3, <1>4 DEF GetJob

LEMMA PollJustified ==
    ASSUME Inv, Kept, CallsAnswered, NEW r \in Runs, Justified(runs[r]), PollFileState(r)
    PROVE  Justified(runs[r])'
<1> DEFINE j == runs[r].job
<1>1. runs[r].pc = "poll" /\ UNCHANGED <<file, provider, status>>
  BY DEF PollFileState
<1>2. Prepared(runs[r]) /\ j \in Jobs
  BY <1>1, RunAtCall
<1>3. runs[r].kind = "state" /\ file[j] # NoFile /\ runs[r].file = file[j]
  BY <1>1, <1>2 DEF Prepared, PcsOf, EmbedderPcs, Justified
<1>4. PICK pc \in {"activate", "markQuiet", "err"} :
         /\ runs' = [runs EXCEPT ![r].file = NoFile, ![r].pc = pc]
         /\ pc = "activate" => provider[file[j]] = "ACTIVE"
         /\ pc = "markQuiet" => provider[file[j]] = "FAILED"
  BY <1>3 DEF PollFileState, FileState
<1>5. Arrives(r, pc)
  BY <1>4 DEF Arrives
<1>6. CASE pc = "err"
  BY <1>1, <1>5, <1>6, CarefreeJustified DEF Carefree
<1>7. CASE pc # "err"
  <2>1. Moves(r) /\ runs'[r].pc = pc
    BY <1>5, ArrivesMoves
  <2> QED BY <1>1, <1>3, <1>4, <1>7, <2>1 DEF Justified, Moves, Processed, Rejected
<1> QED BY <1>6, <1>7

\* The provider answers for a file it has processed.
LEMMA GenerateJustified ==
    ASSUME Inv, Kept, CallsAnswered, NEW r \in Runs, Justified(runs[r]), GenerateMetadata(r)
    PROVE  Justified(runs[r])'
<1>1. runs[r].pc = "generate"
  BY DEF GenerateMetadata
<1>2. Prepared(runs[r])
  BY <1>1, RunAtCall
<1>3. runs[r].kind = "analyze"
  BY <1>1, <1>2 DEF Prepared, PcsOf, EmbedderPcs
<1>4. provider[runs[r].file] = "ACTIVE"
  BY <1>1, <1>3 DEF Justified, Processed
<1>5. \/ Arrives(r, "truncate")
      \/ Arrives(r, "mark") /\ ~runs[r].live
  BY <1>4 DEF GenerateMetadata, CanFail, CallsAnswered, Arrives
<1> QED BY <1>1, <1>5, CarefreeJustified, MarkJustified DEF Carefree

\* Status updates that are followed by a call of which something is known.
LEMMA AnnounceJustified ==
    ASSUME Inv, Kept, CallsAnswered, NEW r \in Runs, Justified(runs[r]),
           Activate(r) \/ BeginAnalysis(r) \/ FinishAnalysis(r)
    PROVE  Justified(runs[r])'
<1>1. /\ runs[r].pc \in {"activate", "analyzing", "ready"}
      /\ \/ Arrives(r, "err")
         \/ Arrives(r, IF runs[r].pc = "analyzing" THEN "generate" ELSE "enqueue")
      /\ UNCHANGED <<file, provider>>
  BY UpdateCause DEF Activate, BeginAnalysis, FinishAnalysis, SetStatus, Arrives
<1>2. Prepared(runs[r]) /\ runs[r].job \in Jobs
  BY <1>1, RunAtCall
<1>3. CASE Arrives(r, "err")
  BY <1>1, <1>3, CarefreeJustified DEF Carefree
<1>4. CASE Arrives(r, IF runs[r].pc = "analyzing" THEN "generate" ELSE "enqueue")
  <2>1. /\ Moves(r)
        /\ runs'[r].pc = IF runs[r].pc = "analyzing" THEN "generate" ELSE "enqueue"
    BY <1>4, ArrivesMoves
  <2>2. runs[r].kind = IF runs[r].pc = "activate" THEN "state" ELSE "analyze"
    BY <1>1, <1>2 DEF Prepared, PcsOf, EmbedderPcs
  <2>3. runs'[r].pc = "generate" => runs'[r].file = runs[r].file
    BY <1>1, <1>2, <2>1, <2>2 DEF BeginAnalysis, Activate, FinishAnalysis, SetStatus, UpdateJobStatus,
       Goto, Inv, TypeOK
  <2> QED BY <1>1, <1>2, <2>1, <2>2, <2>3 DEF Justified, Moves, Processed
<1> QED BY <1>1, <1>3, <1>4

LEMMA HandlerJustified ==
    ASSUME Inv, CauseInv, Kept, CallsAnswered, ReadsWhole, NEW r \in Runs, HandlerStep(r)
    PROVE  Justified(runs[r])'
<1>1. Justified(runs[r])
  BY DEF CauseInv
<1>2. CASE GetJob(r) \/ PollFileState(r) \/ GenerateMetadata(r)
  BY <1>1, <1>2, GetJustified, PollJustified, GenerateJustified
<1>3. CASE Activate(r) \/ BeginAnalysis(r) \/ FinishAnalysis(r)
  BY <1>1, <1>3, AnnounceJustified
<1>4. CASE \/ MarkFailed(r) \/ MarkFailedQuietly(r) \/ BeginEmbedding(r)
           \/ BeginReembedding(r) \/ Complete(r)
  <2>1. runs[r].pc # "idle" /\ \E pc \in Carefree : Arrives(r, pc)
    BY <1>4, UpdateCause
    DEF MarkFailed, MarkFailedQuietly, BeginEmbedding, BeginReembedding, Complete, SetStatus,
        Arrives, Carefree
  <2> QED BY <1>1, <2>1, CarefreeJustified
<1>5. CASE UploadFile(r) \/ EmbedScenes(r) \/ StoreScenes(r)
  <2>1. /\ runs[r].pc # "idle"
        /\ \/ \E pc \in Carefree : Arrives(r, pc)
           \/ Arrives(r, "mark") /\ (~runs[r].live \/ status[runs[r].job] = "GONE")
    BY <1>5
    DEF UploadFile, EmbedScenes, StoreScenes, CanFail, CallsAnswered, Arrives, Carefree
  <2> QED BY <1>1, <2>1, CarefreeJustified, MarkJustified
<1>6. CASE TruncateManifest(r) \/ WriteManifest(r)
  <2>1. runs[r].pc # "idle" /\ \E pc \in Carefree : Arrives(r, pc)
    BY <1>6 DEF TruncateManifest, WriteManifest, CallsAnswered, Arrives, Carefree
  <2> QED BY <1>1, <2>1, CarefreeJustified
<1>7. CASE UpdateJobAfterUpload(r)
  <2>1. runs[r].pc = "uploaded" /\ \E pc \in {"enqueue", "err"} : Arrives(r, pc)
    BY <1>7 DEF UpdateJobAfterUpload, CallsAnswered, Arrives
  <2>2. Moves(r) /\ runs'[r].pc \in {"enqueue", "err"}
    BY <2>1, ArrivesMoves
  <2>3. runs[r].kind = "upload"
    BY <2>1, RunAtCall DEF Prepared, PcsOf, EmbedderPcs
  <2> QED BY <2>2, <2>3 DEF Justified, Moves
<1>8. CASE LoadManifest(r)
  <2>1. runs[r].pc = "load"
    BY <1>8 DEF LoadManifest
  <2>2. Prepared(runs[r]) /\ runs[r].job \in Jobs
    BY <2>1, RunAtCall
  <2>3. manifest[runs[r].job] = "whole"
    BY <2>1, <2>2 DEF Prepared, CauseInv, ReadsWhole
  <2>4. Arrives(r, "embed")
    BY <1>8, <2>3 DEF LoadManifest, CallsAnswered, Arrives
  <2> QED BY <1>1, <2>1, <2>4, CarefreeJustified DEF Carefree
<1> QED BY <1>2, <1>3, <1>4, <1>5, <1>6, <1>7, <1>8 DEF HandlerStep

-----------------------------------------------------------------------------
(* Every step, conjunct by conjunct. *)

\* A job becomes FAILED only when its file has been rejected.
LEMMA StatusCause ==
    ASSUME Inv, CauseInv, CallsAnswered, NEW j \in Jobs, [Next]_vars,
           status'[j] = "FAILED", status[j] # "FAILED"
    PROVE  Rejected(j)
<1>1. ASSUME NEW r \in Runs, NEW next, NEW ok, NEW failed,
             UpdateJobStatus(r, next, ok, failed)
      PROVE  next = "FAILED" /\ runs[r].job = j /\ runs[r].live /\ status[j] # "GONE"
  <2>1. runs[r].live /\ status' = Updated(runs[r].job, next)
    BY <1>1, UpdateCause
  <2> QED BY <2>1 DEF Updated, Inv, TypeOK
<1>2. ASSUME NEW r \in Runs, Step(r) PROVE Rejected(j)
  <2>1. CASE MarkFailed(r)
    <3>1. runs[r].job = j /\ runs[r].live /\ status[j] # "GONE" /\ runs[r].pc = "mark"
      BY <1>1, <2>1 DEF MarkFailed, SetStatus
    <3> QED BY <3>1 DEF CauseInv, Justified
  <2>2. CASE MarkFailedQuietly(r)
    <3>1. runs[r].job = j /\ runs[r].pc = "markQuiet"
      BY <1>1, <2>2 DEF MarkFailedQuietly
    <3> QED BY <3>1 DEF CauseInv, Justified
  <2>3. CASE \/ Activate(r) \/ BeginAnalysis(r) \/ FinishAnalysis(r) \/ BeginEmbedding(r)
             \/ BeginReembedding(r) \/ Complete(r)
    BY <1>1, <2>3 DEF Activate, BeginAnalysis, FinishAnalysis, BeginEmbedding,
                      BeginReembedding, Complete, SetStatus
  <2>4. CASE UpdateJobAfterUpload(r)
    BY <2>4 DEF UpdateJobAfterUpload, Updated, Inv, TypeOK
  <2>5. CASE \/ Enqueue(r) \/ Settle(r) \/ GetJob(r) \/ UploadFile(r) \/ PollFileState(r)
             \/ GenerateMetadata(r) \/ TruncateManifest(r) \/ WriteManifest(r)
             \/ LoadManifest(r) \/ EmbedScenes(r) \/ StoreScenes(r)
    BY <2>5 DEF Enqueue, Settle, GetJob, UploadFile, PollFileState, GenerateMetadata,
                TruncateManifest, WriteManifest, LoadManifest, EmbedScenes, StoreScenes
  <2> QED BY <1>2, <2>1, <2>2, <2>3, <2>4, <2>5 DEF Step
<1>3. ASSUME NEW r \in Ingesters, NEW i \in Jobs, StartIngestion(r, i) PROVE Rejected(j)
  BY <1>3 DEF StartIngestion, Inv, TypeOK
<1>4. ASSUME NEW i \in Jobs, DeleteVideo(i) PROVE Rejected(j)
  BY <1>4 DEF DeleteVideo, Inv, TypeOK
<1> QED
  BY <1>2, <1>3, <1>4
  DEF Next, vars, Reembed, Dequeue, Expire, Crash, Recover, ProviderSettles, EditManifest

\* Nobody but the analyzer writes a manifest.
LEMMA ManifestCause ==
    ASSUME Inv, CauseInv, CallsAnswered, NEW j \in Jobs, [Next]_vars
    PROVE  manifest'[j] \in {"none", "torn", "whole"}
<1>1. ASSUME NEW r \in Runs, TruncateManifest(r) \/ WriteManifest(r)
      PROVE  manifest'[j] \in {"none", "torn", "whole"}
  <2>1. \/ UNCHANGED manifest
        \/ \E m \in {"torn", "whole"} : manifest' = [manifest EXCEPT ![runs[r].job] = m]
    BY <1>1 DEF TruncateManifest, WriteManifest
  <2> QED BY <2>1 DEF CauseInv, Inv, TypeOK
<1>2. ASSUME NEW r \in Runs, Step(r), ~(TruncateManifest(r) \/ WriteManifest(r))
      PROVE  UNCHANGED manifest
  BY <1>2 DEF Step, Enqueue, MarkFailed, MarkFailedQuietly, Settle, GetJob, UploadFile,
              UpdateJobAfterUpload, PollFileState, Activate, BeginAnalysis, GenerateMetadata,
              FinishAnalysis, BeginEmbedding, BeginReembedding, LoadManifest, EmbedScenes,
              StoreScenes, Complete, SetStatus
<1>3. \A i \in Jobs : ~EditManifest(i)
  BY DEF EditManifest, CallsAnswered
<1> QED
  BY <1>1, <1>2, <1>3
  DEF CauseInv, Next, vars, StartIngestion, Reembed, Dequeue, Expire, Crash, Recover,
      ProviderSettles, DeleteVideo

\* A task that is not created now has been there, for the same job.
LEMMA SameTasks ==
    ASSUME Known, [Next]_vars, \A r \in Runs : ~Enqueue(r), NEW t \in TaskIds,
           tasks'[t].state # "free"
    PROVE  /\ tasks[t].state # "free"
           /\ tasks'[t].type = tasks[t].type /\ tasks'[t].job = tasks[t].job
<1>1. ASSUME NEW u \in TaskIds, Ack(u) \/ Nack(u), tasks[u].state # "free"
      PROVE  /\ tasks[t].state # "free"
             /\ tasks'[t].type = tasks[t].type /\ tasks'[t].job = tasks[t].job
  <2>1. CASE Ack(u)
    BY <1>1, <2>1 DEF Ack, Known, Inv, TypeOK, FreeTask
  <2>2. CASE Nack(u)
    BY <1>1, <2>2, NackKeepsTasks
  <2> QED BY <1>1, <2>1, <2>2
<1>2. ASSUME NEW r \in Runs, Settle(r), ~UNCHANGED tasks
      PROVE  /\ tasks[t].state # "free"
             /\ tasks'[t].type = tasks[t].type /\ tasks'[t].job = tasks[t].job
  <2>1. runs[r].task # NoTask /\ (Ack(runs[r].task) \/ Nack(runs[r].task))
    BY <1>2 DEF Settle
  <2>2. runs[r].task \in TaskIds /\ tasks[runs[r].task].state = "active"
    BY <2>1 DEF Known, Inv, TypeOK, LeaseIsExclusive
  <2> QED BY <1>1, <2>1, <2>2
<1>3. ASSUME NEW r \in Runs, HandlerStep(r) PROVE UNCHANGED tasks
  BY <1>3, HandlerHolds DEF Known, Inv
<1>4. ASSUME NEW w \in Workers, NEW u \in TaskIds, Dequeue(w, u)
      PROVE  /\ tasks[t].state # "free"
             /\ tasks'[t].type = tasks[t].type /\ tasks'[t].job = tasks[t].job
  BY <1>4 DEF Dequeue, Known, Inv, TypeOK
<1>5. ASSUME NEW u \in TaskIds, Recover(u)
      PROVE  /\ tasks[t].state # "free"
             /\ tasks'[t].type = tasks[t].type /\ tasks'[t].job = tasks[t].job
  BY <1>1, <1>5 DEF Recover
<1>6. ASSUME NEW r \in Runs, Step(r) PROVE HandlerStep(r) \/ Settle(r)
  BY <1>6 DEF Step, HandlerStep
<1> QED
  BY <1>2, <1>3, <1>4, <1>5, <1>6
  DEF Next, vars, StartIngestion, Reembed, Expire, Crash, ProviderSettles, EditManifest,
      DeleteVideo

\* An analyze task is created by the state checker, when it knows of the file.
LEMMA TaskCause ==
    ASSUME Known, CauseInv, Kept, [Next]_vars, NEW t \in TaskIds,
           tasks'[t].state # "free", tasks'[t].type = "analyze"
    PROVE  Processed(tasks[t].job)'
<1>1. CASE \A r \in Runs : ~Enqueue(r)
  <2>1. /\ tasks[t].state # "free"
        /\ tasks'[t].type = tasks[t].type /\ tasks'[t].job = tasks[t].job
    BY <1>1, SameTasks
  <2>2. tasks[t].job \in Jobs
    BY <2>1 DEF Known, Inv, TaskIsBacked
  <2>3. Processed(tasks[t].job) /\ file[tasks[t].job] = file'[tasks[t].job]
    BY <2>1, <2>2 DEF CauseInv, Kept, Processed
  <2> QED BY <2>1, <2>2, <2>3 DEF Kept, Processed
<1>2. ASSUME NEW r \in Runs, Enqueue(r) PROVE Processed(tasks[t].job)'
  <2>1. runs[r].pc = "enqueue" /\ UNCHANGED <<file, provider>>
    BY <1>2 DEF Enqueue
  <2>2. Prepared(runs[r]) /\ runs[r].kind \in DOMAIN NextType
    BY <2>1, RunAtCall DEF Known, Prepared
  <2>3. CASE UNCHANGED tasks
    BY <2>1, <2>3 DEF CauseInv, Processed
  <2>4. ASSUME NEW u \in TaskIds, AddTask(r, u) PROVE Processed(tasks[t].job)'
    <3>1. /\ tasks'[u].type = NextType[runs[r].kind] /\ tasks'[u].job = runs[r].job
          /\ u # t => tasks'[t] = tasks[t]
      BY <2>4 DEF AddTask, Known, Inv, TypeOK
    <3>2. CASE u # t
      BY <2>1, <3>1, <3>2 DEF CauseInv, Processed
    <3>3. CASE u = t
      <4>1. runs[r].kind = "state"
        BY <2>2, <3>1, <3>3 DEF NextType
      <4>2. Processed(runs[r].job)
        BY <2>1, <4>1 DEF CauseInv, Justified
      <4> QED BY <2>1, <3>1, <3>3, <4>2 DEF Processed
    <3> QED BY <3>2, <3>3
  <2> QED BY <1>2, <2>3, <2>4 DEF Enqueue
<1> QED BY <1>1, <1>2

\* A run that starts on its task or request knows what the task was created for.
LEMMA StartJustified ==
    ASSUME Known, CauseInv, Kept, NEW r \in Runs,
           \/ \E t \in TaskIds : Dequeue(r, t)
           \/ \E j \in Jobs : StartIngestion(r, j) \/ Reembed(r, j)
    PROVE  Justified(runs[r])'
<1>1. Justified(IdleRun)'
  BY DEF Justified, IdleRun
<1>2. ASSUME NEW t \in TaskIds, Dequeue(r, t) PROVE Justified(runs[r])'
  <2>1. /\ runs'[r].pc = "get" /\ runs'[r].kind = tasks[t].type /\ runs'[r].job = tasks[t].job
        /\ tasks[t].state = "ready" /\ UNCHANGED <<file, provider>>
    BY <1>2 DEF Dequeue, Known, Inv, TypeOK
  <2>2. tasks[t].type = "analyze" => Processed(tasks[t].job)
    BY <2>1 DEF CauseInv
  <2> QED BY <2>1, <2>2 DEF Justified, Processed
<1>3. ASSUME NEW j \in Jobs, StartIngestion(r, j) PROVE Justified(runs[r])'
  <2>1. UNCHANGED runs => runs'[r] = IdleRun
    BY <1>3 DEF StartIngestion
  <2>2. CASE runs' = [runs EXCEPT ![r] = [IdleRun EXCEPT !.kind = "ingest", !.job = j,
                                                        !.pc = "enqueue", !.live = TRUE]]
    <3>1. runs'[r].kind = "ingest" /\ runs'[r].pc = "enqueue"
      BY <2>2 DEF IdleRun, Known, Inv, TypeOK
    <3> QED BY <3>1 DEF Justified
  <2> QED BY <1>1, <1>3, <2>1, <2>2 DEF StartIngestion, Justified
<1>4. ASSUME NEW j \in Jobs, Reembed(r, j) PROVE Justified(runs[r])'
  <2>1. runs'[r].kind = "manual" /\ runs'[r].pc = "get"
    BY <1>4 DEF Reembed, IdleRun, Known, Inv, TypeOK
  <2> QED BY <2>1 DEF Justified
<1> QED BY <1>2, <1>3, <1>4

\* The end of a run, the loss of its context, and its enqueue.
LEMMA EndJustified ==
    ASSUME Inv, CauseInv, Kept, NEW r \in Runs,
           Settle(r) \/ Crash(r) \/ Expire(r) \/ Enqueue(r)
    PROVE  Justified(runs[r])'
<1>1. Justified(runs[r])
  BY DEF CauseInv
<1>2. CASE Settle(r) \/ Crash(r)
  BY <1>2 DEF Settle, Crash, Inv, TypeOK, Justified, IdleRun
<1>3. CASE Expire(r)
  <2>1. /\ runs'[r].kind = runs[r].kind /\ runs'[r].job = runs[r].job
        /\ runs'[r].pc = runs[r].pc /\ runs'[r].file = runs[r].file
        /\ ~runs'[r].live
        /\ UNCHANGED <<file, provider>>
    BY <1>3 DEF Expire, Inv, TypeOK
  <2> QED BY <1>1, <2>1 DEF Justified, Processed, Rejected
<1>4. CASE Enqueue(r)
  <2>1. runs[r].pc # "idle" /\ \E pc \in Carefree : Arrives(r, pc)
    BY <1>4 DEF Enqueue, Arrives, Carefree
  <2> QED BY <1>1, <2>1, CarefreeJustified
<1> QED BY <1>2, <1>3, <1>4

LEMMA RunCause ==
    ASSUME Known, CauseInv, CallsAnswered, Kept, ReadsWhole, [Next]_vars, NEW s \in Runs
    PROVE  Justified(runs[s])'
<1>1. CASE runs'[s] = runs[s]
  BY <1>1, OthersJustified DEF Known, CauseInv
<1>2. CASE runs'[s] # runs[s]
  <2>1. ASSUME NEW r \in Runs, HandlerStep(r) PROVE Justified(runs[s])'
    <3>1. runs[r].pc # "idle" /\ \E pc : Arrives(r, pc)
      <4>1. CASE TruncateManifest(r) \/ WriteManifest(r)
        BY <4>1 DEF TruncateManifest, WriteManifest, Arrives
      <4> QED BY <2>1, <4>1, HandlerArrives
    <3>2. s = r
      BY <1>2, <3>1, ArrivesMoves DEF Moves, Known
    <3> QED BY <2>1, <3>2, HandlerJustified DEF Known
  <2>2. ASSUME NEW r \in Runs, Settle(r) \/ Crash(r) \/ Expire(r) \/ Enqueue(r)
        PROVE  Justified(runs[s])'
    <3>1. s = r
      BY <1>2, <2>2 DEF Settle, Crash, Expire, Enqueue, Goto, Known, Inv, TypeOK
    <3> QED BY <2>2, <3>1, EndJustified DEF Known
  <2>3. ASSUME NEW r \in Runs, \/ \E t \in TaskIds : Dequeue(r, t)
                               \/ \E j \in Jobs : StartIngestion(r, j) \/ Reembed(r, j)
        PROVE  Justified(runs[s])'
    <3>1. s = r
      BY <1>2, <2>3 DEF Dequeue, StartIngestion, Reembed, Known, Inv, TypeOK
    <3> QED BY <2>3, <3>1, StartJustified
  <2>4. \A r \in Runs : Step(r) => HandlerStep(r) \/ Settle(r) \/ Enqueue(r)
    BY DEF Step, HandlerStep
  <2>5. Workers \subseteq Runs /\ Ingesters \subseteq Runs /\ Reembedders \subseteq Runs
    BY DEF Runs
  <2> QED
    BY <1>2, <2>1, <2>2, <2>3, <2>4, <2>5
    DEF Next, vars, Recover, ProviderSettles, EditManifest, DeleteVideo
<1> QED BY <1>1, <1>2

LEMMA CauseNext ==
    ASSUME CallsAnswered, Known, CauseInv, [Next]_vars, FileIdKept, ReadsWhole
    PROVE  CauseInv'
<1>1. Kept
  BY NextKeeps DEF Known
<1>2. FailedForCause'
  <2> SUFFICES ASSUME NEW j \in Jobs, status'[j] = "FAILED" PROVE Rejected(j)'
    BY DEF FailedForCause, Rejected
  <2>1. Rejected(j)
    BY StatusCause DEF CauseInv, FailedForCause, Rejected, Known
  <2> QED BY <1>1, <2>1 DEF Kept
<1>3. \A j \in Jobs : manifest'[j] \in {"none", "torn", "whole"}
  BY ManifestCause DEF Known
<1>4. \A t \in TaskIds :
         (tasks[t].state # "free" /\ tasks[t].type = "analyze" => Processed(tasks[t].job))'
  BY <1>1, TaskCause
<1>5. \A r \in Runs : Justified(runs[r])'
  BY <1>1, RunCause
<1> QED BY <1>2, <1>3, <1>4, <1>5 DEF CauseInv

LEMMA KnownInvariance == Spec => []Known
BY LossNext, LossInit, Invariance, PTL DEF Spec, Known

LEMMA CauseInit == Init => CauseInv
BY DEF Init, CauseInv, FailedForCause, Justified, IdleRun, FreeTask

\* When database, provider and disk answer and nobody edits a manifest, a job
\* is FAILED only because the provider could not process its file, unless its
\* file id is replaced by that of a second upload, or somebody reads a manifest
\* that is half written.  Any number of workers and requests, dying processes,
\* cancelled contexts, lost replies of Redis and deleted videos are covered.
THEOREM FailureHasCause ==
    ASSUME CallsAnswered
    PROVE  Spec /\ [][FileIdKept]_vars /\ []ReadsWhole => []FailedForCause
<1>1. Known /\ CauseInv /\ [Next]_vars /\ [FileIdKept]_vars /\ ReadsWhole => CauseInv'
  <2> SUFFICES ASSUME Known, CauseInv, [Next]_vars, [FileIdKept]_vars, ReadsWhole
               PROVE  CauseInv'
    OBVIOUS
  <2>1. FileIdKept
    BY DEF FileIdKept, vars
  <2> QED BY <2>1, CauseNext
<1>2. CauseInv => FailedForCause
  BY DEF CauseInv
<1> QED BY <1>1, <1>2, KnownInvariance, CauseInit, PTL DEF Spec

-----------------------------------------------------------------------------
(* When a file id is replaced: only by an upload that is delivered again.   *)

\* No upload task there is has been tried before.
UploadsOnce == \A t \in TaskIds : tasks[t].type = "upload" => tasks[t].retried = 0

\* An upload task is to be delivered, or is being handled, maybe by a run that
\* has lost its task.
Waits(t, j) == tasks[t].state = "ready" /\ tasks[t].type = "upload" /\ tasks[t].job = j
Uploads(r, j) == runs[r].kind = "upload" /\ runs[r].job = j
BeforeFile == {"get", "upload", "uploaded"}

\* A job is uploaded once: by the request, then the task, then the run.
FirstUpload(j) ==
    /\ status[j] = "NONE" => file[j] = NoFile
    /\ \A t, u \in TaskIds : Waits(t, j) /\ Waits(u, j) => t = u
    /\ \A r, s \in Runs : Asking(r, j) /\ Asking(s, j) => r = s
    /\ \A r, s \in Runs : Uploads(r, j) /\ Uploads(s, j) => r = s
    /\ \A r \in Runs, t \in TaskIds : ~(Waits(t, j) /\ (Asking(r, j) \/ Uploads(r, j)))
    /\ \A r, s \in Runs : ~(Asking(r, j) /\ Uploads(s, j))
    /\ \A t \in TaskIds : Waits(t, j) => file[j] = NoFile
    /\ \A r \in Runs : Asking(r, j) => file[j] = NoFile
    /\ \A r \in Runs : Uploads(r, j) /\ runs[r].pc \in BeforeFile => file[j] = NoFile

UploadInv == \A j \in Jobs : FirstUpload(j)

\* Nobody uploads who has not been about to.
NoNewUpload(j) ==
    /\ \A t \in TaskIds : Waits(t, j)' => Waits(t, j)
    /\ \A r \in Runs : Asking(r, j)' => Asking(r, j)
    /\ \A r \in Runs : Uploads(r, j)' =>
          Uploads(r, j) /\ (runs'[r].pc \in BeforeFile => runs[r].pc \in BeforeFile)

LEMMA NoNewUploadKeeps ==
    ASSUME NEW j \in Jobs, FirstUpload(j), NoNewUpload(j), file'[j] = file[j],
           status'[j] = "NONE" => status[j] = "NONE"
    PROVE  FirstUpload(j)'
BY DEF FirstUpload, NoNewUpload

\* A row that has been inserted stays, deleted or not.
LEMMA RowKept ==
    ASSUME Inv, [Next]_vars, NEW j \in Jobs, status[j] # "NONE"
    PROVE  status'[j] # "NONE"
<1>1. ASSUME NEW r, NEW next, next # "NONE", NEW ok, NEW failed,
             UpdateJobStatus(r, next, ok, failed)
      PROVE  status'[j] # "NONE"
  BY <1>1 DEF UpdateJobStatus, Updated, Inv, TypeOK
<1>2. ASSUME NEW r \in Runs, Step(r) PROVE status'[j] # "NONE"
  <2>1. CASE \/ MarkFailed(r) \/ MarkFailedQuietly(r) \/ Activate(r) \/ BeginAnalysis(r)
             \/ FinishAnalysis(r) \/ BeginEmbedding(r) \/ BeginReembedding(r) \/ Complete(r)
    BY <1>1, <2>1 DEF MarkFailed, MarkFailedQuietly, Activate, BeginAnalysis, FinishAnalysis,
                      BeginEmbedding, BeginReembedding, Complete, SetStatus
  <2>2. CASE UpdateJobAfterUpload(r)
    BY <2>2 DEF UpdateJobAfterUpload, Updated, Inv, TypeOK
  <2>3. CASE \/ Enqueue(r) \/ Settle(r) \/ GetJob(r) \/ UploadFile(r) \/ PollFileState(r)
             \/ GenerateMetadata(r) \/ TruncateManifest(r) \/ WriteManifest(r)
             \/ LoadManifest(r) \/ EmbedScenes(r) \/ StoreScenes(r)
    BY <2>3 DEF Enqueue, Settle, GetJob, UploadFile, PollFileState, GenerateMetadata,
                TruncateManifest, WriteManifest, LoadManifest, EmbedScenes, StoreScenes
  <2> QED BY <1>2, <2>1, <2>2, <2>3 DEF Step
<1>3. ASSUME NEW r \in Ingesters, NEW i \in Jobs, StartIngestion(r, i)
      PROVE  status'[j] # "NONE"
  BY <1>3 DEF StartIngestion, Inv, TypeOK
<1>4. ASSUME NEW i \in Jobs, DeleteVideo(i) PROVE status'[j] # "NONE"
  BY <1>4 DEF DeleteVideo, Inv, TypeOK
<1> QED
  BY <1>2, <1>3, <1>4
  DEF Next, vars, Reembed, Dequeue, Expire, Crash, Recover, ProviderSettles, EditManifest

LEMMA HandlerUpload ==
    ASSUME Known, UploadInv, NEW r \in Runs, HandlerStep(r)
    PROVE  UploadInv' /\ FileIdKept
<1>1. /\ UNCHANGED tasks /\ Moves(r) /\ runs[r].pc \notin {"idle", "nil", "err", "enqueue"}
  <2>1. \E pc : Arrives(r, pc)
    <3>1. CASE TruncateManifest(r) \/ WriteManifest(r)
      BY <3>1 DEF TruncateManifest, WriteManifest, Arrives
    <3> QED BY <3>1, HandlerArrives
  <2> QED BY <2>1, HandlerArrives, ArrivesMoves DEF Known
<1>2. Prepared(runs[r]) /\ runs[r].job \in Jobs
  BY <1>1, RunAtCall DEF Known
<1>3. runs[r].kind = "upload" /\ runs[r].pc \notin BeforeFile => runs'[r].pc \notin BeforeFile
  <2> SUFFICES ASSUME runs[r].kind = "upload", runs[r].pc \notin BeforeFile
               PROVE  runs'[r].pc \notin BeforeFile
    OBVIOUS
  <2>1. runs[r].pc = "mark"
    BY <1>1, <1>2 DEF Prepared, PcsOf, EmbedderPcs, BeforeFile
  <2>2. MarkFailed(r)
    BY <2>1 DEF HandlerStep, MarkFailedQuietly, GetJob, UploadFile, UpdateJobAfterUpload,
                PollFileState, Activate, BeginAnalysis, GenerateMetadata, TruncateManifest,
                WriteManifest, FinishAnalysis, BeginEmbedding, BeginReembedding, LoadManifest,
                EmbedScenes, StoreScenes, Complete, SetStatus
  <2>3. Goto(r, "err")
    BY <2>2 DEF MarkFailed, SetStatus, UpdateJobStatus
  <2> QED BY <2>3, GotoMoves DEF BeforeFile, Known, Inv
<1>4. ASSUME NEW j \in Jobs PROVE NoNewUpload(j)
  <2>1. runs[r].kind # "ingest"
    BY <1>1, <1>2 DEF Prepared, PcsOf
  <2>2. \A s \in Runs : s # r => runs'[s] = runs[s]
    BY <1>1 DEF Moves
  <2> QED BY <1>1, <1>3, <2>1, <2>2 DEF NoNewUpload, Waits, Asking, Uploads, Moves
<1>5. ASSUME NEW j \in Jobs, status'[j] = "NONE" PROVE status[j] = "NONE"
  BY <1>5, RowKept DEF Known, Next, Step, HandlerStep
<1>6. CASE UpdateJobAfterUpload(r)
  <2>1. PICK i \in Jobs : i = runs[r].job /\ runs[r].pc = "uploaded" /\ Uploads(r, i)
    BY <1>2, <1>6 DEF UpdateJobAfterUpload, Prepared, PcsOf, EmbedderPcs, Uploads
  <2>2. file[i] = NoFile
    BY <2>1 DEF UploadInv, FirstUpload, BeforeFile
  <2>3. \A j \in Jobs : j # i => file'[j] = file[j]
    BY <1>6, <2>1 DEF UpdateJobAfterUpload, Known, Inv, TypeOK
  <2>4. FileIdKept
    BY <2>2, <2>3 DEF FileIdKept
  <2>5. runs'[r].pc \notin BeforeFile
    <3>1. PICK pc \in {"enqueue", "err"} : Arrives(r, pc)
      BY <1>6 DEF UpdateJobAfterUpload, Arrives
    <3> QED BY <3>1, ArrivesMoves DEF BeforeFile, Known
  <2>6. status[i] # "NONE"
    BY <1>2, <2>1 DEF Prepared, Backed
  <2>7. FirstUpload(i)'
    <3>1. FirstUpload(i) /\ NoNewUpload(i)
      BY <1>4, <2>1 DEF UploadInv
    <3>2. \A t \in TaskIds : ~Waits(t, i)
      BY <2>1, <3>1 DEF FirstUpload
    <3>3. \A s \in Runs : ~Asking(s, i) /\ (Uploads(s, i) => s = r)
      BY <2>1, <3>1 DEF FirstUpload
    <3> QED BY <1>5, <2>1, <2>5, <2>6, <3>1, <3>2, <3>3 DEF FirstUpload, NoNewUpload
  <2>8. ASSUME NEW j \in Jobs, j # i PROVE FirstUpload(j)'
    BY <1>4, <1>5, <2>3, <2>8, NoNewUploadKeeps DEF UploadInv
  <2> QED BY <2>4, <2>7, <2>8 DEF UploadInv
<1>7. CASE ~UpdateJobAfterUpload(r)
  <2>1. UNCHANGED file
    BY <1>7 DEF HandlerStep, MarkFailed, MarkFailedQuietly, GetJob, UploadFile,
                PollFileState, Activate, BeginAnalysis, GenerateMetadata, TruncateManifest,
                WriteManifest, FinishAnalysis, BeginEmbedding, BeginReembedding, LoadManifest,
                EmbedScenes, StoreScenes, Complete, SetStatus
  <2> QED BY <1>4, <1>5, <2>1, NoNewUploadKeeps DEF UploadInv, FileIdKept
<1> QED BY <1>6, <1>7

LEMMA EnqueueUpload ==
    ASSUME Known, UploadInv, NEW r \in Runs, Enqueue(r)
    PROVE  UploadInv'
<1>1. /\ runs[r].pc = "enqueue" /\ UNCHANGED <<file, status>> /\ runs[r].job \in Jobs
      /\ runs[r].kind \in DOMAIN NextType
  BY RunAtCall DEF Enqueue, Known, Prepared
<1>2. Moves(r) /\ runs'[r].pc \in {"nil", "err"}
  BY GotoMoves DEF Enqueue, Known, Inv
<1> SUFFICES ASSUME NEW j \in Jobs PROVE FirstUpload(j)'
  BY DEF UploadInv
<1>3. FirstUpload(j)
  BY DEF UploadInv
<1>4. /\ \A s \in Runs : Asking(s, j)' => Asking(s, j) /\ s # r
      /\ \A s \in Runs : Uploads(s, j)' =>
            Uploads(s, j) /\ (runs'[s].pc \in BeforeFile => runs[s].pc \in BeforeFile)
  BY <1>2 DEF Asking, Uploads, Moves, BeforeFile
<1>5. CASE \A t \in TaskIds : Waits(t, j)' => Waits(t, j)
  BY <1>1, <1>3, <1>4, <1>5, NoNewUploadKeeps DEF NoNewUpload
<1>6. CASE ~\A t \in TaskIds : Waits(t, j)' => Waits(t, j)
  <2>1. PICK t \in TaskIds : AddTask(r, t)
    BY <1>6 DEF Enqueue, Waits
  <2>2. /\ tasks'[t].type = NextType[runs[r].kind] /\ tasks'[t].job = runs[r].job
        /\ \A u \in TaskIds : u # t => tasks'[u] = tasks[u]
    BY <2>1 DEF AddTask, Known, Inv, TypeOK
  <2>3. Waits(t, j)'
    BY <1>6, <2>2 DEF Waits
  <2>4. Asking(r, j)
    BY <1>1, <2>2, <2>3 DEF Waits, Asking, NextType
  <2>5. /\ \A u \in TaskIds : Waits(u, j)' => u = t
        /\ \A s \in Runs : ~Asking(s, j)' /\ ~Uploads(s, j)'
    BY <1>3, <1>4, <2>2, <2>4 DEF FirstUpload, Waits
  <2>6. file[j] = NoFile
    BY <1>3, <2>4 DEF FirstUpload
  <2> QED BY <1>1, <2>5, <2>6 DEF FirstUpload
<1> QED BY <1>5, <1>6

\* A failed delivery of an upload is the last one: another would be a retry.
LEMMA NackUpload ==
    ASSUME UploadsOnce, UploadsOnce', Known, NEW t \in TaskIds, Nack(t),
           NEW u \in TaskIds, NEW j \in Jobs, Waits(u, j)'
    PROVE  Waits(u, j)
<1>1. CASE u # t
  BY <1>1, NackKeepsTasks DEF Waits
<1>2. CASE u = t
  <2>1. tasks'[t].state # "free"
    BY <1>2 DEF Waits
  <2>2. tasks[t].type = "upload"
    BY <1>2, <2>1, NackKeepsTasks DEF Waits
  <2>3. tasks' = [tasks EXCEPT ![t] = FreeTask]
    <3>1. tasks[t].retried = 0 /\ tasks'[t].retried = 0
      BY <1>2, <2>1, <2>2 DEF UploadsOnce, Waits
    <3>2. tasks' # [tasks EXCEPT ![t].state = "ready", ![t].retried = @ + 1]
      BY <3>1 DEF Known, Inv, TypeOK
    <3> QED BY <3>2 DEF Nack
  <2> QED BY <2>1, <2>3 DEF FreeTask, Known, Inv, TypeOK
<1> QED BY <1>1, <1>2

\* Runs end, lose their context, or are as they were.
LEMMA EndUpload ==
    ASSUME Known, UploadInv, UNCHANGED file,
           \A j \in Jobs : status'[j] = "NONE" => status[j] = "NONE",
           \A t \in TaskIds, j \in Jobs : Waits(t, j)' => Waits(t, j),
           \A r \in Runs : \/ runs'[r] = IdleRun
                           \/ /\ runs'[r].kind = runs[r].kind /\ runs'[r].job = runs[r].job
                              /\ runs'[r].pc = runs[r].pc
    PROVE  UploadInv'
<1>1. \A j \in Jobs : NoNewUpload(j)
  BY DEF NoNewUpload, Asking, Uploads, IdleRun
<1> QED BY <1>1, NoNewUploadKeeps DEF UploadInv

LEMMA DequeueUpload ==
    ASSUME Known, UploadInv, NEW w \in Workers, NEW t \in TaskIds, Dequeue(w, t)
    PROVE  UploadInv'
<1>1. /\ w \in Runs /\ UNCHANGED <<file, status>>
  BY DEF Runs, Dequeue
<1>2. /\ runs'[w].pc = "get" /\ runs'[w].kind = tasks[t].type /\ runs'[w].job = tasks[t].job
      /\ \A s \in Runs \ {w} : runs'[s] = runs[s]
  BY <1>1 DEF Dequeue, Known, Inv, TypeOK
<1>3. /\ tasks[t].state = "ready" /\ tasks'[t].state = "active"
      /\ \A u \in TaskIds : u # t => tasks'[u] = tasks[u]
  BY DEF Dequeue, Known, Inv, TypeOK
<1> SUFFICES ASSUME NEW j \in Jobs PROVE FirstUpload(j)'
  BY DEF UploadInv
<1>4. FirstUpload(j)
  BY DEF UploadInv
<1>5. /\ \A u \in TaskIds : Waits(u, j)' => Waits(u, j) /\ u # t
      /\ \A s \in Runs : Asking(s, j)' => Asking(s, j)
      /\ \A s \in Runs : s # w => (Uploads(s, j)' <=> Uploads(s, j))
  BY <1>2, <1>3 DEF Waits, Asking, Uploads
<1>6. CASE Waits(t, j)
  <2>1. /\ \A u \in TaskIds : ~Waits(u, j)'
        /\ \A s \in Runs : ~Asking(s, j)' /\ (Uploads(s, j)' => s = w)
    BY <1>4, <1>5, <1>6 DEF FirstUpload
  <2>2. file[j] = NoFile
    BY <1>4, <1>6 DEF FirstUpload
  <2> QED BY <1>1, <2>1, <2>2 DEF FirstUpload
<1>7. CASE ~Waits(t, j)
  <2>1. ~Uploads(w, j)'
    BY <1>2, <1>3, <1>7 DEF Waits, Uploads
  <2>2. NoNewUpload(j)
    BY <1>2, <1>5, <2>1 DEF NoNewUpload
  <2> QED BY <1>1, <1>4, <2>2, NoNewUploadKeeps
<1> QED BY <1>6, <1>7

LEMMA RequestUpload ==
    ASSUME Known, UploadInv, NEW r \in Ingesters, NEW i \in Jobs, StartIngestion(r, i)
    PROVE  UploadInv'
<1>1. /\ r \in Runs /\ UNCHANGED <<file, tasks>> /\ status[i] = "NONE" /\ runs[r] = IdleRun
      /\ status'[i] # "NONE" /\ \A j \in Jobs : j # i => status'[j] = status[j]
  BY DEF Runs, StartIngestion, Known, Inv, TypeOK
<1>2. /\ \A s \in Runs \ {r} : runs'[s] = runs[s]
      /\ \/ runs'[r] = runs[r]
         \/ runs'[r].kind = "ingest" /\ runs'[r].job = i
  <2>1. CASE UNCHANGED runs
    BY <2>1
  <2>2. CASE runs' = [runs EXCEPT ![r] = [IdleRun EXCEPT !.kind = "ingest", !.job = i,
                                                        !.pc = "enqueue", !.live = TRUE]]
    BY <1>1, <2>2 DEF IdleRun, Known, Inv, TypeOK
  <2> QED BY <2>1, <2>2 DEF StartIngestion
<1> SUFFICES ASSUME NEW j \in Jobs PROVE FirstUpload(j)'
  BY DEF UploadInv
<1>3. FirstUpload(j)
  BY DEF UploadInv
<1>4. /\ \A t \in TaskIds : Waits(t, j)' <=> Waits(t, j)
      /\ \A s \in Runs : Uploads(s, j)' => Uploads(s, j) /\ runs'[s].pc = runs[s].pc
      /\ \A s \in Runs : Asking(s, j)' => Asking(s, j) \/ (s = r /\ j = i)
  BY <1>1, <1>2 DEF Waits, Uploads, Asking
<1>5. CASE j # i
  BY <1>1, <1>3, <1>4, <1>5, NoNewUploadKeeps DEF NoNewUpload
<1>6. CASE j = i
  <2>1. \A t \in TaskIds : ~Waits(t, j)
    BY <1>1, <1>6 DEF Waits, Known, Inv, TaskIsBacked, Backed
  <2>2. \A s \in Runs : ~Uploads(s, j) /\ ~Asking(s, j)
    BY <1>1, <1>6 DEF Uploads, Asking, Known, Inv, RunIsBacked, Prepared, Backed, IdleRun
  <2>3. file[j] = NoFile
    BY <1>1, <1>3, <1>6 DEF FirstUpload
  <2> QED BY <1>1, <1>4, <2>1, <2>2, <2>3 DEF FirstUpload
<1> QED BY <1>5, <1>6

LEMMA UploadNext ==
    ASSUME UploadsOnce, UploadsOnce', Known, UploadInv, [Next]_vars
    PROVE  UploadInv' /\ FileIdKept
<1>1. \A j \in Jobs : status'[j] = "NONE" => status[j] = "NONE"
  BY RowKept DEF Known
<1>2. ASSUME NEW r \in Runs, HandlerStep(r) PROVE UploadInv' /\ FileIdKept
  BY <1>2, HandlerUpload
<1>3. ASSUME \A r \in Runs : ~HandlerStep(r) PROVE UNCHANGED file
  BY <1>3 DEF Next, vars, StartIngestion, Reembed, Dequeue, Step, HandlerStep, Enqueue, Settle,
              Expire, Crash, Recover, ProviderSettles, EditManifest, DeleteVideo
<1>4. ASSUME NEW r \in Runs, Enqueue(r) PROVE UploadInv'
  BY <1>4, EnqueueUpload
<1>5. CASE \/ UNCHANGED vars
           \/ \E r \in Runs : Expire(r) \/ Crash(r)
           \/ \E f \in Files : ProviderSettles(f)
           \/ \E j \in Jobs : EditManifest(j) \/ DeleteVideo(j)
  <2>1. UNCHANGED <<file, tasks>>
    BY <1>5 DEF vars, Expire, Crash, ProviderSettles, EditManifest, DeleteVideo
  <2>2. \A s \in Runs : \/ runs'[s] = IdleRun
                        \/ /\ runs'[s].kind = runs[s].kind /\ runs'[s].job = runs[s].job
                           /\ runs'[s].pc = runs[s].pc
    <3>1. ASSUME NEW r \in Runs, Expire(r)
          PROVE  \A s \in Runs : /\ runs'[s].kind = runs[s].kind
                                 /\ runs'[s].job = runs[s].job /\ runs'[s].pc = runs[s].pc
      BY <3>1 DEF Expire, Known, Inv, TypeOK
    <3>2. ASSUME NEW r \in Runs, Crash(r)
          PROVE  \A s \in Runs : runs'[s] = IdleRun \/ runs'[s] = runs[s]
      BY <3>2 DEF Crash, Known, Inv, TypeOK
    <3> QED BY <1>5, <3>1, <3>2 DEF vars, ProviderSettles, EditManifest, DeleteVideo
  <2>3. UploadInv'
    BY <1>1, <2>1, <2>2, EndUpload DEF Waits
  <2> QED BY <2>1, <2>3 DEF FileIdKept
<1>6. ASSUME NEW r \in Runs, Settle(r) PROVE UploadInv'
  <2>1. UNCHANGED file /\ \A s \in Runs : runs'[s] = IdleRun \/ runs'[s] = runs[s]
    BY <1>6 DEF Settle, Known, Inv, TypeOK
  <2>2. ASSUME NEW t \in TaskIds, NEW j \in Jobs, Waits(t, j)' PROVE Waits(t, j)
    <3>1. CASE UNCHANGED tasks
      BY <2>2, <3>1 DEF Waits
    <3>2. CASE runs[r].task \in TaskIds /\ Nack(runs[r].task)
      BY <2>2, <3>2, NackUpload
    <3>3. CASE runs[r].task \in TaskIds /\ Ack(runs[r].task)
      BY <2>2, <3>3 DEF Waits, Ack, FreeTask, Known, Inv, TypeOK
    <3> QED BY <1>6, <3>1, <3>2, <3>3 DEF Settle, Known, Inv, TypeOK
  <2> QED BY <1>1, <2>1, <2>2, EndUpload
<1>7. ASSUME NEW t \in TaskIds, Recover(t) PROVE UploadInv'
  <2>1. UNCHANGED <<file, runs>> /\ Nack(t)
    BY <1>7 DEF Recover
  <2> QED BY <1>1, <2>1, NackUpload, EndUpload
<1>8. ASSUME NEW r \in Reembedders, NEW j \in Jobs, Reembed(r, j) PROVE UploadInv'
  <2>1. /\ UNCHANGED <<file, tasks>> /\ r \in Runs /\ runs'[r].kind = "manual"
        /\ \A s \in Runs \ {r} : runs'[s] = runs[s]
    BY <1>8 DEF Runs, Reembed, IdleRun, Known, Inv, TypeOK
  <2>2. \A i \in Jobs : NoNewUpload(i)
    BY <2>1 DEF NoNewUpload, Waits, Asking, Uploads
  <2> QED BY <1>1, <2>1, <2>2, NoNewUploadKeeps DEF UploadInv
<1>9. ASSUME NEW r \in Runs, Step(r) PROVE HandlerStep(r) \/ Enqueue(r) \/ Settle(r)
  BY <1>9 DEF Step, HandlerStep
<1>10. UploadInv'
  BY <1>2, <1>4, <1>5, <1>6, <1>7, <1>8, <1>9, RequestUpload, DequeueUpload DEF Next
<1>11. FileIdKept
  BY <1>2, <1>3 DEF FileIdKept
<1> QED BY <1>10, <1>11

LEMMA UploadInit == Init => UploadInv
<1> SUFFICES ASSUME Init, NEW j \in Jobs PROVE FirstUpload(j)
  BY DEF UploadInv
<1>1. \A t \in TaskIds : ~Waits(t, j)
  BY DEF Init, Waits, FreeTask
<1>2. \A r \in Runs : ~Asking(r, j) /\ ~Uploads(r, j)
  BY DEF Init, Asking, Uploads, IdleRun
<1>3. file[j] = NoFile
  BY DEF Init
<1> QED BY <1>1, <1>2, <1>3 DEF FirstUpload

\* As long as no upload has been delivered again, the file id of a job is written
\* once: the file the state checker asks about, and the analyzer works on, is the
\* one that was uploaded, whatever else is repeated, fails or dies.
THEOREM FileIdWrittenOnce == Spec /\ []UploadsOnce => [][FileIdKept]_vars
<1>1. /\ Known /\ UploadInv /\ UploadsOnce /\ UploadsOnce' /\ [Next]_vars
      => UploadInv' /\ [FileIdKept]_vars
  BY UploadNext
<1> QED BY <1>1, UploadInit, KnownInvariance, PTL DEF Spec

-----------------------------------------------------------------------------
(* Any number of workers and re-embed requests, when no message is repeated: *)
(* each stage happens once.                                                  *)

\* The calls of an embedder that has found its job ready.
Opened == {"embedding", "reembedding", "load", "embed", "store", "complete"}

\* The run that holds task t stands at one of pcs.
Past(t, pcs) == \E r \in Runs : runs[r].task = t /\ runs[r].pc \in pcs

\* What has been produced for a job when a task is still to be done.
Produced(t, j) ==
    /\ tasks[t].type \in {"upload", "state"} => manifest[j] = "none"
    /\ tasks[t].type = "upload" => file[j] = NoFile \/ Past(t, {"enqueue"})
    /\ tasks[t].type = "analyze" => manifest[j] # "whole" \/ Past(t, {"ready", "enqueue"})

Once(j) ==
    /\ status[j] = "NONE" => file[j] = NoFile
    /\ status[j] \in {"READY_FOR_EMBEDDING", "COMPLETED"} => manifest[j] = "whole"
    /\ \A r \in Runs : Asking(r, j) => file[j] = NoFile
    /\ \A t \in TaskIds : Owed(t, j) => Produced(t, j)

OnceInv ==
    /\ \A j \in Jobs : Once(j)
    /\ \A r \in Runs : runs[r].pc \in Opened => manifest[runs[r].job] = "whole"

Orderly == Before /\ CauseInv /\ OnceInv

\* An uploader that still has to write the file id is the first to do so.
LEMMA UploadsFirst ==
    ASSUME Orderly, NEW r \in Runs, runs[r].pc = "uploaded"
    PROVE  runs[r].kind = "upload" /\ runs[r].job \in Jobs /\ file[runs[r].job] = NoFile
<1>1. runs[r].kind = "upload" /\ runs[r].job \in Jobs
  BY RunAtCall DEF Prepared, PcsOf, EmbedderPcs, Orderly, Before, Known
<1>2. PICK t \in TaskIds : /\ t = runs[r].task /\ Owed(t, runs[r].job)
                           /\ tasks[t].type = "upload"
  BY <1>1, HolderOwes DEF TaskTypes, Orderly
<1>3. ~Past(t, {"enqueue"})
  BY <1>2, NullAssumption DEF Past, Orderly, Before, Known, LeaseIsExclusive
<1> QED BY <1>1, <1>2, <1>3 DEF Orderly, OnceInv, Once, Produced

\* An analyzer that still has to write the manifest is the first to do so.
LEMMA AnalyzesFirst ==
    ASSUME Orderly, NEW r \in Runs, runs[r].pc \in {"truncate", "write"}
    PROVE  runs[r].kind = "analyze" /\ runs[r].job \in Jobs /\ manifest[runs[r].job] # "whole"
<1>1. runs[r].kind = "analyze" /\ runs[r].job \in Jobs
  BY RunAtCall DEF Prepared, PcsOf, EmbedderPcs, Orderly, Before, Known
<1>2. PICK t \in TaskIds : /\ t = runs[r].task /\ Owed(t, runs[r].job)
                           /\ tasks[t].type = "analyze"
  BY <1>1, HolderOwes DEF TaskTypes, Orderly
<1>3. ~Past(t, {"ready", "enqueue"})
  BY <1>2, NullAssumption DEF Past, Orderly, Before, Known, LeaseIsExclusive
<1> QED BY <1>1, <1>2, <1>3 DEF Orderly, OnceInv, Once, Produced

\* The task of a run is the only one owed for its job.
LEMMA OnlyTask ==
    ASSUME Orderly, NEW r \in Runs, runs[r].kind \in TaskTypes, runs[r].pc # "nil",
           NEW t \in TaskIds, Owed(t, runs[r].job)
    PROVE  t = runs[r].task /\ tasks[t].type = runs[r].kind
BY HolderOwes DEF Orderly, Before, SequenceInv, OneBaton

\* A task that is still owed is as far as it was, unless its holder moves away.
LEMMA ProducedKept ==
    ASSUME OnceInv, NEW j \in Jobs, NEW t \in TaskIds, Owed(t, j),
           tasks'[t].type = tasks[t].type, file'[j] = file[j], manifest'[j] = manifest[j],
           Past(t, {"enqueue"}) => Past(t, {"enqueue"})',
           Past(t, {"ready", "enqueue"}) => Past(t, {"ready", "enqueue"})'
    PROVE  Produced(t, j)'
BY DEF OnceInv, Once, Produced

\* A handler's step that writes neither file id nor manifest.
LEMMA HandlerOnce ==
    ASSUME Orderly, NothingRepeated, CallsAnswered, NEW r \in Runs, HandlerStep(r),
           UNCHANGED <<file, manifest>>,
           runs[r].pc = "ready" => runs'[r].pc = "enqueue",
           runs'[r].pc \in Opened => manifest[runs[r].job] = "whole",
           \A j \in Jobs : \/ status'[j] = status[j]
                           \/ /\ j = runs[r].job /\ status'[j] # "NONE"
                              /\ status'[j] \in {"READY_FOR_EMBEDDING", "COMPLETED"}
                                    => manifest[j] = "whole"
    PROVE  OnceInv'
<1>1. UNCHANGED tasks /\ Moves(r) /\ runs[r].pc \notin {"idle", "nil", "err", "enqueue"}
  BY HandlerArrives, ArrivesMoves, TruncateSequence
  DEF Orderly, Before, Known, TruncateManifest, WriteManifest, Arrives
<1>2. NothingNew
  BY <1>1, MoveBrings DEF Orderly, Before
<1>3. ASSUME NEW t \in TaskIds
      PROVE  /\ Past(t, {"enqueue"}) => Past(t, {"enqueue"})'
             /\ Past(t, {"ready", "enqueue"}) => Past(t, {"ready", "enqueue"})'
  BY <1>1 DEF Past, Moves
<1>4. ASSUME NEW j \in Jobs, NEW t \in TaskIds, Owed(t, j)' PROVE Produced(t, j)'
  BY <1>2, <1>3, <1>4, ProducedKept DEF NothingNew, Orderly
<1>5. ASSUME NEW j \in Jobs PROVE Once(j)'
  BY <1>2, <1>4 DEF NothingNew, Once, Orderly, OnceInv
<1>6. ASSUME NEW s \in Runs, runs'[s].pc \in Opened PROVE manifest'[runs'[s].job] = "whole"
  BY <1>1, <1>6 DEF Moves, Orderly, OnceInv
<1> QED BY <1>5, <1>6 DEF OnceInv

\* Calls that write neither the status nor the manifest.
Reads(r) ==
    \/ GetJob(r) \/ UploadFile(r) \/ PollFileState(r) \/ GenerateMetadata(r)
    \/ LoadManifest(r) \/ EmbedScenes(r) \/ StoreScenes(r)

LEMMA ReadArrives ==
    ASSUME Inv, NEW r \in Runs, Reads(r)
    PROVE  /\ HandlerStep(r) /\ UNCHANGED <<status, file, manifest>> /\ Moves(r)
           /\ runs[r].pc \notin {"idle", "ready"}
           /\ runs'[r].pc \notin {"write", "ready"}
           /\ runs'[r].pc \in Opened =>
                 \/ runs[r].pc \in Opened
                 \/ status[runs[r].job] \in {"READY_FOR_EMBEDDING", "COMPLETED"}
<1>1. /\ UNCHANGED <<status, file, manifest>> /\ HandlerStep(r)
      /\ runs[r].pc \notin {"idle", "ready"}
  BY DEF Reads, GetJob, UploadFile, PollFileState, GenerateMetadata, LoadManifest,
         EmbedScenes, StoreScenes, HandlerStep
<1>2. PICK pc :
         /\ Arrives(r, pc)
         /\ pc \notin {"write", "ready"}
         /\ pc \in Opened => \/ runs[r].pc \in Opened
                             \/ status[runs[r].job] \in {"READY_FOR_EMBEDDING", "COMPLETED"}
  <2>1. CASE GetJob(r)
    <3>1. CASE Goto(r, "err")
      BY <3>1 DEF Arrives, Opened
    <3>2. CASE ~Goto(r, "err")
      <4>1. Arrives(r, AfterGet(runs[r].kind, runs[r].job))
        BY <2>1, <3>2 DEF GetJob, Arrives
      <4>2. /\ AfterGet(runs[r].kind, runs[r].job)
                  \in {"upload", "markQuiet", "poll", "analyzing", "embedding", "reembedding",
                       "nil"}
            /\ AfterGet(runs[r].kind, runs[r].job) \in {"embedding", "reembedding"}
                  => status[runs[r].job] \in {"READY_FOR_EMBEDDING", "COMPLETED"}
        BY DEF AfterGet
      <4> QED BY <4>1, <4>2 DEF Opened
    <3> QED BY <3>1, <3>2
  <2>2. CASE UploadFile(r)
    <3>1. \E pc \in {"uploaded", "mark"} : Arrives(r, pc)
      BY <2>2 DEF UploadFile, Arrives
    <3> QED BY <3>1 DEF Opened
  <2>3. CASE PollFileState(r)
    <3>1. PICK pc \in {"activate", "markQuiet", "err"} :
             runs' = [runs EXCEPT ![r].file = NoFile, ![r].pc = pc]
      BY <2>3 DEF PollFileState
    <3> QED BY <3>1 DEF Arrives, Opened
  <2>4. CASE GenerateMetadata(r)
    <3>1. runs[r].pc = "generate" /\ \E pc \in {"truncate", "mark", "err"} : Arrives(r, pc)
      BY <2>4 DEF GenerateMetadata, Arrives
    <3> QED BY <3>1 DEF Opened
  <2>5. CASE LoadManifest(r) \/ EmbedScenes(r) \/ StoreScenes(r)
    <3>1. runs[r].pc \in Opened
          /\ \E pc \in {"embed", "store", "complete", "mark", "markQuiet"} : Arrives(r, pc)
      BY <2>5 DEF LoadManifest, EmbedScenes, StoreScenes, Arrives, Opened
    <3> QED BY <3>1 DEF Opened
  <2> QED BY <2>1, <2>2, <2>3, <2>4, <2>5 DEF Reads
<1>3. Moves(r) /\ runs'[r].pc = pc
  BY <1>2, ArrivesMoves
<1> QED BY <1>1, <1>2, <1>3

LEMMA ReadOnce ==
    ASSUME Orderly, NothingRepeated, CallsAnswered, NEW r \in Runs, Reads(r)
    PROVE  OnceInv'
<1>1. runs[r].job \in Jobs
  BY ReadArrives, RunAtCall DEF Orderly, Before, Known
<1>2. runs'[r].pc \in Opened => manifest[runs[r].job] = "whole"
  BY <1>1, ReadArrives DEF Orderly, Before, Known, OnceInv, Once
<1> QED BY <1>2, ReadArrives, HandlerOnce DEF Orderly, Before, Known

\* Nobody's status update fails.
LEMMA UpdateOnce ==
    ASSUME Orderly, NothingRepeated, CallsAnswered, NEW r \in Runs, HandlerStep(r),
           NEW next \in Statuses \ {"NONE"}, NEW ok, NEW failed,
           UpdateJobStatus(r, next, ok, failed), UNCHANGED <<file, manifest>>,
           runs[r].pc = "ready" => ok = "enqueue",
           ok \in Opened => runs[r].pc \in Opened,
           next = "COMPLETED" => runs[r].pc \in Opened,
           next = "READY_FOR_EMBEDDING" => runs[r].pc = "ready"
    PROVE  OnceInv'
<1>1. runs[r].pc \notin {"idle", "nil", "err", "enqueue"}
  BY HandlerArrives DEF Orderly, Before
<1>2. PICK j \in Jobs : j = runs[r].job /\ runs[r] # IdleRun /\ Prepared(runs[r])
  BY <1>1, RunAtCall DEF Orderly, Before, Known
<1>3. runs[r].live
  BY <1>2 DEF Orderly, Before, SequenceInv, Attended
<1>4. status' = Updated(j, next) /\ Goto(r, ok)
  BY <1>2, <1>3, UpdateCause
<1>5. Moves(r) /\ runs'[r].pc = ok
  BY <1>4, GotoMoves DEF Orderly, Before, Known, Inv
<1>6. /\ \A i \in Jobs : i # j => status'[i] = status[i]
      /\ status'[j] \in {status[j], next}
  BY <1>4 DEF Updated, Orderly, Before, Known, Inv, TypeOK
<1>7. runs[r].pc \in Opened => manifest[j] = "whole"
  BY <1>2 DEF Orderly, OnceInv
<1>8. runs[r].pc = "ready" => manifest[j] = "whole"
  <2> SUFFICES ASSUME runs[r].pc = "ready" PROVE manifest[j] = "whole"
    OBVIOUS
  <2>1. manifest[j] # "none" /\ runs[r].kind = "analyze"
    BY <1>2 DEF Prepared, PcsOf, EmbedderPcs
  <2>2. manifest[j] # "torn"
    BY <1>2, <2>1 DEF Orderly, Before, SequenceInv, WritesTorn
  <2> QED BY <2>1, <2>2 DEF Orderly, CauseInv
<1> QED BY <1>2, <1>5, <1>6, <1>7, <1>8, HandlerOnce

LEMMA FileOnce ==
    ASSUME Orderly, NothingRepeated, CallsAnswered, NEW r \in Runs, UpdateJobAfterUpload(r)
    PROVE  OnceInv'
<1>1. PICK j \in Jobs : j = runs[r].job /\ runs[r].kind = "upload" /\ runs[r].pc = "uploaded"
  BY UploadsFirst DEF UpdateJobAfterUpload
<1>2. HandlerStep(r)
  BY DEF HandlerStep
<1>3. Arrives(r, "enqueue")
  <2>1. runs[r].live
    BY <1>1 DEF IdleRun, Orderly, Before, SequenceInv, Attended
  <2> QED BY <2>1 DEF UpdateJobAfterUpload, CallsAnswered, CanFail, Arrives
<1>4. Moves(r) /\ runs'[r].pc = "enqueue" /\ UNCHANGED <<tasks, manifest>>
  BY <1>3, ArrivesMoves DEF UpdateJobAfterUpload, Orderly, Before, Known
<1>5. NothingNew
  BY <1>1, <1>4, MoveBrings DEF Orderly, Before
<1>6. /\ \A i \in Jobs : i # j => file'[i] = file[i] /\ status'[i] = status[i]
      /\ status'[j] \in {status[j], "UPLOADED_TO_PROVIDER"}
  BY <1>1 DEF UpdateJobAfterUpload, Updated, Orderly, Before, Known, Inv, TypeOK
<1>7. ASSUME NEW i \in Jobs, NEW t \in TaskIds, Owed(t, i)' PROVE Produced(t, i)'
  <2>1. Owed(t, i) /\ tasks'[t].type = tasks[t].type
    BY <1>5, <1>7 DEF NothingNew
  <2>2. CASE i # j
    <3>1. /\ Past(t, {"enqueue"}) => Past(t, {"enqueue"})'
          /\ Past(t, {"ready", "enqueue"}) => Past(t, {"ready", "enqueue"})'
      BY <1>4 DEF Past, Moves
    <3> QED BY <1>4, <1>6, <2>1, <2>2, <3>1, ProducedKept DEF Orderly
  <2>3. CASE i = j
    <3>1. t = runs[r].task /\ tasks[t].type = "upload"
      BY <1>1, <2>1, <2>3, OnlyTask DEF TaskTypes
    <3>2. Past(t, {"enqueue"})'
      BY <1>4, <3>1 DEF Past, Moves
    <3> QED BY <1>4, <2>1, <2>3, <3>1, <3>2 DEF Produced, Once, Orderly, OnceInv
  <2> QED BY <2>2, <2>3
<1>8. status[j] # "NONE" /\ \A s \in Runs : ~Asking(s, j)
  <2>1. Prepared(runs[r])
    BY <1>1, RunAtCall DEF Orderly, Before, Known
  <2>2. \E t \in TaskIds : Owed(t, j)
    BY <1>1, HolderOwes DEF TaskTypes, Orderly
  <2> QED BY <1>1, <2>1, <2>2 DEF Prepared, Backed, Orderly, Before, SequenceInv, OneBaton
<1>9. ASSUME NEW i \in Jobs PROVE Once(i)'
  <2>1. CASE i # j
    BY <1>4, <1>5, <1>6, <1>7, <2>1 DEF Once, Orderly, OnceInv, NothingNew
  <2>2. CASE i = j
    BY <1>4, <1>5, <1>6, <1>7, <1>8, <2>2 DEF Once, Orderly, OnceInv, NothingNew
  <2> QED BY <2>1, <2>2
<1>10. ASSUME NEW s \in Runs, runs'[s].pc \in Opened PROVE manifest'[runs'[s].job] = "whole"
  BY <1>4, <1>10 DEF Moves, Opened, Orderly, OnceInv
<1> QED BY <1>9, <1>10 DEF OnceInv

LEMMA ManifestOnce ==
    ASSUME Orderly, NothingRepeated, CallsAnswered, NEW r \in Runs,
           TruncateManifest(r) \/ WriteManifest(r)
    PROVE  OnceInv'
<1>1. PICK j \in Jobs : j = runs[r].job /\ runs[r].kind = "analyze" /\ manifest[j] # "whole"
  BY AnalyzesFirst DEF TruncateManifest, WriteManifest
<1>2. /\ UNCHANGED <<tasks, status, file>> /\ runs[r].pc \in {"truncate", "write"}
      /\ Goto(r, IF runs[r].pc = "truncate" THEN "write" ELSE "ready")
      /\ \E m \in {"torn", "whole"} : manifest' = [manifest EXCEPT ![j] = m]
      /\ WriteManifest(r) \/ manifest' = [manifest EXCEPT ![j] = "torn"]
  BY <1>1 DEF TruncateManifest, WriteManifest, CallsAnswered
<1>3. Moves(r) /\ runs'[r].pc = IF runs[r].pc = "truncate" THEN "write" ELSE "ready"
  BY <1>2, GotoMoves DEF Orderly, Before, Known, Inv
<1>4. NothingNew
  BY <1>2, <1>3, MoveBrings DEF Orderly, Before
<1>5. /\ \A i \in Jobs : i # j => manifest'[i] = manifest[i]
      /\ runs[r].pc = "truncate" => manifest'[j] = "torn"
  <2>1. runs[r].pc = "truncate" => manifest' = [manifest EXCEPT ![j] = "torn"]
    BY <1>2 DEF WriteManifest
  <2> QED BY <1>2, <2>1 DEF Orderly, Before, Known, Inv, TypeOK
<1>6. ASSUME NEW i \in Jobs, NEW t \in TaskIds, Owed(t, i)' PROVE Produced(t, i)'
  <2>1. Owed(t, i) /\ tasks'[t].type = tasks[t].type
    BY <1>4, <1>6 DEF NothingNew
  <2>2. CASE i # j
    <3>1. /\ Past(t, {"enqueue"}) => Past(t, {"enqueue"})'
          /\ Past(t, {"ready", "enqueue"}) => Past(t, {"ready", "enqueue"})'
      BY <1>2, <1>3 DEF Past, Moves
    <3> QED BY <1>2, <1>5, <2>1, <2>2, <3>1, ProducedKept DEF Orderly
  <2>3. CASE i = j
    <3>1. t = runs[r].task /\ tasks[t].type = "analyze"
      BY <1>1, <1>2, <2>1, <2>3, OnlyTask DEF TaskTypes
    <3>2. runs[r].pc = "write" => Past(t, {"ready", "enqueue"})'
      BY <1>3, <3>1 DEF Past, Moves
    <3> QED BY <1>2, <1>5, <2>1, <2>3, <3>1, <3>2 DEF Produced
  <2> QED BY <2>2, <2>3
<1>7. ASSUME NEW i \in Jobs PROVE Once(i)'
  BY <1>1, <1>2, <1>4, <1>5, <1>6 DEF Once, Orderly, OnceInv, NothingNew
<1>8. ASSUME NEW s \in Runs, runs'[s].pc \in Opened PROVE manifest'[runs'[s].job] = "whole"
  <2>1. s # r
    BY <1>3, <1>8 DEF Opened
  <2>2. runs'[s] = runs[s] /\ manifest[runs[s].job] = "whole" /\ runs[s].job \in Jobs
    BY <1>3, <1>8, <2>1, RunAtCall DEF Moves, Opened, Orderly, OnceInv, Before, Known
  <2> QED BY <1>1, <1>5, <2>2
<1> QED BY <1>7, <1>8 DEF OnceInv

LEMMA HandlersOnce ==
    ASSUME Orderly, NothingRepeated, CallsAnswered, NEW r \in Runs, HandlerStep(r)
    PROVE  OnceInv'
<1>1. CASE Reads(r) \/ UpdateJobAfterUpload(r) \/ TruncateManifest(r) \/ WriteManifest(r)
  BY <1>1, ReadOnce, FileOnce, ManifestOnce
<1>2. CASE MarkFailed(r) \/ MarkFailedQuietly(r)
  BY <1>2, UpdateOnce DEF MarkFailed, MarkFailedQuietly, SetStatus, Statuses, Opened
<1>3. CASE Activate(r) \/ BeginAnalysis(r)
  BY <1>3, UpdateOnce DEF Activate, BeginAnalysis, SetStatus, Statuses, Opened
<1>4. CASE FinishAnalysis(r)
  BY <1>4, UpdateOnce DEF FinishAnalysis, SetStatus, Statuses, Opened
<1>5. CASE BeginEmbedding(r) \/ BeginReembedding(r) \/ Complete(r)
  BY <1>5, UpdateOnce DEF BeginEmbedding, BeginReembedding, Complete, SetStatus, Statuses, Opened
<1> QED BY <1>1, <1>2, <1>3, <1>4, <1>5 DEF HandlerStep, Reads

\* The next task finds what its predecessor has produced.
LEMMA EnqueueOnce ==
    ASSUME Orderly, NothingRepeated, NEW r \in Runs, Enqueue(r)
    PROVE  OnceInv'
<1>1. runs[r].pc = "enqueue" /\ UNCHANGED <<file, manifest, status>>
  BY DEF Enqueue
<1>2. PICK j \in Jobs, t \in TaskIds :
              /\ j = runs[r].job /\ runs[r].kind \in DOMAIN NextType
              /\ Moves(r) /\ runs'[r].pc = "nil"
              /\ tasks'[t].type = NextType[runs[r].kind]
              /\ \A u \in TaskIds : u # t => tasks'[u] = tasks[u]
              /\ \A s \in Runs, i \in Jobs : Asking(s, i)' => Asking(s, i)
              /\ \A u \in TaskIds \ {t}, i \in Jobs : Owed(u, i)' => Owed(u, i)
              /\ \A i \in Jobs : Owed(t, i)' => i = j
              /\ \A u \in TaskIds \ {t} : ~Owed(u, j)'
  BY EnqueuePasses DEF Orderly
<1>3. ASSUME NEW i \in Jobs, NEW u \in TaskIds, Owed(u, i)', u # t PROVE Produced(u, i)'
  <2>1. Owed(u, i) /\ i # j /\ tasks'[u] = tasks[u]
    BY <1>2, <1>3
  <2>2. runs[r].task # u
    BY <1>2, <2>1, NullAssumption DEF Owed, Orderly, Before, Known, LeaseIsExclusive
  <2>3. /\ Past(u, {"enqueue"}) => Past(u, {"enqueue"})'
        /\ Past(u, {"ready", "enqueue"}) => Past(u, {"ready", "enqueue"})'
    BY <1>2, <2>2 DEF Past, Moves
  <2> QED BY <1>1, <2>1, <2>3, ProducedKept DEF Orderly
<1>4. Produced(t, j)'
  <2>1. CASE runs[r].kind = "ingest"
    <3>1. Asking(r, j)
      BY <1>1, <1>2, <2>1 DEF Asking
    <3>2. file[j] = NoFile
      BY <3>1 DEF Orderly, OnceInv, Once
    <3>3. manifest[j] = "none"
      BY <3>2 DEF Orderly, Before, Known, Inv, StatusIsBacked, EvidenceInOrder
    <3> QED BY <1>1, <1>2, <2>1, <3>2, <3>3 DEF Produced, NextType
  <2>2. CASE runs[r].kind # "ingest"
    <3>1. runs[r].kind \in {"upload", "state", "analyze"}
      BY <1>2, <2>2 DEF NextType
    <3>2. PICK v \in TaskIds : Owed(v, j) /\ tasks[v].type = runs[r].kind
      BY <1>1, <1>2, <3>1, HolderOwes DEF TaskTypes, Orderly
    <3>3. runs[r].kind \in {"upload", "state"} => manifest[j] = "none"
      BY <3>2 DEF Orderly, OnceInv, Once, Produced
    <3> QED BY <1>1, <1>2, <3>1, <3>3 DEF Produced, NextType
  <2> QED BY <2>1, <2>2
<1>5. ASSUME NEW i \in Jobs PROVE Once(i)'
  BY <1>1, <1>2, <1>3, <1>4 DEF Once, Orderly, OnceInv
<1>6. ASSUME NEW s \in Runs, runs'[s].pc \in Opened PROVE manifest'[runs'[s].job] = "whole"
  BY <1>1, <1>2, <1>6 DEF Moves, Opened, Orderly, OnceInv
<1> QED BY <1>5, <1>6 DEF OnceInv

\* Steps around the handlers that bring nothing new.
LEMMA AroundOnce ==
    ASSUME Orderly, NothingNew, UNCHANGED <<file, manifest>>,
           \A j \in Jobs : status'[j] \in {status[j], "GONE"},
           \A s \in Runs : \/ runs'[s] = runs[s]
                           \/ runs[s].pc \in {"idle", "nil", "err"}
                              /\ runs'[s].pc \in {"idle", "get"}
    PROVE  OnceInv'
<1>1. ASSUME NEW t \in TaskIds
      PROVE  /\ Past(t, {"enqueue"}) => Past(t, {"enqueue"})'
             /\ Past(t, {"ready", "enqueue"}) => Past(t, {"ready", "enqueue"})'
  BY DEF Past
<1>2. ASSUME NEW j \in Jobs, NEW t \in TaskIds, Owed(t, j)' PROVE Produced(t, j)'
  BY <1>1, <1>2, ProducedKept DEF NothingNew, Orderly
<1>3. ASSUME NEW j \in Jobs PROVE Once(j)'
  BY <1>2 DEF NothingNew, Once, Orderly, OnceInv
<1>4. ASSUME NEW s \in Runs, runs'[s].pc \in Opened PROVE manifest'[runs'[s].job] = "whole"
  BY <1>4 DEF Opened, Orderly, OnceInv
<1> QED BY <1>3, <1>4 DEF OnceInv

LEMMA RequestOnce ==
    ASSUME Orderly, NEW r \in Ingesters, NEW i \in Jobs, StartIngestion(r, i)
    PROVE  OnceInv'
<1>1. /\ r \in Runs /\ UNCHANGED <<file, manifest, tasks>> /\ status[i] = "NONE"
      /\ runs[r] = IdleRun /\ status'[i] = "PENDING"
      /\ \A j \in Jobs : j # i => status'[j] = status[j]
  BY DEF Runs, StartIngestion, Orderly, Before, Known, Inv, TypeOK
<1>2. /\ \A s \in Runs \ {r} : runs'[s] = runs[s]
      /\ \/ runs'[r] = runs[r]
         \/ runs'[r].kind = "ingest" /\ runs'[r].job = i /\ runs'[r].pc = "enqueue"
            /\ runs'[r].task = NoTask
  <2>1. CASE UNCHANGED runs
    BY <2>1
  <2>2. CASE runs' = [runs EXCEPT ![r] = [IdleRun EXCEPT !.kind = "ingest", !.job = i,
                                                        !.pc = "enqueue", !.live = TRUE]]
    BY <1>1, <2>2 DEF IdleRun, Orderly, Before, Known, Inv, TypeOK
  <2> QED BY <2>1, <2>2 DEF StartIngestion
<1>3. \A s \in Runs, j \in Jobs : Asking(s, j)' => Asking(s, j) \/ j = i
  BY <1>2 DEF Asking
<1>4. file[i] = NoFile
  BY <1>1 DEF Orderly, OnceInv, Once
<1>5. ASSUME NEW j \in Jobs, NEW t \in TaskIds, Owed(t, j)' PROVE Produced(t, j)'
  <2>1. Owed(t, j)
    BY <1>1, <1>2, <1>5, NullAssumption DEF Owed, IdleRun
  <2>2. /\ Past(t, {"enqueue"}) => Past(t, {"enqueue"})'
        /\ Past(t, {"ready", "enqueue"}) => Past(t, {"ready", "enqueue"})'
    BY <1>1, <1>2 DEF Past, IdleRun
  <2> QED BY <1>1, <2>1, <2>2, ProducedKept DEF Orderly
<1>6. ASSUME NEW j \in Jobs PROVE Once(j)'
  BY <1>1, <1>3, <1>4, <1>5 DEF Once, Orderly, OnceInv
<1>7. ASSUME NEW s \in Runs, runs'[s].pc \in Opened PROVE manifest'[runs'[s].job] = "whole"
  BY <1>1, <1>2, <1>7 DEF Opened, Orderly, OnceInv
<1> QED BY <1>6, <1>7 DEF OnceInv

LEMMA OnceNext ==
    ASSUME NothingRepeated, CallsAnswered, Orderly, [Next]_vars
    PROVE  OnceInv'
<1>1. ASSUME NEW r \in Runs, Step(r) PROVE OnceInv'
  <2>1. CASE HandlerStep(r) \/ Enqueue(r)
    BY <2>1, HandlersOnce, EnqueueOnce
  <2>2. CASE Settle(r)
    <3>1. UNCHANGED <<file, manifest, status>> /\ runs[r].pc \in {"nil", "err"}
      BY <2>2 DEF Settle
    <3>2. runs'[r].pc = "idle" /\ \A s \in Runs : s # r => runs'[s] = runs[s]
      BY <2>2 DEF Settle, IdleRun, Orderly, Before, Known, Inv, TypeOK
    <3>3. NothingNew
      BY <2>2, SettleBrings DEF Orderly
    <3> QED BY <3>1, <3>2, <3>3, AroundOnce
  <2> QED BY <1>1, <2>1, <2>2 DEF Step, HandlerStep
<1>2. ASSUME NEW w \in Workers, NEW t \in TaskIds, Dequeue(w, t) PROVE OnceInv'
  <2>1. UNCHANGED <<file, manifest, status>> /\ runs[w].pc = "idle"
    BY <1>2 DEF Dequeue, IdleRun
  <2> QED BY <1>2, <2>1, DequeueBrings, AroundOnce DEF Orderly
<1>3. ASSUME NEW r \in Reembedders, NEW j \in Jobs, Reembed(r, j) PROVE OnceInv'
  <2>1. UNCHANGED <<file, manifest, status>> /\ runs[r].pc = "idle"
    BY <1>3 DEF Reembed, IdleRun
  <2> QED BY <1>3, <2>1, ReembedBrings, AroundOnce DEF Orderly
<1>4. ASSUME NEW t \in TaskIds, Recover(t) PROVE OnceInv'
  BY <1>4, RecoverBrings, AroundOnce DEF Recover, Orderly
<1>5. CASE \/ UNCHANGED vars
           \/ \E f \in Files : ProviderSettles(f)
           \/ \E j \in Jobs : DeleteVideo(j)
  <2>1. /\ UNCHANGED <<file, manifest, tasks, runs>>
        /\ \A j \in Jobs : status'[j] \in {status[j], "GONE"}
    BY <1>5 DEF vars, ProviderSettles, DeleteVideo, Orderly, Before, Known, Inv, TypeOK
  <2> QED BY <2>1, AroundOnce DEF NothingNew, Owed, Asking
<1>6. /\ \A r \in Runs : ~Expire(r) /\ ~Crash(r)
      /\ \A j \in Jobs : ~EditManifest(j)
  BY DEF NothingRepeated, CallsAnswered, Expire, Crash, EditManifest
<1> QED BY <1>1, <1>2, <1>3, <1>4, <1>5, <1>6, RequestOnce DEF Next

LEMMA OnceInit == Init => OnceInv
BY DEF Init, OnceInv, Once, Asking, Owed, Opened, IdleRun, FreeTask

\* Then neither accident happens ...
LEMMA OnceIsSafe ==
    ASSUME Orderly, [Next]_vars
    PROVE  FileIdKept /\ ReadsWhole
<1>1. ReadsWhole
  BY DEF ReadsWhole, Orderly, OnceInv, Opened
<1>2. ASSUME NEW r \in Runs, UpdateJobAfterUpload(r) PROVE FileIdKept
  BY <1>2, UploadsFirst
  DEF UpdateJobAfterUpload, FileIdKept, Orderly, Before, Known, Inv, TypeOK
<1>3. ASSUME \A r \in Runs : ~UpdateJobAfterUpload(r) PROVE UNCHANGED file
  BY <1>3 DEF Next, vars, StartIngestion, Reembed, Dequeue, Step, Enqueue, Settle, Expire,
              Crash, Recover, ProviderSettles, EditManifest, DeleteVideo, MarkFailed,
              MarkFailedQuietly, GetJob, UploadFile, PollFileState, Activate, BeginAnalysis,
              GenerateMetadata, TruncateManifest, WriteManifest, FinishAnalysis,
              BeginEmbedding, BeginReembedding, LoadManifest, EmbedScenes, StoreScenes,
              Complete, SetStatus
<1> QED BY <1>1, <1>2, <1>3 DEF FileIdKept

\* ... and when neither a message is repeated nor a call fails, a job is FAILED only
\* because the provider could not process its file: however many workers and
\* requests (re-embed requests too) work on the jobs at once, however often a
\* state check is retried, and also when videos are deleted under the handlers.
THEOREM UndisturbedFailsForCause ==
    ASSUME NothingRepeated, CallsAnswered
    PROVE  Spec => []FailedForCause
<1>1. Before /\ Orderly /\ [Next]_vars => CauseInv' /\ OnceInv'
  BY OnceIsSafe, CauseNext, OnceNext DEF Orderly, Before
<1>2. Orderly => FailedForCause
  BY DEF Orderly, CauseInv
<1> QED
  BY <1>1, <1>2, SequenceInvariance, CauseInit, OnceInit, PTL DEF Spec, Orderly

-----------------------------------------------------------------------------
(* What an analysis rests on, whatever is repeated, fails or dies.          *)

\* Each file is uploaded for one job: it is named by one row, or held by the one
\* uploader that is about to write it there.
FileInv ==
    /\ \A i, j \in Jobs : i # j /\ file[i] = file[j] => file[i] = NoFile
    /\ \A j \in Jobs : file[j] # NoFile => provider[file[j]] # "unused"
    /\ \A r \in Runs : runs[r].pc = "uploaded" =>
          /\ runs[r].file \in Files /\ provider[runs[r].file] # "unused"
          /\ \A j \in Jobs : file[j] # runs[r].file
          /\ \A s \in Runs \ {r} :
                runs[s].pc = "uploaded" => runs[s].file # runs[r].file

\* File f was uploaded, and is that of job j or nobody's.
Mine(f, j) == f \in Files /\ provider[f] # "unused" /\ (f = file[j] \/ Lost(f))

\* A handler past the state check, or in it once the file is known to be ACTIVE.
Rests(run) ==
    /\ run.pc = "poll" => Mine(run.file, run.job)
    /\ \/ run.kind = "state" /\ run.pc \in {"activate", "enqueue"}
       \/ run.kind \in {"analyze", "embed"}
       \/ run.kind = "manual" /\ run.pc \notin {"get", "nil", "err"}
       => FileReady(run.job)

ReadyInv == AnalysisFollowsActivation /\ \A r \in Runs : Rests(runs[r])

\* Only the uploader brings files.
LEMMA NamesKept ==
    ASSUME Known, [Next]_vars,
           \A r \in Runs : ~UploadFile(r) /\ ~UpdateJobAfterUpload(r)
    PROVE  /\ UNCHANGED file
           /\ \A s \in Runs : runs'[s].pc = "uploaded"
                 => runs[s].pc = "uploaded" /\ runs'[s].file = runs[s].file
           /\ \A f \in Files : provider[f] # "unused" => provider'[f] # "unused"
<1>1. ASSUME NEW r \in Runs, HandlerStep(r)
      PROVE  \A s \in Runs : runs'[s].pc = "uploaded" => runs'[s] = runs[s]
  <2>1. PICK pc \in Pcs \ {"uploaded"} : Arrives(r, pc)
    <3>1. CASE \/ MarkFailed(r) \/ MarkFailedQuietly(r) \/ Activate(r) \/ BeginAnalysis(r)
               \/ FinishAnalysis(r) \/ BeginEmbedding(r) \/ BeginReembedding(r) \/ Complete(r)
      BY <3>1
      DEF MarkFailed, MarkFailedQuietly, Activate, BeginAnalysis, FinishAnalysis,
          BeginEmbedding, BeginReembedding, Complete, SetStatus, UpdateJobStatus, Arrives, Pcs
    <3>2. CASE GetJob(r)
      <4>1. \A kind, j : AfterGet(kind, j) \in Pcs \ {"uploaded"}
        BY DEF AfterGet, Pcs
      <4> QED BY <3>2, <4>1 DEF GetJob, Arrives, Pcs
    <3>3. CASE PollFileState(r)
      <4>1. PICK pc \in {"activate", "markQuiet", "err"} :
               runs' = [runs EXCEPT ![r].file = NoFile, ![r].pc = pc]
        BY <3>3 DEF PollFileState
      <4> QED BY <4>1 DEF Arrives, Pcs
    <3>4. CASE \/ GenerateMetadata(r) \/ TruncateManifest(r) \/ WriteManifest(r)
               \/ LoadManifest(r) \/ EmbedScenes(r) \/ StoreScenes(r)
      BY <3>4 DEF GenerateMetadata, TruncateManifest, WriteManifest, LoadManifest, EmbedScenes,
                  StoreScenes, Arrives, Pcs
    <3> QED BY <1>1, <3>1, <3>2, <3>3, <3>4 DEF HandlerStep
  <2>2. Moves(r) /\ runs'[r].pc = pc
    BY <2>1, ArrivesMoves DEF Known
  <2> QED BY <2>2 DEF Moves
<1>2. ASSUME NEW r \in Runs, Enqueue(r) \/ Settle(r)
      PROVE  \A s \in Runs : runs'[s].pc = "uploaded" => runs'[s] = runs[s]
  BY <1>2 DEF Enqueue, Settle, Goto, IdleRun, Known, Inv, TypeOK
<1>3. ASSUME NEW r \in Runs, Expire(r) \/ Crash(r)
      PROVE  \A s \in Runs : runs'[s].pc = "uploaded"
                => runs[s].pc = "uploaded" /\ runs'[s].file = runs[s].file
  <2>1. CASE Expire(r)
    BY <2>1 DEF Expire, Known, Inv, TypeOK
  <2>2. CASE Crash(r)
    BY <2>2 DEF Crash, IdleRun, Known, Inv, TypeOK
  <2> QED BY <1>3, <2>1, <2>2
<1>4. ASSUME NEW w \in Workers, NEW t \in TaskIds, Dequeue(w, t)
      PROVE  \A s \in Runs : runs'[s].pc = "uploaded" => runs'[s] = runs[s]
  BY <1>4 DEF Dequeue, Known, Inv, TypeOK
<1>5. ASSUME NEW r, NEW j \in Jobs,
             (r \in Ingesters /\ StartIngestion(r, j)) \/ (r \in Reembedders /\ Reembed(r, j))
      PROVE  \A s \in Runs : runs'[s].pc = "uploaded" => runs'[s] = runs[s]
  <2>1. r \in Runs
    BY <1>5 DEF Runs
  <2>2. CASE StartIngestion(r, j)
    BY <2>1, <2>2 DEF StartIngestion, IdleRun, Known, Inv, TypeOK
  <2>3. CASE Reembed(r, j)
    BY <2>1, <2>3 DEF Reembed, IdleRun, Known, Inv, TypeOK
  <2> QED BY <1>5, <2>2, <2>3
<1>6. \A s \in Runs : runs'[s].pc = "uploaded"
         => runs[s].pc = "uploaded" /\ runs'[s].file = runs[s].file
  <2>1. CASE UNCHANGED runs
    BY <2>1
  <2>2. CASE \E r \in Runs : Step(r)
    BY <1>1, <1>2, <2>2 DEF Step, HandlerStep
  <2> QED BY <1>3, <1>4, <1>5, <2>1, <2>2
          DEF Next, vars, Recover, ProviderSettles, EditManifest, DeleteVideo
<1>7. UNCHANGED file
  BY DEF Next, vars, StartIngestion, Reembed, Dequeue, Step, Enqueue, Settle, Expire,
         Crash, Recover, ProviderSettles, EditManifest, DeleteVideo, MarkFailed,
         MarkFailedQuietly, GetJob, UploadFile, PollFileState, Activate, BeginAnalysis,
         GenerateMetadata, TruncateManifest, WriteManifest, FinishAnalysis,
         BeginEmbedding, BeginReembedding, LoadManifest, EmbedScenes, StoreScenes,
         Complete, SetStatus
<1>8. ASSUME NEW f \in Files, provider[f] # "unused" PROVE provider'[f] # "unused"
  <2>1. CASE UNCHANGED provider
    BY <1>8, <2>1
  <2>2. ASSUME NEW g \in Files, ProviderSettles(g) PROVE provider'[f] # "unused"
    BY <1>8, <2>2 DEF ProviderSettles, Known, Inv, TypeOK
  <2> QED BY <2>1, <2>2
          DEF Next, vars, StartIngestion, Reembed, Dequeue, Step, Enqueue, Settle, Expire,
              Crash, Recover, EditManifest, DeleteVideo, MarkFailed, MarkFailedQuietly, GetJob,
              PollFileState, Activate, BeginAnalysis, GenerateMetadata, TruncateManifest,
              WriteManifest, FinishAnalysis, BeginEmbedding, BeginReembedding, LoadManifest,
              EmbedScenes, StoreScenes, Complete, SetStatus
<1> QED BY <1>6, <1>7, <1>8

\* The two steps that do.
LEMMA UploadNames ==
    ASSUME Known, NEW r \in Runs, UploadFile(r)
    PROVE  /\ UNCHANGED file /\ \A s \in Runs \ {r} : runs'[s] = runs[s]
           /\ \/ runs'[r].pc = "mark" /\ UNCHANGED provider
              \/ \E f \in Files :
                    /\ provider[f] = "unused" /\ runs'[r].pc = "uploaded" /\ runs'[r].file = f
                    /\ provider'[f] = "PROCESSING"
                    /\ \A g \in Files \ {f} : provider'[g] = provider[g]
<1>1. CASE Goto(r, "mark") /\ UNCHANGED provider
  BY <1>1 DEF UploadFile, Goto, Known, Inv, TypeOK
<1>2. ASSUME NEW f \in Files, Uploaded(f),
             runs' = [runs EXCEPT ![r].pc = "uploaded", ![r].file = f]
      PROVE  /\ provider[f] = "unused" /\ runs'[r].pc = "uploaded" /\ runs'[r].file = f
             /\ provider'[f] = "PROCESSING"
             /\ \A g \in Files \ {f} : provider'[g] = provider[g]
             /\ \A s \in Runs \ {r} : runs'[s] = runs[s]
  BY <1>2 DEF Uploaded, Known, Inv, TypeOK
<1> QED BY <1>1, <1>2 DEF UploadFile

LEMMA RowNames ==
    ASSUME Known, NEW r \in Runs, UpdateJobAfterUpload(r)
    PROVE  /\ UNCHANGED provider /\ runs[r].pc = "uploaded" /\ runs'[r].pc # "uploaded"
           /\ \A s \in Runs \ {r} : runs'[s] = runs[s]
           /\ runs[r].job \in Jobs
           /\ \/ UNCHANGED file
              \/ /\ file'[runs[r].job] = runs[r].file
                 /\ \A j \in Jobs \ {runs[r].job} : file'[j] = file[j]
<1>1. runs[r].job \in Jobs
  BY RunAtCall DEF UpdateJobAfterUpload, Known
<1>2. PICK pc \in {"enqueue", "err"} : runs' = [runs EXCEPT ![r].pc = pc, ![r].file = NoFile]
  BY DEF UpdateJobAfterUpload
<1>3. runs'[r].pc # "uploaded" /\ \A s \in Runs \ {r} : runs'[s] = runs[s]
  BY <1>2 DEF Known, Inv, TypeOK
<1>4. \/ UNCHANGED file
      \/ file' = [file EXCEPT ![runs[r].job] = runs[r].file]
  BY DEF UpdateJobAfterUpload
<1>5. \/ UNCHANGED file
      \/ /\ file'[runs[r].job] = runs[r].file
         /\ \A j \in Jobs \ {runs[r].job} : file'[j] = file[j]
  BY <1>1, <1>4 DEF Known, Inv, TypeOK
<1> QED BY <1>1, <1>3, <1>5 DEF UpdateJobAfterUpload

LEMMA FileNext == ASSUME Known, FileInv, [Next]_vars PROVE FileInv'
<1>1. ASSUME NEW r \in Runs, UploadFile(r) PROVE FileInv'
  <2>1. \A j \in Jobs : file'[j] = file[j] /\ file[j] \in Files \cup {NoFile}
    BY <1>1, UploadNames DEF Known, Inv, TypeOK
  <2>2. CASE runs'[r].pc = "mark" /\ UNCHANGED provider
    BY <1>1, <2>1, <2>2, UploadNames DEF FileInv
  <2>3. ASSUME NEW f \in Files, provider[f] = "unused", runs'[r].pc = "uploaded",
               runs'[r].file = f, provider'[f] = "PROCESSING",
               \A g \in Files \ {f} : provider'[g] = provider[g]
        PROVE  FileInv'
    <3>1. \A g \in Files : provider[g] # "unused" => g # f /\ provider'[g] # "unused"
      BY <2>3
    <3>2. \A j \in Jobs : file[j] # NoFile => file[j] # f /\ provider'[file[j]] # "unused"
      BY <2>1, <3>1 DEF FileInv
    <3>3. \A j \in Jobs : file'[j] # f
      BY <2>1, <3>2, NullAssumption
    <3>4. ASSUME NEW s \in Runs, s # r, runs'[s].pc = "uploaded"
          PROVE  /\ runs'[s] = runs[s] /\ runs[s].pc = "uploaded" /\ runs'[s].file \in Files
                 /\ provider'[runs'[s].file] # "unused" /\ runs'[s].file # f
      <4>1. runs'[s] = runs[s]
        BY <1>1, <3>4, UploadNames
      <4> QED BY <3>1, <3>4, <4>1 DEF FileInv
    <3>5. ASSUME NEW s \in Runs, runs'[s].pc = "uploaded"
          PROVE  /\ runs'[s].file \in Files /\ provider'[runs'[s].file] # "unused"
                 /\ \A j \in Jobs : file'[j] # runs'[s].file
                 /\ \A q \in Runs \ {s} :
                       runs'[q].pc = "uploaded" => runs'[q].file # runs'[s].file
      <4>1. CASE s = r
        BY <2>3, <3>3, <3>4, <4>1
      <4>2. CASE s # r
        BY <2>1, <2>3, <3>4, <3>5, <4>2 DEF FileInv
      <4> QED BY <4>1, <4>2
    <3> QED BY <2>1, <3>2, <3>5 DEF FileInv
  <2> QED BY <1>1, <2>2, <2>3, UploadNames
<1>2. ASSUME NEW r \in Runs, UpdateJobAfterUpload(r) PROVE FileInv'
  <2> DEFINE i == runs[r].job
             f == runs[r].file
  <2>1. f \in Files /\ provider[f] # "unused" /\ \A j \in Jobs : file[j] # f
    BY <1>2, RowNames DEF FileInv
  <2>2. \A j \in Jobs : file'[j] = file[j] \/ (j = i /\ file'[j] = f)
    BY <1>2, RowNames
  <2>3. \A s \in Runs : runs'[s].pc = "uploaded" => s # r /\ runs'[s] = runs[s]
    BY <1>2, RowNames
  <2>4. \A s \in Runs : runs'[s].pc = "uploaded" => runs[s].file # f
    BY <1>2, <2>3, RowNames DEF FileInv
  <2>5. UNCHANGED provider
    BY <1>2, RowNames
  <2>6. \A j, k \in Jobs : j # k /\ file'[j] = file'[k] => file'[j] = NoFile
    BY <2>1, <2>2 DEF FileInv
  <2>7. \A j \in Jobs : file'[j] # NoFile => provider'[file'[j]] # "unused"
    BY <2>1, <2>2, <2>5 DEF FileInv
  <2>8. ASSUME NEW s \in Runs, runs'[s].pc = "uploaded"
        PROVE  /\ runs'[s].file \in Files /\ provider'[runs'[s].file] # "unused"
               /\ \A j \in Jobs : file'[j] # runs'[s].file
               /\ \A q \in Runs \ {s} :
                     runs'[q].pc = "uploaded" => runs'[q].file # runs'[s].file
    BY <2>2, <2>3, <2>4, <2>5, <2>8 DEF FileInv
  <2> QED BY <2>6, <2>7, <2>8 DEF FileInv
<1>3. CASE \A r \in Runs : ~UploadFile(r) /\ ~UpdateJobAfterUpload(r)
  <2>1. \A j \in Jobs : file[j] # NoFile => file[j] \in Files
    BY DEF Known, Inv, TypeOK
  <2> QED BY <1>3, <2>1, NamesKept DEF FileInv
<1> QED BY <1>1, <1>2, <1>3

\* The file of a job stays its own, or becomes nobody's when another replaces it.
LEMMA MineKept ==
    ASSUME Known, FileInv, [Next]_vars, NEW j \in Jobs, NEW f, Mine(f, j)
    PROVE  Mine(f, j)'
<1>1. f \in Files /\ provider[f] # "unused" /\ f # NoFile
  BY NullAssumption DEF Mine
<1>2. ASSUME NEW r \in Runs, UploadFile(r) PROVE Mine(f, j)'
  <2>1. provider'[f] # "unused"
    BY <1>1, <1>2, UploadNames
  <2>2. CASE f = file[j]
    BY <1>1, <1>2, <2>1, <2>2, UploadNames DEF Mine
  <2>3. CASE Lost(f)
    <3>1. runs'[r].pc = "uploaded" => runs'[r].file # f
      BY <1>1, <1>2, UploadNames
    <3>2. Lost(f)'
      BY <1>2, <2>3, <3>1, UploadNames DEF Lost
    <3> QED BY <1>1, <2>1, <3>2 DEF Mine
  <2> QED BY <2>2, <2>3 DEF Mine
<1>3. ASSUME NEW r \in Runs, UpdateJobAfterUpload(r) PROVE Mine(f, j)'
  <2>1. runs[r].file # f /\ UNCHANGED provider
    BY <1>3, RowNames DEF Mine, Lost, FileInv
  <2>2. \A i \in Jobs : file'[i] = f => file[i] = f
    BY <1>3, <2>1, RowNames
  <2>3. \A s \in Runs : runs'[s].pc = "uploaded" => runs[s].pc = "uploaded" /\ runs'[s] = runs[s]
    BY <1>3, RowNames
  <2>4. CASE Lost(f)
    BY <1>1, <2>1, <2>2, <2>3, <2>4 DEF Mine, Lost
  <2>5. CASE f = file[j] /\ file'[j] # f
    <3>1. \A i \in Jobs : file'[i] # f
      BY <1>1, <2>2, <2>5 DEF FileInv
    <3>2. \A s \in Runs : runs'[s].file = f => runs'[s].pc # "uploaded"
      BY <2>3, <2>5 DEF FileInv
    <3> QED BY <1>1, <2>1, <3>1, <3>2 DEF Mine, Lost
  <2>6. CASE f = file[j] /\ file'[j] = f
    BY <1>1, <2>1, <2>6 DEF Mine
  <2> QED BY <2>4, <2>5, <2>6 DEF Mine
<1>4. CASE \A r \in Runs : ~UploadFile(r) /\ ~UpdateJobAfterUpload(r)
  BY <1>1, <1>4, NamesKept DEF Mine, Lost
<1> QED BY <1>2, <1>3, <1>4

LEMMA ReadyKept ==
    ASSUME Known, FileInv, [Next]_vars, NEW j \in Jobs, FileReady(j)
    PROVE  FileReady(j)'
<1>1. PICK f \in Files : provider[f] = "ACTIVE" /\ (f = file[j] \/ Lost(f))
  BY DEF FileReady
<1>2. Mine(f, j)'
  BY <1>1, MineKept DEF Mine
<1>3. provider'[f] = "ACTIVE"
  BY <1>1, VerdictKept DEF Known
<1> QED BY <1>2, <1>3 DEF Mine, FileReady

LEMMA RestsBy ==
    ASSUME NEW r \in Runs, NEW j, runs'[r].job = j,
           runs'[r].pc = "poll" => \E f : runs'[r].file = f /\ Mine(f, j)',
           \/ runs'[r].kind = "state" /\ runs'[r].pc \in {"activate", "enqueue"}
           \/ runs'[r].kind \in {"analyze", "embed"}
           \/ runs'[r].kind = "manual" /\ runs'[r].pc \notin {"get", "nil", "err"}
           => FileReady(j)'
    PROVE  Rests(runs[r])'
BY DEF Rests, Mine, FileReady, Lost

\* What a run rests on nobody takes away, unless it makes a call itself.
LEMMA OthersRest ==
    ASSUME Known, FileInv, ReadyInv, [Next]_vars, NEW s \in Runs, runs'[s] = runs[s]
    PROVE  Rests(runs[s])'
<1>1. CASE runs[s].pc = "idle"
  BY <1>1 DEF Rests, Known, Inv, TypeOK, RunIsBacked, Prepared, PcsOf, IdleRun, EmbedderPcs
<1>2. CASE runs[s].pc # "idle"
  <2>1. PICK j \in Jobs, f \in {runs[s].file} : j = runs[s].job
    BY <1>2, RunAtCall DEF Known
  <2>2. FileReady(j) => FileReady(j)'
    BY ReadyKept
  <2>3. Mine(f, j) => Mine(f, j)'
    BY MineKept
  <2>4. Rests(runs[s])
    BY DEF ReadyInv
  <2> QED BY <2>1, <2>2, <2>3, <2>4, RestsBy DEF Rests
<1> QED BY <1>1, <1>2

LEMMA HandlerRests ==
    ASSUME Known, FileInv, ReadyInv, NEW r \in Runs, HandlerStep(r)
    PROVE  Rests(runs[r])'
<1>1. [Next]_vars
  BY DEF Next, Step, HandlerStep
<1>2. runs[r].pc \notin {"idle", "nil", "err", "enqueue"} /\ Moves(r)
  <2>1. \E pc : Arrives(r, pc)
    <3>1. CASE TruncateManifest(r) \/ WriteManifest(r)
      BY <3>1 DEF TruncateManifest, WriteManifest, Arrives
    <3> QED BY <3>1, HandlerArrives
  <2> QED BY <2>1, ArrivesMoves, HandlerArrives DEF Known
<1>3. PICK j \in Jobs : j = runs[r].job /\ Prepared(runs[r]) /\ Rests(runs[r])
  BY <1>2, RunAtCall DEF Known, ReadyInv
<1>4. Inv'
  BY HandlerInv DEF Known
<1>5. FileReady(j) => FileReady(j)'
  BY <1>1, <1>3, ReadyKept
<1>6. runs'[r] # IdleRun => /\ runs'[r].kind \in DOMAIN PcsOf
                            /\ runs'[r].pc \in PcsOf[runs'[r].kind] \cup {"nil", "err"}
  BY <1>4 DEF Inv, RunIsBacked, Prepared
<1>7. runs'[r].kind = runs[r].kind /\ runs'[r].job = j
  BY <1>2, <1>3 DEF Moves
<1>8. runs'[r].pc \in {"poll", "activate"} => runs[r].kind = "state"
  BY <1>6, <1>7 DEF PcsOf, EmbedderPcs, IdleRun
<1>9. CASE runs[r].kind \in {"analyze", "embed"}
  BY <1>3, <1>5, <1>7, <1>8, <1>9, RestsBy DEF Rests
<1>10. CASE runs[r].kind \in {"upload", "ingest"}
  BY <1>3, <1>7, <1>8, <1>10, RestsBy
<1>11. CASE runs[r].kind = "state"
  <2>1. runs[r].pc \in {"get", "poll", "activate", "markQuiet"}
    BY <1>2, <1>3, <1>11 DEF Prepared, PcsOf
  <2>2. CASE GetJob(r)
    <3>1. \/ Goto(r, "err")
          \/ runs' = [runs EXCEPT ![r].pc = AfterGet("state", j), ![r].file = file[j]]
      BY <1>3, <1>11, <2>2 DEF GetJob
    <3>2. runs[r] \in RunSet /\ UNCHANGED <<file, provider>>
      BY <1>2, <2>2, RunAtCall DEF GetJob, Known
    <3>3. CASE Goto(r, "err")
      BY <1>3, <1>7, <1>11, <3>3, GotoMoves, RestsBy DEF Known, Inv
    <3>4. CASE runs' = [runs EXCEPT ![r].pc = AfterGet("state", j), ![r].file = file[j]]
      <4>1. /\ runs'[r].pc = IF file[j] = NoFile THEN "markQuiet" ELSE "poll"
            /\ runs'[r].file = file[j]
        BY <3>4 DEF AfterGet, Known, Inv, TypeOK
      <4>2. PICK f : f = file[j]
        OBVIOUS
      <4>3. f # NoFile => Mine(f, j)'
        <5>1. f # NoFile => Mine(f, j)
          BY <4>2 DEF Mine, FileInv, Known, Inv, TypeOK
        <5> QED BY <1>1, <5>1, MineKept
      <4> QED BY <1>3, <1>7, <1>11, <4>1, <4>2, <4>3, RestsBy
    <3> QED BY <3>1, <3>3, <3>4
  <2>3. CASE PollFileState(r)
    <3>1. runs[r].pc = "poll" /\ UNCHANGED <<file, provider>>
      BY <2>3 DEF PollFileState
    <3>2. PICK pc \in {"activate", "markQuiet", "err"} :
             /\ runs' = [runs EXCEPT ![r].file = NoFile, ![r].pc = pc]
             /\ pc = "activate" => provider[runs[r].file] = "ACTIVE"
      BY <2>3 DEF PollFileState, FileState
    <3>3. runs'[r].pc = pc
      BY <3>2 DEF Known, Inv, TypeOK
    <3>4. pc = "activate" => FileReady(j)
      BY <1>3, <3>1, <3>2 DEF Rests, Mine, FileReady
    <3> QED BY <1>3, <1>5, <1>7, <1>11, <3>3, <3>4, RestsBy
  <2>4. CASE Activate(r) \/ MarkFailedQuietly(r)
    <3>1. \/ runs[r].pc = "activate"
          \/ Goto(r, "nil")
      BY <2>4 DEF Activate, SetStatus, MarkFailedQuietly, UpdateJobStatus
    <3>2. runs'[r].pc # "poll"
      <4>1. \E pc \in {"enqueue", "err", "nil"} : Goto(r, pc)
        BY <2>4 DEF Activate, SetStatus, MarkFailedQuietly, UpdateJobStatus
      <4> QED BY <4>1, GotoMoves DEF Known, Inv
    <3>3. CASE runs[r].pc = "activate"
      BY <1>3, <1>5, <1>7, <1>11, <3>2, <3>3, RestsBy DEF Rests
    <3>4. CASE Goto(r, "nil")
      BY <1>3, <1>7, <1>11, <3>4, GotoMoves, RestsBy DEF Known, Inv
    <3> QED BY <3>1, <3>3, <3>4
  <2> QED
    BY <2>1, <2>2, <2>3, <2>4
    DEF HandlerStep, MarkFailed, UploadFile, UpdateJobAfterUpload, BeginAnalysis,
        GenerateMetadata, TruncateManifest, WriteManifest, FinishAnalysis, BeginEmbedding,
        BeginReembedding, LoadManifest, EmbedScenes, StoreScenes, Complete, SetStatus
<1>12. CASE runs[r].kind = "manual"
  <2>1. CASE runs[r].pc # "get"
    BY <1>2, <1>3, <1>5, <1>7, <1>8, <1>12, <2>1, RestsBy DEF Rests
  <2>2. CASE runs[r].pc = "get"
    <3>1. GetJob(r)
      BY <2>2
      DEF HandlerStep, MarkFailed, MarkFailedQuietly, UploadFile, UpdateJobAfterUpload,
          PollFileState, Activate, BeginAnalysis, GenerateMetadata, TruncateManifest,
          WriteManifest, FinishAnalysis, BeginEmbedding, BeginReembedding, LoadManifest,
          EmbedScenes, StoreScenes, Complete, SetStatus
    <3>2. CASE status[j] \in {"READY_FOR_EMBEDDING", "COMPLETED"}
      <4>1. FileReady(j)
        BY <1>3, <3>2 DEF ReadyInv, AnalysisFollowsActivation, CheckedStatuses,
           UploadedStatuses, Statuses
      <4> QED BY <1>3, <1>5, <1>7, <1>8, <1>12, <4>1, RestsBy
    <3>3. CASE status[j] \notin {"READY_FOR_EMBEDDING", "COMPLETED"}
      <4>1. AfterGet("manual", j) = "nil"
        BY <3>3 DEF AfterGet
      <4>2. \E pc \in {"nil", "err"} : Arrives(r, pc)
        BY <1>3, <1>12, <3>1, <4>1 DEF GetJob, Arrives
      <4>3. runs'[r].pc \in {"nil", "err"}
        BY <4>2, ArrivesMoves DEF Known
      <4> QED BY <1>3, <1>7, <1>12, <4>3, RestsBy
    <3> QED BY <3>2, <3>3
  <2> QED BY <2>1, <2>2
<1>13. runs[r].kind \in DOMAIN PcsOf
  BY <1>3 DEF Prepared
<1> QED BY <1>9, <1>10, <1>11, <1>12, <1>13 DEF PcsOf

LEMMA RunsRest ==
    ASSUME Known, FileInv, ReadyInv, [Next]_vars, NEW s \in Runs
    PROVE  Rests(runs[s])'
<1>1. CASE runs'[s] = runs[s]
  BY <1>1, OthersRest
<1>2. ASSUME NEW r \in Runs, HandlerStep(r) PROVE Rests(runs[s])'
  <2>1. \E pc : Arrives(r, pc)
    <3>1. CASE TruncateManifest(r) \/ WriteManifest(r)
      BY <3>1 DEF TruncateManifest, WriteManifest, Arrives
    <3> QED BY <1>2, <3>1, HandlerArrives
  <2>2. Moves(r)
    BY <2>1, ArrivesMoves DEF Known
  <2> QED BY <1>1, <1>2, <2>2, HandlerRests DEF Moves
<1>3. CASE runs'[s] = IdleRun
  BY <1>3 DEF Rests, IdleRun
<1>4. ASSUME NEW r \in Runs, Enqueue(r) \/ Expire(r) PROVE Rests(runs[s])'
  <2>1. PICK j : j = runs[s].job
    OBVIOUS
  <2>2. CASE r # s
    BY <1>1, <1>4, <2>2 DEF Enqueue, Expire, Goto, Known, Inv, TypeOK
  <2>3. CASE r = s
    <3>1. runs[r].pc # "idle"
      <4>1. runs[r] # IdleRun
        BY <1>4 DEF Enqueue, Expire, IdleRun
      <4>2. Prepared(runs[r])
        BY <4>1 DEF Known, Inv, RunIsBacked
      <4> QED BY <4>2 DEF Prepared, PcsOf, EmbedderPcs
    <3>2. PICK f : f = runs[s].file
      OBVIOUS
    <3>3. j \in Jobs /\ Rests(runs[s])
      BY <2>1, <2>3, <3>1, RunAtCall DEF Known, ReadyInv
    <3>4. /\ runs'[s].job = j /\ runs'[s].kind = runs[s].kind /\ runs'[s].file = f
          /\ runs'[s].pc = runs[s].pc \/ runs'[s].pc \in {"nil", "err"}
      BY <1>4, <2>1, <2>3, <3>2 DEF Enqueue, Expire, Goto, Known, Inv, TypeOK
    <3>5. FileReady(j) => FileReady(j)'
      BY <3>3, ReadyKept
    <3>6. Mine(f, j) => Mine(f, j)'
      BY <3>3, MineKept
    <3> QED BY <2>1, <3>2, <3>3, <3>4, <3>5, <3>6, RestsBy DEF Rests
  <2> QED BY <2>2, <2>3
<1>5. ASSUME NEW w \in Workers, NEW t \in TaskIds, Dequeue(w, t) PROVE Rests(runs[s])'
  <2>1. PICK j : j = tasks[t].job
    OBVIOUS
  <2>2. CASE w # s
    BY <1>1, <1>5, <2>2 DEF Dequeue, Known, Inv, TypeOK
  <2>3. CASE w = s
    <3>1. runs'[s].job = j /\ runs'[s].kind = tasks[t].type /\ runs'[s].pc = "get"
      BY <1>5, <2>1, <2>3 DEF Dequeue, Known, Inv, TypeOK, Runs
    <3>2. j \in Jobs /\ (tasks[t].type \in {"analyze", "embed"} => FileReady(j))
      BY <1>5, <2>1 DEF Dequeue, Known, Inv, TaskIsBacked, ReadyInv, AnalysisFollowsActivation
    <3>3. tasks[t].type \in {"analyze", "embed"} => FileReady(j)'
      BY <3>2, ReadyKept
    <3> QED BY <3>1, <3>3, RestsBy DEF TaskTypes, Known, Inv, TypeOK
  <2> QED BY <2>2, <2>3
<1>6. ASSUME NEW r, NEW j \in Jobs,
             (r \in Ingesters /\ StartIngestion(r, j)) \/ (r \in Reembedders /\ Reembed(r, j))
      PROVE  Rests(runs[s])'
  <2>1. r \in Runs
    BY <1>6 DEF Runs
  <2>2. \/ runs'[s] = runs[s]
        \/ runs'[s].job = j /\ runs'[s].kind = "ingest" /\ runs'[s].pc = "enqueue"
        \/ runs'[s].job = j /\ runs'[s].kind = "manual" /\ runs'[s].pc = "get"
    <3>1. CASE StartIngestion(r, j)
      <4>1. CASE UNCHANGED runs
        BY <4>1
      <4>2. CASE runs' = [runs EXCEPT ![r] = [IdleRun EXCEPT !.kind = "ingest", !.job = j,
                                                           !.pc = "enqueue", !.live = TRUE]]
        BY <2>1, <4>2 DEF IdleRun, Known, Inv, TypeOK
      <4> QED BY <3>1, <4>1, <4>2 DEF StartIngestion
    <3>2. CASE Reembed(r, j)
      BY <2>1, <3>2 DEF Reembed, IdleRun, Known, Inv, TypeOK
    <3> QED BY <1>6, <3>1, <3>2
  <2> QED BY <1>1, <2>2, RestsBy
<1>7. ASSUME NEW r \in Runs, Settle(r) \/ Crash(r) PROVE Rests(runs[s])'
  <2>1. runs'[s] = runs[s] \/ runs'[s] = IdleRun
    BY <1>7 DEF Settle, Crash, Known, Inv, TypeOK
  <2> QED BY <1>1, <1>3, <2>1
<1>8. CASE UNCHANGED runs
  BY <1>1, <1>8
<1> QED BY <1>2, <1>4, <1>5, <1>6, <1>7, <1>8
        DEF Next, vars, Step, HandlerStep, Recover, ProviderSettles, EditManifest, DeleteVideo

\* A task for a later stage is enqueued by a run that rests on such a file.
LEMMA TasksRest ==
    ASSUME Known, FileInv, ReadyInv, [Next]_vars, NEW t \in TaskIds,
           tasks'[t].state # "free", tasks'[t].type \in {"analyze", "embed"}
    PROVE  FileReady(tasks[t].job)'
<1>1. CASE tasks[t].state # "free" /\ UNCHANGED <<tasks[t].type, tasks[t].job>>
  <2>1. PICK j \in Jobs : j = tasks[t].job
    BY <1>1 DEF Known, Inv, TaskIsBacked
  <2>2. FileReady(j)
    BY <1>1, <2>1 DEF ReadyInv, AnalysisFollowsActivation
  <2>3. FileReady(j)' /\ tasks'[t].job = j
    BY <1>1, <2>1, <2>2, ReadyKept
  <2> QED BY <2>3 DEF FileReady, Lost
<1>2. ASSUME NEW r \in Runs, Enqueue(r), tasks'[t] # tasks[t]
      PROVE  FileReady(tasks[t].job)'
  <2>1. PICK j \in Jobs : j = runs[r].job /\ Prepared(runs[r]) /\ Rests(runs[r])
    BY <1>2, RunAtCall DEF Enqueue, Known, ReadyInv
  <2>2. PICK u \in TaskIds : AddTask(r, u)
    BY <1>2 DEF Enqueue
  <2>3. tasks'[t].job = j /\ tasks'[t].type = NextType[runs[r].kind]
    BY <1>2, <2>1, <2>2 DEF AddTask, Known, Inv, TypeOK
  <2>4. runs[r].pc = "enqueue" /\ runs[r].kind \in {"state", "analyze"}
    BY <1>2, <2>1, <2>3 DEF Enqueue, Prepared, NextType
  <2>5. FileReady(j)'
    BY <2>1, <2>4, ReadyKept DEF Rests
  <2> QED BY <2>3, <2>5 DEF FileReady, Lost
<1>3. ASSUME NEW u \in TaskIds, Ack(u) \/ Nack(u), tasks[u].state # "free"
      PROVE  FileReady(tasks[t].job)'
  BY <1>1, <1>3 DEF Ack, Nack, FreeTask, Known, Inv, TypeOK
<1>4. ASSUME NEW w \in Workers, NEW u \in TaskIds, Dequeue(w, u)
      PROVE  FileReady(tasks[t].job)'
  BY <1>1, <1>4 DEF Dequeue, Known, Inv, TypeOK
<1>5. CASE UNCHANGED tasks
  BY <1>1, <1>5
<1>6. ASSUME NEW r \in Runs, Settle(r) PROVE FileReady(tasks[t].job)'
  <2>1. CASE runs[r].task = NoTask
    BY <1>5, <1>6, <2>1 DEF Settle
  <2>2. CASE runs[r].task # NoTask
    BY <1>3, <1>6, <2>2 DEF Settle, LeaseIsExclusive, Known, Inv, TypeOK
  <2> QED BY <2>1, <2>2
<1>7. ASSUME NEW u \in TaskIds, Recover(u) PROVE FileReady(tasks[t].job)'
  BY <1>3, <1>7 DEF Recover
<1>8. ASSUME NEW r \in Runs, HandlerStep(r) PROVE FileReady(tasks[t].job)'
  BY <1>5, <1>8, HandlerArrives
<1> QED
  BY <1>1, <1>2, <1>4, <1>5, <1>6, <1>7, <1>8
  DEF Next, vars, Step, HandlerStep, StartIngestion, Reembed, Expire, Crash, ProviderSettles,
      EditManifest, DeleteVideo

\* What a handler writes.
LEMMA HandlerWrites ==
    ASSUME Known, NEW r \in Runs, HandlerStep(r), NEW j \in Jobs,
           status'[j] # status[j] \/ manifest'[j] # manifest[j]
    PROVE  /\ j = runs[r].job
           /\ \/ /\ status'[j] \in {"FAILED", "UPLOADED_TO_PROVIDER"}
                 /\ manifest'[j] = manifest[j]
              \/ runs[r].pc \in {"activate", "analyzing", "truncate", "write", "ready",
                                 "embedding", "reembedding", "complete"}
<1>1. /\ status \in [Jobs -> Statuses] /\ manifest \in [Jobs -> Manifests]
      /\ runs[r].job \in Jobs
  BY HandlerArrives, RunAtCall DEF Known, Inv, TypeOK
<1>2. ASSUME NEW next, NEW ok, NEW failed, UpdateJobStatus(r, next, ok, failed)
      PROVE  \A i \in Jobs : status'[i] = status[i] \/ (i = runs[r].job /\ status'[i] = next)
  BY <1>1, <1>2 DEF UpdateJobStatus, Updated
<1>3. CASE MarkFailed(r) \/ MarkFailedQuietly(r)
  <2>1. PICK ok, failed : UpdateJobStatus(r, "FAILED", ok, failed)
    BY <1>3 DEF MarkFailed, MarkFailedQuietly, SetStatus
  <2>2. UNCHANGED manifest
    BY <1>3 DEF MarkFailed, MarkFailedQuietly, SetStatus
  <2> QED BY <1>2, <2>1, <2>2
<1>4. CASE UpdateJobAfterUpload(r)
  BY <1>1, <1>4 DEF UpdateJobAfterUpload, Updated
<1>5. CASE Activate(r)
  BY <1>2, <1>5 DEF Activate, SetStatus
<1>6. CASE BeginAnalysis(r)
  BY <1>2, <1>6 DEF BeginAnalysis, SetStatus
<1>7. CASE FinishAnalysis(r)
  BY <1>2, <1>7 DEF FinishAnalysis, SetStatus
<1>8. CASE BeginEmbedding(r)
  BY <1>2, <1>8 DEF BeginEmbedding, SetStatus
<1>9. CASE BeginReembedding(r)
  BY <1>2, <1>9 DEF BeginReembedding, SetStatus
<1>10. CASE Complete(r)
  BY <1>2, <1>10 DEF Complete, SetStatus
<1>11. CASE TruncateManifest(r) \/ WriteManifest(r)
  BY <1>1, <1>11 DEF TruncateManifest, WriteManifest
<1> QED
  BY <1>3, <1>4, <1>5, <1>6, <1>7, <1>8, <1>9, <1>10, <1>11
  DEF HandlerStep, GetJob, UploadFile, PollFileState, GenerateMetadata, LoadManifest,
      EmbedScenes, StoreScenes

LEMMA RowsRest ==
    ASSUME Known, FileInv, ReadyInv, [Next]_vars, NEW j \in Jobs,
           status'[j] \in CheckedStatuses \/ manifest'[j] # "none"
    PROVE  FileReady(j)'
<1>1. ~({"FAILED", "UPLOADED_TO_PROVIDER", "PENDING", "GONE"} \cap CheckedStatuses # {})
  BY DEF CheckedStatuses, UploadedStatuses
<1>2. CASE /\ status'[j] = status[j] \/ status'[j] \notin CheckedStatuses
           /\ manifest'[j] = manifest[j] \/ manifest[j] # "none"
  BY <1>2, ReadyKept DEF ReadyInv, AnalysisFollowsActivation
<1>3. ASSUME NEW r \in Runs, HandlerStep(r) PROVE FileReady(j)'
  <2>1. CASE status'[j] = status[j] /\ manifest'[j] = manifest[j]
    BY <1>2, <2>1
  <2>2. CASE status'[j] # status[j] \/ manifest'[j] # manifest[j]
    <3>1. Prepared(runs[r]) /\ Rests(runs[r])
      BY <1>3, HandlerArrives, RunAtCall DEF Known, ReadyInv
    <3>2. CASE status'[j] \in {"FAILED", "UPLOADED_TO_PROVIDER"} /\ manifest'[j] = manifest[j]
      BY <1>1, <1>2, <3>2
    <3>3. CASE /\ j = runs[r].job
               /\ runs[r].pc \in {"activate", "analyzing", "truncate", "write", "ready",
                                  "embedding", "reembedding", "complete"}
      <4>1. \/ runs[r].kind = "state" /\ runs[r].pc = "activate"
            \/ runs[r].kind \in {"analyze", "embed", "manual"}
        BY <3>1, <3>3 DEF Prepared, PcsOf, EmbedderPcs
      <4>2. FileReady(j)
        BY <3>1, <3>3, <4>1 DEF Rests
      <4> QED BY <4>2, ReadyKept
    <3> QED BY <1>3, <2>2, <3>2, <3>3, HandlerWrites
  <2> QED BY <2>1, <2>2
<1>4. ASSUME NEW r, NEW i \in Jobs, StartIngestion(r, i) PROVE FileReady(j)'
  <2>1. /\ status'[j] = status[j] \/ status'[j] = "PENDING"
        /\ manifest'[j] = manifest[j]
    BY <1>4 DEF StartIngestion, Known, Inv, TypeOK
  <2> QED BY <1>1, <1>2, <2>1
<1>5. ASSUME NEW i \in Jobs, EditManifest(i) PROVE FileReady(j)'
  BY <1>2, <1>5 DEF EditManifest, Known, Inv, TypeOK
<1>6. ASSUME NEW i \in Jobs, DeleteVideo(i) PROVE FileReady(j)'
  <2>1. /\ status'[j] = status[j] \/ status'[j] = "GONE"
        /\ manifest'[j] = manifest[j]
    BY <1>6 DEF DeleteVideo, Known, Inv, TypeOK
  <2> QED BY <1>1, <1>2, <2>1
<1>7. CASE UNCHANGED <<status, manifest>>
  BY <1>2, <1>7
<1> QED
  BY <1>3, <1>4, <1>5, <1>6, <1>7
  DEF Next, vars, Step, HandlerStep, Reembed, Dequeue, Enqueue, Settle, Expire, Crash, Recover,
      ProviderSettles

LEMMA ReadyNext == ASSUME Known, FileInv, ReadyInv, [Next]_vars PROVE ReadyInv'
<1>1. \A s \in Runs : Rests(runs[s])'
  BY RunsRest
<1>2. \A t \in TaskIds :
         tasks'[t].state # "free" /\ tasks'[t].type \in {"analyze", "embed"}
         => FileReady(tasks[t].job)'
  BY TasksRest
<1>3. \A j \in Jobs :
         status'[j] \in CheckedStatuses \/ manifest'[j] # "none" => FileReady(j)'
  BY RowsRest
<1> QED BY <1>1, <1>2, <1>3
        DEF ReadyInv, AnalysisFollowsActivation, CheckedStatuses, UploadedStatuses, Statuses

LEMMA ReadyInit == Init => FileInv /\ ReadyInv
BY DEF Init, FileInv, ReadyInv, AnalysisFollowsActivation, CheckedStatuses, UploadedStatuses,
       Rests, IdleRun, FreeTask

\* No analysis begins before the provider has finished with a file of the job:
\* whatever is lost, late, repeated or deleted, whoever dies, and though the state
\* checker acts on a file id another upload may meanwhile have replaced.
THEOREM AnalysesWait == Spec => []AnalysisFollowsActivation
<1>1. Known /\ FileInv /\ ReadyInv /\ [Next]_vars => (FileInv /\ ReadyInv)'
  BY FileNext, ReadyNext
<1>2. ReadyInv => AnalysisFollowsActivation
  BY DEF ReadyInv
<1> QED BY <1>1, <1>2, ReadyInit, KnownInvariance, PTL DEF Spec

=============================================================================
