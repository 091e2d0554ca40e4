-------------------------- MODULE LifecycleProofs ---------------------------
(***************************************************************************)
(* The pipeline implements Lifecycle: every step is a step of the life     *)
(* cycle of one job, or leaves statuses and evidence alone.                *)
(***************************************************************************)
EXTENDS PipelineProofs

\* A step that touches neither status nor evidence is a stutter.
LEMMA QuietStep ==
    ASSUME UNCHANGED <<status, file, manifest, stored>>
    PROVE  UNCHANGED Job!vars
BY DEF Job!vars

LEMMA EvidenceStep ==
    ASSUME NEW j \in Jobs, Job!Create(j) \/ Job!Upload(j) \/ Job!Analyze(j) \/ Job!Embed(j)
    PROVE  [Job!Next]_(Job!vars)
BY DEF Job!Next

\* A status update of a run that is entitled to it is a step of the life cycle.
LEMMA UpdateStep ==
    ASSUME Inv, NEW r \in Runs, runs[r].pc # "idle",
           NEW next \in {"READY_FOR_ANALYSIS", "ANALYZING", "READY_FOR_EMBEDDING",
                         "EMBEDDING", "MANUAL_EMBEDDING", "COMPLETED", "FAILED"},
           NEW ok, NEW failed, UpdateJobStatus(r, next, ok, failed),
           UNCHANGED <<file, manifest, stored>>,
           Entitled(next, runs[r].job)
    PROVE  [Job!Next]_(Job!vars)
<1> DEFINE j == runs[r].job
<1>1. j \in Jobs /\ status[j] # "NONE"
  BY RunAtCall DEF Prepared, Backed
<1>2. CASE UNCHANGED status
  BY <1>2, QuietStep
<1>3. CASE status' = [status EXCEPT ![j] = next] /\ status[j] # "GONE"
  <2>1. Job!Enter(j, next) /\ UNCHANGED {i \in Jobs : file[i] # NoFile}
    BY <1>3 DEF Job!Enter
  <2>2. CASE next \in {"READY_FOR_ANALYSIS", "ANALYZING"}
    BY <1>1, <2>1, <2>2 DEF Job!Next, Job!Analysis, Entitled, UploadedStatuses, Statuses
  <2>3. CASE next \in {"READY_FOR_EMBEDDING", "EMBEDDING"}
    BY <1>1, <2>1, <2>3 DEF Job!Next, Job!Embedding, Entitled, AnalyzedStatuses
  <2>4. CASE next \in {"MANUAL_EMBEDDING", "COMPLETED"}
    BY <1>1, <2>1, <2>4 DEF Job!Next, Job!Completion, Entitled, EmbeddedStatuses
  <2>5. CASE next = "FAILED"
    BY <1>1, <2>1, <2>5 DEF Job!Next, Job!Fail
  <2> QED BY <2>2, <2>3, <2>4, <2>5
<1> QED BY <1>2, <1>3 DEF UpdateJobStatus, Updated


\* What a run that stands at a status update is entitled to.
Claim == [mark |-> "FAILED", markQuiet |-> "FAILED", activate |-> "READY_FOR_ANALYSIS",
          analyzing |-> "ANALYZING", ready |-> "READY_FOR_EMBEDDING",
          embedding |-> "EMBEDDING", reembedding |-> "MANUAL_EMBEDDING",
          complete |-> "COMPLETED"]

LEMMA ClaimIsEntitled ==
    ASSUME Inv, NEW r \in Runs, runs[r].pc \in DOMAIN Claim
    PROVE  Entitled(Claim[runs[r].pc], runs[r].job)
<1>1. runs[r].pc # "idle"
  BY DEF Claim
<1>2. Prepared(runs[r]) /\ runs[r].job \in Jobs
  BY <1>1, RunAtCall
<1>3. EvidenceInOrder(runs[r].job)
  BY <1>2 DEF Inv, StatusIsBacked
<1>4. CASE runs[r].pc \in {"mark", "markQuiet"}
  BY <1>4 DEF Claim, Entitled, UploadedStatuses, AnalyzedStatuses, EmbeddedStatuses
<1>5. CASE runs[r].pc \in {"activate", "analyzing"}
  BY <1>2, <1>5 DEF Claim, Entitled, AnalyzedStatuses, EmbeddedStatuses, Prepared, PcsOf,
                    EmbedderPcs, Backed
<1>6. CASE runs[r].pc \in {"ready", "embedding"}
  BY <1>2, <1>3, <1>6 DEF Claim, Entitled, EmbeddedStatuses, Prepared, EvidenceInOrder
<1>7. CASE runs[r].pc \in {"reembedding", "complete"}
  BY <1>2, <1>3, <1>7 DEF Claim, Entitled, Prepared, EvidenceInOrder
<1> QED BY <1>4, <1>5, <1>6, <1>7 DEF Claim

LEMMA SetStatusStep ==
    ASSUME Inv, NEW r \in Runs, NEW pc \in DOMAIN Claim, NEW ok, NEW failed,
           SetStatus(r, pc, Claim[pc], ok, failed)
    PROVE  [Job!Next]_(Job!vars)
<1>1. Claim[pc] \in {"READY_FOR_ANALYSIS", "ANALYZING", "READY_FOR_EMBEDDING",
                     "EMBEDDING", "MANUAL_EMBEDDING", "COMPLETED", "FAILED"}
  BY DEF Claim
<1>2. runs[r].pc = pc /\ pc # "idle"
  BY DEF SetStatus, Claim
<1>3. Entitled(Claim[pc], runs[r].job)
  BY <1>2, ClaimIsEntitled
<1> HIDE DEF Claim
<1> QED BY <1>1, <1>2, <1>3, UpdateStep DEF SetStatus

LEMMA UploadStep ==
    ASSUME Inv, NEW r \in Runs, UpdateJobAfterUpload(r)
    PROVE  [Job!Next]_(Job!vars)
<1>1. runs[r].pc = "uploaded"
  BY DEF UpdateJobAfterUpload
<1>2. PICK j \in Jobs : /\ j = runs[r].job
                        /\ status[j] # "NONE" /\ runs[r].file # NoFile
  BY <1>1, RunAtCall DEF Prepared, Backed
<1>3. CASE UNCHANGED <<status, file>>
  BY <1>3, QuietStep DEF UpdateJobAfterUpload
<1>4. CASE /\ file' = [file EXCEPT ![j] = runs[r].file]
           /\ status' = [status EXCEPT ![j] = "UPLOADED_TO_PROVIDER"]
           /\ status[j] # "GONE"
  <2>1. {i \in Jobs : file'[i] # NoFile} = {i \in Jobs : file[i] # NoFile} \cup {j}
    BY <1>2, <1>4 DEF Inv, TypeOK
  <2>2. Job!Upload(j)
    BY <1>2, <1>4, <2>1 DEF Job!Upload, Job!Enter, UpdateJobAfterUpload
  <2> QED BY <2>2, EvidenceStep
<1> QED BY <1>2, <1>3, <1>4 DEF UpdateJobAfterUpload, Updated

LEMMA ManifestStep ==
    ASSUME Inv, NEW r \in Runs, runs[r].pc \in {"truncate", "write"},
           NEW m \in {"torn", "whole"},
           manifest' = [manifest EXCEPT ![runs[r].job] = m],
           UNCHANGED <<status, file, stored>>
    PROVE  [Job!Next]_(Job!vars)
<1>1. PICK j \in Jobs : j = runs[r].job /\ file[j] # NoFile
  BY RunAtCall DEF Prepared, PcsOf, EmbedderPcs, Backed
<1>2. {i \in Jobs : manifest'[i] # "none"} = {i \in Jobs : manifest[i] # "none"} \cup {j}
  BY <1>1 DEF Inv, TypeOK
<1>3. Job!Analyze(j)
  BY <1>1, <1>2 DEF Job!Analyze
<1> QED BY <1>3, EvidenceStep

LEMMA StoreStep ==
    ASSUME Inv, NEW r \in Runs, StoreScenes(r)
    PROVE  [Job!Next]_(Job!vars)
<1>1. runs[r].pc = "store"
  BY DEF StoreScenes
<1>2. PICK j \in Jobs : j = runs[r].job /\ manifest[j] # "none"
  BY <1>1, RunAtCall DEF Prepared
<1>3. CASE UNCHANGED stored
  BY <1>3, QuietStep DEF StoreScenes
<1>4. CASE stored' = stored \cup {j}
  <2>1. Job!Embed(j)
    BY <1>2, <1>4 DEF Job!Embed, StoreScenes
  <2> QED BY <2>1, EvidenceStep
<1> QED BY <1>2, <1>3, <1>4 DEF StoreScenes

\* Every step of a handler.
LEMMA HandlerLifecycle ==
    ASSUME Inv, NEW r \in Runs, HandlerStep(r)
    PROVE  [Job!Next]_(Job!vars)
<1>1. CASE MarkFailed(r)
  BY <1>1, SetStatusStep DEF MarkFailed, Claim
<1>2. CASE MarkFailedQuietly(r)
  <2>1. runs[r].pc = "markQuiet"
    BY <1>2 DEF MarkFailedQuietly
  <2>2. Entitled("FAILED", runs[r].job)
    BY <2>1, ClaimIsEntitled DEF Claim
  <2> QED BY <1>2, <2>1, <2>2, UpdateStep DEF MarkFailedQuietly
<1>3. CASE Activate(r) \/ BeginAnalysis(r) \/ FinishAnalysis(r)
  BY <1>3, SetStatusStep DEF Activate, BeginAnalysis, FinishAnalysis, Claim
<1>4. CASE BeginEmbedding(r) \/ BeginReembedding(r) \/ Complete(r)
  BY <1>4, SetStatusStep DEF BeginEmbedding, BeginReembedding, Complete, Claim
<1>5. CASE UpdateJobAfterUpload(r)
  BY <1>5, UploadStep
<1>6. CASE TruncateManifest(r)
  BY <1>6, ManifestStep, QuietStep DEF TruncateManifest
<1>7. CASE WriteManifest(r)
  BY <1>7, ManifestStep, QuietStep DEF WriteManifest
<1>8. CASE StoreScenes(r)
  BY <1>8, StoreStep
<1>9. CASE \/ GetJob(r) \/ UploadFile(r) \/ PollFileState(r) \/ GenerateMetadata(r)
           \/ LoadManifest(r) \/ EmbedScenes(r)
  BY <1>9, QuietStep
  DEF GetJob, UploadFile, Uploaded, PollFileState, FileState, GenerateMetadata, LoadManifest, EmbedScenes
<1> QED
  BY <1>1, <1>2, <1>3, <1>4, <1>5, <1>6, <1>7, <1>8, <1>9 DEF HandlerStep

LEMMA StartStep ==
    ASSUME NEW r \in Ingesters, NEW j \in Jobs, StartIngestion(r, j)
    PROVE  [Job!Next]_(Job!vars)
<1>1. Job!Create(j)
  BY DEF StartIngestion, Job!Create, Job!Enter
<1> QED BY <1>1, EvidenceStep

\* An edit keeps a manifest a manifest.
LEMMA EditStep ==
    ASSUME Inv, NEW j \in Jobs, EditManifest(j)
    PROVE  [Job!Next]_(Job!vars)
<1>1. {i \in Jobs : manifest'[i] # "none"} = {i \in Jobs : manifest[i] # "none"}
  BY DEF EditManifest, Inv, TypeOK
<1> QED BY <1>1 DEF EditManifest, Job!vars

LEMMA DeleteStep ==
    ASSUME NEW j \in Jobs, DeleteVideo(j)
    PROVE  [Job!Next]_(Job!vars)
<1>1. Job!Delete(j)
  BY DEF DeleteVideo, Job!Delete, Job!Enter
<1> QED BY <1>1 DEF Job!Next

LEMMA LifecycleInit == Init => Job!Init
BY DEF Init, Job!Init

LEMMA LifecycleNext == Inv /\ [Next]_vars => [Job!Next]_(Job!vars)
<1> SUFFICES ASSUME Inv, [Next]_vars PROVE [Job!Next]_(Job!vars)
  OBVIOUS
<1>1. CASE UNCHANGED vars
  BY <1>1, QuietStep DEF vars
<1>2. ASSUME NEW r \in Runs, Step(r) PROVE [Job!Next]_(Job!vars)
  BY <1>2, HandlerLifecycle, QuietStep DEF Step, HandlerStep, Enqueue, Settle
<1>3. ASSUME NEW r \in Runs, Expire(r) \/ Crash(r) PROVE [Job!Next]_(Job!vars)
  BY <1>3, QuietStep DEF Expire, Crash
<1>4. ASSUME NEW r \in Reembedders, NEW j \in Jobs, Reembed(r, j)
      PROVE  [Job!Next]_(Job!vars)
  BY <1>4, QuietStep DEF Reembed
<1>5. ASSUME NEW w \in Workers, NEW t \in TaskIds, Dequeue(w, t) \/ Recover(t)
      PROVE  [Job!Next]_(Job!vars)
  BY <1>5, QuietStep DEF Dequeue, Recover
<1>6. ASSUME NEW t \in TaskIds, Recover(t) PROVE [Job!Next]_(Job!vars)
  BY <1>6, QuietStep DEF Recover
<1>7. ASSUME NEW f \in Files, ProviderSettles(f) PROVE [Job!Next]_(Job!vars)
  BY <1>7, QuietStep DEF ProviderSettles
<1> QED
  BY <1>1, <1>2, <1>3, <1>4, <1>5, <1>6, <1>7, StartStep, EditStep, DeleteStep DEF Next

\* The pipeline implements the life cycle, for any number of jobs, workers and
\* retries and any faults: statuses only claim what evidence backs, and
\* evidence appears in order and is never lost.
THEOREM Implementation == Spec => ImplementsLifecycle
<1>1. Spec => []Inv
  BY Invariance, PTL
<1> QED
  BY <1>1, LifecycleInit, LifecycleNext, PTL DEF Spec, ImplementsLifecycle, Job!Spec

=============================================================================
