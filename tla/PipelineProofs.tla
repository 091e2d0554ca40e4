--------------------------- MODULE PipelineProofs ---------------------------
(***************************************************************************)
(* Type correctness and the backing invariant of the pipeline, for any     *)
(* number of jobs, goroutines, tasks and retries, and any set of faults.   *)
(***************************************************************************)
EXTENDS PipelineProperties, TLAPS

TaskSet == [state : {"free", "ready", "active"}, type : TaskTypes,
            job : Jobs \cup {NoJob}, retried : Nat]
RunSet == [kind : Kinds, job : Jobs \cup {NoJob}, task : TaskIds \cup {NoTask},
           pc : Pcs, file : Files \cup {NoFile}, live : BOOLEAN]

\* The inductive invariant.  None of its parts is inductive alone: a status is
\* written by a run that read its evidence earlier, a run is started from a
\* task, and a task is created by a run.
Inv == TypeOK /\ StatusIsBacked /\ TaskIsBacked /\ RunIsBacked

\* Evidence is never lost, and a deleted row never comes back, whatever the step.
Grows ==
    \A j \in Jobs :
        /\ status[j] # "NONE" => status'[j] # "NONE"
        /\ status[j] = "GONE" => status'[j] = "GONE"
        /\ file[j] # NoFile => file'[j] # NoFile
        /\ manifest[j] # "none" => manifest'[j] # "none"
        /\ j \in stored => j \in stored'

-----------------------------------------------------------------------------
(* Lemmas about the steps the handlers share. *)

LEMMA TasksStayBacked ==
    ASSUME Inv, Grows, UNCHANGED tasks
    PROVE  TaskIsBacked'
BY DEF Inv, TaskIsBacked, Backed, Grows

LEMMA RunsStayBacked ==
    ASSUME Inv, Grows, NEW r \in Runs,
           \A s \in Runs \ {r} : runs'[s] = runs[s],
           (runs[r] # IdleRun => Prepared(runs[r]))'
    PROVE  RunIsBacked'
<1>1. ASSUME NEW s \in Runs \ {r}, runs[s] # IdleRun
      PROVE  Prepared(runs[s])'
  <2>1. Prepared(runs[s]) /\ runs'[s] = runs[s]
    BY <1>1 DEF Inv, RunIsBacked
  <2> QED BY <2>1 DEF Prepared, Backed, Grows
<1> QED BY <1>1 DEF RunIsBacked, IdleRun

LEMMA GotoType ==
    ASSUME TypeOK, NEW r \in Runs, NEW pc \in Pcs, Goto(r, pc)
    PROVE  /\ runs' \in [Runs -> RunSet]
           /\ runs'[r] = [runs[r] EXCEPT !.pc = pc]
           /\ \A s \in Runs \ {r} : runs'[s] = runs[s]
BY DEF TypeOK, Goto, RunSet

LEMMA UpdateType ==
    ASSUME TypeOK, NEW r \in Runs, NEW next \in Statuses,
           NEW ok \in Pcs, NEW failed \in Pcs,
           UpdateJobStatus(r, next, ok, failed)
    PROVE  /\ status' \in [Jobs -> Statuses]
           /\ runs' \in [Runs -> RunSet]
           /\ \A s \in Runs \ {r} : runs'[s] = runs[s]
           /\ \E pc \in {ok, failed} : runs'[r] = [runs[r] EXCEPT !.pc = pc]
           /\ \A j \in Jobs :
                 \/ status'[j] = status[j]
                 \/ j = runs[r].job /\ status'[j] = next /\ status[j] # "GONE"
<1>1. status' \in [Jobs -> Statuses]
  BY DEF TypeOK, UpdateJobStatus, Updated
<1>2. \A j \in Jobs :
         \/ status'[j] = status[j]
         \/ j = runs[r].job /\ status'[j] = next /\ status[j] # "GONE"
  BY DEF TypeOK, UpdateJobStatus, Updated
<1>3. \E pc \in {ok, failed} : Goto(r, pc)
  BY DEF UpdateJobStatus
<1> QED BY <1>1, <1>2, <1>3, GotoType

\* A status update preserves the invariant when the run may claim the new
\* status and is prepared for both places where it may go on.
LEMMA UpdateInv ==
    ASSUME Inv, NEW r \in Runs, NEW next \in Statuses \ {"NONE"},
           NEW ok \in Pcs, NEW failed \in Pcs, runs[r].pc # "idle",
           UpdateJobStatus(r, next, ok, failed),
           UNCHANGED <<file, manifest, stored, provider, tasks, archived, accepted>>,
           unmarked' \in SUBSET Jobs,
           Entitled(next, runs[r].job),
           Prepared([runs[r] EXCEPT !.pc = ok]),
           Prepared([runs[r] EXCEPT !.pc = failed])
    PROVE  Inv'
<1> USE DEF Inv
<1>1. /\ status' \in [Jobs -> Statuses]
      /\ runs' \in [Runs -> RunSet]
      /\ \A s \in Runs \ {r} : runs'[s] = runs[s]
      /\ \E pc \in {ok, failed} : runs'[r] = [runs[r] EXCEPT !.pc = pc]
      /\ \A j \in Jobs :
            \/ status'[j] = status[j]
            \/ j = runs[r].job /\ status'[j] = next /\ status[j] # "GONE"
  BY UpdateType
<1>2. TypeOK'
  BY <1>1 DEF TypeOK, RunSet
<1>3. Grows
  BY <1>1 DEF Grows
<1>4. StatusIsBacked'
  BY <1>1 DEF StatusIsBacked, EvidenceInOrder, Entitled
<1>5. TaskIsBacked'
  BY <1>3, TasksStayBacked
<1>6. Prepared(runs[r])'
  BY <1>1, <1>3 DEF Prepared, Backed, Grows
<1> QED BY <1>1, <1>2, <1>3, <1>4, <1>5, <1>6, RunsStayBacked

\* A step that changes nothing but one run.
LEMMA LocalInv ==
    ASSUME Inv, NEW r \in Runs, NEW run \in RunSet,
           runs' = [runs EXCEPT ![r] = run],
           UNCHANGED <<status, file, manifest, stored, provider, tasks, archived,
                       accepted, unmarked>>,
           run = IdleRun \/ Prepared(run)
    PROVE  Inv'
<1> USE DEF Inv
<1>1. /\ runs' \in [Runs -> RunSet] /\ runs'[r] = run
      /\ \A s \in Runs \ {r} : runs'[s] = runs[s]
  BY DEF TypeOK, RunSet
<1>2. TypeOK'
  BY <1>1 DEF TypeOK, RunSet
<1>3. Grows
  BY DEF Grows
<1>4. StatusIsBacked' /\ TaskIsBacked'
  BY DEF StatusIsBacked, EvidenceInOrder, Entitled, TaskIsBacked, Backed
<1>5. (runs[r] # IdleRun => Prepared(runs[r]))'
  BY <1>1 DEF Prepared, Backed, IdleRun
<1> QED BY <1>1, <1>2, <1>3, <1>4, <1>5, RunsStayBacked

\* What is known of a run that stands at a call.
LEMMA RunAtCall ==
    ASSUME Inv, NEW r \in Runs, runs[r].pc # "idle"
    PROVE  /\ runs[r] \in RunSet /\ runs[r] # IdleRun /\ Prepared(runs[r])
           /\ runs[r].job \in Jobs
BY DEF Inv, TypeOK, RunIsBacked, IdleRun, Prepared, RunSet

\* A status update that is a whole step, between two pcs of the same handler.
LEMMA SetStatusInv ==
    ASSUME Inv, NEW r \in Runs, NEW pc, NEW next \in Statuses \ {"NONE"},
           NEW ok \in Pcs, NEW failed \in Pcs, pc # "idle",
           SetStatus(r, pc, next, ok, failed),
           Entitled(next, runs[r].job),
           Prepared([runs[r] EXCEPT !.pc = ok]),
           Prepared([runs[r] EXCEPT !.pc = failed])
    PROVE  Inv'
<1>1. unmarked' \in SUBSET Jobs
  BY DEF SetStatus, Inv, TypeOK
<1> QED BY <1>1, UpdateInv DEF SetStatus

-----------------------------------------------------------------------------
(* The handlers' own status updates. *)

LEMMA MarkFailedInv == ASSUME Inv, NEW r \in Runs, MarkFailed(r) PROVE Inv'
<1>1. runs[r].pc = "mark"
  BY DEF MarkFailed, SetStatus
<1>2. Prepared(runs[r]) /\ runs[r] \in RunSet
  BY <1>1, RunAtCall
<1>3. Prepared([runs[r] EXCEPT !.pc = "err"])
  BY <1>2 DEF Prepared, RunSet
<1>4. Entitled("FAILED", runs[r].job)
  BY DEF Entitled, UploadedStatuses, AnalyzedStatuses, EmbeddedStatuses, Statuses
<1> QED BY <1>1, <1>3, <1>4, SetStatusInv DEF MarkFailed, Statuses, Pcs

LEMMA MarkFailedQuietlyInv ==
    ASSUME Inv, NEW r \in Runs, MarkFailedQuietly(r) PROVE Inv'
<1>1. runs[r].pc = "markQuiet"
  BY DEF MarkFailedQuietly
<1>2. Prepared(runs[r]) /\ runs[r] \in RunSet /\ runs[r].job \in Jobs
  BY <1>1, RunAtCall
<1>3. Prepared([runs[r] EXCEPT !.pc = "nil"])
  BY <1>2 DEF Prepared, RunSet
<1>4. Entitled("FAILED", runs[r].job)
  BY DEF Entitled, UploadedStatuses, AnalyzedStatuses, EmbeddedStatuses, Statuses
<1>5. unmarked' \in SUBSET Jobs
  BY <1>2 DEF MarkFailedQuietly, Inv, TypeOK
<1> QED BY <1>1, <1>3, <1>4, <1>5, UpdateInv DEF MarkFailedQuietly, Statuses, Pcs

LEMMA ActivateInv == ASSUME Inv, NEW r \in Runs, Activate(r) PROVE Inv'
<1>1. runs[r].pc = "activate"
  BY DEF Activate, SetStatus
<1>2. Prepared(runs[r]) /\ runs[r] \in RunSet
  BY <1>1, RunAtCall
<1>3. runs[r].kind = "state" /\ file[runs[r].job] # NoFile
  BY <1>1, <1>2 DEF Prepared, PcsOf, EmbedderPcs, Backed
<1>4. /\ Prepared([runs[r] EXCEPT !.pc = "enqueue"])
      /\ Prepared([runs[r] EXCEPT !.pc = "err"])
  BY <1>2, <1>3 DEF Prepared, RunSet, PcsOf, NextType, Backed
<1>5. Entitled("READY_FOR_ANALYSIS", runs[r].job)
  BY <1>3 DEF Entitled, AnalyzedStatuses, EmbeddedStatuses
<1> QED BY <1>1, <1>4, <1>5, SetStatusInv DEF Activate, Statuses, Pcs

LEMMA BeginAnalysisInv == ASSUME Inv, NEW r \in Runs, BeginAnalysis(r) PROVE Inv'
<1>1. runs[r].pc = "analyzing"
  BY DEF BeginAnalysis, SetStatus
<1>2. Prepared(runs[r]) /\ runs[r] \in RunSet
  BY <1>1, RunAtCall
<1>3. runs[r].kind = "analyze" /\ file[runs[r].job] # NoFile
  BY <1>1, <1>2 DEF Prepared, PcsOf, EmbedderPcs, Backed
<1>4. /\ Prepared([runs[r] EXCEPT !.pc = "generate"])
      /\ Prepared([runs[r] EXCEPT !.pc = "err"])
  BY <1>2, <1>3 DEF Prepared, RunSet, PcsOf
<1>5. Entitled("ANALYZING", runs[r].job)
  BY <1>3 DEF Entitled, AnalyzedStatuses, EmbeddedStatuses
<1> QED BY <1>1, <1>4, <1>5, SetStatusInv DEF BeginAnalysis, Statuses, Pcs

LEMMA FinishAnalysisInv == ASSUME Inv, NEW r \in Runs, FinishAnalysis(r) PROVE Inv'
<1>1. runs[r].pc = "ready"
  BY DEF FinishAnalysis, SetStatus
<1>2. Prepared(runs[r]) /\ runs[r] \in RunSet
  BY <1>1, RunAtCall
<1>3. /\ runs[r].kind = "analyze" /\ file[runs[r].job] # NoFile
      /\ manifest[runs[r].job] # "none"
  BY <1>1, <1>2 DEF Prepared, PcsOf, EmbedderPcs, Backed
<1>4. /\ Prepared([runs[r] EXCEPT !.pc = "enqueue"])
      /\ Prepared([runs[r] EXCEPT !.pc = "err"])
  BY <1>2, <1>3 DEF Prepared, RunSet, PcsOf, NextType, Backed
<1>5. Entitled("READY_FOR_EMBEDDING", runs[r].job)
  BY <1>3 DEF Entitled, EmbeddedStatuses
<1> QED BY <1>1, <1>4, <1>5, SetStatusInv DEF FinishAnalysis, Statuses, Pcs


\* The status updates of the embedder.
EmbedderKinds == {"embed", "manual"}

LEMMA BeginEmbeddingInv == ASSUME Inv, NEW r \in Runs, BeginEmbedding(r) PROVE Inv'
<1>1. runs[r].pc = "embedding"
  BY DEF BeginEmbedding, SetStatus
<1>2. Prepared(runs[r]) /\ runs[r] \in RunSet /\ runs[r].job \in Jobs
  BY <1>1, RunAtCall
<1>3. runs[r].kind \in EmbedderKinds /\ manifest[runs[r].job] # "none"
  BY <1>1, <1>2 DEF Prepared, PcsOf, EmbedderKinds
<1>4. /\ Prepared([runs[r] EXCEPT !.pc = "load"])
      /\ Prepared([runs[r] EXCEPT !.pc = "err"])
  BY <1>2, <1>3 DEF Prepared, RunSet, PcsOf, EmbedderPcs, EmbedderKinds
<1>5. Entitled("EMBEDDING", runs[r].job)
  BY <1>2, <1>3 DEF Entitled, EmbeddedStatuses, Inv, StatusIsBacked, EvidenceInOrder
<1> QED BY <1>1, <1>4, <1>5, SetStatusInv DEF BeginEmbedding, Statuses, Pcs

LEMMA BeginReembeddingInv == ASSUME Inv, NEW r \in Runs, BeginReembedding(r) PROVE Inv'
<1>1. runs[r].pc = "reembedding"
  BY DEF BeginReembedding, SetStatus
<1>2. Prepared(runs[r]) /\ runs[r] \in RunSet /\ runs[r].job \in Jobs
  BY <1>1, RunAtCall
<1>3. runs[r].kind \in EmbedderKinds /\ runs[r].job \in stored /\ manifest[runs[r].job] # "none"
  BY <1>1, <1>2 DEF Prepared, PcsOf, EmbedderKinds
<1>4. /\ Prepared([runs[r] EXCEPT !.pc = "load"])
      /\ Prepared([runs[r] EXCEPT !.pc = "err"])
  BY <1>2, <1>3 DEF Prepared, RunSet, PcsOf, EmbedderPcs, EmbedderKinds
<1>5. Entitled("MANUAL_EMBEDDING", runs[r].job)
  BY <1>2, <1>3 DEF Entitled, Inv, StatusIsBacked, EvidenceInOrder
<1> QED BY <1>1, <1>4, <1>5, SetStatusInv DEF BeginReembedding, Statuses, Pcs

LEMMA CompleteInv == ASSUME Inv, NEW r \in Runs, Complete(r) PROVE Inv'
<1>1. runs[r].pc = "complete"
  BY DEF Complete, SetStatus
<1>2. Prepared(runs[r]) /\ runs[r] \in RunSet /\ runs[r].job \in Jobs
  BY <1>1, RunAtCall
<1>3. runs[r].job \in stored /\ manifest[runs[r].job] # "none"
  BY <1>1, <1>2 DEF Prepared
<1>4. /\ Prepared([runs[r] EXCEPT !.pc = "nil"])
      /\ Prepared([runs[r] EXCEPT !.pc = "err"])
  BY <1>2 DEF Prepared, RunSet
<1>5. Entitled("COMPLETED", runs[r].job)
  BY <1>2, <1>3 DEF Entitled, Inv, StatusIsBacked, EvidenceInOrder
<1> QED BY <1>1, <1>4, <1>5, SetStatusInv DEF Complete, Statuses, Pcs

-----------------------------------------------------------------------------
(* Steps of a handler that only move its own run. *)

LEMMA GetJobInv == ASSUME Inv, NEW r \in Runs, GetJob(r) PROVE Inv'
<1>1. runs[r].pc = "get"
  BY DEF GetJob
<1>2. Prepared(runs[r]) /\ runs[r] \in RunSet /\ runs[r].job \in Jobs
  BY <1>1, RunAtCall
<1> DEFINE kind == runs[r].kind
           j == runs[r].job
<1>3. CASE Goto(r, "err")
  <2>1. Prepared([runs[r] EXCEPT !.pc = "err"]) /\ [runs[r] EXCEPT !.pc = "err"] \in RunSet
    BY <1>2 DEF Prepared, RunSet, Pcs
  <2>2. runs' = [runs EXCEPT ![r] = [runs[r] EXCEPT !.pc = "err"]]
    BY <1>3 DEF Goto
  <2> QED BY <2>1, <2>2, LocalInv DEF GetJob
<1>4. CASE /\ runs' = [runs EXCEPT ![r].pc = AfterGet(kind, j),
                                   ![r].file = IF kind \in {"state", "analyze"}
                                               THEN file[j] ELSE NoFile]
           /\ status[j] # "GONE"
  <2> DEFINE run == [runs[r] EXCEPT !.pc = AfterGet(kind, j),
                                    !.file = IF kind \in {"state", "analyze"}
                                             THEN file[j] ELSE NoFile]
  <2>1. runs' = [runs EXCEPT ![r] = run]
    BY <1>4
  <2>2. kind \in DOMAIN PcsOf /\ kind # "ingest" /\ Backed(kind, j)
    BY <1>1, <1>2 DEF Prepared, PcsOf
  <2>3. CASE kind = "upload"
    <3>1. AfterGet(kind, j) = "upload"
      BY <2>3 DEF AfterGet
    <3>2. run \in RunSet
      BY <1>2, <2>3, <3>1 DEF RunSet, Pcs
    <3>3. Prepared(run)
      BY <1>2, <2>2, <2>3, <3>1 DEF Prepared, RunSet, PcsOf
    <3> QED BY <2>1, <3>2, <3>3, LocalInv DEF GetJob
  <2>4. CASE kind = "state"
    <3>1. AfterGet(kind, j) = "poll"
      BY <1>4, <2>2, <2>4 DEF AfterGet, Backed
    <3>2. run \in RunSet
      BY <1>2, <3>1 DEF RunSet, Pcs, Inv, TypeOK
    <3>3. Prepared(run)
      BY <1>2, <1>4, <2>2, <2>4, <3>1 DEF Prepared, RunSet, PcsOf, Backed
    <3> QED BY <2>1, <3>2, <3>3, LocalInv DEF GetJob
  <2>5. CASE kind = "analyze"
    <3>1. AfterGet(kind, j) = "analyzing"
      BY <1>4, <2>2, <2>5 DEF AfterGet, Backed
    <3>2. run \in RunSet
      BY <1>2, <3>1 DEF RunSet, Pcs, Inv, TypeOK
    <3>3. Prepared(run)
      BY <1>2, <1>4, <2>2, <2>5, <3>1 DEF Prepared, RunSet, PcsOf, Backed
    <3> QED BY <2>1, <3>2, <3>3, LocalInv DEF GetJob
  <2>6. CASE kind \in EmbedderKinds
    <3>1. \/ AfterGet(kind, j) = "embedding" /\ status[j] = "READY_FOR_EMBEDDING"
          \/ AfterGet(kind, j) = "reembedding" /\ status[j] = "COMPLETED"
          \/ AfterGet(kind, j) = "nil"
      BY <2>6 DEF AfterGet, EmbedderKinds
    <3>2. Entitled(status[j], j)
      BY <1>2 DEF Inv, StatusIsBacked
    <3>3. run \in RunSet
      BY <1>2, <2>6, <3>1 DEF RunSet, Pcs, EmbedderKinds
    <3>4. Prepared(run)
      BY <1>2, <2>2, <2>6, <3>1, <3>2
      DEF Prepared, RunSet, PcsOf, EmbedderPcs, EmbedderKinds, Entitled,
          AnalyzedStatuses, EmbeddedStatuses
    <3> QED BY <2>1, <3>3, <3>4, LocalInv DEF GetJob
  <2> QED BY <2>2, <2>3, <2>4, <2>5, <2>6 DEF PcsOf, EmbedderKinds
<1> QED BY <1>3, <1>4 DEF GetJob

LEMMA PollFileStateInv == ASSUME Inv, NEW r \in Runs, PollFileState(r) PROVE Inv'
<1>1. runs[r].pc = "poll"
  BY DEF PollFileState, FileState
<1>2. Prepared(runs[r]) /\ runs[r] \in RunSet
  BY <1>1, RunAtCall
<1>3. runs[r].kind = "state"
  BY <1>1, <1>2 DEF Prepared, PcsOf, EmbedderPcs
<1>4. PICK pc \in {"activate", "markQuiet", "err"} :
         runs' = [runs EXCEPT ![r] = [runs[r] EXCEPT !.file = NoFile, !.pc = pc]]
  BY DEF PollFileState, FileState
<1> DEFINE run == [runs[r] EXCEPT !.file = NoFile, !.pc = pc]
<1>5. run \in RunSet
  BY <1>2 DEF RunSet, Pcs
<1>6. /\ run.kind = runs[r].kind /\ run.job = runs[r].job
      /\ run.pc = pc /\ run.file = NoFile
  BY <1>2 DEF RunSet
<1> HIDE DEF run
<1>7. Prepared(run)
  BY <1>1, <1>2, <1>3, <1>6 DEF Prepared, PcsOf
<1> QED BY <1>4, <1>5, <1>7, LocalInv DEF PollFileState, FileState, run

LEMMA GenerateMetadataInv == ASSUME Inv, NEW r \in Runs, GenerateMetadata(r) PROVE Inv'
<1>1. runs[r].pc = "generate"
  BY DEF GenerateMetadata
<1>2. Prepared(runs[r]) /\ runs[r] \in RunSet
  BY <1>1, RunAtCall
<1>3. runs[r].kind = "analyze"
  BY <1>1, <1>2 DEF Prepared, PcsOf, EmbedderPcs
<1>4. PICK pc \in {"truncate", "mark", "err"} :
         runs' = [runs EXCEPT ![r] = [runs[r] EXCEPT !.pc = pc, !.file = NoFile]]
  BY DEF GenerateMetadata
<1> DEFINE run == [runs[r] EXCEPT !.pc = pc, !.file = NoFile]
<1>5. run \in RunSet
  BY <1>2 DEF RunSet, Pcs
<1>6. /\ run.kind = runs[r].kind /\ run.job = runs[r].job
      /\ run.pc = pc /\ run.file = NoFile
  BY <1>2 DEF RunSet
<1> HIDE DEF run
<1>7. Prepared(run)
  BY <1>1, <1>2, <1>3, <1>6 DEF Prepared, PcsOf
<1> QED BY <1>4, <1>5, <1>7, LocalInv DEF GenerateMetadata, run

LEMMA LoadManifestInv == ASSUME Inv, NEW r \in Runs, LoadManifest(r) PROVE Inv'
<1>1. runs[r].pc = "load"
  BY DEF LoadManifest
<1>2. Prepared(runs[r]) /\ runs[r] \in RunSet
  BY <1>1, RunAtCall
<1>3. runs[r].kind \in EmbedderKinds /\ manifest[runs[r].job] # "none"
  BY <1>1, <1>2 DEF Prepared, PcsOf, EmbedderKinds
<1>4. PICK pc \in {"embed", "markQuiet", "mark"} :
         runs' = [runs EXCEPT ![r] = [runs[r] EXCEPT !.pc = pc]]
  BY DEF LoadManifest, Goto
<1> DEFINE run == [runs[r] EXCEPT !.pc = pc]
<1>5. run \in RunSet /\ Prepared(run)
  BY <1>2, <1>3 DEF Prepared, RunSet, PcsOf, EmbedderPcs, EmbedderKinds, Pcs
<1> HIDE DEF run
<1> QED BY <1>4, <1>5, LocalInv DEF LoadManifest, run

LEMMA EmbedScenesInv == ASSUME Inv, NEW r \in Runs, EmbedScenes(r) PROVE Inv'
<1>1. runs[r].pc = "embed"
  BY DEF EmbedScenes
<1>2. Prepared(runs[r]) /\ runs[r] \in RunSet
  BY <1>1, RunAtCall
<1>3. runs[r].kind \in EmbedderKinds /\ manifest[runs[r].job] # "none"
  BY <1>1, <1>2 DEF Prepared, PcsOf, EmbedderKinds
<1>4. PICK pc \in {"store", "mark"} :
         runs' = [runs EXCEPT ![r] = [runs[r] EXCEPT !.pc = pc]]
  BY DEF EmbedScenes, Goto
<1> DEFINE run == [runs[r] EXCEPT !.pc = pc]
<1>5. run \in RunSet /\ Prepared(run)
  BY <1>2, <1>3 DEF Prepared, RunSet, PcsOf, EmbedderPcs, EmbedderKinds, Pcs
<1> HIDE DEF run
<1> QED BY <1>4, <1>5, LocalInv DEF EmbedScenes, run


-----------------------------------------------------------------------------
(* Steps of a handler that produce evidence. *)

LEMMA UploadFileInv == ASSUME Inv, NEW r \in Runs, UploadFile(r) PROVE Inv'
<1>1. runs[r].pc = "upload"
  BY DEF UploadFile, Uploaded
<1>2. Prepared(runs[r]) /\ runs[r] \in RunSet
  BY <1>1, RunAtCall
<1>3. runs[r].kind = "upload"
  BY <1>1, <1>2 DEF Prepared, PcsOf, EmbedderPcs
<1>4. PICK f \in Files \cup {NoFile}, pc \in {"uploaded", "mark"} :
         /\ runs' = [runs EXCEPT ![r] = [runs[r] EXCEPT !.pc = pc, !.file = f]]
         /\ pc = "uploaded" => f \in Files
  <2>1. CASE Goto(r, "mark")
    <3>1. [runs[r] EXCEPT !.pc = "mark"] = [runs[r] EXCEPT !.pc = "mark", !.file = runs[r].file]
      BY <1>2 DEF RunSet
    <3>2. runs' = [runs EXCEPT ![r] = [runs[r] EXCEPT !.pc = "mark", !.file = runs[r].file]]
      BY <2>1, <3>1 DEF Goto
    <3>3. runs[r].file \in Files \cup {NoFile}
      BY <1>2 DEF RunSet
    <3> QED BY <3>2, <3>3
  <2>2. CASE \E f \in Files : runs' = [runs EXCEPT ![r].pc = "uploaded", ![r].file = f]
    BY <2>2
  <2> QED BY <2>1, <2>2 DEF UploadFile, Uploaded
<1>5. Grows
  BY DEF Grows, UploadFile, Uploaded
<1>6. runs' \in [Runs -> RunSet] /\ \A s \in Runs \ {r} : runs'[s] = runs[s]
  BY <1>2, <1>4 DEF Inv, TypeOK, RunSet, Pcs
<1>7. TypeOK'
  BY <1>6 DEF Inv, TypeOK, RunSet, UploadFile, Uploaded
<1>8. StatusIsBacked'
  BY DEF Inv, StatusIsBacked, EvidenceInOrder, Entitled, UploadFile, Uploaded
<1>9. /\ runs'[r].kind = runs[r].kind /\ runs'[r].job = runs[r].job
      /\ runs'[r].pc = pc /\ runs'[r].file = f
  BY <1>2, <1>4 DEF Inv, TypeOK, RunSet
<1>10. Prepared(runs[r])'
  BY <1>2, <1>3, <1>4, <1>5, <1>9, NullAssumption DEF Prepared, Grows, PcsOf, Backed
<1> QED BY <1>5, <1>6, <1>7, <1>8, <1>10, TasksStayBacked, RunsStayBacked DEF Inv, UploadFile, Uploaded

LEMMA UpdateJobAfterUploadInv ==
    ASSUME Inv, NEW r \in Runs, UpdateJobAfterUpload(r) PROVE Inv'
<1>1. runs[r].pc = "uploaded"
  BY DEF UpdateJobAfterUpload
<1>2. Prepared(runs[r]) /\ runs[r] \in RunSet /\ runs[r].job \in Jobs
  BY <1>1, RunAtCall
<1>3. runs[r].kind = "upload" /\ runs[r].file \in Files
  BY <1>1, <1>2 DEF Prepared, PcsOf, EmbedderPcs, RunSet
<1>4. PICK pc \in {"enqueue", "err"} :
         /\ runs' = [runs EXCEPT ![r] = [runs[r] EXCEPT !.pc = pc, !.file = NoFile]]
         /\ pc = "enqueue" => \/ status[runs[r].job] = "GONE"
                              \/ file' = [file EXCEPT ![runs[r].job] = runs[r].file]
  BY DEF UpdateJobAfterUpload
<1>5. \/ /\ file' = [file EXCEPT ![runs[r].job] = runs[r].file]
         /\ status' = [status EXCEPT ![runs[r].job] = "UPLOADED_TO_PROVIDER"]
         /\ status[runs[r].job] # "GONE"
      \/ UNCHANGED <<file, status>>
  BY DEF UpdateJobAfterUpload, Updated
<1>6. /\ file' \in [Jobs -> Files \cup {NoFile}]
      /\ status' \in [Jobs -> Statuses]
      /\ \A j \in Jobs : file[j] # NoFile => file'[j] # NoFile
      /\ \A j \in Jobs :
            \/ status'[j] = status[j]
            \/ status'[j] = "UPLOADED_TO_PROVIDER" /\ file'[j] # NoFile /\ status[j] # "GONE"
  BY <1>2, <1>3, <1>5, NullAssumption DEF Inv, TypeOK, Statuses
<1>7. Grows
  BY <1>6 DEF Grows, UpdateJobAfterUpload
<1>8. runs' \in [Runs -> RunSet] /\ \A s \in Runs \ {r} : runs'[s] = runs[s]
  BY <1>2, <1>4 DEF Inv, TypeOK, RunSet, Pcs
<1>9. TypeOK'
  BY <1>6, <1>8 DEF Inv, TypeOK, RunSet, UpdateJobAfterUpload
<1>10. StatusIsBacked'
  BY <1>6 DEF Inv, StatusIsBacked, EvidenceInOrder, Entitled, UpdateJobAfterUpload,
              AnalyzedStatuses, EmbeddedStatuses
<1>11. /\ runs'[r].kind = runs[r].kind /\ runs'[r].job = runs[r].job
       /\ runs'[r].pc = pc
  BY <1>2, <1>4 DEF Inv, TypeOK, RunSet
<1>12. pc = "enqueue" => file'[runs[r].job] # NoFile \/ status'[runs[r].job] = "GONE"
  BY <1>2, <1>3, <1>4, <1>7, NullAssumption DEF Inv, TypeOK, Grows
<1>13. Prepared(runs[r])'
  BY <1>2, <1>3, <1>4, <1>7, <1>11, <1>12
  DEF Prepared, Grows, PcsOf, NextType, Backed
<1> QED BY <1>7, <1>8, <1>9, <1>10, <1>13, TasksStayBacked, RunsStayBacked
    DEF Inv, UpdateJobAfterUpload

\* The two halves of writing a manifest change it in the same way.
LEMMA ManifestInv ==
    ASSUME Inv, NEW r \in Runs, NEW m \in {"torn", "whole"},
           NEW pc \in {"write", "ready", "mark"},
           runs[r].pc \in {"truncate", "write"},
           manifest' = [manifest EXCEPT ![runs[r].job] = m],
           Goto(r, pc),
           UNCHANGED <<status, file, stored, provider, tasks, archived, accepted,
                       unmarked>>
    PROVE  Inv'
<1>1. Prepared(runs[r]) /\ runs[r] \in RunSet /\ runs[r].job \in Jobs
  BY RunAtCall
<1>2. runs[r].kind = "analyze" /\ file[runs[r].job] # NoFile
  BY <1>1 DEF Prepared, PcsOf, EmbedderPcs, Backed
<1>3. /\ manifest' \in [Jobs -> Manifests]
      /\ manifest'[runs[r].job] # "none"
      /\ \A j \in Jobs : manifest'[j] = manifest[j] \/ j = runs[r].job
  BY <1>1 DEF Inv, TypeOK, Manifests
<1>4. Grows
  BY <1>3 DEF Grows
<1>5. /\ runs' \in [Runs -> RunSet] /\ runs'[r] = [runs[r] EXCEPT !.pc = pc]
      /\ \A s \in Runs \ {r} : runs'[s] = runs[s]
  BY GotoType DEF Inv, Pcs
<1>6. TypeOK'
  BY <1>3, <1>5 DEF Inv, TypeOK, RunSet
<1>7. StatusIsBacked'
  BY <1>2, <1>3 DEF Inv, StatusIsBacked, EvidenceInOrder, Entitled
<1>8. runs'[r].kind = "analyze" /\ runs'[r].job = runs[r].job /\ runs'[r].pc = pc
  BY <1>1, <1>2, <1>5 DEF RunSet
<1>9. Prepared(runs[r])'
  BY <1>1, <1>2, <1>3, <1>4, <1>8 DEF Prepared, Grows, PcsOf, Backed
<1> QED BY <1>4, <1>5, <1>6, <1>7, <1>9, TasksStayBacked, RunsStayBacked DEF Inv

\* A step that only moves run r to pc.
LEMMA GotoInv ==
    ASSUME Inv, NEW r \in Runs, NEW pc \in Pcs, runs[r].pc # "idle", Goto(r, pc),
           Prepared([runs[r] EXCEPT !.pc = pc]),
           UNCHANGED <<status, file, manifest, stored, provider, tasks, archived,
                       accepted, unmarked>>
    PROVE  Inv'
<1> DEFINE run == [runs[r] EXCEPT !.pc = pc]
<1>1. run \in RunSet /\ runs' = [runs EXCEPT ![r] = run]
  BY RunAtCall DEF RunSet, Goto
<1> QED BY <1>1, LocalInv

LEMMA TruncateManifestInv == ASSUME Inv, NEW r \in Runs, TruncateManifest(r) PROVE Inv'
<1>1. runs[r].pc = "truncate"
  BY DEF TruncateManifest
<1>2. Prepared(runs[r]) /\ runs[r] \in RunSet
  BY <1>1, RunAtCall
<1>3. runs[r].kind = "analyze"
  BY <1>1, <1>2 DEF Prepared, PcsOf, EmbedderPcs
<1>4. CASE manifest' = [manifest EXCEPT ![runs[r].job] = "torn"] /\ Goto(r, "write")
  BY <1>1, <1>4, ManifestInv DEF TruncateManifest
<1>5. CASE Goto(r, "mark") /\ UNCHANGED manifest
  <2>1. Prepared([runs[r] EXCEPT !.pc = "mark"])
    BY <1>1, <1>2, <1>3 DEF Prepared, RunSet, PcsOf
  <2> QED BY <1>1, <1>5, <2>1, GotoInv DEF TruncateManifest, Pcs
<1> QED BY <1>4, <1>5 DEF TruncateManifest

LEMMA WriteManifestInv == ASSUME Inv, NEW r \in Runs, WriteManifest(r) PROVE Inv'
<1>1. runs[r].pc = "write"
  BY DEF WriteManifest
<1>2. Prepared(runs[r]) /\ runs[r] \in RunSet
  BY <1>1, RunAtCall
<1>3. runs[r].kind = "analyze"
  BY <1>1, <1>2 DEF Prepared, PcsOf, EmbedderPcs
<1>4. CASE /\ \E m \in {"whole", "torn"} : manifest' = [manifest EXCEPT ![runs[r].job] = m]
           /\ Goto(r, "ready")
  BY <1>1, <1>4, ManifestInv DEF WriteManifest
<1>5. CASE Goto(r, "mark") /\ UNCHANGED manifest
  <2>1. Prepared([runs[r] EXCEPT !.pc = "mark"])
    BY <1>1, <1>2, <1>3 DEF Prepared, RunSet, PcsOf
  <2> QED BY <1>1, <1>5, <2>1, GotoInv DEF WriteManifest, Pcs
<1> QED BY <1>4, <1>5 DEF WriteManifest

LEMMA StoreScenesInv == ASSUME Inv, NEW r \in Runs, StoreScenes(r) PROVE Inv'
<1>1. runs[r].pc = "store"
  BY DEF StoreScenes
<1>2. Prepared(runs[r]) /\ runs[r] \in RunSet /\ runs[r].job \in Jobs
  BY <1>1, RunAtCall
<1>3. runs[r].kind \in EmbedderKinds /\ manifest[runs[r].job] # "none"
  BY <1>1, <1>2 DEF Prepared, PcsOf, EmbedderKinds
<1>4. PICK pc \in {"complete", "mark"} :
         /\ Goto(r, pc)
         /\ stored' = stored \cup {runs[r].job} \/ (pc = "mark" /\ stored' = stored)
  BY DEF StoreScenes
<1>5. stored \subseteq stored' /\ stored' \subseteq stored \cup {runs[r].job}
  BY <1>4
<1>6. Grows
  BY <1>5 DEF Grows, StoreScenes
<1>7. /\ runs' \in [Runs -> RunSet] /\ runs'[r] = [runs[r] EXCEPT !.pc = pc]
      /\ \A s \in Runs \ {r} : runs'[s] = runs[s]
  BY <1>4, GotoType DEF Inv, Pcs
<1>8. TypeOK'
  BY <1>2, <1>5, <1>7 DEF Inv, TypeOK, RunSet, StoreScenes
<1>9. StatusIsBacked'
  BY <1>3, <1>5 DEF Inv, StatusIsBacked, EvidenceInOrder, Entitled, StoreScenes
<1>10. runs'[r].kind = runs[r].kind /\ runs'[r].job = runs[r].job /\ runs'[r].pc = pc
  BY <1>2, <1>7 DEF RunSet
<1>11. pc = "complete" => runs[r].job \in stored'
  BY <1>4
<1>12. Prepared(runs[r])'
  BY <1>2, <1>3, <1>6, <1>10, <1>11
  DEF Prepared, Grows, PcsOf, EmbedderPcs, EmbedderKinds, Backed, StoreScenes
<1> QED BY <1>6, <1>7, <1>8, <1>9, <1>12, TasksStayBacked, RunsStayBacked
    DEF Inv, StoreScenes


-----------------------------------------------------------------------------
(* Steps on the queues. *)

\* A new task is backed when the run that enqueues it is prepared to.
LEMMA AddTaskBacked ==
    ASSUME Inv, NEW r \in Runs, runs[r].pc = "enqueue", NEW t \in TaskIds, AddTask(r, t),
           UNCHANGED <<status, file, manifest, stored>>
    PROVE  tasks' \in [TaskIds -> TaskSet] /\ TaskIsBacked'
<1>1. Prepared(runs[r]) /\ runs[r] \in RunSet /\ runs[r].job \in Jobs
  BY RunAtCall
<1>2. runs[r].kind \in DOMAIN NextType /\ Backed(NextType[runs[r].kind], runs[r].job)
  BY <1>1 DEF Prepared
<1>3. NextType[runs[r].kind] \in TaskTypes
  BY <1>2 DEF NextType, TaskTypes
<1>4. tasks' \in [TaskIds -> TaskSet]
  BY <1>1, <1>3 DEF AddTask, TaskSet, Inv, TypeOK
<1>5. \A u \in TaskIds : u # t => tasks'[u] = tasks[u]
  BY DEF AddTask, Inv, TypeOK
<1>6. tasks'[t].type = NextType[runs[r].kind] /\ tasks'[t].job = runs[r].job
  BY DEF AddTask, Inv, TypeOK
<1>7. TaskIsBacked'
  BY <1>1, <1>2, <1>5, <1>6 DEF Inv, TaskIsBacked, Backed
<1> QED BY <1>4, <1>7

LEMMA EnqueueInv == ASSUME Inv, NEW r \in Runs, Enqueue(r) PROVE Inv'
<1>1. runs[r].pc = "enqueue"
  BY DEF Enqueue
<1>2. Prepared(runs[r]) /\ runs[r] \in RunSet /\ runs[r].job \in Jobs
  BY <1>1, RunAtCall
<1>3. PICK pc \in {"nil", "err"} : Goto(r, pc)
  BY DEF Enqueue
<1>4. UNCHANGED tasks \/ \E t \in TaskIds : AddTask(r, t)
  BY DEF Enqueue
<1>5. Grows
  BY DEF Grows, Enqueue
<1>6. TaskIsBacked'
  BY <1>1, <1>4, <1>5, AddTaskBacked, TasksStayBacked DEF Enqueue
<1>7. tasks' \in [TaskIds -> TaskSet]
  <2>1. CASE UNCHANGED tasks
    BY <2>1 DEF Inv, TypeOK, TaskSet
  <2>2. CASE \E t \in TaskIds : AddTask(r, t)
    BY <1>1, <2>2, AddTaskBacked DEF Enqueue
  <2> QED BY <1>4, <2>1, <2>2
<1>8. /\ runs' \in [Runs -> RunSet] /\ runs'[r] = [runs[r] EXCEPT !.pc = pc]
      /\ \A s \in Runs \ {r} : runs'[s] = runs[s]
  BY <1>3, GotoType DEF Inv, Pcs
<1>9. accepted' \in SUBSET Jobs
  BY <1>2 DEF Enqueue, Inv, TypeOK
<1>10. TypeOK'
  BY <1>7, <1>8, <1>9 DEF Inv, TypeOK, RunSet, TaskSet, Enqueue
<1>11. StatusIsBacked'
  BY DEF Inv, StatusIsBacked, EvidenceInOrder, Entitled, Enqueue
<1>12. runs'[r].kind = runs[r].kind /\ runs'[r].job = runs[r].job /\ runs'[r].pc = pc
  BY <1>2, <1>8 DEF RunSet
<1>13. Prepared(runs[r])'
  BY <1>2, <1>3, <1>12 DEF Prepared, Backed, Enqueue
<1> QED BY <1>5, <1>6, <1>8, <1>10, <1>11, <1>13, RunsStayBacked DEF Inv

\* Settling a task frees it or makes it ready again.
LEMMA SettledTasks ==
    ASSUME Inv, NEW t \in TaskIds, Ack(t) \/ Nack(t),
           UNCHANGED <<status, file, manifest, stored>>
    PROVE  /\ tasks' \in [TaskIds -> TaskSet]
           /\ archived' \in SUBSET (TaskTypes \X (Jobs \cup {NoJob}))
           /\ tasks[t].state # "free" => TaskIsBacked'
<1>1. FreeTask \in TaskSet
  BY DEF FreeTask, TaskSet, TaskTypes
<1>2. CASE tasks' = [tasks EXCEPT ![t] = FreeTask]
  <2>1. tasks' \in [TaskIds -> TaskSet]
    BY <1>1, <1>2 DEF Inv, TypeOK, TaskSet
  <2>2. TaskIsBacked'
    BY <1>2 DEF Inv, TypeOK, TaskIsBacked, Backed, FreeTask
  <2>3. archived' \in SUBSET (TaskTypes \X (Jobs \cup {NoJob}))
    BY DEF Inv, TypeOK, Ack, Nack
  <2> QED BY <2>1, <2>2, <2>3
<1>3. CASE /\ tasks' = [tasks EXCEPT ![t].state = "ready", ![t].retried = @ + 1]
           /\ UNCHANGED archived
  <2>1. tasks' \in [TaskIds -> TaskSet]
    BY <1>3 DEF Inv, TypeOK, TaskSet
  <2>2. /\ \A u \in TaskIds : u # t => tasks'[u] = tasks[u]
        /\ tasks'[t].type = tasks[t].type /\ tasks'[t].job = tasks[t].job
    BY <1>3 DEF Inv, TypeOK
  <2>3. tasks[t].state # "free" => TaskIsBacked'
    BY <2>2 DEF Inv, TaskIsBacked, Backed
  <2> QED BY <1>3, <2>1, <2>3 DEF Inv, TypeOK
<1> QED BY <1>2, <1>3 DEF Ack, Nack


LEMMA SettleInv == ASSUME Inv, LeaseIsExclusive, NEW r \in Runs, Settle(r) PROVE Inv'
<1>1. Grows
  BY DEF Grows, Settle
<1>2. IdleRun \in RunSet
  BY DEF IdleRun, RunSet, Kinds, Pcs
<1>3. /\ runs' \in [Runs -> RunSet] /\ runs'[r] = IdleRun
      /\ \A s \in Runs \ {r} : runs'[s] = runs[s]
  BY <1>2 DEF Settle, Inv, TypeOK, RunSet
<1>4. /\ tasks' \in [TaskIds -> TaskSet]
      /\ archived' \in SUBSET (TaskTypes \X (Jobs \cup {NoJob}))
      /\ TaskIsBacked'
  <2>1. CASE runs[r].task = NoTask
    <3>1. UNCHANGED <<tasks, archived>>
      BY <2>1 DEF Settle
    <3> QED BY <1>1, <3>1, TasksStayBacked DEF Inv, TypeOK, TaskSet
  <2>2. CASE runs[r].task # NoTask
    <3>1. runs[r].task \in TaskIds
      BY <2>2 DEF Inv, TypeOK
    <3>2. tasks[runs[r].task].state # "free"
      BY <2>2 DEF LeaseIsExclusive
    <3>3. Ack(runs[r].task) \/ Nack(runs[r].task)
      BY <2>2 DEF Settle
    <3> QED BY <3>1, <3>2, <3>3, SettledTasks DEF Settle
  <2> QED BY <2>1, <2>2
<1>5. TypeOK'
  BY <1>3, <1>4 DEF Inv, TypeOK, RunSet, TaskSet, Settle
<1>6. StatusIsBacked'
  BY DEF Inv, StatusIsBacked, EvidenceInOrder, Entitled, Settle
<1>7. (runs[r] # IdleRun => Prepared(runs[r]))'
  BY <1>3 DEF IdleRun
<1> QED BY <1>1, <1>3, <1>4, <1>5, <1>6, <1>7, RunsStayBacked DEF Inv

LEMMA RecoverInv == ASSUME Inv, NEW t \in TaskIds, Recover(t) PROVE Inv'
<1>1. Grows /\ UNCHANGED runs
  BY DEF Grows, Recover
<1>2. /\ tasks' \in [TaskIds -> TaskSet]
      /\ archived' \in SUBSET (TaskTypes \X (Jobs \cup {NoJob}))
      /\ TaskIsBacked'
  BY SettledTasks DEF Recover
<1>3. TypeOK' /\ StatusIsBacked'
  BY <1>2 DEF Inv, TypeOK, TaskSet, Recover, StatusIsBacked, EvidenceInOrder, Entitled
<1>4. RunIsBacked'
  BY <1>1 DEF Inv, RunIsBacked, Prepared, Backed, Grows, IdleRun
<1> QED BY <1>2, <1>3, <1>4 DEF Inv

LEMMA DequeueInv ==
    ASSUME Inv, NEW w \in Workers, NEW t \in TaskIds, Dequeue(w, t) PROVE Inv'
<1> DEFINE run == [kind |-> tasks[t].type, job |-> tasks[t].job, task |-> t,
                   pc |-> "get", file |-> NoFile, live |-> TRUE]
<1>1. w \in Runs /\ Grows
  BY DEF Runs, Grows, Dequeue
<1>2. tasks[t] \in TaskSet /\ tasks[t].job \in Jobs /\ Backed(tasks[t].type, tasks[t].job)
  BY DEF Inv, TypeOK, TaskSet, TaskIsBacked, Dequeue
<1>3. run \in RunSet
  BY <1>2 DEF RunSet, TaskSet, Kinds, Pcs
<1>4. /\ runs' \in [Runs -> RunSet] /\ runs'[w] = run
      /\ \A s \in Runs \ {w} : runs'[s] = runs[s]
  BY <1>1, <1>3 DEF Dequeue, Inv, TypeOK, RunSet
<1>5. /\ tasks' \in [TaskIds -> TaskSet]
      /\ \A u \in TaskIds : /\ tasks'[u].type = tasks[u].type
                            /\ tasks'[u].job = tasks[u].job
                            /\ tasks'[u].state # "free" => tasks[u].state # "free"
  BY DEF Dequeue, Inv, TypeOK, TaskSet
<1>6. TypeOK' /\ StatusIsBacked'
  BY <1>4, <1>5
  DEF Inv, TypeOK, RunSet, TaskSet, Dequeue, StatusIsBacked, EvidenceInOrder, Entitled
<1>7. TaskIsBacked'
  BY <1>5 DEF Inv, TaskIsBacked, Backed, Dequeue
<1>8. Prepared(runs[w])'
  <2>1. /\ runs'[w].kind = tasks[t].type /\ runs'[w].job = tasks[t].job
        /\ runs'[w].pc = "get"
    BY <1>4
  <2>2. tasks[t].type \in TaskTypes
    BY <1>2 DEF TaskSet
  <2> QED BY <1>1, <1>2, <2>1, <2>2
          DEF Prepared, Backed, Grows, PcsOf, EmbedderPcs, TaskTypes
<1> QED BY <1>1, <1>4, <1>6, <1>7, <1>8, RunsStayBacked DEF Inv

-----------------------------------------------------------------------------
(* Requests, faults, the provider and edits. *)

LEMMA StartIngestionInv ==
    ASSUME Inv, NEW r \in Ingesters, NEW j \in Jobs, StartIngestion(r, j) PROVE Inv'
<1> DEFINE run == [IdleRun EXCEPT !.kind = "ingest", !.job = j, !.pc = "enqueue",
                                  !.live = TRUE]
<1>1. r \in Runs
  BY DEF Runs
<1>2. run \in RunSet /\ run.kind = "ingest" /\ run.job = j /\ run.pc = "enqueue"
  BY DEF IdleRun, RunSet, Kinds, Pcs
<1>3. status' = [status EXCEPT ![j] = "PENDING"] /\ status[j] = "NONE"
  BY DEF StartIngestion
<1>4. /\ status' \in [Jobs -> Statuses] /\ status'[j] = "PENDING"
      /\ \A i \in Jobs \ {j} : status'[i] = status[i]
  BY <1>3 DEF Inv, TypeOK, Statuses
<1>5. Grows
  BY <1>4 DEF Grows, StartIngestion
<1>6. \/ UNCHANGED runs
      \/ runs' = [runs EXCEPT ![r] = run]
  BY DEF StartIngestion
<1> HIDE DEF run
<1>7. /\ runs' \in [Runs -> RunSet]
      /\ \A s \in Runs \ {r} : runs'[s] = runs[s]
      /\ runs'[r] = run \/ runs'[r] = IdleRun
  <2>1. runs \in [Runs -> RunSet] /\ runs[r] = IdleRun
    BY DEF Inv, TypeOK, RunSet, StartIngestion
  <2> QED BY <1>1, <1>2, <1>6, <2>1
<1>8. TypeOK'
  BY <1>4, <1>7 DEF Inv, TypeOK, RunSet, StartIngestion
<1>9. StatusIsBacked'
  BY <1>4 DEF Inv, StatusIsBacked, EvidenceInOrder, Entitled, StartIngestion,
              UploadedStatuses, AnalyzedStatuses, EmbeddedStatuses
<1>10. TaskIsBacked'
  BY <1>5, TasksStayBacked DEF StartIngestion
<1>11. (runs[r] # IdleRun => Prepared(runs[r]))'
  BY <1>2, <1>4, <1>7 DEF Prepared, Backed, PcsOf, NextType, IdleRun
<1> QED BY <1>1, <1>5, <1>7, <1>8, <1>9, <1>10, <1>11, RunsStayBacked DEF Inv

LEMMA ReembedInv ==
    ASSUME Inv, NEW r \in Reembedders, NEW j \in Jobs, Reembed(r, j) PROVE Inv'
<1> DEFINE run == [IdleRun EXCEPT !.kind = "manual", !.job = j, !.pc = "get",
                                  !.live = TRUE]
<1>1. r \in Runs /\ runs' = [runs EXCEPT ![r] = run]
  BY DEF Runs, Reembed
<1>2. run \in RunSet /\ run.kind = "manual" /\ run.job = j /\ run.pc = "get"
  BY DEF IdleRun, RunSet, Kinds, Pcs
<1> HIDE DEF run
<1>3. Prepared(run)
  BY <1>2 DEF Prepared, Backed, PcsOf, EmbedderPcs, Reembed
<1> QED BY <1>1, <1>2, <1>3, LocalInv DEF Reembed

LEMMA ExpireInv == ASSUME Inv, NEW r \in Runs, Expire(r) PROVE Inv'
<1> DEFINE run == [runs[r] EXCEPT !.live = FALSE, !.task = NoTask]
<1>1. runs[r] \in RunSet /\ runs[r] # IdleRun
  BY DEF Expire, IdleRun, Inv, TypeOK, RunSet
<1>2. Prepared(runs[r])
  BY <1>1 DEF Inv, RunIsBacked
<1>3. runs' = [runs EXCEPT ![r] = run]
  BY DEF Expire
<1>4. /\ run \in RunSet /\ run.kind = runs[r].kind /\ run.job = runs[r].job
      /\ run.pc = runs[r].pc /\ run.file = runs[r].file
  BY <1>1 DEF RunSet
<1> HIDE DEF run
<1>5. Prepared(run)
  BY <1>2, <1>4 DEF Prepared
<1> QED BY <1>3, <1>4, <1>5, LocalInv DEF Expire

LEMMA CrashInv == ASSUME Inv, NEW r \in Runs, Crash(r) PROVE Inv'
<1>1. IdleRun \in RunSet
  BY DEF IdleRun, RunSet, Kinds, Pcs
<1> QED BY <1>1, LocalInv DEF Crash

LEMMA ProviderSettlesInv == ASSUME Inv, NEW f \in Files, ProviderSettles(f) PROVE Inv'
<1>1. TypeOK'
  BY DEF ProviderSettles, Inv, TypeOK
<1>2. StatusIsBacked' /\ TaskIsBacked'
  BY DEF ProviderSettles, Inv, StatusIsBacked, EvidenceInOrder, Entitled, TaskIsBacked,
         Backed
<1>3. ASSUME NEW r \in Runs, (runs[r] # IdleRun)'
      PROVE  Prepared(runs[r])'
  <2>1. runs'[r] = runs[r] /\ Prepared(runs[r])
    BY <1>3 DEF ProviderSettles, Inv, RunIsBacked, IdleRun
  <2> QED BY <2>1 DEF ProviderSettles, Prepared, Backed
<1>4. RunIsBacked'
  BY <1>3 DEF RunIsBacked
<1> QED BY <1>1, <1>2, <1>4 DEF Inv

LEMMA DeleteVideoInv == ASSUME Inv, NEW j \in Jobs, DeleteVideo(j) PROVE Inv'
<1>1. /\ status' \in [Jobs -> Statuses]
      /\ \A i \in Jobs : status'[i] = status[i] \/ status'[i] = "GONE"
  BY DEF DeleteVideo, Inv, TypeOK, Statuses
<1>2. TypeOK'
  BY <1>1 DEF DeleteVideo, Inv, TypeOK
<1>3. Grows
  BY <1>1 DEF Grows, DeleteVideo
<1>4. StatusIsBacked'
  BY <1>1 DEF DeleteVideo, Inv, StatusIsBacked, EvidenceInOrder, Entitled,
              UploadedStatuses, AnalyzedStatuses, EmbeddedStatuses
<1>5. TaskIsBacked'
  BY <1>3, TasksStayBacked DEF DeleteVideo
<1>6. ASSUME NEW r \in Runs, (runs[r] # IdleRun)'
      PROVE  Prepared(runs[r])'
  <2>1. runs'[r] = runs[r] /\ Prepared(runs[r])
    BY <1>6 DEF DeleteVideo, Inv, RunIsBacked, IdleRun
  <2> QED BY <1>3, <2>1 DEF Prepared, Backed, Grows
<1>7. RunIsBacked'
  BY <1>6 DEF RunIsBacked
<1> QED BY <1>2, <1>4, <1>5, <1>7 DEF Inv

LEMMA EditManifestInv == ASSUME Inv, NEW j \in Jobs, EditManifest(j) PROVE Inv'
<1>1. /\ manifest' \in [Jobs -> Manifests]
      /\ \A i \in Jobs : manifest'[i] # "none" <=> manifest[i] # "none"
  BY DEF EditManifest, Inv, TypeOK, Manifests
<1>2. TypeOK'
  BY <1>1 DEF EditManifest, Inv, TypeOK
<1>3. Grows
  BY <1>1 DEF Grows, EditManifest
<1>4. StatusIsBacked' /\ TaskIsBacked'
  BY <1>1, <1>3, TasksStayBacked
  DEF EditManifest, Inv, StatusIsBacked, EvidenceInOrder, Entitled
<1>5. RunIsBacked'
  BY <1>1 DEF EditManifest, Inv, RunIsBacked, Prepared, Backed, IdleRun, NextType, PcsOf
<1> QED BY <1>2, <1>4, <1>5 DEF Inv


-----------------------------------------------------------------------------
(* Leases. *)

\* Every run holds what it held, or has let it go.
HeldAsBefore ==
    \A s \in Runs :
        \/ runs'[s].task = NoTask
        \/ /\ runs'[s].task = runs[s].task
           /\ runs'[s].kind = runs[s].kind /\ runs'[s].job = runs[s].job

LEMMA LeaseKept ==
    ASSUME LeaseIsExclusive, HeldAsBefore, UNCHANGED tasks
    PROVE  LeaseIsExclusive'
BY DEF LeaseIsExclusive, HeldAsBefore

LEMMA GotoHolds ==
    ASSUME TypeOK, NEW r \in Runs, NEW pc, Goto(r, pc)
    PROVE  HeldAsBefore
BY DEF TypeOK, Goto, HeldAsBefore

LEMMA SetStatusHolds ==
    ASSUME TypeOK, NEW r \in Runs, NEW pc, NEW next, NEW ok, NEW failed,
           SetStatus(r, pc, next, ok, failed)
    PROVE  HeldAsBefore /\ UNCHANGED tasks
BY GotoHolds DEF SetStatus, UpdateJobStatus

\* The steps of a handler between the delivery and the enqueue.
HandlerStep(r) ==
    \/ MarkFailed(r) \/ MarkFailedQuietly(r) \/ GetJob(r)
    \/ UploadFile(r) \/ UpdateJobAfterUpload(r) \/ PollFileState(r) \/ Activate(r)
    \/ BeginAnalysis(r) \/ GenerateMetadata(r) \/ TruncateManifest(r)
    \/ WriteManifest(r) \/ FinishAnalysis(r) \/ BeginEmbedding(r)
    \/ BeginReembedding(r) \/ LoadManifest(r) \/ EmbedScenes(r) \/ StoreScenes(r)
    \/ Complete(r)

LEMMA HandlerHolds ==
    ASSUME TypeOK, NEW r \in Runs, HandlerStep(r)
    PROVE  HeldAsBefore /\ UNCHANGED tasks
<1>1. CASE MarkFailed(r) \/ Activate(r) \/ BeginAnalysis(r) \/ FinishAnalysis(r)
           \/ BeginEmbedding(r) \/ BeginReembedding(r) \/ Complete(r)
  BY <1>1, SetStatusHolds
  DEF MarkFailed, Activate, BeginAnalysis, FinishAnalysis, BeginEmbedding,
      BeginReembedding, Complete
<1>2. CASE MarkFailedQuietly(r)
  BY <1>2, GotoHolds DEF MarkFailedQuietly, UpdateJobStatus
<1>3. CASE GetJob(r)
  BY <1>3, GotoHolds DEF GetJob, TypeOK, HeldAsBefore
<1>4. CASE UploadFile(r)
  <2>1. ASSUME NEW f \in Files, runs' = [runs EXCEPT ![r].pc = "uploaded", ![r].file = f]
        PROVE  HeldAsBefore
    BY <2>1 DEF TypeOK, HeldAsBefore
  <2> QED BY <1>4, <2>1, GotoHolds DEF UploadFile, Uploaded
<1>5. CASE UpdateJobAfterUpload(r)
  <2>1. \E pc \in Pcs : runs' = [runs EXCEPT ![r].pc = pc, ![r].file = NoFile]
    BY <1>5 DEF UpdateJobAfterUpload, Pcs
  <2>2. HeldAsBefore
    BY <2>1 DEF TypeOK, HeldAsBefore
  <2> QED BY <1>5, <2>2 DEF UpdateJobAfterUpload
<1>6. CASE PollFileState(r)
  BY <1>6 DEF PollFileState, FileState, TypeOK, HeldAsBefore
<1>7. CASE GenerateMetadata(r)
  BY <1>7 DEF GenerateMetadata, TypeOK, HeldAsBefore
<1>8. CASE TruncateManifest(r) \/ WriteManifest(r)
  BY <1>8, GotoHolds DEF TruncateManifest, WriteManifest
<1>9. CASE LoadManifest(r)
  BY <1>9, GotoHolds DEF LoadManifest
<1>10. CASE EmbedScenes(r) \/ StoreScenes(r)
  BY <1>10, GotoHolds DEF EmbedScenes, StoreScenes
<1> QED
  BY <1>1, <1>2, <1>3, <1>4, <1>5, <1>6, <1>7, <1>8, <1>9, <1>10 DEF HandlerStep

LEMMA EnqueueLease ==
    ASSUME Inv, LeaseIsExclusive, NEW r \in Runs, Enqueue(r) PROVE LeaseIsExclusive'
<1>1. HeldAsBefore
  BY GotoHolds DEF Enqueue, Inv
<1>2. CASE UNCHANGED tasks
  BY <1>1, <1>2, LeaseKept
<1>3. CASE \E t \in TaskIds : AddTask(r, t)
  <2>1. PICK t \in TaskIds : AddTask(r, t)
    BY <1>3
  <2>2. \A u \in TaskIds : tasks[u].state = "active" => tasks'[u] = tasks[u]
    BY <2>1 DEF AddTask, Inv, TypeOK
  <2>3. \A s \in Runs : runs[s].task \in TaskIds \cup {NoTask}
    BY DEF Inv, TypeOK
  <2> QED BY <1>1, <2>2, <2>3 DEF LeaseIsExclusive, HeldAsBefore
<1> QED BY <1>2, <1>3 DEF Enqueue

LEMMA SettleLease ==
    ASSUME Inv, LeaseIsExclusive, NEW r \in Runs, Settle(r) PROVE LeaseIsExclusive'
<1>1. runs'[r].task = NoTask /\ \A s \in Runs \ {r} : runs'[s] = runs[s]
  BY DEF Settle, Inv, TypeOK, IdleRun
<1>2. \A u \in TaskIds : u # runs[r].task => tasks'[u] = tasks[u]
  <2>1. CASE UNCHANGED tasks
    BY <2>1
  <2>2. CASE Ack(runs[r].task) \/ Nack(runs[r].task)
    BY <2>2 DEF Ack, Nack, Inv, TypeOK
  <2> QED BY <2>1, <2>2 DEF Settle
<1>3. \A s \in Runs : runs[s].task \in TaskIds \cup {NoTask}
  BY DEF Inv, TypeOK
<1> QED BY <1>1, <1>2, <1>3 DEF LeaseIsExclusive

LEMMA RecoverLease ==
    ASSUME Inv, LeaseIsExclusive, NEW t \in TaskIds, Recover(t) PROVE LeaseIsExclusive'
<1>1. \A u \in TaskIds : u # t => tasks'[u] = tasks[u]
  BY DEF Recover, Nack, Inv, TypeOK
<1>2. \A s \in Runs : runs[s].task \in TaskIds \cup {NoTask} /\ runs[s].task # t
  BY DEF Inv, TypeOK, Recover
<1>3. UNCHANGED runs
  BY DEF Recover
<1> QED BY <1>1, <1>2, <1>3 DEF LeaseIsExclusive

LEMMA DequeueLease ==
    ASSUME Inv, LeaseIsExclusive, NEW w \in Workers, NEW t \in TaskIds, Dequeue(w, t)
    PROVE  LeaseIsExclusive'
<1>1. w \in Runs /\ t # NoTask
  BY NullAssumption DEF Runs
<1>2. /\ runs'[w].task = t /\ runs'[w].kind = tasks[t].type /\ runs'[w].job = tasks[t].job
      /\ \A s \in Runs \ {w} : runs'[s] = runs[s]
  BY <1>1 DEF Dequeue, Inv, TypeOK
<1>3. /\ tasks'[t].state = "active"
      /\ tasks'[t].type = tasks[t].type /\ tasks'[t].job = tasks[t].job
      /\ \A u \in TaskIds : u # t => tasks'[u] = tasks[u]
  BY DEF Dequeue, Inv, TypeOK
<1>4. \A s \in Runs : runs[s].task \in TaskIds \cup {NoTask} /\ runs[s].task # t
  BY <1>1 DEF Dequeue, Inv, TypeOK, LeaseIsExclusive
<1> QED BY <1>1, <1>2, <1>3, <1>4 DEF LeaseIsExclusive

-----------------------------------------------------------------------------
(* The theorems. *)

LEMMA InitInv == Init => Inv /\ LeaseIsExclusive
<1> SUFFICES ASSUME Init PROVE Inv /\ LeaseIsExclusive
  OBVIOUS
<1>1. TypeOK
  BY DEF Init, TypeOK, IdleRun, FreeTask, Statuses, Manifests, Kinds, Pcs, TaskTypes
<1>2. StatusIsBacked /\ TaskIsBacked /\ RunIsBacked
  BY DEF Init, StatusIsBacked, EvidenceInOrder, Entitled, UploadedStatuses,
         AnalyzedStatuses, EmbeddedStatuses, TaskIsBacked, RunIsBacked, FreeTask
<1>3. LeaseIsExclusive
  BY DEF Init, LeaseIsExclusive, IdleRun
<1> QED BY <1>1, <1>2, <1>3 DEF Inv

LEMMA HandlerInv == ASSUME Inv, NEW r \in Runs, HandlerStep(r) PROVE Inv'
BY MarkFailedInv, MarkFailedQuietlyInv, GetJobInv, UploadFileInv, UpdateJobAfterUploadInv,
   PollFileStateInv, ActivateInv, BeginAnalysisInv, GenerateMetadataInv,
   TruncateManifestInv, WriteManifestInv, FinishAnalysisInv, BeginEmbeddingInv,
   BeginReembeddingInv, LoadManifestInv, EmbedScenesInv, StoreScenesInv, CompleteInv
DEF HandlerStep

LEMMA NextInv == Inv /\ LeaseIsExclusive /\ [Next]_vars => Inv' /\ LeaseIsExclusive'
<1> SUFFICES ASSUME Inv, LeaseIsExclusive, [Next]_vars PROVE Inv' /\ LeaseIsExclusive'
  OBVIOUS
<1>1. CASE UNCHANGED vars
  <2>1. TypeOK' /\ StatusIsBacked' /\ TaskIsBacked' /\ LeaseIsExclusive'
    BY <1>1 DEF vars, Inv, TypeOK, StatusIsBacked, EvidenceInOrder, Entitled,
                TaskIsBacked, Backed, LeaseIsExclusive
  <2>2. RunIsBacked'
    BY <1>1 DEF vars, Inv, RunIsBacked, Prepared, Backed, IdleRun
  <2> QED BY <2>1, <2>2 DEF Inv
<1>2. ASSUME NEW r \in Ingesters, NEW j \in Jobs, StartIngestion(r, j)
      PROVE  Inv' /\ LeaseIsExclusive'
  <2> DEFINE run == [IdleRun EXCEPT !.kind = "ingest", !.job = j, !.pc = "enqueue",
                                    !.live = TRUE]
  <2>1. run.task = NoTask
    BY DEF IdleRun
  <2>2. UNCHANGED runs \/ runs' = [runs EXCEPT ![r] = run]
    BY <1>2 DEF StartIngestion
  <2> HIDE DEF run
  <2>3. HeldAsBefore /\ UNCHANGED tasks
    BY <1>2, <2>1, <2>2 DEF StartIngestion, HeldAsBefore, Inv, TypeOK
  <2> QED BY <1>2, <2>3, StartIngestionInv, LeaseKept
<1>3. ASSUME NEW r \in Reembedders, NEW j \in Jobs, Reembed(r, j)
      PROVE  Inv' /\ LeaseIsExclusive'
  <2>1. HeldAsBefore /\ UNCHANGED tasks
    BY <1>3 DEF Reembed, HeldAsBefore, IdleRun, Inv, TypeOK
  <2> QED BY <1>3, <2>1, ReembedInv, LeaseKept
<1>4. ASSUME NEW w \in Workers, NEW t \in TaskIds, Dequeue(w, t)
      PROVE  Inv' /\ LeaseIsExclusive'
  BY <1>4, DequeueInv, DequeueLease
<1>5. ASSUME NEW r \in Runs, Step(r)
      PROVE  Inv' /\ LeaseIsExclusive'
  <2>1. CASE HandlerStep(r)
    BY <2>1, HandlerInv, HandlerHolds, LeaseKept DEF Inv
  <2>2. CASE Enqueue(r)
    BY <2>2, EnqueueInv, EnqueueLease
  <2>3. CASE Settle(r)
    BY <2>3, SettleInv, SettleLease
  <2> QED BY <1>5, <2>1, <2>2, <2>3 DEF Step, HandlerStep
<1>6. ASSUME NEW r \in Runs, Expire(r)
      PROVE  Inv' /\ LeaseIsExclusive'
  <2>1. HeldAsBefore /\ UNCHANGED tasks
    BY <1>6 DEF Expire, HeldAsBefore, Inv, TypeOK
  <2> QED BY <1>6, <2>1, ExpireInv, LeaseKept
<1>7. ASSUME NEW r \in Runs, Crash(r)
      PROVE  Inv' /\ LeaseIsExclusive'
  <2>1. HeldAsBefore /\ UNCHANGED tasks
    BY <1>7 DEF Crash, HeldAsBefore, IdleRun, Inv, TypeOK
  <2> QED BY <1>7, <2>1, CrashInv, LeaseKept
<1>8. ASSUME NEW t \in TaskIds, Recover(t)
      PROVE  Inv' /\ LeaseIsExclusive'
  BY <1>8, RecoverInv, RecoverLease
<1>9. ASSUME NEW f \in Files, ProviderSettles(f)
      PROVE  Inv' /\ LeaseIsExclusive'
  BY <1>9, ProviderSettlesInv DEF ProviderSettles, LeaseIsExclusive
<1>10. ASSUME NEW j \in Jobs, EditManifest(j)
       PROVE  Inv' /\ LeaseIsExclusive'
  BY <1>10, EditManifestInv DEF EditManifest, LeaseIsExclusive
<1>11. ASSUME NEW j \in Jobs, DeleteVideo(j)
       PROVE  Inv' /\ LeaseIsExclusive'
  BY <1>11, DeleteVideoInv DEF DeleteVideo, LeaseIsExclusive
<1> QED
  BY <1>1, <1>2, <1>3, <1>4, <1>5, <1>6, <1>7, <1>8, <1>9, <1>10, <1>11 DEF Next

\* The inductive invariant holds throughout: any number of jobs, workers,
\* requests and retries, whatever fails.
THEOREM Invariance == Spec => [](Inv /\ LeaseIsExclusive)
BY InitInv, NextInv, PTL DEF Spec

\* Every variable keeps its type.
THEOREM TypeCorrect == Spec => []TypeOK
BY Invariance, PTL DEF Inv

\* A status never claims what the row, the manifest or video_scene do not back.
THEOREM StatusBacked == Spec => []StatusIsBacked
BY Invariance, PTL DEF Inv

\* A queued task never outruns the row it is about.
THEOREM TaskBacked == Spec => []TaskIsBacked
BY Invariance, PTL DEF Inv

\* A handler reaches a call only with the evidence that call builds on.
THEOREM RunBacked == Spec => []RunIsBacked
BY Invariance, PTL DEF Inv

=============================================================================
