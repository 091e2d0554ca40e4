----------------------------- MODULE LossProofs ------------------------------
(***************************************************************************)
(* No accepted job is lost without a trace, for any number of jobs,        *)
(* goroutines, tasks and retries and any set of faults.                    *)
(***************************************************************************)
EXTENDS PipelineProofs

\* A task that is not about to be acknowledged: nobody holds it (it waits for a
\* worker or for the recoverer), or its handler has not returned nil.
Owed(t, j) ==
    /\ tasks[t].state # "free" /\ tasks[t].job = j
    /\ \A r \in Runs : runs[r].task = t => runs[r].pc # "nil"

\* A task that takes the job at least to READY_FOR_EMBEDDING, or has a successor
\* that does: no embed task, and none of an analyzer that only has to enqueue one.
Carries(t) ==
    /\ tasks[t].type # "embed"
    /\ tasks[t].type = "analyze" => \A r \in Runs : runs[r].task = t => runs[r].pc # "enqueue"

\* A worker's run that has not lost its context still holds its task.
LiveHolds ==
    \A r \in Runs : runs[r].live /\ runs[r].kind \in TaskTypes => runs[r].task # NoTask

\* NoSilentLoss is not inductive: the task in flight may be one that is about to
\* be acknowledged.  And an embed task is acknowledged by an embedder that finds
\* a status it does not act on; so before READY_FOR_EMBEDDING it takes another
\* task to carry the job on.
JobOwed(j) ==
    /\ status[j] # "NONE"
    /\ status[j] \in QueueDriven =>
          \/ GivenUp(j)
          \/ \E t \in TaskIds : Owed(t, j) /\ (status[j] = "READY_FOR_EMBEDDING" \/ Carries(t))

LossInv == LiveHolds /\ \A j \in accepted : JobOwed(j)

Known == Inv /\ LeaseIsExclusive /\ LossInv

LEMMA OwedIsInFlight == LossInv => NoSilentLoss
BY DEF LossInv, JobOwed, Owed, NoSilentLoss, InFlight

-----------------------------------------------------------------------------
(* Steps of one run that leave the tasks in Redis alone. *)

\* Run r moves; it keeps its delivery, and nobody else moves.
Moves(r) ==
    /\ runs'[r].task = runs[r].task /\ runs'[r].kind = runs[r].kind
    /\ runs'[r].live = runs[r].live /\ runs'[r].job = runs[r].job
    /\ \A s \in Runs \ {r} : runs'[s] = runs[s]

LEMMA GotoMoves ==
    ASSUME TypeOK, NEW r \in Runs, NEW pc, Goto(r, pc)
    PROVE  Moves(r) /\ runs'[r].pc = pc
BY DEF TypeOK, Goto, Moves

LEMMA MovesLive == ASSUME LiveHolds, NEW r \in Runs, Moves(r) PROVE LiveHolds'
BY DEF LiveHolds, Moves

\* What becomes of the job of a run that moves.
Accounted(r) ==
    LET j == runs[r].job IN
    \/ status'[j] = status[j] /\ runs'[r].pc \notin {"nil", "enqueue"}
    \/ status'[j] \notin QueueDriven
    \/ j \in unmarked'
    \/ /\ runs[r].live /\ runs[r].kind \in {"upload", "state", "analyze"}
       /\ runs'[r].pc # "nil"
       /\ \/ status'[j] = "READY_FOR_EMBEDDING"
          \/ runs[r].kind = "analyze" => runs'[r].pc # "enqueue"
    \/ /\ runs[r].kind \in EmbedderKinds /\ runs'[r].pc = "nil"
       /\ status'[j] = status[j] /\ status[j] # "READY_FOR_EMBEDDING"

\* The tasks of other jobs, and tasks that other runs hold, are owed as before.
LEMMA OthersOwed ==
    ASSUME Known, NEW r \in Runs, Moves(r), UNCHANGED tasks, NEW t \in TaskIds,
           runs[r].task # t
    PROVE  /\ \A j : Owed(t, j) => Owed(t, j)'
           /\ Carries(t) => Carries(t)'
BY DEF Moves, Owed, Carries

LEMMA MoveLoss ==
    ASSUME Known, NEW r \in Runs, runs[r].job \in Jobs, Moves(r),
           UNCHANGED <<tasks, archived, accepted>>,
           unmarked \subseteq unmarked',
           status'[runs[r].job] # "NONE",
           \A i \in Jobs : i # runs[r].job => status'[i] = status[i],
           Accounted(r)
    PROVE  LossInv'
<1> USE DEF Known
<1>1. LiveHolds'
  BY MovesLive DEF LossInv
<1>2. accepted \subseteq Jobs
  BY DEF Inv, TypeOK
<1>3. ASSUME NEW j \in accepted, j # runs[r].job
      PROVE  JobOwed(j)'
  <2>1. j \in Jobs /\ status'[j] = status[j] /\ JobOwed(j)
    BY <1>2, <1>3 DEF LossInv
  <2>2. GivenUp(j) => GivenUp(j)'
    BY DEF GivenUp
  <2>3. ASSUME NEW t \in TaskIds, Owed(t, j) PROVE Owed(t, j)' /\ (Carries(t) => Carries(t)')
    <3>1. runs[r].task # t
      BY <1>3, <2>3, NullAssumption DEF Owed, LeaseIsExclusive
    <3> QED BY <2>3, <3>1, OthersOwed
  <2> QED BY <2>1, <2>2, <2>3 DEF JobOwed
<1>4. ASSUME NEW j \in accepted, j = runs[r].job
      PROVE  JobOwed(j)'
  <2>1. j \in Jobs /\ status'[j] # "NONE" /\ JobOwed(j)
    BY <1>2, <1>4 DEF LossInv
  <2>2. GivenUp(j) => GivenUp(j)'
    BY DEF GivenUp
  <2>3. CASE status'[j] \notin QueueDriven \/ j \in unmarked'
    BY <2>1, <2>3 DEF JobOwed, GivenUp
  <2>4. CASE status'[j] = status[j] /\ runs'[r].pc \notin {"nil", "enqueue"}
    <3>1. ASSUME NEW t \in TaskIds, Owed(t, j) PROVE Owed(t, j)' /\ (Carries(t) => Carries(t)')
      BY <2>4, <3>1 DEF Owed, Carries, Moves
    <3> QED BY <2>1, <2>2, <2>4, <3>1 DEF JobOwed
  <2>5. CASE /\ runs[r].live /\ runs[r].kind \in {"upload", "state", "analyze"}
             /\ runs'[r].pc # "nil"
             /\ \/ status'[j] = "READY_FOR_EMBEDDING"
                \/ runs[r].kind = "analyze" => runs'[r].pc # "enqueue"
    <3>1. PICK t \in TaskIds : t = runs[r].task
      BY <2>5 DEF LossInv, LiveHolds, TaskTypes, Inv, TypeOK
    <3>2. /\ tasks[t].state = "active" /\ tasks[t].type = runs[r].kind /\ tasks[t].job = j
          /\ \A s \in Runs \ {r} : runs[s].task # t
      BY <1>4, <3>1, NullAssumption DEF LeaseIsExclusive
    <3>3. Owed(t, j)'
      BY <2>5, <3>1, <3>2 DEF Owed, Moves
    <3>4. status'[j] = "READY_FOR_EMBEDDING" \/ Carries(t)'
      BY <2>5, <3>1, <3>2 DEF Carries, Moves
    <3> QED BY <2>1, <3>3, <3>4 DEF JobOwed
  <2>6. CASE /\ runs[r].kind \in EmbedderKinds /\ runs'[r].pc = "nil"
             /\ status'[j] = status[j] /\ status[j] # "READY_FOR_EMBEDDING"
    <3>1. ASSUME NEW t \in TaskIds, Owed(t, j), Carries(t)
          PROVE  Owed(t, j)' /\ Carries(t)'
      <4>1. runs[r].task # t
        BY <2>6, <3>1, NullAssumption
        DEF Carries, LeaseIsExclusive, EmbedderKinds, Inv, TypeOK, TaskTypes
      <4> QED BY <3>1, <4>1, OthersOwed
    <3> QED BY <2>1, <2>2, <2>6, <3>1 DEF JobOwed
  <2> QED BY <1>4, <2>3, <2>4, <2>5, <2>6 DEF Accounted
<1> QED BY <1>1, <1>3, <1>4 DEF LossInv

-----------------------------------------------------------------------------
(* The steps of a handler. *)

\* A handler's status update: it moves the run, and the job is accounted for if
\* it is both when the update is applied and when it is not.
LEMMA UpdateLoss ==
    ASSUME Known, NEW r \in Runs, runs[r].pc # "idle",
           NEW next \in Statuses \ {"NONE"}, NEW ok \in Pcs, NEW failed \in Pcs \ {"nil", "enqueue"},
           UpdateJobStatus(r, next, ok, failed),
           UNCHANGED <<tasks, archived, accepted, unmarked>>,
           \/ next \notin QueueDriven
           \/ /\ runs[r].kind \in {"upload", "state", "analyze"} /\ ok # "nil"
              /\ next = "READY_FOR_EMBEDDING" \/ (runs[r].kind = "analyze" => ok # "enqueue")
    PROVE  LossInv'
<1> USE DEF Known
<1> DEFINE j == runs[r].job
<1>1. j \in Jobs /\ status[j] # "NONE"
  BY RunAtCall DEF Prepared, Backed
<1>2. PICK pc \in {ok, failed} : Goto(r, pc)
  BY DEF UpdateJobStatus
<1>3. Moves(r) /\ runs'[r].pc = pc
  BY <1>2, GotoMoves DEF Inv
<1>4. /\ \A i \in Jobs : i # j => status'[i] = status[i]
      /\ status'[j] # "NONE"
  BY <1>1 DEF UpdateJobStatus, Updated, Inv, TypeOK
<1>5. CASE UNCHANGED status /\ Goto(r, failed)
  <2>1. runs'[r].pc = failed
    BY <1>5, GotoMoves DEF Inv
  <2>2. Accounted(r)
    BY <1>5, <2>1 DEF Accounted
  <2> QED BY <1>1, <1>3, <1>4, <2>2, MoveLoss
<1>6. CASE runs[r].live /\ status' = Updated(j, next)
  <2>1. status'[j] = next \/ status'[j] = "GONE"
    BY <1>1, <1>6 DEF Updated, Inv, TypeOK
  <2>2. CASE status'[j] \notin QueueDriven
    <3>1. Accounted(r)
      BY <2>2 DEF Accounted
    <3> QED BY <1>1, <1>3, <1>4, <3>1, MoveLoss
  <2>3. CASE status'[j] \in QueueDriven
    <3>1. status'[j] = next
      BY <2>1, <2>3 DEF QueueDriven
    <3>2. /\ runs[r].kind \in {"upload", "state", "analyze"} /\ runs'[r].pc # "nil"
          /\ next = "READY_FOR_EMBEDDING" \/ (runs[r].kind = "analyze" => runs'[r].pc # "enqueue")
      BY <1>2, <1>3, <2>3, <3>1
    <3>3. Accounted(r)
      BY <1>6, <3>1, <3>2 DEF Accounted
    <3> QED BY <1>1, <1>3, <1>4, <3>3, MoveLoss
  <2> QED BY <2>2, <2>3
<1> QED BY <1>5, <1>6 DEF UpdateJobStatus

\* A step that neither updates the row nor ends the handler.
LEMMA StayLoss ==
    ASSUME Known, NEW r \in Runs, runs[r].pc # "idle", Moves(r),
           UNCHANGED <<status, tasks, archived, accepted, unmarked>>,
           runs'[r].pc \notin {"nil", "enqueue"}
    PROVE  LossInv'
<1>1. runs[r].job \in Jobs /\ status[runs[r].job] # "NONE"
  BY RunAtCall DEF Known, Prepared, Backed
<1>2. Accounted(r)
  BY DEF Accounted
<1> QED BY <1>1, <1>2, MoveLoss

LEMMA SetStatusLoss ==
    ASSUME Known, NEW r \in Runs,
           \/ MarkFailed(r) \/ Activate(r) \/ BeginAnalysis(r) \/ FinishAnalysis(r)
           \/ BeginEmbedding(r) \/ BeginReembedding(r) \/ Complete(r)
    PROVE  LossInv'
<1> USE DEF SetStatus, Statuses, Pcs, QueueDriven
<1>1. runs[r].pc # "idle" => runs[r] \in RunSet /\ Prepared(runs[r])
  BY RunAtCall DEF Known
<1>2. CASE MarkFailed(r)
  BY <1>2, UpdateLoss DEF MarkFailed
<1>3. CASE Activate(r)
  <2>1. runs[r].pc = "activate" /\ runs[r].kind = "state"
    BY <1>1, <1>3 DEF Activate, Prepared, PcsOf, EmbedderPcs
  <2> QED BY <1>3, <2>1, UpdateLoss DEF Activate
<1>4. CASE BeginAnalysis(r)
  <2>1. runs[r].pc = "analyzing" /\ runs[r].kind = "analyze"
    BY <1>1, <1>4 DEF BeginAnalysis, Prepared, PcsOf, EmbedderPcs
  <2> QED BY <1>4, <2>1, UpdateLoss DEF BeginAnalysis
<1>5. CASE FinishAnalysis(r)
  <2>1. runs[r].pc = "ready" /\ runs[r].kind = "analyze"
    BY <1>1, <1>5 DEF FinishAnalysis, Prepared, PcsOf, EmbedderPcs
  <2> QED BY <1>5, <2>1, UpdateLoss DEF FinishAnalysis
<1>6. CASE BeginEmbedding(r)
  BY <1>6, UpdateLoss DEF BeginEmbedding
<1>7. CASE BeginReembedding(r)
  BY <1>7, UpdateLoss DEF BeginReembedding
<1>8. CASE Complete(r)
  BY <1>8, UpdateLoss DEF Complete
<1> QED BY <1>2, <1>3, <1>4, <1>5, <1>6, <1>7, <1>8

\* FAILED could not be written, and the handler returns nil: a trace is left.
LEMMA MarkFailedQuietlyLoss ==
    ASSUME Known, NEW r \in Runs, MarkFailedQuietly(r) PROVE LossInv'
<1> DEFINE j == runs[r].job
<1>1. runs[r].pc = "markQuiet"
  BY DEF MarkFailedQuietly
<1>2. j \in Jobs /\ status[j] # "NONE"
  BY <1>1, RunAtCall DEF Known, Prepared, Backed
<1>3. Moves(r)
  BY GotoMoves DEF MarkFailedQuietly, UpdateJobStatus, Known, Inv
<1>4. /\ \A i \in Jobs : i # j => status'[i] = status[i]
      /\ status'[j] # "NONE"
  BY <1>2 DEF MarkFailedQuietly, UpdateJobStatus, Updated, Known, Inv, TypeOK
<1>5. unmarked \subseteq unmarked'
  BY DEF MarkFailedQuietly
<1>6. status'[j] \in {"FAILED", "GONE"} \/ j \in unmarked'
  BY DEF MarkFailedQuietly
<1>7. Accounted(r)
  BY <1>6 DEF Accounted, QueueDriven
<1> QED BY <1>2, <1>3, <1>4, <1>5, <1>7, MoveLoss DEF MarkFailedQuietly

LEMMA GetJobLoss == ASSUME Known, NEW r \in Runs, GetJob(r) PROVE LossInv'
<1> DEFINE j == runs[r].job
<1>1. runs[r].pc = "get" /\ UNCHANGED <<status, tasks, archived, accepted, unmarked>>
  BY DEF GetJob
<1>2. runs[r] \in RunSet /\ Prepared(runs[r]) /\ j \in Jobs
  BY <1>1, RunAtCall DEF Known
<1>3. Moves(r) /\ runs'[r].pc \in {"err", AfterGet(runs[r].kind, j)}
  <2>1. CASE Goto(r, "err")
    BY <2>1, GotoMoves DEF Known, Inv
  <2>2. CASE \E f : runs' = [runs EXCEPT ![r].pc = AfterGet(runs[r].kind, j), ![r].file = f]
    BY <2>2 DEF Known, Inv, TypeOK, Moves
  <2> QED BY <2>1, <2>2 DEF GetJob
<1>4. runs[r].kind \in {"upload", "state", "analyze"} \cup EmbedderKinds
  BY <1>1, <1>2 DEF Prepared, PcsOf, EmbedderKinds
<1>5. CASE runs'[r].pc \notin {"nil", "enqueue"}
  BY <1>1, <1>3, <1>5, StayLoss
<1>6. CASE runs'[r].pc \in {"nil", "enqueue"}
  <2>1. AfterGet(runs[r].kind, j) \in {"nil", "enqueue"}
    BY <1>3, <1>6
  <2>2. runs[r].kind \in EmbedderKinds
    BY <1>4, <2>1 DEF AfterGet
  <2>3. status[j] # "READY_FOR_EMBEDDING" /\ AfterGet(runs[r].kind, j) = "nil"
    BY <2>1, <2>2 DEF AfterGet, EmbedderKinds
  <2>4. Accounted(r)
    BY <1>1, <1>3, <1>6, <2>2, <2>3 DEF Accounted
  <2>5. status[j] # "NONE"
    BY <1>2 DEF Prepared, Backed
  <2> QED BY <1>1, <1>2, <1>3, <2>4, <2>5, MoveLoss
<1> QED BY <1>5, <1>6

LEMMA UpdateJobAfterUploadLoss ==
    ASSUME Known, NEW r \in Runs, UpdateJobAfterUpload(r) PROVE LossInv'
<1> DEFINE j == runs[r].job
<1>1. runs[r].pc = "uploaded" /\ UNCHANGED <<tasks, archived, accepted, unmarked>>
  BY DEF UpdateJobAfterUpload
<1>2. Prepared(runs[r]) /\ j \in Jobs /\ status[j] # "NONE"
  BY <1>1, RunAtCall DEF Known, Prepared, Backed
<1>3. runs[r].kind = "upload"
  BY <1>1, <1>2 DEF Prepared, PcsOf, EmbedderPcs
<1>4. PICK pc \in {"enqueue", "err"} :
         /\ runs' = [runs EXCEPT ![r].pc = pc, ![r].file = NoFile]
         /\ \/ UNCHANGED status /\ pc = "err"
            \/ runs[r].live /\ status' = Updated(j, "UPLOADED_TO_PROVIDER")
  BY DEF UpdateJobAfterUpload
<1>5. Moves(r) /\ runs'[r].pc = pc
  BY <1>4 DEF Known, Inv, TypeOK, Moves
<1>6. /\ \A i \in Jobs : i # j => status'[i] = status[i]
      /\ status'[j] # "NONE"
  BY <1>2, <1>4 DEF Updated, Known, Inv, TypeOK
<1>7. Accounted(r)
  BY <1>3, <1>4, <1>5 DEF Accounted
<1> QED BY <1>1, <1>2, <1>5, <1>6, <1>7, MoveLoss

LEMMA HandlerLoss == ASSUME Known, NEW r \in Runs, HandlerStep(r) PROVE LossInv'
<1>1. CASE \/ UploadFile(r) \/ PollFileState(r) \/ GenerateMetadata(r) \/ TruncateManifest(r)
           \/ WriteManifest(r) \/ LoadManifest(r) \/ EmbedScenes(r) \/ StoreScenes(r)
  <2>1. UNCHANGED <<status, tasks, archived, accepted, unmarked>>
    BY <1>1 DEF UploadFile, Uploaded, PollFileState, FileState, GenerateMetadata, TruncateManifest, WriteManifest,
                LoadManifest, EmbedScenes, StoreScenes
  <2>2. runs[r].pc # "idle"
    BY <1>1 DEF UploadFile, Uploaded, PollFileState, FileState, GenerateMetadata, TruncateManifest, WriteManifest,
                LoadManifest, EmbedScenes, StoreScenes
  <2> DEFINE Others == Pcs \ {"nil", "enqueue"}
  <2>3. \/ \E pc \in Others : Goto(r, pc)
        \/ \E pc \in Others : \E f : runs' = [runs EXCEPT ![r].pc = pc, ![r].file = f]
        \/ \E pc \in Others : \E f : runs' = [runs EXCEPT ![r].file = f, ![r].pc = pc]
    <3>1. CASE UploadFile(r)
      BY <3>1 DEF UploadFile, Uploaded, Pcs
    <3>2. CASE PollFileState(r)
      BY <3>2 DEF PollFileState, FileState, Pcs
    <3>3. CASE GenerateMetadata(r)
      BY <3>3 DEF GenerateMetadata, Pcs
    <3>4. CASE TruncateManifest(r) \/ WriteManifest(r) \/ LoadManifest(r) \/ EmbedScenes(r)
               \/ StoreScenes(r)
      BY <3>4 DEF TruncateManifest, WriteManifest, LoadManifest, EmbedScenes, StoreScenes, Pcs
    <3> QED BY <1>1, <3>1, <3>2, <3>3, <3>4
  <2>4. Moves(r) /\ runs'[r].pc \notin {"nil", "enqueue"}
    <3>1. ASSUME NEW pc \in Others, Goto(r, pc)
          PROVE  Moves(r) /\ runs'[r].pc \notin {"nil", "enqueue"}
      BY <3>1, GotoMoves DEF Known, Inv
    <3>2. ASSUME NEW pc \in Others, NEW f,
                 \/ runs' = [runs EXCEPT ![r].pc = pc, ![r].file = f]
                 \/ runs' = [runs EXCEPT ![r].file = f, ![r].pc = pc]
          PROVE  Moves(r) /\ runs'[r].pc \notin {"nil", "enqueue"}
      BY <3>2 DEF Known, Inv, TypeOK, Moves
    <3> QED BY <2>3, <3>1, <3>2
  <2> QED BY <2>1, <2>2, <2>4, StayLoss
<1> QED
  BY <1>1, SetStatusLoss, MarkFailedQuietlyLoss, GetJobLoss, UpdateJobAfterUploadLoss
  DEF HandlerStep

-----------------------------------------------------------------------------
(* The steps on the queues. *)

\* A step in which tasks that are owed stay owed, or their job has been given up.
LEMMA OwedLoss ==
    ASSUME Known, UNCHANGED <<status, accepted, unmarked>>, archived \subseteq archived',
           LiveHolds',
           \A t \in TaskIds, j \in Jobs :
              Owed(t, j) => GivenUp(j)' \/ (Owed(t, j)' /\ (Carries(t) => Carries(t)'))
    PROVE  LossInv'
<1>1. accepted \subseteq Jobs
  BY DEF Known, Inv, TypeOK
<1>2. ASSUME NEW j \in accepted PROVE JobOwed(j)'
  <2>1. j \in Jobs /\ JobOwed(j)
    BY <1>1 DEF Known, LossInv
  <2>2. GivenUp(j) => GivenUp(j)'
    BY DEF GivenUp
  <2> QED BY <2>1, <2>2 DEF JobOwed
<1> QED BY <1>2 DEF LossInv

\* Nobody holds a task that is not active.
LEMMA Unheld ==
    ASSUME Known, NEW t \in TaskIds, tasks[t].state # "active"
    PROVE  \A s \in Runs : runs[s].task # t
BY NullAssumption DEF Known, LeaseIsExclusive

\* Asynq is done with a delivery that failed: the task waits for the next one or
\* is archived.
LEMMA NackOwed ==
    ASSUME Known, NEW t \in TaskIds, Nack(t), \A s \in Runs : runs'[s].task # t,
           \A s \in Runs : runs'[s].task = NoTask \/ runs'[s] = runs[s]
    PROVE  /\ archived \subseteq archived'
           /\ \A u \in TaskIds, j \in Jobs :
                 Owed(u, j) => GivenUp(j)' \/ (Owed(u, j)' /\ (Carries(u) => Carries(u)'))
<1>1. archived \subseteq archived'
  BY DEF Nack
<1>2. ASSUME NEW u \in TaskIds, NEW j \in Jobs, Owed(u, j)
      PROVE  GivenUp(j)' \/ (Owed(u, j)' /\ (Carries(u) => Carries(u)'))
  <2>1. CASE u # t
    <3>1. tasks'[u] = tasks[u]
      BY <2>1 DEF Nack, Known, Inv, TypeOK
    <3>2. \A s \in Runs : runs'[s].task = u => runs'[s] = runs[s]
      BY NullAssumption
    <3> QED BY <1>2, <3>1, <3>2 DEF Owed, Carries
  <2>2. CASE u = t
    <3>1. CASE tasks' = [tasks EXCEPT ![t].state = "ready", ![t].retried = @ + 1]
      <4>1. /\ tasks'[t].state = "ready" /\ tasks'[t].job = tasks[t].job
            /\ tasks'[t].type = tasks[t].type
        BY <3>1 DEF Known, Inv, TypeOK
      <4> QED BY <1>2, <2>2, <4>1 DEF Owed, Carries
    <3>2. CASE archived' = archived \cup {<<tasks[t].type, tasks[t].job>>}
      <4>1. tasks[t].type \in TaskTypes /\ tasks[t].job = j
        BY <1>2, <2>2 DEF Owed, Known, Inv, TypeOK
      <4> QED BY <3>2, <4>1 DEF GivenUp
    <3> QED BY <3>1, <3>2 DEF Nack
  <2> QED BY <2>1, <2>2
<1> QED BY <1>1, <1>2

LEMMA SettleLoss == ASSUME Known, NEW r \in Runs, Settle(r) PROVE LossInv'
<1> DEFINE t == runs[r].task
<1>1. /\ runs' = [runs EXCEPT ![r] = IdleRun] /\ UNCHANGED <<status, accepted, unmarked>>
      /\ runs[r].pc \in {"nil", "err"}
  BY DEF Settle
<1>2. /\ runs'[r] = IdleRun /\ runs'[r].task = NoTask
      /\ \A s \in Runs \ {r} : runs'[s] = runs[s]
  BY <1>1 DEF Known, Inv, TypeOK, IdleRun
<1>3. LiveHolds'
  BY <1>2 DEF Known, LossInv, LiveHolds, IdleRun
<1>4. CASE t = NoTask
  <2>1. UNCHANGED <<tasks, archived>>
    BY <1>4 DEF Settle
  <2>2. \A u \in TaskIds, j \in Jobs : Owed(u, j) => Owed(u, j)' /\ (Carries(u) => Carries(u)')
    BY <1>2, <2>1, NullAssumption DEF Owed, Carries
  <2> QED BY <1>1, <1>3, <2>1, <2>2, OwedLoss
<1>5. CASE t # NoTask
  <2>1. t \in TaskIds /\ \A s \in Runs : runs'[s].task # t
    BY <1>2, <1>5 DEF Known, Inv, TypeOK, LeaseIsExclusive
  <2>2. CASE runs[r].pc = "nil"
    <3>1. UNCHANGED archived /\ \A u \in TaskIds : u # t => tasks'[u] = tasks[u]
      BY <1>5, <2>2 DEF Settle, Ack, Known, Inv, TypeOK
    <3>2. ASSUME NEW u \in TaskIds, NEW j \in Jobs, Owed(u, j)
          PROVE  Owed(u, j)' /\ (Carries(u) => Carries(u)')
      <4>1. u # t
        BY <2>2, <3>2 DEF Owed
      <4> QED BY <1>2, <3>1, <3>2, <4>1, NullAssumption DEF Owed, Carries
    <3> QED BY <1>1, <1>3, <3>1, <3>2, OwedLoss
  <2>3. CASE runs[r].pc = "err"
    <3>1. Nack(t)
      BY <1>5, <2>3 DEF Settle
    <3> HIDE DEF t
    <3> QED BY <1>1, <1>2, <1>3, <2>1, <3>1, NackOwed, OwedLoss
  <2> QED BY <1>1, <2>2, <2>3
<1> QED BY <1>4, <1>5

LEMMA RecoverLoss == ASSUME Known, NEW t \in TaskIds, Recover(t) PROVE LossInv'
<1>1. /\ Nack(t) /\ UNCHANGED <<status, runs, accepted, unmarked>>
      /\ \A s \in Runs : runs[s].task # t
  BY DEF Recover
<1>2. LiveHolds'
  BY <1>1 DEF Known, LossInv, LiveHolds
<1> QED BY <1>1, <1>2, NackOwed, OwedLoss

LEMMA DequeueLoss ==
    ASSUME Known, NEW w \in Workers, NEW t \in TaskIds, Dequeue(w, t) PROVE LossInv'
<1>1. w \in Runs /\ t # NoTask
  BY NullAssumption DEF Runs
<1>2. /\ UNCHANGED <<status, archived, accepted, unmarked>>
      /\ runs'[w].pc = "get" /\ runs'[w].task = t
      /\ \A s \in Runs \ {w} : runs'[s] = runs[s]
  BY <1>1 DEF Dequeue, Known, Inv, TypeOK
<1>3. \A u \in TaskIds : /\ tasks'[u].type = tasks[u].type /\ tasks'[u].job = tasks[u].job
                         /\ tasks[u].state # "free" => tasks'[u].state # "free"
  BY DEF Dequeue, Known, Inv, TypeOK
<1>4. LiveHolds'
  BY <1>1, <1>2 DEF Known, LossInv, LiveHolds
<1>5. \A u \in TaskIds, j \in Jobs : Owed(u, j) => Owed(u, j)' /\ (Carries(u) => Carries(u)')
  BY <1>2, <1>3 DEF Owed, Carries
<1> QED BY <1>2, <1>4, <1>5, OwedLoss

LEMMA EnqueueLoss == ASSUME Known, NEW r \in Runs, Enqueue(r) PROVE LossInv'
<1>1. runs[r].pc = "enqueue" /\ UNCHANGED <<status, archived, unmarked>>
  BY DEF Enqueue
<1>2. PICK j \in Jobs :
         j = runs[r].job /\ status[j] # "NONE" /\ runs[r].kind \in DOMAIN NextType
  BY <1>1, RunAtCall DEF Known, Prepared, Backed
<1>3. Moves(r) /\ runs'[r].pc \in {"nil", "err"}
  BY GotoMoves DEF Enqueue, Known, Inv
<1>4. LiveHolds'
  BY <1>3, MovesLive DEF Known, LossInv
<1>5. UNCHANGED tasks \/ \E t \in TaskIds : AddTask(r, t)
  BY DEF Enqueue
\* What was in Redis before the step is left as it was.
<1>6. \A u \in TaskIds : tasks[u].state # "free" => tasks'[u] = tasks[u]
  BY <1>5 DEF AddTask, Known, Inv, TypeOK
<1>7. ASSUME NEW u \in TaskIds, NEW i \in Jobs, Owed(u, i),
             runs[r].task # u \/ runs'[r].pc = "err"
      PROVE  Owed(u, i)' /\ (Carries(u) => Carries(u)')
  BY <1>3, <1>6, <1>7 DEF Owed, Carries, Moves
<1>8. CASE runs'[r].pc = "err"
  <2>1. accepted' = accepted
    BY <1>3, <1>8, GotoMoves DEF Enqueue, Known, Inv
  <2> QED BY <1>1, <1>4, <1>7, <1>8, <2>1, OwedLoss
<1>9. CASE runs'[r].pc = "nil"
  <2>1. /\ \E t \in TaskIds : AddTask(r, t)
        /\ accepted' = IF runs[r].kind = "ingest" THEN accepted \cup {j} ELSE accepted
    BY <1>2, <1>9, GotoMoves DEF Enqueue, Known, Inv
  <2>2. PICK t \in TaskIds : AddTask(r, t)
    BY <2>1
  <2>3. /\ tasks'[t].state = "ready" /\ tasks'[t].job = j
        /\ tasks'[t].type = NextType[runs[r].kind]
        /\ \A s \in Runs : runs'[s].task # t
    <3>1. \A s \in Runs : runs[s].task # t
      BY <2>2, Unheld DEF AddTask
    <3> QED BY <1>2, <1>3, <2>2, <3>1 DEF AddTask, Moves, Known, Inv, TypeOK
  <2>4. Owed(t, j)' /\ (runs[r].kind # "analyze" => Carries(t)')
    BY <1>2, <2>3 DEF Owed, Carries, NextType
  <2>5. accepted \subseteq Jobs
    BY DEF Known, Inv, TypeOK
  <2>6. ASSUME NEW i \in accepted', i # j PROVE JobOwed(i)'
    <3>1. i \in Jobs /\ JobOwed(i) /\ (GivenUp(i) => GivenUp(i)')
      BY <1>1, <2>1, <2>5, <2>6 DEF Known, LossInv, GivenUp
    <3>2. ASSUME NEW u \in TaskIds, Owed(u, i) PROVE runs[r].task # u
      BY <1>2, <2>6, <3>2, NullAssumption DEF Owed, Known, LeaseIsExclusive
    <3> QED BY <1>1, <1>7, <3>1, <3>2 DEF JobOwed
  <2>7. CASE runs[r].kind # "analyze"
    <3>1. JobOwed(j)'
      BY <1>1, <1>2, <2>4, <2>7 DEF JobOwed
    <3> QED BY <1>4, <2>6, <3>1 DEF LossInv
  <2>8. CASE runs[r].kind = "analyze"
    <3>1. ASSUME j \in accepted PROVE JobOwed(j)'
      <4>1. JobOwed(j) /\ (GivenUp(j) => GivenUp(j)')
        BY <1>1, <3>1 DEF Known, LossInv, GivenUp
      <4>2. ASSUME NEW u \in TaskIds, Owed(u, j), Carries(u) PROVE runs[r].task # u
        BY <1>1, <2>8, <4>2, NullAssumption DEF Carries, Known, LeaseIsExclusive
      <4> QED BY <1>1, <1>2, <1>7, <2>4, <4>1, <4>2 DEF JobOwed
    <3> QED BY <1>4, <2>1, <2>6, <2>8, <3>1 DEF LossInv
  <2> QED BY <2>7, <2>8
<1> QED BY <1>3, <1>8, <1>9

-----------------------------------------------------------------------------
(* Requests, faults, the provider and the people around the system. *)

\* A step that at most ends runs or takes their delivery away.
LEMMA LoseLoss ==
    ASSUME Known, UNCHANGED <<status, tasks, archived, accepted, unmarked>>, LiveHolds',
           \A s \in Runs : runs'[s].task = NoTask \/ runs'[s] = runs[s]
    PROVE  LossInv'
<1>1. \A u \in TaskIds, j \in Jobs : Owed(u, j) => Owed(u, j)' /\ (Carries(u) => Carries(u)')
  BY NullAssumption DEF Owed, Carries
<1> QED BY <1>1, OwedLoss

LEMMA AroundLoss ==
    ASSUME Known,
           \/ \E r \in Reembedders, j \in Jobs : Reembed(r, j)
           \/ \E r \in Runs : Expire(r) \/ Crash(r)
           \/ \E f \in Files : ProviderSettles(f)
           \/ \E j \in Jobs : EditManifest(j)
    PROVE  LossInv'
<1> USE DEF Known
<1>1. ASSUME NEW r \in Reembedders, NEW j \in Jobs, Reembed(r, j) PROVE LossInv'
  <2>1. /\ r \in Runs /\ runs'[r].task = NoTask /\ runs'[r].kind = "manual"
        /\ \A s \in Runs \ {r} : runs'[s] = runs[s]
    BY <1>1 DEF Runs, Reembed, IdleRun, Inv, TypeOK
  <2>2. LiveHolds'
    BY <2>1 DEF LossInv, LiveHolds, TaskTypes
  <2> QED BY <1>1, <2>1, <2>2, LoseLoss DEF Reembed
<1>2. ASSUME NEW r \in Runs, Expire(r) \/ Crash(r) PROVE LossInv'
  <2>1. /\ runs'[r].task = NoTask /\ ~runs'[r].live
        /\ \A s \in Runs \ {r} : runs'[s] = runs[s]
    BY <1>2 DEF Expire, Crash, IdleRun, Inv, TypeOK
  <2>2. LiveHolds'
    BY <2>1 DEF LossInv, LiveHolds
  <2> QED BY <1>2, <2>1, <2>2, LoseLoss DEF Expire, Crash
<1>3. ASSUME NEW f \in Files, ProviderSettles(f) PROVE LossInv'
  BY <1>3, LoseLoss DEF ProviderSettles, LossInv, LiveHolds
<1>4. ASSUME NEW j \in Jobs, EditManifest(j) PROVE LossInv'
  BY <1>4, LoseLoss DEF EditManifest, LossInv, LiveHolds
<1> QED BY <1>1, <1>2, <1>3, <1>4

\* A row appears or goes: only the job of that row is affected.
LEMMA RowLoss ==
    ASSUME Known, NEW j \in Jobs, UNCHANGED <<tasks, archived, accepted, unmarked>>,
           \A i \in Jobs : i # j => status'[i] = status[i],
           j \notin accepted \/ status'[j] = "GONE", LiveHolds',
           \A s \in Runs : runs'[s].task = NoTask \/ runs'[s] = runs[s]
    PROVE  LossInv'
<1>1. \A u \in TaskIds, i \in Jobs : Owed(u, i) => Owed(u, i)' /\ (Carries(u) => Carries(u)')
  BY NullAssumption DEF Owed, Carries
<1>2. accepted \subseteq Jobs
  BY DEF Known, Inv, TypeOK
<1>3. ASSUME NEW i \in accepted, i # j PROVE JobOwed(i)'
  <2>1. i \in Jobs /\ JobOwed(i) /\ (GivenUp(i) => GivenUp(i)')
    BY <1>2 DEF Known, LossInv, GivenUp
  <2> QED BY <1>1, <1>3, <2>1 DEF JobOwed
<1>4. j \in accepted => JobOwed(j)'
  BY DEF JobOwed, QueueDriven
<1> QED BY <1>3, <1>4 DEF LossInv

LEMMA StartIngestionLoss ==
    ASSUME Known, NEW r \in Ingesters, NEW j \in Jobs, StartIngestion(r, j) PROVE LossInv'
<1>1. r \in Runs /\ j \notin accepted
  BY DEF Runs, StartIngestion, Known, LossInv, JobOwed
<1> DEFINE run == [IdleRun EXCEPT !.kind = "ingest", !.job = j, !.pc = "enqueue",
                                  !.live = TRUE]
<1>5. run.task = NoTask /\ run.kind = "ingest"
  BY DEF IdleRun
<1>6. UNCHANGED runs \/ runs' = [runs EXCEPT ![r] = run]
  BY DEF StartIngestion
<1> HIDE DEF run
<1>2. /\ \A s \in Runs : runs'[s].task = NoTask \/ runs'[s] = runs[s]
      /\ \A s \in Runs : runs'[s] = runs[s] \/ runs'[s].kind = "ingest"
  BY <1>1, <1>5, <1>6 DEF Known, Inv, TypeOK
<1>3. LiveHolds'
  BY <1>2 DEF Known, LossInv, LiveHolds, TaskTypes
<1>4. \A i \in Jobs : i # j => status'[i] = status[i]
  BY DEF StartIngestion, Known, Inv, TypeOK
<1> QED BY <1>1, <1>2, <1>3, <1>4, RowLoss DEF StartIngestion

LEMMA DeleteVideoLoss == ASSUME Known, NEW j \in Jobs, DeleteVideo(j) PROVE LossInv'
<1>1. LiveHolds'
  BY DEF DeleteVideo, Known, LossInv, LiveHolds
<1>2. status'[j] = "GONE" /\ \A i \in Jobs : i # j => status'[i] = status[i]
  BY DEF DeleteVideo, Known, Inv, TypeOK
<1> QED BY <1>1, <1>2, RowLoss DEF DeleteVideo

LEMMA LossNext == Known /\ [Next]_vars => LossInv'
<1> SUFFICES ASSUME Known, [Next]_vars PROVE LossInv'
  OBVIOUS
<1>1. CASE UNCHANGED vars
  BY <1>1, LoseLoss DEF vars, Known, LossInv, LiveHolds
<1>2. ASSUME NEW r \in Runs, Step(r) PROVE LossInv'
  BY <1>2, HandlerLoss, EnqueueLoss, SettleLoss DEF Step, HandlerStep
<1> QED
  BY <1>1, <1>2, AroundLoss, StartIngestionLoss, DeleteVideoLoss, DequeueLoss, RecoverLoss
  DEF Next

LEMMA LossInit == Init => LossInv
BY DEF Init, LossInv, LiveHolds, IdleRun

\* While an accepted job is in a status that a task should move on, Asynq holds a
\* task for it or has archived one, or a handler dropped it after its FAILED
\* update failed: for any number of jobs and workers and whatever fails.
THEOREM NoLoss == Spec => []NoSilentLoss
<1>1. Known /\ [Next]_vars => LossInv'
  BY LossNext
<1>2. Spec => []LossInv
  BY <1>1, LossInit, Invariance, PTL DEF Spec, Known
<1> QED BY <1>2, OwedIsInFlight, PTL

=============================================================================
