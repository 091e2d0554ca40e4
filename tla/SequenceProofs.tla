--------------------------- MODULE SequenceProofs ----------------------------
(***************************************************************************)
(* The stages of a job follow one another, and a delivered embed task finds *)
(* a whole manifest, for any number of jobs, goroutines, tasks and retries, when   *)
(* no message is repeated: no process dies, no context is cancelled and    *)
(* Redis answers.  Database, provider and disk may fail, manifests may be  *)
(* edited and videos deleted.                                              *)
(***************************************************************************)
EXTENDS LossProofs

NothingRepeated == Faults \cap {"crash", "expire", "redis"} = {}

\* Whoever runs a handler does so under a live context, and workers run tasks.
Attended(r) ==
    runs[r] # IdleRun => runs[r].live /\ (r \in Workers => runs[r].kind \in TaskTypes)

\* The request that is about to enqueue the first task of its job.
Asking(r, j) ==
    runs[r].kind = "ingest" /\ runs[r].pc = "enqueue" /\ runs[r].job = j

\* A job is passed on: at most one task, or the request before the first one,
\* has yet to do something about it.
OneBaton(j) ==
    /\ \A t, u \in TaskIds : Owed(t, j) /\ Owed(u, j) => t = u
    /\ \A r, s \in Runs : Asking(r, j) /\ Asking(s, j) => r = s
    /\ \A r \in Runs, t \in TaskIds : ~(Asking(r, j) /\ Owed(t, j))

\* A manifest is half written only while its analyzer is at it, or is to be
\* repeated, or has been given up: nobody is going to read it.
TornIsUnread(j) ==
    manifest[j] = "torn" => \A t \in TaskIds : Owed(t, j) => tasks[t].type # "embed"

WritesTorn(r) ==
    /\ runs[r].pc = "write" => manifest[runs[r].job] = "torn"
    /\ runs[r].kind = "analyze" /\ runs[r].pc \in {"ready", "enqueue"}
          => manifest[runs[r].job] # "torn"

SequenceInv ==
    /\ \A r \in Runs : Attended(r) /\ WritesTorn(r)
    /\ \A j \in Jobs : OneBaton(j) /\ TornIsUnread(j)

Before == Known /\ SequenceInv

-----------------------------------------------------------------------------
(* What the invariant says of two runs of one job. *)

\* A handler that has not returned nil owes its task.
LEMMA HolderOwes ==
    ASSUME Before, NEW r \in Runs, runs[r].kind \in TaskTypes, runs[r].pc # "nil"
    PROVE  /\ runs[r].job \in Jobs
           /\ \E t \in TaskIds : /\ t = runs[r].task /\ Owed(t, runs[r].job)
                                 /\ tasks[t].type = runs[r].kind
<1>1. runs[r] # IdleRun
  BY DEF IdleRun, TaskTypes
<1>2. runs[r].job \in Jobs
  BY <1>1 DEF Before, Known, Inv, RunIsBacked, Prepared
<1>3. runs[r].task # NoTask
  BY <1>1 DEF Before, Known, SequenceInv, Attended, LossInv, LiveHolds
<1>4. PICK t \in TaskIds : t = runs[r].task
  BY <1>3 DEF Before, Known, Inv, TypeOK
<1>5. /\ tasks[t].state = "active" /\ tasks[t].type = runs[r].kind
      /\ tasks[t].job = runs[r].job /\ \A s \in Runs \ {r} : runs[s].task # t
  BY <1>3, <1>4 DEF Before, Known, LeaseIsExclusive
<1>6. Owed(t, runs[r].job)
  BY <1>4, <1>5 DEF Owed
<1> QED BY <1>2, <1>4, <1>5, <1>6

LEMMA OneHolder ==
    ASSUME Before, NEW r \in Runs, NEW s \in Runs, runs[r].job = runs[s].job,
           runs[r].kind \in TaskTypes, runs[r].pc # "nil",
           runs[s].kind \in TaskTypes, runs[s].pc # "nil"
    PROVE  r = s
<1>1. PICK t \in TaskIds : t = runs[r].task /\ Owed(t, runs[r].job)
  BY HolderOwes
<1>2. PICK u \in TaskIds : u = runs[s].task /\ Owed(u, runs[r].job)
  BY HolderOwes
<1>3. t = u
  BY <1>1, <1>2, HolderOwes DEF Before, SequenceInv, OneBaton
<1> QED BY <1>1, <1>2, <1>3, NullAssumption DEF Before, Known, LeaseIsExclusive

LEMMA SequenceImplies == Before => StagesDoNotOverlap
<1> SUFFICES ASSUME Before, NEW v \in Workers, NEW w \in Workers, v # w,
                    runs[v].job = runs[w].job, runs[v] # IdleRun,
                    runs[v].pc # "nil", runs[w].pc # "nil"
             PROVE  FALSE
  BY DEF StagesDoNotOverlap
<1>1. v \in Runs /\ w \in Runs
  BY DEF Runs
<1>2. runs[w] # IdleRun
  BY <1>1, NullAssumption DEF Before, Known, Inv, RunIsBacked, Prepared, IdleRun
<1>3. runs[v].kind \in TaskTypes /\ runs[w].kind \in TaskTypes
  BY <1>1, <1>2 DEF Before, SequenceInv, Attended
<1> QED BY <1>1, <1>3, OneHolder

-----------------------------------------------------------------------------
(* Steps that create no task. *)

\* Nobody owes or asks who did not before.
NothingNew ==
    /\ \A t \in TaskIds, j \in Jobs : Owed(t, j)' => Owed(t, j) /\ tasks'[t].type = tasks[t].type
    /\ \A r \in Runs, j \in Jobs : Asking(r, j)' => Asking(r, j)

LEMMA NothingNewKeeps ==
    ASSUME Before, NothingNew, NEW j \in Jobs
    PROVE  /\ OneBaton(j)'
           /\ (manifest'[j] = "torn" => manifest[j] = "torn") => TornIsUnread(j)'
BY DEF Before, SequenceInv, OneBaton, TornIsUnread, NothingNew

\* Run r has made its call and gone on to pc.
Arrives(r, pc) ==
    \/ Goto(r, pc)
    \/ \E f : runs' = [runs EXCEPT ![r].pc = pc, ![r].file = f]
    \/ \E f : runs' = [runs EXCEPT ![r].file = f, ![r].pc = pc]

LEMMA ArrivesMoves ==
    ASSUME Inv, NEW r \in Runs, NEW pc, Arrives(r, pc)
    PROVE  Moves(r) /\ runs'[r].pc = pc
<1>1. CASE Goto(r, pc)
  BY <1>1, GotoMoves DEF Inv
<1>2. ASSUME NEW f, \/ runs' = [runs EXCEPT ![r].pc = pc, ![r].file = f]
                    \/ runs' = [runs EXCEPT ![r].file = f, ![r].pc = pc]
      PROVE  Moves(r) /\ runs'[r].pc = pc
  BY <1>2 DEF Inv, TypeOK, Moves
<1> QED BY <1>1, <1>2 DEF Arrives

\* Where the steps that leave the manifest alone lead to.
LEMMA HandlerArrives ==
    ASSUME Known, NEW r \in Runs, HandlerStep(r)
    PROVE  /\ UNCHANGED tasks
           /\ runs[r].pc \notin {"idle", "nil", "err", "enqueue"}
           /\ \/ TruncateManifest(r) \/ WriteManifest(r)
              \/ /\ UNCHANGED manifest
                 /\ \E pc \in Pcs \ {"write", "ready"} :
                       /\ Arrives(r, pc)
                       /\ pc = "enqueue" => \/ runs[r].pc = "ready"
                                            \/ runs[r].pc \in {"uploaded", "activate"}
<1>1. CASE MarkFailed(r) \/ BeginAnalysis(r) \/ BeginEmbedding(r) \/ BeginReembedding(r)
           \/ Complete(r)
  BY <1>1 DEF MarkFailed, BeginAnalysis, BeginEmbedding, BeginReembedding, Complete,
              SetStatus, UpdateJobStatus, Arrives, Pcs
<1>2. CASE Activate(r) \/ FinishAnalysis(r)
  BY <1>2 DEF Activate, FinishAnalysis, SetStatus, UpdateJobStatus, Arrives, Pcs
<1>3. CASE MarkFailedQuietly(r)
  BY <1>3 DEF MarkFailedQuietly, UpdateJobStatus, Arrives, Pcs
<1>4. CASE GetJob(r)
  <2>1. \A kind, j : AfterGet(kind, j) \in Pcs \ {"write", "ready", "enqueue"}
    BY DEF AfterGet, Pcs
  <2> QED BY <1>4, <2>1 DEF GetJob, Arrives, Pcs
<1>5. CASE UploadFile(r)
  BY <1>5 DEF UploadFile, Uploaded, Arrives, Pcs
<1>6. CASE UpdateJobAfterUpload(r)
  <2>1. PICK pc \in {"enqueue", "err"} : runs' = [runs EXCEPT ![r].pc = pc, ![r].file = NoFile]
    BY <1>6 DEF UpdateJobAfterUpload
  <2> QED BY <1>6, <2>1 DEF UpdateJobAfterUpload, Arrives, Pcs
<1>7. CASE PollFileState(r)
  <2>1. PICK pc \in {"activate", "markQuiet", "err"} :
           runs' = [runs EXCEPT ![r].file = NoFile, ![r].pc = pc]
    BY <1>7 DEF PollFileState
  <2> QED BY <1>7, <2>1 DEF PollFileState, Arrives, Pcs
<1>8. CASE GenerateMetadata(r)
  BY <1>8 DEF GenerateMetadata, Arrives, Pcs
<1>9. CASE LoadManifest(r) \/ EmbedScenes(r) \/ StoreScenes(r)
  BY <1>9 DEF LoadManifest, EmbedScenes, StoreScenes, Arrives, Pcs
<1>10. CASE TruncateManifest(r) \/ WriteManifest(r)
  BY <1>10 DEF TruncateManifest, WriteManifest
<1> QED BY <1>1, <1>2, <1>3, <1>4, <1>5, <1>6, <1>7, <1>8, <1>9, <1>10 DEF HandlerStep

\* A run that makes a call, and is neither done nor an ingest request, only ever
\* lays its task down.
LEMMA MoveBrings ==
    ASSUME Known, NEW r \in Runs, Moves(r), UNCHANGED tasks,
           runs[r].pc \notin {"idle", "nil", "err", "enqueue"}
    PROVE  NothingNew /\ (\A s \in Runs : Attended(s) => Attended(s)')
<1>1. Prepared(runs[r]) /\ runs[r] # IdleRun
  BY RunAtCall DEF Known
<1>2. runs[r].kind # "ingest"
  BY <1>1 DEF Prepared, PcsOf
<1>3. NothingNew
  BY <1>2 DEF NothingNew, Owed, Asking, Moves
<1>4. ASSUME NEW s \in Runs, Attended(s) PROVE Attended(s)'
  BY <1>1, <1>4 DEF Attended, Moves
<1> QED BY <1>3, <1>4

LEMMA TruncateSequence ==
    ASSUME Before, NEW r \in Runs, TruncateManifest(r) PROVE SequenceInv'
<1>1. /\ UNCHANGED tasks /\ runs[r].pc = "truncate"
      /\ \E pc \in {"write", "mark"} : Arrives(r, pc)
  BY DEF TruncateManifest, Arrives
<1>2. Moves(r) /\ runs'[r].pc \in {"write", "mark"}
  BY <1>1, ArrivesMoves DEF Before, Known
<1>3. NothingNew /\ \A s \in Runs : Attended(s)'
  BY <1>1, <1>2, MoveBrings DEF Before, SequenceInv
<1>4. Prepared(runs[r])
  BY <1>1, RunAtCall DEF Before, Known
<1>5. PICK j \in Jobs : j = runs[r].job /\ runs[r].kind = "analyze"
  BY <1>1, <1>4 DEF Prepared, PcsOf, EmbedderPcs
<1>6. /\ \A i \in Jobs : i # j => manifest'[i] = manifest[i]
      /\ manifest'[j] \in {manifest[j], "torn"}
      /\ runs'[r].pc = "write" => manifest'[j] = "torn"
  <2>1. CASE manifest' = [manifest EXCEPT ![j] = "torn"]
    BY <1>5, <2>1 DEF Before, Known, Inv, TypeOK
  <2>2. CASE Goto(r, "mark") /\ UNCHANGED manifest
    BY <2>2, GotoMoves DEF Before, Known, Inv
  <2> QED BY <1>5, <2>1, <2>2 DEF TruncateManifest
<1>7. PICK t \in TaskIds : Owed(t, j) /\ tasks[t].type = "analyze"
  BY <1>1, <1>5, HolderOwes DEF TaskTypes
<1>8. ASSUME NEW i \in Jobs PROVE OneBaton(i)' /\ TornIsUnread(i)'
  <2>1. CASE i # j
    BY <1>3, <1>6, <2>1, NothingNewKeeps
  <2>2. CASE i = j
    <3>1. \A u \in TaskIds : Owed(u, j)' => u = t /\ tasks'[u].type = "analyze"
      BY <1>3, <1>5, <1>7 DEF NothingNew, Before, SequenceInv, OneBaton
    <3> QED BY <1>3, <2>2, <3>1, NothingNewKeeps DEF TornIsUnread
  <2> QED BY <2>1, <2>2
<1>9. ASSUME NEW s \in Runs PROVE WritesTorn(s)'
  <2>1. CASE s = r
    BY <1>2, <1>5, <1>6, <2>1 DEF WritesTorn, Moves
  <2>2. CASE s # r
    <3>1. runs'[s] = runs[s] /\ WritesTorn(s)
      BY <1>2, <2>2 DEF Moves, Before, SequenceInv
    <3>2. CASE runs[s].job # j
      <4>1. runs[s].pc = "write" \/ runs[s].kind = "analyze" => runs[s].job \in Jobs
        BY DEF Before, Known, Inv, RunIsBacked, Prepared, IdleRun
      <4> QED BY <1>6, <3>1, <3>2, <4>1 DEF WritesTorn
    <3>3. CASE runs[s].job = j
      <4>1. runs[s].kind \in TaskTypes => runs[s].pc = "nil"
        BY <1>1, <1>5, <2>2, <3>3, OneHolder DEF TaskTypes
      <4>2. runs[s].kind # "analyze" \/ runs[s].pc \notin {"ready", "enqueue"}
        BY <4>1 DEF TaskTypes
      <4>3. runs[s].pc = "write" => manifest[j] = "torn"
        BY <3>1, <3>3 DEF WritesTorn
      <4> QED BY <1>6, <3>1, <3>3, <4>2, <4>3 DEF WritesTorn
    <3> QED BY <3>2, <3>3
  <2> QED BY <2>1, <2>2
<1> QED BY <1>3, <1>8, <1>9 DEF SequenceInv

LEMMA WriteSequence ==
    ASSUME Before, NEW r \in Runs, WriteManifest(r) PROVE SequenceInv'
<1>1. /\ UNCHANGED tasks /\ runs[r].pc = "write"
      /\ \E pc \in {"ready", "mark"} : Arrives(r, pc)
  BY DEF WriteManifest, Arrives
<1>2. Moves(r) /\ runs'[r].pc \in {"ready", "mark"}
  BY <1>1, ArrivesMoves DEF Before, Known
<1>3. NothingNew /\ \A s \in Runs : Attended(s)'
  BY <1>1, <1>2, MoveBrings DEF Before, SequenceInv
<1>4. Prepared(runs[r])
  BY <1>1, RunAtCall DEF Before, Known
<1>5. PICK j \in Jobs : j = runs[r].job /\ runs[r].kind = "analyze"
  BY <1>1, <1>4 DEF Prepared, PcsOf, EmbedderPcs
<1>6. manifest[j] = "torn"
  BY <1>1, <1>5 DEF Before, SequenceInv, WritesTorn
<1>7. /\ \A i \in Jobs : i # j => manifest'[i] = manifest[i]
      /\ runs'[r].pc = "ready" => manifest'[j] = "whole"
  <2>1. CASE manifest' = [manifest EXCEPT ![j] = "whole"]
    BY <1>5, <2>1 DEF Before, Known, Inv, TypeOK
  <2>2. CASE Goto(r, "mark") /\ UNCHANGED manifest
    BY <2>2, GotoMoves DEF Before, Known, Inv
  <2> QED BY <1>5, <1>6, <2>1, <2>2 DEF WriteManifest
<1>8. ASSUME NEW i \in Jobs PROVE OneBaton(i)' /\ TornIsUnread(i)'
  BY <1>3, <1>6, <1>7, NothingNewKeeps
<1>9. ASSUME NEW s \in Runs PROVE WritesTorn(s)'
  <2>1. CASE s = r
    BY <1>2, <1>5, <1>7, <2>1 DEF WritesTorn, Moves
  <2>2. CASE s # r
    <3>1. runs'[s] = runs[s] /\ WritesTorn(s)
      BY <1>2, <2>2 DEF Moves, Before, SequenceInv
    <3>2. runs[s].pc = "write" \/ runs[s].kind = "analyze"
             => runs[s].job \in Jobs /\ Prepared(runs[s])
      BY DEF Before, Known, Inv, RunIsBacked, Prepared, IdleRun
    <3>3. CASE runs[s].job # j
      BY <1>7, <3>1, <3>2, <3>3 DEF WritesTorn
    <3>4. CASE runs[s].job = j
      <4>1. runs[s].kind = "analyze" => runs[s].pc = "nil"
        BY <1>1, <1>5, <2>2, <3>4, OneHolder DEF TaskTypes
      <4>2. runs[s].pc = "write" => runs[s].kind = "analyze"
        BY <3>2 DEF Prepared, PcsOf, EmbedderPcs
      <4> QED BY <3>1, <4>1, <4>2 DEF WritesTorn
    <3> QED BY <3>3, <3>4
  <2> QED BY <2>1, <2>2
<1> QED BY <1>3, <1>8, <1>9 DEF SequenceInv

\* A run that leaves the manifests alone tears none and finishes none.
LEMMA OthersWrite ==
    ASSUME Before, UNCHANGED manifest, NEW s \in Runs, runs'[s] = runs[s]
    PROVE  WritesTorn(s)'
BY DEF Before, SequenceInv, WritesTorn

LEMMA HandlerSequence ==
    ASSUME Before, NEW r \in Runs, HandlerStep(r) PROVE SequenceInv'
<1>1. CASE TruncateManifest(r) \/ WriteManifest(r)
  BY <1>1, TruncateSequence, WriteSequence
<1>2. CASE ~(TruncateManifest(r) \/ WriteManifest(r))
  <2>1. /\ UNCHANGED <<tasks, manifest>> /\ runs[r].pc \notin {"idle", "nil", "err", "enqueue"}
        /\ \E pc \in Pcs \ {"write", "ready"} :
              /\ Arrives(r, pc)
              /\ pc = "enqueue" => runs[r].pc = "ready" \/ runs[r].pc \in {"uploaded", "activate"}
    BY <1>2, HandlerArrives DEF Before
  <2>2. /\ Moves(r) /\ runs'[r].pc \notin {"write", "ready"}
        /\ runs'[r].pc = "enqueue"
              => runs[r].pc = "ready" \/ runs[r].pc \in {"uploaded", "activate"}
    BY <2>1, ArrivesMoves DEF Before, Known
  <2>3. NothingNew /\ \A s \in Runs : Attended(s)'
    BY <2>1, <2>2, MoveBrings DEF Before, SequenceInv
  <2>4. Prepared(runs[r])
    BY <2>1, RunAtCall DEF Before, Known
  <2>5. runs[r].kind = "analyze" /\ runs'[r].pc = "enqueue" => runs[r].pc = "ready"
    BY <2>2, <2>4 DEF Prepared, PcsOf
  <2>6. WritesTorn(r)'
    BY <2>1, <2>2, <2>5 DEF WritesTorn, Moves, Before, SequenceInv
  <2>7. \A s \in Runs : WritesTorn(s)'
    BY <2>1, <2>2, <2>6, OthersWrite DEF Moves
  <2>8. \A j \in Jobs : OneBaton(j)' /\ TornIsUnread(j)'
    BY <2>1, <2>3, NothingNewKeeps
  <2> QED BY <2>3, <2>7, <2>8 DEF SequenceInv
<1> QED BY <1>1, <1>2

-----------------------------------------------------------------------------
(* The steps on the queues. *)

\* A step after which some runs are over and the rest are as they were.
LEMMA EndsSequence ==
    ASSUME Before, UNCHANGED manifest, NothingNew,
           \A s \in Runs : runs'[s] = runs[s] \/ runs'[s] = IdleRun
    PROVE  SequenceInv'
<1>1. ASSUME NEW s \in Runs PROVE Attended(s)' /\ WritesTorn(s)'
  <2>1. CASE runs'[s] = runs[s]
    BY <2>1, OthersWrite DEF Attended, Before, SequenceInv
  <2>2. CASE runs'[s] = IdleRun
    BY <2>2 DEF Attended, WritesTorn, IdleRun
  <2> QED BY <2>1, <2>2
<1>2. \A j \in Jobs : OneBaton(j)' /\ TornIsUnread(j)'
  BY NothingNewKeeps
<1> QED BY <1>1, <1>2 DEF SequenceInv

\* Asynq's answer to a failed delivery repeats a task, and adds none.
LEMMA NackKeepsTasks ==
    ASSUME Known, NEW t \in TaskIds, Nack(t)
    PROVE  /\ \A u \in TaskIds : u # t => tasks'[u] = tasks[u]
           /\ tasks'[t].state # "free" =>
                 tasks'[t].job = tasks[t].job /\ tasks'[t].type = tasks[t].type
BY DEF Nack, Known, Inv, TypeOK, FreeTask

LEMMA SettleBrings ==
    ASSUME Before, NEW r \in Runs, Settle(r) PROVE NothingNew
<1>1. runs' = [runs EXCEPT ![r] = IdleRun] /\ UNCHANGED manifest /\ runs[r].pc \in {"nil", "err"}
  BY DEF Settle
<1>2. /\ runs'[r] = IdleRun
      /\ \A s \in Runs \ {r} : runs'[s] = runs[s]
  BY <1>1 DEF Before, Known, Inv, TypeOK
<1>3. \A s \in Runs, j \in Jobs : Asking(s, j)' => Asking(s, j)
  BY <1>2 DEF Asking, IdleRun
<1>4. ASSUME NEW u \in TaskIds, NEW j \in Jobs, Owed(u, j)'
      PROVE  Owed(u, j) /\ tasks'[u].type = tasks[u].type
  <2>1. CASE u # runs[r].task
    <3>1. tasks'[u] = tasks[u]
      <4>1. CASE runs[r].task = NoTask
        BY <4>1 DEF Settle
      <4>2. CASE runs[r].task # NoTask
        <5>1. PICK t \in TaskIds : t = runs[r].task
          BY <4>2 DEF Before, Known, Inv, TypeOK
        <5>2. Ack(t) \/ Nack(t)
          BY <4>2, <5>1 DEF Settle
        <5>3. Ack(t) => tasks'[u] = tasks[u]
          BY <2>1, <5>1 DEF Ack, Before, Known, Inv, TypeOK
        <5> QED BY <2>1, <5>1, <5>2, <5>3, NackKeepsTasks DEF Before
      <4> QED BY <4>1, <4>2
    <3> QED BY <1>2, <1>4, <2>1, <3>1 DEF Owed
  <2>2. CASE u = runs[r].task
    <3>1. u # NoTask
      BY NullAssumption
    <3>2. /\ tasks[u].state = "active"
          /\ \A s \in Runs \ {r} : runs[s].task # u
      BY <2>2, <3>1 DEF Before, Known, LeaseIsExclusive
    <3>3. tasks'[u].state # "free"
      BY <1>4 DEF Owed
    <3>4. CASE runs[r].pc = "nil"
      <4>1. Ack(u)
        BY <2>2, <3>1, <3>4 DEF Settle
      <4>2. tasks'[u].state = "free"
        BY <4>1 DEF Ack, FreeTask, Before, Known, Inv, TypeOK
      <4> QED BY <3>3, <4>2
    <3>5. CASE runs[r].pc = "err"
      <4>1. Nack(u)
        BY <2>2, <3>1, <3>5 DEF Settle
      <4>2. tasks'[u].job = tasks[u].job /\ tasks'[u].type = tasks[u].type
        BY <3>3, <4>1, NackKeepsTasks DEF Before
      <4> QED BY <1>4, <3>2, <3>5, <4>2 DEF Owed
    <3> QED BY <1>1, <3>4, <3>5
  <2> QED BY <2>1, <2>2
<1> QED BY <1>3, <1>4 DEF NothingNew

LEMMA SettleSequence ==
    ASSUME Before, NEW r \in Runs, Settle(r) PROVE SequenceInv'
<1>1. UNCHANGED manifest /\ \A s \in Runs : runs'[s] = runs[s] \/ runs'[s] = IdleRun
  BY DEF Settle, Before, Known, Inv, TypeOK
<1> QED BY <1>1, SettleBrings, EndsSequence

LEMMA RecoverBrings ==
    ASSUME Before, NEW t \in TaskIds, Recover(t) PROVE NothingNew
<1>1. /\ tasks[t].state = "active" /\ Nack(t) /\ UNCHANGED runs
  BY DEF Recover
<1>2. ASSUME NEW u \in TaskIds, NEW j \in Jobs, Owed(u, j)'
      PROVE  Owed(u, j) /\ tasks'[u].type = tasks[u].type
  <2>1. CASE u # t
    BY <1>1, <1>2, <2>1, NackKeepsTasks DEF Owed, Before
  <2>2. CASE u = t
    BY <1>1, <1>2, <2>2, NackKeepsTasks DEF Owed, Before
  <2> QED BY <2>1, <2>2
<1> QED BY <1>1, <1>2 DEF NothingNew, Asking

LEMMA RecoverSequence ==
    ASSUME Before, NEW t \in TaskIds, Recover(t) PROVE SequenceInv'
BY RecoverBrings, EndsSequence DEF Recover

LEMMA DequeueBrings ==
    ASSUME Before, NEW w \in Workers, NEW t \in TaskIds, Dequeue(w, t)
    PROVE  /\ NothingNew /\ w \in Runs
           /\ runs'[w].pc = "get" /\ runs'[w].kind \in TaskTypes /\ runs'[w].live
           /\ \A s \in Runs \ {w} : runs'[s] = runs[s]
<1>1. /\ w \in Runs /\ tasks[t].state = "ready" /\ tasks[t].type \in TaskTypes
  BY DEF Runs, Dequeue, Before, Known, Inv, TypeOK
<1>2. /\ runs'[w].pc = "get" /\ runs'[w].kind = tasks[t].type /\ runs'[w].live
      /\ \A s \in Runs \ {w} : runs'[s] = runs[s]
  BY <1>1 DEF Dequeue, Before, Known, Inv, TypeOK
<1>3. \A u \in TaskIds : /\ tasks'[u].type = tasks[u].type /\ tasks'[u].job = tasks[u].job
                         /\ tasks'[u].state # "free" => tasks[u].state # "free"
  BY <1>1 DEF Dequeue, Before, Known, Inv, TypeOK
<1>4. runs[w].task = NoTask
  BY DEF Dequeue, IdleRun
<1>5. NothingNew
  BY <1>2, <1>3, <1>4, NullAssumption DEF NothingNew, Owed, Asking
<1> QED BY <1>1, <1>2, <1>5

LEMMA DequeueSequence ==
    ASSUME Before, NEW w \in Workers, NEW t \in TaskIds, Dequeue(w, t)
    PROVE  SequenceInv'
<1>1. UNCHANGED manifest
  BY DEF Dequeue
<1>2. ASSUME NEW s \in Runs PROVE Attended(s)' /\ WritesTorn(s)'
  <2>1. CASE s = w
    BY <2>1, DequeueBrings DEF Attended, WritesTorn
  <2>2. CASE s # w
    BY <1>1, <2>2, DequeueBrings, OthersWrite DEF Attended, Before, SequenceInv
  <2> QED BY <2>1, <2>2
<1>3. \A j \in Jobs : OneBaton(j)' /\ TornIsUnread(j)'
  BY <1>1, DequeueBrings, NothingNewKeeps
<1> QED BY <1>2, <1>3 DEF SequenceInv

\* The baton is handed over: the task that is created takes the place of the
\* task, or of the request, that created it, and nobody else has anything to do
\* for the job.
LEMMA EnqueuePasses ==
    ASSUME Before, NothingRepeated, NEW r \in Runs, Enqueue(r)
    PROVE  \E j \in Jobs, t \in TaskIds :
              /\ j = runs[r].job /\ runs[r].kind \in DOMAIN NextType
              /\ Moves(r) /\ runs'[r].pc = "nil"
              /\ tasks'[t].type = NextType[runs[r].kind] /\ tasks'[t].job = j
              /\ \A u \in TaskIds : u # t => tasks'[u] = tasks[u]
              /\ \A s \in Runs, i \in Jobs : Asking(s, i)' => Asking(s, i)
              /\ \A u \in TaskIds \ {t}, i \in Jobs : Owed(u, i)' => Owed(u, i)
              /\ \A i \in Jobs : Owed(t, i)' => i = j
              /\ \A u \in TaskIds \ {t} : ~Owed(u, j)'
              /\ \A s \in Runs : ~Asking(s, j)'
<1>1. runs[r].pc = "enqueue" /\ UNCHANGED manifest
  BY DEF Enqueue
<1>2. PICK j \in Jobs : j = runs[r].job /\ runs[r].kind \in DOMAIN NextType
  BY <1>1, RunAtCall DEF Before, Known, Prepared
<1>3. PICK t \in TaskIds : AddTask(r, t)
  BY DEF Enqueue, NothingRepeated
<1>4. Moves(r) /\ runs'[r].pc = "nil"
  BY GotoMoves DEF Enqueue, NothingRepeated, Before, Known, Inv
<1>5. /\ tasks[t].state = "free" /\ tasks'[t].job = j
      /\ tasks'[t].type = NextType[runs[r].kind]
      /\ \A u \in TaskIds : u # t => tasks'[u] = tasks[u]
  BY <1>2, <1>3 DEF AddTask, Before, Known, Inv, TypeOK
<1>6. \A s \in Runs, i \in Jobs : Asking(s, i)' => Asking(s, i) /\ s # r
  BY <1>4 DEF Asking, Moves
<1>7. \A u \in TaskIds \ {t}, i \in Jobs : Owed(u, i)' => Owed(u, i) /\ u # runs[r].task
  BY <1>4, <1>5 DEF Owed, Moves
<1>8. \A i \in Jobs : Owed(t, i)' => i = j
  BY <1>5 DEF Owed
<1>9. /\ \A u \in TaskIds \ {t} : ~Owed(u, j)'
      /\ \A s \in Runs : ~Asking(s, j)'
  <2>1. CASE runs[r].kind = "ingest"
    <3>1. Asking(r, j)
      BY <1>1, <1>2, <2>1 DEF Asking
    <3> QED BY <1>6, <1>7, <3>1 DEF Before, SequenceInv, OneBaton
  <2>2. CASE runs[r].kind # "ingest"
    <3>1. runs[r].kind \in TaskTypes
      BY <1>2, <2>2 DEF NextType, TaskTypes
    <3>2. PICK v \in TaskIds : v = runs[r].task /\ Owed(v, j)
      BY <1>1, <1>2, <3>1, HolderOwes
    <3> QED BY <1>6, <1>7, <3>2 DEF Before, SequenceInv, OneBaton
  <2> QED BY <2>1, <2>2
<1> QED BY <1>2, <1>4, <1>5, <1>6, <1>7, <1>8, <1>9

LEMMA EnqueueSequence ==
    ASSUME Before, NothingRepeated, NEW r \in Runs, Enqueue(r) PROVE SequenceInv'
<1>1. runs[r].pc = "enqueue" /\ UNCHANGED manifest
  BY DEF Enqueue
<1>2. PICK j \in Jobs, t \in TaskIds :
              /\ j = runs[r].job /\ runs[r].kind \in DOMAIN NextType
              /\ Moves(r) /\ runs'[r].pc = "nil"
              /\ tasks'[t].type = NextType[runs[r].kind]
              /\ \A u \in TaskIds : u # t => tasks'[u] = tasks[u]
              /\ \A s \in Runs, i \in Jobs : Asking(s, i)' => Asking(s, i)
              /\ \A u \in TaskIds \ {t}, i \in Jobs : Owed(u, i)' => Owed(u, i)
              /\ \A i \in Jobs : Owed(t, i)' => i = j
              /\ \A u \in TaskIds \ {t} : ~Owed(u, j)'
              /\ \A s \in Runs : ~Asking(s, j)'
  BY EnqueuePasses
<1>3. ASSUME NEW s \in Runs PROVE Attended(s)' /\ WritesTorn(s)'
  <2>1. CASE s = r
    BY <1>1, <1>2, <2>1 DEF Attended, WritesTorn, Moves, IdleRun, Before, SequenceInv
  <2>2. CASE s # r
    BY <1>1, <1>2, <2>2, OthersWrite DEF Moves, Attended, Before, SequenceInv
  <2> QED BY <2>1, <2>2
<1>4. ASSUME NEW i \in Jobs PROVE OneBaton(i)'
  <2>1. CASE i = j
    BY <1>2, <2>1 DEF OneBaton
  <2>2. CASE i # j
    BY <1>2, <2>2 DEF OneBaton, Before, SequenceInv
  <2> QED BY <2>1, <2>2
<1>5. ASSUME NEW i \in Jobs PROVE TornIsUnread(i)'
  <2>1. CASE i = j
    <3>1. NextType[runs[r].kind] = "embed" => runs[r].kind = "analyze"
      BY <1>2 DEF NextType
    <3>2. manifest[j] = "torn" => tasks'[t].type # "embed"
      BY <1>1, <1>2, <3>1 DEF Before, SequenceInv, WritesTorn
    <3> QED BY <1>1, <1>2, <2>1, <3>2 DEF TornIsUnread
  <2>2. CASE i # j
    BY <1>1, <1>2, <2>2 DEF TornIsUnread, Before, SequenceInv
  <2> QED BY <2>1, <2>2
<1> QED BY <1>3, <1>4, <1>5 DEF SequenceInv

-----------------------------------------------------------------------------
(* Requests, the provider and the people around the system. *)

\* Nothing is owed for a job that has no row yet.
LEMMA FirstRequest ==
    ASSUME Before, NEW r \in Ingesters, NEW j \in Jobs, StartIngestion(r, j)
    PROVE  SequenceInv'
<1>1. r \in Runs /\ r \notin Workers /\ UNCHANGED <<manifest, tasks>> /\ runs[r] = IdleRun
  BY GoroutineAssumption DEF Runs, StartIngestion
<1> DEFINE run == [IdleRun EXCEPT !.kind = "ingest", !.job = j, !.pc = "enqueue",
                                  !.live = TRUE]
<1>2. UNCHANGED runs \/ runs' = [runs EXCEPT ![r] = run]
  BY DEF StartIngestion
<1>3. /\ run.kind = "ingest" /\ run.job = j /\ run.pc = "enqueue" /\ run.live
      /\ run.task = NoTask
  BY DEF IdleRun
<1>4. CASE UNCHANGED runs
  BY <1>1, <1>4, EndsSequence DEF NothingNew, Owed, Asking
<1>5. CASE runs' = [runs EXCEPT ![r] = run]
  <2> HIDE DEF run
  <2>1. runs'[r] = run /\ \A s \in Runs \ {r} : runs'[s] = runs[s]
    BY <1>1, <1>5 DEF Before, Known, Inv, TypeOK
  <2>2. status[j] = "NONE"
    BY DEF StartIngestion
  <2>3. \A u \in TaskIds : ~Owed(u, j)
    BY <2>2 DEF Owed, Before, Known, Inv, TaskIsBacked, Backed
  <2>4. \A s \in Runs : ~Asking(s, j)
    BY <2>2 DEF Asking, Before, Known, Inv, RunIsBacked, Prepared, Backed, IdleRun
  <2>5. runs[r].task = NoTask
    BY <1>1 DEF IdleRun
  <2>6. \A u \in TaskIds, i \in Jobs : Owed(u, i)' => Owed(u, i)
    BY <1>1, <2>1, <2>5, NullAssumption DEF Owed
  <2>7. \A s \in Runs, i \in Jobs : Asking(s, i)' => Asking(s, i) \/ (s = r /\ i = j)
    BY <1>3, <2>1 DEF Asking
  <2>8. ASSUME NEW s \in Runs PROVE Attended(s)' /\ WritesTorn(s)'
    <3>1. CASE s = r
      BY <1>1, <1>3, <2>1, <3>1 DEF Attended, WritesTorn
    <3>2. CASE s # r
      BY <1>1, <2>1, <3>2, OthersWrite DEF Attended, Before, SequenceInv
    <3> QED BY <3>1, <3>2
  <2>9. ASSUME NEW i \in Jobs PROVE OneBaton(i)'
    BY <2>3, <2>4, <2>6, <2>7 DEF OneBaton, Before, SequenceInv
  <2>10. ASSUME NEW i \in Jobs PROVE TornIsUnread(i)'
    BY <1>1, <2>6 DEF TornIsUnread, Before, SequenceInv
  <2> QED BY <2>8, <2>9, <2>10 DEF SequenceInv
<1> QED BY <1>2, <1>4, <1>5

LEMMA ReembedBrings ==
    ASSUME Before, NEW r \in Reembedders, NEW j \in Jobs, Reembed(r, j)
    PROVE  /\ NothingNew /\ r \in Runs /\ r \notin Workers
           /\ runs'[r].kind = "manual" /\ runs'[r].pc = "get" /\ runs'[r].live
           /\ \A s \in Runs \ {r} : runs'[s] = runs[s]
<1>1. /\ r \in Runs /\ r \notin Workers /\ UNCHANGED tasks /\ runs[r].task = NoTask
  BY GoroutineAssumption DEF Runs, Reembed, IdleRun
<1>2. /\ runs'[r].kind = "manual" /\ runs'[r].pc = "get" /\ runs'[r].live
      /\ runs'[r].task = NoTask
      /\ \A s \in Runs \ {r} : runs'[s] = runs[s]
  BY <1>1 DEF Reembed, IdleRun, Before, Known, Inv, TypeOK
<1>3. NothingNew
  BY <1>1, <1>2, NullAssumption DEF NothingNew, Owed, Asking
<1> QED BY <1>1, <1>2, <1>3

LEMMA ReembedSequence ==
    ASSUME Before, NEW r \in Reembedders, NEW j \in Jobs, Reembed(r, j)
    PROVE  SequenceInv'
<1>1. UNCHANGED manifest
  BY DEF Reembed
<1>2. ASSUME NEW s \in Runs PROVE Attended(s)' /\ WritesTorn(s)'
  <2>1. CASE s = r
    BY <2>1, ReembedBrings DEF Attended, WritesTorn
  <2>2. CASE s # r
    BY <1>1, <2>2, ReembedBrings, OthersWrite DEF Attended, Before, SequenceInv
  <2> QED BY <2>1, <2>2
<1>3. \A i \in Jobs : OneBaton(i)' /\ TornIsUnread(i)'
  BY <1>1, ReembedBrings, NothingNewKeeps
<1> QED BY <1>2, <1>3 DEF SequenceInv

\* An edit is made on a manifest that has been written, and leaves a whole text.
LEMMA EditSequence ==
    ASSUME Before, NEW j \in Jobs, EditManifest(j) PROVE SequenceInv'
<1>1. /\ UNCHANGED <<tasks, runs>>
      /\ \A i \in Jobs : manifest'[i] = "torn" <=> manifest[i] = "torn"
  BY DEF EditManifest, Before, Known, Inv, TypeOK
<1>2. NothingNew
  BY <1>1 DEF NothingNew, Owed, Asking
<1>3. ASSUME NEW s \in Runs PROVE Attended(s)' /\ WritesTorn(s)'
  <2>1. runs[s].pc = "write" \/ runs[s].kind = "analyze" => runs[s].job \in Jobs
    BY DEF Before, Known, Inv, RunIsBacked, Prepared, IdleRun
  <2> QED BY <1>1, <2>1 DEF Attended, WritesTorn, Before, SequenceInv
<1>4. \A i \in Jobs : OneBaton(i)' /\ TornIsUnread(i)'
  BY <1>1, <1>2, NothingNewKeeps
<1> QED BY <1>3, <1>4 DEF SequenceInv

LEMMA SequenceNext == NothingRepeated /\ Before /\ [Next]_vars => SequenceInv'
<1> SUFFICES ASSUME NothingRepeated, Before, [Next]_vars PROVE SequenceInv'
  OBVIOUS
<1>1. CASE \/ UNCHANGED vars
           \/ \E f \in Files : ProviderSettles(f)
           \/ \E j \in Jobs : DeleteVideo(j)
  <2>1. UNCHANGED <<manifest, tasks, runs>>
    BY <1>1 DEF vars, ProviderSettles, DeleteVideo
  <2> QED BY <2>1, EndsSequence DEF NothingNew, Owed, Asking
<1>2. ASSUME NEW r \in Runs, Step(r) PROVE SequenceInv'
  BY <1>2, HandlerSequence, EnqueueSequence, SettleSequence DEF Step, HandlerStep
<1>3. \A r \in Runs : ~Expire(r) /\ ~Crash(r)
  BY DEF NothingRepeated, Expire, Crash
<1> QED
  BY <1>1, <1>2, <1>3, FirstRequest, ReembedSequence, DequeueSequence, RecoverSequence,
     EditSequence
  DEF Next

LEMMA SequenceInit == Init => SequenceInv
BY DEF Init, SequenceInv, Attended, WritesTorn, OneBaton, TornIsUnread, Asking, Owed,
       IdleRun, FreeTask

LEMMA SequenceInvariance ==
    ASSUME NothingRepeated
    PROVE  Spec => []Before
<1>1. Known /\ [Next]_vars => LossInv'
  BY LossNext
<1>2. Before /\ [Next]_vars => SequenceInv'
  BY SequenceNext
<1> QED BY <1>1, <1>2, LossInit, SequenceInit, Invariance, PTL DEF Spec, Known, Before

-----------------------------------------------------------------------------

\* Of two workers with the same job one has nothing left to do but to acknowledge
\* its task, when no message is repeated.
THEOREM StagesInSequence ==
    ASSUME NothingRepeated
    PROVE  Spec => []StagesDoNotOverlap
BY SequenceInvariance, SequenceImplies, PTL

-----------------------------------------------------------------------------
(* A manifest that is half written is still being seen to. *)

\* Asynq has the analysis of the job to deliver, or to deliver again.
UnderWay(j) == \E t \in TaskIds : Owed(t, j) /\ tasks[t].type = "analyze"

TornInv ==
    /\ \A j \in Jobs :
          manifest[j] = "torn" => UnderWay(j) \/ <<"analyze", j>> \in archived
    /\ \A r \in Runs : runs[r].kind = "analyze" => runs[r].pc # "markQuiet"

\* A request is the only one to load a manifest without a task of its own.
LEMMA LoaderIs ==
    ASSUME Before, NEW r \in Runs, runs[r].pc = "load"
    PROVE  /\ runs[r].job \in Jobs /\ manifest[runs[r].job] # "none"
           /\ runs[r].kind # "manual" => manifest[runs[r].job] # "torn"
<1>1. Prepared(runs[r])
  BY RunAtCall DEF Before, Known
<1>2. /\ runs[r].job \in Jobs /\ manifest[runs[r].job] # "none"
      /\ runs[r].kind \in {"embed", "manual"}
  BY <1>1 DEF Prepared, PcsOf
<1>3. CASE runs[r].kind = "embed"
  <2>1. \E t \in TaskIds : Owed(t, runs[r].job) /\ tasks[t].type = "embed"
    BY <1>3, HolderOwes DEF TaskTypes
  <2> QED BY <1>2, <2>1 DEF Before, SequenceInv, TornIsUnread
<1> QED BY <1>2, <1>3

LEMMA TornImplies == Before /\ TornInv => OnlyRequestsReadTorn
<1> SUFFICES ASSUME Before, TornInv, NEW r \in Runs, runs[r].pc = "load",
                    manifest[runs[r].job] = "torn"
             PROVE  AnalysisUnfinished(runs[r].job)
  BY LoaderIs DEF OnlyRequestsReadTorn
<1> QED BY LoaderIs DEF TornInv, UnderWay, Owed, AnalysisUnfinished

\* Of the analyses owed some are left, or one was archived, or the manifest is whole.
LEMMA UnderWayStays ==
    ASSUME TornInv, NEW j \in Jobs,
           manifest'[j] = "torn" => manifest[j] = "torn",
           archived \subseteq archived',
           \A t \in TaskIds : Owed(t, j) /\ tasks[t].type = "analyze" =>
              \/ Owed(t, j)' /\ tasks'[t].type = "analyze"
              \/ <<"analyze", j>> \in archived'
              \/ manifest[j] # "torn"
    PROVE  manifest'[j] = "torn" => UnderWay(j)' \/ <<"analyze", j>> \in archived'
BY DEF TornInv, UnderWay

\* An analyzer's handler does not give up without an error.
LEMMA HandlerQuiet ==
    ASSUME Before, TornInv, NEW r \in Runs, HandlerStep(r), runs[r].kind = "analyze"
    PROVE  runs'[r].pc \notin {"markQuiet", "nil"}
<1>1. runs[r].pc \notin {"idle", "nil", "err", "enqueue"}
  BY HandlerArrives DEF Before
<1>2. Prepared(runs[r]) /\ Backed("analyze", runs[r].job) /\ runs[r].pc # "markQuiet"
  BY <1>1, RunAtCall DEF Before, Known, Prepared, TornInv
<1>3. runs[r].pc \in {"get", "analyzing", "generate", "truncate", "write", "ready", "mark"}
  BY <1>1, <1>2 DEF Prepared, PcsOf
<1>4. \E pc \in Pcs \ {"markQuiet", "nil"} : Arrives(r, pc)
  <2>1. CASE GetJob(r)
    <3>1. CASE status[runs[r].job] = "GONE" \/ Goto(r, "err")
      BY <2>1, <3>1 DEF GetJob, Arrives, Pcs
    <3>2. CASE status[runs[r].job] # "GONE" /\ ~Goto(r, "err")
      <4>1. AfterGet("analyze", runs[r].job) = "analyzing"
        BY <1>2, <3>2 DEF Backed, AfterGet
      <4>2. Arrives(r, "analyzing")
        BY <2>1, <3>2, <4>1 DEF GetJob, Arrives
      <4> QED BY <4>2 DEF Pcs
    <3> QED BY <3>1, <3>2
  <2>2. CASE MarkFailed(r) \/ BeginAnalysis(r) \/ FinishAnalysis(r)
    BY <2>2 DEF MarkFailed, BeginAnalysis, FinishAnalysis, SetStatus, UpdateJobStatus, Arrives,
                Pcs
  <2>3. CASE GenerateMetadata(r)
    BY <2>3 DEF GenerateMetadata, Arrives, Pcs
  <2>4. CASE TruncateManifest(r) \/ WriteManifest(r)
    BY <2>4 DEF TruncateManifest, WriteManifest, Arrives, Pcs
  <2> QED
    BY <1>3, <2>1, <2>2, <2>3, <2>4
    DEF HandlerStep, MarkFailedQuietly, UploadFile, UpdateJobAfterUpload, PollFileState,
        Activate, BeginEmbedding, BeginReembedding, LoadManifest, EmbedScenes, StoreScenes,
        Complete, SetStatus
<1> QED BY <1>4, ArrivesMoves DEF Before, Known

LEMMA HandlerTorn ==
    ASSUME Before, TornInv, NEW r \in Runs, HandlerStep(r) PROVE TornInv'
<1>1. /\ UNCHANGED <<tasks, archived>> /\ Moves(r)
      /\ runs[r].pc \notin {"idle", "nil", "err", "enqueue"}
  <2>1. \E pc : Arrives(r, pc)
    <3>1. CASE TruncateManifest(r) \/ WriteManifest(r)
      BY <3>1 DEF TruncateManifest, WriteManifest, Arrives
    <3> QED BY <3>1, HandlerArrives DEF Before
  <2>2. UNCHANGED archived
    BY DEF HandlerStep, MarkFailed, MarkFailedQuietly, GetJob, UploadFile, UpdateJobAfterUpload,
           PollFileState, Activate, BeginAnalysis, GenerateMetadata, TruncateManifest,
           WriteManifest, FinishAnalysis, BeginEmbedding, BeginReembedding, LoadManifest,
           EmbedScenes, StoreScenes, Complete, SetStatus
  <2> QED BY <2>1, <2>2, ArrivesMoves, HandlerArrives DEF Before, Known
<1>2. ASSUME NEW s \in Runs, runs'[s].kind = "analyze" PROVE runs'[s].pc # "markQuiet"
  BY <1>1, <1>2, HandlerQuiet DEF Moves, TornInv
<1>3. ASSUME NEW t \in TaskIds, NEW j \in Jobs, Owed(t, j), tasks[t].type = "analyze"
      PROVE  Owed(t, j)'
  <2>1. runs'[r].task = t => runs'[r].pc # "nil"
    <3> SUFFICES ASSUME runs[r].task = t PROVE runs'[r].pc # "nil"
      BY <1>1 DEF Moves
    <3>1. runs[r].kind = "analyze"
      BY <1>3, NullAssumption DEF Before, Known, LeaseIsExclusive
    <3> QED BY <3>1, HandlerQuiet
  <2> QED BY <1>1, <1>3, <2>1 DEF Owed, Moves
<1>4. ASSUME NEW j \in Jobs, manifest'[j] = "torn", manifest[j] # "torn" PROVE UnderWay(j)'
  <2>1. j = runs[r].job /\ runs[r].kind = "analyze"
    <3>1. CASE TruncateManifest(r) \/ WriteManifest(r)
      <4>1. Prepared(runs[r]) /\ runs[r].pc \in {"truncate", "write"}
        BY <1>1, <3>1, RunAtCall DEF TruncateManifest, WriteManifest, Before, Known
      <4>2. runs[r].kind = "analyze"
        BY <4>1 DEF Prepared, PcsOf, EmbedderPcs
      <4>3. j = runs[r].job
        BY <1>4, <3>1 DEF TruncateManifest, WriteManifest, Before, Known, Inv, TypeOK
      <4> QED BY <4>2, <4>3
    <3> QED BY <1>4, <3>1, HandlerArrives DEF Before
  <2>2. \E t \in TaskIds : Owed(t, j) /\ tasks[t].type = "analyze"
    BY <1>1, <2>1, HolderOwes DEF TaskTypes
  <2> QED BY <1>1, <1>3, <2>2 DEF UnderWay
<1>5. ASSUME NEW j \in Jobs
      PROVE  manifest'[j] = "torn" => UnderWay(j)' \/ <<"analyze", j>> \in archived'
  BY <1>1, <1>3, <1>4, UnderWayStays
<1> QED BY <1>2, <1>5 DEF TornInv

LEMMA EnqueueTorn ==
    ASSUME NothingRepeated, Before, TornInv, NEW r \in Runs, Enqueue(r) PROVE TornInv'
<1>1. /\ UNCHANGED <<manifest, archived>> /\ runs[r].pc = "enqueue" /\ Goto(r, "nil")
      /\ \E t \in TaskIds : AddTask(r, t)
  BY DEF Enqueue, NothingRepeated
<1>2. Moves(r) /\ runs'[r].pc = "nil"
  BY <1>1, GotoMoves DEF Before, Known, Inv
<1>3. ASSUME NEW t \in TaskIds, NEW j \in Jobs, Owed(t, j), tasks[t].type = "analyze",
             manifest[j] = "torn"
      PROVE  Owed(t, j)' /\ tasks'[t].type = "analyze"
  <2>1. tasks'[t] = tasks[t]
    BY <1>1, <1>3 DEF AddTask, Owed, Before, Known, Inv, TypeOK
  <2>2. runs[r].task # t
    <3> SUFFICES ASSUME runs[r].task = t PROVE FALSE
      OBVIOUS
    <3>1. runs[r].kind = "analyze" /\ runs[r].job = j
      BY <1>3, NullAssumption DEF Before, Known, LeaseIsExclusive, Owed
    <3> QED BY <1>1, <1>3, <3>1 DEF Before, SequenceInv, WritesTorn
  <2> QED BY <1>2, <1>3, <2>1, <2>2 DEF Owed, Moves
<1>4. ASSUME NEW j \in Jobs
      PROVE  manifest'[j] = "torn" => UnderWay(j)' \/ <<"analyze", j>> \in archived'
  BY <1>1, <1>3, UnderWayStays
<1>5. ASSUME NEW s \in Runs, runs'[s].kind = "analyze" PROVE runs'[s].pc # "markQuiet"
  BY <1>2, <1>5 DEF Moves, TornInv
<1> QED BY <1>4, <1>5 DEF TornInv

\* Asynq takes task t back, acknowledged by its handler or failed.
LEMMA TakenBackTorn ==
    ASSUME Before, TornInv, UNCHANGED manifest, NEW t \in TaskIds,
           Nack(t) \/ (Ack(t) /\ \A j \in Jobs : ~Owed(t, j)),
           \A s \in Runs : runs'[s].task # t /\ runs'[s] \in {runs[s], IdleRun}
    PROVE  TornInv'
<1>1. archived \subseteq archived'
  BY DEF Ack, Nack
<1>2. ASSUME NEW u \in TaskIds, NEW j \in Jobs, Owed(u, j), tasks[u].type = "analyze"
      PROVE  \/ Owed(u, j)' /\ tasks'[u].type = "analyze"
             \/ <<"analyze", j>> \in archived'
  <2>1. CASE u # t
    <3>1. tasks'[u] = tasks[u]
      BY <2>1 DEF Ack, Nack, Before, Known, Inv, TypeOK
    <3> QED BY <1>2, <3>1 DEF Owed, IdleRun
  <2>2. CASE u = t
    <3>1. \/ /\ tasks'[t].state = "ready" /\ tasks'[t].job = tasks[t].job
             /\ tasks'[t].type = tasks[t].type
          \/ <<tasks[t].type, tasks[t].job>> \in archived'
      BY <1>2, <2>2 DEF Nack, Before, Known, Inv, TypeOK
    <3> QED BY <1>2, <2>2, <3>1 DEF Owed
  <2> QED BY <2>1, <2>2
<1>3. ASSUME NEW j \in Jobs
      PROVE  manifest'[j] = "torn" => UnderWay(j)' \/ <<"analyze", j>> \in archived'
  BY <1>1, <1>2, UnderWayStays
<1>4. ASSUME NEW s \in Runs, runs'[s].kind = "analyze" PROVE runs'[s].pc # "markQuiet"
  BY <1>4 DEF TornInv, IdleRun
<1> QED BY <1>3, <1>4 DEF TornInv

\* A step that leaves queues and manifests alone, or delivers a task.
LEMMA AroundTorn ==
    ASSUME TornInv, UNCHANGED archived,
           \A j \in Jobs : manifest'[j] = "torn" => manifest[j] = "torn",
           \A t \in TaskIds : /\ tasks'[t].type = tasks[t].type
                              /\ tasks'[t].job = tasks[t].job
                              /\ tasks[t].state # "free" => tasks'[t].state # "free",
           \A s \in Runs : runs'[s] = runs[s] \/ runs'[s].pc \in {"idle", "get", "enqueue"}
    PROVE  TornInv'
<1>1. ASSUME NEW u \in TaskIds, NEW j \in Jobs, Owed(u, j), tasks[u].type = "analyze"
      PROVE  Owed(u, j)' /\ tasks'[u].type = "analyze"
  BY <1>1 DEF Owed
<1>2. ASSUME NEW j \in Jobs
      PROVE  manifest'[j] = "torn" => UnderWay(j)' \/ <<"analyze", j>> \in archived'
  BY <1>1, UnderWayStays
<1>3. ASSUME NEW s \in Runs, runs'[s].kind = "analyze" PROVE runs'[s].pc # "markQuiet"
  BY <1>3 DEF TornInv
<1> QED BY <1>2, <1>3 DEF TornInv

LEMMA SettleTorn ==
    ASSUME Before, TornInv, NEW r \in Runs, Settle(r) PROVE TornInv'
<1>1. /\ runs[r].pc \in {"nil", "err"} /\ UNCHANGED manifest
      /\ runs'[r] = IdleRun /\ \A s \in Runs \ {r} : runs'[s] = runs[s]
  BY DEF Settle, Before, Known, Inv, TypeOK
<1>2. CASE runs[r].task = NoTask
  BY <1>1, <1>2, AroundTorn DEF Settle, IdleRun
<1>3. CASE runs[r].task # NoTask
  <2>1. PICK t \in TaskIds : t = runs[r].task
    BY <1>3 DEF Before, Known, Inv, TypeOK
  <2>2. Nack(t) \/ (Ack(t) /\ \A j \in Jobs : ~Owed(t, j))
    BY <1>1, <1>3, <2>1 DEF Settle, Owed
  <2>3. \A s \in Runs : runs'[s].task # t
    BY <1>1, <1>3, <2>1, NullAssumption DEF Before, Known, LeaseIsExclusive, IdleRun
  <2> QED BY <1>1, <2>2, <2>3, TakenBackTorn
<1> QED BY <1>2, <1>3

LEMMA TornNext == NothingRepeated /\ Before /\ TornInv /\ [Next]_vars => TornInv'
<1> SUFFICES ASSUME NothingRepeated, Before, TornInv, [Next]_vars PROVE TornInv'
  OBVIOUS
<1>1. ASSUME NEW r \in Runs, Step(r) PROVE TornInv'
  BY <1>1, HandlerTorn, EnqueueTorn, SettleTorn DEF Step, HandlerStep
<1>2. ASSUME NEW t \in TaskIds, Recover(t) PROVE TornInv'
  BY <1>2, TakenBackTorn DEF Recover
<1>3. ASSUME NEW w \in Workers, NEW t \in TaskIds, Dequeue(w, t) PROVE TornInv'
  <2>1. /\ w \in Runs /\ UNCHANGED <<manifest, archived>>
        /\ \A s \in Runs : runs'[s] = runs[s] \/ runs'[s].pc = "get"
        /\ \A u \in TaskIds : /\ tasks'[u].type = tasks[u].type
                              /\ tasks'[u].job = tasks[u].job
                              /\ tasks[u].state # "free" => tasks'[u].state # "free"
    BY <1>3 DEF Dequeue, Runs, Before, Known, Inv, TypeOK
  <2> QED BY <2>1, AroundTorn
<1>4. ASSUME NEW r \in Ingesters, NEW j \in Jobs, StartIngestion(r, j) PROVE TornInv'
  <2>1. \A s \in Runs : runs'[s] = runs[s] \/ runs'[s].pc = "enqueue"
    BY <1>4 DEF StartIngestion, Runs, IdleRun, Before, Known, Inv, TypeOK
  <2> QED BY <1>4, <2>1, AroundTorn DEF StartIngestion
<1>5. ASSUME NEW r \in Reembedders, NEW j \in Jobs, Reembed(r, j) PROVE TornInv'
  <2>1. \A s \in Runs : runs'[s] = runs[s] \/ runs'[s].pc = "get"
    BY <1>5 DEF Reembed, Runs, IdleRun, Before, Known, Inv, TypeOK
  <2> QED BY <1>5, <2>1, AroundTorn DEF Reembed
<1>6. ASSUME NEW j \in Jobs, EditManifest(j) PROVE TornInv'
  <2>1. \A i \in Jobs : manifest'[i] = "torn" => manifest[i] = "torn"
    BY <1>6 DEF EditManifest, Before, Known, Inv, TypeOK
  <2> QED BY <1>6, <2>1, AroundTorn DEF EditManifest
<1>7. CASE \/ UNCHANGED vars
           \/ \E f \in Files : ProviderSettles(f)
           \/ \E j \in Jobs : DeleteVideo(j)
  <2>1. UNCHANGED <<manifest, tasks, runs, archived>>
    BY <1>7 DEF vars, ProviderSettles, DeleteVideo
  <2> QED BY <2>1, AroundTorn
<1>8. \A r \in Runs : ~Expire(r) /\ ~Crash(r)
  BY DEF NothingRepeated, Expire, Crash
<1> QED BY <1>1, <1>2, <1>3, <1>4, <1>5, <1>6, <1>7, <1>8 DEF Next

\* Whichever calls fail and whoever edits it, a delivery opens a manifest only when
\* it has been written to its end, and a re-embed request finds one half written only
\* while Asynq has its analysis to repeat, or has given it up.
THEOREM WholeManifests ==
    ASSUME NothingRepeated
    PROVE  Spec => []OnlyRequestsReadTorn
<1>1. Init => TornInv
  BY DEF Init, TornInv, IdleRun
<1>2. Before /\ TornInv /\ [Next]_vars => TornInv'
  BY TornNext
<1> QED BY <1>1, <1>2, SequenceInvariance, TornImplies, PTL DEF Spec

-----------------------------------------------------------------------------
(* The end of the life cycle is kept when nobody re-embeds by hand.          *)

IngestionOnly == Reembedders = {} /\ "delete" \notin Faults

\* What is owed for a COMPLETED job is an embed task.
EndOfLife(j) ==
    /\ status[j] # "GONE"
    /\ status[j] = "COMPLETED" =>
          /\ \A t \in TaskIds : Owed(t, j) => tasks[t].type = "embed"
          /\ \A r \in Runs : ~Asking(r, j)

\* An embedder that has found a job ready is alone with it.
FindsReady(r) ==
    /\ runs[r].kind # "manual"
    /\ runs[r].pc = "embedding" => status[runs[r].job] = "READY_FOR_EMBEDDING"

EndInv == (\A j \in Jobs : EndOfLife(j)) /\ (\A r \in Runs : FindsReady(r))

\* No handler but the embedder's is at work on a COMPLETED job.
LEMMA OnlyEmbedders ==
    ASSUME Before, EndInv, NEW r \in Runs, runs[r].pc \notin {"idle", "nil"},
           status[runs[r].job] = "COMPLETED"
    PROVE  runs[r].kind = "embed" \/ (runs[r].kind = "ingest" /\ runs[r].pc = "err")
<1>1. Prepared(runs[r]) /\ runs[r].job \in Jobs
  BY RunAtCall DEF Before, Known
<1>2. CASE runs[r].kind \in TaskTypes
  BY <1>1, <1>2, HolderOwes DEF EndInv, EndOfLife
<1>3. CASE runs[r].kind = "ingest"
  BY <1>1, <1>3 DEF Prepared, PcsOf, Asking, EndInv, EndOfLife
<1> QED BY <1>1, <1>2, <1>3 DEF Prepared, PcsOf, TaskTypes, EndInv, FindsReady

\* Steps that bring nothing new and leave the status alone.
LEMMA QuietEnd ==
    ASSUME Before, EndInv, NothingNew,
           \A j \in Jobs : status'[j] = status[j] \/ (status[j] = "NONE" /\ status'[j] = "PENDING"),
           \A s \in Runs : \/ runs'[s] = runs[s]
                           \/ runs'[s].pc # "embedding" /\ runs'[s].kind # "manual"
    PROVE  EndInv'
<1>1. ASSUME NEW j \in Jobs PROVE EndOfLife(j)'
  BY DEF NothingNew, EndInv, EndOfLife
<1>2. ASSUME NEW s \in Runs PROVE FindsReady(s)'
  <2>1. CASE runs[s].pc = "embedding" /\ runs'[s] = runs[s]
    BY <2>1, RunAtCall DEF FindsReady, EndInv, Before, Known
  <2> QED BY <2>1 DEF FindsReady, EndInv
<1> QED BY <1>1, <1>2 DEF EndInv

\* Only a run that has just read the status starts to embed.
LEMMA StartsReady ==
    ASSUME Known, NEW r \in Runs, HandlerStep(r), runs'[r].pc = "embedding"
    PROVE  UNCHANGED status /\ status[runs[r].job] = "READY_FOR_EMBEDDING"
<1>1. CASE GetJob(r)
  <2>1. Arrives(r, "err") \/ Arrives(r, AfterGet(runs[r].kind, runs[r].job))
    BY <1>1 DEF GetJob, Arrives
  <2>2. runs'[r].pc = AfterGet(runs[r].kind, runs[r].job)
    BY <2>1, ArrivesMoves DEF Known
  <2> QED BY <1>1, <2>2 DEF GetJob, AfterGet
<1>2. CASE ~GetJob(r)
  <2>1. \E pc : pc # "embedding" /\ Arrives(r, pc)
    <3>1. CASE \/ MarkFailed(r) \/ MarkFailedQuietly(r) \/ Activate(r) \/ BeginAnalysis(r)
               \/ FinishAnalysis(r) \/ BeginEmbedding(r) \/ BeginReembedding(r)
               \/ Complete(r)
      BY <3>1 DEF MarkFailed, MarkFailedQuietly, Activate, BeginAnalysis, FinishAnalysis,
                  BeginEmbedding, BeginReembedding, Complete, SetStatus, UpdateJobStatus,
                  Arrives
    <3>2. CASE \/ UploadFile(r) \/ GenerateMetadata(r) \/ TruncateManifest(r)
               \/ WriteManifest(r) \/ LoadManifest(r) \/ EmbedScenes(r) \/ StoreScenes(r)
      BY <3>2 DEF UploadFile, GenerateMetadata, TruncateManifest, WriteManifest,
                  LoadManifest, EmbedScenes, StoreScenes, Arrives
    <3>3. CASE PollFileState(r)
      <4>1. PICK pc \in {"activate", "markQuiet", "err"} :
               runs' = [runs EXCEPT ![r].file = NoFile, ![r].pc = pc]
        BY <3>3 DEF PollFileState
      <4> QED BY <4>1 DEF Arrives
    <3>4. CASE UpdateJobAfterUpload(r)
      <4>1. PICK pc \in {"enqueue", "err"} :
               runs' = [runs EXCEPT ![r].pc = pc, ![r].file = NoFile]
        BY <3>4 DEF UpdateJobAfterUpload
      <4> QED BY <4>1 DEF Arrives
    <3> QED BY <1>2, <3>1, <3>2, <3>3, <3>4 DEF HandlerStep
  <2> QED BY <2>1, ArrivesMoves DEF Known
<1> QED BY <1>1, <1>2

LEMMA HandlerEnd ==
    ASSUME Before, EndInv, NEW r \in Runs, HandlerStep(r)
    PROVE  /\ EndInv'
           /\ status[runs[r].job] = "COMPLETED"
                 => status'[runs[r].job] \in {"COMPLETED", "MANUAL_EMBEDDING", "FAILED"}
           /\ \A j \in Jobs : j # runs[r].job => status'[j] = status[j]
<1>1. /\ UNCHANGED tasks /\ Moves(r) /\ runs[r].pc \notin {"idle", "nil", "err", "enqueue"}
  <2>1. \E pc : Arrives(r, pc)
    <3>1. CASE TruncateManifest(r) \/ WriteManifest(r)
      BY <3>1 DEF TruncateManifest, WriteManifest, Arrives
    <3> QED BY <3>1, HandlerArrives DEF Before
  <2> QED BY <2>1, HandlerArrives, ArrivesMoves DEF Before, Known
<1>2. Prepared(runs[r]) /\ runs[r].kind \notin {"ingest", "manual"}
  BY <1>1, RunAtCall DEF Before, Known, Prepared, PcsOf, EndInv, FindsReady
<1>3. PICK j \in Jobs : j = runs[r].job
  BY <1>2 DEF Prepared
<1>4. runs[r].kind \in TaskTypes
  BY <1>2 DEF Prepared, PcsOf, TaskTypes
<1>5. /\ \A i \in Jobs : i # j => status'[i] = status[i]
      /\ \/ status'[j] = status[j]
         \/ /\ status[j] # "GONE" /\ status'[j] # "GONE"
            /\ \/ runs[r].kind = "embed" /\ status'[j] = "COMPLETED"
               \/ runs[r].kind = "embed" /\ status'[j] = "MANUAL_EMBEDDING"
               \/ runs[r].pc = "embedding" /\ status'[j] = "EMBEDDING"
               \/ status'[j] = "FAILED"
               \/ runs[r].kind # "embed" /\ status'[j] # "COMPLETED"
  <2>1. ASSUME NEW next \in Statuses, NEW ok, NEW failed, UpdateJobStatus(r, next, ok, failed)
        PROVE  /\ \A i \in Jobs : i # j => status'[i] = status[i]
               /\ status'[j] = status[j] \/ (status'[j] = next /\ status[j] # "GONE")
    BY <1>3, <2>1 DEF UpdateJobStatus, Updated, Before, Known, Inv, TypeOK
  <2>2. CASE MarkFailed(r) \/ MarkFailedQuietly(r)
    BY <2>1, <2>2 DEF MarkFailed, MarkFailedQuietly, SetStatus, Statuses
  <2>3. CASE Activate(r) \/ BeginAnalysis(r) \/ FinishAnalysis(r)
    <3>1. runs[r].kind # "embed"
      BY <1>2, <2>3 DEF Activate, BeginAnalysis, FinishAnalysis, SetStatus, Prepared, PcsOf,
                        EmbedderPcs
    <3> QED BY <2>1, <2>3, <3>1 DEF Activate, BeginAnalysis, FinishAnalysis, SetStatus, Statuses
  <2>4. CASE BeginEmbedding(r)
    BY <2>1, <2>4 DEF BeginEmbedding, SetStatus, Statuses
  <2>5. CASE BeginReembedding(r) \/ Complete(r)
    <3>1. runs[r].kind = "embed"
      BY <1>2, <2>5 DEF BeginReembedding, Complete, SetStatus, Prepared, PcsOf
    <3> QED BY <2>1, <2>5, <3>1 DEF BeginReembedding, Complete, SetStatus, Statuses
  <2>6. CASE UpdateJobAfterUpload(r)
    <3>1. runs[r].kind # "embed"
      BY <1>2, <2>6 DEF UpdateJobAfterUpload, Prepared, PcsOf, EmbedderPcs
    <3>2. /\ \A i \in Jobs : i # j => status'[i] = status[i]
          /\ \/ status'[j] = status[j]
             \/ status'[j] = "UPLOADED_TO_PROVIDER" /\ status[j] # "GONE"
      BY <1>3, <2>6 DEF UpdateJobAfterUpload, Updated, Before, Known, Inv, TypeOK
    <3> QED BY <3>1, <3>2
  <2>7. CASE \/ GetJob(r) \/ UploadFile(r) \/ PollFileState(r) \/ GenerateMetadata(r)
             \/ TruncateManifest(r) \/ WriteManifest(r) \/ LoadManifest(r) \/ EmbedScenes(r)
             \/ StoreScenes(r)
    BY <2>7 DEF GetJob, UploadFile, PollFileState, GenerateMetadata, TruncateManifest,
                WriteManifest, LoadManifest, EmbedScenes, StoreScenes
  <2> QED BY <2>2, <2>3, <2>4, <2>5, <2>6, <2>7 DEF HandlerStep
<1>6. NothingNew
  BY <1>1, MoveBrings DEF Before
<1>7. \A t \in TaskIds : Owed(t, j) => tasks[t].type = runs[r].kind
  BY <1>1, <1>3, <1>4, HolderOwes DEF Before, SequenceInv, OneBaton
<1>8. \A s \in Runs : ~Asking(s, j)
  BY <1>1, <1>3, <1>4, HolderOwes DEF Before, SequenceInv, OneBaton
<1>9. ASSUME NEW i \in Jobs PROVE EndOfLife(i)'
  <2>1. CASE i # j
    BY <1>5, <1>6, <2>1 DEF EndInv, EndOfLife, NothingNew
  <2>2. CASE i = j
    <3>1. /\ \A t \in TaskIds : Owed(t, j)' =>
                Owed(t, j) /\ tasks'[t].type = tasks[t].type /\ tasks[t].type = runs[r].kind
          /\ \A s \in Runs : ~Asking(s, j)'
      BY <1>6, <1>7, <1>8 DEF NothingNew
    <3> QED BY <1>5, <2>2, <3>1 DEF EndInv, EndOfLife
  <2> QED BY <2>1, <2>2
<1>10. ASSUME NEW s \in Runs PROVE FindsReady(s)'
  <2>1. CASE s # r
    <3>1. runs'[s] = runs[s] /\ FindsReady(s)
      BY <1>1, <2>1 DEF Moves, EndInv
    <3>2. CASE runs[s].pc = "embedding"
      <4>1. runs[s].kind \in TaskTypes /\ runs[s].job \in Jobs
        BY <3>1, <3>2, RunAtCall DEF Before, Known, Prepared, PcsOf, TaskTypes, FindsReady
      <4>2. runs[s].job # j
        BY <1>1, <1>3, <1>4, <2>1, <3>2, <4>1, OneHolder
      <4> QED BY <1>5, <3>1, <4>1, <4>2 DEF FindsReady
    <3> QED BY <3>1, <3>2 DEF FindsReady
  <2>2. CASE s = r
    <3>1. runs'[r].pc = "embedding"
             => UNCHANGED status /\ status[j] = "READY_FOR_EMBEDDING"
      BY <1>3, StartsReady DEF Before
    <3> QED BY <1>1, <1>2, <1>3, <2>2, <3>1 DEF FindsReady, Moves
  <2> QED BY <2>1, <2>2
<1>11. status[j] = "COMPLETED" => status'[j] \in {"COMPLETED", "MANUAL_EMBEDDING", "FAILED"}
  <2> SUFFICES ASSUME status[j] = "COMPLETED"
               PROVE  status'[j] \in {"COMPLETED", "MANUAL_EMBEDDING", "FAILED"}
    OBVIOUS
  <2>1. runs[r].kind = "embed"
    BY <1>1, <1>2, <1>3, OnlyEmbedders
  <2>2. runs[r].pc # "embedding"
    BY <1>3 DEF EndInv, FindsReady
  <2> QED BY <1>5, <2>1, <2>2
<1> QED BY <1>3, <1>5, <1>9, <1>10, <1>11 DEF EndInv

LEMMA EnqueueEnd ==
    ASSUME Before, EndInv, NothingRepeated, NEW r \in Runs, Enqueue(r)
    PROVE  EndInv'
<1>1. runs[r].pc = "enqueue" /\ UNCHANGED status
  BY DEF Enqueue
<1>2. PICK j \in Jobs, t \in TaskIds :
              /\ j = runs[r].job /\ runs[r].kind \in DOMAIN NextType
              /\ Moves(r) /\ runs'[r].pc = "nil"
              /\ \A u \in TaskIds : u # t => tasks'[u] = tasks[u]
              /\ \A s \in Runs, i \in Jobs : Asking(s, i)' => Asking(s, i)
              /\ \A u \in TaskIds \ {t}, i \in Jobs : Owed(u, i)' => Owed(u, i)
              /\ \A i \in Jobs : Owed(t, i)' => i = j
  BY EnqueuePasses
<1>3. status[j] # "COMPLETED"
  BY <1>1, <1>2, OnlyEmbedders DEF NextType
<1>4. ASSUME NEW i \in Jobs PROVE EndOfLife(i)'
  BY <1>1, <1>2, <1>3 DEF EndInv, EndOfLife
<1>5. ASSUME NEW s \in Runs PROVE FindsReady(s)'
  BY <1>1, <1>2 DEF Moves, FindsReady, EndInv
<1> QED BY <1>4, <1>5 DEF EndInv

LEMMA RequestEnd ==
    ASSUME Before, EndInv, NEW r \in Ingesters, NEW i \in Jobs, StartIngestion(r, i)
    PROVE  EndInv'
<1>1. /\ r \in Runs /\ UNCHANGED tasks /\ status[i] = "NONE" /\ runs[r] = IdleRun
      /\ status'[i] = "PENDING"
      /\ \A j \in Jobs : j # i => status'[j] = status[j]
  BY DEF Runs, StartIngestion, Before, Known, Inv, TypeOK
<1>2. /\ \A s \in Runs \ {r} : runs'[s] = runs[s]
      /\ \/ runs'[r] = runs[r]
         \/ runs'[r].kind = "ingest" /\ runs'[r].job = i /\ runs'[r].pc = "enqueue"
            /\ runs'[r].task = NoTask
  <2>1. CASE UNCHANGED runs
    BY <2>1
  <2>2. CASE runs' = [runs EXCEPT ![r] = [IdleRun EXCEPT !.kind = "ingest", !.job = i,
                                                        !.pc = "enqueue", !.live = TRUE]]
    BY <1>1, <2>2 DEF IdleRun, Before, Known, Inv, TypeOK
  <2> QED BY <2>1, <2>2 DEF StartIngestion
<1>3. \A s \in Runs, j \in Jobs : Asking(s, j)' => Asking(s, j) \/ j = i
  BY <1>2 DEF Asking
<1>4. \A t \in TaskIds, j \in Jobs : Owed(t, j)' => Owed(t, j)
  BY <1>1, <1>2, NullAssumption DEF Owed, IdleRun
<1>5. ASSUME NEW j \in Jobs PROVE EndOfLife(j)'
  BY <1>1, <1>3, <1>4 DEF EndInv, EndOfLife
<1>6. ASSUME NEW s \in Runs PROVE FindsReady(s)'
  <2>1. CASE runs[s].pc = "embedding" /\ runs'[s] = runs[s]
    <3>1. status[runs[s].job] = "READY_FOR_EMBEDDING" /\ runs[s].job \in Jobs
      BY <2>1, RunAtCall DEF FindsReady, EndInv, Before, Known
    <3> QED BY <1>1, <2>1, <3>1 DEF FindsReady, EndInv
  <2> QED BY <1>1, <1>2, <2>1 DEF FindsReady, EndInv, IdleRun
<1> QED BY <1>5, <1>6 DEF EndInv

LEMMA EndNext ==
    ASSUME NothingRepeated, IngestionOnly, Before, EndInv, [Next]_vars
    PROVE  /\ EndInv'
           /\ \A j \in Jobs : status[j] = "COMPLETED"
                 => status'[j] \in {"COMPLETED", "MANUAL_EMBEDDING", "FAILED"}
<1>1. ASSUME NEW r \in Runs, HandlerStep(r)
      PROVE  /\ EndInv'
             /\ \A j \in Jobs : status[j] = "COMPLETED"
                   => status'[j] \in {"COMPLETED", "MANUAL_EMBEDDING", "FAILED"}
  BY <1>1, HandlerEnd
<1>2. ASSUME NEW r \in Runs, Settle(r) PROVE EndInv' /\ UNCHANGED status
  <2>1. UNCHANGED status /\ \A s \in Runs : runs'[s] = runs[s] \/ runs'[s] = IdleRun
    BY <1>2 DEF Settle, Before, Known, Inv, TypeOK
  <2> QED BY <1>2, <2>1, SettleBrings, QuietEnd DEF IdleRun
<1>3. ASSUME NEW w \in Workers, NEW t \in TaskIds, Dequeue(w, t)
      PROVE  EndInv' /\ UNCHANGED status
  <2>1. UNCHANGED status
    BY <1>3 DEF Dequeue
  <2> QED BY <1>3, <2>1, DequeueBrings, QuietEnd DEF TaskTypes
<1>4. ASSUME NEW t \in TaskIds, Recover(t) PROVE EndInv' /\ UNCHANGED status
  BY <1>4, RecoverBrings, QuietEnd DEF Recover
<1>5. CASE \/ UNCHANGED vars
           \/ \E f \in Files : ProviderSettles(f)
           \/ \E j \in Jobs : EditManifest(j)
  <2>1. UNCHANGED <<status, tasks, runs>>
    BY <1>5 DEF vars, ProviderSettles, EditManifest
  <2> QED BY <2>1, QuietEnd DEF NothingNew, Owed, Asking
<1>6. ASSUME NEW r \in Ingesters, NEW i \in Jobs, StartIngestion(r, i)
      PROVE  /\ EndInv'
             /\ \A j \in Jobs : status[j] = "COMPLETED" => status'[j] = "COMPLETED"
  BY <1>6, RequestEnd DEF StartIngestion, Before, Known, Inv, TypeOK
<1>7. ASSUME NEW r \in Runs, Enqueue(r) PROVE EndInv' /\ UNCHANGED status
  BY <1>7, EnqueueEnd DEF Enqueue
<1>8. ASSUME NEW r \in Runs, Step(r) PROVE HandlerStep(r) \/ Enqueue(r) \/ Settle(r)
  BY <1>8 DEF Step, HandlerStep
<1>9. /\ \A r \in Runs : ~Expire(r) /\ ~Crash(r)
      /\ Reembedders = {} /\ \A j \in Jobs : ~DeleteVideo(j)
  BY DEF NothingRepeated, IngestionOnly, Expire, Crash, DeleteVideo
<1> QED BY <1>1, <1>2, <1>3, <1>4, <1>5, <1>6, <1>7, <1>8, <1>9 DEF Next

LEMMA EndInit == Init => EndInv
BY DEF Init, EndInv, EndOfLife, FindsReady, IdleRun

\* As long as no message is repeated, nobody re-embeds by hand and no video is
\* deleted, COMPLETED is the end of the ingestion: whichever calls of the database,
\* the provider and the disk fail, and however often tasks are retried, no handler
\* takes a completed job back.  (A redelivered upload does; so does a re-embed
\* request that read the status just before the worker completed the job.)
THEOREM CompletedIsFinal ==
    ASSUME NothingRepeated, IngestionOnly
    PROVE  Spec => CompletedStaysIngested
<1> DEFINE A == \A j \in Jobs : status[j] = "COMPLETED"
                   => status'[j] \in {"COMPLETED", "MANUAL_EMBEDDING", "FAILED"}
<1>1. Before /\ EndInv /\ [Next]_vars => EndInv' /\ [A]_vars
  BY EndNext
<1> HIDE DEF A
<1>2. Spec => [][A]_vars
  BY <1>1, SequenceInvariance, EndInit, PTL DEF Spec
<1> QED BY <1>2 DEF A, CompletedStaysIngested

=============================================================================
