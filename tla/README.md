# Formal model of vid_2_vec

`vid_2_vec` takes a video through four asynchronous stages (upload to the Google Files API, polling
until the file is processed, analysis by Gemini, embedding) and stores one row per scene, with its
vector, in PostgreSQL. This directory holds TLA+ modules of that program, TLC configurations that
check them on small instances, and TLAPS proofs for every value of the constants.

## The system

| part | source | state it keeps | operations |
| :-- | :-- | :-- | :-- |
| Ingestion API | `internal/handlers/ingest.go`, `internal/service/processor.go` | none of its own | insert a PENDING row, enqueue `video:upload`, answer 202 or 500 |
| Re-embed API | `internal/handlers/embed.go` | none | runs the embedder in the goroutine of the request |
| Job status API | `internal/handlers/job_status.go` | none | reads one row |
| Uploader | `internal/workers/ai/uploader.go` | none | read row, upload, write file id and status, enqueue `video:check_state` |
| State checker | `internal/workers/ai/state_checker.go` | none | read row, poll once, write status, enqueue `video:analyze`; an error is the next poll |
| Analyzer | `internal/workers/ai/analyzer.go` | the manifest file `<job>.jsonc` | read row, ANALYZING, model call, write manifest, READY_FOR_EMBEDDING, enqueue `video:embed` |
| Embedder | `internal/workers/ai/embedder.go` | none | initial embedding (status READY_FOR_EMBEDDING) or selective re-embedding (status COMPLETED) |
| Planner | `internal/workers/ai/planner.go` | none (pure) | diff of a manifest against the stored scenes |
| Gemini client | `internal/gemini/client.go` | none between calls | upload, file state, metadata with validation and retries, embeddings with retries |
| Job repository | `internal/repository/ingestion_job.go` | table `ingestion_job` | insert, two unconditional updates, read |
| Scene repository | `internal/repository/video_scene.go` | table `video_scenes` | read, replace all, synchronise, each in one transaction |
| Task queues | `internal/tasks`, `internal/bootstrap`, Asynq, Redis | the tasks of four queues | enqueue, deliver, acknowledge, retry, archive, recover |
| Worker processes | `cmd/worker-*` | none | run handlers; on SIGTERM they exit without waiting for them |
| Source videos | `internal/repository/source_video.go` | table `source_video`, which another system makes and fills | looked up before a job is inserted; a deletion takes the jobs along |
| Migrations | `cmd/migrate`, `migrations/` | the definition of `ingestion_job`; version and dirty flag of golang-migrate | all scripts up, one script down |
| Start-up | `internal/config`, `internal/bootstrap` | none | reads the environment, wires the parts |
| Deployment | `infra/`, compose files, CI | none | declarative |

### How the parts interact

- The API and the workers share the row of a job in PostgreSQL. No update looks at the status it
  replaces (`ingestion_job.go:105-128`), and no lock or transaction spans two calls.
- Each stage writes the row first and then enqueues the task of the next stage. Nothing ties the two
  together: only the redelivery of the current task repairs a stage that was cut off in between.
- Analyzer and embedder share the manifest file of a job. It is written in place
  (`os.WriteFile`), and re-embedding invites people to edit it.
- Asynq delivers at least once: a task is delivered again when its handler returns an error, when its
  lease runs out, and when the process dies (all four `main` functions end without waiting for
  their handlers). Polling is the same mechanism: "not ready yet" is an error.
- The re-embed endpoint runs the embedder in the request, beside a worker that may embed the same job;
  and two jobs of one source video write the same rows of `video_scenes`.
- A source video may be deleted at any time, and its jobs with it (migration 004), under the handlers
  that work on them. Their updates then hit no row, which is no error.
- Migrations run beside the program: a Job applies them before the new version of the API and the workers
  is rolled out, while the old one serves (`infra/README.md:130-143`).

### What is hard about it

Two deliveries of one task at once; a row that has moved on since it was read; a process that dies
between two calls; replies that are lost after the call took effect; a context that is cancelled while
its goroutine runs on; `FAILED` updates whose error is dropped; retries that run out; two transactions
on the same scenes at READ COMMITTED; a plan that is older than the rows it is applied to; floats
compared as text; a conversation whose attempts fail in different ways; a migration that dies between two
scripts, or that meets rows inserted behind its backfill. `hazards` in `PROJECT.json`
lists each at its line.

## Modules

| module | what it is |
| :-- | :-- |
| `Pipeline` | API handlers, the four workers, row, manifest, provider files, Asynq. One `runs[r]` per goroutine: the local variables of its handler and a `pc` that names its next call |
| `PipelineProperties` | its properties, and the refinement mapping to `Lifecycle` |
| `Lifecycle` | abstract: the status of a job and the evidence (file id, manifest, scenes) each status stands for |
| `PipelineProofs` | type correctness and the evidence behind statuses, tasks and runs |
| `LossProofs` | extends it: no accepted job is lost without a trace |
| `SequenceProofs` | extends that: the stages of a job follow one another when nothing is repeated |
| `CauseProofs` | extends that: why a job fails, and what an analysis rests on |
| `LifecycleProofs` | the refinement of `Lifecycle` |
| `Planner` | `planReembedding` as a pure function of manifest, rows and the way ties are broken |
| `Embedding` | the embedder on the rows of one video: the embedding calls and both transactions, statement by statement, with row locks, deadlocks and failing statements; extends `Planner` |
| `SceneSet` | abstract: the scenes of a video are replaced as a whole, by those of one manifest; a run that was overlapped brings in no scene but its own |
| `EmbeddingProperties`, `EmbeddingProofs` | properties, mapping to `SceneSet`, proofs for any number of runs |
| `Analysis` | the conversation with the model (`GenerateMetadata`, `validateMetadata`) and the two files the analyzer may leave |
| `AnalysisProperties`, `AnalysisProofs` | properties and proofs |
| `Migrations` | `cmd/migrate` and its eight scripts on `ingestion_job`, with golang-migrate's lock and dirty flag, beside the inserts, updates and deletions of the program |
| `Evolution` | abstract: the definition of the table and its rows change by one migration at a time, script by script |
| `MigrationsProperties`, `MigrationsProofs` | properties, mapping to `Evolution`, proofs |
| `MC*` | instances for TLC |

Operators whose comment begins with "Seeded bug" are never part of a specification. Each is a wrong
variant of the definition after it and shows that a property can tell the two apart.

### State and steps

**Pipeline.** `status` and `file` are the columns of `ingestion_job` (`"NONE"`: no row yet, `"GONE"`: deleted
with its video). `manifest`
says what is in `<job>.jsonc`: nothing, half a text (`os.WriteFile` has truncated it; or an edit), valid
JSON without scenes, or scenes. `stored` is the set of jobs whose scenes have been committed. `tasks`
holds what is in Redis, `archived` what Asynq gave up on. `accepted` (answered 202) and `unmarked`
(dropped by a handler whose `FAILED` update failed) are history that the program does not keep; no
guard reads them. Every call on shared state is one step: `GetJob`, `UpdateJobStatus`, `Enqueue`,
`UploadFile`, ... A call that fails takes the error path of its handler; a database or Redis call may
have taken effect before it fails. `Settle` is the return of a handler, with Asynq's reaction. A run that
has expired (`live = FALSE`) fails every call that takes its context, but still enqueues and still
writes its file, since these take none. A crash takes one run away; a process that dies with several
handlers is several crashes. On a row that is gone an `UPDATE` hits nothing and succeeds, `GetJob` fails, and
the scenes may or may not be accepted: that table is another system's. `Uploaded` and `FileState` are the
client's `UploadFile` and `GetFileState`. An edit meets a manifest that has been written, and may empty or
break it. The four worker pools are one set `Workers`: any
goroutine takes any task, as far as the server of its queue has a free slot (`HasSlot`; `Concurrency` is the
second argument of `NewAsynqServer`). A slot is not a goroutine: when the context of a task ends, Asynq frees the
slot and hands the task out again while the handler runs on. Such a run (`live = FALSE`) keeps its element of
`Workers` and takes no slot, so that its redelivery runs beside it even where there is one slot.

**Embedding.** `rows` is what is committed in `video_scenes` for one video. A run carries its job, the
manifest it loaded, its plan, the vectors it has got (a vector is the text it was computed from), the failed
attempts at the next one, and what its transaction has done so far (`gone`, `written`: these rows are
locked) and still has to reach (`left`). `alone` is history: the runs that no other has overlapped since
they started; no guard reads it. Changes appear with `Commit`. A statement that meets a locked
row waits; then it goes on with the row as it has become, or without it. An initial run deletes the rows
there are when its `DELETE` starts, a re-embedding those of its plan, which may be old by then.
`planReembedding` sorts nothing and does not say which of two rows with one key wins: `Indexes` allows
every choice, as `ORDER BY start_time` does. A `soup` is the text of a scene and stands for its hash,
content and vector.

**Analysis.** A call has an attempt number, the history it sends and the last metadata it got. `Metadata`
is what the model may return, with integer times; `MaxAttempts` is the limit of `NewClient` (a setting of zero
or less gives three); `blank` names missing or empty fields. A candidate
without content makes `client.go:257` panic, which Asynq recovers: the conversation just ends.

**Migrations.** `version` and `dirty` are golang-migrate's, `schema` is what a script can change of
`ingestion_job` (the table, the nullability and default of `ai_provider_file_id`, the foreign key), `fileId` that
column of each row. A process takes the advisory lock and reads the version (`UpOrDown`), and for each script
writes the version to be reached as dirty (`SetDirty`), runs the script (`Apply` or `Fail`) and writes the version as
clean (`SetClean`); `Abort` is its death, a lost connection, or its transaction chosen to break a deadlock. A
script is sent as one query, hence one transaction: one step, except 002 down, whose `UPDATE` reads its
rows (`Backfill`) some time before `ALTER TABLE` has the table for itself. An attempt that meets a dirty version, a lock
taken for too long, or nothing to do changes nothing and is left out. The program's own steps are the
look-up of the video, the insert, and the update after the upload; videos come and go. Their
table belongs to another system, and no script of the repository makes it: `sourceTable` says whether it is there, from
the beginning, from some time on (`CreateTable`) or never. `AddVideo` is that system too; `CreateSourceVideo` has no caller. A `NULL` file id and an empty one are the same to state checker and
analyzer, which is why `Pipeline` has one `NoFile`.

The first three parts meet in definitions that say the same of one piece of code at two levels: `EmbedScenes`
and `StoreScenes` of `Pipeline` are one step each for what `Embedding` does between `load` and `complete`
(which `StoredBeforeComplete`, `ReplacesWhole` and `RunsEnd` justify), and `GenerateMetadata` of `Pipeline` is one
step for a conversation of `Analysis` (which `ConversationEnds` and `FilesAreKeptApart` justify: it ends, in a manifest that passed the check or in none).

## Runs

State counts are distinct states.

| run | instance | shows |
| :-- | :-- | :-- |
| `Pipeline_Redelivery` | 2 workers; crashes and lost Redis replies; uploader and state checker delivered twice (2.68 M) | `TypeOK`; no task in Redis is ahead of the row it is about (`TaskIsBacked`); no analysis begins before the provider has finished with a file of the job (`AnalysisFollowsActivation`); an accepted job in a status a task should move on has a task, or left a trace (`NoSilentLoss`) |
| `Pipeline_CallFaults` | 2 workers and a re-embed request; database, provider and disk calls fail, manifests are edited, the video is deleted; no message is repeated, each task may be retried (0.77 M) | stages of a job do not overlap (`StagesDoNotOverlap`); an embed task never opens a missing or half-written manifest, and a re-embed request only one whose analysis is to be repeated or was given up (`OnlyRequestsReadTorn`); no handler reaches a call without what the call builds on (`RunIsBacked`) |
| `Pipeline_LateFaults` | 2 workers; crashes, cancelled contexts, failing calls, a deleted video; analyzer and embedder delivered twice (1.9 M) | no status is ahead of its evidence (`StatusIsBacked`); `NoSilentLoss`; every step is one of the abstract life cycle (`ImplementsLifecycle`) |
| `Pipeline_Liveness` | 2 goroutines and one slot for each queue; any handler may die or lose its context and run on beside the redelivery, the video may be deleted; the embed task is retried (0.19 M) | queues run empty for good (`QueueDrains`), accepted jobs come to rest (`AcceptedJobEnds`) |
| `Embedding_Serial` | 1 run, 2 jobs of one video, tables with duplicates and mixtures, every call and statement may fail, crashes, new analyses, edits (1.04 M) | `TypeOK`; a run that reports `COMPLETED` has stored exactly its manifest (`StoredBeforeComplete`), unchanged rows survive (`KeepsUnchangedRows`), the scenes change as a whole only, never to none or to a part (`ReplacesWhole`) |
| `Embedding_Concurrent` | 2 runs on one video, statement by statement, an edit of the manifest at any time, failing calls and statements (0.30 M) | a run nobody overlapped stores exactly its manifest whatever the others left (`StoredBeforeComplete`) and an overlapped one brings in no scene but its own (`ReplacesWhole`); the vector of a row is that of its text, also when both runs embed different texts for it (`VectorsFit`); every run ends although runs lock each other out (`RunsEnd`) |
| `Analysis` | 3 attempts, 8 replies (one for each check, at its boundary), failing calls (9 k) | `TypeOK`; the manifest has passed `validateMetadata` and the `_broken` file has not (`FilesAreKeptApart`), feedback is about the reply before it (`FeedbackFollowsReply`), the last metadata is what is saved (`SavesLastReply`), the conversation ends (`ConversationEnds`) |
| `Migrations` | 2 processes that migrate up and down and may die, 2 jobs, 2 videos, `source_video` made before, meanwhile or never (4.8 k) | `TypeOK`; a clean version is the definition of the table, a dirty one is one script away (`VersionTellsSchema`); file ids survive (`FileIdsKept`); only 003 up and 002 down can fail on what there is (`FailsForCause`); every step is one of the abstract evolution (`ImplementsEvolution`) |
| `Pipeline_FindingStuck`, `_FindingFailJob`, `_FindingCompleted`, `Embedding_FindingRepeated` | see Findings | violated |

**Bounds, and why they are enough.** One job in `Pipeline`: jobs share nothing there but task ids, file
names and goroutines, and what they share in `video_scenes` is the subject of `Embedding`, which has two.
Two workers are enough for every race of two deliveries, or of a delivery and an expired run of the same task; what three would
add is a third delivery of the same task, the same race once more. Two files and three tasks let each stage be delivered again while its
successor is in flight. When they are used up, an upload or an enqueue waits: behaviours are cut there,
none are added. The liveness run has one file and two tasks:
its upload is not repeated, so it needs no second file, and an enqueue that finds both ids taken waits until one of the
two tasks is settled, recovered or archived, which fairness sees to. `MaxRetry` is 0 or 1 for each type instead of 3 and
20: the cases are "delivered again" and "used up", and the runs split the types so that each is
delivered twice somewhere. The proofs need none of these bounds. In `Embedding`, three ranges of which two
share a key, two or three texts and five or six ids: enough for a row to be kept, updated, created and
deleted by one plan. `Embedding_Concurrent` has a manifest and one edit of it, with another text for each range
(`EditedOnce`): two overlapping runs load the same one or each its own, and a mixture of the two is neither.
Crashes are left to `Embedding_Serial`: in the concurrent run they would add transitions and no state, because a
run that dies ends like one whose statement fails and whose marking of the job fails too. A run that needs
more free ids than are left waits, again a cut. `Jobs`, `Workers`,
`TaskIds` and `Files` are interchangeable; symmetry is used in safety runs only. In `Migrations`, one process
holds the lock and one comes, or finds what a dead one left; each of the two jobs has its own video, so
that one is deleted, inserted or backfilled while the other is not.

`CHECK_DEADLOCK FALSE` stands where the system really stops: all requests served and all tasks done,
or all runs finished with nothing left to embed.

**Fairness.** `Pipeline`: a goroutine takes its next step, a worker with a free slot takes a due task, the
recoverer of Asynq runs, and the provider finishes with a file. These are the promises of the Go
scheduler, of Asynq's processor and recoverer loops, and of the Files API. Delays (`ProcessIn`, backoff)
are finite and not modelled. `Embedding`: a goroutine takes its next step, PostgreSQL resolves deadlocks,
and who waits for a row is queued: strong fairness for a statement that waits, because the row may be
locked and released by others in between. `Analysis`: a request gets an answer or an error. `Migrations` has no
liveness property and no fairness. Nothing is assumed of requests, edits, deletions, crashes or failing calls. Nor is the number of crashes bounded: it is the retry
count of Asynq, which a crash uses up as well, that makes `QueueDrains` true.

## Findings

Four runs show that the code does not do what the repository says (`findings` in `PROJECT.json` quotes
the lines).

1. `EmbeddingEnds`: a worker that dies after writing `EMBEDDING` leaves the job in that status. The
   redelivered task finds a status `ProcessJob` does not act on (`embedder.go:62`) and succeeds; the
   retries of the embed task never help, nor does the re-embed endpoint. `MANUAL_EMBEDDING` is left in
   the same way.
2. `FailJobMarksFailed`: when a run fails because its context was cancelled, `failJob` writes `FAILED` under
   the cancelled context and drops the error (`embedder.go:243`). The test that asserts otherwise uses a
   mock that ignores the context.
3. `CompletedStaysIngested`: uploader and state checker never look at the status; a redelivery takes a
   `COMPLETED` job back to an earlier one and runs its later stages again.
4. `ReembedStoresManifest`: of two scenes with one time range, re-embedding an unchanged manifest deletes
   one (`planner.go:99`); nothing rejects such a manifest and initial embedding stores both.

Known divergences that no run is spent on:

- `PROVIDER_PROCESSING` is in the life cycle of `README.md:48` and is never written (`state_checker.go:57`
  returns an error while the file is processing).
- The re-embed endpoint answers "re-embedding completed" for a job in any status, also one it skipped
  (`embed.go:45-49`, `embedder.go:62-65`).
- When the enqueue after the insert fails, the request is answered 500 and the `PENDING` row stays;
  `GetPendingJobs`, which could find it, has no caller.
- "Polls until processing completes" (`README.md:24`) ends after 20 retries of the task (`tasks.go:45`).
- The analyzer may start on a file that is still processing: the file id it reads may be that of a
  second upload (`analyzer.go:63`).
- A re-embed request may read a half-written manifest: the reply to `READY_FOR_EMBEDDING` is lost, the analysis is
  retried and truncates the file, and the request, which acts on the status alone (`embedder.go:57-66`), opens it and
  marks the job `FAILED`. `OnlyRequestsReadTorn` allows just this; TLC finds it without the exception.
- `validateMetadata` accepts less than `responseSchema` asks of the model: one tag instead of 3-5 (`client.go:61`, checked at 311
  only for none, whose message says "need 3-5 tags"), half of the video instead of all of it (`client.go:70`; only the end of the
  scene listed last is compared with half the duration), and names of any length instead of 2-6 words (`client.go:84`).
- A renamed scene, or a changed embedding model, is not detected: the hash covers the text only
  (`planner.go:49`).
- 002 down fills empty columns first "to avoid failure on existing rows" (`002_async_upload.down.sql:1`), but only
  of the rows its `UPDATE` sees: a job inserted while it waits for the table makes `SET NOT NULL` fail
  (`FailsForCause` allows it, and TLC finds it). It can also deadlock with `UpdateJobAfterUpload`.
- The steps of `README.md:59-62` start from the database of the compose file, which has no `source_video`: no script,
  compose file or workflow makes it, so 003 up fails (`003_fk_source_video.up.sql:3`) and leaves version 3 dirty.
  `FailsForCause` allows it, and TLC finds it.
- A migration that fails or is killed leaves a dirty version, and every retry of the Kubernetes Job
  (`infra/k8s/platform/migration.yaml`) refuses a dirty version: the retries never help.
- The worker pods of `infra/k8s/app/workers.yaml` mount no common volume, while analyzer and embedder hand
  the manifest over as a file. The model has one file system, as `docker-compose.yml` has, where all
  processes run in one container.
- Two re-embeddings that overlap on a table with duplicate keys may each delete the copy the other keeps
  (`video_scene.go:161` leaves the order of ties open).

## Proofs

All theorems hold for every value of the constants that meets the named assumptions: any number of jobs,
goroutines, tasks, files, retries, attempts, rows and manifests, and any set of faults.

**PipelineProofs.** `Invariance` proves the inductive invariant
`Inv == TypeOK /\ StatusIsBacked /\ TaskIsBacked /\ RunIsBacked`. No part is inductive alone: a status is
written by a run that saw its evidence some steps earlier, a run is started from a task, and a task is
created by a run. The link is that evidence only grows (`Grows`): what a run has once seen stays true
while others move, so each step has to be looked at for the run that takes it only. There is one lemma per
step, and helper lemmas for the two moves most steps share (`Goto`, `UpdateJobStatus`). `TypeCorrect`,
`StatusBacked`, `TaskBacked` and `RunBacked` follow. Carried along is a fact about Asynq that the later modules
use: a task is held by at most one run and is active meanwhile (`LeaseIsExclusive`). The assumptions are that the null values
are not members of the sets they stand beside, that the three sets of goroutines are disjoint, that retry counts are naturals,
and that each server has a slot.

**LossProofs.** `NoLoss`: `Spec => []NoSilentLoss`. That some task is in flight is not inductive, since it may be
the one about to be acknowledged. The strengthening (`LossInv`) says who owes the job its next step: a task
that nobody holds, or whose handler has not returned `nil` (`Owed`). Before `READY_FOR_EMBEDDING` it must be one that
carries the job on (`Carries`): an embed task does not count, for the embedder acknowledges it when it
finds another status. A run with a live context still holds its task (`LiveHolds`), so a handler that returns
`nil` has either enqueued the successor or written a status that no task should move on.

**SequenceProofs.** `StagesInSequence` and `WholeManifests`, under one assumption, `NothingRepeated`: no process dies, no
context is cancelled, Redis answers. All other calls may fail, at any time, and tasks be retried. A job is
passed on like a baton (`OneBaton`): at most one task, or the request before the first one, owes it a step. A
half-written manifest has its analysis still to be finished or given up, and no embed task waiting for it
(`TornIsUnread`); a request that reads the status alone is the one reader it may have. The assumption is needed: a
redelivered analyzer truncates the manifest under the embedder. `CompletedIsFinal` is the positive side of finding 3: if also
nobody re-embeds by hand or deletes videos (`IngestionOnly`), COMPLETED is the end. The invariant (`EndOfLife`) says that
what is still owed to a COMPLETED job is its embed task, to which it is no longer ready. Both assumptions are
needed: a redelivery takes a job back, and so does a manual run that read READY_FOR_EMBEDDING before the worker completed
the job.

**CauseProofs.** Why a job fails, when database, provider and disk answer and nobody edits a manifest (`CallsAnswered`).
`FailureHasCause` assumes nothing else of the constants and names the only two accidents, as hypotheses about the
behaviour: a file id is replaced (`FileIdKept` broken), or a manifest is read half written (`ReadsWhole` broken). If neither
happens, `FailedForCause` holds, for any number of workers, requests and retries, while processes die, contexts are
cancelled, Redis replies are lost and videos deleted. The invariant (`CauseInv`) says what each handler knows of the file
(`Justified`): a state checker polls the file of the row, an analyze task is there only for a file that is
`ACTIVE`, and a run that is about to mark its job has lost its context or its row. Two theorems show when the accidents are
excluded. `FileIdWrittenOnce`: with any faults, as long as no upload has been delivered again (`UploadsOnce`, a predicate
on states, as the code does allow three retries); a job is uploaded by its request, then its task, then one run
(`FirstUpload`). `UndisturbedFailsForCause`: with any number of workers and re-embed requests under `NothingRepeated`, where
each stage happens once (`Once`, on top of the baton of `SequenceProofs`). Neither can be had without its assumption: a
second upload leaves the analyzer with a file that is still processing, and an expired analyzer, which runs on beside its
redelivery, may truncate what the embedder reads.

`AnalysesWait` proves `AnalysisFollowsActivation` with every fault and no assumption. The file id a state checker polls may
have been replaced since, so the file that turned `ACTIVE` need not be that of the row. Who has seen it does: a file belongs to the job
of the run that uploaded it and of the row that names or named it (`FileInv`), an `ACTIVE` file stays `ACTIVE`, and a file whose id
was replaced is never written into a row again. So what a run or a task rests on (`Rests`) stays true while uploads are
repeated under it.

**LifecycleProofs.** `Implementation`: `Spec => Job!Spec`. Initial states map to initial states; a status
update maps to the abstract action it is entitled to (`Claim`, by `RunIsBacked`), the writes of file id,
manifest and scenes to `Upload`, `Analyze` and `Embed`; every other step is a stutter.

**AnalysisProofs.** The invariant counts rounds: after n rejected replies the history has 2n+1 turns, n is
less than the number of the attempt, and if there is metadata the history ends in the last one and its
problems. Theorems: `TypeCorrect`, `FilesKeptApart`, `FeedbackFollows`, `LastReplySaved`.

**EmbeddingProofs.** The invariant holds for any number of runs and any manifests and tables. Each run's plan is
one that the planner can have made of its manifest, and rows deleted and updated so far, with those still
to come, are those of the plan; no two runs hold one row; for the runs in `alone` the plan still fits the table
as it is now (`Planned`). `TypeCorrect` needs no assumption; `AnyRunsVectors` assumes that the vectors fit to
begin with (`TablesFit`). `LoneStores`, `LoneKeeps` and `Replaces` assume that manifests repeat no time range (`DistinctKeys`). The first
two speak of the runs nobody overlapped; `Replaces` is the refinement of `SceneSet` by any number of runs, where an overlapped
run may leave a mixture. `SerialStores` (the statement of finding 4) assumes at most one run as well (`OneAtATime`).
These assumptions are needed: with
a repeated range, finding 4 refutes `StoredBeforeComplete`; if two runs overlap, both may store their scenes.
`PlanIsExact` and `ReplaceIsExact` show that carrying out a plan in full leaves one row for each scene and nothing else,
whichever rows the index preferred.

**MigrationsProofs.** No assumption but those of the module. A dirty version alone does not tell on which side
of it the table is. What the process with the lock has done so far does (`LockKnows`), and exactly the processes
at work hold the lock (`LockHeld`), so at most one is. The rows an open backfill has locked are still without a
file id (`SeenIsBlank`), requests that are about to insert have no row yet (`AskedAreNew`), and while there is a foreign key
`source_video` exists and
no job is without its video (`NoOrphans`, theorem `ForeignKeyHolds`), which is why 004 can never fail. `TypeCorrect`, `VersionTells`,
`FailuresHaveCause` and `FileIdsStay` follow. `Implementation` is the refinement of `Evolution`: the level is read off the
definition of the table and the migration under way off the process with the lock; `Apply` is one step up or down, taking and
giving up the lock are its start and end (a death too), versions and dirty flags are stutters.

**Only model-checked.** All
liveness properties (`QueueDrains`, `AcceptedJobEnds`, `RunsEnd`, `ConversationEnds`): the prover has no rules for
fairness and `ENABLED`. The four violations are TLC's. Induction over data is out of the prover's reach as
well; no definition here is recursive.

## Not modelled

- Job status API, start-up, deployment: no state of their own, or none that others depend on. Start-up
  reads configuration once; the two numbers that matter are constants of the modules.
- Code without a caller: `GetPendingJobs`, `CreateSourceVideo`, `CreateVideoScene`, `UpdateVideoScene`,
  `DeleteScenesBySourceVideoID`, `DeleteScenesNotInIDs`.
- The index, the function and the trigger of migration 001, and the creation of the schemas.
- Names of scenes, provider and model columns, file names, log files, wording of answers.
- Time: delays, backoff and timeouts are steps that may happen at any moment.
- A full Redis or PostgreSQL outage is what `"redis"` and `"db"` allow at every call; loss of data they have
  acknowledged is not.

## Plan

Done: the pipeline with its life cycle, deletions under running jobs, no silent loss and stages in sequence,
all proved, as are the causes of failed jobs; embedding with its planner, its calls and any number of overlapping runs; the conversation
with the model; the migrations. Next, in this order:

1. Two jobs of one source video in `Pipeline`, with `Embedding` as the refinement of its storing steps.
2. Proofs: stages that do not overlap under single redeliveries, of each type in turn, instead of none; what two overlapping
   embedding runs may leave in the table beyond `ReplacesWhole`; names of the accidents behind findings 1 and 3 in
   `CompletedIsFinal` as hypotheses about the behaviour, as in `FailureHasCause`.
3. Names of scenes and the embedding model in `Planner`, for the hazard at `planner.go:49`.
4. A down migration under the whole pipeline: `CreatePendingJob` and `UpdateJobAfterUpload` of `Migrations` as the
   steps of `Pipeline`.
