\* Workers may die at any point, contexts may end under a running handler, whose task is then
\* delivered beside it, and the video may be deleted.
CONSTANTS
  Jobs = {j1}
  Files = {f1}
  TaskIds = {t1, t2}
  Workers = {w1, w2}
  Ingesters = {q1}
  Reembedders = {}
  NoJob = NoJob
  NoFile = NoFile
  NoTask = NoTask
  Concurrency <- OneSlot
  MaxRetry <- EmbedRetry
  Faults = {"crash", "expire", "delete"}
SPECIFICATION FairSpec
CHECK_DEADLOCK FALSE
PROPERTIES QueueDrains AcceptedJobEnds
