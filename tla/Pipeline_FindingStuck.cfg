\* What the repository says and the code does not keep.
CONSTANTS
  Jobs = {j1}
  Files = {f1, f2}
  TaskIds = {t1, t2, t3}
  Workers = {w1}
  Ingesters = {q1}
  Reembedders = {}
  NoJob = NoJob
  NoFile = NoFile
  NoTask = NoTask
  Concurrency <- AsConfigured
  MaxRetry <- EmbedRetry
  Faults = {"crash"}
SPECIFICATION FairSpec
CHECK_DEADLOCK FALSE
PROPERTY EmbeddingEnds
