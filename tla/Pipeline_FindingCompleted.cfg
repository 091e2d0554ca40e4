\* What the repository says and the code does not keep.
CONSTANTS
  Jobs = {j1}
  Files = {f1, f2}
  TaskIds = {t1, t2, t3}
  Workers = {w1, w2}
  Ingesters = {q1}
  Reembedders = {}
  NoJob = NoJob
  NoFile = NoFile
  NoTask = NoTask
  Concurrency <- AsConfigured
  MaxRetry <- UploadRetry
  Faults = {"crash"}
SPECIFICATION Spec
SYMMETRY Symmetry
CHECK_DEADLOCK FALSE
PROPERTY CompletedStaysIngested
