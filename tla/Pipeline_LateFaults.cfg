\* Crashes, cancelled runs, failing calls and a deleted video, while analyzer and embedder run twice.
CONSTANTS
  Jobs = {j1}
  Files = {f1, f2}
  TaskIds = {t1, t2, t3}
  Workers = {w1, w2}
  Ingesters = {q1}
  Reembedders = {}
  NoJob = NoJob
  NoFile = NoFile
  NoTask = NoTask
  Concurrency <- AsConfigured
  MaxRetry <- LateRetry
  Faults = {"crash", "expire", "db", "gemini", "disk", "delete"}
SPECIFICATION Spec
SYMMETRY Symmetry
CHECK_DEADLOCK FALSE
INVARIANTS StatusIsBacked NoSilentLoss
PROPERTY ImplementsLifecycle
