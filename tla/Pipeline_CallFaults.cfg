\* Calls fail, manifests are edited, the video is deleted and a re-embedding requested, but
\* nothing is delivered twice at once.
CONSTANTS
  Jobs = {j1}
  Files = {f1, f2}
  TaskIds = {t1, t2, t3}
  Workers = {w1, w2}
  Ingesters = {q1}
  Reembedders = {m1}
  NoJob = NoJob
  NoFile = NoFile
  NoTask = NoTask
  Concurrency <- AsConfigured
  MaxRetry <- OneRetry
  Faults = {"db", "gemini", "disk", "edit", "delete"}
SPECIFICATION Spec
SYMMETRY Symmetry
CHECK_DEADLOCK FALSE
INVARIANTS StagesDoNotOverlap OnlyRequestsReadTorn RunIsBacked
