\* Two runs on one video, each statement interleaved with those of the other; the manifest may
\* be edited in between, so that they embed different texts.  A run that dies ends as one does
\* whose statement and whose marking of the job fail: "crash" would add no state.
CONSTANTS
  a = a
  b = b
  s = s
  t = t
  u = u
  i1 = i1
  i2 = i2
  i3 = i3
  i4 = i4
  i5 = i5
  NoJob = NoJob
  Ranges <- MCRanges
  Key <- MCKey
  Soups = {s, t, u}
  Ids = {i1, i2, i3, i4, i5}
  Jobs = {j1}
  Runs = {r1, r2}
  Manifests <- Rewrites
  Tables <- Outdated
  Faults = {"db", "gemini", "edit"}
SPECIFICATION EditedOnce
INVARIANTS StoredBeforeComplete VectorsFit
PROPERTIES ReplacesWhole RunsEnd
CHECK_DEADLOCK FALSE
