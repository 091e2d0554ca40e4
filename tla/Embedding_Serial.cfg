\* One run at a time, on a table in any state, cut off at any point.
CONSTANTS
  a = a
  b = b
  s = s
  t = t
  u = u
  i1 = i1
  i2 = i2
  i3 = i3
  i4 = i4
  i5 = i5
  NoJob = NoJob
  Ranges <- MCRanges
  Key <- MCKey
  Soups = {s, t}
  Ids = {i1, i2, i3, i4, i5}
  Jobs = {j1, j2}
  Runs = {r1}
  Manifests <- DistinctManifests
  Tables <- Leftovers
  Faults = {"db", "gemini", "disk", "crash", "analyze", "edit"}
SPECIFICATION Spec
INVARIANTS TypeOK StoredBeforeComplete
PROPERTIES KeepsUnchangedRows ReplacesWhole
