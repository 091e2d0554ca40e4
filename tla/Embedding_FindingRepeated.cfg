\* A manifest that has two scenes with one time range.
CONSTANTS
  a = a
  b = b
  s = s
  t = t
  u = u
  i1 = i1
  i2 = i2
  i3 = i3
  i4 = i4
  i5 = i5
  NoJob = NoJob
  Ranges <- MCRanges
  Key <- MCKey
  Soups = {s, t}
  Ids = {i1, i2, i3, i4, i5}
  Jobs = {j1}
  Runs = {r1}
  Manifests <- RepeatedManifests
  Tables <- EmptyTable
  Faults = {}
SPECIFICATION Spec
INVARIANTS ReembedStoresManifest
