\* Two processes that migrate up and down and may die, two jobs, two videos.
CONSTANTS
  j1 = j1
  j2 = j2
  v1 = v1
  v2 = v2
  Processes = {p1, p2}
  NoProcess = NoProcess
  Jobs = {j1, j2}
  Videos = {v1, v2}
  VideoOf <- MCVideoOf
SPECIFICATION Spec
INVARIANTS TypeOK VersionTellsSchema
PROPERTIES FileIdsKept FailsForCause ImplementsEvolution
