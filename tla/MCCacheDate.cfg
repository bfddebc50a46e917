\* two builders, a reader, two requests; a rewrite, a failing rename, a crash
SPECIFICATION Spec
CONSTANTS
  Builders = {b1, b2}
  Readers = {r}
  Requests = {q1, q2}
  NoTree = NoTree
  Batches = 2
  Estimate = 2
  MaxCacheBytes = 100
  SourceManifestBytes = 1
  DateManifestBytes = 1
  MaxVersion = 1
  MaxCalls = 3
  MaxFaults = 1
  MaxCrashes = 1
SYMMETRY Symmetry
CHECK_DEADLOCK FALSE
INVARIANTS TypeOK PublishedIsFaithful VisibleAtRest OutcomesAreTrue
PROPERTIES PredecessorsKept
