\* one builder, alone, builds and rebuilds
SPECIFICATION Spec
CONSTANTS
  Builders = {b1}
  Readers = {}
  Requests = {q1, q2}
  NoTree = NoTree
  Batches = 1
  Estimate = 1
  MaxCacheBytes = 100
  SourceManifestBytes = 1
  DateManifestBytes = 1
  MaxVersion = 0
  MaxCalls = 2
  MaxFaults = 0
  MaxCrashes = 0
SYMMETRY Symmetry
CHECK_DEADLOCK FALSE
PROPERTIES StaysVisible
