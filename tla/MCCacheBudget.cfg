\* a cap of 8 units, builds that take 4 at their last check and 5 when published
SPECIFICATION Spec
CONSTANTS
  Builders = {b1, b2}
  Readers = {}
  Requests = {q1, q2}
  NoTree = NoTree
  Batches = 2
  Estimate = 2
  MaxCacheBytes = 8
  SourceManifestBytes = 1
  DateManifestBytes = 2
  MaxVersion = 0
  MaxCalls = 4
  MaxFaults = 0
  MaxCrashes = 1
SYMMETRY Symmetry
CHECK_DEADLOCK FALSE
INVARIANTS CheckedBytesFit
