SPECIFICATION Spec
CONSTANTS
  Batches = {b1}
  Byte = {1, 2}
  Manifests <- LargeManifests
  Chunks <- LargeChunks
  Indices = {1, 2, 3}
  Offsets = {0, 1, 2}
  MaxStaging = 1
  MaxTotalStaging = 2
  TTL = 1
  Faults = {"io", "crash", "power"}
  NoBatch = NoBatch
INVARIANTS
  AckedBytesSurvive
PROPERTIES
  AckMeansStored
