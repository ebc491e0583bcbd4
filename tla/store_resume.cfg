SPECIFICATION Spec
CONSTANTS
  Batches = {b1}
  Byte = {1, 2}
  Manifests <- SmallManifests
  Chunks <- SmallChunks
  Indices = {1, 2}
  Offsets = {0}
  MaxStaging = 1
  MaxTotalStaging = 2
  TTL = 1
  Faults = {"crash"}
  NoBatch = NoBatch
PROPERTIES
  InterruptedWriteResumable
