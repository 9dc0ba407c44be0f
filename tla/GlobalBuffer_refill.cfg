\* An empty sample, and one of two chunks.
SPECIFICATION Spec
CONSTANTS
  ChunkSize = 2
  SampleLengths = {0, 3}
  ChunkIndexes = {1}
  MaxSamples = 2
  MaxTransfers = 2
INVARIANT MissingChunksFit
CHECK_DEADLOCK FALSE
