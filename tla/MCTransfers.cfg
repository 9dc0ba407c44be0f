\* Two samples of up to three chunks, pulled twice; two runs of a script of up
\* to three calls in a buffer of three bytes; one packet that the phone submits
\* twice, with room for two entries.
SPECIFICATION MCSpec
CONSTANTS
  ChunkSize = 2
  SampleLengths <- Lengths
  ChunkIndexes <- Indexes
  MaxSamples = 2
  MaxTransfers = 2
  MaxSize = 3
  DefaultSize = 2
  MaxRuns = 2
  MaxCalls = 3
CHECK_DEADLOCK FALSE
INVARIANT BufferAccounted
INVARIANT TransfersAreWhole
INVARIANT SamplesAreClean
PROPERTY ImplementsLease
PROPERTY FairBufferMoves
PROPERTY PendingResolves
