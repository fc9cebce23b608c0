SPECIFICATION FairSpec
CONSTANTS
  w1 = w1
  w2 = w2
  Workers = {w1, w2}
  ThreadCount = 2
  GroupSamples = 2
  FrameSamples = 4
  BatchFrames = 2
  ChunkGroups = 6
  TotalLimit = 16
  MaxGroups = 13
INVARIANTS
  OneAnalysisAtATime
  BatchesContiguous
  PoolHoldsOneBatch
  NoThreadOutlivesCall
PROPERTIES
  EventuallyReturns
  ImplementsStream
