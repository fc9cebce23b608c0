SPECIFICATION FairSpec
CONSTANTS
  w1 = w1
  w2 = w2
  Workers = {w1, w2}
  ThreadCount = 2
  GroupSamples = 2
  FrameSamples = 3
  ChunkGroups = 3
  TotalLimit = 12
  MaxGroups = 8
INVARIANTS
  TypeOK
  FramesInOrder
  NoFrameLost
  BacklogBounded
  NoLostResultWakeup
  NoStrandedWorker
PROPERTIES
  EventuallyReturns
  OnlyTakenFrameAfterFailure
  ImplementsStream
