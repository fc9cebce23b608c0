SPECIFICATION Spec
CONSTANTS
  Workers = {}
  ThreadCount = 1
  GroupSamples = 4
  FrameSamples = 5
  BatchFrames = 2
  ChunkGroups = 5
  TotalLimit = 30
  MaxGroups = 11
PROPERTY ImplementsStream
