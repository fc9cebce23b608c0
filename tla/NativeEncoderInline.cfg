SPECIFICATION Spec
CONSTANTS
  Workers = {}
  ThreadCount = 1
  GroupSamples = 4
  FrameSamples = 5
  ChunkGroups = 3
  TotalLimit = 20
  MaxGroups = 8
PROPERTY ImplementsStream
