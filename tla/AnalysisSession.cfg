CONSTANTS
  MaxRiceParameter = 4
  MaxLpcOrder = 4
  MinLpcBlockSize = 3
  WordBits = 16
  DeviceBits = 8
  TaskLimit = 15
  WelchTarget = 2
  Tukey3Windows = 9
  MaxDeviceBlock = 8
  IntBits = 11
  LeafPorderLimit = 1
  MaxPartitionOrder = 2
  Apis = {"opencl", "vulkan"}
  MaxCalls = 2
  MinGeneratedBlock = 4
  Calls <- MCCalls
SPECIFICATION Spec
CHECK_DEADLOCK FALSE
INVARIANTS
  LegalCallsAccepted
  BuffersFit
  CoefficientsFromOwnFrame
  GuessAgreesWithWriter
  DeviceAgreesWithWriter
  BestOfOwnFrame
  WriterAcceptsDevice
