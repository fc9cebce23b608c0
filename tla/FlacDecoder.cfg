SPECIFICATION Spec
CONSTANTS
  GroupSamples = 3
  PackedGroups = 2
  MaxSamples = 14
  MaxBlocks = 3
INVARIANTS
  EverySampleOnce
  SuccessIsComplete
PROPERTY NoOutputAfterError
