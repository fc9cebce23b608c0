SPECIFICATION Spec
CONSTANTS
  MaxDevices = 2
  MaxRequests = 0
  MaxFlags = 0
INVARIANTS
  AutomaticOpenClIsHardware
