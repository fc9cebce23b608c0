SPECIFICATION Spec
CONSTANTS
  MaxDevices = 2
  MaxRequests = 2
  MaxFlags = 2
INVARIANTS
  RequestedDeviceRuns
  AutomaticRefusedForCause
  AutomaticRunsProbedDevice
