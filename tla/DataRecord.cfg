SPECIFICATION Spec
CONSTANTS
  Radix = 4
  WordBytes = 2
  CountRange = 16
  VoltageRange = 4
  StatusRange = 4
  Measurements <- MCMeasurements
  Bad = Bad
  FlushLimit = 1
  FileLimit = 3
INVARIANTS AcceptedGenuine CrashLosesFew FilesEnd
