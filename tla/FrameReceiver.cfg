SPECIFICATION Spec
CONSTANTS
  Radix = 4
  Sync = 3
  StateRange = 8
  RingSize = 3
  Patience = 8
  Attempts = 1
  Frames <- MCFrames
  Wanted <- MCWanted
  MaxFrames = 2
  MaxLost = 1
INVARIANTS NothingMissed
PROPERTIES DeliveredInOrder EveryCallEnds
CHECK_DEADLOCK FALSE
