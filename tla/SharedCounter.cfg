SPECIFICATION SharedSpec
CONSTANTS
  Radix = 6
  Width = 3
  MaxPulses = 5
PROPERTY AtomicInOneByte
