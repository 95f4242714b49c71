SPECIFICATION Spec
CONSTANTS
  Values = {0, 1}
  Numbers = {1}
  QueueLimit = 1
  MaxFaults = 1
INVARIANTS Saved Retried OnlyEntered
