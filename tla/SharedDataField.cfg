SPECIFICATION Spec
CONSTANTS
  Node = {n1, n2}
  ChanCap = 1
  AssocTries = 0
  BatteryTries = 0
  TxTries = 1
  SettleLoops = 0
  ActionCount = 1
  MaxCount = 1
  LocalCap = 1
  MaxResets = 0
  Intervals = {0}
  MaxCommands = 0
PROPERTY RecordsOwnCount
SYMMETRY NodeSymmetry
