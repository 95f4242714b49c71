SPECIFICATION LedgerSpec
CONSTANTS
  Node = {n1}
  ChanCap = 1
  AssocTries = 0
  BatteryTries = 0
  TxTries = 1
  SettleLoops = 0
  ActionCount = 1
  MaxCount = 1
  LocalCap = 1
  MaxResets = 1
  Intervals = {0}
  MaxCommands = 1
  MaxPulses = 1
  MaxCycles = 2
INVARIANTS LedgerTypeOK NoPhantomCount SubtractionInRange SavedCountGenuine
           RecordedAtMostCleared ExactWhenUndisturbed NoUnearnedClear
