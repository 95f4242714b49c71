SPECIFICATION Spec
CONSTANTS
  PageSize = 2
  AppEnd = 6
  FlashEnd = 8
  File <- MCFile
  ErasePolls = 1
  LinePolls = 2
  Resends = 1
  EndDevice = TRUE
  MaxFaults = 2
INVARIANTS FileInFlash BootloaderIntact NodeReturns
PROPERTY UploadEnds
CHECK_DEADLOCK FALSE
