SPECIFICATION PowerSpec
CONSTANTS
  Period = 16
  BootTime = 25
  PollTime = 4
  SettleLoops = 2
  ActionCount = 1
  Intervals = {0, 2}
  WakeTime = 1
  MaxEvents = 4
INVARIANTS ListensWhenAwake SpeaksToAwake
PROPERTY KeepsCycling
