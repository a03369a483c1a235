CONSTANTS
  BootTicks = 3
  StopTicks = 2
  HaltTicks = 1
  Readings <- MCReadings
  SleepTicks = 3
  GapTicks = 3
SPECIFICATION Spec
INVARIANTS TypeOK NoHardCut DarkWhenDead
PROPERTY ComesUp
