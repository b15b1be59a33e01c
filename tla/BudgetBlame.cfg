CONSTANTS
  Interval = 3
  SlowInterval = 3
  SizeInterval = 5
  Budget = 2
  Pause = 1
  MaxRead = 2
  MaxOther = 0
  MaxLate = 0
  MaxDown = 0
  MaxRestarts = 0
SPECIFICATION Spec
INVARIANT SkippedForFastWork
