CONSTANTS
  Interval = 4
  SlowInterval = 7
  SizeInterval = 10
  Budget = 6
  Pause = 1
  MaxRead = 2
  MaxOther = 1
  MaxLate = 1
  MaxDown = 2
  MaxRestarts = 2
SPECIFICATION FairSpec
INVARIANTS SchedulerInv SourceTimeBounded
PROPERTIES KeepsSlowCadence KeepsSizeCadence CollectsOnce MissedPassesAreMadeUp
