CONSTANTS
  Readings <- JustLow
  Tank = 4
  FaultLevel = 5
  Points <- LowPoint
  Commands <- AutoOnly
  Timers = TRUE
  FULL_TANK_TIME = 1
  MinRun = 1
  Second = 1
  MillisMod = 3
  MaxLag = 1
SPECIFICATION Spec
INVARIANT Agreement
