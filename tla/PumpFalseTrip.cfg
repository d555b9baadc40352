CONSTANTS
  Readings <- JustHigh
  Tank = 4
  FaultLevel = 5
  Points <- LowPoint
  Commands <- AllCommands
  Timers = FALSE
  FULL_TANK_TIME = 2
  MinRun = 1
  Second = 1
  MillisMod = 8
  MaxLag = 1
SPECIFICATION Spec
PROPERTY TripJustified
