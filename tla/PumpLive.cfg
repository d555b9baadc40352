CONSTANTS
  Readings <- JustHigh
  Tank = 4
  FaultLevel = 5
  Points <- EmptyPoint
  Commands <- AllCommands
  Timers = FALSE
  FULL_TANK_TIME = 2
  MinRun = 1
  Second = 1
  MillisMod = 5
  MaxLag = 1
SPECIFICATION FairSpec
PROPERTIES FaultStops FullStops LowStarts
