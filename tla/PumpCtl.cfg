CONSTANTS
  Readings <- LowMidHigh
  Tank = 4
  FaultLevel = 5
  Points <- LowPoint
  Commands <- NoCommands
  Timers = FALSE
  FULL_TANK_TIME = 3
  MinRun = 1
  Second = 2
  MillisMod = 12
  MaxLag = 2
SPECIFICATION FairSpec
INVARIANTS TypeOK RunBound
PROPERTIES TripJustified KeepsPromise
