CONSTANTS
  Base = 256
  Distances <- TankDistances
  MaxQueue = 2
  MaxLost = 1
  Cuts = TRUE
  Stack <- SomeStack
  WINDOW_SIZE = 1
  Returned <- AnyDistance
  SilenceTicks = 1
  measurementInterval = 1
SPECIFICATION FairSpec
PROPERTIES LevelsAreMeasured CutIsReported Recovers
