CONSTANTS
  WINDOW_SIZE = 3
  Returned <- EdgeDistances
  SilenceTicks = 2
  measurementInterval = 3
SPECIFICATION LevelSpec
INVARIANTS MovingMean LevelOrFault
PROPERTIES MovesLittle
