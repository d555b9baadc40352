CONSTANTS
  Timings <- TwoTimings
  MAX_AUTOSTART = 2
  SlotsPerDay = 2
  SlotTicks = 3
  RUN_DELAY = 1
  MaxLag = 1
SPECIFICATION FairSpec
PROPERTIES NoTimingMissed AutoStartTold
