CONSTANTS
  anna = anna
  Clients <- OneClient
  MaxQueue = 2
  MaxClicks = 2
  MaxChanges = 1
  MaxDrops = 1
SPECIFICATION FairSpec
INVARIANTS TypeOK LastClickCounts
PROPERTY Converges
