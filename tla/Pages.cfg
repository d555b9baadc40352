CONSTANTS
  NoData = NoData
  MaxEdits = 2
  MaxVisits = 1
  MaxFaults = 1
  MAX_AUTOSTART = 2
  Colors = 2
  Positions <- ThreePositions
  NUM_POLLS = 3
  Chunks = 3
  MaxUploads = 3
  MaxPolls = 1
SPECIFICATION FairSpec
INVARIANTS TypeOK Repairable ShownIsStored OneRequest RowsSent FreshList UpdateHasOwner
PROPERTIES KeepsSettings Settles
CHECK_DEADLOCK FALSE
