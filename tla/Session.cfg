CONSTANTS
  Names <- TwoNames
  NoOne = NoOne
  NoToken = NoToken
  NoData = NoData
  MaxEdits = 1
  MaxSignIns = 2
  MaxRequests = 1
  MaxFaults = 1
  MaxReloads = 1
  MaxOthers = 1
SPECIFICATION FairSpec
INVARIANTS TypeOK AlwaysAnAdmin
CHECK_DEADLOCK FALSE
PROPERTIES ComesToRest SignInReady RevokedLeaves
