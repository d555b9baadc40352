CONSTANTS
  Networks <- TwoNetworks
  NoNet = NoNet
  MaxPosts = 1
  MaxChanges = 1
SPECIFICATION FairSpec
INVARIANT ClockFollows
PROPERTIES Reachable Reconnects
CHECK_DEADLOCK FALSE
