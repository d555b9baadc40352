CONSTANTS
  points = points
  light = light
  a = a
  b = b
  c = c
  Services <- TwoServices
  Values <- ThreeValues
  Defaults <- TwoDefaults
  Resetting <- LightOnly
  MaxOpen = 2
  MaxFailures = 1
SPECIFICATION Spec
INVARIANTS TypeOK MemorySaved Durable ResetForgets
