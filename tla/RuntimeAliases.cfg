SPECIFICATION Spec
CONSTANTS
  Scalar = Scalar
  Moved = Moved
  Hole = Hole
  Absent = Absent
  param1 = param1
  param2 = param2
  slot1 = slot1
  load1 = load1
  temp1 = temp1
  temp2 = temp2
  obs1 = obs1
  obs2 = obs2
  LoadOrigin <- MCLoadOrigin
  ParamList <- MCNoParams
  Slots = {slot1}
  Loads = {load1}
  Temps = {temp1}
  Observations = {obs1}
  Verified = FALSE
  WellTyped = FALSE
  Constants = {Scalar}
  Paths <- MCPaths
  MAX_CALL_DEPTH = 1
  MaxResources = 2
  MaxGeneration = 1
  MaxLeases = 1
  MaxLeaves = 1
SYMMETRY Symmetry
CHECK_DEADLOCK FALSE
INVARIANTS SoleOwner
PROPERTIES LeaseFreeze
