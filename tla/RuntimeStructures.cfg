SPECIFICATION Spec
CONSTANTS
  Scalar = Scalar
  Moved = Moved
  Hole = Hole
  Absent = Absent
  param1 = param1
  param2 = param2
  slot1 = slot1
  load1 = load1
  temp1 = temp1
  temp2 = temp2
  obs1 = obs1
  obs2 = obs2
  LoadOrigin <- MCLoadOrigin
  ParamList <- MCNoParams
  Slots = {}
  Loads = {}
  Temps = {temp1, temp2}
  Observations = {}
  Verified = TRUE
  WellTyped = TRUE
  Constants = {}
  Paths <- MCDeepPaths
  MAX_CALL_DEPTH = 1
  MaxResources = 3
  MaxGeneration = 2
  MaxLeases = 1
  MaxLeaves = 2
SYMMETRY Symmetry
CHECK_DEADLOCK FALSE
INVARIANTS TypeOK ExactlyOneOwner OwnershipAcyclic
