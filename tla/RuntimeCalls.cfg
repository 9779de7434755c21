SPECIFICATION Spec
CONSTANTS
  Scalar = Scalar
  Moved = Moved
  Hole = Hole
  Absent = Absent
  param1 = param1
  param2 = param2
  slot1 = slot1
  load1 = load1
  temp1 = temp1
  temp2 = temp2
  obs1 = obs1
  obs2 = obs2
  LoadOrigin <- MCLoadOrigin
  ParamList <- MCTwoParams
  Slots = {slot1}
  Loads = {}
  Temps = {temp1}
  Observations = {}
  Verified = TRUE
  WellTyped = TRUE
  Constants = {}
  Paths <- MCNoPaths
  MAX_CALL_DEPTH = 2
  MaxResources = 1
  MaxGeneration = 1
  MaxLeases = 1
  MaxLeaves = 1
SYMMETRY Symmetry
CHECK_DEADLOCK FALSE
INVARIANTS ExactlyOneOwner ObservedStaysLive
