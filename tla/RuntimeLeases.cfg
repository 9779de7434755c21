SPECIFICATION Spec
CONSTANTS
  Scalar = Scalar
  Moved = Moved
  Hole = Hole
  Absent = Absent
  param1 = param1
  param2 = param2
  slot1 = slot1
  load1 = load1
  temp1 = temp1
  temp2 = temp2
  obs1 = obs1
  obs2 = obs2
  LoadOrigin <- MCLoadOrigin
  ParamList <- MCOneParam
  Slots = {}
  Loads = {}
  Temps = {temp1}
  Observations = {obs1, obs2}
  Verified = TRUE
  WellTyped = TRUE
  Constants = {Scalar}
  Paths <- MCPaths
  MAX_CALL_DEPTH = 2
  MaxResources = 2
  MaxGeneration = 1
  MaxLeases = 2
  MaxLeaves = 1
CHECK_DEADLOCK FALSE
INVARIANTS LeaseDiscipline
PROPERTIES LeaseBlocksEveryOperation TerminatedIsFinal FailureUnwinds
