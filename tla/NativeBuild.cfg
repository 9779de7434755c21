SPECIFICATION Spec
CONSTANTS
  b1 = b1
  b2 = b2
  b3 = b3
  p1 = p1
  p2 = p2
  o1 = o1
  o2 = o2
  Nothing = Nothing
  Torn = Torn
  Old = Old
  Builds = {b1, b2, b3}
  Outputs = {o1, o2}
  Processes = {p1, p2}
  OutputOf <- MCOutputOf
  ProcessOf <- MCProcessOf
  Leftovers <- MCLeftovers
  MAX_SCRATCH_ATTEMPTS = 2
CHECK_DEADLOCK FALSE
INVARIANTS OwnScratch NoStrayScratch
PROPERTIES OutputIsAtomic EveryBuildEnds
