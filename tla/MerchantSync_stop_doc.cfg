CONSTANTS
  p1 = p1
  p2 = p2
  o1 = o1
  o2 = o2
  Processes = {p1}
  Origins = {o1, o2}
  MaxAsks = 3
  MaxFaults = 0
SPECIFICATION Spec
PROPERTIES StopIsKept
CHECK_DEADLOCK FALSE
