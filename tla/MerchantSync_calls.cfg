CONSTANTS
  p1 = p1
  p2 = p2
  o1 = o1
  o2 = o2
  Processes = {p1, p2}
  Origins = {o1, o2}
  MaxAsks = 3
  MaxFaults = 1
SYMMETRY Symmetry
CONSTRAINT Few
SPECIFICATION Spec
INVARIANTS TypeOK SyncedIsFetched CancelHasCause StopIsHeld RunningRowHasRun
PROPERTIES EndAccounts ProgressKept
CHECK_DEADLOCK FALSE
