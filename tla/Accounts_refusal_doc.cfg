CONSTANTS
  c1 = c1
  c2 = c2
  m1 = m1
  m2 = m2
  p1 = p1
  p2 = p2
  r1 = r1
  r2 = r2
  SubCalls = {c1, c2}
  MaxCodes = 2
  MaxSubFaults = 1
  Grants = {c1, c2}
  Merchants = {m1, m2}
  Nobody = Nobody
  DefaultLimit = 1
  MaxLimit = 1
  MaxManual = 2
  MaxSlotFaults = 1
  Deliveries = {p1, p2}
  Runs = {r1, r2}
  MaxAttempts = 2
  StreakLimit = 3
  MaxMoment = 3
SYMMETRY Symmetry
SPECIFICATION Spec
INVARIANTS RefusalIsTrue
