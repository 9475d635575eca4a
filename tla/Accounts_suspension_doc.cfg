CONSTANTS
  c1 = c1
  c2 = c2
  m1 = m1
  m2 = m2
  p1 = p1
  p2 = p2
  r1 = r1
  r2 = r2
  SubCalls = {c1, c2}
  MaxCodes = 0
  MaxSubFaults = 0
  Grants = {c1, c2}
  Merchants = {m1, m2}
  Nobody = Nobody
  DefaultLimit = 1
  MaxLimit = 1
  MaxManual = 0
  MaxSlotFaults = 0
  Deliveries = {p1, p2}
  Runs = {r1, r2}
  MaxAttempts = 1
  StreakLimit = 3
  MaxMoment = 0
SYMMETRY Symmetry
SPECIFICATION Spec
INVARIANTS SuspendedForCredentials
