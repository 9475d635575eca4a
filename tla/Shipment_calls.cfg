CONSTANTS
  d1 = d1
  d2 = d2
  q1 = q1
  q2 = q2
  r1 = r1
  Deciders = {d1, d2}
  Requests = {q1, q2}
  Runners = {r1}
  MaxQueued = 1
  MaxParcels = 3
  MaxFaults = 1
SYMMETRY Symmetry
SPECIFICATION Spec
INVARIANTS TypeOK ParcelNeedsConfirmation ParcelsAccounted NoFailureStranded
PROPERTIES DecisionIsFinal 
