CONSTANTS
  o1 = o1
  o2 = o2
  q1 = q1
  q2 = q2
  p1 = p1
  p2 = p2
  h1 = h1
  h2 = h2
  t1 = t1
  t2 = t2
  w1 = w1
  w2 = w2
  Orders = {o1, o2}
  Polls = {q1, q2}
  PollLimit = 1
  MaxWooFaults = 1
  Parcels = {p1, p2}
  NoParcel = NoParcel
  Handlers = {h1, h2}
  Syncs = {t1, t2}
  MaxChanges = 2
  MaxHookFaults = 1
  Trackings = {p1, p2}
  NoTracking = NoTracking
  Workers = {w1, w2}
  Overlap = 1
  MaxPerRun = 1
  MaxClock = 6
  MaxHistoryFaults = 1
SPECIFICATION Spec
INVARIANTS TypeOK TrackingArrives NotifiedIsFetched WindowCovers
PROPERTIES EveryDecisionReported
CHECK_DEADLOCK FALSE
