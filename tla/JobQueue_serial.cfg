CONSTANTS
  j1 = j1
  j2 = j2
  w1 = w1
  w2 = w2
  Jobs = {j1, j2}
  Workers = {w1}
  NoJob = NoJob
  Rank <- MCRank
  StuckTimeout = 1
  StuckMaxAttempts = 3
  RetryLimit = 3
  RetryDelayBase = 2
  RetryDelayMax = 3
  Limit = 2
  MaxFaults = 2
SPECIFICATION Spec
INVARIANT AttemptsExact
PROPERTIES SettledIsFinal RecoveryTouchesOnlyStuck BackoffRespected
