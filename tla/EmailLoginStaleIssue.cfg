\* A wrong guess at the old code while a new one is issued.
SPECIFICATION Spec
CONSTANTS
  w1 = w1
  w2 = w2
  Workers <- TwoWorkers
  MaxAttempts = 1
  Ttl = 1
  Faults = {}
  MaxIssues = 2
  MaxVerifies = 1
  Horizon = 1
INVARIANTS LatestWins
