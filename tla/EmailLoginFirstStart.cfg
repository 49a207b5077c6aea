\* The first two starts of an address at once.
SPECIFICATION Spec
CONSTANTS
  w1 = w1
  w2 = w2
  Workers <- TwoWorkers
  MaxAttempts = 1
  Ttl = 1
  Faults = {}
  MaxIssues = 2
  MaxVerifies = 0
  Horizon = 1
PROPERTIES StartAlwaysSends
