\* Two verifies of the same right code.
SPECIFICATION Spec
CONSTANTS
  w1 = w1
  w2 = w2
  Workers <- TwoWorkers
  MaxAttempts = 1
  Ttl = 1
  Faults = {}
  MaxIssues = 1
  MaxVerifies = 2
  Horizon = 1
INVARIANTS SingleUse
