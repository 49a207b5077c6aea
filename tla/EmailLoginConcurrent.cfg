\* Two requests at once, none of which fails.
SPECIFICATION FairSpec
CONSTANTS
  w1 = w1
  w2 = w2
  Workers <- TwoWorkers
  MaxAttempts = 2
  Ttl = 1
  Faults = {}
  MaxIssues = 2
  MaxVerifies = 3
  Horizon = 2
INVARIANTS ExpiryKept SpentCodeYieldsToken
PROPERTIES SpentLeadsToToken
