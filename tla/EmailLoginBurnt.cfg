\* One request, with a Firebase outage after the code is spent.
SPECIFICATION Spec
CONSTANTS
  w1 = w1
  w2 = w2
  Workers <- OneWorker
  MaxAttempts = 1
  Ttl = 1
  Faults = {"outage"}
  MaxIssues = 1
  MaxVerifies = 1
  Horizon = 1
INVARIANTS SpentCodeYieldsToken
