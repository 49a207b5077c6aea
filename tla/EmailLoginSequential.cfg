\* One request at a time, any of which may fail half way.
SPECIFICATION Spec
CONSTANTS
  w1 = w1
  w2 = w2
  Workers <- OneWorker
  MaxAttempts = 2
  Ttl = 2
  Faults = {"crash", "outage", "conflict"}
  MaxIssues = 3
  MaxVerifies = 4
  Horizon = 3
INVARIANTS TypeOK SingleUse
PROPERTIES ImplementsOneTimeCode
