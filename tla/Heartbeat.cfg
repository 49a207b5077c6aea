\* Touches from two instances, saves of the whole row, restarts and failed commits.
SPECIFICATION Spec
CONSTANTS
  i1 = i1
  i2 = i2
  w1 = w1
  w2 = w2
  w3 = w3
  Nobody = Nobody
  Instances <- MCInstances
  Workers <- MCWorkers
  Host <- MCHost
  Never <- MCNever
  Throttle = 2
  Faults = {"restart", "rollback"}
  MaxTouches = 3
  MaxSaves = 1
  Horizon = 6
SYMMETRY Symmetry
INVARIANTS TypeOK OneWritePerWindow
PROPERTIES TouchLeavesFresh HeartbeatAdvances
