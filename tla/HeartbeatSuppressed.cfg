\* A save sets the heartbeat back and the map suppresses the next touch.
SPECIFICATION Spec
CONSTANTS
  i1 = i1
  i2 = i2
  w1 = w1
  w2 = w2
  w3 = w3
  Nobody = Nobody
  Instances <- MCInstances
  Workers <- MCWorkers
  Host <- MCHost
  Never <- MCNever
  Throttle = 2
  Faults = {}
  MaxTouches = 2
  MaxSaves = 1
  Horizon = 4
PROPERTIES NextRequestRestamps
