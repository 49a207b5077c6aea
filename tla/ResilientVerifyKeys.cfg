\* The same, when the signing keys may be out of reach.
SPECIFICATION Spec
CONSTANTS
  Workers = {w1, w2}
  PoolSize = 1
  QueueCapacity = 1
  MaxAttempts = 2
  WindowSize = 3
  MinCalls = 2
  HalfOpenCalls = 2
  Dead = Dead
  Faults <- AnyFault
INVARIANTS OutageNever401
