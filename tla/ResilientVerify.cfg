\* Two servlet threads, one pool thread and one place in the queue: a timed-out
\* call holds the thread, a cancelled one the queue, and the next is rejected.
\* No bound on the requests: the state is finite.
SPECIFICATION FairSpec
CONSTANTS
  Workers = {w1, w2}
  PoolSize = 1
  QueueCapacity = 1
  MaxAttempts = 2
  WindowSize = 3
  MinCalls = 2
  HalfOpenCalls = 2
  Dead = Dead
  Faults <- NoKeyFault
INVARIANTS TypeOK ProbesBounded OutageNever401
PROPERTIES OpenedByFaults Answered
