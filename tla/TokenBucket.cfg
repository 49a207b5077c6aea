\* Burst of 2, two tokens per seven ticks, two ticks a second: the ratio is
\* not whole, so fractions of a token and the rounding of Retry-After both occur.
SPECIFICATION Spec
CONSTANTS
  t1 = t1
  t2 = t2
  Threads <- MCThreads
  Capacity = 2
  RefillTokens = 2
  RefillPeriod = 7
  TicksPerSecond = 2
  Horizon = 8
INVARIANTS TypeOK WindowBound
PROPERTIES RetryAfterHonest
