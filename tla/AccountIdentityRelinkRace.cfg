\* Two relinks of the same row at once.
SPECIFICATION Spec
CONSTANTS
  w1 = w1
  w2 = w2
  i1 = i1
  i2 = i2
  i3 = i3
  u1 = u1
  u2 = u2
  u3 = u3
  e1 = e1
  e2 = e2
  None = None
  Workers <- MCWorkers
  Ids <- MCIds
  Uids <- MCUids
  Emails <- MCEmails
  Tokens <- StableTokens
  MaxRequests = 3
  MaxDeletes = 0
PROPERTIES RelinkResolves
