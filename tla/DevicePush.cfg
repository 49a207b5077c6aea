CONSTANTS
  Users = {u1, u2}
  NoUser = NoUser
  Tokens = {t1, t2}
  NoToken = NoToken
  MaxChanges = 2
  MaxRequests = 2
SYMMETRY Symmetry
SPECIFICATION PushSpec
INVARIANTS PushTypeOK Listens
PROPERTIES RowsKept
CHECK_DEADLOCK FALSE
