\* One user, one device, one token are enough: signed in, registered, signed out.
CONSTANTS
  Users = {u1}
  NoUser = NoUser
  Tokens = {t1}
  NoToken = NoToken
  MaxChanges = 2
  MaxRequests = 1
SPECIFICATION PushSpec
PROPERTIES SignOutDeregisters
CHECK_DEADLOCK FALSE
