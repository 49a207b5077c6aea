\* MaxChanges is 2: a user, a sign-out or another user, and a third, while requests of
\* each are on their way.
CONSTANTS
  Users = {u1, u2}
  NoUser = NoUser
  MaxChanges = 2
  Fields = {f1, f2}
  Versions = {v1, v2}
  Current = v2
  NoVersion = NoVersion
  DefaultCooldown = 2
  OutageCooldown = 1
  RetryAfters = {0, 1}
  MaxResends = 2
  ProfileFields = {f1, f2}
  Clearable = {f1}
  Typed = Typed
  Blank = Blank
  MaxEdits = 2
  MaxUploads = 2
  Accounts = {a1, a2}
  NoAccount = NoAccount
  Admins = {u1}
  MaxCalls = 2
SPECIFICATION Spec
INVARIANTS TypeOK GatesHonest ScrollFree ResendUsable OnlyOwnEdits AvatarOwn EditorHonest
PROPERTIES LoadingEnds
CHECK_DEADLOCK FALSE
