CONSTANTS
  Users = {u1}
  NoUser = NoUser
  Tabs = {t1, t2}
  WalkOrder <- Walk
  AuthPages = {"app"}
  RoutePage = "app"
  NoPage = "none"
  MaxSteps = 2
SPECIFICATION Spec
INVARIANTS TypeOK AutoStartOnce HandedOver
SYMMETRY Symmetry
CHECK_DEADLOCK FALSE
