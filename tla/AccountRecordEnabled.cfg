\* Two administrators flip the switch at once.
SPECIFICATION Spec
CONSTANTS
  w1 = w1
  w2 = w2
  Workers <- MCWorkers
  ProfileFields <- MCFields
  Values <- MCValues
  Defaults <- MCDefaults
  Requests <- OnlyEnabled
  MaxRequests = 3
SYMMETRY Symmetry
INVARIANTS EnabledStory
