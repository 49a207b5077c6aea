\* Two transactions at a time on one row: every pair of operations, every interleaving.
SPECIFICATION Spec
CONSTANTS
  w1 = w1
  w2 = w2
  Workers <- MCWorkers
  ProfileFields <- MCFields
  Values <- MCValues
  Defaults <- MCDefaults
  Requests <- MCRequests
  MaxRequests = 4
SYMMETRY Symmetry
INVARIANTS TypeOK AuditChain
PROPERTIES NoLostUpdate DeletedKept
