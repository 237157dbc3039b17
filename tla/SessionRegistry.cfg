SPECIFICATION Spec
CONSTANTS
  Tokens = {t1, t2}
  Users = {u1}
  NoUser = none
  Timeouts = {1}
  DefaultTimeout = 1
  MaxAge = 1
  MaxId = 3
  MaxOps = 2
  MaxRestarts = 2
  MaxFailures = 1
INVARIANTS
  TypeOK
  TokenIndexExact
  RowsUniquePerToken
  DrainedStoreMirrorsMemory
  NextIdFresh
SYMMETRY TokenSymmetry
CHECK_DEADLOCK FALSE
