SPECIFICATION ClaimSpec
CONSTANTS
  Tokens = {t1}
  Users = {u1}
  NoUser = none
  Timeouts = {1}
  DefaultTimeout = 1
  MaxAge = 1
  MaxId = 2
  MaxOps = 2
  MaxRestarts = 1
  MaxFailures = 0
PROPERTY
  ShutdownLosesNothing
CHECK_DEADLOCK FALSE
