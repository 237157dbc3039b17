SPECIFICATION HotDeskSpec
CONSTANTS
  Tokens = {t1, t2}
  Users = {u1}
  NoUser = none
  Timeouts = {1}
  DefaultTimeout = 1
  MaxAge = 1
  MaxId = 4
  MaxOps = 1
  MaxRestarts = 0
  MaxFailures = 0
  Conns = {c1, c2, c3, c4}
  NoConn = noconn
  Clustered = TRUE
  MaxInput = 2
SYMMETRY Symmetry
INVARIANTS
  HotDeskTypeOK
  ActiveIsBound
  RelayedIsBound
PROPERTY
  OneDesk
CHECK_DEADLOCK FALSE
