SPECIFICATION LivenessSpec
CONSTANTS
  Tokens = {t1, t2}
  Users = {u1}
  NoUser = nouser
  Timeouts = {1, 2}
  DefaultTimeout = 2
  MaxAge = 2
  MaxId = 2
  MaxOps = 1
  MaxRestarts = 1
  Conns = {c1, c2}
  NoConn = noconn

  Tiles = {left, right}
  Colors = {black, white}
  Black = black
  MaxConns = 2
  MaxDraws = 2

  Servers = {a, b, d}
  NoServer = noserver
  Client = client
  NoClient = noclient
  MaxRedirects = 2
  MaxCrashes = 1
  MaxInbox = 2

  Token = token
  Unknown = unknown
  NoSession = nosession
  MaxSessions = 3
  MaxProcs = 4

  AppTexts = {x}
  UserTexts = {u, v}
  Empty = empty
  Long = u
  Cut = cut
  Terminals = {t}
  NoTerminal = noterminal
  MaxCopies = 3

  Admins = {w1, w2, w3}
  MaxRequests = 3
  MaxChanges = 1
PROPERTIES
  SuspendedIsReclaimed
  AbandonedIsSuspended
  CatchesUp
  Reconnects
  LogoutTakesEffect
  LocalCopyArrives
  AdminAnswered
CHECK_DEADLOCK FALSE
