SPECIFICATION ClusterSpec
CONSTANTS
  a = a
  b = b
  c1 = c1
  c2 = c2
  Servers = {a, b}
  NoServer = noserver
  Clients = {c1, c2, old}
  NoClient = noclient
  OldClients = {old}
  Candidates <- CandidatesAB
  MaxRedirects = 2
  MaxFaults = 1
  MaxCrashes = 1
  MaxInbox = 2
SYMMETRY ClientSymmetry
CHECK_DEADLOCK FALSE
INVARIANTS
  SingleHome
  ConnectedIsFindable
  HomeIsHere
