SPECIFICATION PartsSpec
CONSTANTS
  letter = letter
  tab = tab
  shift = shift
  alt = alt
  Keys = {letter, tab}
  Letters = {letter}
  Mods = {shift, alt}
  Shift = shift
  BuiltinMod <- AltTab
  Bindable <- AltLetter
  MaxQueue = 3
  MaxWire = 1
  MaxBreaks = 1

  AppTexts = {a, b}
  Images = {i}
  UserTexts = {u}
  Empty = empty
  Long = u
  Cut = cut
  Terminals = {t1, t2}
  NoTerminal = noterminal
  Capable = {t1}
  MaxCopies = 3
  MaxCuts = 2
  MaxInputs = 1
  MaxRefusals = 1

  Limits = {1, 2, 3, 4, 5, 6, 7, 8}
  MaxChars = 5

  Token = token
  Unknown = unknown
  NoSession = nosession
  MaxSessions = 4
  MaxProcs = 5
  MaxFaults = 2

  Servers = {s1, s2}
  Dirs = {s1, s2}
  cert_dir <- OwnDir
  Processes = {p1, p2}
  Configured = {s2}
  None = none
  MaxCerts = 3
  MaxEphemeral = 1
  MaxCrashes = 1
  MaxFailures = 1

  Sizes = {0, 1, 4, 5, 7}
  MAX_MESSAGE_SIZE = 4
  PrefixWidth = 8
  MaxMessages = 3

  Clients = {c1, c2, c3}
  NoClient = noclient
  MaxRequests = 4
  MaxChanges = 2

  WindowIds = {w}
  Names = {1, 2}
  NoName = 0
  Tags = {g1, g2}
  FirstTag = g1
  NoTag = notag
  Outputs = {screen, other}
  NoOutput = nooutput
  DefaultOutput = screen

  Windows = {w1, w2, w3}
  MaxPending = 2
INVARIANTS
  NoStuckKeys
  ModifiersInStep
  NoEcho
  CutStaysText
  NoOrphans
  FingerprintStable
  PinEnforced
  MessagesIntact
  AnswerIsRecent
  ModesExclusive
PROPERTIES
  DestroyHidesNothing
  LastDirectiveWins
  OthersKeepOrder
CHECK_DEADLOCK FALSE
