SPECIFICATION WindowsSpec
CONSTANTS
  Windows = {1, 2}
  NoWindow = 0
  m1 = m1
  m2 = m2
  Wms = {m1, m2}
  NoWm = nowm
  NoMode = none
  Modes = {none}
  MaxPending = 1

  Tiles = {1, 2, 3}
  Output <- SmallOutput
  DefaultSize <- HalfOutput
  MaxFrames = 1

  Widths = {160, 321, 322, 323, 640, 1279, 1280}
  Heights = {120, 241, 242, 243, 719, 720}
  MaxWindows = 24
SYMMETRY WindowsSymmetry
INVARIANTS
  FocusStackExact
  NoGhosts
  ObjectsOfCurrent
  OpeningRetiles
  LayoutTiles
CHECK_DEADLOCK FALSE
