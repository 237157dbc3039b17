SPECIFICATION FrameSpec
CONSTANTS
  Tiles = {left, right}
  Colors = {black, white}
  Black = black
  KeyframeInterval = 2
  Parts = 2
  Window = 3
  MaxConns = 2
  MaxDraws = 3
  MaxInput = 1
INVARIANTS
  FrameTypeOK
  FirstIsKeyframe
  NoDrift
CHECK_DEADLOCK FALSE
