SPECIFICATION FrameSpec
CONSTANTS
  Tiles = {left, right}
  Colors = {black, white}
  Black = black
  KeyframeInterval = 2
  Parts = 2
  Window = 2
  MaxConns = 1
  MaxDraws = 1
  MaxInput = 1
INVARIANT
  ReadsInStep
CHECK_DEADLOCK FALSE
