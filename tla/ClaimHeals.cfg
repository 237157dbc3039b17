SPECIFICATION FrameFairSpec
CONSTANTS
  Tiles = {left, right}
  Colors = {black, white}
  Black = black
  KeyframeInterval = 2
  Parts = 1
  Window = 1
  MaxConns = 1
  MaxDraws = 2
  MaxInput = 1
PROPERTY
  StaleRegionHeals
CHECK_DEADLOCK FALSE
