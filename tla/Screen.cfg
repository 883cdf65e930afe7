CONSTANTS
  VGA_WIDTH = 3
  VGA_HEIGHT = 2
  SIZE_T = 16
  Ink = {" ", "a", "b"}
SPECIFICATION ScreenSpec
INVARIANTS
  CursorOnScreen
PROPERTY
  ImplementsRing
