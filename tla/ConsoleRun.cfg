CONSTANTS
  VGA_WIDTH = 2
  VGA_HEIGHT = 3
  SIZE_T = 8
  Ink <- MCRunInk
  EDITOR_BUFFER_SIZE = 3
  KEYS <- MCRunKeys
  ExitText <- MCExitText
SPECIFICATION ConsoleSpec
INVARIANT
  RunRunsText
CHECK_DEADLOCK FALSE
