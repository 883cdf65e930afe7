CONSTANTS
  VGA_WIDTH = 2
  VGA_HEIGHT = 3
  SIZE_T = 8
  Ink <- MCInk
  EDITOR_BUFFER_SIZE = 3
  KEYS <- MCKeys
  ExitText <- MCExitText
SPECIFICATION ConsoleSpec
INVARIANTS
  ConsoleTypeOK
  CtrlOnlyInEditor
  NothingBehindText
  EditorCanExit
  ScreenShowsText
CHECK_DEADLOCK FALSE
