CONSTANTS
  VGA_WIDTH = 1
  VGA_HEIGHT = 1
  SIZE_T = 4
  Ink <- MCWordInk
  CMD_SIZE = 6
  MAX_ARGS = 2
  KEYS <- MCWordKeys
  LAYOUT_RANGE = {"US"}
  JUNK = "JUNK"
  Banner <- MCBanner
  Prompt <- MCPrompt
  Replies <- MCReplies
  Spelling <- MCWordSpelling
SPECIFICATION LineSpec
INVARIANTS
  LineTypeOK
  ArgsAreWords
  SplitStaysInLine
PROPERTIES
  LineIsAnswered
CHECK_DEADLOCK FALSE
