CONSTANTS
  VGA_WIDTH = 2
  VGA_HEIGHT = 2
  SIZE_T = 5
  Ink <- MCEchoInk
  CMD_SIZE = 3
  MAX_ARGS = 1
  KEYS <- MCEchoKeys
  LAYOUT_RANGE = {"US", "RU"}
  JUNK = "JUNK"
  Banner <- MCBanner
  Prompt <- MCEchoPrompt
  Replies <- MCReplies
  Spelling <- MCEchoSpelling
SPECIFICATION LineSpec
INVARIANTS
  EchoMatchesLine
PROPERTIES
  PromptKept
CHECK_DEADLOCK FALSE
