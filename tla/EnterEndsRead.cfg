\* One terminal, lines of up to two characters, full reads.
SPECIFICATION FairSpec
CONSTANTS
  TERMINAL_COUNT = 1
  KEYBOARD_MAX_BUFFER = 4
  NUM_COLS = 3
  NUM_ROWS = 1
  MaxOver = 2
  Glyphs = {"l"}
  Newline = "newline"
  ReadSizes = {4}
  Modifiers = {}
\* Nothing is printed past the bound on the position.
CHECK_DEADLOCK FALSE
PROPERTY EnterEndsRead
