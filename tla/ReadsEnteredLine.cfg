\* Two terminals, lines of up to two characters, full reads.
SPECIFICATION Spec
CONSTANTS
  TERMINAL_COUNT = 2
  KEYBOARD_MAX_BUFFER = 4
  NUM_COLS = 3
  NUM_ROWS = 2
  MaxOver = 2
  Glyphs = {"l"}
  Newline = "newline"
  ReadSizes = {4}
  Modifiers = {"alt", "F1", "F2"}
PROPERTY ReadsEnteredLine
