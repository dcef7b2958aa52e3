\* Two terminals, a screen of two by two, lines of up to two characters.
SPECIFICATION Spec
CONSTANTS
  TERMINAL_COUNT = 2
  KEYBOARD_MAX_BUFFER = 4
  NUM_COLS = 2
  NUM_ROWS = 2
  MaxOver = 100
  Glyphs = {"l", "x"}
  Newline = "newline"
  ReadSizes = {1, 4}
  Modifiers = {"alt", "F1", "F2"}
VIEW LineView
INVARIANTS
  TypeOK
  LoopStopsInBuffer
  LineInBuffer
  NoLostEnter
