\* Two programs above the base shells of three terminals.
SPECIFICATION Spec
CONSTANTS
  MAX_TASKS = 5
  TERMINAL_COUNT = 3
  Shell = "shell"
  Programs = {"shell", "fish"}
  TextFiles = {}
  MissingNames = {}
  Fds = {}
  Garbage = 0
  MaxDepth = 1
CHECK_DEADLOCK FALSE
INVARIANT ExceptionStatus
