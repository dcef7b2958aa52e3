\* One terminal, one program above its shell, started and halted in a loop.
SPECIFICATION Spec
CONSTANTS
  MAX_TASKS = 2
  TERMINAL_COUNT = 1
  Shell = "shell"
  Programs = {"shell", "fish"}
  TextFiles = {}
  MissingNames = {}
  Fds = {}
  Garbage = 0
  MaxDepth = 27
CHECK_DEADLOCK FALSE
INVARIANT KernelStackInBounds
