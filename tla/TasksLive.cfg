\* Two terminals and one program above the base shells, with descriptors.
SPECIFICATION FairSpec
CONSTANTS
  MAX_TASKS = 3
  TERMINAL_COUNT = 2
  Shell = "shell"
  Programs = {"shell", "fish"}
  TextFiles = {}
  MissingNames = {"nosuch"}
  Fds = {2}
  Garbage = 0
  MaxDepth = 1
\* The machine stops when it has triple-faulted.
CHECK_DEADLOCK FALSE
PROPERTIES
  
  BootEndsOnFirstTerminal
  DescriptorIsolation
