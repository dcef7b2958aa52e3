\* Three terminals and two programs above the base shells.
SPECIFICATION Spec
CONSTANTS
  MAX_TASKS = 5
  TERMINAL_COUNT = 3
  Shell = "shell"
  Programs = {"shell"}
  TextFiles = {"frame0.txt"}
  MissingNames = {}
  Fds = {}
  Garbage = 0
  MaxDepth = 1
VIEW LiveView
\* The machine stops when it has triple-faulted.
CHECK_DEADLOCK FALSE
INVARIANTS
  TypeOK
  
  
  
  
  
  NoStaleVideoMap
PROPERTIES
  
  SpawnInOwnTerminal
  
