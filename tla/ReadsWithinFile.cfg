\* Blocks of three bytes, reads of up to three blocks, two descriptors.
SPECIFICATION Spec
CONSTANTS
  Block = 3
  MAX_FILECOUNT = 7
  MAX_FILENAME = 2
  LAST_FD = 3
  Directory <- SomeFiles
  MissingNames <- SomeMissing
  ReadLengths = {0, 1, 2, 3, 4, 6, 9}
  MaxPosition = 9
INVARIANT ReadsWithinFile
