\* Buffers of three bytes, blocks of four, files of up to six.
SPECIFICATION Spec
CONSTANTS
  BUFSIZE = 3
  Block = 4
  MAX_FILECOUNT = 8
  LAST_FD = 4
  OTHER_FD = 3
  MAX_FILENAME = 2
  TASKNAME_SIZE = 3
  ARGUMENT_SIZE = 3
  Directory <- SomeFiles
  MissingNames <- SomeMissing
  Executables <- SomeExecutables
  ReadLengths = {0, 1, 2, 4, 5, 8}
  MaxPosition = 10
  Chars = {"a", "b", " ", "nl"}
  frame0 <- longframe
  frame1 <- shortframe
  NL = "nl"
  NUL = "NUL"
  SPACE = " "
  Junk <- SomeJunk
  Lines <- SomeLines
  exit <- quit
  OnStack = {4}
  Texts <- SomeTexts
  Sizes = {0, 1, 2, 3, 4}
INVARIANTS
  TypeOK
  DescriptorsMatch
  OpensNamed
  FitsBuffer
  NothingSkipped
  DirectorySeen
  StopsAtEnd
  MatchesPrinted
  NothingElsePrinted
  
  ArgumentGiven
  CatShowsFile
  ListsDirectory
  DrawingsBlink
PROPERTY
  Ends
