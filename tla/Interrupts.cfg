\* A clock of four interrupts a second; the other word zero is the worst one.
SPECIFICATION FairSpec
CONSTANTS
  Rate = 4
  Frequencies = {2, 4}
  OtherWords = {0, 4}
  TERMINAL_COUNT = 2
INVARIANTS
  TypeOK
  InServiceIsHandled
PROPERTIES
  ReadWaits
  ReadEnds
  KeysServed
