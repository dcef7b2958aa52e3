\* Areas that begin on every alignment and reach over up to two boundaries.
SPECIFICATION Spec
CONSTANTS
  LastCell = 14
  Fill = Fill
INVARIANTS
  TypeOK
  OnlyDestWritten
  Delivered
