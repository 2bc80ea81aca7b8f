SPECIFICATION Spec
CONSTANTS
  Uploads = {u1}
  Rows <- MCRows
  MaxRows = 4
  Slice = 2
  Stride = 3
  Price = 1
  Credits = 4
  Elsewhere = 1
INVARIANTS
  BatchIsWhole
  NoAddressTwice
  SmallFilesAreComplete
CHECK_DEADLOCK FALSE
