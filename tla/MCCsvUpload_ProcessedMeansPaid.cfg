SPECIFICATION Spec
CONSTANTS
  Uploads = {u1, u2}
  Rows <- MCPlainRows
  MaxRows = 2
  Slice = 2
  Stride = 4
  Price = 1
  Credits = 2
  Elsewhere = 1
CHECK_DEADLOCK FALSE
INVARIANT ProcessedMeansPaid
