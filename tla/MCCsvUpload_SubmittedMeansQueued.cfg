SPECIFICATION Spec
CONSTANTS
  Uploads = {u1}
  Rows <- MCPlainRows
  MaxRows = 2
  Slice = 1
  Stride = 2
  Price = 1
  Credits = 2
  Elsewhere = 1
CHECK_DEADLOCK FALSE
INVARIANT SubmittedMeansQueued
