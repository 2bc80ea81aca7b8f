SPECIFICATION FairSpec
CONSTANTS
  Trackers <- AllTrackers
  Dates = {1, 2}
  MaxRows = 1
  SaveToDb = TRUE
INVARIANTS
  TheAnswerAddsUp
  VendorErrorIsReported
PROPERTIES
  HangsOnlyOnAnswers
CHECK_DEADLOCK FALSE
