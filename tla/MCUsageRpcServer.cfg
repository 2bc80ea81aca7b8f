SPECIFICATION FairSpec
CONSTANTS
  Requests = {r1, r2, bad}
  Malformed = {bad}
  Prefetch = 2
  Tries = 3
  MaxRetries = 3
  MaxOutages = 1
  None = None
INVARIANTS
  NothingLost
  DuplicatesNeedFailures
PROPERTIES
  CallsAreAnswered
CHECK_DEADLOCK FALSE
