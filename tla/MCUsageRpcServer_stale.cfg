SPECIFICATION FairSpec
CONSTANTS
  Requests = {r1}
  Malformed = {}
  Prefetch = 2
  Tries = 2
  MaxRetries = 3
  MaxOutages = 1
  None = None
CHECK_DEADLOCK FALSE
PROPERTY StaleGetsClosed
