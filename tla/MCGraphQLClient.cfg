SPECIFICATION FairSpec
CONSTANTS
  original_depth = 3
  original_limit = 100
  max_retries = 1
  Calls <- TwoSwapsAndOneInside
INVARIANTS
  TurnedAwayOnlyByARetry
  NothingFollowedIsLost
PROPERTIES
  EveryLookupEnds
CHECK_DEADLOCK FALSE
