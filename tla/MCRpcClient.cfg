SPECIFICATION FairSpec
CONSTANTS
  Objects = {o1, o2}
  MaxCrashes = 2
  None = None
INVARIANTS
  RepeatsNeedCrashes
PROPERTIES
  HangsOnlyForLostRequests
CHECK_DEADLOCK FALSE
