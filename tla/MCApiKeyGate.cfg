SPECIFICATION Spec
CONSTANTS
  Keys = {k1, k2}
  Calls = {c1, c2}
  Uses <- EveryView
  Credits = 1
  Cost = 1
  Rate = 1
  MaxEvents = 1
  None = None
INVARIANTS
  UnpaidOnlyWhenDisturbed
PROPERTIES
  QueryKeysAreLimitedAlone
CHECK_DEADLOCK FALSE
