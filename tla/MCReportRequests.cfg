SPECIFICATION FairSpec
CONSTANTS
  Requests = {r1}
  MaxPolls = 2
  MaxEdits = 3
INVARIANTS
  ApiPaysOnlyForReleased
  KytVerdictIsRecorded
  AnswersAreTrue
PROPERTIES
  ReopensOnlyByStaleEdit
  KeepsThePromise
  PollingEnds
CHECK_DEADLOCK FALSE
