SPECIFICATION FairSpec
CONSTANTS
  Requests = {r1, r2}
  Seconds = 3
  Failures = {"vacuum", "stat", "record", "remove", "recordFailed", "audit"}
INVARIANTS
  SuccessesAreRestorable
  NoStrayFiles
  OutcomesAreRecorded
PROPERTIES
  EveryRequestEnds
CHECK_DEADLOCK FALSE
