SPECIFICATION FairKeySpec
CONSTANTS
  Requests = {r1, r2, r3}
  Keys = {k1}
  Bodies = {b1, b2}
  MaxPolls = 2
  Faults = {"fetch", "afterCommit", "store", "release"}
  Null = Null
INVARIANTS
  TwiceOnlyAfterFailure
  AnswersAreTrue
PROPERTIES
  EveryRequestEnds
  MarkersResolve
CHECK_DEADLOCK FALSE
