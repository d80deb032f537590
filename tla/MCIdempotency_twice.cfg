SPECIFICATION KeySpec
CONSTANTS
  Requests = {r1, r2, r3}
  Keys = {k1}
  Bodies = {b1, b2}
  MaxPolls = 2
  Faults = {"afterCommit"}
  Null = Null
INVARIANTS
  AtMostOnce
CHECK_DEADLOCK FALSE
