SPECIFICATION MCSpec
CONSTANTS
  Handlers = {1, 2, 3}
  Streams = {c1}
  FailingAudits = {"create", "accept"}
  Categories = {starters, desserts}
  Products = {p1}
  Prices = {low, high}
  Tables = {t1, t2}
  Codes = {1, 2, 3, 4}
  Guests = {g1}
  Editors = {1, 2}
  Nothing = Nothing
INVARIANTS
  NothingSlipsThrough
  MenusKeepTheirWord
  CodesAreAccountedFor
PROPERTIES
  FinalStatusReachesScreens
CHECK_DEADLOCK FALSE
