SPECIFICATION MCSpec
CONSTANTS
  Orders = {o1, o2}
  Products = {p1, p2}
  Employees = {e1, e2}
  Price = 3
  TaxRates = {0, 1900}
  HoursPerDay = 2
  LastDay = 1
  None = None
  OnShift = {e1}
  Staff = {e1}
SYMMETRY Symmetry
INVARIANTS
  ReportsMatchFacts
  ChartsAddUp
  KpisAgree
  TimesAreWhole
CHECK_DEADLOCK FALSE
