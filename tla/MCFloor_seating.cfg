SPECIFICATION SerialSpec
CONSTANTS
  Tables = {t1, t2}
  Groups = {g1, g2}
  Orders = {o1, o2}
  Shifts = {}
  Employees = {e1}
  Roles = {"manager"}
  Requests = {q1, q2}
  Subtotals = {0, 10}
  TaxRates = {0}
  Floats = {0}
  None = None
SYMMETRY Symmetry
INVARIANTS
  OccupiedIffVisited
  OpenVisitsGoOn
PROPERTIES
  ImplementsGuestVisit
