SPECIFICATION Spec
CONSTANTS
  Tables = {t1}
  Groups = {g1, g2}
  Orders = {o1, o2}
  Shifts = {}
  Employees = {e1}
  Roles = {"manager"}
  Requests = {q1, q2, q3}
  Subtotals = {50}
  TaxRates = {0}
  Floats = {0}
  None = None
PROPERTIES
  AvailableOnlyFromCleaning
