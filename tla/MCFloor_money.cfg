SPECIFICATION Spec
CONSTANTS
  Tables = {t1}
  Groups = {g1, g2}
  Orders = {o1, o2}
  Shifts = {s1, s2, s3}
  Employees = {e1, e2}
  Roles = {"owner"}
  Requests = {q1}
  Subtotals = {3, 8}
  TaxRates = {0, 1900}
  Floats = {20}
  None = None
SYMMETRY Symmetry
INVARIANTS
  RollupReconciles
  ShiftsReconcile
PROPERTIES
  QuotedIsCharged
