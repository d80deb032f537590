SPECIFICATION Spec
CONSTANTS
  Tables = {t1}
  Groups = {g1, g2}
  Orders = {o1, o2, o3}
  Shifts = {}
  Employees = {e1}
  Roles = {"manager", "waiter"}
  Requests = {q1, q2}
  Subtotals = {10}
  TaxRates = {0}
  Floats = {0}
  None = None
SYMMETRY Symmetry
INVARIANTS
  OneOpenVisitPerTable
  LiveOrdersAreInOpenVisits
  ClosedByOnePayment
  StatusEventsChain
PROPERTIES
  LifecycleRespected
