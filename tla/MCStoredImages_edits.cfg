SPECIFICATION Spec
CONSTANTS
  Profile = Profile
  Products = {p1}
  Requests = {r1, r2, r3}
  Amounts = {a1, a2}
  FailingAudits = {"setup", "config", "update"}
  None = None
SYMMETRY Symmetry
INVARIANTS
  NoDanglingImages
  LeftoversAreExplained
  AmountsAreAudited
  ScreensShowRows
CHECK_DEADLOCK FALSE
