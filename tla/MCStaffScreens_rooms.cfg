SPECIFICATION MCSpec
CONSTANTS
  Employees = {"ann", "bob"}
  Sockets = {1, 2, 3}
  Nobody = Nobody
  RoleOf <- MCRoleOf
  Events = {"c1", "c2", "c3", "r1", "i1", "m1"}
  KindOf <- MCKindOf
  RowIds = {1, 2, 3}
  OrderIds = {1, 2, 3, 4}
  EntryIds = {1, 2, 3, 4}
  MaxStamp = 1
  PageSize = 1
  None = None
INVARIANTS
  PresenceIsTrue
  ListsAreComplete
PROPERTIES
  ConnectedGetListed
  RecipientsGetRows
CHECK_DEADLOCK FALSE
