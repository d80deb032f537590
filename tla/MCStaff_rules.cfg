SPECIFICATION MCSpec
CONSTANTS
  Employees = {boss, hire}
  Seniors = {boss}
  Roles = {"owner", "waiter"}
  Keys = {"staff_manage", "orders_view"}
  Invitations = {1, 2, 3}
  Devices = {d1, d2}
  Requests = {q1, q2}
  MaxFailures = 2
  Cooldowns <- MCCooldowns
  None = None
INVARIANTS LiveInvitationIsLatest InvitationsAreSpentOnce GuessesAreLimited NobodyActsBeyondTheirRole
PROPERTIES LockoutsEnd
CHECK_DEADLOCK FALSE
