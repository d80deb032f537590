----------------------------- MODULE StaffState -----------------------------
(***************************************************************************)
(* The people of one restaurant: the rows of employees, invitations and    *)
(* refresh_tokens, the lockout counters and the access tokens that are     *)
(* kept in memory only, and the handlers suspended at an await.            *)
(***************************************************************************)
EXTENDS Naturals, Sequences, FiniteSets

CONSTANTS
  Employees,    \* ids of employees
  Seniors,      \* those whose onboarding was over at the start
  Roles,        \* the roles handed out
  Keys,         \* the permission keys of the routes called
  Invitations,  \* ids of invitations, numbered in the order of their inserts
  Devices,      \* ids of refresh tokens
  Requests,     \* request slots
  MaxFailures,  \* PIN_MAX_CONSECUTIVE_FAILURES
  Cooldowns,    \* PIN_LOCKOUT_COOLDOWN_MINUTES
  None          \* SQL NULL, and no row yet

ASSUME StaffAssumption ==
  /\ Seniors \subseteq Employees
  /\ None \notin Employees /\ None \notin Invitations /\ None \notin Devices
  /\ Invitations \subseteq Nat

ASSUME LockoutAssumption ==
  /\ MaxFailures \in Nat \ {0} /\ IsFiniteSet(Requests)
  /\ Cooldowns \in Seq(Nat \ {0}) /\ Cooldowns # <<>>

EmployeeRoles == {"owner", "manager", "cashier", "waiter", "kitchen"}
Management    == {"owner", "manager"}
PasswordRoles == Management

\* PermissionKey.
Permissions ==
  {"staff_manage", "staff_view_roster", "menu_manage", "menu_view", "tables_view",
   "tables_manage", "tables_mark_cleaned", "orders_view", "orders_create",
   "orders_accept", "orders_advance", "orders_serve", "orders_cancel", "billing_view",
   "payments_process", "shifts_manage", "shifts_view", "analytics_view", "audit_view",
   "backup_manage", "config_view", "config_manage"}

\* BASELINE_PERMISSIONS, PRD's matrix in code.
Baseline ==
  [key \in Permissions |->
     CASE key \in {"staff_manage", "config_manage"} -> {"owner"}
       [] key \in {"menu_view", "orders_view", "config_view"} -> EmployeeRoles
       [] key = "tables_view" -> EmployeeRoles \ {"kitchen"}
       [] key \in {"tables_mark_cleaned", "orders_create", "orders_serve", "orders_cancel"}
            -> Management \cup {"waiter"}
       [] key \in {"orders_accept", "orders_advance"} -> Management \cup {"kitchen"}
       [] key \in {"billing_view", "payments_process", "shifts_manage", "shifts_view"}
            -> Management \cup {"cashier"}
       [] OTHER -> Management]

ASSUME RightsAssumption == Roles \subseteq EmployeeRoles /\ Keys \subseteq DOMAIN Baseline

VARIABLES
  employee,    \* rows of employees
  invitation,  \* rows of invitations
  device,      \* rows of refresh_tokens
  lock,        \* the LockState of each employee, minutes left for lockedUntil
  passes,      \* access tokens that have not run out, as <<employee, role>>
  req,         \* what each handler in flight has read so far
  issuers,     \* history: the most requests that issued to an employee at once
  together,    \* history: the most requests that had an invitation in hand at once
  tried        \* history: wrong PINs since the employee was last let in,
               \* or since the last lock ran out

rosterVars  == <<employee, invitation>>
sessionVars == <<device, lock, passes>>
historyVars == <<issuers, together, tried>>
vars == <<rosterVars, sessionVars, req, historyVars>>

-----------------------------------------------------------------------------
(***************************************************************************)
(* Rows.                                                                   *)
(***************************************************************************)
Employee == [role: Roles, active: BOOLEAN, credentials: SUBSET {"password", "pin"}]

Invitation ==
  [to: Employees, status: {"pending", "accepted", "revoked", "expired"}, due: BOOLEAN]

Device ==
  [owner: Employees, origin: Invitations \cup {None}, revoked: BOOLEAN, lapsed: BOOLEAN]

ASSUME RowAssumption == None \notin Employee \cup Invitation \cup Device

\* No entry in the states map is the same as zeros.
LockState == [failures: Nat, episodes: Nat, left: Nat]
Unlocked  == [failures |-> 0, episodes |-> 0, left |-> 0]

Hired(e)   == employee[e] # None
Active(e)  == Hired(e) /\ employee[e].active
Issued(i)  == invitation[i] # None
Pending(i) == Issued(i) /\ invitation[i].status = "pending"
Live(i)    == Pending(i) /\ ~invitation[i].due

PendingOf(e) == {i \in Invitations : Pending(i) /\ invitation[i].to = e}

\* A trusted device: known, not revoked, not run out.
Trusted(d) == device[d] # None /\ ~device[d].revoked /\ ~device[d].lapsed

NewDevice(e, i) == [owner |-> e, origin |-> i, revoked |-> FALSE, lapsed |-> FALSE]

\* insert into refresh_tokens: one id that is not in use is as good as another.
InsertDevice(e, i) ==
  LET d == CHOOSE d \in Devices : device[d] = None
  IN /\ \E free \in Devices : device[free] = None
     /\ device' = [device EXCEPT ![d] = NewDevice(e, i)]

\* issueAccessToken: signed with the role that the handler has read.
IssuePass(e, role) == passes' = passes \cup {<<e, role>>}

\* Wrong PINs are counted as far as there is something to tell.
GuessBound == MaxFailures + Cardinality(Requests)

-----------------------------------------------------------------------------
(***************************************************************************)
(* Handlers in flight, by what they do next.                               *)
(***************************************************************************)
Idle == [at |-> "idle"]

LookRequest     == [at: {"look"}, employee: Employees]
ReplaceRequest  == [at: {"replace"}, employee: Employees, old: SUBSET Invitations]
WithdrawRequest == [at: {"withdraw"}, invitation: Invitations, reissue: BOOLEAN]
AcceptRequest   == [at: {"accept"}, invitation: Invitations, role: Roles]
ExpireRequest   == [at: {"expire"}, invitation: Invitations]
RenewRequest    == [at: {"renew"}, device: Devices, employee: Employees \cup {None}]
VerifyRequest   == [at: {"verify"}, employee: Employees, role: Roles, usable: BOOLEAN]
LoginRequest    == [at: {"login"}, employee: Employees, role: Roles]
ResetRequest    == [at: {"reset"}, employee: Employees]
CallRequest     == [at: {"call", "acting"}, employee: Employees, role: Roles,
                    key: Keys, held: SUBSET Roles]

Suspended ==
  LookRequest \cup ReplaceRequest \cup WithdrawRequest \cup AcceptRequest
    \cup ExpireRequest \cup RenewRequest \cup VerifyRequest \cup LoginRequest
    \cup ResetRequest \cup CallRequest

Begin(q, r)   == req[q] = Idle /\ req' = [req EXCEPT ![q] = r]
Proceed(q, r) == req' = [req EXCEPT ![q] = r]
Finish(q)     == req' = [req EXCEPT ![q] = Idle]

At(q, place) == req[q].at = place

-----------------------------------------------------------------------------
TypeOK ==
  /\ employee \in [Employees -> Employee \cup {None}]
  /\ invitation \in [Invitations -> Invitation \cup {None}]
  /\ device \in [Devices -> Device \cup {None}]
  /\ lock \in [Employees -> LockState]
  /\ passes \subseteq Employees \X Roles
  /\ req \in [Requests -> Suspended \cup {Idle}]
  /\ issuers \in [Employees -> Nat]
  /\ together \in [Invitations -> Nat]
  /\ tried \in [Employees -> Nat]

\* Seniors work here already; their invitations are history.
Init ==
  /\ \E role \in [Seniors -> Roles] :
       employee = [e \in Employees |->
         IF e \in Seniors
           THEN [role |-> role[e], active |-> TRUE, credentials |-> {"password", "pin"}]
           ELSE None]
  /\ invitation = [i \in Invitations |-> None]
  /\ device \in [Devices -> {NewDevice(e, None) : e \in Seniors} \cup {None}]
  /\ lock = [e \in Employees |-> Unlocked]
  /\ passes = {}
  /\ req = [q \in Requests |-> Idle]
  /\ issuers = [e \in Employees |-> 0]
  /\ together = [i \in Invitations |-> 0]
  /\ tried = [e \in Employees |-> 0]

\* A restart of the server: rows and signed tokens survive, handlers and
\* lockout counters do not.
Crash ==
  /\ req' = [q \in Requests |-> Idle]
  /\ lock' = [e \in Employees |-> Unlocked]
  /\ tried' = [e \in Employees |-> 0]
  /\ UNCHANGED <<rosterVars, device, passes, issuers, together>>
=============================================================================
