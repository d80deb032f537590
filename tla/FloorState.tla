----------------------------- MODULE FloorState -----------------------------
(***************************************************************************)
(* The rows of the SmartTable database that one restaurant floor lives in, *)
(* and the requests the API server is in the middle of handling.           *)
(*                                                                         *)
(* better-sqlite3 runs a statement or a db.transaction callback without    *)
(* yielding, so a statement or a transaction is one step.  A handler that  *)
(* reads a row, awaits, and then writes is two steps, and the row it read  *)
(* is kept in its request slot: that is the only state of the server that  *)
(* a crash loses.                                                          *)
(***************************************************************************)
EXTENDS OrderLifecycle, Integers, Sequences, FiniteSets

CONSTANTS
  Tables,      \* rows of tables (all created before the day starts)
  Groups,      \* ids a table bill group (one guest visit) may get
  Orders,      \* ids an order may get
  Shifts,      \* ids a cashier shift may get
  Employees,   \* employees who collect payments and open shifts
  Roles,       \* roles of the employees acting on orders
  Requests,    \* request slots: how many handlers can be in flight
  Subtotals,   \* pre-tax values an order's item snapshots may add up to
  TaxRates,    \* values of restaurant_profile.tax_rate_percent, basis points
  Floats,      \* opening cash amounts of a shift
  None         \* SQL NULL

ASSUME NoneAssumption ==
  None \notin Tables \cup Groups \cup Orders \cup Shifts \cup Employees \cup Roles
               \cup {"waiter"}

ASSUME FiniteAssumption == IsFiniteSet(Groups) /\ IsFiniteSet(Orders)

ASSUME MoneyAssumption ==
  Subtotals \subseteq Nat /\ TaxRates \subseteq Nat /\ Floats \subseteq Nat

VARIABLES
  tableStatus,   \* tables.status
  tableActive,   \* tables.is_active
  groupStatus,   \* table_bill_groups.status, "unopened" before the insert
  groupTable,    \* table_bill_groups.table_id
  orderStatus,   \* orders.status, "unplaced" before the insert
  orderGroup,    \* orders.table_bill_group_id
  orderTable,    \* orders.table_id
  orderAddon,    \* orders.is_addon
  orderSubtotal, \* sum of unit_price_minor_snapshot * quantity of its items
  cancelledBy,   \* role behind orders.cancelled_by_employee_id
  statusEvents,  \* rows of order_status_events per order, as <<from, to>>
  payment,       \* the row of payments for a group
  shift,         \* rows of shifts
  rollup,        \* the day's row of sales_rollup_daily
  taxRate,       \* restaurant_profile.tax_rate_percent
  req            \* what each handler in flight has read so far

tableVars == <<tableStatus, tableActive>>
groupVars == <<groupStatus, groupTable>>
orderVars == <<orderStatus, orderGroup, orderTable, orderAddon, orderSubtotal,
               cancelledBy, statusEvents>>
moneyVars == <<payment, shift, rollup, taxRate>>
vars == <<tableVars, groupVars, orderVars, moneyVars, req>>

-----------------------------------------------------------------------------
\* v1 writes no bill_requested: docs/bill-requested-status-gap.md.
TableStatus == {"available", "occupied", "needs_cleaning"}

Placed(o) == orderStatus[o] # "unplaced"

OrdersOf(g) == {o \in Orders : orderGroup[o] = g}

OpenGroupsAt(t) == {g \in Groups : groupStatus[g] = "open" /\ groupTable[g] = t}

-----------------------------------------------------------------------------
(***************************************************************************)
(* A request slot is idle, or holds what its handler read before the await *)
(* it is suspended at.                                                     *)
(***************************************************************************)
Idle == [kind |-> "idle"]

TransitionRequest ==
  [kind: {"transition"}, order: Orders, action: Actions, from: OrderStatus,
   role: Roles]
CreateRequest == [kind: {"create"}, table: Tables]
AddonRequest  == [kind: {"addon"}, table: Tables, group: Groups]
RemoveRequest == [kind: {"remove"}, table: Tables]
CleanRequest  == [kind: {"clean"}, table: Tables]

Suspended == TransitionRequest \cup CreateRequest \cup AddonRequest
               \cup RemoveRequest \cup CleanRequest

Begin(q, r)  == req[q] = Idle /\ req' = [req EXCEPT ![q] = r]
Finish(q)    == req' = [req EXCEPT ![q] = Idle]

-----------------------------------------------------------------------------
NoPayment == [amount |-> 0, collector |-> None, shift |-> None]
NoShift   == [owner |-> None, status |-> "unopened", opening |-> 0, expected |-> 0]

\* The types of the rows that say who sits where and how far an order got.
RowTypes ==
  /\ tableStatus \in [Tables -> TableStatus]
  /\ tableActive \in [Tables -> BOOLEAN]
  /\ groupStatus \in [Groups -> {"unopened", "open", "closed"}]
  /\ groupTable \in [Groups -> Tables \cup {None}]
  /\ orderStatus \in [Orders -> OrderStatus \cup {"unplaced"}]
  /\ orderGroup \in [Orders -> Groups \cup {None}]
  /\ orderTable \in [Orders -> Tables \cup {None}]
  /\ orderAddon \in [Orders -> BOOLEAN]
  /\ cancelledBy \in [Orders -> Roles \cup {None}]
  /\ statusEvents \in
       [Orders -> Seq((OrderStatus \cup {"unplaced"}) \X OrderStatus)]
  /\ req \in [Requests -> Suspended \cup {Idle}]

\* The types of the columns that hold amounts of money.
MoneyTypes ==
  /\ orderSubtotal \in [Orders -> Nat]
  /\ payment \in [Groups -> [amount: Nat, collector: Employees \cup {None},
                             shift: Shifts \cup {None}]]
  /\ shift \in [Shifts -> [owner: Employees \cup {None},
                           status: {"unopened", "open", "closed"},
                           opening: Nat, expected: Nat]]
  /\ rollup \in [revenue: Nat, completed: Nat, cancelled: Nat]
  /\ taxRate \in TaxRates

TypeOK == RowTypes /\ MoneyTypes

\* The state the Setup Wizard leaves: every table free, no visit yet.
Init ==
  /\ tableStatus = [t \in Tables |-> "available"]
  /\ tableActive = [t \in Tables |-> TRUE]
  /\ groupStatus = [g \in Groups |-> "unopened"]
  /\ groupTable = [g \in Groups |-> None]
  /\ orderStatus = [o \in Orders |-> "unplaced"]
  /\ orderGroup = [o \in Orders |-> None]
  /\ orderTable = [o \in Orders |-> None]
  /\ orderAddon = [o \in Orders |-> FALSE]
  /\ orderSubtotal = [o \in Orders |-> 0]
  /\ cancelledBy = [o \in Orders |-> None]
  /\ statusEvents = [o \in Orders |-> <<>>]
  /\ payment = [g \in Groups |-> NoPayment]
  /\ shift = [s \in Shifts |-> NoShift]
  /\ rollup = [revenue |-> 0, completed |-> 0, cancelled |-> 0]
  /\ taxRate \in TaxRates
  /\ req = [q \in Requests |-> Idle]

\* A restart of the server: the rows survive, the suspended handlers do not.
Crash ==
  /\ \E q \in Requests : req[q] # Idle
  /\ req' = [q \in Requests |-> Idle]
  /\ UNCHANGED <<tableVars, groupVars, orderVars, moneyVars>>
=============================================================================
