------------------------------- MODULE Floor --------------------------------
(***************************************************************************)
(* One restaurant floor: the orders, billing and tables modules writing    *)
(* the same rows, with any number of their handlers in flight, a tax rate  *)
(* that the owner may change, and a server that may restart.               *)
(***************************************************************************)
EXTENDS OrderHandlers, BillingHandlers, TableHandlers

\* PATCH /config/restaurant-profile, as far as it reaches billing.
SetTaxRate(bps) ==
  /\ bps # taxRate
  /\ taxRate' = bps
  /\ UNCHANGED <<tableVars, groupVars, orderVars, payment, shift, rollup, req>>

Next ==
  \/ \E q \in Requests : OrderStep(q) \/ TableStep(q)
  \/ BillingStep
  \/ \E bps \in TaxRates : SetTaxRate(bps)
  \/ Crash

Spec == Init /\ [][Next]_vars

(***************************************************************************)
(* The same system in a restaurant whose staff never has two mark-cleaned  *)
(* requests for one table in flight.  The code does not ensure that; the   *)
(* run floor_double_clean shows what depends on it.                        *)
(***************************************************************************)
SerialCleaning ==
  \A p, q \in Requests :
    req[p].kind = "clean" /\ req[q].kind = "clean" /\ req[p].table = req[q].table
      => p = q

SerialSpec == Init /\ [][Next /\ SerialCleaning']_vars

-----------------------------------------------------------------------------
(***************************************************************************)
(* Safety.                                                                 *)
(***************************************************************************)

\* However creates, add-ons and payments interleave, a table never has two
\* open visits (FR34: the second order joins the first one's bill group).
OneOpenVisitPerTable ==
  \A g, h \in Groups :
    groupStatus[g] = "open" /\ groupStatus[h] = "open"
      /\ groupTable[g] = groupTable[h] => g = h

\* Once a visit is paid, nothing in it is being cooked, carried or still to be
\* charged, and no order can slip into it afterwards.
LiveOrdersAreInOpenVisits ==
  \A o \in Orders :
    orderStatus[o] \in InFlightStatuses \cup {"served"}
      => groupStatus[orderGroup[o]] = "open"

\* A visit is closed by its payment and by nothing else, and by then it had
\* at least one order that was served and completed.
ClosedByOnePayment ==
  \A g \in Groups :
    /\ groupStatus[g] = "closed" <=> payment[g] # NoPayment
    /\ groupStatus[g] = "closed" =>
         \E o \in OrdersOf(g) : orderStatus[o] = "completed"

\* The daily rollup, updated order by order inside each transaction, agrees
\* with the payments and with the orders themselves.
RollupReconciles ==
  /\ rollup.revenue = AmountCollected
  /\ rollup.completed = Cardinality({o \in Orders : orderStatus[o] = "completed"})
  /\ rollup.cancelled = Cardinality({o \in Orders : orderStatus[o] = "cancelled"})

\* order_status_events is an unbroken history of each order that ends in the
\* status the order is in, whichever handlers raced for it.
StatusEventsChain ==
  \A o \in Orders :
    LET log == statusEvents[o]
    IN /\ Placed(o) <=> log # <<>>
       /\ log # <<>> => log[1][1] = "unplaced" /\ log[Len(log)][2] = orderStatus[o]
       /\ \A i \in 1 .. Len(log) - 1 : log[i][2] = log[i + 1][1]

\* Ruling Q3 judges a waiter's cancellation on a status read before the
\* write; still, no order a waiter cancelled had been accepted.
WaiterCancelsOnlyPending ==
  \A o \in Orders :
    cancelledBy[o] = "waiter" =>
      statusEvents[o] = <<<<"unplaced", "pending">>, <<"pending", "cancelled">>>>

\* Every visit has exactly one main order; all others are add-ons (FR5).
OneMainOrderPerVisit ==
  \A g \in Groups :
    groupStatus[g] # "unopened" =>
      \E main \in OrdersOf(g) : \A o \in OrdersOf(g) : ~orderAddon[o] <=> o = main

\* A closed shift expects its opening cash plus everything its own cashier
\* collected while it was open, and nothing was added afterwards.
ClosedShiftsReconcile ==
  \A s \in Shifts :
    shift[s].status = "closed" => shift[s].expected = shift[s].opening + CollectedOn(s)

\* No cashier has two drawers open, and a payment counts toward a drawer of
\* the cashier who collected it.
ShiftsBelongToCollectors ==
  /\ \A s, u \in Shifts :
       shift[s].status = "open" /\ shift[u].status = "open"
         /\ shift[s].owner = shift[u].owner => s = u
  /\ \A g \in Groups :
       payment[g].shift # None => shift[payment[g].shift].owner = payment[g].collector

\* Whatever is sold while drawers are opened and closed, the books of both agree.
ShiftsReconcile == ClosedShiftsReconcile /\ ShiftsBelongToCollectors

(***************************************************************************)
(* What a step may never do.                                               *)
(***************************************************************************)
\* No step moves an order along anything but an edge of the PRD lifecycle:
\* nothing resurrects a cancelled or a completed order, or skips a stage.
LifecycleRespected ==
  [][\A o \in Orders :
       orderStatus'[o] # orderStatus[o]
         => <<orderStatus[o], orderStatus'[o]>> \in LifecycleEdges]_orderStatus

\* The cashier asks for what the bill shows: a payment takes the total GET
\* shows just before it, and the bill still shows that amount just after.
QuotedIsCharged ==
  [][\A g \in Groups :
       payment[g] = NoPayment /\ payment'[g] # NoPayment
         => payment'[g].amount = ShownTotal(g) /\ ShownTotal(g)' = ShownTotal(g)]_payment

-----------------------------------------------------------------------------
(***************************************************************************)
(* What needs serial cleaning.                                             *)
(***************************************************************************)

\* A table is occupied exactly while a visit is open at it.  Payment and the
\* next visit both depend on it.
OccupiedIffVisited ==
  \A t \in Tables : tableStatus[t] = "occupied" <=> OpenGroupsAt(t) # {}

\* An open visit is never stranded: its table is occupied, as the payment's
\* strict compare-and-set wants it and as another order may find it, and some
\* order is in flight or the bill is positive.  Excepted are the two dead ends
\* the code leaves until another order is placed: a visit whose orders are all
\* cancelled is not ready, and chk_payments_amount refuses one of free products.
OpenVisitsGoOn ==
  \A g \in Groups :
    groupStatus[g] = "open" =>
      /\ tableStatus[groupTable[g]] = "occupied"
      /\ \/ Blocking(g) # {}
         \/ BillTotal(Billable(g)) > 0
         \/ \A o \in OrdersOf(g) : orderStatus[o] = "cancelled" \/ orderSubtotal[o] = 0

\* Mapping of the database rows to the guests' view.
PhaseOf == [available |-> "free", occupied |-> "seated", needs_cleaning |-> "dirty"]

Phase == [t \in Tables |-> PhaseOf[tableStatus[t]]]

Tab == [g \in Groups |-> OrdersOf(g)]

PaidVisits == {g \in Groups : groupStatus[g] = "closed"}

GV == INSTANCE GuestVisit
        WITH Visits <- Groups, floor <- Phase, host <- groupTable, tab <- Tab,
             paid <- PaidVisits

\* The handlers together implement the guests' view of a visit.
ImplementsGuestVisit == GV!Spec

-----------------------------------------------------------------------------
(***************************************************************************)
(* What the repository says and the code does not do.                      *)
(***************************************************************************)

\* tables.service.ts:46: mark-cleaned closes the table loop strictly from
\* needs_cleaning back to available.
AvailableOnlyFromCleaning ==
  [][\A t \in Tables :
       tableStatus'[t] = "available" /\ tableStatus[t] # "available"
         => tableStatus[t] = "needs_cleaning"]_tableStatus
=============================================================================
