-------------------------- MODULE BillingHandlers ---------------------------
(***************************************************************************)
(* The billing module: the one payment that settles a visit, and cashier   *)
(* shifts.  Each write is one transaction and decides on what it reads     *)
(* inside it, so each handler is one step.                                 *)
(***************************************************************************)
EXTENDS FloorState, Functions

(***************************************************************************)
(* billing-math.ts: integer minor units, tax in basis points, rounded half *)
(* up per order.                                                           *)
(***************************************************************************)
RoundHalfUpDiv(n, d) == (2 * n + d) \div (2 * d)

OrderTax(o) == RoundHalfUpDiv(orderSubtotal[o] * taxRate, 10000)

OrderTotal(o) == orderSubtotal[o] + OrderTax(o)

SumTotals(S) == SumFunctionOnSet([o \in Orders |-> OrderTotal(o)], S)

\* Mutation: the tax is rounded once, on the bill.
BillTotalRoundedOnce(S) ==
  LET subtotal == SumFunctionOnSet(orderSubtotal, S)
  IN subtotal + RoundHalfUpDiv(subtotal * taxRate, 10000)

\* What computeOrderTotals and sumTotals make of the orders S of a bill.
BillTotal(S) == SumFunctionOnSet(orderSubtotal, S)
                  + SumFunctionOnSet([o \in Orders |-> OrderTax(o)], S)

-----------------------------------------------------------------------------
\* Mutation: IN_FLIGHT_STATUSES without the last one.
BlockingButReady(g) ==
  {o \in OrdersOf(g) : orderStatus[o] \in {"pending", "accepted", "preparing"}}

Blocking(g) == {o \in OrdersOf(g) : orderStatus[o] \in InFlightStatuses}
Billable(g) == {o \in OrdersOf(g) : orderStatus[o] = "served"}

\* Ruling D1: nothing of the visit is in flight and something was served.
ReadyToPay(g) == Blocking(g) = {} /\ Billable(g) # {}

OpenShiftsOf(e) == {s \in Shifts : shift[s].status = "open" /\ shift[s].owner = e}

\* Mutation: the shift's status is not looked at.
LinkedShiftOfAnyStatus(e) ==
  IF \E s \in Shifts : shift[s].owner = e
    THEN CHOOSE s \in Shifts : shift[s].owner = e ELSE None

\* Ruling D7: the payment is linked to the collector's open shift, if any.
LinkedShift(e) ==
  IF OpenShiftsOf(e) = {} THEN None ELSE CHOOSE s \in OpenShiftsOf(e) : TRUE

\* Mutation: the first of the two events is lost.
CompletionEventOnly == <<<<"paid", "completed">>>>

\* Ruling D3: paid and completed are two recorded transitions.
CompletionEvents == <<<<"served", "paid">>, <<"paid", "completed">>>>

CompleteOrders(bill) ==
  /\ orderStatus' =
       [o \in Orders |-> IF o \in bill THEN "completed" ELSE orderStatus[o]]
  /\ statusEvents' =
       [o \in Orders |-> IF o \in bill THEN statusEvents[o] \o CompletionEvents
                                       ELSE statusEvents[o]]

\* upsertCompletedOrderRollup for each order of the bill.
AddToRollup(bill) ==
  rollup' = [rollup EXCEPT !.revenue = @ + SumTotals(bill),
                           !.completed = @ + Cardinality(bill)]

\* Mutation: the group is not closed.
LeaveGroupOpen(g) == UNCHANGED groupStatus

CloseGroup(g) == groupStatus' = [groupStatus EXCEPT ![g] = "closed"]

\* Mutation: the table is not sent to cleaning.
LeaveTableOccupied(t) == UNCHANGED tableStatus

SendToCleaning(t) == tableStatus' = [tableStatus EXCEPT ![t] = "needs_cleaning"]

\* recordPaymentTransaction.  Any guard that fails leaves the rows as they
\* were, be it an outcome of the transaction or an exception that rolls it
\* back: chk_payments_amount refuses a total of 0, and the strict
\* compare-and-set on the table refuses a table that is not occupied.
RecordPayment(g, e) ==
  LET bill   == Billable(g)
      amount == BillTotal(bill)
  IN /\ groupStatus[g] = "open"
     /\ ReadyToPay(g)
     /\ amount > 0
     /\ tableStatus[groupTable[g]] = "occupied"
     /\ payment' = [payment EXCEPT ![g] =
          [amount |-> amount, collector |-> e, shift |-> LinkedShift(e)]]
     /\ CompleteOrders(bill)
     /\ AddToRollup(bill)
     /\ CloseGroup(g)
     /\ SendToCleaning(groupTable[g])
     /\ UNCHANGED <<tableActive, groupTable, orderGroup, orderTable, orderAddon,
                    orderSubtotal, cancelledBy, shift, taxRate, req>>

\* Mutation: BILLABLE_STATUSES without what a payment makes of them.
ShownTotalOfServed(g) == BillTotal({o \in OrdersOf(g) : orderStatus[o] = "served"})

\* getBill and assembleBill: the total GET shows for a visit, at the rate of
\* the day it is asked.
ShownTotal(g) ==
  BillTotal({o \in OrdersOf(g) : orderStatus[o] \in {"served", "paid", "completed"}})

AmountCollected == SumFunction([g \in Groups |-> payment[g].amount])

-----------------------------------------------------------------------------
\* openShiftTransaction, ruling D6: one open shift per employee.
OpenShift(s, e, opening) ==
  /\ OpenShiftsOf(e) = {}
  /\ shift[s].status = "unopened"
  /\ shift' = [shift EXCEPT ![s] = [owner |-> e, status |-> "open",
                                    opening |-> opening, expected |-> 0]]
  /\ UNCHANGED <<tableVars, groupVars, orderVars, payment, rollup, taxRate, req>>

CollectedOn(s) ==
  SumFunctionOnSet([g \in Groups |-> payment[g].amount],
                   {g \in Groups : payment[g].shift = s})

\* assertShiftScope: a cashier closes only their own shift.  It is judged on
\* an earlier read of the row, whose owner never changes.
MayClose(s, e, role) == role \in {"owner", "manager"} \/ shift[s].owner = e

\* closeShiftTransaction: the expected cash is opening plus the payments
\* linked to the shift, summed in the transaction that closes it.
CloseShift(s, e, role) ==
  /\ shift[s].status = "open"
  /\ MayClose(s, e, role)
  /\ shift' = [shift EXCEPT ![s].status = "closed",
                            ![s].expected = shift[s].opening + CollectedOn(s)]
  /\ UNCHANGED <<tableVars, groupVars, orderVars, payment, rollup, taxRate, req>>

BillingStep ==
  \/ \E g \in Groups, e \in Employees : RecordPayment(g, e)
  \/ \E s \in Shifts, e \in Employees, f \in Floats : OpenShift(s, e, f)
  \/ \E s \in Shifts, e \in Employees, role \in Roles \cup {"cashier"} :
       CloseShift(s, e, role)
=============================================================================
