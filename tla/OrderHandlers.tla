--------------------------- MODULE OrderHandlers ----------------------------
(***************************************************************************)
(* The orders module: orders.service.ts decides on rows it has read,       *)
(* orders.repository.ts writes in one transaction afterwards.              *)
(*                                                                         *)
(* Products and their availability are not state of this model: a create   *)
(* may be refused for its products at any time (RefuseOrder), and the      *)
(* subtotal an accepted one snapshots is any of Subtotals.                 *)
(***************************************************************************)
EXTENDS FloorState

\* executeTransition up to the await of the transaction.
BeginTransition(q, o, action, role) ==
  /\ Placed(o)
  /\ orderStatus[o] \in ExpectedFrom[action]
  /\ role \in PermittedRoles[action]
  /\ action = "cancel" => CancelAllowed(role, orderStatus[o])
  /\ Begin(q, [kind |-> "transition", order |-> o, action |-> action,
               from |-> orderStatus[o], role |-> role])
  /\ UNCHANGED <<tableVars, groupVars, orderVars, moneyVars>>

\* Mutation: no compare-and-set at all.
AlwaysExpected(r) == TRUE

\* The compare-and-set of transitionStatusTransaction: expectedFrom is the
\* one status the request was judged on.
StillExpected(r) == orderStatus[r.order] = r.from

\* transitionStatusTransaction: status, status event and, for a
\* cancellation, the rollup counter, all in one transaction.
CommitTransition(q) ==
  LET r  == req[q]
      to == ToStatus(r.action, r.from)
  IN /\ r.kind = "transition"
     /\ StillExpected(r)
     /\ orderStatus' = [orderStatus EXCEPT ![r.order] = to]
     /\ statusEvents' =
          [statusEvents EXCEPT ![r.order] = Append(@, <<orderStatus[r.order], to>>)]
     /\ IF r.action = "cancel"
          THEN /\ cancelledBy' = [cancelledBy EXCEPT ![r.order] = r.role]
               /\ rollup' = [rollup EXCEPT !.cancelled = @ + 1]
          ELSE UNCHANGED <<cancelledBy, rollup>>
     /\ Finish(q)
     /\ UNCHANGED <<tableVars, groupVars, orderGroup, orderTable, orderAddon,
                    orderSubtotal, payment, shift, taxRate>>

\* Outcome "conflict": another handler moved the order first, 409.
LoseTransition(q) ==
  /\ req[q].kind = "transition"
  /\ ~StillExpected(req[q])
  /\ Finish(q)
  /\ UNCHANGED <<tableVars, groupVars, orderVars, moneyVars>>

-----------------------------------------------------------------------------
\* createStaffOrder and createPublicOrder up to the await of the transaction:
\* an inactive table is the same 404 on both.
BeginCreate(q, t) ==
  /\ tableActive[t]
  /\ Begin(q, [kind |-> "create", table |-> t])
  /\ UNCHANGED <<tableVars, groupVars, orderVars, moneyVars>>

\* createAddonOrder up to the await: the new order is pinned to the group of
\* a parent that was not cancelled when it was read.
BeginAddon(q, parent) ==
  /\ Placed(parent)
  /\ orderStatus[parent] # "cancelled"
  /\ Begin(q, [kind |-> "addon", table |-> orderTable[parent],
               group |-> orderGroup[parent]])
  /\ UNCHANGED <<tableVars, groupVars, orderVars, moneyVars>>

\* Ruling D8, judged inside the transaction.  The status bill_requested is
\* refused as well and never written.
Orderable(t) == tableStatus[t] # "needs_cleaning"

\* Mutation: the group is inserted without looking for an open one.
NeverVisited(t) == TRUE

\* No bill group of the table is open: this order starts a visit.
Unvisited(t) == OpenGroupsAt(t) = {}

\* Mutation: the pinned group's status is not checked.
AnyGroupAccepts(g) == TRUE

\* The add-on path's group must still be open.
GroupAccepts(g) == groupStatus[g] = "open"

\* is_addon: every order after the first of a group, whatever became of it.
IsAddon(g) == OrdersOf(g) # {}

\* Mutation: the table is left as it was.
LeaveTable(t) == UNCHANGED tableStatus

\* Compare-and-set available -> occupied; any other status is left alone.
SeatTable(t) ==
  tableStatus' = IF tableStatus[t] = "available"
                   THEN [tableStatus EXCEPT ![t] = "occupied"]
                   ELSE tableStatus

\* The rows both create paths insert.
InsertOrder(o, g, t, addon, subtotal) ==
  /\ ~Placed(o)
  /\ orderStatus' = [orderStatus EXCEPT ![o] = "pending"]
  /\ orderGroup' = [orderGroup EXCEPT ![o] = g]
  /\ orderTable' = [orderTable EXCEPT ![o] = t]
  /\ orderAddon' = [orderAddon EXCEPT ![o] = addon]
  /\ orderSubtotal' = [orderSubtotal EXCEPT ![o] = subtotal]
  /\ statusEvents' = [statusEvents EXCEPT ![o] = <<<<"unplaced", "pending">>>>]
  /\ UNCHANGED <<cancelledBy, tableActive, moneyVars>>

\* createOrderTransaction, the table's open visit found.
JoinVisit(q, o, g, subtotal) ==
  LET t == req[q].table
  IN /\ req[q].kind = "create"
     /\ Orderable(t)
     /\ g \in OpenGroupsAt(t)
     /\ InsertOrder(o, g, t, IsAddon(g), subtotal)
     /\ Finish(q)
     /\ UNCHANGED <<groupVars, tableStatus>>

\* createOrderTransaction, no open visit: the order opens one.
OpenVisit(q, o, g, subtotal) ==
  LET t == req[q].table
  IN /\ req[q].kind = "create"
     /\ Orderable(t)
     /\ Unvisited(t)
     /\ groupStatus[g] = "unopened"
     /\ groupStatus' = [groupStatus EXCEPT ![g] = "open"]
     /\ groupTable' = [groupTable EXCEPT ![g] = t]
     /\ InsertOrder(o, g, t, FALSE, subtotal)
     /\ SeatTable(t)
     /\ Finish(q)

\* createOrderTransaction on the add-on path: the pinned visit must be open.
CommitAddon(q, o, subtotal) ==
  LET g == req[q].group
  IN /\ req[q].kind = "addon"
     /\ Orderable(req[q].table)
     /\ GroupAccepts(g)
     /\ InsertOrder(o, g, req[q].table, TRUE, subtotal)
     /\ Finish(q)
     /\ UNCHANGED <<groupVars, tableStatus>>

\* products_not_found, products_unavailable, table_not_orderable or
\* bill_group_not_open: the transaction writes nothing.
RefuseOrder(q) ==
  /\ req[q].kind \in {"create", "addon"}
  /\ Finish(q)
  /\ UNCHANGED <<tableVars, groupVars, orderVars, moneyVars>>

OrderStep(q) ==
  \/ \E o \in Orders, action \in Actions, role \in Roles :
       BeginTransition(q, o, action, role)
  \/ CommitTransition(q)
  \/ LoseTransition(q)
  \/ \E t \in Tables : BeginCreate(q, t)
  \/ \E parent \in Orders : BeginAddon(q, parent)
  \/ \E o \in Orders, g \in Groups, s \in Subtotals :
       JoinVisit(q, o, g, s) \/ OpenVisit(q, o, g, s)
  \/ \E o \in Orders, s \in Subtotals : CommitAddon(q, o, s)
  \/ RefuseOrder(q)
=============================================================================
