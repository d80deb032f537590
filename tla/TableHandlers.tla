--------------------------- MODULE TableHandlers ----------------------------
(***************************************************************************)
(* The part of the tables module that a guest visit depends on: removing a *)
(* table and marking it cleaned.  Both read, await, and then write with an *)
(* UPDATE that names the row and nothing else (updateTable).               *)
(***************************************************************************)
EXTENDS FloorState

\* countNonTerminalOrders: TERMINAL_ORDER_STATUSES are completed, cancelled.
ActiveOrdersAt(t) ==
  {o \in Orders : Placed(o) /\ orderTable[o] = t
                            /\ orderStatus[o] \notin TerminalStatuses}

\* removeTable up to the await of the update.
BeginRemove(q, t) ==
  /\ ActiveOrdersAt(t) = {}
  /\ Begin(q, [kind |-> "remove", table |-> t])
  /\ UNCHANGED <<tableVars, groupVars, orderVars, moneyVars>>

CommitRemove(q) ==
  /\ req[q].kind = "remove"
  /\ tableActive' = [tableActive EXCEPT ![req[q].table] = FALSE]
  /\ Finish(q)
  /\ UNCHANGED <<tableStatus, groupVars, orderVars, moneyVars>>

\* markCleaned up to the await of the update.
BeginClean(q, t) ==
  /\ tableStatus[t] = "needs_cleaning"
  /\ Begin(q, [kind |-> "clean", table |-> t])
  /\ UNCHANGED <<tableVars, groupVars, orderVars, moneyVars>>

\* The update does not look at the status again.
CommitClean(q) ==
  /\ req[q].kind = "clean"
  /\ tableStatus' = [tableStatus EXCEPT ![req[q].table] = "available"]
  /\ Finish(q)
  /\ UNCHANGED <<tableActive, groupVars, orderVars, moneyVars>>

TableStep(q) ==
  \/ \E t \in Tables : BeginRemove(q, t) \/ BeginClean(q, t)
  \/ CommitRemove(q)
  \/ CommitClean(q)
=============================================================================
