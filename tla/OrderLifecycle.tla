--------------------------- MODULE OrderLifecycle ---------------------------
(***************************************************************************)
(* The lifecycle of an order as data: the statuses the schema allows and   *)
(* the transitions of TRANSITION_RULES in orders.service.ts.               *)
(***************************************************************************)

InFlightStatuses == {"pending", "accepted", "preparing", "ready"}
TerminalStatuses == {"completed", "cancelled"}
OrderStatus == InFlightStatuses \cup {"served", "paid"} \cup TerminalStatuses

Actions == {"accept", "advance", "serve", "cancel"}

(***************************************************************************)
(* TRANSITION_RULES, the lifecycle as data.                                *)
(***************************************************************************)
ExpectedFrom ==
  [accept  |-> {"pending"},
   advance |-> {"accepted", "preparing"},
   serve   |-> {"ready"},
   cancel  |-> InFlightStatuses \cup {"served"}]

ToStatus(action, from) ==
  CASE action = "accept"  -> "accepted"
    [] action = "advance" -> IF from = "accepted" THEN "preparing" ELSE "ready"
    [] action = "serve"   -> "served"
    [] action = "cancel"  -> "cancelled"

PermittedRoles ==
  [accept  |-> {"owner", "manager", "kitchen"},
   advance |-> {"owner", "manager", "kitchen"},
   serve   |-> {"owner", "manager", "waiter"},
   cancel  |-> {"owner", "manager", "waiter"}]

\* assertCancelAllowed: a waiter's cancellation window closes at acceptance.
CancelAllowed(role, from) == role = "waiter" => from = "pending"

\* The edges of the PRD lifecycle, the payment's two at once included.
LifecycleEdges ==
  {<<"unplaced", "pending">>, <<"pending", "accepted">>, <<"accepted", "preparing">>,
   <<"preparing", "ready">>, <<"ready", "served">>, <<"served", "completed">>}
    \cup ((InFlightStatuses \cup {"served"}) \X {"cancelled"})
=============================================================================
