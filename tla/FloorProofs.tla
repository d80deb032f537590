---------------------------- MODULE FloorProofs -----------------------------
(***************************************************************************)
(* Safety of Floor for any number of tables, visits, orders and handlers   *)
(* in flight.  The properties of Floor speak of rows only; what makes them *)
(* inductive is what the handlers in flight remember (SlotRows) and how    *)
(* the foreign keys of the rows hang together (VisitRows, OrderRows).      *)
(***************************************************************************)
EXTENDS Floor, SumLemmas, SequenceTheorems, TLAPS

\* A bill group has its table from the moment it is inserted.
VisitRows ==
  \A g \in Groups : groupStatus[g] = "unopened" <=> groupTable[g] = None

\* An order belongs to an inserted bill group, and its denormalized table is
\* the group's.
OrderRows ==
  \A o \in Orders :
    IF Placed(o)
      THEN /\ orderGroup[o] \in Groups
           /\ groupTable[orderGroup[o]] # None
           /\ orderTable[o] = groupTable[orderGroup[o]]
      ELSE orderGroup[o] = None

\* What a suspended transition or add-on remembers, as far as it can be
\* relied on after the await.
SlotRows ==
  \A q \in Requests :
    /\ req[q].kind = "transition" => req[q].from \in ExpectedFrom[req[q].action]
    /\ req[q].kind = "addon" =>
         groupTable[req[q].group] # None /\ req[q].table = groupTable[req[q].group]

VisitInv ==
  /\ RowTypes
  /\ VisitRows
  /\ OrderRows
  /\ SlotRows
  /\ OneOpenVisitPerTable
  /\ LiveOrdersAreInOpenVisits

-----------------------------------------------------------------------------
(***************************************************************************)
(* What a request slot holds.                                              *)
(***************************************************************************)

\* The kind of a slot tells its fields.
LEMMA SlotShape ==
  ASSUME NEW r \in Suspended \cup {Idle}
  PROVE  /\ r.kind = "transition" => r \in TransitionRequest
         /\ r.kind = "create" => r \in CreateRequest
         /\ r.kind = "addon" => r \in AddonRequest
         /\ r.kind = "remove" => r \in RemoveRequest
         /\ r.kind = "clean" => r \in CleanRequest
  BY DEF Suspended, Idle, TransitionRequest, CreateRequest, AddonRequest,
         RemoveRequest, CleanRequest

\* Every transition of TRANSITION_RULES leads from and to a known status.
LEMMA TransitionStatuses ==
  ASSUME NEW a \in Actions, NEW s \in ExpectedFrom[a]
  PROVE  /\ s \in InFlightStatuses \cup {"served"}
         /\ ToStatus(a, s) \in OrderStatus
         /\ ToStatus(a, s) \in InFlightStatuses \cup {"served", "cancelled"}
         /\ <<s, ToStatus(a, s)>> \in LifecycleEdges
  <1>1. CASE a = "accept"
    BY <1>1 DEF ExpectedFrom, ToStatus, InFlightStatuses, TerminalStatuses,
                OrderStatus, LifecycleEdges
  <1>2. CASE a = "advance"
    BY <1>2 DEF ExpectedFrom, ToStatus, InFlightStatuses, TerminalStatuses,
                OrderStatus, LifecycleEdges
  <1>3. CASE a = "serve"
    BY <1>3 DEF ExpectedFrom, ToStatus, InFlightStatuses, TerminalStatuses,
                OrderStatus, LifecycleEdges
  <1>4. CASE a = "cancel"
    BY <1>4 DEF ExpectedFrom, ToStatus, InFlightStatuses, TerminalStatuses,
                OrderStatus, LifecycleEdges
  <1> QED
    BY <1>1, <1>2, <1>3, <1>4 DEF Actions

\* Suspending a handler with a well-formed slot, and ending one, keep the
\* types of the slots.
LEMMA SlotTypes ==
  ASSUME req \in [Requests -> Suspended \cup {Idle}], NEW q \in Requests
  PROVE  /\ \A r \in Suspended :
              Begin(q, r) => req' \in [Requests -> Suspended \cup {Idle}]
         /\ Finish(q) => req' \in [Requests -> Suspended \cup {Idle}]
  BY DEF Begin, Finish


\* No handler changes the table of a bill group once it has one.
TablesOfVisitsStay ==
  \A g \in Groups : groupTable[g] # None => groupTable'[g] = groupTable[g]

\* The handler that ends forgets; the others' memory stays right.
LEMMA FinishKeepsSlotRows ==
  ASSUME VisitInv, NEW q \in Requests, Finish(q), TablesOfVisitsStay
  PROVE  SlotRows'
  <1> SUFFICES ASSUME NEW p \in Requests
               PROVE  /\ req'[p].kind = "transition" =>
                           req'[p].from \in ExpectedFrom[req'[p].action]
                      /\ req'[p].kind = "addon" =>
                           /\ groupTable'[req'[p].group] # None
                           /\ req'[p].table = groupTable'[req'[p].group]
    BY DEF SlotRows
  <1>1. req'[p] = IF p = q THEN Idle ELSE req[p]
    BY DEF Finish, VisitInv, RowTypes
  <1>2. req[p].kind = "addon" => req[p].group \in Groups
    BY SlotShape DEF VisitInv, RowTypes, AddonRequest
  <1> QED
    BY <1>1, <1>2 DEF VisitInv, SlotRows, TablesOfVisitsStay, Idle

\* A step that touches no bill group and no order needs its slots judged only.
LEMMA RowsUnchanged ==
  ASSUME VisitInv, UNCHANGED <<groupVars, orderVars>>, RowTypes', SlotRows'
  PROVE  VisitInv'
  BY DEF VisitInv, VisitRows, OrderRows, OneOpenVisitPerTable,
         LiveOrdersAreInOpenVisits, Placed, groupVars, orderVars

\* A handler that reads and suspends.
LEMMA BeginKeepsVisitInv ==
  ASSUME VisitInv, NEW q \in Requests, NEW r \in Suspended, Begin(q, r),
         UNCHANGED <<tableVars, groupVars, orderVars>>,
         r.kind = "transition" => r.from \in ExpectedFrom[r.action],
         r.kind = "addon" =>
           groupTable[r.group] # None /\ r.table = groupTable[r.group]
  PROVE  VisitInv'
  <1>1. RowTypes'
    BY SlotTypes DEF VisitInv, RowTypes, tableVars, groupVars, orderVars
  <1>2. SlotRows'
    BY DEF VisitInv, RowTypes, SlotRows, Begin, groupVars
  <1> QED
    BY <1>1, <1>2, RowsUnchanged

\* A handler that gives up, or writes nothing but the table's row.
LEMMA FinishKeepsVisitInv ==
  ASSUME VisitInv, NEW q \in Requests, Finish(q),
         UNCHANGED <<groupVars, orderVars>>,
         tableStatus' \in [Tables -> TableStatus],
         tableActive' \in [Tables -> BOOLEAN]
  PROVE  VisitInv'
  <1>1. RowTypes'
    BY SlotTypes DEF VisitInv, RowTypes, groupVars, orderVars
  <1>2. SlotRows'
    BY FinishKeepsSlotRows DEF TablesOfVisitsStay, groupVars
  <1> QED
    BY <1>1, <1>2, RowsUnchanged

-----------------------------------------------------------------------------
(***************************************************************************)
(* The handlers that write orders and bill groups.                         *)
(***************************************************************************)

\* The first event of an order and the next ones are well typed.
LEMMA CommitTransitionKeepsVisitInv ==
  ASSUME VisitInv, NEW q \in Requests, CommitTransition(q)
  PROVE  VisitInv'
  <1> DEFINE r == req[q]
             to == ToStatus(r.action, r.from)
  <1>1. r \in TransitionRequest /\ r.from \in ExpectedFrom[r.action]
    BY SlotShape DEF VisitInv, RowTypes, SlotRows, CommitTransition
  <1>2. r.order \in Orders /\ r.action \in Actions /\ r.role \in Roles
    BY <1>1 DEF TransitionRequest
  <1>3. /\ to \in OrderStatus
        /\ to \in InFlightStatuses \cup {"served", "cancelled"}
        /\ r.from \in InFlightStatuses \cup {"served"}
    BY <1>1, <1>2, TransitionStatuses
  <1>4. orderStatus[r.order] = r.from
    BY DEF CommitTransition, StillExpected
  <1>5. /\ orderStatus' = [orderStatus EXCEPT ![r.order] = to]
        /\ UNCHANGED <<tableVars, groupVars, orderGroup, orderTable, orderAddon>>
        /\ Finish(q)
    BY DEF CommitTransition
  <1>6. r.from # "unplaced" /\ to # "unplaced"
    BY <1>3 DEF InFlightStatuses
  <1>7. \A o \in Orders : Placed(o)' <=> Placed(o)
    BY <1>2, <1>4, <1>5, <1>6 DEF VisitInv, RowTypes, Placed
  <1>8. RowTypes'
    <2>1. orderStatus' \in [Orders -> OrderStatus \cup {"unplaced"}]
      BY <1>3, <1>5 DEF VisitInv, RowTypes
    <2>2. cancelledBy' \in [Orders -> Roles \cup {None}]
      BY <1>2 DEF VisitInv, RowTypes, CommitTransition
    <2>3. statusEvents' \in
            [Orders -> Seq((OrderStatus \cup {"unplaced"}) \X OrderStatus)]
      <3>1. r.from \in OrderStatus \cup {"unplaced"}
        BY <1>2, <1>4 DEF VisitInv, RowTypes
      <3>2. <<r.from, to>> \in (OrderStatus \cup {"unplaced"}) \X OrderStatus
        BY <1>3, <3>1
      <3>3. statusEvents' =
              [statusEvents EXCEPT ![r.order] = Append(@, <<r.from, to>>)]
        BY <1>4 DEF CommitTransition
      <3>4. statusEvents[r.order] \in Seq((OrderStatus \cup {"unplaced"}) \X OrderStatus)
        BY <1>2 DEF VisitInv, RowTypes
      <3> QED
        BY <1>2, <3>2, <3>3, <3>4 DEF VisitInv, RowTypes
    <2> QED
      BY <1>5, <2>1, <2>2, <2>3, SlotTypes
      DEF VisitInv, RowTypes, tableVars, groupVars
  <1>9. SlotRows'
    BY <1>5, FinishKeepsSlotRows DEF TablesOfVisitsStay, groupVars
  <1>10. VisitRows' /\ OrderRows' /\ OneOpenVisitPerTable'
    BY <1>5, <1>7 DEF VisitInv, VisitRows, OrderRows, OneOpenVisitPerTable, groupVars
  <1>11. LiveOrdersAreInOpenVisits'
    BY <1>2, <1>3, <1>4, <1>5
    DEF VisitInv, RowTypes, LiveOrdersAreInOpenVisits, groupVars
  <1> QED
    BY <1>8, <1>9, <1>10, <1>11 DEF VisitInv

\* The order the create paths insert belongs to an open visit and carries its
\* table.
LEMMA InsertKeepsVisitInv ==
  ASSUME VisitInv, NEW q \in Requests, NEW o \in Orders, NEW g \in Groups,
         NEW t \in Tables, NEW addon \in BOOLEAN, NEW subtotal \in Subtotals,
         InsertOrder(o, g, t, addon, subtotal), Finish(q),
         tableStatus' \in [Tables -> TableStatus],
         groupStatus' \in [Groups -> {"unopened", "open", "closed"}],
         groupTable' \in [Groups -> Tables \cup {None}],
         TablesOfVisitsStay, VisitRows', OneOpenVisitPerTable',
         \A h \in Groups : groupStatus[h] = "open" => groupStatus'[h] = "open",
         groupStatus'[g] = "open", groupTable'[g] = t
  PROVE  VisitInv'
  <1>1. /\ ~Placed(o)
        /\ orderStatus' = [orderStatus EXCEPT ![o] = "pending"]
        /\ orderGroup' = [orderGroup EXCEPT ![o] = g]
        /\ orderTable' = [orderTable EXCEPT ![o] = t]
        /\ orderAddon' = [orderAddon EXCEPT ![o] = addon]
        /\ statusEvents' = [statusEvents EXCEPT ![o] = <<<<"unplaced", "pending">>>>]
        /\ UNCHANGED <<cancelledBy, tableActive>>
    BY DEF InsertOrder
  <1>2. "pending" \in OrderStatus
    BY DEF OrderStatus, InFlightStatuses
  <1>3. RowTypes'
    <2>1. <<<<"unplaced", "pending">>>> \in
            Seq((OrderStatus \cup {"unplaced"}) \X OrderStatus)
      BY <1>2
    <2> QED
      BY <1>1, <1>2, <2>1, SlotTypes DEF VisitInv, RowTypes
  <1>4. SlotRows'
    BY FinishKeepsSlotRows
  <1>5. None \notin Tables
    BY NoneAssumption
  <1>6. OrderRows'
    <2> SUFFICES ASSUME NEW p \in Orders
                 PROVE  IF Placed(p)'
                          THEN /\ orderGroup'[p] \in Groups
                               /\ groupTable'[orderGroup'[p]] # None
                               /\ orderTable'[p] = groupTable'[orderGroup'[p]]
                          ELSE orderGroup'[p] = None
      BY DEF OrderRows
    <2>1. CASE p = o
      BY <1>1, <1>5, <2>1 DEF VisitInv, RowTypes, Placed
    <2>2. CASE p # o
      BY <1>1, <2>2 DEF VisitInv, RowTypes, OrderRows, Placed, TablesOfVisitsStay
    <2> QED
      BY <2>1, <2>2
  <1>7. LiveOrdersAreInOpenVisits'
    <2> SUFFICES ASSUME NEW p \in Orders,
                        orderStatus'[p] \in InFlightStatuses \cup {"served"}
                 PROVE  groupStatus'[orderGroup'[p]] = "open"
      BY DEF LiveOrdersAreInOpenVisits
    <2>1. CASE p = o
      BY <1>1, <2>1 DEF VisitInv, RowTypes
    <2>2. CASE p # o
      <3>1. Placed(p) /\ orderGroup'[p] = orderGroup[p] /\ orderStatus'[p] = orderStatus[p]
        BY <1>1, <2>2 DEF VisitInv, RowTypes, Placed, InFlightStatuses
      <3>2. orderGroup[p] \in Groups
        BY <3>1 DEF VisitInv, OrderRows
      <3> QED
        BY <3>1, <3>2 DEF VisitInv, LiveOrdersAreInOpenVisits
    <2> QED
      BY <2>1, <2>2
  <1> QED
    BY <1>3, <1>4, <1>6, <1>7 DEF VisitInv

LEMMA JoinVisitKeepsVisitInv ==
  ASSUME VisitInv, NEW q \in Requests, NEW o \in Orders, NEW g \in Groups,
         NEW s \in Subtotals, JoinVisit(q, o, g, s)
  PROVE  VisitInv'
  <1>1. req[q].table \in Tables
    BY SlotShape DEF VisitInv, RowTypes, JoinVisit, CreateRequest
  <1>2. groupStatus[g] = "open" /\ groupTable[g] = req[q].table
    BY DEF JoinVisit, OpenGroupsAt
  <1>3. IsAddon(g) \in BOOLEAN
    BY DEF IsAddon
  <1>4. /\ InsertOrder(o, g, req[q].table, IsAddon(g), s)
        /\ Finish(q)
        /\ UNCHANGED <<groupVars, tableStatus>>
    BY DEF JoinVisit
  <1>5. VisitRows' /\ OneOpenVisitPerTable' /\ TablesOfVisitsStay
    BY <1>4 DEF VisitInv, VisitRows, OneOpenVisitPerTable, TablesOfVisitsStay, groupVars
  <1> QED
    BY <1>1, <1>2, <1>3, <1>4, <1>5, InsertKeepsVisitInv
    DEF VisitInv, RowTypes, groupVars

LEMMA CommitAddonKeepsVisitInv ==
  ASSUME VisitInv, NEW q \in Requests, NEW o \in Orders, NEW s \in Subtotals,
         CommitAddon(q, o, s)
  PROVE  VisitInv'
  <1> DEFINE g == req[q].group
  <1>1. req[q].table \in Tables /\ g \in Groups
    BY SlotShape DEF VisitInv, RowTypes, CommitAddon, AddonRequest
  <1>2. groupStatus[g] = "open" /\ groupTable[g] = req[q].table
    BY DEF CommitAddon, GroupAccepts, VisitInv, SlotRows
  <1>3. /\ InsertOrder(o, g, req[q].table, TRUE, s)
        /\ Finish(q)
        /\ UNCHANGED <<groupVars, tableStatus>>
    BY DEF CommitAddon
  <1>4. VisitRows' /\ OneOpenVisitPerTable' /\ TablesOfVisitsStay
    BY <1>3 DEF VisitInv, VisitRows, OneOpenVisitPerTable, TablesOfVisitsStay, groupVars
  <1> QED
    BY <1>1, <1>2, <1>3, <1>4, InsertKeepsVisitInv
    DEF VisitInv, RowTypes, groupVars

\* The one step that opens a visit: nothing else is open at the table.
LEMMA OpenVisitKeepsVisitInv ==
  ASSUME VisitInv, NEW q \in Requests, NEW o \in Orders, NEW g \in Groups,
         NEW s \in Subtotals, OpenVisit(q, o, g, s)
  PROVE  VisitInv'
  <1> DEFINE t == req[q].table
  <1>1. t \in Tables
    BY SlotShape DEF VisitInv, RowTypes, OpenVisit, CreateRequest
  <1>2. /\ groupStatus[g] = "unopened"
        /\ groupStatus' = [groupStatus EXCEPT ![g] = "open"]
        /\ groupTable' = [groupTable EXCEPT ![g] = t]
        /\ InsertOrder(o, g, t, FALSE, s)
        /\ Finish(q)
    BY DEF OpenVisit
  <1>3. groupTable[g] = None
    BY <1>2 DEF VisitInv, VisitRows
  <1>4. TablesOfVisitsStay
    BY <1>2, <1>3 DEF VisitInv, RowTypes, TablesOfVisitsStay
  <1>5. VisitRows'
    BY <1>1, <1>2, NoneAssumption DEF VisitInv, RowTypes, VisitRows
  <1>6. \A h \in Groups : groupStatus[h] = "open" => groupTable[h] # t
    BY DEF OpenVisit, Unvisited, OpenGroupsAt
  <1>7. OneOpenVisitPerTable'
    BY <1>2, <1>6 DEF VisitInv, RowTypes, OneOpenVisitPerTable
  <1>8. tableStatus' \in [Tables -> TableStatus]
    BY DEF OpenVisit, SeatTable, VisitInv, RowTypes, TableStatus
  <1>9. /\ groupStatus' \in [Groups -> {"unopened", "open", "closed"}]
        /\ groupTable' \in [Groups -> Tables \cup {None}]
        /\ groupStatus'[g] = "open" /\ groupTable'[g] = t
        /\ \A h \in Groups : groupStatus[h] = "open" => groupStatus'[h] = "open"
    BY <1>1, <1>2 DEF VisitInv, RowTypes
  <1> QED
    BY <1>1, <1>2, <1>4, <1>5, <1>7, <1>8, <1>9, InsertKeepsVisitInv

\* What a payment does to the orders of a bill.
LEMMA CompleteOrdersKeepsRows ==
  ASSUME RowTypes, NEW bill \in SUBSET Orders, CompleteOrders(bill)
  PROVE  /\ orderStatus' \in [Orders -> OrderStatus \cup {"unplaced"}]
         /\ statusEvents' \in
              [Orders -> Seq((OrderStatus \cup {"unplaced"}) \X OrderStatus)]
  <1> DEFINE Event == (OrderStatus \cup {"unplaced"}) \X OrderStatus
  <1>1. {"served", "paid", "completed"} \subseteq OrderStatus
    BY DEF OrderStatus, TerminalStatuses
  <1>2. CompletionEvents \in Seq(Event)
    <2>1. <<"served", "paid">> \in Event /\ <<"paid", "completed">> \in Event
      BY <1>1
    <2> QED
      BY <2>1 DEF CompletionEvents
  <1>3. ASSUME NEW o \in Orders
        PROVE  statusEvents[o] \in Seq(Event)
               /\ statusEvents[o] \o CompletionEvents \in Seq(Event)
    <2>1. statusEvents[o] \in Seq(Event)
      BY DEF RowTypes
    <2> HIDE DEF Event
    <2> QED
      BY <1>2, <2>1
  <1> QED
    BY <1>1, <1>3 DEF RowTypes, CompleteOrders

\* A payment closes the one visit whose orders it completes.
LEMMA PaymentKeepsVisitInv ==
  ASSUME VisitInv, NEW g \in Groups, NEW e \in Employees, RecordPayment(g, e)
  PROVE  VisitInv'
  <1> DEFINE bill == Billable(g)
  <1>1. /\ CompleteOrders(bill)
        /\ groupStatus' = [groupStatus EXCEPT ![g] = "closed"]
        /\ tableStatus' = [tableStatus EXCEPT ![groupTable[g]] = "needs_cleaning"]
        /\ UNCHANGED <<tableActive, groupTable, orderGroup, orderTable, orderAddon,
                       cancelledBy, req>>
        /\ groupStatus[g] = "open"
    BY DEF RecordPayment, CloseGroup, SendToCleaning
  <1>2. bill \in SUBSET Orders
    BY DEF Billable, OrdersOf
  <1>3. orderStatus' =
          [o \in Orders |-> IF o \in bill THEN "completed" ELSE orderStatus[o]]
    BY <1>1 DEF CompleteOrders
  <1>4. \A o \in bill : orderStatus[o] = "served"
    BY DEF Billable
  <1>5. \A o \in Orders : Placed(o)' <=> Placed(o)
    BY <1>2, <1>3, <1>4 DEF VisitInv, RowTypes, Placed
  <1>6. RowTypes'
    <2>1. tableStatus' \in [Tables -> TableStatus]
      BY <1>1 DEF VisitInv, RowTypes, TableStatus
    <2>2. groupStatus' \in [Groups -> {"unopened", "open", "closed"}]
      BY <1>1 DEF VisitInv, RowTypes
    <2> QED
      BY <1>1, <1>2, <2>1, <2>2, CompleteOrdersKeepsRows DEF VisitInv, RowTypes
  <1>7. VisitRows'
    BY <1>1 DEF VisitInv, RowTypes, VisitRows
  <1>8. OrderRows' /\ SlotRows'
    BY <1>1, <1>5 DEF VisitInv, OrderRows, SlotRows
  <1>9. OneOpenVisitPerTable'
    BY <1>1 DEF VisitInv, RowTypes, OneOpenVisitPerTable
  <1>10. LiveOrdersAreInOpenVisits'
    <2> SUFFICES ASSUME NEW o \in Orders,
                        orderStatus'[o] \in InFlightStatuses \cup {"served"}
                 PROVE  groupStatus'[orderGroup[o]] = "open"
      BY <1>1 DEF LiveOrdersAreInOpenVisits
    <2>1. o \notin bill /\ orderStatus'[o] = orderStatus[o]
      BY <1>3 DEF InFlightStatuses
    <2>2. orderGroup[o] \in Groups /\ groupStatus[orderGroup[o]] = "open"
      BY <2>1 DEF VisitInv, OrderRows, LiveOrdersAreInOpenVisits, Placed,
                  InFlightStatuses
    <2>3. orderGroup[o] # g
      BY <2>1 DEF RecordPayment, ReadyToPay, Blocking, Billable, OrdersOf
    <2> QED
      BY <1>1, <2>2, <2>3 DEF VisitInv, RowTypes
  <1> QED
    BY <1>6, <1>7, <1>8, <1>9, <1>10 DEF VisitInv

-----------------------------------------------------------------------------
(***************************************************************************)
(* The invariant over the whole next-state relation.                       *)
(***************************************************************************)

LEMMA InitVisitInv == Init => VisitInv
  BY NoneAssumption
  DEF Init, VisitInv, RowTypes, VisitRows, OrderRows, SlotRows, Placed, Idle,
      OneOpenVisitPerTable, LiveOrdersAreInOpenVisits, TableStatus,
      InFlightStatuses

LEMMA OrderStepKeepsVisitInv ==
  ASSUME VisitInv, NEW q \in Requests, OrderStep(q)
  PROVE  VisitInv'
  <1>1. ASSUME NEW o \in Orders, NEW action \in Actions, NEW role \in Roles,
               BeginTransition(q, o, action, role)
        PROVE  VisitInv'
    <2> DEFINE r == [kind |-> "transition", order |-> o, action |-> action,
                     from |-> orderStatus[o], role |-> role]
    <2>1. orderStatus[o] \in OrderStatus
      BY <1>1 DEF BeginTransition, Placed, VisitInv, RowTypes
    <2>2. r \in Suspended
      BY <2>1 DEF Suspended, TransitionRequest
    <2> QED
      BY <1>1, <2>2, BeginKeepsVisitInv DEF BeginTransition
  <1>2. CASE CommitTransition(q)
    BY <1>2, CommitTransitionKeepsVisitInv
  <1>3. CASE LoseTransition(q) \/ RefuseOrder(q)
    <2>1. Finish(q) /\ UNCHANGED <<tableVars, groupVars, orderVars>>
      BY <1>3 DEF LoseTransition, RefuseOrder
    <2> QED
      BY <2>1, FinishKeepsVisitInv DEF VisitInv, RowTypes, tableVars
  <1>4. ASSUME NEW t \in Tables, BeginCreate(q, t)
        PROVE  VisitInv'
    <2>1. [kind |-> "create", table |-> t] \in Suspended
      BY DEF Suspended, CreateRequest
    <2> QED
      BY <1>4, <2>1, BeginKeepsVisitInv DEF BeginCreate
  <1>5. ASSUME NEW parent \in Orders, BeginAddon(q, parent)
        PROVE  VisitInv'
    <2> DEFINE r == [kind |-> "addon", table |-> orderTable[parent],
                     group |-> orderGroup[parent]]
    <2>1. /\ orderGroup[parent] \in Groups
          /\ groupTable[orderGroup[parent]] # None
          /\ orderTable[parent] = groupTable[orderGroup[parent]]
      BY <1>5 DEF BeginAddon, VisitInv, OrderRows
    <2>2. r \in Suspended
      BY <2>1 DEF Suspended, AddonRequest, VisitInv, RowTypes
    <2> QED
      BY <1>5, <2>1, <2>2, BeginKeepsVisitInv DEF BeginAddon
  <1>6. ASSUME NEW o \in Orders, NEW g \in Groups, NEW s \in Subtotals,
               JoinVisit(q, o, g, s) \/ OpenVisit(q, o, g, s)
        PROVE  VisitInv'
    BY <1>6, JoinVisitKeepsVisitInv, OpenVisitKeepsVisitInv
  <1>7. ASSUME NEW o \in Orders, NEW s \in Subtotals, CommitAddon(q, o, s)
        PROVE  VisitInv'
    BY <1>7, CommitAddonKeepsVisitInv
  <1> QED
    BY <1>1, <1>2, <1>3, <1>4, <1>5, <1>6, <1>7 DEF OrderStep

LEMMA TableStepKeepsVisitInv ==
  ASSUME VisitInv, NEW q \in Requests, TableStep(q)
  PROVE  VisitInv'
  <1>1. ASSUME NEW t \in Tables, BeginRemove(q, t) \/ BeginClean(q, t)
        PROVE  VisitInv'
    <2>1. /\ [kind |-> "remove", table |-> t] \in Suspended
          /\ [kind |-> "clean", table |-> t] \in Suspended
      BY DEF Suspended, RemoveRequest, CleanRequest
    <2> QED
      BY <1>1, <2>1, BeginKeepsVisitInv DEF BeginRemove, BeginClean
  <1>2. CASE CommitRemove(q)
    BY <1>2, FinishKeepsVisitInv DEF CommitRemove, VisitInv, RowTypes
  <1>3. CASE CommitClean(q)
    <2>1. tableStatus' \in [Tables -> TableStatus]
      BY <1>3 DEF CommitClean, VisitInv, RowTypes, TableStatus
    <2> QED
      BY <1>3, <2>1, FinishKeepsVisitInv DEF CommitClean, VisitInv, RowTypes
  <1> QED
    BY <1>1, <1>2, <1>3 DEF TableStep

\* Shifts, the tax rate and a restart leave the rows of VisitInv alone.
LEMMA RestKeepsVisitInv ==
  ASSUME VisitInv,
         \/ UNCHANGED <<tableVars, groupVars, orderVars, req>>
         \/ Crash
  PROVE  VisitInv'
  <1>1. UNCHANGED <<tableVars, groupVars, orderVars>>
    BY DEF Crash
  <1>2. req' = req \/ req' = [q \in Requests |-> Idle]
    BY DEF Crash
  <1>3. RowTypes'
    BY <1>1, <1>2 DEF VisitInv, RowTypes, tableVars, groupVars, orderVars
  <1>4. SlotRows'
    BY <1>1, <1>2 DEF VisitInv, SlotRows, Idle, groupVars
  <1> QED
    BY <1>1, <1>3, <1>4, RowsUnchanged

LEMMA StepKeepsVisitInv == VisitInv /\ [Next]_vars => VisitInv'
  <1> SUFFICES ASSUME VisitInv, [Next]_vars
               PROVE  VisitInv'
    OBVIOUS
  <1>1. ASSUME NEW q \in Requests, OrderStep(q) \/ TableStep(q)
        PROVE  VisitInv'
    BY <1>1, OrderStepKeepsVisitInv, TableStepKeepsVisitInv
  <1>2. CASE BillingStep
    <2>1. ASSUME NEW g \in Groups, NEW e \in Employees, RecordPayment(g, e)
          PROVE  VisitInv'
      BY <2>1, PaymentKeepsVisitInv
    <2>2. ASSUME NEW s \in Shifts, NEW e \in Employees, NEW f \in Floats,
                 OpenShift(s, e, f)
          PROVE  VisitInv'
      BY <2>2, RestKeepsVisitInv DEF OpenShift
    <2>3. ASSUME NEW s \in Shifts, NEW e \in Employees,
                 NEW role \in Roles \cup {"cashier"}, CloseShift(s, e, role)
          PROVE  VisitInv'
      BY <2>3, RestKeepsVisitInv DEF CloseShift
    <2> QED
      BY <1>2, <2>1, <2>2, <2>3 DEF BillingStep
  <1>3. ASSUME NEW bps \in TaxRates, SetTaxRate(bps)
        PROVE  VisitInv'
    BY <1>3, RestKeepsVisitInv DEF SetTaxRate
  <1>4. CASE Crash \/ UNCHANGED vars
    BY <1>4, RestKeepsVisitInv DEF vars
  <1> QED
    BY <1>1, <1>2, <1>3, <1>4 DEF Next

-----------------------------------------------------------------------------
(***************************************************************************)
(* The theorems.                                                           *)
(***************************************************************************)

\* The inductive invariant: in every reachable state the rows and the
\* suspended handlers fit together.
THEOREM VisitInvariant == Spec => []VisitInv
  BY InitVisitInv, StepKeepsVisitInv, PTL DEF Spec

\* However creates, add-ons, payments and restarts interleave, no table ever
\* has two open visits.
THEOREM NeverTwoOpenVisits == Spec => []OneOpenVisitPerTable
  <1>1. VisitInv => OneOpenVisitPerTable
    BY DEF VisitInv
  <1> QED
    BY <1>1, VisitInvariant, PTL

\* No order is still in the kitchen, or served and uncharged, in a visit that
\* has been paid.
THEOREM NothingLiveInClosedVisits == Spec => []LiveOrdersAreInOpenVisits
  <1>1. VisitInv => LiveOrdersAreInOpenVisits
    BY DEF VisitInv
  <1> QED
    BY <1>1, VisitInvariant, PTL

-----------------------------------------------------------------------------
(***************************************************************************)
(* Lifecycle of an order.                                                  *)
(***************************************************************************)
LifecycleStep ==
  \A o \in Orders :
    orderStatus'[o] # orderStatus[o]
      => <<orderStatus[o], orderStatus'[o]>> \in LifecycleEdges

LEMMA StepsFollowLifecycle == VisitInv /\ [Next]_vars => [LifecycleStep]_orderStatus
  <1> SUFFICES ASSUME VisitInv, Next, orderStatus' # orderStatus
               PROVE  LifecycleStep
    BY DEF vars, orderVars
  <1>1. ASSUME NEW q \in Requests, CommitTransition(q)
        PROVE  LifecycleStep
    <2>1. req[q] \in TransitionRequest /\ req[q].from \in ExpectedFrom[req[q].action]
      BY <1>1, SlotShape DEF VisitInv, RowTypes, SlotRows, CommitTransition
    <2>2. <<req[q].from, ToStatus(req[q].action, req[q].from)>> \in LifecycleEdges
      BY <2>1, TransitionStatuses DEF TransitionRequest
    <2> QED
      BY <1>1, <2>1, <2>2
      DEF CommitTransition, StillExpected, LifecycleStep, VisitInv, RowTypes,
          TransitionRequest
  <1>2. ASSUME NEW o \in Orders, NEW g, NEW t, NEW addon, NEW s,
               InsertOrder(o, g, t, addon, s)
        PROVE  LifecycleStep
    BY <1>2 DEF InsertOrder, Placed, LifecycleStep, LifecycleEdges, VisitInv, RowTypes
  <1>3. ASSUME NEW g \in Groups, NEW e \in Employees, RecordPayment(g, e)
        PROVE  LifecycleStep
    BY <1>3 DEF RecordPayment, CompleteOrders, Billable, LifecycleStep, LifecycleEdges
  <1>4. ASSUME NEW q \in Requests, OrderStep(q)
        PROVE  LifecycleStep
    <2>1. \/ CommitTransition(q)
          \/ \E o \in Orders : \E g, t, addon, s : InsertOrder(o, g, t, addon, s)
      BY <1>4
      DEF OrderStep, BeginTransition, LoseTransition, BeginCreate, BeginAddon,
          RefuseOrder, orderVars, JoinVisit, OpenVisit, CommitAddon
    <2> QED
      BY <1>1, <1>2, <2>1
  <1>5. ASSUME NEW q \in Requests, TableStep(q)
        PROVE  FALSE
    BY <1>5 DEF TableStep, BeginRemove, BeginClean, CommitRemove, CommitClean,
                orderVars
  <1>6. ASSUME BillingStep
        PROVE  LifecycleStep
    BY <1>3, <1>6 DEF BillingStep, OpenShift, CloseShift, orderVars
  <1> QED
    BY <1>4, <1>5, <1>6 DEF Next, SetTaxRate, Crash, orderVars

\* No handler, however late it writes, moves an order along anything but an
\* edge of the PRD lifecycle.
THEOREM OrdersFollowLifecycle == Spec => LifecycleRespected
  <1>1. Spec => [][LifecycleStep]_orderStatus
    BY VisitInvariant, StepsFollowLifecycle, PTL DEF Spec
  <1>2. (Spec => [][LifecycleStep]_orderStatus) => (Spec => LifecycleRespected)
    BY DEF LifecycleRespected, LifecycleStep
  <1> QED
    BY <1>1, <1>2

-----------------------------------------------------------------------------
(***************************************************************************)
(* A visit is closed by its payment.                                       *)
(***************************************************************************)
PaidInv ==
  /\ payment = [g \in Groups |-> payment[g]]
  /\ ClosedByOnePayment

\* Steps that touch no payment and close no visit, and take no order out of
\* the status completed.
LEMMA UnpaidStepKeepsPaidInv ==
  ASSUME VisitInv, PaidInv, payment' = payment,
         \A g \in Groups : groupStatus'[g] = "closed" <=> groupStatus[g] = "closed",
         \A o \in Orders :
           orderStatus[o] = "completed" =>
             orderStatus'[o] = "completed" /\ orderGroup'[o] = orderGroup[o]
  PROVE  PaidInv'
  BY DEF PaidInv, ClosedByOnePayment, OrdersOf

LEMMA PaymentKeepsPaidInv ==
  ASSUME VisitInv, PaidInv, NEW g \in Groups, NEW e \in Employees,
         RecordPayment(g, e)
  PROVE  PaidInv'
  <1> DEFINE amount == BillTotal(Billable(g))
             row == [amount |-> amount, collector |-> e, shift |-> LinkedShift(e)]
  <1>1. amount # 0
    <2>1. amount > 0
      BY DEF RecordPayment
    <2> HIDE DEF amount
    <2> QED
      BY <2>1
  <1>2. row # NoPayment
    <2> HIDE DEF amount
    <2> QED
      BY <1>1 DEF NoPayment
  <1>3. /\ payment' = [payment EXCEPT ![g] = row]
        /\ groupStatus' = [groupStatus EXCEPT ![g] = "closed"]
        /\ orderGroup' = orderGroup
        /\ orderStatus' =
             [o \in Orders |-> IF o \in Billable(g) THEN "completed" ELSE orderStatus[o]]
    BY DEF RecordPayment, CloseGroup, CompleteOrders
  <1>4. \E o \in OrdersOf(g) : orderStatus'[o] = "completed"
    BY <1>3 DEF RecordPayment, ReadyToPay, Billable, OrdersOf
  <1> HIDE DEF row
  <1>5. payment' = [h \in Groups |-> payment'[h]]
    BY <1>3 DEF PaidInv
  <1>6. ASSUME NEW h \in Groups
        PROVE  /\ groupStatus'[h] = "closed" <=> payment'[h] # NoPayment
               /\ groupStatus'[h] = "closed" =>
                    \E o \in Orders : orderGroup'[o] = h /\ orderStatus'[o] = "completed"
    <2>1. CASE h = g
      BY <1>2, <1>3, <1>4, <2>1 DEF PaidInv, VisitInv, RowTypes, OrdersOf
    <2>2. CASE h # g
      BY <1>3, <2>2 DEF PaidInv, ClosedByOnePayment, VisitInv, RowTypes, OrdersOf
    <2> QED
      BY <2>1, <2>2
  <1> QED
    BY <1>5, <1>6 DEF PaidInv, ClosedByOnePayment, OrdersOf, NoPayment

LEMMA StepKeepsPaidInv == VisitInv /\ PaidInv /\ [Next]_vars => PaidInv'
  <1> SUFFICES ASSUME VisitInv, PaidInv, [Next]_vars
               PROVE  PaidInv'
    OBVIOUS
  <1>1. ASSUME NEW q \in Requests, CommitTransition(q)
        PROVE  PaidInv'
    <2>1. req[q] \in TransitionRequest /\ req[q].from \in ExpectedFrom[req[q].action]
      BY <1>1, SlotShape DEF VisitInv, RowTypes, SlotRows, CommitTransition
    <2>2. req[q].from # "completed"
      BY <2>1, TransitionStatuses DEF TransitionRequest, InFlightStatuses
    <2> QED
      BY <1>1, <2>1, <2>2, UnpaidStepKeepsPaidInv
      DEF CommitTransition, StillExpected, VisitInv, RowTypes, TransitionRequest,
          groupVars
  <1>2. ASSUME NEW o \in Orders, NEW g, NEW t, NEW addon, NEW s, NEW h \in Groups,
               InsertOrder(o, g, t, addon, s),
               \/ UNCHANGED groupStatus
               \/ /\ groupStatus[h] = "unopened"
                  /\ groupStatus' = [groupStatus EXCEPT ![h] = "open"]
        PROVE  PaidInv'
    <2>1. \A k \in Groups : groupStatus'[k] = "closed" <=> groupStatus[k] = "closed"
      BY <1>2 DEF VisitInv, RowTypes
    <2>2. \A p \in Orders :
            orderStatus[p] = "completed" =>
              orderStatus'[p] = "completed" /\ orderGroup'[p] = orderGroup[p]
      BY <1>2 DEF InsertOrder, Placed, VisitInv, RowTypes
    <2> QED
      BY <1>2, <2>1, <2>2, UnpaidStepKeepsPaidInv DEF InsertOrder, moneyVars
  <1>3. ASSUME NEW q \in Requests, OrderStep(q)
        PROVE  PaidInv'
    <2>1. ASSUME NEW o \in Orders, NEW g \in Groups, NEW s \in Subtotals,
                 JoinVisit(q, o, g, s) \/ OpenVisit(q, o, g, s)
          PROVE  PaidInv'
      BY <1>2, <2>1 DEF JoinVisit, OpenVisit, groupVars
    <2>2. ASSUME NEW o \in Orders, NEW s \in Subtotals, CommitAddon(q, o, s)
          PROVE  PaidInv'
      <3>1. req[q].group \in Groups
        BY <2>2, SlotShape DEF VisitInv, RowTypes, CommitAddon, AddonRequest
      <3> QED
        BY <1>2, <2>2, <3>1 DEF CommitAddon, groupVars
    <2>3. \/ CommitTransition(q)
          \/ \E o \in Orders, g \in Groups, s \in Subtotals :
               JoinVisit(q, o, g, s) \/ OpenVisit(q, o, g, s)
          \/ \E o \in Orders, s \in Subtotals : CommitAddon(q, o, s)
          \/ UNCHANGED <<groupVars, orderVars, moneyVars>>
      BY <1>3 DEF OrderStep, BeginTransition, LoseTransition, BeginCreate,
                  BeginAddon, RefuseOrder
    <2> QED
      BY <1>1, <2>1, <2>2, <2>3, UnpaidStepKeepsPaidInv
      DEF groupVars, orderVars, moneyVars
  <1>4. ASSUME NEW g \in Groups, NEW e \in Employees, RecordPayment(g, e)
        PROVE  PaidInv'
    BY <1>4, PaymentKeepsPaidInv
  <1>5. CASE UNCHANGED <<groupVars, orderVars, payment>>
    BY <1>5, UnpaidStepKeepsPaidInv DEF groupVars, orderVars
  <1>6. \/ \E q \in Requests : OrderStep(q)
        \/ \E g \in Groups, e \in Employees : RecordPayment(g, e)
        \/ UNCHANGED <<groupVars, orderVars, payment>>
    BY DEF Next, TableStep, BeginRemove, BeginClean, CommitRemove, CommitClean,
           BillingStep, OpenShift, CloseShift, SetTaxRate, Crash, vars, moneyVars
  <1> QED
    BY <1>3, <1>4, <1>5, <1>6

\* A visit is closed exactly when it has its payment, and then something of it
\* was served and completed.
THEOREM VisitsCloseByPayment == Spec => []ClosedByOnePayment
  <1>1. Init => PaidInv
    BY NoneAssumption DEF Init, PaidInv, ClosedByOnePayment
  <1>2. PaidInv => ClosedByOnePayment
    BY DEF PaidInv
  <1>3. Spec => []PaidInv
    BY <1>1, StepKeepsPaidInv, VisitInvariant, PTL DEF Spec
  <1> QED
    BY <1>2, <1>3, PTL

-----------------------------------------------------------------------------
(***************************************************************************)
(* Seating, when no table is cleaned by two requests at once.              *)
(***************************************************************************)

\* A clean request in flight was read off a table that is still dirty.
CleanSlots ==
  \A q \in Requests :
    req[q].kind = "clean" => tableStatus[req[q].table] = "needs_cleaning"

SeatingInv == CleanSlots /\ SerialCleaning /\ OccupiedIffVisited

LEMMA SeatingUnchanged ==
  ASSUME VisitInv, SeatingInv, UNCHANGED <<tableStatus, groupVars>>,
         SerialCleaning',
         \A q \in Requests :
           req'[q].kind = "clean" =>
             req'[q] = req[q] \/ tableStatus[req'[q].table] = "needs_cleaning"
  PROVE  SeatingInv'
  BY DEF SeatingInv, CleanSlots, OccupiedIffVisited, OpenGroupsAt, groupVars

\* A new visit seats its table, which was neither occupied nor dirty.
LEMMA OpenVisitSeats ==
  ASSUME VisitInv, SeatingInv, NEW q \in Requests, NEW o \in Orders,
         NEW g \in Groups, NEW s \in Subtotals, OpenVisit(q, o, g, s)
  PROVE  /\ tableStatus[req[q].table] = "available"
         /\ tableStatus' = [tableStatus EXCEPT ![req[q].table] = "occupied"]
  <1>1. req[q].table \in Tables
    BY SlotShape DEF VisitInv, RowTypes, OpenVisit, CreateRequest
  <1>2. tableStatus[req[q].table] = "available"
    BY <1>1 DEF OpenVisit, Orderable, Unvisited, SeatingInv, OccupiedIffVisited,
                VisitInv, RowTypes, TableStatus
  <1> QED
    BY <1>2 DEF OpenVisit, SeatTable

LEMMA OpenVisitKeepsSeatingInv ==
  ASSUME VisitInv, SeatingInv, SerialCleaning', NEW q \in Requests,
         NEW o \in Orders, NEW g \in Groups, NEW s \in Subtotals,
         OpenVisit(q, o, g, s)
  PROVE  SeatingInv'
  <1> DEFINE t == req[q].table
  <1>1. t \in Tables
    BY SlotShape DEF VisitInv, RowTypes, OpenVisit, CreateRequest
  <1>2. /\ tableStatus[t] = "available"
        /\ tableStatus' = [tableStatus EXCEPT ![t] = "occupied"]
    BY OpenVisitSeats
  <1>3. /\ groupStatus[g] = "unopened"
        /\ groupStatus' = [groupStatus EXCEPT ![g] = "open"]
        /\ groupTable' = [groupTable EXCEPT ![g] = t]
        /\ req' = [req EXCEPT ![q] = Idle]
    BY DEF OpenVisit, Finish
  <1>4. CleanSlots'
    BY <1>2, <1>3 DEF SeatingInv, CleanSlots, VisitInv, RowTypes, Idle
  <1>5. ASSUME NEW u \in Tables
        PROVE  tableStatus'[u] = "occupied" <=> OpenGroupsAt(u)' # {}
    <2>1. CASE u = t
      BY <1>2, <1>3, <2>1 DEF VisitInv, RowTypes, OpenGroupsAt
    <2>2. CASE u # t
      BY <1>1, <1>2, <1>3, <2>2
      DEF SeatingInv, OccupiedIffVisited, VisitInv, RowTypes, OpenGroupsAt
    <2> QED
      BY <2>1, <2>2
  <1> QED
    BY <1>4, <1>5 DEF SeatingInv, OccupiedIffVisited

\* The payment empties its table, where no other visit is open.
LEMMA PaymentKeepsSeatingInv ==
  ASSUME VisitInv, SeatingInv, SerialCleaning', NEW g \in Groups,
         NEW e \in Employees, RecordPayment(g, e)
  PROVE  SeatingInv'
  <1> DEFINE t == groupTable[g]
  <1>1. /\ groupStatus[g] = "open"
        /\ tableStatus[t] = "occupied"
        /\ tableStatus' = [tableStatus EXCEPT ![t] = "needs_cleaning"]
        /\ groupStatus' = [groupStatus EXCEPT ![g] = "closed"]
        /\ UNCHANGED <<groupTable, req>>
    BY DEF RecordPayment, CloseGroup, SendToCleaning
  <1>2. t \in Tables
    BY <1>1 DEF VisitInv, RowTypes, VisitRows
  <1>3. CleanSlots'
    <2> SUFFICES ASSUME NEW q \in Requests, req[q].kind = "clean"
                 PROVE  tableStatus'[req[q].table] = "needs_cleaning"
      BY <1>1 DEF CleanSlots
    <2>1. req[q].table \in Tables
      BY SlotShape DEF VisitInv, RowTypes, CleanRequest
    <2> QED
      BY <1>1, <2>1 DEF SeatingInv, CleanSlots, VisitInv, RowTypes
  <1>4. ASSUME NEW u \in Tables
        PROVE  tableStatus'[u] = "occupied" <=> OpenGroupsAt(u)' # {}
    <2>1. CASE u = t
      <3>1. OpenGroupsAt(u)' = {}
        BY <1>1, <2>1 DEF VisitInv, RowTypes, OneOpenVisitPerTable, OpenGroupsAt
      <3>2. tableStatus'[u] = "needs_cleaning"
        BY <1>1, <1>2, <2>1 DEF VisitInv, RowTypes
      <3> QED
        BY <3>1, <3>2
    <2>2. CASE u # t
      BY <1>1, <2>2
      DEF SeatingInv, OccupiedIffVisited, VisitInv, RowTypes, OpenGroupsAt
    <2> QED
      BY <2>1, <2>2
  <1> QED
    BY <1>3, <1>4 DEF SeatingInv, OccupiedIffVisited

\* The table being freed is dirty, hence empty, and nobody else is cleaning it.
LEMMA CleanKeepsSeatingInv ==
  ASSUME VisitInv, SeatingInv, SerialCleaning', NEW q \in Requests, CommitClean(q)
  PROVE  SeatingInv'
  <1> DEFINE t == req[q].table
  <1>1. t \in Tables
    BY SlotShape DEF VisitInv, RowTypes, CommitClean, CleanRequest
  <1>2. /\ req[q].kind = "clean"
        /\ tableStatus' = [tableStatus EXCEPT ![t] = "available"]
        /\ req' = [req EXCEPT ![q] = Idle]
        /\ UNCHANGED <<groupStatus, groupTable>>
    BY DEF CommitClean, Finish, groupVars
  <1>3. tableStatus[t] = "needs_cleaning"
    BY <1>2 DEF SeatingInv, CleanSlots
  <1>4. CleanSlots'
    BY <1>2 DEF SeatingInv, CleanSlots, SerialCleaning, VisitInv, RowTypes, Idle
  <1>5. OccupiedIffVisited'
    BY <1>1, <1>2, <1>3
    DEF SeatingInv, OccupiedIffVisited, VisitInv, RowTypes, OpenGroupsAt
  <1> QED
    BY <1>4, <1>5 DEF SeatingInv

LEMMA InitSeatingInv == Init => SeatingInv
  BY NoneAssumption
  DEF Init, SeatingInv, CleanSlots, SerialCleaning, OccupiedIffVisited,
      OpenGroupsAt, Idle

LEMMA StepKeepsSeatingInv ==
  VisitInv /\ SeatingInv /\ [Next /\ SerialCleaning']_vars => SeatingInv'
  <1> SUFFICES ASSUME VisitInv, SeatingInv, [Next /\ SerialCleaning']_vars
               PROVE  SeatingInv'
    OBVIOUS
  <1>1. CASE UNCHANGED vars
    BY <1>1, SeatingUnchanged
    DEF vars, tableVars, groupVars, SeatingInv, SerialCleaning
  <1> SUFFICES ASSUME Next, SerialCleaning'
               PROVE  SeatingInv'
    BY <1>1
  <1>2. ASSUME NEW q \in Requests, Finish(q), UNCHANGED <<tableStatus, groupVars>>
        PROVE  SeatingInv'
    <2>1. \A p \in Requests : req'[p].kind = "clean" => req'[p] = req[p]
      BY <1>2 DEF Finish, Idle, VisitInv, RowTypes
    <2> QED
      BY <1>2, <2>1, SeatingUnchanged
  <1>3. ASSUME NEW q \in Requests, NEW r, Begin(q, r),
               UNCHANGED <<tableStatus, groupVars>>,
               r.kind = "clean" => tableStatus[r.table] = "needs_cleaning"
        PROVE  SeatingInv'
    <2>1. \A p \in Requests :
            req'[p].kind = "clean" =>
              req'[p] = req[p] \/ tableStatus[req'[p].table] = "needs_cleaning"
      BY <1>3 DEF Begin, VisitInv, RowTypes
    <2> QED
      BY <1>3, <2>1, SeatingUnchanged
  <1>4. ASSUME NEW q \in Requests, OrderStep(q)
        PROVE  SeatingInv'
    <2>1. ASSUME NEW o \in Orders, NEW g \in Groups, NEW s \in Subtotals,
                 OpenVisit(q, o, g, s)
          PROVE  SeatingInv'
      BY <2>1, OpenVisitKeepsSeatingInv
    <2>2. CASE Finish(q) /\ UNCHANGED <<tableStatus, groupVars>>
      BY <1>2, <2>2
    <2>3. CASE \E r : Begin(q, r) /\ r.kind # "clean"
                      /\ UNCHANGED <<tableStatus, groupVars>>
      BY <1>3, <2>3
    <2>4. ASSUME NEW o \in Orders, NEW action \in Actions, NEW role \in Roles,
                 BeginTransition(q, o, action, role)
          PROVE  \E r : Begin(q, r) /\ r.kind # "clean"
                        /\ UNCHANGED <<tableStatus, groupVars>>
      BY <2>4 DEF BeginTransition, tableVars
    <2>5. ASSUME NEW t \in Tables, BeginCreate(q, t)
          PROVE  \E r : Begin(q, r) /\ r.kind # "clean"
                        /\ UNCHANGED <<tableStatus, groupVars>>
      BY <2>5 DEF BeginCreate, tableVars
    <2>6. ASSUME NEW parent \in Orders, BeginAddon(q, parent)
          PROVE  \E r : Begin(q, r) /\ r.kind # "clean"
                        /\ UNCHANGED <<tableStatus, groupVars>>
      BY <2>6 DEF BeginAddon, tableVars
    <2>7. ASSUME NEW o \in Orders, NEW g \in Groups, NEW s \in Subtotals,
                 JoinVisit(q, o, g, s) \/ CommitAddon(q, o, s)
          PROVE  Finish(q) /\ UNCHANGED <<tableStatus, groupVars>>
      BY <2>7 DEF JoinVisit, CommitAddon
    <2>8. ASSUME CommitTransition(q) \/ LoseTransition(q) \/ RefuseOrder(q)
          PROVE  Finish(q) /\ UNCHANGED <<tableStatus, groupVars>>
      BY <2>8 DEF CommitTransition, LoseTransition, RefuseOrder, tableVars
    <2>9. ASSUME NEW o \in Orders, NEW s \in Subtotals, CommitAddon(q, o, s)
          PROVE  Finish(q) /\ UNCHANGED <<tableStatus, groupVars>>
      BY <2>9 DEF CommitAddon
    <2> QED
      BY <1>4, <2>1, <2>2, <2>3, <2>4, <2>5, <2>6, <2>7, <2>8, <2>9 DEF OrderStep
  <1>5. ASSUME NEW q \in Requests, TableStep(q)
        PROVE  SeatingInv'
    <2>1. ASSUME NEW t \in Tables, BeginRemove(q, t) \/ BeginClean(q, t)
          PROVE  SeatingInv'
      BY <1>3, <2>1 DEF BeginRemove, BeginClean, tableVars
    <2>2. CASE CommitRemove(q)
      BY <1>2, <2>2 DEF CommitRemove
    <2>3. CASE CommitClean(q)
      BY <2>3, CleanKeepsSeatingInv
    <2> QED
      BY <1>5, <2>1, <2>2, <2>3 DEF TableStep
  <1>6. CASE BillingStep
    <2>1. ASSUME NEW g \in Groups, NEW e \in Employees, RecordPayment(g, e)
          PROVE  SeatingInv'
      BY <2>1, PaymentKeepsSeatingInv
    <2>2. CASE UNCHANGED <<tableVars, groupVars, req>>
      BY <2>2, SeatingUnchanged DEF tableVars
    <2> QED
      BY <1>6, <2>1, <2>2 DEF BillingStep, OpenShift, CloseShift
  <1>7. ASSUME NEW bps \in TaxRates, SetTaxRate(bps)
        PROVE  SeatingInv'
    BY <1>7, SeatingUnchanged DEF SetTaxRate, tableVars
  <1>8. CASE Crash
    BY <1>8, SeatingUnchanged DEF Crash, tableVars, Idle
  <1> QED
    BY <1>4, <1>5, <1>6, <1>7, <1>8 DEF Next

LEMMA SerialInvariant == SerialSpec => [](VisitInv /\ SeatingInv)
  <1>1. Init => VisitInv /\ SeatingInv
    BY InitVisitInv, InitSeatingInv
  <1>2. VisitInv /\ SeatingInv /\ [Next /\ SerialCleaning']_vars
          => (VisitInv /\ SeatingInv)'
    BY StepKeepsVisitInv, StepKeepsSeatingInv
  <1> QED
    BY <1>1, <1>2, PTL DEF SerialSpec

\* With one cleaner per table at a time, a table is occupied exactly while a
\* visit is open at it, so no payment is refused for the state of its table.
THEOREM OccupiedExactlyWhileVisited == SerialSpec => []OccupiedIffVisited
  <1>1. SeatingInv => OccupiedIffVisited
    BY DEF SeatingInv
  <1> QED
    BY <1>1, SerialInvariant, PTL

-----------------------------------------------------------------------------
(***************************************************************************)
(* The floor implements the guests' view of a visit.                       *)
(***************************************************************************)
LEMMA InitMapsToInit == Init => GV!Init
  <1> SUFFICES ASSUME Init PROVE GV!Init
    OBVIOUS
  <1>1. Phase = [t \in Tables |-> "free"]
    BY DEF Init, Phase, PhaseOf
  <1>2. Tab = [g \in Groups |-> {}]
    BY NoneAssumption DEF Init, Tab, OrdersOf
  <1>3. PaidVisits = {}
    BY DEF Init, PaidVisits
  <1> QED
    BY <1>1, <1>2, <1>3 DEF Init, GV!Init

\* A table that changes its status changes its phase.
LEMMA PhaseFollowsStatus ==
  ASSUME RowTypes, NEW t \in Tables, NEW s \in TableStatus,
         tableStatus' = [tableStatus EXCEPT ![t] = s]
  PROVE  Phase[t] = PhaseOf[tableStatus[t]] /\ Phase' = [Phase EXCEPT ![t] = PhaseOf[s]]
  BY DEF RowTypes, Phase

\* An order that is not placed yet is on no tab.
LEMMA UnplacedOnNoTab ==
  ASSUME VisitInv, NEW o \in Orders, ~Placed(o)
  PROVE  \A g \in Groups : o \notin Tab[g]
  BY NoneAssumption DEF VisitInv, OrderRows, Tab, OrdersOf

\* The table of an open visit shows as seated.
LEMMA OpenVisitIsSeated ==
  ASSUME VisitInv, SeatingInv, NEW g \in Groups, groupStatus[g] = "open"
  PROVE  /\ groupTable[g] \in Tables
         /\ groupTable[g] # None
         /\ g \notin PaidVisits
         /\ Phase[groupTable[g]] = "seated"
  <1>1. groupTable[g] \in Tables /\ groupTable[g] # None
    BY DEF VisitInv, RowTypes, VisitRows
  <1>2. tableStatus[groupTable[g]] = "occupied"
    BY <1>1 DEF SeatingInv, OccupiedIffVisited, OpenGroupsAt
  <1> QED
    BY <1>1, <1>2 DEF PaidVisits, Phase, PhaseOf

LEMMA OpenVisitMapsToSeat ==
  ASSUME VisitInv, SeatingInv, NEW q \in Requests, NEW o \in Orders,
         NEW g \in Groups, NEW s \in Subtotals, OpenVisit(q, o, g, s)
  PROVE  req[q].table \in Tables /\ GV!Seat(req[q].table, g, o)
  <1> DEFINE t == req[q].table
  <1>1. t \in Tables
    BY SlotShape DEF VisitInv, RowTypes, OpenVisit, CreateRequest
  <1>2. /\ tableStatus[t] = "available"
        /\ tableStatus' = [tableStatus EXCEPT ![t] = "occupied"]
    BY OpenVisitSeats
  <1>3. /\ groupStatus[g] = "unopened"
        /\ groupStatus' = [groupStatus EXCEPT ![g] = "open"]
        /\ groupTable' = [groupTable EXCEPT ![g] = t]
        /\ orderGroup' = [orderGroup EXCEPT ![o] = g]
        /\ ~Placed(o)
    BY DEF OpenVisit, InsertOrder
  <1>4. groupTable[g] = None
    BY <1>3 DEF VisitInv, VisitRows
  <1>5. Phase[t] = "free" /\ Phase' = [Phase EXCEPT ![t] = "seated"]
    <2> HIDE DEF t
    <2>1. "occupied" \in TableStatus /\ RowTypes
      BY DEF TableStatus, VisitInv
    <2>2. /\ Phase[t] = PhaseOf["available"]
          /\ Phase' = [Phase EXCEPT ![t] = PhaseOf["occupied"]]
      BY <1>1, <1>2, <2>1, PhaseFollowsStatus
    <2> QED
      BY <2>2 DEF PhaseOf
  <1>6. Tab' = [Tab EXCEPT ![g] = {o}]
    <2>1. OrdersOf(g) = {}
      BY <1>4, NoneAssumption DEF OrdersOf, VisitInv, OrderRows
    <2>2. orderGroup[o] = None
      BY <1>3 DEF VisitInv, OrderRows
    <2>3. \A h \in Groups : OrdersOf(h)' = IF h = g THEN {o} ELSE OrdersOf(h)
      BY <1>3, <2>1, <2>2, NoneAssumption DEF OrdersOf, VisitInv, RowTypes
    <2> QED
      BY <2>3 DEF Tab
  <1>7. PaidVisits' = PaidVisits
    BY <1>3 DEF PaidVisits, VisitInv, RowTypes
  <1> QED
    BY <1>1, <1>3, <1>4, <1>5, <1>6, <1>7, UnplacedOnNoTab DEF GV!Seat

\* Joining an open visit, by either create path.
LEMMA InsertMapsToAddToTab ==
  ASSUME VisitInv, SeatingInv, NEW o \in Orders, NEW g \in Groups, NEW t,
         NEW addon, NEW s, InsertOrder(o, g, t, addon, s),
         groupStatus[g] = "open", UNCHANGED <<groupVars, tableStatus>>
  PROVE  GV!AddToTab(g, o)
  <1>1. ~Placed(o) /\ orderGroup' = [orderGroup EXCEPT ![o] = g]
    BY DEF InsertOrder
  <1>2. Tab' = [Tab EXCEPT ![g] = @ \cup {o}]
    <2>1. orderGroup[o] = None
      BY <1>1 DEF VisitInv, OrderRows
    <2>2. \A h \in Groups :
            OrdersOf(h)' = IF h = g THEN OrdersOf(h) \cup {o} ELSE OrdersOf(h)
      BY <1>1, <2>1, NoneAssumption DEF OrdersOf, VisitInv, RowTypes
    <2> QED
      BY <2>2 DEF Tab
  <1>3. UNCHANGED <<Phase, groupTable, PaidVisits>>
    BY DEF Phase, PaidVisits, groupVars
  <1> QED
    BY <1>1, <1>2, <1>3, OpenVisitIsSeated, UnplacedOnNoTab DEF GV!AddToTab

LEMMA PaymentMapsToSettle ==
  ASSUME VisitInv, SeatingInv, NEW g \in Groups, NEW e \in Employees,
         RecordPayment(g, e)
  PROVE  GV!Settle(g)
  <1> DEFINE t == groupTable[g]
  <1>1. /\ groupStatus[g] = "open"
        /\ tableStatus' = [tableStatus EXCEPT ![t] = "needs_cleaning"]
        /\ groupStatus' = [groupStatus EXCEPT ![g] = "closed"]
        /\ UNCHANGED <<groupTable, orderGroup>>
    BY DEF RecordPayment, CloseGroup, SendToCleaning
  <1>2. t \in Tables
    BY <1>1, OpenVisitIsSeated
  <1>3. Phase' = [Phase EXCEPT ![t] = "dirty"]
    BY <1>1, <1>2, PhaseFollowsStatus DEF PhaseOf, VisitInv, TableStatus
  <1>4. PaidVisits' = PaidVisits \cup {g}
    BY <1>1 DEF PaidVisits, VisitInv, RowTypes
  <1>5. Tab' = Tab
    BY <1>1 DEF Tab, OrdersOf
  <1> QED
    BY <1>1, <1>3, <1>4, <1>5, OpenVisitIsSeated DEF GV!Settle

LEMMA CleanMapsToClean ==
  ASSUME VisitInv, SeatingInv, NEW q \in Requests, CommitClean(q)
  PROVE  req[q].table \in Tables /\ GV!Clean(req[q].table)
  <1> DEFINE t == req[q].table
  <1>1. t \in Tables
    BY SlotShape DEF VisitInv, RowTypes, CommitClean, CleanRequest
  <1>2. tableStatus[t] = "needs_cleaning"
    BY DEF CommitClean, SeatingInv, CleanSlots
  <1>3. /\ tableStatus' = [tableStatus EXCEPT ![t] = "available"]
        /\ UNCHANGED <<groupStatus, groupTable, orderGroup>>
    BY DEF CommitClean, groupVars, orderVars
  <1>4. Phase[t] = "dirty" /\ Phase' = [Phase EXCEPT ![t] = "free"]
    <2> HIDE DEF t
    <2>1. "available" \in TableStatus /\ RowTypes
      BY DEF TableStatus, VisitInv
    <2>2. /\ Phase[t] = PhaseOf["needs_cleaning"]
          /\ Phase' = [Phase EXCEPT ![t] = PhaseOf["available"]]
      BY <1>1, <1>2, <1>3, <2>1, PhaseFollowsStatus
    <2> QED
      BY <2>2 DEF PhaseOf
  <1>5. UNCHANGED <<groupTable, Tab, PaidVisits>>
    BY <1>3 DEF Tab, OrdersOf, PaidVisits
  <1> QED
    BY <1>1, <1>4, <1>5 DEF GV!Clean

\* Every other step is invisible to the guests.
LEMMA UnseenStep ==
  ASSUME UNCHANGED <<tableStatus, groupVars, orderGroup>>
  PROVE  UNCHANGED GV!gvVars
  BY DEF GV!gvVars, Phase, Tab, OrdersOf, PaidVisits, groupVars

LEMMA StepMapsToStep ==
  VisitInv /\ SeatingInv /\ [Next /\ SerialCleaning']_vars => [GV!Next]_GV!gvVars
  <1> SUFFICES ASSUME VisitInv, SeatingInv, [Next]_vars
               PROVE  [GV!Next]_GV!gvVars
    OBVIOUS
  <1> DEFINE Unseen == UNCHANGED <<tableStatus, groupVars, orderGroup>>
  <1>1. ASSUME NEW q \in Requests, OrderStep(q)
        PROVE  [GV!Next]_GV!gvVars
    <2>1. ASSUME NEW o \in Orders, NEW g \in Groups, NEW s \in Subtotals,
                 OpenVisit(q, o, g, s)
          PROVE  GV!Next
      BY <2>1, OpenVisitMapsToSeat DEF GV!Next
    <2>2. ASSUME NEW o \in Orders, NEW g \in Groups, NEW s \in Subtotals,
                 JoinVisit(q, o, g, s)
          PROVE  GV!Next
      BY <2>2, InsertMapsToAddToTab DEF JoinVisit, OpenGroupsAt, GV!Next
    <2>3. ASSUME NEW o \in Orders, NEW s \in Subtotals, CommitAddon(q, o, s)
          PROVE  GV!Next
      <3>1. req[q].group \in Groups
        BY <2>3, SlotShape DEF VisitInv, RowTypes, CommitAddon, AddonRequest
      <3> QED
        BY <2>3, <3>1, InsertMapsToAddToTab DEF CommitAddon, GroupAccepts, GV!Next
    <2>4. \/ Unseen
          \/ \E o \in Orders, g \in Groups, s \in Subtotals :
               JoinVisit(q, o, g, s) \/ OpenVisit(q, o, g, s)
          \/ \E o \in Orders, s \in Subtotals : CommitAddon(q, o, s)
      BY <1>1
      DEF OrderStep, BeginTransition, CommitTransition, LoseTransition,
          BeginCreate, BeginAddon, RefuseOrder, tableVars, orderVars
    <2> QED
      BY <2>1, <2>2, <2>3, <2>4, UnseenStep
  <1>2. ASSUME NEW q \in Requests, TableStep(q)
        PROVE  [GV!Next]_GV!gvVars
    <2>1. CASE CommitClean(q)
      BY <2>1, CleanMapsToClean DEF GV!Next
    <2>2. CommitClean(q) \/ Unseen
      BY <1>2 DEF TableStep, BeginRemove, BeginClean, CommitRemove, tableVars,
                  orderVars
    <2> QED
      BY <2>1, <2>2, UnseenStep
  <1>3. CASE BillingStep
    <2>1. ASSUME NEW g \in Groups, NEW e \in Employees, RecordPayment(g, e)
          PROVE  GV!Next
      BY <2>1, PaymentMapsToSettle DEF GV!Next
    <2>2. Unseen \/ \E g \in Groups, e \in Employees : RecordPayment(g, e)
      BY <1>3 DEF BillingStep, OpenShift, CloseShift, tableVars, orderVars
    <2> QED
      BY <2>1, <2>2, UnseenStep
  <1>4. CASE (\E bps \in TaxRates : SetTaxRate(bps)) \/ Crash \/ UNCHANGED vars
    <2>1. Unseen
      BY <1>4 DEF SetTaxRate, Crash, vars, tableVars, orderVars
    <2> QED
      BY <2>1, UnseenStep
  <1> QED
    BY <1>1, <1>2, <1>3, <1>4 DEF Next

\* With one cleaner per table at a time, whatever the handlers do is a guest
\* visit: seated at a free table, a tab that only grows, one payment, cleaning.
THEOREM FloorImplementsGuestVisit == SerialSpec => ImplementsGuestVisit
  <1>1. SerialSpec => GV!Spec
    BY InitMapsToInit, StepMapsToStep, SerialInvariant, PTL DEF SerialSpec, GV!Spec
  <1> QED
    BY <1>1 DEF ImplementsGuestVisit


-----------------------------------------------------------------------------
(***************************************************************************)
(* The sums of billing, with their terms as functions of the rows.         *)
(***************************************************************************)
Amounts(rows) == [g \in Groups |-> rows[g].amount]
Taxes(subtotal, rate) == [o \in Orders |-> RoundHalfUpDiv(subtotal[o] * rate, 10000)]
Totals(subtotal, rate) ==
  [o \in Orders |-> subtotal[o] + RoundHalfUpDiv(subtotal[o] * rate, 10000)]

\* What the orders S of a bill come to, as the transaction and GET sum them,
\* given the columns the sum reads.
BillOver(subtotal, rate, S) ==
  SumFunctionOnSet(subtotal, S) + SumFunctionOnSet(Taxes(subtotal, rate), S)

\* What is linked to a shift, given the rows of payments.
LinkedTo(rows, s) == {g \in Groups : rows[g].shift = s}
CollectedOver(rows, s) == SumFunctionOnSet(Amounts(rows), LinkedTo(rows, s))

\* The sum closeShiftTransaction takes.
LEMMA CollectedIsSum ==
  ASSUME NEW s
  PROVE  /\ CollectedOn(s) = CollectedOver(payment, s)
         /\ CollectedOn(s)' = CollectedOver(payment', s)
  BY DEF CollectedOn, CollectedOver, LinkedTo, Amounts

Shown(g) == {o \in OrdersOf(g) : orderStatus[o] \in {"served", "paid", "completed"}}

LEMMA BillIsSum ==
  ASSUME NEW S \in SUBSET Orders
  PROVE  BillTotal(S) = BillOver(orderSubtotal, taxRate, S)
  BY DEF BillTotal, BillOver, OrderTax, Taxes

\* The sums getBill and recordPaymentTransaction take.
LEMMA ShownIsBill ==
  ASSUME NEW g
  PROVE  /\ BillTotal(Billable(g)) = BillOver(orderSubtotal, taxRate, Billable(g))
         /\ ShownTotal(g) = BillOver(orderSubtotal, taxRate, Shown(g))
         /\ ShownTotal(g)' = BillOver(orderSubtotal', taxRate', Shown(g)')
  <1>1. /\ Billable(g) \in SUBSET Orders /\ Shown(g) \in SUBSET Orders
        /\ Shown(g)' \in SUBSET Orders
    BY DEF Billable, Shown, OrdersOf
  <1>2. ShownTotal(g)' = BillOver(orderSubtotal', taxRate', Shown(g)')
    BY DEF ShownTotal, Shown, BillTotal, BillOver, OrderTax, Taxes
  <1>3. ShownTotal(g) = BillTotal(Shown(g))
    BY DEF ShownTotal, Shown
  <1> QED
    BY <1>1, <1>2, <1>3, BillIsSum

-----------------------------------------------------------------------------
(***************************************************************************)
(* What a visit is charged.                                                *)
(***************************************************************************)

\* Only a payment takes orders past served, so none of an open visit is.
SettledInv ==
  \A o \in Orders :
    orderStatus[o] \in {"paid", "completed"} => groupStatus[orderGroup[o]] = "closed"

\* transitionStatusTransaction never writes paid or completed; a payment
\* writes completed and closes the visit.
LEMMA StepKeepsSettledInv == VisitInv /\ SettledInv /\ [Next]_vars => SettledInv'
  <1> SUFFICES ASSUME VisitInv, SettledInv, [Next]_vars
               PROVE  SettledInv'
    OBVIOUS
  <1>1. ASSUME NEW q \in Requests, CommitTransition(q)
        PROVE  SettledInv'
    <2>1. req[q] \in TransitionRequest /\ req[q].from \in ExpectedFrom[req[q].action]
      BY <1>1, SlotShape DEF VisitInv, RowTypes, SlotRows, CommitTransition
    <2>2. ToStatus(req[q].action, req[q].from) \notin {"paid", "completed"}
      BY <2>1 DEF TransitionRequest, Actions, ToStatus
    <2> QED
      BY <1>1, <2>1, <2>2
      DEF CommitTransition, VisitInv, RowTypes, TransitionRequest, groupVars, SettledInv
  <1>2. ASSUME NEW o \in Orders, NEW g, NEW t, NEW addon, NEW s, NEW h \in Groups,
               InsertOrder(o, g, t, addon, s),
               \/ UNCHANGED groupStatus
               \/ /\ groupStatus[h] = "unopened"
                  /\ groupStatus' = [groupStatus EXCEPT ![h] = "open"]
        PROVE  SettledInv'
    <2>1. \A k \in Groups : groupStatus[k] = "closed" => groupStatus'[k] = "closed"
      BY <1>2 DEF VisitInv, RowTypes
    <2> SUFFICES ASSUME NEW p \in Orders, orderStatus'[p] \in {"paid", "completed"}
                 PROVE  groupStatus'[orderGroup'[p]] = "closed"
      BY DEF SettledInv
    <2>2. p # o
      BY <1>2 DEF InsertOrder, VisitInv, RowTypes
    <2>3. orderStatus[p] = orderStatus'[p] /\ orderGroup'[p] = orderGroup[p]
      BY <1>2, <2>2 DEF InsertOrder, VisitInv, RowTypes
    <2>4. orderGroup[p] \in Groups
      BY <2>3 DEF VisitInv, OrderRows, Placed
    <2> QED
      BY <2>1, <2>3, <2>4 DEF SettledInv
  <1>3. ASSUME NEW q \in Requests, OrderStep(q)
        PROVE  SettledInv'
    <2>1. ASSUME NEW o \in Orders, NEW g \in Groups, NEW s \in Subtotals,
                 JoinVisit(q, o, g, s) \/ OpenVisit(q, o, g, s)
          PROVE  SettledInv'
      BY <1>2, <2>1 DEF JoinVisit, OpenVisit, groupVars
    <2>2. ASSUME NEW o \in Orders, NEW s \in Subtotals, CommitAddon(q, o, s)
          PROVE  SettledInv'
      <3>1. req[q].group \in Groups
        BY <2>2, SlotShape DEF VisitInv, RowTypes, CommitAddon, AddonRequest
      <3> QED
        BY <1>2, <2>2, <3>1 DEF CommitAddon, groupVars
    <2>3. \/ CommitTransition(q)
          \/ \E o \in Orders, g \in Groups, s \in Subtotals :
               JoinVisit(q, o, g, s) \/ OpenVisit(q, o, g, s)
          \/ \E o \in Orders, s \in Subtotals : CommitAddon(q, o, s)
          \/ UNCHANGED <<groupVars, orderVars>>
      BY <1>3 DEF OrderStep, BeginTransition, LoseTransition, BeginCreate,
                  BeginAddon, RefuseOrder
    <2> QED
      BY <1>1, <2>1, <2>2, <2>3 DEF SettledInv, groupVars, orderVars
  <1>4. ASSUME NEW g \in Groups, NEW e \in Employees, RecordPayment(g, e)
        PROVE  SettledInv'
    <2>1. /\ groupStatus' = [groupStatus EXCEPT ![g] = "closed"]
          /\ orderGroup' = orderGroup
          /\ \A o \in Orders :
               orderStatus'[o] = IF o \in Billable(g) THEN "completed" ELSE orderStatus[o]
      BY <1>4 DEF RecordPayment, CloseGroup, CompleteOrders
    <2>2. \A o \in Billable(g) : orderGroup[o] = g
      BY DEF Billable, OrdersOf
    <2>3. \A k \in Groups : groupStatus[k] = "closed" => groupStatus'[k] = "closed"
      BY <2>1 DEF VisitInv, RowTypes
    <2>4. groupStatus'[g] = "closed"
      BY <2>1 DEF VisitInv, RowTypes
    <2>5. \A o \in Orders : orderStatus[o] \in {"paid", "completed"} => orderGroup[o] \in Groups
      BY DEF VisitInv, OrderRows, Placed
    <2> QED
      BY <2>1, <2>2, <2>3, <2>4, <2>5 DEF SettledInv
  <1>5. CASE UNCHANGED <<groupVars, orderVars>>
    BY <1>5 DEF SettledInv, groupVars, orderVars
  <1>6. \/ \E q \in Requests : OrderStep(q)
        \/ \E g \in Groups, e \in Employees : RecordPayment(g, e)
        \/ UNCHANGED <<groupVars, orderVars>>
    BY DEF Next, TableStep, BeginRemove, BeginClean, CommitRemove, CommitClean,
           BillingStep, OpenShift, CloseShift, SetTaxRate, Crash, vars
  <1> QED
    BY <1>3, <1>4, <1>5, <1>6

\* Only recordPaymentTransaction writes payments.
LEMMA PaymentsByPayment ==
  ASSUME [Next]_vars, payment' # payment
  PROVE  \E g \in Groups, e \in Employees : RecordPayment(g, e)
  <1>1. ASSUME NEW q \in Requests, OrderStep(q)
        PROVE  payment' = payment
    BY <1>1 DEF OrderStep, BeginTransition, CommitTransition, LoseTransition, BeginCreate,
                BeginAddon, JoinVisit, OpenVisit, CommitAddon, InsertOrder, RefuseOrder,
                moneyVars
  <1>2. ASSUME NEW q \in Requests, TableStep(q)
        PROVE  payment' = payment
    BY <1>2 DEF TableStep, BeginRemove, BeginClean, CommitRemove, CommitClean, moneyVars
  <1> QED
    BY <1>1, <1>2 DEF Next, BillingStep, OpenShift, CloseShift, SetTaxRate, Crash, vars,
                      moneyVars

\* The bill shown just before and just after a payment is the bill it takes.
LEMMA PaymentTakesWhatIsShown ==
  ASSUME VisitInv, SettledInv, PaidInv, NEW g \in Groups, NEW e \in Employees,
         RecordPayment(g, e)
  PROVE  /\ payment'[g].amount = ShownTotal(g)
         /\ ShownTotal(g)' = ShownTotal(g)
         /\ \A h \in Groups \ {g} : payment'[h] = payment[h]
  <1> DEFINE amount == BillTotal(Billable(g))
             row == [amount |-> amount, collector |-> e, shift |-> LinkedShift(e)]
  <1>1. /\ payment' = [payment EXCEPT ![g] = row]
        /\ UNCHANGED <<orderGroup, orderSubtotal, taxRate>>
        /\ groupStatus[g] = "open"
        /\ \A o \in Orders :
             orderStatus'[o] = IF o \in Billable(g) THEN "completed" ELSE orderStatus[o]
    BY DEF RecordPayment, CompleteOrders
  <1>2. Shown(g) = Billable(g)
    BY <1>1 DEF Shown, Billable, OrdersOf, SettledInv
  <1>3. Shown(g)' = Shown(g)
    BY <1>1, <1>2 DEF Shown, Billable, OrdersOf
  <1>4. ShownTotal(g) = amount /\ ShownTotal(g)' = amount
    BY <1>1, <1>2, <1>3, ShownIsBill
  <1> HIDE DEF amount
  <1>5. row.amount = amount
    OBVIOUS
  <1> HIDE DEF row
  <1>6. payment'[g] = row /\ \A h \in Groups \ {g} : payment'[h] = payment[h]
    BY <1>1 DEF PaidInv
  <1> QED
    BY <1>4, <1>5, <1>6

\* However the tax rate is changed and orders are placed and cancelled around
\* it, a payment takes the total the bill shows before and after it.
THEOREM ChargedAsQuoted == Spec => QuotedIsCharged
  <1>1. Init => SettledInv
    BY DEF Init, SettledInv
  <1>2. Init => PaidInv
    BY NoneAssumption DEF Init, PaidInv, ClosedByOnePayment
  <1>3. VisitInv /\ SettledInv /\ PaidInv /\ [Next]_vars =>
          [\A g \in Groups :
             payment[g] = NoPayment /\ payment'[g] # NoPayment
               => payment'[g].amount = ShownTotal(g) /\ ShownTotal(g)' = ShownTotal(g)]_payment
    <2> SUFFICES ASSUME VisitInv, SettledInv, PaidInv, [Next]_vars, payment' # payment,
                        NEW g \in Groups, payment[g] = NoPayment, payment'[g] # NoPayment
                 PROVE  payment'[g].amount = ShownTotal(g) /\ ShownTotal(g)' = ShownTotal(g)
      OBVIOUS
    <2>1. PICK h \in Groups, e \in Employees : RecordPayment(h, e)
      BY PaymentsByPayment
    <2>2. h = g
      BY <2>1, PaymentTakesWhatIsShown
    <2> QED
      BY <2>1, <2>2, PaymentTakesWhatIsShown
  <1> QED
    BY <1>1, <1>2, <1>3, StepKeepsSettledInv, StepKeepsPaidInv, VisitInvariant, PTL
    DEF Spec, QuotedIsCharged

-----------------------------------------------------------------------------
(***************************************************************************)
(* What a drawer expects.                                                  *)
(***************************************************************************)

\* The columns of shifts and payments that the reconciliation reads.
DrawerRows ==
  /\ shift = [s \in Shifts |-> [owner |-> shift[s].owner, status |-> shift[s].status,
                                opening |-> shift[s].opening,
                                expected |-> shift[s].expected]]
  /\ \A s \in Shifts : shift[s].status \in {"unopened", "open", "closed"}
  /\ \A g \in Groups : payment[g].shift \in Shifts \cup {None}

\* Payments count toward drawers that were opened.
DrawerInv ==
  /\ DrawerRows
  /\ ShiftsReconcile
  /\ \A g \in Groups :
       payment[g].shift # None => shift[payment[g].shift].status # "unopened"

\* While no payment is written, a drawer collects nothing.
LEMMA SamePaymentsSameDrawers ==
  ASSUME payment' = payment, NEW s
  PROVE  CollectedOn(s)' = CollectedOn(s)
  BY CollectedIsSum

\* openShiftTransaction starts an empty drawer for a cashier without one.
LEMMA OpenShiftKeepsDrawers ==
  ASSUME DrawerInv, NEW s \in Shifts, NEW e \in Employees, NEW f \in Floats,
         OpenShift(s, e, f)
  PROVE  DrawerInv'
  <1> DEFINE row == [owner |-> e, status |-> "open", opening |-> f, expected |-> 0]
  <1>1. /\ shift' = [shift EXCEPT ![s] = row]
        /\ payment' = payment
        /\ shift[s].status = "unopened"
        /\ \A u \in Shifts : shift[u].status = "open" => shift[u].owner # e
    BY DEF OpenShift, OpenShiftsOf
  <1>2. /\ shift'[s].status = "open" /\ shift'[s].owner = e
        /\ \A u \in Shifts \ {s} : shift'[u] = shift[u]
    BY <1>1 DEF DrawerInv, DrawerRows
  <1>3. DrawerRows'
    BY <1>1 DEF DrawerInv, DrawerRows
  <1>4. \A u \in Shifts :
          shift'[u].status = "closed" => shift'[u] = shift[u] /\ shift[u].status = "closed"
    BY <1>2
  <1>5. ClosedShiftsReconcile'
    BY <1>1, <1>4, SamePaymentsSameDrawers
    DEF DrawerInv, ShiftsReconcile, ClosedShiftsReconcile
  <1>6. \A g \in Groups :
          payment[g].shift # None =>
            /\ payment[g].shift \in Shifts \ {s}
            /\ shift'[payment[g].shift] = shift[payment[g].shift]
    BY <1>1, <1>2 DEF DrawerInv, DrawerRows
  <1>7. ShiftsBelongToCollectors'
    <2>1. ASSUME NEW u \in Shifts, NEW v \in Shifts,
                 shift'[u].status = "open", shift'[v].status = "open",
                 shift'[u].owner = shift'[v].owner
          PROVE  u = v
      BY <1>1, <1>2, <2>1 DEF DrawerInv, ShiftsReconcile, ShiftsBelongToCollectors
    <2>2. \A g \in Groups :
            payment'[g].shift # None => shift'[payment'[g].shift].owner = payment'[g].collector
      BY <1>1, <1>6 DEF DrawerInv, ShiftsReconcile, ShiftsBelongToCollectors
    <2> QED
      BY <2>1, <2>2 DEF ShiftsBelongToCollectors
  <1> QED
    BY <1>1, <1>3, <1>5, <1>6, <1>7 DEF DrawerInv, ShiftsReconcile

\* closeShiftTransaction counts the drawer it closes and no other.
LEMMA CloseShiftKeepsDrawers ==
  ASSUME DrawerInv, NEW s \in Shifts, NEW e, NEW role, CloseShift(s, e, role)
  PROVE  DrawerInv'
  <1> DEFINE total == shift[s].opening + CollectedOn(s)
             row == [owner |-> shift[s].owner, status |-> "closed",
                     opening |-> shift[s].opening, expected |-> total]
  <1>1. payment' = payment /\ shift[s].status = "open"
    BY DEF CloseShift
  <1>2. shift' = [u \in Shifts |-> IF u = s THEN row ELSE shift[u]]
    <2>1. DOMAIN shift = Shifts
          /\ shift[s] = [owner |-> shift[s].owner, status |-> shift[s].status,
                         opening |-> shift[s].opening, expected |-> shift[s].expected]
      BY DEF DrawerInv, DrawerRows
    <2> HIDE DEF total
    <2> DEFINE first == [shift EXCEPT ![s].status = "closed"]
    <2>2. /\ DOMAIN first = Shifts
          /\ first[s] = [owner |-> shift[s].owner, status |-> "closed",
                         opening |-> shift[s].opening, expected |-> shift[s].expected]
          /\ \A u \in Shifts \ {s} : first[u] = shift[u]
      BY <2>1
    <2>3. shift' = [first EXCEPT ![s].expected = total]
      BY DEF CloseShift, total
    <2> HIDE DEF first
    <2>4. [first EXCEPT ![s].expected = total]
            = [u \in Shifts |-> IF u = s THEN [first[s] EXCEPT !.expected = total] ELSE first[u]]
      BY <2>2
    <2>5. [first[s] EXCEPT !.expected = total] = row
      BY <2>2
    <2> QED
      BY <2>2, <2>3, <2>4, <2>5
  <1>3. /\ row.owner = shift[s].owner /\ row.status = "closed"
        /\ row.opening = shift[s].opening /\ row.expected = total
        /\ row = [owner |-> row.owner, status |-> row.status,
                  opening |-> row.opening, expected |-> row.expected]
    OBVIOUS
  <1> HIDE DEF row, total
  <1>4. shift'[s] = row /\ \A u \in Shifts \ {s} : shift'[u] = shift[u]
    BY <1>2
  <1>5. DrawerRows'
    BY <1>1, <1>2, <1>3 DEF DrawerInv, DrawerRows
  <1>6. ClosedShiftsReconcile'
    <2>1. \A u \in Shifts : CollectedOn(u)' = CollectedOn(u)
      BY <1>1, SamePaymentsSameDrawers
    <2> SUFFICES ASSUME NEW u \in Shifts, shift'[u].status = "closed"
                 PROVE  shift'[u].expected = shift'[u].opening + CollectedOn(u)
      BY <2>1 DEF ClosedShiftsReconcile
    <2>2. CASE u = s
      BY <1>3, <1>4, <2>2 DEF total
    <2>3. CASE u # s
      BY <1>3, <1>4, <2>3 DEF DrawerInv, ShiftsReconcile, ClosedShiftsReconcile
    <2> QED
      BY <2>2, <2>3
  <1>7. \A u \in Shifts :
          /\ shift'[u].owner = shift[u].owner
          /\ shift'[u].status = "open" => shift[u].status = "open"
          /\ shift'[u].status = "unopened" => shift[u].status = "unopened"
    BY <1>1, <1>3, <1>4
  <1>8. ShiftsBelongToCollectors'
    BY <1>1, <1>7 DEF DrawerInv, DrawerRows, ShiftsReconcile, ShiftsBelongToCollectors
  <1> QED
    BY <1>1, <1>5, <1>6, <1>7, <1>8 DEF DrawerInv, DrawerRows, ShiftsReconcile

\* A payment counts toward the collector's open drawer, never a closed one.
LEMMA PaymentKeepsDrawers ==
  ASSUME PaidInv, DrawerInv, NEW g \in Groups, NEW e \in Employees, RecordPayment(g, e)
  PROVE  DrawerInv'
  <1> DEFINE amount == BillTotal(Billable(g))
             row == [amount |-> amount, collector |-> e, shift |-> LinkedShift(e)]
  <1>1. /\ payment' = [payment EXCEPT ![g] = row]
        /\ shift' = shift
        /\ groupStatus[g] = "open"
    BY DEF RecordPayment
  <1> HIDE DEF amount
  <1>2. row.shift = LinkedShift(e) /\ row.collector = e
    OBVIOUS
  <1>3. \/ LinkedShift(e) = None
        \/ /\ LinkedShift(e) \in Shifts
           /\ shift[LinkedShift(e)].status = "open" /\ shift[LinkedShift(e)].owner = e
    BY DEF LinkedShift, OpenShiftsOf
  <1> HIDE DEF row
  <1>4. payment'[g] = row /\ \A h \in Groups \ {g} : payment'[h] = payment[h]
    BY <1>1 DEF PaidInv
  <1>5. payment[g].shift = None
    BY <1>1 DEF PaidInv, ClosedByOnePayment, NoPayment
  <1>6. DrawerRows'
    BY <1>1, <1>2, <1>3, <1>4 DEF DrawerInv, DrawerRows
  <1>7. ASSUME NEW s \in Shifts, shift[s].status = "closed"
        PROVE  CollectedOn(s)' = CollectedOn(s)
    <2>1. s # None /\ LinkedShift(e) # s
      BY <1>3, <1>7, NoneAssumption
    <2>2. LinkedTo(payment', s) = LinkedTo(payment, s)
      BY <1>2, <1>4, <1>5, <2>1 DEF LinkedTo
    <2>3. \A h \in LinkedTo(payment, s) : payment'[h].amount = payment[h].amount
      BY <1>4, <1>5, <2>1 DEF LinkedTo
    <2>4. SumFunctionOnSet(Amounts(payment'), LinkedTo(payment, s))
            = SumFunctionOnSet(Amounts(payment), LinkedTo(payment, s))
      <3>1. \A h \in LinkedTo(payment, s) : Amounts(payment')[h] = Amounts(payment)[h]
        BY <2>3 DEF Amounts, LinkedTo
      <3> QED
        BY <3>1, SameTermsSameSum
    <2>5. CollectedOver(payment', s) = CollectedOver(payment, s)
      BY <2>2, <2>4 DEF CollectedOver
    <2> QED
      BY <2>5, CollectedIsSum
  <1>8. ClosedShiftsReconcile'
    BY <1>1, <1>7 DEF DrawerInv, ShiftsReconcile, ClosedShiftsReconcile
  <1>9. ShiftsBelongToCollectors'
    <2>1. ASSUME NEW h \in Groups, payment'[h].shift # None
          PROVE  shift[payment'[h].shift].owner = payment'[h].collector
      BY <1>2, <1>3, <1>4, <2>1 DEF DrawerInv, ShiftsReconcile, ShiftsBelongToCollectors
    <2> QED
      BY <1>1, <2>1 DEF DrawerInv, ShiftsReconcile, ShiftsBelongToCollectors
  <1>10. \A h \in Groups :
           payment'[h].shift # None => shift[payment'[h].shift].status # "unopened"
    BY <1>2, <1>3, <1>4 DEF DrawerInv
  <1> QED
    BY <1>1, <1>6, <1>8, <1>9, <1>10 DEF DrawerInv, ShiftsReconcile

\* The invariant over the whole next-state relation.
LEMMA StepKeepsDrawers == PaidInv /\ DrawerInv /\ [Next]_vars => DrawerInv'
  <1> SUFFICES ASSUME PaidInv, DrawerInv, [Next]_vars
               PROVE  DrawerInv'
    OBVIOUS
  <1>1. CASE UNCHANGED <<payment, shift>>
    <2>1. \A s \in Shifts : CollectedOn(s)' = CollectedOn(s)
      BY <1>1, SamePaymentsSameDrawers
    <2> QED
      BY <1>1, <2>1 DEF DrawerInv, DrawerRows, ShiftsReconcile, ClosedShiftsReconcile,
                        ShiftsBelongToCollectors
  <1>2. \/ UNCHANGED <<payment, shift>>
        \/ \E g \in Groups, e \in Employees : RecordPayment(g, e)
        \/ \E s \in Shifts, e \in Employees, f \in Floats : OpenShift(s, e, f)
        \/ \E s \in Shifts, e \in Employees, role \in Roles \cup {"cashier"} :
             CloseShift(s, e, role)
    <2>1. ASSUME NEW q \in Requests, OrderStep(q)
          PROVE  UNCHANGED <<payment, shift>>
      BY <2>1 DEF OrderStep, BeginTransition, CommitTransition, LoseTransition, BeginCreate,
                  BeginAddon, JoinVisit, OpenVisit, CommitAddon, InsertOrder, RefuseOrder,
                  moneyVars
    <2>2. ASSUME NEW q \in Requests, TableStep(q)
          PROVE  UNCHANGED <<payment, shift>>
      BY <2>2 DEF TableStep, BeginRemove, BeginClean, CommitRemove, CommitClean, moneyVars
    <2> QED
      BY <2>1, <2>2 DEF Next, BillingStep, SetTaxRate, Crash, vars, moneyVars
  <1> QED
    BY <1>1, <1>2, PaymentKeepsDrawers, OpenShiftKeepsDrawers, CloseShiftKeepsDrawers

\* However payments fall between the opening and the closing of drawers, a
\* closed one expects what its own cashier collected into it, and no more.
THEOREM DrawersReconcile == Spec => []ShiftsReconcile
  <1>1. Init => DrawerInv
    BY NoneAssumption
    DEF Init, DrawerInv, DrawerRows, NoPayment, NoShift, ShiftsReconcile,
        ClosedShiftsReconcile, ShiftsBelongToCollectors
  <1>2. Init => PaidInv
    BY NoneAssumption DEF Init, PaidInv, ClosedByOnePayment
  <1>3. DrawerInv => ShiftsReconcile
    BY DEF DrawerInv
  <1>4. Spec => []DrawerInv
    BY <1>1, <1>2, StepKeepsDrawers, StepKeepsPaidInv, VisitInvariant, PTL DEF Spec
  <1> QED
    BY <1>3, <1>4, PTL

-----------------------------------------------------------------------------
(***************************************************************************)
(* The books of the day.                                                   *)
(***************************************************************************)
MoneyInv == MoneyTypes /\ RollupReconciles

LEMMA RoundedIsNat ==
  ASSUME NEW n \in Nat, NEW rate \in Nat
  PROVE  RoundHalfUpDiv(n * rate, 10000) \in Nat
  <1> DEFINE product == n * rate
  <1>1. product \in Nat
    OBVIOUS
  <1> HIDE DEF product
  <1>2. RoundHalfUpDiv(product, 10000) \in Nat
    BY <1>1 DEF RoundHalfUpDiv
  <1> QED
    BY <1>2 DEF product

\* What the bill and the rollup are told is the same: tax is rounded by order.
LEMMA BillAmounts ==
  ASSUME MoneyTypes, NEW S \in SUBSET Orders
  PROVE  /\ BillTotal(S) \in Nat
         /\ SumTotals(S) = BillTotal(S)
         /\ \A o \in S : BillTotal(S) >= orderSubtotal[o]
  <1> DEFINE taxes == Taxes(orderSubtotal, taxRate)
             totals == Totals(orderSubtotal, taxRate)
  <1>1. IsFiniteSet(S)
    BY FiniteAssumption, FS_Subset
  <1>2. \A o \in S : RoundHalfUpDiv(orderSubtotal[o] * taxRate, 10000) \in Nat
    BY MoneyAssumption, RoundedIsNat DEF MoneyTypes
  <1>3. \A o \in S : /\ orderSubtotal[o] \in Nat /\ taxes[o] \in Nat
                     /\ totals[o] = orderSubtotal[o] + taxes[o]
    BY <1>2 DEF MoneyTypes, Taxes, Totals
  <1>4. /\ BillTotal(S) = SumFunctionOnSet(orderSubtotal, S) + SumFunctionOnSet(taxes, S)
        /\ SumTotals(S) = SumFunctionOnSet(totals, S)
    BY BillIsSum DEF BillOver, SumTotals, OrderTotal, OrderTax, Totals
  <1> HIDE DEF taxes, totals
  <1>5. SumFunctionOnSet(totals, S) = SumFunctionOnSet(orderSubtotal, S) + SumFunctionOnSet(taxes, S)
    BY <1>1, <1>3, SumOfSums
  <1>6. SumFunctionOnSet(orderSubtotal, S) \in Nat /\ SumFunctionOnSet(taxes, S) \in Nat
    BY <1>1, <1>3, SumIsInt
  <1>7. \A o \in S : SumFunctionOnSet(orderSubtotal, S) >= orderSubtotal[o]
    BY <1>1, <1>3, SumCovers
  <1> QED
    BY <1>3, <1>4, <1>5, <1>6, <1>7

\* As long as the rows of payments are typed, so is what they come to.
LEMMA CollectedAmounts ==
  ASSUME MoneyTypes, NEW s
  PROVE  CollectedOn(s) \in Nat
  <1>1. LinkedTo(payment, s) \in SUBSET Groups /\ IsFiniteSet(LinkedTo(payment, s))
    BY FiniteAssumption, FS_Subset DEF LinkedTo
  <1>2. \A g \in LinkedTo(payment, s) : Amounts(payment)[g] \in Nat
    BY <1>1 DEF Amounts, MoneyTypes
  <1>3. SumFunctionOnSet(Amounts(payment), LinkedTo(payment, s)) \in Nat
    BY <1>1, <1>2, SumIsInt
  <1> QED
    BY <1>3, CollectedIsSum DEF CollectedOver

\* What the rollup is compared with, as a function of the rows.
CollectedIn(rows) == SumFunctionOnSet(Amounts(rows), Groups)
CountIn(status, s) == Cardinality({o \in Orders : status[o] = s})

LEMMA RollupRows ==
  /\ RollupReconciles <=> /\ rollup.revenue = CollectedIn(payment)
                          /\ rollup.completed = CountIn(orderStatus, "completed")
                          /\ rollup.cancelled = CountIn(orderStatus, "cancelled")
  /\ RollupReconciles' <=> /\ rollup'.revenue = CollectedIn(payment')
                           /\ rollup'.completed = CountIn(orderStatus', "completed")
                           /\ rollup'.cancelled = CountIn(orderStatus', "cancelled")
  <1>1. AmountCollected = CollectedIn(payment) /\ AmountCollected' = CollectedIn(payment')
    BY DEF AmountCollected, CollectedIn, SumFunction, Amounts
  <1> QED
    BY <1>1 DEF RollupReconciles, CountIn

\* The orders of a status when some join them that were in another.
LEMMA CountGrows ==
  ASSUME NEW status, NEW new, NEW s, NEW S \in SUBSET Orders,
         \A o \in S : status[o] # s,
         \A o \in Orders : new[o] = s <=> o \in S \/ status[o] = s
  PROVE  CountIn(new, s) = CountIn(status, s) + Cardinality(S)
  <1> DEFINE A == {o \in Orders : status[o] = s}
             B == {o \in Orders : new[o] = s}
  <1>1. IsFiniteSet(A) /\ IsFiniteSet(S)
    BY FiniteAssumption, FS_Subset
  <1>2. B = A \cup S /\ A \cap S = {}
    OBVIOUS
  <1> HIDE DEF A, B
  <1>3. Cardinality(A \cup S) = Cardinality(A) + Cardinality(S)
    <2>1. Cardinality(A \cup S) = Cardinality(A) + Cardinality(S) - Cardinality(A \cap S)
      BY <1>1, FS_Union
    <2>2. Cardinality(A \cap S) = 0
      BY <1>2, FS_EmptySet
    <2>3. Cardinality(A) \in Nat /\ Cardinality(S) \in Nat
      BY <1>1, FS_CardinalityType
    <2> QED
      BY <2>1, <2>2, <2>3
  <1> QED
    BY <1>2, <1>3 DEF CountIn, A, B

LEMMA CountStays ==
  ASSUME NEW status, NEW new, NEW s, \A o \in Orders : new[o] = s <=> status[o] = s
  PROVE  CountIn(new, s) = CountIn(status, s)
  <1>1. {o \in Orders : new[o] = s} = {o \in Orders : status[o] = s}
    OBVIOUS
  <1> QED
    BY <1>1 DEF CountIn

\* A payment enters one amount, once on either side.
LEMMA PaymentKeepsMoney ==
  ASSUME MoneyInv, PaidInv, NEW g \in Groups, NEW e \in Employees, RecordPayment(g, e)
  PROVE  MoneyInv'
  <1> DEFINE bill == Billable(g)
             amount == BillTotal(bill)
             row == [amount |-> amount, collector |-> e, shift |-> LinkedShift(e)]
  <1>1. /\ groupStatus[g] = "open"
        /\ payment' = [payment EXCEPT ![g] = row]
        /\ orderStatus' = [o \in Orders |-> IF o \in bill THEN "completed" ELSE orderStatus[o]]
        /\ rollup' = [rollup EXCEPT !.revenue = @ + SumTotals(bill),
                                    !.completed = @ + Cardinality(bill)]
        /\ UNCHANGED <<orderSubtotal, shift, taxRate>>
    BY DEF RecordPayment, CompleteOrders, AddToRollup
  <1>2. bill \in SUBSET Orders /\ \A o \in bill : orderStatus[o] = "served"
    BY DEF Billable, OrdersOf
  <1>3. amount \in Nat /\ SumTotals(bill) = amount
    <2> HIDE DEF bill
    <2> QED
      BY <1>2, BillAmounts DEF MoneyInv
  <1>4. Cardinality(bill) \in Nat
    <2> HIDE DEF bill
    <2> QED
      BY <1>2, FiniteAssumption, FS_Subset, FS_CardinalityType
  <1>5. LinkedShift(e) \in Shifts \cup {None}
    BY DEF LinkedShift, OpenShiftsOf
  <1> HIDE DEF bill, amount
  <1>6. row \in [amount: Nat, collector: Employees \cup {None}, shift: Shifts \cup {None}]
        /\ row.amount = amount
    BY <1>3, <1>5
  <1> HIDE DEF row
  <1>7. payment[g].amount = 0
    BY <1>1 DEF PaidInv, ClosedByOnePayment, NoPayment
  <1>8. /\ rollup' \in [revenue: Nat, completed: Nat, cancelled: Nat]
        /\ rollup'.revenue = rollup.revenue + amount
        /\ rollup'.completed = rollup.completed + Cardinality(bill)
        /\ rollup'.cancelled = rollup.cancelled
    <2> DEFINE more == SumTotals(bill)
               count == Cardinality(bill)
    <2>1. more \in Nat /\ count \in Nat /\ more = amount
      BY <1>3, <1>4
    <2>2. rollup' = [rollup EXCEPT !.revenue = @ + more, !.completed = @ + count]
      BY <1>1
    <2>3. rollup \in [revenue: Nat, completed: Nat, cancelled: Nat]
      BY DEF MoneyInv, MoneyTypes
    <2> HIDE DEF more, count
    <2> DEFINE first == [rollup EXCEPT !.revenue = @ + more]
    <2>4. /\ first \in [revenue: Nat, completed: Nat, cancelled: Nat]
          /\ first.revenue = rollup.revenue + more
          /\ first.completed = rollup.completed /\ first.cancelled = rollup.cancelled
      BY <2>1, <2>3
    <2>5. rollup' = [first EXCEPT !.completed = @ + count]
      BY <2>2
    <2> HIDE DEF first
    <2>6. /\ rollup' \in [revenue: Nat, completed: Nat, cancelled: Nat]
          /\ rollup'.revenue = rollup.revenue + more
          /\ rollup'.completed = rollup.completed + count
          /\ rollup'.cancelled = rollup.cancelled
      BY <2>1, <2>4, <2>5
    <2> QED
      BY <2>1, <2>6 DEF count
  <1>9. MoneyTypes'
    BY <1>1, <1>6, <1>8 DEF MoneyInv, MoneyTypes
  <1>10. CollectedIn(payment') = CollectedIn(payment) + amount
    <2> DEFINE f == Amounts(payment)
               k == Amounts(payment')
    <2>1. /\ \A h \in Groups : f[h] \in Nat /\ k[h] \in Nat
          /\ \A h \in Groups \ {g} : k[h] = f[h]
          /\ f[g] = 0 /\ k[g] = amount
      BY <1>1, <1>6, <1>7, <1>9 DEF Amounts, MoneyInv, MoneyTypes
    <2> HIDE DEF f, k
    <2>2. /\ \A h \in Groups : f[h] \in Int /\ k[h] \in Int
          /\ \A h \in Groups \ {g} : k[h] = f[h]
          /\ IsFiniteSet(Groups)
      BY <2>1, FiniteAssumption
    <2>3. SumFunctionOnSet(k, Groups) = SumFunctionOnSet(f, Groups) - f[g] + k[g]
      BY <2>2, SumChanges
    <2>4. SumFunctionOnSet(f, Groups) \in Int
      BY <2>2, SumIsInt
    <2> QED
      BY <1>3, <2>1, <2>3, <2>4 DEF CollectedIn, f, k
  <1>11. CountIn(orderStatus', "completed") = CountIn(orderStatus, "completed") + Cardinality(bill)
    <2>1. /\ \A o \in bill : orderStatus[o] # "completed"
          /\ \A o \in Orders :
               orderStatus'[o] = "completed" <=> o \in bill \/ orderStatus[o] = "completed"
      BY <1>1, <1>2
    <2> QED
      BY <1>2, <2>1, CountGrows
  <1>12. CountIn(orderStatus', "cancelled") = CountIn(orderStatus, "cancelled")
    <2>1. \A o \in Orders : orderStatus'[o] = "cancelled" <=> orderStatus[o] = "cancelled"
      BY <1>1, <1>2
    <2> QED
      BY <2>1, CountStays
  <1> QED
    BY <1>8, <1>9, <1>10, <1>11, <1>12, RollupRows DEF MoneyInv

\* A transition counts what it cancels; none completes an order.
LEMMA CommitKeepsMoney ==
  ASSUME VisitInv, MoneyInv, NEW q \in Requests, CommitTransition(q)
  PROVE  MoneyInv'
  <1> DEFINE r == req[q]
             to == ToStatus(r.action, r.from)
  <1>1. r \in TransitionRequest /\ r.from \in ExpectedFrom[r.action]
    BY SlotShape DEF VisitInv, RowTypes, SlotRows, CommitTransition
  <1>2. /\ r.order \in Orders /\ r.action \in Actions
        /\ r.from \notin {"completed", "cancelled"} /\ to # "completed"
        /\ to = "cancelled" <=> r.action = "cancel"
    <2>1. r.order \in Orders /\ r.action \in Actions
      BY <1>1 DEF TransitionRequest
    <2>2. r.from \notin {"completed", "cancelled"} /\ to # "completed"
      BY <1>1, <2>1, TransitionStatuses DEF InFlightStatuses
    <2>3. to = "cancelled" <=> r.action = "cancel"
      BY <2>1 DEF ToStatus, Actions
    <2> QED
      BY <2>1, <2>2, <2>3
  <1>3. /\ orderStatus[r.order] = r.from
        /\ orderStatus' = [orderStatus EXCEPT ![r.order] = to]
        /\ UNCHANGED <<orderSubtotal, payment, shift, taxRate>>
        /\ r.action = "cancel" => rollup' = [rollup EXCEPT !.cancelled = @ + 1]
        /\ r.action # "cancel" => rollup' = rollup
    BY DEF CommitTransition, StillExpected
  <1> HIDE DEF r, to
  <1>4. /\ \A o \in Orders \ {r.order} : orderStatus'[o] = orderStatus[o]
        /\ orderStatus'[r.order] = to
    BY <1>2, <1>3 DEF VisitInv, RowTypes
  <1>5. CountIn(orderStatus', "completed") = CountIn(orderStatus, "completed")
    <2>1. \A o \in Orders : orderStatus'[o] = "completed" <=> orderStatus[o] = "completed"
      BY <1>2, <1>3, <1>4
    <2> QED
      BY <2>1, CountStays
  <1>6. CASE r.action = "cancel"
    <2>1. /\ rollup' \in [revenue: Nat, completed: Nat, cancelled: Nat]
          /\ rollup'.revenue = rollup.revenue /\ rollup'.completed = rollup.completed
          /\ rollup'.cancelled = rollup.cancelled + 1
      BY <1>3, <1>6 DEF MoneyInv, MoneyTypes
    <2>2. CountIn(orderStatus', "cancelled") = CountIn(orderStatus, "cancelled") + 1
      <3>1. /\ \A o \in {r.order} : orderStatus[o] # "cancelled"
            /\ \A o \in Orders :
                 orderStatus'[o] = "cancelled" <=> o \in {r.order} \/ orderStatus[o] = "cancelled"
        BY <1>2, <1>3, <1>4, <1>6
      <3>2. {r.order} \in SUBSET Orders /\ Cardinality({r.order}) = 1
        BY <1>2, FS_Singleton
      <3> QED
        BY <3>1, <3>2, CountGrows
    <2>3. MoneyTypes'
      BY <1>3, <2>1 DEF MoneyInv, MoneyTypes
    <2> QED
      BY <1>3, <1>5, <2>1, <2>2, <2>3, RollupRows DEF MoneyInv
  <1>7. CASE r.action # "cancel"
    <2>1. CountIn(orderStatus', "cancelled") = CountIn(orderStatus, "cancelled")
      <3>1. \A o \in Orders : orderStatus'[o] = "cancelled" <=> orderStatus[o] = "cancelled"
        BY <1>2, <1>3, <1>4, <1>7
      <3> QED
        BY <3>1, CountStays
    <2>2. MoneyTypes'
      BY <1>3, <1>7 DEF MoneyInv, MoneyTypes
    <2> QED
      BY <1>3, <1>5, <1>7, <2>1, <2>2, RollupRows DEF MoneyInv
  <1> QED
    BY <1>6, <1>7

\* A new order is pending.
LEMMA InsertKeepsMoney ==
  ASSUME MoneyInv, NEW o \in Orders, NEW g, NEW t, NEW addon, NEW s \in Subtotals,
         InsertOrder(o, g, t, addon, s), VisitInv
  PROVE  MoneyInv'
  <1>1. /\ orderStatus[o] = "unplaced"
        /\ orderStatus' = [orderStatus EXCEPT ![o] = "pending"]
        /\ orderSubtotal' = [orderSubtotal EXCEPT ![o] = s]
        /\ UNCHANGED <<payment, shift, rollup, taxRate>>
    BY DEF InsertOrder, Placed, moneyVars
  <1>2. \A st \in {"completed", "cancelled"} :
          CountIn(orderStatus', st) = CountIn(orderStatus, st)
    <2> SUFFICES ASSUME NEW st \in {"completed", "cancelled"}
                 PROVE  CountIn(orderStatus', st) = CountIn(orderStatus, st)
      OBVIOUS
    <2>1. \A p \in Orders : orderStatus'[p] = st <=> orderStatus[p] = st
      BY <1>1 DEF VisitInv, RowTypes
    <2> QED
      BY <2>1, CountStays
  <1>3. MoneyTypes'
    BY <1>1, MoneyAssumption DEF MoneyInv, MoneyTypes
  <1> QED
    BY <1>1, <1>2, <1>3, RollupRows DEF MoneyInv

\* Opening and closing a drawer moves no money.
LEMMA DrawersKeepMoney ==
  ASSUME MoneyInv, NEW s \in Shifts, NEW e \in Employees,
         \/ \E f \in Floats : OpenShift(s, e, f)
         \/ \E role \in Roles \cup {"cashier"} : CloseShift(s, e, role)
  PROVE  MoneyInv'
  <1> DEFINE Row == [owner: Employees \cup {None}, status: {"unopened", "open", "closed"},
                     opening: Nat, expected: Nat]
  <1>1. UNCHANGED <<orderStatus, orderSubtotal, payment, rollup, taxRate>>
    BY DEF OpenShift, CloseShift, orderVars
  <1>2. CASE \E f \in Floats : OpenShift(s, e, f)
    <2>1. PICK f \in Floats : OpenShift(s, e, f)
      BY <1>2
    <2>2. shift' \in [Shifts -> Row]
      BY <2>1, MoneyAssumption DEF OpenShift, MoneyInv, MoneyTypes
    <2>3. MoneyTypes'
      BY <1>1, <2>2 DEF MoneyInv, MoneyTypes
    <2> QED
      BY <1>1, <2>3, RollupRows DEF MoneyInv
  <1>3. CASE \E role \in Roles \cup {"cashier"} : CloseShift(s, e, role)
    <2> DEFINE total == shift[s].opening + CollectedOn(s)
    <2>1. shift' = [shift EXCEPT ![s].status = "closed", ![s].expected = total]
      BY <1>3 DEF CloseShift
    <2>2. total \in Nat
      BY CollectedAmounts DEF MoneyInv, MoneyTypes
    <2> HIDE DEF total
    <2>3. shift' \in [Shifts -> Row]
      BY <2>1, <2>2 DEF MoneyInv, MoneyTypes
    <2>4. MoneyTypes'
      BY <1>1, <2>3 DEF MoneyInv, MoneyTypes
    <2> QED
      BY <1>1, <2>4, RollupRows DEF MoneyInv
  <1> QED
    BY <1>2, <1>3

LEMMA StepKeepsMoney == VisitInv /\ PaidInv /\ MoneyInv /\ [Next]_vars => MoneyInv'
  <1> SUFFICES ASSUME VisitInv, PaidInv, MoneyInv, [Next]_vars
               PROVE  MoneyInv'
    OBVIOUS
  <1>1. CASE UNCHANGED <<orderStatus, orderSubtotal, payment, shift, rollup>> /\ taxRate' \in TaxRates
    <2>1. MoneyTypes'
      BY <1>1 DEF MoneyInv, MoneyTypes
    <2> QED
      BY <1>1, <2>1, RollupRows DEF MoneyInv
  <1>2. ASSUME NEW q \in Requests, OrderStep(q)
        PROVE  \/ CommitTransition(q)
               \/ \E o \in Orders, s \in Subtotals : \E g, t, addon : InsertOrder(o, g, t, addon, s)
               \/ UNCHANGED <<orderVars, moneyVars>>
    BY <1>2 DEF OrderStep, BeginTransition, LoseTransition, BeginCreate, BeginAddon,
                RefuseOrder, JoinVisit, OpenVisit, CommitAddon
  <1>3. ASSUME NEW q \in Requests, TableStep(q)
        PROVE  UNCHANGED <<orderVars, moneyVars>>
    BY <1>3 DEF TableStep, BeginRemove, BeginClean, CommitRemove, CommitClean
  <1>4. UNCHANGED <<orderVars, moneyVars>> =>
          UNCHANGED <<orderStatus, orderSubtotal, payment, shift, rollup>> /\ taxRate' \in TaxRates
    BY DEF orderVars, moneyVars, MoneyInv, MoneyTypes
  <1>5. ASSUME NEW q \in Requests, OrderStep(q) \/ TableStep(q)
        PROVE  MoneyInv'
    BY <1>1, <1>2, <1>3, <1>4, <1>5, CommitKeepsMoney, InsertKeepsMoney
  <1>6. CASE BillingStep
    BY <1>6, PaymentKeepsMoney, DrawersKeepMoney DEF BillingStep
  <1>7. CASE Crash \/ UNCHANGED vars
    BY <1>1, <1>4, <1>7 DEF Crash, vars
  <1>8. ASSUME NEW bps \in TaxRates, SetTaxRate(bps)
        PROVE  MoneyInv'
    BY <1>1, <1>8 DEF SetTaxRate, orderVars
  <1> QED
    BY <1>5, <1>6, <1>7, <1>8 DEF Next

LEMMA InitMoney == Init => MoneyInv
  <1> SUFFICES ASSUME Init
               PROVE  MoneyInv
    OBVIOUS
  <1>1. MoneyTypes
    BY DEF Init, MoneyTypes, NoPayment, NoShift
  <1>2. CollectedIn(payment) = 0
    <2>1. \A g \in Groups : Amounts(payment)[g] = 0
      BY DEF Init, Amounts, NoPayment
    <2> QED
      BY <2>1, FiniteAssumption, SumOfNothing DEF CollectedIn
  <1>3. \A s \in {"completed", "cancelled"} : CountIn(orderStatus, s) = 0
    <2>1. \A s \in {"completed", "cancelled"} : {o \in Orders : orderStatus[o] = s} = {}
      BY DEF Init
    <2> QED
      BY <2>1, FS_EmptySet DEF CountIn
  <1> QED
    BY <1>1, <1>2, <1>3, RollupRows DEF Init, MoneyInv

LEMMA MoneyInvariant == Spec => [](VisitInv /\ PaidInv /\ MoneyInv)
  <1>1. Init => PaidInv
    BY NoneAssumption DEF Init, PaidInv, ClosedByOnePayment
  <1> QED
    BY <1>1, InitMoney, StepKeepsPaidInv, StepKeepsMoney, VisitInvariant, PTL DEF Spec

\* Every row of the floor stays of its type, the amounts and sums of money too.
THEOREM FloorTypes == Spec => []TypeOK
  <1>1. VisitInv /\ MoneyInv => TypeOK
    BY DEF VisitInv, MoneyInv, TypeOK
  <1> QED
    BY <1>1, MoneyInvariant, PTL

\* The daily rollup, to which each payment and each cancellation adds its share,
\* never drifts from what was collected nor from the orders themselves.
THEOREM RollupAlwaysReconciles == Spec => []RollupReconciles
  <1>1. MoneyInv => RollupReconciles
    BY DEF MoneyInv
  <1> QED
    BY <1>1, MoneyInvariant, PTL

\* With one cleaner per table at a time, an open visit can be cooked, served or
\* paid, unless its orders are all cancelled or free.
THEOREM VisitsAlwaysGoOn == SerialSpec => []OpenVisitsGoOn
  <1>1. Init => SettledInv
    BY DEF Init, SettledInv
  <1>2. VisitInv /\ SeatingInv /\ SettledInv /\ MoneyTypes => OpenVisitsGoOn
    <2> SUFFICES ASSUME VisitInv, SeatingInv, SettledInv, MoneyTypes,
                        NEW g \in Groups, groupStatus[g] = "open"
                 PROVE  /\ tableStatus[groupTable[g]] = "occupied"
                        /\ \/ Blocking(g) # {}
                           \/ BillTotal(Billable(g)) > 0
                           \/ \A o \in OrdersOf(g) : orderStatus[o] = "cancelled" \/ orderSubtotal[o] = 0
      BY DEF OpenVisitsGoOn
    <2>a. groupTable[g] \in Tables
      BY OpenVisitIsSeated
    <2>b. tableStatus[groupTable[g]] = "occupied"
      BY <2>a DEF SeatingInv, OccupiedIffVisited, OpenGroupsAt
    <2> SUFFICES ASSUME Blocking(g) = {}, NEW o \in OrdersOf(g),
                        orderStatus[o] # "cancelled", orderSubtotal[o] # 0
                 PROVE  BillTotal(Billable(g)) > 0
      BY <2>b
    <2>1. o \in Orders /\ orderGroup[o] = g
      BY DEF OrdersOf
    <2>2. orderStatus[o] \notin {"paid", "completed", "unplaced"} \cup InFlightStatuses
      BY <2>1, NoneAssumption DEF SettledInv, Blocking, VisitInv, OrderRows, Placed
    <2>3. o \in Billable(g)
      BY <2>1, <2>2 DEF Billable, VisitInv, RowTypes, OrderStatus, TerminalStatuses
    <2>4. Billable(g) \in SUBSET Orders
      BY DEF Billable, OrdersOf
    <2>5. BillTotal(Billable(g)) \in Nat /\ BillTotal(Billable(g)) >= orderSubtotal[o]
      BY <2>3, <2>4, BillAmounts
    <2>6. orderSubtotal[o] \in Nat
      BY <2>1 DEF MoneyTypes
    <2> QED
      BY <2>5, <2>6
  <1>3. SerialSpec => Spec
    BY PTL DEF SerialSpec, Spec
  <1>4. MoneyInv => MoneyTypes
    BY DEF MoneyInv
  <1> QED
    BY <1>1, <1>2, <1>3, <1>4, StepKeepsSettledInv, SerialInvariant, MoneyInvariant, PTL
    DEF Spec

-----------------------------------------------------------------------------
(***************************************************************************)
(* What order_status_events tells of the orders, and which of them is the  *)
(* main order of its visit.                                                *)
(***************************************************************************)
\* A row of order_status_events, as <<from, to>>.
Event == (OrderStatus \cup {"unplaced"}) \X OrderStatus

\* A log that starts with the insert, is unbroken and ends in a status.
Chained(log, status) ==
  /\ status # "unplaced" <=> log # <<>>
  /\ log # <<>> => log[1][1] = "unplaced" /\ log[Len(log)][2] = status
  /\ \A i \in 1 .. Len(log) - 1 : log[i][2] = log[i + 1][1]

\* The second event of a log.
LEMMA AppendToOne ==
  ASSUME NEW S, NEW a \in S, NEW b \in S
  PROVE  Append(<<a>>, b) = <<a, b>>
  <1> DEFINE s == Append(<<a>>, b)
  <1>1. <<a>> \in Seq(S) /\ <<a, b>> \in Seq(S) /\ Len(<<a>>) = 1 /\ Len(<<a, b>>) = 2
    OBVIOUS
  <1>2. s \in Seq(S) /\ Len(s) = 2 /\ s[1] = a /\ s[2] = b
    BY <1>1, AppendProperties
  <1> HIDE DEF s
  <1>3. \A i \in 1 .. Len(s) : s[i] = <<a, b>>[i]
    <2>1. \A i \in 1 .. 2 : i = 1 \/ i = 2
      OBVIOUS
    <2> QED
      BY <1>2, <2>1
  <1>4. s = <<a, b>>
    BY <1>1, <1>2, <1>3, SeqEqual
  <1> QED
    BY <1>4 DEF s

\* transitionStatusTransaction appends the status it found and the new one.
LEMMA AppendChains ==
  ASSUME NEW log \in Seq(Event), NEW from \in OrderStatus, NEW to \in OrderStatus,
         Chained(log, from)
  PROVE  Append(log, <<from, to>>) \in Seq(Event) /\ Chained(Append(log, <<from, to>>), to)
  <1> DEFINE event == <<from, to>>
             new == Append(log, event)
  <1>1. "unplaced" \notin OrderStatus
    BY DEF OrderStatus, InFlightStatuses, TerminalStatuses
  <1>2. event \in Event /\ event[1] = from /\ event[2] = to
    BY DEF Event
  <1>3. log # <<>> /\ Len(log) \in Nat \ {0}
    BY <1>1 DEF Chained
  <1> HIDE DEF event
  <1>4. /\ new \in Seq(Event)
        /\ Len(new) = Len(log) + 1
        /\ \A i \in 1 .. Len(log) : new[i] = log[i]
        /\ new[Len(log) + 1] = event
        /\ new # <<>>
    BY <1>2, AppendProperties
  <1>5. new[1][1] = "unplaced"
    BY <1>3, <1>4 DEF Chained
  <1>6. ASSUME NEW i \in 1 .. Len(new) - 1
        PROVE  new[i][2] = new[i + 1][1]
    <2>1. CASE i = Len(log)
      BY <1>2, <1>3, <1>4, <2>1 DEF Chained
    <2>2. CASE i # Len(log)
      <3>1. i \in 1 .. Len(log) - 1 /\ i \in 1 .. Len(log) /\ i + 1 \in 1 .. Len(log)
        BY <1>3, <1>4, <2>2
      <3> QED
        BY <1>4, <3>1 DEF Chained
    <2> QED
      BY <2>1, <2>2
  <1> HIDE DEF new
  <1>7. Chained(new, to)
    BY <1>1, <1>2, <1>4, <1>5, <1>6 DEF Chained
  <1> QED
    BY <1>4, <1>7 DEF new, event

\* The event inserted with an order.
LEMMA InsertChains ==
  /\ <<<<"unplaced", "pending">>>> \in Seq(Event)
  /\ Chained(<<<<"unplaced", "pending">>>>, "pending")
  <1>1. <<"unplaced", "pending">> \in Event
    BY DEF Event, OrderStatus, InFlightStatuses
  <1> QED
    BY <1>1 DEF Chained

\* The two events a payment appends to a served order.
LEMMA CompletionChains ==
  ASSUME NEW log \in Seq(Event), Chained(log, "served")
  PROVE  Chained(log \o CompletionEvents, "completed")
  <1> DEFINE first == Append(log, <<"served", "paid">>)
             both == Append(first, <<"paid", "completed">>)
  <1>1. {"served", "paid", "completed"} \subseteq OrderStatus
    BY DEF OrderStatus, TerminalStatuses
  <1>2. first \in Seq(Event) /\ Chained(first, "paid")
    BY <1>1, AppendChains
  <1> HIDE DEF first
  <1>3. both \in Seq(Event) /\ Chained(both, "completed")
    BY <1>1, <1>2, AppendChains
  <1>4. both = log \o CompletionEvents
    <2>1. /\ <<"served", "paid">> \in Event /\ <<"paid", "completed">> \in Event
      BY <1>1 DEF Event
    <2>2. /\ first = log \o << <<"served", "paid">> >>
          /\ both = first \o << <<"paid", "completed">> >>
      BY <1>2, <2>1, AppendIsConcat DEF first
    <2>3. << <<"served", "paid">> >> \in Seq(Event) /\ << <<"paid", "completed">> >> \in Seq(Event)
      BY <2>1
    <2>4. both = log \o (<< <<"served", "paid">> >> \o << <<"paid", "completed">> >>)
      BY <2>2, <2>3, ConcatAssociative
    <2>5. << <<"served", "paid">> >> \o << <<"paid", "completed">> >>
            = << <<"served", "paid">>, <<"paid", "completed">> >>
      <3>1. << <<"served", "paid">> >> \o << <<"paid", "completed">> >>
              = Append(<< <<"served", "paid">> >>, <<"paid", "completed">>)
        BY <2>1, <2>3, AppendIsConcat
      <3> QED
        BY <2>1, <3>1, AppendToOne
    <2> QED
      BY <2>4, <2>5 DEF CompletionEvents
  <1> QED
    BY <1>3, <1>4

-----------------------------------------------------------------------------
(***************************************************************************)
(* The inductive invariant.  A waiter's cancellation was judged on pending *)
(* (ruling Q3), the compare-and-set still finds it, and the log of a       *)
(* pending order is its first event.                                       *)
(***************************************************************************)
HistoryInv ==
  /\ \A o \in Orders : Chained(statusEvents[o], orderStatus[o])
  /\ \A o \in Orders :
       /\ orderStatus[o] = "pending" => statusEvents[o] = <<<<"unplaced", "pending">>>>
       /\ cancelledBy[o] # None => orderStatus[o] = "cancelled"
  /\ WaiterCancelsOnlyPending
  /\ \A q \in Requests :
       req[q].kind = "transition" /\ req[q].action = "cancel" /\ req[q].role = "waiter"
         => req[q].from = "pending"

\* No order is placed yet.
LEMMA InitHistory == Init => HistoryInv
  <1> SUFFICES ASSUME Init PROVE HistoryInv
    OBVIOUS
  <1>1. \A o \in Orders : Chained(statusEvents[o], orderStatus[o])
    BY DEF Init, Chained
  <1> QED
    BY <1>1, NoneAssumption
    DEF Init, HistoryInv, WaiterCancelsOnlyPending, Idle

\* What a step does to requests: none comes to remember a late cancellation.
LEMMA WaiterSlots ==
  ASSUME VisitInv, HistoryInv, [Next]_vars
  PROVE  \A q \in Requests :
           req'[q].kind = "transition" /\ req'[q].action = "cancel" /\ req'[q].role = "waiter"
             => req'[q].from = "pending"
  <1> SUFFICES ASSUME NEW p \in Requests,
                      req'[p].kind = "transition", req'[p].action = "cancel",
                      req'[p].role = "waiter"
               PROVE  req'[p].from = "pending"
    OBVIOUS
  <1>1. ASSUME req'[p] = req[p]
        PROVE  req'[p].from = "pending"
    BY <1>1 DEF HistoryInv
  <1>2. ASSUME NEW q \in Requests, NEW o \in Orders, NEW action \in Actions, NEW role \in Roles,
               BeginTransition(q, o, action, role)
        PROVE  req'[p].from = "pending"
    <2> DEFINE r == [kind |-> "transition", order |-> o, action |-> action,
                     from |-> orderStatus[o], role |-> role]
    <2>1. req'[p] = r \/ req'[p] = req[p]
      BY <1>2 DEF BeginTransition, Begin, VisitInv, RowTypes
    <2> QED
      BY <1>1, <1>2, <2>1 DEF BeginTransition, CancelAllowed
  <1>3. ASSUME NEW q \in Requests, Finish(q)
        PROVE  req'[p].from = "pending"
    <2>1. req'[p] = Idle \/ req'[p] = req[p]
      BY <1>3 DEF Finish, VisitInv, RowTypes
    <2> QED
      BY <1>1, <2>1 DEF Idle
  <1>4. ASSUME NEW q \in Requests, NEW r, Begin(q, r), r.kind # "transition"
        PROVE  req'[p].from = "pending"
    <2>1. req'[p] = r \/ req'[p] = req[p]
      BY <1>4 DEF Begin, VisitInv, RowTypes
    <2> QED
      BY <1>1, <1>4, <2>1
  <1>5. CASE Crash
    BY <1>5 DEF Crash, Idle
  <1>6. CASE UNCHANGED req
    BY <1>1, <1>6
  <1>7. ASSUME NEW q \in Requests, OrderStep(q)
        PROVE  req'[p].from = "pending"
    <2>1. \/ \E o \in Orders, action \in Actions, role \in Roles :
               BeginTransition(q, o, action, role)
          \/ Finish(q)
          \/ \E t \in Tables : BeginCreate(q, t)
          \/ \E o \in Orders : BeginAddon(q, o)
      BY <1>7 DEF OrderStep, CommitTransition, LoseTransition, JoinVisit, OpenVisit, CommitAddon,
                  RefuseOrder
    <2> QED
      BY <1>2, <1>3, <1>4, <2>1 DEF BeginCreate, BeginAddon
  <1>8. ASSUME NEW q \in Requests, TableStep(q)
        PROVE  req'[p].from = "pending"
    BY <1>3, <1>4, <1>8 DEF TableStep, BeginRemove, BeginClean, CommitRemove, CommitClean
  <1> QED
    BY <1>5, <1>6, <1>7, <1>8
    DEF Next, BillingStep, RecordPayment, OpenShift, CloseShift, SetTaxRate, vars

\* The parts of the invariant that speak of orders alone.
OrdersTold ==
  \A o \in Orders :
    /\ Chained(statusEvents[o], orderStatus[o])
    /\ orderStatus[o] = "pending" => statusEvents[o] = <<<<"unplaced", "pending">>>>
    /\ cancelledBy[o] # None => orderStatus[o] = "cancelled"
    /\ cancelledBy[o] = "waiter" =>
         statusEvents[o] = <<<<"unplaced", "pending">>, <<"pending", "cancelled">>>>

\* transitionStatusTransaction.
LEMMA TransitionTells ==
  ASSUME VisitInv, HistoryInv, NEW q \in Requests, CommitTransition(q)
  PROVE  OrdersTold'
  <1> DEFINE r == req[q]
             o == r.order
             to == ToStatus(r.action, r.from)
  <1>1. r \in TransitionRequest /\ r.from \in ExpectedFrom[r.action]
    BY SlotShape DEF VisitInv, RowTypes, SlotRows, CommitTransition
  <1>2. o \in Orders /\ r.action \in Actions /\ r.from \in OrderStatus /\ r.role \in Roles
    BY <1>1 DEF TransitionRequest
  <1>3. /\ to \in OrderStatus /\ to # "pending"
        /\ r.from \in InFlightStatuses \cup {"served"}
        /\ r.action = "cancel" <=> to = "cancelled"
    BY <1>1, <1>2, TransitionStatuses DEF Actions, ToStatus, ExpectedFrom
  <1>4. orderStatus[o] = r.from
    BY DEF CommitTransition, StillExpected
  <1>5. /\ orderStatus' = [orderStatus EXCEPT ![o] = to]
        /\ statusEvents' = [statusEvents EXCEPT ![o] = Append(@, <<r.from, to>>)]
        /\ IF r.action = "cancel" THEN cancelledBy' = [cancelledBy EXCEPT ![o] = r.role]
                                  ELSE cancelledBy' = cancelledBy
    BY <1>4 DEF CommitTransition
  <1> HIDE DEF to
  <1>6. /\ orderStatus'[o] = to
        /\ statusEvents'[o] = Append(statusEvents[o], <<r.from, to>>)
        /\ cancelledBy'[o] = IF r.action = "cancel" THEN r.role ELSE cancelledBy[o]
    BY <1>2, <1>5 DEF VisitInv, RowTypes
  <1>7. Chained(statusEvents'[o], to)
    <2>1. statusEvents[o] \in Seq(Event)
      BY <1>2 DEF VisitInv, RowTypes, Event
    <2>2. Chained(statusEvents[o], r.from)
      BY <1>2, <1>4 DEF HistoryInv
    <2> QED
      BY <1>2, <1>3, <1>6, <2>1, <2>2, AppendChains
  <1>8. cancelledBy[o] = None
    BY <1>2, <1>3, <1>4 DEF HistoryInv, InFlightStatuses
  <1>9. cancelledBy'[o] = "waiter" =>
          statusEvents'[o] = <<<<"unplaced", "pending">>, <<"pending", "cancelled">>>>
    <2> SUFFICES ASSUME cancelledBy'[o] = "waiter"
                 PROVE  statusEvents'[o] = <<<<"unplaced", "pending">>, <<"pending", "cancelled">>>>
      OBVIOUS
    <2>1. r.action = "cancel" /\ r.role = "waiter"
      BY <1>6, <1>8, NoneAssumption
    <2>2. r.from = "pending" /\ to = "cancelled"
      BY <1>3, <2>1 DEF HistoryInv, CommitTransition
    <2>3. statusEvents[o] = <<<<"unplaced", "pending">>>>
      BY <1>2, <1>4, <2>2 DEF HistoryInv
    <2> QED
      <3>1. Append(<<<<"unplaced", "pending">>>>, <<"pending", "cancelled">>)
              = <<<<"unplaced", "pending">>, <<"pending", "cancelled">>>>
        <4>1. <<"unplaced", "pending">> \in Event /\ <<"pending", "cancelled">> \in Event
          BY DEF Event, OrderStatus, InFlightStatuses, TerminalStatuses
        <4> QED
          BY <4>1, AppendToOne
      <3> QED
        BY <1>6, <2>2, <2>3, <3>1
  <1> SUFFICES ASSUME NEW p \in Orders
               PROVE  /\ Chained(statusEvents'[p], orderStatus'[p])
                      /\ orderStatus'[p] = "pending" =>
                           statusEvents'[p] = <<<<"unplaced", "pending">>>>
                      /\ cancelledBy'[p] # None => orderStatus'[p] = "cancelled"
                      /\ cancelledBy'[p] = "waiter" =>
                           statusEvents'[p]
                             = <<<<"unplaced", "pending">>, <<"pending", "cancelled">>>>
    BY DEF OrdersTold
  <1>10. CASE p = o
    BY <1>3, <1>6, <1>7, <1>8, <1>9, <1>10
  <1>11. CASE p # o
    <2>1. /\ orderStatus'[p] = orderStatus[p] /\ statusEvents'[p] = statusEvents[p]
          /\ cancelledBy'[p] = cancelledBy[p]
      BY <1>2, <1>5, <1>11 DEF VisitInv, RowTypes
    <2> QED
      BY <2>1 DEF HistoryInv, WaiterCancelsOnlyPending
  <1> QED
    BY <1>10, <1>11

\* The inserts of both create paths.
LEMMA InsertTells ==
  ASSUME VisitInv, HistoryInv, NEW o \in Orders, NEW g, NEW t, NEW addon, NEW s,
         InsertOrder(o, g, t, addon, s)
  PROVE  OrdersTold'
  <1>1. /\ orderStatus' = [orderStatus EXCEPT ![o] = "pending"]
        /\ statusEvents' = [statusEvents EXCEPT ![o] = <<<<"unplaced", "pending">>>>]
        /\ cancelledBy' = cancelledBy /\ orderStatus[o] = "unplaced"
    BY DEF InsertOrder, Placed
  <1>2. cancelledBy[o] = None
    BY <1>1 DEF HistoryInv
  <1> SUFFICES ASSUME NEW p \in Orders
               PROVE  /\ Chained(statusEvents'[p], orderStatus'[p])
                      /\ orderStatus'[p] = "pending" =>
                           statusEvents'[p] = <<<<"unplaced", "pending">>>>
                      /\ cancelledBy'[p] # None => orderStatus'[p] = "cancelled"
                      /\ cancelledBy'[p] = "waiter" =>
                           statusEvents'[p]
                             = <<<<"unplaced", "pending">>, <<"pending", "cancelled">>>>
    BY DEF OrdersTold
  <1>3. CASE p = o
    BY <1>1, <1>2, <1>3, InsertChains, NoneAssumption DEF VisitInv, RowTypes
  <1>4. CASE p # o
    BY <1>1, <1>4 DEF VisitInv, RowTypes, HistoryInv, WaiterCancelsOnlyPending
  <1> QED
    BY <1>3, <1>4

\* recordPaymentTransaction.
LEMMA PaymentTells ==
  ASSUME VisitInv, HistoryInv, NEW g \in Groups, NEW e \in Employees, RecordPayment(g, e)
  PROVE  OrdersTold'
  <1> DEFINE bill == Billable(g)
  <1>1. /\ orderStatus' =
             [o \in Orders |-> IF o \in bill THEN "completed" ELSE orderStatus[o]]
        /\ statusEvents' =
             [o \in Orders |-> IF o \in bill THEN statusEvents[o] \o CompletionEvents
                                             ELSE statusEvents[o]]
        /\ cancelledBy' = cancelledBy
    BY DEF RecordPayment, CompleteOrders
  <1>2. \A o \in bill : o \in Orders /\ orderStatus[o] = "served"
    BY DEF Billable, OrdersOf
  <1> HIDE DEF bill
  <1> SUFFICES ASSUME NEW p \in Orders
               PROVE  /\ Chained(statusEvents'[p], orderStatus'[p])
                      /\ orderStatus'[p] = "pending" =>
                           statusEvents'[p] = <<<<"unplaced", "pending">>>>
                      /\ cancelledBy'[p] # None => orderStatus'[p] = "cancelled"
                      /\ cancelledBy'[p] = "waiter" =>
                           statusEvents'[p]
                             = <<<<"unplaced", "pending">>, <<"pending", "cancelled">>>>
    BY DEF OrdersTold
  <1>3. CASE p \in bill
    <2>1. cancelledBy[p] = None /\ Chained(statusEvents[p], "served")
      BY <1>2, <1>3 DEF HistoryInv
    <2>2. Chained(statusEvents[p] \o CompletionEvents, "completed")
      BY <2>1, CompletionChains DEF VisitInv, RowTypes, Event
    <2> QED
      BY <1>1, <1>3, <2>1, <2>2, NoneAssumption
  <1>4. CASE p \notin bill
    BY <1>1, <1>4 DEF HistoryInv, WaiterCancelsOnlyPending
  <1> QED
    BY <1>3, <1>4

\* Only these three write orders or their events.
LEMMA StepTells ==
  ASSUME VisitInv, HistoryInv, [Next]_vars
  PROVE  OrdersTold'
  <1>1. CASE UNCHANGED orderVars
    BY <1>1 DEF HistoryInv, OrdersTold, WaiterCancelsOnlyPending, orderVars
  <1>2. \/ UNCHANGED orderVars
        \/ \E q \in Requests : CommitTransition(q)
        \/ \E o \in Orders : \E g, t, addon, s : InsertOrder(o, g, t, addon, s)
        \/ \E g \in Groups, e \in Employees : RecordPayment(g, e)
    <2>1. ASSUME NEW q \in Requests, OrderStep(q)
          PROVE  \/ UNCHANGED orderVars
                 \/ CommitTransition(q)
                 \/ \E o \in Orders : \E g, t, addon, s : InsertOrder(o, g, t, addon, s)
      BY <2>1
      DEF OrderStep, BeginTransition, LoseTransition, BeginCreate, BeginAddon, RefuseOrder,
          JoinVisit, OpenVisit, CommitAddon
    <2> QED
      BY <2>1 DEF Next, TableStep, BeginRemove, BeginClean, CommitRemove, CommitClean,
                  BillingStep, OpenShift, CloseShift, SetTaxRate, Crash, vars
  <1> QED
    BY <1>1, <1>2, TransitionTells, InsertTells, PaymentTells

\* The invariant over the whole next-state relation.
LEMMA StepKeepsHistory == VisitInv /\ HistoryInv /\ [Next]_vars => HistoryInv'
  BY StepTells, WaiterSlots DEF HistoryInv, OrdersTold, WaiterCancelsOnlyPending

\* Whichever handlers race for an order, its events are one unbroken history
\* that ends in its status.
THEOREM EventsStayChained == Spec => []StatusEventsChain
  <1>1. Spec => []HistoryInv
    BY InitHistory, StepKeepsHistory, VisitInvariant, PTL DEF Spec
  <1>2. HistoryInv => StatusEventsChain
    BY DEF HistoryInv, Chained, StatusEventsChain, Placed
  <1> QED
    BY <1>1, <1>2, PTL

\* Although a waiter's window is judged before the await, no order a waiter
\* cancelled had been accepted.
THEOREM WaitersCancelInTime == Spec => []WaiterCancelsOnlyPending
  <1>1. Spec => []HistoryInv
    BY InitHistory, StepKeepsHistory, VisitInvariant, PTL DEF Spec
  <1>2. HistoryInv => WaiterCancelsOnlyPending
    BY DEF HistoryInv
  <1> QED
    BY <1>1, <1>2, PTL

-----------------------------------------------------------------------------
(***************************************************************************)
(* The main order of a visit.                                              *)
(***************************************************************************)
\* An insert as an add-on needs an opened group, as the main order an empty one.
LEMMA InsertKeepsMain ==
  ASSUME VisitInv, OneMainOrderPerVisit, NEW o \in Orders, NEW g \in Groups, NEW t,
         NEW addon \in BOOLEAN, NEW s, InsertOrder(o, g, t, addon, s),
         \A h \in Groups \ {g} : groupStatus'[h] = groupStatus[h],
         IF addon THEN groupStatus[g] # "unopened" ELSE OrdersOf(g) = {}
  PROVE  OneMainOrderPerVisit'
  <1>1. /\ orderGroup' = [orderGroup EXCEPT ![o] = g]
        /\ orderAddon' = [orderAddon EXCEPT ![o] = addon]
        /\ orderGroup[o] = None
    BY DEF InsertOrder, Placed, VisitInv, OrderRows
  <1>2. \A h \in Groups : h # None /\ o \notin OrdersOf(h)
    BY <1>1, NoneAssumption DEF OrdersOf
  <1>3. /\ OrdersOf(g)' = OrdersOf(g) \cup {o}
        /\ \A h \in Groups \ {g} : OrdersOf(h)' = OrdersOf(h)
        /\ orderAddon'[o] = addon
        /\ \A p \in Orders \ {o} : orderAddon'[p] = orderAddon[p]
    BY <1>1, <1>2 DEF OrdersOf, VisitInv, RowTypes
  <1> SUFFICES ASSUME NEW h \in Groups, groupStatus'[h] # "unopened"
               PROVE  \E main \in OrdersOf(h)' :
                        \A p \in OrdersOf(h)' : ~orderAddon'[p] <=> p = main
    BY DEF OneMainOrderPerVisit
  <1>4. CASE h # g
    <2>1. PICK main \in OrdersOf(h) : \A p \in OrdersOf(h) : ~orderAddon[p] <=> p = main
      BY <1>4 DEF OneMainOrderPerVisit
    <2>2. \A p \in OrdersOf(h) : orderAddon'[p] = orderAddon[p]
      BY <1>2, <1>3 DEF OrdersOf
    <2> QED
      BY <1>3, <1>4, <2>1, <2>2
  <1>5. CASE h = g /\ addon
    <2>1. PICK main \in OrdersOf(g) : \A p \in OrdersOf(g) : ~orderAddon[p] <=> p = main
      BY <1>5 DEF OneMainOrderPerVisit
    <2>2. \A p \in OrdersOf(g) : orderAddon'[p] = orderAddon[p] /\ p # o
      BY <1>2, <1>3 DEF OrdersOf
    <2>3. orderAddon'[o] /\ main # o
      BY <1>3, <1>5, <2>1, <2>2
    <2>4. \A p \in OrdersOf(g) \cup {o} : ~orderAddon'[p] <=> p = main
      BY <2>1, <2>2, <2>3
    <2>5. OrdersOf(h)' = OrdersOf(g) \cup {o}
      BY <1>3, <1>5
    <2> QED
      BY <2>1, <2>4, <2>5
  <1>6. CASE h = g /\ ~addon
    BY <1>3, <1>6
  <1> QED
    BY <1>4, <1>5, <1>6

\* Only the inserts write is_addon.
LEMMA StepKeepsMain == VisitInv /\ OneMainOrderPerVisit /\ [Next]_vars => OneMainOrderPerVisit'
  <1> SUFFICES ASSUME VisitInv, OneMainOrderPerVisit, [Next]_vars
               PROVE  OneMainOrderPerVisit'
    OBVIOUS
  <1>1. ASSUME UNCHANGED <<orderGroup, orderAddon>>,
               \A g \in Groups : groupStatus'[g] # "unopened" => groupStatus[g] # "unopened"
        PROVE  OneMainOrderPerVisit'
    BY <1>1 DEF OneMainOrderPerVisit, OrdersOf
  <1>2. ASSUME NEW q \in Requests, NEW o \in Orders, NEW g \in Groups, NEW s \in Subtotals,
               JoinVisit(q, o, g, s)
        PROVE  OneMainOrderPerVisit'
    <2>1. groupStatus[g] = "open" /\ groupStatus' = groupStatus
      BY <1>2 DEF JoinVisit, OpenGroupsAt, groupVars
    <2>2. IsAddon(g) = TRUE
      BY <2>1 DEF IsAddon, OneMainOrderPerVisit
    <2> QED
      BY <1>2, <2>1, <2>2, InsertKeepsMain DEF JoinVisit
  <1>3. ASSUME NEW q \in Requests, NEW o \in Orders, NEW g \in Groups, NEW s \in Subtotals,
               OpenVisit(q, o, g, s)
        PROVE  OneMainOrderPerVisit'
    <2>1. groupTable[g] = None
      BY <1>3 DEF OpenVisit, VisitInv, VisitRows
    <2>2. OrdersOf(g) = {}
      BY <2>1, NoneAssumption DEF OrdersOf, VisitInv, OrderRows
    <2>3. \A h \in Groups \ {g} : groupStatus'[h] = groupStatus[h]
      BY <1>3 DEF OpenVisit, VisitInv, RowTypes
    <2> QED
      BY <1>3, <2>2, <2>3, InsertKeepsMain DEF OpenVisit
  <1>4. ASSUME NEW q \in Requests, NEW o \in Orders, NEW s \in Subtotals, CommitAddon(q, o, s)
        PROVE  OneMainOrderPerVisit'
    <2>1. req[q].group \in Groups /\ groupStatus[req[q].group] = "open"
      BY <1>4, SlotShape DEF CommitAddon, GroupAccepts, VisitInv, RowTypes, AddonRequest
    <2> QED
      BY <1>4, <2>1, InsertKeepsMain DEF CommitAddon, groupVars
  <1>5. ASSUME NEW g \in Groups, NEW e \in Employees, RecordPayment(g, e)
        PROVE  OneMainOrderPerVisit'
    <2>1. \A h \in Groups : groupStatus'[h] # "unopened" => groupStatus[h] # "unopened"
      BY <1>5 DEF RecordPayment, CloseGroup, VisitInv, RowTypes
    <2> QED
      BY <1>1, <1>5, <2>1 DEF RecordPayment
  <1>6. ASSUME NEW q \in Requests, OrderStep(q)
        PROVE  OneMainOrderPerVisit'
    <2>1. \/ \E o \in Orders, g \in Groups, s \in Subtotals :
               JoinVisit(q, o, g, s) \/ OpenVisit(q, o, g, s)
          \/ \E o \in Orders, s \in Subtotals : CommitAddon(q, o, s)
          \/ UNCHANGED <<orderGroup, orderAddon, groupStatus>>
      BY <1>6 DEF OrderStep, BeginTransition, CommitTransition, LoseTransition, BeginCreate,
                  BeginAddon, RefuseOrder, orderVars, groupVars
    <2> QED
      BY <1>1, <1>2, <1>3, <1>4, <2>1
  <1>7. \/ \E q \in Requests : OrderStep(q)
        \/ \E g \in Groups, e \in Employees : RecordPayment(g, e)
        \/ UNCHANGED <<orderGroup, orderAddon, groupStatus>>
    BY DEF Next, TableStep, BeginRemove, BeginClean, CommitRemove, CommitClean,
           BillingStep, OpenShift, CloseShift, SetTaxRate, Crash, vars, orderVars, groupVars
  <1> QED
    BY <1>1, <1>5, <1>6, <1>7

\* Every visit has exactly one main order, whatever is cancelled in it.
THEOREM OneMainOrderEver == Spec => []OneMainOrderPerVisit
  <1>1. Init => OneMainOrderPerVisit
    BY DEF Init, OneMainOrderPerVisit
  <1> QED
    BY <1>1, StepKeepsMain, VisitInvariant, PTL DEF Spec
=============================================================================
