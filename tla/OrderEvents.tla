---------------------------- MODULE OrderEvents -----------------------------
(***************************************************************************)
(* What a customer's screen is told of one order: the handlers of          *)
(* orders.service.ts and billing.service.ts emit on the in-process bus of  *)
(* domain-events.service.ts after their commit, and every SSE stream of    *)
(* streamPublicOrderEvents listens there and reads a snapshot of its own.  *)
(*                                                                         *)
(* A handler commits with a compare-and-set on the status it judged        *)
(* (OrderHandlers), so a commit is one step here.  What it awaits between  *)
(* its commit and its emission (audit rows, the items for the response)    *)
(* does not touch the order and is one step too.                           *)
(***************************************************************************)
EXTENDS OrderLifecycle, Naturals, Sequences, SequencesExt, Functions

CONSTANTS
  Handlers,      \* slots of handlers in flight
  Streams,       \* connections of customers; a reconnect is another one
  FailingAudits  \* operations whose audit append may fail

VARIABLES
  trail,      \* order_status_events of the order, by to_status
  slot,       \* what a handler still has to do after its commit
  announced,  \* the statuses emitted on the bus; the lifecycle enters each once
  stream,     \* where a stream is
  snap,       \* the snapshot a stream read
  feed        \* the statuses a stream was sent

vars == <<trail, slot, announced, stream, snap, feed>>

Operations == Actions \cup {"create", "pay"}

None == "none"
Idle == [op |-> None, due |-> <<>>, audit |-> FALSE]

Events   == UNION {[1 .. n -> OrderStatus] : n \in 0 .. 2}

\* orders.status is the last to_status (Floor!StatusEventsChain).
Status == IF trail = <<>> THEN "unplaced" ELSE Last(trail)

\* The statuses on which the customer's page closes its stream.
FinalForClient == TerminalStatuses \cup {"paid"}

StreamPlaces == {"new", "checked", "attached", "read", "open", "gone"}

\* Mutation: listeners are attached once the snapshot is out.
ListeningOnceOpen(c) == stream[c] = "open"

Listening(c) == stream[c] \in {"attached", "read", "open"}

Quiet == \A h \in Handlers : slot[h] = Idle

TypeOK ==
  /\ trail \in Seq(OrderStatus)
  /\ slot \in [Handlers -> [op: Operations \cup {None}, due: Events, audit: BOOLEAN]]
  /\ announced \subseteq OrderStatus
  /\ stream \in [Streams -> StreamPlaces]
  /\ snap \in [Streams -> OrderStatus \cup {None}]
  /\ feed \in [Streams -> SUBSET OrderStatus]

Init ==
  /\ trail = <<>>
  /\ slot = [h \in Handlers |-> Idle]
  /\ announced = {}
  /\ stream = [c \in Streams |-> "new"]
  /\ snap = [c \in Streams |-> None]
  /\ feed = [c \in Streams |-> {}]

-----------------------------------------------------------------------------
(***************************************************************************)
(* Handlers.                                                               *)
(***************************************************************************)
\* Where an operation finds the order when it commits.
Origin(op) ==
  CASE op = "create" -> {"unplaced"}
    [] op = "pay"    -> {"served"}
    [] OTHER         -> ExpectedFrom[op]

\* The to_status of the rows its transaction adds to order_status_events.
Written(op, from) ==
  CASE op = "create" -> <<"pending">>
    [] op = "pay"    -> <<"paid", "completed">>
    [] OTHER         -> <<ToStatus(op, from)>>

\* The toStatus of its events, in the order of its emit calls.
Announcement(op, from) ==
  CASE op = "create" -> <<"pending">>
    [] op = "pay"    -> <<"paid", "completed">>
    [] OTHER         -> <<ToStatus(op, from)>>

\* advance and serve emit first and write no audit row.
Audited == Operations \ {"advance", "serve"}

Commit(h, op) ==
  /\ slot[h] = Idle
  /\ Status \in Origin(op)
  /\ trail' = trail \o Written(op, Status)
  /\ slot' = [slot EXCEPT ![h] =
                [op |-> op, due |-> Announcement(op, Status), audit |-> op \in Audited]]
  /\ UNCHANGED <<announced, stream, snap, feed>>

\* audit.append after the commit: if it fails, its error ends the handler.
Audit(h) ==
  /\ slot[h].audit
  /\ \/ slot' = [slot EXCEPT ![h].audit = FALSE]
     \/ slot[h].op \in FailingAudits /\ slot' = [slot EXCEPT ![h] = Idle]
  /\ UNCHANGED <<trail, announced, stream, snap, feed>>

\* order.created is no status_changed event, the streams do not listen to it.
StatusChanges(due) == Range(due) \ {"pending"}

\* The emitter calls all listeners before the handler goes on.
Emit(h) ==
  /\ slot[h] # Idle /\ ~slot[h].audit
  /\ announced' = announced \cup Range(slot[h].due)
  /\ feed' = [c \in Streams |->
                IF Listening(c) THEN feed[c] \cup StatusChanges(slot[h].due) ELSE feed[c]]
  /\ slot' = [slot EXCEPT ![h] = Idle]
  /\ UNCHANGED <<trail, stream, snap>>

-----------------------------------------------------------------------------
(***************************************************************************)
(* Streams.                                                                *)
(***************************************************************************)

\* The existence read; an unknown order is a 404 and no stream.
Check(c) ==
  /\ stream[c] = "new" /\ trail # <<>>
  /\ stream' = [stream EXCEPT ![c] = "checked"]
  /\ UNCHANGED <<trail, slot, announced, snap, feed>>

\* The subscription attaches its listeners and starts the snapshot read.
Attach(c) ==
  /\ stream[c] = "checked"
  /\ stream' = [stream EXCEPT ![c] = "attached"]
  /\ UNCHANGED <<trail, slot, announced, snap, feed>>

ReadSnapshot(c) ==
  /\ stream[c] = "attached"
  /\ stream' = [stream EXCEPT ![c] = "read"]
  /\ snap' = [snap EXCEPT ![c] = Status]
  /\ UNCHANGED <<trail, slot, announced, feed>>

DeliverSnapshot(c) ==
  /\ stream[c] = "read"
  /\ stream' = [stream EXCEPT ![c] = "open"]
  /\ feed' = [feed EXCEPT ![c] = @ \cup {snap[c]}]
  /\ UNCHANGED <<trail, slot, announced, snap>>

Disconnected(cs) ==
  /\ stream' = [c \in Streams |-> IF c \in cs THEN "gone" ELSE stream[c]]
  /\ snap' = [c \in Streams |-> IF c \in cs THEN None ELSE snap[c]]
  /\ feed' = [c \in Streams |-> IF c \in cs THEN {} ELSE feed[c]]

\* The customer's page or network goes away; the listeners are removed.
Disconnect(c) ==
  /\ Listening(c)
  /\ Disconnected({c})
  /\ UNCHANGED <<trail, slot, announced>>

\* A restart: rows stay, nothing else does.
Crash ==
  /\ ~Quiet \/ \E c \in Streams : stream[c] = "checked" \/ Listening(c)
  /\ slot' = [h \in Handlers |-> Idle]
  /\ Disconnected({c \in Streams : stream[c] # "new"})
  /\ UNCHANGED <<trail, announced>>

Proceed(h) == Audit(h) \/ Emit(h)
Serve(c)   == Attach(c) \/ ReadSnapshot(c) \/ DeliverSnapshot(c)

Next ==
  \/ \E h \in Handlers : Proceed(h) \/ \E op \in Operations : Commit(h, op)
  \/ \E c \in Streams : Check(c) \/ Serve(c) \/ Disconnect(c)
  \/ Crash

Spec == Init /\ [][Next]_vars

\* The event loop gets round to what it has begun; nobody need order, cook or
\* open a page.
FairSpec ==
  /\ Spec
  /\ \A h \in Handlers : WF_vars(Proceed(h))
  /\ \A c \in Streams : WF_vars(Serve(c))

-----------------------------------------------------------------------------
\* A stream that has delivered its snapshot has been sent the snapshot's
\* status and every later one that was announced, however its subscription,
\* its read and the transitions interleaved.
NothingSlipsThrough ==
  \A c \in Streams :
    stream[c] = "open" =>
      /\ snap[c] \in feed[c]
      /\ \A i, j \in DOMAIN trail :
           i < j /\ trail[i] = snap[c] /\ trail[j] \in announced
             => trail[j] \in feed[c]

\* orders.service.ts:329: a missed final transition would wedge the customer's
\* screen.  Every page connected to a finished order is told, or goes away.
FinalStatusReachesScreens ==
  \A c \in Streams :
    Listening(c) /\ Status \in TerminalStatuses
      ~> stream[c] = "gone" \/ feed[c] \cap FinalForClient # {}
=============================================================================
