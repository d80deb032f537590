---------------------------- MODULE Notifications ---------------------------
(***************************************************************************)
(* From an event of the internal bus to the staff's screens: the routing   *)
(* of staff-event-router.ts to the rooms joined in the gateway's           *)
(* handshake, the rows that notifications.listener.ts writes next to it,   *)
(* and a screen that pages through GET /notifications while rows arrive.   *)
(*                                                                         *)
(* The screens themselves are not part of the repository.  They are taken  *)
(* to do what ruling D4 asks: fetch by REST after they have joined, and    *)
(* add what they are told from then on.                                    *)
(***************************************************************************)
EXTENDS Presence, Sequences, FiniteSets

CONSTANTS
  RoleOf,    \* employees.role
  Events,    \* events of the bus, by the commit they tell of
  KindOf,    \* their kinds
  RowIds,    \* ids of notifications, in their order in the database
  MaxStamp,  \* bound of the clock that createdAt and readAt are taken from
  PageSize,  \* limit of a page
  None       \* SQL NULL

ASSUME NotificationAssumption ==
  /\ None \notin RowIds /\ RowIds \subseteq Nat /\ PageSize \in Nat \ {0}
  /\ MaxStamp \in Nat /\ None \notin 0 .. MaxStamp

VARIABLES
  call,    \* the listener's call for an event
  rows,    \* the table notifications
  now,     \* milliseconds
  screen,  \* what the screen behind a socket shows, and how far it has paged
  mark     \* the row that a markRead of this screen has found unread

feedVars == <<call, rows, now, screen, mark>>

StaffRoles == {"owner", "manager", "cashier", "waiter", "kitchen"}

Kinds == {"order_created", "order_accepted", "order_ready", "order_moved", "table",
          "availability", "profile", "invitation", "backup"}

Row == [for: StaffRoles, of: Events, at: 0 .. MaxStamp, read: (0 .. MaxStamp) \cup {None}]

ASSUME RowAssumption == None \notin Row

\* Where a page ends; Top is before all rows.
Position == (0 .. MaxStamp) \X RowIds
Top      == <<MaxStamp + 1, 0>>

FeedTypeOK ==
  /\ call \in [Events -> [at: {"unborn", "rereading", "inserting", "announcing", "done",
                               "failed", "lost"},
                          todo: Seq(StaffRoles), fresh: RowIds \cup {None}]]
  /\ rows \in [RowIds -> Row \cup {None}]
  /\ now \in 0 .. MaxStamp
  /\ screen \in [Sockets -> [at: {"unopened", "paging", "end"}, shown: SUBSET RowIds,
                             unreadOnly: BOOLEAN, cursor: Position \cup {Top}]]
  /\ mark \in [Sockets -> RowIds \cup {None}]

Blank == [at |-> "unopened", shown |-> {}, unreadOnly |-> FALSE, cursor |-> Top]

FeedInit ==
  /\ call = [ev \in Events |-> [at |-> "unborn", todo |-> <<>>, fresh |-> None]]
  /\ rows = [n \in RowIds |-> None]
  /\ now = 0
  /\ screen = [s \in Sockets |-> Blank]
  /\ mark = [s \in Sockets |-> None]

-----------------------------------------------------------------------------
(***************************************************************************)
(* Rooms.  A socket that is registered has joined them.                    *)
(***************************************************************************)
OwnerRoomRoles == {"owner", "manager"}

\* handleConnection, by the role read in the handshake.  The employee's own
\* room is left out: no emission of v1 is addressed to it.
RoomsOf(role) ==
  {role, "restaurant-broadcast"}
    \cup (IF role \in OwnerRoomRoles THEN {"owner-room"} ELSE {})

Reaches(rooms, s) ==
  bySocket[s] # Nobody /\ rooms \cap RoomsOf(RoleOf[bySocket[s]]) # {}

\* routeStaffEvent: the emissions of an event, each with its rooms and
\* whether its payload shows prices (toKitchenOrderPayload strips them).
Emissions(kind) ==
  CASE kind = "order_created" ->
         <<[rooms |-> {"kitchen"}, priced |-> FALSE], [rooms |-> {"waiter"}, priced |-> TRUE]>>
    [] kind = "order_accepted" ->
         <<[rooms |-> {"kitchen"}, priced |-> FALSE],
           [rooms |-> {"waiter", "owner-room"}, priced |-> TRUE]>>
    [] kind \in {"order_ready", "order_moved"} ->
         <<[rooms |-> {"kitchen", "waiter", "cashier", "owner-room"}, priced |-> FALSE]>>
    [] kind = "table" -> <<[rooms |-> {"waiter", "cashier", "owner-room"}, priced |-> FALSE]>>
    [] kind \in {"availability", "profile"} ->
         <<[rooms |-> {"restaurant-broadcast"}, priced |-> FALSE]>>
    [] kind = "invitation" -> <<[rooms |-> {"owner-room"}, priced |-> FALSE]>>
    [] kind = "backup" -> <<>>

\* staff-event-router.ts:52 and FR6: rooms overlap, and yet no role is told of
\* an event twice, and the kitchen is never told of prices.
ASSUME EachRoleIsToldOnce ==
  \A role \in StaffRoles, kind \in Kinds :
    LET told == {m \in DOMAIN Emissions(kind) : Emissions(kind)[m].rooms \cap RoomsOf(role) # {}}
    IN Cardinality(told) <= 1 /\ (role = "kitchen" => \A m \in told : ~Emissions(kind)[m].priced)

-----------------------------------------------------------------------------
(***************************************************************************)
(* The listener: fire-and-forget, and a rejection ends its own call only.  *)
(***************************************************************************)
\* notifyOrderCreated, ...: whom a row is written for, one after the other.
Recipients(kind) ==
  CASE kind = "order_created" -> <<"kitchen">>
    [] kind = "order_ready"   -> <<"waiter">>
    [] kind = "invitation"    -> <<"owner", "manager">>
    [] kind = "backup"        -> <<"owner">>
    [] OTHER -> <<>>

Goes(ev, step) == call' = [call EXCEPT ![ev].at = step]

\* A handler that has committed emits; an event that is not entry into ready
\* is dropped at once, and that one reads its order again.
Emit(ev) ==
  LET kind == KindOf[ev]
  IN /\ call[ev].at = "unborn"
     /\ call' = [call EXCEPT ![ev] =
          [at |-> IF Recipients(kind) = <<>> THEN "done"
                  ELSE IF kind = "order_ready" THEN "rereading" ELSE "inserting",
           todo |-> Recipients(kind), fresh |-> None]]
     /\ UNCHANGED <<rows, now, screen, mark>>

Reread(ev) ==
  /\ call[ev].at = "rereading"
  /\ Goes(ev, "inserting") \/ Goes(ev, "failed")
  /\ UNCHANGED <<rows, now, screen, mark>>

\* insert; its id is random, its createdAt the clock's.
InsertRow(ev) ==
  /\ call[ev].at = "inserting"
  /\ \/ \E n \in RowIds :
          /\ rows[n] = None
          /\ rows' = [rows EXCEPT ![n] =
               [for |-> Head(call[ev].todo), of |-> ev, at |-> now, read |-> None]]
          /\ call' = [call EXCEPT ![ev].at = "announcing", ![ev].fresh = n]
     \/ Goes(ev, "failed") /\ UNCHANGED rows
  /\ UNCHANGED <<now, screen, mark>>

\* Mutation: the call returns after its first row.
NoneLeft(todo) == <<>>

\* The next recipient of the loop.
StillToTell(todo) == Tail(todo)

\* emitNotificationCreated: the gateway passes the row to its role's room.
Deliver(ev) ==
  LET n    == call[ev].fresh
      todo == StillToTell(call[ev].todo)
  IN /\ call[ev].at = "announcing"
     /\ screen' = [s \in Sockets |->
          IF Reaches({rows[n].for}, s)
            THEN [screen[s] EXCEPT !.shown = @ \cup {n}] ELSE screen[s]]
     /\ call' = [call EXCEPT ![ev] =
          [at |-> IF todo = <<>> THEN "done" ELSE "inserting",
           todo |-> todo, fresh |-> None]]
     /\ UNCHANGED <<rows, now, mark>>

-----------------------------------------------------------------------------
(***************************************************************************)
(* GET /notifications: keyset pagination, newest first.                    *)
(***************************************************************************)
\* The order of createdAt, and of ids within a millisecond.
Precedes(p, q) == p[1] < q[1] \/ (p[1] = q[1] /\ p[2] < q[2])

PositionOf(n) == <<rows[n].at, n>>

\* Mutation: the cursor is the timestamp alone.
EarlierThan(n, cursor) == rows[n].at < cursor[1]

\* The condition that a cursor adds.
Before(n, cursor) == Precedes(PositionOf(n), cursor)

\* listForRecipient, without its limit.
Matching(role, unreadOnly, cursor) ==
  {n \in RowIds : /\ rows[n] # None /\ rows[n].for = role
                  /\ unreadOnly => rows[n].read = None
                  /\ Before(n, cursor)}

\* desc(createdAt), desc(id), and its first k.
Older(n, m) == Precedes(PositionOf(n), PositionOf(m))
Newest(ns, k) == {n \in ns : Cardinality({m \in ns : Older(n, m)}) < k}

\* A screen whose socket has joined begins to fetch.
Open(s, unreadOnly) ==
  /\ bySocket[s] # Nobody /\ screen[s].at = "unopened"
  /\ screen' = [screen EXCEPT ![s].at = "paging", ![s].unreadOnly = unreadOnly]
  /\ UNCHANGED <<call, rows, now, mark>>

\* listForEmployee: the page, and the cursor of the next if one row more was
\* found.  The answer may come late; it is added, so that changes nothing.
FetchPage(s) ==
  LET found == Matching(RoleOf[bySocket[s]], screen[s].unreadOnly, screen[s].cursor)
      page  == Newest(found, PageSize)
      last  == CHOOSE n \in page : \A m \in page : m = n \/ Older(n, m)
  IN /\ bySocket[s] # Nobody /\ screen[s].at = "paging"
     /\ screen' = [screen EXCEPT
          ![s].shown = @ \cup page,
          ![s].at = IF page = found THEN "end" ELSE "paging",
          ![s].cursor = IF page = found THEN @ ELSE PositionOf(last)]
     /\ UNCHANGED <<call, rows, now, mark>>

-----------------------------------------------------------------------------
(***************************************************************************)
(* POST /notifications/:id/read, by whoever of the role comes first.       *)
(***************************************************************************)
BeginRead(s, n) ==
  /\ mark[s] = None /\ n \in screen[s].shown
  /\ rows[n].read = None
  /\ mark' = [mark EXCEPT ![s] = n]
  /\ UNCHANGED <<call, rows, now, screen>>

\* and(eq(id), isNull(readAt)).
StillUnread(n) == rows[n].read = None

CommitRead(s) ==
  LET n == mark[s]
  IN /\ n # None
     /\ rows' = IF StillUnread(n) THEN [rows EXCEPT ![n].read = now] ELSE rows
     /\ mark' = [mark EXCEPT ![s] = None]
     /\ UNCHANGED <<call, now, screen>>

Tick ==
  /\ now < MaxStamp
  /\ now' = now + 1
  /\ UNCHANGED <<call, rows, screen, mark>>

ListenerStep(ev) == Reread(ev) \/ InsertRow(ev) \/ Deliver(ev)

FeedStep ==
  \/ \E ev \in Events : Emit(ev) \/ ListenerStep(ev)
  \/ \E s \in Sockets, unreadOnly \in BOOLEAN : Open(s, unreadOnly)
  \/ \E s \in Sockets : FetchPage(s) \/ CommitRead(s) \/ \E n \in RowIds : BeginRead(s, n)
  \/ Tick
=============================================================================
