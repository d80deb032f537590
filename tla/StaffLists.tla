----------------------------- MODULE StaffLists -----------------------------
(***************************************************************************)
(* The two other lists that are paged by keyset: GET /orders, whose rows   *)
(* move in and out of a status filter while a screen pages on, and         *)
(* GET /audit-log, which only ever grows and is looked at between two      *)
(* times.  A page's rows and its cursor come from one read; the items and  *)
(* names joined to them never change.                                      *)
(***************************************************************************)
EXTENDS Notifications, SequencesExt

CONSTANTS
  OrderIds,  \* ids of orders, in their order in the database
  EntryIds   \* ids of audit rows, likewise

ASSUME ListAssumption == OrderIds \cup EntryIds \subseteq Nat

VARIABLES
  order,   \* the table orders: createdAt and status
  entry,   \* the table audit_log: createdAt
  board,   \* a screen that pages through the orders
  review   \* one that pages through the audit log

listVars == <<order, entry, board, review>>

\* The filter on an order's status is NULL or one of these.
ListedStatuses == {"pending", "accepted"}

OrderRow == [at: 0 .. MaxStamp, status: ListedStatuses]
EntryRow == 0 .. MaxStamp

ASSUME OrderRowAssumption == None \notin OrderRow

ListTypeOK ==
  /\ order \in [OrderIds -> OrderRow \cup {None}]
  /\ entry \in [EntryIds -> EntryRow \cup {None}]
  /\ board \in [at: {"unopened", "paging", "end"}, status: ListedStatuses \cup {None},
                cursor: ((0 .. MaxStamp) \X OrderIds) \cup {Top},
                listed: Seq(OrderIds), due: SUBSET OrderIds]
  /\ review \in [at: {"unopened", "paging", "end"}, from: 0 .. MaxStamp, to: 0 .. MaxStamp,
                 cursor: ((0 .. MaxStamp) \X EntryIds) \cup {Top},
                 listed: Seq(EntryIds), due: SUBSET EntryIds]

ListInit ==
  /\ order = [o \in OrderIds |-> None]
  /\ entry = [a \in EntryIds |-> None]
  /\ board = [at |-> "unopened", status |-> None, cursor |-> Top, listed |-> <<>>, due |-> {}]
  /\ review = [at |-> "unopened", from |-> 0, to |-> 0, cursor |-> Top, listed |-> <<>>,
               due |-> {}]

\* orderBy(desc(createdAt), desc(id)): a row comes after those above it.
Above(x, S, position) == Cardinality({y \in S : Precedes(position[x], position[y])})
Sorted(S, position) ==
  [i \in 1 .. Cardinality(S) |-> CHOOSE x \in S : Above(x, S, position) = i - 1]

\* limit(k), or slice(0, k).
Firsts(s, k) == SubSeq(s, 1, IF k < Len(s) THEN k ELSE Len(s))

-----------------------------------------------------------------------------
(***************************************************************************)
(* GET /orders.                                                            *)
(***************************************************************************)
OrderPosition == [o \in {i \in OrderIds : order[i] # None} |-> <<order[o].at, o>>]

PlaceOrder(o) ==
  /\ order[o] = None
  /\ order' = [order EXCEPT ![o] = [at |-> now, status |-> "pending"]]
  /\ UNCHANGED <<entry, board, review>>

\* The lifecycle never returns to a status.
MoveOrder(o) ==
  /\ order[o] # None /\ order[o].status = "pending"
  /\ order' = [order EXCEPT ![o].status = "accepted"]
  /\ board' = [board EXCEPT !.due = IF board.status = "pending" THEN @ \ {o} ELSE @]
  /\ UNCHANGED <<entry, review>>

MatchingOrders(status, cursor) ==
  {o \in DOMAIN OrderPosition : status \in {None, order[o].status}
                                  /\ Precedes(OrderPosition[o], cursor)}

\* due is a history variable: the orders that match now and go on to match.
OpenBoard(status) ==
  /\ board.at = "unopened"
  /\ board' = [board EXCEPT !.at = "paging", !.status = status,
                            !.due = MatchingOrders(status, Top)]
  /\ UNCHANGED <<order, entry, review>>

\* One row more than the limit tells whether there is another page.
PageOrders ==
  LET found == Firsts(Sorted(MatchingOrders(board.status, board.cursor), OrderPosition),
                      PageSize + 1)
      page  == Firsts(found, PageSize)
      more  == Len(found) > PageSize
  IN /\ board.at = "paging"
     /\ board' = [board EXCEPT !.listed = @ \o page,
                               !.at = IF more THEN "paging" ELSE "end",
                               !.cursor = IF more THEN OrderPosition[Last(page)] ELSE @]
     /\ UNCHANGED <<order, entry, review>>

-----------------------------------------------------------------------------
(***************************************************************************)
(* GET /audit-log.                                                         *)
(***************************************************************************)
EntryPosition == [a \in {i \in EntryIds : entry[i] # None} |-> <<entry[a], a>>]

WriteEntry(a) ==
  /\ entry[a] = None
  /\ entry' = [entry EXCEPT ![a] = now]
  /\ UNCHANGED <<order, board, review>>

\* findPage, without its limit: both times are inclusive.
MatchingEntries(from, to, cursor) ==
  {a \in DOMAIN EntryPosition : entry[a] \in from .. to /\ Precedes(EntryPosition[a], cursor)}

\* list refuses a range that ends before it begins.
OpenReview(from, to) ==
  /\ review.at = "unopened" /\ from <= to
  /\ review' = [review EXCEPT !.at = "paging", !.from = from, !.to = to,
                              !.due = MatchingEntries(from, to, Top)]
  /\ UNCHANGED <<order, entry, board>>

PageEntries ==
  LET found == Firsts(Sorted(MatchingEntries(review.from, review.to, review.cursor),
                             EntryPosition),
                      PageSize + 1)
      page  == Firsts(found, PageSize)
      more  == Len(found) > PageSize
  IN /\ review.at = "paging"
     /\ review' = [review EXCEPT !.listed = @ \o page,
                                 !.at = IF more THEN "paging" ELSE "end",
                                 !.cursor = IF more THEN EntryPosition[Last(page)] ELSE @]
     /\ UNCHANGED <<order, entry, board>>

ListStep ==
  \/ \E o \in OrderIds : PlaceOrder(o) \/ MoveOrder(o)
  \/ \E status \in ListedStatuses \cup {None} : OpenBoard(status)
  \/ \E a \in EntryIds : WriteEntry(a)
  \/ \E from, to \in 0 .. MaxStamp : OpenReview(from, to)
  \/ PageOrders \/ PageEntries

-----------------------------------------------------------------------------
\* Pages follow one another without repeating a row.
Descending(listed, position) ==
  \A i, j \in DOMAIN listed : i < j => Precedes(position[listed[j]], position[listed[i]])

\* Contract 1 and D1-D3: whoever has paged to the end was given, newest first and
\* once each, the orders and the audit rows that were there at the first page and
\* matched all the time, whatever arrived or moved on between two pages and
\* however many share a millisecond.
PagesAreComplete ==
  /\ Descending(board.listed, OrderPosition)
  /\ Descending(review.listed, EntryPosition)
  /\ board.at = "end" => board.due \subseteq Range(board.listed)
  /\ review.at = "end" => review.due \subseteq Range(review.listed)
=============================================================================
