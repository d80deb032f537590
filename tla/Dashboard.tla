------------------------------ MODULE Dashboard ------------------------------
(***************************************************************************)
(* What analytics.service.ts derives: the KPIs around a finished report,   *)
(* whose revenue by shift is read from the payments after the report was   *)
(* aggregated, and the kitchen's times, which pair status events of the    *)
(* range with earlier ones.                                                *)
(***************************************************************************)
EXTENDS SalesReports

CONSTANTS
  OnShift, \* employees whose payments go to a shift, which is named after them
  Staff    \* active employees of the roles kitchen and waiter

ASSUME DashboardAssumption ==
  /\ OnShift \subseteq Employees /\ IsFiniteSet(OnShift)
  /\ Staff \subseteq Employees /\ None \notin Nat

VARIABLES
  kpis,     \* the answer of getKpis, as far as it is not in the report
  created,  \* orders.createdAt of the orders that are being prepared
  events,   \* their accepted and ready events
  stats     \* the operational figures being made, or the last ones

dashboardVars == <<kpis, created, events, stats>>
allVars == <<vars, dashboardVars>>

NotYet == [place |-> "unasked"]

Event == [of: Orders, to: {"accepted", "ready"}, at: Stamps, by: Employees]

DashboardInit ==
  /\ kpis = NotYet
  /\ created = [o \in Orders |-> None]
  /\ events = {}
  /\ stats = NotYet

-----------------------------------------------------------------------------
(***************************************************************************)
(* The KPIs of a report.                                                   *)
(***************************************************************************)
RoundHalfUpDiv(n, d) == (2 * n + d) \div (2 * d)

AverageOrderValue ==
  IF report.agg.orders = 0 THEN None
    ELSE RoundHalfUpDiv(report.agg.revenue, report.agg.orders)

\* Cancelled orders belong to no collecting employee; four digits.
CancellationRate ==
  LET all == report.agg.orders + report.agg.cancelled
  IN IF report.who # None \/ all = 0 THEN None
       ELSE RoundHalfUpDiv(10000 * report.agg.cancelled, all)

\* The earliest of the best.
Peak(takings, entries) ==
  {b \in entries : \A c \in entries \ {b} :
     \/ takings[c].revenue < takings[b].revenue
     \/ takings[c].revenue = takings[b].revenue /\ b < c}

PeakHour == Peak(report.agg.byHour, {h \in Hours : report.agg.byHour[h].orders > 0})

\* A day on which orders were cancelled has a row too, with or without sales.
HasRow(d) ==
  /\ report.who = None /\ report.from <= d /\ d <= report.to /\ d < report.today
  /\ daily[d].cancelled > 0

PeakDay ==
  Peak(report.agg.byDay, {d \in Days : report.agg.byDay[d].orders > 0 \/ HasRow(d)})

\* getTopProducts and bestOf, up to the names that break a tie.
Top(k) ==
  LET sold == {p \in Products : report.agg.byProduct[p] > 0}
  IN {p \in sold :
        Cardinality({q \in sold : report.agg.byProduct[q] > report.agg.byProduct[p]}) < k}

ShiftOf(e) == IF e \in OnShift THEN e ELSE None

\* Mutation: the payments of closed shifts are not looked up.
InTheWindowOnShift ==
  {o \in Completed : DayOf(order[o].paidAt) \in report.from .. report.to
                       /\ report.who \in {None, order[o].by} /\ order[o].by \in OnShift}

\* findPaymentsInWindow.
InTheWindow ==
  {o \in Completed : DayOf(order[o].paidAt) \in report.from .. report.to
                       /\ report.who \in {None, order[o].by}}

\* revenueByShift, when the report has been aggregated.
ReadShifts ==
  /\ report.place = "done" /\ kpis = NotYet
  /\ kpis' =
       [place |-> "done", paid |-> InTheWindow,
        byShift |-> [s \in OnShift \cup {None} |->
          SumFunction([o \in {i \in InTheWindow : ShiftOf(order[i].by) = s} |->
                         order[o].amount])]]
  /\ UNCHANGED <<vars, created, events, stats>>

-----------------------------------------------------------------------------
(***************************************************************************)
(* The kitchen's times.  These orders are not sold in the model.           *)
(***************************************************************************)
Enter(o, to, e) == events' = events \cup {[of |-> o, to |-> to, at |-> clock, by |-> e]}

Has(o, to) == \E ev \in events : ev.of = o /\ ev.to = to

Create(o) ==
  /\ created[o] = None
  /\ created' = [created EXCEPT ![o] = clock]
  /\ UNCHANGED <<vars, kpis, events, stats>>

Accept(o, e) ==
  /\ created[o] # None /\ ~Has(o, "accepted")
  /\ Enter(o, "accepted", e)
  /\ UNCHANGED <<vars, kpis, created, stats>>

Ready(o, e) ==
  /\ Has(o, "accepted") /\ ~Has(o, "ready")
  /\ Enter(o, "ready", e)
  /\ UNCHANGED <<vars, kpis, created, stats>>

Within(S, from, to) == {ev \in S : DayOf(ev.at) \in from .. to}

\* findActorEventsInWindow, and for averagePreparationTime without the filter
\* (who = None).
AskStats(from, to, who) ==
  /\ stats = NotYet
  /\ stats' = [place |-> "spans", from |-> from, to |-> to, who |-> who,
               found |-> {ev \in Within(events, from, to) : who \in {None, ev.by}}]
  /\ UNCHANGED <<vars, kpis, created, events>>

\* Mutation: only events of the range are paired.
AcceptedOfRange(os) ==
  {ev \in Within(events, stats.from, stats.to) : ev.of \in os /\ ev.to = "accepted"}

\* findEventsByOrderIdsAndStatus: at any time.
AcceptedOf(os) == {ev \in events : ev.of \in os /\ ev.to = "accepted"}

Average(spans, T) ==
  IF T = {} THEN None
    ELSE RoundHalfUpDiv(SumFunctionOnSet(spans, T), Cardinality(T))

\* The second read, and the figures.  A ready event without an accepted one and
\* a negative span do not count.
ReadSpans ==
  LET accepted == AcceptedOf({ev.of : ev \in stats.found})
      taken    == {ev \in stats.found : ev.to = "accepted"}
      finished == {ev \in stats.found : ev.to = "ready" /\ \E a \in accepted : a.of = ev.of}
      start    == [ev \in finished |-> Min({a.at : a \in {b \in accepted : b.of = ev.of}})]
  IN /\ stats.place = "spans"
     /\ stats' = [place |-> "done", from |-> stats.from, to |-> stats.to, who |-> stats.who,
          acceptance  |-> Average([ev \in taken |-> ev.at - created[ev.of]], taken),
          preparation |-> Average([ev \in finished |-> ev.at - start[ev]],
                                  {ev \in finished : ev.at >= start[ev]}),
          handled |-> {ev.of : ev \in stats.found}, found |-> stats.found]
     /\ UNCHANGED <<vars, kpis, created, events>>

DashboardStep ==
  \/ ReadShifts \/ ReadSpans
  \/ \E o \in Orders : Create(o) \/ \E e \in Employees : Accept(o, e) \/ Ready(o, e)
  \/ \E from, to \in Days, who \in Staff \cup {None} : from <= to /\ AskStats(from, to, who)

AllInit == Init /\ DashboardInit

AllNext == (Next /\ UNCHANGED dashboardVars) \/ DashboardStep

AllSpec == AllInit /\ [][AllNext]_allVars

-----------------------------------------------------------------------------
\* D1, D2: one answer of getKpis is of one piece, although revenue by shift is
\* read later and from other tables.  At a rate that has not changed its shifts
\* add up to the total, and to more only by payments taken meanwhile; best seller,
\* peak hour and average are there exactly if there are sales, the peak day is one
\* of them, and a cancellation rate of zero hides no more than its rounding.
KpisAgree ==
  Ordinary /\ kpis.place = "done" =>
    LET byShift == SumFunction(kpis.byShift)
    IN /\ (\A o \in report.found : order[o].amount = Total(order[o].basket, report.rate)) =>
            /\ report.agg.revenue <= byShift
            /\ kpis.paid \subseteq report.known => byShift = report.agg.revenue
       /\ \A figure \in {Top(1), PeakHour} : figure = {} <=> AverageOrderValue = None
       /\ AverageOrderValue # None =>
            \E d \in PeakDay : report.agg.byDay[d].orders > 0
       /\ CancellationRate \in {0, None} =>
            \/ report.who # None
            \/ 20000 * Cardinality(CancelledInRange \cap report.known)
                 <= report.agg.orders + report.agg.cancelled

\* FR43, D1: the preparation time is the average over every order that was found
\* ready in the range, each with the whole time since it was accepted, whoever
\* accepted it and even if that was before the range.
TimesAreWhole ==
  stats.place = "done" =>
    LET done == {o \in Orders : \E ev \in stats.found : ev.of = o /\ ev.to = "ready"}
        at(o, to) ==
          CHOOSE t \in Stamps : \E ev \in events : ev.of = o /\ ev.to = to /\ ev.at = t
        span(o) == at(o, "ready") - at(o, "accepted")
    IN stats.preparation =
         IF done = {} THEN None
           ELSE RoundHalfUpDiv(SumFunction([o \in done |-> span(o)]), Cardinality(done))
=============================================================================
