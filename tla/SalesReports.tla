---------------------------- MODULE SalesReports ----------------------------
(***************************************************************************)
(* The hybrid analytics: completed and cancelled orders are added to rollup*)
(* rows of their day inside their transaction (database/rollups.ts), and a *)
(* report takes past days from the rollups and today from the orders       *)
(* themselves (analytics.service.ts), with an await before each read.      *)
(*                                                                         *)
(* Time is a count of hours.  Each order is a visit of its own (bills of   *)
(* several orders are Floor's), each line of an order one piece of one     *)
(* product, all at one price.                                              *)
(***************************************************************************)
EXTENDS Integers, FiniteSetsExt

CONSTANTS
  Orders, Products, Employees,
  Price,        \* of a piece, before tax
  TaxRates,     \* in basis points
  HoursPerDay,
  LastDay,      \* the model's days are 0 .. LastDay
  None

ASSUME SalesAssumption ==
  /\ Price \in Nat \ {0} /\ TaxRates \subseteq Nat /\ TaxRates # {}
  /\ HoursPerDay \in Nat \ {0} /\ LastDay \in Nat
  /\ None \notin Employees

ASSUME FiniteAssumption == IsFiniteSet(Orders) /\ IsFiniteSet(Products)

VARIABLES
  clock,    \* the hour it is
  taxRate,
  order,    \* orders, with the stamps their transaction gave them
  daily, hourly, product, \* the rollup tables
  report    \* a report that is being made, or the last one

vars == <<clock, taxRate, order, daily, hourly, product, report>>

rollupVars == <<daily, hourly, product>>

Days   == 0 .. LastDay
Hours  == 0 .. HoursPerDay - 1
Stamps == 0 .. HoursPerDay * (LastDay + 1) - 1

\* rollupBucketFor: the server-local day and hour of a stamp.
DayOf(s)  == s \div HoursPerDay
HourOf(s) == s % HoursPerDay

Today == DayOf(clock)

\* computeOrderTotals: tax on the order's subtotal, rounded half up.
Net(basket) == Price * Cardinality(basket)

Total(basket, rate) == Net(basket) + (2 * Net(basket) * rate + 10000) \div 20000

Placed == [status |-> "placed"]

\* An order that was paid has the rollup's stamp, the payment's own and the
\* completion event's; one that was cancelled has the event's and the rollup's.
Order ==
  [status: {"placed"}]
    \cup [status: {"completed"}, basket: SUBSET Products, by: Employees, amount: Nat,
          bucket: Stamps, paidAt: Stamps, doneAt: Stamps]
    \cup [status: {"cancelled"}, doneAt: Stamps, bucket: Stamps]

Completed == {o \in Orders : order[o].status = "completed"}
Cancelled == {o \in Orders : order[o].status = "cancelled"}

\* What a day, an hour or a point of a chart has.
Takings == [revenue: Nat, orders: Nat]
NoSale  == [revenue |-> 0, orders |-> 0]

Plus(a, b) == [revenue |-> a.revenue + b.revenue, orders |-> a.orders + b.orders]

Aggregates ==
  [revenue: Nat, orders: Nat, cancelled: Nat,
   byDay: [Days -> Takings], byHour: [Hours -> Takings], byProduct: [Products -> Nat]]

NoReport == [place |-> "unasked"]

\* known: the orders settled when it was asked for; until: when it was finished
\* (both are history).
Report ==
  [from: Days, to: Days, who: Employees \cup {None}, today: Days, found: SUBSET Orders,
   rate: TaxRates, agg: Aggregates, known: SUBSET Orders, until: Stamps,
   place: {"completed", "payments", "rate", "cancelled", "done"}]

TypeOK ==
  /\ clock \in Stamps
  /\ taxRate \in TaxRates
  /\ order \in [Orders -> Order]
  /\ daily \in [Days -> [revenue: Nat, orders: Nat, cancelled: Nat]]
  /\ hourly \in [Days \X Hours -> Takings]
  /\ product \in [Days \X Products -> Nat]
  /\ report = NoReport \/ report \in Report

Init ==
  /\ clock = 0
  /\ taxRate \in TaxRates
  /\ order = [o \in Orders |-> Placed]
  /\ daily = [d \in Days |-> [revenue |-> 0, orders |-> 0, cancelled |-> 0]]
  /\ hourly = [b \in Days \X Hours |-> NoSale]
  /\ product = [b \in Days \X Products |-> 0]
  /\ report = NoReport

-----------------------------------------------------------------------------
(***************************************************************************)
(* The writers.                                                            *)
(***************************************************************************)
\* Mutation: the hourly row is set to the order's total.
SetHour(bucket, amount) ==
  hourly' = [hourly EXCEPT ![<<DayOf(bucket), HourOf(bucket)>>] =
               [revenue |-> amount, orders |-> 1]]

AddToHour(bucket, amount) ==
  hourly' = [hourly EXCEPT ![<<DayOf(bucket), HourOf(bucket)>>] =
               Plus(@, [revenue |-> amount, orders |-> 1])]

\* upsertCompletedOrderRollup.
AddCompleted(bucket, basket, amount) ==
  /\ daily' = [daily EXCEPT ![DayOf(bucket)].revenue = @ + amount,
                            ![DayOf(bucket)].orders = @ + 1]
  /\ AddToHour(bucket, amount)
  /\ product' = [b \in Days \X Products |->
       IF b[1] = DayOf(bucket) /\ b[2] \in basket THEN product[b] + Price ELSE product[b]]

\* Stamps taken one after the other; the hour may strike between two of them.
Hereafter(s) == {t \in {s, s + 1} : t \in Stamps}

\* recordPaymentTransaction: the rollup goes by the `now` the transaction began
\* with, the payment and the completion event get stamps of their own.
Pay(o, e, basket) ==
  \E paidAt \in Hereafter(clock) :
    \E doneAt \in {t \in Hereafter(clock) : t >= paidAt} :
      LET amount == Total(basket, taxRate)
      IN /\ order[o] = Placed
         /\ order' = [order EXCEPT ![o] =
              [status |-> "completed", basket |-> basket, by |-> e, amount |-> amount,
               bucket |-> clock, paidAt |-> paidAt, doneAt |-> doneAt]]
         /\ AddCompleted(clock, basket, amount)
         /\ clock' = doneAt
         /\ UNCHANGED <<taxRate, report>>

\* incrementCancelledOrderRollup.
CountCancelled(bucket) == daily' = [daily EXCEPT ![DayOf(bucket)].cancelled = @ + 1]

\* transitionStatusTransaction: here the event is stamped first.
Cancel(o) ==
  \E bucket \in Hereafter(clock) :
    /\ order[o] = Placed
    /\ order' = [order EXCEPT ![o] =
         [status |-> "cancelled", doneAt |-> clock, bucket |-> bucket]]
    /\ CountCancelled(bucket)
    /\ clock' = bucket
    /\ UNCHANGED <<taxRate, hourly, product, report>>

SetTaxRate(bps) ==
  /\ bps # taxRate
  /\ taxRate' = bps
  /\ UNCHANGED <<clock, order, rollupVars, report>>

Tick ==
  /\ clock + 1 \in Stamps
  /\ clock' = clock + 1
  /\ UNCHANGED <<taxRate, order, rollupVars, report>>

-----------------------------------------------------------------------------
(***************************************************************************)
(* The reports.                                                            *)
(***************************************************************************)
Nothing ==
  [revenue |-> 0, orders |-> 0, cancelled |-> 0, byDay |-> [d \in Days |-> NoSale],
   byHour |-> [h \in Hours |-> NoSale], byProduct |-> [p \in Products |-> 0]]

\* Mutation: the historical part reaches up to the range's end.
HistoricalToEnd(from, to) == from .. to

\* resolveRange: the days before today that the range covers.
Historical(from, to) == from .. Min({to, Today - 1})

IncludesToday(to) == to >= Today

\* mergeRollups.
Rollups(days) ==
  [revenue   |-> SumFunction([d \in days |-> daily[d].revenue]),
   orders    |-> SumFunction([d \in days |-> daily[d].orders]),
   cancelled |-> SumFunction([d \in days |-> daily[d].cancelled]),
   byDay     |-> [d \in Days |->
     IF d \in days THEN [revenue |-> daily[d].revenue, orders |-> daily[d].orders]
                    ELSE NoSale],
   byHour    |-> [h \in Hours |->
     [revenue |-> SumFunction([d \in days |-> hourly[<<d, h>>].revenue]),
      orders  |-> SumFunction([d \in days |-> hourly[<<d, h>>].orders])]],
   byProduct |-> [p \in Products |-> SumFunction([d \in days |-> product[<<d, p>>]])]]

\* The instant that mergeFacts takes for an order's completion.
FactAt(o) == IF report.who = None THEN order[o].doneAt ELSE order[o].paidAt

\* mergeFacts: totals are computed again, at the rate just read.
WithFacts(agg, S, rate) ==
  LET sum(T) == SumFunction([o \in T |-> Total(order[o].basket, rate)])
      takings(T) == [revenue |-> sum(T), orders |-> Cardinality(T)]
  IN [agg EXCEPT
        !.revenue = @ + sum(S),
        !.orders = @ + Cardinality(S),
        !.byDay = [d \in Days |-> Plus(@[d], takings({o \in S : DayOf(FactAt(o)) = d}))],
        !.byHour = [h \in Hours |-> Plus(@[h], takings({o \in S : HourOf(FactAt(o)) = h}))],
        !.byProduct = [p \in Products |->
          @[p] + Price * Cardinality({o \in S : p \in order[o].basket})]]

\* A report is asked for and its range resolved.  The three rollup reads are one
\* step: rows of past days do not change any more.  Reports write nothing: one is
\* enough.
Ask(from, to, who) ==
  /\ report = NoReport
  /\ report' =
       [from |-> from, to |-> to, who |-> who, today |-> Today, found |-> {},
        rate |-> taxRate, until |-> clock,
        agg |-> IF who = None THEN Rollups(Historical(from, to)) ELSE Nothing,
        known |-> Completed \cup Cancelled,
        place |-> IF who # None THEN "payments"
                  ELSE IF IncludesToday(to) THEN "completed" ELSE "done"]
  /\ UNCHANGED <<clock, taxRate, order, rollupVars>>

Goto(place, r) == report' = [r EXCEPT !.place = place, !.until = clock]

\* liveFacts: what was completed on the day that is today by now.
ReadCompleted ==
  /\ report.place = "completed"
  /\ LET S == {o \in Completed : DayOf(order[o].doneAt) = Today}
     IN Goto(IF S = {} THEN "cancelled" ELSE "rate", [report EXCEPT !.found = S])
  /\ UNCHANGED <<clock, taxRate, order, rollupVars>>

\* employeeFacts: the orders of the payments the employee took in the range.
ReadPayments ==
  /\ report.place = "payments"
  /\ LET S == {o \in Completed : /\ DayOf(order[o].paidAt) \in report.from .. report.to
                                 /\ order[o].by = report.who}
     IN Goto(IF S = {} THEN "done" ELSE "rate", [report EXCEPT !.found = S])
  /\ UNCHANGED <<clock, taxRate, order, rollupVars>>

\* Orders and items never change any more; the tax rate may.
ReadRate ==
  /\ report.place = "rate"
  /\ Goto(IF report.who = None THEN "cancelled" ELSE "done",
          [report EXCEPT !.rate = taxRate, !.agg = WithFacts(@, report.found, taxRate)])
  /\ UNCHANGED <<clock, taxRate, order, rollupVars>>

\* aggregate counts today's cancellations last.
ReadCancelled ==
  /\ report.place = "cancelled"
  /\ LET S == {o \in Cancelled : DayOf(order[o].doneAt) = Today}
     IN Goto("done", [report EXCEPT !.agg.cancelled = @ + Cardinality(S)])
  /\ UNCHANGED <<clock, taxRate, order, rollupVars>>

-----------------------------------------------------------------------------
Sell ==
  \E o \in Orders :
    \/ \E e \in Employees, basket \in (SUBSET Products) \ {{}} : Pay(o, e, basket)
    \/ Cancel(o)

MakeReport ==
  \/ \E from, to \in Days, who \in Employees \cup {None} : from <= to /\ Ask(from, to, who)
  \/ ReadCompleted \/ ReadPayments \/ ReadRate \/ ReadCancelled

Next == Sell \/ MakeReport \/ Tick \/ \E bps \in TaxRates : SetTaxRate(bps)

Spec == Init /\ [][Next]_vars

-----------------------------------------------------------------------------
\* R2: the rollup and the rows agree on an order's day.  The code does not make
\* sure of it: midnight may strike inside a transaction.
OnOneDay(o) ==
  \/ order[o] = Placed
  \/ /\ DayOf(order[o].bucket) = DayOf(order[o].doneAt)
     /\ o \in Completed => DayOf(order[o].bucket) = DayOf(order[o].paidAt)

\* A finished report that midnight did not overtake, of a range that is not all
\* in the future (such a one shows today's sales as its own).
Ordinary ==
  /\ report.place = "done"
  /\ report.from <= report.today /\ DayOf(report.until) = report.today
  /\ \A o \in Orders : OnOneDay(o)

\* What really happened: payments taken in the report's range (by the employee
\* it is about), and cancellations, going by their own stamps.
PaidInRange ==
  {o \in Completed : /\ DayOf(order[o].paidAt) \in report.from .. report.to
                     /\ report.who \in {None, order[o].by}}

CancelledInRange ==
  {o \in Cancelled : report.who = None /\ DayOf(order[o].doneAt) \in report.from .. report.to}

\* The figures of a report are those of exactly the orders in S.  Today's money
\* is computed again, and is what was collected as long as the rate is the same.
Reports(S) ==
  /\ report.agg.orders = Cardinality(S)
  /\ \A p \in Products :
       report.agg.byProduct[p] = Price * Cardinality({o \in S : p \in order[o].basket})
  /\ (\A o \in report.found : order[o].amount = Total(order[o].basket, report.rate))
       => report.agg.revenue = SumFunction([o \in S |-> order[o].amount])

\* B2(a), R2, R4: the part from the rollups and the part from the rows leave no
\* order out and count none twice: a report shows the orders paid for in its
\* range, to everybody or to one employee, as of some moment while it was made,
\* and so it does the cancellations.
ReportsMatchFacts ==
  Ordinary =>
    /\ \E S \in SUBSET PaidInRange : PaidInRange \cap report.known \subseteq S /\ Reports(S)
    /\ report.agg.cancelled \in
         Cardinality(CancelledInRange \cap report.known) .. Cardinality(CancelledInRange)

\* seriesBuckets and bucketValue: hours for a single day, days otherwise.
Series ==
  IF report.from = report.to THEN report.agg.byHour
    ELSE [d \in report.from .. report.to |-> report.agg.byDay[d]]

\* D2: whatever happens to the rate, the points of both charts add up to the
\* report's own figures, by hours and by days.
ChartsAddUp ==
  Ordinary =>
    /\ SumFunction([b \in DOMAIN Series |-> Series[b].revenue]) = report.agg.revenue
    /\ SumFunction([b \in DOMAIN Series |-> Series[b].orders]) = report.agg.orders
=============================================================================
