---------------------------- MODULE SalesProofs -----------------------------
(***************************************************************************)
(* Sales, their rollups and the owner's figures, for any number of orders, *)
(* products, days and hours.  The rows are tallies of the orders (Tallies);*)
(* a report is at every moment the sum of the orders it has read, from the *)
(* rollups those settled on earlier days, from the rows those found on its *)
(* own (ReportInv).                                                        *)
(***************************************************************************)
EXTENDS Dashboard, SumLemmas, TLAPS

\* What is summed: amounts as collected, amounts computed again, orders, and the
\* money for pieces of a product.
Amounts(rows) == [o \in Orders |-> rows[o].amount]
Computed(rows, rate) == [o \in Orders |-> Total(rows[o].basket, rate)]
Ones == [o \in Orders |-> 1]
Pieces(rows, p) == [o \in Orders |-> IF p \in rows[o].basket THEN Price ELSE 0]

Sold(rows) == {o \in Orders : rows[o].status = "completed"}
Lost(rows) == {o \in Orders : rows[o].status = "cancelled"}

\* Of the orders S, those in the rollup row of a day, or of an hour of the day.
OnDay(rows, S, d)  == {o \in S : DayOf(rows[o].bucket) = d}
InHour(rows, S, h) == {o \in S : HourOf(rows[o].bucket) = h}

\* The rollup tables are tallies of the orders' own rows.
Tallies ==
  /\ \A d \in Days :
       /\ daily[d].revenue = SumFunctionOnSet(Amounts(order), OnDay(order, Sold(order), d))
       /\ daily[d].orders = SumFunctionOnSet(Ones, OnDay(order, Sold(order), d))
       /\ daily[d].cancelled = SumFunctionOnSet(Ones, OnDay(order, Lost(order), d))
  /\ \A d \in Days, h \in Hours :
       LET S == InHour(order, OnDay(order, Sold(order), d), h)
       IN /\ hourly[<<d, h>>].revenue = SumFunctionOnSet(Amounts(order), S)
          /\ hourly[<<d, h>>].orders = SumFunctionOnSet(Ones, S)
  /\ \A d \in Days, p \in Products :
       product[<<d, p>>] = SumFunctionOnSet(Pieces(order, p), OnDay(order, Sold(order), d))

\* No stamp is ahead of the clock, and every sale was of something.
RowsAreDue ==
  \A o \in Orders :
    /\ order[o].status = "completed" =>
         /\ order[o].bucket <= clock /\ order[o].paidAt <= clock /\ order[o].doneAt <= clock
         /\ order[o].basket # {}
         /\ \E rate \in TaxRates : order[o].amount = Total(order[o].basket, rate)
    /\ order[o].status = "cancelled" => order[o].bucket <= clock /\ order[o].doneAt <= clock

RowTypes ==
  /\ clock \in Stamps
  /\ taxRate \in TaxRates
  /\ order \in [Orders -> Order]
  /\ daily \in [Days -> [revenue: Nat, orders: Nat, cancelled: Nat]]
  /\ hourly \in [Days \X Hours -> Takings]
  /\ product \in [Days \X Products -> Nat]

SalesInv == RowTypes /\ RowsAreDue /\ Tallies

-----------------------------------------------------------------------------
(***************************************************************************)
(* Days, hours and totals.                                                 *)
(***************************************************************************)
LEMMA DaysOfStamps ==
  ASSUME NEW s \in Stamps
  PROVE  DayOf(s) \in Days /\ HourOf(s) \in Hours
  <1>1. DayOf(s) \in Days
    BY SalesAssumption DEF DayOf, Days, Stamps
  <1>2. HourOf(s) \in Hours
    BY SalesAssumption DEF HourOf, Hours, Stamps
  <1> QED
    BY <1>1, <1>2

LEMMA DaysFollowStamps ==
  ASSUME NEW s \in Stamps, NEW t \in Stamps, s <= t
  PROVE  DayOf(s) <= DayOf(t)
  BY SalesAssumption DEF DayOf, Stamps

\* The total of a basket that is not empty is positive.
LEMMA TotalIsNat ==
  ASSUME NEW basket \in SUBSET Products, NEW rate \in TaxRates
  PROVE  /\ Total(basket, rate) \in Nat
         /\ basket # {} => Total(basket, rate) > 0
  <1>1. IsFiniteSet(basket)
    BY FiniteAssumption, FS_Subset
  <1>2. Cardinality(basket) \in Nat /\ (basket # {} => Cardinality(basket) # 0)
    BY <1>1, FS_CardinalityType, FS_EmptySet
  <1> DEFINE count == Cardinality(basket)
             net == Price * count
             double == 2 * net * rate
  <1>3. net \in Nat /\ (basket # {} => net > 0)
    <2>1. Price \in Nat \ {0} /\ count \in Nat
      BY <1>2, SalesAssumption
    <2>2. basket # {} => count > 0
      BY <1>2
    <2> HIDE DEF count
    <2>3. Price * count \in Nat
      BY <2>1
    <2>4. count > 0 => Price * count > 0
      BY <2>1
    <2> QED
      BY <2>2, <2>3, <2>4
  <1>4. double \in Nat
    <2> HIDE DEF net
    <2>1. rate \in Nat
      BY SalesAssumption
    <2> QED
      BY <1>3, <2>1
  <1>5. Total(basket, rate) = net + (double + 10000) \div 20000
    BY DEF Total, Net
  <1> HIDE DEF net, double
  <1>6. (double + 10000) \div 20000 \in Nat
    BY <1>4
  <1> QED
    BY <1>3, <1>5, <1>6

\* What the types say of one row.
LEMMA RowFacts ==
  ASSUME NEW rows \in [Orders -> Order], NEW o \in Orders
  PROVE  /\ rows[o] = Placed <=> rows[o].status = "placed"
         /\ rows[o].status \in {"placed", "completed", "cancelled"}
         /\ rows[o].status = "completed" =>
              /\ rows[o].basket \in SUBSET Products /\ rows[o].by \in Employees
              /\ rows[o].amount \in Nat
              /\ rows[o].bucket \in Stamps /\ rows[o].paidAt \in Stamps
              /\ rows[o].doneAt \in Stamps
         /\ rows[o].status = "cancelled" =>
              rows[o].bucket \in Stamps /\ rows[o].doneAt \in Stamps
  BY DEF Order, Placed

-----------------------------------------------------------------------------
(***************************************************************************)
(* The tallies.                                                            *)
(***************************************************************************)
\* Orders that are counted by day, hour or product are finitely many, and the
\* terms are numbers.
LEMMA TermsAreNat ==
  ASSUME NEW rows \in [Orders -> Order], NEW o \in Sold(rows)
  PROVE  /\ Amounts(rows)[o] \in Nat
         /\ Ones[o] = 1
         /\ \A rate \in TaxRates : Computed(rows, rate)[o] \in Nat
         /\ \A p \in Products : Pieces(rows, p)[o] \in Nat
  <1>1. o \in Orders /\ rows[o].amount \in Nat /\ rows[o].basket \in SUBSET Products
    BY RowFacts DEF Sold
  <1>2. \A rate \in TaxRates : Total(rows[o].basket, rate) \in Nat
    BY <1>1, TotalIsNat
  <1>3. Price \in Nat
    BY SalesAssumption
  <1> QED
    BY <1>1, <1>2, <1>3 DEF Amounts, Ones, Computed, Pieces

LEMMA OrdersAreFinite ==
  ASSUME NEW S \in SUBSET Orders
  PROVE  IsFiniteSet(S) /\ Cardinality(S) \in Nat
  BY FiniteAssumption, FS_Subset, FS_CardinalityType

\* A tally over orders when one more is settled, which it may or may not count.
LEMMA TallyGrows ==
  ASSUME NEW A \in SUBSET Orders, NEW o \in Orders, o \notin A,
         NEW f, NEW g, g[o] \in Int,
         \A x \in A : f[x] \in Int /\ g[x] = f[x]
  PROVE  /\ SumFunctionOnSet(g, A \cup {o}) = SumFunctionOnSet(f, A) + g[o]
         /\ SumFunctionOnSet(g, A) = SumFunctionOnSet(f, A) + 0
  <1>1. SumFunctionOnSet(g, A) = SumFunctionOnSet(f, A)
    BY SameTermsSameSum
  <1>2. SumFunctionOnSet(g, A) \in Int
    BY OrdersAreFinite, SumIsInt
  <1>3. SumFunctionOnSet(g, A \cup {o}) = SumFunctionOnSet(g, A) + g[o]
    BY OrdersAreFinite, SumGrows
  <1> QED
    BY <1>1, <1>2, <1>3

\* What the tallies of a day and its hours gain when order o is sold.
SaleCounted(rows, new, o, d) ==
  LET here   == DayOf(new[o].bucket) = d
      before == OnDay(rows, Sold(rows), d)
      after  == OnDay(new, Sold(new), d)
  IN /\ SumFunctionOnSet(Amounts(new), after)
          = SumFunctionOnSet(Amounts(rows), before) + (IF here THEN new[o].amount ELSE 0)
     /\ SumFunctionOnSet(Ones, after)
          = SumFunctionOnSet(Ones, before) + (IF here THEN 1 ELSE 0)
     /\ \A p \in Products :
          SumFunctionOnSet(Pieces(new, p), after)
            = SumFunctionOnSet(Pieces(rows, p), before)
                + (IF here THEN Pieces(new, p)[o] ELSE 0)
     /\ \A h \in Hours :
          LET now == here /\ HourOf(new[o].bucket) = h
          IN /\ SumFunctionOnSet(Amounts(new), InHour(new, after, h))
                  = SumFunctionOnSet(Amounts(rows), InHour(rows, before, h))
                      + (IF now THEN new[o].amount ELSE 0)
             /\ SumFunctionOnSet(Ones, InHour(new, after, h))
                  = SumFunctionOnSet(Ones, InHour(rows, before, h))
                      + (IF now THEN 1 ELSE 0)
     /\ SumFunctionOnSet(Ones, OnDay(new, Lost(new), d))
          = SumFunctionOnSet(Ones, OnDay(rows, Lost(rows), d))

LEMMA SaleCounts ==
  ASSUME NEW rows \in [Orders -> Order], NEW new \in [Orders -> Order], NEW o \in Orders,
         rows[o].status = "placed", new[o].status = "completed",
         \A x \in Orders \ {o} : new[x] = rows[x],
         NEW d \in Days
  PROVE  SaleCounted(rows, new, o, d)
  <1> DEFINE here   == DayOf(new[o].bucket) = d
             before == OnDay(rows, Sold(rows), d)
             after  == OnDay(new, Sold(new), d)
  <1>1. Sold(new) = Sold(rows) \cup {o} /\ o \notin Sold(rows) /\ Lost(new) = Lost(rows)
    BY DEF Sold, Lost
  <1>2. before \in SUBSET Orders /\ o \notin before /\ here \in BOOLEAN
    BY <1>1 DEF OnDay, Sold
  <1>3. after = IF here THEN before \cup {o} ELSE before
    BY <1>1 DEF OnDay, Sold
  <1>4. \A x \in before : x \in Sold(rows) /\ x \in Sold(new) /\ new[x] = rows[x]
    BY <1>1 DEF OnDay, Sold
  <1>5. /\ Amounts(new)[o] = new[o].amount /\ new[o].amount \in Int /\ Ones[o] = 1
        /\ \A p \in Products : Pieces(new, p)[o] \in Int
    <2>1. o \in Sold(new)
      BY <1>1
    <2>2. /\ Amounts(new)[o] \in Nat /\ Ones[o] = 1
          /\ \A p \in Products : Pieces(new, p)[o] \in Nat
      BY <2>1, TermsAreNat
    <2>3. Amounts(new)[o] = new[o].amount
      BY DEF Amounts
    <2> QED
      BY <2>2, <2>3
  <1>6. \A x \in before :
          /\ Amounts(rows)[x] \in Int /\ Amounts(new)[x] = Amounts(rows)[x]
          /\ Ones[x] \in Int
          /\ \A p \in Products :
               Pieces(rows, p)[x] \in Int /\ Pieces(new, p)[x] = Pieces(rows, p)[x]
    <2> TAKE x \in before
    <2>1. x \in Orders /\ x \in Sold(rows) /\ new[x] = rows[x]
      BY <1>4 DEF Sold
    <2>2. /\ Amounts(rows)[x] \in Int /\ Ones[x] \in Int
          /\ \A p \in Products : Pieces(rows, p)[x] \in Int
      BY <2>1, TermsAreNat
    <2> QED
      BY <2>1, <2>2 DEF Amounts, Pieces
  <1>7. OnDay(new, Lost(new), d) = OnDay(rows, Lost(rows), d)
    BY <1>1 DEF OnDay, Lost
  <1> HIDE DEF here, before, after
  <1>8. ASSUME NEW f, NEW g, g[o] \in Int, \A x \in before : f[x] \in Int /\ g[x] = f[x]
        PROVE  SumFunctionOnSet(g, after)
                 = SumFunctionOnSet(f, before) + (IF here THEN g[o] ELSE 0)
    <2>1. /\ SumFunctionOnSet(g, before \cup {o}) = SumFunctionOnSet(f, before) + g[o]
          /\ SumFunctionOnSet(g, before) = SumFunctionOnSet(f, before) + 0
      BY <1>2, <1>8, TallyGrows
    <2> QED
      BY <1>3, <2>1
  <1>9. SumFunctionOnSet(Amounts(new), after)
          = SumFunctionOnSet(Amounts(rows), before) + (IF here THEN Amounts(new)[o] ELSE 0)
    BY <1>5, <1>6, <1>8
  <1>10. SumFunctionOnSet(Ones, after)
           = SumFunctionOnSet(Ones, before) + (IF here THEN Ones[o] ELSE 0)
    BY <1>5, <1>6, <1>8
  <1>11. ASSUME NEW p \in Products
         PROVE  SumFunctionOnSet(Pieces(new, p), after)
                  = SumFunctionOnSet(Pieces(rows, p), before)
                      + (IF here THEN Pieces(new, p)[o] ELSE 0)
    BY <1>5, <1>6, <1>8
  <1>12. ASSUME NEW h \in Hours
         PROVE  LET now == here /\ HourOf(new[o].bucket) = h
                IN /\ SumFunctionOnSet(Amounts(new), InHour(new, after, h))
                        = SumFunctionOnSet(Amounts(rows), InHour(rows, before, h))
                            + (IF now THEN Amounts(new)[o] ELSE 0)
                   /\ SumFunctionOnSet(Ones, InHour(new, after, h))
                        = SumFunctionOnSet(Ones, InHour(rows, before, h))
                            + (IF now THEN Ones[o] ELSE 0)
    <2> DEFINE now == here /\ HourOf(new[o].bucket) = h
               was == InHour(rows, before, h)
               is  == InHour(new, after, h)
    <2>1. was \in SUBSET Orders /\ o \notin was
      BY <1>2 DEF InHour
    <2>2. is = IF now THEN was \cup {o} ELSE was
      <3>1. CASE here
        <4>1. after = before \cup {o}
          BY <1>3, <3>1
        <4>2. \A x : x \in is <=> (x \in before \/ x = o) /\ HourOf(new[x].bucket) = h
          BY <4>1 DEF InHour
        <4>3. \A x \in before : new[x] = rows[x]
          BY <1>4
        <4>4. CASE now
          BY <3>1, <4>2, <4>3, <4>4 DEF InHour
        <4>5. CASE ~now
          BY <3>1, <4>2, <4>3, <4>5 DEF InHour
        <4> QED
          BY <4>4, <4>5
      <3>2. CASE ~here
        <4>1. after = before
          BY <1>3, <3>2
        <4> QED
          BY <1>4, <3>2, <4>1 DEF InHour
      <3> QED
        BY <3>1, <3>2
    <2>3. \A x \in was : x \in before
      BY DEF InHour
    <2> HIDE DEF now, was, is
    <2>4. ASSUME NEW f, NEW g, g[o] \in Int, \A x \in before : f[x] \in Int /\ g[x] = f[x]
          PROVE  SumFunctionOnSet(g, is) = SumFunctionOnSet(f, was) + (IF now THEN g[o] ELSE 0)
      <3>1. \A x \in was : f[x] \in Int /\ g[x] = f[x]
        BY <2>3, <2>4
      <3>2. /\ SumFunctionOnSet(g, was \cup {o}) = SumFunctionOnSet(f, was) + g[o]
            /\ SumFunctionOnSet(g, was) = SumFunctionOnSet(f, was) + 0
        BY <2>1, <2>4, <3>1, TallyGrows
      <3> QED
        BY <2>2, <3>2
    <2>5. SumFunctionOnSet(Amounts(new), is)
            = SumFunctionOnSet(Amounts(rows), was) + (IF now THEN Amounts(new)[o] ELSE 0)
      BY <1>5, <1>6, <2>4
    <2>6. SumFunctionOnSet(Ones, is)
            = SumFunctionOnSet(Ones, was) + (IF now THEN Ones[o] ELSE 0)
      BY <1>5, <1>6, <2>4
    <2> QED
      BY <2>5, <2>6 DEF now, was, is
  <1> QED
    BY <1>5, <1>7, <1>9, <1>10, <1>11, <1>12 DEF SaleCounted, here, before, after

\* Orders whose rows stay are grouped and summed as before.
SumsStay(rows, new, S) ==
  /\ \A d : OnDay(new, S, d) = OnDay(rows, S, d)
  /\ \A h : InHour(new, S, h) = InHour(rows, S, h)
  /\ SumFunctionOnSet(Amounts(new), S) = SumFunctionOnSet(Amounts(rows), S)
  /\ \A rate : SumFunctionOnSet(Computed(new, rate), S)
                 = SumFunctionOnSet(Computed(rows, rate), S)
  /\ \A p : SumFunctionOnSet(Pieces(new, p), S) = SumFunctionOnSet(Pieces(rows, p), S)

LEMMA SettledSums ==
  ASSUME NEW rows, NEW new, NEW S \in SUBSET Orders, \A x \in S : new[x] = rows[x]
  PROVE  SumsStay(rows, new, S)
  <1>1. \A d : OnDay(new, S, d) = OnDay(rows, S, d)
    BY DEF OnDay
  <1>2. \A h : InHour(new, S, h) = InHour(rows, S, h)
    BY DEF InHour
  <1>3. SumFunctionOnSet(Amounts(new), S) = SumFunctionOnSet(Amounts(rows), S)
    <2>1. \A x \in S : Amounts(new)[x] = Amounts(rows)[x]
      BY DEF Amounts
    <2> QED
      BY <2>1, SameTermsSameSum
  <1>4. ASSUME NEW rate
        PROVE  SumFunctionOnSet(Computed(new, rate), S)
                 = SumFunctionOnSet(Computed(rows, rate), S)
    <2>1. \A x \in S : Computed(new, rate)[x] = Computed(rows, rate)[x]
      BY DEF Computed
    <2> QED
      BY <2>1, SameTermsSameSum
  <1>5. ASSUME NEW p
        PROVE  SumFunctionOnSet(Pieces(new, p), S) = SumFunctionOnSet(Pieces(rows, p), S)
    <2>1. \A x \in S : Pieces(new, p)[x] = Pieces(rows, p)[x]
      BY DEF Pieces
    <2> QED
      BY <2>1, SameTermsSameSum
  <1> QED
    BY <1>1, <1>2, <1>3, <1>4, <1>5 DEF SumsStay

\* An order is cancelled: its day has one more of them, and nothing else changes.
LEMMA CancellationCounts ==
  ASSUME NEW rows \in [Orders -> Order], NEW new \in [Orders -> Order], NEW o \in Orders,
         rows[o].status = "placed", new[o].status = "cancelled",
         \A x \in Orders \ {o} : new[x] = rows[x]
  PROVE  /\ \A d \in Days :
              SumFunctionOnSet(Ones, OnDay(new, Lost(new), d))
                = SumFunctionOnSet(Ones, OnDay(rows, Lost(rows), d))
                    + (IF DayOf(new[o].bucket) = d THEN 1 ELSE 0)
         /\ Sold(new) = Sold(rows)
         /\ \A x \in Sold(rows) : new[x] = rows[x]
  <1>1. /\ Lost(new) = Lost(rows) \cup {o} /\ o \notin Lost(rows)
        /\ Sold(new) = Sold(rows) /\ \A x \in Sold(rows) : new[x] = rows[x]
    BY DEF Sold, Lost
  <1>2. ASSUME NEW d \in Days
        PROVE  SumFunctionOnSet(Ones, OnDay(new, Lost(new), d))
                = SumFunctionOnSet(Ones, OnDay(rows, Lost(rows), d))
                    + (IF DayOf(new[o].bucket) = d THEN 1 ELSE 0)
    <2> DEFINE here   == DayOf(new[o].bucket) = d
               before == OnDay(rows, Lost(rows), d)
               after  == OnDay(new, Lost(new), d)
    <2>1. before \in SUBSET Orders /\ o \notin before /\ here \in BOOLEAN
      BY <1>1 DEF OnDay, Lost
    <2>2. after = IF here THEN before \cup {o} ELSE before
      BY <1>1 DEF OnDay, Lost
    <2>3. \A x \in Orders : Ones[x] = 1
      BY DEF Ones
    <2> HIDE DEF here, before, after
    <2>4. ASSUME NEW f, f[o] \in Int, \A x \in before : f[x] \in Int
          PROVE  SumFunctionOnSet(f, after)
                   = SumFunctionOnSet(f, before) + (IF here THEN f[o] ELSE 0)
      <3>1. /\ SumFunctionOnSet(f, before \cup {o}) = SumFunctionOnSet(f, before) + f[o]
            /\ SumFunctionOnSet(f, before) = SumFunctionOnSet(f, before) + 0
        BY <2>1, <2>4, TallyGrows
      <3> QED
        BY <2>2, <3>1
    <2>5. SumFunctionOnSet(Ones, after)
            = SumFunctionOnSet(Ones, before) + (IF here THEN 1 ELSE 0)
      BY <2>1, <2>3, <2>4
    <2> QED
      BY <2>5 DEF here, before, after
  <1> QED
    BY <1>1, <1>2

-----------------------------------------------------------------------------
(***************************************************************************)
(* What the writers keep.                                                  *)
(***************************************************************************)
\* Orders that are settled stay as they are.
Settles(rows, new) == \A o \in Orders : rows[o].status # "placed" => new[o] = rows[o]

LEMMA PayKeepsSales ==
  ASSUME SalesInv, NEW o \in Orders, NEW e \in Employees,
         NEW basket \in (SUBSET Products) \ {{}}, Pay(o, e, basket)
  PROVE  SalesInv' /\ clock <= clock' /\ Settles(order, order')
  <1> USE DEF SalesInv
  <1> DEFINE amount == Total(basket, taxRate)
  <1>1. PICK paidAt \in Hereafter(clock), doneAt \in Hereafter(clock) :
          /\ doneAt >= paidAt
          /\ order[o] = Placed
          /\ order' = [order EXCEPT ![o] =
               [status |-> "completed", basket |-> basket, by |-> e, amount |-> amount,
                bucket |-> clock, paidAt |-> paidAt, doneAt |-> doneAt]]
          /\ AddCompleted(clock, basket, amount)
          /\ clock' = doneAt
          /\ UNCHANGED taxRate
    BY DEF Pay
  <1> DEFINE row == [status |-> "completed", basket |-> basket, by |-> e, amount |-> amount,
                     bucket |-> clock, paidAt |-> paidAt, doneAt |-> doneAt]
             day  == DayOf(clock)
             hour == HourOf(clock)
  <1>2. /\ paidAt \in Stamps /\ doneAt \in Stamps
        /\ clock <= paidAt /\ paidAt <= doneAt
    BY <1>1 DEF Hereafter, RowTypes, Stamps
  <1>3. amount \in Nat
    BY TotalIsNat DEF RowTypes
  <1>4. day \in Days /\ hour \in Hours
    BY DaysOfStamps DEF RowTypes
  <1>5. /\ row \in Order /\ row.status = "completed" /\ row.bucket = clock
        /\ row.amount = amount /\ row.basket = basket
        /\ row.paidAt = paidAt /\ row.doneAt = doneAt
    BY <1>2, <1>3 DEF Order, RowTypes
  <1>6. order \in [Orders -> Order] /\ order' = [order EXCEPT ![o] = row]
    BY <1>1 DEF RowTypes
  <1> HIDE DEF row
  <1>7. /\ order' \in [Orders -> Order] /\ order'[o] = row
        /\ \A x \in Orders \ {o} : order'[x] = order[x]
    BY <1>5, <1>6
  <1>8. order[o].status = "placed" /\ order'[o].status = "completed"
    BY <1>1, <1>5, <1>7 DEF Placed
  <1> HIDE DEF amount, day, hour
  <1>9. /\ daily' \in [Days -> [revenue: Nat, orders: Nat, cancelled: Nat]]
        /\ \A d \in Days :
             /\ daily'[d].revenue = daily[d].revenue + (IF day = d THEN amount ELSE 0)
             /\ daily'[d].orders = daily[d].orders + (IF day = d THEN 1 ELSE 0)
             /\ daily'[d].cancelled = daily[d].cancelled
    <2> DEFINE first == [daily EXCEPT ![day].revenue = @ + amount]
    <2>1. daily \in [Days -> [revenue: Nat, orders: Nat, cancelled: Nat]]
      BY DEF RowTypes
    <2>2. daily' = [daily EXCEPT ![day].revenue = @ + amount, ![day].orders = @ + 1]
      BY <1>1 DEF AddCompleted, day
    <2>3. /\ first \in [Days -> [revenue: Nat, orders: Nat, cancelled: Nat]]
          /\ first[day].revenue = daily[day].revenue + amount
          /\ first[day].orders = daily[day].orders
          /\ first[day].cancelled = daily[day].cancelled
          /\ \A d \in Days \ {day} : first[d] = daily[d]
      BY <1>3, <1>4, <2>1
    <2>4. daily' = [first EXCEPT ![day].orders = @ + 1]
      BY <2>2
    <2> HIDE DEF first
    <2>5. /\ daily' \in [Days -> [revenue: Nat, orders: Nat, cancelled: Nat]]
          /\ daily'[day].revenue = first[day].revenue
          /\ daily'[day].orders = first[day].orders + 1
          /\ daily'[day].cancelled = first[day].cancelled
          /\ \A d \in Days \ {day} : daily'[d] = first[d]
      BY <1>4, <2>3, <2>4
    <2>6. \A d \in Days : daily[d].revenue \in Nat /\ daily[d].orders \in Nat
      BY <2>1
    <2> QED
      BY <1>4, <2>3, <2>5, <2>6
  <1>10. /\ hourly' \in [Days \X Hours -> Takings]
         /\ \A d \in Days, h \in Hours :
              LET now == day = d /\ hour = h
                  old == hourly[<<d, h>>]
              IN /\ hourly'[<<d, h>>].revenue = old.revenue + (IF now THEN amount ELSE 0)
                 /\ hourly'[<<d, h>>].orders = old.orders + (IF now THEN 1 ELSE 0)
    <2> DEFINE bucket == <<day, hour>>
               more == Plus(hourly[bucket], [revenue |-> amount, orders |-> 1])
    <2>1. hourly \in [Days \X Hours -> Takings] /\ bucket \in Days \X Hours
      BY <1>4 DEF RowTypes
    <2>2. /\ more \in Takings
          /\ more.revenue = hourly[bucket].revenue + amount
          /\ more.orders = hourly[bucket].orders + 1
      BY <1>3, <2>1 DEF Plus, Takings
    <2>3. hourly' = [hourly EXCEPT ![bucket] = more]
      BY <1>1 DEF AddCompleted, AddToHour, day, hour
    <2> HIDE DEF more
    <2>4. /\ hourly' \in [Days \X Hours -> Takings]
          /\ hourly'[bucket] = more
          /\ \A b \in (Days \X Hours) \ {bucket} : hourly'[b] = hourly[b]
      BY <2>1, <2>2, <2>3
    <2>5. ASSUME NEW d \in Days, NEW h \in Hours
          PROVE  LET now == day = d /\ hour = h
                     old == hourly[<<d, h>>]
                 IN /\ hourly'[<<d, h>>].revenue = old.revenue + (IF now THEN amount ELSE 0)
                    /\ hourly'[<<d, h>>].orders = old.orders + (IF now THEN 1 ELSE 0)
      <3>1. hourly[<<d, h>>].revenue \in Nat /\ hourly[<<d, h>>].orders \in Nat
        BY <2>1 DEF Takings
      <3>2. CASE day = d /\ hour = h
        BY <2>2, <2>4, <3>2
      <3>3. CASE ~(day = d /\ hour = h)
        <4>1. <<d, h>> \in (Days \X Hours) \ {bucket}
          BY <3>3
        <4>2. hourly'[<<d, h>>] = hourly[<<d, h>>]
          BY <2>4, <4>1
        <4> QED
          BY <3>1, <3>3, <4>2
      <3> QED
        BY <3>2, <3>3
    <2> QED
      BY <2>4, <2>5
  <1>11. /\ product' \in [Days \X Products -> Nat]
         /\ \A d \in Days, p \in Products :
              product'[<<d, p>>]
                = product[<<d, p>>] + (IF day = d /\ p \in basket THEN Price ELSE 0)
    <2>1. product \in [Days \X Products -> Nat] /\ Price \in Nat
      BY SalesAssumption DEF RowTypes
    <2>2. product' = [b \in Days \X Products |->
            IF b[1] = day /\ b[2] \in basket THEN product[b] + Price ELSE product[b]]
      BY <1>1 DEF AddCompleted, day
    <2>3. product' \in [Days \X Products -> Nat]
      BY <2>1, <2>2
    <2>4. ASSUME NEW d \in Days, NEW p \in Products
          PROVE  product'[<<d, p>>]
                   = product[<<d, p>>] + (IF day = d /\ p \in basket THEN Price ELSE 0)
      <3>1. product[<<d, p>>] \in Nat
        BY <2>1
      <3>2. product'[<<d, p>>] = IF d = day /\ p \in basket THEN product[<<d, p>>] + Price
                                                         ELSE product[<<d, p>>]
        BY <2>2
      <3> QED
        BY <2>1, <3>1, <3>2
    <2> QED
      BY <2>3, <2>4
  <1>12. RowTypes'
    BY <1>1, <1>2, <1>7, <1>9, <1>10, <1>11 DEF RowTypes
  <1>13. clock <= clock'
    BY <1>1, <1>2 DEF RowTypes, Stamps
  <1>14. RowsAreDue'
    <2>1. ASSUME NEW x \in Orders \ {o}
          PROVE  /\ order'[x].status = "completed" =>
                      /\ order'[x].bucket <= clock' /\ order'[x].paidAt <= clock'
                      /\ order'[x].doneAt <= clock' /\ order'[x].basket # {}
                      /\ \E rate \in TaxRates :
                           order'[x].amount = Total(order'[x].basket, rate)
                 /\ order'[x].status = "cancelled" =>
                      order'[x].bucket <= clock' /\ order'[x].doneAt <= clock'
      <3>1. order'[x] = order[x] /\ clock \in Int /\ clock' \in Int
        BY <1>7, <1>12 DEF RowTypes, Stamps
      <3>2. order[x].status = "completed" =>
              /\ order[x].bucket \in Int /\ order[x].paidAt \in Int /\ order[x].doneAt \in Int
        BY <1>6, RowFacts DEF Stamps
      <3>3. order[x].status = "cancelled" =>
              order[x].bucket \in Int /\ order[x].doneAt \in Int
        BY <1>6, RowFacts DEF Stamps
      <3> QED
        BY <1>13, <3>1, <3>2, <3>3 DEF RowsAreDue
    <2>2. /\ order'[o].bucket <= clock' /\ order'[o].paidAt <= clock'
          /\ order'[o].doneAt <= clock' /\ order'[o].basket # {}
          /\ order'[o].status = "completed"
      BY <1>1, <1>2, <1>5, <1>7, <1>13 DEF RowTypes, Stamps
    <2>3. \E rate \in TaxRates : order'[o].amount = Total(order'[o].basket, rate)
      BY <1>5, <1>7 DEF amount, RowTypes
    <2> QED
      BY <2>1, <2>2, <2>3 DEF RowsAreDue
  <1>15. Tallies'
    <2>1. /\ order'[o].bucket = clock /\ order'[o].amount = amount
          /\ order'[o].basket = basket
      BY <1>5, <1>7
    <2>2. \A p \in Products : Pieces(order', p)[o] = IF p \in basket THEN Price ELSE 0
      BY <2>1 DEF Pieces
    <2>3. ASSUME NEW d \in Days
          PROVE  LET before == OnDay(order, Sold(order), d)
                     after  == OnDay(order', Sold(order'), d)
                 IN /\ SumFunctionOnSet(Amounts(order'), after)
                         = SumFunctionOnSet(Amounts(order), before)
                             + (IF day = d THEN amount ELSE 0)
                    /\ SumFunctionOnSet(Ones, after)
                         = SumFunctionOnSet(Ones, before) + (IF day = d THEN 1 ELSE 0)
                    /\ \A p \in Products :
                         SumFunctionOnSet(Pieces(order', p), after)
                           = SumFunctionOnSet(Pieces(order, p), before)
                               + (IF day = d THEN Pieces(order', p)[o] ELSE 0)
                    /\ \A h \in Hours :
                         LET now == day = d /\ hour = h
                         IN /\ SumFunctionOnSet(Amounts(order'), InHour(order', after, h))
                                 = SumFunctionOnSet(Amounts(order), InHour(order, before, h))
                                     + (IF now THEN amount ELSE 0)
                            /\ SumFunctionOnSet(Ones, InHour(order', after, h))
                                 = SumFunctionOnSet(Ones, InHour(order, before, h))
                                     + (IF now THEN 1 ELSE 0)
                    /\ SumFunctionOnSet(Ones, OnDay(order', Lost(order'), d))
                         = SumFunctionOnSet(Ones, OnDay(order, Lost(order), d))
      <3>1. SaleCounted(order, order', o, d)
        BY <1>6, <1>7, <1>8, SaleCounts
      <3> QED
        BY <2>1, <3>1 DEF SaleCounted, day, hour
    <2>4. ASSUME NEW d \in Days
          PROVE  /\ daily'[d].revenue
                      = SumFunctionOnSet(Amounts(order'), OnDay(order', Sold(order'), d))
                 /\ daily'[d].orders = SumFunctionOnSet(Ones, OnDay(order', Sold(order'), d))
                 /\ daily'[d].cancelled
                      = SumFunctionOnSet(Ones, OnDay(order', Lost(order'), d))
      BY <1>9, <2>3 DEF Tallies
    <2>5. ASSUME NEW d \in Days, NEW h \in Hours
          PROVE  LET S == InHour(order', OnDay(order', Sold(order'), d), h)
                 IN /\ hourly'[<<d, h>>].revenue = SumFunctionOnSet(Amounts(order'), S)
                    /\ hourly'[<<d, h>>].orders = SumFunctionOnSet(Ones, S)
      BY <1>10, <2>3 DEF Tallies
    <2>6. ASSUME NEW d \in Days, NEW p \in Products
          PROVE  product'[<<d, p>>]
                   = SumFunctionOnSet(Pieces(order', p), OnDay(order', Sold(order'), d))
      BY <1>11, <2>2, <2>3 DEF Tallies
    <2> QED
      BY <2>4, <2>5, <2>6 DEF Tallies
  <1>16. Settles(order, order')
    BY <1>7, <1>8 DEF Settles
  <1> QED
    BY <1>12, <1>13, <1>14, <1>15, <1>16

LEMMA CancelKeepsSales ==
  ASSUME SalesInv, NEW o \in Orders, Cancel(o)
  PROVE  SalesInv' /\ clock <= clock' /\ Settles(order, order')
  <1> USE DEF SalesInv
  <1>1. PICK bucket \in Hereafter(clock) :
          /\ order[o] = Placed
          /\ order' = [order EXCEPT ![o] =
               [status |-> "cancelled", doneAt |-> clock, bucket |-> bucket]]
          /\ CountCancelled(bucket)
          /\ clock' = bucket
          /\ UNCHANGED <<taxRate, hourly, product>>
    BY DEF Cancel
  <1> DEFINE row == [status |-> "cancelled", doneAt |-> clock, bucket |-> bucket]
             day == DayOf(bucket)
  <1>2. bucket \in Stamps /\ clock <= bucket
    BY DEF Hereafter, RowTypes, Stamps
  <1>3. day \in Days
    BY <1>2, DaysOfStamps
  <1>4. /\ row \in Order /\ row.status = "cancelled"
        /\ row.bucket = bucket /\ row.doneAt = clock
    BY <1>2 DEF Order, RowTypes
  <1>5. order \in [Orders -> Order] /\ order' = [order EXCEPT ![o] = row]
    BY <1>1 DEF RowTypes
  <1> HIDE DEF row, day
  <1>6. /\ order' \in [Orders -> Order] /\ order'[o] = row
        /\ \A x \in Orders \ {o} : order'[x] = order[x]
    BY <1>4, <1>5
  <1>7. order[o].status = "placed" /\ order'[o].status = "cancelled"
    BY <1>1, <1>4, <1>6 DEF Placed
  <1>8. /\ daily' \in [Days -> [revenue: Nat, orders: Nat, cancelled: Nat]]
        /\ \A d \in Days :
             /\ daily'[d].revenue = daily[d].revenue
             /\ daily'[d].orders = daily[d].orders
             /\ daily'[d].cancelled = daily[d].cancelled + (IF day = d THEN 1 ELSE 0)
    <2>1. daily \in [Days -> [revenue: Nat, orders: Nat, cancelled: Nat]]
      BY DEF RowTypes
    <2>2. daily' = [daily EXCEPT ![day].cancelled = @ + 1]
      BY <1>1 DEF CountCancelled, day
    <2>3. /\ daily' \in [Days -> [revenue: Nat, orders: Nat, cancelled: Nat]]
          /\ daily'[day].revenue = daily[day].revenue
          /\ daily'[day].orders = daily[day].orders
          /\ daily'[day].cancelled = daily[day].cancelled + 1
          /\ \A d \in Days \ {day} : daily'[d] = daily[d]
      BY <1>3, <2>1, <2>2
    <2>4. \A d \in Days : daily[d].cancelled \in Nat
      BY <2>1
    <2> QED
      BY <1>3, <2>3, <2>4
  <1>9. RowTypes'
    BY <1>1, <1>2, <1>6, <1>8 DEF RowTypes
  <1>10. clock <= clock'
    BY <1>1, <1>2
  <1>11. RowsAreDue'
    <2>1. ASSUME NEW x \in Orders \ {o}
          PROVE  /\ order'[x].status = "completed" =>
                      /\ order'[x].bucket <= clock' /\ order'[x].paidAt <= clock'
                      /\ order'[x].doneAt <= clock' /\ order'[x].basket # {}
                      /\ \E rate \in TaxRates :
                           order'[x].amount = Total(order'[x].basket, rate)
                 /\ order'[x].status = "cancelled" =>
                      order'[x].bucket <= clock' /\ order'[x].doneAt <= clock'
      <3>1. order'[x] = order[x] /\ clock \in Int /\ clock' \in Int
        BY <1>6, <1>9 DEF RowTypes, Stamps
      <3>2. order[x].status = "completed" =>
              /\ order[x].bucket \in Int /\ order[x].paidAt \in Int /\ order[x].doneAt \in Int
        BY <1>5, RowFacts DEF Stamps
      <3>3. order[x].status = "cancelled" =>
              order[x].bucket \in Int /\ order[x].doneAt \in Int
        BY <1>5, RowFacts DEF Stamps
      <3> QED
        BY <1>10, <3>1, <3>2, <3>3 DEF RowsAreDue
    <2>2. order'[o].bucket <= clock' /\ order'[o].doneAt <= clock'
      BY <1>1, <1>2, <1>4, <1>6, <1>10 DEF RowTypes, Stamps
    <2>3. order'[o].status # "completed"
      BY <1>7
    <2> QED
      BY <2>1, <2>2, <2>3 DEF RowsAreDue
  <1>12. Tallies'
    <2>1. /\ \A d \in Days :
               SumFunctionOnSet(Ones, OnDay(order', Lost(order'), d))
                 = SumFunctionOnSet(Ones, OnDay(order, Lost(order), d))
                     + (IF DayOf(order'[o].bucket) = d THEN 1 ELSE 0)
          /\ Sold(order') = Sold(order)
          /\ \A x \in Sold(order) : order'[x] = order[x]
      BY <1>5, <1>6, <1>7, CancellationCounts
    <2>2. DayOf(order'[o].bucket) = day
      BY <1>4, <1>6 DEF day
    <2>3. \A S \in SUBSET Sold(order) :
            /\ \A d \in Days : OnDay(order', S, d) = OnDay(order, S, d)
            /\ \A h \in Hours : InHour(order', S, h) = InHour(order, S, h)
            /\ SumFunctionOnSet(Amounts(order'), S) = SumFunctionOnSet(Amounts(order), S)
            /\ \A p \in Products :
                 SumFunctionOnSet(Pieces(order', p), S) = SumFunctionOnSet(Pieces(order, p), S)
      <3> TAKE S \in SUBSET Sold(order)
      <3>1. S \in SUBSET Orders /\ \A x \in S : order'[x] = order[x]
        BY <2>1 DEF Sold
      <3>2. SumsStay(order, order', S)
        BY <3>1, SettledSums
      <3> QED
        BY <3>2 DEF SumsStay
    <2>4. \A d \in Days : OnDay(order, Sold(order), d) \in SUBSET Sold(order)
      BY DEF OnDay
    <2>5. \A d \in Days, h \in Hours :
            InHour(order, OnDay(order, Sold(order), d), h) \in SUBSET Sold(order)
      BY DEF OnDay, InHour
    <2>6. ASSUME NEW d \in Days
          PROVE  /\ daily'[d].revenue
                      = SumFunctionOnSet(Amounts(order'), OnDay(order', Sold(order'), d))
                 /\ daily'[d].orders = SumFunctionOnSet(Ones, OnDay(order', Sold(order'), d))
                 /\ daily'[d].cancelled
                      = SumFunctionOnSet(Ones, OnDay(order', Lost(order'), d))
      <3>1. OnDay(order', Sold(order'), d) = OnDay(order, Sold(order), d)
        BY <2>1, <2>3
      <3> QED
        BY <1>8, <2>1, <2>2, <2>3, <2>4, <3>1 DEF Tallies
    <2>7. ASSUME NEW d \in Days, NEW h \in Hours
          PROVE  LET S == InHour(order', OnDay(order', Sold(order'), d), h)
                 IN /\ hourly'[<<d, h>>].revenue = SumFunctionOnSet(Amounts(order'), S)
                    /\ hourly'[<<d, h>>].orders = SumFunctionOnSet(Ones, S)
      <3>1. OnDay(order', Sold(order'), d) = OnDay(order, Sold(order), d)
        BY <2>1, <2>3
      <3>2. InHour(order', OnDay(order', Sold(order'), d), h)
              = InHour(order, OnDay(order, Sold(order), d), h)
        BY <2>3, <2>4, <3>1
      <3> DEFINE S == InHour(order, OnDay(order, Sold(order), d), h)
      <3>3. /\ hourly[<<d, h>>].revenue = SumFunctionOnSet(Amounts(order), S)
            /\ hourly[<<d, h>>].orders = SumFunctionOnSet(Ones, S)
        BY DEF Tallies
      <3>4. SumFunctionOnSet(Amounts(order'), S) = SumFunctionOnSet(Amounts(order), S)
        BY <2>3, <2>5
      <3>5. hourly' = hourly
        BY <1>1
      <3> HIDE DEF S
      <3>6. InHour(order', OnDay(order', Sold(order'), d), h) = S
        BY <3>2 DEF S
      <3> QED
        BY <3>3, <3>4, <3>5, <3>6
    <2>8. ASSUME NEW d \in Days, NEW p \in Products
          PROVE  product'[<<d, p>>]
                   = SumFunctionOnSet(Pieces(order', p), OnDay(order', Sold(order'), d))
      <3>1. OnDay(order', Sold(order'), d) = OnDay(order, Sold(order), d)
        BY <2>1, <2>3
      <3> DEFINE S == OnDay(order, Sold(order), d)
      <3>2. product[<<d, p>>] = SumFunctionOnSet(Pieces(order, p), S)
        BY DEF Tallies
      <3>3. SumFunctionOnSet(Pieces(order', p), S) = SumFunctionOnSet(Pieces(order, p), S)
        BY <2>3, <2>4
      <3>4. product' = product
        BY <1>1
      <3> HIDE DEF S
      <3>5. OnDay(order', Sold(order'), d) = S
        BY <3>1 DEF S
      <3> QED
        BY <3>2, <3>3, <3>4, <3>5
    <2> QED
      BY <2>6, <2>7, <2>8 DEF Tallies
  <1>13. Settles(order, order')
    BY <1>6, <1>7 DEF Settles
  <1> QED
    BY <1>9, <1>10, <1>11, <1>12, <1>13

LEMMA SalesInit == Init => SalesInv
  <1> SUFFICES ASSUME Init
               PROVE  SalesInv
    OBVIOUS
  <1>1. \A o \in Orders : order[o] = Placed /\ Placed.status = "placed"
    BY DEF Init, Placed
  <1>2. Sold(order) = {} /\ Lost(order) = {}
    BY <1>1 DEF Sold, Lost
  <1>3. RowTypes
    <2>1. Placed \in Order /\ 0 \in Stamps
      BY SalesAssumption DEF Placed, Order, Stamps
    <2> QED
      BY <2>1 DEF Init, RowTypes, Takings, NoSale
  <1>4. RowsAreDue
    BY <1>1 DEF RowsAreDue
  <1>5. Tallies
    <2>1. \A d : OnDay(order, {}, d) = {} /\ \A h : InHour(order, {}, h) = {}
      BY DEF OnDay, InHour
    <2>2. \A f : SumFunctionOnSet(f, {}) = 0
      BY FS_EmptySet, SumUnfolds
    <2> QED
      BY <1>2, <2>1, <2>2 DEF Tallies, Init, NoSale
  <1> QED
    BY <1>3, <1>4, <1>5 DEF SalesInv

LEMMA SalesStep ==
  ASSUME SalesInv, [Next]_vars
  PROVE  SalesInv' /\ clock <= clock' /\ Settles(order, order')
  <1>0. clock \in Int
    BY DEF SalesInv, RowTypes, Stamps
  <1>1. CASE Sell
    <2>1. PICK o \in Orders :
            \/ \E e \in Employees, basket \in (SUBSET Products) \ {{}} : Pay(o, e, basket)
            \/ Cancel(o)
      BY <1>1 DEF Sell
    <2>2. ASSUME NEW e \in Employees, NEW basket \in (SUBSET Products) \ {{}},
                 Pay(o, e, basket)
          PROVE  SalesInv' /\ clock <= clock' /\ Settles(order, order')
      BY <2>2, PayKeepsSales
    <2>3. ASSUME Cancel(o)
          PROVE  SalesInv' /\ clock <= clock' /\ Settles(order, order')
      BY <2>3, CancelKeepsSales
    <2> QED
      BY <2>1, <2>2, <2>3
  <1>2. ASSUME UNCHANGED <<order, rollupVars>>, clock' \in Stamps, clock <= clock',
               taxRate' \in TaxRates
        PROVE  SalesInv' /\ clock <= clock' /\ Settles(order, order')
    <2>1. RowTypes'
      BY <1>2 DEF SalesInv, RowTypes, rollupVars
    <2>2. RowsAreDue'
      <3>1. clock' \in Int
        BY <1>2 DEF Stamps
      <3>2. \A o \in Orders :
              /\ order[o].status = "completed" =>
                   /\ order[o].bucket \in Int /\ order[o].paidAt \in Int
                   /\ order[o].doneAt \in Int
              /\ order[o].status = "cancelled" =>
                   order[o].bucket \in Int /\ order[o].doneAt \in Int
        BY RowFacts DEF SalesInv, RowTypes, Stamps
      <3> QED
        BY <1>0, <1>2, <3>1, <3>2 DEF SalesInv, RowsAreDue
    <2>3. Tallies'
      BY <1>2 DEF SalesInv, Tallies, rollupVars
    <2> QED
      BY <1>2, <2>1, <2>2, <2>3 DEF SalesInv, Settles
  <1>3. CASE Tick
    BY <1>0, <1>2, <1>3 DEF Tick, SalesInv, RowTypes
  <1>4. ASSUME NEW bps \in TaxRates, SetTaxRate(bps)
        PROVE  SalesInv' /\ clock <= clock' /\ Settles(order, order')
    BY <1>0, <1>2, <1>4 DEF SetTaxRate, SalesInv, RowTypes
  <1>5. CASE MakeReport
    <2>1. UNCHANGED <<clock, taxRate, order, rollupVars>>
      BY <1>5 DEF MakeReport, Ask, ReadCompleted, ReadPayments, ReadRate, ReadCancelled
    <2> QED
      BY <1>0, <1>2, <2>1 DEF SalesInv, RowTypes
  <1>6. CASE UNCHANGED vars
    BY <1>0, <1>2, <1>6 DEF vars, rollupVars, SalesInv, RowTypes
  <1> QED
    BY <1>1, <1>3, <1>4, <1>5, <1>6 DEF Next

-----------------------------------------------------------------------------
(***************************************************************************)
(* A report while it is made.                                              *)
(***************************************************************************)
\* The settled orders S that a report r has from the rollups: those it knows in
\* the rows of past days.
FromRollups(rows, r, S) ==
  {o \in S \cap r.known : /\ r.who = None
                          /\ DayOf(rows[o].bucket) \in r.from .. r.to
                          /\ DayOf(rows[o].bucket) < r.today}

\* The orders it has added from their own rows.
Added(r) == IF r.place \in {"cancelled", "done"} THEN r.found ELSE {}

FactOf(rows, r, o) == IF r.who = None THEN rows[o].doneAt ELSE rows[o].paidAt

FactsOn(rows, r, d) == {o \in Added(r) : DayOf(FactOf(rows, r, o)) = d}
FactsIn(rows, r, h) == {o \in Added(r) : HourOf(FactOf(rows, r, o)) = h}

\* Takings t are what A was sold for and B would be at a rate.
TakenFrom(rows, rate, A, B, t) ==
  /\ t.revenue = SumFunctionOnSet(Amounts(rows), A) + SumFunctionOnSet(Computed(rows, rate), B)
  /\ t.orders = SumFunctionOnSet(Ones, A) + SumFunctionOnSet(Ones, B)

FiguresAddUp(rows, r) ==
  LET past == FromRollups(rows, r, Sold(rows))
  IN /\ TakenFrom(rows, r.rate, past, Added(r), r.agg)
     /\ \A d \in Days :
          TakenFrom(rows, r.rate, OnDay(rows, past, d), FactsOn(rows, r, d), r.agg.byDay[d])
     /\ \A h \in Hours :
          TakenFrom(rows, r.rate, InHour(rows, past, h), FactsIn(rows, r, h), r.agg.byHour[h])
     /\ \A p \in Products :
          r.agg.byProduct[p] = SumFunctionOnSet(Pieces(rows, p), past)
                                 + SumFunctionOnSet(Pieces(rows, p), Added(r))

\* Only the last read of a report for everybody that includes today adds to the
\* cancellations in the rollups.
CountsLost(r) == r.place = "done" /\ r.who = None /\ r.to >= r.today

\* Q are the cancelled orders that the last read finds.
LossesFound(rows, r, Q) ==
  /\ r.agg.cancelled = SumFunctionOnSet(Ones, FromRollups(rows, r, Lost(rows)))
                         + SumFunctionOnSet(Ones, Q)
  /\ \A o \in Q : DayOf(rows[o].doneAt) = r.today
  /\ \A o \in r.known \cap Lost(rows) : DayOf(rows[o].doneAt) = r.today => o \in Q

LossesAddUp(rows, r) ==
  /\ ~CountsLost(r) =>
       r.agg.cancelled = SumFunctionOnSet(Ones, FromRollups(rows, r, Lost(rows)))
  /\ CountsLost(r) /\ DayOf(r.until) = r.today =>
       \E Q \in SUBSET Lost(rows) : LossesFound(rows, r, Q)

\* Which reads a report makes, by whom it is about and whether it includes today.
OnItsWay(r) ==
  /\ r \in Report /\ r.from <= r.to
  /\ r.place = "payments" => r.who # None
  /\ r.place \in {"completed", "cancelled"} => r.who = None /\ r.to >= r.today
  /\ r.place = "rate" => r.who # None \/ r.to >= r.today
  /\ r.place \in {"completed", "payments"} => r.found = {}
  /\ r.who = None /\ r.to < r.today => r.found = {}

\* What it knows was settled when it was asked for, and what it found is what
\* belongs to its day, or to its employee.
FoundWhatItKnows(rows, clk, r) ==
  /\ r.known \subseteq Sold(rows) \cup Lost(rows) /\ r.found \subseteq Sold(rows)
  /\ r.today <= DayOf(r.until) /\ r.until <= clk
  /\ \A o \in r.known :
       /\ DayOf(rows[o].doneAt) <= r.today
       /\ o \in Sold(rows) => DayOf(rows[o].paidAt) <= r.today
  /\ r.who = None /\ r.to >= r.today /\ r.place # "completed" /\ DayOf(r.until) = r.today =>
       /\ \A o \in r.found : DayOf(rows[o].doneAt) = r.today
       /\ \A o \in r.known \cap Sold(rows) : DayOf(rows[o].doneAt) = r.today => o \in r.found
  /\ r.who # None /\ r.place # "payments" =>
       /\ \A o \in r.found : DayOf(rows[o].paidAt) \in r.from .. r.to /\ rows[o].by = r.who
       /\ \A o \in r.known \cap Sold(rows) :
            DayOf(rows[o].paidAt) \in r.from .. r.to /\ rows[o].by = r.who => o \in r.found

Sound(rows, clk, r) ==
  \/ r = NoReport
  \/ /\ OnItsWay(r) /\ FoundWhatItKnows(rows, clk, r)
     /\ FiguresAddUp(rows, r) /\ LossesAddUp(rows, r)

ReportInv == SalesInv /\ Sound(order, clock, report)

\* The revenue by shift is what was taken in the range, all that the report has
\* among it.
KpiInv ==
  kpis = NotYet \/
    /\ report # NoReport /\ report.place = "done"
    /\ kpis.place = "done"
    /\ kpis.paid \subseteq InTheWindow
    /\ InTheWindow \cap (report.known \cup report.found) \subseteq kpis.paid
    /\ kpis.byShift \in [OnShift \cup {None} -> Nat]
    /\ \A s \in OnShift \cup {None} :
         kpis.byShift[s]
           = SumFunctionOnSet(Amounts(order), {o \in kpis.paid : ShiftOf(order[o].by) = s})

-----------------------------------------------------------------------------
(***************************************************************************)
(* Counts.                                                                 *)
(***************************************************************************)
LEMMA OnesCount ==
  ASSUME NEW S \in SUBSET Orders
  PROVE  SumFunctionOnSet(Ones, S) = Cardinality(S) /\ Cardinality(S) \in Nat
  <1>1. ASSUME NEW f, \A x \in S : f[x] = 1
        PROVE  SumFunctionOnSet(f, S) = 1 * Cardinality(S)
    BY <1>1, OrdersAreFinite, SumOfEqualTerms
  <1>2. \A x \in S : Ones[x] = 1
    BY DEF Ones
  <1> QED
    BY <1>1, <1>2, OrdersAreFinite

LEMMA PiecesCount ==
  ASSUME NEW rows, NEW p \in Products, NEW S \in SUBSET Orders
  PROVE  SumFunctionOnSet(Pieces(rows, p), S)
           = Price * Cardinality({o \in S : p \in rows[o].basket})
  <1> DEFINE with    == {o \in S : p \in rows[o].basket}
             without == S \ with
             f       == Pieces(rows, p)
  <1>1. /\ \A x \in with : f[x] = Price
        /\ \A x \in without : f[x] = 0
        /\ \A x \in S : f[x] \in Int
    BY SalesAssumption DEF Pieces
  <1>2. /\ with \in SUBSET Orders /\ without \in SUBSET Orders
        /\ with \cup without = S /\ with \cap without = {}
    OBVIOUS
  <1>3. IsFiniteSet(with) /\ IsFiniteSet(without) /\ Cardinality(with) \in Nat
    BY <1>2, OrdersAreFinite
  <1> HIDE DEF f, with, without
  <1>4. SumFunctionOnSet(f, S)
          = SumFunctionOnSet(f, with) + SumFunctionOnSet(f, without)
    BY <1>1, <1>2, <1>3, SumOfUnion
  <1>5. SumFunctionOnSet(f, with) = Price * Cardinality(with)
    BY <1>1, <1>3, SalesAssumption, SumOfEqualTerms
  <1>6. SumFunctionOnSet(f, without) = 0
    BY <1>1, <1>3, SumOfNothing
  <1>7. Price * Cardinality(with) \in Int
    BY <1>3, SalesAssumption
  <1> QED
    BY <1>4, <1>5, <1>6, <1>7 DEF f, with

-----------------------------------------------------------------------------
(***************************************************************************)
(* What is sold or cancelled meanwhile does not matter to what was read.   *)
(***************************************************************************)
LEMMA TakenStays ==
  ASSUME NEW rows, NEW new, NEW A \in SUBSET Orders, NEW B \in SUBSET Orders,
         \A x \in A \cup B : new[x] = rows[x],
         NEW rate, NEW t, TakenFrom(rows, rate, A, B, t)
  PROVE  TakenFrom(new, rate, A, B, t)
  <1>1. SumsStay(rows, new, A) /\ SumsStay(rows, new, B)
    BY SettledSums
  <1> QED
    BY <1>1 DEF SumsStay, TakenFrom

LEMMA SoundStays ==
  ASSUME NEW rows \in [Orders -> Order], NEW new \in [Orders -> Order],
         Settles(rows, new), NEW clk \in Int, NEW clk2 \in Int, clk <= clk2,
         NEW r, Sound(rows, clk, r)
  PROVE  Sound(new, clk2, r)
  <1>1. CASE r = NoReport
    BY <1>1 DEF Sound
  <1>2. ASSUME OnItsWay(r), FoundWhatItKnows(rows, clk, r),
               FiguresAddUp(rows, r), LossesAddUp(rows, r)
        PROVE  Sound(new, clk2, r)
    <2>1. /\ \A o \in Sold(rows) \cup Lost(rows) : o \in Orders /\ new[o] = rows[o]
          /\ Sold(rows) \subseteq Sold(new) /\ Lost(rows) \subseteq Lost(new)
          /\ \A o \in Sold(rows) \cup Lost(rows) :
               (o \in Sold(new) <=> o \in Sold(rows)) /\ (o \in Lost(new) <=> o \in Lost(rows))
      BY DEF Settles, Sold, Lost
    <2>2. /\ r.known \subseteq Sold(rows) \cup Lost(rows) /\ r.found \subseteq Sold(rows)
          /\ r.known \cap Sold(new) = r.known \cap Sold(rows)
          /\ r.known \cap Lost(new) = r.known \cap Lost(rows)
      BY <1>2, <2>1 DEF FoundWhatItKnows
    <2>3. FoundWhatItKnows(new, clk2, r)
      <3>1. r.until \in Int
        BY <1>2 DEF OnItsWay, Report, Stamps
      <3>2. r.today <= DayOf(r.until) /\ r.until <= clk2
        BY <1>2, <3>1 DEF FoundWhatItKnows
      <3>3. \A o \in r.known \cup r.found : new[o] = rows[o]
        BY <2>1, <2>2
      <3> QED
        BY <1>2, <2>1, <2>2, <3>2, <3>3 DEF FoundWhatItKnows
    <2> DEFINE past == FromRollups(rows, r, Sold(rows))
               lost == FromRollups(rows, r, Lost(rows))
    <2>4. /\ FromRollups(new, r, Sold(new)) = past
          /\ FromRollups(new, r, Lost(new)) = lost
      BY <2>1, <2>2 DEF FromRollups
    <2>5. /\ past \in SUBSET Orders /\ \A x \in past : new[x] = rows[x]
          /\ Added(r) \in SUBSET Orders /\ \A x \in Added(r) : new[x] = rows[x]
      BY <2>1, <2>2 DEF FromRollups, Added
    <2>6. /\ \A d : FactsOn(new, r, d) = FactsOn(rows, r, d)
          /\ \A h : FactsIn(new, r, h) = FactsIn(rows, r, h)
      BY <2>5 DEF FactsOn, FactsIn, FactOf
    <2> HIDE DEF past, lost
    <2>7. SumsStay(rows, new, past) /\ SumsStay(rows, new, Added(r))
      BY <2>5, SettledSums
    <2>8. FiguresAddUp(new, r)
      <3>1. /\ TakenFrom(rows, r.rate, past, Added(r), r.agg)
            /\ \A d \in Days :
                 TakenFrom(rows, r.rate, OnDay(rows, past, d), FactsOn(rows, r, d),
                           r.agg.byDay[d])
            /\ \A h \in Hours :
                 TakenFrom(rows, r.rate, InHour(rows, past, h), FactsIn(rows, r, h),
                           r.agg.byHour[h])
            /\ \A p \in Products :
                 r.agg.byProduct[p] = SumFunctionOnSet(Pieces(rows, p), past)
                                        + SumFunctionOnSet(Pieces(rows, p), Added(r))
        BY <1>2 DEF FiguresAddUp, past
      <3>2. TakenFrom(new, r.rate, past, Added(r), r.agg)
        BY <2>5, <3>1, TakenStays
      <3>3. ASSUME NEW d \in Days
            PROVE  TakenFrom(new, r.rate, OnDay(new, past, d), FactsOn(new, r, d),
                             r.agg.byDay[d])
        <4>1. OnDay(rows, past, d) \in SUBSET past /\ FactsOn(rows, r, d) \in SUBSET Added(r)
          BY DEF OnDay, FactsOn
        <4>2. TakenFrom(new, r.rate, OnDay(rows, past, d), FactsOn(rows, r, d),
                        r.agg.byDay[d])
          BY <2>5, <3>1, <4>1, TakenStays
        <4>3. OnDay(new, past, d) = OnDay(rows, past, d)
          BY <2>7 DEF SumsStay
        <4> QED
          BY <2>6, <4>2, <4>3
      <3>4. ASSUME NEW h \in Hours
            PROVE  TakenFrom(new, r.rate, InHour(new, past, h), FactsIn(new, r, h),
                             r.agg.byHour[h])
        <4>1. InHour(rows, past, h) \in SUBSET past /\ FactsIn(rows, r, h) \in SUBSET Added(r)
          BY DEF InHour, FactsIn
        <4>2. TakenFrom(new, r.rate, InHour(rows, past, h), FactsIn(rows, r, h),
                        r.agg.byHour[h])
          BY <2>5, <3>1, <4>1, TakenStays
        <4>3. InHour(new, past, h) = InHour(rows, past, h)
          BY <2>7 DEF SumsStay
        <4> QED
          BY <2>6, <4>2, <4>3
      <3>5. \A p \in Products :
              r.agg.byProduct[p] = SumFunctionOnSet(Pieces(new, p), past)
                                     + SumFunctionOnSet(Pieces(new, p), Added(r))
        BY <2>7, <3>1 DEF SumsStay
      <3> QED
        BY <2>4, <3>2, <3>3, <3>4, <3>5 DEF FiguresAddUp
    <2>9. LossesAddUp(new, r)
      <3>1. CASE ~CountsLost(r)
        BY <1>2, <2>4, <3>1 DEF LossesAddUp, lost
      <3>2. ASSUME CountsLost(r), DayOf(r.until) = r.today
            PROVE  \E Q \in SUBSET Lost(new) : LossesFound(new, r, Q)
        <4>1. PICK Q \in SUBSET Lost(rows) : LossesFound(rows, r, Q)
          BY <1>2, <3>2 DEF LossesAddUp
        <4>2. Q \in SUBSET Lost(new)
          BY <2>1
        <4>3. LossesFound(new, r, Q)
          BY <2>1, <2>2, <2>4, <4>1 DEF LossesFound, lost
        <4> QED
          BY <4>2, <4>3
      <3> QED
        BY <2>4, <3>1, <3>2 DEF LossesAddUp
    <2> QED
      BY <1>2, <2>3, <2>8, <2>9 DEF Sound
  <1> QED
    BY <1>1, <1>2 DEF Sound

-----------------------------------------------------------------------------
(***************************************************************************)
(* The reads of the rollups.                                               *)
(***************************************************************************)
LEMMA DaysAreFinite ==
  IsFiniteSet(Days) /\ IsFiniteSet(Hours) /\ \A S \in SUBSET Days : IsFiniteSet(S)
  <1>1. IsFiniteSet(0 .. LastDay) /\ IsFiniteSet(0 .. HoursPerDay - 1)
    BY SalesAssumption, FS_Interval
  <1> QED
    BY <1>1, FS_Subset DEF Days, Hours

LEMMA HistoricalDays ==
  ASSUME clock \in Stamps, NEW from \in Days, NEW to \in Days
  PROVE  Historical(from, to) = {d \in Days : d \in from .. to /\ d < Today}
  <1>1. Today \in Days
    BY DaysOfStamps DEF Today
  <1>2. from \in Int /\ to \in Int /\ Today - 1 \in Int /\ 0 <= from /\ to <= LastDay
    BY <1>1, SalesAssumption DEF Days
  <1>3. Min({to, Today - 1}) = IF to <= Today - 1 THEN to ELSE Today - 1
    <2> DEFINE m == IF to <= Today - 1 THEN to ELSE Today - 1
    <2>1. m \in {to, Today - 1} /\ \A y \in {to, Today - 1} : m <= y
      BY <1>2
    <2>2. \A x \in {to, Today - 1} : (\A y \in {to, Today - 1} : x <= y) => x = m
      BY <1>2
    <2> QED
      BY <2>1, <2>2 DEF Min
  <1>4. \A d : d \in Historical(from, to) <=> d \in Days /\ d \in from .. to /\ d < Today
    BY <1>1, <1>2, <1>3, SalesAssumption DEF Historical, Days
  <1> QED
    BY <1>4

OfDays(rows, S, days) == {o \in S : DayOf(rows[o].bucket) \in days}

\* Sums by day of the rows' stamps are sums of all orders of those days.
LEMMA SumOverDays ==
  ASSUME NEW rows, NEW S \in SUBSET Orders, NEW f, \A x \in S : f[x] \in Int,
         NEW days \in SUBSET Days, NEW k, DOMAIN k = days,
         \A d \in days : k[d] = SumFunctionOnSet(f, OnDay(rows, S, d))
  PROVE  SumFunction(k) = SumFunctionOnSet(f, OfDays(rows, S, days))
  <1> DEFINE part == [x \in S |-> DayOf(rows[x].bucket)]
  <1>1. \A x \in S : part[x] = DayOf(rows[x].bucket)
    OBVIOUS
  <1>2. \A d : {x \in S : part[x] = d} = OnDay(rows, S, d)
    BY <1>1 DEF OnDay
  <1>3. {x \in S : part[x] \in days} = OfDays(rows, S, days)
    BY <1>1 DEF OfDays
  <1> HIDE DEF part
  <1>4. \A d \in days : k[d] = SumFunctionOnSet(f, {x \in S : part[x] = d})
    BY <1>2
  <1>5. SumFunctionOnSet(k, days) = SumFunctionOnSet(f, {x \in S : part[x] \in days})
    <2>1. IsFiniteSet(S) /\ IsFiniteSet(days)
      BY OrdersAreFinite, DaysAreFinite
    <2> QED
      BY <1>4, <2>1, SumOfParts
  <1> QED
    BY <1>3, <1>5 DEF SumFunction

\* Terms that are numbers have sums that are.
LEMMA SumIsNat ==
  ASSUME NEW S \in SUBSET Orders, NEW f, \A x \in S : f[x] \in Nat
  PROVE  SumFunctionOnSet(f, S) \in Nat
  <1>1. \A x \in S : f[x] \in Int /\ f[x] >= 0
    OBVIOUS
  <1>2. SumFunctionOnSet(f, S) \in Int /\ SumFunctionOnSet(f, S) >= 0
    BY <1>1, OrdersAreFinite, SumIsInt
  <1> QED
    BY <1>2

LEMMA SumsAreNat ==
  ASSUME NEW rows \in [Orders -> Order], NEW S \in SUBSET Sold(rows)
  PROVE  /\ SumFunctionOnSet(Amounts(rows), S) \in Nat
         /\ \A rate \in TaxRates : SumFunctionOnSet(Computed(rows, rate), S) \in Nat
         /\ \A p \in Products : SumFunctionOnSet(Pieces(rows, p), S) \in Nat
         /\ SumFunctionOnSet(Ones, S) \in Nat
  <1>1. S \in SUBSET Orders
    BY DEF Sold
  <1>2. \A x \in S :
          /\ Amounts(rows)[x] \in Nat /\ Ones[x] \in Nat
          /\ \A rate \in TaxRates : Computed(rows, rate)[x] \in Nat
          /\ \A p \in Products : Pieces(rows, p)[x] \in Nat
    BY TermsAreNat
  <1>3. SumFunctionOnSet(Amounts(rows), S) \in Nat
    BY <1>1, <1>2, SumIsNat
  <1>4. \A rate \in TaxRates : SumFunctionOnSet(Computed(rows, rate), S) \in Nat
    BY <1>1, <1>2, SumIsNat
  <1>5. \A p \in Products : SumFunctionOnSet(Pieces(rows, p), S) \in Nat
    BY <1>1, <1>2, SumIsNat
  <1>6. SumFunctionOnSet(Ones, S) \in Nat
    BY <1>1, <1>2, SumIsNat
  <1> QED
    BY <1>3, <1>4, <1>5, <1>6

LEMMA RollupsAddUp ==
  ASSUME SalesInv, NEW days \in SUBSET Days
  PROVE  LET past  == OfDays(order, Sold(order), days)
             sums  == Rollups(days)
         IN /\ sums.revenue = SumFunctionOnSet(Amounts(order), past)
            /\ sums.orders = SumFunctionOnSet(Ones, past)
            /\ sums.cancelled = SumFunctionOnSet(Ones, OfDays(order, Lost(order), days))
            /\ \A d \in Days :
                 /\ sums.byDay[d].revenue
                      = SumFunctionOnSet(Amounts(order), OnDay(order, past, d))
                 /\ sums.byDay[d].orders = SumFunctionOnSet(Ones, OnDay(order, past, d))
            /\ \A h \in Hours :
                 /\ sums.byHour[h].revenue
                      = SumFunctionOnSet(Amounts(order), InHour(order, past, h))
                 /\ sums.byHour[h].orders = SumFunctionOnSet(Ones, InHour(order, past, h))
            /\ \A p \in Products :
                 sums.byProduct[p] = SumFunctionOnSet(Pieces(order, p), past)
  <1> DEFINE sold  == Sold(order)
             past  == OfDays(order, sold, days)
             sums  == Rollups(days)
             a     == Amounts(order)
  <1>1. order \in [Orders -> Order]
    BY DEF SalesInv, RowTypes
  <1>2. sold \in SUBSET Orders /\ Lost(order) \in SUBSET Orders
    BY DEF Sold, Lost
  <1>3. \A x \in sold :
          /\ a[x] \in Int /\ Ones[x] \in Int
          /\ \A p \in Products : Pieces(order, p)[x] \in Int
    BY <1>1, TermsAreNat
  <1>4. \A x \in Lost(order) : Ones[x] \in Int
    BY <1>2 DEF Ones
  <1>5. /\ \A d \in days :
             /\ daily[d].revenue = SumFunctionOnSet(a, OnDay(order, sold, d))
             /\ daily[d].orders = SumFunctionOnSet(Ones, OnDay(order, sold, d))
             /\ daily[d].cancelled = SumFunctionOnSet(Ones, OnDay(order, Lost(order), d))
        /\ \A d \in days, p \in Products :
             product[<<d, p>>] = SumFunctionOnSet(Pieces(order, p), OnDay(order, sold, d))
    BY DEF SalesInv, Tallies
  <1>6. \A d \in days, h \in Hours :
          /\ hourly[<<d, h>>].revenue
               = SumFunctionOnSet(a, OnDay(order, InHour(order, sold, h), d))
          /\ hourly[<<d, h>>].orders
               = SumFunctionOnSet(Ones, OnDay(order, InHour(order, sold, h), d))
    <2> TAKE d \in days, h \in Hours
    <2>1. OnDay(order, InHour(order, sold, h), d) = InHour(order, OnDay(order, sold, d), h)
      BY DEF OnDay, InHour
    <2> QED
      BY <2>1 DEF SalesInv, Tallies
  <1> HIDE DEF a, sold
  <1>7. sums.revenue = SumFunctionOnSet(a, past)
    <2> DEFINE k == [d \in days |-> daily[d].revenue]
    <2>1. DOMAIN k = days /\ \A d \in days : k[d] = SumFunctionOnSet(a, OnDay(order, sold, d))
      BY <1>5
    <2>2. sums.revenue = SumFunction(k)
      BY DEF Rollups
    <2> HIDE DEF k
    <2> QED
      BY <1>2, <1>3, <2>1, <2>2, SumOverDays
  <1>8. sums.orders = SumFunctionOnSet(Ones, past)
    <2> DEFINE k == [d \in days |-> daily[d].orders]
               f == Ones
    <2>1. DOMAIN k = days /\ \A d \in days : k[d] = SumFunctionOnSet(f, OnDay(order, sold, d))
      BY <1>5
    <2>2. sums.orders = SumFunction(k)
      BY DEF Rollups
    <2>3. \A x \in sold : f[x] \in Int
      BY <1>3
    <2> HIDE DEF k, f
    <2>4. SumFunction(k) = SumFunctionOnSet(f, past)
      BY <1>2, <2>1, <2>3, SumOverDays
    <2> QED
      BY <2>2, <2>4 DEF f
  <1>9. sums.cancelled = SumFunctionOnSet(Ones, OfDays(order, Lost(order), days))
    <2> DEFINE k == [d \in days |-> daily[d].cancelled]
               f == Ones
               lost == Lost(order)
    <2>1. DOMAIN k = days /\ \A d \in days : k[d] = SumFunctionOnSet(f, OnDay(order, lost, d))
      BY <1>5
    <2>2. sums.cancelled = SumFunction(k)
      BY DEF Rollups
    <2>3. lost \in SUBSET Orders /\ \A x \in lost : f[x] \in Int
      BY <1>2, <1>4
    <2> HIDE DEF k, f, lost
    <2>4. SumFunction(k) = SumFunctionOnSet(f, OfDays(order, lost, days))
      BY <2>1, <2>3, SumOverDays
    <2> QED
      BY <2>2, <2>4 DEF f, lost
  <1>10. ASSUME NEW d \in Days
         PROVE  /\ sums.byDay[d].revenue = SumFunctionOnSet(a, OnDay(order, past, d))
                /\ sums.byDay[d].orders = SumFunctionOnSet(Ones, OnDay(order, past, d))
    <2>1. CASE d \in days
      <3>1. OnDay(order, past, d) = OnDay(order, sold, d)
        BY <2>1 DEF OnDay, OfDays
      <3> QED
        BY <1>5, <2>1, <3>1 DEF Rollups
    <2>2. CASE d \notin days
      <3>1. OnDay(order, past, d) = {}
        BY <2>2 DEF OnDay, OfDays
      <3>2. \A f : SumFunctionOnSet(f, {}) = 0
        BY FS_EmptySet, SumUnfolds
      <3> QED
        BY <2>2, <3>1, <3>2 DEF Rollups, NoSale
    <2> QED
      BY <2>1, <2>2
  <1>11. ASSUME NEW h \in Hours
         PROVE  /\ sums.byHour[h].revenue = SumFunctionOnSet(a, InHour(order, past, h))
                /\ sums.byHour[h].orders = SumFunctionOnSet(Ones, InHour(order, past, h))
    <2> DEFINE k == [d \in days |-> hourly[<<d, h>>].revenue]
               n == [d \in days |-> hourly[<<d, h>>].orders]
               S == InHour(order, sold, h)
               f == Ones
    <2>1. /\ DOMAIN k = days /\ \A d \in days : k[d] = SumFunctionOnSet(a, OnDay(order, S, d))
          /\ DOMAIN n = days /\ \A d \in days : n[d] = SumFunctionOnSet(f, OnDay(order, S, d))
      BY <1>6
    <2>2. sums.byHour[h].revenue = SumFunction(k) /\ sums.byHour[h].orders = SumFunction(n)
      BY DEF Rollups
    <2>3. S \in SUBSET Orders /\ \A x \in S : a[x] \in Int /\ f[x] \in Int
      BY <1>2, <1>3 DEF InHour
    <2>4. OfDays(order, S, days) = InHour(order, past, h)
      BY DEF InHour, OfDays
    <2> HIDE DEF k, n, S, f
    <2>5. SumFunction(k) = SumFunctionOnSet(a, OfDays(order, S, days))
      BY <2>1, <2>3, SumOverDays
    <2>6. SumFunction(n) = SumFunctionOnSet(f, OfDays(order, S, days))
      BY <2>1, <2>3, SumOverDays
    <2> QED
      BY <2>2, <2>4, <2>5, <2>6 DEF f
  <1>12. ASSUME NEW p \in Products
         PROVE  sums.byProduct[p] = SumFunctionOnSet(Pieces(order, p), past)
    <2> DEFINE k == [d \in days |-> product[<<d, p>>]]
               f == Pieces(order, p)
    <2>1. DOMAIN k = days /\ \A d \in days : k[d] = SumFunctionOnSet(f, OnDay(order, sold, d))
      BY <1>5
    <2>2. sums.byProduct[p] = SumFunction(k)
      BY DEF Rollups
    <2>3. \A x \in sold : f[x] \in Int
      BY <1>3
    <2> HIDE DEF k, f
    <2>4. SumFunction(k) = SumFunctionOnSet(f, past)
      BY <1>2, <2>1, <2>3, SumOverDays
    <2> QED
      BY <2>2, <2>4 DEF f
  <1> QED
    BY <1>7, <1>8, <1>9, <1>10, <1>11, <1>12 DEF a, sold

LEMMA RollupsAreNat ==
  ASSUME SalesInv, NEW days \in SUBSET Days
  PROVE  Rollups(days) \in Aggregates
  <1> DEFINE past == OfDays(order, Sold(order), days)
             lost == OfDays(order, Lost(order), days)
             sums == Rollups(days)
  <1>1. /\ past \in SUBSET Sold(order) /\ lost \in SUBSET Orders
        /\ \A d : OnDay(order, past, d) \in SUBSET Sold(order)
        /\ \A h : InHour(order, past, h) \in SUBSET Sold(order)
    BY DEF OfDays, OnDay, InHour, Lost
  <1>2. order \in [Orders -> Order]
    BY DEF SalesInv, RowTypes
  <1>3. \A S \in SUBSET Sold(order) :
          /\ SumFunctionOnSet(Amounts(order), S) \in Nat /\ SumFunctionOnSet(Ones, S) \in Nat
          /\ \A p \in Products : SumFunctionOnSet(Pieces(order, p), S) \in Nat
    BY <1>2, SumsAreNat
  <1>4. SumFunctionOnSet(Ones, lost) \in Nat
    BY <1>1, OnesCount
  <1> HIDE DEF past, lost
  <1>5. /\ sums.revenue = SumFunctionOnSet(Amounts(order), past)
        /\ sums.orders = SumFunctionOnSet(Ones, past)
        /\ sums.cancelled = SumFunctionOnSet(Ones, lost)
        /\ \A d \in Days :
             /\ sums.byDay[d].revenue = SumFunctionOnSet(Amounts(order), OnDay(order, past, d))
             /\ sums.byDay[d].orders = SumFunctionOnSet(Ones, OnDay(order, past, d))
        /\ \A h \in Hours :
             /\ sums.byHour[h].revenue
                  = SumFunctionOnSet(Amounts(order), InHour(order, past, h))
             /\ sums.byHour[h].orders = SumFunctionOnSet(Ones, InHour(order, past, h))
        /\ \A p \in Products : sums.byProduct[p] = SumFunctionOnSet(Pieces(order, p), past)
    BY RollupsAddUp DEF past, lost
  <1>6. sums.revenue \in Nat /\ sums.orders \in Nat /\ sums.cancelled \in Nat
    BY <1>1, <1>3, <1>4, <1>5
  <1>7. \A d \in Days : sums.byDay[d].revenue \in Nat /\ sums.byDay[d].orders \in Nat
    BY <1>1, <1>3, <1>5
  <1>8. \A h \in Hours : sums.byHour[h].revenue \in Nat /\ sums.byHour[h].orders \in Nat
    BY <1>1, <1>3, <1>5
  <1>9. \A p \in Products : sums.byProduct[p] \in Nat
    BY <1>1, <1>3, <1>5
  <1>10. sums.byDay \in [Days -> Takings]
    <2> DEFINE t(d) == IF d \in days THEN [revenue |-> daily[d].revenue, orders |-> daily[d].orders]
                                     ELSE NoSale
    <2>1. sums.byDay = [d \in Days |-> t(d)]
      BY DEF Rollups
    <2>2. \A d \in Days : t(d) = [revenue |-> t(d).revenue, orders |-> t(d).orders]
      BY DEF NoSale
    <2> HIDE DEF t
    <2>3. \A d \in Days : t(d) \in Takings
      <3> TAKE d \in Days
      <3>1. t(d).revenue \in Nat /\ t(d).orders \in Nat
        BY <1>7, <2>1
      <3> QED
        BY <2>2, <3>1 DEF Takings
    <2> QED
      BY <2>1, <2>3
  <1>11. sums.byHour \in [Hours -> Takings]
    <2> DEFINE rev(h) == SumFunction([d \in days |-> hourly[<<d, h>>].revenue])
               num(h) == SumFunction([d \in days |-> hourly[<<d, h>>].orders])
    <2>1. sums.byHour = [h \in Hours |-> [revenue |-> rev(h), orders |-> num(h)]]
      BY DEF Rollups
    <2> HIDE DEF rev, num
    <2>2. \A h \in Hours : rev(h) \in Nat /\ num(h) \in Nat
      BY <1>8, <2>1
    <2> QED
      BY <2>1, <2>2 DEF Takings
  <1>12. sums.byProduct \in [Products -> Nat]
    <2> DEFINE money(p) == SumFunction([d \in days |-> product[<<d, p>>]])
    <2>1. sums.byProduct = [p \in Products |-> money(p)]
      BY DEF Rollups
    <2> HIDE DEF money
    <2> QED
      BY <1>9, <2>1
  <1>13. sums = [revenue |-> sums.revenue, orders |-> sums.orders, cancelled |-> sums.cancelled,
                 byDay |-> sums.byDay, byHour |-> sums.byHour, byProduct |-> sums.byProduct]
    BY DEF Rollups
  <1> HIDE DEF sums
  <1>14. sums \in Aggregates
    BY <1>6, <1>10, <1>11, <1>12, <1>13 DEF Aggregates
  <1> QED
    BY <1>14 DEF sums

LEMMA NothingIsNat == Nothing \in Aggregates
  BY DEF Nothing, Aggregates, Takings, NoSale

LEMMA NothingSums ==
  ASSUME NEW f
  PROVE  SumFunctionOnSet(f, {}) = 0
  BY FS_EmptySet, SumUnfolds

LEMMA AskIsSound ==
  ASSUME SalesInv, NEW from \in Days, NEW to \in Days, NEW who \in Employees \cup {None},
         from <= to, Ask(from, to, who)
  PROVE  Sound(order, clock, report')
  <1> DEFINE r    == report'
             days == Historical(from, to)
             past == OfDays(order, Sold(order), days)
             lost == OfDays(order, Lost(order), days)
             agg  == IF who = None THEN Rollups(days) ELSE Nothing
             place == IF who # None THEN "payments"
                      ELSE IF IncludesToday(to) THEN "completed" ELSE "done"
  <1>1. r = [from |-> from, to |-> to, who |-> who, today |-> Today, found |-> {},
             rate |-> taxRate, until |-> clock, agg |-> agg,
             known |-> Completed \cup Cancelled, place |-> place]
    BY DEF Ask
  <1>2. /\ order \in [Orders -> Order] /\ clock \in Stamps /\ taxRate \in TaxRates
        /\ Today \in Days
    BY DaysOfStamps DEF SalesInv, RowTypes, Today
  <1>3. /\ Completed = Sold(order) /\ Cancelled = Lost(order)
        /\ Sold(order) \cap Lost(order) = {}
    BY DEF Completed, Cancelled, Sold, Lost
  <1>4. days \in SUBSET Days /\ \A d \in Days : d \in days <=> d \in from .. to /\ d < Today
    BY <1>2, HistoricalDays
  <1>5. agg \in Aggregates
    BY <1>4, RollupsAreNat, NothingIsNat
  <1> HIDE DEF agg, days, place
  <1>6. /\ r.from = from /\ r.to = to /\ r.who = who /\ r.today = Today /\ r.found = {}
        /\ r.rate = taxRate /\ r.until = clock /\ r.agg = agg /\ r.place = place
        /\ r.known = Sold(order) \cup Lost(order)
    BY <1>1, <1>3
  <1>7. OnItsWay(r)
    <2>1. place \in {"payments", "completed", "done"}
      BY DEF place
    <2>2. r \in Report
      BY <1>1, <1>2, <1>5, <2>1 DEF Report, Completed, Cancelled
    <2>3. /\ place = "payments" => who # None
          /\ place = "completed" => who = None /\ to >= Today
          /\ place \notin {"cancelled", "rate"}
      BY DEF place, IncludesToday
    <2> HIDE DEF r
    <2> QED
      BY <1>6, <2>2, <2>3 DEF OnItsWay
  <1> HIDE DEF r
  <1>8. FoundWhatItKnows(order, clock, r)
    <2>1. Today = DayOf(clock) /\ clock \in Int /\ Today \in Int
      BY <1>2 DEF Today, Stamps, Days
    <2>2. \A o \in Sold(order) \cup Lost(order) :
            /\ DayOf(order[o].doneAt) <= Today
            /\ o \in Sold(order) => DayOf(order[o].paidAt) <= Today
      <3> TAKE o \in Sold(order) \cup Lost(order)
      <3>1. /\ o \in Orders /\ order[o].doneAt \in Stamps /\ order[o].doneAt <= clock
            /\ o \in Sold(order) => order[o].paidAt \in Stamps /\ order[o].paidAt <= clock
        BY <1>2, RowFacts DEF SalesInv, RowsAreDue, Sold, Lost
      <3> QED
        BY <1>2, <2>1, <3>1, DaysFollowStamps
    <2>3. who = None /\ to >= Today /\ place # "completed" => FALSE
      BY DEF place, IncludesToday
    <2>4. who # None /\ place # "payments" => FALSE
      BY DEF place
    <2> QED
      BY <1>6, <2>1, <2>2, <2>3, <2>4 DEF FoundWhatItKnows
  <1>9. /\ FromRollups(order, r, Sold(order)) = IF who = None THEN past ELSE {}
        /\ FromRollups(order, r, Lost(order)) = IF who = None THEN lost ELSE {}
    <2>1. \A o \in Sold(order) \cup Lost(order) : DayOf(order[o].bucket) \in Days
      <3> TAKE o \in Sold(order) \cup Lost(order)
      <3>1. o \in Orders /\ order[o].bucket \in Stamps
        BY <1>2, RowFacts DEF Sold, Lost
      <3> QED
        BY <3>1, DaysOfStamps
    <2> QED
      BY <1>4, <1>6, <2>1 DEF FromRollups, OfDays
  <1>10. /\ Added(r) = {} /\ \A d : FactsOn(order, r, d) = {} /\ \A h : FactsIn(order, r, h) = {}
    BY <1>6 DEF Added, FactsOn, FactsIn
  <1>11. \A f : SumFunctionOnSet(f, {}) = 0
    BY NothingSums
  <1> HIDE DEF past, lost
  <1>12. FiguresAddUp(order, r)
    <2>1. CASE who = None
      <3>1. /\ agg.revenue = SumFunctionOnSet(Amounts(order), past)
            /\ agg.orders = SumFunctionOnSet(Ones, past)
            /\ \A d \in Days :
                 /\ agg.byDay[d].revenue
                      = SumFunctionOnSet(Amounts(order), OnDay(order, past, d))
                 /\ agg.byDay[d].orders = SumFunctionOnSet(Ones, OnDay(order, past, d))
            /\ \A h \in Hours :
                 /\ agg.byHour[h].revenue
                      = SumFunctionOnSet(Amounts(order), InHour(order, past, h))
                 /\ agg.byHour[h].orders = SumFunctionOnSet(Ones, InHour(order, past, h))
            /\ \A p \in Products : agg.byProduct[p] = SumFunctionOnSet(Pieces(order, p), past)
        BY <1>4, <2>1, RollupsAddUp DEF agg, past
      <3>2. agg \in [revenue: Nat, orders: Nat, cancelled: Nat, byDay: [Days -> Takings],
                     byHour: [Hours -> Takings], byProduct: [Products -> Nat]]
        BY <1>5 DEF Aggregates
      <3>3. /\ agg.revenue = agg.revenue + 0 /\ agg.orders = agg.orders + 0
            /\ \A d \in Days : /\ agg.byDay[d].revenue = agg.byDay[d].revenue + 0
                               /\ agg.byDay[d].orders = agg.byDay[d].orders + 0
            /\ \A h \in Hours : /\ agg.byHour[h].revenue = agg.byHour[h].revenue + 0
                                /\ agg.byHour[h].orders = agg.byHour[h].orders + 0
            /\ \A p \in Products : agg.byProduct[p] = agg.byProduct[p] + 0
        BY <3>2 DEF Takings
      <3>4. r.agg = agg /\ FromRollups(order, r, Sold(order)) = past
        BY <1>6, <1>9, <2>1
      <3>5. TakenFrom(order, r.rate, past, {}, agg)
        BY <1>11, <3>1, <3>3 DEF TakenFrom
      <3>6. \A d \in Days : TakenFrom(order, r.rate, OnDay(order, past, d), {}, agg.byDay[d])
        BY <1>11, <3>1, <3>3 DEF TakenFrom
      <3>7. \A h \in Hours : TakenFrom(order, r.rate, InHour(order, past, h), {}, agg.byHour[h])
        BY <1>11, <3>1, <3>3 DEF TakenFrom
      <3>8. \A p \in Products : agg.byProduct[p] = SumFunctionOnSet(Pieces(order, p), past)
                                                   + SumFunctionOnSet(Pieces(order, p), {})
        BY <1>11, <3>1, <3>3
      <3> QED
        BY <1>10, <3>4, <3>5, <3>6, <3>7, <3>8 DEF FiguresAddUp
    <2>2. CASE who # None
      <3>1. /\ r.agg = Nothing /\ FromRollups(order, r, Sold(order)) = {}
            /\ \A d : OnDay(order, {}, d) = {} /\ \A h : InHour(order, {}, h) = {}
        BY <1>6, <1>9, <2>2 DEF agg, OnDay, InHour
      <3>2. /\ TakenFrom(order, r.rate, {}, {}, Nothing)
            /\ \A d \in Days : TakenFrom(order, r.rate, {}, {}, Nothing.byDay[d])
            /\ \A h \in Hours : TakenFrom(order, r.rate, {}, {}, Nothing.byHour[h])
            /\ \A p \in Products : Nothing.byProduct[p] = SumFunctionOnSet(Pieces(order, p), {})
                                                   + SumFunctionOnSet(Pieces(order, p), {})
        BY <1>11 DEF TakenFrom, Nothing, NoSale
      <3> QED
        BY <1>10, <3>1, <3>2 DEF FiguresAddUp
    <2> QED
      BY <2>1, <2>2
  <1>13. LossesAddUp(order, r)
    <2>1. ~CountsLost(r)
      BY <1>6 DEF CountsLost, place, IncludesToday
    <2>2. agg.cancelled = SumFunctionOnSet(Ones, FromRollups(order, r, Lost(order)))
      <3>1. CASE who = None
        <4>1. Rollups(days).cancelled = SumFunctionOnSet(Ones, lost)
          BY <1>4, RollupsAddUp DEF lost
        <4> QED
          BY <1>9, <3>1, <4>1 DEF agg
      <3>2. CASE who # None
        BY <1>9, <1>11, <3>2 DEF agg, Nothing
      <3> QED
        BY <3>1, <3>2
    <2> QED
      BY <1>6, <2>1, <2>2 DEF LossesAddUp
  <1> QED
    BY <1>7, <1>8, <1>12, <1>13 DEF Sound, r

-----------------------------------------------------------------------------
(***************************************************************************)
(* The reads of the rows.                                                  *)
(***************************************************************************)
\* A read that adds nothing leaves the figures as they were.
LEMMA FiguresStay ==
  ASSUME NEW rows, NEW r, NEW s, FiguresAddUp(rows, r),
         s.from = r.from, s.to = r.to, s.who = r.who, s.today = r.today, s.known = r.known,
         s.rate = r.rate, Added(s) = Added(r),
         s.agg.revenue = r.agg.revenue, s.agg.orders = r.agg.orders,
         s.agg.byDay = r.agg.byDay, s.agg.byHour = r.agg.byHour,
         s.agg.byProduct = r.agg.byProduct
  PROVE  FiguresAddUp(rows, s)
  <1>1. \A S : FromRollups(rows, s, S) = FromRollups(rows, r, S)
    BY DEF FromRollups
  <1>2. /\ \A d : FactsOn(rows, s, d) = FactsOn(rows, r, d)
        /\ \A h : FactsIn(rows, s, h) = FactsIn(rows, r, h)
    BY DEF FactsOn, FactsIn, FactOf
  <1> QED
    BY <1>1, <1>2 DEF FiguresAddUp, TakenFrom


LEMMA ReadCompletedIsSound ==
  ASSUME ReportInv, ReadCompleted
  PROVE  Sound(order, clock, report')
  <1> DEFINE r == report
             s == report'
             S == {o \in Completed : DayOf(order[o].doneAt) = Today}
             place == IF S = {} THEN "cancelled" ELSE "rate"
  <1>1. /\ OnItsWay(r) /\ FoundWhatItKnows(order, clock, r)
        /\ FiguresAddUp(order, r) /\ LossesAddUp(order, r)
        /\ r.place = "completed" /\ r \in Report
    BY DEF ReportInv, Sound, ReadCompleted, NoReport, OnItsWay
  <1>2. clock \in Stamps /\ Today \in Days /\ Today = DayOf(clock)
    BY DaysOfStamps DEF ReportInv, SalesInv, RowTypes, Today
  <1>3. s = [[r EXCEPT !.found = S] EXCEPT !.place = place, !.until = clock]
    BY DEF ReadCompleted, Goto
  <1>4. Completed = Sold(order) /\ S \in SUBSET Sold(order) /\ S \in SUBSET Orders
    BY DEF Completed, Sold
  <1>5. /\ s \in Report /\ s.from = r.from /\ s.to = r.to /\ s.who = r.who
        /\ s.today = r.today /\ s.known = r.known /\ s.rate = r.rate /\ s.agg = r.agg
        /\ s.place = place /\ s.until = clock /\ s.found = S
    <2>1. place \in {"cancelled", "rate"}
      OBVIOUS
    <2> HIDE DEF s, S, place
    <2> QED
      BY <1>1, <1>2, <1>3, <1>4, <2>1 DEF Report
  <1>6. place \in {"cancelled", "rate"} /\ (place = "cancelled" => S = {})
    OBVIOUS
  <1> HIDE DEF s, place
  <1>7. r.who = None /\ r.to >= r.today /\ r.found = {} /\ Added(r) = {} /\ Added(s) = {}
    BY <1>1, <1>5, <1>6 DEF OnItsWay, Added
  <1>8. OnItsWay(s)
    <2>1. s.from \in Int /\ s.to \in Int /\ s.today \in Int
      BY <1>5 DEF Report, Days
    <2> QED
      BY <1>1, <1>5, <1>6, <1>7, <2>1 DEF OnItsWay
  <1>9. FoundWhatItKnows(order, clock, s)
    <2>1. r.until \in Stamps /\ r.until <= clock /\ r.today <= DayOf(r.until)
      BY <1>1 DEF FoundWhatItKnows, Report
    <2>2. DayOf(r.until) <= DayOf(clock)
      BY <1>2, <2>1, DaysFollowStamps
    <2>3. s.today <= DayOf(s.until) /\ s.until <= clock
      <3>1. r.today \in Int /\ DayOf(r.until) \in Int /\ DayOf(clock) \in Int /\ clock \in Int
        BY <1>1, <1>2, <2>1, DaysOfStamps DEF Days, Stamps, Report
      <3> QED
        BY <1>5, <2>1, <2>2, <3>1
    <2> QED
      BY <1>1, <1>2, <1>4, <1>5, <1>7, <2>3 DEF FoundWhatItKnows
  <1>10. FiguresAddUp(order, s)
    BY <1>1, <1>5, <1>7, FiguresStay
  <1>11. LossesAddUp(order, s)
    <2>1. ~CountsLost(s) /\ ~CountsLost(r)
      BY <1>1, <1>5, <1>6 DEF CountsLost
    <2>2. FromRollups(order, s, Lost(order)) = FromRollups(order, r, Lost(order))
      BY <1>5 DEF FromRollups
    <2> QED
      BY <1>1, <1>5, <2>1, <2>2 DEF LossesAddUp
  <1> QED
    BY <1>8, <1>9, <1>10, <1>11 DEF Sound, s

LEMMA ReadPaymentsIsSound ==
  ASSUME ReportInv, ReadPayments
  PROVE  Sound(order, clock, report')
  <1> DEFINE r == report
             s == report'
             S == {o \in Completed : /\ DayOf(order[o].paidAt) \in report.from .. report.to
                                     /\ order[o].by = report.who}
             place == IF S = {} THEN "done" ELSE "rate"
  <1>1. /\ OnItsWay(r) /\ FoundWhatItKnows(order, clock, r)
        /\ FiguresAddUp(order, r) /\ LossesAddUp(order, r)
        /\ r.place = "payments" /\ r \in Report
    BY DEF ReportInv, Sound, ReadPayments, NoReport, OnItsWay
  <1>2. clock \in Stamps /\ Today \in Days /\ Today = DayOf(clock)
    BY DaysOfStamps DEF ReportInv, SalesInv, RowTypes, Today
  <1>3. s = [[r EXCEPT !.found = S] EXCEPT !.place = place, !.until = clock]
    BY DEF ReadPayments, Goto
  <1>4. Completed = Sold(order) /\ S \in SUBSET Sold(order) /\ S \in SUBSET Orders
    BY DEF Completed, Sold
  <1>5. /\ s \in Report /\ s.from = r.from /\ s.to = r.to /\ s.who = r.who
        /\ s.today = r.today /\ s.known = r.known /\ s.rate = r.rate /\ s.agg = r.agg
        /\ s.place = place /\ s.until = clock /\ s.found = S
    <2>1. place \in {"done", "rate"}
      OBVIOUS
    <2> HIDE DEF s, S, place
    <2> QED
      BY <1>1, <1>2, <1>3, <1>4, <2>1 DEF Report
  <1>6. place \in {"done", "rate"} /\ (place = "done" => S = {})
    OBVIOUS
  <1> HIDE DEF s, place
  <1>7. r.who # None /\ Added(r) = {} /\ Added(s) = {}
    BY <1>1, <1>5, <1>6 DEF OnItsWay, Added
  <1>8. OnItsWay(s)
    BY <1>1, <1>5, <1>6, <1>7 DEF OnItsWay
  <1>9. FoundWhatItKnows(order, clock, s)
    <2>1. r.until \in Stamps /\ r.until <= clock /\ r.today <= DayOf(r.until)
      BY <1>1 DEF FoundWhatItKnows, Report
    <2>2. DayOf(r.until) <= DayOf(clock)
      BY <1>2, <2>1, DaysFollowStamps
    <2>3. s.today <= DayOf(s.until) /\ s.until <= clock
      <3>1. r.today \in Int /\ DayOf(r.until) \in Int /\ DayOf(clock) \in Int /\ clock \in Int
        BY <1>1, <1>2, <2>1, DaysOfStamps DEF Days, Stamps, Report
      <3> QED
        BY <1>5, <2>1, <2>2, <3>1
    <2> QED
      BY <1>1, <1>4, <1>5, <1>7, <2>3 DEF FoundWhatItKnows
  <1>10. FiguresAddUp(order, s)
    BY <1>1, <1>5, <1>7, FiguresStay
  <1>11. LossesAddUp(order, s)
    <2>1. ~CountsLost(s) /\ ~CountsLost(r)
      BY <1>1, <1>5, <1>7 DEF CountsLost
    <2>2. FromRollups(order, s, Lost(order)) = FromRollups(order, r, Lost(order))
      BY <1>5 DEF FromRollups
    <2> QED
      BY <1>1, <1>5, <2>1, <2>2 DEF LossesAddUp
  <1> QED
    BY <1>8, <1>9, <1>10, <1>11 DEF Sound, s

\* The figures of a report after the facts S have been merged.
LEMMA FactsAdd ==
  ASSUME SalesInv, report \in Report, NEW S \in SUBSET Sold(order), NEW rate \in TaxRates
  PROVE  LET agg  == report.agg
             sum  == WithFacts(agg, S, rate)
             on(d) == {o \in S : DayOf(FactOf(order, report, o)) = d}
             in(h) == {o \in S : HourOf(FactOf(order, report, o)) = h}
             more(t, u, T) ==
               /\ u.revenue = t.revenue + SumFunctionOnSet(Computed(order, rate), T)
               /\ u.orders = t.orders + SumFunctionOnSet(Ones, T)
         IN /\ sum \in Aggregates /\ sum.cancelled = agg.cancelled
            /\ more(agg, sum, S)
            /\ \A d \in Days : more(agg.byDay[d], sum.byDay[d], on(d))
            /\ \A h \in Hours : more(agg.byHour[h], sum.byHour[h], in(h))
            /\ \A p \in Products :
                 sum.byProduct[p] = agg.byProduct[p] + SumFunctionOnSet(Pieces(order, p), S)
  <1> DEFINE agg  == report.agg
             on(d) == {o \in S : DayOf(FactOf(order, report, o)) = d}
             in(h) == {o \in S : HourOf(FactOf(order, report, o)) = h}
             money(T) == SumFunction([o \in T |-> Total(order[o].basket, rate)])
             sold(p) == {o \in S : p \in order[o].basket}
             revenue == agg.revenue + money(S)
             orders  == agg.orders + Cardinality(S)
             byDay == [d \in Days |-> Plus(agg.byDay[d],
                         [revenue |-> money(on(d)), orders |-> Cardinality(on(d))])]
             byHour == [h \in Hours |-> Plus(agg.byHour[h],
                         [revenue |-> money(in(h)), orders |-> Cardinality(in(h))])]
             byProduct == [p \in Products |->
                             agg.byProduct[p] + Price * Cardinality(sold(p))]
             sum  == WithFacts(agg, S, rate)
  <1>1. agg \in [revenue: Nat, orders: Nat, cancelled: Nat, byDay: [Days -> Takings],
                 byHour: [Hours -> Takings], byProduct: [Products -> Nat]]
    BY DEF Report, Aggregates
  <1>2. \A o \in S : FactAt(o) = FactOf(order, report, o)
    BY DEF FactAt, FactOf
  <1>3. sum = [agg EXCEPT !.revenue = revenue, !.orders = orders, !.byDay = byDay,
                          !.byHour = byHour, !.byProduct = byProduct]
    <2>1. /\ \A d : {o \in S : DayOf(FactAt(o)) = d} = on(d)
          /\ \A h : {o \in S : HourOf(FactAt(o)) = h} = in(h)
      BY <1>2
    <2> QED
      BY <2>1 DEF WithFacts
  <1>4. /\ sum.revenue = revenue /\ sum.orders = orders /\ sum.cancelled = agg.cancelled
        /\ sum.byDay = byDay /\ sum.byHour = byHour /\ sum.byProduct = byProduct
        /\ sum = [revenue |-> revenue, orders |-> orders, cancelled |-> agg.cancelled,
                  byDay |-> byDay, byHour |-> byHour, byProduct |-> byProduct]
    <2> HIDE DEF agg, revenue, orders, byDay, byHour, byProduct, sum
    <2> QED
      BY <1>1, <1>3
  <1>5. order \in [Orders -> Order]
    BY DEF SalesInv, RowTypes
  <1>6. ASSUME NEW T \in SUBSET S
        PROVE  /\ money(T) = SumFunctionOnSet(Computed(order, rate), T)
               /\ money(T) \in Nat
               /\ Cardinality(T) = SumFunctionOnSet(Ones, T) /\ Cardinality(T) \in Nat
    <2> DEFINE f == [o \in T |-> Total(order[o].basket, rate)]
               g == Computed(order, rate)
    <2>1. T \in SUBSET Sold(order) /\ T \in SUBSET Orders
      BY DEF Sold
    <2>2. DOMAIN f = T /\ \A o \in T : f[o] = g[o]
      BY <2>1 DEF Computed
    <2>3. money(T) = SumFunctionOnSet(f, T)
      BY <2>2 DEF SumFunction
    <2> HIDE DEF f, g
    <2>4. SumFunctionOnSet(f, T) = SumFunctionOnSet(g, T)
      BY <2>2, SameTermsSameSum
    <2>5. SumFunctionOnSet(Computed(order, rate), T) \in Nat
      BY <1>5, <2>1, SumsAreNat
    <2>6. SumFunctionOnSet(Ones, T) = Cardinality(T) /\ Cardinality(T) \in Nat
      BY <2>1, OnesCount
    <2> QED
      BY <2>3, <2>4, <2>5, <2>6 DEF g
  <1>7. ASSUME NEW p \in Products
        PROVE  /\ Price * Cardinality(sold(p)) = SumFunctionOnSet(Pieces(order, p), S)
               /\ Price * Cardinality(sold(p)) \in Nat
    <2>1. S \in SUBSET Orders
      BY DEF Sold
    <2>2. SumFunctionOnSet(Pieces(order, p), S) = Price * Cardinality(sold(p))
      BY <2>1, PiecesCount
    <2>3. SumFunctionOnSet(Pieces(order, p), S) \in Nat
      BY <1>5, SumsAreNat
    <2> QED
      BY <2>2, <2>3
  <1>8. /\ \A d : on(d) \in SUBSET S
        /\ \A h : in(h) \in SUBSET S
        /\ S \in SUBSET S
    OBVIOUS
  <1> HIDE DEF money, on, in, sold
  <1>9. revenue \in Nat /\ orders \in Nat
    BY <1>1, <1>6, <1>8
  <1>10. ASSUME NEW d \in Days
         PROVE  /\ byDay[d].revenue = agg.byDay[d].revenue + money(on(d))
                /\ byDay[d].orders = agg.byDay[d].orders + Cardinality(on(d))
                /\ byDay[d] \in Takings
    <2>1. agg.byDay[d] \in [revenue: Nat, orders: Nat]
      BY <1>1 DEF Takings
    <2>2. money(on(d)) \in Nat /\ Cardinality(on(d)) \in Nat
      BY <1>6, <1>8
    <2>3. byDay[d] = [revenue |-> agg.byDay[d].revenue + money(on(d)),
                      orders |-> agg.byDay[d].orders + Cardinality(on(d))]
      BY DEF Plus
    <2> QED
      BY <2>1, <2>2, <2>3 DEF Takings
  <1>11. ASSUME NEW h \in Hours
         PROVE  /\ byHour[h].revenue = agg.byHour[h].revenue + money(in(h))
                /\ byHour[h].orders = agg.byHour[h].orders + Cardinality(in(h))
                /\ byHour[h] \in Takings
    <2>1. agg.byHour[h] \in [revenue: Nat, orders: Nat]
      BY <1>1 DEF Takings
    <2>2. money(in(h)) \in Nat /\ Cardinality(in(h)) \in Nat
      BY <1>6, <1>8
    <2>3. byHour[h] = [revenue |-> agg.byHour[h].revenue + money(in(h)),
                       orders |-> agg.byHour[h].orders + Cardinality(in(h))]
      BY DEF Plus
    <2> QED
      BY <2>1, <2>2, <2>3 DEF Takings
  <1>12. ASSUME NEW p \in Products
         PROVE  /\ byProduct[p] = agg.byProduct[p] + SumFunctionOnSet(Pieces(order, p), S)
                /\ byProduct[p] \in Nat
    <2>1. agg.byProduct[p] \in Nat
      BY <1>1
    <2>2. byProduct[p] = agg.byProduct[p] + Price * Cardinality(sold(p))
      OBVIOUS
    <2> QED
      BY <1>7, <2>1, <2>2
  <1>13. /\ byDay \in [Days -> Takings] /\ byHour \in [Hours -> Takings]
         /\ byProduct \in [Products -> Nat]
    <2>1. byDay \in [Days -> Takings]
      BY <1>10
    <2>2. byHour \in [Hours -> Takings]
      BY <1>11
    <2>3. byProduct \in [Products -> Nat]
      BY <1>12
    <2> QED
      BY <2>1, <2>2, <2>3
  <1>14. agg.cancelled \in Nat
    BY <1>1
  <1>15. sum \in Aggregates
    <2> HIDE DEF sum, revenue, orders, byDay, byHour, byProduct, agg
    <2> QED
      BY <1>4, <1>9, <1>13, <1>14 DEF Aggregates
  <1>16. /\ sum.revenue = agg.revenue + SumFunctionOnSet(Computed(order, rate), S)
         /\ sum.orders = agg.orders + SumFunctionOnSet(Ones, S)
    BY <1>4, <1>6, <1>8
  <1>17. ASSUME NEW d \in Days
         PROVE  /\ sum.byDay[d].revenue
                     = agg.byDay[d].revenue + SumFunctionOnSet(Computed(order, rate), on(d))
                /\ sum.byDay[d].orders = agg.byDay[d].orders + SumFunctionOnSet(Ones, on(d))
    BY <1>4, <1>6, <1>8, <1>10
  <1>18. ASSUME NEW h \in Hours
         PROVE  /\ sum.byHour[h].revenue
                     = agg.byHour[h].revenue + SumFunctionOnSet(Computed(order, rate), in(h))
                /\ sum.byHour[h].orders = agg.byHour[h].orders + SumFunctionOnSet(Ones, in(h))
    BY <1>4, <1>6, <1>8, <1>11
  <1>19. \A p \in Products :
           sum.byProduct[p] = agg.byProduct[p] + SumFunctionOnSet(Pieces(order, p), S)
    BY <1>4, <1>12
  <1> HIDE DEF sum, agg
  <1> QED
    BY <1>4, <1>15, <1>16, <1>17, <1>18, <1>19 DEF sum, agg, on, in

LEMMA ReadRateIsSound ==
  ASSUME ReportInv, ReadRate
  PROVE  Sound(order, clock, report')
  <1> DEFINE r == report
             s == report'
             agg == WithFacts(r.agg, r.found, taxRate)
             place == IF r.who = None THEN "cancelled" ELSE "done"
             past == FromRollups(order, r, Sold(order))
  <1>1. /\ OnItsWay(r) /\ FoundWhatItKnows(order, clock, r)
        /\ FiguresAddUp(order, r) /\ LossesAddUp(order, r)
        /\ r.place = "rate" /\ r \in Report
    BY DEF ReportInv, Sound, ReadRate, NoReport, OnItsWay
  <1>2. /\ clock \in Stamps /\ taxRate \in TaxRates /\ order \in [Orders -> Order]
        /\ SalesInv
    BY DEF ReportInv, SalesInv, RowTypes
  <1>3. s = [[r EXCEPT !.rate = taxRate, !.agg = agg]
               EXCEPT !.place = place, !.until = clock]
    BY DEF ReadRate, Goto
  <1>4. r.found \in SUBSET Sold(order)
    BY <1>1 DEF FoundWhatItKnows
  <1>5. /\ agg \in Aggregates /\ agg.cancelled = r.agg.cancelled
        /\ agg.revenue
             = r.agg.revenue + SumFunctionOnSet(Computed(order, taxRate), r.found)
        /\ agg.orders = r.agg.orders + SumFunctionOnSet(Ones, r.found)
        /\ \A d \in Days :
             LET T == {o \in r.found : DayOf(FactOf(order, r, o)) = d}
             IN /\ agg.byDay[d].revenue
                     = r.agg.byDay[d].revenue + SumFunctionOnSet(Computed(order, taxRate), T)
                /\ agg.byDay[d].orders
                     = r.agg.byDay[d].orders + SumFunctionOnSet(Ones, T)
        /\ \A h \in Hours :
             LET T == {o \in r.found : HourOf(FactOf(order, r, o)) = h}
             IN /\ agg.byHour[h].revenue
                     = r.agg.byHour[h].revenue + SumFunctionOnSet(Computed(order, taxRate), T)
                /\ agg.byHour[h].orders
                     = r.agg.byHour[h].orders + SumFunctionOnSet(Ones, T)
        /\ \A p \in Products :
             agg.byProduct[p] = r.agg.byProduct[p] + SumFunctionOnSet(Pieces(order, p), r.found)
    BY <1>1, <1>2, <1>4, FactsAdd
  <1>6. place \in {"cancelled", "done"}
    OBVIOUS
  <1>7. place = "cancelled" <=> r.who = None
    OBVIOUS
  <1> HIDE DEF agg, place
  <1>8. /\ s \in Report /\ s.from = r.from /\ s.to = r.to /\ s.who = r.who
        /\ s.today = r.today /\ s.known = r.known /\ s.rate = taxRate /\ s.agg = agg
        /\ s.place = place /\ s.until = clock /\ s.found = r.found
    <2> HIDE DEF s, r
    <2> QED
      BY <1>1, <1>2, <1>3, <1>5, <1>6 DEF Report
  <1> HIDE DEF s
  <1>9. Added(r) = {} /\ Added(s) = r.found
    BY <1>1, <1>6, <1>8 DEF Added
  <1>10. r.who # None \/ r.to >= r.today
    BY <1>1 DEF OnItsWay
  <1>11. OnItsWay(s)
    <2>1. r.today \in Int /\ r.to \in Int
      BY <1>1 DEF Report, Days
    <2> QED
      BY <1>1, <1>6, <1>7, <1>8, <1>10, <2>1 DEF OnItsWay
  <1>12. FoundWhatItKnows(order, clock, s)
    <2>1. r.until \in Stamps /\ r.until <= clock /\ r.today <= DayOf(r.until)
      BY <1>1 DEF FoundWhatItKnows, Report
    <2>2. DayOf(r.until) <= DayOf(clock)
      BY <1>2, <2>1, DaysFollowStamps
    <2>3. r.today \in Int /\ DayOf(r.until) \in Int /\ DayOf(clock) \in Int /\ clock \in Int
      BY <1>1, <1>2, <2>1, DaysOfStamps DEF Days, Stamps, Report
    <2>4. s.today <= DayOf(s.until) /\ s.until <= clock
      BY <1>8, <2>1, <2>2, <2>3
    <2>5. DayOf(s.until) = s.today => DayOf(r.until) = r.today
      BY <1>8, <2>1, <2>2, <2>3
    <2> QED
      BY <1>1, <1>8, <2>4, <2>5 DEF FoundWhatItKnows
  <1>13. FiguresAddUp(order, s)
    <2>1. /\ past \in SUBSET Sold(order)
          /\ \A d : OnDay(order, past, d) \in SUBSET Sold(order)
          /\ \A h : InHour(order, past, h) \in SUBSET Sold(order)
      BY DEF FromRollups, OnDay, InHour
    <2>2. \A S : FromRollups(order, s, S) = FromRollups(order, r, S)
      BY <1>8 DEF FromRollups
    <2>3. /\ \A d : FactsOn(order, r, d) = {} /\ \A h : FactsIn(order, r, h) = {}
      BY <1>9 DEF FactsOn, FactsIn
    <2>4. /\ \A d : FactsOn(order, s, d) = {o \in r.found : DayOf(FactOf(order, r, o)) = d}
          /\ \A h : FactsIn(order, s, h) = {o \in r.found : HourOf(FactOf(order, r, o)) = h}
      BY <1>8, <1>9 DEF FactsOn, FactsIn, FactOf
    <2>5. \A f : SumFunctionOnSet(f, {}) = 0
      BY NothingSums
    <2>6. \A S \in SUBSET Sold(order) :
            /\ SumFunctionOnSet(Amounts(order), S) \in Nat
            /\ SumFunctionOnSet(Ones, S) \in Nat
            /\ \A p \in Products : SumFunctionOnSet(Pieces(order, p), S) \in Nat
      BY <1>2, SumsAreNat
    <2> HIDE DEF past
    <2>7. /\ r.agg.revenue = SumFunctionOnSet(Amounts(order), past) + 0
          /\ r.agg.orders = SumFunctionOnSet(Ones, past) + 0
          /\ \A d \in Days :
               /\ r.agg.byDay[d].revenue
                    = SumFunctionOnSet(Amounts(order), OnDay(order, past, d)) + 0
               /\ r.agg.byDay[d].orders = SumFunctionOnSet(Ones, OnDay(order, past, d)) + 0
          /\ \A h \in Hours :
               /\ r.agg.byHour[h].revenue
                    = SumFunctionOnSet(Amounts(order), InHour(order, past, h)) + 0
               /\ r.agg.byHour[h].orders = SumFunctionOnSet(Ones, InHour(order, past, h)) + 0
          /\ \A p \in Products :
               r.agg.byProduct[p] = SumFunctionOnSet(Pieces(order, p), past) + 0
      BY <1>1, <1>9, <2>3, <2>5 DEF FiguresAddUp, TakenFrom, past
    <2>8. TakenFrom(order, s.rate, past, r.found, s.agg)
      <3>1. /\ SumFunctionOnSet(Amounts(order), past) \in Nat
            /\ SumFunctionOnSet(Ones, past) \in Nat
        BY <2>1, <2>6
      <3> QED
        BY <1>5, <1>8, <2>7, <3>1 DEF TakenFrom
    <2>9. ASSUME NEW d \in Days
          PROVE  TakenFrom(order, s.rate, OnDay(order, past, d), FactsOn(order, s, d),
                           s.agg.byDay[d])
      <3>1. /\ SumFunctionOnSet(Amounts(order), OnDay(order, past, d)) \in Nat
            /\ SumFunctionOnSet(Ones, OnDay(order, past, d)) \in Nat
        BY <2>1, <2>6
      <3> QED
        BY <1>5, <1>8, <2>4, <2>7, <3>1 DEF TakenFrom
    <2>10. ASSUME NEW h \in Hours
           PROVE  TakenFrom(order, s.rate, InHour(order, past, h), FactsIn(order, s, h),
                            s.agg.byHour[h])
      <3>1. /\ SumFunctionOnSet(Amounts(order), InHour(order, past, h)) \in Nat
            /\ SumFunctionOnSet(Ones, InHour(order, past, h)) \in Nat
        BY <2>1, <2>6
      <3> QED
        BY <1>5, <1>8, <2>4, <2>7, <3>1 DEF TakenFrom
    <2>11. ASSUME NEW p \in Products
           PROVE  s.agg.byProduct[p] = SumFunctionOnSet(Pieces(order, p), past)
                                         + SumFunctionOnSet(Pieces(order, p), r.found)
      <3>1. SumFunctionOnSet(Pieces(order, p), past) \in Nat
        BY <2>1, <2>6
      <3> QED
        BY <1>5, <1>8, <2>7, <3>1
    <2> QED
      BY <1>9, <2>2, <2>8, <2>9, <2>10, <2>11 DEF FiguresAddUp, past
  <1>14. LossesAddUp(order, s)
    <2>1. ~CountsLost(s) /\ ~CountsLost(r)
      BY <1>1, <1>6, <1>7, <1>8 DEF CountsLost
    <2>2. FromRollups(order, s, Lost(order)) = FromRollups(order, r, Lost(order))
      BY <1>8 DEF FromRollups
    <2> QED
      BY <1>1, <1>5, <1>8, <2>1, <2>2 DEF LossesAddUp
  <1> QED
    BY <1>11, <1>12, <1>13, <1>14 DEF Sound, s

LEMMA ReadCancelledIsSound ==
  ASSUME ReportInv, ReadCancelled
  PROVE  Sound(order, clock, report')
  <1> DEFINE r == report
             s == report'
             S == {o \in Cancelled : DayOf(order[o].doneAt) = Today}
             agg == [r.agg EXCEPT !.cancelled = @ + Cardinality(S)]
  <1>1. /\ OnItsWay(r) /\ FoundWhatItKnows(order, clock, r)
        /\ FiguresAddUp(order, r) /\ LossesAddUp(order, r)
        /\ r.place = "cancelled" /\ r \in Report
    BY DEF ReportInv, Sound, ReadCancelled, NoReport, OnItsWay
  <1>2. clock \in Stamps /\ Today \in Days /\ Today = DayOf(clock)
    BY DaysOfStamps DEF ReportInv, SalesInv, RowTypes, Today
  <1>3. s = [[r EXCEPT !.agg.cancelled = @ + Cardinality(S)]
               EXCEPT !.place = "done", !.until = clock]
    BY DEF ReadCancelled, Goto
  <1>4. Cancelled = Lost(order) /\ S \in SUBSET Lost(order) /\ S \in SUBSET Orders
    BY DEF Cancelled, Lost
  <1>5. Cardinality(S) \in Nat /\ Cardinality(S) = SumFunctionOnSet(Ones, S)
    BY <1>4, OnesCount
  <1>6. \A o \in Lost(order) : o \in S <=> DayOf(order[o].doneAt) = Today
    BY <1>4
  <1>7. r.agg \in Aggregates
    BY <1>1 DEF Report
  <1> HIDE DEF S
  <1>8. /\ agg \in Aggregates /\ agg.cancelled = r.agg.cancelled + Cardinality(S)
        /\ agg.revenue = r.agg.revenue /\ agg.orders = r.agg.orders
        /\ agg.byDay = r.agg.byDay /\ agg.byHour = r.agg.byHour
        /\ agg.byProduct = r.agg.byProduct
    BY <1>5, <1>7 DEF Aggregates
  <1>9. s = [[r EXCEPT !.agg = agg] EXCEPT !.place = "done", !.until = clock]
    BY <1>1, <1>3
  <1> HIDE DEF agg
  <1>10. /\ s \in Report /\ s.from = r.from /\ s.to = r.to /\ s.who = r.who
         /\ s.today = r.today /\ s.known = r.known /\ s.rate = r.rate /\ s.agg = agg
         /\ s.place = "done" /\ s.until = clock /\ s.found = r.found
    <2> HIDE DEF s, r
    <2> QED
      BY <1>1, <1>2, <1>8, <1>9 DEF Report
  <1> HIDE DEF s
  <1>11. r.who = None /\ r.to >= r.today /\ Added(s) = Added(r)
    BY <1>1, <1>10 DEF OnItsWay, Added
  <1>12. OnItsWay(s)
    <2>1. r.today \in Int /\ r.to \in Int
      BY <1>1 DEF Report, Days
    <2> QED
      BY <1>1, <1>10, <1>11, <2>1 DEF OnItsWay
  <1>13. FoundWhatItKnows(order, clock, s) /\ (DayOf(s.until) = s.today => Today = s.today)
    <2>1. r.until \in Stamps /\ r.until <= clock /\ r.today <= DayOf(r.until)
      BY <1>1 DEF FoundWhatItKnows, Report
    <2>2. DayOf(r.until) <= DayOf(clock)
      BY <1>2, <2>1, DaysFollowStamps
    <2>3. r.today \in Int /\ DayOf(r.until) \in Int /\ DayOf(clock) \in Int /\ clock \in Int
      BY <1>1, <1>2, <2>1, DaysOfStamps DEF Days, Stamps, Report
    <2>4. s.today <= DayOf(s.until) /\ s.until <= clock
      BY <1>10, <2>1, <2>2, <2>3
    <2>5. DayOf(s.until) = s.today => DayOf(r.until) = r.today
      BY <1>10, <2>1, <2>2, <2>3
    <2> QED
      BY <1>1, <1>2, <1>10, <2>4, <2>5 DEF FoundWhatItKnows
  <1>14. FiguresAddUp(order, s)
    BY <1>1, <1>8, <1>10, <1>11, FiguresStay
  <1>15. LossesAddUp(order, s)
    <2>1. CountsLost(s)
      BY <1>10, <1>11 DEF CountsLost
    <2>2. FromRollups(order, s, Lost(order)) = FromRollups(order, r, Lost(order))
      BY <1>10 DEF FromRollups
    <2>3. r.agg.cancelled = SumFunctionOnSet(Ones, FromRollups(order, r, Lost(order)))
      BY <1>1 DEF LossesAddUp, CountsLost
    <2>4. s.agg.cancelled
            = SumFunctionOnSet(Ones, FromRollups(order, s, Lost(order)))
                + SumFunctionOnSet(Ones, S)
      BY <1>5, <1>8, <1>10, <2>2, <2>3
    <2>5. ASSUME DayOf(s.until) = s.today
          PROVE  LossesFound(order, s, S)
      BY <1>4, <1>6, <1>13, <2>4, <2>5 DEF LossesFound
    <2> QED
      BY <1>4, <2>1, <2>5 DEF LossesAddUp
  <1> QED
    BY <1>12, <1>13, <1>14, <1>15 DEF Sound, s

-----------------------------------------------------------------------------
(***************************************************************************)
(* Every behaviour.                                                        *)
(***************************************************************************)
LEMMA ReportStep ==
  ASSUME ReportInv, [Next]_vars
  PROVE  ReportInv'
  <1>1. SalesInv' /\ clock <= clock' /\ Settles(order, order')
    BY SalesStep DEF ReportInv
  <1>2. /\ order \in [Orders -> Order] /\ order' \in [Orders -> Order]
        /\ clock \in Int /\ clock' \in Int
    BY <1>1 DEF ReportInv, SalesInv, RowTypes, Stamps
  <1>3. CASE report' = report
    <2>1. Sound(order', clock', report)
      BY <1>1, <1>2, SoundStays DEF ReportInv
    <2> QED
      BY <1>1, <1>3, <2>1 DEF ReportInv
  <1>4. CASE MakeReport
    <2>1. Sound(order, clock, report')
      <3>1. SalesInv
        BY DEF ReportInv
      <3>2. ASSUME NEW from \in Days, NEW to \in Days, NEW who \in Employees \cup {None},
                   from <= to, Ask(from, to, who)
            PROVE  Sound(order, clock, report')
        BY <3>1, <3>2, AskIsSound
      <3> QED
        BY <1>4, <3>2, ReadCompletedIsSound, ReadPaymentsIsSound, ReadRateIsSound,
           ReadCancelledIsSound DEF MakeReport
    <2>2. order' = order /\ clock' = clock
      BY <1>4 DEF MakeReport, Ask, ReadCompleted, ReadPayments, ReadRate, ReadCancelled
    <2> QED
      BY <1>1, <2>1, <2>2 DEF ReportInv
  <1>5. MakeReport \/ report' = report
    BY DEF Next, vars, Sell, Pay, Cancel, Tick, SetTaxRate
  <1> QED
    BY <1>3, <1>4, <1>5

THEOREM ReportsStaySound == AllSpec => []ReportInv
  <1>1. AllInit => ReportInv
    BY SalesInit DEF AllInit, Init, ReportInv, Sound
  <1>2. ReportInv /\ [AllNext]_allVars => ReportInv'
    <2> SUFFICES ASSUME ReportInv, [AllNext]_allVars
                 PROVE  ReportInv'
      OBVIOUS
    <2>1. [Next]_vars
      BY DEF AllNext, DashboardStep, ReadShifts, ReadSpans, Create, Accept, Ready, AskStats,
             allVars
    <2> QED
      BY <2>1, ReportStep
  <1> QED
    BY <1>1, <1>2, PTL DEF AllSpec

\* SalesReports.TypeOK: the tables' rows, the orders' stamps and a report's
\* figures are numbers of the right kinds, however far a report has come.
THEOREM SalesTypes == AllSpec => []TypeOK
  <1>1. ReportInv => TypeOK
    BY DEF ReportInv, SalesInv, RowTypes, TypeOK, Sound, OnItsWay
  <1> QED
    BY <1>1, ReportsStaySound, PTL

-----------------------------------------------------------------------------
(***************************************************************************)
(* A finished report.                                                      *)
(***************************************************************************)
\* What an ordinary report has from the rollups and from the rows.
FromBoth == FromRollups(order, report, Sold(order)) \cup report.found

LEMMA FinishedReports ==
  ASSUME ReportInv, Ordinary
  PROVE  /\ order \in [Orders -> Order] /\ report \in Report /\ Added(report) = report.found
         /\ report.from \in Int /\ report.to \in Int /\ report.today \in Int
         /\ report.from <= report.to /\ report.from <= report.today
         /\ DayOf(report.until) = report.today
         /\ FoundWhatItKnows(order, clock, report)
         /\ FiguresAddUp(order, report) /\ LossesAddUp(order, report)
         /\ report.who = None /\ report.to < report.today => report.found = {}
         /\ Completed = Sold(order) /\ Cancelled = Lost(order)
         /\ \A o \in Sold(order) :
              /\ o \in Orders /\ DayOf(order[o].bucket) = DayOf(order[o].doneAt)
              /\ DayOf(order[o].paidAt) = DayOf(order[o].doneAt)
              /\ DayOf(order[o].doneAt) \in Int
         /\ \A o \in Lost(order) :
              /\ o \in Orders /\ DayOf(order[o].bucket) = DayOf(order[o].doneAt)
              /\ DayOf(order[o].doneAt) \in Int
  <1>1. report.place = "done" /\ report # NoReport
    BY DEF Ordinary, NoReport
  <1>2. /\ OnItsWay(report) /\ FoundWhatItKnows(order, clock, report)
        /\ FiguresAddUp(order, report) /\ LossesAddUp(order, report)
    BY <1>1 DEF ReportInv, Sound
  <1>3. order \in [Orders -> Order]
    BY DEF ReportInv, SalesInv, RowTypes
  <1>4. /\ report \in Report
        /\ report.from \in Int /\ report.to \in Int /\ report.today \in Int
    BY <1>2 DEF OnItsWay, Report, Days
  <1>5. Completed = Sold(order) /\ Cancelled = Lost(order)
    BY DEF Completed, Cancelled, Sold, Lost
  <1>6. \A o \in Sold(order) \cup Lost(order) :
          o \in Orders /\ OnOneDay(o) /\ order[o] # Placed
    BY DEF Ordinary, Sold, Lost, Placed
  <1>7. \A o \in Sold(order) \cup Lost(order) : DayOf(order[o].doneAt) \in Int
    <2> TAKE o \in Sold(order) \cup Lost(order)
    <2>1. order[o].doneAt \in Stamps
      BY <1>3, RowFacts DEF Sold, Lost
    <2> QED
      BY <2>1, DaysOfStamps DEF Days
  <1>8. \A o \in Sold(order) :
          /\ DayOf(order[o].bucket) = DayOf(order[o].doneAt)
          /\ DayOf(order[o].paidAt) = DayOf(order[o].doneAt)
    BY <1>5, <1>6 DEF OnOneDay
  <1>9. \A o \in Lost(order) : DayOf(order[o].bucket) = DayOf(order[o].doneAt)
    BY <1>6 DEF OnOneDay
  <1> QED
    BY <1>1, <1>2, <1>3, <1>4, <1>5, <1>6, <1>7, <1>8, <1>9 DEF OnItsWay, Ordinary, Added

\* The two parts have no order in common, and make up what was paid in the range
\* as far as it is known.
LEMMA PartsAreDisjoint ==
  ASSUME ReportInv, Ordinary
  PROVE  /\ FromRollups(order, report, Sold(order)) \cap report.found = {}
         /\ FromRollups(order, report, Sold(order)) \in SUBSET Sold(order)
         /\ report.found \in SUBSET Sold(order)
         /\ FromBoth \in SUBSET PaidInRange
         /\ PaidInRange \cap report.known \subseteq FromBoth
  <1> DEFINE r == report
             past == FromRollups(order, r, Sold(order))
  <1>1. /\ r.from \in Int /\ r.to \in Int /\ r.today \in Int
        /\ r.from <= r.to /\ r.from <= r.today /\ DayOf(r.until) = r.today
        /\ FoundWhatItKnows(order, clock, r)
        /\ r.who = None /\ r.to < r.today => r.found = {}
        /\ Completed = Sold(order)
        /\ \A o \in Sold(order) :
             /\ o \in Orders /\ DayOf(order[o].bucket) = DayOf(order[o].doneAt)
             /\ DayOf(order[o].paidAt) = DayOf(order[o].doneAt)
             /\ DayOf(order[o].doneAt) \in Int
    BY FinishedReports
  <1>2. /\ r.found \in SUBSET Sold(order) /\ past \in SUBSET Sold(order)
        /\ \A o \in past :
             /\ o \in r.known /\ r.who = None /\ DayOf(order[o].bucket) \in r.from .. r.to
             /\ DayOf(order[o].bucket) < r.today
    BY <1>1 DEF FoundWhatItKnows, FromRollups
  <1>3. CASE r.who = None
    <2>1. \A o \in r.found : DayOf(order[o].doneAt) = r.today /\ r.to >= r.today
      BY <1>1, <1>3 DEF FoundWhatItKnows, Ordinary
    <2>2. past \cap r.found = {}
      <3> SUFFICES ASSUME NEW o \in past, o \in r.found
                   PROVE  FALSE
        OBVIOUS
      <3>1. /\ DayOf(order[o].bucket) = DayOf(order[o].doneAt)
            /\ DayOf(order[o].bucket) < r.today /\ DayOf(order[o].doneAt) = r.today
        BY <1>1, <1>2, <2>1
      <3> QED
        BY <1>1, <3>1
    <2>3. \A o \in past : o \in PaidInRange
      BY <1>1, <1>2, <1>3 DEF PaidInRange
    <2>4. \A o \in r.found : o \in PaidInRange
      <3> TAKE o \in r.found
      <3>1. o \in Sold(order) /\ DayOf(order[o].paidAt) = r.today /\ r.to >= r.today
        BY <1>1, <1>2, <2>1
      <3>2. DayOf(order[o].paidAt) \in r.from .. r.to
        BY <1>1, <3>1
      <3> QED
        BY <1>1, <1>3, <3>1, <3>2 DEF PaidInRange
    <2>5. ASSUME NEW o \in PaidInRange, o \in r.known
          PROVE  o \in past \cup r.found
      <3>1. /\ o \in Sold(order) /\ DayOf(order[o].paidAt) \in r.from .. r.to
            /\ DayOf(order[o].paidAt) = DayOf(order[o].bucket)
            /\ DayOf(order[o].paidAt) = DayOf(order[o].doneAt)
            /\ DayOf(order[o].paidAt) \in Int
        BY <1>1 DEF PaidInRange
      <3>2. DayOf(order[o].paidAt) <= r.today
        BY <1>1, <2>5, <3>1 DEF FoundWhatItKnows
      <3>3. CASE DayOf(order[o].paidAt) < r.today
        BY <1>3, <2>5, <3>1, <3>3 DEF FromRollups
      <3>4. CASE DayOf(order[o].paidAt) = r.today
        <4>1. r.to >= r.today
          BY <1>1, <3>1, <3>4
        <4>2. r.place = "done"
          BY DEF Ordinary
        <4> QED
          BY <1>1, <1>3, <2>5, <3>1, <3>4, <4>1, <4>2 DEF FoundWhatItKnows
      <3> QED
        BY <1>1, <3>1, <3>2, <3>3, <3>4
    <2> QED
      BY <1>2, <2>2, <2>3, <2>4, <2>5 DEF FromBoth
  <1>4. CASE r.who # None
    <2>1. past = {}
      BY <1>2, <1>4
    <2>2. /\ \A o \in r.found :
               DayOf(order[o].paidAt) \in r.from .. r.to /\ order[o].by = r.who
          /\ \A o \in r.known \cap Sold(order) :
               DayOf(order[o].paidAt) \in r.from .. r.to /\ order[o].by = r.who
                 => o \in r.found
      BY <1>1, <1>4 DEF FoundWhatItKnows, Ordinary
    <2>3. \A o \in r.found : o \in PaidInRange
      BY <1>1, <1>2, <2>2 DEF PaidInRange
    <2>4. \A o \in PaidInRange : o \in r.known => o \in r.found
      BY <1>1, <1>4, <2>2 DEF PaidInRange
    <2> QED
      BY <1>2, <2>1, <2>3, <2>4 DEF FromBoth
  <1> QED
    BY <1>3, <1>4

LEMMA BothPartsAreReported ==
  ASSUME ReportInv, Ordinary
  PROVE  Reports(FromBoth)
  <1> DEFINE r == report
             past == FromRollups(order, r, Sold(order))
             found == r.found
             S == FromBoth
  <1>1. /\ order \in [Orders -> Order] /\ r \in Report /\ Added(r) = found
        /\ FiguresAddUp(order, r)
    BY FinishedReports
  <1>2. /\ past \cap found = {} /\ past \in SUBSET Sold(order) /\ found \in SUBSET Sold(order)
        /\ S = past \cup found /\ S \in SUBSET Sold(order)
    BY PartsAreDisjoint DEF FromBoth
  <1>3. past \in SUBSET Orders /\ found \in SUBSET Orders /\ S \in SUBSET Orders
    BY <1>2 DEF Sold
  <1>4. /\ r.agg.revenue = SumFunctionOnSet(Amounts(order), past)
                             + SumFunctionOnSet(Computed(order, r.rate), found)
        /\ r.agg.orders = SumFunctionOnSet(Ones, past) + SumFunctionOnSet(Ones, found)
        /\ \A p \in Products :
             r.agg.byProduct[p] = SumFunctionOnSet(Pieces(order, p), past)
                                    + SumFunctionOnSet(Pieces(order, p), found)
    BY <1>1 DEF FiguresAddUp, TakenFrom
  <1> HIDE DEF past, found, S
  <1>5. ASSUME NEW f, \A x \in S : f[x] \in Int
        PROVE  SumFunctionOnSet(f, S) = SumFunctionOnSet(f, past) + SumFunctionOnSet(f, found)
    <2>1. IsFiniteSet(past) /\ IsFiniteSet(found)
      BY <1>3, OrdersAreFinite
    <2>2. \A x \in past \cup found : f[x] \in Int
      BY <1>2, <1>5
    <2>3. SumFunctionOnSet(f, past \cup found)
            = SumFunctionOnSet(f, past) + SumFunctionOnSet(f, found)
      BY <1>2, <2>1, <2>2, SumOfUnion
    <2> QED
      BY <1>2, <2>3
  <1>6. \A x \in S : /\ Amounts(order)[x] \in Int /\ Ones[x] \in Int
                     /\ \A p \in Products : Pieces(order, p)[x] \in Int
    BY <1>1, <1>2, TermsAreNat
  <1>7. r.agg.orders = Cardinality(S)
    <2>1. SumFunctionOnSet(Ones, S) = r.agg.orders
      BY <1>4, <1>5, <1>6
    <2> QED
      BY <1>3, <2>1, OnesCount
  <1>8. ASSUME NEW p \in Products
        PROVE  r.agg.byProduct[p] = Price * Cardinality({o \in S : p \in order[o].basket})
    <2>1. SumFunctionOnSet(Pieces(order, p), S) = r.agg.byProduct[p]
      BY <1>4, <1>5, <1>6
    <2> QED
      BY <1>3, <2>1, PiecesCount
  <1>9. ASSUME \A o \in found : order[o].amount = Total(order[o].basket, r.rate)
        PROVE  r.agg.revenue = SumFunction([o \in S |-> order[o].amount])
    <2> DEFINE f == [o \in S |-> order[o].amount]
               a == Amounts(order)
               c == Computed(order, r.rate)
    <2>1. \A x \in found : c[x] = a[x]
      BY <1>3, <1>9 DEF Amounts, Computed
    <2>2. DOMAIN f = S /\ \A x \in S : f[x] = a[x]
      BY <1>3 DEF Amounts
    <2>3. SumFunction(f) = SumFunctionOnSet(f, S)
      BY <2>2 DEF SumFunction
    <2> HIDE DEF f, a, c
    <2>4. SumFunctionOnSet(c, found) = SumFunctionOnSet(a, found)
      BY <2>1, SameTermsSameSum
    <2>5. SumFunctionOnSet(f, S) = SumFunctionOnSet(a, S)
      BY <2>2, SameTermsSameSum
    <2>6. SumFunctionOnSet(a, S) = SumFunctionOnSet(a, past) + SumFunctionOnSet(a, found)
      BY <1>5, <1>6 DEF a
    <2>7. r.agg.revenue = SumFunctionOnSet(a, past) + SumFunctionOnSet(c, found)
      BY <1>4 DEF a, c
    <2> QED
      BY <2>3, <2>4, <2>5, <2>6, <2>7 DEF f
  <1> QED
    BY <1>7, <1>8, <1>9 DEF Reports, S, found

LEMMA CancellationsMatch ==
  ASSUME ReportInv, Ordinary
  PROVE  /\ report.agg.cancelled \in
              Cardinality(CancelledInRange \cap report.known) .. Cardinality(CancelledInRange)
         /\ \E L \in SUBSET CancelledInRange :
              /\ CancelledInRange \cap report.known \subseteq L
              /\ report.agg.cancelled = Cardinality(L)
  <1> DEFINE r == report
             C == CancelledInRange
             lost == FromRollups(order, r, Lost(order))
  <1>1. /\ r.from \in Int /\ r.to \in Int /\ r.today \in Int
        /\ r.from <= r.today /\ DayOf(r.until) = r.today
        /\ FoundWhatItKnows(order, clock, r) /\ LossesAddUp(order, r)
        /\ Cancelled = Lost(order)
        /\ \A o \in Lost(order) :
             /\ o \in Orders /\ DayOf(order[o].bucket) = DayOf(order[o].doneAt)
             /\ DayOf(order[o].doneAt) \in Int
    BY FinishedReports
  <1>2. /\ lost \in SUBSET Lost(order)
        /\ \A o \in lost :
             /\ o \in r.known /\ r.who = None /\ DayOf(order[o].bucket) \in r.from .. r.to
             /\ DayOf(order[o].bucket) < r.today
    BY DEF FromRollups
  <1>3. /\ C \in SUBSET Lost(order)
        /\ \A o \in Lost(order) :
             o \in C <=> r.who = None /\ DayOf(order[o].doneAt) \in r.from .. r.to
    BY <1>1 DEF CancelledInRange
  <1>4. Lost(order) \in SUBSET Orders
    BY DEF Lost
  <1>5. \A o \in lost : o \in C
    BY <1>1, <1>2, <1>3
  <1>6. ASSUME NEW o \in C, o \in r.known
        PROVE  o \in lost \/ (DayOf(order[o].doneAt) = r.today /\ r.to >= r.today)
    <2>1. /\ o \in Lost(order) /\ r.who = None /\ DayOf(order[o].doneAt) \in r.from .. r.to
          /\ DayOf(order[o].doneAt) \in Int
          /\ DayOf(order[o].bucket) = DayOf(order[o].doneAt)
      BY <1>1, <1>3
    <2>2. DayOf(order[o].doneAt) <= r.today
      BY <1>1, <1>6 DEF FoundWhatItKnows
    <2>3. CASE DayOf(order[o].doneAt) < r.today
      BY <1>6, <2>1, <2>3 DEF FromRollups
    <2>4. CASE DayOf(order[o].doneAt) = r.today
      BY <1>1, <2>1, <2>4
    <2> QED
      BY <1>1, <2>1, <2>2, <2>3, <2>4
  <1> HIDE DEF C, lost
  <1>7. \E L \in SUBSET C : C \cap r.known \subseteq L /\ r.agg.cancelled = Cardinality(L)
    <2>1. CASE ~CountsLost(r)
      <3>1. r.agg.cancelled = SumFunctionOnSet(Ones, lost)
        BY <1>1, <2>1 DEF LossesAddUp, lost
      <3>2. r.agg.cancelled = Cardinality(lost)
        <4>1. lost \in SUBSET Orders
          BY <1>2, <1>4
        <4> QED
          BY <3>1, <4>1, OnesCount
      <3>3. C \cap r.known \subseteq lost
        <4>1. r.who # None \/ ~(r.to >= r.today)
          BY <2>1 DEF CountsLost, Ordinary
        <4> QED
          BY <1>3, <1>6, <4>1
      <3> QED
        BY <1>5, <3>2, <3>3
    <2>2. CASE CountsLost(r)
      <3>1. PICK Q \in SUBSET Lost(order) : LossesFound(order, r, Q)
        BY <1>1, <2>2 DEF LossesAddUp
      <3>2. /\ r.agg.cancelled = SumFunctionOnSet(Ones, lost) + SumFunctionOnSet(Ones, Q)
            /\ \A o \in Q : DayOf(order[o].doneAt) = r.today
            /\ \A o \in r.known \cap Lost(order) :
                 DayOf(order[o].doneAt) = r.today => o \in Q
        BY <3>1 DEF LossesFound, lost
      <3>3. r.who = None /\ r.to >= r.today
        BY <2>2 DEF CountsLost
      <3>4. \A o \in Q : o \in C
        BY <1>1, <1>3, <3>2, <3>3
      <3>5. lost \cap Q = {}
        <4> SUFFICES ASSUME NEW o \in lost, o \in Q
                     PROVE  FALSE
          OBVIOUS
        <4>1. /\ DayOf(order[o].bucket) = DayOf(order[o].doneAt)
              /\ DayOf(order[o].bucket) < r.today /\ DayOf(order[o].doneAt) = r.today
          BY <1>1, <1>2, <3>2
        <4> QED
          BY <1>1, <4>1
      <3>6. lost \in SUBSET Orders /\ Q \in SUBSET Orders /\ lost \cup Q \in SUBSET Orders
        BY <1>2, <1>4
      <3>7. r.agg.cancelled = Cardinality(lost \cup Q)
        <4> DEFINE f == Ones
        <4>1. \A x \in lost \cup Q : f[x] \in Int
          BY <3>6 DEF Ones
        <4>2. IsFiniteSet(lost) /\ IsFiniteSet(Q)
          BY <3>6, OrdersAreFinite
        <4> HIDE DEF f
        <4>3. SumFunctionOnSet(f, lost \cup Q)
                = SumFunctionOnSet(f, lost) + SumFunctionOnSet(f, Q)
          BY <3>5, <4>1, <4>2, SumOfUnion
        <4>4. SumFunctionOnSet(Ones, lost \cup Q) = Cardinality(lost \cup Q)
          BY <3>6, OnesCount
        <4> QED
          BY <3>2, <4>3, <4>4 DEF f
      <3>8. C \cap r.known \subseteq lost \cup Q
        BY <1>3, <1>6, <3>2
      <3>9. lost \cup Q \in SUBSET C
        BY <1>5, <3>4
      <3> QED
        BY <3>7, <3>8, <3>9
    <2> QED
      BY <2>1, <2>2
  <1>8. r.agg.cancelled \in Cardinality(C \cap r.known) .. Cardinality(C)
    <2>1. PICK L \in SUBSET C : C \cap r.known \subseteq L /\ r.agg.cancelled = Cardinality(L)
      BY <1>7
    <2>2. /\ C \in SUBSET Orders /\ L \in SUBSET Orders
          /\ C \cap r.known \in SUBSET Orders
      BY <1>3, <1>4
    <2>3. /\ IsFiniteSet(C) /\ IsFiniteSet(L)
          /\ Cardinality(C) \in Nat /\ Cardinality(L) \in Nat
          /\ Cardinality(C \cap r.known) \in Nat
      BY <2>2, OrdersAreFinite
    <2>4. Cardinality(L) <= Cardinality(C)
      BY <2>3, FS_Subset
    <2>5. Cardinality(C \cap r.known) <= Cardinality(L)
      BY <2>1, <2>3, FS_Subset
    <2> QED
      BY <2>1, <2>3, <2>4, <2>5
  <1> QED
    BY <1>7, <1>8 DEF C

\* SalesReports.ReportsMatchFacts, B2(a), R2, R4: whatever is sold, cancelled or
\* repriced between its reads, the past days a report takes from the rollups and
\* the day it takes from the orders are exactly what was paid for, and cancelled,
\* in its range, up to what came while it was made.
THEOREM ReportsAlwaysMatchFacts == AllSpec => []ReportsMatchFacts
  <1>1. ReportInv => ReportsMatchFacts
    <2> SUFFICES ASSUME ReportInv, Ordinary
                 PROVE  /\ \E S \in SUBSET PaidInRange :
                             PaidInRange \cap report.known \subseteq S /\ Reports(S)
                        /\ report.agg.cancelled \in
                             Cardinality(CancelledInRange \cap report.known)
                               .. Cardinality(CancelledInRange)
      BY DEF ReportsMatchFacts
    <2>1. FromBoth \in SUBSET PaidInRange /\ PaidInRange \cap report.known \subseteq FromBoth
      BY PartsAreDisjoint
    <2>2. Reports(FromBoth)
      BY BothPartsAreReported
    <2>3. report.agg.cancelled \in
            Cardinality(CancelledInRange \cap report.known) .. Cardinality(CancelledInRange)
      BY CancellationsMatch
    <2> QED
      BY <2>1, <2>2, <2>3
  <1> QED
    BY <1>1, ReportsStaySound, PTL

-----------------------------------------------------------------------------
(***************************************************************************)
(* The charts.                                                             *)
(***************************************************************************)
\* The elements of A at the point i.
AtPoint(A, a, i) == {x \in A : a[x] = i}

LEMMA AllPoints ==
  ASSUME NEW A, IsFiniteSet(A), NEW f, \A x \in A : f[x] \in Int,
         NEW I, IsFiniteSet(I), NEW a, \A x \in A : a[x] \in I,
         NEW m, \A i \in I : m[i] = SumFunctionOnSet(f, AtPoint(A, a, i))
  PROVE  /\ SumFunctionOnSet(m, I) = SumFunctionOnSet(f, A)
         /\ \A i \in I : m[i] \in Int
  <1>1. \A i \in I : m[i] = SumFunctionOnSet(f, {x \in A : a[x] = i})
    BY DEF AtPoint
  <1>2. SumFunctionOnSet(m, I) = SumFunctionOnSet(f, {x \in A : a[x] \in I})
    BY <1>1, SumOfParts
  <1>3. {x \in A : a[x] \in I} = A
    OBVIOUS
  <1>4. ASSUME NEW i \in I
        PROVE  m[i] \in Int
    <2>1. AtPoint(A, a, i) \in SUBSET A
      BY DEF AtPoint
    <2>2. IsFiniteSet(AtPoint(A, a, i)) /\ \A x \in AtPoint(A, a, i) : f[x] \in Int
      BY <2>1, FS_Subset
    <2>3. SumFunctionOnSet(f, AtPoint(A, a, i)) \in Int
      BY <2>2, SumIsInt
    <2> QED
      BY <2>3
  <1> QED
    BY <1>2, <1>3, <1>4

\* Points that each have a part of f's sum over A and a part of g's over B.
LEMMA PointsAddUp ==
  ASSUME NEW A \in SUBSET Orders, NEW B \in SUBSET Orders, NEW f, NEW g,
         \A x \in A : f[x] \in Int, \A x \in B : g[x] \in Int,
         NEW I, IsFiniteSet(I), NEW a, NEW b,
         \A x \in A : a[x] \in I, \A x \in B : b[x] \in I,
         NEW k, DOMAIN k = I,
         \A i \in I : k[i] = SumFunctionOnSet(f, AtPoint(A, a, i))
                               + SumFunctionOnSet(g, AtPoint(B, b, i))
  PROVE  SumFunction(k) = SumFunctionOnSet(f, A) + SumFunctionOnSet(g, B)
  <1> DEFINE m == [i \in I |-> SumFunctionOnSet(f, AtPoint(A, a, i))]
             n == [i \in I |-> SumFunctionOnSet(g, AtPoint(B, b, i))]
  <1>1. IsFiniteSet(A) /\ IsFiniteSet(B)
    BY OrdersAreFinite
  <1>2. \A i \in I : m[i] = SumFunctionOnSet(f, AtPoint(A, a, i))
    OBVIOUS
  <1>3. \A i \in I : n[i] = SumFunctionOnSet(g, AtPoint(B, b, i))
    OBVIOUS
  <1> HIDE DEF m, n
  <1>4. SumFunctionOnSet(m, I) = SumFunctionOnSet(f, A) /\ \A i \in I : m[i] \in Int
    BY <1>1, <1>2, AllPoints
  <1>5. SumFunctionOnSet(n, I) = SumFunctionOnSet(g, B) /\ \A i \in I : n[i] \in Int
    BY <1>1, <1>3, AllPoints
  <1>6. \A i \in I : m[i] \in Int /\ n[i] \in Int /\ k[i] = m[i] + n[i]
    BY <1>2, <1>3, <1>4, <1>5
  <1>7. SumFunctionOnSet(k, I) = SumFunctionOnSet(m, I) + SumFunctionOnSet(n, I)
    BY <1>6, SumOfSums
  <1> QED
    BY <1>4, <1>5, <1>7 DEF SumFunction

Revenues(I, takings) == [i \in I |-> takings[i].revenue]
Counts(I, takings) == [i \in I |-> takings[i].orders]

\* A chart by days or hours, takings[i] of the point i: its points have the parts
\* of the past orders and of the added ones, and all of them have a point.
LEMMA ChartAddsUp ==
  ASSUME ReportInv, Ordinary,
         NEW I, IsFiniteSet(I), NEW a, NEW b, NEW takings,
         \A x \in FromRollups(order, report, Sold(order)) : a[x] \in I,
         \A x \in report.found : b[x] \in I,
         \A i \in I :
           TakenFrom(order, report.rate,
                     AtPoint(FromRollups(order, report, Sold(order)), a, i),
                     AtPoint(report.found, b, i), takings[i])
  PROVE  /\ SumFunction(Revenues(I, takings)) = report.agg.revenue
         /\ SumFunction(Counts(I, takings)) = report.agg.orders
  <1> DEFINE past == FromRollups(order, report, Sold(order))
             found == report.found
             f == Amounts(order)
             g == Computed(order, report.rate)
             one == Ones
             k == Revenues(I, takings)
             n == Counts(I, takings)
  <1>1. /\ order \in [Orders -> Order] /\ report \in Report /\ Added(report) = found
        /\ FiguresAddUp(order, report)
    BY FinishedReports
  <1>2. past \in SUBSET Sold(order) /\ found \in SUBSET Sold(order)
    BY PartsAreDisjoint
  <1>3. past \in SUBSET Orders /\ found \in SUBSET Orders
    BY <1>2 DEF Sold
  <1>4. /\ \A x \in past : f[x] \in Int /\ one[x] \in Int
        /\ \A x \in found : g[x] \in Int /\ one[x] \in Int
    <2>1. report.rate \in TaxRates
      BY <1>1 DEF Report
    <2> QED
      BY <1>1, <1>2, <2>1, TermsAreNat
  <1>5. /\ report.agg.revenue = SumFunctionOnSet(f, past) + SumFunctionOnSet(g, found)
        /\ report.agg.orders = SumFunctionOnSet(one, past) + SumFunctionOnSet(one, found)
    BY <1>1 DEF FiguresAddUp, TakenFrom
  <1>6. \A i \in I :
          /\ k[i] = SumFunctionOnSet(f, AtPoint(past, a, i))
                      + SumFunctionOnSet(g, AtPoint(found, b, i))
          /\ n[i] = SumFunctionOnSet(one, AtPoint(past, a, i))
                      + SumFunctionOnSet(one, AtPoint(found, b, i))
    BY DEF TakenFrom, Revenues, Counts
  <1>7. DOMAIN k = I /\ DOMAIN n = I
    BY DEF Revenues, Counts
  <1>8. \A x \in past : a[x] \in I
    OBVIOUS
  <1>9. \A x \in found : b[x] \in I
    OBVIOUS
  <1> HIDE DEF past, found, f, g, one, k, n
  <1>10. ASSUME NEW u, NEW v, \A x \in past : u[x] \in Int, \A x \in found : v[x] \in Int,
                NEW w, DOMAIN w = I,
                \A i \in I : w[i] = SumFunctionOnSet(u, AtPoint(past, a, i))
                                      + SumFunctionOnSet(v, AtPoint(found, b, i))
         PROVE  SumFunction(w) = SumFunctionOnSet(u, past) + SumFunctionOnSet(v, found)
    BY <1>3, <1>8, <1>9, <1>10, PointsAddUp
  <1>11. SumFunction(k) = SumFunctionOnSet(f, past) + SumFunctionOnSet(g, found)
    BY <1>4, <1>6, <1>7, <1>10
  <1>12. SumFunction(n) = SumFunctionOnSet(one, past) + SumFunctionOnSet(one, found)
    BY <1>4, <1>6, <1>7, <1>10
  <1> QED
    BY <1>5, <1>11, <1>12 DEF k, n

\* SalesReports.ChartsAddUp, D2: every order a report counts has exactly one hour
\* and one day of its charts, with the same money, whatever happens to the rate.
THEOREM ChartsAlwaysAddUp == AllSpec => []ChartsAddUp
  <1>1. ReportInv => ChartsAddUp
    <2> SUFFICES ASSUME ReportInv, Ordinary
                 PROVE  /\ SumFunction([b \in DOMAIN Series |-> Series[b].revenue])
                             = report.agg.revenue
                        /\ SumFunction([b \in DOMAIN Series |-> Series[b].orders])
                             = report.agg.orders
      BY DEF ChartsAddUp
    <2> DEFINE r == report
               past == FromRollups(order, r, Sold(order))
    <2>1. /\ order \in [Orders -> Order] /\ r \in Report /\ Added(r) = r.found
          /\ r.from \in Days /\ r.to \in Days
          /\ FiguresAddUp(order, r)
          /\ \A o \in Sold(order) : DayOf(order[o].paidAt) = DayOf(order[o].doneAt)
      BY FinishedReports DEF Report
    <2>2. /\ past \in SUBSET Sold(order) /\ r.found \in SUBSET Sold(order)
          /\ \A o \in past : DayOf(order[o].bucket) \in r.from .. r.to
          /\ \A o \in r.found : DayOf(order[o].paidAt) \in r.from .. r.to
      <3>1. r.found \in SUBSET PaidInRange
        BY PartsAreDisjoint DEF FromBoth
      <3> QED
        BY <3>1, PartsAreDisjoint DEF FromRollups, PaidInRange
    <2>3. /\ \A o \in past : HourOf(order[o].bucket) \in Hours
          /\ \A o \in r.found : HourOf(FactOf(order, r, o)) \in Hours
      <3>1. \A o \in Sold(order) : /\ order[o].bucket \in Stamps /\ order[o].paidAt \in Stamps
                                   /\ order[o].doneAt \in Stamps
        BY <2>1, RowFacts DEF Sold
      <3> QED
        BY <2>2, <3>1, DaysOfStamps DEF FactOf
    <2>4. ASSUME NEW I, IsFiniteSet(I), NEW a, NEW b, NEW t,
                 \A x \in past : a[x] \in I, \A x \in r.found : b[x] \in I,
                 \A i \in I : TakenFrom(order, r.rate, AtPoint(past, a, i),
                                        AtPoint(r.found, b, i), t[i])
          PROVE  /\ SumFunction(Revenues(I, t)) = r.agg.revenue
                 /\ SumFunction(Counts(I, t)) = r.agg.orders
      BY <2>4, ChartAddsUp
    <2>5. CASE r.from = r.to
      <3> DEFINE a == [x \in past |-> HourOf(order[x].bucket)]
                 b == [x \in r.found |-> HourOf(FactOf(order, r, x))]
      <3>1. /\ \A x \in past : a[x] \in Hours
            /\ \A x \in r.found : b[x] \in Hours
        BY <2>3
      <3>2. /\ \A h : AtPoint(past, a, h) = InHour(order, past, h)
            /\ \A h : AtPoint(r.found, b, h) = FactsIn(order, r, h)
        BY <2>1 DEF InHour, FactsIn, AtPoint
      <3>3. Series = r.agg.byHour /\ DOMAIN Series = Hours
        BY <2>1, <2>5 DEF Series, Report, Aggregates
      <3>4. \A h \in Hours : TakenFrom(order, r.rate, InHour(order, past, h),
                                       FactsIn(order, r, h), r.agg.byHour[h])
        BY <2>1 DEF FiguresAddUp
      <3> HIDE DEF a, b
      <3>5. \A h \in Hours : TakenFrom(order, r.rate, AtPoint(past, a, h),
                                       AtPoint(r.found, b, h), r.agg.byHour[h])
        BY <3>2, <3>4
      <3>6. /\ SumFunction([i \in Hours |-> r.agg.byHour[i].revenue]) = r.agg.revenue
            /\ SumFunction([i \in Hours |-> r.agg.byHour[i].orders]) = r.agg.orders
        <4> DEFINE t == r.agg.byHour
        <4>1. IsFiniteSet(Hours)
          BY DaysAreFinite
        <4>2. \A h \in Hours : TakenFrom(order, r.rate, AtPoint(past, a, h),
                                         AtPoint(r.found, b, h), t[h])
          BY <3>5
        <4> HIDE DEF t
        <4>3. /\ SumFunction(Revenues(Hours, t)) = r.agg.revenue
              /\ SumFunction(Counts(Hours, t)) = r.agg.orders
          BY <2>4, <3>1, <4>1, <4>2
        <4> QED
          BY <4>3 DEF t, Revenues, Counts
      <3> QED
        BY <3>3, <3>6
    <2>6. CASE r.from # r.to
      <3> DEFINE a == [x \in past |-> DayOf(order[x].bucket)]
                 b == [x \in r.found |-> DayOf(FactOf(order, r, x))]
                 I == r.from .. r.to
      <3>1. /\ \A x \in past : a[x] \in I
            /\ \A x \in r.found : b[x] \in I
        BY <2>1, <2>2 DEF FactOf
      <3>2. /\ \A d : AtPoint(past, a, d) = OnDay(order, past, d)
            /\ \A d : AtPoint(r.found, b, d) = FactsOn(order, r, d)
        BY <2>1 DEF OnDay, FactsOn, AtPoint
      <3>3. Series = [d \in I |-> r.agg.byDay[d]] /\ DOMAIN Series = I
        BY <2>6 DEF Series
      <3>4. I \in SUBSET Days
        BY <2>1, SalesAssumption DEF Days
      <3>5. \A d \in I : TakenFrom(order, r.rate, OnDay(order, past, d),
                                   FactsOn(order, r, d), r.agg.byDay[d])
        BY <2>1, <3>4 DEF FiguresAddUp
      <3> HIDE DEF a, b, I
      <3>6. \A d \in I : TakenFrom(order, r.rate, AtPoint(past, a, d),
                                   AtPoint(r.found, b, d), r.agg.byDay[d])
        BY <3>2, <3>5
      <3>7. IsFiniteSet(I)
        BY <3>4, DaysAreFinite
      <3>8. /\ SumFunction([i \in I |-> r.agg.byDay[i].revenue]) = r.agg.revenue
            /\ SumFunction([i \in I |-> r.agg.byDay[i].orders]) = r.agg.orders
        <4> DEFINE t == r.agg.byDay
        <4>1. \A d \in I : TakenFrom(order, r.rate, AtPoint(past, a, d),
                                     AtPoint(r.found, b, d), t[d])
          BY <3>6
        <4> HIDE DEF t
        <4>2. /\ SumFunction(Revenues(I, t)) = r.agg.revenue
              /\ SumFunction(Counts(I, t)) = r.agg.orders
          BY <2>4, <3>1, <3>7, <4>1
        <4> QED
          BY <4>2 DEF t, Revenues, Counts
      <3>9. \A d \in I : Series[d] = r.agg.byDay[d]
        BY <3>3
      <3>10. /\ [i \in I |-> Series[i].revenue] = [i \in I |-> r.agg.byDay[i].revenue]
             /\ [i \in I |-> Series[i].orders] = [i \in I |-> r.agg.byDay[i].orders]
        BY <3>9
      <3> QED
        BY <3>3, <3>8, <3>10
    <2> QED
      BY <2>5, <2>6
  <1> QED
    BY <1>1, ReportsStaySound, PTL

-----------------------------------------------------------------------------
(***************************************************************************)
(* The kitchen's times.                                                    *)
(***************************************************************************)
\* An order is accepted once and ready once, and never ready before it was
\* accepted.
OneByOne(E) ==
  /\ IsFiniteSet(E) /\ E \subseteq Event
  /\ \A a, b \in E : a.of = b.of /\ a.to = b.to => a = b
  /\ \A b \in E : b.to = "ready" =>
       \E a \in E : a.of = b.of /\ a.to = "accepted" /\ a.at <= b.at

\* The time of an order's event, and how long it took to prepare.
At(E, o, to) == CHOOSE t \in Stamps : \E ev \in E : ev.of = o /\ ev.to = to /\ ev.at = t
Span(E, o) == At(E, o, "ready") - At(E, o, "accepted")

ReadyOf(F) == {o \in Orders : \E ev \in F : ev.of = o /\ ev.to = "ready"}
Spans(E, S) == [o \in S |-> Span(E, o)]

Whole(E, st) ==
  st.preparation = IF ReadyOf(st.found) = {} THEN None
                     ELSE RoundHalfUpDiv(SumFunction(Spans(E, ReadyOf(st.found))),
                                         Cardinality(ReadyOf(st.found)))

KitchenInv ==
  /\ OneByOne(events) /\ \A ev \in events : ev.at <= clock
  /\ \/ stats = NotYet
     \/ stats.place = "spans" /\ stats.found \subseteq events
     \/ stats.place = "done" /\ stats.found \subseteq events /\ Whole(events, stats)

LEMMA TimeOfEvent ==
  ASSUME NEW E, OneByOne(E), NEW ev \in E
  PROVE  /\ At(E, ev.of, ev.to) = ev.at
         /\ ev.at \in Stamps /\ ev.of \in Orders /\ ev.to \in {"accepted", "ready"}
  <1>1. ev.at \in Stamps /\ ev.of \in Orders /\ ev.to \in {"accepted", "ready"}
    BY DEF OneByOne, Event
  <1>2. \A t \in Stamps :
          (\E b \in E : b.of = ev.of /\ b.to = ev.to /\ b.at = t) <=> t = ev.at
    BY <1>1 DEF OneByOne
  <1> QED
    BY <1>1, <1>2 DEF At

\* Times of what was accepted and made ready stay when more events come.
LEMMA WholeStays ==
  ASSUME NEW E, NEW E2, OneByOne(E), OneByOne(E2), E \subseteq E2,
         NEW st, st.found \subseteq E, Whole(E, st)
  PROVE  Whole(E2, st)
  <1> DEFINE S == ReadyOf(st.found)
  <1>1. ASSUME NEW o \in S
        PROVE  Span(E2, o) = Span(E, o)
    <2>1. PICK b \in E : b.of = o /\ b.to = "ready"
      BY <1>1 DEF ReadyOf
    <2>2. PICK a \in E : a.of = o /\ a.to = "accepted"
      BY <2>1 DEF OneByOne
    <2>3. a \in E2 /\ b \in E2
      BY <2>1, <2>2
    <2>4. At(E, o, "ready") = b.at /\ At(E, o, "accepted") = a.at
      BY <2>1, <2>2, TimeOfEvent
    <2>5. At(E2, o, "ready") = b.at /\ At(E2, o, "accepted") = a.at
      BY <2>1, <2>2, <2>3, TimeOfEvent
    <2> QED
      BY <2>4, <2>5 DEF Span
  <1>2. Spans(E2, S) = Spans(E, S)
    BY <1>1 DEF Spans
  <1> QED
    BY <1>2 DEF Whole

LEMMA EventsAreOneByOne ==
  ASSUME KitchenInv, clock \in Stamps, NEW o \in Orders, NEW e \in Employees,
         NEW to \in {"accepted", "ready"}, ~Has(o, to),
         to = "ready" => Has(o, "accepted"), Enter(o, to, e)
  PROVE  OneByOne(events') /\ events \subseteq events' /\ \A ev \in events' : ev.at <= clock
  <1> DEFINE new == [of |-> o, to |-> to, at |-> clock, by |-> e]
  <1>1. events' = events \cup {new}
    BY DEF Enter
  <1>2. new \in Event /\ new.of = o /\ new.to = to /\ new.at = clock
    BY DEF Event
  <1> HIDE DEF new
  <1>3. IsFiniteSet(events')
    BY <1>1, FS_AddElement DEF KitchenInv, OneByOne
  <1>4. \A a, b \in events' : a.of = b.of /\ a.to = b.to => a = b
    BY <1>1, <1>2 DEF KitchenInv, OneByOne, Has
  <1>5. \A b \in events' : b.to = "ready" =>
          \E a \in events' : a.of = b.of /\ a.to = "accepted" /\ a.at <= b.at
    <2> SUFFICES ASSUME NEW b \in events', b.to = "ready"
                 PROVE  \E a \in events' : a.of = b.of /\ a.to = "accepted" /\ a.at <= b.at
      OBVIOUS
    <2>1. CASE b \in events
      BY <1>1, <2>1 DEF KitchenInv, OneByOne
    <2>2. CASE b = new
      <3>1. PICK a \in events : a.of = o /\ a.to = "accepted"
        BY <1>2, <2>2 DEF Has
      <3>2. a.at <= clock
        BY DEF KitchenInv
      <3> QED
        BY <1>1, <1>2, <2>2, <3>1, <3>2
    <2> QED
      BY <1>1, <2>1, <2>2
  <1>6. clock <= clock
    BY DEF Stamps
  <1> QED
    BY <1>1, <1>2, <1>3, <1>4, <1>5, <1>6 DEF KitchenInv, OneByOne

LEMMA SpansAreWhole ==
  ASSUME KitchenInv, ReadSpans
  PROVE  stats'.place = "done" /\ stats'.found = stats.found /\ Whole(events, stats')
  <1> DEFINE F == stats.found
             os == {ev.of : ev \in F}
             accepted == AcceptedOf(os)
             finished == {ev \in F : ev.to = "ready" /\ \E a \in accepted : a.of = ev.of}
             start == [ev \in finished |-> Min({a.at : a \in {b \in accepted : b.of = ev.of}})]
             span == [ev \in finished |-> ev.at - start[ev]]
             T == {ev \in finished : ev.at >= start[ev]}
             S == ReadyOf(F)
  <1>1. /\ OneByOne(events) /\ F \subseteq events
    BY DEF KitchenInv, ReadSpans, NotYet
  <1>2. /\ stats'.place = "done" /\ stats'.found = F
        /\ stats'.preparation = Average(span, T)
    BY DEF ReadSpans
  <1>3. \A ev \in F : ev \in finished <=> ev.to = "ready"
    <2> SUFFICES ASSUME NEW ev \in F, ev.to = "ready"
                 PROVE  \E a \in accepted : a.of = ev.of
      OBVIOUS
    <2>1. PICK a \in events : a.of = ev.of /\ a.to = "accepted"
      BY <1>1 DEF OneByOne
    <2> QED
      BY <2>1 DEF AcceptedOf
  <1>4. finished \subseteq F
    OBVIOUS
  <1>5. ASSUME NEW ev \in finished
        PROVE  /\ ev.of \in S /\ start[ev] = At(events, ev.of, "accepted")
               /\ ev.at = At(events, ev.of, "ready") /\ start[ev] <= ev.at
               /\ ev.at \in Int /\ start[ev] \in Int
    <2>1. ev \in events /\ ev.to = "ready"
      BY <1>1
    <2>2. PICK a \in events : a.of = ev.of /\ a.to = "accepted" /\ a.at <= ev.at
      BY <1>1, <2>1 DEF OneByOne
    <2>3. /\ At(events, ev.of, "accepted") = a.at /\ At(events, ev.of, "ready") = ev.at
          /\ a.at \in Int /\ ev.at \in Int /\ ev.of \in Orders
      BY <1>1, <2>1, <2>2, TimeOfEvent DEF Stamps
    <2>4. {b \in accepted : b.of = ev.of} = {a}
      <3>1. a \in accepted
        BY <2>2 DEF AcceptedOf
      <3>2. \A b \in accepted : b.of = ev.of => b = a
        BY <1>1, <2>2 DEF AcceptedOf, OneByOne
      <3> QED
        BY <2>2, <3>1, <3>2
    <2>5. {c.at : c \in {b \in accepted : b.of = ev.of}} = {a.at}
      BY <2>4
    <2>6. Min({a.at}) = a.at
      BY <2>3 DEF Min
    <2>7. start[ev] = a.at
      BY <2>5, <2>6
    <2>8. ev.of \in S
      BY <2>1, <2>3 DEF ReadyOf
    <2> QED
      BY <2>2, <2>3, <2>7, <2>8
  <1>6. T = finished
    BY <1>5
  <1>7. \A ev \in finished :
          /\ span[ev] \in Int /\ span[ev] = Span(events, ev.of)
          /\ Spans(events, S)[ev.of] = span[ev]
    <2> TAKE ev \in finished
    <2>1. /\ ev.of \in S /\ start[ev] = At(events, ev.of, "accepted")
          /\ ev.at = At(events, ev.of, "ready") /\ ev.at \in Int /\ start[ev] \in Int
      BY <1>5
    <2>2. span[ev] = ev.at - start[ev]
      OBVIOUS
    <2> HIDE DEF finished, start, span, S
    <2>3. Spans(events, S)[ev.of] = Span(events, ev.of)
      BY <2>1 DEF Spans
    <2> QED
      BY <2>1, <2>2, <2>3 DEF Span
  <1>8. IsFiniteSet(finished) /\ IsFiniteSet(S)
    <2>1. IsFiniteSet(events) /\ finished \in SUBSET events
      BY <1>1 DEF OneByOne
    <2>2. S \in SUBSET Orders
      BY DEF ReadyOf
    <2> QED
      BY <2>1, <2>2, FS_Subset, OrdersAreFinite
  <1>9. \A a, b \in finished : a.of = b.of => a = b
    BY <1>1 DEF OneByOne
  <1>10. \A o \in S : \E ev \in finished : ev.of = o
    BY <1>3 DEF ReadyOf
  <1> DEFINE spans == Spans(events, S)
             name == [ev \in finished |-> ev.of]
  <1>12. /\ \A x \in finished : name[x] = x.of /\ name[x] \in S
         /\ \A x, y \in finished : name[x] = name[y] => x = y
         /\ \A o \in S : \E x \in finished : name[x] = o
    BY <1>5, <1>9, <1>10
  <1>13. \A x \in finished : span[x] \in Int /\ spans[name[x]] = span[x]
    BY <1>7
  <1>14. DOMAIN spans = S
    BY DEF Spans
  <1> HIDE DEF finished, S, span, spans, name
  <1>15. /\ \A x \in finished : name[x] \in S
         /\ \A x, y \in finished : name[x] = name[y] => x = y
         /\ \A o \in S : \E x \in finished : name[x] = o
    BY <1>12
  <1>16. /\ SumFunctionOnSet(span, finished) = SumFunctionOnSet(spans, S)
         /\ Cardinality(finished) = Cardinality(S)
    <2>1. ASSUME NEW A, IsFiniteSet(A), NEW B, IsFiniteSet(B), NEW f, NEW g, NEW m,
                 \A x \in A : m[x] \in B,
                 \A x, y \in A : m[x] = m[y] => x = y,
                 \A o \in B : \E x \in A : m[x] = o,
                 \A x \in A : f[x] \in Int /\ g[m[x]] = f[x]
          PROVE  /\ SumFunctionOnSet(f, A) = SumFunctionOnSet(g, B)
                 /\ Cardinality(A) = Cardinality(B)
      BY <2>1, SumRenamed, AsManyRenamed
    <2> QED
      BY <1>8, <1>13, <1>15, <2>1
  <1>17. finished = {} <=> S = {}
    BY <1>12
  <1>18. Average(span, T) = IF S = {} THEN None
                             ELSE RoundHalfUpDiv(SumFunction(spans), Cardinality(S))
    BY <1>6, <1>14, <1>16, <1>17 DEF Average, SumFunction
  <1> QED
    BY <1>2, <1>18 DEF Whole, S, spans

LEMMA KitchenStep ==
  ASSUME ReportInv, KitchenInv, [AllNext]_allVars
  PROVE  KitchenInv'
  <1>1. clock \in Stamps /\ clock \in Int
    BY DEF ReportInv, SalesInv, RowTypes, Stamps
  <1>2. /\ OneByOne(events) /\ \A ev \in events : ev.at <= clock /\ ev.at \in Int
    BY DEF KitchenInv, OneByOne, Event, Stamps
  <1>3. ASSUME UNCHANGED <<events, stats>>, clock <= clock', clock' \in Int
        PROVE  KitchenInv'
    BY <1>1, <1>2, <1>3 DEF KitchenInv
  <1>4. CASE Next /\ UNCHANGED dashboardVars
    <2>1. SalesInv' /\ clock <= clock'
      BY <1>4, SalesStep DEF ReportInv
    <2> QED
      BY <1>3, <1>4, <2>1 DEF dashboardVars, SalesInv, RowTypes, Stamps
  <1>5. CASE ReadShifts
    BY <1>1, <1>3, <1>5 DEF ReadShifts, vars
  <1>6. CASE ReadSpans
    <2>1. /\ stats'.place = "done" /\ stats'.found = stats.found /\ Whole(events, stats')
          /\ stats.found \subseteq events
      BY <1>6, SpansAreWhole DEF KitchenInv, ReadSpans, NotYet
    <2>2. events' = events /\ clock' = clock
      BY <1>6 DEF ReadSpans, vars
    <2> QED
      BY <1>2, <2>1, <2>2 DEF KitchenInv
  <1>7. ASSUME NEW o \in Orders, Create(o)
        PROVE  KitchenInv'
    BY <1>1, <1>3, <1>7 DEF Create, vars
  <1>8. ASSUME OneByOne(events'), events \subseteq events',
               \A ev \in events' : ev.at <= clock, clock' = clock, stats' = stats
        PROVE  KitchenInv'
    <2>1. stats.place = "done" /\ stats.found \subseteq events /\ Whole(events, stats)
            => Whole(events', stats)
      BY <1>2, <1>8, WholeStays
    <2> QED
      BY <1>8, <2>1 DEF KitchenInv
  <1>9. ASSUME NEW o \in Orders, NEW e \in Employees, Accept(o, e) \/ Ready(o, e)
        PROVE  KitchenInv'
    <2>1. PICK to \in {"accepted", "ready"} :
            ~Has(o, to) /\ (to = "ready" => Has(o, "accepted")) /\ Enter(o, to, e)
      BY <1>9 DEF Accept, Ready
    <2>2. /\ OneByOne(events') /\ events \subseteq events'
          /\ \A ev \in events' : ev.at <= clock
      BY <1>1, <2>1, EventsAreOneByOne
    <2>3. clock' = clock /\ stats' = stats
      BY <1>9 DEF Accept, Ready, vars
    <2> QED
      BY <1>8, <2>2, <2>3
  <1>10. ASSUME NEW from \in Days, NEW to \in Days, NEW who \in Staff \cup {None},
                AskStats(from, to, who)
         PROVE  KitchenInv'
    <2>1. /\ stats'.place = "spans" /\ stats'.found \subseteq events
          /\ events' = events /\ clock' = clock
      BY <1>10 DEF AskStats, Within, vars
    <2> QED
      BY <1>2, <2>1 DEF KitchenInv
  <1>11. CASE UNCHANGED allVars
    BY <1>1, <1>3, <1>11 DEF allVars, dashboardVars, vars
  <1> QED
    BY <1>4, <1>5, <1>6, <1>7, <1>9, <1>10, <1>11 DEF AllNext, DashboardStep

\* Dashboard.TimesAreWhole, FR43, D1: whoever accepted an order, and on whatever
\* day, the preparation time of everything that was found ready in the range is
\* the whole time since.
THEOREM TimesAreAlwaysWhole == AllSpec => []TimesAreWhole
  <1>1. AllInit => KitchenInv
    <2>1. IsFiniteSet({})
      BY FS_EmptySet
    <2> QED
      BY <2>1 DEF AllInit, DashboardInit, KitchenInv, OneByOne
  <1>2. ReportInv /\ KitchenInv /\ [AllNext]_allVars => KitchenInv'
    BY KitchenStep
  <1>3. KitchenInv => TimesAreWhole
    <2> SUFFICES ASSUME KitchenInv, stats.place = "done"
                 PROVE  TimesAreWhole
      BY DEF TimesAreWhole
    <2>1. Whole(events, stats)
      BY DEF KitchenInv, NotYet
    <2> QED
      BY <2>1 DEF TimesAreWhole, Whole, ReadyOf, Spans, Span, At
  <1> QED
    BY <1>1, <1>2, <1>3, ReportsStaySound, PTL DEF AllSpec

-----------------------------------------------------------------------------
(***************************************************************************)
(* The KPIs.                                                               *)
(***************************************************************************)
LEMMA WindowIsRange == InTheWindow = PaidInRange
  BY DEF InTheWindow, PaidInRange

\* What the payments of a set of sold orders come to, shift by shift.
LEMMA ShiftsAddUp ==
  ASSUME order \in [Orders -> Order], NEW S \in SUBSET Sold(order),
         NEW k, DOMAIN k = OnShift \cup {None},
         \A s \in OnShift \cup {None} :
           k[s] = SumFunctionOnSet(Amounts(order), {o \in S : ShiftOf(order[o].by) = s})
  PROVE  SumFunction(k) = SumFunctionOnSet(Amounts(order), S)
  <1> DEFINE I == OnShift \cup {None}
             a == [o \in S |-> ShiftOf(order[o].by)]
             f == Amounts(order)
  <1>1. IsFiniteSet(S) /\ S \in SUBSET Orders
    BY OrdersAreFinite DEF Sold
  <1>2. IsFiniteSet(I)
    BY DashboardAssumption, FS_AddElement
  <1>3. \A x \in S : f[x] \in Int
    BY TermsAreNat
  <1>4. \A x \in S : a[x] \in I
    BY DEF ShiftOf
  <1>5. \A s \in I : k[s] = SumFunctionOnSet(f, AtPoint(S, a, s))
    <2>1. \A s : {o \in S : ShiftOf(order[o].by) = s} = AtPoint(S, a, s)
      BY DEF AtPoint
    <2> QED
      BY <2>1
  <1>6. DOMAIN k = I
    OBVIOUS
  <1> HIDE DEF I, a, f
  <1>7. SumFunctionOnSet(k, I) = SumFunctionOnSet(f, S)
    BY <1>1, <1>2, <1>3, <1>4, <1>5, AllPoints
  <1> QED
    BY <1>6, <1>7 DEF SumFunction, f

LEMMA ReadShiftsIsSound ==
  ASSUME ReportInv, ReadShifts
  PROVE  KpiInv'
  <1> DEFINE I == OnShift \cup {None}
             paid == InTheWindow
             on(s) == {o \in paid : ShiftOf(order[o].by) = s}
             money(s) == SumFunction([o \in on(s) |-> order[o].amount])
  <1>1. /\ report.place = "done" /\ report # NoReport
        /\ kpis' = [place |-> "done", paid |-> paid, byShift |-> [s \in I |-> money(s)]]
        /\ UNCHANGED vars
    BY DEF ReadShifts, NoReport
  <1>2. order \in [Orders -> Order]
    BY DEF ReportInv, SalesInv, RowTypes
  <1>3. paid \in SUBSET Sold(order)
    BY DEF InTheWindow, Completed, Sold
  <1>4. ASSUME NEW s \in I
        PROVE  money(s) = SumFunctionOnSet(Amounts(order), on(s)) /\ money(s) \in Nat
    <2> DEFINE f == [o \in on(s) |-> order[o].amount]
               a == Amounts(order)
    <2>1. on(s) \in SUBSET Sold(order) /\ \A o \in on(s) : o \in Orders
      BY <1>3 DEF Sold
    <2>2. DOMAIN f = on(s) /\ \A o \in on(s) : f[o] = a[o]
      BY <2>1 DEF Amounts
    <2>3. money(s) = SumFunctionOnSet(f, on(s))
      BY <2>2 DEF SumFunction
    <2> HIDE DEF f, a, on
    <2>4. SumFunctionOnSet(f, on(s)) = SumFunctionOnSet(a, on(s))
      BY <2>2, SameTermsSameSum
    <2>5. SumFunctionOnSet(Amounts(order), on(s)) \in Nat
      BY <1>2, <2>1, SumsAreNat
    <2> QED
      BY <2>3, <2>4, <2>5 DEF a
  <1> HIDE DEF money, on, I
  <1>5. /\ kpis'.place = "done" /\ kpis'.paid = paid
        /\ kpis'.byShift \in [I -> Nat]
        /\ \A s \in I : kpis'.byShift[s] = SumFunctionOnSet(Amounts(order), on(s))
    BY <1>1, <1>4
  <1>6. /\ InTheWindow' = paid /\ order' = order /\ report' = report
    BY <1>1 DEF vars, InTheWindow, Completed
  <1> HIDE DEF paid
  <1>7. \A s : {o \in paid : ShiftOf(order[o].by) = s} = on(s)
    BY DEF on
  <1> QED
    BY <1>1, <1>5, <1>6, <1>7 DEF KpiInv, I

LEMMA KpisStay ==
  ASSUME ReportInv, KpiInv, [Next]_vars, kpis' = kpis
  PROVE  KpiInv'
  <1>1. CASE kpis = NotYet
    BY <1>1 DEF KpiInv
  <1>2. CASE kpis # NotYet
    <2>1. /\ report # NoReport /\ report.place = "done" /\ kpis.place = "done"
          /\ kpis.paid \subseteq InTheWindow
          /\ InTheWindow \cap (report.known \cup report.found) \subseteq kpis.paid
          /\ kpis.byShift \in [OnShift \cup {None} -> Nat]
          /\ \A s \in OnShift \cup {None} :
               kpis.byShift[s]
                 = SumFunctionOnSet(Amounts(order),
                                    {o \in kpis.paid : ShiftOf(order[o].by) = s})
      BY <1>2 DEF KpiInv
    <2>2. report' = report
      BY <2>1 DEF Next, vars, Sell, Pay, Cancel, Tick, SetTaxRate, MakeReport, Ask,
                  ReadCompleted, ReadPayments, ReadRate, ReadCancelled
    <2>3. \A o \in Orders : order[o].status # "placed" => order'[o] = order[o]
      BY SalesStep DEF ReportInv, Settles
    <2>4. report.known \cup report.found \subseteq Sold(order) \cup Lost(order)
      BY <2>1 DEF ReportInv, Sound, FoundWhatItKnows
    <2>5. \A o \in Sold(order) \cup Lost(order) : o \in Orders /\ order'[o] = order[o]
      BY <2>3 DEF Sold, Lost
    <2>6. \A o \in Sold(order) \cup Lost(order) : o \in InTheWindow' <=> o \in InTheWindow
      BY <2>2, <2>5 DEF InTheWindow, Completed, Sold, Lost
    <2>7. kpis.paid \subseteq Sold(order) /\ kpis.paid \in SUBSET Orders
      BY <2>1 DEF InTheWindow, Completed, Sold
    <2>8. /\ kpis.paid \subseteq InTheWindow'
          /\ InTheWindow' \cap (report.known \cup report.found) \subseteq kpis.paid
      BY <2>1, <2>4, <2>6, <2>7
    <2>9. ASSUME NEW s \in OnShift \cup {None}
          PROVE  kpis.byShift[s]
                   = SumFunctionOnSet(Amounts(order'),
                                      {o \in kpis.paid : ShiftOf(order'[o].by) = s})
      <3> DEFINE T == {o \in kpis.paid : ShiftOf(order[o].by) = s}
                 a == Amounts(order)
                 b == Amounts(order')
      <3>1. {o \in kpis.paid : ShiftOf(order'[o].by) = s} = T
        BY <2>5, <2>7
      <3>2. \A x \in T : b[x] = a[x]
        BY <2>5, <2>7 DEF Amounts
      <3>3. kpis.byShift[s] = SumFunctionOnSet(a, T)
        BY <2>1
      <3> HIDE DEF T, a, b
      <3>4. SumFunctionOnSet(b, T) = SumFunctionOnSet(a, T)
        BY <3>2, SameTermsSameSum
      <3> QED
        BY <3>1, <3>3, <3>4 DEF b
    <2> QED
      BY <2>1, <2>2, <2>8, <2>9 DEF KpiInv
  <1> QED
    BY <1>1, <1>2

LEMMA KpiStep ==
  ASSUME ReportInv, KpiInv, [AllNext]_allVars
  PROVE  KpiInv'
  <1>1. ReadShifts \/ ([Next]_vars /\ kpis' = kpis)
    BY DEF AllNext, DashboardStep, ReadSpans, Create, Accept, Ready, AskStats, allVars,
           dashboardVars
  <1> QED
    BY <1>1, ReadShiftsIsSound, KpisStay

\* The revenue by shift covers the report's, and is the same if nothing was paid
\* meanwhile.
LEMMA ShiftsCoverReport ==
  ASSUME ReportInv, KpiInv, Ordinary, kpis.place = "done",
         \A o \in report.found : order[o].amount = Total(order[o].basket, report.rate)
  PROVE  /\ report.agg.revenue <= SumFunction(kpis.byShift)
         /\ kpis.paid \subseteq report.known =>
              SumFunction(kpis.byShift) = report.agg.revenue
  <1> DEFINE S == FromBoth
             paid == kpis.paid
             f == Amounts(order)
  <1>1. /\ paid \subseteq PaidInRange
        /\ PaidInRange \cap (report.known \cup report.found) \subseteq paid
        /\ kpis.byShift \in [OnShift \cup {None} -> Nat]
        /\ \A s \in OnShift \cup {None} :
             kpis.byShift[s]
               = SumFunctionOnSet(f, {o \in paid : ShiftOf(order[o].by) = s})
    BY WindowIsRange DEF KpiInv, NotYet
  <1>2. order \in [Orders -> Order]
    BY DEF ReportInv, SalesInv, RowTypes
  <1>3. PaidInRange \subseteq Sold(order) /\ paid \in SUBSET Sold(order)
    BY <1>1 DEF PaidInRange, Completed, Sold
  <1>4. SumFunction(kpis.byShift) = SumFunctionOnSet(f, paid)
    <2> DEFINE k == kpis.byShift
    <2>1. DOMAIN k = OnShift \cup {None}
      BY <1>1
    <2>2. \A s \in OnShift \cup {None} :
            k[s] = SumFunctionOnSet(f, {o \in paid : ShiftOf(order[o].by) = s})
      BY <1>1
    <2> HIDE DEF k, paid
    <2>3. SumFunction(k) = SumFunctionOnSet(f, paid)
      BY <1>2, <1>3, <2>1, <2>2, ShiftsAddUp
    <2> QED
      BY <2>3 DEF k
  <1>5. /\ S \in SUBSET PaidInRange /\ S \subseteq report.known \cup report.found
        /\ PaidInRange \cap report.known \subseteq S
    BY PartsAreDisjoint DEF FromBoth, FromRollups
  <1>6. S \in SUBSET paid /\ S \in SUBSET Orders
    BY <1>1, <1>3, <1>5 DEF Sold
  <1>7. report.agg.revenue = SumFunctionOnSet(f, S)
    <2> DEFINE g == [o \in S |-> order[o].amount]
    <2>1. report.agg.revenue = SumFunction(g)
      BY BothPartsAreReported DEF Reports
    <2>2. DOMAIN g = S /\ \A o \in S : g[o] = f[o]
      BY <1>6 DEF Amounts
    <2> HIDE DEF g, S, f
    <2>3. SumFunctionOnSet(g, S) = SumFunctionOnSet(f, S)
      BY <2>2, SameTermsSameSum
    <2> QED
      BY <2>1, <2>2, <2>3 DEF SumFunction
  <1>8. IsFiniteSet(paid) /\ \A x \in paid : f[x] \in Nat
    <2>1. paid \in SUBSET Orders
      BY <1>3 DEF Sold
    <2> QED
      BY <1>2, <1>3, <2>1, OrdersAreFinite, TermsAreNat
  <1> HIDE DEF S, paid, f
  <1>9. SumFunctionOnSet(f, S) <= SumFunctionOnSet(f, paid)
    BY <1>6, <1>8, SumOfSome
  <1>10. paid \subseteq report.known => S = paid
    BY <1>1, <1>5, <1>6
  <1> QED
    BY <1>4, <1>7, <1>9, <1>10 DEF paid

\* Every order brings something in, so that takings are of no money exactly if
\* they are of no orders.
LEMMA TakingsGoTogether ==
  ASSUME ReportInv, NEW rate \in TaxRates, NEW A \in SUBSET Sold(order),
         NEW B \in SUBSET Sold(order), NEW t, TakenFrom(order, rate, A, B, t)
  PROVE  /\ t.revenue \in Nat /\ t.orders \in Nat
         /\ A \cup B = {} => t.revenue = 0 /\ t.orders = 0
         /\ A \cup B # {} => t.revenue > 0 /\ t.orders > 0
  <1> DEFINE f == Amounts(order)
             g == Computed(order, rate)
             one == Ones
  <1>1. order \in [Orders -> Order]
    BY DEF ReportInv, SalesInv, RowTypes
  <1>2. A \in SUBSET Orders /\ B \in SUBSET Orders /\ IsFiniteSet(A) /\ IsFiniteSet(B)
    BY OrdersAreFinite DEF Sold
  <1>3. \A x \in Sold(order) :
          /\ f[x] \in Nat /\ f[x] > 0 /\ g[x] \in Nat /\ g[x] > 0 /\ one[x] = 1
    <2> TAKE x \in Sold(order)
    <2>1. f[x] \in Nat /\ g[x] \in Nat /\ one[x] = 1
      BY <1>1, TermsAreNat
    <2>2. /\ x \in Orders /\ order[x].basket \in SUBSET Products /\ order[x].basket # {}
          /\ \E r \in TaxRates : order[x].amount = Total(order[x].basket, r)
      BY <1>1, RowFacts DEF Sold, ReportInv, SalesInv, RowsAreDue
    <2>3. \A r \in TaxRates : Total(order[x].basket, r) > 0
      BY <2>2, TotalIsNat
    <2>4. f[x] = order[x].amount /\ g[x] = Total(order[x].basket, rate)
      BY <2>2 DEF Amounts, Computed
    <2> QED
      BY <2>1, <2>2, <2>3, <2>4
  <1>4. /\ t.revenue = SumFunctionOnSet(f, A) + SumFunctionOnSet(g, B)
        /\ t.orders = SumFunctionOnSet(one, A) + SumFunctionOnSet(one, B)
    BY DEF TakenFrom
  <1> HIDE DEF f, g, one
  <1>5. ASSUME NEW S, IsFiniteSet(S), NEW h, \A x \in S : h[x] \in Nat /\ h[x] > 0
        PROVE  /\ SumFunctionOnSet(h, S) \in Nat
               /\ S = {} => SumFunctionOnSet(h, S) = 0
               /\ S # {} => SumFunctionOnSet(h, S) > 0
    <2>1. SumFunctionOnSet(h, S) \in Int /\ SumFunctionOnSet(h, S) >= 0
      <3>1. \A x \in S : h[x] \in Int /\ h[x] >= 0
        BY <1>5
      <3> QED
        BY <1>5, <3>1, SumIsInt
    <2>2. S = {} => SumFunctionOnSet(h, S) = 0
      BY NothingSums
    <2>3. ASSUME NEW a \in S
          PROVE  SumFunctionOnSet(h, S) >= h[a] /\ h[a] \in Nat /\ h[a] > 0
      BY <1>5, SumCovers
    <2> QED
      BY <2>1, <2>2, <2>3
  <1>6. /\ \A x \in A : f[x] \in Nat /\ f[x] > 0 /\ one[x] \in Nat /\ one[x] > 0
        /\ \A x \in B : g[x] \in Nat /\ g[x] > 0 /\ one[x] \in Nat /\ one[x] > 0
    BY <1>3
  <1>7. /\ SumFunctionOnSet(f, A) \in Nat /\ (A = {} => SumFunctionOnSet(f, A) = 0)
        /\ A # {} => SumFunctionOnSet(f, A) > 0
    BY <1>2, <1>5, <1>6
  <1>8. /\ SumFunctionOnSet(g, B) \in Nat /\ (B = {} => SumFunctionOnSet(g, B) = 0)
        /\ B # {} => SumFunctionOnSet(g, B) > 0
    BY <1>2, <1>5, <1>6
  <1>9. /\ SumFunctionOnSet(one, A) \in Nat /\ (A = {} => SumFunctionOnSet(one, A) = 0)
        /\ A # {} => SumFunctionOnSet(one, A) > 0
    BY <1>2, <1>5, <1>6
  <1>10. /\ SumFunctionOnSet(one, B) \in Nat /\ (B = {} => SumFunctionOnSet(one, B) = 0)
         /\ B # {} => SumFunctionOnSet(one, B) > 0
    BY <1>2, <1>5, <1>6
  <1> QED
    BY <1>4, <1>7, <1>8, <1>9, <1>10

\* The figures of an ordinary report, by days and hours: takings of some orders,
\* and what is sold has a day and an hour.
LEMMA FiguresHaveOrders ==
  ASSUME ReportInv, Ordinary
  PROVE  /\ FromBoth = {} => report.agg.orders = 0
         /\ FromBoth # {} => report.agg.orders > 0
         /\ \A d \in Days :
              /\ report.agg.byDay[d].revenue \in Nat /\ report.agg.byDay[d].orders \in Nat
              /\ report.agg.byDay[d].orders > 0 <=> report.agg.byDay[d].revenue > 0
         /\ \A h \in Hours :
              /\ report.agg.byHour[h].revenue \in Nat
              /\ report.agg.byHour[h].orders \in Nat
              /\ report.agg.byHour[h].orders > 0 => FromBoth # {}
         /\ FromBoth # {} =>
              /\ \E d \in Days : report.agg.byDay[d].orders > 0
              /\ \E h \in Hours : report.agg.byHour[h].orders > 0
  <1> DEFINE r == report
             past == FromRollups(order, r, Sold(order))
             found == r.found
             A(d) == OnDay(order, past, d)
             B(d) == FactsOn(order, r, d)
             C(h) == InHour(order, past, h)
             D(h) == FactsIn(order, r, h)
  <1>1. /\ order \in [Orders -> Order] /\ r.rate \in TaxRates /\ Added(r) = found
        /\ FiguresAddUp(order, r)
    BY FinishedReports DEF Report
  <1>2. /\ past \in SUBSET Sold(order) /\ found \in SUBSET Sold(order)
        /\ FromBoth = past \cup found
    BY PartsAreDisjoint DEF FromBoth
  <1>3. /\ TakenFrom(order, r.rate, past, found, r.agg)
        /\ \A d \in Days : TakenFrom(order, r.rate, A(d), B(d), r.agg.byDay[d])
        /\ \A h \in Hours : TakenFrom(order, r.rate, C(h), D(h), r.agg.byHour[h])
    BY <1>1 DEF FiguresAddUp
  <1>4. /\ \A d : A(d) \in SUBSET past /\ B(d) \in SUBSET found
        /\ \A h : C(h) \in SUBSET past /\ D(h) \in SUBSET found
    BY <1>1 DEF OnDay, InHour, FactsOn, FactsIn
  <1>5. \A x \in past :
          /\ x \in A(DayOf(order[x].bucket)) /\ x \in C(HourOf(order[x].bucket))
          /\ DayOf(order[x].bucket) \in Days /\ HourOf(order[x].bucket) \in Hours
    <2> TAKE x \in past
    <2>1. order[x].bucket \in Stamps
      BY <1>1, <1>2, RowFacts DEF Sold
    <2> QED
      BY <2>1, DaysOfStamps DEF OnDay, InHour
  <1>6. \A x \in found :
          /\ x \in B(DayOf(FactOf(order, r, x))) /\ x \in D(HourOf(FactOf(order, r, x)))
          /\ DayOf(FactOf(order, r, x)) \in Days /\ HourOf(FactOf(order, r, x)) \in Hours
    <2> TAKE x \in found
    <2>1. FactOf(order, r, x) \in Stamps
      BY <1>1, <1>2, RowFacts DEF Sold, FactOf
    <2> QED
      BY <1>1, <2>1, DaysOfStamps DEF FactsOn, FactsIn
  <1> HIDE DEF A, B, C, D, past, found
  <1>7. /\ past \cup found = {} => r.agg.orders = 0
        /\ past \cup found # {} => r.agg.orders > 0
    BY <1>1, <1>2, <1>3, TakingsGoTogether
  <1>8. ASSUME NEW d \in Days
        PROVE  /\ r.agg.byDay[d].revenue \in Nat /\ r.agg.byDay[d].orders \in Nat
               /\ A(d) \cup B(d) = {} =>
                    r.agg.byDay[d].revenue = 0 /\ r.agg.byDay[d].orders = 0
               /\ A(d) \cup B(d) # {} =>
                    r.agg.byDay[d].revenue > 0 /\ r.agg.byDay[d].orders > 0
    <2>1. A(d) \in SUBSET Sold(order) /\ B(d) \in SUBSET Sold(order)
      BY <1>2, <1>4
    <2> QED
      BY <1>1, <1>3, <2>1, TakingsGoTogether
  <1>9. ASSUME NEW h \in Hours
        PROVE  /\ r.agg.byHour[h].revenue \in Nat /\ r.agg.byHour[h].orders \in Nat
               /\ C(h) \cup D(h) = {} =>
                    r.agg.byHour[h].revenue = 0 /\ r.agg.byHour[h].orders = 0
               /\ C(h) \cup D(h) # {} =>
                    r.agg.byHour[h].revenue > 0 /\ r.agg.byHour[h].orders > 0
    <2>1. C(h) \in SUBSET Sold(order) /\ D(h) \in SUBSET Sold(order)
      BY <1>2, <1>4
    <2> QED
      BY <1>1, <1>3, <2>1, TakingsGoTogether
  <1>10. \A d \in Days : r.agg.byDay[d].orders > 0 <=> r.agg.byDay[d].revenue > 0
    BY <1>8
  <1>11. \A h \in Hours : r.agg.byHour[h].orders > 0 => past \cup found # {}
    BY <1>4, <1>9
  <1>12. ASSUME past \cup found # {}
         PROVE  /\ \E d \in Days : r.agg.byDay[d].orders > 0
                /\ \E h \in Hours : r.agg.byHour[h].orders > 0
    <2>1. PICK x : x \in past \/ x \in found
      BY <1>12
    <2>2. CASE x \in past
      BY <1>5, <1>8, <1>9, <2>2
    <2>3. CASE x \in found
      BY <1>6, <1>8, <1>9, <2>3
    <2> QED
      BY <2>1, <2>2, <2>3
  <1> QED
    BY <1>2, <1>7, <1>8, <1>9, <1>10, <1>11, <1>12

\* The earliest of the best exists.
LEMMA PeakExists ==
  ASSUME NEW entries, entries \subseteq Int, IsFiniteSet(entries), entries # {},
         NEW takings, \A b \in entries : takings[b].revenue \in Int
  PROVE  \E b \in entries : /\ b \in Peak(takings, entries)
                            /\ \A c \in entries : takings[c].revenue <= takings[b].revenue
  <1> DEFINE f == [b \in entries |-> takings[b].revenue]
  <1>1. \A b \in entries : f[b] \in Int /\ f[b] = takings[b].revenue
    OBVIOUS
  <1> HIDE DEF f
  <1>2. PICK a \in entries : \A c \in entries : f[c] <= f[a]
    BY <1>1, GreatestExists
  <1> DEFINE Best == {b \in entries : f[b] = f[a]}
             g == [b \in Best |-> 0 - b]
  <1>3. a \in Best /\ Best \in SUBSET entries
    OBVIOUS
  <1>4. IsFiniteSet(Best) /\ Best # {}
    BY <1>3, FS_Subset
  <1>5. \A b \in Best : g[b] \in Int /\ g[b] = 0 - b /\ b \in Int /\ f[b] = f[a]
    OBVIOUS
  <1>6. \A c \in entries : f[c] = f[a] => c \in Best
    OBVIOUS
  <1> HIDE DEF Best, g
  <1>7. PICK b \in Best : \A c \in Best : g[c] <= g[b]
    BY <1>4, <1>5, GreatestExists
  <1>8. b \in entries /\ f[b] = f[a]
    BY <1>3, <1>5
  <1>9. ASSUME NEW c \in entries \ {b}
        PROVE  f[c] < f[b] \/ (f[c] = f[b] /\ b < c)
    <2>1. f[c] \in Int /\ f[b] \in Int /\ f[c] <= f[b]
      BY <1>1, <1>2, <1>8
    <2>2. CASE f[c] = f[b]
      <3>1. c \in Best
        BY <1>6, <1>8, <2>2
      <3>2. 0 - c <= 0 - b /\ c \in Int /\ b \in Int
        BY <1>5, <1>7, <3>1
      <3>3. c # b
        OBVIOUS
      <3> QED
        BY <2>2, <3>2, <3>3
    <2> QED
      BY <2>1, <2>2
  <1>10. b \in Peak(takings, entries)
    BY <1>1, <1>8, <1>9 DEF Peak
  <1>11. \A c \in entries : takings[c].revenue <= takings[b].revenue
    BY <1>1, <1>2, <1>8
  <1> QED
    BY <1>8, <1>10, <1>11

\* A best seller, exactly if something was sold.
LEMMA BestSellers ==
  ASSUME ReportInv, Ordinary
  PROVE  Top(1) = {} <=> FromBoth = {}
  <1> DEFINE many(p) == Cardinality({o \in FromBoth : p \in order[o].basket})
             sold == {p \in Products : report.agg.byProduct[p] > 0}
             f == [p \in sold |-> report.agg.byProduct[p]]
  <1>1. /\ \A p \in Products : report.agg.byProduct[p] = Price * many(p)
        /\ \A p \in Products : report.agg.byProduct[p] \in Nat
    BY BothPartsAreReported, FinishedReports DEF Reports, Report, Aggregates
  <1>2. FromBoth \in SUBSET Sold(order)
    BY PartsAreDisjoint DEF FromBoth
  <1>3. order \in [Orders -> Order]
    BY FinishedReports
  <1>4. ASSUME FromBoth = {}
        PROVE  Top(1) = {}
    <2>1. \A p : {o \in FromBoth : p \in order[o].basket} = {}
      BY <1>4
    <2>2. \A p \in Products : many(p) = 0
      BY <2>1, FS_EmptySet
    <2>3. Price * 0 = 0
      BY SalesAssumption
    <2> HIDE DEF many
    <2>4. \A p \in Products : report.agg.byProduct[p] = 0
      BY <1>1, <2>2, <2>3
    <2>5. \A p \in Products : ~(report.agg.byProduct[p] > 0)
      BY <2>4
    <2> QED
      BY <2>5 DEF Top
  <1>5. ASSUME NEW o \in FromBoth
        PROVE  sold # {}
    <2>1. o \in Orders /\ order[o].status = "completed"
      BY <1>2 DEF Sold
    <2>2. order[o].basket \in SUBSET Products /\ order[o].basket # {}
      BY <1>3, <2>1, RowFacts DEF ReportInv, SalesInv, RowsAreDue
    <2>3. PICK p \in order[o].basket : p \in Products
      BY <2>2
    <2> DEFINE T == {q \in FromBoth : p \in order[q].basket}
    <2>4. T \in SUBSET Orders /\ T # {}
      BY <1>2, <2>3 DEF Sold
    <2>5. IsFiniteSet(T) /\ Cardinality(T) \in Nat /\ Cardinality(T) # 0
      BY <2>4, OrdersAreFinite, FS_EmptySet
    <2>6. report.agg.byProduct[p] = Price * Cardinality(T)
      BY <1>1, <2>3
    <2> HIDE DEF T
    <2>7. Price * Cardinality(T) > 0
      <3>1. \A c \in Nat : c # 0 => Price * c > 0
        BY SalesAssumption
      <3> QED
        BY <2>5, <3>1
    <2> QED
      BY <2>3, <2>6, <2>7
  <1>6. ASSUME sold # {}
        PROVE  Top(1) # {}
    <2>1. sold \in SUBSET Products /\ IsFiniteSet(sold)
      BY FiniteAssumption, FS_Subset
    <2>2. \A p \in sold : f[p] = report.agg.byProduct[p] /\ f[p] \in Int
      BY <1>1
    <2>3. Top(1) = {p \in sold : Cardinality({q \in sold : report.agg.byProduct[q]
                                                     > report.agg.byProduct[p]}) < 1}
      BY DEF Top
    <2> HIDE DEF sold, f
    <2>4. PICK b \in sold : \A q \in sold : f[q] <= f[b]
      BY <1>6, <2>1, <2>2, GreatestExists
    <2>5. \A q \in sold : ~(report.agg.byProduct[q] > report.agg.byProduct[b])
      BY <2>2, <2>4
    <2>6. {q \in sold : report.agg.byProduct[q] > report.agg.byProduct[b]} = {}
      BY <2>5
    <2>7. Cardinality({q \in sold : report.agg.byProduct[q] > report.agg.byProduct[b]}) < 1
      BY <2>6, FS_EmptySet
    <2> QED
      BY <2>3, <2>4, <2>7
  <1> HIDE DEF sold
  <1> QED
    BY <1>4, <1>5, <1>6

\* A peak hour, exactly if something was sold, and a peak day on which it was.
LEMMA PeaksAreOfSales ==
  ASSUME ReportInv, Ordinary
  PROVE  /\ PeakHour = {} <=> FromBoth = {}
         /\ FromBoth # {} => \E d \in PeakDay : report.agg.byDay[d].orders > 0
  <1> DEFINE H == {h \in Hours : report.agg.byHour[h].orders > 0}
             D == {d \in Days : report.agg.byDay[d].orders > 0 \/ HasRow(d)}
             hour == report.agg.byHour
             day == report.agg.byDay
  <1>1. /\ H \in SUBSET Hours /\ D \in SUBSET Days
        /\ PeakHour = Peak(hour, H) /\ PeakDay = Peak(day, D)
    BY DEF PeakHour, PeakDay
  <1>2. /\ \A h \in H : hour[h].revenue \in Int /\ FromBoth # {}
        /\ \A d \in D : day[d].revenue \in Int
        /\ \A d \in Days : day[d].revenue \in Nat
        /\ \A d \in Days : day[d].orders > 0 <=> day[d].revenue > 0
    BY FiguresHaveOrders
  <1>3. FromBoth # {} => H # {} /\ \E d \in D : day[d].orders > 0
    BY FiguresHaveOrders
  <1>4. /\ IsFiniteSet(H) /\ H \subseteq Int
        /\ IsFiniteSet(D) /\ D \subseteq Int
    <2>1. Hours \subseteq Int /\ Days \subseteq Int
      BY DEF Hours, Days
    <2> QED
      BY <1>1, <2>1, DaysAreFinite, FS_Subset
  <1> HIDE DEF H, D, hour, day
  <1>5. FromBoth # {} => Peak(hour, H) # {}
    BY <1>2, <1>3, <1>4, PeakExists
  <1>6. Peak(hour, H) # {} => FromBoth # {}
    BY <1>2 DEF Peak
  <1>7. ASSUME FromBoth # {}
        PROVE  \E d \in Peak(day, D) : day[d].orders > 0
    <2>1. PICK c \in D : day[c].orders > 0
      BY <1>3, <1>7
    <2>2. PICK d \in D : d \in Peak(day, D) /\ \A e \in D : day[e].revenue <= day[d].revenue
      BY <1>2, <1>4, <2>1, PeakExists
    <2>3. day[c].revenue > 0 /\ day[c].revenue <= day[d].revenue /\ c \in Days /\ d \in Days
      BY <1>1, <1>2, <2>1, <2>2
    <2>4. day[d].revenue > 0
      BY <1>2, <2>3
    <2> QED
      BY <1>2, <2>2, <2>3, <2>4
  <1> QED
    BY <1>1, <1>5, <1>6, <1>7 DEF day

\* RoundHalfUpDiv's result, and when it is zero.
LEMMA HalvesRoundUp ==
  ASSUME NEW n \in Nat, NEW d \in Nat \ {0}
  PROVE  /\ RoundHalfUpDiv(n, d) \in Nat
         /\ RoundHalfUpDiv(n, d) = 0 => 2 * n < d
  <1> DEFINE m == 2 * n + d
             e == 2 * d
  <1>1. m \in Nat /\ e \in Nat \ {0} /\ RoundHalfUpDiv(n, d) = m \div e
    BY DEF RoundHalfUpDiv
  <1>2. m < e => 2 * n < d
    OBVIOUS
  <1> HIDE DEF m, e
  <1>3. m \div e \in Nat
    BY <1>1
  <1>4. m \div e = 0 => m < e
    BY <1>1
  <1> QED
    BY <1>1, <1>2, <1>3, <1>4

\* An average exactly if there are orders.
LEMMA AverageOfSales ==
  ASSUME ReportInv, Ordinary
  PROVE  AverageOrderValue = None <=> FromBoth = {}
  <1>1. /\ report.agg.orders \in Nat /\ report.agg.revenue \in Nat
        /\ report.agg.orders = 0 <=> FromBoth = {}
    BY FiguresHaveOrders, FinishedReports DEF Report, Aggregates
  <1>2. report.agg.orders # 0 =>
          RoundHalfUpDiv(report.agg.revenue, report.agg.orders) \in Nat
    BY <1>1, HalvesRoundUp
  <1> QED
    BY <1>1, <1>2, DashboardAssumption DEF AverageOrderValue

\* A rate of zero, or none at all, and what it may leave out by rounding.
LEMMA RatesHideLittle ==
  ASSUME ReportInv, Ordinary, CancellationRate \in {0, None}, report.who = None
  PROVE  20000 * Cardinality(CancelledInRange \cap report.known)
           <= report.agg.orders + report.agg.cancelled
  <1> DEFINE k == Cardinality(CancelledInRange \cap report.known)
             n == report.agg.orders
             c == report.agg.cancelled
  <1>1. n \in Nat /\ c \in Nat
    BY FinishedReports DEF Report, Aggregates
  <1>2. k \in Nat /\ k <= c
    <2>1. CancelledInRange \cap report.known \in SUBSET Orders
      BY DEF CancelledInRange, Cancelled
    <2>2. k \in Nat /\ Cardinality(CancelledInRange) \in Nat
      BY <2>1, OrdersAreFinite DEF CancelledInRange, Cancelled
    <2>3. c \in k .. Cardinality(CancelledInRange)
      BY CancellationsMatch
    <2> HIDE DEF k
    <2> QED
      BY <2>2, <2>3
  <1>3. n + c = 0 \/ RoundHalfUpDiv(10000 * c, n + c) \in {0, None}
    BY DEF CancellationRate
  <1> HIDE DEF k, n, c
  <1>4. ASSUME n + c = 0
        PROVE  20000 * k <= n + c
    BY <1>1, <1>2, <1>4
  <1>5. ASSUME n + c # 0
        PROVE  20000 * k <= n + c
    <2>1. n + c \in Nat \ {0} /\ 10000 * c \in Nat
      BY <1>1, <1>5
    <2>2. RoundHalfUpDiv(10000 * c, n + c) \in Nat
      BY <2>1, HalvesRoundUp
    <2>3. RoundHalfUpDiv(10000 * c, n + c) = 0
      BY <1>3, <1>5, <2>2, DashboardAssumption
    <2>4. 2 * (10000 * c) < n + c
      BY <2>1, <2>3, HalvesRoundUp
    <2> QED
      BY <1>1, <1>2, <2>4
  <1> QED
    BY <1>4, <1>5 DEF k, n, c

\* Dashboard.KpisAgree, D1, D2: getKpis answers with figures of one piece although
\* it reads the payments by shift after the report, whatever is paid in between:
\* the shifts come to the revenue or, by later payments, to more, and all the
\* figures there are, are of the same sales.
THEOREM KpisAlwaysAgree == AllSpec => []KpisAgree
  <1>1. AllInit => KpiInv
    BY DEF AllInit, DashboardInit, KpiInv
  <1>2. ReportInv /\ KpiInv /\ [AllNext]_allVars => KpiInv'
    BY KpiStep
  <1>3. ReportInv /\ KpiInv => KpisAgree
    <2> SUFFICES ASSUME ReportInv, KpiInv, Ordinary, kpis.place = "done"
                 PROVE  LET byShift == SumFunction(kpis.byShift)
                        IN /\ (\A o \in report.found :
                                 order[o].amount = Total(order[o].basket, report.rate)) =>
                                /\ report.agg.revenue <= byShift
                                /\ kpis.paid \subseteq report.known =>
                                     byShift = report.agg.revenue
                           /\ \A figure \in {Top(1), PeakHour} :
                                figure = {} <=> AverageOrderValue = None
                           /\ AverageOrderValue # None =>
                                \E d \in PeakDay : report.agg.byDay[d].orders > 0
                           /\ CancellationRate \in {0, None} =>
                                \/ report.who # None
                                \/ 20000 * Cardinality(CancelledInRange \cap report.known)
                                     <= report.agg.orders + report.agg.cancelled
      BY DEF KpisAgree
    <2>1. (\A o \in report.found : order[o].amount = Total(order[o].basket, report.rate)) =>
            /\ report.agg.revenue <= SumFunction(kpis.byShift)
            /\ kpis.paid \subseteq report.known =>
                 SumFunction(kpis.byShift) = report.agg.revenue
      BY ShiftsCoverReport
    <2>2. \A figure \in {Top(1), PeakHour} : figure = {} <=> AverageOrderValue = None
      BY BestSellers, PeaksAreOfSales, AverageOfSales
    <2>3. AverageOrderValue # None =>
            \E d \in PeakDay : report.agg.byDay[d].orders > 0
      BY PeaksAreOfSales, AverageOfSales
    <2>4. CancellationRate \in {0, None} =>
            \/ report.who # None
            \/ 20000 * Cardinality(CancelledInRange \cap report.known)
                 <= report.agg.orders + report.agg.cancelled
      BY RatesHideLittle
    <2> QED
      BY <2>1, <2>2, <2>3, <2>4
  <1> QED
    BY <1>1, <1>2, <1>3, ReportsStaySound, PTL DEF AllSpec
=============================================================================
