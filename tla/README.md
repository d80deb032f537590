# SmartTable: a TLA+ model of its server

SmartTable is a single-server restaurant system: a NestJS API over one SQLite
file (better-sqlite3, drizzle). Guests order by scanning a table's QR code,
staff move orders through the kitchen, a cashier settles a whole table visit
in one cash payment. This directory models the server's domain logic, checks
it with TLC on small instances and proves what matters most with TLAPS.

## The system's parts

| Part | State | Operations | Talks to |
| --- | --- | --- | --- |
| Orders (`modules/orders`) | `orders`, `order_items`, `order_status_events` | create (staff, QR, add-on), accept, advance, serve, cancel, list, SSE stream | opens and joins bill groups, seats tables, writes the cancelled counter, emits events |
| Billing (`modules/billing`) | `payments`, `shifts` | show a bill, record the payment, open and close a shift | completes orders, closes the bill group, dirties the table, writes rollups, emits events |
| Tables (`modules/tables`) | `tables`, `table_bill_groups` | create, remove, renew the QR token, mark cleaned | counts orders, audits renewals |
| Menu (`modules/menu`) | `categories`, `products` | create, update, remove, availability; the public menu behind a code | images, audit, orders |
| Rollups (`database/rollups.ts`) | `sales_rollup_daily`, `_hourly`, `product_sales_rollup` | add a completed order, count a cancellation | called inside the transactions of billing and orders |
| Configuration (`modules/config`) | `restaurant_profile` | update the profile and logo | bills read the tax rate |
| Setup wizard, image storage | the profile, the upload directory | complete the setup; store and unlink images | with configuration and menu, the only writers of files and of rows that point to them |
| Idempotency (`common/idempotency`) | `idempotency_keys` | interceptor around POST /orders, add-ons, public orders, payments | wraps the handlers |
| Events and realtime (`common/events`, `common/realtime`) | listeners, presence counters, socket rooms | emit after commit, route to rooms, connect, disconnect | every domain module emits |
| Notifications, audit (`modules/notifications`, `modules/audit`) | their tables | append, list by keyset, mark as read | listen to events; called by every handler after its commit |
| Invitations, auth, employees | `invitations`, `employees`, `refresh_tokens`, lockout counters in memory | issue, accept, revoke, re-issue; PIN and password login; guards | argon2, JWT |
| Analytics (`modules/analytics`) | none | KPIs, revenue and orders over time, top products, staff and kitchen figures | reads rollups, orders, events, payments |
| Backup (`modules/backup`) | `backup_history`, the backup directory, a promise chain | create a snapshot, verify, record, list | signals failures |

What is hard: handlers interleave at every `await` between a read and the
write that relies on it; the server can restart between two statements;
the work after a commit (audit rows, events) can fail or come late; clients
retry. Each such place is listed under `hazards` in `PROJECT.json`, at its line.

What makes each part correct:

* orders: an order moves along the lifecycle only, and its status events tell how; a
  table has one open visit, and no order is live in a visit that was paid;
* billing: a visit is closed by one payment of exactly what it ordered, at the
  prices quoted; a shift's total is what was collected in it;
* tables: occupied exactly while a visit is open, and never left without a way on;
  every code that a table has lost is on record;
* menu: a page shows what can be ordered, and it is sold at the price shown;
* rollups and analytics: days that were rolled up say what live figures would, and
  the parts of one answer agree with one another;
* idempotency: one execution per key, and its answer for every retry;
* events and realtime: no status is lost between a snapshot and its stream, nobody
  is listed online without a connection, screens learn of final statuses;
* notifications and lists: every role an event is for gets its row, and a list that is
  paged through while it changes is complete;
* images: a row points to a file that is there; a replaced file goes;
* backup: a recorded success can be restored, a failure is on record and leaves no
  file, the queue goes on;
* invitations, auth, employees: an invitation is used once, or by as many as hold it at
  once, guesses are limited, locks end, and nobody acts by a role they had before or
  while they are blocked.

### What a step is

better-sqlite3 runs a statement, or the callback of `db.transaction`, without
yielding, so either is one atomic step. Everything else a handler does between
two awaits of a repository call is merged with the statement before it.
Repositories are asynchronous interfaces and the code itself reckons with other
handlers running between a read and the write that follows
(`orders.repository.ts:52`, `:152`, `orders.service.ts:399`), so every such
await is an interleaving point of the model. With today's driver many of those
awaits resume on the microtask queue without letting the event loop turn; the
window is then only open to requests that were already being handled, and is
wide open where a handler awaits something that really takes time (password
hashing, files, timers). A model that closed these windows would prove less than
the code's own comments promise.

## Modules

Each component has a module of its own; modules whose components share rows, or
whose states a reader sees side by side, are composed.

| Module | Models |
| --- | --- |
| `OrderLifecycle` | The order's statuses and `TRANSITION_RULES` as data: from where, to where, by whom. Used by the floor and by the event streams. |
| `FloorState` | The rows of one restaurant floor as functions over ids, and `req`, the slots of handlers suspended at an await: what a handler has read is kept in its slot, and `Crash` (a server restart) loses the slots and nothing else. |
| `OrderHandlers` | `orders.service.ts` / `orders.repository.ts`. A transition is `BeginTransition` (read, judge) and then `CommitTransition` (compare-and-set on the status judged, status event, cancelled counter) or `LoseTransition` (409). A creation is `BeginCreate` / `BeginAddon` and then `OpenVisit`, `JoinVisit`, `CommitAddon` or `RefuseOrder`. |
| `BillingHandlers` | `billing.repository.ts`, `billing-math.ts`, the daily rollup, `shifts.service.ts`. A payment, a shift opening and a shift closing decide on what they read inside their own transaction and are one action each. |
| `TableHandlers` | The read-then-write handlers `removeTable` and `markCleaned`. |
| `Floor` | Their composition, with the tax rate that the owner may change, and all the floor's properties. |
| `GuestVisit` | The abstract specification: a party is seated at a free table, its tab grows, one payment freezes the tab, the table is cleaned. `Floor` implements it under the mapping `GV`. |
| `Idempotency` | `idempotency.interceptor.ts` around an endpoint: every awaited call of a request (`LookUp`, `InsertMarker`, `FetchMarker`, `Execute`, `StoreResponse`, `ReleaseKey`, `Poll`), the unique index, the failures named by `Faults`, a restart. The endpoint's handler is a commit or a refusal. |
| `OrderEvents` | One order's `order_status_events` (`trail`), the handlers between a commit, its audit rows and its events, and the customer's SSE stream: existence check, subscription, snapshot read, snapshot delivery. |
| `FrontDoor` | Categories and products of `menu.service.ts`, tables and codes of `tables.service.ts`, the public menu that is put together from two reads, and the public order that is judged by a third rule. An update is its check and then its write; a renewal reads, writes and audits. |
| `GuestScreens` | `OrderEvents` and `FrontDoor`: all that a guest's page gets to see. |
| `Presence` | `presence-registry.ts` and the connection hooks of `staff-realtime.gateway.ts`, with drops at any moment of a handshake. |
| `Notifications` | `staff-event-router.ts`, the rooms joined in the handshake, the rows of `notifications.listener.ts` and their emissions, and a screen that pages through `GET /notifications` and marks rows as read. The assumption `EachRoleIsToldOnce`, which TLC evaluates, is a check of the routing table: rooms overlap, and no role is told of an event twice. |
| `StaffLists` | The keyset pages of `GET /orders`, under a status filter that rows leave, and of `GET /audit-log`, between two times. |
| `StaffScreens` | `Presence`, `Notifications` and `StaffLists` with a restart. |
| `StaffState`, `Onboarding`, `SignIn`, `Staff` | Employees, invitations and devices; `invitations.service.ts` and hiring; PIN and password login, renewal, lockout; and, in `Staff`, the two guards, changes of role, token and lock expiry. |
| `StoredImages` | `setup-wizard.service`, `restaurant-config.service`, `menu.service` and `image-storage.service`: each handler has its awaited calls in an order (`Course`) and still has to make those its request comes to (`Comes`), the first of them next. |
| `SalesReports` | `database/rollups.ts` in full and the aggregation of `analytics.service.ts`: what the payment and the cancellation write for a day and an hour, and a report that reads rollups, events, tax rate and cancellations one after the other. |
| `Dashboard` | What is derived from a report or next to it: `getKpis` with revenue by shift read later than the totals, and preparation and serving times from pairs of status events. |
| `Backup` | `backup.service.ts`: the promise chain, the name by the second, `VACUUM INTO`, verification, history row, removal, failure signal. |
| `...Proofs`, `SumLemmas` | Inductive invariants and proofs about the module of that name and what it is composed of; `GuestScreensProofs` also has `Idempotency`'s, `SalesProofs` those of `SalesReports` and `Dashboard`. `SumLemmas` is about sums. |
| `MC...` | The instances for TLC: symmetry sets, foci, assumptions. |

Abstractions: ids are model values; an order's items are the sum of their
snapshots (in `SalesReports`, a set of products at one price); text columns and
response bodies are left out. `Floor` lets an order be refused at any time for a
product that is not sold; which products are is `FrontDoor`'s. The bill a screen shows
(`ShownTotal`) is one step where `getBill` has four awaits, so `QuotedIsCharged` is about
bills no write falls into, just before and just after a payment. An audit row is left
out of `Floor`, where it can only end the handler after its commit, and is a step
that may fail in `OrderEvents`, `Idempotency`, `FrontDoor`, `StoredImages` and
`Backup`. The table status `bill_requested` is never written by the code
(`docs/bill-requested-status-gap.md`) and is left out. Where a handler that reads
rows fails (404, 409, 403) without writing, the model has no step, or the step only
empties the slot. An uploaded image is named by the request that stored it, as its
real name is a fresh UUID; a QR token is likewise never drawn twice. argon2 may
find a secret right or wrong; an access token is the identity and the role it was
signed with. The clock of `Backup` runs in a circle, because local time may
repeat itself; that of `SalesReports` runs on. The staff's screens are not part
of the repository: `Notifications` takes them to do what ruling D4 asks, to fetch
after they have joined and to add what they are told from then on.

## Runs

| Run | Question | Bounds |
| --- | --- | --- |
| `floor_visits` | Do visits and order lifecycles survive two handlers in flight, payments and restarts? | one table, two visits (so a table is reused), three orders (main, add-on, first of the next visit), two slots, a manager and a waiter |
| `floor_seating` | Does the table status follow the visits, does every visit have a way on, and is what happens a guest visit? | two tables, two visits, two orders of amount 0 or 10, two slots; `SerialSpec` |
| `floor_money` | Do rollup, payments, shown bills and drawers agree? | subtotals 3 and 8 at 0 % or 19 %, changing at any time: their taxes round down and up, and their sum rounds otherwise; two cashiers, three shifts; one slot, since the money is only touched in transactions |
| `floor_double_clean` | expected violation | three slots, two visits |
| `idempotency_races` | Is an operation repeated only after a failure, are answers true, does every request end and every marker go? | three requests, one key, two bodies, every fault |
| `idempotency_twice` | expected violation | the same without failures of the store |
| `guest_pages` | Does an open stream get every announced status and the last one? Was all that a menu page shows, charges or refuses so while it was open? Is each lost code on record? | three handlers and one stream (streams do not interact), the audits of create and accept may fail; one product, two categories, two prices, one guest, one edit at a time that names one field (categories and products go meanwhile); two tables, four codes, two requests that renew them |
| `staff_screens` | Do registry, connections and the owner's page agree? Does every role get its row, and is a list complete that is paged through while it changes? | two employees and three sockets, so one has two; six events, three rows, four orders and four audit entries on two milliseconds, a page holds one row |
| `staff_rules` | How many does an invitation let in, how many stay live, are guesses limited, do locks end, does nobody act by an old role or while blocked? | two employees, one of them senior, two roles, two keys of the permission baseline, three invitations, two devices, two requests; two failures lock for one and then two minutes |
| `images_edits` | Do rows keep their images, and do files, audit log and screens follow the rows? | three requests on the profile and one product, two amounts; audits that fail |
| `reports_hybrid` | Does a report show the orders of its range, once each? Do the parts of the owner's figures agree? | two orders, two products, two days of two hours, a tax rate that rises once, any range up to today |
| `backup_queue` | Are recorded backups restorable, failures recorded, the queue never stuck? | two requests, three seconds that may come round again, every awaited call failing |

Two handlers in flight are enough to make any one of them stale; a third is there
where a failure needs one more actor (a second cleaner and a new guest; a third
edit of an image that two others replaced; a third request that waits for a twin
whose key is freed). Ids are never reused, so the ids bound how long a run may
be: when they run out nothing new begins. `MaxPolls` is 2 where the code has
more; a poller only repeats itself. Three days or more add nothing to
`SalesReports`, which only tells past days from today, and two milliseconds
suffice for rows that share one and rows that do not. No counter is unbounded:
`GuessBound` caps the count of wrong attempts one beyond what its property allows.

### Foci

Four instances restrict a behaviour to one `focus`, chosen in its initial
state; the run covers every focus. They compose parts that are placed side by side and share little, and
the focus spares TLC the product of the parts' states:

* `MCGuestScreens`: streams, the menu, or tables and codes. Streams read and write
  nothing of `FrontDoor`. A table matters to the menu only by whether it is there.
* `MCStaffScreens`: connections; one screen that pages through rows that arrive;
  two screens that read one row; listener calls that fail; the list of orders;
  the audit log. Connections and screens share only who is connected.
* `MCStaff`: onboarding, sign-in, or the guards. Each focus keeps every handler
  that writes what its own properties read. The proofs about `Staff` are of
  `Spec`, which has no focus.
* `MCDashboard`: sales or the kitchen. A behaviour ends with the answer, which
  nothing later can change, and reports the properties except are not pursued.

Deadlock is checked in the floor runs. In the others the system may really stop:
all requests have ended, or the report is answered.

### Fairness

`Spec` is used wherever only safety is checked. Liveness is checked under
specifications that say no more than that the event loop and the clock go on:

* `Idempotency`, `OrderEvents`, `Presence`, `Notifications`: weak fairness of each
  step that continues a call already begun (Node resumes a settled await). Nobody
  need send a request, cook, open a page or connect; a restart need not happen,
  and a request lost in one counts as ended.
* `Staff`: weak fairness of `Minute`, the clock by which locks run out.
* `Backup`: weak fairness of the clock and of a run's steps, and strong fairness
  of `ChooseName`: a run that waits for a name wakes after every boundary of a
  second and looks, so a name that is free again and again is found. `MCBackup`
  assumes as many seconds as requests, so one always comes round free.

### What the runs show

The two violations are real disagreements between the source and its own
comments:

* `markCleaned` writes `available` whatever the status has become since it was
  read. Of two concurrent requests the second frees a table that new guests
  occupy, and the strict compare-and-set of their payment then throws for ever.
  `SerialSpec` is the same system without two clean requests in flight for one
  table; `OccupiedIffVisited`, `OpenVisitsGoOn` and the refinement hold
  of it and fail without it.
* The interceptor treats an error after the handler's commit like any other: it
  frees the key, and a retry executes the operation again. `AtMostOnce` holds
  when nothing fails between the commit and the stored response
  (`CommitIsLast`), and is proved under it; `TwiceOnlyAfterFailure` says that
  nothing else repeats an operation.

Other divergences met while modelling are kept as notes on their hazards in
`PROJECT.json`, because a property states the good case and excepts them:

* `removeTable` counts live orders and deactivates later; an order can be created
  in between.
* A visit whose orders were all cancelled, or are all free of charge, can be neither paid nor
  cleaned. `OpenVisitsGoOn` excepts these two and shows that there is no third.
* `getBill` recomputes a paid visit's bill at the present tax rate.
* An audit row of a cancellation or a payment that cannot be written takes the
  event with it, and an open customer page never learns the final status.
* After a restart a pending marker stays for ever; its key answers "in progress".
* A setup whose audit row fails after the commit deletes the logo of the profile
  it has just created (`NoDanglingImages` excepts exactly that).
* Two edits of one product at once may leave a file nothing points to, and a
  price change unaudited, as both compare with a row that was read before.
* An invitation in the hands of two requests at once is accepted twice, or after
  it was revoked, because hashing stands between check and transaction. Two
  re-issues at once leave two live invitations. `InvitationsAreSpentOnce` and
  `LiveInvitationIsLatest` bound both by how many were there at once (`together`,
  `issuers`) and show that it ends there: whoever comes later finds the link shut.
* A product that is written between a page's two reads into a category that came or
  went between them too may be missing from the page although it was on the menu all
  along, or on it although it never was. `MenusKeepTheirWord` leaves out this case only.
* The limit of wrong PINs is exceeded by the attempts in flight together.
* A demoted employee's open socket keeps the rooms of the former role.
* Two renewals of one table's code at once take the same code for the one
  replaced: it is then the old value of two rows, and the code in between of none.
  `CodesAreAccountedFor` shows that a row names each lost code all the same, unless
  its audit failed. An order is accepted whose code was renewed after its lookup.
* A report of a range that lies in the future shows today's sales; one that
  midnight overtakes loses a day; a payment or cancellation that midnight splits
  is counted on one day by the rollup and on the next by the live figures; today
  is computed again at the present tax rate (`Ordinary` and `Reports` name these).
  The peak day may be one without revenue.

## Proofs

`SumLemmas` is about the sums themselves. `SumFunctionOnSet` is defined by a
recursive function that takes the terms in the order `CHOOSE` gives. A sum is unfolded from the
existence and the uniqueness of that function on all smaller subsets
(`SubsetInduction`: the strict subsets of a finite set are well founded, so a least
counterexample exists; the set of subsets it speaks of is a set and no operator, which
the provers can instantiate). From there: any term may be taken first (`SumTakesAny`),
one that changes changes the sum by the difference, sums add up term by term, a sum of
naturals covers each of its terms, and a sum may be taken part by part
(`SumOfParts`) or under other names (`SumRenamed`), which is what regroups sales by
day, hour, product and shift.

For any sets of tables, visits, orders, handlers, employees, requests, keys, bodies,
sockets, products, images, codes, streams, guests, invitations and devices, any
price and tax rates, and any number of days and hours. The assumptions on constants
are `NoneAssumption`, `FiniteAssumption` and `MoneyAssumption` of `FloorState`,
`NullAssumption` and `PollAssumption` of `Idempotency`, `NobodyAssumption` of
`Presence`, `NotificationAssumption` and `RowAssumption` of `Notifications`,
`ListAssumption` and `OrderRowAssumption` of `StaffLists`, `BackupAssumption` of
`Backup`, `NothingAssumption` of `FrontDoor`, `ImageAssumption` and `SlotAssumption`
of `StoredImages`, `SalesAssumption` and `FiniteAssumption` of `SalesReports`,
`DashboardAssumption` of `Dashboard`, `StaffAssumption`, `LockoutAssumption` and
`RowAssumption` of `StaffState`: that the value that stands for NULL is nobody's id,
that amounts are naturals, that ids of visits, orders and products and the employees
of a shift are finitely many, that a price is positive, that the clock has at least
one second, that the requests in flight are finitely many, that ids are not row
values.

`FloorProofs`:

* `VisitInvariant`: `Spec => []VisitInv`. `OneOpenVisitPerTable` and
  `LiveOrdersAreInOpenVisits` are not inductive: an add-on in flight carries a
  group and a table read long ago, and a transition in flight a status. `VisitInv`
  adds the row types, that a group has a table from its insert on (`VisitRows`),
  that an order's denormalized table is its group's (`OrderRows`) and what may
  still be believed of a suspended handler's memory (`SlotRows`). One lemma per
  writing action, one for all that read and suspend, one for all that give up.
* `NeverTwoOpenVisits`, `NothingLiveInClosedVisits` follow from it;
  `OrdersFollowLifecycle` is an action property from the same invariant;
  `VisitsCloseByPayment` adds that completed orders stay completed.
* `OccupiedExactlyWhileVisited` and `FloorImplementsGuestVisit` are about
  `SerialSpec`. The strengthening is `CleanSlots`: a clean request in flight was
  read off a table that is still dirty. Initial states map to initial states;
  `OpenVisit` maps to `Seat`, joining to `AddToTab`, a payment to `Settle`, a
  cleaning to `Clean`, everything else to a stutter.
* `ChargedAsQuoted`: only a payment takes orders past served, and it closes their
  visit (`SettledInv`), so the orders GET sums are those the transaction sums, before
  and after it. `DrawersReconcile`: payments are linked to opened drawers only
  (`DrawerInv`) and a new one never to a closed drawer. Neither needs to know what a
  sum comes to, only that equal terms have equal sums.
* `RollupAlwaysReconciles`: a payment adds its amount to one row of payments that was
  empty and to the rollup (`SumChanges`); that both are the same amount is that a sum
  of totals is the sum of the subtotals plus the sum of the taxes, each rounded by
  order (`BillAmounts`). The orders it completes were served, the order a
  transition cancels was neither completed nor cancelled (`CountGrows`). `FloorTypes`
  needs the sums to be naturals, `VisitsAlwaysGoOn` that a bill is no less than any of
  its orders.
* `EventsStayChained`: each write of a status appends an event that starts with the
  status it found (`Chained`). `WaitersCancelInTime`: a waiter's cancellation in flight
  was judged on pending, and the log of an order that is still pending is its
  insert (`HistoryInv`).
* `OneMainOrderEver`: an insert finds `is_addon` in the transaction that opens or
  joins the visit.

`StaffScreensProofs`:

* `PresenceStaysTrue`: the two maps agree (`MapsAgree`) and a socket that is
  registered has come through its handshake (`RegisteredAreDone`); without the
  latter a drop during the handshake could leave an entry behind. The action property
  `EventsAreTransitions` follows from the same invariant.
* `ListsAreAlwaysComplete`: rows are counted from the newest on, so each has a rank of
  its own (`EachRowHasItsRank`) and a page is the newest of what is left
  (`PageIsNewest`). So far a list has been given, once each and newest first, all that
  is due but for what comes after its cursor (`PagedSoFar`); rows that arrive or move
  on between two pages keep that (`PagedStaysPaged`). A screen of notifications is also
  told of rows between its pages: what has been announced is shown or further down its
  list (`ScreensFollow`), a call holds a row back only until it announces it
  (`CallRows`), and a screen opens only once its connection has joined its room
  (`ScreenRows`).
* `PresenceSurvivesRestarts`: a restart empties the rooms and the registry together.

`BackupProofs`:

* the queue holds the runs that are not settled, each once, and
  all behind its head are still waiting (`QueueRows`), so one run at a time is near
  the files (`OneInTurn`); no success names the file a run under way has named, and
  a run that goes on after a failure has removed its file or could not
  (`FileRows`); a request with a row has come past the step that writes it
  (`HistoryRows`). One lemma per action. `SuccessesStayRestorable`,
  `StraysAreAccountedFor` and `OutcomesStayRecorded` follow, whatever fails, with
  restarts anywhere and a clock that may repeat a second.

`GuestScreensProofs`:

* `MenusAlwaysKeepTheirWord`: until a page has ordered, each moment is one at which
  its products are seen (`UpToDate`). Between its two reads, a category that neither
  came nor went is among those read just if it is active, and what the second read
  would show of a product nobody wrote was to be seen when the first was made
  (`HalfRead`): its row is still the same, and the page goes by the categories of the
  first read. A product written in between into a category that stayed is shown as
  it is now. What an owner's step does to any page is one lemma (`NotedStep`).
* `CodesStayAccountedFor`: the rows to go by are those written, lost and about to be
  written (`Told`). However renewals interleave, a table has one code until the first
  row names both that and the second, and every later code is the new value of its
  own row (`CodesAreNamed`). Renewed by one request at a time, the renewal knows the
  code it is about to replace (`RenewalsAreFresh`), so the present code was replaced
  by none of the rows and every lost one by one (`Ledger`). `DoorTypes` is the type
  invariant of both halves.
* `NothingEverSlipsThrough`: an order's statuses only rise in rank (`TrailRises`), an
  event tells of a status committed before (`EventsFollowRows`), and a stream has
  been sent every status announced that outranks its snapshot (`StreamsFollow`):
  what was announced before it listened was committed before its read, so the
  snapshot is as far or further. `GuestSideIsBoth`: the two halves share no
  variable, so each theorem holds of the guest's side as a whole.
* The interceptor: `OneHandlerPerKey`, whoever is past its insert owns its key's marker
  (`MarkerInv`). `NothingButTruthAnswered`: a memo is the response of an operation that
  committed for that key and body (`MemoInv`), a replayed answer was once such a memo
  (`AnswerInv`), and a body that a request was refused for belongs to a request.
  `RepeatsAreFailures`: an operation that committed is still owned by its marker or
  memo unless something failed after the commit. `NeverExecutedTwice` is
  `CommitIsLast /\ KeySpec => []AtMostOnce`.

`StoredImagesProofs`:

* `ImagesNeverDangle`: a file is stored and named by one request, once, so one that
  another has replaced is never named again (`FilesAreNamedOnce`); an id that is about
  to be created is known to one request (`IdsAreFresh`); what is about to be released
  is named by no row, what is about to be named is on disk (`ReleasedIsReplaced`).
* `LeftoversAreAlwaysExplained`: while a row has one request at a time, it still reads
  as the request found it until that writes, and as it wrote it from then on
  (`RowsAreHeld`), so the file released is the file that was replaced.
* `AmountsAreAlwaysAudited`, `ScreensAlwaysShowRows`: an edit that has written carries
  what the row holds (`BooksAreHeld`); whether it audits or emits was judged on what it
  had read, which by `RowsAreHeld` is what the row held at the write. Ahead of the
  property at rest, `AuditInv` and `NewsInv` say that the books of a row are right
  unless a request that is to write them is past its write.

`SalesProofs`, about `AllSpec`, the reports with everything derived from them:

* The rollup tables are tallies of the orders' own rows (`Tallies`): a row of a day,
  of an hour or of a product is the sum over the orders whose stamp falls there.
  `RowsAreDue` says that no stamp is ahead of the clock, so that a day before today
  gets nothing more, and the tallies a report reads stay what they were.
* `ReportsStaySound` is the inductive invariant: at each of its awaits a report is the
  sum of the orders in its rollups and of those it found on its own (`FiguresAddUp`),
  its cancellations likewise (`LossesAddUp`), and both have what was settled when it was
  asked for (`FoundWhatItKnows`). It needs neither `Ordinary` nor an even tax rate.
  `SalesTypes` follows.
* `ReportsAlwaysMatchFacts`: without a midnight in between, the two parts have no order
  in common (`PartsAreDisjoint`) and are together what the property asks for.
* `ChartsAlwaysAddUp`: days, and hours, part the orders of a report, and what it has of
  days outside its range is nothing.
* `TimesAreAlwaysWhole`: events of an order come one by one and in order
  (`EventsAreOneByOne`), so the minimum the code takes is the time of the one event,
  no span is negative, and what was true of events read stays so.
* `KpisAlwaysAgree`: the shifts part the payments of the window, which contain the
  report's (`ShiftsCoverReport`); a sale brings in something, so that days, hours and
  products have money exactly if they have orders (`TakingsGoTogether`), and what
  finitely many entries have of the most exists (`PeakExists`).

`StaffProofs`:

* `StaffTypes` rests on a strengthening (`StaffRows`) by which a request in flight
  names rows that exist (`Grounded`) and an invitation somebody hired (`IssuedToHired`).
* `NobodyEverActsBeyondTheirRole`: a request past its guard has the role it was
  given among the roles its employee's row had, active, since then (`RightsInv`).
* `GuessesAreAlwaysLimited`: while an account is open its counter has seen every
  wrong PIN, and once it is locked each one to come is in flight already
  (`GuessInv`).
* `RevocationAlwaysSticks`: an action property; no renewal in flight undoes the
  revocation of a device.
* `InvitationsAreAlwaysSpentOnce`: those a link has let in and those about to be let
  in are together no more than have had it in hand at once (`LetInCounted`). This
  survives the next one to take it in hand because whoever does finds it usable, and
  a usable link has let in nobody (`ShutAfterUse`), so that all who are about to be let
  in have it in hand at that moment (`HandsCounted`). What only one has in hand is
  still as it was found (`OneByOne`). `SpentInv` is the four of them.
* `LiveInvitationIsAlwaysLatest`: a request that issues revokes what it read, one by
  one, and then inserts, so what it has not read and its own are left. The argument is
  about groups (`OneHasSeen`): of any requests that have read and are still to insert,
  one has missed so few of the pending invitations that these and the group are no
  more than the most that were ever issuing at once. The one that read last will
  do, and when one inserts, the group without it and the one with it each keep theirs.
  `LiveInv` adds that the newest is the pending one where requests came one at a time.

Only model-checked:

* liveness (`EveryRequestEnds` twice, `MarkersResolve`, `FinalStatusReachesScreens`,
  `ConnectedGetListed`, `RecipientsGetRows`, `LockoutsEnd`): out of the prover's
  reach under fairness. Every invariant that a passing run checks is proved.

Two formulas turned out false when they were to be proved for all constants. A
cancellation rate of zero was said to mean that nothing was cancelled: in four digits a
single cancellation among 20,000 orders rounds to zero, and `KpisAgree` now says just
that much. And nothing kept the model's value for NULL from being a number, which
`DashboardAssumption` excludes.

## Not modelled

Left out because they keep no state of the domain: HTTP routing, DTO validation,
exception formatting, the client version guard, throttling, logging, health checks,
migrations, swagger, listing products by offset. Left out because they are
libraries: JWT, argon2, image re-encoding, backup encryption, calendar arithmetic.
Left out because no property tells the difference: halls and table labels, the
counts of active tables and their turnover, the audit log's filters by actor and
entity, audit rows of employees and sessions. Notifications addressed to a single
employee have columns and a room but nothing writes one. The clients are not part of the repository; where a property needs one, it
is the page that the API's contract describes.

What is left for later: a table's removal against orders of a paging screen, the
midnight hazard of `analytics.service.ts:339` with a property of its own, and proofs
about the steps of reports that are not ordinary.
