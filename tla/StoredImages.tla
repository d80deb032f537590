---------------------------- MODULE StoredImages ----------------------------
(***************************************************************************)
(* The rows an owner edits while the restaurant runs, the profile and the  *)
(* products, with the image file each may point to: setup-wizard.service,  *)
(* restaurant-config.service, menu.service and image-storage.service.      *)
(*                                                                         *)
(* A handler reads its row, stores the uploaded file, writes the row,      *)
(* appends its audit row, emits its event and unlinks the file it          *)
(* replaced, each behind an await of its own and in an order of its own.   *)
(* Each request is an element of Requests, runs once, and stores at most   *)
(* one file (its name is a fresh UUID): the file is named by the request.  *)
(***************************************************************************)
EXTENDS Naturals, Functions

CONSTANTS
  Profile,        \* the one row of restaurant_profile
  Products,       \* ids of products
  Requests,
  Amounts,        \* prices of products, tax rates of the profile
  FailingAudits,  \* operations whose audit append may fail
  None

Rows  == Products \cup {Profile}
Files == Requests \cup Rows  \* a row names the file it had from the start

Operations == {"setup", "config", "create", "update", "remove"}

ASSUME ImageAssumption ==
  /\ Profile \notin Products
  /\ Requests \cap Rows = {} /\ None \notin Files
  /\ FailingAudits \subseteq Operations

VARIABLES
  life,      \* whether a row is there
  row,       \* what it holds
  logged,    \* the amount by its last audit row
  told,      \* what the screens were last told of it
  disk,      \* the upload directory
  req,       \* requests: what they were sent, what they read, what is to do
  contended  \* history: rows that had two requests in flight

vars == <<life, row, logged, told, disk, req, contended>>

rowVars == <<life, row>>
outVars == <<logged, told>>

Row == [image: Files \cup {None}, amount: Amounts, available: BOOLEAN]

Fields(h) == IF h = Profile THEN {"image", "amount"} ELSE {"image", "amount", "available"}

Places == {"store", "write", "audit", "emit", "release", "cleanup", "compensate"}
Dead   == {"failed", "lost"}

\* A request in its handler: what was sent (fields, amount, available) and
\* read (seen), and the awaited calls that remain.
Handler ==
  [op: Operations, target: Rows, fields: SUBSET {"image", "amount", "available"},
   amount: Amounts, available: BOOLEAN, seen: Row,
   todo: (SUBSET Places) \ {{}}, end: {"running"}]

\* One that has ended; of a dead one, with the image it had read.
Past ==
  [op: Operations, target: Rows, image: Files \cup {None},
   end: {"done", "refused"} \cup Dead]

ASSUME SlotAssumption == None \notin Handler \cup Past

Sent(r)    == req[r] # None
Running(r) == Sent(r) /\ req[r].end = "running"
Died(r)    == Sent(r) /\ req[r].end \in Dead

Ended(h, end) ==
  [op |-> h.op, target |-> h.target, end |-> end,
   image |-> IF end \in Dead THEN h.seen.image ELSE None]

RowTypes ==
  /\ life \in [Rows -> {"absent", "present", "removed"}]
  /\ row \in [Rows -> Row]
  /\ logged \in [Rows -> Amounts]
  /\ DOMAIN told = Rows
  /\ told[Profile] \in Amounts /\ \A p \in Products : told[p] \in BOOLEAN
  /\ disk \subseteq Files
  /\ contended \subseteq Rows

SlotTypes == req \in [Requests -> Handler \cup Past \cup {None}]

TypeOK == RowTypes /\ SlotTypes

\* What the screens show of a row: the menu hides a product that is not
\* available, prices are shown with the profile's tax rate.
Public(h, content) == IF h = Profile THEN content.amount ELSE content.available

\* A fresh installation, or a restaurant in operation.
Init ==
  /\ life \in [Rows -> {"absent", "present"}]
  /\ life[Profile] = "absent" => \A p \in Products : life[p] = "absent"
  /\ \E base \in Amounts :
       row = [h \in Rows |->
                [image |-> IF life[h] = "present" THEN h ELSE None,
                 amount |-> base, available |-> TRUE]]
  /\ logged = [h \in Rows |-> row[h].amount]
  /\ told = [h \in Rows |-> Public(h, row[h])]
  /\ disk = {h \in Rows : life[h] = "present"}
  /\ req = [r \in Requests |-> None]
  /\ contended = {}

-----------------------------------------------------------------------------
(***************************************************************************)
(* A request begins.                                                       *)
(***************************************************************************)
\* Mutation: the old logo is released before the row names the new one.
CourseReleasingFirst(op) ==
  CASE op = "setup"  -> <<"store", "write", "audit">>
    [] op = "config" -> <<"store", "release", "write", "audit", "emit">>
    [] op = "create" -> <<"store", "write">>
    [] op = "update" -> <<"store", "write", "audit", "emit", "release">>
    [] op = "remove" -> <<"write", "release">>

\* The awaited calls of each handler, in its order.
Course(op) ==
  CASE op = "setup"  -> <<"store", "write", "audit">>
    [] op = "config" -> <<"store", "write", "release", "audit", "emit">>
    [] op = "create" -> <<"store", "write">>
    [] op = "update" -> <<"store", "write", "audit", "emit", "release">>
    [] op = "remove" -> <<"write", "release">>

Precedes(op, p, q) ==
  LET calls == Course(op)
  IN \E j \in DOMAIN calls : calls[j] = q /\ \E i \in 1 .. j - 1 : calls[i] = p

\* Mutation: a removed product keeps its image.
ComesNotOnRemoval(p, op, fields, amount, available, seen) ==
  CASE p = "store"   -> "image" \in fields
    [] p = "write"   -> TRUE
    [] p = "release" -> "image" \in fields /\ seen.image # None
    [] p = "audit"   -> op = "update" => "amount" \in fields /\ amount # seen.amount
    [] p = "emit"    -> op = "update" => "available" \in fields /\ available # seen.available

\* Which of them this request comes to: compared with the row it has read.
Comes(p, op, fields, amount, available, seen) ==
  CASE p = "store"   -> "image" \in fields
    [] p = "write"   -> TRUE
    [] p = "release" -> ("image" \in fields \/ op = "remove") /\ seen.image # None
    [] p = "audit"   -> op = "update" => "amount" \in fields /\ amount # seen.amount
    [] p = "emit"    -> op = "update" => "available" \in fields /\ available # seen.available

\* D3: the config service drops what restates the row it has read.
Effective(op, fields, amount, seen) ==
  IF op = "config" /\ amount = seen.amount THEN fields \ {"amount"} ELSE fields

InFlightOn(h) == {r \in Requests : Running(r) /\ req[r].target = h}

Begin(r, op, h, fields, amount, available) ==
  LET changes == Effective(op, fields, amount, row[h])
      handler == [op |-> op, target |-> h, fields |-> changes, amount |-> amount,
                  available |-> available, seen |-> row[h], end |-> "running",
                  todo |-> {p \in Range(Course(op)) :
                              Comes(p, op, changes, amount, available, row[h])}]
  IN /\ IF op = "config" /\ changes = {}
          THEN req' = [req EXCEPT ![r] = Ended(handler, "done")] /\ UNCHANGED contended
          ELSE /\ req' = [req EXCEPT ![r] = handler]
               /\ contended' = contended \cup {g \in {h} : InFlightOn(g) # {}}
     /\ UNCHANGED <<rowVars, outVars, disk>>

\* POST /setup/complete reads nothing; the tax rate is the column's default.
BeginSetup(r) ==
  \E fields \in SUBSET {"image"} :
    Begin(r, "setup", Profile, fields, row[Profile].amount, TRUE)

\* A PATCH with at least one field; 404 without the row.
BeginEdit(r) ==
  \E h \in Rows : \E fields \in SUBSET Fields(h) \ {{}}, a \in Amounts, b \in BOOLEAN :
    /\ life[h] = "present"
    /\ "amount" \notin fields => a = row[h].amount
    /\ "available" \notin fields => b = row[h].available
    /\ Begin(r, IF h = Profile THEN "config" ELSE "update", h, fields, a, b)

\* The new product's id is fresh.
BeginCreate(r) ==
  \E h \in Products, fields \in SUBSET {"image"}, a \in Amounts :
    /\ life[h] = "absent" /\ \A s \in Requests : Sent(s) => req[s].target # h
    /\ Begin(r, "create", h, fields, a, TRUE)

BeginRemove(r) ==
  \E h \in Products :
    life[h] = "present" /\ Begin(r, "remove", h, {}, row[h].amount, row[h].available)

-----------------------------------------------------------------------------
(***************************************************************************)
(* A request goes on: one awaited call at a time.                          *)
(***************************************************************************)
At(r, p) ==
  /\ Running(r) /\ p \in req[r].todo
  /\ \A q \in req[r].todo : ~Precedes(req[r].op, q, p)

Become(r, h, todo, end) ==
  req' = [req EXCEPT ![r] = IF todo = {} THEN Ended(h, end) ELSE [h EXCEPT !.todo = todo]]

Left(r, todo, end) == Become(r, req[r], todo, end)

Proceed(r, p) == Left(r, req[r].todo \ {p}, "done")

\* validateAndStore: the re-encoded file is written, or the upload refused.
Store(r) ==
  /\ At(r, "store")
  /\ \/ disk' = disk \cup {r} /\ Proceed(r, "store")
     \/ Left(r, {}, "refused") /\ UNCHANGED disk
  /\ UNCHANGED <<rowVars, outVars, contended>>

\* The file a new row points to.
Stored(r) == IF "image" \in req[r].fields THEN r ELSE None

\* The row after the UPDATE of the columns that were sent.
Patched(r, content) ==
  [content EXCEPT
     !.image     = IF "image" \in req[r].fields THEN r ELSE @,
     !.amount    = IF "amount" \in req[r].fields THEN req[r].amount ELSE @,
     !.available = IF "available" \in req[r].fields THEN req[r].available ELSE @]

\* The one-shot guard, inside the transaction.
SetupAllowed == life[Profile] = "absent"

Insert(r) ==
  LET h == req[r].target
  IN /\ life' = [life EXCEPT ![h] = "present"]
     /\ row' = [row EXCEPT ![h] = [image |-> Stored(r), amount |-> req[r].amount,
                                   available |-> TRUE]]
     /\ logged' = [logged EXCEPT ![h] = req[r].amount]
     /\ told' = [told EXCEPT ![h] = Public(h, row'[h])]

\* completeTransaction: profile, hall, tables and owner, or nothing of them.
WriteSetup(r) ==
  /\ At(r, "write") /\ req[r].op = "setup"
  /\ IF SetupAllowed
       THEN Insert(r) /\ Proceed(r, "write")
       ELSE /\ Left(r, IF Stored(r) = None THEN {} ELSE {"cleanup"}, "refused")
            /\ UNCHANGED <<rowVars, outVars>>
  /\ UNCHANGED <<disk, contended>>

WriteCreate(r) ==
  /\ At(r, "write") /\ req[r].op = "create"
  /\ Insert(r) /\ Proceed(r, "write")
  /\ UNCHANGED <<disk, contended>>

\* UPDATE ... WHERE id = ...: no row, no change, and the handler goes on.  The
\* profile's service keeps the returned row for its event.
WriteEdit(r) ==
  LET h == req[r].target
  IN /\ At(r, "write") /\ req[r].op \in {"config", "update"}
     /\ row' = IF life[h] = "present" THEN [row EXCEPT ![h] = Patched(r, @)] ELSE row
     /\ Become(r, [req[r] EXCEPT !.amount = IF h = Profile THEN row'[h].amount ELSE @],
               req[r].todo \ {"write"}, "done")
     /\ UNCHANGED <<life, outVars, disk, contended>>

WriteRemove(r) ==
  /\ At(r, "write") /\ req[r].op = "remove"
  /\ life' = [life EXCEPT ![req[r].target] = "removed"]
  /\ Proceed(r, "write")
  /\ UNCHANGED <<row, outVars, disk, contended>>

\* Mutation: old and new value are swapped.
OldAmount(r) == req[r].seen.amount

NewAmount(r) == req[r].amount

\* The audit row of a setup names no amount.
AppendAudit(r) ==
  /\ At(r, "audit")
  /\ logged' = IF req[r].op # "setup" /\ "amount" \in req[r].fields
                 THEN [logged EXCEPT ![req[r].target] = NewAmount(r)] ELSE logged
  /\ Proceed(r, "audit")
  /\ UNCHANGED <<rowVars, told, disk, contended>>

\* An audit row that cannot be written ends the handler; that of a setup runs
\* the compensation of its catch block.
FailAudit(r) ==
  /\ At(r, "audit") /\ req[r].op \in FailingAudits
  /\ Left(r, IF req[r].op = "setup" /\ Stored(r) # None THEN {"compensate"} ELSE {},
          "failed")
  /\ UNCHANGED <<rowVars, outVars, disk, contended>>

\* Mutation: the event carries the row as it was read.
StaleNews(r) == Public(req[r].target, req[r].seen)

\* product.availability_changed, restaurant_profile.changed.
News(r) == Public(req[r].target, req[r])

Emit(r) ==
  /\ At(r, "emit")
  /\ told' = [told EXCEPT ![req[r].target] = News(r)]
  /\ Proceed(r, "emit")
  /\ UNCHANGED <<rowVars, logged, disk, contended>>

\* deleteStored of the file the row pointed to when it was read.
Release(r) ==
  /\ At(r, "release")
  /\ disk' = disk \ {req[r].seen.image}
  /\ Proceed(r, "release")
  /\ UNCHANGED <<rowVars, outVars, contended>>

\* The setup's catch block deletes its file, whichever call threw.
Compensate(r) ==
  /\ At(r, "cleanup") \/ At(r, "compensate")
  /\ disk' = disk \ {r}
  /\ Left(r, {}, IF At(r, "cleanup") THEN "refused" ELSE "failed")
  /\ UNCHANGED <<rowVars, outVars, contended>>

\* A restart: rows and files stay.
Crash ==
  /\ \E r \in Requests : Running(r)
  /\ req' = [r \in Requests |->
               IF Running(r) THEN Ended(req[r], "lost") ELSE req[r]]
  /\ UNCHANGED <<rowVars, outVars, disk, contended>>

-----------------------------------------------------------------------------
Start(r) == ~Sent(r) /\ (BeginSetup(r) \/ BeginEdit(r) \/ BeginCreate(r) \/ BeginRemove(r))

Write(r) == WriteSetup(r) \/ WriteCreate(r) \/ WriteEdit(r) \/ WriteRemove(r)

GoOn(r) ==
  \/ Store(r) \/ Write(r) \/ AppendAudit(r) \/ FailAudit(r) \/ Emit(r) \/ Release(r)
  \/ Compensate(r)

Next == (\E r \in Requests : Start(r) \/ GoOn(r)) \/ Crash

Spec == Init /\ [][Next]_vars

-----------------------------------------------------------------------------
\* An image that a row points to is on disk, however edits, removals and
\* restarts interleave.  The one exception is the code's: a setup whose audit
\* row fails after its commit deletes the logo of the profile it created.
NoDanglingImages ==
  \A h \in Rows :
    life[h] = "present" /\ row[h].image \notin disk \cup {None} =>
      \E r \in Requests : row[h].image = r /\ Died(r) /\ req[r].op = "setup"

RowOf(f) == IF f \in Rows THEN f ELSE req[f].target

\* Uploads do not pile up: a file no row points to is still being worked on,
\* or left by a request that died before it could point to it or release it,
\* or its row was edited by two requests at once.
LeftoversAreExplained ==
  \A f \in disk :
    \/ life[RowOf(f)] = "present" /\ row[RowOf(f)].image = f
    \/ \E r \in Requests :
         \/ Running(r) /\ (r = f \/ req[r].seen.image = f)
         \/ Died(r) /\ (r = f \/ req[r].image = f)
    \/ RowOf(f) \in contended

\* Every request on a row came to its end before the next one began.
Orderly(h) ==
  /\ life[h] = "present" /\ h \notin contended
  /\ \A r \in Requests : Running(r) \/ Died(r) => req[r].target # h

\* FR38, D8: by the audit log a product's price and the tax rate are what they
\* are, although a change is judged on a row that was read before.
AmountsAreAudited == \A h \in Rows : Orderly(h) => logged[h] = row[h].amount

\* The customers' screens, told of changes only, show what the row says.
ScreensShowRows == \A h \in Rows : Orderly(h) => told[h] = Public(h, row[h])
=============================================================================
