----------------------------- MODULE FrontDoor ------------------------------
(***************************************************************************)
(* What a guest finds behind a QR code: the categories and products of     *)
(* menu.service.ts, the tables and their codes of tables.service.ts, the   *)
(* public menu put together from both, and the order a guest places from   *)
(* it.  Owners edit, and renew codes, while guests read.                   *)
(*                                                                         *)
(* A read whose outcome later writes cannot change (an id that is only     *)
(* ever soft-deleted; a hall, which no route deactivates) is part of the   *)
(* write that follows.  Names, labels, halls and images are left out, and  *)
(* so is the table's status, which Floor judges.                           *)
(***************************************************************************)
EXTENDS FiniteSets

CONSTANTS
  Categories, Products, Prices, Tables,
  Codes,    \* QR tokens
  Guests,   \* pages behind a scanned code
  Editors,  \* slots of owners' requests in flight
  Nothing   \* SQL NULL

ASSUME NothingAssumption ==
  Nothing \notin Categories \cup Products \cup Prices \cup Tables \cup Codes

VARIABLES
  category,  \* state of a category
  product,   \* rows of products
  table,     \* state and qr_token of a table
  renewals,  \* audit rows qr_regenerated
  edit,      \* a createProduct or updateProduct past its checks
  renewal,   \* a regenerateQr past its first read
  guest      \* where a page is, what it shows, what it ordered

\* History variables; no step depends on them.
VARIABLES
  faces,     \* as what a product was to be seen from a page's start to its order
  rewritten, \* products written between a page's two reads
  reshaped,  \* categories that came or went between them
  had,       \* the codes a table has had
  mixed,     \* tables with two renewals at once
  lost       \* audit rows qr_regenerated that were never written

menuHistory == <<faces, rewritten, reshaped>>
codeHistory == <<had, mixed, lost>>

doorRows  == <<category, product, table, renewals>>
doorVars  == <<doorRows, edit, renewal, guest, menuHistory, codeHistory>>

NullOr(S) == S \cup {Nothing}

Fields == {"category", "price", "available"}
Row    == [category: NullOr(Categories), price: Prices, available: BOOLEAN]

CategoryState == {"unborn", "active", "removed"}
ProductState  == [state: {"unborn", "sold", "gone"}, row: NullOr(Row)]
TableState    == [state: {"unborn", "active", "removed"}, code: NullOr(Codes)]
RenewalRow    == [table: Tables, old: Codes, new: Codes]

\* The body of an update names the fields it changes.
Changes ==
  {ch \in UNION {[D -> NullOr(Categories) \cup Prices \cup BOOLEAN] : D \in SUBSET Fields} :
     /\ "category" \in DOMAIN ch => ch["category"] \in NullOr(Categories)
     /\ "price" \in DOMAIN ch => ch["price"] \in Prices
     /\ "available" \in DOMAIN ch => ch["available"] \in BOOLEAN}

GuestPlaces == {"away", "found", "categories", "menu", "ordering", "ordered", "refused"}
OnPage      == {"menu", "ordering", "ordered", "refused"}
Amounts     == [Products -> NullOr(Prices)]

NoEdit    == [at |-> "idle", product |-> Nothing, changes |-> [f \in {} |-> Nothing]]
NoRenewal == [at |-> "idle", table |-> Nothing, old |-> Nothing, new |-> Nothing]
NoAmounts == [p \in Products |-> Nothing]
Away      == [at |-> "away", code |-> Nothing, cats |-> {}, shown |-> NoAmounts,
              charged |-> NoAmounts, items |-> {}]

DoorTypeOK ==
  /\ category \in [Categories -> CategoryState]
  /\ product \in [Products -> ProductState]
  /\ table \in [Tables -> TableState]
  /\ renewals \subseteq RenewalRow
  /\ edit \in [Editors -> [at: {"idle", "creating", "updating"},
                           product: NullOr(Products), changes: Changes]]
  /\ renewal \in [Editors -> [at: {"idle", "read", "written"}, table: NullOr(Tables),
                              old: NullOr(Codes), new: NullOr(Codes)]]
  /\ guest \in [Guests -> [at: GuestPlaces, code: NullOr(Codes), cats: SUBSET Categories,
                           shown: Amounts, charged: Amounts, items: SUBSET Products]]
  /\ faces \in [Guests -> [Products -> SUBSET NullOr(Prices)]]
  /\ rewritten \in [Guests -> SUBSET Products]
  /\ reshaped \in [Guests -> SUBSET Categories]
  /\ had \in [Tables -> SUBSET Codes]
  /\ mixed \subseteq Tables
  /\ lost \subseteq RenewalRow

DoorInit ==
  /\ category = [c \in Categories |-> "unborn"]
  /\ product = [p \in Products |-> [state |-> "unborn", row |-> Nothing]]
  /\ table = [t \in Tables |-> [state |-> "unborn", code |-> Nothing]]
  /\ renewals = {}
  /\ edit = [e \in Editors |-> NoEdit]
  /\ renewal = [e \in Editors |-> NoRenewal]
  /\ guest = [g \in Guests |-> Away]
  /\ faces = [g \in Guests |-> [p \in Products |-> {}]]
  /\ rewritten = [g \in Guests |-> {}]
  /\ reshaped = [g \in Guests |-> {}]
  /\ had = [t \in Tables |-> {}]
  /\ mixed = {}
  /\ lost = {}

\* What can be found on a menu at this moment.
Visible(p) ==
  /\ product[p].state = "sold" /\ product[p].row.available
  /\ product[p].row.category # Nothing
  /\ category[product[p].row.category] = "active"

\* As what: its price, or not at all.
Face(p) == IF Visible(p) THEN product[p].row.price ELSE Nothing

BetweenReads(g) == guest[g].at = "categories"

\* Products ps are written, categories cs come or go.
Note(ps, cs) ==
  /\ faces' = [g \in Guests |->
       IF guest[g].at \in {"away", "ordered", "refused"} THEN faces[g]
         ELSE [p \in Products |-> faces[g][p] \cup {Face(p)'}]]
  /\ rewritten' = [g \in Guests |->
       IF BetweenReads(g) THEN rewritten[g] \cup ps ELSE rewritten[g]]
  /\ reshaped' = [g \in Guests |->
       IF BetweenReads(g) THEN reshaped[g] \cup cs ELSE reshaped[g]]

-----------------------------------------------------------------------------
(***************************************************************************)
(* Categories and products.                                                *)
(***************************************************************************)
CreateCategory(c) ==
  /\ category[c] = "unborn"
  /\ category' = [category EXCEPT ![c] = "active"]
  /\ UNCHANGED <<product, table, renewals, edit, renewal, guest, codeHistory>>
  /\ Note({}, {c})

\* The row stays and its products keep pointing at it.
RemoveCategory(c) ==
  /\ category[c] = "active"
  /\ category' = [category EXCEPT ![c] = "removed"]
  /\ UNCHANGED <<product, table, renewals, edit, renewal, guest, codeHistory>>
  /\ Note({}, {c})

\* requireActiveCategory: an active one, or none.
ActiveOrNone(ch) ==
  "category" \in DOMAIN ch /\ ch["category"] # Nothing => category[ch["category"]] = "active"

\* The checks, which the image and then the write come after.
BeginProduct(e, p, ch) ==
  /\ edit[e].at = "idle" /\ product[p].state = "unborn"
  /\ \A d \in Editors : ~(edit[d].at = "creating" /\ edit[d].product = p)
  /\ {"category", "price"} = DOMAIN ch /\ ActiveOrNone(ch)
  /\ edit' = [edit EXCEPT ![e] = [at |-> "creating", product |-> p, changes |-> ch]]
  /\ UNCHANGED <<doorRows, renewal, guest, menuHistory, codeHistory>>

InsertProduct(e) ==
  LET p == edit[e].product
      ch == edit[e].changes
  IN /\ edit[e].at = "creating"
     /\ product' = [product EXCEPT ![p] =
          [state |-> "sold",
           row |-> [category |-> ch["category"], price |-> ch["price"], available |-> TRUE]]]
     /\ edit' = [edit EXCEPT ![e] = NoEdit]
     /\ UNCHANGED <<category, table, renewals, renewal, guest, codeHistory>>
     /\ Note({p}, {})

BeginUpdate(e, p, ch) ==
  /\ edit[e].at = "idle" /\ product[p].state = "sold"
  /\ DOMAIN ch # {} /\ ActiveOrNone(ch)
  /\ edit' = [edit EXCEPT ![e] = [at |-> "updating", product |-> p, changes |-> ch]]
  /\ UNCHANGED <<doorRows, renewal, guest, menuHistory, codeHistory>>

\* The fields that the body names, over those of the row as it is by now.
Patched(row, ch) ==
  [f \in Fields |-> IF f \in DOMAIN ch THEN ch[f] ELSE row[f]]

\* An update that finds its row deleted meanwhile changes nothing.
WriteProduct(e) ==
  LET p == edit[e].product
  IN /\ edit[e].at = "updating"
     /\ IF product[p].state = "sold"
          THEN product' = [product EXCEPT ![p].row = Patched(@, edit[e].changes)]
          ELSE UNCHANGED product
     /\ edit' = [edit EXCEPT ![e] = NoEdit]
     /\ UNCHANGED <<category, table, renewals, renewal, guest, codeHistory>>
     /\ IF product[p].state = "sold" THEN Note({p}, {}) ELSE UNCHANGED menuHistory

\* A hard delete.
RemoveProduct(p) ==
  /\ product[p].state = "sold"
  /\ product' = [product EXCEPT ![p] = [state |-> "gone", row |-> Nothing]]
  /\ UNCHANGED <<category, table, renewals, edit, renewal, guest, codeHistory>>
  /\ Note({p}, {})

-----------------------------------------------------------------------------
(***************************************************************************)
(* Tables and their codes.                                                 *)
(***************************************************************************)
InUse == {table[t].code : t \in Tables}
Spent == UNION {had[t] : t \in Tables}

\* generateQrToken and the retry on idx_tables_qr_token: what is stored in the
\* end is no table's code.  256 random bits also repeat no earlier code.
Drawn(code) == code \in Codes \ (InUse \cup Spent)

CreateTable(t, code) ==
  /\ table[t].state = "unborn" /\ Drawn(code)
  /\ table' = [table EXCEPT ![t] = [state |-> "active", code |-> code]]
  /\ had' = [had EXCEPT ![t] = {code}]
  /\ UNCHANGED <<category, product, renewals, edit, renewal, guest, menuHistory, mixed, lost>>

\* The last step of removeTable, whose guard is TableHandlers'.
DeactivateTable(t) ==
  /\ table[t].state = "active"
  /\ table' = [table EXCEPT ![t].state = "removed"]
  /\ UNCHANGED <<category, product, renewals, edit, renewal, guest, menuHistory, codeHistory>>

Renewing(t) == {e \in Editors : renewal[e].at # "idle" /\ renewal[e].table = t}

\* regenerateQr reads the row, removed tables' too.
BeginRenewal(e, t) ==
  /\ renewal[e].at = "idle" /\ table[t].state # "unborn"
  /\ renewal' = [renewal EXCEPT ![e] =
       [at |-> "read", table |-> t, old |-> table[t].code, new |-> Nothing]]
  /\ mixed' = IF Renewing(t) = {} THEN mixed ELSE mixed \cup {t}
  /\ UNCHANGED <<doorRows, edit, guest, menuHistory, had, lost>>

WriteCode(e, code) ==
  LET t == renewal[e].table
  IN /\ renewal[e].at = "read" /\ Drawn(code)
     /\ table' = [table EXCEPT ![t].code = code]
     /\ renewal' = [renewal EXCEPT ![e].at = "written", ![e].new = code]
     /\ had' = [had EXCEPT ![t] = @ \cup {code}]
     /\ UNCHANGED <<category, product, renewals, edit, guest, menuHistory, mixed, lost>>

\* Mutation: the old value is taken from the row that the update returned.
AuditRowOfUpdated(r) == [table |-> r.table, old |-> r.new, new |-> r.new]

AuditRow(r) == [table |-> r.table, old |-> r.old, new |-> r.new]

\* The rows that renewals past their write are about to append.
Unwritten == {AuditRow(renewal[e]) : e \in {d \in Editors : renewal[d].at = "written"}}

\* The append may fail.
AuditRenewal(e) ==
  /\ renewal[e].at = "written"
  /\ \/ renewals' = renewals \cup {AuditRow(renewal[e])} /\ UNCHANGED lost
     \/ lost' = lost \cup {AuditRow(renewal[e])} /\ UNCHANGED renewals
  /\ renewal' = [renewal EXCEPT ![e] = NoRenewal]
  /\ UNCHANGED <<category, product, table, edit, guest, menuHistory, had, mixed>>

-----------------------------------------------------------------------------
(***************************************************************************)
(* Guests.                                                                 *)
(***************************************************************************)
Leads(code) == \E t \in Tables : table[t].state = "active" /\ table[t].code = code

\* GET /public/tables/:qrToken/menu, again whenever the page is reloaded.
Scan(g, code) ==
  /\ guest[g].at \in {"away", "menu", "ordered", "refused"}
  /\ Leads(code)
  /\ guest' = [guest EXCEPT ![g] = [Away EXCEPT !.at = "found", !.code = code]]
  /\ faces' = [faces EXCEPT ![g] = [p \in Products |-> {Face(p)}]]
  /\ rewritten' = [rewritten EXCEPT ![g] = {}]
  /\ UNCHANGED <<doorRows, edit, renewal, reshaped, codeHistory>>

\* Mutation: removed categories are not left out.
AnyCategory == {c \in Categories : category[c] # "unborn"}

ActiveCategories == {c \in Categories : category[c] = "active"}

\* The two reads are started in this order.
ReadCategories(g) ==
  /\ guest[g].at = "found"
  /\ guest' = [guest EXCEPT ![g].at = "categories", ![g].cats = ActiveCategories]
  /\ UNCHANGED <<doorRows, edit, renewal, menuHistory, codeHistory>>

AvailableIn(cats) ==
  {p \in Products : /\ product[p].state = "sold" /\ product[p].row.available
                    /\ product[p].row.category \in cats}

PricesOf(ps) == [p \in Products |-> IF p \in ps THEN product[p].row.price ELSE Nothing]

ReadProducts(g) ==
  /\ guest[g].at = "categories"
  /\ guest' = [guest EXCEPT ![g].at = "menu", ![g].cats = {},
                            ![g].shown = PricesOf(AvailableIn(guest[g].cats))]
  /\ rewritten' = [rewritten EXCEPT ![g] =
       {p \in @ : product[p].state = "sold" /\ product[p].row.category \in reshaped[g]}]
  /\ reshaped' = [reshaped EXCEPT ![g] = {}]
  /\ UNCHANGED <<doorRows, edit, renewal, faces, codeHistory>>

\* The page offers what it shows.
Offered(g) == {p \in Products : guest[g].shown[p] # Nothing}

\* createPublicOrder looks the code up.
BeginOrder(g, items) ==
  /\ guest[g].at = "menu" /\ items # {} /\ items \subseteq Offered(g)
  /\ Leads(guest[g].code)
  /\ guest' = [guest EXCEPT ![g].at = "ordering", ![g].items = items]
  /\ UNCHANGED <<doorRows, edit, renewal, menuHistory, codeHistory>>

\* Whether the transaction finds a product, and available.
Sellable(p) ==
  /\ product[p].state = "sold" /\ product[p].row.available
  /\ product[p].row.category # Nothing => category[product[p].row.category] = "active"

\* All of the items or none, at the prices of this moment.
SubmitOrder(g) ==
  /\ guest[g].at = "ordering"
  /\ guest' = IF \A p \in guest[g].items : Sellable(p)
                THEN [guest EXCEPT ![g].at = "ordered", ![g].charged = PricesOf(guest[g].items)]
                ELSE [guest EXCEPT ![g].at = "refused"]
  /\ UNCHANGED <<doorRows, edit, renewal, menuHistory, codeHistory>>

\* A restart: rows stay, requests in flight do not.
Reboot ==
  /\ edit' = [e \in Editors |-> NoEdit]
  /\ renewal' = [e \in Editors |-> NoRenewal]
  /\ guest' = [g \in Guests |-> IF guest[g].at \in {"found", "categories", "ordering"}
                                  THEN Away ELSE guest[g]]
  /\ reshaped' = [g \in Guests |-> {}]
  /\ lost' = lost \cup Unwritten
  /\ UNCHANGED <<doorRows, faces, rewritten, had, mixed>>

EditStep ==
  \/ \E c \in Categories : CreateCategory(c) \/ RemoveCategory(c)
  \/ \E e \in Editors, p \in Products, ch \in Changes :
       BeginProduct(e, p, ch) \/ BeginUpdate(e, p, ch)
  \/ \E e \in Editors : InsertProduct(e) \/ WriteProduct(e)
  \/ \E p \in Products : RemoveProduct(p)

CodeStep ==
  \/ \E t \in Tables, code \in Codes : CreateTable(t, code)
  \/ \E t \in Tables : DeactivateTable(t)
  \/ \E e \in Editors, t \in Tables : BeginRenewal(e, t)
  \/ \E e \in Editors, code \in Codes : WriteCode(e, code)
  \/ \E e \in Editors : AuditRenewal(e)

GuestStep ==
  \/ \E g \in Guests, code \in Codes : Scan(g, code)
  \/ \E g \in Guests : ReadCategories(g) \/ ReadProducts(g) \/ SubmitOrder(g)
  \/ \E g \in Guests, items \in SUBSET Products : BeginOrder(g, items)

DoorNext == EditStep \/ CodeStep \/ GuestStep \/ Reboot

DoorSpec == DoorInit /\ [][DoorNext]_doorVars

-----------------------------------------------------------------------------
\* FR2, orders.repository.ts:144: what is invisible on every menu surface is not
\* sold.  Although the menu is put together from two reads and the order judged in
\* a third place, while owners edit, everything a page shows was to be seen at that
\* price at some moment since the page was asked for, and what it leaves out was at
\* some moment not to be seen; an order is refused only if one of its items went
\* off the menus, and is charged at prices that were to be seen, or for items that
\* went off.  The one exception is a product that was written between the two reads
\* into a category that also came or went between them.
MenusKeepTheirWord ==
  \A g \in Guests :
    /\ guest[g].at \in OnPage =>
         \A p \in Products \ rewritten[g] : guest[g].shown[p] \in faces[g][p]
    /\ guest[g].at = "refused" => \E p \in guest[g].items : Nothing \in faces[g][p]
    /\ guest[g].at = "ordered" =>
         \A p \in guest[g].items : {guest[g].charged[p], Nothing} \cap faces[g][p] # {}

\* The audit rows about a table's code, including those that are still to be
\* written or never will be.
Trail(t) == {r \in renewals \cup lost \cup Unwritten : r.table = t}

\* FR21, FR38: no two tables share a code, and whoever finds an old card can tell
\* whose it was.  However renewals interleave and fail, each code a table no longer
\* has is named by a row, unless just that row was lost, and rows tell of
\* different codes the table has had; renewed by one request at a time, each code
\* is the old value of one row, which names what replaced it.
CodesAreAccountedFor ==
  /\ \A t, u \in Tables : table[t].code = table[u].code => t = u \/ table[t].code = Nothing
  /\ \A t \in Tables :
       LET gone == had[t] \ {table[t].code}
       IN /\ \A code \in gone : \E r \in Trail(t) : code \in {r.old, r.new}
          /\ \A r \in Trail(t) : r.old # r.new /\ {r.old, r.new} \subseteq had[t]
          /\ t \notin mixed =>
               \A code \in had[t] :
                 Cardinality({r \in Trail(t) : r.old = code})
                   = IF code \in gone THEN 1 ELSE 0
=============================================================================
