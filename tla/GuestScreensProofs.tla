-------------------------- MODULE GuestScreensProofs --------------------------
(***************************************************************************)
(* A guest's side for any number of categories, products, tables, guests,  *)
(* streams and requests: the menu, the codes and the streams of an order,  *)
(* which share no rows and have an inductive invariant each, and the       *)
(* interceptor that an order passes on its way in.                         *)
(***************************************************************************)
EXTENDS GuestScreens, Idempotency, FiniteSetTheorems, TLAPS

-----------------------------------------------------------------------------
(***************************************************************************)
(* The menu.                                                               *)
(***************************************************************************)
menuVars == <<category, product, edit, guest, menuHistory>>

Page == [at: GuestPlaces, code: NullOr(Codes), cats: SUBSET Categories,
         shown: Amounts, charged: Amounts, items: SUBSET Products]

MenuTypes ==
  /\ category \in [Categories -> CategoryState]
  /\ product \in [Products -> ProductState]
  /\ edit \in [Editors -> [at: {"idle", "creating", "updating"},
                           product: NullOr(Products), changes: Changes]]
  /\ guest \in [Guests -> Page]
  /\ faces \in [Guests -> [Products -> SUBSET NullOr(Prices)]]
  /\ rewritten \in [Guests -> SUBSET Products]
  /\ reshaped \in [Guests -> SUBSET Categories]

\* What is sold has a row, and what a request is about to write is a product's.
RowsInPlace ==
  /\ \A p \in Products : product[p].state = "sold" => product[p].row \in Row
  /\ \A e \in Editors : edit[e].at # "idle" => edit[e].product \in Products
  /\ \A e \in Editors :
       edit[e].at = "creating" => {"category", "price"} = DOMAIN edit[e].changes

\* Between the two reads, a category that neither came nor went is among those
\* read just if it is active, and what the second read would show of a product
\* that nobody wrote was to be seen when the first one was made.
HalfRead(page, fs, rw, rs) ==
  page.at = "categories" =>
    /\ \A c \in Categories \ rs : c \in page.cats <=> category[c] = "active"
    /\ \A p \in Products \ rw : PricesOf(AvailableIn(page.cats))[p] \in fs[p]

\* Until the page has ordered, each moment is one at which products are seen.
UpToDate(page, fs) ==
  page.at \notin {"away", "ordered", "refused"} => \A p \in Products : Face(p) \in fs[p]

\* What MenusKeepTheirWord says of one page.
InGoodFaith(page, fs, rw) ==
  /\ page.at \in OnPage => \A p \in Products \ rw : page.shown[p] \in fs[p]
  /\ page.at = "refused" => \E p \in page.items : Nothing \in fs[p]
  /\ page.at = "ordered" => \A p \in page.items : {page.charged[p], Nothing} \cap fs[p] # {}

PageOf(page, fs, rw, rs) ==
  HalfRead(page, fs, rw, rs) /\ UpToDate(page, fs) /\ InGoodFaith(page, fs, rw)

MenuInv ==
  /\ MenuTypes
  /\ RowsInPlace
  /\ \A g \in Guests : PageOf(guest[g], faces[g], rewritten[g], reshaped[g])

\* A patched row is a row.
LEMMA PatchedIsRow ==
  ASSUME NEW row \in Row, NEW ch \in Changes
  PROVE  Patched(row, ch) \in Row
  BY DEF Patched, Row, Changes, Fields, NullOr

LEMMA NoEditIsAnEdit ==
  /\ NoEdit \in [at: {"idle", "creating", "updating"},
                 product: NullOr(Products), changes: Changes]
  /\ NoEdit.at = "idle"
  BY DEF NoEdit, NullOr, Changes, Fields

LEMMA AwayIsAPage == Away \in Page /\ Away.at = "away"
  BY DEF Away, Page, NullOr, GuestPlaces, Amounts, NoAmounts

LEMMA MenuInit == DoorInit => MenuInv
  <1> SUFFICES ASSUME DoorInit PROVE MenuInv
    OBVIOUS
  <1>1. MenuTypes
    BY NoEditIsAnEdit, AwayIsAPage
    DEF DoorInit, MenuTypes, CategoryState, ProductState, NullOr
  <1>2. /\ \A p \in Products : product[p].state = "unborn"
        /\ \A e \in Editors : edit[e].at = "idle"
        /\ \A g \in Guests : guest[g].at = "away"
    BY NoEditIsAnEdit, AwayIsAPage DEF DoorInit
  <1> QED
    BY <1>1, <1>2 DEF MenuInv, RowsInPlace, PageOf, HalfRead, UpToDate, InGoodFaith, OnPage

\* The codes do not touch the menu.
LEMMA MenuStutter == MenuInv /\ UNCHANGED menuVars => MenuInv'
  BY DEF MenuInv, menuVars, menuHistory, MenuTypes, RowsInPlace, PageOf, HalfRead, UpToDate,
         InGoodFaith, Face, Visible, PricesOf, AvailableIn

LEMMA FacesArePrices ==
  ASSUME RowsInPlace, NEW p \in Products
  PROVE  Face(p) \in NullOr(Prices)
  BY DEF RowsInPlace, Face, Visible, Row, NullOr

\* Whatever becomes of products ps and categories cs: what menus can be surprised
\* by has been noted.
LEMMA NotedStep ==
  ASSUME MenuInv, NEW ps \in SUBSET Products, NEW cs \in SUBSET Categories,
         Note(ps, cs), guest' = guest,
         \A p \in Products \ ps : product'[p] = product[p],
         \A c \in Categories \ cs : category'[c] = category[c],
         RowsInPlace',
         category' \in [Categories -> CategoryState],
         product' \in [Products -> ProductState],
         edit' \in [Editors -> [at: {"idle", "creating", "updating"},
                                product: NullOr(Products), changes: Changes]]
  PROVE  MenuInv'
  <1> USE DEF MenuInv
  <1>1. \A p \in Products : Face(p)' \in NullOr(Prices)
    <2>1. (\A p \in Products : Face(p) \in NullOr(Prices))'
      BY DEF RowsInPlace, Face, Visible, Row, NullOr
    <2> QED
      BY <2>1
  <1>2. MenuTypes'
    BY <1>1 DEF MenuTypes, Note
  <1>3. ASSUME NEW g \in Guests
        PROVE  PageOf(guest[g], faces[g], rewritten[g], reshaped[g])'
    <2>1. PageOf(guest[g], faces[g], rewritten[g], reshaped[g])
      OBVIOUS
    <2>2. \A p \in Products : faces[g][p] \subseteq faces'[g][p]
      BY DEF Note
    <2>3. rewritten[g] \subseteq rewritten'[g] /\ reshaped[g] \subseteq reshaped'[g]
      BY DEF Note
    <2>4. guest[g].at = "categories" =>
            /\ rewritten'[g] = rewritten[g] \cup ps
            /\ reshaped'[g] = reshaped[g] \cup cs
      BY DEF Note, BetweenReads
    <2>5. HalfRead(guest[g], faces[g], rewritten[g], reshaped[g])'
      <3> SUFFICES ASSUME guest[g].at = "categories"
                   PROVE  /\ \A c \in Categories \ reshaped'[g] :
                               c \in guest[g].cats <=> category'[c] = "active"
                          /\ \A p \in Products \ rewritten'[g] :
                               PricesOf(AvailableIn(guest[g].cats))'[p] \in faces'[g][p]
        BY DEF HalfRead
      <3>1. \A c \in Categories \ reshaped'[g] : c \in guest[g].cats <=> category'[c] = "active"
        BY <2>1, <2>4 DEF PageOf, HalfRead
      <3>2. ASSUME NEW p \in Products \ rewritten'[g]
            PROVE  PricesOf(AvailableIn(guest[g].cats))'[p] \in faces'[g][p]
        <4>1. product'[p] = product[p] /\ p \notin rewritten[g]
          BY <2>4, <3>2
        <4>2. PricesOf(AvailableIn(guest[g].cats))'[p] = PricesOf(AvailableIn(guest[g].cats))[p]
          BY <4>1 DEF PricesOf, AvailableIn
        <4> QED
          BY <2>1, <2>2, <4>1, <4>2 DEF PageOf, HalfRead
      <3> QED
        BY <3>1, <3>2
    <2>6. UpToDate(guest[g], faces[g])'
      BY DEF UpToDate, Note
    <2>7. InGoodFaith(guest[g], faces[g], rewritten[g])'
      <3>1. guest[g].at \in OnPage =>
              \A p \in Products \ rewritten'[g] : guest[g].shown[p] \in faces'[g][p]
        BY <2>1, <2>2, <2>3 DEF PageOf, InGoodFaith
      <3>2. guest[g].at \in {"refused", "ordered"} => faces'[g] = faces[g]
        BY DEF Note
      <3> QED
        BY <2>1, <3>1, <3>2 DEF PageOf, InGoodFaith
    <2> QED
      BY <2>5, <2>6, <2>7 DEF PageOf
  <1>4. RowsInPlace'
    OBVIOUS
  <1> QED
    BY <1>2, <1>3, <1>4

LEMMA CategoryStep ==
  ASSUME MenuInv, NEW c \in Categories, CreateCategory(c) \/ RemoveCategory(c)
  PROVE  MenuInv'
  <1>1. /\ UNCHANGED <<product, edit, guest>>
        /\ category' = [category EXCEPT ![c] = category'[c]]
        /\ category'[c] \in {"active", "removed"}
        /\ Note({}, {c})
    BY DEF CreateCategory, RemoveCategory, MenuInv, MenuTypes
  <1>2. category' \in [Categories -> CategoryState]
    BY <1>1 DEF MenuInv, MenuTypes, CategoryState
  <1>3. RowsInPlace'
    BY <1>1 DEF MenuInv, RowsInPlace
  <1>4. \A d \in Categories \ {c} : category'[d] = category[d]
    BY <1>1 DEF MenuInv, MenuTypes
  <1> QED
    BY <1>1, <1>2, <1>3, <1>4, NotedStep DEF MenuInv, MenuTypes

LEMMA BeginEditStep ==
  ASSUME MenuInv, NEW e \in Editors, NEW p \in Products, NEW ch \in Changes,
         BeginProduct(e, p, ch) \/ BeginUpdate(e, p, ch)
  PROVE  MenuInv'
  <1> USE DEF MenuInv
  <1>1. PICK at \in {"creating", "updating"} :
          /\ edit' = [edit EXCEPT ![e] = [at |-> at, product |-> p, changes |-> ch]]
          /\ at = "creating" => {"category", "price"} = DOMAIN ch
          /\ UNCHANGED <<category, product, guest, menuHistory>>
    BY DEF BeginProduct, BeginUpdate, doorRows
  <1>2. MenuTypes'
    BY <1>1 DEF MenuTypes, NullOr, menuHistory
  <1>3. RowsInPlace'
    BY <1>1 DEF RowsInPlace, MenuTypes
  <1>4. \A g \in Guests : PageOf(guest[g], faces[g], rewritten[g], reshaped[g])'
    BY <1>1 DEF PageOf, HalfRead, UpToDate, InGoodFaith, Face, Visible, PricesOf, AvailableIn,
                menuHistory
  <1> QED
    BY <1>2, <1>3, <1>4

\* Whatever becomes of a product's row, if it is well-formed.
LEMMA RowStep ==
  ASSUME MenuInv, NEW p \in Products, NEW entry \in ProductState,
         entry.state = "sold" => entry.row \in Row,
         product' = [product EXCEPT ![p] = entry],
         Note({p}, {}),
         UNCHANGED <<category, guest>>,
         edit' = edit \/ \E e \in Editors : edit' = [edit EXCEPT ![e] = NoEdit]
  PROVE  MenuInv'
  <1>1. /\ product' \in [Products -> ProductState]
        /\ edit' \in [Editors -> [at: {"idle", "creating", "updating"},
                                  product: NullOr(Products), changes: Changes]]
    BY NoEditIsAnEdit DEF MenuInv, MenuTypes
  <1>2. RowsInPlace'
    BY NoEditIsAnEdit DEF MenuInv, RowsInPlace, MenuTypes
  <1>3. \A r \in Products \ {p} : product'[r] = product[r]
    BY DEF MenuInv, MenuTypes
  <1> QED
    BY <1>1, <1>2, <1>3, NotedStep DEF MenuInv, MenuTypes

LEMMA ProductStep ==
  ASSUME MenuInv,
         \/ \E e \in Editors : InsertProduct(e) \/ WriteProduct(e)
         \/ \E p \in Products : RemoveProduct(p)
  PROVE  MenuInv'
  <1> USE DEF MenuInv
  <1>1. ASSUME NEW e \in Editors, InsertProduct(e)
        PROVE  MenuInv'
    <2> DEFINE p == edit[e].product
               ch == edit[e].changes
               row == [category |-> ch["category"], price |-> ch["price"], available |-> TRUE]
    <2>1. p \in Products /\ ch \in Changes /\ {"category", "price"} = DOMAIN ch
      BY <1>1 DEF InsertProduct, RowsInPlace, MenuTypes
    <2>2. row \in Row
      BY <2>1 DEF Row, Changes, NullOr
    <2>4. /\ product' = [product EXCEPT ![p] = [state |-> "sold", row |-> row]]
          /\ edit' = [edit EXCEPT ![e] = NoEdit]
          /\ Note({p}, {})
          /\ UNCHANGED <<category, guest>>
      BY <1>1 DEF InsertProduct
    <2>5. [state |-> "sold", row |-> row] \in ProductState
      BY <2>2 DEF ProductState, NullOr
    <2> HIDE DEF p, ch, row
    <2> QED
      BY <2>1, <2>2, <2>4, <2>5, RowStep
  <1>2. ASSUME NEW e \in Editors, WriteProduct(e)
        PROVE  MenuInv'
    <2> DEFINE p == edit[e].product
               ch == edit[e].changes
               row == Patched(product[p].row, ch)
    <2>1. p \in Products /\ ch \in Changes
      BY <1>2 DEF WriteProduct, RowsInPlace, MenuTypes
    <2>2. CASE product[p].state = "sold"
      <3>2. row \in Row
        BY <2>1, <2>2, PatchedIsRow DEF RowsInPlace
      <3>3. /\ product' = [product EXCEPT ![p] = [state |-> "sold", row |-> row]]
            /\ edit' = [edit EXCEPT ![e] = NoEdit]
            /\ Note({p}, {})
            /\ UNCHANGED <<category, guest>>
        BY <1>2, <2>1, <2>2 DEF WriteProduct, MenuTypes, ProductState
      <3>4. [state |-> "sold", row |-> row] \in ProductState
        BY <3>2 DEF ProductState, NullOr
      <3> HIDE DEF p, ch, row
      <3> QED
        BY <2>1, <3>2, <3>3, <3>4, RowStep
    <2>3. CASE product[p].state # "sold"
      <3>1. /\ edit' = [edit EXCEPT ![e] = NoEdit]
            /\ UNCHANGED <<category, product, guest, menuHistory>>
        BY <1>2, <2>3 DEF WriteProduct
      <3>3. MenuTypes' /\ RowsInPlace'
        BY <3>1, NoEditIsAnEdit DEF MenuTypes, RowsInPlace, menuHistory
      <3>4. \A g \in Guests : PageOf(guest[g], faces[g], rewritten[g], reshaped[g])'
        BY <3>1 DEF PageOf, HalfRead, UpToDate, InGoodFaith, Face, Visible, PricesOf,
                    AvailableIn, menuHistory
      <3> QED
        BY <3>3, <3>4
    <2> QED
      BY <2>2, <2>3
  <1>3. ASSUME NEW p \in Products, RemoveProduct(p)
        PROVE  MenuInv'
    <2>1. /\ product' = [product EXCEPT ![p] = [state |-> "gone", row |-> Nothing]]
          /\ Note({p}, {})
          /\ UNCHANGED <<category, guest, edit>>
      BY <1>3 DEF RemoveProduct
    <2>2. [state |-> "gone", row |-> Nothing] \in ProductState
      BY DEF ProductState, NullOr
    <2> QED
      BY <2>1, <2>2, RowStep
  <1> QED
    BY <1>1, <1>2, <1>3

\* A guest's step changes nothing but the page of one guest and what has been
\* noted for it.
LEMMA PageStep ==
  ASSUME MenuInv, NEW g \in Guests, NEW page \in Page,
         NEW fs \in [Products -> SUBSET NullOr(Prices)],
         NEW rw \in SUBSET Products, NEW rs \in SUBSET Categories,
         guest' = [guest EXCEPT ![g] = page],
         faces' = [faces EXCEPT ![g] = fs],
         rewritten' = [rewritten EXCEPT ![g] = rw],
         reshaped' = [reshaped EXCEPT ![g] = rs],
         PageOf(page, fs, rw, rs),
         UNCHANGED <<category, product, edit>>
  PROVE  MenuInv'
  <1> USE DEF MenuInv
  <1>1. MenuTypes'
    BY DEF MenuTypes
  <1>2. RowsInPlace'
    BY DEF RowsInPlace
  <1>3. ASSUME NEW h \in Guests
        PROVE  PageOf(guest'[h], faces'[h], rewritten'[h], reshaped'[h])
    <2>1. CASE h = g
      BY <2>1 DEF MenuTypes
    <2>2. CASE h # g
      BY <2>2 DEF MenuTypes
    <2> QED
      BY <2>1, <2>2
  <1>4. \A pg, fs1, rw1, rs1 : PageOf(pg, fs1, rw1, rs1) => PageOf(pg, fs1, rw1, rs1)'
    BY DEF PageOf, HalfRead, UpToDate, InGoodFaith, Face, Visible, PricesOf, AvailableIn
  <1>5. \A h \in Guests : PageOf(guest[h], faces[h], rewritten[h], reshaped[h])'
    BY <1>3 DEF PageOf, HalfRead, UpToDate, InGoodFaith, Face, Visible, PricesOf, AvailableIn
  <1> QED
    BY <1>1, <1>2, <1>5

LEMMA PricesAreAmounts ==
  ASSUME RowsInPlace, NEW ps \in SUBSET {p \in Products : product[p].state = "sold"}
  PROVE  /\ PricesOf(ps) \in Amounts
         /\ \A p \in Products :
              PricesOf(ps)[p] = (IF p \in ps THEN product[p].row.price ELSE Nothing)
  BY DEF RowsInPlace, Row, PricesOf, Amounts, NullOr

\* What is read at one moment is what is to be seen then.
LEMMA ReadAtOnce ==
  ASSUME RowsInPlace, NEW p \in Products, NEW cats \in SUBSET Categories,
         product[p].state = "sold" =>
           product[p].row.category \in cats
             <=> product[p].row.category \in ActiveCategories
  PROVE  PricesOf(AvailableIn(cats))[p] = Face(p)
  <1>1. product[p].state = "sold" => product[p].row.category \in NullOr(Categories)
    BY DEF RowsInPlace, Row
  <1>2. Nothing \notin Categories
    BY NothingAssumption
  <1> QED
    BY <1>1, <1>2 DEF PricesOf, AvailableIn, Face, Visible, ActiveCategories, NullOr

LEMMA GuestMenuStep ==
  ASSUME MenuInv, GuestStep
  PROVE  MenuInv'
  <1> USE DEF MenuInv
  <1>1. ASSUME NEW g \in Guests, NEW code \in Codes, Scan(g, code)
        PROVE  MenuInv'
    <2> DEFINE page == [Away EXCEPT !.at = "found", !.code = code]
               fs == [p \in Products |-> {Face(p)}]
    <2>1. page \in Page /\ page.at = "found"
      BY DEF Away, Page, NullOr, GuestPlaces, NoAmounts, Amounts
    <2>2. fs \in [Products -> SUBSET NullOr(Prices)]
      BY FacesArePrices
    <2>3. PageOf(page, fs, {}, reshaped[g])
      BY <2>1 DEF PageOf, HalfRead, UpToDate, InGoodFaith, OnPage
    <2>4. /\ guest' = [guest EXCEPT ![g] = page]
          /\ faces' = [faces EXCEPT ![g] = fs]
          /\ rewritten' = [rewritten EXCEPT ![g] = {}]
          /\ reshaped' = [reshaped EXCEPT ![g] = reshaped[g]]
          /\ reshaped[g] \in SUBSET Categories
          /\ UNCHANGED <<category, product, edit>>
      BY <1>1 DEF Scan, doorRows, MenuTypes
    <2> HIDE DEF page, fs
    <2> QED
      BY <2>1, <2>2, <2>3, <2>4, PageStep
  <1>2. ASSUME NEW g \in Guests, ReadProducts(g)
        PROVE  MenuInv'
    <2> DEFINE ps == AvailableIn(guest[g].cats)
               page == [guest[g] EXCEPT !.at = "menu", !.cats = {}, !.shown = PricesOf(ps)]
               rw == {p \in rewritten[g] : product[p].state = "sold"
                                             /\ product[p].row.category \in reshaped[g]}
    <2>1. /\ guest' = [guest EXCEPT ![g] = page] /\ guest[g].at = "categories"
          /\ faces' = [faces EXCEPT ![g] = faces[g]]
          /\ rewritten' = [rewritten EXCEPT ![g] = rw]
          /\ reshaped' = [reshaped EXCEPT ![g] = {}]
          /\ UNCHANGED <<category, product, edit>>
      BY <1>2 DEF ReadProducts, doorRows, MenuTypes
    <2>2. /\ guest[g] \in Page /\ faces[g] \in [Products -> SUBSET NullOr(Prices)]
          /\ rw \in SUBSET Products
          /\ PageOf(guest[g], faces[g], rewritten[g], reshaped[g])
      BY DEF MenuTypes
    <2>3. ps \in SUBSET {p \in Products : product[p].state = "sold"}
      BY DEF AvailableIn
    <2>4. page \in Page /\ page.at = "menu" /\ page.shown = PricesOf(ps)
      BY <2>2, <2>3, PricesAreAmounts DEF Page, GuestPlaces
    <2>5. ASSUME NEW p \in Products \ rw
          PROVE  PricesOf(ps)[p] \in faces[g][p]
      <3>1. CASE p \notin rewritten[g]
        BY <2>1, <2>2, <3>1 DEF PageOf, HalfRead
      \* Written into a category that stayed as it was: what is read is there now.
      <3>2. CASE p \in rewritten[g]
        <4>1. product[p].state = "sold" => product[p].row.category \notin reshaped[g]
          BY <2>5, <3>2
        <4>2. product[p].state = "sold" =>
                product[p].row.category \in Categories \/ product[p].row.category = Nothing
          BY DEF RowsInPlace, Row, NullOr
        <4>3. \A c \in Categories \ reshaped[g] :
                c \in guest[g].cats <=> category[c] = "active"
          BY <2>1, <2>2 DEF PageOf, HalfRead
        <4>4. guest[g].cats \in SUBSET Categories /\ Nothing \notin Categories
          BY <2>2, NothingAssumption DEF Page
        <4>5. product[p].state = "sold" =>
                (product[p].row.category \in guest[g].cats
                   <=> product[p].row.category \in ActiveCategories)
          BY <4>1, <4>2, <4>3, <4>4 DEF ActiveCategories
        <4>6. PricesOf(ps)[p] = Face(p)
          BY <4>4, <4>5, ReadAtOnce
        <4>7. Face(p) \in faces[g][p]
          BY <2>1, <2>2 DEF PageOf, UpToDate
        <4> QED
          BY <4>6, <4>7
      <3> QED
        BY <3>1, <3>2
    <2>6. UpToDate(page, faces[g])
      BY <2>1, <2>2, <2>4 DEF PageOf, UpToDate
    <2>7. InGoodFaith(page, faces[g], rw)
      BY <2>4, <2>5 DEF InGoodFaith
    <2>8. HalfRead(page, faces[g], rw, {})
      BY <2>4 DEF HalfRead
    <2> HIDE DEF ps, page, rw
    <2>9. PageOf(page, faces[g], rw, {})
      BY <2>6, <2>7, <2>8 DEF PageOf
    <2>10. {} \in SUBSET Categories
      OBVIOUS
    <2> QED
      BY <2>1, <2>2, <2>4, <2>9, <2>10, PageStep
  <1>3. ASSUME NEW g \in Guests,
               ReadCategories(g) \/ SubmitOrder(g)
                 \/ \E items \in SUBSET Products : BeginOrder(g, items)
        PROVE  MenuInv'
    <2>1. /\ faces' = [faces EXCEPT ![g] = faces[g]]
          /\ rewritten' = [rewritten EXCEPT ![g] = rewritten[g]]
          /\ reshaped' = [reshaped EXCEPT ![g] = reshaped[g]]
          /\ UNCHANGED <<category, product, edit>>
      BY <1>3 DEF ReadCategories, SubmitOrder, BeginOrder, doorRows, menuHistory, MenuTypes
    <2>2. /\ faces[g] \in [Products -> SUBSET NullOr(Prices)]
          /\ rewritten[g] \in SUBSET Products /\ reshaped[g] \in SUBSET Categories
          /\ guest[g] \in Page
      BY DEF MenuTypes
    <2>3. PageOf(guest[g], faces[g], rewritten[g], reshaped[g])
      OBVIOUS
    <2>4. ASSUME NEW page \in Page, guest' = [guest EXCEPT ![g] = page],
                 PageOf(page, faces[g], rewritten[g], reshaped[g])
          PROVE  MenuInv'
      BY <2>1, <2>2, <2>4, PageStep
    <2>5. CASE ReadCategories(g)
      <3> DEFINE page == [guest[g] EXCEPT !.at = "categories", !.cats = ActiveCategories]
      <3>1. guest' = [guest EXCEPT ![g] = page] /\ guest[g].at = "found"
        BY <2>5 DEF ReadCategories, MenuTypes
      <3>2. page \in Page /\ page.at = "categories" /\ page.cats = ActiveCategories
        BY <2>2 DEF Page, GuestPlaces, ActiveCategories
      <3> HIDE DEF page
      <3>3. \A p \in Products : Face(p) \in faces[g][p]
        BY <2>3, <3>1 DEF PageOf, UpToDate
      <3>4. \A p \in Products : PricesOf(AvailableIn(ActiveCategories))[p] = Face(p)
        BY ReadAtOnce DEF ActiveCategories
      <3>5. PageOf(page, faces[g], rewritten[g], reshaped[g])
        BY <3>2, <3>3, <3>4 DEF PageOf, HalfRead, UpToDate, InGoodFaith, ActiveCategories, OnPage
      <3> QED
        BY <2>4, <3>1, <3>2, <3>5
    <2>6. CASE \E items \in SUBSET Products : BeginOrder(g, items)
      <3>1. PICK items \in SUBSET Products : BeginOrder(g, items)
        BY <2>6
      <3> DEFINE page == [guest[g] EXCEPT !.at = "ordering", !.items = items]
      <3>2. guest' = [guest EXCEPT ![g] = page] /\ guest[g].at = "menu"
        BY <3>1 DEF BeginOrder, MenuTypes
      <3>3. page \in Page /\ page.at = "ordering" /\ page.shown = guest[g].shown
        BY <2>2 DEF Page, GuestPlaces
      <3> HIDE DEF page
      <3>4. PageOf(page, faces[g], rewritten[g], reshaped[g])
        BY <2>3, <3>2, <3>3 DEF PageOf, HalfRead, UpToDate, InGoodFaith, OnPage
      <3> QED
        BY <2>4, <3>2, <3>3, <3>4
    <2>7. CASE SubmitOrder(g)
      <3>1. guest[g].at = "ordering"
        BY <2>7 DEF SubmitOrder
      <3>2. \A p \in Products : Face(p) \in faces[g][p]
        BY <2>3, <3>1 DEF PageOf, UpToDate
      <3>3. \A p \in Products \ rewritten[g] : guest[g].shown[p] \in faces[g][p]
        BY <2>3, <3>1 DEF PageOf, InGoodFaith, OnPage
      <3>4. CASE \A p \in guest[g].items : Sellable(p)
        <4> DEFINE page == [guest[g] EXCEPT !.at = "ordered",
                                            !.charged = PricesOf(guest[g].items)]
        <4>1. guest' = [guest EXCEPT ![g] = page]
          BY <2>7, <3>4 DEF SubmitOrder, MenuTypes
        <4>2. guest[g].items \in SUBSET {p \in Products : product[p].state = "sold"}
          BY <2>2, <3>4 DEF Page, Sellable
        <4>3. /\ page \in Page /\ page.at = "ordered" /\ page.items = guest[g].items
              /\ page.shown = guest[g].shown /\ page.charged = PricesOf(guest[g].items)
          BY <2>2, <4>2, PricesAreAmounts DEF Page, GuestPlaces
        <4> HIDE DEF page
        <4>4. \A p \in page.items : page.charged[p] = product[p].row.price
          BY <4>2, <4>3, PricesAreAmounts
        \* It is sold at what it is to be seen at, or off the menus.
        <4>5. \A p \in page.items : Face(p) \in {page.charged[p], Nothing}
          BY <4>4 DEF Face
        <4>6. \A p \in page.items : {page.charged[p], Nothing} \cap faces[g][p] # {}
          BY <3>2, <4>2, <4>3, <4>5
        <4>7. PageOf(page, faces[g], rewritten[g], reshaped[g])
          BY <3>3, <4>3, <4>6 DEF PageOf, HalfRead, UpToDate, InGoodFaith
        <4> QED
          BY <2>4, <4>1, <4>3, <4>7
      <3>5. CASE ~ \A p \in guest[g].items : Sellable(p)
        <4> DEFINE page == [guest[g] EXCEPT !.at = "refused"]
        <4>1. guest' = [guest EXCEPT ![g] = page]
          BY <2>7, <3>5 DEF SubmitOrder, MenuTypes
        <4>2. /\ page \in Page /\ page.at = "refused" /\ page.items = guest[g].items
              /\ page.shown = guest[g].shown
          BY <2>2 DEF Page, GuestPlaces
        <4> HIDE DEF page
        <4>3. PICK p \in page.items : ~Sellable(p)
          BY <3>5, <4>2
        <4>4. p \in Products /\ Face(p) = Nothing
          BY <4>2, <4>3 DEF Page, Sellable, Face, Visible
        <4>5. Nothing \in faces[g][p]
          BY <3>2, <4>4
        <4>6. PageOf(page, faces[g], rewritten[g], reshaped[g])
          BY <3>3, <4>2, <4>5 DEF PageOf, HalfRead, UpToDate, InGoodFaith
        <4> QED
          BY <2>4, <4>1, <4>2, <4>6
      <3> QED
        BY <3>4, <3>5
    <2> QED
      BY <1>3, <2>5, <2>6, <2>7
  <1> QED
    BY <1>1, <1>2, <1>3 DEF GuestStep

LEMMA MenuReboot ==
  ASSUME MenuInv, Reboot
  PROVE  MenuInv'
  <1> USE DEF MenuInv
  <1>1. /\ UNCHANGED <<category, product, faces, rewritten>>
        /\ edit' = [e \in Editors |-> NoEdit]
        /\ reshaped' = [g \in Guests |-> {}]
        /\ guest' \in [Guests -> Page]
        /\ \A g \in Guests :
             \/ guest'[g] = Away
             \/ guest'[g] = guest[g] /\ guest[g].at # "categories"
    BY AwayIsAPage DEF Reboot, doorRows, MenuTypes
  <1>2. MenuTypes'
    BY <1>1, NoEditIsAnEdit DEF MenuTypes
  <1>3. RowsInPlace'
    BY <1>1, NoEditIsAnEdit DEF RowsInPlace
  <1>4. ASSUME NEW g \in Guests
        PROVE  PageOf(guest[g], faces[g], rewritten[g], reshaped[g])'
    <2>1. guest'[g].at # "categories"
      BY <1>1, AwayIsAPage
    <2>2. UpToDate(guest'[g], faces[g]) /\ InGoodFaith(guest'[g], faces[g], rewritten[g])
      BY <1>1, AwayIsAPage DEF PageOf, UpToDate, InGoodFaith, OnPage
    <2> QED
      BY <1>1, <2>1, <2>2 DEF PageOf, HalfRead, UpToDate, InGoodFaith, Face, Visible
  <1> QED
    BY <1>2, <1>3, <1>4

LEMMA MenuStep == MenuInv /\ [DoorNext]_doorVars => MenuInv'
  <1> SUFFICES ASSUME MenuInv, [DoorNext]_doorVars PROVE MenuInv'
    OBVIOUS
  <1>1. CASE EditStep
    BY <1>1, CategoryStep, BeginEditStep, ProductStep DEF EditStep
  <1>2. CASE CodeStep
    BY <1>2, MenuStutter
    DEF CodeStep, CreateTable, DeactivateTable, BeginRenewal, WriteCode, AuditRenewal,
        menuVars, doorRows
  <1>3. CASE GuestStep
    BY <1>3, GuestMenuStep
  <1>4. CASE Reboot
    BY <1>4, MenuReboot
  <1>5. CASE UNCHANGED doorVars
    BY <1>5, MenuStutter DEF doorVars, doorRows, menuVars
  <1> QED
    BY <1>1, <1>2, <1>3, <1>4, <1>5 DEF DoorNext

\* MenusKeepTheirWord: although products and categories are written between the two
\* reads of a menu and the order placed from it, what a page shows or leaves out was
\* so at a moment since it was asked for, orders are refused only for what went off
\* the menus and charged at prices that were to be seen, or for what went off.  The
\* exception is shown in a product that was written between the two reads into a
\* category that came or went between them too.
THEOREM MenusAlwaysKeepTheirWord == DoorSpec => []MenusKeepTheirWord
  <1>1. MenuInv => MenusKeepTheirWord
    BY DEF MenuInv, PageOf, InGoodFaith, MenusKeepTheirWord
  <1> QED
    BY <1>1, MenuInit, MenuStep, PTL DEF DoorSpec

-----------------------------------------------------------------------------
(***************************************************************************)
(* The codes.                                                              *)
(***************************************************************************)
codeVars == <<table, renewals, renewal, codeHistory>>

RenewalSlot == [at: {"idle", "read", "written"}, table: NullOr(Tables),
                old: NullOr(Codes), new: NullOr(Codes)]

CodeTypes ==
  /\ table \in [Tables -> TableState]
  /\ renewals \subseteq RenewalRow
  /\ renewal \in [Editors -> RenewalSlot]
  /\ had \in [Tables -> SUBSET Codes]
  /\ mixed \subseteq Tables
  /\ lost \subseteq RenewalRow
  /\ \A e \in Editors : renewal[e].at = "written" => renewal[e].new \in Codes

\* All the rows there are to tell of renewals, one for each that has written.
Told == renewals \cup lost \cup Unwritten

\* A table has a code from its insert on, and has had it; so have the codes that
\* rows and requests name.
CodesAreKept ==
  /\ \A t \in Tables :
       IF table[t].state = "unborn" THEN table[t].code = Nothing /\ had[t] = {}
                                    ELSE table[t].code \in had[t]
  /\ \A r \in Told : r.old # r.new /\ {r.old, r.new} \subseteq had[r.table]
  /\ \A e \in Editors :
       renewal[e].at # "idle" =>
         /\ renewal[e].table \in Tables
         /\ table[renewal[e].table].state # "unborn"
         /\ renewal[e].old \in had[renewal[e].table]

CodesAreUnique ==
  \A t, u \in Tables : table[t].code = table[u].code => t = u \/ table[t].code = Nothing

Named(t, code) == \E r \in Told : r.table = t /\ code \in {r.old, r.new}

\* A table has one code until the first row names both that and the second one;
\* every later one is the new value of its own row.
CodesAreNamed ==
  \A t \in Tables : (\E code : had[t] \subseteq {code}) \/ \A code \in had[t] : Named(t, code)

\* The only renewal of a table knows the code it is about to replace.
RenewalsAreFresh ==
  /\ \A e, f \in Editors :
       renewal[e].at # "idle" /\ renewal[f].at # "idle"
         /\ renewal[e].table = renewal[f].table /\ renewal[e].table \notin mixed => e = f
  /\ \A e \in Editors :
       renewal[e].at = "read" /\ renewal[e].table \notin mixed =>
         renewal[e].old = table[renewal[e].table].code

Replaced(t, code) == \E r \in Told : r.table = t /\ r.old = code

\* Renewed by one request at a time, the code a table has was replaced by none of
\* the rows, and each it has lost by one.
Ledger ==
  \A t \in Tables \ mixed : \A code \in had[t] :
    /\ Replaced(t, code) <=> code # table[t].code
    /\ \A r, s \in Told :
         r.table = t /\ s.table = t /\ r.old = code /\ s.old = code => r = s

CodeInv ==
  /\ CodeTypes
  /\ CodesAreKept
  /\ CodesAreUnique
  /\ CodesAreNamed
  /\ RenewalsAreFresh
  /\ Ledger

LEMMA NoRenewalIsASlot == NoRenewal \in RenewalSlot /\ NoRenewal.at = "idle"
  BY DEF NoRenewal, RenewalSlot, NullOr

LEMMA ToldRows ==
  ASSUME CodeInv
  PROVE  Told \subseteq RenewalRow
  <1>1. Unwritten \subseteq RenewalRow
    BY DEF Unwritten, AuditRow, RenewalRow, CodeInv, CodeTypes, CodesAreKept
  <1> QED
    BY <1>1 DEF Told, CodeInv, CodeTypes

LEMMA CodeInit == DoorInit => CodeInv
  <1> SUFFICES ASSUME DoorInit PROVE CodeInv
    OBVIOUS
  <1>1. CodeTypes
    BY NoRenewalIsASlot DEF DoorInit, CodeTypes, TableState, NullOr
  <1>2. Told = {}
    BY NoRenewalIsASlot DEF DoorInit, Told, Unwritten
  <1>3. CodesAreKept /\ CodesAreUnique /\ CodesAreNamed /\ RenewalsAreFresh /\ Ledger
    BY <1>2, NoRenewalIsASlot
    DEF DoorInit, CodesAreKept, CodesAreUnique, CodesAreNamed, RenewalsAreFresh, Ledger
  <1> QED
    BY <1>1, <1>3 DEF CodeInv

\* A step that leaves every row to be told and every code where they are, and
\* renewals where they are or done.
LEMMA QuietStep ==
  ASSUME CodeInv, CodeTypes', Told' = Told, UNCHANGED had, mixed \subseteq mixed',
         \A t \in Tables : /\ table'[t].code = table[t].code
                           /\ table'[t].state = "unborn" <=> table[t].state = "unborn",
         \A e \in Editors : renewal'[e] = renewal[e] \/ renewal'[e].at = "idle"
  PROVE  CodeInv'
  <1> USE DEF CodeInv
  <1>1. CodesAreKept' /\ CodesAreUnique' /\ CodesAreNamed'
    BY DEF CodesAreKept, CodesAreUnique, CodesAreNamed, Named
  <1>2. RenewalsAreFresh'
    <2>1. \A e, f \in Editors :
            renewal'[e].at # "idle" /\ renewal'[f].at # "idle"
              /\ renewal'[e].table = renewal'[f].table /\ renewal'[e].table \notin mixed'
              => e = f
      BY DEF RenewalsAreFresh
    <2>2. ASSUME NEW e \in Editors, renewal'[e].at = "read", renewal'[e].table \notin mixed'
          PROVE  renewal'[e].old = table'[renewal'[e].table].code
      <3>1. renewal'[e] = renewal[e]
        BY <2>2
      <3> QED
        BY <2>2, <3>1 DEF RenewalsAreFresh, CodesAreKept
    <2> QED
      BY <2>1, <2>2 DEF RenewalsAreFresh
  <1>3. Ledger'
    BY DEF Ledger, Replaced
  <1> QED
    BY <1>1, <1>2, <1>3

LEMMA CodeStutter == CodeInv /\ UNCHANGED codeVars => CodeInv'
  <1> SUFFICES ASSUME CodeInv, UNCHANGED codeVars PROVE CodeInv'
    OBVIOUS
  <1>1. UNCHANGED <<table, renewals, renewal, had, mixed, lost>>
    BY DEF codeVars, codeHistory
  <1>2. Told' = Told
    BY <1>1 DEF Told, Unwritten
  <1>3. CodeTypes'
    BY <1>1 DEF CodeInv, CodeTypes
  <1> QED
    BY <1>1, <1>2, <1>3, QuietStep

LEMMA CreateTableStep ==
  ASSUME CodeInv, NEW t \in Tables, NEW code \in Codes, CreateTable(t, code)
  PROVE  CodeInv'
  <1> USE NothingAssumption
  <1> USE DEF CodeInv
  <1>1. /\ table[t].state = "unborn"
        /\ table' = [table EXCEPT ![t] = [state |-> "active", code |-> code]]
        /\ had' = [had EXCEPT ![t] = {code}]
        /\ UNCHANGED <<renewals, renewal, mixed, lost>>
        /\ \A u \in Tables : table[u].code # code /\ code \notin had[u]
    BY DEF CreateTable, Drawn, InUse, Spent
  <1>2. CodeTypes'
    BY <1>1 DEF CodeTypes, TableState, NullOr
  <1>3. Told' = Told
    BY <1>1 DEF Told, Unwritten
  <1>4. had[t] = {} /\ \A r \in Told : r.table # t
    BY <1>1 DEF CodesAreKept
  <1>5. \A e \in Editors : renewal[e].at # "idle" => renewal[e].table # t
    BY <1>1 DEF CodesAreKept
  <1>6. /\ \A u \in Tables \ {t} : table'[u] = table[u] /\ had'[u] = had[u]
        /\ table'[t].state = "active" /\ table'[t].code = code /\ had'[t] = {code}
    BY <1>1 DEF CodeTypes
  <1>7. CodesAreKept'
    BY <1>1, <1>3, <1>4, <1>5, <1>6, ToldRows DEF CodesAreKept, RenewalRow
  <1>8. CodesAreUnique'
    BY <1>1, <1>6 DEF CodesAreUnique
  <1>9. CodesAreNamed'
    BY <1>3, <1>6 DEF CodesAreNamed, Named
  <1>10. RenewalsAreFresh'
    BY <1>1, <1>5, <1>6 DEF RenewalsAreFresh, CodesAreKept
  <1>11. Ledger'
    BY <1>1, <1>3, <1>4, <1>6 DEF Ledger, Replaced
  <1> QED
    BY <1>2, <1>7, <1>8, <1>9, <1>10, <1>11

LEMMA DeactivateTableStep ==
  ASSUME CodeInv, NEW t \in Tables, DeactivateTable(t)
  PROVE  CodeInv'
  <1>1. /\ table[t].state = "active"
        /\ table' = [table EXCEPT ![t].state = "removed"]
        /\ UNCHANGED <<renewals, renewal, codeHistory>>
    BY DEF DeactivateTable
  <1>2. CodeTypes'
    BY <1>1 DEF CodeInv, CodeTypes, TableState, codeHistory
  <1>3. \A u \in Tables : /\ table'[u].code = table[u].code
                          /\ table'[u].state = "unborn" <=> table[u].state = "unborn"
    BY <1>1 DEF CodeInv, CodeTypes, TableState
  <1>4. Told' = Told
    BY <1>1 DEF Told, Unwritten, codeHistory
  <1> QED
    BY <1>1, <1>2, <1>3, <1>4, QuietStep DEF codeHistory

LEMMA BeginRenewalStep ==
  ASSUME CodeInv, NEW e \in Editors, NEW t \in Tables, BeginRenewal(e, t)
  PROVE  CodeInv'
  <1> USE DEF CodeInv
  <1>1. /\ renewal[e].at = "idle" /\ table[t].state # "unborn"
        /\ renewal' = [renewal EXCEPT ![e] =
             [at |-> "read", table |-> t, old |-> table[t].code, new |-> Nothing]]
        /\ mixed \subseteq mixed' /\ mixed' \subseteq Tables
        /\ Renewing(t) # {} => t \in mixed'
        /\ UNCHANGED <<table, renewals, had, lost>>
    BY DEF BeginRenewal, doorRows, CodeTypes
  <1>2. CodeTypes'
    BY <1>1 DEF CodeTypes, RenewalSlot, TableState, NullOr
  <1>3. Told' = Told
    BY <1>1 DEF Told, Unwritten, CodeTypes
  <1>4. CodesAreKept' /\ CodesAreUnique' /\ CodesAreNamed'
    BY <1>1, <1>3 DEF CodesAreKept, CodesAreUnique, CodesAreNamed, Named, CodeTypes
  <1>5. RenewalsAreFresh'
    BY <1>1 DEF RenewalsAreFresh, Renewing, CodeTypes
  <1>6. Ledger'
    BY <1>1, <1>3 DEF Ledger, Replaced
  <1> QED
    BY <1>2, <1>4, <1>5, <1>6

LEMMA WriteCodeStep ==
  ASSUME CodeInv, NEW e \in Editors, NEW code \in Codes, WriteCode(e, code)
  PROVE  CodeInv'
  <1> USE NothingAssumption
  <1> USE DEF CodeInv
  <1>0. PICK t \in Tables : t = renewal[e].table
    BY DEF WriteCode, CodesAreKept
  <1> DEFINE row == [table |-> t, old |-> renewal[e].old, new |-> code]
  <1>1. /\ renewal[e].at = "read"
        /\ table' = [table EXCEPT ![t].code = code]
        /\ renewal' = [renewal EXCEPT ![e].at = "written", ![e].new = code]
        /\ had' = [had EXCEPT ![t] = @ \cup {code}]
        /\ UNCHANGED <<renewals, mixed, lost>>
        /\ \A u \in Tables : table[u].code # code /\ code \notin had[u]
    BY <1>0 DEF WriteCode, Drawn, InUse, Spent
  <1>2. table[t].state # "unborn" /\ renewal[e].old \in had[t]
    BY <1>0, <1>1 DEF CodesAreKept
  <1>3. renewal' = [renewal EXCEPT ![e] = [renewal[e] EXCEPT !.at = "written", !.new = code]]
    BY <1>1 DEF CodeTypes
  <1>4. renewal[e] \in RenewalSlot
    BY DEF CodeTypes
  <1>5. [renewal[e] EXCEPT !.at = "written", !.new = code] \in RenewalSlot
    BY <1>4 DEF RenewalSlot, NullOr
  <1>6. /\ \A f \in Editors \ {e} : renewal'[f] = renewal[f]
        /\ renewal'[e].at = "written" /\ renewal'[e].table = t
        /\ renewal'[e].old = renewal[e].old /\ renewal'[e].new = code
    <2>1. /\ renewal'[e] = [renewal[e] EXCEPT !.at = "written", !.new = code]
          /\ \A f \in Editors \ {e} : renewal'[f] = renewal[f]
      BY <1>3 DEF CodeTypes
    <2> QED
      BY <1>0, <1>4, <2>1 DEF RenewalSlot
  <1>7. /\ table'[t].code = code /\ table'[t].state = table[t].state
        /\ \A u \in Tables \ {t} : table'[u] = table[u] /\ had'[u] = had[u]
        /\ had'[t] = had[t] \cup {code}
    BY <1>0, <1>1 DEF CodeTypes, TableState
  <1>8. CodeTypes'
    <2>1. table' \in [Tables -> TableState] /\ had' \in [Tables -> SUBSET Codes]
      BY <1>1 DEF CodeTypes, TableState, NullOr
    <2>2. renewal' \in [Editors -> RenewalSlot]
      BY <1>3, <1>5 DEF CodeTypes
    <2>3. \A f \in Editors : renewal'[f].at = "written" => renewal'[f].new \in Codes
      BY <1>6 DEF CodeTypes
    <2> QED
      BY <1>1, <2>1, <2>2, <2>3 DEF CodeTypes
  \* One more row is there to tell, and it is this one.
  <1>9. Told' = Told \cup {row}
    <2>1. AuditRow(renewal'[e]) = row
      BY <1>6 DEF AuditRow
    <2>2. \A r : r \in Unwritten' <=>
            \E f \in Editors : renewal'[f].at = "written" /\ r = AuditRow(renewal'[f])
      BY DEF Unwritten
    <2>3. \A r : r \in Unwritten <=>
            \E f \in Editors : renewal[f].at = "written" /\ r = AuditRow(renewal[f])
      BY DEF Unwritten
    <2>4. renewal[e].at # "written"
      BY <1>1
    <2> HIDE DEF row
    <2>5. Unwritten' = Unwritten \cup {row}
      BY <1>6, <2>1, <2>2, <2>3, <2>4
    <2> QED
      BY <1>1, <2>5 DEF Told
  <1>10. Told \subseteq RenewalRow
    BY ToldRows
  <1>11. row.table = t /\ row.old = renewal[e].old /\ row.new = code
    OBVIOUS
  <1> HIDE DEF row
  <1>12. CodesAreKept'
    <2>1. \A u \in Tables : had[u] \subseteq had'[u]
      BY <1>7
    <2>2. \A u \in Tables :
            /\ table'[u].state = table[u].state
            /\ IF table'[u].state = "unborn" THEN table'[u].code = Nothing /\ had'[u] = {}
                                             ELSE table'[u].code \in had'[u]
      BY <1>2, <1>7 DEF CodesAreKept
    <2>3. \A r \in Told' : r.old # r.new /\ {r.old, r.new} \subseteq had'[r.table]
      <3>1. row.old # row.new /\ {row.old, row.new} \subseteq had'[row.table]
        BY <1>1, <1>2, <1>7, <1>11
      <3>2. \A r \in Told : r.old # r.new /\ {r.old, r.new} \subseteq had'[r.table]
        BY <1>10, <2>1 DEF CodesAreKept, RenewalRow
      <3> QED
        BY <1>9, <3>1, <3>2
    <2>4. ASSUME NEW f \in Editors, renewal'[f].at # "idle"
          PROVE  /\ renewal'[f].table \in Tables
                 /\ table'[renewal'[f].table].state # "unborn"
                 /\ renewal'[f].old \in had'[renewal'[f].table]
      BY <1>0, <1>2, <1>6, <2>1, <2>2, <2>4 DEF CodesAreKept
    <2> QED
      BY <2>2, <2>3, <2>4 DEF CodesAreKept
  <1>13. CodesAreUnique'
    BY <1>1, <1>2, <1>7 DEF CodesAreUnique
  <1>14. CodesAreNamed'
    <2> SUFFICES ASSUME NEW u \in Tables
                 PROVE  \/ \E c : had'[u] \subseteq {c}
                        \/ \A c \in had'[u] : Named(u, c)'
      BY DEF CodesAreNamed
    <2>1. \A c : Named(u, c) => Named(u, c)'
      BY <1>9 DEF Named
    <2>2. CASE u # t
      BY <1>7, <2>1, <2>2 DEF CodesAreNamed
    <2>3. CASE u = t
      <3>1. PICK old : old = renewal[e].old
        OBVIOUS
      <3>2. Named(t, old)' /\ Named(t, code)'
        BY <1>9, <1>11, <3>1 DEF Named
      <3>3. \A c \in had[t] : Named(t, c) \/ c = old
        BY <1>2, <3>1 DEF CodesAreNamed
      <3> QED
        BY <1>7, <2>1, <2>3, <3>2, <3>3
    <2> QED
      BY <2>2, <2>3
  <1>15. RenewalsAreFresh'
    <2>1. \A f \in Editors : /\ renewal'[f].table = renewal[f].table
                             /\ renewal'[f].at = "idle" <=> renewal[f].at = "idle"
      BY <1>0, <1>1, <1>6
    <2>2. \A f, h \in Editors :
            renewal'[f].at # "idle" /\ renewal'[h].at # "idle"
              /\ renewal'[f].table = renewal'[h].table /\ renewal'[f].table \notin mixed'
              => f = h
      BY <1>1, <2>1 DEF RenewalsAreFresh
    <2>3. ASSUME NEW f \in Editors, renewal'[f].at = "read", renewal'[f].table \notin mixed'
          PROVE  renewal'[f].old = table'[renewal'[f].table].code
      <3>1. f # e /\ renewal'[f] = renewal[f] /\ renewal[f].table \in Tables
        BY <1>6, <2>3 DEF CodesAreKept
      <3>2. renewal[f].table # t
        BY <1>0, <1>1, <2>3, <3>1 DEF RenewalsAreFresh
      <3> QED
        BY <1>1, <1>7, <2>3, <3>1, <3>2 DEF RenewalsAreFresh
    <2> QED
      BY <2>2, <2>3 DEF RenewalsAreFresh
  <1>16. Ledger'
    <2> SUFFICES ASSUME NEW u \in Tables \ mixed, NEW c \in had'[u]
                 PROVE  /\ Replaced(u, c)' <=> c # table'[u].code
                        /\ \A r, s \in Told' :
                             r.table = u /\ s.table = u /\ r.old = c /\ s.old = c => r = s
      BY <1>1 DEF Ledger
    <2>1. CASE u # t
      <3>1. c \in had[u] /\ table'[u] = table[u]
        BY <1>7, <2>1
      <3>2. \A r \in Told' : r.table = u => r \in Told
        BY <1>9, <1>11, <2>1
      <3>3. Replaced(u, c)' <=> Replaced(u, c)
        BY <1>9, <3>2 DEF Replaced
      <3> QED
        BY <3>1, <3>2, <3>3 DEF Ledger
    <2>2. CASE u = t
      \* It knew the code it has replaced.
      <3>1. renewal[e].old = table[t].code
        BY <1>0, <1>1, <2>2 DEF RenewalsAreFresh
      <3>2. \A r \in Told : r.table = t => r.old # table[t].code /\ r.old # code
        BY <1>1, <1>2, <2>2 DEF Ledger, Replaced, CodesAreKept
      <3>3. CASE c \in {code, table[t].code}
        <4>1. \A r \in Told' : r.table = t /\ r.old = c => r = row /\ c = table[t].code
          BY <1>1, <1>9, <1>11, <3>1, <3>2, <3>3
        <4>2. c = table[t].code => Replaced(t, c)'
          BY <1>9, <1>11, <3>1 DEF Replaced
        <4>3. Replaced(t, c)' => c = table[t].code
          BY <4>1 DEF Replaced
        <4>4. table[t].code # code
          BY <1>1
        <4> QED
          BY <1>7, <2>2, <3>3, <4>1, <4>2, <4>3, <4>4
      <3>4. CASE c \notin {code, table[t].code}
        <4>1. c \in had[t]
          BY <1>7, <2>2, <3>4
        <4>2. \A r \in Told' : r.table = t /\ r.old = c => r \in Told
          BY <1>9, <1>11, <3>1, <3>4
        <4>3. Replaced(t, c)
          BY <2>2, <3>4, <4>1 DEF Ledger
        <4>4. Replaced(t, c)'
          BY <1>9, <4>3 DEF Replaced
        <4> QED
          BY <1>7, <2>2, <3>4, <4>1, <4>2, <4>4 DEF Ledger
      <3> QED
        BY <3>3, <3>4
    <2> QED
      BY <2>1, <2>2
  <1> QED
    BY <1>8, <1>12, <1>13, <1>14, <1>15, <1>16

LEMMA AuditRenewalStep ==
  ASSUME CodeInv, NEW e \in Editors, AuditRenewal(e)
  PROVE  CodeInv'
  <1> DEFINE row == AuditRow(renewal[e])
  <1>1. /\ renewal[e].at = "written"
        /\ renewal' = [renewal EXCEPT ![e] = NoRenewal]
        /\ UNCHANGED <<table, had, mixed>>
        /\ \/ renewals' = renewals \cup {row} /\ lost' = lost
           \/ lost' = lost \cup {row} /\ renewals' = renewals
    BY DEF AuditRenewal
  <1>2. row \in Unwritten /\ row \in Told
    BY <1>1 DEF Unwritten, Told
  <1>3. \A f \in Editors : renewal'[f] = renewal[f] \/ renewal'[f].at = "idle"
    BY <1>1, NoRenewalIsASlot DEF CodeInv, CodeTypes
  <1>4. Unwritten' \subseteq Unwritten /\ Unwritten \subseteq Unwritten' \cup {row}
    BY <1>1, NoRenewalIsASlot DEF Unwritten, CodeInv, CodeTypes
  <1>5. Told' = Told
    <2> HIDE DEF row
    <2> QED
      BY <1>1, <1>2, <1>4 DEF Told
  <1>6. row \in RenewalRow
    BY <1>2, ToldRows
  <1>7. CodeTypes'
    <2> HIDE DEF row
    <2> QED
      BY <1>1, <1>6, NoRenewalIsASlot DEF CodeInv, CodeTypes
  <1> QED
    BY <1>1, <1>3, <1>5, <1>7, QuietStep

LEMMA CodeReboot ==
  ASSUME CodeInv, Reboot
  PROVE  CodeInv'
  <1>1. /\ renewal' = [e \in Editors |-> NoRenewal]
        /\ UNCHANGED <<table, renewals, had, mixed>>
        /\ lost' = lost \cup Unwritten
    BY DEF Reboot, doorRows
  <1>2. \A e \in Editors : renewal'[e].at = "idle"
    BY <1>1, NoRenewalIsASlot
  <1>3. Unwritten' = {}
    BY <1>2 DEF Unwritten
  <1>4. Told' = Told
    BY <1>1, <1>3 DEF Told
  <1>5. CodeTypes'
    BY <1>1, NoRenewalIsASlot, ToldRows DEF CodeInv, CodeTypes, Told
  <1> QED
    BY <1>1, <1>2, <1>4, <1>5, QuietStep

LEMMA CodeInvStep == CodeInv /\ [DoorNext]_doorVars => CodeInv'
  <1> SUFFICES ASSUME CodeInv, [DoorNext]_doorVars PROVE CodeInv'
    OBVIOUS
  <1>1. CASE EditStep
    BY <1>1, CodeStutter
    DEF EditStep, CreateCategory, RemoveCategory, BeginProduct, BeginUpdate, InsertProduct,
        WriteProduct, RemoveProduct, codeVars, doorRows
  <1>2. CASE CodeStep
    BY <1>2, CreateTableStep, DeactivateTableStep, BeginRenewalStep, WriteCodeStep,
       AuditRenewalStep
    DEF CodeStep
  <1>3. CASE GuestStep
    BY <1>3, CodeStutter
    DEF GuestStep, Scan, ReadCategories, ReadProducts, BeginOrder, SubmitOrder, codeVars,
        doorRows
  <1>4. CASE Reboot
    BY <1>4, CodeReboot
  <1>5. CASE UNCHANGED doorVars
    BY <1>5, CodeStutter DEF doorVars, doorRows, codeVars
  <1> QED
    BY <1>1, <1>2, <1>3, <1>4, <1>5 DEF DoorNext

\* CodesAreAccountedFor: no two tables share a code, and however renewals interleave,
\* fail at their audit or are cut off, every code that a table has lost is named by a
\* row that was written, is about to be or was lost, and every such row names two
\* codes the table has had; renewed by one request at a time, each lost code is the
\* old value of one of these rows and the present one of none.
THEOREM CodesStayAccountedFor == DoorSpec => []CodesAreAccountedFor
  <1>1. CodeInv => CodesAreAccountedFor
    <2> SUFFICES ASSUME CodeInv, NEW t \in Tables
                 PROVE  LET gone == had[t] \ {table[t].code}
                        IN /\ \A code \in gone : \E r \in Trail(t) : code \in {r.old, r.new}
                           /\ \A r \in Trail(t) : r.old # r.new /\ {r.old, r.new} \subseteq had[t]
                           /\ t \notin mixed =>
                                \A code \in had[t] :
                                  Cardinality({r \in Trail(t) : r.old = code})
                                    = IF code \in gone THEN 1 ELSE 0
      BY DEF CodesAreAccountedFor, CodeInv, CodesAreUnique
    <2> USE DEF CodeInv
    <2>1. Trail(t) = {r \in Told : r.table = t}
      BY DEF Trail, Told
    <2>2. ASSUME NEW code \in had[t] \ {table[t].code}
          PROVE  \E r \in Trail(t) : code \in {r.old, r.new}
      <3>1. table[t].code \in had[t]
        BY <2>2 DEF CodesAreKept
      <3>2. Named(t, code)
        BY <2>2, <3>1 DEF CodesAreNamed
      <3> QED
        BY <2>1, <3>2 DEF Named
    <2>3. \A r \in Trail(t) : r.old # r.new /\ {r.old, r.new} \subseteq had[t]
      BY <2>1 DEF CodesAreKept
    <2>4. ASSUME t \notin mixed, NEW code \in had[t]
          PROVE  Cardinality({r \in Trail(t) : r.old = code})
                   = IF code \in had[t] \ {table[t].code} THEN 1 ELSE 0
      <3> DEFINE found == {r \in Trail(t) : r.old = code}
      <3>1. CASE code = table[t].code
        <4>1. found = {}
          BY <2>1, <2>4, <3>1 DEF Ledger, Replaced
        <4> QED
          BY <3>1, <4>1, FS_EmptySet
      <3>2. CASE code # table[t].code
        <4>1. PICK r \in Told : r.table = t /\ r.old = code
          BY <2>4, <3>2 DEF Ledger, Replaced
        <4>2. found = {r}
          BY <2>1, <2>4, <4>1 DEF Ledger
        <4> QED
          BY <3>2, <4>2, FS_Singleton
      <3> QED
        BY <3>1, <3>2
    <2> QED
      BY <2>2, <2>3, <2>4
  <1> QED
    BY <1>1, CodeInit, CodeInvStep, PTL DEF DoorSpec

\* DoorTypeOK: every row, request and page is of its type, in every reachable
\* state and for any number of them.
THEOREM DoorTypes == DoorSpec => []DoorTypeOK
  <1>1. MenuInv /\ CodeInv => DoorTypeOK
    BY DEF MenuInv, MenuTypes, Page, CodeInv, CodeTypes, RenewalSlot, DoorTypeOK
  <1> QED
    BY <1>1, MenuInit, MenuStep, CodeInit, CodeInvStep, PTL DEF DoorSpec

-----------------------------------------------------------------------------
(***************************************************************************)
(* The streams.                                                            *)
(***************************************************************************)
\* How far an order has come.
Rank(s) ==
  CASE s = "unplaced"  -> 0
    [] s = "pending"   -> 1
    [] s = "accepted"  -> 2
    [] s = "preparing" -> 3
    [] s = "ready"     -> 4
    [] s = "served"    -> 5
    [] s = "paid"      -> 6
    [] s = "completed" -> 7
    [] s = "cancelled" -> 8

Rises(u) == \A i, j \in DOMAIN u : i < j => Rank(u[i]) < Rank(u[j])

\* No status is entered twice.
TrailRises == Rises(trail)

\* An event tells of a status that was committed before.
EventsFollowRows ==
  /\ announced \subseteq Range(trail)
  /\ \A h \in Handlers : Range(slot[h].due) \subseteq Range(trail)

\* What a stream was sent since it read its snapshot.
StreamsFollow ==
  \A c \in Streams :
    /\ stream[c] \in {"checked", "attached", "read", "open"} => trail # <<>>
    /\ stream[c] \in {"read", "open"} =>
         /\ snap[c] \in OrderStatus
         /\ \A s \in announced : Rank(s) > Rank(snap[c]) => s \in feed[c]
    /\ stream[c] = "open" => snap[c] \in feed[c]

StreamInv == TypeOK /\ TrailRises /\ EventsFollowRows /\ StreamsFollow

LEMMA Ranks ==
  /\ \A s \in OrderStatus \cup {"unplaced"} : Rank(s) \in 0 .. 8
  /\ \A s \in OrderStatus : Rank(s) >= Rank("pending")
  BY DEF Rank, OrderStatus, InFlightStatuses, TerminalStatuses

\* The status of an order, and how far its rows have come.
LEMMA LastIsFurthest ==
  ASSUME TypeOK, TrailRises
  PROVE  /\ Status \in OrderStatus \cup {"unplaced"}
         /\ trail # <<>> => Status \in Range(trail) /\ Status \in OrderStatus
         /\ \A s \in Range(trail) : s \in OrderStatus /\ Rank(s) =< Rank(Status)
  <1>1. trail \in Seq(OrderStatus)
    BY DEF TypeOK
  <1>2. CASE trail = <<>>
    <2>1. Range(trail) = {}
      BY <1>2 DEF Range
    <2> QED
      BY <1>2, <2>1 DEF Status
  <1>3. CASE trail # <<>>
    <2>1. /\ Len(trail) \in DOMAIN trail /\ Status = trail[Len(trail)]
          /\ \A i \in DOMAIN trail : i \in 1 .. Len(trail) /\ trail[i] \in OrderStatus
      BY <1>1, <1>3 DEF Status, Last
    <2>2. Status \in OrderStatus /\ Status \in Range(trail)
      BY <2>1 DEF Range
    <2>3. ASSUME NEW i \in DOMAIN trail
          PROVE  trail[i] \in OrderStatus /\ Rank(trail[i]) =< Rank(Status)
      <3>1. i \in 1 .. Len(trail) /\ trail[i] \in OrderStatus
        BY <2>1
      <3>2. CASE i = Len(trail)
        BY <2>1, <2>2, <3>1, <3>2, Ranks
      <3>3. CASE i # Len(trail)
        <4>1. i < Len(trail)
          BY <1>1, <3>1, <3>3
        <4>2. Rank(trail[i]) < Rank(trail[Len(trail)])
          BY <2>1, <4>1 DEF TrailRises, Rises
        <4> QED
          BY <2>1, <2>2, <3>1, <4>2, Ranks
      <3> QED
        BY <3>2, <3>3
    <2> QED
      BY <2>2, <2>3 DEF Range
  <1> QED
    BY <1>2, <1>3

\* What an operation writes it announces, and it goes further.
LEMMA WrittenRises ==
  ASSUME NEW op \in Operations, NEW from \in Origin(op)
  PROVE  /\ Announcement(op, from) = Written(op, from)
         /\ \/ \E s \in OrderStatus : Written(op, from) = <<s>> /\ Rank(from) < Rank(s)
            \/ /\ Written(op, from) = <<"paid", "completed">>
               /\ Rank(from) < Rank("paid")
  <1>1. CASE op = "create"
    BY <1>1 DEF Origin, Written, Announcement, Rank, OrderStatus, InFlightStatuses
  <1>2. CASE op = "pay"
    BY <1>2 DEF Origin, Written, Announcement, Rank
  <1>3. CASE op = "accept"
    BY <1>3 DEF Origin, Written, Announcement, Rank, ExpectedFrom, ToStatus, OrderStatus,
                InFlightStatuses
  <1>4. CASE op = "advance"
    BY <1>4 DEF Origin, Written, Announcement, Rank, ExpectedFrom, ToStatus, OrderStatus,
                InFlightStatuses
  <1>5. CASE op = "serve"
    BY <1>5 DEF Origin, Written, Announcement, Rank, ExpectedFrom, ToStatus, OrderStatus,
                InFlightStatuses
  <1>6. CASE op = "cancel"
    BY <1>6 DEF Origin, Written, Announcement, Rank, ExpectedFrom, ToStatus, OrderStatus,
                InFlightStatuses, TerminalStatuses
  <1> QED
    BY <1>1, <1>2, <1>3, <1>4, <1>5, <1>6 DEF Operations, Actions

LEMMA AppendedRange ==
  ASSUME NEW S, NEW u \in Seq(S), NEW w \in Seq(S)
  PROVE  Range(u \o w) = Range(u) \cup Range(w)
  <1>1. /\ DOMAIN (u \o w) = 1 .. Len(u) + Len(w)
        /\ DOMAIN u = 1 .. Len(u) /\ DOMAIN w = 1 .. Len(w)
        /\ Len(u) \in Nat /\ Len(w) \in Nat
        /\ \A i \in 1 .. Len(u) : (u \o w)[i] = u[i]
        /\ \A i \in 1 .. Len(w) : (u \o w)[Len(u) + i] = w[i]
    OBVIOUS
  <1>2. ASSUME NEW i \in 1 .. Len(u) + Len(w)
        PROVE  (u \o w)[i] \in Range(u) \cup Range(w)
    <2>1. CASE i \in 1 .. Len(u)
      BY <1>1, <2>1 DEF Range
    <2>2. CASE i \notin 1 .. Len(u)
      <3>1. i - Len(u) \in 1 .. Len(w) /\ i = Len(u) + (i - Len(u))
        BY <1>1, <2>2
      <3> QED
        BY <1>1, <3>1 DEF Range
    <2> QED
      BY <2>1, <2>2
  <1>3. \A i \in 1 .. Len(u) : u[i] \in Range(u \o w)
    BY <1>1 DEF Range
  <1>4. ASSUME NEW i \in 1 .. Len(w)
        PROVE  w[i] \in Range(u \o w)
    <2>1. Len(u) + i \in DOMAIN (u \o w) /\ (u \o w)[Len(u) + i] = w[i]
      BY <1>1
    <2> QED
      BY <2>1 DEF Range
  <1>5. Range(u \o w) \subseteq Range(u) \cup Range(w)
    BY <1>1, <1>2 DEF Range
  <1>6. Range(u) \subseteq Range(u \o w) /\ Range(w) \subseteq Range(u \o w)
    BY <1>1, <1>3, <1>4 DEF Range
  <1> QED
    BY <1>5, <1>6

\* A row that goes further than all before keeps the trail rising.
LEMMA AppendRises ==
  ASSUME NEW u \in Seq(OrderStatus), Rises(u), NEW s \in OrderStatus,
         \A i \in DOMAIN u : Rank(u[i]) < Rank(s)
  PROVE  Append(u, s) \in Seq(OrderStatus) /\ Rises(Append(u, s))
  <1>1. /\ DOMAIN Append(u, s) = 1 .. Len(u) + 1 /\ DOMAIN u = 1 .. Len(u)
        /\ \A i \in 1 .. Len(u) : Append(u, s)[i] = u[i]
        /\ Append(u, s)[Len(u) + 1] = s /\ Len(u) \in Nat
        /\ Append(u, s) \in Seq(OrderStatus)
    OBVIOUS
  <1>2. ASSUME NEW i \in 1 .. Len(u) + 1, NEW j \in 1 .. Len(u) + 1, i < j
        PROVE  Rank(Append(u, s)[i]) < Rank(Append(u, s)[j])
    <2>1. i \in 1 .. Len(u)
      BY <1>1, <1>2
    <2>2. CASE j = Len(u) + 1
      BY <1>1, <2>1, <2>2
    <2>3. CASE j # Len(u) + 1
      <3>1. j \in 1 .. Len(u)
        BY <1>1, <2>3
      <3> QED
        BY <1>1, <1>2, <2>1, <3>1 DEF Rises
    <2> QED
      BY <2>2, <2>3
  <1> QED
    BY <1>1, <1>2 DEF Rises

LEMMA CommitStreams ==
  ASSUME StreamInv, NEW h \in Handlers, NEW op \in Operations, Commit(h, op)
  PROVE  StreamInv'
  <1> DEFINE w == Written(op, Status)
  <1>1. /\ Status \in Origin(op) /\ trail' = trail \o w
        /\ slot' = [slot EXCEPT ![h] =
                      [op |-> op, due |-> Announcement(op, Status), audit |-> op \in Audited]]
        /\ UNCHANGED <<announced, stream, snap, feed>>
    BY DEF Commit
  <1>2. trail \in Seq(OrderStatus) /\ Rises(trail)
    BY DEF StreamInv, TypeOK, TrailRises
  <1>3. /\ Announcement(op, Status) = w
        /\ \/ \E s \in OrderStatus : w = <<s>> /\ Rank(Status) < Rank(s)
           \/ w = <<"paid", "completed">> /\ Rank(Status) < Rank("paid")
    BY <1>1, WrittenRises
  <1>4. ASSUME NEW s \in OrderStatus, Rank(Status) < Rank(s)
        PROVE  /\ Append(trail, s) \in Seq(OrderStatus) /\ Rises(Append(trail, s))
               /\ \A i \in DOMAIN Append(trail, s) : Rank(Append(trail, s)[i]) =< Rank(s)
    <2>1. \A v \in OrderStatus \cup {"unplaced"} : Rank(v) \in Int
      BY Ranks
    <2>2. \A i \in DOMAIN trail : trail[i] \in OrderStatus /\ Rank(trail[i]) =< Rank(Status)
      BY LastIsFurthest DEF StreamInv, Range
    <2>3. Status \in OrderStatus \cup {"unplaced"}
      BY LastIsFurthest DEF StreamInv
    <2>4. \A i \in DOMAIN trail : Rank(trail[i]) < Rank(s)
      BY <1>4, <2>1, <2>2, <2>3
    <2>5. Append(trail, s) \in Seq(OrderStatus) /\ Rises(Append(trail, s))
      BY <1>2, <2>4, AppendRises
    <2>6. \A i \in DOMAIN Append(trail, s) :
            Append(trail, s)[i] = s \/ (i \in DOMAIN trail /\ Append(trail, s)[i] = trail[i])
      BY <1>2
    <2> QED
      BY <2>1, <2>4, <2>5, <2>6
  <1>5. w \in Seq(OrderStatus) /\ trail' \in Seq(OrderStatus) /\ Rises(trail') /\ w \in Events
    <2>1. CASE \E s \in OrderStatus : w = <<s>> /\ Rank(Status) < Rank(s)
      <3>1. PICK s \in OrderStatus : w = <<s>> /\ Rank(Status) < Rank(s)
        BY <2>1
      <3>2. trail' = Append(trail, s) /\ w \in Seq(OrderStatus)
        BY <1>1, <1>2, <3>1
      <3>3. w \in [1 .. 1 -> OrderStatus]
        BY <3>1
      <3> QED
        BY <1>4, <3>1, <3>2, <3>3 DEF Events
    <2>2. CASE w = <<"paid", "completed">> /\ Rank(Status) < Rank("paid")
      <3>1. "paid" \in OrderStatus /\ "completed" \in OrderStatus
        BY DEF OrderStatus, TerminalStatuses
      <3>2. trail' = Append(Append(trail, "paid"), "completed") /\ w \in Seq(OrderStatus)
        BY <1>1, <1>2, <2>2, <3>1
      <3>3. \A i \in DOMAIN Append(trail, "paid") :
              Rank(Append(trail, "paid")[i]) < Rank("completed")
        <4>1. Rank("paid") = 6 /\ Rank("completed") = 7
          BY DEF Rank
        <4>2. ASSUME NEW i \in DOMAIN Append(trail, "paid")
              PROVE  Rank(Append(trail, "paid")[i]) \in Int
          <5>1. Append(trail, "paid")[i] \in OrderStatus
            BY <1>4, <2>2, <3>1
          <5> QED
            BY <5>1, Ranks
        <4> QED
          BY <1>4, <2>2, <3>1, <4>1, <4>2
      <3>4. w \in [1 .. 2 -> OrderStatus]
        BY <2>2, <3>1
      <3>5. w \in Events
        BY <3>4 DEF Events
      <3>6. trail' \in Seq(OrderStatus) /\ Rises(trail')
        BY <1>4, <2>2, <3>1, <3>2, <3>3, AppendRises
      <3> QED
        BY <3>2, <3>5, <3>6
    <2> QED
      BY <1>3, <2>1, <2>2
  <1>6. Range(trail') = Range(trail) \cup Range(w)
    BY <1>1, <1>2, <1>5, AppendedRange
  <1>7. TypeOK'
    <2>1. slot' \in [Handlers -> [op: Operations \cup {None}, due: Events, audit: BOOLEAN]]
      BY <1>1, <1>3, <1>5 DEF StreamInv, TypeOK
    <2> QED
      BY <1>1, <1>5, <2>1 DEF StreamInv, TypeOK
  <1>8. EventsFollowRows'
    <2>1. \A k \in Handlers : slot'[k].due = (IF k = h THEN w ELSE slot[k].due)
      BY <1>1, <1>3 DEF StreamInv, TypeOK
    <2>2. ASSUME NEW k \in Handlers
          PROVE  Range(slot'[k].due) \subseteq Range(trail')
      <3>1. CASE k = h
        BY <1>6, <2>1, <3>1
      <3>2. CASE k # h
        BY <1>6, <2>1, <3>2 DEF StreamInv, EventsFollowRows
      <3> QED
        BY <3>1, <3>2
    <2>3. announced' \subseteq Range(trail')
      BY <1>1, <1>6 DEF StreamInv, EventsFollowRows
    <2> QED
      BY <2>2, <2>3 DEF EventsFollowRows
  <1>9. StreamsFollow'
    <2>1. trail' # <<>>
      <3>1. Len(w) >= 1 /\ Len(w) \in Nat
        <4>1. ASSUME NEW s, w = <<s>> PROVE Len(w) = 1
          BY <4>1
        <4>2. ASSUME w = <<"paid", "completed">> PROVE Len(w) = 2
          BY <4>2
        <4> HIDE DEF w
        <4> QED
          BY <1>3, <4>1, <4>2
      <3>2. Len(trail') = Len(trail) + Len(w) /\ Len(trail) \in Nat
        BY <1>1, <1>2, <1>5
      <3> QED
        BY <3>1, <3>2
    <2> QED
      BY <1>1, <2>1 DEF StreamInv, StreamsFollow
  <1> QED
    BY <1>5, <1>7, <1>8, <1>9 DEF StreamInv, TrailRises

\* A handler's audit row and its emission.
LEMMA ProceedStreams ==
  ASSUME StreamInv, NEW h \in Handlers, Proceed(h)
  PROVE  StreamInv'
  <1>1. CASE Audit(h)
    <2>1. UNCHANGED <<trail, announced, stream, snap, feed>>
      BY <1>1 DEF Audit
    <2>2. /\ slot' \in [Handlers -> [op: Operations \cup {None}, due: Events, audit: BOOLEAN]]
          /\ \A k \in Handlers : slot'[k].due = slot[k].due \/ slot'[k].due = <<>>
      <3>1. slot' = [slot EXCEPT ![h].audit = FALSE] \/ slot' = [slot EXCEPT ![h] = Idle]
        BY <1>1 DEF Audit
      <3>2. Idle \in [op: Operations \cup {None}, due: Events, audit: BOOLEAN]
        <4>1. <<>> \in [1 .. 0 -> OrderStatus]
          OBVIOUS
        <4> QED
          BY <4>1 DEF Idle, Events
      <3>3. slot \in [Handlers -> [op: Operations \cup {None}, due: Events, audit: BOOLEAN]]
        BY DEF StreamInv, TypeOK
      <3>4. CASE slot' = [slot EXCEPT ![h].audit = FALSE]
        <4>1. /\ [slot[h] EXCEPT !.audit = FALSE]
                   \in [op: Operations \cup {None}, due: Events, audit: BOOLEAN]
              /\ [slot[h] EXCEPT !.audit = FALSE].due = slot[h].due
          BY <3>3
        <4>2. slot' = [slot EXCEPT ![h] = [slot[h] EXCEPT !.audit = FALSE]]
          BY <3>3, <3>4
        <4> QED
          BY <3>3, <4>1, <4>2
      <3>5. CASE slot' = [slot EXCEPT ![h] = Idle]
        <4>1. Idle.due = <<>>
          BY DEF Idle
        <4> QED
          BY <3>2, <3>3, <3>5, <4>1
      <3> QED
        BY <3>1, <3>4, <3>5
    <2>3. Range(<<>>) = {}
      BY DEF Range
    <2>4. TypeOK'
      BY <2>1, <2>2 DEF StreamInv, TypeOK
    <2>5. TrailRises' /\ EventsFollowRows' /\ StreamsFollow'
      BY <2>1, <2>2, <2>3 DEF StreamInv, TrailRises, EventsFollowRows, StreamsFollow
    <2> QED
      BY <2>4, <2>5 DEF StreamInv
  <1>2. CASE Emit(h)
    <2> DEFINE new == Range(slot[h].due)
    <2>1. /\ announced' = announced \cup new
          /\ feed' = [c \in Streams |-> IF Listening(c) THEN feed[c] \cup (new \ {"pending"})
                                       ELSE feed[c]]
          /\ slot' = [slot EXCEPT ![h] = Idle] /\ UNCHANGED <<trail, stream, snap>>
      BY <1>2 DEF Emit, StatusChanges
    <2>2. /\ slot' \in [Handlers -> [op: Operations \cup {None}, due: Events, audit: BOOLEAN]]
          /\ \A k \in Handlers : slot'[k].due = slot[k].due \/ slot'[k].due = <<>>
      <3>1. Idle \in [op: Operations \cup {None}, due: Events, audit: BOOLEAN]
        <4>1. <<>> \in [1 .. 0 -> OrderStatus]
          OBVIOUS
        <4> QED
          BY <4>1 DEF Idle, Events
      <3> QED
        BY <2>1, <3>1 DEF StreamInv, TypeOK, Idle
    <2>3. Range(<<>>) = {}
      BY DEF Range
    <2>4. new \subseteq Range(trail) /\ new \subseteq OrderStatus
      <3>1. new \subseteq Range(trail)
        BY DEF StreamInv, EventsFollowRows
      <3> QED
        BY <3>1, LastIsFurthest DEF StreamInv
    <2> HIDE DEF new
    <2>5. TypeOK'
      BY <2>1, <2>2, <2>4 DEF StreamInv, TypeOK
    <2>6. TrailRises' /\ EventsFollowRows'
      BY <2>1, <2>2, <2>3, <2>4 DEF StreamInv, TrailRises, EventsFollowRows
    <2>7. StreamsFollow'
      <3>1. ASSUME NEW c \in Streams, stream[c] \in {"read", "open"}, NEW s \in announced',
                   Rank(s) > Rank(snap[c])
            PROVE  s \in feed'[c]
        <4>1. snap[c] \in OrderStatus /\ (s \in announced => s \in feed[c])
          BY <3>1 DEF StreamInv, StreamsFollow
        <4>2. s # "pending"
          <5>1. "pending" \in OrderStatus
            BY DEF OrderStatus, InFlightStatuses
          <5>2. Rank(snap[c]) \in Int /\ Rank("pending") \in Int
            BY <4>1, <5>1, Ranks
          <5> QED
            BY <3>1, <4>1, <5>2, Ranks
        <4>3. feed'[c] = feed[c] \cup (new \ {"pending"})
          BY <2>1, <3>1 DEF Listening
        <4> QED
          BY <2>1, <3>1, <4>1, <4>2, <4>3
      <3>2. \A c \in Streams : feed[c] \subseteq feed'[c]
        BY <2>1
      <3> QED
        BY <2>1, <3>1, <3>2 DEF StreamInv, StreamsFollow
    <2> QED
      BY <2>5, <2>6, <2>7 DEF StreamInv
  <1> QED
    BY <1>1, <1>2 DEF Proceed

\* Streams come, read and go.
LEMMA StreamStep ==
  ASSUME StreamInv, NEW c \in Streams, Check(c) \/ Serve(c) \/ Disconnect(c)
  PROVE  StreamInv'
  <1>1. UNCHANGED <<trail, slot, announced>>
    BY DEF Check, Serve, Attach, ReadSnapshot, DeliverSnapshot, Disconnect
  <1>2. TrailRises' /\ EventsFollowRows'
    BY <1>1 DEF StreamInv, TrailRises, EventsFollowRows
  <1>3. CASE Check(c)
    <2>1. TypeOK'
      BY <1>1, <1>3 DEF Check, StreamInv, TypeOK, StreamPlaces
    <2>2. StreamsFollow'
      BY <1>1, <1>3 DEF Check, StreamInv, StreamsFollow, TypeOK
    <2> QED
      BY <1>2, <2>1, <2>2 DEF StreamInv
  <1>4. CASE Attach(c)
    <2>1. TypeOK'
      BY <1>1, <1>4 DEF Attach, StreamInv, TypeOK, StreamPlaces
    <2>2. StreamsFollow'
      BY <1>1, <1>4 DEF Attach, StreamInv, StreamsFollow, TypeOK
    <2> QED
      BY <1>2, <2>1, <2>2 DEF StreamInv
  <1>5. CASE ReadSnapshot(c)
    <2>1. /\ Status \in OrderStatus
          /\ \A s \in announced : s \in OrderStatus /\ Rank(s) =< Rank(Status)
      BY <1>5, LastIsFurthest DEF ReadSnapshot, StreamInv, StreamsFollow, EventsFollowRows
    <2>2. \A s \in announced : ~(Rank(s) > Rank(Status))
      BY <2>1, Ranks
    <2>3. TypeOK'
      BY <1>1, <1>5, <2>1 DEF ReadSnapshot, StreamInv, TypeOK, StreamPlaces
    <2>4. StreamsFollow'
      BY <1>1, <1>5, <2>1, <2>2 DEF ReadSnapshot, StreamInv, StreamsFollow, TypeOK
    <2> QED
      BY <1>2, <2>3, <2>4 DEF StreamInv
  <1>6. CASE DeliverSnapshot(c)
    <2>1. snap[c] \in OrderStatus
      BY <1>6 DEF DeliverSnapshot, StreamInv, StreamsFollow
    <2>2. TypeOK'
      BY <1>1, <1>6, <2>1 DEF DeliverSnapshot, StreamInv, TypeOK, StreamPlaces
    <2>3. StreamsFollow'
      BY <1>1, <1>6 DEF DeliverSnapshot, StreamInv, StreamsFollow, TypeOK
    <2> QED
      BY <1>2, <2>2, <2>3 DEF StreamInv
  <1>7. CASE Disconnect(c)
    <2>1. TypeOK'
      BY <1>1, <1>7 DEF Disconnect, Disconnected, StreamInv, TypeOK, StreamPlaces
    <2>2. StreamsFollow'
      BY <1>1, <1>7 DEF Disconnect, Disconnected, StreamInv, StreamsFollow
    <2> QED
      BY <1>2, <2>1, <2>2 DEF StreamInv
  <1> QED
    BY <1>3, <1>4, <1>5, <1>6, <1>7 DEF Serve

LEMMA CrashStreams ==
  ASSUME StreamInv, Crash
  PROVE  StreamInv'
  <1>1. UNCHANGED <<trail, announced>> /\ slot' = [h \in Handlers |-> Idle]
    BY DEF Crash
  <1>2. Idle \in [op: Operations \cup {None}, due: Events, audit: BOOLEAN]
    <2>1. <<>> \in [1 .. 0 -> OrderStatus]
      OBVIOUS
    <2> QED
      BY <2>1 DEF Idle, Events
  <1>3. TypeOK'
    BY <1>1, <1>2 DEF Crash, Disconnected, StreamInv, TypeOK, StreamPlaces
  <1>4. TrailRises' /\ EventsFollowRows'
    <2>1. \A h \in Handlers : slot'[h].due = <<>>
      BY <1>1 DEF Idle
    <2>2. Range(<<>>) = {}
      BY DEF Range
    <2> QED
      BY <1>1, <2>1, <2>2 DEF StreamInv, TrailRises, EventsFollowRows
  <1>5. StreamsFollow'
    BY <1>1 DEF Crash, Disconnected, StreamInv, StreamsFollow
  <1> QED
    BY <1>3, <1>4, <1>5 DEF StreamInv

LEMMA StreamsInit == Init => StreamInv
  <1> SUFFICES ASSUME Init PROVE StreamInv
    OBVIOUS
  <1>1. Idle \in [op: Operations \cup {None}, due: Events, audit: BOOLEAN]
    <2>1. <<>> \in [1 .. 0 -> OrderStatus]
      OBVIOUS
    <2> QED
      BY <2>1 DEF Idle, Events
  <1>2. TypeOK
    BY <1>1 DEF Init, TypeOK, StreamPlaces
  <1>3. TrailRises /\ EventsFollowRows /\ StreamsFollow
    BY DEF Init, TrailRises, Rises, EventsFollowRows, StreamsFollow, Idle, Range
  <1> QED
    BY <1>2, <1>3 DEF StreamInv

LEMMA StreamsStep == StreamInv /\ [Next]_vars => StreamInv'
  <1> SUFFICES ASSUME StreamInv, [Next]_vars PROVE StreamInv'
    OBVIOUS
  <1>1. CASE UNCHANGED vars
    BY <1>1 DEF vars, StreamInv, TypeOK, TrailRises, EventsFollowRows, StreamsFollow
  <1> QED
    BY <1>1, CommitStreams, ProceedStreams, StreamStep, CrashStreams DEF Next

LEMMA FollowedSlipNothing == StreamInv => NothingSlipsThrough
  <1> SUFFICES ASSUME StreamInv, NEW c \in Streams, stream[c] = "open",
                      NEW i \in DOMAIN trail, NEW j \in DOMAIN trail,
                      i < j, trail[i] = snap[c], trail[j] \in announced
               PROVE  trail[j] \in feed[c]
    BY DEF NothingSlipsThrough, StreamInv, StreamsFollow
  <1>1. Rank(trail[i]) < Rank(trail[j])
    BY DEF StreamInv, TrailRises, Rises
  <1>2. trail[i] \in OrderStatus /\ trail[j] \in OrderStatus
    BY DEF StreamInv, TypeOK
  <1>3. Rank(trail[j]) > Rank(snap[c])
    BY <1>1, <1>2, Ranks
  <1> QED
    BY <1>3 DEF StreamInv, StreamsFollow

\* The trail, the slots of handlers and the streams stay of their types.
THEOREM StreamTypes == Spec => []TypeOK
  <1>1. StreamInv => TypeOK
    BY DEF StreamInv
  <1> QED
    BY <1>1, StreamsInit, StreamsStep, PTL DEF Spec

\* NothingSlipsThrough: a stream of streamPublicOrderEvents that delivered its
\* snapshot was sent the snapshot's status and each later one announced.
THEOREM NothingEverSlipsThrough == Spec => []NothingSlipsThrough
  BY FollowedSlipNothing, StreamsInit, StreamsStep, PTL DEF Spec

\* The menu and the stream share no rows: a guest's side behaves as each.
THEOREM GuestSideIsBoth == AllSpec => Spec /\ DoorSpec
  <1>1. AllInit => Init /\ DoorInit
    BY DEF AllInit
  <1>2. [AllNext]_allVars => [Next]_vars /\ [DoorNext]_doorVars
    BY DEF AllNext, allVars
  <1> QED
    BY <1>1, <1>2, PTL DEF AllSpec, Spec, DoorSpec

-----------------------------------------------------------------------------
(***************************************************************************)
(* Requests with an Idempotency-Key.  Only the marker's owner decides over *)
(* a key: MarkerInv says who that is in every state of a request, MemoInv  *)
(* what a stored response vouches for.  At most one execution needs more:  *)
(* CommitIsLast.                                                           *)
(***************************************************************************)
\* A request between its insert and its last statement owns the marker.
MarkerInv ==
  \A r \in Requests :
    pc[r] \in Owning =>
      /\ marker[key[r]] # Null
      /\ marker[key[r]].owner = r
      /\ marker[key[r]].response = Null

\* A row carries its owner's key and body; a response in it is the owner's own,
\* whose operation committed.
MemoInv ==
  /\ \A r \in Requests : pc[r] = "committed" => r \in executed
  /\ \A k \in Keys :
       marker[k] # Null =>
         /\ key[marker[k].owner] = k
         /\ pc[marker[k].owner] # "unsent"
         /\ marker[k].hash = body[marker[k].owner]
         /\ marker[k].response # Null =>
              marker[k].response = marker[k].owner /\ marker[k].owner \in executed

\* What a client was answered, or told.
AnswerInv ==
  \A r \in Requests :
    pc[r] = "replayed" =>
      answer[r] \in executed /\ key[answer[r]] = key[r] /\ body[answer[r]] = body[r]

SafeInv == KeyTypes /\ MarkerInv /\ MemoInv /\ AnswerInv /\ ConflictsAreGenuine

\* The owner of a key's row is the only one whose operation may have committed,
\* and what remains for it to do then does not release the key.
ExecutedInv ==
  /\ \A r \in executed : marker[key[r]] # Null /\ marker[key[r]].owner = r
  /\ \A r \in executed : pc[r] \in {"committed", "answered", "lost"}

\* Whatever fails: an executed operation still owns its key's row, or its
\* request has met a failure after the commit.
OwnedInv ==
  \A r \in executed :
    \/ pc[r] \in {"releasing", "failed", "stranded"}
    \/ /\ marker[key[r]] # Null /\ marker[key[r]].owner = r
       /\ pc[r] \in {"committed", "answered", "lost"}

-----------------------------------------------------------------------------
LEMMA SafeInit == KeyInit => SafeInv
  BY PollAssumption DEF KeyInit, SafeInv, KeyTypes, MarkerInv, MemoInv, AnswerInv,
                             ConflictsAreGenuine, InFlight, Owning, InHandler, Marker

LEMMA SafeStep == SafeInv /\ [KeyNext]_keyVars => SafeInv'
  <1> SUFFICES ASSUME SafeInv, [KeyNext]_keyVars
               PROVE  SafeInv'
    OBVIOUS
  <1> USE NullAssumption, PollAssumption
  <1> USE DEF SafeInv, KeyTypes, MarkerInv, MemoInv, AnswerInv, ConflictsAreGenuine, Owning,
              InHandler, InFlight, Ended, Marker, Goto, Completed, Pending, Free
  <1>1. ASSUME NEW r \in Requests, Send(r) PROVE SafeInv'
    BY <1>1 DEF Send
  <1>2. ASSUME NEW r \in Requests, LookUp(r) PROVE SafeInv'
    BY <1>2 DEF LookUp, AnswerFromRow, SameBody
  <1>3. ASSUME NEW r \in Requests, InsertMarker(r) PROVE SafeInv'
    <2>1. CASE Free(key[r])
      <3> DEFINE m == [owner |-> r, hash |-> body[r], response |-> Null]
      <3>1. m \in Marker /\ m # Null
        OBVIOUS
      <3>2. marker' = [marker EXCEPT ![key[r]] = m] /\ Goto(r, "fetching")
        BY <1>3, <2>1 DEF InsertMarker, InsertSucceeds
      <3> QED
        BY <1>3, <2>1, <3>1, <3>2 DEF InsertMarker
    <2>2. CASE ~Free(key[r])
      BY <1>3, <2>2 DEF InsertMarker, InsertSucceeds
    <2> QED
      BY <2>1, <2>2
  <1>4. ASSUME NEW r \in Requests, FetchMarker(r) PROVE SafeInv'
    BY <1>4 DEF FetchMarker
  <1>5. ASSUME NEW r \in Requests, Execute(r) PROVE SafeInv'
    BY <1>5 DEF Execute
  <1>6. ASSUME NEW r \in Requests, StoreResponse(r) PROVE SafeInv'
    BY <1>6 DEF StoreResponse
  <1>7. ASSUME NEW r \in Requests, FailAfterCommit(r) PROVE SafeInv'
    BY <1>7 DEF FailAfterCommit
  <1>8. ASSUME NEW r \in Requests, ReleaseKey(r) PROVE SafeInv'
    BY <1>8 DEF ReleaseKey, DeleteIfPending
  <1>9. ASSUME NEW r \in Requests, Poll(r) PROVE SafeInv'
    BY <1>9 DEF Poll, AnswerFromRow, SameBody, MayPoll
  <1>10. ASSUME NEW r \in Requests, GiveUp(r) PROVE SafeInv'
    BY <1>10 DEF GiveUp
  <1>11. CASE LoseServer
    BY <1>11 DEF LoseServer
  <1>12. CASE UNCHANGED keyVars
    BY <1>12 DEF keyVars
  <1> QED
    BY <1>1, <1>2, <1>3, <1>4, <1>5, <1>6, <1>7, <1>8, <1>9, <1>10, <1>11, <1>12
    DEF KeyNext, ProceedRequest

\* In every reachable state a request in its handler owns its key's marker.
THEOREM IdempotencyInvariant == KeySpec => []SafeInv
  BY SafeInit, SafeStep, PTL DEF KeySpec

\* The rows and requests of the interceptor have their types.
THEOREM IdempotencyTypes == KeySpec => []KeyTypes
  <1>1. SafeInv => KeyTypes
    BY DEF SafeInv
  <1> QED
    BY <1>1, IdempotencyInvariant, PTL

\* HandlersOwnTheirMarker: the response a handler returns is stored in the
\* marker its own request inserted, and no twin is in a handler with it.
THEOREM OneHandlerPerKey == KeySpec => []HandlersOwnTheirMarker
  <1>1. SafeInv => HandlersOwnTheirMarker
    BY DEF SafeInv, MarkerInv, HandlersOwnTheirMarker, Owning, Pending
  <1> QED
    BY <1>1, IdempotencyInvariant, PTL

\* AnswersAreTrue, whatever awaited call may fail: a replayed or stored response
\* is one of an operation that committed for the same key and body, and whoever
\* is refused for another body was preceded by one.
THEOREM NothingButTruthAnswered == KeySpec => []AnswersAreTrue
  <1>1. SafeInv => AnswersAreTrue
    BY DEF SafeInv, MemoInv, AnswerInv, AnswersAreTrue, ReplaysAreOriginal, Completed
  <1> QED
    BY <1>1, IdempotencyInvariant, PTL

-----------------------------------------------------------------------------
LEMMA OwnedInit == KeyInit => OwnedInv
  BY DEF KeyInit, OwnedInv

LEMMA OwnedStep ==
  ASSUME SafeInv, OwnedInv, [KeyNext]_keyVars
  PROVE  OwnedInv'
  <1> USE NullAssumption
  <1> USE DEF SafeInv, KeyTypes, MarkerInv, MemoInv, OwnedInv, Owning, InHandler, Goto
  <1>1. ASSUME NEW r \in Requests, Execute(r) PROVE OwnedInv'
    BY <1>1 DEF Execute
  <1>2. ASSUME NEW r \in Requests, InsertMarker(r) PROVE OwnedInv'
    BY <1>2 DEF InsertMarker, InsertSucceeds, Free
  <1>3. ASSUME NEW r \in Requests, StoreResponse(r) PROVE OwnedInv'
    <2>1. key[r] \in Keys /\ marker[key[r]] \in Marker /\ marker[key[r]].owner = r
      BY <1>3 DEF StoreResponse
    <2>2. /\ marker' = [marker EXCEPT ![key[r]].response = r]
          /\ marker'[key[r]] \in Marker
          /\ marker'[key[r]].owner = r
      BY <1>3, <2>1 DEF StoreResponse, Marker
    <2>3. key' = key /\ executed' = executed
      BY <1>3 DEF StoreResponse
    <2>4. \A s \in executed' :
            marker[key[s]] # Null /\ marker[key[s]].owner = s
              => marker'[key'[s]] # Null /\ marker'[key'[s]].owner = s
      BY <2>1, <2>2, <2>3
    <2> QED
      BY <1>3, <2>3, <2>4 DEF StoreResponse
  <1>4. ASSUME NEW r \in Requests, ReleaseKey(r) PROVE OwnedInv'
    BY <1>4 DEF ReleaseKey, DeleteIfPending, Pending
  <1>5. ASSUME NEW r \in Requests, FailAfterCommit(r) PROVE OwnedInv'
    BY <1>5 DEF FailAfterCommit
  <1>6. ASSUME NEW r \in Requests,
               Send(r) \/ LookUp(r) \/ FetchMarker(r) \/ Poll(r) \/ GiveUp(r)
        PROVE  OwnedInv'
    BY <1>6 DEF Send, LookUp, FetchMarker, Poll, GiveUp, AnswerFromRow
  <1>7. CASE LoseServer \/ UNCHANGED keyVars
    BY <1>7 DEF LoseServer, keyVars, InFlight
  <1> QED
    BY <1>1, <1>2, <1>3, <1>4, <1>5, <1>6, <1>7 DEF KeyNext, ProceedRequest

\* TwiceOnlyAfterFailure, whatever awaited call may fail: of two executions of
\* a key's operation one has reported a failure that followed its commit.
THEOREM RepeatsAreFailures == KeySpec => []TwiceOnlyAfterFailure
  <1>1. KeySpec => []OwnedInv
    BY OwnedInit, OwnedStep, IdempotencyInvariant, PTL DEF KeySpec
  <1>2. OwnedInv => TwiceOnlyAfterFailure
    BY DEF OwnedInv, TwiceOnlyAfterFailure
  <1> QED
    BY <1>1, <1>2, PTL

-----------------------------------------------------------------------------
LEMMA ExecutedInit == KeyInit => ExecutedInv
  BY DEF KeyInit, ExecutedInv

LEMMA ExecutedStep ==
  ASSUME CommitIsLast, SafeInv, ExecutedInv, [KeyNext]_keyVars
  PROVE  ExecutedInv'
  <1> USE NullAssumption
  <1> USE DEF SafeInv, KeyTypes, MarkerInv, MemoInv, ExecutedInv, Owning, InHandler, Goto
  <1>1. ASSUME NEW r \in Requests, Execute(r) PROVE ExecutedInv'
    BY <1>1 DEF Execute
  <1>2. ASSUME NEW r \in Requests, InsertMarker(r) PROVE ExecutedInv'
    BY <1>2 DEF InsertMarker, InsertSucceeds, Free
  <1>3. ASSUME NEW r \in Requests, StoreResponse(r) PROVE ExecutedInv'
    <2>1. key[r] \in Keys /\ marker[key[r]] \in Marker /\ marker[key[r]].owner = r
      BY <1>3 DEF StoreResponse
    <2>2. /\ marker' = [marker EXCEPT ![key[r]].response = r]
          /\ marker'[key[r]] \in Marker
          /\ marker'[key[r]].owner = r
      BY <1>3, <2>1 DEF StoreResponse, Marker
    <2>3. key' = key /\ executed' = executed
      BY <1>3 DEF StoreResponse
    <2>4. \A s \in executed' : marker'[key'[s]] # Null /\ marker'[key'[s]].owner = s
      BY <2>1, <2>2, <2>3
    <2> QED
      BY <1>3, <2>3, <2>4 DEF StoreResponse
  <1>4. ASSUME NEW r \in Requests, ReleaseKey(r) PROVE ExecutedInv'
    BY <1>4 DEF ReleaseKey, DeleteIfPending, Pending
  <1>5. ASSUME NEW r \in Requests, FailAfterCommit(r) PROVE ExecutedInv'
    BY <1>5 DEF FailAfterCommit, CommitIsLast
  <1>6. ASSUME NEW r \in Requests,
               Send(r) \/ LookUp(r) \/ FetchMarker(r) \/ Poll(r) \/ GiveUp(r)
        PROVE  ExecutedInv'
    BY <1>6 DEF Send, LookUp, FetchMarker, Poll, GiveUp, AnswerFromRow
  <1>7. CASE LoseServer \/ UNCHANGED keyVars
    BY <1>7 DEF LoseServer, keyVars
  <1> QED
    BY <1>1, <1>2, <1>3, <1>4, <1>5, <1>6, <1>7 DEF KeyNext, ProceedRequest

\* AtMostOnce: however many requests with one key race, retry or die with the
\* server, the operation is executed at most once, provided that nothing fails
\* between the handler's commit and the stored response.
THEOREM NeverExecutedTwice == CommitIsLast /\ KeySpec => []AtMostOnce
  <1> SUFFICES ASSUME CommitIsLast PROVE KeySpec => []AtMostOnce
    OBVIOUS
  <1>1. SafeInv /\ ExecutedInv /\ [KeyNext]_keyVars => ExecutedInv'
    BY ExecutedStep
  <1>2. KeySpec => []ExecutedInv
    BY <1>1, ExecutedInit, IdempotencyInvariant, PTL DEF KeySpec
  <1>3. ExecutedInv => AtMostOnce
    BY DEF ExecutedInv, AtMostOnce
  <1> QED
    BY <1>2, <1>3, PTL
=============================================================================
