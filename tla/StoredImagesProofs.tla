------------------------- MODULE StoredImagesProofs -------------------------
(***************************************************************************)
(* Profile and products with their files for any number of products and    *)
(* requests.  A request that has not written its row yet finds it as it    *)
(* was read, and one that has written finds it as it wrote it, unless two  *)
(* were in flight at once (RowsAreHeld, BooksAreHeld).  A file once named  *)
(* by a row is never named again after another has taken its place, since  *)
(* every file is stored and named by one request, once (FilesAreNamedOnce).*)
(***************************************************************************)
EXTENDS StoredImages, TLAPS

-----------------------------------------------------------------------------
(***************************************************************************)
(* Types, and the order in which a handler makes its calls.                *)
(***************************************************************************)
Edits == {"config", "update"}

\* The calls a request has to make once its row is written.
AfterWrite(h) ==
  {p \in {"release", "audit", "emit"} :
     /\ Precedes(h.op, "write", p)
     /\ Comes(p, h.op, h.fields, h.amount, h.available, h.seen)}

Shape(h) ==
  /\ h.op \in {"setup", "config"} <=> h.target = Profile
  /\ h.fields \subseteq Fields(h.target)
  /\ h.op \in {"setup", "create"} => h.fields \subseteq {"image"}
  /\ h.op = "remove" => h.fields = {}
  /\ "store" \in h.todo => "image" \in h.fields /\ "write" \in h.todo
  /\ h.todo \cap {"cleanup", "compensate"} # {} =>
       h.op = "setup" /\ "image" \in h.fields /\ \E p \in Places : h.todo = {p}
  /\ "write" \in h.todo =>
       h.todo \cap {"release", "audit", "emit"} = AfterWrite(h)
  /\ h.todo \cap {"release", "audit", "emit"} \subseteq AfterWrite(h)

Shapes == \A r \in Requests : Running(r) => Shape(req[r])

Unwritten(r) == Running(r) /\ ("write" \in req[r].todo \/ "cleanup" \in req[r].todo)
Written(r)   == Running(r) /\ "write" \notin req[r].todo /\ "cleanup" \notin req[r].todo

-----------------------------------------------------------------------------
(***************************************************************************)
(* Files.                                                                  *)
(***************************************************************************)
\* A file that a row names, or a request has read there, is the row's first
\* one or that of a request past its write.
NamedBy(f, h) ==
  f = None \/ f = h \/ (f \in Requests /\ Sent(f) /\ req[f].target = h /\ ~Unwritten(f))

FilesAreNamedOnce ==
  /\ \A h \in Rows : NamedBy(row[h].image, h)
  /\ \A r \in Requests : Running(r) => NamedBy(req[r].seen.image, req[r].target)
  /\ \A h \in Rows : life[h] = "absent" => row[h].image = None

\* A product that is to be created is not there and nobody else knows its id;
\* one that is to be edited or removed has been there.
IdsAreFresh ==
  \A r \in Requests :
    /\ Running(r) /\ req[r].op \in Edits \cup {"remove"} => life[req[r].target] # "absent"
    /\ Unwritten(r) /\ req[r].op = "create" => life[req[r].target] = "absent"
    /\ Sent(r) /\ life[req[r].target] = "absent" /\ req[r].target # Profile =>
         \A s \in Requests : Sent(s) /\ req[s].target = req[r].target => s = r

\* What is about to be released is named by no row, what is about to be named
\* is on disk.
ReleasedIsReplaced ==
  \A r \in Requests :
    /\ Written(r) /\ "release" \in req[r].todo =>
         life[req[r].target] # "present" \/ row[req[r].target].image # req[r].seen.image
    /\ Written(r) /\ req[r].op = "remove" => life[req[r].target] = "removed"
    /\ Running(r) /\ "image" \in req[r].fields /\ "write" \in req[r].todo
         /\ "store" \notin req[r].todo => r \in disk

ImageInv ==
  /\ FilesAreNamedOnce
  /\ IdsAreFresh
  /\ ReleasedIsReplaced
  /\ NoDanglingImages

\* The file of a row that is replaced or removed goes.
Releases(q) == q.op = "remove" \/ (q.op \in Edits /\ "image" \in q.fields)

\* Files of requests were stored by them, and what is released is gone.
FilesAreStored ==
  \A r \in Requests :
    /\ r \in disk => Sent(r)
    /\ r \in disk /\ Running(r) => "image" \in req[r].fields /\ "store" \notin req[r].todo
    /\ Written(r) /\ Releases(req[r]) /\ "release" \notin req[r].todo
         => req[r].seen.image \notin disk

ContendedIsNoticed ==
  \A r, s \in Requests :
    Running(r) /\ Running(s) /\ req[r].target = req[s].target /\ r # s
      => req[r].target \in contended

\* A row that a request, by its record q, still finds as it was read.
Found(q, state, content) ==
  /\ content = q.seen /\ state # "removed"
  /\ q.op \in Edits \cup {"remove"} => state = "present"

\* A row that request r has written.
Held(r, q, state, content) ==
  /\ q.op # "remove" => state = "present"
  /\ "image" \in q.fields => content.image = r
  /\ q.op \in Edits /\ "image" \notin q.fields => content.image = q.seen.image
  /\ q.op \in {"setup", "create"} => q.seen.image = None

\* One request at a time finds its row as it read it, then as it wrote it.
RowsAreHeld ==
  /\ life[Profile] # "removed"
  /\ \A r \in Requests :
       Running(r) /\ req[r].target \notin contended =>
         LET h == req[r].target
         IN /\ Unwritten(r) => Found(req[r], life[h], row[h])
            /\ Written(r) => Held(r, req[r], life[h], row[h])

LeftoverInv ==
  /\ FilesAreStored
  /\ ContendedIsNoticed
  /\ RowsAreHeld
  /\ LeftoversAreExplained

-----------------------------------------------------------------------------
(***************************************************************************)
(* Books.                                                                  *)
(***************************************************************************)
ToAudit(r) == Written(r) /\ req[r].op \in Edits /\ "audit" \in req[r].todo
                /\ "amount" \in req[r].fields
ToEmit(r)  == Written(r) /\ "emit" \in req[r].todo

Lost(h) == \E r \in Requests : Died(r) /\ req[r].target = h

Pure(h) == life[h] = "present" /\ h \notin contended /\ ~Lost(h)

\* An edit that has written its row carries what the row holds.
Carries(q, content) ==
  /\ q.target = Profile \/ "amount" \in q.fields => q.amount = content.amount
  /\ "available" \in q.fields => q.available = content.available

BooksAreHeld ==
  \A r \in Requests :
    Written(r) /\ req[r].op \in Edits /\ req[r].target \notin contended
      => Carries(req[r], row[req[r].target])

AuditInv ==
  \A h \in Rows :
    Pure(h) /\ ~(\E r \in Requests : ToAudit(r) /\ req[r].target = h)
      => logged[h] = row[h].amount

NewsInv ==
  \A h \in Rows :
    Pure(h) /\ ~(\E r \in Requests : ToEmit(r) /\ req[r].target = h)
      => told[h] = Public(h, row[h])

BookInv ==
  /\ BooksAreHeld
  /\ AuditInv
  /\ NewsInv

-----------------------------------------------------------------------------
(***************************************************************************)
(* The order of a handler's calls.                                         *)
(***************************************************************************)
LEMMA CourseOrder ==
  /\ \A op \in Operations \ {"remove"} : Precedes(op, "store", "write")
  /\ \A op \in Operations, q \in {"release", "audit", "emit"} :
       Precedes(op, "write", q) <=> q \in Range(Course(op))
  /\ \A op \in Operations, q \in {"release", "audit", "emit"} :
       ~Precedes(op, q, "write")
  /\ Range(Course("setup"))  = {"store", "write", "audit"}
  /\ Range(Course("config")) = {"store", "write", "release", "audit", "emit"}
  /\ Range(Course("create")) = {"store", "write"}
  /\ Range(Course("update")) = {"store", "write", "audit", "emit", "release"}
  /\ Range(Course("remove")) = {"write", "release"}
  <1>1. Course("setup") = <<"store", "write", "audit">>
    BY DEF Course
  <1>2. Course("config") = <<"store", "write", "release", "audit", "emit">>
    BY DEF Course
  <1>3. Course("create") = <<"store", "write">>
    BY DEF Course
  <1>4. Course("update") = <<"store", "write", "audit", "emit", "release">>
    BY DEF Course
  <1>5. Course("remove") = <<"write", "release">>
    BY DEF Course
  <1>6. Range(Course("setup")) = {"store", "write", "audit"}
    BY <1>1 DEF Range
  <1>7. Range(Course("config")) = {"store", "write", "release", "audit", "emit"}
    BY <1>2 DEF Range
  <1>8. Range(Course("create")) = {"store", "write"}
    BY <1>3 DEF Range
  <1>9. Range(Course("update")) = {"store", "write", "audit", "emit", "release"}
    BY <1>4 DEF Range
  <1>10. Range(Course("remove")) = {"write", "release"}
    BY <1>5 DEF Range
  <1>11. \A op \in Operations \ {"remove"} : Precedes(op, "store", "write")
    BY <1>1, <1>2, <1>3, <1>4 DEF Precedes, Operations
  <1>12. \A op \in Operations, q \in {"release", "audit", "emit"} :
           /\ ~Precedes(op, q, "write")
           /\ Precedes(op, "write", q) <=> q \in Range(Course(op))
    BY <1>1, <1>2, <1>3, <1>4, <1>5 DEF Precedes, Operations, Range
  <1> QED
    BY <1>6, <1>7, <1>8, <1>9, <1>10, <1>11, <1>12

-----------------------------------------------------------------------------
(***************************************************************************)
(* What is known of a request, and what a step makes of it.                *)
(***************************************************************************)
LEMMA RunningIsHandler ==
  ASSUME SlotTypes, NEW r \in Requests
  PROVE  /\ Running(r) => req[r] \in Handler
         /\ Sent(r) /\ ~Running(r) => req[r] \in Past
  BY DEF SlotTypes, Sent, Running, Handler, Past, Dead

LEMMA HandlerFields ==
  ASSUME NEW h \in Handler
  PROVE  /\ h.op \in Operations /\ h.target \in Rows
         /\ h.fields \subseteq {"image", "amount", "available"}
         /\ h.amount \in Amounts /\ h.available \in BOOLEAN
         /\ h.seen \in Row /\ h.todo \in (SUBSET Places) \ {{}} /\ h.end = "running"
         /\ h.seen.image \in Files \cup {None}
  BY DEF Handler, Row

\* A request that runs is sent, and what it does is one of the operations.
LEMMA RunningFields ==
  ASSUME SlotTypes, NEW r \in Requests, Running(r)
  PROVE  /\ req[r].op \in Operations /\ req[r].target \in Rows
         /\ req[r].fields \subseteq {"image", "amount", "available"}
         /\ req[r].amount \in Amounts /\ req[r].available \in BOOLEAN
         /\ req[r].seen \in Row /\ req[r].todo \subseteq Places /\ req[r].todo # {}
         /\ req[r].seen.image \in Files \cup {None}
         /\ Sent(r) /\ ~Died(r)
  <1>1. req[r] \in Handler
    BY RunningIsHandler
  <1> QED
    BY <1>1, HandlerFields DEF Running, Died, Dead

\* What a step of request r does to the requests: it has these calls left, or
\* has ended.
Goes(r, todo, amount, end) ==
  /\ \A s \in Requests \ {r} : req'[s] = req[s]
  /\ Sent(r)' /\ req'[r].op = req[r].op /\ req'[r].target = req[r].target
  /\ Running(r)' <=> todo # {}
  /\ todo # {} =>
       /\ req'[r].todo = todo /\ req'[r].fields = req[r].fields
       /\ req'[r].amount = amount /\ req'[r].available = req[r].available
       /\ req'[r].seen = req[r].seen
  /\ todo = {} =>
       /\ Died(r)' <=> end \in Dead
       /\ end \in Dead => req'[r].image = req[r].seen.image

Ends == {"done", "refused"} \cup Dead

LEMMA EndedIsPast ==
  ASSUME NEW h \in Handler, NEW end \in Ends
  PROVE  /\ Ended(h, end) \in Past
         /\ Ended(h, end).op = h.op /\ Ended(h, end).target = h.target
         /\ Ended(h, end).end = end
         /\ end \in Dead => Ended(h, end).image = h.seen.image
  BY HandlerFields DEF Ended, Past, Ends, Dead, Files

LEMMA BecomeGoes ==
  ASSUME SlotTypes, NEW r \in Requests, Running(r), NEW todo \in SUBSET Places,
         NEW end \in Ends, NEW amount \in Amounts,
         Become(r, [req[r] EXCEPT !.amount = amount], todo, end)
  PROVE  Goes(r, todo, amount, end) /\ SlotTypes'
  <1> DEFINE h == [req[r] EXCEPT !.amount = amount]
  <1>1. req[r] \in Handler
    BY RunningIsHandler
  <1>2. /\ h \in Handler /\ h.op = req[r].op /\ h.target = req[r].target
        /\ h.fields = req[r].fields /\ h.available = req[r].available
        /\ h.seen = req[r].seen /\ h.amount = amount
    BY <1>1 DEF Handler
  <1> HIDE DEF h
  <1>3. req' = [req EXCEPT ![r] = IF todo = {} THEN Ended(h, end) ELSE [h EXCEPT !.todo = todo]]
    BY DEF Become, h
  <1>4. CASE todo = {}
    <2>1. req' = [req EXCEPT ![r] = Ended(h, end)]
      BY <1>3, <1>4
    <2>2. SlotTypes'
      BY <2>1, <1>2, EndedIsPast DEF SlotTypes
    <2>3. req'[r] = Ended(h, end) /\ \A s \in Requests \ {r} : req'[s] = req[s]
      BY <2>1 DEF SlotTypes
    <2>4. Sent(r)' /\ ~Running(r)' /\ (Died(r)' <=> end \in Dead)
      BY <2>3, <1>2, EndedIsPast, SlotAssumption DEF Sent, Running, Died, Ends, Dead
    <2> QED
      BY <1>4, <2>2, <2>3, <2>4, <1>2, EndedIsPast DEF Goes
  <1>5. CASE todo # {}
    <2> DEFINE g == [h EXCEPT !.todo = todo]
    <2>1. req' = [req EXCEPT ![r] = g]
      BY <1>3, <1>5
    <2>2. /\ g \in Handler /\ g.op = h.op /\ g.target = h.target /\ g.fields = h.fields
          /\ g.available = h.available /\ g.seen = h.seen /\ g.amount = h.amount
          /\ g.todo = todo /\ g.end = "running"
      BY <1>2, <1>5 DEF Handler
    <2> HIDE DEF g
    <2>3. SlotTypes'
      BY <2>1, <2>2 DEF SlotTypes
    <2>4. req'[r] = g /\ \A s \in Requests \ {r} : req'[s] = req[s]
      BY <2>1 DEF SlotTypes
    <2>5. Sent(r)' /\ Running(r)'
      BY <2>2, <2>4, SlotAssumption DEF Sent, Running
    <2> QED
      BY <1>5, <2>2, <2>3, <2>4, <2>5, <1>2 DEF Goes
  <1> QED
    BY <1>4, <1>5

LEMMA LeftGoes ==
  ASSUME SlotTypes, NEW r \in Requests, Running(r), NEW todo \in SUBSET Places,
         NEW end \in Ends, Left(r, todo, end)
  PROVE  Goes(r, todo, req[r].amount, end) /\ SlotTypes'
  <1>1. req[r] \in Handler
    BY RunningIsHandler
  <1>2. req[r] = [req[r] EXCEPT !.amount = req[r].amount]
    BY <1>1 DEF Handler
  <1>3. req[r].amount \in Amounts
    BY <1>1, HandlerFields
  <1> QED
    BY <1>2, <1>3, BecomeGoes DEF Left

-----------------------------------------------------------------------------
(***************************************************************************)
(* Types and shapes are kept.                                              *)
(***************************************************************************)
Core == RowTypes /\ SlotTypes /\ Shapes

\* Where the calls of a handler find it.
LEMMA AtShape ==
  ASSUME Core, NEW r \in Requests, NEW p \in Places, At(r, p)
  PROVE  /\ Running(r) /\ p \in req[r].todo /\ Shape(req[r])
         /\ p = "store" => /\ Unwritten(r) /\ "write" \in req[r].todo
                           /\ "image" \in req[r].fields /\ req[r].op # "remove"
         /\ p = "write" => /\ Unwritten(r) /\ "store" \notin req[r].todo
                           /\ req[r].todo \ {"write"} = AfterWrite(req[r])
         /\ p \in {"release", "audit", "emit"} =>
              /\ Written(r) /\ "store" \notin req[r].todo
              /\ p \in AfterWrite(req[r])
              /\ req[r].todo \subseteq AfterWrite(req[r])
         /\ p \in {"cleanup", "compensate"} =>
              /\ req[r].todo = {p} /\ req[r].op = "setup" /\ "image" \in req[r].fields
  <1>1. Running(r) /\ p \in req[r].todo /\ Shape(req[r]) /\ req[r].todo \subseteq Places
    BY RunningFields DEF At, Core, Shapes
  <1>2. req[r].op \in Operations
    BY <1>1, RunningFields DEF Core
  <1>3. p # "cleanup" /\ p # "compensate" =>
          "cleanup" \notin req[r].todo /\ "compensate" \notin req[r].todo
    BY <1>1 DEF Shape
  <1>4. CASE p = "store"
    BY <1>1, <1>4 DEF Shape, Unwritten
  <1>5. CASE p = "write"
    <2>1. "store" \notin req[r].todo
      BY <1>1, <1>2, <1>5, CourseOrder DEF Shape, At
    <2> QED
      BY <1>1, <1>3, <1>5, <2>1 DEF Shape, Unwritten, Places
  <1>6. CASE p \in {"release", "audit", "emit"}
    <2>1. p \in AfterWrite(req[r])
      BY <1>1, <1>6 DEF Shape
    <2>2. Precedes(req[r].op, "write", p)
      BY <2>1 DEF AfterWrite
    <2>3. "write" \notin req[r].todo
      BY <2>2 DEF At
    <2>4. "store" \notin req[r].todo
      BY <1>1, <2>3 DEF Shape
    <2> QED
      BY <1>1, <1>3, <1>6, <2>1, <2>3, <2>4 DEF Shape, Written, Places
  <1>7. CASE p \in {"cleanup", "compensate"}
    BY <1>1, <1>7 DEF Shape
  <1> QED
    BY <1>1, <1>4, <1>5, <1>6, <1>7 DEF Places

\* What each kind of request does once its row is written.
LEMMA AfterWriteCases ==
  ASSUME NEW h \in Handler
  PROVE  /\ "release" \in AfterWrite(h) <=>
              h.seen.image # None /\ (h.op = "remove" \/ (h.op \in Edits /\ "image" \in h.fields))
         /\ "audit" \in AfterWrite(h) <=>
              \/ h.op \in {"setup", "config"}
              \/ (h.op = "update" /\ "amount" \in h.fields /\ h.amount # h.seen.amount)
         /\ "emit" \in AfterWrite(h) <=>
              \/ h.op = "config"
              \/ h.op = "update" /\ "available" \in h.fields /\ h.available # h.seen.available
         /\ AfterWrite(h) \subseteq {"release", "audit", "emit"}
  <1> DEFINE C(p) == Comes(p, h.op, h.fields, h.amount, h.available, h.seen)
  <1>1. \A p \in {"release", "audit", "emit"} :
          p \in AfterWrite(h) <=> p \in Range(Course(h.op)) /\ C(p)
    BY CourseOrder, HandlerFields DEF AfterWrite
  <1>2. /\ C("release") <=> ("image" \in h.fields \/ h.op = "remove") /\ h.seen.image # None
        /\ C("audit") <=> (h.op = "update" => "amount" \in h.fields /\ h.amount # h.seen.amount)
        /\ C("emit") <=> (h.op = "update" => "available" \in h.fields
                                               /\ h.available # h.seen.available)
    BY DEF Comes
  <1> HIDE DEF C
  <1>3. h.op \in Operations
    BY HandlerFields
  <1>4. "release" \in Range(Course(h.op)) <=> h.op \in {"config", "update", "remove"}
    BY <1>3, CourseOrder DEF Operations
  <1>5. "audit" \in Range(Course(h.op)) <=> h.op \in {"setup", "config", "update"}
    BY <1>3, CourseOrder DEF Operations
  <1>6. "emit" \in Range(Course(h.op)) <=> h.op \in {"config", "update"}
    BY <1>3, CourseOrder DEF Operations
  <1>7. AfterWrite(h) \subseteq {"release", "audit", "emit"}
    BY DEF AfterWrite
  <1>8. /\ "release" \in AfterWrite(h) <=> "release" \in Range(Course(h.op)) /\ C("release")
        /\ "audit" \in AfterWrite(h) <=> "audit" \in Range(Course(h.op)) /\ C("audit")
        /\ "emit" \in AfterWrite(h) <=> "emit" \in Range(Course(h.op)) /\ C("emit")
    BY <1>1
  <1>9. "release" \in AfterWrite(h) <=>
          h.seen.image # None /\ (h.op = "remove" \/ (h.op \in Edits /\ "image" \in h.fields))
    BY <1>2, <1>4, <1>8 DEF Edits
  <1>10. "audit" \in AfterWrite(h) <=>
           \/ h.op \in {"setup", "config"}
           \/ (h.op = "update" /\ "amount" \in h.fields /\ h.amount # h.seen.amount)
    BY <1>2, <1>5, <1>8
  <1>11. "emit" \in AfterWrite(h) <=>
           \/ h.op = "config"
           \/ h.op = "update" /\ "available" \in h.fields /\ h.available # h.seen.available
    BY <1>2, <1>6, <1>8
  <1> QED
    BY <1>7, <1>9, <1>10, <1>11

\* A step that leaves fewer calls to do, or the clean-up of a setup.
LEMMA GoesKeepsShapes ==
  ASSUME Core, NEW r \in Requests, Running(r), NEW todo \in SUBSET Places,
         NEW amount \in Amounts, NEW end \in Ends, Goes(r, todo, amount, end), SlotTypes',
         amount = req[r].amount \/ req[r].op = "config",
         \/ /\ todo \subseteq req[r].todo
            /\ "store" \in todo => "write" \in todo
            /\ "write" \in todo => req[r].todo \subseteq todo \cup {"store"}
         \/ /\ todo \in {{"cleanup"}, {"compensate"}}
            /\ req[r].op = "setup" /\ "image" \in req[r].fields
  PROVE  Shapes'
  <1>1. \A s \in Requests \ {r} : Running(s)' => Shape(req'[s])
    BY DEF Core, Shapes, Goes, Running, Sent
  <1>2. ASSUME Running(r)'
        PROVE  Shape(req'[r])
    <2>1. /\ req'[r].todo = todo /\ todo # {} /\ req'[r].fields = req[r].fields
          /\ req'[r].op = req[r].op /\ req'[r].target = req[r].target
          /\ req'[r].amount = amount /\ req'[r].available = req[r].available
          /\ req'[r].seen = req[r].seen
      BY <1>2 DEF Goes
    <2>2. req[r] \in Handler
      BY RunningIsHandler DEF Core
    <2>3. req'[r] \in Handler
      <3>1. SlotTypes' /\ Running(r)'
        BY <1>2
      <3> QED
        BY <3>1 DEF SlotTypes, Running, Sent, Handler, Past, Dead
    <2>4. AfterWrite(req'[r]) = AfterWrite(req[r])
      <3>1. CASE req[r].op = "config"
        <4>1. \A h \in {req[r], req'[r]} :
                /\ "release" \in AfterWrite(h) <=> h.seen.image # None /\ "image" \in h.fields
                /\ "audit" \in AfterWrite(h) /\ "emit" \in AfterWrite(h)
                /\ AfterWrite(h) \subseteq {"release", "audit", "emit"}
          BY <2>1, <2>2, <2>3, <3>1, AfterWriteCases DEF Edits
        <4> QED
          BY <2>1, <4>1
      <3>2. CASE amount = req[r].amount
        BY <2>1, <3>2 DEF AfterWrite
      <3> QED
        BY <3>1, <3>2
    <2>5. Shape(req[r])
      BY DEF Core, Shapes
    <2> HIDE DEF AfterWrite
    <2>6. CASE todo \in {{"cleanup"}, {"compensate"}}
      BY <2>1, <2>4, <2>5, <2>6 DEF Shape, Places
    <2>7. CASE /\ todo \subseteq req[r].todo
               /\ "store" \in todo => "write" \in todo
               /\ "write" \in todo => req[r].todo \subseteq todo \cup {"store"}
      <3>1. "write" \in todo =>
              todo \cap {"release", "audit", "emit"}
                = req[r].todo \cap {"release", "audit", "emit"}
        BY <2>7
      <3>2. todo \cap {"cleanup", "compensate"} # {} => \E p \in Places : todo = {p}
        BY <2>1, <2>5, <2>7 DEF Shape
      <3> QED
        BY <2>1, <2>4, <2>5, <2>7, <3>1, <3>2 DEF Shape
    <2> QED
      BY <2>6, <2>7
  <1> QED
    BY <1>1, <1>2 DEF Shapes

-----------------------------------------------------------------------------
(***************************************************************************)
(* A request begins.                                                       *)
(***************************************************************************)
Operable(op, h, fields, amount, available) ==
  /\ op \in Operations /\ h \in Rows /\ fields \subseteq Fields(h)
  /\ amount \in Amounts /\ available \in BOOLEAN
  /\ op \in {"setup", "config"} <=> h = Profile
  /\ op \in {"setup", "create"} => fields \subseteq {"image"}
  /\ op = "remove" => fields = {}

\* Request r has read row h and everything is before it, or has nothing to do.
Opens(r, op, h) ==
  /\ ~Sent(r) /\ Sent(r)' /\ req'[r].op = op /\ req'[r].target = h
  /\ \A s \in Requests \ {r} : req'[s] = req[s]
  /\ ~Died(r)'
  /\ Running(r)' =>
       /\ req'[r].seen = row[h]
       /\ "write" \in req'[r].todo /\ "cleanup" \notin req'[r].todo
       /\ "image" \in req'[r].fields <=> "store" \in req'[r].todo
       /\ contended' = contended \cup {g \in {h} : InFlightOn(g) # {}}
  /\ ~Running(r)' => contended' = contended
  /\ UNCHANGED <<rowVars, outVars, disk>>

LEMMA BeginOpens ==
  ASSUME Core, NEW r \in Requests, NEW op, NEW h, NEW fields, NEW amount, NEW available,
         ~Sent(r), Operable(op, h, fields, amount, available), Begin(r, op, h, fields, amount, available)
  PROVE  Opens(r, op, h) /\ SlotTypes' /\ Shapes'
  <1> DEFINE changes == Effective(op, fields, amount, row[h])
             todo    == {p \in Range(Course(op)) :
                           Comes(p, op, changes, amount, available, row[h])}
             handler == [op |-> op, target |-> h, fields |-> changes, amount |-> amount,
                         available |-> available, seen |-> row[h], end |-> "running",
                         todo |-> todo]
  <1>1. /\ ~Sent(r)
        /\ IF op = "config" /\ changes = {}
             THEN req' = [req EXCEPT ![r] = Ended(handler, "done")] /\ UNCHANGED contended
             ELSE /\ req' = [req EXCEPT ![r] = handler]
                  /\ contended' = contended \cup {g \in {h} : InFlightOn(g) # {}}
        /\ UNCHANGED <<rowVars, outVars, disk>>
    BY DEF Begin
  <1>2. changes \subseteq fields /\ fields \subseteq {"image", "amount", "available"}
    BY DEF Effective, Operable, Fields
  <1>3. row[h] \in Row
    BY DEF Core, RowTypes, Operable
  <1>4. /\ todo \subseteq {"store", "write", "audit", "release", "emit"}
        /\ "write" \in todo
        /\ "store" \in todo <=> "image" \in changes
    <2>1. /\ Range(Course(op)) \subseteq {"store", "write", "audit", "release", "emit"}
          /\ "write" \in Range(Course(op))
          /\ op # "remove" => "store" \in Range(Course(op))
          /\ op = "remove" => "store" \notin Range(Course(op))
      BY CourseOrder DEF Operable, Operations
    <2>2. op = "remove" => changes = {}
      BY <1>2 DEF Operable
    <2>3. "write" \in todo
      BY <2>1 DEF Comes
    <2>4. "store" \in todo <=> "image" \in changes
      BY <2>1, <2>2 DEF Comes
    <2> QED
      BY <2>1, <2>3, <2>4
  <1>5. handler \in Handler
    BY <1>2, <1>3, <1>4 DEF Operable, Handler, Places
  <1>6. /\ handler.op = op /\ handler.target = h /\ handler.fields = changes
        /\ handler.seen = row[h] /\ handler.todo = todo /\ handler.end = "running"
        /\ handler.amount = amount /\ handler.available = available
    OBVIOUS
  <1>7. Shape(handler)
    <2>1. todo \cap {"release", "audit", "emit"} = AfterWrite(handler)
      BY <1>6, CourseOrder DEF AfterWrite, Operable
    <2>2. changes \subseteq Fields(h) /\ (op \in {"setup", "create"} => changes \subseteq {"image"})
      BY <1>2 DEF Operable
    <2>3. op = "remove" => changes = {}
      BY <1>2 DEF Operable
    <2> HIDE DEF handler, todo, changes
    <2> QED
      BY <1>4, <1>6, <2>1, <2>2, <2>3 DEF Shape, Operable
  <1> HIDE DEF handler, todo, changes
  <1>8. UNCHANGED <<rowVars, outVars, disk>> /\ ~Sent(r)
    BY <1>1
  <1>9. CASE req' = [req EXCEPT ![r] = Ended(handler, "done")] /\ contended' = contended
    <2>1. SlotTypes'
      BY <1>9, <1>5, EndedIsPast DEF SlotTypes, Core, Ends
    <2>2. req'[r] = Ended(handler, "done") /\ \A s \in Requests \ {r} : req'[s] = req[s]
      BY <1>9 DEF SlotTypes, Core
    <2>3. /\ req'[r] \in Past /\ req'[r].op = op /\ req'[r].target = h /\ req'[r].end = "done"
      BY <2>2, <1>5, <1>6, EndedIsPast DEF Ends
    <2>4. Sent(r)' /\ ~Running(r)' /\ ~Died(r)'
      BY <2>3, SlotAssumption DEF Sent, Running, Died, Dead
    <2>5. Shapes'
      BY <2>2, <2>4 DEF Shapes, Core, Running, Sent
    <2> QED
      BY <1>8, <1>9, <2>1, <2>2, <2>3, <2>4, <2>5 DEF Opens
  <1>10. CASE /\ req' = [req EXCEPT ![r] = handler]
              /\ contended' = contended \cup {g \in {h} : InFlightOn(g) # {}}
    <2>1. SlotTypes'
      BY <1>10, <1>5 DEF SlotTypes, Core
    <2>2. req'[r] = handler /\ \A s \in Requests \ {r} : req'[s] = req[s]
      BY <1>10 DEF SlotTypes, Core
    <2>3. Sent(r)' /\ Running(r)' /\ ~Died(r)'
      BY <2>2, <1>5, <1>6, SlotAssumption DEF Sent, Running, Died, Dead
    <2>4. Shapes'
      BY <2>2, <1>7 DEF Shapes, Core, Running, Sent
    <2> QED
      BY <1>4, <1>6, <1>8, <1>10, <2>1, <2>2, <2>3, <2>4 DEF Opens
  <1> QED
    BY <1>1, <1>9, <1>10

LEMMA StartOpens ==
  ASSUME Core, NEW r \in Requests, Start(r)
  PROVE  \E op \in Operations, h \in Rows :
           /\ Opens(r, op, h) /\ SlotTypes' /\ Shapes'
           /\ op \in {"setup", "config"} <=> h = Profile
           /\ op \in Edits \cup {"remove"} => life[h] = "present"
           /\ op = "create" =>
                life[h] = "absent" /\ \A s \in Requests : Sent(s) => req[s].target # h
  <1>0. Profile \in Rows /\ Profile \notin Products /\ Products \subseteq Rows
    BY ImageAssumption DEF Rows
  <1>1. \A h \in Rows : row[h].amount \in Amounts /\ row[h].available \in BOOLEAN
    BY DEF Core, RowTypes, Row
  <1>6. ~Sent(r)
    BY DEF Start
  <1>2. CASE BeginSetup(r)
    <2>1. PICK fields \in SUBSET {"image"} :
            Begin(r, "setup", Profile, fields, row[Profile].amount, TRUE)
      BY <1>2 DEF BeginSetup
    <2>2. Operable("setup", Profile, fields, row[Profile].amount, TRUE)
      BY <1>0, <1>1 DEF Operable, Operations, Fields
    <2> QED
      BY <2>1, <2>2, BeginOpens, <1>6, <1>0 DEF Operations, Edits
  <1>3. CASE BeginEdit(r)
    <2>1. PICK h \in Rows : \E fields \in SUBSET Fields(h) \ {{}}, a \in Amounts, b \in BOOLEAN :
            /\ life[h] = "present"
            /\ Begin(r, IF h = Profile THEN "config" ELSE "update", h, fields, a, b)
      BY <1>3 DEF BeginEdit
    <2>2. PICK fields \in SUBSET Fields(h), a \in Amounts, b \in BOOLEAN :
            /\ life[h] = "present"
            /\ Begin(r, IF h = Profile THEN "config" ELSE "update", h, fields, a, b)
      BY <2>1
    <2> DEFINE op == IF h = Profile THEN "config" ELSE "update"
    <2>3. Operable(op, h, fields, a, b)
      BY DEF Operable, Operations
    <2>4. Begin(r, op, h, fields, a, b)
      BY <2>2
    <2>5. /\ op \in Operations /\ (op \in {"setup", "config"} <=> h = Profile)
          /\ op # "create" /\ op \in Edits
      BY DEF Operations, Edits
    <2> HIDE DEF op
    <2>6. Opens(r, op, h) /\ SlotTypes' /\ Shapes'
      BY <2>3, <2>4, BeginOpens, <1>6
    <2> QED
      BY <2>2, <2>5, <2>6
  <1>4. CASE BeginCreate(r)
    <2>1. PICK h \in Products, fields \in SUBSET {"image"}, a \in Amounts :
            /\ life[h] = "absent" /\ \A s \in Requests : Sent(s) => req[s].target # h
            /\ Begin(r, "create", h, fields, a, TRUE)
      BY <1>4 DEF BeginCreate
    <2>2. h \in Rows /\ h # Profile /\ Operable("create", h, fields, a, TRUE)
      BY <1>0, <2>1 DEF Operable, Operations, Fields
    <2>3. Opens(r, "create", h) /\ SlotTypes' /\ Shapes'
      BY <2>1, <2>2, BeginOpens, <1>6
    <2> QED
      BY <2>1, <2>2, <2>3 DEF Operations, Edits
  <1>5. CASE BeginRemove(r)
    <2>1. PICK h \in Products :
            life[h] = "present" /\ Begin(r, "remove", h, {}, row[h].amount, row[h].available)
      BY <1>5 DEF BeginRemove
    <2>2. h \in Rows /\ h # Profile /\ Operable("remove", h, {}, row[h].amount, row[h].available)
      BY <1>0, <1>1, <2>1 DEF Operable, Operations, Fields
    <2>3. Opens(r, "remove", h) /\ SlotTypes' /\ Shapes'
      BY <2>1, <2>2, BeginOpens, <1>6
    <2> QED
      BY <2>1, <2>2, <2>3 DEF Operations, Edits
  <1> QED
    BY <1>2, <1>3, <1>4, <1>5 DEF Start

-----------------------------------------------------------------------------
(***************************************************************************)
(* A request goes on.                                                      *)
(***************************************************************************)
LEMMA ProceedGoes ==
  ASSUME Core, NEW r \in Requests, NEW p \in {"store", "write", "release", "audit", "emit"},
         At(r, p), Proceed(r, p)
  PROVE  Goes(r, req[r].todo \ {p}, req[r].amount, "done") /\ SlotTypes' /\ Shapes'
  <1> DEFINE todo == req[r].todo \ {p}
  <1>1. Running(r) /\ SlotTypes
    BY DEF At, Core
  <1>2. todo \in SUBSET Places /\ "done" \in Ends /\ req[r].amount \in Amounts
    BY <1>1, RunningFields DEF Ends
  <1>3. Goes(r, todo, req[r].amount, "done") /\ SlotTypes'
    BY <1>1, <1>2, LeftGoes DEF Proceed
  <1>4. /\ todo \subseteq req[r].todo
        /\ "store" \in todo => "write" \in todo
        /\ "write" \in todo => req[r].todo \subseteq todo \cup {"store"}
    BY AtShape DEF Places, Written
  <1> HIDE DEF todo
  <1>5. Shapes'
    BY <1>1, <1>2, <1>3, <1>4, GoesKeepsShapes
  <1> QED
    BY <1>3, <1>5 DEF todo

\* A request that ends, or turns to its clean-up.
LEMMA LeavesGoes ==
  ASSUME Core, NEW r \in Requests, Running(r), NEW end \in Ends,
         NEW todo \in {{}, {"cleanup"}, {"compensate"}},
         todo # {} => req[r].op = "setup" /\ "image" \in req[r].fields,
         Left(r, todo, end)
  PROVE  Goes(r, todo, req[r].amount, end) /\ SlotTypes' /\ Shapes'
  <1>1. SlotTypes /\ todo \in SUBSET Places /\ req[r].amount \in Amounts
    BY RunningFields DEF Core, Places
  <1>2. Goes(r, todo, req[r].amount, end) /\ SlotTypes'
    BY <1>1, LeftGoes
  <1>3. Shapes'
    BY <1>1, <1>2, GoesKeepsShapes
  <1> QED
    BY <1>2, <1>3

LEMMA StoreGoes ==
  ASSUME Core, NEW r \in Requests, Store(r)
  PROVE  /\ \/ disk' = disk \cup {r} /\ Goes(r, req[r].todo \ {"store"}, req[r].amount, "done")
            \/ disk' = disk /\ Goes(r, {}, req[r].amount, "refused")
         /\ Core'
  <1>1. CASE disk' = disk \cup {r} /\ Proceed(r, "store")
    BY <1>1, ProceedGoes DEF Store, Core, RowTypes, Files, rowVars, outVars
  <1>2. CASE Left(r, {}, "refused") /\ UNCHANGED disk
    BY <1>2, LeavesGoes DEF Store, At, Ends, Core, RowTypes, rowVars, outVars
  <1> QED
    BY <1>1, <1>2 DEF Store

\* What an INSERT and an UPDATE make of a row.
LEMMA InsertRow ==
  ASSUME Core, NEW r \in Requests, Running(r), Insert(r)
  PROVE  LET h == req[r].target
         IN /\ life' = [life EXCEPT ![h] = "present"]
            /\ row'[h].image = (IF "image" \in req[r].fields THEN r ELSE None)
            /\ \A g \in Rows \ {h} : row'[g] = row[g] /\ logged'[g] = logged[g] /\ told'[g] = told[g]
            /\ logged'[h] = row'[h].amount
            /\ told'[h] = Public(h, row'[h])
            /\ row' \in [Rows -> Row] /\ logged' \in [Rows -> Amounts]
            /\ DOMAIN told' = Rows
            /\ told'[Profile] \in Amounts /\ \A p \in Products : told'[p] \in BOOLEAN
  <1> DEFINE h == req[r].target
             content == [image |-> Stored(r), amount |-> req[r].amount, available |-> TRUE]
  <1>1. h \in Rows /\ req[r].amount \in Amounts /\ r \in Files
    BY RunningFields DEF Core, Files
  <1>2. content \in Row /\ content.image = (IF "image" \in req[r].fields THEN r ELSE None)
        /\ content.amount = req[r].amount /\ content.available = TRUE
    BY <1>1 DEF Row, Stored
  <1> HIDE DEF content
  <1>3. /\ life' = [life EXCEPT ![h] = "present"]
        /\ row' = [row EXCEPT ![h] = content]
        /\ logged' = [logged EXCEPT ![h] = req[r].amount]
        /\ told' = [told EXCEPT ![h] = Public(h, row'[h])]
    BY DEF Insert, content
  <1>4. row'[h] = content /\ row' \in [Rows -> Row]
    BY <1>1, <1>2, <1>3 DEF Core, RowTypes
  <1>5. Public(h, content) \in (IF h = Profile THEN Amounts ELSE BOOLEAN)
    BY <1>1, <1>2 DEF Public
  <1> QED
    BY <1>1, <1>2, <1>3, <1>4, <1>5, ImageAssumption DEF Core, RowTypes, Rows

LEMMA PatchedRow ==
  ASSUME Core, NEW r \in Requests, Running(r), NEW content \in Row
  PROVE  /\ Patched(r, content) \in Row
         /\ Patched(r, content).image
              = (IF "image" \in req[r].fields THEN r ELSE content.image)
         /\ Patched(r, content).amount
              = (IF "amount" \in req[r].fields THEN req[r].amount ELSE content.amount)
         /\ Patched(r, content).available
              = (IF "available" \in req[r].fields THEN req[r].available ELSE content.available)
  <1>1. r \in Files /\ req[r].amount \in Amounts /\ req[r].available \in BOOLEAN
    BY RunningFields DEF Core, Files
  <1> QED
    BY <1>1 DEF Patched, Row

LEMMA WriteSetupGoes ==
  ASSUME Core, NEW r \in Requests, WriteSetup(r)
  PROVE  /\ \/ /\ life[Profile] = "absent" /\ req[r].target = Profile /\ Insert(r)
               /\ Goes(r, req[r].todo \ {"write"}, req[r].amount, "done")
            \/ /\ UNCHANGED <<rowVars, outVars>>
               /\ \/ "image" \in req[r].fields /\ Goes(r, {"cleanup"}, req[r].amount, "refused")
                  \/ "image" \notin req[r].fields /\ Goes(r, {}, req[r].amount, "refused")
         /\ Core'
  <1>1. /\ At(r, "write") /\ Running(r) /\ Shape(req[r]) /\ req[r].op = "setup"
        /\ disk' = disk /\ contended' = contended
    BY AtShape DEF WriteSetup, Places, At, Core, Shapes
  <1>2. CASE SetupAllowed /\ Insert(r) /\ Proceed(r, "write")
    <2>1. Goes(r, req[r].todo \ {"write"}, req[r].amount, "done") /\ SlotTypes' /\ Shapes'
      BY <1>1, <1>2, ProceedGoes
    <2>2. RowTypes'
      BY <1>1, <1>2, InsertRow, RunningFields DEF Core, RowTypes
    <2> QED
      BY <1>1, <1>2, <2>1, <2>2 DEF Core, SetupAllowed, Shape
  <1>3. CASE /\ Left(r, IF Stored(r) = None THEN {} ELSE {"cleanup"}, "refused")
             /\ UNCHANGED <<rowVars, outVars>>
    <2>1. RowTypes'
      BY <1>1, <1>3 DEF Core, RowTypes, rowVars, outVars
    <2>2. CASE "image" \in req[r].fields
      <3>1. Left(r, {"cleanup"}, "refused")
        BY <1>3, <2>2, ImageAssumption DEF Stored, Files
      <3> QED
        BY <1>1, <1>3, <2>1, <2>2, <3>1, LeavesGoes DEF Ends, Core
    <2>3. CASE "image" \notin req[r].fields
      <3>1. Left(r, {}, "refused")
        BY <1>3, <2>3 DEF Stored
      <3> QED
        BY <1>1, <1>3, <2>1, <2>3, <3>1, LeavesGoes DEF Ends, Core
    <2> QED
      BY <2>2, <2>3
  <1> QED
    BY <1>2, <1>3 DEF WriteSetup

LEMMA WriteCreateGoes ==
  ASSUME Core, NEW r \in Requests, WriteCreate(r)
  PROVE  /\ Insert(r) /\ Goes(r, req[r].todo \ {"write"}, req[r].amount, "done")
         /\ Core'
  <1>1. /\ At(r, "write") /\ Running(r)
        /\ disk' = disk /\ contended' = contended /\ Insert(r) /\ Proceed(r, "write")
    BY DEF WriteCreate, At
  <1>2. Goes(r, req[r].todo \ {"write"}, req[r].amount, "done") /\ SlotTypes' /\ Shapes'
    BY <1>1, ProceedGoes
  <1>3. RowTypes'
    BY <1>1, InsertRow, RunningFields DEF Core, RowTypes
  <1> QED
    BY <1>1, <1>2, <1>3 DEF Core

LEMMA WriteRemoveGoes ==
  ASSUME Core, NEW r \in Requests, WriteRemove(r)
  PROVE  Goes(r, req[r].todo \ {"write"}, req[r].amount, "done") /\ Core'
  <1>1. /\ At(r, "write") /\ Running(r) /\ Proceed(r, "write")
    BY DEF WriteRemove, At
  <1>2. Goes(r, req[r].todo \ {"write"}, req[r].amount, "done") /\ SlotTypes' /\ Shapes'
    BY <1>1, ProceedGoes
  <1>3. RowTypes'
    BY <1>1, RunningFields DEF WriteRemove, Core, RowTypes, outVars
  <1> QED
    BY <1>2, <1>3 DEF Core

\* The row of an edit, and the amount its event will carry.
LEMMA WriteEditGoes ==
  ASSUME Core, NEW r \in Requests, WriteEdit(r)
  PROVE  LET h == req[r].target
         IN /\ \E amount \in Amounts :
                 /\ Goes(r, req[r].todo \ {"write"}, amount, "done")
                 /\ amount = (IF h = Profile THEN row'[h].amount ELSE req[r].amount)
            /\ row' \in [Rows -> Row]
            /\ \A g \in Rows : g # h \/ life[g] # "present" => row'[g] = row[g]
            /\ life[h] = "present" => row'[h] = Patched(r, row[h])
            /\ Core'
  <1> DEFINE h == req[r].target
             amount == IF h = Profile THEN row'[h].amount ELSE req[r].amount
  <1>1. /\ At(r, "write") /\ Running(r) /\ Shape(req[r]) /\ req[r].op \in Edits
        /\ req[r] \in Handler
    BY RunningIsHandler DEF WriteEdit, At, Core, Shapes, Edits
  <1>2. h \in Rows /\ req[r].amount \in Amounts /\ row[h] \in Row
    BY <1>1, RunningFields DEF Core, RowTypes
  <1>3. Patched(r, row[h]) \in Row
    BY <1>1, <1>2, PatchedRow
  <1>4. row' = IF life[h] = "present" THEN [row EXCEPT ![h] = Patched(r, row[h])] ELSE row
    BY DEF WriteEdit
  <1>5. /\ row' \in [Rows -> Row]
        /\ \A g \in Rows : g # h \/ life[g] # "present" => row'[g] = row[g]
        /\ life[h] = "present" => row'[h] = Patched(r, row[h])
    BY <1>2, <1>3, <1>4 DEF Core, RowTypes
  <1>6. amount \in Amounts
    BY <1>2, <1>5 DEF Row
  <1>7. Become(r, [req[r] EXCEPT !.amount = amount], req[r].todo \ {"write"}, "done")
    BY <1>1 DEF WriteEdit, Handler
  <1>8. req[r].todo \ {"write"} \in SUBSET Places /\ "done" \in Ends
    BY <1>1, RunningFields DEF Core, Ends
  <1> HIDE DEF amount
  <1>9. Goes(r, req[r].todo \ {"write"}, amount, "done") /\ SlotTypes'
    BY <1>1, <1>6, <1>7, <1>8, BecomeGoes DEF Core
  <1>10. Shapes'
    <2>1. amount = req[r].amount \/ req[r].op = "config"
      BY <1>1 DEF amount, Shape, Edits
    <2>2. "store" \notin req[r].todo
      BY <1>1, AtShape DEF Places
    <2> QED
      BY <1>1, <1>6, <1>8, <1>9, <2>1, <2>2, GoesKeepsShapes
  <1>11. RowTypes'
    BY <1>5 DEF WriteEdit, Core, RowTypes, outVars
  <1> QED
    BY <1>5, <1>6, <1>9, <1>10, <1>11 DEF Core, amount

LEMMA AuditGoes ==
  ASSUME Core, NEW r \in Requests, AppendAudit(r)
  PROVE  /\ Goes(r, req[r].todo \ {"audit"}, req[r].amount, "done")
         /\ logged' = (IF req[r].op # "setup" /\ "amount" \in req[r].fields
                         THEN [logged EXCEPT ![req[r].target] = req[r].amount] ELSE logged)
         /\ Core'
  <1>1. /\ At(r, "audit") /\ Running(r) /\ Proceed(r, "audit")
    BY DEF AppendAudit, At
  <1>2. Goes(r, req[r].todo \ {"audit"}, req[r].amount, "done") /\ SlotTypes' /\ Shapes'
    BY <1>1, ProceedGoes
  <1>3. RowTypes'
    BY <1>1, RunningFields DEF AppendAudit, NewAmount, Core, RowTypes, rowVars
  <1> QED
    BY <1>2, <1>3 DEF Core, AppendAudit, NewAmount

LEMMA FailAuditGoes ==
  ASSUME Core, NEW r \in Requests, FailAudit(r)
  PROVE  /\ \/ /\ req[r].op = "setup" /\ "image" \in req[r].fields
               /\ Goes(r, {"compensate"}, req[r].amount, "failed")
            \/ Goes(r, {}, req[r].amount, "failed")
         /\ Core'
  <1>1. /\ At(r, "audit") /\ Running(r) /\ UNCHANGED <<rowVars, outVars, disk, contended>>
    BY DEF FailAudit, At
  <1>2. RowTypes'
    BY <1>1 DEF Core, RowTypes, rowVars, outVars
  <1>3. CASE req[r].op = "setup" /\ "image" \in req[r].fields
    <2>1. Left(r, {"compensate"}, "failed")
      BY <1>3, ImageAssumption DEF FailAudit, Stored, Files
    <2> QED
      BY <1>1, <1>2, <1>3, <2>1, LeavesGoes DEF Ends, Dead, Core
  <1>4. CASE ~(req[r].op = "setup" /\ "image" \in req[r].fields)
    <2>1. Left(r, {}, "failed")
      BY <1>4 DEF FailAudit, Stored
    <2> QED
      BY <1>1, <1>2, <1>4, <2>1, LeavesGoes DEF Ends, Dead, Core
  <1> QED
    BY <1>3, <1>4

LEMMA EmitGoes ==
  ASSUME Core, NEW r \in Requests, Emit(r)
  PROVE  Goes(r, req[r].todo \ {"emit"}, req[r].amount, "done") /\ Core'
  <1>1. /\ At(r, "emit") /\ Running(r) /\ Proceed(r, "emit")
    BY DEF Emit, At
  <1>2. Goes(r, req[r].todo \ {"emit"}, req[r].amount, "done") /\ SlotTypes' /\ Shapes'
    BY <1>1, ProceedGoes
  <1>3. req[r].target \in Rows /\ req[r].amount \in Amounts /\ req[r].available \in BOOLEAN
    BY <1>1, RunningFields DEF Core
  <1>4. News(r) \in (IF req[r].target = Profile THEN Amounts ELSE BOOLEAN)
    BY <1>3 DEF News, Public
  <1>5. RowTypes'
    BY <1>3, <1>4, ImageAssumption DEF Emit, Core, RowTypes, rowVars, Rows
  <1> QED
    BY <1>2, <1>5 DEF Core

LEMMA ReleaseGoes ==
  ASSUME Core, NEW r \in Requests, Release(r)
  PROVE  Goes(r, req[r].todo \ {"release"}, req[r].amount, "done") /\ Core'
  <1>1. /\ At(r, "release") /\ Running(r) /\ Proceed(r, "release")
    BY DEF Release, At
  <1>2. Goes(r, req[r].todo \ {"release"}, req[r].amount, "done") /\ SlotTypes' /\ Shapes'
    BY <1>1, ProceedGoes
  <1>3. RowTypes'
    BY <1>1 DEF Release, Core, RowTypes, rowVars, outVars
  <1> QED
    BY <1>2, <1>3 DEF Core

LEMMA CompensateGoes ==
  ASSUME Core, NEW r \in Requests, Compensate(r)
  PROVE  /\ Running(r) /\ req[r].op = "setup" /\ "image" \in req[r].fields
         /\ \/ req[r].todo = {"cleanup"} /\ Goes(r, {}, req[r].amount, "refused")
            \/ req[r].todo = {"compensate"} /\ Goes(r, {}, req[r].amount, "failed")
         /\ Core'
  <1>1. Running(r) /\ req[r].op = "setup" /\ "image" \in req[r].fields
    BY AtShape DEF Compensate, Places
  <1>2. RowTypes'
    BY DEF Compensate, Core, RowTypes, rowVars, outVars
  <1>3. CASE At(r, "cleanup")
    <2>1. req[r].todo = {"cleanup"} /\ Left(r, {}, "refused")
      BY <1>3, AtShape DEF Compensate, Places
    <2> QED
      BY <1>1, <1>2, <2>1, LeavesGoes DEF Ends, Core
  <1>4. CASE At(r, "compensate") /\ ~At(r, "cleanup")
    <2>1. req[r].todo = {"compensate"} /\ Left(r, {}, "failed")
      BY <1>4, AtShape DEF Compensate, Places
    <2> QED
      BY <1>1, <1>2, <2>1, LeavesGoes DEF Ends, Dead, Core
  <1> QED
    BY <1>3, <1>4 DEF Compensate

\* A restart ends what was running and leaves the rest.
LEMMA CrashEnds ==
  ASSUME Core, Crash
  PROVE  /\ Core'
         /\ \A r \in Requests :
              /\ ~Running(r)'
              /\ ~Running(r) => req'[r] = req[r]
              /\ Running(r) => /\ Died(r)' /\ req'[r].image = req[r].seen.image
                               /\ req'[r].op = req[r].op /\ req'[r].target = req[r].target
         /\ UNCHANGED <<rowVars, outVars, disk, contended>>
  <1>1. /\ req' = [r \in Requests |-> IF Running(r) THEN Ended(req[r], "lost") ELSE req[r]]
        /\ UNCHANGED <<rowVars, outVars, disk, contended>>
    BY DEF Crash
  <1>2. ASSUME NEW r \in Requests, Running(r)
        PROVE  /\ req'[r] = Ended(req[r], "lost") /\ req'[r] \in Past /\ req'[r].end = "lost"
               /\ req'[r].image = req[r].seen.image
               /\ req'[r].op = req[r].op /\ req'[r].target = req[r].target
    BY <1>1, <1>2, RunningIsHandler, EndedIsPast DEF Core, Ends, Dead
  <1>3. ASSUME NEW r \in Requests, Running(r)
        PROVE  ~Running(r)' /\ Died(r)'
    BY <1>2, <1>3, SlotAssumption DEF Running, Died, Sent, Dead
  <1>4. ASSUME NEW r \in Requests, ~Running(r)
        PROVE  req'[r] = req[r] /\ ~Running(r)'
    BY <1>1, <1>4 DEF Running, Sent
  <1>5. SlotTypes'
    BY <1>1, <1>2, <1>4 DEF Core, SlotTypes
  <1>6. RowTypes' /\ Shapes'
    BY <1>1, <1>3, <1>4 DEF Core, RowTypes, Shapes, rowVars, outVars
  <1> QED
    BY <1>1, <1>2, <1>3, <1>4, <1>5, <1>6 DEF Core

LEMMA CoreInit == Init => Core
  <1> SUFFICES ASSUME Init PROVE Core
    OBVIOUS
  <1>1. PICK base \in Amounts :
          row = [h \in Rows |-> [image |-> IF life[h] = "present" THEN h ELSE None,
                                 amount |-> base, available |-> TRUE]]
    BY DEF Init
  <1>2. \A h \in Rows : row[h] \in Row /\ row[h].amount \in Amounts /\ row[h].available \in BOOLEAN
    BY <1>1 DEF Row, Files
  <1>3. row \in [Rows -> Row] /\ logged \in [Rows -> Amounts]
    BY <1>1, <1>2 DEF Init
  <1>4. /\ DOMAIN told = Rows /\ told[Profile] \in Amounts
        /\ \A p \in Products : told[p] \in BOOLEAN
    BY <1>2, ImageAssumption DEF Init, Public, Rows
  <1>5. RowTypes
    BY <1>3, <1>4 DEF Init, RowTypes, Files
  <1>6. SlotTypes /\ Shapes
    BY DEF Init, SlotTypes, Shapes, Running, Sent
  <1> QED
    BY <1>5, <1>6 DEF Core

LEMMA CoreStep == Core /\ [Next]_vars => Core'
  <1> SUFFICES ASSUME Core, [Next]_vars PROVE Core'
    OBVIOUS
  <1>1. ASSUME NEW r \in Requests, Start(r)
        PROVE  Core'
    <2>1. PICK op \in Operations, h \in Rows : Opens(r, op, h) /\ SlotTypes' /\ Shapes'
      BY <1>1, StartOpens
    <2>2. RowTypes'
      BY <2>1 DEF Opens, Core, RowTypes, rowVars, outVars
    <2> QED
      BY <2>1, <2>2 DEF Core
  <1>2. ASSUME NEW r \in Requests, GoOn(r)
        PROVE  Core'
    BY <1>2, StoreGoes, WriteSetupGoes, WriteCreateGoes, WriteEditGoes, WriteRemoveGoes,
       AuditGoes, FailAuditGoes, EmitGoes, ReleaseGoes, CompensateGoes DEF GoOn, Write
  <1>3. CASE UNCHANGED vars
    BY <1>3 DEF vars, rowVars, outVars, Core, RowTypes, SlotTypes, Shapes, Running, Sent
  <1> QED
    BY <1>1, <1>2, <1>3, CrashEnds DEF Next

\* Rows, files and requests are what they are meant to be; the calls a request
\* still has to make are a rest of its handler's course (Shapes).
THEOREM ImageTypes == Spec => []TypeOK
  <1>1. Core => TypeOK
    BY DEF Core, TypeOK
  <1> QED
    BY <1>1, CoreInit, CoreStep, PTL DEF Spec

-----------------------------------------------------------------------------
(***************************************************************************)
(* Requests only go forward.                                               *)
(***************************************************************************)
Progress ==
  \A s \in Requests :
    /\ Sent(s) => /\ Sent(s)' /\ req'[s].target = req[s].target /\ req'[s].op = req[s].op
                  /\ Unwritten(s)' => Unwritten(s)
    /\ Died(s) => Died(s)' /\ req'[s].image = req[s].image
    /\ Running(s) /\ Running(s)' =>
         req'[s].seen = req[s].seen /\ req'[s].fields = req[s].fields
    /\ ~Running(s) /\ Running(s)' =>
         ~Sent(s) /\ req'[s].seen = row[req'[s].target]

LEMMA GoesProgress ==
  ASSUME Core, NEW r \in Requests, Running(r), NEW todo, NEW amount, NEW end,
         Goes(r, todo, amount, end),
         "write" \in todo \/ "cleanup" \in todo => Unwritten(r)
  PROVE  /\ Progress
         /\ Unwritten(r)' <=> "write" \in todo \/ "cleanup" \in todo
         /\ Written(r)' <=> todo # {} /\ "write" \notin todo /\ "cleanup" \notin todo
         /\ \A s \in Requests \ {r} :
              /\ Sent(s)' <=> Sent(s)
              /\ Running(s)' <=> Running(s)
              /\ Died(s)' <=> Died(s)
              /\ Unwritten(s)' <=> Unwritten(s)
              /\ Written(s)' <=> Written(s)
              /\ req'[s] = req[s]
  <1>1. ASSUME NEW s \in Requests \ {r}
        PROVE  /\ req'[s] = req[s]
               /\ Sent(s)' <=> Sent(s)
               /\ Running(s)' <=> Running(s)
               /\ Died(s)' <=> Died(s)
               /\ Unwritten(s)' <=> Unwritten(s)
               /\ Written(s)' <=> Written(s)
    BY DEF Goes, Sent, Running, Died, Unwritten, Written
  <1>2. Sent(r) /\ ~Died(r)
    BY RunningFields DEF Core
  <1>3. /\ Unwritten(r)' <=> "write" \in todo \/ "cleanup" \in todo
        /\ Written(r)' <=> todo # {} /\ "write" \notin todo /\ "cleanup" \notin todo
    BY DEF Goes, Unwritten, Written
  <1>4. /\ Sent(r)' /\ req'[r].target = req[r].target /\ req'[r].op = req[r].op
        /\ Unwritten(r)' => Unwritten(r)
        /\ Running(r)' => req'[r].seen = req[r].seen /\ req'[r].fields = req[r].fields
    BY <1>3 DEF Goes
  <1> QED
    BY <1>1, <1>2, <1>3, <1>4 DEF Progress

LEMMA OpensProgress ==
  ASSUME Core, NEW r \in Requests, NEW op, NEW h \in Rows, Opens(r, op, h)
  PROVE  /\ Progress
         /\ Unwritten(r)' <=> Running(r)'
         /\ ~Written(r)' /\ ~Died(r)' /\ ~Running(r)
         /\ \A s \in Requests \ {r} :
              /\ Sent(s)' <=> Sent(s)
              /\ Running(s)' <=> Running(s)
              /\ Died(s)' <=> Died(s)
              /\ Unwritten(s)' <=> Unwritten(s)
              /\ Written(s)' <=> Written(s)
              /\ req'[s] = req[s]
  <1>1. ASSUME NEW s \in Requests \ {r}
        PROVE  /\ req'[s] = req[s]
               /\ Sent(s)' <=> Sent(s)
               /\ Running(s)' <=> Running(s)
               /\ Died(s)' <=> Died(s)
               /\ Unwritten(s)' <=> Unwritten(s)
               /\ Written(s)' <=> Written(s)
    BY DEF Opens, Sent, Running, Died, Unwritten, Written
  <1>2. /\ ~Sent(r) /\ ~Running(r) /\ ~Died(r) /\ ~Died(r)'
        /\ Unwritten(r)' <=> Running(r)'
        /\ ~Written(r)'
    BY DEF Opens, Running, Died, Unwritten, Written
  <1>3. Running(r)' => req'[r].seen = row[req'[r].target]
    BY DEF Opens
  <1> QED
    BY <1>1, <1>2, <1>3 DEF Progress

LEMMA CrashProgress ==
  ASSUME Core, Crash
  PROVE  Progress
  <1>1. \A s \in Requests :
          /\ ~Running(s) => req'[s] = req[s]
          /\ Running(s) => /\ Died(s)' /\ req'[s].target = req[s].target /\ req'[s].op = req[s].op
                           /\ ~Died(s)
          /\ ~Running(s)'
    BY CrashEnds, RunningFields DEF Core
  <1> QED
    BY <1>1 DEF Progress, Sent, Died, Unwritten

LEMMA StutterProgress == UNCHANGED req => Progress
  BY DEF Progress, Sent, Running, Died, Unwritten

\* A name stays given.
LEMMA NamesStay ==
  ASSUME Core, Progress
  PROVE  \A f, h : NamedBy(f, h) => NamedBy(f, h)'
  BY DEF NamedBy, Progress

\* What a running request has read stays named, also when it begins.
LEMMA SeenNamesStay ==
  ASSUME Core, Core', Progress, FilesAreNamedOnce, NEW r \in Requests, Running(r)'
  PROVE  NamedBy(req[r].seen.image, req[r].target)'
  <1>1. req'[r].target \in Rows
    <2>1. req'[r] \in Handler
      BY DEF Core, SlotTypes, Running, Sent, Handler, Past, Dead
    <2> QED
      BY <2>1, HandlerFields
  <1>2. CASE Running(r)
    <2>1. req'[r].seen = req[r].seen /\ req'[r].target = req[r].target
      BY <1>2 DEF Progress, Running
    <2>2. NamedBy(req[r].seen.image, req[r].target)
      BY <1>2 DEF FilesAreNamedOnce
    <2> QED
      BY <2>1, <2>2, NamesStay DEF NamedBy
  <1>3. CASE ~Running(r)
    <2>1. req'[r].seen = row[req'[r].target]
      BY <1>3 DEF Progress
    <2>2. NamedBy(row[req'[r].target].image, req'[r].target)
      BY <1>1 DEF FilesAreNamedOnce
    <2> QED
      BY <2>1, <2>2, NamesStay DEF NamedBy
  <1> QED
    BY <1>2, <1>3

\* A row that changes its image takes the file of the request that writes it.
LEMMA RowsStayNamed ==
  ASSUME Core, Core', Progress, FilesAreNamedOnce,
         \A h \in Rows :
           \/ row'[h].image = row[h].image
           \/ row'[h].image = None
           \/ \E r \in Requests : /\ Running(r) /\ ~Unwritten(r)'
                                 /\ h = req[r].target /\ row'[h].image = r,
         \A h \in Rows : life'[h] = "absent" => life[h] = "absent" /\ row'[h] = row[h]
  PROVE  FilesAreNamedOnce'
  <1>1. ASSUME NEW h \in Rows
        PROVE  NamedBy(row[h].image, h)'
    <2>1. CASE row'[h].image = row[h].image
      BY <2>1, NamesStay DEF FilesAreNamedOnce, NamedBy
    <2>2. CASE row'[h].image = None
      BY <2>2 DEF NamedBy
    <2>3. CASE \E r \in Requests : /\ Running(r) /\ ~Unwritten(r)'
                                  /\ h = req[r].target /\ row'[h].image = r
      BY <2>3 DEF NamedBy, Progress, Running
    <2> QED
      BY <2>1, <2>2, <2>3
  <1>2. \A h \in Rows : life'[h] = "absent" => row'[h].image = None
    BY DEF FilesAreNamedOnce
  <1> QED
    BY <1>1, <1>2, SeenNamesStay DEF FilesAreNamedOnce

-----------------------------------------------------------------------------
(***************************************************************************)
(* No row points to a file that is gone.                                   *)
(***************************************************************************)
\* Steps that leave the rows alone.
LEMMA RowsUntouched ==
  ASSUME Core, Core', Progress, ImageInv, UNCHANGED rowVars
  PROVE  /\ FilesAreNamedOnce'
         /\ disk \subseteq disk' => NoDanglingImages'
         /\ (\A s \in Requests : Sent(s)' => Sent(s)) => IdsAreFresh'
  <1>1. FilesAreNamedOnce'
    BY RowsStayNamed DEF ImageInv, rowVars
  <1>2. ASSUME disk \subseteq disk'
        PROVE  NoDanglingImages'
    BY <1>2 DEF ImageInv, NoDanglingImages, rowVars, Progress, Died
  <1>3. ASSUME \A s \in Requests : Sent(s)' => Sent(s)
        PROVE  IdsAreFresh'
    <2>1. \A s \in Requests : Unwritten(s)' => Sent(s)'
      BY DEF Unwritten, Running
    <2>2. \A s \in Requests :
            /\ Sent(s)' => Sent(s) /\ req'[s].target = req[s].target /\ req'[s].op = req[s].op
            /\ Unwritten(s)' => /\ Unwritten(s)
                                /\ req'[s].target = req[s].target /\ req'[s].op = req[s].op
      BY <1>3, <2>1 DEF Progress
    <2>3. life' = life
      BY DEF rowVars
    <2>4. \A r \in Requests : Unwritten(r)' /\ req'[r].op = "create" => life'[req'[r].target] = "absent"
      BY <2>2, <2>3 DEF ImageInv, IdsAreFresh
    <2>6. ASSUME NEW r \in Requests, Running(r)', req'[r].op \in Edits \cup {"remove"}
          PROVE  life'[req'[r].target] # "absent"
      <3>1. Sent(r)'
        BY <2>6 DEF Running
      <3>2. Running(r) /\ req'[r].target = req[r].target /\ req'[r].op = req[r].op
        BY <1>3, <2>2, <2>6, <3>1 DEF Progress
      <3> QED
        BY <2>3, <2>6, <3>2 DEF ImageInv, IdsAreFresh
    <2>5. ASSUME NEW r \in Requests, Sent(r)', life'[req'[r].target] = "absent",
                 req'[r].target # Profile,
                 NEW s \in Requests, Sent(s)', req'[s].target = req'[r].target
          PROVE  s = r
      <3>1. Sent(r) /\ life[req[r].target] = "absent" /\ req[r].target # Profile
        BY <2>2, <2>3, <2>5
      <3>2. Sent(s) /\ req[s].target = req[r].target
        BY <2>2, <2>5
      <3> QED
        BY <3>1, <3>2 DEF ImageInv, IdsAreFresh
    <2> QED
      BY <2>4, <2>5, <2>6 DEF IdsAreFresh
  <1> QED
    BY <1>1, <1>2, <1>3

\* Nothing new is about to be released or to be named.
Continues(s) ==
  /\ Written(s)' /\ "release" \in req'[s].todo => Written(s) /\ "release" \in req[s].todo
  /\ Written(s)' /\ req'[s].op = "remove" => Written(s)
  /\ Running(s)' /\ "image" \in req'[s].fields /\ "write" \in req'[s].todo
       /\ "store" \notin req'[s].todo =>
       /\ Running(s) /\ "image" \in req[s].fields /\ "write" \in req[s].todo
       /\ "store" \notin req[s].todo

LEMMA NothingNew ==
  ASSUME Core, Core', Progress, ImageInv, UNCHANGED rowVars, disk \subseteq disk',
         \A s \in Requests : Continues(s), \A s \in Requests : Sent(s)' => Sent(s)
  PROVE  ImageInv'
  <1>1. ReleasedIsReplaced'
    <2>1. \A s \in Requests : Written(s) => Running(s) /\ Sent(s)
      BY DEF Written, Running
    <2>2. \A s \in Requests : Written(s)' => Running(s)'
      BY DEF Written
    <2>3. \A s \in Requests : Written(s) /\ Written(s)' =>
            req'[s].target = req[s].target /\ req'[s].op = req[s].op /\ req'[s].seen = req[s].seen
      BY <2>1, <2>2 DEF Progress
    <2> QED
      BY <2>3 DEF ImageInv, ReleasedIsReplaced, Continues, rowVars
  <1> QED
    BY <1>1, RowsUntouched DEF ImageInv

LEMMA GoesContinues ==
  ASSUME Core, NEW r \in Requests, Running(r), NEW todo, NEW amount, NEW end,
         Goes(r, todo, amount, end),
         "write" \in todo \/ "cleanup" \in todo => Unwritten(r)
  PROVE  /\ \A s \in Requests \ {r} : Continues(s)
         /\ \A s \in Requests : Sent(s)' => Sent(s)
         /\ todo = {} => Continues(r)
         /\ Written(r) /\ todo \subseteq req[r].todo => Continues(r)
         /\ todo \in {{"cleanup"}, {"compensate"}} /\ req[r].op # "remove" => Continues(r)
  <1>1. \A s \in Requests \ {r} : Continues(s)
    BY GoesProgress DEF Continues
  <1>2. \A s \in Requests : Sent(s)' => Sent(s)
    BY GoesProgress DEF Running
  <1>3. todo = {} => Continues(r)
    BY DEF Continues, Written, Goes
  <1>4. ASSUME Written(r), todo \subseteq req[r].todo
        PROVE  Continues(r)
    BY <1>4 DEF Continues, Written, Goes
  <1>5. ASSUME todo \in {{"cleanup"}, {"compensate"}}, req[r].op # "remove"
        PROVE  Continues(r)
    BY <1>5 DEF Continues, Written, Goes
  <1> QED
    BY <1>1, <1>2, <1>3, <1>4, <1>5

LEMMA StartImages ==
  ASSUME Core, Core', ImageInv, NEW r \in Requests, Start(r)
  PROVE  ImageInv'
  <1>1. PICK op \in Operations, h \in Rows :
          /\ Opens(r, op, h)
          /\ op \in {"setup", "config"} <=> h = Profile
          /\ op \in Edits \cup {"remove"} => life[h] = "present"
          /\ op = "create" =>
               life[h] = "absent" /\ \A s \in Requests : Sent(s) => req[s].target # h
    BY StartOpens
  <1>2. /\ Progress /\ UNCHANGED rowVars /\ disk' = disk
        /\ ~Sent(r) /\ req'[r].op = op /\ req'[r].target = h /\ ~Written(r)'
        /\ \A s \in Requests \ {r} :
             /\ Sent(s)' <=> Sent(s)
             /\ Running(s)' <=> Running(s)
             /\ Unwritten(s)' <=> Unwritten(s)
             /\ Written(s)' <=> Written(s)
             /\ req'[s] = req[s]
    BY <1>1, OpensProgress DEF Opens
  <1>3. FilesAreNamedOnce' /\ NoDanglingImages'
    BY <1>2, RowsUntouched
  <1>4. IdsAreFresh'
    <2>1. life' = life
      BY <1>2 DEF rowVars
    <2>2. op \in {"setup", "config", "update", "create", "remove"}
      BY DEF Operations
    <2>3. life[h] = "absent" /\ h # Profile => op = "create"
      BY <1>1, <2>2 DEF Edits
    <2>4. \A s \in Requests :
            Unwritten(s)' /\ req'[s].op = "create" => life'[req'[s].target] = "absent"
      BY <1>1, <1>2, <2>1 DEF ImageInv, IdsAreFresh
    <2>5. ASSUME NEW s \in Requests, Sent(s)', life'[req'[s].target] = "absent",
                 req'[s].target # Profile,
                 NEW u \in Requests, Sent(u)', req'[u].target = req'[s].target
          PROVE  u = s
      <3>1. CASE s # r /\ u # r
        BY <1>2, <2>1, <2>5, <3>1 DEF ImageInv, IdsAreFresh
      <3>2. CASE s = r \/ u = r
        <4>1. op = "create"
          BY <1>2, <2>1, <2>3, <2>5, <3>2
        <4> QED
          BY <1>1, <1>2, <2>5, <3>2, <4>1
      <3> QED
        BY <3>1, <3>2
    <2>6. \A s \in Requests : Running(s)' /\ req'[s].op \in Edits \cup {"remove"} =>
            life'[req'[s].target] # "absent"
      BY <1>1, <1>2, <2>1 DEF ImageInv, IdsAreFresh
    <2> QED
      BY <2>4, <2>5, <2>6 DEF IdsAreFresh
  <1>5. ReleasedIsReplaced'
    <2>1. Running(r)' /\ "image" \in req'[r].fields => "store" \in req'[r].todo
      BY <1>1 DEF Opens
    <2> QED
      BY <1>2, <2>1 DEF ImageInv, ReleasedIsReplaced, rowVars
  <1> QED
    BY <1>3, <1>4, <1>5 DEF ImageInv

LEMMA StoreImages ==
  ASSUME Core, ImageInv, NEW r \in Requests, Store(r)
  PROVE  ImageInv'
  <1>1. /\ Running(r) /\ Unwritten(r) /\ "write" \in req[r].todo
        /\ UNCHANGED rowVars /\ Core'
    BY AtShape, StoreGoes DEF Store, Places
  <1>2. CASE disk' = disk /\ Goes(r, {}, req[r].amount, "refused")
    BY <1>1, <1>2, GoesProgress, GoesContinues, NothingNew
  <1>3. CASE disk' = disk \cup {r} /\ Goes(r, req[r].todo \ {"store"}, req[r].amount, "done")
    <2>1. /\ Progress /\ ~Written(r)'
          /\ \A s \in Requests \ {r} :
               /\ Sent(s)' <=> Sent(s)
               /\ Running(s)' <=> Running(s)
               /\ Written(s)' <=> Written(s)
               /\ req'[s] = req[s]
      BY <1>1, <1>3, GoesProgress
    <2>2. FilesAreNamedOnce' /\ NoDanglingImages' /\ IdsAreFresh'
      BY <1>1, <1>3, <2>1, RowsUntouched DEF Running
    <2>3. ReleasedIsReplaced'
      BY <1>1, <1>3, <2>1 DEF ImageInv, ReleasedIsReplaced, rowVars
    <2> QED
      BY <2>2, <2>3 DEF ImageInv
  <1> QED
    BY <1>2, <1>3, StoreGoes

\* Steps of a handler past its write that leave disk and rows alone, and the
\* end of one that fails.
LEMMA QuietImages ==
  ASSUME Core, ImageInv, NEW r \in Requests, AppendAudit(r) \/ FailAudit(r) \/ Emit(r)
  PROVE  ImageInv'
  <1>1. Running(r) /\ Written(r) /\ UNCHANGED rowVars /\ disk' = disk
    BY AtShape DEF AppendAudit, FailAudit, Emit, Places
  <1>2. Core'
    BY AuditGoes, FailAuditGoes, EmitGoes
  <1>3. \E todo \in {{}, {"compensate"}, req[r].todo \ {"audit"}, req[r].todo \ {"emit"}}, end \in Ends :
          /\ Goes(r, todo, req[r].amount, end)
          /\ todo = {"compensate"} => req[r].op = "setup"
    <2>1. "compensate" \notin req[r].todo /\ "done" \in Ends /\ "failed" \in Ends
      BY AtShape DEF AppendAudit, FailAudit, Emit, Places, AfterWrite, Ends, Dead
    <2>2. CASE AppendAudit(r)
      BY <2>1, <2>2, AuditGoes
    <2>3. CASE FailAudit(r)
      BY <2>1, <2>3, FailAuditGoes
    <2>4. CASE Emit(r)
      BY <2>1, <2>4, EmitGoes
    <2> QED
      BY <2>2, <2>3, <2>4
  <1>4. PICK todo \in {{}, {"compensate"}, req[r].todo \ {"audit"}, req[r].todo \ {"emit"}} :
          /\ \E end \in Ends : Goes(r, todo, req[r].amount, end)
          /\ todo = {"compensate"} => req[r].op = "setup"
    BY <1>3
  <1>5. PICK end \in Ends : Goes(r, todo, req[r].amount, end)
    BY <1>4
  <1>6. "write" \notin todo /\ "cleanup" \notin todo
    BY <1>1, <1>4 DEF Written
  <1>7. Continues(r)
    <2>1. CASE todo = {"compensate"}
      BY <1>1, <1>4, <1>5, <1>6, <2>1, GoesContinues
    <2>2. CASE todo # {"compensate"}
      <3>1. todo \subseteq req[r].todo
        BY <1>4, <2>2
      <3> QED
        BY <1>1, <1>5, <1>6, <3>1, GoesContinues
    <2> QED
      BY <2>1, <2>2
  <1>8. Progress
    BY <1>1, <1>5, <1>6, GoesProgress
  <1>9. \A s \in Requests : Continues(s)
    BY <1>1, <1>5, <1>6, <1>7, GoesContinues
  <1>10. \A s \in Requests : Sent(s)' => Sent(s)
    BY <1>1, <1>5, <1>6, GoesContinues
  <1> QED
    BY <1>1, <1>2, <1>8, <1>9, <1>10, NothingNew

LEMMA CrashImages ==
  ASSUME Core, ImageInv, Crash
  PROVE  ImageInv'
  <1>1. Core' /\ Progress /\ UNCHANGED rowVars /\ disk' = disk
    BY CrashEnds, CrashProgress
  <1>2. \A s \in Requests : Continues(s)
    BY CrashEnds DEF Continues, Written
  <1>3. \A s \in Requests : Sent(s)' => Sent(s)
    BY CrashEnds DEF Sent, Running
  <1> QED
    BY <1>1, <1>2, <1>3, NothingNew

\* Files have one row: what one row names no other does.
LEMMA NamesAreOfOneRow ==
  ASSUME NEW f \in Files, NEW g \in Rows, NEW h \in Rows, NamedBy(f, g), NamedBy(f, h)
  PROVE  g = h
  BY ImageAssumption DEF NamedBy, Files

LEMMA ReleaseImages ==
  ASSUME Core, ImageInv, NEW r \in Requests, Release(r)
  PROVE  ImageInv'
  <1> DEFINE f == req[r].seen.image
  <1>1. /\ Written(r) /\ Running(r) /\ "release" \in req[r].todo /\ UNCHANGED rowVars
        /\ disk' = disk \ {f} /\ req[r].target \in Rows
    BY AtShape, RunningFields DEF Release, Places, Core
  <1>2. Core' /\ Goes(r, req[r].todo \ {"release"}, req[r].amount, "done")
    BY ReleaseGoes
  <1>3. /\ Progress
        /\ \A s \in Requests \ {r} :
             /\ Sent(s)' <=> Sent(s)
             /\ Running(s)' <=> Running(s)
             /\ Written(s)' <=> Written(s)
             /\ req'[s] = req[s]
    BY <1>1, <1>2, GoesProgress DEF Written
  <1>4. \A s \in Requests : Sent(s)' => Sent(s)
    BY <1>1, <1>3 DEF Running
  <1>5. FilesAreNamedOnce' /\ IdsAreFresh'
    BY <1>1, <1>2, <1>3, <1>4, RowsUntouched
  <1>6. NamedBy(f, req[r].target) /\ f \in Files \cup {None}
    BY <1>1, RunningFields DEF ImageInv, FilesAreNamedOnce, Core
  <1>7. NoDanglingImages'
    <2>1. ASSUME NEW h \in Rows, life[h] = "present", row[h].image = f, f # None
          PROVE  FALSE
      <3>1. NamedBy(f, h)
        BY <2>1 DEF ImageInv, FilesAreNamedOnce
      <3>2. h = req[r].target
        BY <1>1, <1>6, <2>1, <3>1, NamesAreOfOneRow
      <3> QED
        BY <1>1, <2>1, <3>2 DEF ImageInv, ReleasedIsReplaced
    <2> HIDE DEF f
    <2>2. ASSUME NEW h \in Rows, life'[h] = "present", row'[h].image \notin disk' \cup {None}
          PROVE  \E q \in Requests : row'[h].image = q /\ Died(q)' /\ req'[q].op = "setup"
      <3>1. life[h] = "present" /\ row'[h] = row[h] /\ row[h].image \notin disk \cup {None}
        BY <1>1, <2>1, <2>2 DEF rowVars
      <3>2. PICK q \in Requests : row[h].image = q /\ Died(q) /\ req[q].op = "setup"
        BY <3>1 DEF ImageInv, NoDanglingImages
      <3> QED
        BY <1>3, <3>1, <3>2 DEF Progress, Died
    <2> QED
      BY <2>2 DEF NoDanglingImages
  <1>8. ReleasedIsReplaced'
    <2>1. ASSUME NEW s \in Requests, Unwritten(s)
          PROVE  s # f
      BY <1>1, <1>6, <2>1, ImageAssumption DEF NamedBy, Files
    <2>2. Continues(r)
      BY <1>1, <1>2, GoesContinues DEF Written
    <2>3. ASSUME NEW s \in Requests
          PROVE  /\ Written(s)' /\ "release" \in req'[s].todo =>
                      life'[req'[s].target] # "present"
                        \/ row'[req'[s].target].image # req'[s].seen.image
                 /\ Written(s)' /\ req'[s].op = "remove" => life'[req'[s].target] = "removed"
      <3>1. CASE s = r
        BY <1>1, <1>2, <2>2, <3>1 DEF Continues, Goes, ImageInv, ReleasedIsReplaced, rowVars, Written
      <3>2. CASE s # r
        BY <1>1, <1>3, <3>2 DEF ImageInv, ReleasedIsReplaced, rowVars
      <3> QED
        BY <3>1, <3>2
    <2>4. ASSUME NEW s \in Requests, Running(s)', "image" \in req'[s].fields,
                 "write" \in req'[s].todo, "store" \notin req'[s].todo
          PROVE  s \in disk'
      <3>1. s # r
        BY <1>1, <2>2, <2>4 DEF Continues, Written
      <3>2. Unwritten(s) /\ s \in disk
        BY <1>3, <2>4, <3>1 DEF Unwritten, ImageInv, ReleasedIsReplaced
      <3> QED
        BY <1>1, <2>1, <3>2
    <2> QED
      BY <2>3, <2>4 DEF ReleasedIsReplaced
  <1> QED
    BY <1>5, <1>7, <1>8 DEF ImageInv

\* The logo of a profile whose setup fails afterwards is the one exception.
LEMMA CompensateImages ==
  ASSUME Core, ImageInv, NEW r \in Requests, Compensate(r)
  PROVE  ImageInv'
  <1>1. /\ Running(r) /\ req[r].op = "setup" /\ Core' /\ UNCHANGED rowVars /\ disk' = disk \ {r}
    BY CompensateGoes DEF Compensate
  <1>2. PICK end \in {"refused", "failed"} :
          /\ Goes(r, {}, req[r].amount, end)
          /\ req[r].todo = {"cleanup"} \/ end = "failed"
    BY CompensateGoes
  <1>3. /\ Progress /\ ~Running(r)'
        /\ \A s \in Requests \ {r} :
             /\ Sent(s)' <=> Sent(s)
             /\ Running(s)' <=> Running(s)
             /\ Written(s)' <=> Written(s)
             /\ req'[s] = req[s]
    BY <1>1, <1>2, GoesProgress DEF Goes
  <1>4. \A s \in Requests : Sent(s)' => Sent(s)
    BY <1>1, <1>3 DEF Running
  <1>5. FilesAreNamedOnce' /\ IdsAreFresh'
    BY <1>1, <1>3, <1>4, RowsUntouched
  <1>6. NoDanglingImages'
    <2>1. ASSUME NEW h \in Rows, row[h].image = r, end # "failed"
          PROVE  FALSE
      <3>1. NamedBy(r, h)
        BY <2>1 DEF ImageInv, FilesAreNamedOnce
      <3>2. r \in Files /\ Unwritten(r) /\ r \notin Rows
        BY <1>1, <1>2, <2>1, ImageAssumption DEF Files, Unwritten
      <3> QED
        BY <2>1, <3>1, <3>2, ImageAssumption DEF NamedBy
    <2>2. end = "failed" => Died(r)' /\ req'[r].op = "setup"
      BY <1>1, <1>2 DEF Goes, Dead
    <2> QED
      BY <1>1, <1>3, <2>1, <2>2 DEF ImageInv, NoDanglingImages, rowVars, Progress, Died
  <1>7. ReleasedIsReplaced'
    <2>1. ~Written(r)'
      BY <1>3 DEF Written
    <2> QED
      BY <1>1, <1>3, <2>1 DEF ImageInv, ReleasedIsReplaced, rowVars
  <1> QED
    BY <1>5, <1>6, <1>7 DEF ImageInv

\* A request that writes its row: what the others are about to release is not
\* what it names, and its own file is on disk.
LEMMA WriterImages ==
  ASSUME Core, Core', ImageInv, NEW r \in Requests, At(r, "write"), disk' = disk,
         NEW amount, Goes(r, req[r].todo \ {"write"}, amount, "done"),
         NEW h \in Rows, h = req[r].target,
         \A g \in Rows \ {h} : life'[g] = life[g] /\ row'[g] = row[g],
         life'[h] # "absent",
         \/ /\ life'[h] = life[h] /\ life[h] # "present"
            /\ row'[h] = row[h] /\ req[r].op \in Edits
         \/ /\ life'[h] = "present" /\ req[r].op \in Edits /\ life[h] = "present"
            /\ row'[h].image = (IF "image" \in req[r].fields THEN r ELSE row[h].image)
         \/ /\ life'[h] = "present" /\ req[r].op \in {"setup", "create"} /\ life[h] = "absent"
            /\ row'[h].image = (IF "image" \in req[r].fields THEN r ELSE None)
         \/ /\ life'[h] = "removed" /\ req[r].op = "remove" /\ row'[h] = row[h]
  PROVE  ImageInv'
  <1>1. /\ Running(r) /\ Unwritten(r) /\ "write" \in req[r].todo /\ "store" \notin req[r].todo
        /\ Shape(req[r]) /\ req[r].todo \ {"write"} = AfterWrite(req[r]) /\ req[r] \in Handler
    BY AtShape, RunningIsHandler DEF Places, Core
  <1>2. AfterWrite(req[r]) \subseteq {"release", "audit", "emit"}
    BY DEF AfterWrite
  <1>3. /\ Progress /\ ~Unwritten(r)'
        /\ \A s \in Requests \ {r} :
             /\ Sent(s)' <=> Sent(s)
             /\ Running(s)' <=> Running(s)
             /\ Died(s)' <=> Died(s)
             /\ Unwritten(s)' <=> Unwritten(s)
             /\ Written(s)' <=> Written(s)
             /\ req'[s] = req[s]
    BY <1>1, <1>2, GoesProgress
  <1>4. /\ Sent(r) /\ req'[r].target = h /\ req'[r].op = req[r].op
        /\ Running(r)' => req'[r].todo = AfterWrite(req[r]) /\ req'[r].seen = req[r].seen
    BY <1>1 DEF Goes, Running
  <1>5. FilesAreNamedOnce'
    BY <1>1, <1>3, RowsStayNamed DEF ImageInv
  <1>6. IdsAreFresh'
    <2>1. ASSUME NEW s \in Requests, Unwritten(s)', req'[s].op = "create"
          PROVE  life'[req'[s].target] = "absent"
      <3>1. s # r /\ Unwritten(s) /\ req[s].op = "create" /\ req'[s] = req[s] /\ Running(s) /\ Sent(s)
        BY <1>3, <2>1 DEF Unwritten, Running
      <3>2. life[req[s].target] = "absent" /\ req[s].target # Profile /\ req[s].target \in Rows
        BY <3>1, RunningFields DEF ImageInv, IdsAreFresh, Core, Shapes, Shape
      <3>3. req[s].target # h
        BY <1>4, <3>1, <3>2 DEF ImageInv, IdsAreFresh
      <3> QED
        BY <3>1, <3>2, <3>3
    <2>2. ASSUME NEW s \in Requests, Sent(s)', life'[req'[s].target] = "absent",
                 req'[s].target # Profile,
                 NEW u \in Requests, Sent(u)', req'[u].target = req'[s].target
          PROVE  u = s
      <3>1. req'[s].target # h /\ s # r /\ u # r
        BY <1>4, <2>2
      <3>2. Sent(s) /\ Sent(u) /\ req'[s] = req[s] /\ req'[u] = req[u]
        BY <1>3, <2>2, <3>1
      <3>3. req[s].target \in Rows
        BY <3>2, RunningIsHandler, HandlerFields DEF Core, Past
      <3> QED
        BY <2>2, <3>1, <3>2, <3>3 DEF ImageInv, IdsAreFresh
    <2>3. ASSUME NEW s \in Requests, Running(s)', req'[s].op \in Edits \cup {"remove"}
          PROVE  life'[req'[s].target] # "absent"
      <3>1. CASE s = r
        BY <1>4, <3>1
      <3>2. CASE s # r
        <4>1. Running(s) /\ req'[s] = req[s] /\ req[s].target \in Rows
          BY <1>3, <2>3, <3>2, RunningFields DEF Core
        <4> QED
          BY <2>3, <4>1 DEF ImageInv, IdsAreFresh
      <3> QED
        BY <3>1, <3>2
    <2> QED
      BY <2>1, <2>2, <2>3 DEF IdsAreFresh
  <1>7. \A g \in Rows : row'[g].image = r => r \in disk \/ row[g].image = r
    BY <1>1, ImageAssumption DEF ImageInv, ReleasedIsReplaced, Files
  <1>8. NoDanglingImages'
    <2>1. ASSUME NEW g \in Rows, life'[g] = "present", row'[g].image \notin disk' \cup {None}
          PROVE  \E q \in Requests : row'[g].image = q /\ Died(q)' /\ req'[q].op = "setup"
      <3>1. row[g].image # r
        <4>1. ASSUME row[g].image = r PROVE FALSE
          <5>1. NamedBy(r, g) /\ r \in Files /\ r \notin Rows /\ r # None
            BY <4>1, ImageAssumption DEF ImageInv, FilesAreNamedOnce, Files
          <5> QED
            BY <1>1, <5>1 DEF NamedBy
        <4> QED
          BY <4>1
      <3>2. life[g] = "present" /\ row'[g].image = row[g].image
        BY <1>1, <1>7, <2>1, <3>1
      <3>3. PICK q \in Requests : row[g].image = q /\ Died(q) /\ req[q].op = "setup"
        BY <2>1, <3>2 DEF ImageInv, NoDanglingImages
      <3> QED
        BY <1>3, <3>2, <3>3 DEF Progress, Died
    <2> QED
      BY <2>1 DEF NoDanglingImages
  <1>9. ASSUME NEW s \in Requests, Running(s), "release" \in req[s].todo
        PROVE  req[s].seen.image # None /\ req[s].seen.image # r
    <2>1. req[s] \in Handler /\ "release" \in AfterWrite(req[s])
      BY <1>9, RunningIsHandler DEF Core, Shapes, Shape
    <2>2. req[s].seen.image # None
      BY <2>1, AfterWriteCases
    <2>3. NamedBy(req[s].seen.image, req[s].target) /\ req[s].target \in Rows
      BY <1>9, RunningFields DEF ImageInv, FilesAreNamedOnce, Core
    <2> QED
      BY <1>1, <2>2, <2>3, ImageAssumption DEF NamedBy
  <1>10. ReleasedIsReplaced'
    <2>1. ASSUME NEW s \in Requests, Written(s)', "release" \in req'[s].todo
          PROVE  \/ life'[req'[s].target] # "present"
                 \/ row'[req'[s].target].image # req'[s].seen.image
      <3>1. CASE s # r
        <4>1. Written(s) /\ Running(s) /\ req'[s] = req[s] /\ "release" \in req[s].todo
          BY <1>3, <2>1, <3>1 DEF Written
        <4>2. req[s].target \in Rows
          BY <4>1, RunningFields DEF Core
        <4>3. req[s].seen.image # None /\ req[s].seen.image # r
          BY <1>9, <4>1
        <4>4. \/ life[req[s].target] # "present"
              \/ row[req[s].target].image # req[s].seen.image
          BY <4>1 DEF ImageInv, ReleasedIsReplaced
        <4> QED
          BY <4>1, <4>2, <4>3, <4>4
      <3>2. CASE s = r
        <4>1. /\ req'[r].seen = req[r].seen /\ "release" \in AfterWrite(req[r])
          BY <1>4, <2>1, <3>2 DEF Written
        <4>2. "release" \in req[r].todo
          BY <1>1, <4>1
        <4>3. req[r].seen.image # r
          BY <1>1, <1>9, <4>2
        <4>4. req[r].op = "remove" \/ (req[r].op \in Edits /\ "image" \in req[r].fields)
          BY <1>1, <4>1, AfterWriteCases
        <4> QED
          BY <1>4, <3>2, <4>1, <4>3, <4>4 DEF Edits
      <3> QED
        BY <3>1, <3>2
    <2>2. ASSUME NEW s \in Requests, Written(s)', req'[s].op = "remove"
          PROVE  life'[req'[s].target] = "removed"
      <3>1. CASE s = r
        BY <1>4, <2>2, <3>1 DEF Edits
      <3>2. CASE s # r
        <4>1. Written(s) /\ Running(s) /\ req'[s] = req[s] /\ req[s].op = "remove" /\ Sent(s)
          BY <1>3, <2>2, <3>2 DEF Written, Running
        <4>2. life[req[s].target] = "removed" /\ req[s].target \in Rows
          BY <4>1, RunningFields DEF ImageInv, ReleasedIsReplaced, Core
        <4> QED
          BY <4>1, <4>2
      <3> QED
        BY <3>1, <3>2
    <2>3. ASSUME NEW s \in Requests, Running(s)', "image" \in req'[s].fields,
                 "write" \in req'[s].todo, "store" \notin req'[s].todo
          PROVE  s \in disk'
      <3>1. s # r
        BY <1>3, <2>3 DEF Unwritten
      <3> QED
        BY <1>3, <2>3, <3>1 DEF ImageInv, ReleasedIsReplaced
    <2> QED
      BY <2>1, <2>2, <2>3 DEF ReleasedIsReplaced
  <1> QED
    BY <1>5, <1>6, <1>8, <1>10 DEF ImageInv

LEMMA WriteImages ==
  ASSUME Core, ImageInv, NEW r \in Requests, Write(r)
  PROVE  ImageInv'
  <1> DEFINE h == req[r].target
  <1>1. /\ At(r, "write") /\ Running(r) /\ h \in Rows /\ disk' = disk /\ Shape(req[r])
    BY RunningFields
    DEF Write, WriteSetup, WriteCreate, WriteEdit, WriteRemove, At, Core, Shapes
  <1>2. Unwritten(r) /\ "cleanup" \notin AfterWrite(req[r]) /\ req[r].todo \ {"write"} = AfterWrite(req[r])
    BY <1>1, AtShape DEF Places, AfterWrite
  <1>3. CASE WriteSetup(r)
    <2>1. CASE /\ life[Profile] = "absent" /\ req[r].target = Profile /\ Insert(r)
               /\ Goes(r, req[r].todo \ {"write"}, req[r].amount, "done")
      <3>1. Core' /\ req[r].op = "setup"
        BY <1>3, WriteSetupGoes DEF WriteSetup
      <3>2. /\ life' = [life EXCEPT ![h] = "present"]
            /\ row'[h].image = (IF "image" \in req[r].fields THEN r ELSE None)
            /\ \A g \in Rows \ {h} : row'[g] = row[g]
        BY <1>1, <2>1, InsertRow
      <3>3. /\ \A g \in Rows \ {h} : life'[g] = life[g] /\ row'[g] = row[g]
            /\ life'[h] = "present"
        BY <1>1, <3>2 DEF Core, RowTypes
      <3> HIDE DEF h
      <3> QED
        BY <1>1, <2>1, <3>1, <3>2, <3>3, WriterImages DEF h
    <2>2. CASE /\ UNCHANGED <<rowVars, outVars>>
               /\ \/ "image" \in req[r].fields /\ Goes(r, {"cleanup"}, req[r].amount, "refused")
                  \/ "image" \notin req[r].fields /\ Goes(r, {}, req[r].amount, "refused")
      <3>1. Core' /\ req[r].op = "setup"
        BY <1>3, WriteSetupGoes DEF WriteSetup
      <3>2. PICK todo \in {{"cleanup"}, {}} : Goes(r, todo, req[r].amount, "refused")
        BY <2>2
      <3>3. Progress
        BY <1>1, <1>2, <3>2, GoesProgress
      <3>4. \A s \in Requests : Sent(s)' => Sent(s)
        BY <1>1, <1>2, <3>2, GoesContinues
      <3>5. \A s \in Requests : Continues(s)
        BY <1>1, <1>2, <3>1, <3>2, GoesContinues
      <3> QED
        BY <1>1, <2>2, <3>1, <3>3, <3>4, <3>5, NothingNew
    <2> QED
      BY <1>3, <2>1, <2>2, WriteSetupGoes
  <1>4. CASE WriteCreate(r)
    <2>1. /\ Core' /\ req[r].op = "create" /\ Insert(r)
          /\ Goes(r, req[r].todo \ {"write"}, req[r].amount, "done")
      BY <1>4, WriteCreateGoes DEF WriteCreate
    <2>2. /\ life' = [life EXCEPT ![h] = "present"]
          /\ row'[h].image = (IF "image" \in req[r].fields THEN r ELSE None)
          /\ \A g \in Rows \ {h} : row'[g] = row[g]
      BY <1>1, <2>1, InsertRow
    <2>3. /\ \A g \in Rows \ {h} : life'[g] = life[g] /\ row'[g] = row[g]
          /\ life'[h] = "present"
      BY <1>1, <2>2 DEF Core, RowTypes
    <2>4. life[h] = "absent"
      BY <1>2, <2>1 DEF ImageInv, IdsAreFresh
    <2> HIDE DEF h
    <2> QED
      BY <1>1, <2>1, <2>2, <2>3, <2>4, WriterImages DEF h
  <1>5. CASE WriteEdit(r)
    <2>1. PICK amount \in Amounts : Goes(r, req[r].todo \ {"write"}, amount, "done")
      BY <1>5, WriteEditGoes
    <2>2. /\ \A g \in Rows : g # h \/ life[g] # "present" => row'[g] = row[g]
          /\ life[h] = "present" => row'[h] = Patched(r, row[h])
          /\ Core'
      BY <1>5, WriteEditGoes
    <2>3. life' = life /\ req[r].op \in Edits
      BY <1>5 DEF WriteEdit, Edits
    <2>4. life[h] # "absent"
      BY <1>1, <2>3 DEF ImageInv, IdsAreFresh
    <2>5. life[h] = "present" =>
            row'[h].image = (IF "image" \in req[r].fields THEN r ELSE row[h].image)
      BY <1>1, <2>2, PatchedRow DEF Core, RowTypes
    <2> HIDE DEF h
    <2> QED
      BY <1>1, <2>1, <2>2, <2>3, <2>4, <2>5, WriterImages DEF h
  <1>6. CASE WriteRemove(r)
    <2>1. Core' /\ Goes(r, req[r].todo \ {"write"}, req[r].amount, "done")
      BY <1>6, WriteRemoveGoes
    <2>2. /\ life' = [life EXCEPT ![h] = "removed"] /\ row' = row /\ req[r].op = "remove"
      BY <1>6 DEF WriteRemove
    <2>3. /\ \A g \in Rows \ {h} : life'[g] = life[g] /\ row'[g] = row[g]
          /\ life'[h] = "removed" /\ row'[h] = row[h]
      BY <1>1, <2>2 DEF Core, RowTypes
    <2> HIDE DEF h
    <2> QED
      BY <1>1, <2>1, <2>2, <2>3, WriterImages DEF h
  <1> QED
    BY <1>3, <1>4, <1>5, <1>6 DEF Write

LEMMA ImageInit == Init => ImageInv
  <1> SUFFICES ASSUME Init PROVE ImageInv
    OBVIOUS
  <1>1. \A r \in Requests : ~Sent(r) /\ ~Running(r) /\ ~Unwritten(r) /\ ~Written(r)
    BY DEF Init, Sent, Running, Unwritten, Written
  <1>2. \A h \in Rows : row[h].image = (IF life[h] = "present" THEN h ELSE None)
    BY DEF Init
  <1>3. disk = {h \in Rows : life[h] = "present"}
    BY DEF Init
  <1> QED
    BY <1>1, <1>2, <1>3
    DEF ImageInv, FilesAreNamedOnce, NamedBy, IdsAreFresh, ReleasedIsReplaced, NoDanglingImages

LEMMA ImageStep == Core /\ ImageInv /\ [Next]_vars => ImageInv'
  <1> SUFFICES ASSUME Core, ImageInv, [Next]_vars PROVE ImageInv'
    OBVIOUS
  <1>0. Core'
    BY CoreStep
  <1>1. ASSUME NEW r \in Requests, Start(r)
        PROVE  ImageInv'
    BY <1>0, <1>1, StartImages
  <1>2. ASSUME NEW r \in Requests, GoOn(r)
        PROVE  ImageInv'
    BY <1>2, StoreImages, WriteImages, QuietImages, ReleaseImages, CompensateImages DEF GoOn
  <1>3. CASE UNCHANGED vars
    BY <1>3 DEF vars, rowVars, outVars, ImageInv, FilesAreNamedOnce, NamedBy, IdsAreFresh,
                ReleasedIsReplaced, NoDanglingImages, Sent, Running, Died, Unwritten, Written
  <1> QED
    BY <1>1, <1>2, <1>3, CrashImages DEF Next

\* NoDanglingImages: however edits, removals and restarts interleave, an image
\* that a row points to is on disk, but for the logo of a setup that failed
\* after its commit.
THEOREM ImagesNeverDangle == Spec => []NoDanglingImages
  <1>1. ImageInv => NoDanglingImages
    BY DEF ImageInv
  <1> QED
    BY <1>1, CoreInit, CoreStep, ImageInit, ImageStep, PTL DEF Spec

-----------------------------------------------------------------------------
(***************************************************************************)
(* No file is left over unexplained.                                       *)
(***************************************************************************)
Explained(f) ==
  \/ life[RowOf(f)] = "present" /\ row[RowOf(f)].image = f
  \/ \E r \in Requests :
       \/ Running(r) /\ (r = f \/ req[r].seen.image = f)
       \/ Died(r) /\ (r = f \/ req[r].image = f)
  \/ RowOf(f) \in contended

\* The row of a file that a row names.
LEMMA RowOfNamed ==
  ASSUME NEW h \in Rows, NEW f \in Files, NamedBy(f, h)
  PROVE  RowOf(f) = h
  BY ImageAssumption DEF NamedBy, RowOf, Files

\* A file keeps its row.
LEMMA RowOfStays ==
  ASSUME Core, Progress, FilesAreStored
  PROVE  \A f \in disk : RowOf(f)' = RowOf(f)
  BY DEF RowOf, Progress, FilesAreStored, Core, RowTypes, Files

\* A file stays explained unless the row it is the image of, or the request
\* that had to do with it, changes.
LEMMA ExplainedStays ==
  ASSUME Core, Progress, LeftoverInv, contended \subseteq contended',
         NEW f \in disk,
         life[RowOf(f)] = "present" /\ row[RowOf(f)].image = f =>
           \/ life'[RowOf(f)] = "present" /\ row'[RowOf(f)].image = f
           \/ Explained(f)',
         \A r \in Requests :
           Running(r) /\ (r = f \/ req[r].seen.image = f) =>
             \/ Running(r)'
             \/ Died(r)' /\ req'[r].image = req[r].seen.image
             \/ Explained(f)'
  PROVE  Explained(f)'
  <1>0. RowOf(f)' = RowOf(f)
    BY RowOfStays DEF LeftoverInv
  <1>1. Explained(f)
    BY DEF LeftoverInv, LeftoversAreExplained, Explained
  <1>2. CASE life[RowOf(f)] = "present" /\ row[RowOf(f)].image = f
    BY <1>0, <1>2 DEF Explained
  <1>3. ASSUME NEW r \in Requests, Running(r), r = f \/ req[r].seen.image = f
        PROVE  Explained(f)'
    BY <1>3 DEF Explained, Progress
  <1>4. ASSUME NEW r \in Requests, Died(r), r = f \/ req[r].image = f
        PROVE  Explained(f)'
    BY <1>4 DEF Explained, Progress
  <1>5. CASE RowOf(f) \in contended
    BY <1>0, <1>5 DEF Explained
  <1> QED
    BY <1>1, <1>2, <1>3, <1>4, <1>5 DEF Explained

\* A request that ends without having written leaves its row as it was read.
LEMMA FoundExplains ==
  ASSUME Core, ImageInv, LeftoverInv, NEW r \in Requests, Unwritten(r), NEW f \in disk,
         req[r].seen.image = f
  PROVE  \/ RowOf(f) \in contended
         \/ life[RowOf(f)] = "present" /\ row[RowOf(f)].image = f
  <1>1. Running(r) /\ req[r].target \in Rows /\ f \in Files /\ f # None
    BY RunningFields, ImageAssumption DEF Unwritten, Core, RowTypes
  <1>2. NamedBy(f, req[r].target)
    BY <1>1 DEF ImageInv, FilesAreNamedOnce
  <1>3. RowOf(f) = req[r].target
    BY <1>1, <1>2, RowOfNamed
  <1>4. life[req[r].target] \in {"absent", "present", "removed"}
    BY <1>1 DEF Core, RowTypes
  <1> QED
    BY <1>1, <1>3, <1>4 DEF LeftoverInv, RowsAreHeld, Found, ImageInv, FilesAreNamedOnce

\* One that ends having written leaves it as it wrote it.
LEMMA HeldExplains ==
  ASSUME Core, ImageInv, LeftoverInv, Core', Progress, NEW r \in Requests, Running(r),
         contended' = contended,
         NEW h \in Rows, h = req[r].target,
         h \notin contended => Held(r, req[r], life'[h], row'[h]),
         r \in disk' => "image" \in req[r].fields,
         Releases(req[r]) => req[r].seen.image \notin disk',
         NEW f \in disk, f \in disk', r = f \/ req[r].seen.image = f
  PROVE  Explained(f)'
  <1>1. f \in Files /\ f # None /\ req[r].op \in Operations /\ Sent(r) /\ Shape(req[r])
    BY RunningFields, ImageAssumption DEF Core, RowTypes, Shapes
  <1>2. RowOf(f) = h
    <2>1. CASE r = f
      BY <2>1, ImageAssumption DEF RowOf
    <2>2. CASE req[r].seen.image = f
      BY <1>1, <2>2, RowOfNamed DEF ImageInv, FilesAreNamedOnce
    <2> QED
      BY <2>1, <2>2
  <1>3. RowOf(f)' = h
    BY <1>2, RowOfStays DEF LeftoverInv
  <1>4. CASE h \in contended
    BY <1>3, <1>4 DEF Explained
  <1>5. CASE h \notin contended
    <2>1. Held(r, req[r], life'[h], row'[h])
      BY <1>5
    <2>2. CASE r = f
      <3>1. "image" \in req[r].fields /\ req[r].op # "remove"
        BY <1>1, <2>2 DEF Shape
      <3> QED
        BY <1>3, <2>1, <2>2, <3>1 DEF Held, Explained
    <2>3. CASE req[r].seen.image = f
      <3>1. ~Releases(req[r]) /\ req[r].seen.image # None
        BY <1>1, <2>3
      <3>2. req[r].op \in Edits /\ "image" \notin req[r].fields
        BY <1>1, <2>1, <3>1 DEF Held, Releases, Operations, Edits
      <3> QED
        BY <1>3, <2>1, <2>3, <3>2 DEF Held, Explained, Edits
    <2> QED
      BY <2>2, <2>3
  <1> QED
    BY <1>4, <1>5

LEMMA MoverExplains ==
  ASSUME Core, ImageInv, LeftoverInv, Core', Progress, NEW r \in Requests, Running(r),
         NEW todo, NEW amount, NEW end, Goes(r, todo, amount, end),
         contended' = contended, NEW h \in Rows, h = req[r].target,
         \A g \in Rows \ {h} : life'[g] = life[g] /\ row'[g] = row[g],
         (life'[h] = life[h] /\ row'[h] = row[h]) \/ Unwritten(r),
         disk' \subseteq disk \cup {r}, r \in disk' \ disk => todo # {},
         \/ todo # {}
         \/ end \in Dead
         \/ Unwritten(r) /\ r \notin disk' /\ life'[h] = life[h] /\ row'[h] = row[h]
         \/ /\ h \notin contended => Held(r, req[r], life'[h], row'[h])
            /\ r \in disk' => "image" \in req[r].fields
            /\ Releases(req[r]) => req[r].seen.image \notin disk'
  PROVE  LeftoversAreExplained'
  <1>1. ASSUME NEW f \in disk, f \in disk', r = f \/ req[r].seen.image = f
        PROVE  \/ Running(r)'
               \/ Died(r)' /\ req'[r].image = req[r].seen.image
               \/ Explained(f)'
    <2>1. CASE todo # {} \/ end \in Dead
      BY <2>1 DEF Goes
    <2>2. CASE /\ Unwritten(r) /\ r \notin disk'
               /\ life'[h] = life[h] /\ row'[h] = row[h]
      <3>1. req[r].seen.image = f
        BY <1>1, <2>2
      <3>2. \/ RowOf(f) \in contended
            \/ life[RowOf(f)] = "present" /\ row[RowOf(f)].image = f
        BY <2>2, <3>1, FoundExplains
      <3>3. RowOf(f)' = RowOf(f) /\ RowOf(f) = h
        BY <1>1, <3>1, RowOfStays, RowOfNamed
        DEF LeftoverInv, ImageInv, FilesAreNamedOnce, Core, RowTypes
      <3> QED
        BY <2>2, <3>2, <3>3 DEF Explained
    <2>3. CASE /\ h \notin contended => Held(r, req[r], life'[h], row'[h])
               /\ r \in disk' => "image" \in req[r].fields
               /\ Releases(req[r]) => req[r].seen.image \notin disk'
      BY <1>1, <2>3, HeldExplains
    <2> QED
      BY <2>1, <2>2, <2>3
  <1>2. ASSUME NEW f \in disk, f \in disk'
        PROVE  Explained(f)'
    <2>1. RowOf(f)' = RowOf(f) /\ RowOf(f) \in Rows
      <3>1. f \in Files /\ (f \in Requests => Sent(f))
        BY DEF Core, RowTypes, LeftoverInv, FilesAreStored
      <3>2. f \in Requests => req[f].target \in Rows
        BY <3>1, RunningIsHandler, HandlerFields DEF Core, Past
      <3> QED
        BY <3>1, <3>2, RowOfStays DEF LeftoverInv, RowOf, Files
    <2>2. ASSUME life[RowOf(f)] = "present", row[RowOf(f)].image = f
          PROVE  \/ life'[RowOf(f)] = "present" /\ row'[RowOf(f)].image = f
                 \/ Explained(f)'
      <3>1. CASE RowOf(f) # h \/ (life'[h] = life[h] /\ row'[h] = row[h])
        BY <2>1, <2>2, <3>1
      <3>2. CASE RowOf(f) = h /\ Unwritten(r) /\ h \in contended
        BY <2>1, <3>2 DEF Explained
      <3>3. CASE RowOf(f) = h /\ Unwritten(r) /\ h \notin contended
        <4>1. req[r].seen.image = f
          BY <2>2, <3>3 DEF LeftoverInv, RowsAreHeld, Found
        <4>2. Running(r)' \/ (Died(r)' /\ req'[r].image = f) \/ Explained(f)'
          BY <1>1, <1>2, <4>1
        <4> QED
          BY <4>1, <4>2 DEF Explained, Progress
      <3> QED
        BY <3>1, <3>2, <3>3
    <2>3. ASSUME NEW s \in Requests, Running(s), s = f \/ req[s].seen.image = f
          PROVE  \/ Running(s)'
                 \/ Died(s)' /\ req'[s].image = req[s].seen.image
                 \/ Explained(f)'
      <3>1. CASE s = r
        BY <1>1, <1>2, <2>3, <3>1
      <3>2. CASE s # r
        BY <2>3, <3>2 DEF Goes, Running, Sent
      <3> QED
        BY <3>1, <3>2
    <2> QED
      BY <1>2, <2>2, <2>3, ExplainedStays
  <1>3. ASSUME NEW f \in disk', f \notin disk
        PROVE  Explained(f)'
    <2>1. f = r /\ Running(r)'
      BY <1>3 DEF Goes
    <2> QED
      BY <2>1 DEF Explained
  <1> QED
    BY <1>2, <1>3 DEF LeftoversAreExplained, Explained

LEMMA MoverHolds ==
  ASSUME Core, ImageInv, LeftoverInv, Core', NEW r \in Requests, Running(r),
         NEW todo, NEW amount, NEW end, Goes(r, todo, amount, end),
         "write" \in todo \/ "cleanup" \in todo => Unwritten(r),
         contended' = contended, NEW h \in Rows, h = req[r].target,
         \A g \in Rows \ {h} : life'[g] = life[g] /\ row'[g] = row[g],
         life'[Profile] # "removed",
         h \notin contended =>
           /\ Unwritten(r)' => life'[h] = life[h] /\ row'[h] = row[h]
           /\ Written(r)' => Held(r, req[r], life'[h], row'[h])
  PROVE  RowsAreHeld' /\ ContendedIsNoticed'
  <1>1. /\ Progress
        /\ Unwritten(r)' => Unwritten(r)
        /\ \A s \in Requests \ {r} :
              /\ Running(s)' <=> Running(s)
              /\ Unwritten(s)' <=> Unwritten(s)
              /\ Written(s)' <=> Written(s)
              /\ req'[s] = req[s]
    BY GoesProgress
  <1>2. ContendedIsNoticed'
    <2>1. \A s \in Requests : Running(s)' => Running(s) /\ req'[s].target = req[s].target
      BY <1>1 DEF Goes
    <2> QED
      BY <2>1 DEF LeftoverInv, ContendedIsNoticed
  <1>3. ASSUME NEW s \in Requests, Running(s)', req'[s].target \notin contended'
        PROVE  LET g == req'[s].target
               IN /\ Unwritten(s)' => Found(req'[s], life'[g], row'[g])
                  /\ Written(s)' => Held(s, req'[s], life'[g], row'[g])
    <2>1. CASE s # r
      <3>1. Running(s) /\ req'[s] = req[s] /\ req[s].target \in Rows /\ req[s].target # h
        BY <1>1, <1>3, <2>1, RunningFields DEF LeftoverInv, ContendedIsNoticed, Core
      <3> QED
        BY <1>1, <1>3, <2>1, <3>1 DEF LeftoverInv, RowsAreHeld
    <2>2. CASE s = r
      <3>1. /\ req'[r].target = h /\ req'[r].op = req[r].op /\ req'[r].fields = req[r].fields
            /\ req'[r].seen = req[r].seen
        BY <1>3, <2>2 DEF Goes
      <3>2. Unwritten(r)' => Found(req'[r], life'[h], row'[h])
        BY <1>1, <1>3, <2>2, <3>1 DEF LeftoverInv, RowsAreHeld, Found
      <3>3. Written(r)' => Held(r, req'[r], life'[h], row'[h])
        BY <1>3, <2>2, <3>1 DEF Held
      <3> QED
        BY <2>2, <3>1, <3>2, <3>3
    <2> QED
      BY <2>1, <2>2
  <1> QED
    BY <1>2, <1>3 DEF RowsAreHeld

LEMMA MoverStores ==
  ASSUME Core, ImageInv, LeftoverInv, NEW r \in Requests, Running(r),
         NEW todo, NEW amount, NEW end, Goes(r, todo, amount, end),
         "write" \in todo \/ "cleanup" \in todo => Unwritten(r),
         disk' \subseteq disk \cup {r}, r \in disk' \ disk => Unwritten(r),
         r \in disk' /\ todo # {} => "image" \in req[r].fields /\ "store" \notin todo,
         Written(r)' /\ Releases(req[r]) /\ "release" \notin todo =>
           req[r].seen.image \notin disk'
  PROVE  FilesAreStored'
  <1>1. /\ Progress /\ Sent(r)'
        /\ \A s \in Requests \ {r} :
              /\ Sent(s)' <=> Sent(s)
              /\ Running(s)' <=> Running(s)
              /\ Written(s)' <=> Written(s)
              /\ req'[s] = req[s]
    BY GoesProgress DEF Goes
  <1>2. ASSUME NEW s \in Requests \ {r}
        PROVE  /\ s \in disk' => Sent(s)'
               /\ s \in disk' /\ Running(s)' =>
                    "image" \in req'[s].fields /\ "store" \notin req'[s].todo
               /\ Written(s)' /\ Releases(req'[s]) /\ "release" \notin req'[s].todo
                    => req'[s].seen.image \notin disk'
    <2>1. s \in disk' => s \in disk
      OBVIOUS
    <2>2. ASSUME Written(s), req[s].seen.image = r, Unwritten(r)
          PROVE  FALSE
      <3>1. Running(s) /\ req[s].target \in Rows /\ r \in Files /\ r \notin Rows /\ r # None
        BY <2>2, RunningFields, ImageAssumption DEF Written, Core, Files
      <3> QED
        BY <2>2, <3>1 DEF ImageInv, FilesAreNamedOnce, NamedBy
    <2> QED
      BY <1>1, <2>1, <2>2 DEF LeftoverInv, FilesAreStored
  <1>3. /\ r \in disk' => Sent(r)'
        /\ r \in disk' /\ Running(r)' =>
             "image" \in req'[r].fields /\ "store" \notin req'[r].todo
        /\ Written(r)' /\ Releases(req'[r]) /\ "release" \notin req'[r].todo
             => req'[r].seen.image \notin disk'
    <2>1. Running(r)' => /\ todo # {} /\ req'[r].todo = todo /\ req'[r].fields = req[r].fields
                         /\ req'[r].seen = req[r].seen /\ req'[r].op = req[r].op
      BY DEF Goes
    <2>2. Written(r)' => Running(r)'
      BY DEF Written
    <2> QED
      BY <1>1, <2>1, <2>2 DEF Releases
  <1> QED
    BY <1>2, <1>3 DEF FilesAreStored

LEMMA StoreLeftovers ==
  ASSUME Core, ImageInv, LeftoverInv, NEW r \in Requests, Store(r)
  PROVE  LeftoverInv'
  <1> DEFINE h == req[r].target
  <1>1. /\ Running(r) /\ Unwritten(r) /\ "write" \in req[r].todo /\ "store" \in req[r].todo
        /\ "image" \in req[r].fields /\ h \in Rows
        /\ UNCHANGED rowVars /\ contended' = contended /\ Core'
    BY AtShape, StoreGoes, RunningFields DEF Store, Places, Core
  <1>2. r \notin disk
    BY <1>1 DEF LeftoverInv, FilesAreStored
  <1>3. /\ \A g \in Rows \ {h} : life'[g] = life[g] /\ row'[g] = row[g]
        /\ life'[Profile] # "removed" /\ life'[h] = life[h] /\ row'[h] = row[h]
    BY <1>1 DEF LeftoverInv, RowsAreHeld, rowVars
  <1>4. PICK todo, end :
          /\ Goes(r, todo, req[r].amount, end)
          /\ \/ disk' = disk \cup {r} /\ todo = req[r].todo \ {"store"}
             \/ disk' = disk /\ todo = {}
    BY StoreGoes
  <1> HIDE DEF h
  <1>5. Progress /\ ~Written(r)'
    BY <1>1, <1>4, GoesProgress
  <1>6. RowsAreHeld' /\ ContendedIsNoticed'
    BY <1>1, <1>3, <1>4, <1>5, MoverHolds DEF h
  <1>7. FilesAreStored'
    BY <1>1, <1>2, <1>4, <1>5, MoverStores
  <1>8. LeftoversAreExplained'
    BY <1>1, <1>2, <1>3, <1>4, <1>5, MoverExplains DEF h
  <1> QED
    BY <1>6, <1>7, <1>8 DEF LeftoverInv

\* Steps of a request that has written its row.
LEMMA WrittenLeftovers ==
  ASSUME Core, ImageInv, LeftoverInv, NEW r \in Requests,
         AppendAudit(r) \/ FailAudit(r) \/ Emit(r) \/ Release(r)
  PROVE  LeftoverInv'
  <1> DEFINE h == req[r].target
  <1>1. /\ Running(r) /\ Written(r) /\ h \in Rows /\ UNCHANGED rowVars /\ contended' = contended
        /\ "store" \notin req[r].todo /\ "compensate" \notin req[r].todo
    BY AtShape, RunningFields
    DEF AppendAudit, FailAudit, Emit, Release, Places, Core, AfterWrite
  <1>2. Core'
    BY AuditGoes, FailAuditGoes, EmitGoes, ReleaseGoes
  <1>3. /\ \A g \in Rows \ {h} : life'[g] = life[g] /\ row'[g] = row[g]
        /\ life'[Profile] # "removed" /\ life'[h] = life[h] /\ row'[h] = row[h]
    BY <1>1 DEF LeftoverInv, RowsAreHeld, rowVars
  <1>4. /\ h \notin contended => Held(r, req[r], life'[h], row'[h])
        /\ r \in disk => "image" \in req[r].fields
        /\ disk' \subseteq disk
    BY <1>1, <1>3 DEF LeftoverInv, RowsAreHeld, FilesAreStored, AppendAudit, FailAudit, Emit, Release
  <1>5. \E todo, end :
          /\ Goes(r, todo, req[r].amount, end)
          /\ "write" \notin todo /\ "cleanup" \notin todo /\ "store" \notin todo
          /\ todo # {} /\ r \in disk => "image" \in req[r].fields
          /\ Releases(req[r]) /\ "release" \notin todo =>
               req[r].seen.image \notin disk' \/ end \in Dead
          /\ end \in Dead => req[r].op = "setup" \/ todo = {}
    <2>1. CASE AppendAudit(r) \/ Emit(r)
      <3>1. PICK p \in {"audit", "emit"} : Goes(r, req[r].todo \ {p}, req[r].amount, "done")
        BY <2>1, AuditGoes, EmitGoes
      <3>2. disk' = disk
        BY <2>1 DEF AppendAudit, Emit
      <3>3. Releases(req[r]) /\ "release" \notin req[r].todo \ {p} => req[r].seen.image \notin disk'
        BY <1>1, <3>2 DEF LeftoverInv, FilesAreStored
      <3> QED
        BY <1>1, <1>4, <3>1, <3>3 DEF Written, Dead
    <2>2. CASE FailAudit(r)
      <3>1. PICK todo \in {{"compensate"}, {}} :
              /\ Goes(r, todo, req[r].amount, "failed")
              /\ todo # {} => req[r].op = "setup"
        BY <2>2, FailAuditGoes
      <3> QED
        BY <1>1, <1>4, <3>1 DEF Dead
    <2>3. CASE Release(r)
      <3>1. Goes(r, req[r].todo \ {"release"}, req[r].amount, "done")
        BY <2>3, ReleaseGoes
      <3>2. req[r].seen.image \notin disk'
        BY <2>3 DEF Release
      <3> QED
        BY <1>1, <1>4, <3>1, <3>2 DEF Written, Dead
    <2> QED
      BY <2>1, <2>2, <2>3
  <1>6. PICK todo, end :
          /\ Goes(r, todo, req[r].amount, end)
          /\ "write" \notin todo /\ "cleanup" \notin todo /\ "store" \notin todo
          /\ todo # {} /\ r \in disk => "image" \in req[r].fields
          /\ Releases(req[r]) /\ "release" \notin todo =>
               req[r].seen.image \notin disk' \/ end \in Dead
          /\ end \in Dead => req[r].op = "setup" \/ todo = {}
    BY <1>5
  <1> HIDE DEF h
  <1>7. Progress /\ ~Unwritten(r)' /\ (Written(r)' => todo # {})
    BY <1>1, <1>6, GoesProgress
  <1>8. RowsAreHeld' /\ ContendedIsNoticed'
    BY <1>1, <1>2, <1>3, <1>4, <1>6, <1>7, MoverHolds DEF h
  <1>9. Written(r)' /\ Releases(req[r]) /\ "release" \notin todo => req[r].seen.image \notin disk'
    BY <1>6, <1>7 DEF Releases, Edits
  <1>10. FilesAreStored'
    BY <1>1, <1>4, <1>6, <1>9, MoverStores
  <1>11. LeftoversAreExplained'
    <2>1. \/ todo # {}
          \/ end \in Dead
          \/ /\ h \notin contended => Held(r, req[r], life'[h], row'[h])
             /\ r \in disk' => "image" \in req[r].fields
             /\ Releases(req[r]) => req[r].seen.image \notin disk'
      BY <1>4, <1>6
    <2> QED
      BY <1>1, <1>2, <1>3, <1>4, <1>6, <1>7, <2>1, MoverExplains DEF h
  <1> QED
    BY <1>8, <1>10, <1>11 DEF LeftoverInv

LEMMA CompensateLeftovers ==
  ASSUME Core, ImageInv, LeftoverInv, NEW r \in Requests, Compensate(r)
  PROVE  LeftoverInv'
  <1> DEFINE h == req[r].target
  <1>1. /\ Running(r) /\ Core' /\ h \in Rows /\ UNCHANGED rowVars
        /\ contended' = contended /\ disk' = disk \ {r}
    BY CompensateGoes, RunningFields DEF Compensate, Core
  <1>2. PICK end \in {"refused", "failed"} :
          /\ Goes(r, {}, req[r].amount, end)
          /\ end = "refused" => Unwritten(r)
    BY <1>1, CompensateGoes DEF Unwritten
  <1>3. /\ \A g \in Rows \ {h} : life'[g] = life[g] /\ row'[g] = row[g]
        /\ life'[Profile] # "removed" /\ life'[h] = life[h] /\ row'[h] = row[h]
    BY <1>1 DEF LeftoverInv, RowsAreHeld, rowVars
  <1> HIDE DEF h
  <1>4. Progress /\ ~Unwritten(r)' /\ ~Written(r)'
    BY <1>1, <1>2, GoesProgress
  <1>5. RowsAreHeld' /\ ContendedIsNoticed'
    BY <1>1, <1>2, <1>3, <1>4, MoverHolds DEF h
  <1>6. FilesAreStored'
    BY <1>1, <1>2, <1>4, MoverStores
  <1>7. LeftoversAreExplained'
    <2>1. \/ end \in Dead
          \/ Unwritten(r) /\ r \notin disk' /\ life'[h] = life[h] /\ row'[h] = row[h]
      BY <1>1, <1>2, <1>3 DEF Dead
    <2> QED
      BY <1>1, <1>2, <1>3, <1>4, <2>1, MoverExplains DEF h
  <1> QED
    BY <1>5, <1>6, <1>7 DEF LeftoverInv

\* The write of a row, by its outcome.
LEMMA WriterLeftovers ==
  ASSUME Core, Core', ImageInv, LeftoverInv, NEW r \in Requests, At(r, "write"), disk' = disk,
         contended' = contended,
         NEW amount, Goes(r, req[r].todo \ {"write"}, amount, "done"),
         NEW h \in Rows, h = req[r].target,
         \A g \in Rows \ {h} : life'[g] = life[g] /\ row'[g] = row[g],
         life'[Profile] # "removed",
         h \notin contended => Held(r, req[r], life'[h], row'[h])
  PROVE  LeftoverInv'
  <1> DEFINE todo == req[r].todo \ {"write"}
  <1>1. /\ Running(r) /\ Unwritten(r) /\ "store" \notin req[r].todo
        /\ todo = AfterWrite(req[r]) /\ req[r] \in Handler
    BY AtShape, RunningIsHandler DEF Places, Core
  <1>2. "write" \notin todo /\ "cleanup" \notin todo /\ "store" \notin todo
    BY <1>1 DEF AfterWrite
  <1>3. Progress /\ ~Unwritten(r)' /\ (Written(r)' <=> todo # {})
    BY <1>1, <1>2, GoesProgress
  <1>4. r \in disk => "image" \in req[r].fields
    BY <1>1 DEF LeftoverInv, FilesAreStored
  <1>5. Releases(req[r]) /\ "release" \notin todo => req[r].seen.image \notin disk
    <2>1. None \notin disk
      BY ImageAssumption DEF Core, RowTypes
    <2> QED
      BY <1>1, <2>1, AfterWriteCases DEF Releases
  <1>6. Goes(r, todo, amount, "done")
    OBVIOUS
  <1> HIDE DEF todo
  <1>7. RowsAreHeld' /\ ContendedIsNoticed'
    BY <1>1, <1>2, <1>3, <1>6, MoverHolds
  <1>8. FilesAreStored'
    BY <1>1, <1>2, <1>4, <1>5, <1>6, MoverStores
  <1>9. LeftoversAreExplained'
    BY <1>1, <1>3, <1>4, <1>5, <1>6, MoverExplains
  <1> QED
    BY <1>7, <1>8, <1>9 DEF LeftoverInv

LEMMA WriteLeftovers ==
  ASSUME Core, ImageInv, LeftoverInv, NEW r \in Requests, Write(r)
  PROVE  LeftoverInv'
  <1> DEFINE h == req[r].target
  <1>1. /\ At(r, "write") /\ Running(r) /\ h \in Rows /\ disk' = disk /\ contended' = contended
        /\ Shape(req[r]) /\ Profile \in Rows
    BY RunningFields
    DEF Write, WriteSetup, WriteCreate, WriteEdit, WriteRemove, At, Core, Shapes, Rows
  <1>2. /\ Unwritten(r) /\ "store" \notin req[r].todo
        /\ h \notin contended => Found(req[r], life[h], row[h])
    BY <1>1, AtShape DEF Places, LeftoverInv, RowsAreHeld
  <1>3. life[Profile] # "removed"
    BY DEF LeftoverInv, RowsAreHeld
  <1>4. CASE WriteSetup(r)
    <2>1. CASE /\ life[Profile] = "absent" /\ req[r].target = Profile /\ Insert(r)
               /\ Goes(r, req[r].todo \ {"write"}, req[r].amount, "done")
      <3>1. Core' /\ req[r].op = "setup"
        BY <1>4, WriteSetupGoes DEF WriteSetup
      <3>2. /\ life' = [life EXCEPT ![h] = "present"]
            /\ row'[h].image = (IF "image" \in req[r].fields THEN r ELSE None)
            /\ \A g \in Rows \ {h} : row'[g] = row[g]
        BY <1>1, <2>1, InsertRow
      <3>3. /\ \A g \in Rows \ {h} : life'[g] = life[g] /\ row'[g] = row[g]
            /\ life'[h] = "present" /\ life'[Profile] # "removed"
        BY <1>1, <1>3, <3>2 DEF Core, RowTypes
      <3>4. row[h].image = None
        BY <1>1, <2>1 DEF ImageInv, FilesAreNamedOnce
      <3>5. h \notin contended => Held(r, req[r], life'[h], row'[h])
        BY <1>2, <3>1, <3>2, <3>3, <3>4 DEF Held, Found, Edits
      <3> HIDE DEF h
      <3> QED
        BY <1>1, <2>1, <3>1, <3>3, <3>5, WriterLeftovers DEF h
    <2>2. CASE /\ UNCHANGED <<rowVars, outVars>>
               /\ \/ "image" \in req[r].fields /\ Goes(r, {"cleanup"}, req[r].amount, "refused")
                  \/ "image" \notin req[r].fields /\ Goes(r, {}, req[r].amount, "refused")
      <3>1. Core'
        BY <1>4, WriteSetupGoes
      <3>2. PICK todo \in {{"cleanup"}, {}} :
              /\ Goes(r, todo, req[r].amount, "refused")
              /\ "image" \in req[r].fields <=> todo # {}
        BY <2>2
      <3>3. /\ \A g \in Rows \ {h} : life'[g] = life[g] /\ row'[g] = row[g]
            /\ life'[Profile] # "removed" /\ life'[h] = life[h] /\ row'[h] = row[h]
        BY <1>3, <2>2 DEF rowVars
      <3> HIDE DEF h
      <3>4. Progress /\ ~Written(r)'
        BY <1>1, <1>2, <3>2, GoesProgress
      <3>5. r \in disk => "image" \in req[r].fields
        BY <1>1 DEF LeftoverInv, FilesAreStored
      <3>6. RowsAreHeld' /\ ContendedIsNoticed'
        BY <1>1, <1>2, <3>1, <3>2, <3>3, <3>4, MoverHolds DEF h
      <3>7. FilesAreStored'
        BY <1>1, <1>2, <3>2, <3>4, <3>5, MoverStores
      <3>8. LeftoversAreExplained'
        BY <1>1, <1>2, <3>1, <3>2, <3>3, <3>4, <3>5, MoverExplains DEF h
      <3> QED
        BY <3>6, <3>7, <3>8 DEF LeftoverInv
    <2> QED
      BY <1>4, <2>1, <2>2, WriteSetupGoes
  <1>5. CASE WriteCreate(r)
    <2>1. /\ Core' /\ req[r].op = "create" /\ Insert(r)
          /\ Goes(r, req[r].todo \ {"write"}, req[r].amount, "done")
      BY <1>5, WriteCreateGoes DEF WriteCreate
    <2>2. /\ life' = [life EXCEPT ![h] = "present"]
          /\ row'[h].image = (IF "image" \in req[r].fields THEN r ELSE None)
          /\ \A g \in Rows \ {h} : row'[g] = row[g]
      BY <1>1, <2>1, InsertRow
    <2>3. /\ \A g \in Rows \ {h} : life'[g] = life[g] /\ row'[g] = row[g]
          /\ life'[h] = "present" /\ life'[Profile] # "removed"
      BY <1>1, <1>3, <2>2 DEF Core, RowTypes
    <2>4. life[h] = "absent" /\ row[h].image = None
      BY <1>1, <1>2, <2>1 DEF ImageInv, IdsAreFresh, FilesAreNamedOnce
    <2>5. h \notin contended => Held(r, req[r], life'[h], row'[h])
      BY <1>2, <2>1, <2>2, <2>3, <2>4 DEF Held, Found, Edits
    <2> HIDE DEF h
    <2> QED
      BY <1>1, <2>1, <2>3, <2>5, WriterLeftovers DEF h
  <1>6. CASE WriteEdit(r)
    <2>1. PICK amount \in Amounts : Goes(r, req[r].todo \ {"write"}, amount, "done")
      BY <1>6, WriteEditGoes
    <2>2. /\ \A g \in Rows : g # h \/ life[g] # "present" => row'[g] = row[g]
          /\ life[h] = "present" => row'[h] = Patched(r, row[h])
          /\ Core'
      BY <1>6, WriteEditGoes
    <2>3. life' = life /\ req[r].op \in Edits
      BY <1>6 DEF WriteEdit, Edits
    <2>4. life[h] = "present" =>
            row'[h].image = (IF "image" \in req[r].fields THEN r ELSE row[h].image)
      BY <1>1, <2>2, PatchedRow DEF Core, RowTypes
    <2>5. h \notin contended => Held(r, req[r], life'[h], row'[h])
      BY <1>2, <2>3, <2>4 DEF Held, Found, Edits
    <2> HIDE DEF h
    <2> QED
      BY <1>1, <1>3, <2>1, <2>2, <2>3, <2>5, WriterLeftovers DEF h
  <1>7. CASE WriteRemove(r)
    <2>1. Core' /\ Goes(r, req[r].todo \ {"write"}, req[r].amount, "done")
      BY <1>7, WriteRemoveGoes
    <2>2. /\ life' = [life EXCEPT ![h] = "removed"] /\ row' = row /\ req[r].op = "remove"
      BY <1>7 DEF WriteRemove
    <2>3. /\ \A g \in Rows \ {h} : life'[g] = life[g] /\ row'[g] = row[g]
          /\ life'[h] = "removed" /\ h # Profile
      BY <1>1, <2>2 DEF Core, RowTypes, Shape
    <2>4. Held(r, req[r], life'[h], row'[h])
      BY <1>1, <2>2 DEF Held, Edits, Shape
    <2> HIDE DEF h
    <2>5. life'[Profile] # "removed"
      BY <1>1, <1>3, <2>3
    <2> QED
      BY <1>1, <2>1, <2>3, <2>4, <2>5, WriterLeftovers DEF h
  <1> QED
    BY <1>4, <1>5, <1>6, <1>7 DEF Write

LEMMA StartLeftovers ==
  ASSUME Core, ImageInv, LeftoverInv, NEW r \in Requests, Start(r)
  PROVE  LeftoverInv'
  <1>1. PICK op \in Operations, h \in Rows :
          /\ Opens(r, op, h)
          /\ op \in {"setup", "config"} <=> h = Profile
          /\ op \in Edits \cup {"remove"} => life[h] = "present"
          /\ op = "create" => life[h] = "absent"
    BY StartOpens
  <1>2. /\ Progress /\ life' = life /\ row' = row /\ disk' = disk
        /\ ~Sent(r) /\ ~Running(r) /\ req'[r].op = op /\ req'[r].target = h /\ ~Written(r)'
        /\ Sent(r)'
        /\ \A s \in Requests \ {r} :
             /\ Sent(s)' <=> Sent(s)
             /\ Running(s)' <=> Running(s)
             /\ Unwritten(s)' <=> Unwritten(s)
             /\ Written(s)' <=> Written(s)
             /\ req'[s] = req[s]
    BY <1>1, OpensProgress DEF Opens, rowVars
  <1>3. /\ contended \subseteq contended'
        /\ Running(r)' /\ InFlightOn(h) # {} => h \in contended'
        /\ Running(r)' => req'[r].seen = row[h]
    BY <1>1 DEF Opens
  <1>4. FilesAreStored'
    BY <1>2 DEF LeftoverInv, FilesAreStored
  <1>5. ContendedIsNoticed'
    <2>1. ASSUME NEW s \in Requests, Running(s), req[s].target = h
          PROVE  InFlightOn(h) # {}
      BY <2>1 DEF InFlightOn
    <2> QED
      BY <1>2, <1>3, <2>1 DEF LeftoverInv, ContendedIsNoticed
  <1>6. RowsAreHeld'
    <2>1. Found(req'[r], life[h], row[h]) \/ ~Running(r)'
      <3>1. op \in {"setup", "config", "create", "update", "remove"}
        BY DEF Operations
      <3>2. life[h] # "removed"
        BY <1>1, <3>1 DEF LeftoverInv, RowsAreHeld, Edits
      <3> QED
        BY <1>1, <1>2, <1>3, <3>2 DEF Found
    <2> QED
      BY <1>2, <1>3, <2>1 DEF LeftoverInv, RowsAreHeld
  <1>7. LeftoversAreExplained'
    <2>1. ASSUME NEW f \in disk
          PROVE  Explained(f)'
      <3>1. \A s \in Requests : Running(s) => Running(s)'
        BY <1>2
      <3> QED
        BY <1>2, <1>3, <3>1, ExplainedStays
    <2> QED
      BY <1>2, <2>1 DEF LeftoversAreExplained, Explained
  <1> QED
    BY <1>4, <1>5, <1>6, <1>7 DEF LeftoverInv

LEMMA CrashLeftovers ==
  ASSUME Core, ImageInv, LeftoverInv, Crash
  PROVE  LeftoverInv'
  <1>1. /\ Core' /\ Progress /\ life' = life /\ row' = row /\ disk' = disk
        /\ contended' = contended
    BY CrashEnds, CrashProgress DEF rowVars
  <1>2. \A r \in Requests :
          /\ ~Running(r)' /\ ~Written(r)'
          /\ Running(r) => Died(r)' /\ req'[r].image = req[r].seen.image
    BY CrashEnds DEF Written
  <1>3. FilesAreStored'
    BY <1>1, <1>2 DEF LeftoverInv, FilesAreStored, Progress
  <1>4. ContendedIsNoticed' /\ RowsAreHeld'
    BY <1>1, <1>2 DEF LeftoverInv, RowsAreHeld, ContendedIsNoticed
  <1>5. LeftoversAreExplained'
    <2>1. ASSUME NEW f \in disk
          PROVE  Explained(f)'
      BY <1>1, <1>2, ExplainedStays
    <2> QED
      BY <1>1, <2>1 DEF LeftoversAreExplained, Explained
  <1> QED
    BY <1>3, <1>4, <1>5 DEF LeftoverInv

LEMMA LeftoverInit == Init => LeftoverInv
  <1> SUFFICES ASSUME Init PROVE LeftoverInv
    OBVIOUS
  <1>1. \A r \in Requests : ~Sent(r) /\ ~Running(r) /\ ~Unwritten(r) /\ ~Written(r)
    BY DEF Init, Sent, Running, Unwritten, Written
  <1>2. /\ life \in [Rows -> {"absent", "present"}]
        /\ \A h \in Rows : row[h].image = (IF life[h] = "present" THEN h ELSE None)
        /\ disk = {h \in Rows : life[h] = "present"}
    BY DEF Init
  <1>3. \A r \in Requests : r \notin disk
    BY <1>2, ImageAssumption
  <1>4. life[Profile] # "removed"
    BY <1>2 DEF Rows
  <1>5. LeftoversAreExplained
    BY <1>2 DEF LeftoversAreExplained, RowOf
  <1> QED
    BY <1>1, <1>3, <1>4, <1>5 DEF LeftoverInv, FilesAreStored, ContendedIsNoticed, RowsAreHeld

LEMMA LeftoverStep == Core /\ ImageInv /\ LeftoverInv /\ [Next]_vars => LeftoverInv'
  <1> SUFFICES ASSUME Core, ImageInv, LeftoverInv, [Next]_vars PROVE LeftoverInv'
    OBVIOUS
  <1>1. ASSUME NEW r \in Requests, GoOn(r)
        PROVE  LeftoverInv'
    BY <1>1, StoreLeftovers, WriteLeftovers, WrittenLeftovers, CompensateLeftovers DEF GoOn
  <1>2. CASE UNCHANGED vars
    <2>1. /\ life' = life /\ row' = row /\ disk' = disk /\ req' = req /\ contended' = contended
      BY <1>2 DEF vars
    <2>2. FilesAreStored' /\ ContendedIsNoticed' /\ RowsAreHeld'
      BY <2>1 DEF LeftoverInv, FilesAreStored, ContendedIsNoticed, RowsAreHeld, Sent, Running,
                  Unwritten, Written
    <2>3. LeftoversAreExplained'
      BY <2>1 DEF LeftoverInv, LeftoversAreExplained, RowOf, Sent, Running, Died
    <2> QED
      BY <2>2, <2>3 DEF LeftoverInv
  <1> QED
    BY <1>1, <1>2, StartLeftovers, CrashLeftovers DEF Next

\* LeftoversAreExplained: a file on disk that no row points to is being worked
\* on, was left by a request that died, or its row was edited by two at once.
THEOREM LeftoversAreAlwaysExplained == Spec => []LeftoversAreExplained
  <1>1. LeftoverInv => LeftoversAreExplained
    BY DEF LeftoverInv
  <1> QED
    BY <1>1, CoreInit, CoreStep, ImageInit, ImageStep, LeftoverInit, LeftoverStep, PTL DEF Spec

-----------------------------------------------------------------------------
(***************************************************************************)
(* Books and screens follow the rows.                                      *)
(***************************************************************************)
\* Request r is alone with its row.
LEMMA SoleBooks ==
  ASSUME Core, LeftoverInv, BookInv, NEW r \in Requests, Running(r),
         NEW h \in Rows, h = req[r].target, Pure(h)
  PROVE  /\ ~ToAudit(r) => logged[h] = row[h].amount
         /\ ~ToEmit(r) => told[h] = Public(h, row[h])
  <1>1. ASSUME NEW s \in Requests, ToAudit(s) \/ ToEmit(s), req[s].target = h
        PROVE  s = r
    BY <1>1 DEF LeftoverInv, ContendedIsNoticed, ToAudit, ToEmit, Written, Pure
  <1> QED
    BY <1>1 DEF BookInv, AuditInv, NewsInv

\* A step of request r keeps the books when it keeps those of its row.
LEMMA MoverBooks ==
  ASSUME Core, LeftoverInv, BookInv, NEW r \in Requests, Running(r),
         NEW todo, NEW amount, NEW end, Goes(r, todo, amount, end),
         "write" \in todo \/ "cleanup" \in todo => Unwritten(r),
         contended' = contended, NEW h \in Rows, h = req[r].target,
         \A g \in Rows \ {h} : /\ life'[g] = life[g] /\ row'[g] = row[g]
                               /\ logged'[g] = logged[g] /\ told'[g] = told[g],
         Written(r)' /\ req[r].op \in Edits /\ h \notin contended => Carries(req'[r], row'[h]),
         Pure(h)' =>
           /\ ~ToAudit(r)' => logged'[h] = row'[h].amount
           /\ ~ToEmit(r)' => told'[h] = Public(h, row'[h])
  PROVE  BookInv'
  <1>1. /\ Progress /\ req'[r].target = h /\ req'[r].op = req[r].op
        /\ \A s \in Requests \ {r} :
             /\ Running(s)' <=> Running(s)
             /\ Died(s)' <=> Died(s)
             /\ Written(s)' <=> Written(s)
             /\ req'[s] = req[s]
    BY GoesProgress DEF Goes
  <1>2. \A s \in Requests \ {r} : Running(s) /\ h \notin contended => req[s].target # h
    BY DEF LeftoverInv, ContendedIsNoticed
  <1>3. ~Died(r)
    BY RunningFields DEF Core
  <1>4. BooksAreHeld'
    <2>1. ASSUME NEW s \in Requests \ {r}, Written(s)', req'[s].op \in Edits,
                 req'[s].target \notin contended'
          PROVE  Carries(req'[s], row'[req'[s].target])
      <3>1. Written(s) /\ Running(s) /\ req'[s] = req[s]
        BY <1>1, <2>1 DEF Written
      <3>2. req[s].target \in Rows \ {h}
        BY <1>2, <2>1, <3>1, RunningFields DEF Core
      <3> QED
        BY <2>1, <3>1, <3>2 DEF BookInv, BooksAreHeld
    <2> QED
      BY <1>1, <2>1 DEF BooksAreHeld
  <1>5. ASSUME NEW g \in Rows \ {h}
        PROVE  /\ Pure(g)' <=> Pure(g)
               /\ (\E s \in Requests : ToAudit(s)' /\ req'[s].target = g)
                    <=> (\E s \in Requests : ToAudit(s) /\ req[s].target = g)
               /\ (\E s \in Requests : ToEmit(s)' /\ req'[s].target = g)
                    <=> (\E s \in Requests : ToEmit(s) /\ req[s].target = g)
    <2>1. Lost(g)' <=> Lost(g)
      BY <1>1, <1>3 DEF Lost
    <2>2. \A s \in Requests :
            /\ ToAudit(s)' /\ req'[s].target = g <=> ToAudit(s) /\ req[s].target = g
            /\ ToEmit(s)' /\ req'[s].target = g <=> ToEmit(s) /\ req[s].target = g
      BY <1>1 DEF ToAudit, ToEmit
    <2> QED
      BY <2>1, <2>2 DEF Pure
  <1>6. AuditInv'
    <2>1. ASSUME NEW g \in Rows, Pure(g)',
                 ~(\E s \in Requests : ToAudit(s)' /\ req'[s].target = g)
          PROVE  logged'[g] = row'[g].amount
      <3>1. CASE g = h
        BY <1>1, <2>1, <3>1
      <3>2. CASE g # h
        BY <1>5, <2>1, <3>2 DEF BookInv, AuditInv
      <3> QED
        BY <3>1, <3>2
    <2> QED
      BY <2>1 DEF AuditInv
  <1>7. NewsInv'
    <2>1. ASSUME NEW g \in Rows, Pure(g)',
                 ~(\E s \in Requests : ToEmit(s)' /\ req'[s].target = g)
          PROVE  told'[g] = Public(g, row'[g])
      <3>1. CASE g = h
        BY <1>1, <2>1, <3>1
      <3>2. CASE g # h
        <4>1. told[g] = Public(g, row[g])
          BY <1>5, <2>1, <3>2 DEF BookInv, NewsInv
        <4>2. told'[g] = told[g] /\ row'[g] = row[g]
          BY <3>2
        <4> QED
          BY <4>1, <4>2
      <3> QED
        BY <3>1, <3>2
    <2> QED
      BY <2>1 DEF NewsInv, Public
  <1> QED
    BY <1>4, <1>6, <1>7 DEF BookInv

\* A row that is pure after a step of its request was so before.
LEMMA PureBefore ==
  ASSUME Core, Progress, contended \subseteq contended',
         NEW h \in Rows, life[h] = "present", Pure(h)'
  PROVE  Pure(h)
  <1>1. ASSUME NEW s \in Requests, Died(s), req[s].target = h
        PROVE  Lost(h)'
    BY <1>1 DEF Lost, Progress, Died
  <1> QED
    BY <1>1 DEF Pure, Lost

\* A step that writes, audits and tells nothing.
LEMMA QuietBooks ==
  ASSUME Core, LeftoverInv, BookInv, NEW r \in Requests, Running(r),
         NEW h \in Rows, h = req[r].target,
         NEW todo, NEW end, Goes(r, todo, req[r].amount, end),
         "write" \in todo \/ "cleanup" \in todo => Unwritten(r),
         contended' = contended, UNCHANGED <<rowVars, outVars>>,
         \/ Unwritten(r) /\ ~Written(r)'
         \/ end \in Dead /\ todo = {}
         \/ Written(r) /\ \A p \in {"audit", "emit"} : p \in req[r].todo => p \in todo
         \/ req[r].op = "setup" /\ "emit" \notin req[r].todo
  PROVE  BookInv'
  <1>1. /\ life' = life /\ row' = row /\ logged' = logged /\ told' = told
    BY DEF rowVars, outVars
  <1>2. Progress /\ (Written(r)' <=> todo # {} /\ "write" \notin todo /\ "cleanup" \notin todo)
    BY GoesProgress
  <1>3. todo # {} =>
          /\ req'[r].todo = todo /\ req'[r].fields = req[r].fields
          /\ req'[r].amount = req[r].amount /\ req'[r].available = req[r].available
    BY DEF Goes
  <1>4. req'[r].op = req[r].op /\ req'[r].target = h
    BY DEF Goes
  <1>5. Pure(h)' => (ToAudit(r) => ToAudit(r)') /\ (ToEmit(r) => ToEmit(r)')
    <2>1. CASE Unwritten(r) /\ ~Written(r)'
      BY <2>1 DEF ToAudit, ToEmit, Unwritten, Written
    <2>2. CASE end \in Dead /\ todo = {}
      <3>1. Lost(h)'
        BY <1>4, <2>2 DEF Lost, Goes
      <3> QED
        BY <3>1 DEF Pure
    <2>3. CASE Written(r) /\ \A p \in {"audit", "emit"} : p \in req[r].todo => p \in todo
      <3>1. todo # {} => Written(r)'
        BY <1>2, <2>3 DEF Unwritten, Written
      <3> QED
        BY <1>3, <1>4, <2>3, <3>1 DEF ToAudit, ToEmit
    <2>4. CASE req[r].op = "setup" /\ "emit" \notin req[r].todo
      BY <2>4 DEF ToAudit, ToEmit, Edits
    <2> QED
      BY <2>1, <2>2, <2>3, <2>4
  <1>6. Written(r)' /\ req[r].op \in Edits /\ h \notin contended => Carries(req'[r], row'[h])
    <2>1. ASSUME Written(r)', req[r].op \in Edits, h \notin contended
          PROVE  Written(r) /\ todo # {}
      BY <1>2, <2>1 DEF Edits
    <2> QED
      BY <1>1, <1>3, <1>4, <2>1 DEF BookInv, BooksAreHeld, Carries
  <1>7. Pure(h)' => /\ ~ToAudit(r)' => logged'[h] = row'[h].amount
                    /\ ~ToEmit(r)' => told'[h] = Public(h, row'[h])
    <2>1. ASSUME Pure(h)'
          PROVE  Pure(h)
      <3>1. life[h] = "present"
        BY <1>1, <2>1 DEF Pure
      <3> QED
        BY <1>1, <1>2, <2>1, <3>1, PureBefore
    <2> QED
      BY <1>1, <1>5, <2>1, SoleBooks
  <1>8. \A g \in Rows \ {h} : /\ life'[g] = life[g] /\ row'[g] = row[g]
                              /\ logged'[g] = logged[g] /\ told'[g] = told[g]
    BY <1>1
  <1> QED
    BY <1>1, <1>6, <1>7, <1>8, MoverBooks

LEMMA StoreBooks ==
  ASSUME Core, LeftoverInv, BookInv, NEW r \in Requests, Store(r)
  PROVE  BookInv'
  <1>1. /\ Running(r) /\ Unwritten(r) /\ "write" \in req[r].todo
        /\ UNCHANGED <<rowVars, outVars>> /\ contended' = contended
    BY AtShape DEF Store, Places
  <1>2. PICK todo, end :
          /\ Goes(r, todo, req[r].amount, end)
          /\ todo = req[r].todo \ {"store"} \/ todo = {}
    BY StoreGoes
  <1>3. ~Written(r)'
    BY <1>1, <1>2, GoesProgress
  <1>4. PICK h \in Rows : h = req[r].target
    BY <1>1, RunningFields DEF Core
  <1> QED
    BY <1>1, <1>2, <1>3, <1>4, QuietBooks

LEMMA CompensateBooks ==
  ASSUME Core, LeftoverInv, BookInv, NEW r \in Requests, Compensate(r)
  PROVE  BookInv'
  <1>1. /\ Running(r) /\ UNCHANGED <<rowVars, outVars>> /\ contended' = contended
        /\ req[r].op = "setup" /\ "emit" \notin req[r].todo
    BY AtShape DEF Compensate, Places, At
  <1>2. PICK end : Goes(r, {}, req[r].amount, end)
    BY CompensateGoes
  <1>3. PICK h \in Rows : h = req[r].target
    BY <1>1, RunningFields DEF Core
  <1> QED
    BY <1>1, <1>2, <1>3, QuietBooks

LEMMA FailAuditBooks ==
  ASSUME Core, LeftoverInv, BookInv, NEW r \in Requests, FailAudit(r)
  PROVE  BookInv'
  <1>1. /\ Running(r) /\ UNCHANGED <<rowVars, outVars>> /\ contended' = contended
        /\ req[r].todo \subseteq AfterWrite(req[r])
    BY AtShape DEF FailAudit, Places, At
  <1>2. req[r].op = "setup" => "emit" \notin req[r].todo
    BY <1>1, AfterWriteCases, RunningIsHandler DEF Core
  <1>3. PICK todo :
          /\ Goes(r, todo, req[r].amount, "failed")
          /\ todo = {} \/ (todo = {"compensate"} /\ req[r].op = "setup")
    BY FailAuditGoes
  <1>4. PICK h \in Rows : h = req[r].target
    BY <1>1, RunningFields DEF Core
  <1> QED
    BY <1>1, <1>2, <1>3, <1>4, QuietBooks DEF Dead

LEMMA ReleaseBooks ==
  ASSUME Core, LeftoverInv, BookInv, NEW r \in Requests, Release(r)
  PROVE  BookInv'
  <1>1. /\ Running(r) /\ Written(r) /\ UNCHANGED <<rowVars, outVars>>
        /\ contended' = contended
    BY AtShape DEF Release, Places, At
  <1>2. Goes(r, req[r].todo \ {"release"}, req[r].amount, "done")
    BY ReleaseGoes
  <1>3. PICK h \in Rows : h = req[r].target
    BY <1>1, RunningFields DEF Core
  <1>4. "write" \notin req[r].todo /\ "cleanup" \notin req[r].todo
    BY <1>1 DEF Written
  <1> QED
    BY <1>1, <1>2, <1>3, <1>4, QuietBooks

\* The audit row of an edit says what its row holds.
LEMMA AuditBooks ==
  ASSUME Core, LeftoverInv, BookInv, NEW r \in Requests, AppendAudit(r)
  PROVE  BookInv'
  <1>1. /\ Running(r) /\ Written(r) /\ contended' = contended
        /\ life' = life /\ row' = row /\ told' = told
        /\ req[r].todo \subseteq AfterWrite(req[r]) /\ "audit" \in AfterWrite(req[r])
    BY AtShape DEF AppendAudit, Places, At, rowVars
  <1>2. /\ Goes(r, req[r].todo \ {"audit"}, req[r].amount, "done")
        /\ logged' = (IF req[r].op # "setup" /\ "amount" \in req[r].fields
                        THEN [logged EXCEPT ![req[r].target] = req[r].amount] ELSE logged)
    BY AuditGoes
  <1>3. PICK h \in Rows : h = req[r].target
    BY <1>1, RunningFields DEF Core
  <1>4. "write" \notin req[r].todo /\ "cleanup" \notin req[r].todo
    BY <1>1 DEF Written
  <1>5. req[r].op \in {"setup", "config", "update"}
    BY <1>1, AfterWriteCases, RunningIsHandler DEF Core
  <1>6. Progress /\ (Written(r)' <=> req[r].todo \ {"audit"} # {})
    BY <1>1, <1>2, <1>4, GoesProgress
  <1>7. \A g \in Rows : logged'[g] =
          (IF g = h /\ req[r].op # "setup" /\ "amount" \in req[r].fields
             THEN req[r].amount ELSE logged[g])
    BY <1>2, <1>3 DEF Core, RowTypes
  <1>8. Written(r)' =>
          /\ req'[r].todo = req[r].todo \ {"audit"} /\ req'[r].fields = req[r].fields
          /\ req'[r].amount = req[r].amount /\ req'[r].available = req[r].available
          /\ req'[r].target = h
    BY <1>2, <1>3, <1>6 DEF Goes
  <1>9. req[r].op \in Edits /\ h \notin contended => Carries(req[r], row[h])
    BY <1>1, <1>3 DEF BookInv, BooksAreHeld
  <1>10. Written(r)' /\ req[r].op \in Edits /\ h \notin contended => Carries(req'[r], row'[h])
    BY <1>1, <1>3, <1>8, <1>9 DEF Carries
  <1>11. Pure(h)' => /\ ~ToAudit(r)' => logged'[h] = row'[h].amount
                     /\ ~ToEmit(r)' => told'[h] = Public(h, row'[h])
    <2>1. ASSUME Pure(h)'
          PROVE  Pure(h) /\ h \notin contended
      BY <1>1, <1>6, <2>1, PureBefore DEF Pure
    <2>2. ASSUME Pure(h)'
          PROVE  logged'[h] = row'[h].amount
      <3>1. CASE req[r].op # "setup" /\ "amount" \in req[r].fields
        BY <1>1, <1>5, <1>7, <1>9, <2>1, <2>2, <3>1 DEF Carries, Edits
      <3>2. CASE ~(req[r].op # "setup" /\ "amount" \in req[r].fields)
        <4>1. ~ToAudit(r)
          BY <3>2 DEF ToAudit, Edits
        <4> QED
          BY <1>1, <1>3, <1>7, <2>1, <2>2, <3>2, <4>1, SoleBooks
      <3> QED
        BY <3>1, <3>2
    <2>3. ToEmit(r) => ToEmit(r)'
      <3>1. ASSUME ToEmit(r)
            PROVE  Written(r)' /\ "emit" \in req'[r].todo
        BY <1>6, <1>8, <3>1 DEF ToEmit
      <3> QED
        BY <3>1 DEF ToEmit
    <2>4. ASSUME Pure(h)', ~ToEmit(r)'
          PROVE  told'[h] = Public(h, row'[h])
      BY <1>1, <1>3, <2>1, <2>3, <2>4, SoleBooks
    <2> QED
      BY <2>2, <2>4
  <1>12. \A g \in Rows \ {h} : /\ life'[g] = life[g] /\ row'[g] = row[g]
                               /\ logged'[g] = logged[g] /\ told'[g] = told[g]
    BY <1>1, <1>7
  <1> QED
    BY <1>1, <1>2, <1>3, <1>4, <1>10, <1>11, <1>12, MoverBooks

\* The event of an edit tells what its row holds.
LEMMA EmitBooks ==
  ASSUME Core, LeftoverInv, BookInv, NEW r \in Requests, Emit(r)
  PROVE  BookInv'
  <1>1. /\ Running(r) /\ Written(r) /\ contended' = contended
        /\ life' = life /\ row' = row /\ logged' = logged
        /\ told' = [told EXCEPT ![req[r].target] = Public(req[r].target, req[r])]
        /\ "emit" \in AfterWrite(req[r]) /\ Shape(req[r])
    BY AtShape DEF Emit, News, Places, At, rowVars
  <1>2. Goes(r, req[r].todo \ {"emit"}, req[r].amount, "done")
    BY EmitGoes
  <1>3. PICK h \in Rows : h = req[r].target
    BY <1>1, RunningFields DEF Core
  <1>4. "write" \notin req[r].todo /\ "cleanup" \notin req[r].todo
    BY <1>1 DEF Written
  <1>5. /\ req[r].op \in Edits
        /\ req[r].op = "update" => "available" \in req[r].fields
    BY <1>1, AfterWriteCases, RunningIsHandler DEF Core, Edits
  <1>6. Progress /\ (Written(r)' <=> req[r].todo \ {"emit"} # {})
    BY <1>1, <1>2, <1>4, GoesProgress
  <1>7. \A g \in Rows : told'[g] = (IF g = h THEN Public(h, req[r]) ELSE told[g])
    BY <1>1, <1>3 DEF Core, RowTypes
  <1>8. Written(r)' =>
          /\ req'[r].todo = req[r].todo \ {"emit"} /\ req'[r].fields = req[r].fields
          /\ req'[r].amount = req[r].amount /\ req'[r].available = req[r].available
          /\ req'[r].target = h /\ req'[r].op = req[r].op
    BY <1>2, <1>3, <1>6 DEF Goes
  <1>9. h \notin contended => Carries(req[r], row[h])
    BY <1>1, <1>3, <1>5 DEF BookInv, BooksAreHeld
  <1>10. Written(r)' /\ req[r].op \in Edits /\ h \notin contended => Carries(req'[r], row'[h])
    BY <1>1, <1>3, <1>8, <1>9 DEF Carries
  <1>11. Pure(h)' => /\ ~ToAudit(r)' => logged'[h] = row'[h].amount
                     /\ ~ToEmit(r)' => told'[h] = Public(h, row'[h])
    <2>1. ASSUME Pure(h)'
          PROVE  Pure(h) /\ h \notin contended
      BY <1>1, <1>6, <2>1, PureBefore DEF Pure
    <2>2. ASSUME Pure(h)'
          PROVE  told'[h] = Public(h, row'[h])
      <3>1. Public(h, req[r]) = Public(h, row[h])
        <4>1. h = Profile \/ req[r].op = "update"
          BY <1>1, <1>3, <1>5 DEF Shape, Edits
        <4> QED
          BY <1>3, <1>5, <1>9, <2>1, <2>2, <4>1 DEF Carries, Public
      <3> QED
        BY <1>1, <1>7, <3>1
    <2>3. ToAudit(r) => ToAudit(r)'
      <3>1. ASSUME ToAudit(r)
            PROVE  Written(r)' /\ "audit" \in req'[r].todo
        BY <1>6, <1>8, <3>1 DEF ToAudit
      <3> QED
        BY <1>8, <3>1 DEF ToAudit
    <2>4. ASSUME Pure(h)', ~ToAudit(r)'
          PROVE  logged'[h] = row'[h].amount
      BY <1>1, <1>3, <2>1, <2>3, <2>4, SoleBooks
    <2> QED
      BY <2>2, <2>4
  <1>12. \A g \in Rows \ {h} : /\ life'[g] = life[g] /\ row'[g] = row[g]
                               /\ logged'[g] = logged[g] /\ told'[g] = told[g]
    BY <1>1, <1>7
  <1> QED
    BY <1>1, <1>2, <1>3, <1>4, <1>10, <1>11, <1>12, MoverBooks

\* A new row is told and recorded with it.
LEMMA InsertBooks ==
  ASSUME Core, LeftoverInv, BookInv, NEW r \in Requests, At(r, "write"), Insert(r),
         contended' = contended, req[r].op \in {"setup", "create"},
         Goes(r, req[r].todo \ {"write"}, req[r].amount, "done")
  PROVE  BookInv'
  <1>1. Running(r) /\ Unwritten(r) /\ req[r].todo \ {"write"} = AfterWrite(req[r])
    BY AtShape DEF Places
  <1>2. PICK h \in Rows : h = req[r].target
    BY <1>1, RunningFields DEF Core
  <1>3. /\ life' = [life EXCEPT ![h] = "present"]
        /\ \A g \in Rows \ {h} : row'[g] = row[g] /\ logged'[g] = logged[g] /\ told'[g] = told[g]
        /\ logged'[h] = row'[h].amount
        /\ told'[h] = Public(h, row'[h])
    BY <1>1, <1>2, InsertRow
  <1>4. \A g \in Rows \ {h} : /\ life'[g] = life[g] /\ row'[g] = row[g]
                              /\ logged'[g] = logged[g] /\ told'[g] = told[g]
    BY <1>3 DEF Core, RowTypes
  <1>5. req[r].op \notin Edits
    BY DEF Edits
  <1> QED
    BY <1>1, <1>2, <1>3, <1>4, <1>5, MoverBooks

\* A setup that finds a profile changes no row.
LEMMA RefusedBooks ==
  ASSUME Core, LeftoverInv, BookInv, NEW r \in Requests, At(r, "write"),
         contended' = contended, UNCHANGED <<rowVars, outVars>>,
         NEW todo \in {{"cleanup"}, {}}, Goes(r, todo, req[r].amount, "refused")
  PROVE  BookInv'
  <1>1. Running(r) /\ Unwritten(r)
    BY AtShape DEF Places
  <1>2. PICK h \in Rows : h = req[r].target
    BY <1>1, RunningFields DEF Core
  <1>3. ~Written(r)'
    BY <1>1, GoesProgress
  <1> QED
    BY <1>1, <1>2, <1>3, QuietBooks

\* An edit records what it changed and tells what the screens show of it.
LEMMA WriteEditBooks ==
  ASSUME Core, LeftoverInv, BookInv, NEW r \in Requests, WriteEdit(r)
  PROVE  BookInv'
  <1>1. /\ At(r, "write") /\ Running(r) /\ Unwritten(r) /\ Shape(req[r]) /\ req[r].op \in Edits
        /\ req[r].todo \ {"write"} = AfterWrite(req[r]) /\ req[r] \in Handler
        /\ life' = life /\ logged' = logged /\ told' = told /\ contended' = contended
    BY AtShape, RunningIsHandler DEF WriteEdit, Places, Edits, outVars, Core
  <1>2. PICK h \in Rows : h = req[r].target
    BY <1>1, RunningFields DEF Core
  <1>3. PICK amount \in Amounts :
          /\ Goes(r, req[r].todo \ {"write"}, amount, "done")
          /\ amount = (IF h = Profile THEN row'[h].amount ELSE req[r].amount)
    BY <1>2, WriteEditGoes
  <1>4. /\ \A g \in Rows \ {h} : row'[g] = row[g]
        /\ life[h] = "present" => row'[h] = Patched(r, row[h])
    BY <1>2, WriteEditGoes
  <1>5. h \notin contended => life[h] = "present" /\ row[h] = req[r].seen
    BY <1>1, <1>2 DEF LeftoverInv, RowsAreHeld, Found
  <1>6. life[h] = "present" =>
          /\ row'[h].amount = (IF "amount" \in req[r].fields THEN req[r].amount ELSE row[h].amount)
          /\ row'[h].available
               = (IF "available" \in req[r].fields THEN req[r].available ELSE row[h].available)
    BY <1>1, <1>4, PatchedRow DEF Core, RowTypes
  <1>7. Written(r)' =>
          /\ req'[r].todo = AfterWrite(req[r]) /\ req'[r].fields = req[r].fields
          /\ req'[r].amount = amount /\ req'[r].available = req[r].available
          /\ req'[r].target = h
    BY <1>1, <1>2, <1>3 DEF Goes, Written
  <1>8. "write" \notin AfterWrite(req[r]) /\ "cleanup" \notin AfterWrite(req[r])
    BY DEF AfterWrite
  <1>9. Progress /\ (Written(r)' <=> AfterWrite(req[r]) # {})
    BY <1>1, <1>3, <1>8, GoesProgress
  <1>10. Written(r)' /\ req[r].op \in Edits /\ h \notin contended => Carries(req'[r], row'[h])
    BY <1>3, <1>5, <1>6, <1>7 DEF Carries
  <1>11. ASSUME Pure(h)'
         PROVE  /\ Pure(h) /\ h \notin contended /\ ~ToAudit(r) /\ ~ToEmit(r)
                /\ logged[h] = row[h].amount /\ told[h] = Public(h, row[h])
    <2>1. Pure(h) /\ h \notin contended
      BY <1>1, <1>9, <1>11, PureBefore DEF Pure
    <2>2. ~ToAudit(r) /\ ~ToEmit(r)
      BY <1>1 DEF ToAudit, ToEmit, Unwritten, Written
    <2> QED
      BY <1>1, <1>2, <2>1, <2>2, SoleBooks
  <1>12. ASSUME Pure(h)', ~ToAudit(r)'
         PROVE  logged'[h] = row'[h].amount
    <2>1. CASE "amount" \notin req[r].fields
      BY <1>1, <1>5, <1>6, <1>11, <1>12, <2>1
    <2>2. CASE "amount" \in req[r].fields
      <3>1. "audit" \notin AfterWrite(req[r])
        <4>1. ASSUME "audit" \in AfterWrite(req[r])
              PROVE  Written(r)' /\ req'[r].op \in Edits
          BY <1>1, <1>3, <1>9, <4>1 DEF Goes
        <4> QED
          BY <1>7, <1>12, <2>2, <4>1 DEF ToAudit
      <3>2. req[r].amount = req[r].seen.amount
        BY <1>1, <2>2, <3>1, AfterWriteCases DEF Edits
      <3> QED
        BY <1>1, <1>5, <1>6, <1>11, <1>12, <2>2, <3>2
    <2> QED
      BY <2>1, <2>2
  <1>13. ASSUME Pure(h)', ~ToEmit(r)'
         PROVE  told'[h] = Public(h, row'[h])
    <2>1. "emit" \notin AfterWrite(req[r])
      BY <1>7, <1>9, <1>13 DEF ToEmit
    <2>2. req[r].op = "update"
      BY <1>1, <2>1, AfterWriteCases DEF Edits
    <2>3. h # Profile
      BY <1>1, <1>2, <2>2 DEF Shape
    <2>4. "available" \in req[r].fields => req[r].available = req[r].seen.available
      BY <1>1, <2>1, <2>2, AfterWriteCases
    <2>5. row'[h].available = row[h].available
      BY <1>5, <1>6, <1>11, <1>13, <2>4
    <2> QED
      BY <1>1, <1>11, <1>13, <2>3, <2>5 DEF Public
  <1>14. \A g \in Rows \ {h} : /\ life'[g] = life[g] /\ row'[g] = row[g]
                               /\ logged'[g] = logged[g] /\ told'[g] = told[g]
    BY <1>1, <1>4
  <1>15. "write" \notin req[r].todo \ {"write"} /\ "cleanup" \notin req[r].todo \ {"write"}
    BY <1>1, <1>8
  <1> QED
    BY <1>1, <1>2, <1>3, <1>10, <1>12, <1>13, <1>14, <1>15, MoverBooks

LEMMA WriteRemoveBooks ==
  ASSUME Core, LeftoverInv, BookInv, NEW r \in Requests, WriteRemove(r)
  PROVE  BookInv'
  <1>1. /\ Running(r) /\ Unwritten(r) /\ req[r].op = "remove"
        /\ life' = [life EXCEPT ![req[r].target] = "removed"] /\ row' = row
        /\ logged' = logged /\ told' = told /\ contended' = contended
    BY AtShape DEF WriteRemove, Places, outVars
  <1>2. PICK h \in Rows : h = req[r].target
    BY <1>1, RunningFields DEF Core
  <1>3. Goes(r, req[r].todo \ {"write"}, req[r].amount, "done")
    BY WriteRemoveGoes
  <1>4. life'[h] = "removed" /\ \A g \in Rows \ {h} : life'[g] = life[g]
    BY <1>1, <1>2 DEF Core, RowTypes
  <1>5. ~Pure(h)' /\ req[r].op \notin Edits
    BY <1>1, <1>4 DEF Pure, Edits
  <1> QED
    BY <1>1, <1>2, <1>3, <1>4, <1>5, MoverBooks

LEMMA WriteBooks ==
  ASSUME Core, LeftoverInv, BookInv, NEW r \in Requests, Write(r)
  PROVE  BookInv'
  <1>1. CASE WriteSetup(r)
    <2>1. At(r, "write") /\ contended' = contended /\ req[r].op = "setup"
      BY <1>1 DEF WriteSetup
    <2> QED
      BY <1>1, <2>1, WriteSetupGoes, InsertBooks, RefusedBooks
  <1>2. CASE WriteCreate(r)
    <2>1. At(r, "write") /\ contended' = contended /\ req[r].op = "create"
      BY <1>2 DEF WriteCreate
    <2> QED
      BY <1>2, <2>1, WriteCreateGoes, InsertBooks
  <1> QED
    BY <1>1, <1>2, WriteEditBooks, WriteRemoveBooks DEF Write

LEMMA StartBooks ==
  ASSUME Core, LeftoverInv, BookInv, NEW r \in Requests, Start(r)
  PROVE  BookInv'
  <1>1. PICK op \in Operations, h \in Rows : Opens(r, op, h)
    BY StartOpens
  <1>2. /\ Progress /\ life' = life /\ row' = row /\ logged' = logged /\ told' = told
        /\ contended \subseteq contended'
        /\ ~Running(r) /\ ~Written(r)' /\ ~Written(r)
        /\ \A s \in Requests \ {r} : (Written(s)' <=> Written(s)) /\ req'[s] = req[s]
    BY <1>1, OpensProgress DEF Opens, rowVars, outVars, Written
  <1>3. BooksAreHeld'
    BY <1>2 DEF BookInv, BooksAreHeld
  <1>4. ASSUME NEW g \in Rows, Pure(g)'
        PROVE  Pure(g)
    BY <1>2, <1>4, PureBefore DEF Pure
  <1>5. \A s \in Requests, g \in Rows :
          /\ ToAudit(s) /\ req[s].target = g => ToAudit(s)' /\ req'[s].target = g
          /\ ToEmit(s) /\ req[s].target = g => ToEmit(s)' /\ req'[s].target = g
    BY <1>2 DEF ToAudit, ToEmit
  <1>6. AuditInv'
    BY <1>2, <1>4, <1>5 DEF BookInv, AuditInv
  <1>7. ASSUME NEW g \in Rows, Pure(g)',
               ~(\E s \in Requests : ToEmit(s)' /\ req'[s].target = g)
        PROVE  told'[g] = Public(g, row'[g])
    BY <1>2, <1>4, <1>5, <1>7 DEF BookInv, NewsInv
  <1>8. NewsInv'
    BY <1>2, <1>7 DEF NewsInv, Public
  <1> QED
    BY <1>3, <1>6, <1>8 DEF BookInv

LEMMA CrashBooks ==
  ASSUME Core, LeftoverInv, BookInv, Crash
  PROVE  BookInv'
  <1>1. /\ Progress /\ life' = life /\ row' = row /\ logged' = logged /\ told' = told
        /\ contended' = contended
        /\ \A r \in Requests :
             /\ ~Written(r)'
             /\ Running(r) => Died(r)' /\ req'[r].target = req[r].target
    BY CrashEnds, CrashProgress DEF rowVars, outVars, Written
  <1>2. BooksAreHeld'
    BY <1>1 DEF BooksAreHeld
  <1>3. ASSUME NEW g \in Rows, Pure(g)'
        PROVE  /\ Pure(g)
               /\ ~(\E s \in Requests : ToAudit(s) /\ req[s].target = g)
               /\ ~(\E s \in Requests : ToEmit(s) /\ req[s].target = g)
    <2>1. Pure(g)
      BY <1>1, <1>3, PureBefore DEF Pure
    <2>2. ASSUME NEW s \in Requests, Running(s), req[s].target = g
          PROVE  FALSE
      BY <1>1, <1>3, <2>2 DEF Pure, Lost
    <2> QED
      BY <2>1, <2>2 DEF ToAudit, ToEmit, Written
  <1>4. AuditInv'
    BY <1>1, <1>3 DEF BookInv, AuditInv
  <1>5. ASSUME NEW g \in Rows, Pure(g)'
        PROVE  told'[g] = Public(g, row'[g])
    BY <1>1, <1>3, <1>5 DEF BookInv, NewsInv
  <1>6. NewsInv'
    BY <1>5 DEF NewsInv, Public
  <1> QED
    BY <1>2, <1>4, <1>6 DEF BookInv

LEMMA BookInit == Init => BookInv
  <1> SUFFICES ASSUME Init PROVE BookInv
    OBVIOUS
  <1>1. \A r \in Requests : ~Written(r)
    BY DEF Init, Written, Running, Sent
  <1>2. \A h \in Rows : logged[h] = row[h].amount /\ told[h] = Public(h, row[h])
    BY DEF Init
  <1> QED
    BY <1>1, <1>2 DEF BookInv, BooksAreHeld, AuditInv, NewsInv

LEMMA BookStep == Core /\ LeftoverInv /\ BookInv /\ [Next]_vars => BookInv'
  <1> SUFFICES ASSUME Core, LeftoverInv, BookInv, [Next]_vars PROVE BookInv'
    OBVIOUS
  <1>1. ASSUME NEW r \in Requests, GoOn(r)
        PROVE  BookInv'
    BY <1>1, StoreBooks, WriteBooks, AuditBooks, FailAuditBooks, EmitBooks, ReleaseBooks,
       CompensateBooks DEF GoOn
  <1>2. CASE UNCHANGED vars
    <2>1. /\ life' = life /\ row' = row /\ logged' = logged /\ told' = told
          /\ contended' = contended /\ req' = req
      BY <1>2 DEF vars
    <2>2. /\ \A r \in Requests : /\ Written(r)' <=> Written(r)
                                 /\ ToAudit(r)' <=> ToAudit(r)
                                 /\ ToEmit(r)' <=> ToEmit(r)
          /\ \A h \in Rows : Pure(h)' <=> Pure(h)
      BY <2>1 DEF Written, Running, Sent, ToAudit, ToEmit, Pure, Lost, Died
    <2>3. BooksAreHeld' /\ AuditInv'
      BY <2>1, <2>2 DEF BookInv, BooksAreHeld, AuditInv
    <2>4. NewsInv'
      BY <2>1, <2>2 DEF BookInv, NewsInv, Public
    <2> QED
      BY <2>3, <2>4 DEF BookInv
  <1> QED
    BY <1>1, <1>2, StartBooks, CrashBooks DEF Next

LEMMA OrderlyIsQuiet ==
  ASSUME NEW h \in Rows, Orderly(h)
  PROVE  /\ Pure(h)
         /\ ~(\E r \in Requests : ToAudit(r) /\ req[r].target = h)
         /\ ~(\E r \in Requests : ToEmit(r) /\ req[r].target = h)
  BY DEF Orderly, Pure, Lost, ToAudit, ToEmit, Written

LEMMA BooksAlways == Spec => []BookInv
  BY CoreInit, CoreStep, ImageInit, ImageStep, LeftoverInit, LeftoverStep, BookInit, BookStep,
     PTL DEF Spec

\* AmountsAreAudited: where no two requests were in flight on a row at once and
\* none died, the last audit row of a price or of the tax rate names the amount
\* that the row holds.
THEOREM AmountsAreAlwaysAudited == Spec => []AmountsAreAudited
  <1>1. BookInv => AmountsAreAudited
    BY OrderlyIsQuiet DEF BookInv, AuditInv, AmountsAreAudited
  <1> QED
    BY <1>1, BooksAlways, PTL

\* ScreensShowRows: there too, the screens were told what the row says, although
\* they are told of changes only and a change is judged on an earlier read.
THEOREM ScreensAlwaysShowRows == Spec => []ScreensShowRows
  <1>1. BookInv => ScreensShowRows
    BY OrderlyIsQuiet DEF BookInv, NewsInv, ScreensShowRows
  <1> QED
    BY <1>1, BooksAlways, PTL
=============================================================================
