------------------------- MODULE StaffScreensProofs -------------------------
(***************************************************************************)
(* The staff's side for any number of employees, connections, events, rows *)
(* and pages: the registry of Presence, the lists that are paged by keyset *)
(* and the notifications, and the restarts that empty the rooms.           *)
(***************************************************************************)
EXTENDS StaffScreens, FiniteSetTheorems, FunctionTheorems, TLAPS

(***************************************************************************)
(* Presence.  What makes its properties inductive is that a socket is only *)
(* registered once its connection hook is done.                            *)
(***************************************************************************)

\* A socket in the registry has nothing left to await.
RegisteredAreDone == \A s \in Sockets : bySocket[s] # Nobody => place[s] = "done"

PresenceInv ==
  /\ TypeOK
  /\ RegisteredAreDone
  /\ MapsAgree
  /\ OnlineMeansConnected
  /\ OwnersSeePresence

-----------------------------------------------------------------------------
LEMMA PresenceInit == Init => PresenceInv
  BY NobodyAssumption
  DEF Init, PresenceInv, TypeOK, Places, RegisteredAreDone, MapsAgree,
      OnlineMeansConnected, OwnersSeePresence, IsOnline

\* unregister keeps the two maps and the page in step, and announces a
\* transition only.
LEMMA UnregisterKeepsMaps ==
  ASSUME PresenceInv, NEW s \in Sockets, Unregister(s)
  PROVE  /\ bySocket' = [bySocket EXCEPT ![s] = Nobody]
         /\ sockets' \in [Employees -> SUBSET Sockets]
         /\ \A e \in Employees : sockets'[e] = sockets[e] \ {s}
         /\ emission' \subseteq [employee: Employees, online: BOOLEAN]
         /\ shown' \in [Employees -> BOOLEAN]
         /\ OwnersSeePresence'
         /\ \A m \in emission' : shown[m.employee] # m.online
  <1> USE NobodyAssumption
  <1> USE DEF PresenceInv, TypeOK, MapsAgree
  <1>1. CASE bySocket[s] = Nobody
    BY <1>1 DEF Unregister, Silent, registryVars, OwnersSeePresence, IsOnline
  <1>2. CASE bySocket[s] # Nobody
    <2> DEFINE e == bySocket[s]
    <2>1. e \in Employees /\ s \in sockets[e]
      BY <1>2
    <2>2. /\ bySocket' = [bySocket EXCEPT ![s] = Nobody]
          /\ sockets' = [sockets EXCEPT ![e] = sockets[e] \ {s}]
          /\ Announce(e, FALSE, BecameOffline(e, s))
      BY <1>2 DEF Unregister
    <2>3. \A d \in Employees : sockets'[d] = sockets[d] \ {s}
      BY <2>1, <2>2
    <2>4. shown[e] = TRUE
      BY <2>1 DEF OwnersSeePresence, IsOnline
    <2>5. CASE BecameOffline(e, s)
      <3>1. emission' = {[employee |-> e, online |-> FALSE]}
            /\ shown' = [shown EXCEPT ![e] = FALSE]
        BY <2>2, <2>5 DEF Announce
      <3>2. OwnersSeePresence'
        <4>1. sockets'[e] = {} /\ shown'[e] = FALSE
          BY <2>1, <2>2, <2>5, <3>1 DEF BecameOffline
        <4>2. \A d \in Employees \ {e} : sockets'[d] = sockets[d] /\ shown'[d] = shown[d]
          BY <2>1, <2>2, <3>1
        <4> QED
          BY <2>1, <4>1, <4>2 DEF OwnersSeePresence, IsOnline
      <3> QED
        BY <2>1, <2>2, <2>3, <2>4, <3>1, <3>2
    <2>6. CASE ~BecameOffline(e, s)
      <3>1. emission' = {} /\ shown' = shown
        BY <2>2, <2>6 DEF Announce
      <3>2. OwnersSeePresence'
        BY <2>1, <2>2, <2>4, <2>6, <3>1
        DEF OwnersSeePresence, IsOnline, BecameOffline
      <3> QED
        BY <2>1, <2>2, <2>3, <3>1, <3>2
    <2> QED
      BY <2>5, <2>6
  <1> QED
    BY <1>1, <1>2

\* A step keeps the invariant, and what it emits is a transition.
LEMMA PresenceStep ==
  ASSUME PresenceInv, [Next]_vars
  PROVE  PresenceInv' /\ (Next => \A m \in emission' : shown[m.employee] # m.online)
  <1> DEFINE Told == \A m \in emission' : shown[m.employee] # m.online
  <1> USE NobodyAssumption
  <1> USE DEF PresenceInv, TypeOK, Places
  <1>1. ASSUME NEW s \in Sockets, Connect(s)
        PROVE  PresenceInv' /\ Told
    BY <1>1
    DEF Connect, Silent, registryVars, RegisteredAreDone, MapsAgree,
        OnlineMeansConnected, OwnersSeePresence, IsOnline
  <1>2. ASSUME NEW s \in Sockets, Verify(s)
        PROVE  PresenceInv' /\ Told
    <2>1. bySocket[s] = Nobody
      BY <1>2 DEF Verify, RegisteredAreDone
    <2>2. Silent /\ UNCHANGED registryVars
      BY <1>2, <2>1 DEF Verify, Unregister
    <2>3. \A e \in Employees : s \notin sockets[e]
      BY <2>1 DEF MapsAgree
    <2>4. /\ employee' = employee /\ bySocket' = bySocket /\ sockets' = sockets
          /\ shown' = shown /\ emission' = {}
          /\ place' \in [Sockets -> Places] /\ connected' \in [Sockets -> BOOLEAN]
          /\ \A t \in Sockets \ {s} : place'[t] = place[t] /\ connected'[t] = connected[t]
      BY <1>2, <2>2 DEF Verify, Silent, registryVars
    <2> QED
      BY <2>1, <2>3, <2>4
      DEF RegisteredAreDone, MapsAgree, OnlineMeansConnected, OwnersSeePresence, IsOnline
  <1>3. ASSUME NEW s \in Sockets, Register(s)
        PROVE  PresenceInv' /\ Told
    <2> DEFINE e == employee[s]
    <2>1. e \in Employees
      OBVIOUS
    <2>2. CASE ~connected[s]
      BY <1>3, <2>2
      DEF Register, StillConnected, Silent, registryVars, RegisteredAreDone,
          MapsAgree, OnlineMeansConnected, OwnersSeePresence, IsOnline
    <2>3. CASE connected[s]
      <3>1. /\ bySocket' = [bySocket EXCEPT ![s] = e]
            /\ sockets' = [sockets EXCEPT ![e] = sockets[e] \cup {s}]
            /\ Announce(e, TRUE, BecameOnline(e))
            /\ place' = [place EXCEPT ![s] = "done"]
            /\ UNCHANGED <<employee, connected>>
            /\ bySocket[s] = Nobody
        BY <1>3, <2>3 DEF Register, StillConnected, RegisteredAreDone
      <3>2. RegisteredAreDone' /\ MapsAgree' /\ OnlineMeansConnected'
        BY <2>1, <2>3, <3>1 DEF RegisteredAreDone, MapsAgree, OnlineMeansConnected
      <3>3. CASE BecameOnline(e)
        <4>1. emission' = {[employee |-> e, online |-> TRUE]}
              /\ shown' = [shown EXCEPT ![e] = TRUE]
          BY <3>1, <3>3 DEF Announce
        <4>2. shown[e] = FALSE
          BY <2>1, <3>3 DEF OwnersSeePresence, IsOnline, BecameOnline
        <4>3. s \in sockets'[e] /\ shown'[e] = TRUE
          BY <2>1, <3>1, <4>1
        <4>4. \A d \in Employees \ {e} : sockets'[d] = sockets[d] /\ shown'[d] = shown[d]
          BY <2>1, <3>1, <4>1
        <4>5. OwnersSeePresence'
          BY <2>1, <4>3, <4>4 DEF OwnersSeePresence, IsOnline
        <4>6. Told
          BY <4>1, <4>2
        <4>7. TypeOK'
          BY <2>1, <3>1, <4>1
        <4> QED
          BY <3>2, <4>5, <4>6, <4>7
      <3>4. CASE ~BecameOnline(e)
        <4>1. emission' = {} /\ shown' = shown
          BY <3>1, <3>4 DEF Announce
        <4>2. OwnersSeePresence'
          BY <2>1, <3>1, <3>4, <4>1 DEF OwnersSeePresence, IsOnline, BecameOnline
        <4> QED
          BY <2>1, <3>1, <3>2, <4>1, <4>2
      <3> QED
        BY <3>3, <3>4
    <2> QED
      BY <2>2, <2>3
  <1>4. ASSUME NEW s \in Sockets, Disconnect(s)
        PROVE  PresenceInv' /\ Told
    <2>1. /\ Unregister(s)
          /\ connected' = [connected EXCEPT ![s] = FALSE]
          /\ UNCHANGED <<employee, place>>
      BY <1>4 DEF Disconnect
    <2>2. RegisteredAreDone' /\ MapsAgree' /\ OnlineMeansConnected'
      BY <2>1, UnregisterKeepsMaps DEF RegisteredAreDone, MapsAgree, OnlineMeansConnected
    <2> QED
      BY <2>1, <2>2, UnregisterKeepsMaps
  <1>5. CASE UNCHANGED vars
    <2>1. PresenceInv'
      BY <1>5
      DEF vars, RegisteredAreDone, MapsAgree, OnlineMeansConnected,
          OwnersSeePresence, IsOnline
    <2> QED
      BY <2>1, <1>1, <1>2, <1>3, <1>4 DEF Next
  <1> QED
    BY <1>1, <1>2, <1>3, <1>4, <1>5 DEF Next

\* The registry is what it should be in every reachable state.
THEOREM PresenceInvariant == Spec => []PresenceInv
  BY PresenceInit, PresenceStep, PTL DEF Spec

\* PresenceIsTrue: the registry, the connections and the owner's page agree.
THEOREM PresenceStaysTrue == Spec => []PresenceIsTrue
  <1>1. PresenceInv => PresenceIsTrue
    BY DEF PresenceInv, PresenceIsTrue
  <1> QED
    BY <1>1, PresenceInvariant, PTL

\* OnlineMeansConnected: a drop in the middle of a handshake never leaves an
\* employee listed online without a connection.
THEOREM NoGhosts == Spec => []OnlineMeansConnected
  BY PresenceInvariant, PTL DEF PresenceInv

\* OwnersSeePresence: the events alone tell the owner's page who is online.
THEOREM EventsTellPresence == Spec => []OwnersSeePresence
  BY PresenceInvariant, PTL DEF PresenceInv

\* OnlyTransitionsAnnounced: no presence event repeats what was shown.
THEOREM EventsAreTransitions == Spec => OnlyTransitionsAnnounced
  <1>1. PresenceInv /\ [Next]_vars => [\A m \in emission' : shown[m.employee] # m.online]_vars
    BY PresenceStep
  <1> QED
    BY <1>1, PresenceInvariant, PTL DEF Spec, OnlyTransitionsAnnounced

-----------------------------------------------------------------------------
(***************************************************************************)
(* Pages by keyset.  Rows have positions of their own, which never change. *)
(***************************************************************************)
Keyed(position) ==
  /\ IsFiniteSet(DOMAIN position)
  /\ position \in [DOMAIN position -> Nat \X Nat]
  /\ \A x, y \in DOMAIN position : position[x] = position[y] => x = y

LEMMA PrecedesIsAnOrder ==
  /\ \A p \in Nat \X Nat : ~Precedes(p, p)
  /\ \A p, q, r \in Nat \X Nat : Precedes(p, q) /\ Precedes(q, r) => Precedes(p, r)
  /\ \A p, q, r \in Nat \X Nat : Precedes(p, q) /\ ~Precedes(r, q) => Precedes(p, r)
  /\ \A p, q \in Nat \X Nat : p = q \/ Precedes(p, q) \/ Precedes(q, p)
  BY DEF Precedes

\* Rows are counted from the newest on.
LEMMA EachRowHasItsRank ==
  ASSUME NEW position, Keyed(position), NEW S \in SUBSET DOMAIN position
  PROVE  /\ IsFiniteSet(S) /\ Cardinality(S) \in Nat
         /\ \A x \in S : Above(x, S, position) \in 0 .. Cardinality(S) - 1
         /\ \A x, y \in S : Precedes(position[x], position[y])
                              => Above(y, S, position) < Above(x, S, position)
         /\ \A x, y \in S : Above(x, S, position) = Above(y, S, position) => x = y
         /\ \A i \in 0 .. Cardinality(S) - 1 : \E x \in S : Above(x, S, position) = i
  <1> DEFINE up(x) == {y \in S : Precedes(position[x], position[y])}
             n     == Cardinality(S)
             rank  == [x \in S |-> Above(x, S, position)]
  <1>1. IsFiniteSet(S) /\ n \in Nat
    BY FS_Subset, FS_CardinalityType DEF Keyed
  <1>2. \A x \in S : position[x] \in Nat \X Nat
    BY DEF Keyed
  <1>3. \A x \in S : /\ IsFiniteSet(up(x)) /\ Cardinality(up(x)) \in Nat
                     /\ Above(x, S, position) = Cardinality(up(x))
    <2> SUFFICES ASSUME NEW x \in S
                 PROVE  /\ IsFiniteSet(up(x)) /\ Cardinality(up(x)) \in Nat
                        /\ Above(x, S, position) = Cardinality(up(x))
      OBVIOUS
    <2>1. up(x) \in SUBSET S
      OBVIOUS
    <2> QED
      BY <1>1, <2>1, FS_Subset, FS_CardinalityType DEF Above
  <1>4. ASSUME NEW x \in S
        PROVE  Above(x, S, position) \in 0 .. n - 1
    <2>1. up(x) \in SUBSET S /\ x \notin up(x)
      BY <1>2, PrecedesIsAnOrder
    <2>2. Cardinality(up(x)) =< n /\ Cardinality(up(x)) # n
      BY <1>1, <2>1, FS_Subset
    <2> QED
      BY <1>1, <1>3, <2>2
  <1>5. ASSUME NEW x \in S, NEW y \in S, Precedes(position[x], position[y])
        PROVE  Above(y, S, position) < Above(x, S, position)
    <2>1. up(y) \in SUBSET up(x) /\ y \in up(x) /\ y \notin up(y)
      BY <1>2, <1>5, PrecedesIsAnOrder
    <2>2. Cardinality(up(y)) =< Cardinality(up(x)) /\ Cardinality(up(y)) # Cardinality(up(x))
      BY <1>3, <2>1, FS_Subset
    <2> QED
      BY <1>3, <2>2
  <1>6. ASSUME NEW x \in S, NEW y \in S, Above(x, S, position) = Above(y, S, position)
        PROVE  x = y
    <2>0. Above(x, S, position) \in Int /\ Above(y, S, position) \in Int
      BY <1>1, <1>4
    <2>1. ~Precedes(position[x], position[y]) /\ ~Precedes(position[y], position[x])
      BY <2>0, <1>5, <1>6
    <2>2. position[x] = position[y]
      BY <1>2, <2>1, PrecedesIsAnOrder
    <2> QED
      BY <2>2 DEF Keyed
  <1>7. ASSUME NEW i \in 0 .. n - 1
        PROVE  \E x \in S : Above(x, S, position) = i
    <2>1. rank \in Injection(S, 0 .. n - 1)
      BY <1>4, <1>6 DEF Injection, IsInjective
    <2>2. IsFiniteSet(0 .. n - 1) /\ Cardinality(0 .. n - 1) = n
      <3>1. 0 \in Int /\ n - 1 \in Int
        BY <1>1
      <3>2. Cardinality(0 .. n - 1) = IF 0 > n - 1 THEN 0 ELSE n - 1 - 0 + 1
        BY <3>1, FS_Interval
      <3> QED
        BY <3>1, <3>2, <1>1, FS_Interval
    <2> HIDE DEF rank, n
    <2>3. rank \in Surjection(S, 0 .. n - 1)
      BY <2>1, <2>2, FS_Injection DEF n
    <2>4. PICK x \in S : rank[x] = i
      BY <2>3 DEF Surjection
    <2> QED
      BY <2>4 DEF rank
  <1> QED
    BY <1>1, <1>4, <1>5, <1>6, <1>7

\* The rows in their order, each of them once.
LEMMA SortedListsAll ==
  ASSUME NEW position, Keyed(position), NEW S \in SUBSET DOMAIN position
  PROVE  /\ Sorted(S, position) \in Seq(S)
         /\ Len(Sorted(S, position)) = Cardinality(S)
         /\ \A i \in 1 .. Cardinality(S) : Above(Sorted(S, position)[i], S, position) = i - 1
         /\ \A x \in S : \E i \in 1 .. Cardinality(S) : Sorted(S, position)[i] = x
         /\ Descending(Sorted(S, position), position)
  <1> DEFINE n == Cardinality(S)
             s == Sorted(S, position)
             rank(x) == Above(x, S, position)
  <1>1. n \in Nat
    BY EachRowHasItsRank
  <1>2. /\ \A x \in S : rank(x) \in 0 .. n - 1
        /\ \A x, y \in S : Precedes(position[x], position[y]) => rank(y) < rank(x)
        /\ \A x, y \in S : rank(x) = rank(y) => x = y
        /\ \A i \in 0 .. n - 1 : \E x \in S : rank(x) = i
    BY EachRowHasItsRank
  <1>3. s = [i \in 1 .. n |-> CHOOSE x \in S : rank(x) = i - 1]
    BY DEF Sorted
  <1> HIDE DEF n, s, rank
  <1>4. \A i \in 1 .. n : s[i] \in S /\ rank(s[i]) = i - 1
    <2> SUFFICES ASSUME NEW i \in 1 .. n
                 PROVE  s[i] \in S /\ rank(s[i]) = i - 1
      OBVIOUS
    <2>1. i - 1 \in 0 .. n - 1
      BY <1>1
    <2>2. \E x \in S : rank(x) = i - 1
      BY <1>2, <2>1
    <2>3. s[i] = CHOOSE x \in S : rank(x) = i - 1
      BY <1>3
    <2> QED
      BY <2>2, <2>3
  <1>5. s \in [1 .. n -> S]
    BY <1>3, <1>4
  <1>6. s \in Seq(S) /\ Len(s) = n /\ DOMAIN s = 1 .. n
    BY <1>1, <1>5
  <1>7. \A x \in S : \E i \in 1 .. n : s[i] = x
    <2> SUFFICES ASSUME NEW x \in S
                 PROVE  \E i \in 1 .. n : s[i] = x
      OBVIOUS
    <2>1. rank(x) + 1 \in 1 .. n /\ rank(x) \in Int
      BY <1>1, <1>2
    <2>2. rank(s[rank(x) + 1]) = rank(x) /\ s[rank(x) + 1] \in S
      BY <1>4, <2>1
    <2> QED
      BY <1>2, <2>1, <2>2
  <1>8. Descending(s, position)
    <2> SUFFICES ASSUME NEW i \in 1 .. n, NEW j \in 1 .. n, i < j
                 PROVE  Precedes(position[s[j]], position[s[i]])
      BY <1>6 DEF Descending
    <2>1. rank(s[i]) < rank(s[j]) /\ rank(s[i]) \in Int /\ rank(s[j]) \in Int
      BY <1>4
    <2>2. ~Precedes(position[s[i]], position[s[j]]) /\ s[i] # s[j]
      BY <1>2, <1>4, <2>1
    <2>3. position[s[i]] \in Nat \X Nat /\ position[s[j]] \in Nat \X Nat
          /\ position[s[i]] # position[s[j]]
      BY <1>4, <2>2 DEF Keyed
    <2> QED
      BY <2>2, <2>3, PrecedesIsAnOrder
  <1> QED
    BY <1>4, <1>6, <1>7, <1>8 DEF s, n, rank

\* Of a sorted list, the first k are above the others.
LEMMA FirstsAreAbove ==
  ASSUME NEW position, Keyed(position), NEW S \in SUBSET DOMAIN position, NEW k \in Nat
  PROVE  LET s == Sorted(S, position)
             t == Firsts(s, k)
         IN /\ t \in Seq(S) /\ Len(t) = (IF k < Cardinality(S) THEN k ELSE Cardinality(S))
            /\ \A i \in 1 .. Len(t) : t[i] = s[i]
            /\ Cardinality(S) \in Nat /\ Len(s) = Cardinality(S)
  <1> DEFINE s == Sorted(S, position)
             n == Cardinality(S)
             m == IF k < n THEN k ELSE n
  <1>1. s \in Seq(S) /\ Len(s) = n /\ n \in Nat
    BY SortedListsAll, EachRowHasItsRank
  <1>2. Firsts(s, k) = SubSeq(s, 1, m)
    BY <1>1 DEF Firsts
  <1> HIDE DEF s, n
  <1>3. m \in Nat /\ m =< n
    BY <1>1
  <1>4. /\ SubSeq(s, 1, m) \in Seq(S) /\ Len(SubSeq(s, 1, m)) = m
        /\ \A i \in 1 .. m : SubSeq(s, 1, m)[i] = s[i]
    BY <1>1, <1>3
  <1> QED
    BY <1>1, <1>2, <1>4 DEF s, n

\* What a page gives: all that is left, or the newest of it and where it ended.
IsPageOf(page, found, k, S, position) ==
  /\ page \in Seq(S) /\ Descending(page, position)
  /\ Len(found) \in Nat
  /\ Len(found) =< k => \A x \in S : \E i \in DOMAIN page : page[i] = x
  /\ Len(found) > k =>
       /\ Last(page) \in S
       /\ \A i \in DOMAIN page : ~Precedes(position[page[i]], position[Last(page)])
       /\ \A x \in S :
            \/ \E i \in DOMAIN page : page[i] = x
            \/ Precedes(position[x], position[Last(page)])

LEMMA PageIsNewest ==
  ASSUME NEW position, Keyed(position), NEW S \in SUBSET DOMAIN position,
         NEW k \in Nat \ {0},
         NEW found, found = Firsts(Sorted(S, position), k + 1),
         NEW page, page = Firsts(found, k)
  PROVE  IsPageOf(page, found, k, S, position)
  <1> DEFINE s == Sorted(S, position)
             n == Cardinality(S)
  <1>1. /\ s \in Seq(S) /\ Len(s) = n /\ n \in Nat
        /\ \A x \in S : \E i \in 1 .. n : s[i] = x
    BY SortedListsAll, EachRowHasItsRank
  <1>11. Descending(s, position)
    BY SortedListsAll
  <1>2. k + 1 \in Nat /\ k \in Nat
    OBVIOUS
  <1>3. /\ found \in Seq(S) /\ Len(found) = (IF k + 1 < n THEN k + 1 ELSE n)
        /\ \A i \in 1 .. Len(found) : found[i] = s[i]
    BY <1>2, FirstsAreAbove
  <1>4. \A i \in 1 .. n : s[i] \in S /\ position[s[i]] \in Nat \X Nat
    BY <1>1 DEF Keyed
  <1> HIDE DEF s, n
  <1>12. \A i, j \in 1 .. n : i < j => Precedes(position[s[j]], position[s[i]])
    BY <1>1, <1>11 DEF Descending
  <1> DEFINE m == IF k < Len(found) THEN k ELSE Len(found)
  <1>5. page = SubSeq(found, 1, m) /\ m \in Nat /\ m =< Len(found) /\ m =< n
    BY <1>1, <1>2, <1>3 DEF Firsts
  <1>6. m = (IF k < n THEN k ELSE n)
    BY <1>1, <1>2, <1>3
  <1> HIDE DEF m
  <1>7. /\ page \in Seq(S) /\ Len(page) = m /\ DOMAIN page = 1 .. m
        /\ \A i \in 1 .. m : page[i] = s[i]
    <2>1. /\ page \in Seq(S) /\ Len(page) = m
          /\ \A i \in 1 .. m : page[i] = found[i]
      BY <1>3, <1>5
    <2> QED
      BY <1>3, <1>5, <2>1
  <1>8. Descending(page, position)
    BY <1>1, <1>5, <1>7, <1>12 DEF Descending
  <1>9. ASSUME Len(found) =< k
        PROVE  \A x \in S : \E i \in DOMAIN page : page[i] = x
    <2>1. m = n
      BY <1>1, <1>2, <1>3, <1>6, <1>9
    <2> QED
      BY <1>1, <1>7, <2>1
  <1>10. ASSUME Len(found) > k
         PROVE  /\ Last(page) \in S
                /\ \A i \in DOMAIN page :
                     ~Precedes(position[page[i]], position[Last(page)])
                /\ \A x \in S :
                     \/ \E i \in DOMAIN page : page[i] = x
                     \/ Precedes(position[x], position[Last(page)])
    <2>1. m = k /\ k \in 1 .. n
      BY <1>1, <1>2, <1>3, <1>6, <1>10
    <2>2. Last(page) = s[k] /\ s[k] \in S
      BY <1>4, <1>7, <2>1 DEF Last
    <2>3. ASSUME NEW i \in 1 .. k
          PROVE  ~Precedes(position[s[i]], position[s[k]])
      <3>1. i \in 1 .. n
        BY <1>1, <2>1
      <3>2. i = k \/ Precedes(position[s[k]], position[s[i]])
        BY <1>1, <1>12, <2>1, <3>1
      <3> QED
        BY <1>4, <2>1, <3>1, <3>2, PrecedesIsAnOrder
    <2>4. ASSUME NEW x \in S
          PROVE  \/ \E i \in 1 .. k : s[i] = x
                 \/ Precedes(position[x], position[s[k]])
      <3>1. PICK i \in 1 .. n : s[i] = x
        BY <1>1
      <3>2. CASE i =< k
        BY <3>1, <3>2, <1>2
      <3>3. CASE i > k
        BY <1>1, <1>12, <2>1, <3>1, <3>3
      <3> QED
        BY <3>2, <3>3, <1>1, <1>2
    <2> QED
      BY <1>7, <2>1, <2>2, <2>3, <2>4
  <1> QED
    BY <1>1, <1>2, <1>3, <1>7, <1>8, <1>9, <1>10 DEF IsPageOf

LEMMA TwoLists ==
  ASSUME NEW D, NEW old \in Seq(D), NEW page \in Seq(D)
  PROVE  /\ old \o page \in Seq(D) /\ Len(old \o page) = Len(old) + Len(page)
         /\ DOMAIN (old \o page) = 1 .. Len(old) + Len(page)
         /\ Len(old) \in Nat /\ Len(page) \in Nat
         /\ DOMAIN old = 1 .. Len(old) /\ DOMAIN page = 1 .. Len(page)
         /\ \A i \in 1 .. Len(old) : (old \o page)[i] = old[i]
         /\ \A i \in 1 .. Len(page) : (old \o page)[Len(old) + i] = page[i]
         /\ \A i \in 1 .. Len(old) : old[i] \in D
  OBVIOUS

\* A list is paged so far: it was given once each, newest first, what is due but
\* for those that come after the cursor (rest: the candidates of the next page).
PagedSoFar(list, position, rest) ==
  /\ list.listed \in Seq(DOMAIN position)
  /\ list.cursor \in Nat \X Nat
  /\ Descending(list.listed, position)
  /\ list.at # "end" =>
       \A i \in DOMAIN list.listed : ~Precedes(position[list.listed[i]], list.cursor)
  /\ \A x \in list.due :
       \/ \E i \in DOMAIN list.listed : list.listed[i] = x
       \/ list.at # "end" /\ x \in rest /\ Precedes(position[x], list.cursor)
  /\ list.at = "unopened" => list.listed = <<>> /\ list.due = {}

LEMMA PageKeepsPaged ==
  ASSUME NEW position, Keyed(position), NEW rest \in SUBSET DOMAIN position,
         NEW k \in Nat \ {0}, NEW list, list.at = "paging",
         PagedSoFar(list, position, rest),
         NEW S, S = {x \in rest : Precedes(position[x], list.cursor)},
         NEW found, found = Firsts(Sorted(S, position), k + 1),
         NEW page, page = Firsts(found, k),
         NEW next,
         next.listed = list.listed \o page, next.due = list.due,
         next.at = (IF Len(found) > k THEN "paging" ELSE "end"),
         next.cursor = (IF Len(found) > k THEN position[Last(page)] ELSE list.cursor)
  PROVE  PagedSoFar(next, position, rest)
  <1>1. S \in SUBSET DOMAIN position /\ S \subseteq rest
    OBVIOUS
  <1>2. IsPageOf(page, found, k, S, position)
    BY <1>1, PageIsNewest
  <1>3. Len(found) \in Nat /\ page \in Seq(S)
    BY <1>2 DEF IsPageOf
  <1> DEFINE old == list.listed
             new == old \o page
  <1>16. old \in Seq(DOMAIN position)
    BY DEF PagedSoFar, old
  <1>17. page \in Seq(DOMAIN position)
    BY <1>1, <1>3
  <1> HIDE DEF old
  <1>4. /\ Len(old) \in Nat /\ Len(page) \in Nat
        /\ DOMAIN old = 1 .. Len(old) /\ DOMAIN page = 1 .. Len(page)
        /\ \A i \in 1 .. Len(old) : old[i] \in DOMAIN position
    BY <1>16, <1>17, TwoLists
  <1>5. /\ new \in Seq(DOMAIN position) /\ Len(new) = Len(old) + Len(page)
        /\ DOMAIN new = 1 .. Len(old) + Len(page)
        /\ \A i \in 1 .. Len(old) : new[i] = old[i]
        /\ \A i \in 1 .. Len(page) : new[Len(old) + i] = page[i]
    BY <1>16, <1>17, TwoLists
  <1> HIDE DEF new
  <1>6. \A i \in 1 .. Len(page) : page[i] \in S
    BY <1>3, <1>4
  <1>7. \A x \in DOMAIN position : position[x] \in Nat \X Nat
    BY DEF Keyed
  <1>8. \A i \in DOMAIN new :
          \/ i \in 1 .. Len(old) /\ new[i] = old[i]
          \/ i - Len(old) \in 1 .. Len(page) /\ new[i] = page[i - Len(old)]
    <2> SUFFICES ASSUME NEW i \in 1 .. Len(old) + Len(page), i \notin 1 .. Len(old)
                 PROVE  i - Len(old) \in 1 .. Len(page) /\ new[i] = page[i - Len(old)]
      BY <1>5
    <2>1. i - Len(old) \in 1 .. Len(page) /\ i = Len(old) + (i - Len(old))
      BY <1>4
    <2> QED
      BY <1>5, <2>1
  <1>9. /\ \A i, j \in 1 .. Len(old) : i < j => Precedes(position[old[j]], position[old[i]])
        /\ \A i \in 1 .. Len(old) : ~Precedes(position[old[i]], list.cursor)
        /\ list.cursor \in Nat \X Nat
    BY <1>4 DEF PagedSoFar, Descending, old
  <1>10. \A i \in 1 .. Len(page), j \in 1 .. Len(old) :
           Precedes(position[page[i]], position[old[j]])
    <2> SUFFICES ASSUME NEW i \in 1 .. Len(page), NEW j \in 1 .. Len(old)
                 PROVE  Precedes(position[page[i]], position[old[j]])
      OBVIOUS
    <2>1. page[i] \in S /\ old[j] \in DOMAIN position
      BY <1>4, <1>6
    <2>2. position[page[i]] \in Nat \X Nat /\ position[old[j]] \in Nat \X Nat
      BY <2>1, <1>1, <1>7
    <2>3. Precedes(position[page[i]], list.cursor) /\ ~Precedes(position[old[j]], list.cursor)
      BY <2>1, <1>9
    <2> QED
      BY <2>2, <2>3, <1>9, PrecedesIsAnOrder
  <1>11. Descending(new, position)
    <2> SUFFICES ASSUME NEW i \in DOMAIN new, NEW j \in DOMAIN new, i < j
                 PROVE  Precedes(position[new[j]], position[new[i]])
      BY DEF Descending
    <2>1. \A a, b \in 1 .. Len(page) : a < b => Precedes(position[page[b]], position[page[a]])
      BY <1>2, <1>4 DEF Descending, IsPageOf
    <2>2. i \in Int /\ j \in Int
      BY <1>4, <1>5
    <2>3. CASE j \in 1 .. Len(old)
      <3>1. i \in 1 .. Len(old)
        BY <1>4, <1>5, <2>2, <2>3
      <3> QED
        BY <1>5, <1>9, <2>3, <3>1
    <2>4. CASE j - Len(old) \in 1 .. Len(page) /\ new[j] = page[j - Len(old)]
      <3>1. CASE i \in 1 .. Len(old)
        BY <1>5, <1>10, <2>4, <3>1
      <3>2. CASE i - Len(old) \in 1 .. Len(page) /\ new[i] = page[i - Len(old)]
        <4>1. i - Len(old) < j - Len(old)
          BY <1>4, <2>2
        <4> QED
          BY <2>1, <2>4, <3>2, <4>1
      <3> QED
        BY <1>8, <3>1, <3>2
    <2> QED
      BY <1>8, <2>3, <2>4
  <1>12. next.listed = new
    BY DEF new, old
  <1>13. next.at # "end" => \A i \in DOMAIN new : ~Precedes(position[new[i]], next.cursor)
    <2> SUFFICES ASSUME Len(found) > k, NEW i \in DOMAIN new
                 PROVE  ~Precedes(position[new[i]], next.cursor)
      OBVIOUS
    <2>1. next.cursor = position[Last(page)] /\ Last(page) \in S
      BY <1>2 DEF IsPageOf
    <2>2. CASE i \in 1 .. Len(old) /\ new[i] = old[i]
      BY <2>1, <2>2, <1>1, <1>4, <1>7, <1>9, PrecedesIsAnOrder
    <2>3. CASE i - Len(old) \in 1 .. Len(page) /\ new[i] = page[i - Len(old)]
      BY <2>1, <2>3, <1>2, <1>4 DEF IsPageOf
    <2> QED
      BY <1>8, <2>2, <2>3
  <1>14. \A x \in next.due :
           \/ \E i \in DOMAIN new : new[i] = x
           \/ next.at # "end" /\ x \in rest /\ Precedes(position[x], next.cursor)
    <2> SUFFICES ASSUME NEW x \in list.due,
                        ~(\E i \in DOMAIN new : new[i] = x)
                 PROVE  next.at # "end" /\ x \in rest /\ Precedes(position[x], next.cursor)
      OBVIOUS
    <2>1. ~(\E i \in DOMAIN old : old[i] = x)
      <3> SUFFICES ASSUME NEW i \in 1 .. Len(old), old[i] = x
                   PROVE  FALSE
        BY <1>4
      <3>1. i \in DOMAIN new
        BY <1>4, <1>5
      <3> QED
        BY <1>5, <3>1
    <2>2. x \in S
      BY <2>1 DEF PagedSoFar, old
    <2>3. ~(\E i \in DOMAIN page : page[i] = x)
      <3> SUFFICES ASSUME NEW i \in 1 .. Len(page), page[i] = x
                   PROVE  FALSE
        BY <1>4
      <3>1. Len(old) + i \in DOMAIN new
        BY <1>4, <1>5
      <3> QED
        BY <1>5, <3>1
    <2>4. ~(Len(found) =< k)
      BY <1>2, <2>2, <2>3 DEF IsPageOf
    <2>5. Len(found) > k
      BY <1>3, <2>4
    <2>6. Precedes(position[x], position[Last(page)])
      BY <1>2, <2>2, <2>3, <2>5 DEF IsPageOf
    <2> QED
      BY <1>1, <2>2, <2>5, <2>6
  <1>15. next.cursor \in Nat \X Nat
    BY <1>1, <1>2, <1>7, <1>9 DEF IsPageOf
  <1>18. next.at # "unopened"
    OBVIOUS
  <1>19. /\ next.listed \in Seq(DOMAIN position)
         /\ Descending(next.listed, position)
    BY <1>5, <1>11, <1>12
  <1>20. next.at # "end" =>
           \A i \in DOMAIN next.listed : ~Precedes(position[next.listed[i]], next.cursor)
    BY <1>12, <1>13
  <1>21. \A x \in next.due :
           \/ \E i \in DOMAIN next.listed : next.listed[i] = x
           \/ next.at # "end" /\ x \in rest /\ Precedes(position[x], next.cursor)
    BY <1>12, <1>14
  <1> HIDE DEF new
  <1> QED
    BY <1>15, <1>18, <1>19, <1>20, <1>21 DEF PagedSoFar

\* A list stays paged while rows arrive, and move on that are no longer due.
LEMMA PagedStaysPaged ==
  ASSUME NEW position, NEW rest, NEW list, PagedSoFar(list, position, rest),
         NEW position2, DOMAIN position \subseteq DOMAIN position2,
         \A x \in DOMAIN position : position2[x] = position[x],
         NEW list2, list2.listed = list.listed, list2.cursor = list.cursor,
         list2.at = list.at, list2.due \subseteq list.due,
         NEW rest2, list2.due \cap rest \subseteq rest2, rest \subseteq DOMAIN position
  PROVE  PagedSoFar(list2, position2, rest2)
  <1> DEFINE s == list.listed
  <1>1. s \in Seq(DOMAIN position)
    BY DEF PagedSoFar
  <1> HIDE DEF s
  <1>2. /\ DOMAIN s = 1 .. Len(s) /\ \A i \in DOMAIN s : s[i] \in DOMAIN position
        /\ s \in Seq(DOMAIN position2)
    BY <1>1
  <1>3. \A i \in DOMAIN s : position2[s[i]] = position[s[i]]
    BY <1>2
  <1>4. Descending(s, position2)
    BY <1>3 DEF PagedSoFar, Descending, s
  <1>5. list.at # "end" => \A i \in DOMAIN s : ~Precedes(position2[s[i]], list.cursor)
    BY <1>3 DEF PagedSoFar, s
  <1>6. \A x \in list2.due :
          \/ \E i \in DOMAIN s : s[i] = x
          \/ list.at # "end" /\ x \in rest2 /\ Precedes(position2[x], list.cursor)
    <2> SUFFICES ASSUME NEW x \in list2.due, ~(\E i \in DOMAIN s : s[i] = x)
                 PROVE  list.at # "end" /\ x \in rest2 /\ Precedes(position2[x], list.cursor)
      OBVIOUS
    <2>1. list.at # "end" /\ x \in rest /\ Precedes(position[x], list.cursor)
      BY DEF PagedSoFar, s
    <2> QED
      BY <2>1
  <1>7. list2.listed = s
    BY DEF s
  <1>8. list2.at = "unopened" => s = <<>> /\ list2.due = {}
    BY DEF PagedSoFar, s
  <1>9. list2.cursor \in Nat \X Nat
    BY DEF PagedSoFar
  <1> QED
    BY <1>2, <1>4, <1>5, <1>6, <1>7, <1>8, <1>9 DEF PagedSoFar

OrdersThere  == {o \in OrderIds : order[o] # None}
EntriesThere == {a \in EntryIds : entry[a] # None}

\* The rows that a list goes through.
OrdersListed(status)  == {o \in OrdersThere : status \in {None, order[o].status}}
EntriesListed(from, to) == {a \in EntriesThere : entry[a] \in from .. to}

ListInv ==
  /\ ListTypeOK
  /\ IsFiniteSet(OrdersThere) /\ IsFiniteSet(EntriesThere)
  /\ PagedSoFar(board, OrderPosition, OrdersListed(board.status))
  /\ PagedSoFar(review, EntryPosition, EntriesListed(review.from, review.to))
  /\ board.at = "unopened" => board.cursor = Top
  /\ review.at = "unopened" => review.cursor = Top

LEMMA TopIsAbove ==
  /\ Top \in Nat \X Nat
  /\ \A p \in (0 .. MaxStamp) \X Nat : Precedes(p, Top)
  BY NotificationAssumption DEF Top, Precedes

LEMMA RowsAreKeyed ==
  ASSUME NEW ids \in SUBSET Nat, NEW there \in SUBSET ids, IsFiniteSet(there),
         NEW stamp, \A x \in there : stamp[x] \in 0 .. MaxStamp,
         NEW position, position = [x \in there |-> <<stamp[x], x>>]
  PROVE  /\ Keyed(position) /\ DOMAIN position = there
         /\ \A x \in there : position[x] \in (0 .. MaxStamp) \X ids
  <1>1. 0 .. MaxStamp \subseteq Nat
    BY NotificationAssumption
  <1>2. DOMAIN position = there /\ \A x \in there : position[x] = <<stamp[x], x>>
    OBVIOUS
  <1>3. \A x \in there : position[x] \in (0 .. MaxStamp) \X ids
    BY <1>2
  <1>4. (0 .. MaxStamp) \X ids \subseteq Nat \X Nat
    BY <1>1
  <1>5. position \in [there -> Nat \X Nat]
    BY <1>3, <1>4
  <1>6. \A x, y \in there : position[x] = position[y] => x = y
    BY <1>2
  <1> QED
    BY <1>2, <1>3, <1>5, <1>6 DEF Keyed

LEMMA OrdersAreKeyed ==
  ASSUME NEW table \in [OrderIds -> OrderRow \cup {None}],
         NEW there, there = {o \in OrderIds : table[o] # None}, IsFiniteSet(there),
         NEW position, position = [o \in there |-> <<table[o].at, o>>]
  PROVE  /\ Keyed(position) /\ DOMAIN position = there
         /\ \A o \in there : position[o] \in (0 .. MaxStamp) \X OrderIds
  <1> DEFINE stamp == [o \in there |-> table[o].at]
  <1>1. OrderIds \in SUBSET Nat /\ there \in SUBSET OrderIds
    BY ListAssumption
  <1>2. \A o \in there : stamp[o] \in 0 .. MaxStamp
    BY DEF OrderRow
  <1>3. position = [o \in there |-> <<stamp[o], o>>]
    OBVIOUS
  <1> HIDE DEF stamp
  <1> QED
    BY <1>1, <1>2, <1>3, RowsAreKeyed

LEMMA EntriesAreKeyed ==
  ASSUME NEW table \in [EntryIds -> EntryRow \cup {None}],
         NEW there, there = {a \in EntryIds : table[a] # None}, IsFiniteSet(there),
         NEW position, position = [a \in there |-> <<table[a], a>>]
  PROVE  /\ Keyed(position) /\ DOMAIN position = there
         /\ \A a \in there : position[a] \in (0 .. MaxStamp) \X EntryIds
  <1>1. EntryIds \in SUBSET Nat /\ there \in SUBSET EntryIds
    BY ListAssumption
  <1>2. \A a \in there : table[a] \in 0 .. MaxStamp
    BY DEF EntryRow
  <1> QED
    BY <1>1, <1>2, RowsAreKeyed

LEMMA MatchingAreListed ==
  ASSUME NEW cursor
  PROVE  /\ \A status : MatchingOrders(status, cursor) =
               {o \in OrdersListed(status) : Precedes(OrderPosition[o], cursor)}
         /\ \A from, to : MatchingEntries(from, to, cursor) =
               {a \in EntriesListed(from, to) : Precedes(EntryPosition[a], cursor)}
  BY DEF MatchingOrders, MatchingEntries, OrdersListed, EntriesListed, OrderPosition,
         EntryPosition, OrdersThere, EntriesThere

LEMMA ListsInit == ListInit => ListInv
  <1> SUFFICES ASSUME ListInit
               PROVE  ListInv
    OBVIOUS
  <1>1. OrdersThere = {} /\ EntriesThere = {} /\ IsFiniteSet({})
    BY FS_EmptySet DEF ListInit, OrdersThere, EntriesThere
  <1>2. ListTypeOK
    <2>1. <<>> \in Seq(OrderIds) /\ <<>> \in Seq(EntryIds) /\ 0 \in 0 .. MaxStamp
      BY NotificationAssumption
    <2> QED
      BY <2>1 DEF ListInit, ListTypeOK
  <1>3. /\ board.listed = <<>> /\ board.due = {} /\ board.cursor = Top
        /\ review.listed = <<>> /\ review.due = {} /\ review.cursor = Top
    BY DEF ListInit
  <1>4. \A position, rest : PagedSoFar(board, position, rest) /\ PagedSoFar(review, position, rest)
    BY <1>3, TopIsAbove DEF PagedSoFar, Descending
  <1> QED
    BY <1>1, <1>2, <1>3, <1>4 DEF ListInv

\* What an order's arrival or move leaves of the board.
LEMMA OrdersStep ==
  ASSUME ListInv, now \in 0 .. MaxStamp, NEW o \in OrderIds, PlaceOrder(o) \/ MoveOrder(o)
  PROVE  ListInv'
  <1> DEFINE st == board.status
  <1>1. /\ order \in [OrderIds -> OrderRow \cup {None}] /\ IsFiniteSet(OrdersThere)
        /\ PagedSoFar(board, OrderPosition, OrdersListed(st))
    BY DEF ListInv, ListTypeOK
  <1>2. /\ order' \in [OrderIds -> OrderRow \cup {None}]
        /\ order'[o] \in OrderRow
        /\ \A i \in OrderIds \ {o} : order'[i] = order[i]
        /\ order[o] # None =>
             /\ order'[o].at = order[o].at /\ order[o].status = "pending"
             /\ board' = [board EXCEPT !.due = IF st = "pending" THEN @ \ {o} ELSE @]
        /\ order[o] = None => board' = board
        /\ UNCHANGED <<entry, review>>
    <2>1. CASE PlaceOrder(o)
      <3>1. [at |-> now, status |-> "pending"] \in OrderRow
        BY DEF OrderRow, ListedStatuses
      <3> QED
        BY <1>1, <2>1, <3>1 DEF PlaceOrder
    <2>2. CASE MoveOrder(o)
      <3>1. order[o] \in OrderRow
        BY <1>1, <2>2 DEF MoveOrder
      <3>2. order' = [order EXCEPT ![o] = [order[o] EXCEPT !.status = "accepted"]]
        BY <2>2 DEF MoveOrder
      <3>3. /\ [order[o] EXCEPT !.status = "accepted"] \in OrderRow
            /\ [order[o] EXCEPT !.status = "accepted"].at = order[o].at
        BY <3>1 DEF OrderRow, ListedStatuses
      <3> QED
        BY <1>1, <2>2, <3>2, <3>3 DEF MoveOrder
    <2> QED
      BY <2>1, <2>2
  <1>3. OrdersThere' = OrdersThere \cup {o}
    BY <1>1, <1>2, OrderRowAssumption DEF OrdersThere
  <1>4. IsFiniteSet(OrdersThere)'
    BY <1>1, <1>3, FS_AddElement
  <1>5. /\ DOMAIN OrderPosition = OrdersThere
        /\ \A i \in OrdersThere : OrderPosition[i] = <<order[i].at, i>>
    BY DEF OrderPosition, OrdersThere
  <1>6. /\ (DOMAIN OrderPosition)' = OrdersThere'
        /\ \A i \in OrdersThere' : OrderPosition'[i] = <<order'[i].at, i>>
    BY DEF OrderPosition, OrdersThere
  <1>7. \A i \in OrdersThere : OrderPosition'[i] = OrderPosition[i]
    <2> SUFFICES ASSUME NEW i \in OrdersThere
                 PROVE  order'[i].at = order[i].at
      BY <1>3, <1>5, <1>6
    <2> QED
      BY <1>2 DEF OrdersThere
  <1>8. /\ board'.listed = board.listed /\ board'.cursor = board.cursor
        /\ board'.at = board.at /\ board'.status = board.status
        /\ board'.due \subseteq board.due
        /\ order[o] # None /\ board.status = "pending" => o \notin board'.due
    BY <1>2 DEF ListInv, ListTypeOK
  <1>9. board'.due \cap OrdersListed(st) \subseteq OrdersListed(board.status)'
    <2> SUFFICES ASSUME NEW i \in board'.due, i \in OrdersListed(st)
                 PROVE  i \in OrdersThere' /\ board'.status \in {None, order'[i].status}
      BY DEF OrdersListed
    <2>1. i \in OrdersThere /\ st \in {None, order[i].status}
      BY DEF OrdersListed
    <2>2. CASE i # o
      BY <1>2, <1>3, <1>8, <2>1, <2>2 DEF OrdersThere
    <2>3. CASE i = o
      <3>1. order[o] # None /\ order[o].status = "pending"
        BY <1>2, <2>1, <2>3 DEF OrdersThere
      <3>2. st = None
        BY <1>8, <2>1, <2>3, <3>1
      <3> QED
        BY <1>3, <1>8, <2>1, <3>2
    <2> QED
      BY <2>2, <2>3
  <1>10. OrdersListed(st) \subseteq DOMAIN OrderPosition
    BY <1>5 DEF OrdersListed
  <1>11. PagedSoFar(board, OrderPosition, OrdersListed(board.status))'
    <2> DEFINE position2 == OrderPosition'
               rest2 == OrdersListed(board.status)'
    <2>1. DOMAIN OrderPosition \subseteq DOMAIN position2
      BY <1>3, <1>5, <1>6
    <2>2. \A x \in DOMAIN OrderPosition : position2[x] = OrderPosition[x]
      BY <1>5, <1>7
    <2>3. board'.due \cap OrdersListed(st) \subseteq rest2
      BY <1>9
    <2> HIDE DEF position2, rest2, st
    <2>4. PagedSoFar(board', position2, rest2)
      BY <1>1, <1>8, <1>10, <2>1, <2>2, <2>3, PagedStaysPaged
    <2> QED
      BY <2>4 DEF position2, rest2
  <1>12. ListTypeOK'
    <2> DEFINE Board == [at: {"unopened", "paging", "end"}, status: ListedStatuses \cup {None},
                         cursor: ((0 .. MaxStamp) \X OrderIds) \cup {Top},
                         listed: Seq(OrderIds), due: SUBSET OrderIds]
    <2>1. board \in Board
      BY DEF ListInv, ListTypeOK
    <2>2. board' \in Board
      BY <1>2, <2>1
    <2> QED
      BY <1>2, <2>2 DEF ListInv, ListTypeOK, Top
  <1>13. /\ EntriesThere' = EntriesThere /\ EntryPosition' = EntryPosition /\ review' = review
         /\ EntriesListed(review.from, review.to)' = EntriesListed(review.from, review.to)
    BY <1>2 DEF EntriesThere, EntryPosition, EntriesListed
  <1>14. PagedSoFar(review, EntryPosition, EntriesListed(review.from, review.to))'
    BY <1>13 DEF ListInv, PagedSoFar, Descending
  <1> QED
    BY <1>4, <1>8, <1>11, <1>12, <1>13, <1>14 DEF ListInv, Top

LEMMA EntriesStep ==
  ASSUME ListInv, now \in 0 .. MaxStamp, NEW a \in EntryIds, WriteEntry(a)
  PROVE  ListInv'
  <1>1. /\ entry \in [EntryIds -> EntryRow \cup {None}] /\ IsFiniteSet(EntriesThere)
        /\ PagedSoFar(review, EntryPosition, EntriesListed(review.from, review.to))
    BY DEF ListInv, ListTypeOK
  <1>2. /\ entry' = [entry EXCEPT ![a] = now] /\ entry[a] = None
        /\ UNCHANGED <<order, board, review>>
    BY DEF WriteEntry
  <1>3. now # None
    BY NotificationAssumption
  <1>4. EntriesThere' = EntriesThere \cup {a}
    BY <1>1, <1>2, <1>3 DEF EntriesThere
  <1>5. IsFiniteSet(EntriesThere)'
    BY <1>1, <1>4, FS_AddElement
  <1>6. /\ DOMAIN EntryPosition = EntriesThere
        /\ \A i \in EntriesThere : EntryPosition[i] = <<entry[i], i>>
    BY DEF EntryPosition, EntriesThere
  <1>7. /\ (DOMAIN EntryPosition)' = EntriesThere'
        /\ \A i \in EntriesThere' : EntryPosition'[i] = <<entry'[i], i>>
    BY DEF EntryPosition, EntriesThere
  <1>8. \A i \in EntriesThere : i \in EntriesThere' /\ entry'[i] = entry[i]
    BY <1>1, <1>2, <1>4 DEF EntriesThere
  <1>9. PagedSoFar(review, EntryPosition, EntriesListed(review.from, review.to))'
    <2> DEFINE position2 == EntryPosition'
               rest  == EntriesListed(review.from, review.to)
               rest2 == EntriesListed(review.from, review.to)'
    <2>1. DOMAIN EntryPosition \subseteq DOMAIN position2
      BY <1>4, <1>6, <1>7
    <2>2. \A x \in DOMAIN EntryPosition : position2[x] = EntryPosition[x]
      BY <1>6, <1>7, <1>8
    <2>3. rest \subseteq rest2 /\ rest \subseteq DOMAIN EntryPosition
      BY <1>2, <1>6, <1>8 DEF EntriesListed
    <2>4. review' = review
      BY <1>2
    <2> HIDE DEF position2, rest, rest2
    <2>5. PagedSoFar(review, EntryPosition, rest)
      BY <1>1 DEF rest
    <2>6. PagedSoFar(review', position2, rest2)
      BY <2>1, <2>2, <2>3, <2>4, <2>5, PagedStaysPaged
    <2> QED
      BY <2>6 DEF position2, rest2
  <1>10. ListTypeOK'
    BY <1>2 DEF ListInv, ListTypeOK, EntryRow, Top
  <1>11. /\ OrdersThere' = OrdersThere /\ OrderPosition' = OrderPosition /\ board' = board
         /\ OrdersListed(board.status)' = OrdersListed(board.status)
    BY <1>2 DEF OrdersThere, OrderPosition, OrdersListed
  <1>12. PagedSoFar(board, OrderPosition, OrdersListed(board.status))'
    BY <1>11 DEF ListInv, PagedSoFar, Descending
  <1> QED
    BY <1>2, <1>5, <1>9, <1>10, <1>11, <1>12 DEF ListInv, Top

\* A screen opens a list, or fetches its next page.
LEMMA BoardStep ==
  ASSUME ListInv,
         \/ \E status \in ListedStatuses \cup {None} : OpenBoard(status)
         \/ PageOrders
  PROVE  ListInv'
  <1> DEFINE Board == [at: {"unopened", "paging", "end"}, status: ListedStatuses \cup {None},
                       cursor: ((0 .. MaxStamp) \X OrderIds) \cup {Top},
                       listed: Seq(OrderIds), due: SUBSET OrderIds]
  <1>1. UNCHANGED <<order, entry, review>>
    BY DEF OpenBoard, PageOrders
  <1>2. /\ order \in [OrderIds -> OrderRow \cup {None}] /\ IsFiniteSet(OrdersThere)
        /\ board \in Board /\ PagedSoFar(board, OrderPosition, OrdersListed(board.status))
        /\ board.at = "unopened" => board.cursor = Top
    BY DEF ListInv, ListTypeOK
  <1>3. /\ Keyed(OrderPosition) /\ DOMAIN OrderPosition = OrdersThere
        /\ \A o \in OrdersThere : OrderPosition[o] \in (0 .. MaxStamp) \X OrderIds
    BY <1>2, OrdersAreKeyed DEF OrdersThere, OrderPosition
  <1>4. \A status : OrdersListed(status) \in SUBSET DOMAIN OrderPosition
    BY <1>3 DEF OrdersListed
  <1>5. OrdersThere \subseteq OrderIds
    BY DEF OrdersThere
  <1>6. /\ board' \in Board /\ board'.at # "unopened"
        /\ PagedSoFar(board', OrderPosition, OrdersListed(board'.status))
    <2>1. ASSUME NEW status \in ListedStatuses \cup {None}, OpenBoard(status)
          PROVE  /\ board' \in Board /\ board'.at # "unopened"
                 /\ PagedSoFar(board', OrderPosition, OrdersListed(board'.status))
      <3>1. /\ board.at = "unopened" /\ board.listed = <<>> /\ board.cursor = Top
            /\ board' = [board EXCEPT !.at = "paging", !.status = status,
                                      !.due = MatchingOrders(status, Top)]
        BY <1>2, <2>1 DEF OpenBoard, PagedSoFar
      <3>2. MatchingOrders(status, Top)
              = {o \in OrdersListed(status) : Precedes(OrderPosition[o], Top)}
        BY MatchingAreListed
      <3>3. MatchingOrders(status, Top) \subseteq OrdersListed(status)
        BY <3>2
      <3>4. board' \in Board
        BY <1>2, <1>3, <1>4, <1>5, <3>1, <3>3
      <3>5. /\ board'.at = "paging" /\ board'.status = status /\ board'.listed = <<>>
            /\ board'.cursor = Top /\ board'.due = MatchingOrders(status, Top)
        BY <1>2, <3>1
      <3>6. PagedSoFar(board', OrderPosition, OrdersListed(status))
        BY <3>2, <3>5, TopIsAbove DEF PagedSoFar, Descending
      <3> QED
        BY <3>4, <3>5, <3>6
    <2>2. ASSUME PageOrders
          PROVE  /\ board' \in Board /\ board'.at # "unopened"
                 /\ PagedSoFar(board', OrderPosition, OrdersListed(board'.status))
      <3> DEFINE rest  == OrdersListed(board.status)
                 S     == MatchingOrders(board.status, board.cursor)
                 found == Firsts(Sorted(S, OrderPosition), PageSize + 1)
                 page  == Firsts(found, PageSize)
                 more  == Len(found) > PageSize
                 position == OrderPosition
      <3>1. /\ board.at = "paging"
            /\ board' = [board EXCEPT !.listed = board.listed \o page,
                                      !.at = IF more THEN "paging" ELSE "end",
                                      !.cursor = IF more THEN position[Last(page)]
                                                   ELSE board.cursor]
        BY <2>2 DEF PageOrders
      <3>2. S = {o \in rest : Precedes(position[o], board.cursor)}
        BY MatchingAreListed
      <3>3. rest \in SUBSET DOMAIN position /\ Keyed(position) /\ PagedSoFar(board, position, rest)
        BY <1>2, <1>3, <1>4
      <3>4. PageSize \in Nat \ {0}
        BY NotificationAssumption
      <3>5. found = Firsts(Sorted(S, position), PageSize + 1) /\ page = Firsts(found, PageSize)
        OBVIOUS
      <3> HIDE DEF rest, S, found, page, position
      <3>6. /\ board'.listed = board.listed \o page
            /\ board'.at = (IF more THEN "paging" ELSE "end")
            /\ board'.cursor = (IF more THEN position[Last(page)] ELSE board.cursor)
            /\ board'.due = board.due /\ board'.status = board.status
            /\ board.at = "paging"
        BY <1>2, <3>1
      <3>7. PagedSoFar(board', position, rest)
        BY <3>2, <3>3, <3>4, <3>5, <3>6, PageKeepsPaged
      <3>8. IsPageOf(page, found, PageSize, S, position) /\ S \in SUBSET DOMAIN position
        BY <3>2, <3>3, <3>4, <3>5, PageIsNewest
      <3>9. more => position[Last(page)] \in (0 .. MaxStamp) \X OrderIds
        BY <1>3, <3>8 DEF IsPageOf, position
      <3>10. board'.listed \in Seq(OrderIds)
        <4>1. board'.listed \in Seq(OrdersThere)
          BY <1>3, <3>7 DEF PagedSoFar, position
        <4> QED
          BY <1>5, <4>1
      <3>11. board' \in Board
        <4>1. board \in Board
          BY <1>2
        <4> QED
          BY <3>1, <3>6, <3>9, <3>10, <4>1
      <3> QED
        BY <3>6, <3>7, <3>11 DEF rest, position
    <2> QED
      BY <2>1, <2>2
  <1>7. /\ OrdersThere' = OrdersThere /\ OrderPosition' = OrderPosition
        /\ EntriesThere' = EntriesThere /\ EntryPosition' = EntryPosition
        /\ \A status : OrdersListed(status)' = OrdersListed(status)
    BY <1>1 DEF OrdersThere, OrderPosition, EntriesThere, EntryPosition, OrdersListed
  <1>8. PagedSoFar(board, OrderPosition, OrdersListed(board.status))'
    <2>1. OrdersListed(board.status)' = OrdersListed(board'.status)
      BY <1>1, <1>7 DEF OrdersListed, OrdersThere
    <2> QED
      BY <1>6, <1>7, <2>1 DEF PagedSoFar, Descending
  <1>9. /\ review' = review
        /\ EntriesListed(review.from, review.to)' = EntriesListed(review.from, review.to)
    BY <1>1 DEF EntriesListed, EntriesThere
  <1>10. PagedSoFar(review, EntryPosition, EntriesListed(review.from, review.to))'
    BY <1>7, <1>9 DEF ListInv, PagedSoFar, Descending
  <1>11. ListTypeOK'
    BY <1>1, <1>6 DEF ListInv, ListTypeOK, Top
  <1> QED
    BY <1>2, <1>6, <1>7, <1>8, <1>9, <1>10, <1>11 DEF ListInv, Top

LEMMA ReviewStep ==
  ASSUME ListInv,
         \/ \E from, to \in 0 .. MaxStamp : OpenReview(from, to)
         \/ PageEntries
  PROVE  ListInv'
  <1> DEFINE Review == [at: {"unopened", "paging", "end"}, from: 0 .. MaxStamp,
                        to: 0 .. MaxStamp, cursor: ((0 .. MaxStamp) \X EntryIds) \cup {Top},
                        listed: Seq(EntryIds), due: SUBSET EntryIds]
  <1>1. UNCHANGED <<order, entry, board>>
    BY DEF OpenReview, PageEntries
  <1>2. /\ entry \in [EntryIds -> EntryRow \cup {None}] /\ IsFiniteSet(EntriesThere)
        /\ review \in Review
        /\ PagedSoFar(review, EntryPosition, EntriesListed(review.from, review.to))
        /\ review.at = "unopened" => review.cursor = Top
    BY DEF ListInv, ListTypeOK
  <1>3. /\ Keyed(EntryPosition) /\ DOMAIN EntryPosition = EntriesThere
        /\ \A a \in EntriesThere : EntryPosition[a] \in (0 .. MaxStamp) \X EntryIds
    BY <1>2, EntriesAreKeyed DEF EntriesThere, EntryPosition
  <1>4. \A from, to : EntriesListed(from, to) \in SUBSET DOMAIN EntryPosition
    BY <1>3 DEF EntriesListed
  <1>5. EntriesThere \subseteq EntryIds
    BY DEF EntriesThere
  <1>6. /\ review' \in Review /\ review'.at # "unopened"
        /\ PagedSoFar(review', EntryPosition, EntriesListed(review'.from, review'.to))
    <2>1. ASSUME NEW from \in 0 .. MaxStamp, NEW to \in 0 .. MaxStamp, OpenReview(from, to)
          PROVE  /\ review' \in Review /\ review'.at # "unopened"
                 /\ PagedSoFar(review', EntryPosition, EntriesListed(review'.from, review'.to))
      <3>1. /\ review.at = "unopened" /\ review.listed = <<>> /\ review.cursor = Top
            /\ review' = [review EXCEPT !.at = "paging", !.from = from, !.to = to,
                                        !.due = MatchingEntries(from, to, Top)]
        BY <1>2, <2>1 DEF OpenReview, PagedSoFar
      <3>2. MatchingEntries(from, to, Top)
              = {a \in EntriesListed(from, to) : Precedes(EntryPosition[a], Top)}
        BY MatchingAreListed
      <3>3. MatchingEntries(from, to, Top) \subseteq EntriesListed(from, to)
        BY <3>2
      <3>4. review' \in Review
        BY <1>2, <1>3, <1>4, <1>5, <3>1, <3>3
      <3>5. /\ review'.at = "paging" /\ review'.from = from /\ review'.to = to
            /\ review'.listed = <<>> /\ review'.cursor = Top
            /\ review'.due = MatchingEntries(from, to, Top)
        BY <1>2, <3>1
      <3>6. PagedSoFar(review', EntryPosition, EntriesListed(from, to))
        BY <3>2, <3>5, TopIsAbove DEF PagedSoFar, Descending
      <3> QED
        BY <3>4, <3>5, <3>6
    <2>2. ASSUME PageEntries
          PROVE  /\ review' \in Review /\ review'.at # "unopened"
                 /\ PagedSoFar(review', EntryPosition, EntriesListed(review'.from, review'.to))
      <3> DEFINE rest  == EntriesListed(review.from, review.to)
                 S     == MatchingEntries(review.from, review.to, review.cursor)
                 found == Firsts(Sorted(S, EntryPosition), PageSize + 1)
                 page  == Firsts(found, PageSize)
                 more  == Len(found) > PageSize
                 position == EntryPosition
      <3>1. /\ review.at = "paging"
            /\ review' = [review EXCEPT !.listed = review.listed \o page,
                                        !.at = IF more THEN "paging" ELSE "end",
                                        !.cursor = IF more THEN position[Last(page)]
                                                     ELSE review.cursor]
        BY <2>2 DEF PageEntries
      <3>2. S = {a \in rest : Precedes(position[a], review.cursor)}
        BY MatchingAreListed
      <3>3. /\ rest \in SUBSET DOMAIN position /\ Keyed(position)
            /\ PagedSoFar(review, position, rest)
        BY <1>2, <1>3, <1>4
      <3>4. PageSize \in Nat \ {0}
        BY NotificationAssumption
      <3>5. found = Firsts(Sorted(S, position), PageSize + 1) /\ page = Firsts(found, PageSize)
        OBVIOUS
      <3> HIDE DEF rest, S, found, page, position
      <3>6. /\ review'.listed = review.listed \o page
            /\ review'.at = (IF more THEN "paging" ELSE "end")
            /\ review'.cursor = (IF more THEN position[Last(page)] ELSE review.cursor)
            /\ review'.due = review.due /\ review'.from = review.from
            /\ review'.to = review.to /\ review.at = "paging"
        BY <1>2, <3>1
      <3>7. PagedSoFar(review', position, rest)
        BY <3>2, <3>3, <3>4, <3>5, <3>6, PageKeepsPaged
      <3>8. IsPageOf(page, found, PageSize, S, position) /\ S \in SUBSET DOMAIN position
        BY <3>2, <3>3, <3>4, <3>5, PageIsNewest
      <3>9. more => position[Last(page)] \in (0 .. MaxStamp) \X EntryIds
        BY <1>3, <3>8 DEF IsPageOf, position
      <3>10. review'.listed \in Seq(EntryIds)
        <4>1. review'.listed \in Seq(EntriesThere)
          BY <1>3, <3>7 DEF PagedSoFar, position
        <4> QED
          BY <1>5, <4>1
      <3>11. review' \in Review
        <4>1. review \in Review
          BY <1>2
        <4> QED
          BY <3>1, <3>6, <3>9, <3>10, <4>1
      <3> QED
        BY <3>6, <3>7, <3>11 DEF rest, position
    <2> QED
      BY <2>1, <2>2
  <1>7. /\ OrdersThere' = OrdersThere /\ OrderPosition' = OrderPosition
        /\ EntriesThere' = EntriesThere /\ EntryPosition' = EntryPosition
    BY <1>1 DEF OrdersThere, OrderPosition, EntriesThere, EntryPosition
  <1>8. PagedSoFar(review, EntryPosition, EntriesListed(review.from, review.to))'
    <2>1. EntriesListed(review.from, review.to)' = EntriesListed(review'.from, review'.to)
      BY <1>1, <1>7 DEF EntriesListed, EntriesThere
    <2> QED
      BY <1>6, <1>7, <2>1 DEF PagedSoFar, Descending
  <1>9. board' = board /\ OrdersListed(board.status)' = OrdersListed(board.status)
    BY <1>1 DEF OrdersListed, OrdersThere
  <1>10. PagedSoFar(board, OrderPosition, OrdersListed(board.status))'
    BY <1>7, <1>9 DEF ListInv, PagedSoFar, Descending
  <1>11. ListTypeOK'
    BY <1>1, <1>6 DEF ListInv, ListTypeOK, Top
  <1> QED
    BY <1>2, <1>6, <1>7, <1>8, <1>9, <1>10, <1>11 DEF ListInv, Top

LEMMA ListsStep ==
  ASSUME ListInv, now \in 0 .. MaxStamp, ListStep \/ UNCHANGED listVars
  PROVE  ListInv'
  <1>1. CASE UNCHANGED listVars
    <2>1. /\ OrdersThere' = OrdersThere /\ OrderPosition' = OrderPosition
          /\ EntriesThere' = EntriesThere /\ EntryPosition' = EntryPosition
          /\ OrdersListed(board.status)' = OrdersListed(board.status)
          /\ EntriesListed(review.from, review.to)' = EntriesListed(review.from, review.to)
          /\ UNCHANGED <<order, entry, board, review>>
      BY <1>1 DEF listVars, OrdersThere, OrderPosition, EntriesThere, EntryPosition,
                  OrdersListed, EntriesListed
    <2>2. ListTypeOK'
      BY <2>1 DEF ListInv, ListTypeOK, Top
    <2> QED
      BY <2>1, <2>2 DEF ListInv, PagedSoFar, Descending, Top
  <1>2. CASE ListStep
    BY <1>2, OrdersStep, EntriesStep, BoardStep, ReviewStep DEF ListStep
  <1> QED
    BY <1>1, <1>2

LEMMA PagedIsComplete == ListInv => PagesAreComplete
  <1> SUFFICES ASSUME ListInv
               PROVE  PagesAreComplete
    OBVIOUS
  <1>1. Descending(board.listed, OrderPosition) /\ Descending(review.listed, EntryPosition)
    BY DEF ListInv, PagedSoFar
  <1>2. /\ board.at = "end" => board.due \subseteq Range(board.listed)
        /\ review.at = "end" => review.due \subseteq Range(review.listed)
    BY DEF ListInv, PagedSoFar, Range
  <1> QED
    BY <1>1, <1>2 DEF PagesAreComplete

-----------------------------------------------------------------------------
(***************************************************************************)
(* Notifications.                                                          *)
(***************************************************************************)
RowsThere == {n \in RowIds : rows[n] # None}

\* Of a call that has written and not announced yet, the row is still fresh.
CallRows ==
  \A ev \in Events :
    /\ call[ev].at \in {"rereading", "inserting", "announcing"} => call[ev].todo # <<>>
    /\ call[ev].fresh # None => call[ev].at = "announcing"
    /\ call[ev].at = "announcing" => call[ev].fresh \in RowsThere

ScreenRows ==
  \A s \in Sockets :
    /\ screen[s].shown \subseteq RowsThere
    /\ mark[s] # None => mark[s] \in RowsThere
    /\ screen[s].at # "unopened" => place[s] = "done"
    /\ screen[s].at = "unopened" => screen[s].cursor = Top

\* What a screen s should have shown by now: row n is for its role, and announced.
DueOn(s, n) ==
  /\ rows[n].for = RoleOf[bySocket[s]]
  /\ screen[s].unreadOnly => rows[n].read = None
  /\ \A ev \in Events : call[ev].fresh # n

\* It is shown, or to be found further down the list.
ScreensFollow ==
  \A s \in Sockets : \A n \in RowsThere :
    bySocket[s] # Nobody /\ screen[s].at # "unopened" /\ DueOn(s, n) =>
      n \in screen[s].shown \/ (screen[s].at = "paging" /\ Before(n, screen[s].cursor))

FeedInv == FeedTypeOK /\ IsFiniteSet(RowsThere) /\ CallRows /\ ScreenRows /\ ScreensFollow

Call == [at: {"unborn", "rereading", "inserting", "announcing", "done", "failed", "lost"},
         todo: Seq(StaffRoles), fresh: RowIds \cup {None}]
Screen == [at: {"unopened", "paging", "end"}, shown: SUBSET RowIds,
           unreadOnly: BOOLEAN, cursor: Position \cup {Top}]

LEMMA FeedTypes ==
  FeedTypeOK <=> /\ call \in [Events -> Call]
                 /\ rows \in [RowIds -> Row \cup {None}]
                 /\ now \in 0 .. MaxStamp
                 /\ screen \in [Sockets -> Screen]
                 /\ mark \in [Sockets -> RowIds \cup {None}]
  BY DEF FeedTypeOK, Call, Screen

LEMMA FeedInits == FeedInit => FeedInv
  <1> SUFFICES ASSUME FeedInit
               PROVE  FeedInv
    OBVIOUS
  <1>1. RowsThere = {} /\ IsFiniteSet(RowsThere)
    BY FS_EmptySet DEF FeedInit, RowsThere
  <1>2. FeedTypeOK
    <2>1. <<>> \in Seq(StaffRoles) /\ 0 \in 0 .. MaxStamp
      BY NotificationAssumption
    <2> QED
      BY <2>1 DEF FeedInit, FeedTypeOK, Blank
  <1>3. CallRows
    BY DEF FeedInit, CallRows
  <1>4. ScreenRows
    BY DEF FeedInit, ScreenRows, Blank
  <1>5. ScreensFollow
    BY <1>1 DEF ScreensFollow
  <1> QED
    BY <1>1, <1>2, <1>3, <1>4, <1>5 DEF FeedInv

LEMMA RecipientsAreRoles ==
  \A kind : Recipients(kind) \in Seq(StaffRoles)
  <1>1. /\ <<"kitchen">> \in Seq(StaffRoles) /\ <<"waiter">> \in Seq(StaffRoles)
        /\ <<"owner", "manager">> \in Seq(StaffRoles) /\ <<"owner">> \in Seq(StaffRoles)
        /\ <<>> \in Seq(StaffRoles)
    BY DEF StaffRoles
  <1> SUFFICES ASSUME NEW kind
               PROVE  Recipients(kind) \in Seq(StaffRoles)
    OBVIOUS
  <1>2. CASE kind \in {"order_created", "order_ready", "invitation", "backup"}
    BY <1>1, <1>2 DEF Recipients
  <1>3. CASE kind \notin {"order_created", "order_ready", "invitation", "backup"}
    BY <1>1, <1>3 DEF Recipients
  <1> QED
    BY <1>2, <1>3

\* A call moves on without a row.
LEMMA CallMoves ==
  ASSUME FeedInv, NEW ev \in Events, UNCHANGED <<place, bySocket>>,
         Emit(ev) \/ Reread(ev) \/ (InsertRow(ev) /\ Goes(ev, "failed") /\ UNCHANGED rows)
  PROVE  FeedInv'
  <1>1. /\ call \in [Events -> Call] /\ UNCHANGED <<rows, now, screen, mark>>
        /\ CallRows /\ ScreenRows /\ ScreensFollow
    BY FeedTypes DEF FeedInv, Emit, Reread, InsertRow
  <1>2. /\ call' \in [Events -> Call]
        /\ call'[ev].fresh = None /\ call[ev].fresh = None
        /\ call'[ev].at \in {"rereading", "inserting"} => call'[ev].todo # <<>>
        /\ call'[ev].at # "announcing"
        /\ \A e \in Events \ {ev} : call'[e] = call[e]
    <2>1. CASE Emit(ev)
      <3>1. Recipients(KindOf[ev]) \in Seq(StaffRoles)
        BY RecipientsAreRoles
      <3> DEFINE c == [at |-> IF Recipients(KindOf[ev]) = <<>> THEN "done"
                              ELSE IF KindOf[ev] = "order_ready" THEN "rereading"
                              ELSE "inserting",
                       todo |-> Recipients(KindOf[ev]), fresh |-> None]
      <3>2. call[ev].at = "unborn" /\ call' = [call EXCEPT ![ev] = c]
        BY <2>1 DEF Emit
      <3>3. c \in Call /\ c.fresh = None /\ c.at # "announcing"
            /\ (c.at \in {"rereading", "inserting"} => c.todo # <<>>)
        BY <3>1 DEF Call
      <3> HIDE DEF c
      <3> QED
        BY <1>1, <3>2, <3>3 DEF CallRows
    <2>2. CASE Reread(ev) \/ (InsertRow(ev) /\ Goes(ev, "failed"))
      <3>1. PICK step \in {"inserting", "failed"} : Goes(ev, step)
        BY <2>2 DEF Reread
      <3>2. call[ev].at \in {"rereading", "inserting"}
        BY <2>2 DEF Reread, InsertRow
      <3>3. call' = [call EXCEPT ![ev] = [call[ev] EXCEPT !.at = step]]
        BY <3>1 DEF Goes
      <3>4. /\ [call[ev] EXCEPT !.at = step] \in Call
            /\ [call[ev] EXCEPT !.at = step].at = step
            /\ [call[ev] EXCEPT !.at = step].todo = call[ev].todo
            /\ [call[ev] EXCEPT !.at = step].fresh = call[ev].fresh
        BY <1>1 DEF Call
      <3> QED
        BY <1>1, <3>2, <3>3, <3>4 DEF CallRows
    <2> QED
      BY <2>1, <2>2
  <1>3. RowsThere' = RowsThere /\ CallRows' /\ FeedTypeOK'
    <2>1. RowsThere' = RowsThere
      BY <1>1 DEF RowsThere
    <2>2. CallRows'
      BY <1>1, <1>2, <2>1 DEF CallRows
    <2>3. FeedTypeOK'
      BY <1>1, <1>2 DEF FeedInv, FeedTypeOK, Call, Row, Position, Top
    <2> QED
      BY <2>1, <2>2, <2>3
  <1>4. ScreenRows'
    BY <1>1, <1>3 DEF ScreenRows, Top
  <1>5. ScreensFollow'
    <2>1. \A e \in Events : call'[e].fresh = call[e].fresh
      BY <1>2
    <2>2. \A s \in Sockets, n \in RowsThere : DueOn(s, n)' => DueOn(s, n)
      BY <1>1, <2>1 DEF DueOn
    <2> QED
      BY <1>1, <1>3, <2>2 DEF ScreensFollow, Before, PositionOf
  <1> QED
    BY <1>3, <1>4, <1>5 DEF FeedInv

LEMMA RowIsInserted ==
  ASSUME FeedInv, NEW ev \in Events, UNCHANGED <<place, bySocket>>,
         InsertRow(ev), ~(Goes(ev, "failed") /\ UNCHANGED rows)
  PROVE  FeedInv'
  <1>1. /\ call \in [Events -> Call] /\ rows \in [RowIds -> Row \cup {None}]
        /\ screen \in [Sockets -> Screen] /\ UNCHANGED <<now, screen, mark>>
        /\ CallRows /\ ScreenRows /\ ScreensFollow /\ now \in 0 .. MaxStamp
        /\ call[ev].at = "inserting" /\ call[ev].todo # <<>>
    BY FeedTypes DEF FeedInv, InsertRow, CallRows
  <1>2. PICK n \in RowIds :
          /\ rows[n] = None
          /\ rows' = [rows EXCEPT ![n] =
               [for |-> Head(call[ev].todo), of |-> ev, at |-> now, read |-> None]]
          /\ call' = [call EXCEPT ![ev].at = "announcing", ![ev].fresh = n]
    BY DEF InsertRow
  <1>3. Head(call[ev].todo) \in StaffRoles
    <2>1. call[ev].todo \in Seq(StaffRoles)
      BY <1>1 DEF Call
    <2> QED
      BY <1>1, <2>1
  <1> DEFINE new == [for |-> Head(call[ev].todo), of |-> ev, at |-> now, read |-> None]
  <1>4. new \in Row /\ new # None
    BY <1>1, <1>3, RowAssumption DEF Row
  <1> HIDE DEF new
  <1>5. /\ rows' \in [RowIds -> Row \cup {None}] /\ rows'[n] # None
        /\ \A m \in RowIds \ {n} : rows'[m] = rows[m]
    BY <1>1, <1>2, <1>4 DEF new
  <1>6. RowsThere' = RowsThere \cup {n} /\ n \notin RowsThere
    BY <1>2, <1>5 DEF RowsThere
  <1>7. /\ call' \in [Events -> Call] /\ call'[ev].fresh = n /\ call'[ev].at = "announcing"
        /\ call'[ev].todo # <<>>
        /\ \A e \in Events \ {ev} : call'[e] = call[e]
    <2> DEFINE c == [call[ev] EXCEPT !.at = "announcing", !.fresh = n]
    <2>1. call' = [call EXCEPT ![ev] = c]
      BY <1>1, <1>2
    <2>2. c \in Call /\ c.at = "announcing" /\ c.fresh = n /\ c.todo = call[ev].todo
      BY <1>1 DEF Call
    <2> HIDE DEF c
    <2> QED
      BY <1>1, <2>1, <2>2
  <1>8. IsFiniteSet(RowsThere)'
    BY <1>6, FS_AddElement DEF FeedInv
  <1>9. FeedTypeOK'
    BY <1>1, <1>5, <1>7 DEF FeedInv, FeedTypeOK, Call, Row, Position, Top
  <1>10. CallRows'
    BY <1>1, <1>6, <1>7 DEF CallRows
  <1>11. ScreenRows'
    BY <1>1, <1>6 DEF ScreenRows, Top
  <1>12. ScreensFollow'
    <2> SUFFICES ASSUME NEW s \in Sockets, NEW m \in RowsThere',
                        bySocket[s] # Nobody, screen[s].at # "unopened", DueOn(s, m)'
                 PROVE  m \in screen[s].shown
                          \/ (screen[s].at = "paging" /\ Precedes(<<rows'[m].at, m>>, screen[s].cursor))
      BY <1>1 DEF ScreensFollow, Before, PositionOf
    <2>1. m # n
      BY <1>7 DEF DueOn
    <2>2. m \in RowsThere /\ rows'[m] = rows[m]
      BY <1>5, <1>6, <2>1 DEF RowsThere
    <2>3. \A e \in Events : call[e].fresh # m
      <3> SUFFICES ASSUME NEW e \in Events, call[e].fresh = m
                   PROVE  FALSE
        OBVIOUS
      <3>1. e # ev
        BY <1>1, <2>2, NotificationAssumption DEF CallRows, RowsThere
      <3> QED
        BY <1>7, <3>1 DEF DueOn
    <2>4. DueOn(s, m)
      BY <1>1, <2>2, <2>3 DEF DueOn
    <2> QED
      BY <1>1, <2>2, <2>4 DEF ScreensFollow, Before, PositionOf
  <1> QED
    BY <1>8, <1>9, <1>10, <1>11, <1>12 DEF FeedInv

LEMMA RowIsDelivered ==
  ASSUME FeedInv, NEW ev \in Events, UNCHANGED <<place, bySocket>>, Deliver(ev)
  PROVE  FeedInv'
  <1> DEFINE n    == call[ev].fresh
             todo == StillToTell(call[ev].todo)
  <1>1. /\ call \in [Events -> Call] /\ UNCHANGED <<rows, now, mark>>
        /\ screen \in [Sockets -> Screen]
        /\ CallRows /\ ScreenRows /\ ScreensFollow
        /\ call[ev].at = "announcing" /\ call[ev].todo # <<>> /\ n \in RowsThere
    BY FeedTypes DEF FeedInv, Deliver, CallRows
  <1>2. /\ screen' = [s \in Sockets |->
             IF Reaches({rows[n].for}, s)
               THEN [screen[s] EXCEPT !.shown = @ \cup {n}] ELSE screen[s]]
        /\ call' = [call EXCEPT ![ev] =
             [at |-> IF todo = <<>> THEN "done" ELSE "inserting",
              todo |-> todo, fresh |-> None]]
    BY DEF Deliver
  <1>3. todo \in Seq(StaffRoles)
    <2>1. call[ev].todo \in Seq(StaffRoles)
      BY <1>1 DEF Call
    <2> QED
      BY <1>1, <2>1 DEF StillToTell
  <1> HIDE DEF todo
  <1>4. /\ call' \in [Events -> Call] /\ call'[ev].fresh = None
        /\ call'[ev].at \in {"done", "inserting"}
        /\ call'[ev].at = "inserting" => call'[ev].todo # <<>>
        /\ \A e \in Events \ {ev} : call'[e] = call[e]
    BY <1>1, <1>2, <1>3 DEF Call
  <1>5. RowsThere' = RowsThere /\ n \in RowIds /\ RowsThere \subseteq RowIds
    BY <1>1 DEF RowsThere
  <1>6. /\ screen' \in [Sockets -> Screen]
        /\ \A s \in Sockets :
             /\ screen'[s].at = screen[s].at /\ screen'[s].cursor = screen[s].cursor
             /\ screen'[s].unreadOnly = screen[s].unreadOnly
             /\ screen'[s].shown \in {screen[s].shown, screen[s].shown \cup {n}}
             /\ Reaches({rows[n].for}, s) => n \in screen'[s].shown
    <2> HIDE DEF n
    <2>1. \A s \in Sockets :
            /\ screen'[s] \in Screen
            /\ screen'[s].at = screen[s].at /\ screen'[s].cursor = screen[s].cursor
            /\ screen'[s].unreadOnly = screen[s].unreadOnly
            /\ screen'[s].shown \in {screen[s].shown, screen[s].shown \cup {n}}
            /\ Reaches({rows[n].for}, s) => n \in screen'[s].shown
      <3> SUFFICES ASSUME NEW s \in Sockets
                   PROVE  /\ screen'[s] \in Screen
                          /\ screen'[s].at = screen[s].at /\ screen'[s].cursor = screen[s].cursor
                          /\ screen'[s].unreadOnly = screen[s].unreadOnly
                          /\ screen'[s].shown \in {screen[s].shown, screen[s].shown \cup {n}}
                          /\ Reaches({rows[n].for}, s) => n \in screen'[s].shown
        OBVIOUS
      <3>1. screen[s] \in Screen
        BY <1>1
      <3>2. CASE Reaches({rows[n].for}, s)
        BY <1>2, <1>5, <3>1, <3>2 DEF Screen
      <3>3. CASE ~Reaches({rows[n].for}, s)
        BY <1>2, <3>1, <3>3
      <3> QED
        BY <3>2, <3>3
    <2>2. screen' = [s \in Sockets |-> screen'[s]]
      BY <1>2
    <2> QED
      BY <2>1, <2>2
  <1>7. FeedTypeOK'
    BY <1>1, <1>4, <1>6 DEF FeedInv, FeedTypeOK, Call, Screen, Row, Position, Top
  <1>8. CallRows'
    BY <1>1, <1>4, <1>5 DEF CallRows
  <1>9. ScreenRows'
    BY <1>1, <1>5, <1>6 DEF ScreenRows, Top
  <1>10. ScreensFollow'
    <2> SUFFICES ASSUME NEW s \in Sockets, NEW m \in RowsThere,
                        bySocket[s] # Nobody, screen[s].at # "unopened", DueOn(s, m)'
                 PROVE  m \in screen'[s].shown
                          \/ (screen[s].at = "paging" /\ Before(m, screen[s].cursor))
      BY <1>1, <1>5, <1>6 DEF ScreensFollow, Before, PositionOf
    <2>1. CASE m = n
      <3>1. rows[n].for = RoleOf[bySocket[s]]
        BY <1>1, <2>1 DEF DueOn
      <3>2. Reaches({rows[n].for}, s)
        BY <3>1 DEF Reaches, RoomsOf
      <3> QED
        BY <1>6, <2>1, <3>2
    <2>2. CASE m # n
      <3>1. \A e \in Events : call[e].fresh # m
        BY <1>4, <2>2 DEF DueOn
      <3>2. DueOn(s, m)
        BY <1>1, <1>6, <3>1 DEF DueOn
      <3> QED
        BY <1>6, <3>2, <1>1 DEF ScreensFollow
    <2> QED
      BY <2>1, <2>2
  <1> QED
    BY <1>5, <1>7, <1>8, <1>9, <1>10 DEF FeedInv

\* What of a page is shown, and where it ends.
LEMMA PageOfNewest ==
  ASSUME rows \in [RowIds -> Row \cup {None}], IsFiniteSet(RowsThere),
         NEW found \in SUBSET RowsThere,
         NEW page, page = Newest(found, PageSize), page # found,
         NEW last, last = CHOOSE n \in page : \A m \in page : m = n \/ Older(n, m)
  PROVE  /\ page \subseteq found /\ last \in page /\ PositionOf(last) \in Position
         /\ \A n \in found \ page : Before(n, PositionOf(last))
  <1> DEFINE position == [n \in RowsThere |-> PositionOf(n)]
             stamp    == [n \in RowsThere |-> rows[n].at]
  <1>1. RowIds \in SUBSET Nat /\ RowsThere \in SUBSET RowIds
    BY NotificationAssumption DEF RowsThere
  <1>2. \A n \in RowsThere : rows[n] \in Row /\ stamp[n] \in 0 .. MaxStamp
    BY DEF RowsThere, Row
  <1>3. position = [n \in RowsThere |-> <<stamp[n], n>>]
    BY DEF PositionOf
  <1>4. \A n \in RowsThere : position[n] = PositionOf(n)
    OBVIOUS
  <1> HIDE DEF position, stamp
  <1>5. /\ Keyed(position) /\ DOMAIN position = RowsThere
        /\ \A n \in RowsThere : position[n] \in (0 .. MaxStamp) \X RowIds
    BY <1>1, <1>2, <1>3, RowsAreKeyed
  <1> DEFINE rank(n) == Above(n, found, position)
             size == Cardinality(found)
  <1>6. /\ size \in Nat
        /\ \A x \in found : rank(x) \in 0 .. size - 1
        /\ \A x, y \in found : Precedes(position[x], position[y]) => rank(y) < rank(x)
        /\ \A i \in 0 .. size - 1 : \E x \in found : rank(x) = i
    BY <1>5, EachRowHasItsRank
  <1>7. page = {n \in found : rank(n) < PageSize}
    <2>1. \A n \in found : {m \in found : Older(n, m)}
                             = {y \in found : Precedes(position[n], position[y])}
      BY <1>4 DEF Older
    <2> QED
      BY <2>1 DEF Newest, Above
  <1> HIDE DEF rank, size
  <1>8. PageSize \in Nat \ {0} /\ PageSize - 1 \in 0 .. size - 1
    <2>1. PICK x \in found : ~(rank(x) < PageSize)
      BY <1>7
    <2> QED
      BY <2>1, <1>6, NotificationAssumption
  <1>9. \A x \in found : position[x] \in Nat \X Nat
    <2>1. 0 .. MaxStamp \subseteq Nat
      BY NotificationAssumption
    <2> QED
      BY <1>1, <1>5, <2>1
  <1>10. ASSUME NEW x \in found, NEW y \in found, rank(x) > rank(y)
         PROVE  Precedes(position[x], position[y])
    <2>1. rank(x) \in Int /\ rank(y) \in Int
      BY <1>6
    <2>2. ~Precedes(position[y], position[x]) /\ x # y
      BY <1>6, <1>10, <2>1
    <2>3. position[x] # position[y]
      BY <2>2, <1>5 DEF Keyed
    <2> QED
      BY <1>9, <2>2, <2>3, PrecedesIsAnOrder
  <1>11. PICK z \in found : rank(z) = PageSize - 1
    BY <1>6, <1>8
  <1>12. z \in page
    BY <1>7, <1>8, <1>11
  <1>13. ASSUME NEW m \in page
         PROVE  m = z \/ Older(z, m)
    <2>1. m \in found /\ rank(m) < PageSize /\ rank(m) \in Int
      BY <1>6, <1>7
    <2>2. CASE rank(m) < rank(z)
      BY <2>1, <2>2, <1>10, <1>4 DEF Older
    <2>3. CASE rank(m) = rank(z)
      <3>1. rank(z) \in Int /\ ~Precedes(position[m], position[z])
             /\ ~Precedes(position[z], position[m])
        BY <2>1, <2>3, <1>6
      <3>2. position[m] = position[z]
        BY <2>1, <3>1, <1>9, PrecedesIsAnOrder
      <3> QED
        BY <2>1, <3>2, <1>5 DEF Keyed
    <2> QED
      BY <2>1, <2>2, <2>3, <1>8, <1>11
  <1>14. last \in page /\ \A m \in page : m = last \/ Older(last, m)
    BY <1>12, <1>13
  <1>15. PositionOf(last) \in Position
    BY <1>4, <1>5, <1>7, <1>14 DEF Position
  <1>16. ASSUME NEW n \in found \ page
         PROVE  Before(n, PositionOf(last))
    <2>1. rank(n) > rank(last) /\ last \in found
      BY <1>6, <1>7, <1>8, <1>14
    <2> QED
      BY <2>1, <1>10, <1>4 DEF Before
  <1> QED
    BY <1>7, <1>14, <1>15, <1>16

LEMMA ScreenFetches ==
  ASSUME FeedInv, NEW s \in Sockets, UNCHANGED <<place, bySocket>>, FetchPage(s)
  PROVE  FeedInv'
  <1> DEFINE found == Matching(RoleOf[bySocket[s]], screen[s].unreadOnly, screen[s].cursor)
             page  == Newest(found, PageSize)
             last  == CHOOSE n \in page : \A m \in page : m = n \/ Older(n, m)
  <1>1. /\ UNCHANGED <<call, rows, now, mark>> /\ bySocket[s] # Nobody
        /\ screen[s].at = "paging"
        /\ screen' = [screen EXCEPT
             ![s].shown = @ \cup page,
             ![s].at = IF page = found THEN "end" ELSE "paging",
             ![s].cursor = IF page = found THEN @ ELSE PositionOf(last)]
    BY DEF FetchPage
  <1>2. /\ rows \in [RowIds -> Row \cup {None}] /\ screen \in [Sockets -> Screen]
        /\ ScreenRows /\ ScreensFollow /\ CallRows /\ IsFiniteSet(RowsThere)
    BY FeedTypes DEF FeedInv
  <1>3. found \in SUBSET RowsThere /\ page \subseteq found
    BY DEF Matching, RowsThere, Newest
  <1>4. page # found =>
          /\ last \in page /\ PositionOf(last) \in Position
          /\ \A n \in found \ page : Before(n, PositionOf(last))
    <2> HIDE DEF found
    <2> QED
      BY <1>2, <1>3, PageOfNewest
  <1>5. \A n \in RowsThere :
          n \in found <=> /\ rows[n].for = RoleOf[bySocket[s]]
                          /\ screen[s].unreadOnly => rows[n].read = None
                          /\ Before(n, screen[s].cursor)
    BY DEF Matching, RowsThere
  <1>6. RowsThere \subseteq RowIds
    BY DEF RowsThere
  <1> HIDE DEF found, page, last
  <1> DEFINE next == [screen[s] EXCEPT
                        !.shown = @ \cup page,
                        !.at = IF page = found THEN "end" ELSE "paging",
                        !.cursor = IF page = found THEN @ ELSE PositionOf(last)]
  <1>7. screen' = [screen EXCEPT ![s] = next]
    BY <1>1, <1>2
  <1>8. /\ next \in Screen /\ next.shown = screen[s].shown \cup page
        /\ next.at = (IF page = found THEN "end" ELSE "paging")
        /\ next.cursor = (IF page = found THEN screen[s].cursor ELSE PositionOf(last))
        /\ next.unreadOnly = screen[s].unreadOnly
    <2>1. screen[s] \in Screen
      BY <1>2
    <2> QED
      BY <1>3, <1>4, <1>6, <2>1 DEF Screen
  <1> HIDE DEF next
  <1>9. /\ screen'[s] = next /\ screen' \in [Sockets -> Screen]
        /\ \A t \in Sockets \ {s} : screen'[t] = screen[t]
    BY <1>2, <1>7, <1>8
  <1>10. RowsThere' = RowsThere
    BY <1>1 DEF RowsThere
  <1>11. FeedTypeOK'
    BY <1>1, <1>9 DEF FeedInv, FeedTypeOK, Screen, Row, Position, Top
  <1>12. CallRows'
    BY <1>1, <1>2, <1>10 DEF CallRows
  <1>13. ScreenRows'
    <2> SUFFICES ASSUME NEW t \in Sockets
                 PROVE  /\ screen'[t].shown \subseteq RowsThere
                        /\ mark[t] # None => mark[t] \in RowsThere
                        /\ screen'[t].at # "unopened" => place[t] = "done"
                        /\ screen'[t].at = "unopened" => screen'[t].cursor = Top
      BY <1>1, <1>10 DEF ScreenRows, Top
    <2>1. CASE t = s
      BY <1>1, <1>2, <1>3, <1>8, <1>9, <2>1 DEF ScreenRows
    <2>2. CASE t # s
      BY <1>2, <1>9, <2>2 DEF ScreenRows
    <2> QED
      BY <2>1, <2>2
  <1>14. ScreensFollow'
    <2> SUFFICES ASSUME NEW t \in Sockets, NEW m \in RowsThere,
                        bySocket[t] # Nobody, screen'[t].at # "unopened", DueOn(t, m)'
                 PROVE  m \in screen'[t].shown
                          \/ (screen'[t].at = "paging" /\ Before(m, screen'[t].cursor))
      BY <1>1, <1>10 DEF ScreensFollow, Before, PositionOf
    <2>1. DueOn(t, m)
      BY <1>1, <1>8, <1>9 DEF DueOn
    <2>2. CASE t = s
      <3>1. m \in screen[s].shown \/ Before(m, screen[s].cursor)
        BY <1>1, <1>2, <2>1, <2>2 DEF ScreensFollow
      <3>2. CASE m \in found \ page
        <4>1. page # found
          BY <3>2
        <4>2. Before(m, PositionOf(last))
          BY <1>4, <3>2, <4>1
        <4> QED
          BY <1>8, <1>9, <2>2, <4>1, <4>2
      <3>3. CASE m \in page \/ m \in screen[s].shown
        BY <1>8, <1>9, <2>2, <3>3
      <3>4. m \in screen[s].shown \/ m \in found
        BY <1>5, <2>1, <2>2, <3>1 DEF DueOn
      <3> QED
        BY <3>2, <3>3, <3>4
    <2>3. CASE t # s
      BY <1>2, <1>9, <2>1, <2>3 DEF ScreensFollow
    <2> QED
      BY <2>2, <2>3
  <1> QED
    BY <1>2, <1>10, <1>11, <1>12, <1>13, <1>14 DEF FeedInv

LEMMA ScreenOpens ==
  ASSUME FeedInv, PresenceInv, NEW s \in Sockets, NEW unreadOnly \in BOOLEAN,
         UNCHANGED <<place, bySocket>>, Open(s, unreadOnly)
  PROVE  FeedInv'
  <1>1. /\ rows \in [RowIds -> Row \cup {None}] /\ screen \in [Sockets -> Screen]
        /\ ScreenRows /\ ScreensFollow /\ CallRows /\ IsFiniteSet(RowsThere)
        /\ screen[s].cursor = Top /\ place[s] = "done"
        /\ UNCHANGED <<call, rows, now, mark>>
    BY FeedTypes DEF FeedInv, Open, ScreenRows, PresenceInv, RegisteredAreDone
  <1> DEFINE next == [screen[s] EXCEPT !.at = "paging", !.unreadOnly = unreadOnly]
  <1>2. screen' = [screen EXCEPT ![s] = next]
    BY <1>1 DEF Open
  <1>3. /\ next \in Screen /\ next.at = "paging" /\ next.cursor = Top
        /\ next.shown = screen[s].shown
    BY <1>1 DEF Screen
  <1> HIDE DEF next
  <1>4. /\ screen'[s] = next /\ screen' \in [Sockets -> Screen]
        /\ \A t \in Sockets \ {s} : screen'[t] = screen[t]
    BY <1>1, <1>2, <1>3
  <1>5. RowsThere' = RowsThere
    BY <1>1 DEF RowsThere
  <1>6. FeedTypeOK'
    BY <1>1, <1>4 DEF FeedInv, FeedTypeOK, Screen, Row, Position, Top
  <1>7. CallRows'
    BY <1>1, <1>5 DEF CallRows
  <1>8. ScreenRows'
    <2>1. /\ screen'[s].shown \subseteq RowsThere /\ screen'[s].at # "unopened"
      BY <1>1, <1>3, <1>4 DEF ScreenRows
    <2> QED
      BY <1>1, <1>4, <1>5, <2>1 DEF ScreenRows, Top
  <1>9. ScreensFollow'
    <2> SUFFICES ASSUME NEW t \in Sockets, NEW m \in RowsThere,
                        bySocket[t] # Nobody, screen'[t].at # "unopened", DueOn(t, m)'
                 PROVE  m \in screen'[t].shown
                          \/ (screen'[t].at = "paging" /\ Before(m, screen'[t].cursor))
      BY <1>1, <1>5 DEF ScreensFollow, Before, PositionOf
    <2>1. CASE t = s
      <3>1. m \in RowIds /\ rows[m] \in Row /\ rows[m].at \in 0 .. MaxStamp /\ m \in Nat
        BY <1>1, NotificationAssumption DEF RowsThere, Row
      <3>2. Precedes(<<rows[m].at, m>>, Top)
        BY <3>1, TopIsAbove
      <3> QED
        BY <1>3, <1>4, <2>1, <3>2 DEF Before, PositionOf
    <2>2. CASE t # s
      <3>1. DueOn(t, m)
        BY <1>1, <1>4, <2>2 DEF DueOn
      <3> QED
        BY <1>1, <1>4, <2>2, <3>1 DEF ScreensFollow
    <2> QED
      BY <2>1, <2>2
  <1> QED
    BY <1>1, <1>5, <1>6, <1>7, <1>8, <1>9 DEF FeedInv

LEMMA RowIsRead ==
  ASSUME FeedInv, NEW s \in Sockets, UNCHANGED <<place, bySocket>>, CommitRead(s)
  PROVE  FeedInv'
  <1> DEFINE n == mark[s]
  <1>1. /\ rows \in [RowIds -> Row \cup {None}] /\ now \in 0 .. MaxStamp /\ now # None
        /\ mark \in [Sockets -> RowIds \cup {None}]
        /\ ScreenRows /\ ScreensFollow /\ CallRows /\ IsFiniteSet(RowsThere)
        /\ UNCHANGED <<call, now, screen>> /\ n \in RowsThere /\ n \in RowIds
    BY FeedTypes, NotificationAssumption DEF FeedInv, CommitRead, ScreenRows, RowsThere
  <1>2. /\ rows' = IF StillUnread(n) THEN [rows EXCEPT ![n].read = now] ELSE rows
        /\ mark' = [mark EXCEPT ![s] = None]
    BY DEF CommitRead
  <1> HIDE DEF n
  <1>3. /\ rows' \in [RowIds -> Row \cup {None}]
        /\ \A m \in RowIds \ {n} : rows'[m] = rows[m]
        /\ rows'[n] # None /\ rows'[n].for = rows[n].for /\ rows'[n].at = rows[n].at
        /\ rows'[n].read = None => rows[n].read = None
    <2>1. rows[n] \in Row /\ rows[n] # None
      BY <1>1 DEF RowsThere
    <2>2. CASE StillUnread(n)
      <3> DEFINE c == [rows[n] EXCEPT !.read = now]
      <3>1. rows' = [rows EXCEPT ![n] = c]
        BY <1>1, <1>2, <2>2
      <3>2. c \in Row /\ c.for = rows[n].for /\ c.at = rows[n].at /\ c.read = now
        BY <1>1, <2>1 DEF Row
      <3> HIDE DEF c
      <3> QED
        BY <1>1, <3>1, <3>2, RowAssumption
    <2>3. CASE ~StillUnread(n)
      BY <1>1, <1>2, <2>1, <2>3
    <2> QED
      BY <2>2, <2>3
  <1>4. /\ RowsThere' = RowsThere
        /\ \A m \in RowsThere : /\ rows'[m].for = rows[m].for /\ rows'[m].at = rows[m].at
                                /\ rows'[m].read = None => rows[m].read = None
    BY <1>1, <1>3 DEF RowsThere
  <1>5. FeedTypeOK'
    BY <1>1, <1>2, <1>3 DEF FeedInv, FeedTypeOK, Row, Position, Top
  <1>6. CallRows'
    BY <1>1, <1>4 DEF CallRows
  <1>7. ScreenRows'
    BY <1>1, <1>2, <1>4 DEF ScreenRows, Top
  <1>8. ScreensFollow'
    <2> SUFFICES ASSUME NEW t \in Sockets, NEW m \in RowsThere,
                        bySocket[t] # Nobody, screen[t].at # "unopened", DueOn(t, m)'
                 PROVE  m \in screen[t].shown
                          \/ (screen[t].at = "paging" /\ Before(m, screen[t].cursor))
      BY <1>1, <1>4 DEF ScreensFollow, Before, PositionOf
    <2>1. DueOn(t, m)
      BY <1>1, <1>4 DEF DueOn
    <2> QED
      BY <1>1, <2>1 DEF ScreensFollow
  <1> QED
    BY <1>1, <1>4, <1>5, <1>6, <1>7, <1>8 DEF FeedInv

LEMMA FeedsStep ==
  ASSUME FeedInv, PresenceInv, UNCHANGED <<place, bySocket>>, FeedStep
  PROVE  FeedInv'
  <1>1. ASSUME NEW s \in Sockets, NEW n \in RowIds, BeginRead(s, n)
        PROVE  FeedInv'
    <2>1. /\ mark' = [mark EXCEPT ![s] = n] /\ UNCHANGED <<call, rows, now, screen>>
          /\ n \in RowsThere
      BY <1>1 DEF BeginRead, FeedInv, ScreenRows
    <2>2. RowsThere' = RowsThere
      BY <2>1 DEF RowsThere
    <2>3. FeedTypeOK'
      BY <2>1 DEF FeedInv, FeedTypeOK, Row, Position, Top
    <2>4. ScreenRows'
      BY <2>1, <2>2 DEF FeedInv, FeedTypeOK, ScreenRows, Top
    <2> QED
      BY <2>1, <2>2, <2>3, <2>4
      DEF FeedInv, CallRows, ScreensFollow, DueOn, Before, PositionOf
  <1>2. ASSUME Tick
        PROVE  FeedInv'
    <2>1. UNCHANGED <<call, rows, screen, mark>> /\ now' \in 0 .. MaxStamp
      BY <1>2, NotificationAssumption DEF Tick, FeedInv, FeedTypeOK
    <2>2. RowsThere' = RowsThere
      BY <2>1 DEF RowsThere
    <2>3. FeedTypeOK'
      BY <2>1 DEF FeedInv, FeedTypeOK, Row, Position, Top
    <2> QED
      BY <2>1, <2>2, <2>3
      DEF FeedInv, CallRows, ScreenRows, ScreensFollow, DueOn, Before, PositionOf, Top
  <1>3. ASSUME NEW ev \in Events, Emit(ev) \/ ListenerStep(ev)
        PROVE  FeedInv'
    BY <1>3, CallMoves, RowIsInserted, RowIsDelivered DEF ListenerStep
  <1>4. ASSUME NEW s \in Sockets, FetchPage(s) \/ CommitRead(s)
        PROVE  FeedInv'
    BY <1>4, ScreenFetches, RowIsRead
  <1> QED
    BY <1>1, <1>2, <1>3, <1>4, ScreenOpens DEF FeedStep

\* Connections come and go; who is registered was not before, or is still.
LEMMA PresenceMoves ==
  ASSUME PresenceInv, [Next]_vars, NEW s \in Sockets
  PROVE  /\ place[s] = "done" => place'[s] = "done"
         /\ bySocket'[s] # Nobody => bySocket'[s] = bySocket[s] \/ place[s] # "done"
  <1>1. CASE UNCHANGED vars
    BY <1>1 DEF vars
  <1>2. ASSUME NEW t \in Sockets, Connect(t)
        PROVE  /\ place[s] = "done" => place'[s] = "done"
               /\ bySocket'[s] = bySocket[s]
    BY <1>2 DEF Connect, registryVars, PresenceInv, TypeOK
  <1>3. ASSUME NEW t \in Sockets, Unregister(t)
        PROVE  bySocket'[s] # Nobody => bySocket'[s] = bySocket[s]
    <2>1. bySocket' = [bySocket EXCEPT ![t] = Nobody]
      BY <1>3, UnregisterKeepsMaps
    <2> QED
      BY <2>1 DEF PresenceInv, TypeOK
  <1>4. ASSUME NEW t \in Sockets, Verify(t)
        PROVE  /\ place[s] = "done" => place'[s] = "done"
               /\ bySocket'[s] # Nobody => bySocket'[s] = bySocket[s]
    <2>1. bySocket'[s] # Nobody => bySocket'[s] = bySocket[s]
      BY <1>3, <1>4 DEF Verify, registryVars
    <2> QED
      BY <1>4, <2>1 DEF Verify, PresenceInv, TypeOK
  <1>5. ASSUME NEW t \in Sockets, Register(t)
        PROVE  /\ place[s] = "done" => place'[s] = "done"
               /\ bySocket'[s] # Nobody => bySocket'[s] = bySocket[s] \/ place[s] # "done"
    BY <1>5 DEF Register, registryVars, PresenceInv, TypeOK
  <1>6. ASSUME NEW t \in Sockets, Disconnect(t)
        PROVE  /\ place' = place
               /\ bySocket'[s] # Nobody => bySocket'[s] = bySocket[s]
    BY <1>3, <1>6 DEF Disconnect
  <1> QED
    BY <1>1, <1>2, <1>4, <1>5, <1>6 DEF Next

LEMMA FeedKeepsWithPresence ==
  ASSUME FeedInv, UNCHANGED feedVars,
         \A s \in Sockets :
           /\ place[s] = "done" => place'[s] = "done"
           /\ bySocket'[s] # Nobody => bySocket'[s] = bySocket[s] \/ place[s] # "done"
  PROVE  FeedInv'
  <1>1. UNCHANGED <<call, rows, now, screen, mark>>
    BY DEF feedVars
  <1>2. RowsThere' = RowsThere
    BY <1>1 DEF RowsThere
  <1>3. FeedTypeOK' /\ CallRows' /\ IsFiniteSet(RowsThere)'
    BY <1>1, <1>2 DEF FeedInv, FeedTypeOK, CallRows, Row, Position, Top
  <1>4. ScreenRows'
    BY <1>1, <1>2 DEF FeedInv, ScreenRows, Top
  <1>5. ScreensFollow'
    <2> SUFFICES ASSUME NEW s \in Sockets, NEW m \in RowsThere,
                        bySocket'[s] # Nobody, screen[s].at # "unopened", DueOn(s, m)'
                 PROVE  m \in screen[s].shown
                          \/ (screen[s].at = "paging" /\ Before(m, screen[s].cursor))
      BY <1>1, <1>2 DEF ScreensFollow, Before, PositionOf
    <2>1. place[s] = "done"
      BY DEF FeedInv, ScreenRows
    <2>2. bySocket'[s] = bySocket[s]
      BY <2>1
    <2>3. DueOn(s, m)
      BY <1>1, <2>2 DEF DueOn
    <2> QED
      BY <2>2, <2>3 DEF FeedInv, ScreensFollow
  <1> QED
    BY <1>3, <1>4, <1>5 DEF FeedInv

\* After a restart nobody is there to be shown anything.
LEMMA RestartKeeps ==
  ASSUME PresenceInv, FeedInv, ListInv, Restart
  PROVE  PresenceInv' /\ FeedInv' /\ ListInv'
  <1>1. /\ place' = [s \in Sockets |-> IF place[s] = "new" THEN "new" ELSE "done"]
        /\ connected' = [s \in Sockets |-> FALSE]
        /\ bySocket' = [s \in Sockets |-> Nobody]
        /\ sockets' = [e \in Employees |-> {}]
        /\ emission' = {} /\ shown' = [e \in Employees |-> FALSE]
        /\ mark' = [s \in Sockets |-> None]
        /\ UNCHANGED <<employee, rows, now, screen, listVars>>
    BY DEF Restart
  <1>2. PresenceInv'
    BY <1>1, NobodyAssumption
    DEF PresenceInv, TypeOK, Places, RegisteredAreDone, MapsAgree, OnlineMeansConnected,
        OwnersSeePresence, IsOnline
  <1>3. /\ call' \in [Events -> Call]
        /\ \A ev \in Events :
             /\ call'[ev].at \notin {"rereading", "inserting", "announcing"}
             /\ call'[ev].fresh = None
    <2>1. call \in [Events -> Call] /\ CallRows
      BY FeedTypes DEF FeedInv
    <2>2. <<>> \in Seq(StaffRoles)
      OBVIOUS
    <2> DEFINE lost == [at |-> "lost", todo |-> <<>>, fresh |-> None]
    <2>3. lost \in Call /\ lost.at = "lost" /\ lost.fresh = None
      BY <2>2 DEF Call
    <2> HIDE DEF lost
    <2>4. call' = [ev \in Events |->
                     IF call[ev].at \in {"unborn", "done", "failed"} THEN call[ev] ELSE lost]
      BY DEF Restart, lost
    <2> QED
      BY <2>1, <2>3, <2>4 DEF CallRows
  <1>4. RowsThere' = RowsThere
    BY <1>1 DEF RowsThere
  <1>5. FeedInv'
    <2>1. FeedTypeOK'
      BY <1>1, <1>3 DEF FeedInv, FeedTypeOK, Call, Row, Position, Top
    <2>2. CallRows'
      BY <1>3 DEF CallRows
    <2>3. ScreenRows'
      BY <1>1, <1>4 DEF FeedInv, ScreenRows, Top
    <2>4. ScreensFollow'
      BY <1>1 DEF ScreensFollow
    <2> QED
      BY <1>4, <2>1, <2>2, <2>3, <2>4 DEF FeedInv
  <1>6. ListInv'
    BY <1>1, ListsStep DEF FeedInv, FeedTypeOK
  <1> QED
    BY <1>2, <1>5, <1>6

ScreensInv == PresenceInv /\ FeedInv /\ ListInv

LEMMA ScreensStart == AllInit => ScreensInv
  BY PresenceInit, FeedInits, ListsInit DEF AllInit, ScreensInv

LEMMA ScreensKeep == ScreensInv /\ [AllNext]_allVars => ScreensInv'
  <1> SUFFICES ASSUME PresenceInv, FeedInv, ListInv, [AllNext]_allVars
               PROVE  ScreensInv'
    BY DEF ScreensInv
  <1>1. now \in 0 .. MaxStamp
    BY DEF FeedInv, FeedTypeOK
  <1>2. CASE (Next /\ UNCHANGED <<feedVars, listVars>>) \/ UNCHANGED allVars
    <2>1. [Next]_vars /\ UNCHANGED feedVars /\ UNCHANGED listVars
      BY <1>2 DEF allVars
    <2>2. FeedInv'
      BY <2>1, PresenceMoves, FeedKeepsWithPresence
    <2> QED
      BY <1>1, <2>1, <2>2, PresenceStep, ListsStep DEF ScreensInv
  <1>3. ASSUME Silent, UNCHANGED presenceVars
        PROVE  PresenceInv' /\ UNCHANGED <<place, bySocket>>
    BY <1>3
    DEF Silent, presenceVars, registryVars, PresenceInv, TypeOK, Places, RegisteredAreDone,
        MapsAgree, OnlineMeansConnected, OwnersSeePresence, IsOnline
  <1>4. CASE FeedStep /\ Silent /\ UNCHANGED <<presenceVars, listVars>>
    <2>1. PresenceInv' /\ UNCHANGED <<place, bySocket>>
      BY <1>3, <1>4
    <2>2. FeedInv'
      BY <1>4, <2>1, FeedsStep
    <2>3. ListInv'
      BY <1>1, <1>4, ListsStep
    <2> QED
      BY <2>1, <2>2, <2>3 DEF ScreensInv
  <1>5. CASE ListStep /\ Silent /\ UNCHANGED <<presenceVars, feedVars>>
    <2>1. PresenceInv' /\ UNCHANGED <<place, bySocket>>
      BY <1>3, <1>5
    <2>2. FeedInv'
      BY <1>5, <2>1, FeedKeepsWithPresence
    <2>3. ListInv'
      BY <1>1, <1>5, ListsStep
    <2> QED
      BY <2>1, <2>2, <2>3 DEF ScreensInv
  <1>6. CASE Restart
    BY <1>6, RestartKeeps DEF ScreensInv
  <1> QED
    BY <1>2, <1>4, <1>5, <1>6 DEF AllNext

\* The invariant of the staff's side, restarts included.
THEOREM ScreensInvariant == AllSpec => []ScreensInv
  BY ScreensStart, ScreensKeep, PTL DEF AllSpec

\* Every row, call, cursor and page of the staff's side is of its type.
THEOREM ScreenTypes == AllSpec => [](TypeOK /\ FeedTypeOK /\ ListTypeOK)
  <1>1. ScreensInv => TypeOK /\ FeedTypeOK /\ ListTypeOK
    BY DEF ScreensInv, PresenceInv, FeedInv, ListInv
  <1> QED
    BY <1>1, ScreensInvariant, PTL

\* PresenceIsTrue, over restarts of the server too.
THEOREM PresenceSurvivesRestarts == AllSpec => []PresenceIsTrue
  <1>1. ScreensInv => PresenceIsTrue
    BY DEF ScreensInv, PresenceInv, PresenceIsTrue
  <1> QED
    BY <1>1, ScreensInvariant, PTL

\* ListsAreComplete: whoever pages to the end of GET /notifications, GET /orders or
\* GET /audit-log has been given all that was there, however rows arrive between
\* two pages and whichever of them share a millisecond.
THEOREM ListsAreAlwaysComplete == AllSpec => []ListsAreComplete
  <1>1. ASSUME ScreensInv
        PROVE  NotificationsAreComplete
    <2> SUFFICES ASSUME NEW s \in Sockets, bySocket[s] # Nobody, screen[s].at = "end",
                        NEW n \in Matching(RoleOf[bySocket[s]], screen[s].unreadOnly, Top),
                        \A ev \in Events : call[ev].fresh # n
                 PROVE  n \in screen[s].shown
      BY DEF NotificationsAreComplete
    <2>1. n \in RowsThere /\ DueOn(s, n)
      BY DEF Matching, RowsThere, DueOn
    <2> QED
      BY <1>1, <2>1 DEF ScreensInv, FeedInv, ScreensFollow
  <1>2. ScreensInv => ListsAreComplete
    BY <1>1, PagedIsComplete DEF ScreensInv, ListsAreComplete
  <1> QED
    BY <1>2, ScreensInvariant, PTL
=============================================================================
