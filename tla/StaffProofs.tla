----------------------------- MODULE StaffProofs -----------------------------
(***************************************************************************)
(* Onboarding, sign-in and the guards of Staff for any number of           *)
(* employees, invitations, devices and requests.  StaffRows says that rows *)
(* and suspended handlers point to rows that are there; on it rest four    *)
(* invariants, and the fact that revocations stay.                         *)
(***************************************************************************)
EXTENDS Staff, FiniteSetTheorems, TLAPS

-----------------------------------------------------------------------------
(***************************************************************************)
(* Rows and slots.                                                         *)
(***************************************************************************)
RowTypes ==
  /\ employee \in [Employees -> Employee \cup {None}]
  /\ invitation \in [Invitations -> Invitation \cup {None}]
  /\ device \in [Devices -> Device \cup {None}]
  /\ lock \in [Employees -> LockState]
  /\ passes \subseteq Employees \X Roles
  /\ issuers \in [Employees -> Nat]
  /\ together \in [Invitations -> Nat]
  /\ tried \in [Employees -> Nat]

SlotTypes == req \in [Requests -> Suspended \cup {Idle}]

\* The row a handler goes on with was read before, and rows are never deleted.
Grounded(r) ==
  /\ r.at \in {"look", "replace", "reset"} => Hired(r.employee)
  /\ r.at = "replace" => \A i \in r.old : Issued(i)
  /\ r.at \in {"withdraw", "accept", "expire"} => Issued(r.invitation)
  /\ r.at = "renew" => device[r.device] # None

IssuedToHired == \A i \in Invitations : Issued(i) => Hired(invitation[i].to)

StaffRows ==
  /\ RowTypes
  /\ SlotTypes
  /\ IssuedToHired
  /\ \A q \in Requests : Grounded(req[q])

LEMMA RequestShapes ==
  ASSUME NEW r \in Suspended \cup {Idle}
  PROVE  /\ r.at = "look" => r \in LookRequest
         /\ r.at = "replace" => r \in ReplaceRequest
         /\ r.at = "withdraw" => r \in WithdrawRequest
         /\ r.at = "accept" => r \in AcceptRequest
         /\ r.at = "expire" => r \in ExpireRequest
         /\ r.at = "renew" => r \in RenewRequest
         /\ r.at = "verify" => r \in VerifyRequest
         /\ r.at = "login" => r \in LoginRequest
         /\ r.at = "reset" => r \in ResetRequest
         /\ r.at \in {"call", "acting"} => r \in CallRequest
  BY DEF Suspended, Idle, LookRequest, ReplaceRequest, WithdrawRequest, AcceptRequest,
         ExpireRequest, RenewRequest, VerifyRequest, LoginRequest, ResetRequest, CallRequest

\* What each place in a handler holds.
LEMMA SlotShapes ==
  ASSUME StaffRows, NEW q \in Requests
  PROVE  /\ req[q] \in Suspended \cup {Idle}
         /\ At(q, "look") => req[q].employee \in Employees
         /\ At(q, "replace") => req[q] \in ReplaceRequest
         /\ At(q, "withdraw") => req[q].invitation \in Invitations
         /\ At(q, "accept") => req[q].invitation \in Invitations /\ req[q].role \in Roles
         /\ At(q, "expire") => req[q].invitation \in Invitations
         /\ At(q, "renew") => /\ req[q].device \in Devices
                              /\ req[q].employee \in Employees \cup {None}
         /\ At(q, "verify") => req[q].employee \in Employees /\ req[q].role \in Roles
         /\ At(q, "login") => req[q].employee \in Employees /\ req[q].role \in Roles
         /\ At(q, "reset") => req[q].employee \in Employees
         /\ At(q, "call") \/ At(q, "acting") => req[q] \in CallRequest
  <1>1. req[q] \in Suspended \cup {Idle}
    BY DEF StaffRows, SlotTypes
  <1> QED
    BY <1>1, RequestShapes
    DEF At, LookRequest, ReplaceRequest, WithdrawRequest, AcceptRequest,
        ExpireRequest, RenewRequest, VerifyRequest, LoginRequest, ResetRequest

\* The requests in some state are as many as some number.
LEMMA RequestCounts ==
  ASSUME NEW S \in SUBSET Requests
  PROVE  IsFiniteSet(S) /\ Cardinality(S) \in Nat
  BY FS_Subset, FS_CardinalityType, LockoutAssumption

LEMMA AtLeastBoth ==
  ASSUME NEW m \in Nat, NEW n \in Nat
  PROVE  AtLeast(m, n) \in Nat /\ m <= AtLeast(m, n) /\ n <= AtLeast(m, n)
  BY DEF AtLeast

LEMMA SomeCounted ==
  /\ \A e : Cardinality(IssuersOf(e)) \in Nat
  /\ \A i : Cardinality(HoldersOf(i)) \in Nat
  <1>1. \A e : IssuersOf(e) \in SUBSET Requests
    BY DEF IssuersOf
  <1>2. \A i : HoldersOf(i) \in SUBSET Requests
    BY DEF HoldersOf
  <1> QED
    BY <1>1, <1>2, RequestCounts

\* The histories only grow.
LEMMA IssuerNoted ==
  ASSUME RowTypes, NEW e \in Employees, NoteIssuer(e)
  PROVE  /\ issuers' \in [Employees -> Nat]
         /\ \A f \in Employees : issuers[f] <= issuers'[f]
         /\ Cardinality(IssuersOf(e)) + 1 <= issuers'[e]
  <1>1. PICK n \in Nat : n = Cardinality(IssuersOf(e)) + 1
    BY SomeCounted
  <1>2. issuers' = [issuers EXCEPT ![e] = AtLeast(@, n)]
    BY <1>1 DEF NoteIssuer
  <1>3. /\ issuers \in [Employees -> Nat]
        /\ AtLeast(issuers[e], n) \in Nat
        /\ issuers[e] <= AtLeast(issuers[e], n) /\ n <= AtLeast(issuers[e], n)
    BY AtLeastBoth DEF RowTypes
  <1> QED
    BY <1>1, <1>2, <1>3

LEMMA HolderNoted ==
  ASSUME RowTypes, NEW is \in SUBSET Invitations, NoteHolder(is)
  PROVE  /\ together' \in [Invitations -> Nat]
         /\ \A i \in Invitations : together[i] <= together'[i]
         /\ \A i \in is : Cardinality(HoldersOf(i)) + 1 <= together'[i]
  <1>1. ASSUME NEW i \in Invitations
        PROVE  /\ together'[i] \in Nat /\ together[i] <= together'[i]
               /\ i \in is => Cardinality(HoldersOf(i)) + 1 <= together'[i]
    <2>1. PICK n \in Nat : n = Cardinality(HoldersOf(i)) + 1
      BY SomeCounted
    <2>2. together'[i] = IF i \in is THEN AtLeast(together[i], n) ELSE together[i]
      BY <2>1 DEF NoteHolder
    <2>3. /\ together[i] \in Nat /\ AtLeast(together[i], n) \in Nat
          /\ together[i] <= AtLeast(together[i], n) /\ n <= AtLeast(together[i], n)
      BY AtLeastBoth DEF RowTypes
    <2> QED
      BY <2>1, <2>2, <2>3
  <1>2. together' = [i \in Invitations |-> together'[i]]
    BY DEF NoteHolder
  <1> QED
    BY <1>1, <1>2

\* No step deletes a row.
RowsStay ==
  /\ \A e \in Employees : Hired(e) => Hired(e)'
  /\ \A i \in Invitations : Issued(i) => Issued(i)'
  /\ \A d \in Devices : device[d] # None => device'[d] # None

LEMMA StaffInit == Init => StaffRows
  <1> SUFFICES ASSUME Init PROVE StaffRows
    OBVIOUS
  <1> USE StaffAssumption, RowAssumption
  <1>1. employee \in [Employees -> Employee \cup {None}]
    BY DEF Init, Employee
  <1>2. device \in [Devices -> Device \cup {None}]
    <2>1. \A e \in Seniors : NewDevice(e, None) \in Device
      BY DEF Device, NewDevice
    <2>2. device \in [Devices -> {NewDevice(e, None) : e \in Seniors} \cup {None}]
      BY DEF Init
    <2> QED
      BY <2>1, <2>2
  <1>3. RowTypes
    BY <1>1, <1>2 DEF Init, RowTypes, LockState, Unlocked
  <1>4. \A q \in Requests : req[q] = Idle
    BY DEF Init
  <1>5. SlotTypes /\ IssuedToHired /\ \A q \in Requests : Grounded(req[q])
    BY <1>4 DEF Init, SlotTypes, IssuedToHired, Issued, Grounded, Idle
  <1> QED
    BY <1>3, <1>5 DEF StaffRows

\* One handler goes on, with something it has found.
LEMMA SlotStep ==
  ASSUME StaffRows, RowTypes', IssuedToHired', RowsStay,
         NEW q \in Requests, NEW r \in Suspended \cup {Idle},
         req' = [req EXCEPT ![q] = r], Grounded(r)'
  PROVE  StaffRows'
  <1>1. SlotTypes'
    BY DEF StaffRows, SlotTypes
  <1>2. ASSUME NEW p \in Requests PROVE Grounded(req[p])'
    <2>1. CASE p = q
      <3>1. req'[p] = r
        BY <2>1 DEF StaffRows, SlotTypes
      <3> QED
        BY <3>1 DEF Grounded
    <2>2. CASE p # q
      <3>1. req'[p] = req[p] /\ Grounded(req[p])
        BY <2>2 DEF StaffRows, SlotTypes
      <3> QED
        BY <3>1, SlotShapes DEF Grounded, RowsStay, At, ReplaceRequest
    <2> QED
      BY <2>1, <2>2
  <1> QED
    BY <1>1, <1>2 DEF StaffRows

\* A device is inserted under an id that was free.
LEMMA InsertDeviceAddsOne ==
  ASSUME NEW e, NEW i, InsertDevice(e, i)
  PROVE  \E d \in Devices :
           device[d] = None /\ device' = [device EXCEPT ![d] = NewDevice(e, i)]
  BY DEF InsertDevice

LEMMA MarkKeepsRows ==
  ASSUME RowTypes, IssuedToHired, NEW i \in Invitations, Issued(i),
         NEW status \in {"accepted", "revoked", "expired"}, Mark(i, status)
  PROVE  /\ invitation' \in [Invitations -> Invitation \cup {None}]
         /\ \A j \in Invitations : Issued(j)' <=> Issued(j)
         /\ \A j \in Invitations : Issued(j) => invitation'[j].to = invitation[j].to
  BY RowAssumption DEF RowTypes, Mark, Issued, Invitation

LEMMA OnboardingRows ==
  ASSUME StaffRows, NEW q \in Requests, OnboardingStep(q)
  PROVE  StaffRows'
  <1> USE StaffAssumption, RowAssumption
  <1> DEFINE Goes(r) == /\ r \in Suspended \cup {Idle}
                        /\ req' = [req EXCEPT ![q] = r]
                        /\ Grounded(r)'
  <1> SUFFICES RowTypes' /\ IssuedToHired' /\ RowsStay /\ \E r : Goes(r)
    BY SlotStep
  <1>0. RowTypes /\ IssuedToHired /\ Grounded(req[q])
    BY DEF StaffRows
  <1>1. ASSUME NEW e \in Employees, NEW role \in Roles, BeginHire(q, e, role)
        PROVE  RowTypes' /\ IssuedToHired' /\ RowsStay /\ \E r : Goes(r)
    <2> DEFINE row == [role |-> role, active |-> TRUE, credentials |-> {}]
               r == [at |-> "look", employee |-> e]
    <2>1. row \in Employee
      BY DEF Employee
    <2>2. /\ employee' = [employee EXCEPT ![e] = row]
          /\ UNCHANGED <<invitation, sessionVars, together, tried>>
          /\ NoteIssuer(e)
          /\ req' = [req EXCEPT ![q] = r]
      BY <1>1 DEF BeginHire, Begin
    <2> HIDE DEF row
    <2>3. RowTypes' /\ RowsStay /\ employee'[e] # None
      BY <1>0, <2>1, <2>2, IssuerNoted
      DEF RowTypes, sessionVars, RowsStay, Hired, Issued
    <2>4. IssuedToHired'
      BY <1>0, <2>2, <2>3 DEF IssuedToHired, Issued, Hired, RowsStay, RowTypes, Invitation
    <2>5. Goes(r)
      BY <2>2, <2>3 DEF Suspended, LookRequest, Grounded, Hired
    <2> QED
      BY <2>3, <2>4, <2>5
  \* Those that only read, or only write the slot and the history.
  <1>2. ASSUME rosterVars' = rosterVars, sessionVars' = sessionVars,
               issuers' \in [Employees -> Nat], together' \in [Invitations -> Nat],
               tried' = tried
        PROVE  RowTypes' /\ IssuedToHired' /\ RowsStay
    BY <1>0, <1>2
    DEF rosterVars, sessionVars, RowTypes, IssuedToHired, RowsStay, Hired, Issued
  <1>3. \A is \in SUBSET Invitations :
          NoteHolder(is) => together' \in [Invitations -> Nat]
    BY <1>0, HolderNoted
  <1>4. ASSUME NEW i \in Invitations, Issued(i)
        PROVE  invitation[i].to \in Employees /\ Hired(invitation[i].to)
    BY <1>0, <1>4 DEF IssuedToHired, RowTypes, Invitation, Issued
  <1>5. ASSUME NEW i \in Invitations,
               \/ BeginReissue(q, i) \/ BeginRevoke(q, i)
               \/ BeginAccept(q, i) \/ BeginExpire(q, i)
        PROVE  RowTypes' /\ IssuedToHired' /\ RowsStay /\ \E r : Goes(r)
    <2>1. Issued(i)
      BY <1>5 DEF BeginReissue, BeginRevoke, BeginAccept, BeginExpire, Pending, Usable
    <2>2. /\ UNCHANGED <<rosterVars, sessionVars, tried>>
          /\ issuers' \in [Employees -> Nat] /\ together' \in [Invitations -> Nat]
      BY <1>0, <1>3, <1>4, <1>5, <2>1, IssuerNoted
      DEF BeginReissue, BeginRevoke, BeginAccept, BeginExpire, RowTypes
    <2>3. RowTypes' /\ IssuedToHired' /\ RowsStay
      BY <1>2, <2>2
    <2>4. employee[invitation[i].to].role \in Roles
      BY <1>0, <1>4, <2>1 DEF RowTypes, Employee, Hired
    <2>5. Issued(i)' /\ Hired(invitation[i].to)'
      BY <1>4, <2>1, <2>3, <2>2 DEF RowsStay, rosterVars
    <2>6. \/ \E reissue \in BOOLEAN :
               req' = [req EXCEPT ![q] = [at |-> "withdraw", invitation |-> i,
                                          reissue |-> reissue]]
          \/ req' = [req EXCEPT ![q] = [at |-> "look", employee |-> invitation[i].to]]
          \/ req' = [req EXCEPT ![q] = [at |-> "accept", invitation |-> i,
                                        role |-> employee[invitation[i].to].role]]
          \/ req' = [req EXCEPT ![q] = [at |-> "expire", invitation |-> i]]
      BY <1>5 DEF BeginReissue, BeginRevoke, BeginAccept, BeginExpire, Begin
    <2>7. \A reissue \in BOOLEAN :
            LET r == [at |-> "withdraw", invitation |-> i, reissue |-> reissue]
            IN r \in Suspended /\ Grounded(r)'
      BY <2>5 DEF Suspended, WithdrawRequest, Grounded
    <2>8. LET r == [at |-> "look", employee |-> invitation[i].to]
          IN r \in Suspended /\ Hired(r.employee)'
      BY <1>4, <2>1, <2>2, <2>5 DEF Suspended, LookRequest, rosterVars, Hired
    <2>9. LET r == [at |-> "accept", invitation |-> i,
                    role |-> employee[invitation[i].to].role]
          IN r \in Suspended
      BY <2>4 DEF Suspended, AcceptRequest
    <2>10. [at |-> "expire", invitation |-> i] \in Suspended
      BY DEF Suspended, ExpireRequest
    <2>11. \E r : Goes(r)
      <3>1. CASE \E reissue \in BOOLEAN :
               req' = [req EXCEPT ![q] = [at |-> "withdraw", invitation |-> i,
                                          reissue |-> reissue]]
        BY <2>7, <3>1
      <3>2. CASE req' = [req EXCEPT ![q] = [at |-> "look", employee |-> invitation[i].to]]
        <4>1. PICK e : e = invitation[i].to
          OBVIOUS
        <4>2. Goes([at |-> "look", employee |-> e])
          BY <1>4, <2>1, <2>3, <2>8, <3>2, <4>1 DEF RowsStay, Grounded
        <4> QED
          BY <4>2
      <3>3. CASE req' = [req EXCEPT ![q] = [at |-> "accept", invitation |-> i,
                                            role |-> employee[invitation[i].to].role]]
        <4>1. PICK role : role = employee[invitation[i].to].role
          OBVIOUS
        <4>2. Goes([at |-> "accept", invitation |-> i, role |-> role])
          BY <2>5, <2>9, <3>3, <4>1 DEF Grounded
        <4> QED
          BY <4>2
      <3>4. CASE req' = [req EXCEPT ![q] = [at |-> "expire", invitation |-> i]]
        <4>1. Goes([at |-> "expire", invitation |-> i])
          BY <2>5, <2>10, <3>4 DEF Grounded
        <4> QED
          BY <4>1
      <3> QED
        BY <2>6, <3>1, <3>2, <3>3, <3>4
    <2> QED
      BY <2>3, <2>11
  <1>6. ASSUME Look(q)
        PROVE  RowTypes' /\ IssuedToHired' /\ RowsStay /\ \E r : Goes(r)
    <2>1. PICK e \in Employees, old \in SUBSET Invitations :
            /\ e = req[q].employee /\ old = AllOfPending(e)
            /\ Hired(e) /\ \A i \in old : Issued(i)
      BY <1>0, <1>6, SlotShapes DEF Look, At, Grounded, AllOfPending, PendingOf, Pending
    <2>2. /\ req' = [req EXCEPT ![q] = [at |-> "replace", employee |-> e, old |-> old]]
          /\ UNCHANGED <<rosterVars, sessionVars, issuers, tried>>
          /\ together' \in [Invitations -> Nat]
      BY <1>3, <1>6, <2>1 DEF Look, Proceed
    <2>3. RowTypes' /\ IssuedToHired' /\ RowsStay
      BY <1>0, <1>2, <2>2 DEF RowTypes
    <2>4. Goes([at |-> "replace", employee |-> e, old |-> old])
      BY <2>1, <2>2, <2>3 DEF Suspended, ReplaceRequest, Grounded, RowsStay
    <2> QED
      BY <2>3, <2>4
  \* A status is written over whatever it has become.
  <1>7. ASSUME NEW i \in Invitations, Issued(i),
               NEW status \in {"accepted", "revoked", "expired"}, Mark(i, status),
               UNCHANGED <<employee, sessionVars, historyVars>>
        PROVE  RowTypes' /\ IssuedToHired' /\ RowsStay
    <2>1. RowTypes'
      <3>1. invitation' \in [Invitations -> Invitation \cup {None}]
        BY <1>0, <1>7, MarkKeepsRows
      <3> QED
        BY <1>0, <1>7, <3>1 DEF RowTypes, sessionVars, historyVars
    <2>2. IssuedToHired' /\ RowsStay
      BY <1>0, <1>7, MarkKeepsRows DEF IssuedToHired, RowsStay, Hired, sessionVars
    <2> QED
      BY <2>1, <2>2
  <1>8. ASSUME Withdraw(q)
        PROVE  RowTypes' /\ IssuedToHired' /\ RowsStay /\ \E r : Goes(r)
    <2>1. PICK i, e :
            /\ i \in Invitations /\ i = req[q].invitation /\ Issued(i)
            /\ e = invitation[i].to
      BY <1>0, <1>8, SlotShapes DEF Withdraw, At, Grounded
    <2>2. RowTypes' /\ IssuedToHired' /\ RowsStay
      BY <1>7, <1>8, <2>1 DEF Withdraw
    <2>3. e \in Employees /\ Hired(e)'
      BY <1>4, <2>1, <2>2 DEF RowsStay
    <2>4. CASE req[q].reissue
      <3>1. Goes([at |-> "look", employee |-> e])
        BY <1>8, <2>1, <2>3, <2>4
        DEF Withdraw, Proceed, Suspended, LookRequest, Grounded
      <3> QED
        BY <2>2, <3>1
    <2>5. CASE ~req[q].reissue
      <3>1. Goes(Idle)
        BY <1>8, <2>5 DEF Withdraw, Finish, Grounded, Idle
      <3> QED
        BY <2>2, <3>1
    <2> QED
      BY <2>4, <2>5
  <1>9. ASSUME RevokeOld(q)
        PROVE  RowTypes' /\ IssuedToHired' /\ RowsStay /\ \E r : Goes(r)
    <2>1. /\ req[q] \in ReplaceRequest
          /\ Hired(req[q].employee) /\ \A i \in req[q].old : Issued(i)
      BY <1>0, <1>9, SlotShapes DEF RevokeOld, At, Grounded
    <2>2. PICK i, r :
            /\ i \in req[q].old /\ r = [req[q] EXCEPT !.old = @ \ {i}]
            /\ Mark(i, "revoked") /\ req' = [req EXCEPT ![q] = r]
            /\ UNCHANGED <<employee, sessionVars, historyVars>>
      BY <1>9 DEF RevokeOld, Proceed
    <2>3. /\ r \in ReplaceRequest /\ r.at = "replace"
          /\ r.employee = req[q].employee /\ r.old \subseteq req[q].old
      BY <2>1, <2>2 DEF ReplaceRequest
    <2>4. RowTypes' /\ IssuedToHired' /\ RowsStay
      BY <1>7, <2>1, <2>2 DEF ReplaceRequest
    <2>5. Goes(r)
      BY <2>1, <2>2, <2>3, <2>4
      DEF ReplaceRequest, Suspended, Grounded, RowsStay
    <2> QED
      BY <2>4, <2>5
  <1>10. ASSUME Mint(q)
         PROVE  RowTypes' /\ IssuedToHired' /\ RowsStay /\ \E r : Goes(r)
    <2>1. req[q].employee \in Employees /\ Hired(req[q].employee)
      BY <1>0, <1>10, SlotShapes DEF Mint, At, Grounded, ReplaceRequest
    <2>2. PICK i, row :
            /\ i \in Invitations /\ invitation' = [invitation EXCEPT ![i] = row]
            /\ row = [to |-> req[q].employee, status |-> "pending", due |-> FALSE]
            /\ req' = [req EXCEPT ![q] = Idle]
            /\ UNCHANGED <<employee, sessionVars, historyVars>>
      BY <1>10 DEF Mint, Finish
    <2>6. row \in Invitation /\ row # None /\ row.to \in Employees /\ Hired(row.to)
      <3>1. row \in Invitation /\ row.to = req[q].employee
        BY <2>1, <2>2 DEF Invitation
      <3> QED
        BY <2>1, <3>1
    <2>3. RowTypes'
      BY <1>0, <2>2, <2>6 DEF RowTypes, sessionVars, historyVars
    <2>4. IssuedToHired' /\ RowsStay
      BY <1>0, <2>2, <2>6
      DEF IssuedToHired, RowsStay, Issued, Hired, RowTypes, sessionVars
    <2>5. Goes(Idle)
      BY <2>2 DEF Grounded, Idle
    <2> QED
      BY <2>3, <2>4, <2>5
  <1>11. ASSUME CommitExpire(q)
         PROVE  RowTypes' /\ IssuedToHired' /\ RowsStay /\ \E r : Goes(r)
    <2>1. req[q].invitation \in Invitations /\ Issued(req[q].invitation)
      BY <1>0, <1>11, SlotShapes DEF CommitExpire, At, Grounded
    <2>2. RowTypes' /\ IssuedToHired' /\ RowsStay
      BY <1>7, <1>11, <2>1 DEF CommitExpire
    <2>3. Goes(Idle)
      BY <1>11 DEF CommitExpire, Finish, Grounded, Idle
    <2> QED
      BY <2>2, <2>3
  <1>12. ASSUME CommitAccept(q)
         PROVE  RowTypes' /\ IssuedToHired' /\ RowsStay /\ \E r : Goes(r)
    <2>0. /\ req[q].invitation \in Invitations /\ Issued(req[q].invitation)
          /\ req[q].role \in Roles
      BY <1>0, <1>12, SlotShapes DEF CommitAccept, At, Grounded
    <2>11. PICK i \in Invitations, role \in Roles : i = req[q].invitation /\ role = req[q].role
      BY <2>0
    <2>12. PICK e : e = invitation[i].to
      OBVIOUS
    <2>1. /\ i = req[q].invitation /\ Issued(i) /\ role = req[q].role
          /\ e = invitation[i].to
      BY <2>0, <2>11, <2>12
    <2>2. e \in Employees /\ Hired(e) /\ employee[e] \in Employee
      BY <1>0, <1>4, <2>1 DEF RowTypes, Hired
    <2>3. /\ employee' = [employee EXCEPT ![e].credentials = {"password", "pin"}]
          /\ Mark(i, "accepted")
          /\ InsertDevice(e, i)
          /\ passes' = passes \cup {<<e, role>>}
          /\ UNCHANGED <<lock, historyVars>>
          /\ req' = [req EXCEPT ![q] = Idle]
      BY <1>12, <2>1 DEF CommitAccept, IssuePass, Finish
    <2>4. PICK d \in Devices :
            device[d] = None /\ device' = [device EXCEPT ![d] = NewDevice(e, i)]
      BY <2>3, InsertDeviceAddsOne
    <2>5. NewDevice(e, i) \in Device
      BY <2>2 DEF NewDevice, Device
    <2>6. /\ employee' \in [Employees -> Employee \cup {None}]
          /\ \A f \in Employees : Hired(f) => Hired(f)'
      BY <1>0, <2>2, <2>3 DEF RowTypes, Employee, Hired
    <2>7. /\ device' \in [Devices -> Device \cup {None}]
          /\ \A c \in Devices : device[c] # None => device'[c] # None
      BY <1>0, <2>4, <2>5 DEF RowTypes
    <2>8. RowTypes'
      <3>1. invitation' \in [Invitations -> Invitation \cup {None}]
        BY <1>0, <2>1, <2>3, MarkKeepsRows
      <3>2. passes' \subseteq Employees \X Roles
        BY <1>0, <2>1, <2>2, <2>3 DEF RowTypes
      <3> QED
        BY <1>0, <2>3, <2>6, <2>7, <3>1, <3>2 DEF RowTypes, historyVars
    <2>9. IssuedToHired' /\ RowsStay
      BY <1>0, <1>4, <2>1, <2>3, <2>6, <2>7, MarkKeepsRows DEF IssuedToHired, RowsStay
    <2>10. Goes(Idle)
      BY <2>3 DEF Grounded, Idle
    <2> QED
      BY <2>8, <2>9, <2>10
  <1> QED
    BY <1>1, <1>5, <1>6, <1>8, <1>9, <1>10, <1>11, <1>12 DEF OnboardingStep

LEMMA RenewedIsDevice ==
  ASSUME NEW row \in Device
  PROVE  /\ Renewed(row) \in Device
         /\ Renewed(row).revoked = row.revoked
         /\ Renewed(row).origin = row.origin
  BY DEF Renewed, Device

\* One failure more, or a lock.
LEMMA AfterFailureIsState ==
  ASSUME NEW state \in LockState
  PROVE  /\ AfterFailure(state) \in LockState
         /\ AfterFailure(state).failures < MaxFailures
         /\ \/ /\ AfterFailure(state).failures = state.failures + 1
               /\ AfterFailure(state).left = state.left
            \/ AfterFailure(state).left > 0
  <1> DEFINE rung == IF state.episodes < Len(Cooldowns) THEN state.episodes + 1
                                                        ELSE Len(Cooldowns)
  <1>1. Len(Cooldowns) \in Nat \ {0}
    BY LockoutAssumption
  <1>2. rung \in 1 .. Len(Cooldowns)
    BY <1>1 DEF LockState
  <1>3. Cooldowns[rung] \in Nat \ {0}
    BY <1>2, LockoutAssumption
  <1>4. MaxFailures \in Nat \ {0}
    BY LockoutAssumption
  <1> HIDE DEF rung
  <1>5. AfterFailure(state) = IF state.failures + 1 < MaxFailures
                                THEN [state EXCEPT !.failures = @ + 1]
                                ELSE [failures |-> 0, episodes |-> rung, left |-> Cooldowns[rung]]
    BY DEF AfterFailure, rung
  <1>6. rung \in Nat
    BY <1>1, <1>2
  <1> QED
    BY <1>3, <1>4, <1>5, <1>6 DEF LockState

LEMMA SignInRows ==
  ASSUME StaffRows, NEW q \in Requests, SignInStep(q)
  PROVE  StaffRows'
  <1> USE StaffAssumption, RowAssumption
  <1> DEFINE Goes(r) == /\ r \in Suspended \cup {Idle}
                        /\ req' = [req EXCEPT ![q] = r]
                        /\ Grounded(r)'
  <1> SUFFICES RowTypes' /\ IssuedToHired' /\ RowsStay /\ \E r : Goes(r)
    BY SlotStep
  <1>0. RowTypes /\ IssuedToHired /\ Grounded(req[q])
    BY DEF StaffRows
  <1>1. ASSUME rosterVars' = rosterVars, historyVars' = historyVars, lock' = lock,
               device' \in [Devices -> Device \cup {None}],
               \A d \in Devices : device[d] # None => device'[d] # None,
               passes' \subseteq Employees \X Roles
        PROVE  RowTypes' /\ IssuedToHired' /\ RowsStay
    BY <1>0, <1>1
    DEF rosterVars, historyVars, RowTypes, IssuedToHired, RowsStay, Hired, Issued
  <1>2. ASSUME rosterVars' = rosterVars, historyVars' = historyVars, sessionVars' = sessionVars
        PROVE  RowTypes' /\ IssuedToHired' /\ RowsStay
    BY <1>0, <1>1, <1>2 DEF RowTypes, sessionVars
  <1>3. \A e \in Employees : Hired(e) => employee[e].role \in Roles
    BY <1>0 DEF RowTypes, Hired, Employee
  <1>4. ASSUME NEW d \in Devices, NEW e \in Employees \cup {None},
               device[d] # None, UNCHANGED <<rosterVars, sessionVars, historyVars>>,
               req' = [req EXCEPT ![q] = [at |-> "renew", device |-> d, employee |-> e]]
        PROVE  RowTypes' /\ IssuedToHired' /\ RowsStay /\ \E r : Goes(r)
    <2>1. RowTypes' /\ IssuedToHired' /\ RowsStay
      BY <1>2, <1>4
    <2>2. Goes([at |-> "renew", device |-> d, employee |-> e])
      BY <1>4, <2>1 DEF Suspended, RenewRequest, Grounded, RowsStay
    <2> QED
      BY <2>1, <2>2
  <1>5. ASSUME NEW d \in Devices,
               BeginRefresh(q, d) \/ \E e \in Employees : BeginPinLogin(q, d, e)
        PROVE  RowTypes' /\ IssuedToHired' /\ RowsStay /\ \E r : Goes(r)
    <2>1. device[d] # None
      BY <1>5 DEF BeginRefresh, BeginPinLogin, Trusted
    <2>2. CASE BeginRefresh(q, d)
      BY <1>4, <2>1, <2>2 DEF BeginRefresh, Begin
    <2>3. CASE \E e \in Employees : BeginPinLogin(q, d, e)
      BY <1>4, <2>1, <2>3 DEF BeginPinLogin, Begin
    <2> QED
      BY <1>5, <2>2, <2>3
  <1>6. ASSUME NEW e \in Employees, BeginPassword(q, e)
        PROVE  RowTypes' /\ IssuedToHired' /\ RowsStay /\ \E r : Goes(r)
    <2>1. RowTypes' /\ IssuedToHired' /\ RowsStay
      BY <1>2, <1>6 DEF BeginPassword
    <2>2. PICK role \in Roles : role = employee[e].role
      BY <1>3, <1>6 DEF BeginPassword, Active
    <2>3. Goes([at |-> "login", employee |-> e, role |-> role])
      BY <1>6, <2>2 DEF BeginPassword, Begin, Suspended, LoginRequest, Grounded
    <2> QED
      BY <2>1, <2>3
  <1>7. ASSUME NEW e \in Employees, BeginResetPin(q, e)
        PROVE  RowTypes' /\ IssuedToHired' /\ RowsStay /\ \E r : Goes(r)
    <2>1. RowTypes' /\ IssuedToHired' /\ RowsStay
      BY <1>2, <1>7 DEF BeginResetPin
    <2>2. Goes([at |-> "reset", employee |-> e])
      BY <1>7, <2>1 DEF BeginResetPin, Begin, Suspended, ResetRequest, Grounded, RowsStay
    <2> QED
      BY <2>1, <2>2
  <1>8. ASSUME req' = [req EXCEPT ![q] = Idle]
        PROVE  \E r : Goes(r)
    <2>1. Goes(Idle)
      BY <1>8 DEF Grounded, Idle
    <2> QED
      BY <2>1
  <1>9. ASSUME Renew(q)
        PROVE  RowTypes' /\ IssuedToHired' /\ RowsStay /\ \E r : Goes(r)
    <2>1. req[q].device \in Devices /\ device[req[q].device] # None
      BY <1>0, <1>9, SlotShapes DEF Renew, At, Grounded
    <2>2. PICK d \in Devices, e \in Employees :
            d = req[q].device /\ e = device[d].owner /\ device[d] \in Device
      BY <1>0, <2>1 DEF RowTypes, Device
    <2>3. /\ device' = [device EXCEPT ![d] = Renewed(device[d])]
          /\ UNCHANGED <<rosterVars, lock, historyVars>>
      BY <1>9, <2>2 DEF Renew
    <2>4. Renewed(device[d]) \in Device
      BY <2>2, RenewedIsDevice
    <2>5. /\ device' \in [Devices -> Device \cup {None}]
          /\ \A c \in Devices : device[c] # None => device'[c] # None
      BY <1>0, <2>2, <2>3, <2>4 DEF RowTypes
    <2>6. Active(e) => employee[e].role \in Roles
      BY <1>3 DEF Active
    <2>7. passes' \subseteq Employees \X Roles
      BY <1>0, <1>9, <2>2, <2>6 DEF Renew, IssuePass, RowTypes
    <2>8. RowTypes' /\ IssuedToHired' /\ RowsStay
      BY <1>1, <2>3, <2>5, <2>7
    <2>9. \E r : Goes(r)
      <3>1. CASE req[q].employee = e /\ Active(e)
        <4>1. PICK role \in Roles : role = employee[e].role
          BY <2>6, <3>1
        <4> DEFINE r(usable) == [at |-> "verify", employee |-> e, role |-> role,
                                 usable |-> usable]
        <4>2. req' = [req EXCEPT ![q] = r("pin" \in employee[e].credentials)]
          BY <1>9, <2>2, <3>1, <4>1 DEF Renew, Proceed
        <4>3. CASE "pin" \in employee[e].credentials
          <5>1. ("pin" \in employee[e].credentials) = TRUE
            BY <4>3
          <5>2. Goes(r(TRUE))
            BY <4>2, <5>1 DEF Suspended, VerifyRequest, Grounded
          <5> QED
            BY <5>2
        <4>4. CASE "pin" \notin employee[e].credentials
          <5>1. ("pin" \in employee[e].credentials) = FALSE
            BY <4>4
          <5>2. Goes(r(FALSE))
            BY <4>2, <5>1 DEF Suspended, VerifyRequest, Grounded
          <5> QED
            BY <5>2
        <4> QED
          BY <4>3, <4>4
      <3>2. CASE ~(req[q].employee = e /\ Active(e))
        BY <1>8, <1>9, <2>2, <3>2 DEF Renew, Finish
      <3> QED
        BY <3>1, <3>2
    <2> QED
      BY <2>8, <2>9
  <1>10. ASSUME AcceptPin(q) \/ RejectPin(q)
         PROVE  RowTypes' /\ IssuedToHired' /\ RowsStay /\ \E r : Goes(r)
    <2>1. req[q].employee \in Employees /\ req[q].role \in Roles
      BY <1>10, SlotShapes DEF AcceptPin, RejectPin
    <2>2. PICK e \in Employees, role \in Roles : e = req[q].employee /\ role = req[q].role
      BY <2>1
    <2>3. /\ UNCHANGED <<rosterVars, device, issuers, together>>
          /\ passes' \subseteq Employees \X Roles
          /\ req' = [req EXCEPT ![q] = Idle]
      BY <1>0, <1>10, <2>2 DEF AcceptPin, RejectPin, IssuePass, Finish, RowTypes
    <2>4. lock' \in [Employees -> LockState] /\ tried' \in [Employees -> Nat]
      <3>1. CASE AcceptPin(q)
        BY <1>0, <2>2, <3>1 DEF AcceptPin, RowTypes, LockState, Unlocked
      <3>2. CASE RejectPin(q)
        <4>1. GuessBound \in Nat /\ lock[e] \in LockState /\ tried[e] \in Nat
          BY <1>0, LockoutAssumption, FS_CardinalityType DEF GuessBound, RowTypes
        <4>2. AfterFailure(lock[e]) \in LockState
          BY <4>1, AfterFailureIsState
        <4> QED
          BY <1>0, <2>2, <3>2, <4>1, <4>2 DEF RejectPin, RowTypes
      <3> QED
        BY <1>10, <3>1, <3>2
    <2>5. RowTypes' /\ IssuedToHired' /\ RowsStay
      BY <1>0, <2>3, <2>4 DEF rosterVars, RowTypes, IssuedToHired, RowsStay, Hired, Issued
    <2> QED
      BY <1>8, <2>3, <2>5
  <1>11. ASSUME CommitPassword(q) \/ RefusePassword(q)
         PROVE  RowTypes' /\ IssuedToHired' /\ RowsStay /\ \E r : Goes(r)
    <2>1. CASE RefusePassword(q)
      BY <1>2, <1>8, <2>1 DEF RefusePassword, Finish
    <2>2. CASE CommitPassword(q)
      <3>1. PICK e \in Employees, role \in Roles : e = req[q].employee /\ role = req[q].role
        BY <2>2, SlotShapes DEF CommitPassword
      <3>2. PICK d \in Devices :
              device[d] = None /\ device' = [device EXCEPT ![d] = NewDevice(e, None)]
        BY <2>2, <3>1, InsertDeviceAddsOne DEF CommitPassword
      <3>3. NewDevice(e, None) \in Device
        BY DEF NewDevice, Device
      <3>4. /\ device' \in [Devices -> Device \cup {None}]
            /\ \A c \in Devices : device[c] # None => device'[c] # None
        BY <1>0, <3>2, <3>3 DEF RowTypes
      <3>5. passes' \subseteq Employees \X Roles
        BY <1>0, <2>2, <3>1 DEF CommitPassword, IssuePass, RowTypes
      <3> QED
        BY <1>1, <1>8, <2>2, <3>4, <3>5 DEF CommitPassword, Finish
    <2> QED
      BY <1>11, <2>1, <2>2
  <1>12. ASSUME CommitResetPin(q)
         PROVE  RowTypes' /\ IssuedToHired' /\ RowsStay /\ \E r : Goes(r)
    <2>1. req[q].employee \in Employees /\ Hired(req[q].employee)
      BY <1>0, <1>12, SlotShapes DEF CommitResetPin, At, Grounded
    <2>2. PICK e \in Employees : e = req[q].employee /\ Hired(e)
      BY <2>1
    <2>3. /\ employee' = [employee EXCEPT ![e].credentials = @ \cup {"pin"}]
          /\ UNCHANGED <<invitation, sessionVars, historyVars>>
          /\ req' = [req EXCEPT ![q] = Idle]
      BY <1>12, <2>2 DEF CommitResetPin, Finish
    <2>4. /\ employee' \in [Employees -> Employee \cup {None}]
          /\ \A f \in Employees : Hired(f) => Hired(f)'
      BY <1>0, <2>2, <2>3 DEF RowTypes, Employee, Hired
    <2>5. RowTypes' /\ IssuedToHired' /\ RowsStay
      BY <1>0, <2>3, <2>4
      DEF RowTypes, IssuedToHired, RowsStay, Issued, sessionVars, historyVars, Invitation
    <2> QED
      BY <1>8, <2>3, <2>5
  <1> QED
    BY <1>5, <1>6, <1>7, <1>9, <1>10, <1>11, <1>12 DEF SignInStep

LEMMA GuardRows ==
  ASSUME StaffRows, NEW q \in Requests,
         \/ \E pass \in passes, key \in Keys : BeginCall(q, pass[1], pass[2], key)
         \/ Admit(q) \/ Deny(q) \/ EndCall(q)
  PROVE  StaffRows'
  <1> USE StaffAssumption, RowAssumption
  <1>1. UNCHANGED <<rosterVars, sessionVars, historyVars>>
    BY DEF BeginCall, Admit, Deny, EndCall
  <1>2. RowTypes' /\ IssuedToHired' /\ RowsStay
    BY <1>1
    DEF rosterVars, historyVars, sessionVars, StaffRows, RowTypes, IssuedToHired, RowsStay,
        Hired, Issued
  <1>3. \E r \in Suspended \cup {Idle} :
          req' = [req EXCEPT ![q] = r] /\ r.at \in {"idle", "call", "acting"}
    <2>1. CASE \E pass \in passes, key \in Keys : BeginCall(q, pass[1], pass[2], key)
      <3>1. PICK pass \in passes, key \in Keys : BeginCall(q, pass[1], pass[2], key)
        BY <2>1
      <3>2. PICK e \in Employees, role \in Roles : e = pass[1] /\ role = employee[e].role
        <4>1. pass[1] \in Employees /\ Active(pass[1])
          BY <3>1 DEF BeginCall, MayAct, StaffRows, RowTypes
        <4>2. employee[pass[1]].role \in Roles
          BY <4>1 DEF StaffRows, RowTypes, Active, Hired, Employee
        <4> QED
          BY <4>1, <4>2
      <3> DEFINE r == [at |-> "call", employee |-> e, role |-> role, key |-> key,
                       held |-> {role}]
      <3>3. req' = [req EXCEPT ![q] = r]
        BY <3>1, <3>2 DEF BeginCall, Begin, RoleByRow, MayAct
      <3>4. r \in Suspended /\ r.at = "call"
        BY DEF Suspended, CallRequest
      <3> QED
        BY <3>3, <3>4
    <2>2. CASE Admit(q)
      <3>1. req[q] \in CallRequest
        BY <2>2, SlotShapes DEF Admit
      <3>2. [req[q] EXCEPT !.at = "acting"] \in Suspended
        BY <3>1 DEF CallRequest, Suspended
      <3>3. [req[q] EXCEPT !.at = "acting"].at = "acting"
        BY <3>1 DEF CallRequest
      <3> QED
        BY <2>2, <3>2, <3>3 DEF Admit, Proceed
    <2>3. CASE Deny(q) \/ EndCall(q)
      <3>1. req' = [req EXCEPT ![q] = Idle] /\ Idle.at = "idle"
        BY <2>3 DEF Deny, EndCall, Finish, Idle
      <3> QED
        BY <3>1
    <2> QED
      BY <2>1, <2>2, <2>3
  <1>4. PICK r \in Suspended \cup {Idle} :
          req' = [req EXCEPT ![q] = r] /\ r.at \in {"idle", "call", "acting"}
    BY <1>3
  <1>5. Grounded(r)'
    BY <1>4 DEF Grounded
  <1> QED
    BY <1>2, <1>4, <1>5, SlotStep

\* Rows change, handlers stay where they are.
LEMMA RowStep ==
  ASSUME StaffRows, RowTypes', IssuedToHired', RowsStay, req' = req
  PROVE  StaffRows'
  <1>1. SlotTypes'
    BY DEF StaffRows, SlotTypes
  <1>2. ASSUME NEW p \in Requests PROVE Grounded(req[p])'
    BY SlotShapes DEF StaffRows, Grounded, RowsStay, At, ReplaceRequest
  <1> QED
    BY <1>1, <1>2 DEF StaffRows

LEMMA RosterRows ==
  ASSUME StaffRows, NEW e \in Employees, NEW role \in Roles, NEW active \in BOOLEAN,
         UpdateEmployee(e, role, active)
  PROVE  StaffRows'
  <1> USE StaffAssumption, RowAssumption
  <1>1. /\ employee[e] \in Employee
        /\ employee' = [employee EXCEPT ![e].role = role, ![e].active = active]
        /\ UNCHANGED <<invitation, sessionVars, historyVars>>
    BY DEF UpdateEmployee, StaffRows, RowTypes, Hired
  <1>2. /\ employee' \in [Employees -> Employee \cup {None}]
        /\ \A f \in Employees : Hired(f) => Hired(f)'
    BY <1>1 DEF StaffRows, RowTypes, Employee, Hired
  <1>3. RowTypes' /\ RowsStay
    BY <1>1, <1>2 DEF StaffRows, RowTypes, RowsStay, Issued, sessionVars, historyVars
  <1>4. IssuedToHired'
    BY <1>1, <1>2 DEF StaffRows, RowTypes, IssuedToHired, Issued, Invitation
  <1>5. \A q \in Requests :
          /\ req'[q] \in Suspended \cup {Idle}
          /\ req'[q] = req[q] \/ req'[q].at = "call"
    <2> TAKE q \in Requests
    <2>1. CASE At(q, "call") /\ req[q].employee = e /\ active
      <3>1. req[q] \in CallRequest
        BY <2>1, SlotShapes
      <3>2. PICK r : r = [req[q] EXCEPT !.held = @ \cup {role}]
        OBVIOUS
      <3>3. r \in CallRequest /\ r.at = req[q].at
        BY <3>1, <3>2 DEF CallRequest
      <3>4. req'[q] = r
        BY <2>1, <3>2 DEF UpdateEmployee
      <3> QED
        BY <2>1, <3>3, <3>4 DEF Suspended, At
    <2>2. CASE ~(At(q, "call") /\ req[q].employee = e /\ active)
      BY <2>2, SlotShapes DEF UpdateEmployee
    <2> QED
      BY <2>1, <2>2
  <1>6. SlotTypes'
    BY <1>5 DEF SlotTypes, UpdateEmployee
  <1>7. ASSUME NEW q \in Requests PROVE Grounded(req[q])'
    <2>1. Grounded(req[q])
      BY DEF StaffRows
    <2> QED
      BY <1>3, <1>5, <2>1, SlotShapes DEF Grounded, RowsStay, At, ReplaceRequest
  <1> QED
    BY <1>3, <1>4, <1>6, <1>7 DEF StaffRows

LEMMA StaffStepRows == StaffRows /\ [Next]_vars => StaffRows'
  <1> SUFFICES ASSUME StaffRows, [Next]_vars PROVE StaffRows'
    OBVIOUS
  <1> USE StaffAssumption, RowAssumption
  <1>0. RowTypes /\ IssuedToHired
    BY DEF StaffRows
  <1>1. ASSUME NEW d \in Devices, RevokeDevice(d) \/ Lapse(d)
        PROVE  StaffRows'
    <2>1. /\ device[d] \in Device
          /\ UNCHANGED <<rosterVars, lock, passes, req, historyVars>>
      BY <1>0, <1>1 DEF RevokeDevice, Lapse, Trusted, RowTypes
    <2>3. PICK row \in Device : device' = [device EXCEPT ![d] = row]
      <3>1. [device[d] EXCEPT !.revoked = TRUE] \in Device
        BY <2>1 DEF Device
      <3>2. [device[d] EXCEPT !.lapsed = TRUE] \in Device
        BY <2>1 DEF Device
      <3>3. CASE RevokeDevice(d)
        BY <3>1, <3>3 DEF RevokeDevice
      <3>4. CASE Lapse(d)
        BY <3>2, <3>4 DEF Lapse
      <3> QED
        BY <1>1, <3>3, <3>4
    <2>2. /\ device' \in [Devices -> Device \cup {None}]
          /\ \A c \in Devices : device[c] # None => device'[c] # None
      BY <1>0, <2>3 DEF RowTypes
    <2> QED
      BY <1>0, <2>1, <2>2, RowStep
      DEF rosterVars, historyVars, RowTypes, IssuedToHired, RowsStay, Hired, Issued
  <1>2. ASSUME NEW i \in Invitations, FallDue(i)
        PROVE  StaffRows'
    <2>1. /\ invitation[i] \in Invitation
          /\ UNCHANGED <<employee, sessionVars, req, historyVars>>
          /\ invitation' = [invitation EXCEPT ![i].due = TRUE]
      BY <1>0, <1>2 DEF FallDue, RowTypes, Live, Pending, Issued
    <2>2. /\ invitation' \in [Invitations -> Invitation \cup {None}]
          /\ \A j \in Invitations : /\ Issued(j)' <=> Issued(j)
                                    /\ Issued(j) => invitation'[j].to = invitation[j].to
      BY <1>0, <2>1 DEF RowTypes, Invitation, Issued
    <2> QED
      BY <1>0, <2>1, <2>2, RowStep
      DEF sessionVars, historyVars, RowTypes, IssuedToHired, RowsStay, Hired
  <1>3. CASE \E pass \in passes : RunOut(pass)
    <2>1. /\ passes' \subseteq passes
          /\ UNCHANGED <<rosterVars, device, lock, req, historyVars>>
      BY <1>3 DEF RunOut
    <2> QED
      BY <1>0, <2>1, RowStep
      DEF rosterVars, historyVars, RowTypes, IssuedToHired, RowsStay, Hired, Issued
  <1>4. CASE Minute
    <2>1. lock' \in [Employees -> LockState]
      BY <1>0, <1>4 DEF Minute, RowTypes, LockState
    <2>2. tried' \in [Employees -> Nat]
      BY <1>0, <1>4 DEF Minute, RowTypes
    <2>3. UNCHANGED <<rosterVars, device, passes, req, issuers, together>>
      BY <1>4 DEF Minute
    <2> QED
      BY <1>0, <2>1, <2>2, <2>3, RowStep
      DEF rosterVars, RowTypes, IssuedToHired, RowsStay, Hired, Issued
  <1>5. CASE Crash
    <2>1. /\ lock' \in [Employees -> LockState] /\ tried' \in [Employees -> Nat]
          /\ UNCHANGED <<rosterVars, device, passes, issuers, together>>
          /\ \A q \in Requests : req'[q] = Idle
      BY <1>5 DEF Crash, LockState, Unlocked
    <2>2. SlotTypes' /\ \A q \in Requests : Grounded(req[q])'
      BY <1>5, <2>1 DEF Crash, SlotTypes, Grounded, Idle
    <2> QED
      BY <1>0, <2>1, <2>2
      DEF StaffRows, rosterVars, RowTypes, IssuedToHired, RowsStay, Hired, Issued
  <1>6. CASE UNCHANGED vars
    BY <1>0, <1>6, RowStep
    DEF vars, rosterVars, sessionVars, historyVars, RowTypes, IssuedToHired, RowsStay, Hired,
        Issued
  <1> QED
    BY <1>1, <1>2, <1>3, <1>4, <1>5, <1>6, OnboardingRows, SignInRows, GuardRows, RosterRows
    DEF Next

\* TypeOK: every row and every suspended handler is of its type.
THEOREM StaffTypes == Spec => []TypeOK
  <1>1. StaffRows => TypeOK
    BY DEF StaffRows, RowTypes, SlotTypes, TypeOK
  <1> QED
    BY <1>1, StaffInit, StaffStepRows, PTL DEF Spec

-----------------------------------------------------------------------------
(***************************************************************************)
(* Rights.                                                                 *)
(***************************************************************************)
\* The role a request acts by is one of those its employee has had since it
\* was let in, and the baseline admits it.
Rightful(r) ==
  /\ r.at \in {"call", "acting"} => r.role \in r.held
  /\ r.at = "acting" => r.role \in Baseline[r.key]

RightsInv == \A q \in Requests : Rightful(req[q])

\* A step of q takes q to one of some places, and no other request anywhere.
Moves(q, places) ==
  /\ \A p \in Requests \ {q} : req'[p] = req[p]
  /\ req'[q].at \in places

\* Onboarding stays at its own places, and leaves the lockout alone.
LEMMA OnboardingPlaces ==
  ASSUME StaffRows, NEW q \in Requests, OnboardingStep(q)
  PROVE  /\ UNCHANGED <<lock, tried>>
         /\ Moves(q, {"idle", "look", "replace", "withdraw", "accept", "expire"})
  <1>1. UNCHANGED <<lock, tried>>
    BY DEF OnboardingStep, BeginHire, BeginReissue, BeginRevoke, BeginAccept, BeginExpire,
           Withdraw, Look, RevokeOld, Mint, CommitExpire, CommitAccept, sessionVars, historyVars
  <1>2. SlotTypes /\ Idle.at = "idle"
    BY DEF StaffRows, Idle
  <1>4. ASSUME NEW e \in Employees, NEW role \in Roles, BeginHire(q, e, role)
        PROVE  Moves(q, {"look"})
    BY <1>2, <1>4 DEF BeginHire, Begin, SlotTypes, Moves
  <1>5. ASSUME NEW i \in Invitations, BeginReissue(q, i)
        PROVE  Moves(q, {"withdraw", "look"})
    BY <1>2, <1>5 DEF BeginReissue, Begin, SlotTypes, Moves
  <1>6. ASSUME NEW i \in Invitations, BeginRevoke(q, i) \/ BeginAccept(q, i) \/ BeginExpire(q, i)
        PROVE  Moves(q, {"withdraw", "accept", "expire"})
    BY <1>2, <1>6 DEF BeginRevoke, BeginAccept, BeginExpire, Begin, SlotTypes, Moves
  <1>7. CASE Mint(q) \/ CommitExpire(q) \/ CommitAccept(q)
    <2>1. req' = [req EXCEPT ![q] = Idle]
      BY <1>7 DEF Mint, CommitExpire, CommitAccept, Finish
    <2> QED
      BY <1>1, <1>2, <2>1 DEF SlotTypes, Moves
  <1>8. CASE Withdraw(q) \/ Look(q)
    <2>1. CASE Look(q)
      BY <1>1, <1>2, <2>1 DEF Look, Proceed, SlotTypes, Moves
    <2>2. CASE Withdraw(q)
      <3>1. \/ req' = [req EXCEPT ![q] = Idle]
            \/ \E e : req' = [req EXCEPT ![q] = [at |-> "look", employee |-> e]]
        BY <2>2 DEF Withdraw, Proceed, Finish
      <3> QED
        BY <1>1, <1>2, <3>1 DEF SlotTypes, Moves
    <2> QED
      BY <1>8, <2>1, <2>2
  <1>9. CASE RevokeOld(q)
    <2>1. req[q] \in ReplaceRequest
      BY <1>9, SlotShapes DEF RevokeOld
    <2>2. PICK r : req' = [req EXCEPT ![q] = r] /\ \E i : r = [req[q] EXCEPT !.old = @ \ {i}]
      BY <1>9 DEF RevokeOld, Proceed
    <2>3. r.at = "replace"
      BY <2>1, <2>2 DEF ReplaceRequest
    <2> QED
      BY <1>1, <1>2, <2>2, <2>3 DEF SlotTypes, Moves
  <1> QED
    BY <1>1, <1>4, <1>5, <1>6, <1>7, <1>8, <1>9 DEF OnboardingStep, Moves

LEMMA SignInPlaces ==
  ASSUME StaffRows, NEW q \in Requests, SignInStep(q)
  PROVE  Moves(q, {"idle", "renew", "verify", "login", "reset"})
  <1>2. SlotTypes /\ Idle.at = "idle"
    BY DEF StaffRows, Idle
  <1>3. ASSUME NEW d \in Devices,
               BeginRefresh(q, d) \/ \E e \in Employees : BeginPinLogin(q, d, e)
        PROVE  Moves(q, {"renew"})
    BY <1>2, <1>3 DEF BeginRefresh, BeginPinLogin, Begin, SlotTypes, Moves
  <1>4. ASSUME NEW e \in Employees, BeginPassword(q, e) \/ BeginResetPin(q, e)
        PROVE  Moves(q, {"login", "reset"})
    BY <1>2, <1>4 DEF BeginPassword, BeginResetPin, Begin, SlotTypes, Moves
  <1>5. CASE Renew(q)
    BY <1>2, <1>5 DEF Renew, Proceed, Finish, SlotTypes, Moves
  <1>6. CASE \/ AcceptPin(q) \/ RejectPin(q) \/ CommitPassword(q)
             \/ RefusePassword(q) \/ CommitResetPin(q)
    BY <1>2, <1>6
    DEF AcceptPin, RejectPin, CommitPassword, RefusePassword, CommitResetPin, Finish,
        SlotTypes, Moves
  <1> QED
    BY <1>3, <1>4, <1>5, <1>6 DEF SignInStep, Moves

LEMMA RightsStep == StaffRows /\ RightsInv /\ [Next]_vars => RightsInv'
  <1> SUFFICES ASSUME StaffRows, RightsInv, [Next]_vars PROVE RightsInv'
    OBVIOUS
  <1>0. SlotTypes /\ Idle.at = "idle"
    BY DEF StaffRows, Idle
  <1>1. ASSUME NEW q \in Requests, \A p \in Requests \ {q} : req'[p] = req[p],
               Rightful(req'[q])
        PROVE  RightsInv'
    <2> SUFFICES ASSUME NEW p \in Requests PROVE Rightful(req'[p])
      BY DEF RightsInv, Rightful
    <2> QED
      BY <1>1 DEF RightsInv
  <1>2. ASSUME NEW q \in Requests, OnboardingStep(q) \/ SignInStep(q)
        PROVE  RightsInv'
    BY <1>1, <1>2, OnboardingPlaces, SignInPlaces DEF Moves, Rightful
  <1>3. ASSUME NEW q \in Requests, NEW pass \in passes, NEW key \in Keys,
               BeginCall(q, pass[1], pass[2], key)
        PROVE  RightsInv'
    <2>1. PICK r : /\ r = [at |-> "call", employee |-> pass[1], role |-> employee[pass[1]].role,
                           key |-> key, held |-> {employee[pass[1]].role}]
                   /\ req' = [req EXCEPT ![q] = r]
      BY <1>3 DEF BeginCall, Begin, RoleByRow, MayAct
    <2>2. Rightful(r)
      BY <2>1 DEF Rightful
    <2> QED
      BY <1>0, <1>1, <2>1, <2>2 DEF SlotTypes
  <1>4. ASSUME NEW q \in Requests, Admit(q)
        PROVE  RightsInv'
    <2>1. req[q] \in CallRequest /\ req[q].role \in req[q].held
      BY <1>4, SlotShapes DEF Admit, RightsInv, Rightful, At
    <2>2. PICK r : r = [req[q] EXCEPT !.at = "acting"]
      OBVIOUS
    <2>3. r.role = req[q].role /\ r.held = req[q].held /\ r.key = req[q].key
      BY <2>1, <2>2 DEF CallRequest
    <2>4. req' = [req EXCEPT ![q] = r] /\ req[q].role \in Baseline[req[q].key]
      BY <1>4, <2>2 DEF Admit, Proceed
    <2> QED
      BY <1>0, <1>1, <2>1, <2>3, <2>4 DEF SlotTypes, Rightful
  <1>5. ASSUME NEW q \in Requests, Deny(q) \/ EndCall(q)
        PROVE  RightsInv'
    BY <1>0, <1>1, <1>5 DEF Deny, EndCall, Finish, SlotTypes, Rightful
  <1>6. ASSUME NEW e \in Employees, NEW role \in Roles, NEW active \in BOOLEAN,
               UpdateEmployee(e, role, active)
        PROVE  RightsInv'
    <2> SUFFICES ASSUME NEW q \in Requests PROVE Rightful(req'[q])
      BY DEF RightsInv, Rightful
    <2>1. CASE At(q, "call") /\ req[q].employee = e /\ active
      <3>1. req[q] \in CallRequest /\ req[q].role \in req[q].held
        BY <2>1, SlotShapes DEF RightsInv, Rightful, At
      <3>2. PICK r : r = [req[q] EXCEPT !.held = @ \cup {role}]
        OBVIOUS
      <3>3. r.at = "call" /\ r.role \in r.held
        BY <2>1, <3>1, <3>2 DEF CallRequest, At
      <3>4. req'[q] = r
        BY <1>6, <2>1, <3>2 DEF UpdateEmployee
      <3> QED
        BY <3>3, <3>4 DEF Rightful
    <2>2. CASE ~(At(q, "call") /\ req[q].employee = e /\ active)
      <3>1. req'[q] = req[q]
        BY <1>6, <2>2 DEF UpdateEmployee
      <3> QED
        BY <3>1 DEF RightsInv
    <2> QED
      BY <2>1, <2>2
  <1>7. CASE Crash
    BY <1>0, <1>7 DEF Crash, RightsInv, Rightful
  <1>8. CASE req' = req
    BY <1>8 DEF RightsInv, Rightful
  <1> QED
    BY <1>2, <1>3, <1>4, <1>5, <1>6, <1>7, <1>8
    DEF Next, RevokeDevice, Lapse, FallDue, RunOut, Minute, vars

\* NobodyActsBeyondTheirRole: the role of a request that acts was its
\* employee's, and active, while it was handled, and the baseline gives it the
\* key.
THEOREM NobodyEverActsBeyondTheirRole == Spec => []NobodyActsBeyondTheirRole
  <1>1. Init => RightsInv
    BY DEF Init, RightsInv, Rightful, Idle
  <1>2. RightsInv => NobodyActsBeyondTheirRole
    BY DEF RightsInv, Rightful, At, NobodyActsBeyondTheirRole
  <1> QED
    BY <1>1, <1>2, StaffInit, StaffStepRows, RightsStep, PTL DEF Spec

-----------------------------------------------------------------------------
(***************************************************************************)
(* The lockout.                                                            *)
(***************************************************************************)
\* The PIN logins that passed the check of the lock and may still fail.
InFlight(e) == {q \in Requests : req[q].at \in {"renew", "verify"} /\ req[q].employee = e}

\* While the account is open, the counter has seen every wrong PIN; once it is
\* locked, each wrong PIN to come is one that is in flight already.
GuessInv ==
  \A e \in Employees :
    /\ lock[e].failures < MaxFailures
    /\ lock[e].left = 0 => tried[e] <= lock[e].failures
    /\ lock[e].left > 0 =>
         tried[e] + Cardinality(InFlight(e)) < MaxFailures + Cardinality(Requests)

LEMMA Counts ==
  ASSUME NEW S \in SUBSET Requests, NEW T \in SUBSET S
  PROVE  /\ IsFiniteSet(S) /\ IsFiniteSet(T)
         /\ Cardinality(S) \in Nat /\ Cardinality(T) \in Nat
         /\ Cardinality(T) <= Cardinality(S)
         /\ Cardinality(S) <= Cardinality(Requests) /\ Cardinality(Requests) \in Nat
         /\ \A q \in S \ T : Cardinality(T) < Cardinality(S)
  <1>1. IsFiniteSet(Requests)
    BY LockoutAssumption
  <1>2. IsFiniteSet(S) /\ Cardinality(S) <= Cardinality(Requests)
    BY <1>1, FS_Subset
  <1>3. /\ IsFiniteSet(T) /\ Cardinality(T) <= Cardinality(S)
        /\ (Cardinality(S) = Cardinality(T) => S = T)
    BY <1>2, FS_Subset
  <1>4. Cardinality(S) \in Nat /\ Cardinality(T) \in Nat /\ Cardinality(Requests) \in Nat
    BY <1>1, <1>2, <1>3, FS_CardinalityType
  <1> QED
    BY <1>2, <1>3, <1>4

\* Where no lock and no count changes, it is enough that nobody joins those in
\* flight for a locked account.
LEMMA GuessKept ==
  ASSUME StaffRows, GuessInv, UNCHANGED <<lock, tried>>,
         \A e \in Employees : lock[e].left > 0 => InFlight(e)' \subseteq InFlight(e)
  PROVE  GuessInv'
  <1> SUFFICES ASSUME NEW e \in Employees
               PROVE  /\ lock[e].failures < MaxFailures
                      /\ lock[e].left = 0 => tried[e] <= lock[e].failures
                      /\ lock[e].left > 0 => tried[e] + Cardinality(InFlight(e)')
                                               < MaxFailures + Cardinality(Requests)
    BY DEF GuessInv
  <1>1. lock[e] \in LockState /\ tried[e] \in Nat /\ MaxFailures \in Nat
    BY LockoutAssumption DEF StaffRows, RowTypes
  <1>2. CASE lock[e].left > 0
    <2>1. InFlight(e) \subseteq Requests /\ InFlight(e)' \subseteq InFlight(e)
      BY <1>2 DEF InFlight
    <2>2. /\ Cardinality(InFlight(e)') <= Cardinality(InFlight(e))
          /\ Cardinality(InFlight(e)') \in Nat /\ Cardinality(InFlight(e)) \in Nat
          /\ Cardinality(Requests) \in Nat
      BY <2>1, Counts
    <2> QED
      BY <1>1, <1>2, <2>2 DEF GuessInv
  <1>3. CASE lock[e].left = 0
    BY <1>3 DEF GuessInv
  <1> QED
    BY <1>1, <1>2, <1>3 DEF LockState

LEMMA GuessStep == StaffRows /\ GuessInv /\ [Next]_vars => GuessInv'
  <1> SUFFICES ASSUME StaffRows, GuessInv, [Next]_vars PROVE GuessInv'
    OBVIOUS
  <1>0. /\ SlotTypes /\ Idle.at = "idle" /\ MaxFailures \in Nat \ {0}
        /\ \A e \in Employees : lock[e] \in LockState /\ tried[e] \in Nat
        /\ lock \in [Employees -> LockState] /\ tried \in [Employees -> Nat]
    BY LockoutAssumption DEF StaffRows, Idle, RowTypes
  \* Who is not at a PIN login after a step is not in flight.
  <1>1. ASSUME NEW q \in Requests, NEW places, Moves(q, places),
               places \cap {"renew", "verify"} = {}, UNCHANGED <<lock, tried>>
        PROVE  GuessInv'
    BY <1>1, GuessKept DEF Moves, InFlight
  <1>2. ASSUME NEW q \in Requests, OnboardingStep(q)
        PROVE  GuessInv'
    BY <1>1, <1>2, OnboardingPlaces
  <1>3. ASSUME NEW q \in Requests, NEW pass \in passes, NEW key \in Keys,
               BeginCall(q, pass[1], pass[2], key)
        PROVE  GuessInv'
    <2>1. Moves(q, {"call"}) /\ UNCHANGED <<lock, tried>>
      BY <1>0, <1>3 DEF BeginCall, Begin, SlotTypes, Moves, sessionVars, historyVars
    <2> QED
      BY <1>1, <2>1
  <1>4. ASSUME NEW q \in Requests, Admit(q) \/ Deny(q) \/ EndCall(q)
        PROVE  GuessInv'
    <2>1. CASE Admit(q)
      <3>1. req[q] \in CallRequest
        BY <2>1, SlotShapes DEF Admit
      <3>2. PICK r : r = [req[q] EXCEPT !.at = "acting"]
        OBVIOUS
      <3>3. r.at = "acting"
        BY <3>1, <3>2 DEF CallRequest
      <3>4. Moves(q, {"acting"}) /\ UNCHANGED <<lock, tried>>
        BY <1>0, <2>1, <3>2, <3>3
        DEF Admit, Proceed, SlotTypes, Moves, sessionVars, historyVars
      <3> QED
        BY <1>1, <3>4
    <2>2. CASE Deny(q) \/ EndCall(q)
      <3>1. Moves(q, {"idle"}) /\ UNCHANGED <<lock, tried>>
        BY <1>0, <2>2 DEF Deny, EndCall, Finish, SlotTypes, Moves, sessionVars, historyVars
      <3> QED
        BY <1>1, <3>1
    <2> QED
      BY <1>4, <2>1, <2>2
  <1>5. ASSUME NEW e \in Employees, NEW role \in Roles, NEW active \in BOOLEAN,
               UpdateEmployee(e, role, active)
        PROVE  GuessInv'
    <2>1. UNCHANGED <<lock, tried>>
      BY <1>5 DEF UpdateEmployee, sessionVars, historyVars
    <2>2. ASSUME NEW q \in Requests, req'[q] # req[q]
          PROVE  req'[q].at = "call"
      <3>1. At(q, "call")
        BY <1>5, <2>2 DEF UpdateEmployee
      <3>2. req[q] \in CallRequest /\ req'[q] = [req[q] EXCEPT !.held = @ \cup {role}]
        BY <1>5, <2>2, <3>1, SlotShapes DEF UpdateEmployee
      <3> QED
        BY <3>1, <3>2 DEF CallRequest, At
    <2> QED
      BY <2>1, <2>2, GuessKept DEF InFlight
  \* A login begins only where the account is open.
  <1>6. ASSUME NEW q \in Requests, NEW d \in Devices, NEW e \in Employees,
               BeginPinLogin(q, d, e)
        PROVE  GuessInv'
    <2>1. \A f \in Employees : lock[f].left > 0 => f # e
      BY <1>0, <1>6 DEF BeginPinLogin, NotLocked, LockState
    <2>2. UNCHANGED <<lock, tried>>
      BY <1>6 DEF BeginPinLogin, sessionVars, historyVars
    <2>3. /\ req'[q].employee = e
          /\ \A p \in Requests \ {q} : req'[p] = req[p]
      BY <1>0, <1>6 DEF BeginPinLogin, Begin, SlotTypes
    <2>4. \A f \in Employees : lock[f].left > 0 => InFlight(f)' \subseteq InFlight(f)
      BY <2>1, <2>3 DEF InFlight
    <2> QED
      BY <2>2, <2>4, GuessKept
  <1>7. ASSUME NEW q \in Requests, NEW d \in Devices, BeginRefresh(q, d)
        PROVE  GuessInv'
    <2>1. UNCHANGED <<lock, tried>>
      BY <1>7 DEF BeginRefresh, sessionVars, historyVars
    <2>2. /\ req'[q].employee = None
          /\ \A p \in Requests \ {q} : req'[p] = req[p]
      BY <1>0, <1>7 DEF BeginRefresh, Begin, SlotTypes
    <2>3. \A e \in Employees : InFlight(e)' \subseteq InFlight(e)
      BY <2>2, StaffAssumption DEF InFlight
    <2> QED
      BY <2>1, <2>3, GuessKept
  <1>8. ASSUME NEW q \in Requests, Renew(q)
        PROVE  GuessInv'
    <2>1. UNCHANGED <<lock, tried>>
      BY <1>8 DEF Renew, historyVars
    <2>2. CASE req'[q].at = "idle" /\ \A p \in Requests \ {q} : req'[p] = req[p]
      <3>1. Moves(q, {"idle"})
        BY <2>2 DEF Moves
      <3> QED
        BY <1>1, <2>1, <3>1
    <2>3. CASE /\ req'[q].employee = req[q].employee
               /\ \A p \in Requests \ {q} : req'[p] = req[p]
      <3>1. \A e \in Employees : InFlight(e)' \subseteq InFlight(e)
        BY <1>8, <2>3 DEF InFlight, Renew, At
      <3> QED
        BY <2>1, <3>1, GuessKept
    <2> QED
      BY <1>0, <1>8, <2>2, <2>3 DEF Renew, Proceed, Finish, SlotTypes
  <1>9. ASSUME NEW q \in Requests, AcceptPin(q)
        PROVE  GuessInv'
    <2>1. PICK e \in Employees : e = req[q].employee
      BY <1>9, SlotShapes DEF AcceptPin
    <2>2. /\ lock' = [lock EXCEPT ![e] = Unlocked] /\ tried' = [tried EXCEPT ![e] = 0]
          /\ Moves(q, {"idle"})
      BY <1>0, <1>9, <2>1 DEF AcceptPin, Finish, SlotTypes, Moves
    <2> SUFFICES ASSUME NEW f \in Employees
                 PROVE  /\ lock'[f].failures < MaxFailures
                        /\ lock'[f].left = 0 => tried'[f] <= lock'[f].failures
                        /\ lock'[f].left > 0 => tried'[f] + Cardinality(InFlight(f)')
                                                  < MaxFailures + Cardinality(Requests)
      BY DEF GuessInv
    <2>3. CASE f = e
      BY <1>0, <2>2, <2>3 DEF Unlocked
    <2>4. CASE f # e
      <3>1. lock'[f] = lock[f] /\ tried'[f] = tried[f]
        BY <1>0, <2>2, <2>4
      <3>2. InFlight(f)' \subseteq InFlight(f) /\ InFlight(f) \subseteq Requests
        BY <2>2 DEF InFlight, Moves
      <3> QED
        BY <1>0, <3>1, <3>2, Counts DEF GuessInv
    <2> QED
      BY <2>3, <2>4
  <1>10. ASSUME NEW q \in Requests, RejectPin(q)
         PROVE  GuessInv'
    <2>1. PICK e \in Employees : e = req[q].employee
      BY <1>10, SlotShapes DEF RejectPin
    <2>2. /\ lock' = [lock EXCEPT ![e] = AfterFailure(lock[e])]
          /\ tried' = [tried EXCEPT ![e] = IF @ < GuessBound THEN @ + 1 ELSE @]
          /\ Moves(q, {"idle"})
      BY <1>0, <1>10, <2>1 DEF RejectPin, Finish, SlotTypes, Moves
    <2> SUFFICES ASSUME NEW f \in Employees
                 PROVE  /\ lock'[f].failures < MaxFailures
                        /\ lock'[f].left = 0 => tried'[f] <= lock'[f].failures
                        /\ lock'[f].left > 0 => tried'[f] + Cardinality(InFlight(f)')
                                                  < MaxFailures + Cardinality(Requests)
      BY DEF GuessInv
    <2>3. InFlight(f)' \subseteq InFlight(f) /\ InFlight(f) \subseteq Requests
      BY <2>2 DEF InFlight, Moves
    <2>4. CASE f # e
      <3>1. lock'[f] = lock[f] /\ tried'[f] = tried[f]
        BY <1>0, <2>2, <2>4
      <3> QED
        BY <1>0, <2>3, <3>1, Counts DEF GuessInv
    <2>5. CASE f = e
      <3>1. lock'[f] = AfterFailure(lock[e]) /\ tried'[f] \in Nat /\ tried'[f] <= tried[e] + 1
        BY <1>0, <2>2, <2>5
      <3>2. q \in InFlight(f) /\ q \notin InFlight(f)'
        BY <1>10, <2>1, <2>2, <2>5 DEF RejectPin, At, InFlight, Moves
      <3>3. /\ Cardinality(InFlight(f)') < Cardinality(InFlight(f))
            /\ Cardinality(InFlight(f)) <= Cardinality(Requests)
            /\ Cardinality(InFlight(f)') \in Nat /\ Cardinality(InFlight(f)) \in Nat
            /\ Cardinality(Requests) \in Nat
        BY <2>3, <3>2, Counts
      <3>4. /\ lock'[f] \in LockState /\ lock'[f].failures < MaxFailures
            /\ \/ /\ lock'[f].failures = lock[e].failures + 1
                  /\ lock'[f].left = lock[e].left
               \/ lock'[f].left > 0
        BY <1>0, <3>1, AfterFailureIsState
      <3>5. /\ lock[e].failures < MaxFailures
            /\ lock[e].left = 0 => tried[e] <= lock[e].failures
            /\ lock[e].left > 0 => tried[e] + Cardinality(InFlight(f))
                                     < MaxFailures + Cardinality(Requests)
        BY <2>5 DEF GuessInv
      <3> QED
        BY <1>0, <3>1, <3>3, <3>4, <3>5 DEF LockState
    <2> QED
      BY <2>4, <2>5
  <1>11. ASSUME NEW q \in Requests, CommitPassword(q) \/ RefusePassword(q) \/ CommitResetPin(q)
         PROVE  GuessInv'
    <2>1. UNCHANGED <<lock, tried>> /\ Moves(q, {"idle"})
      BY <1>0, <1>11
      DEF CommitPassword, RefusePassword, CommitResetPin, Finish, sessionVars, historyVars,
          SlotTypes, Moves
    <2> QED
      BY <1>1, <2>1
  <1>12. ASSUME NEW q \in Requests, NEW e \in Employees, BeginPassword(q, e) \/ BeginResetPin(q, e)
         PROVE  GuessInv'
    <2>1. UNCHANGED <<lock, tried>> /\ Moves(q, {"login", "reset"})
      BY <1>0, <1>12
      DEF BeginPassword, BeginResetPin, Begin, sessionVars, historyVars, SlotTypes, Moves
    <2> QED
      BY <1>1, <2>1
  <1>13. CASE Minute
    <2>1. \A e \in Employees : InFlight(e)' = InFlight(e)
      BY <1>13 DEF Minute, InFlight
    <2> SUFFICES ASSUME NEW e \in Employees
                 PROVE  /\ lock'[e].failures < MaxFailures
                        /\ lock'[e].left = 0 => tried'[e] <= lock'[e].failures
                        /\ lock'[e].left > 0 => tried'[e] + Cardinality(InFlight(e)')
                                                  < MaxFailures + Cardinality(Requests)
      BY DEF GuessInv
    <2>2. /\ lock'[e].failures = lock[e].failures
          /\ lock'[e].left = IF lock[e].left > 0 THEN lock[e].left - 1 ELSE lock[e].left
          /\ tried'[e] = IF lock[e].left = 1 THEN 0 ELSE tried[e]
      BY <1>0, <1>13 DEF Minute, LockState
    <2> QED
      BY <1>0, <2>1, <2>2 DEF GuessInv, LockState
  <1>14. CASE Crash
    BY <1>0, <1>14 DEF Crash, GuessInv, Unlocked
  <1>15. CASE UNCHANGED <<lock, tried, req>>
    BY <1>15, GuessKept DEF InFlight
  <1>16. ASSUME NEW q \in Requests, SignInStep(q)
         PROVE  GuessInv'
    BY <1>6, <1>7, <1>8, <1>9, <1>10, <1>11, <1>12, <1>16 DEF SignInStep
  <1> QED
    BY <1>2, <1>3, <1>4, <1>5, <1>13, <1>14, <1>15, <1>16
    DEF Next, RevokeDevice, Lapse, FallDue, RunOut, vars, sessionVars, historyVars

\* GuessesAreLimited: the limit of wrong PINs is exceeded by no more than were
\* in flight together.
THEOREM GuessesAreAlwaysLimited == Spec => []GuessesAreLimited
  <1>1. Init => GuessInv
    BY LockoutAssumption DEF Init, GuessInv, Unlocked
  <1>2. StaffRows /\ GuessInv => GuessesAreLimited
    <2> SUFFICES ASSUME StaffRows, GuessInv, NEW e \in Employees
                 PROVE  tried[e] < GuessBound
      BY DEF GuessesAreLimited
    <2>1. lock[e] \in LockState /\ tried[e] \in Nat /\ MaxFailures \in Nat
      BY LockoutAssumption DEF StaffRows, RowTypes
    <2>2. InFlight(e) \subseteq Requests
      BY DEF InFlight
    <2>3. Cardinality(InFlight(e)) \in Nat /\ Cardinality(Requests) \in Nat
      BY <2>2, Counts
    <2> QED
      BY <2>1, <2>3 DEF GuessInv, GuessBound, LockState
  <1> QED
    BY <1>1, <1>2, StaffInit, StaffStepRows, GuessStep, PTL DEF Spec

-----------------------------------------------------------------------------
(***************************************************************************)
(* Devices.                                                                *)
(***************************************************************************)
LEMMA RevocationKept ==
  ASSUME StaffRows, [Next]_vars, NEW d \in Devices, device[d] # None, device[d].revoked
  PROVE  device'[d].revoked
  <1>0. device \in [Devices -> Device \cup {None}] /\ device[d] \in Device
    BY DEF StaffRows, RowTypes
  <1>1. ASSUME NEW q \in Requests, Renew(q)
        PROVE  device'[d].revoked
    <2>1. PICK c \in Devices : device' = [device EXCEPT ![c] = Renewed(device[c])]
      BY <1>1, SlotShapes DEF Renew
    <2> QED
      BY <1>0, <2>1, RenewedIsDevice
  <1>2. ASSUME NEW e, NEW i, InsertDevice(e, i)
        PROVE  device'[d].revoked
    BY <1>0, <1>2, InsertDeviceAddsOne
  <1>3. ASSUME NEW c \in Devices, RevokeDevice(c) \/ Lapse(c)
        PROVE  device'[d].revoked
    <2>1. CASE c = d
      BY <1>0, <1>3, <2>1 DEF RevokeDevice, Lapse, Device
    <2>2. CASE c # d
      BY <1>0, <1>3, <2>2 DEF RevokeDevice, Lapse
    <2> QED
      BY <2>1, <2>2
  <1>4. CASE device' = device
    BY <1>4
  <1>5. ASSUME NEW q \in Requests, OnboardingStep(q)
        PROVE  device'[d].revoked
    BY <1>2, <1>4, <1>5
    DEF OnboardingStep, BeginHire, BeginReissue, BeginRevoke, BeginAccept, BeginExpire,
        Withdraw, Look, RevokeOld, Mint, CommitExpire, CommitAccept, sessionVars
  <1>6. ASSUME NEW q \in Requests, SignInStep(q)
        PROVE  device'[d].revoked
    BY <1>1, <1>2, <1>4, <1>6
    DEF SignInStep, BeginRefresh, BeginPinLogin, BeginPassword, BeginResetPin, AcceptPin,
        RejectPin, CommitPassword, RefusePassword, CommitResetPin, sessionVars
  <1> QED
    BY <1>3, <1>4, <1>5, <1>6
    DEF Next, BeginCall, Admit, Deny, EndCall, UpdateEmployee, FallDue, RunOut, Minute, Crash,
        vars, sessionVars

\* RevocationSticks: no renewal in flight undoes the revocation of a device.
THEOREM RevocationAlwaysSticks == Spec => RevocationSticks
  <1>1. StaffRows /\ [Next]_vars =>
          [\A d \in Devices : device[d] # None /\ device[d].revoked => device'[d].revoked]_vars
    BY RevocationKept
  <1> QED
    BY <1>1, StaffInit, StaffStepRows, PTL DEF Spec, RevocationSticks

-----------------------------------------------------------------------------
(***************************************************************************)
(* Invitations.  Who will be let in by one, and who has been, had it in    *)
(* hand together (SpentInv); what will be pending when the requests that   *)
(* issue to an employee have inserted is as many as issued together        *)
(* (LiveInv).                                                              *)
(***************************************************************************)
\* Places of handlers that have nothing to do with invitations.
Elsewhere == {"idle", "renew", "verify", "login", "reset", "call", "acting"}

SlotKept(p) == req'[p] = req[p] \/ req'[p].at \in Elsewhere

\* Invitations keep their addressee, and none becomes pending.
InvitationsWither ==
  \A i \in Invitations :
    /\ Issued(i)' <=> Issued(i)
    /\ Issued(i) => invitation'[i].to = invitation[i].to
    /\ Pending(i)' => Pending(i)

LEMMA MarkWithers ==
  ASSUME StaffRows, NEW i \in Invitations, Issued(i),
         NEW status \in {"accepted", "revoked", "expired"}, Mark(i, status)
  PROVE  /\ InvitationsWither /\ ~Pending(i)'
         /\ invitation'[i].status = status
         /\ \A j \in Invitations \ {i} : invitation'[j] = invitation[j]
  <1>1. RowTypes /\ IssuedToHired
    BY DEF StaffRows
  <1>2. invitation'[i].status = status /\ \A j \in Invitations \ {i} : invitation'[j] = invitation[j]
    BY <1>1 DEF RowTypes, Mark, Issued, Invitation
  <1> QED
    BY <1>1, <1>2, MarkKeepsRows DEF InvitationsWither, Pending, Issued

\* The steps without a part in onboarding.
LEMMA ElsewhereSteps ==
  ASSUME StaffRows, [Next]_vars, \A q \in Requests : ~OnboardingStep(q)
  PROVE  /\ \A p \in Requests : SlotKept(p)
         /\ UNCHANGED <<issuers, together>>
         /\ \A i \in Invitations :
              /\ Issued(i)' <=> Issued(i)
              /\ Issued(i) => /\ invitation'[i].to = invitation[i].to
                              /\ invitation'[i].status = invitation[i].status
                              /\ invitation[i].due => invitation'[i].due
         /\ \A d \in Devices, i \in Invitations :
              device'[d] # None /\ device'[d].origin = i
                <=> device[d] # None /\ device[d].origin = i
  <1> DEFINE Slots == \A p \in Requests : SlotKept(p)
             Rows == \A i \in Invitations :
                       /\ Issued(i)' <=> Issued(i)
                       /\ Issued(i) => /\ invitation'[i].to = invitation[i].to
                                       /\ invitation'[i].status = invitation[i].status
                                       /\ invitation[i].due => invitation'[i].due
             Origins == \A d \in Devices, i \in Invitations :
                          device'[d] # None /\ device'[d].origin = i
                            <=> device[d] # None /\ device[d].origin = i
  <1>0. /\ SlotTypes /\ Idle.at = "idle" /\ RowTypes
        /\ None \notin Invitations /\ None \notin Device
    BY StaffAssumption, RowAssumption DEF StaffRows, Idle
  <1>1. invitation' = invitation => Rows
    BY DEF Issued
  <1>2. device' = device => Origins
    OBVIOUS
  <1>3. req' = req => Slots
    BY DEF SlotKept
  <1>4. ASSUME NEW q \in Requests, NEW places \in SUBSET Elsewhere, Moves(q, places)
        PROVE  Slots
    BY <1>4 DEF Moves, SlotKept
  <1>5. ASSUME NEW e, InsertDevice(e, None)
        PROVE  Origins
    <2>1. PICK d \in Devices :
            device[d] = None /\ device' = [device EXCEPT ![d] = NewDevice(e, None)]
      BY <1>5, InsertDeviceAddsOne
    <2>2. NewDevice(e, None).origin = None
      BY DEF NewDevice
    <2> HIDE DEF NewDevice
    <2> QED
      BY <1>0, <2>1, <2>2 DEF RowTypes
  <1>6. ASSUME NEW q \in Requests, Renew(q)
        PROVE  Origins
    <2>1. Grounded(req[q]) /\ req[q].device \in Devices
      BY <1>6, SlotShapes DEF Renew, StaffRows
    <2>2. PICK d \in Devices : d = req[q].device /\ device[d] \in Device
      BY <1>0, <1>6, <2>1 DEF Grounded, Renew, At, RowTypes
    <2>3. device' = [device EXCEPT ![d] = Renewed(device[d])]
      BY <1>6, <2>2 DEF Renew
    <2>4. Renewed(device[d]) # None /\ Renewed(device[d]).origin = device[d].origin
      BY <1>0, <2>2, RenewedIsDevice
    <2> QED
      BY <1>0, <2>2, <2>3, <2>4 DEF RowTypes
  <1>7. ASSUME NEW q \in Requests, SignInStep(q)
        PROVE  Slots /\ Rows /\ Origins /\ UNCHANGED <<issuers, together>>
    <2>1. Slots
      BY <1>4, <1>7, SignInPlaces DEF Elsewhere
    <2>2. UNCHANGED <<invitation, issuers, together>>
      BY <1>7
      DEF SignInStep, BeginRefresh, BeginPinLogin, BeginPassword, BeginResetPin, Renew,
          AcceptPin, RejectPin, CommitPassword, RefusePassword, CommitResetPin, rosterVars,
          historyVars
    <2>3. Origins
      BY <1>2, <1>5, <1>6, <1>7
      DEF SignInStep, BeginRefresh, BeginPinLogin, BeginPassword, BeginResetPin,
          AcceptPin, RejectPin, CommitPassword, RefusePassword, CommitResetPin, sessionVars
    <2> QED
      BY <1>1, <2>1, <2>2, <2>3
  <1>8. ASSUME NEW q \in Requests,
               \/ \E pass \in passes, key \in Keys : BeginCall(q, pass[1], pass[2], key)
               \/ Admit(q) \/ Deny(q) \/ EndCall(q)
        PROVE  Slots /\ Rows /\ Origins /\ UNCHANGED <<issuers, together>>
    <2>1. UNCHANGED <<invitation, device, issuers, together>>
      BY <1>8 DEF BeginCall, Admit, Deny, EndCall, rosterVars, sessionVars, historyVars
    <2>2. CASE Admit(q)
      <3>1. req[q] \in CallRequest
        BY <2>2, SlotShapes DEF Admit
      <3>2. PICK r : r = [req[q] EXCEPT !.at = "acting"]
        OBVIOUS
      <3>3. r.at = "acting"
        BY <3>1, <3>2 DEF CallRequest
      <3>4. Moves(q, {"acting"})
        BY <1>0, <2>2, <3>2, <3>3 DEF Admit, Proceed, SlotTypes, Moves
      <3> QED
        BY <1>1, <1>2, <1>4, <2>1, <3>4 DEF Elsewhere
    <2>3. CASE Deny(q) \/ EndCall(q)
      <3>1. Moves(q, {"idle"})
        BY <1>0, <2>3 DEF Deny, EndCall, Finish, SlotTypes, Moves
      <3> QED
        BY <1>1, <1>2, <1>4, <2>1, <3>1 DEF Elsewhere
    <2>4. CASE \E pass \in passes, key \in Keys : BeginCall(q, pass[1], pass[2], key)
      <3>1. Moves(q, {"call"})
        BY <1>0, <2>4 DEF BeginCall, Begin, SlotTypes, Moves
      <3> QED
        BY <1>1, <1>2, <1>4, <2>1, <3>1 DEF Elsewhere
    <2> QED
      BY <1>8, <2>2, <2>3, <2>4
  <1>9. ASSUME NEW e \in Employees, NEW role \in Roles, NEW active \in BOOLEAN,
               UpdateEmployee(e, role, active)
        PROVE  Slots /\ Rows /\ Origins /\ UNCHANGED <<issuers, together>>
    <2>1. UNCHANGED <<invitation, device, issuers, together>>
      BY <1>9 DEF UpdateEmployee, sessionVars, historyVars
    <2>2. ASSUME NEW q \in Requests, req'[q] # req[q]
          PROVE  req'[q].at = "call"
      <3>1. At(q, "call")
        BY <1>9, <2>2 DEF UpdateEmployee
      <3>2. req[q] \in CallRequest /\ req'[q] = [req[q] EXCEPT !.held = @ \cup {role}]
        BY <1>9, <2>2, <3>1, SlotShapes DEF UpdateEmployee
      <3> QED
        BY <3>1, <3>2 DEF CallRequest, At
    <2> QED
      BY <1>1, <1>2, <2>1, <2>2 DEF SlotKept, Elsewhere
  <1>10. ASSUME NEW d \in Devices, RevokeDevice(d) \/ Lapse(d)
         PROVE  Slots /\ Rows /\ Origins /\ UNCHANGED <<issuers, together>>
    <2>1. UNCHANGED <<req, invitation, issuers, together>> /\ device[d] # None
      BY <1>10 DEF RevokeDevice, Lapse, Trusted, rosterVars, historyVars
    <2>2. PICK row : /\ device' = [device EXCEPT ![d] = row]
                     /\ \/ row = [device[d] EXCEPT !.revoked = TRUE]
                        \/ row = [device[d] EXCEPT !.lapsed = TRUE]
      BY <1>10 DEF RevokeDevice, Lapse
    <2>3. row \in Device /\ row.origin = device[d].origin
      BY <1>0, <2>1, <2>2 DEF RowTypes, Device
    <2>4. Origins
      BY <1>0, <2>1, <2>2, <2>3 DEF RowTypes
    <2> QED
      BY <1>1, <1>3, <2>1, <2>4
  <1>11. ASSUME NEW i \in Invitations, FallDue(i)
         PROVE  Slots /\ Rows /\ Origins /\ UNCHANGED <<issuers, together>>
    <2>1. /\ UNCHANGED <<req, device, issuers, together>> /\ invitation[i] \in Invitation
          /\ invitation' = [invitation EXCEPT ![i].due = TRUE]
      BY <1>0, <1>11
      DEF FallDue, sessionVars, historyVars, Live, Pending, Issued, RowTypes
    <2>2. Rows
      BY <1>0, <2>1, RowAssumption DEF RowTypes, Invitation, Issued
    <2> QED
      BY <1>2, <1>3, <2>1, <2>2
  <1>12. CASE Crash
    <2>1. Slots
      BY <1>0, <1>12 DEF Crash, SlotKept, Elsewhere
    <2> QED
      BY <1>1, <1>2, <1>12, <2>1 DEF Crash, rosterVars
  <1>13. CASE UNCHANGED <<req, rosterVars, device, issuers, together>>
    BY <1>1, <1>2, <1>3, <1>13 DEF rosterVars
  <1> QED
    BY <1>7, <1>8, <1>9, <1>10, <1>11, <1>12, <1>13
    DEF Next, RunOut, Minute, vars, rosterVars, sessionVars, historyVars

-----------------------------------------------------------------------------
(***************************************************************************)
(* An invitation is used once.                                             *)
(***************************************************************************)
Made(i) == {d \in Devices : device[d] # None /\ device[d].origin = i}

Accepted(i) == Issued(i) /\ invitation[i].status = "accepted"

Accepts(q, i) == At(q, "accept") /\ req[q].invitation = i
Expires(q, i) == At(q, "expire") /\ req[q].invitation = i
Accepting(i)  == {q \in Requests : Accepts(q, i)}

\* Who has an invitation in hand is counted.  As long as the link opens it has
\* let in nobody, so that those who have been let in and those who will be had
\* it in hand together.  What only one had in hand is still as it found it.
HandsCounted(i) == Cardinality(HoldersOf(i)) <= together[i]

LetInCounted(i) ==
  /\ IsFiniteSet(Made(i))
  /\ Cardinality(Made(i)) + Cardinality(Accepting(i)) <= together[i]

ShutAfterUse(i) ==
  /\ ~Issued(i) \/ (Usable(i) /\ ~invitation[i].due) => Made(i) = {}
  /\ Accepted(i) => Made(i) # {}
  /\ \A q \in Requests : Expires(q, i) => invitation[i].due

OneByOne(i) ==
  together[i] <= 1 => /\ HoldersOf(i) # {} => Usable(i)
                      /\ Made(i) # {} => Accepted(i)

Spent(i) == HandsCounted(i) /\ LetInCounted(i) /\ ShutAfterUse(i) /\ OneByOne(i)

SpentInv == \A i \in Invitations : Spent(i)

LEMMA Hands ==
  ASSUME StaffRows, NEW q \in Requests
  PROVE  /\ InHand(q) \subseteq Invitations
         /\ \A i \in InHand(q) : Issued(i)
         /\ At(q, "replace") => InHand(q) = req[q].old
         /\ At(q, "withdraw") \/ At(q, "accept") \/ At(q, "expire")
              => InHand(q) = {req[q].invitation}
         /\ At(q, "look") \/ req[q].at \in Elsewhere => InHand(q) = {}
  <1>1. /\ At(q, "replace") => InHand(q) = req[q].old
        /\ At(q, "withdraw") \/ At(q, "accept") \/ At(q, "expire")
              => InHand(q) = {req[q].invitation}
        /\ ~(At(q, "replace") \/ At(q, "withdraw") \/ At(q, "accept") \/ At(q, "expire"))
              => InHand(q) = {}
    BY DEF InHand, At
  <1>2. Grounded(req[q])
    BY DEF StaffRows
  <1>3. At(q, "replace") => /\ InHand(q) \subseteq Invitations
                            /\ \A i \in InHand(q) : Issued(i)
    BY <1>1, <1>2, SlotShapes DEF At, Grounded, ReplaceRequest
  <1>4. At(q, "withdraw") \/ At(q, "accept") \/ At(q, "expire")
          => InHand(q) \subseteq Invitations /\ \A i \in InHand(q) : Issued(i)
    BY <1>1, <1>2, SlotShapes DEF At, Grounded
  <1>5. At(q, "look") \/ req[q].at \in Elsewhere => InHand(q) = {}
    BY <1>1 DEF At, Elsewhere
  <1>6. /\ InHand(q) \subseteq Invitations
        /\ \A i \in InHand(q) : Issued(i)
    <2>1. CASE At(q, "replace")
      BY <1>3, <2>1
    <2>2. CASE At(q, "withdraw") \/ At(q, "accept") \/ At(q, "expire")
      BY <1>4, <2>2
    <2>3. CASE InHand(q) = {}
      BY <2>3
    <2> QED
      BY <1>1, <2>1, <2>2, <2>3
  <1>7. At(q, "replace") => InHand(q) = req[q].old
    BY <1>1
  <1>8. At(q, "withdraw") \/ At(q, "accept") \/ At(q, "expire")
          => InHand(q) = {req[q].invitation}
    BY <1>1
  <1> QED
    BY <1>5, <1>6, <1>7, <1>8

\* Who is about to accept an invitation has it in hand.
LEMMA AcceptersHold ==
  ASSUME NEW i
  PROVE  /\ Accepting(i) \subseteq HoldersOf(i)
         /\ HoldersOf(i) \in SUBSET Requests /\ Accepting(i) \in SUBSET Requests
         /\ Cardinality(Accepting(i)) \in Nat /\ Cardinality(HoldersOf(i)) \in Nat
         /\ Cardinality(Accepting(i)) <= Cardinality(HoldersOf(i))
  <1>1. /\ Accepting(i) \subseteq HoldersOf(i)
        /\ HoldersOf(i) \in SUBSET Requests /\ Accepting(i) \in SUBSET Requests
    BY DEF Accepting, Accepts, HoldersOf, InHand, At
  <1> QED
    BY <1>1, Counts

\* p has nothing more to do with i than before.
LetsBe(p, i) ==
  /\ i \in InHand(p)' => i \in InHand(p)
  /\ Accepts(p, i)' => Accepts(p, i)
  /\ Expires(p, i)' => Expires(p, i)

\* A slot that stays as it is, or is not concerned with a written invitation.
LEMMA Unconcerned ==
  ASSUME NEW p, NEW i, req'[p] = req[p] \/ req'[p].at \in Elsewhere \cup {"look"}
  PROVE  LetsBe(p, i)
  <1>1. CASE req'[p] = req[p]
    BY <1>1 DEF LetsBe, InHand, Accepts, Expires, At
  <1>2. CASE req'[p].at \in Elsewhere \cup {"look"}
    BY <1>2 DEF LetsBe, InHand, Accepts, Expires, At, Elsewhere
  <1> QED
    BY <1>1, <1>2

LEMMA FewerHands ==
  ASSUME NEW i, \A p \in Requests : LetsBe(p, i)
  PROVE  /\ HoldersOf(i)' \subseteq HoldersOf(i)
         /\ Cardinality(HoldersOf(i)') <= Cardinality(HoldersOf(i))
         /\ Cardinality(Accepting(i)') <= Cardinality(Accepting(i))
         /\ Cardinality(HoldersOf(i)') \in Nat /\ Cardinality(Accepting(i)') \in Nat
  <1>1. PICK H, A : H = HoldersOf(i)' /\ A = Accepting(i)'
    OBVIOUS
  <1>2. H \subseteq HoldersOf(i) /\ A \subseteq Accepting(i)
    BY <1>1 DEF HoldersOf, Accepting, LetsBe
  <1> QED
    BY <1>1, <1>2, AcceptersHold, Counts

\* At most the due time of i comes.
StandsAsItWas(i) ==
  /\ Issued(i)' <=> Issued(i)
  /\ Issued(i) => /\ invitation'[i].status = invitation[i].status
                  /\ invitation[i].due => invitation'[i].due

\* Nobody takes i in hand, and nothing is written of it but its due time.
LEMMA SpentKept ==
  ASSUME StaffRows, NEW i \in Invitations, Spent(i),
         \A p \in Requests : LetsBe(p, i),
         together'[i] \in Nat, together[i] <= together'[i],
         StandsAsItWas(i), Made(i)' = Made(i)
  PROVE  Spent(i)'
  <1>1. together[i] \in Nat
    BY DEF StaffRows, RowTypes
  <1>2. HandsCounted(i)'
    BY <1>1, FewerHands, AcceptersHold DEF Spent, HandsCounted
  <1>3. LetInCounted(i)'
    <2>1. PICK M, n, m :
            M = Made(i) /\ n = Cardinality(M) /\ m = Cardinality(Accepting(i)')
      OBVIOUS
    <2>2. /\ IsFiniteSet(M) /\ n \in Nat /\ m \in Nat
          /\ m <= Cardinality(Accepting(i)) /\ Cardinality(Accepting(i)) \in Nat
          /\ n + Cardinality(Accepting(i)) <= together[i]
      BY <2>1, FewerHands, AcceptersHold, FS_CardinalityType DEF Spent, LetInCounted
    <2>3. n + m <= together'[i]
      BY <1>1, <2>2
    <2> QED
      BY <2>1, <2>2, <2>3 DEF LetInCounted
  <1>4. ShutAfterUse(i)'
    <2>1. (Usable(i)' <=> Usable(i)) /\ (Accepted(i)' <=> Accepted(i))
      BY DEF Usable, Accepted, StandsAsItWas
    <2>2. ASSUME ~Issued(i)' \/ (Usable(i)' /\ ~invitation'[i].due)
          PROVE  Made(i) = {}
      <3>1. CASE ~Issued(i)
        BY <3>1 DEF Spent, ShutAfterUse
      <3>2. CASE Issued(i)
        <4>1. Usable(i) /\ ~invitation[i].due
          BY <2>1, <2>2, <3>2 DEF StandsAsItWas
        <4> QED
          BY <4>1 DEF Spent, ShutAfterUse
      <3> QED
        BY <3>1, <3>2
    <2>3. ASSUME NEW q \in Requests, Expires(q, i)' PROVE invitation'[i].due
      <3>1. Expires(q, i) /\ Grounded(req[q])
        BY <2>3 DEF LetsBe, StaffRows
      <3>2. Issued(i)
        BY <3>1 DEF Expires, At, Grounded
      <3> QED
        BY <3>1, <3>2 DEF Spent, ShutAfterUse, StandsAsItWas
    <2>4. Accepted(i)' => Made(i)' # {}
      BY <2>1 DEF Spent, ShutAfterUse
    <2> QED
      BY <2>2, <2>3, <2>4 DEF ShutAfterUse
  <1>5. OneByOne(i)'
    <2>1. (Usable(i)' <=> Usable(i)) /\ (Accepted(i)' <=> Accepted(i))
      BY DEF Usable, Accepted, StandsAsItWas
    <2> QED
      BY <1>1, <2>1, FewerHands DEF Spent, OneByOne
  <1> QED
    BY <1>2, <1>3, <1>4, <1>5 DEF Spent

\* A handler takes i, which it found usable, in hand: to let somebody in only
\* while it is open, and to shut it only when it is due.
LEMMA SpentTaking ==
  ASSUME StaffRows, NEW i \in Invitations, Spent(i), NEW q \in Requests,
         UNCHANGED <<invitation, device>>, Usable(i),
         \A p \in Requests \ {q} : LetsBe(p, i),
         Accepts(q, i)' => ~invitation[i].due,
         Expires(q, i)' => invitation[i].due,
         together'[i] \in Nat, together[i] <= together'[i],
         Cardinality(HoldersOf(i)) + 1 <= together'[i]
  PROVE  Spent(i)'
  <1>1. together[i] \in Nat
    BY DEF StaffRows, RowTypes
  <1>2. /\ Made(i)' = Made(i) /\ (Accepted(i)' <=> Accepted(i))
        /\ (Usable(i)' <=> Usable(i)) /\ (Issued(i)' <=> Issued(i))
    BY DEF Made, Accepted, Usable, Issued
  <1>3. PICK H, A, n, a :
          /\ H = HoldersOf(i)' /\ A = Accepting(i)'
          /\ n = Cardinality(HoldersOf(i)) /\ a = Cardinality(Accepting(i))
    OBVIOUS
  <1>4. /\ H \subseteq HoldersOf(i) \cup {q} /\ A \subseteq Accepting(i) \cup {q}
        /\ A \subseteq H
        /\ q \in A => ~invitation[i].due
    BY <1>3 DEF HoldersOf, Accepting, LetsBe, Accepts, InHand, At
  <1>5. n \in Nat /\ a \in Nat /\ a <= n
    BY <1>3, AcceptersHold
  <1>6. Cardinality(H) \in Nat /\ Cardinality(H) <= n + 1
    <2>1. /\ IsFiniteSet(HoldersOf(i) \cup {q})
          /\ Cardinality(HoldersOf(i) \cup {q}) <= n + 1
      BY <1>3, <1>5, AcceptersHold, RequestCounts, FS_AddElement
    <2>2. HoldersOf(i) \cup {q} \in SUBSET Requests /\ H \in SUBSET (HoldersOf(i) \cup {q})
      BY <1>4 DEF HoldersOf
    <2>3. /\ Cardinality(H) \in Nat /\ Cardinality(HoldersOf(i) \cup {q}) \in Nat
          /\ Cardinality(H) <= Cardinality(HoldersOf(i) \cup {q})
      BY <2>2, Counts
    <2> QED
      BY <1>5, <2>1, <2>3
  <1>7. Cardinality(A) \in Nat /\ Cardinality(A) <= Cardinality(H)
    <2>1. H \in SUBSET Requests
      BY <1>4 DEF HoldersOf
    <2> QED
      BY <1>4, <2>1, Counts
  <1>8. HandsCounted(i)'
    <2>1. Cardinality(H) <= together'[i]
      BY <1>3, <1>5, <1>6
    <2> QED
      BY <1>3, <2>1 DEF HandsCounted
  <1>9. LetInCounted(i)'
    <2>1. PICK m : m = Cardinality(Made(i))
      OBVIOUS
    <2>2. IsFiniteSet(Made(i)) /\ m \in Nat /\ m + a <= together[i]
      BY <1>3, <2>1, FS_CardinalityType DEF Spent, LetInCounted
    <2>3. m + Cardinality(A) <= together'[i]
      <3>1. CASE q \in A
        <4>1. Made(i) = {}
          BY <1>4, <3>1 DEF Spent, ShutAfterUse
        <4>2. m = 0
          BY <2>1, <4>1, FS_EmptySet
        <4> QED
          BY <1>3, <1>5, <1>6, <1>7, <4>2
      <3>2. CASE q \notin A
        <4>1. Accepting(i) \in SUBSET Requests /\ A \in SUBSET Accepting(i)
          BY <1>4, <3>2, AcceptersHold
        <4>2. Cardinality(A) <= a
          BY <1>3, <4>1, Counts
        <4> QED
          BY <1>1, <1>5, <1>7, <2>2, <4>2
      <3> QED
        BY <3>1, <3>2
    <2> QED
      BY <1>2, <1>3, <2>1, <2>2, <2>3 DEF LetInCounted
  <1>10. ShutAfterUse(i)'
    <2>1. \A p \in Requests : Expires(p, i)' => invitation'[i].due
      BY DEF Spent, ShutAfterUse, LetsBe
    <2> QED
      BY <1>2, <2>1 DEF Spent, ShutAfterUse
  <1>11. OneByOne(i)'
    BY <1>1, <1>2 DEF Spent, OneByOne
  <1> QED
    BY <1>8, <1>9, <1>10, <1>11 DEF Spent

\* A handler writes the status of one that it had in hand, and lets go of it.
LEMMA SpentWriting ==
  ASSUME StaffRows, NEW i \in Invitations, Spent(i), NEW q \in Requests, i \in InHand(q),
         NEW status \in {"accepted", "revoked", "expired"}, Mark(i, status),
         \A p \in Requests : LetsBe(p, i), i \notin InHand(q)',
         together'[i] = together[i],
         status = "expired" => invitation[i].due,
         IF status = "accepted"
           THEN /\ q \in Accepting(i)
                /\ \E d \in Devices : d \notin Made(i) /\ Made(i)' = Made(i) \cup {d}
           ELSE Made(i)' = Made(i)
  PROVE  Spent(i)'
  <1>1. together[i] \in Nat /\ Issued(i) /\ invitation[i] \in Invitation
    BY Hands DEF StaffRows, RowTypes, Issued
  <1>2. /\ invitation'[i].status = status /\ invitation'[i].due = invitation[i].due
        /\ Issued(i)'
    <2>1. invitation' = [invitation EXCEPT ![i].status = status]
      BY DEF Mark
    <2>2. invitation'[i] = [invitation[i] EXCEPT !.status = status]
      BY <2>1 DEF StaffRows, RowTypes
    <2>3. Issued(i)'
      BY <1>1, MarkWithers DEF InvitationsWither
    <2> QED
      BY <1>1, <2>2, <2>3 DEF Invitation
  <1>3. HandsCounted(i)'
    BY <1>1, FewerHands, AcceptersHold DEF Spent, HandsCounted
  <1>4. LetInCounted(i)'
    <2>1. PICK m, a, b :
            /\ m = Cardinality(Made(i)) /\ a = Cardinality(Accepting(i))
            /\ b = Cardinality(Accepting(i)')
      OBVIOUS
    <2>2. /\ IsFiniteSet(Made(i)) /\ m \in Nat /\ a \in Nat /\ b \in Nat
          /\ m + a <= together[i] /\ b <= a
      BY <2>1, FewerHands, AcceptersHold, FS_CardinalityType DEF Spent, LetInCounted
    <2>3. CASE status = "accepted"
      <3>1. PICK d, M : d \notin Made(i) /\ M = Made(i) \cup {d} /\ Made(i)' = M
        BY <2>3
      <3>2. IsFiniteSet(M) /\ Cardinality(M) = m + 1
        BY <2>1, <2>2, <3>1, FS_AddElement
      <3>3. b < a
        <4>1. PICK A : A = Accepting(i)'
          OBVIOUS
        <4>2. A \in SUBSET Accepting(i) /\ q \in Accepting(i) \ A
          BY <2>3, <4>1 DEF Accepting, LetsBe, Accepts, InHand, At
        <4> QED
          BY <2>1, <4>1, <4>2, AcceptersHold, Counts
      <3>4. Cardinality(M) + b <= together'[i]
        BY <1>1, <2>2, <3>2, <3>3
      <3> QED
        BY <2>1, <3>1, <3>2, <3>4 DEF LetInCounted
    <2>4. CASE status # "accepted"
      <3>1. Made(i)' = Made(i) /\ m + b <= together'[i]
        BY <1>1, <2>2, <2>4
      <3> QED
        BY <2>1, <2>2, <3>1 DEF LetInCounted
    <2> QED
      BY <2>3, <2>4
  <1>5. ShutAfterUse(i)'
    <2>1. ~(Usable(i)' /\ ~invitation'[i].due)
      BY <1>2 DEF Usable
    <2>2. Accepted(i)' => Made(i)' # {}
      BY <1>2 DEF Accepted
    <2>3. \A p \in Requests : Expires(p, i)' => invitation'[i].due
      BY <1>2 DEF Spent, ShutAfterUse, LetsBe
    <2> QED
      BY <1>2, <2>1, <2>2, <2>3 DEF ShutAfterUse
  <1>6. OneByOne(i)'
    <2> SUFFICES ASSUME together'[i] <= 1
                 PROVE  /\ HoldersOf(i)' # {} => Usable(i)'
                        /\ Made(i)' # {} => Accepted(i)'
      BY DEF OneByOne
    <2>1. q \in HoldersOf(i) /\ Usable(i)
      BY DEF HoldersOf, Spent, OneByOne
    <2>2. HoldersOf(i)' = {}
      <3>1. PICK H : H = HoldersOf(i)'
        OBVIOUS
      <3>2. H \in SUBSET HoldersOf(i) /\ q \notin H /\ HoldersOf(i) \in SUBSET Requests
        BY <3>1 DEF HoldersOf, LetsBe
      <3>3. /\ IsFiniteSet(H) /\ Cardinality(H) \in Nat /\ Cardinality(HoldersOf(i)) \in Nat
            /\ Cardinality(H) < Cardinality(HoldersOf(i))
        BY <2>1, <3>2, Counts
      <3>4. Cardinality(H) = 0
        BY <1>1, <3>3 DEF Spent, HandsCounted
      <3> QED
        BY <3>1, <3>3, <3>4, FS_EmptySet
    <2>3. Made(i)' # {} => Accepted(i)'
      <3>1. CASE status = "accepted"
        BY <1>2, <3>1 DEF Accepted
      <3>2. CASE status # "accepted"
        BY <2>1, <3>2 DEF Spent, OneByOne, Usable, Accepted
      <3> QED
        BY <3>1, <3>2
    <2> QED
      BY <2>2, <2>3
  <1> QED
    BY <1>3, <1>4, <1>5, <1>6 DEF Spent

\* Nobody takes another invitation in hand.
LEMMA SpentElsewhere ==
  ASSUME StaffRows, StaffRows', SpentInv, [Next]_vars, \A q \in Requests : ~OnboardingStep(q)
  PROVE  SpentInv'
  <1>1. /\ \A p \in Requests : SlotKept(p)
        /\ UNCHANGED <<issuers, together>>
        /\ \A i \in Invitations :
             /\ Issued(i)' <=> Issued(i)
             /\ Issued(i) => /\ invitation'[i].to = invitation[i].to
                             /\ invitation'[i].status = invitation[i].status
                             /\ invitation[i].due => invitation'[i].due
        /\ \A d \in Devices, i \in Invitations :
             device'[d] # None /\ device'[d].origin = i
               <=> device[d] # None /\ device[d].origin = i
    BY ElsewhereSteps
  <1> SUFFICES ASSUME NEW i \in Invitations PROVE Spent(i)'
    BY DEF SpentInv
  <1>2. \A p \in Requests : LetsBe(p, i)
    BY <1>1, Unconcerned DEF SlotKept
  <1>3. Made(i)' = Made(i)
    BY <1>1 DEF Made
  <1>4. together[i] \in Nat /\ together'[i] = together[i]
    BY <1>1 DEF StaffRows, RowTypes
  <1>5. together'[i] \in Nat /\ together[i] <= together'[i]
    BY <1>4
  <1>6. Spent(i) /\ StandsAsItWas(i)
    BY <1>1 DEF SpentInv, StandsAsItWas
  <1> QED
    BY <1>2, <1>3, <1>5, <1>6, SpentKept

LEMMA SpentStep ==
  ASSUME StaffRows, StaffRows', SpentInv, NEW q \in Requests, OnboardingStep(q)
  PROVE  SpentInv'
  <1>0. SlotTypes /\ RowTypes /\ Idle.at = "idle" /\ None \notin Device
    BY RowAssumption DEF StaffRows, Idle
  <1>1. \A i : \A p \in Requests \ {q} : LetsBe(p, i)
    BY OnboardingPlaces, Unconcerned DEF Moves
  <1>2. UNCHANGED device => \A i \in Invitations : Made(i)' = Made(i)
    BY DEF Made
  <1>3. \A i \in Invitations : together[i] \in Nat /\ together'[i] \in Nat
    BY DEF StaffRows, RowTypes
  \* The invitations with which the step has nothing to do.
  <1>4. ASSUME NEW i \in Invitations, LetsBe(q, i), together[i] <= together'[i],
               invitation'[i] = invitation[i], Made(i)' = Made(i)
        PROVE  Spent(i)'
    <2>1. \A p \in Requests : LetsBe(p, i)
      BY <1>1, <1>4
    <2>2. StandsAsItWas(i)
      BY <1>4 DEF Issued, StandsAsItWas
    <2> QED
      BY <1>3, <1>4, <2>1, <2>2, SpentKept DEF SpentInv
  \* Nothing is taken in hand and no invitation is written.
  <1>5. ASSUME UNCHANGED <<invitation, device, together>>, req'[q].at \in {"look", "idle"}
        PROVE  SpentInv'
    <2>1. \A i : LetsBe(q, i)
      BY <1>5, Unconcerned DEF Elsewhere
    <2>2. \A i \in Invitations : together[i] <= together'[i]
      BY <1>3, <1>5
    <2> QED
      BY <1>2, <1>4, <1>5, <2>1, <2>2 DEF SpentInv
  \* One is taken in hand, or those that are pending.
  <1>6. ASSUME NEW taken \in SUBSET Invitations, NoteHolder(taken),
               UNCHANGED <<invitation, device>>, InHand(q)' = taken,
               \A i \in taken : /\ Usable(i)
                                /\ Accepts(q, i)' => ~invitation[i].due
                                /\ Expires(q, i)' => invitation[i].due
        PROVE  SpentInv'
    <2> SUFFICES ASSUME NEW i \in Invitations PROVE Spent(i)'
      BY DEF SpentInv
    <2>1. /\ together[i] <= together'[i]
          /\ i \in taken => Cardinality(HoldersOf(i)) + 1 <= together'[i]
      BY <1>0, <1>6, HolderNoted
    <2>2. CASE i \in taken
      BY <1>1, <1>3, <1>6, <2>1, <2>2, SpentTaking DEF SpentInv
    <2>3. CASE i \notin taken
      <3>1. LetsBe(q, i)
        BY <1>6, <2>3 DEF LetsBe, Accepts, Expires, InHand, At
      <3> QED
        BY <1>2, <1>4, <1>6, <2>1, <3>1
    <2> QED
      BY <2>2, <2>3
  \* One is written by a handler that had it in hand and lets go of it.
  <1>7. ASSUME NEW i \in Invitations, i \in InHand(q),
               NEW status \in {"accepted", "revoked", "expired"}, Mark(i, status),
               \A j : LetsBe(q, j), i \notin InHand(q)', together' = together,
               status = "expired" => invitation[i].due,
               \A j \in Invitations \ {i} : Made(j)' = Made(j),
               IF status = "accepted"
                 THEN /\ q \in Accepting(i)
                      /\ \E d \in Devices : d \notin Made(i) /\ Made(i)' = Made(i) \cup {d}
                 ELSE Made(i)' = Made(i)
        PROVE  SpentInv'
    <2> SUFFICES ASSUME NEW j \in Invitations PROVE Spent(j)'
      BY DEF SpentInv
    <2>1. \A p \in Requests : LetsBe(p, j)
      BY <1>1, <1>7
    <2>2. CASE j = i
      BY <1>7, <2>1, <2>2, SpentWriting DEF SpentInv
    <2>3. CASE j # i
      <3>1. invitation'[j] = invitation[j]
        BY <1>0, <1>7, <2>3 DEF Mark, RowTypes
      <3>2. together[j] <= together'[j]
        BY <1>3, <1>7
      <3> QED
        BY <1>4, <1>7, <2>1, <2>3, <3>1, <3>2
    <2> QED
      BY <2>2, <2>3
  <1>8. ASSUME NEW e \in Employees, NEW role \in Roles, BeginHire(q, e, role)
        PROVE  SpentInv'
    <2>1. req'[q].at = "look"
      BY <1>0, <1>8 DEF BeginHire, Begin, SlotTypes
    <2> QED
      BY <1>5, <1>8, <2>1 DEF BeginHire, sessionVars
  <1>9. ASSUME NEW i \in Invitations,
               \/ BeginReissue(q, i) /\ Pending(i)
               \/ BeginRevoke(q, i) \/ BeginAccept(q, i) \/ BeginExpire(q, i)
        PROVE  SpentInv'
    <2>1. UNCHANGED <<invitation, device>> /\ NoteHolder({i}) /\ Usable(i)
      BY <1>9
      DEF BeginReissue, BeginRevoke, BeginAccept, BeginExpire, rosterVars, sessionVars,
          Pending, Usable
    <2>2. /\ req'[q].at \in {"withdraw", "accept", "expire"} /\ req'[q].invitation = i
          /\ req'[q].at = "accept" => ~invitation[i].due
          /\ req'[q].at = "expire" => invitation[i].due
      BY <1>0, <1>9 DEF BeginReissue, BeginRevoke, BeginAccept, BeginExpire, Begin, SlotTypes
    <2>3. InHand(q)' = {i} /\ {i} \in SUBSET Invitations
      BY <2>2 DEF InHand, At
    <2>4. /\ Accepts(q, i)' => ~invitation[i].due
          /\ Expires(q, i)' => invitation[i].due
      BY <2>2 DEF Accepts, Expires, At
    <2> QED
      BY <1>6, <2>1, <2>3, <2>4
  <1>10. ASSUME NEW i \in Invitations, BeginReissue(q, i), ~Pending(i)
         PROVE  SpentInv'
    <2>1. req'[q].at = "look"
      BY <1>0, <1>10 DEF BeginReissue, Begin, SlotTypes
    <2> QED
      BY <1>5, <1>10, <2>1 DEF BeginReissue, rosterVars, sessionVars
  <1>11. CASE Look(q)
    <2>1. PICK e \in Employees, old \in SUBSET Invitations :
            e = req[q].employee /\ old = AllOfPending(e) /\ \A i \in old : Usable(i)
      BY <1>11, SlotShapes DEF Look, AllOfPending, PendingOf, Pending, Usable
    <2>2. /\ UNCHANGED <<invitation, device>> /\ NoteHolder(old)
          /\ req' = [req EXCEPT ![q] = [at |-> "replace", employee |-> e, old |-> old]]
      BY <1>11, <2>1 DEF Look, Proceed, rosterVars, sessionVars
    <2>3. req'[q].at = "replace" /\ req'[q].old = old
      BY <1>0, <2>2 DEF SlotTypes
    <2>4. InHand(q)' = old /\ \A i : ~Accepts(q, i)' /\ ~Expires(q, i)'
      BY <2>3 DEF InHand, Accepts, Expires, At
    <2> QED
      BY <1>6, <2>1, <2>2, <2>4
  <1>12. CASE Withdraw(q)
    <2>1. PICK i \in Invitations : i = req[q].invitation /\ i \in InHand(q)
      BY <1>12, Hands, SlotShapes DEF Withdraw
    <2>2. Mark(i, "revoked") /\ UNCHANGED <<device, together>>
      BY <1>12, <2>1 DEF Withdraw, sessionVars, historyVars
    <2>3. req'[q].at \in {"look", "idle"}
      BY <1>0, <1>12 DEF Withdraw, Proceed, Finish, SlotTypes
    <2>4. InHand(q)' = {} /\ \A j : LetsBe(q, j)
      BY <2>3, Unconcerned DEF InHand, At, Elsewhere
    <2> QED
      BY <1>2, <1>7, <2>1, <2>2, <2>4
  <1>13. CASE RevokeOld(q)
    <2>1. req[q] \in ReplaceRequest /\ InHand(q) = req[q].old
      BY <1>13, Hands, SlotShapes DEF RevokeOld
    <2>2. PICK i, r :
            /\ i \in req[q].old /\ r = [req[q] EXCEPT !.old = @ \ {i}]
            /\ Mark(i, "revoked") /\ req' = [req EXCEPT ![q] = r]
            /\ UNCHANGED <<device, together>>
      BY <1>13 DEF RevokeOld, Proceed, sessionVars, historyVars
    <2>3. r.at = "replace" /\ r.old = req[q].old \ {i}
      BY <2>1, <2>2 DEF ReplaceRequest
    <2>4. InHand(q)' = InHand(q) \ {i} /\ \A j : LetsBe(q, j)
      BY <1>0, <2>1, <2>2, <2>3 DEF SlotTypes, LetsBe, Accepts, Expires, InHand, At
    <2>5. i \in InHand(q) /\ i \in Invitations
      BY <2>1, <2>2, Hands
    <2> QED
      BY <1>2, <1>7, <2>2, <2>4, <2>5
  <1>14. CASE CommitExpire(q)
    <2>1. PICK i \in Invitations : i = req[q].invitation /\ i \in InHand(q)
      BY <1>14, Hands, SlotShapes DEF CommitExpire
    <2>2. /\ Mark(i, "expired") /\ UNCHANGED <<device, together>>
          /\ invitation[i].due
      BY <1>14, <2>1
      DEF CommitExpire, sessionVars, historyVars, Expires, SpentInv, Spent, ShutAfterUse
    <2>3. req'[q].at = "idle"
      BY <1>0, <1>14 DEF CommitExpire, Finish, SlotTypes
    <2>4. InHand(q)' = {} /\ \A j : LetsBe(q, j)
      BY <2>3, Unconcerned DEF InHand, At, Elsewhere
    <2> QED
      BY <1>2, <1>7, <2>1, <2>2, <2>4
  <1>15. CASE CommitAccept(q)
    <2>1. PICK i \in Invitations : i = req[q].invitation /\ i \in InHand(q)
      BY <1>15, Hands, SlotShapes DEF CommitAccept
    <2>2. PICK e : e = invitation[i].to
      OBVIOUS
    <2>3. /\ Mark(i, "accepted") /\ InsertDevice(e, i) /\ together' = together
          /\ q \in Accepting(i)
      BY <1>15, <2>1, <2>2 DEF CommitAccept, historyVars, Accepting, Accepts
    <2>4. req'[q].at = "idle"
      BY <1>0, <1>15 DEF CommitAccept, Finish, SlotTypes
    <2>5. InHand(q)' = {} /\ \A j : LetsBe(q, j)
      BY <2>4, Unconcerned DEF InHand, At, Elsewhere
    <2>6. PICK d, row :
            /\ d \in Devices /\ device[d] = None
            /\ device' = [device EXCEPT ![d] = row] /\ row = NewDevice(e, i)
      BY <2>3, InsertDeviceAddsOne
    <2>7. row.origin = i /\ row # None
      <3>2. row.origin = i /\ row = NewDevice(e, i)
        BY <2>6 DEF NewDevice
      <3>3. e \in Employees
        BY <1>15, <2>1, <2>2, Hands DEF StaffRows, RowTypes, Issued, Invitation
      <3>4. row \in Device
        BY <2>1, <3>2, <3>3 DEF NewDevice, Device
      <3> QED
        BY <1>0, <3>2, <3>4
    <2>8. \A j \in Invitations \ {i} : Made(j)' = Made(j)
      BY <1>0, <2>6, <2>7 DEF Made, RowTypes
    <2>9. d \notin Made(i) /\ Made(i)' = Made(i) \cup {d}
      BY <1>0, <2>6, <2>7 DEF Made, RowTypes
    <2> QED
      BY <1>7, <2>1, <2>3, <2>5, <2>6, <2>8, <2>9
  <1>16. CASE Mint(q)
    <2>1. PICK i, row :
            /\ i \in Invitations /\ ~Issued(i) /\ row.status = "pending"
            /\ invitation' = [invitation EXCEPT ![i] = row]
            /\ UNCHANGED <<device, together>> /\ req' = [req EXCEPT ![q] = Idle]
      <3>1. \A e : [to |-> e, status |-> "pending", due |-> FALSE].status = "pending"
        OBVIOUS
      <3> QED
        BY <1>16, <3>1 DEF Mint, Finish, sessionVars, historyVars
    <2>2. \A j : LetsBe(q, j)
      BY <1>0, <2>1, Unconcerned DEF SlotTypes, Elsewhere
    <2> SUFFICES ASSUME NEW j \in Invitations PROVE Spent(j)'
      BY DEF SpentInv
    <2>3. CASE j = i
      <3>1. \A p \in Requests : i \notin InHand(p)
        BY <2>1, Hands
      <3>2. \A p \in Requests : i \notin InHand(p)'
        BY <1>1, <2>2, <3>1 DEF LetsBe
      <3>3. HoldersOf(i)' = {} /\ Accepting(i)' = {}
        BY <3>2 DEF HoldersOf, Accepting, Accepts, InHand, At
      <3>8. Made(i) = {}
        BY <2>1 DEF SpentInv, Spent, ShutAfterUse
      <3>4. Made(i)' = {}
        BY <1>2, <2>1, <3>8
      <3>5. ~Accepted(i)'
        BY <1>0, <2>1 DEF RowTypes, Accepted
      <3>6. \A p \in Requests : ~Expires(p, i)'
        BY <3>2 DEF Expires, InHand, At
      <3>7. HandsCounted(i)' /\ LetInCounted(i)'
        <4>1. together'[i] \in Nat
          BY <1>3, <2>1
        <4> QED
          BY <3>3, <3>4, <4>1, FS_EmptySet DEF HandsCounted, LetInCounted
      <3> QED
        BY <2>3, <3>3, <3>4, <3>5, <3>6, <3>7 DEF Spent, ShutAfterUse, OneByOne
    <2>4. CASE j # i
      <3>1. invitation'[j] = invitation[j] /\ together[j] <= together'[j]
        BY <1>0, <1>3, <2>1, <2>4 DEF RowTypes
      <3> QED
        BY <1>2, <1>4, <2>1, <2>2, <3>1
    <2> QED
      BY <2>3, <2>4
  <1> QED
    BY <1>8, <1>9, <1>10, <1>11, <1>12, <1>13, <1>14, <1>15, <1>16 DEF OnboardingStep

\* InvitationsAreSpentOnce: an invitation lets in as many as had it in hand at
\* once and opens to nobody later; what has let in nobody is not accepted, and
\* one that never was in two hands has let in the one who accepted it.
THEOREM InvitationsAreAlwaysSpentOnce == Spec => []InvitationsAreSpentOnce
  <1>1. Init => SpentInv
    <2> SUFFICES ASSUME Init, NEW i \in Invitations PROVE Spent(i)
      BY DEF SpentInv
    <2>1. \A q \in Requests : i \notin InHand(q) /\ ~At(q, "accept") /\ ~At(q, "expire")
      BY DEF Init, InHand, At, Idle
    <2>2. ~Issued(i) /\ i # None /\ together[i] = 0
      BY StaffAssumption DEF Init, Issued
    <2>3. \A d \in Devices : device[d] # None => device[d].origin = None
      BY DEF Init, NewDevice
    <2>4. HoldersOf(i) = {} /\ Accepting(i) = {} /\ Made(i) = {}
      BY <2>1, <2>2, <2>3 DEF HoldersOf, Accepting, Accepts, Made
    <2>5. HandsCounted(i) /\ LetInCounted(i)
      BY <2>2, <2>4, FS_EmptySet DEF HandsCounted, LetInCounted
    <2> QED
      BY <2>1, <2>2, <2>4, <2>5 DEF Spent, ShutAfterUse, OneByOne, Accepted, Expires
  <1>2. StaffRows /\ StaffRows' /\ SpentInv /\ [Next]_vars => SpentInv'
    BY SpentElsewhere, SpentStep
  <1>3. StaffRows /\ SpentInv => InvitationsAreSpentOnce
    <2> SUFFICES ASSUME StaffRows, SpentInv, NEW i \in Invitations
                 PROVE  /\ Cardinality(Made(i)) <= together[i]
                        /\ Made(i) # {} => ~Usable(i) \/ invitation[i].due
                        /\ Accepted(i) => Made(i) # {}
                        /\ together[i] <= 1 /\ Made(i) # {} => Accepted(i)
      BY DEF InvitationsAreSpentOnce, Made, Accepted
    <2>1. Spent(i)
      BY DEF SpentInv
    <2>2. Cardinality(Made(i)) <= together[i]
      <3>1. /\ together[i] \in Nat /\ Cardinality(Made(i)) \in Nat
            /\ Cardinality(Accepting(i)) \in Nat
        BY <2>1, AcceptersHold, FS_CardinalityType
        DEF StaffRows, RowTypes, Spent, LetInCounted
      <3> QED
        BY <2>1, <3>1 DEF Spent, LetInCounted
    <2> QED
      BY <2>1, <2>2 DEF Spent, ShutAfterUse, OneByOne
  <1> QED
    BY <1>1, <1>2, <1>3, StaffInit, StaffStepRows, PTL DEF Spec

-----------------------------------------------------------------------------
(***************************************************************************)
(* The live invitation is the latest.                                      *)
(***************************************************************************)
IssuesFor(q, e) == Issuing(q) /\ Addressee(q) = e

\* The requests that have read what is pending for e and will insert, and what
\* one of them has not read, or has withdrawn by now.
Readers(e)   == {q \in Requests : At(q, "replace") /\ req[q].employee = e}
Unseen(q, e) == PendingOf(e) \ req[q].old

\* In any group of them one has read so much of what is pending that, when all
\* have inserted, no more are pending than requests once issued together: the
\* one that was the last to read is such a one.
OneHasSeen(e) ==
  \A G \in SUBSET Readers(e) :
    G # {} => \E q \in G : Cardinality(Unseen(q, e)) + Cardinality(G) <= issuers[e]

PendingIsNewest(e) ==
  issuers[e] <= 1 => \A i \in PendingOf(e), j \in Invitations :
                       Issued(j) /\ invitation[j].to = e => j <= i

LiveOf(e) ==
  /\ IsFiniteSet(PendingOf(e))
  /\ Cardinality(PendingOf(e)) <= issuers[e]
  /\ Cardinality(IssuersOf(e)) <= issuers[e]
  /\ OneHasSeen(e)
  /\ PendingIsNewest(e)

LiveInv ==
  /\ \A i, j \in Invitations : i < j /\ Issued(j) => Issued(i)
  /\ \A e \in Employees : LiveOf(e)

\* A finite set and a part of it.
LEMMA Parts ==
  ASSUME NEW S, IsFiniteSet(S), NEW T \in SUBSET S
  PROVE  /\ IsFiniteSet(T) /\ Cardinality(S) \in Nat /\ Cardinality(T) \in Nat
         /\ Cardinality(T) <= Cardinality(S)
  BY FS_Subset, FS_CardinalityType

LEMMA ReadersIssue ==
  ASSUME NEW e
  PROVE  /\ Readers(e) \subseteq IssuersOf(e)
         /\ IssuersOf(e) \in SUBSET Requests /\ IsFiniteSet(IssuersOf(e))
         /\ IssuersOf(e) = {q \in Requests : IssuesFor(q, e)}
  <1>1. IssuersOf(e) \in SUBSET Requests /\ IssuersOf(e) = {q \in Requests : IssuesFor(q, e)}
    BY DEF IssuersOf, IssuesFor
  <1>2. Readers(e) \subseteq IssuersOf(e)
    BY DEF Readers, IssuersOf, Issuing, Addressee, At
  <1> QED
    BY <1>1, <1>2, RequestCounts

\* p issues for e only if it did, and reads anew, or has no more unread.
IssueKept(p, e) == IssuesFor(p, e)' => IssuesFor(p, e)

ReadKept(p, e) ==
  p \in Readers(e)' => \/ Unseen(p, e)' = {}
                       \/ p \in Readers(e) /\ Unseen(p, e)' \subseteq Unseen(p, e)

\* No invitation of e becomes pending or is added.
NothingNew(e) ==
  /\ PendingOf(e)' \subseteq PendingOf(e)
  /\ \A j \in Invitations : Issued(j)' /\ invitation'[j].to = e
                              => Issued(j) /\ invitation[j].to = e

LEMMA WitherNothingNew ==
  ASSUME InvitationsWither, NEW e
  PROVE  NothingNew(e)
  BY DEF InvitationsWither, NothingNew, PendingOf, Pending

LEMMA LiveKept ==
  ASSUME NEW e \in Employees, LiveOf(e), NothingNew(e),
         issuers[e] \in Nat, issuers'[e] \in Nat, issuers[e] <= issuers'[e],
         \A p \in Requests : ReadKept(p, e),
         \/ \A p \in Requests : IssueKept(p, e)
         \/ \E q \in Requests : /\ \A p \in Requests \ {q} : IssueKept(p, e)
                                /\ Cardinality(IssuersOf(e)) + 1 <= issuers'[e]
  PROVE  LiveOf(e)'
  <1>1. PICK P, I, n, m : /\ P = PendingOf(e)' /\ I = IssuersOf(e)'
                          /\ n = issuers[e] /\ m = issuers'[e]
    OBVIOUS
  <1>2. P \in SUBSET PendingOf(e) /\ I \in SUBSET Requests
    BY <1>1 DEF NothingNew, IssuersOf
  <1>3. n \in Nat /\ m \in Nat /\ n <= m
    BY <1>1
  <1>4. IsFiniteSet(P) /\ Cardinality(P) <= m
    <2>1. IsFiniteSet(PendingOf(e)) /\ Cardinality(PendingOf(e)) <= n
      BY <1>1 DEF LiveOf
    <2>2. /\ IsFiniteSet(P) /\ Cardinality(P) \in Nat /\ Cardinality(PendingOf(e)) \in Nat
          /\ Cardinality(P) <= Cardinality(PendingOf(e))
      BY <1>2, <2>1, Parts
    <2> QED
      BY <1>3, <2>1, <2>2
  <1>5. Cardinality(I) <= m
    <2>1. /\ Cardinality(IssuersOf(e)) <= n /\ Cardinality(IssuersOf(e)) \in Nat
          /\ IsFiniteSet(IssuersOf(e)) /\ IssuersOf(e) \in SUBSET Requests
      BY <1>1, ReadersIssue, SomeCounted DEF LiveOf
    <2>2. I = {q \in Requests : IssuesFor(q, e)'}
      BY <1>1 DEF IssuersOf, IssuesFor
    <2>3. CASE \A p \in Requests : IssueKept(p, e)
      <3>1. I \in SUBSET IssuersOf(e)
        BY <2>2, <2>3, ReadersIssue DEF IssueKept
      <3>2. Cardinality(I) \in Nat /\ Cardinality(I) <= Cardinality(IssuersOf(e))
        BY <2>1, <3>1, Parts
      <3> QED
        BY <1>3, <2>1, <3>2
    <2>4. CASE \E q \in Requests : /\ \A p \in Requests \ {q} : IssueKept(p, e)
                                   /\ Cardinality(IssuersOf(e)) + 1 <= issuers'[e]
      <3>1. PICK q \in Requests : /\ \A p \in Requests \ {q} : IssueKept(p, e)
                                  /\ Cardinality(IssuersOf(e)) + 1 <= m
        BY <1>1, <2>4
      <3>2. I \in SUBSET (IssuersOf(e) \cup {q})
        BY <2>2, <3>1, ReadersIssue DEF IssueKept
      <3>3. /\ IsFiniteSet(IssuersOf(e) \cup {q})
            /\ Cardinality(IssuersOf(e) \cup {q}) <= Cardinality(IssuersOf(e)) + 1
        <4>1. PICK S, k : S = IssuersOf(e) /\ k = Cardinality(S)
          OBVIOUS
        <4>2. IsFiniteSet(S) /\ k \in Nat
          BY <2>1, <4>1
        <4>3. IsFiniteSet(S \cup {q}) /\ Cardinality(S \cup {q}) \in {k, k + 1}
          BY <4>1, <4>2, FS_AddElement
        <4>4. Cardinality(S \cup {q}) <= k + 1
          BY <4>2, <4>3
        <4> QED
          BY <4>1, <4>3, <4>4
      <3>4. /\ Cardinality(I) \in Nat /\ Cardinality(IssuersOf(e) \cup {q}) \in Nat
            /\ Cardinality(I) <= Cardinality(IssuersOf(e) \cup {q})
        BY <3>2, <3>3, Parts
      <3> QED
        BY <1>3, <2>1, <3>1, <3>3, <3>4
    <2> QED
      BY <2>3, <2>4
  <1>6. OneHasSeen(e)'
    <2> SUFFICES ASSUME NEW G \in SUBSET Readers(e)', G # {}
                 PROVE  \E q \in G : Cardinality(Unseen(q, e)') + Cardinality(G) <= issuers'[e]
      BY DEF OneHasSeen
    <2>1. /\ G \in SUBSET I /\ G \in SUBSET Requests
          /\ \A q \in G : q \in Readers(e)'
      BY <1>1 DEF Readers, IssuersOf, Issuing, Addressee, At
    <2>2. CASE \E q \in G : Unseen(q, e)' = {}
      <3>1. PICK q \in G : Unseen(q, e)' = {}
        BY <2>2
      <3>2. /\ Cardinality(G) \in Nat /\ Cardinality(I) \in Nat
            /\ Cardinality(G) <= Cardinality(I)
        BY <1>2, <2>1, Counts
      <3>3. Cardinality({}) + Cardinality(G) <= m
        BY <1>3, <1>5, <3>2, FS_EmptySet
      <3> QED
        BY <1>1, <3>1, <3>3
    <2>3. CASE \A q \in G : Unseen(q, e)' # {}
      <3>1. \A q \in G : q \in Readers(e) /\ Unseen(q, e)' \subseteq Unseen(q, e)
        BY <2>1, <2>3 DEF ReadKept
      <3>2. PICK q \in G : Cardinality(Unseen(q, e)) + Cardinality(G) <= n
        BY <1>1, <3>1 DEF LiveOf, OneHasSeen
      <3>3. PICK U : U = Unseen(q, e)'
        OBVIOUS
      <3>4. U \in SUBSET Unseen(q, e) /\ IsFiniteSet(Unseen(q, e))
        <4>1. Unseen(q, e) \in SUBSET PendingOf(e)
          BY DEF Unseen
        <4> QED
          BY <3>1, <3>3, <4>1, Parts DEF LiveOf
      <3>5. /\ Cardinality(U) \in Nat /\ Cardinality(Unseen(q, e)) \in Nat
            /\ Cardinality(U) <= Cardinality(Unseen(q, e)) /\ Cardinality(G) \in Nat
        BY <2>1, <3>4, Parts, RequestCounts
      <3>6. Cardinality(U) + Cardinality(G) <= m
        BY <1>3, <3>2, <3>5
      <3> QED
        BY <1>1, <3>3, <3>6
    <2> QED
      BY <2>2, <2>3
  <1>7. PendingIsNewest(e)'
    <2> SUFFICES ASSUME m <= 1, NEW i \in P, NEW j \in Invitations,
                        Issued(j)', invitation'[j].to = e
                 PROVE  j <= i
      BY <1>1 DEF PendingIsNewest
    <2>1. n <= 1
      BY <1>3
    <2>2. i \in PendingOf(e) /\ Issued(j) /\ invitation[j].to = e
      BY <1>2 DEF NothingNew
    <2> QED
      BY <1>1, <2>1, <2>2 DEF LiveOf, PendingIsNewest
  <1> QED
    BY <1>1, <1>4, <1>5, <1>6, <1>7 DEF LiveOf

LEMMA SlotKeptFollows ==
  ASSUME StaffRows, NEW p \in Requests, SlotKept(p), NEW e,
         PendingOf(e)' \subseteq PendingOf(e),
         \A i \in Invitations : Issued(i) => invitation'[i].to = invitation[i].to
  PROVE  IssueKept(p, e) /\ ReadKept(p, e)
  <1>1. CASE req'[p].at \in Elsewhere
    BY <1>1 DEF IssueKept, ReadKept, IssuesFor, Issuing, Readers, At, Elsewhere
  <1>2. CASE req'[p] = req[p]
    <2>1. ReadKept(p, e)
      BY <1>2 DEF ReadKept, Readers, Unseen, At
    <2>2. At(p, "withdraw") => /\ req[p].invitation \in Invitations
                               /\ Issued(req[p].invitation)
      BY SlotShapes DEF StaffRows, Grounded, At
    <2>3. At(p, "withdraw") => invitation'[req[p].invitation].to = invitation[req[p].invitation].to
      BY <2>2
    <2>4. IssueKept(p, e)
      BY <1>2, <2>3 DEF IssueKept, IssuesFor, Issuing, Addressee, At
    <2> QED
      BY <2>1, <2>4
  <1> QED
    BY <1>1, <1>2 DEF SlotKept

LEMMA LiveElsewhere ==
  ASSUME StaffRows, StaffRows', LiveInv, [Next]_vars, \A q \in Requests : ~OnboardingStep(q)
  PROVE  LiveInv'
  <1>1. /\ \A p \in Requests : SlotKept(p)
        /\ issuers' = issuers
        /\ \A i \in Invitations :
             /\ Issued(i)' <=> Issued(i)
             /\ Issued(i) => /\ invitation'[i].to = invitation[i].to
                             /\ invitation'[i].status = invitation[i].status
    BY ElsewhereSteps
  <1>2. InvitationsWither
    BY <1>1 DEF InvitationsWither, Pending
  <1>3. \A i, j \in Invitations : i < j /\ Issued(j)' => Issued(i)'
    BY <1>1 DEF LiveInv
  <1>4. ASSUME NEW e \in Employees PROVE LiveOf(e)'
    <2>1. NothingNew(e)
      BY <1>2, WitherNothingNew
    <2>2. \A p \in Requests : IssueKept(p, e) /\ ReadKept(p, e)
      BY <1>1, <2>1, SlotKeptFollows DEF NothingNew
    <2>3. issuers[e] \in Nat /\ issuers'[e] \in Nat /\ issuers[e] <= issuers'[e]
      BY <1>1 DEF StaffRows, RowTypes
    <2> QED
      BY <2>1, <2>2, <2>3, LiveKept DEF LiveInv
  <1> QED
    BY <1>3, <1>4 DEF LiveInv

\* The new invitation of a request that has withdrawn all that it had read.
LEMMA LiveMinted ==
  ASSUME StaffRows, NEW e \in Employees, LiveOf(e),
         issuers[e] \in Nat, issuers'[e] = issuers[e],
         NEW q \in Requests, q \in Readers(e), req[q].old = {},
         q \notin Readers(e)', \A p \in Requests : IssueKept(p, e),
         \A p \in Requests \ {q} : req'[p] = req[p],
         NEW i \in Invitations, PendingOf(e)' = PendingOf(e) \cup {i}, i \notin PendingOf(e),
         \A j \in Invitations : Issued(j)' => j <= i
  PROVE  LiveOf(e)'
  <1>1. PICK P, n, k : P = PendingOf(e) /\ n = issuers[e] /\ k = Cardinality(P)
    OBVIOUS
  <1>2. IsFiniteSet(P) /\ k \in Nat /\ n \in Nat
    BY <1>1, FS_CardinalityType DEF LiveOf
  <1>3. IsFiniteSet(P \cup {i}) /\ Cardinality(P \cup {i}) = k + 1
    BY <1>1, <1>2, FS_AddElement
  <1>4. \A p : Unseen(p, e)' \subseteq P \cup {i}
    BY <1>1 DEF Unseen
  \* q was one of those who had read enough, and had read nothing.
  <1>5. \A G \in SUBSET Readers(e) :
          G # {} => \E p \in G : Cardinality(Unseen(p, e)) + Cardinality(G) <= n
    BY <1>1 DEF LiveOf, OneHasSeen
  <1>6. Unseen(q, e) = P
    BY <1>1 DEF Unseen
  <1>7. k + 1 <= n
    <2>1. {q} \in SUBSET Readers(e) /\ {q} # {} /\ Cardinality({q}) = 1
      BY FS_Singleton
    <2> QED
      BY <1>1, <1>5, <1>6, <2>1
  <1>8. Cardinality(IssuersOf(e)') <= issuers'[e]
    <2>1. PICK I : I = IssuersOf(e)'
      OBVIOUS
    <2>2. I \in SUBSET IssuersOf(e)
      BY <2>1, ReadersIssue DEF IssueKept, IssuersOf, IssuesFor
    <2>3. /\ Cardinality(I) \in Nat /\ Cardinality(IssuersOf(e)) \in Nat
          /\ Cardinality(I) <= Cardinality(IssuersOf(e))
      BY <2>2, ReadersIssue, Parts
    <2> QED
      BY <1>1, <1>2, <2>1, <2>3 DEF LiveOf
  <1>9. OneHasSeen(e)'
    <2> SUFFICES ASSUME NEW G \in SUBSET Readers(e)', G # {}
                 PROVE  \E p \in G : Cardinality(Unseen(p, e)') + Cardinality(G) <= n
      BY <1>1 DEF OneHasSeen
    <2>1. q \notin G /\ G \in SUBSET Readers(e) /\ G \in SUBSET Requests
      BY DEF Readers, At
    <2>2. PICK g : g = Cardinality(G)
      OBVIOUS
    <2>3. g \in Nat /\ Cardinality(G \cup {q}) = g + 1
      BY <2>1, <2>2, RequestCounts, FS_AddElement
    <2>4. PICK p \in G \cup {q} : Cardinality(Unseen(p, e)) + (g + 1) <= n
      <3>1. G \cup {q} \in SUBSET Readers(e) /\ G \cup {q} # {}
        BY <2>1
      <3> QED
        BY <1>5, <2>3, <3>1
    <2>5. CASE p = q
      <3>1. k + g + 1 <= n
        BY <1>1, <1>2, <1>6, <2>3, <2>4, <2>5
      <3>2. PICK r \in G : TRUE
        OBVIOUS
      <3>3. PICK U : U = Unseen(r, e)'
        OBVIOUS
      <3>4. U \in SUBSET (P \cup {i})
        BY <1>4, <3>3
      <3>5. Cardinality(U) \in Nat /\ Cardinality(U) <= k + 1
        BY <1>3, <3>4, Parts
      <3>6. Cardinality(U) + g <= n
        BY <1>2, <2>3, <3>1, <3>5
      <3> QED
        BY <2>2, <3>2, <3>3, <3>6
    <2>6. CASE p # q
      <3>1. p \in G /\ req'[p] = req[p]
        BY <2>1, <2>4, <2>6
      <3>2. PICK U, V : U = Unseen(p, e)' /\ V = Unseen(p, e)
        OBVIOUS
      <3>3. U \in SUBSET (V \cup {i}) /\ V \in SUBSET P
        BY <1>1, <3>1, <3>2 DEF Unseen
      <3>4. IsFiniteSet(V) /\ Cardinality(V) \in Nat
        BY <1>2, <3>3, Parts
      <3>5. IsFiniteSet(V \cup {i}) /\ Cardinality(V \cup {i}) \in {Cardinality(V), Cardinality(V) + 1}
        BY <3>4, FS_AddElement
      <3>6. Cardinality(U) \in Nat /\ Cardinality(U) <= Cardinality(V \cup {i})
        BY <3>3, <3>5, Parts
      <3>7. Cardinality(U) + g <= n
        BY <1>2, <2>3, <2>4, <3>2, <3>4, <3>5, <3>6
      <3> QED
        BY <2>2, <3>1, <3>2, <3>7
    <2> QED
      BY <2>5, <2>6
  <1>10. PendingIsNewest(e)'
    <2> SUFFICES ASSUME n <= 1, NEW h \in P \cup {i}, NEW j \in Invitations, Issued(j)'
                 PROVE  j <= h
      BY <1>1 DEF PendingIsNewest
    <2>1. k = 0
      BY <1>2, <1>7
    <2>2. P = {}
      BY <1>1, <1>2, <2>1, FS_EmptySet
    <2> QED
      BY <2>2
  <1>11. IsFiniteSet(PendingOf(e)') /\ Cardinality(PendingOf(e)') <= issuers'[e]
    BY <1>1, <1>3, <1>7
  <1> QED
    BY <1>8, <1>9, <1>10, <1>11 DEF LiveOf

LEMMA LiveStep ==
  ASSUME StaffRows, StaffRows', LiveInv, NEW q \in Requests, OnboardingStep(q)
  PROVE  LiveInv'
  <1>0. SlotTypes /\ RowTypes /\ IssuedToHired /\ Idle.at = "idle" /\ Invitations \subseteq Nat
    BY StaffAssumption DEF StaffRows, Idle
  <1>1. \A p \in Requests \ {q} : SlotKept(p)
    BY OnboardingPlaces DEF Moves, SlotKept
  <1>2. invitation' = invitation => InvitationsWither
    BY DEF InvitationsWither, Issued, Pending
  <1>3. \A e \in Employees : issuers[e] \in Nat /\ issuers'[e] \in Nat
    BY DEF StaffRows, RowTypes
  \* Nothing becomes pending.
  <1>4. ASSUME InvitationsWither,
               \A e \in Employees :
                 /\ ReadKept(q, e) /\ issuers[e] <= issuers'[e]
                 /\ IssueKept(q, e) \/ Cardinality(IssuersOf(e)) + 1 <= issuers'[e]
        PROVE  LiveInv'
    <2>1. \A i, j \in Invitations : i < j /\ Issued(j)' => Issued(i)'
      BY <1>4 DEF LiveInv, InvitationsWither
    <2>2. ASSUME NEW e \in Employees PROVE LiveOf(e)'
      <3>1. NothingNew(e)
        BY <1>4, WitherNothingNew
      <3>2. \A i \in Invitations : Issued(i) => invitation'[i].to = invitation[i].to
        BY <1>4 DEF InvitationsWither
      <3>3. \A p \in Requests \ {q} : IssueKept(p, e) /\ ReadKept(p, e)
        BY <1>1, <3>1, <3>2, SlotKeptFollows DEF NothingNew
      <3>4. \A p \in Requests : ReadKept(p, e)
        BY <1>4, <3>3
      <3>5. \/ \A p \in Requests : IssueKept(p, e)
            \/ \E r \in Requests : /\ \A p \in Requests \ {r} : IssueKept(p, e)
                                   /\ Cardinality(IssuersOf(e)) + 1 <= issuers'[e]
        BY <1>4, <3>3
      <3> QED
        BY <1>3, <1>4, <3>1, <3>4, <3>5, LiveKept DEF LiveInv
    <2> QED
      BY <2>1, <2>2 DEF LiveInv
  <1>5. issuers' = issuers => \A e \in Employees : issuers[e] <= issuers'[e]
    BY <1>3
  \* Those after which q issues nothing.
  <1>6. ASSUME InvitationsWither, issuers' = issuers, ~Issuing(q)'
        PROVE  LiveInv'
    <2>1. \A e : ReadKept(q, e) /\ IssueKept(q, e)
      BY <1>6 DEF ReadKept, IssueKept, Readers, IssuesFor, Issuing, At
    <2> QED
      BY <1>4, <1>5, <1>6, <2>1
  \* Those with which q begins to issue to e.
  <1>7. ASSUME NEW e \in Employees, NoteIssuer(e), invitation' = invitation,
               \A f \in Employees : IssuesFor(q, f)' => f = e,
               ~At(q, "replace")'
        PROVE  LiveInv'
    <2>1. /\ \A f \in Employees : issuers[f] <= issuers'[f]
          /\ Cardinality(IssuersOf(e)) + 1 <= issuers'[e]
      BY <1>0, <1>7, IssuerNoted
    <2>2. ASSUME NEW f \in Employees
          PROVE  /\ ReadKept(q, f)
                 /\ IssueKept(q, f) \/ Cardinality(IssuersOf(f)) + 1 <= issuers'[f]
      BY <1>7, <2>1 DEF ReadKept, IssueKept, Readers, At
    <2> QED
      BY <1>2, <1>4, <1>7, <2>1, <2>2
  <1>8. ASSUME NEW e \in Employees, NEW role \in Roles, BeginHire(q, e, role)
        PROVE  LiveInv'
    <2>1. /\ invitation' = invitation /\ NoteIssuer(e)
          /\ req'[q].at = "look" /\ req'[q].employee = e
      BY <1>0, <1>8 DEF BeginHire, Begin, SlotTypes
    <2>2. (\A f \in Employees : IssuesFor(q, f)' => f = e) /\ ~At(q, "replace")'
      BY <2>1 DEF IssuesFor, Addressee, At
    <2> QED
      BY <1>7, <2>1, <2>2
  <1>9. ASSUME NEW i \in Invitations, BeginReissue(q, i)
        PROVE  LiveInv'
    <2>1. PICK e \in Employees : e = invitation[i].to /\ Issued(i)
      BY <1>0, <1>9 DEF BeginReissue, RowTypes, Invitation, Issued
    <2>2. /\ invitation' = invitation /\ NoteIssuer(e)
          /\ \/ req'[q].at = "withdraw" /\ req'[q].invitation = i
             \/ req'[q].at = "look" /\ req'[q].employee = e
      BY <1>0, <1>9, <2>1 DEF BeginReissue, Begin, rosterVars, SlotTypes
    <2>3. (\A f \in Employees : IssuesFor(q, f)' => f = e) /\ ~At(q, "replace")'
      BY <2>1, <2>2 DEF IssuesFor, Addressee, At
    <2> QED
      BY <1>7, <2>2, <2>3
  <1>10. ASSUME NEW i \in Invitations,
                BeginRevoke(q, i) \/ BeginAccept(q, i) \/ BeginExpire(q, i)
         PROVE  LiveInv'
    <2>1. UNCHANGED <<invitation, issuers>>
      BY <1>10 DEF BeginRevoke, BeginAccept, BeginExpire, rosterVars
    <2>2. \/ req'[q].at = "withdraw" /\ ~req'[q].reissue
          \/ req'[q].at \in {"accept", "expire"}
      BY <1>0, <1>10 DEF BeginRevoke, BeginAccept, BeginExpire, Begin, SlotTypes
    <2>3. ~Issuing(q)'
      BY <2>2 DEF Issuing, At
    <2> QED
      BY <1>2, <1>6, <2>1, <2>3
  <1>11. CASE Look(q)
    <2>1. PICK e \in Employees : e = req[q].employee
      BY <1>11, SlotShapes DEF Look
    <2>2. PICK old : old = PendingOf(e)
      OBVIOUS
    <2>3. /\ UNCHANGED <<invitation, issuers>>
          /\ req' = [req EXCEPT ![q] = [at |-> "replace", employee |-> e, old |-> old]]
      BY <1>11, <2>1, <2>2 DEF Look, Proceed, AllOfPending, rosterVars
    <2>4. req'[q].at = "replace" /\ req'[q].employee = e /\ req'[q].old = old
      BY <1>0, <2>3 DEF SlotTypes
    <2>5. IssuesFor(q, e)
      BY <1>11, <2>1 DEF Look, IssuesFor, Issuing, Addressee, At
    <2>6. \A f \in Employees : (IssuesFor(q, f)' => f = e) /\ (q \in Readers(f)' => f = e)
      BY <2>4 DEF IssuesFor, Addressee, Readers, At
    <2>7. Unseen(q, e)' = {}
      <3>1. PendingOf(e)' = old
        BY <2>2, <2>3 DEF PendingOf, Pending, Issued
      <3> QED
        BY <2>4, <3>1 DEF Unseen
    <2>8. \A f \in Employees : ReadKept(q, f) /\ IssueKept(q, f)
      BY <2>5, <2>6, <2>7 DEF ReadKept, IssueKept
    <2> QED
      BY <1>2, <1>4, <1>5, <2>3, <2>8
  <1>12. CASE Withdraw(q)
    <2>1. PICK i \in Invitations : i = req[q].invitation /\ Issued(i)
      BY <1>12, SlotShapes DEF Withdraw, StaffRows, Grounded, At
    <2>2. PICK e \in Employees : e = invitation[i].to
      BY <1>0, <2>1 DEF RowTypes, Invitation, Issued
    <2>3. InvitationsWither /\ issuers' = issuers
      BY <1>12, <2>1, MarkWithers DEF Withdraw, historyVars
    <2>4. CASE req[q].reissue
      <3>1. req'[q].at = "look" /\ req'[q].employee = e
        BY <1>0, <1>12, <2>1, <2>2, <2>4 DEF Withdraw, Proceed, SlotTypes
      <3>2. IssuesFor(q, e)
        BY <1>12, <2>1, <2>2, <2>4 DEF Withdraw, IssuesFor, Issuing, Addressee
      <3>3. \A f \in Employees : ReadKept(q, f) /\ IssueKept(q, f)
        BY <3>1, <3>2 DEF ReadKept, IssueKept, Readers, IssuesFor, Addressee, At
      <3> QED
        BY <1>4, <1>5, <2>3, <3>3
    <2>5. CASE ~req[q].reissue
      <3>1. req'[q].at = "idle"
        BY <1>0, <1>12, <2>5 DEF Withdraw, Finish, SlotTypes
      <3> QED
        BY <1>6, <2>3, <3>1 DEF Issuing, At
    <2> QED
      BY <2>4, <2>5
  <1>13. CASE RevokeOld(q)
    <2>1. req[q] \in ReplaceRequest /\ At(q, "replace")
      BY <1>13, SlotShapes DEF RevokeOld
    <2>2. PICK i, r :
            /\ i \in req[q].old /\ r = [req[q] EXCEPT !.old = @ \ {i}]
            /\ Mark(i, "revoked") /\ req' = [req EXCEPT ![q] = r]
            /\ issuers' = issuers
      BY <1>13 DEF RevokeOld, Proceed, historyVars
    <2>3. r.at = "replace" /\ r.old = req[q].old \ {i} /\ r.employee = req[q].employee
      BY <2>1, <2>2 DEF ReplaceRequest
    <2>4. i \in Invitations /\ Issued(i)
      BY <2>1, <2>2 DEF StaffRows, Grounded, At, ReplaceRequest
    <2>5. InvitationsWither /\ ~Pending(i)'
      BY <2>2, <2>4, MarkWithers
    <2>6. req'[q] = r
      BY <1>0, <2>2 DEF SlotTypes
    <2>7. \A e : IssueKept(q, e)
      BY <2>1, <2>3, <2>6 DEF IssueKept, IssuesFor, Issuing, Addressee, At
    <2>8. ASSUME NEW e PROVE ReadKept(q, e)
      <3>1. PendingOf(e)' \subseteq PendingOf(e) \ {i}
        BY <2>5 DEF PendingOf, InvitationsWither, Pending
      <3>2. Unseen(q, e)' \subseteq Unseen(q, e)
        BY <2>3, <2>6, <3>1 DEF Unseen
      <3> QED
        BY <2>1, <2>3, <2>6, <3>2 DEF ReadKept, Readers, At
    <2> QED
      BY <1>4, <1>5, <2>2, <2>5, <2>7, <2>8
  <1>14. CASE CommitExpire(q) \/ CommitAccept(q)
    <2>1. PICK i \in Invitations : i = req[q].invitation /\ Issued(i)
      BY <1>14, SlotShapes DEF CommitExpire, CommitAccept, StaffRows, Grounded, At
    <2>2. PICK status \in {"expired", "accepted"} : Mark(i, status)
      BY <1>14, <2>1 DEF CommitExpire, CommitAccept
    <2>3. InvitationsWither
      BY <2>1, <2>2, MarkWithers
    <2>4. issuers' = issuers /\ req'[q].at = "idle"
      BY <1>0, <1>14 DEF CommitExpire, CommitAccept, Finish, historyVars, SlotTypes
    <2> QED
      BY <1>6, <2>3, <2>4 DEF Issuing, At
  <1>15. CASE Mint(q)
    <2>1. PICK e \in Employees : e = req[q].employee
      BY <1>15, SlotShapes DEF Mint, ReplaceRequest
    <2>2. PICK i, row :
            /\ i \in Invitations /\ row.to = e /\ row.status = "pending" /\ row # None
            /\ ~Issued(i) /\ \A j \in Invitations : j < i => Issued(j)
            /\ invitation' = [invitation EXCEPT ![i] = row]
            /\ issuers' = issuers /\ req' = [req EXCEPT ![q] = Idle]
            /\ At(q, "replace") /\ req[q].old = {}
      <3>1. PICK row : row = [to |-> e, status |-> "pending", due |-> FALSE]
        OBVIOUS
      <3>2. row.to = e /\ row.status = "pending" /\ row # None
        <4>1. row \in Invitation
          BY <3>1 DEF Invitation
        <4> QED
          BY <3>1, <4>1, RowAssumption
      <3> QED
        BY <1>15, <2>1, <3>1, <3>2 DEF Mint, Finish, historyVars
    <2>3. /\ invitation'[i] = row
          /\ \A j \in Invitations \ {i} : invitation'[j] = invitation[j]
      <3>1. invitation \in [Invitations -> Invitation \cup {None}]
        BY <1>0 DEF RowTypes
      <3>2. i \in Invitations /\ invitation' = [invitation EXCEPT ![i] = row]
        BY <2>2
      <3> QED
        BY <3>1, <3>2
    <2>4. \A j \in Invitations : Issued(j) => j < i
      <3>1. i \in Nat /\ \A j \in Invitations : j \in Nat
        BY <1>0, <2>2
      <3>2. \A j \in Invitations : Issued(j) => ~(i < j) /\ j # i
        BY <2>2 DEF LiveInv
      <3> QED
        BY <3>1, <3>2
    <2>5. \A j \in Invitations : Issued(j)' <=> Issued(j) \/ j = i
      BY <2>2, <2>3 DEF Issued
    <2>6. \A j, k \in Invitations : j < k /\ Issued(k)' => Issued(j)'
      BY <2>2, <2>5 DEF LiveInv
    <2>7. /\ \A p \in Requests \ {q} : req'[p] = req[p]
          /\ req'[q].at = "idle"
      BY <1>0, <2>2 DEF SlotTypes
    <2>8. \A j \in Invitations : Issued(j) => invitation'[j].to = invitation[j].to
      BY <2>2, <2>3
    <2>9. ASSUME NEW f, NEW p \in Requests PROVE IssueKept(p, f)
      <3>1. CASE p = q
        BY <2>7, <3>1 DEF IssueKept, IssuesFor, Issuing, At
      <3>2. CASE p # q
        <4>1. req'[p] = req[p]
          BY <2>7, <3>2
        <4>2. At(p, "withdraw") => /\ req[p].invitation \in Invitations
                                   /\ Issued(req[p].invitation)
          BY SlotShapes DEF StaffRows, Grounded, At
        <4>3. At(p, "withdraw")
                => invitation'[req[p].invitation].to = invitation[req[p].invitation].to
          BY <2>8, <4>2
        <4> QED
          BY <4>1, <4>3 DEF IssueKept, IssuesFor, Issuing, Addressee, At
      <3> QED
        BY <3>1, <3>2
    <2>10. LiveOf(e)'
      <3>1. q \in Readers(e) /\ q \notin Readers(e)'
        BY <2>1, <2>2, <2>7 DEF Readers, At
      <3>2. PendingOf(e)' = PendingOf(e) \cup {i} /\ i \notin PendingOf(e)
        BY <2>2, <2>3, <2>5 DEF PendingOf, Pending, Issued
      <3>3. \A j \in Invitations : Issued(j)' => j <= i
        <4>1. i \in Nat /\ \A j \in Invitations : j \in Nat
          BY <1>0, <2>2
        <4> QED
          BY <2>4, <2>5, <4>1
      <3>4. issuers[e] \in Nat /\ issuers'[e] = issuers[e] /\ LiveOf(e)
        BY <1>3, <2>2 DEF LiveInv
      <3> QED
        BY <2>2, <2>7, <2>9, <3>1, <3>2, <3>3, <3>4, LiveMinted
    <2>11. ASSUME NEW f \in Employees, f # e PROVE LiveOf(f)'
      <3>1. NothingNew(f)
        BY <2>2, <2>3, <2>5, <2>11 DEF NothingNew, PendingOf, Pending, Issued
      <3>2. ASSUME NEW p \in Requests PROVE ReadKept(p, f)
        <4>1. CASE p = q
          BY <2>7, <4>1 DEF ReadKept, Readers, At
        <4>2. CASE p # q
          BY <2>7, <3>1, <4>2 DEF ReadKept, Readers, Unseen, NothingNew, At
        <4> QED
          BY <4>1, <4>2
      <3>3. issuers[f] <= issuers'[f] /\ LiveOf(f)
        BY <1>5, <2>2 DEF LiveInv
      <3> QED
        BY <1>3, <2>9, <3>1, <3>2, <3>3, LiveKept
    <2> QED
      BY <2>6, <2>10, <2>11 DEF LiveInv
  <1> QED
    BY <1>8, <1>9, <1>10, <1>11, <1>12, <1>13, <1>14, <1>15 DEF OnboardingStep

\* LiveInvitationIsLatest: an employee has no more live invitations than
\* requests ever issued to it at once, and if that was one at a time, the live
\* one is the one the roster shows.
THEOREM LiveInvitationIsAlwaysLatest == Spec => []LiveInvitationIsLatest
  <1>1. Init => LiveInv
    <2> SUFFICES ASSUME Init PROVE LiveInv
      OBVIOUS
    <2>1. \A i \in Invitations : ~Issued(i)
      BY DEF Init, Issued
    <2>2. \A q \in Requests : ~Issuing(q) /\ ~At(q, "replace")
      BY DEF Init, Issuing, At, Idle
    <2>3. ASSUME NEW e \in Employees PROVE LiveOf(e)
      <3>1. PendingOf(e) = {} /\ IssuersOf(e) = {} /\ Readers(e) = {}
        BY <2>1, <2>2 DEF PendingOf, Pending, IssuersOf, Readers
      <3>2. issuers[e] = 0
        BY DEF Init
      <3> QED
        BY <3>1, <3>2, FS_EmptySet DEF LiveOf, OneHasSeen, PendingIsNewest
    <2> QED
      BY <2>1, <2>3 DEF LiveInv
  <1>2. StaffRows /\ StaffRows' /\ LiveInv /\ [Next]_vars => LiveInv'
    BY LiveElsewhere, LiveStep
  <1>3. StaffRows /\ LiveInv => LiveInvitationIsLatest
    <2> SUFFICES ASSUME StaffRows, LiveInv, NEW e \in Employees
                 PROVE  LET live == {i \in PendingOf(e) : Live(i)}
                        IN /\ Cardinality(live) <= issuers[e]
                           /\ live # {} /\ issuers[e] <= 1 => RosterStatus(e) = {"pending"}
      BY DEF LiveInvitationIsLatest
    <2> DEFINE live == {i \in PendingOf(e) : Live(i)}
    <2>1. LiveOf(e) /\ issuers[e] \in Nat
      BY DEF LiveInv, StaffRows, RowTypes
    <2>2. Cardinality(live) <= issuers[e]
      <3>1. live \in SUBSET PendingOf(e)
        OBVIOUS
      <3> HIDE DEF live
      <3>2. /\ Cardinality(live) \in Nat /\ Cardinality(PendingOf(e)) \in Nat
            /\ Cardinality(live) <= Cardinality(PendingOf(e))
        BY <2>1, <3>1, Parts DEF LiveOf
      <3> QED
        BY <2>1, <3>2 DEF LiveOf
    <2>3. ASSUME NEW i \in live, issuers[e] <= 1
          PROVE  RosterStatus(e) = {"pending"}
      <3>1. i \in PendingOf(e) /\ Issued(i) /\ invitation[i].to = e /\ i \in Invitations
        BY DEF PendingOf, Pending
      <3>2. \A j \in Invitations : Issued(j) /\ invitation[j].to = e => j <= i
        BY <2>1, <2>3, <3>1 DEF LiveOf, PendingIsNewest
      <3>3. i \in LatestOf(e)
        BY <3>1, <3>2 DEF LatestOf
      <3>4. \A j \in LatestOf(e) : j = i
        BY <3>1, <3>2, StaffAssumption DEF LatestOf
      <3>5. LatestOf(e) = {i}
        BY <3>3, <3>4
      <3> QED
        BY <3>5 DEF RosterStatus, Live, Pending
    <2> QED
      BY <2>2, <2>3
  <1> QED
    BY <1>1, <1>2, <1>3, StaffInit, StaffStepRows, PTL DEF Spec
=============================================================================
