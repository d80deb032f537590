----------------------------- MODULE Onboarding -----------------------------
(***************************************************************************)
(* invitations.service.ts, and the hiring of employees.service.ts.  Every  *)
(* repository call is awaited and every status is written without a look   *)
(* at what it has become (markStatus); accepting hashes two secrets        *)
(* between its checks and its transaction.                                 *)
(***************************************************************************)
EXTENDS StaffState

Issuing(q) ==
  \/ At(q, "look") \/ At(q, "replace")
  \/ At(q, "withdraw") /\ req[q].reissue

Addressee(q) ==
  IF At(q, "withdraw") THEN invitation[req[q].invitation].to ELSE req[q].employee

\* The invitations that a handler is about to write.
InHand(q) ==
  CASE At(q, "replace") -> req[q].old
    [] At(q, "withdraw") \/ At(q, "accept") \/ At(q, "expire") -> {req[q].invitation}
    [] OTHER -> {}

IssuersOf(e) == {q \in Requests : Issuing(q) /\ Addressee(q) = e}
HoldersOf(i) == {q \in Requests : i \in InHand(q)}

AtLeast(m, n) == IF m < n THEN n ELSE m

\* One more issues to e, and takes invitations is in hand.
NoteIssuer(e) ==
  issuers' = [issuers EXCEPT ![e] = AtLeast(@, Cardinality(IssuersOf(e)) + 1)]

NoteHolder(is) ==
  together' = [i \in Invitations |->
    IF i \in is THEN AtLeast(together[i], Cardinality(HoldersOf(i)) + 1) ELSE together[i]]

Mark(i, status) == invitation' = [invitation EXCEPT ![i].status = status]

-----------------------------------------------------------------------------
(***************************************************************************)
(* createForEmployee, as the handlers of three routes come to it.          *)
(***************************************************************************)
\* EmployeesService.create: the insert, then the invitation.
BeginHire(q, e, role) ==
  /\ ~Hired(e)
  /\ Begin(q, [at |-> "look", employee |-> e])
  /\ employee' = [employee EXCEPT ![e] =
                    [role |-> role, active |-> TRUE, credentials |-> {}]]
  /\ NoteIssuer(e)
  /\ UNCHANGED <<invitation, sessionVars, together, tried>>

\* reissue: an invitation that is not pending is not withdrawn first.
BeginReissue(q, i) ==
  /\ Issued(i)
  /\ IF Pending(i)
       THEN /\ Begin(q, [at |-> "withdraw", invitation |-> i, reissue |-> TRUE])
            /\ NoteHolder({i})
       ELSE /\ Begin(q, [at |-> "look", employee |-> invitation[i].to])
            /\ UNCHANGED together
  /\ NoteIssuer(invitation[i].to)
  /\ UNCHANGED <<rosterVars, sessionVars, tried>>

\* revoke, up to the await of the update.
BeginRevoke(q, i) ==
  /\ Pending(i)
  /\ Begin(q, [at |-> "withdraw", invitation |-> i, reissue |-> FALSE])
  /\ NoteHolder({i})
  /\ UNCHANGED <<rosterVars, sessionVars, issuers, tried>>

Withdraw(q) ==
  /\ At(q, "withdraw")
  /\ Mark(req[q].invitation, "revoked")
  /\ IF req[q].reissue
       THEN Proceed(q, [at |-> "look", employee |-> invitation[req[q].invitation].to])
       ELSE Finish(q)
  /\ UNCHANGED <<employee, sessionVars, historyVars>>

\* Mutation: only what a re-issue was asked to withdraw is replaced.
NoneOfPending(e) == {}

\* findPendingByEmployee.
AllOfPending(e) == PendingOf(e)

Look(q) ==
  LET e == req[q].employee
  IN /\ At(q, "look")
     /\ Proceed(q, [at |-> "replace", employee |-> e, old |-> AllOfPending(e)])
     /\ NoteHolder(AllOfPending(e))
     /\ UNCHANGED <<rosterVars, sessionVars, issuers, tried>>

\* One awaited update for each of them; their order does not matter.
RevokeOld(q) ==
  /\ At(q, "replace")
  /\ \E i \in req[q].old :
       /\ Mark(i, "revoked")
       /\ Proceed(q, [req[q] EXCEPT !.old = @ \ {i}])
  /\ UNCHANGED <<employee, sessionVars, historyVars>>

\* The insert of the new one; what remains is its audit row and the answer.
Mint(q) ==
  /\ At(q, "replace") /\ req[q].old = {}
  /\ \E i \in Invitations :
       /\ ~Issued(i)
       /\ \A j \in Invitations : j < i => Issued(j)
       /\ invitation' = [invitation EXCEPT ![i] =
            [to |-> req[q].employee, status |-> "pending", due |-> FALSE]]
  /\ Finish(q)
  /\ UNCHANGED <<employee, sessionVars, historyVars>>

-----------------------------------------------------------------------------
(***************************************************************************)
(* The link is opened and used.                                            *)
(***************************************************************************)
\* Mutation: an accepted invitation is not looked for.
NotRevoked(i) == Issued(i) /\ invitation[i].status # "revoked"

\* validateTokenForUse: revoked is a 404, accepted a 409.
Usable(i) == Issued(i) /\ invitation[i].status \notin {"revoked", "accepted"}

\* accept up to the hashing.
BeginAccept(q, i) ==
  /\ Usable(i) /\ ~invitation[i].due
  /\ Begin(q, [at |-> "accept", invitation |-> i,
               role |-> employee[invitation[i].to].role])
  /\ NoteHolder({i})
  /\ UNCHANGED <<rosterVars, sessionVars, issuers, tried>>

\* Either endpoint of the link, past the due time.
BeginExpire(q, i) ==
  /\ Usable(i) /\ invitation[i].due
  /\ Begin(q, [at |-> "expire", invitation |-> i])
  /\ NoteHolder({i})
  /\ UNCHANGED <<rosterVars, sessionVars, issuers, tried>>

CommitExpire(q) ==
  /\ At(q, "expire")
  /\ Mark(req[q].invitation, "expired")
  /\ Finish(q)
  /\ UNCHANGED <<employee, sessionVars, historyVars>>

\* acceptTransaction: credentials, status and device in one; then the token.
CommitAccept(q) ==
  LET i == req[q].invitation
      e == invitation[i].to
  IN /\ At(q, "accept")
     /\ employee' = [employee EXCEPT ![e].credentials = {"password", "pin"}]
     /\ Mark(i, "accepted")
     /\ InsertDevice(e, i)
     /\ IssuePass(e, req[q].role)
     /\ Finish(q)
     /\ UNCHANGED <<lock, historyVars>>

-----------------------------------------------------------------------------
\* getLatestStatusByEmployeeIds for the roster: newest first, and a pending
\* one past its due time is shown as expired.
LatestOf(e) ==
  {i \in Invitations : /\ Issued(i) /\ invitation[i].to = e
                       /\ \A j \in Invitations :
                            Issued(j) /\ invitation[j].to = e => j <= i}

RosterStatus(e) ==
  {IF Pending(i) /\ invitation[i].due THEN "expired" ELSE invitation[i].status :
     i \in LatestOf(e)}

OnboardingStep(q) ==
  \/ \E e \in Employees, role \in Roles : BeginHire(q, e, role)
  \/ \E i \in Invitations :
       BeginReissue(q, i) \/ BeginRevoke(q, i) \/ BeginAccept(q, i) \/ BeginExpire(q, i)
  \/ Withdraw(q) \/ Look(q) \/ RevokeOld(q) \/ Mint(q)
  \/ CommitExpire(q) \/ CommitAccept(q)
=============================================================================
