------------------------------- MODULE Staff --------------------------------
(***************************************************************************)
(* Onboarding and sign-in together with what an access token is good for:  *)
(* the guards every request passes (jwt-auth.guard, permissions.guard),    *)
(* the owner's changes to the roster, and time.                            *)
(***************************************************************************)
EXTENDS Onboarding, SignIn

\* EmployeesService.update: one update of the columns that were sent.
UpdateEmployee(e, role, active) ==
  /\ Hired(e)
  /\ employee' = [employee EXCEPT ![e].role = role, ![e].active = active]
  /\ req' = [q \in Requests |->
       IF At(q, "call") /\ req[q].employee = e /\ active
         THEN [req[q] EXCEPT !.held = @ \cup {role}] ELSE req[q]]
  /\ UNCHANGED <<invitation, sessionVars, historyVars>>

\* Mutation: the role is taken from the token.
RoleByToken(e, role) == role

\* Mutation: a blocked employee's token still works.
HiredOnly(e) == Hired(e)

\* JwtAuthGuard looks for the row, and whether it is active.
MayAct(e) == Active(e)

\* It takes the identity from the row, not from the token.
RoleByRow(e, role) == employee[e].role

\* A request with a token for a route that requires key, up to the await of
\* the role's restrictions.  held is what the employee is allowed to be from
\* here on, by the rows: a role, while it is active.
BeginCall(q, e, role, key) ==
  /\ <<e, role>> \in passes
  /\ MayAct(e)
  /\ Begin(q, [at |-> "call", employee |-> e, role |-> RoleByRow(e, role), key |-> key,
               held |-> IF Active(e) THEN {employee[e].role} ELSE {}])
  /\ UNCHANGED <<rosterVars, sessionVars, historyVars>>

\* PermissionsGuard.  role_permissions can only restrict further: nothing
\* writes it today, a row for any role and key may be there.
Admit(q) ==
  /\ At(q, "call")
  /\ req[q].role \in Baseline[req[q].key]
  /\ Proceed(q, [req[q] EXCEPT !.at = "acting"])
  /\ UNCHANGED <<rosterVars, sessionVars, historyVars>>

Deny(q) ==
  /\ At(q, "call")
  /\ Finish(q)
  /\ UNCHANGED <<rosterVars, sessionVars, historyVars>>

EndCall(q) ==
  /\ At(q, "acting")
  /\ Finish(q)
  /\ UNCHANGED <<rosterVars, sessionVars, historyVars>>

-----------------------------------------------------------------------------
(***************************************************************************)
(* Time.                                                                   *)
(***************************************************************************)
\* A minute of every lock; tried begins anew when a lock has run out.
Minute ==
  /\ \E e \in Employees : lock[e].left > 0
  /\ lock' = [e \in Employees |->
       IF lock[e].left > 0 THEN [lock[e] EXCEPT !.left = @ - 1] ELSE lock[e]]
  /\ tried' = [e \in Employees |-> IF lock[e].left = 1 THEN 0 ELSE tried[e]]
  /\ UNCHANGED <<rosterVars, device, passes, req, issuers, together>>

\* Seven days, thirty days, fifteen minutes.
FallDue(i) ==
  /\ Live(i)
  /\ invitation' = [invitation EXCEPT ![i].due = TRUE]
  /\ UNCHANGED <<employee, sessionVars, req, historyVars>>

Lapse(d) ==
  /\ Trusted(d)
  /\ device' = [device EXCEPT ![d].lapsed = TRUE]
  /\ UNCHANGED <<rosterVars, lock, passes, req, historyVars>>

RunOut(pass) ==
  /\ passes' = passes \ {pass}
  /\ UNCHANGED <<rosterVars, device, lock, req, historyVars>>

Next ==
  \/ \E q \in Requests : OnboardingStep(q) \/ SignInStep(q)
  \/ \E q \in Requests, pass \in passes, key \in Keys :
       BeginCall(q, pass[1], pass[2], key)
  \/ \E q \in Requests : Admit(q) \/ Deny(q) \/ EndCall(q)
  \/ \E e \in Employees, role \in Roles, active \in BOOLEAN :
       UpdateEmployee(e, role, active)
  \/ \E d \in Devices : RevokeDevice(d) \/ Lapse(d)
  \/ \E i \in Invitations : FallDue(i)
  \/ \E pass \in passes : RunOut(pass)
  \/ Minute
  \/ Crash

Spec == Init /\ [][Next]_vars

\* The clock goes on; nobody need sign in.
FairSpec == Spec /\ WF_vars(Minute)

-----------------------------------------------------------------------------
(***************************************************************************)
(* Onboarding.                                                             *)
(***************************************************************************)

\* invitations.service.ts:49: never more than one live invitation per
\* employee, and the roster shows it, however invitations were issued,
\* re-issued, withdrawn and used before.  The code reads the pending ones
\* and then inserts, so that requests issuing to an employee at the same time
\* leave more: never more than they were at once, however often they follow on
\* one another and whatever the rest of them saw; and issued to by one request
\* at a time, an employee has one, which the roster shows.
LiveInvitationIsLatest ==
  \A e \in Employees :
    LET live == {i \in PendingOf(e) : Live(i)}
    IN /\ Cardinality(live) <= issuers[e]
       /\ live # {} /\ issuers[e] <= 1 => RosterStatus(e) = {"pending"}

\* invitations.service.ts:31: an invitation is used once.  The status is looked
\* at before two secrets are hashed, so that requests at the same time may all
\* use it: a link that has let someone in opens no more, and it lets in as many
\* as had it in hand at once, never one later; one that was in one hand at a time
\* is accepted just if it has let in somebody.
InvitationsAreSpentOnce ==
  \A i \in Invitations :
    LET made     == {d \in Devices : device[d] # None /\ device[d].origin = i}
        accepted == Issued(i) /\ invitation[i].status = "accepted"
    IN /\ Cardinality(made) <= together[i]
       /\ made # {} => ~Usable(i) \/ invitation[i].due
       /\ accepted => made # {}
       /\ together[i] <= 1 /\ made # {} => accepted

-----------------------------------------------------------------------------
(***************************************************************************)
(* Sign-in.                                                                *)
(***************************************************************************)

\* pin-lockout.service.ts:8: wrong PINs are limited per account.  Attempts in
\* flight together pass the check together, so the limit is exceeded by as
\* many as were in flight with the one that locks the account, and no more.
GuessesAreLimited ==
  \A e \in Employees : tried[e] < GuessBound

\* A locked account opens again: being tried while it is locked does not
\* prolong the lock for ever.
LockoutsEnd == \A e \in Employees : lock[e].left > 0 ~> lock[e].left = 0

\* A stolen device stays revoked, although a renewal of its row may have been
\* in flight when the owner revoked it.
RevocationSticks ==
  [][\A d \in Devices :
       device[d] # None /\ device[d].revoked => device'[d].revoked]_vars

-----------------------------------------------------------------------------
(***************************************************************************)
(* Rights.                                                                 *)
(***************************************************************************)

\* Nobody acts by a role from the past: who gets past the guards had a role
\* that the baseline admits, and was active with it, while the request was
\* being handled, whatever an older token says and whoever was blocked since.
NobodyActsBeyondTheirRole ==
  \A q \in Requests :
    At(q, "acting") => req[q].held \cap Baseline[req[q].key] # {}
=============================================================================
