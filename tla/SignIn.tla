------------------------------- MODULE SignIn -------------------------------
(***************************************************************************)
(* auth.service.ts, tokens.service.ts, pin-lockout.service.ts: how the     *)
(* staff gets its access tokens.  A PIN login checks the lock, renews the  *)
(* device, and then awaits argon2 with what it has read of the employee.   *)
(***************************************************************************)
EXTENDS StaffState

\* Mutation: an attempt may begin while the account is locked.
AlwaysUnlocked(e) == TRUE

\* getLockRemainingMs.
NotLocked(e) == lock[e].left = 0

\* pinLogin up to the renewal of the device's row.
BeginPinLogin(q, d, e) ==
  /\ NotLocked(e)
  /\ Trusted(d)
  /\ Begin(q, [at |-> "renew", device |-> d, employee |-> e])
  /\ UNCHANGED <<rosterVars, sessionVars, historyVars>>

\* refresh up to the same point; it names no employee.
BeginRefresh(q, d) ==
  /\ Trusted(d)
  /\ Begin(q, [at |-> "renew", device |-> d, employee |-> None])
  /\ UNCHANGED <<rosterVars, sessionVars, historyVars>>

\* renewRefreshToken writes lastUsedAt and expiresAt.
Renewed(row) == [row EXCEPT !.lapsed = FALSE]

\* The rest of validateAndRenewDeviceTrust, and what follows up to the next
\* await: a PIN has to be verified, a refresh is answered at once.
Renew(q) ==
  LET d == req[q].device
      e == device[d].owner
  IN /\ At(q, "renew")
     /\ device' = [device EXCEPT ![d] = Renewed(device[d])]
     /\ IF req[q].employee = e /\ Active(e)
          THEN Proceed(q, [at |-> "verify", employee |-> e, role |-> employee[e].role,
                           usable |-> "pin" \in employee[e].credentials])
          ELSE Finish(q)
     /\ IF req[q].employee = None /\ Active(e)
          THEN IssuePass(e, employee[e].role) ELSE UNCHANGED passes
     /\ UNCHANGED <<rosterVars, lock, historyVars>>

-----------------------------------------------------------------------------
\* Mutation: the lock comes one failure late.
LateFailure(state) ==
  IF state.failures + 1 <= MaxFailures
    THEN [state EXCEPT !.failures = @ + 1]
    ELSE [failures |-> 0, left |-> Cooldowns[1], episodes |-> state.episodes]

\* recordFailure.  Beyond the last cooldown one episode is like the next, so
\* the count stops there.
AfterFailure(state) ==
  LET rung == IF state.episodes < Len(Cooldowns) THEN state.episodes + 1
                                                 ELSE Len(Cooldowns)
  IN IF state.failures + 1 < MaxFailures
       THEN [state EXCEPT !.failures = @ + 1]
       ELSE [failures |-> 0, episodes |-> rung, left |-> Cooldowns[rung]]

\* The PIN was right: recordSuccess, and a token by the row read before.
AcceptPin(q) ==
  LET e == req[q].employee
  IN /\ At(q, "verify") /\ req[q].usable
     /\ lock' = [lock EXCEPT ![e] = Unlocked]
     /\ tried' = [tried EXCEPT ![e] = 0]
     /\ IssuePass(e, req[q].role)
     /\ Finish(q)
     /\ UNCHANGED <<rosterVars, device, issuers, together>>

\* It was wrong.
RejectPin(q) ==
  LET e == req[q].employee
  IN /\ At(q, "verify")
     /\ lock' = [lock EXCEPT ![e] = AfterFailure(@)]
     /\ tried' = [tried EXCEPT ![e] = IF @ < GuessBound THEN @ + 1 ELSE @]
     /\ Finish(q)
     /\ UNCHANGED <<rosterVars, device, passes, issuers, together>>

-----------------------------------------------------------------------------
\* passwordLogin up to the verification, for the candidate it is meant for.
BeginPassword(q, e) ==
  /\ Active(e)
  /\ employee[e].role \in PasswordRoles /\ "password" \in employee[e].credentials
  /\ Begin(q, [at |-> "login", employee |-> e, role |-> employee[e].role])
  /\ UNCHANGED <<rosterVars, sessionVars, historyVars>>

\* The password was right: createDeviceTrust, then the token.
CommitPassword(q) ==
  /\ At(q, "login")
  /\ InsertDevice(req[q].employee, None)
  /\ IssuePass(req[q].employee, req[q].role)
  /\ Finish(q)
  /\ UNCHANGED <<rosterVars, lock, historyVars>>

\* It was wrong.
RefusePassword(q) ==
  /\ At(q, "login")
  /\ Finish(q)
  /\ UNCHANGED <<rosterVars, sessionVars, historyVars>>

\* EmployeesService.resetPin, up to the end of the hashing and after.
BeginResetPin(q, e) ==
  /\ Hired(e)
  /\ Begin(q, [at |-> "reset", employee |-> e])
  /\ UNCHANGED <<rosterVars, sessionVars, historyVars>>

CommitResetPin(q) ==
  /\ At(q, "reset")
  /\ employee' = [employee EXCEPT ![req[q].employee].credentials = @ \cup {"pin"}]
  /\ Finish(q)
  /\ UNCHANGED <<invitation, sessionVars, historyVars>>

\* revokeDevice: one update, whatever the row holds.
RevokeDevice(d) ==
  /\ device[d] # None
  /\ device' = [device EXCEPT ![d].revoked = TRUE]
  /\ UNCHANGED <<rosterVars, lock, passes, req, historyVars>>

SignInStep(q) ==
  \/ \E d \in Devices : BeginRefresh(q, d) \/ \E e \in Employees : BeginPinLogin(q, d, e)
  \/ \E e \in Employees : BeginPassword(q, e) \/ BeginResetPin(q, e)
  \/ Renew(q) \/ AcceptPin(q) \/ RejectPin(q)
  \/ CommitPassword(q) \/ RefusePassword(q) \/ CommitResetPin(q)
=============================================================================
