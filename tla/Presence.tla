------------------------------ MODULE Presence ------------------------------
(***************************************************************************)
(* Who of the staff is online: presence-registry.ts, kept up to date by    *)
(* the connection hooks of staff-realtime.gateway.ts.  A connection is     *)
(* verified and joined to its rooms in awaited calls, during which the     *)
(* socket may drop; Socket.IO marks it unconnected and calls the           *)
(* disconnect hook in one go.                                              *)
(***************************************************************************)
EXTENDS Naturals

CONSTANTS
  Employees,
  Sockets,   \* connections; a reconnect is another one
  Nobody     \* no entry in employeeIdBySocket

ASSUME NobodyAssumption == Nobody \notin Employees

VARIABLES
  employee,  \* the identity in the token of a socket's handshake
  place,     \* where the connection hook of a socket is
  connected, \* client.connected
  bySocket,  \* employeeIdBySocket
  sockets,   \* socketIdsByEmployee, {} for no entry
  emission,  \* the presence_changed events of the last step
  shown      \* what a page that follows the owner room shows

vars == <<employee, place, connected, bySocket, sockets, emission, shown>>
registryVars == <<bySocket, sockets>>

Places == {"new", "verifying", "joining", "done"}

TypeOK ==
  /\ employee \in [Sockets -> Employees]
  /\ place \in [Sockets -> Places]
  /\ connected \in [Sockets -> BOOLEAN]
  /\ bySocket \in [Sockets -> Employees \cup {Nobody}]
  /\ sockets \in [Employees -> SUBSET Sockets]
  /\ emission \subseteq [employee: Employees, online: BOOLEAN]
  /\ shown \in [Employees -> BOOLEAN]

Init ==
  /\ employee \in [Sockets -> Employees]
  /\ place = [s \in Sockets |-> "new"]
  /\ connected = [s \in Sockets |-> FALSE]
  /\ bySocket = [s \in Sockets |-> Nobody]
  /\ sockets = [e \in Employees |-> {}]
  /\ emission = {}
  /\ shown = [e \in Employees |-> FALSE]

IsOnline(e) == sockets[e] # {}

-----------------------------------------------------------------------------
\* emitPresenceChanged, when there is something to tell.
Announce(e, online, changed) ==
  IF changed
    THEN /\ emission' = {[employee |-> e, online |-> online]}
         /\ shown' = [shown EXCEPT ![e] = online]
    ELSE emission' = {} /\ UNCHANGED shown

Silent == emission' = {} /\ UNCHANGED shown

\* handleConnection reaches its first await with a token to verify.
Connect(s) ==
  /\ place[s] = "new"
  /\ place' = [place EXCEPT ![s] = "verifying"]
  /\ connected' = [connected EXCEPT ![s] = TRUE]
  /\ Silent
  /\ UNCHANGED <<employee, registryVars>>

\* register's result: no socket yet.
BecameOnline(e) == sockets[e] = {}

\* unregister's result: no socket left.
BecameOffline(e, s) == sockets[e] \ {s} = {}

\* Mutation: the employee's entry goes with any socket.
UnregisterEverywhere(s) ==
  IF bySocket[s] = Nobody
    THEN Silent /\ UNCHANGED registryVars
    ELSE /\ bySocket' = [bySocket EXCEPT ![s] = Nobody]
         /\ sockets' = [sockets EXCEPT ![bySocket[s]] = {}]
         /\ Announce(bySocket[s], FALSE, TRUE)

\* unregister: only a registered socket matters.
Unregister(s) ==
  IF bySocket[s] = Nobody
    THEN Silent /\ UNCHANGED registryVars
    ELSE /\ bySocket' = [bySocket EXCEPT ![s] = Nobody]
         /\ sockets' = [sockets EXCEPT ![bySocket[s]] = @ \ {s}]
         /\ Announce(bySocket[s], FALSE, BecameOffline(bySocket[s], s))

\* Mutation: a token is trusted although the socket dropped meanwhile.
IsStillThere(s) == TRUE

\* client.connected, read after the last await.
StillConnected(s) == connected[s]

\* verifyAccessToken accepts the token, or the socket is disconnected.
Verify(s) ==
  /\ place[s] = "verifying"
  /\ \/ /\ place' = [place EXCEPT ![s] = "joining"]
        /\ Silent
        /\ UNCHANGED <<connected, registryVars>>
     \/ /\ place' = [place EXCEPT ![s] = "done"]
        /\ connected' = [connected EXCEPT ![s] = FALSE]
        /\ Unregister(s)
  /\ UNCHANGED employee

\* client.join is done: the rest of handleConnection.
Register(s) ==
  /\ place[s] = "joining"
  /\ place' = [place EXCEPT ![s] = "done"]
  /\ IF StillConnected(s)
       THEN /\ bySocket' = [bySocket EXCEPT ![s] = employee[s]]
            /\ sockets' = [sockets EXCEPT ![employee[s]] = @ \cup {s}]
            /\ Announce(employee[s], TRUE, BecameOnline(employee[s]))
       ELSE Silent /\ UNCHANGED registryVars
  /\ UNCHANGED <<employee, connected>>

\* The client leaves or the network drops it; handleDisconnect.
Disconnect(s) ==
  /\ connected[s]
  /\ connected' = [connected EXCEPT ![s] = FALSE]
  /\ Unregister(s)
  /\ UNCHANGED <<employee, place>>

Next ==
  \E s \in Sockets : Connect(s) \/ Verify(s) \/ Register(s) \/ Disconnect(s)

Spec == Init /\ [][Next]_vars

\* Verification and joining return; nobody need connect or stay.
FairSpec == Spec /\ \A s \in Sockets : WF_vars(Verify(s) \/ Register(s))

-----------------------------------------------------------------------------
\* No ghosts: whoever is listed online has a socket that is connected, however
\* a drop falls into the handshake.
OnlineMeansConnected ==
  \A e \in Employees : \A s \in sockets[e] : connected[s] /\ employee[s] = e

\* The two maps of the registry never disagree: the health check counts the
\* sockets of one, presence is read off the other.
MapsAgree ==
  \A s \in Sockets, e \in Employees : bySocket[s] = e <=> s \in sockets[e]

\* A page that follows the events shows what the registry holds, with an
\* employee on several devices too.
OwnersSeePresence == \A e \in Employees : shown[e] = IsOnline(e)

\* presence-registry.ts:10-13: the registry's two maps, the sockets that are
\* there and what the owner sees are one and the same, whatever order connects,
\* joins and drops of several devices come in.
PresenceIsTrue == MapsAgree /\ OnlineMeansConnected /\ OwnersSeePresence

\* B1 ruling, presence-registry.ts:10: events are emitted on transitions only.
OnlyTransitionsAnnounced ==
  [][\A m \in emission' : shown[m.employee] # m.online]_vars

\* Whoever connects is listed in the end, unless refused or gone.
ConnectedGetListed ==
  \A s \in Sockets : connected[s] ~> ~connected[s] \/ s \in sockets[employee[s]]
=============================================================================
