---------------------------- MODULE StaffScreens ----------------------------
(***************************************************************************)
(* The staff's side of the server: connections and presence, events and    *)
(* notifications on their way to the rooms, the lists that screens page    *)
(* through, and a restart.                                                 *)
(***************************************************************************)
EXTENDS StaffLists

presenceVars == <<employee, place, connected, registryVars>>
allVars == <<vars, feedVars, listVars>>

AllInit == Init /\ FeedInit /\ ListInit

\* A restart: rows stay; connections, the registry and calls under way do not.
Restart ==
  /\ place' = [s \in Sockets |-> IF place[s] = "new" THEN "new" ELSE "done"]
  /\ connected' = [s \in Sockets |-> FALSE]
  /\ bySocket' = [s \in Sockets |-> Nobody]
  /\ sockets' = [e \in Employees |-> {}]
  /\ emission' = {} /\ shown' = [e \in Employees |-> FALSE]
  /\ call' = [ev \in Events |->
       IF call[ev].at \in {"unborn", "done", "failed"} THEN call[ev]
         ELSE [at |-> "lost", todo |-> <<>>, fresh |-> None]]
  /\ mark' = [s \in Sockets |-> None]
  /\ UNCHANGED <<employee, rows, now, screen, listVars>>

AllNext ==
  \/ Next /\ UNCHANGED <<feedVars, listVars>>
  \/ FeedStep /\ Silent /\ UNCHANGED <<presenceVars, listVars>>
  \/ ListStep /\ Silent /\ UNCHANGED <<presenceVars, feedVars>>
  \/ Restart

AllSpec == AllInit /\ [][AllNext]_allVars

\* Handshakes and the listener's calls go on; nobody need connect or act.
AllFairSpec ==
  /\ AllSpec
  /\ \A s \in Sockets : WF_allVars((Verify(s) \/ Register(s)) /\ UNCHANGED <<feedVars, listVars>>)
  /\ \A ev \in Events :
       WF_allVars(ListenerStep(ev) /\ Silent /\ UNCHANGED <<presenceVars, listVars>>)

-----------------------------------------------------------------------------
\* Ruling D4 instead of a replay buffer: a screen that has joined its rooms and
\* then paged to the end shows every notification of its role, those that
\* arrived between two pages and those with one timestamp included, except
\* the ones whose emission is still to come.
NotificationsAreComplete ==
  \A s \in Sockets :
    bySocket[s] # Nobody /\ screen[s].at = "end" =>
      {n \in Matching(RoleOf[bySocket[s]], screen[s].unreadOnly, Top) :
         \A ev \in Events : call[ev].fresh # n} \subseteq screen[s].shown

\* No list that is paged by keyset loses or repeats a row.
ListsAreComplete == NotificationsAreComplete /\ PagesAreComplete

\* Ruling B4(a): an event gets a row for each of its recipients in the end,
\* unless a statement of its own call fails or the server restarts.
RecipientsGetRows ==
  \A ev \in Events :
    call[ev].at = "inserting" ~>
      \/ call[ev].at \in {"failed", "lost"}
      \/ \A i \in DOMAIN Recipients(KindOf[ev]) :
           \E n \in RowIds : rows[n] # None /\ rows[n].of = ev
                                 /\ rows[n].for = Recipients(KindOf[ev])[i]
=============================================================================
