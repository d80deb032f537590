--------------------------- MODULE MCStaffScreens ----------------------------
(***************************************************************************)
(* Instances of StaffScreens for TLC.  Presence and the notifications only *)
(* share who is connected, so a behaviour either has all the connections   *)
(* and no events, or one screen that stays and orders that arrive, or two  *)
(* screens and one order, or events of the other kinds with nobody there,  *)
(* or a list of orders or of audit rows.                                   *)
(***************************************************************************)
EXTENDS StaffScreens, TLC

VARIABLE focus

MCRoleOf == [ann |-> "manager", bob |-> "kitchen"]
MCKindOf ==
  [c1 |-> "order_created", c2 |-> "order_created", c3 |-> "order_created",
   r1 |-> "order_ready", i1 |-> "invitation", m1 |-> "order_moved"]

EventsOf ==
  [presence |-> {}, lists |-> {"c1", "c2", "c3"}, reads |-> {"c1"},
   calls |-> {"r1", "i1", "m1"}, orders |-> {}, audit |-> {}]
SocketsOf ==
  [presence |-> 1 .. 3, lists |-> {1}, reads |-> {1, 2}, calls |-> {}, orders |-> {},
   audit |-> {}]

InFocus ==
  /\ \A ev \in Events \ EventsOf[focus] : call'[ev].at = "unborn"
  /\ \A s \in Sockets \ SocketsOf[focus] : place'[s] = "new"
  /\ focus = "presence" => screen' = screen /\ now' = now
  /\ focus # "orders" => order' = order /\ board' = board
  /\ focus # "audit" => entry' = entry /\ review' = review
  /\ focus = "lists" =>
       /\ \A s \in Sockets : connected[s] => connected'[s]
       /\ mark' = mark
       /\ \A ev \in Events : call'[ev].at # "failed"
       /\ call'["c2"].at # "unborn" => call'["c1"].at # "unborn"
       /\ call'["c3"].at # "unborn" => call'["c2"].at # "unborn"

MCInit ==
  /\ AllInit
  /\ focus \in DOMAIN EventsOf
  /\ focus # "presence" => employee = [s \in Sockets |-> "bob"]

MCSpec ==
  /\ MCInit
  /\ [][AllNext /\ InFocus /\ UNCHANGED focus]_<<allVars, focus>>
  /\ \A s \in Sockets :
       WF_allVars((Verify(s) \/ Register(s)) /\ UNCHANGED <<feedVars, listVars>>)
  /\ \A ev \in Events :
       WF_allVars(ListenerStep(ev) /\ Silent /\ UNCHANGED <<presenceVars, listVars>>)
=============================================================================
