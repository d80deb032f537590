---------------------------- MODULE GuestScreens ----------------------------
(***************************************************************************)
(* A guest's side of the server: the menu behind the code, and the stream  *)
(* of the order that was placed from it.  The two share no rows: an order  *)
(* keeps snapshots of what it was made of.                                 *)
(***************************************************************************)
EXTENDS OrderEvents, FrontDoor

allVars == <<vars, doorVars>>

AllInit == Init /\ DoorInit

AllNext ==
  \/ Next /\ UNCHANGED doorVars
  \/ DoorNext /\ UNCHANGED vars

AllSpec == AllInit /\ [][AllNext]_allVars
=============================================================================
