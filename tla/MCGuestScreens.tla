--------------------------- MODULE MCGuestScreens ---------------------------
(***************************************************************************)
(* Instances of GuestScreens for TLC.  A behaviour is about streams, about *)
(* the menu at one table that stays, or about tables and their codes, and  *)
(* one about streams ends when they are gone.                              *)
(* Slots and codes are numbers here and the least free one is taken, since *)
(* liveness is checked too and symmetry sets would be unsound.             *)
(***************************************************************************)
EXTENDS GuestScreens, TLC

VARIABLE focus

TheTable == CHOOSE t \in Tables : TRUE

\* The menu is edited by one request at a time, one field of a product in each,
\* with categories and products going between its read and its write.
MenuEdits ==
  /\ \A t \in Tables : table'[t].state = IF t = TheTable THEN "active" ELSE "unborn"
  /\ \A e \in Editors \ {1} : edit'[e] = NoEdit
  /\ edit'[1].at = "updating" => Cardinality(DOMAIN edit'[1].changes) = 1
  /\ renewal' = renewal

LeastFirst ==
  /\ \A h \in Handlers : slot[h] = Idle /\ slot'[h] # Idle => \A k \in 1 .. h - 1 : slot[k] # Idle
  /\ \A t \in Tables : table'[t].code # table[t].code => 1 .. table'[t].code - 1 \subseteq Spent
  /\ \A e \in Editors :
       renewal[e] = NoRenewal /\ renewal'[e] # NoRenewal =>
         \A d \in 1 .. e - 1 : renewal[d] # NoRenewal

InFocus ==
  /\ LeastFirst
  /\ focus = "streams" => doorVars' = doorVars /\ \E c \in Streams : stream[c] # "gone"
  /\ focus # "streams" => vars' = vars
  /\ focus = "menu" => MenuEdits
  /\ focus = "codes" => edit' = edit /\ category' = category /\ guest' = guest

MCInit == AllInit /\ focus \in {"streams", "menu", "codes"}

MCSpec ==
  /\ MCInit
  /\ [][AllNext /\ InFocus /\ UNCHANGED focus]_<<allVars, focus>>
  /\ \A h \in Handlers : WF_vars(Proceed(h))
  /\ \A c \in Streams : WF_vars(Serve(c))
=============================================================================
