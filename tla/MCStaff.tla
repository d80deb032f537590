------------------------------- MODULE MCStaff -------------------------------
(***************************************************************************)
(* Instances of Staff for TLC.  What onboarding, sign-in and the guards do *)
(* to one another goes through few columns, so a behaviour is restricted   *)
(* to the handlers of one focus and to what these handlers depend on; the  *)
(* run covers every focus.                                                 *)
(***************************************************************************)
EXTENDS Staff

VARIABLE focus

MCCooldowns == <<1, 2>>

PlacesOf ==
  [onboarding |-> {"idle", "look", "replace", "withdraw", "accept", "expire"},
   signin     |-> {"idle", "renew", "verify", "login", "reset"},
   rights     |-> {"idle", "renew", "call", "acting"}]

\* Onboarding leaves locks and devices alone, a role matters to the guards
\* only, and a token that runs out too.
InFocus ==
  /\ \A q \in Requests : req'[q].at \in PlacesOf[focus]
  /\ focus = "onboarding" =>
       /\ UNCHANGED lock
       /\ \A e \in Employees : Hired(e)' => employee'[e].active
  /\ focus # "onboarding" => \A e \in Employees : Hired(e)' = Hired(e)
  /\ focus # "signin" =>
       \A d \in Devices : device[d] # None => device'[d] = device[d]
  /\ focus # "rights" =>
       /\ passes \subseteq passes'
       /\ \A e \in Employees :
            Hired(e)' => employee'[e].role = IF e \in Seniors THEN "owner" ELSE "waiter"

MCInit ==
  /\ Init
  /\ focus \in DOMAIN PlacesOf
  /\ focus = "onboarding" => \A d \in Devices : device[d] = None
  /\ focus # "rights" => \A e \in Seniors : employee[e].role = "owner"

MCSpec ==
  /\ MCInit
  /\ [][Next /\ InFocus /\ UNCHANGED focus]_<<vars, focus>>
  /\ WF_vars(Minute)
=============================================================================
