----------------------------- MODULE GuestVisit -----------------------------
(***************************************************************************)
(* What the floor promises a guest party and the cashier, with no requests *)
(* in flight: a party is seated at a free table, its tab grows while it is *)
(* seated, one payment freezes the tab and frees the party, and the table  *)
(* is free again once it is cleaned.                                       *)
(***************************************************************************)
CONSTANTS Tables, Visits, Orders, None

VARIABLES
  floor,  \* "free", "seated" or "dirty" per table
  host,   \* the table a visit was seated at
  tab,    \* the orders of a visit
  paid    \* the visits settled by their payment

gvVars == <<floor, host, tab, paid>>

Init ==
  /\ floor = [t \in Tables |-> "free"]
  /\ host = [v \in Visits |-> None]
  /\ tab = [v \in Visits |-> {}]
  /\ paid = {}

Seat(t, v, o) ==
  /\ floor[t] = "free"
  /\ host[v] = None
  /\ \A w \in Visits : o \notin tab[w]
  /\ floor' = [floor EXCEPT ![t] = "seated"]
  /\ host' = [host EXCEPT ![v] = t]
  /\ tab' = [tab EXCEPT ![v] = {o}]
  /\ UNCHANGED paid

AddToTab(v, o) ==
  /\ host[v] # None
  /\ v \notin paid
  /\ floor[host[v]] = "seated"
  /\ \A w \in Visits : o \notin tab[w]
  /\ tab' = [tab EXCEPT ![v] = @ \cup {o}]
  /\ UNCHANGED <<floor, host, paid>>

Settle(v) ==
  /\ host[v] # None
  /\ v \notin paid
  /\ floor[host[v]] = "seated"
  /\ paid' = paid \cup {v}
  /\ floor' = [floor EXCEPT ![host[v]] = "dirty"]
  /\ UNCHANGED <<host, tab>>

Clean(t) ==
  /\ floor[t] = "dirty"
  /\ floor' = [floor EXCEPT ![t] = "free"]
  /\ UNCHANGED <<host, tab, paid>>

Next ==
  \/ \E t \in Tables, v \in Visits, o \in Orders : Seat(t, v, o)
  \/ \E v \in Visits, o \in Orders : AddToTab(v, o)
  \/ \E v \in Visits : Settle(v)
  \/ \E t \in Tables : Clean(t)

Spec == Init /\ [][Next]_gvVars
=============================================================================
