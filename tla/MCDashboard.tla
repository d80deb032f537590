----------------------------- MODULE MCDashboard -----------------------------
(***************************************************************************)
(* Instances of Dashboard for TLC.  A behaviour is either about sales or   *)
(* about the kitchen, and it ends with the answer: what happens later      *)
(* cannot contradict it.  Reports that the properties except are not       *)
(* pursued, one employee stands for all, and the tax rate rises once at    *)
(* most.                                                                   *)
(***************************************************************************)
EXTENDS Dashboard, TLC

VARIABLE focus

Unanswered == kpis = NotYet /\ stats.place # "done"

Pursued ==
  /\ \A o \in Orders : OnOneDay(o)
  /\ report # NoReport =>
       /\ report.who \in Staff \cup {None}
       /\ report.from <= report.today /\ DayOf(report.until) = report.today

InFocus ==
  /\ Unanswered /\ Pursued' /\ taxRate <= taxRate'
  /\ focus = "sales" => created' = created /\ events' = events /\ stats' = stats
  /\ focus = "sales" /\ report.place = "done" =>
       taxRate' = taxRate /\ Cancelled' = Cancelled /\ (Completed' = Completed => clock' = clock)
  /\ focus = "kitchen" => taxRate' = taxRate /\ order' = order /\ report' = report

MCInit == AllInit /\ taxRate = 0 /\ focus \in {"sales", "kitchen"}

MCSpec == MCInit /\ [][AllNext /\ InFocus /\ UNCHANGED focus]_<<allVars, focus>>

\* Orders and products are interchangeable.
Symmetry == Permutations(Orders) \cup Permutations(Products)
=============================================================================
