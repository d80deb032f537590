------------------------------ MODULE MCFloor -------------------------------
(***************************************************************************)
(* Instances of Floor for TLC.  Nothing distinguishes one table, visit,    *)
(* order, shift or request slot from another, so invariants and action     *)
(* properties are checked up to a permutation of each.                     *)
(***************************************************************************)
EXTENDS Floor, TLC

Symmetry ==
  Permutations(Tables) \cup Permutations(Groups) \cup Permutations(Orders)
    \cup Permutations(Shifts) \cup Permutations(Employees) \cup Permutations(Requests)
=============================================================================
