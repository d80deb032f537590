--------------------------- MODULE MCStoredImages ---------------------------
(***************************************************************************)
(* Instances of StoredImages for TLC.                                      *)
(***************************************************************************)
EXTENDS StoredImages, TLC

\* Requests, products and amounts are interchangeable.
Symmetry == Permutations(Requests) \cup Permutations(Products) \cup Permutations(Amounts)
=============================================================================
