------------------------------ MODULE MCBackup ------------------------------
(***************************************************************************)
(* Instances of Backup for TLC: as many seconds as requests, so that a     *)
(* second with a free name always comes round.                             *)
(***************************************************************************)
EXTENDS Backup, TLC

ASSUME Cardinality(Requests) =< Seconds
=============================================================================
