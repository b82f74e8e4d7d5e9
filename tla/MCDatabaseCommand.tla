-------------------------- MODULE MCDatabaseCommand --------------------------
(***************************************************************************)
(* Instances of DatabaseCommand for TLC.                                   *)
(***************************************************************************)
EXTENDS DatabaseCommand

CONSTANTS c1, c2
=============================================================================
