------------------------------ MODULE MCDrivers ------------------------------
(***************************************************************************)
(* Instances of Drivers for TLC.                                           *)
(***************************************************************************)
EXTENDS Drivers, TLC

CONSTANTS r1, r2

\* Every kind on its own, and two that share an SQL instance: the others
\* that meet on one depend on each other, and are not worked on together.
Groups == {r1 :> k : k \in Kinds}
          \cup {r1 :> "CloudSQLUser" @@ r2 :> "CloudSQLDatabase"}
=============================================================================
