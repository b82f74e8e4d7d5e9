---------------------------- MODULE MCDeployment ----------------------------
(***************************************************************************)
(* Instances of Deployment for TLC.                                        *)
(***************************************************************************)
EXTENDS Deployment, TLC

CONSTANTS a1, a2, v1, v2, v3, d1, d2, run, artifacts

\* Two versions build the same image.
Rebuilt == v1 :> d1 @@ v2 :> d1 @@ v3 :> d2

\* One app goes through all of them, the other comes and goes.
Uneven == a1 :> {v1, v2, v3} @@ a2 :> {v1}
=============================================================================
