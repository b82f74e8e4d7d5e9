---------------------------- MODULE MCPluginCore ----------------------------
(***************************************************************************)
(* Instances of PluginCore for TLC.                                        *)
(***************************************************************************)
EXTENDS PluginCore, TLC

CONSTANTS c1, c2, a1, a2

\* Both calls need the first API, one also the second.
Shared == c1 :> {a1} @@ c2 :> {a1, a2}
=============================================================================
