----------------------------- MODULE MCSecrets -----------------------------
(***************************************************************************)
(* Instances of Secrets for TLC.                                           *)
(***************************************************************************)
EXTENDS Secrets, TLC

CONSTANTS k1, k2, a, b, empty

V(x, t, e) == [val |-> x, stamp |-> t, enabled |-> e]

\* One version, or two of which a first SetSecret left both readable.
Histories == {<<V(a, 1, TRUE)>>, <<V(b, 1, TRUE), V(a, 2, TRUE)>>}

Set(k, x)  == [op |-> "set", want |-> k :> x]
Remove(k)  == [op |-> "delete", want |-> k :> empty]
Replace(w) == [op |-> "replace", want |-> w]

MixedRequests ==
    {Set(k1, b), Set(k1, empty), Remove(k1), Replace(<< >>),
     Replace(k1 :> b), Replace(k1 :> b @@ k2 :> a)}

\* All about one key.
KeyRequests ==
    {Set(k1, a), Set(k1, b), Set(k1, empty), Remove(k1), Replace(k1 :> a)}

\* Clocks that are ahead, or behind.
BothWays == {2, -2}

Symmetry == Permutations(Clients)
=============================================================================
