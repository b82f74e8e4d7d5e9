----------------------------- MODULE MCLocking -----------------------------
(***************************************************************************)
(* Instances of Locking for TLC.  Files are 1, 2, 3 in the order of their  *)
(* names; a request lists the files its names map to, in any order.        *)
(***************************************************************************)
EXTENDS Locking, TLC

\* Opposite orders of two names.
CrossingRequests == {<<1, 2>>, <<2, 1>>}

\* Opposite orders, and two names that map to one file.
OddRequests == {<<2, 1>>, <<2, 1, 2>>}

\* Requests that form a cycle of three unless they are sorted.
RingRequests == {<<1, 2>>, <<2, 3>>, <<3, 1>>}

\* One request for all the files, and two that take a part of them.
NestedRequests == {<<3, 2, 1>>, <<1>>, <<3>>}

MixedRequests == CrossingRequests \cup OddRequests

Symmetry == Permutations(Clients)
=============================================================================
