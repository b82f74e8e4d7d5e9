---------------------------- MODULE LockService ----------------------------
(***************************************************************************)
(* What LockingPluginService promises to the hosts that call it: a request *)
(* is granted whole and in one step, only when nobody else has any of its  *)
(* locks, and a host that ends its use of them gives all of them up.  The  *)
(* one way to lose a lock before is to have it revoked, by a release by    *)
(* force; a lock may be revoked even before the request is granted.        *)
(***************************************************************************)
CONSTANTS Files, Clients,
          Requests      \* lock names of a request, as the files they map to

VARIABLES granted,      \* the locks each client was told it has
          revoked       \* the locks taken from it by force

Wanted(r) == {r[j] : j \in DOMAIN r}

Init ==
    /\ granted = [c \in Clients |-> {}]
    /\ revoked = [c \in Clients |-> {}]

Grant(c, r) ==
    /\ granted[c] = {}
    /\ \A d \in Clients \ {c} :
          (granted[d] \ revoked[d]) \cap (Wanted(r) \ revoked[c]) = {}
    /\ granted' = [granted EXCEPT ![c] = Wanted(r)]
    /\ UNCHANGED revoked

Revoke(c, f) ==
    /\ revoked' = [revoked EXCEPT ![c] = @ \cup {f}]
    /\ UNCHANGED granted

\* A lock revoked before the grant may be had again: the request names it twice.
Restore(c, f) ==
    /\ granted[c] = {}
    /\ revoked' = [revoked EXCEPT ![c] = @ \ {f}]
    /\ UNCHANGED granted

Return(c) ==
    /\ granted' = [granted EXCEPT ![c] = {}]
    /\ revoked' = [revoked EXCEPT ![c] = {}]

Next ==
    \E c \in Clients :
        \/ \E r \in Requests : Grant(c, r)
        \/ Return(c)
        \/ \E f \in Files : Revoke(c, f) \/ Restore(c, f)

Spec == Init /\ [][Next]_<<granted, revoked>>
=============================================================================
