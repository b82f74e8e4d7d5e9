--------------------------- MODULE MCLoadBalancer ---------------------------
(***************************************************************************)
(* Instances of LoadBalancer for TLC.                                      *)
(***************************************************************************)
EXTENDS LoadBalancer, TLC

CONSTANTS site, api, docs, c1, c2

\* A static site with an API below, and an app with a host of its own.
Urls ==
    site :> [host |-> 1, path |-> << >>, slash |-> FALSE]
    @@ api :> [host |-> 1, path |-> <<1>>, slash |-> TRUE]
    @@ docs :> [host |-> 2, path |-> <<1, 2>>, slash |-> FALSE]

Asked == [host : {1, 2}, path : {<<1>>, <<2>>, <<1, 1>>, <<1, 2>>}]
Warm == {[host |-> 1, path |-> <<1, 2>>]}
Certificates == <<c1, c2>>

\* Contents other than the first only where docs is not wanted, and not of both.
AllWants ==
    UNION {{w \in [as -> Contents] :
                /\ api \in as => w[api] # 0
                /\ docs \in as => \A a \in as : w[a] = 1
                /\ {site, api} \subseteq as => w[site] = 1 \/ w[api] = 1} : as \in SUBSET Apps}
=============================================================================
