---------------------------- MODULE LoadBalancer ----------------------------
(***************************************************************************)
(* The load balancer (deploy/load_balancer.go), its URL map                *)
(* (gcp/url_map.go) and the invalidation of the edge caches                *)
(* (deploy/cache_invalidate.go).  A round is a Plan and an Apply: Plan     *)
(* finds the steps that take the project to what is wanted now, and Apply  *)
(* runs them in the order of their dependencies until one fails.           *)
(*                                                                         *)
(* A host is a number, and a path a sequence of numbers that compare as    *)
(* their names do; one that ends in 0 ends in "*" in the code, and stands  *)
(* for every path below.  A content is a number, and 0 for none: a static  *)
(* app has one file, of which that is the version; another app has an      *)
(* image or an archive, which is pushed before its service is brought to   *)
(* it.  Every app has a URL of its own, and there are finitely many.       *)
(***************************************************************************)
EXTENDS Naturals, Sequences, FiniteSets

CONSTANTS Apps, Static, None,
          Url,              \* [host, path, slash]
          Cached,           \* apps with a CDN
          CertOf,           \* the certificate of each host
          Contents,
          Requests, Hot,    \* [host, path]; those that edges are asked for
          Wants,            \* contents of apps that may be wanted together
          MaxChanges,       \* apps that are wanted otherwise than in the last round
          MaxFaults

Hosts == DOMAIN CertOf

ASSUME LoadBalancerAssumption ==
    /\ Static \subseteq Apps /\ Cached \subseteq Apps /\ None \notin Apps
    /\ Hosts \subseteq Nat /\ Contents \subseteq Nat /\ MaxChanges \in Nat /\ MaxFaults \in Nat
    /\ Url \in [Apps -> [host : Hosts, path : Seq(Nat \ {0}), slash : BOOLEAN]]
    /\ IsFiniteSet(Apps)
    /\ \A a, b \in Apps :
          a # b => \/ Url[a].host # Url[b].host \/ Url[a].path # Url[b].path
                   \/ Url[a].path # << >> /\ Url[a].slash # Url[b].slash
    \* A project has some of the apps, and may have none.
    /\ 0 \in Contents /\ << >> \in Wants
    /\ \A w \in Wants : DOMAIN w \subseteq Apps /\ w \in [DOMAIN w -> Contents]
    /\ Requests \subseteq [host : Hosts, path : Seq(Nat \ {0})] /\ Hot \subseteq Requests

VARIABLES
    want, skipped,          \* contents of the wanted apps; apps not targeted
    todo, changed,          \* steps left of a round; changedURLs, by their apps
    art, spec,              \* contents: the record of images and archives, what
    live, running,          \* services are told and what answers; apps with a service
    backends, certs, urlMap, proxy,
    edge,                   \* what the edges hold for the hot requests
    excused,                \* hot requests no invalidation was due for
    answer, faults

lb == <<backends, certs, urlMap, proxy>>
plan == <<want, skipped, changed>>
served == <<art, spec, live, running>>
vars == <<plan, todo, served, lb, edge, excused, answer, faults>>

Init ==
    /\ want = << >> /\ skipped = {} /\ todo = {} /\ changed = {}
    /\ art = [a \in Apps |-> 0] /\ spec = art /\ live = art /\ running = {}
    /\ backends = {} /\ certs = {} /\ proxy = {}
    /\ urlMap = [default |-> None, hosts |-> << >>]
    /\ edge = [q \in Hot |-> << >>] /\ excused = {}
    /\ answer = "ok" /\ faults = 0

-----------------------------------------------------------------------------
(* The URL map.                                                            *)

SplitURLAsIs(u) == IF u.path = << >> THEN <<0>> ELSE u.path
SplitURL(u) == IF u.path = << >> \/ u.slash THEN u.path \o <<0>> ELSE u.path

Root == <<0>>

\* The order of strings.
Before(s, t) ==
    \E i \in 1..Len(t) :
        /\ \A j \in 1..(i - 1) : j <= Len(s) /\ s[j] = t[j]
        /\ i > Len(s) \/ s[i] < t[i]

\* URLMapping.
Mapping(apps) ==
    {[host |-> Url[a].host, path |-> SplitURL(Url[a]), app |-> a] : a \in apps}

First(ms) ==
    CHOOSE m \in ms : \A n \in ms \ {m} :
        m.host < n.host \/ (m.host = n.host /\ Before(m.path, n.path))

\* Every host has its matcher: rules, and a default, which is what is mapped to
\* the root or else the first in order.  The first of the first host is the
\* default of all.
MakeURLMap(ms) ==
    [default |-> IF ms = {} THEN None ELSE First(ms).app,
     hosts |-> [h \in {m.host : m \in ms} |->
        LET own == {m \in ms : m.host = h}
        IN  [default |-> First(own).app,
             rules |-> {[path |-> m.path, app |-> m.app] : m \in {n \in own : n.path # Root}}]]]

NoMap == MakeURLMap({})

\* URLMap.Read.
ReadRules(map) ==
    UNION {{[host |-> h, path |-> r.path, app |-> r.app] : r \in map.hosts[h].rules}
             : h \in DOMAIN map.hosts}
ReadMap(map) ==
    ReadRules(map) \cup
    {[host |-> h, path |-> Root, app |-> map.hosts[h].default] : h \in DOMAIN map.hosts}

Matches(path, req) ==
    LET n == Len(path) IN
    IF path[n] = 0
       THEN Len(req) >= n /\ \A i \in 1..(n - 1) : req[i] = path[i]
       ELSE req = path

Best(ms) == CHOOSE m \in ms : \A n \in ms \ {m} : Before(n.path, m.path)

\* The service's lookup: the longest path of the host that matches.
Route(map, q) ==
    IF q.host \notin DOMAIN map.hosts THEN map.default
    ELSE LET matcher == map.hosts[q.host]
             hits == {r \in matcher.rules : Matches(r.path, q.path)}
         IN  IF hits = {} THEN matcher.default ELSE Best(hits).app

-----------------------------------------------------------------------------
(* Plan.                                                                   *)

\* process*Apps: an app that is not targeted takes part if it is there.
AllIncluded(w, sk) == DOMAIN w
Included(w, sk) == {a \in DOMAIN w : a \in sk => a \in running}

\* processDomain, for the hosts of all apps.
WantedCerts(w, sk) ==
    IF Included(w, sk) = {} THEN {} ELSE {CertOf[Url[a].host] : a \in DOMAIN w}

Due(w, sk) == DOMAIN w \ sk

\* CalculateDiff compares with what was uploaded or pushed, whether or not it
\* came to be served.  A file that is new, or that goes, is no change.
AnyChanged(w, sk) ==
    {a \in Cached \cap Due(w, sk) :
        IF a \in Static THEN w[a] # live[a] /\ w[a] # 0 /\ live[a] # 0
        ELSE w[a] # art[a]}

\* The objects of a static app that is targeted.
FileSteps(w, sk) == {<<"files", a>> : a \in {b \in Static \cap Due(w, sk) : w[b] # live[b]}}

\* The image or the archive of another.
Pushable(w, sk) == {a \in Due(w, sk) \ Static : w[a] # art[a]}
PushSteps(w, sk) == {<<"push", a>> : a \in Pushable(w, sk)}

ServiceSteps(w, sk) ==
    {<<"run", a>> : a \in {b \in Due(w, sk) :
        b \notin running \/ b \in Pushable(w, sk) \/ (b \notin Static /\ w[b] # spec[b])}}

BackendSteps(w, sk) == {<<"backend", a>> : a \in Included(w, sk) \ backends}

CertSteps(w, sk) == {<<"cert", c>> : c \in WantedCerts(w, sk) \ certs}

\* What the registry has and nothing registers any more.
Deletions(w, sk) ==
    {<<"delete", a>> : a \in (running \cup backends) \ Included(w, sk)}
    \cup {<<"clear", a>> : a \in {b \in Apps \ DOMAIN w : art[b] # 0}}
    \cup {<<"drop", c>> : c \in certs \ WantedCerts(w, sk)}

Balancing(w, sk) ==
    LET in == Included(w, sk)
        due == (IF ReadMap(urlMap) # Mapping(in) THEN {"map"} ELSE {})
               \cup (IF proxy # WantedCerts(w, sk) THEN {"proxy"} ELSE {})
               \cup (IF AnyChanged(w, sk) # {} THEN {"invalidate"} ELSE {})
    IN  IF in # {} THEN {<<v, None>> : v \in due}
        ELSE IF urlMap # NoMap THEN {<<"remove", None>>} ELSE {}

Steps(w, sk) ==
    FileSteps(w, sk) \cup PushSteps(w, sk) \cup ServiceSteps(w, sk)
    \cup BackendSteps(w, sk) \cup CertSteps(w, sk) \cup Balancing(w, sk) \cup Deletions(w, sk)

\* The requests that a URL stands for.
Meant(a, q) == q.host = Url[a].host /\ Matches(SplitURL(Url[a]), q.path)

\* A hot request is excused when its edges hold an old answer already, when it
\* goes to another app now, or to one by default whose URL does not stand for
\* it, when its file goes, or when what it is to get was pushed by an earlier
\* round and is not served.
Stale(q) ==
    LET a == Route(urlMap, q) IN
    /\ edge[q] # << >> /\ a \in Cached
    /\ edge[q] # <<a, live[a]>>

Excuses(w, sk) ==
    LET map == MakeURLMap(Mapping(Included(w, sk))) IN
    {q \in Hot :
        LET a == Route(map, q) IN
        \/ Stale(q) \/ Route(urlMap, q) # a
        \/ a \in Apps /\ ~Meant(a, q)
        \/ a \in Due(w, sk) /\ w[a] = 0
        \/ a \in Due(w, sk) \ Static /\ w[a] = art[a] /\ art[a] # live[a]}

Differing(w) ==
    {a \in Apps : IF a \in DOMAIN w \cap DOMAIN want THEN w[a] # want[a]
                  ELSE a \in DOMAIN w \cup DOMAIN want}

Begin ==
    /\ answer # "none"
    /\ \E w \in Wants, sk \in SUBSET Apps :
          /\ Cardinality(Differing(w)) <= MaxChanges
          /\ Cardinality(sk) <= 1 /\ sk \subseteq DOMAIN w
          /\ want' = w /\ skipped' = sk
          /\ todo' = Steps(w, sk) /\ changed' = AnyChanged(w, sk)
          /\ excused' = Excuses(w, sk)
    /\ answer' = "none"
    /\ UNCHANGED <<served, lb, edge, faults>>

-----------------------------------------------------------------------------
(* Apply.                                                                  *)

\* The fields that a resource is made of order the steps, and those of
\* CacheInvalidate are the URL map's and the files'.
MapDependency == {"run", "backend", "map"}
FieldDependencies == {"run", "backend", "map", "files"}

After(s) ==
    CASE s[1] = "run" -> {t \in todo : t = <<"push", s[2]>>}
      [] s[1] = "backend" -> {t \in todo : t = <<"run", s[2]>>}
      [] s[1] = "map" -> {t \in todo : t[1] \in {"run", "backend"}}
      [] s[1] = "proxy" -> {t \in todo : t[1] \in {"run", "backend", "map", "cert"}}
      [] s[1] = "invalidate" -> {t \in todo : t[1] \in FieldDependencies}
      [] s[1] = "delete" -> {t \in todo : t[1] \in {"map", "remove"}}
      [] s[1] = "clear" -> {t \in todo : t = <<"delete", s[2]>>}
      [] s[1] = "drop" -> {t \in todo : t[1] \in {"proxy", "remove"}}
      [] OTHER -> {}

Do(s) ==
    /\ s \in todo /\ After(s) = {} /\ todo' = todo \ {s}
    /\ UNCHANGED <<plan, answer, faults>>

\* Objects of the bucket.
Upload(a) ==
    /\ Do(<<"files", a>>) /\ live' = [live EXCEPT ![a] = want[a]]
    /\ UNCHANGED <<art, spec, running, lb, edge, excused>>

\* The push of an image, or the upload of an archive.
Push(a) ==
    /\ Do(<<"push", a>>) /\ art' = [art EXCEPT ![a] = want[a]]
    /\ UNCHANGED <<spec, live, running, lb, edge, excused>>

\* The service or the function, which serves its files or its image.  The step
\* is done as well when the new revision is not ready and an older one answers.
Run(a) ==
    /\ Do(<<"run", a>>) /\ running' = running \cup {a}
    /\ IF a \in Static THEN UNCHANGED <<spec, live>>
       ELSE /\ spec' = [spec EXCEPT ![a] = want[a]]
            /\ live' \in {live, [live EXCEPT ![a] = want[a]]}
    /\ UNCHANGED <<art, lb, edge, excused>>

\* addServerlessNEG.
AddBackend(a) ==
    /\ Do(<<"backend", a>>) /\ backends' = backends \cup {a}
    /\ UNCHANGED <<served, certs, urlMap, proxy, edge, excused>>

AddCert(c) ==
    /\ Do(<<"cert", c>>) /\ certs' = certs \cup {c}
    /\ UNCHANGED <<served, backends, urlMap, proxy, edge, excused>>

UpdateMap ==
    /\ Do(<<"map", None>>) /\ urlMap' = MakeURLMap(Mapping(Included(want, skipped)))
    /\ UNCHANGED <<served, backends, certs, proxy, edge, excused>>

\* With its address and forwarding rules.
UpdateProxy ==
    /\ Do(<<"proxy", None>>) /\ proxy' = WantedCerts(want, skipped)
    /\ UNCHANGED <<served, backends, certs, urlMap, edge, excused>>

\* CacheInvalidate.Process.
Invalidated(q) == \E a \in changed : Meant(a, q)

Process ==
    /\ Do(<<"invalidate", None>>)
    /\ edge' = [q \in Hot |-> IF Invalidated(q) THEN << >> ELSE edge[q]]
    /\ excused' = {q \in excused : ~Invalidated(q)}
    /\ UNCHANGED <<served, lb>>

RemoveLoadBalancer ==
    /\ Do(<<"remove", None>>) /\ urlMap' = NoMap /\ proxy' = {}
    /\ UNCHANGED <<served, backends, certs, edge, excused>>

\* The service is refused to a service that is in use: only what is not wanted
\* goes.
Delete(a) ==
    /\ Do(<<"delete", a>>) /\ backends' = backends \ {a}
    /\ IF a \in DOMAIN want THEN UNCHANGED <<spec, live, running>>
       ELSE /\ spec' = [spec EXCEPT ![a] = 0] /\ live' = [live EXCEPT ![a] = 0]
            /\ running' = running \ {a}
    /\ UNCHANGED <<art, certs, urlMap, proxy, edge, excused>>

\* The image or the archive goes after the service.
Clear(a) ==
    /\ Do(<<"clear", a>>) /\ art' = [art EXCEPT ![a] = 0]
    /\ UNCHANGED <<spec, live, running, lb, edge, excused>>

DropCert(c) ==
    /\ Do(<<"drop", c>>) /\ certs' = certs \ {c}
    /\ UNCHANGED <<served, backends, urlMap, proxy, edge, excused>>

End ==
    /\ answer = "none" /\ todo = {} /\ answer' = "ok" /\ changed' = {}
    /\ UNCHANGED <<want, skipped, todo, served, lb, edge, excused, faults>>

Fail ==
    /\ answer = "none" /\ todo # {} /\ faults < MaxFaults /\ faults' = faults + 1
    /\ answer' = "failed" /\ todo' = {} /\ changed' = {} /\ excused' = {}
    /\ UNCHANGED <<want, skipped, served, lb, edge>>

-----------------------------------------------------------------------------
(* The services, and the edges.                                            *)

\* A revision becomes ready by itself, and no invalidation is due for it.
Serve(a) ==
    /\ a \in running \ Static /\ live[a] # spec[a]
    /\ live' = [live EXCEPT ![a] = spec[a]]
    /\ excused' = excused \cup {q \in Hot : Route(urlMap, q) = a}
    /\ UNCHANGED <<plan, todo, art, spec, running, lb, edge, answer, faults>>

Fill(q) ==
    LET a == Route(urlMap, q) IN
    /\ edge[q] = << >> /\ CertOf[q.host] \in proxy
    /\ a \in Cached \cap running /\ live[a] # 0
    /\ edge' = [edge EXCEPT ![q] = <<a, live[a]>>]
    /\ UNCHANGED <<plan, todo, served, lb, excused, answer, faults>>

Expire(q) ==
    /\ edge[q] # << >> /\ edge' = [edge EXCEPT ![q] = << >>]
    /\ UNCHANGED <<plan, todo, served, lb, excused, answer, faults>>

Certs == {CertOf[h] : h \in Hosts}

Next ==
    \/ Begin \/ UpdateMap \/ UpdateProxy \/ Process \/ RemoveLoadBalancer \/ End \/ Fail
    \/ \E a \in Apps : \/ Upload(a) \/ Push(a) \/ Run(a) \/ AddBackend(a) \/ Delete(a) \/ Clear(a)
                       \/ Serve(a)
    \/ \E c \in Certs : AddCert(c) \/ DropCert(c)
    \/ \E q \in Hot : Fill(q) \/ Expire(q)

Spec == Init /\ [][Next]_vars

-----------------------------------------------------------------------------
(* Properties.                                                             *)

TypeOK ==
    /\ want \in Wants /\ skipped \subseteq DOMAIN want
    /\ changed \subseteq Cached /\ excused \subseteq Hot
    /\ {art, spec, live} \subseteq [Apps -> Contents] /\ running \subseteq Apps
    /\ edge \in [Hot -> {<< >>} \cup (Cached \X Contents)]
    /\ answer \in {"none", "ok", "failed"} /\ faults \in 0..MaxFaults
    \* What is named exists.
    /\ {m.app : m \in ReadMap(urlMap)} \subseteq backends
    /\ backends \subseteq running /\ proxy \subseteq certs /\ certs \subseteq Certs

\* What a URL stands for.
Covers(u, path) ==
    IF u.path = << >> \/ u.slash
       THEN Len(path) > Len(u.path) /\ SubSeq(path, 1, Len(u.path)) = u.path
       ELSE path = u.path

\* When a round has succeeded, a request that some app of its host covers goes
\* to the app with the longest path, over a certificate of its host; any other
\* request to the host of an app stays at that host.
Routed ==
    answer = "ok" => \A q \in Requests :
        LET own == {a \in Included(want, skipped) : Url[a].host = q.host}
            covering == {a \in own : Covers(Url[a], q.path)}
            target == Route(urlMap, q)
        IN  own # {} =>
                /\ target \in own /\ CertOf[q.host] \in proxy
                /\ covering # {} =>
                    /\ target \in covering
                    /\ \A a \in covering : Len(Url[a].path) <= Len(Url[target].path)

\* After a round that succeeded, the next one finds the URL map as it wants it,
\* unless a host has no app at its root.
Stable ==
    answer = "ok" =>
        LET ms == Mapping(Included(want, skipped)) IN
        \/ ReadMap(urlMap) = ms
        \/ \E m \in ms : ~\E n \in ms : n.host = m.host /\ n.path = Root

\* A round that succeeded leaves no answer at the edges that it replaced, nor
\* lets one be cached in its course.
CacheFresh == answer = "ok" => \A q \in Hot : Stale(q) => q \in excused
=============================================================================
