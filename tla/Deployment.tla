----------------------------- MODULE Deployment -----------------------------
(***************************************************************************)
(* Plan and Apply (plugin/deploy.go, actions/plan.go) for apps that run an *)
(* image of their own as a Cloud Run service (deploy/app_service.go), call *)
(* after call of one host, which sends the state it holds and is sent it   *)
(* back.  An Apply first looks for the project's Cloud Run suffix, with a  *)
(* service made for that (actions/plan_service.go), and then enables APIs. *)
(*                                                                         *)
(* The host and the registry are external: the registry makes the image    *)
(* before the service that names its digest, removes them in the opposite  *)
(* order, and goes on with the other apps when one fails.  Cloud Run takes *)
(* a specification first, and then tries to run it; until that works what  *)
(* ran before still does.  A fault is a call that is refused, the end of   *)
(* the process, a revision that does not start, or a push that fails.      *)
(***************************************************************************)
EXTENDS Naturals, FiniteSets

CONSTANTS Apps, Versions,
          Builds,           \* Builds[a]: the versions app a comes in
          Digest,           \* Digest[v]: of the image built from version v
          APIs, RunAPI, RepoAPI,
          None,
          MaxFaults, MaxChanges

ASSUME DeploymentAssumption ==
    /\ None \notin Versions \cup {Digest[v] : v \in Versions}
    /\ {RunAPI, RepoAPI} \subseteq APIs
    /\ Builds \in [Apps -> SUBSET Versions]
    /\ MaxFaults \in Nat /\ MaxChanges \in Nat

VARIABLES
    wanted,             \* the version of each app, None for an app that is gone
    held,               \* the state the host holds
    apis, temp,         \* in the cloud: services enabled, the temporary service,
    repo, tag,          \* digests, the one tagged,
    spec, serving,      \* the one each service is to run, and the one it runs
    pc, mode, st, reg,  \* a call: where it is, Plan or Apply, State, registry
    old, failed,        \* digests to delete, apps that failed
    answer,             \* of the last Apply, if nothing has changed since
    reads, keeps,       \* the host reads the cloud, keeps the state of a Plan
    stray, lost,        \* apps with a push nobody recorded, whose record was lost,
    unseen,             \* whose last push failed and nobody was told
    faults, changes

host == <<wanted, held, reads, keeps, changes>>
cloud == <<apis, temp, repo, tag, spec, serving>>
call == <<pc, mode, st, reg, old, failed>>
ghost == <<stray, lost, unseen>>
vars == <<host, cloud, call, answer, ghost, faults>>

Digests == {Digest[v] : v \in Versions}
Records == {r \in [src : Versions \cup {None}, image : Digests \cup {None},
                   service : Digests \cup {None}, ready : BOOLEAN] :
               r.src # None => r.image # None}
Nothing == [src |-> None, image |-> None, service |-> None, ready |-> FALSE]
States == [other : {"nil", "made"}, settings : BOOLEAN, apis : BOOLEAN,
           registry : [Apps -> Records]]

TypeOK ==
    /\ wanted \in [Apps -> Versions \cup {None}]
    /\ held \in States /\ st \in States /\ reg \in [Apps -> Records]
    /\ apis \subseteq APIs /\ temp \in BOOLEAN
    /\ repo \in [Apps -> SUBSET Digests]
    /\ tag \in [Apps -> Digests \cup {None}]
    /\ spec \in [Apps -> Digests \cup {None}] /\ serving \in [Apps -> Digests \cup {None}]
    /\ pc \in {"idle", "url", "temp", "suffix", "apis", "diff", "run", "save", "error"}
    /\ mode \in {"plan", "apply"}
    /\ old \in [Apps -> Digests \cup {None}] /\ failed \subseteq Apps
    /\ answer \in {"none", "ok", "error"} /\ reads \in BOOLEAN /\ keeps \in BOOLEAN
    /\ stray \subseteq Apps /\ lost \subseteq Apps /\ unseen \subseteq Apps
    /\ faults \in 0..MaxFaults /\ changes \in 0..MaxChanges
    \* The tag is on a digest in the repository, nothing runs without a service;
    \* what is held as made was made in a map.
    /\ \A a \in Apps : /\ tag[a] # None => tag[a] \in repo[a]
                       /\ spec[a] = None => serving[a] = None
    /\ held.settings \/ held.apis => held.other = "made"

Init ==
    /\ wanted \in {w \in [Apps -> Versions \cup {None}] :
                      \A a \in Apps : w[a] \in Builds[a] \cup {None}}
    /\ held \in {[other |-> o, settings |-> FALSE, apis |-> FALSE,
                  registry |-> [a \in Apps |-> Nothing]] : o \in {"nil", "made"}}
    /\ st = held /\ reg = held.registry
    /\ apis = {} /\ temp = FALSE
    /\ repo = [a \in Apps |-> {}]
    /\ tag = [a \in Apps |-> None] /\ spec = tag /\ serving = tag /\ old = tag
    /\ pc = "idle" /\ mode = "plan" /\ failed = {} /\ answer = "none"
    /\ reads \in BOOLEAN /\ keeps \in BOOLEAN
    /\ stray = {} /\ lost = {} /\ unseen = {} /\ faults = 0 /\ changes = 0

-----------------------------------------------------------------------------
(* A call, and its end.                                                    *)

Goto(l) == pc' = l

Call ==
    /\ pc = "idle" /\ st' = held
    /\ mode' \in {"plan", "apply"} /\ answer' = "none"
    /\ Goto(IF \A a \in Apps : wanted[a] = None THEN "apis" ELSE "url")
    /\ reg' = held.registry /\ old' = [a \in Apps |-> None] /\ failed' = {}
    /\ UNCHANGED <<host, cloud, ghost, faults>>

Fault == faults < MaxFaults /\ faults' = faults + 1

\* Apply sends Done with a.State whatever happened, Plan only when it worked.
SendsStateIfDone == pc # "error" /\ failed = {} /\ (mode = "apply" \/ keeps)
SendsState == mode = "apply" \/ (keeps /\ pc # "error")

Saved == IF pc = "save" THEN [st EXCEPT !.registry = reg] ELSE st

Answer ==
    /\ pc \in {"save", "error"} /\ Goto("idle")
    /\ held' = IF SendsState THEN Saved ELSE held
    /\ answer' = IF mode = "plan" THEN "none"
                 ELSE IF pc = "save" /\ failed = {} THEN "ok" ELSE "error"
    /\ UNCHANGED <<wanted, reads, keeps, changes, cloud, mode, st, reg, old, failed,
                   ghost, faults>>

\* What the registry has, and the host will not learn.
Unlearned == {a \in Apps : held.registry[a] # reg[a]}

Die ==
    /\ Goto("idle") /\ answer' = "none"
    /\ lost' = lost \cup Unlearned
    /\ stray' = stray \cup {a \in Apps : held.registry[a].src # reg[a].src}
    /\ UNCHANGED <<host, cloud, mode, st, reg, old, failed, unseen>>

Crash == pc # "idle" /\ Fault /\ Die

-----------------------------------------------------------------------------
(* prepareCloudRunURL.                                                     *)

Current == st.settings \/ mode = "plan"

Url ==
    /\ pc = "url" /\ Current /\ Goto("apis")
    /\ UNCHANGED <<host, cloud, mode, st, reg, old, failed, answer, ghost, faults>>

\* Its name is always the same.
CreateTemporary ==
    /\ pc = "url" /\ ~Current
    /\ IF temp \/ RunAPI \notin apis
          THEN Goto("error") /\ UNCHANGED temp
          ELSE Goto("temp") /\ temp' = TRUE
    /\ UNCHANGED <<host, apis, repo, tag, spec, serving, mode, st, reg, old, failed, answer,
                   ghost, faults>>

DeleteTemporary ==
    /\ pc = "temp" /\ Goto("suffix") /\ temp' = FALSE
    /\ UNCHANGED <<host, apis, repo, tag, spec, serving, mode, st, reg, old, failed, answer,
                   ghost, faults>>

\* The settings are put into State.Other, which enableAPIs has not made yet.
Suffix ==
    /\ pc = "suffix" /\ UNCHANGED faults
    /\ IF st.other = "nil"
          THEN Die
          ELSE /\ Goto("apis") /\ st' = [st EXCEPT !.settings = TRUE]
               /\ UNCHANGED <<host, cloud, mode, reg, old, failed, answer, ghost>>

\* A call is refused: Create, Delete, a URL of unknown format, an API.
Refused ==
    /\ pc \in {"url", "temp", "suffix", "apis", "diff"}
    /\ pc = "url" => ~Current
    /\ pc = "apis" => ~st.apis
    /\ pc = "diff" => reads
    /\ Fault /\ Goto("error")
    /\ UNCHANGED <<host, cloud, mode, st, reg, old, failed, answer, ghost>>

-----------------------------------------------------------------------------
(* enableAPIs.                                                             *)

EnableAPI(x) ==
    /\ pc = "apis" /\ ~st.apis /\ x \notin apis /\ apis' = apis \cup {x}
    /\ UNCHANGED <<host, temp, repo, tag, spec, serving, call, answer, ghost, faults>>

SomeEnabled == apis # {}
AllEnabled == APIs \subseteq apis

\* The record is dumped when all are enabled.
APIsRecorded ==
    /\ pc = "apis" /\ (st.apis \/ AllEnabled)
    /\ Goto("diff") /\ st' = [st EXCEPT !.other = "made", !.apis = TRUE]
    /\ UNCHANGED <<host, cloud, mode, reg, old, failed, answer, ghost, faults>>

-----------------------------------------------------------------------------
(* planAll and ProcessAndDiff.  Image.Read takes the digest of the tag and *)
(* leaves the source alone; CloudRun.Read takes the image from the         *)
(* specification, and whether it runs is for the host to show.             *)

ReadApp(a) ==
    [src |-> IF tag[a] = None THEN None ELSE reg[a].src,
     image |-> tag[a], service |-> spec[a],
     ready |-> spec[a] # None /\ serving[a] = spec[a]]

Diff ==
    /\ pc = "diff"
    /\ reg' = IF reads THEN [a \in Apps |-> ReadApp(a)] ELSE reg
    /\ Goto(IF mode = "plan" THEN "save" ELSE "run")
    /\ UNCHANGED <<host, cloud, mode, st, old, failed, answer, ghost, faults>>

-----------------------------------------------------------------------------
(* Apply of the registry.                                                  *)

Working(a) == pc = "run" /\ a \notin failed

\* BeforeDiff: another source makes the digest unknown.
PushDue(a) == wanted[a] # None /\ reg[a].src # wanted[a]

DeployDue(a) ==
    /\ wanted[a] # None /\ ~PushDue(a) /\ old[a] = None
    /\ reg[a].service # reg[a].image

RemoveServiceDue(a) == wanted[a] = None /\ reg[a].service # None
RemoveImageDue(a) ==
    wanted[a] = None /\ reg[a].service = None /\ reg[a].image # None

OldDigest(a) == IF reg[a].image = Digest[wanted[a]] THEN None ELSE reg[a].image

\* Image.Create and Update: push, and the digest it replaces.
OnRecord(a) ==
    /\ reg' = [reg EXCEPT ![a].src = wanted[a], ![a].image = Digest[wanted[a]]]
    /\ old' = [old EXCEPT ![a] = OldDigest(a)]

Push(a) ==
    /\ Working(a) /\ PushDue(a) /\ OnRecord(a)
    /\ repo' = [repo EXCEPT ![a] = @ \cup {Digest[wanted[a]]}]
    /\ tag' = [tag EXCEPT ![a] = Digest[wanted[a]]]
    /\ unseen' = unseen \ {a}
    /\ UNCHANGED <<host, apis, temp, spec, serving, pc, mode, st, failed, answer,
                   stray, lost, faults>>

\* Docker tells of the failure in a stream that is thrown away, and the digest
\* it knows from an earlier push or pull is taken for the pushed one.
PushUnseen(a) ==
    /\ Working(a) /\ PushDue(a) /\ Fault /\ OnRecord(a)
    /\ unseen' = unseen \cup {a}
    /\ UNCHANGED <<host, cloud, pc, mode, st, failed, answer, stray, lost>>

\* Its error is not looked at: that the digest is tagged, for one.
DropOld(a) ==
    /\ pc = "run" /\ old[a] # None /\ old' = [old EXCEPT ![a] = None]
    /\ \/ /\ tag[a] # old[a] /\ repo' = [repo EXCEPT ![a] = @ \ {old[a]}]
          /\ UNCHANGED faults
       \/ tag[a] = old[a] /\ UNCHANGED <<repo, faults>>
       \/ Fault /\ UNCHANGED repo
    /\ UNCHANGED <<host, apis, temp, tag, spec, serving, pc, mode, st, reg, failed,
                   answer, ghost>>

Fails(a) ==
    /\ failed' = failed \cup {a}
    /\ UNCHANGED <<host, apis, temp, repo, spec, serving, pc, mode, st, reg, old, answer,
                   ghost>>

SaysReady(served) == TRUE
Says(served) == served

\* CloudRun.Create and Update, of a service that must not, and that must, be
\* there.  waitForRunServiceReady gives no error when the revision does not
\* start, for want of its image or of anything else: Ready is False then.
Deploy(a) ==
    /\ Working(a) /\ DeployDue(a)
    /\ IF (reg[a].service = None) # (spec[a] = None)
          THEN Fails(a) /\ UNCHANGED <<tag, faults>>
          ELSE \E served \in BOOLEAN :
                  /\ IF served THEN reg[a].image \in repo[a] /\ UNCHANGED faults
                     ELSE IF reg[a].image \in repo[a] THEN Fault ELSE UNCHANGED faults
                  /\ spec' = [spec EXCEPT ![a] = reg[a].image]
                  /\ serving' = [serving EXCEPT ![a] = IF served THEN reg[a].image ELSE @]
                  /\ reg' = [reg EXCEPT ![a].service = reg[a].image,
                                        ![a].ready = Says(served)]
                  /\ UNCHANGED <<host, apis, temp, repo, tag, pc, mode, st, old, failed,
                                 answer, ghost>>

RemoveService(a) ==
    /\ Working(a) /\ RemoveServiceDue(a) /\ UNCHANGED faults
    /\ IF spec[a] = None
          THEN Fails(a) /\ UNCHANGED tag
          ELSE /\ spec' = [spec EXCEPT ![a] = None]
               /\ serving' = [serving EXCEPT ![a] = None]
               /\ reg' = [reg EXCEPT ![a].service = None, ![a].ready = FALSE]
               /\ UNCHANGED <<host, apis, temp, repo, tag, pc, mode, st, old, failed,
                              answer, ghost>>

TagKept(a) == tag[a]
TagLeft(a) == None

\* Image.Delete: the tag, then the digest it knows, which may not be there, or
\* be refused.
RemoveImage(a) ==
    /\ Working(a) /\ RemoveImageDue(a) /\ tag[a] # None
    /\ tag' = [tag EXCEPT ![a] = TagLeft(a)]
    /\ \/ /\ reg[a].image \in repo[a] /\ UNCHANGED faults
          /\ repo' = [repo EXCEPT ![a] = @ \ {reg[a].image}]
          /\ reg' = [reg EXCEPT ![a] = Nothing]
          /\ UNCHANGED <<host, apis, temp, spec, serving, pc, mode, st, old, failed,
                         answer, ghost>>
       \/ IF reg[a].image \in repo[a] THEN Fault /\ Fails(a)
          ELSE UNCHANGED faults /\ Fails(a)

Untagged(a) ==
    /\ Working(a) /\ RemoveImageDue(a) /\ tag[a] = None
    /\ Fails(a) /\ UNCHANGED <<tag, faults>>

Due(a) == PushDue(a) \/ DeployDue(a) \/ RemoveServiceDue(a) \/ RemoveImageDue(a)

AppRefused(a) == Working(a) /\ Due(a) /\ Fault /\ Fails(a) /\ UNCHANGED tag

RunEnds ==
    /\ pc = "run" /\ Goto("save")
    /\ \A a \in Apps : old[a] = None /\ (a \in failed \/ ~Due(a))
    /\ UNCHANGED <<host, cloud, mode, st, reg, old, failed, answer, ghost, faults>>

-----------------------------------------------------------------------------
(* The user changes the project.                                           *)

Change(a) ==
    /\ pc = "idle" /\ changes < MaxChanges /\ changes' = changes + 1
    /\ \E v \in (Builds[a] \cup {None}) \ {wanted[a]} : wanted' = [wanted EXCEPT ![a] = v]
    /\ answer' = "none"
    /\ UNCHANGED <<held, reads, keeps, cloud, call, ghost, faults>>

Step ==
    \/ Url \/ CreateTemporary \/ DeleteTemporary \/ Suffix
    \/ APIsRecorded \/ Diff \/ RunEnds \/ Answer
    \/ \E x \in APIs : EnableAPI(x)
    \/ \E a \in Apps :
          \/ Push(a) \/ DropOld(a) \/ Deploy(a)
          \/ RemoveService(a) \/ RemoveImage(a) \/ Untagged(a)

Next ==
    \/ Call \/ Step \/ Crash \/ Refused
    \/ \E a \in Apps : PushUnseen(a) \/ AppRefused(a) \/ Change(a)

\* The host goes on calling, with a Plan and with an Apply; a call goes on.
Fairness ==
    /\ SF_vars(Call /\ mode' = "plan") /\ SF_vars(Call /\ mode' = "apply")
    /\ WF_vars(Step)

Spec == Init /\ [][Next]_vars /\ Fairness

-----------------------------------------------------------------------------
(* Properties.                                                             *)

\* Between calls the host's state records every service and every tagged
\* image, whatever failed half-way, unless the process died with the record or
\* a push failed that nobody was told of.
NothingForgotten ==
    pc = "idle" =>
        \A a \in Apps \ lost :
            /\ spec[a] = held.registry[a].service
            /\ a \notin unseen => tag[a] \in {held.registry[a].image, None}

Runs(a, r) ==
    IF wanted[a] = None THEN spec[a] = None
    ELSE /\ spec[a] = Digest[wanted[a]]
         /\ serving[a] = spec[a] \/ ~r.ready

\* After an Apply that answers nil every app that is wanted is set to the
\* version that is wanted, from an image still in the repository, and runs it
\* unless the host is told that it is not ready; no other app is there.  But
\* for an app whose record a crash lost, or whose push failed unseen.
OkMeansDeployed ==
    answer = "ok" =>
        \A a \in Apps \ (lost \cup unseen) :
            /\ Runs(a, held.registry[a])
            /\ wanted[a] # None => spec[a] \in repo[a]

\* A host that keeps what a Plan answers, and reads the cloud, gets its apps
\* deployed however often it failed, or is told that they do not start; unless
\* the temporary service was left behind, a push that was not recorded was
\* followed by a change back, or a push failed unseen.
Deployed == \A a \in Apps \ (stray \cup unseen) : Runs(a, held.registry[a])

Deploys == <>[](keeps /\ reads /\ ~temp => Deployed)
=============================================================================
