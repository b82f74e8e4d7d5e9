------------------------------- MODULE Drivers -------------------------------
(***************************************************************************)
(* The drivers of DriverScripts at work: a host applies what is wanted in  *)
(* rounds.  A round is a run of the CLI, with a plugin process of its own, *)
(* so that a list which FuncCache keeps is read once in it.  It reads      *)
(* every resource (Read of each driver), or trusts the record of the last  *)
(* one, then runs the methods side by side, and saves the record; the end  *)
(* of the process loses what the round learned.                            *)
(*                                                                         *)
(* The registry, which makes the differences and runs the methods, and the *)
(* cloud are external.  A fault is a call refused, an answer lost, an      *)
(* operation failed, a wait given up or a crash; an edit is somebody       *)
(* else's change.  A configuration is the old or the new one, somebody     *)
(* else's, or partial: the new one as Read sees it, and yet not in place.  *)
(* A job that failed stays with the resource until the next one: it says   *)
(* that what was asked for last is not in place, whether that was told to  *)
(* the caller or not.                                                      *)
(***************************************************************************)
EXTENDS DriverScripts

CONSTANTS Res, None,
          Assignments,      \* the resources that are together, and their kinds
          MaxFaults, MaxEdits

ASSUME DriversAssumption ==
    /\ MaxFaults \in Nat /\ MaxEdits \in Nat /\ None \notin Res
    /\ \A a \in Assignments : DOMAIN a \subseteq Res /\ a \in [DOMAIN a -> Kinds]
    \* An instance is not worked on together with what is on it: that depends on it.
    /\ \A a \in Assignments : \A q, r \in DOMAIN a :
          q # r /\ {a[q], a[r]} \subseteq OnInstance => "CloudSQL" \notin {a[q], a[r]}

VARIABLES
    kind, goal, reads, wantPub,     \* of the behaviour
    cfg, pub, job,                  \* in the cloud: configuration, policy, operation
    record, recPub, saved,          \* what the registry knows, and what it saved
    m, todo, result,                \* method, the rest of its script, its outcome
    fp,                             \* the fingerprint held
    mutex,                          \* of the SQL instance
    edited,                         \* changed by somebody since it was known
    refused,                        \* an SQL call met an operation of ours
    faults, edits

given == <<kind, goal, reads, wantPub>>
cloud == <<cfg, pub, job>>
known == <<record, recPub>>
vars == <<given, cloud, known, saved, m, todo, result, fp, mutex, edited,
          refused, faults, edits>>

Used == DOMAIN kind
Configs == {"none", "old", "new", "other", "partial"}
Methods == {"create", "update", "delete"}

TypeOK ==
    /\ kind \in Assignments /\ goal \in {"new", "none"} /\ reads \in BOOLEAN
    /\ wantPub \in [Used -> BOOLEAN]
    /\ cfg \in [Used -> Configs] /\ pub \in [Used -> BOOLEAN]
    /\ job \in [Used -> {"none", "failed", "insert", "rewrite", "remove"}]
    /\ record \in [Used -> Configs] /\ recPub \in [Used -> BOOLEAN]
    /\ saved \in [Used -> [cfg : Configs, pub : BOOLEAN]]
    /\ m \in [Used -> Methods \cup {"idle", "read", "diff", "unread", "end"}]
    /\ todo \in [Used -> Seq(Steps)]
    /\ result \in [Used -> {"none", "ok", "error"}]
    /\ fp \in [Used -> {"none", "fresh", "stale"}]
    /\ mutex \in Used \cup {None}
    /\ edited \in [Used -> BOOLEAN] /\ refused \in BOOLEAN
    /\ faults \in 0..MaxFaults /\ edits \in 0..MaxEdits
    \* A method holds the mutex from its first step on.
    /\ mutex # None => m[mutex] \in Methods /\ kind[mutex] \in OnInstance

Init ==
    /\ kind \in Assignments /\ goal \in {"new", "none"} /\ reads \in BOOLEAN
    /\ wantPub \in [Used -> BOOLEAN]
    /\ \A r \in Used : wantPub[r] => kind[r] \in WithPolicy
    /\ cfg \in [Used -> {"none", "old", "new"}]
    /\ \A r \in Used : cfg[r] # IF kind[r] = "APIService" THEN "old" ELSE "new"
    /\ pub = [r \in Used |-> FALSE] /\ job = [r \in Used |-> "none"]
    /\ record = cfg /\ recPub = pub
    /\ saved = [r \in Used |-> [cfg |-> cfg[r], pub |-> FALSE]]
    /\ m = [r \in Used |-> "idle"] /\ todo = [r \in Used |-> << >>]
    /\ result = [r \in Used |-> "none"] /\ fp = [r \in Used |-> "none"]
    /\ mutex = None /\ edited = [r \in Used |-> FALSE] /\ refused = FALSE
    /\ faults = 0 /\ edits = 0

-----------------------------------------------------------------------------
(* A round of the registry.                                                *)

StartRound ==
    /\ \A r \in Used : m[r] = "idle"
    /\ m' = [r \in Used |-> IF reads THEN "read" ELSE "diff"]
    /\ result' = [r \in Used |-> "none"] /\ fp' = [r \in Used |-> "none"]
    /\ UNCHANGED <<given, cloud, known, saved, todo, mutex, edited, refused, faults, edits>>

\* What Read may take for the current configuration.  A field that a driver
\* does not get from the cloud stays as the record has it, and without a
\* record is a difference; of an image, only the digest is got.
Sees(r) ==
    LET there == IF cfg[r] = "partial" THEN "new" ELSE cfg[r]
        kept == IF record[r] = "none" THEN "other" ELSE record[r]
    IN  CASE cfg[r] = "none" -> {"none"}
          [] cfg[r] # "none" /\ kind[r] = "Image" ->
                IF record[r] = "none" THEN {"new", "other"} ELSE {record[r]}
          [] cfg[r] # "none" /\ kind[r] \in PartlyRead -> {there, kept}
          [] OTHER -> {there}

\* Read of each driver: what is not there is new, except that the gRPC errors
\* of monitoring are not seen to say so, and what has no id is not looked for.
Read(r) ==
    /\ m[r] = "read"
    /\ IF kind[r] \in ServerNamed /\ (record[r] = "none" \/ cfg[r] = "none")
          THEN /\ m' = [m EXCEPT ![r] = IF record[r] = "none" THEN "diff" ELSE "unread"]
               /\ UNCHANGED <<known, fp, edited>>
          ELSE /\ m' = [m EXCEPT ![r] = "diff"]
               /\ \E c \in Sees(r) : record' = [record EXCEPT ![r] = c]
               /\ recPub' = [recPub EXCEPT ![r] = pub[r]]
               /\ fp' = [fp EXCEPT ![r] = IF kind[r] \in Fingerprinted /\ cfg[r] # "none"
                                             THEN "fresh" ELSE @]
               /\ edited' = [edited EXCEPT ![r] = FALSE]
    /\ UNCHANGED <<given, cloud, saved, todo, result, mutex, refused, faults, edits>>

ReadFails(r) ==
    /\ m[r] = "read" /\ faults < MaxFaults
    /\ m' = [m EXCEPT ![r] = "unread"] /\ faults' = faults + 1
    /\ UNCHANGED <<given, cloud, known, saved, todo, result, fp, mutex, edited, refused, edits>>

ChangedConfig(r) == record[r] # "new"
Changed(r) == record[r] # "new" \/ recPub[r] # wantPub[r]

Method(r) ==
    CASE goal = "new" /\ record[r] = "none" -> "create"
      [] goal = "new" /\ record[r] # "none" /\ Changed(r) ->
            IF kind[r] \in Replaced THEN "delete" ELSE "update"
      [] goal = "none" /\ record[r] # "none" -> "delete"
      [] OTHER -> "end"

Script(r, method) ==
    IF method \in Methods THEN Driver[kind[r]][method] ELSE << >>

\* Nothing is applied unless everything was read.
Diff(r) ==
    /\ m[r] = "diff" /\ \A q \in Used : m[q] # "read"
    /\ LET method == IF \E q \in Used : m[q] = "unread" THEN "end" ELSE Method(r)
       IN  m' = [m EXCEPT ![r] = method] /\ todo' = [todo EXCEPT ![r] = Script(r, method)]
    /\ UNCHANGED <<given, cloud, known, saved, result, fp, mutex, edited, refused, faults, edits>>

EndRound ==
    /\ \A r \in Used : m[r] \in {"end", "unread"}
    /\ m' = [r \in Used |-> "idle"]
    /\ saved' = [r \in Used |-> [cfg |-> record[r], pub |-> recPub[r]]]
    /\ UNCHANGED <<given, cloud, known, todo, result, fp, mutex, edited, refused, faults, edits>>

Crash ==
    /\ faults < MaxFaults /\ faults' = faults + 1
    /\ \E r \in Used : m[r] # "idle"
    /\ m' = [r \in Used |-> "idle"] /\ todo' = [r \in Used |-> << >>]
    /\ result' = [r \in Used |-> "none"] /\ fp' = [r \in Used |-> "none"]
    /\ mutex' = None
    /\ record' = [r \in Used |-> saved[r].cfg] /\ recPub' = [r \in Used |-> saved[r].pub]
    /\ edited' = [r \in Used |-> TRUE]
    /\ UNCHANGED <<given, cloud, saved, refused, edits>>

-----------------------------------------------------------------------------
(* The steps of a script.                                                  *)

At(r, step) == m[r] \in Methods /\ todo[r] # << >> /\ Head(todo[r]) = step

UnlockForgotten(r) == UNCHANGED mutex
Unlock(r) == mutex' = IF mutex = r THEN None ELSE mutex

Advance(r) ==
    /\ todo' = [todo EXCEPT ![r] = Tail(@)]
    /\ UNCHANGED <<m, result, mutex>>

Fail(r) ==
    /\ m' = [m EXCEPT ![r] = "end"] /\ result' = [result EXCEPT ![r] = "error"]
    /\ todo' = [todo EXCEPT ![r] = << >>]
    /\ Unlock(r)

rest == <<given, known, saved, edited, edits>>

Set(r, c) ==
    /\ cfg' = [cfg EXCEPT ![r] = c]
    /\ fp' = [fp EXCEPT ![r] = IF @ = "fresh" /\ c # cfg[r] THEN "stale" ELSE @]

\* Rules that are not wanted any more, and a raised number of versions, do
\* not reach a bucket.
Wanted(r) == IF kind[r] = "RuledBucket" THEN "partial" ELSE "new"

\* The service has the wanted specification before a revision runs with it.
Accepted(r) == IF kind[r] = "CloudRun" THEN "partial" ELSE Wanted(r)

\* A method is over; Create, Update or Delete answers nil.
Return(r) ==
    /\ m[r] \in Methods /\ todo[r] = << >>
    /\ IF m[r] = "delete" /\ goal = "new"
          THEN /\ m' = [m EXCEPT ![r] = "create"]
               /\ todo' = [todo EXCEPT ![r] = Driver[kind[r]].create]
               /\ UNCHANGED result
          ELSE /\ m' = [m EXCEPT ![r] = "end"] /\ UNCHANGED todo
               /\ result' = [result EXCEPT ![r] = "ok"]
    /\ record' = [record EXCEPT ![r] = IF m[r] = "delete" THEN "none" ELSE "new"]
    /\ recPub' = [recPub EXCEPT ![r] = m[r] # "delete" /\ wantPub[r]]
    /\ Unlock(r)
    /\ UNCHANGED <<given, cloud, saved, fp, edited, refused, faults, edits>>

Refuse(r, step) ==
    /\ At(r, step) /\ Fail(r)
    /\ UNCHANGED <<rest, cloud, fp, refused, faults>>

\* o.Lock of the instance's key, given back by the deferred Unlock.
Lock(r) ==
    /\ At(r, "lock") /\ mutex = None /\ mutex' = r
    /\ todo' = [todo EXCEPT ![r] = Tail(@)]
    /\ UNCHANGED <<rest, cloud, m, result, fp, refused, faults>>

Busy(r) ==
    /\ kind[r] \in OnInstance
    /\ \E q \in Used : kind[q] \in OnInstance /\ job[q] \in {"insert", "rewrite", "remove"}

Starts == {"insert", "rewrite", "patch", "remove"}

\* One operation at a time on an instance.
RefuseBusy(r) ==
    /\ \E s \in Starts : At(r, s)
    /\ Busy(r) /\ Fail(r) /\ refused' = TRUE
    /\ UNCHANGED <<rest, cloud, fp, faults>>

Operation(r, step, j) ==
    /\ At(r, step) /\ ~Busy(r) /\ job[r] \in {"none", "failed"}
    /\ job' = [job EXCEPT ![r] = j]

Insert(r) ==
    /\ Operation(r, "insert", "insert") /\ cfg[r] = "none" /\ Advance(r)
    /\ IF kind[r] = "CloudFunction" THEN Set(r, "partial") ELSE UNCHANGED <<cfg, fp>>
    /\ UNCHANGED <<rest, pub, refused, faults>>

Exists(r) ==
    \E s \in {"insert", "make"} :
        cfg[r] # "none" /\ kind[r] \notin ServerNamed /\ kind[r] # "APIService" /\ Refuse(r, s)

\* An API that is enabled may be enabled again.
Again(r) ==
    /\ At(r, "insert") /\ kind[r] = "APIService" /\ cfg[r] # "none" /\ Advance(r)
    /\ UNCHANGED <<rest, cloud, fp, refused, faults>>

\* The operation in the answer is done, and its Error unseen.
Unseen(r) ==
    /\ (At(r, "insert") \/ At(r, "rewrite"))
    /\ kind[r] \in EarlyDone /\ faults < MaxFaults /\ faults' = faults + 1
    /\ cfg[r] = "none" <=> At(r, "insert")
    /\ Advance(r)
    /\ IF kind[r] = "CloudFunction" /\ At(r, "insert")
          THEN Set(r, "partial") ELSE UNCHANGED <<cfg, fp>>
    /\ UNCHANGED <<rest, pub, job, refused>>

Rewrite(r) ==
    /\ Operation(r, "rewrite", "rewrite") /\ cfg[r] # "none" /\ Advance(r)
    /\ UNCHANGED <<rest, cfg, pub, fp, refused, faults>>

\* if Fingerprint == "" (SettingsVersion == 0).
Fetch(r) ==
    /\ At(r, "fetch") /\ cfg[r] # "none" /\ Advance(r)
    /\ fp' = [fp EXCEPT ![r] = IF @ = "none" THEN "fresh" ELSE @]
    /\ UNCHANGED <<rest, cloud, refused, faults>>

HeldLatest(r) == "fresh"
Held(r) == fp[r]

Patch(r) ==
    /\ Operation(r, "patch", "rewrite") /\ cfg[r] # "none" /\ Held(r) = "fresh"
    /\ Advance(r)
    /\ UNCHANGED <<rest, cfg, pub, fp, refused, faults>>

PatchStale(r) == Held(r) = "stale" /\ Refuse(r, "patch")

Remove(r) ==
    /\ Operation(r, "remove", "remove") /\ cfg[r] # "none" /\ Advance(r)
    /\ UNCHANGED <<rest, cfg, pub, fp, refused, faults>>

Needing == {"rewrite", "fetch", "patch", "remove", "get", "amend", "drop",
            "policy", "empty", "ready"}

Absent(r) == \E s \in Needing : cfg[r] = "none" /\ Refuse(r, s)

Over(r) == job[r] \in {"none", "failed"}
FineAlways(r) == TRUE
Fine(r) == job[r] = "none"

\* Waits for the operation; SQLOperationError, ComputeOperationError.
Await(r) ==
    /\ At(r, "await") /\ Over(r)
    /\ IF Fine(r) THEN Advance(r) ELSE Fail(r)
    /\ UNCHANGED <<rest, cloud, fp, refused, faults>>

\* opErr is forgotten when the function can be read; for a service, False is
\* an answer like True.
Settle(r) ==
    /\ \/ At(r, "settle")
       \/ At(r, "ready") /\ cfg[r] # "none"
       \/ At(r, "gone") /\ cfg[r] = "none"
    /\ Over(r) /\ Advance(r)
    /\ UNCHANGED <<rest, cloud, fp, refused, faults>>

\* Operations.Get fails or the context is over; the operation goes on.
Leave(r) ==
    /\ faults < MaxFaults /\ faults' = faults + 1
    /\ IF At(r, "settle") THEN Advance(r)
       ELSE (\E s \in {"await", "ready", "gone"} : At(r, s)) /\ Fail(r)
    /\ UNCHANGED <<rest, cloud, fp, refused>>

Make(r) ==
    /\ At(r, "make") /\ (cfg[r] = "none" \/ kind[r] \in ServerNamed)
    /\ Set(r, Accepted(r)) /\ Advance(r)
    /\ job' = [job EXCEPT ![r] = IF kind[r] = "CloudRun" THEN "rewrite" ELSE @]
    /\ UNCHANGED <<rest, pub, refused, faults>>

Amend(r) ==
    /\ At(r, "amend") /\ cfg[r] # "none" /\ Over(r)
    /\ Set(r, Accepted(r)) /\ Advance(r)
    /\ job' = [job EXCEPT ![r] = IF kind[r] = "CloudRun" THEN "rewrite" ELSE @]
    /\ UNCHANGED <<rest, pub, refused, faults>>

Put(r) ==
    /\ At(r, "put") /\ Set(r, "new") /\ Advance(r)
    /\ job' = [job EXCEPT ![r] = "none"]
    /\ UNCHANGED <<rest, pub, refused, faults>>

\* Docker says in a stream, which is thrown away, that a push or a pull failed:
\* with a digest from before, nil is answered.  Nothing, or an old copy of the
\* source, was pushed; under a new tag there may be no image at all.
PushUnseen(r) ==
    /\ At(r, "put") /\ kind[r] = "Image"
    /\ faults < MaxFaults /\ faults' = faults + 1
    /\ \E c \in {cfg[r], "none", "other"} : Set(r, c)
    /\ job' = [job EXCEPT ![r] = "failed"] /\ Advance(r)
    /\ UNCHANGED <<rest, pub, refused>>

Drop(r) ==
    /\ At(r, "drop") /\ cfg[r] # "none" /\ Set(r, "none") /\ Advance(r)
    /\ pub' = [pub EXCEPT ![r] = FALSE]
    /\ UNCHANGED <<rest, job, refused, faults>>

\* Steps that leave the resource as it is; dropOld's error is not looked at.
Pass(r) ==
    /\ \/ \E s \in {"repository", "dropOld", "dropVersion"} : At(r, s)
       \/ \E s \in {"get", "empty"} : At(r, s) /\ cfg[r] # "none"
    /\ Advance(r)
    /\ UNCHANGED <<rest, cloud, fp, refused, faults>>

PolicySteps == {"policy", "policyIfPublic", "policyIfChanged"}

Skipped(r) == \/ At(r, "policyIfPublic") /\ ~wantPub[r]
              \/ At(r, "policyIfChanged") /\ recPub[r] = wantPub[r]

Policy(r) ==
    /\ \E s \in PolicySteps : At(r, s)
    /\ (cfg[r] # "none" \/ Skipped(r))
    /\ pub' = [pub EXCEPT ![r] = IF Skipped(r) THEN @ ELSE wantPub[r]]
    /\ Advance(r)
    /\ UNCHANGED <<rest, cfg, job, fp, refused, faults>>

\* The service went away before its policy was set.
PolicyAbsent(r) ==
    \E s \in PolicySteps : cfg[r] = "none" /\ ~Skipped(r) /\ Refuse(r, s)

\* A call is refused, or done and its answer lost.
Fault(r) ==
    /\ m[r] \in Methods /\ todo[r] # << >> /\ faults < MaxFaults /\ faults' = faults + 1
    /\ Head(todo[r]) \notin {"lock", "unimplemented", "dropOld", "await", "settle",
                             "ready", "gone"}
    /\ Fail(r)
    /\ UNCHANGED <<rest, cloud, fp, refused>>

Lost(r) ==
    /\ faults < MaxFaults /\ faults' = faults + 1
    /\ \/ At(r, "insert") /\ cfg[r] = "none" /\ ~Busy(r) /\ job' = [job EXCEPT ![r] = "insert"]
          /\ UNCHANGED <<cfg, fp, pub>>
       \/ /\ \/ At(r, "make") /\ cfg[r] = "none" /\ kind[r] \notin ServerNamed
             \/ At(r, "put")
          /\ Set(r, Accepted(r)) /\ UNCHANGED pub
          /\ job' = [job EXCEPT ![r] = IF kind[r] = "CloudRun" THEN "rewrite" ELSE "none"]
       \/ At(r, "remove") /\ ~Busy(r) /\ cfg[r] # "none" /\ job' = [job EXCEPT ![r] = "remove"]
          /\ UNCHANGED <<cfg, fp, pub>>
       \/ At(r, "drop") /\ cfg[r] # "none" /\ Set(r, "none") /\ UNCHANGED job
          /\ pub' = [pub EXCEPT ![r] = FALSE]
    /\ Fail(r)
    /\ UNCHANGED <<rest, refused>>

-----------------------------------------------------------------------------
(* The cloud, and somebody else.                                           *)

OperationEnds(r) ==
    /\ \/ job[r] = "insert" /\ Set(r, Wanted(r)) /\ UNCHANGED pub
       \/ job[r] = "rewrite" /\ Set(r, IF cfg[r] = "none" THEN "none" ELSE Wanted(r))
          /\ UNCHANGED pub
       \/ job[r] = "remove" /\ Set(r, "none") /\ pub' = [pub EXCEPT ![r] = FALSE]
    /\ job' = [job EXCEPT ![r] = "none"]
    /\ UNCHANGED <<rest, m, todo, result, mutex, refused, faults>>

\* A revision may fail to get ready; a service's removal has no such outcome.
OperationFails(r) ==
    /\ job[r] \in {"insert", "rewrite", "remove"} /\ faults < MaxFaults
    /\ ~(kind[r] = "CloudRun" /\ job[r] = "remove")
    /\ faults' = faults + 1 /\ job' = [job EXCEPT ![r] = "failed"]
    /\ UNCHANGED <<rest, cfg, pub, fp, m, todo, result, mutex, refused>>

\* Any change of somebody else's makes a fingerprint old.
Touch(r, c) ==
    /\ cfg' = [cfg EXCEPT ![r] = c]
    /\ fp' = [fp EXCEPT ![r] = IF @ = "fresh" THEN "stale" ELSE @]

Edit(r) ==
    /\ edits < MaxEdits /\ edits' = edits + 1
    /\ cfg[r] # "none" /\ Over(r)
    /\ \/ kind[r] # "APIService" /\ Touch(r, "other") /\ UNCHANGED pub
       \/ Touch(r, "none") /\ pub' = [pub EXCEPT ![r] = FALSE]
       \/ kind[r] \in WithPolicy /\ pub' = [pub EXCEPT ![r] = ~@] /\ UNCHANGED <<cfg, fp>>
    /\ edited' = [edited EXCEPT ![r] = TRUE]
    /\ UNCHANGED <<given, known, saved, job, m, todo, result, mutex, refused, faults>>

-----------------------------------------------------------------------------
Step(r) ==
    r \in Used /\
    (\/ Read(r) \/ Diff(r) \/ Return(r) \/ Lock(r) \/ RefuseBusy(r)
    \/ Insert(r) \/ Exists(r) \/ Again(r) \/ Rewrite(r)
    \/ Fetch(r) \/ Patch(r) \/ PatchStale(r) \/ Remove(r) \/ Absent(r)
    \/ Await(r) \/ Settle(r) \/ Make(r) \/ Amend(r) \/ Put(r) \/ Drop(r)
    \/ Pass(r) \/ Policy(r) \/ PolicyAbsent(r))

Next ==
    \/ StartRound \/ EndRound \/ Crash
    \/ \E r \in Used :
          \/ Step(r) \/ OperationEnds(r)
          \/ ReadFails(r) \/ Unseen(r) \/ PushUnseen(r) \/ Leave(r)
          \/ Fault(r) \/ Lost(r)
          \/ OperationFails(r) \/ Edit(r)

\* The host applies again and again; methods run and operations end.
Fairness ==
    /\ WF_vars(StartRound) /\ WF_vars(EndRound)
    /\ \A r \in Res : WF_vars(Step(r)) /\ WF_vars(r \in Used /\ OperationEnds(r))

Spec == Init /\ [][Next]_vars /\ Fairness

-----------------------------------------------------------------------------
(* Properties.                                                             *)

Reached(r) ==
    IF goal = "new" THEN cfg[r] = "new" /\ pub[r] = wantPub[r] ELSE cfg[r] = "none"

\* A revision that failed, which a service answers nil to with Ready false, or
\* a push that failed, which nobody is told.
Unheeded(r) == kind[r] \in {"CloudRun", "Image"} /\ job[r] = "failed"

\* A driver whose answer may be nil before, or without, its effect: an error
\* it drops, a failure it does not take for one, lifecycle rules it does not
\* send, a Delete that does nothing.
Overclaims(r) ==
    \/ kind[r] \in EarlyDone /\ faults > 0
    \/ Unheeded(r) /\ goal = "new"
    \/ kind[r] = "RuledBucket"
    \/ kind[r] = "APIService" /\ goal = "none"

\* A method that answers nil leaves its resource as it should be, with no
\* operation of its own under way, unless somebody else changed it.
OkMeansDone ==
    [][\A r \in Used :
          result'[r] = "ok" /\ result[r] # "ok" /\ ~edited[r] /\ ~Overclaims(r)
              => Reached(r) /\ Over(r)]_vars

\* With Read, what was changed by somebody after it was read is not
\* overwritten by a driver that sends a fingerprint.
NoBlindOverwrite ==
    [][\A r \in Used :
          reads /\ kind[r] \in Fingerprinted /\ edited[r]
              => ~(At(r, "patch") /\ job[r] # "rewrite" /\ job'[r] = "rewrite")]_vars

\* The mutex keeps the operations on an SQL instance apart: none is refused
\* because of another of ours, unless one was left running.
OneAtATime == refused => faults > 0

\* With Read, repeated rounds bring every resource to what is wanted, whatever
\* failed in the earlier ones and whatever was changed, but for what Read
\* cannot tell from it or cannot find: a change of somebody's to what is not
\* read, a service whose revision failed, an image whose push did.
Recovers(r) ==
    /\ r \in Used /\ reads
    /\ kind[r] \notin ServerNamed \cup {"RuledBucket", "CloudFunction"}
    /\ ~(kind[r] = "APIService" /\ goal = "none")
    /\ goal = "new" => /\ ~Unheeded(r)
                       /\ ~(kind[r] \in PartlyRead \cup {"Image"} /\ cfg[r] = "other")

Converges == \A r \in Res : <>[](Recovers(r) => Reached(r))
=============================================================================
