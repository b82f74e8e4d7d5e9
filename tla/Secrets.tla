------------------------------ MODULE Secrets ------------------------------
(***************************************************************************)
(* SecretPluginService: SetSecret, DeleteSecret, ReplaceSecrets and        *)
(* DeleteSecrets (plugin/secrets.go) of several runs of the CLI on the     *)
(* secrets of one project.  A secret has numbered versions; a reader sees  *)
(* the latest, or "" when that one was destroyed.  SetSecret checks and    *)
(* then acts, with one API call per step; ReplaceSecrets lists the secrets *)
(* and works on each key in a goroutine of its own.  DeleteSecrets is the  *)
(* ReplaceSecrets of the empty map: the code is the same.                  *)
(*                                                                         *)
(* The store's clock counts the versions added; the local clock of a       *)
(* client differs from it by skew.  A fault is a lost request, a lost      *)
(* answer or a crash; a key has at most one job in a call.                 *)
(***************************************************************************)
EXTENDS Integers, FiniteSets, Sequences

CONSTANTS Keys, Clients,
          Values,       \* the values of secrets
          Empty,        \* the value ""
          Requests,     \* [op, want]: want maps the request's keys to values
          Initial,      \* the versions a secret may have at first
          Start,        \* the store's clock at first
          Skews,        \* local clock minus the store's
          MaxFaults     \* bound on faults

Ops == {"set", "delete", "replace"}
Version == [val : Values \ {Empty}, stamp : Nat, enabled : BOOLEAN]

ASSUME SecretsAssumption ==
    /\ IsFiniteSet(Keys) /\ Empty \in Values
    /\ MaxFaults \in Nat /\ Start \in Nat /\ Skews \subseteq Int
    /\ Initial \subseteq Seq(Version)
    /\ \A s \in Initial : \A n \in 1..Len(s) : s[n].stamp <= Start
    /\ \A r \in Requests :
          /\ r.op \in Ops /\ DOMAIN r.want \subseteq Keys
          /\ \A k \in DOMAIN r.want : r.want[k] \in Values
          /\ r.op # "replace" => Cardinality(DOMAIN r.want) = 1

VARIABLES exists,      \* the secret of each key exists
          versions,    \* its versions, by their number
          clock,       \* stamp of the last version added
          skew,        \* of each client
          pc,          \* where each client's call is
          op, want,    \* its request
          at,          \* where the job of each key is
          cleanup,     \* setSecretValue's cleanup
          before,      \* setSecretValue's now
          doomed,      \* versions its loop has still to destroy
          own,         \* deleteSecret of this key failed
          sharedErr,   \* err of ReplaceSecrets, which its deletions share
          groupErr,    \* some job returned an error
          reply,
          disturbed,   \* another client changed a secret since the call began
          deleted,     \* keys whose secret was ever deleted
          faults       \* faults so far

storeVars == <<exists, versions, clock>>
callVars  == <<pc, skew, op, want, reply>>
valueVars == <<cleanup, before, doomed>>
errVars   == <<own, sharedErr, groupErr>>
ghosts    == <<disturbed, deleted>>
vars == <<storeVars, callVars, at, valueVars, errVars, ghosts, faults>>

Jobs == {"off", "get", "create", "access", "add", "versions", "destroy",
         "delete", "return", "done"}

TypeOK ==
    /\ exists \in [Keys -> BOOLEAN]
    /\ versions \in [Keys -> Seq(Version)]
    /\ clock \in Nat
    /\ skew \in [Clients -> Skews]
    /\ pc \in [Clients -> {"idle", "list", "run", "ended"}]
    /\ op \in [Clients -> Ops]
    /\ \A c \in Clients : want[c] \in {<< >>} \cup {r.want : r \in Requests}
    /\ at \in [Clients -> [Keys -> Jobs]]
    /\ cleanup \in [Clients -> [Keys -> BOOLEAN]]
    /\ before \in [Clients -> [Keys -> Int]]
    /\ doomed \in [Clients -> [Keys -> SUBSET (Nat \ {0})]]
    /\ own \in [Clients -> [Keys -> BOOLEAN]]
    /\ sharedErr \in [Clients -> BOOLEAN] /\ groupErr \in [Clients -> BOOLEAN]
    /\ reply \in [Clients -> {"none", "ok", "error"}]
    /\ disturbed \in [Clients -> BOOLEAN]
    /\ deleted \in SUBSET Keys
    /\ faults \in 0..MaxFaults

PerJob(x) == [c \in Clients |-> [k \in Keys |-> x]]

Init ==
    /\ exists \in [Keys -> BOOLEAN]
    /\ versions \in [Keys -> Initial \cup {<< >>}]
    /\ \A k \in Keys : ~exists[k] => versions[k] = << >>
    /\ clock = Start
    /\ skew \in [Clients -> Skews]
    /\ pc = [c \in Clients |-> "idle"]
    /\ op = [c \in Clients |-> "set"] /\ want = [c \in Clients |-> << >>]
    /\ at = PerJob("off") /\ cleanup = PerJob(TRUE) /\ before = PerJob(0)
    /\ doomed = PerJob({}) /\ own = PerJob(FALSE)
    /\ sharedErr = [c \in Clients |-> FALSE] /\ groupErr = [c \in Clients |-> FALSE]
    /\ reply = [c \in Clients |-> "none"]
    /\ disturbed = [c \in Clients |-> FALSE] /\ deleted = {} /\ faults = 0

----------------------------------------------------------------------------
Fault == faults < MaxFaults /\ faults' = faults + 1

Asked(c) == DOMAIN want[c]

\* What a reader of the key sees: the latest version, "" if that is destroyed.
Latest(k)    == versions[k][Len(versions[k])]
Specified(k) == exists[k] /\ versions[k] # << >>
Shown(k)     == IF Specified(k) /\ Latest(k).enabled THEN Latest(k).val ELSE Empty

Goto(c, k, job) == at' = [at EXCEPT ![c][k] = job]

\* The job returns without an error, or with one.
Succeed(c, k) == Goto(c, k, "done") /\ UNCHANGED groupErr
FailJob(c, k) == Goto(c, k, "done") /\ groupErr' = [groupErr EXCEPT ![c] = TRUE]
Continue(c, k, job) == Goto(c, k, job) /\ UNCHANGED groupErr

\* A change of the store by c, for the calls of the others; or none.
Disturb(c) ==
    disturbed' = [d \in Clients |-> disturbed[d] \/ (d # c /\ pc[d] # "idle")]
Undisturbed == UNCHANGED <<storeVars, ghosts>>

\* Job c, k of a call that is past its list takes a step.
Running(c, k, job) == pc[c] = "run" /\ at[c][k] = job /\ UNCHANGED callVars

----------------------------------------------------------------------------
(* The calls *)

Begin(c) ==
    /\ pc[c] = "idle"
    /\ \E r \in Requests :
          /\ op' = [op EXCEPT ![c] = r.op] /\ want' = [want EXCEPT ![c] = r.want]
          /\ pc' = [pc EXCEPT ![c] = IF r.op = "replace" THEN "list" ELSE "run"]
          /\ at' = [at EXCEPT ![c] = [k \in Keys |->
                       IF r.op = "replace" \/ k \notin DOMAIN r.want THEN "off"
                       ELSE IF r.op = "set" THEN "get" ELSE "delete"]]
    /\ UNCHANGED <<storeVars, skew, reply, valueVars, errVars, ghosts, faults>>

\* listSecrets, and the goroutines the two loops of ReplaceSecrets start.
Job(c, k) ==
    IF k \in Asked(c) THEN IF exists[k] THEN "access" ELSE "create"
    ELSE IF exists[k] THEN "delete" ELSE "off"

Return(c, r) == pc' = [pc EXCEPT ![c] = "ended"] /\ reply' = [reply EXCEPT ![c] = r]

ListSecrets(c) ==
    /\ pc[c] = "list"
    /\ \/ /\ at' = [at EXCEPT ![c] = [k \in Keys |-> Job(c, k)]]
          /\ pc' = [pc EXCEPT ![c] = "run"]
          /\ UNCHANGED <<reply, faults>>
       \/ Fault /\ Return(c, "error") /\ UNCHANGED at
    /\ UNCHANGED <<storeVars, skew, op, want, valueVars, errVars, ghosts>>

\* A job that has ended, or that never starts since another one failed.
Over(c, k) ==
    \/ at[c][k] \in {"off", "done"}
    \/ op[c] = "replace" /\ groupErr[c] /\ at[c][k] \in {"create", "access", "delete"}

\* g.Wait, or the end of the one job there is.
Finish(c) ==
    /\ pc[c] = "run" /\ \A k \in Keys : Over(c, k)
    /\ Return(c, IF groupErr[c] THEN "error" ELSE "ok")
    /\ UNCHANGED <<storeVars, skew, op, want, at, valueVars, errVars, ghosts, faults>>

Crash(c) ==
    /\ pc[c] \in {"list", "run"} /\ Fault
    /\ Return(c, "none")
    /\ UNCHANGED <<storeVars, skew, op, want, at, valueVars, errVars, ghosts>>

----------------------------------------------------------------------------
(* The jobs *)

\* SetSecret: getSecret.
GetSecret(c, k) ==
    /\ Running(c, k, "get")
    /\ \/ Continue(c, k, IF exists[k] THEN "access" ELSE "create") /\ UNCHANGED faults
       \/ Fault /\ FailJob(c, k)
    /\ Undisturbed /\ UNCHANGED <<valueVars, own, sharedErr>>

Create(c, k) ==
    /\ ~exists[k]
    /\ exists' = [exists EXCEPT ![k] = TRUE]
    /\ Disturb(c)
    /\ UNCHANGED <<versions, clock, deleted>>

\* createSecret, an error if there is one by now.
CreateSecret(c, k) ==
    /\ Running(c, k, "create")
    /\ cleanup' = [cleanup EXCEPT ![c][k] = FALSE]
    /\ \/ Create(c, k) /\ Continue(c, k, "add") /\ UNCHANGED faults
       \/ exists[k] /\ Undisturbed /\ FailJob(c, k) /\ UNCHANGED faults
       \/ Fault /\ (Undisturbed \/ Create(c, k)) /\ FailJob(c, k)
    /\ UNCHANGED <<before, doomed, own, sharedErr>>

\* Nothing to do: SetSecret compares with "" where there is no value,
\* ReplaceSecrets wants a version even for "".
UpToDate(c, k) ==
    Shown(k) = want[c][k] /\ (op[c] = "set" \/ Specified(k))

\* accessSecretValue of the latest version, and the comparison.
AccessValue(c, k) ==
    /\ Running(c, k, "access")
    /\ \/ UpToDate(c, k) /\ Succeed(c, k) /\ UNCHANGED <<cleanup, faults>>
       \/ /\ ~UpToDate(c, k) /\ Continue(c, k, "add")
          /\ cleanup' = [cleanup EXCEPT ![c][k] = (op[c] = "set") \/ Specified(k)]
          /\ UNCHANGED faults
       \/ Fault /\ FailJob(c, k) /\ UNCHANGED cleanup
    /\ Undisturbed /\ UNCHANGED <<before, doomed, own, sharedErr>>

\* time.Now(), just after the last stamp when the clocks agree.
LocalNow(c) == clock + 1 + skew[c]

Add(c, k) ==
    /\ exists[k]
    /\ versions' = [versions EXCEPT ![k] =
           Append(@, [val |-> want[c][k], stamp |-> clock + 1, enabled |-> TRUE])]
    /\ clock' = clock + 1
    /\ Disturb(c)
    /\ UNCHANGED <<exists, deleted>>

\* What setSecretValue calls now once the version is added.
\* Variant: the local time.
NowLocal(c) == LocalNow(c)

Now(c) == clock'

Added(c, k) == Continue(c, k, IF cleanup[c][k] THEN "versions" ELSE "done")

\* There is no version to add for "".
\* Variant: one is added all the same.
HasPayloadAlways(c, k) == TRUE

HasPayload(c, k) == want[c][k] # Empty

\* setSecretValue, up to its list of versions.
AddVersion(c, k) ==
    /\ Running(c, k, "add")
    /\ \/ /\ ~HasPayload(c, k) /\ Undisturbed /\ Added(c, k) /\ UNCHANGED faults
          /\ before' = [before EXCEPT ![c][k] = LocalNow(c)]
       \/ /\ HasPayload(c, k) /\ Add(c, k) /\ Added(c, k) /\ UNCHANGED faults
          /\ before' = [before EXCEPT ![c][k] = Now(c)]
       \/ /\ HasPayload(c, k) /\ ~exists[k] /\ Undisturbed /\ FailJob(c, k)
          /\ UNCHANGED <<before, faults>>
       \/ /\ HasPayload(c, k) /\ Fault /\ (Undisturbed \/ Add(c, k)) /\ FailJob(c, k)
          /\ UNCHANGED before
    /\ UNCHANGED <<cleanup, doomed, own, sharedErr>>

\* Versions the loop of setSecretValue destroys.
Enabled(k) == {n \in 1..Len(versions[k]) : versions[k][n].enabled}

\* Variant: only what is two stamps old.
OldSkipLast(c, k) ==
    {n \in Enabled(k) : versions[k][n].stamp + 1 < before[c][k]}

Old(c, k) ==
    {n \in Enabled(k) : versions[k][n].stamp < before[c][k]}

ListVersions(c, k) ==
    /\ Running(c, k, "versions")
    /\ \/ /\ exists[k] /\ UNCHANGED faults
          /\ doomed' = [doomed EXCEPT ![c][k] = Old(c, k)]
          /\ Continue(c, k, IF Old(c, k) = {} THEN "done" ELSE "destroy")
       \/ ~exists[k] /\ FailJob(c, k) /\ UNCHANGED <<doomed, faults>>
       \/ Fault /\ FailJob(c, k) /\ UNCHANGED doomed
    /\ Undisturbed /\ UNCHANGED <<cleanup, before, own, sharedErr>>

HasVersion(k, n) == exists[k] /\ n <= Len(versions[k])

Destroy(c, k, n) ==
    /\ HasVersion(k, n)
    /\ versions' = [versions EXCEPT ![k][n].enabled = FALSE]
    /\ Disturb(c)
    /\ UNCHANGED <<exists, clock, deleted>>

\* By number, in whatever order the list had.  A version destroyed meanwhile
\* may be refused.
DestroyVersion(c, k) ==
    /\ Running(c, k, "destroy")
    /\ \E n \in doomed[c][k] :
          /\ doomed' = [doomed EXCEPT ![c][k] = @ \ {n}]
          /\ \/ /\ Destroy(c, k, n) /\ UNCHANGED faults
                /\ Continue(c, k, IF doomed[c][k] = {n} THEN "done" ELSE "destroy")
             \/ /\ n \notin Enabled(k)
                /\ Undisturbed /\ FailJob(c, k) /\ UNCHANGED faults
             \/ Fault /\ (Undisturbed \/ Destroy(c, k, n)) /\ FailJob(c, k)
    /\ UNCHANGED <<cleanup, before, own, sharedErr>>

Delete(c, k) ==
    /\ exists[k]
    /\ exists' = [exists EXCEPT ![k] = FALSE]
    /\ versions' = [versions EXCEPT ![k] = << >>]
    /\ deleted' = deleted \cup {k}
    /\ Disturb(c)
    /\ UNCHANGED clock

\* deleteSecret has returned: DeleteSecret returns its error, a goroutine of
\* ReplaceSecrets assigns it to the err of the whole call.
Deleted(c, k, failed) ==
    /\ own' = [own EXCEPT ![c][k] = failed]
    /\ IF op[c] = "delete"
         THEN /\ IF failed THEN FailJob(c, k) ELSE Succeed(c, k)
              /\ UNCHANGED sharedErr
         ELSE /\ Continue(c, k, "return")
              /\ sharedErr' = [sharedErr EXCEPT ![c] = failed]

DeleteSecret(c, k) ==
    /\ Running(c, k, "delete")
    /\ \/ Delete(c, k) /\ Deleted(c, k, FALSE) /\ UNCHANGED faults
       \/ ~exists[k] /\ Undisturbed /\ Deleted(c, k, FALSE) /\ UNCHANGED faults
       \/ Fault /\ (Undisturbed \/ Delete(c, k)) /\ Deleted(c, k, TRUE)
    /\ UNCHANGED valueVars

\* return err: the goroutine reads what it wrote, or what another one has
\* written to the shared variable since.
\* Variant: the goroutine does not return the error.
ReturnedNil(c, k) == {FALSE}

Returned(c, k) == {own[c][k], sharedErr[c]}

ReturnErr(c, k) ==
    /\ Running(c, k, "return")
    /\ \E failed \in Returned(c, k) :
          IF failed THEN FailJob(c, k) ELSE Succeed(c, k)
    /\ Undisturbed /\ UNCHANGED <<valueVars, own, sharedErr, faults>>

JobStep(c, k) ==
    \/ GetSecret(c, k) \/ CreateSecret(c, k) \/ AccessValue(c, k)
    \/ AddVersion(c, k) \/ ListVersions(c, k) \/ DestroyVersion(c, k)
    \/ DeleteSecret(c, k) \/ ReturnErr(c, k)

Terminated == (\A c \in Clients : pc[c] = "ended") /\ UNCHANGED vars

Next ==
    \/ \E c \in Clients :
          \/ Begin(c) \/ ListSecrets(c) \/ Finish(c) \/ Crash(c)
          \/ \E k \in Keys : JobStep(c, k)
    \/ Terminated

Spec == Init /\ [][Next]_vars

----------------------------------------------------------------------------
(* Properties *)

\* An ok answer means what it says, as long as no other client has changed a
\* secret since the call began: the key that was set shows its value, the key
\* that was deleted is gone, and after a ReplaceSecrets there are exactly the
\* keys of the map with their values.  It takes a local clock that is not behind
\* to set "", and a ReplaceSecrets that deletes two keys may lose the error of
\* one of them.
Doubtful(c) ==
    \/ skew[c] < 0 /\ \E k \in Asked(c) : want[c][k] = Empty
    \/ /\ op[c] = "replace"
       /\ Cardinality({k \in Keys \ Asked(c) : at[c][k] # "off"}) > 1
       /\ \E k \in Keys : own[c][k]

AnswerHolds ==
    \A c \in Clients :
        (reply[c] = "ok" /\ ~disturbed[c] /\ ~Doubtful(c)) =>
            CASE op[c] = "delete"  -> \A k \in Asked(c) : ~exists[k]
              [] op[c] = "set"     -> \A k \in Asked(c) : Shown(k) = want[c][k]
              [] op[c] = "replace" ->
                    \A k \in Keys : IF k \in Asked(c)
                                      THEN exists[k] /\ Shown(k) = want[c][k]
                                      ELSE ~exists[k]

\* A job that cleans up and ends well leaves no readable version older than the
\* one it added, or, when it set "", older than its start by the local clock and
\* by the store's, whoever writes, deletes or cleans up at the same time and
\* whatever fails before and after.
Cleaned(c, k) ==
    reply[c] = "ok" /\ at[c][k] = "done" /\ cleanup[c][k] /\ before[c][k] # 0

CleanupComplete ==
    \A c \in Clients, k \in Keys :
        Cleaned(c, k) =>
            \A n \in Enabled(k) :
                \/ versions[k][n].stamp >= before[c][k]
                \/ want[c][k] = Empty /\ versions[k][n].stamp >= before[c][k] - skew[c]

\* A key that shows a value keeps showing one until some client that wants it
\* empty or gone acts: the clean-ups of concurrent writers never destroy the
\* value that is current, whatever their clocks say.  A deleted and re-created
\* secret is excepted: its versions are numbered from 1 again, and a clean-up
\* under way may hold old numbers.
Unwanted(c, k) ==
    \/ op[c] = "delete"
    \/ op[c] = "replace" /\ k \notin Asked(c)
    \/ k \in Asked(c) /\ want[c][k] = Empty

NoValueLost ==
    [][\A k \in Keys :
          (Shown(k) # Empty /\ k \notin deleted /\ Shown(k)' = Empty)
              => \E c \in Clients : at[c][k] \in {"delete", "destroy"} /\ Unwanted(c, k)]_vars
=============================================================================
