---------------------------- MODULE SecretsProofs ----------------------------
(***************************************************************************)
(* Safety of Secrets for every set of keys, clients, values and requests,  *)
(* any histories and clocks, and any bound on faults.                      *)
(***************************************************************************)
EXTENDS Secrets, FiniteSetTheorems, TLAPS

Maps == {<< >>} \cup {r.want : r \in Requests}

\* A call works on keys its request names, or on those it deletes.
Setting == {"get", "create", "access", "add", "versions", "destroy"}
ShapeOf(c, k) ==
    /\ k \in Asked(c) /\ op[c] # "delete" => at[c][k] \notin {"delete", "return"}
    /\ k \in Asked(c) /\ op[c] = "delete" => at[c][k] \in {"delete", "done"}
    /\ k \notin Asked(c) =>
          \/ at[c][k] = "off"
          \/ op[c] = "replace" /\ at[c][k] \in {"delete", "return", "done"}
    /\ k \in Asked(c) /\ at[c][k] = "off" => pc[c] = "list" \/ (pc[c] = "ended" /\ reply[c] # "ok")
    /\ pc[c] \in {"idle", "list"} => at[c][k] = "off"
    /\ pc[c] = "list" => op[c] = "replace"
    /\ reply[c] = "ok" => pc[c] = "ended"
Shape ==
    /\ want \in [Clients -> Maps]
    /\ \A c \in Clients, k \in Keys : ShapeOf(c, k)

\* A secret that does not exist has no versions, and no stamp is ahead of the
\* store's clock.
StoreSound ==
    \A k \in Keys : /\ ~exists[k] => versions[k] = << >>
                    /\ \A n \in 1..Len(versions[k]) : versions[k][n].stamp <= clock

TInv == TypeOK /\ Shape /\ StoreSound

----------------------------------------------------------------------------
(* Types *)

\* What a request asks for: some keys, each with a value.
LEMMA MapType ==
    ASSUME NEW m \in Maps
    PROVE  DOMAIN m \subseteq Keys /\ \A k \in DOMAIN m : m[k] \in Values
<1>1. CASE m = << >>
      BY <1>1
<1>2. CASE \E r \in Requests : m = r.want
      BY <1>2, SecretsAssumption
<1> QED
    BY <1>1, <1>2 DEF Maps

LEMMA InitType == Init => TInv
<1> SUFFICES ASSUME Init PROVE TInv
    OBVIOUS
<1> USE DEF Init, PerJob
<1>1. versions \in [Keys -> Seq(Version)]
  <2>1. Initial \subseteq Seq(Version) /\ << >> \in Seq(Version)
        BY SecretsAssumption
  <2> QED
      BY <2>1
<1>2. /\ pc \in [Clients -> {"idle", "list", "run", "ended"}] /\ op \in [Clients -> Ops]
      /\ reply \in [Clients -> {"none", "ok", "error"}]
      BY DEF Ops
<1>3. at \in [Clients -> [Keys -> Jobs]]
      BY DEF Jobs
<1>4. want \in [Clients -> Maps]
      BY DEF Maps
<1>5. clock \in Nat /\ faults \in 0..MaxFaults
      BY SecretsAssumption
<1>6. TypeOK
      BY <1>1, <1>2, <1>3, <1>4, <1>5 DEF TypeOK, Maps
<1>7. ASSUME NEW c \in Clients, NEW k \in Keys PROVE ShapeOf(c, k)
      BY <1>7 DEF ShapeOf, Asked
<1>8. StoreSound
  <2>1. ASSUME NEW k \in Keys, NEW n \in 1..Len(versions[k])
        PROVE  versions[k][n].stamp <= clock
    <3>1. CASE versions[k] = << >>
          BY <3>1
    <3>2. CASE versions[k] \in Initial
          BY <3>2, SecretsAssumption
    <3> QED
        BY <3>1, <3>2
  <2> QED
      BY <2>1 DEF StoreSound
<1> QED
    BY <1>4, <1>6, <1>7, <1>8 DEF TInv, Shape

\* A fault leaves the count within its bound.
LEMMA FaultType == TypeOK /\ Fault => faults' \in 0..MaxFaults
BY SecretsAssumption DEF TypeOK, Fault

\* Where a job goes is a place for jobs, and its error is on record.
LEMMA GotoType ==
    ASSUME TypeOK, NEW c \in Clients, NEW k \in Keys, NEW l \in Jobs, Goto(c, k, l)
    PROVE  at' \in [Clients -> [Keys -> Jobs]]
BY DEF TypeOK, Goto

LEMMA EndType ==
    ASSUME TypeOK, NEW c \in Clients, NEW k \in Keys,
           \/ Succeed(c, k) \/ FailJob(c, k)
           \/ \E l \in Jobs : Continue(c, k, l)
    PROVE  at' \in [Clients -> [Keys -> Jobs]] /\ groupErr' \in [Clients -> BOOLEAN]
<1>1. "done" \in Jobs
      BY DEF Jobs
<1> QED
    BY <1>1, GotoType DEF Succeed, FailJob, Continue, TypeOK

----------------------------------------------------------------------------
(* What a step may do to the store *)

\* A change of the store by the job of client c on key k.
Changes(c, k) ==
    \/ Undisturbed
    \/ Create(c, k)
    \/ at[c][k] = "add" /\ HasPayload(c, k) /\ Add(c, k)
    \/ \E n \in doomed[c][k] : at[c][k] = "destroy" /\ Destroy(c, k, n)
    \/ at[c][k] = "delete" /\ Delete(c, k)

\* A change keeps the store's types, and it is sound.
LEMMA ChangesType ==
    ASSUME TInv, NEW c \in Clients, NEW k \in Keys, Changes(c, k)
    PROVE  /\ exists' \in [Keys -> BOOLEAN] /\ versions' \in [Keys -> Seq(Version)]
           /\ clock' \in Nat /\ clock' >= clock
           /\ disturbed' \in [Clients -> BOOLEAN] /\ deleted' \in SUBSET Keys
           /\ StoreSound'
           /\ \A j \in Keys \ {k} : exists'[j] = exists[j] /\ versions'[j] = versions[j]
<1>t. /\ exists \in [Keys -> BOOLEAN] /\ versions \in [Keys -> Seq(Version)]
      /\ clock \in Nat /\ disturbed \in [Clients -> BOOLEAN] /\ deleted \in SUBSET Keys
      /\ doomed \in [Clients -> [Keys -> SUBSET (Nat \ {0})]]
      BY DEF TInv, TypeOK
<1>s. StoreSound
      BY DEF TInv
<1>d. Disturb(c) => disturbed' \in [Clients -> BOOLEAN]
      BY <1>t DEF Disturb
<1>1. CASE Undisturbed
      BY <1>1, <1>t, <1>s DEF Undisturbed, storeVars, ghosts, StoreSound
<1>2. CASE Create(c, k)
      BY <1>2, <1>t, <1>s, <1>d DEF Create, StoreSound
<1>3. CASE at[c][k] = "add" /\ HasPayload(c, k) /\ Add(c, k)
  <2> DEFINE v == [val |-> want[c][k], stamp |-> clock + 1, enabled |-> TRUE]
  <2>1. v \in Version /\ v.stamp = clock + 1
    <3>1. k \in Asked(c)
          BY <1>3 DEF TInv, Shape, ShapeOf
    <3>2. want[c][k] \in Values
          BY <3>1, MapType DEF TInv, Shape, Asked
    <3> QED
        BY <1>3, <1>t, <3>2 DEF HasPayload, Version
  <2> HIDE DEF v
  <2>2. versions' = [versions EXCEPT ![k] = Append(@, v)] /\ clock' = clock + 1 /\ exists[k]
        /\ UNCHANGED <<exists, deleted>> /\ disturbed' \in [Clients -> BOOLEAN]
        BY <1>3, <1>d DEF Add, v
  <2>3. versions' \in [Keys -> Seq(Version)]
        BY <1>t, <2>1, <2>2
  <2>4. StoreSound'
    <3>1. ASSUME NEW j \in Keys, NEW n \in 1..Len(versions'[j])
          PROVE  versions'[j][n].stamp <= clock'
      <4>1. CASE j # k
        <5>1. versions'[j] = versions[j] /\ versions[j] \in Seq(Version)
              BY <1>t, <2>2, <4>1
        <5>2. n \in 1..Len(versions[j]) /\ versions[j][n] \in Version
              BY <3>1, <5>1
        <5>3. versions[j][n].stamp <= clock /\ versions[j][n].stamp \in Nat
              BY <1>s, <5>2 DEF StoreSound, Version
        <5> QED
            BY <1>t, <2>2, <5>1, <5>3
      <4>2. CASE j = k
        <5>1. versions'[k] = Append(versions[k], v) /\ versions[k] \in Seq(Version)
              BY <1>t, <2>2
        <5>2. Len(versions'[k]) = Len(versions[k]) + 1
              BY <2>1, <5>1
        <5>3. CASE n = Len(versions[k]) + 1
              BY <1>t, <2>1, <2>2, <4>2, <5>1, <5>3
        <5>4. CASE n \in 1..Len(versions[k])
          <6>1. versions[k][n] \in Version /\ n # Len(versions[k]) + 1
                BY <5>1, <5>4
          <6>2. versions'[k][n] = versions[k][n]
                BY <2>1, <5>1, <5>4, <6>1
          <6> QED
              BY <1>t, <1>s, <2>2, <4>2, <5>4, <6>1, <6>2 DEF StoreSound, Version
        <5> QED
            BY <3>1, <4>2, <5>1, <5>2, <5>3, <5>4
      <4> QED
          BY <4>1, <4>2
    <3>2. \A j \in Keys : ~exists'[j] => versions'[j] = << >>
          BY <1>t, <1>s, <2>2 DEF StoreSound
    <3> QED
        BY <3>1, <3>2 DEF StoreSound
  <2> QED
      BY <1>t, <2>2, <2>3, <2>4
<1>4. ASSUME NEW n \in doomed[c][k], Destroy(c, k, n)
      PROVE  /\ exists' \in [Keys -> BOOLEAN] /\ versions' \in [Keys -> Seq(Version)]
             /\ clock' \in Nat /\ clock' >= clock
             /\ disturbed' \in [Clients -> BOOLEAN] /\ deleted' \in SUBSET Keys
             /\ StoreSound'
             /\ \A j \in Keys \ {k} : exists'[j] = exists[j] /\ versions'[j] = versions[j]
  <2>1. n \in 1..Len(versions[k]) /\ versions[k] \in Seq(Version)
        BY <1>t, <1>4 DEF Destroy, HasVersion
  <2> DEFINE v == [versions[k][n] EXCEPT !.enabled = FALSE]
  <2>2. v \in Version /\ v.stamp = versions[k][n].stamp
    <3>1. versions[k][n] \in Version
          BY <2>1
    <3> QED
        BY <3>1 DEF Version
  <2>3. versions' = [versions EXCEPT ![k] = [@ EXCEPT ![n] = v]]
        BY <1>4 DEF Destroy
  <2> HIDE DEF v
  <2>4. versions'[k] = [versions[k] EXCEPT ![n] = v]
        BY <1>t, <2>3
  <2>5. versions'[k] \in Seq(Version) /\ Len(versions'[k]) = Len(versions[k])
        BY <2>1, <2>2, <2>4
  <2>6. \A j \in Keys \ {k} : versions'[j] = versions[j]
        BY <1>t, <2>3
  <2>7. versions' \in [Keys -> Seq(Version)]
        BY <1>t, <2>3, <2>5
  <2>8. UNCHANGED <<exists, clock, deleted>> /\ exists[k] /\ disturbed' \in [Clients -> BOOLEAN]
        BY <1>4, <1>d DEF Destroy, HasVersion
  <2>9. StoreSound'
    <3>1. ASSUME NEW j \in Keys, NEW m \in 1..Len(versions'[j])
          PROVE  versions'[j][m].stamp <= clock'
      <4>1. CASE j # k
            BY <1>s, <2>6, <2>8, <4>1 DEF StoreSound
      <4>2. CASE j = k
        <5>1. versions'[k][m].stamp = versions[k][m].stamp
              BY <2>1, <2>2, <2>4, <2>5, <4>2
        <5> QED
            BY <1>s, <2>5, <2>8, <4>2, <5>1 DEF StoreSound
      <4> QED
          BY <4>1, <4>2
    <3>2. \A j \in Keys : ~exists'[j] => versions'[j] = << >>
          BY <1>s, <2>6, <2>8 DEF StoreSound
    <3> QED
        BY <3>1, <3>2 DEF StoreSound
  <2> QED
      BY <1>t, <2>6, <2>7, <2>8, <2>9
<1>5. CASE Delete(c, k)
  <2>1. versions' = [versions EXCEPT ![k] = << >>] /\ clock' = clock
        /\ exists' = [exists EXCEPT ![k] = FALSE]
        /\ deleted' = deleted \cup {k} /\ disturbed' \in [Clients -> BOOLEAN]
        BY <1>5, <1>d DEF Delete
  <2>2. versions' \in [Keys -> Seq(Version)]
        BY <1>t, <2>1
  <2>3. StoreSound'
        BY <1>t, <1>s, <2>1 DEF StoreSound
  <2> QED
      BY <1>t, <2>1, <2>2, <2>3
<1> QED
    BY <1>1, <1>2, <1>3, <1>4, <1>5 DEF Changes

----------------------------------------------------------------------------
(* What a step of a job may do *)

ValuesTyped ==
    /\ at \in [Clients -> [Keys -> Jobs]] /\ cleanup \in [Clients -> [Keys -> BOOLEAN]]
    /\ before \in [Clients -> [Keys -> Int]]
    /\ doomed \in [Clients -> [Keys -> SUBSET (Nat \ {0})]]
    /\ own \in [Clients -> [Keys -> BOOLEAN]]
    /\ sharedErr \in [Clients -> BOOLEAN] /\ groupErr \in [Clients -> BOOLEAN]
    /\ faults \in 0..MaxFaults

SameJob(d, j) ==
    /\ at'[d][j] = at[d][j] /\ cleanup'[d][j] = cleanup[d][j]
    /\ before'[d][j] = before[d][j] /\ doomed'[d][j] = doomed[d][j]
    /\ own'[d][j] = own[d][j]

\* It leaves the other jobs alone, but for the errors they share.
Works(c, k) ==
    /\ pc[c] = "run" /\ at[c][k] # "off" /\ at'[c][k] # "off" /\ UNCHANGED callVars
    /\ Changes(c, k)
    /\ \A d \in Clients, j \in Keys : (d # c \/ j # k) => SameJob(d, j)
    /\ \A d \in Clients \ {c} : groupErr'[d] = groupErr[d] /\ sharedErr'[d] = sharedErr[d]
    /\ groupErr[c] => groupErr'[c]
    /\ sharedErr'[c] # sharedErr[c] => at[c][k] = "delete" /\ at'[c][k] = "return"

LEMMA JobSteps ==
    ASSUME TInv, NEW c \in Clients, NEW k \in Keys, JobStep(c, k)
    PROVE  Works(c, k) /\ ValuesTyped'
<1>t. TypeOK /\ ValuesTyped
      BY DEF TInv, TypeOK, ValuesTyped
<1>k. {"create", "access", "add", "versions", "destroy", "return", "done"} \subseteq Jobs
      BY DEF Jobs
<1> DEFINE Ended ==
        /\ at' \in [Clients -> [Keys -> Jobs]] /\ groupErr' \in [Clients -> BOOLEAN]
        /\ \A d \in Clients, j \in Keys : (d # c \/ j # k) => at'[d][j] = at[d][j]
        /\ \A d \in Clients \ {c} : groupErr'[d] = groupErr[d]
        /\ groupErr[c] => groupErr'[c]
        /\ at'[c][k] # "off"
<1>e. ASSUME \/ Succeed(c, k) \/ FailJob(c, k)
             \/ \E l \in {"create", "access", "add", "versions", "destroy", "return", "done"} :
                    Continue(c, k, l)
      PROVE  Ended
  <2>1. at' \in [Clients -> [Keys -> Jobs]] /\ groupErr' \in [Clients -> BOOLEAN]
        BY <1>e, <1>t, <1>k, EndType
  <2>2. PICK l \in {"create", "access", "add", "versions", "destroy", "return", "done"} :
            at' = [at EXCEPT ![c][k] = l]
        BY <1>e DEF Succeed, FailJob, Continue, Goto
  <2>3. /\ \A d \in Clients, j \in Keys : (d # c \/ j # k) => at'[d][j] = at[d][j]
        /\ at'[c][k] # "off"
        BY <1>t, <2>2 DEF ValuesTyped
  <2>4. /\ \A d \in Clients \ {c} : groupErr'[d] = groupErr[d]
        /\ groupErr[c] => groupErr'[c]
        BY <1>e, <1>t DEF Succeed, FailJob, Continue, ValuesTyped
  <2> QED
      BY <2>1, <2>3, <2>4
<1> USE DEF Running, Works, SameJob, ValuesTyped
<1>1. CASE GetSecret(c, k)
  <2>1. \/ FailJob(c, k)
        \/ \E l \in {"create", "access"} : Continue(c, k, l)
        BY <1>1 DEF GetSecret
  <2>2. faults' \in 0..MaxFaults /\ Changes(c, k) /\ UNCHANGED <<valueVars, own, sharedErr>>
        BY <1>1, <1>t, FaultType DEF GetSecret, Changes
  <2>e. Ended
        BY <1>e, <2>1
  <2> QED
      BY <1>1, <1>t, <2>e, <2>2 DEF GetSecret, valueVars
<1>2. CASE CreateSecret(c, k)
  <2>1. FailJob(c, k) \/ Continue(c, k, "add")
        BY <1>2 DEF CreateSecret
  <2>2. faults' \in 0..MaxFaults /\ Changes(c, k) /\ UNCHANGED <<before, doomed, own, sharedErr>>
        BY <1>2, <1>t, FaultType DEF CreateSecret, Changes
  <2>3. cleanup' \in [Clients -> [Keys -> BOOLEAN]]
        BY <1>2, <1>t DEF CreateSecret
  <2>4. \A d \in Clients, j \in Keys : (d # c \/ j # k) => cleanup'[d][j] = cleanup[d][j]
        BY <1>2, <1>t DEF CreateSecret
  <2>e. Ended
        BY <1>e, <2>1
  <2>r. Running(c, k, "create")
        BY <1>2 DEF CreateSecret
  <2> QED
      BY <1>t, <2>e, <2>r, <2>2, <2>3, <2>4
<1>3. CASE AccessValue(c, k)
  <2>1. FailJob(c, k) \/ Succeed(c, k) \/ Continue(c, k, "add")
        BY <1>3 DEF AccessValue
  <2>2. faults' \in 0..MaxFaults /\ Changes(c, k) /\ UNCHANGED <<before, doomed, own, sharedErr>>
        BY <1>3, <1>t, FaultType DEF AccessValue, Changes
  <2>3. PICK b \in BOOLEAN : cleanup' = cleanup \/ cleanup' = [cleanup EXCEPT ![c][k] = b]
        BY <1>3 DEF AccessValue, Specified
  <2>4. cleanup' \in [Clients -> [Keys -> BOOLEAN]]
    <3>1. [cleanup[c] EXCEPT ![k] = b] \in [Keys -> BOOLEAN]
          BY <1>t, <2>3
    <3> QED
        BY <1>t, <2>3, <3>1
  <2>5. \A d \in Clients, j \in Keys : (d # c \/ j # k) => cleanup'[d][j] = cleanup[d][j]
        BY <1>t, <2>3
  <2>e. Ended
        BY <1>e, <2>1
  <2> QED
      BY <1>3, <1>t, <2>e, <2>2, <2>4, <2>5 DEF AccessValue
<1>4. CASE AddVersion(c, k)
  <2>1. FailJob(c, k) \/ \E l \in {"versions", "done"} : Continue(c, k, l)
        BY <1>4 DEF AddVersion, Added
  <2>2. /\ faults' \in 0..MaxFaults /\ UNCHANGED <<cleanup, doomed, own, sharedErr>>
        /\ Changes(c, k)
    <3>1. faults' \in 0..MaxFaults /\ UNCHANGED <<cleanup, doomed, own, sharedErr>>
          BY <1>4, <1>t, FaultType DEF AddVersion
    <3>2. Changes(c, k)
          BY <1>4 DEF AddVersion, Changes
    <3> QED
        BY <3>1, <3>2
  <2>3. PICK b \in Int : before' = before \/ before' = [before EXCEPT ![c][k] = b]
    <3>1. LocalNow(c) \in Int
      <4>1. skew[c] \in Skews /\ clock \in Nat
            BY <1>t DEF TypeOK
      <4>2. skew[c] \in Int
            BY <4>1, SecretsAssumption
      <4> QED
          BY <4>1, <4>2 DEF LocalNow
    <3>2. Now(c) \in Int
          BY <2>2, ChangesType DEF Now
    <3> QED
        BY <1>4, <3>1, <3>2 DEF AddVersion
  <2>4. before' \in [Clients -> [Keys -> Int]]
    <3>1. [before[c] EXCEPT ![k] = b] \in [Keys -> Int]
          BY <1>t, <2>3
    <3> QED
        BY <1>t, <2>3, <3>1
  <2>5. \A d \in Clients, j \in Keys : (d # c \/ j # k) => before'[d][j] = before[d][j]
        BY <1>t, <2>3
  <2>e. Ended
        BY <1>e, <2>1
  <2> QED
      BY <1>4, <1>t, <2>e, <2>2, <2>4, <2>5 DEF AddVersion
<1>5. CASE ListVersions(c, k)
  <2>1. FailJob(c, k) \/ \E l \in {"destroy", "done"} : Continue(c, k, l)
        BY <1>5 DEF ListVersions
  <2>2. faults' \in 0..MaxFaults /\ Changes(c, k) /\ UNCHANGED <<cleanup, before, own, sharedErr>>
        BY <1>5, <1>t, FaultType DEF ListVersions, Changes
  <2>3. Old(c, k) \in SUBSET (Nat \ {0})
        BY <1>t DEF Old, Enabled, TypeOK
  <2>4. doomed' = doomed \/ doomed' = [doomed EXCEPT ![c][k] = Old(c, k)]
        BY <1>5 DEF ListVersions
  <2>5. doomed' \in [Clients -> [Keys -> SUBSET (Nat \ {0})]]
    <3>1. [doomed[c] EXCEPT ![k] = Old(c, k)] \in [Keys -> SUBSET (Nat \ {0})]
          BY <1>t, <2>3
    <3> QED
        BY <1>t, <2>4, <3>1
  <2>6. \A d \in Clients, j \in Keys : (d # c \/ j # k) => doomed'[d][j] = doomed[d][j]
        BY <1>t, <2>4
  <2>e. Ended
        BY <1>e, <2>1
  <2> QED
      BY <1>5, <1>t, <2>e, <2>2, <2>5, <2>6 DEF ListVersions
<1>6. CASE DestroyVersion(c, k)
  <2>1. FailJob(c, k) \/ \E l \in {"destroy", "done"} : Continue(c, k, l)
        BY <1>6 DEF DestroyVersion
  <2>2. faults' \in 0..MaxFaults /\ UNCHANGED <<cleanup, before, own, sharedErr>>
        BY <1>6, <1>t, FaultType DEF DestroyVersion
  <2>3. Changes(c, k)
        BY <1>6 DEF DestroyVersion, Changes
  <2>4. PICK n \in doomed[c][k] : doomed' = [doomed EXCEPT ![c][k] = @ \ {n}]
        BY <1>6 DEF DestroyVersion
  <2>5. doomed' \in [Clients -> [Keys -> SUBSET (Nat \ {0})]]
        BY <1>t, <2>4
  <2>6. \A d \in Clients, j \in Keys : (d # c \/ j # k) => doomed'[d][j] = doomed[d][j]
        BY <1>t, <2>4
  <2>e. Ended
        BY <1>e, <2>1
  <2> QED
      BY <1>6, <1>t, <2>e, <2>2, <2>3, <2>5, <2>6 DEF DestroyVersion
<1>7. CASE DeleteSecret(c, k)
  <2>1. PICK b \in BOOLEAN : Deleted(c, k, b)
        BY <1>7 DEF DeleteSecret
  <2>2. Succeed(c, k) \/ FailJob(c, k) \/ Continue(c, k, "return")
        BY <2>1 DEF Deleted
  <2>3. faults' \in 0..MaxFaults /\ Changes(c, k) /\ UNCHANGED valueVars
        BY <1>7, <1>t, FaultType DEF DeleteSecret, Changes
  <2>4. own' \in [Clients -> [Keys -> BOOLEAN]] /\ sharedErr' \in [Clients -> BOOLEAN]
        BY <1>t, <2>1 DEF Deleted
  <2>5. \A d \in Clients, j \in Keys : (d # c \/ j # k) => own'[d][j] = own[d][j]
        BY <1>t, <2>1 DEF Deleted
  <2>6. \A d \in Clients \ {c} : sharedErr'[d] = sharedErr[d]
        BY <1>t, <2>1 DEF Deleted
  <2>7. sharedErr' # sharedErr => at'[c][k] = "return"
        BY <1>t, <2>1 DEF Deleted, Continue, Goto
  <2>e. Ended
        BY <1>e, <2>2
  <2> QED
      BY <1>7, <1>t, <2>e, <2>3, <2>4, <2>5, <2>6, <2>7 DEF DeleteSecret, valueVars
<1>8. CASE ReturnErr(c, k)
  <2>1. FailJob(c, k) \/ Succeed(c, k)
        BY <1>8 DEF ReturnErr
  <2>2. Changes(c, k) /\ UNCHANGED <<valueVars, own, sharedErr, faults>>
        BY <1>8 DEF ReturnErr, Changes
  <2>e. Ended
        BY <1>e, <2>1
  <2> QED
      BY <1>8, <1>t, <2>e, <2>2 DEF ReturnErr, valueVars
<1> QED
    BY <1>1, <1>2, <1>3, <1>4, <1>5, <1>6, <1>7, <1>8 DEF JobStep

\* A job that sets a key goes on with that or ends; one that deletes ends.
Flows(c, k) ==
    \/ at[c][k] \in Setting /\ at'[c][k] \in Setting \cup {"done"}
    \/ at[c][k] = "delete" /\ at'[c][k] = IF op[c] = "delete" THEN "done" ELSE "return"
    \/ at[c][k] = "return" /\ at'[c][k] = "done"

LEMMA JobFlows ==
    ASSUME TypeOK, NEW c \in Clients, NEW k \in Keys, JobStep(c, k) PROVE Flows(c, k)
<1>t. at \in [Clients -> [Keys -> Jobs]]
      BY DEF TypeOK
<1> USE DEF Flows, Setting, Running, Goto, Succeed, FailJob, Continue
<1>1. CASE GetSecret(c, k)
      BY <1>1, <1>t DEF GetSecret
<1>2. CASE CreateSecret(c, k)
      BY <1>2, <1>t DEF CreateSecret
<1>3. CASE AccessValue(c, k)
      BY <1>3, <1>t DEF AccessValue
<1>4. CASE AddVersion(c, k)
      BY <1>4, <1>t DEF AddVersion, Added
<1>5. CASE ListVersions(c, k)
      BY <1>5, <1>t DEF ListVersions
<1>6. CASE DestroyVersion(c, k)
      BY <1>6, <1>t DEF DestroyVersion
<1>7. CASE DeleteSecret(c, k)
      BY <1>7, <1>t DEF DeleteSecret, Deleted
<1>8. CASE ReturnErr(c, k)
      BY <1>8, <1>t DEF ReturnErr
<1> QED
    BY <1>1, <1>2, <1>3, <1>4, <1>5, <1>6, <1>7, <1>8 DEF JobStep

\* The other steps of a call leave the store and the jobs' data alone.
Directs(c) ==
    /\ UNCHANGED <<storeVars, skew, valueVars, errVars, ghosts>>
    /\ \A d \in Clients \ {c} :
          /\ pc'[d] = pc[d] /\ op'[d] = op[d] /\ want'[d] = want[d] /\ reply'[d] = reply[d]
          /\ \A k \in Keys : at'[d][k] = at[d][k]
    /\ \A k \in Keys : ShapeOf(c, k)'

LEMMA CallSteps ==
    ASSUME TInv, NEW c \in Clients, Begin(c) \/ ListSecrets(c) \/ Finish(c) \/ Crash(c)
    PROVE  Directs(c) /\ TypeOK' /\ want' \in [Clients -> Maps]
<1>t. /\ TypeOK /\ want \in [Clients -> Maps] /\ \A k \in Keys : ShapeOf(c, k)
      /\ pc \in [Clients -> {"idle", "list", "run", "ended"}] /\ op \in [Clients -> Ops]
      /\ at \in [Clients -> [Keys -> Jobs]] /\ reply \in [Clients -> {"none", "ok", "error"}]
      BY DEF TInv, TypeOK, Shape
<1> DEFINE Rest == UNCHANGED <<storeVars, skew, valueVars, errVars, ghosts>>
<1>o. ASSUME Rest, faults' \in 0..MaxFaults, want' \in [Clients -> Maps],
             pc' \in [Clients -> {"idle", "list", "run", "ended"}], op' \in [Clients -> Ops],
             at' \in [Clients -> [Keys -> Jobs]], reply' \in [Clients -> {"none", "ok", "error"}]
      PROVE  TypeOK'
      BY <1>o, <1>t DEF TypeOK, storeVars, valueVars, errVars, ghosts, Maps
<1> USE DEF Directs, Return, ShapeOf, Asked
<1>1. CASE Begin(c)
  <2>1. PICK r \in Requests :
          /\ op' = [op EXCEPT ![c] = r.op] /\ want' = [want EXCEPT ![c] = r.want]
          /\ pc' = [pc EXCEPT ![c] = IF r.op = "replace" THEN "list" ELSE "run"]
          /\ at' = [at EXCEPT ![c] = [k \in Keys |->
                       IF r.op = "replace" \/ k \notin DOMAIN r.want THEN "off"
                       ELSE IF r.op = "set" THEN "get" ELSE "delete"]]
        BY <1>1 DEF Begin
  <2>2. r.op \in Ops /\ r.want \in Maps
        BY SecretsAssumption DEF Maps
  <2>3. UNCHANGED <<storeVars, skew, valueVars, errVars, ghosts, reply, faults>> /\ pc[c] = "idle"
        BY <1>1 DEF Begin
  <2>4. pc' \in [Clients -> {"idle", "list", "run", "ended"}] /\ op' \in [Clients -> Ops]
        BY <1>t, <2>1, <2>2
  <2>5. want' \in [Clients -> Maps]
        BY <1>t, <2>1, <2>2
  <2>6. at' \in [Clients -> [Keys -> Jobs]]
    <3>1. [k \in Keys |-> IF r.op = "replace" \/ k \notin DOMAIN r.want THEN "off"
                          ELSE IF r.op = "set" THEN "get" ELSE "delete"] \in [Keys -> Jobs]
          BY DEF Jobs
    <3> QED
        BY <1>t, <2>1, <3>1
  <2>7. TypeOK'
        BY <1>t, <1>o, <2>3, <2>4, <2>5, <2>6 DEF TypeOK
  <2>8. \A d \in Clients \ {c} :
          /\ pc'[d] = pc[d] /\ op'[d] = op[d] /\ want'[d] = want[d] /\ reply'[d] = reply[d]
          /\ \A k \in Keys : at'[d][k] = at[d][k]
        BY <1>t, <2>1, <2>3
  <2>9. \A k \in Keys : ShapeOf(c, k)'
    <3>1. /\ op'[c] = r.op /\ want'[c] = r.want
          /\ pc'[c] = IF r.op = "replace" THEN "list" ELSE "run"
          /\ \A k \in Keys : at'[c][k] = IF r.op = "replace" \/ k \notin DOMAIN r.want THEN "off"
                                         ELSE IF r.op = "set" THEN "get" ELSE "delete"
          BY <1>t, <2>1
    <3>2. \A k \in Keys : reply'[c] # "ok"
          BY <1>t, <2>3
    <3> QED
        BY <2>2, <3>1, <3>2 DEF Ops
  <2> QED
      BY <2>3, <2>5, <2>7, <2>8, <2>9
<1>2. CASE ListSecrets(c)
  <2>1. Rest /\ UNCHANGED <<op, want>> /\ pc[c] = "list" /\ faults' \in 0..MaxFaults
        BY <1>2, <1>t, FaultType DEF ListSecrets, TypeOK
  <2>2. CASE /\ at' = [at EXCEPT ![c] = [k \in Keys |-> Job(c, k)]]
             /\ pc' = [pc EXCEPT ![c] = "run"] /\ UNCHANGED reply
    <3>1. \A k \in Keys : Job(c, k) \in Jobs
          BY DEF Job, Jobs
    <3>2. at' \in [Clients -> [Keys -> Jobs]] /\ \A k \in Keys : at'[c][k] = Job(c, k)
          BY <1>t, <2>2, <3>1
    <3>3. TypeOK'
          BY <1>t, <1>o, <2>1, <2>2, <3>2
    <3>4. Keys # {} => op[c] = "replace"
          BY <1>t, <2>1
    <3>5. ASSUME NEW k \in Keys PROVE ShapeOf(c, k)'
          BY <1>t, <2>1, <2>2, <3>2, <3>4 DEF Job
    <3> QED
        BY <1>t, <2>1, <2>2, <3>3, <3>5
  <2>3. CASE Return(c, "error") /\ UNCHANGED at
    <3>1. TypeOK'
          BY <1>t, <1>o, <2>1, <2>3
    <3> QED
        BY <1>t, <2>1, <2>3, <3>1
  <2> QED
      BY <1>2, <2>2, <2>3 DEF ListSecrets
<1>3. CASE Finish(c)
  <2>1. Rest /\ UNCHANGED <<op, want, at, faults>> /\ pc[c] = "run"
        /\ \E r \in {"ok", "error"} : Return(c, r)
        BY <1>3 DEF Finish
  <2>2. TypeOK'
        BY <1>t, <1>o, <2>1 DEF TypeOK
  <2> QED
      BY <1>t, <2>1, <2>2
<1>4. CASE Crash(c)
  <2>1. Rest /\ UNCHANGED <<op, want, at>> /\ pc[c] \in {"list", "run"}
        /\ Return(c, "none") /\ faults' \in 0..MaxFaults
        BY <1>4, <1>t, FaultType DEF Crash, TypeOK
  <2>2. TypeOK'
        BY <1>t, <1>o, <2>1
  <2> QED
      BY <1>t, <2>1, <2>2
<1> QED
    BY <1>1, <1>2, <1>3, <1>4

LEMMA NextType == TInv /\ [Next]_vars => TInv'
<1> SUFFICES ASSUME TInv, [Next]_vars PROVE TInv'
    OBVIOUS
<1>t. /\ TypeOK /\ want \in [Clients -> Maps] /\ StoreSound
      /\ \A c \in Clients, k \in Keys : ShapeOf(c, k)
      BY DEF TInv, Shape
<1>1. ASSUME NEW c \in Clients, Begin(c) \/ ListSecrets(c) \/ Finish(c) \/ Crash(c)
      PROVE  TInv'
  <2>1. Directs(c) /\ TypeOK' /\ want' \in [Clients -> Maps]
        BY <1>1, CallSteps
  <2>2. ASSUME NEW d \in Clients, NEW k \in Keys PROVE ShapeOf(d, k)'
        BY <1>t, <2>1 DEF Directs, ShapeOf, Asked
  <2>3. StoreSound'
        BY <1>t, <2>1 DEF Directs, StoreSound, storeVars
  <2> QED
      BY <2>1, <2>2, <2>3 DEF TInv, Shape
<1>2. ASSUME NEW c \in Clients, NEW k \in Keys, JobStep(c, k) PROVE TInv'
  <2>1. Works(c, k) /\ ValuesTyped' /\ Flows(c, k)
        BY <1>t, <1>2, JobSteps, JobFlows
  <2>2. /\ exists' \in [Keys -> BOOLEAN] /\ versions' \in [Keys -> Seq(Version)]
        /\ clock' \in Nat /\ disturbed' \in [Clients -> BOOLEAN] /\ deleted' \in SUBSET Keys
        /\ StoreSound'
        BY <2>1, ChangesType DEF Works
  <2>3. UNCHANGED <<pc, skew, op, want, reply>>
        BY <2>1 DEF Works, callVars
  <2>4. TypeOK'
        BY <1>t, <2>1, <2>2, <2>3 DEF ValuesTyped, TypeOK
  <2>5. ASSUME NEW d \in Clients, NEW j \in Keys PROVE ShapeOf(d, j)'
    <3>1. ShapeOf(d, j)
          BY <1>t
    <3>2. CASE d # c \/ j # k
      <4>1. at'[d][j] = at[d][j]
            BY <2>1, <3>2 DEF Works, SameJob
      <4> QED
          BY <2>3, <3>1, <4>1 DEF ShapeOf, Asked
    <3>3. CASE d = c /\ j = k
          BY <2>1, <2>3, <3>1, <3>3 DEF Works, Flows, Setting, ShapeOf, Asked
    <3> QED
        BY <3>2, <3>3
  <2> QED
      BY <1>t, <2>2, <2>3, <2>4, <2>5 DEF TInv, Shape
<1>3. CASE UNCHANGED vars
  <2>1. TypeOK'
        BY <1>t, <1>3 DEF vars, storeVars, callVars, valueVars, errVars, ghosts, TypeOK
  <2>2. StoreSound' /\ Shape'
        BY <1>t, <1>3 DEF vars, storeVars, callVars, StoreSound, Shape, ShapeOf, Asked
  <2> QED
      BY <2>1, <2>2 DEF TInv
<1> QED
    BY <1>1, <1>2, <1>3 DEF Next, Terminated

\* The types hold in every state, for all keys, clients, values, requests,
\* histories and clocks.
THEOREM TypeCorrect == Spec => []TypeOK
<1>1. Spec => []TInv
      BY InitType, NextType, PTL DEF Spec
<1> QED
    BY <1>1, PTL DEF TInv

----------------------------------------------------------------------------
(* The inductive invariant *)

WantsValue(c, k) == k \in Asked(c) /\ want[c][k] # Empty
WantsEmpty(c, k) == k \in Asked(c) /\ want[c][k] = Empty

\* Until its version is added a job has no start; then the versions added later
\* are no older than that, by the clock it was read from.
Starting == {"off", "get", "create", "access", "add", "delete", "return"}
BeforeOf(c, k) ==
    /\ at[c][k] \in Starting => before[c][k] = 0
    /\ before[c][k] # 0 => IF WantsEmpty(c, k) THEN before[c][k] - skew[c] <= clock + 1
                           ELSE before[c][k] <= clock

\* What a clean-up has not yet destroyed and may not keep is on its list.
MayStay(c, k, n) ==
    \/ versions[k][n].stamp >= before[c][k]
    \/ WantsEmpty(c, k) /\ versions[k][n].stamp >= before[c][k] - skew[c]
CleanOf(c, k) ==
    before[c][k] # 0 =>
        /\ at[c][k] = "destroy" => \A n \in Enabled(k) : MayStay(c, k, n) \/ n \in doomed[c][k]
        /\ at[c][k] = "done" /\ cleanup[c][k] /\ ~groupErr[c] =>
              \A n \in Enabled(k) : MayStay(c, k, n)

\* The current version is not among those a clean-up destroys, unless the
\* secret was deleted meanwhile.
LastOf(c, k) ==
    (k \notin deleted \/ ~disturbed[c]) /\ WantsValue(c, k) =>
        /\ at[c][k] = "versions" => versions[k] # << >> /\ Latest(k).stamp >= before[c][k]
        /\ at[c][k] = "destroy" => \A n \in doomed[c][k] : n < Len(versions[k])

EndOf(c) == reply[c] = "ok" => ~groupErr[c] /\ \A k \in Keys : at[c][k] \in {"off", "done"}

\* While nobody else changes a secret, what a job has found or done still holds.
Trusts(c) == ~disturbed[c] /\ ~groupErr[c] /\ (pc[c] = "run" \/ reply[c] = "ok")
KnowsOf(c, k) ==
    Trusts(c) =>
        /\ at[c][k] = "off" /\ op[c] = "replace" => ~exists[k]
        /\ at[c][k] = "create" => ~exists[k]
        /\ at[c][k] \in {"access", "add", "versions", "destroy"} => exists[k]
        /\ at[c][k] = "add" /\ WantsEmpty(c, k) /\ ~cleanup[c][k] => versions[k] = << >>
        /\ at[c][k] \in {"versions", "destroy"} /\ WantsValue(c, k) => Shown(k) = want[c][k]
        /\ WantsEmpty(c, k) /\ skew[c] >= 0 =>
              /\ at[c][k] = "versions" => \A n \in Enabled(k) : versions[k][n].stamp < before[c][k]
              /\ at[c][k] = "destroy" => Enabled(k) \subseteq doomed[c][k]
        /\ at[c][k] = "done" /\ k \in Asked(c) /\ op[c] # "delete" =>
              exists[k] /\ (WantsValue(c, k) \/ skew[c] >= 0 => Shown(k) = want[c][k])
        /\ at[c][k] \in {"return", "done"} /\ (k \notin Asked(c) \/ op[c] = "delete")
              => own[c][k] \/ ~exists[k]

\* An error of the only deletion of a call is not lost.
OnlyDeletion(c, k) ==
    op[c] = "replace" /\ k \notin Asked(c) /\ \A j \in (Keys \ Asked(c)) \ {k} : at[c][j] = "off"
OwnOf(c, k) ==
    /\ own[c][k] => at[c][k] \in {"return", "done"} /\ (k \notin Asked(c) \/ op[c] = "delete")
    /\ op[c] = "delete" \/ OnlyDeletion(c, k) =>
          /\ at[c][k] = "return" => sharedErr[c] = own[c][k]
          /\ at[c][k] = "done" /\ ~groupErr[c] => ~own[c][k]

Befores == \A c \in Clients, k \in Keys : BeforeOf(c, k)
Cleans  == \A c \in Clients, k \in Keys : CleanOf(c, k)
Lasts   == \A c \in Clients, k \in Keys : LastOf(c, k)
Ends    == \A c \in Clients : EndOf(c)
Knows   == \A c \in Clients, k \in Keys : KnowsOf(c, k)
Owns    == \A c \in Clients, k \in Keys : OwnOf(c, k)

SInv == TInv /\ Befores /\ Cleans /\ Lasts /\ Ends /\ Knows /\ Owns

----------------------------------------------------------------------------
(* What a change of the store leaves of a secret *)

\* Every readable version was readable before, or it has the newest stamp.
LEMMA EnabledSteps ==
    ASSUME TInv, NEW c \in Clients, NEW k \in Keys, Changes(c, k),
           NEW j \in Keys, NEW n \in Enabled(j)'
    PROVE  \/ n \in Enabled(j) /\ versions'[j][n].stamp = versions[j][n].stamp
           \/ versions'[j][n].stamp = clock + 1 /\ clock' = clock + 1
<1>t. /\ versions \in [Keys -> Seq(Version)] /\ clock \in Nat
      /\ versions[j] \in Seq(Version)
      BY DEF TInv, TypeOK
<1>n. n \in 1..Len(versions'[j]) /\ versions'[j][n].enabled
      BY DEF Enabled
<1>1. CASE versions'[j] = versions[j]
      BY <1>1, <1>n DEF Enabled
<1>2. CASE Undisturbed
      BY <1>1, <1>2 DEF Undisturbed, storeVars
<1>3. CASE j # k
      BY <1>1, <1>3, ChangesType
<1>4. CASE Create(c, k)
      BY <1>1, <1>4 DEF Create
<1>5. CASE j = k /\ at[c][k] = "add" /\ HasPayload(c, k) /\ Add(c, k)
  <2> DEFINE v == [val |-> want[c][k], stamp |-> clock + 1, enabled |-> TRUE]
  <2>1. v.stamp = clock + 1
        OBVIOUS
  <2>2. versions'[k] = Append(versions[k], v) /\ clock' = clock + 1
        BY <1>5, <1>t DEF Add
  <2> HIDE DEF v
  <2>3. versions'[k] \in Seq(Version \cup {v}) /\ Len(versions'[k]) = Len(versions[k]) + 1
        BY <1>t, <1>5, <2>2
  <2>4. CASE n = Len(versions[k]) + 1
        BY <1>t, <1>5, <2>1, <2>2, <2>4
  <2>5. CASE n \in 1..Len(versions[k])
    <3>1. versions'[k][n] = versions[k][n]
          BY <1>t, <1>5, <2>2, <2>5
    <3> QED
        BY <1>n, <1>5, <2>5, <3>1 DEF Enabled
  <2> QED
      BY <1>n, <1>t, <1>5, <2>3, <2>4, <2>5
<1>6. ASSUME j = k, NEW m \in doomed[c][k], Destroy(c, k, m)
      PROVE  n \in Enabled(j) /\ versions'[j][n].stamp = versions[j][n].stamp
  <2>1. m \in 1..Len(versions[k]) /\ m \in Nat
    <3>1. doomed[c][k] \subseteq Nat \ {0}
          BY DEF TInv, TypeOK
    <3> QED
        BY <1>t, <1>6, <3>1 DEF Destroy, HasVersion
  <2> DEFINE v == [versions[k][m] EXCEPT !.enabled = FALSE]
  <2>2. v.stamp = versions[k][m].stamp /\ v.enabled = FALSE
    <3>1. versions[k][m] \in Version
          BY <1>t, <1>6, <2>1
    <3> QED
        BY <3>1 DEF Version
  <2>3. versions' = [versions EXCEPT ![k] = [@ EXCEPT ![m] = v]]
        BY <1>6 DEF Destroy
  <2> HIDE DEF v
  <2>4. versions'[k] = [versions[k] EXCEPT ![m] = v]
        BY <1>t, <2>3
  <2>5. Len(versions'[k]) = Len(versions[k]) /\ n \in 1..Len(versions[k])
        BY <1>n, <1>t, <1>6, <2>1, <2>4
  <2>6. n # m /\ versions'[k][n] = versions[k][n]
        BY <1>n, <1>t, <1>6, <2>2, <2>4, <2>5
  <2> QED
      BY <1>n, <1>6, <2>5, <2>6 DEF Enabled
<1>7. CASE j = k /\ Delete(c, k)
  <2>1. versions'[k] = << >>
        BY <1>7, <1>t DEF Delete
  <2> QED
      BY <1>n, <1>7, <2>1
<1> QED
    BY <1>2, <1>3, <1>4, <1>5, <1>6, <1>7 DEF Changes

\* The current version gives way to a newer one only, unless the secret is
\* deleted.
LEMMA LatestSteps ==
    ASSUME TInv, NEW c \in Clients, NEW k \in Keys, Changes(c, k),
           NEW j \in Keys, versions[j] # << >>
    PROVE  \/ /\ versions'[j] # << >> /\ Len(versions'[j]) >= Len(versions[j])
              /\ Latest(j)'.stamp >= Latest(j).stamp
           \/ j = k /\ at[c][k] = "delete" /\ k \in deleted'
<1>t. /\ versions \in [Keys -> Seq(Version)] /\ clock \in Nat
      /\ versions[j] \in Seq(Version)
      BY DEF TInv, TypeOK
<1>l. /\ Len(versions[j]) \in Nat /\ Len(versions[j]) \in 1..Len(versions[j])
      /\ Latest(j) \in Version /\ Latest(j).stamp \in Nat /\ Latest(j).stamp <= clock
  <2>1. Len(versions[j]) \in Nat /\ Len(versions[j]) \in 1..Len(versions[j])
        BY <1>t
  <2>2. Latest(j) \in Version /\ Latest(j).stamp <= clock
        BY <1>t, <2>1 DEF Latest, TInv, StoreSound
  <2>3. Latest(j).stamp \in Nat
        BY <2>2 DEF Version
  <2> QED
      BY <2>1, <2>2, <2>3
<1>1. CASE versions'[j] = versions[j]
      BY <1>1, <1>l DEF Latest
<1>2. CASE Undisturbed
      BY <1>1, <1>2 DEF Undisturbed, storeVars
<1>3. CASE j # k
      BY <1>1, <1>3, ChangesType
<1>4. CASE Create(c, k)
      BY <1>1, <1>4 DEF Create
<1>5. CASE j = k /\ at[c][k] = "add" /\ HasPayload(c, k) /\ Add(c, k)
  <2> DEFINE v == [val |-> want[c][k], stamp |-> clock + 1, enabled |-> TRUE]
  <2>1. v.stamp = clock + 1
        OBVIOUS
  <2>2. versions'[k] = Append(versions[k], v)
        BY <1>5, <1>t DEF Add
  <2> HIDE DEF v
  <2>3. Len(versions'[k]) = Len(versions[k]) + 1 /\ versions'[k] # << >>
        /\ versions'[k][Len(versions[k]) + 1] = v
        BY <1>t, <1>5, <2>2
  <2> QED
      BY <1>t, <1>l, <1>5, <2>1, <2>3 DEF Latest
<1>6. ASSUME j = k, NEW m \in doomed[c][k], Destroy(c, k, m)
      PROVE  /\ versions'[j] # << >> /\ Len(versions'[j]) >= Len(versions[j])
             /\ Latest(j)'.stamp >= Latest(j).stamp
  <2>1. m \in 1..Len(versions[k]) /\ m \in Nat
    <3>1. doomed[c][k] \subseteq Nat \ {0}
          BY DEF TInv, TypeOK
    <3> QED
        BY <1>t, <1>6, <3>1 DEF Destroy, HasVersion
  <2> DEFINE v == [versions[k][m] EXCEPT !.enabled = FALSE]
  <2>2. v.stamp = versions[k][m].stamp
    <3>1. versions[k][m] \in Version
          BY <1>t, <1>6, <2>1
    <3> QED
        BY <3>1 DEF Version
  <2>3. versions' = [versions EXCEPT ![k] = [@ EXCEPT ![m] = v]]
        BY <1>6 DEF Destroy
  <2> HIDE DEF v
  <2>4. versions'[k] = [versions[k] EXCEPT ![m] = v]
        BY <1>t, <2>3
  <2>5. Len(versions'[k]) = Len(versions[k]) /\ versions'[k] # << >>
        BY <1>t, <1>l, <1>6, <2>1, <2>4
  <2>6. Latest(j)'.stamp = Latest(j).stamp
        BY <1>t, <1>l, <1>6, <2>2, <2>4, <2>5 DEF Latest
  <2> QED
      BY <1>6, <1>l, <2>5, <2>6
<1>7. CASE j = k /\ at[c][k] = "delete" /\ Delete(c, k)
      BY <1>7 DEF Delete
<1> QED
    BY <1>2, <1>3, <1>4, <1>5, <1>6, <1>7 DEF Changes

\* What others change, a call that has begun is marked for; the marks stay.
LEMMA GhostSteps ==
    ASSUME TInv, NEW c \in Clients, NEW k \in Keys, Changes(c, k)
    PROVE  /\ deleted \subseteq deleted' /\ \A d \in Clients : disturbed[d] => disturbed'[d]
           /\ \/ Undisturbed
              \/ \A d \in Clients \ {c} : pc[d] # "idle" => disturbed'[d]
           /\ at[c][k] # "delete" => deleted' = deleted
           /\ at[c][k] \notin {"add", "delete", "destroy"} => versions' = versions /\ clock' = clock
<1>1. disturbed \in [Clients -> BOOLEAN]
      BY DEF TInv, TypeOK
<1>2. CASE Undisturbed
      BY <1>2 DEF Undisturbed, ghosts, storeVars
<1>3. CASE Create(c, k)
      BY <1>1, <1>3 DEF Create, Disturb
<1>4. CASE at[c][k] = "add" /\ HasPayload(c, k) /\ Add(c, k)
      BY <1>1, <1>4 DEF Add, Disturb
<1>5. CASE \E n \in doomed[c][k] : at[c][k] = "destroy" /\ Destroy(c, k, n)
      BY <1>1, <1>5 DEF Destroy, Disturb
<1>6. CASE at[c][k] = "delete" /\ Delete(c, k)
      BY <1>1, <1>6 DEF Delete, Disturb
<1> QED
    BY <1>2, <1>3, <1>4, <1>5, <1>6 DEF Changes

----------------------------------------------------------------------------
(* Clean-ups *)

\* What the clean-ups rely on, of one job.
CleansUp(c, k) == BeforeOf(c, k) /\ CleanOf(c, k) /\ LastOf(c, k)

\* The current version is one of the secret's, no newer than the clock.
LEMMA LatestType ==
    ASSUME TInv, NEW k \in Keys
    PROVE  /\ versions[k] \in Seq(Version) /\ Len(versions[k]) \in Nat
           /\ versions[k] # << >> =>
                 /\ Len(versions[k]) \in 1..Len(versions[k]) /\ Latest(k) \in Version
                 /\ Latest(k).stamp \in Nat /\ Latest(k).stamp <= clock
<1>1. versions[k] \in Seq(Version) /\ Len(versions[k]) \in Nat
      BY DEF TInv, TypeOK
<1>2. ASSUME versions[k] # << >>
      PROVE  Len(versions[k]) \in 1..Len(versions[k]) /\ Latest(k) \in Version
             /\ Latest(k).stamp <= clock
  <2>1. Len(versions[k]) \in 1..Len(versions[k])
        BY <1>1, <1>2
  <2> QED
      BY <1>1, <2>1 DEF Latest, TInv, StoreSound
<1> QED
    BY <1>1, <1>2 DEF Version

\* The steps of the other jobs keep it.
LEMMA OtherCleans ==
    ASSUME TInv, TInv', NEW c \in Clients, NEW k \in Keys, Works(c, k),
           NEW d \in Clients, NEW j \in Keys, d # c \/ j # k, CleansUp(d, j)
    PROVE  CleansUp(d, j)'
<1>w. /\ UNCHANGED <<pc, skew, op, want, reply>> /\ Changes(c, k) /\ SameJob(d, j)
      /\ groupErr[d] => groupErr'[d]
      BY DEF Works, callVars, TInv, TypeOK
<1>t. /\ clock \in Nat /\ clock' \in Nat /\ clock' >= clock
      /\ before[d][j] \in Int /\ skew[d] \in Int
  <2>1. skew[d] \in Skews /\ before[d][j] \in Int /\ clock \in Nat
        BY DEF TInv, TypeOK
  <2> QED
      BY <1>w, <2>1, ChangesType, SecretsAssumption
<1>a. (WantsEmpty(d, j)' <=> WantsEmpty(d, j)) /\ (WantsValue(d, j)' <=> WantsValue(d, j))
      BY <1>w DEF WantsEmpty, WantsValue, Asked
<1>1. BeforeOf(d, j)'
      BY <1>w, <1>t, <1>a DEF BeforeOf, SameJob, CleansUp
<1>2. ASSUME before[d][j] # 0, NEW n \in Enabled(j)'
      PROVE  MayStay(d, j, n)' \/ (n \in Enabled(j) /\ ~MayStay(d, j, n))
  <2>1. CASE versions'[j][n].stamp = clock + 1 /\ clock' = clock + 1
    <3>1. CASE WantsEmpty(d, j)
          BY <1>w, <1>t, <1>a, <1>2, <2>1, <3>1 DEF BeforeOf, MayStay, CleansUp, SameJob
    <3>2. CASE ~WantsEmpty(d, j)
          BY <1>w, <1>t, <1>a, <1>2, <2>1, <3>2 DEF BeforeOf, MayStay, CleansUp, SameJob
    <3> QED
        BY <3>1, <3>2
  <2>2. CASE n \in Enabled(j) /\ versions'[j][n].stamp = versions[j][n].stamp
        BY <1>w, <1>a, <2>2 DEF MayStay, SameJob
  <2> QED
      BY <1>w, <2>1, <2>2, EnabledSteps
<1>3. CleanOf(d, j)'
      BY <1>w, <1>2 DEF CleanOf, CleansUp, SameJob
<1>4. LastOf(d, j)'
  <2> SUFFICES ASSUME (j \notin deleted \/ ~disturbed[d])', WantsValue(d, j)'
               PROVE  /\ at'[d][j] = "versions" =>
                            versions'[j] # << >> /\ Latest(j)'.stamp >= before'[d][j]
                      /\ at'[d][j] = "destroy" =>
                            \A n \in doomed'[d][j] : n < Len(versions'[j])
      BY DEF LastOf
  <2>1. WantsValue(d, j) /\ (j \notin deleted \/ ~disturbed[d])
        BY <1>w, <1>a, GhostSteps
  <2>2. at[d][j] \in {"versions", "destroy"} => pc[d] # "idle"
        BY DEF TInv, Shape, ShapeOf
  <2>3. CASE Undisturbed
        BY <1>w, <2>1, <2>3 DEF Undisturbed, storeVars, LastOf, Latest, SameJob, CleansUp
  <2>4. CASE ~Undisturbed /\ at[d][j] \in {"versions", "destroy"} /\ versions[j] # << >>
    <3>1. d # c => j \notin deleted'
          BY <1>w, <2>2, <2>4, GhostSteps
    <3>2. /\ versions'[j] # << >> /\ Len(versions'[j]) >= Len(versions[j])
          /\ Latest(j)'.stamp >= Latest(j).stamp
          BY <1>w, <2>4, <3>1, LatestSteps
    <3>3. Latest(j).stamp \in Int /\ Latest(j)'.stamp \in Int
          /\ Len(versions[j]) \in Nat /\ Len(versions'[j]) \in Nat
      <4>1. Latest(j).stamp \in Int /\ Len(versions[j]) \in Nat
            BY <2>4, LatestType
      <4>2. versions'[j] \in Seq(Version)
            BY DEF TInv, TypeOK
      <4>3. Len(versions'[j]) \in 1..Len(versions'[j]) /\ Len(versions'[j]) \in Nat
            BY <3>2, <4>2
      <4>4. Latest(j)' \in Version
            BY <4>2, <4>3 DEF Latest
      <4> QED
          BY <4>1, <4>3, <4>4 DEF Version
    <3>4. doomed[d][j] \subseteq Nat
          BY DEF TInv, TypeOK
    <3>5. CASE at[d][j] = "versions"
      <4>1. Latest(j).stamp >= before[d][j]
            BY <2>1, <3>5 DEF LastOf, CleansUp
      <4> QED
          BY <1>w, <1>t, <3>2, <3>3, <3>5, <4>1 DEF SameJob
    <3>6. CASE at[d][j] = "destroy"
      <4>1. \A n \in doomed[d][j] : n < Len(versions[j])
            BY <2>1, <3>6 DEF LastOf, CleansUp
      <4> QED
          BY <1>w, <3>2, <3>3, <3>4, <3>6, <4>1 DEF SameJob
    <3> QED
        BY <2>4, <3>5, <3>6
  <2>5. CASE at[d][j] = "destroy" /\ versions[j] = << >>
    <3>1. \A n \in doomed[d][j] : n \in Nat /\ n < 0
      <4>1. doomed[d][j] \subseteq Nat /\ Len(versions[j]) = 0
            BY <2>5 DEF TInv, TypeOK
      <4> QED
          BY <2>1, <2>5, <4>1 DEF LastOf, CleansUp
    <3> QED
        BY <1>w, <2>5, <3>1 DEF SameJob
  <2>6. at[d][j] = "versions" => versions[j] # << >>
        BY <2>1 DEF LastOf, CleansUp
  <2> QED
      BY <1>w, <2>3, <2>4, <2>5, <2>6 DEF SameJob
<1> QED
    BY <1>1, <1>3, <1>4 DEF CleansUp

\* A version that was added is the latest.
LEMMA AddedLast ==
    ASSUME TInv, NEW c \in Clients, NEW k \in Keys, Add(c, k)
    PROVE  /\ versions'[k] # << >> /\ Latest(k)'.stamp = clock'
           /\ Latest(k)'.val = want[c][k] /\ Latest(k)'.enabled
           /\ exists[k] /\ exists' = exists
<1>1. versions \in [Keys -> Seq(Version)] /\ versions[k] \in Seq(Version)
      BY DEF TInv, TypeOK
<1> DEFINE v == [val |-> want[c][k], stamp |-> clock + 1, enabled |-> TRUE]
<1>2. versions'[k] = Append(versions[k], v) /\ clock' = clock + 1 /\ exists[k] /\ exists' = exists
      BY <1>1 DEF Add
<1>3. v.val = want[c][k] /\ v.stamp = clock + 1 /\ v.enabled
      OBVIOUS
<1> HIDE DEF v
<1>4. versions'[k] # << >> /\ Len(versions'[k]) = Len(versions[k]) + 1
      /\ versions'[k][Len(versions[k]) + 1] = v
  <2>1. versions[k] \in Seq(Version \cup {v})
        BY <1>1
  <2> QED
      BY <1>2, <2>1
<1>5. Latest(k)' = v
      BY <1>4 DEF Latest
<1> QED
    BY <1>2, <1>3, <1>4, <1>5

\* A version that was destroyed cannot be read any more; nothing else changes.
LEMMA Destroyed ==
    ASSUME TInv, NEW c \in Clients, NEW k \in Keys, NEW n \in doomed[c][k], Destroy(c, k, n)
    PROVE  /\ \A m \in Enabled(k)' : m \in Enabled(k) /\ m # n
                                      /\ versions'[k][m].stamp = versions[k][m].stamp
           /\ Len(versions'[k]) = Len(versions[k]) /\ Len(versions[k]) >= 1
           /\ \A m \in 1..Len(versions[k]) : m # n => versions'[k][m] = versions[k][m]
           /\ exists' = exists /\ exists[k] /\ clock' = clock /\ deleted' = deleted
           /\ disturbed'[c] = disturbed[c]
<1>t. versions \in [Keys -> Seq(Version)] /\ versions[k] \in Seq(Version)
      BY DEF TInv, TypeOK
<1>1. n \in 1..Len(versions[k]) /\ n \in Nat
  <2>1. doomed[c][k] \subseteq Nat \ {0}
        BY DEF TInv, TypeOK
  <2> QED
      BY <1>t, <2>1 DEF Destroy, HasVersion
<1> DEFINE v == [versions[k][n] EXCEPT !.enabled = FALSE]
<1>2. v.enabled = FALSE
  <2>1. versions[k][n] \in Version
        BY <1>t, <1>1
  <2> QED
      BY <2>1 DEF Version
<1>3. versions' = [versions EXCEPT ![k] = [@ EXCEPT ![n] = v]]
      BY DEF Destroy
<1> HIDE DEF v
<1>4. versions'[k] = [versions[k] EXCEPT ![n] = v]
      BY <1>t, <1>3
<1>5. Len(versions'[k]) = Len(versions[k]) /\ versions'[k][n] = v /\ Len(versions[k]) >= 1
      /\ \A m \in 1..Len(versions[k]) : m # n => versions'[k][m] = versions[k][m]
      BY <1>t, <1>1, <1>4
<1>6. \A m \in Enabled(k)' : m \in Enabled(k) /\ m # n
                              /\ versions'[k][m].stamp = versions[k][m].stamp
      BY <1>2, <1>5 DEF Enabled
<1>7. exists' = exists /\ exists[k] /\ clock' = clock /\ deleted' = deleted
      /\ disturbed'[c] = disturbed[c]
  <2>1. disturbed \in [Clients -> BOOLEAN]
        BY DEF TInv, TypeOK
  <2> QED
      BY <2>1 DEF Destroy, HasVersion, Disturb
<1> QED
    BY <1>5, <1>6, <1>7

\* So is every readable one.
LEMMA EnabledType ==
    ASSUME TInv, NEW k \in Keys, NEW n \in Enabled(k)
    PROVE  n \in Nat \ {0} /\ versions[k][n].stamp \in Nat /\ versions[k][n].stamp <= clock
<1>1. n \in 1..Len(versions[k]) /\ versions[k] \in Seq(Version)
      BY DEF Enabled, TInv, TypeOK
<1>2. versions[k][n] \in Version /\ n \in Nat \ {0}
      BY <1>1
<1> QED
    BY <1>1, <1>2 DEF Version, TInv, StoreSound

\* Its own steps keep it.
LEMMA OwnCleans ==
    ASSUME TInv, TInv', NEW c \in Clients, NEW k \in Keys, JobStep(c, k), CleansUp(c, k)
    PROVE  CleansUp(c, k)'
<1>w. Works(c, k) /\ Flows(c, k) /\ UNCHANGED <<pc, skew, op, want, reply>>
      BY JobSteps, JobFlows DEF TInv, Works, callVars
<1>t. /\ clock \in Nat /\ clock' \in Nat /\ clock' >= clock
      /\ before \in [Clients -> [Keys -> Int]] /\ skew[c] \in Int
      /\ doomed \in [Clients -> [Keys -> SUBSET (Nat \ {0})]]
      /\ at \in [Clients -> [Keys -> Jobs]]
      /\ groupErr \in [Clients -> BOOLEAN] /\ cleanup \in [Clients -> [Keys -> BOOLEAN]]
  <2>1. skew[c] \in Skews
        BY DEF TInv, TypeOK
  <2>2. skew[c] \in Int
        BY <2>1, SecretsAssumption
  <2>3. clock' >= clock
        BY <1>w, ChangesType DEF Works
  <2> QED
      BY <2>2, <2>3 DEF TInv, TypeOK
<1>a. (WantsEmpty(c, k)' <=> WantsEmpty(c, k)) /\ (WantsValue(c, k)' <=> WantsValue(c, k))
      BY <1>w DEF WantsEmpty, WantsValue, Asked
\* A job that has no version of its own yet, and none after the step.
<1>n. ASSUME before[c][k] = 0, before' = before, at'[c][k] \notin {"versions", "destroy"}
      PROVE  CleansUp(c, k)'
      BY <1>n DEF CleansUp, BeforeOf, CleanOf, LastOf
\* A job that fails has nothing to answer for.
<1>f. ASSUME FailJob(c, k), before' = before
      PROVE  CleansUp(c, k)'
  <2>1. at'[c][k] = "done" /\ groupErr'[c]
        BY <1>f, <1>t DEF FailJob, Goto
  <2>2. BeforeOf(c, k)'
        BY <1>w, <1>f, <1>t, <1>a, <2>1 DEF BeforeOf, CleansUp, Starting
  <2> QED
      BY <2>1, <2>2 DEF CleansUp, CleanOf, LastOf
<1> USE DEF Running
<1>1. CASE GetSecret(c, k)
  <2>1. before[c][k] = 0 /\ before' = before
        BY <1>1 DEF GetSecret, valueVars, CleansUp, BeforeOf, Starting
  <2>2. at'[c][k] \notin {"versions", "destroy"}
        BY <1>1, <1>t DEF GetSecret, Continue, FailJob, Goto
  <2> QED
      BY <1>n, <2>1, <2>2
<1>2. CASE CreateSecret(c, k)
  <2>1. before[c][k] = 0 /\ before' = before
        BY <1>2 DEF CreateSecret, CleansUp, BeforeOf, Starting
  <2>2. at'[c][k] \notin {"versions", "destroy"}
        BY <1>2, <1>t DEF CreateSecret, Continue, FailJob, Goto
  <2> QED
      BY <1>n, <2>1, <2>2
<1>3. CASE AccessValue(c, k)
  <2>1. before[c][k] = 0 /\ before' = before
        BY <1>3 DEF AccessValue, CleansUp, BeforeOf, Starting
  <2>2. at'[c][k] \notin {"versions", "destroy"}
        BY <1>3, <1>t DEF AccessValue, Continue, Succeed, FailJob, Goto
  <2> QED
      BY <1>n, <2>1, <2>2
<1>4. CASE AddVersion(c, k)
  <2>1. before[c][k] = 0 /\ cleanup' = cleanup /\ at[c][k] = "add" /\ k \in Asked(c)
    <3>1. at[c][k] = "add" /\ cleanup' = cleanup
          BY <1>4 DEF AddVersion
    <3> QED
        BY <3>1 DEF CleansUp, BeforeOf, Starting, TInv, Shape, ShapeOf
  <2>2. ASSUME Added(c, k), before'[c][k] \in Int,
               WantsEmpty(c, k) => before'[c][k] - skew[c] <= clock' + 1,
               ~WantsEmpty(c, k) => before'[c][k] <= clock',
               WantsValue(c, k) => versions'[k] # << >> /\ Latest(k)'.stamp >= before'[c][k]
        PROVE  CleansUp(c, k)'
    <3>1. at'[c][k] = IF cleanup'[c][k] THEN "versions" ELSE "done"
          BY <1>t, <2>1, <2>2 DEF Added, Continue, Goto
    <3>2. BeforeOf(c, k)'
          BY <1>w, <1>a, <2>2, <3>1 DEF BeforeOf, Starting
    <3>3. CleanOf(c, k)'
          BY <3>1 DEF CleanOf
    <3>4. LastOf(c, k)'
          BY <1>a, <2>2, <3>1 DEF LastOf
    <3> QED
        BY <3>2, <3>3, <3>4 DEF CleansUp
  <2>3. CASE FailJob(c, k) /\ before' = before
        BY <1>f, <2>3
  <2>4. CASE ~HasPayload(c, k) /\ Added(c, k) /\ before' = [before EXCEPT ![c][k] = LocalNow(c)]
    <3>1. before'[c][k] = clock + 1 + skew[c]
          BY <1>t, <2>4 DEF LocalNow
    <3>2. WantsEmpty(c, k) /\ ~WantsValue(c, k)
          BY <2>1, <2>4 DEF HasPayload, WantsEmpty, WantsValue
    <3> QED
        BY <1>t, <2>2, <2>4, <3>1, <3>2
  <2>5. CASE HasPayload(c, k) /\ Add(c, k) /\ Added(c, k)
             /\ before' = [before EXCEPT ![c][k] = Now(c)]
    <3>1. before'[c][k] = clock'
          BY <1>t, <2>5 DEF Now
    <3>2. ~WantsEmpty(c, k)
          BY <2>1, <2>5 DEF HasPayload, WantsEmpty
    <3>3. versions'[k] # << >> /\ Latest(k)'.stamp = clock'
          BY <2>5, AddedLast
    <3> QED
        BY <1>t, <2>2, <2>5, <3>1, <3>2, <3>3
  <2> QED
      BY <1>4, <2>3, <2>4, <2>5 DEF AddVersion
<1>5. CASE ListVersions(c, k)
  <2>1. UNCHANGED <<cleanup, before>> /\ Undisturbed /\ at[c][k] = "versions"
        BY <1>5 DEF ListVersions
  <2>2. CASE FailJob(c, k)
        BY <1>f, <2>1, <2>2
  <2>3. CASE /\ doomed' = [doomed EXCEPT ![c][k] = Old(c, k)]
             /\ Continue(c, k, IF Old(c, k) = {} THEN "done" ELSE "destroy")
    <3>1. doomed'[c][k] = Old(c, k) /\ at'[c][k] = IF Old(c, k) = {} THEN "done" ELSE "destroy"
      <4>1. Old(c, k) \in SUBSET (Nat \ {0})
            BY DEF Old, Enabled, TInv, TypeOK
      <4> QED
          BY <1>t, <2>3, <4>1 DEF Continue, Goto
    <3>2. BeforeOf(c, k)'
          BY <1>w, <1>t, <1>a, <2>1, <3>1 DEF BeforeOf, CleansUp, Starting
    <3>3. \A n \in Enabled(k)' :
              /\ n \in Enabled(k)
              /\ versions'[k][n].stamp = versions[k][n].stamp /\ versions[k][n].stamp \in Nat
              /\ n \notin Old(c, k) => versions[k][n].stamp >= before[c][k]
          BY <1>t, <2>1, EnabledType DEF Undisturbed, storeVars, Enabled, Old
    <3>4. CleanOf(c, k)'
          BY <2>1, <3>1, <3>3 DEF CleanOf, MayStay
    <3>5. LastOf(c, k)'
      <4> SUFFICES ASSUME (k \notin deleted \/ ~disturbed[c])', WantsValue(c, k)',
                          NEW n \in Old(c, k)
                   PROVE  n < Len(versions'[k])
          BY <3>1 DEF LastOf
      <4>1. k \notin deleted \/ ~disturbed[c]
            BY <2>1 DEF Undisturbed, ghosts
      <4>2. versions[k] # << >> /\ Latest(k).stamp >= before[c][k]
            BY <1>a, <2>1, <4>1 DEF LastOf, CleansUp
      <4>3. /\ n \in 1..Len(versions[k]) /\ versions[k][n].stamp < before[c][k]
            /\ Latest(k).stamp \in Nat /\ Len(versions[k]) \in Nat
            BY <4>2, LatestType DEF Old, Enabled
      <4>4. n # Len(versions[k])
            BY <1>t, <4>2, <4>3 DEF Latest
      <4>5. versions' = versions
            BY <2>1 DEF Undisturbed, storeVars
      <4> QED
          BY <4>3, <4>4, <4>5
    <3> QED
        BY <3>2, <3>4, <3>5 DEF CleansUp
  <2> QED
      BY <1>5, <2>2, <2>3 DEF ListVersions
<1>6. CASE DestroyVersion(c, k)
  <2>1. UNCHANGED <<cleanup, before>> /\ at[c][k] = "destroy"
        BY <1>6 DEF DestroyVersion
  <2>2. PICK n \in doomed[c][k] :
            /\ doomed' = [doomed EXCEPT ![c][k] = @ \ {n}]
            /\ \/ /\ Destroy(c, k, n)
                  /\ Continue(c, k, IF doomed[c][k] = {n} THEN "done" ELSE "destroy")
               \/ FailJob(c, k)
        BY <1>6 DEF DestroyVersion
  <2>3. CASE FailJob(c, k)
        BY <1>f, <2>1, <2>3
  <2>4. CASE Destroy(c, k, n) /\ Continue(c, k, IF doomed[c][k] = {n} THEN "done" ELSE "destroy")
    <3>1. /\ doomed'[c][k] = doomed[c][k] \ {n}
          /\ at'[c][k] = IF doomed[c][k] = {n} THEN "done" ELSE "destroy"
          BY <1>t, <2>2, <2>4 DEF Continue, Goto
    <3>2. BeforeOf(c, k)'
          BY <1>w, <1>t, <1>a, <2>1, <3>1 DEF BeforeOf, CleansUp, Starting
    <3>3. \A m \in Enabled(k)' : m \in Enabled(k) /\ m # n
                                 /\ versions'[k][m].stamp = versions[k][m].stamp
          BY <2>4, Destroyed
    <3>4. groupErr' = groupErr
          BY <2>4 DEF Continue
    <3>5. CleanOf(c, k)'
      <4> SUFFICES ASSUME before[c][k] # 0, NEW m \in Enabled(k)'
                   PROVE  MayStay(c, k, m)' \/ m \in doomed'[c][k]
          BY <2>1, <3>1 DEF CleanOf
      <4>1. MayStay(c, k, m) \/ m \in doomed[c][k]
            BY <2>1, <3>3 DEF CleanOf, CleansUp
      <4>2. MayStay(c, k, m) => MayStay(c, k, m)'
            BY <1>w, <1>a, <2>1, <3>3 DEF MayStay
      <4> QED
          BY <3>1, <3>3, <4>1, <4>2
    <3>6. LastOf(c, k)'
      <4>1. /\ Len(versions'[k]) = Len(versions[k]) /\ deleted' = deleted
            /\ disturbed'[c] = disturbed[c]
            BY <2>4, Destroyed
      <4> QED
          BY <1>a, <2>1, <3>1, <4>1 DEF LastOf, CleansUp
    <3> QED
        BY <3>2, <3>5, <3>6 DEF CleansUp
  <2> QED
      BY <2>2, <2>3, <2>4
<1>7. CASE DeleteSecret(c, k)
  <2>1. before[c][k] = 0 /\ before' = before /\ at[c][k] = "delete"
        BY <1>7 DEF DeleteSecret, valueVars, CleansUp, BeforeOf, Starting
  <2>2. at'[c][k] \notin {"versions", "destroy"}
        BY <1>w, <2>1 DEF Flows, Setting
  <2> QED
      BY <1>n, <2>1, <2>2
<1>8. CASE ReturnErr(c, k)
  <2>1. before[c][k] = 0 /\ before' = before /\ at[c][k] = "return"
        BY <1>8 DEF ReturnErr, valueVars, CleansUp, BeforeOf, Starting
  <2>2. at'[c][k] \notin {"versions", "destroy"}
        BY <1>w, <2>1 DEF Flows, Setting
  <2> QED
      BY <1>n, <2>1, <2>2
<1> QED
    BY <1>1, <1>2, <1>3, <1>4, <1>5, <1>6, <1>7, <1>8 DEF JobStep

----------------------------------------------------------------------------
(* What a call knows of the store *)

\* The part of the invariant about one job of a call.
JobInv(c, k) == CleansUp(c, k) /\ KnowsOf(c, k) /\ OwnOf(c, k)

\* The steps of other jobs keep it.
LEMMA OtherKnows ==
    ASSUME TInv, TInv', NEW c \in Clients, NEW k \in Keys, Works(c, k), Flows(c, k),
           NEW d \in Clients, NEW j \in Keys, d # c \/ j # k, KnowsOf(d, j), OwnOf(d, j)
    PROVE  KnowsOf(d, j)' /\ OwnOf(d, j)'
<1>w. /\ UNCHANGED <<pc, skew, op, want, reply>> /\ Changes(c, k) /\ SameJob(d, j)
      /\ pc[c] = "run" /\ at[c][k] # "off" /\ at'[c][k] # "off"
  <2>1. UNCHANGED <<pc, skew, op, want, reply>> /\ Changes(c, k) /\ SameJob(d, j)
        BY DEF Works, callVars
  <2> QED
      BY <2>1 DEF Works
<1>g. groupErr[d] => groupErr'[d]
      BY DEF Works, TInv, TypeOK
<1>a. /\ WantsEmpty(d, j)' <=> WantsEmpty(d, j)
      /\ WantsValue(d, j)' <=> WantsValue(d, j)
      /\ Asked(d)' = Asked(d)
      BY <1>w DEF WantsEmpty, WantsValue, Asked
<1>1. KnowsOf(d, j)'
  <2> SUFFICES ASSUME Trusts(d)' PROVE KnowsOf(d, j)'
      BY DEF KnowsOf
  <2>1. Trusts(d)
        BY <1>w, <1>g, GhostSteps DEF Trusts
  <2>2. pc[d] # "idle"
        BY <2>1 DEF Trusts, TInv, Shape, ShapeOf
  <2>3. exists'[j] = exists[j] /\ versions'[j] = versions[j]
    <3>1. CASE d = c
      <4>1. j \in Keys \ {k}
            BY <3>1
      <4> QED
          BY <1>w, <4>1, ChangesType
    <3>2. CASE d # c
      <4>1. Undisturbed
            BY <1>w, <2>2, <3>2, GhostSteps DEF Trusts
      <4> QED
          BY <4>1 DEF Undisturbed, storeVars
    <3> QED
        BY <3>1, <3>2
  <2>4. Enabled(j)' = Enabled(j) /\ Shown(j)' = Shown(j)
        BY <2>3 DEF Enabled, Shown, Specified, Latest
  <2> QED
      BY <1>w, <1>a, <2>1, <2>3, <2>4 DEF KnowsOf, SameJob
<1>2. OwnOf(d, j)'
  <2>1. OnlyDeletion(d, j)' => OnlyDeletion(d, j)
    <3> SUFFICES ASSUME OnlyDeletion(d, j)' PROVE OnlyDeletion(d, j)
        OBVIOUS
    <3>1. ASSUME NEW i \in (Keys \ Asked(d)) \ {j} PROVE at[d][i] = "off"
      <4>1. at'[d][i] = "off"
            BY <1>a DEF OnlyDeletion
      <4>2. d # c \/ i # k
            BY <1>w, <4>1
      <4> QED
          BY <4>1, <4>2 DEF Works, SameJob
    <3> QED
        BY <1>w, <1>a, <3>1 DEF OnlyDeletion
  <2>2. (op[d] = "delete" \/ OnlyDeletion(d, j)') => sharedErr'[d] = sharedErr[d]
    <3> SUFFICES ASSUME op[d] = "delete" \/ OnlyDeletion(d, j)', sharedErr'[d] # sharedErr[d]
                 PROVE  FALSE
        OBVIOUS
    <3>1. d = c /\ at[c][k] = "delete" /\ at'[c][k] = "return" /\ j # k
          BY DEF Works
    <3>2. op[c] # "delete"
          BY <3>1 DEF Flows, Setting
    <3>3. k \in Asked(c)
          BY <1>w, <1>a, <3>1, <3>2 DEF OnlyDeletion
    <3> QED
        BY <3>1, <3>2, <3>3 DEF TInv, Shape, ShapeOf
  <2> QED
      BY <1>w, <1>g, <1>a, <2>1, <2>2 DEF OwnOf, SameJob
<1> QED
    BY <1>1, <1>2

\* A secret without readable versions shows nothing.
LEMMA NoneEnabled ==
    ASSUME TInv, NEW k \in Keys, Enabled(k) = {} PROVE Shown(k) = Empty
BY LatestType DEF Shown, Specified, Latest, Enabled

\* Its own steps keep what a job knows.
LEMMA OwnKnows ==
    ASSUME TInv, TInv', NEW c \in Clients, NEW k \in Keys, JobStep(c, k), JobInv(c, k)
    PROVE  KnowsOf(c, k)'
<1>w. Works(c, k) /\ UNCHANGED <<pc, skew, op, want, reply>>
      BY JobSteps DEF Works, callVars
<1>a. /\ WantsEmpty(c, k)' <=> WantsEmpty(c, k)
      /\ WantsValue(c, k)' <=> WantsValue(c, k)
      /\ Asked(c)' = Asked(c)
      BY <1>w DEF WantsEmpty, WantsValue, Asked
<1>g. groupErr[c] => groupErr'[c]
      BY <1>w DEF Works
<1>t. /\ at \in [Clients -> [Keys -> Jobs]] /\ groupErr \in [Clients -> BOOLEAN]
      /\ clock \in Nat /\ skew[c] \in Int
      /\ own \in [Clients -> [Keys -> BOOLEAN]] /\ cleanup \in [Clients -> [Keys -> BOOLEAN]]
      /\ before \in [Clients -> [Keys -> Int]] /\ exists \in [Keys -> BOOLEAN]
      /\ doomed \in [Clients -> [Keys -> SUBSET (Nat \ {0})]]
  <2>1. skew[c] \in Skews
        BY DEF TInv, TypeOK
  <2> QED
      BY <2>1, SecretsAssumption DEF TInv, TypeOK
<1>s. ShapeOf(c, k) /\ KnowsOf(c, k) /\ OwnOf(c, k) /\ CleansUp(c, k)
      BY DEF TInv, Shape, JobInv
<1>f. FailJob(c, k) => KnowsOf(c, k)'
  <2>1. FailJob(c, k) => groupErr'[c]
        BY <1>t DEF FailJob
  <2> QED
      BY <2>1 DEF KnowsOf, Trusts
<1> SUFFICES ASSUME Trusts(c)', ~FailJob(c, k) PROVE KnowsOf(c, k)'
    BY <1>f DEF KnowsOf
<1>y. Trusts(c)
      BY <1>w, <1>g, GhostSteps DEF Trusts, Works
\* A job that sets its key.
<1>q. at[c][k] \in Setting => k \in Asked(c) /\ op[c] # "delete"
      BY <1>s DEF ShapeOf, Setting
<1> USE DEF Running
<1>1. CASE GetSecret(c, k)
  <2>1. Continue(c, k, IF exists[k] THEN "access" ELSE "create") /\ Undisturbed
        BY <1>1 DEF GetSecret
  <2>2. at'[c][k] = (IF exists[k] THEN "access" ELSE "create") /\ exists' = exists
        BY <1>t, <2>1 DEF Continue, Goto, Undisturbed, storeVars
  <2> QED
      BY <2>2 DEF KnowsOf
<1>2. CASE CreateSecret(c, k)
  <2>1. Create(c, k) /\ Continue(c, k, "add")
        BY <1>2 DEF CreateSecret
  <2>2. at'[c][k] = "add" /\ exists'[k] /\ versions'[k] = << >>
        BY <1>t, <2>1 DEF Create, Continue, Goto, TInv, StoreSound
  <2> QED
      BY <2>2 DEF KnowsOf
<1>3. CASE AccessValue(c, k)
  <2>1. Undisturbed /\ at[c][k] = "access"
        BY <1>3 DEF AccessValue
  <2>2. exists'[k] = exists[k] /\ versions'[k] = versions[k] /\ Shown(k)' = Shown(k) /\ exists[k]
        BY <1>s, <1>y, <2>1 DEF Undisturbed, storeVars, KnowsOf, Shown, Specified, Latest
  <2>3. CASE UpToDate(c, k) /\ Succeed(c, k)
    <3>1. at'[c][k] = "done" /\ Shown(k) = want[c][k]
          BY <1>t, <2>3 DEF Succeed, Goto, UpToDate
    <3> QED
        BY <1>w, <1>a, <1>q, <2>1, <2>2, <3>1 DEF KnowsOf, Setting
  <2>4. CASE /\ Continue(c, k, "add")
             /\ cleanup' = [cleanup EXCEPT ![c][k] = (op[c] = "set") \/ Specified(k)]
    <3>1. at'[c][k] = "add" /\ cleanup'[c][k] = ((op[c] = "set") \/ Specified(k))
          BY <1>t, <2>4 DEF Continue, Goto
    <3>2. ~cleanup'[c][k] => versions'[k] = << >>
          BY <2>2, <3>1 DEF Specified
    <3> QED
        BY <2>2, <3>1, <3>2 DEF KnowsOf
  <2> QED
      BY <1>3, <2>3, <2>4 DEF AccessValue
<1>4. CASE AddVersion(c, k)
  <2>1. UNCHANGED cleanup /\ at[c][k] = "add" /\ exists[k]
        BY <1>4, <1>s, <1>y DEF AddVersion, KnowsOf
  <2>2. k \in Asked(c) /\ op[c] # "delete"
        BY <1>q, <2>1 DEF Setting
  <2>3. Added(c, k) => at'[c][k] = IF cleanup[c][k] THEN "versions" ELSE "done"
        BY <1>t DEF Added, Continue, Goto
  <2>4. CASE ~HasPayload(c, k) /\ Undisturbed /\ Added(c, k)
             /\ before' = [before EXCEPT ![c][k] = LocalNow(c)]
    <3>1. before'[c][k] = clock + 1 + skew[c]
          BY <1>t, <2>4 DEF LocalNow
    <3>2. WantsEmpty(c, k) /\ ~WantsValue(c, k) /\ want[c][k] = Empty
          BY <2>2, <2>4 DEF HasPayload, WantsEmpty, WantsValue
    <3>3. /\ exists'[k] /\ versions'[k] = versions[k] /\ Enabled(k)' = Enabled(k)
          /\ Shown(k)' = Shown(k)
          BY <2>1, <2>4 DEF Undisturbed, storeVars, Enabled, Shown, Specified, Latest
    <3>4. skew[c] >= 0 => \A n \in Enabled(k)' : versions'[k][n].stamp < before'[c][k]
          BY <1>t, <3>1, <3>3, EnabledType
    <3>5. ~cleanup[c][k] => Shown(k)' = want'[c][k]
          BY <1>w, <1>s, <1>y, <2>1, <3>2, <3>3 DEF KnowsOf, Shown, Specified
    <3>6. skew' = skew /\ op' = op /\ cleanup' = cleanup
          BY <1>w, <2>1
    <3> QED
        BY <1>a, <2>2, <2>3, <2>4, <3>2, <3>3, <3>4, <3>5, <3>6 DEF KnowsOf
  <2>5. CASE HasPayload(c, k) /\ Add(c, k) /\ Added(c, k)
    <3>1. ~WantsEmpty(c, k)
          BY <2>2, <2>5 DEF HasPayload, WantsEmpty
    <3>2. exists'[k] /\ Shown(k)' = want'[c][k]
      <4>1. /\ versions'[k] # << >> /\ Latest(k)'.val = want[c][k] /\ Latest(k)'.enabled
            /\ exists'[k]
            BY <2>5, AddedLast
      <4> QED
          BY <1>w, <4>1 DEF Shown, Specified
    <3> QED
        BY <1>w, <1>a, <2>2, <2>3, <2>5, <3>1, <3>2 DEF KnowsOf
  <2> QED
      BY <1>4, <2>4, <2>5 DEF AddVersion
<1>5. CASE ListVersions(c, k)
  <2>1. /\ UNCHANGED <<cleanup, before>> /\ Undisturbed /\ at[c][k] = "versions"
        /\ doomed' = [doomed EXCEPT ![c][k] = Old(c, k)]
        /\ Continue(c, k, IF Old(c, k) = {} THEN "done" ELSE "destroy")
        BY <1>5 DEF ListVersions
  <2>2. doomed'[c][k] = Old(c, k) /\ at'[c][k] = IF Old(c, k) = {} THEN "done" ELSE "destroy"
    <3>1. Old(c, k) \in SUBSET (Nat \ {0})
          BY DEF Old, Enabled, TInv, TypeOK
    <3> QED
        BY <1>t, <2>1, <3>1 DEF Continue, Goto
  <2>3. k \in Asked(c) /\ op[c] # "delete"
        BY <1>q, <2>1 DEF Setting
  <2>4. /\ exists'[k] /\ versions'[k] = versions[k] /\ Enabled(k)' = Enabled(k)
        /\ Shown(k)' = Shown(k)
        BY <1>s, <1>y, <2>1 DEF Undisturbed, storeVars, Enabled, Shown, Specified, Latest, KnowsOf
  <2>5. WantsValue(c, k) => Shown(k)' = want'[c][k]
        BY <1>w, <1>s, <1>y, <2>1, <2>4 DEF KnowsOf
  <2>6. WantsEmpty(c, k) /\ skew[c] >= 0 => Enabled(k) = Old(c, k)
        BY <1>s, <1>y, <2>1 DEF KnowsOf, Old
  <2>7. WantsEmpty(c, k) /\ Enabled(k) = {} => Shown(k)' = want'[c][k]
        BY <1>w, <2>4, NoneEnabled DEF WantsEmpty
  <2>8. WantsEmpty(c, k) \/ WantsValue(c, k)
        BY <2>3 DEF WantsEmpty, WantsValue
  <2>9. skew' = skew /\ op' = op
        BY <1>w
  <2> QED
      BY <1>a, <2>2, <2>3, <2>4, <2>5, <2>6, <2>7, <2>8, <2>9 DEF KnowsOf
<1>6. CASE DestroyVersion(c, k)
  <2>1. at[c][k] = "destroy"
        BY <1>6 DEF DestroyVersion
  <2>2. PICK n \in doomed[c][k] :
            /\ doomed' = [doomed EXCEPT ![c][k] = @ \ {n}]
            /\ Destroy(c, k, n)
            /\ Continue(c, k, IF doomed[c][k] = {n} THEN "done" ELSE "destroy")
        BY <1>6 DEF DestroyVersion
  <2>3. /\ doomed'[c][k] = doomed[c][k] \ {n}
        /\ at'[c][k] = IF doomed[c][k] = {n} THEN "done" ELSE "destroy"
        BY <1>t, <2>2 DEF Continue, Goto
  <2>4. k \in Asked(c) /\ op[c] # "delete" /\ exists'[k]
        BY <1>q, <2>1, <2>2, Destroyed DEF Setting
  <2>5. WantsValue(c, k) => Shown(k)' = want'[c][k]
    <3> SUFFICES ASSUME WantsValue(c, k) PROVE Shown(k)' = want'[c][k]
        OBVIOUS
    <3>1. Shown(k) = want[c][k] /\ want[c][k] # Empty
          BY <1>s, <1>y, <2>1 DEF KnowsOf, WantsValue
    <3>2. Specified(k)
          BY <3>1 DEF Shown
    <3>3. n < Len(versions[k])
          BY <1>s, <1>y, <2>1 DEF CleansUp, LastOf, Trusts
    <3>4. Len(versions[k]) \in 1..Len(versions[k]) /\ Len(versions[k]) # n
          BY <3>2, <3>3, LatestType DEF Specified
    <3>5. Latest(k)' = Latest(k) /\ versions'[k] # << >>
      <4>1. Len(versions'[k]) = Len(versions[k])
            /\ versions'[k][Len(versions[k])] = versions[k][Len(versions[k])]
            BY <2>2, <3>4, Destroyed
      <4> QED
          BY <3>4, <4>1 DEF Latest
    <3> QED
        BY <1>w, <2>4, <3>1, <3>2, <3>5 DEF Shown, Specified
  <2>6. WantsEmpty(c, k) /\ skew[c] >= 0 => Enabled(k)' \subseteq doomed'[c][k]
        BY <1>s, <1>y, <2>1, <2>2, <2>3, Destroyed DEF KnowsOf
  <2>7. WantsEmpty(c, k) /\ Enabled(k)' = {} => Shown(k)' = want'[c][k]
    <3>1. versions'[k] \in Seq(Version)
          BY DEF TInv, TypeOK
    <3>2. Enabled(k)' = {} => Shown(k)' = Empty
          BY <3>1 DEF Shown, Specified, Latest, Enabled
    <3> QED
        BY <1>w, <3>2 DEF WantsEmpty
  <2>8. WantsEmpty(c, k) \/ WantsValue(c, k)
        BY <2>4 DEF WantsEmpty, WantsValue
  <2>9. skew' = skew /\ op' = op
        BY <1>w
  <2> QED
      BY <1>a, <2>3, <2>4, <2>5, <2>6, <2>7, <2>8, <2>9 DEF KnowsOf
<1>7. CASE DeleteSecret(c, k)
  <2>1. at[c][k] = "delete" /\ (k \notin Asked(c) \/ op[c] = "delete")
        BY <1>7, <1>s DEF DeleteSecret, ShapeOf
  <2>2. at'[c][k] \in {"return", "done"}
        BY <2>1, JobFlows DEF Flows, Setting, TInv
  <2>3. own'[c][k] \/ ~exists'[k]
    <3>1. CASE Delete(c, k) \/ (~exists[k] /\ Undisturbed)
          BY <1>t, <3>1 DEF Delete, Undisturbed, storeVars
    <3>2. CASE Deleted(c, k, TRUE)
          BY <1>t, <3>2 DEF Deleted
    <3> QED
        BY <1>7, <3>1, <3>2 DEF DeleteSecret
  <2>4. op' = op
        BY <1>w
  <2> QED
      BY <1>a, <2>1, <2>2, <2>3, <2>4 DEF KnowsOf
<1>8. CASE ReturnErr(c, k)
  <2>1. at[c][k] = "return" /\ (k \notin Asked(c) \/ op[c] = "delete")
        /\ UNCHANGED own /\ Undisturbed
        BY <1>8, <1>s DEF ReturnErr, ShapeOf
  <2>2. at'[c][k] \in {"return", "done"}
        BY <2>1, JobFlows DEF Flows, Setting, TInv
  <2>3. own'[c][k] \/ ~exists'[k]
        BY <1>s, <1>y, <2>1 DEF KnowsOf, Undisturbed, storeVars
  <2>4. op' = op
        BY <1>w
  <2> QED
      BY <1>a, <2>1, <2>2, <2>3, <2>4 DEF KnowsOf
<1> QED
    BY <1>1, <1>2, <1>3, <1>4, <1>5, <1>6, <1>7, <1>8 DEF JobStep

\* Its own steps keep the error of a job.
LEMMA OwnOwns ==
    ASSUME TInv, TInv', NEW c \in Clients, NEW k \in Keys, JobStep(c, k), OwnOf(c, k)
    PROVE  OwnOf(c, k)'
<1>w. Works(c, k) /\ Flows(c, k) /\ UNCHANGED <<pc, skew, op, want, reply>>
      BY JobSteps, JobFlows DEF Works, callVars, TInv
<1>a. Asked(c)' = Asked(c)
      BY <1>w DEF Asked
<1>t. /\ at \in [Clients -> [Keys -> Jobs]] /\ groupErr \in [Clients -> BOOLEAN]
      /\ own \in [Clients -> [Keys -> BOOLEAN]] /\ sharedErr \in [Clients -> BOOLEAN]
      /\ ShapeOf(c, k)
      BY DEF TInv, TypeOK, Shape
<1>o. OnlyDeletion(c, k)' => OnlyDeletion(c, k)
      BY <1>w, <1>a DEF OnlyDeletion, Works, SameJob
<1>1. CASE at[c][k] \in Setting
  <2>1. ~own[c][k]
        BY <1>1 DEF OwnOf, Setting
  <2>2. own' = own
        BY <1>1 DEF JobStep, GetSecret, CreateSecret, AccessValue, AddVersion, ListVersions,
                    DestroyVersion, DeleteSecret, ReturnErr, Running, Setting
  <2>3. at'[c][k] # "return"
        BY <1>1, <1>w DEF Flows, Setting
  <2> QED
      BY <2>1, <2>2, <2>3 DEF OwnOf
<1>2. CASE DeleteSecret(c, k)
  <2>1. PICK failed \in BOOLEAN : Deleted(c, k, failed)
        BY <1>2 DEF DeleteSecret
  <2>2. at[c][k] = "delete" /\ (k \notin Asked(c) \/ op[c] = "delete") /\ own'[c][k] = failed
        BY <1>2, <1>t, <2>1 DEF DeleteSecret, Running, Deleted, ShapeOf
  <2>3. CASE op[c] = "delete"
    <3>1. at'[c][k] = "done" /\ (failed => groupErr'[c])
          BY <1>t, <2>1, <2>3 DEF Deleted, FailJob, Succeed, Goto
    <3> QED
        BY <1>w, <2>2, <2>3, <3>1 DEF OwnOf
  <2>4. CASE op[c] # "delete"
    <3>1. at'[c][k] = "return" /\ sharedErr'[c] = failed
          BY <1>t, <2>1, <2>4 DEF Deleted, Continue, Goto
    <3> QED
        BY <1>w, <1>a, <2>2, <2>4, <3>1 DEF OwnOf
  <2> QED
      BY <2>3, <2>4
<1>3. CASE ReturnErr(c, k)
  <2>1. at[c][k] = "return" /\ UNCHANGED <<own, sharedErr>>
        /\ k \notin Asked(c) /\ op[c] = "replace"
        BY <1>3, <1>t DEF ReturnErr, Running, ShapeOf
  <2>2. PICK failed \in {own[c][k], sharedErr[c]} :
            IF failed THEN FailJob(c, k) ELSE Succeed(c, k)
        BY <1>3 DEF ReturnErr, Returned
  <2>3. at'[c][k] = "done" /\ (failed => groupErr'[c])
        BY <1>t, <2>2 DEF FailJob, Succeed, Goto
  <2>4. OnlyDeletion(c, k) => failed = own[c][k]
        BY <2>1, <2>2 DEF OwnOf
  <2> QED
      BY <1>w, <1>a, <1>o, <2>1, <2>3, <2>4 DEF OwnOf
<1> QED
    BY <1>1, <1>2, <1>3 DEF JobStep, GetSecret, CreateSecret, AccessValue, AddVersion,
                            ListVersions, DestroyVersion, Running, Setting

----------------------------------------------------------------------------
(* The steps of a call *)

\* A call that begins or has its list: its jobs are where the store says.
StartsJobs(c) ==
    /\ pc[c] \in {"idle", "list"} /\ reply'[c] = reply[c]
    /\ \A k \in Keys : /\ at[c][k] = "off" /\ at'[c][k] \in {"off", "get", "create", "access", "delete"}
                       /\ pc'[c] = "run" =>
                             /\ at'[c][k] = "off" /\ op'[c] = "replace" => ~exists[k]
                             /\ at'[c][k] = "create" => ~exists[k]
                             /\ at'[c][k] = "access" => exists[k]

\* A call that ends.
EndsJobs(c) ==
    /\ op'[c] = op[c] /\ want'[c] = want[c] /\ at'[c] = at[c] /\ pc'[c] = "ended"
    /\ reply'[c] = "ok" => pc[c] = "run" /\ ~groupErr[c] /\ \A k \in Keys : at[c][k] \in {"off", "done"}

\* A call that takes a step of its own begins, has its list or ends.
LEMMA CallDetails ==
    ASSUME TInv, NEW c \in Clients, Begin(c) \/ ListSecrets(c) \/ Finish(c) \/ Crash(c)
    PROVE  StartsJobs(c) \/ EndsJobs(c)
<1>t. /\ pc \in [Clients -> {"idle", "list", "run", "ended"}] /\ op \in [Clients -> Ops]
      /\ at \in [Clients -> [Keys -> Jobs]] /\ reply \in [Clients -> {"none", "ok", "error"}]
      /\ want \in [Clients -> Maps] /\ \A k \in Keys : ShapeOf(c, k)
      BY DEF TInv, TypeOK, Shape
<1>1. CASE Begin(c)
  <2>1. PICK r \in Requests :
          /\ op' = [op EXCEPT ![c] = r.op]
          /\ pc' = [pc EXCEPT ![c] = IF r.op = "replace" THEN "list" ELSE "run"]
          /\ at' = [at EXCEPT ![c] = [k \in Keys |->
                       IF r.op = "replace" \/ k \notin DOMAIN r.want THEN "off"
                       ELSE IF r.op = "set" THEN "get" ELSE "delete"]]
        BY <1>1 DEF Begin
  <2>2. pc[c] = "idle" /\ reply' = reply
        BY <1>1 DEF Begin
  <2>3. /\ op'[c] = r.op /\ pc'[c] = IF r.op = "replace" THEN "list" ELSE "run"
        /\ \A k \in Keys : at'[c][k] = IF r.op = "replace" \/ k \notin DOMAIN r.want THEN "off"
                                       ELSE IF r.op = "set" THEN "get" ELSE "delete"
        BY <1>t, <2>1
  <2>4. \A k \in Keys : at[c][k] = "off"
        BY <1>t, <2>2 DEF ShapeOf
  <2> QED
      BY <2>2, <2>3, <2>4 DEF StartsJobs
<1>2. CASE ListSecrets(c)
  <2>1. pc[c] = "list" /\ UNCHANGED <<op, want>>
        BY <1>2 DEF ListSecrets
  <2>2. CASE /\ at' = [at EXCEPT ![c] = [k \in Keys |-> Job(c, k)]]
             /\ pc' = [pc EXCEPT ![c] = "run"] /\ UNCHANGED reply
    <3>1. \A k \in Keys : at'[c][k] = Job(c, k) /\ at[c][k] = "off"
          BY <1>t, <2>1, <2>2 DEF ShapeOf
    <3> QED
        BY <1>t, <2>1, <2>2, <3>1 DEF StartsJobs, Job
  <2>3. CASE Return(c, "error") /\ UNCHANGED at
        BY <1>t, <2>1, <2>3 DEF EndsJobs, Return
  <2> QED
      BY <1>2, <2>2, <2>3 DEF ListSecrets
<1>3. CASE Finish(c)
  <2>1. /\ UNCHANGED <<op, want, at>> /\ pc[c] = "run" /\ \A k \in Keys : Over(c, k)
        /\ Return(c, IF groupErr[c] THEN "error" ELSE "ok")
        BY <1>3 DEF Finish
  <2>2. pc'[c] = "ended" /\ reply'[c] = IF groupErr[c] THEN "error" ELSE "ok"
        BY <1>t, <2>1 DEF Return
  <2> QED
      BY <2>1, <2>2 DEF EndsJobs, Over
<1>4. CASE Crash(c)
      BY <1>4, <1>t DEF Crash, Return, EndsJobs
<1> QED
    BY <1>1, <1>2, <1>3, <1>4

\* None of these disturbs what the jobs rely on.
LEMMA CallInv ==
    ASSUME TInv, NEW c \in Clients, Begin(c) \/ ListSecrets(c) \/ Finish(c) \/ Crash(c),
           \A d \in Clients, k \in Keys : JobInv(d, k),
           \A d \in Clients : EndOf(d)
    PROVE  /\ \A d \in Clients, k \in Keys : JobInv(d, k)'
           /\ \A d \in Clients : EndOf(d)'
<1>d. Directs(c) /\ UNCHANGED <<storeVars, skew, valueVars, errVars, ghosts>>
      BY CallSteps DEF Directs
<1>c. StartsJobs(c) \/ EndsJobs(c)
      BY CallDetails
<1>u. UNCHANGED <<exists, versions, clock, skew, cleanup, before, doomed, own,
                  sharedErr, groupErr, disturbed, deleted>>
      BY <1>d DEF storeVars, valueVars, errVars, ghosts
<1>s. \A d \in Clients, k \in Keys : ShapeOf(d, k)
      BY DEF TInv, Shape
<1>0. \A d \in Clients, k \in Keys : BeforeOf(d, k) /\ CleanOf(d, k) /\ LastOf(d, k)
                                     /\ KnowsOf(d, k) /\ OwnOf(d, k)
      BY DEF JobInv, CleansUp
<1>k. \A k \in Keys : /\ Enabled(k)' = Enabled(k) /\ Shown(k)' = Shown(k) /\ Latest(k)' = Latest(k)
      BY <1>u DEF Enabled, Shown, Specified, Latest
\* The calls of the other clients, and one that ends, keep their jobs.
<1>1. ASSUME NEW d \in Clients, op'[d] = op[d], want'[d] = want[d],
             \A k \in Keys : at'[d][k] = at[d][k],
             pc'[d] = "run" => pc[d] = "run",
             reply'[d] = "ok" => reply[d] = "ok" \/ (pc[d] = "run" /\ ~groupErr[d])
      PROVE  \A k \in Keys : JobInv(d, k)'
  <2> TAKE k \in Keys
  <2>a. /\ WantsEmpty(d, k)' <=> WantsEmpty(d, k)
        /\ WantsValue(d, k)' <=> WantsValue(d, k)
        /\ Asked(d)' = Asked(d)
        BY <1>1 DEF WantsEmpty, WantsValue, Asked
  <2>1. BeforeOf(d, k)'
        BY <1>0, <1>u, <1>1, <2>a DEF BeforeOf
  <2>2. CleanOf(d, k)'
        BY <1>0, <1>u, <1>1, <1>k, <2>a DEF CleanOf, MayStay
  <2>3. LastOf(d, k)'
        BY <1>0, <1>u, <1>1, <1>k, <2>a DEF LastOf
  <2>4. KnowsOf(d, k)'
    <3>1. Trusts(d)' => Trusts(d)
          BY <1>u, <1>1 DEF Trusts
    <3> QED
        BY <1>0, <1>u, <1>1, <1>k, <2>a, <3>1 DEF KnowsOf
  <2>5. OwnOf(d, k)'
    <3>1. OnlyDeletion(d, k)' <=> OnlyDeletion(d, k)
          BY <1>1, <2>a DEF OnlyDeletion
    <3> QED
        BY <1>0, <1>u, <1>1, <2>a, <3>1 DEF OwnOf
  <2> QED
      BY <2>1, <2>2, <2>3, <2>4, <2>5 DEF JobInv, CleansUp
<1>2. ASSUME NEW d \in Clients \ {c}
      PROVE  (\A k \in Keys : JobInv(d, k)') /\ EndOf(d)'
  <2>1. /\ pc'[d] = pc[d] /\ op'[d] = op[d] /\ want'[d] = want[d] /\ reply'[d] = reply[d]
        /\ \A k \in Keys : at'[d][k] = at[d][k]
        BY <1>d DEF Directs
  <2>2. EndOf(d)'
        BY <1>u, <2>1 DEF EndOf
  <2> QED
      BY <1>1, <2>1, <2>2
<1>3. CASE EndsJobs(c)
  <2>1. EndOf(c)'
        BY <1>u, <1>3 DEF EndOf, EndsJobs
  <2>2. \A k \in Keys : JobInv(c, k)'
        BY <1>1, <1>3 DEF EndsJobs
  <2> QED
      BY <1>2, <2>1, <2>2
<1>4. CASE StartsJobs(c)
  <2>1. ASSUME NEW k \in Keys
        PROVE  JobInv(c, k)' /\ ~(reply'[c] = "ok")
    <3>1. /\ pc[c] \in {"idle", "list"} /\ reply'[c] # "ok"
          /\ at[c][k] = "off" /\ at'[c][k] \in {"off", "get", "create", "access", "delete"}
          /\ pc'[c] = "run" =>
                /\ at'[c][k] = "off" /\ op'[c] = "replace" => ~exists[k]
                /\ at'[c][k] = "create" => ~exists[k]
                /\ at'[c][k] = "access" => exists[k]
          BY <1>4, <1>s DEF StartsJobs, ShapeOf
    <3>2. before'[c][k] = 0 /\ ~own'[c][k]
          BY <1>0, <1>u, <3>1 DEF BeforeOf, Starting, OwnOf
    <3>3. BeforeOf(c, k)' /\ CleanOf(c, k)' /\ LastOf(c, k)'
          BY <3>1, <3>2 DEF BeforeOf, CleanOf, LastOf
    <3>4. KnowsOf(c, k)' /\ OwnOf(c, k)'
          BY <1>u, <3>1, <3>2 DEF KnowsOf, Trusts, OwnOf
    <3> QED
        BY <3>1, <3>3, <3>4 DEF JobInv, CleansUp
  <2>2. EndOf(c)'
        BY <1>u, <1>4, <2>1 DEF EndOf, StartsJobs
  <2> QED
      BY <1>2, <2>1, <2>2
<1> QED
    BY <1>c, <1>3, <1>4

----------------------------------------------------------------------------
(* The invariant and what it is for *)

\* The first states have the invariant, and every step keeps it.
LEMMA InitInv == Init => SInv
<1> SUFFICES ASSUME Init PROVE SInv
    OBVIOUS
<1>1. TInv
      BY InitType
<1>2. ASSUME NEW c \in Clients
      PROVE  /\ pc[c] = "idle" /\ reply[c] = "none"
             /\ \A k \in Keys : at[c][k] = "off" /\ before[c][k] = 0 /\ own[c][k] = FALSE
      BY DEF Init, PerJob
<1>3. ASSUME NEW c \in Clients, NEW k \in Keys
      PROVE  BeforeOf(c, k) /\ CleanOf(c, k) /\ LastOf(c, k) /\ KnowsOf(c, k) /\ OwnOf(c, k)
      BY <1>2 DEF BeforeOf, CleanOf, LastOf, KnowsOf, Trusts, OwnOf
<1>4. ASSUME NEW c \in Clients PROVE EndOf(c)
      BY <1>2 DEF EndOf
<1> QED
    BY <1>1, <1>3, <1>4 DEF SInv, Befores, Cleans, Lasts, Ends, Knows, Owns

LEMMA NextInv == SInv /\ [Next]_vars => SInv'
<1> SUFFICES ASSUME SInv, [Next]_vars PROVE SInv'
    OBVIOUS
<1>t. TInv /\ TInv'
      BY NextType DEF SInv
<1>0. /\ \A d \in Clients, k \in Keys : JobInv(d, k)
      /\ \A d \in Clients : EndOf(d)
      BY DEF SInv, Befores, Cleans, Lasts, Ends, Knows, Owns, JobInv, CleansUp
<1> SUFFICES /\ \A d \in Clients, k \in Keys : JobInv(d, k)'
             /\ \A d \in Clients : EndOf(d)'
    BY <1>t DEF SInv, Befores, Cleans, Lasts, Ends, Knows, Owns, JobInv, CleansUp
<1>1. ASSUME NEW c \in Clients, Begin(c) \/ ListSecrets(c) \/ Finish(c) \/ Crash(c)
      PROVE  /\ \A d \in Clients, k \in Keys : JobInv(d, k)'
             /\ \A d \in Clients : EndOf(d)'
      BY <1>t, <1>0, <1>1, CallInv
<1>2. ASSUME NEW c \in Clients, NEW k \in Keys, JobStep(c, k)
      PROVE  /\ \A d \in Clients, j \in Keys : JobInv(d, j)'
             /\ \A d \in Clients : EndOf(d)'
  <2>1. Works(c, k) /\ Flows(c, k)
        BY <1>t, <1>2, JobSteps, JobFlows DEF TInv
  <2>2. JobInv(c, k)'
        BY <1>t, <1>0, <1>2, OwnCleans, OwnKnows, OwnOwns DEF JobInv
  <2>3. ASSUME NEW d \in Clients, NEW j \in Keys, d # c \/ j # k
        PROVE  JobInv(d, j)'
        BY <1>t, <1>0, <2>1, <2>3, OtherCleans, OtherKnows DEF JobInv
  <2>4. ASSUME NEW d \in Clients PROVE EndOf(d)'
    <3>1. CASE d = c
      <4>1. reply'[c] = reply[c] /\ reply[c] # "ok"
        <5>1. pc[c] = "run" /\ reply' = reply
              BY <2>1 DEF Works, callVars
        <5> QED
            BY <1>t, <5>1 DEF TInv, Shape, ShapeOf
      <4> QED
          BY <3>1, <4>1 DEF EndOf
    <3>2. CASE d # c
      <4>1. /\ reply' = reply /\ groupErr'[d] = groupErr[d]
            /\ \A j \in Keys : at'[d][j] = at[d][j]
            BY <2>1, <3>2 DEF Works, callVars, SameJob
      <4> QED
          BY <1>0, <4>1 DEF EndOf
    <3> QED
        BY <3>1, <3>2
  <2> QED
      BY <2>2, <2>3, <2>4
<1>3. CASE UNCHANGED vars
  <2>1. UNCHANGED <<exists, versions, clock, pc, skew, op, want, reply, at, cleanup, before,
                    doomed, own, sharedErr, groupErr, disturbed, deleted>>
        BY <1>3 DEF vars, storeVars, callVars, valueVars, errVars, ghosts
  <2>2. ASSUME NEW d \in Clients, NEW k \in Keys PROVE JobInv(d, k)'
    <3>1. BeforeOf(d, k)' /\ OwnOf(d, k)'
          BY <1>0, <2>1 DEF JobInv, CleansUp, BeforeOf, OwnOf, OnlyDeletion, WantsEmpty, Asked
    <3>2. CleanOf(d, k)' /\ LastOf(d, k)'
          BY <1>0, <2>1 DEF JobInv, CleansUp, CleanOf, LastOf, MayStay, WantsEmpty, WantsValue,
                            Asked, Latest, Enabled
    <3>3. KnowsOf(d, k)'
          BY <1>0, <2>1 DEF JobInv, KnowsOf, Trusts, WantsEmpty, WantsValue, Asked, Latest,
                            Enabled, Shown, Specified
    <3> QED
        BY <3>1, <3>2, <3>3 DEF JobInv, CleansUp
  <2>3. ASSUME NEW d \in Clients PROVE EndOf(d)'
        BY <1>0, <2>1 DEF EndOf
  <2> QED
      BY <2>2, <2>3
<1> QED
    BY <1>1, <1>2, <1>3 DEF Next, Terminated

\* What the jobs rely on holds in every state.
THEOREM Inductive == Spec => []SInv
BY InitInv, NextInv, PTL DEF Spec

\* A clean-up that ends well has left no readable version older than its own.
THEOREM Cleanups == Spec => []CleanupComplete
<1>1. SInv => CleanupComplete
  <2> SUFFICES ASSUME SInv, NEW c \in Clients, NEW k \in Keys, Cleaned(c, k),
                      NEW n \in Enabled(k)
               PROVE  \/ versions[k][n].stamp >= before[c][k]
                      \/ want[c][k] = Empty /\ versions[k][n].stamp >= before[c][k] - skew[c]
      BY DEF CleanupComplete
  <2>1. ~groupErr[c]
        BY DEF SInv, Ends, EndOf, Cleaned
  <2>2. MayStay(c, k, n)
        BY <2>1 DEF SInv, Cleans, CleanOf, Cleaned
  <2> QED
      BY <2>2 DEF MayStay, WantsEmpty
<1> QED
    BY <1>1, Inductive, PTL

\* An ok answer means what it says.
THEOREM Answers == Spec => []AnswerHolds
<1>1. SInv => AnswerHolds
  <2> SUFFICES ASSUME SInv, NEW c \in Clients, reply[c] = "ok", ~disturbed[c], ~Doubtful(c)
               PROVE  /\ op[c] = "delete" => \A k \in Asked(c) : ~exists[k]
                      /\ op[c] = "set" => \A k \in Asked(c) : Shown(k) = want[c][k]
                      /\ op[c] = "replace" =>
                            \A k \in Keys : IF k \in Asked(c)
                                              THEN exists[k] /\ Shown(k) = want[c][k]
                                              ELSE ~exists[k]
    <3>1. SInv => \A c \in Clients : op[c] \in {"set", "delete", "replace"}
          BY DEF SInv, TInv, TypeOK, Ops
    <3>2. ASSUME NEW x, NEW y, NEW z, NEW o, o \in {"set", "delete", "replace"},
                 o = "delete" => x, o = "set" => y, o = "replace" => z
          PROVE  CASE o = "delete" -> x [] o = "set" -> y [] o = "replace" -> z
          BY <3>2
    <3> QED
        BY <3>1, <3>2 DEF AnswerHolds
  <2>1. ~groupErr[c] /\ (\A k \in Keys : at[c][k] \in {"off", "done"}) /\ Trusts(c)
        BY DEF SInv, Ends, EndOf, Trusts
  <2>2. \A k \in Keys : KnowsOf(c, k) /\ OwnOf(c, k) /\ ShapeOf(c, k)
        BY DEF SInv, Knows, Owns, TInv, Shape
  <2>3. Asked(c) \subseteq Keys
        BY MapType DEF SInv, TInv, Shape, Asked
  <2>4. skew[c] \in Int
    <3>1. skew[c] \in Skews
          BY DEF SInv, TInv, TypeOK
    <3> QED
        BY <3>1, SecretsAssumption
  <2>5. \A k \in Asked(c) : at[c][k] = "done"
        BY <2>1, <2>2, <2>3 DEF ShapeOf
  <2>6. ASSUME op[c] # "delete", NEW k \in Asked(c)
        PROVE  exists[k] /\ Shown(k) = want[c][k]
    <3>1. WantsValue(c, k) \/ skew[c] >= 0
          BY <2>4 DEF Doubtful, WantsValue
    <3> QED
        BY <2>1, <2>2, <2>3, <2>5, <2>6, <3>1 DEF KnowsOf
  <2>7. ASSUME op[c] = "delete", NEW k \in Asked(c)
        PROVE  ~exists[k]
        BY <2>1, <2>2, <2>3, <2>5, <2>7 DEF KnowsOf, OwnOf
  <2>8. ASSUME op[c] = "replace", NEW k \in Keys \ Asked(c)
        PROVE  ~exists[k]
    <3>1. CASE at[c][k] = "off"
          BY <2>1, <2>2, <2>8, <3>1 DEF KnowsOf
    <3>2. CASE at[c][k] = "done" /\ ~own[c][k]
          BY <2>1, <2>2, <2>8, <3>2 DEF KnowsOf
    <3>3. CASE at[c][k] = "done" /\ own[c][k]
      <4> DEFINE D == {j \in Keys \ Asked(c) : at[c][j] # "off"}
      <4>1. ~(Cardinality(D) > 1)
            BY <2>8, <3>3 DEF Doubtful
      <4>2. k \in D /\ IsFiniteSet(D) /\ Cardinality(D) \in Nat
        <5>1. k \in D /\ D \subseteq Keys
              BY <3>3
        <5> HIDE DEF D
        <5>2. IsFiniteSet(D)
              BY <5>1, FS_Subset, SecretsAssumption
        <5> QED
            BY <5>1, <5>2, FS_CardinalityType
      <4>3. D = {k}
        <5> SUFFICES ASSUME NEW j \in D, j # k PROVE FALSE
            BY <4>2
        <5> HIDE DEF D
        <5>1. {j, k} \subseteq D
              BY <4>2
        <5>2. IsFiniteSet({j, k}) /\ Cardinality({j, k}) = 2
          <6>1. IsFiniteSet({k}) /\ Cardinality({k}) = 1
                BY FS_Singleton
          <6>2. j \notin {k} /\ {k} \cup {j} = {j, k}
                OBVIOUS
          <6> QED
              BY <6>1, <6>2, FS_AddElement
        <5>3. Cardinality({j, k}) <= Cardinality(D)
              BY <4>2, <5>1, FS_Subset
        <5> QED
            BY <4>1, <4>2, <5>2, <5>3
      <4>4. OnlyDeletion(c, k)
            BY <2>8, <4>3 DEF OnlyDeletion
      <4> QED
          BY <2>1, <2>2, <3>3, <4>4 DEF OwnOf
    <3> QED
        BY <2>1, <3>1, <3>2, <3>3
  <2> QED
      BY <2>6, <2>7, <2>8
<1> QED
    BY <1>1, Inductive, PTL

\* Unless somebody wants it empty or gone, a current value is not lost.
THEOREM ValuesStay == Spec => NoValueLost
<1> DEFINE Kept == \A k \in Keys :
          (Shown(k) # Empty /\ k \notin deleted /\ Shown(k)' = Empty)
              => \E c \in Clients : at[c][k] \in {"delete", "destroy"} /\ Unwanted(c, k)
<1>1. SInv /\ [Next]_vars => Kept \/ UNCHANGED vars
  <2> SUFFICES ASSUME SInv, [Next]_vars, NEW k \in Keys, Shown(k) # Empty, k \notin deleted,
                      Shown(k)' = Empty,
                      \A c \in Clients : ~(at[c][k] \in {"delete", "destroy"} /\ Unwanted(c, k))
               PROVE  FALSE
      OBVIOUS
  <2>t. TInv /\ versions \in [Keys -> Seq(Version)] /\ exists \in [Keys -> BOOLEAN]
        BY DEF SInv, TInv, TypeOK
  <2>s. /\ exists[k] /\ versions[k] # << >> /\ Latest(k).enabled
        BY DEF Shown, Specified
  <2>0. ASSUME exists'[k], versions'[k] = versions[k] PROVE FALSE
        BY <2>0, <2>s DEF Shown, Specified, Latest
  <2>1. ASSUME NEW c \in Clients, Begin(c) \/ ListSecrets(c) \/ Finish(c) \/ Crash(c)
        PROVE  FALSE
    <3>1. Directs(c)
          BY <2>t, <2>1, CallSteps
    <3> QED
        BY <2>0, <2>s, <3>1 DEF Directs, storeVars
  <2>2. ASSUME NEW c \in Clients, NEW j \in Keys, JobStep(c, j) PROVE FALSE
    <3>1. Changes(c, j)
          BY <2>t, <2>2, JobSteps DEF Works
    <3>2. CASE j # k
          BY <2>0, <2>s, <2>t, <3>1, <3>2, ChangesType
    <3>3. CASE Undisturbed
          BY <2>0, <2>s, <3>3 DEF Undisturbed, storeVars
    <3>4. CASE j = k /\ Create(c, k)
          BY <2>s, <3>4 DEF Create
    <3>5. CASE j = k /\ at[c][k] = "add" /\ HasPayload(c, k) /\ Add(c, k)
      <4>1. /\ versions'[k] # << >> /\ Latest(k)'.val = want[c][k] /\ Latest(k)'.enabled
            /\ exists'[k]
            BY <2>t, <3>5, AddedLast
      <4> QED
          BY <3>5, <4>1 DEF Shown, Specified, HasPayload
    <3>6. ASSUME j = k, NEW n \in doomed[c][k], at[c][k] = "destroy", Destroy(c, k, n)
          PROVE  FALSE
      <4>1. WantsValue(c, k)
        <5>1. ~Unwanted(c, k) /\ ShapeOf(c, k)
              BY <2>t, <3>6 DEF TInv, Shape
        <5> QED
            BY <3>6, <5>1 DEF Unwanted, WantsValue, ShapeOf
      <4>2. n < Len(versions[k])
            BY <3>6, <4>1 DEF SInv, Lasts, LastOf
      <4>3. Len(versions[k]) \in 1..Len(versions[k]) /\ Len(versions[k]) # n
            BY <2>s, <2>t, <4>2, LatestType
      <4>4. /\ Len(versions'[k]) = Len(versions[k]) /\ exists'[k]
            /\ versions'[k][Len(versions[k])] = versions[k][Len(versions[k])]
        <5>1. /\ Len(versions'[k]) = Len(versions[k]) /\ exists' = exists /\ exists[k]
              /\ \A m \in 1..Len(versions[k]) : m # n => versions'[k][m] = versions[k][m]
              BY <2>t, <3>6, Destroyed
        <5> QED
            BY <4>3, <5>1
      <4>5. Latest(k)' = Latest(k) /\ versions'[k] # << >>
            BY <4>3, <4>4 DEF Latest
      <4> QED
          BY <2>s, <4>4, <4>5 DEF Shown, Specified
    <3>7. CASE j = k /\ at[c][k] = "delete"
      <4>1. ShapeOf(c, k)
            BY <2>t DEF TInv, Shape
      <4> QED
          BY <3>7, <4>1 DEF Unwanted, ShapeOf
    <3> QED
        BY <3>1, <3>2, <3>3, <3>4, <3>5, <3>6, <3>7 DEF Changes
  <2>3. CASE UNCHANGED vars
        BY <2>0, <2>s, <2>3 DEF vars, storeVars
  <2> QED
      BY <2>1, <2>2, <2>3 DEF Next, Terminated
<1>2. SInv /\ [Next]_vars => [Kept]_vars
      BY <1>1
<1> QED
    BY <1>2, Inductive, PTL DEF Spec, NoValueLost
=============================================================================
