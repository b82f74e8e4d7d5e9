-------------------------- MODULE DeploymentProofs --------------------------
(***************************************************************************)
(* Safety of Deployment for every set of apps, versions, builds and APIs,  *)
(* and any bound on faults and changes.                                    *)
(***************************************************************************)
EXTENDS Deployment, TLAPS

\* What settings a state holds was put into a map that had been made.
Made(s) == s.settings \/ s.apis => s.other = "made"

\* A record is true of its app: the service is set to what it says, and runs it
\* if it says so; and unless a push failed unseen the image is the one its source
\* builds, is in the repository, and has the tag, if anything has.
Accurate(a, r) ==
    /\ spec[a] = r.service
    /\ r.ready => serving[a] = spec[a]
    /\ a \notin unseen =>
          /\ tag[a] \in {r.image, None}
          /\ r.image # None => r.image \in repo[a]
          /\ r.src # None => r.image = Digest[r.src]

\* A call's registry is true of every app whose record was never lost, and so
\* is the host's between calls and during a Plan.
Tracks ==
    \A a \in Apps \ lost :
        /\ pc # "idle" => Accurate(a, reg[a])
        /\ pc = "idle" \/ mode = "plan" => Accurate(a, held.registry[a])

\* Until it is read or applied, a call's registry is the one the host sent.
Loaded ==
    /\ pc \in {"idle", "run", "save"} \/ reg = held.registry
    /\ pc # "idle" => st.registry = held.registry
    /\ pc = "run" => mode = "apply"

\* What is left of an old image is not the new one, which is that of the
\* version wanted; and nothing is left before the registry is applied.
Replaced ==
    \A a \in Apps :
        (pc # "idle" /\ old[a] # None)
            => /\ pc = "run" /\ wanted[a] # None /\ reg[a].src = wanted[a]
               /\ old[a] # reg[a].image

\* The registry is applied until nothing is due.
Finished ==
    /\ pc = "save" /\ mode = "apply" =>
          \A a \in Apps : old[a] = None /\ (a \in failed \/ ~Due(a))
    /\ answer = "ok" => pc = "idle"

Told == Tracks /\ Loaded /\ Replaced /\ Finished /\ OkMeansDeployed
DInv == TypeOK /\ Made(st) /\ Told

-----------------------------------------------------------------------------
(* Types.                                                                  *)

\* The initial state has the right types.
LEMMA InitType == Init => TypeOK /\ Made(st)
<1> SUFFICES ASSUME Init PROVE TypeOK /\ Made(st)
    OBVIOUS
<1> USE DEF Init, TypeOK, DeploymentAssumption
<1>1. wanted \in [Apps -> Versions \cup {None}]
      OBVIOUS
<1>2. [a \in Apps |-> Nothing] \in [Apps -> Records]
      BY DEF Nothing, Records
<1>3. held \in States /\ st \in States /\ reg \in [Apps -> Records]
  <2>1. PICK o \in {"nil", "made"} :
            held = [other |-> o, settings |-> FALSE, apis |-> FALSE,
                    registry |-> [a \in Apps |-> Nothing]]
        OBVIOUS
  <2>2. held.registry = [a \in Apps |-> Nothing]
        BY <2>1
  <2>3. held \in States
        BY <1>2, <2>1 DEF States
  <2> QED
      BY <1>2, <2>2, <2>3
<1>6. /\ repo \in [Apps -> SUBSET Digests] /\ tag \in [Apps -> Digests \cup {None}]
      /\ spec \in [Apps -> Digests \cup {None}]
      /\ serving \in [Apps -> Digests \cup {None}] /\ old \in [Apps -> Digests \cup {None}]
      /\ \A a \in Apps : tag[a] = None /\ serving[a] = None
      OBVIOUS
<1>4. faults \in 0..MaxFaults /\ changes \in 0..MaxChanges
      BY DeploymentAssumption
<1>5. ~held.settings /\ ~held.apis /\ st = held
      OBVIOUS
<1> QED
    BY <1>1, <1>3, <1>4, <1>5, <1>6 DEF Made

\* A fault leaves the count within its bound.
LEMMA FaultType == TypeOK /\ Fault => faults' \in 0..MaxFaults
BY DeploymentAssumption DEF TypeOK, Fault

\* A version that is wanted builds one of the images.
LEMMA DigestType ==
    ASSUME TypeOK, NEW a \in Apps, wanted[a] # None
    PROVE  wanted[a] \in Versions /\ Digest[wanted[a]] \in Digests /\ Digest[wanted[a]] # None
<1>1. wanted[a] \in Versions
      BY DEF TypeOK
<1> QED
    BY <1>1, DeploymentAssumption DEF Digests

\* The fields of a record, and of a state.
LEMMA RecordType ==
    ASSUME NEW a \in Apps, TypeOK
    PROVE  /\ reg[a] \in Records
           /\ reg[a].src \in Versions \cup {None}
           /\ reg[a].image \in Digests \cup {None}
           /\ reg[a].service \in Digests \cup {None}
           /\ reg[a].src # None => reg[a].image # None
BY DEF TypeOK, Records

\* What a push makes of a record.
Renewed(r, v, d) == [[r EXCEPT !.src = v] EXCEPT !.image = d]
LEMMA RenewedRecord ==
    ASSUME NEW r \in Records, NEW v \in Versions, NEW d \in Digests, d # None
    PROVE  /\ Renewed(r, v, d) \in Records
           /\ Renewed(r, v, d).src = v /\ Renewed(r, v, d).image = d
           /\ Renewed(r, v, d).service = r.service
           /\ Renewed(r, v, d).ready = r.ready
<1> DEFINE R == [src : Versions \cup {None}, image : Digests \cup {None},
                service : Digests \cup {None}, ready : BOOLEAN]
           q == [r EXCEPT !.src = v]
           p == [q EXCEPT !.image = d]
<1>1. q \in R /\ q.src = v /\ q.service = r.service /\ q.ready = r.ready
      BY DEF Records
<1>2. Renewed(r, v, d) = p
      BY DEF Renewed
<1> HIDE DEF q
<1>3. p \in R /\ p.src = v /\ p.image = d /\ p.service = r.service /\ p.ready = r.ready
      BY <1>1
<1> HIDE DEF p
<1>4. p \in Records
      BY <1>3 DEF Records
<1> QED
    BY <1>2, <1>3, <1>4

\* A push, seen from the registry.
LEMMA PushRecords ==
    ASSUME TypeOK, NEW a \in Apps, PushDue(a), OnRecord(a)
    PROVE  /\ reg' \in [Apps -> Records]
           /\ \A b \in Apps \ {a} : reg'[b] = reg[b] /\ old'[b] = old[b]
           /\ reg'[a].src = wanted[a] /\ reg'[a].image = Digest[wanted[a]]
           /\ reg'[a].service = reg[a].service /\ reg'[a].ready = reg[a].ready
           /\ old' \in [Apps -> Digests \cup {None}]
           /\ old'[a] # None => old'[a] # reg'[a].image
<1>1. reg[a] \in Records /\ reg \in [Apps -> Records]
      BY RecordType DEF TypeOK
<1>2. wanted[a] \in Versions /\ Digest[wanted[a]] \in Digests /\ Digest[wanted[a]] # None
      BY DigestType DEF PushDue
<1>3. reg' = [reg EXCEPT ![a] = Renewed(@, wanted[a], Digest[wanted[a]])]
      BY DEF OnRecord, Renewed
<1>4. reg'[a] = Renewed(reg[a], wanted[a], Digest[wanted[a]])
      BY <1>1, <1>3
<1>5. /\ reg'[a] \in Records
      /\ reg'[a].src = wanted[a] /\ reg'[a].image = Digest[wanted[a]]
      /\ reg'[a].service = reg[a].service /\ reg'[a].ready = reg[a].ready
      BY <1>1, <1>2, <1>4, RenewedRecord
<1>6. reg' \in [Apps -> Records] /\ \A b \in Apps \ {a} : reg'[b] = reg[b]
      BY <1>1, <1>3, <1>4, <1>5
<1>7. old' = [old EXCEPT ![a] = OldDigest(a)] /\ old \in [Apps -> Digests \cup {None}]
      BY DEF OnRecord, TypeOK
<1>8. OldDigest(a) \in Digests \cup {None} /\ OldDigest(a) # Digest[wanted[a]]
      BY <1>2, RecordType DEF OldDigest
<1> QED
    BY <1>5, <1>6, <1>7, <1>8

\* A service that is set to run an image, or is gone, on record.
LEMMA ServiceRecords ==
    ASSUME TypeOK, NEW a \in Apps, NEW d \in Digests \cup {None}, NEW b \in BOOLEAN,
           reg' = [reg EXCEPT ![a].service = d, ![a].ready = b]
    PROVE  /\ reg' \in [Apps -> Records]
           /\ \A c \in Apps \ {a} : reg'[c] = reg[c]
           /\ reg'[a].src = reg[a].src /\ reg'[a].image = reg[a].image
           /\ reg'[a].service = d /\ reg'[a].ready = b
<1> DEFINE R == [src : Versions \cup {None}, image : Digests \cup {None},
                service : Digests \cup {None}, ready : BOOLEAN]
           q == [reg[a] EXCEPT !.service = d]
           p == [q EXCEPT !.ready = b]
<1>1. reg[a] \in R /\ reg \in [Apps -> Records]
      BY RecordType DEF TypeOK, Records
<1>2. q \in R /\ q.src = reg[a].src /\ q.image = reg[a].image /\ q.service = d
      BY <1>1
<1>3. reg' = [reg EXCEPT ![a] = p]
      BY <1>1
<1> HIDE DEF q
<1>4. p \in R /\ p.src = reg[a].src /\ p.image = reg[a].image /\ p.service = d /\ p.ready = b
      BY <1>2
<1> HIDE DEF p
<1>5. p \in Records
      BY <1>4, RecordType DEF Records
<1> QED
    BY <1>1, <1>3, <1>4, <1>5

\* Every step keeps the types: one step per step of a call.
LEMMA NextType == TypeOK /\ Made(st) /\ [Next]_vars => TypeOK' /\ Made(st)'
<1> SUFFICES ASSUME TypeOK, Made(st), [Next]_vars PROVE TypeOK' /\ Made(st)'
    OBVIOUS
<1> USE DEF TypeOK, Made, Goto, host, cloud, call, ghost
<1>d. ASSUME Die, UNCHANGED faults \/ Fault PROVE TypeOK' /\ Made(st)'
      BY <1>d, FaultType DEF Die, Unlearned
<1>g. ASSUME NEW l \in {"idle", "url", "temp", "suffix", "apis", "diff", "run", "save", "error"},
             Goto(l), UNCHANGED <<host, repo, tag, spec, serving, mode, st, reg, old, failed,
                                  answer, ghost>>,
             apis' = apis, temp' \in BOOLEAN, UNCHANGED faults \/ Fault
      PROVE  TypeOK' /\ Made(st)'
      BY <1>g, FaultType
<1>1. CASE Call
  <2>1. held.registry \in [Apps -> Records]
        BY DEF States
  <2> QED
      BY <1>1, <2>1 DEF Call
<1>2. CASE Crash
      BY <1>2, <1>d DEF Crash
<1>3. CASE Url \/ CreateTemporary \/ DeleteTemporary \/ Refused
      BY <1>3, <1>g DEF Url, CreateTemporary, DeleteTemporary, Refused
<1>4. CASE Suffix
  <2>1. CASE Die
        BY <1>4, <2>1, <1>d DEF Suffix
  <2>2. CASE st.other # "nil" /\ Goto("apis") /\ st' = [st EXCEPT !.settings = TRUE]
             /\ UNCHANGED <<host, cloud, mode, reg, old, failed, answer, ghost>>
    <3>1. st' \in States /\ st'.other = "made"
          BY <2>2 DEF States
    <3> QED
        BY <1>4, <2>2, <3>1 DEF Suffix
  <2> QED
      BY <1>4, <2>1, <2>2 DEF Suffix
<1>5. CASE APIsRecorded
  <2>1. st' \in States /\ st'.other = "made"
        BY <1>5 DEF APIsRecorded, States
  <2> QED
      BY <1>5, <2>1 DEF APIsRecorded
<1>6. ASSUME NEW x \in APIs, EnableAPI(x) PROVE TypeOK' /\ Made(st)'
      BY <1>6 DEF EnableAPI
<1>7. CASE Diff
  <2>1. ASSUME NEW a \in Apps PROVE ReadApp(a) \in Records
    <3>1. reg[a].src \in Versions \cup {None} /\ tag[a] \in Digests \cup {None}
          /\ spec[a] \in Digests \cup {None}
          BY RecordType
    <3> QED
        BY <3>1 DEF ReadApp, Records
  <2>2. reg' \in [Apps -> Records]
        BY <1>7, <2>1 DEF Diff
  <2> QED
      BY <1>7, <2>2 DEF Diff
<1>8. CASE RunEnds
      BY <1>8 DEF RunEnds
<1>9. CASE Answer
  <2>1. Saved \in States
        BY DEF Saved, States
  <2>m. Saved.settings = st.settings /\ Saved.apis = st.apis /\ Saved.other = st.other
        BY DEF Saved, States
  <2>2. held' \in States /\ Made(held')
        BY <1>9, <2>1, <2>m DEF Answer
  <2> QED
      BY <1>9, <2>2 DEF Answer
<1>10. ASSUME NEW a \in Apps, Push(a) PROVE TypeOK' /\ Made(st)'
  <2> DEFINE d == Digest[wanted[a]]
  <2>1. d \in Digests /\ d # None /\ wanted[a] \in Versions
        BY <1>10, DigestType DEF Push, PushDue
  <2>2. repo' = [repo EXCEPT ![a] = @ \cup {d}] /\ tag' = [tag EXCEPT ![a] = d]
        BY <1>10 DEF Push
  <2>4. reg' \in [Apps -> Records] /\ old' \in [Apps -> Digests \cup {None}]
        BY <1>10, PushRecords DEF Push
  <2>6. repo' \in [Apps -> SUBSET Digests] /\ tag' \in [Apps -> Digests \cup {None}]
        BY <2>1, <2>2
  <2>7. \A b \in Apps : tag'[b] # None => tag'[b] \in repo'[b]
        BY <2>2
  <2> QED
      BY <1>10, <2>4, <2>6, <2>7 DEF Push
<1>18. ASSUME NEW a \in Apps, PushUnseen(a) PROVE TypeOK' /\ Made(st)'
  <2>1. reg' \in [Apps -> Records] /\ old' \in [Apps -> Digests \cup {None}]
        BY <1>18, PushRecords DEF PushUnseen
  <2> QED
      BY <1>18, <2>1, FaultType DEF PushUnseen
<1>11. ASSUME NEW a \in Apps, DropOld(a) PROVE TypeOK' /\ Made(st)'
  <2>1. old' \in [Apps -> Digests \cup {None}]
        BY <1>11 DEF DropOld
  <2>2. repo' \in [Apps -> SUBSET Digests] /\ tag' = tag
        BY <1>11 DEF DropOld
  <2>3. \A b \in Apps : tag[b] # None => tag[b] \in repo'[b]
        BY <1>11 DEF DropOld
  <2>4. faults' \in 0..MaxFaults
        BY <1>11, FaultType DEF DropOld
  <2> QED
      BY <1>11, <2>1, <2>2, <2>3, <2>4 DEF DropOld
<1>f. ASSUME NEW a \in Apps, Fails(a), UNCHANGED faults \/ Fault,
             tag' = tag \/ tag' = [tag EXCEPT ![a] = None]
      PROVE  TypeOK' /\ Made(st)'
  <2>1. tag' \in [Apps -> Digests \cup {None}]
        BY <1>f
  <2>2. \A b \in Apps : tag'[b] # None => tag'[b] \in repo[b]
        BY <1>f
  <2> QED
      BY <1>f, <2>1, <2>2, FaultType DEF Fails
<1>12. ASSUME NEW a \in Apps, Deploy(a) PROVE TypeOK' /\ Made(st)'
  <2>1. CASE Fails(a) /\ UNCHANGED <<tag, faults>>
        BY <2>1, <1>f
  <2>2. ASSUME NEW served \in BOOLEAN,
               UNCHANGED faults \/ Fault,
               spec' = [spec EXCEPT ![a] = reg[a].image],
               serving' = [serving EXCEPT ![a] = IF served THEN reg[a].image ELSE @],
               reg' = [reg EXCEPT ![a].service = reg[a].image, ![a].ready = Says(served)],
               UNCHANGED <<host, apis, temp, repo, tag, pc, mode, st, old, failed,
                           answer, ghost>>
        PROVE  TypeOK' /\ Made(st)'
    <3>1. reg[a].image \in Digests
          BY <1>12, RecordType DEF Deploy, DeployDue, PushDue
    <3>2. /\ spec' \in [Apps -> Digests \cup {None}]
          /\ serving' \in [Apps -> Digests \cup {None}]
          BY <2>2, <3>1
    <3>3. reg[a].image # None
          BY <1>12, RecordType DEF Deploy, DeployDue, PushDue
    <3>4. \A b \in Apps : spec'[b] = None => serving'[b] = None
          BY <2>2, <3>3
    <3>5. reg' \in [Apps -> Records]
          BY <2>2, <3>1, ServiceRecords DEF Says
    <3>6. faults' \in 0..MaxFaults
          BY <2>2, FaultType
    <3> QED
        BY <2>2, <3>2, <3>4, <3>5, <3>6
  <2> QED
      BY <1>12, <2>1, <2>2 DEF Deploy
<1>13. ASSUME NEW a \in Apps, RemoveService(a) PROVE TypeOK' /\ Made(st)'
  <2>1. CASE Fails(a) /\ UNCHANGED tag
        BY <1>13, <2>1, <1>f DEF RemoveService
  <2>2. CASE /\ spec' = [spec EXCEPT ![a] = None]
             /\ serving' = [serving EXCEPT ![a] = None]
             /\ reg' = [reg EXCEPT ![a].service = None, ![a].ready = FALSE]
             /\ UNCHANGED <<host, apis, temp, repo, tag, pc, mode, st, old, failed,
                            answer, ghost>>
    <3>1. /\ spec' \in [Apps -> Digests \cup {None}]
          /\ serving' \in [Apps -> Digests \cup {None}]
          /\ \A b \in Apps : spec'[b] = None => serving'[b] = None
          BY <2>2
    <3>2. reg' \in [Apps -> Records]
          BY <2>2, ServiceRecords
    <3> QED
        BY <1>13, <2>2, <3>1, <3>2 DEF RemoveService
  <2> QED
      BY <1>13, <2>1, <2>2 DEF RemoveService
<1>14. ASSUME NEW a \in Apps, RemoveImage(a) PROVE TypeOK' /\ Made(st)'
  <2>0. tag' = [tag EXCEPT ![a] = None]
        BY <1>14 DEF RemoveImage, TagLeft
  <2>1. CASE Fails(a)
        BY <1>14, <2>0, <2>1, <1>f DEF RemoveImage
  <2>2. CASE /\ UNCHANGED faults
             /\ repo' = [repo EXCEPT ![a] = @ \ {reg[a].image}]
             /\ reg' = [reg EXCEPT ![a] = Nothing]
             /\ UNCHANGED <<host, apis, temp, spec, serving, pc, mode, st, old, failed,
                            answer, ghost>>
    <3>1. reg' \in [Apps -> Records]
          BY <2>2 DEF Records, Nothing
    <3>2. repo' \in [Apps -> SUBSET Digests] /\ tag' \in [Apps -> Digests \cup {None}]
          BY <2>0, <2>2
    <3>3. \A b \in Apps : tag'[b] # None => tag'[b] \in repo'[b]
          BY <2>0, <2>2
    <3> QED
        BY <2>2, <3>1, <3>2, <3>3
  <2> QED
      BY <1>14, <2>1, <2>2 DEF RemoveImage
<1>19. ASSUME NEW a \in Apps, Untagged(a) PROVE TypeOK' /\ Made(st)'
       BY <1>19, <1>f DEF Untagged
<1>15. ASSUME NEW a \in Apps, AppRefused(a) PROVE TypeOK' /\ Made(st)'
       BY <1>15, <1>f DEF AppRefused
<1>16. ASSUME NEW a \in Apps, Change(a) PROVE TypeOK' /\ Made(st)'
  <2>1. wanted' \in [Apps -> Versions \cup {None}]
        BY <1>16, DeploymentAssumption DEF Change
  <2>2. changes' \in 0..MaxChanges
        BY <1>16, DeploymentAssumption DEF Change
  <2> QED
      BY <1>16, <2>1, <2>2 DEF Change
<1>17. CASE UNCHANGED vars
       BY <1>17 DEF vars
<1> QED
    BY <1>1, <1>2, <1>3, <1>4, <1>5, <1>6, <1>7, <1>8, <1>9, <1>10, <1>11, <1>12,
       <1>13, <1>14, <1>15, <1>16, <1>17, <1>18, <1>19 DEF Next, Step

\* The types hold in every state, for all apps, versions, builds and bounds.
THEOREM TypeCorrect == Spec => []TypeOK
BY InitType, NextType, PTL DEF Spec

-----------------------------------------------------------------------------
(* What the registry records.                                              *)

LEMMA InitTold == Init => Told
BY DEF Init, Told, Tracks, Accurate, Nothing, Loaded, Replaced, Finished, OkMeansDeployed

\* On the way to the registry nothing of it changes, nor anything it records.
LEMMA BeforeTold ==
    ASSUME DInv, pc \notin {"idle", "run", "save"}, pc' \notin {"idle", "run", "save"},
           UNCHANGED <<host, repo, tag, spec, serving, mode, reg, old, failed, answer, ghost>>,
           st'.registry = st.registry
    PROVE  Told'
<1> USE DEF host, ghost, DInv, Told
<1>1. Tracks'
      BY DEF Tracks, Accurate
<1>2. Loaded' /\ Finished'
      BY DEF Loaded, Finished
<1>3. Replaced'
      BY DEF Replaced
<1>4. OkMeansDeployed'
      BY DEF OkMeansDeployed, Finished
<1> QED
    BY <1>1, <1>2, <1>3, <1>4

\* A death leaves the host with its old state: true of the apps it still knows.
LEMMA DieTold == ASSUME DInv, Die PROVE Told'
<1> USE DEF Die, Goto, host, cloud, DInv, Told
<1>1. Tracks'
  <2> SUFFICES ASSUME NEW a \in Apps, a \notin lost, held.registry[a] = reg[a]
               PROVE  Accurate(a, held.registry[a])'
      BY DEF Tracks, Unlearned
  <2> QED
      BY DEF Tracks, Accurate
<1> QED
    BY <1>1 DEF Loaded, Replaced, Finished, OkMeansDeployed

\* What fails leaves no trace but its name, and a tag that may be gone.
LEMMA FailsTold ==
    ASSUME DInv, NEW a \in Apps, pc = "run", Fails(a),
           tag' = tag \/ tag' = [tag EXCEPT ![a] = None]
    PROVE  Told'
<1> USE DEF Fails, host, ghost, DInv, Told
<1>0. \A b \in Apps : tag'[b] \in {tag[b], None}
      BY DEF TypeOK
<1>1. Tracks'
      BY <1>0 DEF Tracks, Accurate
<1>2. Loaded'
      BY DEF Loaded
<1>3. Replaced'
      BY DEF Replaced
<1>4. Finished' /\ OkMeansDeployed'
      BY DEF Finished, OkMeansDeployed
<1> QED
    BY <1>1, <1>2, <1>3, <1>4

\* A step of one app's service or image is on record at once.
LEMMA AppTold ==
    ASSUME DInv, NEW a \in Apps, pc = "run",
           UNCHANGED <<host, pc, mode, st, failed, answer, stray, lost>>,
           \A b \in Apps \ {a} : /\ reg'[b] = reg[b] /\ old'[b] = old[b]
                                 /\ tag'[b] = tag[b] /\ repo'[b] = repo[b]
                                 /\ spec'[b] = spec[b] /\ serving'[b] = serving[b]
                                 /\ b \in unseen' <=> b \in unseen,
           a \notin lost => Accurate(a, reg[a])',
           old'[a] # None => /\ wanted[a] # None /\ reg'[a].src = wanted[a]
                             /\ old'[a] # reg'[a].image
    PROVE  Told'
<1> USE DEF host, DInv, Told
<1>1. mode = "apply" /\ answer # "ok"
      BY DEF Loaded, Finished
<1>2. pc' = "run" /\ mode' = "apply" /\ lost' = lost
      BY <1>1
<1>3. ASSUME NEW b \in Apps, b \notin lost PROVE Accurate(b, reg[b])'
  <2>1. CASE b = a
        BY <1>3, <2>1
  <2>2. CASE b # a
    <3>1. Accurate(b, reg[b])
          BY <1>3 DEF Tracks
    <3>2. b \in unseen' <=> b \in unseen
          BY <2>2
    <3>3. reg'[b] = reg[b] /\ tag'[b] = tag[b] /\ repo'[b] = repo[b]
          /\ spec'[b] = spec[b] /\ serving'[b] = serving[b]
          BY <2>2
    <3> QED
        BY <3>1, <3>2, <3>3 DEF Accurate
  <2> QED
      BY <2>1, <2>2
<1>4. Tracks'
      BY <1>2, <1>3 DEF Tracks
<1>5. ASSUME NEW b \in Apps, old'[b] # None
      PROVE  wanted[b] # None /\ reg'[b].src = wanted[b] /\ old'[b] # reg'[b].image
  <2>1. CASE b = a
        BY <1>5, <2>1
  <2>2. CASE b # a
        BY <1>5, <2>2 DEF Replaced
  <2> QED
      BY <2>1, <2>2
<1>6. Replaced'
      BY <1>2, <1>5 DEF Replaced
<1> QED
    BY <1>1, <1>2, <1>4, <1>6 DEF Loaded, Finished, OkMeansDeployed

\* A call that has nothing left to do has deployed what is wanted.
LEMMA NothingDue ==
    ASSUME DInv, NEW a \in Apps, a \notin unseen, Accurate(a, reg[a]), ~Due(a), old[a] = None
    PROVE  Runs(a, reg[a]) /\ (wanted[a] # None => spec[a] \in repo[a])
<1>1. CASE wanted[a] = None
      BY <1>1 DEF Due, RemoveServiceDue, Accurate, Runs
<1>2. CASE wanted[a] # None
  <2>1. reg[a].src = wanted[a] /\ reg[a].service = reg[a].image
        BY <1>2 DEF Due, PushDue, DeployDue
  <2>2. Digest[wanted[a]] # None
        BY <1>2, DigestType DEF DInv
  <2> QED
      BY <1>2, <2>1, <2>2 DEF Accurate, Runs
<1> QED
    BY <1>1, <1>2

LEMMA NextTold == DInv /\ [Next]_vars => Told'
<1> SUFFICES ASSUME DInv, [Next]_vars PROVE Told'
    OBVIOUS
<1>t. TypeOK /\ held \in States /\ st \in States /\ reg \in [Apps -> Records]
      /\ tag \in [Apps -> Digests \cup {None}] /\ serving \in [Apps -> Digests \cup {None}]
      /\ spec \in [Apps -> Digests \cup {None}] /\ repo \in [Apps -> SUBSET Digests]
      /\ old \in [Apps -> Digests \cup {None}] /\ wanted \in [Apps -> Versions \cup {None}]
      BY DEF DInv, TypeOK
<1>s. held.registry \in [Apps -> Records]
      BY <1>t DEF States
<1>i. Tracks /\ Loaded /\ Replaced /\ Finished /\ OkMeansDeployed
      BY DEF DInv, Told
<1> USE DEF Goto, host, cloud, call, ghost
<1>1. CASE Call
  <2>1. Tracks'
        BY <1>1, <1>i DEF Call, Tracks, Accurate
  <2>2. Loaded' /\ Finished' /\ OkMeansDeployed'
        BY <1>1 DEF Call, Loaded, Finished, OkMeansDeployed
  <2>3. Replaced'
        BY <1>1 DEF Call, Replaced
  <2> QED
      BY <2>1, <2>2, <2>3 DEF Told
<1>2. CASE Crash
      BY <1>2, DieTold DEF Crash
<1>3. CASE Url \/ CreateTemporary \/ DeleteTemporary \/ Refused
      BY <1>3, BeforeTold DEF Url, CreateTemporary, DeleteTemporary, Refused
<1>4. CASE Suffix
  <2>1. CASE Die
        BY <2>1, DieTold
  <2>2. CASE Goto("apis") /\ st' = [st EXCEPT !.settings = TRUE]
             /\ UNCHANGED <<host, cloud, mode, reg, old, failed, answer, ghost>>
    <3>1. st'.registry = st.registry
          BY <1>t, <2>2 DEF States
    <3> QED
        BY <1>4, <2>2, <3>1, BeforeTold DEF Suffix
  <2> QED
      BY <1>4, <2>1, <2>2 DEF Suffix
<1>5. CASE APIsRecorded
  <2>1. st'.registry = st.registry
        BY <1>t, <1>5 DEF APIsRecorded, States
  <2> QED
      BY <1>5, <2>1, BeforeTold DEF APIsRecorded
<1>6. ASSUME NEW x \in APIs, EnableAPI(x) PROVE Told'
      BY <1>6, BeforeTold DEF EnableAPI
<1>7. CASE Diff
  <2>1. reg = held.registry /\ pc = "diff"
        BY <1>7, <1>i DEF Diff, Loaded
  <2>2. ASSUME NEW a \in Apps, a \notin lost
        PROVE  Accurate(a, reg[a]) /\ Accurate(a, reg'[a])
    <3>1. Accurate(a, reg[a])
          BY <2>1, <2>2, <1>i DEF Tracks
    <3>2. CASE reads
      <4>1. reg'[a] = ReadApp(a)
            BY <1>7, <3>2 DEF Diff
      <4>2. /\ ReadApp(a).image = tag[a] /\ ReadApp(a).service = spec[a]
            /\ ReadApp(a).src = IF tag[a] = None THEN None ELSE reg[a].src
            /\ ReadApp(a).ready => serving[a] = spec[a]
            BY DEF ReadApp
      <4>3. tag[a] # None => tag[a] \in repo[a]
            BY <1>t DEF TypeOK
      <4> QED
          BY <3>1, <4>1, <4>2, <4>3 DEF Accurate
    <3>3. CASE ~reads
          BY <1>7, <3>1, <3>3 DEF Diff
    <3> QED
        BY <3>1, <3>2, <3>3
  <2>3. Tracks'
        BY <1>7, <2>1, <2>2 DEF Diff, Tracks, Accurate
  <2>4. Replaced'
        BY <1>7, <2>1, <1>i DEF Diff, Replaced
  <2>5. Loaded' /\ Finished' /\ OkMeansDeployed'
        BY <1>7, <1>t, <2>1, <1>i DEF Diff, Loaded, Finished, OkMeansDeployed, TypeOK
  <2> QED
      BY <2>3, <2>4, <2>5 DEF Told
<1>8. CASE RunEnds
  <2>1. Tracks' /\ Loaded' /\ Replaced'
        BY <1>8, <1>i DEF RunEnds, Tracks, Accurate, Loaded, Replaced
  <2>2. Finished' /\ OkMeansDeployed'
        BY <1>8, <1>i DEF RunEnds, Finished, OkMeansDeployed, Due, PushDue, DeployDue,
                          RemoveServiceDue, RemoveImageDue
  <2> QED
      BY <2>1, <2>2 DEF Told
<1>9. CASE Answer
  <2>1. Tracks'
    <3> SUFFICES ASSUME NEW a \in Apps, a \notin lost PROVE Accurate(a, held.registry[a])'
        BY <1>9 DEF Answer, Tracks
    <3>1. Accurate(a, reg[a])
          BY <1>9, <1>i DEF Answer, Tracks
    <3>2. CASE pc = "save" /\ SendsState
      <4>1. held'.registry = reg
            BY <1>9, <1>t, <3>2 DEF Answer, Saved, States
      <4> QED
          BY <1>9, <3>1, <4>1 DEF Answer, Accurate
    <3>3. CASE pc = "save" /\ ~SendsState
      <4>1. mode = "plan" /\ held' = held
            BY <1>9, <1>t, <3>3 DEF Answer, SendsState, TypeOK
      <4> QED
          BY <1>9, <1>i, <4>1 DEF Answer, Tracks, Accurate
    <3>4. CASE pc = "error"
      <4>1. held'.registry = reg
            BY <1>9, <1>i, <3>4 DEF Answer, Saved, Loaded
      <4> QED
          BY <1>9, <3>1, <4>1 DEF Answer, Accurate
    <3> QED
        BY <1>9, <3>2, <3>3, <3>4 DEF Answer
  <2>2. OkMeansDeployed'
    <3> SUFFICES ASSUME mode = "apply", pc = "save", failed = {},
                        NEW a \in Apps, a \notin lost \cup unseen
                 PROVE  (/\ Runs(a, held.registry[a])
                         /\ wanted[a] # None => spec[a] \in repo[a])'
        BY <1>9, <1>t DEF Answer, OkMeansDeployed, TypeOK
    <3>1. Accurate(a, reg[a]) /\ ~Due(a) /\ old[a] = None
          BY <1>i DEF Tracks, Finished
    <3>2. Runs(a, reg[a]) /\ (wanted[a] # None => spec[a] \in repo[a])
          BY <3>1, NothingDue
    <3>3. held'.registry = reg
          BY <1>9, <1>t DEF Answer, SendsState, Saved, States
    <3> QED
        BY <1>9, <3>2, <3>3 DEF Answer, Runs
  <2>3. Loaded' /\ Replaced' /\ Finished'
        BY <1>9 DEF Answer, Loaded, Replaced, Finished
  <2> QED
      BY <2>1, <2>2, <2>3 DEF Told
<1>10. ASSUME NEW a \in Apps, Push(a) PROVE Told'
  <2>1. /\ \A b \in Apps \ {a} : reg'[b] = reg[b] /\ old'[b] = old[b]
        /\ reg'[a].src = wanted[a] /\ reg'[a].image = Digest[wanted[a]]
        /\ reg'[a].service = reg[a].service /\ reg'[a].ready = reg[a].ready
        /\ old'[a] # None => old'[a] # reg'[a].image
        BY <1>t, <1>10, PushRecords DEF Push
  <2>2. /\ tag' = [tag EXCEPT ![a] = Digest[wanted[a]]]
        /\ repo' = [repo EXCEPT ![a] = @ \cup {Digest[wanted[a]]}]
        /\ unseen' = unseen \ {a}
        /\ pc = "run" /\ wanted[a] # None
        /\ UNCHANGED <<host, apis, temp, spec, serving, pc, mode, st, failed, answer,
                       stray, lost>>
        BY <1>10 DEF Push, Working, PushDue
  <2>3. a \notin lost => Accurate(a, reg[a])'
        BY <1>t, <1>i, <2>1, <2>2 DEF Tracks, Accurate
  <2> QED
      BY <1>t, <2>1, <2>2, <2>3, AppTold
<1>18. ASSUME NEW a \in Apps, PushUnseen(a) PROVE Told'
  <2>1. /\ \A b \in Apps \ {a} : reg'[b] = reg[b] /\ old'[b] = old[b]
        /\ reg'[a].src = wanted[a] /\ reg'[a].image = Digest[wanted[a]]
        /\ reg'[a].service = reg[a].service /\ reg'[a].ready = reg[a].ready
        /\ old'[a] # None => old'[a] # reg'[a].image
        BY <1>t, <1>18, PushRecords DEF PushUnseen
  <2>2. /\ unseen' = unseen \cup {a} /\ pc = "run" /\ wanted[a] # None
        /\ UNCHANGED <<host, cloud, pc, mode, st, failed, answer, stray, lost>>
        BY <1>18 DEF PushUnseen, Working, PushDue
  <2>3. a \notin lost => Accurate(a, reg[a])'
        BY <1>i, <2>1, <2>2 DEF Tracks, Accurate
  <2> QED
      BY <2>1, <2>2, <2>3, AppTold
<1>11. ASSUME NEW a \in Apps, DropOld(a) PROVE Told'
  <2>1. /\ pc = "run" /\ old' = [old EXCEPT ![a] = None]
        /\ UNCHANGED <<host, tag, spec, serving, pc, mode, st, reg, failed, answer, ghost>>
        BY <1>11 DEF DropOld
  <2>2. repo' = repo \/ repo' = [repo EXCEPT ![a] = @ \ {old[a]}]
        BY <1>11 DEF DropOld
  <2>3. old[a] # reg[a].image
        BY <1>11, <1>i DEF DropOld, Replaced
  <2>4. \A b \in Apps \ {a} : repo'[b] = repo[b]
        BY <1>t, <2>2
  <2>5. reg[a].image \in repo[a] => reg[a].image \in repo'[a]
        BY <1>t, <2>2, <2>3
  <2>6. a \notin lost => Accurate(a, reg[a])'
        BY <1>i, <2>1, <2>5 DEF Tracks, Accurate
  <2> QED
      BY <1>t, <2>1, <2>4, <2>6, AppTold
<1>12. ASSUME NEW a \in Apps, Deploy(a) PROVE Told'
  <2>1. pc = "run" /\ old[a] = None
        BY <1>12 DEF Deploy, Working, DeployDue
  <2>2. CASE Fails(a) /\ UNCHANGED <<tag, faults>>
        BY <2>1, <2>2, FailsTold
  <2>3. ASSUME NEW served \in BOOLEAN,
               spec' = [spec EXCEPT ![a] = reg[a].image],
               serving' = [serving EXCEPT ![a] = IF served THEN reg[a].image ELSE @],
               reg' = [reg EXCEPT ![a].service = reg[a].image, ![a].ready = Says(served)],
               UNCHANGED <<host, apis, temp, repo, tag, pc, mode, st, old, failed,
                           answer, ghost>>
        PROVE  Told'
    <3>1. /\ \A b \in Apps \ {a} : reg'[b] = reg[b]
          /\ reg'[a].src = reg[a].src /\ reg'[a].image = reg[a].image
          /\ reg'[a].service = reg[a].image /\ reg'[a].ready = served
          BY <1>t, <2>3, ServiceRecords, RecordType DEF Says
    <3>2. spec'[a] = reg[a].image /\ (served => serving'[a] = reg[a].image)
          BY <1>t, <2>3
    <3>3. a \notin lost => Accurate(a, reg[a])'
          BY <1>i, <2>1, <2>3, <3>1, <3>2 DEF Tracks, Accurate
    <3>4. \A b \in Apps \ {a} : spec'[b] = spec[b] /\ serving'[b] = serving[b]
          BY <1>t, <2>3
    <3> QED
        BY <2>1, <2>3, <3>1, <3>3, <3>4, AppTold
  <2> QED
      BY <1>12, <2>2, <2>3 DEF Deploy
<1>13. ASSUME NEW a \in Apps, RemoveService(a) PROVE Told'
  <2>1. pc = "run" /\ old[a] = None
        BY <1>13, <1>i DEF RemoveService, RemoveServiceDue, Working, Replaced
  <2>2. CASE Fails(a) /\ UNCHANGED tag
        BY <2>1, <2>2, FailsTold
  <2>3. CASE /\ spec' = [spec EXCEPT ![a] = None]
             /\ serving' = [serving EXCEPT ![a] = None]
             /\ reg' = [reg EXCEPT ![a].service = None, ![a].ready = FALSE]
             /\ UNCHANGED <<host, apis, temp, repo, tag, pc, mode, st, old, failed,
                            answer, ghost>>
    <3>1. /\ \A b \in Apps \ {a} : reg'[b] = reg[b]
          /\ reg'[a].src = reg[a].src /\ reg'[a].image = reg[a].image
          /\ reg'[a].service = None /\ reg'[a].ready = FALSE
          BY <1>t, <2>3, ServiceRecords
    <3>2. spec'[a] = None
          BY <1>t, <2>3
    <3>3. a \notin lost => Accurate(a, reg[a])'
          BY <1>i, <2>1, <2>3, <3>1, <3>2 DEF Tracks, Accurate
    <3>4. \A b \in Apps \ {a} : spec'[b] = spec[b] /\ serving'[b] = serving[b]
          BY <1>t, <2>3
    <3> QED
        BY <2>1, <2>3, <3>1, <3>3, <3>4, AppTold
  <2> QED
      BY <1>13, <2>2, <2>3 DEF RemoveService
<1>14. ASSUME NEW a \in Apps, RemoveImage(a) PROVE Told'
  <2>0. tag' = [tag EXCEPT ![a] = None]
        BY <1>14 DEF RemoveImage, TagLeft
  <2>1. pc = "run" /\ old[a] = None
        BY <1>14, <1>i DEF RemoveImage, RemoveImageDue, Working, Replaced
  <2>2. CASE Fails(a)
        BY <2>0, <2>1, <2>2, FailsTold
  <2>3. CASE /\ repo' = [repo EXCEPT ![a] = @ \ {reg[a].image}]
             /\ reg' = [reg EXCEPT ![a] = Nothing]
             /\ UNCHANGED <<host, apis, temp, spec, serving, pc, mode, st, old, failed,
                            answer, ghost>>
    <3>1. /\ \A b \in Apps \ {a} : reg'[b] = reg[b] /\ tag'[b] = tag[b] /\ repo'[b] = repo[b]
          /\ reg'[a] = Nothing /\ tag'[a] = None
          BY <1>t, <2>0, <2>3
    <3>2. /\ Nothing.src = None /\ Nothing.image = None /\ Nothing.service = None
          /\ Nothing.ready = FALSE
          BY DEF Nothing
    <3>3. a \notin lost => Accurate(a, reg[a])'
          BY <1>14, <1>i, <2>1, <2>3, <3>1, <3>2 DEF RemoveImage, RemoveImageDue, Tracks, Accurate
    <3> QED
        BY <2>1, <2>3, <3>1, <3>3, AppTold
  <2> QED
      BY <1>14, <2>2, <2>3 DEF RemoveImage
<1>15. ASSUME NEW a \in Apps, AppRefused(a) PROVE Told'
       BY <1>15, FailsTold DEF AppRefused, Working
<1>19. ASSUME NEW a \in Apps, Untagged(a) PROVE Told'
       BY <1>19, FailsTold DEF Untagged, Working
<1>16. ASSUME NEW a \in Apps, Change(a) PROVE Told'
  <2>1. Tracks'
        BY <1>16, <1>i DEF Change, Tracks, Accurate
  <2>2. Loaded' /\ Replaced'
        BY <1>16, <1>i DEF Change, Loaded, Replaced
  <2>3. Finished' /\ OkMeansDeployed'
        BY <1>16, <1>i DEF Change, Finished, OkMeansDeployed
  <2> QED
      BY <2>1, <2>2, <2>3 DEF Told
<1>17. CASE UNCHANGED vars
  <2>1. Tracks' /\ Loaded' /\ Replaced'
        BY <1>17, <1>i DEF vars, Tracks, Accurate, Loaded, Replaced
  <2>2. Finished' /\ OkMeansDeployed'
        BY <1>17, <1>i DEF vars, Finished, OkMeansDeployed, Runs, Due, PushDue, DeployDue,
                           RemoveServiceDue, RemoveImageDue
  <2> QED
      BY <2>1, <2>2 DEF Told
<1> QED
    BY <1>1, <1>2, <1>3, <1>4, <1>5, <1>6, <1>7, <1>8, <1>9, <1>10, <1>11, <1>12,
       <1>13, <1>14, <1>15, <1>16, <1>17, <1>18, <1>19 DEF Next, Step

THEOREM Inductive == Spec => []DInv
<1>1. Init => DInv
      BY InitType, InitTold DEF DInv
<1>2. DInv /\ [Next]_vars => DInv'
      BY NextType, NextTold DEF DInv
<1> QED
    BY <1>1, <1>2, PTL DEF Spec

\* Whatever fails half way, the host's state tells what runs: the record is
\* lost only with the process.
THEOREM NothingIsForgotten == Spec => []NothingForgotten
<1>1. DInv => NothingForgotten
      BY DEF DInv, Told, Tracks, Accurate, NothingForgotten
<1> QED
    BY <1>1, Inductive, PTL

\* An Apply that reports success has deployed what is wanted.
THEOREM OkIsDeployed == Spec => []OkMeansDeployed
<1>1. DInv => OkMeansDeployed
      BY DEF DInv, Told
<1> QED
    BY <1>1, Inductive, PTL
=============================================================================
