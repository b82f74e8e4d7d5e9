--------------------------- MODULE LockingProofs ---------------------------
(***************************************************************************)
(* Safety of Locking for every set of clients, files and requests, and any *)
(* bound on faults and waits.                                              *)
(***************************************************************************)
EXTENDS Locking, FiniteSetTheorems, WellFoundedInduction, TLAPS

\* Ids are generations the store gave out, and two clients never get the same.
IdsGivenOut ==
    /\ \A f \in Files : gen[f] <= lastGen
    /\ \A c \in Clients, f \in Files : locksAcquired[c][f] <= lastGen

IdsDistinct ==
    \A c, d \in Clients : \A f \in Taken(c) \cap Taken(d) :
        c # d => locksAcquired[c][f] # locksAcquired[d][f]

\* A known id that is still live belongs to an object of that client.
IdsOwned ==
    \A c \in Clients : \A f \in Taken(c) :
        gen[f] = locksAcquired[c][f] => owner[f] = c

\* Until the client gives its locks back they stay, unless they are forced.
Early      == {"idle", "bucket", "mkbucket"}
GivingBack == {"rollback", "releasing", "unsure", "ended"}
Kept ==
    \A c \in Clients : \A f \in Taken(c) :
        pc[c] \notin GivingBack
            => gen[f] = locksAcquired[c][f] \/ locksAcquired[c][f] \in forced

\* acquireLocks takes the files in order: those before i are taken.
Acquiring(c) == pc[c] \in {"create", "check", "wait"}
Filled ==
    \A c \in Clients :
        /\ pc[c] \in Early => i[c] = 1
        /\ Acquiring(c) \/ pc[c] = "held" =>
              \A j \in 1..Len(lockfiles[c]) : j < i[c] => lockfiles[c][j] \in Taken(c)
        /\ pc[c] = "held" => ~Looping(c)

\* The files are sorted, and no client has one beyond the one it asks for.
FilesSorted == \A c \in Clients : Sorted(lockfiles[c])
BehindCurrent ==
    \A c \in Clients : \A f \in Files :
        Has(c, f) => /\ pc[c] \notin Early
                     /\ Waiting(c) => f <= Current(c)

IInv ==
    /\ TypeOK
    /\ IdsGivenOut /\ IdsDistinct /\ IdsOwned /\ Kept /\ Filled
    /\ FilesSorted /\ BehindCurrent

----------------------------------------------------------------------------
\* Sorting keeps a request's files a sequence of files.
LEMMA SortedNamesType ==
    ASSUME NEW r \in Seq(Files), NEW s \in SortedNames(r)
    PROVE  s \in Seq(Files) /\ Sorted(s)
BY DEF SortedNames

\* The initial state has the right types.
LEMMA InitType ==
    ASSUME Init PROVE TypeOK
<1> USE DEF Init, ObjectInit, NoLocks, TypeOK, ObjectTypeOK, CallTypeOK
<1>1. gen \in [Files -> Nat]
      OBVIOUS
<1>2. owner \in [Files -> Clients]
      OBVIOUS
<1>3. lastGen \in Nat
      OBVIOUS
<1>4. pc \in [Clients -> Labels]
      BY DEF Labels
<1>5. lockfiles \in [Clients -> Seq(Files)]
      OBVIOUS
<1>6. i \in [Clients -> Nat \ {0}]
      OBVIOUS
<1>7. lockWait \in [Clients -> 0..MaxLockWait]
      BY BoundsAssumption
<1>8. elapsed \in [Clients -> Nat]
      OBVIOUS
<1>9. locksAcquired \in [Clients -> [Files -> Nat]]
      OBVIOUS
<1>10. lockInfoFailed \in [Clients -> [Files -> Nat]]
      OBVIOUS
<1>11. tasks \in [Clients -> SUBSET Files]
      OBVIOUS
<1>12. taskErr \in [Clients -> BOOLEAN]
      OBVIOUS
<1>13. reply \in [Clients -> Answers]
      BY DEF Answers
<1>14. faults \in 0..MaxFaults
      BY BoundsAssumption
<1> QED
    BY <1>1, <1>2, <1>3, <1>4, <1>5, <1>6, <1>7, <1>8, <1>9, <1>10, <1>11, <1>12, <1>13, <1>14

\* The ways a call moves on keep its part of the types.
LEMMA AbandonType ==
    ASSUME TypeOK, NEW c \in Clients, Abandon(c) PROVE CallTypeOK'
<1> USE DEF Abandon, Goto, NoLocks, TypeOK, ObjectTypeOK, CallTypeOK
<1>1. pc' \in [Clients -> Labels]
      BY DEF Labels
<1>2. reply' \in [Clients -> Answers]
      BY DEF Answers
<1>3. locksAcquired' \in [Clients -> [Files -> Nat]]
      OBVIOUS
<1> QED
    BY <1>1, <1>2, <1>3

LEMMA LockErrorReplyType ==
    ASSUME TypeOK, NEW c \in Clients, LockErrorReply(c) 
    PROVE  /\ pc' \in [Clients -> Labels]
           /\ reply' \in [Clients -> Answers]
           /\ locksAcquired' \in [Clients -> [Files -> Nat]]
<1> USE DEF LockErrorReply, Goto, NoLocks, TypeOK, ObjectTypeOK, CallTypeOK
<1>1. pc' \in [Clients -> Labels]
      BY DEF Labels
<1>2. reply' \in [Clients -> Answers]
      BY DEF Answers
<1>3. locksAcquired' \in [Clients -> [Files -> Nat]]
      OBVIOUS
<1> QED
    BY <1>1, <1>2, <1>3

LEMMA StayInLoopType ==
    ASSUME TypeOK, NEW c \in Clients, StayInLoop(c) PROVE CallTypeOK'
<1> USE DEF StayInLoop, Goto, clientVars, TypeOK, ObjectTypeOK, CallTypeOK
<1>1. pc' \in [Clients -> Labels]
      BY DEF Labels
<1> QED
    BY <1>1

LEMMA OtherErrorType ==
    ASSUME TypeOK, NEW c \in Clients, OtherError(c) PROVE CallTypeOK'
BY AbandonType, StayInLoopType DEF OtherError

LEMMA RestType ==
    ASSUME TypeOK, NEW c \in Clients PROVE Rest(c) \subseteq Files
<1>1. lockfiles[c] \in Seq(Files) /\ i[c] \in Nat \ {0}
      BY DEF TypeOK, CallTypeOK
<1>2. ASSUME NEW j \in (i[c] + 1)..Len(lockfiles[c]) PROVE lockfiles[c][j] \in Files
  <2>1. j \in 1..Len(lockfiles[c])
        BY <1>1
  <2> QED
      BY <1>1, <2>1
<1> QED
    BY <1>2 DEF Rest

LEMMA GiveUpOnType ==
    ASSUME TypeOK, NEW c \in Clients, GiveUpOn(c) PROVE CallTypeOK'
<1> USE DEF GiveUpOn, Goto, TypeOK, ObjectTypeOK, CallTypeOK
<1>1. pc' \in [Clients -> Labels]
      BY DEF Labels
<1>2. lockInfoFailed' \in [Clients -> [Files -> Nat]]
      OBVIOUS
<1>3. Rest(c) \subseteq Files
      BY RestType
<1>4. tasks' \in [Clients -> SUBSET Files]
      BY <1>3
<1> QED
    BY <1>1, <1>2, <1>4

LEMMA HeldErrorType ==
    ASSUME TypeOK, NEW c \in Clients, HeldError(c) PROVE CallTypeOK'
BY GiveUpOnType, StayInLoopType DEF HeldError

\* So do the store's operations and the count of faults.
LEMMA CreateObjectType ==
    ASSUME TypeOK, NEW c \in Clients, NEW f \in Files, CreateObject(c, f) PROVE ObjectTypeOK'
<1> USE DEF CreateObject, TypeOK, ObjectTypeOK, CallTypeOK
<1>1. gen' \in [Files -> Nat]
      OBVIOUS
<1>2. owner' \in [Files -> Clients]
      OBVIOUS
<1>3. lastGen' \in Nat
      OBVIOUS
<1> QED
    BY <1>1, <1>2, <1>3

LEMMA DeleteObjectType ==
    ASSUME TypeOK, NEW f \in Files, DeleteObject(f) PROVE ObjectTypeOK'
<1> USE DEF DeleteObject, TypeOK, ObjectTypeOK, CallTypeOK
<1>1. gen' \in [Files -> Nat]
      OBVIOUS
<1> QED
    BY <1>1

LEMMA FaultType == TypeOK /\ Fault => faults' \in 0..MaxFaults
BY BoundsAssumption DEF TypeOK, Fault

\* Every step keeps the types: one step per operation of the two handlers.
LEMMA NextType == TypeOK /\ [Next]_vars => TypeOK'
<1> SUFFICES ASSUME TypeOK, [Next]_vars PROVE TypeOK'
    OBVIOUS
<1> USE DEF TypeOK, ObjectTypeOK, CallTypeOK, Goto, objectVars, clientVars, callVars
<1>1. ASSUME NEW c \in Clients, Begin(c) PROVE TypeOK'
  <2>1. pc' \in [Clients -> Labels]
        BY <1>1 DEF Begin, Labels
  <2>2. lockfiles' \in [Clients -> Seq(Files)]
        BY <1>1, RequestsAssumption, SortedNamesType DEF Begin
  <2>3. lockWait' \in [Clients -> 0..MaxLockWait]
        BY <1>1 DEF Begin
  <2> QED
      BY <1>1, <2>1, <2>2, <2>3 DEF Begin
<1>2. ASSUME NEW c \in Clients, BucketAttrs(c) PROVE TypeOK'
  <2>1. pc' \in [Clients -> Labels] \/ Abandon(c)
        BY <1>2 DEF BucketAttrs, Labels
  <2>2. CallTypeOK'
        BY <1>2, <2>1, AbandonType DEF BucketAttrs
  <2>3. faults' \in 0..MaxFaults
        BY <1>2, FaultType DEF BucketAttrs
  <2> QED
      BY <1>2, <2>2, <2>3 DEF BucketAttrs
<1>3. ASSUME NEW c \in Clients, BucketCreate(c) PROVE TypeOK'
  <2>1. pc' \in [Clients -> Labels] \/ Abandon(c)
        BY <1>3 DEF BucketCreate, Labels
  <2>2. CallTypeOK'
        BY <1>3, <2>1, AbandonType DEF BucketCreate
  <2>3. faults' \in 0..MaxFaults /\ bucketExists' \in BOOLEAN
        BY <1>3, FaultType DEF BucketCreate
  <2> QED
      BY <1>3, <2>2, <2>3 DEF BucketCreate
<1>4. ASSUME NEW c \in Clients, TryCreate(c) PROVE TypeOK'
  <2>1. Current(c) \in Files
        BY <1>4 DEF TryCreate, Looping, Current
  <2>2. ObjectTypeOK'
        BY <1>4, <2>1, CreateObjectType DEF TryCreate, Created, Refused, CreateLost
  <2>3. pc' \in [Clients -> Labels] \/ OtherError(c)
        BY <1>4 DEF TryCreate, Created, Refused, CreateLost, Labels
  <2>4. Created(c) => /\ i' \in [Clients -> Nat \ {0}]
                      /\ locksAcquired' \in [Clients -> [Files -> Nat]]
    <3>1. lastGen' \in Nat /\ locksAcquired[c] \in [Files -> Nat]
          BY <2>2
    <3>2. Created(c) => i' \in [Clients -> Nat \ {0}]
          BY DEF Created
    <3>3. Created(c) => locksAcquired' \in [Clients -> [Files -> Nat]]
          BY <2>1, <3>1 DEF Created
    <3> QED
        BY <3>2, <3>3
  <2>5. CallTypeOK'
        BY <1>4, <2>3, <2>4, OtherErrorType DEF TryCreate, Created, Refused, CreateLost
  <2>6. faults' \in 0..MaxFaults
        BY <1>4, FaultType DEF TryCreate, Created, Refused, CreateLost
  <2> QED
      BY <1>4, <2>2, <2>5, <2>6 DEF TryCreate
<1>5. ASSUME NEW c \in Clients, Check(c) PROVE TypeOK'
  <2>1. CallTypeOK'
        BY <1>5, HeldErrorType, OtherErrorType DEF Check
  <2>2. faults' \in 0..MaxFaults
        BY <1>5, FaultType DEF Check
  <2> QED
      BY <1>5, <2>1, <2>2 DEF Check
<1>6. ASSUME NEW c \in Clients, Tick(c) PROVE TypeOK'
  <2>1. pc' \in [Clients -> Labels]
        BY <1>6 DEF Tick, Labels
  <2>2. elapsed' \in [Clients -> Nat]
        BY <1>6 DEF Tick
  <2> QED
      BY <1>6, <2>1, <2>2 DEF Tick
<1>7. ASSUME NEW c \in Clients, ProbesDone(c) PROVE TypeOK'
  <2>1. /\ pc' \in [Clients -> Labels]
        /\ reply' \in [Clients -> Answers]
        /\ locksAcquired' \in [Clients -> [Files -> Nat]]
        BY <1>7, LockErrorReplyType DEF ProbesDone, Labels
  <2>2. lockInfoFailed' \in [Clients -> [Files -> Nat]]
        BY <1>7 DEF ProbesDone
  <2>3. taskErr' \in [Clients -> BOOLEAN]
        BY <1>7 DEF ProbesDone
  <2>4. tasks' \in [Clients -> SUBSET Files]
        BY <1>7 DEF ProbesDone, Taken
  <2> QED
      BY <1>7, <2>1, <2>2, <2>3, <2>4 DEF ProbesDone
<1>8. ASSUME NEW c \in Clients, RollbackDone(c) PROVE TypeOK'
  <2>1. tasks' \in [Clients -> SUBSET Files] /\ taskErr' \in [Clients -> BOOLEAN]
        BY <1>8 DEF RollbackDone, NoTasks
  <2> QED
      BY <1>8, <2>1, LockErrorReplyType DEF RollbackDone
<1>9. ASSUME NEW c \in Clients, Reply(c) PROVE TypeOK'
  <2>1. \/ pc' \in [Clients -> Labels] /\ reply' \in [Clients -> Answers]
        \/ Abandon(c)
        BY <1>9 DEF Reply, Labels, Answers
  <2>2. CallTypeOK'
        BY <1>9, <2>1, AbandonType DEF Reply
  <2>3. faults' \in 0..MaxFaults
        BY <1>9, FaultType DEF Reply
  <2> QED
      BY <1>9, <2>2, <2>3 DEF Reply
<1>10. ASSUME NEW c \in Clients, NEW f \in Files, Probe(c, f) PROVE TypeOK'
  <2>1. tasks' \in [Clients -> SUBSET Files]
        BY <1>10 DEF Probe
  <2>2. lockInfoFailed' \in [Clients -> [Files -> Nat]]
    <3>1. gen[f] \in Nat
          OBVIOUS
    <3>2. \/ lockInfoFailed' = [lockInfoFailed EXCEPT ![c][f] = gen[f]]
          \/ lockInfoFailed' = lockInfoFailed
          BY <1>10 DEF Probe
    <3>3. [lockInfoFailed[c] EXCEPT ![f] = gen[f]] \in [Files -> Nat]
          BY <3>1
    <3> QED
        BY <3>2, <3>3
  <2>3. taskErr' \in [Clients -> BOOLEAN]
        BY <1>10 DEF Probe
  <2>4. faults' \in 0..MaxFaults
        BY <1>10, FaultType DEF Probe
  <2> QED
      BY <1>10, <2>1, <2>2, <2>3, <2>4 DEF Probe
<1>11. ASSUME NEW c \in Clients, Interrupted(c) PROVE TypeOK'
       BY <1>11, AbandonType, FaultType DEF Interrupted
<1>12. ASSUME NEW c \in Clients, ReleaseLocks(c) PROVE TypeOK'
  <2>1. pc' \in [Clients -> Labels]
        BY <1>12 DEF ReleaseLocks, Labels
  <2>2. tasks' \in [Clients -> SUBSET Files]
        BY <1>12 DEF ReleaseLocks, Taken
  <2> QED
      BY <1>12, <2>1, <2>2 DEF ReleaseLocks
<1>13. ASSUME NEW c \in Clients, ReleaseDone(c) PROVE TypeOK'
  <2>1. pc' \in [Clients -> Labels]
        BY <1>13 DEF ReleaseDone, Labels
  <2>2. tasks' \in [Clients -> SUBSET Files] /\ taskErr' \in [Clients -> BOOLEAN]
        BY <1>13 DEF ReleaseDone, NoTasks
  <2> QED
      BY <1>13, <2>1, <2>2 DEF ReleaseDone
<1>14. ASSUME NEW c \in Clients, NEW f \in Files, ReleaseLock(c, f) PROVE TypeOK'
  <2>1. tasks' \in [Clients -> SUBSET Files]
        BY <1>14 DEF ReleaseLock
  <2>2. taskErr' \in [Clients -> BOOLEAN]
        BY <1>14 DEF ReleaseLock
  <2>3. ObjectTypeOK'
        BY <1>14, DeleteObjectType DEF ReleaseLock
  <2>4. faults' \in 0..MaxFaults
        BY <1>14, FaultType DEF ReleaseLock
  <2> QED
      BY <1>14, <2>1, <2>2, <2>3, <2>4 DEF ReleaseLock
<1>15. ASSUME NEW c \in Clients, Crash(c) PROVE TypeOK'
  <2>1. pc' \in [Clients -> Labels] /\ reply' \in [Clients -> Answers]
        BY <1>15 DEF Crash, Labels, Answers
  <2>2. locksAcquired' \in [Clients -> [Files -> Nat]]
        BY <1>15 DEF Crash, NoLocks
  <2>3. tasks' \in [Clients -> SUBSET Files] /\ taskErr' \in [Clients -> BOOLEAN]
        BY <1>15 DEF Crash, NoTasks
  <2>4. faults' \in 0..MaxFaults
        BY <1>15, FaultType DEF Crash
  <2> QED
      BY <1>15, <2>1, <2>2, <2>3, <2>4 DEF Crash
<1>16. ASSUME NEW c \in Clients, NEW f \in Files, ForceUnlock(c, f) PROVE TypeOK'
  <2>1. ObjectTypeOK'
        BY <1>16, DeleteObjectType DEF ForceUnlock
  <2>2. forced' \in SUBSET Nat
    <3>1. lockInfoFailed[c][f] \in Nat
          OBVIOUS
    <3> QED
        BY <1>16, <3>1 DEF ForceUnlock
  <2> QED
      BY <1>16, <2>1, <2>2 DEF ForceUnlock
<1>17. CASE UNCHANGED vars
       BY <1>17 DEF vars
<1> QED
    BY <1>1, <1>2, <1>3, <1>4, <1>5, <1>6, <1>7, <1>8, <1>9, <1>10, <1>11, <1>12,
       <1>13, <1>14, <1>15, <1>16, <1>17
       DEF Next, AcquireStep, ReleaseStep, Terminated

\* The types hold in every state, for all clients, files, requests and bounds.
THEOREM TypeCorrect == Spec => []TypeOK
BY InitType, NextType, PTL DEF Spec

----------------------------------------------------------------------------
(* What a step may do to the store and to the ids the clients know *)

Drops(c) == locksAcquired' = [locksAcquired EXCEPT ![c] = NoLocks]
Learns(c, f) == locksAcquired' = [locksAcquired EXCEPT ![c][f] = lastGen']

Stores ==
    \/ UNCHANGED <<gen, owner, lastGen, forced>> /\ UNCHANGED locksAcquired
    \/ \E c \in Clients : Drops(c) /\ UNCHANGED <<gen, owner, lastGen, forced>>
    \/ \E c \in Clients, f \in Files :
          /\ Waiting(c) /\ f = Current(c)
          /\ CreateObject(c, f) /\ UNCHANGED forced
          /\ Drops(c) \/ Learns(c, f) \/ UNCHANGED locksAcquired
    \/ \E c \in Clients, f \in Files :
          /\ DeleteObject(f) /\ UNCHANGED locksAcquired
          /\ \/ /\ pc[c] \in {"rollback", "releasing"}
                /\ Releasable(f, locksAcquired[c][f]) /\ UNCHANGED forced
             \/ Locked(f) /\ forced' = forced \cup {gen[f]}

\* Every step is one of these: an object is created only for the file its
\* client asks for, and deleted only under the id the step knows.
LEMMA StoreSteps == TypeOK /\ [Next]_vars => Stores
<1> SUFFICES ASSUME TypeOK, [Next]_vars PROVE Stores
    OBVIOUS
<1> USE DEF Stores, objectVars, clientVars, callVars, Drops
<1>1. ASSUME NEW c \in Clients, Begin(c) PROVE Stores
      BY <1>1 DEF Begin
<1>2. ASSUME NEW c \in Clients, BucketAttrs(c) PROVE Stores
      BY <1>2 DEF BucketAttrs, Abandon
<1>3. ASSUME NEW c \in Clients, BucketCreate(c) PROVE Stores
      BY <1>3 DEF BucketCreate, Abandon
<1>4. ASSUME NEW c \in Clients, TryCreate(c) PROVE Stores
  <2>1. Current(c) \in Files
        BY <1>4 DEF TryCreate, Looping, Current, TypeOK, CallTypeOK
  <2>2. Waiting(c)
        BY <1>4 DEF TryCreate, Waiting
  <2>3. OtherError(c) => Drops(c) \/ UNCHANGED locksAcquired
        BY DEF OtherError, Abandon, StayInLoop
  <2>4. UNCHANGED forced
        BY <1>4 DEF TryCreate
  <2>5. CASE Created(c)
        BY <2>1, <2>2, <2>4, <2>5 DEF Created, Learns
  <2>6. CASE Refused(c)
        BY <2>4, <2>6 DEF Refused
  <2>7. CASE CreateLost(c)
        BY <2>1, <2>2, <2>3, <2>4, <2>7 DEF CreateLost
  <2> QED
      BY <1>4, <2>5, <2>6, <2>7 DEF TryCreate
<1>5. ASSUME NEW c \in Clients, Check(c) PROVE Stores
      BY <1>5 DEF Check, HeldError, GiveUpOn, OtherError, Abandon, StayInLoop
<1>6. ASSUME NEW c \in Clients, Tick(c) PROVE Stores
      BY <1>6 DEF Tick
<1>7. ASSUME NEW c \in Clients, ProbesDone(c) PROVE Stores
      BY <1>7 DEF ProbesDone, LockErrorReply
<1>8. ASSUME NEW c \in Clients, RollbackDone(c) PROVE Stores
      BY <1>8 DEF RollbackDone, LockErrorReply
<1>9. ASSUME NEW c \in Clients, Reply(c) PROVE Stores
      BY <1>9 DEF Reply, Abandon
<1>10. ASSUME NEW c \in Clients, NEW f \in Files, Probe(c, f) PROVE Stores
       BY <1>10 DEF Probe
<1>11. ASSUME NEW c \in Clients, Interrupted(c) PROVE Stores
       BY <1>11 DEF Interrupted, Abandon
<1>12. ASSUME NEW c \in Clients, ReleaseLocks(c) PROVE Stores
       BY <1>12 DEF ReleaseLocks
<1>13. ASSUME NEW c \in Clients, ReleaseDone(c) PROVE Stores
       BY <1>13 DEF ReleaseDone
<1>14. ASSUME NEW c \in Clients, NEW f \in Files, ReleaseLock(c, f) PROVE Stores
       BY <1>14 DEF ReleaseLock
<1>15. ASSUME NEW c \in Clients, Crash(c) PROVE Stores
       BY <1>15 DEF Crash
<1>16. ASSUME NEW c \in Clients, NEW f \in Files, ForceUnlock(c, f) PROVE Stores
       BY <1>16 DEF ForceUnlock, Releasable
<1>17. CASE UNCHANGED vars
       BY <1>17 DEF vars
<1> QED
    BY <1>1, <1>2, <1>3, <1>4, <1>5, <1>6, <1>7, <1>8, <1>9, <1>10, <1>11, <1>12,
       <1>13, <1>14, <1>15, <1>16, <1>17
       DEF Next, AcquireStep, ReleaseStep, Terminated

----------------------------------------------------------------------------
(* What a step may do to a call *)

Same(c) ==
    /\ lockfiles'[c] = lockfiles[c] /\ i'[c] = i[c]
    /\ locksAcquired'[c] = locksAcquired[c]

Asks(c) == \E r \in Requests : lockfiles[c] \in SortedNames(r)
Starts(c) ==
    /\ pc[c] \in Early /\ i'[c] = i[c] /\ locksAcquired'[c] = locksAcquired[c]
    /\ \/ pc'[c] \in Early /\ Asks(c)'
       \/ /\ pc[c] # "idle" /\ pc'[c] \in Early \cup {"create"}
          /\ lockfiles'[c] = lockfiles[c]

Takes(c) ==
    /\ Waiting(c) /\ Acquiring(c)'
    /\ lockfiles'[c] = lockfiles[c] /\ i'[c] = i[c] + 1
    /\ locksAcquired'[c] = [locksAcquired[c] EXCEPT ![Current(c)] = lastGen']
    /\ CreateObject(c, Current(c))

Ends(c) ==
    /\ pc'[c] \in GivingBack /\ lockfiles'[c] = lockfiles[c]
    /\ locksAcquired'[c] \in {locksAcquired[c], NoLocks}

Moves(c) ==
    \/ Starts(c) \/ Takes(c) \/ Ends(c)
    \/ Same(c) /\ pc'[c] = pc[c]
    \/ Same(c) /\ Acquiring(c) /\ Acquiring(c)'
    \/ Same(c) /\ Acquiring(c) /\ pc'[c] = "probe"
    \/ Same(c) /\ pc[c] = "create" /\ ~Looping(c) /\ pc'[c] = "held"

\* A call advances through acquireLocks one file at a time, and never comes
\* back from giving up its locks.
LEMMA CallSteps == TypeOK /\ [Next]_vars => \A c \in Clients : Moves(c)
<1> SUFFICES ASSUME TypeOK, [Next]_vars, NEW d \in Clients PROVE Moves(d)
    OBVIOUS
<1>t. /\ pc \in [Clients -> Labels] /\ lockfiles \in [Clients -> Seq(Files)]
      /\ i \in [Clients -> Nat \ {0}]
      /\ locksAcquired \in [Clients -> [Files -> Nat]]
      BY DEF TypeOK, CallTypeOK
<1> USE DEF Goto, objectVars, clientVars, callVars
<1>a. ASSUME NEW c \in Clients, Abandon(c) \/ LockErrorReply(c),
             lockfiles' = lockfiles, i' = i PROVE Moves(d)
      BY <1>t, <1>a DEF Abandon, LockErrorReply, Moves, Ends, Same, GivingBack
<1>s. ASSUME NEW c \in Clients, StayInLoop(c), Acquiring(c) PROVE Moves(d)
      BY <1>t, <1>s DEF StayInLoop, Moves, Same, Acquiring
<1>o. ASSUME NEW c \in Clients, OtherError(c), Acquiring(c) PROVE Moves(d)
      BY <1>o, <1>a, <1>s DEF OtherError, Abandon
<1>1. ASSUME NEW c \in Clients, Begin(c) PROVE Moves(d)
  <2>0. PICK r \in Requests :
            \E s \in SortedNames(r) : lockfiles' = [lockfiles EXCEPT ![c] = s]
        BY <1>1 DEF Begin
  <2>1. PICK s \in SortedNames(r) : lockfiles' = [lockfiles EXCEPT ![c] = s]
        BY <2>0
  <2>2. c = d => lockfiles'[d] = s
        BY <1>t, <2>1
  <2> QED
      BY <1>t, <1>1, <2>1, <2>2 DEF Begin, Moves, Starts, Asks, Same, Early
<1>2. ASSUME NEW c \in Clients, BucketAttrs(c) PROVE Moves(d)
  <2>1. CASE Goto(c, IF bucketExists THEN "create" ELSE "mkbucket") /\ UNCHANGED <<clientVars, i>>
        BY <1>t, <1>2, <2>1 DEF BucketAttrs, Moves, Starts, Same, Early
  <2>2. CASE Abandon(c)
        BY <1>a, <2>2 DEF Abandon
  <2> QED
      BY <1>2, <2>1, <2>2 DEF BucketAttrs
<1>3. ASSUME NEW c \in Clients, BucketCreate(c) PROVE Moves(d)
  <2>1. CASE Goto(c, "create") /\ UNCHANGED <<clientVars, i>>
        BY <1>t, <1>3, <2>1 DEF BucketCreate, Moves, Starts, Same, Early
  <2>2. CASE Abandon(c)
        BY <1>a, <2>2 DEF Abandon
  <2> QED
      BY <1>3, <2>1, <2>2 DEF BucketCreate
<1>4. ASSUME NEW c \in Clients, TryCreate(c) PROVE Moves(d)
  <2>1. Waiting(c) /\ Acquiring(c) /\ pc[c] = "create"
        BY <1>4 DEF TryCreate, Waiting, Acquiring
  <2>2. CASE Created(c)
        BY <1>t, <2>1, <2>2 DEF Created, Moves, Takes, Same, Acquiring
  <2>3. CASE UNCHANGED clientVars /\ i' = i /\ Goto(c, "check")
        BY <1>t, <2>1, <2>3 DEF Moves, Same, Acquiring
  <2>4. CASE OtherError(c)
        BY <1>o, <2>1, <2>4
  <2> QED
      BY <1>4, <2>2, <2>3, <2>4 DEF TryCreate, Refused, CreateLost
<1>5. ASSUME NEW c \in Clients, Check(c) PROVE Moves(d)
  <2>1. Acquiring(c)
        BY <1>5 DEF Check, Acquiring
  <2>2. CASE OtherError(c)
        BY <1>o, <2>1, <2>2
  <2>3. CASE StayInLoop(c)
        BY <1>s, <2>1, <2>3
  <2>4. CASE GiveUpOn(c)
        BY <1>t, <2>1, <2>4 DEF GiveUpOn, Moves, Same
  <2> QED
      BY <1>5, <2>2, <2>3, <2>4 DEF Check, HeldError
<1>6. ASSUME NEW c \in Clients, Tick(c) PROVE Moves(d)
      BY <1>t, <1>6 DEF Tick, Moves, Same, Acquiring
<1>7. ASSUME NEW c \in Clients, ProbesDone(c) PROVE Moves(d)
  <2>1. CASE LockErrorReply(c)
        BY <1>a, <1>7, <2>1 DEF ProbesDone
  <2>2. CASE Goto(c, "rollback") /\ UNCHANGED locksAcquired
        BY <1>t, <1>7, <2>2 DEF ProbesDone, Moves, Ends, Same, GivingBack
  <2> QED
      BY <1>7, <2>1, <2>2 DEF ProbesDone
<1>8. ASSUME NEW c \in Clients, RollbackDone(c) PROVE Moves(d)
      BY <1>a, <1>8 DEF RollbackDone
<1>9. ASSUME NEW c \in Clients, Reply(c) PROVE Moves(d)
  <2>1. CASE Abandon(c)
        BY <1>a, <2>1 DEF Abandon
  <2>2. CASE Goto(c, "held") /\ UNCHANGED <<clientVars, i>>
        BY <1>t, <1>9, <2>2 DEF Reply, Moves, Same
  <2> QED
      BY <1>9, <2>1, <2>2 DEF Reply
<1>10. ASSUME NEW c \in Clients, NEW f \in Files, Probe(c, f) PROVE Moves(d)
       BY <1>10 DEF Probe, Moves, Same
<1>11. ASSUME NEW c \in Clients, Interrupted(c) PROVE Moves(d)
       BY <1>a, <1>11 DEF Interrupted, Abandon
<1>12. ASSUME NEW c \in Clients, ReleaseLocks(c) PROVE Moves(d)
       BY <1>t, <1>12 DEF ReleaseLocks, Moves, Ends, Same, GivingBack
<1>13. ASSUME NEW c \in Clients, ReleaseDone(c) PROVE Moves(d)
       BY <1>t, <1>13 DEF ReleaseDone, Moves, Ends, Same, GivingBack
<1>14. ASSUME NEW c \in Clients, NEW f \in Files, ReleaseLock(c, f) PROVE Moves(d)
       BY <1>14 DEF ReleaseLock, Moves, Same
<1>15. ASSUME NEW c \in Clients, Crash(c) PROVE Moves(d)
       BY <1>t, <1>15 DEF Crash, Moves, Ends, Same, GivingBack
<1>16. ASSUME NEW c \in Clients, NEW f \in Files, ForceUnlock(c, f) PROVE Moves(d)
       BY <1>16 DEF ForceUnlock, Moves, Same
<1>17. CASE UNCHANGED vars
       BY <1>17 DEF vars, Moves, Same
<1> QED
    BY <1>1, <1>2, <1>3, <1>4, <1>5, <1>6, <1>7, <1>8, <1>9, <1>10, <1>11, <1>12,
       <1>13, <1>14, <1>15, <1>16, <1>17
       DEF Next, AcquireStep, ReleaseStep, Terminated

----------------------------------------------------------------------------
(* The inductive invariant *)

LEMMA InitIInv == Init => IInv
<1> SUFFICES ASSUME Init PROVE IInv
    OBVIOUS
<1>1. TypeOK
      BY InitType
<1>2. IdsGivenOut /\ IdsDistinct /\ IdsOwned /\ Kept
      BY DEF Init, ObjectInit, NoLocks, Taken, IdsGivenOut, IdsDistinct, IdsOwned, Kept
<1>3. Filled /\ FilesSorted
      BY DEF Init, Filled, FilesSorted, Sorted, Early, Acquiring
<1>4. BehindCurrent
      BY DEF Init, ObjectInit, BehindCurrent, Has, Locked
<1> QED
    BY <1>1, <1>2, <1>3, <1>4 DEF IInv

\* The store's part: ids come from the store, which never repeats one.
LEMMA NextIds ==
    ASSUME TypeOK, TypeOK', IdsGivenOut, IdsDistinct, IdsOwned, Stores
    PROVE  IdsGivenOut' /\ IdsDistinct' /\ IdsOwned'
<1>t. /\ gen \in [Files -> Nat] /\ owner \in [Files -> Clients] /\ lastGen \in Nat
      /\ locksAcquired \in [Clients -> [Files -> Nat]]
      BY DEF TypeOK, ObjectTypeOK, CallTypeOK
<1> USE DEF IdsGivenOut, IdsDistinct, IdsOwned, Taken
<1>1. CASE UNCHANGED <<gen, owner, lastGen, forced>> /\ UNCHANGED locksAcquired
      BY <1>1
<1>2. ASSUME NEW c \in Clients, Drops(c)
      PROVE  \A d \in Clients, g \in Files :
                 locksAcquired'[d][g] \in {locksAcquired[d][g], 0}
      BY <1>t, <1>2 DEF Drops, NoLocks
<1>3. ASSUME NEW c \in Clients, Drops(c), UNCHANGED <<gen, owner, lastGen, forced>>
      PROVE  IdsGivenOut' /\ IdsDistinct' /\ IdsOwned'
      BY <1>t, <1>2, <1>3
<1>4. ASSUME NEW c \in Clients, NEW f \in Files, CreateObject(c, f),
             Drops(c) \/ Learns(c, f) \/ UNCHANGED locksAcquired
      PROVE  IdsGivenOut' /\ IdsDistinct' /\ IdsOwned'
  <2>1. /\ lastGen' = lastGen + 1
        /\ \A g \in Files : /\ gen'[g] = IF g = f THEN lastGen + 1 ELSE gen[g]
                            /\ owner'[g] = IF g = f THEN c ELSE owner[g]
        BY <1>t, <1>4 DEF CreateObject
  <2>t. /\ lastGen \in Nat /\ \A g \in Files : gen[g] \in Nat
        /\ \A d \in Clients, g \in Files : locksAcquired[d][g] \in Nat
        BY <1>t
  <2>2. CASE \A d \in Clients, g \in Files :
                 locksAcquired'[d][g] \in {locksAcquired[d][g], 0}
    <3>1. IdsGivenOut'
          BY <2>t, <2>1, <2>2
    <3>2. IdsDistinct'
          BY <1>t, <2>1, <2>2
    <3>3. IdsOwned'
          BY <1>t, <2>1, <2>2
    <3> QED
        BY <3>1, <3>2, <3>3
  <2>3. CASE Learns(c, f)
    <3>1. \A d \in Clients, g \in Files :
              locksAcquired'[d][g] = IF d = c /\ g = f THEN lastGen + 1
                                     ELSE locksAcquired[d][g]
          BY <1>t, <2>1, <2>3 DEF Learns
    <3>2. IdsGivenOut'
          BY <2>t, <2>1, <3>1
    <3>3. IdsDistinct'
          BY <1>t, <2>1, <3>1
    <3>4. IdsOwned'
          BY <1>t, <2>1, <3>1
    <3> QED
        BY <3>2, <3>3, <3>4
  <2> QED
      BY <1>2, <1>4, <2>2, <2>3
<1>5. ASSUME NEW f \in Files, DeleteObject(f), UNCHANGED locksAcquired
      PROVE  IdsGivenOut' /\ IdsDistinct' /\ IdsOwned'
      BY <1>t, <1>5 DEF DeleteObject
<1> QED
    BY <1>1, <1>3, <1>4, <1>5 DEF Stores

\* Nobody deletes an object whose id another client still counts on.
LEMMA NextKept ==
    ASSUME TypeOK, TypeOK', IdsGivenOut, IdsDistinct, Kept, Stores,
           \A c \in Clients : Moves(c)
    PROVE  Kept'
<1> SUFFICES ASSUME NEW d \in Clients, NEW g \in Files,
                    locksAcquired'[d][g] # 0, pc'[d] \notin GivingBack
             PROVE  gen'[g] = locksAcquired'[d][g] \/ locksAcquired'[d][g] \in forced'
    BY DEF Kept, Taken
<1>t. /\ gen \in [Files -> Nat] /\ owner \in [Files -> Clients] /\ lastGen \in Nat
      /\ locksAcquired \in [Clients -> [Files -> Nat]]
      BY DEF TypeOK, ObjectTypeOK, CallTypeOK
<1>1. pc[d] \notin GivingBack
      BY DEF Moves, Starts, Takes, Ends, Early, GivingBack, Acquiring, Waiting
<1>2. locksAcquired[d][g] # 0
          => gen[g] = locksAcquired[d][g] \/ locksAcquired[d][g] \in forced
      BY <1>1 DEF Kept, Taken
<1>3. CASE UNCHANGED <<gen, owner, lastGen, forced>> /\ UNCHANGED locksAcquired
      BY <1>2, <1>3
<1>4. ASSUME NEW c \in Clients, Drops(c), UNCHANGED <<gen, owner, lastGen, forced>>
      PROVE  gen'[g] = locksAcquired'[d][g] \/ locksAcquired'[d][g] \in forced'
      BY <1>t, <1>2, <1>4 DEF Drops, NoLocks
<1>5. ASSUME NEW c \in Clients, NEW f \in Files, CreateObject(c, f), UNCHANGED forced,
             Drops(c) \/ Learns(c, f) \/ UNCHANGED locksAcquired
      PROVE  gen'[g] = locksAcquired'[d][g] \/ locksAcquired'[d][g] \in forced'
  <2>1. gen[f] = 0 /\ gen'[f] = lastGen' /\ (g # f => gen'[g] = gen[g])
        BY <1>t, <1>5 DEF CreateObject, Locked
  <2>2. CASE Drops(c) \/ UNCHANGED locksAcquired
    <3>1. locksAcquired'[d][g] = locksAcquired[d][g]
          BY <1>t, <2>2 DEF Drops, NoLocks
    <3> QED
        BY <1>2, <1>5, <2>1, <3>1
  <2>3. CASE Learns(c, f)
    <3>1. locksAcquired'[d][g] = IF d = c /\ g = f THEN lastGen' ELSE locksAcquired[d][g]
          BY <1>t, <2>3 DEF Learns
    <3> QED
        BY <1>2, <1>5, <2>1, <3>1
  <2> QED
      BY <1>5, <2>2, <2>3
<1>6. ASSUME NEW c \in Clients, NEW f \in Files, DeleteObject(f), UNCHANGED locksAcquired,
             \/ /\ pc[c] \in {"rollback", "releasing"}
                /\ Releasable(f, locksAcquired[c][f]) /\ UNCHANGED forced
             \/ Locked(f) /\ forced' = forced \cup {gen[f]}
      PROVE  gen'[g] = locksAcquired'[d][g] \/ locksAcquired'[d][g] \in forced'
  <2>1. CASE f # g
        BY <1>t, <1>2, <1>6, <2>1 DEF DeleteObject
  <2>2. CASE f = g /\ Locked(f) /\ forced' = forced \cup {gen[f]}
        BY <1>t, <1>2, <1>6, <2>2
  <2>3. CASE /\ f = g /\ pc[c] \in {"rollback", "releasing"}
             /\ Releasable(f, locksAcquired[c][f]) /\ UNCHANGED forced
    <3>1. c # d
          BY <1>1, <2>3 DEF GivingBack
    <3>2. gen[g] # locksAcquired[d][g]
          BY <1>t, <1>6, <2>3, <3>1 DEF Releasable, Locked, IdsDistinct, Taken
    <3> QED
        BY <1>2, <1>6, <2>3, <3>2
  <2> QED
      BY <1>6, <2>1, <2>2, <2>3
<1> QED
    BY <1>3, <1>4, <1>5, <1>6 DEF Stores

\* The call's part: files are taken in their order, and none is skipped.
LEMMA NextOrder ==
    ASSUME TypeOK, TypeOK', IdsGivenOut, Filled, FilesSorted, BehindCurrent,
           Stores, \A c \in Clients : Moves(c)
    PROVE  Filled' /\ FilesSorted' /\ BehindCurrent'
<1>t. /\ gen \in [Files -> Nat] /\ owner \in [Files -> Clients] /\ lastGen \in Nat
      /\ locksAcquired \in [Clients -> [Files -> Nat]]
      /\ lockfiles \in [Clients -> Seq(Files)] /\ i \in [Clients -> Nat \ {0}]
      BY DEF TypeOK, ObjectTypeOK, CallTypeOK
<1>1. ASSUME NEW c \in Clients PROVE Sorted(lockfiles'[c])
  <2>1. Asks(c)' => Sorted(lockfiles'[c])
        BY SortedNamesType, RequestsAssumption DEF Asks
  <2> QED
      BY <2>1 DEF FilesSorted, Moves, Starts, Takes, Ends, Same
<1>2. ASSUME NEW c \in Clients
      PROVE  /\ pc'[c] \in Early => i'[c] = 1
             /\ (Acquiring(c) \/ pc[c] = "held")' =>
                   \A j \in 1..Len(lockfiles'[c]) :
                       j < i'[c] => lockfiles'[c][j] \in Taken(c)'
             /\ pc'[c] = "held" => ~Looping(c)'
  <2>0. \/ Starts(c) \/ Ends(c) \/ Takes(c)
        \/ Same(c) /\ (pc'[c] = pc[c] \/ (Acquiring(c) /\ (Acquiring(c)' \/ pc'[c] = "probe")))
        \/ Same(c) /\ pc[c] = "create" /\ ~Looping(c) /\ pc'[c] = "held"
        BY DEF Moves
  <2> USE DEF Filled, Taken, Early, GivingBack, Acquiring
  <2>t. /\ i[c] \in Nat \ {0} /\ lockfiles[c] \in Seq(Files)
        /\ locksAcquired[c] \in [Files -> Nat]
        BY <1>t
  <2>1. CASE Starts(c)
        BY <2>t, <2>1 DEF Starts
  <2>2. CASE Ends(c)
        BY <2>2 DEF Ends
  <2>3. CASE Same(c) /\ (pc'[c] = pc[c] \/ (Acquiring(c) /\ (Acquiring(c)' \/ pc'[c] = "probe")))
        BY <2>t, <2>3 DEF Same, Looping
  <2>4. CASE Same(c) /\ pc[c] = "create" /\ ~Looping(c) /\ pc'[c] = "held"
        BY <2>t, <2>4 DEF Same, Looping
  <2>5. CASE Takes(c)
    <3>1. Acquiring(c) /\ Acquiring(c)'
          BY <2>5 DEF Takes, Waiting
    <3>2. lastGen' # 0
          BY <1>t, <2>5 DEF Takes, CreateObject
    <3>3. Current(c) = lockfiles[c][i[c]] /\ i'[c] = i[c] + 1 /\ lockfiles'[c] = lockfiles[c]
          BY <2>5 DEF Takes, Current
    <3>4. ASSUME NEW j \in 1..Len(lockfiles[c]), j < i[c] + 1
          PROVE  lockfiles[c][j] \in Taken(c)'
      <4>1. lockfiles[c][j] \in Files
            BY <2>t
      <4>2. j = i[c] \/ lockfiles[c][j] \in Taken(c)
            BY <2>t, <3>1, <3>4
      <4>3. locksAcquired'[c][lockfiles[c][j]] # 0
            BY <2>t, <2>5, <3>2, <3>3, <4>1, <4>2 DEF Takes
      <4> QED
          BY <4>1, <4>3
    <3> QED
        BY <3>1, <3>3, <3>4
  <2> QED
      BY <2>0, <2>1, <2>2, <2>3, <2>4, <2>5
<1>3. ASSUME NEW c \in Clients, NEW f \in Files, Has(c, f)'
      PROVE  /\ pc'[c] \notin Early
             /\ Waiting(c)' => f <= Current(c)'
  <2>t. /\ i[c] \in Nat \ {0} /\ lockfiles[c] \in Seq(Files)
        BY <1>t
  <2>1. Has(c, f) \/ (Waiting(c) /\ f = Current(c))
    <3>1. CASE gen' = gen /\ owner' = owner
          BY <1>3, <3>1 DEF Has, Locked
    <3>2. ASSUME NEW d \in Clients, NEW g \in Files, CreateObject(d, g),
                 Waiting(d), g = Current(d)
          PROVE  Has(c, f) \/ (Waiting(c) /\ f = Current(c))
          BY <1>t, <1>3, <3>2 DEF Has, Locked, CreateObject
    <3>3. ASSUME NEW g \in Files, DeleteObject(g) PROVE Has(c, f)
          BY <1>t, <1>3, <3>3 DEF Has, Locked, DeleteObject
    <3> QED
        BY <3>1, <3>2, <3>3 DEF Stores
  <2>2. pc[c] \notin Early
        BY <2>1 DEF BehindCurrent, Waiting, Early
  <2>3. pc'[c] \notin Early
        BY <2>2 DEF Moves, Starts, Takes, Ends, Early, GivingBack, Acquiring
  <2>4. ASSUME Waiting(c)' PROVE f <= Current(c)'
    <3>1. /\ Acquiring(c) /\ lockfiles'[c] = lockfiles[c]
          /\ i'[c] \in {i[c], i[c] + 1} /\ i'[c] <= Len(lockfiles[c])
          BY <2>2, <2>4 DEF Moves, Starts, Takes, Ends, Same, Waiting, Looping,
                            Acquiring, GivingBack
    <3>2. Waiting(c)
          BY <2>t, <3>1 DEF Waiting, Looping, Acquiring
    <3>3. f <= Current(c)
      <4>1. Current(c) \in Nat
            BY <2>t, <3>2, FilesAssumption DEF Current, Waiting, Looping
      <4> QED
          BY <2>1, <3>2, <4>1 DEF BehindCurrent
    <3>4. /\ lockfiles[c][i[c]] <= lockfiles[c][i'[c]]
          /\ lockfiles[c][i[c]] \in Nat /\ lockfiles[c][i'[c]] \in Nat
          BY <2>t, <3>1, <3>2, FilesAssumption DEF FilesSorted, Sorted, Waiting, Looping
    <3> QED
        BY <3>1, <3>3, <3>4, FilesAssumption DEF Current
  <2> QED
      BY <2>3, <2>4
<1> QED
    BY <1>1, <1>2, <1>3 DEF Filled, FilesSorted, BehindCurrent

LEMMA NextIInv == IInv /\ [Next]_vars => IInv'
<1> SUFFICES ASSUME IInv, [Next]_vars PROVE IInv'
    OBVIOUS
<1>1. TypeOK /\ TypeOK'
      BY NextType DEF IInv
<1>2. Stores /\ \A c \in Clients : Moves(c)
      BY <1>1, StoreSteps, CallSteps
<1> QED
    BY <1>1, <1>2, NextIds, NextKept, NextOrder DEF IInv

THEOREM Inductive == Spec => []IInv
BY InitIInv, NextIInv, PTL DEF Spec

----------------------------------------------------------------------------
(* What the invariant is for *)

\* No two clients are ever granted the lock on one file, unless one of the two
\* was released by force.
THEOREM Exclusion == Spec => []MutualExclusion
<1>1. IInv => MutualExclusion
      BY DEF IInv, Kept, IdsDistinct, MutualExclusion, Taken, GivingBack
<1> QED
    BY <1>1, Inductive, PTL

\* A grant is complete: every lock asked for, each still in place.
THEOREM Completeness == Spec => []GrantIsComplete
<1>1. IInv => GrantIsComplete
  <2> SUFFICES ASSUME IInv, NEW c \in Clients, pc[c] = "held",
                      NEW j \in 1..Len(lockfiles[c])
               PROVE  LET f == lockfiles[c][j]
                      IN  /\ f \in Taken(c)
                          /\ gen[f] = locksAcquired[c][f] \/ locksAcquired[c][f] \in forced
      BY DEF GrantIsComplete
  <2>1. j < i[c]
        BY DEF IInv, TypeOK, CallTypeOK, Filled, Looping
  <2>2. lockfiles[c][j] \in Taken(c)
        BY <2>1 DEF IInv, Filled
  <2> QED
      BY <2>2 DEF IInv, Kept, GivingBack
<1> QED
    BY <1>1, Inductive, PTL

\* Whoever deletes a lock object without force is the client that created it.
THEOREM OwnersRelease == Spec => OnlyOwnerReleases
<1>1. IInv /\ [Next]_vars =>
          [\A f \in Files :
              (Locked(f) /\ gen'[f] # gen[f])
                  => pc[owner[f]] \in {"rollback", "releasing"} \/ gen[f] \in forced']_vars
  <2> SUFFICES ASSUME IInv, [Next]_vars, NEW f \in Files, Locked(f), gen'[f] # gen[f]
               PROVE  pc[owner[f]] \in {"rollback", "releasing"} \/ gen[f] \in forced'
      OBVIOUS
  <2>t. /\ gen \in [Files -> Nat] /\ locksAcquired \in [Clients -> [Files -> Nat]]
        BY DEF IInv, TypeOK, ObjectTypeOK, CallTypeOK
  <2>1. ASSUME NEW c \in Clients, NEW g \in Files, CreateObject(c, g) PROVE FALSE
        BY <2>t, <2>1 DEF CreateObject, Locked
  <2>2. PICK c \in Clients, g \in Files :
            /\ DeleteObject(g)
            /\ \/ /\ pc[c] \in {"rollback", "releasing"}
                  /\ Releasable(g, locksAcquired[c][g])
               \/ Locked(g) /\ forced' = forced \cup {gen[g]}
        BY <2>1, StoreSteps DEF IInv, Stores
  <2>3. g = f
        BY <2>t, <2>2 DEF DeleteObject
  <2>4. CASE pc[c] \in {"rollback", "releasing"} /\ Releasable(f, locksAcquired[c][f])
    <3>1. f \in Taken(c) /\ gen[f] = locksAcquired[c][f]
          BY <2>4 DEF Releasable, Locked, Taken
    <3>2. owner[f] = c
          BY <3>1 DEF IInv, IdsOwned
    <3> QED
        BY <2>4, <3>2
  <2> QED
      BY <2>2, <2>3, <2>4
<1> QED
    BY <1>1, Inductive, PTL DEF Spec, OnlyOwnerReleases

\* Of any files one is the last: the order that sorting puts them in.
LEMMA LastFile ==
    ASSUME NEW T \in SUBSET Files, T # {}
    PROVE  \E m \in T : \A t \in T : t <= m
<1>1. PICK n \in Files : \A f \in Files : f <= n
      BY FilesAssumption
<1> DEFINE U == {n - t : t \in T}
           R == OpToRel(<, Nat)
<1>2. n \in Nat /\ \A t \in T : t \in Nat /\ n - t \in Nat
      BY <1>1, FilesAssumption
<1>3. U \subseteq Nat /\ U # {}
      BY <1>2
<1>4. IsWellFoundedOn(R, Nat)
      BY NatLessThanWellFounded
<1>5. PICK x \in U : \A y \in U : ~ (<<y, x>> \in R)
  <2> HIDE DEF U, R
  <2> QED
      BY <1>3, <1>4, WFMin
<1>6. PICK m \in T : x = n - m
      BY <1>5
<1>7. ASSUME NEW t \in T PROVE t <= m
  <2>1. n - t \in Nat /\ n - m \in Nat /\ n - t \in U
        BY <1>2
  <2>2. ~ (n - t < n - m)
        BY <1>5, <1>6, <2>1 DEF OpToRel
  <2> QED
      BY <1>2, <2>2
<1> QED
    BY <1>7

\* However many clients wait, they never wait for each other in a circle.
THEOREM NoDeadlock == Spec => []NoCircularWait
<1>1. IInv => NoCircularWait
  <2> SUFFICES ASSUME IInv, NEW S \in SUBSET Clients, S # {}, \A c \in S : Waiting(c)
               PROVE  \E c \in S : \A d \in S \ {c} : ~Has(d, Current(c))
      BY DEF NoCircularWait
  <2>1. \A c \in S : Current(c) \in Files
        BY DEF IInv, TypeOK, CallTypeOK, Waiting, Looping, Current
  <2> DEFINE T == {Current(c) : c \in S}
  <2>2. PICK c \in S : \A d \in S : Current(d) <= Current(c)
    <3>1. T \in SUBSET Files /\ T # {}
          BY <2>1
    <3>2. PICK m \in T : \A t \in T : t <= m
      <4> HIDE DEF T
      <4> QED
          BY <3>1, LastFile
    <3> QED
        BY <3>2
  <2>3. CASE \A d \in S \ {c} : ~Has(d, Current(c))
        BY <2>3
  <2>4. ASSUME NEW d \in S \ {c}, Has(d, Current(c))
        PROVE  \E e \in S : \A b \in S \ {e} : ~Has(b, Current(e))
    <3>1. Current(c) <= Current(d)
          BY <2>1, <2>4 DEF IInv, BehindCurrent
    <3>2. Current(d) = Current(c)
      <4>1. Current(c) \in Nat /\ Current(d) \in Nat
            BY <2>1, FilesAssumption
      <4>2. Current(d) <= Current(c)
            BY <2>2
      <4> QED
          BY <3>1, <4>1, <4>2
    <3>3. \A b \in S \ {d} : ~Has(b, Current(d))
          BY <2>4, <3>2 DEF Has
    <3> QED
        BY <3>3
  <2> QED
      BY <2>3, <2>4
<1> QED
    BY <1>1, Inductive, PTL

----------------------------------------------------------------------------
(* What an orderly refusal or release leaves behind *)

\* While nothing has failed and nothing was released by force, whoever has a
\* lock object knows its id and will delete it, unless its call broke off; and
\* what a rollback or a release still has to delete is there under the id known.
Quiet == faults = 0 /\ forced = {}
Undoing(c) == pc[c] \in {"rollback", "releasing"}
Accounts(c) ==
    /\ ~taskErr[c] /\ pc[c] # "unsure"
    /\ \A f \in Files : Has(c, f) =>
          \/ pc[c] = "ended" /\ reply[c] = "error"
          \/ /\ pc[c] # "ended" /\ locksAcquired[c][f] = gen[f]
             /\ Undoing(c) => f \in tasks[c]
    /\ Undoing(c) => \A f \in tasks[c] : Releasable(f, locksAcquired[c][f])
Orderly == Quiet => \A c \in Clients : Accounts(c)

\* A call that does not move keeps its account whatever the others create, and
\* whatever they delete if it is theirs.
Rests(d) ==
    /\ pc'[d] = pc[d] /\ tasks'[d] = tasks[d] /\ taskErr'[d] = taskErr[d]
    /\ reply'[d] = reply[d] /\ locksAcquired'[d] = locksAcquired[d]

LEMMA RestsAccounts ==
    ASSUME TypeOK, NEW d \in Clients, Accounts(d), Rests(d),
           \/ UNCHANGED objectVars
           \/ \E c \in Clients \ {d}, f \in Files : CreateObject(c, f)
           \/ \E f \in Files : DeleteObject(f) /\ gen[f] # locksAcquired[d][f]
    PROVE  Accounts(d)'
<1>t. /\ gen \in [Files -> Nat] /\ owner \in [Files -> Clients] /\ lastGen \in Nat
      /\ tasks[d] \in SUBSET Files
      BY DEF TypeOK, ObjectTypeOK, CallTypeOK
<1> USE DEF Accounts, Rests, Has, Locked, Releasable, Undoing
<1>1. CASE UNCHANGED objectVars
      BY <1>1 DEF objectVars
<1>2. ASSUME NEW c \in Clients \ {d}, NEW f \in Files, CreateObject(c, f) PROVE Accounts(d)'
      BY <1>t, <1>2 DEF CreateObject
<1>3. ASSUME NEW f \in Files, DeleteObject(f), gen[f] # locksAcquired[d][f] PROVE Accounts(d)'
      BY <1>t, <1>3 DEF DeleteObject
<1> QED
    BY <1>1, <1>2, <1>3

\* A call that breaks off has no account to keep.
LEMMA AbandonAccounts ==
    ASSUME TypeOK, NEW c \in Clients, Accounts(c), Abandon(c)
    PROVE  Accounts(c)'
<1>t. pc \in [Clients -> Labels] /\ reply \in [Clients -> Answers]
      BY DEF TypeOK, CallTypeOK
<1> QED
    BY <1>t DEF Accounts, Abandon, Goto, Undoing

\* One that ends with a LockError or a release has nothing left to delete.
LEMMA EmptyAccounts ==
    ASSUME NEW c \in Clients, ~taskErr'[c], pc'[c] = "ended",
           UNCHANGED objectVars, \A f \in Files : ~Has(c, f)
    PROVE  Accounts(c)'
BY DEF Accounts, Undoing, Has, Locked, objectVars

LEMMA NextOrderly ==
    ASSUME IInv, Orderly, [Next]_vars PROVE Orderly'
<1> SUFFICES ASSUME Quiet', NEW d \in Clients PROVE Accounts(d)'
    BY DEF Orderly
<1>t. TypeOK
      BY DEF IInv
<1>u. /\ pc \in [Clients -> Labels] /\ locksAcquired \in [Clients -> [Files -> Nat]]
      /\ tasks \in [Clients -> SUBSET Files] /\ taskErr \in [Clients -> BOOLEAN]
      /\ reply \in [Clients -> Answers] /\ lastGen \in Nat /\ gen \in [Files -> Nat]
      /\ owner \in [Files -> Clients] /\ faults \in Nat
      BY <1>t DEF TypeOK, ObjectTypeOK, CallTypeOK
<1>f. ~Fault
      BY <1>u DEF Quiet, Fault
<1> USE DEF Goto, objectVars, clientVars, callVars
<1>1. ASSUME Quiet PROVE \A c \in Clients : Accounts(c)
      BY <1>1 DEF Orderly
<1>k. ASSUME Quiet, NEW c \in Clients, NEW f \in Taken(c), pc[c] \notin GivingBack
      PROVE  Releasable(f, locksAcquired[c][f])
      BY <1>k, <1>u DEF IInv, Kept, Quiet, Taken, Releasable, Locked
<1>r. ASSUME Quiet, Rests(d), UNCHANGED objectVars PROVE Accounts(d)'
      BY <1>1, <1>r, <1>t, RestsAccounts
<1>a. ASSUME Quiet, NEW c \in Clients, Abandon(c), UNCHANGED objectVars PROVE Accounts(d)'
      BY <1>1, <1>a, <1>t, <1>r, <1>u, AbandonAccounts DEF Abandon, Rests
<1>s. ASSUME Quiet, NEW c \in Clients, StayInLoop(c), UNCHANGED objectVars,
             Acquiring(c) PROVE Accounts(d)'
      BY <1>1, <1>s, <1>t, <1>r, <1>u
         DEF StayInLoop, Rests, Accounts, Acquiring, Undoing, Has, Locked
<1>o. ASSUME Quiet, NEW c \in Clients, OtherError(c), UNCHANGED objectVars,
             Acquiring(c) PROVE Accounts(d)'
      BY <1>o, <1>a, <1>s DEF OtherError
<1>2. ASSUME NEW c \in Clients, Begin(c) PROVE Accounts(d)'
  <2>1. Quiet
        BY <1>2 DEF Begin, Quiet
  <2> QED
      BY <1>1, <1>2, <2>1, <1>u, <1>r DEF Begin, Rests, Accounts, Undoing, Has, Locked
<1>3. ASSUME NEW c \in Clients, BucketAttrs(c) PROVE Accounts(d)'
  <2>1. Quiet
        BY <1>3, <1>f DEF BucketAttrs, Quiet
  <2> QED
      BY <1>1, <1>3, <1>f, <2>1, <1>u, <1>r
         DEF BucketAttrs, Rests, Accounts, Undoing, Has, Locked
<1>4. ASSUME NEW c \in Clients, BucketCreate(c) PROVE Accounts(d)'
  <2>1. Quiet
        BY <1>4, <1>f DEF BucketCreate, Quiet
  <2>2. CASE Abandon(c)
        BY <1>4, <2>1, <2>2, <1>a DEF BucketCreate
  <2>3. CASE Goto(c, "create") /\ UNCHANGED <<clientVars, i, elapsed, tasks, taskErr, reply>>
        BY <1>1, <1>4, <2>1, <2>3, <1>u, <1>r
           DEF BucketCreate, Rests, Accounts, Undoing, Has, Locked
  <2> QED
      BY <1>4, <1>f, <2>2, <2>3 DEF BucketCreate
<1>5. ASSUME NEW c \in Clients, TryCreate(c) PROVE Accounts(d)'
  <2>1. Quiet
        BY <1>5, <1>f DEF TryCreate, Created, Refused, CreateLost, Quiet
  <2>2. CASE Refused(c)
        BY <1>1, <1>5, <2>1, <2>2, <1>u, <1>r
           DEF TryCreate, Refused, Rests, Accounts, Undoing, Has, Locked
  <2>3. CASE Created(c) /\ c # d
    <3>1. Current(c) \in Files
          BY <1>5, <1>t DEF TryCreate, Looping, Current, TypeOK, CallTypeOK
    <3>2. Rests(d)
          BY <2>3, <1>u DEF Created, Rests
    <3> QED
        BY <1>1, <1>t, <2>1, <2>3, <3>1, <3>2, RestsAccounts DEF Created
  <2>4. CASE Created(c) /\ c = d
    <3>1. Current(c) \in Files /\ pc[c] = "create"
          BY <1>5, <1>t DEF TryCreate, Looping, Current, TypeOK, CallTypeOK
    <3>2. ASSUME NEW f \in Files
          PROVE  /\ gen'[f] = IF f = Current(c) THEN lastGen' ELSE gen[f]
                 /\ owner'[f] = IF f = Current(c) THEN c ELSE owner[f]
                 /\ locksAcquired'[c][f] =
                        IF f = Current(c) THEN lastGen' ELSE locksAcquired[c][f]
          BY <1>u, <2>4, <3>1 DEF Created, CreateObject
    <3>3. UNCHANGED <<pc, tasks, taskErr, reply>>
          BY <2>4 DEF Created
    <3> QED
        BY <1>1, <1>u, <2>1, <2>4, <3>1, <3>2, <3>3 DEF Accounts, Undoing, Has, Locked
  <2> QED
      BY <1>5, <1>f, <2>2, <2>3, <2>4 DEF TryCreate, CreateLost
<1>6. ASSUME NEW c \in Clients, Check(c) PROVE Accounts(d)'
  <2>1. Quiet
        BY <1>6, <1>f DEF Check, Quiet
  <2>2. Acquiring(c) /\ UNCHANGED objectVars
        BY <1>6 DEF Check, Acquiring
  <2>3. CASE GiveUpOn(c)
        BY <1>1, <2>1, <2>2, <2>3, <1>u, <1>r
           DEF GiveUpOn, Rests, Accounts, Acquiring, Undoing, Has, Locked
  <2> QED
      BY <1>6, <1>f, <1>o, <1>s, <2>1, <2>2, <2>3 DEF Check, HeldError
<1>7. ASSUME NEW c \in Clients, Tick(c) PROVE Accounts(d)'
  <2>1. Quiet
        BY <1>7 DEF Tick, Quiet
  <2> QED
      BY <1>1, <1>7, <2>1, <1>u, <1>r DEF Tick, Rests, Accounts, Undoing, Has, Locked
<1>8. ASSUME NEW c \in Clients, ProbesDone(c) PROVE Accounts(d)'
  <2>1. Quiet /\ UNCHANGED objectVars /\ pc[c] = "probe"
        BY <1>8 DEF ProbesDone, Quiet
  <2>2. CASE c # d
        BY <1>8, <2>1, <2>2, <1>u, <1>r DEF ProbesDone, LockErrorReply, Rests
  <2>3. ~taskErr'[c]
        BY <1>8, <1>u DEF ProbesDone
  <2>4. CASE c = d /\ Taken(c) = {} /\ LockErrorReply(c)
    <3>1. \A f \in Files : ~Has(c, f)
          BY <1>1, <2>1, <2>4 DEF Accounts, Has, Locked, Taken
    <3> QED
        BY <2>1, <2>3, <2>4, <3>1, <1>u, EmptyAccounts DEF LockErrorReply
  <2>5. CASE c = d /\ Goto(c, "rollback") /\ UNCHANGED <<reply, locksAcquired>>
    <3>1. tasks'[c] = Taken(c) /\ pc'[c] = "rollback"
          BY <1>8, <2>5, <1>u DEF ProbesDone
    <3>2. \A f \in Taken(c) : Releasable(f, locksAcquired[c][f])
          BY <1>k, <2>1 DEF GivingBack
    <3>3. \A f \in Files : Has(c, f) => f \in Taken(c) /\ locksAcquired[c][f] = gen[f]
          BY <1>1, <2>1 DEF Accounts, Has, Locked, Taken
    <3> QED
        BY <2>1, <2>3, <2>5, <3>1, <3>2, <3>3 DEF Accounts, Undoing, Has, Locked, Releasable
  <2> QED
      BY <1>8, <2>2, <2>4, <2>5 DEF ProbesDone
<1>9. ASSUME NEW c \in Clients, RollbackDone(c) PROVE Accounts(d)'
  <2>1. Quiet /\ UNCHANGED objectVars /\ pc[c] = "rollback"
        BY <1>9 DEF RollbackDone, Quiet
  <2>2. CASE c # d
        BY <1>9, <2>1, <2>2, <1>u, <1>r DEF RollbackDone, NoTasks, LockErrorReply, Rests
  <2>3. CASE c = d
    <3>1. tasks[c] = {}
          BY <1>1, <1>9, <2>1 DEF RollbackDone, Waited, Accounts
    <3>2. \A f \in Files : ~Has(c, f)
          BY <1>1, <2>1, <3>1 DEF Accounts, Undoing
    <3>3. ~taskErr'[c] /\ pc'[c] = "ended"
          BY <1>9, <1>u DEF RollbackDone, NoTasks, LockErrorReply
    <3> QED
        BY <2>1, <2>3, <3>2, <3>3, EmptyAccounts
  <2> QED
      BY <2>2, <2>3
<1>10. ASSUME NEW c \in Clients, Reply(c) PROVE Accounts(d)'
  <2>1. Quiet
        BY <1>10, <1>f DEF Reply, Quiet
  <2> QED
      BY <1>1, <1>10, <1>f, <2>1, <1>u, <1>r
         DEF Reply, Rests, Accounts, Undoing, Has, Locked
<1>11. ASSUME NEW c \in Clients, NEW f \in Files, Probe(c, f) PROVE Accounts(d)'
  <2>1. Quiet
        BY <1>11, <1>f DEF Probe, Quiet
  <2> QED
      BY <1>1, <1>11, <1>f, <2>1, <1>u, <1>r
         DEF Probe, Rests, Accounts, Undoing, Has, Locked
<1>12. ASSUME NEW c \in Clients, ReleaseLocks(c) PROVE Accounts(d)'
  <2>1. Quiet /\ UNCHANGED objectVars
        BY <1>12 DEF ReleaseLocks, Quiet
  <2>2. CASE c # d
        BY <1>12, <2>1, <2>2, <1>u, <1>r DEF ReleaseLocks, Rests
  <2>3. CASE c = d
    <3>1. pc[c] = "held"
          BY <1>1, <1>12, <2>1 DEF ReleaseLocks, Accounts
    <3>2. tasks'[c] = Taken(c) /\ pc'[c] = "releasing"
          BY <1>12, <1>u DEF ReleaseLocks
    <3>3. \A f \in Taken(c) : Releasable(f, locksAcquired[c][f])
          BY <1>k, <2>1, <3>1 DEF GivingBack
    <3>4. \A f \in Files : Has(c, f) => f \in Taken(c) /\ locksAcquired[c][f] = gen[f]
          BY <1>1, <2>1, <3>1 DEF Accounts, Has, Locked, Taken
    <3>5. ~taskErr[c]
          BY <1>1, <2>1 DEF Accounts
    <3> QED
        BY <1>12, <2>1, <2>3, <3>2, <3>3, <3>4, <3>5
           DEF ReleaseLocks, Accounts, Undoing, Has, Locked, Releasable
  <2> QED
      BY <2>2, <2>3
<1>13. ASSUME NEW c \in Clients, ReleaseDone(c) PROVE Accounts(d)'
  <2>1. Quiet /\ UNCHANGED objectVars /\ pc[c] = "releasing"
        BY <1>13 DEF ReleaseDone, Quiet
  <2>2. CASE c # d
        BY <1>13, <2>1, <2>2, <1>u, <1>r DEF ReleaseDone, NoTasks, Rests
  <2>3. CASE c = d
    <3>1. tasks[c] = {} /\ ~taskErr[c]
          BY <1>1, <1>13, <2>1 DEF ReleaseDone, Waited, Accounts
    <3>2. \A f \in Files : ~Has(c, f)
          BY <1>1, <2>1, <3>1 DEF Accounts, Undoing
    <3>3. ~taskErr'[c] /\ pc'[c] = "ended"
          BY <1>13, <1>u, <3>1 DEF ReleaseDone, NoTasks
    <3> QED
        BY <2>1, <2>3, <3>2, <3>3, EmptyAccounts
  <2> QED
      BY <2>2, <2>3
<1>14. ASSUME NEW c \in Clients, NEW f \in Files, ReleaseLock(c, f) PROVE Accounts(d)'
  <2>1. Quiet /\ Undoing(c) /\ f \in tasks[c]
        BY <1>14, <1>f DEF ReleaseLock, Quiet, Undoing
  <2>2. Releasable(f, locksAcquired[c][f])
        BY <1>1, <2>1 DEF Accounts
  <2>3. DeleteObject(f) /\ UNCHANGED taskErr
        BY <1>14, <1>f, <2>2 DEF ReleaseLock
  <2>4. CASE c # d
    <3>1. gen[f] # locksAcquired[d][f]
          BY <1>u, <2>2, <2>4 DEF IInv, IdsDistinct, Taken, Releasable, Locked
    <3>2. Rests(d)
          BY <1>14, <2>3, <2>4, <1>u DEF ReleaseLock, Rests
    <3> QED
        BY <1>1, <1>t, <2>1, <2>3, <3>1, <3>2, RestsAccounts
  <2>5. CASE c = d
    <3>1. tasks'[c] = tasks[c] \ {f} /\ UNCHANGED <<pc, locksAcquired, reply, owner>>
          BY <1>14, <2>3, <1>u DEF ReleaseLock, DeleteObject
    <3>2. \A g \in Files : gen'[g] = IF g = f THEN 0 ELSE gen[g]
          BY <2>3, <1>u DEF DeleteObject
    <3> QED
        BY <1>1, <1>u, <2>1, <2>3, <2>5, <3>1, <3>2
           DEF Accounts, Undoing, Has, Locked, Releasable
  <2> QED
      BY <2>4, <2>5
<1>15. ASSUME NEW c \in Clients, Interrupted(c) \/ Crash(c) PROVE Accounts(d)'
       BY <1>15, <1>f DEF Interrupted, Crash
<1>16. ASSUME NEW c \in Clients, NEW f \in Files, ForceUnlock(c, f) PROVE Accounts(d)'
       BY <1>16 DEF ForceUnlock, Quiet
<1>17. CASE UNCHANGED vars
  <2>1. Quiet /\ Rests(d) /\ UNCHANGED objectVars
        BY <1>17 DEF vars, Quiet, Rests
  <2> QED
      BY <2>1, <1>r
<1> QED
    BY <1>2, <1>3, <1>4, <1>5, <1>6, <1>7, <1>8, <1>9, <1>10, <1>11, <1>12,
       <1>13, <1>14, <1>15, <1>16, <1>17
       DEF Next, AcquireStep, ReleaseStep, Terminated

\* A client that ended in good order left no lock behind.
THEOREM NothingLeft == Spec => []NoOrphans
<1>1. Init => Orderly
      BY DEF Init, ObjectInit, Orderly, Accounts, Undoing, Has, Locked
<1>2. IInv /\ Orderly /\ [Next]_vars => Orderly'
      BY NextOrderly
<1>3. IInv /\ Orderly => NoOrphans
  <2> SUFFICES ASSUME IInv, Orderly, NEW f \in Files, Locked(f), pc[owner[f]] = "ended",
                      ~(faults > 0 \/ forced # {})
               PROVE  reply[owner[f]] = "error"
      BY DEF NoOrphans
  <2>1. owner[f] \in Clients /\ faults = 0
        BY DEF IInv, TypeOK, ObjectTypeOK
  <2> QED
      BY <2>1 DEF Orderly, Quiet, Accounts, Has
<1> QED
    BY <1>1, <1>2, <1>3, Inductive, PTL DEF Spec

----------------------------------------------------------------------------
(* Grants are atomic: Locking implements LockService *)

\* What a client knows of a request it asks for: its files, and no others; an id
\* belongs to one file; and what was forced had been given out.
Asking(c) == pc[c] \in {"bucket", "mkbucket", "create", "check", "wait"}
AsksWell ==
    \A c \in Clients :
        /\ Asking(c) => Asks(c)
        /\ pc[c] \in Early => Taken(c) = {}
        /\ \A f \in Taken(c) : \E j \in 1..Len(lockfiles[c]) : f = lockfiles[c][j]
IdsOfOneFile ==
    \A c \in Clients, f, g \in Files :
        Locked(f) /\ gen[f] = locksAcquired[c][g] => f = g
ForcedGivenOut == \A n \in forced : n <= lastGen

GInv == IInv /\ AsksWell /\ IdsOfOneFile /\ ForcedGivenOut

\* Sorting a request's files keeps which files they are.
LEMMA SortedNamesFiles ==
    ASSUME NEW r \in Seq(Files), NEW s \in SortedNames(r)
    PROVE  {s[j] : j \in 1..Len(s)} = Service!Wanted(r)
<1>1. s \in [1..Len(r) -> Files] /\ \A f \in Files : Count(s, f) = Count(r, f)
      BY DEF SortedNames
<1>2. s \in Seq(Files) /\ Len(s) = Len(r)
  <2>1. Len(r) \in Nat
        OBVIOUS
  <2> QED
      BY <1>1, <2>1
<1> DEFINE At(t, f) == {j \in 1..Len(t) : t[j] = f}
<1>3. ASSUME NEW t \in Seq(Files), NEW f \in Files
      PROVE  Count(t, f) = 0 <=> \A j \in 1..Len(t) : t[j] # f
  <2>1. IsFiniteSet(1..Len(t))
        BY FS_Interval
  <2>2. IsFiniteSet(At(t, f))
        BY <2>1, FS_Subset
  <2>3. Cardinality(At(t, f)) = 0 <=> At(t, f) = {}
        BY <2>2, FS_EmptySet
  <2> QED
      BY <2>3 DEF Count
<1>4. ASSUME NEW f \in Files
      PROVE  (\E j \in 1..Len(s) : s[j] = f) <=> (\E j \in 1..Len(r) : r[j] = f)
      BY <1>1, <1>2, <1>3
<1>5. \A j \in 1..Len(s) : s[j] \in Files
      BY <1>2
<1>6. \A j \in 1..Len(r) : r[j] \in Files
      OBVIOUS
<1>7. DOMAIN r = 1..Len(r)
      OBVIOUS
<1> QED
    BY <1>4, <1>5, <1>6, <1>7 DEF Service!Wanted

\* One client moves at a time, or an id is forced and no client moves.
Turns ==
    \/ \E c \in Clients :
          /\ UNCHANGED forced
          /\ \A d \in Clients \ {c} :
                pc'[d] = pc[d] /\ locksAcquired'[d] = locksAcquired[d]
    \/ \E f \in Files :
          /\ Locked(f)
          /\ forced' = forced \cup {gen[f]} /\ UNCHANGED <<pc, locksAcquired>>
    \/ UNCHANGED <<pc, locksAcquired, forced>>

LEMMA NextTurns == TypeOK /\ [Next]_vars => Turns
<1> SUFFICES ASSUME TypeOK, [Next]_vars PROVE Turns
    OBVIOUS
<1>t. pc \in [Clients -> Labels] /\ locksAcquired \in [Clients -> [Files -> Nat]]
      BY DEF TypeOK, CallTypeOK
<1> USE DEF Goto, clientVars, callVars
<1> DEFINE One(c) == /\ UNCHANGED forced
                     /\ \A d \in Clients \ {c} :
                           pc'[d] = pc[d] /\ locksAcquired'[d] = locksAcquired[d]
<1>a. ASSUME NEW c \in Clients,
             UNCHANGED pc \/ \E l \in Labels : Goto(c, l),
             \/ UNCHANGED locksAcquired
             \/ locksAcquired' = [locksAcquired EXCEPT ![c] = NoLocks]
             \/ locksAcquired' = [locksAcquired EXCEPT ![c][Current(c)] = lastGen'],
             UNCHANGED forced
      PROVE  Turns
  <2>1. One(c)
        BY <1>t, <1>a
  <2> QED
      BY <2>1 DEF Turns
<1> USE DEF Abandon, LockErrorReply, StayInLoop, OtherError, GiveUpOn, HeldError, Labels
<1>1. ASSUME NEW c \in Clients, Begin(c) PROVE Turns
      BY <1>1, <1>a DEF Begin
<1>2. ASSUME NEW c \in Clients, BucketAttrs(c) PROVE Turns
      BY <1>2, <1>a DEF BucketAttrs
<1>3. ASSUME NEW c \in Clients, BucketCreate(c) PROVE Turns
      BY <1>3, <1>a DEF BucketCreate
<1>4. ASSUME NEW c \in Clients, TryCreate(c) PROVE Turns
      BY <1>4, <1>a DEF TryCreate, Created, Refused, CreateLost
<1>5. ASSUME NEW c \in Clients, Check(c) PROVE Turns
      BY <1>5, <1>a DEF Check
<1>6. ASSUME NEW c \in Clients, Tick(c) PROVE Turns
      BY <1>6, <1>a DEF Tick
<1>7. ASSUME NEW c \in Clients, ProbesDone(c) PROVE Turns
      BY <1>7, <1>a DEF ProbesDone
<1>8. ASSUME NEW c \in Clients, RollbackDone(c) PROVE Turns
      BY <1>8, <1>a DEF RollbackDone
<1>9. ASSUME NEW c \in Clients, Reply(c) PROVE Turns
      BY <1>9, <1>a DEF Reply
<1>10. ASSUME NEW c \in Clients, NEW f \in Files, Probe(c, f) PROVE Turns
       BY <1>10, <1>a DEF Probe
<1>11. ASSUME NEW c \in Clients, Interrupted(c) PROVE Turns
       BY <1>11, <1>a DEF Interrupted
<1>12. ASSUME NEW c \in Clients, ReleaseLocks(c) PROVE Turns
       BY <1>12, <1>a DEF ReleaseLocks
<1>13. ASSUME NEW c \in Clients, ReleaseDone(c) PROVE Turns
       BY <1>13, <1>a DEF ReleaseDone
<1>14. ASSUME NEW c \in Clients, NEW f \in Files, ReleaseLock(c, f) PROVE Turns
       BY <1>14, <1>a DEF ReleaseLock
<1>15. ASSUME NEW c \in Clients, Crash(c) PROVE Turns
       BY <1>15, <1>a DEF Crash
<1>16. ASSUME NEW c \in Clients, NEW f \in Files, ForceUnlock(c, f) PROVE Turns
       BY <1>16 DEF ForceUnlock, Releasable, Turns
<1>17. CASE UNCHANGED vars
       BY <1>17 DEF vars, Turns
<1> QED
    BY <1>1, <1>2, <1>3, <1>4, <1>5, <1>6, <1>7, <1>8, <1>9, <1>10, <1>11, <1>12,
       <1>13, <1>14, <1>15, <1>16, <1>17
       DEF Next, AcquireStep, ReleaseStep, Terminated

LEMMA InitGInv == Init => GInv
<1> SUFFICES ASSUME Init PROVE GInv
    OBVIOUS
<1>1. \A c \in Clients : pc[c] = "idle" /\ Taken(c) = {}
      BY DEF Init, NoLocks, Taken
<1>2. \A f \in Files : ~Locked(f)
      BY DEF Init, ObjectInit, Locked
<1>3. AsksWell /\ IdsOfOneFile
      BY <1>1, <1>2 DEF AsksWell, Asking, IdsOfOneFile
<1> QED
    BY <1>3, InitIInv DEF Init, GInv, ForcedGivenOut

\* A call keeps the files it asked for and takes only those.
LEMMA NextAsksWell ==
    ASSUME TypeOK, AsksWell, \A c \in Clients : Moves(c) PROVE AsksWell'
<1> SUFFICES ASSUME NEW c \in Clients
             PROVE  /\ Asking(c)' => Asks(c)'
                    /\ pc'[c] \in Early => Taken(c)' = {}
                    /\ \A f \in Taken(c)' :
                          \E j \in 1..Len(lockfiles'[c]) : f = lockfiles'[c][j]
    BY DEF AsksWell
<1>t. /\ locksAcquired[c] \in [Files -> Nat]
      /\ lockfiles[c] \in Seq(Files) /\ i[c] \in Nat \ {0}
      BY DEF TypeOK, CallTypeOK
<1>1. /\ Asking(c) => Asks(c)
      /\ pc[c] \in Early => Taken(c) = {}
      /\ \A f \in Taken(c) : \E j \in 1..Len(lockfiles[c]) : f = lockfiles[c][j]
      BY DEF AsksWell
<1>2. lockfiles'[c] = lockfiles[c] /\ Asks(c) => Asks(c)'
      BY DEF Asks
<1> USE DEF Early, Asking, Acquiring
<1>3. CASE Starts(c)
  <2>1. Taken(c)' = {}
        BY <1>1, <1>3 DEF Starts, Taken
  <2> QED
      BY <1>1, <1>2, <1>3, <2>1 DEF Starts
<1>4. CASE Takes(c)
  <2>1. Taken(c)' \subseteq Taken(c) \cup {Current(c)}
        BY <1>t, <1>4 DEF Takes, Taken
  <2>2. i[c] \in 1..Len(lockfiles[c])
        BY <1>t, <1>4 DEF Takes, Waiting, Looping
  <2> QED
      BY <1>1, <1>2, <1>4, <2>1, <2>2 DEF Takes, Waiting, Current
<1>5. CASE Ends(c)
  <2>1. Taken(c)' \subseteq Taken(c)
        BY <1>5 DEF Ends, Taken, NoLocks
  <2> QED
      BY <1>1, <1>5, <2>1 DEF Ends, GivingBack
<1>6. CASE Same(c) /\ pc'[c] = pc[c]
      BY <1>1, <1>2, <1>6 DEF Same, Taken
<1>7. CASE Same(c) /\ Acquiring(c) /\ (Acquiring(c)' \/ pc'[c] = "probe")
      BY <1>1, <1>2, <1>7 DEF Same, Taken
<1>8. CASE Same(c) /\ pc[c] = "create" /\ ~Looping(c) /\ pc'[c] = "held"
      BY <1>1, <1>2, <1>8 DEF Same, Taken
<1> QED
    BY <1>3, <1>4, <1>5, <1>6, <1>7, <1>8 DEF Moves

LEMMA NextIdsOfOneFile ==
    ASSUME TypeOK, IdsGivenOut, IdsOfOneFile, Stores PROVE IdsOfOneFile'
<1>t. /\ gen \in [Files -> Nat] /\ owner \in [Files -> Clients] /\ lastGen \in Nat
      /\ locksAcquired \in [Clients -> [Files -> Nat]]
      BY DEF TypeOK, ObjectTypeOK, CallTypeOK
<1> USE DEF IdsOfOneFile, IdsGivenOut, Locked
<1>1. CASE UNCHANGED <<gen, owner, lastGen, forced>> /\ UNCHANGED locksAcquired
      BY <1>1
<1>2. ASSUME NEW c \in Clients, Drops(c)
      PROVE  \A d \in Clients, g \in Files :
                 locksAcquired'[d][g] \in {locksAcquired[d][g], 0}
      BY <1>t, <1>2 DEF Drops, NoLocks
<1>3. ASSUME NEW c \in Clients, Drops(c), UNCHANGED <<gen, owner, lastGen, forced>>
      PROVE  IdsOfOneFile'
      BY <1>t, <1>2, <1>3
<1>4. ASSUME NEW c \in Clients, NEW f \in Files, CreateObject(c, f),
             Drops(c) \/ Learns(c, f) \/ UNCHANGED locksAcquired
      PROVE  IdsOfOneFile'
  <2>1. /\ lastGen' = lastGen + 1
        /\ \A g \in Files : gen'[g] = IF g = f THEN lastGen + 1 ELSE gen[g]
        BY <1>t, <1>4 DEF CreateObject
  <2>t. /\ lastGen \in Nat /\ \A g \in Files : gen[g] \in Nat /\ gen[g] <= lastGen
        /\ \A d \in Clients, g \in Files : /\ locksAcquired[d][g] \in Nat
                                           /\ locksAcquired[d][g] <= lastGen
        BY <1>t
  <2>2. CASE \A d \in Clients, g \in Files :
                 locksAcquired'[d][g] \in {locksAcquired[d][g], 0}
        BY <2>t, <2>1, <2>2
  <2>3. CASE Learns(c, f)
    <3>1. \A d \in Clients, g \in Files :
              locksAcquired'[d][g] = IF d = c /\ g = f THEN lastGen + 1
                                     ELSE locksAcquired[d][g]
          BY <1>t, <2>1, <2>3 DEF Learns
    <3> QED
        BY <2>t, <2>1, <3>1
  <2> QED
      BY <1>2, <1>4, <2>2, <2>3
<1>5. ASSUME NEW f \in Files, DeleteObject(f), UNCHANGED locksAcquired
      PROVE  IdsOfOneFile'
      BY <1>t, <1>5 DEF DeleteObject
<1> QED
    BY <1>1, <1>3, <1>4, <1>5 DEF Stores

LEMMA NextGInv == GInv /\ [Next]_vars => GInv'
<1> SUFFICES ASSUME GInv, [Next]_vars PROVE GInv'
    OBVIOUS
<1>1. TypeOK /\ IdsGivenOut
      BY DEF GInv, IInv
<1>2. Stores /\ Turns /\ \A c \in Clients : Moves(c)
      BY <1>1, StoreSteps, CallSteps, NextTurns
<1>3. ForcedGivenOut'
  <2>t. gen \in [Files -> Nat] /\ lastGen \in Nat /\ forced \subseteq Nat
        BY <1>1 DEF TypeOK, ObjectTypeOK
  <2>1. lastGen' \in Nat /\ lastGen <= lastGen'
        BY <1>2, <2>t DEF Stores, CreateObject, DeleteObject
  <2>2. \A n \in forced' : n \in forced \/ \E f \in Files : n = gen[f]
        BY <1>2 DEF Stores
  <2>3. \A n \in forced' : n \in Nat /\ n <= lastGen
        BY <1>1, <2>t, <2>2 DEF GInv, ForcedGivenOut, IdsGivenOut
  <2> QED
      BY <2>t, <2>1, <2>3 DEF ForcedGivenOut
<1> QED
    BY <1>1, <1>2, <1>3, NextIInv, NextAsksWell, NextIdsOfOneFile DEF GInv

\* What the store of the service sees of a client that takes its locks or has
\* them.
Counted(c) == pc[c] \in {"create", "check", "wait", "held"}

LEMMA GrantedFunctions ==
    /\ granted = [d \in Clients |-> granted[d]]
    /\ revoked = [d \in Clients |-> revoked[d]]
    /\ granted' = [d \in Clients |-> granted'[d]]
    /\ revoked' = [d \in Clients |-> revoked'[d]]
BY DEF granted, revoked

\* A successful answer grants the whole request at once, whatever was revoked.
LEMMA ReplyGrants ==
    ASSUME GInv, NEW c \in Clients, Same(c), pc[c] = "create", ~Looping(c),
           pc'[c] = "held", UNCHANGED revoked,
           \A d \in Clients \ {c} : granted'[d] = granted[d]
    PROVE  Service!Next
<1>t. /\ lockfiles[c] \in Seq(Files) /\ i[c] \in Nat \ {0}
      /\ locksAcquired \in [Clients -> [Files -> Nat]]
      BY DEF GInv, IInv, TypeOK, CallTypeOK
<1>1. PICK r \in Requests : lockfiles[c] \in SortedNames(r)
      BY DEF GInv, AsksWell, Asking, Asks
<1>2. Service!Wanted(r) = {lockfiles[c][j] : j \in 1..Len(lockfiles[c])}
      BY <1>1, SortedNamesFiles, RequestsAssumption
<1>3. \A j \in 1..Len(lockfiles[c]) : lockfiles[c][j] \in Taken(c)
      BY <1>t DEF GInv, IInv, Filled, Acquiring, Looping
<1>4. Taken(c) = Service!Wanted(r)
      BY <1>2, <1>3 DEF GInv, AsksWell
<1>5. granted[c] = {}
      BY DEF granted
<1>6. granted'[c] = Service!Wanted(r)
      BY <1>4 DEF granted, Same, Taken
<1>7. ASSUME NEW d \in Clients \ {c}
      PROVE  (granted[d] \ revoked[d]) \cap (Service!Wanted(r) \ revoked[c]) = {}
  <2> SUFFICES ASSUME NEW f \in granted[d], f \notin revoked[d],
                      f \in Service!Wanted(r), f \notin revoked[c]
               PROVE  FALSE
      OBVIOUS
  <2>1. pc[d] = "held" /\ f \in Taken(d) /\ locksAcquired[d][f] \notin forced
        BY DEF granted, revoked
  <2>2. f \in Taken(c) /\ locksAcquired[c][f] \notin forced
        BY <1>4 DEF revoked
  <2>3. gen[f] = locksAcquired[c][f] /\ gen[f] = locksAcquired[d][f]
        BY <2>1, <2>2 DEF GInv, IInv, Kept, GivingBack
  <2>4. locksAcquired[c][f] # locksAcquired[d][f]
        BY <2>1, <2>2 DEF GInv, IInv, IdsDistinct
  <2> QED
      BY <2>3, <2>4
<1>8. granted' = [granted EXCEPT ![c] = Service!Wanted(r)]
      BY <1>6, GrantedFunctions
<1>9. Service!Grant(c, r)
      BY <1>5, <1>7, <1>8 DEF Service!Grant
<1> QED
    BY <1>1, <1>9 DEF Service!Next

\* A release by force revokes one lock of the one client that took it.
LEMMA ForceRevokes ==
    ASSUME GInv, NEW f \in Files, Locked(f),
           forced' = forced \cup {gen[f]}, UNCHANGED <<pc, locksAcquired>>
    PROVE  Service!Next \/ UNCHANGED <<granted, revoked>>
<1>1. owner[f] \in Clients
      BY DEF GInv, IInv, TypeOK, ObjectTypeOK
<1>2. granted' = granted
      BY DEF granted, Taken
<1>3. ASSUME NEW d \in Clients, NEW g \in Taken(d), locksAcquired[d][g] = gen[f]
      PROVE  d = owner[f] /\ g = f
  <2>1. g = f
        BY <1>3 DEF GInv, IdsOfOneFile, Taken
  <2> QED
      BY <1>3, <2>1 DEF GInv, IInv, IdsOwned
<1>4. ASSUME NEW d \in Clients
      PROVE  revoked'[d] = revoked[d]
                           \cup {g \in Taken(d) : Counted(d) /\ locksAcquired[d][g] = gen[f]}
      BY DEF revoked, Taken, Counted
<1>5. \A d \in Clients \ {owner[f]} : revoked'[d] = revoked[d]
      BY <1>3, <1>4
<1> DEFINE o == owner[f]
           Hit == {g \in Taken(o) : Counted(o) /\ locksAcquired[o][g] = gen[f]}
<1>6. revoked'[owner[f]] \in {revoked[owner[f]], revoked[owner[f]] \cup {f}}
  <2>1. \A g \in Hit : g = f
        BY <1>1, <1>3
  <2>2. Hit = {} \/ Hit = {f}
        BY <2>1
  <2>3. revoked'[o] = revoked[o] \cup Hit
        BY <1>1, <1>4
  <2> HIDE DEF Hit
  <2> QED
      BY <2>2, <2>3
<1>7. CASE revoked'[owner[f]] = revoked[owner[f]]
      BY <1>2, <1>5, <1>7, GrantedFunctions
<1>8. CASE revoked'[owner[f]] = revoked[owner[f]] \cup {f}
  <2>1. revoked' = [revoked EXCEPT ![owner[f]] = @ \cup {f}]
        BY <1>1, <1>5, <1>8, GrantedFunctions
  <2>2. Service!Revoke(owner[f], f)
        BY <1>2, <2>1 DEF Service!Revoke
  <2> QED
      BY <1>1, <2>2 DEF Service!Next
<1> QED
    BY <1>6, <1>7, <1>8

\* A lock that is taken has a new id, which nobody has forced.
LEMMA TakesRestores ==
    ASSUME GInv, NEW c \in Clients, Takes(c), UNCHANGED forced,
           \A d \in Clients \ {c} : granted'[d] = granted[d] /\ revoked'[d] = revoked[d]
    PROVE  Service!Next
<1>t. /\ lockfiles[c] \in Seq(Files) /\ i[c] \in Nat \ {0} /\ lastGen \in Nat
      /\ locksAcquired[c] \in [Files -> Nat] /\ forced \subseteq Nat
      BY DEF GInv, IInv, TypeOK, ObjectTypeOK, CallTypeOK
<1>1. Current(c) \in Files
      BY <1>t DEF Takes, Waiting, Looping, Current
<1>2. lastGen' = lastGen + 1 /\ lastGen' \notin forced /\ lastGen' # 0
      BY <1>t DEF Takes, CreateObject, GInv, ForcedGivenOut
<1>3. Acquiring(c) /\ Acquiring(c)'
      BY DEF Takes, Waiting, Acquiring
<1>4. granted[c] = {} /\ granted'[c] = {}
      BY <1>3 DEF granted, Acquiring
<1>5. \A g \in Files : locksAcquired'[c][g] =
                          IF g = Current(c) THEN lastGen' ELSE locksAcquired[c][g]
      BY <1>t, <1>1 DEF Takes
<1>6. revoked'[c] = revoked[c] \ {Current(c)}
      BY <1>2, <1>3, <1>5 DEF revoked, Taken, Acquiring
<1>7. granted' = granted /\ revoked' = [revoked EXCEPT ![c] = @ \ {Current(c)}]
      BY <1>4, <1>6, GrantedFunctions
<1> QED
    BY <1>1, <1>4, <1>7 DEF Service!Next, Service!Restore

\* Every step of Locking is a step of LockService, or changes nothing it shows.
LEMMA NextGrants == GInv /\ [Next]_vars => [Service!Next]_<<granted, revoked>>
<1> SUFFICES ASSUME GInv, [Next]_vars
             PROVE  Service!Next \/ UNCHANGED <<granted, revoked>>
    OBVIOUS
<1>1. TypeOK
      BY DEF GInv, IInv
<1>2. Turns /\ \A c \in Clients : Moves(c)
      BY <1>1, CallSteps, NextTurns
<1>3. ASSUME NEW c \in Clients, UNCHANGED forced,
             \A d \in Clients \ {c} :
                 pc'[d] = pc[d] /\ locksAcquired'[d] = locksAcquired[d]
      PROVE  Service!Next \/ UNCHANGED <<granted, revoked>>
  <2>1. \A d \in Clients \ {c} : granted'[d] = granted[d] /\ revoked'[d] = revoked[d]
        BY <1>3 DEF granted, revoked, Taken
  <2>2. CASE granted'[c] = {} /\ revoked'[c] = {}
    <3>1. /\ granted' = [granted EXCEPT ![c] = {}]
          /\ revoked' = [revoked EXCEPT ![c] = {}]
          BY <2>1, <2>2, GrantedFunctions
    <3> QED
        BY <3>1 DEF Service!Next, Service!Return
  <2>3. CASE granted'[c] = granted[c] /\ revoked'[c] = revoked[c]
        BY <2>1, <2>3, GrantedFunctions
  <2>4. CASE Starts(c)
    <3>1. Taken(c) = {} /\ Taken(c)' = {}
          BY <2>4 DEF Starts, GInv, AsksWell, Taken
    <3>2. granted'[c] = {} /\ revoked'[c] = {}
          BY <3>1 DEF granted, revoked
    <3> QED
        BY <2>2, <3>2
  <2>5. CASE Takes(c)
        BY <1>3, <2>1, <2>5, TakesRestores
  <2>6. CASE pc'[c] \in GivingBack \cup {"probe"}
        BY <2>2, <2>6 DEF granted, revoked, GivingBack
  <2>7. CASE Same(c) /\ pc'[c] = pc[c]
        BY <1>3, <2>3, <2>7 DEF Same, granted, revoked, Taken
  <2>8. CASE Same(c) /\ Acquiring(c) /\ Acquiring(c)'
        BY <1>3, <2>3, <2>8 DEF Same, Acquiring, granted, revoked, Taken
  <2>9. CASE Same(c) /\ pc[c] = "create" /\ ~Looping(c) /\ pc'[c] = "held"
    <3>1. revoked'[c] = revoked[c]
          BY <1>3, <2>9 DEF Same, revoked, Taken
    <3>2. UNCHANGED revoked
          BY <2>1, <3>1, GrantedFunctions
    <3> QED
        BY <2>1, <2>9, <3>2, ReplyGrants
  <2> QED
      BY <1>2, <2>4, <2>5, <2>6, <2>7, <2>8, <2>9 DEF Moves, Ends
<1>4. CASE UNCHANGED <<pc, locksAcquired, forced>>
      BY <1>4 DEF granted, revoked, Taken
<1> QED
    BY <1>2, <1>3, <1>4, ForceRevokes DEF Turns

\* What hosts rely on is implemented: whole requests are granted, in one step
\* each, and never over a lock that someone else still has, and only what was
\* released by force is lost before it is given back.
THEOREM Refinement == Spec => GrantsAreAtomic
<1>1. Init => Service!Init
      BY DEF Init, granted, revoked, Service!Init
<1> QED
    BY <1>1, InitGInv, NextGInv, NextGrants, PTL
       DEF Spec, GrantsAreAtomic, Service!Spec
=============================================================================
