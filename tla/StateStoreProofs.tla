-------------------------- MODULE StateStoreProofs --------------------------
(***************************************************************************)
(* Safety of StateStore for every set of clients and every bound on waits, *)
(* saves and faults.                                                       *)
(***************************************************************************)
EXTENDS StateStore, TLAPS

\* TypeOK in three parts: what calls keep, what is stored, and the lock.
CallType ==
    /\ pc \in [Clients -> Labels]
    /\ lock \in [Clients -> BOOLEAN] /\ skipCreate \in [Clients -> BOOLEAN]
    /\ lockWait \in [Clients -> 0..MaxLockWait]
    /\ elapsed \in [Clients -> Nat]
    /\ created \in [Clients -> BOOLEAN]
    /\ lockInfo \in [Clients -> Nat] /\ heldBy \in [Clients -> Nat]
    /\ copy \in [Clients -> SUBSET Edits]
    /\ saves \in [Clients -> 0..MaxSaves]
    /\ reply \in [Clients -> Answers]

StoreType ==
    /\ stateExists \in BOOLEAN
    /\ edits \in SUBSET Edits
    /\ stray \in SUBSET (SUBSET Edits)
    /\ acked \in SUBSET Edits /\ strayed \in BOOLEAN
    /\ forced \in SUBSET Nat

\* Ids are generations the store gave out, and two clients never get the same.
IdsGivenOut ==
    /\ gen[StateLock] <= lastGen
    /\ \A c \in Clients : lockInfo[c] <= lastGen

IdsDistinct ==
    \A c, d \in Clients : c # d /\ lockInfo[c] # 0 => lockInfo[c] # lockInfo[d]

\* Who reads under the lock or works on the state has it, unless it was forced.
Locking == {"locks", "mklocks", "create", "check", "wait"}
Early   == {"idle", "bucket", "mkbucket"} \cup Locking
Holding(c) == Editing(c) \/ (pc[c] = "read" /\ lock[c])
Kept ==
    \A c \in Clients :
        /\ pc[c] \in Locking => lock[c]
        /\ pc[c] \in Early \/ (pc[c] = "read" /\ ~lock[c]) => lockInfo[c] = 0
        /\ Holding(c) =>
              lockInfo[c] # 0 /\ (gen[StateLock] = lockInfo[c] \/ lockInfo[c] \in forced)
        /\ pc[c] = "ended" => lockInfo[c] = 0 \/ gen[StateLock] # lockInfo[c]

\* Without faults the owner of the lock knows its id, or GetState has not told
\* it.
OwnerKnows ==
    faults = 0 /\ Locked(StateLock) =>
        LET c == owner[StateLock] IN
        lockInfo[c] = gen[StateLock] \/ (pc[c] = "ended" /\ reply[c] = "noState")

StrayIsStrayed == stray # {} => strayed

LockInv == IdsGivenOut /\ IdsDistinct /\ Kept /\ OwnerKnows
IInv == TypeOK /\ LockInv /\ StrayIsStrayed /\ CopyIsCurrent /\ NoLostUpdate

-----------------------------------------------------------------------------
\* The types are those of the parts.
LEMMA Parts ==
    TypeOK <=> /\ ObjectTypeOK /\ CallType /\ StoreType
               /\ stateBucket \in BOOLEAN /\ locksBucket \in BOOLEAN /\ faults \in 0..MaxFaults
BY DEF TypeOK, CallType, StoreType

LEMMA FaultType == TypeOK /\ Fault => faults' \in 0..MaxFaults
BY StateBounds DEF TypeOK, Fault

LEMMA CreateObjectType ==
    ASSUME ObjectTypeOK, NEW c \in Clients, CreateObject(c, StateLock) PROVE ObjectTypeOK'
BY StateLockAssumption DEF ObjectTypeOK, CreateObject

LEMMA DeleteObjectType ==
    ASSUME ObjectTypeOK, DeleteObject(StateLock) PROVE ObjectTypeOK'
BY StateLockAssumption DEF ObjectTypeOK, DeleteObject

LEMMA UnchangedType ==
    /\ ObjectTypeOK /\ UNCHANGED objectVars => ObjectTypeOK'
    /\ StoreType /\ Quiet => StoreType'
    /\ StoreType /\ UNCHANGED <<stateExists, edits, stray, acked, strayed, forced>> => StoreType'
BY DEF ObjectTypeOK, objectVars, StoreType, Quiet

\* The ways in which GetState goes on keep the types of a call.
LEMMA GotoType ==
    ASSUME CallType, NEW c \in Clients, NEW l \in Labels, Goto(c, l)
    PROVE  pc' \in [Clients -> Labels]
BY DEF CallType, Goto

LEMMA MovesType ==
    ASSUME CallType, NEW c \in Clients, NEW l \in Labels, Goto(c, l),
           UNCHANGED <<requestVars, sessionVars, reply>>, elapsed' \in [Clients -> Nat]
    PROVE  CallType'
BY GotoType DEF CallType, requestVars, sessionVars

LEMMA AnswerType ==
    ASSUME CallType, NEW c \in Clients, NEW a \in Answers, Answer(c, a)
    PROVE  pc' \in [Clients -> Labels] /\ reply' \in [Clients -> Answers]
BY DEF CallType, Answer, Goto, Labels

LEMMA FailType ==
    ASSUME CallType, NEW c \in Clients, Fail(c), UNCHANGED saves
    PROVE  CallType'
<1>1. "error" \in Answers
      BY DEF Answers
<1>2. lockInfo' \in [Clients -> Nat]
      BY DEF Fail, CallType
<1> QED
    BY <1>1, <1>2, AnswerType DEF CallType, Fail, requestVars

LEMMA OtherErrorType ==
    ASSUME CallType, NEW c \in Clients, OtherError(c), UNCHANGED saves
    PROVE  CallType'
<1>1. CASE Fail(c)
      BY <1>1, FailType
<1>2. CASE StayInLoop(c)
      BY <1>2, MovesType DEF StayInLoop, Labels, CallType
<1> QED
    BY <1>1, <1>2 DEF OtherError

LEMMA HeldErrorType ==
    ASSUME TypeOK, NEW c \in Clients, HeldError(c), UNCHANGED saves
    PROVE  CallType'
<1>1. CASE StayInLoop(c)
      BY <1>1, Parts, MovesType DEF StayInLoop, Labels, CallType
<1>2. CASE /\ Answer(c, "lockError") /\ heldBy' = [heldBy EXCEPT ![c] = gen[StateLock]]
           /\ UNCHANGED <<requestVars, created, lockInfo, copy, elapsed>>
  <2>1. gen[StateLock] \in Nat /\ "lockError" \in Answers
        BY StateLockAssumption DEF TypeOK, ObjectTypeOK, Answers
  <2>2. heldBy' \in [Clients -> Nat]
        BY <1>2, <2>1 DEF TypeOK
  <2> QED
      BY <1>2, <2>1, <2>2, Parts, AnswerType DEF CallType, requestVars
<1> QED
    BY <1>1, <1>2 DEF HeldError

\* A read takes the whole content of the state.
LEMMA ReadType ==
    ASSUME TypeOK, NEW c \in Clients, ReadState(c) \/ ReadNothing(c), UNCHANGED saves
    PROVE  CallType'
<1>1. CASE ReadState(c)
  <2>1. copy' \in [Clients -> SUBSET Edits] /\ created' \in [Clients -> BOOLEAN]
        BY <1>1 DEF ReadState, TypeOK
  <2>2. pc' \in [Clients -> Labels]
        BY <1>1 DEF ReadState, TypeOK, Goto, Labels
  <2>3. reply' \in [Clients -> Answers]
        BY <1>1 DEF ReadState, TypeOK, Answers
  <2> QED
      BY <1>1, <2>1, <2>2, <2>3 DEF ReadState, TypeOK, CallType, requestVars
<1>2. CASE ReadNothing(c)
  <2>1. lockInfo' \in [Clients -> Nat] /\ "noState" \in Answers
        BY <1>2 DEF ReadNothing, TypeOK, Answers
  <2> QED
      BY <1>2, <2>1, Parts, AnswerType DEF ReadNothing, CallType, requestVars
<1> QED
    BY <1>1, <1>2

\* Every step keeps the types.
LEMMA NextType == TypeOK /\ [Next]_vars => TypeOK'
<1> SUFFICES ASSUME TypeOK, [Next]_vars PROVE TypeOK'
    OBVIOUS
<1>a. /\ ObjectTypeOK /\ CallType /\ StoreType
      /\ stateBucket \in BOOLEAN /\ locksBucket \in BOOLEAN /\ faults \in 0..MaxFaults
      BY Parts
<1>b. Fault => faults' \in 0..MaxFaults
      BY FaultType
<1> DEFINE Typed == /\ ObjectTypeOK' /\ CallType' /\ StoreType'
                    /\ stateBucket' \in BOOLEAN /\ locksBucket' \in BOOLEAN
                    /\ faults' \in 0..MaxFaults
<1>c. SUFFICES Typed
      BY DEF TypeOK, CallType, StoreType
<1> USE <1>a, <1>b, UnchangedType
<1>1. CASE UNCHANGED vars
      BY <1>1 DEF vars, storeVars, requestVars, sessionVars, callVars, ghosts, CallType
<1>2. ASSUME NEW c \in Clients, Begin(c) PROVE Typed
  <2>1. CallType'
        BY <1>2 DEF Begin, Goto, CallType, sessionVars, Labels
  <2> QED
      BY <1>2, <2>1 DEF Begin, storeVars, ghosts
<1>3. ASSUME NEW c \in Clients, GetStateStep(c) \/ Interrupted(c) PROVE Typed
  <2>1. CASE StateBucketAttrs(c)
    <3>1. CallType'
      <4>1. CASE Fail(c)
            BY <2>1, <4>1, FailType DEF StateBucketAttrs, Quiet
      <4>2. CASE /\ \/ Goto(c, Opened(c)) /\ UNCHANGED reply
                    \/ Goto(c, "mkbucket") /\ UNCHANGED reply
                    \/ Answer(c, "noState")
                 /\ UNCHANGED <<requestVars, sessionVars, elapsed>>
            BY <4>2, AnswerType DEF Goto, Opened, Labels, Answers, CallType, requestVars, sessionVars
      <4> QED
          BY <2>1, <4>1, <4>2 DEF StateBucketAttrs
    <3> QED
        BY <2>1, <3>1 DEF StateBucketAttrs
  <2>2. CASE StateBucketCreate(c)
    <3>1. CallType'
      <4>1. CASE Fail(c)
            BY <2>2, <4>1, FailType DEF StateBucketCreate, Quiet
      <4>2. CASE /\ created' = [created EXCEPT ![c] = TRUE] /\ Goto(c, Opened(c))
                 /\ UNCHANGED <<requestVars, lockInfo, heldBy, copy, elapsed, reply>>
            BY <2>2, <4>2 DEF StateBucketCreate, Quiet, Goto, Opened, Labels, CallType, requestVars
      <4> QED
          BY <2>2, <4>1, <4>2 DEF StateBucketCreate
    <3> QED
        BY <2>2, <3>1 DEF StateBucketCreate
  <2>3. CASE LocksBucketAttrs(c) \/ LocksBucketCreate(c)
    <3>1. CallType'
      <4>1. CASE Fail(c)
            BY <2>3, <4>1, FailType DEF LocksBucketAttrs, LocksBucketCreate, Quiet
      <4>2. CASE /\ \E l \in {"create", "mklocks"} : Goto(c, l)
                 /\ UNCHANGED <<requestVars, sessionVars, elapsed, reply>>
            BY <4>2, MovesType DEF Labels, CallType
      <4> QED
          BY <2>3, <4>1, <4>2 DEF LocksBucketAttrs, LocksBucketCreate
    <3> QED
        BY <2>3, <3>1 DEF LocksBucketAttrs, LocksBucketCreate
  <2>4. CASE TryLock(c)
    <3>1. CallType'
      <4>1. CASE Locks(c)
        <5>1. lastGen' \in Nat
              BY <4>1, CreateObjectType DEF Locks, ObjectTypeOK
        <5> QED
            BY <2>4, <4>1, <5>1 DEF TryLock, Quiet, Locks, Goto, Labels, CallType, requestVars
      <4>2. CASE Goto(c, "check") /\ UNCHANGED <<requestVars, sessionVars, elapsed, reply>>
            BY <4>2, MovesType DEF Labels, CallType
      <4>3. CASE OtherError(c)
            BY <2>4, <4>3, OtherErrorType DEF TryLock, Quiet
      <4> QED
          BY <2>4, <4>1, <4>2, <4>3 DEF TryLock, CreateLost
    <3>2. ObjectTypeOK'
          BY <2>4, CreateObjectType DEF TryLock, Locks, CreateLost
    <3> QED
        BY <2>4, <3>1, <3>2 DEF TryLock, Locks, CreateLost
  <2>5. CASE Check(c)
    <3>1. CallType'
          BY <2>5, HeldErrorType, OtherErrorType DEF Check, Quiet
    <3> QED
        BY <2>5, <3>1 DEF Check
  <2>6. CASE Tick(c)
    <3>1. elapsed' \in [Clients -> Nat]
          BY <2>6 DEF Tick, CallType
    <3>2. CallType'
          BY <2>6, <3>1, MovesType DEF Tick, Labels
    <3> QED
        BY <2>6, <3>2 DEF Tick, storeVars, ghosts
  <2>7. CASE Read(c)
    <3>1. CallType'
          BY <2>7, ReadType, FailType DEF Read, ReadAbsent, Quiet
    <3> QED
        BY <2>7, <3>1 DEF Read
  <2>8. CASE Interrupted(c)
        BY <2>8, FailType DEF Interrupted, Quiet
  <2> QED
      BY <1>3, <2>1, <2>2, <2>3, <2>4, <2>5, <2>6, <2>7, <2>8 DEF GetStateStep
<1>4. ASSUME NEW c \in Clients, SaveState(c) \/ ReleaseStateLock(c) PROVE Typed
  <2>1. CASE SaveState(c)
    <3>1. saves[c] + 1 \in 1..MaxSaves
          BY <2>1, StateBounds DEF SaveState, CallType
    <3>2. copy' \in [Clients -> SUBSET Edits] /\ saves' \in [Clients -> 0..MaxSaves]
          BY <2>1, <3>1 DEF SaveState, CallType, Edits
    <3>3. pc' \in [Clients -> Labels]
          BY <2>1, GotoType DEF SaveState, Labels
    <3>4. CallType'
          BY <2>1, <3>2, <3>3 DEF SaveState, CallType, requestVars
    <3> QED
        BY <2>1, <3>4 DEF SaveState, storeVars, ghosts
  <2>2. CASE ReleaseStateLock(c)
    <3>1. CallType'
          BY <2>2, MovesType DEF ReleaseStateLock, Labels, CallType
    <3> QED
        BY <2>2, <3>1 DEF ReleaseStateLock, storeVars, ghosts
  <2> QED
      BY <1>4, <2>1, <2>2
<1>5. ASSUME NEW c \in Clients, Write(c) PROVE Typed
  <2>1. CallType'
        BY <1>5, MovesType DEF Write, Labels, CallType
  <2>2. StoreType'
    <3>1. copy[c] \in SUBSET Edits
          BY DEF CallType
    <3>2. edits' \in SUBSET Edits /\ stateExists' \in BOOLEAN
          BY <1>5, <3>1 DEF Write, Overwrite, StoreType
    <3>3. stray' \in SUBSET (SUBSET Edits) /\ strayed' \in BOOLEAN
          BY <1>5, <3>1 DEF Write, StoreType
    <3>4. acked' \in SUBSET Edits /\ forced' \in SUBSET Nat
          BY <1>5, <3>1 DEF Write, StoreType
    <3> QED
        BY <3>2, <3>3, <3>4 DEF StoreType
  <2> QED
      BY <1>5, <2>1, <2>2 DEF Write
<1>6. ASSUME NEW c \in Clients, ReleaseLock(c) PROVE Typed
  <2>1. CallType'
        BY <1>6, MovesType DEF ReleaseLock, Labels, CallType
  <2>2. ObjectTypeOK'
        BY <1>6, DeleteObjectType DEF ReleaseLock
  <2> QED
      BY <1>6, <2>1, <2>2 DEF ReleaseLock, storeVars
<1>7. ASSUME NEW c \in Clients, Crash(c) PROVE Typed
  <2>1. lockInfo' \in [Clients -> Nat] /\ "none" \in Answers
        BY <1>7 DEF Crash, CallType, Answers
  <2>2. CallType'
        BY <1>7, <2>1, AnswerType DEF Crash, CallType, requestVars
  <2>3. StoreType'
    <3>1. copy[c] \in SUBSET Edits
          BY DEF CallType
    <3>2. stray' \in SUBSET (SUBSET Edits) /\ strayed' \in BOOLEAN
          BY <1>7, <3>1 DEF Crash, StoreType
    <3> QED
        BY <1>7, <3>2 DEF Crash, StoreType
  <2> QED
      BY <1>7, <2>2, <2>3 DEF Crash
<1>8. ASSUME NEW c \in Clients, ForceUnlock(c) PROVE Typed
  <2>1. CallType'
        BY <1>8 DEF ForceUnlock, CallType, requestVars, sessionVars, callVars
  <2>2. StoreType'
        BY <1>8 DEF ForceUnlock, CallType, StoreType, storeVars
  <2> QED
      BY <1>8, <2>1, <2>2, DeleteObjectType DEF ForceUnlock, storeVars
<1>9. CASE StrayWrite
  <2>1. CallType'
        BY <1>9 DEF StrayWrite, CallType, requestVars, sessionVars, callVars
  <2>2. StoreType'
        BY <1>9 DEF StrayWrite, Overwrite, StoreType, ghosts
  <2> QED
      BY <1>9, <2>1, <2>2 DEF StrayWrite, ghosts
<1> QED
    BY <1>1, <1>2, <1>3, <1>4, <1>5, <1>6, <1>7, <1>8, <1>9 DEF Next, Terminated

-----------------------------------------------------------------------------
\* A call that fails forgets its lock: early there is none, later it is a fault.
LEMMA FailKeeps ==
    ASSUME TypeOK, LockInv, NEW c \in Clients, Fail(c), UNCHANGED <<objectVars, forced>>,
           (pc[c] \in Early /\ UNCHANGED faults) \/ Fault
    PROVE  LockInv'
<1> USE DEF Fail, Answer, Goto, TypeOK, ObjectTypeOK, objectVars, requestVars, LockInv
<1>1. IdsGivenOut' /\ IdsDistinct'
      BY DEF IdsGivenOut, IdsDistinct
<1>2. Kept'
  <2>1. pc'[c] = "ended" /\ lockInfo'[c] = 0
        OBVIOUS
  <2>2. /\ UNCHANGED <<gen, lock, forced>>
        /\ \A d \in Clients \ {c} : pc'[d] = pc[d] /\ lockInfo'[d] = lockInfo[d]
        OBVIOUS
  <2> QED
      BY <2>1, <2>2 DEF Kept, Holding, Editing, Early, Locking
<1>3. OwnerKnows'
      BY StateLockAssumption DEF OwnerKnows, Locked, Kept, Fault, Early, Locking
<1> QED
    BY <1>1, <1>2, <1>3

\* A call that moves on without touching the lock.
LEMMA MoveKeeps ==
    ASSUME TypeOK, LockInv, NEW c \in Clients, NEW l \in Labels, Goto(c, l),
           UNCHANGED <<objectVars, lock, lockInfo, forced, reply>>,
           faults' \in Nat, faults' = 0 => faults = 0,
           l \in Locking => lock[c],
           l \in Early \/ (l = "read" /\ ~lock[c]) => lockInfo[c] = 0,
           l \in {"open", "saving"} \/ (l = "read" /\ lock[c]) => Holding(c),
           pc[c] # "ended", l # "ended"
    PROVE  LockInv'
<1> USE DEF Goto, TypeOK, ObjectTypeOK, objectVars, LockInv
<1>1. IdsGivenOut' /\ IdsDistinct'
      BY DEF IdsGivenOut, IdsDistinct
<1>2. Kept'
      BY DEF Kept, Holding, Editing
<1>3. OwnerKnows'
      BY StateLockAssumption DEF OwnerKnows, Locked
<1> QED
    BY <1>1, <1>2, <1>3

\* The lock is created for a client that asks for it, who learns its id or
\* meets a fault.
LEMMA CreateKeeps ==
    ASSUME TypeOK, LockInv, NEW c \in Clients, pc[c] = "create", CreateObject(c, StateLock),
           \A d \in Clients \ {c} : pc'[d] = pc[d] /\ lockInfo'[d] = lockInfo[d],
           UNCHANGED <<lock, forced>>,
           \/ pc'[c] = "read" /\ lockInfo'[c] = lastGen' /\ UNCHANGED faults
           \/ pc'[c] \in {"check", "wait", "ended"} /\ lockInfo'[c] = 0 /\ Fault
    PROVE  LockInv'
<1> USE StateLockAssumption DEF CreateObject, TypeOK, ObjectTypeOK, LockInv, Locked
<1>1. lastGen' = lastGen + 1 /\ gen'[StateLock] = lastGen + 1 /\ owner'[StateLock] = c
      OBVIOUS
<1>2. IdsGivenOut' /\ IdsDistinct'
      BY <1>1 DEF IdsGivenOut, IdsDistinct
<1>3. Kept'
  <2>1. \A d \in Clients : gen'[StateLock] # lockInfo[d]
        BY <1>1 DEF IdsGivenOut
  <2>2. \A d \in Clients : Holding(d) => lockInfo[d] \in forced
        BY DEF Kept
  <2> QED
      BY <1>1, <2>1, <2>2 DEF Kept, Holding, Editing, Early, Locking
<1>4. OwnerKnows'
      BY <1>1 DEF OwnerKnows, Fault
<1> QED
    BY <1>2, <1>3, <1>4

\* The lock is deleted by who has it, on his way out, or by force.
LEMMA DeleteKeeps ==
    ASSUME TypeOK, LockInv, DeleteObject(StateLock), Locked(StateLock),
           UNCHANGED <<lock, lockInfo>>, forced \subseteq forced',
           \/ gen[StateLock] \in forced' /\ UNCHANGED pc
           \/ \E c \in Clients :
                 /\ gen[StateLock] = lockInfo[c] /\ pc[c] = "releasing"
                 /\ \E l \in {"ended", "unsure"} : Goto(c, l)
    PROVE  LockInv'
<1> USE StateLockAssumption DEF DeleteObject, TypeOK, ObjectTypeOK, LockInv, Locked
<1>1. gen'[StateLock] = 0
      OBVIOUS
<1>2. IdsGivenOut' /\ IdsDistinct'
      BY <1>1 DEF IdsGivenOut, IdsDistinct
<1>3. Kept'
  <2>1. CASE gen[StateLock] \in forced' /\ UNCHANGED pc
        BY <1>1, <2>1 DEF Kept, Holding, Editing
  <2>2. ASSUME NEW c \in Clients, gen[StateLock] = lockInfo[c], pc[c] = "releasing",
               NEW l \in {"ended", "unsure"}, Goto(c, l)
        PROVE  Kept'
    <3>1. pc'[c] = l /\ \A d \in Clients \ {c} : pc'[d] = pc[d]
          BY <2>2 DEF Goto
    <3>2. \A d \in Clients \ {c} : Holding(d) => lockInfo[d] \in forced
          BY <2>2 DEF Kept, IdsDistinct
    <3> QED
        BY <1>1, <2>2, <3>1, <3>2 DEF Kept, Holding, Editing, Early, Locking
  <2> QED
      BY <2>1, <2>2
<1>4. OwnerKnows'
      BY <1>1 DEF OwnerKnows
<1> QED
    BY <1>2, <1>3, <1>4

\* Every step keeps what is known of the lock.
LEMMA NextLock == TypeOK /\ LockInv /\ [Next]_vars => LockInv'
<1> SUFFICES ASSUME TypeOK, LockInv, [Next]_vars PROVE LockInv'
    OBVIOUS
<1>a. /\ \A c \in Clients : pc[c] \in Early => lockInfo[c] = 0
      /\ \A c \in Clients : pc[c] \in Locking => lock[c]
      BY DEF LockInv, Kept
<1>b. faults \in Nat /\ (Fault => faults' \in Nat /\ faults' # 0)
      BY DEF TypeOK, Fault
<1>c. CASE UNCHANGED <<objectVars, pc, lock, lockInfo, forced, reply, faults>>
      BY <1>c DEF LockInv, IdsGivenOut, IdsDistinct, Kept, OwnerKnows, Holding, Editing, Locked,
         objectVars
<1> USE DEF requestVars, sessionVars, storeVars, callVars, ghosts
<1>1. CASE UNCHANGED vars \/ StrayWrite
      BY <1>1, <1>c DEF vars, StrayWrite
<1>2. ASSUME NEW c \in Clients, Begin(c) PROVE LockInv'
  <2>1. pc'[c] = "bucket" /\ \A d \in Clients \ {c} : pc'[d] = pc[d] /\ lock'[d] = lock[d]
        BY <1>2 DEF Begin, Goto, TypeOK
  <2>2. Kept'
        BY <1>2, <2>1 DEF Begin, objectVars, LockInv, Kept, Holding, Editing, Early, Locking
  <2>3. (IdsGivenOut /\ IdsDistinct)' /\ OwnerKnows'
        BY <1>2, <2>1, StateLockAssumption DEF Begin, objectVars, LockInv, IdsGivenOut, IdsDistinct,
           OwnerKnows, Locked, TypeOK, ObjectTypeOK
  <2> QED
      BY <2>2, <2>3 DEF LockInv
<1>3. ASSUME NEW c \in Clients, pc[c] \in Early, NEW a \in {"noState", "lockError"}, Answer(c, a),
             UNCHANGED <<objectVars, lock, lockInfo, forced, faults>>
      PROVE  LockInv'
  <2>1. pc'[c] = "ended" /\ \A d \in Clients \ {c} : pc'[d] = pc[d] /\ reply'[d] = reply[d]
        BY <1>3 DEF Answer, Goto, TypeOK
  <2>2. Kept'
        BY <1>a, <1>3, <2>1 DEF objectVars, LockInv, Kept, Holding, Editing, Early, Locking
  <2>3. (IdsGivenOut /\ IdsDistinct)'
        BY <1>3 DEF objectVars, LockInv, IdsGivenOut, IdsDistinct
  <2>4. OwnerKnows'
        BY <1>a, <1>3, <2>1, StateLockAssumption DEF objectVars, LockInv, OwnerKnows, Locked, TypeOK,
           ObjectTypeOK, Early, Locking
  <2> QED
      BY <2>2, <2>3, <2>4 DEF LockInv
<1>4. ASSUME NEW c \in Clients, GetStateStep(c) \/ Interrupted(c) PROVE LockInv'
  <2>1. CASE StateBucketAttrs(c)
        BY <1>a, <1>b, <1>3, <2>1, FailKeeps, MoveKeeps DEF StateBucketAttrs, Quiet, Opened, Early,
           Locking, Labels
  <2>2. CASE StateBucketCreate(c)
        BY <1>a, <1>b, <2>2, FailKeeps, MoveKeeps DEF StateBucketCreate, Quiet, Opened, Early,
           Locking, Labels
  <2>3. CASE LocksBucketAttrs(c) \/ LocksBucketCreate(c)
        BY <1>a, <1>b, <2>3, FailKeeps, MoveKeeps DEF LocksBucketAttrs, LocksBucketCreate, Quiet,
           Early, Locking, Labels
  <2>4. CASE TryLock(c)
    <3>1. pc[c] \in Early /\ pc[c] = "create" /\ UNCHANGED forced
          BY <2>4 DEF TryLock, Quiet, Early, Locking
    <3>2. CASE Locks(c)
          BY <2>4, <3>1, <3>2, CreateKeeps DEF Locks, Goto, TypeOK
    <3>3. CASE Goto(c, "check") /\ UNCHANGED <<objectVars, requestVars, sessionVars, elapsed, reply, faults>>
          BY <1>a, <1>b, <3>1, <3>3, MoveKeeps DEF Early, Locking, Labels
    <3>4. CASE CreateLost(c) /\ UNCHANGED objectVars
      <4>1. OtherError(c) /\ Fault
            BY <3>1, <3>4, StateLockAssumption DEF CreateLost, CreateObject, objectVars, TypeOK,
               ObjectTypeOK
      <4> QED
          BY <1>a, <1>b, <3>1, <3>4, <4>1, FailKeeps, MoveKeeps DEF OtherError, StayInLoop, Early,
             Locking, Labels
    <3>5. CASE CreateLost(c) /\ CreateObject(c, StateLock)
      <4>1. /\ pc'[c] \in {"check", "wait", "ended"} /\ lockInfo'[c] = 0 /\ Fault
            /\ \A d \in Clients \ {c} : pc'[d] = pc[d] /\ lockInfo'[d] = lockInfo[d]
            /\ UNCHANGED lock
            BY <1>a, <3>1, <3>5 DEF CreateLost, OtherError, StayInLoop, Fail, Answer, Goto, TypeOK
      <4> QED
          BY <3>1, <3>5, <4>1, CreateKeeps
    <3> QED
        BY <2>4, <3>2, <3>3, <3>4, <3>5 DEF TryLock, CreateLost
  <2>5. CASE Check(c)
    <3>1. pc[c] \in Early /\ pc[c] \in Locking /\ UNCHANGED <<objectVars, forced>>
          BY <2>5 DEF Check, Quiet, Early, Locking
    <3>2. CASE HeldError(c) /\ UNCHANGED faults
          BY <1>a, <1>b, <1>3, <3>1, <3>2, MoveKeeps DEF HeldError, StayInLoop, Early, Locking, Labels
    <3>3. CASE OtherError(c) /\ (UNCHANGED faults \/ Fault)
          BY <1>a, <1>b, <3>1, <3>3, FailKeeps, MoveKeeps DEF OtherError, StayInLoop, Early, Locking,
             Labels
    <3> QED
        BY <2>5, <3>2, <3>3 DEF Check
  <2>6. CASE Tick(c)
        BY <1>a, <1>b, <2>6, MoveKeeps DEF Tick, Early, Locking, Labels
  <2>7. CASE Read(c)
    <3>1. UNCHANGED <<objectVars, forced>>
          BY <2>7 DEF Read, Quiet
    <3>2. CASE Fail(c) /\ Fault
          BY <3>1, <3>2, FailKeeps
    <3>3. CASE (ReadState(c) \/ ReadNothing(c)) /\ UNCHANGED faults
      <4>1. /\ pc'[c] \in {"open", "ended"} /\ (pc'[c] = "open" => lock[c] /\ lockInfo'[c] = lockInfo[c])
            /\ pc'[c] = "ended" => lockInfo'[c] = 0
            /\ lockInfo'[c] # lockInfo[c] => reply'[c] = "noState" /\ pc'[c] = "ended"
            /\ lockInfo'[c] \in {0, lockInfo[c]}
            BY <2>7, <3>3 DEF Read, ReadState, ReadNothing, Answer, Goto, TypeOK, LockInv, Kept
      <4>2. /\ \A d \in Clients \ {c} : pc'[d] = pc[d] /\ lockInfo'[d] = lockInfo[d] /\ reply'[d] = reply[d]
            /\ UNCHANGED lock
            BY <3>3 DEF ReadState, ReadNothing, Answer, Goto, TypeOK
      <4>3. pc[c] = "read"
            BY <2>7 DEF Read
      <4>4. Kept'
            BY <3>1, <4>1, <4>2, <4>3 DEF objectVars, LockInv, Kept, Holding, Editing, Early, Locking
      <4>5. (IdsGivenOut /\ IdsDistinct)'
            BY <3>1, <4>1, <4>2 DEF objectVars, LockInv, IdsGivenOut, IdsDistinct, TypeOK, ObjectTypeOK
      <4>6. OwnerKnows'
            BY <3>1, <3>3, <4>1, <4>2, <4>3, StateLockAssumption DEF objectVars, LockInv, OwnerKnows,
               Locked, TypeOK, ObjectTypeOK
      <4> QED
          BY <4>4, <4>5, <4>6 DEF LockInv
    <3>4. ReadAbsent(c) => ReadState(c) \/ ReadNothing(c)
          BY DEF ReadAbsent
    <3> QED
        BY <2>7, <3>2, <3>3, <3>4 DEF Read
  <2>8. CASE Interrupted(c)
        BY <2>8, FailKeeps DEF Interrupted, Quiet, Early, Locking
  <2> QED
      BY <1>4, <2>1, <2>2, <2>3, <2>4, <2>5, <2>6, <2>7, <2>8 DEF GetStateStep
<1>5. ASSUME NEW c \in Clients, SaveState(c) \/ ReleaseStateLock(c) PROVE LockInv'
      BY <1>a, <1>b, <1>5, MoveKeeps DEF SaveState, ReleaseStateLock, Early, Locking, Labels, Holding,
         Editing
<1>6. ASSUME NEW c \in Clients, Write(c) PROVE LockInv'
      BY <1>a, <1>b, <1>6, MoveKeeps DEF Write, Early, Locking, Labels, Holding, Editing
<1>7. ASSUME NEW c \in Clients, ReleaseLock(c) PROVE LockInv'
  <2>1. CASE UNCHANGED objectVars /\ Goto(c, "unsure")
        BY <1>a, <1>b, <1>7, <2>1, MoveKeeps DEF ReleaseLock, Early, Locking, Labels
  <2>2. CASE /\ Releasable(StateLock, lockInfo[c]) /\ DeleteObject(StateLock)
             /\ \E l \in {"ended", "unsure"} : Goto(c, l)
    <3>1. /\ Locked(StateLock) /\ gen[StateLock] = lockInfo[c] /\ pc[c] = "releasing"
          /\ UNCHANGED <<lock, lockInfo, forced>>
          BY <1>7, <2>2 DEF Releasable, ReleaseLock
    <3> QED
        BY <2>2, <3>1, DeleteKeeps
  <2> QED
      BY <1>7, <2>1, <2>2 DEF ReleaseLock
<1>8. ASSUME NEW c \in Clients, Crash(c) PROVE LockInv'
  <2>1. /\ pc'[c] = "ended" /\ lockInfo'[c] = 0
        /\ \A d \in Clients \ {c} : pc'[d] = pc[d] /\ lockInfo'[d] = lockInfo[d]
        BY <1>8 DEF Crash, Answer, Goto, TypeOK
  <2>2. UNCHANGED <<objectVars, lock, forced>> /\ faults' # 0
        BY <1>b, <1>8 DEF Crash
  <2> QED
      BY <2>1, <2>2 DEF objectVars, TypeOK, ObjectTypeOK, LockInv, IdsGivenOut, IdsDistinct, Kept, Holding, Editing,
         Early, Locking, OwnerKnows
<1>9. ASSUME NEW c \in Clients, ForceUnlock(c) PROVE LockInv'
  <2>1. /\ Locked(StateLock) /\ gen[StateLock] \in forced' /\ forced \subseteq forced'
        /\ UNCHANGED <<pc, lock, lockInfo>>
        BY <1>9 DEF ForceUnlock, Releasable
  <2> QED
      BY <1>9, <2>1, DeleteKeeps DEF ForceUnlock
<1> QED
    BY <1>1, <1>2, <1>4, <1>5, <1>6, <1>7, <1>8, <1>9 DEF Next, Terminated

-----------------------------------------------------------------------------
\* Two editors have two ids, and only one is that of the lock.
LEMMA Editors == LockInv => OneEditor
BY DEF LockInv, Kept, Holding, IdsDistinct, OneEditor

\* Every step keeps the copy of the one who edits current, and what was
\* acknowledged in the state.
LEMMA NextContent ==
    IInv /\ [Next]_vars => StrayIsStrayed' /\ CopyIsCurrent' /\ NoLostUpdate'
<1> DEFINE Current == StrayIsStrayed' /\ CopyIsCurrent' /\ NoLostUpdate'
<1> SUFFICES ASSUME IInv, [Next]_vars PROVE Current
    OBVIOUS
<1>a. /\ TypeOK /\ OneEditor /\ StrayIsStrayed /\ CopyIsCurrent /\ NoLostUpdate
      BY Editors DEF IInv
<1>b. CASE /\ UNCHANGED <<edits, stray, acked, strayed, forced>>
           /\ \A d \in Clients : Editing(d)' => Editing(d) /\ copy'[d] = copy[d]
      BY <1>a, <1>b DEF StrayIsStrayed, CopyIsCurrent, NoLostUpdate
<1> USE DEF requestVars, sessionVars, storeVars, callVars, ghosts, Editing
<1>1. CASE UNCHANGED vars
      BY <1>1, <1>b DEF vars
<1>2. CASE StrayWrite
  <2>1. strayed' = TRUE
        BY <1>a, <1>2 DEF StrayWrite, StrayIsStrayed, TypeOK
  <2> QED
      BY <2>1 DEF StrayIsStrayed, CopyIsCurrent, NoLostUpdate
<1>3. ASSUME NEW c \in Clients,
             Begin(c) \/ StateBucketAttrs(c) \/ StateBucketCreate(c) \/ LocksBucketAttrs(c)
             \/ LocksBucketCreate(c) \/ Tick(c) \/ Interrupted(c)
      PROVE  Current
  <2>1. UNCHANGED <<edits, stray, acked, strayed, forced>> /\ UNCHANGED copy
        BY <1>3 DEF Begin, StateBucketAttrs, StateBucketCreate, LocksBucketAttrs, LocksBucketCreate,
           Tick, Interrupted, Quiet, Fail
  <2>2. \A d \in Clients : pc'[d] = pc[d] \/ pc'[d] \notin {"open", "saving"}
        BY <1>a, <1>3 DEF Begin, StateBucketAttrs, StateBucketCreate, LocksBucketAttrs,
           LocksBucketCreate, Tick, Interrupted, Fail, Answer, Goto, Opened, TypeOK
  <2> QED
      BY <1>b, <2>1, <2>2
<1>4. ASSUME NEW c \in Clients, TryLock(c) \/ Check(c) PROVE Current
  <2>1. UNCHANGED <<edits, stray, acked, strayed, forced>> /\ UNCHANGED copy
        BY <1>4 DEF TryLock, Locks, CreateLost, Check, HeldError, OtherError, StayInLoop, Quiet, Fail
  <2>2. \A d \in Clients : pc'[d] = pc[d] \/ pc'[d] \notin {"open", "saving"}
        BY <1>a, <1>4 DEF TryLock, Locks, CreateLost, Check, HeldError, OtherError, StayInLoop, Fail,
           Answer, Goto, TypeOK
  <2> QED
      BY <1>b, <2>1, <2>2
<1>5. ASSUME NEW c \in Clients, Read(c) PROVE Current
  <2>1. UNCHANGED <<edits, stray, acked, strayed, forced>>
        BY <1>5 DEF Read, Quiet
  <2>2. CASE ReadState(c)
    <3>1. copy'[c] = edits /\ \A d \in Clients \ {c} : copy'[d] = copy[d] /\ pc'[d] = pc[d]
          BY <1>a, <2>2 DEF ReadState, Goto, TypeOK
    <3> QED
        BY <1>a, <2>1, <3>1 DEF StrayIsStrayed, CopyIsCurrent, NoLostUpdate
  <2>3. CASE ReadNothing(c) \/ Fail(c)
    <3>1. UNCHANGED copy /\ \A d \in Clients : pc'[d] = pc[d] \/ pc'[d] = "ended"
          BY <1>a, <2>3 DEF ReadNothing, Fail, Answer, Goto, TypeOK
    <3> QED
        BY <1>b, <2>1, <3>1
  <2>4. ReadAbsent(c) => ReadState(c) \/ ReadNothing(c)
        BY DEF ReadAbsent
  <2> QED
      BY <1>5, <2>2, <2>3, <2>4 DEF Read
<1>6. ASSUME NEW c \in Clients, SaveState(c) PROVE Current
  <2>1. UNCHANGED <<edits, stray, acked, strayed, forced>>
        BY <1>6 DEF SaveState
  <2>2. <<c, saves[c] + 1>> \in Own(c)
        BY <1>a, <1>6, StateBounds DEF SaveState, Own, TypeOK
  <2>3. /\ copy'[c] = copy[c] \cup {<<c, saves[c] + 1>>} /\ Editing(c)
        /\ \A d \in Clients \ {c} : copy'[d] = copy[d] /\ pc'[d] = pc[d]
        BY <1>a, <1>6 DEF SaveState, Goto, TypeOK
  <2> QED
      BY <1>a, <2>1, <2>2, <2>3 DEF StrayIsStrayed, CopyIsCurrent, NoLostUpdate
<1>7. ASSUME NEW c \in Clients, Write(c) PROVE Current
  <2>1. /\ UNCHANGED <<copy, forced>> /\ Editing(c)
        /\ \A d \in Clients \ {c} : pc'[d] = pc[d]
        BY <1>a, <1>7 DEF Write, Goto, TypeOK
  <2>2. CASE strayed' = TRUE
        BY <2>2 DEF StrayIsStrayed, CopyIsCurrent, NoLostUpdate
  <2>3. CASE forced # {}
        BY <1>a, <1>7, <2>1, <2>3 DEF Write, StrayIsStrayed, CopyIsCurrent, NoLostUpdate
  <2>4. CASE /\ UNCHANGED <<stray, strayed>> /\ forced = {}
             /\ edits' \in {copy[c], edits} /\ acked' \subseteq edits'\cup acked
    <3>1. \A d \in Clients : Editing(d)' => d = c
          BY <1>a, <2>1, <2>4 DEF OneEditor
    <3>2. strayed = FALSE => edits \subseteq copy[c] /\ copy[c] \ edits \subseteq Own(c)
          BY <1>a, <2>1, <2>4 DEF CopyIsCurrent
    <3> QED
        BY <1>a, <2>1, <2>4, <3>1, <3>2 DEF StrayIsStrayed, CopyIsCurrent, NoLostUpdate, TypeOK
  <2> QED
      BY <1>7, <2>2, <2>3, <2>4 DEF Write, Overwrite
<1>8. ASSUME NEW c \in Clients, ReleaseStateLock(c) \/ ReleaseLock(c) PROVE Current
  <2>1. UNCHANGED <<edits, stray, acked, strayed, forced>> /\ UNCHANGED copy
        BY <1>8 DEF ReleaseStateLock, ReleaseLock
  <2>2. \A d \in Clients : pc'[d] = pc[d] \/ pc'[d] \notin {"open", "saving"}
        BY <1>a, <1>8 DEF ReleaseStateLock, ReleaseLock, Goto, TypeOK
  <2> QED
      BY <1>b, <2>1, <2>2
<1>9. ASSUME NEW c \in Clients, Crash(c) PROVE Current
  <2>1. UNCHANGED <<copy, edits, acked, forced>>
        BY <1>9 DEF Crash
  <2>2. \A d \in Clients : pc'[d] = pc[d] \/ pc'[d] \notin {"open", "saving"}
        BY <1>a, <1>9 DEF Crash, Answer, Goto, TypeOK
  <2>3. strayed' = TRUE \/ UNCHANGED <<stray, strayed>>
        BY <1>9 DEF Crash
  <2> QED
      BY <1>b, <2>1, <2>2, <2>3 DEF StrayIsStrayed, CopyIsCurrent, NoLostUpdate
<1>10. ASSUME NEW c \in Clients, ForceUnlock(c) PROVE Current
  <2>1. forced' # {} /\ UNCHANGED <<stray, strayed>>
        BY <1>10 DEF ForceUnlock
  <2> QED
      BY <1>a, <2>1 DEF StrayIsStrayed, CopyIsCurrent, NoLostUpdate
<1> QED
    BY <1>1, <1>2, <1>3, <1>4, <1>5, <1>6, <1>7, <1>8, <1>9, <1>10 DEF Next, GetStateStep, Terminated

-----------------------------------------------------------------------------
\* In every reachable state the invariant holds.
THEOREM Inductive == Spec => []IInv
<1>1. Init => IInv
  <2> SUFFICES ASSUME Init PROVE IInv
      OBVIOUS
  <2> USE StateLockAssumption, StateBounds DEF Init, ObjectInit
  <2>1. ObjectTypeOK
        BY DEF ObjectTypeOK
  <2>2. CallType
    <3>1. pc \in [Clients -> Labels] /\ reply \in [Clients -> Answers]
          BY DEF Labels, Answers
    <3>2. /\ lock \in [Clients -> BOOLEAN] /\ skipCreate \in [Clients -> BOOLEAN]
          /\ created \in [Clients -> BOOLEAN] /\ copy \in [Clients -> SUBSET Edits]
          OBVIOUS
    <3>3. /\ lockWait \in [Clients -> 0..MaxLockWait] /\ saves \in [Clients -> 0..MaxSaves]
          /\ elapsed \in [Clients -> Nat] /\ lockInfo \in [Clients -> Nat]
          /\ heldBy \in [Clients -> Nat]
          OBVIOUS
    <3> QED
        BY <3>1, <3>2, <3>3 DEF CallType
  <2>3. StoreType /\ faults \in 0..MaxFaults
    <3>1. faults \in 0..MaxFaults
          BY SMT
    <3>2. edits \subseteq Edits /\ acked \subseteq Edits /\ forced \subseteq Nat
          OBVIOUS
    <3>3. stray \in SUBSET SUBSET Edits
          OBVIOUS
    <3>4. stateExists \in BOOLEAN /\ strayed \in BOOLEAN
          OBVIOUS
    <3> QED
        BY <3>1, <3>2, <3>3, <3>4 DEF StoreType
  <2>4. TypeOK
        BY <2>1, <2>2, <2>3, Parts
  <2>5. LockInv
        BY DEF LockInv, IdsGivenOut, IdsDistinct, Kept, OwnerKnows, Locked, Holding, Editing, Early,
           Locking
  <2>6. StrayIsStrayed /\ CopyIsCurrent /\ NoLostUpdate
        BY DEF StrayIsStrayed, CopyIsCurrent, NoLostUpdate, Editing
  <2> QED
      BY <2>4, <2>5, <2>6 DEF IInv
<1>2. IInv /\ [Next]_vars => IInv'
      BY NextType, NextLock, NextContent DEF IInv
<1> QED
    BY <1>1, <1>2, PTL DEF Spec

\* Types.
THEOREM TypeCorrect == Spec => []TypeOK
<1>1. IInv => TypeOK
      BY DEF IInv
<1> QED
    BY <1>1, Inductive, PTL

\* Two clients work on the state at once only when a lock was forced.
THEOREM Exclusion == Spec => []OneEditor
<1>1. IInv => OneEditor
      BY Editors DEF IInv
<1> QED
    BY <1>1, Inductive, PTL

\* Who works on the state has all of it, as long as no lock was forced and no
\* write was left in flight.
THEOREM CopyFollows == Spec => []CopyIsCurrent
<1>1. IInv => CopyIsCurrent
      BY DEF IInv
<1> QED
    BY <1>1, Inductive, PTL

\* An acknowledged save stays, under the same conditions.
THEOREM NothingLost == Spec => []NoLostUpdate
<1>1. IInv => NoLostUpdate
      BY DEF IInv
<1> QED
    BY <1>1, Inductive, PTL

\* Without a fault a lock outlives its call only when GetState with SkipCreate
\* has not told its id.
THEOREM LocksAreOwned == Spec => []NoOrphanLock
<1>1. IInv => NoOrphanLock
  <2> SUFFICES ASSUME IInv, Locked(StateLock), pc[owner[StateLock]] = "ended", faults = 0
               PROVE  reply[owner[StateLock]] = "noState"
      BY DEF NoOrphanLock, IInv, TypeOK
  <2> DEFINE c == owner[StateLock]
  <2>1. c \in Clients /\ gen[StateLock] # 0
        BY StateLockAssumption DEF IInv, TypeOK, ObjectTypeOK, Locked
  <2>2. lockInfo[c] # gen[StateLock]
        BY <2>1 DEF IInv, LockInv, Kept
  <2> QED
      BY <2>2 DEF IInv, LockInv, OwnerKnows
<1> QED
    BY <1>1, Inductive, PTL
=============================================================================
