----------------------------- MODULE StateStore -----------------------------
(***************************************************************************)
(* StatePluginService: GetState, SaveState and ReleaseStateLock            *)
(* (plugin/state.go) of several runs of the CLI that share a state object  *)
(* and the lock that guards it.  A client opens the state once, with or    *)
(* without the lock; one that has the lock may save it several times and   *)
(* then releases the lock.  SaveState writes unconditionally: that no      *)
(* update is lost rests on the lock alone.                                 *)
(*                                                                         *)
(* The content of the state is the set of edits <<c, n>> made to it, the   *)
(* n-th save of client c adding <<c, n>> to what c has read.  A fault is a *)
(* lost request, a lost or late answer, a broken stream, a cancelled call  *)
(* or a crash.                                                             *)
(***************************************************************************)
EXTENDS LockObjects

CONSTANTS StateLock,       \* stateLockfile(), the only lock object here
          MaxLockWait,     \* the longest lock_wait, in ticks
          MaxSaves,        \* bound on the saves of a client
          MaxFaults,       \* bound on faults
          ForceUnlockers   \* clients that release the lock a LockError reports

ASSUME StateLockAssumption == Files = {StateLock}
ASSUME StateBounds ==
    /\ MaxLockWait \in Nat /\ MaxSaves \in Nat /\ MaxFaults \in Nat
    /\ ForceUnlockers \subseteq Clients

VARIABLES stateBucket,     \* the state bucket exists
          locksBucket,     \* the locks bucket exists
          stateExists,     \* the state object exists
          edits,           \* its content
          stray,           \* writes that failed for the caller, not yet applied
          pc,              \* where each client's call is
          lock,            \* r.Lock
          skipCreate,      \* r.SkipCreate
          lockWait,        \* r.LockWait
          elapsed,         \* ticks since lockState started
          created,         \* GetState's created
          lockInfo,        \* the id of the lock, 0 if none
          heldBy,          \* the id a LockError reported
          copy,            \* the content the client works on
          saves,           \* saves the client began
          reply,           \* what GetState answered
          acked,           \* edits whose SaveState returned without an error
          strayed,         \* a write was ever left in flight by a failed call
          faults,          \* faults so far
          forced           \* ids released on the strength of a LockError

storeVars   == <<stateBucket, locksBucket, stateExists, edits, stray>>
requestVars == <<lock, skipCreate, lockWait>>
sessionVars == <<created, lockInfo, heldBy, copy, saves>>
callVars    == <<pc, elapsed, reply>>
ghosts      == <<acked, strayed, faults, forced>>
vars == <<objectVars, storeVars, requestVars, sessionVars, callVars, ghosts>>

Edits == Clients \X (1..MaxSaves)
Labels == {"idle", "bucket", "mkbucket", "locks", "mklocks", "create", "check",
           "wait", "read", "open", "saving", "releasing", "unsure", "ended"}
Answers == {"none", "state", "noState", "lockError", "error"}

TypeOK ==
    /\ ObjectTypeOK
    /\ stateBucket \in BOOLEAN /\ locksBucket \in BOOLEAN /\ stateExists \in BOOLEAN
    /\ edits \in SUBSET Edits
    /\ stray \in SUBSET (SUBSET Edits)
    /\ pc \in [Clients -> Labels]
    /\ lock \in [Clients -> BOOLEAN] /\ skipCreate \in [Clients -> BOOLEAN]
    /\ lockWait \in [Clients -> 0..MaxLockWait]
    /\ elapsed \in [Clients -> Nat]
    /\ created \in [Clients -> BOOLEAN]
    /\ lockInfo \in [Clients -> Nat] /\ heldBy \in [Clients -> Nat]
    /\ copy \in [Clients -> SUBSET Edits]
    /\ saves \in [Clients -> 0..MaxSaves]
    /\ reply \in [Clients -> Answers]
    /\ acked \in SUBSET Edits /\ strayed \in BOOLEAN
    /\ faults \in 0..MaxFaults
    /\ forced \in SUBSET Nat

Init ==
    /\ ObjectInit
    /\ stateBucket \in BOOLEAN /\ locksBucket \in BOOLEAN
    /\ stateExists = FALSE /\ edits = {} /\ stray = {}
    /\ pc = [c \in Clients |-> "idle"]
    /\ lock = [c \in Clients |-> FALSE] /\ skipCreate = [c \in Clients |-> FALSE]
    /\ lockWait = [c \in Clients |-> 0] /\ elapsed = [c \in Clients |-> 0]
    /\ created = [c \in Clients |-> FALSE]
    /\ lockInfo = [c \in Clients |-> 0] /\ heldBy = [c \in Clients |-> 0]
    /\ copy = [c \in Clients |-> {}] /\ saves = [c \in Clients |-> 0]
    /\ reply = [c \in Clients |-> "none"]
    /\ acked = {} /\ strayed = FALSE /\ faults = 0 /\ forced = {}

----------------------------------------------------------------------------
Fault == faults < MaxFaults /\ faults' = faults + 1

Goto(c, label) == pc' = [pc EXCEPT ![c] = label]

\* GetState ends with an answer on the stream, or with an error.
Answer(c, a) == Goto(c, "ended") /\ reply' = [reply EXCEPT ![c] = a]

\* GetState's part of a step: nothing saved, forced or written.
Quiet == UNCHANGED <<stateExists, edits, stray, acked, strayed, forced, saves>>

\* The call fails, and whatever it knew is forgotten.
Fail(c) ==
    /\ Answer(c, "error")
    /\ lockInfo' = [lockInfo EXCEPT ![c] = 0]
    /\ UNCHANGED <<requestVars, created, heldBy, copy, elapsed>>

Begin(c) ==
    /\ pc[c] = "idle"
    /\ \E b \in BOOLEAN : lock' = [lock EXCEPT ![c] = b]
    /\ \E b \in BOOLEAN : skipCreate' = [skipCreate EXCEPT ![c] = b]
    /\ \E w \in 0..MaxLockWait : lockWait' = [lockWait EXCEPT ![c] = w]
    /\ Goto(c, "bucket")
    /\ UNCHANGED <<objectVars, storeVars, sessionVars, elapsed, reply, ghosts>>

\* After getBucket of the state bucket.
\* Variant: a state that is not there yet needs no lock.
OpenedNew(c) == IF lock[c] /\ stateExists THEN "locks" ELSE "read"

Opened(c) == IF lock[c] THEN "locks" ELSE "read"

\* getBucket: Attrs.  Without a bucket, SkipCreate answers that there is no
\* state; otherwise the bucket is created.
StateBucketAttrs(c) ==
    /\ pc[c] = "bucket"
    /\ \/ /\ stateBucket /\ Goto(c, Opened(c))
          /\ UNCHANGED <<requestVars, sessionVars, elapsed, reply, faults>>
       \/ /\ ~stateBucket /\ skipCreate[c] /\ Answer(c, "noState")
          /\ UNCHANGED <<requestVars, sessionVars, elapsed, faults>>
       \/ /\ ~stateBucket /\ ~skipCreate[c] /\ Goto(c, "mkbucket")
          /\ UNCHANGED <<requestVars, sessionVars, elapsed, reply, faults>>
       \/ Fault /\ Fail(c)
    /\ Quiet /\ UNCHANGED <<objectVars, stateBucket, locksBucket>>

\* getBucket: Create, an error if another client created the bucket meanwhile.
StateBucketCreate(c) ==
    /\ pc[c] = "mkbucket"
    /\ \/ /\ ~stateBucket /\ stateBucket' = TRUE
          /\ created' = [created EXCEPT ![c] = TRUE]
          /\ Goto(c, Opened(c))
          /\ UNCHANGED <<requestVars, lockInfo, heldBy, copy, elapsed, reply, faults>>
       \/ stateBucket /\ Fail(c) /\ UNCHANGED <<stateBucket, faults>>
       \/ Fault /\ Fail(c) /\ stateBucket' \in {stateBucket, TRUE}
    /\ Quiet /\ UNCHANGED <<objectVars, locksBucket>>

\* lockState: getBucket of the locks bucket.
LocksBucketAttrs(c) ==
    /\ pc[c] = "locks"
    /\ \/ /\ Goto(c, IF locksBucket THEN "create" ELSE "mklocks")
          /\ UNCHANGED <<requestVars, sessionVars, elapsed, reply, faults>>
       \/ Fault /\ Fail(c)
    /\ Quiet /\ UNCHANGED <<objectVars, stateBucket, locksBucket>>

LocksBucketCreate(c) ==
    /\ pc[c] = "mklocks"
    /\ \/ /\ ~locksBucket /\ locksBucket' = TRUE
          /\ Goto(c, "create")
          /\ UNCHANGED <<requestVars, sessionVars, elapsed, reply, faults>>
       \/ locksBucket /\ Fail(c) /\ UNCHANGED <<locksBucket, faults>>
       \/ Fault /\ Fail(c) /\ locksBucket' \in {locksBucket, TRUE}
    /\ Quiet /\ UNCHANGED <<objectVars, stateBucket>>

----------------------------------------------------------------------------
(* lockState *)

\* time.Since(start) > lockWait, after an attempt that took d of a tick more.
Expired(c, d) == lockWait[c] = 0 \/ elapsed[c] + d > lockWait[c]

StayInLoop(c) ==
    Goto(c, "wait") /\ UNCHANGED <<requestVars, sessionVars, elapsed, reply>>

\* acquireLock failed with anything but errAcquireLockFailed.
OtherError(c) ==
    \E d \in {0, 1} :
        \/ Expired(c, d) /\ Fail(c)
        \/ ~Expired(c, d) /\ StayInLoop(c)

\* acquireLock failed with errAcquireLockFailed.
HeldError(c) ==
    \E d \in {0, 1} :
        \/ /\ Expired(c, d) /\ Answer(c, "lockError")
           /\ heldBy' = [heldBy EXCEPT ![c] = gen[StateLock]]
           /\ UNCHANGED <<requestVars, created, lockInfo, copy, elapsed>>
        \/ ~Expired(c, d) /\ StayInLoop(c)

Locks(c) ==
    /\ CreateObject(c, StateLock)
    /\ lockInfo' = [lockInfo EXCEPT ![c] = lastGen']
    /\ Goto(c, "read")
    /\ UNCHANGED <<requestVars, created, heldBy, copy, elapsed, reply, faults>>

\* The request or its answer is lost; after a lost answer the client library
\* reports the failure, or retries and is refused its own lock.
CreateLost(c) ==
    /\ Fault
    /\ \/ OtherError(c) /\ UNCHANGED objectVars
       \/ OtherError(c) /\ CreateObject(c, StateLock)
       \/ /\ CreateObject(c, StateLock) /\ Goto(c, "check")
          /\ UNCHANGED <<requestVars, sessionVars, elapsed, reply>>

TryLock(c) ==
    /\ pc[c] = "create"
    /\ \/ Locks(c)
       \/ /\ Locked(StateLock) /\ Goto(c, "check")
          /\ UNCHANGED <<objectVars, requestVars, sessionVars, elapsed, reply, faults>>
       \/ CreateLost(c)
    /\ Quiet /\ UNCHANGED <<stateBucket, locksBucket>>

\* checkLock: the object may be gone by now.
Check(c) ==
    /\ pc[c] = "check"
    /\ \/ Locked(StateLock) /\ HeldError(c) /\ UNCHANGED faults
       \/ ~Locked(StateLock) /\ OtherError(c) /\ UNCHANGED faults
       \/ Fault /\ OtherError(c)
    /\ Quiet /\ UNCHANGED <<objectVars, stateBucket, locksBucket>>

\* Variant: time.Until(start) for time.Since(start).
TickBack(c) ==
    /\ pc[c] = "wait" /\ Goto(c, "create")
    /\ elapsed' = [elapsed EXCEPT ![c] = elapsed[c] - 1]
    /\ UNCHANGED <<objectVars, storeVars, requestVars, sessionVars, reply, ghosts>>

\* Variant: start is set inside the loop.
TickAnew(c) ==
    /\ pc[c] = "wait" /\ Goto(c, "create")
    /\ UNCHANGED <<objectVars, storeVars, requestVars, sessionVars, elapsed, reply, ghosts>>

Tick(c) ==
    /\ pc[c] = "wait" /\ Goto(c, "create")
    /\ elapsed' = [elapsed EXCEPT ![c] = elapsed[c] + 1]
    /\ UNCHANGED <<objectVars, storeVars, requestVars, sessionVars, reply, ghosts>>

\* Waiting cannot be sent, or the call is cancelled.
Interrupted(c) ==
    /\ pc[c] = "wait" /\ Fault /\ Fail(c)
    /\ Quiet /\ UNCHANGED <<objectVars, stateBucket, locksBucket>>

----------------------------------------------------------------------------
(* The rest of GetState, SaveState and ReleaseStateLock *)

ReadState(c) ==
    /\ copy' = [copy EXCEPT ![c] = edits]
    /\ created' = [created EXCEPT ![c] = @ \/ ~stateExists]
    /\ Goto(c, IF lock[c] THEN "open" ELSE "ended")
    /\ reply' = [reply EXCEPT ![c] = "state"]
    /\ UNCHANGED <<requestVars, lockInfo, heldBy, elapsed>>

ReadNothing(c) ==
    /\ Answer(c, "noState")
    /\ lockInfo' = [lockInfo EXCEPT ![c] = 0]
    /\ UNCHANGED <<requestVars, created, heldBy, copy, elapsed>>

\* Variant: a state that is not there is an error whatever SkipCreate says.
ReadAbsentFails(c) ==
    IF skipCreate[c] THEN ReadNothing(c) ELSE Fail(c)

\* Without a state object: only SkipCreate minds.
ReadAbsent(c) ==
    IF skipCreate[c] THEN ReadNothing(c) ELSE ReadState(c)

\* readBucketFile and the answer.  Without a state object SkipCreate answers
\* that there is none, and does not pass the lock's id on.
Read(c) ==
    /\ pc[c] = "read"
    /\ \/ stateExists /\ ReadState(c) /\ UNCHANGED faults
       \/ ~stateExists /\ ReadAbsent(c) /\ UNCHANGED faults
       \/ Fault /\ Fail(c)
    /\ Quiet /\ UNCHANGED <<objectVars, stateBucket, locksBucket>>

\* The host changes the state it has opened and saves it.
SaveState(c) ==
    /\ pc[c] = "open" /\ saves[c] < MaxSaves
    /\ saves' = [saves EXCEPT ![c] = @ + 1]
    /\ copy' = [copy EXCEPT ![c] = @ \cup {<<c, saves[c] + 1>>}]
    /\ Goto(c, "saving")
    /\ UNCHANGED <<objectVars, storeVars, requestVars, created, lockInfo, heldBy,
                   elapsed, reply, ghosts>>

Own(c) == {c} \X (1..MaxSaves)
Overwrite(x) == edits' = x /\ stateExists' = TRUE

\* Writer.Close, without any condition.
Write(c) ==
    /\ pc[c] = "saving" /\ Goto(c, "open")
    /\ \/ /\ Overwrite(copy[c])
          /\ acked' = acked \cup (copy[c] \cap Own(c))
          /\ UNCHANGED <<stray, strayed, faults>>
       \/ /\ Fault
          /\ Overwrite(copy[c]) \/ UNCHANGED <<edits, stateExists>>
          /\ UNCHANGED <<stray, strayed, acked>>
       \/ /\ Fault
          /\ stray' = stray \cup {copy[c]} /\ strayed' = TRUE
          /\ UNCHANGED <<edits, stateExists, acked>>
    /\ UNCHANGED <<objectVars, stateBucket, locksBucket, requestVars, sessionVars,
                   elapsed, reply, forced>>

\* The store gets a write whose caller has long given up.
StrayWrite ==
    /\ \E x \in stray : Overwrite(x) /\ stray' = stray \ {x}
    /\ UNCHANGED <<objectVars, stateBucket, locksBucket, requestVars, sessionVars,
                   callVars, ghosts>>

\* The host hands the lock back; it may ask again after an error.
ReleaseStateLock(c) ==
    /\ pc[c] \in {"open", "unsure"} /\ Goto(c, "releasing")
    /\ UNCHANGED <<objectVars, storeVars, requestVars, sessionVars, elapsed, reply, ghosts>>

ReleaseLock(c) ==
    /\ pc[c] = "releasing"
    /\ \/ /\ Releasable(StateLock, lockInfo[c]) /\ DeleteObject(StateLock)
          /\ Goto(c, "ended") /\ UNCHANGED faults
       \/ /\ ~Releasable(StateLock, lockInfo[c])
          /\ Goto(c, "unsure") /\ UNCHANGED <<objectVars, faults>>
       \/ /\ Fault /\ Goto(c, "unsure")
          /\ \/ Releasable(StateLock, lockInfo[c]) /\ DeleteObject(StateLock)
             \/ UNCHANGED objectVars
    /\ UNCHANGED <<storeVars, requestVars, sessionVars, elapsed, reply, acked,
                   strayed, forced>>

\* The host or its plugin is killed, maybe with a write on its way.
Crash(c) ==
    /\ pc[c] \notin {"idle", "ended"} /\ Fault
    /\ Answer(c, "none")
    /\ lockInfo' = [lockInfo EXCEPT ![c] = 0]
    /\ \/ /\ pc[c] = "saving"
          /\ stray' = stray \cup {copy[c]} /\ strayed' = TRUE
       \/ UNCHANGED <<stray, strayed>>
    /\ UNCHANGED <<objectVars, stateBucket, locksBucket, stateExists, edits,
                   requestVars, created, heldBy, copy, saves, elapsed, acked, forced>>

\* ReleaseStateLock of someone else's lock, with the id a LockError gave.
ForceUnlock(c) ==
    /\ c \in ForceUnlockers /\ heldBy[c] # 0
    /\ Releasable(StateLock, heldBy[c])
    /\ DeleteObject(StateLock)
    /\ forced' = forced \cup {heldBy[c]}
    /\ UNCHANGED <<storeVars, requestVars, sessionVars, callVars, acked, strayed, faults>>

Terminated == (\A c \in Clients : pc[c] = "ended") /\ UNCHANGED vars

GetStateStep(c) ==
    \/ StateBucketAttrs(c) \/ StateBucketCreate(c)
    \/ LocksBucketAttrs(c) \/ LocksBucketCreate(c)
    \/ TryLock(c) \/ Check(c) \/ Tick(c) \/ Read(c)

Next ==
    \/ \E c \in Clients :
          \/ Begin(c) \/ GetStateStep(c) \/ Interrupted(c)
          \/ SaveState(c) \/ Write(c)
          \/ ReleaseStateLock(c) \/ ReleaseLock(c)
          \/ Crash(c) \/ ForceUnlock(c)
    \/ StrayWrite
    \/ Terminated

\* The plugin's calls run to their end; nothing obliges the host to call again.
Fairness ==
    \A c \in Clients :
        WF_vars(GetStateStep(c)) /\ WF_vars(Write(c)) /\ WF_vars(ReleaseLock(c))

Spec == Init /\ [][Next]_vars /\ Fairness

----------------------------------------------------------------------------
(* Properties *)

Editing(c) == pc[c] \in {"open", "saving"}

\* Two clients never work on the state at once, unless the lock of one of them
\* was released by force.
OneEditor ==
    \A c, d \in Clients :
        (c # d /\ Editing(c) /\ Editing(d)) => lockInfo[c] \in forced \/ lockInfo[d] \in forced

\* Whoever works on the state under the lock has all of it: his copy differs
\* from the state object by edits of his own at most.  The lock is taken before
\* the state is read, and no write of another client can come in between unless
\* its lock was released by force, or the write was left in flight by a failed
\* SaveState or a crash.
CopyIsCurrent ==
    \A c \in Clients :
        (Editing(c) /\ forced = {} /\ ~strayed)
            => edits \subseteq copy[c] /\ copy[c] \ edits \subseteq Own(c)

\* Without force and without writes left in flight, an edit whose SaveState
\* returned stays in the state, whatever is lost or crashes afterwards.
NoLostUpdate == (forced = {} /\ ~strayed) => acked \subseteq edits

\* The state lock outlives its client's call only after a fault, or when
\* GetState locked a state that is not there and SkipCreate made it answer
\* without the lock's id.
NoOrphanLock ==
    (Locked(StateLock) /\ pc[owner[StateLock]] = "ended")
        => faults > 0 \/ reply[owner[StateLock]] = "noState"

\* Every GetState call is answered, whoever holds the lock and for how long.
Answered == \A c \in Clients : pc[c] = "bucket" ~> Editing(c) \/ pc[c] \in {"releasing", "ended"}
=============================================================================
