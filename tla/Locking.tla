------------------------------ MODULE Locking ------------------------------
(***************************************************************************)
(* LockingPluginService: AcquireLocks and ReleaseLocks (plugin/locking.go) *)
(* of several runs of the CLI that share one locks bucket.  Each client    *)
(* makes one AcquireLocks request; its plugin takes the lock objects one   *)
(* by one in the order of their names, waits while one of them is held,    *)
(* and answers with the ids of all of them, or looks up who holds the rest *)
(* and gives back what it took.  A client that was granted its locks hands *)
(* them back with ReleaseLocks.                                            *)
(*                                                                         *)
(* Time is counted in ticks of the retry ticker.  A fault is a lost        *)
(* request, a lost answer, a broken stream, a cancelled call or a crash.   *)
(***************************************************************************)
EXTENDS LockObjects

CONSTANTS Requests,        \* lock names of a request, as the files they map to
          MaxLockWait,     \* the longest lock_wait, in ticks
          MaxFaults,       \* bound on faults
          ForceUnlockers   \* clients that release the lock a LockError reports

ASSUME RequestsAssumption == Requests \subseteq Seq(Files)
ASSUME BoundsAssumption ==
    MaxLockWait \in Nat /\ MaxFaults \in Nat /\ ForceUnlockers \subseteq Clients

VARIABLES bucketExists,    \* the locks bucket was created
          pc,              \* where each client's call is
          lockfiles,       \* acquireLocks: the files to lock, sorted
          i,               \* acquireLocks: index of the file being locked
          lockWait,        \* the request's lock_wait
          elapsed,         \* ticks since acquireLocks started
          locksAcquired,   \* id of each lock taken, 0 if none
          lockInfoFailed,  \* id reported as held by someone else, 0 if none
          tasks,           \* files whose goroutine has not finished
          taskErr,         \* a goroutine of the group failed
          reply,           \* what AcquireLocks answered
          faults,          \* faults so far
          forced           \* ids released on the strength of a LockError

clientVars == <<lockfiles, lockWait, locksAcquired, lockInfoFailed>>
callVars   == <<pc, i, elapsed, tasks, taskErr, reply>>
vars == <<objectVars, clientVars, callVars, bucketExists, faults, forced>>

NoLocks == [f \in Files |-> 0]

Labels == {"idle", "bucket", "mkbucket", "create", "check", "wait", "probe",
           "rollback", "held", "releasing", "unsure", "ended"}
Answers == {"none", "granted", "lockError", "error"}

CallTypeOK ==
    /\ pc \in [Clients -> Labels]
    /\ lockfiles \in [Clients -> Seq(Files)]
    /\ i \in [Clients -> Nat \ {0}]
    /\ lockWait \in [Clients -> 0..MaxLockWait]
    /\ elapsed \in [Clients -> Nat]
    /\ locksAcquired \in [Clients -> [Files -> Nat]]
    /\ lockInfoFailed \in [Clients -> [Files -> Nat]]
    /\ tasks \in [Clients -> SUBSET Files]
    /\ taskErr \in [Clients -> BOOLEAN]
    /\ reply \in [Clients -> Answers]

TypeOK ==
    /\ ObjectTypeOK
    /\ CallTypeOK
    /\ bucketExists \in BOOLEAN
    /\ faults \in 0..MaxFaults
    /\ forced \in SUBSET Nat

Init ==
    /\ ObjectInit
    /\ bucketExists \in BOOLEAN
    /\ pc = [c \in Clients |-> "idle"]
    /\ lockfiles = [c \in Clients |-> << >>]
    /\ i = [c \in Clients |-> 1]
    /\ lockWait = [c \in Clients |-> 0]
    /\ elapsed = [c \in Clients |-> 0]
    /\ locksAcquired = [c \in Clients |-> NoLocks]
    /\ lockInfoFailed = [c \in Clients |-> NoLocks]
    /\ tasks = [c \in Clients |-> {}]
    /\ taskErr = [c \in Clients |-> FALSE]
    /\ reply = [c \in Clients |-> "none"]
    /\ faults = 0
    /\ forced = {}

----------------------------------------------------------------------------
Fault == faults < MaxFaults /\ faults' = faults + 1

\* Variant: the last file is left out.
LoopingShort(c) == i[c] < Len(lockfiles[c])

Looping(c)  == i[c] <= Len(lockfiles[c])
Current(c)  == lockfiles[c][i[c]]
Taken(c)    == {f \in Files : locksAcquired[c][f] # 0}
Reported(c) == {f \in Files : lockInfoFailed[c][f] # 0}

Goto(c, label) == pc' = [pc EXCEPT ![c] = label]

\* AcquireLocks returns an error: the map of what was taken is dropped.
Abandon(c) ==
    /\ Goto(c, "ended")
    /\ reply' = [reply EXCEPT ![c] = "error"]
    /\ locksAcquired' = [locksAcquired EXCEPT ![c] = NoLocks]
    /\ UNCHANGED <<lockfiles, lockWait, lockInfoFailed, i, elapsed, tasks, taskErr>>

\* The files a request's names map to, sorted: sort.Strings(lockfiles).
Sorted(s) == \A j, k \in 1..Len(s) : j <= k => s[j] <= s[k]
Count(s, f) == Cardinality({j \in 1..Len(s) : s[j] = f})
\* Variant: in the order of the request.
GivenNames(r) == {r}

SortedNames(r) ==
    {s \in [1..Len(r) -> Files] :
        Sorted(s) /\ \A f \in Files : Count(s, f) = Count(r, f)}

\* AcquireLocks, up to getBucket.
Begin(c) ==
    /\ pc[c] = "idle"
    /\ \E r \in Requests : \E s \in SortedNames(r) :
           lockfiles' = [lockfiles EXCEPT ![c] = s]
    /\ \E w \in 0..MaxLockWait : lockWait' = [lockWait EXCEPT ![c] = w]
    /\ Goto(c, "bucket")
    /\ UNCHANGED <<objectVars, bucketExists, i, elapsed, locksAcquired,
                   lockInfoFailed, tasks, taskErr, reply, faults, forced>>

\* getBucket: Attrs.
BucketAttrs(c) ==
    /\ pc[c] = "bucket"
    /\ \/ /\ Goto(c, IF bucketExists THEN "create" ELSE "mkbucket")
          /\ UNCHANGED <<clientVars, i, elapsed, tasks, taskErr, reply, faults>>
       \/ Fault /\ Abandon(c)
    /\ UNCHANGED <<objectVars, bucketExists, forced>>

\* getBucket: Create, which fails if another client created it meanwhile.
BucketCreate(c) ==
    /\ pc[c] = "mkbucket"
    /\ \/ /\ ~bucketExists
          /\ bucketExists' = TRUE
          /\ Goto(c, "create")
          /\ UNCHANGED <<clientVars, i, elapsed, tasks, taskErr, reply, faults>>
       \/ bucketExists /\ Abandon(c) /\ UNCHANGED <<bucketExists, faults>>
       \/ Fault /\ Abandon(c) /\ bucketExists' \in {bucketExists, TRUE}
    /\ UNCHANGED <<objectVars, forced>>

----------------------------------------------------------------------------
(* acquireLocks *)

\* time.Since(start) > lockWait, after an attempt that took d of a tick more.
Expired(c, d) == lockWait[c] = 0 \/ elapsed[c] + d > lockWait[c]

\* Not expired: on to waitCb and the select.
StayInLoop(c) ==
    /\ Goto(c, "wait")
    /\ UNCHANGED <<clientVars, i, elapsed, tasks, taskErr, reply>>

\* acquireLock failed with anything but errAcquireLockFailed.
OtherError(c) ==
    \E d \in {0, 1} :
        \/ Expired(c, d) /\ Abandon(c)
        \/ ~Expired(c, d) /\ StayInLoop(c)

\* The remaining files, looked up concurrently once the wait is over.
Rest(c) == {lockfiles[c][j] : j \in (i[c] + 1)..Len(lockfiles[c])}

GiveUpOn(c) ==
    /\ Goto(c, "probe")
    /\ lockInfoFailed' = [lockInfoFailed EXCEPT ![c][Current(c)] = gen[Current(c)]]
    /\ tasks' = [tasks EXCEPT ![c] = Rest(c)]
    /\ UNCHANGED <<lockfiles, lockWait, locksAcquired, i, elapsed, taskErr, reply>>

\* acquireLock failed with errAcquireLockFailed.
HeldError(c) ==
    \E d \in {0, 1} :
        \/ Expired(c, d) /\ GiveUpOn(c)
        \/ ~Expired(c, d) /\ StayInLoop(c)

\* acquireLock: the object is created, and its generation is the lock's id.
Created(c) ==
    /\ CreateObject(c, Current(c))
    /\ locksAcquired' = [locksAcquired EXCEPT ![c][Current(c)] = lastGen']
    /\ i' = [i EXCEPT ![c] = i[c] + 1]
    /\ UNCHANGED <<pc, lockfiles, lockWait, lockInfoFailed, elapsed, tasks,
                   taskErr, reply, faults>>

\* acquireLock: 412, so checkLock follows.
Refused(c) ==
    /\ Locked(Current(c))
    /\ Goto(c, "check")
    /\ UNCHANGED <<objectVars, clientVars, i, elapsed, tasks, taskErr, reply, faults>>

\* The request does not arrive, or it does and the answer is lost: the client
\* library then reports the failure, or retries and is refused its own lock.
CreateLost(c) ==
    /\ Fault
    /\ \/ OtherError(c) /\ UNCHANGED objectVars
       \/ OtherError(c) /\ CreateObject(c, Current(c))
       \/ /\ CreateObject(c, Current(c))
          /\ Goto(c, "check")
          /\ UNCHANGED <<clientVars, i, elapsed, tasks, taskErr, reply>>

TryCreate(c) ==
    /\ pc[c] = "create" /\ Looping(c)
    /\ Created(c) \/ Refused(c) \/ CreateLost(c)
    /\ UNCHANGED <<bucketExists, forced>>

\* checkLock: the object may be gone by now, and that is not
\* errAcquireLockFailed.
Check(c) ==
    /\ pc[c] = "check"
    /\ \/ Locked(Current(c)) /\ HeldError(c) /\ UNCHANGED faults
       \/ ~Locked(Current(c)) /\ OtherError(c) /\ UNCHANGED faults
       \/ Fault /\ OtherError(c)
    /\ UNCHANGED <<objectVars, bucketExists, forced>>

\* Variant: time.Until(start) for time.Since(start).
TickBack(c) ==
    /\ pc[c] = "wait"
    /\ Goto(c, "create")
    /\ elapsed' = [elapsed EXCEPT ![c] = elapsed[c] - 1]
    /\ UNCHANGED <<objectVars, clientVars, bucketExists, i, tasks, taskErr,
                   reply, faults, forced>>

\* Variant: start is set inside the loop.
TickAnew(c) ==
    /\ pc[c] = "wait"
    /\ Goto(c, "create")
    /\ UNCHANGED <<objectVars, clientVars, bucketExists, i, elapsed, tasks,
                   taskErr, reply, faults, forced>>

Tick(c) ==
    /\ pc[c] = "wait"
    /\ Goto(c, "create")
    /\ elapsed' = [elapsed EXCEPT ![c] = elapsed[c] + 1]
    /\ UNCHANGED <<objectVars, clientVars, bucketExists, i, tasks, taskErr,
                   reply, faults, forced>>

\* waitCb cannot send Waiting, or the call is cancelled.
Interrupted(c) ==
    /\ pc[c] = "wait"
    /\ Fault /\ Abandon(c)
    /\ UNCHANGED <<objectVars, bucketExists, forced>>

\* A goroutine of the group that looks up the remaining files.
Probe(c, f) ==
    /\ pc[c] = "probe" /\ f \in tasks[c]
    /\ tasks' = [tasks EXCEPT ![c] = @ \ {f}]
    /\ \/ /\ lockInfoFailed' =
                IF Locked(f) THEN [lockInfoFailed EXCEPT ![c][f] = gen[f]]
                             ELSE lockInfoFailed
          /\ UNCHANGED <<taskErr, faults>>
       \/ /\ Fault
          /\ taskErr' = [taskErr EXCEPT ![c] = TRUE]
          /\ UNCHANGED lockInfoFailed
    /\ UNCHANGED <<objectVars, bucketExists, pc, lockfiles, lockWait, i, elapsed,
                   locksAcquired, reply, forced>>

\* g.Wait(): every goroutine ended, or one failed and the others never start.
\* Variant: nobody waits for the goroutines.
NotWaited(c) == TRUE

Waited(c) == tasks[c] = {} \/ taskErr[c]

NoTasks(c) ==
    /\ tasks' = [tasks EXCEPT ![c] = {}]
    /\ taskErr' = [taskErr EXCEPT ![c] = FALSE]

\* Variant: the answer is that of a success, with what was taken.
LockErrorReplyTaken(c) ==
    /\ Goto(c, "held")
    /\ reply' = [reply EXCEPT ![c] = "granted"]
    /\ UNCHANGED locksAcquired

LockErrorReply(c) ==
    /\ Goto(c, "ended")
    /\ reply' = [reply EXCEPT ![c] = "lockError"]
    /\ locksAcquired' = [locksAcquired EXCEPT ![c] = NoLocks]

\* return locksAcquired, lockInfoFailed, g.Wait(): Go leaves open whether the
\* variable is read before the call, so any report made meanwhile may be lost.
\* AcquireLocks then rolls back what was taken, if anything was.
ProbesDone(c) ==
    /\ pc[c] = "probe" /\ Waited(c)
    /\ \E R \in SUBSET Reported(c) :
           /\ Current(c) \in R
           /\ lockInfoFailed' = [lockInfoFailed EXCEPT ![c] =
                  [f \in Files |-> IF f \in R THEN lockInfoFailed[c][f] ELSE 0]]
    /\ taskErr' = [taskErr EXCEPT ![c] = FALSE]
    /\ tasks' = [tasks EXCEPT ![c] = Taken(c)]
    /\ \/ Taken(c) # {} /\ Goto(c, "rollback") /\ UNCHANGED <<reply, locksAcquired>>
       \/ Taken(c) = {} /\ LockErrorReply(c)
    /\ UNCHANGED <<objectVars, bucketExists, lockfiles, lockWait, i, elapsed,
                   faults, forced>>

\* The final stream.Send.
Reply(c) ==
    /\ pc[c] = "create" /\ ~Looping(c)
    /\ \/ /\ Goto(c, "held")
          /\ reply' = [reply EXCEPT ![c] = "granted"]
          /\ UNCHANGED <<clientVars, i, elapsed, tasks, taskErr, faults>>
       \/ Fault /\ Abandon(c)
    /\ UNCHANGED <<objectVars, bucketExists, forced>>

----------------------------------------------------------------------------
(* ReleaseLocks *)

\* The host hands the locks back; it may ask again after an error.
ReleaseLocks(c) ==
    /\ pc[c] \in {"held", "unsure"}
    /\ Goto(c, "releasing")
    /\ tasks' = [tasks EXCEPT ![c] = Taken(c)]
    /\ UNCHANGED <<objectVars, clientVars, bucketExists, i, elapsed, taskErr,
                   reply, faults, forced>>

\* A goroutine of ReleaseLocks, for a lock id that may be out of date.
ReleaseLock(c, f) ==
    /\ pc[c] \in {"rollback", "releasing"} /\ f \in tasks[c]
    /\ tasks' = [tasks EXCEPT ![c] = @ \ {f}]
    /\ \/ /\ Releasable(f, locksAcquired[c][f])
          /\ DeleteObject(f)
          /\ UNCHANGED <<taskErr, faults>>
       \/ /\ ~Releasable(f, locksAcquired[c][f])
          /\ taskErr' = [taskErr EXCEPT ![c] = TRUE]
          /\ UNCHANGED <<objectVars, faults>>
       \/ /\ Fault
          /\ taskErr' = [taskErr EXCEPT ![c] = TRUE]
          /\ \/ Releasable(f, locksAcquired[c][f]) /\ DeleteObject(f)
             \/ UNCHANGED objectVars
    /\ UNCHANGED <<clientVars, bucketExists, pc, i, elapsed, reply, forced>>

\* The rollback ignores ReleaseLocks' error.
RollbackDone(c) ==
    /\ pc[c] = "rollback" /\ Waited(c)
    /\ NoTasks(c)
    /\ LockErrorReply(c)
    /\ UNCHANGED <<objectVars, bucketExists, lockfiles, lockWait, lockInfoFailed,
                   i, elapsed, faults, forced>>

ReleaseDone(c) ==
    /\ pc[c] = "releasing" /\ Waited(c)
    /\ NoTasks(c)
    /\ Goto(c, IF taskErr[c] THEN "unsure" ELSE "ended")
    /\ UNCHANGED <<objectVars, clientVars, bucketExists, i, elapsed, reply,
                   faults, forced>>

----------------------------------------------------------------------------
(* The host and its environment *)

\* The host or its plugin is killed.
Crash(c) ==
    /\ pc[c] \notin {"idle", "ended"}
    /\ Fault
    /\ Goto(c, "ended")
    /\ reply' = [reply EXCEPT ![c] = "none"]
    /\ locksAcquired' = [locksAcquired EXCEPT ![c] = NoLocks]
    /\ NoTasks(c)
    /\ UNCHANGED <<objectVars, bucketExists, lockfiles, lockWait, lockInfoFailed,
                   i, elapsed, forced>>

\* ReleaseLocks of a lock someone else holds, with the id a LockError gave.
ForceUnlock(c, f) ==
    /\ c \in ForceUnlockers
    /\ reply[c] = "lockError" /\ f \in Reported(c)
    /\ Releasable(f, lockInfoFailed[c][f])
    /\ DeleteObject(f)
    /\ forced' = forced \cup {lockInfoFailed[c][f]}
    /\ UNCHANGED <<clientVars, callVars, bucketExists, faults>>

Terminated ==
    /\ \A c \in Clients : pc[c] = "ended"
    /\ UNCHANGED vars

AcquireStep(c) ==
    \/ BucketAttrs(c) \/ BucketCreate(c) \/ TryCreate(c) \/ Check(c) \/ Tick(c)
    \/ ProbesDone(c) \/ RollbackDone(c) \/ Reply(c)
    \/ \E f \in Files : Probe(c, f)

ReleaseStep(c) ==
    ReleaseDone(c) \/ \E f \in Files : ReleaseLock(c, f)

Next ==
    \/ \E c \in Clients :
          \/ Begin(c) \/ AcquireStep(c) \/ Interrupted(c)
          \/ ReleaseLocks(c) \/ ReleaseStep(c) \/ Crash(c)
          \/ \E f \in Files : ForceUnlock(c, f)
    \/ Terminated

\* The plugin's goroutines run; nothing obliges the host to call again.
Fairness == \A c \in Clients : WF_vars(AcquireStep(c)) /\ WF_vars(ReleaseStep(c))

Spec == Init /\ [][Next]_vars /\ Fairness

----------------------------------------------------------------------------
(* Properties *)

\* Two clients are never both told that they hold the lock on one file, unless
\* the first one's lock was released by force: the conditional create and the
\* conditional delete of acquireLock and releaseLock, across the rollbacks,
\* lost answers and crashes of everyone else.
MutualExclusion ==
    \A c, d \in Clients : \A f \in Files :
        (c # d /\ pc[c] = "held" /\ pc[d] = "held" /\ f \in Taken(c) \cap Taken(d))
            => locksAcquired[c][f] \in forced \/ locksAcquired[d][f] \in forced

\* AcquireLocks is all or nothing: who was granted locks has every lock asked
\* for, and each one is still there under the id the answer gave.
GrantIsComplete ==
    \A c \in Clients : pc[c] = "held" =>
        \A j \in 1..Len(lockfiles[c]) :
            LET f == lockfiles[c][j] IN
            /\ f \in Taken(c)
            /\ gen[f] = locksAcquired[c][f] \/ locksAcquired[c][f] \in forced

\* Sorting the files rules out deadlock: in no set of clients that are taking
\* locks is each one waiting for a file that another one of the set has.
Waiting(c) == pc[c] \in {"create", "check", "wait"} /\ Looping(c)
Has(c, f)  == Locked(f) /\ owner[f] = c
NoCircularWait ==
    \A S \in SUBSET Clients :
        (S # {} /\ \A c \in S : Waiting(c))
            => \E c \in S : \A d \in S \ {c} : ~Has(d, Current(c))

\* A lock outlives its client's call only when that call broke off with an
\* error that is not a LockError (acquireLocks then drops the map of what it
\* took), or after a fault, or a release by force that failed a rollback half
\* way: an orderly refusal or release leaves nothing.
NoOrphans ==
    \A f \in Files :
        (Locked(f) /\ pc[owner[f]] = "ended")
            => reply[owner[f]] = "error" \/ faults > 0 \/ forced # {}

\* A lock is deleted only by the rollback or the release of the client that
\* took it, whatever ids the others still believe in, or by force.
OnlyOwnerReleases ==
    [][\A f \in Files :
          (Locked(f) /\ gen'[f] # gen[f])
              => pc[owner[f]] \in {"rollback", "releasing"} \/ gen[f] \in forced']_vars

\* Every AcquireLocks call is answered, whoever holds the locks and for however
\* long: the loop ends at lock_wait, and the rollback ends.
Answered ==
    \A c \in Clients : pc[c] = "bucket" ~> pc[c] \in {"held", "releasing", "ended"}

\* What a host may rely on: locks are granted by whole requests, each in one
\* step and never while someone else has one of them, though the plugin takes
\* them one by one and may have to give some back (LockService).  Only a lock
\* whose id was released by force counts as revoked.
granted == [c \in Clients |-> IF pc[c] = "held" THEN Taken(c) ELSE {}]
revoked ==
    [c \in Clients |->
        IF pc[c] \in {"create", "check", "wait", "held"}
            THEN {f \in Taken(c) : locksAcquired[c][f] \in forced} ELSE {}]
Service == INSTANCE LockService
GrantsAreAtomic == Service!Spec
=============================================================================
