---------------------------- MODULE LockObjects ----------------------------
(***************************************************************************)
(* A lock is an object of the locks bucket: it is taken by creating the    *)
(* object on the condition that there is none, and freed by deleting it on *)
(* the condition that its generation is still the one the creation         *)
(* returned.  plugin/state.go does both, for the locks of AcquireLocks and *)
(* for the state lock.  The generation stands for the lock id (its base-36 *)
(* form, which releaseLock parses back); 0 means that there is no object.  *)
(***************************************************************************)
EXTENDS Integers, FiniteSets, Sequences

CONSTANTS Files,     \* the objects' names, numbered as sort.Strings orders them
          Clients    \* runs of the CLI, each with a plugin process of its own

\* Names are ordered, and finitely many: one is the last.
ASSUME FilesAssumption ==
    Files \subseteq Nat /\ \E m \in Files : \A f \in Files : f <= m

VARIABLES gen,       \* generation of the live object of each name, 0 if none
          owner,     \* who wrote it: the object's content, lockdata()
          lastGen    \* the last generation the store gave out

objectVars == <<gen, owner, lastGen>>

ObjectTypeOK ==
    /\ gen \in [Files -> Nat]
    /\ owner \in [Files -> Clients]
    /\ lastGen \in Nat

ObjectInit ==
    /\ gen = [f \in Files |-> 0]
    /\ owner \in [Files -> Clients]
    /\ \A f, g \in Files : owner[f] = owner[g]
    /\ lastGen = 0

\* acquireLock: Writer.Close under Conditions{DoesNotExist: true}.
Locked(f) == gen[f] # 0

\* Variant: the condition is forgotten, and a write replaces the object.
CreateAlways(c, f) ==
    /\ lastGen' = lastGen + 1
    /\ gen' = [gen EXCEPT ![f] = lastGen + 1]
    /\ owner' = [owner EXCEPT ![f] = c]

CreateObject(c, f) ==
    /\ ~Locked(f)
    /\ lastGen' = lastGen + 1
    /\ gen' = [gen EXCEPT ![f] = lastGen + 1]
    /\ owner' = [owner EXCEPT ![f] = c]

\* releaseLock: Delete under Conditions{GenerationMatch: g}.  Any other
\* generation is errReleaseLockMismatch, no object errReleaseLockFailed.
\* Variant: any object of that name will do.
ReleasableByName(f, g) == Locked(f)

Releasable(f, g) == Locked(f) /\ gen[f] = g

DeleteObject(f) ==
    /\ gen' = [gen EXCEPT ![f] = 0]
    /\ UNCHANGED <<owner, lastGen>>
=============================================================================
