-------------------------- MODULE PluginCoreProofs --------------------------
(***************************************************************************)
(* Safety of PluginCore for every set of calls and APIs, and whatever the  *)
(* calls need.                                                             *)
(***************************************************************************)
EXTENDS PluginCore, TLAPS

\* What ensureAPI may take for enabled.
Believable == enabled \cup excused

\* A call that is in ensureAPI is there for an API.
Ensuring == Running \ {"f"}
ForAnAPI == \A c \in Calls : pc[c] \in Ensuring => api[c] \in APIs

\* What is about to be stored, or to be found done, is believable.
StoresTruth ==
    \A c \in Calls :
        pc[c] \in {"store", "storing"} \/ op[c] = "ok" => api[c] \in Believable

\* A call has tried what it holds as enabled, and the API it is at.
TriedAreCached ==
    \A c \in Calls :
        /\ pc[c] = "f" => tried[c] \subseteq apisEnabled
        /\ pc[c] \in Ensuring => tried[c] \subseteq apisEnabled \cup {api[c]}
        /\ pc[c] \notin Running => tried[c] = {}

IInv == TypeOK /\ ForAnAPI /\ StoresTruth /\ TriedAreCached /\ CacheIsTrue

-----------------------------------------------------------------------------
\* The end of a call, and that of the process, keep the types of what they
\* change.
LEMMA FinishType ==
    ASSUME TypeOK, NEW c \in Calls, NEW a \in APIs \cup {None}, Finish(c, a)
    PROVE  /\ pc' \in [Calls -> Running \cup {"idle", "done"}]
           /\ api' \in [Calls -> APIs \cup {None}]
           /\ tried' \in [Calls -> SUBSET APIs]
           /\ ctx' \in [Calls -> Calls \cup {None}]
           /\ missing' \in [Calls -> APIs \cup {None}]
           /\ pc'[c] = "done" /\ \A d \in Calls \ {c} : pc'[d] = pc[d] /\ ctx'[d] = ctx[d]
BY DEF Finish, Goto, TypeOK, Running

LEMMA GotoType ==
    ASSUME TypeOK, NEW c \in Calls, NEW l \in Running, Goto(c, l)
    PROVE  /\ pc' \in [Calls -> Running \cup {"idle", "done"}]
           /\ pc'[c] = l /\ \A d \in Calls \ {c} : pc'[d] = pc[d]
BY DEF Goto, TypeOK

LEMMA DieType ==
    ASSUME TypeOK, ForAnAPI, Die, project' \in BOOLEAN
    PROVE  TypeOK'
<1> USE DEF Die, TypeOK
<1>1. orphans' \subseteq APIs
  <2>1. ASSUME NEW d \in Calls, op[d] = "running" PROVE api[d] \in APIs
        BY <2>1 DEF ForAnAPI, Ensuring, Running
  <2> QED
      BY <2>1
<1>2. pc' \in [Calls -> {"idle", "done"}]
      BY DEF Unfinished
<1>3. \A c \in Calls : op'[c] = "none" /\ pc'[c] \notin {"wait", "client"}
      BY <1>2
<1> QED
    BY <1>1, <1>2, <1>3 DEF Running

\* Every step keeps the types: an operation is started, and an API stored,
\* only for an API.
LEMMA NextType == TypeOK /\ ForAnAPI /\ [Next]_vars => TypeOK'
<1> SUFFICES ASSUME TypeOK, ForAnAPI, [Next]_vars PROVE TypeOK'
    OBVIOUS
<1> USE CoreAssumption DEF cloud, process, call
<1>1. CASE UNCHANGED vars
      BY <1>1 DEF vars, TypeOK
<1>2. CASE StartStep
  <2>1. CASE HostStart \/ GetProject \/ GetProjectFails \/ Confirm \/ CreateProject
        BY <2>1 DEF HostStart, GetProject, Found, GetProjectFails, Confirm, CreateProject, TypeOK
  <2>2. CASE ProjectCreated
        BY <2>2, DieType DEF ProjectCreated
  <2>3. CASE ProjectFailed
        BY <2>3 DEF ProjectFailed, TypeOK
  <2> QED
      BY <1>2, <2>1, <2>2, <2>3 DEF StartStep
<1>3. CASE Kill
      BY <1>3, DieType DEF Kill, TypeOK
<1>4. ASSUME NEW c \in Calls, Begin(c) PROVE TypeOK'
      BY <1>4, GotoType DEF Begin, Running, TypeOK
<1>5. ASSUME NEW c \in Calls, Step(c) PROVE TypeOK'
  <2>1. CASE Answered(c)
        BY <2>1, FinishType DEF Answered, TypeOK
  <2>2. ASSUME NEW a \in APIs, Missing(c, a) PROVE TypeOK'
    <3>1. CASE a \in Tried(c)
          BY <2>2, <3>1, FinishType DEF Missing, TypeOK
    <3>2. CASE a \notin Tried(c)
          BY <2>2, <3>2, GotoType DEF Missing, Running, TypeOK
    <3> QED
        BY <3>1, <3>2
  <2>3. CASE Lookup(c)
        BY <2>3, GotoType DEF Lookup, Running, TypeOK
  <2>4. CASE GetContext(c)
        BY <2>4, GotoType DEF GetContext, HasContext, Running, TypeOK
  <2>5. CASE NewContext(c)
        BY <2>5, GotoType DEF NewContext, Running, TypeOK
  <2>6. CASE MakeClient(c)
    <3>1. PICK r \in ClientResult :
             /\ client' = [client EXCEPT ![ctx[c]] = r]
             /\ IF r = "nil"
                   THEN Finish(c, None)
                   ELSE Goto(c, "enable") /\ UNCHANGED <<api, tried, ctx, missing>>
          BY <2>6 DEF MakeClient
    <3>2. client' \in [Calls -> {"unset", "ok", "nil"}]
          BY <3>1 DEF ClientResult, TypeOK
    <3>3. CASE r = "nil"
          BY <2>6, <3>1, <3>2, <3>3, FinishType DEF MakeClient, TypeOK
    <3>4. CASE r # "nil"
          BY <2>6, <3>1, <3>2, <3>4, GotoType DEF MakeClient, Running, TypeOK
    <3> QED
        BY <3>3, <3>4
  <2>7. CASE GetClient(c)
        BY <2>7, GotoType DEF GetClient, Running, TypeOK
  <2>8. CASE NilClient(c)
        BY <2>8, DieType DEF NilClient, TypeOK
  <2>9. CASE EnableFails(c)
        BY <2>9, FinishType DEF EnableFails, TypeOK
  <2>10. CASE EnableDone(c)
    <3>1. api[c] \in APIs
          BY <2>10 DEF EnableDone, ForAnAPI, Ensuring, Running
    <3> QED
        BY <2>10, <3>1, GotoType DEF EnableDone, TurnOn, Running, TypeOK
  <2>11. CASE Enable(c)
        BY <2>11, GotoType DEF Enable, AfterEnable, Running, TypeOK
  <2>12. CASE Poll(c)
    <3>1. CASE op[c] = "ok"
          BY <2>12, <3>1, GotoType DEF Poll, Running, TypeOK
    <3>2. CASE op[c] # "ok"
          BY <2>12, <3>2, FinishType DEF Poll, TypeOK
    <3> QED
        BY <3>1, <3>2
  <2>13. CASE StoreBegin(c)
        BY <2>13, GotoType DEF StoreBegin, Running, TypeOK
  <2>14. CASE StoreEnd(c)
    <3>1. api[c] \in APIs
          BY <2>14 DEF StoreEnd, ForAnAPI, Ensuring, Running
    <3> QED
        BY <2>14, <3>1, GotoType DEF StoreEnd, Running, TypeOK
  <2> QED
      BY <1>5, <2>1, <2>2, <2>3, <2>4, <2>5, <2>6, <2>7, <2>8, <2>9, <2>10, <2>11, <2>12,
         <2>13, <2>14 DEF Step
<1>6. ASSUME NEW c \in Calls, NoService(c) PROVE TypeOK'
      BY <1>6, DieType DEF NoService, TypeOK
<1>7. ASSUME NEW c \in Calls, GiveUp(c) PROVE TypeOK'
  <2>1. api[c] \in APIs
        BY <1>7 DEF GiveUp, ForAnAPI, Ensuring, Running
  <2> QED
      BY <1>7, <2>1, FinishType DEF GiveUp, TypeOK
<1>8. ASSUME NEW c \in Calls, OperationEnds(c) PROVE TypeOK'
  <2>1. pc[c] = "wait" /\ api[c] \in APIs
        BY <1>8 DEF OperationEnds, TypeOK, ForAnAPI, Ensuring, Running
  <2> QED
      BY <1>8, <2>1 DEF OperationEnds, TurnOn, TypeOK
<1>9. ASSUME NEW c \in Calls, NEW d \in Calls, MapFault(c, d) PROVE TypeOK'
      BY <1>9, DieType DEF MapFault, TypeOK
<1>10. ASSUME NEW a \in APIs, OrphanEnds(a) \/ Disable(a) PROVE TypeOK'
      BY <1>10 DEF OrphanEnds, Disable, TurnOn, TypeOK
<1> QED
    BY <1>1, <1>2, <1>3, <1>4, <1>5, <1>6, <1>7, <1>8, <1>9, <1>10 DEF Next

-----------------------------------------------------------------------------
\* A service that may be believed enabled stays so: who disables it, or fails
\* to enable it, excuses it.
LEMMA Grows == TypeOK /\ ForAnAPI /\ [Next]_vars => Believable \subseteq Believable'
<1> SUFFICES ASSUME TypeOK, ForAnAPI, [Next]_vars PROVE Believable \subseteq Believable'
    OBVIOUS
<1> USE DEF Believable, cloud
<1>1. CASE UNCHANGED <<enabled, excused>>
      BY <1>1
<1>2. ASSUME NEW a \in APIs,
             \/ TurnOn(a)
             \/ excused' = excused \cup {a} /\ enabled \ {a} \subseteq enabled'
      PROVE  Believable \subseteq Believable'
      BY <1>2 DEF TurnOn
<1>3. CASE UNCHANGED vars
      BY <1>1, <1>3 DEF vars
<1>4. CASE StartStep \/ Kill
      BY <1>1, <1>4 DEF StartStep, HostStart, GetProject, GetProjectFails, Confirm,
         CreateProject, ProjectCreated, ProjectFailed, Kill, Die
<1>5. ASSUME NEW c \in Calls,
             Begin(c) \/ NoService(c) \/ GiveUp(c) \/ \E d \in Calls : MapFault(c, d)
      PROVE  UNCHANGED <<enabled, excused>>
      BY <1>5 DEF Begin, NoService, GiveUp, MapFault, Die
<1>6. ASSUME NEW c \in Calls, Step(c), ~EnableDone(c) PROVE UNCHANGED <<enabled, excused>>
      BY <1>6 DEF Step, Answered, Missing, Lookup, GetContext, NewContext, MakeClient,
         GetClient, NilClient, Die, EnableFails, Enable, Poll, StoreBegin, StoreEnd
<1>7. ASSUME NEW c \in Calls, EnableDone(c) \/ OperationEnds(c)
      PROVE  Believable \subseteq Believable'
  <2>1. api[c] \in APIs
        BY <1>7 DEF EnableDone, OperationEnds, TypeOK, ForAnAPI, Ensuring, Running
  <2> QED
      BY <1>1, <1>2, <1>7, <2>1 DEF EnableDone, OperationEnds
<1>8. ASSUME NEW a \in APIs, OrphanEnds(a) \/ Disable(a)
      PROVE  Believable \subseteq Believable'
      BY <1>1, <1>2, <1>8 DEF OrphanEnds, Disable
<1> QED
    BY <1>1, <1>3, <1>4, <1>5, <1>6, <1>7, <1>8 DEF Next

\* The end of a call, or of the process, leaves nothing to be stored.
LEMMA FinishKeeps ==
    ASSUME IInv, NEW c \in Calls, NEW a \in APIs \cup {None}, Finish(c, a),
           \A d \in Calls \ {c} : op'[d] = op[d], op'[c] = "none",
           Believable \subseteq Believable', apisEnabled' = apisEnabled
    PROVE  ForAnAPI' /\ StoresTruth' /\ TriedAreCached' /\ CacheIsTrue'
BY DEF IInv, TypeOK, ForAnAPI, StoresTruth, TriedAreCached, CacheIsTrue, Believable, Finish,
   Goto, Ensuring, Running

LEMMA DieKeeps ==
    ASSUME IInv, Die
    PROVE  ForAnAPI' /\ StoresTruth' /\ TriedAreCached' /\ CacheIsTrue'
<1>1. \A c \in Calls : pc'[c] \in {"idle", "done"} /\ op'[c] = "none" /\ tried'[c] = {}
      BY DEF Die
<1> QED
    BY <1>1 DEF Die, ForAnAPI, StoresTruth, TriedAreCached, CacheIsTrue, Ensuring, Running

\* Every step keeps the calls' part of the invariant, and the cache true.
LEMMA NextCalls ==
    IInv /\ [Next]_vars => ForAnAPI' /\ StoresTruth' /\ TriedAreCached' /\ CacheIsTrue'
<1> DEFINE Kept == ForAnAPI' /\ StoresTruth' /\ TriedAreCached' /\ CacheIsTrue'
<1> SUFFICES ASSUME IInv, [Next]_vars PROVE Kept
    OBVIOUS
<1> USE CoreAssumption
<1>1. TypeOK /\ Believable \subseteq Believable'
      BY Grows DEF IInv
<1>2. CASE UNCHANGED <<pc, api, tried, op, apisEnabled>>
      BY <1>1, <1>2 DEF IInv, ForAnAPI, StoresTruth, TriedAreCached, CacheIsTrue, Believable
<1>3. ASSUME NEW c \in Calls, NEW l \in Running,
             pc' = [pc EXCEPT ![c] = l], UNCHANGED <<api, tried, op, apisEnabled>>,
             l \in Ensuring => pc[c] \in Ensuring,
             l \in {"store", "storing"} => pc[c] \in {"store", "storing"},
             l = "f" => tried[c] \subseteq apisEnabled
      PROVE  Kept
      BY <1>1, <1>3 DEF IInv, TypeOK, ForAnAPI, StoresTruth, TriedAreCached, CacheIsTrue,
         Believable, Ensuring
<1>4. CASE UNCHANGED vars
      BY <1>2, <1>4 DEF vars, call, process
<1>5. CASE StartStep \/ Kill
      BY <1>2, <1>5, DieKeeps DEF StartStep, HostStart, GetProject, GetProjectFails, Confirm,
         CreateProject, ProjectCreated, ProjectFailed, Kill, call, process
<1>6. ASSUME NEW c \in Calls, Begin(c) PROVE Kept
  <2>1. tried[c] = {}
        BY <1>6 DEF Begin, IInv, TriedAreCached, Running
  <2> QED
      BY <1>3, <1>6, <2>1 DEF Begin, Goto, process, Running, Ensuring
<1>7. ASSUME NEW c \in Calls, Step(c) PROVE Kept
  <2>1. CASE Answered(c)
        BY <1>1, <2>1, FinishKeeps DEF Answered, TypeOK, process
  <2>2. ASSUME NEW a \in APIs, Missing(c, a) PROVE Kept
    <3>1. CASE a \in Tried(c)
          BY <1>1, <2>2, <3>1, FinishKeeps DEF Missing, TypeOK, process
    <3>2. CASE a \notin Tried(c)
          BY <1>1, <2>2, <3>2 DEF Missing, Goto, process, IInv, TypeOK, ForAnAPI, StoresTruth,
             TriedAreCached, CacheIsTrue, Believable, Running, Ensuring
    <3> QED
        BY <3>1, <3>2
  <2>3. CASE Lookup(c)
    <3>1. tried[c] \subseteq apisEnabled \cup {api[c]}
          BY <2>3 DEF Lookup, IInv, TriedAreCached, Running, Ensuring
    <3> QED
        BY <1>3, <2>3, <3>1 DEF Lookup, Goto, process, Running, Ensuring
  <2>4. CASE GetContext(c) \/ NewContext(c) \/ GetClient(c) \/ StoreBegin(c)
        BY <1>3, <2>4 DEF GetContext, NewContext, GetClient, StoreBegin, Goto, process, Running,
           Ensuring
  <2>5. CASE MakeClient(c)
    <3>1. CASE Finish(c, None) /\ UNCHANGED op
          BY <1>1, <2>5, <3>1, FinishKeeps DEF MakeClient, TypeOK
    <3>2. CASE Goto(c, "enable") /\ UNCHANGED <<api, tried, op>>
          BY <1>3, <2>5, <3>2 DEF MakeClient, Goto, Running, Ensuring
    <3> QED
        BY <2>5, <3>1, <3>2 DEF MakeClient
  <2>6. CASE NilClient(c)
        BY <2>6, DieKeeps DEF NilClient
  <2>7. CASE EnableFails(c)
        BY <1>1, <2>7, FinishKeeps DEF EnableFails, TypeOK, process
  <2>8. CASE EnableDone(c)
    <3>1. api[c] \in Believable'
          BY <2>8 DEF EnableDone, TurnOn, Believable
    <3> QED
        BY <1>1, <2>8, <3>1 DEF EnableDone, Goto, process, IInv, TypeOK, ForAnAPI, StoresTruth,
           TriedAreCached, CacheIsTrue, Believable, Running, Ensuring
  <2>9. CASE Enable(c)
        BY <1>1, <2>9 DEF Enable, AfterEnable, Goto, process, IInv, TypeOK, ForAnAPI, StoresTruth,
           TriedAreCached, CacheIsTrue, Believable, Running, Ensuring
  <2>10. CASE Poll(c)
    <3>1. CASE op[c] = "ok"
          BY <1>1, <2>10, <3>1 DEF Poll, Goto, process, IInv, TypeOK, ForAnAPI, StoresTruth,
             TriedAreCached, CacheIsTrue, Believable, Running, Ensuring
    <3>2. CASE op[c] # "ok"
          BY <1>1, <2>10, <3>2, FinishKeeps DEF Poll, TypeOK, process
    <3> QED
        BY <3>1, <3>2
  <2>11. CASE StoreEnd(c)
    <3>1. apisEnabled' = apisEnabled \cup {api[c]} /\ api[c] \in Believable
          BY <2>11 DEF StoreEnd, IInv, StoresTruth
    <3>2. tried[c] \subseteq apisEnabled'
          BY <2>11, <3>1 DEF StoreEnd, IInv, TriedAreCached, Running, Ensuring
    <3> QED
        BY <1>1, <2>11, <3>1, <3>2 DEF StoreEnd, Goto, IInv, TypeOK, ForAnAPI, StoresTruth,
           TriedAreCached, CacheIsTrue, Believable, Running, Ensuring
  <2> QED
      BY <1>7, <2>1, <2>2, <2>3, <2>4, <2>5, <2>6, <2>7, <2>8, <2>9, <2>10, <2>11 DEF Step
<1>8. ASSUME NEW c \in Calls, GiveUp(c) PROVE Kept
      BY <1>1, <1>8, FinishKeeps DEF GiveUp, TypeOK, process
<1>9. ASSUME NEW c \in Calls, OperationEnds(c) PROVE Kept
  <2>1. op'[c] = "ok" => api[c] \in Believable'
        BY <1>1, <1>9 DEF OperationEnds, TurnOn, Believable, TypeOK
  <2> QED
      BY <1>1, <1>9, <2>1 DEF OperationEnds, process, IInv, TypeOK, ForAnAPI, StoresTruth,
         TriedAreCached, CacheIsTrue, Believable
<1>10. ASSUME NEW c \in Calls, NoService(c) \/ \E d \in Calls : MapFault(c, d) PROVE Kept
      BY <1>10, DieKeeps DEF NoService, MapFault
<1>11. ASSUME NEW a \in APIs, OrphanEnds(a) \/ Disable(a) PROVE Kept
      BY <1>2, <1>11 DEF OrphanEnds, Disable, call, process
<1> QED
    BY <1>4, <1>5, <1>6, <1>7, <1>8, <1>9, <1>10, <1>11 DEF Next

\* In every reachable state the invariant holds.
THEOREM Inductive == Spec => []IInv
<1>1. Init => IInv
  <2> SUFFICES ASSUME Init PROVE IInv
      OBVIOUS
  <2>1. TypeOK
        BY DEF Init, TypeOK, Running
  <2>2. \A c \in Calls : pc[c] = "idle" /\ op[c] = "none" /\ tried[c] = {}
        BY DEF Init
  <2> QED
      BY <2>1, <2>2 DEF Init, IInv, ForAnAPI, StoresTruth, TriedAreCached, CacheIsTrue, Running,
         Ensuring
<1>2. IInv /\ [Next]_vars => IInv'
      BY NextType, NextCalls DEF IInv
<1> QED
    BY <1>1, <1>2, PTL DEF Spec

\* Types, and what goes with them: an operation is awaited, a client is asked
\* of a context.
THEOREM TypeCorrect == Spec => []TypeOK
<1>1. IInv => TypeOK
      BY DEF IInv
<1> QED
    BY <1>1, Inductive, PTL

\* ensureAPI skips only APIs that are enabled, or excused.
THEOREM CacheTrue == Spec => []CacheIsTrue
<1>1. IInv => CacheIsTrue
      BY DEF IInv
<1> QED
    BY <1>1, Inductive, PTL

\* A call that answers that an API is missing had ensureAPI succeed for it.
THEOREM GivesUpLast == Spec => GivesUpOnlyOnCached
<1> DEFINE GivesUp ==
        \A c \in Calls : missing'[c] \notin {None, missing[c]} => missing'[c] \in apisEnabled
<1>1. ASSUME IInv, [Next]_vars PROVE [GivesUp]_vars
  <2> SUFFICES ASSUME NEW c \in Calls, missing'[c] \notin {None, missing[c]}, Next
               PROVE  missing'[c] \in apisEnabled
      BY <1>1
  <2> USE <1>1
  <2>1. ASSUME NEW d \in Calls, Finish(d, None) PROVE FALSE
        BY <2>1 DEF Finish, IInv, TypeOK
  <2>2. missing' # missing
        OBVIOUS
  <2>3. PICK d \in Calls : Step(d) \/ GiveUp(d)
    <3>1. ~Kill /\ ~StartStep
          BY <2>2 DEF Kill, Die, StartStep, HostStart, GetProject, GetProjectFails, Confirm,
             CreateProject, ProjectCreated, ProjectFailed, call
    <3>2. \A a \in APIs : ~OrphanEnds(a) /\ ~Disable(a)
          BY <2>2 DEF OrphanEnds, Disable, call
    <3>3. \A d, e \in Calls : ~Begin(d) /\ ~NoService(d) /\ ~OperationEnds(d) /\ ~MapFault(d, e)
          BY <2>2 DEF Begin, NoService, OperationEnds, MapFault, Die
    <3> QED
        BY <3>1, <3>2, <3>3 DEF Next
  <2>4. PICK a \in APIs : Missing(d, a)
        BY <2>1, <2>2, <2>3 DEF GiveUp, Step, Answered, Lookup, GetContext, NewContext, MakeClient,
           GetClient, NilClient, Die, EnableFails, EnableDone, Enable, Poll, StoreBegin, StoreEnd
  <2>5. a \in Tried(d) /\ Finish(d, a)
        BY <2>2, <2>4 DEF Missing
  <2>6. a \in apisEnabled
        BY <2>4, <2>5 DEF Missing, Tried, IInv, TriedAreCached
  <2> QED
      BY <2>5, <2>6 DEF Finish, IInv, TypeOK
<1> QED
    BY <1>1, Inductive, PTL DEF Spec, GivesUpOnlyOnCached
=============================================================================
