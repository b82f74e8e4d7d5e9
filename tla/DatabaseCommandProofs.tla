----------------------- MODULE DatabaseCommandProofs -----------------------
(***************************************************************************)
(* Safety of DatabaseCommand for every set of commands and every bound on  *)
(* faults.                                                                 *)
(***************************************************************************)
EXTENDS DatabaseCommand, TLAPS

Labels == {"idle", "binary", "download", "write", "spawn", "proxying", "wait", "client",
           "work", "stop", "end", "dead"}
Preparing == {"idle", "binary", "download", "write", "spawn"}
Answers == {"none", "done", "logged", "error"}

\* Nothing is answered, and nothing runs, before its time.
InOrder ==
    \A c \in Cmds :
        /\ pc[c] \in Preparing \cup {"dead"} => runner[c] = "none"
        /\ pc[c] \notin {"stop", "end", "dead"} => answer[c] = "none"
        /\ pc[c] = "proxying" => kind[c] = "proxy"

\* The goroutine of WaitForSocket is about while its call waits, and after it
\* closed the channel when its call has ended.
WaiterInOrder ==
    \A c \in Cmds :
        /\ waiter[c] = "dial" => pc[c] = "wait"
        /\ waiter[c] = "closed" => pc[c] = "end"

\* As long as the process of the command lives, its proxy runs only while
\* execProxyCommand looks after it.
LookedAfter ==
    \A c \in Cmds :
        pc[c] # "dead" /\ runner[c] \in {"none", "start", "over"} => proxy[c] = "none"

\* Who has answered well has no proxy, and starts none.
WellEnded ==
    \A c \in Cmds :
        pc[c] \in {"end", "dead"} /\ answer[c] \in {"done", "logged"}
            => proxy[c] = "none" /\ runner[c] \in {"none", "over"}

\* A client is about from the start of its work, and is read until it has ended
\* or the reading gave up.
ClientInOrder ==
    \A c \in Cmds :
        /\ client[c] # "none" => pc[c] \in {"work", "stop", "end"}
        /\ c \in reading => pc[c] = "work"
        /\ client[c] = "ok" => peer[c] # None
        /\ kind[c] = "dump" /\ client[c] = "runs" => c \in reading \/ file[c] = "cut"

\* What has been read of a client that worked is all of it, in the file; and it
\* is read before a dump is reported as saved.
Copied ==
    \A c \in Cmds :
        kind[c] = "dump" =>
            /\ client[c] = "ok" /\ c \notin reading => file[c] \in {peer[c], "cut"}
            /\ pc[c] \in {"stop", "end"} /\ answer[c] = "done" => client[c] = "ok"

IInv ==
    /\ TypeOK /\ InOrder /\ WaiterInOrder /\ LookedAfter /\ WellEnded
    /\ ClientInOrder /\ Copied

-----------------------------------------------------------------------------
\* The steps by which a call moves, or ends, keep its types.
LEMMA GotoType ==
    ASSUME TypeOK, NEW c \in Cmds, NEW l \in Labels, Goto(c, l)
    PROVE  /\ pc' \in [Cmds -> Labels]
           /\ pc'[c] = l /\ \A d \in Cmds \ {c} : pc'[d] = pc[d]
BY DEF Goto, TypeOK, Labels

LEMMA ReturnType ==
    ASSUME TypeOK, NEW c \in Cmds, NEW a \in Answers, Return(c, a)
    PROVE  /\ pc' \in [Cmds -> Labels] /\ answer' \in [Cmds -> Answers]
           /\ creds' \subseteq Cmds
           /\ pc'[c] = "end" /\ \A d \in Cmds \ {c} : pc'[d] = pc[d]
           /\ \A d \in creds' : pc'[d] \notin {"idle", "end"}
BY DEF Return, Goto, TypeOK, Labels, Answers

LEMMA FileType ==
    ASSUME TypeOK, NEW c \in Cmds, NEW x \in {"part", "cut"} \cup Cmds, NEW k, File(c, k, x)
    PROVE  file' \in [Cmds -> {"before", "part", "cut"} \cup Cmds]
BY DEF File, TypeOK

LEMMA FaultType ==
    ASSUME TypeOK, Fault PROVE faults' \in 0..MaxFaults
BY CommandAssumption DEF Fault, TypeOK

LEMMA DieType ==
    ASSUME TypeOK, NEW c \in Cmds, Die(c), answer' \in [Cmds -> Answers], faults' \in 0..MaxFaults
    PROVE  TypeOK'
BY DEF Die, Goto, TypeOK, Answers, io

\* Every step keeps the types: a proxy that starts is the only one of its
\* command.
LEMMA NextType ==
    TypeOK /\ InOrder /\ LookedAfter /\ ClientInOrder /\ [Next]_vars => TypeOK'
<1> SUFFICES ASSUME TypeOK, InOrder, LookedAfter, ClientInOrder, [Next]_vars PROVE TypeOK'
    OBVIOUS
<1> USE DEF io, threads, work
<1>1. CASE UNCHANGED vars
      BY <1>1 DEF vars, TypeOK
<1>2. ASSUME NEW c \in Cmds, Begin(c) PROVE TypeOK'
  <2>1. PICK k \in Kinds : kind' = [kind EXCEPT ![c] = k] /\ File(c, k, "part")
        BY <1>2 DEF Begin
  <2>2. kind' \in [Cmds -> Kinds \cup {"none"}]
        BY <2>1 DEF TypeOK
  <2> QED
      BY <1>2, <2>1, <2>2, FileType, GotoType DEF Begin, TypeOK, Labels
<1>3. ASSUME NEW c \in Cmds, Step(c) PROVE TypeOK'
  <2>1. CASE Binary(c)
        BY <2>1, GotoType DEF Binary, TypeOK, Labels
  <2>2. CASE Create(c)
        BY <2>2, GotoType, ReturnType DEF Create, TypeOK, Labels, Answers
  <2>3. CASE Downloaded(c)
        BY <2>3, GotoType DEF Downloaded, TypeOK, Labels
  <2>4. CASE Spawn(c)
        BY <2>4, GotoType DEF Spawn, TypeOK, Labels
  <2>5. CASE RunProxy(c)
    <3>1. proxy[c] = "none"
          BY <2>5 DEF RunProxy, InOrder, LookedAfter
    <3> QED
        BY <2>5, <3>1 DEF RunProxy, Run, TypeOK
  <2>6. CASE Select(c)
        BY <2>6 DEF Select, Run, TypeOK
  <2>7. CASE Stop(c)
        BY <2>7, CommandAssumption DEF Stop, Run, Gone, TypeOK
  <2>8. CASE ProxyReturns(c)
        BY <2>8, ReturnType DEF ProxyReturns, TypeOK, Labels, Answers
  <2>9. CASE Ready(c)
        BY <2>9, GotoType DEF Ready, TypeOK, Labels
  <2>10. CASE NotReady(c)
        BY <2>10, ReturnType DEF NotReady, TypeOK, Labels, Answers
  <2>11. CASE DialCancelled(c)
        BY <2>11, ReturnType DEF DialCancelled, TypeOK, Labels, Answers
  <2>12. CASE Connect(c)
    <3>1. faults' \in 0..MaxFaults
          BY <2>12, FaultType DEF Connect, TypeOK
    <3> QED
        BY <2>12, <3>1, GotoType DEF Connect, Answer, Goto, TypeOK, Labels
  <2>13. CASE ClientEnds(c)
        BY <2>13 DEF ClientEnds, TypeOK
  <2>16. CASE ReadingEnds(c)
    <3>1. client[c] = "ok" => peer[c] \in Cmds
          BY DEF ClientInOrder, TypeOK
    <3>2. file' \in [Cmds -> {"before", "part", "cut"} \cup Cmds]
          BY <2>16, <3>1, FileType DEF ReadingEnds, TypeOK
    <3> QED
        BY <2>16, <3>2 DEF ReadingEnds, TypeOK
  <2>17. CASE Reports(c)
        BY <2>17, GotoType DEF Reports, Answer, Goto, TypeOK, Labels
  <2>14. CASE Finish(c)
        BY <2>14, ReturnType DEF Finish, TypeOK, Labels, Answers
  <2>15. CASE SendOnClosed(c)
        BY <2>15, DieType DEF SendOnClosed, TypeOK, Answers
  <2> QED
      BY <1>3, <2>1, <2>2, <2>3, <2>4, <2>5, <2>6, <2>7, <2>8, <2>9, <2>10, <2>11, <2>12, <2>13,
         <2>14, <2>15, <2>16, <2>17 DEF Step
<1>4. ASSUME NEW c \in Cmds, DownloadFails(c) PROVE TypeOK'
  <2>1. faults' \in 0..MaxFaults
        BY <1>4, FaultType DEF DownloadFails, TypeOK
  <2> QED
      BY <1>4, <2>1, ReturnType DEF DownloadFails, TypeOK, Labels, Answers
<1>5. ASSUME NEW c \in Cmds, Listen(c) PROVE TypeOK'
      BY <1>5, CommandAssumption DEF Listen, TypeOK
<1>6. ASSUME NEW c \in Cmds, HostExits(c) PROVE TypeOK'
      BY <1>6, DieType DEF HostExits, TypeOK, Answers
<1>7. ASSUME NEW c \in Cmds, Killed(c) PROVE TypeOK'
  <2>1. answer' \in [Cmds -> Answers]
        BY <1>7 DEF Killed, TypeOK, Answers
  <2> QED
      BY <1>7, <2>1, DieType, FaultType DEF Killed
<1>8. ASSUME NEW c \in Cmds, ProxyEnds(c) PROVE TypeOK'
  <2>1. faults' \in 0..MaxFaults
        BY <1>8, FaultType DEF ProxyEnds
  <2> QED
      BY <1>8, <2>1, CommandAssumption DEF ProxyEnds, Gone, TypeOK
<1>9. ASSUME NEW c \in Cmds, Cancel(c) PROVE TypeOK'
      BY <1>9 DEF Cancel, TypeOK
<1>10. ASSUME NEW c \in Cmds, ReadingFails(c) PROVE TypeOK'
  <2>1. faults' \in 0..MaxFaults
        BY <1>10, FaultType DEF ReadingFails
  <2>2. file' \in [Cmds -> {"before", "part", "cut"} \cup Cmds]
        BY <1>10, FileType DEF ReadingFails, TypeOK
  <2>3. /\ client' \in [Cmds -> {"none", "runs", "stuck", "ok", "failed"}]
        /\ reading' \subseteq Cmds
        BY <1>10 DEF ReadingFails, TypeOK
  <2> QED
      BY <1>10, <2>1, <2>2, <2>3 DEF ReadingFails, TypeOK
<1> QED
    BY <1>1, <1>2, <1>3, <1>4, <1>5, <1>6, <1>7, <1>8, <1>9, <1>10 DEF Next

-----------------------------------------------------------------------------
\* Every step keeps the order of things.
LEMMA NextOrder ==
    IInv /\ [Next]_vars => InOrder' /\ WaiterInOrder' /\ LookedAfter' /\ WellEnded'
<1> DEFINE Kept == InOrder' /\ WaiterInOrder' /\ LookedAfter' /\ WellEnded'
<1> SUFFICES ASSUME IInv, [Next]_vars PROVE Kept
    OBVIOUS
<1> USE DEF io, threads, work, IInv, TypeOK, InOrder, WaiterInOrder, LookedAfter, WellEnded, Preparing
<1>1. CASE UNCHANGED vars
      BY <1>1 DEF vars
<1>2. ASSUME NEW c \in Cmds, Begin(c) PROVE Kept
      BY <1>2 DEF Begin, Goto
<1>3. ASSUME NEW c \in Cmds, Step(c) PROVE Kept
  <2>1. CASE Binary(c) \/ Downloaded(c)
        BY <2>1 DEF Binary, Downloaded, Goto
  <2>2. CASE Create(c)
        BY <2>2 DEF Create, Return, Goto
  <2>3. CASE Spawn(c)
        BY <2>3 DEF Spawn, Goto
  <2>4. CASE RunProxy(c)
        BY <2>4 DEF RunProxy, Run
  <2>5. CASE Select(c)
        BY <2>5 DEF Select, Run
  <2>6. CASE Stop(c)
        BY <2>6 DEF Stop, Run, Gone
  <2>7. CASE ProxyReturns(c)
        BY <2>7 DEF ProxyReturns, Return, Goto
  <2>8. CASE Ready(c)
        BY <2>8 DEF Ready, Goto
  <2>9. CASE NotReady(c)
        BY <2>9 DEF NotReady, Return, Goto
  <2>10. CASE DialCancelled(c)
        BY <2>10 DEF DialCancelled, Return, Goto
  <2>11. CASE Connect(c)
        BY <2>11 DEF Connect, Answer, Goto
  <2>12. CASE ClientEnds(c) \/ ReadingEnds(c)
        BY <2>12 DEF ClientEnds, ReadingEnds
  <2>15. CASE Reports(c)
        BY <2>15 DEF Reports, Answer, Goto
  <2>13. CASE Finish(c)
        BY <2>13 DEF Finish, Waited, Return, Goto
  <2>14. CASE SendOnClosed(c)
        BY <2>14 DEF SendOnClosed, Die, Goto
  <2> QED
      BY <1>3, <2>1, <2>2, <2>3, <2>4, <2>5, <2>6, <2>7, <2>8, <2>9, <2>10, <2>11, <2>12, <2>13,
         <2>14, <2>15 DEF Step
<1>4. ASSUME NEW c \in Cmds, DownloadFails(c) PROVE Kept
      BY <1>4 DEF DownloadFails, Return, Goto
<1>5. ASSUME NEW c \in Cmds, Listen(c) PROVE Kept
      BY <1>5 DEF Listen
<1>6. ASSUME NEW c \in Cmds, HostExits(c) \/ Killed(c) PROVE Kept
      BY <1>6 DEF HostExits, Killed, Die, Goto
<1>7. ASSUME NEW c \in Cmds, ProxyEnds(c) PROVE Kept
      BY <1>7 DEF ProxyEnds, Gone
<1>8. ASSUME NEW c \in Cmds, Cancel(c) \/ ReadingFails(c) PROVE Kept
      BY <1>8 DEF Cancel, ReadingFails
<1> QED
    BY <1>1, <1>2, <1>3, <1>4, <1>5, <1>6, <1>7, <1>8 DEF Next

\* Every step keeps the client's order, and that of its reading.
LEMMA NextClient == IInv /\ [Next]_vars => ClientInOrder' /\ Copied'
<1> DEFINE Kept == ClientInOrder' /\ Copied'
<1> SUFFICES ASSUME IInv, [Next]_vars PROVE Kept
    OBVIOUS
<1> USE DEF io, threads, work, IInv, TypeOK, ClientInOrder, Copied
<1>1. CASE UNCHANGED vars
      BY <1>1 DEF vars
<1>2. ASSUME NEW c \in Cmds, Begin(c) PROVE Kept
      BY <1>2 DEF Begin, Goto, File
<1>3. ASSUME NEW c \in Cmds, Step(c) PROVE Kept
  <2>1. CASE Binary(c) \/ Downloaded(c) \/ Spawn(c) \/ Ready(c)
        BY <2>1 DEF Binary, Downloaded, Spawn, Ready, WaiterInOrder, Goto
  <2>2. CASE Create(c) \/ NotReady(c) \/ DialCancelled(c)
        BY <2>2 DEF Create, NotReady, DialCancelled, WaiterInOrder, Return, Goto
  <2>3. CASE RunProxy(c) \/ Select(c) \/ Stop(c)
        BY <2>3 DEF RunProxy, Select, Stop
  <2>4. CASE ProxyReturns(c)
        BY <2>4 DEF ProxyReturns, InOrder, Return, Goto
  <2>5. CASE Connect(c)
        BY <2>5 DEF Connect, Answer, Goto
  <2>6. CASE ClientEnds(c)
    <3>0. client[c] = "runs"
          BY <2>6 DEF ClientEnds
    <3>1. PICK ok \in {Served(c), FALSE} :
              client' = [client EXCEPT ![c] = IF ok THEN "ok" ELSE "failed"]
          BY <2>6 DEF ClientEnds
    <3>6. ok => peer[c] # None
          BY <3>1, Zenon DEF Served
    <3>7. client'[c] = IF ok THEN "ok" ELSE "failed"
          BY <3>1
    <3>8. \A d \in Cmds \ {c} : client'[d] = client[d]
          BY <3>1
    <3>2. /\ client[c] = "runs" /\ client'[c] \in {"ok", "failed"}
          /\ client'[c] = "ok" => peer[c] # None
          /\ \A d \in Cmds \ {c} : client'[d] = client[d]
          BY <3>0, <3>6, <3>7, <3>8
    <3>3. UNCHANGED <<kind, pc, answer, peer, reading, file>>
          BY <2>6 DEF ClientEnds
    <3>4. ClientInOrder'
          BY <3>2, <3>3
    <3>5. Copied'
          BY <3>2, <3>3
    <3> QED
        BY <3>4, <3>5
  <2>7. CASE ReadingEnds(c)
        BY <2>7 DEF ReadingEnds, File
  <2>8. CASE Reports(c)
        BY <2>8 DEF Reports, AllRead, Answer, Goto
  <2>9. CASE Finish(c)
        BY <2>9 DEF Finish, Return, Goto
  <2>10. CASE SendOnClosed(c)
        BY <2>10 DEF SendOnClosed, Die, Goto
  <2> QED
      BY <1>3, <2>1, <2>2, <2>3, <2>4, <2>5, <2>6, <2>7, <2>8, <2>9, <2>10 DEF Step
<1>4. ASSUME NEW c \in Cmds, DownloadFails(c) PROVE Kept
      BY <1>4 DEF DownloadFails, Return, Goto
<1>5. ASSUME NEW c \in Cmds, Listen(c) \/ ProxyEnds(c) \/ Cancel(c) PROVE Kept
      BY <1>5 DEF Listen, ProxyEnds, Cancel
<1>6. ASSUME NEW c \in Cmds, HostExits(c) \/ Killed(c) PROVE Kept
      BY <1>6 DEF HostExits, Killed, Die, Goto
<1>7. ASSUME NEW c \in Cmds, ReadingFails(c) PROVE Kept
      BY <1>7 DEF ReadingFails, File
<1> QED
    BY <1>1, <1>2, <1>3, <1>4, <1>5, <1>6, <1>7 DEF Next

\* In every reachable state the invariant holds.
THEOREM Inductive == Spec => []IInv
<1>1. Init => IInv
  <2> SUFFICES ASSUME Init PROVE IInv
      OBVIOUS
  <2>1. TypeOK
        BY CommandAssumption DEF Init, TypeOK
  <2>2. \A c \in Cmds :
            /\ pc[c] = "idle" /\ answer[c] = "none"
            /\ runner[c] = "none" /\ waiter[c] = "none" /\ proxy[c] = "none"
            /\ client[c] = "none" /\ c \notin reading
        BY DEF Init
  <2> QED
      BY <2>1, <2>2 DEF IInv, InOrder, WaiterInOrder, LookedAfter, WellEnded,
                          ClientInOrder, Copied
<1>2. IInv /\ [Next]_vars => IInv'
      BY NextType, NextOrder, NextClient DEF IInv
<1> QED
    BY <1>1, <1>2, PTL DEF Spec

\* Types; who listens is the port's owner, and no call that ends leaves its
\* file of credentials.
THEOREM TypeCorrect == Spec => []TypeOK
<1>1. IInv => TypeOK
      BY DEF IInv
<1> QED
    BY <1>1, Inductive, PTL

\* The proxy of a command that answered nil is met by no other.
THEOREM OwnProxy == Spec => []WorksOnItsOwn
<1>1. IInv => WorksOnItsOwn
      BY DEF IInv, TypeOK, WellEnded, WorksOnItsOwn
<1> QED
    BY <1>1, Inductive, PTL

\* When a dump is reported as saved both its client and its copy have ended, and
\* well; unless the copy gave up, of which nothing is said.
THEOREM WholeDump == Spec => []DoneIsWhole
<1>1. IInv => DoneIsWhole
      BY DEF IInv, ClientInOrder, Copied, DoneIsWhole
<1> QED
    BY <1>1, Inductive, PTL
=============================================================================
