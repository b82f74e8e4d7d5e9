-------------------------- MODULE DatabaseCommand --------------------------
(***************************************************************************)
(* dbproxy, dbdump and dbrestore (plugin/command_db*.go).  A command makes *)
(* a file of the credentials, downloads the proxy's program unless it is   *)
(* there, and runs it.  A dump or a restore waits until something listens  *)
(* on the port (internal/netutil), which is the same for all of them, runs *)
(* its client in a container against it, with a goroutine to read each of  *)
(* the client's two outputs, stops the proxy and waits for its end; dbproxy *)
(* waits for the user's interrupt.                                         *)
(*                                                                         *)
(* Each command has a plugin process of its own; they share the port, the  *)
(* program in the project's cache, and the machine.  The port of dumps and *)
(* restores is fixed (10000 above the default of the database's type); that *)
(* of dbproxy is the user's choice, here the worst one, the same.  The     *)
(* program, the container and the user are external.                       *)
(***************************************************************************)
EXTENDS Naturals, FiniteSets

CONSTANTS Cmds, None,
          MaxFaults

ASSUME CommandAssumption ==
    None \notin Cmds \cup {"none", "whole", "before", "part", "cut"} /\ MaxFaults \in Nat

VARIABLES
    binary,             \* the program: not there, whole, or cut by a command
    port,               \* the command whose proxy listens
    kind, pc, answer,   \* a call: of what, where, and how it ended
    creds,              \* files of credentials
    runner,             \* execProxyCommand
    waiter,             \* the goroutine of WaitForSocket
    proxy,              \* its proxy's process
    client, peer,       \* its container, and whose proxy that talks to
    reading,            \* calls with goroutines that read its outputs
    file,               \* the dump's file
    cancelled,          \* calls whose context the user cancelled
    faults

io == <<binary, creds, file>>
threads == <<runner, waiter>>
work == <<client, peer, reading>>
vars == <<kind, binary, port, pc, answer, creds, runner, waiter, proxy, work, file,
          cancelled, faults>>

Kinds == {"proxy", "dump", "restore"}

TypeOK ==
    /\ binary \in {"none", "whole"} \cup Cmds
    /\ port \in Cmds \cup {None} /\ kind \in [Cmds -> Kinds \cup {"none"}]
    /\ pc \in [Cmds -> {"idle", "binary", "download", "write", "spawn", "proxying",
                        "wait", "client", "work", "stop", "end", "dead"}]
    /\ answer \in [Cmds -> {"none", "done", "logged", "error"}]
    /\ creds \subseteq Cmds
    /\ runner \in [Cmds -> {"none", "start", "select", "stop", "over"}]
    /\ waiter \in [Cmds -> {"none", "dial", "closed", "over"}]
    /\ proxy \in [Cmds -> {"none", "starting", "listening"}]
    /\ client \in [Cmds -> {"none", "runs", "stuck", "ok", "failed"}]
    /\ peer \in [Cmds -> Cmds \cup {None}] /\ reading \subseteq Cmds
    /\ file \in [Cmds -> {"before", "part", "cut"} \cup Cmds]
    /\ cancelled \subseteq Cmds /\ faults \in 0..MaxFaults
    \* Who listens is the port's owner; a file of credentials is there as long
    \* as its call.
    /\ \A c \in Cmds : proxy[c] = "listening" <=> port = c
    /\ \A c \in creds : pc[c] \notin {"idle", "end"}

Init ==
    /\ binary \in {"none", "whole"} /\ port = None
    /\ pc = [c \in Cmds |-> "idle"]
    /\ kind = [c \in Cmds |-> "none"] /\ answer = kind
    /\ creds = {}
    /\ runner = kind /\ waiter = kind /\ proxy = kind /\ client = kind
    /\ peer = [c \in Cmds |-> None] /\ reading = {}
    /\ file = [c \in Cmds |-> "before"]
    /\ cancelled = {} /\ faults = 0

Goto(c, l) == pc' = [pc EXCEPT ![c] = l]
Fault == faults < MaxFaults /\ faults' = faults + 1

\* A dump writes its file.
File(c, k, x) == file' = IF k = "dump" THEN [file EXCEPT ![c] = x] ELSE file

\* The deferred os.Remove.
ReturnLeaving(c, a) ==
    Goto(c, "end") /\ answer' = [answer EXCEPT ![c] = a] /\ UNCHANGED creds
Return(c, a) ==
    /\ Goto(c, "end") /\ answer' = [answer EXCEPT ![c] = a]
    /\ creds' = creds \ {c}

-----------------------------------------------------------------------------
(* Preparations.                                                           *)

\* os.Create empties the file of the last dump.
Begin(c) ==
    /\ pc[c] = "idle" /\ Goto(c, "binary")
    /\ \E k \in Kinds : kind' = [kind EXCEPT ![c] = k] /\ File(c, k, "part")
    /\ creds' = creds \cup {c}
    /\ UNCHANGED <<binary, port, answer, threads, proxy, work, cancelled, faults>>

\* Any file there is taken for the program.
Binary(c) ==
    /\ pc[c] = "binary" /\ Goto(c, IF binary = "none" THEN "download" ELSE "spawn")
    /\ UNCHANGED <<kind, io, port, answer, threads, proxy, work, cancelled, faults>>

\* os.Create, which is refused for a program that runs.
Create(c) ==
    /\ pc[c] = "download"
    /\ IF \E d \in Cmds : proxy[d] # "none"
          THEN Return(c, "error") /\ UNCHANGED binary
          ELSE Goto(c, "write") /\ binary' = c /\ UNCHANGED <<answer, creds>>
    /\ UNCHANGED <<kind, port, threads, proxy, work, file, cancelled, faults>>

\* Written and made executable; what another has cut since is for that one to
\* write.
Downloaded(c) ==
    /\ pc[c] = "write" /\ Goto(c, "spawn")
    /\ binary' = IF binary = c THEN "whole" ELSE binary
    /\ UNCHANGED <<kind, port, answer, creds, threads, proxy, work, file, cancelled, faults>>

DownloadFails(c) ==
    /\ pc[c] \in {"download", "write"} /\ ((c \in cancelled /\ UNCHANGED faults) \/ Fault)
    /\ Return(c, "error")
    /\ UNCHANGED <<kind, binary, port, threads, proxy, work, file, cancelled>>

Spawn(c) ==
    /\ pc[c] = "spawn" /\ runner' = [runner EXCEPT ![c] = "start"]
    /\ IF kind[c] = "proxy"
          THEN Goto(c, "proxying") /\ UNCHANGED waiter
          ELSE Goto(c, "wait") /\ waiter' = [waiter EXCEPT ![c] = "dial"]
    /\ UNCHANGED <<kind, io, port, answer, proxy, work, cancelled, faults>>

-----------------------------------------------------------------------------
(* execProxyCommand.                                                       *)

Run(c, l) == runner' = [runner EXCEPT ![c] = l]

\* What is not the whole program, executable, does not run.
RunProxy(c) ==
    /\ runner[c] = "start"
    /\ IF binary = "whole"
          THEN Run(c, "select") /\ proxy' = [proxy EXCEPT ![c] = "starting"]
          ELSE Run(c, "over") /\ UNCHANGED proxy
    /\ UNCHANGED <<kind, io, port, pc, answer, waiter, work, cancelled, faults>>

\* commandCancel was called, or the call was cancelled.
Uncancelled(c) == FALSE
Cancelled(c) == c \in cancelled \/ pc[c] \in {"stop", "end"}

Select(c) ==
    /\ runner[c] = "select"
    /\ \/ Cancelled(c) /\ Run(c, "stop")
       \/ proxy[c] = "none" /\ Run(c, "over")
    /\ UNCHANGED <<kind, io, port, pc, answer, waiter, proxy, work, cancelled, faults>>

Gone(c) ==
    /\ proxy' = [proxy EXCEPT ![c] = "none"]
    /\ port' = IF port = c THEN None ELSE port

\* cmd.Stop: interrupted, or killed after a while.
Stop(c) ==
    /\ runner[c] = "stop" /\ Run(c, "over") /\ Gone(c)
    /\ UNCHANGED <<kind, io, pc, answer, waiter, work, cancelled, faults>>

\* DBProxy runs it in the call.
ProxyReturns(c) ==
    /\ pc[c] = "proxying" /\ runner[c] = "over"
    /\ \E a \in {"done", "error"} : Return(c, a)
    /\ UNCHANGED <<kind, binary, port, threads, proxy, work, file, cancelled, faults>>

-----------------------------------------------------------------------------
(* WaitForSocket and runFuncOnDBConnection.                                *)

\* Whoever listens.
Ready(c) ==
    /\ waiter[c] = "dial" /\ c \notin cancelled /\ port # None
    /\ waiter' = [waiter EXCEPT ![c] = "over"] /\ Goto(c, "client")
    /\ UNCHANGED <<kind, io, port, answer, runner, proxy, work, cancelled, faults>>

\* commandCancel, and no g.Wait.
NotReady(c) ==
    /\ waiter[c] = "dial" /\ port = None /\ c \notin cancelled
    /\ waiter' = [waiter EXCEPT ![c] = "over"] /\ Return(c, "error")
    /\ UNCHANGED <<kind, binary, port, runner, proxy, work, file, cancelled, faults>>

\* After false was sent, and the channel closed, the loop goes on.
DialCancelled(c) ==
    /\ waiter[c] = "dial" /\ c \in cancelled
    /\ waiter' = [waiter EXCEPT ![c] = "closed"] /\ Return(c, "error")
    /\ UNCHANGED <<kind, binary, port, runner, proxy, work, file, cancelled, faults>>

\* The end of the process: a panic, or the host's doing when the call is over.
Die(c) ==
    /\ Goto(c, "dead")
    /\ runner' = [runner EXCEPT ![c] = "none"] /\ waiter' = [waiter EXCEPT ![c] = "none"]
    /\ client' = [client EXCEPT ![c] = "none"] /\ peer' = [peer EXCEPT ![c] = None]
    /\ reading' = reading \ {c}
    /\ UNCHANGED <<kind, io, port, proxy, cancelled>>

SendOnClosed(c) == waiter[c] = "closed" /\ Die(c) /\ UNCHANGED <<answer, faults>>

HostExits(c) == pc[c] = "end" /\ Die(c) /\ UNCHANGED <<answer, faults>>

Killed(c) ==
    /\ pc[c] \notin {"idle", "end", "dead"} /\ Fault /\ Die(c)
    /\ answer' = [answer EXCEPT ![c] = "none"]

-----------------------------------------------------------------------------
(* The work of a dump or a restore.                                        *)

Answer(c, a) == Goto(c, "stop") /\ answer' = [answer EXCEPT ![c] = a]

\* The client connects to whoever listens by then; without docker there is no
\* client.
Connect(c) ==
    /\ pc[c] = "client"
    /\ \/ /\ Goto(c, "work") /\ peer' = [peer EXCEPT ![c] = port]
          /\ client' = [client EXCEPT ![c] = "runs"] /\ reading' = reading \cup {c}
          /\ UNCHANGED <<answer, faults>>
       \/ Answer(c, "error") /\ Fault /\ UNCHANGED work
    /\ UNCHANGED <<kind, io, port, threads, proxy, cancelled>>

\* A client whose peer went away fails, and any may.
Served(c) == peer[c] # None /\ port = peer[c]

ClientEnds(c) ==
    /\ client[c] = "runs"
    /\ \E ok \in {Served(c), FALSE} :
          client' = [client EXCEPT ![c] = IF ok THEN "ok" ELSE "failed"]
    /\ UNCHANGED <<kind, io, port, pc, answer, threads, proxy, peer, reading, cancelled,
                   faults>>

\* io.Copy, and the scanners, come to the end of what the client has written.
ReadingEnds(c) ==
    /\ c \in reading /\ client[c] \in {"ok", "failed"} /\ reading' = reading \ {c}
    /\ IF client[c] = "ok" THEN File(c, kind[c], peer[c]) ELSE UNCHANGED file
    /\ UNCHANGED <<kind, binary, creds, port, pc, answer, threads, proxy, client, peer,
                   cancelled, faults>>

\* One of them gives up, and does not say so: the copy, on what cannot be written
\* or a pipe closed under it, or a scanner on a line too long.  A client that has
\* more to say than a pipe holds is stuck then.
ReadingFails(c) ==
    /\ c \in reading /\ Fault
    /\ \/ client[c] = "runs" /\ client' = [client EXCEPT ![c] = "stuck"]
       \/ UNCHANGED client
    /\ \/ reading' = reading \ {c} /\ File(c, kind[c], "cut")
       \/ UNCHANGED <<reading, file>>
    /\ UNCHANGED <<kind, binary, creds, port, pc, answer, threads, proxy, peer, cancelled>>

\* wg.Wait.
AnyRead(c) == TRUE
AllRead(c) == c \notin reading

\* cmd.Wait; an error of the client is only logged.
Reports(c) ==
    /\ pc[c] = "work" /\ client[c] \in {"ok", "failed"} /\ AllRead(c)
    /\ Answer(c, IF client[c] = "ok" THEN "done" ELSE "logged")
    /\ UNCHANGED <<kind, io, port, threads, proxy, work, cancelled, faults>>

WaitedNot(c) == TRUE
Waited(c) == runner[c] = "over"

\* commandCancel; g.Wait.
Finish(c) ==
    /\ pc[c] = "stop" /\ Waited(c) /\ Return(c, answer[c])
    /\ UNCHANGED <<kind, binary, port, threads, proxy, work, file, cancelled, faults>>

-----------------------------------------------------------------------------
(* The proxy, and the user.                                                *)

\* On a port that is taken it ends.
Listen(c) ==
    /\ proxy[c] = "starting"
    /\ IF port = None
          THEN port' = c /\ proxy' = [proxy EXCEPT ![c] = "listening"]
          ELSE proxy' = [proxy EXCEPT ![c] = "none"] /\ UNCHANGED port
    /\ UNCHANGED <<kind, io, pc, answer, threads, work, cancelled, faults>>

ProxyEnds(c) ==
    /\ proxy[c] # "none" /\ Fault /\ Gone(c)
    /\ UNCHANGED <<kind, io, pc, answer, threads, work, cancelled>>

Cancel(c) ==
    /\ pc[c] \notin {"idle", "end", "dead"} /\ c \notin cancelled
    /\ cancelled' = cancelled \cup {c}
    /\ UNCHANGED <<kind, binary, port, pc, answer, creds, threads, proxy, work, file, faults>>

Step(c) ==
    \/ Binary(c) \/ Create(c) \/ Downloaded(c) \/ Spawn(c) \/ RunProxy(c) \/ Select(c) \/ Stop(c)
    \/ ProxyReturns(c) \/ Ready(c) \/ NotReady(c) \/ DialCancelled(c)
    \/ Connect(c) \/ ClientEnds(c) \/ ReadingEnds(c) \/ Reports(c) \/ Finish(c)
    \/ SendOnClosed(c)

Next ==
    \E c \in Cmds :
        \/ Begin(c) \/ Step(c) \/ DownloadFails(c) \/ Listen(c)
        \/ HostExits(c) \/ Killed(c) \/ ProxyEnds(c) \/ ReadingFails(c) \/ Cancel(c)

\* Goroutines run, the proxy starts, the client ends, and the user interrupts
\* dbproxy.
Fairness ==
    \A c \in Cmds :
        /\ WF_vars(Step(c)) /\ WF_vars(Listen(c))
        /\ WF_vars(RunProxy(c) \/ Select(c) \/ Stop(c))
        /\ WF_vars(kind[c] = "proxy" /\ Cancel(c))

Spec == Init /\ [][Next]_vars /\ Fairness

-----------------------------------------------------------------------------
(* Properties.                                                             *)

\* A dump or a restore meets the proxy of another command, behind the fixed
\* port, only while that one is at work, or when it failed or was killed and
\* left its proxy behind: never the proxy of one that answered nil.
WorksOnItsOwn ==
    \A c, d \in Cmds :
        pc[c] = "work" /\ port = d /\ d # c /\ pc[d] \in {"end", "dead"}
            => answer[d] \notin {"done", "logged"}

\* When a dump is reported as saved its file has all that its client wrote, and
\* the client was served by one proxy the whole time; unless the reading or the
\* writing of it failed, of which nothing is said.
DoneIsWhole ==
    \A c \in Cmds :
        kind[c] = "dump" /\ pc[c] \in {"stop", "end"} /\ answer[c] = "done"
            => file[c] \in {peer[c], "cut"}

\* A command that starts its proxy comes to its end, and to that of its proxy,
\* unless its process ends first, or its client is stuck since nobody reads it.
Ends ==
    \A c \in Cmds :
        pc[c] = "spawn" ~> \/ pc[c] = "dead" \/ client[c] = "stuck"
                           \/ pc[c] = "end" /\ proxy[c] = "none"
=============================================================================
