----------------------------- MODULE PluginCore -----------------------------
(***************************************************************************)
(* One plugin process: Start (plugin/start.go), and the calls that its     *)
(* handlers run under runAndEnsureAPI (plugin/plugin.go), each in a        *)
(* goroutine of its own.  A call runs f; an ErrorInfo that names a service *)
(* makes it enable that API, once per call, and run f again.  The handlers *)
(* share the map of enabled APIs and the PluginContext, made on first use, *)
(* whose clients are made once (internal/config/pluginctx.go).             *)
(*                                                                         *)
(* The project, its services and their operations are Google's.  A panic,  *)
(* or a kill, ends the process and loses its calls; the host starts it     *)
(* again and repeats them.                                                 *)
(***************************************************************************)
EXTENDS Naturals, FiniteSets

CONSTANTS Calls, APIs,
          Needs,        \* Needs[c]: the APIs that f of call c uses
          None          \* no API, no context

ASSUME CoreAssumption ==
    /\ IsFiniteSet(APIs) /\ None \notin APIs \cup Calls
    /\ Needs \in [Calls -> SUBSET APIs]

VARIABLES
    project,            \* the GCP project exists
    enabled,            \* its enabled services
    orphans,            \* services being enabled for a call that gave up
    start,              \* where Start is
    apisEnabled,        \* Plugin.apisEnabled
    pluginContext,      \* the call that made Plugin.pluginContext
    client,             \* serviceUsageCli of the context each call made
    pc, api, tried, ctx, op, missing,
    excused             \* services disabled since they were last enabled, or
                        \* whose operation was done with an error at once

cloud == <<project, enabled, orphans, excused>>
process == <<apisEnabled, pluginContext, client>>
call == <<pc, api, tried, ctx, op, missing>>
vars == <<cloud, start, process, call>>

Running == {"f", "lookup", "context", "newContext", "client", "enable",
            "wait", "store", "storing"}

TypeOK ==
    /\ project \in BOOLEAN
    /\ enabled \subseteq APIs /\ orphans \subseteq APIs
    /\ start \in {"down", "get", "ask", "create", "op", "up"}
    /\ apisEnabled \subseteq APIs
    /\ pluginContext \in Calls \cup {None}
    /\ client \in [Calls -> {"unset", "ok", "nil"}]
    /\ pc \in [Calls -> Running \cup {"idle", "done"}]
    /\ api \in [Calls -> APIs \cup {None}]
    /\ tried \in [Calls -> SUBSET APIs]
    /\ ctx \in [Calls -> Calls \cup {None}]
    /\ op \in [Calls -> {"none", "running", "ok", "failed"}]
    /\ missing \in [Calls -> APIs \cup {None}]
    /\ excused \subseteq APIs
    \* An operation is awaited, a client is asked of a context.
    /\ \A c \in Calls : op[c] # "none" <=> pc[c] = "wait"
    /\ \A c \in Calls : pc[c] = "client" => ctx[c] # None

Init ==
    /\ project \in BOOLEAN /\ enabled = {} /\ orphans = {}
    /\ excused = {}
    /\ start = "down"
    /\ apisEnabled = {} /\ pluginContext = None
    /\ client = [c \in Calls |-> "unset"]
    /\ pc = [c \in Calls |-> "idle"]
    /\ api = [c \in Calls |-> None]
    /\ tried = [c \in Calls |-> {}]
    /\ ctx = [c \in Calls |-> None]
    /\ op = [c \in Calls |-> "none"]
    /\ missing = [c \in Calls |-> None]

-----------------------------------------------------------------------------
(* The end of the process: its memory is gone, its operations are not.     *)

Unfinished == {c \in Calls : pc[c] # "done"}

Die ==
    /\ start' = "down"
    /\ apisEnabled' = {} /\ pluginContext' = None
    /\ client' = [c \in Calls |-> "unset"]
    /\ pc' = [c \in Calls |-> IF c \in Unfinished THEN "idle" ELSE "done"]
    /\ api' = [c \in Calls |-> None]
    /\ tried' = [c \in Calls |-> {}]
    /\ ctx' = [c \in Calls |-> None]
    /\ orphans' = orphans \cup {api[c] : c \in {d \in Calls : op[d] = "running"}}
    /\ op' = [c \in Calls |-> "none"]
    /\ UNCHANGED <<missing, enabled, excused>>

Kill == start # "down" /\ Die /\ UNCHANGED project

-----------------------------------------------------------------------------
(* Start.                                                                  *)

HostStart ==
    /\ start = "down" /\ start' = "get"
    /\ UNCHANGED <<cloud, process, call>>

FoundNot == "ask"
Found == IF project THEN "up" ELSE "ask"

\* A 404 or 403 offers to create the project; another error ends Start.
GetProject ==
    /\ start = "get"
    /\ start' = Found
    /\ UNCHANGED <<cloud, process, call>>

GetProjectFails ==
    /\ start = "get"
    /\ start' \in {"ask", "down"}
    /\ UNCHANGED <<cloud, process, call>>

Confirm ==
    /\ start = "ask"
    /\ start' \in {"create", "down"}
    /\ UNCHANGED <<cloud, process, call>>

\* Creating a project that exists is refused.
CreateProject ==
    /\ start = "create"
    /\ start' \in IF project THEN {"down"} ELSE {"op", "down"}
    /\ UNCHANGED <<cloud, process, call>>

\* The answer of Projects.Get was an error: proj is nil when its number is
\* read, and the process dies with the project created.
ProjectCreated ==
    /\ start = "op" /\ project' = TRUE
    /\ Die

ProjectFailed ==
    /\ start = "op" /\ start' = "down"
    /\ \E b \in {project, TRUE} : project' = b
    /\ UNCHANGED <<enabled, orphans, excused, process, call>>

-----------------------------------------------------------------------------
(* runAndEnsureAPI.                                                        *)

Goto(c, l) == pc' = [pc EXCEPT ![c] = l]

Finish(c, a) ==
    /\ Goto(c, "done")
    /\ missing' = [missing EXCEPT ![c] = a]
    /\ api' = [api EXCEPT ![c] = None]
    /\ tried' = [tried EXCEPT ![c] = {}]
    /\ ctx' = [ctx EXCEPT ![c] = None]

Begin(c) ==
    /\ start = "up" /\ pc[c] = "idle" /\ Goto(c, "f")
    /\ UNCHANGED <<cloud, start, process, api, tried, ctx, op, missing>>

\* f succeeds, or fails for a reason that names no service.
Answered(c) ==
    /\ pc[c] = "f" /\ Needs[c] \subseteq enabled
    /\ Finish(c, None)
    /\ UNCHANGED <<cloud, start, process, op>>

TriedForgotten(c) == {}
TriedShared(c) == UNION {tried[d] : d \in Calls}
Tried(c) == tried[c]

\* An ErrorInfo names a: disabled, or not yet seen as enabled, or refused for
\* a reason that has nothing to do with it.
Missing(c, a) ==
    /\ pc[c] = "f" /\ a \in Needs[c]
    /\ IF a \in Tried(c)
          THEN Finish(c, a)
          ELSE /\ Goto(c, "lookup")
               /\ api' = [api EXCEPT ![c] = a]
               /\ tried' = [tried EXCEPT ![c] = @ \cup {a}]
               /\ UNCHANGED <<ctx, missing>>
    /\ UNCHANGED <<cloud, start, process, op>>

\* metamap["service"] of an ErrorInfo that names no service.
NoService(c) == pc[c] = "f" /\ Die /\ UNCHANGED project

-----------------------------------------------------------------------------
(* ensureAPI and APIService.Create.                                        *)

Lookup(c) ==
    /\ pc[c] = "lookup"
    /\ Goto(c, IF api[c] \in apisEnabled THEN "f" ELSE "context")
    /\ UNCHANGED <<cloud, start, process, api, tried, ctx, op, missing>>

HasContextUntested == TRUE
HasContext == pluginContext # None

\* PluginContext(): test and assignment are not one step.
GetContext(c) ==
    /\ pc[c] = "context"
    /\ Goto(c, IF HasContext THEN "client" ELSE "newContext")
    /\ ctx' = [ctx EXCEPT ![c] = pluginContext]
    /\ UNCHANGED <<cloud, start, process, api, tried, op, missing>>

NewContext(c) ==
    /\ pc[c] = "newContext" /\ Goto(c, "client")
    /\ pluginContext' = c /\ ctx' = [ctx EXCEPT ![c] = c]
    /\ client' = [client EXCEPT ![c] = "unset"]
    /\ UNCHANGED <<cloud, start, apisEnabled, api, tried, op, missing>>

ClientResult == {"ok", "nil"}

\* sync.Once: the creation runs for one call, whose err the others do not see.
MakeClient(c) ==
    /\ pc[c] = "client" /\ client[ctx[c]] = "unset"
    /\ \E r \in ClientResult :
          /\ client' = [client EXCEPT ![ctx[c]] = r]
          /\ IF r = "nil"
                THEN Finish(c, None)
                ELSE Goto(c, "enable") /\ UNCHANGED <<api, tried, ctx, missing>>
    /\ UNCHANGED <<cloud, start, apisEnabled, pluginContext, op>>

GetClient(c) ==
    /\ pc[c] = "client" /\ client[ctx[c]] = "ok" /\ Goto(c, "enable")
    /\ UNCHANGED <<cloud, start, process, api, tried, ctx, op, missing>>

\* A later call has the nil client and uses it.
NilClient(c) ==
    /\ pc[c] = "client" /\ client[ctx[c]] = "nil" /\ Die /\ UNCHANGED project

EnableFails(c) ==
    /\ pc[c] = "enable" /\ Finish(c, None)
    /\ UNCHANGED <<cloud, start, process, op>>

TurnOn(a) ==
    /\ enabled' = enabled \cup {a} /\ excused' = excused \ {a}

\* The operation in the answer is done: its Error is not looked at.
EnableDone(c) ==
    /\ pc[c] = "enable" /\ Goto(c, "store")
    /\ \/ TurnOn(api[c])
       \/ excused' = excused \cup {api[c]} /\ UNCHANGED enabled
    /\ UNCHANGED <<project, orphans, start, process, api, tried, ctx, op, missing>>

AfterEnableUnawaited == "store"
AfterEnable == "wait"

Enable(c) ==
    /\ pc[c] = "enable" /\ Goto(c, AfterEnable)
    /\ op' = [op EXCEPT ![c] = "running"]
    /\ UNCHANGED <<cloud, start, process, api, tried, ctx, missing>>

\* WaitForServiceUsageOperation: it ends when an operation it got is done.
Poll(c) ==
    /\ pc[c] = "wait" /\ op[c] \in {"ok", "failed"}
    /\ op' = [op EXCEPT ![c] = "none"]
    /\ IF op[c] = "ok"
          THEN Goto(c, "store") /\ UNCHANGED <<api, tried, ctx, missing>>
          ELSE Finish(c, None)
    /\ UNCHANGED <<cloud, start, process>>

\* Operations.Get fails, or the context is over; the operation goes on.
GiveUp(c) ==
    /\ pc[c] = "wait" /\ Finish(c, None)
    /\ op' = [op EXCEPT ![c] = "none"]
    /\ orphans' = IF op[c] = "running" THEN orphans \cup {api[c]} ELSE orphans
    /\ UNCHANGED <<project, enabled, excused, start, process>>

\* The write to the map takes time, and Go may notice another access.
StoreBegin(c) ==
    /\ pc[c] = "store" /\ Goto(c, "storing")
    /\ UNCHANGED <<cloud, start, process, api, tried, ctx, op, missing>>

StoreEnd(c) ==
    /\ pc[c] = "storing" /\ Goto(c, "f")
    /\ apisEnabled' = apisEnabled \cup {api[c]}
    /\ UNCHANGED <<cloud, start, pluginContext, client, api, tried, ctx, op, missing>>

MapFault(c, d) ==
    /\ c # d /\ pc[c] = "storing" /\ pc[d] \in {"lookup", "storing"}
    /\ Die /\ UNCHANGED project

-----------------------------------------------------------------------------
(* Google's side.                                                          *)

OperationEnds(c) ==
    /\ op[c] = "running"
    /\ \/ op' = [op EXCEPT ![c] = "ok"] /\ TurnOn(api[c])
       \/ op' = [op EXCEPT ![c] = "failed"] /\ UNCHANGED <<enabled, excused>>
    /\ UNCHANGED <<project, orphans, start, process, pc, api, tried, ctx, missing>>

OrphanEnds(a) ==
    /\ a \in orphans /\ orphans' = orphans \ {a}
    /\ \/ TurnOn(a)
       \/ UNCHANGED <<enabled, excused>>
    /\ UNCHANGED <<project, start, process, call>>

Disable(a) ==
    /\ a \in enabled
    /\ enabled' = enabled \ {a} /\ excused' = excused \cup {a}
    /\ UNCHANGED <<project, orphans, start, process, call>>

-----------------------------------------------------------------------------
Step(c) ==
    \/ Answered(c) \/ \E a \in APIs : Missing(c, a)
    \/ Lookup(c) \/ GetContext(c) \/ NewContext(c)
    \/ MakeClient(c) \/ GetClient(c) \/ NilClient(c)
    \/ EnableFails(c) \/ EnableDone(c) \/ Enable(c)
    \/ Poll(c) \/ StoreBegin(c) \/ StoreEnd(c)

StartStep ==
    \/ HostStart \/ GetProject \/ GetProjectFails \/ Confirm
    \/ CreateProject \/ ProjectCreated \/ ProjectFailed

Next ==
    \/ StartStep \/ Kill
    \/ \E c \in Calls :
          \/ Begin(c) \/ Step(c) \/ NoService(c) \/ GiveUp(c) \/ OperationEnds(c)
          \/ \E d \in Calls : MapFault(c, d)
    \/ \E a \in APIs : OrphanEnds(a) \/ Disable(a)

\* The host starts what is down; a Get of the project that is repeated is
\* answered one day; goroutines run; an operation ends.
Fairness ==
    /\ WF_vars(StartStep) /\ SF_vars(GetProject /\ start' = "up")
    /\ \A c \in Calls : WF_vars(Step(c)) /\ WF_vars(OperationEnds(c))

Spec == Init /\ [][Next]_vars /\ Fairness

-----------------------------------------------------------------------------
(* Properties.                                                             *)

\* An API that ensureAPI skips as enabled is enabled, but for one that was
\* disabled later or whose operation was already done, with an error, in the
\* answer to Enable.
CacheIsTrue == apisEnabled \subseteq enabled \cup excused

\* A call answers that an API is missing only when the process holds it as
\* enabled: before it gives up it has had ensureAPI succeed for that API.
GivesUpOnlyOnCached ==
    [][\A c \in Calls : missing'[c] \notin {None, missing[c]}
                            => missing'[c] \in apisEnabled]_vars

\* The loop of runAndEnsureAPI ends whatever f answers and whatever services
\* are disabled meanwhile, unless the process dies.
CallEnds == \A c \in Calls : pc[c] = "f" ~> pc[c] \in {"done", "idle"}

\* A project that was created makes the plugin start, although the Start that
\* created it dies: the next one finds it.
StartRecovers == project ~> start = "up"
=============================================================================
