------------------------------ MODULE McpRegistry ------------------------------
(***************************************************************************)
(* MCP servers from the application's file to the Agent's tool list: the   *)
(* HTTP handlers that edit McpServerManager and push its enabled entries   *)
(* to MCPConfigManager::Load, the connections that register their tools in *)
(* ResourceManager, SyncMcpTools that reconciles the Agent, and a worker   *)
(* that builds schemas and calls tools meanwhile.                          *)
(*                                                                         *)
(* A factory is the number of the connection it captured, Builtin, or 0.   *)
(* A schema is the factory whose probe produced it.                        *)
(***************************************************************************)
EXTENDS Integers, Sequences, FiniteSets

CONSTANTS
  Servers, Tools, Handlers,
  Offers,         \* external: the tools each server lists
  BuiltinTools,   \* names RegisterBuiltinTools gave a factory
  Configs,        \* the McpServerConfigs in play
  Edits,          \* what requests set: a server and its new configuration, Absent to delete it
  BootOrder,      \* the servers main has loaded, in the order they connected
  BootConfig,     \* and their configuration
  MaxRequests,    \* bound: requests to the handlers
  MaxCalls,       \* bound: tools the worker creates, schemas it builds
  MaxFaults       \* bound: connects or tool listings that fail or throw

Absent == [kind |-> "absent", rev |-> 0, timeout |-> 0, enabled |-> FALSE]

ASSUME McpAssumption ==
  /\ Offers \in [Servers -> SUBSET Tools] /\ BuiltinTools \subseteq Tools
  /\ Configs \subseteq [kind : {"http", "stdio", "invalid"}, rev : Nat, timeout : Nat, enabled : BOOLEAN]
  /\ Edits \subseteq Servers \X (Configs \cup {Absent})
  /\ BootOrder \in Seq(Servers) /\ \A i, j \in DOMAIN BootOrder : BootOrder[i] = BootOrder[j] => i = j
  /\ BootConfig \in Configs /\ BootConfig.kind = "http" /\ BootConfig.enabled
  /\ {MaxRequests, MaxCalls, MaxFaults} \subseteq Nat
  /\ "none" \notin Servers \cup Handlers \cup Tools /\ "worker" \notin Handlers

VARIABLES
  entries,       \* McpServerManager::servers_
  lastConfigs,   \* MCPConfigManager::lastConfigs_
  servers,       \* MCPConfigManager::servers_: the connection of each id
  mcpServers,    \* ResourceManager::mcpServers_
  conns,         \* every MCPConnection made
  factories, mcpToolNames, schemas,   \* ResourceManager::toolFactories_, ..., both schema caches
  toolNames, ownedMcpTools,           \* AgentWorker
  mutex,         \* the handler in MCPConfigManager::Load, or none
  hpc, args, todo, starting, diff,    \* per handler: control, Load's argument and loops, Sync's diff
  wpc, held,     \* the worker: control, and the tool it holds
  job,           \* per handler and worker: the connection whose stateMutex_ it holds, the tools left
  requests, calls, faults,            \* against their bounds
  overlapped, agreed, tainted, revived, broken, skewed   \* history

registryVars == <<factories, mcpToolNames, schemas>>
managerVars  == <<lastConfigs, servers, mcpServers, mutex>>
handlerVars  == <<hpc, args, todo, starting, diff>>
agentVars    == <<toolNames, ownedMcpTools>>
workerVars   == <<wpc, held, calls, revived>>
historyVars  == <<overlapped, agreed, tainted, skewed>>
vars == <<entries, conns, job, broken, registryVars, managerVars, handlerVars, agentVars, workerVars,
          historyVars, requests, faults>>

Builtin == -1
NoServer == "none"
NoHandler == "none"
NoDiff == [add |-> {}, remove |-> {}]
NoTool == [tool |-> "none", conn |-> 0]
NoJob == [conn |-> 0, up |-> FALSE, left |-> {}, cur |-> "none"]
Worker == "worker"
Actors == Handlers \cup {Worker}

(* Somebody is inside Connect or Disconnect of connection c.               *)
Locked(c) == \E x \in Actors : job[x].conn = c

-----------------------------------------------------------------------------
(* ResourceManager's tool registry *)

(* The first critical section of RegisterMcpTool: RegisterTool erases the  *)
(* cached schemas. The name is noted in a second one.                      *)
RegisterTool(t, c) ==
  /\ factories' = [factories EXCEPT ![t] = c]
  /\ schemas' = [schemas EXCEPT ![t] = 0]
  /\ UNCHANGED mcpToolNames

UnregisterMcpTool_KeepSchema(t) ==
  /\ factories' = [factories EXCEPT ![t] = 0]
  /\ mcpToolNames' = mcpToolNames \ {t}
  /\ UNCHANGED schemas

(* UnregisterMcpTool erases whatever factory has the name.                 *)
UnregisterMcpTool(t) ==
  /\ factories' = [factories EXCEPT ![t] = 0]
  /\ mcpToolNames' = mcpToolNames \ {t}
  /\ schemas' = [schemas EXCEPT ![t] = 0]

-----------------------------------------------------------------------------
(* MCPConnection. Connect and Disconnect hold stateMutex_ throughout, but  *)
(* the registry only for each tool: their steps interleave.                *)

(* The outcomes of Initialize and ListTools: without a client (stdio) or   *)
(* when Initialize fails there is no connection; a failed listing connects *)
(* without tools.                                                          *)
Outcomes(server, kind) ==
  LET none == [up |-> FALSE, tools |-> {}, fault |-> 0]
  IN  IF kind # "http" THEN {none}
      ELSE {[up |-> TRUE, tools |-> Offers[server], fault |-> 0]}
           \cup (IF faults < MaxFaults
                 THEN {[none EXCEPT !.fault = 1], [up |-> TRUE, tools |-> {}, fault |-> 1]}
                 ELSE {})

(* Connect, up to its loop over the listed tools. *)
BeginConnect(x, c, server, kind) ==
  \E o \in Outcomes(server, kind) :
    /\ job' = [job EXCEPT ![x] = [conn |-> c, up |-> o.up, left |-> o.tools, cur |-> "none"]]
    /\ faults' = faults + o.fault

Connecting(x) == IF x = Worker THEN wpc = "connect" ELSE hpc[x] = "connect"

(* The loop's body for one tool, up to RegisterMcpTool's first section.    *)
DiscoverTool(x) ==
  LET j == job[x]
  IN  /\ Connecting(x) /\ j.cur = "none"
      /\ \E t \in j.left :
           /\ conns' = [conns EXCEPT ![j.conn].tools = @ \cup {t}]
           /\ RegisterTool(t, j.conn)
           /\ job' = [job EXCEPT ![x].left = @ \ {t}, ![x].cur = t]
      /\ UNCHANGED <<entries, broken, managerVars, handlerVars, agentVars, workerVars, requests, faults>>

(* RegisterMcpTool's second section. *)
NoteToolName(x) ==
  /\ Connecting(x) /\ job[x].cur # "none"
  /\ mcpToolNames' = mcpToolNames \cup {job[x].cur}
  /\ job' = [job EXCEPT ![x].cur = "none"]
  /\ UNCHANGED <<entries, conns, broken, factories, schemas, managerVars, handlerVars, agentVars,
                 workerVars, requests, faults>>

EndConnect(x) ==
  /\ Connecting(x) /\ job[x].cur = "none" /\ job[x].left = {}
  /\ conns' = [conns EXCEPT ![job[x].conn].connected = job[x].up]
  /\ job' = [job EXCEPT ![x] = NoJob]

(* A description or a parameter of the wrong type: ListTools throws before *)
(* the first tool, or the loop does after it noted one more as available.  *)
ConnectThrows(x) ==
  LET j == job[x]
  IN  /\ Connecting(x) /\ j.cur = "none" /\ faults < MaxFaults
      /\ \/ j.left # {} /\ conns[j.conn].tools = {} /\ UNCHANGED conns
         \/ \E t \in j.left : conns' = [conns EXCEPT ![j.conn].tools = @ \cup {t}]
      /\ broken' = broken \cup {j.conn} /\ faults' = faults + 1
      /\ job' = [job EXCEPT ![x] = NoJob]

UnregisterTools_KeepFactory(h) ==
  /\ hpc[h] \in {"stop", "change", "removing"}
  /\ \E t \in job[h].left :
       /\ mcpToolNames' = mcpToolNames \ {t} /\ UNCHANGED <<factories, schemas>>
       /\ job' = [job EXCEPT ![h].left = @ \ {t}]
  /\ UNCHANGED <<entries, conns, broken, managerVars, handlerVars, agentVars, workerVars, requests, faults>>

(* Disconnect's loop: one tool, one critical section.                      *)
UnregisterTools(h) ==
  /\ hpc[h] \in {"stop", "change", "removing"}
  /\ \E t \in job[h].left :
       /\ UnregisterMcpTool(t)
       /\ job' = [job EXCEPT ![h].left = @ \ {t}]
  /\ UNCHANGED <<entries, conns, broken, managerVars, handlerVars, agentVars, workerVars, requests, faults>>

-----------------------------------------------------------------------------
(* MCPConfigManager *)

(* The timeouts are not compared. *)
ConfigChanged(a, b) == a.kind # b.kind \/ a.rev # b.rev \/ a.enabled # b.enabled

(* StopServerLocked of an id with a connection: its Disconnect waits for   *)
(* stateMutex_, and the handler goes on at place pc.                       *)
BeginStop(h, s, pc) ==
  /\ ~Locked(servers[s])
  /\ job' = [job EXCEPT ![h] = [conn |-> servers[s], up |-> FALSE, left |-> conns[servers[s]].tools,
                                cur |-> "none"]]
  /\ starting' = [starting EXCEPT ![h] = s]
  /\ hpc' = [hpc EXCEPT ![h] = pc]

StopServerLocked_NoDisconnect(h) ==
  /\ hpc[h] \in {"stop", "change", "removing"} /\ job[h].left = {}
  /\ job' = [job EXCEPT ![h] = NoJob]
  /\ servers' = [servers EXCEPT ![starting[h]] = 0]
  /\ mcpServers' = [mcpServers EXCEPT ![starting[h]] = 0]
  /\ hpc' = [hpc EXCEPT ![h] = CASE @ = "stop" -> "loop" [] @ = "change" -> "start" [] OTHER -> "sync"]
  /\ starting' = IF hpc[h] = "change" THEN starting ELSE [starting EXCEPT ![h] = NoServer]
  /\ IF hpc[h] = "removing"
     THEN mutex' = NoHandler /\ lastConfigs' = [lastConfigs EXCEPT ![starting[h]] = Absent]
     ELSE UNCHANGED <<mutex, lastConfigs>>
  /\ UNCHANGED <<conns, entries, broken, registryVars, args, todo, diff, agentVars, workerVars, requests, faults>>

(* Disconnect's end, then both maps forget the connection. Load goes on,   *)
(* Apply to the start; Remove also forgets the configuration.              *)
StopServerLocked(h) ==
  /\ hpc[h] \in {"stop", "change", "removing"} /\ job[h].left = {}
  /\ conns' = [conns EXCEPT ![job[h].conn].connected = FALSE, ![job[h].conn].tools = {}]
  /\ job' = [job EXCEPT ![h] = NoJob]
  /\ servers' = [servers EXCEPT ![starting[h]] = 0]
  /\ mcpServers' = [mcpServers EXCEPT ![starting[h]] = 0]
  /\ hpc' = [hpc EXCEPT ![h] = CASE @ = "stop" -> "loop" [] @ = "change" -> "start" [] OTHER -> "sync"]
  /\ starting' = IF hpc[h] = "change" THEN starting ELSE [starting EXCEPT ![h] = NoServer]
  /\ IF hpc[h] = "removing"
     THEN mutex' = NoHandler /\ lastConfigs' = [lastConfigs EXCEPT ![starting[h]] = Absent]
     ELSE UNCHANGED <<mutex, lastConfigs>>
  /\ UNCHANGED <<entries, broken, registryVars, args, todo, diff, agentVars, workerVars, requests, faults>>

(* AddServer, UpdateServer and RemoveServer (c = Absent) of the persistent *)
(* registry: the entry and the saved file are one state.                   *)
SetServer(s, c) == entries' = [entries EXCEPT ![s] = c]

(* A request that edits an entry, or reloads the file after an edit; all   *)
(* but DELETE go on to LoadMCPServers. Only requests that change an entry  *)
(* are taken.                                                              *)
EditServers(h) ==
  /\ hpc[h] = "idle" /\ requests < MaxRequests
  /\ requests' = requests + 1
  /\ \E s \in Servers, c \in Configs \cup {Absent} :
       /\ <<s, c>> \in Edits /\ c # entries[s]
       /\ SetServer(s, c)
       /\ \/ hpc' = [hpc EXCEPT ![h] = "convert"] /\ UNCHANGED starting
          \/ /\ c = Absent
             /\ hpc' = [hpc EXCEPT ![h] = "remove"]
             /\ starting' = [starting EXCEPT ![h] = s]
  /\ UNCHANGED <<conns, job, broken, registryVars, managerVars, args, todo, diff, agentVars, workerVars, faults>>

(* ToFrameworkConfigs: the enabled entries, read before Load's lock.       *)
ToFrameworkConfigs(h) ==
  /\ hpc[h] = "convert"
  /\ args' = [args EXCEPT ![h] = [s \in Servers |-> IF entries[s].enabled THEN entries[s] ELSE Absent]]
  /\ hpc' = [hpc EXCEPT ![h] = "load"]
  /\ UNCHANGED <<entries, conns, job, broken, registryVars, managerVars, todo, starting, diff, agentVars,
                 workerVars, requests, faults>>

Load(h) ==
  /\ hpc[h] = "load" /\ mutex = NoHandler
  /\ mutex' = h
  /\ todo' = [todo EXCEPT ![h] = {s \in Servers : lastConfigs[s] # Absent \/ args[h][s] # Absent}]
  /\ hpc' = [hpc EXCEPT ![h] = "loop"]
  /\ UNCHANGED <<entries, conns, job, broken, registryVars, lastConfigs, servers, mcpServers, args, starting, diff,
                 agentVars, workerVars, requests, faults>>

StopMissing_CallsRemove(h) ==
  /\ hpc[h] = "loop" /\ mutex = NoHandler
  /\ \E s \in todo[h] :
       /\ args[h][s] = Absent
       /\ todo' = [todo EXCEPT ![h] = @ \ {s}]
       /\ IF servers[s] = 0 THEN UNCHANGED <<job, starting, hpc>> ELSE BeginStop(h, s, "stop")
  /\ UNCHANGED <<entries, conns, broken, registryVars, managerVars, args, diff, agentVars, workerVars,
                 requests, faults>>

(* Load's first loop stops the servers missing from the argument; their    *)
(* remembered configuration stays.                                         *)
StopMissing(h) ==
  /\ hpc[h] = "loop"
  /\ \E s \in todo[h] :
       /\ args[h][s] = Absent
       /\ todo' = [todo EXCEPT ![h] = @ \ {s}]
       /\ IF servers[s] = 0 THEN UNCHANGED <<job, starting, hpc>> ELSE BeginStop(h, s, "stop")
  /\ UNCHANGED <<entries, conns, broken, registryVars, managerVars, args, diff, agentVars, workerVars,
                 requests, faults>>

(* Apply, up to the start of the server: an unchanged one is left alone.   *)
(* The argument holds enabled configurations only.                         *)
Apply(h) ==
  /\ hpc[h] = "loop" /\ \A s \in todo[h] : args[h][s] # Absent
  /\ \E s \in todo[h] :
       /\ todo' = [todo EXCEPT ![h] = @ \ {s}]
       /\ \/ /\ lastConfigs[s] # Absent /\ ~ConfigChanged(lastConfigs[s], args[h][s])
             /\ UNCHANGED <<job, starting, hpc>>
          \/ /\ lastConfigs[s] = Absent \/ ConfigChanged(lastConfigs[s], args[h][s])
             /\ IF servers[s] # 0 THEN BeginStop(h, s, "change")
                ELSE /\ starting' = [starting EXCEPT ![h] = s]
                     /\ hpc' = [hpc EXCEPT ![h] = "start"]
                     /\ UNCHANGED job
  /\ UNCHANGED <<entries, conns, broken, registryVars, managerVars, args, diff, agentVars, workerVars,
                 requests, faults>>

(* StartServerLocked: RegisterMCPServer makes the connection and connects  *)
(* it; an invalid configuration makes none.                                *)
StartServerLocked(h) ==
  LET s == starting[h]
      kind == args[h][s].kind
  IN  /\ hpc[h] = "start"
      /\ \/ /\ kind = "invalid"
            /\ lastConfigs' = [lastConfigs EXCEPT ![s] = args[h][s]]
            /\ starting' = [starting EXCEPT ![h] = NoServer]
            /\ hpc' = [hpc EXCEPT ![h] = "loop"]
            /\ UNCHANGED <<conns, job, faults>>
         \/ /\ kind # "invalid"
            /\ conns' = Append(conns, [server |-> s, kind |-> kind, connected |-> FALSE, tools |-> {}])
            /\ BeginConnect(h, Len(conns) + 1, s, kind)
            /\ hpc' = [hpc EXCEPT ![h] = "connect"]
            /\ UNCHANGED <<lastConfigs, starting>>
      /\ UNCHANGED <<entries, broken, registryVars, servers, mcpServers, mutex, args, todo, diff,
                     agentVars, workerVars, requests>>

(* Connect returned: both maps record the connection, up or not, and Apply *)
(* remembers the configuration.                                            *)
ServerStarted(h) ==
  LET s == starting[h]
  IN  /\ EndConnect(h)
      /\ mcpServers' = [mcpServers EXCEPT ![s] = job[h].conn]
      /\ servers' = [servers EXCEPT ![s] = job[h].conn]
      /\ lastConfigs' = [lastConfigs EXCEPT ![s] = args[h][s]]
      /\ starting' = [starting EXCEPT ![h] = NoServer]
      /\ hpc' = [hpc EXCEPT ![h] = "loop"]
      /\ UNCHANGED <<entries, broken, registryVars, mutex, args, todo, diff, agentVars, workerVars,
                     requests, faults>>

(* Connect threw: the exception leaves Apply and Load, which gives back the*)
(* mutex, and the request; nothing else is applied and nothing is synced.  *)
LoadThrows(h) ==
  /\ ConnectThrows(h)
  /\ mutex' = NoHandler
  /\ hpc' = [hpc EXCEPT ![h] = "idle"]
  /\ starting' = [starting EXCEPT ![h] = NoServer] /\ todo' = [todo EXCEPT ![h] = {}]
  /\ args' = [args EXCEPT ![h] = [s \in Servers |-> Absent]]
  /\ UNCHANGED <<entries, registryVars, lastConfigs, servers, mcpServers, diff, agentVars, workerVars,
                 requests>>

LoadReturns(h) ==
  /\ hpc[h] = "loop" /\ todo[h] = {}
  /\ mutex' = NoHandler
  /\ hpc' = [hpc EXCEPT ![h] = "sync"]
  /\ args' = [args EXCEPT ![h] = [s \in Servers |-> Absent]]
  /\ UNCHANGED <<entries, conns, job, broken, registryVars, lastConfigs, servers, mcpServers, todo, starting, diff,
                 agentVars, workerVars, requests, faults>>

Remove(h) ==
  /\ hpc[h] = "remove" /\ mutex = NoHandler
  /\ \/ /\ servers[starting[h]] = 0
        /\ lastConfigs' = [lastConfigs EXCEPT ![starting[h]] = Absent]
        /\ starting' = [starting EXCEPT ![h] = NoServer]
        /\ hpc' = [hpc EXCEPT ![h] = "sync"]
        /\ UNCHANGED <<job, mutex>>
     \/ /\ servers[starting[h]] # 0
        /\ BeginStop(h, starting[h], "removing")
        /\ mutex' = h
        /\ UNCHANGED lastConfigs
  /\ UNCHANGED <<entries, conns, broken, registryVars, servers, mcpServers, args, todo, diff, agentVars,
                 workerVars, requests, faults>>

-----------------------------------------------------------------------------
(* AgentWorker::SyncMcpTools: the diff is computed before the lock, then   *)
(* applied under it.                                                       *)

SyncDiff_AddOnly(h) ==
  /\ hpc[h] = "sync"
  /\ diff' = [diff EXCEPT ![h] = [add |-> mcpToolNames \ ownedMcpTools, remove |-> {}]]
  /\ hpc' = [hpc EXCEPT ![h] = "merge"]
  /\ UNCHANGED <<entries, conns, job, broken, registryVars, managerVars, args, todo, starting, agentVars,
                 workerVars, requests, faults>>

SyncDiff(h) ==
  /\ hpc[h] = "sync"
  /\ diff' = [diff EXCEPT ![h] = [add |-> mcpToolNames \ ownedMcpTools,
                                  remove |-> ownedMcpTools \ mcpToolNames]]
  /\ hpc' = [hpc EXCEPT ![h] = "merge"]
  /\ UNCHANGED <<entries, conns, job, broken, registryVars, managerVars, args, todo, starting, agentVars,
                 workerVars, requests, faults>>

SyncMerge(h) ==
  /\ hpc[h] = "merge"
  /\ toolNames' = (toolNames \cup diff[h].add) \ diff[h].remove
  /\ ownedMcpTools' = (ownedMcpTools \cup diff[h].add) \ diff[h].remove
  /\ diff' = [diff EXCEPT ![h] = NoDiff]
  /\ hpc' = [hpc EXCEPT ![h] = "idle"]
  /\ UNCHANGED <<entries, conns, job, broken, registryVars, managerVars, args, todo, starting, workerVars,
                 requests, faults>>

-----------------------------------------------------------------------------
(* The worker *)

(* BuildToolSchemas, GetToolSchema, GetToolCatalog for one name: a cached  *)
(* schema is used; otherwise the factory is looked up under the lock, the  *)
(* probe is made outside, and its schema stored under the lock again.      *)
BuildToolSchemas(t) ==
  /\ wpc = "idle" /\ calls < MaxCalls
  /\ t \in toolNames /\ schemas[t] = 0 /\ factories[t] # 0
  /\ wpc' = "probe" /\ held' = [tool |-> t, conn |-> factories[t]] /\ calls' = calls + 1
  /\ UNCHANGED <<entries, conns, job, broken, registryVars, managerVars, handlerVars, agentVars, revived,
                 requests, faults>>

StoreSchema ==
  /\ wpc = "probe"
  /\ schemas' = [schemas EXCEPT ![held.tool] = held.conn]
  /\ wpc' = "idle" /\ held' = NoTool
  /\ UNCHANGED <<entries, conns, job, broken, factories, mcpToolNames, managerVars, handlerVars,
                 agentVars, calls, revived, requests, faults>>

(* CreateTool: the MCPTool shares the connection.                          *)
CreateTool(t) ==
  /\ wpc = "idle" /\ calls < MaxCalls
  /\ t \in toolNames /\ factories[t] > 0
  /\ wpc' = "tool" /\ held' = [tool |-> t, conn |-> factories[t]] /\ calls' = calls + 1
  /\ UNCHANGED <<entries, conns, job, broken, registryVars, managerVars, handlerVars, agentVars, revived,
                 requests, faults>>

(* MCPTool::Invoke answers with an error when it finds the connection down;*)
(* to look, it waits for a Connect or Disconnect under way.                *)
InvokeTool ==
  /\ wpc = "tool" /\ ~Locked(held.conn)
  /\ IF conns[held.conn].connected THEN wpc' = "call" /\ UNCHANGED held
     ELSE wpc' = "idle" /\ held' = NoTool
  /\ UNCHANGED <<entries, conns, job, broken, registryVars, managerVars, handlerVars, agentVars, calls,
                 revived, requests, faults>>

(* CallTool looks again and connects when the connection is down, also one *)
(* that its server's removal disconnected meanwhile: Connect registers the *)
(* tools again.                                                            *)
CallTool ==
  /\ wpc = "call" /\ ~Locked(held.conn)
  /\ LET c == conns[held.conn]
     IN  IF c.connected THEN wpc' = "idle" /\ held' = NoTool /\ UNCHANGED <<job, faults>>
         ELSE /\ BeginConnect(Worker, held.conn, c.server, c.kind)
              /\ wpc' = "connect" /\ UNCHANGED held
  /\ UNCHANGED <<entries, conns, broken, registryVars, managerVars, handlerVars, agentVars, calls,
                 revived, requests>>

(* Its Connect returned, and the call is made. *)
Reconnected ==
  /\ EndConnect(Worker)
  /\ revived' = revived \cup {held.conn}
  /\ wpc' = "idle" /\ held' = NoTool
  /\ UNCHANGED <<entries, broken, registryVars, managerVars, handlerVars, agentVars, calls, requests, faults>>

(* Its Connect threw: ExecuteTool answers with the error. *)
CallThrows ==
  /\ ConnectThrows(Worker)
  /\ wpc' = "idle" /\ held' = NoTool
  /\ UNCHANGED <<entries, registryVars, managerVars, handlerVars, agentVars, calls, revived, requests>>

-----------------------------------------------------------------------------
Step ==
  \/ \E h \in Handlers :
       \/ EditServers(h) \/ ToFrameworkConfigs(h) \/ Load(h) \/ StopMissing(h) \/ Apply(h)
       \/ StartServerLocked(h) \/ ServerStarted(h) \/ LoadThrows(h) \/ LoadReturns(h) \/ Remove(h)
       \/ UnregisterTools(h) \/ StopServerLocked(h) \/ SyncDiff(h) \/ SyncMerge(h)
  \/ \E x \in Actors : DiscoverTool(x) \/ NoteToolName(x)
  \/ \E t \in Tools : BuildToolSchemas(t) \/ CreateTool(t)
  \/ StoreSchema \/ InvokeTool \/ CallTool \/ Reconnected \/ CallThrows

(* History: overlapped holds the handlers whose diff was overtaken, agreed *)
(* that the last merge was not and nothing changed since, tainted the      *)
(* names whose factory changed while the worker probed it, skewed those    *)
(* whose factory went between the two sections of RegisterMcpTool. Besides,*)
(* revived holds the connections a call connected again, broken those whose*)
(* Connect threw.                                                          *)
History ==
  LET changed == mcpToolNames' # mcpToolNames
      merged  == {h \in Handlers : hpc[h] = "merge" /\ hpc'[h] = "idle"}
      overtaken(h) == hpc[h] = "merge" /\ (changed \/ merged # {})
  IN  /\ overlapped' = {h \in Handlers : hpc'[h] = "merge" /\ (h \in overlapped \/ overtaken(h))}
      /\ agreed' = IF merged # {} THEN merged \cap overlapped = {} ELSE agreed /\ ~changed
      /\ tainted' = {t \in Tools :
                       \/ t \in tainted /\ schemas'[t] # 0
                       \/ wpc = "probe" /\ wpc' = "probe" /\ held.tool = t /\ factories'[t] # factories[t]
                       \/ t \in tainted /\ wpc' = "probe" /\ held'.tool = t}
      /\ skewed' = skewed \cup {t \in Tools : factories'[t] = 0 /\ \E x \in Actors : job[x].cur = t}

Next == Step /\ History

(* main has loaded its file, every server connected, and synced the Agent. *)
BootConn(s) == IF \E i \in DOMAIN BootOrder : BootOrder[i] = s
               THEN CHOOSE i \in DOMAIN BootOrder : BootOrder[i] = s ELSE 0

Providers(t) == {i \in DOMAIN BootOrder : t \in Offers[BootOrder[i]]}

Init ==
  /\ entries = [s \in Servers |-> IF BootConn(s) > 0 THEN BootConfig ELSE Absent]
  /\ lastConfigs = entries
  /\ servers = [s \in Servers |-> BootConn(s)] /\ mcpServers = servers
  /\ conns = [i \in DOMAIN BootOrder |-> [server |-> BootOrder[i], kind |-> BootConfig.kind,
                                          connected |-> TRUE, tools |-> Offers[BootOrder[i]]]]
  /\ factories = [t \in Tools |-> IF Providers(t) # {} THEN CHOOSE i \in Providers(t) : \A j \in Providers(t) : j <= i
                                  ELSE IF t \in BuiltinTools THEN Builtin ELSE 0]
  /\ mcpToolNames = {t \in Tools : Providers(t) # {}} /\ schemas = [t \in Tools |-> 0]
  /\ toolNames = BuiltinTools \cup mcpToolNames /\ ownedMcpTools = mcpToolNames
  /\ mutex = NoHandler
  /\ hpc = [h \in Handlers |-> "idle"] /\ args = [h \in Handlers |-> [s \in Servers |-> Absent]]
  /\ todo = [h \in Handlers |-> {}] /\ starting = [h \in Handlers |-> NoServer]
  /\ diff = [h \in Handlers |-> NoDiff]
  /\ wpc = "idle" /\ held = NoTool
  /\ job = [x \in Actors |-> NoJob]
  /\ requests = 0 /\ calls = 0 /\ faults = 0
  /\ overlapped = {} /\ agreed = TRUE /\ tainted = {} /\ revived = {} /\ broken = {} /\ skewed = {}

(* A thread inside Connect or Disconnect goes on: every request of         *)
(* MCPClient has a timeout. So does a handler.                             *)
Proceed(h) ==
  /\ ToFrameworkConfigs(h) \/ Load(h) \/ StopMissing(h) \/ Apply(h) \/ StartServerLocked(h)
     \/ DiscoverTool(h) \/ NoteToolName(h) \/ ServerStarted(h) \/ LoadThrows(h) \/ LoadReturns(h)
     \/ Remove(h) \/ UnregisterTools(h) \/ StopServerLocked(h) \/ SyncDiff(h) \/ SyncMerge(h)
  /\ History

Reconnect == (DiscoverTool(Worker) \/ NoteToolName(Worker) \/ Reconnected \/ CallThrows) /\ History

Spec == Init /\ [][Next]_vars /\ (\A h \in Handlers : WF_vars(Proceed(h))) /\ WF_vars(Reconnect)

-----------------------------------------------------------------------------
Config == Configs \cup {Absent}
ConnIds == 0 .. Len(conns)
InManager == {"loop", "stop", "change", "start", "connect", "removing"}   \* holding MCPConfigManager::mutex_

TypeOK ==
  /\ entries \in [Servers -> Config] /\ lastConfigs \in [Servers -> Config]
  /\ servers \in [Servers -> ConnIds] /\ mcpServers \in [Servers -> ConnIds]
  /\ conns \in Seq([server : Servers, kind : {"http", "stdio"}, connected : BOOLEAN, tools : SUBSET Tools])
  /\ factories \in [Tools -> {Builtin} \cup ConnIds] /\ schemas \in [Tools -> {Builtin} \cup ConnIds]
  /\ mcpToolNames \subseteq Tools /\ toolNames \subseteq Tools /\ ownedMcpTools \subseteq toolNames
  /\ mutex \in Handlers \cup {NoHandler}
  /\ hpc \in [Handlers -> {"idle", "convert", "load", "remove", "sync", "merge"} \cup InManager]
  /\ mutex = NoHandler <=> \A h \in Handlers : hpc[h] \notin InManager
  /\ todo \in [Handlers -> SUBSET Servers] /\ starting \in [Handlers -> Servers \cup {NoServer}]
  /\ wpc \in {"idle", "probe", "tool", "call", "connect"} /\ held.conn \in {Builtin} \cup ConnIds

(* A factory the registry hands out belongs to a connection that lists the *)
(* tool and that is up, is being connected or disconnected at this moment, *)
(* or whose Connect threw, whatever Disconnect, reload and a reconnecting  *)
(* CallTool do to each other; and outside RegisterMcpTool mcpToolNames_    *)
(* names exactly the factories of connections, but for a name whose factory*)
(* somebody took away inside it.                                           *)
ServedByLiveConnection ==
  /\ \A t \in Tools : factories[t] > 0 =>
       /\ t \in conns[factories[t]].tools
       /\ conns[factories[t]].connected \/ Locked(factories[t]) \/ factories[t] \in broken
  /\ \A t \in Tools \ skewed :
       (\A x \in Actors : job[x].cur # t) => (t \in mcpToolNames <=> factories[t] > 0)

(* MCPConfigManager and ResourceManager name the same connection for an id *)
(* whenever neither Load nor Remove is running, and no reconfiguration     *)
(* leaves another one connected. The exception is one that a tool call     *)
(* still holding it reconnected.                                           *)
OneConnectionPerServer ==
  mutex = NoHandler =>
    /\ servers = mcpServers
    /\ \A c \in DOMAIN conns : conns[c].connected /\ c \notin revived => servers[conns[c].server] = c

(* After a SyncMcpTools that no change and no other sync overtook, the     *)
(* Agent owns exactly the registered MCP tools and lists them.             *)
SyncAgrees == agreed => ownedMcpTools = mcpToolNames /\ mcpToolNames \subseteq toolNames

(* A cached schema is of the factory registered now, except when the       *)
(* factory changed between BuildToolSchemas' lookup and its store.         *)
SchemaCacheFresh == \A t \in Tools \ tainted : schemas[t] # 0 => schemas[t] = factories[t]

(* An enabled, valid entry that Load was given and returned from has a     *)
(* connection, also when the id was missing from an earlier Load.          *)
EnabledServerIsStarted ==
  \A h \in Handlers, s \in Servers :
    hpc[h] = "loop" /\ todo[h] = {} /\ args[h][s].kind \in {"http", "stdio"} => servers[s] # 0

(* Every request to a handler ends, whoever holds the manager's mutex.     *)
RequestEnds == \A h \in Handlers : hpc[h] # "idle" ~> hpc[h] = "idle"

=============================================================================
