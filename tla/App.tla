----------------------------------- MODULE App -----------------------------------
(***************************************************************************)
(* jiuwenClaw around its SessionManager: HTTP handlers, the CLI's /reload  *)
(* and the ConfigWatcher thread work on Agent configurations and channels  *)
(* while an operator edits the two files, until main shuts them down.      *)
(* The watcher's third file, mcp_servers.json, is in McpRegistry.          *)
(***************************************************************************)
EXTENDS AgentConfigs, Channels

CONSTANTS
  Handlers, Cli, Watcher,     \* Threads and Workers are all of these
  AgentBodies, AgentFiles,    \* what requests and operators write
  ChannelBodies, ChannelFiles, ChannelIds,
  BootFiles,                  \* agents.json and channels.json at the start
  NoTime,                     \* lastMtime of a file not seen yet
  MaxEvents                   \* requests, commands, edits and saves that go wrong

ASSUME AppAssumption ==
  /\ Threads = Handlers \cup {Cli, Watcher} /\ Workers = Threads
  /\ MaxEvents \in Nat /\ NoTime \notin Nat /\ ChannelIds \subseteq Nat
  /\ \A file \in ChannelFiles \cup {f[2] : f \in BootFiles} :
       file \in {NoChannels, NotJson} \/ (IsFiniteSet(DOMAIN file) /\ DOMAIN file \subseteq Nat)

VARIABLES
  wpc, running,        \* ConfigWatcher: control and running_
  seenAgents, seenChannels,     \* lastMtime of its two entries
  missed,              \* history: files whose first sighting was not reported
  editing,             \* files an operator's editor has emptied
  mpc,                 \* main
  late,                \* history: a request was there when the bots were stopped
  faulty,              \* history: a save went wrong
  used                 \* events so far

watchVars == <<wpc, running, seenAgents, seenChannels, missed>>
appVars == <<watchVars, editing, mpc, late, faulty, used>>
vars == <<agentVars, channelVars, appVars>>

ThreadIdle(t) == apc[t] = "idle" /\ cpc[t] = "idle"

-----------------------------------------------------------------------------
(* Which of the idle threads takes a request makes no difference.          *)
FreeHandler ==
  LET free == {t \in Handlers : ThreadIdle(t)}
  IN  IF free = {} THEN {} ELSE {CHOOSE t \in free : TRUE}

(* How a save turns out. *)
Outcomes == {"saved", "truncated", "thrown"}
Fault(how) == IF how = "saved" THEN 0 ELSE 1

(* One handler thread serves one request at a time, until the server is    *)
(* stopped.                                                                *)
Begin(t, how) ==
  /\ ThreadIdle(t) /\ mpc \notin {"http_stopping", "down", "dead"}
  /\ used + 1 + Fault(how) <= MaxEvents
  /\ used' = used + 1 + Fault(how) /\ faulty' = (faulty \/ how # "saved")
  /\ late' = (late \/ mpc = "stop_http")
  /\ UNCHANGED <<watchVars, editing>>

Request(t, how) == Begin(t, how) /\ UNCHANGED mpc

AgentRequest(t) ==
  /\ UNCHANGED channelVars
  /\ \/ /\ Request(t, "saved")
        /\ \/ \E id \in AgentIds, json \in AgentBodies : PutAgent(t, id, json)
           \/ ReloadAgents(t)
           \/ DeleteMcpServer(t)
     \/ \E id \in AgentIds, how \in Outcomes : Request(t, how) /\ DeleteAgent(t, id, how)

ChannelRequest(t) ==
  /\ UNCHANGED agentVars
  /\ \/ Request(t, "saved") /\ LoadChannels(t)
     \/ \E how \in Outcomes :
          /\ Request(t, how)
          /\ \/ \E id \in {NoId} \cup ChannelIds, cfg \in ChannelBodies : AddChannel(t, id, cfg, how)
             \/ \E id \in ChannelIds, cfg \in ChannelBodies : UpdateChannel(t, id, cfg, how)
             \/ \E id \in ChannelIds : RemoveChannel(t, id, how)

AgentStep(t) ==
  /\ UNCHANGED channelVars
  /\ \/ \E how \in Outcomes :
          /\ used + Fault(how) <= MaxEvents
          /\ used' = used + Fault(how) /\ faulty' = (faulty \/ how # "saved")
          /\ UNCHANGED <<watchVars, editing, mpc, late>>
          /\ PutStores(t, how) \/ Cascade(t, how)
     \/ UNCHANGED appVars /\ (GetAgent(t) \/ Install(t))

ChannelStep(t) ==
  /\ UNCHANGED <<agentVars, appVars>>
  /\ \/ FindCreated(t) \/ RemoveFromService(t) \/ GetAllChannels(t) \/ StopMissing(t)
     \/ Apply(t)

(* /reload, /reload agent [<id>] and /reload channels, on the main thread, *)
(* where nothing catches what Load throws: the program dies of it.         *)
CliReload ==
  /\ Begin(Cli, "saved") /\ mpc = "up"
  /\ \/ /\ \E id \in AgentIds : ReloadAgent(Cli, id)
        /\ mpc' = IF half' THEN "dead" ELSE mpc
        /\ UNCHANGED channelVars
     \/ LoadChannels(Cli) /\ UNCHANGED <<agentVars, mpc>>

-----------------------------------------------------------------------------
(* ConfigWatcher::Loop.                                                    *)

(* A file is skipped while it is missing, remembered at first sight, and   *)
(* reported when its time differs. The time is noted before the callback,  *)
(* whose exception is caught: what threw is not tried again.               *)
WatchAgents ==
  /\ wpc = "agents" /\ wpc' = "channels"
  /\ IF afile # NoFile THEN seenAgents' = amtime ELSE UNCHANGED seenAgents
  /\ missed' = IF afile # NoFile /\ seenAgents = NoTime THEN missed \cup {"agents"}
               ELSE IF afile # NoFile /\ seenAgents # amtime THEN missed \ {"agents"} ELSE missed
  /\ IF afile # NoFile /\ seenAgents \notin {NoTime, amtime} THEN ReloadAgent(Watcher, live.id)
     ELSE UNCHANGED agentVars
  /\ UNCHANGED <<channelVars, running, seenChannels, editing, mpc, late, faulty, used>>

WatchChannels ==
  /\ wpc = "channels" /\ ThreadIdle(Watcher) /\ wpc' = "wait"
  /\ IF cfile # NoChannels THEN seenChannels' = cmtime ELSE UNCHANGED seenChannels
  /\ missed' = IF cfile # NoChannels /\ seenChannels = NoTime THEN missed \cup {"channels"}
               ELSE IF cfile # NoChannels /\ seenChannels # cmtime THEN missed \ {"channels"} ELSE missed
  /\ IF cfile # NoChannels /\ seenChannels \notin {NoTime, cmtime} THEN LoadChannels(Watcher)
     ELSE UNCHANGED channelVars
  /\ UNCHANGED <<agentVars, running, seenAgents, editing, mpc, late, faulty, used>>

(* wait_for looks at running_ and only then goes to sleep: a notification  *)
(* in between, sent without the mutex, is lost.                            *)
Wait ==
  /\ wpc \in {"wait", "dozing"} /\ ThreadIdle(Watcher)
  /\ wpc' = IF wpc = "dozing" THEN "asleep" ELSE IF running THEN "dozing" ELSE "ended"
  /\ UNCHANGED <<agentVars, channelVars, running, seenAgents, seenChannels, missed, editing, mpc, late, faulty, used>>

(* The loop ends when it finds running_ cleared.                           *)
LoopTop == IF running THEN "agents" ELSE "ended"

Timeout_Never ==
  /\ wpc = "asleep" /\ ~running /\ mpc = "up" /\ wpc' = LoopTop
  /\ UNCHANGED <<agentVars, channelVars, running, seenAgents, seenChannels, missed, editing, mpc, late, faulty, used>>

Timeout ==
  /\ wpc = "asleep" /\ wpc' = LoopTop
  /\ UNCHANGED <<agentVars, channelVars, running, seenAgents, seenChannels, missed, editing, mpc, late, faulty, used>>

Watch == mpc # "dead" /\ (WatchAgents \/ WatchChannels \/ Wait \/ Timeout)

-----------------------------------------------------------------------------
(* An operator's editor. *)
OpenInEditor(f) ==
  /\ f \notin editing /\ used < MaxEvents /\ mpc = "up"
  /\ editing' = editing \cup {f} /\ used' = used + 1
  /\ \/ f = "agents" /\ EditAgents(Garbled) /\ UNCHANGED channelVars
     \/ f = "channels" /\ EditChannels(NotJson) /\ UNCHANGED agentVars
  /\ UNCHANGED <<watchVars, mpc, late, faulty>>

SaveInEditor(f) ==
  /\ f \in editing /\ editing' = editing \ {f}
  /\ \/ f = "agents" /\ UNCHANGED channelVars /\ \E text \in AgentFiles : EditAgents(text)
     \/ f = "channels" /\ UNCHANGED agentVars /\ \E text \in ChannelFiles : EditChannels(text)
  /\ UNCHANGED <<watchVars, mpc, late, faulty, used>>

-----------------------------------------------------------------------------
(* The end of main, in its order: the watcher is told, woken and joined;   *)
(* the bots are stopped; the HTTP server is closed and its requests waited *)
(* for. "down" is before the joins of the cron watcher, the heartbeat and  *)
(* the SessionManager, which are not this module's.                        *)
MainStep(from, to) == mpc = from /\ mpc' = to

StopWatcher ==
  /\ MainStep("up", "notify") /\ ThreadIdle(Cli) /\ running' = FALSE
  /\ UNCHANGED <<agentVars, channelVars, wpc, seenAgents, seenChannels, missed, editing, late, faulty, used>>

NotifyWatcher ==
  /\ MainStep("notify", "join") /\ wpc' = IF wpc = "asleep" THEN "ended" ELSE wpc
  /\ UNCHANGED <<agentVars, channelVars, running, seenAgents, seenChannels, missed, editing, late, faulty, used>>

JoinWatcher ==
  /\ MainStep("join", "stop_http") /\ wpc = "ended" /\ StopAll
  /\ late' = \E t \in Handlers : ~ThreadIdle(t)
  /\ UNCHANGED <<agentVars, watchVars, editing, faulty, used>>

StopHttp ==
  /\ MainStep("stop_http", "http_stopping")
  /\ UNCHANGED <<agentVars, channelVars, watchVars, editing, late, faulty, used>>

JoinHttp ==
  /\ MainStep("http_stopping", "down") /\ \A t \in Handlers : ThreadIdle(t)
  /\ UNCHANGED <<agentVars, channelVars, watchVars, editing, late, faulty, used>>

Stopping == NotifyWatcher \/ JoinWatcher \/ StopHttp \/ JoinHttp

Progress ==
  \/ \E t \in Threads : mpc # "dead" /\ (AgentStep(t) \/ ChannelStep(t))
  \/ Stopping
  \/ \E f \in {"agents", "channels"} : SaveInEditor(f)

Next ==
  \/ \E t \in FreeHandler : AgentRequest(t) \/ ChannelRequest(t)
  \/ CliReload \/ StopWatcher \/ Watch \/ Progress
  \/ \E f \in {"agents", "channels"} : OpenInEditor(f)

(* main before the threads are started: files that are there are known to  *)
(* the watcher.                                                            *)
Init ==
  /\ \E files \in BootFiles : BootAgents(files[1]) /\ BootChannels(files[2])
  /\ wpc = "agents" /\ running = TRUE
  /\ seenAgents = (IF afile = NoFile THEN NoTime ELSE amtime)
  /\ seenChannels = (IF cfile = NoChannels THEN NoTime ELSE cmtime)
  /\ missed = {} /\ editing = {} /\ mpc = "up" /\ late = FALSE
  /\ used = 0 /\ faulty = FALSE

(* Some thread that can go on does; the watcher's rounds, which have no    *)
(* end, do not keep the others from it, nor they the watcher. An editor    *)
(* that emptied a file writes it. That the program is stopped is no one's  *)
(* duty.                                                                   *)
Spec == Init /\ [][Next]_vars /\ WF_vars(Progress) /\ WF_vars(Watch)

-----------------------------------------------------------------------------
TypeOK ==
  /\ apc \in [Threads -> {"idle", "upsert", "get", "install", "cascade"}]
  /\ cpc \in [Workers -> {"idle", "created", "apply", "remove", "reconcile", "stop"}]
  /\ \A t \in Workers : cpc[t] = "apply" => DOMAIN ccall[t] # {}
  /\ wpc \in {"agents", "channels", "wait", "dozing", "asleep", "ended"}
  /\ mpc \in {"up", "notify", "join", "stop_http", "http_stopping", "down", "dead"}
  /\ DOMAIN live.cfg = DOMAIN Blank
  /\ nextId \in Nat \ {0} /\ editing \subseteq {"agents", "channels"}
  /\ {amtime, cmtime} \subseteq Nat /\ {seenAgents, seenChannels} \subseteq Nat \cup {NoTime}

(* In whatever order requests, reloads, edits and the shutdown come, the   *)
(* stores agree with themselves: see their parts.                          *)
StoresConsistent == EffectiveIsMerged /\ BotMatchesLast /\ NextIdIsFree

(* agents.json and channels.json, when there is one that parses, have a    *)
(* value of another type.                                                  *)
AgentsIllTyped == \E r \in Loaded(ReadFileLocked) : r.half
ChannelsIllTyped == cfile \notin {NoChannels, NotJson} /\ \E id \in DOMAIN cfile : cfile[id] = BadItem

AgentSettled ==
  /\ current = Effective(ReadFileLocked)
  /\ \/ live.id \notin DOMAIN current \/ current[live.id]["model"] \in BadModels
     \/ overtaken \/ live.cfg = current[live.id]

ChannelsSettled ==
  /\ cfile \notin {NoChannels, NotJson} => channels = cfile \/ ChannelsIllTyped
  /\ \A id \in DOMAIN bots \cup DOMAIN channels : id \in disputed \/ InStep(id)

(* While the program stays up, what runs comes to be what the files say,   *)
(* whoever wrote them last: the watcher's reload mends what handlers that  *)
(* read, store and install in separate steps leave behind, and what a file *)
(* that was read halfway has left, once the file is mended. Excepted are a *)
(* save that failed, a file that was not there at the start, a handler that*)
(* installed, or applied, after the watcher what it had read before, and a *)
(* file that has a value of another type to the end: of that the channels  *)
(* that were read are run, and the Agent is left as it is.                 *)
Settles ==
  <>[](mpc # "up" \/ faulty \/ missed # {} \/ (ChannelsSettled /\ (AgentsIllTyped \/ AgentSettled)))

(* "the store preserves all agent entries" (jiuwenClaw's README:182): a PUT*)
(* leaves the other entries of agents.json as they are. The store writes   *)
(* what it read last, which may be less than the file has by now.          *)
EntriesPreserved ==
  [][\A t \in Threads : apc[t] = "upsert" /\ apc'[t] # "upsert" =>
       \/ {afile, afile'} \cap {NoFile, Garbled} # {}
       \/ DOMAIN afile \subseteq DOMAIN afile']_vars

(* Stopping the program comes to its end, though the notification of the   *)
(* watcher may be lost, and no bot is left, unless a request was served    *)
(* while or after the bots were stopped (main stops them before the        *)
(* server). "down" is where the HTTP server has been waited for.           *)
StopEnds == mpc = "notify" ~> mpc = "down" /\ (late \/ DOMAIN bots = {})

=============================================================================
