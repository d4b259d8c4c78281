-------------------------- MODULE McpRegistryProofs --------------------------
(***************************************************************************)
(* Theorems about McpRegistry, for any servers, tools, handlers and        *)
(* configurations, any order in which the servers of the file connected,   *)
(* and any number of requests, calls and faults.                           *)
(***************************************************************************)
EXTENDS McpRegistry, WellFoundedInduction, TLAPS

ConnType == [server : Servers, kind : {"http", "stdio"}, connected : BOOLEAN, tools : SUBSET Tools]
JobType == [conn : Int, up : BOOLEAN, left : SUBSET Tools, cur : Tools \cup {"none"}]
Diffs == [add : SUBSET Tools, remove : SUBSET Tools]
Holds == [tool : Tools \cup {"none"}, conn : Int]
Stopping == {"stop", "change", "removing"}
Places == {"idle", "convert", "load", "remove", "sync", "merge"} \cup InManager

\* The typing of the application's entries and of the manager's memory.
ConfigTyping ==
    /\ entries \in [Servers -> Config] /\ lastConfigs \in [Servers -> Config]

\* The typing of a handler, with what it must keep between its steps: who is in
\* Load or Remove has the mutex, and the server to start has a configuration.
HandlerTyping ==
    /\ mutex \in Handlers \cup {NoHandler}
    /\ hpc \in [Handlers -> Places]
    /\ args \in [Handlers -> [Servers -> Config]]
    /\ todo \in [Handlers -> SUBSET Servers] /\ starting \in [Handlers -> Servers \cup {NoServer}]
    /\ \A h \in Handlers :
         /\ hpc[h] \in InManager <=> mutex = h
         /\ hpc[h] \in {"start", "connect", "remove"} \cup Stopping => starting[h] \in Servers
         /\ hpc[h] \in {"change", "start", "connect"} => args[h][starting[h]] # Absent

\* The typing of the connections and of what refers to them by number.
ConnTyping ==
    /\ conns \in Seq(ConnType)
    /\ servers \in [Servers -> ConnIds] /\ mcpServers \in [Servers -> ConnIds]
    /\ factories \in [Tools -> {Builtin} \cup ConnIds] /\ schemas \in [Tools -> {Builtin} \cup ConnIds]
    /\ mcpToolNames \subseteq Tools /\ broken \subseteq 1 .. Len(conns)

\* The typing of the jobs: a thread holds a connection's stateMutex_ exactly
\* while it is inside Connect or Disconnect.
JobTyping ==
    /\ job \in [Actors -> JobType]
    /\ \A x \in Actors : job[x].conn \in ConnIds /\ (job[x].conn = 0 => job[x].cur = "none")
    /\ \A h \in Handlers : job[h].conn # 0 <=> hpc[h] \in {"connect"} \cup Stopping
    /\ job[Worker].conn # 0 <=> wpc = "connect"

\* The typing of the Agent's tool lists and of the pending differences.
AgentTyping ==
    /\ toolNames \subseteq Tools /\ ownedMcpTools \subseteq toolNames
    /\ diff \in [Handlers -> Diffs]

\* The typing of the worker: the tool it holds shares a connection that was
\* made, the one it connects if it connects one, and a probe is of a name.
WorkerTyping ==
    /\ wpc \in {"idle", "probe", "tool", "call", "connect"}
    /\ held \in Holds /\ held.conn \in {Builtin} \cup ConnIds
    /\ wpc \in {"tool", "call", "connect"} => held.conn \in 1 .. Len(conns)
    /\ wpc = "probe" => held.tool \in Tools
    /\ wpc = "connect" => job[Worker].conn = held.conn

Typing == ConfigTyping /\ HandlerTyping /\ ConnTyping /\ JobTyping /\ AgentTyping /\ WorkerTyping

USE DEF Builtin, NoServer, NoHandler, NoDiff, NoTool, ConnIds, registryVars, managerVars, handlerVars,
        agentVars, workerVars, Stopping

\* What a step does to one connection only, and to one job only.
OnlyConn(c) ==
    /\ conns' \in Seq(ConnType) /\ Len(conns') = Len(conns)
    /\ conns'[c].server = conns[c].server
    /\ \A i \in 1 .. Len(conns) : i # c => conns'[i] = conns[i]

OnlyJob(x) ==
    /\ job' \in [Actors -> JobType]
    /\ \A y \in Actors : y # x => job'[y] = job[y]

-----------------------------------------------------------------------------
(* What the steps inside Connect and Disconnect do.                        *)

\* A handler is not the worker.
LEMMA ActorsApart ==
    /\ Worker \in Actors /\ \A h \in Handlers : h \in Actors /\ h # Worker
    /\ \A x \in Actors : x # Worker => x \in Handlers
    /\ \A h \in Handlers : Connecting(h) <=> hpc[h] = "connect"
    /\ Connecting(Worker) <=> wpc = "connect"
BY McpAssumption DEF Actors, Worker, Connecting

\* Replacing one element of a sequence.
LEMMA ReplaceAt ==
    ASSUME NEW S, NEW q \in Seq(S), NEW i \in 1 .. Len(q), NEW d \in S
    PROVE  LET r == [q EXCEPT ![i] = d] IN
           /\ r \in Seq(S) /\ Len(r) = Len(q) /\ r[i] = d
           /\ \A j \in 1 .. Len(q) : j # i => r[j] = q[j]
OBVIOUS

\* Replacing one connection by another of the same server.
LEMMA ConnReplaced ==
    ASSUME ConnTyping, NEW c \in 1 .. Len(conns), NEW d \in ConnType, d.server = conns[c].server,
           conns' = [conns EXCEPT ![c] = d]
    PROVE  OnlyConn(c) /\ conns'[c] = d
<1>1. conns \in Seq(ConnType)
  BY DEF ConnTyping
<1> DEFINE e == [conns EXCEPT ![c] = d]
<1>2. /\ e \in Seq(ConnType) /\ Len(e) = Len(conns) /\ e[c] = d
      /\ \A i \in 1 .. Len(conns) : i # c => e[i] = conns[i]
  BY <1>1, ReplaceAt
<1> HIDE DEF e
<1>3. conns' = e
  BY DEF e
<1> QED BY <1>2, <1>3 DEF OnlyConn

\* Disconnect leaves the connection in place, down and without tools.
LEMMA DisconnectConns ==
    ASSUME ConnTyping, NEW c \in 1 .. Len(conns),
           conns' = [conns EXCEPT ![c].connected = FALSE, ![c].tools = {}]
    PROVE  OnlyConn(c) /\ conns'[c].connected = FALSE /\ conns'[c].tools = {}
<1>1. conns \in Seq(ConnType) /\ conns[c] \in ConnType
  BY DEF ConnTyping
<1> DEFINE d == [conns[c] EXCEPT !.connected = FALSE, !.tools = {}]
<1>2. d \in ConnType /\ d.server = conns[c].server /\ d.connected = FALSE /\ d.tools = {}
  BY <1>1 DEF ConnType
<1>3. conns' = [conns EXCEPT ![c] = d]
  OBVIOUS
<1> HIDE DEF d
<1> QED BY <1>2, <1>3, ConnReplaced

\* A tool noted as available changes nothing else of its connection.
LEMMA ToolAvailable ==
    ASSUME ConnTyping, NEW c \in 1 .. Len(conns), NEW t \in Tools,
           conns' = [conns EXCEPT ![c].tools = @ \cup {t}]
    PROVE  OnlyConn(c) /\ conns'[c].connected = conns[c].connected /\ conns'[c].tools = conns[c].tools \cup {t}
<1>1. conns \in Seq(ConnType) /\ conns[c] \in ConnType
  BY DEF ConnTyping
<1> DEFINE d == [conns[c] EXCEPT !.tools = @ \cup {t}]
<1>2. /\ d \in ConnType /\ d.server = conns[c].server /\ d.connected = conns[c].connected
      /\ d.tools = conns[c].tools \cup {t}
  BY <1>1 DEF ConnType
<1>3. conns' = [conns EXCEPT ![c] = d]
  OBVIOUS
<1> HIDE DEF d
<1> QED BY <1>2, <1>3, ConnReplaced

\* The job of a thread inside Connect: which connection, and which tools.
LEMMA ConnectingJob ==
    ASSUME Typing, NEW x \in Actors, Connecting(x)
    PROVE  /\ job[x] \in JobType /\ job[x].conn \in 1 .. Len(conns)
           /\ job[x].left \subseteq Tools /\ job[x].cur \in Tools \cup {"none"} /\ job[x].up \in BOOLEAN
<1>1. job[x] \in JobType /\ job[x].conn \in 0 .. Len(conns) /\ Len(conns) \in Nat
  BY DEF Typing, JobTyping, ConnTyping
<1>2. job[x].conn # 0
  <2>1. CASE x = Worker
    BY <2>1, ActorsApart DEF Typing, JobTyping
  <2>2. CASE x # Worker
    BY <2>2, ActorsApart DEF Typing, JobTyping
  <2> QED BY <2>1, <2>2
<1> QED BY <1>1, <1>2 DEF JobType

\* The job of a handler inside Disconnect.
LEMMA StoppingJob ==
    ASSUME Typing, NEW h \in Handlers, hpc[h] \in Stopping
    PROVE  /\ job[h] \in JobType /\ job[h].conn \in 1 .. Len(conns) /\ job[h].left \subseteq Tools
           /\ starting[h] \in Servers
<1>1. h \in Actors
  BY ActorsApart
<1>2. job[h] \in JobType /\ job[h].conn \in 0 .. Len(conns) /\ Len(conns) \in Nat /\ job[h].conn # 0
  BY <1>1 DEF Typing, JobTyping, ConnTyping
<1> QED BY <1>2 DEF JobType, Typing, HandlerTyping

\* Connect's loop registers one tool more of its connection.
LEMMA DiscoverEffect ==
    ASSUME Typing, NEW x \in Actors, DiscoverTool(x)
    PROVE  LET c == job[x].conn IN
           /\ c \in 1 .. Len(conns) /\ Connecting(x) /\ OnlyConn(c) /\ OnlyJob(x)
           /\ \E t \in job[x].left :
                /\ t \in Tools /\ conns'[c].connected = conns[c].connected
                /\ conns'[c].tools = conns[c].tools \cup {t}
                /\ RegisterTool(t, c)
                /\ job'[x].conn = c /\ job'[x].up = job[x].up
                /\ job'[x].left = job[x].left \ {t} /\ job'[x].cur = t
           /\ UNCHANGED <<entries, broken, managerVars, handlerVars, agentVars, workerVars>>
<1> DEFINE c == job[x].conn
<1>0. Connecting(x) /\ UNCHANGED <<entries, broken, managerVars, handlerVars, agentVars, workerVars>>
  BY DEF DiscoverTool
<1>1. job[x] \in JobType /\ c \in 1 .. Len(conns) /\ job[x].left \subseteq Tools /\ ConnTyping
      /\ job \in [Actors -> JobType]
  BY <1>0, ConnectingJob DEF Typing, JobTyping
<1>2. PICK t \in job[x].left :
         /\ conns' = [conns EXCEPT ![c].tools = @ \cup {t}] /\ RegisterTool(t, c)
         /\ job' = [job EXCEPT ![x].left = @ \ {t}, ![x].cur = t]
  BY DEF DiscoverTool
<1>3. t \in Tools
  BY <1>1
<1>4. OnlyConn(c) /\ conns'[c].connected = conns[c].connected /\ conns'[c].tools = conns[c].tools \cup {t}
  BY <1>1, <1>2, <1>3, ToolAvailable
<1> DEFINE d == [job[x] EXCEPT !.left = @ \ {t}, !.cur = t]
<1>5. d \in JobType /\ d.conn = c /\ d.up = job[x].up /\ d.left = job[x].left \ {t} /\ d.cur = t
  BY <1>1, <1>3 DEF JobType
<1>6. job' = [job EXCEPT ![x] = d]
  BY <1>2
<1> HIDE DEF d
<1>7. OnlyJob(x) /\ job'[x] = d
  BY <1>1, <1>5, <1>6 DEF OnlyJob
<1> QED BY <1>0, <1>1, <1>2, <1>3, <1>4, <1>5, <1>7

\* RegisterMcpTool's second section changes the names and the job.
LEMMA NoteEffect ==
    ASSUME Typing, NEW x \in Actors, NoteToolName(x)
    PROVE  /\ job[x].cur \in Tools /\ Connecting(x) /\ OnlyJob(x)
           /\ mcpToolNames' = mcpToolNames \cup {job[x].cur}
           /\ job'[x].conn = job[x].conn /\ job'[x].up = job[x].up
           /\ job'[x].left = job[x].left /\ job'[x].cur = "none"
           /\ UNCHANGED <<conns, factories, schemas, entries, broken, managerVars, handlerVars, agentVars, workerVars>>
<1>0. /\ Connecting(x) /\ job[x].cur # "none" /\ mcpToolNames' = mcpToolNames \cup {job[x].cur}
      /\ job' = [job EXCEPT ![x].cur = "none"]
      /\ UNCHANGED <<conns, factories, schemas, entries, broken, managerVars, handlerVars, agentVars, workerVars>>
  BY DEF NoteToolName
<1>1. job[x] \in JobType /\ job[x].cur \in Tools /\ job \in [Actors -> JobType]
  BY <1>0, ConnectingJob DEF Typing, JobTyping
<1> DEFINE d == [job[x] EXCEPT !.cur = "none"]
<1>2. d \in JobType /\ d.conn = job[x].conn /\ d.up = job[x].up /\ d.left = job[x].left /\ d.cur = "none"
  BY <1>1 DEF JobType
<1>3. job' = [job EXCEPT ![x] = d]
  BY <1>0
<1> HIDE DEF d
<1>4. OnlyJob(x) /\ job'[x] = d
  BY <1>1, <1>2, <1>3 DEF OnlyJob
<1> QED BY <1>0, <1>1, <1>2, <1>4

\* A thread that leaves Connect or Disconnect gives back stateMutex_.
LEMMA JobDone ==
    ASSUME Typing, NEW x \in Actors, job' = [job EXCEPT ![x] = NoJob]
    PROVE  OnlyJob(x) /\ job'[x].conn = 0 /\ job'[x].left = {} /\ job'[x].cur = "none"
<1>1. NoJob \in JobType /\ NoJob.conn = 0 /\ NoJob.left = {} /\ NoJob.cur = "none"
  BY DEF NoJob, JobType
<1>2. job \in [Actors -> JobType]
  BY DEF Typing, JobTyping
<1> HIDE DEF NoJob
<1> QED BY <1>1, <1>2 DEF OnlyJob

\* Connect returns: the connection is up if the server answered.
LEMMA EndEffect ==
    ASSUME Typing, NEW x \in Actors, EndConnect(x)
    PROVE  LET c == job[x].conn IN
           /\ c \in 1 .. Len(conns) /\ Connecting(x) /\ OnlyConn(c) /\ OnlyJob(x)
           /\ job[x].cur = "none" /\ job[x].left = {}
           /\ conns'[c].connected = job[x].up /\ conns'[c].tools = conns[c].tools
           /\ job'[x].conn = 0 /\ job'[x].left = {} /\ job'[x].cur = "none"
<1> DEFINE c == job[x].conn
<1>0. /\ Connecting(x) /\ job[x].cur = "none" /\ job[x].left = {} /\ job' = [job EXCEPT ![x] = NoJob]
      /\ conns' = [conns EXCEPT ![c].connected = job[x].up]
  BY DEF EndConnect
<1>1. c \in 1 .. Len(conns) /\ job[x].up \in BOOLEAN /\ ConnTyping
  BY <1>0, ConnectingJob DEF Typing
<1>2. conns \in Seq(ConnType) /\ conns[c] \in ConnType
  BY <1>1 DEF ConnTyping
<1> DEFINE d == [conns[c] EXCEPT !.connected = job[x].up]
<1>3. d \in ConnType /\ d.server = conns[c].server /\ d.connected = job[x].up /\ d.tools = conns[c].tools
  BY <1>1, <1>2 DEF ConnType
<1>4. conns' = [conns EXCEPT ![c] = d]
  BY <1>0
<1> HIDE DEF d
<1>5. OnlyConn(c) /\ conns'[c] = d
  BY <1>1, <1>3, <1>4, ConnReplaced
<1>6. OnlyJob(x) /\ job'[x].conn = 0 /\ job'[x].left = {} /\ job'[x].cur = "none"
  BY <1>0, JobDone
<1> QED BY <1>0, <1>1, <1>3, <1>5, <1>6

\* Connect throws: the connection stays down, with perhaps a tool more.
LEMMA ThrowEffect ==
    ASSUME Typing, NEW x \in Actors, ConnectThrows(x)
    PROVE  LET c == job[x].conn IN
           /\ c \in 1 .. Len(conns) /\ Connecting(x) /\ OnlyConn(c) /\ OnlyJob(x) /\ job[x].cur = "none"
           /\ conns'[c].connected = conns[c].connected /\ conns[c].tools \subseteq conns'[c].tools
           /\ broken' = broken \cup {c}
           /\ job'[x].conn = 0 /\ job'[x].left = {} /\ job'[x].cur = "none"
<1> DEFINE c == job[x].conn
<1>0. /\ Connecting(x) /\ job[x].cur = "none" /\ job' = [job EXCEPT ![x] = NoJob] /\ broken' = broken \cup {c}
      /\ UNCHANGED conns \/ \E t \in job[x].left : conns' = [conns EXCEPT ![c].tools = @ \cup {t}]
  BY DEF ConnectThrows
<1>1. c \in 1 .. Len(conns) /\ job[x].left \subseteq Tools /\ ConnTyping
  BY <1>0, ConnectingJob DEF Typing
<1>2. OnlyConn(c) /\ conns'[c].connected = conns[c].connected /\ conns[c].tools \subseteq conns'[c].tools
  <2>1. CASE UNCHANGED conns
    BY <1>1, <2>1 DEF OnlyConn, ConnTyping
  <2>2. CASE \E t \in job[x].left : conns' = [conns EXCEPT ![c].tools = @ \cup {t}]
    <3>1. PICK t \in job[x].left : conns' = [conns EXCEPT ![c].tools = @ \cup {t}]
      BY <2>2
    <3>2. t \in Tools
      BY <1>1
    <3>3. OnlyConn(c) /\ conns'[c].connected = conns[c].connected /\ conns'[c].tools = conns[c].tools \cup {t}
      BY <1>1, <3>1, <3>2, ToolAvailable
    <3> QED BY <3>3
  <2> QED BY <1>0, <2>1, <2>2
<1>3. OnlyJob(x) /\ job'[x].conn = 0 /\ job'[x].left = {} /\ job'[x].cur = "none"
  BY <1>0, JobDone
<1> QED BY <1>0, <1>1, <1>2, <1>3

\* Disconnect's loop takes one tool of its connection out of the registry.
LEMMA UnregisterEffect ==
    ASSUME Typing, NEW h \in Handlers, UnregisterTools(h)
    PROVE  /\ hpc[h] \in Stopping /\ OnlyJob(h)
           /\ \E t \in job[h].left : /\ t \in Tools /\ UnregisterMcpTool(t)
                                     /\ job'[h].left = job[h].left \ {t}
           /\ job'[h].conn = job[h].conn /\ job'[h].cur = job[h].cur
           /\ UNCHANGED <<entries, conns, broken, managerVars, handlerVars, agentVars, workerVars>>
<1>0. hpc[h] \in Stopping /\ UNCHANGED <<entries, conns, broken, managerVars, handlerVars, agentVars, workerVars>>
  BY DEF UnregisterTools
<1>1. job[h] \in JobType /\ job[h].left \subseteq Tools /\ job \in [Actors -> JobType] /\ h \in Actors
  BY <1>0, StoppingJob, ActorsApart DEF Typing, JobTyping
<1>2. PICK t \in job[h].left : UnregisterMcpTool(t) /\ job' = [job EXCEPT ![h].left = @ \ {t}]
  BY DEF UnregisterTools
<1> DEFINE d == [job[h] EXCEPT !.left = @ \ {t}]
<1>3. d \in JobType /\ d.conn = job[h].conn /\ d.left = job[h].left \ {t} /\ d.cur = job[h].cur
  BY <1>1 DEF JobType
<1>4. job' = [job EXCEPT ![h] = d]
  BY <1>2
<1> HIDE DEF d
<1>5. OnlyJob(h) /\ job'[h] = d
  BY <1>1, <1>3, <1>4 DEF OnlyJob
<1> QED BY <1>0, <1>1, <1>2, <1>3, <1>5

\* Disconnect's end, and what both maps and the handler do then.
LEMMA StopEffect ==
    ASSUME Typing, NEW h \in Handlers, StopServerLocked(h)
    PROVE  LET c == job[h].conn  s == starting[h] IN
           /\ hpc[h] \in Stopping /\ job[h].left = {} /\ c \in 1 .. Len(conns) /\ s \in Servers
           /\ OnlyConn(c) /\ OnlyJob(h) /\ conns'[c].connected = FALSE /\ conns'[c].tools = {}
           /\ job'[h].conn = 0 /\ job'[h].left = {} /\ job'[h].cur = "none"
           /\ servers' = [servers EXCEPT ![s] = 0] /\ mcpServers' = [mcpServers EXCEPT ![s] = 0]
           /\ UNCHANGED <<factories, mcpToolNames, schemas, entries, broken, args, todo, diff, agentVars, workerVars>>
<1> DEFINE c == job[h].conn
<1>0. /\ hpc[h] \in Stopping /\ job[h].left = {} /\ job' = [job EXCEPT ![h] = NoJob]
      /\ conns' = [conns EXCEPT ![c].connected = FALSE, ![c].tools = {}]
      /\ servers' = [servers EXCEPT ![starting[h]] = 0] /\ mcpServers' = [mcpServers EXCEPT ![starting[h]] = 0]
      /\ UNCHANGED <<factories, mcpToolNames, schemas, entries, broken, args, todo, diff, agentVars, workerVars>>
  BY DEF StopServerLocked
<1>1. c \in 1 .. Len(conns) /\ starting[h] \in Servers /\ ConnTyping
  BY <1>0, StoppingJob DEF Typing
<1>2. OnlyConn(c) /\ conns'[c].connected = FALSE /\ conns'[c].tools = {}
  BY <1>0, <1>1, DisconnectConns
<1>3. OnlyJob(h) /\ job'[h].conn = 0 /\ job'[h].left = {} /\ job'[h].cur = "none"
  BY <1>0, JobDone, ActorsApart
<1> QED BY <1>0, <1>1, <1>2, <1>3

\* An outcome of Initialize and ListTools has no tools unless the server
\* answered, and then only tools it offers.
LEMMA OutcomeType ==
    ASSUME NEW s \in Servers, NEW k, NEW o \in Outcomes(s, k)
    PROVE  /\ o.up \in BOOLEAN /\ o.tools \in SUBSET Tools /\ o.fault \in {0, 1}
           /\ o.tools # {} => o.up
<1> DEFINE none == [up |-> FALSE, tools |-> {}, fault |-> 0]
<1>1. \/ o = none \/ o = [up |-> TRUE, tools |-> Offers[s], fault |-> 0]
      \/ o = [none EXCEPT !.fault = 1] \/ o = [up |-> TRUE, tools |-> {}, fault |-> 1]
  BY DEF Outcomes
<1>2. Offers[s] \in SUBSET Tools
  BY McpAssumption
<1>3. CASE o = none
  BY <1>3
<1>4. CASE o = [up |-> TRUE, tools |-> Offers[s], fault |-> 0]
  BY <1>2, <1>4
<1>5. CASE o = [none EXCEPT !.fault = 1]
  BY <1>5
<1>6. CASE o = [up |-> TRUE, tools |-> {}, fault |-> 1]
  BY <1>6
<1> QED BY <1>1, <1>3, <1>4, <1>5, <1>6

\* Connect begins: a job with the tools the server listed, if it answered.
LEMMA BeginConnectEffect ==
    ASSUME Typing, NEW x \in Actors, NEW c \in Int, NEW s \in Servers, NEW k, BeginConnect(x, c, s, k)
    PROVE  /\ OnlyJob(x) /\ job'[x].conn = c /\ job'[x].cur = "none" /\ job'[x].left \subseteq Tools
           /\ job'[x].left # {} => job'[x].up
<1>1. PICK o \in Outcomes(s, k) :
         job' = [job EXCEPT ![x] = [conn |-> c, up |-> o.up, left |-> o.tools, cur |-> "none"]]
  BY DEF BeginConnect
<1>2. o.up \in BOOLEAN /\ o.tools \in SUBSET Tools /\ (o.tools # {} => o.up)
  BY OutcomeType
<1> DEFINE d == [conn |-> c, up |-> o.up, left |-> o.tools, cur |-> "none"]
<1>3. d \in JobType /\ d.conn = c /\ d.cur = "none" /\ d.left = o.tools /\ d.up = o.up
  BY <1>2 DEF JobType
<1>4. job' = [job EXCEPT ![x] = d] /\ job \in [Actors -> JobType]
  BY <1>1 DEF Typing, JobTyping
<1> HIDE DEF d
<1>5. OnlyJob(x) /\ job'[x] = d
  BY <1>3, <1>4 DEF OnlyJob
<1> QED BY <1>2, <1>3, <1>5

\* StartServerLocked makes no connection, or one more, of the server that is
\* starting, down and without tools, and its handler begins to connect it.
LEMMA StartEffect ==
    ASSUME Typing, NEW h \in Handlers, StartServerLocked(h)
    PROVE  LET s == starting[h]  c == Len(conns) + 1 IN
           /\ hpc[h] = "start" /\ s \in Servers
           /\ UNCHANGED <<factories, mcpToolNames, schemas, servers, mcpServers, broken, mutex, args, todo,
                          entries, diff, agentVars, workerVars>>
           /\ \/ /\ hpc' = [hpc EXCEPT ![h] = "loop"] /\ starting' = [starting EXCEPT ![h] = NoServer]
                 /\ UNCHANGED <<conns, job>>
                 /\ lastConfigs' = [lastConfigs EXCEPT ![s] = args[h][s]]
              \/ /\ hpc' = [hpc EXCEPT ![h] = "connect"] /\ UNCHANGED <<starting, lastConfigs>>
                 /\ conns' \in Seq(ConnType) /\ Len(conns') = c
                 /\ \A i \in 1 .. Len(conns) : conns'[i] = conns[i]
                 /\ conns'[c].server = s /\ conns'[c].connected = FALSE /\ conns'[c].tools = {}
                 /\ OnlyJob(h) /\ job'[h].conn = c /\ job'[h].cur = "none" /\ job'[h].left \subseteq Tools
                 /\ job'[h].left # {} => job'[h].up
<1> DEFINE s == starting[h]
           c == Len(conns) + 1
           k == args[h][s].kind
<1>0. /\ hpc[h] = "start"
      /\ UNCHANGED <<factories, mcpToolNames, schemas, servers, mcpServers, broken, mutex, args, todo,
                     entries, diff, agentVars, workerVars>>
      /\ \/ /\ k = "invalid" /\ hpc' = [hpc EXCEPT ![h] = "loop"]
            /\ starting' = [starting EXCEPT ![h] = NoServer]
            /\ UNCHANGED <<conns, job>>
            /\ lastConfigs' = [lastConfigs EXCEPT ![s] = args[h][s]]
         \/ /\ k # "invalid" /\ hpc' = [hpc EXCEPT ![h] = "connect"] /\ UNCHANGED <<starting, lastConfigs>>
            /\ conns' = Append(conns, [server |-> s, kind |-> k, connected |-> FALSE, tools |-> {}])
            /\ BeginConnect(h, c, s, k)
  BY DEF StartServerLocked
<1>1. /\ s \in Servers /\ args[h][s] \in Config /\ args[h][s] # Absent
      /\ conns \in Seq(ConnType) /\ h \in Actors /\ c \in Int
  BY <1>0, ActorsApart DEF Typing, HandlerTyping, ConnTyping
<1>2. CASE k # "invalid"
  <2> DEFINE d == [server |-> s, kind |-> k, connected |-> FALSE, tools |-> {}]
  <2>1. k \in {"http", "stdio"}
    BY <1>1, <1>2, McpAssumption DEF Config
  <2>2. d \in ConnType /\ d.server = s /\ d.tools = {} /\ d.connected = FALSE
    BY <1>1, <2>1 DEF ConnType
  <2>3. conns' = Append(conns, d)
    BY <1>0, <1>2
  <2> HIDE DEF d
  <2>4. conns' \in Seq(ConnType) /\ Len(conns') = c /\ conns'[c] = d
        /\ \A i \in 1 .. Len(conns) : conns'[i] = conns[i]
    BY <1>1, <2>2, <2>3
  <2>5. /\ OnlyJob(h) /\ job'[h].conn = c /\ job'[h].cur = "none" /\ job'[h].left \subseteq Tools
        /\ job'[h].left # {} => job'[h].up
    <3>1. BeginConnect(h, c, s, k)
      BY <1>0, <1>2
    <3> HIDE DEF s, c, k
    <3> QED BY <1>1, <3>1, BeginConnectEffect
  <2> QED BY <1>0, <1>1, <1>2, <2>2, <2>4, <2>5
<1>3. CASE k = "invalid"
  BY <1>0, <1>1, <1>3
<1> QED BY <1>2, <1>3

\* CallTool makes the call, or begins to connect the connection it finds down.
LEMMA CallEffect ==
    ASSUME Typing, CallTool
    PROVE  LET c == held.conn IN
           /\ wpc = "call" /\ c \in 1 .. Len(conns) /\ ~Locked(c)
           /\ UNCHANGED <<entries, conns, broken, factories, mcpToolNames, schemas, managerVars, handlerVars,
                          agentVars, revived>>
           /\ \/ wpc' = "idle" /\ held' = NoTool /\ UNCHANGED job
              \/ /\ wpc' = "connect" /\ UNCHANGED held /\ ~conns[c].connected
                 /\ OnlyJob(Worker) /\ job'[Worker].conn = c /\ job'[Worker].cur = "none"
                 /\ job'[Worker].left \subseteq Tools /\ (job'[Worker].left # {} => job'[Worker].up)
<1> DEFINE c == held.conn
<1>0. /\ wpc = "call" /\ ~Locked(c)
      /\ UNCHANGED <<entries, conns, broken, factories, mcpToolNames, schemas, managerVars, handlerVars,
                     agentVars, revived>>
      /\ \/ conns[c].connected /\ wpc' = "idle" /\ held' = NoTool /\ UNCHANGED job
         \/ /\ ~conns[c].connected /\ wpc' = "connect" /\ UNCHANGED held
            /\ BeginConnect(Worker, c, conns[c].server, conns[c].kind)
  BY DEF CallTool
<1>1. c \in 1 .. Len(conns) /\ conns \in Seq(ConnType) /\ c \in Int
  BY <1>0 DEF Typing, WorkerTyping, ConnTyping
<1>2. conns[c] \in ConnType
  BY <1>1
<1>3. conns[c].server \in Servers /\ Worker \in Actors
  BY <1>2, ActorsApart DEF ConnType
<1>4. CASE conns[c].connected
  BY <1>0, <1>1, <1>4
<1>5. CASE ~conns[c].connected
  <2>1. BeginConnect(Worker, c, conns[c].server, conns[c].kind)
    BY <1>0, <1>5
  <2> DEFINE s == conns[c].server
             k == conns[c].kind
  <2>2. BeginConnect(Worker, c, s, k) /\ s \in Servers
    BY <1>3, <2>1
  <2> HIDE DEF c, s, k
  <2>3. /\ OnlyJob(Worker) /\ job'[Worker].conn = c /\ job'[Worker].cur = "none"
        /\ job'[Worker].left \subseteq Tools /\ (job'[Worker].left # {} => job'[Worker].up)
    BY <1>1, <1>3, <2>2, BeginConnectEffect
  <2> QED BY <1>0, <1>1, <1>5, <2>3 DEF c
<1> QED BY <1>4, <1>5

\* A handler that is to stop a server with a connection takes its stateMutex_.
LEMMA BeginStopEffect ==
    ASSUME Typing, NEW h \in Handlers, NEW s \in Servers, NEW pc, servers[s] # 0, BeginStop(h, s, pc)
    PROVE  LET c == servers[s] IN
           /\ c \in 1 .. Len(conns) /\ ~Locked(c) /\ OnlyJob(h)
           /\ job'[h].conn = c /\ job'[h].cur = "none" /\ job'[h].left = conns[c].tools
           /\ starting' = [starting EXCEPT ![h] = s] /\ hpc' = [hpc EXCEPT ![h] = pc]
<1> DEFINE c == servers[s]
<1>1. c \in 1 .. Len(conns) /\ conns \in Seq(ConnType) /\ job \in [Actors -> JobType] /\ h \in Actors
  BY ActorsApart DEF Typing, ConnTyping, JobTyping
<1>2. conns[c] \in ConnType
  BY <1>1
<1> DEFINE d == [conn |-> c, up |-> FALSE, left |-> conns[c].tools, cur |-> "none"]
<1>3. d \in JobType /\ d.conn = c /\ d.cur = "none" /\ d.left = conns[c].tools
  <2>1. conns[c].tools \in SUBSET Tools
    BY <1>2 DEF ConnType
  <2>2. c \in Int
    BY <1>1
  <2> QED BY <2>1, <2>2 DEF JobType
<1>4. /\ ~Locked(c) /\ job' = [job EXCEPT ![h] = d]
      /\ starting' = [starting EXCEPT ![h] = s] /\ hpc' = [hpc EXCEPT ![h] = pc]
  BY DEF BeginStop
<1> HIDE DEF d
<1>5. OnlyJob(h) /\ job'[h] = d
  BY <1>1, <1>3, <1>4 DEF OnlyJob
<1> QED BY <1>1, <1>3, <1>4, <1>5

\* The steps that may begin a stop leave the connections, the registry and both
\* maps alone, and what they do to the handler.
LEMMA PickEffect ==
    ASSUME Typing, NEW h \in Handlers, StopMissing(h) \/ Apply(h) \/ Remove(h)
    PROVE  /\ UNCHANGED <<entries, conns, broken, factories, mcpToolNames, schemas, servers, mcpServers, args, diff,
                          agentVars, workerVars>>
           /\ todo' \in [Handlers -> SUBSET Servers]
           /\ \/ /\ hpc[h] = "loop" /\ UNCHANGED <<job, starting, hpc, mutex, lastConfigs>>
              \/ /\ hpc[h] = "loop" /\ UNCHANGED <<job, mutex, lastConfigs>>
                 /\ \E s \in Servers : /\ servers[s] = 0 /\ args[h][s] # Absent
                                       /\ starting' = [starting EXCEPT ![h] = s]
                                       /\ hpc' = [hpc EXCEPT ![h] = "start"]
              \/ /\ hpc[h] = "remove" /\ mutex = NoHandler /\ UNCHANGED <<job, mutex>>
                 /\ lastConfigs' = [lastConfigs EXCEPT ![starting[h]] = Absent]
                 /\ starting' = [starting EXCEPT ![h] = NoServer] /\ hpc' = [hpc EXCEPT ![h] = "sync"]
              \/ /\ \/ hpc[h] = "loop" /\ UNCHANGED mutex
                    \/ hpc[h] = "remove" /\ mutex = NoHandler /\ mutex' = h
                 /\ UNCHANGED lastConfigs
                 /\ \E s \in Servers, pc \in Stopping :
                      /\ servers[s] # 0 /\ BeginStop(h, s, pc)
                      /\ pc = "change" => args[h][s] # Absent
<1>0. HandlerTyping
  BY DEF Typing
<1>1. CASE StopMissing(h)
  <2>1. PICK s \in todo[h] :
           /\ todo' = [todo EXCEPT ![h] = @ \ {s}]
           /\ \/ servers[s] = 0 /\ UNCHANGED <<job, starting, hpc>>
              \/ servers[s] # 0 /\ BeginStop(h, s, "stop")
    BY <1>1 DEF StopMissing
  <2>2. s \in Servers /\ todo' \in [Handlers -> SUBSET Servers]
    BY <1>0, <2>1 DEF HandlerTyping
  <2> QED BY <1>1, <2>1, <2>2 DEF StopMissing
<1>2. CASE Apply(h)
  <2>1. PICK s \in todo[h] :
           /\ todo' = [todo EXCEPT ![h] = @ \ {s}]
           /\ \/ UNCHANGED <<job, starting, hpc>>
              \/ servers[s] # 0 /\ BeginStop(h, s, "change")
              \/ /\ servers[s] = 0 /\ starting' = [starting EXCEPT ![h] = s]
                 /\ hpc' = [hpc EXCEPT ![h] = "start"] /\ UNCHANGED job
    BY <1>2 DEF Apply
  <2>2. /\ hpc[h] = "loop" /\ args[h][s] # Absent
        /\ UNCHANGED <<entries, conns, broken, factories, mcpToolNames, schemas, servers, mcpServers, args, diff,
                       agentVars, workerVars, mutex, lastConfigs>>
    BY <1>2 DEF Apply
  <2>3. s \in Servers /\ todo' \in [Handlers -> SUBSET Servers]
    BY <1>0, <2>1 DEF HandlerTyping
  <2> QED BY <2>1, <2>2, <2>3
<1>3. CASE Remove(h)
  <2>1. hpc[h] = "remove" /\ mutex = NoHandler /\ UNCHANGED todo /\ starting[h] \in Servers
    BY <1>0, <1>3 DEF Remove, HandlerTyping
  <2> QED BY <1>0, <1>3, <2>1 DEF Remove, HandlerTyping
<1> QED BY <1>1, <1>2, <1>3

\* The steps outside Connect and Disconnect.
Plain ==
    \/ \E h \in Handlers : \/ EditServers(h) \/ ToFrameworkConfigs(h) \/ Load(h) \/ LoadReturns(h)
                           \/ SyncDiff(h) \/ SyncMerge(h)
    \/ \E t \in Tools : BuildToolSchemas(t) \/ CreateTool(t)
    \/ StoreSchema \/ InvokeTool

\* They leave the connections, the jobs, the factories and both maps alone.
LEMMA PlainEffect ==
    ASSUME Plain
    PROVE  /\ UNCHANGED <<conns, job, broken, factories, mcpToolNames, servers, mcpServers, revived>>
           /\ StoreSchema \/ UNCHANGED schemas
<1>1. ASSUME NEW h \in Handlers,
             \/ EditServers(h) \/ ToFrameworkConfigs(h) \/ Load(h) \/ LoadReturns(h)
             \/ SyncDiff(h) \/ SyncMerge(h)
      PROVE  UNCHANGED <<conns, job, broken, factories, mcpToolNames, servers, mcpServers, revived, schemas>>
  BY <1>1 DEF EditServers, ToFrameworkConfigs, Load, LoadReturns, SyncDiff, SyncMerge
<1>2. ASSUME NEW t \in Tools, BuildToolSchemas(t) \/ CreateTool(t)
      PROVE  UNCHANGED <<conns, job, broken, factories, mcpToolNames, servers, mcpServers, revived, schemas>>
  BY <1>2 DEF BuildToolSchemas, CreateTool
<1>3. CASE InvokeTool
  BY <1>3 DEF InvokeTool
<1>4. CASE StoreSchema
  BY <1>4 DEF StoreSchema
<1> QED BY <1>1, <1>2, <1>3, <1>4 DEF Plain

\* Every step is one of these kinds.
LEMMA Steps ==
    ASSUME Step
    PROVE  \/ Plain
           \/ \E h \in Handlers :
                \/ StopMissing(h) \/ Apply(h) \/ Remove(h) \/ StartServerLocked(h) \/ ServerStarted(h)
                \/ LoadThrows(h) \/ UnregisterTools(h) \/ StopServerLocked(h)
           \/ \E x \in Actors : DiscoverTool(x) \/ NoteToolName(x)
           \/ CallTool \/ Reconnected \/ CallThrows
BY DEF Step, Plain

-----------------------------------------------------------------------------
(* Type correctness.                                                       *)

\* The entries and the remembered configurations stay configurations.
LEMMA ConfigTypingStep ==
    ASSUME Typing, Step
    PROVE  ConfigTyping'
<1> USE DEF Typing, ConfigTyping
<1>1. ASSUME Plain PROVE ConfigTyping'
  <2>1. ASSUME NEW h \in Handlers, EditServers(h) PROVE ConfigTyping'
    BY <2>1 DEF EditServers, SetServer, Config
  <2>2. \/ \E h \in Handlers : EditServers(h)
        \/ UNCHANGED <<entries, lastConfigs>>
    BY <1>1 DEF Plain, ToFrameworkConfigs, Load, LoadReturns, SyncDiff, SyncMerge, BuildToolSchemas,
                CreateTool, StoreSchema, InvokeTool
  <2> QED BY <2>1, <2>2
<1>2. ASSUME NEW h \in Handlers, StopMissing(h) \/ Apply(h) \/ Remove(h) PROVE ConfigTyping'
  <2>1. UNCHANGED entries
    BY <1>2 DEF StopMissing, Apply, Remove
  <2>2. \/ UNCHANGED lastConfigs
        \/ lastConfigs' = [lastConfigs EXCEPT ![starting[h]] = Absent]
    BY <1>2, PickEffect
  <2> QED BY <2>1, <2>2 DEF Config
<1>3. ASSUME NEW h \in Handlers, StartServerLocked(h) PROVE ConfigTyping'
  <2>1. starting[h] \in Servers /\ args[h][starting[h]] \in Config
    <3>1. hpc[h] = "start"
      BY <1>3 DEF StartServerLocked
    <3> QED BY <3>1 DEF HandlerTyping
  <2>2. UNCHANGED entries
    BY <1>3 DEF StartServerLocked
  <2>3. \/ UNCHANGED lastConfigs
        \/ lastConfigs' = [lastConfigs EXCEPT ![starting[h]] = args[h][starting[h]]]
    BY <1>3 DEF StartServerLocked
  <2> QED BY <2>1, <2>2, <2>3
<1>4. ASSUME NEW h \in Handlers, ServerStarted(h) PROVE ConfigTyping'
  <2>1. hpc[h] = "connect" /\ UNCHANGED entries
        /\ lastConfigs' = [lastConfigs EXCEPT ![starting[h]] = args[h][starting[h]]]
    BY <1>4, ActorsApart DEF ServerStarted, EndConnect
  <2>2. starting[h] \in Servers /\ args[h][starting[h]] \in Config
    BY <2>1 DEF HandlerTyping
  <2> QED BY <2>1, <2>2
<1>5. ASSUME NEW h \in Handlers, StopServerLocked(h) PROVE ConfigTyping'
  <2>1. UNCHANGED entries
        /\ (UNCHANGED lastConfigs \/ lastConfigs' = [lastConfigs EXCEPT ![starting[h]] = Absent])
    BY <1>5 DEF StopServerLocked
  <2> QED BY <2>1 DEF Config
<1>6. ASSUME NEW h \in Handlers, LoadThrows(h) \/ UnregisterTools(h) PROVE ConfigTyping'
  BY <1>6 DEF LoadThrows, UnregisterTools
<1>7. ASSUME NEW x \in Actors, DiscoverTool(x) \/ NoteToolName(x) PROVE ConfigTyping'
  BY <1>7 DEF DiscoverTool, NoteToolName
<1>8. CASE CallTool \/ Reconnected \/ CallThrows
  BY <1>8 DEF CallTool, Reconnected, CallThrows
<1> QED BY <1>1, <1>2, <1>3, <1>4, <1>5, <1>6, <1>7, <1>8, Steps

\* The handlers stay well typed, and the manager's mutex excludes them from each
\* other.
LEMMA HandlerTypingStep ==
    ASSUME Typing, Step
    PROVE  HandlerTyping'
<1> USE McpAssumption DEF HandlerTyping, Places, InManager
<1>0. HandlerTyping
  BY DEF Typing
<1>1. ASSUME NEW h \in Handlers, EditServers(h) PROVE HandlerTyping'
  <2>1. hpc[h] = "idle" /\ UNCHANGED <<mutex, args, todo>>
    BY <1>1 DEF EditServers
  <2>2. PICK s \in Servers :
           \/ hpc' = [hpc EXCEPT ![h] = "convert"] /\ UNCHANGED starting
           \/ hpc' = [hpc EXCEPT ![h] = "remove"] /\ starting' = [starting EXCEPT ![h] = s]
    BY <1>1 DEF EditServers
  <2>3. CASE hpc' = [hpc EXCEPT ![h] = "convert"] /\ UNCHANGED starting
    BY <1>0, <2>1, <2>3
  <2>4. CASE hpc' = [hpc EXCEPT ![h] = "remove"] /\ starting' = [starting EXCEPT ![h] = s]
    BY <1>0, <2>1, <2>4
  <2> QED BY <2>2, <2>3, <2>4
<1>2. ASSUME NEW h \in Handlers, ToFrameworkConfigs(h) PROVE HandlerTyping'
  <2> DEFINE a == [s \in Servers |-> IF entries[s].enabled THEN entries[s] ELSE Absent]
  <2>1. a \in [Servers -> Config]
    BY DEF Typing, ConfigTyping, Config
  <2>2. /\ hpc[h] = "convert" /\ hpc' = [hpc EXCEPT ![h] = "load"] /\ args' = [args EXCEPT ![h] = a]
        /\ UNCHANGED <<mutex, todo, starting>>
    BY <1>2 DEF ToFrameworkConfigs
  <2> HIDE DEF a
  <2> QED BY <1>0, <2>1, <2>2
<1>3. ASSUME NEW h \in Handlers, Load(h) PROVE HandlerTyping'
  BY <1>0, <1>3 DEF Load
<1>4. ASSUME NEW h \in Handlers, LoadReturns(h) PROVE HandlerTyping'
  BY <1>0, <1>4 DEF LoadReturns, Config
<1>5. ASSUME NEW h \in Handlers, SyncDiff(h) \/ SyncMerge(h) PROVE HandlerTyping'
  BY <1>0, <1>5 DEF SyncDiff, SyncMerge
<1>6. ASSUME UNCHANGED <<mutex, hpc, args, todo, starting>> PROVE HandlerTyping'
  BY <1>0, <1>6
<1>7. ASSUME NEW h \in Handlers, StopMissing(h) \/ Apply(h) \/ Remove(h) PROVE HandlerTyping'
  <2>0. UNCHANGED args /\ todo' \in [Handlers -> SUBSET Servers]
    BY <1>7, PickEffect
  <2>1. CASE UNCHANGED <<starting, hpc, mutex>>
    BY <1>0, <2>0, <2>1
  <2>2. CASE /\ hpc[h] = "loop" /\ UNCHANGED mutex
             /\ \E s \in Servers : /\ args[h][s] # Absent /\ starting' = [starting EXCEPT ![h] = s]
                                   /\ hpc' = [hpc EXCEPT ![h] = "start"]
    BY <1>0, <2>0, <2>2
  <2>3. CASE /\ hpc[h] = "remove" /\ UNCHANGED mutex
             /\ starting' = [starting EXCEPT ![h] = NoServer] /\ hpc' = [hpc EXCEPT ![h] = "sync"]
    BY <1>0, <2>0, <2>3
  <2>4. ASSUME NEW s \in Servers, NEW pc \in Stopping,
               hpc' = [hpc EXCEPT ![h] = pc], starting' = [starting EXCEPT ![h] = s],
               pc = "change" => args[h][s] # Absent,
               \/ hpc[h] = "loop" /\ UNCHANGED mutex
               \/ hpc[h] = "remove" /\ mutex = NoHandler /\ mutex' = h
        PROVE  HandlerTyping'
    BY <1>0, <2>0, <2>4
  <2>5. ASSUME NEW s \in Servers, NEW pc \in Stopping, BeginStop(h, s, pc)
        PROVE  hpc' = [hpc EXCEPT ![h] = pc] /\ starting' = [starting EXCEPT ![h] = s]
    BY <2>5 DEF BeginStop
  <2> HIDE DEF HandlerTyping, Places, InManager
  <2> QED BY <1>7, <2>1, <2>2, <2>3, <2>4, <2>5, PickEffect
<1>8. ASSUME NEW h \in Handlers, StartServerLocked(h) PROVE HandlerTyping'
  <2>1. hpc[h] = "start" /\ starting[h] \in Servers /\ UNCHANGED <<mutex, args, todo>>
    BY <1>8, StartEffect
  <2>2. \/ hpc' = [hpc EXCEPT ![h] = "loop"] /\ starting' = [starting EXCEPT ![h] = NoServer]
        \/ hpc' = [hpc EXCEPT ![h] = "connect"] /\ UNCHANGED starting
    BY <1>8, StartEffect
  <2>3. CASE hpc' = [hpc EXCEPT ![h] = "loop"] /\ starting' = [starting EXCEPT ![h] = NoServer]
    BY <1>0, <2>1, <2>3
  <2>4. CASE hpc' = [hpc EXCEPT ![h] = "connect"] /\ UNCHANGED starting
    BY <1>0, <2>1, <2>4
  <2> QED BY <2>2, <2>3, <2>4
<1>9. ASSUME NEW h \in Handlers, ServerStarted(h) PROVE HandlerTyping'
  <2>1. /\ hpc[h] = "connect" /\ hpc' = [hpc EXCEPT ![h] = "loop"]
        /\ starting' = [starting EXCEPT ![h] = NoServer] /\ UNCHANGED <<mutex, args, todo>>
    BY <1>9, ActorsApart DEF ServerStarted, EndConnect
  <2> QED BY <1>0, <2>1
<1>10. ASSUME NEW h \in Handlers, LoadThrows(h) PROVE HandlerTyping'
  <2>1. /\ hpc[h] = "connect" /\ hpc' = [hpc EXCEPT ![h] = "idle"] /\ mutex' = NoHandler
        /\ starting' = [starting EXCEPT ![h] = NoServer] /\ todo' = [todo EXCEPT ![h] = {}]
        /\ args' = [args EXCEPT ![h] = [s \in Servers |-> Absent]]
    BY <1>10, ActorsApart DEF LoadThrows, ConnectThrows
  <2> QED BY <1>0, <2>1 DEF Config
<1>11. ASSUME NEW h \in Handlers, StopServerLocked(h) PROVE HandlerTyping'
  <2>1. hpc[h] \in Stopping /\ starting[h] \in Servers /\ UNCHANGED <<args, todo>>
    BY <1>11, StopEffect
  <2>2. \/ /\ hpc[h] = "stop" /\ hpc' = [hpc EXCEPT ![h] = "loop"]
           /\ starting' = [starting EXCEPT ![h] = NoServer] /\ UNCHANGED mutex
        \/ /\ hpc[h] = "change" /\ hpc' = [hpc EXCEPT ![h] = "start"] /\ UNCHANGED <<starting, mutex>>
        \/ /\ hpc[h] = "removing" /\ hpc' = [hpc EXCEPT ![h] = "sync"]
           /\ starting' = [starting EXCEPT ![h] = NoServer] /\ mutex' = NoHandler
    BY <1>0, <1>11 DEF StopServerLocked
  <2>3. CASE /\ hpc[h] = "stop" /\ hpc' = [hpc EXCEPT ![h] = "loop"]
             /\ starting' = [starting EXCEPT ![h] = NoServer] /\ UNCHANGED mutex
    BY <1>0, <2>1, <2>3
  <2>4. CASE hpc[h] = "change" /\ hpc' = [hpc EXCEPT ![h] = "start"] /\ UNCHANGED <<starting, mutex>>
    BY <1>0, <2>1, <2>4
  <2>5. CASE /\ hpc[h] = "removing" /\ hpc' = [hpc EXCEPT ![h] = "sync"]
             /\ starting' = [starting EXCEPT ![h] = NoServer] /\ mutex' = NoHandler
    BY <1>0, <2>1, <2>5
  <2> QED BY <2>2, <2>3, <2>4, <2>5
<1>12. Plain => HandlerTyping'
  <2>1. Plain => \/ \E h \in Handlers : \/ EditServers(h) \/ ToFrameworkConfigs(h) \/ Load(h) \/ LoadReturns(h)
                                        \/ SyncDiff(h) \/ SyncMerge(h)
                 \/ UNCHANGED <<mutex, hpc, args, todo, starting>>
    BY DEF Plain, BuildToolSchemas, CreateTool, StoreSchema, InvokeTool
  <2> QED BY <1>1, <1>2, <1>3, <1>4, <1>5, <1>6, <2>1
<1>13. ASSUME NEW h \in Handlers, UnregisterTools(h) PROVE HandlerTyping'
  BY <1>6, <1>13, UnregisterEffect
<1>14. ASSUME NEW x \in Actors, DiscoverTool(x) \/ NoteToolName(x) PROVE HandlerTyping'
  BY <1>6, <1>14, DiscoverEffect, NoteEffect
<1>15. CASE CallTool \/ Reconnected \/ CallThrows
  BY <1>6, <1>15 DEF CallTool, Reconnected, CallThrows
<1> QED BY <1>7, <1>8, <1>9, <1>10, <1>11, <1>12, <1>13, <1>14, <1>15, Steps

\* Numbers of connections stay numbers of connections: none is ever dropped.
LEMMA ConnTypingStep ==
    ASSUME Typing, Step
    PROVE  ConnTyping' /\ Len(conns') >= Len(conns)
<1>0. ConnTyping /\ Len(conns) \in Nat
  BY DEF Typing, ConnTyping
<1>1. ASSUME Plain PROVE ConnTyping' /\ Len(conns') >= Len(conns)
  <2>1. UNCHANGED <<conns, broken, factories, mcpToolNames, servers, mcpServers>>
        /\ (StoreSchema \/ UNCHANGED schemas)
    BY <1>1, PlainEffect
  <2>2. CASE StoreSchema
    <3>1. held.tool \in Tools /\ held.conn \in {Builtin} \cup ConnIds
      BY <2>2 DEF StoreSchema, Typing, WorkerTyping
    <3>2. schemas' = [schemas EXCEPT ![held.tool] = held.conn]
      BY <2>2 DEF StoreSchema
    <3> QED BY <1>0, <2>1, <3>1, <3>2 DEF ConnTyping
  <2>3. CASE UNCHANGED schemas
    BY <1>0, <2>1, <2>3 DEF ConnTyping
  <2> QED BY <2>1, <2>2, <2>3
<1>2. ASSUME NEW h \in Handlers, StopMissing(h) \/ Apply(h) \/ Remove(h)
      PROVE  ConnTyping' /\ Len(conns') >= Len(conns)
  <2>1. UNCHANGED <<conns, broken, factories, mcpToolNames, schemas, servers, mcpServers>>
    BY <1>2, PickEffect
  <2> QED BY <1>0, <2>1 DEF ConnTyping
<1>3. ASSUME NEW h \in Handlers, StartServerLocked(h) PROVE ConnTyping' /\ Len(conns') >= Len(conns)
  <2>1. UNCHANGED <<broken, factories, mcpToolNames, schemas, servers, mcpServers>>
    BY <1>3, StartEffect
  <2>2. conns' \in Seq(ConnType) /\ Len(conns') \in {Len(conns), Len(conns) + 1}
    BY <1>0, <1>3, StartEffect DEF ConnTyping
  <2> QED BY <1>0, <2>1, <2>2 DEF ConnTyping
<1>4. ASSUME NEW x \in Actors, EndConnect(x), UNCHANGED <<broken, factories, mcpToolNames, schemas>>,
             servers' \in [Servers -> ConnIds], mcpServers' \in [Servers -> ConnIds]
      PROVE  ConnTyping' /\ Len(conns') >= Len(conns)
  <2>1. conns' \in Seq(ConnType) /\ Len(conns') = Len(conns)
    BY <1>4, EndEffect DEF OnlyConn
  <2> QED BY <1>0, <1>4, <2>1 DEF ConnTyping
<1>5. ASSUME NEW h \in Handlers, ServerStarted(h) PROVE ConnTyping' /\ Len(conns') >= Len(conns)
  <2>1. /\ EndConnect(h) /\ UNCHANGED <<broken, factories, mcpToolNames, schemas>>
        /\ servers' = [servers EXCEPT ![starting[h]] = job[h].conn]
        /\ mcpServers' = [mcpServers EXCEPT ![starting[h]] = job[h].conn]
    BY <1>5 DEF ServerStarted
  <2>2. job[h].conn \in 1 .. Len(conns) /\ h \in Actors /\ starting[h] \in Servers
    BY <2>1, EndEffect, ActorsApart DEF Typing, HandlerTyping
  <2>3. servers' \in [Servers -> ConnIds] /\ mcpServers' \in [Servers -> ConnIds]
    BY <1>0, <2>1, <2>2 DEF ConnTyping
  <2> QED BY <1>4, <2>1, <2>2, <2>3
<1>6. ASSUME NEW x \in Actors, ConnectThrows(x), UNCHANGED <<servers, mcpServers, factories, mcpToolNames, schemas>>
      PROVE  ConnTyping' /\ Len(conns') >= Len(conns)
  <2>1. conns' \in Seq(ConnType) /\ Len(conns') = Len(conns) /\ broken' \subseteq 1 .. Len(conns)
    BY <1>0, <1>6, ThrowEffect DEF OnlyConn, ConnTyping
  <2> QED BY <1>0, <1>6, <2>1 DEF ConnTyping
<1>7. ASSUME NEW h \in Handlers, UnregisterTools(h) PROVE ConnTyping' /\ Len(conns') >= Len(conns)
  <2>1. UNCHANGED <<conns, broken, servers, mcpServers>> /\ \E t \in Tools : UnregisterMcpTool(t)
    BY <1>7, UnregisterEffect
  <2> QED BY <1>0, <2>1 DEF ConnTyping, UnregisterMcpTool
<1>8. ASSUME NEW h \in Handlers, StopServerLocked(h) PROVE ConnTyping' /\ Len(conns') >= Len(conns)
  <2>1. /\ conns' \in Seq(ConnType) /\ Len(conns') = Len(conns)
        /\ UNCHANGED <<broken, factories, mcpToolNames, schemas>>
        /\ servers' = [servers EXCEPT ![starting[h]] = 0] /\ mcpServers' = [mcpServers EXCEPT ![starting[h]] = 0]
        /\ starting[h] \in Servers
    BY <1>8, StopEffect DEF OnlyConn
  <2>2. servers' \in [Servers -> ConnIds] /\ mcpServers' \in [Servers -> ConnIds]
    BY <1>0, <2>1 DEF ConnTyping
  <2> QED BY <1>0, <2>1, <2>2 DEF ConnTyping
<1>9. ASSUME NEW x \in Actors, DiscoverTool(x) PROVE ConnTyping' /\ Len(conns') >= Len(conns)
  <2> DEFINE c == job[x].conn
  <2>1. /\ c \in 1 .. Len(conns) /\ conns' \in Seq(ConnType) /\ Len(conns') = Len(conns)
        /\ UNCHANGED <<broken, servers, mcpServers>> /\ \E t \in Tools : RegisterTool(t, c)
    BY <1>9, DiscoverEffect DEF OnlyConn
  <2> HIDE DEF c
  <2>2. /\ factories' \in [Tools -> {-1} \cup 0 .. Len(conns)] /\ schemas' \in [Tools -> {-1} \cup 0 .. Len(conns)]
        /\ UNCHANGED mcpToolNames
    BY <1>0, <2>1 DEF ConnTyping, RegisterTool
  <2> QED BY <1>0, <2>1, <2>2 DEF ConnTyping
<1>10. ASSUME NEW x \in Actors, NoteToolName(x) PROVE ConnTyping' /\ Len(conns') >= Len(conns)
  <2>1. UNCHANGED <<conns, broken, servers, mcpServers, factories, schemas>> /\ mcpToolNames' \subseteq Tools
    BY <1>0, <1>10, NoteEffect DEF ConnTyping
  <2> QED BY <1>0, <2>1 DEF ConnTyping
<1>11. CASE CallTool
  <2>1. UNCHANGED <<conns, broken, servers, mcpServers, factories, schemas, mcpToolNames>>
    BY <1>11 DEF CallTool
  <2> QED BY <1>0, <2>1 DEF ConnTyping
<1>12. CASE Reconnected
  <2>1. EndConnect(Worker) /\ UNCHANGED <<broken, factories, mcpToolNames, schemas, servers, mcpServers>>
    BY <1>12 DEF Reconnected
  <2>2. servers' \in [Servers -> ConnIds] /\ mcpServers' \in [Servers -> ConnIds] /\ Worker \in Actors
    BY <1>0, <2>1, ActorsApart DEF ConnTyping
  <2> QED BY <1>4, <2>1, <2>2
<1>13. CASE CallThrows
  <2>1. ConnectThrows(Worker) /\ UNCHANGED <<servers, mcpServers, factories, mcpToolNames, schemas>>
    BY <1>13 DEF CallThrows
  <2> QED BY <1>6, <2>1, ActorsApart
<1>14. ASSUME NEW h \in Handlers, LoadThrows(h) PROVE ConnTyping' /\ Len(conns') >= Len(conns)
  <2>1. ConnectThrows(h) /\ UNCHANGED <<servers, mcpServers, factories, mcpToolNames, schemas>>
    BY <1>14 DEF LoadThrows
  <2> QED BY <1>6, <2>1, ActorsApart
<1> QED BY <1>1, <1>2, <1>3, <1>5, <1>7, <1>8, <1>9, <1>10, <1>11, <1>12, <1>13, <1>14, Steps

\* A thread holds a stateMutex_ exactly while it is inside Connect or Disconnect,
\* and the connection exists.
LEMMA JobTypingStep ==
    ASSUME Typing, Step
    PROVE  JobTyping'
<1>0. /\ JobTyping /\ HandlerTyping /\ WorkerTyping /\ Len(conns) \in Nat /\ Len(conns') \in Nat
      /\ Len(conns') >= Len(conns)
  BY ConnTypingStep DEF Typing, ConnTyping
<1> DEFINE Inside == {"connect"} \cup Stopping
<1>1. ASSUME UNCHANGED job,
             \A h \in Handlers : hpc'[h] \in Inside <=> hpc[h] \in Inside,
             wpc' = "connect" <=> wpc = "connect"
      PROVE  JobTyping'
  BY <1>0, <1>1 DEF JobTyping
<1>2. ASSUME NEW h \in Handlers, OnlyJob(h), job'[h].conn \in 0 .. Len(conns'),
             job'[h].conn # 0 <=> hpc'[h] \in Inside, job'[h].conn = 0 => job'[h].cur = "none",
             \A k \in Handlers : k # h => hpc'[k] = hpc[k], UNCHANGED wpc
      PROVE  JobTyping'
  BY <1>0, <1>2, ActorsApart DEF JobTyping, OnlyJob
<1>3. ASSUME OnlyJob(Worker), job'[Worker].conn \in 0 .. Len(conns'),
             job'[Worker].conn # 0 <=> wpc' = "connect", job'[Worker].conn = 0 => job'[Worker].cur = "none",
             UNCHANGED hpc
      PROVE  JobTyping'
  BY <1>0, <1>3, ActorsApart DEF JobTyping, OnlyJob
<1>4. ASSUME Plain PROVE JobTyping'
  <2>1. UNCHANGED job
    BY <1>4, PlainEffect
  <2>2. ASSUME NEW h \in Handlers,
               \/ EditServers(h) \/ ToFrameworkConfigs(h) \/ Load(h) \/ LoadReturns(h)
               \/ SyncDiff(h) \/ SyncMerge(h)
        PROVE  UNCHANGED wpc /\ \A k \in Handlers : hpc'[k] \in Inside <=> hpc[k] \in Inside
    BY <1>0, <2>2 DEF EditServers, ToFrameworkConfigs, Load, LoadReturns, SyncDiff, SyncMerge, HandlerTyping
  <2>3. \/ \E h \in Handlers : \/ EditServers(h) \/ ToFrameworkConfigs(h) \/ Load(h) \/ LoadReturns(h)
                               \/ SyncDiff(h) \/ SyncMerge(h)
        \/ UNCHANGED hpc /\ (wpc' = "connect" <=> wpc = "connect")
    BY <1>4 DEF Plain, BuildToolSchemas, CreateTool, StoreSchema, InvokeTool
  <2> QED BY <1>1, <2>1, <2>2, <2>3
<1>5. ASSUME NEW h \in Handlers, StopMissing(h) \/ Apply(h) \/ Remove(h) PROVE JobTyping'
  <2>0. UNCHANGED <<conns, wpc>>
    BY <1>5, PickEffect
  <2>1. CASE /\ UNCHANGED job /\ hpc[h] \in {"loop", "remove"}
             /\ UNCHANGED hpc \/ hpc' = [hpc EXCEPT ![h] = "start"] \/ hpc' = [hpc EXCEPT ![h] = "sync"]
    BY <1>0, <1>1, <2>0, <2>1 DEF HandlerTyping
  <2>2. ASSUME NEW s \in Servers, NEW pc \in Stopping, servers[s] # 0, BeginStop(h, s, pc)
        PROVE  JobTyping'
    <3>1. /\ OnlyJob(h) /\ job'[h].conn \in 1 .. Len(conns) /\ hpc' = [hpc EXCEPT ![h] = pc]
      BY <2>2, BeginStopEffect
    <3>2. hpc'[h] = pc /\ \A k \in Handlers : k # h => hpc'[k] = hpc[k]
      BY <1>0, <3>1 DEF HandlerTyping
    <3> QED BY <1>0, <1>2, <2>0, <3>1, <3>2
  <2> QED BY <1>5, <2>1, <2>2, PickEffect
<1>6. ASSUME NEW h \in Handlers, StartServerLocked(h) PROVE JobTyping'
  <2>1. hpc[h] = "start" /\ UNCHANGED wpc
    BY <1>6, StartEffect
  <2>2. CASE hpc' = [hpc EXCEPT ![h] = "loop"] /\ UNCHANGED job
    BY <1>0, <1>1, <2>1, <2>2 DEF HandlerTyping
  <2>3. CASE /\ hpc' = [hpc EXCEPT ![h] = "connect"] /\ OnlyJob(h) /\ job'[h].conn = Len(conns')
             /\ Len(conns') = Len(conns) + 1
    <3>1. hpc'[h] = "connect" /\ \A k \in Handlers : k # h => hpc'[k] = hpc[k]
      BY <1>0, <2>3 DEF HandlerTyping
    <3> QED BY <1>0, <1>2, <2>1, <2>3, <3>1
  <2> QED BY <1>6, <2>2, <2>3, StartEffect
<1>7. ASSUME NEW h \in Handlers, ServerStarted(h) \/ LoadThrows(h) \/ StopServerLocked(h) PROVE JobTyping'
  <2>1. OnlyJob(h) /\ job'[h].conn = 0 /\ job'[h].cur = "none"
    <3>1. CASE ServerStarted(h)
      BY <3>1, EndEffect, ActorsApart DEF ServerStarted
    <3>2. CASE LoadThrows(h)
      BY <3>2, ThrowEffect, ActorsApart DEF LoadThrows
    <3>3. CASE StopServerLocked(h)
      BY <3>3, StopEffect
    <3> QED BY <1>7, <3>1, <3>2, <3>3
  <2>2. /\ UNCHANGED wpc
        /\ \E pc \in {"loop", "start", "sync", "idle"} : hpc' = [hpc EXCEPT ![h] = pc]
    <3>1. CASE ServerStarted(h) \/ LoadThrows(h)
      BY <3>1 DEF ServerStarted, LoadThrows
    <3>2. CASE StopServerLocked(h)
      BY <3>2 DEF StopServerLocked
    <3> QED BY <1>7, <3>1, <3>2
  <2>3. hpc'[h] \notin Inside /\ \A k \in Handlers : k # h => hpc'[k] = hpc[k]
    BY <1>0, <2>2 DEF HandlerTyping
  <2> QED BY <1>0, <1>2, <2>1, <2>2, <2>3
<1>8. ASSUME NEW h \in Handlers, UnregisterTools(h) PROVE JobTyping'
  <2>1. OnlyJob(h) /\ job'[h].conn = job[h].conn /\ UNCHANGED <<hpc, wpc, conns>>
    BY <1>8, UnregisterEffect
  <2>2. job[h].conn \in 0 .. Len(conns) /\ job[h].conn # 0 /\ hpc[h] \in Inside
    BY <1>0, <1>8, ActorsApart, UnregisterEffect DEF JobTyping
  <2> QED BY <1>2, <2>1, <2>2
<1>9. ASSUME NEW x \in Actors, DiscoverTool(x) \/ NoteToolName(x) PROVE JobTyping'
  <2>1. /\ OnlyJob(x) /\ job'[x].conn = job[x].conn /\ UNCHANGED <<hpc, wpc>>
        /\ Len(conns') = Len(conns)
    BY <1>9, DiscoverEffect, NoteEffect DEF OnlyConn
  <2>2. job[x].conn \in 0 .. Len(conns) /\ job[x].conn # 0
    BY <1>0, <1>9, ConnectingJob DEF DiscoverTool, NoteToolName, JobTyping
  <2>3. CASE x = Worker
    BY <1>0, <1>3, <2>1, <2>2, <2>3 DEF JobTyping
  <2>4. CASE x # Worker
    <3>1. x \in Handlers
      BY <2>4, ActorsApart
    <3> QED BY <1>0, <1>2, <2>1, <2>2, <3>1 DEF JobTyping
  <2> QED BY <2>3, <2>4
<1>10. CASE CallTool
  <2>1. UNCHANGED <<hpc, conns>> /\ wpc = "call" /\ held.conn \in 1 .. Len(conns)
    BY <1>10, CallEffect
  <2>2. CASE wpc' = "idle" /\ UNCHANGED job
    BY <1>1, <2>1, <2>2
  <2>3. CASE wpc' = "connect" /\ OnlyJob(Worker) /\ job'[Worker].conn = held.conn
    BY <1>0, <1>3, <2>1, <2>3
  <2> QED BY <1>10, <2>2, <2>3, CallEffect
<1>11. CASE Reconnected \/ CallThrows
  <2>1. OnlyJob(Worker) /\ job'[Worker].conn = 0 /\ job'[Worker].cur = "none"
    BY <1>11, EndEffect, ThrowEffect, ActorsApart DEF Reconnected, CallThrows
  <2>2. UNCHANGED hpc /\ wpc' = "idle"
    BY <1>11 DEF Reconnected, CallThrows
  <2> QED BY <1>0, <1>3, <2>1, <2>2
<1> QED BY <1>4, <1>5, <1>6, <1>7, <1>8, <1>9, <1>10, <1>11, Steps

\* The Agent's tool lists and the pending differences are sets of tools.
LEMMA AgentTypingStep ==
    ASSUME Typing, Step
    PROVE  AgentTyping'
<1> USE DEF Typing, AgentTyping, Diffs
<1>1. ASSUME NEW h \in Handlers, SyncDiff(h) PROVE AgentTyping'
  BY <1>1 DEF SyncDiff, ConnTyping
<1>2. ASSUME NEW h \in Handlers, SyncMerge(h) PROVE AgentTyping'
  BY <1>2 DEF SyncMerge
<1>3. CASE UNCHANGED <<toolNames, ownedMcpTools, diff>>
  BY <1>3
<1>4. \/ \E h \in Handlers : SyncDiff(h) \/ SyncMerge(h)
      \/ UNCHANGED <<toolNames, ownedMcpTools, diff>>
  <2>1. Plain => \/ \E h \in Handlers : SyncDiff(h) \/ SyncMerge(h)
                 \/ UNCHANGED <<toolNames, ownedMcpTools, diff>>
    BY DEF Plain, EditServers, ToFrameworkConfigs, Load, LoadReturns, BuildToolSchemas, CreateTool, StoreSchema,
           InvokeTool
  <2>2. ASSUME NEW h \in Handlers, StopMissing(h) \/ Apply(h) \/ Remove(h)
        PROVE  UNCHANGED <<toolNames, ownedMcpTools, diff>>
    BY <2>2 DEF StopMissing, Apply, Remove
  <2>3. ASSUME NEW h \in Handlers, \/ StartServerLocked(h) \/ ServerStarted(h) \/ LoadThrows(h)
                                   \/ UnregisterTools(h) \/ StopServerLocked(h)
        PROVE  UNCHANGED <<toolNames, ownedMcpTools, diff>>
    BY <2>3 DEF StartServerLocked, ServerStarted, LoadThrows, UnregisterTools, StopServerLocked
  <2>4. ASSUME NEW x \in Actors, DiscoverTool(x) \/ NoteToolName(x)
        PROVE  UNCHANGED <<toolNames, ownedMcpTools, diff>>
    BY <2>4 DEF DiscoverTool, NoteToolName
  <2>5. CASE CallTool \/ Reconnected \/ CallThrows
    BY <2>5 DEF CallTool, Reconnected, CallThrows
  <2> QED BY <2>1, <2>2, <2>3, <2>4, <2>5, Steps
<1> QED BY <1>1, <1>2, <1>3, <1>4

\* What the worker holds stays valid while the connections change under it.
LEMMA WorkerTypingStep ==
    ASSUME Typing, Step
    PROVE  WorkerTyping'
<1>0. /\ ConnTyping /\ WorkerTyping /\ Len(conns) \in Nat
      /\ Len(conns') >= Len(conns) /\ Len(conns') \in Nat
  BY ConnTypingStep DEF Typing, ConnTyping
<1>1. ASSUME NEW t \in Tools, BuildToolSchemas(t) \/ CreateTool(t) PROVE WorkerTyping'
  <2>1. /\ wpc' = "probe" \/ (wpc' = "tool" /\ factories[t] > 0)
        /\ held' = [tool |-> t, conn |-> factories[t]] /\ UNCHANGED conns
    BY <1>1 DEF BuildToolSchemas, CreateTool
  <2>2. factories[t] \in {-1} \cup 0 .. Len(conns)
    BY <1>0 DEF ConnTyping
  <2>3. held' \in Holds /\ held'.tool = t /\ held'.conn = factories[t]
    BY <2>1, <2>2 DEF Holds
  <2> QED BY <1>0, <2>1, <2>2, <2>3 DEF WorkerTyping
<1>2. ASSUME wpc' = "idle", held' = NoTool PROVE WorkerTyping'
  <2>1. held' \in Holds /\ held'.conn = 0
    BY <1>2 DEF Holds
  <2> QED BY <1>0, <1>2, <2>1 DEF WorkerTyping
<1>3. CASE InvokeTool
  <2>1. CASE wpc' = "call" /\ UNCHANGED <<held, conns>>
    BY <1>0, <1>3, <2>1 DEF InvokeTool, WorkerTyping
  <2> QED BY <1>2, <1>3, <2>1 DEF InvokeTool
<1>4. ASSUME UNCHANGED <<wpc, held>>, wpc = "connect" => job'[Worker].conn = job[Worker].conn
      PROVE  WorkerTyping'
  BY <1>0, <1>4 DEF WorkerTyping
<1>5. CASE CallTool
  <2>1. held.conn \in 1 .. Len(conns)
    BY <1>5, CallEffect
  <2>2. CASE wpc' = "connect" /\ UNCHANGED held /\ job'[Worker].conn = held.conn
    BY <1>0, <2>1, <2>2 DEF WorkerTyping
  <2> QED BY <1>2, <1>5, <2>2, CallEffect
<1>6. CASE Reconnected \/ CallThrows \/ StoreSchema
  BY <1>2, <1>6 DEF Reconnected, CallThrows, StoreSchema
<1>7. ASSUME NEW h \in Handlers, OnlyJob(h), UNCHANGED <<wpc, held>> PROVE WorkerTyping'
  BY <1>4, <1>7, ActorsApart DEF OnlyJob
<1>8. ASSUME NEW h \in Handlers,
             \/ EditServers(h) \/ ToFrameworkConfigs(h) \/ Load(h) \/ LoadReturns(h)
             \/ SyncDiff(h) \/ SyncMerge(h)
      PROVE  WorkerTyping'
  BY <1>4, <1>8 DEF EditServers, ToFrameworkConfigs, Load, LoadReturns, SyncDiff, SyncMerge
<1>9. ASSUME NEW h \in Handlers, StopMissing(h) \/ Apply(h) \/ Remove(h) PROVE WorkerTyping'
  <2>0. UNCHANGED <<wpc, held>>
    BY <1>9, PickEffect
  <2>1. ASSUME NEW s \in Servers, NEW pc \in Stopping, servers[s] # 0, BeginStop(h, s, pc) PROVE WorkerTyping'
    BY <1>7, <2>0, <2>1, BeginStopEffect
  <2>2. CASE UNCHANGED job
    BY <1>4, <2>0, <2>2
  <2> QED BY <1>9, <2>1, <2>2, PickEffect
<1>10. ASSUME NEW h \in Handlers, StartServerLocked(h) PROVE WorkerTyping'
  <2>1. UNCHANGED <<wpc, held>> /\ (UNCHANGED job \/ OnlyJob(h))
    BY <1>10, StartEffect
  <2> QED BY <1>4, <1>7, <2>1
<1>11. ASSUME NEW h \in Handlers, ServerStarted(h) \/ LoadThrows(h) \/ UnregisterTools(h) \/ StopServerLocked(h)
       PROVE  WorkerTyping'
  <2>1. OnlyJob(h)
    BY <1>11, EndEffect, ThrowEffect, UnregisterEffect, StopEffect, ActorsApart DEF ServerStarted, LoadThrows
  <2>2. UNCHANGED <<wpc, held>>
    BY <1>11 DEF ServerStarted, LoadThrows, UnregisterTools, StopServerLocked
  <2> QED BY <1>7, <2>1, <2>2
<1>12. ASSUME NEW x \in Actors, DiscoverTool(x) \/ NoteToolName(x) PROVE WorkerTyping'
  <2>1. OnlyJob(x) /\ job'[x].conn = job[x].conn /\ UNCHANGED <<wpc, held>>
    BY <1>12, DiscoverEffect, NoteEffect
  <2>2. job'[Worker].conn = job[Worker].conn
    BY <2>1, ActorsApart DEF OnlyJob
  <2> QED BY <1>4, <2>1, <2>2
<1>13. Plain => WorkerTyping'
  BY <1>1, <1>3, <1>6, <1>8 DEF Plain
<1> QED BY <1>5, <1>6, <1>9, <1>10, <1>11, <1>12, <1>13, Steps

-----------------------------------------------------------------------------
(* The registry main leaves behind when it starts.                         *)

\* A non-empty set of numbers up to n has a largest one.
LEMMA LargestExists ==
    ASSUME NEW n \in Nat, NEW P \in SUBSET (1 .. n), P # {}
    PROVE  \E i \in P : \A j \in P : j <= i
<1> DEFINE D == {d \in Nat : \E i \in P : d = n - i}
           R == {ss \in Nat \X Nat : ss[1] < ss[2]}
<1>1. IsWellFoundedOn(R, Nat)
  BY NatLessThanWellFounded, Zenon DEF OpToRel
<1>2. D # {}
  <2>1. PICK i \in P : TRUE
    OBVIOUS
  <2>2. n - i \in Nat
    OBVIOUS
  <2> QED BY <2>2
<1>3. D \subseteq Nat
  OBVIOUS
<1> HIDE DEF R
<1>4. PICK d \in D : \A e \in D : ~ (<<e, d>> \in R)
  <2> HIDE DEF D
  <2> QED BY <1>1, <1>2, <1>3, WFMin
<1>5. PICK i \in P : d = n - i
  OBVIOUS
<1>6. ASSUME NEW j \in P PROVE j <= i
  <2>1. n - j \in D
    OBVIOUS
  <2>2. ~ (n - j < d)
    BY <2>1, <1>4 DEF R
  <2> QED BY <2>2, <1>5
<1> QED BY <1>6

\* The servers of the file have distinct numbers, and the others number 0.
LEMMA BootConnSpec ==
    /\ \A s \in Servers : BootConn(s) \in 0 .. Len(BootOrder)
    /\ \A s \in Servers : BootConn(s) # 0 => BootOrder[BootConn(s)] = s
    /\ \A i \in 1 .. Len(BootOrder) : BootConn(BootOrder[i]) = i
<1>1. DOMAIN BootOrder = 1 .. Len(BootOrder) /\ Len(BootOrder) \in Nat
  BY McpAssumption
<1>2. ASSUME NEW s, \E i \in DOMAIN BootOrder : BootOrder[i] = s
      PROVE  BootConn(s) \in DOMAIN BootOrder /\ BootOrder[BootConn(s)] = s
  BY <1>2 DEF BootConn
<1>3. ASSUME NEW s, ~ \E i \in DOMAIN BootOrder : BootOrder[i] = s
      PROVE  BootConn(s) = 0
  BY <1>3 DEF BootConn
<1>4. ASSUME NEW i \in 1 .. Len(BootOrder) PROVE BootConn(BootOrder[i]) = i
  BY <1>1, <1>2, McpAssumption
<1> QED BY <1>1, <1>2, <1>3, <1>4

\* The factory of a tool that some server offers is of the last one to connect.
LEMMA BootFactory ==
    ASSUME Init, NEW t \in Tools
    PROVE  /\ Providers(t) # {} => /\ factories[t] \in 1 .. Len(BootOrder)
                                   /\ t \in Offers[BootOrder[factories[t]]]
           /\ Providers(t) = {} => factories[t] \in {Builtin, 0}
<1>1. DOMAIN BootOrder = 1 .. Len(BootOrder) /\ Len(BootOrder) \in Nat
  BY McpAssumption
<1>2. Providers(t) \in SUBSET (1 .. Len(BootOrder))
  BY <1>1 DEF Providers
<1>3. factories[t] = IF Providers(t) # {} THEN CHOOSE i \in Providers(t) : \A j \in Providers(t) : j <= i
                     ELSE IF t \in BuiltinTools THEN Builtin ELSE 0
  BY DEF Init
<1>4. CASE Providers(t) # {}
  <2>1. \E i \in Providers(t) : \A j \in Providers(t) : j <= i
    BY <1>1, <1>2, <1>4, LargestExists
  <2>2. factories[t] \in Providers(t)
    BY <1>3, <1>4, <2>1
  <2> QED BY <1>1, <1>4, <2>2 DEF Providers
<1> QED BY <1>3, <1>4

\* The connections of the first state: one per server of the file, all up.
LEMMA BootConns ==
    ASSUME Init
    PROVE  /\ conns \in Seq(ConnType) /\ Len(conns) = Len(BootOrder)
           /\ \A i \in 1 .. Len(conns) : /\ conns[i].server = BootOrder[i] /\ conns[i].connected
                                         /\ conns[i].tools = Offers[BootOrder[i]]
<1> DEFINE d(i) == [server |-> BootOrder[i], kind |-> BootConfig.kind,
                    connected |-> TRUE, tools |-> Offers[BootOrder[i]]]
<1>1. DOMAIN BootOrder = 1 .. Len(BootOrder) /\ Len(BootOrder) \in Nat
  BY McpAssumption
<1>2. ASSUME NEW i \in 1 .. Len(BootOrder)
      PROVE  d(i) \in ConnType /\ d(i).server = BootOrder[i] /\ d(i).connected = TRUE
             /\ d(i).tools = Offers[BootOrder[i]]
  <2>1. BootOrder[i] \in Servers /\ Offers[BootOrder[i]] \in SUBSET Tools /\ BootConfig.kind = "http"
    BY McpAssumption
  <2> QED BY <2>1 DEF ConnType
<1>3. conns = [i \in 1 .. Len(BootOrder) |-> d(i)]
  BY <1>1 DEF Init
<1> HIDE DEF d
<1>4. conns \in [1 .. Len(BootOrder) -> ConnType]
  BY <1>2, <1>3
<1>5. conns \in Seq(ConnType) /\ Len(conns) = Len(BootOrder)
  BY <1>1, <1>4
<1> QED BY <1>2, <1>3, <1>5

\* The first state is well typed.
LEMMA InitTyping ==
    ASSUME Init
    PROVE  Typing
<1>0. McpAssumption /\ conns \in Seq(ConnType) /\ Len(conns) = Len(BootOrder)
  BY McpAssumption, BootConns
<1>1. ConfigTyping
  BY <1>0 DEF Init, ConfigTyping, Config, McpAssumption
<1>2. HandlerTyping
  <2>1. /\ hpc = [h \in Handlers |-> "idle"] /\ starting \in [Handlers -> {NoServer}]
        /\ todo \in [Handlers -> SUBSET Servers] /\ mutex = NoHandler /\ NoHandler \notin Handlers
    BY <1>0 DEF Init, McpAssumption
  <2>2. args \in [Handlers -> [Servers -> Config]]
    BY DEF Init, Config
  <2> QED BY <2>1, <2>2 DEF HandlerTyping, Places, InManager
<1>3. ConnTyping
  <2>1. servers \in [Servers -> ConnIds] /\ mcpServers \in [Servers -> ConnIds]
    BY <1>0, BootConnSpec DEF Init
  <2>2. factories \in [Tools -> {Builtin} \cup ConnIds]
    <3>1. factories = [t \in Tools |-> factories[t]]
      BY DEF Init
    <3>2. Len(BootOrder) \in Nat
      BY <1>0 DEF McpAssumption
    <3>3. ASSUME NEW t \in Tools PROVE factories[t] \in {Builtin} \cup ConnIds
      BY <1>0, <3>2, BootFactory
    <3> QED BY <3>1, <3>3
  <2>3. schemas \in [Tools -> {Builtin} \cup ConnIds]
    <3>1. schemas = [t \in Tools |-> 0] /\ Len(BootOrder) \in Nat
      BY <1>0 DEF Init, McpAssumption
    <3> QED BY <1>0, <3>1
  <2>4. mcpToolNames \subseteq Tools /\ broken = {}
    BY DEF Init
  <2> QED BY <1>0, <2>1, <2>2, <2>3, <2>4 DEF ConnTyping
<1>4. AgentTyping
  <2>1. toolNames \subseteq Tools /\ ownedMcpTools \subseteq toolNames
    BY <1>0 DEF Init, McpAssumption
  <2>2. diff \in [Handlers -> Diffs]
    BY DEF Init, Diffs
  <2> QED BY <2>1, <2>2 DEF AgentTyping
<1>5. WorkerTyping
  <2>1. wpc = "idle" /\ held \in Holds /\ held.conn = 0 /\ Len(conns) \in Nat
    BY <1>0 DEF Init, Holds
  <2> QED BY <2>1 DEF WorkerTyping
<1>6. JobTyping
  <2>1. NoJob \in JobType /\ NoJob.conn = 0 /\ NoJob.cur = "none"
    BY DEF NoJob, JobType
  <2>2. job = [x \in Actors |-> NoJob] /\ wpc = "idle" /\ hpc = [h \in Handlers |-> "idle"] /\ Len(conns) \in Nat
    BY <1>0 DEF Init
  <2> HIDE DEF NoJob
  <2>3. \A x \in Actors : job[x] = NoJob
    BY <2>2
  <2>4. job \in [Actors -> JobType] /\ \A x \in Actors : job[x].conn = 0 /\ job[x].cur = "none"
    BY <2>1, <2>2, <2>3
  <2> QED BY <2>2, <2>4, ActorsApart DEF JobTyping
<1> QED BY <1>1, <1>2, <1>3, <1>4, <1>5, <1>6 DEF Typing

\* Typing is inductive.
LEMMA TypingInvariant == Spec => []Typing
<1>1. Init => Typing
  BY InitTyping
<1>2. Typing /\ [Next]_vars => Typing'
  <2>1. CASE Next
    BY <2>1, ConfigTypingStep, HandlerTypingStep, ConnTypingStep, JobTypingStep, AgentTypingStep, WorkerTypingStep
       DEF Next, Typing
  <2>2. CASE UNCHANGED vars
    BY <2>2 DEF vars, Typing, ConfigTyping, HandlerTyping, ConnTyping, JobTyping, AgentTyping, WorkerTyping
  <2> QED BY <2>1, <2>2
<1> QED BY <1>1, <1>2, PTL DEF Spec

\* Every reachable state is well typed, and the manager's mutex is held exactly
\* while a handler is inside Load or Remove.
THEOREM TypeCorrect == Spec => []TypeOK
<1>1. ASSUME Typing PROVE TypeOK
  <2>1. mutex = NoHandler <=> \A h \in Handlers : hpc[h] \notin InManager
    BY <1>1, McpAssumption DEF Typing, HandlerTyping
  <2> QED BY <1>1, <2>1 DEF Typing, TypeOK, ConfigTyping, HandlerTyping, ConnTyping, AgentTyping,
                            WorkerTyping, ConnType, Places
<1> QED BY <1>1, TypingInvariant, PTL


-----------------------------------------------------------------------------
(* Connections and the threads inside them.                                *)

\* At most one thread is inside a connection.
OneInside == \A x, y \in Actors : x # y /\ job[x].conn # 0 => job[x].conn # job[y].conn

\* A connection being connected is down, its Connect did not throw before, and
\* tools are listed only when the server answered.
ConnectingIsDown ==
    \A x \in Actors : Connecting(x) =>
      /\ ~conns[job[x].conn].connected /\ job[x].conn \notin broken
      /\ job[x].left # {} \/ conns[job[x].conn].tools # {} => job[x].up

\* The connection of a call that is about to be made was up once, so that no
\* handler is connecting it and its Connect did not throw.
CallOnceUp ==
    wpc = "call" => /\ held.conn \notin broken
                    /\ \A h \in Handlers : hpc[h] = "connect" => job[h].conn # held.conn

\* A connection whose Connect threw is down, and one that is down otherwise, with
\* nobody inside, has no tools.
DownIsBare ==
    /\ \A c \in broken : ~conns[c].connected
    /\ \A c \in DOMAIN conns : ~conns[c].connected /\ ~Locked(c) /\ c \notin broken => conns[c].tools = {}

Connections == OneInside /\ ConnectingIsDown /\ CallOnceUp /\ DownIsBare

\* The numbers a step may rely on.
LEMMA Numbers ==
    ASSUME Typing
    PROVE  /\ conns \in Seq(ConnType) /\ Len(conns) \in Nat /\ DOMAIN conns = 1 .. Len(conns)
           /\ \A x \in Actors : job[x].conn \in 0 .. Len(conns)
           /\ \A x \in Actors : Connecting(x) => job[x].conn \in 1 .. Len(conns)
           /\ \A h \in Handlers : hpc[h] \in Stopping => job[h].conn \in 1 .. Len(conns)
           /\ broken \subseteq 1 .. Len(conns)
           /\ \A t \in Tools : factories[t] \in {-1} \cup 0 .. Len(conns)
<1>1. \A x \in Actors : Connecting(x) => job[x].conn \in 1 .. Len(conns)
  BY ConnectingJob
<1>2. \A h \in Handlers : hpc[h] \in Stopping => job[h].conn \in 1 .. Len(conns)
  BY StoppingJob
<1> QED BY <1>1, <1>2 DEF Typing, ConnTyping, JobTyping

\* Who else is connecting is not changed by a step of one thread.
LEMMA OthersConnecting ==
    ASSUME Typing, NEW x \in Actors,
           \/ x = Worker /\ UNCHANGED hpc
           \/ x \in Handlers /\ UNCHANGED wpc /\ \E pc : hpc' = [hpc EXCEPT ![x] = pc]
    PROVE  \A y \in Actors : y # x => (Connecting(y)' <=> Connecting(y))
<1> SUFFICES ASSUME NEW y \in Actors, y # x PROVE Connecting(y)' <=> Connecting(y)
  OBVIOUS
<1>1. CASE y = Worker
  BY <1>1, ActorsApart DEF Connecting
<1>2. CASE y # Worker
  <2>1. y \in Handlers /\ hpc \in [Handlers -> Places]
    BY <1>2, ActorsApart DEF Typing, HandlerTyping
  <2>2. hpc'[y] = hpc[y]
    BY <2>1
  <2> QED BY <1>2, <2>2 DEF Connecting
<1> QED BY <1>1, <1>2

\* A thread that gives its connection back, keeps it, or takes a free one leaves
\* every connection with at most one inside.
LEMMA OneInsideStep ==
    ASSUME Typing, OneInside, NEW x \in Actors, OnlyJob(x),
           \/ job'[x].conn \in {0, job[x].conn}
           \/ ~Locked(job'[x].conn)
    PROVE  OneInside'
BY DEF OneInside, OnlyJob, Locked

\* Connect's return keeps Connections.
LEMMA EndKeeps ==
    ASSUME Typing, Connections, NEW x \in Actors, EndConnect(x), UNCHANGED broken,
           ~Connecting(x)', \A y \in Actors : y # x => (Connecting(y)' <=> Connecting(y)),
           wpc' = "call" => wpc = "call" /\ UNCHANGED held,
           \A h \in Handlers : hpc'[h] = "connect" => hpc[h] = "connect" /\ h # x
    PROVE  Connections'
<1> DEFINE c == job[x].conn
<1>0. /\ c \in 1 .. Len(conns) /\ Connecting(x) /\ OnlyConn(c) /\ OnlyJob(x) /\ job[x].left = {}
      /\ conns'[c].connected = job[x].up /\ conns'[c].tools = conns[c].tools /\ job'[x].conn = 0
  BY EndEffect
<1> HIDE DEF c
<1>c. c = job[x].conn
  BY DEF c
<1>1. OneInside'
  BY <1>0, OneInsideStep DEF Connections
<1>2. ConnectingIsDown'
  <2> SUFFICES ASSUME NEW y \in Actors, Connecting(y)'
               PROVE  /\ ~conns'[job'[y].conn].connected /\ job'[y].conn \notin broken'
                      /\ job'[y].left # {} \/ conns'[job'[y].conn].tools # {} => job'[y].up
    BY DEF ConnectingIsDown
  <2>1. y # x /\ Connecting(y) /\ job'[y] = job[y] /\ job[y].conn # c /\ job[y].conn \in 1 .. Len(conns)
    BY <1>0, <1>c, Numbers DEF OnlyJob, Connections, OneInside
  <2>2. conns'[job[y].conn] = conns[job[y].conn]
    BY <1>0, <2>1 DEF OnlyConn
  <2> QED BY <2>1, <2>2 DEF Connections, ConnectingIsDown
<1>3. CallOnceUp'
  BY <1>0 DEF Connections, CallOnceUp, OnlyJob, Actors
<1>4. DownIsBare'
  <2>1. DOMAIN conns' = 1 .. Len(conns) /\ DOMAIN conns = 1 .. Len(conns)
    BY <1>0, Numbers DEF OnlyConn
  <2>2. c \notin broken /\ (conns[c].tools # {} => job[x].up)
    BY <1>0, <1>c DEF Connections, ConnectingIsDown
  <2>3. \A i \in broken : ~conns'[i].connected
    BY <1>0, <2>2, Numbers DEF Connections, DownIsBare, OnlyConn
  <2>4. ASSUME NEW i \in 1 .. Len(conns), ~conns'[i].connected, ~Locked(i)', i \notin broken
        PROVE  conns'[i].tools = {}
    <3>1. CASE i = c
      BY <1>0, <2>2, <2>4, <3>1
    <3>2. CASE i # c
      <4>1. conns'[i] = conns[i]
        BY <1>0, <3>2 DEF OnlyConn
      <4>2. ~Locked(i)
        BY <1>0, <1>c, <2>4, <3>2 DEF Locked, OnlyJob
      <4> QED BY <2>1, <2>4, <4>1, <4>2 DEF Connections, DownIsBare
    <3> QED BY <3>1, <3>2
  <2> QED BY <2>1, <2>3, <2>4 DEF DownIsBare
<1> QED BY <1>1, <1>2, <1>3, <1>4 DEF Connections

\* An exception out of Connect keeps Connections.
LEMMA ThrowKeeps ==
    ASSUME Typing, Connections, NEW x \in Actors, ConnectThrows(x),
           ~Connecting(x)', \A y \in Actors : y # x => (Connecting(y)' <=> Connecting(y)),
           wpc' = "call" => wpc = "call" /\ UNCHANGED held /\ x # Worker,
           x \in Handlers => hpc[x] = "connect",
           \A h \in Handlers : hpc'[h] = "connect" => hpc[h] = "connect" /\ h # x
    PROVE  Connections'
<1> DEFINE c == job[x].conn
<1>0. /\ c \in 1 .. Len(conns) /\ Connecting(x) /\ OnlyConn(c) /\ OnlyJob(x)
      /\ conns'[c].connected = conns[c].connected /\ job'[x].conn = 0 /\ broken' = broken \cup {c}
  BY ThrowEffect
<1> HIDE DEF c
<1>c. c = job[x].conn
  BY DEF c
<1>1. OneInside'
  BY <1>0, OneInsideStep DEF Connections
<1>2. ConnectingIsDown'
  <2> SUFFICES ASSUME NEW y \in Actors, Connecting(y)'
               PROVE  /\ ~conns'[job'[y].conn].connected /\ job'[y].conn \notin broken'
                      /\ job'[y].left # {} \/ conns'[job'[y].conn].tools # {} => job'[y].up
    BY DEF ConnectingIsDown
  <2>1. y # x /\ Connecting(y) /\ job'[y] = job[y] /\ job[y].conn # c /\ job[y].conn \in 1 .. Len(conns)
    BY <1>0, <1>c, Numbers DEF OnlyJob, Connections, OneInside
  <2>2. conns'[job[y].conn] = conns[job[y].conn]
    BY <1>0, <2>1 DEF OnlyConn
  <2> QED BY <1>0, <2>1, <2>2 DEF Connections, ConnectingIsDown
<1>3. CallOnceUp'
  <2> SUFFICES ASSUME wpc' = "call"
               PROVE  /\ held' \in {held} /\ held.conn \notin broken'
                      /\ \A h \in Handlers : hpc'[h] = "connect" => job'[h].conn # held.conn
    BY DEF CallOnceUp
  <2>1. wpc = "call" /\ held' = held /\ x \in Handlers
    BY ActorsApart
  <2>2. held.conn # c /\ held.conn \notin broken
    BY <1>c, <2>1 DEF Connections, CallOnceUp
  <2> QED BY <1>0, <2>1, <2>2, ActorsApart DEF Connections, CallOnceUp, OnlyJob
<1>4. DownIsBare'
  <2>1. DOMAIN conns' = 1 .. Len(conns) /\ DOMAIN conns = 1 .. Len(conns)
    BY <1>0, Numbers DEF OnlyConn
  <2>2. ~conns'[c].connected
    BY <1>0, <1>c DEF Connections, ConnectingIsDown
  <2>3. \A i \in broken' : ~conns'[i].connected
    BY <1>0, <2>2, Numbers DEF Connections, DownIsBare, OnlyConn
  <2>4. ASSUME NEW i \in 1 .. Len(conns), ~conns'[i].connected, ~Locked(i)', i \notin broken'
        PROVE  conns'[i].tools = {}
    <3>1. i # c /\ i \notin broken
      BY <1>0, <2>4
    <3>2. conns'[i] = conns[i]
      BY <1>0, <3>1 DEF OnlyConn
    <3>3. ~Locked(i)
      BY <1>0, <1>c, <2>4, <3>1 DEF Locked, OnlyJob
    <3> QED BY <2>1, <2>4, <3>1, <3>2, <3>3 DEF Connections, DownIsBare
  <2> QED BY <2>1, <2>3, <2>4 DEF DownIsBare
<1> QED BY <1>1, <1>2, <1>3, <1>4 DEF Connections

\* A thread that begins to connect a free connection without tools, or one just
\* made, keeps Connections.
LEMMA BeginKeeps ==
    ASSUME Typing, Connections, NEW x \in Actors, NEW c \in 1 .. Len(conns'), OnlyJob(x), job'[x].conn = c,
           job[x].conn = 0, ~Locked(c), c \notin broken, UNCHANGED broken,
           job'[x].left # {} => job'[x].up,
           conns' \in Seq(ConnType), Len(conns') >= Len(conns),
           \A i \in 1 .. Len(conns) : conns'[i] = conns[i],
           \A i \in 1 .. Len(conns') : i # c => i \in 1 .. Len(conns),
           ~conns'[c].connected, conns'[c].tools = {},
           \A y \in Actors : y # x => (Connecting(y)' <=> Connecting(y)),
           wpc' = "call" => /\ wpc = "call" /\ UNCHANGED held /\ held.conn # c
                            /\ \A h \in Handlers : h # x => hpc'[h] = hpc[h]
    PROVE  Connections'
<1>1. OneInside'
  BY OneInsideStep DEF Connections
<1>2. ConnectingIsDown'
  <2> SUFFICES ASSUME NEW y \in Actors, Connecting(y)'
               PROVE  /\ ~conns'[job'[y].conn].connected /\ job'[y].conn \notin broken'
                      /\ job'[y].left # {} \/ conns'[job'[y].conn].tools # {} => job'[y].up
    BY DEF ConnectingIsDown
  <2>1. CASE y = x
    BY <2>1
  <2>2. CASE y # x
    <3>1. Connecting(y) /\ job'[y] = job[y] /\ job[y].conn \in 1 .. Len(conns)
      BY <2>2, Numbers DEF OnlyJob
    <3> QED BY <3>1 DEF Connections, ConnectingIsDown
  <2> QED BY <2>1, <2>2
<1>3. CallOnceUp'
  <2> SUFFICES ASSUME wpc' = "call"
               PROVE  /\ held' \in {held} /\ held.conn \notin broken
                      /\ \A h \in Handlers : hpc'[h] = "connect" => job'[h].conn # held.conn
    BY DEF CallOnceUp
  <2> QED BY ActorsApart DEF Connections, CallOnceUp, OnlyJob
<1>4. DownIsBare'
  <2>1. DOMAIN conns' = 1 .. Len(conns') /\ DOMAIN conns = 1 .. Len(conns) /\ broken \subseteq 1 .. Len(conns)
    BY Numbers
  <2>2. \A i \in broken : ~conns'[i].connected
    BY <2>1 DEF Connections, DownIsBare
  <2>3. ASSUME NEW i \in 1 .. Len(conns'), ~conns'[i].connected, ~Locked(i)', i \notin broken
        PROVE  conns'[i].tools = {}
    <3>1. i # c /\ i \in 1 .. Len(conns)
      BY <2>3 DEF Locked
    <3>2. ~Locked(i)
      <4>1. i # 0 /\ job[x].conn # i
        BY <3>1
      <4> QED BY <2>3, <4>1 DEF Locked, OnlyJob
    <3> QED BY <2>1, <2>3, <3>1, <3>2 DEF Connections, DownIsBare
  <2> QED BY <2>1, <2>2, <2>3 DEF DownIsBare
<1> QED BY <1>1, <1>2, <1>3, <1>4 DEF Connections

\* Connections is inductive.
LEMMA ConnectionsStep ==
    ASSUME Typing, Connections, Step
    PROVE  Connections'
<1>0. HandlerTyping /\ WorkerTyping /\ JobTyping
  BY DEF Typing
<1>1. ASSUME UNCHANGED <<conns, job, broken>>,
             \A x \in Actors : Connecting(x)' => Connecting(x),
             \A h \in Handlers : hpc'[h] = "connect" => hpc[h] = "connect",
             wpc' = "call" => \/ wpc = "call" /\ UNCHANGED held
                              \/ held'.conn \notin broken /\ ~Locked(held'.conn)
      PROVE  Connections'
  <2>1. OneInside' /\ ConnectingIsDown'
    BY <1>1 DEF Connections, OneInside, ConnectingIsDown
  <2>2. DownIsBare'
    BY <1>1 DEF Connections, DownIsBare, Locked
  <2>3. CallOnceUp'
    BY <1>1, ActorsApart DEF Connections, CallOnceUp, Locked
  <2> QED BY <2>1, <2>2, <2>3 DEF Connections
<1>2. ASSUME Plain PROVE Connections'
  <2>0. UNCHANGED <<conns, job, broken>>
    BY <1>2, PlainEffect
  <2>1. ASSUME NEW h \in Handlers,
               \/ EditServers(h) \/ ToFrameworkConfigs(h) \/ Load(h) \/ LoadReturns(h)
               \/ SyncDiff(h) \/ SyncMerge(h)
        PROVE  Connections'
    <3>1. UNCHANGED <<wpc, held>> /\ \A k \in Handlers : hpc'[k] = "connect" => hpc[k] = "connect"
      BY <1>0, <2>1 DEF EditServers, ToFrameworkConfigs, Load, LoadReturns, SyncDiff, SyncMerge, HandlerTyping
    <3>2. \A x \in Actors : Connecting(x)' => Connecting(x)
      BY <3>1, ActorsApart DEF Connecting
    <3> QED BY <1>1, <2>0, <3>1, <3>2
  <2>2. CASE InvokeTool
    <3>1. UNCHANGED hpc /\ wpc' # "connect" /\ ~Locked(held.conn) /\ wpc = "tool"
          /\ (wpc' = "call" => UNCHANGED held /\ conns[held.conn].connected)
      BY <2>2 DEF InvokeTool
    <3>2. \A x \in Actors : Connecting(x)' => Connecting(x)
      BY <3>1 DEF Connecting
    <3>3. wpc' = "call" => held'.conn \notin broken /\ ~Locked(held'.conn)
      BY <3>1 DEF Connections, DownIsBare
    <3> QED BY <1>1, <2>0, <3>1, <3>2, <3>3
  <2>3. ASSUME UNCHANGED hpc, wpc' \in {"idle", "probe", "tool"} PROVE Connections'
    <3>1. \A x \in Actors : Connecting(x)' => Connecting(x)
      BY <2>3 DEF Connecting
    <3> QED BY <1>1, <2>0, <2>3, <3>1
  <2>4. \/ \E h \in Handlers : \/ EditServers(h) \/ ToFrameworkConfigs(h) \/ Load(h) \/ LoadReturns(h)
                               \/ SyncDiff(h) \/ SyncMerge(h)
        \/ InvokeTool
        \/ UNCHANGED hpc /\ wpc' \in {"idle", "probe", "tool"}
    BY <1>2 DEF Plain, BuildToolSchemas, CreateTool, StoreSchema
  <2> QED BY <2>1, <2>2, <2>3, <2>4
<1>3. ASSUME NEW h \in Handlers, StopMissing(h) \/ Apply(h) \/ Remove(h) PROVE Connections'
  <2>0. UNCHANGED <<conns, broken, wpc, held>>
    BY <1>3, PickEffect
  <2>1. CASE /\ UNCHANGED job
             /\ UNCHANGED hpc \/ hpc' = [hpc EXCEPT ![h] = "start"] \/ hpc' = [hpc EXCEPT ![h] = "sync"]
    <3>1. \A k \in Handlers : hpc'[k] = "connect" => hpc[k] = "connect"
      BY <1>0, <2>1 DEF HandlerTyping
    <3>2. \A x \in Actors : Connecting(x)' => Connecting(x)
      BY <2>0, <3>1, ActorsApart DEF Connecting
    <3> QED BY <1>1, <2>0, <2>1, <3>1, <3>2
  <2>2. ASSUME NEW s \in Servers, NEW pc \in Stopping, servers[s] # 0, BeginStop(h, s, pc)
        PROVE  Connections'
    <3> DEFINE c == servers[s]
    <3>1. /\ c \in 1 .. Len(conns) /\ ~Locked(c) /\ OnlyJob(h) /\ job'[h].conn = c /\ h \in Actors
          /\ hpc' = [hpc EXCEPT ![h] = pc]
      BY <2>2, BeginStopEffect, ActorsApart
    <3>2. hpc[h] \in {"loop", "remove"}
      BY <1>3 DEF StopMissing, Apply, Remove
    <3> HIDE DEF c
    <3>3. hpc'[h] = pc /\ \A k \in Handlers : k # h => hpc'[k] = hpc[k]
      BY <1>0, <3>1 DEF HandlerTyping
    <3>4. \A y \in Actors : y # h => (Connecting(y)' <=> Connecting(y))
      BY <2>0, <3>1, OthersConnecting
    <3>5. ~Connecting(h)'
      BY <3>3, ActorsApart DEF Connecting
    <3>6. OneInside'
      BY <3>1, OneInsideStep DEF Connections
    <3>7. ConnectingIsDown'
      BY <2>0, <3>1, <3>4, <3>5 DEF Connections, ConnectingIsDown, OnlyJob
    <3>8. CallOnceUp'
      BY <2>0, <3>1, <3>3, ActorsApart DEF Connections, CallOnceUp, OnlyJob
    <3>9. DownIsBare'
      <4>1. job[h].conn = 0
        BY <1>0, <3>2 DEF JobTyping
      <4>2. \A i \in 1 .. Len(conns) : ~Locked(i)' => ~Locked(i)
        BY <3>1, <4>1 DEF Locked, OnlyJob
      <4> QED BY <2>0, <4>2, Numbers DEF Connections, DownIsBare
    <3> QED BY <3>6, <3>7, <3>8, <3>9 DEF Connections
  <2> QED BY <1>3, <2>1, <2>2, PickEffect
<1>4. ASSUME NEW h \in Handlers, StartServerLocked(h) PROVE Connections'
  <2>0. hpc[h] = "start" /\ UNCHANGED <<broken, wpc, held>> /\ h \in Actors
    BY <1>4, StartEffect, ActorsApart
  <2>1. CASE hpc' = [hpc EXCEPT ![h] = "loop"] /\ UNCHANGED <<conns, job>>
    <3>1. \A k \in Handlers : hpc'[k] = "connect" => hpc[k] = "connect"
      BY <1>0, <2>1 DEF HandlerTyping
    <3>2. \A x \in Actors : Connecting(x)' => Connecting(x)
      BY <2>0, <3>1, ActorsApart DEF Connecting
    <3> QED BY <1>1, <2>0, <2>1, <3>1, <3>2
  <2>2. CASE /\ hpc' = [hpc EXCEPT ![h] = "connect"]
             /\ conns' \in Seq(ConnType) /\ Len(conns') = Len(conns) + 1
             /\ \A i \in 1 .. Len(conns) : conns'[i] = conns[i]
             /\ conns'[Len(conns) + 1].connected = FALSE /\ conns'[Len(conns) + 1].tools = {}
             /\ OnlyJob(h) /\ job'[h].conn = Len(conns) + 1 /\ (job'[h].left # {} => job'[h].up)
    <3> DEFINE c == Len(conns) + 1
    <3>1. c \in 1 .. Len(conns') /\ ~Locked(c) /\ c \notin broken /\ Len(conns') >= Len(conns)
          /\ \A i \in 1 .. Len(conns') : i # c => i \in 1 .. Len(conns)
      BY <2>2, Numbers DEF Locked
    <3>2. job[h].conn = 0
      BY <1>0, <2>0 DEF JobTyping
    <3>3. \A y \in Actors : y # h => (Connecting(y)' <=> Connecting(y))
      BY <2>0, <2>2, OthersConnecting
    <3>4. wpc' = "call" => /\ wpc = "call" /\ UNCHANGED held /\ held.conn # c
                           /\ \A k \in Handlers : k # h => hpc'[k] = hpc[k]
      BY <1>0, <2>0, <2>2, Numbers DEF WorkerTyping, HandlerTyping
    <3>5. conns'[c].connected = FALSE /\ conns'[c].tools = {} /\ job'[h].conn = c
      BY <2>2
    <3> HIDE DEF c
    <3> QED BY <2>0, <2>2, <3>1, <3>2, <3>3, <3>4, <3>5, BeginKeeps
  <2> QED BY <1>4, <2>1, <2>2, StartEffect
<1>5. ASSUME NEW h \in Handlers, ServerStarted(h) PROVE Connections'
  <2>1. /\ EndConnect(h) /\ UNCHANGED <<broken, wpc, held>> /\ hpc' = [hpc EXCEPT ![h] = "loop"] /\ h \in Actors
    BY <1>5, ActorsApart DEF ServerStarted
  <2>2. hpc'[h] = "loop" /\ \A k \in Handlers : hpc'[k] = "connect" => hpc[k] = "connect" /\ k # h
    BY <1>0, <2>1 DEF HandlerTyping
  <2>3. ~Connecting(h)' /\ \A y \in Actors : y # h => (Connecting(y)' <=> Connecting(y))
    BY <2>1, <2>2, OthersConnecting, ActorsApart DEF Connecting
  <2> QED BY <2>1, <2>2, <2>3, EndKeeps
<1>6. CASE Reconnected
  <2>1. EndConnect(Worker) /\ UNCHANGED <<broken, hpc>> /\ wpc' = "idle" /\ Worker \in Actors
    BY <1>6, ActorsApart DEF Reconnected
  <2>2. ~Connecting(Worker)' /\ \A y \in Actors : y # Worker => (Connecting(y)' <=> Connecting(y))
    BY <2>1, OthersConnecting DEF Connecting
  <2> QED BY <2>1, <2>2, EndKeeps, ActorsApart
<1>7. ASSUME NEW h \in Handlers, LoadThrows(h) PROVE Connections'
  <2>1. /\ ConnectThrows(h) /\ UNCHANGED <<wpc, held>> /\ hpc' = [hpc EXCEPT ![h] = "idle"] /\ h \in Actors
        /\ hpc[h] = "connect"
    BY <1>7, ActorsApart DEF LoadThrows, ConnectThrows
  <2>2. hpc'[h] = "idle" /\ \A k \in Handlers : hpc'[k] = "connect" => hpc[k] = "connect" /\ k # h
    BY <1>0, <2>1 DEF HandlerTyping
  <2>3. ~Connecting(h)' /\ \A y \in Actors : y # h => (Connecting(y)' <=> Connecting(y))
    BY <2>1, <2>2, OthersConnecting, ActorsApart DEF Connecting
  <2> QED BY <2>1, <2>2, <2>3, ThrowKeeps, ActorsApart
<1>8. CASE CallThrows
  <2>1. ConnectThrows(Worker) /\ UNCHANGED hpc /\ wpc' = "idle" /\ Worker \in Actors
    BY <1>8, ActorsApart DEF CallThrows
  <2>2. ~Connecting(Worker)' /\ \A y \in Actors : y # Worker => (Connecting(y)' <=> Connecting(y))
    BY <2>1, OthersConnecting DEF Connecting
  <2> QED BY <2>1, <2>2, ThrowKeeps, ActorsApart
<1>9. CASE CallTool
  <2> DEFINE c == held.conn
  <2>0. wpc = "call" /\ c \in 1 .. Len(conns) /\ ~Locked(c) /\ UNCHANGED <<conns, broken, hpc>> /\ Worker \in Actors
    BY <1>9, CallEffect, ActorsApart
  <2>1. CASE wpc' = "idle" /\ UNCHANGED job
    <3>1. \A x \in Actors : Connecting(x)' => Connecting(x)
      BY <2>0, <2>1 DEF Connecting
    <3> QED BY <1>1, <2>0, <2>1, <3>1
  <2>2. CASE /\ wpc' = "connect" /\ ~conns[c].connected /\ OnlyJob(Worker) /\ job'[Worker].conn = c
             /\ job'[Worker].left # {} => job'[Worker].up
    <3>1. c \notin broken
      BY <2>0 DEF Connections, CallOnceUp
    <3>2. conns[c].tools = {} /\ conns \in Seq(ConnType) /\ Len(conns) \in Nat
      BY <2>0, <2>2, <3>1, Numbers DEF Connections, DownIsBare
    <3>3. job[Worker].conn = 0
      BY <1>0, <2>0 DEF JobTyping
    <3>4. \A y \in Actors : y # Worker => (Connecting(y)' <=> Connecting(y))
      BY <2>0, OthersConnecting
    <3> HIDE DEF c
    <3> QED BY <2>0, <2>2, <3>1, <3>2, <3>3, <3>4, BeginKeeps
  <2> QED BY <1>9, <2>1, <2>2, CallEffect
<1>10. ASSUME NEW h \in Handlers, UnregisterTools(h) PROVE Connections'
  <2>1. /\ OnlyJob(h) /\ job'[h].conn = job[h].conn /\ UNCHANGED <<conns, broken, hpc, wpc, held>>
        /\ hpc[h] \in Stopping /\ h \in Actors /\ h # Worker
    BY <1>10, UnregisterEffect, ActorsApart
  <2>2. \A y \in Actors : job'[y].conn = job[y].conn
    BY <2>1 DEF OnlyJob
  <2>3. \A y \in Actors : Connecting(y)' <=> Connecting(y)
    BY <2>1 DEF Connecting
  <2>4. ~Connecting(h)
    BY <2>1 DEF Connecting
  <2>5. OneInside' /\ CallOnceUp'
    BY <2>1, <2>2, ActorsApart DEF Connections, OneInside, CallOnceUp
  <2>6. ConnectingIsDown'
    BY <2>1, <2>3, <2>4 DEF Connections, ConnectingIsDown, OnlyJob
  <2>7. DownIsBare'
    BY <2>1, <2>2 DEF Connections, DownIsBare, Locked
  <2> QED BY <2>5, <2>6, <2>7 DEF Connections
<1>11. ASSUME NEW h \in Handlers, StopServerLocked(h) PROVE Connections'
  <2> DEFINE c == job[h].conn
  <2>1. /\ hpc[h] \in Stopping /\ c \in 1 .. Len(conns) /\ h \in Actors /\ h # Worker
        /\ OnlyConn(c) /\ OnlyJob(h) /\ conns'[c].connected = FALSE /\ conns'[c].tools = {}
        /\ job'[h].conn = 0 /\ UNCHANGED <<broken, wpc, held>>
    BY <1>11, StopEffect, ActorsApart
  <2>2. \E pc \in {"loop", "start", "sync"} : hpc' = [hpc EXCEPT ![h] = pc]
    BY <1>11 DEF StopServerLocked
  <2>3. hpc'[h] # "connect" /\ \A k \in Handlers : hpc'[k] = "connect" => hpc[k] = "connect" /\ k # h
    BY <1>0, <2>2 DEF HandlerTyping
  <2>4. ~Connecting(h)' /\ \A y \in Actors : y # h => (Connecting(y)' <=> Connecting(y))
    BY <2>1, <2>2, <2>3, OthersConnecting DEF Connecting
  <2> HIDE DEF c
  <2>c. c = job[h].conn
    BY DEF c
  <2>5. OneInside'
    BY <2>1, OneInsideStep DEF Connections
  <2>6. ConnectingIsDown'
    <3> SUFFICES ASSUME NEW y \in Actors, Connecting(y)'
                 PROVE  /\ ~conns'[job'[y].conn].connected /\ job'[y].conn \notin broken'
                        /\ job'[y].left # {} \/ conns'[job'[y].conn].tools # {} => job'[y].up
      BY DEF ConnectingIsDown
    <3>1. y # h /\ Connecting(y) /\ job'[y] = job[y] /\ job[y].conn # c /\ job[y].conn \in 1 .. Len(conns)
      BY <2>1, <2>4, <2>c, Numbers DEF OnlyJob, Connections, OneInside
    <3>2. conns'[job[y].conn] = conns[job[y].conn]
      BY <2>1, <3>1 DEF OnlyConn
    <3> QED BY <2>1, <3>1, <3>2 DEF Connections, ConnectingIsDown
  <2>7. CallOnceUp'
    BY <2>1, <2>3, ActorsApart DEF Connections, CallOnceUp, OnlyJob
  <2>8. DownIsBare'
    <3>1. DOMAIN conns' = 1 .. Len(conns) /\ DOMAIN conns = 1 .. Len(conns)
      BY <2>1, Numbers DEF OnlyConn
    <3>2. \A i \in broken : ~conns'[i].connected
      BY <2>1, Numbers DEF Connections, DownIsBare, OnlyConn
    <3>3. ASSUME NEW i \in 1 .. Len(conns), i # c, ~conns'[i].connected, ~Locked(i)', i \notin broken
          PROVE  conns'[i].tools = {}
      <4>1. conns'[i] = conns[i]
        BY <2>1, <3>3 DEF OnlyConn
      <4>2. ~Locked(i)
        BY <2>1, <2>c, <3>3 DEF Locked, OnlyJob
      <4> QED BY <3>1, <3>3, <4>1, <4>2 DEF Connections, DownIsBare
    <3> QED BY <2>1, <3>1, <3>2, <3>3 DEF DownIsBare
  <2> QED BY <2>5, <2>6, <2>7, <2>8 DEF Connections
<1>12. ASSUME NEW x \in Actors, DiscoverTool(x) PROVE Connections'
  <2> DEFINE c == job[x].conn
  <2>1. /\ c \in 1 .. Len(conns) /\ Connecting(x) /\ OnlyConn(c) /\ OnlyJob(x) /\ job[x].left # {}
        /\ conns'[c].connected = conns[c].connected /\ job'[x].conn = c /\ job'[x].up = job[x].up
        /\ UNCHANGED <<broken, hpc, wpc, held>>
    BY <1>12, DiscoverEffect
  <2> HIDE DEF c
  <2>c. c = job[x].conn
    BY DEF c
  <2>2. \A y \in Actors : job'[y].conn = job[y].conn
    BY <2>1, <2>c DEF OnlyJob
  <2>3. \A y \in Actors : Connecting(y)' <=> Connecting(y)
    BY <2>1 DEF Connecting
  <2>4. OneInside' /\ CallOnceUp'
    BY <2>1, <2>2, ActorsApart DEF Connections, OneInside, CallOnceUp
  <2>5. ConnectingIsDown'
    <3> SUFFICES ASSUME NEW y \in Actors, Connecting(y)
                 PROVE  /\ ~conns'[job[y].conn].connected /\ job[y].conn \notin broken
                        /\ job'[y].left # {} \/ conns'[job[y].conn].tools # {} => job'[y].up
      BY <2>1, <2>2, <2>3 DEF ConnectingIsDown
    <3>1. CASE y = x
      BY <2>1, <2>c, <3>1 DEF Connections, ConnectingIsDown
    <3>2. CASE y # x
      <4>1. job'[y] = job[y] /\ job[y].conn # c /\ job[y].conn \in 1 .. Len(conns)
        BY <2>1, <2>c, <3>2, Numbers DEF OnlyJob, Connections, OneInside
      <4>2. conns'[job[y].conn] = conns[job[y].conn]
        BY <2>1, <4>1 DEF OnlyConn
      <4> QED BY <4>1, <4>2 DEF Connections, ConnectingIsDown
    <3> QED BY <3>1, <3>2
  <2>6. DownIsBare'
    <3>1. DOMAIN conns' = 1 .. Len(conns) /\ DOMAIN conns = 1 .. Len(conns)
      BY <2>1, Numbers DEF OnlyConn
    <3>2. \A i \in 1 .. Len(conns) : conns'[i].connected = conns[i].connected
      BY <2>1 DEF OnlyConn
    <3>3. \A i \in broken : ~conns'[i].connected
      BY <3>2, Numbers DEF Connections, DownIsBare
    <3>4. ASSUME NEW i \in 1 .. Len(conns), ~conns'[i].connected, ~Locked(i)', i \notin broken
          PROVE  conns'[i].tools = {}
      <4>1. i # c /\ ~Locked(i)
        BY <2>1, <2>2, <2>c, <3>4 DEF Locked
      <4>2. conns'[i] = conns[i]
        BY <2>1, <4>1 DEF OnlyConn
      <4> QED BY <3>1, <3>4, <4>1, <4>2 DEF Connections, DownIsBare
    <3> QED BY <2>1, <3>1, <3>3, <3>4 DEF DownIsBare
  <2> QED BY <2>4, <2>5, <2>6 DEF Connections
<1>13. ASSUME NEW x \in Actors, NoteToolName(x) PROVE Connections'
  <2>1. /\ OnlyJob(x) /\ job'[x].conn = job[x].conn /\ job'[x].left = job[x].left /\ job'[x].up = job[x].up
        /\ UNCHANGED <<conns, broken, hpc, wpc, held>>
    BY <1>13, NoteEffect
  <2>2. \A y \in Actors : /\ job'[y].conn = job[y].conn /\ job'[y].left = job[y].left /\ job'[y].up = job[y].up
                          /\ Connecting(y)' <=> Connecting(y)
    BY <2>1 DEF OnlyJob, Connecting
  <2>3. OneInside' /\ CallOnceUp'
    BY <2>1, <2>2, ActorsApart DEF Connections, OneInside, CallOnceUp
  <2>4. ConnectingIsDown'
    BY <2>1, <2>2 DEF Connections, ConnectingIsDown
  <2>5. DownIsBare'
    BY <2>1, <2>2 DEF Connections, DownIsBare, Locked
  <2> QED BY <2>3, <2>4, <2>5 DEF Connections
<1> QED BY <1>2, <1>3, <1>4, <1>5, <1>6, <1>7, <1>8, <1>9, <1>10, <1>11, <1>12, <1>13, Steps

\* At most one thread is inside a connection, whose Connect or Disconnect the
\* others wait for.
LEMMA ConnectionsInvariant == Spec => []Connections
<1>1. ASSUME Init PROVE Connections
  <2>1. /\ Typing /\ wpc = "idle" /\ hpc = [h \in Handlers |-> "idle"] /\ broken = {}
        /\ \A i \in 1 .. Len(conns) : conns[i].connected
    BY <1>1, InitTyping, BootConns DEF Init
  <2>2. \A x \in Actors : ~Connecting(x) /\ job[x].conn = 0
    BY <2>1, ActorsApart DEF Connecting, Typing, JobTyping
  <2> QED BY <2>1, <2>2, Numbers DEF Connections, OneInside, ConnectingIsDown, CallOnceUp, DownIsBare
<1>2. Typing /\ Connections /\ [Next]_vars => Connections'
  <2>1. CASE UNCHANGED vars
    BY <2>1 DEF vars, Connections, OneInside, ConnectingIsDown, CallOnceUp, DownIsBare, Locked, Connecting
  <2> QED BY <2>1, ConnectionsStep DEF Next
<1> QED BY <1>1, <1>2, TypingInvariant, PTL DEF Spec

-----------------------------------------------------------------------------
(* Whose factories the registry holds.                                     *)

\* The factories part of ServedByLiveConnection, and the names part.
FactoriesServed ==
    \A t \in Tools : factories[t] > 0 =>
      /\ t \in conns[factories[t]].tools
      /\ conns[factories[t]].connected \/ Locked(factories[t]) \/ factories[t] \in broken

NamesServed ==
    \A t \in Tools \ skewed :
      (\A x \in Actors : job[x].cur # t) => (t \in mcpToolNames <=> factories[t] > 0)

\* ServedByLiveConnection made inductive: the factories of a connection being
\* disconnected are among the tools left to unregister, and a tool between the
\* two sections of RegisterMcpTool has its factory.
Served ==
    /\ FactoriesServed /\ NamesServed
    /\ \A h \in Handlers : hpc[h] \in Stopping =>
         /\ job[h].cur = "none"
         /\ \A t \in Tools : factories[t] = job[h].conn => t \in job[h].left
    /\ \A x \in Actors : job[x].cur \in Tools \ skewed => factories[job[x].cur] > 0

LeftToUnregister ==
    \A h \in Handlers : hpc[h] \in Stopping =>
      /\ job[h].cur = "none"
      /\ \A t \in Tools : factories[t] = job[h].conn => t \in job[h].left

BeingNoted == \A x \in Actors : job[x].cur \in Tools \ skewed => factories[job[x].cur] > 0

\* The history of a step: a name is skewed when its factory goes while somebody
\* registers it.
LEMMA SkewedStep ==
    ASSUME Next
    PROVE  skewed' = skewed \cup {t \in Tools : factories'[t] = 0 /\ \E x \in Actors : job[x].cur = t}
BY DEF Next, History

\* Nothing changes for the registry when the connections, the factories and the
\* names stay and no thread goes in or out of a connection with tools.
LEMMA ServedUnchanged ==
    ASSUME Typing, Served, Next, UNCHANGED <<factories, mcpToolNames>>, broken \subseteq broken',
           \A x \in Actors : job'[x].cur = job[x].cur,
           \A t \in Tools : factories[t] > 0 =>
             /\ t \in conns'[factories[t]].tools
             /\ conns'[factories[t]].connected \/ Locked(factories[t])' \/ factories[t] \in broken',
           LeftToUnregister'
    PROVE  Served'
<1>1. FactoriesServed'
  BY DEF FactoriesServed
<1>2. skewed \subseteq skewed' /\ \A t \in Tools \ skewed' : t \notin skewed
  BY SkewedStep
<1>3. NamesServed'
  BY <1>2 DEF Served, NamesServed
<1>4. BeingNoted'
  BY <1>2 DEF Served, BeingNoted
<1> QED BY <1>1, <1>3, <1>4 DEF Served, LeftToUnregister, BeingNoted

\* A thread that leaves Connect keeps Served: its connection is up, has no tools
\* or is noted as broken.
LEMMA LeavingKeepsServed ==
    ASSUME Typing, Connections, Served, Next, NEW x \in Actors, Connecting(x), job[x].cur = "none",
           OnlyConn(job[x].conn), OnlyJob(x), job'[x].conn = 0, job'[x].cur = "none",
           UNCHANGED <<factories, mcpToolNames>>, broken \subseteq broken',
           conns[job[x].conn].tools \subseteq conns'[job[x].conn].tools,
           \/ job[x].conn \in broken'
           \/ conns[job[x].conn].tools # {} => conns'[job[x].conn].connected,
           \A h \in Handlers : hpc'[h] \in Stopping => hpc[h] \in Stopping /\ h # x
    PROVE  Served'
<1> DEFINE c == job[x].conn
<1>0. c \in 1 .. Len(conns) /\ Len(conns) \in Nat /\ \A t \in Tools : factories[t] \in {-1} \cup 0 .. Len(conns)
  BY Numbers
<1>1. \A y \in Actors : job'[y].cur = job[y].cur
  BY DEF OnlyJob
<1>2. ASSUME NEW t \in Tools, factories[t] > 0
      PROVE  /\ t \in conns'[factories[t]].tools
             /\ conns'[factories[t]].connected \/ Locked(factories[t])' \/ factories[t] \in broken'
  <2>0. /\ t \in conns[factories[t]].tools /\ factories[t] \in 1 .. Len(conns)
        /\ conns[factories[t]].connected \/ Locked(factories[t]) \/ factories[t] \in broken
    BY <1>0, <1>2 DEF Served, FactoriesServed
  <2>1. CASE factories[t] = c
    BY <2>0, <2>1
  <2>2. CASE factories[t] # c
    <3>1. conns'[factories[t]] = conns[factories[t]]
      BY <1>0, <2>0, <2>2 DEF OnlyConn
    <3>2. Locked(factories[t]) => Locked(factories[t])'
      BY <2>2 DEF Locked, OnlyJob
    <3> QED BY <2>0, <3>1, <3>2
  <2> QED BY <2>1, <2>2
<1>3. LeftToUnregister'
  BY ActorsApart DEF Served, LeftToUnregister, OnlyJob
<1> QED BY <1>1, <1>2, <1>3, ServedUnchanged

\* Connect's loop keeps Served.
LEMMA DiscoverKeepsServed ==
    ASSUME Typing, Connections, Served, Next, NEW x \in Actors, DiscoverTool(x)
    PROVE  Served'
<1> DEFINE c == job[x].conn
<1>1. /\ c \in 1 .. Len(conns) /\ Connecting(x) /\ OnlyConn(c) /\ OnlyJob(x)
      /\ UNCHANGED <<broken, hpc, wpc>>
  BY DiscoverEffect
<1>2. PICK t \in Tools :
        /\ conns'[c].connected = conns[c].connected
        /\ conns'[c].tools = conns[c].tools \cup {t}
        /\ RegisterTool(t, c)
        /\ job'[x].conn = c /\ job'[x].cur = t
  BY DiscoverEffect
<1>n. job[x].cur = "none" /\ "none" \notin Tools
  BY McpAssumption DEF DiscoverTool
<1> HIDE DEF c
<1>c. c = job[x].conn
  BY DEF c
<1>3. /\ factories' = [factories EXCEPT ![t] = c] /\ UNCHANGED mcpToolNames
      /\ \A u \in Tools : factories[u] \in {-1} \cup 0 .. Len(conns) /\ Len(conns) \in Nat
      /\ factories'[t] = c /\ \A u \in Tools : u # t => factories'[u] = factories[u]
  <2>1. factories' = [factories EXCEPT ![t] = c] /\ UNCHANGED mcpToolNames
    BY <1>2 DEF RegisterTool
  <2>2. factories \in [Tools -> {-1} \cup 0 .. Len(conns)]
    BY DEF Typing, ConnTyping
  <2> QED BY <2>1, <2>2, Numbers
<1>4. skewed \subseteq skewed' /\ \A y \in Actors : job'[y].conn = job[y].conn
  BY <1>1, <1>2, <1>c, SkewedStep DEF OnlyJob
<1>5. FactoriesServed'
  <2> SUFFICES ASSUME NEW u \in Tools, factories'[u] > 0
               PROVE  /\ u \in conns'[factories'[u]].tools
                      /\ \/ conns'[factories'[u]].connected \/ factories'[u] \in broken'
                         \/ \E y \in Actors : job'[y].conn = factories'[u]
    BY DEF FactoriesServed, Locked
  <2>1. CASE u = t
    BY <1>2, <1>3, <2>1
  <2>2. CASE u # t
    <3>1. factories'[u] = factories[u] /\ factories[u] \in 1 .. Len(conns)
      BY <1>3, <2>2
    <3>2. /\ u \in conns[factories[u]].tools
          /\ conns[factories[u]].connected \/ Locked(factories[u]) \/ factories[u] \in broken
      BY <3>1 DEF Served, FactoriesServed
    <3>3. Locked(factories[u]) => \E y \in Actors : job'[y].conn = factories[u]
      BY <1>4 DEF Locked
    <3>4. /\ conns[factories[u]].tools \subseteq conns'[factories[u]].tools
          /\ conns'[factories[u]].connected = conns[factories[u]].connected
      BY <1>1, <1>2, <3>1 DEF OnlyConn
    <3> QED BY <1>1, <3>1, <3>2, <3>3, <3>4
  <2> QED BY <2>1, <2>2
<1>6. NamesServed'
  <2> SUFFICES ASSUME NEW u \in Tools \ skewed', \A y \in Actors : job'[y].cur # u
               PROVE  u \in mcpToolNames' <=> factories'[u] > 0
    BY DEF NamesServed
  <2>1. u # t /\ u \notin skewed
    BY <1>2, <1>4
  <2>2. \A y \in Actors : job[y].cur # u
    BY <1>1, <1>n DEF OnlyJob
  <2> QED BY <1>3, <2>1, <2>2 DEF Served, NamesServed
<1>7. LeftToUnregister'
  <2> SUFFICES ASSUME NEW h \in Handlers, hpc[h] \in Stopping
               PROVE  /\ job'[h].cur = "none"
                      /\ \A u \in Tools : factories'[u] = job'[h].conn => u \in job'[h].left
    BY <1>1 DEF LeftToUnregister
  <2>1. h # x /\ h \in Actors
    BY <1>1, ActorsApart
  <2>2. job'[h] = job[h] /\ job[h].conn # c
    BY <1>1, <1>c, <2>1 DEF OnlyJob, Connections, OneInside
  <2> QED BY <1>3, <2>2 DEF Served
<1>8. BeingNoted'
  <2> SUFFICES ASSUME NEW y \in Actors, job'[y].cur \in Tools \ skewed'
               PROVE  factories'[job'[y].cur] > 0
    BY DEF BeingNoted
  <2>1. CASE job'[y].cur = t
    BY <1>1, <1>3, <2>1
  <2>2. CASE job'[y].cur # t
    BY <1>1, <1>2, <1>3, <1>4, <2>2 DEF OnlyJob, Served
  <2> QED BY <2>1, <2>2
<1> QED BY <1>5, <1>6, <1>7, <1>8 DEF Served, LeftToUnregister, BeingNoted

\* Noting the name keeps Served.
LEMMA NoteKeepsServed ==
    ASSUME Typing, Served, Next, NEW x \in Actors, NoteToolName(x)
    PROVE  Served'
<1> DEFINE u == job[x].cur
<1>1. /\ u \in Tools /\ Connecting(x) /\ OnlyJob(x)
      /\ mcpToolNames' = mcpToolNames \cup {u}
      /\ job'[x].conn = job[x].conn /\ job'[x].left = job[x].left /\ job'[x].cur = "none"
      /\ UNCHANGED <<conns, factories, broken, hpc, wpc>>
  BY NoteEffect
<1>n. "none" \notin Tools
  BY McpAssumption
<1> HIDE DEF u
<1>c. u = job[x].cur
  BY DEF u
<1>2. skewed \subseteq skewed'
  BY SkewedStep
<1>3. \A y \in Actors : job'[y].conn = job[y].conn /\ job'[y].left = job[y].left
  BY <1>1 DEF OnlyJob
<1>4. FactoriesServed'
  BY <1>1, <1>3 DEF Served, FactoriesServed, Locked
<1>5. NamesServed'
  <2> SUFFICES ASSUME NEW t \in Tools \ skewed', \A y \in Actors : job'[y].cur # t
               PROVE  t \in mcpToolNames' <=> factories[t] > 0
    BY <1>1 DEF NamesServed
  <2>1. CASE t = u
    <3>1. factories[t] > 0
      BY <1>2, <1>c, <2>1 DEF Served
    <3> QED BY <1>1, <2>1, <3>1
  <2>2. CASE t # u
    <3>1. \A y \in Actors : job[y].cur # t
      BY <1>1, <1>c, <2>2 DEF OnlyJob
    <3> QED BY <1>1, <1>2, <2>2, <3>1 DEF Served, NamesServed
  <2> QED BY <2>1, <2>2
<1>6. LeftToUnregister'
  <2> SUFFICES ASSUME NEW h \in Handlers, hpc[h] \in Stopping
               PROVE  /\ job'[h].cur = "none"
                      /\ \A t \in Tools : factories[t] = job'[h].conn => t \in job'[h].left
    BY <1>1 DEF LeftToUnregister
  <2>1. h \in Actors /\ h # x
    BY <1>1, ActorsApart
  <2> QED BY <1>1, <2>1 DEF OnlyJob, Served
<1>7. BeingNoted'
  <2> SUFFICES ASSUME NEW y \in Actors, job'[y].cur \in Tools \ skewed'
               PROVE  factories[job'[y].cur] > 0
    BY <1>1 DEF BeingNoted
  <2>1. y # x
    BY <1>1, <1>n
  <2> QED BY <1>1, <1>2, <2>1 DEF OnlyJob, Served
<1> QED BY <1>4, <1>5, <1>6, <1>7 DEF Served, LeftToUnregister, BeingNoted

\* Disconnect's loop keeps Served: a name that somebody registers at the same
\* time is skewed from now on.
LEMMA UnregisterKeepsServed ==
    ASSUME Typing, Served, Next, NEW h \in Handlers, UnregisterTools(h)
    PROVE  Served'
<1>1. /\ hpc[h] \in Stopping /\ OnlyJob(h) /\ h \in Actors
      /\ job'[h].conn = job[h].conn /\ job'[h].cur = job[h].cur
      /\ UNCHANGED <<conns, broken, hpc, wpc>>
  BY UnregisterEffect, ActorsApart
<1>2. PICK t \in Tools : UnregisterMcpTool(t) /\ job'[h].left = job[h].left \ {t}
  BY UnregisterEffect
<1>3. /\ factories'[t] = 0 /\ (\A u \in Tools : u # t => factories'[u] = factories[u])
      /\ mcpToolNames' = mcpToolNames \ {t}
  <2>1. factories' = [factories EXCEPT ![t] = 0] /\ mcpToolNames' = mcpToolNames \ {t}
    BY <1>2 DEF UnregisterMcpTool
  <2>2. factories \in [Tools -> {-1} \cup 0 .. Len(conns)]
    BY DEF Typing, ConnTyping
  <2> QED BY <2>1, <2>2
<1>4. \A y \in Actors : job'[y].conn = job[y].conn /\ job'[y].cur = job[y].cur
  BY <1>1 DEF OnlyJob
<1>5. skewed \subseteq skewed' /\ (t \in skewed' \/ \A y \in Actors : job[y].cur # t)
  BY <1>3, SkewedStep
<1>6. FactoriesServed'
  BY <1>1, <1>3, <1>4 DEF Served, FactoriesServed, Locked
<1>7. NamesServed'
  BY <1>3, <1>4, <1>5 DEF Served, NamesServed
<1>8. LeftToUnregister'
  <2> SUFFICES ASSUME NEW k \in Handlers, hpc[k] \in Stopping
               PROVE  /\ job'[k].cur = "none"
                      /\ \A u \in Tools : factories'[u] = job'[k].conn => u \in job'[k].left
    BY <1>1 DEF LeftToUnregister
  <2>0. k \in Actors /\ job'[k].cur = "none"
    BY <1>4, ActorsApart DEF Served
  <2>1. ASSUME NEW u \in Tools, factories'[u] = job'[k].conn PROVE u \in job'[k].left
    <3>0. job[k].conn \in 1 .. Len(conns) /\ Len(conns) \in Nat
      BY Numbers
    <3>1. u # t
      BY <1>3, <1>4, <2>0, <2>1, <3>0
    <3>2. u \in job[k].left
      BY <1>3, <1>4, <2>0, <2>1, <3>1 DEF Served
    <3>3. CASE k = h
      BY <1>2, <3>1, <3>2, <3>3
    <3>4. CASE k # h
      BY <1>1, <2>0, <3>2, <3>4 DEF OnlyJob
    <3> QED BY <3>3, <3>4
  <2> QED BY <2>0, <2>1
<1>9. BeingNoted'
  <2> SUFFICES ASSUME NEW y \in Actors, job'[y].cur \in Tools \ skewed'
               PROVE  factories'[job'[y].cur] > 0
    BY DEF BeingNoted
  <2>1. job[y].cur \in Tools \ skewed /\ job[y].cur # t
    BY <1>4, <1>5
  <2> QED BY <1>3, <1>4, <2>1 DEF Served
<1> QED BY <1>6, <1>7, <1>8, <1>9 DEF Served, LeftToUnregister, BeingNoted

\* Served is inductive: Disconnect takes the tools of the connection out of the
\* registry before it lets go of it, and a connection that CallTool connects
\* again had none there.
LEMMA ServedStep ==
    ASSUME Typing, Connections, Served, Next
    PROVE  Served'
<1>0. HandlerTyping /\ WorkerTyping /\ JobTyping /\ Step
  BY DEF Typing, Next
<1>1. ASSUME UNCHANGED <<conns, job, broken, factories, mcpToolNames>>,
             \A h \in Handlers : hpc'[h] \in Stopping => hpc[h] \in Stopping
      PROVE  Served'
  <2>1. \A t \in Tools : factories[t] > 0 =>
             /\ t \in conns'[factories[t]].tools
             /\ conns'[factories[t]].connected \/ Locked(factories[t])' \/ factories[t] \in broken'
    BY <1>1 DEF Served, FactoriesServed, Locked
  <2>2. LeftToUnregister'
    BY <1>1 DEF Served, LeftToUnregister
  <2> QED BY <1>1, <2>1, <2>2, ServedUnchanged
<1>2. ASSUME Plain PROVE Served'
  <2>0. UNCHANGED <<conns, job, broken, factories, mcpToolNames>>
    BY <1>2, PlainEffect
  <2>1. ASSUME NEW h \in Handlers,
               \/ EditServers(h) \/ ToFrameworkConfigs(h) \/ Load(h) \/ LoadReturns(h)
               \/ SyncDiff(h) \/ SyncMerge(h)
        PROVE  \A k \in Handlers : hpc'[k] \in Stopping => hpc[k] \in Stopping
    BY <1>0, <2>1 DEF EditServers, ToFrameworkConfigs, Load, LoadReturns, SyncDiff, SyncMerge, HandlerTyping
  <2>2. \/ \E h \in Handlers : \/ EditServers(h) \/ ToFrameworkConfigs(h) \/ Load(h) \/ LoadReturns(h)
                               \/ SyncDiff(h) \/ SyncMerge(h)
        \/ UNCHANGED hpc
    BY <1>2 DEF Plain, BuildToolSchemas, CreateTool, StoreSchema, InvokeTool
  <2> QED BY <1>1, <2>0, <2>1, <2>2
<1>3. ASSUME NEW x \in Actors, OnlyJob(x), UNCHANGED <<broken, factories, mcpToolNames>>,
             job[x].conn = 0, job[x].cur = "none", job'[x].cur = "none",
             \A i \in 1 .. Len(conns) : conns'[i] = conns[i], LeftToUnregister'
      PROVE  Served'
  <2>1. \A y \in Actors : job'[y].cur = job[y].cur
    BY <1>3 DEF OnlyJob
  <2>2. ASSUME NEW t \in Tools, factories[t] > 0
        PROVE  /\ t \in conns'[factories[t]].tools
               /\ conns'[factories[t]].connected \/ Locked(factories[t])' \/ factories[t] \in broken'
    <3>1. factories[t] \in 1 .. Len(conns)
      BY <2>2, Numbers
    <3>2. Locked(factories[t]) => Locked(factories[t])'
      BY <1>3, <2>2 DEF Locked, OnlyJob
    <3> QED BY <1>3, <2>2, <3>1, <3>2 DEF Served, FactoriesServed
  <2> QED BY <1>3, <2>1, <2>2, ServedUnchanged
<1>j. \A x \in Actors : job[x].conn = 0 => job[x].cur = "none"
  BY <1>0 DEF JobTyping
<1>4. ASSUME NEW h \in Handlers, StopMissing(h) \/ Apply(h) \/ Remove(h) PROVE Served'
  <2>0. UNCHANGED <<conns, broken, factories, mcpToolNames>> /\ hpc[h] \in {"loop", "remove"} /\ h \in Actors
    BY <1>4, PickEffect, ActorsApart DEF StopMissing, Apply, Remove
  <2>1. CASE /\ UNCHANGED job
             /\ UNCHANGED hpc \/ hpc' = [hpc EXCEPT ![h] = "start"] \/ hpc' = [hpc EXCEPT ![h] = "sync"]
    <3>1. \A k \in Handlers : hpc'[k] \in Stopping => hpc[k] \in Stopping
      BY <1>0, <2>1 DEF HandlerTyping
    <3> QED BY <1>1, <2>0, <2>1, <3>1
  <2>2. ASSUME NEW s \in Servers, NEW pc \in Stopping, servers[s] # 0, BeginStop(h, s, pc)
        PROVE  Served'
    <3> DEFINE c == servers[s]
    <3>1. /\ c \in 1 .. Len(conns) /\ OnlyJob(h) /\ job'[h].conn = c /\ job'[h].left = conns[c].tools
          /\ job'[h].cur = "none" /\ hpc' = [hpc EXCEPT ![h] = pc]
      BY <2>2, BeginStopEffect
    <3> HIDE DEF c
    <3>2. job[h].conn = 0 /\ job[h].cur = "none"
      BY <1>0, <1>j, <2>0 DEF JobTyping
    <3>3. \A k \in Handlers : k # h => hpc'[k] = hpc[k]
      BY <1>0, <3>1 DEF HandlerTyping
    <3>4. LeftToUnregister'
      <4> SUFFICES ASSUME NEW k \in Handlers, hpc'[k] \in Stopping
                   PROVE  /\ job'[k].cur = "none"
                          /\ \A t \in Tools : factories[t] = job'[k].conn => t \in job'[k].left
        BY <2>0 DEF LeftToUnregister
      <4>1. CASE k = h
        <5>1. ASSUME NEW t \in Tools, factories[t] = c PROVE t \in conns[c].tools
          BY <3>1, <5>1, Numbers DEF Served, FactoriesServed
        <5> QED BY <3>1, <4>1, <5>1
      <4>2. CASE k # h
        <5>1. hpc[k] \in Stopping /\ job'[k] = job[k]
          BY <3>1, <3>3, <4>2, ActorsApart DEF OnlyJob
        <5> QED BY <5>1 DEF Served
      <4> QED BY <4>1, <4>2
    <3> QED BY <1>3, <2>0, <3>1, <3>2, <3>4
  <2> QED BY <1>4, <2>1, <2>2, PickEffect
<1>5. ASSUME NEW h \in Handlers, StartServerLocked(h) PROVE Served'
  <2>0. hpc[h] = "start" /\ UNCHANGED <<broken, factories, mcpToolNames>> /\ h \in Actors
    BY <1>5, StartEffect, ActorsApart
  <2>1. CASE hpc' = [hpc EXCEPT ![h] = "loop"] /\ UNCHANGED <<conns, job>>
    <3>1. \A k \in Handlers : hpc'[k] \in Stopping => hpc[k] \in Stopping
      BY <1>0, <2>1 DEF HandlerTyping
    <3> QED BY <1>1, <2>0, <2>1, <3>1
  <2>2. CASE /\ hpc' = [hpc EXCEPT ![h] = "connect"] /\ OnlyJob(h) /\ job'[h].cur = "none"
             /\ \A i \in 1 .. Len(conns) : conns'[i] = conns[i]
    <3>1. job[h].conn = 0 /\ job[h].cur = "none"
      BY <1>0, <1>j, <2>0 DEF JobTyping
    <3>2. hpc'[h] = "connect" /\ \A k \in Handlers : k # h => hpc'[k] = hpc[k]
      BY <1>0, <2>2 DEF HandlerTyping
    <3>3. LeftToUnregister'
      <4> SUFFICES ASSUME NEW k \in Handlers, hpc'[k] \in Stopping
                   PROVE  /\ job'[k].cur = "none"
                          /\ \A t \in Tools : factories[t] = job'[k].conn => t \in job'[k].left
        BY <2>0 DEF LeftToUnregister
      <4>1. hpc[k] \in Stopping /\ job'[k] = job[k]
        BY <2>2, <3>2, ActorsApart DEF OnlyJob
      <4> QED BY <4>1 DEF Served
    <3> QED BY <1>3, <2>0, <2>2, <3>1, <3>3
  <2> QED BY <1>5, <2>1, <2>2, StartEffect
<1>6. CASE CallTool
  <2>0. wpc = "call" /\ UNCHANGED <<conns, broken, factories, mcpToolNames, hpc>> /\ Worker \in Actors
    BY <1>6, CallEffect, ActorsApart
  <2>1. CASE UNCHANGED job
    BY <1>1, <2>0, <2>1
  <2>2. CASE OnlyJob(Worker) /\ job'[Worker].cur = "none"
    <3>1. job[Worker].conn = 0 /\ job[Worker].cur = "none"
      BY <1>0, <1>j, <2>0 DEF JobTyping
    <3>2. LeftToUnregister'
      BY <2>0, <2>2, ActorsApart DEF Served, LeftToUnregister, OnlyJob
    <3> QED BY <1>3, <2>0, <2>2, <3>1, <3>2
  <2> QED BY <1>6, <2>1, <2>2, CallEffect
<1>7. ASSUME NEW x \in Actors, EndConnect(x), UNCHANGED <<broken, factories, mcpToolNames>>,
             \A h \in Handlers : hpc'[h] \in Stopping => hpc[h] \in Stopping /\ h # x
      PROVE  Served'
  <2>1. /\ Connecting(x) /\ job[x].cur = "none" /\ OnlyConn(job[x].conn) /\ OnlyJob(x)
        /\ conns'[job[x].conn].tools = conns[job[x].conn].tools /\ conns'[job[x].conn].connected = job[x].up
        /\ job'[x].conn = 0 /\ job'[x].cur = "none"
    BY <1>7, EndEffect
  <2>2. conns[job[x].conn].tools # {} => conns'[job[x].conn].connected
    BY <2>1 DEF Connections, ConnectingIsDown
  <2> QED BY <1>7, <2>1, <2>2, LeavingKeepsServed
<1>8. ASSUME NEW x \in Actors, ConnectThrows(x), UNCHANGED <<factories, mcpToolNames>>,
             \A h \in Handlers : hpc'[h] \in Stopping => hpc[h] \in Stopping /\ h # x
      PROVE  Served'
  <2>1. /\ Connecting(x) /\ job[x].cur = "none" /\ OnlyConn(job[x].conn) /\ OnlyJob(x)
        /\ conns[job[x].conn].tools \subseteq conns'[job[x].conn].tools /\ broken' = broken \cup {job[x].conn}
        /\ job'[x].conn = 0 /\ job'[x].cur = "none"
    BY <1>8, ThrowEffect
  <2> QED BY <1>8, <2>1, LeavingKeepsServed
<1>9. ASSUME NEW h \in Handlers, ServerStarted(h) \/ LoadThrows(h) PROVE Served'
  <2>1. /\ UNCHANGED <<factories, mcpToolNames>> /\ h \in Actors
        /\ hpc' = [hpc EXCEPT ![h] = "loop"] \/ hpc' = [hpc EXCEPT ![h] = "idle"]
        /\ (EndConnect(h) /\ UNCHANGED broken) \/ ConnectThrows(h)
    BY <1>9, ActorsApart DEF ServerStarted, LoadThrows
  <2>2. \A k \in Handlers : hpc'[k] \in Stopping => hpc[k] \in Stopping /\ k # h
    BY <1>0, <2>1 DEF HandlerTyping
  <2> QED BY <1>7, <1>8, <2>1, <2>2
<1>10. CASE Reconnected \/ CallThrows
  <2>1. /\ UNCHANGED <<factories, mcpToolNames, hpc>> /\ Worker \in Actors
        /\ (EndConnect(Worker) /\ UNCHANGED broken) \/ ConnectThrows(Worker)
    BY <1>10, ActorsApart DEF Reconnected, CallThrows
  <2> QED BY <1>7, <1>8, <2>1, ActorsApart
<1>11. ASSUME NEW h \in Handlers, StopServerLocked(h) PROVE Served'
  <2> DEFINE c == job[h].conn
  <2>1. /\ hpc[h] \in Stopping /\ job[h].left = {} /\ c \in 1 .. Len(conns) /\ h \in Actors
        /\ OnlyConn(c) /\ OnlyJob(h) /\ job'[h].conn = 0 /\ job'[h].cur = "none"
        /\ UNCHANGED <<factories, mcpToolNames, broken>>
    BY <1>11, StopEffect, ActorsApart
  <2>2. \E pc \in {"loop", "start", "sync"} : hpc' = [hpc EXCEPT ![h] = pc]
    BY <1>11 DEF StopServerLocked
  <2>3. \A k \in Handlers : hpc'[k] \in Stopping => hpc[k] \in Stopping /\ k # h
    BY <1>0, <2>2 DEF HandlerTyping
  <2> HIDE DEF c
  <2>c. c = job[h].conn
    BY DEF c
  <2>4. \A y \in Actors : job'[y].cur = job[y].cur
    BY <2>1 DEF OnlyJob, Served
  <2>5. ASSUME NEW t \in Tools, factories[t] > 0
        PROVE  /\ t \in conns'[factories[t]].tools
               /\ conns'[factories[t]].connected \/ Locked(factories[t])' \/ factories[t] \in broken'
    <3>1. factories[t] \in 1 .. Len(conns) /\ factories[t] # c
      BY <2>1, <2>c, <2>5, Numbers DEF Served
    <3>2. conns'[factories[t]] = conns[factories[t]]
      BY <2>1, <3>1 DEF OnlyConn
    <3>3. Locked(factories[t]) => Locked(factories[t])'
      BY <2>1, <2>c, <3>1 DEF Locked, OnlyJob
    <3> QED BY <2>1, <2>5, <3>2, <3>3 DEF Served, FactoriesServed
  <2>6. LeftToUnregister'
    BY <2>1, <2>3, ActorsApart DEF Served, LeftToUnregister, OnlyJob
  <2> QED BY <2>1, <2>4, <2>5, <2>6, ServedUnchanged
<1> QED BY <1>0, <1>2, <1>4, <1>5, <1>6, <1>9, <1>10, <1>11, DiscoverKeepsServed, NoteKeepsServed,
           UnregisterKeepsServed, Steps

\* A factory the registry hands out belongs to a connection that lists the tool
\* and that is up, is being connected or disconnected at this moment, or whose
\* Connect threw; and outside RegisterMcpTool mcpToolNames_ names exactly the
\* factories of connections, but for a name whose factory went inside it.
THEOREM FactoriesAreLive == Spec => []ServedByLiveConnection
<1>1. ASSUME Init PROVE Served
  <2>1. /\ Len(BootOrder) \in Nat /\ mcpToolNames = {t \in Tools : Providers(t) # {}} /\ Typing
        /\ hpc = [h \in Handlers |-> "idle"] /\ wpc = "idle"
    BY <1>1, McpAssumption, InitTyping DEF Init
  <2>2. \A x \in Actors : job[x].conn = 0 /\ job[x].cur = "none"
    BY <2>1, ActorsApart DEF Typing, JobTyping
  <2>3. "none" \notin Tools
    BY McpAssumption
  <2>4. FactoriesServed /\ NamesServed
    BY <1>1, <2>1, BootConns, BootFactory DEF FactoriesServed, NamesServed
  <2> QED BY <2>1, <2>2, <2>3, <2>4 DEF Served
<1>2. Typing /\ Connections /\ Served /\ [Next]_vars => Served'
  <2>0. SUFFICES ASSUME Typing, Connections, Served, [Next]_vars PROVE Served'
    OBVIOUS
  <2>1. CASE UNCHANGED vars
    <3>0. UNCHANGED <<conns, job, broken, factories, mcpToolNames, hpc, skewed>>
      BY <2>1 DEF vars, registryVars, handlerVars, historyVars
    <3>1. FactoriesServed'
      BY <2>0, <3>0 DEF Served, FactoriesServed, Locked
    <3>2. NamesServed'
      BY <2>0, <3>0 DEF Served, NamesServed
    <3>3. LeftToUnregister'
      BY <2>0, <3>0 DEF Served, LeftToUnregister
    <3> QED BY <2>0, <3>0, <3>1, <3>2, <3>3 DEF Served
  <2> QED BY <2>0, <2>1, ServedStep
<1>3. Served => ServedByLiveConnection
  BY DEF Served, FactoriesServed, NamesServed, ServedByLiveConnection
<1> QED BY <1>1, <1>2, <1>3, TypingInvariant, ConnectionsInvariant, PTL DEF Spec

-----------------------------------------------------------------------------
(* One connection per server.                                              *)

\* Both maps name the same connections, of the right servers, and no other
\* connection is up but those that a call reconnected.
MapsAgree ==
    /\ servers = mcpServers
    /\ \A s \in Servers : servers[s] # 0 => conns[servers[s]].server = s
    /\ \A c \in DOMAIN conns : conns[c].connected /\ c \notin revived => servers[conns[c].server] = c

\* What a handler inside Load or Remove relies on: the server to start has no
\* connection, the one it connects is of that server, and the one it stops is
\* the one both maps name.
HandlerHolds(h) ==
    /\ hpc[h] \in {"start", "connect"} => servers[starting[h]] = 0
    /\ hpc[h] = "connect" => conns[job[h].conn].server = starting[h]
    /\ hpc[h] \in Stopping => job[h].conn = servers[starting[h]]

\* OneConnectionPerServer made inductive.
SameServer == MapsAgree /\ \A h \in Handlers : HandlerHolds(h)

\* The servers of the connections, and the connections of the servers.
LEMMA ServerNumbers ==
    ASSUME Typing
    PROVE  /\ \A i \in 1 .. Len(conns) : conns[i].server \in Servers
           /\ servers \in [Servers -> 0 .. Len(conns)] /\ mcpServers \in [Servers -> 0 .. Len(conns)]
<1>1. \A i \in 1 .. Len(conns) : conns[i] \in ConnType
  BY Numbers
<1> QED BY <1>1 DEF ConnType, Typing, ConnTyping

\* A step that leaves both maps alone and brings up only connections that it
\* notes as revived.
LEMMA MapsKept ==
    ASSUME Typing, MapsAgree, UNCHANGED <<servers, mcpServers>>, revived \subseteq revived',
           conns' \in Seq(ConnType), Len(conns') \in Nat, Len(conns') >= Len(conns),
           \A i \in 1 .. Len(conns) : /\ conns'[i].server = conns[i].server
                                      /\ conns'[i].connected => conns[i].connected \/ i \in revived',
           \A i \in 1 .. Len(conns') : i > Len(conns) => ~conns'[i].connected
    PROVE  MapsAgree'
<1>1. DOMAIN conns = 1 .. Len(conns) /\ DOMAIN conns' = 1 .. Len(conns') /\ Len(conns) \in Nat
  BY Numbers
<1>2. \A s \in Servers : servers[s] # 0 => servers[s] \in 1 .. Len(conns)
  BY <1>1, ServerNumbers
<1>3. \A s \in Servers : servers'[s] # 0 => conns'[servers'[s]].server = s
  BY <1>2 DEF MapsAgree
<1>4. ASSUME NEW c \in 1 .. Len(conns'), conns'[c].connected, c \notin revived'
      PROVE  servers'[conns'[c].server] = c
  <2>1. c \in 1 .. Len(conns)
    BY <1>1, <1>4
  <2> QED BY <1>1, <1>4, <2>1 DEF MapsAgree
<1> QED BY <1>1, <1>3, <1>4 DEF MapsAgree

\* A handler that a step leaves where it is keeps what it relies on.
LEMMA HoldingKept ==
    ASSUME Typing, NEW k \in Handlers, HandlerHolds(k), UNCHANGED servers,
           hpc'[k] = hpc[k], starting'[k] = starting[k], job'[k].conn = job[k].conn,
           \A i \in 1 .. Len(conns) : conns'[i].server = conns[i].server
    PROVE  HandlerHolds(k)'
BY Numbers, ActorsApart DEF HandlerHolds

\* While one handler is inside Load or Remove, the others hold nothing.
LEMMA OthersHoldNothing ==
    ASSUME Typing, NEW h \in Handlers, hpc[h] \in InManager, NEW k \in Handlers, k # h, hpc'[k] = hpc[k]
    PROVE  HandlerHolds(k)'
<1>1. hpc[k] \notin InManager
  BY DEF Typing, HandlerTyping
<1> QED BY <1>1 DEF HandlerHolds, InManager

\* A step of the worker, or of a handler that stays where it is.
LEMMA SameServerKept ==
    ASSUME Typing, SameServer, UNCHANGED <<servers, mcpServers, hpc, starting>>, revived \subseteq revived',
           conns' \in Seq(ConnType), Len(conns') = Len(conns),
           \A h \in Handlers : job'[h].conn = job[h].conn,
           \A i \in 1 .. Len(conns) : /\ conns'[i].server = conns[i].server
                                      /\ conns'[i].connected => conns[i].connected \/ i \in revived'
    PROVE  SameServer'
<1>1. MapsAgree'
  BY MapsKept, Numbers DEF SameServer
<1>2. ASSUME NEW h \in Handlers PROVE HandlerHolds(h)'
  BY <1>2, HoldingKept DEF SameServer
<1> QED BY <1>1, <1>2 DEF SameServer

\* The steps that leave the manager.
LEMMA PlainKeepsServers ==
    ASSUME Typing, SameServer, Plain
    PROVE  SameServer'
<1>0. UNCHANGED <<conns, job, servers, mcpServers, revived>> /\ conns \in Seq(ConnType) /\ HandlerTyping
  BY PlainEffect, Numbers DEF Typing
<1>1. MapsAgree'
  BY <1>0 DEF SameServer, MapsAgree
<1>2. ASSUME NEW h \in Handlers,
             \/ EditServers(h) \/ ToFrameworkConfigs(h) \/ Load(h) \/ LoadReturns(h)
             \/ SyncDiff(h) \/ SyncMerge(h)
      PROVE  \A k \in Handlers : HandlerHolds(k)'
  <2>1. /\ hpc'[h] \notin {"start", "connect"} \cup Stopping
        /\ \A k \in Handlers : k # h => hpc'[k] = hpc[k] /\ starting'[k] = starting[k]
    <3>1. CASE EditServers(h)
      <4>1. PICK s \in Servers :
               \/ hpc' = [hpc EXCEPT ![h] = "convert"] /\ UNCHANGED starting
               \/ hpc' = [hpc EXCEPT ![h] = "remove"] /\ starting' = [starting EXCEPT ![h] = s]
        BY <3>1 DEF EditServers
      <4> QED BY <1>0, <4>1 DEF HandlerTyping
    <3>2. CASE ToFrameworkConfigs(h) \/ Load(h) \/ LoadReturns(h) \/ SyncDiff(h) \/ SyncMerge(h)
      BY <1>0, <3>2 DEF ToFrameworkConfigs, Load, LoadReturns, SyncDiff, SyncMerge, HandlerTyping
    <3> QED BY <1>2, <3>1, <3>2
  <2>2. ASSUME NEW k \in Handlers PROVE HandlerHolds(k)'
    <3>1. CASE k = h
      BY <2>1, <3>1 DEF HandlerHolds
    <3>2. CASE k # h
      BY <1>0, <2>1, <3>2, HoldingKept DEF SameServer
    <3> QED BY <3>1, <3>2
  <2> QED BY <2>2
<1>3. ASSUME UNCHANGED <<hpc, starting>> PROVE \A k \in Handlers : HandlerHolds(k)'
  BY <1>0, <1>3, HoldingKept DEF SameServer
<1>4. \/ \E h \in Handlers : \/ EditServers(h) \/ ToFrameworkConfigs(h) \/ Load(h) \/ LoadReturns(h)
                             \/ SyncDiff(h) \/ SyncMerge(h)
      \/ UNCHANGED <<hpc, starting>>
  BY DEF Plain, BuildToolSchemas, CreateTool, StoreSchema, InvokeTool
<1> QED BY <1>1, <1>2, <1>3, <1>4 DEF SameServer

\* Picking the next server of Load's loops, or the one to remove.
LEMMA PickKeepsServers ==
    ASSUME Typing, SameServer, NEW h \in Handlers, StopMissing(h) \/ Apply(h) \/ Remove(h)
    PROVE  SameServer'
<1>0. UNCHANGED <<conns, servers, mcpServers, revived>> /\ HandlerTyping
  BY PickEffect DEF Typing
<1>1. MapsAgree'
  BY <1>0 DEF SameServer, MapsAgree
<1>2. ASSUME \A k \in Handlers : k # h => hpc'[k] = hpc[k] /\ starting'[k] = starting[k] /\ job'[k] = job[k],
             HandlerHolds(h)'
      PROVE  SameServer'
  <2>1. ASSUME NEW k \in Handlers, k # h PROVE HandlerHolds(k)'
    BY <1>0, <1>2, <2>1, HoldingKept DEF SameServer
  <2> QED BY <1>1, <1>2, <2>1 DEF SameServer
<1>3. CASE UNCHANGED <<job, starting, hpc>>
  <2>1. HandlerHolds(h)'
    BY <1>0, <1>3, HoldingKept DEF SameServer
  <2> QED BY <1>2, <1>3, <2>1
<1>4. ASSUME NEW s \in Servers, servers[s] = 0, UNCHANGED job,
             starting' = [starting EXCEPT ![h] = s], hpc' = [hpc EXCEPT ![h] = "start"]
      PROVE  SameServer'
  <2>1. /\ hpc'[h] = "start" /\ starting'[h] = s
        /\ \A k \in Handlers : k # h => hpc'[k] = hpc[k] /\ starting'[k] = starting[k] /\ job'[k] = job[k]
    BY <1>0, <1>4 DEF HandlerTyping
  <2>2. HandlerHolds(h)'
    BY <1>0, <1>4, <2>1 DEF HandlerHolds
  <2> QED BY <1>2, <2>1, <2>2
<1>5. CASE /\ UNCHANGED job
           /\ starting' = [starting EXCEPT ![h] = NoServer] /\ hpc' = [hpc EXCEPT ![h] = "sync"]
  <2>1. /\ hpc'[h] = "sync"
        /\ \A k \in Handlers : k # h => hpc'[k] = hpc[k] /\ starting'[k] = starting[k] /\ job'[k] = job[k]
    BY <1>0, <1>5 DEF HandlerTyping
  <2>2. HandlerHolds(h)'
    BY <2>1 DEF HandlerHolds
  <2> QED BY <1>2, <2>1, <2>2
<1>6. ASSUME NEW s \in Servers, NEW pc \in Stopping, servers[s] # 0, BeginStop(h, s, pc)
      PROVE  SameServer'
  <2>1. /\ OnlyJob(h) /\ job'[h].conn = servers[s]
        /\ starting' = [starting EXCEPT ![h] = s] /\ hpc' = [hpc EXCEPT ![h] = pc]
    BY <1>6, BeginStopEffect
  <2>2. /\ hpc'[h] = pc /\ starting'[h] = s
        /\ \A k \in Handlers : k # h => hpc'[k] = hpc[k] /\ starting'[k] = starting[k] /\ job'[k] = job[k]
    BY <1>0, <2>1, ActorsApart DEF HandlerTyping, OnlyJob
  <2>3. HandlerHolds(h)'
    BY <1>0, <2>1, <2>2 DEF HandlerHolds
  <2> QED BY <1>2, <2>2, <2>3
<1> QED BY <1>3, <1>4, <1>5, <1>6, PickEffect

\* A new connection is down and of the server about to start.
LEMMA StartKeepsServers ==
    ASSUME Typing, SameServer, NEW h \in Handlers, StartServerLocked(h)
    PROVE  SameServer'
<1> DEFINE s == starting[h]
           c == Len(conns) + 1
<1>0. /\ hpc[h] = "start" /\ hpc[h] \in InManager /\ HandlerTyping /\ h \in Actors
      /\ UNCHANGED <<servers, mcpServers, revived>> /\ Len(conns) \in Nat /\ conns \in Seq(ConnType)
  BY StartEffect, ActorsApart, Numbers DEF InManager, Typing
<1>1. ASSUME MapsAgree', HandlerHolds(h)', \E pc : hpc' = [hpc EXCEPT ![h] = pc] PROVE SameServer'
  <2>1. ASSUME NEW k \in Handlers, k # h PROVE HandlerHolds(k)'
    <3>1. hpc'[k] = hpc[k]
      BY <1>0, <1>1, <2>1 DEF HandlerTyping
    <3> QED BY <1>0, <2>1, <3>1, OthersHoldNothing
  <2> QED BY <1>1, <2>1 DEF SameServer
<1>2. CASE hpc' = [hpc EXCEPT ![h] = "loop"] /\ UNCHANGED <<conns, job>>
  <2>1. MapsAgree'
    BY <1>0, <1>2 DEF SameServer, MapsAgree
  <2>2. hpc'[h] = "loop"
    BY <1>0, <1>2 DEF HandlerTyping
  <2>3. HandlerHolds(h)'
    BY <2>2 DEF HandlerHolds
  <2> QED BY <1>1, <1>2, <2>1, <2>3
<1>3. CASE /\ hpc' = [hpc EXCEPT ![h] = "connect"] /\ UNCHANGED starting
           /\ conns' \in Seq(ConnType) /\ Len(conns') = c
           /\ \A i \in 1 .. Len(conns) : conns'[i] = conns[i]
           /\ conns'[c].server = s /\ conns'[c].connected = FALSE
           /\ job'[h].conn = c
  <2>1. MapsAgree'
    <3>1. \A i \in 1 .. Len(conns') : i > Len(conns) => ~conns'[i].connected
      BY <1>0, <1>3
    <3>2. Len(conns') \in Nat /\ Len(conns') >= Len(conns)
      BY <1>0, <1>3
    <3> QED BY <1>0, <1>3, <3>1, <3>2, MapsKept DEF SameServer
  <2>2. hpc'[h] = "connect"
    BY <1>0, <1>3 DEF HandlerTyping
  <2>3. servers[s] = 0
    BY <1>0 DEF SameServer, HandlerHolds
  <2>4. HandlerHolds(h)'
    BY <1>0, <1>3, <2>2, <2>3 DEF HandlerHolds
  <2> QED BY <1>1, <1>3, <2>1, <2>4
<1> QED BY <1>2, <1>3, StartEffect

\* Connect returned to the handler: both maps record the connection.
LEMMA StartedKeepsServers ==
    ASSUME Typing, SameServer, NEW h \in Handlers, ServerStarted(h)
    PROVE  SameServer'
<1> DEFINE s == starting[h]
           c == job[h].conn
<1>0. /\ h \in Actors /\ EndConnect(h) /\ servers' = [servers EXCEPT ![s] = c]
      /\ mcpServers' = [mcpServers EXCEPT ![s] = c] /\ hpc' = [hpc EXCEPT ![h] = "loop"] /\ UNCHANGED revived
  BY ActorsApart DEF ServerStarted
<1>1. /\ c \in 1 .. Len(conns) /\ hpc[h] = "connect" /\ OnlyConn(c)
  BY <1>0, EndEffect, ActorsApart
<1>2. s \in Servers /\ hpc[h] \in InManager /\ HandlerTyping /\ servers[s] = 0 /\ conns[c].server = s
  BY <1>1 DEF Typing, HandlerTyping, InManager, SameServer, HandlerHolds
<1> HIDE DEF s, c
<1>3. hpc'[h] = "loop" /\ \A k \in Handlers : k # h => hpc'[k] = hpc[k]
  BY <1>0, <1>2 DEF HandlerTyping
<1>4. HandlerHolds(h)' /\ \A k \in Handlers : k # h => HandlerHolds(k)'
  BY <1>2, <1>3, OthersHoldNothing DEF HandlerHolds
<1>5. /\ servers'[s] = c /\ \A r \in Servers : r # s => servers'[r] = servers[r]
      /\ DOMAIN conns = 1 .. Len(conns) /\ DOMAIN conns' = 1 .. Len(conns)
      /\ conns'[c].server = s /\ Len(conns) \in Nat
      /\ \A i \in 1 .. Len(conns) : i # c => conns'[i] = conns[i]
  BY <1>0, <1>1, <1>2, ServerNumbers, Numbers DEF OnlyConn
<1>6. servers' = mcpServers'
  BY <1>0 DEF SameServer, MapsAgree
<1>7. ASSUME NEW r \in Servers, servers'[r] # 0 PROVE conns'[servers'[r]].server = r
  <2>1. CASE r = s
    BY <1>5, <2>1
  <2>2. CASE r # s
    <3>1. servers'[r] = servers[r] /\ conns[servers[r]].server = r /\ servers[r] \in 1 .. Len(conns)
      BY <1>5, <1>7, <2>2, ServerNumbers DEF SameServer, MapsAgree
    <3> QED BY <1>2, <1>5, <2>2, <3>1
  <2> QED BY <2>1, <2>2
<1>8. ASSUME NEW i \in 1 .. Len(conns), conns'[i].connected, i \notin revived
      PROVE  servers'[conns'[i].server] = i
  <2>1. CASE i = c
    BY <1>5, <2>1
  <2>2. CASE i # c
    <3>1. conns'[i] = conns[i] /\ servers[conns[i].server] = i /\ conns[i].server \in Servers /\ i # 0
      BY <1>5, <1>8, <2>2, ServerNumbers DEF SameServer, MapsAgree
    <3> QED BY <1>2, <1>5, <3>1
  <2> QED BY <2>1, <2>2
<1>9. MapsAgree'
  BY <1>0, <1>5, <1>6, <1>7, <1>8 DEF MapsAgree
<1> QED BY <1>4, <1>9 DEF SameServer

\* Disconnect returned to the handler: both maps forget the connection.
LEMMA StopKeepsServers ==
    ASSUME Typing, SameServer, NEW h \in Handlers, StopServerLocked(h)
    PROVE  SameServer'
<1> DEFINE s == starting[h]
           c == job[h].conn
<1>0. /\ hpc[h] \in Stopping /\ c \in 1 .. Len(conns) /\ s \in Servers /\ OnlyConn(c) /\ conns'[c].connected = FALSE
      /\ servers' = [servers EXCEPT ![s] = 0] /\ mcpServers' = [mcpServers EXCEPT ![s] = 0] /\ UNCHANGED revived
  BY StopEffect
<1>1. /\ hpc' = [hpc EXCEPT ![h] = CASE @ = "stop" -> "loop" [] @ = "change" -> "start" [] OTHER -> "sync"]
      /\ starting' = IF hpc[h] = "change" THEN starting ELSE [starting EXCEPT ![h] = NoServer]
  BY DEF StopServerLocked
<1>2. hpc[h] \in InManager /\ HandlerTyping /\ c = servers[s]
  BY <1>0 DEF Typing, InManager, SameServer, HandlerHolds
<1> HIDE DEF c
<1>3. /\ servers'[s] = 0 /\ \A r \in Servers : r # s => servers'[r] = servers[r]
      /\ DOMAIN conns = 1 .. Len(conns) /\ DOMAIN conns' = 1 .. Len(conns) /\ Len(conns) \in Nat
      /\ \A i \in 1 .. Len(conns) : i # c => conns'[i] = conns[i]
      /\ \A i \in 1 .. Len(conns) : conns'[i].server = conns[i].server
  <2>1. servers'[s] = 0 /\ \A r \in Servers : r # s => servers'[r] = servers[r]
    BY <1>0, ServerNumbers
  <2>2. /\ DOMAIN conns = 1 .. Len(conns) /\ Len(conns) \in Nat
        /\ conns' \in Seq(ConnType) /\ Len(conns') = Len(conns)
    BY <1>0, Numbers DEF OnlyConn
  <2>3. /\ \A i \in 1 .. Len(conns) : i # c => conns'[i] = conns[i]
        /\ \A i \in 1 .. Len(conns) : conns'[i].server = conns[i].server
    BY <1>0 DEF OnlyConn
  <2> QED BY <2>1, <2>2, <2>3
<1>4. /\ hpc'[h] \in {"loop", "start", "sync"} /\ (hpc'[h] = "start" => starting'[h] = s)
      /\ \A k \in Handlers : k # h => hpc'[k] = hpc[k]
  BY <1>0, <1>1, <1>2 DEF HandlerTyping
<1>5. HandlerHolds(h)'
  BY <1>3, <1>4 DEF HandlerHolds
<1>6. \A k \in Handlers : k # h => HandlerHolds(k)'
  BY <1>2, <1>4, OthersHoldNothing
<1> HIDE DEF s
<1>7. servers' = mcpServers'
  BY <1>0 DEF SameServer, MapsAgree
<1>8. ASSUME NEW r \in Servers, servers'[r] # 0 PROVE conns'[servers'[r]].server = r
  <2>1. r # s /\ servers'[r] = servers[r] /\ servers[r] \in 1 .. Len(conns)
    BY <1>3, <1>8, ServerNumbers
  <2> QED BY <1>3, <1>8, <2>1 DEF SameServer, MapsAgree
<1>9. ASSUME NEW i \in 1 .. Len(conns), conns'[i].connected, i \notin revived
      PROVE  servers'[conns'[i].server] = i
  <2>1. i # c /\ conns'[i] = conns[i] /\ conns[i].server \in Servers
    BY <1>0, <1>3, <1>9, ServerNumbers
  <2>2. servers[conns[i].server] = i
    BY <1>3, <1>9, <2>1 DEF SameServer, MapsAgree
  <2>3. conns[i].server # s
    BY <1>2, <2>1, <2>2
  <2> QED BY <1>3, <2>1, <2>2, <2>3
<1>10. MapsAgree'
  BY <1>0, <1>3, <1>7, <1>8, <1>9 DEF MapsAgree
<1> QED BY <1>5, <1>6, <1>10 DEF SameServer

\* SameServer is inductive.
LEMMA SameServerStep ==
    ASSUME Typing, SameServer, Step
    PROVE  SameServer'
<1>0. conns \in Seq(ConnType) /\ HandlerTyping /\ WorkerTyping
  BY Numbers DEF Typing
<1>1. ASSUME NEW h \in Handlers, LoadThrows(h) PROVE SameServer'
  <2> DEFINE c == job[h].conn
  <2>1. /\ ConnectThrows(h) /\ hpc' = [hpc EXCEPT ![h] = "idle"] /\ h \in Actors
        /\ UNCHANGED <<servers, mcpServers, revived>>
    BY <1>1, ActorsApart DEF LoadThrows
  <2>2. c \in 1 .. Len(conns) /\ OnlyConn(c) /\ conns'[c].connected = conns[c].connected /\ hpc[h] = "connect"
    BY <2>1, ThrowEffect, ActorsApart
  <2>3. hpc[h] \in InManager /\ hpc'[h] = "idle" /\ \A k \in Handlers : k # h => hpc'[k] = hpc[k]
    BY <1>0, <2>1, <2>2 DEF InManager, HandlerTyping
  <2>4. \A k \in Handlers : HandlerHolds(k)'
    BY <2>3, OthersHoldNothing DEF HandlerHolds
  <2> HIDE DEF c
  <2>5. \A i \in 1 .. Len(conns) : conns'[i].server = conns[i].server /\ conns'[i].connected = conns[i].connected
    BY <2>2 DEF OnlyConn
  <2>6. MapsAgree'
    BY <2>1, <2>2, <2>5, MapsKept, Numbers DEF SameServer, OnlyConn
  <2> QED BY <2>4, <2>6 DEF SameServer
<1>2. ASSUME NEW h \in Handlers, UnregisterTools(h) PROVE SameServer'
  <2>1. /\ OnlyJob(h) /\ job'[h].conn = job[h].conn
        /\ UNCHANGED <<conns, servers, mcpServers, hpc, starting, revived>>
    BY <1>2, UnregisterEffect
  <2>2. \A k \in Handlers : job'[k].conn = job[k].conn
    BY <2>1, ActorsApart DEF OnlyJob
  <2> QED BY <1>0, <2>1, <2>2, SameServerKept
<1>3. ASSUME NEW x \in Actors, DiscoverTool(x) PROVE SameServer'
  <2> DEFINE c == job[x].conn
  <2>1. /\ OnlyConn(c) /\ conns'[c].connected = conns[c].connected /\ OnlyJob(x) /\ job'[x].conn = c
        /\ UNCHANGED <<servers, mcpServers, hpc, starting, revived>>
    BY <1>3, DiscoverEffect
  <2>2. \A k \in Handlers : job'[k].conn = job[k].conn
    BY <2>1, ActorsApart DEF OnlyJob
  <2> HIDE DEF c
  <2>3. \A i \in 1 .. Len(conns) : conns'[i].server = conns[i].server /\ conns'[i].connected = conns[i].connected
    BY <2>1 DEF OnlyConn
  <2> QED BY <2>1, <2>2, <2>3, SameServerKept DEF OnlyConn
<1>4. ASSUME NEW x \in Actors, NoteToolName(x) PROVE SameServer'
  <2>1. /\ OnlyJob(x) /\ job'[x].conn = job[x].conn
        /\ UNCHANGED <<conns, servers, mcpServers, hpc, starting, revived>>
    BY <1>4, NoteEffect
  <2>2. \A k \in Handlers : job'[k].conn = job[k].conn
    BY <2>1, ActorsApart DEF OnlyJob
  <2> QED BY <1>0, <2>1, <2>2, SameServerKept
<1>5. CASE CallTool
  <2>1. UNCHANGED <<conns, servers, mcpServers, hpc, starting, revived>> /\ (UNCHANGED job \/ OnlyJob(Worker))
    BY <1>5, CallEffect
  <2>2. \A k \in Handlers : job'[k].conn = job[k].conn
    BY <2>1, ActorsApart DEF OnlyJob
  <2> QED BY <1>0, <2>1, <2>2, SameServerKept
<1>6. CASE Reconnected
  <2> DEFINE c == job[Worker].conn
  <2>1. /\ EndConnect(Worker) /\ Worker \in Actors /\ revived' = revived \cup {held.conn}
        /\ UNCHANGED <<servers, mcpServers, hpc, starting>>
    BY <1>6, ActorsApart DEF Reconnected
  <2>2. OnlyConn(c) /\ OnlyJob(Worker) /\ wpc = "connect"
    BY <2>1, EndEffect, ActorsApart
  <2>3. c = held.conn
    BY <1>0, <2>2 DEF WorkerTyping
  <2>4. \A k \in Handlers : job'[k].conn = job[k].conn
    BY <2>2, ActorsApart DEF OnlyJob
  <2> HIDE DEF c
  <2>5. \A i \in 1 .. Len(conns) : /\ conns'[i].server = conns[i].server
                                   /\ conns'[i].connected => conns[i].connected \/ i \in revived'
    BY <2>1, <2>2, <2>3 DEF OnlyConn
  <2> QED BY <2>1, <2>2, <2>4, <2>5, SameServerKept DEF OnlyConn
<1>7. CASE CallThrows
  <2> DEFINE c == job[Worker].conn
  <2>1. /\ ConnectThrows(Worker) /\ Worker \in Actors
        /\ UNCHANGED <<servers, mcpServers, hpc, starting, revived>>
    BY <1>7, ActorsApart DEF CallThrows
  <2>2. OnlyConn(c) /\ OnlyJob(Worker) /\ conns'[c].connected = conns[c].connected
    BY <2>1, ThrowEffect
  <2>4. \A k \in Handlers : job'[k].conn = job[k].conn
    BY <2>2, ActorsApart DEF OnlyJob
  <2> HIDE DEF c
  <2>5. \A i \in 1 .. Len(conns) : conns'[i].server = conns[i].server /\ conns'[i].connected = conns[i].connected
    BY <2>2 DEF OnlyConn
  <2> QED BY <2>1, <2>2, <2>4, <2>5, SameServerKept DEF OnlyConn
<1> QED BY <1>1, <1>2, <1>3, <1>4, <1>5, <1>6, <1>7, PlainKeepsServers, PickKeepsServers, StartKeepsServers,
           StartedKeepsServers, StopKeepsServers, Steps

\* MCPConfigManager and ResourceManager name the same connection for an id, and
\* no reconfiguration leaves another one of that server connected, except one
\* that a tool call still holding it reconnected.
THEOREM OneConnection == Spec => []OneConnectionPerServer
<1>1. ASSUME Init PROVE SameServer
  <2>1. /\ conns \in Seq(ConnType) /\ DOMAIN conns = 1 .. Len(BootOrder)
        /\ \A i \in 1 .. Len(BootOrder) : conns[i].server = BootOrder[i] /\ BootOrder[i] \in Servers
    BY <1>1, BootConns, McpAssumption
  <2>2. servers = mcpServers /\ \A s \in Servers : servers[s] = BootConn(s)
    BY <1>1 DEF Init
  <2>3. \A h \in Handlers : hpc[h] = "idle"
    BY <1>1 DEF Init
  <2>4. \A s \in Servers : servers[s] # 0 => conns[servers[s]].server = s
    BY <2>1, <2>2, BootConnSpec
  <2>5. \A c \in DOMAIN conns : servers[conns[c].server] = c
    BY <2>1, <2>2, BootConnSpec
  <2> QED BY <2>2, <2>3, <2>4, <2>5 DEF SameServer, MapsAgree, HandlerHolds
<1>2. Typing /\ SameServer /\ [Next]_vars => SameServer'
  <2>1. CASE UNCHANGED vars
    BY <2>1 DEF vars, SameServer, MapsAgree, HandlerHolds
  <2> QED BY <2>1, SameServerStep DEF Next
<1>3. SameServer => OneConnectionPerServer
  BY DEF SameServer, MapsAgree, OneConnectionPerServer
<1> QED BY <1>1, <1>2, <1>3, TypingInvariant, PTL DEF Spec

-----------------------------------------------------------------------------
(* The Agent's tool list after a sync.                                     *)

\* SyncAgrees made inductive: the difference a handler is about to merge is the
\* difference of now, unless something overtook it.
DiffIsCurrent ==
    /\ SyncAgrees
    /\ \A h \in Handlers :
         hpc[h] = "merge" /\ h \notin overlapped =>
            diff[h] = [add |-> mcpToolNames \ ownedMcpTools, remove |-> ownedMcpTools \ mcpToolNames]

\* A step other than SyncDiff and SyncMerge starts and ends no merge.
LEMMA OtherStep ==
    ASSUME Typing, Step
    PROVE  \/ \E h \in Handlers : SyncDiff(h) \/ SyncMerge(h)
           \/ /\ UNCHANGED <<toolNames, ownedMcpTools, diff>>
              /\ \A h \in Handlers : hpc'[h] = "merge" <=> hpc[h] = "merge"
<1> DEFINE Same == /\ UNCHANGED <<toolNames, ownedMcpTools, diff>>
                   /\ \A k \in Handlers : hpc'[k] = "merge" <=> hpc[k] = "merge"
<1>0. HandlerTyping
  BY DEF Typing
<1>1. ASSUME NEW h \in Handlers,
             EditServers(h) \/ ToFrameworkConfigs(h) \/ Load(h) \/ LoadReturns(h)
      PROVE  Same
  BY <1>0, <1>1 DEF EditServers, ToFrameworkConfigs, Load, LoadReturns, HandlerTyping
<1>2. ASSUME NEW h \in Handlers, StopMissing(h) \/ Apply(h) \/ Remove(h) PROVE Same
  <2>1. UNCHANGED <<toolNames, ownedMcpTools, diff>>
    BY <1>2, PickEffect
  <2>2. hpc[h] # "merge" /\ (UNCHANGED hpc \/ \E pc \in {"start", "sync"} \cup Stopping : hpc' = [hpc EXCEPT ![h] = pc])
    BY <1>2, PickEffect, BeginStopEffect
  <2> QED BY <1>0, <2>1, <2>2 DEF HandlerTyping
<1>3. ASSUME NEW h \in Handlers, StartServerLocked(h) PROVE Same
  BY <1>0, <1>3, StartEffect DEF HandlerTyping
<1>4. ASSUME NEW h \in Handlers, ServerStarted(h) \/ LoadThrows(h) PROVE Same
  <2>1. /\ UNCHANGED <<toolNames, ownedMcpTools, diff>> /\ Connecting(h)
        /\ hpc' = [hpc EXCEPT ![h] = "loop"] \/ hpc' = [hpc EXCEPT ![h] = "idle"]
    BY <1>4 DEF ServerStarted, LoadThrows, EndConnect, ConnectThrows
  <2> QED BY <1>0, <2>1, ActorsApart DEF HandlerTyping
<1>5. ASSUME NEW h \in Handlers, StopServerLocked(h) PROVE Same
  <2>1. \E pc \in {"loop", "start", "sync"} : hpc' = [hpc EXCEPT ![h] = pc]
    BY <1>5 DEF StopServerLocked
  <2>2. UNCHANGED <<toolNames, ownedMcpTools, diff>> /\ hpc[h] \in Stopping
    BY <1>5 DEF StopServerLocked
  <2> QED BY <1>0, <2>1, <2>2 DEF HandlerTyping
<1>6. ASSUME NEW h \in Handlers, UnregisterTools(h) PROVE Same
  BY <1>6 DEF UnregisterTools
<1>7. ASSUME NEW x \in Actors, DiscoverTool(x) \/ NoteToolName(x) PROVE Same
  BY <1>7 DEF DiscoverTool, NoteToolName
<1>8. CASE (\E t \in Tools : BuildToolSchemas(t) \/ CreateTool(t)) \/ StoreSchema \/ InvokeTool
  BY <1>8 DEF BuildToolSchemas, CreateTool, StoreSchema, InvokeTool
<1>9. CASE CallTool \/ Reconnected \/ CallThrows
  BY <1>9 DEF CallTool, Reconnected, CallThrows
<1> QED BY <1>1, <1>2, <1>3, <1>4, <1>5, <1>6, <1>7, <1>8, <1>9 DEF Step

\* DiffIsCurrent is inductive.
LEMMA DiffIsCurrentStep ==
    ASSUME Typing, DiffIsCurrent, Next
    PROVE  DiffIsCurrent'
<1> DEFINE Current(h) == hpc[h] = "merge" /\ h \notin overlapped =>
                           diff[h] = [add |-> mcpToolNames \ ownedMcpTools, remove |-> ownedMcpTools \ mcpToolNames]
           merged == {h \in Handlers : hpc[h] = "merge" /\ hpc'[h] = "idle"}
<1>0. HandlerTyping /\ AgentTyping /\ Step
  BY DEF Typing, Next
<1>1. /\ overlapped' = {h \in Handlers : hpc'[h] = "merge" /\ (h \in overlapped \/
                           (hpc[h] = "merge" /\ (mcpToolNames' # mcpToolNames \/ merged # {})))}
      /\ agreed' = IF merged # {} THEN merged \cap overlapped = {} ELSE agreed /\ ~(mcpToolNames' # mcpToolNames)
  BY DEF Next, History
<1>2. ASSUME NEW h \in Handlers, SyncDiff(h) PROVE DiffIsCurrent'
  <2>1. /\ hpc[h] = "sync" /\ hpc' = [hpc EXCEPT ![h] = "merge"]
        /\ diff' = [diff EXCEPT ![h] = [add |-> mcpToolNames \ ownedMcpTools,
                                        remove |-> ownedMcpTools \ mcpToolNames]]
        /\ UNCHANGED <<mcpToolNames, toolNames, ownedMcpTools>>
    BY <1>2 DEF SyncDiff
  <2>2. merged = {}
    BY <1>0, <2>1 DEF HandlerTyping
  <2>3. SyncAgrees'
    BY <1>1, <2>1, <2>2 DEF DiffIsCurrent, SyncAgrees
  <2>4. ASSUME NEW k \in Handlers PROVE Current(k)'
    <3>1. CASE k = h
      BY <1>0, <2>1, <3>1 DEF AgentTyping
    <3>2. CASE k # h
      BY <1>0, <1>1, <2>1, <3>2 DEF AgentTyping, HandlerTyping, DiffIsCurrent
    <3> QED BY <3>1, <3>2
  <2> QED BY <2>3, <2>4 DEF DiffIsCurrent
<1>3. ASSUME NEW h \in Handlers, SyncMerge(h) PROVE DiffIsCurrent'
  <2>1. /\ hpc[h] = "merge" /\ hpc' = [hpc EXCEPT ![h] = "idle"]
        /\ toolNames' = (toolNames \cup diff[h].add) \ diff[h].remove
        /\ ownedMcpTools' = (ownedMcpTools \cup diff[h].add) \ diff[h].remove
        /\ UNCHANGED mcpToolNames
    BY <1>3 DEF SyncMerge
  <2>2. merged = {h}
    BY <1>0, <2>1 DEF HandlerTyping
  <2>3. SyncAgrees'
    <3> SUFFICES ASSUME agreed' PROVE ownedMcpTools' = mcpToolNames' /\ mcpToolNames' \subseteq toolNames'
      BY DEF SyncAgrees
    <3>1. h \notin overlapped
      BY <1>1, <2>2
    <3>2. diff[h].add = mcpToolNames \ ownedMcpTools /\ diff[h].remove = ownedMcpTools \ mcpToolNames
      BY <2>1, <3>1 DEF DiffIsCurrent
    <3>3. ownedMcpTools \subseteq toolNames
      BY <1>0 DEF AgentTyping
    <3> QED BY <2>1, <3>2, <3>3
  <2>4. ASSUME NEW k \in Handlers PROVE Current(k)'
    BY <1>0, <1>1, <2>1, <2>2 DEF HandlerTyping
  <2> QED BY <2>3, <2>4 DEF DiffIsCurrent
<1>4. ASSUME UNCHANGED <<toolNames, ownedMcpTools, diff>>,
             \A h \in Handlers : hpc'[h] = "merge" <=> hpc[h] = "merge"
      PROVE  DiffIsCurrent'
  <2>1. merged = {}
    BY <1>4
  <2>2. SyncAgrees'
    BY <1>1, <1>4, <2>1 DEF DiffIsCurrent, SyncAgrees
  <2>3. ASSUME NEW k \in Handlers PROVE Current(k)'
    BY <1>1, <1>4 DEF DiffIsCurrent
  <2> QED BY <2>2, <2>3 DEF DiffIsCurrent
<1> QED BY <1>0, <1>2, <1>3, <1>4, OtherStep

\* After a SyncMcpTools that no change and no other sync overtook, the Agent
\* owns exactly the registered MCP tools and lists them, however many handlers
\* sync it.
THEOREM SyncedToolsAgree == Spec => []SyncAgrees
<1>1. Init => DiffIsCurrent
  BY DEF Init, DiffIsCurrent, SyncAgrees
<1>2. Typing /\ DiffIsCurrent /\ [Next]_vars => DiffIsCurrent'
  <2>1. CASE UNCHANGED vars
    BY <2>1 DEF vars, historyVars, DiffIsCurrent, SyncAgrees
  <2> QED BY <2>1, DiffIsCurrentStep
<1>3. DiffIsCurrent => SyncAgrees
  BY DEF DiffIsCurrent
<1> QED BY <1>1, <1>2, <1>3, TypingInvariant, PTL DEF Spec

-----------------------------------------------------------------------------
(* The schema cache.                                                       *)

\* SchemaCacheFresh made inductive: the factory the worker probes is the one
\* registered now, unless it changed since the lookup.
ProbeIsCurrent ==
    /\ SchemaCacheFresh
    /\ wpc = "probe" /\ held.tool \notin tainted => held.conn = factories[held.tool]

\* Where a factory changes, the cached schema goes with it.
LEMMA ChangedFactoryHasNoSchema ==
    ASSUME Typing, Step
    PROVE  \/ \A t \in Tools : \/ schemas'[t] = 0
                               \/ schemas'[t] = schemas[t] /\ factories'[t] = factories[t]
           \/ StoreSchema
<1>0. schemas \in [Tools -> {Builtin} \cup ConnIds] /\ factories \in [Tools -> {Builtin} \cup ConnIds]
  BY DEF Typing, ConnTyping
<1>1. ASSUME NEW h \in Handlers, UnregisterTools(h)
      PROVE  \A t \in Tools : schemas'[t] = 0 \/ (schemas'[t] = schemas[t] /\ factories'[t] = factories[t])
  BY <1>0, <1>1, UnregisterEffect DEF UnregisterMcpTool
<1>2. ASSUME NEW x \in Actors, DiscoverTool(x)
      PROVE  \A t \in Tools : schemas'[t] = 0 \/ (schemas'[t] = schemas[t] /\ factories'[t] = factories[t])
  BY <1>0, <1>2, DiscoverEffect DEF RegisterTool
<1>3. ASSUME NEW h \in Handlers, \/ StopMissing(h) \/ Apply(h) \/ Remove(h) \/ StartServerLocked(h)
                                 \/ ServerStarted(h) \/ LoadThrows(h) \/ StopServerLocked(h)
      PROVE  UNCHANGED <<factories, schemas>>
  BY <1>3, PickEffect DEF StartServerLocked, ServerStarted, LoadThrows, StopServerLocked
<1>4. CASE (\E x \in Actors : NoteToolName(x)) \/ CallTool \/ Reconnected \/ CallThrows
  BY <1>4 DEF NoteToolName, CallTool, Reconnected, CallThrows
<1>5. CASE Plain
  BY <1>5, PlainEffect
<1> QED BY <1>1, <1>2, <1>3, <1>4, <1>5, Steps

\* ProbeIsCurrent is inductive.
LEMMA ProbeIsCurrentStep ==
    ASSUME Typing, ProbeIsCurrent, Next
    PROVE  ProbeIsCurrent'
<1>0. WorkerTyping /\ ConnTyping /\ Step
  BY DEF Typing, Next
<1>1. \A t \in Tools : t \notin tainted' =>
        /\ t \notin tainted \/ schemas'[t] = 0
        /\ ~(wpc = "probe" /\ wpc' = "probe" /\ held.tool = t /\ factories'[t] # factories[t])
        /\ ~(t \in tainted /\ wpc' = "probe" /\ held'.tool = t)
  BY DEF Next, History
<1>2. ASSUME NEW t \in Tools, BuildToolSchemas(t) PROVE ProbeIsCurrent'
  <2>1. /\ wpc' = "probe" /\ held' = [tool |-> t, conn |-> factories[t]]
        /\ UNCHANGED <<factories, schemas>>
    BY <1>2 DEF BuildToolSchemas
  <2>2. held'.tool = t /\ held'.conn = factories[t]
    BY <2>1
  <2> QED BY <1>1, <2>1, <2>2 DEF ProbeIsCurrent, SchemaCacheFresh
<1>3. CASE StoreSchema
  <2>1. /\ wpc = "probe" /\ wpc' = "idle" /\ UNCHANGED factories
        /\ schemas' = [schemas EXCEPT ![held.tool] = held.conn]
    BY <1>3 DEF StoreSchema
  <2>2. held.tool \in Tools /\ schemas \in [Tools -> {Builtin} \cup ConnIds]
    BY <1>0, <2>1 DEF WorkerTyping, ConnTyping
  <2> QED BY <1>1, <2>1, <2>2 DEF ProbeIsCurrent, SchemaCacheFresh
<1>4. ASSUME \A t \in Tools : schemas'[t] = 0 \/ (schemas'[t] = schemas[t] /\ factories'[t] = factories[t]),
             wpc' = "probe" => UNCHANGED <<wpc, held>>
      PROVE  ProbeIsCurrent'
  <2>1. SchemaCacheFresh'
    BY <1>1, <1>4 DEF ProbeIsCurrent, SchemaCacheFresh
  <2>2. ASSUME wpc' = "probe", held'.tool \notin tainted' PROVE held'.conn = factories'[held'.tool]
    <3>1. wpc = "probe" /\ held' = held /\ held.tool \in Tools
      BY <1>0, <1>4, <2>2 DEF WorkerTyping
    <3> QED BY <1>1, <2>2, <3>1 DEF ProbeIsCurrent
  <2> QED BY <2>1, <2>2 DEF ProbeIsCurrent
<1>5. \/ \E t \in Tools : BuildToolSchemas(t)
      \/ wpc' = "probe" => UNCHANGED <<wpc, held>>
  <2>1. ASSUME NEW h \in Handlers, \/ StopMissing(h) \/ Apply(h) \/ Remove(h) \/ StartServerLocked(h)
                                   \/ ServerStarted(h) \/ LoadThrows(h) \/ UnregisterTools(h) \/ StopServerLocked(h)
        PROVE  UNCHANGED <<wpc, held>>
    BY <2>1, PickEffect DEF StartServerLocked, ServerStarted, LoadThrows, UnregisterTools, StopServerLocked
  <2>2. ASSUME NEW x \in Actors, DiscoverTool(x) \/ NoteToolName(x) PROVE UNCHANGED <<wpc, held>>
    BY <2>2 DEF DiscoverTool, NoteToolName
  <2>3. CASE Plain
    BY <2>3 DEF Plain, EditServers, ToFrameworkConfigs, Load, LoadReturns, SyncDiff, SyncMerge,
                CreateTool, StoreSchema, InvokeTool
  <2>4. CASE CallTool \/ Reconnected \/ CallThrows
    BY <2>4 DEF CallTool, Reconnected, CallThrows
  <2> QED BY <1>0, <2>1, <2>2, <2>3, <2>4, Steps
<1> QED BY <1>0, <1>2, <1>3, <1>4, <1>5, ChangedFactoryHasNoSchema

\* A cached schema is of the factory registered now, except when the factory
\* changed between BuildToolSchemas' lookup and its store.
THEOREM SchemasAreFresh == Spec => []SchemaCacheFresh
<1>1. Init => ProbeIsCurrent
  BY DEF Init, ProbeIsCurrent, SchemaCacheFresh
<1>2. Typing /\ ProbeIsCurrent /\ [Next]_vars => ProbeIsCurrent'
  <2>1. CASE UNCHANGED vars
    BY <2>1 DEF vars, historyVars, ProbeIsCurrent, SchemaCacheFresh
  <2> QED BY <2>1, ProbeIsCurrentStep
<1>3. ProbeIsCurrent => SchemaCacheFresh
  BY DEF ProbeIsCurrent
<1> QED BY <1>1, <1>2, <1>3, TypingInvariant, PTL DEF Spec
=============================================================================
