# A TLA+ model of agent-core-cpp

agent-core-cpp is a C++ framework that runs LLM agents for many conversations in
one process. An application (the jiuwenClaw example, an HTTP server, a chat
adapter, a cron job) calls one `SessionManager` from many threads; each call is a
*turn* of a *session*. This directory models the parts of the framework whose
correctness depends on interleaving, ordering, failure and retry, checks them with TLC
on small instances, and proves the central properties with TLAPS for instances of
any size.

Paths below are relative to the repository root; `PROJECT.json` maps every
definition to the lines it models and lists the hazards with the properties that
address them.

## 1. Inventory

| Component | State | Operations | What is hard | What makes it correct |
|---|---|---|---|---|
| `SessionManager` (`src/session/session_manager.cpp`) | `agent_`, `sessions_` (id -> `SessionEntry`: Agent, ContextEngine, dispatcher, `invokeMutex`, `isBusy`), the gate (`concurrentCount_`, `maxConcurrent_`, condition variable), `config_`, reserved ids, ask_user index | `Initialize`, `Invoke`, `InvokeChannel`, `ReloadAgent`, `RemoveSession`, `Cancel`, `Shutdown`, `GetOrCreateSession`, `IsSessionBusy`, `ProvideUserResponse` | everything runs concurrently; four levels of mutex, none held across a whole operation; Agents are replaced under running turns; sessions are removed and re-created under running turns | turns of one entry are serial; the gate's counter is exact; a turn runs on the Agent that was active when it was resolved; flags never stay up; every call returns |
| `Agent` (`src/core/agent.cpp`) | `sessionActivity_`, `draining_`, `running_`, `hasNewActivity_`, a consolidation thread | `Invoke`, `Cancel`, `Shutdown`, `MarkDraining`, `CleanupSession`, the consolidation loop | its thread runs beside the turns and beside the loop of a draining predecessor on the same files | activity records end with the turn; new activity is eventually consolidated |
| `AgentWorker`, `ReactAgentWorker` (`src/core/agent_worker.cpp`, `src/workers/react_worker.cpp`) | cancel generation, model, prompts | the ReAct loop: model call, tool calls, final answer | cancellation is a generation counter compared with a per-turn snapshot | only a cancel after the snapshot aborts a turn |
| ask_user (`src/core/ask_user_dispatcher.cpp`, `src/tools/builtin_tools/ask_user_tool.cpp`) | per entry: request id -> slot; global: request id -> session id | `EmitAskUser`, `WaitForResponse`, `ProvideResponse` | the answer arrives on another thread and races the 60 s timeout, the next question and session removal | an answer reaches its own question or nobody; nothing leaks; calls end |
| Consolidation: `HistoryStore`, `DreamProcessor`, long-term memory (`src/core/history_store.cpp`, `src/core/dream_processor.cpp`) | `history.jsonl`, `.cursor`, `.dream_cursor` | append, read since cursor, advance cursor, compact | crash between two file writes; a pass that fails after the flag was cleared; two loops after a reload | no event is passed over; a finished conversation is taken up |
| `ContextEngine` and storages (`src/context_engine/`), the ReAct loop over them | message list, storage (a JSON file or SQLite) | add, save, restore, cut to the window, repair tool pairs | a turn is interrupted between a call and its result; trimming cuts there too; a save fails or finds the file unreadable | every request is one the API accepts and has the query; an answer that was shown is not forgotten; a turn ends |
| Model adapters (`src/models/`, `src/utils/retry_helper.h`) | one call's attempt, stream context | attempt, SSE parsing, backoff | an attempt fails after half its answer was streamed; lines cut between chunks; a cancel from another thread | nothing is streamed twice; texts and arguments have no gap and are whole once the response is finished; the call ends |
| `HttpMemoryRuntime` (`src/memory/`) | failure counter, deadline of the open circuit | remote calls with retry | concurrent callers at the threshold; replies lost after the server has acted | a success was stored; the circuit closes once the server is well |
| MCP (`src/mcp/`, `src/resource_manager/`, the handlers of `/api/mcp`) | remembered configurations, connections, tool factories, schema caches, the Agent's tool list | load and diff, start, stop, register, unregister, sync, call with reconnect | handlers overlap; servers share tool names; connects fail; a call revives a connection | the registry is what the live connections offer, and the managers, the Agent and the caches agree with it |
| Progressive disclosure (`turn_state_proxy.cpp`, `capability_selector.cpp`, `skill_engine.cpp`, `tool_search`, `skill_search`) | per-session `TurnState`, resolved mode, loaded skills | seed, search, load, render, reset | tools and skills change under a turn; flags outlive turns and reloads | what can be called is listed, answers of the searches are true, nothing leaks between turns |
| Configuration (`src/config/`), the handlers of `/api/agents` | `agents.json`, overrides, effective configurations, watcher thread | load, override, remove, save, poll, stop | unreadable files; reads, stores and reloads interleave; wake-up lost on stop | what runs comes to be what the file says; stop ends |
| jiuwenClaw channels (`channel_manager.cpp`, `channel_service.cpp`) | `channels.json`, next id, running bots | add, update, remove, apply, reconcile | a change goes from one class to the other as a copy | the bots that run are those of the enabled channels |
| jiuwenClaw reminders (`cron_watcher.cpp`, `cron_tool.cpp`) | `jobs.json` | add, remove, check, fire, write back | two writers of one file without a lock; busy sessions; restarts | a job fires as often as it is due |
| Builtin file, shell and web tools, heartbeat, Feishu protocol, web UI | files, HTTP, shell | parsing and formatting | little shared state | not modelled; see section 7 |

**Interaction.** A caller thread passes the gate (`concurrencyMutex_`), resolves the
session under `sessionMutex_`, takes the entry's `invokeMutex` and runs
`Agent::Invoke` in it. The Agent records the session as busy, the worker takes a
generation snapshot and loops. Tools get the dispatcher and the ContextEngine of the
thread's cached entry, and the SkillEngine of the Agent *the entry names at that
moment*. `ReloadAgent` builds a new Agent outside all locks and swaps it in under
`sessionMutex_`; existing entries keep the old Agent until their next `Invoke` finds
it draining and rebinds. `RemoveSession` erases the entry, which stays alive while a
turn holds it. Inside the turn the worker adds every message to the session's
ContextEngine, which saves it at once, and sends the window the engine cuts; the model
adapter streams and retries below it. The tool list of the worker is reconciled with
`ResourceManager` after every change of the MCP servers, which the application makes
through `MCPConfigManager`. The application's handlers, its CLI and the file watcher
change Agent configurations, channels and MCP servers, and end in `ReloadAgent`,
`ChannelService` or `MCPConfigManager::Load`.

## 2. Modules

| Module | Models | State and actions |
|---|---|---|
| `SessionManager` | `SessionManager` with the activity, draining and cancellation parts of `Agent` and `AgentWorker` | one variable per shared field and per local of a call that survives a lock; one action per critical section of `Invoke` (`EnterGate` ... `ReturnInvoke`), `ReloadAgent`, `RemoveSession`, `Cancel`, `Shutdown`, `GetOrCreateSession` |
| `TurnService` | the abstract specification of `Invoke` and `ReloadAgent` | five steps of a call and one swap |
| `AskUser` | the ask_user tool, dispatcher, request index, `ProvideUserResponse` and session removal around them | one action per critical section of the asking and of the answering thread |
| `Consolidation` | `Agent::ConsolidationLoop`, `HistoryStore` and `DreamProcessor::Run` without a MemoryRuntime | the three files, the gates of each Agent's loop, the locals of each pass; one action per `HistoryStore` operation and model phase, per turn boundary, and per crash, I/O error or model error |
| `Conversation` | `Agent::Invoke` and `ReactLoop` over `ContextEngine`, `JsonStorage` and `DbStorage`, and the request formats of both adapters | the persisted and the buffered history, the turn's place; one action per step that can be interrupted, plus crash, restart, cancel, failed save, throwing callback |
| `ModelCall` | `Invoke` of the OpenAI and the Anthropic adapter | the retry loop, the stream context; one action per attempt, chunk, failure, backoff and the cancel |
| `McpRegistry` | `McpServerManager`, `MCPConfigManager`, `MCPConnection`, the tool part of `ResourceManager`, `SyncMcpTools`, the handlers of `/api/mcp` | one variable per map, every connection made, per handler its place in request, `Load` and sync, per thread inside `Connect` or `Disconnect` the tools still to do (`job`): a tool is registered in two steps, its factory and its name; a worker that builds schemas, calls tools and reconnects |
| `Disclosure` | mode resolution, `TurnStateProxy`, `CapabilitySelector`, `SkillEngine`, `tool_search`, `skill_search`, the catalogs and the function-call list | per session the `TurnState` and what was rendered; one action per step of a turn, per tool operation and per change from outside |
| `HttpMemory` | `HttpMemoryRuntime` and `FilterExpiredEventEntities` | the breaker and per thread a call; one action per outcome of an attempt |
| `Cron` | the cron tool and `CronWatcher` | `jobs.json`, the copies both sides hold, time; one action per read, write, firing, wait and stop, and for a check that throws |
| `AgentConfigs`, `Channels` | `AgentConfigStore` with the handlers of `/api/agents`; `ChannelManager` and `ChannelService` with those of `/api/channels` | the file, the store, what runs, and per thread the copy it carries; one action per locked operation |
| `App` | composes the two with `ConfigWatcher`, the CLI, an operator's editor and the end of `main` | control of the watcher and of `main`, up to `down`: the HTTP server stopped, before the joins of cron, heartbeat and `SessionManager::Shutdown` |
| `MC...` | the modules TLC runs, with constants and symmetry | |
| `SessionManagerProofs`, `AskUserProofs`, `ConsolidationProofs`, `ConversationProofs`, `McpRegistryProofs`, `DisclosureProofs`, `HttpMemoryProofs`, `AppProofs` | the theorems about the module of that name, with the inductive invariants they need (section 5) | |

Conventions. An Agent is its construction number. A `SessionEntry` object is a pair
(session id, how often that id was removed before), so a re-created session is a new
object with its own mutex and dispatcher although it has the same id and the same
directory. A caller's place in `Invoke` is `pc`; the place names are the next thing
it does. `None` is a null pointer, a free mutex or no value. A definition whose name is
that of another one with a suffix (`ReleaseGate_Twice`) is a mistaken form of it; none is
part of a specification, and each breaks the property named in `PROJECT.json`.

What is abstracted in `SessionManager`: message contents, the model, and the length
of the ReAct loop (a turn is: snapshot, at most one tool call that asks for a
SkillEngine, then return, abort or exception, in every order the code allows). The
generation grows by 1 instead of 100, since only `>` against a snapshot is used.
Destruction of an Agent is not a step of this module; `Consolidation` has it.

What is abstracted in `Consolidation`: an event is its position, session and cursor;
the text the model writes is left out, and `handled` records the events a model call
worked on. A line of `history.jsonl` is written, left out, or written without its newline
(`loose`), and then the next append makes one line of the two that does not parse
(`garbled`). The two streams of `AppendEvent` are destroyed in reverse order, so a line
shorter than the stream's buffer reaches the disk after `.cursor`, a longer one
before; both orders are in `AppendCrash`. Binding a session and starting its turn is
one step (the window between them is in `SessionManager`), a removed session is
re-created only after its last turn has ended, and `SessionManager::Shutdown` is not
taken (a loop ends because nobody owns its Agent). An I/O error, a failing model
call, a crash, a reload and a removal draw on one budget, `MaxTrouble`.

What is abstracted in the other modules:

- `Conversation`: a text is the set of the turns it speaks of, a tool result weighs
  `ToolTokens` more than another message. The memory sink and provider hooks of
  ContextEngine, and an iteration limit below zero (no limit), are left out, and so is
  `CleanMessageContent` of `DbStorage`, which takes escape sequences and control characters
  out of a text. A JSON file may come out empty although its save was reported, since a
  short write is renamed over the old file unseen (`json_storage.cpp:114`).
- `ModelCall`: a delta is its number; that a chunk ends inside a line is `held`. An int
  holds `-IntLimit .. IntLimit - 1`, so that the doubling of the delay can overflow. A
  transfer that ends in order is a success also without a finish reason, and a line held
  back without its newline is then lost.
- `McpRegistry`: the JSON-RPC exchange is its outcome (the server's tools, a failure, or an
  exception before one of the tools is registered); `mcp_servers.json` and the
  entries of `McpServerManager` are one state, so `ConfigWatcher`'s reload of that file
  is a request like the others.
- `Disclosure`: the scoring of a search is a free choice among the names. Tools without a
  description, and tools that cannot be built without a context, are constants. An Agent is
  replaced only between turns; replacement under a turn is `SessionManager`'s subject.
- `HttpMemory`: time is the cooldown left; the failure counter saturates at the threshold.
  A package is any of a given set; a line of its text is the entities its bullet names by
  id and those running text mentions.
- `Cron`: a tick is a minute; job ids differ; an interval is at least a tick. A cron
  expression is two sets of minutes, since `CalculateNextFire` takes a day that fits the
  date *or* the weekday and `MatchesCronExpression` asks for both
  (`cron_watcher.cpp:79-83, 115-126`). Failed writes and checks that throw draw on
  `MaxFaults`; `fires` counts the times `SessionManager` took a job's turn.
- `AgentConfigs`, `Channels`, `App`: a configuration is a few fields; a bot runs once it
  is started; there is one MCP server an Agent can list. Besides a file that is no JSON there
  is one with a value of another type: `Load` throws in the midst of it, after the old
  contents are gone (`half`: the Agents read so far; for channels those read so far and a
  next number that starts again). The watcher catches that and does not try again; the CLI
  does not, and the program ends (`dead`); an `agents.json` of that kind at the start keeps
  `main` from coming up and is no initial state. `unnoted` are the channel numbers the
  manager does not know of: `channel_<n>` chosen by a caller of POST, or read halfway.

## 3. Runs

| Run | Instance | Distinct states | Shows |
|---|---|---|---|
| `MCSessionCalls` | 2 callers, an operator, an ordinary and a reserved session, 2 calls, 1 reload, 1 removal, 1 cancel, 1 fault, limit 0 or 1 | 1,093,139 | `TypeOK`, `GateConserved`, `AbortOnlyByOperator`, `BusyFlagExact`, `NoStaleActivity`, `ImplementsTurnService` |
| `MCSessionLiveness` | 2 callers, 1 session, 2 calls, limit 1, 1 reload, 1 removal, 1 shutdown | 88,471 | `InvokeReturns` |
| `MCAskUser` | 2 questions, 2 answers, 1 session, 1 removal | 21,640 | `AnswerMatchesQuestion`, `SlotWhilePending`, `TimelyAnswerIsUsed`, `CallsEnd` |
| `MCConsolidation` | an ordinary and an excluded session, batches of 2, 3 events, 1 of: reload, removal, crash, I/O error, model error | 655,549 | `NothingPassedOver`, `FinishedTurnIsTakenUp`, `RetiredLoopEnds` |
| `MCConversation` | both storages, 2 turns of 2 iterations, up to 2 calls in a response, a window of 3 messages and 8 tokens, 1 disruption | 260,711 | `RequestWellFormed`, `WindowKeepsQuery`, `ShownAnswerSurvives`, `CancelStopsRequests`, `TurnEnds` |
| `MCModelCall` | both adapters, 3 retries, responses of 2 blocks of 2 deltas, delays of 3 to 5 in ints of 4 bits (the second doubling overflows) | 1,067,094 | `StreamedOnce`, `OpenAiArgumentsComplete`, `CallEnds` |
| `MCMcpRegistry` | 2 servers that share a tool name, one that also offers a builtin's name, 2 handlers, 2 requests, 1 worker call, 1 connect that fails or throws | 341,082 | `ServedByLiveConnection`, `OneConnectionPerServer`, `SyncAgrees`, `SchemaCacheFresh`, `RequestEnds` |
| `MCDisclosure` | 1 session, 3 tools (one without a description, one that cannot be built without a context), 2 skills (the name of one is not its id), all four modes, 2 turns of 2 iterations, 2 changes from outside | 2,826,057 | `CallableIsListed`, `AllVisibleIsTrue`, `NothingCarriedOver` |
| `MCHttpMemory` | 2 threads, 2 retries, threshold 2, cooldown 2, packages with relations to unlisted entities and with running text | 125,760 | `StoredAsReported`, `NoExpiredMention`, `CircuitCloses` |
| `MCCron` | a one-time, a recurring and a cron job whose date and weekday differ, 3 minutes, 2 tool calls, 1 busy session, 1 restart, 1 fault | 740,744 | `NeverTooOften`, `FileIsExact`, `EveryOccurrenceFires` |
| `MCApp` | 2 handlers, CLI, watcher and editor, 2 Agents, 2 channels, files with a value of another type, ids chosen by callers, 2 events | 502,467 | `StoresConsistent`, `Settles`, `StopEnds` |

`TypeOK` of `AskUser` and `Consolidation` is proved; those of the modules below them in
the table hold on the same instances (add `INVARIANT TypeOK`). The parts of
`StoresConsistent` are defined in `AgentConfigs` and `Channels`. `SerialPerEntry` and
`AdmissionUnderCap` of `SessionManager` are proved; the first also follows from
`ImplementsTurnService`.

What the properties except, because the code accepts it:

- `NothingPassedOver`: a line whose cursor is not above those before it (`Fresh`), because
  `AppendEvent` could not read `.cursor` or a crash left it behind `history.jsonl`; and a
  line that does not parse, because the one before it lacks its newline. Every other line
  of such a history is still covered. A batch whose model call failed unseen counts as
  worked on.
- `FinishedTurnIsTakenUp`: a pass that throws is retried at the next conversation, a
  batch takes `maxBatchSize` events, and removing a session drops the record the
  `anyIdle` gate looks for.
- `ShownAnswerSurvives`: a save that failed, and a history file that could not be opened
  at a save (`json_storage.cpp:102` starts an empty list and replaces the file) or that was
  not written to its end.
- `StreamedOnce` and `OpenAiArgumentsComplete`: a response that ended in order without its
  finish reason may be cut, and is reported as a success (`openai_model.cpp:386-398`): what
  was parsed is then a part without a gap. `CallEnds` is about delays whose doubling fits
  an int.
- `ServedByLiveConnection`: factories of a connection whose `Connect` threw halfway
  (`broken`; nothing takes them back, `mcp_connection.cpp:84-110`), and a name left in
  `mcpToolNames_` whose factory another thread took away between the two critical sections
  of `RegisterMcpTool` (`skewed`; `resource_manager.cpp:580-582`).
- `CallableIsListed` and `AllVisibleIsTrue`: tools the catalog skips because they have no
  description, although their schema is offered (`resource_manager.cpp:361, 377`), and for
  the second those whose probe throws (336). A tool of an MCP server always has one
  (`mcp_connection.cpp:71-73`).
- `NoExpiredMention`: an expired entity the server did not list, and one that running text
  mentions (`entity_decay.cpp:56-60`).
- `StoredAsReported`: a write is stored again when its reply is lost, at most once per
  attempt.
- `OneConnectionPerServer` and `SchemaCacheFresh`: a connection that a tool call still
  holding it reconnects after its server was stopped (`mcp_connection.cpp:177`), and a
  schema whose factory changes between lookup and store (`resource_manager.cpp:285`).
  `SyncAgrees` is about a sync that nothing overtook.
- `NeverTooOften`, `FileIsExact`, `EveryOccurrenceFires`: overlapping accesses to
  `jobs.json`; a check that a shutdown or an exception cuts off after it has fired (what it
  fired is not written); and a write that failed, which neither the tool nor the watcher
  notices. The minute of a cron expression that passes while the session is busy is not made up for.
- `StoresConsistent`: of an `agents.json` read halfway, the Agents not reached are not
  served; and a new channel may replace one whose number the manager does not know of
  (`unnoted`).
- `Settles`: a save that went wrong, a file that was missing at the start (its first
  sighting is not reported), a handler that installs, after the watcher, what it
  had read before it, and a file that has a value of another type to the end.
- `StopEnds`: a request in service when the bots are stopped may start one again.
- `AbortOnlyByOperator` and `InvokeReturns`: `MCSessionCalls` has no shutdown, and the limit
  of `MCSessionLiveness` stays at 1. The theorem `ReloadNeverAborts` covers shutdowns; a
  limit that moves to 0 under sleepers is `MCUnlimited`'s subject below.
- `SlotWhilePending`: a question whose `onResponse` throws while it is emitted ends before
  there is anything to wait for, and its slot and index entry stay.

*Why these bounds are enough.* Two callers of one session and a reload give a rebind
under a running turn; a limit that moves between 0 and 1 gives sleepers that see it
move; one removal and a re-creation give two entries with one id. The proofs of section
5 cover every size. For `Consolidation`, three events fill one batch and leave one
behind, and one reload gives the two loops that compete for the dream cursor. In
`Conversation` the second turn meets what the first, interrupted one left behind, and a
window of three messages cuts a call of two results at every place. `MCModelCall` has a
failed attempt after a complete and after a partial stream, parallel calls, a delay that
is capped and one that has wrapped. In
`McpRegistry` two requests overlap in every way, also tool by tool with the worker's
reconnect, and the shared name makes one server's
removal touch the other. Two turns in `Disclosure` suffice for state carried over a reload
to any other mode. `HttpMemory` reaches its threshold with calls of both threads in
flight. Three minutes in `Cron` let a recurring job fall behind by two. In `App` two
events (requests, edits, commands, failed saves) are every pair of writers, with the
watcher's polls in between.

*Fairness.* Weak fairness of each thread inside a call: the scheduler runs it, a
mutex that stays free is taken, the worker's iterations are bounded
(`max_iterations`) and `wait_for` has a time limit. Starting a call, answering a
question, removing a session, and spurious wake-ups are not promised. A
consolidation loop is weakly fair because its `wait_for` has a time limit and model
calls return or throw. The steps of a turn in `Conversation` and of an attempt in
`ModelCall` are weakly fair; the adapters set no timeout, so that a transfer ends is the
server's or the connection's doing. A handler in `McpRegistry`, and a worker inside
`Connect`, whose connection a handler may wait for, go on because the
client's requests have a timeout. In `HttpMemory` time passes, a thread in a call goes on,
and calls keep being made; that the server gets well is the premise of `CircuitCloses`.
In `Cron` the watcher's wait ends, callers leave the session and a program that ended is
started again. In `App` requests in service, the watcher's poll and the steps of `main`
after the stop go on; that the program is stopped is nobody's duty. The liveness runs use
no symmetry.

### Disagreements between the code and what is said about it

Each of these configurations checks one statement found in a comment, a message or a
design document, and TLC refutes it. `MCOneTurnOneAgent` is a run of `PROJECT.json`; the
others are kept beside it to be run by hand (`tlc -config MCUnlimited.cfg
MCSessionManager`), with the definition of the same subject in the module.

| Configuration (module) | Statement that fails |
|---|---|
| `MCOneTurnOneAgent` (`MCSessionManager`) | a turn never sees a newer Agent's SkillEngine (`session_manager.cpp:96-98`): a caller that waits for `invokeMutex` has already rebound the entry |
| `MCUnlimited` (`MCSessionManager`) | a limit of 0 means no limit (`session_design.md:193`): sleepers at the gate stay asleep after a reload to 0 |
| `MCShutdownAborts` (`MCSessionManager`) | `Shutdown` does not abort turns (`session_manager.cpp:694`): `Agent::Shutdown` cancels its worker |
| `MCRemoveDisk` (`MCSessionManager`) | the directory is deleted only when no turn runs (`session_manager.cpp:833`): the `try_lock` is released before `remove_all` |
| `MCGateLeak` (`MCSessionManager`) | the slot is given back on every path (`session_design.md:206`): not when `FindOrCreateEntry` throws |
| `MCPendingAnswerable` (`MCAskUser`) | the answer reaches the dispatcher of its session (`session_manager.h:196-199`): not after the session was soft-deleted |
| `MCModelError` (`MCConsolidation`) | `.dream_cursor` records consolidated entries (`core_design.md:349`): a failed model call moves it too |
| `MCAnthropicArguments` (`MCModelCall`) | the arguments of a call are accumulated from its `input_json_delta`s (comment at `anthropic_model.cpp:30`): they are filed under the content block's number, not the call's, and after the text of the initial input object |
| `MCHalfShown` (`MCModelCall`) | an attempt that may be retried passes no `onChunk`, so no half response is shown (`model_design.md:168-169`, `curl_client_design.md:349, 382`, `openai_model.cpp:421-424`): the first attempt streams and may fail after that |
| `MCBackoff` (`MCModelCall`) | the delay is `min(baseDelayMs * 2^attempt + jitter, maxDelayMs)` for any number of retries (`model_design.md:175`): the doubling is in an `int` (`retry_helper.h:14-29`) and comes out negative once it overflows, which with the default base of 400 ms takes more than twenty retries |
| `MCEnabledServer` (`MCMcpRegistry`) | an enabled server is started: `Load` does not forget the configuration of a server it stopped, so the same one, given again, counts as unchanged (`mcp_config_manager.cpp:26`) |
| `MCUndescribed` (`MCDisclosure`) | all tools are already visible in the catalog (`tool_search_tool.cpp:92-96`): one without a description is not |
| `MCRunningText` (`MCHttpMemory`) | the text of a context is re-rendered from the surviving entities (`entity_decay.h:15-17`): lines that are no bullets are kept as they are |
| `MCEntriesPreserved` (`MCApp`) | "the store preserves all agent entries" (jiuwenClaw's README:182): a PUT writes what the store read last, which is less than the file when the file was edited since, or read halfway |
| `MCFiresOnce` (`MCCron`) | a one-time job "Fires once, then is removed" (jiuwenClaw's README): not when the tool writes back a copy it read before |

Further, by reading: one success does not close the circuit as `memory_design.md:294`
says, it closes at its deadline; the log at `cron_watcher.cpp:339` promises a retry that
a cron expression does not get; intervals below a second make the loop at
`cron_watcher.cpp:239` endless; ids made in one second are the same (`cron_tool.cpp:23`); a
cron expression with both a date and a weekday is scheduled for days it is then not fired
on (`cron_watcher.cpp:79-83, 115-126`).

Overlap of a re-created session with the last turn of the removed one, and the
window between the reserved check and the removal, are documented as known residual
risks and are not listed.

## 4. The abstract specification

`TurnService` says what a caller may rely on: a call is bound to a slot and to the
Agent that is current at one instant between submission and service; calls in one
slot do not overlap; swapping the current Agent does not disturb calls already bound.
`SessionManager!Service` instantiates it with slots = `SessionEntry` objects, the
current Agent = `agent_`, and `Phase(t)` computed from the caller's place. The
interesting step is `Resolve`: it may find an entry bound to any older Agent, and the
draining test must turn that into the active one.

## 5. Theorems

`SessionManagerProofs`, for all finite sets of threads, any operators, sessions,
limits, roots, and all bounds in Nat (`BoundsAssumption`, `SetsAssumption`,
`NoneAssumption`):

| Theorem | Statement | Inductive invariant |
|---|---|---|
| `TypeCorrect` | `Spec => []TypeOK` | `Typing` = `TypeOK` and, per caller and operator, which locals are set at which place; `TypeOK` alone is not inductive because `bound[ent[t]]` needs `ent[t]` to be an entry |
| `TurnsAreSerial` | `Spec => []SerialPerEntry` | `MutexHeld`: a caller inside owns the mutex of its entry |
| `BusyFlagIsExact` | `Spec => []BusyFlagExact` | itself, with `MutexHeld`: without ownership, one caller's `ClearBusy` could lower another's flag |
| `GateIsConserved` | `Spec => []GateConserved` | itself, with `Typing`; `AdmittedChange` gives the cardinality of the admitted set after a step |
| `AdmissionRespectsCap` | `Spec => AdmissionUnderCap` | `Typing` (an action property) |
| `Implementation` | `Spec => ImplementsTurnService` | `BindingKnown`: every entry in memory names the active Agent or a draining one, and drafts not yet swapped in are newer than all of them; this is what makes `Resolve` a `Bind` step |
| `NoActivityLeak` | `Spec => []NoStaleActivity` | itself, with `MutexHeld` and `Typing` |
| `ReloadNeverAborts` | `Spec => []AbortOnlyByOperator` | `AbortTraced`: before the first cancel or shutdown every generation is 0 |

`AskUserProofs` (assumptions `RemovesAssumption`, `NoneAssumption`): `TypeCorrect`;
`AnswersMatch` from `Delivered` (an answer in a slot came from a responder that named
that request); `NoSlotLeak` from `TablesExact` (slot and index entry exist exactly at
the places between creation and removal).

Every proof is by cases on the actions of `Next`, one step each, with the frame
lemmas for what an action leaves alone.

`ConsolidationProofs` (assumption `ConsolidationAssumption`: any sessions and excluded
set, any positive batch size, any bounds in Nat):

| Theorem | Statement | Inductive invariant |
|---|---|---|
| `TypeCorrect` | `Spec => []TypeOK` | `Typing`: also `active <= trouble` and `cursorFile <= events`, which keep Agents and cursors in range |
| `NoEventPassedOver` | `Spec => []NothingPassedOver` | `FilesOK` (the history is finite and its ids do not exceed the number of appends) and, per loop, `PassOK`: everything at or below `lastCursor` is done (`DoneUpTo`), `lastCursor` is not ahead of the history (`Reached`, so that a later append cannot slip below it), and the batch has no hole between `lastCursor` and its last entry (`BatchWhole`). A commit then extends `DoneUpTo` from `lastCursor` to the cursor of the last entry, whatever another loop wrote meanwhile. `FirstOfWhole` derives the absence of holes from the order of the cursors |
| `FinishedTurnsTakenUp` | `Spec => []FinishedTurnIsTakenUp` | `TakenUpInv`, with `Inv`: `Awaited` says *which* loop takes a waiting event up, that of the Agent its session is bound to, and `Owned` that this loop is there, that an Agent yet to be built has its first cycle ahead, and that a turn runs on the Agent its session is bound to. `WholeBatch` shows that a history that fits one batch is read whole |

`McpRegistryProofs` (`McpAssumption`: any servers, tools, handlers and configurations,
any tools offered by any server, any order in which the servers of the file connected at
start, any bounds in Nat). Lemmas named `...Effect` say once what a step of `Connect`,
`Disconnect`, `Load` and `CallTool` does to the registry, and `Steps` that every step is one
of those; the invariants are about them.

| Theorem | Statement | Inductive invariant |
|---|---|---|
| `TypeCorrect` | `Spec => []TypeOK` | `Typing`: also that a handler is in `Load` exactly while it has the mutex, that the server to start has a configuration, that every number in a map is that of a connection made, and that a thread has a connection under way exactly at the places inside `Connect` and `Disconnect` |
| `FactoriesAreLive` | `Spec => []ServedByLiveConnection` | `Connections` (one thread inside a connection at a time, one that is being connected is down, and one that is down lists no tools unless its `Connect` threw) and `Served`: while a connection is taken down its factories are among the tools still to be unregistered (`LeftToUnregister`), and between the two sections of a registration the factory is there unless somebody took it away (`BeingNoted`) |
| `OneConnection` | `Spec => []OneConnectionPerServer` | `SameServer`: the two maps agree *inside* `Load` too and number connections of the right server (`MapsAgree`), the server a handler is about to start has none, and the connection it stops is the one both maps name (`HandlerHolds`), which the mutex protects from the other handlers (`OthersHoldNothing`) |
| `SyncedToolsAgree` | `Spec => []SyncAgrees` | `DiffIsCurrent`: the difference a handler is about to merge is the difference of now unless something overtook it |
| `SchemasAreFresh` | `Spec => []SchemaCacheFresh` | `ProbeIsCurrent`: the factory probed is the registered one unless it changed since the lookup. `ChangedFactoryHasNoSchema`: every other step that changes a factory drops its schema |

`DisclosureProofs` (`DisclosureAssumption`: any sessions, skills and budgets, finitely many
tools, any set of modes):

| Theorem | Statement | Inductive invariant |
|---|---|---|
| `TypeCorrect` | `Spec => []TypeOK` | `Typing`: also that the mode of a running turn is resolved and that the searches it may need are registered |
| `CallableToolsAreListed` | `Spec => []CallableIsListed` | `TurnStateOK`, `PromptOK`, `OfferOK`: what the TurnState, the rendered prompt (less the tools without a description) and the function-call list know of each other at each step of a turn |
| `TurnsStartFresh` | `Spec => []NothingCarriedOver` | `TurnStateOK`, of which it is a part: a loaded tool is active, a full side holds the pool of the start |
| `SearchAnswersAreTrue` | `Spec => []AllVisibleIsTrue` | itself, with the three above: the flag `full` alone does not say what the prompt lists |

`ConversationProofs` (`ConversationAssumption`: a window of at least two messages and one
token, any other limits in Nat, either storage):

| Theorem | Statement | Inductive invariant |
|---|---|---|
| `TypeCorrect` | `Spec => []TypeOK` | `Typing`: also that an iteration under way is below the limit and that a snapshot is not ahead of the generation |
| `CancelledTurnsStop` | `Spec => []CancelStopsRequests` | itself and `CancelSeen`: a turn marked as cancelled is one whose snapshot is behind, so the gate sees it |
| `ShownAnswersSurvive` | `Spec => []ShownAnswerSurvives` | itself and `AnswerOnItsWay`: an answer waiting to be shown is on disk, one waiting to be saved is the pending message. `AddMessageDoes` and `SaveKeeps` show that trimming is of the buffer only and that a save which reads the file only appends |
| `WindowsKeepQuery` | `Spec => []WindowKeepsQuery` | `QueryBuffered`: while a turn runs its query is the last user message of the buffer, so the newest segment starts with it or with what it was merged into. `WindowDoes` follows it through the window |
| `PromptOnlyRequestsWellFormed` | `Spec => []PromptOnlyWellFormed`, the part of `RequestWellFormed` about prompt-only mode | `Typing`: `FallbackTells` needs nothing of the ids |
| `HistoriesInOrder` | if `~FallbackIds`, `Spec => [](CallsOK /\ HistoriesOK)` | itself, with `IInv` |
| `RequestsWellFormed` | if `~FallbackIds`, `Spec => []RequestWellFormed` | `CallsOK` and `HistoriesOK`, see below |

`RequestWellFormed` is about one state and is not inductive: whether the next request is
well formed depends on the whole history, on what a crash leaves on disk, and on the calls
still to be executed. The invariant says of the buffer, and of the persisted history with
the pending message, that they are `Ordered` (results come in the order of their calls,
and from an answered call to its result there are only results of the same message) and
`OpenFor` the calls still to be executed (no result at or beyond them, and after the
message they belong to only its results). The argument then has three parts.
*(1)* Losing messages, in whatever way, keeps `Ordered` and `OpenFor`
(`EmbeddedIsOrdered`, `EmbeddedIsOpen`); so a lost save, a file started anew, the trim
at `Initialize`, the cut and the drop of unpaired messages are one case. *(2)* A message
that comes keeps them: `MessageComes` and `ResultComes`, from `CallsOK`. *(3)* The window is
`Ordered` and `Complete` (every call has a result there, every result its call):
`MergeDoes`, `CompressDoes`, `CutDoes`, `DropOrphanDoes` and `DropUnpairedDoes` say what
each stage of `ApplyContextLimits` does, `WindowDoes` puts them together, and
`PairsInPlace` shows that in such a window the results of a message's `n` calls are the
next `n` messages, one by one. `OpenAiPaired` and `NativePaired` carry this through the two
request formats. The stages are stated as which positions are kept (`InOrder`, `Only`),
whose lemmas (`InOrderDoes`, `OnlyDoes`) rest on cardinalities of finite sets.

The assumption `~FallbackIds` is needed: with `FallbackIds = TRUE` and `MaxFaults = 2` TLC
finds a history in which a result from before a restart stands for that of a new call
whose own result was refused, because `g_fallbackCounter` (`react_worker.cpp:31`) starts
again at each restart. Such ids are given out in prompt-only mode, whose requests
`PromptOnlyRequestsWellFormed` covers without the assumption, and in native mode when the
server sends a call without an id (`react_worker.cpp:163-168`). The cases left are native
requests over a history that has such ids from before a restart: a server that sends none,
or a session that was prompt-only.
The strengthened invariant was checked with TLC at `MaxFaults = 2` (3.1 million states)
before it was proved.

`HttpMemoryProofs` (`HttpMemoryAssumption`: any threads, entities, relations, retry count
and cooldown, a positive threshold):

| Theorem | Statement | Inductive invariant |
|---|---|---|
| `TypeCorrect` | `Spec => []TypeOK` | `Typing`: also that a context is none or a filtered package |
| `WritesStoredAsReported` | `Spec => []StoredAsReported` | `ActedPerAttempt` (the server has acted at most once per attempt that is over) and `Reported` |
| `ContextNamesNoExpired` | `Spec => []NoExpiredMention` | `Typing`; `FilterRemovesExpired` is the fact about the filter, for any package: what it takes out are listed, expired event entities, and no relation and no bullet left names one of them |

`AppProofs` (`AppAssumption`, `AgentConfigsAssumption`: any threads, Agents, channels and
requests, any contents of the files in which the channels are finitely many and numbered):

| Theorem | Statement | Inductive invariant |
|---|---|---|
| `TypeCorrect` | `Spec => []TypeOK` | `IInv` |
| `StoresStayConsistent` | `Spec => []StoresConsistent` | `IInv`: its three parts and the typing of the channels *in the file*, which the watcher reads back. `EffectiveOfPut` and `EffectiveOfDrop` show that recomputing one id is recomputing all, `LoadedIsMerged` that a `Load` that throws leaves only merged entries; `RecalcIsFree` that one past the largest number is free, from `MaxOfFinite`, and `LoadedIsFree` that a file read halfway adds only `unnoted` numbers |

The type theorems other than that of `SessionManager`, `AdmissionRespectsCap` and
`TurnsAreSerial` stand without a run of their own.

*Only model-checked:*

- The liveness properties `InvokeReturns`, `TimelyAnswerIsUsed`, `CallsEnd`,
  `RetiredLoopEnds`, `TurnEnds`, `CallEnds`, `RequestEnds`, `CircuitCloses`,
  `EveryOccurrenceFires`, `Settles` and `StopEnds`: the prover does not handle fairness.
- `StreamedOnce` and `OpenAiArgumentsComplete` of `ModelCall`, `NeverTooOften` and
  `FileIsExact` of `Cron`. The first two compare sequences that grow by concatenation with
  what `SelectSeq` leaves of a sequence, and `Doubled` is recursive; the last two count
  the multiples of an interval and the minutes that match, and rest on `SelectSeq` and
  `RemoveAt`. The prover has neither the definition nor a fact about those operators.
  Stating them by positions, as `Conversation` does, is the way to a proof; it has not
  been gone for these two.

## 6. Plan

1. **Core (done):** `SessionManager`, `TurnService`, `AskUser`, their runs and proofs.
2. **Consolidation (done):** the Agent's loop, `HistoryStore` and `DreamProcessor` with
   their runs and proofs.
3. **Conversation, ModelCall, McpRegistry, Disclosure, HttpMemory, Cron, App (done):**
   modelled and checked; every safety property of `Conversation`, `McpRegistry`,
   `Disclosure`, `HttpMemory` and `App` is proved.
4. **Left to prove:** the two safety properties each of `ModelCall` and `Cron`, once what
   `SelectSeq` keeps is stated there as positions too.
5. **SessionStorage:** `SanitizePathName` and restart: which sessions `Initialize` restores.
6. **File tools:** read-modify-write of one file by the turns of two sessions.

## 7. Not modelled

Prompt wording, JSON and HTTP encoding, and the web, shell and file tools are sequential
I/O without shared state; two sessions that edit one file race in the file system, about
which the framework promises nothing. The todo list is a map under one mutex. Of the
memory runtimes, `type_bridge` copies fields and the builtin runtime delegates to
`HistoryStore` and `DreamProcessor`. Of the example application the heartbeat (a timer
that calls `Invoke` on a reserved session), the Feishu wire protocol and the web UI are
left out; its chat and session routes are the callers of `SessionManager`, and threads it
detaches are not followed past `main`. `CompactHistory`, `ReadAllEntries` and
`WriteEntries` have no callers; the MemoryRuntime branch of the consolidation loop calls
an external service. Destruction of an
Agent while `sessionMutex_` is held (its join is then inside the lock) is noted but
not a step of the model. Memory-model effects below the level of the mutexes are out
of scope, except that unlocked reads (`maxConcurrent_`, `entry->agent`, `config_`)
are separate steps that see any interleaved value.
