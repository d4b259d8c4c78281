--------------------------- MODULE SessionManager ---------------------------
(***************************************************************************)
(* The runtime hub of the framework: SessionManager                        *)
(* (src/session/session_manager.cpp) with the part of Agent                *)
(* (src/core/agent.cpp) and AgentWorker (src/core/agent_worker.cpp) whose  *)
(* state it shares across threads.                                         *)
(*                                                                         *)
(* Caller threads run Invoke; operator threads run ReloadAgent,            *)
(* RemoveSession, Cancel, Shutdown and GetOrCreateSession.  One action is  *)
(* one critical section, or one step between two of them, so every         *)
(* interleaving the mutexes allow is a behaviour.  The specification       *)
(* starts in the state Initialize leaves.                                  *)
(***************************************************************************)
EXTENDS Integers, FiniteSets

CONSTANTS
    Threads,        \* threads that call Invoke
    Admins,         \* threads that call the operator entry points
    Sessions,       \* session ids in use
    Reserved,       \* ids RegisterReservedSession was called with at start-up
    Caps,           \* values of maxConcurrentSessions a configuration may hold
    Roots,          \* directories dataBasePath may denote
    HomeRoot,       \* the absolute path Initialize normalised dataBasePath to
    ReloadRoots,    \* what dataBasePath of a reloaded configuration denotes
    None,           \* null pointer, unlocked mutex, no value
    MaxInvokes,     \* bound: calls of Invoke
    MaxReloads,     \* bound: Agents constructed by ReloadAgent
    MaxRemoves,     \* bound: calls of RemoveSession
    MaxCancels,     \* bound: calls of Cancel
    MaxShutdowns,   \* bound: calls of Shutdown
    MaxFaults       \* bound: exceptions thrown by FindOrCreateEntry

\* Agents are numbered in construction order; 0 is the one Initialize builds.
Agents == 0 .. MaxReloads

\* A SessionEntry object: the id it was created for and how often that id had
\* been removed before, so a re-created session is a different object.
Entries == Sessions \X (0 .. MaxRemoves)

ASSUME BoundsAssumption ==
    /\ MaxInvokes \in Nat /\ MaxReloads \in Nat /\ MaxRemoves \in Nat
    /\ MaxCancels \in Nat /\ MaxShutdowns \in Nat /\ MaxFaults \in Nat

ASSUME SetsAssumption ==
    /\ IsFiniteSet(Threads)
    /\ Reserved \subseteq Sessions
    /\ Caps \subseteq Nat
    /\ HomeRoot \in Roots /\ ReloadRoots \subseteq Roots

ASSUME NoneAssumption ==
    /\ None \notin Threads /\ None \notin Sessions /\ None \notin Roots
    /\ None \notin Agents  /\ None \notin Entries

VARIABLES
    concurrentCount,  \* concurrentCount_
    maxConcurrent,    \* maxConcurrent_ (0: no limit)
    active,           \* agent_
    draining,         \* Agents whose draining_ flag is set
    built,            \* the newest Agent constructed
    cancelGen,        \* Agent -> cancelGeneration_ of its worker
    activity,         \* Agent -> session -> entry of sessionActivity_
    stopped,          \* Agents whose consolidation thread Shutdown has joined
    inMem,            \* session -> whether sessions_ holds it
    inc,              \* session -> number of times it has been erased
    bound,            \* entry -> entry->agent
    isBusy,           \* entry -> entry->isBusy
    holder,           \* entry -> owner of entry->invokeMutex
    store,            \* entry -> root its ContextEngine writes under
    basePath,         \* config_.dataBasePath
    dirs,             \* session directories on disk
    pc,               \* caller -> where in Invoke it is
    sess,             \* caller -> sessionId argument
    ent,              \* caller -> local entry
    agt,              \* caller -> local agentPtr
    gen,              \* caller -> myGeneration of the worker's turn
    skill,            \* caller -> Agent owning the SkillEngine* of a tool call
    outcome,          \* caller -> how the worker's turn ended
    adm,              \* operator -> the call it is in, with its locals
    used              \* how much of each bound is spent

gateVars    == <<concurrentCount, maxConcurrent>>
agentVars   == <<active, draining, built, cancelGen, activity, stopped>>
entryVars   == <<inMem, inc, bound, isBusy, holder, store>>
diskVars    == <<basePath, dirs>>
callerVars  == <<pc, sess, ent, agt, gen, skill, outcome>>
vars == <<gateVars, agentVars, entryVars, diskVars, callerVars, adm, used>>

\* Where a caller can be in Invoke.  "test" evaluates the wait predicate,
\* "waiting" sleeps on concurrencyCv_, "resolve" is about to take
\* sessionMutex_, "lock" is about to take invokeMutex.
InTurn   == {"snapshot", "work", "tool", "reply", "idleguard"}
Marked   == {"notify", "unbusy"} \cup InTurn
InMutex  == {"release", "unlock"} \cup Marked
InGate   == {"resolve", "lock", "release"} \cup Marked
Resolved == {"lock"} \cup InMutex
Places   == {"idle", "test", "waiting", "resolve"} \cup Resolved

Calls == {"idle", "swap", "erase", "trylock", "disk", "cleanup", "cancel", "stop"}

NoCall == [op |-> "idle", sess |-> None, victim |-> None, root |-> None,
           agent |-> None, cap |-> 0, todo |-> {}]

\* The SessionEntry a session id denotes now, or will when it is created.
Entry(s) == <<s, inc[s]>>

Budget == [invokes : 0 .. MaxInvokes, removes : 0 .. MaxRemoves,
           cancels : 0 .. MaxCancels, shutdowns : 0 .. MaxShutdowns,
           faults : 0 .. MaxFaults]

\* Initialize: agent 0 is active, the sessions found on disk are in memory
\* unless restoring one threw, and all of them are bound to agent 0.
Init ==
    /\ concurrentCount = 0
    /\ maxConcurrent \in Caps
    /\ active = 0 /\ draining = {} /\ built = 0 /\ stopped = {}
    /\ cancelGen = [a \in Agents |-> 0]
    /\ activity = [a \in Agents |-> [s \in Sessions |-> "none"]]
    /\ inMem \in [Sessions -> BOOLEAN]
    /\ inc = [s \in Sessions |-> 0]
    /\ bound = [e \in Entries |-> 0]
    /\ isBusy = [e \in Entries |-> FALSE]
    /\ holder = [e \in Entries |-> None]
    /\ store = [e \in Entries |-> HomeRoot]
    /\ basePath = HomeRoot
    /\ dirs = {HomeRoot} \X {s \in Sessions : inMem[s]}
    /\ pc = [t \in Threads |-> "idle"]
    /\ sess = [t \in Threads |-> None]
    /\ ent = [t \in Threads |-> None]
    /\ agt = [t \in Threads |-> None]
    /\ gen = [t \in Threads |-> 0]
    /\ skill = [t \in Threads |-> None]
    /\ outcome = [t \in Threads |-> "none"]
    /\ adm = [o \in Admins |-> NoCall]
    /\ used = [invokes |-> 0, removes |-> 0, cancels |-> 0,
               shutdowns |-> 0, faults |-> 0]

-----------------------------------------------------------------------------
(* Invoke: the concurrency gate.  ReloadAgent writes maxConcurrent_ under  *)
(* sessionMutex_, not concurrencyMutex_, so the test of maxConcurrent_ > 0 *)
(* and the wait predicate may see different values.                        *)

Goto(t, p) == pc' = [pc EXCEPT ![t] = p]

\* Invoke on session s: the first read of maxConcurrent_.
EnterGate(t, s) ==
    /\ pc[t] = "idle"
    /\ used.invokes < MaxInvokes
    /\ used' = [used EXCEPT !.invokes = @ + 1]
    /\ sess' = [sess EXCEPT ![t] = s]
    /\ IF maxConcurrent > 0
       THEN Goto(t, "test") /\ UNCHANGED concurrentCount
       ELSE Goto(t, "resolve") /\ concurrentCount' = concurrentCount + 1
    /\ UNCHANGED <<maxConcurrent, agentVars, entryVars, diskVars, ent, agt,
                   gen, skill, outcome, adm>>

\* The predicate of concurrencyCv_.wait.
HasSlot == concurrentCount < maxConcurrent

\* The predicate is evaluated on entry and after every wake-up; false sends
\* the caller (back) to sleep.
TestGate(t) ==
    /\ pc[t] = "test"
    /\ IF HasSlot
       THEN Goto(t, "resolve") /\ concurrentCount' = concurrentCount + 1
       ELSE Goto(t, "waiting") /\ UNCHANGED concurrentCount
    /\ UNCHANGED <<maxConcurrent, agentVars, entryVars, diskVars, sess, ent,
                   agt, gen, skill, outcome, adm, used>>

\* A condition variable may wake without a notification.
SpuriousWake(t) ==
    /\ pc[t] = "waiting"
    /\ Goto(t, "test")
    /\ UNCHANGED <<gateVars, agentVars, entryVars, diskVars, sess, ent, agt,
                   gen, skill, outcome, adm, used>>

-----------------------------------------------------------------------------
(* Invoke: the session entry and its Agent, under sessionMutex_.           *)

\* FindOrCreateEntry: a new entry creates its directory under the configured
\* base path and binds the active Agent.
FindOrCreateEntry(s) ==
    /\ inMem' = [inMem EXCEPT ![s] = TRUE]
    /\ IF inMem[s]
       THEN UNCHANGED <<store, dirs>>
       ELSE /\ store' = [store EXCEPT ![Entry(s)] = basePath]
            /\ dirs' = dirs \cup {<<basePath, s>>}
    /\ UNCHANGED <<inc, isBusy, holder, basePath>>

\* entry->agent as FindOrCreateEntry returns it.
FoundAgent(s) == IF inMem[s] THEN bound[Entry(s)] ELSE active

\* Mutant: the draining check is dropped.
Resolve_NoRebind(t) ==
    LET s == sess[t]
    IN  /\ pc[t] = "resolve"
        /\ FindOrCreateEntry(s)
        /\ bound' = [bound EXCEPT ![Entry(s)] = FoundAgent(s)]
        /\ ent' = [ent EXCEPT ![t] = Entry(s)]
        /\ agt' = [agt EXCEPT ![t] = FoundAgent(s)]
        /\ Goto(t, "lock")
        /\ UNCHANGED <<gateVars, agentVars, sess, gen, skill, outcome, adm, used>>

\* A session whose Agent is draining is rebound to the active one, then the
\* caller snapshots entry and Agent and caches the entry for its thread.
Resolve(t) ==
    LET s == sess[t]
        a == IF FoundAgent(s) \in draining THEN active ELSE FoundAgent(s)
    IN  /\ pc[t] = "resolve"
        /\ FindOrCreateEntry(s)
        /\ bound' = [bound EXCEPT ![Entry(s)] = a]
        /\ ent' = [ent EXCEPT ![t] = Entry(s)]
        /\ agt' = [agt EXCEPT ![t] = a]
        /\ Goto(t, "lock")
        /\ UNCHANGED <<gateVars, agentVars, sess, gen, skill, outcome, adm, used>>

\* FindOrCreateEntry throws (create_directories, ContextEngine::Initialize).
\* Nothing catches it in Invoke: releaseGate does not run.  The directory may
\* exist by then.
ResolveThrows(t) ==
    /\ pc[t] = "resolve"
    /\ ~inMem[sess[t]]
    /\ used.faults < MaxFaults
    /\ used' = [used EXCEPT !.faults = @ + 1]
    /\ dirs' \in {dirs, dirs \cup {<<basePath, sess[t]>>}}
    /\ sess' = [sess EXCEPT ![t] = None]
    /\ Goto(t, "idle")
    /\ UNCHANGED <<gateVars, agentVars, entryVars, basePath, ent, agt, gen,
                   skill, outcome, adm>>

-----------------------------------------------------------------------------
(* Invoke: the turn, under the entry's invokeMutex.                        *)

\* invokeMutex is taken and isBusy raised.
LockEntry(t) ==
    /\ pc[t] = "lock"
    /\ holder[ent[t]] = None
    /\ holder' = [holder EXCEPT ![ent[t]] = t]
    /\ isBusy' = [isBusy EXCEPT ![ent[t]] = TRUE]
    /\ Goto(t, "notify")
    /\ UNCHANGED <<gateVars, agentVars, inMem, inc, bound, store, diskVars,
                   sess, ent, agt, gen, skill, outcome, adm, used>>

\* Agent::Invoke up to the worker: NotifySessionActive, then the user message
\* is persisted.
NotifySessionActive(t) ==
    /\ pc[t] = "notify"
    /\ activity' = [activity EXCEPT ![agt[t]][sess[t]] = "busy"]
    /\ Goto(t, "snapshot")
    /\ UNCHANGED <<gateVars, active, draining, built, cancelGen, stopped,
                   entryVars, diskVars, sess, ent, agt, gen, skill, outcome,
                   adm, used>>

\* CurrentCancelGeneration: the turn's baseline.
SnapshotGeneration(t) ==
    /\ pc[t] = "snapshot"
    /\ gen' = [gen EXCEPT ![t] = cancelGen[agt[t]]]
    /\ Goto(t, "work")
    /\ UNCHANGED <<gateVars, agentVars, entryVars, diskVars, sess, ent, agt,
                   skill, outcome, adm, used>>

\* ExecuteTool builds a ToolBuildContext: GetSkillEngine reads the cached
\* entry's agent field, without sessionMutex_, and keeps a raw pointer.  One
\* such call per turn is modelled.
BeginTool(t) ==
    /\ pc[t] = "work"
    /\ skill' = [skill EXCEPT ![t] = bound[ent[t]]]
    /\ Goto(t, "tool")
    /\ UNCHANGED <<gateVars, agentVars, entryVars, diskVars, sess, ent, agt,
                   gen, outcome, adm, used>>

EndTool(t) ==
    /\ pc[t] = "tool"
    /\ skill' = [skill EXCEPT ![t] = None]
    /\ Goto(t, "reply")
    /\ UNCHANGED <<gateVars, agentVars, entryVars, diskVars, sess, ent, agt,
                   gen, outcome, adm, used>>

\* IsCancelled(myGeneration).
IsCancelled(t) == cancelGen[agt[t]] > gen[t]

\* The worker returns: with an answer (or an error text), or early because a
\* check of IsCancelled was true.
FinishTurn(t, how) ==
    /\ pc[t] \in {"work", "reply"}
    /\ how = "aborted" => IsCancelled(t)
    /\ outcome' = [outcome EXCEPT ![t] = how]
    /\ Goto(t, "idleguard")
    /\ UNCHANGED <<gateVars, agentVars, entryVars, diskVars, sess, ent, agt,
                   gen, skill, adm, used>>

\* Mutant: no RAII guard, an exception skips NotifySessionIdle.
TurnThrows_NoGuard(t) ==
    /\ pc[t] \in {"snapshot", "work", "reply"}
    /\ outcome' = [outcome EXCEPT ![t] = "failed"]
    /\ Goto(t, "unbusy")
    /\ UNCHANGED <<gateVars, agentVars, entryVars, diskVars, sess, ent, agt,
                   gen, skill, adm, used>>

\* A std::exception leaves Agent::Invoke (AddMessage, the model, the callback):
\* the same guard runs as on a return.  Anything else would leave Invoke with
\* isBusy up and the slot taken; nothing in the repository throws one.
TurnThrows(t) ==
    /\ pc[t] \in {"snapshot", "work", "reply"}
    /\ outcome' = [outcome EXCEPT ![t] = "failed"]
    /\ Goto(t, "idleguard")
    /\ UNCHANGED <<gateVars, agentVars, entryVars, diskVars, sess, ent, agt,
                   gen, skill, adm, used>>

\* SessionIdleGuard: NotifySessionIdle clears the busy mark if the session
\* still has an activity record.
NotifySessionIdle(t) ==
    /\ pc[t] = "idleguard"
    /\ activity' = [activity EXCEPT ![agt[t]][sess[t]] =
                        IF @ = "none" THEN "none" ELSE "idle"]
    /\ Goto(t, "unbusy")
    /\ UNCHANGED <<gateVars, active, draining, built, cancelGen, stopped,
                   entryVars, diskVars, sess, ent, agt, gen, skill, outcome,
                   adm, used>>

\* Mutant: the catch path forgets isBusy.
ClearBusy_NotOnCatch(t) ==
    /\ pc[t] = "unbusy"
    /\ isBusy' = [isBusy EXCEPT ![ent[t]] = outcome[t] = "failed"]
    /\ Goto(t, "release")
    /\ UNCHANGED <<gateVars, agentVars, inMem, inc, bound, holder, store,
                   diskVars, sess, ent, agt, gen, skill, outcome, adm, used>>

\* isBusy = false and ClearCurrentEntry, on the normal and the catch path.
ClearBusy(t) ==
    /\ pc[t] = "unbusy"
    /\ isBusy' = [isBusy EXCEPT ![ent[t]] = FALSE]
    /\ Goto(t, "release")
    /\ UNCHANGED <<gateVars, agentVars, inMem, inc, bound, holder, store,
                   diskVars, sess, ent, agt, gen, skill, outcome, adm, used>>

\* Mutant: the catch path returns without releaseGate.
ReleaseGate_NotOnCatch(t) ==
    /\ pc[t] = "release"
    /\ concurrentCount' = IF outcome[t] = "failed" THEN concurrentCount
                                                   ELSE concurrentCount - 1
    /\ pc' = [u \in Threads |-> IF u = t THEN "unlock"
                                ELSE IF pc[u] = "waiting" THEN "test"
                                ELSE pc[u]]
    /\ UNCHANGED <<maxConcurrent, agentVars, entryVars, diskVars, sess, ent,
                   agt, gen, skill, outcome, adm, used>>

\* Mutant: the catch path releases and falls through to a second release.
ReleaseGate_Twice(t) ==
    /\ pc[t] = "release"
    /\ concurrentCount' = concurrentCount - (IF outcome[t] = "failed" THEN 2 ELSE 1)
    /\ pc' = [u \in Threads |-> IF u = t THEN "unlock"
                                ELSE IF pc[u] = "waiting" THEN "test"
                                ELSE pc[u]]
    /\ UNCHANGED <<maxConcurrent, agentVars, entryVars, diskVars, sess, ent,
                   agt, gen, skill, outcome, adm, used>>

\* Mutant: the slot is given back without notify_all.
ReleaseGate_NoNotify(t) ==
    /\ pc[t] = "release"
    /\ concurrentCount' = IF concurrentCount > 0 THEN concurrentCount - 1
                                                 ELSE concurrentCount
    /\ Goto(t, "unlock")
    /\ UNCHANGED <<maxConcurrent, agentVars, entryVars, diskVars, sess, ent,
                   agt, gen, skill, outcome, adm, used>>

\* releaseGate: notify_all sends every sleeper back to the predicate.
ReleaseGate(t) ==
    /\ pc[t] = "release"
    /\ concurrentCount' = IF concurrentCount > 0 THEN concurrentCount - 1
                                                 ELSE concurrentCount
    /\ pc' = [u \in Threads |-> IF u = t THEN "unlock"
                                ELSE IF pc[u] = "waiting" THEN "test"
                                ELSE pc[u]]
    /\ UNCHANGED <<maxConcurrent, agentVars, entryVars, diskVars, sess, ent,
                   agt, gen, skill, outcome, adm, used>>

\* Invoke returns: invokeMutex is released, the local pointers die.
ReturnInvoke(t) ==
    /\ pc[t] = "unlock"
    /\ holder' = [holder EXCEPT ![ent[t]] = None]
    /\ sess' = [sess EXCEPT ![t] = None]
    /\ ent' = [ent EXCEPT ![t] = None]
    /\ agt' = [agt EXCEPT ![t] = None]
    /\ gen' = [gen EXCEPT ![t] = 0]
    /\ outcome' = [outcome EXCEPT ![t] = "none"]
    /\ Goto(t, "idle")
    /\ UNCHANGED <<gateVars, agentVars, inMem, inc, bound, isBusy, store,
                   diskVars, skill, adm, used>>

-----------------------------------------------------------------------------
(* Operator entry points.                                                  *)

SetCall(o, r) == adm' = [adm EXCEPT ![o] = r]

\* ReloadAgent constructs the new Agent outside every lock.
ReloadBuild(o, cap, root) ==
    /\ adm[o].op = "idle"
    /\ built < MaxReloads
    /\ built' = built + 1
    /\ SetCall(o, [NoCall EXCEPT !.op = "swap", !.agent = built + 1,
                                 !.cap = cap, !.root = root])
    /\ UNCHANGED <<gateVars, active, draining, cancelGen, activity, stopped,
                   entryVars, diskVars, callerVars, used>>

\* Construction or tool registration throws: the old Agent stays.
ReloadFails(o) ==
    /\ adm[o].op = "swap"
    /\ SetCall(o, NoCall)
    /\ UNCHANGED <<gateVars, agentVars, entryVars, diskVars, callerVars, used>>

\* Mutant: the retired Agent is cancelled as well.
ReloadSwap_CancelsOld(o) ==
    /\ adm[o].op = "swap"
    /\ basePath' = adm[o].root
    /\ maxConcurrent' = adm[o].cap
    /\ active' = adm[o].agent
    /\ draining' = draining \cup {active}
    /\ cancelGen' = [cancelGen EXCEPT ![active] = @ + 1]
    /\ SetCall(o, NoCall)
    /\ UNCHANGED <<concurrentCount, built, activity, stopped, entryVars, dirs,
                   callerVars, used>>

\* The swap under sessionMutex_: the whole configuration is replaced, the old
\* Agent is marked draining and neither cancelled nor waited for.
ReloadSwap(o) ==
    /\ adm[o].op = "swap"
    /\ basePath' = adm[o].root
    /\ maxConcurrent' = adm[o].cap
    /\ active' = adm[o].agent
    /\ draining' = draining \cup {active}
    /\ SetCall(o, NoCall)
    /\ UNCHANGED <<concurrentCount, built, cancelGen, activity, stopped,
                   entryVars, dirs, callerVars, used>>

\* RemoveSession: the reserved check, then the directory is computed from
\* config_, both before sessionMutex_ is taken.
RemoveBegin(o, s) ==
    /\ adm[o].op = "idle"
    /\ s \notin Reserved
    /\ used.removes < MaxRemoves
    /\ used' = [used EXCEPT !.removes = @ + 1]
    /\ SetCall(o, [NoCall EXCEPT !.op = "erase", !.sess = s, !.root = basePath])
    /\ UNCHANGED <<gateVars, agentVars, entryVars, diskVars, callerVars>>

\* The entry, if any, leaves sessions_; callers that hold it keep it alive.
RemoveErase(o) ==
    LET s == adm[o].sess
    IN  /\ adm[o].op = "erase"
        /\ inc[s] < MaxRemoves
        /\ IF inMem[s]
           THEN /\ inMem' = [inMem EXCEPT ![s] = FALSE]
                /\ inc' = [inc EXCEPT ![s] = @ + 1]
                /\ SetCall(o, [adm[o] EXCEPT !.op = "trylock", !.victim = Entry(s)])
           ELSE /\ SetCall(o, [adm[o] EXCEPT !.op = "disk"])
                /\ UNCHANGED <<inMem, inc>>
        /\ UNCHANGED <<gateVars, agentVars, bound, isBusy, holder, store,
                       diskVars, callerVars, used>>

\* try_lock and immediate unlock of the removed entry's invokeMutex: disk
\* deletion is skipped when a turn holds it.
RemoveTryLock(o) ==
    /\ adm[o].op = "trylock"
    /\ SetCall(o, [adm[o] EXCEPT !.op =
                       IF holder[adm[o].victim] = None THEN "disk" ELSE "cleanup"])
    /\ UNCHANGED <<gateVars, agentVars, entryVars, diskVars, callerVars, used>>

\* fs::remove_all; a filesystem error is logged and ignored.
RemoveDisk(o) ==
    /\ adm[o].op = "disk"
    /\ dirs' \in {dirs, dirs \ {<<adm[o].root, adm[o].sess>>}}
    /\ SetCall(o, [adm[o] EXCEPT !.op = "cleanup"])
    /\ UNCHANGED <<gateVars, agentVars, entryVars, basePath, callerVars, used>>

\* CleanupSession on the Agent the removed entry was bound to, or on the
\* active one when the session was not in memory.
RemoveCleanup(o) ==
    LET a == IF adm[o].victim # None THEN bound[adm[o].victim] ELSE active
    IN  /\ adm[o].op = "cleanup"
        /\ activity' = [activity EXCEPT ![a][adm[o].sess] = "none"]
        /\ SetCall(o, NoCall)
        /\ UNCHANGED <<gateVars, active, draining, built, cancelGen, stopped,
                       entryVars, diskVars, callerVars, used>>

\* Cancel reads agent_ under sessionMutex_ ...
CancelBegin(o) ==
    /\ adm[o].op = "idle"
    /\ used.cancels < MaxCancels
    /\ used' = [used EXCEPT !.cancels = @ + 1]
    /\ SetCall(o, [NoCall EXCEPT !.op = "cancel", !.agent = active])
    /\ UNCHANGED <<gateVars, agentVars, entryVars, diskVars, callerVars>>

\* ... and advances that Agent's generation after releasing it.  The code adds
\* 100; only the comparison with a snapshot matters.
CancelEnd(o) ==
    /\ adm[o].op = "cancel"
    /\ cancelGen' = [cancelGen EXCEPT ![adm[o].agent] = @ + 1]
    /\ SetCall(o, NoCall)
    /\ UNCHANGED <<gateVars, active, draining, built, activity, stopped,
                   entryVars, diskVars, callerVars, used>>

\* Shutdown collects the active Agent and those of the sessions in memory.
ShutdownBegin(o) ==
    /\ adm[o].op = "idle"
    /\ used.shutdowns < MaxShutdowns
    /\ used' = [used EXCEPT !.shutdowns = @ + 1]
    /\ SetCall(o, [NoCall EXCEPT !.op = "stop", !.todo =
           {active} \cup {bound[Entry(s)] : s \in {x \in Sessions : inMem[x]}}])
    /\ UNCHANGED <<gateVars, agentVars, entryVars, diskVars, callerVars>>

\* Agent::Shutdown of one of them: running_ = false, worker_->Cancel(), join.
ShutdownAgent(o, a) ==
    /\ adm[o].op = "stop"
    /\ a \in adm[o].todo
    /\ stopped' = stopped \cup {a}
    /\ cancelGen' = [cancelGen EXCEPT ![a] = @ + 1]
    /\ SetCall(o, IF adm[o].todo = {a} THEN NoCall
                  ELSE [adm[o] EXCEPT !.todo = @ \ {a}])
    /\ UNCHANGED <<gateVars, active, draining, built, activity, entryVars,
                   diskVars, callerVars, used>>

\* GetOrCreateSession of a session that is not in memory; otherwise it reads.
GetOrCreateSession(o, s) ==
    /\ adm[o].op = "idle"
    /\ ~inMem[s]
    /\ FindOrCreateEntry(s)
    /\ bound' = [bound EXCEPT ![Entry(s)] = active]
    /\ UNCHANGED <<gateVars, agentVars, callerVars, adm, used>>

-----------------------------------------------------------------------------
(* The specification.                                                      *)

\* What a caller inside Invoke does by itself.
CallerStep(t) ==
    \/ TestGate(t) \/ Resolve(t) \/ ResolveThrows(t) \/ LockEntry(t)
    \/ NotifySessionActive(t) \/ SnapshotGeneration(t)
    \/ BeginTool(t) \/ EndTool(t)
    \/ \E how \in {"done", "aborted"} : FinishTurn(t, how)
    \/ TurnThrows(t) \/ NotifySessionIdle(t) \/ ClearBusy(t)
    \/ ReleaseGate(t) \/ ReturnInvoke(t)

\* What an operator call in progress does by itself.
AdminStep(o) ==
    \/ ReloadSwap(o) \/ ReloadFails(o)
    \/ RemoveErase(o) \/ RemoveTryLock(o) \/ RemoveDisk(o) \/ RemoveCleanup(o)
    \/ CancelEnd(o)
    \/ \E a \in Agents : ShutdownAgent(o, a)

\* A new operator call.
AdminCall(o) ==
    \/ \E cap \in Caps, root \in ReloadRoots : ReloadBuild(o, cap, root)
    \/ \E s \in Sessions : RemoveBegin(o, s) \/ GetOrCreateSession(o, s)
    \/ CancelBegin(o) \/ ShutdownBegin(o)

\* Nobody is in a call: the process idles.
Quiescent ==
    /\ \A t \in Threads : pc[t] = "idle"
    /\ \A o \in Admins : adm[o].op = "idle"
    /\ UNCHANGED vars

Next ==
    \/ \E t \in Threads : \/ \E s \in Sessions : EnterGate(t, s)
                          \/ SpuriousWake(t)
                          \/ CallerStep(t)
    \/ \E o \in Admins : AdminCall(o) \/ AdminStep(o)
    \/ Quiescent

Spec == Init /\ [][Next]_vars

\* Every thread inside a call keeps running: the scheduler is fair, a mutex
\* that stays free is taken, the worker's loop is bounded.  New calls, failed
\* calls and spurious wake-ups are not promised.
Fairness ==
    /\ \A t \in Threads : WF_vars(CallerStep(t))
    /\ \A o \in Admins : WF_vars(AdminStep(o))

FairSpec == Spec /\ Fairness

-----------------------------------------------------------------------------
(* Properties.                                                             *)

GateTypeOK ==
    /\ concurrentCount \in Nat
    /\ maxConcurrent \in Nat

AgentTypeOK ==
    /\ active \in Agents
    /\ built \in Agents
    /\ draining \subseteq Agents
    /\ stopped \subseteq Agents
    /\ cancelGen \in [Agents -> Nat]
    /\ activity \in [Agents -> [Sessions -> {"none", "idle", "busy"}]]

EntryTypeOK ==
    /\ inMem \in [Sessions -> BOOLEAN]
    /\ inc \in [Sessions -> 0 .. MaxRemoves]
    /\ bound \in [Entries -> Agents]
    /\ isBusy \in [Entries -> BOOLEAN]
    /\ holder \in [Entries -> Threads \cup {None}]
    /\ store \in [Entries -> Roots]

DiskTypeOK ==
    /\ basePath \in Roots
    /\ dirs \subseteq Roots \X Sessions

CallerTypeOK ==
    /\ pc \in [Threads -> Places]
    /\ sess \in [Threads -> Sessions \cup {None}]
    /\ ent \in [Threads -> Entries \cup {None}]
    /\ agt \in [Threads -> Agents \cup {None}]
    /\ gen \in [Threads -> Nat]
    /\ skill \in [Threads -> Agents \cup {None}]
    /\ outcome \in [Threads -> {"none", "done", "aborted", "failed"}]

Call == [op : Calls, sess : Sessions \cup {None}, victim : Entries \cup {None},
         root : Roots \cup {None}, agent : Agents \cup {None}, cap : Nat,
         todo : SUBSET Agents]

\* Every variable has its type: the state of the gate, the Agents, the session
\* entries, the disk, the callers of Invoke and the operator calls.
TypeOK ==
    /\ GateTypeOK /\ AgentTypeOK /\ EntryTypeOK /\ DiskTypeOK /\ CallerTypeOK
    /\ adm \in [Admins -> Call]
    /\ used \in Budget

\* The gate's counter is exactly the number of callers between admission and
\* releaseGate, plus one for every call that left Invoke through an exception
\* of FindOrCreateEntry: no other path leaks a slot or frees one twice.
GateConserved ==
    concurrentCount = Cardinality({t \in Threads : pc[t] \in InGate}) + used.faults

\* At most one caller is between lock and unlock of an entry's invokeMutex, so
\* turns that share a ContextEngine never overlap, whatever reloads and
\* removals happen around them.
SerialPerEntry ==
    \A t, u \in Threads :
        /\ pc[t] \in InMutex /\ pc[u] \in InMutex
        /\ ent[t] = ent[u]
        => t = u

\* isBusy, which RemoveSession reads without invokeMutex, is up exactly while a
\* caller is in its turn on that entry, also when the turn throws.
BusyFlagExact ==
    \A e \in Entries :
        isBusy[e] <=> \E t \in Threads : ent[t] = e /\ pc[t] \in Marked

\* An Agent's activity record says busy only while a turn of that session runs
\* on that Agent: a record left busy would hide the session from the
\* consolidation loop for good (the reason for SessionIdleGuard).
NoStaleActivity ==
    \A a \in Agents, s \in Sessions :
        activity[a][s] = "busy"
        => \E t \in Threads : agt[t] = a /\ sess[t] = s /\ pc[t] \in InTurn

\* Only Cancel or Shutdown aborts a turn: a reload that retires the Agent under
\* a running turn never does.
AbortOnlyByOperator ==
    (\E t \in Threads : outcome[t] = "aborted")
    => used.cancels > 0 \/ used.shutdowns > 0

\* A caller is admitted only below the limit in force when it is admitted.
AdmissionUnderCap ==
    [][concurrentCount' > concurrentCount
       => maxConcurrent = 0 \/ concurrentCount < maxConcurrent]_vars

\* The progress of a call as TurnService sees it.
Phase(t) == CASE pc[t] = "idle" -> "idle"
              [] pc[t] \in {"test", "waiting", "resolve"} -> "queued"
              [] pc[t] = "lock" -> "bound"
              [] OTHER -> "serving"

Service == INSTANCE TurnService WITH
    Callers <- Threads,
    Slots <- Entries,
    current <- active,
    phase <- [t \in Threads |-> Phase(t)],
    slot <- ent,
    agent <- agt

\* SessionManager implements TurnService: turns on one SessionEntry never
\* overlap, and the Agent a turn runs on is the one that was active when the
\* call resolved its session, although ReloadAgent replaces it concurrently and
\* leaves stale bindings in the entries.
ImplementsTurnService == Service!Spec

\* Every call of Invoke returns, and every operator call does.
InvokeReturns ==
    /\ \A t \in Threads : pc[t] # "idle" ~> pc[t] = "idle"
    /\ \A o \in Admins : adm[o].op # "idle" ~> adm[o].op = "idle"

-----------------------------------------------------------------------------
(* Statements of the comments and documents that the code does not meet.   *)

\* GetSkillEngine's comment: a turn keeps using the Agent it was bound to,
\* never a newer one.
OneTurnOneAgent ==
    \A t \in Threads : skill[t] # None => skill[t] = agt[t]

\* A limit of 0 means no limit: a caller asleep at the gate is let in.
UnlimitedAdmits ==
    \A t \in Threads :
        (pc[t] = "waiting" /\ maxConcurrent = 0)
        ~> (pc[t] # "waiting" \/ maxConcurrent # 0)

\* Shutdown's comment: joining the consolidation threads does not abort a turn.
AbortOnlyByCancel ==
    (\E t \in Threads : outcome[t] = "aborted") => used.cancels > 0

\* RemoveSession's comments: the directory is deleted only when no turn can be
\* writing to it.
NoDeleteUnderTurn ==
    [][\A t \in Threads :
         pc[t] \in InTurn /\ <<store[ent[t]], sess[t]>> \in dirs
         => <<store[ent[t]], sess[t]>> \in dirs']_vars

\* The design document: normal return, exception and early return all go
\* through releaseGate.
GateReleasedOnEveryPath ==
    concurrentCount = Cardinality({t \in Threads : pc[t] \in InGate})
=============================================================================
