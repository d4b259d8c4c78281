--------------------------- MODULE Consolidation ---------------------------
(***************************************************************************)
(* Long-term memory without a MemoryRuntime: the turns append events to    *)
(* HistoryStore (src/core/history_store.cpp), the consolidation thread of  *)
(* each Agent (Agent::ConsolidationLoop, src/core/agent.cpp) polls, and    *)
(* DreamProcessor::Run (src/core/dream_processor.cpp) works off a batch    *)
(* and moves the dream cursor.                                             *)
(*                                                                         *)
(* The HistoryStore is shared by all Agents, so after a reload the loop of *)
(* the draining Agent runs beside the one of its successor.  Its mutex is  *)
(* held for one operation, so an operation is one action; a crash inside   *)
(* one leaves a prefix of its file writes.                                 *)
(***************************************************************************)
EXTENDS Naturals, FiniteSets

CONSTANTS
    Sessions,      \* session ids
    Excluded,      \* excludedConsolidationSessionIds
    MaxBatch,      \* maxBatchSize
    None,          \* no turn
    MaxEvents,     \* bound: calls of AppendEvent
    MaxTrouble     \* bound: reloads, removals, crashes and faults together

\* Agents in construction order, over all lives of the process.
Agents == 0 .. MaxTrouble

\* A line of history.jsonl.  id is its place in the order of AppendEvent calls.
Event == [id : 1 .. MaxEvents, sess : Sessions, cursor : 1 .. MaxEvents]

ASSUME ConsolidationAssumption ==
    /\ Excluded \subseteq Sessions
    /\ MaxBatch \in Nat \ {0}
    /\ MaxEvents \in Nat /\ MaxTrouble \in Nat
    /\ None \notin Agents

VARIABLES
    history,          \* the lines written to history.jsonl
    loose,            \* history.jsonl ends without a newline
    garbled,          \* ids of lines that run into another one and do not parse
    cursorFile,       \* .cursor, 0 when it is missing or empty
    dreamFile,        \* .dream_cursor, 0 when it is missing or empty
    active,           \* SessionManager's agent_, also the newest Agent
    bound,            \* session -> entry->agent
    turn,             \* session -> the Agent its running turn is on
    activity,         \* Agent -> session -> entry of sessionActivity_
    hasNewActivity,   \* Agent -> hasNewActivity_
    firstCycle,       \* Agent -> firstCycle of its loop
    at,               \* Agent -> where its loop is
    from,             \* Agent -> lastCursor of its pass
    batch,            \* Agent -> the entries of its pass
    handled,          \* ids of events the model has worked into long-term memory
    dropped,          \* ids of events of a pass whose model call failed unseen
    events,           \* calls of AppendEvent so far
    trouble,          \* reloads, removals, crashes and faults so far
    seen              \* which of these kinds happened

lineVars  == <<history, loose, garbled>>
diskVars  == <<lineVars, cursorFile, dreamFile>>
turnVars  == <<active, bound, turn, activity>>
gateVars  == <<hasNewActivity, firstCycle>>
passVars  == <<at, from, batch>>
ghostVars == <<handled, dropped>>
usedVars  == <<events, trouble, seen>>
vars == <<diskVars, turnVars, gateVars, passVars, ghostVars, usedVars>>

\* "poll" sleeps in wait_for, "begin" is about to read the dream cursor, "read"
\* the history; "analyse" and "apply" are the two model phases.
InPass == {"begin", "read", "analyse", "apply", "commit"}
Places == {"none", "poll", "stopped"} \cup InPass

Init ==
    /\ history = {} /\ loose = FALSE /\ garbled = {}
    /\ cursorFile = 0 /\ dreamFile = 0
    /\ active = 0
    /\ bound = [s \in Sessions |-> 0]
    /\ turn = [s \in Sessions |-> None]
    /\ activity = [a \in Agents |-> [s \in Sessions |-> "none"]]
    /\ hasNewActivity = [a \in Agents |-> FALSE]
    /\ firstCycle = [a \in Agents |-> TRUE]
    /\ at = [a \in Agents |-> IF a = 0 THEN "poll" ELSE "none"]
    /\ from = [a \in Agents |-> 0]
    /\ batch = [a \in Agents |-> {}]
    /\ handled = {} /\ dropped = {}
    /\ events = 0 /\ trouble = 0 /\ seen = {}

\* A fault is a file that cannot be opened or a model call that fails.
Kinds == {"reload", "remove", "crash", "fault"}

Trouble(k) ==
    /\ trouble < MaxTrouble
    /\ trouble' = trouble + 1
    /\ seen' = seen \cup {k}

Count == events < MaxEvents /\ events' = events + 1

-----------------------------------------------------------------------------
(* Turns.                                                                  *)

\* Invoke binds the session to the active Agent (any other is draining) and
\* Agent::Invoke marks it busy.
NotifySessionActive(s) ==
    /\ turn[s] = None
    /\ bound' = [bound EXCEPT ![s] = active]
    /\ turn' = [turn EXCEPT ![s] = active]
    /\ activity' = [activity EXCEPT ![active][s] = "busy"]
    /\ UNCHANGED <<diskVars, active, gateVars, passVars, ghostVars, usedVars>>

\* SessionIdleGuard: the session is idle, and unless it is excluded the loop of
\* the Agent the turn ran on has something to do.
NotifySessionIdle(s) ==
    /\ turn[s] # None
    /\ turn' = [turn EXCEPT ![s] = None]
    /\ activity' = [activity EXCEPT ![turn[s]][s] = IF @ = "none" THEN "none" ELSE "idle"]
    /\ hasNewActivity' = [hasNewActivity EXCEPT ![turn[s]] = @ \/ s \notin Excluded]
    /\ UNCHANGED <<diskVars, active, bound, firstCycle, passVars, ghostVars, usedVars>>

\* RemoveSession: the activity record goes, and the entry's hold on its Agent.
CleanupSession(s) ==
    /\ Trouble("remove")
    /\ activity' = [activity EXCEPT ![bound[s]][s] = "none"]
    /\ bound' = [bound EXCEPT ![s] = active]
    /\ UNCHANGED <<diskVars, active, turn, gateVars, passVars, ghostVars, events>>

\* ReloadAgent: a new Agent with a loop of its own, in its first cycle.
ReloadAgent ==
    /\ Trouble("reload")
    /\ active' = active + 1
    /\ at' = [at EXCEPT ![active + 1] = "poll"]
    /\ UNCHANGED <<diskVars, bound, turn, activity, gateVars, from, batch, ghostVars, events>>

-----------------------------------------------------------------------------
(* HistoryStore::AppendEvent.                                              *)

NextCursor == cursorFile + 1

\* The entry a turn of session s appends now.
NewEvent(s) == [id |-> events + 1, sess |-> s, cursor |-> NextCursor]

\* The last line of the file.
LastLine == {e.id : e \in {d \in history : \A x \in history : x.id <= d.id}}

\* The line of e goes to the end of the file: behind a line without its newline
\* the two are one line that does not parse.
WriteLine(e) ==
    /\ history' = history \cup {e}
    /\ garbled' = IF loose THEN garbled \cup LastLine \cup {e.id} ELSE garbled

AppendEvent(s) ==
    /\ turn[s] # None
    /\ Count
    /\ WriteLine(NewEvent(s)) /\ loose' = FALSE
    /\ cursorFile' = NextCursor
    /\ UNCHANGED <<dreamFile, turnVars, gateVars, passVars, ghostVars, trouble, seen>>

\* One of the two files cannot be opened: its write is skipped.
AppendFault(s) ==
    /\ turn[s] # None
    /\ Count /\ Trouble("fault")
    /\ \/ UNCHANGED lineVars /\ cursorFile' = NextCursor
       \/ WriteLine(NewEvent(s)) /\ loose' = FALSE /\ UNCHANGED cursorFile
    /\ UNCHANGED <<dreamFile, turnVars, gateVars, passVars, ghostVars>>

\* .cursor cannot be opened for reading: the cursors start again at 1.
AppendUnread(s) ==
    /\ turn[s] # None
    /\ Count /\ Trouble("fault")
    /\ WriteLine([id |-> events + 1, sess |-> s, cursor |-> 1]) /\ loose' = FALSE
    /\ cursorFile' = 1
    /\ UNCHANGED <<dreamFile, turnVars, gateVars, passVars, ghostVars>>

-----------------------------------------------------------------------------
(* The process crashes and is started again.                               *)

\* Everything in memory is gone; Initialize builds the next Agent and binds the
\* sessions found on disk to it.
Restart ==
    /\ active' = active + 1
    /\ bound' = [s \in Sessions |-> active + 1]
    /\ turn' = [s \in Sessions |-> None]
    /\ activity' = [a \in Agents |-> [s \in Sessions |-> "none"]]
    /\ hasNewActivity' = [a \in Agents |-> FALSE]
    /\ at' = [a \in Agents |-> IF a <= active THEN "stopped"
                               ELSE IF a = active + 1 THEN "poll" ELSE "none"]
    /\ from' = [a \in Agents |-> 0]
    /\ batch' = [a \in Agents |-> {}]
    /\ UNCHANGED <<firstCycle, ghostVars>>

Crash ==
    /\ Trouble("crash")
    /\ Restart
    /\ UNCHANGED <<diskVars, events>>

\* A crash inside AppendEvent.  Opening .cursor empties it.  A short line is
\* still in its stream's buffer then and reaches history.jsonl, newline included,
\* after .cursor has been written; a line longer than the buffer reaches it
\* first, and its newline last.
AppendCrash(s) ==
    /\ turn[s] # None
    /\ Count /\ Trouble("crash")
    /\ \/ UNCHANGED lineVars /\ cursorFile' \in {0, NextCursor}
       \/ WriteLine(NewEvent(s)) /\ loose' = TRUE /\ cursorFile' \in {cursorFile, 0, NextCursor}
    /\ Restart
    /\ UNCHANGED dreamFile

\* A crash inside SetLastDreamCursor, between emptying and writing the file.
CommitCrash(a) ==
    /\ at[a] = "commit"
    /\ Trouble("crash")
    /\ dreamFile' = 0
    /\ Restart
    /\ UNCHANGED <<lineVars, cursorFile, events>>

-----------------------------------------------------------------------------
(* Agent::ConsolidationLoop and DreamProcessor::Run.                       *)

Goto(a, p) == at' = [at EXCEPT ![a] = p]

\* Run returns or throws; its locals are gone.
EndPass(a) ==
    /\ Goto(a, "poll")
    /\ from' = [from EXCEPT ![a] = 0]
    /\ batch' = [batch EXCEPT ![a] = {}]

\* Somebody owns the Agent; when nobody does, ~Agent clears running_.
Running(a) ==
    \/ a = active
    \/ \E s \in Sessions : bound[s] = a \/ turn[s] = a

AnyIdle(a) == \E s \in Sessions : activity[a][s] = "idle"

\* wait_for times out and the gates let a pass through; otherwise the loop goes
\* back to sleep.  The flag is cleared before the pass.
StartPass(a) ==
    /\ at[a] = "poll"
    /\ Running(a)
    /\ firstCycle[a] \/ (AnyIdle(a) /\ hasNewActivity[a])
    /\ firstCycle' = [firstCycle EXCEPT ![a] = FALSE]
    /\ hasNewActivity' = [hasNewActivity EXCEPT ![a] = FALSE]
    /\ Goto(a, "begin")
    /\ UNCHANGED <<diskVars, turnVars, from, batch, ghostVars, usedVars>>

\* Shutdown in ~Agent: the loop leaves when it looks at running_, and the Agent
\* is gone.
StopLoop(a) ==
    /\ at[a] = "poll"
    /\ ~Running(a)
    /\ Goto(a, "stopped")
    /\ activity' = [activity EXCEPT ![a] = [s \in Sessions |-> "none"]]
    /\ hasNewActivity' = [hasNewActivity EXCEPT ![a] = FALSE]
    /\ UNCHANGED <<diskVars, active, bound, turn, firstCycle, from, batch, ghostVars, usedVars>>

\* CreateModel or a model call throws; the loop logs it.
PassThrows(a) ==
    /\ at[a] \in {"begin", "analyse", "apply"}
    /\ Trouble("fault")
    /\ EndPass(a)
    /\ UNCHANGED <<diskVars, turnVars, gateVars, ghostVars, events>>

GetLastDreamCursor(a) ==
    /\ at[a] = "begin"
    /\ from' = [from EXCEPT ![a] = dreamFile]
    /\ Goto(a, "read")
    /\ UNCHANGED <<diskVars, turnVars, gateVars, batch, ghostVars, usedVars>>

\* The entries ReadUnprocessedHistory returns: a line that does not parse is
\* skipped.
Unprocessed(a) == {e \in history : e.cursor > from[a] /\ e.id \notin garbled}

\* The first MaxBatch entries of U in file order.
FirstOf(U) == {e \in U : Cardinality({d \in U : d.id < e.id}) < MaxBatch}

\* Mutant: a pass waits for something to do.
ReadUnprocessedHistory_Waits(a) ==
    /\ at[a] = "read"
    /\ Unprocessed(a) # {}
    /\ batch' = [batch EXCEPT ![a] = FirstOf(Unprocessed(a))]
    /\ Goto(a, "analyse")
    /\ UNCHANGED <<diskVars, turnVars, gateVars, from, ghostVars, usedVars>>

\* The pass takes a batch, or ends because there is nothing to do.
ReadUnprocessedHistory(a) ==
    /\ at[a] = "read"
    /\ IF Unprocessed(a) = {}
       THEN EndPass(a)
       ELSE /\ batch' = [batch EXCEPT ![a] = FirstOf(Unprocessed(a))]
            /\ Goto(a, "analyse")
            /\ UNCHANGED from
    /\ UNCHANGED <<diskVars, turnVars, gateVars, ghostVars, usedVars>>

\* .dream_cursor cannot be opened and counts as 0, or history.jsonl cannot and
\* counts as empty.
ReadFault(a) ==
    /\ Trouble("fault")
    /\ \/ /\ at[a] = "begin"
          /\ from' = [from EXCEPT ![a] = 0]
          /\ Goto(a, "read")
          /\ UNCHANGED batch
       \/ /\ at[a] = "read"
          /\ EndPass(a)
    /\ UNCHANGED <<diskVars, turnVars, gateVars, ghostVars, events>>

Ids(a) == {e.id : e \in batch[a]}

\* Phase1Analysis: no findings ends the work on the batch, findings are applied
\* by Phase2Execution.
Phase1Analysis(a) ==
    /\ at[a] = "analyse"
    /\ \/ handled' = handled \cup Ids(a) /\ Goto(a, "commit")
       \/ Goto(a, "apply") /\ UNCHANGED handled
    /\ UNCHANGED <<diskVars, turnVars, gateVars, from, batch, dropped, usedVars>>

Phase2Execution(a) ==
    /\ at[a] = "apply"
    /\ handled' = handled \cup Ids(a)
    /\ Goto(a, "commit")
    /\ UNCHANGED <<diskVars, turnVars, gateVars, from, batch, dropped, usedVars>>

\* A model adapter reports an error as the text of its answer.  Phase 1 finds
\* no findings in it and phase 2 no tool calls (or runs out of iterations): Run
\* goes on as if the batch had been worked off.
ModelError(a) ==
    /\ at[a] \in {"analyse", "apply"}
    /\ Trouble("fault")
    /\ dropped' = dropped \cup Ids(a)
    /\ Goto(a, "commit")
    /\ UNCHANGED <<diskVars, turnVars, gateVars, from, batch, handled, events>>

\* The last entry of a batch.
IsLast(e, B) == e \in B /\ \A d \in B : d.id <= e.id

\* Mutant: the cursor moves to the end of the history.
SetLastDreamCursor_ToEnd(a) ==
    /\ at[a] = "commit"
    /\ dreamFile' = cursorFile
    /\ EndPass(a)
    /\ UNCHANGED <<lineVars, cursorFile, turnVars, gateVars, ghostVars, usedVars>>

\* Mutant: the activity flag is cleared after the pass, not before it.
SetLastDreamCursor_ClearAfter(a) ==
    /\ at[a] = "commit"
    /\ \E e \in batch[a] : IsLast(e, batch[a]) /\ dreamFile' = e.cursor
    /\ hasNewActivity' = [hasNewActivity EXCEPT ![a] = FALSE]
    /\ EndPass(a)
    /\ UNCHANGED <<lineVars, cursorFile, turnVars, firstCycle, ghostVars, usedVars>>

\* The pass ends by writing the cursor of its last entry.
SetLastDreamCursor(a) ==
    /\ at[a] = "commit"
    /\ \E e \in batch[a] : IsLast(e, batch[a]) /\ dreamFile' = e.cursor
    /\ EndPass(a)
    /\ UNCHANGED <<lineVars, cursorFile, turnVars, gateVars, ghostVars, usedVars>>

\* .dream_cursor cannot be opened: the write is skipped.
CommitFault(a) ==
    /\ at[a] = "commit"
    /\ Trouble("fault")
    /\ EndPass(a)
    /\ UNCHANGED <<diskVars, turnVars, gateVars, ghostVars, events>>

-----------------------------------------------------------------------------
LoopStep(a) ==
    \/ StartPass(a) \/ StopLoop(a) \/ PassThrows(a)
    \/ GetLastDreamCursor(a) \/ ReadUnprocessedHistory(a) \/ ReadFault(a)
    \/ Phase1Analysis(a) \/ Phase2Execution(a) \/ ModelError(a)
    \/ SetLastDreamCursor(a) \/ CommitFault(a)

TurnStep(s) ==
    \/ NotifySessionActive(s) \/ NotifySessionIdle(s) \/ CleanupSession(s)
    \/ AppendEvent(s) \/ AppendFault(s) \/ AppendUnread(s) \/ AppendCrash(s)

Next ==
    \/ \E s \in Sessions : TurnStep(s)
    \/ \E a \in Agents : LoopStep(a) \/ CommitCrash(a)
    \/ ReloadAgent
    \/ Crash

Spec == Init /\ [][Next]_vars

\* A loop keeps running: wait_for times out, model calls return or throw.
FairSpec == Spec /\ \A a \in Agents : WF_vars(LoopStep(a))

-----------------------------------------------------------------------------
(* Properties.                                                             *)

\* Every variable has its type, and the Agent that is active has been built.
TypeOK ==
    /\ history \subseteq Event
    /\ cursorFile \in 0 .. MaxEvents
    /\ dreamFile \in 0 .. MaxEvents
    /\ loose \in BOOLEAN /\ garbled \subseteq 1 .. MaxEvents
    /\ active \in Agents
    /\ bound \in [Sessions -> Agents]
    /\ turn \in [Sessions -> Agents \cup {None}]
    /\ activity \in [Agents -> [Sessions -> {"none", "idle", "busy"}]]
    /\ hasNewActivity \in [Agents -> BOOLEAN]
    /\ firstCycle \in [Agents -> BOOLEAN]
    /\ at \in [Agents -> Places]
    /\ from \in [Agents -> 0 .. MaxEvents]
    /\ batch \in [Agents -> SUBSET Event]
    /\ handled \subseteq 1 .. MaxEvents
    /\ dropped \subseteq 1 .. MaxEvents
    /\ events \in 0 .. MaxEvents /\ trouble \in 0 .. MaxTrouble /\ seen \subseteq Kinds

\* The line of e got a cursor above those of the lines before it.  After a crash
\* or a fault that cost .cursor its value, new lines get old cursors again.
Fresh(e) == \A d \in history : d.id < e.id => d.cursor < e.cursor

\* No line at or below the dream cursor was passed over: its pass ran to the end,
\* whatever the loops of two Agents do to the cursor at the same time and
\* wherever a crash hits an append or a pass.  Lost are only lines that got an
\* old cursor and lines that do not parse.
NothingPassedOver ==
    \A e \in history :
        Fresh(e) /\ e.cursor <= dreamFile => e.id \in handled \cup dropped \cup garbled

\* A conversation that finishes during a pass is not forgotten (the reason for
\* clearing hasNewActivity_ before the pass): an event of a finished turn that
\* no pass has worked off has a loop that will take it up.  A pass that throws,
\* a backlog longer than one batch and the removal of a session give this up.
FinishedTurnIsTakenUp ==
    ({"fault", "remove"} \cap seen = {} /\ Cardinality(history) <= MaxBatch)
    => \A e \in history :
           (/\ Fresh(e) /\ e.id \notin handled \cup garbled
            /\ e.sess \notin Excluded /\ turn[e.sess] = None)
           => \E a \in Agents :
                  /\ at[a] \notin {"none", "stopped"}
                  /\ \/ hasNewActivity[a] \/ firstCycle[a]
                     \/ at[a] \in {"begin", "read"} \/ e \in batch[a]

\* The loop of an Agent that nobody owns ends, so its destructor's join returns.
RetiredLoopEnds ==
    \A a \in Agents : (at[a] \in {"poll"} \cup InPass /\ ~Running(a)) ~> at[a] = "stopped"

-----------------------------------------------------------------------------
(* Statements of the documents that the code does not meet.                *)

\* The design document: .dream_cursor records which entries are consolidated.
DreamCursorMeansConsolidated ==
    \A e \in history : e.cursor <= dreamFile => e.id \in handled
=============================================================================
