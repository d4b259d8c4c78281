------------------------ MODULE ConsolidationProofs ------------------------
(***************************************************************************)
(* Theorems about Consolidation, for any number of sessions, events,       *)
(* reloads, crashes and faults and any batch size.                         *)
(*                                                                         *)
(* Inv is one inductive invariant: the types, what the two files say about *)
(* each other, and per loop what its locals lastCursor and batch stand     *)
(* for.                                                                    *)
(***************************************************************************)
EXTENDS Consolidation, FiniteSetTheorems, TLAPS

\* TypeOK, and the counters bound the Agents built and the cursors given out.
Typing ==
    /\ TypeOK
    /\ active <= trouble
    /\ cursorFile <= events

\* A pass over e has ended, or no pass will find it.
Done(e) == e.id \in handled \cup dropped \cup garbled

\* No line at or below c has been passed over.
DoneUpTo(c) == \A e \in history : Fresh(e) /\ e.cursor <= c => Done(e)

\* c is not ahead of the history.
Reached(c) == c > 0 => \E e \in history : c <= e.cursor

\* The lines are numbered in file order and the dream cursor is not ahead of them.
FilesOK ==
    /\ IsFiniteSet(history)
    /\ \A e \in history : e.id <= events
    /\ Reached(dreamFile)
    /\ DoneUpTo(dreamFile)

\* The batch of a loop has no holes: between lastCursor and its last entry it
\* contains every line, but for those with an old cursor or unreadable.
BatchWhole(a) ==
    \A e \in history, l \in batch[a] :
        IsLast(l, batch[a]) /\ Fresh(e) /\ e.cursor > from[a] /\ e.cursor <= l.cursor
        => e \in batch[a] \/ e.id \in garbled

\* An Agent that is not built yet has no loop, and a loop has a batch only from
\* reading the history to the end of the pass.
Holding(a) ==
    /\ a > active => at[a] = "none"
    /\ at[a] \notin {"analyse", "apply", "commit"} => batch[a] = {}

PassOK(a) ==
    /\ Holding(a)
    /\ batch[a] \subseteq history
    /\ Reached(from[a])
    /\ DoneUpTo(from[a])
    /\ BatchWhole(a)
    /\ at[a] = "commit" => \A e \in batch[a] : Done(e)

PassesOK == \A a \in Agents : PassOK(a)

Inv == Typing /\ FilesOK /\ PassesOK

-----------------------------------------------------------------------------
(* Initial states.                                                         *)

LEMMA InvInit == Init => Inv
<1> SUFFICES ASSUME Init PROVE Inv
  OBVIOUS
<1>1. Typing
  <2>1. hasNewActivity \in [Agents -> BOOLEAN] /\ firstCycle \in [Agents -> BOOLEAN]
        /\ loose \in BOOLEAN
    BY Zenon DEF Init
  <2> QED BY ConsolidationAssumption, <2>1
          DEF Init, Typing, TypeOK, Agents, Places, InPass
<1>2. FilesOK
  BY FS_EmptySet DEF Init, FilesOK, Reached, DoneUpTo
<1>3. PassesOK
  BY DEF Init, PassesOK, PassOK, Holding, Agents, Reached, DoneUpTo, BatchWhole, IsLast
<1> QED BY <1>1, <1>2, <1>3 DEF Inv

-----------------------------------------------------------------------------
(* Type correctness.                                                       *)

\* A new line is an event.
LEMMA NewEventTyped ==
    ASSUME Typing, NEW s \in Sessions, Count
    PROVE  /\ NewEvent(s) \in Event /\ NewEvent(s).id = events + 1
           /\ NewEvent(s).cursor = NextCursor
           /\ NextCursor \in 1 .. MaxEvents /\ NextCursor <= events + 1
           /\ events' \in 0 .. MaxEvents /\ events' = events + 1
BY ConsolidationAssumption DEF Typing, TypeOK, Count, NewEvent, NextCursor, Event

\* What an append, or a part of one, leaves on disk is well typed.
DiskTyped ==
    /\ history \subseteq Event /\ loose \in BOOLEAN /\ garbled \subseteq 1 .. MaxEvents
    /\ cursorFile \in 0 .. MaxEvents /\ cursorFile <= events
    /\ dreamFile \in 0 .. MaxEvents
    /\ events \in 0 .. MaxEvents

LEMMA WriteTyped ==
    ASSUME Typing, NEW s \in Sessions, Count, UNCHANGED dreamFile,
           cursorFile' \in {0, 1, cursorFile, NextCursor},
           NEW n \in {NewEvent(s), [id |-> events + 1, sess |-> s, cursor |-> 1]},
           (WriteLine(n) /\ loose' \in BOOLEAN) \/ UNCHANGED lineVars
    PROVE  DiskTyped'
<1>1. n \in Event /\ n.id \in 1 .. MaxEvents /\ 1 <= MaxEvents /\ 1 <= events'
  <2>1. 1 <= MaxEvents /\ events + 1 \in 1 .. MaxEvents /\ 1 <= events'
    BY ConsolidationAssumption DEF Count, Typing, TypeOK
  <2>2. [id |-> events + 1, sess |-> s, cursor |-> 1] \in Event
        /\ [id |-> events + 1, sess |-> s, cursor |-> 1].id = events + 1
    BY <2>1 DEF Event
  <2> QED BY <2>1, <2>2, NewEventTyped
<1>2. LastLine \subseteq 1 .. MaxEvents
  BY DEF LastLine, Event, Typing, TypeOK
<1>3. loose' \in BOOLEAN
  BY DEF lineVars, Typing, TypeOK
<1>4. history' \subseteq Event /\ garbled' \subseteq 1 .. MaxEvents
  <2>1. CASE UNCHANGED lineVars
    BY <2>1 DEF lineVars, Typing, TypeOK
  <2>2. CASE WriteLine(n)
    <3>1. history' = history \cup {n} /\ garbled' \subseteq garbled \cup LastLine \cup {n.id}
      BY <2>2 DEF WriteLine
    <3> QED BY <1>1, <1>2, <3>1 DEF Typing, TypeOK
  <2> QED BY <2>1, <2>2
<1>5. cursorFile' \in 0 .. MaxEvents /\ cursorFile' <= events' /\ events' \in 0 .. MaxEvents
  BY <1>1, NewEventTyped, ConsolidationAssumption DEF Typing, TypeOK
<1> QED BY <1>3, <1>4, <1>5 DEF DiskTyped, Typing, TypeOK

\* Spending from the budget keeps its type.
LEMMA TroubleTyped ==
    ASSUME Typing, NEW k \in Kinds, Trouble(k)
    PROVE  /\ trouble' \in 0 .. MaxTrouble /\ trouble' = trouble + 1
           /\ seen' \subseteq Kinds /\ trouble < MaxTrouble
BY ConsolidationAssumption DEF Typing, TypeOK, Trouble

LEMMA RestartTyped ==
    ASSUME Typing, Restart, trouble < MaxTrouble
    PROVE  /\ active' \in Agents /\ active' = active + 1
           /\ bound' \in [Sessions -> Agents]
           /\ turn' \in [Sessions -> Agents \cup {None}]
           /\ activity' \in [Agents -> [Sessions -> {"none", "idle", "busy"}]]
           /\ hasNewActivity' \in [Agents -> BOOLEAN]
           /\ firstCycle' \in [Agents -> BOOLEAN]
           /\ at' \in [Agents -> Places]
           /\ from' \in [Agents -> 0 .. MaxEvents]
           /\ batch' \in [Agents -> SUBSET Event]
           /\ handled' = handled /\ dropped' = dropped
<1>1. active' \in Agents /\ active' = active + 1
  BY ConsolidationAssumption DEF Typing, TypeOK, Restart, Agents
<1> QED BY <1>1, ConsolidationAssumption
        DEF Restart, Typing, TypeOK, Places, InPass, ghostVars

\* A restart preserves Typing when the disk and the counters keep their types.
LEMMA RestartTyping ==
    ASSUME Typing, Restart, trouble < MaxTrouble,
           trouble' \in 0 .. MaxTrouble, trouble' = trouble + 1, seen' \subseteq Kinds,
           DiskTyped'
    PROVE  Typing'
<1>1. active' <= trouble'
  BY RestartTyped DEF Typing, TypeOK, Agents
<1>2. handled' \subseteq 1 .. MaxEvents /\ dropped' \subseteq 1 .. MaxEvents
  BY RestartTyped DEF Typing, TypeOK
<1> QED BY <1>1, <1>2, RestartTyped DEF Typing, TypeOK, DiskTyped

LEMMA TurnTyping ==
    ASSUME Typing, NEW s \in Sessions, TurnStep(s)
    PROVE  Typing'
<1> USE ConsolidationAssumption DEF Typing, TypeOK
<1>1. CASE NotifySessionActive(s)
  BY <1>1 DEF NotifySessionActive, diskVars, lineVars, gateVars, passVars, ghostVars, usedVars
<1>2. CASE NotifySessionIdle(s)
  BY <1>2 DEF NotifySessionIdle, diskVars, lineVars, passVars, ghostVars, usedVars
<1>3. CASE CleanupSession(s)
  <2>1. Trouble("remove") BY <1>3 DEF CleanupSession
  <2>2. trouble' \in 0 .. MaxTrouble /\ trouble' = trouble + 1 /\ seen' \subseteq Kinds
    BY <2>1, TroubleTyped DEF Kinds
  <2> QED BY <1>3, <2>2 DEF CleanupSession, diskVars, lineVars, gateVars, passVars, ghostVars, Agents
<1>4. CASE AppendEvent(s)
  <2> HIDE DEF Typing, TypeOK
  <2>1. Count /\ UNCHANGED dreamFile /\ WriteLine(NewEvent(s)) /\ loose' \in BOOLEAN
        /\ cursorFile' = NextCursor
    BY <1>4 DEF AppendEvent
  <2>2. DiskTyped'
    BY <2>1, WriteTyped
  <2> QED BY <1>4, <2>2 DEF AppendEvent, DiskTyped, turnVars, gateVars, passVars, ghostVars, Typing, TypeOK
<1>5. CASE AppendFault(s) \/ AppendUnread(s)
  <2> HIDE DEF Typing, TypeOK
  <2>1. Count /\ Trouble("fault") /\ UNCHANGED dreamFile BY <1>5 DEF AppendFault, AppendUnread
  <2>2. trouble' \in 0 .. MaxTrouble /\ trouble' = trouble + 1 /\ seen' \subseteq Kinds
    BY <2>1, TroubleTyped DEF Kinds
  <2>3. DiskTyped'
    <3>1. CASE AppendFault(s)
      <4>1. (WriteLine(NewEvent(s)) /\ loose' \in BOOLEAN) \/ UNCHANGED lineVars
        BY <3>1 DEF AppendFault
      <4> QED BY <2>1, <3>1, <4>1, WriteTyped DEF AppendFault
    <3>2. CASE AppendUnread(s)
      <4> DEFINE n == [id |-> events + 1, sess |-> s, cursor |-> 1]
      <4>1. WriteLine(n) /\ loose' \in BOOLEAN /\ cursorFile' = 1
        BY <3>2 DEF AppendUnread
      <4> QED BY <2>1, <4>1, WriteTyped
    <3> QED BY <1>5, <3>1, <3>2
  <2>4. UNCHANGED <<turnVars, gateVars, passVars, ghostVars>>
    BY <1>5 DEF AppendFault, AppendUnread
  <2> QED BY <2>2, <2>3, <2>4
          DEF DiskTyped, turnVars, gateVars, passVars, ghostVars, Typing, TypeOK, Agents
<1>6. CASE AppendCrash(s)
  <2> HIDE DEF Typing, TypeOK
  <2>1. Count /\ Trouble("crash") /\ Restart /\ UNCHANGED dreamFile BY <1>6 DEF AppendCrash
  <2>2. /\ trouble' \in 0 .. MaxTrouble /\ trouble' = trouble + 1 /\ seen' \subseteq Kinds
        /\ trouble < MaxTrouble
    BY <2>1, TroubleTyped DEF Kinds
  <2>3. DiskTyped'
    <3>1. (WriteLine(NewEvent(s)) /\ loose' \in BOOLEAN) \/ UNCHANGED lineVars
      BY <1>6 DEF AppendCrash
    <3>2. cursorFile' \in {0, 1, cursorFile, NextCursor}
      BY <1>6 DEF AppendCrash
    <3> QED BY <2>1, <3>1, <3>2, WriteTyped
  <2> QED BY <2>1, <2>2, <2>3, RestartTyping
<1> QED BY <1>1, <1>2, <1>3, <1>4, <1>5, <1>6 DEF TurnStep

\* The entries of a new batch are lines of the history.
LEMMA FirstOfSubset == \A U : FirstOf(U) \subseteq U
BY DEF FirstOf

LEMMA EndPassTyped ==
    ASSUME Typing, NEW a \in Agents, EndPass(a)
    PROVE  /\ at' \in [Agents -> Places]
           /\ from' \in [Agents -> 0 .. MaxEvents]
           /\ batch' \in [Agents -> SUBSET Event]
BY ConsolidationAssumption DEF Typing, TypeOK, EndPass, Goto, Places

LEMMA LoopTyping ==
    ASSUME Typing, NEW a \in Agents, LoopStep(a)
    PROVE  Typing'
<1> USE ConsolidationAssumption
<1>1. CASE StartPass(a)
  BY <1>1 DEF StartPass, Goto, Places, InPass, diskVars, lineVars, turnVars, ghostVars, usedVars,
              Typing, TypeOK
<1>2. CASE StopLoop(a)
  BY <1>2 DEF StopLoop, Goto, Places, diskVars, lineVars, ghostVars, usedVars, Typing, TypeOK
<1>3. CASE PassThrows(a) \/ CommitFault(a)
  <2>1. Trouble("fault") /\ EndPass(a)
    BY <1>3 DEF PassThrows, CommitFault
  <2>2. trouble' \in 0 .. MaxTrouble /\ trouble' = trouble + 1 /\ seen' \subseteq Kinds
    BY <2>1, TroubleTyped DEF Kinds
  <2>3. UNCHANGED <<diskVars, turnVars, gateVars, ghostVars, events>>
    BY <1>3 DEF PassThrows, CommitFault
  <2>4. active' <= trouble'
    BY <2>2, <2>3 DEF turnVars, Typing, TypeOK, Agents
  <2>5. /\ at' \in [Agents -> Places]
        /\ from' \in [Agents -> 0 .. MaxEvents]
        /\ batch' \in [Agents -> SUBSET Event]
    BY <2>1, EndPassTyped
  <2> QED BY <2>2, <2>3, <2>4, <2>5
          DEF diskVars, lineVars, turnVars, gateVars, ghostVars, Typing, TypeOK
<1>4. CASE GetLastDreamCursor(a)
  BY <1>4 DEF GetLastDreamCursor, Goto, Places, InPass, diskVars, lineVars, turnVars, gateVars,
              ghostVars, usedVars, Typing, TypeOK
<1>5. CASE ReadUnprocessedHistory(a)
  <2>1. UNCHANGED <<diskVars, turnVars, gateVars, ghostVars, usedVars>>
    BY <1>5 DEF ReadUnprocessedHistory
  <2>2. FirstOf(Unprocessed(a)) \in SUBSET Event
    BY FirstOfSubset DEF Unprocessed, Typing, TypeOK
  <2>3. /\ at' \in [Agents -> Places]
        /\ from' \in [Agents -> 0 .. MaxEvents]
        /\ batch' \in [Agents -> SUBSET Event]
    <3>1. CASE Unprocessed(a) = {}
      BY <1>5, <3>1, EndPassTyped DEF ReadUnprocessedHistory
    <3>2. CASE Unprocessed(a) # {}
      <4>1. /\ batch' = [batch EXCEPT ![a] = FirstOf(Unprocessed(a))]
            /\ at' = [at EXCEPT ![a] = "analyse"]
            /\ from' = from
        BY <1>5, <3>2 DEF ReadUnprocessedHistory, Goto
      <4> HIDE DEF FirstOf, Unprocessed
      <4> QED BY <2>2, <4>1 DEF Places, InPass, Typing, TypeOK
    <3> QED BY <3>1, <3>2
  <2> QED BY <2>1, <2>3
          DEF diskVars, lineVars, turnVars, gateVars, ghostVars, usedVars, Typing, TypeOK
<1>6. CASE Phase1Analysis(a) \/ Phase2Execution(a) \/ ModelError(a)
  <2>1. Ids(a) \subseteq 1 .. MaxEvents
    BY DEF Ids, Event, Typing, TypeOK
  <2>2. CASE Phase1Analysis(a) \/ Phase2Execution(a)
    BY <2>1, <2>2 DEF Phase1Analysis, Phase2Execution, Goto, Places, InPass, diskVars, lineVars,
         turnVars, gateVars, usedVars, Typing, TypeOK
  <2>3. CASE ModelError(a)
    <3>1. Trouble("fault") BY <2>3 DEF ModelError
    <3>2. trouble' \in 0 .. MaxTrouble /\ trouble' = trouble + 1 /\ seen' \subseteq Kinds
      BY <3>1, TroubleTyped DEF Kinds
    <3>3. active' <= trouble'
      BY <2>3, <3>2 DEF ModelError, turnVars, Typing, TypeOK, Agents
    <3> QED BY <2>1, <2>3, <3>2, <3>3 DEF ModelError, Goto, Places, InPass, diskVars, lineVars,
               turnVars, gateVars, Typing, TypeOK
  <2> QED BY <1>6, <2>2, <2>3
<1>7. CASE SetLastDreamCursor(a)
  <2>1. dreamFile' \in 0 .. MaxEvents
    BY <1>7 DEF SetLastDreamCursor, IsLast, Event, Typing, TypeOK
  <2>2. EndPass(a) /\ UNCHANGED <<lineVars, cursorFile, turnVars, gateVars, ghostVars,
                                  usedVars>>
    BY <1>7 DEF SetLastDreamCursor
  <2> QED BY <2>1, <2>2, EndPassTyped
          DEF lineVars, turnVars, gateVars, ghostVars, usedVars, Typing, TypeOK
<1>8. CASE ReadFault(a)
  <2>1. Trouble("fault") /\ UNCHANGED <<diskVars, turnVars, gateVars, ghostVars, events>>
    BY <1>8 DEF ReadFault
  <2>2. trouble' \in 0 .. MaxTrouble /\ trouble' = trouble + 1 /\ seen' \subseteq Kinds
    BY <2>1, TroubleTyped DEF Kinds
  <2>3. active' <= trouble'
    BY <2>1, <2>2 DEF turnVars, Typing, TypeOK, Agents
  <2>4. /\ at' \in [Agents -> Places]
        /\ from' \in [Agents -> 0 .. MaxEvents]
        /\ batch' \in [Agents -> SUBSET Event]
    <3>1. CASE EndPass(a)
      BY <3>1, EndPassTyped
    <3>2. CASE ~EndPass(a)
      <4>1. /\ from' = [from EXCEPT ![a] = 0] /\ batch' = batch
            /\ at' = [at EXCEPT ![a] = "read"]
        BY <1>8, <3>2 DEF ReadFault, Goto
      <4> QED BY <4>1 DEF Places, InPass, Typing, TypeOK
    <3> QED BY <3>1, <3>2
  <2> QED BY <2>1, <2>2, <2>3, <2>4
          DEF diskVars, lineVars, turnVars, gateVars, ghostVars, Typing, TypeOK
<1> QED BY <1>1, <1>2, <1>3, <1>4, <1>5, <1>6, <1>7, <1>8 DEF LoopStep

LEMMA TypingStep == Typing /\ [Next]_vars => Typing'
<1> SUFFICES ASSUME Typing, [Next]_vars PROVE Typing'
  OBVIOUS
<1> USE ConsolidationAssumption
<1>1. CASE ReloadAgent
  <2>1. Trouble("reload") BY <1>1 DEF ReloadAgent
  <2>2. /\ trouble' \in 0 .. MaxTrouble /\ trouble' = trouble + 1 /\ seen' \subseteq Kinds
        /\ trouble < MaxTrouble
    BY <2>1, TroubleTyped DEF Kinds
  <2>3. active' \in Agents /\ active' <= trouble'
    BY <1>1, <2>2 DEF ReloadAgent, Typing, TypeOK, Agents
  <2> QED BY <1>1, <2>2, <2>3 DEF ReloadAgent, Places, diskVars, lineVars, gateVars, ghostVars,
             Typing, TypeOK
<1>2. ASSUME Crash \/ \E a \in Agents : CommitCrash(a) PROVE Typing'
  <2>1. Trouble("crash") /\ Restart /\ UNCHANGED <<lineVars, cursorFile, events>>
        /\ dreamFile' \in {0, dreamFile}
    BY <1>2 DEF Crash, CommitCrash, diskVars, lineVars
  <2>2. /\ trouble' \in 0 .. MaxTrouble /\ trouble' = trouble + 1 /\ seen' \subseteq Kinds
        /\ trouble < MaxTrouble
    BY <2>1, TroubleTyped DEF Kinds
  <2>3. DiskTyped'
    BY <2>1 DEF lineVars, DiskTyped, Typing, TypeOK
  <2> QED BY <2>1, <2>2, <2>3, RestartTyping
<1>3. CASE UNCHANGED vars
  BY <1>3 DEF vars, diskVars, lineVars, turnVars, gateVars, passVars, ghostVars, usedVars, Typing, TypeOK
<1> QED BY <1>1, <1>2, <1>3, TurnTyping, LoopTyping DEF Next

\* Every reachable state is well typed, for any number of sessions and events.
THEOREM TypeCorrect == Spec => []TypeOK
<1>1. Init => Typing
  BY InvInit DEF Inv
<1>2. Typing => TypeOK
  BY DEF Typing
<1> QED BY <1>1, <1>2, TypingStep, PTL DEF Spec

-----------------------------------------------------------------------------
(* The files and the passes.                                               *)

\* A line stays as fresh as it was: what is appended comes behind it.
LEMMA FreshKept ==
    ASSUME Inv, NEW n \in Event, n.id = events + 1, events \in Nat,
           history \subseteq history', history' \subseteq history \cup {n},
           NEW e \in history
    PROVE  Fresh(e)' <=> Fresh(e)
<1>1. e.id <= events /\ e.id \in Nat /\ n.id > e.id
  BY DEF Inv, FilesOK, Typing, TypeOK, Event
<1> QED BY <1>1 DEF Fresh

\* An append, complete or not, makes no line at or below an earlier cursor that
\* is not old.
LEMMA AppendKeeps ==
    ASSUME Inv, Count, UNCHANGED <<handled, dropped, dreamFile>>, garbled \subseteq garbled',
           NEW n \in Event, n.id = events + 1,
           history \subseteq history', history' \subseteq history \cup {n}
    PROVE  /\ FilesOK'
           /\ \A m \in Nat : Reached(m) /\ DoneUpTo(m) => Reached(m)' /\ DoneUpTo(m)'
           /\ \A e \in history', l \in history :
                  Fresh(e)' /\ e.cursor <= l.cursor => e \in history
<1>1. /\ history \subseteq Event /\ dreamFile \in Nat /\ events \in Nat /\ events' = events + 1
      /\ \A e \in Event : e.id \in Nat /\ e.cursor \in Nat
  BY DEF Inv, Typing, TypeOK, Event, Count
<1>2. \A e \in history : e.id < n.id
  BY <1>1 DEF Inv, FilesOK
<1>3. ASSUME NEW e \in history', NEW l \in history, Fresh(e)', e.cursor <= l.cursor
      PROVE  e \in history
  <2>1. e = n => l.cursor < e.cursor
    BY <1>2, <1>3 DEF Fresh
  <2> QED BY <1>1, <1>3, <2>1
<1>4. ASSUME NEW m \in Nat, Reached(m), DoneUpTo(m)
      PROVE  Reached(m)' /\ DoneUpTo(m)'
  <2>1. Reached(m)'
    BY <1>4 DEF Reached
  <2>2. ASSUME NEW e \in history', Fresh(e)', e.cursor <= m PROVE Done(e)'
    <3>1. m > 0
      BY <1>1, <2>2 DEF Event
    <3>2. PICK l \in history : m <= l.cursor
      BY <1>4, <3>1 DEF Reached
    <3>3. e \in history
      <4>1. e \in Event /\ l \in Event
        BY <1>1
      <4>2. e.cursor <= l.cursor
        BY <1>1, <2>2, <3>2, <4>1
      <4> QED BY <1>3, <2>2, <4>2
    <3>4. Fresh(e)
      BY <1>1, <2>2, <3>3, FreshKept
    <3>5. Done(e)
      BY <1>4, <2>2, <3>3, <3>4 DEF DoneUpTo
    <3> QED BY <3>5 DEF Done
  <2> QED BY <2>1, <2>2 DEF DoneUpTo
<1>5. FilesOK'
  <2>1. IsFiniteSet(history')
    <3>1. IsFiniteSet(history \cup {n})
      BY FS_AddElement DEF Inv, FilesOK
    <3> QED BY <3>1, FS_Subset
  <2>2. \A e \in history' : e.id <= events'
    BY <1>1 DEF Inv, FilesOK
  <2>3. Reached(dreamFile) /\ DoneUpTo(dreamFile)
    BY DEF Inv, FilesOK
  <2>4. Reached(dreamFile)' /\ DoneUpTo(dreamFile)'
    BY <1>1, <1>4, <2>3 DEF Reached, DoneUpTo
  <2> QED BY <2>1, <2>2, <2>4 DEF FilesOK
<1> QED BY <1>3, <1>4, <1>5

\* An append leaves every pass as it was.
LEMMA AppendPasses ==
    ASSUME Inv, Count, UNCHANGED <<handled, dropped, dreamFile, passVars, active>>,
           garbled \subseteq garbled', NEW n \in Event, n.id = events + 1,
           history \subseteq history', history' \subseteq history \cup {n}
    PROVE  PassesOK'
<1> SUFFICES ASSUME NEW a \in Agents PROVE PassOK(a)'
  BY DEF PassesOK
<1>1. PassOK(a) /\ from[a] \in Nat
  BY DEF Inv, PassesOK, Typing, TypeOK
<1>2. from'[a] = from[a] /\ batch'[a] = batch[a] /\ at'[a] = at[a]
  BY DEF passVars
<1>3. Reached(from[a])' /\ DoneUpTo(from[a])'
  <2>1. \A m \in Nat : Reached(m) /\ DoneUpTo(m) => Reached(m)' /\ DoneUpTo(m)'
    BY AppendKeeps
  <2>2. Reached(from[a]) /\ DoneUpTo(from[a]) BY <1>1 DEF PassOK
  <2>3. from' = from BY DEF passVars
  <2> QED BY <1>1, <2>1, <2>2, <2>3 DEF Reached, DoneUpTo, Done
<1>4. batch[a] \subseteq history'
  BY <1>1 DEF PassOK
<1>5. BatchWhole(a)'
  <2> SUFFICES ASSUME NEW e \in history', NEW l \in batch[a], Fresh(e)',
                      IsLast(l, batch[a]), e.cursor > from[a], e.cursor <= l.cursor
               PROVE  e \in batch[a] \/ e.id \in garbled'
    BY <1>2 DEF BatchWhole, IsLast
  <2>1. e \in history
    BY <1>1, AppendKeeps DEF PassOK
  <2>2. events \in Nat
    BY DEF Inv, Typing, TypeOK
  <2>3. Fresh(e)
    BY <2>1, <2>2, FreshKept
  <2> QED BY <1>1, <2>1, <2>3 DEF PassOK, BatchWhole
<1>6. at[a] = "commit" => \A e \in batch[a] : Done(e)'
  BY <1>1 DEF PassOK, Done
<1>7. Holding(a)'
  BY <1>1, <1>2 DEF PassOK, Holding
<1> QED BY <1>2, <1>3, <1>4, <1>5, <1>6, <1>7 DEF PassOK

\* What an append does to the lines, complete or not.
LEMMA LinesWritten ==
    ASSUME NEW n, WriteLine(n) \/ UNCHANGED lineVars
    PROVE  /\ history \subseteq history' /\ history' \subseteq history \cup {n}
           /\ garbled \subseteq garbled'
<1>1. CASE UNCHANGED lineVars
  BY <1>1 DEF lineVars
<1>2. CASE WriteLine(n)
  BY <1>2 DEF WriteLine
<1> QED BY <1>1, <1>2

\* After a restart no loop has read anything.
LEMMA RestartPasses ==
    ASSUME Inv, Restart, Typing'
    PROVE  PassesOK'
<1>1. \A a \in Agents : from'[a] = 0 /\ batch'[a] = {} /\ at'[a] # "commit"
  BY DEF Restart
<1>2. \A e \in history' : ~(e.cursor <= 0)
  BY DEF Typing, TypeOK, Event
<1>3. \A a \in Agents : Holding(a)'
  BY <1>1 DEF Restart, Holding, Inv, Typing, TypeOK, Agents
<1> QED BY <1>1, <1>2, <1>3 DEF PassesOK, PassOK, Reached, DoneUpTo, BatchWhole, IsLast

\* A step that leaves the disk, the passes and the records of work alone.
LEMMA FrameOK ==
    ASSUME Inv, UNCHANGED <<diskVars, active, passVars, ghostVars, events>>
    PROVE  FilesOK' /\ PassesOK'
<1> USE DEF diskVars, lineVars, passVars, ghostVars
<1>1. FilesOK'
  BY DEF Inv, FilesOK, Fresh, Reached, DoneUpTo, Done
<1>2. PassesOK'
  <2> SUFFICES ASSUME NEW a \in Agents PROVE PassOK(a)'
    BY DEF PassesOK
  <2>1. PassOK(a) BY DEF Inv, PassesOK
  <2> QED BY <2>1 DEF PassOK, Holding, Fresh, Reached, DoneUpTo, BatchWhole, IsLast, Done
<1> QED BY <1>1, <1>2

LEMMA TurnKeeps ==
    ASSUME Inv, NEW s \in Sessions, TurnStep(s), Typing'
    PROVE  FilesOK' /\ PassesOK'
<1>1. CASE NotifySessionActive(s) \/ NotifySessionIdle(s) \/ CleanupSession(s)
  BY <1>1, FrameOK DEF NotifySessionActive, NotifySessionIdle, CleanupSession, usedVars
<1>2. CASE AppendEvent(s) \/ AppendFault(s) \/ AppendUnread(s) \/ AppendCrash(s)
  <2>1. Count /\ UNCHANGED <<handled, dropped, dreamFile>>
    BY <1>2 DEF AppendEvent, AppendFault, AppendUnread, AppendCrash, Restart, ghostVars
  <2>2. PICK n \in Event : n.id = events + 1 /\ (WriteLine(n) \/ UNCHANGED lineVars)
    <3>1. NewEvent(s) \in Event /\ NewEvent(s).id = events + 1
      BY <2>1, NewEventTyped DEF Inv
    <3>2. /\ [id |-> events + 1, sess |-> s, cursor |-> 1] \in Event
          /\ [id |-> events + 1, sess |-> s, cursor |-> 1].id = events + 1
      BY <2>1, ConsolidationAssumption DEF Count, Event, Inv, Typing, TypeOK
    <3>3. CASE AppendUnread(s)
      BY <3>2, <3>3 DEF AppendUnread
    <3>4. CASE AppendEvent(s) \/ AppendFault(s) \/ AppendCrash(s)
      BY <3>1, <3>4 DEF AppendEvent, AppendFault, AppendCrash
    <3> QED BY <1>2, <3>3, <3>4
  <2>3. /\ history \subseteq history' /\ history' \subseteq history \cup {n}
        /\ garbled \subseteq garbled'
    BY <2>2, LinesWritten
  <2>4. FilesOK'
    BY <2>1, <2>2, <2>3, AppendKeeps
  <2>5. CASE AppendCrash(s)
    <3>1. Restart
      BY <2>5 DEF AppendCrash
    <3> QED BY <2>4, <3>1, RestartPasses
  <2>6. CASE ~AppendCrash(s)
    <3>1. UNCHANGED <<passVars, active>>
      BY <1>2, <2>6 DEF AppendEvent, AppendFault, AppendUnread, turnVars
    <3> QED BY <2>1, <2>2, <2>3, <2>4, <3>1, AppendPasses
  <2> QED BY <2>5, <2>6
<1> QED BY <1>1, <1>2 DEF TurnStep

\* A step of the loop of a that leaves the history alone and only adds to the
\* records of work disturbs neither what is known of a cursor nor another loop.
LEMMA LoopFrame ==
    ASSUME Inv, NEW a \in Agents, UNCHANGED <<lineVars, cursorFile, events, active>>,
           handled \subseteq handled', dropped \subseteq dropped',
           \A b \in Agents \ {a} :
               from'[b] = from[b] /\ batch'[b] = batch[b] /\ at'[b] = at[b]
    PROVE  /\ \A c : DoneUpTo(c) => (\A e \in history' : Fresh(e)' /\ e.cursor <= c => Done(e)')
           /\ Reached(dreamFile)' /\ DoneUpTo(dreamFile)' => FilesOK'
           /\ PassOK(a)' => PassesOK'
<1>0. /\ history' = history /\ garbled' = garbled
      /\ \A e : Fresh(e)' <=> Fresh(e)
  BY DEF lineVars, Fresh
<1>1. \A e : Done(e) => Done(e)'
  BY <1>0 DEF Done
<1>2. \A c : DoneUpTo(c) => (\A e \in history' : Fresh(e)' /\ e.cursor <= c => Done(e)')
  BY <1>0, <1>1 DEF DoneUpTo
<1>3. ASSUME Reached(dreamFile)', DoneUpTo(dreamFile)' PROVE FilesOK'
  BY <1>0, <1>3 DEF Inv, FilesOK
<1>4. ASSUME NEW b \in Agents \ {a} PROVE PassOK(b)'
  <2>1. PassOK(b) BY DEF Inv, PassesOK
  <2>2. DoneUpTo(from[b])'
    BY <1>2, <1>4, <2>1 DEF PassOK, DoneUpTo
  <2>3. Holding(b)'
    BY <1>4, <2>1 DEF PassOK, Holding
  <2> QED BY <1>0, <1>1, <1>4, <2>1, <2>2, <2>3 DEF PassOK, Reached, BatchWhole, IsLast
<1> QED BY <1>2, <1>3, <1>4 DEF PassesOK

\* A loop that is not in a pass holds nothing.
LEMMA EndedPass ==
    ASSUME Typing', NEW a \in Agents, from'[a] = 0, batch'[a] = {}, at'[a] # "commit",
           a <= active'
    PROVE  PassOK(a)'
<1>1. \A e \in history' : ~(e.cursor <= 0)
  BY DEF Typing, TypeOK, Event
<1>2. Holding(a)'
  BY DEF Typing, TypeOK, Agents, Holding
<1> QED BY <1>1, <1>2 DEF PassOK, Reached, DoneUpTo, BatchWhole, IsLast

LEMMA EndPassFrame ==
    ASSUME Typing, NEW a \in Agents, EndPass(a)
    PROVE  /\ from'[a] = 0 /\ batch'[a] = {} /\ at'[a] # "commit"
           /\ \A b \in Agents \ {a} :
                  from'[b] = from[b] /\ batch'[b] = batch[b] /\ at'[b] = at[b]
BY DEF Typing, TypeOK, EndPass, Goto

\* The first entries in file order are also the ones with the smallest cursors.
LEMMA FirstOfWhole ==
    ASSUME Inv, NEW a \in Agents, NEW e \in history, Fresh(e), e.id \notin garbled,
           NEW l \in FirstOf(Unprocessed(a)),
           e.cursor > from[a], e.cursor <= l.cursor
    PROVE  e \in FirstOf(Unprocessed(a))
<1> DEFINE U == Unprocessed(a)
<1> DEFINE Before(x) == {d \in U : d.id < x.id}
<1>1. l \in U /\ U \subseteq history /\ e \in U
  BY DEF FirstOf, Unprocessed
<1>2. /\ history \subseteq Event /\ IsFiniteSet(history)
      /\ \A x \in Event : x.id \in Nat /\ x.cursor \in Nat
  BY DEF Inv, FilesOK, Typing, TypeOK, Event
<1>3. e.id <= l.id
  <2>1. l.id < e.id => l.cursor < e.cursor
    BY <1>1 DEF Fresh
  <2> QED BY <1>1, <1>2, <2>1
<1>4. Before(e) \subseteq Before(l)
  BY <1>1, <1>2, <1>3
<1>5. IsFiniteSet(Before(l))
  <2>1. Before(l) \subseteq history BY <1>1
  <2> QED BY <1>2, <2>1, FS_Subset
<1>6. /\ Cardinality(Before(e)) \in Nat /\ Cardinality(Before(l)) \in Nat
      /\ Cardinality(Before(e)) <= Cardinality(Before(l))
  BY <1>4, <1>5, FS_Subset, FS_CardinalityType
<1>7. Cardinality(Before(l)) < MaxBatch
  BY DEF FirstOf
<1>8. Cardinality(Before(e)) < MaxBatch
  <2> HIDE DEF Before
  <2> QED BY <1>6, <1>7, ConsolidationAssumption
<1> QED BY <1>1, <1>8 DEF FirstOf

\* A step of a consolidation loop: what a pass reads, works off and commits
\* never passes over a line.
LEMMA LoopKeeps ==
    ASSUME Inv, NEW a \in Agents, LoopStep(a), Typing'
    PROVE  FilesOK' /\ PassesOK'
<1>1. /\ Typing /\ FilesOK /\ PassOK(a)
      /\ Reached(dreamFile) /\ DoneUpTo(dreamFile)
      /\ DOMAIN from = Agents /\ DOMAIN batch = Agents /\ DOMAIN at = Agents
  BY DEF Inv, PassesOK, FilesOK, Typing, TypeOK
<1>2. at[a] # "none" /\ active' = active
  BY DEF LoopStep, StartPass, StopLoop, PassThrows, GetLastDreamCursor, usedVars, turnVars,
         ReadUnprocessedHistory, Phase1Analysis, Phase2Execution, ModelError,
         ReadFault, SetLastDreamCursor, CommitFault
<1>3. a <= active'
  BY <1>1, <1>2 DEF PassOK, Holding, Typing, TypeOK, Agents
<1>4. CASE StartPass(a) \/ StopLoop(a)
  <2>1. UNCHANGED <<diskVars, ghostVars, events, from, batch>>
    BY <1>4 DEF StartPass, StopLoop, usedVars
  <2>2. /\ at[a] = "poll" /\ at'[a] # "commit"
        /\ \A b \in Agents \ {a} : at'[b] = at[b]
    BY <1>1, <1>4 DEF StartPass, StopLoop, Goto
  <2>3. FilesOK' /\ (PassOK(a)' => PassesOK')
    BY <1>1, <1>2, <2>1, <2>2, LoopFrame DEF diskVars, lineVars, ghostVars, Fresh, Reached, DoneUpTo, Done
  <2>4. Holding(a)'
    BY <1>1, <1>3, <2>1, <2>2 DEF PassOK, Holding, Typing, TypeOK, Agents
  <2>5. PassOK(a)'
    BY <1>1, <2>1, <2>2, <2>4 DEF diskVars, lineVars, ghostVars, PassOK, Fresh, Reached, DoneUpTo, Done,
                                   BatchWhole, IsLast
  <2> QED BY <2>3, <2>5
<1>5. CASE PassThrows(a) \/ CommitFault(a)
  <2>1. EndPass(a) /\ UNCHANGED <<diskVars, ghostVars, events>>
    BY <1>5 DEF PassThrows, CommitFault
  <2>2. PassOK(a)'
    BY <1>1, <1>3, <2>1, EndPassFrame, EndedPass
  <2>3. FilesOK' /\ (PassOK(a)' => PassesOK')
    BY <1>1, <1>2, <2>1, EndPassFrame, LoopFrame
       DEF diskVars, lineVars, ghostVars, Fresh, Reached, DoneUpTo, Done
  <2> QED BY <2>2, <2>3
<1>6. CASE GetLastDreamCursor(a)
  <2>1. /\ UNCHANGED <<diskVars, ghostVars, events, batch>>
        /\ from'[a] = dreamFile /\ at[a] = "begin" /\ at'[a] = "read"
        /\ \A b \in Agents \ {a} : from'[b] = from[b] /\ at'[b] = at[b]
    BY <1>1, <1>6 DEF GetLastDreamCursor, Goto, usedVars
  <2>2. FilesOK' /\ (PassOK(a)' => PassesOK')
    BY <1>1, <1>2, <2>1, LoopFrame DEF diskVars, lineVars, ghostVars, Fresh, Reached, DoneUpTo, Done
  <2>3. Reached(from[a])' /\ DoneUpTo(from[a])'
    BY <1>1, <2>1 DEF diskVars, lineVars, ghostVars, Fresh, Reached, DoneUpTo, Done
  <2>4. batch'[a] = {}
    BY <1>1, <2>1 DEF PassOK, Holding
  <2>5. Holding(a)'
    BY <1>3, <2>4 DEF Holding, Typing, TypeOK, Agents
  <2> QED BY <2>1, <2>2, <2>3, <2>4, <2>5 DEF PassOK, BatchWhole, IsLast
<1>7. CASE ReadUnprocessedHistory(a)
  <2>1. UNCHANGED <<diskVars, ghostVars, events>>
    BY <1>7 DEF ReadUnprocessedHistory, usedVars
  <2>2. CASE Unprocessed(a) = {}
    <3>1. EndPass(a)
      BY <1>7, <2>2 DEF ReadUnprocessedHistory
    <3>2. PassOK(a)'
      BY <1>1, <1>3, <3>1, EndPassFrame, EndedPass
    <3>3. FilesOK' /\ (PassOK(a)' => PassesOK')
      BY <1>1, <1>2, <2>1, <3>1, EndPassFrame, LoopFrame
         DEF diskVars, lineVars, ghostVars, Fresh, Reached, DoneUpTo, Done
    <3> QED BY <3>2, <3>3
  <2>3. CASE Unprocessed(a) # {}
    <3> DEFINE F == FirstOf(Unprocessed(a))
    <3>1. /\ batch' = [batch EXCEPT ![a] = F] /\ at' = [at EXCEPT ![a] = "analyse"]
          /\ from' = from
      BY <1>7, <2>3 DEF ReadUnprocessedHistory, Goto
    <3>2. F \subseteq history
      BY FirstOfSubset DEF Unprocessed
    <3>3. \A e \in history, l \in F :
              Fresh(e) /\ e.cursor > from[a] /\ e.cursor <= l.cursor => e \in F \/ e.id \in garbled
      BY FirstOfWhole
    <3> HIDE DEF F
    <3>4. /\ batch'[a] = F /\ at'[a] = "analyse"
          /\ \A b \in Agents \ {a} :
                 from'[b] = from[b] /\ batch'[b] = batch[b] /\ at'[b] = at[b]
      BY <1>1, <3>1
    <3>5. FilesOK' /\ (PassOK(a)' => PassesOK')
      BY <1>1, <1>2, <2>1, <3>4, LoopFrame DEF diskVars, lineVars, ghostVars, Fresh, Reached, DoneUpTo, Done
    <3>6. Reached(from[a])' /\ DoneUpTo(from[a])'
      BY <1>1, <2>1, <3>1 DEF PassOK, diskVars, lineVars, ghostVars, Fresh, Reached, DoneUpTo, Done
    <3>7. BatchWhole(a)'
      BY <2>1, <3>1, <3>3, <3>4 DEF BatchWhole, Fresh, diskVars, lineVars
    <3>8. Holding(a)'
      BY <1>3, <3>4 DEF Holding, Typing, TypeOK, Agents
    <3> QED BY <2>1, <3>2, <3>4, <3>5, <3>6, <3>7, <3>8 DEF PassOK, diskVars, lineVars
  <2> QED BY <2>2, <2>3
<1>8. CASE Phase1Analysis(a) \/ Phase2Execution(a) \/ ModelError(a)
  <2>1. /\ UNCHANGED <<diskVars, from, batch, events>>
        /\ at[a] \in {"analyse", "apply"} /\ at'[a] \in {"apply", "commit"}
        /\ \A b \in Agents \ {a} : at'[b] = at[b]
        /\ handled \subseteq handled' /\ dropped \subseteq dropped'
        /\ at'[a] = "commit" => Ids(a) \subseteq handled' \cup dropped'
    BY <1>1, <1>8 DEF Phase1Analysis, Phase2Execution, ModelError, Goto, usedVars
  <2>2. /\ \A c : DoneUpTo(c) => (\A e \in history' : Fresh(e)' /\ e.cursor <= c => Done(e)')
        /\ Reached(dreamFile)' /\ DoneUpTo(dreamFile)' => FilesOK'
        /\ PassOK(a)' => PassesOK'
    BY <1>2, <2>1, LoopFrame DEF diskVars, lineVars
  <2>3. FilesOK'
    BY <1>1, <2>1, <2>2 DEF diskVars, lineVars, Fresh, Reached, DoneUpTo
  <2>4. Reached(from[a])' /\ DoneUpTo(from[a])'
    BY <1>1, <2>1, <2>2 DEF PassOK, diskVars, lineVars, Fresh, Reached, DoneUpTo
  <2>5. at'[a] = "commit" => \A e \in batch'[a] : Done(e)'
    BY <2>1 DEF Ids, Done
  <2>6. Holding(a)'
    BY <1>3, <2>1 DEF Holding, Typing, TypeOK, Agents
  <2>7. PassOK(a)'
    BY <1>1, <2>1, <2>4, <2>5, <2>6 DEF PassOK, BatchWhole, IsLast, Fresh, diskVars, lineVars
  <2> QED BY <2>2, <2>3, <2>7
<1>9. CASE SetLastDreamCursor(a)
  <2>1. EndPass(a) /\ UNCHANGED <<lineVars, cursorFile, ghostVars, events>>
    BY <1>9 DEF SetLastDreamCursor, usedVars
  <2>2. PICK l \in batch[a] : IsLast(l, batch[a]) /\ dreamFile' = l.cursor
    BY <1>9 DEF SetLastDreamCursor
  <2>3. PassOK(a)'
    BY <1>1, <1>3, <2>1, EndPassFrame, EndedPass
  <2>4. /\ Reached(dreamFile)' /\ DoneUpTo(dreamFile)' => FilesOK'
        /\ PassOK(a)' => PassesOK'
    BY <1>1, <1>2, <2>1, EndPassFrame, LoopFrame DEF ghostVars
  <2>5. l \in history /\ history \subseteq Event /\ from[a] \in Nat
        /\ \A e \in Event : e.cursor \in Nat
    BY <1>1, <2>2 DEF PassOK, Typing, TypeOK, Event
  <2>6. Reached(dreamFile)'
    BY <2>1, <2>2, <2>5 DEF Reached, lineVars
  <2>7. ASSUME NEW e \in history, Fresh(e), e.cursor <= l.cursor PROVE Done(e)
    <3>1. CASE e.cursor <= from[a]
      BY <1>1, <2>7, <3>1 DEF PassOK, DoneUpTo
    <3>2. CASE e.cursor > from[a]
      <4>1. e \in batch[a] \/ e.id \in garbled
        BY <1>1, <2>2, <2>7, <3>2 DEF PassOK, BatchWhole
      <4>2. at[a] = "commit"
        BY <1>9 DEF SetLastDreamCursor
      <4> QED BY <1>1, <4>1, <4>2 DEF PassOK, Done
    <3> QED BY <2>5, <3>1, <3>2
  <2>8. DoneUpTo(dreamFile)'
    BY <2>1, <2>2, <2>7 DEF DoneUpTo, Done, Fresh, ghostVars, lineVars
  <2> QED BY <2>3, <2>4, <2>6, <2>8
<1>10. CASE ReadFault(a)
  <2>1. UNCHANGED <<diskVars, ghostVars, events>>
    BY <1>10 DEF ReadFault
  <2>2. /\ from'[a] = 0 /\ batch'[a] = {} /\ at'[a] # "commit"
        /\ \A b \in Agents \ {a} :
               from'[b] = from[b] /\ batch'[b] = batch[b] /\ at'[b] = at[b]
    BY <1>1, <1>10, EndPassFrame DEF ReadFault, Goto, PassOK, Holding
  <2>3. PassOK(a)'
    BY <1>3, <2>2, EndedPass
  <2>4. FilesOK' /\ (PassOK(a)' => PassesOK')
    BY <1>1, <1>2, <2>1, <2>2, LoopFrame DEF diskVars, lineVars, ghostVars, Fresh, Reached, DoneUpTo, Done
  <2> QED BY <2>3, <2>4
<1> QED BY <1>4, <1>5, <1>6, <1>7, <1>8, <1>9, <1>10 DEF LoopStep

LEMMA InvStep == Inv /\ [Next]_vars => Inv'
<1> SUFFICES ASSUME Inv, [Next]_vars PROVE FilesOK' /\ PassesOK'
  BY TypingStep DEF Inv
<1>1. Typing' /\ Typing /\ FilesOK /\ PassesOK
  BY TypingStep DEF Inv
<1>2. CASE ReloadAgent
  <2>1. /\ UNCHANGED <<diskVars, from, batch, ghostVars, events>>
        /\ active' = active + 1 /\ at' = [at EXCEPT ![active + 1] = "poll"]
    BY <1>2 DEF ReloadAgent
  <2>2. FilesOK'
    BY <1>1, <2>1 DEF diskVars, lineVars, ghostVars, FilesOK, Fresh, Reached, DoneUpTo, Done
  <2>3. ASSUME NEW a \in Agents PROVE PassOK(a)'
    <3>1. PassOK(a) BY <1>1 DEF PassesOK
    <3>2. at'[a] = at[a] \/ (at'[a] = "poll" /\ at[a] = "none" /\ a = active + 1)
      BY <1>1, <2>1, <3>1 DEF PassOK, Holding, Typing, TypeOK, Agents
    <3>3. Holding(a)'
      BY <1>1, <2>1, <3>1, <3>2 DEF PassOK, Holding, Typing, TypeOK, Agents
    <3> QED BY <2>1, <3>1, <3>2, <3>3
            DEF PassOK, Fresh, Reached, DoneUpTo, Done, BatchWhole, IsLast, diskVars, lineVars, ghostVars
  <2> QED BY <2>2, <2>3 DEF PassesOK
<1>3. ASSUME Crash \/ \E a \in Agents : CommitCrash(a) PROVE FilesOK' /\ PassesOK'
  <2>1. Restart /\ UNCHANGED <<lineVars, cursorFile, events, ghostVars>>
        /\ dreamFile' \in {0, dreamFile}
    BY <1>3 DEF Crash, CommitCrash, Restart, diskVars, lineVars
  <2>2. \A e \in history : ~(e.cursor <= 0)
    BY <1>1 DEF Typing, TypeOK, Event
  <2>3. FilesOK'
    BY <1>1, <2>1, <2>2 DEF ghostVars, lineVars, FilesOK, Fresh, Reached, DoneUpTo, Done
  <2> QED BY <1>1, <2>1, <2>3, RestartPasses
<1>4. CASE UNCHANGED vars
  BY <1>4, FrameOK DEF vars, turnVars, usedVars
<1> QED BY <1>1, <1>2, <1>3, <1>4, TurnKeeps, LoopKeeps DEF Next

LEMMA InvAlways == Spec => []Inv
BY InvInit, InvStep, PTL DEF Spec

\* The dream cursor passes over no line, however many Agents' loops move it, for
\* any batch size and wherever the process crashes, but for lines that got an old cursor
\* or do not parse.
THEOREM NoEventPassedOver == Spec => []NothingPassedOver
<1>1. Inv => NothingPassedOver
  BY DEF Inv, FilesOK, DoneUpTo, Done, NothingPassedOver
<1> QED BY <1>1, InvAlways, PTL

-----------------------------------------------------------------------------
(* FinishedTurnIsTakenUp. The loop that takes an event up is the one of    *)
(* the Agent its session is bound to: no other loop will do, since an      *)
(* Agent nobody owns stops with its flag still set.                        *)

\* The premises of the property: nothing went wrong that gives it up.
Calm == /\ "fault" \notin seen /\ "remove" \notin seen
        /\ Cardinality(history) <= MaxBatch

\* The loop of a works the event off in its pass or has a pass ahead.
TakesUp(a, e) ==
    hasNewActivity[a] \/ firstCycle[a] \/ at[a] \in {"begin", "read"} \/ e \in batch[a]

\* The loops of the Agents somebody owns are there, an Agent that is yet to be
\* built has its first cycle ahead, and a turn runs on the Agent its session is
\* bound to.
Owned ==
    /\ at[active] \notin {"none", "stopped"}
    /\ \A s \in Sessions : at[bound[s]] \notin {"none", "stopped"}
    /\ \A a \in Agents : a > active => firstCycle[a]
    /\ "fault" \notin seen => dropped = {}
    /\ "remove" \notin seen => \A s \in Sessions : turn[s] # None => turn[s] = bound[s]

\* An event whose turn is over waits for its loop.
Due(e) == /\ Fresh(e) /\ e.id \notin handled \cup garbled
          /\ e.sess \notin Excluded /\ turn[e.sess] = None

Awaited == Calm => \A e \in history : Due(e) => TakesUp(bound[e.sess], e)

TakenUpInv == Owned /\ Awaited

\* A history that fits one batch is read whole.
LEMMA WholeBatch ==
    ASSUME Inv, NEW a \in Agents, Cardinality(history) <= MaxBatch
    PROVE  FirstOf(Unprocessed(a)) = Unprocessed(a)
<1> DEFINE U == Unprocessed(a)
<1>1. U \subseteq history /\ IsFiniteSet(history) /\ \A e \in history : e.id \in Nat
  BY DEF Unprocessed, Inv, FilesOK, Typing, TypeOK, Event
<1>2. ASSUME NEW e \in U PROVE Cardinality({d \in U : d.id < e.id}) < MaxBatch
  <2> DEFINE B == {d \in U : d.id < e.id}
  <2>1. B \in SUBSET (history \ {e}) /\ e \in history
    BY <1>1
  <2>2. IsFiniteSet(history \ {e}) /\ Cardinality(history \ {e}) = Cardinality(history) - 1
    BY <1>1, <2>1, FS_RemoveElement
  <2> HIDE DEF B
  <2>3. IsFiniteSet(B) /\ Cardinality(B) <= Cardinality(history \ {e})
    BY <2>1, <2>2, FS_Subset
  <2>4. Cardinality(B) \in Nat /\ Cardinality(history) \in Nat
    BY <1>1, <2>3, FS_CardinalityType
  <2>5. Cardinality(B) < MaxBatch
    BY <2>2, <2>3, <2>4, ConsolidationAssumption
  <2> QED BY <2>5 DEF B
<1> QED BY <1>2 DEF FirstOf

\* Calm weather only ends.
LEMMA CalmBefore ==
    ASSUME IsFiniteSet(history'), history \subseteq history', seen \subseteq seen', Calm'
    PROVE  Calm
<1>1. IsFiniteSet(history) /\ Cardinality(history) <= Cardinality(history')
  BY FS_Subset
<1>2. Cardinality(history) \in Nat /\ Cardinality(history') \in Nat
  BY <1>1, FS_CardinalityType
<1>3. Cardinality(history) <= MaxBatch
  BY <1>1, <1>2, ConsolidationAssumption DEF Calm
<1> QED BY <1>3 DEF Calm

\* After a restart the new Agent's first cycle takes up everything.
LEMMA RestartTakenUp ==
    ASSUME Inv, Owned, Restart, trouble < MaxTrouble, seen \subseteq seen', Typing'
    PROVE  TakenUpInv'
<1>1. active + 1 \in Agents /\ active \in Nat /\ active' = active + 1
  <2>1. active' \in Agents /\ active' = active + 1
    BY RestartTyped DEF Inv
  <2>2. active \in Nat
    BY ConsolidationAssumption DEF Inv, Typing, TypeOK, Agents
  <2> QED BY <2>1, <2>2
<1>2. at'[active'] = "poll" /\ firstCycle' = firstCycle /\ firstCycle[active']
  BY <1>1 DEF Restart, Owned
<1>3. \A s \in Sessions : bound'[s] = active' /\ turn'[s] = None
  BY <1>1 DEF Restart
<1>4. dropped' = dropped
  BY DEF Restart, ghostVars
<1>5. Owned'
  <2>1. \A a \in Agents : a > active' => firstCycle'[a]
    BY <1>1, <1>2 DEF Owned, Agents
  <2> QED BY <1>2, <1>3, <1>4, <2>1 DEF Owned
<1>6. \A e \in history' : TakesUp(bound[e.sess], e)'
  <2>1. \A e \in history' : e.sess \in Sessions
    BY DEF Typing, TypeOK, Event
  <2> QED BY <1>2, <1>3, <2>1 DEF TakesUp
<1> QED BY <1>5, <1>6 DEF TakenUpInv, Awaited

\* A step of a turn: the event of a running turn is not due yet, and the end of
\* the turn tells the loop of the Agent it ran on.
LEMMA TurnTakenUp ==
    ASSUME Inv, TakenUpInv, NEW s \in Sessions, TurnStep(s), Inv'
    PROVE  TakenUpInv'
<1>0. /\ Owned /\ Awaited /\ Typing /\ Typing' /\ active \in Agents /\ None \notin Agents
      /\ IsFiniteSet(history) /\ IsFiniteSet(history')
      /\ bound \in [Sessions -> Agents] /\ turn \in [Sessions -> Agents \cup {None}]
      /\ hasNewActivity \in [Agents -> BOOLEAN]
      /\ \A e \in history : e.sess \in Sessions
  BY ConsolidationAssumption DEF TakenUpInv, Inv, Typing, TypeOK, FilesOK, Event
<1>1. CASE NotifySessionActive(s)
  <2>1. /\ bound' = [bound EXCEPT ![s] = active] /\ turn' = [turn EXCEPT ![s] = active]
        /\ UNCHANGED <<history, garbled, active, hasNewActivity, firstCycle, at, batch, handled, dropped, seen>>
    BY <1>1 DEF NotifySessionActive, diskVars, lineVars, gateVars, passVars, ghostVars, usedVars
  <2>2. Owned'
    BY <1>0, <2>1 DEF Owned
  <2>3. ASSUME NEW e \in history', Calm', Due(e)' PROVE TakesUp(bound[e.sess], e)'
    <3>1. e.sess # s
      BY <1>0, <2>1, <2>3 DEF Due, Fresh
    <3>2. Due(e) /\ bound'[e.sess] = bound[e.sess] /\ Calm
      BY <1>0, <2>1, <2>3, <3>1 DEF Due, Calm, Fresh
    <3> QED BY <1>0, <2>1, <3>2 DEF Awaited, TakesUp
  <2> QED BY <2>2, <2>3 DEF TakenUpInv, Awaited
<1>2. CASE NotifySessionIdle(s)
  <2>1. /\ turn' = [turn EXCEPT ![s] = None] /\ turn[s] # None
        /\ hasNewActivity' = [hasNewActivity EXCEPT ![turn[s]] = @ \/ s \notin Excluded]
        /\ UNCHANGED <<history, garbled, active, bound, firstCycle, at, batch, handled, dropped, seen>>
    BY <1>2 DEF NotifySessionIdle, diskVars, lineVars, passVars, ghostVars, usedVars
  <2>2. Owned'
    BY <1>0, <2>1 DEF Owned
  <2>3. ASSUME NEW e \in history', Calm', Due(e)' PROVE TakesUp(bound[e.sess], e)'
    <3>0. Calm /\ e \in history /\ bound[e.sess] \in Agents
      BY <1>0, <2>1, <2>3 DEF Calm
    <3>1. CASE e.sess = s
      <4>1. turn[s] = bound[s] /\ s \notin Excluded
        BY <1>0, <2>1, <2>3, <3>0, <3>1 DEF Owned, Calm, Due
      <4>2. hasNewActivity'[bound[s]]
        BY <1>0, <2>1, <4>1
      <4> QED BY <2>1, <3>1, <4>2 DEF TakesUp
    <3>2. CASE e.sess # s
      <4>1. Due(e)
        BY <1>0, <2>1, <2>3, <3>2 DEF Due, Fresh
      <4>2. TakesUp(bound[e.sess], e)
        BY <1>0, <3>0, <4>1 DEF Awaited
      <4>3. hasNewActivity[bound[e.sess]] => hasNewActivity'[bound[e.sess]]
        BY <1>0, <2>1, <3>0
      <4> QED BY <2>1, <4>2, <4>3 DEF TakesUp
    <3> QED BY <3>1, <3>2
  <2> QED BY <2>2, <2>3 DEF TakenUpInv, Awaited
<1>3. CASE CleanupSession(s)
  <2>1. /\ "remove" \in seen' /\ seen \subseteq seen' /\ bound' = [bound EXCEPT ![s] = active]
        /\ UNCHANGED <<active, firstCycle, at, dropped>>
    BY <1>3 DEF CleanupSession, Trouble, gateVars, passVars, ghostVars
  <2>2. Owned'
    BY <1>0, <2>1 DEF Owned
  <2> QED BY <2>1, <2>2 DEF TakenUpInv, Awaited, Calm
<1>4. CASE AppendEvent(s)
  <2>1. /\ turn[s] # None /\ history' = history \cup {NewEvent(s)} /\ garbled \subseteq garbled'
        /\ UNCHANGED <<active, bound, turn, hasNewActivity, firstCycle, at, batch, handled, dropped, seen>>
    BY <1>4 DEF AppendEvent, WriteLine, turnVars, gateVars, passVars, ghostVars
  <2>2. Owned'
    BY <1>0, <2>1 DEF Owned
  <2>3. ASSUME NEW e \in history', Calm', Due(e)' PROVE TakesUp(bound[e.sess], e)'
    <3>1. Calm
      BY <1>0, <2>1, <2>3, CalmBefore
    <3>2. NewEvent(s).sess = s
      BY DEF NewEvent
    <3>3. e \in history
      BY <2>1, <2>3, <3>2 DEF Due, Fresh
    <3>4. NewEvent(s) \in Event /\ NewEvent(s).id = events + 1 /\ events \in Nat
      BY <1>4, NewEventTyped DEF AppendEvent, Inv, Typing, TypeOK
    <3>5. Fresh(e)
      BY <2>1, <2>3, <3>3, <3>4, FreshKept DEF Due
    <3>6. Due(e)
      BY <2>1, <2>3, <3>5 DEF Due, Fresh
    <3> QED BY <1>0, <2>1, <3>1, <3>3, <3>6 DEF Awaited, TakesUp
  <2> QED BY <2>2, <2>3 DEF TakenUpInv, Awaited
<1>5. CASE AppendFault(s) \/ AppendUnread(s)
  <2>1. "fault" \in seen' /\ seen \subseteq seen' /\ UNCHANGED <<active, bound, turn, firstCycle, at>>
    BY <1>5 DEF AppendFault, AppendUnread, Trouble, turnVars, gateVars, passVars
  <2>2. Owned'
    BY <1>0, <2>1 DEF Owned
  <2> QED BY <2>1, <2>2 DEF TakenUpInv, Awaited, Calm
<1>6. CASE AppendCrash(s)
  <2>1. Restart /\ trouble < MaxTrouble /\ seen \subseteq seen'
    BY <1>6 DEF AppendCrash, Trouble
  <2> QED BY <1>0, <2>1, RestartTakenUp
<1> QED BY <1>1, <1>2, <1>3, <1>4, <1>5, <1>6 DEF TurnStep

\* A step of a loop: whoever is bound keeps its loop alive, and a pass leaves
\* out no line that was there when it read the history.
LEMMA LoopTakenUp ==
    ASSUME Inv, TakenUpInv, NEW a \in Agents, LoopStep(a), Inv'
    PROVE  TakenUpInv'
<1>0. /\ Owned /\ Awaited /\ PassOK(a) /\ active \in Agents /\ IsFiniteSet(history)
      /\ bound \in [Sessions -> Agents] /\ hasNewActivity \in [Agents -> BOOLEAN]
      /\ firstCycle \in [Agents -> BOOLEAN] /\ at \in [Agents -> Places]
      /\ batch \in [Agents -> SUBSET Event] /\ from \in [Agents -> 0 .. MaxEvents]
      /\ \A e \in history : e.sess \in Sessions /\ e.cursor \in Nat /\ e.id \in Nat
  BY DEF TakenUpInv, Inv, Typing, TypeOK, FilesOK, PassesOK, Event
<1>1. /\ UNCHANGED <<history, garbled, active, bound, turn>> /\ seen \subseteq seen' /\ handled \subseteq handled'
      /\ "fault" \notin seen' => dropped' = dropped
  BY DEF LoopStep, StartPass, StopLoop, PassThrows, GetLastDreamCursor, ReadUnprocessedHistory, ReadFault,
         Phase1Analysis, Phase2Execution, ModelError, SetLastDreamCursor, CommitFault, Trouble,
         diskVars, lineVars, turnVars, ghostVars, usedVars
<1>2. \A b \in Agents \ {a} : /\ at'[b] = at[b] /\ batch'[b] = batch[b]
                              /\ hasNewActivity'[b] = hasNewActivity[b] /\ firstCycle'[b] = firstCycle[b]
  BY <1>0 DEF LoopStep, StartPass, StopLoop, PassThrows, GetLastDreamCursor, ReadUnprocessedHistory, ReadFault,
         Phase1Analysis, Phase2Execution, ModelError, SetLastDreamCursor, CommitFault, EndPass, Goto,
         gateVars, passVars
<1>3. Running(a) => at'[a] \notin {"none", "stopped"}
  BY <1>0 DEF LoopStep, StartPass, StopLoop, PassThrows, GetLastDreamCursor, ReadUnprocessedHistory, ReadFault,
         Phase1Analysis, Phase2Execution, ModelError, SetLastDreamCursor, CommitFault, EndPass, Goto
<1>4. a <= active /\ active \in Nat
  <2>1. at[a] # "none"
    BY DEF LoopStep, StartPass, StopLoop, PassThrows, GetLastDreamCursor, ReadUnprocessedHistory, ReadFault,
           Phase1Analysis, Phase2Execution, ModelError, SetLastDreamCursor, CommitFault
  <2> QED BY <1>0, <2>1, ConsolidationAssumption DEF PassOK, Holding, Agents
<1>5. Owned'
  <2>1. at'[active'] \notin {"none", "stopped"}
    BY <1>0, <1>1, <1>2, <1>3 DEF Owned, Running
  <2>2. \A s \in Sessions : at'[bound'[s]] \notin {"none", "stopped"}
    BY <1>0, <1>1, <1>2, <1>3 DEF Owned, Running
  <2>3. \A b \in Agents : b > active' => firstCycle'[b]
    BY <1>0, <1>1, <1>2, <1>4 DEF Owned
  <2>4. "fault" \notin seen' => dropped' = {}
    BY <1>0, <1>1 DEF Owned
  <2>5. "remove" \notin seen' => \A s \in Sessions : turn'[s] # None => turn'[s] = bound'[s]
    BY <1>0, <1>1 DEF Owned
  <2> QED BY <2>1, <2>2, <2>3, <2>4, <2>5 DEF Owned
<1>6. ASSUME NEW e \in history, Calm, Calm', TakesUp(a, e), Running(a), e.id \notin handled',
             Fresh(e), e.id \notin garbled
      PROVE  TakesUp(a, e)'
  <2>0. dropped = {} /\ "fault" \notin seen'
    BY <1>0, <1>6 DEF Owned, Calm
  <2>1. CASE StartPass(a)
    BY <1>0, <2>1 DEF StartPass, Goto, TakesUp
  <2>2. CASE GetLastDreamCursor(a)
    BY <1>0, <2>2 DEF GetLastDreamCursor, Goto, TakesUp
  <2>3. CASE ReadUnprocessedHistory(a)
    <3>1. at[a] = "read" /\ batch[a] = {} /\ UNCHANGED <<handled, hasNewActivity, firstCycle>>
      BY <1>0, <2>3 DEF ReadUnprocessedHistory, PassOK, Holding, gateVars, ghostVars
    <3>2. ~ (e.cursor <= from[a])
      <4>1. e.cursor <= from[a] => Done(e)
        BY <1>0, <1>6 DEF PassOK, DoneUpTo, Calm
      <4> QED BY <1>6, <2>0, <3>1, <4>1 DEF Done
    <3>3. e \in Unprocessed(a)
      BY <1>0, <1>6, <3>2 DEF Unprocessed
    <3>4. batch' = [batch EXCEPT ![a] = FirstOf(Unprocessed(a))]
      BY <2>3, <3>3 DEF ReadUnprocessedHistory
    <3>5. FirstOf(Unprocessed(a)) = Unprocessed(a)
      BY <1>6, WholeBatch DEF Calm
    <3>6. batch'[a] = Unprocessed(a)
      BY <1>0, <3>4, <3>5
    <3> QED BY <3>3, <3>6 DEF TakesUp
  <2>4. CASE Phase1Analysis(a) \/ Phase2Execution(a)
    <3>1. at[a] \in {"analyse", "apply"} /\ UNCHANGED <<hasNewActivity, firstCycle, batch>>
          /\ (handled' = handled \cup Ids(a) \/ handled' = handled)
      BY <2>4 DEF Phase1Analysis, Phase2Execution, gateVars
    <3> QED BY <1>6, <3>1 DEF TakesUp
  <2>5. CASE SetLastDreamCursor(a)
    <3>1. at[a] = "commit" /\ UNCHANGED <<handled, hasNewActivity, firstCycle>>
      BY <2>5 DEF SetLastDreamCursor, gateVars, ghostVars
    <3>2. e \notin batch[a]
      BY <1>0, <1>6, <2>0, <3>1 DEF PassOK, Done
    <3> QED BY <1>6, <3>1, <3>2 DEF TakesUp
  <2>6. CASE StopLoop(a)
    BY <1>6, <2>6 DEF StopLoop
  <2>7. CASE PassThrows(a) \/ ReadFault(a) \/ ModelError(a) \/ CommitFault(a)
    BY <2>0, <2>7 DEF PassThrows, ReadFault, ModelError, CommitFault, Trouble
  <2> QED BY <2>1, <2>2, <2>3, <2>4, <2>5, <2>6, <2>7 DEF LoopStep
<1>7. ASSUME NEW e \in history', Calm', Due(e)' PROVE TakesUp(bound[e.sess], e)'
  <2> DEFINE b == bound[e.sess]
  <2>1. Calm /\ e \in history /\ e.sess \in Sessions /\ b \in Agents /\ bound' = bound
    BY <1>0, <1>1, <1>7 DEF Calm
  <2>2. Due(e) /\ e.id \notin handled' /\ Fresh(e) /\ e.id \notin garbled
    BY <1>1, <1>7 DEF Due, Fresh
  <2>3. TakesUp(b, e)
    BY <1>0, <2>1, <2>2 DEF Awaited
  <2>4. CASE b = a
    <3>1. Running(a)
      BY <2>1, <2>4 DEF Running
    <3> QED BY <1>6, <1>7, <2>1, <2>2, <2>3, <2>4, <3>1
  <2>5. CASE b # a
    <3> HIDE DEF b
    <3>1. TakesUp(b, e)'
      BY <1>2, <2>1, <2>3, <2>5 DEF TakesUp, b
    <3> QED BY <2>1, <3>1 DEF b
  <2> QED BY <2>4, <2>5
<1> QED BY <1>5, <1>7 DEF TakenUpInv, Awaited

\* Every step.
LEMMA TakenUpStep == Inv /\ TakenUpInv /\ [Next]_vars /\ Inv' => TakenUpInv'
<1> SUFFICES ASSUME Inv, TakenUpInv, [Next]_vars, Inv' PROVE TakenUpInv'
  OBVIOUS
<1>1. CASE ReloadAgent
  <2>1. /\ UNCHANGED <<history, garbled, bound, turn, hasNewActivity, firstCycle, batch, handled, dropped>>
        /\ active' = active + 1 /\ at' = [at EXCEPT ![active + 1] = "poll"]
        /\ seen' = seen \cup {"reload"} /\ trouble < MaxTrouble
    BY <1>1 DEF ReloadAgent, Trouble, diskVars, lineVars, gateVars, ghostVars
  <2>2. active \in Nat /\ active + 1 \in Agents /\ at[active + 1] = "none"
    <3>1. active \in Nat /\ active <= trouble /\ trouble \in Nat /\ MaxTrouble \in Nat
      BY ConsolidationAssumption DEF Inv, Typing, TypeOK, Agents
    <3>2. active + 1 \in Agents
      BY <2>1, <3>1 DEF Agents
    <3> QED BY <3>1, <3>2 DEF Inv, PassesOK, PassOK, Holding
  <2>3. /\ at \in [Agents -> Places] /\ bound \in [Sessions -> Agents] /\ Owned /\ Awaited
        /\ \A e \in history : e.sess \in Sessions
    BY DEF Inv, Typing, TypeOK, TakenUpInv, Event
  <2>4. \A b \in Agents : at[b] # "none" => at'[b] = at[b]
    BY <2>1, <2>2, <2>3
  <2>5. Owned'
    <3>1. at'[active'] = "poll"
      BY <2>1, <2>2, <2>3
    <3>2. \A s \in Sessions : at'[bound'[s]] \notin {"none", "stopped"}
      BY <2>1, <2>3, <2>4 DEF Owned
    <3>3. \A b \in Agents : b > active' => firstCycle'[b]
      BY <2>1, <2>2, <2>3 DEF Owned, Agents
    <3> QED BY <2>1, <2>3, <3>1, <3>2, <3>3 DEF Owned
  <2>6. Awaited'
    <3> SUFFICES ASSUME NEW e \in history', Calm', Due(e)' PROVE TakesUp(bound[e.sess], e)'
      BY DEF Awaited
    <3>1. Calm /\ Due(e) /\ e \in history
      BY <2>1 DEF Calm, Due, Fresh
    <3>2. TakesUp(bound[e.sess], e) /\ at'[bound[e.sess]] = at[bound[e.sess]]
      BY <2>3, <2>4, <3>1 DEF Awaited, Owned
    <3> QED BY <2>1, <3>2 DEF TakesUp
  <2> QED BY <2>5, <2>6 DEF TakenUpInv
<1>2. CASE Crash \/ \E a \in Agents : CommitCrash(a)
  <2>1. Restart /\ trouble < MaxTrouble /\ seen \subseteq seen' /\ Typing' /\ Owned
    BY <1>2 DEF Crash, CommitCrash, Trouble, Inv, TakenUpInv
  <2> QED BY <2>1, RestartTakenUp
<1>3. CASE UNCHANGED vars
  BY <1>3 DEF vars, diskVars, lineVars, turnVars, gateVars, passVars, ghostVars, usedVars, TakenUpInv, Owned, Awaited,
              Calm, Due, Fresh, TakesUp
<1>4. CASE \E s \in Sessions : TurnStep(s)
  BY <1>4, TurnTakenUp
<1>5. CASE \E a \in Agents : LoopStep(a)
  BY <1>5, LoopTakenUp
<1> QED BY <1>1, <1>2, <1>3, <1>4, <1>5 DEF Next

\* A conversation that ends while a pass runs is not forgotten, over reloads and
\* crashes and with the loops of any number of Agents: its events have a loop
\* that will take them up.
THEOREM FinishedTurnsTakenUp == Spec => []FinishedTurnIsTakenUp
<1>1. Init => TakenUpInv
  <2> SUFFICES ASSUME Init PROVE TakenUpInv
    OBVIOUS
  <2>1. 0 \in Agents
    BY ConsolidationAssumption DEF Agents
  <2>2. at[0] = "poll" /\ active = 0 /\ \A s \in Sessions : bound[s] = 0 /\ turn[s] = None
    BY <2>1 DEF Init
  <2>3. \A a \in Agents : firstCycle[a]
    BY DEF Init
  <2>4. dropped = {} /\ history = {}
    BY DEF Init
  <2> QED BY <2>2, <2>3, <2>4 DEF TakenUpInv, Owned, Awaited
<1>2. Inv /\ TakenUpInv => FinishedTurnIsTakenUp
  <2> SUFFICES ASSUME Inv, TakenUpInv, {"fault", "remove"} \cap seen = {},
                      Cardinality(history) <= MaxBatch, NEW e \in history, Due(e)
               PROVE  \E a \in Agents :
                        /\ at[a] \notin {"none", "stopped"}
                        /\ \/ hasNewActivity[a] \/ firstCycle[a]
                           \/ at[a] \in {"begin", "read"} \/ e \in batch[a]
    BY DEF FinishedTurnIsTakenUp, Due
  <2>1. Calm
    BY DEF Calm
  <2>2. bound[e.sess] \in Agents /\ e.sess \in Sessions
    BY DEF Inv, Typing, TypeOK, Event
  <2>3. TakesUp(bound[e.sess], e) /\ at[bound[e.sess]] \notin {"none", "stopped"}
    BY <2>1, <2>2 DEF TakenUpInv, Awaited, Owned
  <2> QED BY <2>2, <2>3 DEF TakesUp
<1> QED BY <1>1, <1>2, InvAlways, TakenUpStep, PTL DEF Spec

=============================================================================
