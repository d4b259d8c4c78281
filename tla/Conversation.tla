------------------------------ MODULE Conversation ------------------------------
(***************************************************************************)
(* One session's conversation: the turn of Agent::Invoke and               *)
(* ReactAgentWorker::ReactLoop over the history that ContextEngine keeps   *)
(* in memory, persists through JsonStorage or DbStorage, and cuts to the   *)
(* window that is sent to the model.                                       *)
(*                                                                         *)
(* A message is its role, its text as the set of the turns it speaks of    *)
(* (empty content is the empty set), the ids of its tool calls, and the id *)
(* of the call it answers.  What a text says is left out.                  *)
(***************************************************************************)
EXTENDS Integers, Sequences, FiniteSets

CONSTANTS
  MaxMessages,    \* ContextConfig::maxMessages
  MaxTokens,      \* ContextConfig::maxContextTokens
  ToolTokens,     \* what a tool result weighs beyond the 1 of every message
  MaxIterations,  \* AgentConfig::maxIterations
  FallbackIds,    \* ids come from g_fallbackCounter, which a restart resets:
                  \* in prompt-only mode, and when the server sends none
  MaxTurns, MaxCalls,  \* bounds: queries, and calls in a response
  MaxFaults       \* bound: crashes, cancels, failed saves, empty results and
                  \* throwing callbacks together

ASSUME ConversationAssumption ==
  /\ {MaxMessages, MaxTokens, ToolTokens, MaxIterations} \subseteq Nat
  /\ {MaxTurns, MaxCalls, MaxFaults} \subseteq Nat
  /\ MaxMessages > 1 /\ MaxTokens > 0
  /\ FallbackIds \in BOOLEAN

VARIABLES
  storage,    \* ContextConfig::storageType
  disk,       \* the persisted history
  buffer,     \* ContextEngine::memoryBuffer_
  pending,    \* the message AddMessage is about to persist, in a sequence
  pc, after,  \* the turn's next step, and the one after a pending save
  turn,       \* the number of queries so far; the last one is the current
  iteration, calls,                \* locals of ReactLoop
  cancelGeneration, myGeneration,  \* AgentWorker::cancelGeneration_ and its snapshot
  nextId,     \* the next tool call id
  answered,   \* history: the turns whose [FINAL] reached the caller
  unsaved,    \* history: the turns with a message whose save failed
  overwrites, \* history: saves that lost what the file held: it was unreadable,
              \* or was not written to its end
  cancelledAt,\* history: where the current turn was when it was cancelled
  faults      \* the number of disruptions so far

vars == <<storage, disk, buffer, pending, pc, after, turn, iteration, calls,
          cancelGeneration, myGeneration, nextId, answered, unsaved, overwrites,
          cancelledAt, faults>>

storeVars == <<storage, disk, unsaved, overwrites>>
turnVars == <<turn, iteration, calls, myGeneration, cancelledAt>>

-----------------------------------------------------------------------------
(* Messages *)

Text == SUBSET (0 .. MaxTurns)
Message == [role : {"user", "assistant", "tool"}, text : Text,
            calls : Seq(Nat), id : Nat]

User(t) == [role |-> "user", text |-> {t}, calls |-> <<>>, id |-> 0]
Assistant(text, ids) == [role |-> "assistant", text |-> text, calls |-> ids, id |-> 0]
ToolResult(i, text) == [role |-> "tool", text |-> text, calls |-> <<>>, id |-> i]

IsValidMessage(m) ==
  /\ m.text # {} \/ (m.role = "assistant" /\ m.calls # <<>>)
  /\ m.role = "tool" => m.id # 0

(* EstimateTokens is a heuristic on the characters; here a message weighs  *)
(* one token and a tool result ToolTokens more.                            *)
CalculateMessagesTokens(s) ==
  Len(s) + ToolTokens * Cardinality({i \in DOMAIN s : s[i].role = "tool"})

CanMerge(prev, cur) ==
  /\ prev.role = cur.role
  /\ prev.role # "tool"
  /\ prev.role = "assistant" => prev.calls = <<>> /\ cur.calls = <<>>

-----------------------------------------------------------------------------
(* The context window *)

(* The positions in S, in order: the k-th has k of them up to itself. *)
InOrder(S) ==
  [k \in 1 .. Cardinality(S) |-> CHOOSE p \in S : Cardinality({q \in S : q <= p}) = k]

(* What is left of s when only the positions in S are kept. *)
Only(s, S) == LET order == InOrder(S) IN [k \in 1 .. Cardinality(S) |-> s[order[k]]]

(* The first position of S after p, or one past the end. *)
NextIn(s, S, p) ==
  LET later == {q \in S : q > p}
  IN  IF later = {} THEN Len(s) + 1 ELSE CHOOSE q \in later : \A r \in later : q <= r

(* Runs of mergeable messages become one message with all their texts. *)
MergeMessages(s) ==
  LET starts == {p \in 1 .. Len(s) : p = 1 \/ ~CanMerge(s[p - 1], s[p])}
      order == InOrder(starts)
  IN  [k \in 1 .. Cardinality(starts) |->
         [s[order[k]] EXCEPT !.text =
            UNION {s[q].text : q \in order[k] .. NextIn(s, starts, order[k]) - 1}]]

(* A segment starts at every user message. *)
BuildMessageSegments(s) == {p \in 1 .. Len(s) : p = 1 \/ s[p].role = "user"}

CompressSegment_SummaryOnly(seg, budget) == <<Assistant({0}, <<>>)>>

(* The user message and a summary of the tool results and of the last text. *)
CompressSegment(seg, budget) ==
  LET told == {i \in DOMAIN seg : \/ seg[i].role = "tool"
                                  \/ /\ seg[i].role = "assistant"
                                     /\ seg[i].calls = <<>> /\ seg[i].text # {}}
  IN  IF CalculateMessagesTokens(seg) <= budget /\ Len(seg) <= MaxMessages THEN seg
      ELSE (IF seg[1].role = "user" THEN <<seg[1]>> ELSE <<>>)
           \o (IF told # {} THEN <<Assistant({0}, <<>>)>> ELSE <<>>)

DropOrphanToolCalls_Keep(s) == s

DropOrphanToolCalls(s) ==
  LET results == {s[i].id : i \in {j \in DOMAIN s : s[j].role = "tool"}}
      Answered(ids) == Only(ids, {k \in DOMAIN ids : ids[k] \in results})
      kept == [i \in DOMAIN s |-> [s[i] EXCEPT !.calls = Answered(@)]]
  IN  Only(kept, {i \in DOMAIN s : s[i].role = "assistant" => s[i].text # {} \/ kept[i].calls # <<>>})

DropUnpairedToolMessages(s) ==
  LET paired == DropOrphanToolCalls(s)
      ids == UNION {{paired[i].calls[k] : k \in DOMAIN paired[i].calls} : i \in DOMAIN paired}
  IN  Only(paired, {i \in DOMAIN paired : paired[i].role = "tool" => paired[i].id \in ids})

(* The oldest messages beyond maxMessages go. *)
CutOldest(s) ==
  IF Len(s) > MaxMessages /\ Len(s) > 1
  THEN SubSeq(s, Len(s) - MaxMessages + 1, Len(s)) ELSE s

(* Whole segments from the newest on while they fit, the first that does   *)
(* not fit compressed, the oldest of what is too many cut, and what lost   *)
(* its partner dropped.                                                    *)
ApplyContextLimits(s) ==
  LET merged == MergeMessages(s)
      segments == BuildMessageSegments(merged)
      From(p) == SubSeq(merged, p, Len(merged))
      Segment(p) == SubSeq(merged, p, NextIn(merged, segments, p) - 1)
      Fits(p) == /\ CalculateMessagesTokens(From(p)) <= MaxTokens
                 /\ \A q \in segments : q >= p => Len(Segment(q)) <= MaxMessages
      whole == {p \in segments : Fits(p)}
      from == NextIn(merged, whole, 0)
      rest == {p \in segments : p < from}
      room == MaxTokens - CalculateMessagesTokens(From(from))
      boundary == CHOOSE p \in rest : \A q \in rest : q <= p
      selected == (IF rest = {} THEN <<>>
                   ELSE CompressSegment(Segment(boundary), IF room > 1 THEN room ELSE 1))
                  \o From(from)
  IN  DropUnpairedToolMessages(CutOldest(selected))

(* What ReactLoop takes at the top of an iteration and sends; the turns of *)
(* a session are serial, so the buffer does not change before the request. *)
GetContextWindow == ApplyContextLimits(buffer)

-----------------------------------------------------------------------------
(* The request body.  An entry is a message with the set of the calls whose *)
(* results it carries.                                                      *)

RuntimeNote == [role |-> "system", text |-> {0}, calls |-> <<>>, id |-> 0]

Entry(role, text, ids, results) ==
  [role |-> role, text |-> text, calls |-> ids, results |-> results]

(* The entries that start at the positions in starts, each with the texts  *)
(* and the results of the messages up to the next start.                   *)
Folded(s, starts, native) ==
  LET order == InOrder(starts)
      Span(k) == order[k] .. NextIn(s, starts, order[k]) - 1
  IN  [k \in 1 .. Cardinality(starts) |->
         Entry(IF s[order[k]].role = "tool" THEN "user" ELSE s[order[k]].role,
               UNION {s[q].text : q \in Span(k)},
               IF native THEN s[order[k]].calls ELSE <<>>,
               {s[q].id : q \in {p \in Span(k) : s[p].role = "tool"}})]

(* Prompt-only mode: calls become text, a result becomes or extends a user *)
(* entry.                                                                  *)
FallbackFormat(s) ==
  Folded(s, {p \in 1 .. Len(s) : ~(s[p].role = "tool" /\ p > 1 /\ s[p - 1].role \in {"user", "tool"})},
         FALSE)

OpenAiFormat(s, native) ==
  IF native
  THEN [i \in DOMAIN s |-> Entry(s[i].role, s[i].text, s[i].calls,
                                 IF s[i].role = "tool" THEN {s[i].id} ELSE {})]
  ELSE FallbackFormat(s)

(* System messages move to the top-level field; consecutive results become *)
(* one user entry of tool_result blocks.                                   *)
AnthropicFormat(s, native) ==
  LET spoken == Only(s, {p \in 1 .. Len(s) : s[p].role # "system"})
      starts == {p \in 1 .. Len(spoken) :
                   ~(spoken[p].role = "tool" /\ p > 1 /\ spoken[p - 1].role = "tool")}
  IN  IF native
      THEN Folded(spoken, starts, TRUE)
      ELSE FallbackFormat(spoken)

TrimOrphanTrailingToolCalls(s) ==
  LET kept == {p \in DOMAIN s : s[p].role # "assistant" \/ s[p].calls = <<>>}
      last == IF kept = {} THEN 0 ELSE CHOOSE p \in kept : \A q \in kept : q <= p
  IN  SubSeq(s, 1, last)

-----------------------------------------------------------------------------
(* Persistence *)

Disrupt == faults < MaxFaults /\ faults' = faults + 1

(* AddMessage buffers a valid message; the save is the next step. *)
AddMessage(m, next) ==
  IF IsValidMessage(m)
  THEN /\ buffer' = Append(buffer, m)
       /\ pending' = <<m>>
       /\ pc' = "save" /\ after' = next
  ELSE /\ pc' = next
       /\ UNCHANGED <<buffer, pending, after>>

(* The file is read, extended, written beside and renamed: a crash before  *)
(* the rename leaves the old file.  A file that cannot be opened for       *)
(* reading counts as an empty history; so does, from then on, one that was *)
(* not written to its end, which is renamed and reported as saved.         *)
JsonSaveMessage(m) ==
  \/ /\ disk' = Append(disk, m)
     /\ UNCHANGED <<overwrites, faults>>
  \/ /\ Disrupt
     /\ disk' \in {<<m>>, <<>>}
     /\ overwrites' = overwrites + 1

(* One INSERT. The content is stripped of escape sequences and control     *)
(* characters; a text of nothing else is left out.                         *)
DbSaveMessage(m) ==
  /\ disk' = Append(disk, m)
  /\ UNCHANGED <<overwrites, faults>>

(* AddMessage ignores the result of the save. *)
SaveMessage ==
  /\ pc = "save"
  /\ \/ /\ \/ storage = "json" /\ JsonSaveMessage(pending[1])
           \/ storage = "db" /\ DbSaveMessage(pending[1])
        /\ UNCHANGED unsaved
     \/ /\ Disrupt
        /\ unsaved' = unsaved \cup {turn}
        /\ UNCHANGED <<disk, overwrites>>
  /\ pending' = <<>> /\ pc' = after /\ after' = "idle"
  /\ UNCHANGED <<storage, buffer, turnVars, cancelGeneration, nextId, answered>>

(* What a storage's LoadHistory may return: nothing when it cannot read.   *)
LoadHistory == {disk, <<>>}

(* ContextEngine::Initialize of the session's next entry.  Its result is   *)
(* ignored: when the history cannot be read the session starts with none,  *)
(* and what it adds is appended to the history it has not seen.            *)
Initialize ==
  /\ pc = "down"
  /\ \E history \in LoadHistory : buffer' = TrimOrphanTrailingToolCalls(history)
  /\ pc' = "idle"
  /\ UNCHANGED <<storeVars, pending, after, turnVars, cancelGeneration, nextId, answered, faults>>

(* The process dies: only the persisted history and, unless the server     *)
(* hands them out, the call ids survive.                                   *)
Crash ==
  /\ pc # "down" /\ Disrupt
  /\ pc' = "down" /\ after' = "idle"
  /\ buffer' = <<>> /\ pending' = <<>> /\ calls' = <<>>
  /\ iteration' = 0 /\ cancelGeneration' = 0 /\ myGeneration' = 0 /\ cancelledAt' = "none"
  /\ nextId' = IF FallbackIds THEN 1 ELSE nextId
  /\ UNCHANGED <<storeVars, turn, answered>>

-----------------------------------------------------------------------------
(* The turn *)

IsCancelled_OffByOne == cancelGeneration > myGeneration + 1

IsCancelled == cancelGeneration > myGeneration

(* Agent::Invoke persists the query before the worker takes its snapshot. *)
Invoke ==
  /\ pc = "idle" /\ turn < MaxTurns
  /\ turn' = turn + 1
  /\ AddMessage(User(turn + 1), "snapshot")
  /\ UNCHANGED <<storeVars, iteration, calls, myGeneration, cancelledAt,
                 cancelGeneration, nextId, answered, faults>>

TakeSnapshot ==
  /\ pc = "snapshot"
  /\ myGeneration' = cancelGeneration
  /\ iteration' = 0 /\ cancelledAt' = "none" /\ pc' = "top"
  /\ UNCHANGED <<storeVars, buffer, pending, after, turn, calls,
                 cancelGeneration, nextId, answered, faults>>

(* Every return of ReactLoop, and an exception out of a callback. *)
EndTurn ==
  /\ pc' = "idle"
  /\ calls' = <<>> /\ iteration' = 0 /\ cancelledAt' = "none"
  /\ UNCHANGED <<storeVars, buffer, pending, after, turn, myGeneration,
                 cancelGeneration, nextId>>

LoopTop ==
  /\ pc = "top"
  /\ \/ /\ iteration >= MaxIterations \/ IsCancelled
        /\ EndTurn
     \/ /\ iteration < MaxIterations /\ ~IsCancelled
        /\ pc' = "gate"
        /\ UNCHANGED <<storeVars, buffer, pending, after, turn, iteration, calls, myGeneration,
                       cancelledAt, cancelGeneration, nextId>>
  /\ UNCHANGED <<answered, faults>>

(* The front gate of CallModelStream. *)
CallModelStream ==
  /\ pc = "gate"
  /\ \/ IsCancelled /\ EndTurn
     \/ /\ ~IsCancelled
        /\ pc' = "model"
        /\ UNCHANGED <<storeVars, buffer, pending, after, turnVars, cancelGeneration, nextId>>
  /\ UNCHANGED <<answered, faults>>

ModelFails_TryAgain ==
  /\ pc = "model" /\ pc' = "top"
  /\ UNCHANGED <<storeVars, buffer, pending, after, turnVars, cancelGeneration, nextId, answered, faults>>

(* An error (an exception of the adapter included), a cancel and an empty  *)
(* response end the turn without an answer.                                *)
ModelFails ==
  /\ pc = "model"
  /\ EndTurn
  /\ UNCHANGED <<answered, faults>>

ModelAnswers_ShownFirst ==
  /\ pc = "model" /\ ~IsCancelled
  /\ answered' = answered \cup {turn}
  /\ AddMessage(Assistant({turn}, <<>>), "final")
  /\ UNCHANGED <<storeVars, turnVars, cancelGeneration, nextId, faults>>

ModelAnswers ==
  /\ pc = "model" /\ ~IsCancelled
  /\ AddMessage(Assistant({turn}, <<>>), "final")
  /\ UNCHANGED <<storeVars, turnVars, cancelGeneration, nextId, answered, faults>>

ModelCallsTools ==
  /\ pc = "model" /\ ~IsCancelled
  /\ \E n \in 1 .. MaxCalls, text \in {{}, {turn}} :
       LET ids == [k \in 1 .. n |-> nextId + k - 1] IN
         /\ calls' = ids
         /\ nextId' = nextId + n
         /\ AddMessage(Assistant(text, ids), "tools")
  /\ UNCHANGED <<storeVars, turn, iteration, myGeneration, cancelledAt,
                 cancelGeneration, answered, faults>>

(* ExecuteTool turns exceptions into text; a tool may return the empty     *)
(* string, and then AddMessage refuses the result.  There is no cancel     *)
(* check between two tools.                                                *)
ExecuteTool ==
  /\ pc = "tools" /\ calls # <<>>
  /\ \/ AddMessage(ToolResult(Head(calls), {turn}), "tools") /\ UNCHANGED faults
     \/ AddMessage(ToolResult(Head(calls), {}), "tools") /\ Disrupt
  /\ calls' = Tail(calls)
  /\ UNCHANGED <<storeVars, turn, iteration, myGeneration, cancelledAt,
                 cancelGeneration, nextId, answered>>

NextIteration ==
  /\ pc = "tools" /\ calls = <<>>
  /\ iteration' = iteration + 1 /\ pc' = "top"
  /\ UNCHANGED <<storeVars, buffer, pending, after, turn, calls, myGeneration, cancelledAt,
                 cancelGeneration, nextId, answered, faults>>

(* The [FINAL] tag, after the answer was persisted. *)
Final ==
  /\ pc = "final"
  /\ answered' = answered \cup {turn}
  /\ EndTurn
  /\ UNCHANGED faults

(* The caller's stream callback throws out of ReactLoop. *)
CallbackThrows ==
  /\ pc \in {"top", "gate", "model", "tools", "final"}
  /\ Disrupt
  /\ EndTurn
  /\ UNCHANGED answered

Cancel ==
  /\ pc # "down"
  /\ Disrupt
  /\ cancelGeneration' = cancelGeneration + 1
  /\ cancelledAt' = IF pc \in {"top", "gate", "model", "tools", "final"} /\ cancelledAt = "none"
                    THEN pc ELSE cancelledAt
  /\ UNCHANGED <<storeVars, buffer, pending, pc, after, turn, iteration, calls, myGeneration,
                 nextId, answered>>

-----------------------------------------------------------------------------
Init ==
  /\ storage \in {"json", "db"}
  /\ disk = <<>> /\ buffer = <<>> /\ pending = <<>>
  /\ pc = "idle" /\ after = "idle"
  /\ turn = 0 /\ iteration = 0 /\ calls = <<>>
  /\ cancelGeneration = 0 /\ myGeneration = 0 /\ nextId = 1
  /\ answered = {} /\ unsaved = {} /\ overwrites = 0
  /\ cancelledAt = "none" /\ faults = 0

Step == \/ SaveMessage \/ TakeSnapshot \/ LoopTop \/ CallModelStream
        \/ ModelFails \/ ModelAnswers \/ ModelCallsTools
        \/ ExecuteTool \/ NextIteration \/ Final

Next == Step \/ Invoke \/ CallbackThrows \/ Cancel \/ Crash \/ Initialize

Spec == Init /\ [][Next]_vars /\ WF_vars(Step)

-----------------------------------------------------------------------------
(* Properties *)

(* Type invariant of the conversation's variables. *)
TypeOK ==
  /\ storage \in {"json", "db"}
  /\ {disk, buffer, pending} \subseteq Seq(Message)
  /\ {pc, after, cancelledAt} \subseteq {"idle", "down", "save", "snapshot", "top", "gate",
                                         "model", "tools", "final", "none"}
  /\ iteration \in 0 .. MaxIterations
  /\ {turn, nextId, cancelGeneration, myGeneration, overwrites, faults} \subseteq Nat
  /\ calls \in Seq(Nat)
  /\ answered \subseteq 1 .. MaxTurns /\ unsaved \subseteq 1 .. MaxTurns

(* The calls of an assistant message are followed at once by exactly their *)
(* results, and a result follows its call: what the chat APIs require.     *)
Paired(s) ==
  /\ \A i \in DOMAIN s : s[i].calls # <<>> =>
       LET n == Len(s[i].calls) IN
         /\ i + n <= Len(s)
         /\ \A k \in 1 .. n : s[i + k].role = "tool" /\ s[i + k].results = {s[i].calls[k]}
  /\ \A j \in DOMAIN s : s[j].role = "tool" =>
       \E i \in 1 .. j - 1 : j <= i + Len(s[i].calls)

(* Whatever was interrupted before (a crash or an exception between two    *)
(* tools, a refused empty result, a failed save) and however the window is *)
(* cut, every request is one its API accepts. OpenAI: calls and results in *)
(* pairs. Anthropic: a message with tool_use blocks is followed by one user*)
(* message with exactly the results of its calls, and none is a system     *)
(* message. Prompt-only mode: nothing refers to calls and no result's text *)
(* is lost. The first two need ids that are never used again (the server's,*)
(* not FallbackIds).                                                       *)
RequestWellFormed ==
  pc = "gate" =>
    LET w == Append(GetContextWindow, RuntimeNote)
        native == AnthropicFormat(w, TRUE)
    IN  /\ Paired(OpenAiFormat(w, TRUE))
        /\ \A i \in DOMAIN native :
             /\ native[i].role # "system"
             /\ LET due == IF i = 1 THEN <<>> ELSE native[i - 1].calls IN
                  native[i].results = {due[k] : k \in DOMAIN due}
        /\ native # <<>> => native[Len(native)].calls = <<>>
        /\ \A r \in {OpenAiFormat(w, FALSE), AnthropicFormat(w, FALSE)} :
             /\ \A i \in DOMAIN r : r[i].role # "tool" /\ r[i].calls = <<>>
             /\ \A j \in DOMAIN w : w[j].role = "tool" =>
                  \E i \in DOMAIN r : r[i].role = "user" /\ w[j].id \in r[i].results

(* The window has at most maxMessages messages and still the latest query, *)
(* which the comment in ReactLoop says is always retained: the cut, the    *)
(* compression and the repair of pairs together lose neither.              *)
WindowKeepsQuery ==
  pc = "gate" => LET w == GetContextWindow IN
    /\ Len(w) <= MaxMessages
    /\ \E i \in DOMAIN w : w[i].role = "user" /\ turn \in w[i].text

(* An answer the caller has seen is in the persisted history, so that a    *)
(* restart does not forget it, unless its save failed or the file could,   *)
(* at that or a later save, not be read or not be written to its end.      *)
ShownAnswerSurvives ==
  \A t \in answered : \/ t \in unsaved \/ overwrites > 0
                      \/ \E i \in DOMAIN disk : disk[i].role = "assistant" /\ t \in disk[i].text

(* After a cancel the turn sends no further request to the model.          *)
CancelStopsRequests == pc = "model" => cancelledAt \in {"none", "model"}

(* A turn that was not cut off by a crash ends.                            *)
TurnEnds == pc = "snapshot" ~> pc \in {"idle", "down"}
=============================================================================
