------------------------------- MODULE ModelCall -------------------------------
(***************************************************************************)
(* One call of a model adapter, OpenAIModel::Invoke or                     *)
(* AnthropicModel::Invoke: the retry loop, the streaming HTTP transfer of  *)
(* each attempt, the SSE parser that assembles text and tool calls from    *)
(* lines that chunks may cut, and the cancel that another thread sets.     *)
(*                                                                         *)
(* A text delta is its number; the arguments of a call are the sequence of *)
(* its fragments' numbers, and 0 stands for the text "{}".                 *)
(***************************************************************************)
EXTENDS Integers, Sequences, FiniteSets

CONSTANTS
  Providers,             \* the adapters a run looks at
  MaxRetries,            \* RetryPolicy::maxRetries
  BaseDelay, MaxDelay,   \* RetryPolicy::baseDelayMs, maxDelayMs
  IntLimit,              \* an int holds -IntLimit .. IntLimit - 1
  MaxBlocks, MaxParts    \* bounds: blocks of a response, deltas of a block

ASSUME ModelCallAssumption ==
  /\ Providers \subseteq {"openai", "anthropic"}
  /\ {MaxRetries, BaseDelay, MaxDelay, MaxBlocks, MaxParts} \subseteq Nat
  /\ IntLimit \in Nat \ {0} /\ BaseDelay <= MaxDelay /\ MaxDelay < IntLimit

VARIABLES
  provider,
  phase,      \* "top" of the retry loop, "transfer", "sleep" or "done"
  attempt,
  delay,      \* what ComputeBackoffDelayMs returned last
  cancel,     \* what shouldCancel() answers
  blocks,     \* the server's response so far: per block its kind and number of deltas
  ended,      \* the server has sent its finish reason
  held,       \* a line of the stream whose end is not yet received
  fullText,   \* StreamContext: the text deltas parsed
  partial,    \* StreamContext: the tool calls by slot
  finishReason,
  shown,      \* what onChunk passed to the user: attempt and number of each delta
  result      \* the ModelResponse

vars == <<provider, phase, attempt, delay, cancel, blocks, ended, held, fullText, partial,
          finishReason, shown, result>>

None == [reason |-> "none", calls |-> <<>>]

-----------------------------------------------------------------------------
(* Backoff *)

(* int arithmetic wraps around. *)
Wrap(n) == ((n + IntLimit) % (2 * IntLimit)) - IntLimit

Doubled[n \in Nat] == IF n = 0 THEN BaseDelay ELSE Wrap(2 * Doubled[n - 1])

(* The set of the delays: a jitter of up to half the capped delay, capped. *)
(* A delay that wrapped to a negative number passes the cap, and a jitter  *)
(* between 0 and a negative number may be anything.                        *)
ComputeBackoffDelayMs(n) ==
  LET capped == IF Doubled[n] < MaxDelay THEN Doubled[n] ELSE MaxDelay
  IN  IF capped < 0 THEN -IntLimit .. MaxDelay
      ELSE {IF capped + j < MaxDelay THEN capped + j ELSE MaxDelay : j \in 0 .. capped \div 2}

-----------------------------------------------------------------------------
(* The stream parsers: the effect of one complete line on the context.     *)

(* Mutant: the index of a delta is ignored, it goes to the newest call.    *)
OpenAiSlots_Newest(slots, e) ==
  IF e.slot \in DOMAIN slots
  THEN [slots EXCEPT ![Len(slots)] = @ \o e.parts]
  ELSE Append(slots, e.parts)

(* slot = ctx.partialToolCalls[idx]: the index counts the tool calls.      *)
OpenAiSlots(slots, e) ==
  IF e.slot \in DOMAIN slots
  THEN [slots EXCEPT ![e.slot] = @ \o e.parts]
  ELSE Append(slots, e.parts)

(* A tool_use block starts with its input {} as text; a delta names the    *)
(* block, counting text blocks, and is dropped when no tool has that index.*)
AnthropicSlots(slots, e) ==
  CASE e.kind = "start" -> Append(slots, <<0>>)
    [] e.kind = "call"  -> IF e.block \in DOMAIN slots
                           THEN [slots EXCEPT ![e.block] = @ \o e.parts]
                           ELSE slots
    [] OTHER            -> slots

(* What the server can send next: another delta of the block it is in (of  *)
(* any block, in the OpenAI stream), the start of a block, or the finish.  *)
ToolSlot(b) == Cardinality({c \in DOMAIN blocks : c <= b /\ blocks[c].kind = "call"})

Event(kind, b, parts) ==
  [kind |-> kind, block |-> b, slot |-> ToolSlot(b) + (IF b > Len(blocks) THEN 1 ELSE 0),
   parts |-> parts]

Deltas ==
  {Event(blocks[b].kind, b, <<blocks[b].parts + 1>>) :
     b \in {c \in DOMAIN blocks : /\ blocks[c].parts < MaxParts
                                  /\ provider = "anthropic" => c = Len(blocks)}}

Starts ==
  IF Len(blocks) = MaxBlocks THEN {}
  ELSE {Event("text", Len(blocks) + 1, <<>>), Event("start", Len(blocks) + 1, <<>>)}

Events == Deltas \cup Starts \cup {Event("finish", 0, <<>>)}

(* The server's own record of what it has sent. *)
Sent(e) ==
  CASE e.kind = "finish"    -> blocks
    [] e.block > Len(blocks) -> Append(blocks, [kind |-> IF e.kind = "text" THEN "text" ELSE "call",
                                                parts |-> 0])
    [] OTHER                -> [blocks EXCEPT ![e.block].parts = @ + 1]

(* ProcessSSEChunk and ProcessAnthropicSSEChunk on the complete lines.     *)
TextOf(lines) ==
  SelectSeq([i \in DOMAIN lines |-> IF lines[i].kind = "text" THEN <<lines[i].block, lines[i].parts>>
                                    ELSE <<0, <<>>>>],
            LAMBDA x : x[2] # <<>>)

Slots(slots, e) ==
  IF provider = "anthropic" THEN AnthropicSlots(slots, e)
  ELSE IF e.kind \in {"start", "call"} THEN OpenAiSlots(slots, e) ELSE slots

Assembled(lines) ==
  CASE Len(lines) = 0 -> partial
    [] Len(lines) = 1 -> Slots(partial, lines[1])
    [] OTHER          -> Slots(Slots(partial, lines[1]), lines[2])

(* Mutant: retries stream too. *)
ProcessSSEChunk_EveryAttempt(lines) ==
  /\ fullText' = fullText \o TextOf(lines)
  /\ partial' = Assembled(lines)
  /\ finishReason' = IF \E i \in DOMAIN lines : lines[i].kind = "finish" THEN "stop" ELSE finishReason
  /\ shown' = shown \o [i \in DOMAIN TextOf(lines) |-> <<attempt, TextOf(lines)[i]>>]

ProcessSSEChunk(lines) ==
  /\ fullText' = fullText \o TextOf(lines)
  /\ partial' = Assembled(lines)
  /\ finishReason' = IF \E i \in DOMAIN lines : lines[i].kind = "finish" THEN "stop" ELSE finishReason
  /\ shown' = IF attempt > 0 THEN shown
              ELSE shown \o [i \in DOMAIN TextOf(lines) |-> <<attempt, TextOf(lines)[i]>>]

-----------------------------------------------------------------------------
(* The attempts *)

Return(reason, calls) ==
  /\ phase' = "done"
  /\ result' = [reason |-> reason, calls |-> calls]

transferVars == <<blocks, ended, held, fullText, partial, finishReason>>

(* The top of the retry loop: the cancel is checked, then DoInvokeOnce     *)
(* starts with a fresh context.                                            *)
TryAttempt ==
  /\ phase = "top"
  /\ \/ /\ cancel
        /\ Return("cancelled", <<>>)
        /\ UNCHANGED transferVars
     \/ /\ ~cancel
        /\ phase' = "transfer"
        /\ blocks' = <<>> /\ ended' = FALSE /\ held' = <<>>
        /\ fullText' = <<>> /\ partial' = <<>> /\ finishReason' = ""
        /\ UNCHANGED result
  /\ UNCHANGED <<provider, attempt, delay, cancel, shown>>

(* A chunk completes the held line and brings one more event, whole or cut.*)
(* shouldCancel is polled after the parse and aborts the transfer.         *)
Chunk ==
  /\ phase = "transfer" /\ ~ended
  /\ \E e \in Events, cut \in BOOLEAN :
       /\ blocks' = Sent(e)
       /\ ended' = (e.kind = "finish")
       /\ held' = IF cut THEN <<e>> ELSE <<>>
       /\ ProcessSSEChunk(held \o IF cut THEN <<>> ELSE <<e>>)
  /\ IF cancel THEN Return("cancelled", <<>>) ELSE UNCHANGED <<phase, result>>
  /\ UNCHANGED <<provider, attempt, delay, cancel>>

(* The rest of the last line. *)
LastChunk ==
  /\ phase = "transfer" /\ ended /\ held # <<>>
  /\ ProcessSSEChunk(held) /\ held' = <<>>
  /\ IF cancel THEN Return("cancelled", <<>>) ELSE UNCHANGED <<phase, result>>
  /\ UNCHANGED <<provider, attempt, delay, cancel, blocks, ended>>

(* "{}" when nothing arrived; the Anthropic adapter also falls back to it  *)
(* when what arrived does not parse, as "{}" followed by more does not.    *)
ArgumentsJson(args) ==
  IF args = <<>> \/ (provider = "anthropic" /\ Len(args) > 1 /\ args[1] = 0) THEN <<0>> ELSE args

(* The server closes the connection in order.  The adapter asks neither for *)
(* a finish reason nor for the rest of the held line, which is dropped.    *)
Succeed ==
  /\ phase = "transfer"
  /\ Return(IF provider = "openai" /\ finishReason = "" THEN "stop" ELSE finishReason,
            [k \in DOMAIN partial |-> ArgumentsJson(partial[k])])
  /\ UNCHANGED <<provider, attempt, delay, cancel, transferVars, shown>>

(* A retryable failure on the last attempt is returned as it is; before    *)
(* that the loop sleeps.                                                   *)
Retry ==
  IF attempt = MaxRetries
  THEN Return("error", <<>>) /\ UNCHANGED delay
  ELSE /\ phase' = "sleep"
       /\ delay' \in ComputeBackoffDelayMs(attempt)
       /\ UNCHANGED result

(* The connection fails, before or in the middle of the response, or the   *)
(* response is an HTTP error.                                              *)
Fail ==
  /\ phase = "transfer"
  /\ \/ Retry
     \/ Return("error", <<>>) /\ UNCHANGED delay
  /\ UNCHANGED <<provider, attempt, cancel, transferVars, shown>>

(* Mutant: the last attempt is never reached. *)
SleepBackoff_NeverFinal ==
  /\ phase = "sleep"
  /\ attempt' = IF attempt + 1 = MaxRetries THEN attempt ELSE attempt + 1
  /\ phase' = "top"
  /\ UNCHANGED <<provider, delay, cancel, transferVars, shown, result>>

(* The sleep is not interrupted by a cancel. *)
SleepBackoff ==
  /\ phase = "sleep"
  /\ attempt' = attempt + 1
  /\ phase' = "top"
  /\ UNCHANGED <<provider, delay, cancel, transferVars, shown, result>>

(* AgentWorker::Cancel on another thread. *)
Cancel ==
  /\ ~cancel /\ phase # "done"
  /\ cancel' = TRUE
  /\ UNCHANGED <<provider, phase, attempt, delay, transferVars, shown, result>>

Init ==
  /\ provider \in Providers
  /\ phase = "top" /\ attempt = 0 /\ delay = 0 /\ cancel = FALSE
  /\ blocks = <<>> /\ ended = FALSE /\ held = <<>>
  /\ fullText = <<>> /\ partial = <<>> /\ finishReason = ""
  /\ shown = <<>> /\ result = None

Step == TryAttempt \/ Chunk \/ LastChunk \/ Succeed \/ Fail \/ SleepBackoff

Next == Step \/ Cancel

(* The adapters set no timeout: that a transfer goes on is the server's.   *)
Spec == Init /\ [][Next]_vars /\ WF_vars(Step)

-----------------------------------------------------------------------------
(* Properties *)

(* Type invariant of the call: attempts within the policy, a delay an int. *)
TypeOK ==
  /\ provider \in Providers
  /\ phase \in {"top", "transfer", "sleep", "done"}
  /\ attempt \in 0 .. MaxRetries
  /\ delay \in -IntLimit .. MaxDelay
  /\ cancel \in BOOLEAN /\ ended \in BOOLEAN
  /\ held \in Seq([kind : {"text", "start", "call", "finish"}, block : Nat, slot : Nat,
                   parts : Seq(Nat)])
  /\ partial \in Seq(Seq(Nat))

(* What the user has seen is what the first attempt has parsed, each delta *)
(* once and in its order: a retry streams nothing over it.  And the text of*)
(* an attempt is what the server sent in it: no delta is missing between   *)
(* two others, however chunks cut the lines, and none at all once the      *)
(* finish reason was parsed.                                               *)
StreamedOnce ==
  /\ \A i \in DOMAIN shown : shown[i][1] = 0
  /\ attempt = 0 => [i \in DOMAIN shown |-> shown[i][2]] = fullText
  /\ \A b \in DOMAIN blocks : blocks[b].kind = "text" =>
       LET got == SelectSeq(fullText, LAMBDA x : x[1] = b) IN
         /\ got = [n \in 1 .. Len(got) |-> <<b, <<n>>>>]
         /\ finishReason # "" => Len(got) = blocks[b].parts

(* The fragments the server sent for each tool call of its response.       *)
Fragments ==
  LET called == SelectSeq(blocks, LAMBDA b : b.kind = "call")
  IN  [k \in DOMAIN called |-> [n \in 1 .. called[k].parts |-> n]]

(* Each call of a successful response has its own fragments, in order and  *)
(* from the first, "{}" for none; and when the finish reason was parsed    *)
(* every call is there with all of its fragments.  Without one the response*)
(* broke off in order and the calls may be cut.                            *)
ArgumentsComplete(p) ==
  provider = p /\ phase = "done" /\ result.reason \in {"stop", ""} =>
    /\ Len(result.calls) <= Len(Fragments)
    /\ \A k \in DOMAIN result.calls :
         \/ result.calls[k] = <<0>>
         \/ /\ Len(result.calls[k]) <= Len(Fragments[k])
            /\ result.calls[k] = SubSeq(Fragments[k], 1, Len(result.calls[k]))
    /\ finishReason # "" =>
         result.calls = [k \in DOMAIN Fragments |->
                           IF Fragments[k] = <<>> THEN <<0>> ELSE Fragments[k]]

(* However chunks cut the lines, wherever the stream is closed and however *)
(* the deltas of parallel calls interleave, each call gets exactly its own *)
(* argument fragments in order.                                            *)
OpenAiArgumentsComplete == ArgumentsComplete("openai")

(* The call ends, with at most maxRetries retries, and every backoff is    *)
(* within 0 .. maxDelayMs as long as the doubled delay fits an int.        *)
CallEnds ==
  /\ <>(phase = "done")
  /\ []( /\ attempt <= MaxRetries
         /\ phase = "sleep" /\ BaseDelay * 2^attempt < IntLimit => delay \in 0 .. MaxDelay)

-----------------------------------------------------------------------------
(* Statements of the documents that the code does not meet.                *)

(* The Anthropic adapter's comments: inputJson is accumulated via          *)
(* input_json_delta.                                                       *)
AnthropicArgumentsComplete == ArgumentsComplete("anthropic")

(* The model and curl designs and the comments of both adapters: an attempt*)
(* that is retried has pushed no fragment to the user.                     *)
NoHalfResponseShown == phase = "sleep" => shown = <<>>

(* The model design: delay = min(baseDelayMs * 2^attempt + jitter,         *)
(* maxDelayMs), for any maxRetries.                                        *)
BackoffInRange == phase = "sleep" => delay \in 0 .. MaxDelay
=============================================================================
