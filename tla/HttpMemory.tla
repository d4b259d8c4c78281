------------------------------- MODULE HttpMemory -------------------------------
(***************************************************************************)
(* HttpMemoryRuntime: calls of several threads to a memory server, each a  *)
(* sequence of HTTP attempts with backoff behind a circuit breaker that    *)
(* all of them share. A reply may be lost after the server has acted.      *)
(*                                                                         *)
(* Time is the cooldown that is left; the failure counter saturates where  *)
(* only "at least the threshold" is asked of it. The failure statistics    *)
(* are left out.                                                           *)
(***************************************************************************)
EXTENDS Integers, FiniteSets

CONSTANTS
  Threads,
  MaxRetries,    \* serverMaxRetries
  Threshold,     \* serverCircuitThreshold
  Cooldown,      \* serverCircuitCooldownSeconds, in ticks
  Entities,      \* external: ids in the server's memory
  EventEntities, \* those whose type is in eventEntityTypes
  Packages       \* external: the context packages the server may send

ASSUME HttpMemoryAssumption ==
  /\ {MaxRetries, Cooldown} \subseteq Nat /\ Threshold \in Nat \ {0}
  /\ EventEntities \subseteq Entities
  /\ Packages \subseteq [entities : SUBSET Entities, relations : SUBSET (Entities \X Entities),
                         lines : SUBSET [tokens : SUBSET Entities, prose : SUBSET Entities],
                         expired : SUBSET Entities]

VARIABLES
  failures,   \* circuit_.consecutiveFailures
  openFor,    \* how long openUntilMs is ahead of the clock
  healthy,    \* the server answers every request from now on
  pc, op,     \* per thread: control, and the operation it is in
  attempt,
  result,     \* per thread: what the last call returned
  stored,     \* history, per thread: times the server acted on the call
  context     \* per thread: the package BuildContext returned, and the server's

vars == <<failures, openFor, healthy, pc, op, attempt, result, stored, context>>

Writes == {"append", "write"}     \* AppendEvent, WritePayload
Reads == {"context", "read"}      \* BuildContext, SearchMemory, Consolidate; ReadPayload, GetStats
NoPackage == [entities |-> {}, relations |-> {}, lines |-> {}, expired |-> {}]
NoContext == [server |-> NoPackage, shown |-> NoPackage]

-----------------------------------------------------------------------------
(* FilterExpiredEventEntities. A package lists entities and relations, whose *)
(* ends it need not list. Of a line of its text matter the ids that are    *)
(* tokens of a bullet and those it names otherwise: in a line that is no   *)
(* bullet, or next to a punctuation mark. "expired" has the ids older than *)
(* eventEntityTtlDays by now.                                              *)

Names(r, ids) == r[1] \in ids \/ r[2] \in ids

FilterExpired_KeepRelations(pkg) ==
  LET dropped == pkg.entities \cap pkg.expired \cap EventEntities
  IN  [pkg EXCEPT !.entities = @ \ dropped, !.lines = {l \in @ : l.tokens \cap dropped = {}}]

(* The expired event entities the package lists go, with the relations that*)
(* have one as an end and the bullets that have one as a token.            *)
FilterExpired(pkg) ==
  LET dropped == pkg.entities \cap pkg.expired \cap EventEntities
  IN  [pkg EXCEPT !.entities = @ \ dropped,
                  !.relations = {r \in @ : ~Names(r, dropped)},
                  !.lines = {l \in @ : l.tokens \cap dropped = {}}]

-----------------------------------------------------------------------------
Saturated(n) == IF n > Threshold THEN Threshold ELSE n

Return(t, r) ==
  /\ pc' = [pc EXCEPT ![t] = "idle"]
  /\ result' = [result EXCEPT ![t] = r]

Call_SkipRearms(t, o) ==
  /\ pc[t] = "idle"
  /\ op' = [op EXCEPT ![t] = o] /\ attempt' = [attempt EXCEPT ![t] = 0]
  /\ stored' = [stored EXCEPT ![t] = 0] /\ context' = [context EXCEPT ![t] = NoContext]
  /\ IF openFor > 0 THEN Return(t, "skipped") /\ openFor' = Cooldown
     ELSE pc' = [pc EXCEPT ![t] = "send"] /\ result' = [result EXCEPT ![t] = "none"] /\ UNCHANGED openFor
  /\ UNCHANGED <<failures, healthy>>

(* The entry of HttpPost and HttpGet: an open circuit ends the call.       *)
Call(t, o) ==
  /\ pc[t] = "idle"
  /\ op' = [op EXCEPT ![t] = o] /\ attempt' = [attempt EXCEPT ![t] = 0]
  /\ stored' = [stored EXCEPT ![t] = 0] /\ context' = [context EXCEPT ![t] = NoContext]
  /\ IF openFor > 0 THEN Return(t, "skipped")
     ELSE pc' = [pc EXCEPT ![t] = "send"] /\ result' = [result EXCEPT ![t] = "none"]
  /\ UNCHANGED <<failures, openFor, healthy>>

Act(t) == stored' = [stored EXCEPT ![t] = IF op[t] \in Writes THEN @ + 1 ELSE @]

(* Status 200 and a good envelope.                                         *)
Answer(t) ==
  /\ pc[t] = "send"
  /\ Act(t)
  /\ failures' = 0
  /\ Return(t, "ok")
  /\ IF op[t] = "context"
     THEN \E pkg \in Packages : context' = [context EXCEPT ![t] = [server |-> pkg, shown |-> FilterExpired(pkg)]]
     ELSE UNCHANGED context
  /\ UNCHANGED <<openFor, healthy, op, attempt>>

Reject_AsSuccess(t) ==
  /\ pc[t] = "send" /\ ~healthy
  /\ failures' = 0
  /\ Return(t, "ok")
  /\ UNCHANGED <<openFor, healthy, op, attempt, stored, context>>

(* Status 200 with ok = false or no JSON, or another status below 400,     *)
(* which the server may have acted on: a failure to the caller, a success  *)
(* to the circuit.                                                         *)
Reject(t) ==
  /\ pc[t] = "send" /\ ~healthy
  /\ Act(t) \/ UNCHANGED stored
  /\ failures' = 0
  /\ Return(t, "failed")
  /\ UNCHANGED <<openFor, healthy, op, attempt, context>>

(* A permanent error (4xx other than 429): no retry.                       *)
Refuse(t) ==
  /\ pc[t] = "send" /\ ~healthy
  /\ failures' = Saturated(failures + 1)
  /\ pc' = [pc EXCEPT ![t] = "check"]
  /\ UNCHANGED <<openFor, healthy, op, attempt, result, stored, context>>

AfterTransient(t) ==
  IF attempt[t] = MaxRetries
  THEN /\ failures' = Saturated(failures + 1)
       /\ pc' = [pc EXCEPT ![t] = "check"]
       /\ UNCHANGED attempt
  ELSE /\ pc' = [pc EXCEPT ![t] = "backoff"]
       /\ attempt' = [attempt EXCEPT ![t] = @ + 1]
       /\ UNCHANGED failures

(* A transient error: 5xx, 429, no connection, or a timeout after which the*)
(* server may have acted all the same.                                     *)
Transient(t) ==
  /\ pc[t] = "send" /\ ~healthy
  /\ Act(t) \/ UNCHANGED stored
  /\ AfterTransient(t)
  /\ UNCHANGED <<openFor, healthy, op, result, context>>

SleepBackoff(t) ==
  /\ pc[t] = "backoff"
  /\ pc' = [pc EXCEPT ![t] = "send"]
  /\ UNCHANGED <<failures, openFor, healthy, op, attempt, result, stored, context>>

(* The counter is read again: another thread may have reset it since the   *)
(* increment. It keeps its value when the circuit opens.                   *)
CheckThreshold(t) ==
  /\ pc[t] = "check"
  /\ openFor' = IF failures >= Threshold THEN Cooldown ELSE openFor
  /\ Return(t, "failed")
  /\ UNCHANGED <<failures, healthy, op, attempt, stored, context>>

Tick ==
  /\ openFor > 0 /\ openFor' = openFor - 1
  /\ UNCHANGED <<failures, healthy, pc, op, attempt, result, stored, context>>

Recover ==
  /\ ~healthy /\ healthy' = TRUE
  /\ UNCHANGED <<failures, openFor, pc, op, attempt, result, stored, context>>

Step(t) == Answer(t) \/ Reject(t) \/ Refuse(t) \/ Transient(t) \/ SleepBackoff(t) \/ CheckThreshold(t)

Next ==
  \/ \E t \in Threads : Step(t) \/ \E o \in Writes \cup Reads : Call(t, o)
  \/ Tick \/ Recover

Init ==
  /\ failures = 0 /\ openFor = 0 /\ healthy = FALSE
  /\ pc = [t \in Threads |-> "idle"] /\ op = [t \in Threads |-> "read"]
  /\ attempt = [t \in Threads |-> 0] /\ result = [t \in Threads |-> "none"]
  /\ stored = [t \in Threads |-> 0] /\ context = [t \in Threads |-> NoContext]

(* Time passes, every attempt ends by its timeout, and the Agent goes on   *)
(* calling: BuildPrompt and AddMessage do at every iteration.              *)
Spec ==
  /\ Init /\ [][Next]_vars
  /\ WF_vars(Tick)
  /\ \A t \in Threads : WF_vars(Step(t)) /\ WF_vars(\E o \in Writes \cup Reads : Call(t, o))

-----------------------------------------------------------------------------
TypeOK ==
  /\ failures \in 0 .. Threshold /\ openFor \in 0 .. Cooldown /\ healthy \in BOOLEAN
  /\ pc \in [Threads -> {"idle", "send", "backoff", "check"}] /\ op \in [Threads -> Writes \cup Reads]
  /\ attempt \in [Threads -> 0 .. MaxRetries]
  /\ result \in [Threads -> {"none", "ok", "failed", "skipped"}]

(* An AppendEvent or WritePayload that returned success was acted on by the*)
(* server, one that the open circuit skipped was not, and a retry after a  *)
(* lost reply has it stored again at most once per attempt.                *)
StoredAsReported ==
  \A t \in Threads :
    /\ stored[t] <= MaxRetries + 1
    /\ op[t] \in Writes /\ pc[t] = "idle" =>
         /\ result[t] = "ok" => stored[t] > 0
         /\ result[t] = "skipped" => stored[t] = 0

(* The context BuildContext returns lists no expired event entity and is   *)
(* consistent with that: an entity is missing from it only when it is one, *)
(* and no relation and no bullet of the text names one that was taken out. *)
(* What the server did not list, or names in running text, is left alone.  *)
NoExpiredMention ==
  \A t \in Threads :
    LET shown == context[t].shown
        gone  == context[t].server.entities \ shown.entities
    IN  /\ gone \subseteq EventEntities \cap shown.expired
        /\ shown.entities \cap EventEntities \cap shown.expired = {}
        /\ \A r \in shown.relations : ~Names(r, gone)
        /\ \A l \in shown.lines : l.tokens \cap gone = {}

(* "memoryText is re-rendered from the surviving entities/relations so the *)
(* prose the model sees stays consistent with the structured lists"        *)
(* (entity_decay.h:15-17); the code keeps what is no bullet.               *)
TextMatchesLists ==
  \A t \in Threads :
    LET gone == context[t].server.entities \ context[t].shown.entities
    IN  \A l \in context[t].shown.lines : (l.tokens \cup l.prose) \cap gone = {}

(* Once the server answers, the circuit closes for good and the counter is *)
(* back at zero, whatever was in flight; calls made meanwhile do not keep  *)
(* it open.                                                                *)
CircuitCloses == <>healthy => <>[](openFor = 0 /\ failures = 0)

=============================================================================
