------------------------------ MODULE AskUser ------------------------------
(***************************************************************************)
(* The ask_user conversation: AskUserTool::Invoke on a turn's thread,      *)
(* AskUserDispatcher (src/core/ask_user_dispatcher.cpp) in the turn's      *)
(* SessionEntry, the request index of SessionManager and                   *)
(* SessionManager::ProvideUserResponse on the threads that carry answers.  *)
(*                                                                         *)
(* Each mutex (askIndexMutex_, sessionMutex_, slotsMu_, Slot::m) is held   *)
(* for one step at a time, so one action is one critical section.  Request *)
(* ids are never reused (GenerateRequestId); an answer is named by the     *)
(* thread that brings it.                                                  *)
(***************************************************************************)
EXTENDS Naturals, FiniteSets

CONSTANTS
    Requests,     \* request ids, one per call of the tool
    Responders,   \* calls of ProvideUserResponse, one answer each
    Sessions,     \* session ids
    MaxRemoves,   \* bound: how often a session is removed
    None          \* no answer, no value

\* A SessionEntry and its dispatcher: the id and how often it was removed.
Entries == Sessions \X (0 .. MaxRemoves)

ASSUME RemovesAssumption == MaxRemoves \in Nat

ASSUME NoneAssumption ==
    None \notin Requests /\ None \notin Responders /\ None \notin Entries

VARIABLES
    inMem,    \* session -> whether sessions_ holds it
    inc,      \* session -> number of times it has been erased
    ask,      \* request -> where its AskUserTool::Invoke is
    home,     \* request -> the entry whose dispatcher serves it
    slots,    \* requests that have a slot in their dispatcher's slots_
    answer,   \* request -> the answer its Slot holds (done is: it holds one)
    index,    \* requests in askRequestToSession_
    result,   \* request -> what WaitForResponse takes from the slot
    resp      \* responder -> its call: where it is and its locals

sessionVars == <<inMem, inc>>
askVars == <<ask, home, result>>
vars == <<sessionVars, askVars, slots, answer, index, resp>>

Entry(s) == <<s, inc[s]>>

\* "slot" has created its slot, "listed" is in the index, "wait" blocks in
\* WaitForResponse, "erase" and "unlist" clean up after it.
Open   == {"slot", "listed", "wait", "erase", "unlist"}
Asking == {"new", "returned", "thrown"} \cup Open

Call == [at : {"idle", "find", "slot", "fill", "true", "false"},
         req : Requests \cup {None}, entry : Entries \cup {None}]

Init ==
    /\ inMem \in [Sessions -> BOOLEAN]
    /\ inc = [s \in Sessions |-> 0]
    /\ ask = [r \in Requests |-> "new"]
    /\ home = [r \in Requests |-> None]
    /\ slots = {} /\ index = {}
    /\ answer = [r \in Requests |-> None]
    /\ result = [r \in Requests |-> None]
    /\ resp = [p \in Responders |-> [at |-> "idle", req |-> None, entry |-> None]]

-----------------------------------------------------------------------------
(* Sessions come and go around the conversation.                           *)

\* FindOrCreateEntry for a session that is not in memory.
CreateSession(s) ==
    /\ ~inMem[s]
    /\ inMem' = [inMem EXCEPT ![s] = TRUE]
    /\ UNCHANGED <<inc, askVars, slots, answer, index, resp>>

\* RemoveSession erases the entry; a turn that runs on it keeps it alive.
RemoveSession(s) ==
    /\ inMem[s]
    /\ inc[s] < MaxRemoves
    /\ inMem' = [inMem EXCEPT ![s] = FALSE]
    /\ inc' = [inc EXCEPT ![s] = @ + 1]
    /\ UNCHANGED <<askVars, slots, answer, index, resp>>

-----------------------------------------------------------------------------
(* AskUserTool::Invoke.                                                    *)

\* The entry has existed, so a turn may be running on it.
Created(e) == e[2] < inc[e[1]] \/ (e[2] = inc[e[1]] /\ inMem[e[1]])

\* EmitAskUser creates the slot.  A turn runs its tools one after the other and
\* an entry's turns are serial, so its dispatcher serves one request at a time.
EmitAskUser(r, e) ==
    /\ ask[r] = "new"
    /\ Created(e)
    /\ \A q \in Requests : home[q] = e => ask[q] \notin Open
    /\ ask' = [ask EXCEPT ![r] = "slot"]
    /\ home' = [home EXCEPT ![r] = e]
    /\ slots' = slots \cup {r}
    /\ UNCHANGED <<sessionVars, result, answer, index, resp>>

RegisterAskRequest(r) ==
    /\ ask[r] = "slot"
    /\ ask' = [ask EXCEPT ![r] = "listed"]
    /\ index' = index \cup {r}
    /\ UNCHANGED <<sessionVars, home, result, slots, answer, resp>>

\* streamCallback shows the question; from here on an answer can come.
StreamQuestion(r) ==
    /\ ask[r] = "listed"
    /\ ask' = [ask EXCEPT ![r] = "wait"]
    /\ UNCHANGED <<sessionVars, home, result, slots, answer, index, resp>>

\* streamCallback throws: ExecuteTool turns it into an error text, and neither
\* the slot nor the index entry is removed.
StreamThrows(r) ==
    /\ ask[r] = "listed"
    /\ ask' = [ask EXCEPT ![r] = "thrown"]
    /\ UNCHANGED <<sessionVars, home, result, slots, answer, index, resp>>

\* Mutant: an expired wait_for is not checked for an answer.
WaitForResponse_NoRecheck(r) ==
    /\ ask[r] = "wait"
    /\ ask' = [ask EXCEPT ![r] = "erase"]
    /\ result' \in {[result EXCEPT ![r] = answer[r]], result}
    /\ UNCHANGED <<sessionVars, home, slots, answer, index, resp>>

\* Mutant: the wait has no time limit.
WaitForResponse_NoTimeout(r) ==
    /\ ask[r] = "wait"
    /\ answer[r] # None
    /\ ask' = [ask EXCEPT ![r] = "erase"]
    /\ result' = [result EXCEPT ![r] = answer[r]]
    /\ UNCHANGED <<sessionVars, home, slots, answer, index, resp>>

\* wait_for ends because the slot is done or the time is up; either way it
\* evaluates the predicate last, so an answer that is there is taken.
WaitForResponse(r) ==
    /\ ask[r] = "wait"
    /\ ask' = [ask EXCEPT ![r] = "erase"]
    /\ result' = [result EXCEPT ![r] = answer[r]]
    /\ UNCHANGED <<sessionVars, home, slots, answer, index, resp>>

\* Mutant: only an answered request gives its slot back.
EraseSlot_OnlyAnswered(r) ==
    /\ ask[r] = "erase"
    /\ ask' = [ask EXCEPT ![r] = "unlist"]
    /\ slots' = IF result[r] # None THEN slots \ {r} ELSE slots
    /\ UNCHANGED <<sessionVars, home, result, answer, index, resp>>

EraseSlot(r) ==
    /\ ask[r] = "erase"
    /\ ask' = [ask EXCEPT ![r] = "unlist"]
    /\ slots' = slots \ {r}
    /\ UNCHANGED <<sessionVars, home, result, answer, index, resp>>

UnregisterAskRequest(r) ==
    /\ ask[r] = "unlist"
    /\ ask' = [ask EXCEPT ![r] = "returned"]
    /\ index' = index \ {r}
    /\ UNCHANGED <<sessionVars, home, result, slots, answer, resp>>

-----------------------------------------------------------------------------
(* SessionManager::ProvideUserResponse.                                    *)

Goto(p, where) == resp' = [resp EXCEPT ![p].at = where]

\* The index lookup, under askIndexMutex_.  Only a question that was shown can
\* be answered; it may have expired meanwhile.
LookupRequest(p, r) ==
    /\ resp[p].at = "idle"
    /\ ask[r] \in {"wait", "erase", "unlist", "returned"}
    /\ resp' = [resp EXCEPT ![p] = [at |-> IF r \in index THEN "find" ELSE "false",
                                    req |-> r, entry |-> None]]
    /\ UNCHANGED <<sessionVars, askVars, slots, answer, index>>

\* The session lookup, under sessionMutex_: by id, so it finds whichever entry
\* has the id now.
FindSession(p) ==
    LET s == home[resp[p].req][1]
    IN  /\ resp[p].at = "find"
        /\ IF inMem[s]
           THEN resp' = [resp EXCEPT ![p].at = "slot", ![p].entry = Entry(s)]
           ELSE Goto(p, "false")
        /\ UNCHANGED <<sessionVars, askVars, slots, answer, index>>

\* AskUserDispatcher::ProvideResponse finds the slot, under slotsMu_ ...
FindSlot(p) ==
    /\ resp[p].at = "slot"
    /\ Goto(p, IF resp[p].req \in slots /\ home[resp[p].req] = resp[p].entry
               THEN "fill" ELSE "false")
    /\ UNCHANGED <<sessionVars, askVars, slots, answer, index>>

\* Mutant: the dispatcher has one slot and looks it up again when it fills it.
FillSlot_OneSlot(p) ==
    /\ resp[p].at = "fill"
    /\ \E q \in {q \in slots : home[q] = resp[p].entry} \cup {resp[p].req} :
           answer' = [answer EXCEPT ![q] = p]
    /\ Goto(p, "true")
    /\ UNCHANGED <<sessionVars, askVars, slots, index>>

\* ... and fills it, under the slot's own mutex.  The slot may have left slots_
\* by now, and may hold an answer already.
FillSlot(p) ==
    /\ resp[p].at = "fill"
    /\ answer' = [answer EXCEPT ![resp[p].req] = p]
    /\ Goto(p, "true")
    /\ UNCHANGED <<sessionVars, askVars, slots, index>>

-----------------------------------------------------------------------------
AskStep(r) ==
    \/ RegisterAskRequest(r) \/ StreamQuestion(r) \/ StreamThrows(r)
    \/ WaitForResponse(r) \/ EraseSlot(r) \/ UnregisterAskRequest(r)

RespondStep(p) == FindSession(p) \/ FindSlot(p) \/ FillSlot(p)

\* No call is in progress.
Quiescent ==
    /\ \A r \in Requests : ask[r] \notin Open
    /\ \A p \in Responders : resp[p].at \in {"idle", "true", "false"}
    /\ UNCHANGED vars

Next ==
    \/ \E s \in Sessions : CreateSession(s) \/ RemoveSession(s)
    \/ \E r \in Requests : AskStep(r) \/ \E e \in Entries : EmitAskUser(r, e)
    \/ \E p \in Responders : RespondStep(p) \/ \E r \in Requests : LookupRequest(p, r)
    \/ Quiescent

Spec == Init /\ [][Next]_vars

\* Threads inside a call keep running and a wait_for expires after its 60 s.
\* Nobody promises a question, an answer or a removal.
Fairness ==
    /\ \A r \in Requests : WF_vars(AskStep(r))
    /\ \A p \in Responders : WF_vars(RespondStep(p))

FairSpec == Spec /\ Fairness

-----------------------------------------------------------------------------
(* Properties.                                                             *)

\* Every variable has its type.
TypeOK ==
    /\ inMem \in [Sessions -> BOOLEAN]
    /\ inc \in [Sessions -> 0 .. MaxRemoves]
    /\ ask \in [Requests -> Asking]
    /\ home \in [Requests -> Entries \cup {None}]
    /\ slots \subseteq Requests /\ index \subseteq Requests
    /\ answer \in [Requests -> Responders \cup {None}]
    /\ result \in [Requests -> Responders \cup {None}]
    /\ resp \in [Responders -> Call]

\* An answer is returned only to the question it was given for, however late it
\* comes: never to the next question of the same session, although the
\* responder looks up index, session and slot in three separate sections.
AnswerMatchesQuestion ==
    \A r \in Requests, p \in Responders :
        result[r] = p => resp[p].req = r

\* A question that is shown and not yet over has its slot and its index entry,
\* and a call that returned has left neither behind, answered or not.
SlotWhilePending ==
    \A r \in Requests :
        /\ ask[r] \in {"listed", "wait"} => r \in slots \cap index
        /\ ask[r] \in {"new", "returned"} => r \notin slots \cup index

\* An answer stored while the tool still waits is the tool's result, also when
\* the time runs out at that moment.
TimelyAnswerIsUsed ==
    \A r \in Requests :
        (ask[r] = "wait" /\ answer[r] # None) ~> result[r] # None

\* Every ask_user call ends, answered or not, and every answer is acknowledged
\* or rejected.
CallsEnd ==
    /\ \A r \in Requests : ask[r] \in Open ~> ask[r] \in {"returned", "thrown"}
    /\ \A p \in Responders : resp[p].at # "idle" ~> resp[p].at \in {"true", "false"}

-----------------------------------------------------------------------------
(* Statements of the comments and messages that the code does not meet.    *)

\* ProvideUserResponse's comment: the answer to a pending request reaches its
\* dispatcher, so it is rejected only when the request is not pending.
PendingIsAnswerable ==
    [][\A p \in Responders :
         resp[p].at # "false" /\ resp'[p].at = "false"
         => ask[resp'[p].req] # "wait"]_vars
=============================================================================
