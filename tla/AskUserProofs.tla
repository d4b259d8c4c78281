--------------------------- MODULE AskUserProofs ---------------------------
(***************************************************************************)
(* Theorems about AskUser, for any number of requests, responders,         *)
(* sessions and removals.                                                  *)
(***************************************************************************)
EXTENDS AskUser, TLAPS

\* What TypeOK needs to be inductive: a request that was emitted has a
\* dispatcher, and a responder past the index lookup has such a request.
Typing ==
    /\ TypeOK
    /\ \A r \in Requests : ask[r] # "new" => home[r] \in Entries
    /\ \A p \in Responders :
         /\ resp[p].at # "idle" => resp[p].req \in Requests
         /\ resp[p].at # "idle" => ask[resp[p].req] # "new"

\* Typing is inductive.
LEMMA TypingStep ==
    ASSUME Typing, [Next]_vars
    PROVE  Typing'
<1> USE RemovesAssumption, NoneAssumption
    DEF Typing, TypeOK, Call, Asking, Open, sessionVars, askVars
<1>1. ASSUME NEW s \in Sessions, CreateSession(s) \/ RemoveSession(s) PROVE Typing'
  <2>1. inMem' \in [Sessions -> BOOLEAN]
    BY <1>1 DEF CreateSession, RemoveSession
  <2>2. inc' \in [Sessions -> 0 .. MaxRemoves]
    BY <1>1 DEF CreateSession, RemoveSession
  <2>3. UNCHANGED <<ask, home, slots, index, answer, result, resp>>
    BY <1>1 DEF CreateSession, RemoveSession
  <2> QED BY <2>1, <2>2, <2>3
<1>2. ASSUME NEW r \in Requests, NEW e \in Entries, EmitAskUser(r, e) PROVE Typing'
  BY <1>2 DEF EmitAskUser
<1>3. ASSUME NEW r \in Requests, AskStep(r) PROVE Typing'
  <2>1. CASE RegisterAskRequest(r)
    BY <2>1 DEF RegisterAskRequest
  <2>2. CASE StreamQuestion(r)
    BY <2>2 DEF StreamQuestion
  <2>3. CASE StreamThrows(r)
    BY <2>3 DEF StreamThrows
  <2>4. CASE WaitForResponse(r)
    BY <2>4 DEF WaitForResponse
  <2>5. CASE EraseSlot(r)
    BY <2>5 DEF EraseSlot
  <2>6. CASE UnregisterAskRequest(r)
    BY <2>6 DEF UnregisterAskRequest
  <2> QED BY <1>3, <2>1, <2>2, <2>3, <2>4, <2>5, <2>6 DEF AskStep
<1>4. ASSUME NEW p \in Responders, NEW r \in Requests, LookupRequest(p, r) PROVE Typing'
  BY <1>4 DEF LookupRequest
<1>5. ASSUME NEW p \in Responders, FindSession(p) PROVE Typing'
  <2> DEFINE s == home[resp[p].req][1]
  <2>1. s \in Sessions /\ Entry(s) \in Entries
    BY <1>5 DEF FindSession, Entry, Entries
  <2> QED BY <1>5, <2>1 DEF FindSession, Goto
<1>6. ASSUME NEW p \in Responders, FindSlot(p) PROVE Typing'
  BY <1>6 DEF FindSlot, Goto
<1>7. ASSUME NEW p \in Responders, FillSlot(p) PROVE Typing'
  BY <1>7 DEF FillSlot, Goto
<1>8. CASE UNCHANGED vars
  BY <1>8 DEF vars
<1> QED BY <1>1, <1>2, <1>3, <1>4, <1>5, <1>6, <1>7, <1>8 DEF Next, RespondStep, Quiescent

\* Typing is an invariant.
LEMMA TypingInvariant == Spec => []Typing
<1>1. Init => Typing
  BY RemovesAssumption DEF Init, Typing, TypeOK, Call, Asking, Open
<1>2. Typing /\ [Next]_vars => Typing'
  BY TypingStep
<1> QED BY <1>1, <1>2, PTL DEF Spec

\* Every reachable state is well typed.
THEOREM TypeCorrect == Spec => []TypeOK
<1>1. Typing => TypeOK
  BY DEF Typing
<1> QED BY <1>1, TypingInvariant, PTL

-----------------------------------------------------------------------------
(* An answer reaches the question it was given for.                        *)

\* AnswerMatchesQuestion made inductive: an answer sits in a slot, or is a
\* result, only after its responder has filled that slot and finished.
Delivered ==
    \A r \in Requests, p \in Responders :
        answer[r] = p \/ result[r] = p => resp[p].req = r /\ resp[p].at = "true"

\* Delivered is inductive.
LEMMA DeliveredStep ==
    ASSUME Typing, Delivered, [Next]_vars
    PROVE  Delivered'
<1> USE NoneAssumption DEF Typing, TypeOK, Call, Delivered, sessionVars, askVars
<1>1. ASSUME NEW s \in Sessions, CreateSession(s) \/ RemoveSession(s) PROVE Delivered'
  BY <1>1 DEF CreateSession, RemoveSession
<1>2. ASSUME NEW r \in Requests, NEW e \in Entries, EmitAskUser(r, e) PROVE Delivered'
  BY <1>2 DEF EmitAskUser
<1>3. ASSUME NEW r \in Requests, WaitForResponse(r) PROVE Delivered'
  BY <1>3 DEF WaitForResponse
<1>4. ASSUME NEW r \in Requests, AskStep(r), ~ WaitForResponse(r) PROVE Delivered'
  BY <1>4 DEF AskStep, RegisterAskRequest, StreamQuestion, StreamThrows, EraseSlot,
              UnregisterAskRequest
<1>5. ASSUME NEW p \in Responders, NEW r \in Requests, LookupRequest(p, r) PROVE Delivered'
  BY <1>5 DEF LookupRequest
<1>6. ASSUME NEW p \in Responders, FindSession(p) \/ FindSlot(p) PROVE Delivered'
  <2>1. resp[p].at # "true" /\ UNCHANGED <<answer, result>>
    BY <1>6 DEF FindSession, FindSlot
  <2>2. \A q \in Responders : q # p => resp'[q] = resp[q]
    BY <1>6 DEF FindSession, FindSlot, Goto
  <2> QED BY <2>1, <2>2
<1>7. ASSUME NEW p \in Responders, FillSlot(p) PROVE Delivered'
  <2>1. /\ resp[p].at # "true" /\ resp[p].req \in Requests
        /\ answer' = [answer EXCEPT ![resp[p].req] = p] /\ UNCHANGED result
    BY <1>7 DEF FillSlot
  <2>2. resp'[p].at = "true" /\ resp'[p].req = resp[p].req
    BY <1>7 DEF FillSlot, Goto
  <2>3. \A q \in Responders : q # p => resp'[q] = resp[q]
    BY <1>7 DEF FillSlot, Goto
  <2> QED BY <2>1, <2>2, <2>3
<1>8. CASE UNCHANGED vars
  BY <1>8 DEF vars
<1> QED BY <1>1, <1>2, <1>3, <1>4, <1>5, <1>6, <1>7, <1>8 DEF Next, RespondStep, Quiescent

\* An answer is never the result of another question: not of the next one of
\* the session, and not of one asked under the same id after a removal.
THEOREM AnswersMatch == Spec => []AnswerMatchesQuestion
<1>1. Init => Delivered
  BY NoneAssumption DEF Init, Delivered
<1>2. Typing /\ Delivered /\ [Next]_vars => Delivered'
  BY DeliveredStep
<1>3. Delivered => AnswerMatchesQuestion
  BY DEF Delivered, AnswerMatchesQuestion
<1> QED BY <1>1, <1>2, <1>3, TypingInvariant, PTL DEF Spec

-----------------------------------------------------------------------------
(* Slots and index entries live exactly as long as the call.               *)

\* The request's place in the call determines both tables.
TablesExact ==
    \A r \in Requests :
        /\ r \in slots <=> ask[r] \in {"slot", "listed", "wait", "erase", "thrown"}
        /\ r \in index <=> ask[r] \in {"listed", "wait", "erase", "unlist", "thrown"}

\* A pending question can always be found, and a call that returned leaves no
\* slot and no index entry; only an exception of the stream callback does.
THEOREM NoSlotLeak == Spec => []SlotWhilePending
<1>1. Init => TablesExact
  BY DEF Init, TablesExact
<1>2. ASSUME Typing, TablesExact, [Next]_vars PROVE TablesExact'
  <2> USE <1>2 DEF Typing, TypeOK, TablesExact, sessionVars, askVars
  <2>1. ASSUME NEW r \in Requests, NEW e \in Entries, EmitAskUser(r, e) PROVE TablesExact'
    BY <2>1 DEF EmitAskUser
  <2>2. ASSUME NEW r \in Requests, AskStep(r) PROVE TablesExact'
    BY <2>2 DEF AskStep, RegisterAskRequest, StreamQuestion, StreamThrows,
                WaitForResponse, EraseSlot, UnregisterAskRequest
  <2>3. ASSUME UNCHANGED <<ask, slots, index>> PROVE TablesExact'
    BY <2>3
  <2>4. ASSUME NEW s \in Sessions, CreateSession(s) \/ RemoveSession(s) PROVE TablesExact'
    BY <2>3, <2>4 DEF CreateSession, RemoveSession
  <2>5. ASSUME NEW p \in Responders,
               RespondStep(p) \/ \E r \in Requests : LookupRequest(p, r)
        PROVE  TablesExact'
    BY <2>3, <2>5 DEF RespondStep, FindSession, FindSlot, FillSlot, LookupRequest
  <2>6. CASE UNCHANGED vars
    BY <2>3, <2>6 DEF vars
  <2> QED BY <2>1, <2>2, <2>4, <2>5, <2>6 DEF Next, Quiescent
<1>3. TablesExact => SlotWhilePending
  BY DEF TablesExact, SlotWhilePending
<1> QED BY <1>1, <1>2, <1>3, TypingInvariant, PTL DEF Spec
=============================================================================
