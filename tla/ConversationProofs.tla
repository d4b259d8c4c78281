--------------------------- MODULE ConversationProofs ---------------------------
(***************************************************************************)
(* Theorems about Conversation, for any limits of the window and of the    *)
(* loop, any number of turns, calls and disruptions, and either storage.   *)
(* The requests rest on two things: the order in which messages come into  *)
(* a history (Ordered, OpenFor), which every loss of messages keeps, and   *)
(* what merging, cutting, compressing and repairing do to a sequence that  *)
(* is in order, one lemma each (MergeDoes ... WindowDoes).                 *)
(***************************************************************************)
EXTENDS Conversation, SequenceTheorems, FiniteSetTheorems, WellFoundedInduction, TLAPS

InLoop == {"top", "gate", "model", "tools", "final"}

\* The typing of what is kept of the conversation.
HistoryTyping ==
    /\ storage \in {"json", "db"}
    /\ disk \in Seq(Message) /\ buffer \in Seq(Message) /\ pending \in Seq(Message)
    /\ overwrites \in Nat

\* The typing of the turn. A turn that is under way has a number, and one with
\* an iteration under way has one left.
TurnTyping ==
    /\ pc \in {"idle", "down", "save", "snapshot"} \cup InLoop
    /\ after \in {"idle", "snapshot", "tools", "final"}
    /\ turn \in 0 .. MaxTurns /\ (pc \notin {"idle", "down"} => turn > 0)
    /\ iteration \in 0 .. MaxIterations
    /\ pc \in {"gate", "model", "tools"} => iteration < MaxIterations
    /\ pc = "save" /\ after = "tools" => iteration < MaxIterations
    /\ calls \in Seq(Nat) /\ nextId \in Nat
    /\ cancelGeneration \in Nat /\ myGeneration \in Nat /\ faults \in Nat
    /\ myGeneration <= cancelGeneration
    /\ cancelledAt \in {"none"} \cup InLoop
    /\ answered \subseteq 1 .. MaxTurns /\ unsaved \subseteq 1 .. MaxTurns

Typing == HistoryTyping /\ TurnTyping

\* A turn marked as cancelled is one whose snapshot is behind, so that the next
\* gate sees it.
CancelSeen == cancelledAt # "none" => IsCancelled

\* The answer of turn t is in the persisted history, or the history was hurt.
Kept(t) ==
    \/ t \in unsaved \/ overwrites > 0
    \/ \E i \in DOMAIN disk : disk[i].role = "assistant" /\ t \in disk[i].text

\* The answer about to be shown was persisted, and the one about to be
\* persisted is the pending message.
AnswerOnItsWay ==
    /\ pc = "save" => /\ Len(pending) = 1
                      /\ after = "final" => pending[1].role = "assistant" /\ turn \in pending[1].text
    /\ pc = "final" => Kept(turn)

IInv == Typing /\ CancelSeen /\ CancelStopsRequests /\ AnswerOnItsWay /\ ShownAnswerSurvives

-----------------------------------------------------------------------------
(* What the requests rest on.                                             *)

\* The calls a message asks for.
Ids(m) == {m.calls[k] : k \in DOMAIN m.calls}

\* What every history keeps, whatever was interrupted or lost: results come in
\* the order of their calls, and from a call that has its result to that result
\* there are only results of the same message's calls.
Ordered(s) ==
    /\ \A i \in DOMAIN s : s[i].calls # <<>> => s[i].role = "assistant"
    /\ \A i \in DOMAIN s : \A k, l \in DOMAIN s[i].calls : k < l => s[i].calls[k] < s[i].calls[l]
    /\ \A i, j \in DOMAIN s : i < j /\ s[i].role = "tool" /\ s[j].role = "tool" => s[i].id < s[j].id
    /\ \A i, j \in DOMAIN s : s[j].role = "tool" /\ s[j].id \in Ids(s[i]) =>
         i < j /\ \A l \in i + 1 .. j : s[l].role = "tool" /\ s[l].id \in Ids(s[i])

\* The history is open for the results of the calls cs, of which it has none
\* and which are all of one message, and for ids from next on.
OpenFor(s, cs, next) ==
    /\ \A i \in DOMAIN s : /\ \A x \in Ids(s[i]) : x < next
                           /\ s[i].role = "tool" => s[i].id < next
    /\ \A i \in DOMAIN s, k \in DOMAIN cs : s[i].role = "tool" => s[i].id < cs[k]
    /\ \A i \in DOMAIN s, k \in DOMAIN cs : cs[k] \in Ids(s[i]) =>
         /\ \A l \in DOMAIN cs : cs[l] \in Ids(s[i])
         /\ \A l \in i + 1 .. Len(s) : s[l].role = "tool" /\ s[l].id \in Ids(s[i])

\* The calls still to be executed are in order, and there are some only while
\* tools are executed.
CallsOK ==
    /\ \A k \in DOMAIN calls : calls[k] < nextId
    /\ \A k, l \in DOMAIN calls : k < l => calls[k] < calls[l]
    /\ calls # <<>> => pc = "tools" \/ (pc = "save" /\ after = "tools")

\* The buffer, and the persisted history with the message on its way to it.
HistoriesOK ==
    /\ Ordered(buffer) /\ OpenFor(buffer, calls, nextId)
    /\ Ordered(disk \o pending) /\ OpenFor(disk \o pending, calls, nextId)

\* The query of the turn is the buffer's last one.
IsQuery(s, p) ==
    /\ p \in DOMAIN s /\ s[p].role = "user" /\ turn \in s[p].text
    /\ \A q \in DOMAIN s : q > p => s[q].role # "user"

QueryBuffered == pc \notin {"idle", "down"} => \E p \in DOMAIN buffer : IsQuery(buffer, p)

\* Every call of the window has its result there, and every result its call.
Complete(w) ==
    /\ \A i \in DOMAIN w : \A x \in Ids(w[i]) : \E j \in DOMAIN w : w[j].role = "tool" /\ w[j].id = x
    /\ \A j \in DOMAIN w : w[j].role = "tool" => \E i \in DOMAIN w : w[j].id \in Ids(w[i])

\* The part of RequestWellFormed that is about prompt-only mode.
PromptOnlyWellFormed ==
    pc = "gate" =>
      LET w == Append(GetContextWindow, RuntimeNote) IN
        \A r \in {OpenAiFormat(w, FALSE), AnthropicFormat(w, FALSE)} :
          /\ \A i \in DOMAIN r : r[i].role # "tool" /\ r[i].calls = <<>>
          /\ \A j \in DOMAIN w : w[j].role = "tool" =>
               \E i \in DOMAIN r : r[i].role = "user" /\ w[j].id \in r[i].results

\* The calls among ids that have one of the results.
Answered(ids, results) == Only(ids, {k \in DOMAIN ids : ids[k] \in results})

\* The calls with a result at the positions S.
ResultsIn(s, S) == {s[q].id : q \in {p \in S : s[p].role = "tool"}}

\* The entries that start at the positions in starts, with the calls cs.
Entries(s, starts, cs) ==
    [k \in 1 .. Cardinality(starts) |->
       Entry(IF s[InOrder(starts)[k]].role = "tool" THEN "user" ELSE s[InOrder(starts)[k]].role,
             UNION {s[q].text : q \in InOrder(starts)[k] .. NextIn(s, starts, InOrder(starts)[k]) - 1},
             cs[k],
             ResultsIn(s, InOrder(starts)[k] .. NextIn(s, starts, InOrder(starts)[k]) - 1))]

-----------------------------------------------------------------------------
(* Positions: what InOrder, Only and NextIn return.                        *)

\* A non-empty set of numbers up to n has a largest one.
LEMMA LargestExists ==
    ASSUME NEW n \in Nat, NEW P \in SUBSET (1 .. n), P # {}
    PROVE  \E p \in P : \A q \in P : q <= p
<1> DEFINE D == {d \in Nat : \E p \in P : d = n - p}
           R == {ss \in Nat \X Nat : ss[1] < ss[2]}
<1>1. IsWellFoundedOn(R, Nat)
  BY NatLessThanWellFounded, Zenon DEF OpToRel
<1>2. D # {}
  <2>1. PICK p \in P : TRUE
    OBVIOUS
  <2>2. n - p \in Nat
    OBVIOUS
  <2> QED BY <2>2
<1> HIDE DEF R
<1>3. PICK d \in D : \A e \in D : ~ (<<e, d>> \in R)
  <2>1. D \subseteq Nat
    OBVIOUS
  <2> HIDE DEF D
  <2> QED BY <1>1, <1>2, <2>1, WFMin
<1>4. PICK p \in P : d = n - p
  OBVIOUS
<1>5. ASSUME NEW q \in P PROVE q <= p
  <2>1. n - q \in D
    OBVIOUS
  <2>2. ~ (n - q < d)
    BY <2>1, <1>3 DEF R
  <2> QED BY <2>2, <1>4
<1> QED BY <1>5

\* And a smallest one.
LEMMA SmallestExists ==
    ASSUME NEW n \in Nat, NEW P \in SUBSET (1 .. n), P # {}
    PROVE  \E p \in P : \A q \in P : p <= q
<1> DEFINE M == {n + 1 - p : p \in P}
<1>1. M \in SUBSET (1 .. n) /\ M # {}
  OBVIOUS
<1>2. PICK m \in M : \A x \in M : x <= m
  <2> HIDE DEF M
  <2> QED BY <1>1, LargestExists
<1>3. PICK p \in P : m = n + 1 - p
  OBVIOUS
<1>4. ASSUME NEW q \in P PROVE p <= q
  <2>1. n + 1 - q \in M
    OBVIOUS
  <2> QED BY <1>2, <1>3, <2>1
<1> QED BY <1>4

\* InOrder lists every position of S once, in increasing order: the number of
\* positions up to p is a bijection from S to 1 .. Cardinality(S).
LEMMA InOrderDoes ==
    ASSUME NEW n \in Nat, NEW S \in SUBSET (1 .. n)
    PROVE  /\ Cardinality(S) \in Nat /\ Cardinality(S) <= n
           /\ InOrder(S) \in [1 .. Cardinality(S) -> S]
           /\ \A a, b \in 1 .. Cardinality(S) : a < b => InOrder(S)[a] < InOrder(S)[b]
           /\ \A p \in S : \E a \in 1 .. Cardinality(S) : InOrder(S)[a] = p
<1> DEFINE c == Cardinality(S)
           Upto(p) == {q \in S : q <= p}
           rank == [p \in S |-> Cardinality(Upto(p))]
<1>0. \A p \in S : p \in Nat
  OBVIOUS
<1>1. IsFiniteSet(S) /\ c \in Nat /\ c <= n
  <2>1. IsFiniteSet(1 .. n) /\ Cardinality(1 .. n) = n
    BY FS_Interval
  <2> QED BY <2>1, FS_Subset, FS_CardinalityType
<1>2. ASSUME NEW p \in S
      PROVE  IsFiniteSet(Upto(p)) /\ Cardinality(Upto(p)) \in 1 .. c
  <2>1. Upto(p) \in SUBSET S
    OBVIOUS
  <2>2. IsFiniteSet(Upto(p)) /\ Cardinality(Upto(p)) <= c /\ Cardinality(Upto(p)) \in Nat
    BY <1>1, <2>1, FS_Subset, FS_CardinalityType
  <2>3. p \in Upto(p)
    OBVIOUS
  <2>4. Cardinality(Upto(p)) # 0
    BY <2>2, <2>3, FS_EmptySet
  <2> QED BY <1>1, <2>2, <2>4
<1>3. ASSUME NEW p \in S, NEW r \in S, p < r
      PROVE  Cardinality(Upto(p)) < Cardinality(Upto(r))
  <2>1. Upto(p) \in SUBSET Upto(r) /\ r \in Upto(r) /\ r \notin Upto(p)
    <3>1. p \in Nat /\ r \in Nat /\ ~(r <= p) /\ r <= r
      BY <1>0, <1>3
    <3>2. \A q \in S : q <= p => q <= r
      BY <1>0, <1>3
    <3> QED BY <3>1, <3>2
  <2>2. IsFiniteSet(Upto(r)) /\ Cardinality(Upto(r)) \in Nat /\ Cardinality(Upto(p)) \in Nat
    BY <1>2
  <2> HIDE DEF Upto
  <2>3. Cardinality(Upto(p)) <= Cardinality(Upto(r))
        /\ (Cardinality(Upto(r)) = Cardinality(Upto(p)) => Upto(r) = Upto(p))
    BY <2>1, <2>2, FS_Subset
  <2> QED BY <2>1, <2>2, <2>3
<1>4. rank \in Injection(S, 1 .. c)
  <2>1. \A p \in S : Cardinality(Upto(p)) \in 1 .. c
    BY <1>2
  <2>2. \A p, r \in S : p < r => Cardinality(Upto(p)) < Cardinality(Upto(r))
    BY <1>3
  <2>3. S \subseteq Nat
    OBVIOUS
  <2> HIDE DEF Upto, c
  <2>4. rank \in [S -> 1 .. c]
    BY <2>1
  <2>5. ASSUME NEW p \in S, NEW r \in S, rank[p] = rank[r] PROVE p = r
    <3>1. Cardinality(Upto(p)) \in 1 .. c /\ Cardinality(Upto(r)) \in 1 .. c
      BY <2>1
    <3>2. ~(p < r) /\ ~(r < p)
      BY <2>2, <2>5, <3>1
    <3> QED BY <2>3, <3>2
  <2> HIDE DEF rank
  <2>6. IsInjective(rank)
    BY <2>4, <2>5 DEF IsInjective
  <2> QED BY <2>4, <2>6 DEF Injection
<1>5. rank \in Surjection(S, 1 .. c)
  <2>1. IsFiniteSet(1 .. c) /\ Cardinality(1 .. c) = c
    BY <1>1, FS_Interval
  <2>2. Cardinality(S) = Cardinality(1 .. c)
    BY <2>1
  <2> HIDE DEF rank, c
  <2> QED BY <1>4, <2>1, <2>2, FS_Injection
<1>6. \A k \in 1 .. c : \E p \in S : Cardinality(Upto(p)) = k
  <2> HIDE DEF c, Upto
  <2>1. ASSUME NEW k \in 1 .. c PROVE \E p \in S : rank[p] = k
    <3> HIDE DEF rank
    <3> QED BY <1>5 DEF Surjection
  <2> QED BY <2>1
<1>7. \A k \in 1 .. c : InOrder(S)[k] \in S /\ Cardinality(Upto(InOrder(S)[k])) = k
  <2>1. ASSUME NEW k \in 1 .. c PROVE InOrder(S)[k] = CHOOSE p \in S : Cardinality(Upto(p)) = k
    BY DEF InOrder
  <2> HIDE DEF c, Upto
  <2> QED BY <1>6, <2>1
<1>8. InOrder(S) \in [1 .. c -> S]
  <2>1. DOMAIN InOrder(S) = 1 .. c /\ InOrder(S) = [k \in 1 .. c |-> InOrder(S)[k]]
    BY DEF InOrder
  <2> HIDE DEF c, Upto
  <2> QED BY <1>7, <2>1
<1>9. ASSUME NEW a \in 1 .. c, NEW b \in 1 .. c, a < b PROVE InOrder(S)[a] < InOrder(S)[b]
  <2>1. InOrder(S)[a] \in S /\ InOrder(S)[b] \in S
    BY <1>7
  <2>2. Cardinality(Upto(InOrder(S)[a])) = a /\ Cardinality(Upto(InOrder(S)[b])) = b
    BY <1>7
  <2> DEFINE x == InOrder(S)[a]
             y == InOrder(S)[b]
  <2>3. x \in Nat /\ y \in Nat /\ a \in Nat /\ b \in Nat
    <3>1. x \in S /\ y \in S
      BY <2>1
    <3> HIDE DEF x, y, c
    <3> QED BY <1>0, <1>1, <3>1
  <2> HIDE DEF Upto, x, y
  <2>4. ~(y < x)
    BY <1>3, <1>9, <2>1, <2>2, <2>3 DEF x, y
  <2>5. x # y
    BY <1>9, <2>2, <2>3 DEF x, y
  <2>6. x < y
    BY <2>3, <2>4, <2>5
  <2> QED BY <2>6 DEF x, y
<1>10. ASSUME NEW p \in S PROVE \E a \in 1 .. c : InOrder(S)[a] = p
  <2> DEFINE a == Cardinality(Upto(p))
  <2>1. a \in 1 .. c
    BY <1>2
  <2>2. InOrder(S)[a] \in S /\ Cardinality(Upto(InOrder(S)[a])) = a
    BY <1>7, <2>1
  <2> DEFINE x == InOrder(S)[a]
  <2>3. x \in Nat /\ p \in Nat
    <3>1. x \in S
      BY <2>2
    <3> HIDE DEF x
    <3> QED BY <1>0, <3>1
  <2>4. Cardinality(Upto(x)) = Cardinality(Upto(p)) /\ x \in S /\ Cardinality(Upto(p)) \in Int
    BY <1>1, <2>1, <2>2
  <2> HIDE DEF Upto, x
  <2>5. ~(x < p) /\ ~(p < x)
    BY <1>3, <2>3, <2>4
  <2>6. x = p
    BY <2>3, <2>5
  <2> HIDE DEF a
  <2> QED BY <2>1, <2>6 DEF x
<1> QED BY <1>1, <1>8, <1>9, <1>10

-----------------------------------------------------------------------------
(* Messages and histories.                                                 *)

\* What the model builds are messages.
LEMMA MessagesTyped ==
    /\ \A t \in 0 .. MaxTurns : User(t) \in Message /\ User(t).role = "user" /\ User(t).text = {t}
    /\ \A text \in Text, ids \in Seq(Nat) :
         /\ Assistant(text, ids) \in Message /\ Assistant(text, ids).role = "assistant"
         /\ Assistant(text, ids).text = text
    /\ \A i \in Nat, text \in Text : ToolResult(i, text) \in Message
BY DEF User, Assistant, ToolResult, Message, Text

\* What is kept of a loaded history is a history, the front of it.
LEMMA TrimTyped ==
    ASSUME NEW s \in Seq(Message)
    PROVE  /\ TrimOrphanTrailingToolCalls(s) \in Seq(Message)
           /\ \E last \in 0 .. Len(s) : TrimOrphanTrailingToolCalls(s) = SubSeq(s, 1, last)
<1> DEFINE kept == {p \in DOMAIN s : s[p].role # "assistant" \/ s[p].calls = <<>>}
           last == IF kept = {} THEN 0 ELSE CHOOSE p \in kept : \A q \in kept : q <= p
<1>1. Len(s) \in Nat /\ kept \subseteq 1 .. Len(s)
  BY LenProperties
<1>2. TrimOrphanTrailingToolCalls(s) = SubSeq(s, 1, last)
  BY DEF TrimOrphanTrailingToolCalls
<1> HIDE DEF kept
<1>3. last \in 0 .. Len(s)
  <2>1. CASE kept = {}
    BY <1>1, <2>1
  <2>2. CASE kept # {}
    <3>1. \E p \in kept : \A q \in kept : q <= p
      BY <1>1, <2>2, LargestExists
    <3>2. last \in kept
      BY <2>2, <3>1
    <3> HIDE DEF last
    <3> QED BY <1>1, <3>2
  <2> QED BY <2>1, <2>2
<1> HIDE DEF last
<1>4. SubSeq(s, 1, last) \in Seq(Message)
  BY <1>1, <1>3
<1> QED BY <1>2, <1>3, <1>4

\* AddMessage buffers the message and goes to save it, or drops it; a message
\* with text that is no tool result is never dropped.
LEMMA AddMessageDoes ==
    ASSUME HistoryTyping, NEW m \in Message, NEW next, AddMessage(m, next)
    PROVE  /\ buffer' \in Seq(Message) /\ pending' \in Seq(Message)
           /\ \/ /\ pc' = "save" /\ after' = next
                 /\ Len(pending') = 1 /\ pending'[1] = m
              \/ /\ pc' = next /\ after' = after
                 /\ m.text = {} \/ m.role = "tool"
<1>1. CASE IsValidMessage(m)
  <2>1. buffer' = Append(buffer, m) /\ pending' = <<m>> /\ pc' = "save" /\ after' = next
    BY <1>1 DEF AddMessage
  <2>2. buffer' \in Seq(Message)
    BY <2>1 DEF HistoryTyping
  <2>3. pending' \in Seq(Message) /\ Len(pending') = 1 /\ pending'[1] = m
    BY <2>1
  <2> QED BY <2>1, <2>2, <2>3
<1>2. CASE ~IsValidMessage(m)
  <2>1. pc' = next /\ UNCHANGED <<buffer, pending, after>>
    BY <1>2 DEF AddMessage
  <2>2. m.text = {} \/ m.role = "tool"
    BY <1>2 DEF IsValidMessage
  <2> QED BY <2>1, <2>2 DEF HistoryTyping
<1> QED BY <1>1, <1>2

\* Steps that leave the storage alone leave what is kept in it.
LEMMA KeptStays ==
    ASSUME UNCHANGED storeVars, NEW t, Kept(t)
    PROVE  Kept(t)'
BY DEF storeVars, Kept

\* The same, for the answers that were shown when no other is.
LEMMA ShownStays ==
    ASSUME UNCHANGED storeVars, answered' = answered, ShownAnswerSurvives
    PROVE  ShownAnswerSurvives'
BY DEF storeVars, ShownAnswerSurvives

\* Only keeps the elements at S, in order.
LEMMA OnlyDoes ==
    ASSUME NEW T, NEW s \in Seq(T), NEW S \in SUBSET (1 .. Len(s))
    PROVE  /\ Only(s, S) \in Seq(T) /\ Len(Only(s, S)) = Cardinality(S)
           /\ Cardinality(S) \in Nat /\ Cardinality(S) <= Len(s)
           /\ InOrder(S) \in [1 .. Cardinality(S) -> 1 .. Len(s)]
           /\ \A a \in 1 .. Cardinality(S) : InOrder(S)[a] \in S /\ Only(s, S)[a] = s[InOrder(S)[a]]
           /\ \A a, b \in 1 .. Cardinality(S) : a < b => InOrder(S)[a] < InOrder(S)[b]
           /\ \A p \in S : \E a \in 1 .. Cardinality(S) : InOrder(S)[a] = p
<1> DEFINE c == Cardinality(S)
           o == InOrder(S)
<1>1. Len(s) \in Nat /\ s \in [1 .. Len(s) -> T]
  BY LenProperties
<1>2. /\ c \in Nat /\ c <= Len(s) /\ o \in [1 .. c -> S]
      /\ \A a, b \in 1 .. c : a < b => o[a] < o[b]
      /\ \A p \in S : \E a \in 1 .. c : o[a] = p
  BY <1>1, InOrderDoes
<1>3. Only(s, S) = [k \in 1 .. c |-> s[o[k]]]
  BY DEF Only
<1> HIDE DEF c, o
<1>4. \A k \in 1 .. c : o[k] \in 1 .. Len(s) /\ s[o[k]] \in T
  BY <1>1, <1>2
<1>5. Only(s, S) \in [1 .. c -> T]
  BY <1>3, <1>4
<1>6. Only(s, S) \in Seq(T) /\ Len(Only(s, S)) = c
  BY <1>2, <1>5
<1>7. o \in [1 .. c -> 1 .. Len(s)]
  BY <1>2
<1>8. \A a \in 1 .. c : o[a] \in S /\ Only(s, S)[a] = s[o[a]]
  BY <1>2, <1>3
<1> QED BY <1>2, <1>6, <1>7, <1>8 DEF c, o

\* NextIn is the first position of S after p, or one past the end.
LEMMA NextInDoes ==
    ASSUME NEW s, Len(s) \in Nat, NEW S \in SUBSET (1 .. Len(s)), NEW p \in 0 .. Len(s)
    PROVE  /\ NextIn(s, S, p) \in p + 1 .. Len(s) + 1
           /\ NextIn(s, S, p) \in S \/ (NextIn(s, S, p) = Len(s) + 1 /\ \A q \in S : q <= p)
           /\ \A q \in S : q > p => NextIn(s, S, p) <= q
<1> DEFINE later == {q \in S : q > p}
<1>1. \A q \in S : q \in Nat /\ q <= Len(s)
  OBVIOUS
<1>2. CASE later = {}
  <2>1. NextIn(s, S, p) = Len(s) + 1
    BY <1>2 DEF NextIn
  <2>2. \A q \in S : ~(q > p)
    BY <1>2
  <2>3. \A q \in S : q <= p
    BY <1>1, <2>2
  <2> QED BY <2>1, <2>2, <2>3
<1>3. CASE later # {}
  <2>1. NextIn(s, S, p) = CHOOSE q \in later : \A r \in later : q <= r
    BY <1>3 DEF NextIn
  <2>2. later \in SUBSET (1 .. Len(s)) /\ \A q \in later : q \in S /\ q > p
    OBVIOUS
  <2>3. \A q \in S : q > p => q \in later
    OBVIOUS
  <2> HIDE DEF later
  <2>4. \E q \in later : \A r \in later : q <= r
    BY <1>3, <2>2, SmallestExists
  <2>5. NextIn(s, S, p) \in later /\ \A r \in later : NextIn(s, S, p) <= r
    BY <2>1, <2>4
  <2>6. NextIn(s, S, p) \in p + 1 .. Len(s) + 1
    <3>1. NextIn(s, S, p) \in Nat /\ NextIn(s, S, p) <= Len(s) /\ NextIn(s, S, p) > p
      BY <1>1, <2>2, <2>5
    <3> QED BY <3>1
  <2> QED BY <2>2, <2>3, <2>5, <2>6
<1> QED BY <1>2, <1>3

\* The stretches between the positions of S and the next ones cover all that
\* comes after a position of S.
LEMMA StretchesCover ==
    ASSUME NEW s, Len(s) \in Nat, NEW S \in SUBSET (1 .. Len(s)), 1 \in S, NEW j \in 1 .. Len(s)
    PROVE  \E p \in S : p <= j /\ j <= NextIn(s, S, p) - 1 /\ \A q \in p + 1 .. j : q \notin S
<1> DEFINE upto == {q \in S : q <= j}
<1>0. j \in Nat /\ 1 <= j
  OBVIOUS
<1>1. upto \in SUBSET (1 .. Len(s)) /\ 1 \in upto
  BY <1>0
<1>2. PICK p \in upto : \A q \in upto : q <= p
  <2> HIDE DEF upto
  <2> QED BY <1>1, LargestExists
<1>3. p \in S /\ p <= j /\ p \in 1 .. Len(s) /\ p \in 0 .. Len(s)
  OBVIOUS
<1>4. ASSUME NEW q \in S, q > p PROVE q > j
  <2>1. ~(q <= p) /\ q \in Nat /\ j \in Nat
    BY <1>3, <1>4
  <2>2. q \notin upto
    BY <1>2, <2>1
  <2> QED BY <2>1, <2>2
<1> HIDE DEF upto
<1>5. NextIn(s, S, p) > j /\ NextIn(s, S, p) \in Nat
  <2>1. NextIn(s, S, p) \in p + 1 .. Len(s) + 1
        /\ (NextIn(s, S, p) \in S \/ NextIn(s, S, p) = Len(s) + 1)
    BY <1>3, NextInDoes
  <2> QED BY <1>3, <1>4, <2>1
<1>6. \A q \in p + 1 .. j : q \notin S
  BY <1>3, <1>4
<1> QED BY <1>3, <1>5, <1>6

\* Calls and roles of messages.
LEMMA MessageFields ==
    ASSUME NEW m \in Message
    PROVE  /\ m.role \in {"user", "assistant", "tool"} /\ m.text \in Text
           /\ m.calls \in Seq(Nat) /\ m.id \in Nat /\ Ids(m) \subseteq Nat
<1>1. m.role \in {"user", "assistant", "tool"} /\ m.text \in Text /\ m.calls \in Seq(Nat) /\ m.id \in Nat
  BY DEF Message
<1>2. DOMAIN m.calls = 1 .. Len(m.calls) /\ m.calls \in [1 .. Len(m.calls) -> Nat]
  BY <1>1, LenProperties
<1> QED BY <1>1, <1>2 DEF Ids

\* Losing messages loses nothing of the order.
LEMMA EmbeddedIsOrdered ==
    ASSUME NEW s \in Seq(Message), NEW t \in Seq(Message), NEW f,
           \A a \in 1 .. Len(t) : f[a] \in 1 .. Len(s),
           \A a, b \in 1 .. Len(t) : a < b => f[a] < f[b],
           \A a \in 1 .. Len(t) : /\ t[a].role = s[f[a]].role /\ t[a].id = s[f[a]].id
                                  /\ t[a].calls = s[f[a]].calls,
           Ordered(s)
    PROVE  Ordered(t)
<1>1. DOMAIN s = 1 .. Len(s) /\ DOMAIN t = 1 .. Len(t) /\ Len(s) \in Nat /\ Len(t) \in Nat
  OBVIOUS
<1>2. \A a \in 1 .. Len(t) : Ids(t[a]) = Ids(s[f[a]])
  BY DEF Ids
<1>3. \A i \in DOMAIN t : t[i].calls # <<>> => t[i].role = "assistant"
  BY <1>1 DEF Ordered
<1>4. \A i \in DOMAIN t : \A k, l \in DOMAIN t[i].calls : k < l => t[i].calls[k] < t[i].calls[l]
  BY <1>1 DEF Ordered
<1>5. \A i, j \in DOMAIN t : i < j /\ t[i].role = "tool" /\ t[j].role = "tool" => t[i].id < t[j].id
  BY <1>1 DEF Ordered
<1>6. ASSUME NEW i \in DOMAIN t, NEW j \in DOMAIN t, t[j].role = "tool", t[j].id \in Ids(t[i])
      PROVE  i < j /\ \A l \in i + 1 .. j : t[l].role = "tool" /\ t[l].id \in Ids(t[i])
  <2>1. f[i] \in DOMAIN s /\ f[j] \in DOMAIN s /\ s[f[j]].role = "tool" /\ s[f[j]].id \in Ids(s[f[i]])
    BY <1>1, <1>2, <1>6
  <2>2. /\ f[i] < f[j]
        /\ \A l \in f[i] + 1 .. f[j] : s[l].role = "tool" /\ s[l].id \in Ids(s[f[i]])
    BY <2>1 DEF Ordered
  <2>3. i \in Nat /\ j \in Nat /\ f[i] \in Nat /\ f[j] \in Nat
    BY <1>1, <2>1
  <2>4. i < j
    <3>1. ~(j < i)
      BY <1>1, <2>2, <2>3
    <3>2. i # j
      BY <2>2, <2>3
    <3> QED BY <2>3, <3>1, <3>2
  <2>5. ASSUME NEW l \in i + 1 .. j PROVE t[l].role = "tool" /\ t[l].id \in Ids(t[i])
    <3>1. l \in 1 .. Len(t) /\ i < l /\ (l = j \/ l < j)
      BY <1>1, <2>3
    <3>2. f[i] < f[l] /\ (f[l] = f[j] \/ f[l] < f[j]) /\ f[l] \in 1 .. Len(s)
      BY <1>1, <3>1
    <3>3. f[l] \in f[i] + 1 .. f[j]
      BY <2>3, <3>2
    <3>4. s[f[l]].role = "tool" /\ s[f[l]].id \in Ids(s[f[i]])
      BY <2>2, <3>3
    <3> QED BY <1>1, <1>2, <3>1, <3>4
  <2> QED BY <2>4, <2>5
<1> QED BY <1>3, <1>4, <1>5, <1>6 DEF Ordered

\* Nor is it less open.
LEMMA EmbeddedIsOpen ==
    ASSUME NEW s \in Seq(Message), NEW t \in Seq(Message), NEW f, NEW cs, NEW next,
           \A a \in 1 .. Len(t) : f[a] \in 1 .. Len(s),
           \A a, b \in 1 .. Len(t) : a < b => f[a] < f[b],
           \A a \in 1 .. Len(t) : /\ t[a].role = s[f[a]].role /\ t[a].id = s[f[a]].id
                                  /\ t[a].calls = s[f[a]].calls,
           OpenFor(s, cs, next)
    PROVE  OpenFor(t, cs, next)
<1>1. DOMAIN s = 1 .. Len(s) /\ DOMAIN t = 1 .. Len(t) /\ Len(s) \in Nat /\ Len(t) \in Nat
  OBVIOUS
<1>2. \A a \in 1 .. Len(t) : Ids(t[a]) = Ids(s[f[a]])
  BY DEF Ids
<1>3. \A i \in DOMAIN t : /\ \A x \in Ids(t[i]) : x < next
                          /\ t[i].role = "tool" => t[i].id < next
  BY <1>1, <1>2 DEF OpenFor
<1>4. \A i \in DOMAIN t, k \in DOMAIN cs : t[i].role = "tool" => t[i].id < cs[k]
  BY <1>1 DEF OpenFor
<1>5. ASSUME NEW i \in DOMAIN t, NEW k \in DOMAIN cs, cs[k] \in Ids(t[i]), NEW l \in i + 1 .. Len(t)
      PROVE  t[l].role = "tool" /\ t[l].id \in Ids(t[i])
  <2>1. i \in 1 .. Len(t) /\ l \in 1 .. Len(t) /\ i < l
    BY <1>1
  <2>2. f[i] < f[l] /\ f[i] \in 1 .. Len(s) /\ f[l] \in 1 .. Len(s)
    BY <2>1
  <2>3. f[l] \in f[i] + 1 .. Len(s)
    BY <1>1, <2>2
  <2>4. s[f[l]].role = "tool" /\ s[f[l]].id \in Ids(s[f[i]])
    BY <1>1, <1>2, <1>5, <2>1, <2>2, <2>3 DEF OpenFor
  <2> QED BY <1>2, <2>1, <2>4
<1>6. ASSUME NEW i \in DOMAIN t, NEW k \in DOMAIN cs, cs[k] \in Ids(t[i]), NEW l \in DOMAIN cs
      PROVE  cs[l] \in Ids(t[i])
  <2>1. f[i] \in DOMAIN s /\ Ids(t[i]) = Ids(s[f[i]])
    BY <1>1, <1>2
  <2> QED BY <1>6, <2>1 DEF OpenFor
<1> QED BY <1>3, <1>4, <1>5, <1>6 DEF OpenFor

\* A stretch of a history.
LEMMA StretchIsOrdered ==
    ASSUME NEW s \in Seq(Message), NEW m \in 1 .. Len(s) + 1, NEW n \in 0 .. Len(s)
    PROVE  /\ SubSeq(s, m, n) \in Seq(Message)
           /\ Len(SubSeq(s, m, n)) = IF m <= n THEN n - m + 1 ELSE 0
           /\ \A a \in 1 .. Len(SubSeq(s, m, n)) : SubSeq(s, m, n)[a] = s[m + a - 1]
           /\ Ordered(s) => Ordered(SubSeq(s, m, n))
           /\ \A cs, next : OpenFor(s, cs, next) => OpenFor(SubSeq(s, m, n), cs, next)
<1> DEFINE t == SubSeq(s, m, n)
           f == [a \in 1 .. Len(t) |-> m + a - 1]
<1>1. Len(s) \in Nat /\ DOMAIN s = 1 .. Len(s) /\ m \in Int /\ n \in Int
  OBVIOUS
<1>2. \A i \in m .. n : s[i] \in Message
  OBVIOUS
<1>3. /\ t \in Seq(Message)
      /\ Len(t) = IF m <= n THEN n - m + 1 ELSE 0
      /\ \A i \in 1 .. n - m + 1 : t[i] = s[m + i - 1]
  BY <1>1, <1>2, SubSeqProperties
<1> HIDE DEF t
<1>4. \A a \in 1 .. Len(t) : t[a] = s[m + a - 1] /\ m + a - 1 \in 1 .. Len(s)
  BY <1>1, <1>3
<1>5. /\ \A a \in 1 .. Len(t) : f[a] \in 1 .. Len(s)
      /\ \A a, b \in 1 .. Len(t) : a < b => f[a] < f[b]
      /\ \A a \in 1 .. Len(t) : t[a].role = s[f[a]].role /\ t[a].id = s[f[a]].id /\ t[a].calls = s[f[a]].calls
  BY <1>1, <1>3, <1>4
<1> HIDE DEF f
<1>6. Ordered(s) => Ordered(t)
  BY <1>3, <1>5, EmbeddedIsOrdered
<1>7. ASSUME NEW cs, NEW next, OpenFor(s, cs, next) PROVE OpenFor(t, cs, next)
  BY <1>3, <1>5, <1>7, EmbeddedIsOpen
<1> QED BY <1>3, <1>4, <1>6, <1>7 DEF t

\* What Only leaves of a history.
LEMMA OnlyIsOrdered ==
    ASSUME NEW s \in Seq(Message), NEW S \in SUBSET (1 .. Len(s)), Ordered(s)
    PROVE  Ordered(Only(s, S))
<1> DEFINE t == Only(s, S)
           f == InOrder(S)
<1>1. /\ t \in Seq(Message) /\ Len(t) = Cardinality(S)
      /\ \A a \in 1 .. Len(t) : t[a] = s[f[a]] /\ f[a] \in S
      /\ \A a, b \in 1 .. Len(t) : a < b => f[a] < f[b]
  BY OnlyDoes
<1>2. \A a \in 1 .. Len(t) : f[a] \in 1 .. Len(s)
  BY <1>1
<1> HIDE DEF t, f
<1> QED BY <1>1, <1>2, EmbeddedIsOrdered DEF t

\* Messages without calls and results in front of a history.
LEMMA PlainInFront ==
    ASSUME NEW s \in Seq(Message), NEW t \in Seq(Message), Ordered(t),
           \A i \in 1 .. Len(s) : s[i].role # "tool" /\ s[i].calls = <<>>
    PROVE  Ordered(s \o t)
<1> DEFINE u == s \o t
           n == Len(s)
<1>1. /\ u \in Seq(Message) /\ Len(u) = n + Len(t) /\ DOMAIN u = 1 .. Len(u) /\ DOMAIN t = 1 .. Len(t)
      /\ n \in Nat /\ Len(t) \in Nat
      /\ \A i \in 1 .. n : u[i] = s[i]
      /\ \A i \in n + 1 .. Len(u) : u[i] = t[i - n] /\ i - n \in 1 .. Len(t)
  BY ConcatProperties, LenProperties
<1> HIDE DEF u, n
<1>2. \A i \in DOMAIN u : \/ u[i].role # "tool" /\ u[i].calls = <<>> /\ Ids(u[i]) = {}
                          \/ i \in n + 1 .. Len(u)
  <2>1. ASSUME NEW i \in 1 .. n PROVE u[i].role # "tool" /\ u[i].calls = <<>> /\ Ids(u[i]) = {}
    <3>1. u[i].role # "tool" /\ u[i].calls = <<>>
      BY <1>1 DEF n
    <3>2. DOMAIN <<>> = {}
      OBVIOUS
    <3> QED BY <3>1, <3>2, Zenon DEF Ids
  <2>2. ASSUME NEW i \in DOMAIN u PROVE i \in 1 .. n \/ i \in n + 1 .. Len(u)
    BY <1>1
  <2> QED BY <2>1, <2>2, Zenon
<1>3. ASSUME NEW i \in DOMAIN u, u[i].calls # <<>> PROVE u[i].role = "assistant"
  <2>1. i \in n + 1 .. Len(u)
    BY <1>2, <1>3
  <2>2. u[i] = t[i - n] /\ i - n \in DOMAIN t
    BY <1>1, <2>1
  <2> QED BY <1>3, <2>2 DEF Ordered
<1>4. \A i \in DOMAIN u : \A k, l \in DOMAIN u[i].calls : k < l => u[i].calls[k] < u[i].calls[l]
  <2> SUFFICES ASSUME NEW i \in DOMAIN u
               PROVE  \A k, l \in DOMAIN u[i].calls : k < l => u[i].calls[k] < u[i].calls[l]
    OBVIOUS
  <2>1. CASE u[i].calls = <<>>
    BY <2>1
  <2>2. CASE i \in n + 1 .. Len(u)
    BY <1>1, <2>2 DEF Ordered
  <2> QED BY <1>2, <2>1, <2>2
<1>5. ASSUME NEW i \in DOMAIN u, NEW j \in DOMAIN u, i < j, u[i].role = "tool", u[j].role = "tool"
      PROVE  u[i].id < u[j].id
  <2>1. i \in n + 1 .. Len(u) /\ j \in n + 1 .. Len(u)
    BY <1>2, <1>5
  <2>2. u[i] = t[i - n] /\ u[j] = t[j - n] /\ i - n \in DOMAIN t /\ j - n \in DOMAIN t /\ i - n < j - n
    BY <1>1, <1>5, <2>1
  <2> QED BY <1>5, <2>2 DEF Ordered
<1>6. ASSUME NEW i \in DOMAIN u, NEW j \in DOMAIN u, u[j].role = "tool", u[j].id \in Ids(u[i])
      PROVE  i < j /\ \A l \in i + 1 .. j : u[l].role = "tool" /\ u[l].id \in Ids(u[i])
  <2>1. i \in n + 1 .. Len(u) /\ j \in n + 1 .. Len(u)
    BY <1>2, <1>6
  <2>2. u[i] = t[i - n] /\ u[j] = t[j - n] /\ i - n \in DOMAIN t /\ j - n \in DOMAIN t
    BY <1>1, <2>1
  <2>3. i - n < j - n /\ \A l \in i - n + 1 .. j - n : t[l].role = "tool" /\ t[l].id \in Ids(t[i - n])
    BY <1>6, <2>2 DEF Ordered
  <2>4. i < j
    BY <1>1, <2>1, <2>3
  <2>5. ASSUME NEW l \in i + 1 .. j PROVE u[l].role = "tool" /\ u[l].id \in Ids(u[i])
    <3>1. l \in n + 1 .. Len(u) /\ l - n \in i - n + 1 .. j - n
      BY <1>1, <2>1
    <3>2. u[l] = t[l - n]
      BY <1>1, <3>1
    <3> QED BY <2>2, <2>3, <3>1, <3>2
  <2> QED BY <2>4, <2>5
<1> QED BY <1>3, <1>4, <1>5, <1>6 DEF Ordered, u

-----------------------------------------------------------------------------
(* The steps to the window.                                                *)

\* Merging leaves a history in order and its last query in place.
LEMMA MergeDoes ==
    ASSUME NEW s \in Seq(Message)
    PROVE  /\ MergeMessages(s) \in Seq(Message)
           /\ Ordered(s) => Ordered(MergeMessages(s))
           /\ \A p \in DOMAIN s : IsQuery(s, p) =>
                \E k \in DOMAIN MergeMessages(s) : IsQuery(MergeMessages(s), k)
<1> DEFINE starts == {p \in 1 .. Len(s) : p = 1 \/ ~CanMerge(s[p - 1], s[p])}
           c == Cardinality(starts)
           o == InOrder(starts)
           Told(k) == UNION {s[q].text : q \in o[k] .. NextIn(s, starts, o[k]) - 1}
           t == MergeMessages(s)
<1>1. /\ Len(s) \in Nat /\ DOMAIN s = 1 .. Len(s) /\ \A i \in 1 .. Len(s) : s[i] \in Message
      /\ starts \in SUBSET (1 .. Len(s))
  BY LenProperties
<1>2. t = [k \in 1 .. c |-> [s[o[k]] EXCEPT !.text = Told(k)]]
  BY DEF MergeMessages
<1>3. ASSUME NEW p \in 1 .. Len(s), p \notin starts
      PROVE  p > 1 /\ s[p - 1].role = s[p].role
  BY <1>3 DEF CanMerge
<1>4. 1 \in 1 .. Len(s) => 1 \in starts
  OBVIOUS
<1> HIDE DEF starts, t
<1>5. /\ c \in Nat /\ o \in [1 .. c -> starts]
      /\ \A a, b \in 1 .. c : a < b => o[a] < o[b]
      /\ \A p \in starts : \E a \in 1 .. c : o[a] = p
  BY <1>1, InOrderDoes
<1> HIDE DEF c, o
<1>6. \A k \in 1 .. c : o[k] \in 1 .. Len(s) /\ o[k] \in 0 .. Len(s) /\ s[o[k]] \in Message
  <2>1. \A k \in 1 .. c : o[k] \in 1 .. Len(s)
    BY <1>1, <1>5
  <2>2. \A q \in 1 .. Len(s) : q \in 0 .. Len(s)
    BY <1>1
  <2> QED BY <1>1, <2>1, <2>2
<1>7. ASSUME NEW k \in 1 .. c PROVE Told(k) \in Text
  <2>1. NextIn(s, starts, o[k]) \in o[k] + 1 .. Len(s) + 1
    BY <1>1, <1>6, NextInDoes
  <2>2. \A q \in o[k] .. NextIn(s, starts, o[k]) - 1 : q \in 1 .. Len(s)
    BY <1>1, <1>6, <2>1
  <2>3. \A q \in o[k] .. NextIn(s, starts, o[k]) - 1 : s[q].text \subseteq 0 .. MaxTurns
    BY <1>1, <2>2, MessageFields DEF Text
  <2> QED BY <2>3 DEF Text
<1>8. \A k \in 1 .. c : /\ t[k] \in Message /\ t[k].role = s[o[k]].role /\ t[k].calls = s[o[k]].calls
                        /\ t[k].id = s[o[k]].id /\ t[k].text = Told(k)
  <2> SUFFICES ASSUME NEW k \in 1 .. c
               PROVE  /\ t[k] \in Message /\ t[k].role = s[o[k]].role /\ t[k].calls = s[o[k]].calls
                      /\ t[k].id = s[o[k]].id /\ t[k].text = Told(k)
    OBVIOUS
  <2>1. t[k] = [s[o[k]] EXCEPT !.text = Told(k)] /\ s[o[k]] \in Message /\ Told(k) \in Text
    BY <1>2, <1>6, <1>7
  <2> HIDE DEF Told
  <2> QED BY <2>1 DEF Message
<1>9. t \in Seq(Message) /\ Len(t) = c /\ DOMAIN t = 1 .. c
  <2>1. DOMAIN t = 1 .. c /\ t = [k \in 1 .. c |-> t[k]]
    BY <1>2
  <2>2. t \in [1 .. c -> Message]
    BY <1>8, <2>1
  <2> QED BY <1>5, <2>2
<1>10. Ordered(s) => Ordered(t)
  <2> SUFFICES ASSUME Ordered(s) PROVE Ordered(t)
    OBVIOUS
  <2>1. /\ \A a \in 1 .. Len(t) : o[a] \in 1 .. Len(s)
        /\ \A a, b \in 1 .. Len(t) : a < b => o[a] < o[b]
        /\ \A a \in 1 .. Len(t) : t[a].role = s[o[a]].role /\ t[a].id = s[o[a]].id /\ t[a].calls = s[o[a]].calls
    BY <1>5, <1>6, <1>8, <1>9
  <2> HIDE DEF Told
  <2> QED BY <1>9, <2>1, EmbeddedIsOrdered
<1>11. ASSUME NEW p \in DOMAIN s, IsQuery(s, p) PROVE \E k \in DOMAIN t : IsQuery(t, k)
  <2>0. /\ p \in 1 .. Len(s) /\ p \in Nat /\ 1 \in starts /\ s[p].role = "user" /\ turn \in s[p].text
        /\ \A q \in 1 .. Len(s) : q > p => s[q].role # "user"
    BY <1>1, <1>4, <1>11 DEF IsQuery
  <2>1. PICK q \in starts : /\ q <= p /\ p <= NextIn(s, starts, q) - 1
                            /\ \A r \in q + 1 .. p : r \notin starts
    BY <1>1, <2>0, StretchesCover
  <2>2. q \in 1 .. Len(s) /\ q \in Nat
    BY <1>1
  <2> DEFINE B == {r \in q .. p : s[r].role = "user"}
  <2>3. B \in SUBSET (1 .. Len(s)) /\ p \in B
    BY <1>1, <2>0, <2>1, <2>2
  <2>4. PICK b \in B : \A r \in B : b <= r
    <3> HIDE DEF B
    <3> QED BY <1>1, <2>3, SmallestExists
  <2>5. b \in q .. p /\ b \in Nat /\ b \in 1 .. Len(s) /\ s[b].role = "user"
    BY <1>1, <2>0, <2>2, <2>3
  <2>6. b = q
    <3> SUFFICES ASSUME b # q PROVE FALSE
      OBVIOUS
    <3>1. b \in q + 1 .. p /\ b - 1 \in q .. p /\ b - 1 < b
      BY <2>0, <2>2, <2>5
    <3>2. s[b - 1].role = "user"
      BY <1>3, <2>1, <2>5, <3>1
    <3>3. b - 1 \in B
      BY <3>1, <3>2
    <3> QED BY <2>4, <2>5, <3>1, <3>3
  <2> HIDE DEF B
  <2>7. PICK k \in 1 .. c : o[k] = q
    BY <1>5
  <2>8. t[k].role = "user" /\ turn \in t[k].text
    <3>1. NextIn(s, starts, o[k]) \in Int
      <4>1. NextIn(s, starts, o[k]) \in o[k] + 1 .. Len(s) + 1
        BY <1>1, <1>6, NextInDoes
      <4> QED BY <1>1, <2>2, <2>7, <4>1
    <3>2. p \in o[k] .. NextIn(s, starts, o[k]) - 1
      BY <2>0, <2>1, <2>2, <2>7, <3>1
    <3>3. turn \in Told(k)
      BY <2>0, <3>2
    <3> HIDE DEF Told
    <3> QED BY <1>8, <2>5, <2>6, <2>7, <3>3
  <2>9. ASSUME NEW l \in 1 .. c, l > k PROVE t[l].role # "user"
    <3>1. o[l] \in starts /\ o[l] > q /\ o[l] \in 1 .. Len(s)
      <4>1. o[k] < o[l]
        BY <1>5, <2>9
      <4> QED BY <1>5, <1>6, <2>2, <2>7, <4>1
    <3>2. o[l] > p
      BY <1>1, <2>0, <2>1, <2>2, <3>1
    <3> QED BY <1>8, <2>0, <3>1, <3>2
  <2> QED BY <1>9, <2>8, <2>9 DEF IsQuery
<1> QED BY <1>9, <1>10, <1>11 DEF t

\* The calls that have a result, of one message.
LEMMA AnsweredDoes ==
    ASSUME NEW ids \in Seq(Nat), NEW results
    PROVE  /\ Answered(ids, results) \in Seq(Nat)
           /\ \A x : (\E k \in DOMAIN Answered(ids, results) : x = Answered(ids, results)[k])
                     <=> x \in results /\ \E k \in DOMAIN ids : x = ids[k]
           /\ (\A k, l \in DOMAIN ids : k < l => ids[k] < ids[l])
                => \A k, l \in DOMAIN Answered(ids, results) :
                     k < l => Answered(ids, results)[k] < Answered(ids, results)[l]
<1> DEFINE S == {k \in DOMAIN ids : ids[k] \in results}
           r == Answered(ids, results)
           o == InOrder(S)
           c == Cardinality(S)
<1>1. DOMAIN ids = 1 .. Len(ids) /\ S \in SUBSET (1 .. Len(ids)) /\ Len(ids) \in Nat /\ r = Only(ids, S)
  BY LenProperties DEF Answered
<1>2. \A k : k \in S <=> k \in DOMAIN ids /\ ids[k] \in results
  OBVIOUS
<1> HIDE DEF S, r
<1>3. /\ r \in Seq(Nat) /\ Len(r) = c
      /\ \A a \in 1 .. c : o[a] \in S /\ r[a] = ids[o[a]]
      /\ \A a, b \in 1 .. c : a < b => o[a] < o[b]
      /\ \A p \in S : \E a \in 1 .. c : o[a] = p
  BY <1>1, OnlyDoes
<1> HIDE DEF o, c
<1>4. DOMAIN r = 1 .. c
  BY <1>3, LenProperties
<1>5. ASSUME NEW x
      PROVE (\E k \in DOMAIN r : x = r[k]) <=> x \in results /\ \E k \in DOMAIN ids : x = ids[k]
  <2>1. ASSUME NEW k \in DOMAIN r, x = r[k] PROVE x \in results /\ \E l \in DOMAIN ids : x = ids[l]
    <3>1. o[k] \in DOMAIN ids /\ ids[o[k]] \in results /\ x = ids[o[k]]
      BY <1>2, <1>3, <1>4, <2>1
    <3> QED BY <3>1
  <2>2. ASSUME NEW k \in DOMAIN ids, x = ids[k], x \in results PROVE \E l \in DOMAIN r : x = r[l]
    <3>1. k \in S
      BY <1>2, <2>2
    <3>2. PICK a \in 1 .. c : o[a] = k
      BY <1>3, <3>1
    <3> QED BY <1>3, <1>4, <2>2, <3>2
  <2> QED BY <2>1, <2>2
<1>6. ASSUME \A k, l \in DOMAIN ids : k < l => ids[k] < ids[l],
             NEW k \in DOMAIN r, NEW l \in DOMAIN r, k < l
      PROVE  r[k] < r[l]
  <2>1. o[k] < o[l] /\ o[k] \in DOMAIN ids /\ o[l] \in DOMAIN ids
    BY <1>2, <1>3, <1>4, <1>6
  <2>2. ids[o[k]] < ids[o[l]]
    BY <1>6, <2>1
  <2> QED BY <1>3, <1>4, <2>2
<1> QED BY <1>3, <1>5, <1>6 DEF r

\* Dropping the calls without a result: order and queries stay, and the calls
\* that stay have their results.
LEMMA DropOrphanDoes ==
    ASSUME NEW s \in Seq(Message)
    PROVE  LET t == DropOrphanToolCalls(s)
           IN  /\ t \in Seq(Message) /\ Len(t) <= Len(s)
               /\ Ordered(s) => Ordered(t)
               /\ \A i \in DOMAIN t : \A x \in Ids(t[i]) :
                    \E j \in DOMAIN t : t[j].role = "tool" /\ t[j].id = x
               /\ \A p \in DOMAIN s : s[p].role = "user" =>
                    \E k \in DOMAIN t : t[k].role = "user" /\ t[k].text = s[p].text
<1> DEFINE results == {s[i].id : i \in {j \in DOMAIN s : s[j].role = "tool"}}
           kept == [i \in DOMAIN s |-> [s[i] EXCEPT !.calls = Answered(@, results)]]
           S == {i \in DOMAIN s : s[i].role = "assistant" => s[i].text # {} \/ kept[i].calls # <<>>}
           t == Only(kept, S)
           o == InOrder(S)
           c == Cardinality(S)
<1>1. DropOrphanToolCalls(s) = t
  BY DEF DropOrphanToolCalls, Answered
<1>2. Len(s) \in Nat /\ DOMAIN s = 1 .. Len(s) /\ \A i \in 1 .. Len(s) : s[i] \in Message
  BY LenProperties
<1>3. \A x : x \in results <=> \E i \in 1 .. Len(s) : s[i].role = "tool" /\ s[i].id = x
  BY <1>2
<1> HIDE DEF results
<1>4. ASSUME NEW i \in 1 .. Len(s)
      PROVE  /\ kept[i] \in Message /\ kept[i].role = s[i].role /\ kept[i].text = s[i].text
             /\ kept[i].id = s[i].id /\ kept[i].calls = Answered(s[i].calls, results)
  <2>1. Answered(s[i].calls, results) \in Seq(Nat)
    BY <1>2, MessageFields, AnsweredDoes
  <2>2. kept[i] = [s[i] EXCEPT !.calls = Answered(s[i].calls, results)]
    BY <1>2
  <2>3. s[i] \in Message
    BY <1>2
  <2> HIDE DEF kept
  <2> QED BY <2>1, <2>2, <2>3 DEF Message
<1>5. ASSUME NEW i \in 1 .. Len(s), NEW x PROVE x \in Ids(kept[i]) <=> x \in results /\ x \in Ids(s[i])
  <2> DEFINE r == Answered(s[i].calls, results)
  <2>1. (\E k \in DOMAIN r : x = r[k]) <=> x \in results /\ \E k \in DOMAIN s[i].calls : x = s[i].calls[k]
    <3>1. s[i].calls \in Seq(Nat)
      BY <1>2, MessageFields
    <3> DEFINE ids == s[i].calls
    <3>2. ids \in Seq(Nat) /\ r = Answered(ids, results)
      BY <3>1
    <3> HIDE DEF ids, r, kept
    <3>3. \A y : (\E k \in DOMAIN r : y = r[k]) <=> y \in results /\ \E k \in DOMAIN ids : y = ids[k]
      BY <3>2, AnsweredDoes
    <3> QED BY <3>3 DEF ids
  <2>2. kept[i].calls = r
    BY <1>4
  <2> HIDE DEF r, kept
  <2> QED BY <2>1, <2>2 DEF Ids
<1>6. DOMAIN kept = 1 .. Len(s) /\ kept \in Seq(Message) /\ Len(kept) = Len(s)
  <2>1. DOMAIN kept = 1 .. Len(s) /\ kept = [i \in 1 .. Len(s) |-> kept[i]]
    BY <1>2
  <2> HIDE DEF kept
  <2>2. kept \in [1 .. Len(s) -> Message]
    BY <1>4, <2>1
  <2> QED BY <1>2, <2>2
<1>7. ASSUME Ordered(s) PROVE Ordered(kept)
  <2>1. ASSUME NEW i \in DOMAIN kept, NEW k \in DOMAIN kept[i].calls, NEW l \in DOMAIN kept[i].calls, k < l
        PROVE  kept[i].calls[k] < kept[i].calls[l]
    <3> DEFINE r == Answered(s[i].calls, results)
    <3>0. i \in 1 .. Len(s)
      BY <1>6
    <3>1. \A a, b \in DOMAIN s[i].calls : a < b => s[i].calls[a] < s[i].calls[b]
      BY <1>2, <1>7, <3>0 DEF Ordered
    <3>2. \A a, b \in DOMAIN r : a < b => r[a] < r[b]
      BY <1>2, <3>0, <3>1, MessageFields, AnsweredDoes
    <3>3. kept[i].calls = r
      BY <1>4, <3>0
    <3> HIDE DEF r, kept
    <3> QED BY <2>1, <3>2, <3>3
  <2> HIDE DEF kept
  <2>2. ASSUME NEW i \in DOMAIN kept, kept[i].calls # <<>> PROVE kept[i].role = "assistant"
    <3>1. i \in 1 .. Len(s) /\ kept[i] \in Message
      BY <1>4, <1>6
    <3>2. kept[i].calls \in Seq(Nat)
      BY <3>1, MessageFields
    <3>3. 1 \in DOMAIN kept[i].calls
      BY <2>2, <3>2
    <3>4. kept[i].calls[1] \in Ids(kept[i])
      BY <3>3 DEF Ids
    <3>5. Ids(s[i]) # {}
      BY <1>5, <3>1, <3>4
    <3>6. s[i].calls # <<>>
      <4>1. DOMAIN <<>> = {}
        OBVIOUS
      <4> QED BY <3>5, <4>1, Zenon DEF Ids
    <3> QED BY <1>2, <1>4, <1>7, <3>1, <3>6 DEF Ordered
  <2>3. ASSUME NEW i \in DOMAIN kept, NEW j \in DOMAIN kept, i < j, kept[i].role = "tool", kept[j].role = "tool"
        PROVE  kept[i].id < kept[j].id
    BY <1>2, <1>4, <1>6, <1>7, <2>3 DEF Ordered
  <2>4. ASSUME NEW i \in DOMAIN kept, NEW j \in DOMAIN kept, kept[j].role = "tool", kept[j].id \in Ids(kept[i])
        PROVE  i < j /\ \A l \in i + 1 .. j : kept[l].role = "tool" /\ kept[l].id \in Ids(kept[i])
    <3>1. i \in 1 .. Len(s) /\ j \in 1 .. Len(s) /\ s[j].role = "tool" /\ s[j].id \in Ids(s[i])
      BY <1>4, <1>5, <1>6, <2>4
    <3>2. i < j /\ \A l \in i + 1 .. j : s[l].role = "tool" /\ s[l].id \in Ids(s[i])
      BY <1>2, <1>7, <3>1 DEF Ordered
    <3>3. ASSUME NEW l \in i + 1 .. j PROVE kept[l].role = "tool" /\ kept[l].id \in Ids(kept[i])
      <4>1. l \in 1 .. Len(s)
        BY <1>2, <3>1
      <4>2. s[l].id \in results
        BY <1>3, <3>2, <4>1
      <4> QED BY <1>4, <1>5, <3>1, <3>2, <4>1, <4>2
    <3> QED BY <3>2, <3>3
  <2> QED BY <2>1, <2>2, <2>3, <2>4 DEF Ordered
<1>8. /\ S \in SUBSET (1 .. Len(s))
      /\ \A i \in 1 .. Len(s) : kept[i].role # "assistant" => i \in S
  BY <1>2, <1>4
<1> HIDE DEF S, kept
<1>9. S \in SUBSET (1 .. Len(kept))
  BY <1>6, <1>8
<1>10. /\ t \in Seq(Message) /\ Len(t) = c /\ c \in Nat /\ c <= Len(s)
       /\ \A a \in 1 .. c : o[a] \in S /\ t[a] = kept[o[a]]
       /\ \A p \in S : \E a \in 1 .. c : o[a] = p
  <2>1. /\ t \in Seq(Message) /\ Len(t) = c /\ c \in Nat /\ c <= Len(kept)
        /\ \A a \in 1 .. c : o[a] \in S /\ t[a] = kept[o[a]]
        /\ \A p \in S : \E a \in 1 .. c : o[a] = p
    BY <1>6, <1>9, OnlyDoes
  <2> HIDE DEF t, c, o
  <2> QED BY <1>6, <2>1
<1>11. Ordered(s) => Ordered(t)
  BY <1>6, <1>7, <1>9, OnlyIsOrdered
<1> HIDE DEF t, c, o
<1>12. DOMAIN t = 1 .. c
  BY <1>10, LenProperties
<1>13. ASSUME NEW p \in 1 .. Len(s), kept[p].role # "assistant"
       PROVE  \E k \in 1 .. c : t[k] = kept[p]
  <2>1. p \in S
    BY <1>8, <1>13
  <2>2. PICK a \in 1 .. c : o[a] = p
    BY <1>10, <2>1
  <2> QED BY <1>10, <2>2
<1>14. ASSUME NEW i \in DOMAIN t, NEW x \in Ids(t[i])
       PROVE  \E j \in DOMAIN t : t[j].role = "tool" /\ t[j].id = x
  <2>1. o[i] \in 1 .. Len(s) /\ t[i] = kept[o[i]]
    BY <1>8, <1>10, <1>12
  <2>2. x \in results
    BY <1>5, <2>1
  <2>3. PICK p \in 1 .. Len(s) : s[p].role = "tool" /\ s[p].id = x
    BY <1>3, <2>2
  <2>4. kept[p].role = "tool" /\ kept[p].id = x
    BY <1>4, <2>3
  <2>5. PICK k \in 1 .. c : t[k] = kept[p]
    BY <1>13, <2>4
  <2> QED BY <1>12, <2>4, <2>5
<1>15. ASSUME NEW p \in DOMAIN s, s[p].role = "user"
       PROVE  \E k \in DOMAIN t : t[k].role = "user" /\ t[k].text = s[p].text
  <2>1. p \in 1 .. Len(s) /\ kept[p].role = "user" /\ kept[p].text = s[p].text
    BY <1>2, <1>4, <1>15
  <2>2. PICK k \in 1 .. c : t[k] = kept[p]
    BY <1>13, <2>1
  <2> QED BY <1>12, <2>1, <2>2
<1> QED BY <1>1, <1>10, <1>11, <1>14, <1>15

\* Dropping what lost its partner: the rest is in order and complete, and no
\* query is dropped.
LEMMA DropUnpairedDoes ==
    ASSUME NEW s \in Seq(Message)
    PROVE  LET w == DropUnpairedToolMessages(s)
           IN  /\ w \in Seq(Message) /\ Len(w) <= Len(s)
               /\ Ordered(s) => Ordered(w) /\ Complete(w)
               /\ \A p \in DOMAIN s : s[p].role = "user" =>
                    \E k \in DOMAIN w : w[k].role = "user" /\ w[k].text = s[p].text
<1> DEFINE t == DropOrphanToolCalls(s)
           ids == UNION {{t[i].calls[k] : k \in DOMAIN t[i].calls} : i \in DOMAIN t}
           S == {i \in DOMAIN t : t[i].role = "tool" => t[i].id \in ids}
           w == Only(t, S)
           o == InOrder(S)
           c == Cardinality(S)
<1>1. DropUnpairedToolMessages(s) = w
  BY DEF DropUnpairedToolMessages
<1>2. /\ t \in Seq(Message) /\ Len(t) <= Len(s)
      /\ Ordered(s) => Ordered(t)
      /\ \A i \in DOMAIN t : \A x \in Ids(t[i]) : \E j \in DOMAIN t : t[j].role = "tool" /\ t[j].id = x
      /\ \A p \in DOMAIN s : s[p].role = "user" =>
           \E k \in DOMAIN t : t[k].role = "user" /\ t[k].text = s[p].text
  BY DropOrphanDoes
<1> HIDE DEF t
<1>3. /\ Len(t) \in Nat /\ Len(s) \in Nat /\ DOMAIN t = 1 .. Len(t)
      /\ \A x : x \in ids <=> \E i \in DOMAIN t : x \in Ids(t[i])
  BY <1>2, LenProperties DEF Ids
<1> HIDE DEF ids
<1>4. /\ S \in SUBSET (1 .. Len(t))
      /\ \A i \in DOMAIN t : i \in S <=> (t[i].role = "tool" => t[i].id \in ids)
  BY <1>3
<1> HIDE DEF S
<1>5. /\ w \in Seq(Message) /\ Len(w) = c /\ c \in Nat /\ c <= Len(t)
      /\ \A a \in 1 .. c : o[a] \in S /\ w[a] = t[o[a]]
      /\ \A p \in S : \E a \in 1 .. c : o[a] = p
  BY <1>2, <1>4, OnlyDoes
<1>6. Ordered(s) => Ordered(w)
  BY <1>2, <1>4, OnlyIsOrdered
<1> HIDE DEF w, o, c
<1>7. DOMAIN w = 1 .. c /\ Len(w) <= Len(s)
  BY <1>2, <1>3, <1>5, LenProperties
<1>8. ASSUME NEW p \in DOMAIN t, t[p].role = "tool" => t[p].id \in ids
      PROVE  \E k \in DOMAIN w : w[k] = t[p]
  <2>1. p \in S
    BY <1>4, <1>8
  <2>2. PICK a \in 1 .. c : o[a] = p
    BY <1>5, <2>1
  <2> QED BY <1>5, <1>7, <2>2
<1>9. ASSUME NEW i \in DOMAIN w PROVE o[i] \in DOMAIN t /\ w[i] = t[o[i]] /\ (w[i].role = "tool" => w[i].id \in ids)
  <2>1. o[i] \in S /\ w[i] = t[o[i]]
    BY <1>5, <1>7
  <2>2. o[i] \in DOMAIN t
    BY <1>3, <1>4, <2>1
  <2> QED BY <1>4, <2>1, <2>2
<1>10. ASSUME NEW i \in DOMAIN w, NEW x \in Ids(w[i])
       PROVE  \E j \in DOMAIN w : w[j].role = "tool" /\ w[j].id = x
  <2>1. o[i] \in DOMAIN t /\ x \in Ids(t[o[i]])
    BY <1>9
  <2>2. PICK j \in DOMAIN t : t[j].role = "tool" /\ t[j].id = x
    BY <1>2, <2>1
  <2>3. x \in ids
    BY <1>3, <2>1
  <2>4. PICK k \in DOMAIN w : w[k] = t[j]
    BY <1>8, <2>2, <2>3
  <2> QED BY <2>2, <2>4
<1>11. ASSUME Ordered(s), NEW j \in DOMAIN w, w[j].role = "tool"
       PROVE  \E i \in DOMAIN w : w[j].id \in Ids(w[i])
  <2>1. w[j].id \in ids
    BY <1>9, <1>11
  <2>2. PICK i \in DOMAIN t : w[j].id \in Ids(t[i])
    BY <1>3, <2>1
  <2>3. t[i].role # "tool"
    <3>1. DOMAIN <<>> = {}
      OBVIOUS
    <3>2. t[i].calls # <<>>
      BY <2>2, <3>1, Zenon DEF Ids
    <3>3. t[i].role = "assistant"
      BY <1>2, <1>11, <3>2 DEF Ordered
    <3> QED BY <3>3
  <2>4. PICK k \in DOMAIN w : w[k] = t[i]
    BY <1>8, <2>3
  <2> QED BY <2>2, <2>4
<1>12. Ordered(s) => Complete(w)
  BY <1>10, <1>11, Zenon DEF Complete
<1>13. ASSUME NEW p \in DOMAIN s, s[p].role = "user"
       PROVE  \E k \in DOMAIN w : w[k].role = "user" /\ w[k].text = s[p].text
  <2>1. PICK q \in DOMAIN t : t[q].role = "user" /\ t[q].text = s[p].text
    BY <1>2, <1>13
  <2>2. PICK k \in DOMAIN w : w[k] = t[q]
    BY <1>8, <2>1
  <2> QED BY <2>1, <2>2
<1> QED BY <1>1, <1>5, <1>6, <1>7, <1>12, <1>13

\* Cutting the oldest messages: a suffix of at most maxMessages is left.
LEMMA CutDoes ==
    ASSUME NEW s \in Seq(Message)
    PROVE  /\ CutOldest(s) \in Seq(Message) /\ Len(CutOldest(s)) <= MaxMessages
           /\ Ordered(s) => Ordered(CutOldest(s))
           /\ \A p \in 1 .. Len(s) : Len(s) - p < MaxMessages =>
                \E k \in DOMAIN CutOldest(s) : CutOldest(s)[k] = s[p]
<1> DEFINE t == CutOldest(s)
           m == Len(s) - MaxMessages + 1
<1>0. MaxMessages \in Nat /\ MaxMessages > 1 /\ Len(s) \in Nat /\ DOMAIN s = 1 .. Len(s)
  BY ConversationAssumption, LenProperties
<1>1. CASE Len(s) > MaxMessages
  <2>1. t = SubSeq(s, m, Len(s)) /\ m \in 1 .. Len(s) + 1 /\ Len(s) \in 0 .. Len(s)
    BY <1>0, <1>1 DEF CutOldest
  <2> HIDE DEF t
  <2>2. /\ t \in Seq(Message) /\ Len(t) = IF m <= Len(s) THEN Len(s) - m + 1 ELSE 0
        /\ \A a \in 1 .. Len(t) : t[a] = s[m + a - 1]
        /\ Ordered(s) => Ordered(t)
    BY <2>1, StretchIsOrdered
  <2>3. Len(t) = MaxMessages /\ DOMAIN t = 1 .. Len(t)
    BY <1>0, <1>1, <2>2
  <2>4. ASSUME NEW p \in 1 .. Len(s), Len(s) - p < MaxMessages PROVE \E k \in DOMAIN t : t[k] = s[p]
    <3>1. p - m + 1 \in 1 .. Len(t) /\ m + (p - m + 1) - 1 = p
      BY <1>0, <2>3, <2>4
    <3> QED BY <2>2, <2>3, <3>1
  <2> QED BY <1>0, <2>2, <2>3, <2>4 DEF t
<1>2. CASE ~(Len(s) > MaxMessages)
  <2>1. t = s
    BY <1>2 DEF CutOldest
  <2> QED BY <1>0, <1>2, <2>1
<1> QED BY <1>1, <1>2

\* A compressed segment: the segment itself, or plain messages in its place. Its
\* query stays in front, and there are no more than maxMessages.
LEMMA CompressDoes ==
    ASSUME NEW seg \in Seq(Message), Len(seg) > 0, NEW budget
    PROVE  LET c == CompressSegment(seg, budget)
           IN  /\ c \in Seq(Message) /\ Len(c) <= MaxMessages
               /\ c = seg \/ (Ordered(seg) => \A i \in 1 .. Len(c) : c[i].role # "tool" /\ c[i].calls = <<>>)
               /\ seg[1].role = "user" => Len(c) > 0 /\ c[1] = seg[1]
<1> DEFINE c == CompressSegment(seg, budget)
           told == {i \in DOMAIN seg : \/ seg[i].role = "tool"
                                       \/ /\ seg[i].role = "assistant"
                                          /\ seg[i].calls = <<>> /\ seg[i].text # {}}
           summary == Assistant({0}, <<>>)
           a == IF seg[1].role = "user" THEN <<seg[1]>> ELSE <<>>
           b == IF told # {} THEN <<summary>> ELSE <<>>
<1>0. MaxMessages \in Nat /\ MaxMessages > 1 /\ seg[1] \in Message /\ 1 \in DOMAIN seg
  BY ConversationAssumption
<1>1. CASE CalculateMessagesTokens(seg) <= budget /\ Len(seg) <= MaxMessages
  <2>1. c = seg
    BY <1>1 DEF CompressSegment
  <2> QED BY <1>1, <2>1
<1>2. CASE ~(CalculateMessagesTokens(seg) <= budget /\ Len(seg) <= MaxMessages)
  <2>1. c = a \o b
    BY <1>2 DEF CompressSegment
  <2>2. summary \in Message /\ summary.role = "assistant" /\ summary.calls = <<>>
    BY ConversationAssumption DEF Assistant, Message, Text
  <2> HIDE DEF summary, told, c
  <2>3. /\ a \in Seq(Message) /\ b \in Seq(Message)
        /\ Len(a) = (IF seg[1].role = "user" THEN 1 ELSE 0) /\ Len(b) = (IF told # {} THEN 1 ELSE 0)
        /\ seg[1].role = "user" => a[1] = seg[1]
        /\ \A i \in 1 .. Len(a) : a[i] = seg[1] /\ seg[1].role = "user"
        /\ \A i \in 1 .. Len(b) : b[i] = summary
    <3>1. a \in Seq(Message) /\ Len(a) = (IF seg[1].role = "user" THEN 1 ELSE 0)
      BY <1>0
    <3>2. b \in Seq(Message) /\ Len(b) = (IF told # {} THEN 1 ELSE 0)
      BY <2>2
    <3>3. \A i \in 1 .. Len(a) : a[i] = seg[1] /\ seg[1].role = "user"
      BY <1>0
    <3>4. \A i \in 1 .. Len(b) : b[i] = summary
      OBVIOUS
    <3> QED BY <3>1, <3>2, <3>3, <3>4
  <2> HIDE DEF a, b
  <2>4. /\ c \in Seq(Message) /\ Len(c) = Len(a) + Len(b)
        /\ \A i \in 1 .. Len(a) + Len(b) : c[i] = IF i <= Len(a) THEN a[i] ELSE b[i - Len(a)]
    BY <2>1, <2>3, ConcatProperties
  <2>5. Len(c) <= MaxMessages
    BY <1>0, <2>3, <2>4
  <2>6. ASSUME Ordered(seg), NEW i \in 1 .. Len(c) PROVE c[i].role # "tool" /\ c[i].calls = <<>>
    <3>1. c[i] = summary \/ (c[i] = seg[1] /\ seg[1].role = "user")
      BY <2>3, <2>4
    <3>2. seg[1].role = "user" => seg[1].calls = <<>>
      BY <1>0, <2>6 DEF Ordered
    <3> QED BY <2>2, <3>1, <3>2
  <2>7. seg[1].role = "user" => Len(c) > 0 /\ c[1] = seg[1]
    BY <2>3, <2>4
  <2> QED BY <2>4, <2>5, <2>6, <2>7 DEF c
<1> QED BY <1>1, <1>2

\* The window: it is in order and complete, it has at most maxMessages, and it
\* has the last query.
LEMMA WindowDoes ==
    ASSUME NEW s \in Seq(Message)
    PROVE  LET w == ApplyContextLimits(s)
           IN  /\ w \in Seq(Message) /\ Len(w) <= MaxMessages
               /\ Ordered(s) => Ordered(w) /\ Complete(w)
               /\ \A p \in DOMAIN s : IsQuery(s, p) =>
                    \E i \in DOMAIN w : w[i].role = "user" /\ turn \in w[i].text
<1> DEFINE m == MergeMessages(s)
           n == Len(m)
           segments == BuildMessageSegments(m)
           From(p) == SubSeq(m, p, n)
           Segment(p) == SubSeq(m, p, NextIn(m, segments, p) - 1)
           Fits(p) == /\ CalculateMessagesTokens(From(p)) <= MaxTokens
                      /\ \A q \in segments : q >= p => Len(Segment(q)) <= MaxMessages
           whole == {p \in segments : Fits(p)}
           from == NextIn(m, whole, 0)
           rest == {p \in segments : p < from}
           room == MaxTokens - CalculateMessagesTokens(From(from))
           boundary == CHOOSE p \in rest : \A q \in rest : q <= p
           budget == IF room > 1 THEN room ELSE 1
           x == IF rest = {} THEN <<>> ELSE CompressSegment(Segment(boundary), budget)
           y == x \o From(from)
           w == ApplyContextLimits(s)
<1>1. w = DropUnpairedToolMessages(CutOldest(y))
  BY DEF ApplyContextLimits
<1>2. /\ m \in Seq(Message) /\ n \in Nat /\ DOMAIN m = 1 .. n
      /\ Ordered(s) => Ordered(m)
      /\ \A p \in DOMAIN s : IsQuery(s, p) => \E k \in DOMAIN m : IsQuery(m, k)
  BY MergeDoes, LenProperties
<1> HIDE DEF m, w
<1>3. /\ segments \in SUBSET (1 .. n)
      /\ \A p \in 1 .. n : p \in segments <=> p = 1 \/ m[p].role = "user"
  BY DEF BuildMessageSegments
<1> HIDE DEF segments
<1>4. /\ whole \in SUBSET (1 .. n) /\ whole \subseteq segments
      /\ \A p \in whole, q \in segments : q >= p => Len(Segment(q)) <= MaxMessages
  BY <1>3
<1> HIDE DEF whole
<1>5. from \in 1 .. n + 1 /\ (from \in whole \/ from = n + 1)
  <2>1. 0 \in 0 .. n
    BY <1>2
  <2>2. from \in 0 + 1 .. n + 1 /\ (from \in whole \/ from = n + 1)
    BY <1>2, <1>4, <2>1, NextInDoes
  <2> QED BY <2>2
<1> HIDE DEF from, budget
<1>6. rest \in SUBSET (1 .. n) /\ \A p \in segments : p \in rest <=> p < from
  BY <1>3
<1>7. rest # {} => boundary \in rest /\ \A q \in rest : q <= boundary
  <2>1. rest # {} => \E p \in rest : \A q \in rest : q <= p
    <3> HIDE DEF rest
    <3> QED BY <1>2, <1>6, LargestExists
  <2> HIDE DEF rest
  <2> QED BY <2>1
<1>8. rest \subseteq segments
  OBVIOUS
<1> HIDE DEF rest, boundary
<1>9. ASSUME rest # {} PROVE boundary \in 1 .. n /\ NextIn(m, segments, boundary) = from
  <2> DEFINE nb == NextIn(m, segments, boundary)
  <2>1. boundary \in 1 .. n /\ boundary \in 0 .. n /\ boundary \in segments /\ boundary < from
        /\ boundary \in Nat /\ from \in Nat
    <3>1. boundary \in segments /\ boundary < from
      BY <1>6, <1>7, <1>8, <1>9
    <3>2. boundary \in 1 .. n
      BY <1>3, <3>1
    <3> QED BY <1>2, <1>5, <3>1, <3>2
  <2>2. /\ nb \in boundary + 1 .. n + 1
        /\ nb \in segments \/ nb = n + 1
        /\ \A q \in segments : q > boundary => nb <= q
    BY <1>2, <1>3, <2>1, NextInDoes
  <2> HIDE DEF nb
  <2>3. nb \in Nat /\ nb > boundary /\ nb <= n + 1
    BY <1>2, <2>1, <2>2
  <2>4. nb <= from
    <3>1. from \in segments => nb <= from
      BY <2>1, <2>2
    <3> QED BY <1>4, <1>5, <2>3, <3>1
  <2>5. ~(nb < from)
    <3> SUFFICES ASSUME nb < from PROVE FALSE
      OBVIOUS
    <3>1. nb \in segments
      BY <1>2, <1>5, <2>1, <2>2
    <3>2. nb \in rest
      BY <1>6, <3>1
    <3>3. nb <= boundary
      BY <1>7, <1>9, <3>2
    <3> QED BY <2>1, <2>3, <3>3
  <2> QED BY <2>1, <2>3, <2>4, <2>5 DEF nb
<1>10. /\ From(from) \in Seq(Message) /\ Len(From(from)) = n + 1 - from
       /\ \A a \in 1 .. Len(From(from)) : From(from)[a] = m[from + a - 1]
       /\ Ordered(m) => Ordered(From(from))
  <2>1. n \in 0 .. n
    BY <1>2
  <2>2. /\ From(from) \in Seq(Message) /\ Len(From(from)) = IF from <= n THEN n - from + 1 ELSE 0
        /\ \A a \in 1 .. Len(From(from)) : From(from)[a] = m[from + a - 1]
        /\ Ordered(m) => Ordered(From(from))
    BY <1>2, <1>5, <2>1, StretchIsOrdered
  <2> QED BY <1>2, <1>5, <2>2
<1>11. ASSUME rest # {}
       PROVE  /\ Segment(boundary) = SubSeq(m, boundary, from - 1)
              /\ Segment(boundary) \in Seq(Message) /\ Len(Segment(boundary)) > 0
              /\ Segment(boundary)[1] = m[boundary]
              /\ Ordered(m) => Ordered(Segment(boundary))
  <2> DEFINE g == SubSeq(m, boundary, from - 1)
  <2>1. Segment(boundary) = g
    BY <1>9, <1>11
  <2>2. /\ boundary \in 1 .. n + 1 /\ from - 1 \in 0 .. n /\ boundary <= from - 1
        /\ boundary \in Int /\ from \in Int
    BY <1>2, <1>5, <1>6, <1>7, <1>8, <1>9, <1>11
  <2>3. /\ g \in Seq(Message) /\ Len(g) = IF boundary <= from - 1 THEN from - 1 - boundary + 1 ELSE 0
        /\ \A a \in 1 .. Len(g) : g[a] = m[boundary + a - 1]
        /\ Ordered(m) => Ordered(g)
    BY <1>2, <2>2, StretchIsOrdered
  <2> HIDE DEF g
  <2>4. Len(g) > 0 /\ 1 \in 1 .. Len(g) /\ boundary + 1 - 1 = boundary
    BY <2>2, <2>3
  <2>5. g[1] = m[boundary]
    BY <2>3, <2>4
  <2> HIDE DEF Segment
  <2> QED BY <2>1, <2>3, <2>4, <2>5 DEF g
<1> HIDE DEF Segment
<1>12. /\ x \in Seq(Message) /\ Len(x) <= MaxMessages
       /\ x = <<>> \/ (rest # {} /\ x = Segment(boundary))
          \/ (Ordered(m) => \A i \in 1 .. Len(x) : x[i].role # "tool" /\ x[i].calls = <<>>)
       /\ rest # {} /\ m[boundary].role = "user" => Len(x) > 0 /\ x[1] = m[boundary]
  <2>1. CASE rest = {}
    <3>1. x = <<>> /\ MaxMessages \in Nat
      BY <2>1, ConversationAssumption
    <3> QED BY <2>1, <3>1
  <2>2. CASE rest # {}
    <3> DEFINE g == Segment(boundary)
    <3>1. x = CompressSegment(g, budget)
      BY <2>2
    <3>2. g \in Seq(Message) /\ Len(g) > 0 /\ g[1] = m[boundary] /\ (Ordered(m) => Ordered(g))
      BY <1>11, <2>2
    <3> HIDE DEF g, x
    <3>3. /\ x \in Seq(Message) /\ Len(x) <= MaxMessages
          /\ x = g \/ (Ordered(g) => \A i \in 1 .. Len(x) : x[i].role # "tool" /\ x[i].calls = <<>>)
          /\ g[1].role = "user" => Len(x) > 0 /\ x[1] = g[1]
      BY <3>1, <3>2, CompressDoes
    <3> QED BY <2>2, <3>2, <3>3 DEF g
  <2> QED BY <2>1, <2>2
<1> HIDE DEF x
<1>13. /\ y \in Seq(Message) /\ Len(y) = Len(x) + Len(From(from))
       /\ \A i \in 1 .. Len(x) + Len(From(from)) : y[i] = IF i <= Len(x) THEN x[i] ELSE From(from)[i - Len(x)]
  BY <1>10, <1>12, ConcatProperties
<1>14. ASSUME Ordered(s) PROVE Ordered(y)
  <2>0. Ordered(m) /\ Ordered(From(from))
    BY <1>2, <1>10, <1>14
  <2>1. CASE x = <<>>
    <3>1. y = From(from)
      BY <1>10, <2>1, ConcatEmptySeq
    <3> QED BY <2>0, <3>1
  <2>2. CASE rest # {} /\ x = Segment(boundary)
    <3>1. x = SubSeq(m, boundary, from - 1) /\ boundary \in 1 .. n + 1 /\ from - 1 \in boundary - 1 .. n
          /\ n \in from - 1 .. n /\ n \in 0 .. n /\ from - 1 + 1 = from
      BY <1>2, <1>5, <1>6, <1>7, <1>8, <1>9, <1>11, <2>2
    <3>2. SubSeq(m, boundary, from - 1) \o SubSeq(m, from - 1 + 1, n) = SubSeq(m, boundary, n)
      BY <1>2, <3>1, ConcatAdjacentSubSeq
    <3>3. y = SubSeq(m, boundary, n)
      BY <3>1, <3>2
    <3> QED BY <1>2, <2>0, <3>1, <3>3, StretchIsOrdered
  <2>3. CASE \A i \in 1 .. Len(x) : x[i].role # "tool" /\ x[i].calls = <<>>
    <3> DEFINE z == From(from)
    <3>1. z \in Seq(Message) /\ Ordered(z) /\ y = x \o z
      BY <1>10, <2>0
    <3> HIDE DEF z, y
    <3> QED BY <1>12, <2>3, <3>1, PlainInFront
  <2> QED BY <1>12, <2>0, <2>1, <2>2, <2>3
<1>15. ASSUME NEW p \in DOMAIN s, IsQuery(s, p)
       PROVE  \E i \in 1 .. Len(y) : y[i].role = "user" /\ turn \in y[i].text /\ Len(y) - i < MaxMessages
  <2>1. PICK P \in DOMAIN m : IsQuery(m, P)
    BY <1>2, <1>15
  <2>2. /\ P \in 1 .. n /\ P \in 0 .. n /\ P \in Nat /\ m[P].role = "user" /\ turn \in m[P].text
        /\ \A q \in 1 .. n : q > P => m[q].role # "user"
    BY <1>2, <2>1 DEF IsQuery
  <2>3. P \in segments /\ \A q \in segments : q <= P
    <3>1. ASSUME NEW q \in segments, q > P PROVE FALSE
      <4>1. q \in 1 .. n /\ q # 1 /\ m[q].role # "user"
        BY <1>3, <2>2, <3>1
      <4> QED BY <1>3, <4>1
    <3>2. \A q \in segments : q \in Nat
      BY <1>3
    <3> QED BY <1>3, <2>2, <3>1, <3>2
  <2>4. Len(Segment(P)) = n - P + 1
    <3>1. /\ NextIn(m, segments, P) \in P + 1 .. n + 1
          /\ NextIn(m, segments, P) \in segments \/ NextIn(m, segments, P) = n + 1
      BY <1>2, <1>3, <2>2, NextInDoes
    <3>2. NextIn(m, segments, P) = n + 1
      BY <2>2, <2>3, <3>1
    <3>3. Segment(P) = SubSeq(m, P, n) /\ P \in 1 .. n + 1 /\ n \in 0 .. n /\ n + 1 - 1 = n
      BY <1>2, <2>2, <3>2 DEF Segment
    <3> QED BY <1>2, <2>2, <3>3, StretchIsOrdered
  <2>5. Len(x) \in Nat /\ MaxMessages \in Nat /\ MaxMessages > 1 /\ from \in Nat
    BY <1>2, <1>5, <1>12, ConversationAssumption
  <2>6. CASE from <= P
    <3>1. from \in whole
      BY <1>2, <1>5, <2>2, <2>6
    <3>2. n - P + 1 <= MaxMessages
      BY <1>4, <2>2, <2>3, <2>4, <2>5, <2>6, <3>1
    <3> DEFINE a == P - from + 1
               i == Len(x) + a
    <3>3. a \in 1 .. Len(From(from)) /\ from + a - 1 = P
      BY <1>2, <1>10, <2>2, <2>5, <2>6
    <3>4. From(from)[a] = m[P]
      BY <1>10, <3>3
    <3>5. i \in 1 .. Len(x) + Len(From(from)) /\ ~(i <= Len(x)) /\ i - Len(x) = a
      BY <1>2, <1>5, <1>10, <2>2, <2>5, <2>6
    <3>6. Len(y) - i < MaxMessages
      BY <1>2, <1>10, <1>13, <2>2, <2>5, <3>2
    <3> HIDE DEF i, a, y, From
    <3>7. y[i] = m[P]
      BY <1>13, <3>4, <3>5
    <3>8. i \in 1 .. Len(y)
      BY <1>13, <3>5
    <3> QED BY <2>2, <3>6, <3>7, <3>8
  <2>7. CASE ~(from <= P)
    <3>1. P \in rest
      BY <1>6, <2>2, <2>3, <2>5, <2>7
    <3>2. boundary = P
      <4>1. boundary \in segments /\ P <= boundary
        BY <1>7, <1>8, <3>1
      <4>2. boundary <= P /\ boundary \in Nat
        BY <1>3, <2>3, <4>1
      <4> QED BY <2>2, <4>1, <4>2
    <3>3. from = n + 1
      BY <1>4, <1>5, <2>3, <2>7
    <3>4. Len(x) > 0 /\ x[1] = m[P]
      BY <1>12, <2>2, <3>1, <3>2
    <3>5. Len(y) = Len(x)
      BY <1>2, <1>10, <1>13, <2>5, <3>3
    <3>6. 1 \in 1 .. Len(x) + Len(From(from)) /\ 1 <= Len(x) /\ 1 \in 1 .. Len(y)
      BY <1>2, <1>10, <2>5, <3>3, <3>4, <3>5
    <3> HIDE DEF y, From
    <3>7. y[1] = m[P]
      BY <1>13, <3>4, <3>6
    <3>8. Len(y) - 1 < MaxMessages
      BY <1>12, <2>5, <3>5
    <3> QED BY <2>2, <3>6, <3>7, <3>8
  <2> QED BY <2>6, <2>7
<1> HIDE DEF y
<1> DEFINE z == CutOldest(y)
<1>16. /\ z \in Seq(Message) /\ Len(z) <= MaxMessages
       /\ Ordered(y) => Ordered(z)
       /\ \A i \in 1 .. Len(y) : Len(y) - i < MaxMessages => \E k \in DOMAIN z : z[k] = y[i]
  BY <1>13, CutDoes
<1> HIDE DEF z
<1>17. /\ w \in Seq(Message) /\ Len(w) <= Len(z)
       /\ Ordered(z) => Ordered(w) /\ Complete(w)
       /\ \A k \in DOMAIN z : z[k].role = "user" => \E i \in DOMAIN w : w[i].role = "user" /\ w[i].text = z[k].text
  <2>1. w = DropUnpairedToolMessages(z)
    BY <1>1 DEF z
  <2> QED BY <1>16, <2>1, DropUnpairedDoes
<1>18. Len(w) <= MaxMessages
  BY <1>16, <1>17, ConversationAssumption
<1>19. ASSUME NEW p \in DOMAIN s, IsQuery(s, p)
       PROVE  \E i \in DOMAIN w : w[i].role = "user" /\ turn \in w[i].text
  <2>1. PICK i \in 1 .. Len(y) : y[i].role = "user" /\ turn \in y[i].text /\ Len(y) - i < MaxMessages
    BY <1>15, <1>19
  <2>2. PICK k \in DOMAIN z : z[k] = y[i]
    BY <1>16, <2>1
  <2>3. PICK j \in DOMAIN w : w[j].role = "user" /\ w[j].text = z[k].text
    BY <1>17, <2>1, <2>2
  <2> QED BY <2>1, <2>2, <2>3
<1> QED BY <1>14, <1>16, <1>17, <1>18, <1>19 DEF w

-----------------------------------------------------------------------------
(* Requests.                                                               *)

\* In a window in order and complete the results of a message's calls are at
\* once after it, one by one, and every result is there for such a message.
LEMMA PairsInPlace ==
    ASSUME NEW w \in Seq(Message), Ordered(w), Complete(w)
    PROVE  /\ \A i \in 1 .. Len(w) : \A k \in 1 .. Len(w[i].calls) :
                i + k <= Len(w) /\ w[i + k].role = "tool" /\ w[i + k].id = w[i].calls[k]
           /\ \A j \in 1 .. Len(w) : w[j].role = "tool" =>
                \E i \in 1 .. j - 1 : j - i \in 1 .. Len(w[i].calls)
<1>0. /\ Len(w) \in Nat /\ DOMAIN w = 1 .. Len(w) /\ \A i \in 1 .. Len(w) : w[i] \in Message
  BY LenProperties
<1>1. \A i \in 1 .. Len(w) : /\ w[i].calls \in Seq(Nat) /\ w[i].id \in Nat
                             /\ DOMAIN w[i].calls = 1 .. Len(w[i].calls) /\ Len(w[i].calls) \in Nat
                             /\ \A k \in 1 .. Len(w[i].calls) : w[i].calls[k] \in Nat
  BY <1>0, MessageFields, LenProperties
<1>2. ASSUME NEW i \in 1 .. Len(w), NEW k \in 1 .. Len(w[i].calls)
      PROVE  i + k <= Len(w) /\ w[i + k].role = "tool" /\ w[i + k].id = w[i].calls[k]
  <2> DEFINE cs == w[i].calls
             n == Len(cs)
             Right(l) == i + l <= Len(w) /\ w[i + l].role = "tool" /\ w[i + l].id = cs[l]
             B == {l \in 1 .. n : ~Right(l)}
  <2>1. n \in Nat /\ i \in Nat /\ DOMAIN cs = 1 .. n /\ \A l \in 1 .. n : cs[l] \in Nat
    BY <1>0, <1>1
  <2>2. \A a, b \in 1 .. n : a < b => cs[a] < cs[b]
    BY <1>0, <2>1 DEF Ordered
  <2>3. \A x : x \in Ids(w[i]) <=> \E l \in 1 .. n : x = cs[l]
    BY <2>1 DEF Ids
  <2> HIDE DEF cs, n
  <2>4. SUFFICES ASSUME B # {} PROVE FALSE
    <3>1. B = {} => Right(k)
      BY DEF n, cs
    <3> HIDE DEF B
    <3> QED BY <3>1 DEF cs
  <2>5. B \in SUBSET (1 .. n)
    OBVIOUS
  <2>6. PICK b \in B : \A l \in B : b <= l
    <3> HIDE DEF B
    <3> QED BY <2>1, <2>4, <2>5, SmallestExists
  <2>7. b \in 1 .. n /\ b \in Nat /\ ~Right(b)
    BY <2>1
  <2>8. ASSUME NEW l \in 1 .. n, l < b PROVE Right(l)
    <3>1. l \notin B
      <4> HIDE DEF B
      <4> QED BY <2>1, <2>6, <2>7, <2>8
    <3> QED BY <3>1
  <2> HIDE DEF B
  <2>9. PICK j \in 1 .. Len(w) : w[j].role = "tool" /\ w[j].id = cs[b]
    <3>1. cs[b] \in Ids(w[i])
      BY <2>3, <2>7
    <3> QED BY <1>0, <3>1 DEF Complete
  <2>10. i < j /\ \A l \in i + 1 .. j : w[l].role = "tool" /\ w[l].id \in Ids(w[i])
    <3>1. w[j].id \in Ids(w[i])
      BY <2>3, <2>7, <2>9
    <3> QED BY <1>0, <2>9, <3>1 DEF Ordered
  <2>11. j \in Nat /\ i + b <= j
    <3>0. j \in Nat
      BY <1>0
    <3> SUFFICES ASSUME ~(i + b <= j) PROVE FALSE
      BY <3>0
    <3>1. j - i \in 1 .. n /\ j - i < b /\ i + (j - i) = j
      BY <2>1, <2>7, <2>10, <3>0
    <3>2. w[j].id = cs[j - i]
      BY <2>8, <3>1
    <3>3. cs[j - i] < cs[b] /\ cs[b] \in Nat
      BY <2>1, <2>2, <2>7, <3>1
    <3> QED BY <2>9, <3>2, <3>3
  <2>12. i + b \in i + 1 .. j /\ i + b \in 1 .. Len(w)
    BY <1>0, <2>1, <2>7, <2>11
  <2>13. w[i + b].role = "tool" /\ w[i + b].id \in Ids(w[i])
    BY <2>10, <2>12
  <2>14. PICK l \in 1 .. n : w[i + b].id = cs[l]
    BY <2>3, <2>13
  <2>15. ~(l < b)
    <3> SUFFICES ASSUME l < b PROVE FALSE
      OBVIOUS
    <3>1. i + l \in 1 .. Len(w) /\ i + l < i + b /\ w[i + l].role = "tool" /\ w[i + l].id = cs[l]
      BY <1>0, <2>1, <2>7, <2>8
    <3>2. w[i + l].id < w[i + b].id
      BY <1>0, <2>12, <2>13, <3>1 DEF Ordered
    <3> QED BY <2>1, <2>14, <3>1, <3>2
  <2>16. cs[b] <= cs[l] /\ cs[b] \in Nat /\ cs[l] \in Nat
    <3>1. b = l \/ b < l
      BY <2>1, <2>7, <2>15
    <3>2. cs[b] = cs[l] \/ cs[b] < cs[l]
      BY <2>2, <2>7, <3>1
    <3> QED BY <2>1, <2>7, <3>2
  <2>17. i + b = j
    <3> SUFFICES ASSUME i + b # j PROVE FALSE
      OBVIOUS
    <3>1. i + b < j
      BY <2>1, <2>7, <2>11
    <3>2. w[i + b].id < w[j].id
      BY <1>0, <2>9, <2>12, <2>13, <3>1 DEF Ordered
    <3> QED BY <2>9, <2>14, <2>16, <3>2
  <2>18. Right(b)
    BY <1>0, <2>9, <2>17
  <2> QED BY <2>7, <2>18
<1>3. ASSUME NEW j \in 1 .. Len(w), w[j].role = "tool"
      PROVE  \E i \in 1 .. j - 1 : j - i \in 1 .. Len(w[i].calls)
  <2>1. PICK i \in 1 .. Len(w) : w[j].id \in Ids(w[i])
    BY <1>0, <1>3 DEF Complete
  <2>2. PICK k \in 1 .. Len(w[i].calls) : w[j].id = w[i].calls[k]
    BY <1>1, <2>1 DEF Ids
  <2>3. i + k <= Len(w) /\ w[i + k].role = "tool" /\ w[i + k].id = w[j].id
    BY <1>2, <2>2
  <2>4. i \in Nat /\ j \in Nat /\ k \in Nat /\ k >= 1 /\ i >= 1 /\ i + k \in 1 .. Len(w) /\ w[j].id \in Nat
    BY <1>0, <1>1, <2>3
  <2>5. ~(j < i + k) /\ ~(i + k < j)
    BY <1>0, <1>3, <2>3, <2>4 DEF Ordered
  <2>6. j = i + k
    BY <2>4, <2>5
  <2>7. i \in 1 .. j - 1 /\ j - i = k
    BY <2>4, <2>6
  <2> QED BY <2>7
<1> QED BY <1>2, <1>3

\* The window and the runtime note after it.
LEMMA NoteAppended ==
    ASSUME NEW w \in Seq(Message)
    PROVE  LET s == Append(w, RuntimeNote)
           IN  /\ s \in Seq(Message \cup {RuntimeNote}) /\ Len(s) = Len(w) + 1 /\ DOMAIN s = 1 .. Len(w) + 1
               /\ \A i \in 1 .. Len(w) : s[i] = w[i]
               /\ s[Len(w) + 1] = RuntimeNote
               /\ RuntimeNote.role = "system" /\ RuntimeNote.calls = <<>>
<1>1. w \in Seq(Message \cup {RuntimeNote})
  BY SeqMonotonic
<1> QED BY <1>1, AppendProperties, LenProperties DEF RuntimeNote

\* The chat form: calls and results in pairs.
LEMMA OpenAiPaired ==
    ASSUME NEW w \in Seq(Message), Ordered(w), Complete(w)
    PROVE  Paired(OpenAiFormat(Append(w, RuntimeNote), TRUE))
<1> DEFINE s == Append(w, RuntimeNote)
           r == OpenAiFormat(s, TRUE)
           n == Len(w)
<1>0. /\ n \in Nat /\ DOMAIN w = 1 .. n
      /\ \A i \in 1 .. n : w[i].calls \in Seq(Nat) /\ Len(w[i].calls) \in Nat
  <2>1. n \in Nat /\ DOMAIN w = 1 .. n /\ \A i \in 1 .. n : w[i] \in Message
    BY LenProperties
  <2>2. \A i \in 1 .. n : w[i].calls \in Seq(Nat)
    BY <2>1, MessageFields
  <2> QED BY <2>1, <2>2, LenProperties
<1>1. /\ DOMAIN s = 1 .. n + 1 /\ \A i \in 1 .. n : s[i] = w[i]
      /\ s[n + 1].role = "system" /\ s[n + 1].calls = <<>>
  BY NoteAppended
<1>2. r = [i \in DOMAIN s |-> Entry(s[i].role, s[i].text, s[i].calls,
                                    IF s[i].role = "tool" THEN {s[i].id} ELSE {})]
  BY DEF OpenAiFormat
<1> HIDE DEF s, r
<1>3. \A i \in 1 .. n + 1 : /\ r[i].role = s[i].role /\ r[i].calls = s[i].calls
                            /\ r[i].results = IF s[i].role = "tool" THEN {s[i].id} ELSE {}
  BY <1>1, <1>2 DEF Entry
<1>4. DOMAIN r = 1 .. n + 1 /\ Len(r) = n + 1
  <2>1. DOMAIN r = 1 .. n + 1
    BY <1>1, <1>2
  <2> DEFINE e(i) == Entry(s[i].role, s[i].text, s[i].calls, IF s[i].role = "tool" THEN {s[i].id} ELSE {})
  <2>2. r = [i \in 1 .. n + 1 |-> e(i)]
    BY <1>1, <1>2
  <2> HIDE DEF e
  <2>3. Len(r) = n + 1
    BY <1>0, <2>2
  <2> QED BY <2>1, <2>3
<1>5. /\ \A i \in 1 .. n : \A k \in 1 .. Len(w[i].calls) :
           i + k <= n /\ w[i + k].role = "tool" /\ w[i + k].id = w[i].calls[k]
      /\ \A j \in 1 .. n : w[j].role = "tool" => \E i \in 1 .. j - 1 : j - i \in 1 .. Len(w[i].calls)
  BY PairsInPlace
<1>6. ASSUME NEW i \in 1 .. n + 1, r[i].calls # <<>>
      PROVE  /\ i + Len(r[i].calls) <= n + 1
             /\ \A k \in 1 .. Len(r[i].calls) : r[i + k].role = "tool" /\ r[i + k].results = {r[i].calls[k]}
  <2>1. i \in 1 .. n /\ r[i].calls = w[i].calls
    <3>1. i # n + 1
      BY <1>1, <1>3, <1>6
    <3>2. i \in 1 .. n
      BY <1>0, <3>1
    <3> QED BY <1>1, <1>3, <3>2
  <2>2. Len(w[i].calls) \in Nat /\ Len(w[i].calls) # 0
    BY <1>0, <1>6, <2>1
  <2>3. i + Len(w[i].calls) <= n
    BY <1>5, <2>1, <2>2
  <2>4. ASSUME NEW k \in 1 .. Len(w[i].calls) PROVE r[i + k].role = "tool" /\ r[i + k].results = {w[i].calls[k]}
    <3>1. i + k \in 1 .. n /\ w[i + k].role = "tool" /\ w[i + k].id = w[i].calls[k]
      BY <1>0, <1>5, <2>1, <2>2
    <3>2. i + k \in 1 .. n + 1 /\ s[i + k] = w[i + k]
      BY <1>0, <1>1, <3>1
    <3> QED BY <1>3, <3>1, <3>2
  <2> QED BY <1>0, <2>1, <2>2, <2>3, <2>4
<1>7. ASSUME NEW j \in 1 .. n + 1, r[j].role = "tool"
      PROVE  \E i \in 1 .. j - 1 : j <= i + Len(r[i].calls)
  <2>1. j \in 1 .. n /\ w[j].role = "tool"
    <3>1. s[j].role = "tool"
      BY <1>3, <1>7
    <3>2. j # n + 1
      BY <1>1, <3>1
    <3>3. j \in 1 .. n
      BY <1>0, <3>2
    <3> QED BY <1>1, <3>1, <3>3
  <2>2. PICK i \in 1 .. j - 1 : j - i \in 1 .. Len(w[i].calls)
    BY <1>5, <2>1
  <2>3. i \in 1 .. n /\ i \in 1 .. n + 1 /\ i \in Nat /\ j \in Nat
    BY <1>0, <2>1
  <2>4. r[i].calls = w[i].calls
    BY <1>1, <1>3, <2>3
  <2>5. j <= i + Len(w[i].calls)
    BY <1>0, <2>2, <2>3
  <2> QED BY <2>4, <2>5
<1> QED BY <1>4, <1>6, <1>7 DEF Paired, r, s

\* Without the system messages the request has the window.
LEMMA SpokenIsWindow ==
    ASSUME NEW w \in Seq(Message), NEW s, s = Append(w, RuntimeNote)
    PROVE  Only(s, {p \in 1 .. Len(s) : s[p].role # "system"}) = w
<1> DEFINE n == Len(w)
           S == {p \in 1 .. Len(s) : s[p].role # "system"}
<1>1. /\ n \in Nat /\ w \in [1 .. n -> Message] /\ \A i \in 1 .. n : w[i] \in Message
      /\ Len(s) = n + 1 /\ \A i \in 1 .. n : s[i] = w[i]
      /\ s[n + 1].role = "system"
  BY NoteAppended, LenProperties
<1>2. S = 1 .. n
  <2>1. \A i \in 1 .. n : s[i].role # "system"
    BY <1>1, MessageFields
  <2>2. \A i \in 1 .. n + 1 : i \in 1 .. n \/ i = n + 1
    BY <1>1
  <2>3. \A i \in 1 .. n : i \in 1 .. n + 1
    BY <1>1
  <2> QED BY <1>1, <2>1, <2>2, <2>3
<1> HIDE DEF n
<1>3. ASSUME NEW k \in 0 .. n PROVE Cardinality(1 .. k) = k
  <2>1. k \in Int /\ 1 \in Int
    BY <1>1
  <2>2. Cardinality(1 .. k) = IF 1 > k THEN 0 ELSE k - 1 + 1
    BY <2>1, FS_Interval
  <2> QED BY <1>1, <2>2
<1>4. Cardinality(1 .. n) = n
  BY <1>1, <1>3
<1>5. ASSUME NEW k \in 1 .. n PROVE InOrder(1 .. n)[k] = k
  <2>1. \A p \in 1 .. n : Cardinality({q \in 1 .. n : q <= p}) = p
    <3> SUFFICES ASSUME NEW p \in 1 .. n PROVE Cardinality({q \in 1 .. n : q <= p}) = p
      OBVIOUS
    <3>1. {q \in 1 .. n : q <= p} = 1 .. p
      BY <1>1
    <3>2. p \in 0 .. n
      BY <1>1
    <3> QED BY <1>3, <3>1, <3>2
  <2>2. InOrder(1 .. n)[k] = CHOOSE p \in 1 .. n : Cardinality({q \in 1 .. n : q <= p}) = k
    BY <1>4 DEF InOrder
  <2> DEFINE c == CHOOSE p \in 1 .. n : Cardinality({q \in 1 .. n : q <= p}) = k
  <2>3. c \in 1 .. n /\ Cardinality({q \in 1 .. n : q <= c}) = k
    BY <2>1
  <2> HIDE DEF c
  <2>4. c = k
    BY <2>1, <2>3
  <2> QED BY <2>2, <2>4 DEF c
<1>6. Only(s, 1 .. n) = [k \in 1 .. n |-> s[InOrder(1 .. n)[k]]]
  BY <1>4 DEF Only
<1>7. Only(s, 1 .. n) = [k \in 1 .. n |-> w[k]]
  BY <1>1, <1>5, <1>6
<1>8. Only(s, 1 .. n) = w
  BY <1>1, <1>7
<1> QED BY <1>2, <1>8

\* Folding, with the calls and without.
LEMMA FoldedIs ==
    ASSUME NEW s, NEW starts, NEW c, c = Cardinality(starts)
    PROVE  /\ Folded(s, starts, TRUE) = Entries(s, starts, [k \in 1 .. c |-> s[InOrder(starts)[k]].calls])
           /\ Folded(s, starts, FALSE) = Entries(s, starts, [k \in 1 .. c |-> <<>>])
BY DEF Folded, Entries, ResultsIn

\* The entries, by their starts.
LEMMA EntriesDo ==
    ASSUME NEW s, NEW starts, NEW cs, Cardinality(starts) \in Nat
    PROVE  LET r == Entries(s, starts, cs)
               c == Cardinality(starts)
               o == InOrder(starts)
           IN  /\ DOMAIN r = 1 .. c /\ Len(r) = c /\ (r = <<>> <=> c = 0)
               /\ \A k \in 1 .. c :
                    /\ s[o[k]].role = "tool" => r[k].role = "user"
                    /\ s[o[k]].role # "tool" => r[k].role = s[o[k]].role
                    /\ r[k].calls = cs[k]
                    /\ r[k].results = ResultsIn(s, o[k] .. NextIn(s, starts, o[k]) - 1)
<1> DEFINE r == Entries(s, starts, cs)
           c == Cardinality(starts)
           o == InOrder(starts)
           Span(k) == o[k] .. NextIn(s, starts, o[k]) - 1
           Role(k) == IF s[o[k]].role = "tool" THEN "user" ELSE s[o[k]].role
           Told(k) == UNION {s[q].text : q \in Span(k)}
           Results(k) == ResultsIn(s, Span(k))
           e(k) == Entry(Role(k), Told(k), cs[k], Results(k))
<1>1. r = [k \in 1 .. c |-> e(k)]
  BY DEF Entries
<1>2. c \in Nat
  OBVIOUS
<1> HIDE DEF r, c, o
<1>3. ASSUME NEW k \in 1 .. c
      PROVE  /\ r[k].role = Role(k) /\ r[k].calls = cs[k] /\ r[k].results = Results(k)
  <2>1. r[k] = e(k)
    BY <1>1
  <2> HIDE DEF Role, Told, Results
  <2> QED BY <2>1 DEF Entry
<1>4. DOMAIN r = 1 .. c /\ Len(r) = c /\ (r = <<>> <=> c = 0)
  <2> HIDE DEF e
  <2>1. DOMAIN r = 1 .. c
    BY <1>1
  <2>2. Len(r) = c
    BY <1>1, <1>2
  <2>3. c = 0 => r = <<>>
    BY <1>1
  <2> QED BY <1>2, <2>1, <2>2, <2>3
<1> QED BY <1>3, <1>4 DEF r, c, o

\* Anthropic's form: results follow their calls in one user entry.
LEMMA NativePaired ==
    ASSUME NEW w \in Seq(Message), Ordered(w), Complete(w),
           NEW r, r = AnthropicFormat(Append(w, RuntimeNote), TRUE)
    PROVE  /\ \A k \in DOMAIN r :
                /\ r[k].role # "system"
                /\ LET due == IF k = 1 THEN <<>> ELSE r[k - 1].calls
                   IN  r[k].results = {due[l] : l \in DOMAIN due}
           /\ r # <<>> => r[Len(r)].calls = <<>>
<1> DEFINE n == Len(w)
           starts == {p \in 1 .. Len(w) : ~(w[p].role = "tool" /\ p > 1 /\ w[p - 1].role = "tool")}
           c == Cardinality(starts)
           o == InOrder(starts)
<1>1. r = Folded(w, starts, TRUE)
  <2> DEFINE s == Append(w, RuntimeNote)
             spoken == Only(s, {p \in 1 .. Len(s) : s[p].role # "system"})
  <2>1. spoken = w
    BY SpokenIsWindow
  <2>2. r = Folded(spoken, {p \in 1 .. Len(spoken) :
                     ~(spoken[p].role = "tool" /\ p > 1 /\ spoken[p - 1].role = "tool")}, TRUE)
    BY DEF AnthropicFormat
  <2> HIDE DEF spoken
  <2> QED BY <2>1, <2>2
<1>2. /\ n \in Nat /\ DOMAIN w = 1 .. n /\ starts \in SUBSET (1 .. n)
      /\ \A i \in 1 .. n : /\ w[i].role \in {"user", "assistant", "tool"} /\ w[i].calls \in Seq(Nat)
                           /\ Len(w[i].calls) \in Nat /\ DOMAIN w[i].calls = 1 .. Len(w[i].calls)
                           /\ w[i].calls # <<>> => w[i].role = "assistant" /\ Len(w[i].calls) > 0
  <2>1. n \in Nat /\ DOMAIN w = 1 .. n /\ \A i \in 1 .. n : w[i] \in Message
    BY LenProperties
  <2>2. \A i \in 1 .. n : w[i].role \in {"user", "assistant", "tool"} /\ w[i].calls \in Seq(Nat)
    BY <2>1, MessageFields
  <2>3. \A i \in 1 .. n : w[i].calls # <<>> => w[i].role = "assistant" /\ Len(w[i].calls) > 0
    BY <2>1, <2>2, EmptySeq DEF Ordered
  <2> QED BY <2>1, <2>2, <2>3, LenProperties
<1>3. \A p \in 1 .. n : p \in starts <=> ~(w[p].role = "tool" /\ p > 1 /\ w[p - 1].role = "tool")
  OBVIOUS
<1>4. /\ \A i \in 1 .. n : \A k \in 1 .. Len(w[i].calls) :
           i + k <= n /\ w[i + k].role = "tool" /\ w[i + k].id = w[i].calls[k]
      /\ \A j \in 1 .. n : w[j].role = "tool" => \E i \in 1 .. j - 1 : j - i \in 1 .. Len(w[i].calls)
  BY PairsInPlace
<1> HIDE DEF starts
<1>a. starts \in SUBSET (1 .. Len(w)) /\ c = Cardinality(starts) /\ o = InOrder(starts)
  BY <1>2
<1> HIDE DEF c, o
<1>5. /\ c \in Nat /\ \A k \in 1 .. c : o[k] \in starts
      /\ \A a, b \in 1 .. c : a < b => o[a] < o[b]
      /\ \A p \in starts : \E a \in 1 .. c : o[a] = p
  BY <1>a, OnlyDoes
<1> DEFINE cs == [k \in 1 .. c |-> w[o[k]].calls]
<1>b. r = Entries(w, starts, cs)
  BY <1>1, <1>a, FoldedIs
<1>c. \A k \in 1 .. c : cs[k] = w[o[k]].calls
  OBVIOUS
<1> HIDE DEF cs
<1>d. DOMAIN r = 1 .. c /\ Len(r) = c /\ (r = <<>> <=> c = 0)
  BY <1>5, <1>a, <1>b, EntriesDo
<1>e. ASSUME NEW k \in 1 .. c
      PROVE  /\ w[o[k]].role = "tool" => r[k].role = "user"
             /\ w[o[k]].role # "tool" => r[k].role = w[o[k]].role
             /\ r[k].calls = w[o[k]].calls
             /\ r[k].results = ResultsIn(w, o[k] .. NextIn(w, starts, o[k]) - 1)
  <2>1. /\ w[o[k]].role = "tool" => r[k].role = "user"
        /\ w[o[k]].role # "tool" => r[k].role = w[o[k]].role
        /\ r[k].calls = cs[k]
        /\ r[k].results = ResultsIn(w, o[k] .. NextIn(w, starts, o[k]) - 1)
    <3>1. Cardinality(starts) \in Nat
      BY <1>5, <1>a
    <3>2. \A h \in 1 .. Cardinality(starts) :
            /\ w[InOrder(starts)[h]].role = "tool" => Entries(w, starts, cs)[h].role = "user"
            /\ w[InOrder(starts)[h]].role # "tool" => Entries(w, starts, cs)[h].role = w[InOrder(starts)[h]].role
            /\ Entries(w, starts, cs)[h].calls = cs[h]
            /\ Entries(w, starts, cs)[h].results
                 = ResultsIn(w, InOrder(starts)[h] .. NextIn(w, starts, InOrder(starts)[h]) - 1)
      BY <3>1, EntriesDo
    <3> QED BY <1>a, <1>b, <3>2, Zenon
  <2> QED BY <1>c, <2>1
<1>6. \A k \in 1 .. c : o[k] \in 1 .. n /\ o[k] \in 0 .. n /\ o[k] \in Nat
  <2>1. \A q \in starts : q \in 1 .. n /\ q \in 0 .. n /\ q \in Nat
    BY <1>2
  <2> QED BY <1>5, <2>1
\* A message with calls is followed by a start, the first of its results.
<1>7. ASSUME NEW i \in 1 .. n, w[i].calls # <<>>
      PROVE  /\ i \in starts /\ i + 1 \in starts /\ i + 1 \in 1 .. n /\ w[i + 1].role = "tool"
  <2>1. w[i].role = "assistant" /\ Len(w[i].calls) > 0 /\ Len(w[i].calls) \in Nat /\ i \in Nat
    BY <1>2, <1>7
  <2>2. 1 \in 1 .. Len(w[i].calls)
    BY <2>1
  <2>3. i + 1 <= n /\ w[i + 1].role = "tool"
    BY <1>4, <2>2
  <2>4. i + 1 \in 1 .. n /\ i + 1 - 1 = i
    BY <1>2, <2>1, <2>3
  <2> QED BY <1>3, <2>1, <2>3, <2>4
<1>8. ASSUME NEW k \in 1 .. c, w[o[k]].calls # <<>>
      PROVE  k + 1 \in 1 .. c /\ o[k + 1] = o[k] + 1
  <2>1. o[k] + 1 \in starts /\ o[k] \in Nat
    BY <1>6, <1>7, <1>8
  <2>2. PICK b \in 1 .. c : o[b] = o[k] + 1
    BY <1>5, <2>1
  <2>3. ~(b <= k)
    <3> SUFFICES ASSUME b <= k PROVE FALSE
      OBVIOUS
    <3>1. b = k \/ b < k
      BY <1>5
    <3>2. o[b] = o[k] \/ o[b] < o[k]
      BY <1>5, <3>1
    <3> QED BY <2>1, <2>2, <3>2
  <2>4. k + 1 \in 1 .. c /\ (k + 1 = b \/ k + 1 < b) /\ k < k + 1
    BY <1>5, <2>3
  <2>5. o[k] < o[k + 1] /\ (o[k + 1] = o[b] \/ o[k + 1] < o[b]) /\ o[k + 1] \in Nat
    BY <1>5, <1>6, <2>4
  <2> QED BY <2>1, <2>2, <2>4, <2>5
<1>9. ASSUME NEW k \in 1 .. c PROVE r[k].role # "system"
  <2>1. w[o[k]].role \in {"user", "assistant", "tool"}
    BY <1>2, <1>6
  <2> QED BY <1>e, <2>1
<1>10. ASSUME r # <<>> PROVE r[Len(r)].calls = <<>>
  <2>1. c # 0 /\ Len(r) = c
    BY <1>d, <1>10
  <2>2. c \in 1 .. c /\ ~(c + 1 \in 1 .. c)
    BY <1>5, <2>1
  <2>3. w[o[c]].calls = <<>>
    BY <1>8, <2>2
  <2> QED BY <1>e, <2>1, <2>2, <2>3
<1>11. ASSUME NEW k \in 1 .. c, w[o[k]].role # "tool"
       PROVE  /\ r[k].results = {}
              /\ k # 1 => r[k - 1].calls = <<>>
  <2> DEFINE nx == NextIn(w, starts, o[k])
  <2>1. /\ nx \in o[k] + 1 .. n + 1
        /\ \A q \in starts : q > o[k] => nx <= q
        /\ nx \in starts \/ nx = n + 1
    BY <1>2, <1>6, NextInDoes
  <2> HIDE DEF nx
  <2>2. o[k] + 1 \in 1 .. n => o[k] + 1 \in starts
    <3> DEFINE p == o[k] + 1
    <3>1. p - 1 = o[k]
      BY <1>6
    <3>2. w[p - 1].role # "tool"
      BY <1>11, <3>1
    <3> HIDE DEF p
    <3>3. p \in 1 .. n => p \in starts
      BY <1>3, <3>2
    <3> QED BY <3>3 DEF p
  <2>3. nx = o[k] + 1
    <3>1. o[k] \in Nat /\ o[k] \in 1 .. n /\ n \in Nat /\ nx \in Nat /\ nx >= o[k] + 1 /\ nx <= n + 1
      BY <1>2, <1>6, <2>1
    <3>2. CASE o[k] = n
      BY <3>1, <3>2
    <3>3. CASE o[k] # n
      <4>1. o[k] + 1 \in 1 .. n /\ o[k] + 1 > o[k]
        BY <3>1, <3>3
      <4>2. nx <= o[k] + 1
        BY <2>1, <2>2, <4>1
      <4> QED BY <3>1, <4>2
    <3> QED BY <3>2, <3>3
  <2>4. \A q \in o[k] .. nx - 1 : q = o[k]
    BY <1>6, <2>3
  <2>5. r[k].results = {}
    <3>1. ResultsIn(w, o[k] .. nx - 1) = {}
      BY <1>11, <2>4, Zenon DEF ResultsIn
    <3> QED BY <1>e, <3>1 DEF nx
  <2>6. ASSUME k # 1 PROVE r[k - 1].calls = <<>>
    <3> SUFFICES ASSUME r[k - 1].calls # <<>> PROVE FALSE
      OBVIOUS
    <3>1. k - 1 \in 1 .. c /\ k - 1 + 1 = k
      BY <1>5, <2>6
    <3>2. w[o[k - 1]].calls # <<>>
      BY <1>e, <3>1
    <3>3. o[k] = o[k - 1] + 1
      BY <1>8, <3>1, <3>2
    <3>4. w[o[k - 1] + 1].role = "tool"
      BY <1>6, <1>7, <3>1, <3>2
    <3> QED BY <1>11, <3>3, <3>4
  <2> QED BY <2>5, <2>6
<1>12. ASSUME NEW k \in 1 .. c, w[o[k]].role = "tool"
       PROVE  /\ k # 1
              /\ r[k].results = Ids(r[k - 1])
  <2> DEFINE j == o[k]
             i == o[k] - 1
             m == Len(w[i].calls)
             nx == NextIn(w, starts, j)
  <2>0. j \in 1 .. n /\ j \in Nat /\ j \in starts /\ w[j].role = "tool"
    BY <1>5, <1>6, <1>12
  <2>1. i \in 1 .. n /\ 1 \in 1 .. m /\ i + 1 = j /\ i \in Nat
    <3>1. PICK h \in 1 .. j - 1 : j - h \in 1 .. Len(w[h].calls)
      BY <1>4, <2>0
    <3>2. h \in 1 .. n /\ h \in Nat /\ j > 1 /\ Len(w[h].calls) \in Nat
      BY <1>2, <2>0
    <3>3. w[j - 1].role # "tool"
      BY <1>3, <2>0, <3>2
    <3>4. j - h = 1
      <4> SUFFICES ASSUME j - h # 1 PROVE FALSE
        OBVIOUS
      <4>1. j - 1 - h \in 1 .. Len(w[h].calls) /\ h + (j - 1 - h) = j - 1
        <5>1. j - h \in Nat /\ j - h >= 1 /\ j - h <= Len(w[h].calls)
          BY <2>0, <3>1, <3>2
        <5> HIDE DEF j
        <5> QED BY <2>0, <3>2, <5>1
      <4> QED BY <1>4, <3>2, <3>3, <4>1
    <3>5. h = i
      BY <2>0, <3>2, <3>4
    <3>6. i \in 1 .. n /\ 1 \in 1 .. m
      BY <3>1, <3>2, <3>4, <3>5
    <3> QED BY <2>0, <3>2, <3>5, <3>6
  <2>2. w[i].calls # <<>> /\ m \in Nat /\ w[i].role = "assistant" /\ DOMAIN w[i].calls = 1 .. m
    <3>1. m \in Nat /\ DOMAIN w[i].calls = 1 .. m
      BY <1>2, <2>1
    <3>2. w[i].calls # <<>>
      BY <2>1, <3>1
    <3> QED BY <1>2, <2>1, <3>1, <3>2
  <2>3. k # 1 /\ r[k - 1].calls = w[i].calls
    <3>1. i \in starts
      BY <1>7, <2>1, <2>2
    <3>2. PICK a \in 1 .. c : o[a] = i
      BY <1>5, <3>1
    <3>3. a + 1 \in 1 .. c /\ o[a + 1] = o[k]
      BY <1>8, <2>1, <2>2, <3>2
    <3>4. ~(a + 1 < k) /\ ~(k < a + 1)
      BY <1>5, <1>6, <3>3
    <3>5. a + 1 = k
      BY <1>5, <3>3, <3>4
    <3>6. k - 1 = a /\ k # 1
      BY <1>5, <3>5
    <3> QED BY <1>e, <3>2, <3>6
  <2>4. /\ nx \in j + 1 .. n + 1
        /\ nx \in starts \/ (nx = n + 1 /\ \A q \in starts : q <= j)
        /\ \A q \in starts : q > j => nx <= q
    BY <1>2, <1>6, NextInDoes
  <2>5. \A l \in 1 .. m : i + l \in 1 .. n /\ w[i + l].role = "tool" /\ w[i + l].id = w[i].calls[l]
    <3>1. \A l \in 1 .. m : i + l <= n /\ w[i + l].role = "tool" /\ w[i + l].id = w[i].calls[l]
      BY <1>4, <2>1
    <3> HIDE DEF i, m
    <3>2. \A l \in 1 .. m : i + l <= n => i + l \in 1 .. n
      BY <1>2, <2>1, <2>2
    <3> QED BY <3>1, <3>2
  <2>6. \A l \in 1 .. m : w[i + l].calls = <<>>
    BY <1>2, <2>5
  <2> HIDE DEF nx, m, i, j
  <2>7. nx = i + m + 1
    <3>1. nx \in Nat /\ nx > j /\ nx <= n + 1 /\ i + m <= n
      <4>1. m \in 1 .. m
        BY <2>1, <2>2
      <4> QED BY <1>2, <2>0, <2>1, <2>2, <2>4, <2>5, <4>1
    <3>2. ~(nx < i + m + 1)
      <4> SUFFICES ASSUME nx < i + m + 1 PROVE FALSE
        OBVIOUS
      <4>1. nx - i \in 1 .. m /\ nx - 1 - i \in 1 .. m /\ i + (nx - i) = nx /\ i + (nx - 1 - i) = nx - 1
            /\ nx \in 1 .. n /\ nx > 1
        <5>1. nx \in Int /\ i \in Int /\ m \in Int /\ n \in Int /\ nx > i + 1 /\ i >= 1 /\ i + m <= n
          BY <1>2, <2>0, <2>1, <2>2, <3>1
        <5> QED BY <5>1
      <4>2. w[nx].role = "tool" /\ w[nx - 1].role = "tool"
        BY <2>5, <4>1
      <4>3. nx \notin starts
        BY <1>3, <4>1, <4>2
      <4>4. nx # n + 1
        BY <1>2, <4>1
      <4> QED BY <2>4, <4>3, <4>4
    <3>3. ~(nx > i + m + 1)
      <4> SUFFICES ASSUME nx > i + m + 1 PROVE FALSE
        OBVIOUS
      <4> DEFINE q == i + m + 1
      <4>1. q \in 1 .. n /\ q > j /\ q \in Nat /\ q - 1 = i + m /\ q > 1
        BY <1>2, <2>1, <2>2, <3>1
      <4>2. q \notin starts
        BY <2>4, <3>1, <4>1
      <4>3. w[q].role = "tool"
        BY <1>3, <4>1, <4>2
      <4>4. PICK h \in 1 .. q - 1 : q - h \in 1 .. Len(w[h].calls)
        BY <1>4, <4>1, <4>3
      <4>5. h \in 1 .. n /\ h \in Nat /\ Len(w[h].calls) \in Nat /\ Len(w[h].calls) > 0
        BY <1>2, <4>1, <4>4
      <4>6. h # i
        BY <2>1, <2>2, <4>1, <4>4 DEF m
      <4>7. ~(h > i)
        <5> SUFFICES ASSUME h > i PROVE FALSE
          OBVIOUS
        <5>1. h - i \in 1 .. m /\ i + (h - i) = h
          BY <2>1, <2>2, <4>1, <4>4, <4>5
        <5>2. w[h].calls = <<>>
          BY <2>6, <5>1
        <5> QED BY <4>5, <5>2
      <4>8. ~(h < i)
        <5> SUFFICES ASSUME h < i PROVE FALSE
          OBVIOUS
        <5>1. i - h \in 1 .. Len(w[h].calls) /\ h + (i - h) = i
          BY <2>1, <2>2, <4>1, <4>4, <4>5
        <5>2. w[i].role = "tool"
          BY <1>4, <4>5, <5>1
        <5> QED BY <2>2, <5>2
      <4> QED BY <2>1, <4>5, <4>6, <4>7, <4>8
    <3> QED BY <2>1, <2>2, <3>1, <3>2, <3>3
  <2>8. ASSUME NEW q \in j .. nx - 1 PROVE w[q].role = "tool" /\ w[q].id \in Ids(w[i])
    <3>1. q - i \in 1 .. m /\ i + (q - i) = q
      BY <2>0, <2>1, <2>2, <2>7
    <3>2. w[q].role = "tool" /\ w[q].id = w[i].calls[q - i]
      BY <2>5, <3>1
    <3> QED BY <2>2, <3>1, <3>2 DEF Ids
  <2>9. ASSUME NEW x \in Ids(w[i]) PROVE \E q \in j .. nx - 1 : w[q].role = "tool" /\ w[q].id = x
    <3>1. PICK l \in 1 .. m : x = w[i].calls[l]
      BY <2>2 DEF Ids
    <3>2. i + l \in j .. nx - 1
      BY <2>0, <2>1, <2>2, <2>7
    <3> QED BY <2>5, <3>1, <3>2
  <2>10. ResultsIn(w, j .. nx - 1) = Ids(w[i])
    <3> DEFINE Z == j .. nx - 1
    <3>1. \A q \in Z : w[q].role = "tool" /\ w[q].id \in Ids(w[i])
      BY <2>8
    <3>2. \A x \in Ids(w[i]) : \E q \in Z : w[q].role = "tool" /\ w[q].id = x
      BY <2>9
    <3> HIDE DEF Z
    <3>3. ResultsIn(w, Z) = Ids(w[i])
      BY <3>1, <3>2 DEF ResultsIn
    <3> QED BY <3>3 DEF Z
  <2>11. r[k].results = Ids(w[i])
    BY <1>e, <2>10 DEF nx, j
  <2>12. Ids(r[k - 1]) = Ids(w[i])
    BY <2>3 DEF Ids
  <2> QED BY <2>3, <2>11, <2>12
<1>14. DOMAIN r = 1 .. c
  BY <1>d
<1>13. ASSUME NEW k \in DOMAIN r
       PROVE  LET due == IF k = 1 THEN <<>> ELSE r[k - 1].calls
              IN  r[k].results = {due[l] : l \in DOMAIN due}
  <2> DEFINE due == IF k = 1 THEN <<>> ELSE r[k - 1].calls
  <2>1. CASE w[o[k]].role # "tool"
    <3>1. due = <<>> /\ r[k].results = {}
      BY <1>11, <1>14, <2>1
    <3>2. DOMAIN <<>> = {}
      OBVIOUS
    <3> HIDE DEF due
    <3>3. r[k].results = {due[l] : l \in DOMAIN due}
      BY <3>1, <3>2, Zenon
    <3> QED BY <3>3 DEF due
  <2>2. CASE w[o[k]].role = "tool"
    <3>1. due = r[k - 1].calls /\ r[k].results = Ids(r[k - 1])
      BY <1>12, <1>14, <2>2
    <3> HIDE DEF due
    <3>2. r[k].results = {due[l] : l \in DOMAIN due}
      BY <3>1, Zenon DEF Ids
    <3> QED BY <3>2 DEF due
  <2> QED BY <2>1, <2>2
<1>15. \A k \in DOMAIN r : r[k].role # "system"
  BY <1>9, <1>14
<1> QED BY <1>10, <1>13, <1>15, Zenon

\* Prompt-only form: no entry refers to calls, and every result is told by a
\* user entry.
LEMMA FallbackTells ==
    ASSUME NEW T, NEW s \in Seq(T), NEW r, r = FallbackFormat(s)
    PROVE  /\ \A i \in DOMAIN r : r[i].role # "tool" /\ r[i].calls = <<>>
           /\ \A j \in 1 .. Len(s) : s[j].role = "tool" =>
                \E i \in DOMAIN r : r[i].role = "user" /\ s[j].id \in r[i].results
<1> DEFINE n == Len(s)
           starts == {p \in 1 .. Len(s) : ~(s[p].role = "tool" /\ p > 1 /\ s[p - 1].role \in {"user", "tool"})}
           c == Cardinality(starts)
           o == InOrder(starts)
           cs == [k \in 1 .. c |-> <<>>]
<1>1. n \in Nat /\ starts \in SUBSET (1 .. n) /\ (1 \in 1 .. n => 1 \in starts)
  BY LenProperties
<1>2. \A p \in 1 .. n : p \in starts <=> ~(s[p].role = "tool" /\ p > 1 /\ s[p - 1].role \in {"user", "tool"})
  OBVIOUS
<1>3. r = Folded(s, starts, FALSE)
  BY DEF FallbackFormat
<1> HIDE DEF starts
<1>4. c \in Nat /\ (\A p \in starts : \E a \in 1 .. c : o[a] = p)
  BY <1>1, OnlyDoes
<1>5. r = Entries(s, starts, cs) /\ \A k \in 1 .. c : cs[k] = <<>>
  BY <1>3, FoldedIs
<1> HIDE DEF cs
<1>6. /\ DOMAIN r = 1 .. c
      /\ \A k \in 1 .. c :
           /\ s[o[k]].role = "tool" => r[k].role = "user"
           /\ s[o[k]].role # "tool" => r[k].role = s[o[k]].role
           /\ r[k].calls = cs[k]
           /\ r[k].results = ResultsIn(s, o[k] .. NextIn(s, starts, o[k]) - 1)
  <2>1. Cardinality(starts) \in Nat
    BY <1>4
  <2>2. /\ DOMAIN Entries(s, starts, cs) = 1 .. Cardinality(starts)
        /\ \A h \in 1 .. Cardinality(starts) :
            /\ s[InOrder(starts)[h]].role = "tool" => Entries(s, starts, cs)[h].role = "user"
            /\ s[InOrder(starts)[h]].role # "tool" => Entries(s, starts, cs)[h].role = s[InOrder(starts)[h]].role
            /\ Entries(s, starts, cs)[h].calls = cs[h]
            /\ Entries(s, starts, cs)[h].results
                 = ResultsIn(s, InOrder(starts)[h] .. NextIn(s, starts, InOrder(starts)[h]) - 1)
    BY <2>1, EntriesDo
  <2> QED BY <1>5, <2>2, Zenon
<1> HIDE DEF c, o
<1>7. ASSUME NEW i \in DOMAIN r PROVE r[i].role # "tool" /\ r[i].calls = <<>>
  <2>1. /\ i \in 1 .. c /\ r[i].calls = cs[i]
        /\ s[o[i]].role = "tool" => r[i].role = "user"
        /\ s[o[i]].role # "tool" => r[i].role = s[o[i]].role
    BY <1>6
  <2> QED BY <1>5, <2>1
<1>8. ASSUME NEW j \in 1 .. n, s[j].role = "tool"
      PROVE  \E i \in DOMAIN r : r[i].role = "user" /\ s[j].id \in r[i].results
  <2>1. 1 \in starts /\ n \in Nat /\ starts \in SUBSET (1 .. n)
    BY <1>1
  <2>2. PICK p \in starts : p <= j /\ j <= NextIn(s, starts, p) - 1 /\ \A q \in p + 1 .. j : q \notin starts
    BY <2>1, StretchesCover
  <2>3. p \in 1 .. n /\ p \in 0 .. n /\ p \in Nat /\ j \in Nat
    BY <1>1
  <2>4. s[p].role \in {"user", "tool"}
    <3>1. CASE p = j
      BY <1>8, <3>1
    <3>2. CASE p # j
      <4> DEFINE q == p + 1
      <4>1. q \in p + 1 .. j /\ q \in 1 .. n /\ q - 1 = p
        BY <1>1, <2>2, <2>3, <3>2
      <4>2. q \notin starts
        BY <2>2, <4>1
      <4> HIDE DEF q
      <4>3. s[q - 1].role \in {"user", "tool"}
        BY <1>2, <4>1, <4>2
      <4> QED BY <4>1, <4>3
    <3> QED BY <3>1, <3>2
  <2>5. PICK k \in 1 .. c : o[k] = p
    BY <1>4
  <2>6. r[k].role = "user"
    <3>1. /\ s[o[k]].role = "tool" => r[k].role = "user"
          /\ s[o[k]].role # "tool" => r[k].role = s[o[k]].role
      BY <1>6
    <3> QED BY <2>4, <2>5, <3>1
  <2>7. j \in p .. NextIn(s, starts, p) - 1
    <3>1. NextIn(s, starts, p) \in p + 1 .. n + 1
      BY <2>1, <2>3, NextInDoes
    <3> QED BY <2>1, <2>2, <2>3, <3>1
  <2>8. s[j].id \in ResultsIn(s, p .. NextIn(s, starts, p) - 1)
    BY <1>8, <2>7, Zenon DEF ResultsIn
  <2>9. s[j].id \in r[k].results
    BY <1>6, <2>5, <2>8
  <2> QED BY <1>6, <2>6, <2>9
<1> QED BY <1>7, <1>8

\* In prompt-only mode no entry refers to calls and no result is lost, whatever
\* the order and the ids of the messages.
LEMMA PromptOnlyTells ==
    ASSUME NEW v \in Seq(Message), NEW w, w = Append(v, RuntimeNote)
    PROVE  \A r \in {OpenAiFormat(w, FALSE), AnthropicFormat(w, FALSE)} :
              /\ \A i \in DOMAIN r : r[i].role # "tool" /\ r[i].calls = <<>>
              /\ \A j \in DOMAIN w : w[j].role = "tool" =>
                   \E i \in DOMAIN r : r[i].role = "user" /\ w[j].id \in r[i].results
<1>3. /\ w \in Seq(Message \cup {RuntimeNote}) /\ Len(w) = Len(v) + 1 /\ DOMAIN w = 1 .. Len(v) + 1
      /\ \A i \in 1 .. Len(v) : w[i] = v[i]
      /\ w[Len(v) + 1].role = "system" /\ Len(v) \in Nat
  BY NoteAppended, LenProperties
<1>4. ASSUME NEW r, r = OpenAiFormat(w, FALSE)
      PROVE  /\ \A i \in DOMAIN r : r[i].role # "tool" /\ r[i].calls = <<>>
             /\ \A j \in DOMAIN w : w[j].role = "tool" =>
                  \E i \in DOMAIN r : r[i].role = "user" /\ w[j].id \in r[i].results
  <2>1. r = FallbackFormat(w)
    BY <1>4 DEF OpenAiFormat
  <2>2. DOMAIN w = 1 .. Len(w)
    BY <1>3
  <2> DEFINE T == Message \cup {RuntimeNote}
  <2>3. w \in Seq(T)
    BY <1>3
  <2> HIDE DEF T
  <2>4. /\ \A i \in DOMAIN r : r[i].role # "tool" /\ r[i].calls = <<>>
        /\ \A j \in 1 .. Len(w) : w[j].role = "tool" =>
             \E i \in DOMAIN r : r[i].role = "user" /\ w[j].id \in r[i].results
    BY <2>1, <2>3, FallbackTells
  <2> QED BY <2>2, <2>4
<1>5. ASSUME NEW r, r = AnthropicFormat(w, FALSE)
      PROVE  /\ \A i \in DOMAIN r : r[i].role # "tool" /\ r[i].calls = <<>>
             /\ \A j \in DOMAIN w : w[j].role = "tool" =>
                  \E i \in DOMAIN r : r[i].role = "user" /\ w[j].id \in r[i].results
  <2>1. r = FallbackFormat(v)
    <3> DEFINE spoken == Only(w, {p \in 1 .. Len(w) : w[p].role # "system"})
    <3>1. spoken = v
      BY SpokenIsWindow
    <3>2. r = FallbackFormat(spoken)
      BY <1>5 DEF AnthropicFormat
    <3> QED BY <3>1, <3>2
  <2>2. /\ \A i \in DOMAIN r : r[i].role # "tool" /\ r[i].calls = <<>>
        /\ \A j \in 1 .. Len(v) : v[j].role = "tool" =>
             \E i \in DOMAIN r : r[i].role = "user" /\ v[j].id \in r[i].results
    BY <2>1, FallbackTells
  <2>3. ASSUME NEW j \in DOMAIN w, w[j].role = "tool" PROVE j \in 1 .. Len(v) /\ v[j] = w[j]
    <3>1. j # Len(v) + 1
      BY <1>3, <2>3
    <3>2. j \in 1 .. Len(v)
      BY <1>3, <3>1
    <3> QED BY <1>3, <3>2
  <2> QED BY <2>2, <2>3
<1> QED BY <1>4, <1>5, Zenon

\* Whatever the adapter, a window in order and complete makes a request that its
\* API accepts.
LEMMA RequestAccepted ==
    ASSUME NEW v \in Seq(Message), Ordered(v), Complete(v),
           NEW w, w = Append(v, RuntimeNote), NEW native, native = AnthropicFormat(w, TRUE)
    PROVE  /\ Paired(OpenAiFormat(w, TRUE))
           /\ \A i \in DOMAIN native :
                /\ native[i].role # "system"
                /\ LET due == IF i = 1 THEN <<>> ELSE native[i - 1].calls IN
                     native[i].results = {due[k] : k \in DOMAIN due}
           /\ native # <<>> => native[Len(native)].calls = <<>>
           /\ \A r \in {OpenAiFormat(w, FALSE), AnthropicFormat(w, FALSE)} :
                /\ \A i \in DOMAIN r : r[i].role # "tool" /\ r[i].calls = <<>>
                /\ \A j \in DOMAIN w : w[j].role = "tool" =>
                     \E i \in DOMAIN r : r[i].role = "user" /\ w[j].id \in r[i].results
<1>1. Paired(OpenAiFormat(w, TRUE))
  BY OpenAiPaired
<1>2. /\ \A i \in DOMAIN native :
           /\ native[i].role # "system"
           /\ LET due == IF i = 1 THEN <<>> ELSE native[i - 1].calls IN
                native[i].results = {due[k] : k \in DOMAIN due}
      /\ native # <<>> => native[Len(native)].calls = <<>>
  <2>1. native = AnthropicFormat(Append(v, RuntimeNote), TRUE)
    OBVIOUS
  <2> QED BY <2>1, NativePaired, Zenon
<1>3. \A r \in {OpenAiFormat(w, FALSE), AnthropicFormat(w, FALSE)} :
         /\ \A i \in DOMAIN r : r[i].role # "tool" /\ r[i].calls = <<>>
         /\ \A j \in DOMAIN w : w[j].role = "tool" =>
              \E i \in DOMAIN r : r[i].role = "user" /\ w[j].id \in r[i].results
  <2>1. w = Append(v, RuntimeNote)
    OBVIOUS
  <2> QED BY <2>1, PromptOnlyTells, Zenon
<1> QED BY <1>1, <1>2, <1>3, Zenon

-----------------------------------------------------------------------------
(* Histories that grow by a message.                                       *)

\* A history and a message after it.
LEMMA AppendDoes ==
    ASSUME NEW s \in Seq(Message), NEW m \in Message
    PROVE  /\ Append(s, m) \in Seq(Message) /\ Len(Append(s, m)) = Len(s) + 1 /\ Len(s) \in Nat
           /\ DOMAIN s = 1 .. Len(s) /\ DOMAIN Append(s, m) = 1 .. Len(s) + 1
           /\ \A i \in 1 .. Len(s) : Append(s, m)[i] = s[i]
           /\ Append(s, m)[Len(s) + 1] = m
           /\ \A i \in 1 .. Len(s) + 1 : i \in 1 .. Len(s) \/ i = Len(s) + 1
BY AppendProperties, LenProperties

\* When no call is open, any message that is no result may come, its calls in
\* order and new.
LEMMA MessageComes ==
    ASSUME NEW s \in Seq(Message), NEW m \in Message, NEW next \in Nat, NEW bound \in Nat,
           Ordered(s), OpenFor(s, <<>>, next), next <= bound,
           m.role # "tool", m.calls # <<>> => m.role = "assistant",
           \A k, l \in DOMAIN m.calls : k < l => m.calls[k] < m.calls[l],
           \A x \in Ids(m) : next <= x /\ x < bound
    PROVE  /\ Ordered(Append(s, m))
           /\ OpenFor(Append(s, m), m.calls, bound)
           /\ OpenFor(s, m.calls, bound)
<1> DEFINE t == Append(s, m)
           n == Len(s)
<1>1. /\ t \in Seq(Message) /\ Len(t) = n + 1 /\ n \in Nat /\ DOMAIN s = 1 .. n /\ DOMAIN t = 1 .. n + 1
      /\ \A i \in 1 .. n : t[i] = s[i]
      /\ t[n + 1] = m
      /\ \A i \in 1 .. n + 1 : i \in 1 .. n \/ i = n + 1
  BY AppendDoes
<1> HIDE DEF t, n
<1>2. /\ \A i \in 1 .. n : s[i] \in Message /\ s[i].id \in Nat /\ Ids(s[i]) \subseteq Nat
      /\ Ids(m) \subseteq Nat
  <2>1. \A i \in 1 .. n : s[i] \in Message
    BY <1>1
  <2> QED BY <2>1, MessageFields
<1>3. /\ \A i \in 1 .. n : \A x \in Ids(s[i]) : x < next
      /\ \A i \in 1 .. n : s[i].role = "tool" => s[i].id < next
  BY <1>1 DEF OpenFor
<1>4. \A k \in DOMAIN m.calls : m.calls[k] \in Ids(m)
  BY DEF Ids
<1>5. Ordered(t)
  <2>1. ASSUME NEW i \in DOMAIN t, t[i].calls # <<>> PROVE t[i].role = "assistant"
    BY <1>1, <2>1 DEF Ordered
  <2>2. ASSUME NEW i \in DOMAIN t, NEW k \in DOMAIN t[i].calls, NEW l \in DOMAIN t[i].calls, k < l
        PROVE  t[i].calls[k] < t[i].calls[l]
    <3>1. CASE i \in 1 .. n
      BY <1>1, <2>2, <3>1 DEF Ordered
    <3>2. CASE i = n + 1
      BY <1>1, <2>2, <3>2
    <3> QED BY <1>1, <3>1, <3>2
  <2>3. ASSUME NEW i \in DOMAIN t, NEW j \in DOMAIN t, i < j, t[i].role = "tool", t[j].role = "tool"
        PROVE  t[i].id < t[j].id
    <3>1. i \in 1 .. n /\ j \in 1 .. n
      BY <1>1, <2>3
    <3> QED BY <1>1, <2>3, <3>1 DEF Ordered
  <2>4. ASSUME NEW i \in DOMAIN t, NEW j \in DOMAIN t, t[j].role = "tool", t[j].id \in Ids(t[i])
        PROVE  i < j /\ \A l \in i + 1 .. j : t[l].role = "tool" /\ t[l].id \in Ids(t[i])
    <3>1. j \in 1 .. n /\ t[j] = s[j]
      BY <1>1, <2>4
    <3>2. i # n + 1
      <4> SUFFICES ASSUME i = n + 1 PROVE FALSE
        OBVIOUS
      <4>1. next <= s[j].id /\ s[j].id < next /\ s[j].id \in Nat
        BY <1>1, <1>2, <1>3, <2>4, <3>1
      <4> QED BY <4>1
    <3>3. i \in 1 .. n /\ t[i] = s[i]
      BY <1>1, <3>2
    <3>4. i < j /\ \A l \in i + 1 .. j : s[l].role = "tool" /\ s[l].id \in Ids(s[i])
      BY <1>1, <2>4, <3>1, <3>3 DEF Ordered
    <3>5. \A l \in i + 1 .. j : l \in 1 .. n
      BY <1>1, <3>1, <3>3
    <3> QED BY <1>1, <3>3, <3>4, <3>5
  <2> QED BY <2>1, <2>2, <2>3, <2>4 DEF Ordered
<1>6. OpenFor(s, m.calls, bound)
  <2>1. ASSUME NEW i \in DOMAIN s
        PROVE  /\ \A x \in Ids(s[i]) : x < bound
               /\ s[i].role = "tool" => s[i].id < bound
    BY <1>1, <1>2, <1>3
  <2>2. ASSUME NEW i \in DOMAIN s, NEW k \in DOMAIN m.calls, s[i].role = "tool" PROVE s[i].id < m.calls[k]
    <3>1. s[i].id < next /\ next <= m.calls[k] /\ m.calls[k] \in Nat /\ s[i].id \in Nat
      BY <1>1, <1>2, <1>3, <1>4, <2>2
    <3> QED BY <3>1
  <2>3. ASSUME NEW i \in DOMAIN s, NEW k \in DOMAIN m.calls, m.calls[k] \in Ids(s[i]) PROVE FALSE
    <3>1. m.calls[k] < next /\ next <= m.calls[k] /\ m.calls[k] \in Nat
      BY <1>1, <1>2, <1>3, <1>4, <2>3
    <3> QED BY <3>1
  <2> QED BY <2>1, <2>2, <2>3 DEF OpenFor
<1>7. OpenFor(t, m.calls, bound)
  <2>1. ASSUME NEW i \in DOMAIN t
        PROVE  /\ \A x \in Ids(t[i]) : x < bound
               /\ t[i].role = "tool" => t[i].id < bound
    BY <1>1, <1>6 DEF OpenFor
  <2>2. ASSUME NEW i \in DOMAIN t, NEW k \in DOMAIN m.calls, t[i].role = "tool" PROVE t[i].id < m.calls[k]
    BY <1>1, <1>6, <2>2 DEF OpenFor
  <2>3. ASSUME NEW i \in DOMAIN t, NEW k \in DOMAIN m.calls, m.calls[k] \in Ids(t[i])
        PROVE  /\ \A l \in DOMAIN m.calls : m.calls[l] \in Ids(t[i])
               /\ \A l \in i + 1 .. Len(t) : t[l].role = "tool" /\ t[l].id \in Ids(t[i])
    <3>1. i = n + 1
      <4> SUFFICES ASSUME i \in 1 .. n PROVE FALSE
        BY <1>1
      <4>1. m.calls[k] < next /\ next <= m.calls[k] /\ m.calls[k] \in Nat
        BY <1>1, <1>2, <1>3, <1>4, <2>3
      <4> QED BY <4>1
    <3>2. \A l \in i + 1 .. Len(t) : FALSE
      BY <1>1, <3>1
    <3> QED BY <1>1, <1>4, <3>1, <3>2
  <2> QED BY <2>1, <2>2, <2>3 DEF OpenFor
<1> QED BY <1>5, <1>6, <1>7 DEF t

\* While calls are open, the result of the first may come.
LEMMA ResultComes ==
    ASSUME NEW s \in Seq(Message), NEW m \in Message, NEW next \in Nat, NEW cs \in Seq(Nat), cs # <<>>,
           Ordered(s), OpenFor(s, cs, next),
           \A k \in DOMAIN cs : cs[k] < next,
           \A k, l \in DOMAIN cs : k < l => cs[k] < cs[l],
           m.role = "tool", m.id = Head(cs), m.calls = <<>>
    PROVE  /\ Ordered(Append(s, m))
           /\ OpenFor(Append(s, m), Tail(cs), next)
           /\ OpenFor(s, Tail(cs), next)
<1> DEFINE t == Append(s, m)
           n == Len(s)
           rest == Tail(cs)
<1>1. /\ t \in Seq(Message) /\ Len(t) = n + 1 /\ n \in Nat /\ DOMAIN s = 1 .. n /\ DOMAIN t = 1 .. n + 1
      /\ \A i \in 1 .. n : t[i] = s[i]
      /\ t[n + 1] = m
      /\ \A i \in 1 .. n + 1 : i \in 1 .. n \/ i = n + 1
  BY AppendDoes
<1>2. /\ 1 \in DOMAIN cs /\ m.id = cs[1]
      /\ \A k \in DOMAIN rest : k + 1 \in DOMAIN cs /\ 1 < k + 1 /\ rest[k] = cs[k + 1]
  BY HeadTailProperties, LenProperties
<1> HIDE DEF t, n, rest
<1>3. Ids(m) = {}
  <2>1. DOMAIN <<>> = {}
    OBVIOUS
  <2> QED BY <2>1, Zenon DEF Ids
<1>4. Ordered(t)
  <2>1. ASSUME NEW i \in DOMAIN t, t[i].calls # <<>> PROVE t[i].role = "assistant"
    BY <1>1, <2>1 DEF Ordered
  <2>2. ASSUME NEW i \in DOMAIN t, NEW k \in DOMAIN t[i].calls, NEW l \in DOMAIN t[i].calls, k < l
        PROVE  t[i].calls[k] < t[i].calls[l]
    <3>1. i # n + 1
      BY <1>1, <2>2
    <3>2. i \in 1 .. n /\ t[i] = s[i]
      BY <1>1, <3>1
    <3> QED BY <1>1, <2>2, <3>2 DEF Ordered
  <2>3. ASSUME NEW i \in DOMAIN t, NEW j \in DOMAIN t, i < j, t[i].role = "tool", t[j].role = "tool"
        PROVE  t[i].id < t[j].id
    <3>1. i \in 1 .. n /\ t[i] = s[i]
      <4>1. i # n + 1
        BY <1>1, <2>3
      <4> QED BY <1>1, <4>1
    <3>2. CASE j \in 1 .. n
      BY <1>1, <2>3, <3>1, <3>2 DEF Ordered
    <3>3. CASE j = n + 1
      BY <1>1, <1>2, <2>3, <3>1, <3>3 DEF OpenFor
    <3> QED BY <1>1, <3>2, <3>3
  <2>4. ASSUME NEW i \in DOMAIN t, NEW j \in DOMAIN t, t[j].role = "tool", t[j].id \in Ids(t[i])
        PROVE  i < j /\ \A l \in i + 1 .. j : t[l].role = "tool" /\ t[l].id \in Ids(t[i])
    <3>1. i \in 1 .. n /\ t[i] = s[i]
      <4>1. i # n + 1
        BY <1>1, <1>3, <2>4
      <4> QED BY <1>1, <4>1
    <3>2. CASE j \in 1 .. n
      <4>1. i < j /\ \A l \in i + 1 .. j : s[l].role = "tool" /\ s[l].id \in Ids(s[i])
        BY <1>1, <2>4, <3>1, <3>2 DEF Ordered
      <4>2. \A l \in i + 1 .. j : l \in 1 .. n
        BY <1>1, <3>1, <3>2
      <4> QED BY <1>1, <3>1, <4>1, <4>2
    <3>3. CASE j = n + 1
      <4>1. cs[1] \in Ids(s[i])
        BY <1>1, <1>2, <2>4, <3>1, <3>3
      <4>2. \A l \in i + 1 .. n : s[l].role = "tool" /\ s[l].id \in Ids(s[i])
        BY <1>1, <1>2, <3>1, <4>1 DEF OpenFor, n
      <4>3. \A l \in i + 1 .. j : (l \in 1 .. n /\ l \in i + 1 .. n) \/ l = n + 1
        BY <1>1, <3>1, <3>3
      <4>4. i < j
        BY <1>1, <3>1, <3>3
      <4>5. ASSUME NEW l \in i + 1 .. j PROVE t[l].role = "tool" /\ t[l].id \in Ids(t[i])
        <5>1. CASE l \in 1 .. n /\ l \in i + 1 .. n
          BY <1>1, <3>1, <4>2, <5>1
        <5>2. CASE l = n + 1
          BY <1>1, <1>2, <3>1, <4>1, <5>2
        <5> QED BY <4>3, <5>1, <5>2
      <4> QED BY <4>4, <4>5
    <3> QED BY <1>1, <3>2, <3>3
  <2> QED BY <2>1, <2>2, <2>3, <2>4 DEF Ordered
<1>5. /\ \A i \in 1 .. n : (\A x \in Ids(s[i]) : x < next) /\ (s[i].role = "tool" => s[i].id < next)
      /\ \A i \in 1 .. n, k \in DOMAIN rest : s[i].role = "tool" => s[i].id < rest[k]
      /\ \A i \in 1 .. n, k \in DOMAIN rest : rest[k] \in Ids(s[i]) =>
           /\ cs[1] \in Ids(s[i])
           /\ \A l \in DOMAIN rest : rest[l] \in Ids(s[i])
           /\ \A l \in i + 1 .. n : s[l].role = "tool" /\ s[l].id \in Ids(s[i])
  BY <1>1, <1>2 DEF OpenFor, n
<1>6. OpenFor(s, rest, next)
  BY <1>1, <1>5 DEF OpenFor, n
<1>7. OpenFor(t, rest, next)
  <2>1. ASSUME NEW i \in DOMAIN t
        PROVE  /\ \A x \in Ids(t[i]) : x < next
               /\ t[i].role = "tool" => t[i].id < next
    BY <1>1, <1>2, <1>3, <1>5
  <2>2. ASSUME NEW i \in DOMAIN t, NEW k \in DOMAIN rest, t[i].role = "tool" PROVE t[i].id < rest[k]
    <3>1. CASE i \in 1 .. n
      BY <1>1, <1>5, <2>2, <3>1
    <3>2. CASE i = n + 1
      BY <1>1, <1>2, <3>2
    <3> QED BY <1>1, <3>1, <3>2
  <2>3. ASSUME NEW i \in DOMAIN t, NEW k \in DOMAIN rest, rest[k] \in Ids(t[i])
        PROVE  /\ \A l \in DOMAIN rest : rest[l] \in Ids(t[i])
               /\ \A l \in i + 1 .. Len(t) : t[l].role = "tool" /\ t[l].id \in Ids(t[i])
    <3>1. i \in 1 .. n /\ t[i] = s[i]
      <4>1. i # n + 1
        BY <1>1, <1>3, <2>3
      <4> QED BY <1>1, <4>1
    <3>2. /\ cs[1] \in Ids(s[i])
          /\ \A l \in DOMAIN rest : rest[l] \in Ids(s[i])
          /\ \A l \in i + 1 .. n : s[l].role = "tool" /\ s[l].id \in Ids(s[i])
      BY <1>5, <2>3, <3>1
    <3>3. \A l \in i + 1 .. Len(t) : (l \in 1 .. n /\ l \in i + 1 .. n) \/ l = n + 1
      BY <1>1, <3>1
    <3>4. ASSUME NEW l \in i + 1 .. Len(t) PROVE t[l].role = "tool" /\ t[l].id \in Ids(t[i])
      <4>1. CASE l \in 1 .. n /\ l \in i + 1 .. n
        BY <1>1, <3>1, <3>2, <4>1
      <4>2. CASE l = n + 1
        BY <1>1, <1>2, <3>1, <3>2, <4>2
      <4> QED BY <3>3, <4>1, <4>2
    <3> QED BY <3>1, <3>2, <3>4
  <2> QED BY <2>1, <2>2, <2>3 DEF OpenFor
<1> QED BY <1>4, <1>6, <1>7 DEF t, rest

\* The ids of a response: new ones, in order.
LEMMA FreshIds ==
    ASSUME NEW next \in Nat, NEW n \in Nat
    PROVE  LET ids == [k \in 1 .. n |-> next + k - 1]
           IN  /\ ids \in Seq(Nat) /\ DOMAIN ids = 1 .. n
               /\ \A k \in 1 .. n : ids[k] = next + k - 1
<1> DEFINE ids == [k \in 1 .. n |-> next + k - 1]
<1>1. ids \in [1 .. n -> Nat]
  OBVIOUS
<1>2. ids \in Seq(Nat)
  <2> HIDE DEF ids
  <2> QED BY <1>1
<1> QED BY <1>2

\* Without open calls a history is open for as many ids.
LEMMA OpenForNone ==
    ASSUME NEW s, NEW cs, NEW next, OpenFor(s, cs, next)
    PROVE  OpenFor(s, <<>>, next)
<1>1. DOMAIN <<>> = {}
  OBVIOUS
<1>2. \A i \in DOMAIN s : /\ \A x \in Ids(s[i]) : x < next
                          /\ s[i].role = "tool" => s[i].id < next
  BY DEF OpenFor
<1> QED BY <1>1, <1>2, Zenon DEF OpenFor

\* Nothing is in order.
LEMMA EmptyIsOrdered ==
    ASSUME NEW cs, NEW next
    PROVE  Ordered(<<>>) /\ OpenFor(<<>>, cs, next)
<1>1. DOMAIN <<>> = {}
  OBVIOUS
<1> QED BY <1>1, Zenon DEF Ordered, OpenFor

-----------------------------------------------------------------------------
(* One lemma per step of the turn.                                         *)

USE DEF InLoop, IsCancelled

\* A turn that ends touches no storage; EndTurn is all of it but the answer
\* shown and the disruption counted.
LEMMA EndTurnKeeps ==
    ASSUME IInv, EndTurn, faults' \in Nat, answered' \subseteq 1 .. MaxTurns, ShownAnswerSurvives'
    PROVE  IInv'
<1>0. HistoryTyping /\ TurnTyping
  BY DEF IInv, Typing
<1>1. Typing'
  <2>1. HistoryTyping'
    BY <1>0 DEF HistoryTyping, EndTurn, storeVars
  <2>2. pc' = "idle" /\ after' = after /\ turn' = turn /\ iteration' = 0 /\ calls' = <<>> /\ nextId' = nextId
        /\ cancelGeneration' = cancelGeneration /\ myGeneration' = myGeneration /\ cancelledAt' = "none"
        /\ unsaved' = unsaved
    BY DEF EndTurn, storeVars
  <2>3. 0 \in 0 .. MaxIterations /\ <<>> \in Seq(Nat)
    BY ConversationAssumption
  <2>4. TurnTyping'
    BY <1>0, <2>2, <2>3 DEF TurnTyping
  <2> QED BY <2>1, <2>4 DEF Typing
<1>2. CancelSeen' /\ CancelStopsRequests' /\ AnswerOnItsWay'
  BY DEF EndTurn, CancelSeen, CancelStopsRequests, AnswerOnItsWay
<1> QED BY <1>1, <1>2 DEF IInv

\* A message is on its way: the next step is to save it, or the one after.
LEMMA AddMessageKeeps ==
    ASSUME IInv, NEW m \in Message, NEW next \in {"snapshot", "tools", "final"}, AddMessage(m, next),
           UNCHANGED <<storeVars, myGeneration, cancelledAt, cancelGeneration, answered>>,
           turn' \in 1 .. MaxTurns, iteration' = iteration, next = "tools" => iteration < MaxIterations,
           calls' \in Seq(Nat), nextId' \in Nat, faults' \in Nat,
           next = "final" => m.role = "assistant" /\ turn' \in m.text
    PROVE  IInv'
<1>0. Typing /\ HistoryTyping /\ TurnTyping
  BY DEF IInv, Typing
<1>1. /\ buffer' \in Seq(Message) /\ pending' \in Seq(Message)
      /\ \/ /\ pc' = "save" /\ after' = next
            /\ Len(pending') = 1 /\ pending'[1] = m
         \/ /\ pc' = next /\ after' = after
            /\ m.text = {} \/ m.role = "tool"
  BY <1>0, AddMessageDoes
<1>2. HistoryTyping'
  BY <1>0, <1>1 DEF HistoryTyping, storeVars
<1>3. TurnTyping'
  BY <1>0, <1>1 DEF TurnTyping, storeVars
<1>4. CancelSeen'
  BY DEF IInv, CancelSeen
<1>5. CancelStopsRequests'
  BY <1>1 DEF CancelStopsRequests
<1>6. AnswerOnItsWay'
  <2>1. next = "final" => m.text # {} /\ m.role # "tool"
    OBVIOUS
  <2>2. pc' # "final"
    BY <1>1, <2>1
  <2> QED BY <1>1, <2>2 DEF AnswerOnItsWay
<1>7. ShownAnswerSurvives'
  BY ShownStays DEF IInv
<1> QED BY <1>2, <1>3, <1>4, <1>5, <1>6, <1>7 DEF IInv, Typing

\* The save: what was kept stays, unless the file was unreadable or was cut
\* off, and the message is kept, unless its own save failed.
LEMMA SaveKeeps ==
    ASSUME IInv, SaveMessage
    PROVE  IInv'
<1>0. /\ HistoryTyping /\ TurnTyping /\ CancelSeen /\ AnswerOnItsWay /\ ShownAnswerSurvives
      /\ pc = "save" /\ turn \in 1 .. MaxTurns /\ overwrites \in Nat /\ disk \in Seq(Message)
  BY DEF IInv, Typing, SaveMessage, TurnTyping, HistoryTyping
<1> DEFINE m == pending[1]
<1>1. m \in Message
  BY <1>0 DEF HistoryTyping, AnswerOnItsWay
<1>2. \/ disk' = Append(disk, m) /\ overwrites' = overwrites /\ unsaved' = unsaved /\ faults' = faults
      \/ disk' \in {<<m>>, <<>>} /\ overwrites' = overwrites + 1 /\ unsaved' = unsaved /\ faults' = faults + 1
      \/ disk' = disk /\ overwrites' = overwrites /\ unsaved' = unsaved \cup {turn} /\ faults' = faults + 1
  BY DEF SaveMessage, JsonSaveMessage, DbSaveMessage, Disrupt
<1>3. pending' = <<>> /\ pc' = after /\ after' = "idle"
      /\ UNCHANGED <<storage, buffer, turnVars, cancelGeneration, nextId, answered>>
  BY DEF SaveMessage
<1> HIDE DEF m
<1>4. HistoryTyping'
  <2>1. Append(disk, m) \in Seq(Message) /\ <<m>> \in Seq(Message) /\ <<>> \in Seq(Message)
    BY <1>0, <1>1
  <2>2. disk' \in Seq(Message)
    BY <1>0, <1>2, <2>1
  <2>3. overwrites' \in Nat
    BY <1>0, <1>2
  <2>4. storage' = storage /\ buffer' = buffer /\ pending' \in Seq(Message)
    BY <1>3, <2>1
  <2> QED BY <1>0, <2>2, <2>3, <2>4 DEF HistoryTyping
<1>5. TurnTyping'
  <2>1. unsaved' \subseteq 1 .. MaxTurns
    BY <1>0, <1>2 DEF TurnTyping
  <2>2. faults' \in Nat
    BY <1>0, <1>2 DEF TurnTyping
  <2>3. pc' = after /\ after' = "idle" /\ turn' = turn /\ iteration' = iteration /\ calls' = calls
        /\ nextId' = nextId /\ cancelGeneration' = cancelGeneration /\ myGeneration' = myGeneration
        /\ cancelledAt' = cancelledAt /\ answered' = answered
    BY <1>3 DEF turnVars
  <2> QED BY <1>0, <2>1, <2>2, <2>3 DEF TurnTyping
<1>6. ASSUME NEW t, Kept(t) PROVE Kept(t)'
  <2>1. CASE t \in unsaved \/ overwrites > 0
    BY <1>0, <1>2, <2>1 DEF Kept
  <2>2. CASE \E i \in DOMAIN disk : disk[i].role = "assistant" /\ t \in disk[i].text
    <3>1. PICK i \in DOMAIN disk : disk[i].role = "assistant" /\ t \in disk[i].text
      BY <2>2
    <3>2. CASE disk' = Append(disk, m)
      <4>1. i \in DOMAIN disk' /\ disk'[i] = disk[i]
        BY <1>0, <1>1, <3>1, <3>2
      <4> QED BY <3>1, <4>1 DEF Kept
    <3>3. CASE overwrites' = overwrites + 1
      BY <1>0, <3>3 DEF Kept
    <3>4. CASE disk' = disk
      BY <3>1, <3>4 DEF Kept
    <3> QED BY <1>2, <3>2, <3>3, <3>4
  <2> QED BY <1>6, <2>1, <2>2 DEF Kept
<1>7. ShownAnswerSurvives'
  BY <1>0, <1>3, <1>6 DEF ShownAnswerSurvives, Kept
<1>8. AnswerOnItsWay'
  <2>1. pc' # "save"
    BY <1>0, <1>3 DEF TurnTyping
  <2>2. ASSUME after = "final" PROVE Kept(turn)'
    <3>1. m.role = "assistant" /\ turn \in m.text
      BY <1>0, <2>2 DEF AnswerOnItsWay, m
    <3>2. CASE disk' = Append(disk, m)
      <4>1. Len(disk) + 1 \in DOMAIN disk' /\ disk'[Len(disk) + 1] = m
        BY <1>0, <1>1, <3>2
      <4> QED BY <3>1, <4>1, <1>3 DEF Kept, turnVars
    <3>3. CASE overwrites' = overwrites + 1
      BY <1>0, <3>3 DEF Kept
    <3>4. CASE unsaved' = unsaved \cup {turn}
      BY <1>3, <3>4 DEF Kept, turnVars
    <3> QED BY <1>2, <3>2, <3>3, <3>4
  <2>3. turn' = turn
    BY <1>3 DEF turnVars
  <2> QED BY <1>3, <2>1, <2>2, <2>3 DEF AnswerOnItsWay
<1>9. CancelSeen' /\ CancelStopsRequests'
  BY <1>0, <1>3 DEF TurnTyping, CancelSeen, CancelStopsRequests, turnVars
<1> QED BY <1>4, <1>5, <1>7, <1>8, <1>9 DEF IInv, Typing

\* Steps that only move the turn on, in ReactLoop and to it.
LEMMA MoveKeeps ==
    ASSUME IInv, \/ TakeSnapshot \/ NextIteration
                 \/ (LoopTop /\ pc' = "gate") \/ (CallModelStream /\ pc' = "model")
    PROVE  IInv'
<1>0. HistoryTyping /\ TurnTyping /\ CancelSeen /\ CancelStopsRequests /\ AnswerOnItsWay /\ ShownAnswerSurvives
  BY DEF IInv, Typing
<1>1. /\ UNCHANGED <<storage, disk, unsaved, overwrites, buffer, pending, after, turn, calls,
                     cancelGeneration, nextId, answered, faults>>
      /\ \/ /\ pc = "snapshot" /\ pc' = "top"
            /\ myGeneration' = cancelGeneration /\ iteration' = 0 /\ cancelledAt' = "none"
         \/ /\ pc = "tools" /\ pc' = "top"
            /\ iteration' = iteration + 1 /\ UNCHANGED <<myGeneration, cancelledAt>>
         \/ /\ pc = "top" /\ pc' = "gate"
            /\ iteration < MaxIterations /\ UNCHANGED <<iteration, myGeneration, cancelledAt>>
         \/ /\ pc = "gate" /\ pc' = "model"
            /\ ~IsCancelled /\ UNCHANGED <<iteration, myGeneration, cancelledAt>>
  BY DEF TakeSnapshot, NextIteration, LoopTop, CallModelStream, EndTurn, storeVars, turnVars
<1>2. HistoryTyping'
  BY <1>0, <1>1 DEF HistoryTyping
<1>3. TurnTyping'
  <2>1. iteration' \in 0 .. MaxIterations
    BY <1>0, <1>1, ConversationAssumption DEF TurnTyping
  <2>2. pc' \in {"gate", "model", "tools"} => iteration' < MaxIterations
    BY <1>0, <1>1 DEF TurnTyping
  <2>3. pc' \in InLoop /\ turn' = turn /\ turn > 0 /\ myGeneration' \in Nat
        /\ cancelledAt' \in {"none"} \cup InLoop
    BY <1>0, <1>1 DEF TurnTyping
  <2> QED BY <1>0, <1>1, <2>1, <2>2, <2>3 DEF TurnTyping
<1>4. CancelSeen'
  BY <1>0, <1>1 DEF CancelSeen
<1>5. CancelStopsRequests'
  BY <1>0, <1>1 DEF CancelSeen, CancelStopsRequests
<1>6. AnswerOnItsWay'
  BY <1>1 DEF AnswerOnItsWay
<1>7. ShownAnswerSurvives'
  BY <1>0, <1>1 DEF ShownAnswerSurvives
<1> QED BY <1>2, <1>3, <1>4, <1>5, <1>6, <1>7 DEF IInv, Typing

\* The ends of a turn: by its own return, by an exception, by its answer.
LEMMA EndsKeep ==
    ASSUME IInv, \/ (LoopTop /\ EndTurn) \/ (CallModelStream /\ EndTurn) \/ ModelFails
                 \/ Final \/ CallbackThrows
    PROVE  IInv'
<1>0. TurnTyping /\ AnswerOnItsWay /\ ShownAnswerSurvives
  BY DEF IInv, Typing
<1>1. EndTurn
  BY DEF ModelFails, Final, CallbackThrows
<1>2. faults' \in Nat
  <2>1. faults' = faults \/ faults' = faults + 1
    BY DEF LoopTop, CallModelStream, ModelFails, Final, CallbackThrows, Disrupt
  <2> QED BY <1>0, <2>1 DEF TurnTyping
<1>3. UNCHANGED storeVars
  BY <1>1 DEF EndTurn
<1>4. CASE answered' = answered
  <2>1. ShownAnswerSurvives'
    BY <1>0, <1>3, <1>4, ShownStays
  <2>2. answered' \subseteq 1 .. MaxTurns
    BY <1>0, <1>4 DEF TurnTyping
  <2> QED BY <1>1, <1>2, <2>1, <2>2, EndTurnKeeps
<1>5. CASE Final
  <2>1. pc = "final" /\ answered' = answered \cup {turn}
    BY <1>5 DEF Final
  <2>2. turn \in 1 .. MaxTurns /\ answered \subseteq 1 .. MaxTurns
    BY <1>0, <2>1 DEF TurnTyping
  <2>3. ASSUME NEW t \in answered' PROVE Kept(t)'
    <3>1. Kept(t)
      BY <1>0, <2>1 DEF AnswerOnItsWay, ShownAnswerSurvives, Kept
    <3> QED BY <1>3, <3>1, KeptStays
  <2>4. ShownAnswerSurvives'
    BY <2>3 DEF ShownAnswerSurvives, Kept
  <2> QED BY <1>1, <1>2, <2>1, <2>2, <2>4, EndTurnKeeps
<1>6. Final \/ answered' = answered
  BY DEF LoopTop, CallModelStream, ModelFails, Final, CallbackThrows
<1> QED BY <1>4, <1>5, <1>6

\* Queries, the model's responses and tool results: each adds a message.
LEMMA MessagesKeep ==
    ASSUME IInv, Invoke \/ ModelAnswers \/ ModelCallsTools \/ ExecuteTool
    PROVE  IInv'
<1>0. HistoryTyping /\ TurnTyping /\ turn \in 0 .. MaxTurns /\ faults \in Nat /\ nextId \in Nat
      /\ MaxTurns \in Nat /\ calls \in Seq(Nat)
  BY ConversationAssumption DEF IInv, Typing, TurnTyping
<1>1. CASE Invoke
  <2>1. turn' = turn + 1 /\ turn < MaxTurns /\ AddMessage(User(turn + 1), "snapshot")
        /\ UNCHANGED <<storeVars, myGeneration, cancelledAt, cancelGeneration, answered, iteration, calls,
                       nextId, faults>>
    BY <1>1 DEF Invoke
  <2>2. turn' \in 1 .. MaxTurns /\ User(turn + 1) \in Message
    BY <1>0, <2>1, MessagesTyped
  <2> QED BY <1>0, <2>1, <2>2, AddMessageKeeps
<1>2. CASE ModelAnswers
  <2>1. pc = "model" /\ AddMessage(Assistant({turn}, <<>>), "final")
        /\ UNCHANGED <<storeVars, turn, iteration, calls, myGeneration, cancelledAt, cancelGeneration,
                       answered, nextId, faults>>
    BY <1>2 DEF ModelAnswers, turnVars
  <2>2. turn \in 1 .. MaxTurns /\ {turn} \in Text /\ <<>> \in Seq(Nat)
    BY <1>0, <2>1 DEF TurnTyping, Text
  <2>3. Assistant({turn}, <<>>) \in Message /\ Assistant({turn}, <<>>).role = "assistant"
        /\ Assistant({turn}, <<>>).text = {turn}
    BY <2>2, MessagesTyped
  <2> QED BY <1>0, <2>1, <2>2, <2>3, AddMessageKeeps
<1>3. CASE ModelCallsTools
  <2>1. pc = "model"
        /\ UNCHANGED <<storeVars, turn, iteration, myGeneration, cancelledAt, cancelGeneration, answered, faults>>
    BY <1>3 DEF ModelCallsTools
  <2>2. PICK n \in 1 .. MaxCalls, text \in {{}, {turn}} :
          /\ calls' = [k \in 1 .. n |-> nextId + k - 1] /\ nextId' = nextId + n
          /\ AddMessage(Assistant(text, [k \in 1 .. n |-> nextId + k - 1]), "tools")
    BY <1>3 DEF ModelCallsTools
  <2>3. n \in Nat
    BY ConversationAssumption
  <2> DEFINE ids == [k \in 1 .. n |-> nextId + k - 1]
  <2>4. ids \in Seq(Nat) /\ nextId' \in Nat
    <3>1. \A k \in 1 .. n : nextId + k - 1 \in Nat
      BY <1>0, <2>3
    <3>2. ids \in [1 .. n -> Nat]
      BY <3>1
    <3>3. ids \in Seq(Nat)
      <4> HIDE DEF ids
      <4> QED BY <2>3, <3>2
    <3> QED BY <1>0, <2>2, <2>3, <3>3
  <2>5. text \in Text /\ turn \in 1 .. MaxTurns /\ iteration < MaxIterations
    BY <1>0, <2>1 DEF Text, TurnTyping
  <2>6. AddMessage(Assistant(text, ids), "tools") /\ calls' = ids
    BY <2>2
  <2> HIDE DEF ids
  <2>7. Assistant(text, ids) \in Message
    BY <2>4, <2>5, MessagesTyped
  <2> QED BY <1>0, <2>1, <2>4, <2>5, <2>6, <2>7, AddMessageKeeps
<1>4. CASE ExecuteTool
  <2>1. pc = "tools" /\ calls # <<>> /\ calls' = Tail(calls)
        /\ UNCHANGED <<storeVars, turn, iteration, myGeneration, cancelledAt, cancelGeneration, answered, nextId>>
    BY <1>4 DEF ExecuteTool
  <2>2. PICK text \in {{}, {turn}} : AddMessage(ToolResult(Head(calls), text), "tools")
    BY <1>4 DEF ExecuteTool
  <2>3. faults' \in Nat
    BY <1>0, <1>4 DEF ExecuteTool, Disrupt
  <2>4. text \in Text /\ turn \in 1 .. MaxTurns /\ iteration < MaxIterations
    BY <1>0, <2>1 DEF Text, TurnTyping
  <2>5. Head(calls) \in Nat /\ Tail(calls) \in Seq(Nat)
    BY <1>0, <2>1
  <2>6. ToolResult(Head(calls), text) \in Message
    BY <2>4, <2>5, MessagesTyped
  <2> QED BY <1>0, <2>1, <2>2, <2>3, <2>4, <2>5, <2>6, AddMessageKeeps
<1> QED BY <1>1, <1>2, <1>3, <1>4

\* The disruptions, and the start after one.
LEMMA DisruptionsKeep ==
    ASSUME IInv, Cancel \/ Crash \/ Initialize
    PROVE  IInv'
<1>0. HistoryTyping /\ TurnTyping /\ CancelSeen /\ CancelStopsRequests /\ AnswerOnItsWay /\ ShownAnswerSurvives
  BY DEF IInv, Typing
<1>1. UNCHANGED storeVars /\ answered' = answered
  BY DEF Cancel, Crash, Initialize
<1>2. ShownAnswerSurvives'
  BY <1>0, <1>1, ShownStays
<1>3. CASE Cancel
  <2>1. /\ UNCHANGED <<storage, disk, unsaved, overwrites, buffer, pending, pc, after, turn, iteration, calls,
                       myGeneration, nextId, answered>>
        /\ cancelGeneration' = cancelGeneration + 1 /\ faults' = faults + 1
        /\ cancelledAt' = IF pc \in InLoop /\ cancelledAt = "none" THEN pc ELSE cancelledAt
    BY <1>3 DEF Cancel, Disrupt, storeVars
  <2>2. HistoryTyping' /\ TurnTyping'
    BY <1>0, <2>1 DEF HistoryTyping, TurnTyping
  <2>3. CancelSeen'
    <3>1. cancelledAt' # "none" => cancelledAt # "none" \/ pc \in InLoop
      BY <2>1
    <3>2. myGeneration \in Nat /\ cancelGeneration \in Nat /\ myGeneration <= cancelGeneration
      BY <1>0 DEF TurnTyping
    <3> QED BY <2>1, <3>2 DEF CancelSeen
  <2>4. CancelStopsRequests'
    BY <1>0, <2>1 DEF CancelStopsRequests
  <2>5. AnswerOnItsWay'
    BY <1>0, <2>1 DEF AnswerOnItsWay, Kept
  <2> QED BY <1>2, <2>2, <2>3, <2>4, <2>5 DEF IInv, Typing
<1>4. CASE Crash
  <2>1. /\ UNCHANGED <<storage, disk, unsaved, overwrites, turn, answered>>
        /\ pc' = "down" /\ after' = "idle" /\ buffer' = <<>> /\ pending' = <<>> /\ calls' = <<>>
        /\ iteration' = 0 /\ cancelGeneration' = 0 /\ myGeneration' = 0 /\ cancelledAt' = "none"
        /\ faults' = faults + 1 /\ nextId' \in {1, nextId}
    BY <1>4 DEF Crash, Disrupt, storeVars
  <2>2. HistoryTyping' /\ TurnTyping'
    BY <1>0, <2>1, ConversationAssumption DEF HistoryTyping, TurnTyping
  <2>3. CancelSeen' /\ CancelStopsRequests' /\ AnswerOnItsWay'
    BY <2>1 DEF CancelSeen, CancelStopsRequests, AnswerOnItsWay
  <2> QED BY <1>2, <2>2, <2>3 DEF IInv, Typing
<1>5. CASE Initialize
  <2>1. /\ UNCHANGED <<storage, disk, unsaved, overwrites, pending, after, turn, iteration, calls, myGeneration,
                       cancelledAt, cancelGeneration, nextId, answered, faults>>
        /\ pc' = "idle"
    BY <1>5 DEF Initialize, storeVars, turnVars
  <2>2. PICK history \in LoadHistory : buffer' = TrimOrphanTrailingToolCalls(history)
    BY <1>5 DEF Initialize
  <2>3. history \in Seq(Message)
    <3>1. history = disk \/ history = <<>>
      BY DEF LoadHistory
    <3>2. <<>> \in Seq(Message)
      OBVIOUS
    <3> QED BY <1>0, <3>1, <3>2 DEF HistoryTyping
  <2>4. buffer' \in Seq(Message)
    BY <2>2, <2>3, TrimTyped
  <2>5. HistoryTyping' /\ TurnTyping'
    BY <1>0, <2>1, <2>4 DEF HistoryTyping, TurnTyping
  <2>6. CancelSeen' /\ CancelStopsRequests' /\ AnswerOnItsWay'
    BY <1>0, <2>1 DEF CancelSeen, CancelStopsRequests, AnswerOnItsWay
  <2> QED BY <1>2, <2>5, <2>6 DEF IInv, Typing
<1> QED BY <1>3, <1>4, <1>5

-----------------------------------------------------------------------------
(* The histories and the query, step by step.                              *)

\* The steps by what they do to histories and calls: the ends of a turn, the
\* steps that leave them alone, and the others.
LEMMA StepsByEffect ==
    ASSUME IInv, [Next]_vars
    PROVE  \/ pc' = "idle" /\ calls' = <<>> /\ UNCHANGED <<disk, buffer, pending, nextId>>
           \/ /\ UNCHANGED <<disk, buffer, pending, calls, nextId, turn>>
              /\ \/ UNCHANGED <<pc, after>>
                 \/ pc \in {"snapshot", "top", "gate"}
                 \/ pc = "tools" /\ calls = <<>>
           \/ SaveMessage \/ Crash \/ Initialize \/ Invoke \/ ModelAnswers \/ ModelCallsTools \/ ExecuteTool
<1>1. CASE EndTurn
  BY <1>1 DEF EndTurn, storeVars
<1>2. CASE ModelFails \/ Final \/ CallbackThrows
  BY <1>1, <1>2 DEF ModelFails, Final, CallbackThrows
<1>3. CASE LoopTop \/ CallModelStream
  BY <1>1, <1>3 DEF LoopTop, CallModelStream, storeVars, turnVars
<1>4. CASE TakeSnapshot \/ NextIteration \/ Cancel
  BY <1>4 DEF TakeSnapshot, NextIteration, Cancel, storeVars
<1>5. CASE UNCHANGED vars
  BY <1>5 DEF vars
<1> QED BY <1>2, <1>3, <1>4, <1>5 DEF Next, Step

\* The query stays the buffer's last one until the turn is over.
LEMMA QueryStays ==
    ASSUME IInv, QueryBuffered, [Next]_vars
    PROVE  QueryBuffered'
<1>0. buffer \in Seq(Message) /\ turn \in 0 .. MaxTurns /\ MaxTurns \in Nat /\ calls \in Seq(Nat) /\ nextId \in Nat
      /\ (pc \notin {"idle", "down"} => turn \in 1 .. MaxTurns)
  BY ConversationAssumption DEF IInv, Typing, HistoryTyping, TurnTyping
<1>1. CASE pc' \in {"idle", "down"}
  BY <1>1 DEF QueryBuffered
<1>2. ASSUME pc \notin {"idle", "down"}, buffer' = buffer, turn' = turn PROVE QueryBuffered'
  BY <1>2 DEF QueryBuffered, IsQuery
<1>3. ASSUME NEW m \in Message, NEW next, AddMessage(m, next), turn' = turn, pc \notin {"idle", "down"},
             m.role # "user"
      PROVE  QueryBuffered'
  <2>1. CASE buffer' = buffer
    BY <1>2, <1>3, <2>1
  <2>2. CASE buffer' = Append(buffer, m)
    <3>1. PICK p \in DOMAIN buffer : IsQuery(buffer, p)
      BY <1>3 DEF QueryBuffered
    <3>2. /\ Len(buffer) \in Nat /\ DOMAIN buffer = 1 .. Len(buffer) /\ DOMAIN buffer' = 1 .. Len(buffer) + 1
          /\ \A i \in 1 .. Len(buffer) : buffer'[i] = buffer[i]
          /\ buffer'[Len(buffer) + 1] = m
          /\ \A i \in 1 .. Len(buffer) + 1 : i \in 1 .. Len(buffer) \/ i = Len(buffer) + 1
      BY <1>0, <2>2, AppendDoes
    <3>3. p \in DOMAIN buffer' /\ buffer'[p].role = "user" /\ turn' \in buffer'[p].text
      BY <1>3, <3>1, <3>2 DEF IsQuery
    <3>4. \A q \in DOMAIN buffer' : q > p => buffer'[q].role # "user"
      BY <1>3, <3>1, <3>2 DEF IsQuery
    <3> QED BY <3>3, <3>4 DEF QueryBuffered, IsQuery
  <2> QED BY <1>3, <2>1, <2>2 DEF AddMessage
<1>4. CASE Invoke
  <2> DEFINE m == User(turn + 1)
  <2>1. turn' = turn + 1 /\ turn < MaxTurns /\ AddMessage(m, "snapshot")
    BY <1>4 DEF Invoke
  <2>2. m \in Message /\ m.role = "user" /\ m.text = {turn + 1}
    BY <1>0, <2>1, MessagesTyped
  <2> HIDE DEF m
  <2>3. buffer' = Append(buffer, m)
    BY <2>1, <2>2 DEF AddMessage, IsValidMessage
  <2>4. /\ Len(buffer) \in Nat /\ DOMAIN buffer' = 1 .. Len(buffer) + 1 /\ buffer'[Len(buffer) + 1] = m
    BY <1>0, <2>2, <2>3, AppendDoes
  <2>5. Len(buffer) + 1 \in DOMAIN buffer' /\ \A q \in DOMAIN buffer' : ~(q > Len(buffer) + 1)
    BY <2>4
  <2>6. buffer'[Len(buffer) + 1].role = "user" /\ turn' \in buffer'[Len(buffer) + 1].text
    BY <2>1, <2>2, <2>4
  <2> QED BY <2>5, <2>6 DEF QueryBuffered, IsQuery
<1>5. CASE ModelAnswers
  <2> DEFINE m == Assistant({turn}, <<>>)
  <2>1. pc = "model" /\ AddMessage(m, "final") /\ turn' = turn
    BY <1>5 DEF ModelAnswers, turnVars
  <2>2. {turn} \in Text /\ <<>> \in Seq(Nat)
    BY <1>0 DEF Text
  <2>3. m \in Message /\ m.role # "user"
    BY <2>2, MessagesTyped
  <2> HIDE DEF m
  <2> QED BY <1>3, <2>1, <2>3
<1>6. CASE ModelCallsTools
  <2>1. pc = "model" /\ turn' = turn
    BY <1>6 DEF ModelCallsTools
  <2>2. PICK n \in 1 .. MaxCalls, text \in {{}, {turn}} :
          AddMessage(Assistant(text, [k \in 1 .. n |-> nextId + k - 1]), "tools")
    BY <1>6 DEF ModelCallsTools
  <2> DEFINE ids == [k \in 1 .. n |-> nextId + k - 1]
             m == Assistant(text, ids)
  <2>3. ids \in Seq(Nat)
    BY <1>0, FreshIds, ConversationAssumption
  <2>4. text \in Text
    BY <1>0 DEF Text
  <2>5. AddMessage(m, "tools")
    BY <2>2
  <2> HIDE DEF ids
  <2>6. m \in Message /\ m.role # "user"
    BY <2>3, <2>4, MessagesTyped
  <2> HIDE DEF m
  <2> QED BY <1>3, <2>1, <2>5, <2>6
<1>7. CASE ExecuteTool
  <2>1. pc = "tools" /\ calls # <<>> /\ turn' = turn
    BY <1>7 DEF ExecuteTool
  <2>2. PICK text \in {{}, {turn}} : AddMessage(ToolResult(Head(calls), text), "tools")
    BY <1>7 DEF ExecuteTool
  <2> DEFINE m == ToolResult(Head(calls), text)
  <2>3. m \in Message /\ m.role # "user"
    <3>1. text \in Text /\ Head(calls) \in Nat
      BY <1>0, <2>1 DEF Text
    <3> QED BY <3>1, MessagesTyped DEF ToolResult
  <2> HIDE DEF m
  <2> QED BY <1>3, <2>1, <2>2, <2>3 DEF m
<1>8. CASE SaveMessage
  BY <1>2, <1>8 DEF SaveMessage, turnVars
<1>9. CASE Crash \/ Initialize
  BY <1>1, <1>9 DEF Crash, Initialize
<1>10. CASE UNCHANGED <<pc, buffer, turn>>
  BY <1>10 DEF QueryBuffered, IsQuery
<1>11. CASE UNCHANGED <<buffer, turn>> /\ pc \in {"snapshot", "top", "gate", "tools"}
  BY <1>2, <1>11
<1> QED BY <1>1, <1>4, <1>5, <1>6, <1>7, <1>8, <1>9, <1>10, <1>11, StepsByEffect

\* The persisted history without the message on its way.
LEMMA DiskInOrder ==
    ASSUME IInv, HistoriesOK
    PROVE  Ordered(disk) /\ OpenFor(disk, calls, nextId)
<1> DEFINE h == disk \o pending
           f == [a \in 1 .. Len(disk) |-> a]
<1>1. disk \in Seq(Message) /\ pending \in Seq(Message) /\ Ordered(h) /\ OpenFor(h, calls, nextId)
  BY DEF IInv, Typing, HistoryTyping, HistoriesOK
<1>2. /\ h \in Seq(Message) /\ Len(disk) \in Nat
      /\ \A a \in 1 .. Len(disk) : a \in 1 .. Len(h) /\ h[a] = disk[a]
  BY <1>1, ConcatProperties
<1> HIDE DEF h
<1>3. /\ \A a \in 1 .. Len(disk) : f[a] \in 1 .. Len(h)
      /\ \A a, b \in 1 .. Len(disk) : a < b => f[a] < f[b]
      /\ \A a \in 1 .. Len(disk) : /\ disk[a].role = h[f[a]].role /\ disk[a].id = h[f[a]].id
                                   /\ disk[a].calls = h[f[a]].calls
  BY <1>2
<1> HIDE DEF f
<1> QED BY <1>1, <1>2, <1>3, EmbeddedIsOrdered, EmbeddedIsOpen

\* A message that may follow every history in order keeps the histories in
\* order, whether it is refused, buffered, or persisted later.
LEMMA HistoriesGrow ==
    ASSUME IInv, HistoriesOK, NEW m \in Message, NEW next, AddMessage(m, next), disk' = disk,
           \A s \in Seq(Message) : Ordered(s) /\ OpenFor(s, calls, nextId) =>
             /\ Ordered(Append(s, m)) /\ OpenFor(Append(s, m), calls', nextId')
             /\ OpenFor(s, calls', nextId')
    PROVE  HistoriesOK'
<1>0. disk \in Seq(Message) /\ buffer \in Seq(Message) /\ pending \in Seq(Message) /\ disk \o pending \in Seq(Message)
  BY ConcatProperties DEF IInv, Typing, HistoryTyping
<1>1. CASE IsValidMessage(m)
  <2>1. buffer' = Append(buffer, m) /\ pending' = <<m>>
    BY <1>1 DEF AddMessage
  <2>2. disk' \o pending' = Append(disk, m)
    BY <1>0, <2>1, AppendIsConcat
  <2>3. Ordered(disk) /\ OpenFor(disk, calls, nextId)
    BY DiskInOrder
  <2>4. Ordered(buffer') /\ OpenFor(buffer', calls', nextId')
    BY <1>0, <2>1 DEF HistoriesOK
  <2>5. Ordered(disk' \o pending') /\ OpenFor(disk' \o pending', calls', nextId')
    BY <1>0, <2>2, <2>3
  <2> QED BY <2>4, <2>5 DEF HistoriesOK
<1>2. CASE ~IsValidMessage(m)
  <2>1. buffer' = buffer /\ pending' = pending
    BY <1>2 DEF AddMessage
  <2>2. Ordered(buffer') /\ OpenFor(buffer', calls', nextId')
    BY <1>0, <2>1 DEF HistoriesOK
  <2>3. Ordered(disk' \o pending') /\ OpenFor(disk' \o pending', calls', nextId')
    BY <1>0, <2>1 DEF HistoriesOK
  <2> QED BY <2>2, <2>3 DEF HistoriesOK
<1> QED BY <1>1, <1>2

\* A query and an answer come when no call is open.
LEMMA PlainMessageKeeps ==
    ASSUME IInv, CallsOK, HistoriesOK, NEW m \in Message, NEW next, AddMessage(m, next),
           pc \in {"idle", "model"}, m.role # "tool", m.calls = <<>>,
           UNCHANGED <<disk, calls, nextId>>
    PROVE  CallsOK' /\ HistoriesOK'
<1>1. calls = <<>> /\ nextId \in Nat
  BY DEF CallsOK, IInv, Typing, TurnTyping
<1>2. DOMAIN <<>> = {}
  OBVIOUS
<1>3. Ids(m) = {}
  BY <1>2, Zenon DEF Ids
<1>4. ASSUME NEW s \in Seq(Message), Ordered(s), OpenFor(s, calls, nextId)
      PROVE  /\ Ordered(Append(s, m)) /\ OpenFor(Append(s, m), calls', nextId')
             /\ OpenFor(s, calls', nextId')
  <2>1. nextId <= nextId
    BY <1>1
  <2>2. \A k, l \in DOMAIN m.calls : k < l => m.calls[k] < m.calls[l]
    BY <1>2, Zenon
  <2>3. /\ Ordered(Append(s, m)) /\ OpenFor(Append(s, m), m.calls, nextId)
        /\ OpenFor(s, m.calls, nextId)
    BY <1>1, <1>3, <1>4, <2>1, <2>2, MessageComes
  <2> QED BY <1>1, <2>3
<1>5. HistoriesOK'
  BY <1>4, HistoriesGrow
<1>6. CallsOK'
  BY <1>1, <1>2 DEF CallsOK
<1> QED BY <1>5, <1>6

\* The histories stay in order over every step, when ids are never used again.
LEMMA HistoriesStay ==
    ASSUME ~FallbackIds, IInv, CallsOK, HistoriesOK, [Next]_vars
    PROVE  CallsOK' /\ HistoriesOK'
<1>0. /\ disk \in Seq(Message) /\ buffer \in Seq(Message) /\ pending \in Seq(Message)
      /\ calls \in Seq(Nat) /\ nextId \in Nat /\ turn \in 0 .. MaxTurns /\ MaxTurns \in Nat
      /\ (pc = "save" => Len(pending) = 1)
  BY ConversationAssumption DEF IInv, Typing, HistoryTyping, TurnTyping, AnswerOnItsWay
<1>a. DOMAIN <<>> = {}
  OBVIOUS
<1>1. CASE calls' = <<>> /\ UNCHANGED <<disk, buffer, pending, nextId>>
  <2>1. CallsOK'
    BY <1>1, <1>a DEF CallsOK
  <2>2. OpenFor(buffer, <<>>, nextId) /\ OpenFor(disk \o pending, <<>>, nextId)
    BY OpenForNone DEF HistoriesOK
  <2>3. HistoriesOK'
    BY <1>1, <2>2 DEF HistoriesOK
  <2> QED BY <2>1, <2>3
<1>2. CASE /\ UNCHANGED <<disk, buffer, pending, calls, nextId, turn>>
           /\ \/ UNCHANGED <<pc, after>>
              \/ pc \in {"snapshot", "top", "gate"}
              \/ pc = "tools" /\ calls = <<>>
  <2>1. HistoriesOK'
    BY <1>2 DEF HistoriesOK
  <2>2. CallsOK'
    BY <1>2 DEF CallsOK
  <2> QED BY <2>1, <2>2
<1>3. CASE SaveMessage
  <2> DEFINE m == pending[1]
             h == disk \o pending
  <2>1. /\ pc = "save" /\ pending' = <<>> /\ pc' = after
        /\ UNCHANGED <<buffer, calls, nextId>>
        /\ disk' = Append(disk, m) \/ disk' = <<m>> \/ disk' = <<>> \/ disk' = disk
    BY <1>3 DEF SaveMessage, JsonSaveMessage, DbSaveMessage, turnVars
  <2>2. Len(pending) = 1 /\ m \in Message
    <3>1. Len(pending) = 1
      BY <1>0, <2>1
    <3>2. 1 \in 1 .. Len(pending)
      BY <3>1
    <3>3. \A i \in 1 .. Len(pending) : pending[i] \in Message
      BY <1>0
    <3> QED BY <3>1, <3>2, <3>3
  <2> HIDE DEF m
  <2>a. pending = <<m>>
    <3> DEFINE one == <<m>>
    <3>1. one \in Seq(Message) /\ Len(one) = 1 /\ one[1] = m
      BY <2>2
    <3>2. \A i \in 1 .. 1 : i = 1
      OBVIOUS
    <3> HIDE DEF one
    <3>3. \A i \in 1 .. Len(pending) : pending[i] = one[i]
      BY <2>2, <3>1, <3>2 DEF m
    <3>4. pending = one
      BY <1>0, <2>2, <3>1, <3>3, SeqEqual
    <3> QED BY <3>4 DEF one
  <2>b. h = Append(disk, m)
    BY <1>0, <2>2, <2>a, AppendIsConcat
  <2>3. h \in Seq(Message) /\ Len(h) = Len(disk) + 1 /\ h[Len(h)] = m /\ Len(disk) \in Nat
    <3>1. /\ Append(disk, m) \in Seq(Message) /\ Len(Append(disk, m)) = Len(disk) + 1 /\ Len(disk) \in Nat
          /\ Append(disk, m)[Len(disk) + 1] = m
      BY <1>0, <2>2, AppendDoes
    <3> HIDE DEF h
    <3> QED BY <2>b, <3>1
  <2>c. Ordered(h) /\ OpenFor(h, calls, nextId)
    BY DEF HistoriesOK
  <2> HIDE DEF h
  <2>4. Ordered(<<m>>) /\ OpenFor(<<m>>, calls, nextId)
    <3> DEFINE f == [a \in 1 .. 1 |-> Len(h)]
               one == <<m>>
    <3>1. one \in Seq(Message) /\ Len(one) = 1 /\ one[1] = m
      BY <2>2
    <3>2. f[1] = Len(h) /\ Len(h) \in 1 .. Len(h) /\ \A a \in 1 .. 1 : a = 1
      BY <2>3
    <3> HIDE DEF f, one
    <3>3. /\ \A a \in 1 .. Len(one) : f[a] \in 1 .. Len(h)
          /\ \A a, b \in 1 .. Len(one) : a < b => f[a] < f[b]
          /\ \A a \in 1 .. Len(one) : /\ one[a].role = h[f[a]].role /\ one[a].id = h[f[a]].id
                                      /\ one[a].calls = h[f[a]].calls
      BY <2>3, <3>1, <3>2
    <3>4. Ordered(one)
      BY <2>3, <2>c, <3>1, <3>3, EmbeddedIsOrdered
    <3>5. OpenFor(one, calls, nextId)
      BY <2>3, <2>c, <3>1, <3>3, EmbeddedIsOpen
    <3> QED BY <3>4, <3>5 DEF one
  <2>5. Ordered(disk') /\ OpenFor(disk', calls, nextId) /\ disk' \in Seq(Message)
    <3>1. Ordered(disk) /\ OpenFor(disk, calls, nextId)
      BY DiskInOrder
    <3>2. CASE disk' = Append(disk, m)
      BY <2>b, <2>3, <2>c, <3>2, Zenon
    <3>3. CASE disk' = <<m>>
      <4>1. <<m>> \in Seq(Message)
        BY <2>2
      <4> QED BY <2>4, <3>3, <4>1, Zenon
    <3>4. CASE disk' = disk
      BY <1>0, <3>1, <3>4
    <3>5. CASE disk' = <<>>
      <4>1. <<>> \in Seq(Message)
        OBVIOUS
      <4> QED BY <3>5, <4>1, EmptyIsOrdered, Zenon
    <3> QED BY <2>1, <3>2, <3>3, <3>4, <3>5
  <2>6. disk' \o pending' = disk'
    BY <2>1, <2>5, ConcatEmptySeq
  <2>7. HistoriesOK'
    BY <2>1, <2>5, <2>6 DEF HistoriesOK
  <2>8. CallsOK'
    BY <2>1 DEF CallsOK
  <2> QED BY <2>7, <2>8
<1>4. CASE Crash
  <2>1. /\ pc' = "down" /\ buffer' = <<>> /\ pending' = <<>> /\ calls' = <<>> /\ nextId' = nextId /\ disk' = disk
    BY <1>4 DEF Crash, storeVars
  <2>2. Ordered(disk) /\ OpenFor(disk, <<>>, nextId)
    BY DiskInOrder, OpenForNone
  <2>3. disk' \o pending' = disk
    BY <1>0, <2>1, ConcatEmptySeq
  <2>4. Ordered(buffer') /\ OpenFor(buffer', calls', nextId')
    BY <2>1, EmptyIsOrdered
  <2>5. HistoriesOK'
    BY <2>1, <2>2, <2>3, <2>4 DEF HistoriesOK
  <2>6. CallsOK'
    BY <1>a, <2>1 DEF CallsOK
  <2> QED BY <2>5, <2>6
<1>5. CASE Initialize
  <2>1. pc = "down" /\ pc' = "idle" /\ UNCHANGED <<disk, pending, calls, nextId>>
    BY <1>5 DEF Initialize, storeVars, turnVars
  <2>2. PICK history \in LoadHistory : buffer' = TrimOrphanTrailingToolCalls(history)
    BY <1>5 DEF Initialize
  <2>3. history \in Seq(Message) /\ Ordered(history) /\ OpenFor(history, calls, nextId)
    <3>1. history = disk \/ history = <<>>
      BY DEF LoadHistory
    <3>2. Ordered(disk) /\ OpenFor(disk, calls, nextId)
      BY DiskInOrder
    <3>3. <<>> \in Seq(Message) /\ Ordered(<<>>) /\ OpenFor(<<>>, calls, nextId)
      BY EmptyIsOrdered
    <3> QED BY <1>0, <3>1, <3>2, <3>3
  <2>4. PICK last \in 0 .. Len(history) : buffer' = SubSeq(history, 1, last)
    BY <2>2, <2>3, TrimTyped
  <2>5. 1 \in 1 .. Len(history) + 1
    BY <2>3
  <2>6. Ordered(buffer') /\ OpenFor(buffer', calls, nextId)
    BY <2>3, <2>4, <2>5, StretchIsOrdered
  <2>7. HistoriesOK'
    BY <2>1, <2>6 DEF HistoriesOK
  <2>8. CallsOK'
    BY <2>1 DEF CallsOK
  <2> QED BY <2>7, <2>8
<1>6. CASE Invoke
  <2> DEFINE m == User(turn + 1)
  <2>1. /\ pc = "idle" /\ turn < MaxTurns /\ AddMessage(m, "snapshot") /\ UNCHANGED <<disk, calls, nextId>>
    BY <1>6 DEF Invoke, storeVars
  <2>2. m \in Message /\ m.role # "tool" /\ m.calls = <<>>
    <3>1. turn + 1 \in 0 .. MaxTurns
      BY <1>0, <2>1
    <3> QED BY <3>1, MessagesTyped DEF User
  <2> HIDE DEF m
  <2> QED BY <2>1, <2>2, PlainMessageKeeps
<1>7. CASE ModelAnswers
  <2> DEFINE m == Assistant({turn}, <<>>)
  <2>1. /\ pc = "model" /\ AddMessage(m, "final") /\ UNCHANGED <<disk, calls, nextId>>
    BY <1>7 DEF ModelAnswers, storeVars, turnVars
  <2>2. m \in Message /\ m.role # "tool" /\ m.calls = <<>>
    <3>1. {turn} \in Text /\ <<>> \in Seq(Nat)
      BY <1>0 DEF Text
    <3> QED BY <3>1, MessagesTyped DEF Assistant
  <2> HIDE DEF m
  <2> QED BY <2>1, <2>2, PlainMessageKeeps
<1>8. CASE ModelCallsTools
  <2>1. pc = "model" /\ disk' = disk /\ calls = <<>>
    BY <1>8 DEF ModelCallsTools, storeVars, CallsOK
  <2>2. PICK n \in 1 .. MaxCalls, text \in {{}, {turn}} :
          /\ calls' = [k \in 1 .. n |-> nextId + k - 1] /\ nextId' = nextId + n
          /\ AddMessage(Assistant(text, [k \in 1 .. n |-> nextId + k - 1]), "tools")
    BY <1>8 DEF ModelCallsTools
  <2> DEFINE ids == [k \in 1 .. n |-> nextId + k - 1]
             m == Assistant(text, ids)
  <2>3. n \in Nat /\ n > 0 /\ text \in Text
    BY <1>0, ConversationAssumption DEF Text
  <2>4. ids \in Seq(Nat) /\ DOMAIN ids = 1 .. n /\ \A k \in 1 .. n : ids[k] = nextId + k - 1
    BY <1>0, <2>3, FreshIds
  <2>5. calls' = ids /\ nextId' = nextId + n /\ nextId' \in Nat /\ nextId <= nextId' /\ AddMessage(m, "tools")
    BY <1>0, <2>2, <2>3
  <2> HIDE DEF ids
  <2>6. m \in Message /\ m.role = "assistant" /\ m.calls = ids
    BY <2>3, <2>4, MessagesTyped DEF Assistant
  <2>7. pc' = "save" /\ after' = "tools"
    <3>1. m.calls # <<>>
      BY <1>a, <2>3, <2>4, <2>6
    <3>2. IsValidMessage(m)
      BY <2>6, <3>1 DEF IsValidMessage
    <3> HIDE DEF m
    <3> QED BY <2>5, <3>2 DEF AddMessage
  <2> HIDE DEF m
  <2>8. /\ \A k, l \in DOMAIN ids : k < l => ids[k] < ids[l]
        /\ \A k \in DOMAIN ids : nextId <= ids[k] /\ ids[k] < nextId'
    BY <1>0, <2>3, <2>4, <2>5
  <2>9. \A x \in Ids(m) : nextId <= x /\ x < nextId'
    BY <2>6, <2>8 DEF Ids
  <2>10. ASSUME NEW s \in Seq(Message), Ordered(s), OpenFor(s, calls, nextId)
         PROVE  /\ Ordered(Append(s, m)) /\ OpenFor(Append(s, m), calls', nextId')
                /\ OpenFor(s, calls', nextId')
    <3>1. m.role # "tool" /\ (m.calls # <<>> => m.role = "assistant") /\ OpenFor(s, <<>>, nextId)
          /\ \A k, l \in DOMAIN m.calls : k < l => m.calls[k] < m.calls[l]
      BY <2>1, <2>6, <2>8, <2>10
    <3> DEFINE bound == nextId'
    <3>2. bound \in Nat /\ nextId <= bound /\ \A x \in Ids(m) : nextId <= x /\ x < bound
      BY <2>5, <2>9
    <3> HIDE DEF bound
    <3>3. /\ Ordered(Append(s, m)) /\ OpenFor(Append(s, m), m.calls, bound)
          /\ OpenFor(s, m.calls, bound)
      BY <1>0, <2>6, <2>10, <3>1, <3>2, MessageComes
    <3> QED BY <2>5, <2>6, <3>3 DEF bound
  <2>11. HistoriesOK'
    BY <2>1, <2>5, <2>6, <2>10, HistoriesGrow
  <2>12. CallsOK'
    BY <2>5, <2>7, <2>8 DEF CallsOK
  <2> QED BY <2>11, <2>12
<1>9. CASE ExecuteTool
  <2>1. pc = "tools" /\ calls # <<>> /\ calls' = Tail(calls) /\ UNCHANGED <<disk, nextId>>
    BY <1>9 DEF ExecuteTool, storeVars
  <2>2. PICK text \in {{}, {turn}} : AddMessage(ToolResult(Head(calls), text), "tools")
    BY <1>9 DEF ExecuteTool
  <2> DEFINE m == ToolResult(Head(calls), text)
  <2>3. m \in Message /\ m.role = "tool" /\ m.id = Head(calls) /\ m.calls = <<>>
    <3>1. text \in Text /\ Head(calls) \in Nat
      BY <1>0, <2>1 DEF Text
    <3> QED BY <3>1, MessagesTyped DEF ToolResult
  <2>4. AddMessage(m, "tools")
    BY <2>2
  <2> HIDE DEF m
  <2>5. /\ \A k \in DOMAIN calls : calls[k] < nextId
        /\ \A k, l \in DOMAIN calls : k < l => calls[k] < calls[l]
    BY DEF CallsOK
  <2>6. ASSUME NEW s \in Seq(Message), Ordered(s), OpenFor(s, calls, nextId)
        PROVE  /\ Ordered(Append(s, m)) /\ OpenFor(Append(s, m), calls', nextId')
               /\ OpenFor(s, calls', nextId')
    <3>1. /\ Ordered(Append(s, m)) /\ OpenFor(Append(s, m), Tail(calls), nextId)
          /\ OpenFor(s, Tail(calls), nextId)
      BY <1>0, <2>1, <2>3, <2>5, <2>6, ResultComes
    <3> QED BY <2>1, <3>1
  <2>7. HistoriesOK'
    BY <2>1, <2>3, <2>4, <2>6, HistoriesGrow
  <2>8. CallsOK'
    <3>1. \A k \in DOMAIN Tail(calls) : k + 1 \in DOMAIN calls /\ Tail(calls)[k] = calls[k + 1] /\ k \in Nat
      BY <1>0, <2>1, HeadTailProperties, LenProperties
    <3>2. pc' = "tools" \/ (pc' = "save" /\ after' = "tools")
      BY <2>4 DEF AddMessage
    <3>3. \A k, l \in DOMAIN Tail(calls) : k < l => Tail(calls)[k] < Tail(calls)[l]
      BY <2>5, <3>1
    <3>4. \A k \in DOMAIN Tail(calls) : Tail(calls)[k] < nextId
      BY <2>5, <3>1
    <3> QED BY <2>1, <3>2, <3>3, <3>4 DEF CallsOK
  <2> QED BY <2>7, <2>8
<1> QED BY <1>1, <1>2, <1>3, <1>4, <1>5, <1>6, <1>7, <1>8, <1>9, StepsByEffect

-----------------------------------------------------------------------------
(* The theorems.                                                           *)

\* A new session has nothing to keep.
LEMMA InitIInv == Init => IInv
<1> SUFFICES ASSUME Init PROVE IInv
  OBVIOUS
<1>1. HistoryTyping /\ TurnTyping
  BY ConversationAssumption DEF Init, HistoryTyping, TurnTyping
<1>2. CancelSeen /\ CancelStopsRequests /\ AnswerOnItsWay /\ ShownAnswerSurvives
  BY DEF Init, CancelSeen, CancelStopsRequests, AnswerOnItsWay, ShownAnswerSurvives
<1> QED BY <1>1, <1>2 DEF IInv, Typing

\* Every step keeps the invariant.
LEMMA NextIInv == IInv /\ [Next]_vars => IInv'
<1> SUFFICES ASSUME IInv, [Next]_vars PROVE IInv'
  OBVIOUS
<1>1. CASE SaveMessage
  BY <1>1, SaveKeeps
<1>2. CASE TakeSnapshot \/ NextIteration
  BY <1>2, MoveKeeps
<1>3. CASE LoopTop \/ CallModelStream
  <2>1. EndTurn \/ (LoopTop /\ pc' = "gate") \/ (CallModelStream /\ pc' = "model")
    BY <1>3 DEF LoopTop, CallModelStream
  <2> QED BY <1>3, <2>1, MoveKeeps, EndsKeep
<1>4. CASE ModelFails \/ Final \/ CallbackThrows
  BY <1>4, EndsKeep
<1>5. CASE Invoke \/ ModelAnswers \/ ModelCallsTools \/ ExecuteTool
  BY <1>5, MessagesKeep
<1>6. CASE Cancel \/ Crash \/ Initialize
  BY <1>6, DisruptionsKeep
<1>7. CASE UNCHANGED vars
  BY <1>7 DEF vars, IInv, Typing, HistoryTyping, TurnTyping, CancelSeen, CancelStopsRequests, AnswerOnItsWay,
              Kept, ShownAnswerSurvives
<1> QED BY <1>1, <1>2, <1>3, <1>4, <1>5, <1>6, <1>7 DEF Next, Step

\* The inductive invariant holds throughout.
THEOREM Invariant == Spec => []IInv
BY InitIInv, NextIInv, PTL DEF Spec

\* Histories stay sequences of messages over every crash and restart, and the
\* loop stays within maxIterations.
THEOREM TypeCorrect == Spec => []TypeOK
<1>1. IInv => TypeOK
  <2> SUFFICES ASSUME IInv PROVE TypeOK
    OBVIOUS
  <2>1. HistoryTyping /\ TurnTyping
    BY DEF IInv, Typing
  <2>2. {turn, nextId, cancelGeneration, myGeneration, overwrites, faults} \subseteq Nat
    BY <2>1, ConversationAssumption DEF HistoryTyping, TurnTyping
  <2> QED BY <2>1, <2>2 DEF TypeOK, HistoryTyping, TurnTyping
<1> QED BY <1>1, Invariant, PTL

\* A cancel from any thread, at any point of the loop, lets the request that
\* may be under way be the turn's last one.
THEOREM CancelledTurnsStop == Spec => []CancelStopsRequests
<1>1. IInv => CancelStopsRequests
  BY DEF IInv
<1> QED BY <1>1, Invariant, PTL

\* An answer the caller has seen is in the persisted history after any number
\* of turns, exceptions, crashes and restarts, unless its own save failed or a
\* later save could not read the file.
THEOREM ShownAnswersSurvive == Spec => []ShownAnswerSurvives
<1>1. IInv => ShownAnswerSurvives
  BY DEF IInv
<1> QED BY <1>1, Invariant, PTL

\* Every window has at most maxMessages messages and still the query of the
\* turn, over merging, compression, the cut and the repair of pairs, and however
\* the turn and the ones before it were disturbed.
THEOREM WindowsKeepQuery == Spec => []WindowKeepsQuery
<1>1. Init => QueryBuffered
  BY DEF Init, QueryBuffered
<1>2. IInv /\ QueryBuffered /\ [Next]_vars => QueryBuffered'
  BY QueryStays
<1>3. IInv /\ QueryBuffered => WindowKeepsQuery
  <2> SUFFICES ASSUME IInv, QueryBuffered, pc = "gate"
               PROVE  LET w == GetContextWindow IN
                        /\ Len(w) <= MaxMessages
                        /\ \E i \in DOMAIN w : w[i].role = "user" /\ turn \in w[i].text
    BY DEF WindowKeepsQuery
  <2>1. buffer \in Seq(Message)
    BY DEF IInv, Typing, HistoryTyping
  <2>2. PICK p \in DOMAIN buffer : IsQuery(buffer, p)
    BY DEF QueryBuffered
  <2> DEFINE v == ApplyContextLimits(buffer)
  <2>3. /\ Len(v) <= MaxMessages
        /\ \E i \in DOMAIN v : v[i].role = "user" /\ turn \in v[i].text
    BY <2>1, <2>2, WindowDoes
  <2>4. v = GetContextWindow
    BY DEF GetContextWindow
  <2> HIDE DEF v
  <2> QED BY <2>3, <2>4
<1> QED BY <1>1, <1>2, <1>3, Invariant, PTL DEF Spec

\* In prompt-only mode, where the ids are the worker's own and come again after a
\* restart, no request refers to calls and none loses a result, whatever the ids.
THEOREM PromptOnlyRequestsWellFormed == Spec => []PromptOnlyWellFormed
<1>1. IInv => PromptOnlyWellFormed
  <2> SUFFICES ASSUME IInv PROVE PromptOnlyWellFormed
    OBVIOUS
  <2>1. buffer \in Seq(Message)
    BY DEF IInv, Typing, HistoryTyping
  <2> DEFINE v == GetContextWindow
             w == Append(v, RuntimeNote)
  <2>2. v \in Seq(Message)
    BY <2>1, WindowDoes DEF GetContextWindow
  <2> HIDE DEF v
  <2>3. \A r \in {OpenAiFormat(w, FALSE), AnthropicFormat(w, FALSE)} :
              /\ \A i \in DOMAIN r : r[i].role # "tool" /\ r[i].calls = <<>>
              /\ \A j \in DOMAIN w : w[j].role = "tool" =>
                   \E i \in DOMAIN r : r[i].role = "user" /\ w[j].id \in r[i].results
    BY <2>2, PromptOnlyTells, Zenon
  <2> QED BY <2>3, Zenon DEF PromptOnlyWellFormed, v
<1> QED BY <1>1, Invariant, PTL

\* When the ids of calls are never used again, the buffer and the persisted
\* history stay in order over lost saves, unreadable files, crashes between two
\* tools and refused results: results come in the order of their calls, with
\* nothing but results of the same message between a call and its result.
THEOREM HistoriesInOrder ==
    ASSUME ~FallbackIds
    PROVE  Spec => [](CallsOK /\ HistoriesOK)
<1>1. Init => CallsOK /\ HistoriesOK
  <2> SUFFICES ASSUME Init PROVE CallsOK /\ HistoriesOK
    OBVIOUS
  <2>1. disk = <<>> /\ buffer = <<>> /\ pending = <<>> /\ calls = <<>> /\ nextId = 1
    BY DEF Init
  <2>2. <<>> \o <<>> = <<>>
    OBVIOUS
  <2>3. disk \o pending = <<>>
    BY <2>1, <2>2, Zenon
  <2>4. HistoriesOK
    BY <2>1, <2>3, EmptyIsOrdered DEF HistoriesOK
  <2>5. DOMAIN <<>> = {}
    OBVIOUS
  <2>6. CallsOK
    BY <2>1, <2>5, Zenon DEF CallsOK
  <2> QED BY <2>4, <2>6
<1>2. IInv /\ CallsOK /\ HistoriesOK /\ [Next]_vars => (CallsOK /\ HistoriesOK)'
  BY HistoriesStay
<1> QED BY <1>1, <1>2, Invariant, PTL DEF Spec

\* Then every request is one its API accepts: for OpenAI and Anthropic the calls
\* are followed by exactly their results, and in prompt-only mode nothing refers
\* to calls and no result is lost.
THEOREM RequestsWellFormed ==
    ASSUME ~FallbackIds
    PROVE  Spec => []RequestWellFormed
<1>1. IInv /\ CallsOK /\ HistoriesOK => RequestWellFormed
  <2> SUFFICES ASSUME IInv, HistoriesOK PROVE RequestWellFormed
    OBVIOUS
  <2>1. buffer \in Seq(Message) /\ Ordered(buffer)
    BY DEF IInv, Typing, HistoryTyping, HistoriesOK
  <2> DEFINE v == GetContextWindow
             w == Append(v, RuntimeNote)
             native == AnthropicFormat(w, TRUE)
  <2>2. v \in Seq(Message) /\ Ordered(v) /\ Complete(v)
    BY <2>1, WindowDoes DEF GetContextWindow
  <2> HIDE DEF v
  <2>3. /\ Paired(OpenAiFormat(w, TRUE))
        /\ \A i \in DOMAIN native :
             /\ native[i].role # "system"
             /\ LET due == IF i = 1 THEN <<>> ELSE native[i - 1].calls IN
                  native[i].results = {due[k] : k \in DOMAIN due}
        /\ native # <<>> => native[Len(native)].calls = <<>>
        /\ \A r \in {OpenAiFormat(w, FALSE), AnthropicFormat(w, FALSE)} :
             /\ \A i \in DOMAIN r : r[i].role # "tool" /\ r[i].calls = <<>>
             /\ \A j \in DOMAIN w : w[j].role = "tool" =>
                  \E i \in DOMAIN r : r[i].role = "user" /\ w[j].id \in r[i].results
    BY <2>2, RequestAccepted, Zenon
  <2> QED BY <2>3, Zenon DEF RequestWellFormed, v
<1> QED BY <1>1, Invariant, HistoriesInOrder, PTL

=============================================================================
