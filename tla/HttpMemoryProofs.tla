-------------------------- MODULE HttpMemoryProofs --------------------------
(***************************************************************************)
(* Theorems about HttpMemory, for any number of threads, any retry count,  *)
(* threshold and cooldown, and any memory of the server.                   *)
(***************************************************************************)
EXTENDS HttpMemory, TLAPS

\* What BuildContext makes of a package of the server.
Filtered(pkg) == [server |-> pkg, shown |-> FilterExpired(pkg)]

\* TypeOK with the two variables it leaves open: how often the server acted is
\* a number, and the last context is none or a filtered package of the server.
Typing ==
    /\ TypeOK
    /\ stored \in [Threads -> Nat]
    /\ context \in [Threads -> {NoContext} \cup {Filtered(pkg) : pkg \in Packages}]

\* The failure counter saturates at the threshold.
LEMMA SaturatedType ==
    ASSUME NEW n \in 0 .. Threshold
    PROVE  Saturated(n + 1) \in 0 .. Threshold
BY HttpMemoryAssumption DEF Saturated

\* Typing is inductive.
LEMMA TypingStep ==
    ASSUME Typing, [Next]_vars
    PROVE  Typing'
<1> DEFINE Ctx == {NoContext} \cup {Filtered(pkg) : pkg \in Packages}
<1> HIDE DEF Ctx
<1>0. context \in [Threads -> Ctx] /\ NoContext \in Ctx /\ \A pkg \in Packages : Filtered(pkg) \in Ctx
  BY DEF Typing, Ctx
<1>a. SUFFICES TypeOK' /\ stored' \in [Threads -> Nat] /\ context' \in [Threads -> Ctx]
  BY DEF Typing, Ctx
<1> USE HttpMemoryAssumption, <1>0, SaturatedType DEF Typing, TypeOK, Return, Act
<1>1. ASSUME NEW t \in Threads, NEW o \in Writes \cup Reads, Call(t, o)
      PROVE  TypeOK' /\ stored' \in [Threads -> Nat] /\ context' \in [Threads -> Ctx]
  BY <1>1 DEF Call
<1>2. ASSUME NEW t \in Threads, Answer(t)
      PROVE  TypeOK' /\ stored' \in [Threads -> Nat] /\ context' \in [Threads -> Ctx]
  BY <1>2 DEF Answer, Filtered
<1>3. ASSUME NEW t \in Threads, Reject(t)
      PROVE  TypeOK' /\ stored' \in [Threads -> Nat] /\ context' \in [Threads -> Ctx]
  BY <1>3 DEF Reject
<1>4. ASSUME NEW t \in Threads, Refuse(t)
      PROVE  TypeOK' /\ stored' \in [Threads -> Nat] /\ context' \in [Threads -> Ctx]
  BY <1>4 DEF Refuse
<1>5. ASSUME NEW t \in Threads, Transient(t)
      PROVE  TypeOK' /\ stored' \in [Threads -> Nat] /\ context' \in [Threads -> Ctx]
  BY <1>5 DEF Transient, AfterTransient
<1>6. ASSUME NEW t \in Threads, SleepBackoff(t) \/ CheckThreshold(t)
      PROVE  TypeOK' /\ stored' \in [Threads -> Nat] /\ context' \in [Threads -> Ctx]
  BY <1>6 DEF SleepBackoff, CheckThreshold
<1>7. CASE Tick
  <2>1. openFor' \in 0 .. Cooldown
    BY <1>7 DEF Tick
  <2>2. UNCHANGED <<failures, healthy, pc, op, attempt, result, stored, context>>
    BY <1>7 DEF Tick
  <2> QED BY <2>1, <2>2
<1>8. CASE Recover
  <2>1. healthy' \in BOOLEAN
    BY <1>8 DEF Recover
  <2>2. UNCHANGED <<failures, openFor, pc, op, attempt, result, stored, context>>
    BY <1>8 DEF Recover
  <2> QED BY <2>1, <2>2
<1>9. CASE UNCHANGED vars
  BY <1>9 DEF vars
<1> QED BY <1>1, <1>2, <1>3, <1>4, <1>5, <1>6, <1>7, <1>8, <1>9 DEF Next, Step

\* Typing is an invariant.
LEMMA TypingInvariant == Spec => []Typing
<1>1. ASSUME Init PROVE Typing
  <2>1. TypeOK /\ stored \in [Threads -> Nat]
    <3> USE <1>1, HttpMemoryAssumption DEF Init
    <3>1. failures \in 0 .. Threshold /\ openFor \in 0 .. Cooldown
      OBVIOUS
    <3>2. attempt \in [Threads -> 0 .. MaxRetries] /\ stored \in [Threads -> Nat]
      OBVIOUS
    <3> QED BY <3>1, <3>2 DEF TypeOK, Writes, Reads
  <2> DEFINE Ctx == {Filtered(pkg) : pkg \in Packages}
  <2> HIDE DEF Ctx
  <2>2. context \in [Threads -> {NoContext} \cup Ctx]
    BY <1>1 DEF Init
  <2> QED BY <2>1, <2>2 DEF Typing, Ctx
<1>2. Typing /\ [Next]_vars => Typing'
  BY TypingStep
<1> QED BY <1>1, <1>2, PTL DEF Spec

\* Every reachable state of the runtime is well typed; the attempts of a call
\* stay within MaxRetries and the circuit's counter within the threshold.
THEOREM TypeCorrect == Spec => []TypeOK
<1>1. Typing => TypeOK
  BY DEF Typing
<1> QED BY <1>1, TypingInvariant, PTL

-----------------------------------------------------------------------------
(* What a write reports.                                                   *)

\* StoredAsReported made inductive: the server has acted at most once per
\* attempt that is over, and at most once more when the call is past its last.
ActedPerAttempt ==
    \A t \in Threads :
        stored[t] <= attempt[t] + (IF pc[t] \in {"send", "backoff"} THEN 0 ELSE 1)

Reported ==
    \A t \in Threads :
        op[t] \in Writes /\ pc[t] = "idle" =>
            /\ result[t] = "ok" => stored[t] > 0
            /\ result[t] = "skipped" => stored[t] = 0

\* The number of times the server acted is bounded by the attempts made.
LEMMA ActedPerAttemptStep ==
    ASSUME Typing, ActedPerAttempt, [Next]_vars
    PROVE  ActedPerAttempt'
<1> USE HttpMemoryAssumption DEF Typing, TypeOK, ActedPerAttempt, Return, Act
<1>1. ASSUME NEW t \in Threads, NEW o \in Writes \cup Reads, Call(t, o) PROVE ActedPerAttempt'
  BY <1>1 DEF Call
<1>2. ASSUME NEW t \in Threads, Answer(t) PROVE ActedPerAttempt'
  BY <1>2 DEF Answer
<1>3. ASSUME NEW t \in Threads, Reject(t) PROVE ActedPerAttempt'
  BY <1>3 DEF Reject
<1>4. ASSUME NEW t \in Threads, Refuse(t) PROVE ActedPerAttempt'
  BY <1>4 DEF Refuse
<1>5. ASSUME NEW t \in Threads, Transient(t) PROVE ActedPerAttempt'
  BY <1>5 DEF Transient, AfterTransient
<1>6. ASSUME NEW t \in Threads, SleepBackoff(t) \/ CheckThreshold(t) PROVE ActedPerAttempt'
  BY <1>6 DEF SleepBackoff, CheckThreshold
<1>7. CASE Tick \/ Recover \/ UNCHANGED vars
  BY <1>7 DEF Tick, Recover, vars
<1> QED BY <1>1, <1>2, <1>3, <1>4, <1>5, <1>6, <1>7 DEF Next, Step

\* What a finished write reports stays true until the thread's next call.
LEMMA ReportedStep ==
    ASSUME Typing, Reported, [Next]_vars
    PROVE  Reported'
<1> USE DEF Typing, TypeOK, Reported, Return, Act
<1>1. ASSUME NEW t \in Threads, NEW o \in Writes \cup Reads, Call(t, o) PROVE Reported'
  BY <1>1 DEF Call
<1>2. ASSUME NEW t \in Threads, Answer(t) PROVE Reported'
  BY <1>2 DEF Answer
<1>3. ASSUME NEW t \in Threads, Reject(t) PROVE Reported'
  BY <1>3 DEF Reject
<1>4. ASSUME NEW t \in Threads, Refuse(t) PROVE Reported'
  BY <1>4 DEF Refuse
<1>5. ASSUME NEW t \in Threads, Transient(t) PROVE Reported'
  BY <1>5 DEF Transient, AfterTransient
<1>6. ASSUME NEW t \in Threads, SleepBackoff(t) \/ CheckThreshold(t) PROVE Reported'
  BY <1>6 DEF SleepBackoff, CheckThreshold
<1>7. CASE Tick \/ Recover \/ UNCHANGED vars
  BY <1>7 DEF Tick, Recover, vars
<1> QED BY <1>1, <1>2, <1>3, <1>4, <1>5, <1>6, <1>7 DEF Next, Step

\* A write that returned success was acted on by the server, a skipped one was
\* not, and lost replies have it stored at most MaxRetries + 1 times, however
\* the threads' attempts and the shared circuit interleave.
THEOREM WritesStoredAsReported == Spec => []StoredAsReported
<1>1. Init => ActedPerAttempt /\ Reported
  BY DEF Init, ActedPerAttempt, Reported, Writes
<1>2. Typing /\ ActedPerAttempt /\ Reported /\ [Next]_vars => (ActedPerAttempt /\ Reported)'
  BY ActedPerAttemptStep, ReportedStep
<1>3. Typing /\ ActedPerAttempt /\ Reported => StoredAsReported
  <2>1. ASSUME Typing, ActedPerAttempt, NEW t \in Threads PROVE stored[t] <= MaxRetries + 1
    <3>1. attempt[t] \in Nat /\ attempt[t] <= MaxRetries /\ stored[t] \in Nat
      BY <2>1, HttpMemoryAssumption DEF Typing, TypeOK
    <3> QED BY <2>1, <3>1, HttpMemoryAssumption DEF ActedPerAttempt
  <2> QED BY <2>1 DEF Reported, StoredAsReported
<1> QED BY <1>1, <1>2, <1>3, TypingInvariant, PTL DEF Spec

-----------------------------------------------------------------------------
(* What a context names.                                                   *)

\* What FilterExpired takes out of a package is its expired event entities and
\* the relations and bullets that name one of them, whatever the package says of
\* entities it does not list.
LEMMA FilterRemovesExpired ==
    ASSUME NEW pkg \in Packages
    PROVE  LET c == FilterExpired(pkg)
               dropped == pkg.entities \cap pkg.expired \cap EventEntities
           IN  /\ c.entities = pkg.entities \ dropped /\ c.expired = pkg.expired
               /\ \A r \in c.relations : ~Names(r, dropped)
               /\ \A l \in c.lines : l.tokens \cap dropped = {}
<1> DEFINE dropped == pkg.entities \cap pkg.expired \cap EventEntities
           rels(S) == {r \in S : ~Names(r, dropped)}
           bullets(S) == {l \in S : l.tokens \cap dropped = {}}
           after == [pkg EXCEPT !.entities = @ \ dropped, !.relations = rels(@), !.lines = bullets(@)]
<1>1. FilterExpired(pkg) = after
  BY DEF FilterExpired
<1> HIDE DEF rels, bullets, dropped
<1>2. /\ after.entities = pkg.entities \ dropped /\ after.expired = pkg.expired
      /\ after.relations = rels(pkg.relations) /\ after.lines = bullets(pkg.lines)
  BY HttpMemoryAssumption
<1>3. (\A r \in rels(pkg.relations) : ~Names(r, dropped)) /\ (\A l \in bullets(pkg.lines) : l.tokens \cap dropped = {})
  BY DEF rels, bullets
<1> QED BY <1>1, <1>2, <1>3 DEF dropped

\* The context BuildContext returns lists no expired event entity, lacks nothing
\* else, and has no relation and no bullet that names one that was taken out,
\* for any package the server may send.
THEOREM ContextNamesNoExpired == Spec => []NoExpiredMention
<1>1. Typing => NoExpiredMention
  <2> SUFFICES ASSUME Typing, NEW t \in Threads
               PROVE  LET shown == context[t].shown
                          gone  == context[t].server.entities \ shown.entities
                      IN  /\ gone \subseteq EventEntities \cap shown.expired
                          /\ shown.entities \cap EventEntities \cap shown.expired = {}
                          /\ \A r \in shown.relations : ~Names(r, gone)
                          /\ \A l \in shown.lines : l.tokens \cap gone = {}
    BY DEF NoExpiredMention
  <2>1. CASE context[t] = NoContext
    BY <2>1 DEF NoContext, NoPackage
  <2>2. ASSUME NEW pkg \in Packages, context[t] = Filtered(pkg)
        PROVE  LET shown == context[t].shown
                   gone  == context[t].server.entities \ shown.entities
               IN  /\ gone \subseteq EventEntities \cap shown.expired
                   /\ shown.entities \cap EventEntities \cap shown.expired = {}
                   /\ \A r \in shown.relations : ~Names(r, gone)
                   /\ \A l \in shown.lines : l.tokens \cap gone = {}
    <3> DEFINE c == FilterExpired(pkg)
               dropped == pkg.entities \cap pkg.expired \cap EventEntities
    <3>1. /\ c.entities = pkg.entities \ dropped /\ c.expired = pkg.expired
          /\ \A r \in c.relations : ~Names(r, dropped)
          /\ \A l \in c.lines : l.tokens \cap dropped = {}
      BY FilterRemovesExpired
    <3>2. context[t].server = pkg /\ context[t].shown = c
      BY <2>2 DEF Filtered
    <3> HIDE DEF c
    <3>3. pkg.entities \ c.entities = dropped
      BY <3>1
    <3>4. dropped \subseteq EventEntities \cap c.expired /\ c.entities \cap EventEntities \cap c.expired = {}
      BY <3>1
    <3> HIDE DEF dropped
    <3>5. context[t].server.entities \ context[t].shown.entities = dropped
      BY <3>2, <3>3
    <3> QED BY <3>1, <3>2, <3>4, <3>5
  <2>3. context[t] \in {NoContext} \cup {Filtered(pkg) : pkg \in Packages}
    BY DEF Typing
  <2> QED BY <2>1, <2>2, <2>3
<1> QED BY <1>1, TypingInvariant, PTL

=============================================================================
