------------------------ MODULE SessionManagerProofs ------------------------
(***************************************************************************)
(* Theorems about SessionManager, for any number of threads, operators,    *)
(* sessions and reloads: the bounds are arbitrary naturals.                *)
(*                                                                         *)
(* Every proof has the same layout.  Typing is the inductive form of       *)
(* TypeOK; each safety property gets an inductive invariant of its own on  *)
(* top of it, proved action by action.  GroupFrame and AdminFrame say what *)
(* the actions of a group leave alone.                                     *)
(***************************************************************************)
EXTENDS SessionManager, FiniteSetTheorems, TLAPS

-----------------------------------------------------------------------------
(* Type correctness.                                                       *)

\* The locals a caller has set are the ones its place in Invoke implies.
CallerOK(t) ==
    /\ pc[t] # "idle" => sess[t] \in Sessions
    /\ pc[t] \in Resolved => ent[t] \in Entries /\ agt[t] \in Agents
    /\ pc[t] \notin Resolved => ent[t] = None /\ agt[t] = None

\* The locals of an operator call are the ones its kind implies.
CallOK(r) ==
    /\ r.op \in {"swap", "cancel"} => r.agent \in Agents
    /\ r.op = "swap" => r.root \in Roots
    /\ r.op \in {"erase", "trylock", "disk", "cleanup"} => r.sess \in Sessions
    /\ r.op = "trylock" => r.victim \in Entries

CallersOK == \A t \in Threads : CallerOK(t)

AdminsOK == \A o \in Admins : CallOK(adm[o])

\* TypeOK alone is not inductive: an action that dereferences ent[t] or
\* adm[o].agent needs to know that the pointer is not None there.
Typing == TypeOK /\ CallersOK /\ AdminsOK

\* The entry a session id denotes is one of the model's entries.
LEMMA EntryTyped ==
    ASSUME EntryTypeOK, NEW s \in Sessions
    PROVE  Entry(s) \in Entries
BY DEF EntryTypeOK, Entry, Entries

\* A group of variables that does not change keeps its type.
LEMMA GroupFrame ==
    /\ GateTypeOK /\ UNCHANGED gateVars => GateTypeOK'
    /\ AgentTypeOK /\ UNCHANGED agentVars => AgentTypeOK'
    /\ EntryTypeOK /\ UNCHANGED entryVars => EntryTypeOK'
    /\ DiskTypeOK /\ UNCHANGED diskVars => DiskTypeOK'
    /\ CallerTypeOK /\ UNCHANGED callerVars => CallerTypeOK'
    /\ CallersOK /\ UNCHANGED callerVars => CallersOK'
    /\ AdminsOK /\ UNCHANGED adm => AdminsOK'
<1>1. GateTypeOK /\ UNCHANGED gateVars => GateTypeOK'
  BY DEF GateTypeOK, gateVars
<1>2. AgentTypeOK /\ UNCHANGED agentVars => AgentTypeOK'
  BY DEF AgentTypeOK, agentVars
<1>3. EntryTypeOK /\ UNCHANGED entryVars => EntryTypeOK'
  BY DEF EntryTypeOK, entryVars
<1>4. DiskTypeOK /\ UNCHANGED diskVars => DiskTypeOK'
  BY DEF DiskTypeOK, diskVars
<1>5. CallerTypeOK /\ UNCHANGED callerVars => CallerTypeOK'
  BY DEF CallerTypeOK, callerVars
<1>6. CallersOK /\ UNCHANGED callerVars => CallersOK'
  BY DEF CallersOK, CallerOK, callerVars
<1>7. AdminsOK /\ UNCHANGED adm => AdminsOK'
  BY DEF AdminsOK
<1> QED BY <1>1, <1>2, <1>3, <1>4, <1>5, <1>6, <1>7

\* An operator call replaced by a well-formed one leaves them all well formed.
LEMMA SetCallTyped ==
    ASSUME adm \in [Admins -> Call], AdminsOK,
           NEW o \in Admins, NEW r \in Call, CallOK(r), SetCall(o, r)
    PROVE  adm' \in [Admins -> Call] /\ AdminsOK'
<1>1. adm' = [adm EXCEPT ![o] = r]
  BY DEF SetCall
<1>2. adm' \in [Admins -> Call]
  BY <1>1
<1>3. \A p \in Admins : CallOK(adm'[p])
  <2> TAKE p \in Admins
  <2>1. adm'[p] = IF p = o THEN r ELSE adm[p]
    BY <1>1
  <2> QED BY <2>1 DEF AdminsOK
<1> QED BY <1>2, <1>3 DEF AdminsOK

\* The idle call is well formed.
LEMMA NoCallTyped == NoCall \in Call /\ CallOK(NoCall)
BY DEF NoCall, Call, CallOK, Calls

\* Every step of a caller keeps the types.
LEMMA CallerTyping ==
    ASSUME Typing, NEW t \in Threads,
           \/ \E s \in Sessions : EnterGate(t, s)
           \/ SpuriousWake(t)
           \/ CallerStep(t)
    PROVE  Typing'
<1> USE BoundsAssumption, SetsAssumption, NoneAssumption
    DEF Goto, Places, Resolved, InMutex, Marked, InTurn
<1> USE DEF Typing, TypeOK
<1>1. ASSUME NEW s \in Sessions, EnterGate(t, s) PROVE Typing'
  <2>1. AgentTypeOK' /\ EntryTypeOK' /\ DiskTypeOK' /\ (adm \in [Admins -> Call])'
        /\ AdminsOK'
    BY <1>1, GroupFrame DEF EnterGate
  <2>2. GateTypeOK'
    BY <1>1 DEF GateTypeOK, EnterGate
  <2>3. (used \in Budget)'
    BY <1>1 DEF Budget, EnterGate
  <2>4. CallerTypeOK'
    BY <1>1 DEF CallerTypeOK, CallersOK, CallerOK, EntryTypeOK, AgentTypeOK, EnterGate
  <2>5. CallersOK'
    <3>1. pc' \in [Threads -> Places] /\ sess' = [sess EXCEPT ![t] = s]
      BY <1>1, <2>4 DEF CallerTypeOK, EnterGate
    <3>2. pc'[t] \in {"test", "resolve"} /\ UNCHANGED <<ent, agt>>
      BY <1>1 DEF CallerTypeOK, EnterGate
    <3>3. \A u \in Threads : u # t => pc'[u] = pc[u] /\ sess'[u] = sess[u]
      BY <1>1 DEF CallerTypeOK, EnterGate
    <3> QED BY <1>1, <3>1, <3>2, <3>3 DEF CallerTypeOK, CallersOK, CallerOK, EnterGate
  <2> QED BY <2>1, <2>2, <2>3, <2>4, <2>5
<1>2. CASE TestGate(t)
  <2>1. AgentTypeOK' /\ EntryTypeOK' /\ DiskTypeOK' /\ (used \in Budget)'
        /\ (adm \in [Admins -> Call])' /\ AdminsOK'
    BY <1>2, GroupFrame DEF TestGate
  <2>2. GateTypeOK'
    BY <1>2 DEF GateTypeOK, TestGate
  <2>3. CallerTypeOK'
    BY <1>2 DEF CallerTypeOK, CallersOK, CallerOK, EntryTypeOK, AgentTypeOK, TestGate
  <2>4. CallersOK'
    BY <1>2 DEF CallerTypeOK, CallersOK, CallerOK, TestGate
  <2> QED BY <2>1, <2>2, <2>3, <2>4
<1>3. CASE SpuriousWake(t)
  <2>1. GateTypeOK' /\ AgentTypeOK' /\ EntryTypeOK' /\ DiskTypeOK' /\ (used \in Budget)'
        /\ (adm \in [Admins -> Call])' /\ AdminsOK'
    BY <1>3, GroupFrame DEF SpuriousWake
  <2>2. CallerTypeOK'
    BY <1>3 DEF CallerTypeOK, CallersOK, CallerOK, EntryTypeOK, AgentTypeOK, SpuriousWake
  <2>3. CallersOK'
    BY <1>3 DEF CallerTypeOK, CallersOK, CallerOK, SpuriousWake
  <2> QED BY <2>1, <2>2, <2>3
<1>4. CASE Resolve(t)
  <2> DEFINE s == sess[t]
  <2>a. s \in Sessions /\ Entry(s) \in Entries
    BY <1>4, EntryTyped DEF CallersOK, CallerOK, Resolve
  <2>b. FoundAgent(s) \in Agents /\ active \in Agents
    BY <2>a DEF EntryTypeOK, AgentTypeOK, FoundAgent
  <2>1. GateTypeOK' /\ AgentTypeOK' /\ (used \in Budget)' /\ (adm \in [Admins -> Call])'
        /\ AdminsOK'
    BY <1>4, GroupFrame DEF Resolve
  <2>2. EntryTypeOK'
    BY <1>4, <2>a, <2>b DEF EntryTypeOK, CallerTypeOK, CallersOK, CallerOK, Resolve,
        FindOrCreateEntry, DiskTypeOK
  <2>3. DiskTypeOK'
    BY <1>4, <2>a, <2>b DEF DiskTypeOK, CallersOK, CallerOK, Resolve, FindOrCreateEntry,
        DiskTypeOK
  <2>4. CallerTypeOK'
    BY <1>4, <2>a, <2>b DEF CallerTypeOK, CallersOK, CallerOK, EntryTypeOK, AgentTypeOK,
        Resolve
  <2>5. CallersOK'
    BY <1>4, <2>a, <2>b DEF CallerTypeOK, CallersOK, CallerOK, Resolve
  <2> QED BY <2>1, <2>2, <2>3, <2>4, <2>5
<1>5. CASE ResolveThrows(t)
  <2>1. GateTypeOK' /\ AgentTypeOK' /\ EntryTypeOK' /\ (adm \in [Admins -> Call])'
        /\ AdminsOK'
    BY <1>5, GroupFrame DEF ResolveThrows
  <2>2. DiskTypeOK'
    BY <1>5 DEF DiskTypeOK, CallersOK, CallerOK, ResolveThrows
  <2>3. (used \in Budget)'
    BY <1>5 DEF Budget, ResolveThrows
  <2>4. CallerTypeOK'
    BY <1>5 DEF CallerTypeOK, CallersOK, CallerOK, EntryTypeOK, AgentTypeOK, ResolveThrows
  <2>5. CallersOK'
    BY <1>5 DEF CallerTypeOK, CallersOK, CallerOK, ResolveThrows
  <2> QED BY <2>1, <2>2, <2>3, <2>4, <2>5
<1>6. CASE LockEntry(t)
  <2>1. GateTypeOK' /\ AgentTypeOK' /\ DiskTypeOK' /\ (used \in Budget)'
        /\ (adm \in [Admins -> Call])' /\ AdminsOK'
    BY <1>6, GroupFrame DEF LockEntry
  <2>2. EntryTypeOK'
    BY <1>6 DEF EntryTypeOK, CallerTypeOK, CallersOK, CallerOK, LockEntry
  <2>3. CallerTypeOK'
    BY <1>6 DEF CallerTypeOK, CallersOK, CallerOK, EntryTypeOK, AgentTypeOK, LockEntry
  <2>4. CallersOK'
    BY <1>6 DEF CallerTypeOK, CallersOK, CallerOK, LockEntry
  <2> QED BY <2>1, <2>2, <2>3, <2>4
<1>7. CASE NotifySessionActive(t)
  <2>1. GateTypeOK' /\ EntryTypeOK' /\ DiskTypeOK' /\ (used \in Budget)'
        /\ (adm \in [Admins -> Call])' /\ AdminsOK'
    BY <1>7, GroupFrame DEF NotifySessionActive
  <2>2. AgentTypeOK'
    BY <1>7 DEF AgentTypeOK, CallerTypeOK, CallersOK, CallerOK, NotifySessionActive
  <2>3. CallerTypeOK'
    BY <1>7 DEF CallerTypeOK, CallersOK, CallerOK, EntryTypeOK, AgentTypeOK,
        NotifySessionActive
  <2>4. CallersOK'
    BY <1>7 DEF CallerTypeOK, CallersOK, CallerOK, NotifySessionActive
  <2> QED BY <2>1, <2>2, <2>3, <2>4
<1>8. CASE SnapshotGeneration(t)
  <2>1. GateTypeOK' /\ AgentTypeOK' /\ EntryTypeOK' /\ DiskTypeOK' /\ (used \in Budget)'
        /\ (adm \in [Admins -> Call])' /\ AdminsOK'
    BY <1>8, GroupFrame DEF SnapshotGeneration
  <2>2. CallerTypeOK'
    BY <1>8 DEF CallerTypeOK, CallersOK, CallerOK, EntryTypeOK, AgentTypeOK,
        SnapshotGeneration
  <2>3. CallersOK'
    BY <1>8 DEF CallerTypeOK, CallersOK, CallerOK, SnapshotGeneration
  <2> QED BY <2>1, <2>2, <2>3
<1>9. CASE BeginTool(t)
  <2>1. GateTypeOK' /\ AgentTypeOK' /\ EntryTypeOK' /\ DiskTypeOK' /\ (used \in Budget)'
        /\ (adm \in [Admins -> Call])' /\ AdminsOK'
    BY <1>9, GroupFrame DEF BeginTool
  <2>2. CallerTypeOK'
    BY <1>9 DEF CallerTypeOK, CallersOK, CallerOK, EntryTypeOK, AgentTypeOK, BeginTool
  <2>3. CallersOK'
    BY <1>9 DEF CallerTypeOK, CallersOK, CallerOK, BeginTool
  <2> QED BY <2>1, <2>2, <2>3
<1>10. CASE EndTool(t)
  <2>1. GateTypeOK' /\ AgentTypeOK' /\ EntryTypeOK' /\ DiskTypeOK' /\ (used \in Budget)'
        /\ (adm \in [Admins -> Call])' /\ AdminsOK'
    BY <1>10, GroupFrame DEF EndTool
  <2>2. CallerTypeOK'
    BY <1>10 DEF CallerTypeOK, CallersOK, CallerOK, EntryTypeOK, AgentTypeOK, EndTool
  <2>3. CallersOK'
    BY <1>10 DEF CallerTypeOK, CallersOK, CallerOK, EndTool
  <2> QED BY <2>1, <2>2, <2>3
<1>11. ASSUME NEW how \in {"done", "aborted"}, FinishTurn(t, how) PROVE Typing'
  <2>1. GateTypeOK' /\ AgentTypeOK' /\ EntryTypeOK' /\ DiskTypeOK' /\ (used \in Budget)'
        /\ (adm \in [Admins -> Call])' /\ AdminsOK'
    BY <1>11, GroupFrame DEF FinishTurn
  <2>2. CallerTypeOK'
    BY <1>11 DEF CallerTypeOK, CallersOK, CallerOK, EntryTypeOK, AgentTypeOK, FinishTurn
  <2>3. CallersOK'
    BY <1>11 DEF CallerTypeOK, CallersOK, CallerOK, FinishTurn
  <2> QED BY <2>1, <2>2, <2>3
<1>12. CASE TurnThrows(t)
  <2>1. GateTypeOK' /\ AgentTypeOK' /\ EntryTypeOK' /\ DiskTypeOK' /\ (used \in Budget)'
        /\ (adm \in [Admins -> Call])' /\ AdminsOK'
    BY <1>12, GroupFrame DEF TurnThrows
  <2>2. CallerTypeOK'
    BY <1>12 DEF CallerTypeOK, CallersOK, CallerOK, EntryTypeOK, AgentTypeOK, TurnThrows
  <2>3. CallersOK'
    BY <1>12 DEF CallerTypeOK, CallersOK, CallerOK, TurnThrows
  <2> QED BY <2>1, <2>2, <2>3
<1>13. CASE NotifySessionIdle(t)
  <2>1. GateTypeOK' /\ EntryTypeOK' /\ DiskTypeOK' /\ (used \in Budget)'
        /\ (adm \in [Admins -> Call])' /\ AdminsOK'
    BY <1>13, GroupFrame DEF NotifySessionIdle
  <2>2. AgentTypeOK'
    BY <1>13 DEF AgentTypeOK, CallerTypeOK, CallersOK, CallerOK, NotifySessionIdle
  <2>3. CallerTypeOK'
    BY <1>13 DEF CallerTypeOK, CallersOK, CallerOK, EntryTypeOK, AgentTypeOK,
        NotifySessionIdle
  <2>4. CallersOK'
    BY <1>13 DEF CallerTypeOK, CallersOK, CallerOK, NotifySessionIdle
  <2> QED BY <2>1, <2>2, <2>3, <2>4
<1>14. CASE ClearBusy(t)
  <2>1. GateTypeOK' /\ AgentTypeOK' /\ DiskTypeOK' /\ (used \in Budget)'
        /\ (adm \in [Admins -> Call])' /\ AdminsOK'
    BY <1>14, GroupFrame DEF ClearBusy
  <2>2. EntryTypeOK'
    BY <1>14 DEF EntryTypeOK, CallerTypeOK, CallersOK, CallerOK, ClearBusy
  <2>3. CallerTypeOK'
    BY <1>14 DEF CallerTypeOK, CallersOK, CallerOK, EntryTypeOK, AgentTypeOK, ClearBusy
  <2>4. CallersOK'
    BY <1>14 DEF CallerTypeOK, CallersOK, CallerOK, ClearBusy
  <2> QED BY <2>1, <2>2, <2>3, <2>4
<1>15. CASE ReleaseGate(t)
  <2>1. AgentTypeOK' /\ EntryTypeOK' /\ DiskTypeOK' /\ (used \in Budget)'
        /\ (adm \in [Admins -> Call])' /\ AdminsOK'
    BY <1>15, GroupFrame DEF ReleaseGate
  <2>2. GateTypeOK'
    BY <1>15 DEF GateTypeOK, ReleaseGate
  <2>3. CallerTypeOK'
    BY <1>15 DEF CallerTypeOK, CallersOK, CallerOK, EntryTypeOK, AgentTypeOK, ReleaseGate
  <2>4. CallersOK'
    BY <1>15 DEF CallerTypeOK, CallersOK, CallerOK, ReleaseGate
  <2> QED BY <2>1, <2>2, <2>3, <2>4
<1>16. CASE ReturnInvoke(t)
  <2>1. GateTypeOK' /\ AgentTypeOK' /\ DiskTypeOK' /\ (used \in Budget)'
        /\ (adm \in [Admins -> Call])' /\ AdminsOK'
    BY <1>16, GroupFrame DEF ReturnInvoke
  <2>2. EntryTypeOK'
    BY <1>16 DEF EntryTypeOK, CallerTypeOK, CallersOK, CallerOK, ReturnInvoke
  <2>3. CallerTypeOK'
    BY <1>16 DEF CallerTypeOK, CallersOK, CallerOK, EntryTypeOK, AgentTypeOK, ReturnInvoke
  <2>4. CallersOK'
    BY <1>16 DEF CallerTypeOK, CallersOK, CallerOK, ReturnInvoke
  <2> QED BY <2>1, <2>2, <2>3, <2>4
<1> QED BY <1>1, <1>2, <1>3, <1>4, <1>5, <1>6, <1>7, <1>8, <1>9, <1>10, <1>11, <1>12,
    <1>13, <1>14, <1>15, <1>16 DEF CallerStep

\* Every step of an operator keeps the types.
LEMMA AdminTyping ==
    ASSUME Typing, NEW o \in Admins, AdminCall(o) \/ AdminStep(o)
    PROVE  Typing'
<1> USE BoundsAssumption, SetsAssumption DEF Typing, TypeOK
<1> DEFINE c == adm[o]
<1>0. c \in Call /\ CallOK(c)
  BY DEF AdminsOK
<1>1. ASSUME NEW cap \in Caps, NEW root \in ReloadRoots, ReloadBuild(o, cap,
    root) PROVE Typing'
  <2>1. GateTypeOK' /\ EntryTypeOK' /\ DiskTypeOK' /\ CallerTypeOK'
        /\ (used \in Budget)' /\ CallersOK'
    BY <1>1, GroupFrame DEF ReloadBuild
  <2>2. AgentTypeOK'
    BY <1>0, <1>1 DEF AgentTypeOK, EntryTypeOK, Agents, Call, CallOK, ReloadBuild
  <2> DEFINE r == [NoCall EXCEPT !.op = "swap", !.agent = built + 1,
                          !.cap = cap, !.root = root]
  <2>3. r \in Call /\ CallOK(r)
    <3>1. built + 1 \in Agents
      BY <1>1 DEF AgentTypeOK, Agents, ReloadBuild
    <3> QED BY <3>1 DEF NoCall, Call, CallOK, Calls
  <2>4. (adm \in [Admins -> Call])' /\ AdminsOK'
    BY <1>1, <2>3, SetCallTyped DEF ReloadBuild
  <2> QED BY <2>1, <2>2, <2>3, <2>4
<1>2. CASE ReloadSwap(o)
  <2>1. EntryTypeOK' /\ CallerTypeOK' /\ (used \in Budget)' /\ CallersOK'
    BY <1>2, GroupFrame DEF ReloadSwap
  <2>2. GateTypeOK'
    BY <1>0, <1>2 DEF GateTypeOK, Call, CallOK, ReloadSwap
  <2>3. AgentTypeOK'
    BY <1>0, <1>2 DEF AgentTypeOK, EntryTypeOK, Agents, Call, CallOK, ReloadSwap
  <2>4. DiskTypeOK'
    BY <1>0, <1>2 DEF DiskTypeOK, CallOK, ReloadSwap
  <2>5. (adm \in [Admins -> Call])' /\ AdminsOK'
    BY <1>2, NoCallTyped, SetCallTyped DEF ReloadSwap
  <2> QED BY <2>1, <2>2, <2>3, <2>4, <2>5
<1>3. CASE ReloadFails(o)
  <2>1. GateTypeOK' /\ AgentTypeOK' /\ EntryTypeOK' /\ DiskTypeOK' /\ CallerTypeOK'
        /\ (used \in Budget)' /\ CallersOK'
    BY <1>3, GroupFrame DEF ReloadFails
  <2>2. (adm \in [Admins -> Call])' /\ AdminsOK'
    BY <1>3, NoCallTyped, SetCallTyped DEF ReloadFails
  <2> QED BY <2>1, <2>2
<1>4. ASSUME NEW s \in Sessions, RemoveBegin(o, s) PROVE Typing'
  <2>1. GateTypeOK' /\ AgentTypeOK' /\ EntryTypeOK' /\ DiskTypeOK' /\ CallerTypeOK'
        /\ CallersOK'
    BY <1>4, GroupFrame DEF RemoveBegin
  <2>2. (used \in Budget)'
    BY <1>0, <1>4 DEF Budget, RemoveBegin
  <2> DEFINE r == [NoCall EXCEPT !.op = "erase", !.sess = s, !.root = basePath]
  <2>3. r \in Call /\ CallOK(r)
    BY <1>0, <1>4 DEF NoCall, Call, CallOK, Calls, RemoveBegin, DiskTypeOK
  <2>4. (adm \in [Admins -> Call])' /\ AdminsOK'
    BY <1>4, <2>3, SetCallTyped DEF RemoveBegin
  <2> QED BY <2>1, <2>2, <2>3, <2>4
<1>5. CASE RemoveErase(o)
  <2>1. GateTypeOK' /\ AgentTypeOK' /\ DiskTypeOK' /\ CallerTypeOK'
        /\ (used \in Budget)' /\ CallersOK'
    BY <1>5, GroupFrame DEF RemoveErase
  <2>2. EntryTypeOK'
    <3>1. c.sess \in Sessions
      BY <1>0, <1>5 DEF CallOK, RemoveErase
    <3>2. inMem' \in [Sessions -> BOOLEAN]
      BY <1>5 DEF EntryTypeOK, RemoveErase
    <3>3. inc' \in [Sessions -> 0 .. MaxRemoves]
      BY <1>5, <3>1 DEF EntryTypeOK, RemoveErase
    <3> QED BY <1>5, <3>2, <3>3 DEF EntryTypeOK, RemoveErase
  <2>3. (adm \in [Admins -> Call])' /\ AdminsOK'
    <3>1. c.sess \in Sessions /\ Entry(c.sess) \in Entries
      BY <1>0, <1>5, EntryTyped DEF CallOK, RemoveErase
    <3>2. CASE inMem[c.sess]
      <4> DEFINE r == [c EXCEPT !.op = "trylock", !.victim = Entry(c.sess)]
      <4>1. r \in Call /\ CallOK(r)
        BY <1>0, <3>1 DEF Call, CallOK, Calls
      <4> QED BY <1>5, <3>2, <4>1, SetCallTyped DEF RemoveErase
    <3>3. CASE ~ inMem[c.sess]
      <4> DEFINE r == [c EXCEPT !.op = "disk"]
      <4>1. r \in Call /\ CallOK(r)
        BY <1>0, <3>1 DEF Call, CallOK, Calls
      <4> QED BY <1>5, <3>3, <4>1, SetCallTyped DEF RemoveErase
    <3> QED BY <3>2, <3>3
  <2> QED BY <2>1, <2>2, <2>3
<1>6. CASE RemoveTryLock(o)
  <2>1. GateTypeOK' /\ AgentTypeOK' /\ EntryTypeOK' /\ DiskTypeOK' /\ CallerTypeOK'
        /\ (used \in Budget)' /\ CallersOK'
    BY <1>6, GroupFrame DEF RemoveTryLock
  <2> DEFINE r == [c EXCEPT !.op =
        IF holder[c.victim] = None THEN "disk" ELSE "cleanup"]
  <2>2. r \in Call /\ CallOK(r)
    BY <1>0, <1>6 DEF NoCall, Call, CallOK, Calls, RemoveTryLock
  <2>3. (adm \in [Admins -> Call])' /\ AdminsOK'
    BY <1>6, <2>2, SetCallTyped DEF RemoveTryLock
  <2> QED BY <2>1, <2>2, <2>3
<1>7. CASE RemoveDisk(o)
  <2>1. GateTypeOK' /\ AgentTypeOK' /\ EntryTypeOK' /\ CallerTypeOK'
        /\ (used \in Budget)' /\ CallersOK'
    BY <1>7, GroupFrame DEF RemoveDisk
  <2>2. DiskTypeOK'
    BY <1>0, <1>7 DEF DiskTypeOK, CallOK, RemoveDisk
  <2> DEFINE r == [c EXCEPT !.op = "cleanup"]
  <2>3. r \in Call /\ CallOK(r)
    BY <1>0, <1>7 DEF NoCall, Call, CallOK, Calls, RemoveDisk
  <2>4. (adm \in [Admins -> Call])' /\ AdminsOK'
    BY <1>7, <2>3, SetCallTyped DEF RemoveDisk
  <2> QED BY <2>1, <2>2, <2>3, <2>4
<1>8. CASE RemoveCleanup(o)
  <2>1. GateTypeOK' /\ EntryTypeOK' /\ DiskTypeOK' /\ CallerTypeOK'
        /\ (used \in Budget)' /\ CallersOK'
    BY <1>8, GroupFrame DEF RemoveCleanup
  <2>2. AgentTypeOK'
    BY <1>0, <1>8 DEF AgentTypeOK, EntryTypeOK, Agents, Call, CallOK, RemoveCleanup
  <2>3. (adm \in [Admins -> Call])' /\ AdminsOK'
    BY <1>8, NoCallTyped, SetCallTyped DEF RemoveCleanup
  <2> QED BY <2>1, <2>2, <2>3
<1>9. CASE CancelBegin(o)
  <2>1. GateTypeOK' /\ AgentTypeOK' /\ EntryTypeOK' /\ DiskTypeOK' /\ CallerTypeOK'
        /\ CallersOK'
    BY <1>9, GroupFrame DEF CancelBegin
  <2>2. (used \in Budget)'
    BY <1>0, <1>9 DEF Budget, CancelBegin
  <2> DEFINE r == [NoCall EXCEPT !.op = "cancel", !.agent = active]
  <2>3. r \in Call /\ CallOK(r)
    BY <1>0, <1>9 DEF NoCall, Call, CallOK, Calls, CancelBegin, AgentTypeOK
  <2>4. (adm \in [Admins -> Call])' /\ AdminsOK'
    BY <1>9, <2>3, SetCallTyped DEF CancelBegin
  <2> QED BY <2>1, <2>2, <2>3, <2>4
<1>10. CASE CancelEnd(o)
  <2>1. GateTypeOK' /\ EntryTypeOK' /\ DiskTypeOK' /\ CallerTypeOK'
        /\ (used \in Budget)' /\ CallersOK'
    BY <1>10, GroupFrame DEF CancelEnd
  <2>2. AgentTypeOK'
    BY <1>0, <1>10 DEF AgentTypeOK, EntryTypeOK, Agents, Call, CallOK, CancelEnd
  <2>3. (adm \in [Admins -> Call])' /\ AdminsOK'
    BY <1>10, NoCallTyped, SetCallTyped DEF CancelEnd
  <2> QED BY <2>1, <2>2, <2>3
<1>11. CASE ShutdownBegin(o)
  <2>1. GateTypeOK' /\ AgentTypeOK' /\ EntryTypeOK' /\ DiskTypeOK' /\ CallerTypeOK'
        /\ CallersOK'
    BY <1>11, GroupFrame DEF ShutdownBegin
  <2>2. (used \in Budget)'
    BY <1>0, <1>11 DEF Budget, ShutdownBegin
  <2> DEFINE todo == {active} \cup {bound[Entry(s)] : s \in {x \in Sessions : inMem[x]}}
             r == [NoCall EXCEPT !.op = "stop", !.todo = todo]
  <2>3. r \in Call /\ CallOK(r)
    <3>1. \A s \in Sessions : bound[Entry(s)] \in Agents
      BY EntryTyped DEF EntryTypeOK
    <3>2. todo \in SUBSET Agents
      BY <3>1 DEF AgentTypeOK
    <3> HIDE DEF todo
    <3> QED BY <3>2 DEF NoCall, Call, CallOK, Calls
  <2>4. (adm \in [Admins -> Call])' /\ AdminsOK'
    BY <1>11, <2>3, SetCallTyped DEF ShutdownBegin
  <2> QED BY <2>1, <2>2, <2>3, <2>4
<1>12. ASSUME NEW a \in Agents, ShutdownAgent(o, a) PROVE Typing'
  <2>1. GateTypeOK' /\ EntryTypeOK' /\ DiskTypeOK' /\ CallerTypeOK'
        /\ (used \in Budget)' /\ CallersOK'
    BY <1>12, GroupFrame DEF ShutdownAgent
  <2>2. AgentTypeOK'
    BY <1>12 DEF AgentTypeOK, ShutdownAgent
  <2>3. (adm \in [Admins -> Call])' /\ AdminsOK'
    <3> DEFINE r == [c EXCEPT !.todo = @ \ {a}]
    <3>1. CASE c.todo = {a}
      BY <1>12, <3>1, NoCallTyped, SetCallTyped DEF ShutdownAgent
    <3>2. CASE c.todo # {a}
      <4>1. r \in Call /\ CallOK(r)
        BY <1>0, <1>12 DEF Call, CallOK, ShutdownAgent
      <4>2. SetCall(o, r)
        BY <1>12, <3>2 DEF ShutdownAgent
      <4> QED BY <4>1, <4>2, SetCallTyped
    <3> QED BY <3>1, <3>2
  <2> QED BY <2>1, <2>2, <2>3
<1>13. ASSUME NEW s \in Sessions, GetOrCreateSession(o, s) PROVE Typing'
  <2>1. GateTypeOK' /\ AgentTypeOK' /\ CallerTypeOK' /\ (used \in Budget)' /\ CallersOK'
    BY <1>13, GroupFrame DEF GetOrCreateSession, FindOrCreateEntry
  <2>2. EntryTypeOK'
    BY <1>0, <1>13, EntryTyped DEF EntryTypeOK, AgentTypeOK, DiskTypeOK, CallOK,
        GetOrCreateSession, FindOrCreateEntry
  <2>3. DiskTypeOK'
    BY <1>0, <1>13 DEF DiskTypeOK, CallOK, GetOrCreateSession, FindOrCreateEntry
  <2>4. (adm \in [Admins -> Call])' /\ AdminsOK'
    BY <1>13, GroupFrame DEF GetOrCreateSession
  <2> QED BY <2>1, <2>2, <2>3, <2>4
<1> QED BY <1>1, <1>2, <1>3, <1>4, <1>5, <1>6, <1>7, <1>8, <1>9, <1>10, <1>11, <1>12,
    <1>13 DEF AdminCall, AdminStep

\* Nothing changes in a step of Quiescent or a stuttering step.
LEMMA StutterTyping == ASSUME Typing, UNCHANGED vars PROVE Typing'
BY GroupFrame DEF Typing, TypeOK, vars

\* Typing is an invariant.
LEMMA TypingInvariant == Spec => []Typing
<1>1. Init => Typing
  <2> SUFFICES ASSUME Init PROVE Typing
    OBVIOUS
  <2> USE BoundsAssumption, SetsAssumption, NoneAssumption DEF Init
  <2>1. GateTypeOK /\ DiskTypeOK
    BY DEF GateTypeOK, DiskTypeOK
  <2>2. AgentTypeOK
    BY DEF AgentTypeOK, Agents
  <2>3. EntryTypeOK
    BY DEF EntryTypeOK, Agents
  <2>4. CallerTypeOK /\ CallersOK
    BY DEF CallerTypeOK, CallersOK, CallerOK, Places, Resolved, InMutex, Marked, InTurn
  <2>5. adm \in [Admins -> Call] /\ AdminsOK
    BY NoCallTyped DEF AdminsOK
  <2>6. used \in Budget
    BY DEF Budget
  <2> QED BY <2>1, <2>2, <2>3, <2>4, <2>5, <2>6 DEF Typing, TypeOK
<1>2. Typing /\ [Next]_vars => Typing'
  BY CallerTyping, AdminTyping, StutterTyping DEF Next, Quiescent
<1> QED BY <1>1, <1>2, PTL DEF Spec

\* Every reachable state of SessionManager is well typed; in particular no
\* step of Invoke or of an operator call follows a pointer it has not set.
THEOREM TypeCorrect == Spec => []TypeOK
<1>1. Typing => TypeOK
  BY DEF Typing
<1> QED BY <1>1, TypingInvariant, PTL

-----------------------------------------------------------------------------
(* Turns on one SessionEntry are serial.                                   *)

\* A caller inside the critical section owns its entry's invokeMutex.
MutexHeld == \A t \in Threads : pc[t] \in InMutex => holder[ent[t]] = t

\* No operator call touches what callers and their turns own, and none frees or
\* takes a slot of the gate.
LEMMA AdminFrame ==
    ASSUME used \in Budget, NEW o \in Admins, AdminCall(o) \/ AdminStep(o)
    PROVE  /\ UNCHANGED <<callerVars, concurrentCount, isBusy, holder>>
           /\ used'.faults = used.faults
<1>1. UNCHANGED <<callerVars, concurrentCount, isBusy, holder>>
  BY DEF AdminCall, AdminStep, ReloadBuild, ReloadSwap, ReloadFails, RemoveBegin,
         RemoveErase, RemoveTryLock, RemoveDisk, RemoveCleanup, CancelBegin,
         CancelEnd, ShutdownBegin, ShutdownAgent, GetOrCreateSession,
         FindOrCreateEntry, gateVars, entryVars
<1>2. \/ used' = used
      \/ used' = [used EXCEPT !.removes = @ + 1]
      \/ used' = [used EXCEPT !.cancels = @ + 1]
      \/ used' = [used EXCEPT !.shutdowns = @ + 1]
  BY DEF AdminCall, AdminStep, ReloadBuild, ReloadSwap, ReloadFails, RemoveBegin,
         RemoveErase, RemoveTryLock, RemoveDisk, RemoveCleanup, CancelBegin,
         CancelEnd, ShutdownBegin, ShutdownAgent, GetOrCreateSession
<1> QED BY <1>1, <1>2 DEF Budget

\* MutexHeld is inductive: invokeMutex is taken only when free and given back
\* only by its owner, and no caller changes its entry while it owns it.
LEMMA MutexStep ==
    ASSUME Typing, MutexHeld, [Next]_vars
    PROVE  MutexHeld'
<1> USE NoneAssumption DEF Typing, TypeOK, CallerTypeOK, EntryTypeOK, CallersOK, CallerOK,
    MutexHeld,
        Goto, Places, Resolved, InMutex, Marked, InTurn
<1>1. ASSUME NEW t \in Threads, NEW s \in Sessions, EnterGate(t, s) PROVE MutexHeld'
  BY <1>1 DEF EnterGate, entryVars
<1>2. ASSUME NEW t \in Threads, TestGate(t) PROVE MutexHeld'
  BY <1>2 DEF TestGate, entryVars
<1>3. ASSUME NEW t \in Threads, SpuriousWake(t) PROVE MutexHeld'
  BY <1>3 DEF SpuriousWake, entryVars
<1>4. ASSUME NEW t \in Threads, Resolve(t) PROVE MutexHeld'
  BY <1>4 DEF Resolve, FindOrCreateEntry
<1>5. ASSUME NEW t \in Threads, ResolveThrows(t) PROVE MutexHeld'
  BY <1>5 DEF ResolveThrows, entryVars
<1>6. ASSUME NEW t \in Threads, LockEntry(t) PROVE MutexHeld'
  BY <1>6 DEF LockEntry
<1>7. ASSUME NEW t \in Threads,
             \/ NotifySessionActive(t) \/ SnapshotGeneration(t) \/ BeginTool(t)
             \/ EndTool(t) \/ (\E how \in {"done", "aborted"} : FinishTurn(t, how))
             \/ TurnThrows(t) \/ NotifySessionIdle(t) \/ ClearBusy(t)
      PROVE  MutexHeld'
  <2>1. /\ pc[t] \in InMutex /\ UNCHANGED <<ent, holder>>
        /\ \E p \in InMutex : pc' = [pc EXCEPT ![t] = p]
    BY <1>7 DEF NotifySessionActive, SnapshotGeneration, BeginTool, EndTool, FinishTurn,
                TurnThrows, NotifySessionIdle, ClearBusy, entryVars
  <2> QED BY <2>1
<1>8. ASSUME NEW t \in Threads, ReleaseGate(t) PROVE MutexHeld'
  BY <1>8 DEF ReleaseGate, entryVars
<1>9. ASSUME NEW t \in Threads, ReturnInvoke(t) PROVE MutexHeld'
  BY <1>9 DEF ReturnInvoke
<1>10. ASSUME NEW o \in Admins, AdminCall(o) \/ AdminStep(o) PROVE MutexHeld'
  BY <1>10, AdminFrame DEF callerVars
<1>11. CASE UNCHANGED vars
  BY <1>11 DEF vars, callerVars, entryVars
<1> QED BY <1>1, <1>2, <1>3, <1>4, <1>5, <1>6, <1>7, <1>8, <1>9, <1>10, <1>11
        DEF Next, CallerStep, Quiescent

\* Nobody is in the critical section initially.
LEMMA MutexInvariant == Spec => []MutexHeld
<1>1. Init => MutexHeld
  BY DEF Init, MutexHeld, InMutex, Marked, InTurn
<1>2. Typing /\ MutexHeld /\ [Next]_vars => MutexHeld'
  BY MutexStep
<1> QED BY <1>1, <1>2, TypingInvariant, PTL DEF Spec

\* Two callers are never inside the critical section of one SessionEntry, for
\* any interleaving of calls, reloads, removals and exceptions.
THEOREM TurnsAreSerial == Spec => []SerialPerEntry
<1>1. MutexHeld => SerialPerEntry
  BY DEF MutexHeld, SerialPerEntry
<1> QED BY <1>1, MutexInvariant, PTL

-----------------------------------------------------------------------------
(* isBusy is up exactly during a turn.                                     *)

\* BusyFlagExact is inductive given MutexHeld: without it a caller could lower
\* the flag another one has raised on the same entry.
LEMMA BusyStep ==
    ASSUME Typing, MutexHeld, BusyFlagExact, [Next]_vars
    PROVE  BusyFlagExact'
<1> USE NoneAssumption DEF Typing, TypeOK, CallerTypeOK, EntryTypeOK, CallersOK, CallerOK,
        BusyFlagExact, Goto, Places, Resolved, InMutex, Marked, InTurn
<1>1. ASSUME NEW t \in Threads, pc[t] \notin Marked, pc'[t] \notin Marked,
             UNCHANGED isBusy,
             \A u \in Threads \ {t} :
                 (pc'[u] \in Marked <=> pc[u] \in Marked) /\ ent'[u] = ent[u]
      PROVE  BusyFlagExact'
  BY <1>1
<1>2. ASSUME NEW t \in Threads, NEW s \in Sessions, EnterGate(t, s) PROVE BusyFlagExact'
  BY <1>1, <1>2 DEF EnterGate, entryVars
<1>3. ASSUME NEW t \in Threads, TestGate(t) PROVE BusyFlagExact'
  BY <1>1, <1>3 DEF TestGate, entryVars
<1>4. ASSUME NEW t \in Threads, SpuriousWake(t) PROVE BusyFlagExact'
  BY <1>1, <1>4 DEF SpuriousWake, entryVars
<1>5. ASSUME NEW t \in Threads, Resolve(t) PROVE BusyFlagExact'
  BY <1>1, <1>5 DEF Resolve, FindOrCreateEntry
<1>6. ASSUME NEW t \in Threads, ResolveThrows(t) PROVE BusyFlagExact'
  BY <1>1, <1>6 DEF ResolveThrows, entryVars
<1>7. ASSUME NEW t \in Threads, LockEntry(t) PROVE BusyFlagExact'
  BY <1>7 DEF LockEntry
<1>8. ASSUME NEW t \in Threads,
             \/ NotifySessionActive(t) \/ SnapshotGeneration(t) \/ BeginTool(t)
             \/ EndTool(t) \/ (\E how \in {"done", "aborted"} : FinishTurn(t, how))
             \/ TurnThrows(t) \/ NotifySessionIdle(t)
      PROVE  BusyFlagExact'
  <2>1. /\ pc[t] \in Marked /\ UNCHANGED <<ent, isBusy>>
        /\ \E p \in Marked : pc' = [pc EXCEPT ![t] = p]
    BY <1>8 DEF NotifySessionActive, SnapshotGeneration, BeginTool, EndTool, FinishTurn,
                TurnThrows, NotifySessionIdle, entryVars
  <2> QED BY <2>1
<1>9. ASSUME NEW t \in Threads, ClearBusy(t) PROVE BusyFlagExact'
  BY <1>9 DEF ClearBusy, MutexHeld
<1>10. ASSUME NEW t \in Threads, ReleaseGate(t) PROVE BusyFlagExact'
  BY <1>1, <1>10 DEF ReleaseGate, entryVars
<1>11. ASSUME NEW t \in Threads, ReturnInvoke(t) PROVE BusyFlagExact'
  BY <1>1, <1>11 DEF ReturnInvoke
<1>12. ASSUME NEW o \in Admins, AdminCall(o) \/ AdminStep(o) PROVE BusyFlagExact'
  BY <1>12, AdminFrame DEF callerVars
<1>13. CASE UNCHANGED vars
  BY <1>13 DEF vars, callerVars, entryVars
<1> QED BY <1>2, <1>3, <1>4, <1>5, <1>6, <1>7, <1>8, <1>9, <1>10, <1>11, <1>12, <1>13
        DEF Next, CallerStep, Quiescent

\* RemoveSession's lock-free reading of isBusy is exact at the instant of the
\* reading: no path through Invoke, thrown exceptions included, leaves the flag
\* up after the turn or down during it.
THEOREM BusyFlagIsExact == Spec => []BusyFlagExact
<1>1. Init => BusyFlagExact
  BY DEF Init, BusyFlagExact, Marked, InTurn
<1>2. Typing /\ MutexHeld /\ BusyFlagExact /\ [Next]_vars => BusyFlagExact'
  BY BusyStep
<1> QED BY <1>1, <1>2, TypingInvariant, MutexInvariant, PTL DEF Spec

-----------------------------------------------------------------------------
(* The concurrency gate.                                                   *)

Admitted == {t \in Threads : pc[t] \in InGate}

\* The arithmetic of GateConserved: one caller enters or leaves the set.
LEMMA AdmittedChange ==
    /\ IsFiniteSet(Admitted) /\ Cardinality(Admitted) \in Nat
    /\ \A t \in Threads : t \notin Admitted /\ Admitted' = Admitted \cup {t}
           => Cardinality(Admitted)' = Cardinality(Admitted) + 1
    /\ \A t \in Threads : t \in Admitted /\ Admitted' = Admitted \ {t}
           => Cardinality(Admitted)' = Cardinality(Admitted) - 1 /\ Cardinality(Admitted) > 0
<1>1. IsFiniteSet(Admitted)
  BY SetsAssumption, FS_Subset DEF Admitted
<1>2. Cardinality(Admitted) \in Nat
  BY <1>1, FS_CardinalityType
<1>3. ASSUME NEW t \in Threads, t \notin Admitted, Admitted' = Admitted \cup {t}
      PROVE  Cardinality(Admitted)' = Cardinality(Admitted) + 1
  BY <1>1, <1>3, FS_AddElement
<1>4. ASSUME NEW t \in Threads, t \in Admitted, Admitted' = Admitted \ {t}
      PROVE  Cardinality(Admitted)' = Cardinality(Admitted) - 1 /\ Cardinality(Admitted) > 0
  <2>1. Cardinality(Admitted \ {t}) = Cardinality(Admitted) - 1
    BY <1>1, <1>4, FS_RemoveElement
  <2>2. Cardinality(Admitted) # 0
    BY <1>1, <1>4, FS_EmptySet
  <2> QED BY <1>2, <1>4, <2>1, <2>2
<1> QED BY <1>1, <1>2, <1>3, <1>4

\* GateConserved is inductive: every step of a caller that enters or leaves the
\* set of admitted callers moves the counter, or the count of faults, with it.
LEMMA GateStep ==
    ASSUME Typing, GateConserved, [Next]_vars
    PROVE  GateConserved'
<1> DEFINE Conserved == concurrentCount = Cardinality(Admitted) + used.faults
<1> USE DEF Typing, TypeOK, GateTypeOK, CallerTypeOK, Budget, Goto, Places, Resolved,
        InMutex, InGate, Marked, InTurn
<1>0. (GateConserved <=> Conserved) /\ (GateConserved' <=> Conserved')
  BY DEF GateConserved, Admitted
<1>a. used.faults \in Nat /\ concurrentCount \in Nat /\ Cardinality(Admitted) \in Nat
  BY BoundsAssumption, AdmittedChange
<1>1. ASSUME UNCHANGED concurrentCount, Admitted' = Admitted, used'.faults = used.faults
      PROVE  GateConserved'
  BY <1>0, <1>1
<1>2. ASSUME NEW t \in Threads, t \notin Admitted, Admitted' = Admitted \cup {t},
             concurrentCount' = concurrentCount + 1, used'.faults = used.faults
      PROVE  GateConserved'
  <2>1. Cardinality(Admitted)' = Cardinality(Admitted) + 1
    BY <1>2, AdmittedChange
  <2> QED BY <1>0, <1>a, <1>2, <2>1
<1>3. ASSUME NEW t \in Threads, NEW s \in Sessions, EnterGate(t, s) PROVE GateConserved'
  <2>1. used'.faults = used.faults /\ t \notin Admitted
    BY <1>3 DEF EnterGate, Admitted
  <2>2. CASE maxConcurrent > 0
    BY <1>1, <1>3, <2>1, <2>2 DEF EnterGate, Admitted
  <2>3. CASE ~(maxConcurrent > 0)
    <3>1. Admitted' = Admitted \cup {t}
      BY <1>3, <2>3 DEF EnterGate, Admitted
    <3> QED BY <1>2, <1>3, <2>1, <2>3, <3>1 DEF EnterGate
  <2> QED BY <2>2, <2>3
<1>4. ASSUME NEW t \in Threads, TestGate(t) PROVE GateConserved'
  <2>1. used'.faults = used.faults /\ t \notin Admitted
    BY <1>4 DEF TestGate, Admitted
  <2>2. CASE HasSlot
    <3>1. Admitted' = Admitted \cup {t}
      BY <1>4, <2>2 DEF TestGate, Admitted
    <3> QED BY <1>2, <1>4, <2>1, <2>2, <3>1 DEF TestGate
  <2>3. CASE ~ HasSlot
    BY <1>1, <1>4, <2>1, <2>3 DEF TestGate, Admitted
  <2> QED BY <2>2, <2>3
<1>5. ASSUME NEW t \in Threads, ResolveThrows(t) PROVE GateConserved'
  <2>1. t \in Admitted /\ Admitted' = Admitted \ {t}
    BY <1>5 DEF ResolveThrows, Admitted
  <2>2. used'.faults = used.faults + 1 /\ UNCHANGED concurrentCount
    BY <1>5 DEF ResolveThrows, gateVars
  <2>3. Cardinality(Admitted)' = Cardinality(Admitted) - 1
    BY <2>1, AdmittedChange
  <2> QED BY <1>0, <1>a, <2>2, <2>3
<1>6. ASSUME NEW t \in Threads, ReleaseGate(t) PROVE GateConserved'
  <2>1. t \in Admitted /\ Admitted' = Admitted \ {t}
    BY <1>6 DEF ReleaseGate, Admitted
  <2>2. concurrentCount > 0 /\ used' = used
    BY <1>0, <1>6, <2>1, AdmittedChange DEF ReleaseGate
  <2>3. concurrentCount' = concurrentCount - 1
    BY <1>6, <2>2 DEF ReleaseGate
  <2>4. Cardinality(Admitted)' = Cardinality(Admitted) - 1
    BY <2>1, AdmittedChange
  <2> QED BY <1>0, <1>a, <2>2, <2>3, <2>4
<1>7. ASSUME NEW t \in Threads,
             \/ SpuriousWake(t) \/ Resolve(t) \/ LockEntry(t) \/ NotifySessionActive(t)
             \/ SnapshotGeneration(t) \/ BeginTool(t) \/ EndTool(t)
             \/ (\E how \in {"done", "aborted"} : FinishTurn(t, how))
             \/ TurnThrows(t) \/ NotifySessionIdle(t) \/ ClearBusy(t) \/ ReturnInvoke(t)
      PROVE  GateConserved'
  <2>1. UNCHANGED <<concurrentCount, used>>
    BY <1>7 DEF SpuriousWake, Resolve, LockEntry, NotifySessionActive, SnapshotGeneration,
         BeginTool, EndTool, FinishTurn, TurnThrows, NotifySessionIdle, ClearBusy,
         ReturnInvoke, gateVars
  <2>2. \E p \in Places : pc' = [pc EXCEPT ![t] = p] /\ (p \in InGate <=> pc[t] \in InGate)
    BY <1>7 DEF SpuriousWake, Resolve, LockEntry, NotifySessionActive, SnapshotGeneration,
         BeginTool, EndTool, FinishTurn, TurnThrows, NotifySessionIdle, ClearBusy,
         ReturnInvoke
  <2>3. Admitted' = Admitted
    BY <2>2 DEF Admitted
  <2> QED BY <1>1, <2>1, <2>3
<1>8. ASSUME NEW o \in Admins, AdminCall(o) \/ AdminStep(o) PROVE GateConserved'
  BY <1>1, <1>8, AdminFrame DEF callerVars, Admitted
<1>9. CASE UNCHANGED vars
  BY <1>1, <1>9 DEF vars, gateVars, callerVars, Admitted
<1> QED BY <1>3, <1>4, <1>5, <1>6, <1>7, <1>8, <1>9 DEF Next, CallerStep, Quiescent

\* The gate neither leaks a slot nor frees one twice, except for the slot each
\* exception out of FindOrCreateEntry keeps.
THEOREM GateIsConserved == Spec => []GateConserved
<1>1. Init => GateConserved
  <2> SUFFICES ASSUME Init PROVE GateConserved
    OBVIOUS
  <2>1. {t \in Threads : pc[t] \in InGate} = {}
    BY DEF Init, InGate, Marked, InTurn
  <2>2. Cardinality({t \in Threads : pc[t] \in InGate}) = 0
    BY <2>1, FS_EmptySet
  <2> QED BY <2>2 DEF Init, GateConserved
<1>2. Typing /\ GateConserved /\ [Next]_vars => GateConserved'
  BY GateStep
<1> QED BY <1>1, <1>2, TypingInvariant, PTL DEF Spec

\* A caller is admitted only below the limit in force at that instant, although
\* the limit is read twice and a reload may change it in between.
THEOREM AdmissionRespectsCap == Spec => AdmissionUnderCap
<1> DEFINE Step == concurrentCount' > concurrentCount
                   => maxConcurrent = 0 \/ concurrentCount < maxConcurrent
<1>1. ASSUME Typing, [Next]_vars PROVE Step
  <2> USE DEF Typing, TypeOK, GateTypeOK
  <2>1. ASSUME NEW t \in Threads, NEW s \in Sessions, EnterGate(t, s) PROVE Step
    BY <1>1, <2>1 DEF EnterGate
  <2>2. ASSUME NEW t \in Threads, TestGate(t) PROVE Step
    BY <1>1, <2>2 DEF TestGate, HasSlot
  <2>3. ASSUME NEW t \in Threads, ReleaseGate(t) PROVE Step
    BY <1>1, <2>3 DEF ReleaseGate
  <2>4. ASSUME NEW t \in Threads,
               \/ SpuriousWake(t) \/ Resolve(t) \/ ResolveThrows(t) \/ LockEntry(t)
               \/ NotifySessionActive(t) \/ SnapshotGeneration(t) \/ BeginTool(t)
               \/ EndTool(t) \/ (\E how \in {"done", "aborted"} : FinishTurn(t, how))
               \/ TurnThrows(t) \/ NotifySessionIdle(t) \/ ClearBusy(t) \/ ReturnInvoke(t)
        PROVE  Step
    <3>1. UNCHANGED concurrentCount
      BY <1>1, <2>4 DEF SpuriousWake, Resolve, ResolveThrows, LockEntry,
          NotifySessionActive,
           SnapshotGeneration, BeginTool, EndTool, FinishTurn, TurnThrows,
           NotifySessionIdle, ClearBusy, ReturnInvoke, gateVars
    <3> QED BY <1>1, <3>1
  <2>5. ASSUME NEW o \in Admins, AdminCall(o) \/ AdminStep(o) PROVE Step
    BY <1>1, <2>5, AdminFrame
  <2>6. CASE UNCHANGED vars
    BY <1>1, <2>6 DEF vars, gateVars
  <2> QED BY <1>1, <2>1, <2>2, <2>3, <2>4, <2>5, <2>6 DEF Next, CallerStep, Quiescent
<1>2. Typing /\ [Next]_vars => [Step]_vars
  BY <1>1
<1> QED BY <1>2, TypingInvariant, PTL DEF Spec, AdmissionUnderCap

-----------------------------------------------------------------------------
(* SessionManager implements TurnService.                                  *)

\* An entry in memory is bound to the active Agent or to a retired one, never
\* to an Agent ReloadAgent has built but not installed.
BindingKnown ==
    \A s \in Sessions : inMem[s] => bound[Entry(s)] \in draining \cup {active}

\* The Agent a caller takes is the active one: a stale binding is always one to
\* a draining Agent, which Invoke replaces.
LEMMA ResolveTakesActive ==
    ASSUME Typing, BindingKnown, NEW t \in Threads, Resolve(t)
    PROVE  /\ agt' = [agt EXCEPT ![t] = active]
           /\ bound' = [bound EXCEPT ![Entry(sess[t])] = active]
<1>1. sess[t] \in Sessions
  BY DEF Typing, CallersOK, CallerOK, Resolve
<1>2. FoundAgent(sess[t]) \in draining \cup {active}
  BY <1>1 DEF BindingKnown, FoundAgent
<1> QED BY <1>2 DEF Resolve

\* BindingKnown is inductive.
LEMMA BindingStep ==
    ASSUME Typing, BindingKnown, [Next]_vars
    PROVE  BindingKnown'
<1> USE DEF Typing, TypeOK, EntryTypeOK, BindingKnown
<1>1. ASSUME NEW t \in Threads, Resolve(t) PROVE BindingKnown'
  <2>1. sess[t] \in Sessions /\ Entry(sess[t]) \in Entries
    BY <1>1, EntryTyped DEF CallersOK, CallerOK, Resolve
  <2>2. inMem' = [inMem EXCEPT ![sess[t]] = TRUE] /\ UNCHANGED <<inc, active, draining>>
    BY <1>1 DEF Resolve, FindOrCreateEntry, agentVars
  <2>3. bound' = [bound EXCEPT ![Entry(sess[t])] = active]
    BY <1>1, ResolveTakesActive
  <2> QED BY <2>1, <2>2, <2>3, EntryTyped DEF Entry
<1>2. ASSUME NEW o \in Admins, NEW s \in Sessions, GetOrCreateSession(o,
    s) PROVE BindingKnown'
  BY <1>2, EntryTyped DEF GetOrCreateSession, FindOrCreateEntry, agentVars, Entry
<1>3. ASSUME NEW o \in Admins, RemoveErase(o) PROVE BindingKnown'
  <2> DEFINE r == adm[o].sess
  <2>1. r \in Sessions /\ UNCHANGED <<bound, active, draining>>
    BY <1>3 DEF RemoveErase, AdminsOK, CallOK, agentVars
  <2>2. ASSUME NEW s \in Sessions, inMem'[s] PROVE inMem[s] /\ inc'[s] = inc[s]
    BY <1>3, <2>1, <2>2 DEF RemoveErase
  <2> QED BY <2>1, <2>2 DEF Entry
<1>4. ASSUME NEW o \in Admins, ReloadSwap(o) PROVE BindingKnown'
  BY <1>4 DEF ReloadSwap, entryVars, Entry
<1>5. ASSUME UNCHANGED <<inMem, inc, bound, active, draining>> PROVE BindingKnown'
  BY <1>5 DEF Entry
<1>6. ASSUME NEW t \in Threads,
             \/ (\E s \in Sessions : EnterGate(t, s)) \/ TestGate(t)
             \/ SpuriousWake(t) \/ ResolveThrows(t) \/ LockEntry(t)
             \/ NotifySessionActive(t) \/ SnapshotGeneration(t) \/ BeginTool(t)
             \/ EndTool(t) \/ (\E how \in {"done", "aborted"} : FinishTurn(t, how))
             \/ TurnThrows(t) \/ NotifySessionIdle(t) \/ ClearBusy(t)
             \/ ReleaseGate(t) \/ ReturnInvoke(t)
      PROVE  BindingKnown'
  <2>1. UNCHANGED <<inMem, inc, bound, active, draining>>
    BY <1>6 DEF EnterGate, TestGate, SpuriousWake, ResolveThrows, LockEntry,
         NotifySessionActive, SnapshotGeneration, BeginTool, EndTool, FinishTurn,
         TurnThrows, NotifySessionIdle, ClearBusy, ReleaseGate, ReturnInvoke,
         agentVars, entryVars
  <2> QED BY <1>5, <2>1
<1>7. ASSUME NEW o \in Admins,
             \/ \E cap \in Caps, root \in ReloadRoots : ReloadBuild(o, cap, root)
             \/ \E s \in Sessions : RemoveBegin(o, s)
             \/ CancelBegin(o) \/ ShutdownBegin(o) \/ ReloadFails(o)
             \/ RemoveTryLock(o) \/ RemoveDisk(o) \/ RemoveCleanup(o) \/ CancelEnd(o)
             \/ \E a \in Agents : ShutdownAgent(o, a)
      PROVE  BindingKnown'
  <2>1. UNCHANGED <<inMem, inc, bound, active, draining>>
    BY <1>7 DEF ReloadBuild, RemoveBegin, CancelBegin, ShutdownBegin, ReloadFails,
         RemoveTryLock, RemoveDisk, RemoveCleanup, CancelEnd, ShutdownAgent,
         agentVars, entryVars
  <2> QED BY <1>5, <2>1
<1>8. CASE UNCHANGED vars
  BY <1>5, <1>8 DEF vars, agentVars, entryVars
<1> QED BY <1>1, <1>2, <1>3, <1>4, <1>6, <1>7, <1>8
        DEF Next, CallerStep, AdminCall, AdminStep, Quiescent

\* BindingKnown is an invariant: the sessions Initialize restores are bound to
\* the first Agent.
LEMMA BindingInvariant == Spec => []BindingKnown
<1>1. Init => BindingKnown
  BY BoundsAssumption DEF Init, BindingKnown, Entry, Entries
<1>2. Typing /\ BindingKnown /\ [Next]_vars => BindingKnown'
  BY BindingStep
<1> QED BY <1>1, <1>2, TypingInvariant, PTL DEF Spec

\* Every step of SessionManager is a step of TurnService or leaves its state
\* alone.
LEMMA ServiceStep ==
    ASSUME Typing, MutexHeld, BindingKnown, [Next]_vars
    PROVE  [Service!Next]_(Service!vars)
<1> DEFINE phase == [t \in Threads |-> Phase(t)]
<1> USE DEF Typing, TypeOK, CallerTypeOK, Goto, Places, Resolved, InMutex, Marked, InTurn
<1>1. ASSUME NEW t \in Threads, NEW p \in Places, pc' = [pc EXCEPT ![t] = p],
             NEW q, q = (CASE p = "idle" -> "idle"
                           [] p \in {"test", "waiting", "resolve"} -> "queued"
                           [] p = "lock" -> "bound"
                           [] OTHER -> "serving")
      PROVE  phase' = [phase EXCEPT ![t] = q]
  BY <1>1 DEF Phase
<1>2. ASSUME NEW t \in Threads, NEW s \in Sessions, EnterGate(t, s)
      PROVE  Service!Submit(t)
  BY <1>1, <1>2 DEF EnterGate, agentVars, Service!Submit, Phase
<1>3. ASSUME NEW t \in Threads, Resolve(t) PROVE \E x \in Entries : Service!Bind(t, x)
  <2>1. Entry(sess[t]) \in Entries
    BY <1>3, EntryTyped DEF CallersOK, CallerOK, Resolve
  <2>2. Service!Bind(t, Entry(sess[t]))
    BY <1>1, <1>3, ResolveTakesActive DEF Resolve, agentVars, Service!Bind, Phase
  <2> QED BY <2>1, <2>2
<1>4. ASSUME NEW t \in Threads, ResolveThrows(t) PROVE Service!Abandon(t)
  BY <1>1, <1>4 DEF ResolveThrows, agentVars, Service!Abandon, Phase
<1>5. ASSUME NEW t \in Threads, LockEntry(t) PROVE Service!Serve(t)
  <2>1. \A u \in Threads : pc[u] \in InMutex => ent[u] # ent[t]
    BY <1>5, NoneAssumption DEF LockEntry, MutexHeld
  <2>2. \A u \in Threads : Phase(u) = "serving" => pc[u] \in InMutex
    BY DEF Phase
  <2> QED BY <1>1, <1>5, <2>1, <2>2 DEF LockEntry, agentVars, Service!Serve, Phase
<1>6. ASSUME NEW t \in Threads, ReturnInvoke(t) PROVE Service!Reply(t)
  BY <1>1, <1>6 DEF ReturnInvoke, agentVars, Service!Reply, Phase
<1>7. ASSUME NEW o \in Admins, ReloadSwap(o) PROVE \E a \in Agents : Service!Swap(a)
  <2>1. adm[o].agent \in Agents
    BY <1>7 DEF AdminsOK, CallOK, ReloadSwap
  <2>2. Service!Swap(adm[o].agent)
    BY <1>7 DEF ReloadSwap, callerVars, Service!Swap, Phase
  <2> QED BY <2>1, <2>2
<1>8. ASSUME UNCHANGED <<active, ent, agt>>, \A t \in Threads : Phase(t)' = Phase(t)
      PROVE  UNCHANGED Service!vars
  BY <1>8 DEF Service!vars
<1>9. ASSUME NEW t \in Threads,
             \/ TestGate(t) \/ SpuriousWake(t)
             \/ NotifySessionActive(t) \/ SnapshotGeneration(t) \/ BeginTool(t)
             \/ EndTool(t) \/ (\E how \in {"done", "aborted"} : FinishTurn(t, how))
             \/ TurnThrows(t) \/ NotifySessionIdle(t) \/ ClearBusy(t) \/ ReleaseGate(t)
      PROVE  UNCHANGED Service!vars
  <2>1. UNCHANGED <<active, ent, agt>>
    BY <1>9 DEF TestGate, SpuriousWake, NotifySessionActive, SnapshotGeneration,
         BeginTool, EndTool, FinishTurn, TurnThrows, NotifySessionIdle, ClearBusy,
         ReleaseGate, agentVars
  <2>2. \A u \in Threads :
            \/ pc'[u] = pc[u]
            \/ pc[u] \in InMutex /\ pc'[u] \in InMutex
            \/ {pc[u], pc'[u]} \subseteq {"test", "waiting", "resolve"}
    BY <1>9 DEF TestGate, SpuriousWake, NotifySessionActive, SnapshotGeneration,
         BeginTool, EndTool, FinishTurn, TurnThrows, NotifySessionIdle, ClearBusy,
         ReleaseGate
  <2>3. \A u \in Threads : Phase(u)' = Phase(u)
    BY <2>2 DEF Phase
  <2> QED BY <1>8, <2>1, <2>3
<1>10. ASSUME NEW o \in Admins,
              AdminCall(o) \/ AdminStep(o), ~ ReloadSwap(o)
       PROVE  UNCHANGED Service!vars
  <2>1. UNCHANGED active
    BY <1>10 DEF AdminCall, AdminStep, ReloadBuild, ReloadFails, RemoveBegin,
         RemoveErase, RemoveTryLock, RemoveDisk, RemoveCleanup, CancelBegin,
         CancelEnd, ShutdownBegin, ShutdownAgent, GetOrCreateSession, agentVars
  <2>2. UNCHANGED callerVars
    BY <1>10, AdminFrame
  <2> QED BY <1>8, <2>1, <2>2 DEF callerVars, Phase
<1>11. CASE UNCHANGED vars
  BY <1>8, <1>11 DEF vars, agentVars, callerVars, Phase
<1> QED BY <1>2, <1>3, <1>4, <1>5, <1>6, <1>7, <1>9, <1>10, <1>11
        DEF Next, CallerStep, Quiescent, Service!Next

\* SessionManager implements TurnService: the invokeMutex of an entry makes its
\* turns serial, and draining-then-rebind makes every call take the Agent that
\* is active when it resolves its session.
THEOREM Implementation == Spec => ImplementsTurnService
<1>1. Init => Service!Init
  BY BoundsAssumption DEF Init, Service!Init, Phase, Agents
<1>2. Typing /\ MutexHeld /\ BindingKnown /\ [Next]_vars => [Service!Next]_(Service!vars)
  BY ServiceStep
<1> QED BY <1>1, <1>2, TypingInvariant, MutexInvariant, BindingInvariant, PTL
        DEF Spec, ImplementsTurnService, Service!Spec

-----------------------------------------------------------------------------
(* Agent::sessionActivity_ and the cancel generation.                      *)

\* NoStaleActivity is inductive: a record turns busy as its caller enters the
\* turn, and the caller leaves the turn only through SessionIdleGuard.
LEMMA ActivityStep ==
    ASSUME Typing, NoStaleActivity, [Next]_vars
    PROVE  NoStaleActivity'
<1> USE DEF Typing, TypeOK, CallerTypeOK, AgentTypeOK, NoStaleActivity, Goto, Places,
        Resolved, InMutex, Marked, InTurn
<1>1. ASSUME UNCHANGED activity,
             \A t \in Threads : pc[t] \in InTurn =>
                 pc'[t] \in InTurn /\ agt'[t] = agt[t] /\ sess'[t] = sess[t]
      PROVE  NoStaleActivity'
  BY <1>1
<1>2. ASSUME NEW t \in Threads,
             \/ (\E s \in Sessions : EnterGate(t, s)) \/ TestGate(t)
             \/ SpuriousWake(t) \/ Resolve(t) \/ ResolveThrows(t) \/ LockEntry(t)
             \/ SnapshotGeneration(t) \/ BeginTool(t) \/ EndTool(t)
             \/ (\E how \in {"done", "aborted"} : FinishTurn(t, how))
             \/ TurnThrows(t) \/ ClearBusy(t) \/ ReleaseGate(t) \/ ReturnInvoke(t)
      PROVE  NoStaleActivity'
  <2>1. UNCHANGED activity
    BY <1>2 DEF EnterGate, TestGate, SpuriousWake, Resolve, ResolveThrows, LockEntry,
         SnapshotGeneration, BeginTool, EndTool, FinishTurn, TurnThrows, ClearBusy,
         ReleaseGate, ReturnInvoke, agentVars
  <2>2. \A u \in Threads : pc[u] \in InTurn =>
            pc'[u] \in InTurn /\ agt'[u] = agt[u] /\ sess'[u] = sess[u]
    BY <1>2 DEF EnterGate, TestGate, SpuriousWake, Resolve, ResolveThrows, LockEntry,
         SnapshotGeneration, BeginTool, EndTool, FinishTurn, TurnThrows, ClearBusy,
         ReleaseGate, ReturnInvoke
  <2> QED BY <1>1, <2>1, <2>2
<1>3. ASSUME NEW t \in Threads, NotifySessionActive(t) PROVE NoStaleActivity'
  <2>1. agt[t] \in Agents /\ sess[t] \in Sessions
    BY <1>3 DEF CallersOK, CallerOK, NotifySessionActive
  <2> QED BY <1>3, <2>1 DEF NotifySessionActive
<1>4. ASSUME NEW t \in Threads, NotifySessionIdle(t) PROVE NoStaleActivity'
  <2>1. agt[t] \in Agents /\ sess[t] \in Sessions
    BY <1>4 DEF CallersOK, CallerOK, NotifySessionIdle
  <2>2. activity'[agt[t]][sess[t]] # "busy"
    BY <1>4, <2>1 DEF NotifySessionIdle
  <2>3. \A a \in Agents, s \in Sessions :
            activity'[a][s] = "busy" => activity[a][s] = "busy"
    BY <1>4, <2>1 DEF NotifySessionIdle
  <2>4. \A u \in Threads : u # t => pc'[u] = pc[u]
    BY <1>4 DEF NotifySessionIdle
  <2> QED BY <1>4, <2>2, <2>3, <2>4 DEF NotifySessionIdle
<1>5. ASSUME NEW o \in Admins, RemoveCleanup(o) PROVE NoStaleActivity'
  <2>1. \A a \in Agents, s \in Sessions :
            activity'[a][s] = "busy" => activity[a][s] = "busy"
    BY <1>5 DEF RemoveCleanup
  <2> QED BY <1>5, <2>1 DEF RemoveCleanup, callerVars
<1>6. ASSUME NEW o \in Admins, AdminCall(o) \/ AdminStep(o), ~ RemoveCleanup(o)
      PROVE  NoStaleActivity'
  <2>1. UNCHANGED activity
    BY <1>6 DEF AdminCall, AdminStep, ReloadBuild, ReloadSwap, ReloadFails, RemoveBegin,
         RemoveErase, RemoveTryLock, RemoveDisk, CancelBegin, CancelEnd,
         ShutdownBegin, ShutdownAgent, GetOrCreateSession, agentVars
  <2> QED BY <1>1, <1>6, <2>1, AdminFrame DEF callerVars
<1>7. CASE UNCHANGED vars
  BY <1>1, <1>7 DEF vars, agentVars, callerVars
<1> HIDE DEF Typing, NoStaleActivity
<1> QED BY <1>2, <1>3, <1>4, <1>5, <1>6, <1>7 DEF Next, CallerStep, Quiescent

\* No Agent, active or retired, keeps a session marked busy after its turn, so
\* none is hidden from the consolidation loop for good.
THEOREM NoActivityLeak == Spec => []NoStaleActivity
<1>1. Init => NoStaleActivity
  BY DEF Init, NoStaleActivity
<1>2. Typing /\ NoStaleActivity /\ [Next]_vars => NoStaleActivity'
  BY ActivityStep
<1> QED BY <1>1, <1>2, TypingInvariant, PTL DEF Spec

\* An operator has cancelled or shut down.
Interrupted == used.cancels > 0 \/ used.shutdowns > 0

\* What makes AbortOnlyByOperator inductive: a generation above its initial
\* value, and a Cancel or Shutdown in progress, are traces of an interruption.
AbortTraced ==
    /\ \A a \in Agents : cancelGen[a] > 0 => Interrupted
    /\ \A o \in Admins : adm[o].op \in {"cancel", "stop"} => Interrupted
    /\ \A t \in Threads : outcome[t] = "aborted" => Interrupted

\* AbortTraced is inductive.
LEMMA AbortStep ==
    ASSUME Typing, AbortTraced, [Next]_vars
    PROVE  AbortTraced'
<1> USE BoundsAssumption DEF Typing, TypeOK, AgentTypeOK, CallerTypeOK, Budget, AbortTraced
<1>0. Interrupted => Interrupted'
  <2>1. \/ used' = used
        \/ used' = [used EXCEPT !.invokes = @ + 1]
        \/ used' = [used EXCEPT !.faults = @ + 1]
        \/ used' = [used EXCEPT !.removes = @ + 1]
        \/ used' = [used EXCEPT !.cancels = @ + 1]
        \/ used' = [used EXCEPT !.shutdowns = @ + 1]
    BY DEF Next, CallerStep, EnterGate, TestGate, SpuriousWake, Resolve, ResolveThrows,
         LockEntry, NotifySessionActive, SnapshotGeneration, BeginTool, EndTool,
         FinishTurn, TurnThrows, NotifySessionIdle, ClearBusy, ReleaseGate, ReturnInvoke,
         AdminCall, AdminStep, ReloadBuild, ReloadSwap, ReloadFails, RemoveBegin,
         RemoveErase, RemoveTryLock, RemoveDisk, RemoveCleanup, CancelBegin, CancelEnd,
         ShutdownBegin, ShutdownAgent, GetOrCreateSession, Quiescent, vars
  <2> QED BY <2>1 DEF Interrupted
<1>1. ASSUME UNCHANGED <<cancelGen, adm>>,
             \A t \in Threads : outcome'[t] = "aborted" => outcome[t] = "aborted"
      PROVE  AbortTraced'
  BY <1>0, <1>1
<1>2. ASSUME NEW t \in Threads, NEW how \in {"done", "aborted"}, FinishTurn(t, how)
      PROVE  AbortTraced'
  <2>1. agt[t] \in Agents
    BY <1>2 DEF CallersOK, CallerOK, FinishTurn, Resolved, InMutex, Marked, InTurn
  <2>2. how = "aborted" => Interrupted
    BY <1>2, <2>1 DEF FinishTurn, IsCancelled
  <2>3. \A u \in Threads : outcome'[u] = "aborted" => Interrupted
    BY <1>2, <2>2 DEF FinishTurn
  <2> QED BY <1>0, <1>2, <2>3 DEF FinishTurn, agentVars
<1>3. ASSUME NEW t \in Threads,
             \/ (\E s \in Sessions : EnterGate(t, s)) \/ TestGate(t)
             \/ SpuriousWake(t) \/ Resolve(t) \/ ResolveThrows(t) \/ LockEntry(t)
             \/ NotifySessionActive(t) \/ SnapshotGeneration(t) \/ BeginTool(t)
             \/ EndTool(t) \/ TurnThrows(t) \/ NotifySessionIdle(t) \/ ClearBusy(t)
             \/ ReleaseGate(t) \/ ReturnInvoke(t)
      PROVE  AbortTraced'
  <2>1. UNCHANGED <<cancelGen, adm>>
    BY <1>3 DEF EnterGate, TestGate, SpuriousWake, Resolve, ResolveThrows, LockEntry,
         NotifySessionActive, SnapshotGeneration, BeginTool, EndTool, TurnThrows,
         NotifySessionIdle, ClearBusy, ReleaseGate, ReturnInvoke, agentVars
  <2>2. \A u \in Threads : outcome'[u] = "aborted" => outcome[u] = "aborted"
    BY <1>3 DEF EnterGate, TestGate, SpuriousWake, Resolve, ResolveThrows, LockEntry,
         NotifySessionActive, SnapshotGeneration, BeginTool, EndTool, TurnThrows,
         NotifySessionIdle, ClearBusy, ReleaseGate, ReturnInvoke
  <2> QED BY <1>1, <2>1, <2>2
<1>4. ASSUME NEW o \in Admins, CancelBegin(o) \/ ShutdownBegin(o) PROVE AbortTraced'
  <2>1. Interrupted'
    BY <1>4 DEF CancelBegin, ShutdownBegin, Interrupted
  <2> QED BY <2>1
<1>5. ASSUME NEW o \in Admins, CancelEnd(o) \/ \E a \in Agents : ShutdownAgent(o, a)
      PROVE  AbortTraced'
  <2>1. Interrupted
    BY <1>5 DEF CancelEnd, ShutdownAgent
  <2> QED BY <1>0, <2>1
<1>6. ASSUME NEW o \in Admins,
             \/ \E cap \in Caps, root \in ReloadRoots : ReloadBuild(o, cap, root)
             \/ \E s \in Sessions : RemoveBegin(o, s) \/ GetOrCreateSession(o, s)
             \/ ReloadSwap(o) \/ ReloadFails(o)
             \/ RemoveErase(o) \/ RemoveTryLock(o) \/ RemoveDisk(o) \/ RemoveCleanup(o)
      PROVE  AbortTraced'
  <2>1. UNCHANGED <<cancelGen, outcome>>
    BY <1>6 DEF ReloadBuild, RemoveBegin, GetOrCreateSession, ReloadSwap, ReloadFails,
         RemoveErase, RemoveTryLock, RemoveDisk, RemoveCleanup, agentVars, callerVars
  <2>2. \A p \in Admins : adm'[p].op \in {"cancel", "stop"} => adm[p].op \in {"cancel",
      "stop"}
    <3> USE DEF SetCall, NoCall, Call
    <3>1. CASE ReloadSwap(o) \/ ReloadFails(o) \/ RemoveCleanup(o)
      BY <3>1 DEF ReloadSwap, ReloadFails, RemoveCleanup
    <3>2. CASE RemoveErase(o)
      <4> DEFINE s == adm[o].sess
                 locked == [adm[o] EXCEPT !.op = "trylock", !.victim = Entry(s)]
                 gone == [adm[o] EXCEPT !.op = "disk"]
      <4>1. locked.op = "trylock" /\ gone.op = "disk"
        OBVIOUS
      <4>2. adm' = [adm EXCEPT ![o] = locked] \/ adm' = [adm EXCEPT ![o] = gone]
        BY <3>2 DEF RemoveErase
      <4> HIDE DEF locked, gone
      <4> QED BY <4>1, <4>2
    <3>3. CASE RemoveTryLock(o)
      BY <3>3 DEF RemoveTryLock
    <3>4. CASE RemoveDisk(o)
      BY <3>4 DEF RemoveDisk
    <3>5. CASE \E cap \in Caps, root \in ReloadRoots : ReloadBuild(o, cap, root)
      BY <3>5 DEF ReloadBuild
    <3>6. CASE \E s \in Sessions : RemoveBegin(o, s)
      BY <3>6 DEF RemoveBegin
    <3>7. CASE \E s \in Sessions : GetOrCreateSession(o, s)
      BY <3>7 DEF GetOrCreateSession
    <3> QED BY <1>6, <3>1, <3>2, <3>3, <3>4, <3>5, <3>6, <3>7
  <2> QED BY <1>0, <2>1, <2>2
<1>7. CASE UNCHANGED vars
  BY <1>1, <1>7 DEF vars, agentVars, callerVars
<1> QED BY <1>2, <1>3, <1>4, <1>5, <1>6, <1>7
        DEF Next, CallerStep, AdminCall, AdminStep, Quiescent

\* A turn is aborted only if an operator called Cancel or Shutdown: a reload
\* never aborts the turns on the Agent it retires.
THEOREM ReloadNeverAborts == Spec => []AbortOnlyByOperator
<1>1. Init => AbortTraced
  BY DEF Init, AbortTraced, NoCall
<1>2. Typing /\ AbortTraced /\ [Next]_vars => AbortTraced'
  BY AbortStep
<1>3. AbortTraced => AbortOnlyByOperator
  BY DEF AbortTraced, AbortOnlyByOperator, Interrupted
<1> QED BY <1>1, <1>2, <1>3, TypingInvariant, PTL DEF Spec
=============================================================================
