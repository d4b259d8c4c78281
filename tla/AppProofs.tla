------------------------------- MODULE AppProofs -------------------------------
(***************************************************************************)
(* Theorems about App, for any threads, Agents, channels, files and        *)
(* requests, and any number of them.                                       *)
(***************************************************************************)
EXTENDS App, FiniteSetTheorems, WellFoundedInduction, TLAPS

AgentSteps == {"idle", "upsert", "get", "install", "cascade"}
ChannelSteps == {"idle", "created", "apply", "remove", "reconcile", "stop"}

\* The Agents' side: what a thread is about to store or install is a whole
\* configuration.
AgentTyping ==
    /\ apc \in [Threads -> AgentSteps] /\ DOMAIN acall = Threads /\ amtime \in Nat
    /\ \A t \in Threads : apc[t] \in {"upsert", "install"} => DOMAIN acall[t].cfg = DOMAIN Blank
    /\ DOMAIN live.cfg = DOMAIN Blank

AgentsOK == AgentTyping /\ EffectiveIsMerged

\* A file of channels has finitely many of them.
Numberable(chs) == IsFiniteSet(DOMAIN chs) /\ DOMAIN chs \subseteq Nat

\* The channels' side: the manager's entries and those of its file can be
\* numbered, and a thread that applies has something left to apply.
ChannelTyping ==
    /\ cpc \in [Workers -> ChannelSteps] /\ DOMAIN ccall = Workers /\ cmtime \in Nat
    /\ \A t \in Workers : cpc[t] = "apply" => DOMAIN ccall[t] # {}
    /\ nextId \in Nat \ {0} /\ Numberable(channels)
    /\ cfile \in {NoChannels, NotJson} \/ Numberable(cfile)

ChannelsOK == ChannelTyping /\ BotMatchesLast /\ NextIdIsFree

\* The watcher and main.
RestTyping ==
    /\ wpc \in {"agents", "channels", "wait", "dozing", "asleep", "ended"}
    /\ mpc \in {"up", "notify", "join", "stop_http", "http_stopping", "down", "dead"}
    /\ editing \subseteq {"agents", "channels"}
    /\ {seenAgents, seenChannels} \subseteq Nat \cup {NoTime}

IInv == AgentsOK /\ ChannelsOK /\ RestTyping

-----------------------------------------------------------------------------
(* The store of the Agents.                                                *)

\* Merging gives every field of the configuration merged into.
LEMMA EffectiveDomains ==
    ASSUME NEW o, NEW id \in DOMAIN Effective(o)
    PROVE  DOMAIN Effective(o)[id] = DOMAIN Blank
BY AgentConfigsAssumption DEF Effective, Base, MergeAgentConfigFromJson

\* Recomputing the one id whose override is replaced is recomputing them all.
LEMMA EffectiveOfPut ==
    ASSUME NEW o, NEW id, NEW json
    PROVE  Effective(Put(o, id, json)) = Put(Effective(o), id, MergeAgentConfigFromJson(json, Base(id)))
<1> DEFINE p == Put(o, id, json)
           D == DOMAIN Default \cup DOMAIN o \cup {id}
           v(y) == IF y = id THEN MergeAgentConfigFromJson(json, Base(id))
                   ELSE IF y \in DOMAIN o THEN MergeAgentConfigFromJson(o[y], Base(y)) ELSE Base(y)
<1>1. Effective(p) = [y \in D |-> v(y)]
  <2>1. DOMAIN p = DOMAIN o \cup {id} /\ p[id] = json /\ \A y \in DOMAIN o : y # id => p[y] = o[y]
    BY DEF Put
  <2>2. DOMAIN Default \cup DOMAIN p = D
    BY <2>1
  <2> HIDE DEF p
  <2>3. ASSUME NEW y \in D
        PROVE  (IF y \in DOMAIN p THEN MergeAgentConfigFromJson(p[y], Base(y)) ELSE Base(y)) = v(y)
    BY <2>1
  <2> QED BY <2>2, <2>3 DEF Effective
<1>2. Put(Effective(o), id, MergeAgentConfigFromJson(json, Base(id))) = [y \in D |-> v(y)]
  BY DEF Effective, Put
<1> QED BY <1>1, <1>2

\* So is putting back the default of the one id whose override is dropped, or
\* dropping the id when there is no default.
LEMMA EffectiveOfDrop ==
    ASSUME NEW o, NEW id
    PROVE  Effective(Drop(o, id)) = IF id \in DOMAIN Default THEN Put(Effective(o), id, Default[id])
                                    ELSE Drop(Effective(o), id)
<1> DEFINE p == Drop(o, id)
           D == DOMAIN Default \cup (DOMAIN o \ {id})
           v(y) == IF y = id THEN Base(y)
                   ELSE IF y \in DOMAIN o THEN MergeAgentConfigFromJson(o[y], Base(y)) ELSE Base(y)
<1>1. Effective(p) = [y \in D |-> v(y)]
  <2>1. DOMAIN p = DOMAIN o \ {id} /\ \A y \in DOMAIN o : y # id => p[y] = o[y]
    BY DEF Drop
  <2> HIDE DEF p
  <2>3. ASSUME NEW y \in D
        PROVE  (IF y \in DOMAIN p THEN MergeAgentConfigFromJson(p[y], Base(y)) ELSE Base(y)) = v(y)
    BY <2>1
  <2> QED BY <2>1, <2>3 DEF Effective
<1>2. CASE id \in DOMAIN Default
  <2>1. Put(Effective(o), id, Default[id]) = [y \in D |-> v(y)]
    <3>1. DOMAIN Effective(o) \cup {id} = D
      BY <1>2 DEF Effective
    <3>2. ASSUME NEW y \in D PROVE (IF y = id THEN Default[id] ELSE Effective(o)[y]) = v(y)
      BY <1>2 DEF Effective, Base
    <3> QED BY <3>1, <3>2 DEF Put
  <2> QED BY <1>1, <1>2, <2>1
<1>3. CASE id \notin DOMAIN Default
  <2>1. Drop(Effective(o), id) = [y \in D |-> v(y)]
    <3>1. DOMAIN Effective(o) \ {id} = D
      BY <1>3 DEF Effective
    <3>2. ASSUME NEW y \in D PROVE Effective(o)[y] = v(y)
      BY <1>3 DEF Effective, Base
    <3> QED BY <3>1, <3>2 DEF Drop
  <2> QED BY <1>1, <1>3, <2>1
<1> QED BY <1>2, <1>3

\* However far a Load came, what it computed of an id is the default overlaid
\* with the override it took over; when it came to its end it computed all ids.
LEMMA LoadedIsMerged ==
    ASSUME NEW file, NEW r \in Loaded(file)
    PROVE  /\ \A id \in DOMAIN r.current : /\ id \in DOMAIN Effective(r.overrides)
                                          /\ r.current[id] = Effective(r.overrides)[id]
           /\ r.half = TRUE \/ (r.half = FALSE /\ DOMAIN r.current = DOMAIN Effective(r.overrides))
<1> DEFINE merged == Effective(file)
           illTyped == {id \in DOMAIN file : \E f \in DOMAIN file[id] : file[id][f] = IllTyped}
<1>1. \/ \E S : r = [overrides |-> Only(file, S), current |-> NoEntries, half |-> TRUE]
      \/ r = [overrides |-> file, current |-> merged, half |-> FALSE]
      \/ \E S \in SUBSET DOMAIN merged :
           r = [overrides |-> file, current |-> Only(merged, S), half |-> TRUE]
  <2>1. CASE IllTyped \in DOMAIN file
    BY <2>1 DEF Loaded
  <2>2. CASE IllTyped \notin DOMAIN file /\ illTyped = {}
    BY <2>2 DEF Loaded
  <2>3. CASE IllTyped \notin DOMAIN file /\ illTyped # {}
    BY <2>3 DEF Loaded
  <2> QED BY <2>1, <2>2, <2>3
<1> HIDE DEF merged
<1>2. CASE \E S : r = [overrides |-> Only(file, S), current |-> NoEntries, half |-> TRUE]
  BY <1>2 DEF NoEntries
<1>3. CASE r = [overrides |-> file, current |-> merged, half |-> FALSE]
  BY <1>3 DEF merged
<1>4. CASE \E S \in SUBSET DOMAIN merged :
             r = [overrides |-> file, current |-> Only(merged, S), half |-> TRUE]
  <2>1. PICK S \in SUBSET DOMAIN merged :
          r = [overrides |-> file, current |-> Only(merged, S), half |-> TRUE]
    BY <1>4
  <2>2. r.overrides = file /\ r.current = Only(merged, S) /\ r.half = TRUE
    BY <2>1
  <2>3. DOMAIN r.current = S /\ \A id \in S : r.current[id] = merged[id]
    BY <2>2 DEF Only
  <2> QED BY <2>2, <2>3 DEF merged
<1> QED BY <1>1, <1>2, <1>3, <1>4

\* Each operation of the store leaves it merged, however its save turns out.
LEMMA StoreOperations ==
    ASSUME EffectiveIsMerged, NEW id, NEW json, NEW how,
           Load \/ UpsertOverride(id, json, how) \/ Remove(id, how)
    PROVE  EffectiveIsMerged'
<1>1. CASE Load
  <2>1. PICK r \in Loaded(ReadFileLocked) :
          overrides' = r.overrides /\ current' = r.current /\ half' = r.half
    BY <1>1 DEF Load
  <2>2. \A i \in DOMAIN current' : i \in DOMAIN Effective(overrides') /\ current'[i] = Effective(overrides')[i]
    BY <2>1, LoadedIsMerged
  <2>3. half' = TRUE \/ DOMAIN current' = DOMAIN Effective(overrides')
    BY <2>1, LoadedIsMerged
  <2> QED BY <2>2, <2>3, Zenon DEF EffectiveIsMerged
<1>2. CASE UpsertOverride(id, json, how)
  <2> DEFINE new == MergeAgentConfigFromJson(json, Base(id))
             merged == Effective(overrides)
  <2>1. /\ Effective(overrides') = Put(merged, id, new)
        /\ current' = Put(current, id, new) /\ half' = half
    BY <1>2, EffectiveOfPut DEF UpsertOverride
  <2>2. DOMAIN Put(merged, id, new) = DOMAIN merged \cup {id} /\ DOMAIN current' = DOMAIN current \cup {id}
    BY <2>1 DEF Put
  <2>3. \A i \in DOMAIN current : i \in DOMAIN merged /\ current[i] = merged[i]
    BY DEF EffectiveIsMerged
  <2>4. half \/ DOMAIN current = DOMAIN merged
    BY DEF EffectiveIsMerged
  <2> HIDE DEF new, merged
  <2>5. \A i \in DOMAIN current' : i \in DOMAIN Effective(overrides') /\ current'[i] = Effective(overrides')[i]
    BY <2>1, <2>2, <2>3 DEF Put
  <2>6. half' \/ DOMAIN current' = DOMAIN Effective(overrides')
    BY <2>1, <2>2, <2>4, Zenon
  <2> QED BY <2>5, <2>6, Zenon DEF EffectiveIsMerged
<1>3. CASE Remove(id, how)
  <2> DEFINE merged == Effective(overrides)
  <2>0. Effective(overrides') = Effective(Drop(overrides, id)) /\ half' = half
    BY <1>3 DEF Remove
  <2>3. \A i \in DOMAIN current : i \in DOMAIN merged /\ current[i] = merged[i]
    BY DEF EffectiveIsMerged
  <2>4. half \/ DOMAIN current = DOMAIN merged
    BY DEF EffectiveIsMerged
  <2>5. CASE id \in DOMAIN Default
    <3>1. Effective(overrides') = Put(merged, id, Default[id]) /\ current' = Put(current, id, Default[id])
      BY <1>3, <2>0, <2>5, EffectiveOfDrop DEF Remove
    <3> HIDE DEF merged
    <3>2. DOMAIN Put(merged, id, Default[id]) = DOMAIN merged \cup {id}
          /\ DOMAIN current' = DOMAIN current \cup {id}
      BY <3>1 DEF Put
    <3>3. \A i \in DOMAIN current' : i \in DOMAIN Effective(overrides') /\ current'[i] = Effective(overrides')[i]
      BY <3>1, <3>2, <2>3 DEF Put
    <3>4. half' \/ DOMAIN current' = DOMAIN Effective(overrides')
      BY <2>0, <2>4, <3>1, <3>2, Zenon
    <3> QED BY <3>3, <3>4, Zenon DEF EffectiveIsMerged
  <2>6. CASE id \notin DOMAIN Default
    <3>1. Effective(overrides') = Drop(merged, id) /\ current' = Drop(current, id)
      BY <1>3, <2>0, <2>6, EffectiveOfDrop DEF Remove
    <3> HIDE DEF merged
    <3>2. DOMAIN Drop(merged, id) = DOMAIN merged \ {id} /\ DOMAIN current' = DOMAIN current \ {id}
      BY <3>1 DEF Drop
    <3>3. \A i \in DOMAIN current' : i \in DOMAIN Effective(overrides') /\ current'[i] = Effective(overrides')[i]
      BY <3>1, <3>2, <2>3 DEF Drop
    <3>4. half' \/ DOMAIN current' = DOMAIN Effective(overrides')
      BY <2>0, <2>4, <3>1, <3>2, Zenon
    <3> QED BY <3>3, <3>4, Zenon DEF EffectiveIsMerged
  <2> QED BY <2>5, <2>6
<1> QED BY <1>1, <1>2, <1>3

\* A save counts a write or leaves the file alone.
LEMMA SavesCount ==
    ASSUME amtime \in Nat, NEW how \in Outcomes, SaveLocked(how)
    PROVE  amtime' \in Nat
BY DEF SaveLocked, Outcomes

\* The next step of one thread, with a whole configuration when it is one to
\* install.
LEMMA GotoTyped ==
    ASSUME AgentTyping, NEW t \in Threads, NEW pc \in AgentSteps, NEW call, Goto(t, pc, call),
           pc \in {"upsert", "install"} => DOMAIN call.cfg = DOMAIN Blank,
           amtime' \in Nat, DOMAIN live'.cfg = DOMAIN Blank
    PROVE  AgentTyping'
<1>1. apc' \in [Threads -> AgentSteps] /\ DOMAIN acall' = Threads
  BY DEF AgentTyping, Goto
<1>2. ASSUME NEW u \in Threads, apc'[u] \in {"upsert", "install"}
      PROVE  DOMAIN acall'[u].cfg = DOMAIN Blank
  <2>1. CASE u = t
    <3>1. acall'[u] = call /\ apc'[u] = pc
      BY <2>1 DEF AgentTyping, Goto
    <3> QED BY <3>1, <1>2
  <2>2. CASE u # t
    <3>1. acall'[u] = acall[u] /\ apc'[u] = apc[u]
      BY <2>2 DEF AgentTyping, Goto
    <3> QED BY <3>1, <1>2 DEF AgentTyping
  <2> QED BY <2>1, <2>2
<1> QED BY <1>1, <1>2 DEF AgentTyping

\* What the store serves is a whole configuration.
LEMMA CurrentDomains ==
    ASSUME EffectiveIsMerged, NEW id \in DOMAIN current
    PROVE  DOMAIN current[id] = DOMAIN Blank
<1>1. id \in DOMAIN Effective(overrides) /\ current[id] = Effective(overrides)[id]
  BY DEF EffectiveIsMerged
<1> QED BY <1>1, EffectiveDomains

\* The requests and reloads of the Agents' side leave it in order.
LEMMA AgentRequests ==
    ASSUME AgentsOK, NEW t \in Threads, NEW id, NEW json, NEW how \in Outcomes,
           \/ PutAgent(t, id, json) \/ DeleteAgent(t, id, how) \/ ReloadAgents(t)
           \/ ReloadAgent(t, id) \/ DeleteMcpServer(t)
    PROVE  AgentsOK'
<1>0. AgentTyping /\ EffectiveIsMerged /\ amtime \in Nat /\ DOMAIN live.cfg = DOMAIN Blank
  BY DEF AgentsOK, AgentTyping
<1>1. CASE PutAgent(t, id, json)
  <2> DEFINE base == IF id \in DOMAIN current THEN current[id] ELSE Blank
             call == [id |-> id, todo |-> json, cfg |-> MergeAgentConfigFromJson(json, base)]
  <2>1. DOMAIN base = DOMAIN Blank
    BY <1>0, CurrentDomains
  <2>2. DOMAIN call.cfg = DOMAIN Blank
    <3> HIDE DEF base
    <3> QED BY <2>1 DEF MergeAgentConfigFromJson
  <2>3. Goto(t, "upsert", call) /\ UNCHANGED <<amtime, overrides, current, half, live>>
    BY <1>1 DEF PutAgent
  <2>4. AgentTyping'
    <3> HIDE DEF call
    <3> QED BY <1>0, <2>2, <2>3, GotoTyped DEF AgentSteps
  <2>5. EffectiveIsMerged'
    BY <1>0, <2>3 DEF EffectiveIsMerged
  <2> QED BY <2>4, <2>5 DEF AgentsOK
<1>2. CASE DeleteAgent(t, id, how)
  <2>1. Remove(id, how) /\ live' = live
    BY <1>2 DEF DeleteAgent
  <2>2. amtime' \in Nat
    BY <1>0, <2>1, SavesCount DEF Remove
  <2>3. EffectiveIsMerged'
    BY <1>0, <2>1, StoreOperations
  <2>4. \E pc \in {"get", "idle"} : \E call : Goto(t, pc, call)
    BY <1>2 DEF DeleteAgent
  <2>5. AgentTyping'
    BY <1>0, <2>1, <2>2, <2>4, GotoTyped DEF AgentSteps
  <2> QED BY <2>3, <2>5 DEF AgentsOK
<1>3. CASE ReloadAgents(t)
  <2>1. Load /\ live' = live
    BY <1>3 DEF ReloadAgents
  <2>2. amtime' = amtime
    BY <2>1 DEF Load
  <2>3. EffectiveIsMerged'
    BY <1>0, <2>1, StoreOperations
  <2>4. CASE ~half' /\ live.id \in DOMAIN current'
    <3> DEFINE call == [Idle EXCEPT !.id = live.id, !.cfg = current'[live.id]]
    <3>1. DOMAIN current'[live.id] = DOMAIN Blank
      <4>1. live.id \in DOMAIN Effective(overrides') /\ current'[live.id] = Effective(overrides')[live.id]
        BY <2>3, <2>4 DEF EffectiveIsMerged
      <4> QED BY <4>1, EffectiveDomains
    <3>2. DOMAIN call.cfg = DOMAIN Blank
      BY <3>1 DEF Idle
    <3>3. Goto(t, "install", call)
      BY <1>3, <2>4 DEF ReloadAgents
    <3> HIDE DEF call
    <3>4. AgentTyping'
      BY <1>0, <2>1, <2>2, <3>2, <3>3, GotoTyped DEF AgentSteps
    <3> QED BY <2>3, <3>4 DEF AgentsOK
  <2>5. CASE ~(~half' /\ live.id \in DOMAIN current')
    <3>1. Goto(t, "idle", Idle)
      BY <1>3, <2>5 DEF ReloadAgents
    <3>2. AgentTyping'
      BY <1>0, <2>1, <2>2, <3>1, GotoTyped DEF AgentSteps
    <3> QED BY <2>3, <3>2 DEF AgentsOK
  <2> QED BY <2>4, <2>5
<1>4. CASE ReloadAgent(t, id)
  <2>1. Load /\ live' = live
    BY <1>4 DEF ReloadAgent
  <2>2. amtime' = amtime
    BY <2>1 DEF Load
  <2>3. EffectiveIsMerged'
    BY <1>0, <2>1, StoreOperations
  <2>4. \E pc \in {"get", "idle"} : \E call : Goto(t, pc, call)
    BY <1>4 DEF ReloadAgent
  <2>5. AgentTyping'
    BY <1>0, <2>1, <2>2, <2>4, GotoTyped DEF AgentSteps
  <2> QED BY <2>3, <2>5 DEF AgentsOK
<1>5. CASE DeleteMcpServer(t)
  <2>1. UNCHANGED <<amtime, overrides, current, half, live>>
    BY <1>5 DEF DeleteMcpServer
  <2>2. \E pc \in {"cascade", "idle"} : \E call : Goto(t, pc, call)
    BY <1>5 DEF DeleteMcpServer
  <2>3. AgentTyping'
    BY <1>0, <2>1, <2>2, GotoTyped DEF AgentSteps
  <2>4. EffectiveIsMerged'
    BY <1>0, <2>1 DEF EffectiveIsMerged
  <2> QED BY <2>3, <2>4 DEF AgentsOK
<1> QED BY <1>1, <1>2, <1>3, <1>4, <1>5

\* So do the later steps of a handler or a reload, though other threads were
\* at the store in between.
LEMMA AgentLaterSteps ==
    ASSUME AgentsOK, NEW t \in Threads, NEW how \in Outcomes,
           PutStores(t, how) \/ Cascade(t, how) \/ GetAgent(t) \/ Install(t)
    PROVE  AgentsOK'
<1>0. AgentTyping /\ EffectiveIsMerged /\ amtime \in Nat /\ DOMAIN live.cfg = DOMAIN Blank
  BY DEF AgentsOK, AgentTyping
<1>1. CASE PutStores(t, how)
  <2>1. apc[t] = "upsert" /\ UpsertOverride(acall[t].id, acall[t].todo, how) /\ live' = live
    BY <1>1 DEF PutStores
  <2>2. amtime' \in Nat
    BY <1>0, <2>1, SavesCount DEF UpsertOverride
  <2>3. EffectiveIsMerged'
    BY <1>0, <2>1, StoreOperations
  <2>4. CASE live.id = acall[t].id
    <3> DEFINE call == [acall[t] EXCEPT !.todo = NoEntries]
    <3>1. Goto(t, "install", call)
      BY <1>1, <2>4 DEF PutStores
    <3>2. DOMAIN call.cfg = DOMAIN Blank
      <4>1. DOMAIN acall[t].cfg = DOMAIN Blank
        BY <1>0, <2>1 DEF AgentTyping
      <4>2. call.cfg = acall[t].cfg
        OBVIOUS
      <4> QED BY <4>1, <4>2
    <3> HIDE DEF call
    <3>3. AgentTyping'
      BY <1>0, <2>1, <2>2, <3>1, <3>2, GotoTyped DEF AgentSteps
    <3> QED BY <2>3, <3>3 DEF AgentsOK
  <2>5. CASE live.id # acall[t].id
    <3>1. Goto(t, "idle", Idle)
      BY <1>1, <2>5 DEF PutStores
    <3>2. AgentTyping'
      BY <1>0, <2>1, <2>2, <3>1, GotoTyped DEF AgentSteps
    <3> QED BY <2>3, <3>2 DEF AgentsOK
  <2> QED BY <2>4, <2>5
<1>2. CASE Cascade(t, how)
  <2>1. live' = live
    BY <1>2 DEF Cascade
  <2>2. PICK id : UpsertOverride(id, [model |-> acall[t].todo[id], mcp |-> "off"], how)
    BY <1>2 DEF Cascade
  <2>3. amtime' \in Nat
    BY <1>0, <2>2, SavesCount DEF UpsertOverride
  <2>4. EffectiveIsMerged'
    BY <1>0, <2>2, StoreOperations
  <2>5. \E pc \in {"cascade", "idle"} : \E call : Goto(t, pc, call)
    BY <1>2 DEF Cascade
  <2>6. AgentTyping'
    BY <1>0, <2>1, <2>3, <2>5, GotoTyped DEF AgentSteps
  <2> QED BY <2>4, <2>6 DEF AgentsOK
<1>3. CASE GetAgent(t)
  <2> DEFINE id == acall[t].id
  <2>1. UNCHANGED <<amtime, overrides, current, half, live>>
    BY <1>3 DEF GetAgent
  <2>2. EffectiveIsMerged'
    BY <1>0, <2>1 DEF EffectiveIsMerged
  <2>3. CASE id \in DOMAIN current
    <3> DEFINE call == [Idle EXCEPT !.id = id, !.cfg = current[id]]
    <3>1. DOMAIN call.cfg = DOMAIN Blank
      BY <1>0, <2>3, CurrentDomains DEF Idle
    <3>2. Goto(t, "install", call)
      BY <1>3, <2>3 DEF GetAgent
    <3> HIDE DEF call
    <3>3. AgentTyping'
      BY <1>0, <2>1, <3>1, <3>2, GotoTyped DEF AgentSteps
    <3> QED BY <2>2, <3>3 DEF AgentsOK
  <2>4. CASE id \notin DOMAIN current
    <3>1. Goto(t, "idle", Idle)
      BY <1>3, <2>4 DEF GetAgent
    <3>2. AgentTyping'
      BY <1>0, <2>1, <3>1, GotoTyped DEF AgentSteps
    <3> QED BY <2>2, <3>2 DEF AgentsOK
  <2> QED BY <2>3, <2>4
<1>4. CASE Install(t)
  <2>1. apc[t] = "install" /\ Goto(t, "idle", Idle) /\ UNCHANGED <<amtime, overrides, current, half>>
    BY <1>4 DEF Install
  <2>2. DOMAIN acall[t].cfg = DOMAIN Blank
    BY <1>0, <2>1 DEF AgentTyping
  <2>3. live' = live \/ live' = [id |-> acall[t].id, cfg |-> acall[t].cfg]
    BY <1>4 DEF Install
  <2>4. DOMAIN live'.cfg = DOMAIN Blank
    BY <1>0, <2>2, <2>3
  <2>5. AgentTyping'
    BY <1>0, <2>1, <2>4, GotoTyped DEF AgentSteps
  <2>6. EffectiveIsMerged'
    BY <1>0, <2>1 DEF EffectiveIsMerged
  <2> QED BY <2>5, <2>6 DEF AgentsOK
<1> QED BY <1>1, <1>2, <1>3, <1>4

\* An edit of agents.json reaches neither the store nor a thread.
LEMMA AgentEdits ==
    ASSUME AgentsOK, NEW text, EditAgents(text)
    PROVE  AgentsOK'
<1>1. UNCHANGED <<overrides, current, half, live, apc, acall>> /\ amtime' = amtime + 1
  BY DEF EditAgents
<1> QED BY <1>1 DEF AgentsOK, AgentTyping, EffectiveIsMerged

\* What no step touches stays in order.
LEMMA AgentsUnchanged ==
    ASSUME AgentsOK, UNCHANGED agentVars
    PROVE  AgentsOK'
BY DEF AgentsOK, AgentTyping, EffectiveIsMerged, agentVars

-----------------------------------------------------------------------------
(* ChannelManager and ChannelService.                                      *)

\* A non-empty finite set of numbers has a largest one: otherwise a smallest
\* set without one, less an element, has one.
LEMMA MaxOfFinite ==
    ASSUME NEW S \in SUBSET Nat, IsFiniteSet(S), S # {}
    PROVE  Max(S) \in S /\ \A n \in S : n <= Max(S)
<1> DEFINE HasMax(T) == \E x \in T : \A y \in T : x >= y
           Bad == {n \in Nat : \E T \in SUBSET Nat : /\ IsFiniteSet(T) /\ T # {} /\ ~HasMax(T)
                                                     /\ n = Cardinality(T)}
           R == {ss \in Nat \X Nat : ss[1] < ss[2]}
<1>1. HasMax(S)
  <2>1. SUFFICES ASSUME ~HasMax(S) PROVE FALSE
    OBVIOUS
  <2>2. Cardinality(S) \in Bad
    BY <2>1, FS_CardinalityType
  <2>3. IsWellFoundedOn(R, Nat)
    BY NatLessThanWellFounded, Zenon DEF OpToRel
  <2>4. Bad \subseteq Nat /\ Bad # {}
    BY <2>2
  <2> HIDE DEF R
  <2>5. PICK n \in Bad : \A m \in Bad : ~ (<<m, n>> \in R)
    <3> HIDE DEF Bad
    <3> QED BY <2>3, <2>4, WFMin
  <2>6. PICK T \in SUBSET Nat : IsFiniteSet(T) /\ T # {} /\ ~HasMax(T) /\ n = Cardinality(T)
    OBVIOUS
  <2>7. PICK x \in T : TRUE
    BY <2>6
  <2> DEFINE U == T \ {x}
  <2>8. IsFiniteSet(U) /\ Cardinality(U) = n - 1 /\ Cardinality(U) \in Nat /\ n \in Nat
    BY <2>6, <2>7, FS_RemoveElement, FS_CardinalityType
  <2>9. Cardinality(U) \notin Bad
    <3>1. Cardinality(U) < n /\ n \in Nat
      BY <2>8
    <3>2. <<Cardinality(U), n>> \in R
      BY <3>1, <2>8 DEF R
    <3> HIDE DEF Bad
    <3> QED BY <3>2, <2>5
  <2>10. U = {} \/ HasMax(U)
    BY <2>8, <2>9
  <2>11. CASE U = {}
    <3>1. T = {x} /\ x \in Nat
      BY <2>11
    <3>2. HasMax(T)
      BY <3>1
    <3> QED BY <3>2, <2>6
  <2>12. CASE HasMax(U)
    <3>1. PICK m \in U : \A y \in U : m >= y
      BY <2>12
    <3>2. m \in T /\ x \in T /\ m \in Nat /\ x \in Nat
      BY <2>7
    <3>3. CASE m >= x
      <4>1. \A y \in T : m >= y
        BY <3>1, <3>3
      <4> QED BY <3>2, <4>1, <2>6
    <3>4. CASE ~ (m >= x)
      <4>1. \A y \in T : x >= y
        BY <3>1, <3>2, <3>4
      <4> QED BY <3>2, <4>1, <2>6
    <3> QED BY <3>3, <3>4
  <2> QED BY <2>10, <2>11, <2>12
<1>2. Max(S) \in S /\ \A y \in S : Max(S) >= y
  BY <1>1 DEF Max
<1> QED BY <1>2

\* The number taken after a load is above every number in the file.
LEMMA RecalcIsFree ==
    ASSUME NEW chs, Numberable(chs)
    PROVE  RecalcNextId(chs) \in Nat \ {0} /\ \A n \in Numbered(DOMAIN chs) : n < RecalcNextId(chs)
<1> DEFINE S == Numbered(DOMAIN chs)
<1>1. S \in SUBSET Nat /\ IsFiniteSet(S)
  BY FS_Subset DEF Numberable, Numbered
<1>2. RecalcNextId(chs) = IF S = {} THEN 1 ELSE Max(S) + 1
  BY DEF RecalcNextId
<1> HIDE DEF S
<1>3. CASE S = {}
  <2>1. RecalcNextId(chs) = 1 /\ S = {}
    BY <1>2, <1>3
  <2> QED BY <2>1 DEF S
<1>4. CASE S # {}
  <2>1. RecalcNextId(chs) = Max(S) + 1
    BY <1>2, <1>4
  <2>2. Max(S) \in Nat /\ \A n \in S : n <= Max(S)
    BY <1>1, <1>4, MaxOfFinite
  <2>3. RecalcNextId(chs) \in Nat \ {0} /\ \A n \in S : n < RecalcNextId(chs)
    BY <1>1, <2>1, <2>2
  <2> QED BY <2>3 DEF S
<1> QED BY <1>3, <1>4

\* Adding a channel, or taking some out, leaves finitely many.
LEMMA NumberableEdits ==
    ASSUME NEW chs, Numberable(chs), NEW n \in Nat, NEW cfg, NEW S
    PROVE  Numberable(With(chs, n, cfg)) /\ Numberable(Without(chs, S))
<1>1. DOMAIN With(chs, n, cfg) = DOMAIN chs \cup {n} /\ DOMAIN Without(chs, S) = DOMAIN chs \ S
  BY DEF With, Without
<1>2. IsFiniteSet(DOMAIN chs \cup {n}) /\ IsFiniteSet(DOMAIN chs \ S)
  BY FS_AddElement, FS_Subset DEF Numberable
<1> QED BY <1>1, <1>2 DEF Numberable

\* However far a Load came, the numbers of a file it read to the end are below
\* the next one.
LEMMA LoadedIsFree ==
    ASSUME NEW file, Numberable(file), NEW r \in LoadedChannels(file)
    PROVE  /\ Numberable(r.channels) /\ r.nextId \in Nat \ {0}
           /\ \A n \in Numbered(DOMAIN r.channels) \ r.unnoted : n < r.nextId
<1> DEFINE bad == {id \in DOMAIN file : file[id] = BadItem}
<1>1. CASE bad = {}
  <2>1. r = [channels |-> file, nextId |-> RecalcNextId(file), unnoted |-> {}]
    BY <1>1 DEF LoadedChannels
  <2>2. r.channels = file /\ r.nextId = RecalcNextId(file)
    BY <2>1
  <2> QED BY <2>2, RecalcIsFree
<1>2. CASE bad # {}
  <2>1. PICK S : r = [channels |-> Without(file, S), nextId |-> 1, unnoted |-> DOMAIN file \ S]
    BY <1>2 DEF LoadedChannels
  <2>2. r.channels = Without(file, S) /\ r.nextId = 1 /\ r.unnoted = DOMAIN file \ S
    BY <2>1
  <2>3. Numberable(r.channels)
    BY <2>2, NumberableEdits
  <2>4. DOMAIN r.channels = r.unnoted
    BY <2>2 DEF Without
  <2> QED BY <2>2, <2>3, <2>4 DEF Numbered
<1> QED BY <1>1, <1>2

\* A save leaves a file that can be loaded again, or one that is no JSON.
LEMMA SavedChannels ==
    ASSUME ChannelTyping, NEW how, SaveToFile(how), Numberable(channels')
    PROVE  cmtime' \in Nat /\ (cfile' \in {NoChannels, NotJson} \/ Numberable(cfile'))
<1>1. CASE cfile' = channels' /\ cmtime' = cmtime + 1
  BY <1>1 DEF ChannelTyping
<1>2. CASE cfile' = NotJson /\ cmtime' = cmtime + 1
  BY <1>2 DEF ChannelTyping
<1>3. CASE cfile' = cfile /\ cmtime' = cmtime
  BY <1>3 DEF ChannelTyping
<1> QED BY <1>1, <1>2, <1>3 DEF SaveToFile

\* The next step of one thread, with something to apply when it is to apply.
LEMMA ContinueTyped ==
    ASSUME ChannelTyping, NEW t \in Workers, NEW pc \in ChannelSteps, NEW call, Continue(t, pc, call),
           pc = "apply" => DOMAIN call # {}
    PROVE  /\ cpc' \in [Workers -> ChannelSteps] /\ DOMAIN ccall' = Workers
           /\ \A u \in Workers : cpc'[u] = "apply" => DOMAIN ccall'[u] # {}
<1>1. cpc' \in [Workers -> ChannelSteps] /\ DOMAIN ccall' = Workers
  BY DEF ChannelTyping, Continue
<1>2. ASSUME NEW u \in Workers, cpc'[u] = "apply"
      PROVE  DOMAIN ccall'[u] # {}
  <2>1. CASE u = t
    <3>1. ccall'[u] = call /\ cpc'[u] = pc
      BY <2>1 DEF ChannelTyping, Continue
    <3> QED BY <3>1, <1>2
  <2>2. CASE u # t
    <3>1. ccall'[u] = ccall[u] /\ cpc'[u] = cpc[u]
      BY <2>2 DEF ChannelTyping, Continue
    <3> QED BY <3>1, <1>2 DEF ChannelTyping
  <2> QED BY <2>1, <2>2
<1> QED BY <1>1, <1>2

\* The handlers' steps in the manager: the bots are left alone, and the next
\* number stays free.
LEMMA ChannelRequests ==
    ASSUME ChannelsOK, NEW t \in Workers, NEW id, NEW cfg, NEW how,
           \/ id \in {NoId} \cup Nat /\ AddChannel(t, id, cfg, how)
           \/ UpdateChannel(t, id, cfg, how) \/ RemoveChannel(t, id, how) \/ LoadChannels(t)
    PROVE  ChannelsOK'
<1>0. /\ ChannelTyping /\ BotMatchesLast /\ NextIdIsFree /\ nextId \in Nat \ {0} /\ Numberable(channels)
      /\ cmtime \in Nat /\ (cfile \in {NoChannels, NotJson} \/ Numberable(cfile))
  BY DEF ChannelsOK, ChannelTyping
<1>1. CASE id \in {NoId} \cup Nat /\ AddChannel(t, id, cfg, how)
  <2> DEFINE n == IF id = NoId THEN nextId ELSE id
  <2>1. channels' = With(channels, n, cfg) /\ nextId' = (IF id = NoId THEN nextId + 1 ELSE nextId)
        /\ unnoted' = (IF id = NoId THEN unnoted \ {n} ELSE unnoted \cup {id})
        /\ SaveToFile(how) /\ UNCHANGED <<bots, last>>
    BY <1>1 DEF AddChannel
  <2>2. /\ n \in Nat
        /\ \/ n = nextId /\ nextId' = nextId + 1 /\ unnoted' = unnoted \ {n}
           \/ nextId' = nextId /\ unnoted' = unnoted \cup {n}
    <3>1. CASE id = NoId
      <4>1. n = nextId /\ nextId' = nextId + 1 /\ unnoted' = unnoted \ {n}
        BY <2>1, <3>1
      <4> QED BY <1>0, <4>1
    <3>2. CASE id # NoId
      <4>1. n = id /\ nextId' = nextId /\ unnoted' = unnoted \cup {n}
        BY <2>1, <3>2
      <4> QED BY <1>1, <3>2, <4>1
    <3> QED BY <3>1, <3>2
  <2>3. Continue(t, "created", With(Nothing, n, cfg))
    BY <1>1 DEF AddChannel
  <2> HIDE DEF n
  <2>4. DOMAIN channels' = DOMAIN channels \cup {n} /\ Numberable(channels')
    BY <1>0, <2>1, <2>2, NumberableEdits DEF With
  <2>5. ChannelTyping'
    BY <1>0, <2>1, <2>2, <2>3, <2>4, SavedChannels, ContinueTyped DEF ChannelTyping, ChannelSteps
  <2>6. NextIdIsFree'
    <3> SUFFICES ASSUME NEW m \in Numbered(DOMAIN channels') \ unnoted' PROVE m < nextId'
      BY DEF NextIdIsFree
    <3>1. m \in Nat /\ m \notin unnoted' /\ (m \in Numbered(DOMAIN channels) \/ m = n)
      BY <2>4 DEF Numbered, Numberable
    <3>2. m \in Numbered(DOMAIN channels) \ unnoted => m < nextId
      BY <1>0 DEF NextIdIsFree
    <3>3. CASE m = n
      BY <1>0, <2>2, <3>1, <3>3
    <3>4. CASE m # n
      <4>1. m \notin unnoted /\ m \in Numbered(DOMAIN channels)
        BY <2>2, <3>1, <3>4
      <4> QED BY <1>0, <2>2, <3>1, <3>2, <4>1
    <3> QED BY <3>3, <3>4
  <2>7. BotMatchesLast'
    BY <1>0, <2>1 DEF BotMatchesLast
  <2> QED BY <2>5, <2>6, <2>7 DEF ChannelsOK
<1>2. CASE UpdateChannel(t, id, cfg, how)
  <2>1. Continue(t, "apply", With(Nothing, id, cfg)) /\ UNCHANGED <<nextId, unnoted, bots, last>>
    BY <1>2 DEF UpdateChannel
  <2>2. DOMAIN With(Nothing, id, cfg) # {}
    BY DEF With
  <2>3. /\ Numberable(channels') /\ DOMAIN channels' = DOMAIN channels
        /\ cmtime' \in Nat /\ (cfile' \in {NoChannels, NotJson} \/ Numberable(cfile'))
    <3>1. CASE id \in DOMAIN channels
      <4>1. channels' = With(channels, id, cfg) /\ SaveToFile(how)
        BY <1>2, <3>1 DEF UpdateChannel
      <4>2. id \in Nat
        BY <1>0, <3>1 DEF Numberable
      <4>3. Numberable(channels') /\ DOMAIN channels' = DOMAIN channels
        BY <1>0, <3>1, <4>1, <4>2, NumberableEdits DEF With
      <4> QED BY <1>0, <4>1, <4>3, SavedChannels
    <3>2. CASE id \notin DOMAIN channels
      BY <1>0, <1>2, <3>2 DEF UpdateChannel
    <3> QED BY <3>1, <3>2
  <2>4. ChannelTyping'
    BY <1>0, <2>1, <2>2, <2>3, ContinueTyped DEF ChannelTyping, ChannelSteps
  <2>5. NextIdIsFree' /\ BotMatchesLast'
    BY <1>0, <2>1, <2>3 DEF NextIdIsFree, BotMatchesLast
  <2> QED BY <2>4, <2>5 DEF ChannelsOK
<1>3. CASE RemoveChannel(t, id, how)
  <2>1. channels' = Without(channels, {id}) /\ SaveToFile(how) /\ UNCHANGED <<nextId, unnoted, bots, last>>
    BY <1>3 DEF RemoveChannel
  <2>2. Continue(t, "remove", With(Nothing, id, NoChannels))
    BY <1>3 DEF RemoveChannel
  <2>3. Numberable(channels') /\ DOMAIN channels' \subseteq DOMAIN channels
    BY <1>0, <2>1, NumberableEdits DEF Without
  <2>4. ChannelTyping'
    BY <1>0, <2>1, <2>2, <2>3, SavedChannels, ContinueTyped DEF ChannelTyping, ChannelSteps
  <2>5. NextIdIsFree' /\ BotMatchesLast'
    BY <1>0, <2>1, <2>3 DEF NextIdIsFree, BotMatchesLast, Numbered
  <2> QED BY <2>4, <2>5 DEF ChannelsOK
<1>4. CASE LoadChannels(t)
  <2>1. Continue(t, "reconcile", Nothing) /\ UNCHANGED <<cfile, cmtime, bots, last>>
    BY <1>4 DEF LoadChannels
  <2>2. Numberable(channels') /\ nextId' \in Nat \ {0} /\ NextIdIsFree'
    <3>1. CASE cfile \in {NoChannels, NotJson}
      <4>1. UNCHANGED <<channels, nextId, unnoted>>
        BY <1>4, <3>1 DEF LoadChannels
      <4> QED BY <1>0, <4>1 DEF NextIdIsFree
    <3>2. CASE cfile \notin {NoChannels, NotJson}
      <4>1. PICK r \in LoadedChannels(cfile) :
              channels' = r.channels /\ nextId' = r.nextId /\ unnoted' = r.unnoted
        BY <1>4, <3>2 DEF LoadChannels
      <4>2. Numberable(cfile)
        BY <1>0, <3>2
      <4> QED BY <4>1, <4>2, LoadedIsFree DEF NextIdIsFree
    <3> QED BY <3>1, <3>2
  <2>3. ChannelTyping'
    BY <1>0, <2>1, <2>2, ContinueTyped DEF ChannelTyping, ChannelSteps
  <2>4. BotMatchesLast'
    BY <1>0, <2>1 DEF BotMatchesLast
  <2> QED BY <2>2, <2>3, <2>4 DEF ChannelsOK
<1> QED BY <1>1, <1>2, <1>3, <1>4

\* Applying one channel: a bot that is left running was started with the same
\* type and parameters, and another is stopped first.
LEMMA ApplyKeepsBots ==
    ASSUME BotMatchesLast, NEW id, NEW cfg, ApplyTo(id, cfg)
    PROVE  BotMatchesLast'
<1> DEFINE changed == id \in DOMAIN last /\ (last[id].type # cfg.type \/ last[id].params # cfg.params)
           left == IF id \in DOMAIN bots /\ (~cfg.enabled \/ changed) THEN StopBots(bots, {id}) ELSE bots
           start == cfg.enabled /\ id \notin DOMAIN left /\ cfg.type = "feishu" /\ cfg.params # "none"
<1>1. bots' = IF start THEN With(left, id, cfg.params) ELSE left
  BY DEF ApplyTo, StartFeishuLocked, StartBot
<1>2. last' = With(last, id, cfg)
  BY DEF ApplyTo
<1>3. DOMAIN left \subseteq DOMAIN bots /\ \A i \in DOMAIN left : left[i] = bots[i]
  BY DEF StopBots, Without
<1>4. id \in DOMAIN left => cfg.enabled /\ ~changed
  BY DEF StopBots, Without
<1>5. SUFFICES ASSUME NEW i \in DOMAIN bots'
               PROVE  /\ i \in DOMAIN last'
                      /\ last'[i].enabled /\ last'[i].type = "feishu" /\ last'[i].params = bots'[i]
  BY DEF BotMatchesLast
<1>6. CASE i # id
  <2>1. i \in DOMAIN bots /\ bots'[i] = bots[i]
    <3> HIDE DEF left, start
    <3> QED BY <1>1, <1>3, <1>5, <1>6 DEF With
  <2>2. i \in DOMAIN last /\ last'[i] = last[i] /\ i \in DOMAIN last'
    BY <1>2, <1>6, <2>1 DEF With, BotMatchesLast
  <2> QED BY <2>1, <2>2 DEF BotMatchesLast
<1>7. CASE i = id
  <2>1. id \in DOMAIN last' /\ last'[id] = cfg
    BY <1>2 DEF With
  <2>2. CASE start
    <3>1. bots'[id] = cfg.params
      <4> HIDE DEF left
      <4> QED BY <1>1, <2>2 DEF With
    <3> QED BY <1>7, <2>1, <2>2, <3>1
  <2>3. CASE ~start
    <3>1. bots' = left
      <4> HIDE DEF left, start
      <4> QED BY <1>1, <2>3
    <3>2. id \in DOMAIN left
      BY <1>5, <1>7, <3>1
    <3>3. id \in DOMAIN bots /\ bots'[id] = bots[id] /\ cfg.enabled /\ ~changed
      <4> HIDE DEF left, changed
      <4> QED BY <1>3, <1>4, <3>1, <3>2
    <3>4. id \in DOMAIN last /\ last[id].type = "feishu" /\ last[id].params = bots[id]
      BY <3>3 DEF BotMatchesLast
    <3>5. cfg.type = "feishu" /\ cfg.params = bots[id]
      BY <3>3, <3>4
    <3> QED BY <1>7, <2>1, <3>3, <3>5
  <2> QED BY <2>2, <2>3
<1> QED BY <1>6, <1>7

\* Stopping bots forgets what was last seen of them.
LEMMA StopKeepsBots ==
    ASSUME BotMatchesLast, NEW S, StopLocked(S)
    PROVE  BotMatchesLast'
<1>1. /\ DOMAIN bots' = DOMAIN bots \ S /\ \A i \in DOMAIN bots' : bots'[i] = bots[i]
      /\ DOMAIN last' = DOMAIN last \ S /\ \A i \in DOMAIN last' : last'[i] = last[i]
  BY DEF StopLocked, StopBots, Without
<1> SUFFICES ASSUME NEW i \in DOMAIN bots'
             PROVE  /\ i \in DOMAIN last'
                    /\ last'[i].enabled /\ last'[i].type = "feishu" /\ last'[i].params = bots'[i]
  BY DEF BotMatchesLast
<1>2. i \in DOMAIN bots /\ i \notin S /\ i \in DOMAIN last
  BY <1>1 DEF BotMatchesLast
<1>3. i \in DOMAIN last' /\ last'[i] = last[i] /\ bots'[i] = bots[i]
  BY <1>1, <1>2
<1> QED BY <1>2, <1>3 DEF BotMatchesLast

\* The steps in the service, with a copy of what the manager held earlier.
LEMMA ChannelLaterSteps ==
    ASSUME ChannelsOK, NEW t \in Workers,
           \/ FindCreated(t) \/ RemoveFromService(t) \/ GetAllChannels(t) \/ StopMissing(t) \/ Apply(t)
    PROVE  ChannelsOK'
<1>0. ChannelTyping /\ BotMatchesLast /\ NextIdIsFree
  BY DEF ChannelsOK
<1>1. UNCHANGED <<cfile, cmtime, channels, nextId, unnoted>>
  BY DEF FindCreated, RemoveFromService, GetAllChannels, StopMissing, Apply
<1>2. NextIdIsFree'
  BY <1>0, <1>1 DEF NextIdIsFree
<1>3. BotMatchesLast'
  <2>1. CASE UNCHANGED <<bots, last>>
    BY <1>0, <2>1 DEF BotMatchesLast
  <2>2. CASE \E S : StopLocked(S)
    BY <1>0, <2>2, StopKeepsBots
  <2>3. CASE \E id, cfg : ApplyTo(id, cfg)
    BY <1>0, <2>3, ApplyKeepsBots
  <2>4. CASE FindCreated(t) \/ GetAllChannels(t)
    BY <2>1, <2>4 DEF FindCreated, GetAllChannels
  <2>5. CASE RemoveFromService(t) \/ StopMissing(t)
    BY <2>2, <2>5 DEF RemoveFromService, StopMissing
  <2>6. CASE Apply(t)
    BY <2>3, <2>6 DEF Apply
  <2> QED BY <2>4, <2>5, <2>6
<1>4. \E pc \in ChannelSteps : \E call : Continue(t, pc, call) /\ (pc = "apply" => DOMAIN call # {})
  <2>1. CASE FindCreated(t)
    <3>1. CASE Continue(t, "idle", Nothing)
      BY <3>1 DEF ChannelSteps
    <3>2. CASE \E n : Continue(t, "apply", With(Nothing, n, channels[n]))
      <4>1. PICK n : Continue(t, "apply", With(Nothing, n, channels[n]))
        BY <3>2
      <4>2. DOMAIN With(Nothing, n, channels[n]) # {}
        BY DEF With
      <4> QED BY <4>1, <4>2 DEF ChannelSteps
    <3> QED BY <2>1, <3>1, <3>2 DEF FindCreated
  <2>2. CASE RemoveFromService(t)
    BY <2>2 DEF RemoveFromService, ChannelSteps
  <2>3. CASE GetAllChannels(t)
    BY <2>3 DEF GetAllChannels, ChannelSteps
  <2>4. CASE StopMissing(t)
    BY <2>4 DEF StopMissing, ChannelSteps
  <2>5. CASE Apply(t)
    <3>1. PICK id : Continue(t, IF DOMAIN Without(ccall[t], {id}) = {} THEN "idle" ELSE "apply",
                             Without(ccall[t], {id}))
      BY <2>5 DEF Apply
    <3> QED BY <3>1 DEF ChannelSteps
  <2> QED BY <2>1, <2>2, <2>3, <2>4, <2>5
<1>5. ChannelTyping'
  BY <1>0, <1>1, <1>4, ContinueTyped DEF ChannelTyping
<1> QED BY <1>2, <1>3, <1>5 DEF ChannelsOK

\* Stopping every bot, an operator's edit, and steps that touch none of this.
LEMMA ChannelsFromOutside ==
    ASSUME ChannelsOK,
           \/ StopAll \/ UNCHANGED channelVars
           \/ \E text : EditChannels(text) /\ (text \in {NoChannels, NotJson} \/ Numberable(text))
    PROVE  ChannelsOK'
<1>0. ChannelTyping /\ BotMatchesLast /\ NextIdIsFree
  BY DEF ChannelsOK
<1>1. CASE StopAll
  <2>1. UNCHANGED <<cfile, cmtime, channels, nextId, unnoted, cpc, ccall>> /\ DOMAIN bots' = {}
    BY <1>1 DEF StopAll, Nothing
  <2> QED BY <1>0, <2>1 DEF ChannelsOK, ChannelTyping, BotMatchesLast, NextIdIsFree
<1>2. CASE UNCHANGED channelVars
  BY <1>0, <1>2 DEF ChannelsOK, ChannelTyping, BotMatchesLast, NextIdIsFree, channelVars
<1>3. CASE \E text : EditChannels(text) /\ (text \in {NoChannels, NotJson} \/ Numberable(text))
  <2>1. UNCHANGED <<channels, nextId, unnoted, bots, last, cpc, ccall>> /\ cmtime' = cmtime + 1
        /\ (cfile' \in {NoChannels, NotJson} \/ Numberable(cfile'))
    BY <1>3 DEF EditChannels
  <2> QED BY <1>0, <2>1 DEF ChannelsOK, ChannelTyping, BotMatchesLast, NextIdIsFree
<1> QED BY <1>1, <1>2, <1>3

-----------------------------------------------------------------------------
(* The program.                                                            *)

\* main leaves the stores in order before it starts the threads.
LEMMA InitIInv == Init => IInv
<1> SUFFICES ASSUME Init PROVE IInv
  OBVIOUS
<1>1. PICK files \in BootFiles : BootAgents(files[1]) /\ BootChannels(files[2])
  BY DEF Init
<1>2. AgentsOK
  <2>1. EffectiveIsMerged
    <3>1. current = Effective(overrides)
      BY <1>1 DEF BootAgents
    <3> QED BY <3>1 DEF EffectiveIsMerged
  <2>2. MainId \in DOMAIN current /\ live = [id |-> MainId, cfg |-> current[MainId]]
    BY <1>1, AgentConfigsAssumption DEF BootAgents, Effective
  <2>3. DOMAIN live.cfg = DOMAIN Blank
    BY <2>1, <2>2, CurrentDomains
  <2>4. apc \in [Threads -> AgentSteps] /\ DOMAIN acall = Threads /\ amtime \in Nat
        /\ \A t \in Threads : apc[t] = "idle"
    BY <1>1 DEF BootAgents, AgentSteps
  <2> QED BY <2>1, <2>3, <2>4 DEF AgentsOK, AgentTyping
<1>3. ChannelsOK
  <2> DEFINE file == files[2]
             chs == IF file \in {NoChannels, NotJson} THEN Nothing ELSE file
  <2>1. file \in {NoChannels, NotJson} \/ Numberable(file)
    BY AppAssumption DEF Numberable
  <2>2. Numberable(Nothing)
    BY FS_EmptySet DEF Numberable, Nothing
  <2>3. Numberable(chs)
    BY <2>1, <2>2
  <2>4. cfile = file /\ cmtime = 0
        /\ \E r \in LoadedChannels(chs) : channels = r.channels /\ nextId = r.nextId /\ unnoted = r.unnoted
    BY <1>1 DEF BootChannels
  <2>5. cpc = [t \in Workers |-> "idle"] /\ ccall = [t \in Workers |-> Nothing]
    BY <1>1 DEF BootChannels
  <2>6. /\ last = channels
        /\ bots = [id \in {i \in DOMAIN channels : /\ channels[i].enabled /\ channels[i].type = "feishu"
                                                   /\ channels[i].params # "none"} |-> channels[id].params]
    BY <1>1 DEF BootChannels
  <2> HIDE DEF chs, file
  <2>10. PICK r \in LoadedChannels(chs) : channels = r.channels /\ nextId = r.nextId /\ unnoted = r.unnoted
    BY <2>4
  <2>7. ChannelTyping
    <3>1. Numberable(channels) /\ nextId \in Nat \ {0}
      BY <2>3, <2>10, LoadedIsFree
    <3> QED BY <2>1, <2>4, <2>5, <3>1 DEF ChannelTyping, ChannelSteps
  <2>8. NextIdIsFree
    BY <2>3, <2>10, LoadedIsFree DEF NextIdIsFree
  <2>9. BotMatchesLast
    BY <2>6 DEF BotMatchesLast
  <2> QED BY <2>7, <2>8, <2>9 DEF ChannelsOK
<1>4. RestTyping
  <2>1. amtime \in Nat /\ cmtime \in Nat
    BY <1>2, <1>3 DEF AgentsOK, AgentTyping, ChannelsOK, ChannelTyping
  <2> QED BY <2>1 DEF Init, RestTyping
<1> QED BY <1>2, <1>3, <1>4 DEF IInv

\* Who serves, reloads or watches is one of the threads.
LEMMA ThreadsAre ==
    Handlers \subseteq Threads /\ Cli \in Threads /\ Watcher \in Threads /\ Threads = Workers
    /\ FreeHandler \subseteq Handlers
<1>1. FreeHandler \subseteq Handlers
  <2> DEFINE free == {t \in Handlers : ThreadIdle(t)}
  <2>1. CASE free = {}
    BY <2>1 DEF FreeHandler
  <2>2. CASE free # {}
    <3>1. (CHOOSE t \in free : TRUE) \in free
      BY <2>2
    <3> QED BY <2>2, <3>1 DEF FreeHandler
  <2> QED BY <2>1, <2>2
<1> QED BY <1>1, AppAssumption

\* A step that leaves the watcher, main and the editor alone.
LEMMA RestUnchanged ==
    ASSUME RestTyping, UNCHANGED <<watchVars, editing, mpc>>
    PROVE  RestTyping'
BY DEF RestTyping, watchVars

\* Requests and the command line.
LEMMA RequestStep ==
    ASSUME IInv, (\E t \in FreeHandler : AgentRequest(t) \/ ChannelRequest(t)) \/ CliReload
    PROVE  IInv'
<1>0. AgentsOK /\ ChannelsOK /\ RestTyping /\ "saved" \in Outcomes
  BY DEF IInv, Outcomes
<1>1. ASSUME NEW t \in FreeHandler, AgentRequest(t) PROVE IInv'
  <2>1. t \in Threads
    BY ThreadsAre
  <2>2. UNCHANGED channelVars /\ \E how : Request(t, how)
    BY <1>1 DEF AgentRequest
  <2>3. \E id, json : \E how \in Outcomes :
          PutAgent(t, id, json) \/ DeleteAgent(t, id, how) \/ ReloadAgents(t) \/ DeleteMcpServer(t)
    BY <1>0, <1>1 DEF AgentRequest
  <2>4. AgentsOK'
    BY <1>0, <2>1, <2>3, AgentRequests
  <2>5. ChannelsOK' /\ RestTyping'
    BY <1>0, <2>2, ChannelsFromOutside, RestUnchanged DEF Request, Begin
  <2> QED BY <2>4, <2>5 DEF IInv
<1>2. ASSUME NEW t \in FreeHandler, ChannelRequest(t) PROVE IInv'
  <2>1. t \in Workers
    BY ThreadsAre
  <2>2. UNCHANGED agentVars /\ \E how : Request(t, how)
    BY <1>2 DEF ChannelRequest
  <2>3. \E id, cfg, how :
          \/ id \in {NoId} \cup Nat /\ AddChannel(t, id, cfg, how)
          \/ UpdateChannel(t, id, cfg, how) \/ RemoveChannel(t, id, how) \/ LoadChannels(t)
    BY <1>2, AppAssumption DEF ChannelRequest
  <2>4. ChannelsOK'
    BY <1>0, <2>1, <2>3, ChannelRequests
  <2>5. AgentsOK' /\ RestTyping'
    BY <1>0, <2>2, AgentsUnchanged, RestUnchanged DEF Request, Begin
  <2> QED BY <2>4, <2>5 DEF IInv
<1>3. ASSUME CliReload PROVE IInv'
  <2>1. RestTyping'
    <3>1. UNCHANGED <<watchVars, editing>> /\ mpc' \in {mpc, "dead"}
      BY <1>3 DEF CliReload, Begin
    <3> QED BY <1>0, <3>1 DEF RestTyping, watchVars
  <2>2. CASE \E id \in AgentIds : ReloadAgent(Cli, id) /\ UNCHANGED channelVars
    BY <1>0, <2>1, <2>2, ThreadsAre, AgentRequests, ChannelsFromOutside DEF IInv
  <2>3. CASE LoadChannels(Cli) /\ UNCHANGED agentVars
    BY <1>0, <2>1, <2>3, ThreadsAre, ChannelRequests, AgentsUnchanged DEF IInv
  <2> QED BY <1>3, <2>2, <2>3 DEF CliReload
<1> QED BY <1>1, <1>2, <1>3

\* Steps of threads that are at work.
LEMMA ThreadStep ==
    ASSUME IInv, NEW t \in Threads, AgentStep(t) \/ ChannelStep(t)
    PROVE  IInv'
<1>0. AgentsOK /\ ChannelsOK /\ RestTyping /\ t \in Workers /\ "saved" \in Outcomes
  BY ThreadsAre DEF IInv, Outcomes
<1>1. CASE AgentStep(t)
  <2>1. UNCHANGED <<channelVars, watchVars, editing, mpc>>
    BY <1>1 DEF AgentStep, appVars
  <2>2. \E how \in Outcomes : PutStores(t, how) \/ Cascade(t, how) \/ GetAgent(t) \/ Install(t)
    BY <1>0, <1>1 DEF AgentStep
  <2>3. AgentsOK'
    BY <1>0, <2>2, AgentLaterSteps
  <2> QED BY <1>0, <2>1, <2>3, ChannelsFromOutside, RestUnchanged DEF IInv
<1>2. CASE ChannelStep(t)
  <2>1. UNCHANGED <<agentVars, watchVars, editing, mpc>>
    BY <1>2 DEF ChannelStep, appVars
  <2>2. FindCreated(t) \/ RemoveFromService(t) \/ GetAllChannels(t) \/ StopMissing(t) \/ Apply(t)
    BY <1>2 DEF ChannelStep
  <2>3. ChannelsOK'
    BY <1>0, <2>2, ChannelLaterSteps
  <2> QED BY <1>0, <2>1, <2>3, AgentsUnchanged, RestUnchanged DEF IInv
<1> QED BY <1>1, <1>2

\* The watcher's round.
LEMMA WatchStep ==
    ASSUME IInv, Watch
    PROVE  IInv'
<1>0. AgentsOK /\ ChannelsOK /\ RestTyping /\ Watcher \in Threads /\ Watcher \in Workers
      /\ amtime \in Nat /\ cmtime \in Nat /\ "saved" \in Outcomes
  BY ThreadsAre DEF IInv, AgentsOK, AgentTyping, ChannelsOK, ChannelTyping, Outcomes
<1>1. CASE WatchAgents
  <2>1. AgentsOK'
    <3>1. ReloadAgent(Watcher, live.id) \/ UNCHANGED agentVars
      BY <1>1 DEF WatchAgents
    <3> QED BY <1>0, <3>1, AgentRequests, AgentsUnchanged
  <2>2. ChannelsOK'
    BY <1>0, <1>1, ChannelsFromOutside DEF WatchAgents
  <2>3. RestTyping'
    BY <1>0, <1>1 DEF WatchAgents, RestTyping
  <2> QED BY <2>1, <2>2, <2>3 DEF IInv
<1>2. CASE WatchChannels
  <2>1. ChannelsOK'
    <3>1. LoadChannels(Watcher) \/ UNCHANGED channelVars
      BY <1>2 DEF WatchChannels
    <3> QED BY <1>0, <3>1, ChannelRequests, ChannelsFromOutside
  <2>2. AgentsOK'
    BY <1>0, <1>2, AgentsUnchanged DEF WatchChannels
  <2>3. RestTyping'
    BY <1>0, <1>2 DEF WatchChannels, RestTyping
  <2> QED BY <2>1, <2>2, <2>3 DEF IInv
<1>3. CASE Wait \/ Timeout
  <2>1. UNCHANGED <<agentVars, channelVars>>
    BY <1>3 DEF Wait, Timeout
  <2>2. RestTyping'
    BY <1>0, <1>3 DEF Wait, Timeout, LoopTop, RestTyping
  <2> QED BY <1>0, <2>1, <2>2, AgentsUnchanged, ChannelsFromOutside DEF IInv
<1> QED BY <1>1, <1>2, <1>3 DEF Watch

\* The operator's editor and the end of main.
LEMMA OutsideStep ==
    ASSUME IInv, \/ \E f \in {"agents", "channels"} : OpenInEditor(f) \/ SaveInEditor(f)
                 \/ StopWatcher \/ Stopping
    PROVE  IInv'
<1>0. AgentsOK /\ ChannelsOK /\ RestTyping
  BY DEF IInv
<1>1. ASSUME NEW f \in {"agents", "channels"}, OpenInEditor(f) PROVE IInv'
  <2>1. RestTyping'
    BY <1>0, <1>1 DEF OpenInEditor, RestTyping, watchVars
  <2>2. CASE EditAgents(Garbled) /\ UNCHANGED channelVars
    BY <1>0, <2>1, <2>2, AgentEdits, ChannelsFromOutside DEF IInv
  <2>3. CASE EditChannels(NotJson) /\ UNCHANGED agentVars
    BY <1>0, <2>1, <2>3, AgentsUnchanged, ChannelsFromOutside DEF IInv
  <2> QED BY <1>1, <2>2, <2>3 DEF OpenInEditor
<1>2. ASSUME NEW f \in {"agents", "channels"}, SaveInEditor(f) PROVE IInv'
  <2>1. RestTyping'
    BY <1>0, <1>2 DEF SaveInEditor, RestTyping, watchVars
  <2>2. CASE UNCHANGED channelVars /\ \E text \in AgentFiles : EditAgents(text)
    BY <1>0, <2>1, <2>2, AgentEdits, ChannelsFromOutside DEF IInv
  <2>3. CASE UNCHANGED agentVars /\ \E text \in ChannelFiles : EditChannels(text)
    <3>1. PICK text \in ChannelFiles : EditChannels(text)
      BY <2>3
    <3>2. text \in {NoChannels, NotJson} \/ Numberable(text)
      BY AppAssumption DEF Numberable
    <3>3. ChannelsOK'
      BY <1>0, <3>1, <3>2, ChannelsFromOutside
    <3> QED BY <1>0, <2>1, <2>3, <3>3, AgentsUnchanged DEF IInv
  <2> QED BY <1>2, <2>2, <2>3 DEF SaveInEditor
<1>3. CASE StopWatcher \/ Stopping
  <2>1. UNCHANGED agentVars /\ (StopAll \/ UNCHANGED channelVars)
    BY <1>3 DEF StopWatcher, Stopping, NotifyWatcher, JoinWatcher, StopHttp, JoinHttp
  <2>2. RestTyping'
    BY <1>0, <1>3 DEF StopWatcher, Stopping, NotifyWatcher, JoinWatcher, StopHttp, JoinHttp, MainStep,
                      RestTyping, watchVars
  <2> QED BY <1>0, <2>1, <2>2, AgentsUnchanged, ChannelsFromOutside DEF IInv
<1> QED BY <1>1, <1>2, <1>3

\* Every step of the program keeps the stores in order.
LEMMA NextIInv == IInv /\ [Next]_vars => IInv'
<1> SUFFICES ASSUME IInv, [Next]_vars PROVE IInv'
  OBVIOUS
<1>1. CASE (\E t \in FreeHandler : AgentRequest(t) \/ ChannelRequest(t)) \/ CliReload
  BY <1>1, RequestStep
<1>2. CASE \E t \in Threads : AgentStep(t) \/ ChannelStep(t)
  BY <1>2, ThreadStep
<1>3. CASE Watch
  BY <1>3, WatchStep
<1>4. CASE \/ \E f \in {"agents", "channels"} : OpenInEditor(f) \/ SaveInEditor(f)
           \/ StopWatcher \/ Stopping
  BY <1>4, OutsideStep
<1>5. CASE UNCHANGED vars
  <2>1. UNCHANGED <<agentVars, channelVars, watchVars, editing, mpc>>
    BY <1>5 DEF vars, appVars
  <2> QED BY <2>1, AgentsUnchanged, ChannelsFromOutside, RestUnchanged DEF IInv
<1> QED BY <1>1, <1>2, <1>3, <1>4, <1>5 DEF Next, Progress

\* The inductive invariant holds throughout.
THEOREM Invariant == Spec => []IInv
BY InitIInv, NextIInv, PTL DEF Spec

\* Threads, watcher and main stay at steps they have, what runs is a whole
\* configuration, and a thread that applies channels has one left to apply.
THEOREM TypeCorrect == Spec => []TypeOK
<1>1. IInv => TypeOK
  BY DEF IInv, AgentsOK, AgentTyping, ChannelsOK, ChannelTyping, RestTyping, TypeOK, AgentSteps, ChannelSteps
<1> QED BY <1>1, Invariant, PTL

\* In whatever order requests, reloads, edits, failed saves and the shutdown
\* come, what the store of the Agents serves of an id is the default overlaid
\* with its override, and it serves every id unless its last Load threw; every
\* bot runs with what its service saw last of an enabled feishu channel; and the
\* number of the next channel is none the manager gave out or found in a file
\* it read to the end.
THEOREM StoresStayConsistent == Spec => []StoresConsistent
<1>1. IInv => StoresConsistent
  BY DEF IInv, AgentsOK, ChannelsOK, StoresConsistent
<1> QED BY <1>1, Invariant, PTL

=============================================================================
