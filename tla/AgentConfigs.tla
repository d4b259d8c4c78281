------------------------------ MODULE AgentConfigs ------------------------------
(***************************************************************************)
(* AgentConfigStore, the handlers of /api/agents and the reload helper of  *)
(* jiuwenClaw: code defaults and the overrides of agents.json merged into  *)
(* effective configurations, one of which the SessionManager runs with.    *)
(* The store locks each of its operations and no sequence of them, so a    *)
(* handler that reads, stores and reloads interleaves with the others.     *)
(*                                                                         *)
(* A configuration gives each field a value; an override gives some of     *)
(* them. "mcp" is "on" while the Agent lists the one MCP server there is.  *)
(***************************************************************************)
EXTENDS Integers, FiniteSets

CONSTANTS
  Threads,          \* HTTP handlers, the CLI and the watcher thread
  AgentIds,
  Default,          \* code defaults, by id
  Blank,            \* AgentConfig{}
  BadModels,        \* models no Agent can be built with
  MainId,           \* the id the program boots with
  NoFile, Garbled,  \* agents.json is missing, or is not JSON
  IllTyped          \* a value of another JSON type, of a field or of an id

ASSUME AgentConfigsAssumption ==
  /\ MainId \in DOMAIN Default /\ DOMAIN Default \subseteq AgentIds
  /\ \A id \in DOMAIN Default : DOMAIN Default[id] = DOMAIN Blank
  /\ {"model", "mcp"} \subseteq DOMAIN Blank /\ IllTyped \notin AgentIds

VARIABLES
  afile, amtime,    \* agents.json and the number of times it was written
  overrides, current,
  half,             \* history: the last Load threw on its way
  live,             \* [id, cfg]: what SessionManager was last given
  overtaken,        \* history: cfg was not what the store held for id then
  apc, acall        \* per thread: the next step, and what it holds

agentVars == <<afile, amtime, overrides, current, half, live, overtaken, apc, acall>>

NoEntries == [x \in {} |-> Blank]
Idle == [id |-> MainId, cfg |-> Blank, todo |-> NoEntries]

(* A field the JSON has replaces the field of the configuration, in every  *)
(* section alike.                                                          *)
MergeField(json, cfg, f) == IF f \in DOMAIN json THEN json[f] ELSE cfg[f]

MergeAgentConfigFromJson(json, cfg) == [f \in DOMAIN cfg |-> MergeField(json, cfg, f)]

Base(id) == IF id \in DOMAIN Default THEN Default[id] ELSE Blank

Effective(o) ==
  [id \in DOMAIN Default \cup DOMAIN o |->
     IF id \in DOMAIN o THEN MergeAgentConfigFromJson(o[id], Base(id)) ELSE Base(id)]

Put(fn, x, v) == [y \in DOMAIN fn \cup {x} |-> IF y = x THEN v ELSE fn[y]]
Drop(fn, x) == [y \in DOMAIN fn \ {x} |-> fn[y]]
Only(fn, S) == [y \in S |-> fn[y]]

ReadFileLocked == IF afile \in {NoFile, Garbled} THEN NoEntries ELSE afile

(* A temporary file takes the old one's place. An exception on the way is  *)
(* logged and dropped; that the text did not fit on the disk is not        *)
(* noticed.                                                                *)
SaveLocked(how) ==
  \/ how = "saved" /\ afile' = overrides' /\ amtime' = amtime + 1
  \/ how = "truncated" /\ afile' = Garbled /\ amtime' = amtime + 1
  \/ how = "thrown" /\ UNCHANGED <<afile, amtime>>

-----------------------------------------------------------------------------
(* Store operations, each under the store's mutex.                         *)

(* What the store may hold after the entries of a file were read. An id of *)
(* another type throws while the overrides are taken over, after some of   *)
(* them; a field of another type while they are merged, the defaults'      *)
(* before the others, in an order that is the hash table's.                *)
Loaded(file) ==
  LET illTyped == {id \in DOMAIN file : \E f \in DOMAIN file[id] : file[id][f] = IllTyped}
      merged == Effective(file)
      reached == {S \in SUBSET (DOMAIN merged \ illTyped) :
                    IF illTyped \cap DOMAIN Default = {} THEN DOMAIN Default \subseteq S
                    ELSE S \subseteq DOMAIN Default}
  IN  CASE IllTyped \in DOMAIN file ->
             {[overrides |-> Only(file, S), current |-> NoEntries, half |-> TRUE] :
                S \in SUBSET (DOMAIN file \ {IllTyped})}
        [] IllTyped \notin DOMAIN file /\ illTyped = {} ->
             {[overrides |-> file, current |-> merged, half |-> FALSE]}
        [] OTHER ->
             {[overrides |-> file, current |-> Only(merged, S), half |-> TRUE] : S \in reached}

(* What was in memory is given up before the file is read.                 *)
Load ==
  /\ \E r \in Loaded(ReadFileLocked) :
       overrides' = r.overrides /\ current' = r.current /\ half' = r.half
  /\ UNCHANGED <<afile, amtime>>

(* The override is replaced, not merged; only this id is recomputed.       *)
UpsertOverride(id, json, how) ==
  /\ overrides' = Put(overrides, id, json)
  /\ current' = Put(current, id, MergeAgentConfigFromJson(json, Base(id)))
  /\ SaveLocked(how) /\ UNCHANGED half

Remove(id, how) ==
  /\ overrides' = Drop(overrides, id)
  /\ current' = IF id \in DOMAIN Default THEN Put(current, id, Default[id]) ELSE Drop(current, id)
  /\ SaveLocked(how) /\ UNCHANGED half

-----------------------------------------------------------------------------
Goto(t, pc, call) == apc' = [apc EXCEPT ![t] = pc] /\ acall' = [acall EXCEPT ![t] = call]

(* PUT: the configuration to install is taken from the store first. A body *)
(* with a field of another type throws here, before anything is stored.    *)
PutAgent(t, id, json) ==
  /\ apc[t] = "idle"
  /\ Goto(t, "upsert",
          [id |-> id, todo |-> json,
           cfg |-> MergeAgentConfigFromJson(json, IF id \in DOMAIN current THEN current[id] ELSE Blank)])
  /\ UNCHANGED <<afile, amtime, overrides, current, half, live, overtaken>>

PutStores(t, how) ==
  LET call == acall[t]
  IN  /\ apc[t] = "upsert"
      /\ UpsertOverride(call.id, call.todo, how)
      /\ IF live.id = call.id THEN Goto(t, "install", [call EXCEPT !.todo = NoEntries]) ELSE Goto(t, "idle", Idle)
      /\ UNCHANGED <<live, overtaken>>

DeleteAgent(t, id, how) ==
  /\ apc[t] = "idle"
  /\ Remove(id, how)
  /\ IF live.id = id THEN Goto(t, "get", [Idle EXCEPT !.id = id]) ELSE Goto(t, "idle", Idle)
  /\ UNCHANGED <<live, overtaken>>

(* POST reload: what Load returned is installed; when it threw the request *)
(* fails.                                                                  *)
ReloadAgents(t) ==
  /\ apc[t] = "idle"
  /\ Load
  /\ IF ~half' /\ live.id \in DOMAIN current'
     THEN Goto(t, "install", [Idle EXCEPT !.id = live.id, !.cfg = current'[live.id]])
     ELSE Goto(t, "idle", Idle)
  /\ UNCHANGED <<live, overtaken>>

(* ReloadAgent of main.cpp, for the CLI and the watcher: what the store    *)
(* holds a moment after Load; an exception of Load is its caller's.        *)
ReloadAgent(t, id) ==
  /\ apc[t] = "idle"
  /\ Load
  /\ IF half' THEN Goto(t, "idle", Idle) ELSE Goto(t, "get", [Idle EXCEPT !.id = id])
  /\ UNCHANGED <<live, overtaken>>

GetAgent(t) ==
  /\ apc[t] = "get"
  /\ LET id == acall[t].id
     IN  IF id \in DOMAIN current THEN Goto(t, "install", [Idle EXCEPT !.id = id, !.cfg = current[id]])
         ELSE Goto(t, "idle", Idle)
  /\ UNCHANGED <<afile, amtime, overrides, current, half, live, overtaken>>

(* SessionManager::ReloadAgent; when the new Agent cannot be built the     *)
(* running one stays, and so does what was stored.                         *)
Install(t) ==
  LET call == acall[t]
  IN  /\ apc[t] = "install"
      /\ IF call.cfg["model"] \in BadModels
         THEN UNCHANGED <<live, overtaken>>
         ELSE /\ live' = [id |-> call.id, cfg |-> call.cfg]
              /\ overtaken' = (call.id \notin DOMAIN current \/ call.cfg # current[call.id])
      /\ Goto(t, "idle", Idle)
      /\ UNCHANGED <<afile, amtime, overrides, current, half>>

(* DELETE of an MCP server takes it out of every Agent that lists it, from *)
(* one reading of the store; of the override only model and servers stay.  *)
DeleteMcpServer(t) ==
  /\ apc[t] = "idle"
  /\ LET users == {id \in DOMAIN current : current[id]["mcp"] = "on"}
     IN  Goto(t, IF users = {} THEN "idle" ELSE "cascade",
              IF users = {} THEN Idle ELSE [Idle EXCEPT !.todo = [id \in users |-> current[id]["model"]]])
  /\ UNCHANGED <<afile, amtime, overrides, current, half, live, overtaken>>

Cascade(t, how) ==
  /\ apc[t] = "cascade"
  /\ \E id \in DOMAIN acall[t].todo :
       /\ UpsertOverride(id, [model |-> acall[t].todo[id], mcp |-> "off"], how)
       /\ LET rest == Drop(acall[t].todo, id)
          IN  IF DOMAIN rest = {} THEN Goto(t, "idle", Idle) ELSE Goto(t, "cascade", [Idle EXCEPT !.todo = rest])
  /\ UNCHANGED <<live, overtaken>>

(* An operator's editor empties agents.json and writes it again.           *)
EditAgents(contents) ==
  /\ afile' = contents /\ amtime' = amtime + 1
  /\ UNCHANGED <<overrides, current, half, live, overtaken, apc, acall>>

(* Boot: the store is loaded and its entry for the main id run with. When  *)
(* Load throws, main ends.                                                 *)
BootAgents(file) ==
  /\ afile = file /\ amtime = 0
  /\ overrides = ReadFileLocked /\ current = Effective(ReadFileLocked) /\ half = FALSE
  /\ live = [id |-> MainId, cfg |-> current[MainId]] /\ overtaken = FALSE
  /\ apc = [t \in Threads |-> "idle"] /\ acall = [t \in Threads |-> Idle]

-----------------------------------------------------------------------------
(* What the store serves of an id is the default overlaid with what it     *)
(* holds as an override, and nothing of earlier configurations, though only*)
(* Load computes all ids and the others the one they touch; unless the last*)
(* Load threw, it serves every id that has either.                         *)
EffectiveIsMerged ==
  LET merged == Effective(overrides)
  IN  /\ \A id \in DOMAIN current : id \in DOMAIN merged /\ current[id] = merged[id]
      /\ half \/ DOMAIN current = DOMAIN merged

=============================================================================
