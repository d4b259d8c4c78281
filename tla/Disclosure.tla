------------------------------- MODULE Disclosure -------------------------------
(***************************************************************************)
(* Progressive disclosure of tools and skills: the mode an Agent resolves, *)
(* the per-session TurnState that ReactAgentWorker::Invoke seeds and       *)
(* tool_search and skill_search extend, the catalogs BuildPrompt renders   *)
(* and the function-call list BuildToolSchemas sends, while MCP servers    *)
(* come and go, skills change on disk and the Agent is reloaded.           *)
(*                                                                         *)
(* A turn of a replaced Agent is the SessionManager module's subject: here *)
(* an Agent is replaced while no turn runs.                                *)
(***************************************************************************)
EXTENDS Integers, FiniteSets

CONSTANTS
  Sessions,
  Tools,              \* the ordinary tools
  Unknown,            \* a name the model makes up
  AlwaysOnTools,      \* AgentConfig::alwaysOnTools
  Undescribed,        \* tools with an empty description
  Unprobed,           \* tools whose constructor throws on a null ToolBuildContext
  Skills,             \* skill ids
  SkillName(_),       \* the name the front matter of a skill gives it
  Modes,              \* the configured modes a run looks at
  SchemaBudget, CatalogBudget, SchemaTokens, CatalogTokens,
  MaxTurns, MaxIterations, MaxChanges   \* bounds

MetaToolNames == {"tool_search", "skill_search"}

ASSUME DisclosureAssumption ==
  /\ Modes \subseteq {"disabled", "progressive", "selective", "auto"}
  /\ AlwaysOnTools \cup Undescribed \cup Unprobed \subseteq Tools /\ IsFiniteSet(Tools)
  /\ Unknown \notin Tools \cup MetaToolNames /\ MetaToolNames \cap Tools = {}
  /\ {SchemaBudget, CatalogBudget, SchemaTokens, CatalogTokens, MaxTurns, MaxIterations, MaxChanges}
       \subseteq Nat

VARIABLES
  registered,     \* names ResourceManager has a factory for
  toolNames,      \* the Agent's tools
  effectiveMode,  \* AgentWorker::effectiveMode_
  disk,           \* skills under the root directory, or Missing
  skillIds,       \* skills the engine has loaded
  pc, iteration,  \* per session: control, iterations of the turn
  turn,           \* per session: the TurnState
  prompt, fc,     \* per session: what BuildPrompt rendered, the function-call list
  claim,          \* per session: what a search said to be all visible
  start, named,   \* history, per session: pools at the turn's start, names met since
  turns, changes

poolVars    == <<registered, toolNames, effectiveMode, disk, changes>>
historyVars == <<start, named, turns>>
vars == <<poolVars, skillIds, pc, iteration, turn, prompt, fc, claim, historyVars>>

Missing == {"no such directory"}
Progressive == effectiveMode \in {"progressive", "selective"}
AlwaysOn == MetaToolNames \cup AlwaysOnTools

NoTurn == [active |-> {}, loaded |-> {}, full |-> FALSE, skills |-> {}, skillsFull |-> FALSE]
NoPrompt == [tools |-> {}, skills |-> {}, knownTools |-> {}, knownSkills |-> {}]

-----------------------------------------------------------------------------
(* What ResourceManager makes of names *)

(* BuildToolSchemas and GetToolSchema skip a name without a factory and one *)
(* whose probe throws.                                                     *)
Schemas(names) == (registered \cap names) \ Unprobed

(* The catalog has only the name and the description to show, and skips a  *)
(* tool that has none as it skips those.                                   *)
GetToolCatalog(visibleNames) == Schemas(visibleNames) \ Undescribed

-----------------------------------------------------------------------------
(* The mode *)

(* Judges the tokens of the full schemas and of the catalog; a budget of 0 *)
(* is not set.                                                             *)
ResolveModeByTokenBudget(tier2, tier1) ==
  IF SchemaBudget > 0 /\ tier2 > SchemaBudget
  THEN IF CatalogBudget > 0 /\ tier1 > CatalogBudget THEN "selective" ELSE "progressive"
  ELSE "disabled"

(* Always-on tools count for the catalog only; a skipped name costs nothing. *)
ResolveByBudget(pool) ==
  ResolveModeByTokenBudget(SchemaTokens * Cardinality(Schemas(pool \ AlwaysOn)),
                           CatalogTokens * Cardinality(GetToolCatalog(pool)))

Resolved == IF effectiveMode = "auto" THEN ResolveByBudget(toolNames) ELSE effectiveMode

-----------------------------------------------------------------------------
(* TurnStateProxy *)

SeedActive(ts, names) == [ts EXCEPT !.active = @ \cup names, !.full = TRUE]

SeedActiveSubset_FlagSet(ts, names) == [ts EXCEPT !.active = @ \cup names, !.full = TRUE]

SeedActiveSubset(ts, names) == [ts EXCEPT !.active = @ \cup names, !.full = FALSE]

SeedSkillActive(ts, names) == [ts EXCEPT !.skills = @ \cup names, !.skillsFull = TRUE]

SeedSkillActiveSubset(ts, names) == [ts EXCEPT !.skills = @ \cup names, !.skillsFull = FALSE]

LoadTool(ts, name) == [ts EXCEPT !.active = @ \cup {name}, !.loaded = @ \cup {name}]

Reset_Skip(ts) == ts

Reset(ts) == NoTurn

-----------------------------------------------------------------------------
(* SkillEngine *)

(* Load(true): a missing root directory leaves what is loaded.             *)
LoadSkills == IF disk = Missing THEN skillIds ELSE disk

(* The catalog restricted to visible names, by id or by name.              *)
SkillCatalog(known, visible) == {k \in known : k \in visible \/ SkillName(k) \in visible}

-----------------------------------------------------------------------------
(* The environment *)

(* MCP servers come and go: their tools are registered and unregistered,   *)
(* and the Agent synced, as the McpRegistry module has it.                 *)
ChangeRegistry(t) ==
  /\ changes < MaxChanges /\ changes' = changes + 1
  /\ registered' = IF t \in registered THEN registered \ {t} ELSE registered \cup {t}
  /\ UNCHANGED <<toolNames, effectiveMode, disk, skillIds, pc, iteration, turn, prompt, fc, claim,
                 historyVars>>

SyncMcpTools ==
  /\ toolNames # registered \cap (Tools \cup toolNames)
  /\ toolNames' = registered \cap (Tools \cup toolNames)
  /\ UNCHANGED <<registered, effectiveMode, disk, changes, skillIds, pc, iteration, turn, prompt, fc,
                 claim, historyVars>>

ChangeSkills ==
  /\ changes < MaxChanges /\ changes' = changes + 1
  /\ disk' \in ((SUBSET Skills) \cup {Missing}) \ {disk}
  /\ UNCHANGED <<registered, toolNames, effectiveMode, skillIds, pc, iteration, turn, prompt, fc,
                 claim, historyVars>>

RegisterSearch_ExplicitOnly(mode) ==
  IF mode \in {"progressive", "selective"} THEN registered \cup {"tool_search"} ELSE registered

(* tool_search is registered unless the mode is disabled, auto included.   *)
RegisterSearch(mode) == IF mode = "disabled" THEN registered ELSE registered \cup {"tool_search"}

(* ReloadAgent: a new worker with its configured mode and all tools.       *)
ReloadAgent(mode) ==
  /\ changes < MaxChanges /\ changes' = changes + 1
  /\ \A s \in Sessions : pc[s] = "idle"
  /\ mode # effectiveMode /\ effectiveMode' = mode
  /\ registered' = RegisterSearch(mode)
  /\ toolNames' = {"skill_search"} \cup (registered \cap Tools)
  /\ skillIds' = LoadSkills
  /\ UNCHANGED <<disk, pc, iteration, turn, prompt, fc, claim, historyVars>>

-----------------------------------------------------------------------------
(* A turn *)

(* ReactAgentWorker::Invoke up to the recall: the mode is resolved once,   *)
(* the TurnState reset and the pools read; without a recall both are       *)
(* seeded in full. In the disabled mode the old TurnState stays.           *)
Invoke(s) ==
  /\ pc[s] = "idle" /\ turns < MaxTurns
  /\ turns' = turns + 1
  /\ effectiveMode' = Resolved
  /\ iteration' = [iteration EXCEPT ![s] = 0]
  /\ claim' = [claim EXCEPT ![s] = "none"]
  /\ start' = [start EXCEPT ![s] = [tools |-> toolNames, skills |-> skillIds]]
  /\ named' = [named EXCEPT ![s] = {}]
  /\ turn' = [turn EXCEPT ![s] =
       CASE Resolved = "disabled"    -> @
         [] Resolved = "selective"   -> Reset(@)
         [] Resolved = "progressive" -> SeedSkillActive(SeedActive(Reset(@), toolNames), skillIds)]
  /\ pc' = [pc EXCEPT ![s] = IF Resolved = "selective" THEN "recall" ELSE "prompt"]
  /\ UNCHANGED <<registered, toolNames, disk, changes, skillIds, prompt, fc>>

(* What CapabilitySelector::findRelevant can return: names from the whole  *)
(* registry's catalog or made up, unchecked; empty when the model fails or *)
(* its answer does not parse. Of the answers that name meta tools only the *)
(* one that names the Agent's whole pool is taken.                         *)
Recalls ==
  [tools : (SUBSET ((registered \cap Tools) \cup {Unknown})) \cup {toolNames},
   skills : {{}, {SkillName(k) : k \in skillIds}} \cup {{SkillName(k)} : k \in skillIds}]

Side(answer, pool, seedFull, seedSubset) ==
  IF answer = {} \/ answer = pool THEN seedFull ELSE seedSubset

(* The seed of each side: the full pool when nothing or everything came.   *)
SeedRecall(s, r) ==
  LET ts == Side(r.tools, start[s].tools, SeedActive(turn[s], start[s].tools),
                 SeedActiveSubset(turn[s], r.tools))
  IN  Side(r.skills, start[s].skills, SeedSkillActive(ts, start[s].skills),
           SeedSkillActiveSubset(ts, r.skills))

Recall(s) ==
  /\ pc[s] = "recall"
  /\ \E r \in Recalls :
       /\ turn' = [turn EXCEPT ![s] = SeedRecall(s, r)]
       /\ named' = [named EXCEPT ![s] = @ \cup r.tools]
  /\ pc' = [pc EXCEPT ![s] = "prompt"]
  /\ UNCHANGED <<poolVars, skillIds, iteration, prompt, fc, claim, start, turns>>

(* BuildPrompt reloads the skills and renders both catalogs; in the        *)
(* disabled mode the full schemas take the place of the tool catalog.      *)
BuildPrompt(s) ==
  /\ pc[s] = "prompt" /\ iteration[s] < MaxIterations
  /\ skillIds' = LoadSkills
  /\ prompt' = [prompt EXCEPT ![s] =
       [tools |-> IF Progressive THEN GetToolCatalog(turn[s].active \cup AlwaysOn) ELSE Schemas(toolNames),
        skills |-> IF Progressive THEN SkillCatalog(LoadSkills, turn[s].skills) ELSE LoadSkills,
        knownTools |-> registered, knownSkills |-> LoadSkills]]
  /\ claim' = [claim EXCEPT ![s] = "none"]
  /\ pc' = [pc EXCEPT ![s] = "call"]
  /\ UNCHANGED <<poolVars, iteration, turn, fc, historyVars>>

(* CallModelStream sends the function-call list BuildToolSchemas makes.    *)
BuildToolSchemas(s) ==
  /\ pc[s] = "call"
  /\ fc' = [fc EXCEPT ![s] =
       Schemas(IF Progressive THEN AlwaysOn \cup turn[s].loaded ELSE toolNames)]
  /\ pc' = [pc EXCEPT ![s] = "tools"]
  /\ iteration' = [iteration EXCEPT ![s] = @ + 1]
  /\ UNCHANGED <<poolVars, skillIds, turn, prompt, claim, historyVars>>

(* The model's answer: one of the calls it was offered, or the end.        *)
Offered(s, tool) == pc[s] = "tools" /\ tool \in fc[s]

NextIteration(s) ==
  /\ pc' = [pc EXCEPT ![s] = "prompt"]
  /\ UNCHANGED <<poolVars, skillIds, iteration, prompt, fc, start, turns>>

(* tool_search load: a registered name that is not always on.              *)
ToolSearchLoad(s, name) ==
  /\ Offered(s, "tool_search")
  /\ IF name \in registered \ AlwaysOn
     THEN /\ turn' = [turn EXCEPT ![s] = LoadTool(@, name)]
          /\ named' = [named EXCEPT ![s] = @ \cup {name}]
     ELSE UNCHANGED <<turn, named>>
  /\ UNCHANGED claim
  /\ NextIteration(s)

(* tool_search search: nothing to recall over a full pool; otherwise the   *)
(* names that are new join the active set.                                 *)
ToolSearchSearch(s) ==
  /\ Offered(s, "tool_search")
  /\ \/ /\ turn[s].full
        /\ claim' = [claim EXCEPT ![s] = "tools"]
        /\ UNCHANGED <<turn, named>>
     \/ /\ ~turn[s].full
        /\ \E r \in Recalls :
             /\ turn' = [turn EXCEPT ![s] = SeedActiveSubset(@, r.tools)]
             /\ named' = [named EXCEPT ![s] = @ \cup r.tools]
        /\ UNCHANGED claim
  /\ NextIteration(s)

(* skill_search search: without a selector (disabled) it only matches.     *)
SkillSearchSearch(s) ==
  /\ Offered(s, "skill_search")
  /\ \/ /\ turn[s].skillsFull
        /\ claim' = [claim EXCEPT ![s] = "skills"]
        /\ UNCHANGED turn
     \/ /\ ~turn[s].skillsFull /\ Progressive
        /\ \E r \in Recalls :
             turn' = [turn EXCEPT ![s] = IF r.skills \subseteq @.skills THEN @
                                         ELSE SeedSkillActiveSubset(@, r.skills)]
        /\ UNCHANGED claim
     \/ /\ ~turn[s].skillsFull /\ ~Progressive
        /\ UNCHANGED <<turn, claim>>
  /\ UNCHANGED named
  /\ NextIteration(s)

(* The final answer, or the loop has used its iterations.                  *)
EndTurn(s) ==
  /\ pc[s] = "tools" \/ (pc[s] = "prompt" /\ iteration[s] = MaxIterations)
  /\ pc' = [pc EXCEPT ![s] = "idle"]
  /\ claim' = [claim EXCEPT ![s] = "none"]
  /\ UNCHANGED <<poolVars, skillIds, iteration, turn, prompt, fc, historyVars>>

Next ==
  \/ \E t \in Tools : ChangeRegistry(t)
  \/ SyncMcpTools \/ ChangeSkills
  \/ \E m \in Modes : ReloadAgent(m)
  \/ \E s \in Sessions :
       \/ Invoke(s) \/ Recall(s) \/ BuildPrompt(s) \/ BuildToolSchemas(s)
       \/ \E n \in Tools \cup {Unknown} : ToolSearchLoad(s, n)
       \/ ToolSearchSearch(s) \/ SkillSearchSearch(s) \/ EndTurn(s)

Init ==
  /\ effectiveMode \in Modes
  /\ registered = (Tools \cup MetaToolNames) \ (IF effectiveMode = "disabled" THEN {"tool_search"} ELSE {})
  /\ toolNames = Tools \cup {"skill_search"}
  /\ disk \in SUBSET Skills /\ skillIds = disk
  /\ pc = [s \in Sessions |-> "idle"] /\ iteration = [s \in Sessions |-> 0]
  /\ turn = [s \in Sessions |-> NoTurn]
  /\ prompt = [s \in Sessions |-> NoPrompt] /\ fc = [s \in Sessions |-> {}]
  /\ claim = [s \in Sessions |-> "none"]
  /\ start = [s \in Sessions |-> [tools |-> {}, skills |-> {}]]
  /\ named = [s \in Sessions |-> {}]
  /\ turns = 0 /\ changes = 0

Spec == Init /\ [][Next]_vars

-----------------------------------------------------------------------------
AnyTool == Tools \cup MetaToolNames \cup {Unknown}
AnySkill == Skills \cup {SkillName(k) : k \in Skills}

TypeOK ==
  /\ registered \subseteq Tools \cup MetaToolNames /\ toolNames \subseteq Tools \cup MetaToolNames
  /\ effectiveMode \in Modes \cup {"disabled", "progressive", "selective"}
  /\ disk \in (SUBSET Skills) \cup {Missing} /\ skillIds \in SUBSET Skills
  /\ pc \in [Sessions -> {"idle", "recall", "prompt", "call", "tools"}]
  /\ \A s \in Sessions : pc[s] # "idle" => effectiveMode # "auto"
  /\ turn \in [Sessions -> [active : SUBSET AnyTool, loaded : SUBSET AnyTool, full : BOOLEAN,
                            skills : SUBSET AnySkill, skillsFull : BOOLEAN]]
  /\ fc \in [Sessions -> SUBSET (Tools \cup MetaToolNames)]
  /\ claim \in [Sessions -> {"none", "tools", "skills"}]

(* In the progressive modes every tool that can be called, has a           *)
(* description and was registered when the prompt was rendered is in the   *)
(* prompt's catalog; and tool_search and skill_search can always be called,*)
(* also when the mode was resolved from auto or set by a reload.           *)
CallableIsListed ==
  \A s \in Sessions : pc[s] = "tools" /\ Progressive =>
    /\ (fc[s] \cap prompt[s].knownTools) \ Undescribed \subseteq prompt[s].tools
    /\ MetaToolNames \subseteq fc[s]

(* When a search answers that everything is visible already, what was in   *)
(* the pool at the turn's start, still existed at the last prompt and is   *)
(* none of the tools the catalog always skips is listed there, also under a*)
(* flag left over from another mode's turn.                                *)
AllVisibleIsTrue ==
  \A s \in Sessions :
    /\ claim[s] = "tools" =>
         (start[s].tools \cap prompt[s].knownTools) \ (Undescribed \cup Unprobed) \subseteq prompt[s].tools
    /\ claim[s] = "skills" => start[s].skills \cap prompt[s].knownSkills \subseteq prompt[s].skills

(* "all tools are already visible in the catalog; no recall needed" is what*)
(* tool_search answers of a full pool (tool_search_tool.cpp:92-96); the    *)
(* catalog has skipped the tools without a description.                    *)
AllVisible ==
  \A s \in Sessions : claim[s] = "tools" => start[s].tools \cap prompt[s].knownTools \subseteq prompt[s].tools

(* A turn's active tools are the pool it began with and the names this     *)
(* turn met: nothing is carried over from the session's earlier turns.     *)
NothingCarriedOver ==
  \A s \in Sessions : pc[s] # "idle" /\ Progressive => turn[s].active \subseteq start[s].tools \cup named[s]

=============================================================================
