--------------------------- MODULE DisclosureProofs ---------------------------
(***************************************************************************)
(* Theorems about Disclosure, for any sessions, tools, skills, modes and   *)
(* budgets, and any number of turns, iterations and changes.               *)
(***************************************************************************)
EXTENDS Disclosure, TLAPS

KnownTool == Tools \cup MetaToolNames
TurnStates == [active : SUBSET AnyTool, loaded : SUBSET AnyTool, full : BOOLEAN,
               skills : SUBSET AnySkill, skillsFull : BOOLEAN]
Prompts == [tools : SUBSET KnownTool, skills : SUBSET Skills,
            knownTools : SUBSET KnownTool, knownSkills : SUBSET Skills]
Pools == [tools : SUBSET KnownTool, skills : SUBSET Skills]

\* The typing of what the Agent shares between its sessions. Only the search of
\* skills is ever among the Agent's own tools, and both searches have a factory
\* as soon as the mode may need them.
PoolTyping ==
    /\ registered \subseteq KnownTool
    /\ effectiveMode \in Modes \cup {"disabled", "progressive", "selective"}
    /\ disk \in (SUBSET Skills) \cup {Missing} /\ skillIds \in SUBSET Skills
    /\ "skill_search" \in registered /\ (effectiveMode # "disabled" => "tool_search" \in registered)
    /\ toolNames \subseteq Tools \cup {"skill_search"}

\* The typing of a turn; the mode of a running one is resolved.
TurnTyping ==
    /\ pc \in [Sessions -> {"idle", "recall", "prompt", "call", "tools"}]
    /\ \A s \in Sessions : pc[s] # "idle" => effectiveMode # "auto"
    /\ iteration \in [Sessions -> Int]
    /\ turn \in [Sessions -> TurnStates]
    /\ prompt \in [Sessions -> Prompts]
    /\ fc \in [Sessions -> SUBSET KnownTool]
    /\ claim \in [Sessions -> {"none", "tools", "skills"}]
    /\ start \in [Sessions -> Pools]
    /\ named \in [Sessions -> SUBSET AnyTool]

Typing == PoolTyping /\ TurnTyping

USE DEF poolVars, historyVars

-----------------------------------------------------------------------------
(* The operations on a TurnState.                                          *)

\* SeedActive adds to the active tools and marks them as all there are.
LEMMA SeedActiveSpec ==
    ASSUME NEW ts \in TurnStates, NEW N \in SUBSET AnyTool
    PROVE  LET ts2 == SeedActive(ts, N) IN
           /\ ts2 \in TurnStates /\ ts2.active = ts.active \cup N /\ ts2.loaded = ts.loaded
           /\ ts2.full = TRUE /\ ts2.skills = ts.skills /\ ts2.skillsFull = ts.skillsFull
BY DEF TurnStates, SeedActive

\* SeedActiveSubset adds to the active tools and marks them as a part.
LEMMA SeedActiveSubsetSpec ==
    ASSUME NEW ts \in TurnStates, NEW N \in SUBSET AnyTool
    PROVE  LET ts2 == SeedActiveSubset(ts, N) IN
           /\ ts2 \in TurnStates /\ ts2.active = ts.active \cup N /\ ts2.loaded = ts.loaded
           /\ ts2.full = FALSE /\ ts2.skills = ts.skills /\ ts2.skillsFull = ts.skillsFull
BY DEF TurnStates, SeedActiveSubset

\* SeedSkillActive does for the skills what SeedActive does for the tools.
LEMMA SeedSkillActiveSpec ==
    ASSUME NEW ts \in TurnStates, NEW N \in SUBSET AnySkill
    PROVE  LET ts2 == SeedSkillActive(ts, N) IN
           /\ ts2 \in TurnStates /\ ts2.active = ts.active /\ ts2.loaded = ts.loaded
           /\ ts2.full = ts.full /\ ts2.skills = ts.skills \cup N /\ ts2.skillsFull = TRUE
BY DEF TurnStates, SeedSkillActive

\* SeedSkillActiveSubset does for the skills what SeedActiveSubset does.
LEMMA SeedSkillActiveSubsetSpec ==
    ASSUME NEW ts \in TurnStates, NEW N \in SUBSET AnySkill
    PROVE  LET ts2 == SeedSkillActiveSubset(ts, N) IN
           /\ ts2 \in TurnStates /\ ts2.active = ts.active /\ ts2.loaded = ts.loaded
           /\ ts2.full = ts.full /\ ts2.skills = ts.skills \cup N /\ ts2.skillsFull = FALSE
BY DEF TurnStates, SeedSkillActiveSubset

\* LoadTool makes a tool active and callable.
LEMMA LoadToolSpec ==
    ASSUME NEW ts \in TurnStates, NEW n \in AnyTool
    PROVE  LET ts2 == LoadTool(ts, n) IN
           /\ ts2 \in TurnStates /\ ts2.active = ts.active \cup {n} /\ ts2.loaded = ts.loaded \cup {n}
           /\ ts2.full = ts.full /\ ts2.skills = ts.skills /\ ts2.skillsFull = ts.skillsFull
BY DEF TurnStates, LoadTool

\* A TurnState that was reset.
LEMMA NoTurnSpec ==
    /\ NoTurn \in TurnStates /\ NoTurn.active = {} /\ NoTurn.loaded = {} /\ NoTurn.full = FALSE
    /\ NoTurn.skills = {} /\ NoTurn.skillsFull = FALSE
BY DEF NoTurn, TurnStates

\* What a recall can name.
LEMMA RecallType ==
    ASSUME PoolTyping, NEW r \in Recalls
    PROVE  r.tools \in SUBSET AnyTool /\ r.skills \in SUBSET AnySkill
<1>1. r.tools \in (SUBSET ((registered \cap Tools) \cup {Unknown})) \cup {toolNames}
  BY DEF Recalls
<1>2. r.tools \in SUBSET AnyTool
  BY <1>1 DEF PoolTyping, AnyTool, MetaToolNames
<1>3. r.skills \in {{}, {SkillName(k) : k \in skillIds}} \cup {{SkillName(k)} : k \in skillIds}
  BY DEF Recalls
<1>4. skillIds \subseteq Skills
  BY DEF PoolTyping
<1>5. \A x \in r.skills : \E k \in skillIds : x = SkillName(k)
  BY <1>3
<1>6. r.skills \in SUBSET AnySkill
  BY <1>4, <1>5 DEF AnySkill
<1> QED BY <1>2, <1>6

\* What SeedRecall leaves, whatever the recall named: a TurnState whose full
\* sides hold the pools of the turn's start.
LEMMA SeedRecallSpec ==
    ASSUME Typing, NEW s \in Sessions, NEW r \in Recalls
    PROVE  LET ts == SeedRecall(s, r) IN
           /\ ts \in TurnStates /\ ts.loaded = turn[s].loaded
           /\ turn[s].active \subseteq ts.active
           /\ ts.active \subseteq turn[s].active \cup start[s].tools \cup r.tools
           /\ ts.full => start[s].tools \subseteq ts.active
           /\ ts.skillsFull => start[s].skills \subseteq ts.skills
<1> DEFINE T == turn[s]
           P == start[s].tools
           K == start[s].skills
           t1 == Side(r.tools, P, SeedActive(T, P), SeedActiveSubset(T, r.tools))
           t2 == SeedRecall(s, r)
<1>1. T \in TurnStates /\ P \in SUBSET KnownTool /\ K \in SUBSET Skills
  BY DEF Typing, TurnTyping, Pools
<1>2. P \in SUBSET AnyTool /\ K \in SUBSET AnySkill
  BY <1>1 DEF KnownTool, AnyTool, AnySkill
<1>3. r.tools \in SUBSET AnyTool /\ r.skills \in SUBSET AnySkill
  BY RecallType DEF Typing
<1>4. t2 = Side(r.skills, K, SeedSkillActive(t1, K), SeedSkillActiveSubset(t1, r.skills))
  BY DEF SeedRecall
<1> HIDE DEF t2, P, K, T
<1>5. t1 = SeedActive(T, P) \/ t1 = SeedActiveSubset(T, r.tools)
  BY DEF Side
<1>6. /\ t1 \in TurnStates /\ t1.loaded = T.loaded /\ t1.skillsFull = T.skillsFull
      /\ T.active \subseteq t1.active /\ t1.active \subseteq T.active \cup P \cup r.tools
      /\ t1.full => P \subseteq t1.active
  <2> HIDE DEF t1
  <2>1. CASE t1 = SeedActive(T, P)
    <3>1. /\ t1 \in TurnStates /\ t1.loaded = T.loaded /\ t1.skillsFull = T.skillsFull
          /\ t1.active = T.active \cup P
      BY <1>1, <1>2, <2>1, SeedActiveSpec
    <3> QED BY <3>1
  <2>2. CASE t1 = SeedActiveSubset(T, r.tools)
    BY <1>1, <1>3, <2>2, SeedActiveSubsetSpec
  <2> QED BY <1>5, <2>1, <2>2
<1>7. t2 = SeedSkillActive(t1, K) \/ t2 = SeedSkillActiveSubset(t1, r.skills)
  BY <1>4 DEF Side
<1> HIDE DEF t1
<1>8. /\ t2 \in TurnStates /\ t2.loaded = t1.loaded /\ t2.active = t1.active /\ t2.full = t1.full
      /\ t2.skillsFull => K \subseteq t2.skills
  <2>1. CASE t2 = SeedSkillActive(t1, K)
    <3>1. /\ t2 \in TurnStates /\ t2.loaded = t1.loaded /\ t2.active = t1.active /\ t2.full = t1.full
          /\ t2.skills = t1.skills \cup K
      BY <1>2, <1>6, <2>1, SeedSkillActiveSpec
    <3> QED BY <3>1
  <2>2. CASE t2 = SeedSkillActiveSubset(t1, r.skills)
    BY <1>3, <1>6, <2>2, SeedSkillActiveSubsetSpec
  <2> QED BY <1>7, <2>1, <2>2
<1> QED BY <1>6, <1>8 DEF t2, T, P, K

-----------------------------------------------------------------------------
(* Type correctness.                                                       *)

\* The mode of a turn is one of three: auto is resolved before it begins.
LEMMA ResolvedType ==
    ASSUME PoolTyping
    PROVE  /\ Resolved \in {"disabled", "progressive", "selective"}
           /\ effectiveMode # "auto" => Resolved = effectiveMode
<1>1. ResolveByBudget(toolNames) \in {"disabled", "progressive", "selective"}
  BY DEF ResolveByBudget, ResolveModeByTokenBudget
<1> HIDE DEF ResolveByBudget
<1>2. effectiveMode \in {"disabled", "progressive", "selective", "auto"}
  BY DisclosureAssumption DEF PoolTyping
<1> QED BY <1>1, <1>2 DEF Resolved

\* Loading the skills leaves what is loaded, or what is on disk.
LEMMA LoadSkillsType ==
    ASSUME PoolTyping
    PROVE  LoadSkills \in SUBSET Skills
BY DEF PoolTyping, LoadSkills

\* The pools stay well typed.
LEMMA PoolTypingStep ==
    ASSUME Typing, Next
    PROVE  PoolTyping'
<1>0. PoolTyping
  BY DEF Typing
<1> USE DisclosureAssumption DEF PoolTyping, KnownTool, MetaToolNames
<1>1. ASSUME NEW t \in Tools, ChangeRegistry(t) PROVE PoolTyping'
  BY <1>0, <1>1 DEF ChangeRegistry
<1>2. CASE SyncMcpTools
  BY <1>0, <1>2 DEF SyncMcpTools
<1>3. CASE ChangeSkills
  BY <1>0, <1>3 DEF ChangeSkills
<1>4. ASSUME NEW m \in Modes, ReloadAgent(m) PROVE PoolTyping'
  <2>1. /\ effectiveMode' = m /\ toolNames' = {"skill_search"} \cup (registered \cap Tools)
        /\ registered' = IF m = "disabled" THEN registered ELSE registered \cup {"tool_search"}
        /\ skillIds' \in SUBSET Skills /\ UNCHANGED disk
    BY <1>0, <1>4, LoadSkillsType DEF ReloadAgent, RegisterSearch
  <2> QED BY <1>0, <2>1
<1>5. ASSUME NEW s \in Sessions, Invoke(s) PROVE PoolTyping'
  <2>1. effectiveMode' = Resolved /\ UNCHANGED <<registered, toolNames, disk, skillIds>>
    BY <1>5 DEF Invoke
  <2>2. /\ Resolved \in {"disabled", "progressive", "selective"}
        /\ Resolved # "disabled" => effectiveMode # "disabled"
    BY <1>0, ResolvedType
  <2> QED BY <1>0, <2>1, <2>2
<1>6. ASSUME NEW s \in Sessions, BuildPrompt(s) PROVE PoolTyping'
  <2>1. skillIds' \in SUBSET Skills /\ UNCHANGED <<registered, toolNames, effectiveMode, disk>>
    BY <1>0, <1>6, LoadSkillsType DEF BuildPrompt
  <2> QED BY <1>0, <2>1
<1>7. ASSUME NEW s \in Sessions,
             \/ Recall(s) \/ BuildToolSchemas(s) \/ (\E n \in Tools \cup {Unknown} : ToolSearchLoad(s, n))
             \/ ToolSearchSearch(s) \/ SkillSearchSearch(s) \/ EndTurn(s)
      PROVE  PoolTyping'
  <2>1. UNCHANGED <<registered, toolNames, effectiveMode, disk, skillIds>>
    BY <1>7 DEF Recall, BuildToolSchemas, ToolSearchLoad, ToolSearchSearch, SkillSearchSearch, EndTurn,
                NextIteration
  <2> QED BY <1>0, <2>1
<1> QED BY <1>1, <1>2, <1>3, <1>4, <1>5, <1>6, <1>7 DEF Next

\* A turn that runs keeps its mode: an Agent is replaced between turns, and
\* another session's Invoke resolves auto only when no turn runs yet.
LEMMA ModeStep ==
    ASSUME Typing, Next, NEW s \in Sessions, pc[s] # "idle"
    PROVE  effectiveMode' = effectiveMode
<1>1. PoolTyping /\ effectiveMode # "auto"
  BY DEF Typing, TurnTyping
<1>2. ASSUME NEW k \in Sessions, Invoke(k) PROVE effectiveMode' = effectiveMode
  BY <1>1, <1>2, ResolvedType DEF Invoke
<1>3. ASSUME NEW m \in Modes PROVE ~ReloadAgent(m)
  BY DEF ReloadAgent
<1> QED BY <1>2, <1>3 DEF Next, ChangeRegistry, SyncMcpTools, ChangeSkills, Recall, BuildPrompt,
           BuildToolSchemas, ToolSearchLoad, ToolSearchSearch, SkillSearchSearch, EndTurn, NextIteration

\* What the first step of a turn does to its TurnState.
LEMMA InvokeSpec ==
    ASSUME Typing, NEW s \in Sessions, Invoke(s)
    PROVE  /\ turn'[s] \in TurnStates
           /\ turn[s].loaded \subseteq turn[s].active => turn'[s].loaded \subseteq turn'[s].active
           /\ effectiveMode' \in {"progressive", "selective"} =>
                /\ turn'[s].loaded = {} /\ turn'[s].active \subseteq toolNames
                /\ turn'[s].full => toolNames \subseteq turn'[s].active
                /\ turn'[s].skillsFull => skillIds \subseteq turn'[s].skills
           /\ turn' = [turn EXCEPT ![s] = turn'[s]]
<1> DEFINE seeded == SeedSkillActive(SeedActive(NoTurn, toolNames), skillIds)
<1>0. PoolTyping /\ TurnTyping
  BY DEF Typing
<1>1. /\ effectiveMode' = Resolved
      /\ turn' = [turn EXCEPT ![s] = CASE Resolved = "disabled"    -> @
                                       [] Resolved = "selective"   -> NoTurn
                                       [] Resolved = "progressive" -> seeded]
  BY DEF Invoke, Reset
<1>2. turn \in [Sessions -> TurnStates] /\ turn[s] \in TurnStates
  BY <1>0 DEF TurnTyping
<1>3. toolNames \in SUBSET AnyTool /\ skillIds \in SUBSET AnySkill
  BY <1>0 DEF PoolTyping, AnyTool, AnySkill, MetaToolNames
<1>4. /\ seeded \in TurnStates /\ seeded.active = toolNames /\ seeded.loaded = {}
      /\ seeded.skills = skillIds
  <2> DEFINE t1 == SeedActive(NoTurn, toolNames)
  <2>1. /\ t1 \in TurnStates /\ t1.active = {} \cup toolNames /\ t1.loaded = {} /\ t1.skills = {}
    BY <1>3, NoTurnSpec, SeedActiveSpec
  <2> HIDE DEF t1
  <2>2. /\ seeded \in TurnStates /\ seeded.active = t1.active /\ seeded.loaded = t1.loaded
        /\ seeded.skills = t1.skills \cup skillIds
    BY <1>3, <2>1, SeedSkillActiveSpec DEF t1
  <2> QED BY <2>1, <2>2
<1> HIDE DEF seeded
<1>5. CASE Resolved = "disabled"
  BY <1>1, <1>2, <1>5
<1>6. CASE Resolved = "selective"
  <2>1. turn' = [turn EXCEPT ![s] = NoTurn] /\ turn'[s] = NoTurn
    BY <1>1, <1>2, <1>6
  <2> QED BY <1>1, <1>6, <2>1, NoTurnSpec
<1>7. CASE Resolved = "progressive"
  <2>1. turn' = [turn EXCEPT ![s] = seeded] /\ turn'[s] = seeded
    BY <1>1, <1>2, <1>7
  <2> QED BY <1>1, <1>4, <1>7, <2>1
<1> QED BY <1>0, <1>5, <1>6, <1>7, ResolvedType

\* What the searches do to a TurnState, as far as it matters later: they add
\* tools they also name, and keep a full mark only over a pool that is there.
LEMMA SearchSpec ==
    ASSUME Typing, NEW s \in Sessions, NEW n \in Tools \cup {Unknown},
           ToolSearchLoad(s, n) \/ ToolSearchSearch(s) \/ SkillSearchSearch(s)
    PROVE  /\ turn' = [turn EXCEPT ![s] = turn'[s]] /\ named' = [named EXCEPT ![s] = named'[s]]
           /\ turn'[s] \in TurnStates /\ named'[s] \in SUBSET AnyTool
           /\ turn[s].active \subseteq turn'[s].active /\ turn[s].skills \subseteq turn'[s].skills
           /\ turn[s].loaded \subseteq turn[s].active => turn'[s].loaded \subseteq turn'[s].active
           /\ named[s] \subseteq named'[s] /\ turn'[s].active \subseteq turn[s].active \cup named'[s]
           /\ turn'[s].full => turn[s].full
           /\ turn'[s].skillsFull => turn[s].skillsFull
<1> DEFINE T == turn[s]
<1>0. /\ turn \in [Sessions -> TurnStates] /\ T \in TurnStates
      /\ named \in [Sessions -> SUBSET AnyTool] /\ named[s] \in SUBSET AnyTool
  BY DEF Typing, TurnTyping
<1>1. CASE UNCHANGED turn /\ UNCHANGED named
  BY <1>0, <1>1
<1>2. CASE turn' = [turn EXCEPT ![s] = LoadTool(@, n)] /\ named' = [named EXCEPT ![s] = @ \cup {n}]
  <2>1. n \in AnyTool
    BY DEF AnyTool
  <2>2. turn'[s] = LoadTool(T, n) /\ named'[s] = named[s] \cup {n}
        /\ turn' = [turn EXCEPT ![s] = turn'[s]] /\ named' = [named EXCEPT ![s] = named'[s]]
    BY <1>0, <1>2
  <2>3. /\ turn'[s] \in TurnStates /\ turn'[s].active = T.active \cup {n}
        /\ turn'[s].loaded = T.loaded \cup {n} /\ turn'[s].full = T.full
        /\ turn'[s].skills = T.skills /\ turn'[s].skillsFull = T.skillsFull
    BY <1>0, <2>1, <2>2, LoadToolSpec
  <2>4. named'[s] \in SUBSET AnyTool
    BY <1>0, <2>1, <2>2
  <2>5. turn'[s].full => turn[s].full
    BY <2>3
  <2>6. turn'[s].skillsFull => turn[s].skillsFull
    BY <2>3
  <2> HIDE DEF T
  <2>7. /\ T.active \subseteq turn'[s].active /\ T.skills \subseteq turn'[s].skills
        /\ T.loaded \subseteq T.active => turn'[s].loaded \subseteq turn'[s].active
        /\ named[s] \subseteq named'[s] /\ turn'[s].active \subseteq T.active \cup named'[s]
    BY <2>2, <2>3
  <2> QED BY <2>2, <2>3, <2>4, <2>5, <2>6, <2>7 DEF T
<1>3. ASSUME NEW r \in Recalls, turn' = [turn EXCEPT ![s] = SeedActiveSubset(@, r.tools)],
             named' = [named EXCEPT ![s] = @ \cup r.tools]
      PROVE  /\ turn' = [turn EXCEPT ![s] = turn'[s]] /\ named' = [named EXCEPT ![s] = named'[s]]
             /\ turn'[s] \in TurnStates /\ named'[s] = named[s] \cup r.tools /\ named'[s] \in SUBSET AnyTool
             /\ turn'[s].active = T.active \cup r.tools /\ turn'[s].loaded = T.loaded
             /\ turn'[s].full = FALSE /\ turn'[s].skills = T.skills /\ turn'[s].skillsFull = T.skillsFull
  <2>1. r.tools \in SUBSET AnyTool
    BY RecallType DEF Typing
  <2>2. turn'[s] = SeedActiveSubset(T, r.tools) /\ named'[s] = named[s] \cup r.tools
        /\ turn' = [turn EXCEPT ![s] = turn'[s]] /\ named' = [named EXCEPT ![s] = named'[s]]
    BY <1>0, <1>3
  <2>3. named'[s] \in SUBSET AnyTool
    BY <1>0, <2>1, <2>2
  <2> HIDE DEF T
  <2>4. /\ turn'[s] \in TurnStates
        /\ turn'[s].active = T.active \cup r.tools /\ turn'[s].loaded = T.loaded
        /\ turn'[s].full = FALSE /\ turn'[s].skills = T.skills /\ turn'[s].skillsFull = T.skillsFull
    <3> DEFINE U == SeedActiveSubset(T, r.tools)
    <3>1. /\ U \in TurnStates /\ U.active = T.active \cup r.tools /\ U.loaded = T.loaded
          /\ U.full = FALSE /\ U.skills = T.skills /\ U.skillsFull = T.skillsFull
      BY <1>0, <2>1, SeedActiveSubsetSpec
    <3> QED BY <2>2, <3>1 DEF T
  <2> QED BY <2>2, <2>3, <2>4
<1>4. ASSUME NEW r \in Recalls, UNCHANGED named,
             turn' = [turn EXCEPT ![s] = IF r.skills \subseteq @.skills THEN @
                                         ELSE SeedSkillActiveSubset(@, r.skills)]
      PROVE  /\ turn' = [turn EXCEPT ![s] = turn'[s]] /\ named' = [named EXCEPT ![s] = named'[s]]
             /\ \/ turn'[s] = T
                \/ /\ turn'[s] \in TurnStates
                   /\ turn'[s].active = T.active /\ turn'[s].loaded = T.loaded /\ turn'[s].full = T.full
                   /\ turn'[s].skills = T.skills \cup r.skills /\ turn'[s].skillsFull = FALSE
  <2>1. r.skills \in SUBSET AnySkill
    BY RecallType DEF Typing
  <2>2. turn'[s] = T \/ turn'[s] = SeedSkillActiveSubset(T, r.skills)
    BY <1>0, <1>4
  <2>3. turn' = [turn EXCEPT ![s] = turn'[s]] /\ named' = [named EXCEPT ![s] = named'[s]]
    BY <1>0, <1>4
  <2> DEFINE U == SeedSkillActiveSubset(T, r.skills)
  <2>4. /\ U \in TurnStates /\ U.active = T.active /\ U.loaded = T.loaded /\ U.full = T.full
        /\ U.skills = T.skills \cup r.skills /\ U.skillsFull = FALSE
    BY <1>0, <2>1, SeedSkillActiveSubsetSpec
  <2> HIDE DEF U
  <2> QED BY <2>2, <2>3, <2>4 DEF U
<1>5. CASE ToolSearchLoad(s, n)
  BY <1>1, <1>2, <1>5 DEF ToolSearchLoad
<1>6. CASE ToolSearchSearch(s)
  <2>1. CASE \E r \in Recalls : /\ turn' = [turn EXCEPT ![s] = SeedActiveSubset(@, r.tools)]
                                /\ named' = [named EXCEPT ![s] = @ \cup r.tools]
    BY <1>0, <1>3, <2>1
  <2> QED BY <1>1, <1>6, <2>1 DEF ToolSearchSearch
<1>7. CASE SkillSearchSearch(s)
  <2>1. CASE UNCHANGED named /\ \E r \in Recalls :
               turn' = [turn EXCEPT ![s] = IF r.skills \subseteq @.skills THEN @
                                           ELSE SeedSkillActiveSubset(@, r.skills)]
    <3>1. PICK r \in Recalls :
               turn' = [turn EXCEPT ![s] = IF r.skills \subseteq @.skills THEN @
                                           ELSE SeedSkillActiveSubset(@, r.skills)]
      BY <2>1
    <3>2. named' = named
      BY <2>1
    <3> QED BY <1>0, <1>4, <3>1, <3>2
  <2> QED BY <1>1, <1>7, <2>1 DEF SkillSearchSearch
<1> QED BY <1>5, <1>6, <1>7

SessionStep(s) ==
    \/ Invoke(s) \/ Recall(s) \/ BuildPrompt(s) \/ BuildToolSchemas(s) \/ EndTurn(s)
    \/ (\E n \in Tools \cup {Unknown} : ToolSearchLoad(s, n)) \/ ToolSearchSearch(s) \/ SkillSearchSearch(s)

\* A step is of one session, or changes no turn.
LEMMA StepOfOne ==
    ASSUME Next
    PROVE  \/ \E s \in Sessions : SessionStep(s)
           \/ UNCHANGED <<pc, iteration, turn, prompt, fc, claim, start, named, effectiveMode>>
           \/ /\ \A s \in Sessions : pc[s] = "idle"
              /\ UNCHANGED <<pc, iteration, turn, prompt, fc, claim, start, named>>
BY DEF Next, SessionStep, ChangeRegistry, SyncMcpTools, ChangeSkills, ReloadAgent

\* A session's steps leave the turns of the others alone.
LEMMA OthersKeep ==
    ASSUME Typing, NEW s \in Sessions, SessionStep(s), NEW k \in Sessions, k # s
    PROVE  /\ pc'[k] = pc[k] /\ turn'[k] = turn[k] /\ prompt'[k] = prompt[k] /\ fc'[k] = fc[k]
           /\ claim'[k] = claim[k] /\ start'[k] = start[k] /\ named'[k] = named[k]
<1>0. TurnTyping
  BY DEF Typing
<1>1. CASE Invoke(s)
  BY <1>0, <1>1 DEF Invoke, TurnTyping
<1>2. CASE Recall(s)
  BY <1>0, <1>2 DEF Recall, TurnTyping
<1>3. CASE BuildPrompt(s) \/ BuildToolSchemas(s) \/ EndTurn(s)
  BY <1>0, <1>3 DEF BuildPrompt, BuildToolSchemas, EndTurn, TurnTyping
<1>4. ASSUME NEW n \in Tools \cup {Unknown}, ToolSearchLoad(s, n) \/ ToolSearchSearch(s) \/ SkillSearchSearch(s)
      PROVE  /\ pc'[k] = pc[k] /\ turn'[k] = turn[k] /\ prompt'[k] = prompt[k] /\ fc'[k] = fc[k]
             /\ claim'[k] = claim[k] /\ start'[k] = start[k] /\ named'[k] = named[k]
  <2>1. turn' = [turn EXCEPT ![s] = turn'[s]] /\ named' = [named EXCEPT ![s] = named'[s]]
    BY <1>4, SearchSpec
  <2>2. UNCHANGED <<prompt, fc, start>> /\ pc' = [pc EXCEPT ![s] = "prompt"]
    BY <1>4 DEF ToolSearchLoad, ToolSearchSearch, SkillSearchSearch, NextIteration
  <2>3. claim'[k] = claim[k]
    BY <1>0, <1>4 DEF ToolSearchLoad, ToolSearchSearch, SkillSearchSearch, TurnTyping
  <2> QED BY <1>0, <2>1, <2>2, <2>3 DEF TurnTyping
<1>5. Unknown \in Tools \cup {Unknown}
  OBVIOUS
<1> QED BY <1>1, <1>2, <1>3, <1>4, <1>5 DEF SessionStep

\* The turns stay well typed.
LEMMA TurnTypingStep ==
    ASSUME Typing, Next
    PROVE  TurnTyping'
<1>0. PoolTyping /\ TurnTyping
  BY DEF Typing
<1>1. ASSUME NEW s \in Sessions, Invoke(s) PROVE TurnTyping'
  <2>1. /\ turn'[s] \in TurnStates /\ turn' = [turn EXCEPT ![s] = turn'[s]]
        /\ effectiveMode' \in {"disabled", "progressive", "selective"}
    BY <1>0, <1>1, InvokeSpec, ResolvedType DEF Invoke
  <2>2. turn' \in [Sessions -> TurnStates]
    BY <1>0, <2>1 DEF TurnTyping
  <2>3. [tools |-> toolNames, skills |-> skillIds] \in Pools
    BY <1>0 DEF PoolTyping, Pools, KnownTool, MetaToolNames
  <2>4. start' \in [Sessions -> Pools]
    BY <1>0, <1>1, <2>3 DEF TurnTyping, Invoke
  <2> QED BY <1>0, <1>1, <2>1, <2>2, <2>4 DEF TurnTyping, Invoke
<1>2. ASSUME NEW s \in Sessions, Recall(s) PROVE TurnTyping'
  <2>1. PICK r \in Recalls : /\ turn' = [turn EXCEPT ![s] = SeedRecall(s, r)]
                             /\ named' = [named EXCEPT ![s] = @ \cup r.tools]
    BY <1>2 DEF Recall
  <2>2. turn' \in [Sessions -> TurnStates]
    BY <1>0, <2>1, SeedRecallSpec DEF TurnTyping
  <2>3. named' \in [Sessions -> SUBSET AnyTool]
    BY <1>0, <2>1, RecallType DEF TurnTyping
  <2> QED BY <1>0, <1>2, <2>2, <2>3 DEF TurnTyping, Recall
<1>3. ASSUME NEW s \in Sessions, BuildPrompt(s) PROVE TurnTyping'
  <2> DEFINE p == [tools |-> IF Progressive THEN GetToolCatalog(turn[s].active \cup AlwaysOn) ELSE Schemas(toolNames),
                   skills |-> IF Progressive THEN SkillCatalog(LoadSkills, turn[s].skills) ELSE LoadSkills,
                   knownTools |-> registered, knownSkills |-> LoadSkills]
  <2>1. p \in Prompts
    <3>1. registered \in SUBSET KnownTool /\ LoadSkills \in SUBSET Skills
      BY <1>0, LoadSkillsType DEF PoolTyping
    <3> QED BY <3>1 DEF Prompts, GetToolCatalog, Schemas, SkillCatalog
  <2>2. prompt' = [prompt EXCEPT ![s] = p]
    BY <1>3 DEF BuildPrompt
  <2> HIDE DEF p
  <2>3. prompt' \in [Sessions -> Prompts]
    BY <1>0, <2>1, <2>2 DEF TurnTyping
  <2>4. /\ pc[s] = "prompt" /\ pc' = [pc EXCEPT ![s] = "call"] /\ claim' = [claim EXCEPT ![s] = "none"]
        /\ UNCHANGED <<effectiveMode, iteration, turn, fc, start, named>>
    BY <1>3 DEF BuildPrompt
  <2> QED BY <1>0, <2>3, <2>4 DEF TurnTyping
<1>4. ASSUME NEW s \in Sessions, BuildToolSchemas(s) PROVE TurnTyping'
  <2>1. fc' \in [Sessions -> SUBSET KnownTool]
    BY <1>0, <1>4 DEF BuildToolSchemas, Schemas, TurnTyping, PoolTyping
  <2>2. /\ pc[s] = "call" /\ pc' = [pc EXCEPT ![s] = "tools"] /\ iteration' = [iteration EXCEPT ![s] = @ + 1]
        /\ UNCHANGED <<effectiveMode, claim, turn, prompt, start, named>>
    BY <1>4 DEF BuildToolSchemas
  <2> QED BY <1>0, <2>1, <2>2 DEF TurnTyping
<1>5. ASSUME NEW s \in Sessions, EndTurn(s) PROVE TurnTyping'
  BY <1>0, <1>5 DEF EndTurn, TurnTyping
<1>6. ASSUME NEW s \in Sessions, NEW n \in Tools \cup {Unknown},
             ToolSearchLoad(s, n) \/ ToolSearchSearch(s) \/ SkillSearchSearch(s)
      PROVE  TurnTyping'
  <2>1. /\ turn' = [turn EXCEPT ![s] = turn'[s]] /\ named' = [named EXCEPT ![s] = named'[s]]
        /\ turn'[s] \in TurnStates /\ named'[s] \in SUBSET AnyTool
    BY <1>6, SearchSpec
  <2>2. turn' \in [Sessions -> TurnStates] /\ named' \in [Sessions -> SUBSET AnyTool]
    BY <1>0, <2>1 DEF TurnTyping
  <2>3. /\ pc[s] = "tools" /\ pc' = [pc EXCEPT ![s] = "prompt"]
        /\ UNCHANGED <<effectiveMode, iteration, prompt, fc, start>>
    BY <1>6 DEF ToolSearchLoad, ToolSearchSearch, SkillSearchSearch, NextIteration, Offered
  <2>4. claim' \in [Sessions -> {"none", "tools", "skills"}]
    BY <1>0, <1>6 DEF ToolSearchLoad, ToolSearchSearch, SkillSearchSearch, TurnTyping
  <2> QED BY <1>0, <2>2, <2>3, <2>4 DEF TurnTyping
<1>7. Unknown \in Tools \cup {Unknown}
  OBVIOUS
<1>8. CASE \E s \in Sessions : SessionStep(s)
  BY <1>1, <1>2, <1>3, <1>4, <1>5, <1>6, <1>7, <1>8 DEF SessionStep
<1>9. CASE UNCHANGED <<pc, iteration, turn, prompt, fc, claim, start, named, effectiveMode>>
  BY <1>0, <1>9 DEF TurnTyping
<1>10. CASE /\ \A s \in Sessions : pc[s] = "idle"
            /\ UNCHANGED <<pc, iteration, turn, prompt, fc, claim, start, named>>
  BY <1>0, <1>10 DEF TurnTyping
<1> QED BY <1>8, <1>9, <1>10, StepOfOne

\* Typing is an invariant.
LEMMA TypingInvariant == Spec => []Typing
<1>1. ASSUME Init PROVE Typing
  <2>1. PoolTyping
    BY <1>1, DisclosureAssumption DEF Init, PoolTyping, KnownTool, MetaToolNames
  <2>2. turn \in [Sessions -> TurnStates]
    BY <1>1, NoTurnSpec DEF Init
  <2>3. prompt \in [Sessions -> Prompts] /\ start \in [Sessions -> Pools]
    BY <1>1 DEF Init, NoPrompt, Prompts, Pools
  <2>4. /\ pc \in [Sessions -> {"idle"}] /\ iteration \in [Sessions -> Int]
        /\ fc \in [Sessions -> SUBSET KnownTool] /\ claim \in [Sessions -> {"none"}]
        /\ named \in [Sessions -> SUBSET AnyTool]
    BY <1>1 DEF Init
  <2> QED BY <2>1, <2>2, <2>3, <2>4 DEF Typing, TurnTyping
<1>2. Typing /\ [Next]_vars => Typing'
  <2>1. CASE Next
    BY <2>1, PoolTypingStep, TurnTypingStep DEF Typing
  <2>2. CASE UNCHANGED vars
    BY <2>2 DEF vars, Typing, PoolTyping, TurnTyping
  <2> QED BY <2>1, <2>2
<1> QED BY <1>1, <1>2, PTL DEF Spec

\* Every reachable state is well typed, and the mode of a running turn is
\* resolved.
THEOREM TypeCorrect == Spec => []TypeOK
<1>1. Typing => TypeOK
  BY DEF Typing, PoolTyping, TurnTyping, TypeOK, KnownTool, TurnStates, MetaToolNames
<1> QED BY <1>1, TypingInvariant, PTL

-----------------------------------------------------------------------------
(* The TurnState, the prompt and the function-call list.                   *)

\* What a running turn knows of its TurnState: a loaded tool is active, a full
\* side holds the pool of the turn's start, and nothing else is active.
TurnStateOK ==
    \A s \in Sessions :
        /\ turn[s].loaded \subseteq turn[s].active
        /\ pc[s] # "idle" /\ Progressive =>
             /\ turn[s].full => start[s].tools \subseteq turn[s].active
             /\ turn[s].skillsFull => start[s].skills \subseteq turn[s].skills
             /\ turn[s].active \subseteq start[s].tools \cup named[s]

\* The tools no catalog leaves out.
Listed(names) == names \ (Undescribed \cup Unprobed)

\* What the last prompt shows of it, until the next TurnState: the active tools
\* and skills that existed then and have an entry to show, or in the disabled mode every skill.
PromptOK ==
    \A s \in Sessions : pc[s] \in {"call", "tools"} =>
        /\ Progressive =>
             /\ Listed(prompt[s].knownTools \cap (turn[s].active \cup AlwaysOn)) \subseteq prompt[s].tools
             /\ prompt[s].knownSkills \cap turn[s].skills \subseteq prompt[s].skills
        /\ ~Progressive => prompt[s].knownSkills \subseteq prompt[s].skills

\* What can be called of it.
OfferOK ==
    \A s \in Sessions : pc[s] = "tools" =>
        /\ Progressive => fc[s] \subseteq (AlwaysOn \cup turn[s].loaded) \ Unprobed /\ MetaToolNames \subseteq fc[s]
        /\ ~Progressive => "tool_search" \notin fc[s]

\* TurnStateOK is inductive.
LEMMA TurnStateStep ==
    ASSUME Typing, TurnStateOK, Next
    PROVE  TurnStateOK'
<1> DEFINE LoadedOK(k) == turn[k].loaded \subseteq turn[k].active
           RunningOK(k) == /\ turn[k].full => start[k].tools \subseteq turn[k].active
                           /\ turn[k].skillsFull => start[k].skills \subseteq turn[k].skills
                           /\ turn[k].active \subseteq start[k].tools \cup named[k]
<1>0. TurnTyping
  BY DEF Typing
<1>1. ASSUME NEW k \in Sessions
      PROVE  LoadedOK(k) /\ (pc[k] # "idle" /\ Progressive => RunningOK(k))
  BY DEF TurnStateOK
<1>2. SUFFICES ASSUME NEW k \in Sessions
               PROVE  LoadedOK(k)' /\ (pc'[k] # "idle" /\ Progressive' => RunningOK(k)')
  BY DEF TurnStateOK
<1>3. ASSUME turn'[k] = turn[k], start'[k] = start[k], named'[k] = named[k],
             pc'[k] # "idle" => pc[k] # "idle"
      PROVE  LoadedOK(k)' /\ (pc'[k] # "idle" /\ Progressive' => RunningOK(k)')
  <2>1. pc'[k] # "idle" /\ Progressive' => pc[k] # "idle" /\ Progressive
    BY <1>3, ModeStep DEF Progressive
  <2> QED BY <1>1, <1>3, <2>1
<1>4. CASE Invoke(k)
  <2>1. start'[k] = [tools |-> toolNames, skills |-> skillIds]
    BY <1>0, <1>4 DEF Invoke, TurnTyping
  <2>2. start'[k].tools = toolNames /\ start'[k].skills = skillIds
    BY <2>1
  <2>3. /\ turn[k].loaded \subseteq turn[k].active => turn'[k].loaded \subseteq turn'[k].active
        /\ effectiveMode' \in {"progressive", "selective"} =>
              /\ turn'[k].active \subseteq toolNames
              /\ turn'[k].full => toolNames \subseteq turn'[k].active
              /\ turn'[k].skillsFull => skillIds \subseteq turn'[k].skills
    BY <1>4, InvokeSpec
  <2> QED BY <1>1, <2>2, <2>3 DEF Progressive
<1>5. CASE Recall(k)
  <2>1. PICK r \in Recalls : /\ turn' = [turn EXCEPT ![k] = SeedRecall(k, r)]
                             /\ named' = [named EXCEPT ![k] = @ \cup r.tools]
    BY <1>5 DEF Recall
  <2>2. turn'[k] = SeedRecall(k, r) /\ named'[k] = named[k] \cup r.tools
    BY <1>0, <2>1 DEF TurnTyping
  <2>3. /\ turn'[k].loaded = turn[k].loaded /\ turn[k].active \subseteq turn'[k].active
        /\ turn'[k].active \subseteq turn[k].active \cup start[k].tools \cup r.tools
        /\ turn'[k].full => start[k].tools \subseteq turn'[k].active
        /\ turn'[k].skillsFull => start[k].skills \subseteq turn'[k].skills
    BY <2>2, SeedRecallSpec
  <2>4. UNCHANGED <<start, effectiveMode>> /\ pc[k] # "idle"
    BY <1>5 DEF Recall
  <2>5. LoadedOK(k)'
    BY <1>1, <2>3
  <2>6. Progressive' => turn'[k].active \subseteq start'[k].tools \cup named'[k]
    BY <1>1, <2>2, <2>3, <2>4 DEF Progressive
  <2> QED BY <2>3, <2>4, <2>5, <2>6
<1>6. ASSUME NEW n \in Tools \cup {Unknown}, ToolSearchLoad(k, n) \/ ToolSearchSearch(k) \/ SkillSearchSearch(k)
      PROVE  LoadedOK(k)' /\ (pc'[k] # "idle" /\ Progressive' => RunningOK(k)')
  <2>1. UNCHANGED <<start, effectiveMode>> /\ pc[k] # "idle"
    BY <1>6 DEF ToolSearchLoad, ToolSearchSearch, SkillSearchSearch, NextIteration, Offered
  <2>2. /\ turn[k].active \subseteq turn'[k].active /\ turn[k].skills \subseteq turn'[k].skills
        /\ turn[k].loaded \subseteq turn[k].active => turn'[k].loaded \subseteq turn'[k].active
        /\ named[k] \subseteq named'[k] /\ turn'[k].active \subseteq turn[k].active \cup named'[k]
        /\ turn'[k].full => turn[k].full
        /\ turn'[k].skillsFull => turn[k].skillsFull
    BY <1>6, SearchSpec
  <2>3. LoadedOK(k)'
    BY <1>1, <2>2
  <2>4. ASSUME Progressive PROVE RunningOK(k)'
    <3>1. RunningOK(k)
      BY <1>1, <2>1, <2>4
    <3> QED BY <2>1, <2>2, <3>1
  <2> QED BY <2>1, <2>3, <2>4 DEF Progressive
<1>7. CASE BuildPrompt(k) \/ BuildToolSchemas(k) \/ EndTurn(k)
  <2>1. UNCHANGED <<turn, start, named>> /\ pc[k] # "idle"
    BY <1>7 DEF BuildPrompt, BuildToolSchemas, EndTurn
  <2> QED BY <1>3, <2>1
<1>8. CASE SessionStep(k)
  <2>1. Unknown \in Tools \cup {Unknown}
    OBVIOUS
  <2> QED BY <1>4, <1>5, <1>6, <1>7, <1>8, <2>1 DEF SessionStep
<1>9. ASSUME NEW s \in Sessions, s # k, SessionStep(s)
      PROVE  LoadedOK(k)' /\ (pc'[k] # "idle" /\ Progressive' => RunningOK(k)')
  BY <1>3, <1>9, OthersKeep
<1>10. CASE UNCHANGED <<pc, iteration, turn, prompt, fc, claim, start, named>>
  BY <1>3, <1>10
<1> QED BY <1>8, <1>9, <1>10, StepOfOne

\* PromptOK and OfferOK are inductive: between BuildPrompt and the model's
\* answer no step changes the session's TurnState.
LEMMA PromptOfferStep ==
    ASSUME Typing, TurnStateOK, PromptOK, OfferOK, Next
    PROVE  PromptOK' /\ OfferOK'
<1> DEFINE Shown(k) ==
             /\ Progressive =>
                  /\ Listed(prompt[k].knownTools \cap (turn[k].active \cup AlwaysOn)) \subseteq prompt[k].tools
                  /\ prompt[k].knownSkills \cap turn[k].skills \subseteq prompt[k].skills
             /\ ~Progressive => prompt[k].knownSkills \subseteq prompt[k].skills
           Callable(k) ==
             /\ Progressive => fc[k] \subseteq (AlwaysOn \cup turn[k].loaded) \ Unprobed /\ MetaToolNames \subseteq fc[k]
             /\ ~Progressive => "tool_search" \notin fc[k]
<1>0. TurnTyping /\ PoolTyping
  BY DEF Typing
<1>1. ASSUME NEW k \in Sessions
      PROVE  (pc[k] \in {"call", "tools"} => Shown(k)) /\ (pc[k] = "tools" => Callable(k))
  BY DEF PromptOK, OfferOK
<1>2. SUFFICES ASSUME NEW k \in Sessions
               PROVE  (pc'[k] \in {"call", "tools"} => Shown(k)') /\ (pc'[k] = "tools" => Callable(k)')
  BY DEF PromptOK, OfferOK
<1>3. ASSUME pc'[k] = pc[k], turn'[k] = turn[k], prompt'[k] = prompt[k], fc'[k] = fc[k]
      PROVE  (pc'[k] \in {"call", "tools"} => Shown(k)') /\ (pc'[k] = "tools" => Callable(k)')
  <2>1. pc'[k] \in {"call", "tools"} => (Progressive' <=> Progressive)
    BY <1>3, ModeStep DEF Progressive
  <2> QED BY <1>1, <1>3, <2>1
<1>4. CASE BuildPrompt(k)
  <2> DEFINE p == [tools |-> IF Progressive THEN GetToolCatalog(turn[k].active \cup AlwaysOn) ELSE Schemas(toolNames),
                   skills |-> IF Progressive THEN SkillCatalog(LoadSkills, turn[k].skills) ELSE LoadSkills,
                   knownTools |-> registered, knownSkills |-> LoadSkills]
  <2>1. prompt'[k] = p /\ pc'[k] = "call" /\ UNCHANGED <<turn, effectiveMode>>
    BY <1>0, <1>4 DEF BuildPrompt, TurnTyping
  <2>2. /\ p.tools = IF Progressive THEN GetToolCatalog(turn[k].active \cup AlwaysOn) ELSE Schemas(toolNames)
        /\ p.skills = IF Progressive THEN SkillCatalog(LoadSkills, turn[k].skills) ELSE LoadSkills
        /\ p.knownTools = registered /\ p.knownSkills = LoadSkills
    OBVIOUS
  <2> HIDE DEF p
  <2>3. CASE Progressive
    BY <2>1, <2>2, <2>3 DEF GetToolCatalog, Schemas, Listed, SkillCatalog, Progressive
  <2>4. CASE ~Progressive
    BY <2>1, <2>2, <2>4 DEF Progressive
  <2> QED BY <2>3, <2>4
<1>5. CASE BuildToolSchemas(k)
  <2>1. /\ fc'[k] = Schemas(IF Progressive THEN AlwaysOn \cup turn[k].loaded ELSE toolNames)
        /\ pc[k] = "call" /\ pc'[k] = "tools" /\ UNCHANGED <<turn, prompt, effectiveMode>>
    BY <1>0, <1>5 DEF BuildToolSchemas, TurnTyping
  <2>2. Shown(k)'
    BY <1>1, <2>1 DEF Progressive
  <2>3. Progressive => MetaToolNames \subseteq registered
    BY <1>0 DEF PoolTyping, MetaToolNames, Progressive
  <2>4. "tool_search" \notin toolNames
    BY <1>0, DisclosureAssumption DEF PoolTyping, MetaToolNames
  <2>5. MetaToolNames \cap Unprobed = {}
    BY DisclosureAssumption
  <2>6. Callable(k)'
    BY <2>1, <2>3, <2>4, <2>5 DEF AlwaysOn, Progressive, Schemas
  <2> QED BY <2>2, <2>6
<1>6. ASSUME NEW n \in Tools \cup {Unknown},
             \/ Invoke(k) \/ Recall(k) \/ EndTurn(k)
             \/ ToolSearchLoad(k, n) \/ ToolSearchSearch(k) \/ SkillSearchSearch(k)
      PROVE  pc'[k] \in {"idle", "recall", "prompt"}
  BY <1>0, <1>6 DEF Invoke, Recall, EndTurn, ToolSearchLoad, ToolSearchSearch, SkillSearchSearch, NextIteration,
                    TurnTyping
<1>7. CASE SessionStep(k)
  <2>1. Unknown \in Tools \cup {Unknown}
    OBVIOUS
  <2> QED BY <1>4, <1>5, <1>6, <1>7, <2>1 DEF SessionStep
<1>8. ASSUME NEW s \in Sessions, s # k, SessionStep(s)
      PROVE  (pc'[k] \in {"call", "tools"} => Shown(k)') /\ (pc'[k] = "tools" => Callable(k)')
  BY <1>3, <1>8, OthersKeep
<1>9. CASE UNCHANGED <<pc, iteration, turn, prompt, fc, claim, start, named>>
  BY <1>3, <1>9
<1> QED BY <1>7, <1>8, <1>9, StepOfOne

\* The three hold in every reachable state.
LEMMA TurnInvariant == Spec => [](TurnStateOK /\ PromptOK /\ OfferOK)
<1>1. Init => TurnStateOK /\ PromptOK /\ OfferOK
  BY NoTurnSpec DEF Init, TurnStateOK, PromptOK, OfferOK
<1>2. Typing /\ TurnStateOK /\ PromptOK /\ OfferOK /\ [Next]_vars => (TurnStateOK /\ PromptOK /\ OfferOK)'
  <2>1. CASE UNCHANGED vars
    BY <2>1 DEF vars, TurnStateOK, PromptOK, OfferOK, Progressive
  <2> QED BY <2>1, TurnStateStep, PromptOfferStep
<1> QED BY <1>1, <1>2, TypingInvariant, PTL DEF Spec

\* In the progressive modes every tool that can be called, has a description and
\* was registered when the prompt was rendered is in the prompt's catalog, and both searches
\* can be called, also when the mode came from auto or from a reload.
THEOREM CallableToolsAreListed == Spec => []CallableIsListed
<1>1. TurnStateOK /\ PromptOK /\ OfferOK => CallableIsListed
  BY DEF TurnStateOK, PromptOK, OfferOK, CallableIsListed, Listed
<1> QED BY <1>1, TurnInvariant, PTL

\* A turn's active tools are the pool it began with and the names it met since:
\* nothing is carried over from the session's earlier turns.
THEOREM TurnsStartFresh == Spec => []NothingCarriedOver
<1>1. TurnStateOK => NothingCarriedOver
  BY DEF TurnStateOK, NothingCarriedOver
<1> QED BY <1>1, TurnInvariant, PTL

-----------------------------------------------------------------------------
(* What a search says.                                                     *)

\* A search that answers that all is visible is right when it does, and the
\* answer is forgotten before the prompt or the pool changes.
LEMMA AllVisibleStep ==
    ASSUME Typing, TurnStateOK, PromptOK, OfferOK, AllVisibleIsTrue, Next
    PROVE  AllVisibleIsTrue'
<1> DEFINE True(k) ==
             /\ claim[k] = "tools" => Listed(start[k].tools \cap prompt[k].knownTools) \subseteq prompt[k].tools
             /\ claim[k] = "skills" => start[k].skills \cap prompt[k].knownSkills \subseteq prompt[k].skills
<1>0. TurnTyping
  BY DEF Typing
<1>1. SUFFICES ASSUME NEW k \in Sessions PROVE True(k)'
  BY DEF AllVisibleIsTrue, Listed
<1>2. ASSUME claim'[k] = claim[k], start'[k] = start[k], prompt'[k] = prompt[k] PROVE True(k)'
  BY <1>2 DEF AllVisibleIsTrue, Listed
<1>3. CASE Invoke(k) \/ BuildPrompt(k) \/ EndTurn(k)
  <2>1. claim'[k] = "none"
    BY <1>0, <1>3 DEF Invoke, BuildPrompt, EndTurn, TurnTyping
  <2> QED BY <2>1
<1>4. CASE Recall(k) \/ BuildToolSchemas(k) \/ \E n \in Tools \cup {Unknown} : ToolSearchLoad(k, n)
  <2>1. UNCHANGED <<claim, start>> /\ prompt' = prompt
    BY <1>4 DEF Recall, BuildToolSchemas, ToolSearchLoad, NextIteration
  <2> QED BY <1>2, <2>1
<1>5. CASE ToolSearchSearch(k)
  <2>1. UNCHANGED <<start, prompt>> /\ pc[k] = "tools" /\ "tool_search" \in fc[k]
    BY <1>5 DEF ToolSearchSearch, NextIteration, Offered
  <2>2. CASE turn[k].full /\ claim'[k] = "tools"
    <3>1. Progressive
      BY <2>1 DEF OfferOK
    <3>2. /\ start[k].tools \subseteq turn[k].active
          /\ Listed(prompt[k].knownTools \cap (turn[k].active \cup AlwaysOn)) \subseteq prompt[k].tools
      BY <2>1, <2>2, <3>1 DEF TurnStateOK, PromptOK
    <3> QED BY <2>1, <2>2, <3>2 DEF Listed
  <2>3. (turn[k].full /\ claim'[k] = "tools") \/ claim'[k] = claim[k]
    BY <1>0, <1>5 DEF ToolSearchSearch, TurnTyping
  <2> QED BY <1>2, <2>1, <2>2, <2>3
<1>6. CASE SkillSearchSearch(k)
  <2>1. UNCHANGED <<start, prompt>> /\ pc[k] = "tools"
    BY <1>6 DEF SkillSearchSearch, NextIteration, Offered
  <2>2. CASE turn[k].skillsFull /\ claim'[k] = "skills"
    <3>1. CASE Progressive
      <4>1. /\ start[k].skills \subseteq turn[k].skills
            /\ prompt[k].knownSkills \cap turn[k].skills \subseteq prompt[k].skills
        BY <2>1, <2>2, <3>1 DEF TurnStateOK, PromptOK
      <4> QED BY <2>1, <2>2, <4>1
    <3>2. CASE ~Progressive
      BY <2>1, <2>2, <3>2 DEF PromptOK
    <3> QED BY <3>1, <3>2
  <2>3. (turn[k].skillsFull /\ claim'[k] = "skills") \/ claim'[k] = claim[k]
    BY <1>0, <1>6 DEF SkillSearchSearch, TurnTyping
  <2> QED BY <1>2, <2>1, <2>2, <2>3
<1>7. ASSUME NEW s \in Sessions, s # k, SessionStep(s) PROVE True(k)'
  BY <1>2, <1>7, OthersKeep
<1>8. CASE UNCHANGED <<pc, iteration, turn, prompt, fc, claim, start, named>>
  BY <1>2, <1>8
<1> QED BY <1>3, <1>4, <1>5, <1>6, <1>7, <1>8, StepOfOne DEF SessionStep

\* When a search answers that everything is visible already, what was in the
\* pool at the turn's start, still existed at the last prompt and is none of the
\* tools the catalog always skips is listed there, also under a flag left over from another mode's turn.
THEOREM SearchAnswersAreTrue == Spec => []AllVisibleIsTrue
<1>1. Init => AllVisibleIsTrue
  BY DEF Init, AllVisibleIsTrue
<1>2. Typing /\ TurnStateOK /\ PromptOK /\ OfferOK /\ AllVisibleIsTrue /\ [Next]_vars => AllVisibleIsTrue'
  <2>1. CASE UNCHANGED vars
    BY <2>1 DEF vars, AllVisibleIsTrue
  <2> QED BY <2>1, AllVisibleStep
<1> QED BY <1>1, <1>2, TypingInvariant, TurnInvariant, PTL DEF Spec

=============================================================================
