---------------------------- MODULE TurnService ----------------------------
(***************************************************************************)
(* What SessionManager promises the callers of Invoke and ReloadAgent,     *)
(* with no locks, gate or registry in sight:                               *)
(*   - a call is served in a slot (a session object), one call per slot at *)
(*     a time;                                                             *)
(*   - a call takes the Agent that is current at one instant between being *)
(*     submitted and being served, and its turn runs on that Agent however *)
(*     many times the current Agent is swapped meanwhile.                  *)
(***************************************************************************)
CONSTANTS Callers, Slots, Agents, None

VARIABLES
    current,   \* the Agent new calls take
    phase,     \* caller -> progress of its call
    slot,      \* caller -> the slot it is bound to
    agent      \* caller -> the Agent it took

vars == <<current, phase, slot, agent>>

TypeOK ==
    /\ current \in Agents
    /\ phase \in [Callers -> {"idle", "queued", "bound", "serving"}]
    /\ slot \in [Callers -> Slots \cup {None}]
    /\ agent \in [Callers -> Agents \cup {None}]

Init ==
    /\ current \in Agents
    /\ phase = [c \in Callers |-> "idle"]
    /\ slot = [c \in Callers |-> None]
    /\ agent = [c \in Callers |-> None]

Submit(c) ==
    /\ phase[c] = "idle"
    /\ phase' = [phase EXCEPT ![c] = "queued"]
    /\ UNCHANGED <<current, slot, agent>>

\* The call fails before it is bound to anything.
Abandon(c) ==
    /\ phase[c] = "queued"
    /\ phase' = [phase EXCEPT ![c] = "idle"]
    /\ UNCHANGED <<current, slot, agent>>

Bind(c, x) ==
    /\ phase[c] = "queued"
    /\ phase' = [phase EXCEPT ![c] = "bound"]
    /\ slot' = [slot EXCEPT ![c] = x]
    /\ agent' = [agent EXCEPT ![c] = current]
    /\ UNCHANGED current

Serve(c) ==
    /\ phase[c] = "bound"
    /\ \A d \in Callers : phase[d] = "serving" => slot[d] # slot[c]
    /\ phase' = [phase EXCEPT ![c] = "serving"]
    /\ UNCHANGED <<current, slot, agent>>

Reply(c) ==
    /\ phase[c] = "serving"
    /\ phase' = [phase EXCEPT ![c] = "idle"]
    /\ slot' = [slot EXCEPT ![c] = None]
    /\ agent' = [agent EXCEPT ![c] = None]
    /\ UNCHANGED current

Swap(a) ==
    /\ current' = a
    /\ UNCHANGED <<phase, slot, agent>>

Next ==
    \/ \E c \in Callers : \/ Submit(c) \/ Abandon(c) \/ Serve(c) \/ Reply(c)
                          \/ \E x \in Slots : Bind(c, x)
    \/ \E a \in Agents : Swap(a)

Spec == Init /\ [][Next]_vars
=============================================================================
