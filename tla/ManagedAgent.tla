---------------------------- MODULE ManagedAgent ----------------------------
(***************************************************************************)
(* What self-update promises of an agent under its supervisor, and what    *)
(* the rollout relies on: the version to start next changes in one step,   *)
(* only while the agent runs the one installed before; from then on the    *)
(* agent can only stop, and it always comes back with the installed one.   *)
(***************************************************************************)
CONSTANTS Releases, Initial

VARIABLES up, running, installed

agentVars == <<up, running, installed>>

Install(v) ==
    /\ up /\ running = installed /\ v # running
    /\ installed' = v
    /\ UNCHANGED <<up, running>>

Stop == up /\ up' = FALSE /\ UNCHANGED <<running, installed>>

Start == ~up /\ up' = TRUE /\ running' = installed /\ UNCHANGED installed

AgentInit == up = TRUE /\ running = Initial /\ installed = Initial
AgentNext == (\E v \in Releases : Install(v)) \/ Stop \/ Start

\* A flip is followed by a stop, and a stopped agent is started again.
AgentFairness ==
    WF_agentVars(Stop /\ running # installed) /\ WF_agentVars(Start)

AgentSpec == AgentInit /\ [][AgentNext]_agentVars /\ AgentFairness
=============================================================================
