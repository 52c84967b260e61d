---------------------------- MODULE MCAgentUpdate ----------------------------
(***************************************************************************)
(* The rollout of an agent version and the self-update of one agent, side  *)
(* by side: focus says which of the two a behaviour is about.  (While the  *)
(* rollout is in focus the other agent rests in its initial state, where   *)
(* none of its fair actions is enabled.)                                   *)
(***************************************************************************)
EXTENDS AgentRollout, SelfUpdate

VARIABLE focus
mcVars == <<focus, rolloutVars, selfVars>>

FleetOf(m, s, d, c, p, x) ==
    [members |-> 1..m, supported |-> s, doomed |-> d, concurrency |-> c,
     pauses |-> p, mishaps |-> x]
\* Two nodes one at a time with a mishap, a node that does not come back and
\* a pause, a node without an artifact, and three nodes two at a time.
MCFleets ==
    {FleetOf(2, {1, 2}, {}, 1, 0, 1), FleetOf(2, {1, 2}, {2}, 1, 1, 0),
     FleetOf(2, {1}, {}, 2, 0, 1), FleetOf(3, {1, 2, 3}, {}, 2, 0, 0)}

MCInit ==
    /\ focus \in {"rollout", "self"}
    /\ RolloutInit /\ SelfInit
    /\ focus = "self" => fleet = CHOOSE f \in Fleets : TRUE
MCNext ==
    /\ UNCHANGED focus
    /\ \/ focus = "rollout" /\ RolloutNext /\ UNCHANGED selfVars
       \/ focus = "self" /\ SelfNext /\ UNCHANGED rolloutVars
MCSpec == MCInit /\ [][MCNext]_mcVars
\* The workqueue and the requeue timers keep the reconciler going, agents and
\* their supervisors do not stop, and time passes however often the
\* reconciler runs (strong fairness: the clocks move between its passes).
RolloutFairness ==
    /\ WF_mcVars(focus = "rollout" /\ ReconcileSteps /\ UNCHANGED <<focus, selfVars>>)
    /\ SF_mcVars(focus = "rollout" /\ (\E n \in FleetNodes : TimePasses(n))
                    /\ UNCHANGED <<focus, selfVars>>)
    /\ \A n \in FleetNodes :
          WF_mcVars(focus = "rollout" /\ AgentSteps(n) /\ UNCHANGED <<focus, selfVars>>)

MCFairSpec == MCSpec /\ RolloutFairness /\ SelfFairness

\* The rollout's record of its nodes, and the files and the process of the
\* agent that updates itself, are what their types allow.
AgentsTypeOK == RolloutTypeOK /\ SelfTypeOK
=============================================================================
