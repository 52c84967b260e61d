---------------------------- MODULE AgentRollout ----------------------------
(***************************************************************************)
(* internal/foreman/controller/agentrelease_controller.go: the staged      *)
(* rollout of one agent version over the FleetNodes, with the agents that  *)
(* carry it out (pkg/foreman/agent/fleetnode.go).  A reconcile reads the   *)
(* nodes once and then writes step by step; it may end after any write.    *)
(* An agent replaces its binary as ManagedAgent says, which SelfUpdate is  *)
(* shown to implement.                                                     *)
(***************************************************************************)
EXTENDS Integers, FiniteSets, FiniteSetsExt

CONSTANTS
    NumNodes,   \* FleetNodes, numbered in name order
    Fleets,     \* the fleets and releases considered, see Fleet
    AbortsAt    \* writes of a reconcile that may fail

FleetNodes == 1..NumNodes
Fleet ==
    [members : SUBSET FleetNodes,       \* nodes with an agent of the kind
     supported : SUBSET FleetNodes,     \* nodes whose os/arch has an artifact
     doomed : SUBSET FleetNodes,        \* nodes where the new binary does not start
     concurrency : Nat \ {0},           \* spec.concurrency
     pauses : Nat,                      \* bound: times the release is paused
     mishaps : Nat]                     \* bound: stops, silences and failing calls

ASSUME RolloutAssumption == NumNodes \in Nat /\ Fleets \subseteq Fleet

VARIABLES
    fleet,      \* which of Fleets this is; pauses and mishaps count down
    release,    \* AgentRelease: spec.approved, spec.paused, status
    node,       \* FleetNode.status of each node
    agent,      \* the agent process of each node
    pass        \* the reconcile in progress

rolloutVars == <<fleet, release, node, agent, pass>>

VersionsSeen == {"none", "old", "new"}      \* new: spec.version
ReleasePhases ==
    {"", "Pending", "AwaitingApproval", "InProgress", "Paused", "Succeeded", "Failed"}
NodePhases == {"", "Pending", "Updating", "Updated", "Failed"}

NodeStatus ==
    [phase : NodePhases,
     observed : VersionsSeen,
     soak : {"unset", "running", "elapsed"},        \* LastTransitionTime, as the
                                                    \* soak window reads it
     dispatched : {"unset", "running", "expired"}]  \* DispatchedAt
Release ==
    [approved : BOOLEAN, paused : BOOLEAN, phase : ReleasePhases,
     ns : [FleetNodes -> NodeStatus]]
Node == [version : VersionsSeen, ready : BOOLEAN, fresh : BOOLEAN, request : BOOLEAN]
Agent == [up : BOOLEAN, applying : BOOLEAN,
          running : {"old", "new"}, installed : {"old", "new"}]

Stages == {"idle", "clear", "counts", "halt", "succeed", "await", "dispatch", "recount", "progress"}
Pass ==
    [pc : Stages,
     nodes : [FleetNodes -> Node],      \* the FleetNodes as listed
     ns : [FleetNodes -> NodeStatus],   \* the statuses to write
     approved : BOOLEAN,
     todo : SUBSET FleetNodes]          \* nodes still to clear, or to dispatch

NewStatus == [phase |-> "", observed |-> "none", soak |-> "unset", dispatched |-> "unset"]
NewNode == [version |-> "none", ready |-> FALSE, fresh |-> FALSE, request |-> FALSE]
NoPass ==
    [pc |-> "idle", nodes |-> [n \in FleetNodes |-> NewNode],
     ns |-> [n \in FleetNodes |-> NewStatus], approved |-> FALSE, todo |-> {}]

Mishap == fleet.mishaps > 0 /\ fleet' = [fleet EXCEPT !.mishaps = @ - 1]

----------------------------------------------------------------------------
\* computeNodeStatuses for one node: s is its entry, nd the FleetNode.
OnTarget(nd) == nd.version = "new" /\ nd.ready /\ nd.fresh

\* Version arrival starts the soak clock; the entry is Updated when it is over.
Soaking(s) ==
    LET seeded == IF s.observed # "new" \/ s.soak = "unset"
                  THEN [s EXCEPT !.phase = "Updating", !.soak = "running", !.observed = "new"]
                  ELSE s
    IN IF seeded.soak = "elapsed" THEN [seeded EXCEPT !.phase = "Updated"] ELSE seeded

\* Not on the target yet: in flight, timed out, or waiting for its turn.
Awaited(s, nd) ==
    LET seen == [s EXCEPT !.observed = nd.version]
    IN CASE nd.request /\ s.dispatched = "expired" ->
              [seen EXCEPT !.phase = "Failed", !.soak = "running"]
         [] nd.request /\ s.dispatched = "running" ->
              [seen EXCEPT !.phase = IF @ = "" THEN "Updating" ELSE @]
         [] ~nd.request /\ s.phase \in {"", "Updating"} -> [seen EXCEPT !.phase = "Pending"]
         [] nd.request /\ s.dispatched = "unset" ->
              [seen EXCEPT !.phase = IF @ = "" THEN "Pending" ELSE @]
         [] OTHER -> seen

ComputeNodeStatus(s, nd) ==
    CASE OnTarget(nd) /\ s.phase # "Updated" -> Soaking(s)
      [] ~OnTarget(nd) /\ s.phase \notin {"Updated", "Failed"} -> Awaited(s, nd)
      [] OTHER -> [s EXCEPT !.observed = nd.version]

\* The pre-pass: a Pending node without an artifact fails.
Prepass(n, s) ==
    IF s.phase = "Pending" /\ n \notin fleet.supported
    THEN [s EXCEPT !.phase = "Failed", !.soak = "running"] ELSE s

\* resolveTargetNodes: a node has the agent kind once its agent has beaten.
Targets(nds) == {n \in FleetNodes : nds[n].version # "none"}

\* Mutant: a node whose soak window runs no longer counts.
InFlightUnlessSoaking(nds, ns) ==
    {n \in Targets(nds) :
        /\ nds[n].request /\ ~OnTarget(nds[n]) /\ ns[n].dispatched = "running"
        /\ ns[n].phase \notin {"Updated", "Failed"}}

\* Nodes that count toward the concurrency, given the statuses computed.
InFlight(nds, ns) ==
    {n \in Targets(nds) :
        /\ nds[n].request
        /\ \/ ns[n].phase = "Updating"
           \/ ~OnTarget(nds[n]) /\ ns[n].dispatched = "running"
                /\ ns[n].phase \notin {"Updated", "Failed"}}

\* dispatchCandidates: the first capacity nodes, by name, that may start.
Dispatchable(nds, ns) ==
    {n \in Targets(nds) \cap fleet.supported :
        /\ ns[n].phase \notin {"Updated", "Failed"}
        /\ ~nds[n].request
        /\ ~(ns[n].phase = "Updating" /\ nds[n].version = "new")}
Candidates(nds, ns) ==
    LET capacity == fleet.concurrency - Cardinality(InFlight(nds, ns))
    IN {n \in Dispatchable(nds, ns) :
          Cardinality({m \in Dispatchable(nds, ns) : m < n}) < capacity}

----------------------------------------------------------------------------
Terminal == {"Succeeded", "Failed"}

\* Reconcile of a paused or a new release: one write.
ReconcileHeld ==
    /\ pass.pc = "idle"
    /\ \/ /\ release.paused /\ release.phase \notin Terminal \cup {"Paused"}
          /\ release' = [release EXCEPT !.phase = "Paused"]
       \/ /\ ~release.paused /\ release.phase = ""
          /\ release' = [release EXCEPT !.phase = "Pending"]
    /\ UNCHANGED <<fleet, node, agent, pass>>

\* reconcileActive up to the first write.
ReconcileActive ==
    /\ pass.pc = "idle"
    /\ ~release.paused /\ release.phase \notin Terminal \cup {""}
    /\ \E ns \in {[n \in FleetNodes |->
                      IF n \in Targets(node) THEN ComputeNodeStatus(release.ns[n], node[n])
                      ELSE NewStatus]} :
         \E passed \in {{n \in FleetNodes : ns[n].phase = "Updated"
                                              /\ release.ns[n].phase # "Updated"}} :
           pass' = [pc |-> IF passed = {} THEN "counts" ELSE "clear", nodes |-> node,
                    ns |-> ns, approved |-> release.approved, todo |-> passed]
    /\ UNCHANGED <<fleet, release, node, agent>>

\* clearUpdateRequest for each node that passed the health gate.
ClearUpdateRequest ==
    /\ pass.pc = "clear"
    /\ \E n \in {Min(pass.todo)} :
         /\ node' = [node EXCEPT ![n] = [@ EXCEPT !.request = FALSE]]
         /\ pass' = [pass EXCEPT !.todo = @ \ {n},
                                 !.pc = IF pass.todo = {n} THEN "counts" ELSE "clear"]
    /\ UNCHANGED <<fleet, release, agent>>

\* Mutant: only a missing artifact is reported as a failure of this pass.
NewlyFailedArtifactOnly(ns) ==
    {n \in Targets(pass.nodes) \ fleet.supported :
        ns[n].phase = "Failed" /\ release.ns[n].phase # "Failed"}

\* Nodes that failed in this pass, by timeout or for want of an artifact.
NewlyFailed(ns) ==
    {n \in Targets(pass.nodes) : ns[n].phase = "Failed" /\ release.ns[n].phase # "Failed"}

\* The prepass, patchCounts, and what is left to do after it.
PatchCounts ==
    /\ pass.pc = "counts"
    /\ \E ns \in {[n \in FleetNodes |-> Prepass(n, pass.ns[n])]} :
         \E ts \in {Targets(pass.nodes)} :
         \E cs \in {Candidates(pass.nodes, ns)} :
           /\ release' = [release EXCEPT !.ns = ns]
           /\ pass' =
                CASE NewlyFailed(ns) # {} -> [NoPass EXCEPT !.pc = "halt"]
                  [] NewlyFailed(ns) = {} /\ ts # {} /\ (\A n \in ts : ns[n].phase = "Updated") ->
                       [NoPass EXCEPT !.pc = "succeed"]
                  [] OTHER ->
                       IF ~pass.approved THEN [NoPass EXCEPT !.pc = "await"]
                       ELSE IF cs = {} THEN [NoPass EXCEPT !.pc = "progress"]
                       ELSE [NoPass EXCEPT !.pc = "dispatch", !.ns = ns, !.todo = cs]
    /\ UNCHANGED <<fleet, node, agent>>

\* haltFailed, setSucceeded, setAwaitingApproval and setInProgress.
SetPhase ==
    /\ pass.pc \in {"halt", "succeed", "await", "progress"}
    /\ release' = [release EXCEPT !.phase =
           CASE pass.pc = "halt" -> "Failed" [] pass.pc = "succeed" -> "Succeeded"
             [] pass.pc = "await" -> "AwaitingApproval" [] OTHER -> "InProgress"]
    /\ pass' = NoPass
    /\ UNCHANGED <<fleet, node, agent>>

\* Mutant: DispatchedAt is not stamped.
DispatchCandidateNoStamp ==
    /\ pass.pc = "dispatch"
    /\ \E n \in {Min(pass.todo)} :
         /\ node' = [node EXCEPT ![n] = [@ EXCEPT !.request = TRUE]]
         /\ pass' = [pass EXCEPT
              !.todo = @ \ {n},
              !.pc = IF pass.todo = {n} THEN "recount" ELSE "dispatch",
              !.ns[n].phase = "Updating"]
    /\ UNCHANGED <<fleet, release, agent>>

DispatchCandidate ==
    /\ pass.pc = "dispatch"
    /\ \E n \in {Min(pass.todo)} :
         /\ node' = [node EXCEPT ![n] = [@ EXCEPT !.request = TRUE]]
         /\ pass' = [pass EXCEPT
              !.todo = @ \ {n},
              !.pc = IF pass.todo = {n} THEN "recount" ELSE "dispatch",
              !.ns[n].phase = "Updating", !.ns[n].dispatched = "running"]
    /\ UNCHANGED <<fleet, release, agent>>

\* The second patchCounts records what was dispatched.
RecordDispatched ==
    /\ pass.pc = "recount"
    /\ release' = [release EXCEPT !.ns = pass.ns]
    /\ pass' = [NoPass EXCEPT !.pc = "progress"]
    /\ UNCHANGED <<fleet, node, agent>>

\* A write fails or the operator restarts: the next reconcile starts over.
PassAborts ==
    /\ pass.pc \in AbortsAt
    /\ Mishap
    /\ pass' = NoPass
    /\ UNCHANGED <<release, node, agent>>

----------------------------------------------------------------------------
\* People, and the clocks the next reconcile compares with now.
Approve ==
    /\ ~release.approved
    /\ release' = [release EXCEPT !.approved = TRUE]
    /\ UNCHANGED <<fleet, node, agent, pass>>

Pause ==
    /\ ~release.paused /\ fleet.pauses > 0
    /\ release' = [release EXCEPT !.paused = TRUE]
    /\ fleet' = [fleet EXCEPT !.pauses = @ - 1]
    /\ UNCHANGED <<node, agent, pass>>

Resume ==
    /\ release.paused
    /\ release' = [release EXCEPT !.paused = FALSE]
    /\ UNCHANGED <<fleet, node, agent, pass>>

SoakElapses(n) ==
    /\ pass.pc = "idle" /\ release.ns[n].soak = "running"
    /\ release' = [release EXCEPT !.ns[n].soak = "elapsed"]
    /\ UNCHANGED <<fleet, node, agent, pass>>

DispatchExpires(n) ==
    /\ pass.pc = "idle" /\ release.ns[n].dispatched = "running"
    /\ release' = [release EXCEPT !.ns[n].dispatched = "expired"]
    /\ UNCHANGED <<fleet, node, agent, pass>>

TimePasses(n) == SoakElapses(n) \/ DispatchExpires(n)

----------------------------------------------------------------------------
\* The agents.  PatchHeartbeat, and maybeApplySelfUpdate on what it returned:
\* the loop does not beat while an update is being applied.  (The first beat
\* of a process, which applies nothing, is taken together with the next.)
Beat(n) ==
    /\ agent[n].up /\ ~agent[n].applying /\ agent[n].running = agent[n].installed
    /\ node' = [node EXCEPT ![n] = [@ EXCEPT !.version = agent[n].running,
                                             !.ready = TRUE, !.fresh = TRUE]]
    /\ agent' = [agent EXCEPT ![n] =
                   [@ EXCEPT !.applying = node[n].request /\ agent[n].running # "new"]]
    /\ <<node', agent'>> # <<node, agent>>
    /\ UNCHANGED <<fleet, release, pass>>

\* Mutant: the running process takes on the new version in place.
ApplyUpdateInPlace(n) ==
    /\ agent[n].up /\ agent[n].applying
    /\ \/ /\ agent' = [agent EXCEPT ![n] = [@ EXCEPT !.applying = FALSE,
                                         !.installed = "new", !.running = "new"]]
          /\ UNCHANGED fleet
       \/ /\ Mishap
          /\ agent' = [agent EXCEPT ![n] = [@ EXCEPT !.applying = FALSE]]
    /\ UNCHANGED <<release, node, pass>>

ApplyUpdate(n) ==
    /\ agent[n].up /\ agent[n].applying
    /\ \/ /\ agent' = [agent EXCEPT ![n] = [@ EXCEPT !.applying = FALSE, !.installed = "new"]]
          /\ UNCHANGED fleet
       \/ /\ Mishap
          /\ agent' = [agent EXCEPT ![n] = [@ EXCEPT !.applying = FALSE]]
    /\ UNCHANGED <<release, node, pass>>

\* The Draining beat after a flip, which may fail, and the exit.
DrainAndExit(n) ==
    /\ agent[n].up /\ agent[n].running # agent[n].installed
    /\ agent' = [agent EXCEPT ![n] = [@ EXCEPT !.up = FALSE]]
    /\ \/ /\ node' = [node EXCEPT ![n] = [@ EXCEPT !.ready = FALSE, !.fresh = TRUE]]
          /\ UNCHANGED fleet
       \/ Mishap /\ UNCHANGED node
    /\ UNCHANGED <<release, pass>>

\* The agent dies, or is told to stop and reports Draining first.
AgentStops(n) ==
    /\ agent[n].up
    /\ Mishap
    /\ agent' = [agent EXCEPT ![n] = [@ EXCEPT !.up = FALSE, !.applying = FALSE]]
    /\ \/ UNCHANGED node
       \/ /\ ~agent[n].applying /\ agent[n].running = agent[n].installed
          /\ node' = [node EXCEPT ![n] = [@ EXCEPT !.version = agent[n].running,
                                                   !.ready = FALSE, !.fresh = TRUE]]
    /\ UNCHANGED <<release, pass>>

AgentStart(n) ==
    /\ n \in fleet.members /\ ~agent[n].up
    /\ ~(agent[n].installed = "new" /\ n \in fleet.doomed)
    /\ agent' = [agent EXCEPT ![n] = [@ EXCEPT !.up = TRUE, !.running = agent[n].installed]]
    /\ UNCHANGED <<fleet, release, node, pass>>

\* The heartbeat goes stale: the agent is down, busy, or cut off.
GoesStale(n) ==
    /\ node[n].fresh
    /\ \/ (~agent[n].up \/ agent[n].applying) /\ UNCHANGED fleet
       \/ agent[n].up /\ ~agent[n].applying /\ Mishap
    /\ node' = [node EXCEPT ![n] = [@ EXCEPT !.fresh = FALSE]]
    /\ UNCHANGED <<release, agent, pass>>

----------------------------------------------------------------------------
RolloutInit ==
    /\ fleet \in Fleets
    /\ release = [approved |-> FALSE, paused |-> FALSE, phase |-> "",
                  ns |-> [n \in FleetNodes |-> NewStatus]]
    /\ node = [n \in FleetNodes |-> NewNode]
    /\ agent = [n \in FleetNodes |-> [up |-> n \in fleet.members, applying |-> FALSE,
                                      running |-> "old", installed |-> "old"]]
    /\ pass = NoPass

ReconcileSteps ==
    \/ ReconcileHeld \/ ReconcileActive \/ ClearUpdateRequest \/ PatchCounts
    \/ SetPhase \/ DispatchCandidate \/ RecordDispatched

\* What the agent of a node, and its supervisor, do when nothing goes wrong.
AgentSteps(n) == Beat(n) \/ ApplyUpdate(n) \/ DrainAndExit(n) \/ AgentStart(n)

RolloutNext ==
    \/ ReconcileSteps \/ PassAborts
    \/ Approve \/ Pause \/ Resume
    \/ \E n \in FleetNodes :
          \/ TimePasses(n) \/ AgentSteps(n) \/ AgentStops(n) \/ GoesStale(n)

----------------------------------------------------------------------------
RolloutTypeOK ==
    /\ fleet \in Fleet
    /\ release \in Release /\ node \in [FleetNodes -> Node]
    /\ agent \in [FleetNodes -> Agent] /\ pass \in Pass

\* Never more nodes than spec.concurrency are asked to update and have
\* neither passed the health gate nor failed, whatever the agents do while a
\* reconcile works on its list of them.
InFlightBounded ==
    Cardinality({n \in FleetNodes :
        node[n].request /\ release.ns[n].phase \notin {"Updated", "Failed"}}) <= fleet.concurrency

\* A failed node halts the rollout: once a node's failure is recorded, no
\* other node is asked to update ("halted to bound blast radius").
HaltStopsDispatch ==
    [][(\E n \in FleetNodes : release.ns[n].phase = "Failed")
          => \A m \in FleetNodes : node'[m].request => node[m].request]_rolloutVars

\* The agents the rollout steers behave as SelfUpdate promises: a version is
\* installed only under a process that runs the one before, and it is first
\* run after a stop and a start.
Steered(n) == INSTANCE ManagedAgent WITH
    Releases <- {"old", "new"}, Initial <- "old", up <- agent[n].up,
    running <- agent[n].running, installed <- agent[n].installed
AgentsAreManaged ==
    [][\A n \in FleetNodes :
          Steered(n)!AgentNext \/ UNCHANGED Steered(n)!agentVars]_rolloutVars

\* An approved release that is not paused again comes to an end, whatever
\* the nodes do: each of them passes the gate, or one of them fails.
RolloutEnds ==
    <>[](release.approved /\ ~release.paused) => <>(release.phase \in Terminal)
=============================================================================
