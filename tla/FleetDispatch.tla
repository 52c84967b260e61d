--------------------------- MODULE FleetDispatch ---------------------------
(***************************************************************************)
(* The Foreman dispatch protocol: how an AgenticTask travels from Pending  *)
(* to a terminal phase across three programs that share nothing but the    *)
(* API server.                                                             *)
(*                                                                         *)
(*   - AgenticTaskReconciler (the scheduler) and FleetNodeReconciler run   *)
(*     in the operator.  Each is single-threaded, and both read through    *)
(*     informer caches, so every decision may rest on an old version of an *)
(*     object.                                                             *)
(*   - The foreman-agent runs once per FleetNode.  Its Registrar sends     *)
(*     heartbeats, its AgenticTaskWatcher claims tasks, executes them and  *)
(*     writes their terminal status.  It reads the API server directly.    *)
(*                                                                         *)
(* A status patch built with MergeFrom carries only the fields that differ *)
(* from the version it was computed from, and never conflicts.  One built  *)
(* with MergeFromWithOptimisticLock fails unless that version is still the *)
(* latest (synced below).                                                  *)
(***************************************************************************)
EXTENDS Integers, FiniteSets, Sequences

CONSTANTS
    Tasks,            \* the AgenticTasks, all created without a status
    Agents,           \* the Agents the tasks refer to
    NumNodes,         \* FleetNodes are 1..NumNodes, in name order
    AgentOf,          \* task -> its Agent
    JobAgents,        \* Agents with spec.execution.mode = Job
    MaxConcurrent,    \* Agent -> spec.maxConcurrentTasks
    Capabilities,     \* what a node may advertise in a heartbeat
    SatisfiedBy,      \* task -> the capabilities that meet its requirement
    Rank,             \* task -> position in sortTasksDepthFirst
    InCluster,        \* nodes whose agent is a pod (status.kubernetesNode set)
    NoTask,           \* an empty status.currentTask
    ClaimExpiryLimit, \* claimExpiryLimit
    MaxSupervised,    \* AgenticTaskWatcher.maxSupervised
    Stall,            \* may an agent sleep between a read and its write?
    OwnWriteLag,      \* may a reconcile miss the operator's own last write?
    FailingCalls,     \* API calls that may report an error
    MaxAge,           \* 1: heartbeats go stale, 2: silent past the reap window
    MaxLag,           \* bound on task events the operator has yet to receive
    MaxClaims,        \* bound on claims
    MaxFaults         \* bound on crashes, drains, deletions, silences, errors

Nodes  == 1..NumNodes
NoNode == 0
NoClaim == 0

ASSUME ConstantsAssumption ==
    /\ NumNodes \in Nat
    /\ IsFiniteSet(Tasks) /\ NoTask \notin Tasks
    /\ AgentOf \in [Tasks -> Agents] /\ JobAgents \subseteq Agents
    /\ MaxConcurrent \in [Agents -> Nat]
    /\ SatisfiedBy \in [Tasks -> SUBSET Capabilities]
    /\ Rank \in [Tasks -> Nat]
    /\ InCluster \subseteq Nodes
    /\ ClaimExpiryLimit \in Nat /\ MaxSupervised \in Nat \ {0}
    /\ Stall \in BOOLEAN /\ OwnWriteLag \in BOOLEAN
    /\ FailingCalls \subseteq {"schedule", "recover", "claim", "terminal"}
    /\ MaxAge \in Nat /\ MaxLag \in Nat /\ MaxClaims \in Nat /\ MaxFaults \in Nat

VARIABLES
    task,        \* the AgenticTasks on the API server
    taskCache,   \* the operator's informer cache of them
    feed,        \* task -> its versions the watch has yet to deliver
    ownLag,      \* task -> how many of those until the scheduler's last write
    fleet,       \* the FleetNodes on the API server
    fleetCache,  \* the operator's informer cache of them
    synced,      \* nodes whose cached resourceVersion is the latest
    sched,       \* the scheduler's reconcile in progress
    agent,       \* node -> state of its foreman-agent process
    listed,      \* node -> tasks its agent has listed and not yet acted on
    runs,        \* node -> executions in its agent process
    nextClaim,   \* the next ClaimedAt timestamp
    faults       \* environment faults so far

taskVars   == <<task, feed, ownLag>>
nodeVars   == <<fleet, synced>>
cacheVars  == <<taskCache, fleetCache>>
agentVars  == <<agent, listed, runs, nextClaim>>
vars == <<task, feed, ownLag, taskCache, fleet, synced, fleetCache, sched,
          agent, listed, runs, nextClaim, faults>>

----------------------------------------------------------------------------
(* Objects *)

Terminal == {"Succeeded", "Failed"}
InFlight == {"Scheduled", "Running"}       \* nothing ever writes "Verifying"
Phases   == {"New", "Pending", "Gone"} \cup InFlight \cup Terminal

\* status.phase, status.assignedNode, status.claimedAt and the claim-expiries
\* annotation.  "New" is the empty phase; "Gone" a deleted task.  releases is
\* a history field: how often claim expiry took the task away from a node.
TaskState == [phase : Phases, assignedNode : Nodes \cup {NoNode},
              claimedAt : Nat, expiries : Nat, releases : Nat]

NewTask == [phase |-> "New", assignedNode |-> NoNode, claimedAt |-> NoClaim,
            expiries |-> 0, releases |-> 0]

\* age abstracts lastHeartbeatTime: 0 within FleetNodeHeartbeatTimeout, 1 past
\* it (or never beaten), 2 past the drain and not-ready reap timeouts.
NodeState == [exists : BOOLEAN, phase : {"", "Ready", "NotReady", "Draining"},
              age : Nat, currentTask : Tasks \cup {NoTask},
              capability : Capabilities \cup {""}]

NoFleetNode  == [exists |-> FALSE, phase |-> "", age |-> 1,
                 currentTask |-> NoTask, capability |-> ""]
NewFleetNode == [NoFleetNode EXCEPT !.exists = TRUE]

IsJob(t) == AgentOf[t] \in JobAgents

HeartbeatStale(f)   == f.age >= 1
DrainReapable(f)    == f.age >= 2
NotReadyReapable(n, f) == n \in InCluster /\ f.age >= 2

\* The scheduler is idle, or in a reconcile between two of its API calls.
Busy(pc, t, n, prior) == [pc |-> pc, task |-> t, node |-> n, prior |-> prior]
Idle == Busy("idle", NoTask, NoNode, 0)
SchedState == {Idle} \cup [pc : {"reserved", "expiring", "expired", "failing"},
                           task : Tasks, node : Nodes, prior : Nat]

RunState == [task : Tasks, claim : Nat, stage : {"exec", "write", "fallback"}]

Fault == faults < MaxFaults /\ faults' = faults + 1

MaxOf(a, b) == IF a >= b THEN a ELSE b

Init ==
    /\ task = [t \in Tasks |-> NewTask] /\ taskCache = task
    /\ feed = [t \in Tasks |-> <<>>] /\ ownLag = [t \in Tasks |-> 0]
    /\ fleet = [n \in Nodes |-> NoFleetNode] /\ fleetCache = fleet
    /\ synced = Nodes /\ sched = Idle
    /\ agent = [n \in Nodes |-> "down"]
    /\ listed = [n \in Nodes |-> {}] /\ runs = [n \in Nodes |-> {}]
    /\ nextClaim = 1 /\ faults = 0

----------------------------------------------------------------------------
(* Writes to the API server *)

\* A patch of task t to state s; a patch that changes nothing is no event.
WriteTask(t, s) ==
    /\ Len(feed[t]) < MaxLag
    /\ task' = [task EXCEPT ![t] = s]
    /\ feed' = IF s = task[t] THEN feed ELSE [feed EXCEPT ![t] = Append(@, s)]

\* A patch by an agent or a user.
AgentPatch(t, s) == WriteTask(t, s) /\ UNCHANGED ownLag

\* A patch by the scheduler.
SchedulerPatch(t, s) ==
    /\ WriteTask(t, s)
    /\ ownLag' = IF s = task[t] THEN ownLag
                 ELSE [ownLag EXCEPT ![t] = Len(feed[t]) + 1]

\* A patch that changes node n makes its cached version an old one.
WriteNode(n, f) ==
    /\ fleet' = [fleet EXCEPT ![n] = f]
    /\ synced' = IF f = fleet[n] THEN synced ELSE synced \ {n}

----------------------------------------------------------------------------
(* Shared by the two reconcilers *)

\* Mutant: the window before scheduleToNode is forgotten.
TaskIsLiveAssignedOnly(t, n) ==
    /\ taskCache[t].phase \notin Terminal \cup {"Gone"}
    /\ taskCache[t].assignedNode = n

\* taskIsLive: does task t, as cached, still occupy node n?  An empty
\* assignedNode is the window between reserveNode and scheduleToNode.
TaskIsLive(t, n) ==
    /\ taskCache[t].phase \notin Terminal \cup {"Gone"}
    /\ taskCache[t].assignedNode \in {NoNode, n}

\* clearNodeCurrentTask: free node n if it is reserved for t, under the
\* optimistic lock; every error is logged and ignored by the callers.
ClearNodeCurrentTask(n, t) ==
    IF n \in synced /\ fleetCache[n].exists /\ fleetCache[n].currentTask = t
    THEN WriteNode(n, [fleet[n] EXCEPT !.currentTask = NoTask])
    ELSE UNCHANGED nodeVars

----------------------------------------------------------------------------
(* AgenticTaskReconciler: one reconcile at a time, reading the caches *)

BeginReconcile(t) ==
    /\ sched.pc = "idle"
    /\ OwnWriteLag \/ \A u \in Tasks : ownLag[u] = 0
    /\ taskCache[t].phase # "Gone"

\* A status patch fails on a deleted task.
PatchTask(t, s) ==
    IF task[t].phase = "Gone" THEN UNCHANGED taskVars ELSE SchedulerPatch(t, s)

SetInitialPending(t) ==
    /\ BeginReconcile(t)
    /\ taskCache[t].phase = "New"
    /\ PatchTask(t, [task[t] EXCEPT !.phase = "Pending"])
    /\ UNCHANGED <<cacheVars, nodeVars, sched, agentVars, faults>>

\* The terminal branch of Reconcile: release the node (the audit record and
\* the archive bundle written around it are not modelled here).
ReconcileTerminal(t) ==
    /\ BeginReconcile(t)
    /\ taskCache[t].phase \in Terminal
    /\ taskCache[t].assignedNode # NoNode
    /\ ClearNodeCurrentTask(taskCache[t].assignedNode, t)
    /\ UNCHANGED <<taskVars, cacheVars, sched, agentVars, faults>>

\* Mutant: the limit itself is let through.
AgentAtConcurrencyLimitOffByOne(t) ==
    Cardinality({u \in Tasks \ {t} : /\ AgentOf[u] = AgentOf[t]
                                     /\ taskCache[u].phase \in InFlight})
        > MaxConcurrent[AgentOf[t]]

\* agentAtConcurrencyLimit, counting with holdsInFlightSlot.
AgentAtConcurrencyLimit(t) ==
    Cardinality({u \in Tasks \ {t} : /\ AgentOf[u] = AgentOf[t]
                                     /\ taskCache[u].phase \in InFlight})
        >= MaxConcurrent[AgentOf[t]]

\* nodeSchedulable and capabilitySatisfies.
Eligible(t) ==
    {n \in Nodes : /\ fleetCache[n].exists
                   /\ fleetCache[n].phase = "Ready"
                   /\ ~HeartbeatStale(fleetCache[n])
                   /\ fleetCache[n].capability \in SatisfiedBy[t]}

\* jobModeLoadByNode: it tallies every in-flight task assigned to the node.
LoadOf(n) ==
    Cardinality({u \in Tasks : /\ taskCache[u].phase \in InFlight
                               /\ taskCache[u].assignedNode = n})

\* leastLoadedJobModeNode: the earliest of the least loaded eligible nodes.
LeastLoaded(t, n) ==
    /\ n \in Eligible(t)
    /\ \A m \in Eligible(t) : \/ LoadOf(n) < LoadOf(m)
                              \/ LoadOf(n) = LoadOf(m) /\ n <= m

\* reserveNode answers true: the node is free, or held by a task that is no
\* longer live, and the optimistic-lock patch goes through.
Reservable(t, n) ==
    /\ n \in Eligible(t)
    /\ LET cur == fleetCache[n].currentTask
       IN  cur \notin {NoTask, t} => ~TaskIsLive(cur, n)
    /\ n \in synced

\* reserveFirstFitNode for an in-process task.
FirstFit(t, n) == Reservable(t, n) /\ \A m \in Nodes : Reservable(t, m) => n <= m

\* The Pending branch of Reconcile up to the reservation.  A Job-mode task
\* reserves nothing.
ReserveFirstFitNode(t) ==
    /\ BeginReconcile(t)
    /\ taskCache[t].phase = "Pending"
    /\ ~AgentAtConcurrencyLimit(t)
    /\ \E n \in Nodes :
        /\ sched' = Busy("reserved", t, n, 0)
        /\ IF IsJob(t)
           THEN LeastLoaded(t, n) /\ UNCHANGED nodeVars
           ELSE FirstFit(t, n) /\ WriteNode(n, [fleet[n] EXCEPT !.currentTask = t])
    /\ UNCHANGED <<taskVars, cacheVars, agentVars, faults>>

\* scheduleToNode; on NotFound the reservation is given back.
ScheduleToNode ==
    /\ sched.pc = "reserved"
    /\ LET t == sched.task  n == sched.node IN
        /\ PatchTask(t, [task[t] EXCEPT !.phase = "Scheduled", !.assignedNode = n])
        /\ IF task[t].phase = "Gone"
           THEN ClearNodeCurrentTask(n, t)
           ELSE UNCHANGED nodeVars
    /\ sched' = Idle
    /\ UNCHANGED <<cacheVars, agentVars, faults>>

\* scheduleToNode reports an error, whether or not the patch was applied.
ScheduleToNodeError ==
    /\ "schedule" \in FailingCalls /\ Fault
    /\ sched.pc = "reserved"
    /\ LET t == sched.task  n == sched.node IN
        /\ \/ UNCHANGED taskVars
           \/ PatchTask(t, [task[t] EXCEPT !.phase = "Scheduled", !.assignedNode = n])
        /\ ClearNodeCurrentTask(n, t)
    /\ sched' = Idle
    /\ UNCHANGED <<cacheVars, agentVars>>

\* Mutant: one expiry too many is granted.
ExpiryVerdictOffByOne(expiries) ==
    IF expiries > ClaimExpiryLimit THEN "failing" ELSE "expiring"

\* The limit is compared with the count in the reconcile's snapshot.
ExpiryVerdict(expiries) ==
    IF expiries >= ClaimExpiryLimit THEN "failing" ELSE "expiring"

\* checkClaimExpiry: the cached node is absent or its heartbeat is stale.
CheckClaimExpiry(t) ==
    LET c == taskCache[t]
        n == c.assignedNode
    IN  /\ BeginReconcile(t)
        /\ c.phase \in InFlight /\ n # NoNode
        /\ ~fleetCache[n].exists \/ HeartbeatStale(fleetCache[n])
        /\ sched' = Busy(ExpiryVerdict(c.expiries), t, n, c.expiries)
        /\ UNCHANGED <<taskVars, nodeVars, cacheVars, agentVars, faults>>

\* incrementExpiryCounter: the annotation goes first.  The re-fetch is served
\* by the cache as well, which may have moved on since the snapshot.
IncrementExpiryCounter ==
    /\ sched.pc = "expiring"
    /\ LET t == sched.task  base == MaxOf(taskCache[t].expiries, sched.prior) IN
        IF "Gone" \in {taskCache[t].phase, task[t].phase}
        THEN sched' = Idle /\ UNCHANGED taskVars
        ELSE /\ PatchTask(t, [task[t] EXCEPT !.expiries = base + 1])
             /\ sched' = [sched EXCEPT !.pc = "expired"]
    /\ UNCHANGED <<cacheVars, nodeVars, agentVars, faults>>

\* The guard releaseExpiredClaim and terminalFailExpired share, on the cached
\* object: not deleted, not terminal, not reassigned.
StillExpired(t, n) ==
    /\ taskCache[t].phase \notin Terminal \cup {"Gone"}
    /\ taskCache[t].assignedNode = n

\* The merge patch nulls claimedAt only if the cached object carries one.
Released(t) ==
    [task[t] EXCEPT !.phase = "Pending", !.assignedNode = NoNode,
                    !.claimedAt = IF taskCache[t].claimedAt = NoClaim
                                  THEN @ ELSE NoClaim,
                    !.releases = IF task[t].assignedNode = NoNode
                                 THEN @ ELSE @ + 1]

ReleaseExpiredClaim ==
    /\ sched.pc = "expired"
    /\ LET t == sched.task  n == sched.node IN
        IF StillExpired(t, n) /\ task[t].phase # "Gone"
        THEN PatchTask(t, Released(t)) /\ ClearNodeCurrentTask(n, t)
        ELSE UNCHANGED <<taskVars, nodeVars>>
    /\ sched' = Idle
    /\ UNCHANGED <<cacheVars, agentVars, faults>>

TerminalFailExpired ==
    /\ sched.pc = "failing"
    /\ LET t == sched.task  n == sched.node IN
        IF StillExpired(t, n) /\ task[t].phase # "Gone"
        THEN /\ PatchTask(t, [task[t] EXCEPT !.phase = "Failed"])
             /\ ClearNodeCurrentTask(n, t)
        ELSE UNCHANGED <<taskVars, nodeVars>>
    /\ sched' = Idle
    /\ UNCHANGED <<cacheVars, agentVars, faults>>

----------------------------------------------------------------------------
(* FleetNodeReconciler *)

\* reapNode: deleted under UID and resourceVersion preconditions.
Reap(n) == n \in synced /\ WriteNode(n, NoFleetNode)

ReapDraining(n) ==
    /\ fleetCache[n].exists /\ fleetCache[n].phase = "Draining"
    /\ DrainReapable(fleetCache[n])
    /\ Reap(n)
    /\ UNCHANGED <<taskVars, cacheVars, sched, agentVars, faults>>

\* Mutant: a reservation of a deleted or finished task is left alone.
DeadReservationIgnored(n) == FALSE

\* Reservation hygiene: node n is held by a task that is no longer live.
DeadReservation(n) ==
    LET cur == fleetCache[n].currentTask IN cur # NoTask /\ ~TaskIsLive(cur, n)

\* Reservation hygiene, then the not-ready reap, then the staleness phase.  A
\* conflict on the reservation ends the reconcile.
ReconcileFleetNode(n) ==
    LET c == fleetCache[n]
        cleared == IF DeadReservation(n)
                   THEN [fleet[n] EXCEPT !.currentTask = NoTask] ELSE fleet[n]
        desired == IF HeartbeatStale(c) THEN "NotReady" ELSE "Ready"
    IN  /\ c.exists /\ c.phase # "Draining"
        /\ DeadReservation(n) => n \in synced
        /\ IF HeartbeatStale(c) /\ NotReadyReapable(n, c)
           THEN Reap(n)
           ELSE IF fleet[n].exists
           THEN WriteNode(n, IF c.phase # desired
                             THEN [cleared EXCEPT !.phase = desired] ELSE cleared)
           ELSE UNCHANGED nodeVars
        /\ UNCHANGED <<taskVars, cacheVars, sched, agentVars, faults>>

----------------------------------------------------------------------------
(* The operator's informers and its process *)

\* The watch delivers the next version of task t.
DeliverTask(t) ==
    /\ feed[t] # <<>>
    /\ taskCache' = [taskCache EXCEPT ![t] = Head(feed[t])]
    /\ feed' = [feed EXCEPT ![t] = Tail(@)]
    /\ ownLag' = [ownLag EXCEPT ![t] = IF @ = 0 THEN 0 ELSE @ - 1]
    /\ UNCHANGED <<task, fleetCache, nodeVars, sched, agentVars, faults>>

\* The node cache catches up with the API server in one jump.
RefreshFleet ==
    /\ fleetCache' = fleet /\ synced' = Nodes
    /\ UNCHANGED <<taskVars, taskCache, fleet, sched, agentVars, faults>>

\* The operator dies between two API calls; its successor lists afresh.
OperatorCrash ==
    /\ Fault
    /\ sched # Idle /\ sched' = Idle
    /\ taskCache' = task
    /\ feed' = [t \in Tasks |-> <<>>] /\ ownLag' = [t \in Tasks |-> 0]
    /\ fleetCache' = fleet /\ synced' = Nodes
    /\ UNCHANGED <<task, fleet, agentVars>>

----------------------------------------------------------------------------
(* foreman-agent: process life cycle and Registrar *)

\* What the registrar leaves alone.
registrarFrame == <<taskVars, taskCache, sched>>

\* Mutant: only this process's own claims are looked for.
OrphansOfThisProcess(n) == {}

\* recoverOrphanedTasks: what a previous process left Running on node n.
Orphans(n) == {t \in Tasks : task[t].phase = "Running" /\ task[t].assignedNode = n}

\* Process start: Upsert registers the node, and the watcher
\* lists the orphans.
Start(n) ==
    /\ agent[n] = "down"
    /\ agent' = [agent EXCEPT ![n] = "recover"]
    /\ listed' = [listed EXCEPT ![n] = Orphans(n)]
    /\ WriteNode(n, IF fleet[n].exists THEN fleet[n] ELSE NewFleetNode)
    /\ UNCHANGED <<registrarFrame, fleetCache, runs, nextClaim, faults>>

\* PatchHeartbeat(Ready); a missing node is registered again first.
Heartbeat(n) ==
    /\ agent[n] \in {"recover", "up"}
    /\ \E c \in Capabilities :
        fleet' = [fleet EXCEPT ![n] = [@ EXCEPT !.exists = TRUE, !.phase = "Ready",
                                                !.age = 0, !.capability = c]]
    /\ synced' = synced \ {n}
    /\ UNCHANGED <<registrarFrame, fleetCache, agentVars, faults>>

\* Time passes without a heartbeat reaching the API server: a crashed or
\* sleeping host, or a partition.  A cached heartbeat is at least as old.
Silence(n) ==
    /\ Fault
    /\ fleet[n].exists /\ fleet[n].age < MaxAge
    /\ LET age == fleet[n].age + 1 IN
        /\ fleet' = [fleet EXCEPT ![n] = [@ EXCEPT !.age = age]]
        /\ fleetCache' = [fleetCache EXCEPT
                ![n] = [@ EXCEPT !.age = MaxOf(fleetCache[n].age, age)]]
    /\ UNCHANGED <<registrarFrame, synced, agentVars>>

\* SIGTERM: no more claims, a last heartbeat as Draining, and the executions
\* in flight are waited for.
Drain(n) ==
    /\ Fault
    /\ agent[n] \in {"recover", "up"}
    /\ agent' = [agent EXCEPT ![n] = "drain"]
    /\ listed' = [listed EXCEPT ![n] = {}]
    /\ IF fleet[n].exists
       THEN /\ fleet' = [fleet EXCEPT ![n] = [@ EXCEPT !.phase = "Draining", !.age = 0]]
            /\ synced' = synced \ {n}
       ELSE UNCHANGED nodeVars
    /\ UNCHANGED <<registrarFrame, fleetCache, runs, nextClaim>>

Exit(n) ==
    /\ agent[n] = "drain" /\ runs[n] = {}
    /\ agent' = [agent EXCEPT ![n] = "down"]
    /\ UNCHANGED <<registrarFrame, nodeVars, fleetCache, listed, runs, nextClaim,
                   faults>>

\* Crash, OOM kill, ErrWatcherStalled, or a drain past the grace window.
Crash(n) ==
    /\ Fault
    /\ agent[n] # "down"
    /\ agent' = [agent EXCEPT ![n] = "down"]
    /\ listed' = [listed EXCEPT ![n] = {}]
    /\ runs' = [runs EXCEPT ![n] = {}]
    /\ UNCHANGED <<registrarFrame, nodeVars, fleetCache, nextClaim>>

----------------------------------------------------------------------------
(* foreman-agent: AgenticTaskWatcher *)

\* What the watcher leaves alone.
operatorVars == <<nodeVars, cacheVars, sched>>

\* resetOrphanedTask for one listed task.  Without Stall the list and the
\* patch are one instant: a task that has moved on is not patched.
RecoverOrphanedTask(n) ==
    /\ agent[n] = "recover"
    /\ \E t \in listed[n] :
        /\ listed' = [listed EXCEPT ![n] = @ \ {t}]
        /\ IF /\ task[t].phase # "Gone"
              /\ Stall \/ (task[t].phase = "Running" /\ task[t].assignedNode = n)
           THEN AgentPatch(t, [task[t] EXCEPT !.phase = "Pending",
                                              !.assignedNode = NoNode,
                                              !.claimedAt = NoClaim])
           ELSE UNCHANGED taskVars
    /\ UNCHANGED <<operatorVars, agent, runs, nextClaim, faults>>

\* A reset that fails is logged and left to the next restart.
RecoverOrphanedTaskError(n) ==
    /\ "recover" \in FailingCalls /\ Fault
    /\ agent[n] = "recover"
    /\ \E t \in listed[n] : listed' = [listed EXCEPT ![n] = @ \ {t}]
    /\ UNCHANGED <<taskVars, operatorVars, agent, runs, nextClaim>>

StartPolling(n) ==
    /\ agent[n] = "recover" /\ listed[n] = {}
    /\ agent' = [agent EXCEPT ![n] = "up"]
    /\ UNCHANGED <<taskVars, operatorVars, listed, runs, nextClaim, faults>>

Supervised(n) == {r \in runs[n] : IsJob(r.task)}
InProcess(n)  == runs[n] \ Supervised(n)

\* Mutant: the last slot is counted twice.
HasCapacityForOffByOne(n, supervise) ==
    IF supervise THEN Cardinality(Supervised(n)) <= MaxSupervised
                 ELSE InProcess(n) = {}

\* hasCapacityFor(supervise)
HasCapacityFor(n, supervise) ==
    IF supervise THEN Cardinality(Supervised(n)) < MaxSupervised
                 ELSE InProcess(n) = {}

\* pollOnce: list the tasks scheduled here, if any slot is free.
PollOnce(n) ==
    /\ agent[n] = "up" /\ listed[n] = {}
    /\ \E b \in BOOLEAN : HasCapacityFor(n, b)
    /\ listed' = [listed EXCEPT ![n] = {t \in Tasks : /\ task[t].phase = "Scheduled"
                                                      /\ task[t].assignedNode = n}]
    /\ UNCHANGED <<taskVars, operatorVars, agent, runs, nextClaim, faults>>

NextCandidate(n, t) ==
    /\ agent[n] = "up" /\ t \in listed[n]
    /\ \A u \in listed[n] : Rank[t] <= Rank[u]
    /\ listed' = [listed EXCEPT ![n] = @ \ {t}]

\* claim's merge patch: phase and claimedAt, whoever owns the task by now.
ClaimPatch(t) ==
    AgentPatch(t, [task[t] EXCEPT !.phase = "Running", !.claimedAt = nextClaim])

Claimable(n, t) ==
    /\ task[t].phase # "Gone"
    /\ Stall \/ (task[t].phase = "Scheduled" /\ task[t].assignedNode = n)

\* The body of pollOnce's loop: capacity, claim, launchExecutor.
ClaimAndLaunch(n) ==
    /\ nextClaim <= MaxClaims
    /\ \E t \in Tasks :
        /\ NextCandidate(n, t)
        /\ HasCapacityFor(n, IsJob(t)) /\ Claimable(n, t)
        /\ ClaimPatch(t)
        /\ runs' = [runs EXCEPT ![n] = @ \cup
                       {[task |-> t, claim |-> nextClaim, stage |-> "exec"]}]
    /\ nextClaim' = nextClaim + 1
    /\ UNCHANGED <<operatorVars, agent, faults>>

SkipCandidate(n) ==
    /\ \E t \in Tasks :
        /\ NextCandidate(n, t)
        /\ ~(HasCapacityFor(n, IsJob(t)) /\ Claimable(n, t))
    /\ UNCHANGED <<taskVars, operatorVars, agent, runs, nextClaim, faults>>

\* The claim reports an error, whether or not it was applied: nothing is
\* launched.
ClaimError(n) ==
    /\ "claim" \in FailingCalls /\ Fault
    /\ nextClaim <= MaxClaims
    /\ \E t \in Tasks :
        /\ NextCandidate(n, t)
        /\ HasCapacityFor(n, IsJob(t)) /\ Claimable(n, t)
        /\ \/ ClaimPatch(t) /\ nextClaim' = nextClaim + 1
           \/ UNCHANGED <<taskVars, nextClaim>>
    /\ UNCHANGED <<operatorVars, agent, runs>>

EndRun(n, r) == runs' = [runs EXCEPT ![n] = @ \ {r}]

\* Mutant: a re-claim by the same node is not told from the first claim.
OwnsByNode(n, r) ==
    /\ task[r.task].phase # "Gone"
    /\ task[r.task].assignedNode = n

\* The ownership guard of patchTerminal.
Owns(n, r) ==
    /\ task[r.task].phase # "Gone"
    /\ task[r.task].assignedNode = n
    /\ task[r.task].claimedAt = r.claim

\* The terminal status patch; it fails on a deleted task.
WriteOutcome(t, o) ==
    IF task[t].phase = "Gone" THEN UNCHANGED taskVars
    ELSE AgentPatch(t, [task[t] EXCEPT !.phase = o])

runFrame == <<operatorVars, agent, listed, nextClaim>>

\* The executor returns (or the liveness watchdog cancelled it): a run that no
\* longer owns its task writes nothing, an owner writes the outcome.
PatchTerminal(n) ==
    /\ \E r \in runs[n] :
        /\ r.stage = "exec"
        /\ EndRun(n, r)
        /\ IF Owns(n, r)
           THEN \E o \in Terminal : WriteOutcome(r.task, o)
           ELSE UNCHANGED taskVars
    /\ UNCHANGED <<runFrame, faults>>

\* patchTerminal passes the guard and sleeps before its patch.
PatchTerminalStall(n) ==
    /\ Stall
    /\ \E r \in runs[n] :
        /\ r.stage = "exec" /\ Owns(n, r)
        /\ runs' = [runs EXCEPT ![n] = (@ \ {r}) \cup {[r EXCEPT !.stage = "write"]}]
    /\ UNCHANGED <<taskVars, runFrame, faults>>

\* It wakes up.  The unlocked patch lands, or is rejected as invalid.
PatchTerminalLate(n) ==
    /\ \E r \in runs[n] :
        /\ r.stage = "write"
        /\ \/ /\ EndRun(n, r)
              /\ \E o \in Terminal : WriteOutcome(r.task, o)
           \/ /\ runs' = [runs EXCEPT ![n] =
                            (@ \ {r}) \cup {[r EXCEPT !.stage = "fallback"]}]
              /\ UNCHANGED taskVars
    /\ UNCHANGED <<runFrame, faults>>

\* The fallback after a rejected patch re-fetches and writes Failed; it does
\* not look at the owner again.
PatchTerminalFallback(n) ==
    /\ \E r \in runs[n] :
        /\ r.stage = "fallback"
        /\ EndRun(n, r)
        /\ WriteOutcome(r.task, "Failed")
    /\ UNCHANGED <<runFrame, faults>>

\* The terminal patch fails: logged, and the slot is released.
PatchTerminalError(n) ==
    /\ "terminal" \in FailingCalls /\ Fault
    /\ \E r \in runs[n] : r.stage = "exec" /\ EndRun(n, r)
    /\ UNCHANGED <<taskVars, runFrame>>

----------------------------------------------------------------------------
(* The user *)

DeleteTask(t) ==
    /\ Fault
    /\ task[t].phase # "Gone"
    /\ AgentPatch(t, [task[t] EXCEPT !.phase = "Gone"])
    /\ UNCHANGED <<operatorVars, agentVars>>

----------------------------------------------------------------------------

Scheduler ==
    \/ \E t \in Tasks : \/ SetInitialPending(t) \/ ReconcileTerminal(t)
                        \/ ReserveFirstFitNode(t) \/ CheckClaimExpiry(t)
    \/ ScheduleToNode \/ ScheduleToNodeError
    \/ IncrementExpiryCounter \/ ReleaseExpiredClaim \/ TerminalFailExpired

Operator ==
    \/ \E n \in Nodes : ReapDraining(n) \/ ReconcileFleetNode(n)
    \/ \E t \in Tasks : DeliverTask(t)
    \/ RefreshFleet \/ OperatorCrash

Registrar(n) ==
    Start(n) \/ Heartbeat(n) \/ Silence(n) \/ Drain(n) \/ Exit(n) \/ Crash(n)

Watcher(n) ==
    \/ RecoverOrphanedTask(n) \/ RecoverOrphanedTaskError(n) \/ StartPolling(n)
    \/ PollOnce(n) \/ ClaimAndLaunch(n) \/ SkipCandidate(n) \/ ClaimError(n)
    \/ PatchTerminal(n) \/ PatchTerminalStall(n) \/ PatchTerminalLate(n)
    \/ PatchTerminalFallback(n) \/ PatchTerminalError(n)

Next ==
    \/ Scheduler
    \/ Operator
    \/ \E n \in Nodes : Registrar(n) \/ Watcher(n)
    \/ \E t \in Tasks : DeleteTask(t)

Spec == Init /\ [][Next]_vars

(***************************************************************************)
(* Fairness.  A watch delivers its events and an API call once begun       *)
(* returns.  A process that is down is restarted by its supervisor and an  *)
(* agent that is up keeps beating, polling and finishing its executions.   *)
(* A reconcile is retried for ever (events, requeue timers, backoff), but  *)
(* the single scheduler thread and the heartbeats that invalidate cached   *)
(* versions keep switching it off, hence strong fairness there.            *)
(***************************************************************************)
Fairness ==
    /\ WF_vars(RefreshFleet) /\ WF_vars(ScheduleToNode)
    /\ WF_vars(IncrementExpiryCounter) /\ WF_vars(ReleaseExpiredClaim)
    /\ WF_vars(TerminalFailExpired)
    /\ \A t \in Tasks :
        /\ WF_vars(DeliverTask(t))
        /\ SF_vars(SetInitialPending(t)) /\ SF_vars(ReconcileTerminal(t))
        /\ SF_vars(ReserveFirstFitNode(t)) /\ SF_vars(CheckClaimExpiry(t))
    /\ \A n \in Nodes :
        /\ SF_vars(ReconcileFleetNode(n)) /\ SF_vars(ReapDraining(n))
        /\ WF_vars(Start(n)) /\ WF_vars(Heartbeat(n)) /\ WF_vars(Exit(n))
        /\ WF_vars(RecoverOrphanedTask(n)) /\ WF_vars(StartPolling(n))
        /\ WF_vars(PollOnce(n)) /\ WF_vars(ClaimAndLaunch(n))
        /\ WF_vars(SkipCandidate(n)) /\ WF_vars(PatchTerminal(n))

FairSpec == Spec /\ Fairness

----------------------------------------------------------------------------
(* Properties *)

\* Every object, cached copy and process state is of its declared shape.
TypeOK ==
    /\ task \in [Tasks -> TaskState] /\ taskCache \in [Tasks -> TaskState]
    /\ feed \in [Tasks -> Seq(TaskState)] /\ ownLag \in [Tasks -> Nat]
    /\ fleet \in [Nodes -> NodeState] /\ fleetCache \in [Nodes -> NodeState]
    /\ synced \subseteq Nodes /\ sched \in SchedState
    /\ agent \in [Nodes -> {"down", "recover", "up", "drain"}]
    /\ listed \in [Nodes -> SUBSET Tasks]
    /\ runs \in [Nodes -> SUBSET RunState]
    /\ nextClaim \in Nat /\ faults \in Nat

\* Claim expiry takes a task away from a node at most ClaimExpiryLimit times,
\* and never without having counted it first: however crashes fall between
\* incrementExpiryCounter and releaseExpiredClaim, the claim-expiries
\* annotation is at least the number of releases and never passes the limit.
BoundedReleases ==
    \A t \in Tasks : /\ task[t].releases <= task[t].expiries
                     /\ task[t].expiries <= ClaimExpiryLimit

\* An agent process executes at most one in-process task and supervises at
\* most MaxSupervised Job-mode tasks, although pollOnce claims several
\* candidates from one list (hasCapacityFor, launchExecutor).
SlotsRespected ==
    \A n \in Nodes : /\ \A r, q \in InProcess(n) : r = q
                     /\ Cardinality(Supervised(n)) <= MaxSupervised

\* Of all executions of a task, on all nodes, at most one passes the ownership
\* guard of patchTerminal: a claim that was expired or taken over is mute.
SingleOwner ==
    \A n, m \in Nodes : \A r \in runs[n], q \in runs[m] :
        (r.task = q.task /\ Owns(n, r) /\ Owns(m, q)) => (n = m /\ r = q)

\* The node an in-process task is scheduled to or running on is reserved for
\* it, hence for no other task (reserveNode, clearNodeCurrentTask and the
\* reservation hygiene of the FleetNode reconciler never free it early).
ReservationHeld ==
    \A t \in Tasks : (~IsJob(t) /\ task[t].phase \in InFlight
                        /\ task[t].assignedNode # NoNode)
                     => fleet[task[t].assignedNode].currentTask = t

\* An Agent never has more tasks in flight than spec.maxConcurrentTasks.
ConcurrencyBound ==
    \A a \in Agents :
        Cardinality({t \in Tasks : AgentOf[t] = a /\ task[t].phase \in InFlight})
            <= MaxConcurrent[a]

\* A terminal phase is never undone.
TerminalIsFinal ==
    [][\A t \in Tasks : task[t].phase \in Terminal
                        => task'[t].phase \in {task[t].phase, "Gone"}]_vars

\* Every task that is not deleted ends in a terminal phase and stays there,
\* whatever crashes, drains and silences happened on the way.
EveryTaskSettles ==
    \A t \in Tasks : <>[](task[t].phase \in Terminal \cup {"Gone"})

\* No reservation outlives the tasks: one leaked by a crash, a conflict or a
\* deletion is found and cleared.
ReservationsFreed == \A n \in Nodes : <>[](fleet[n].currentTask = NoTask)

\* A node is not kept busy for ever: a task that every node can run ends.
NoNodeWedged ==
    \A t \in Tasks : SatisfiedBy[t] = Capabilities
                     => <>(task[t].phase \in Terminal \cup {"Gone"})
============================================================================
