------------------------ MODULE FleetDispatchProofs ------------------------
(***************************************************************************)
(* Proofs about FleetDispatch, for every set of tasks, nodes and agents    *)
(* and every bound.                                                        *)
(***************************************************************************)
EXTENDS FleetDispatch, FiniteSetTheorems, TLAPS

\* TypeOK by who writes the variables: patches of tasks, patches of nodes, the
\* informers, the reconcile in progress, and the agent processes.
TaskTypes ==
    /\ task \in [Tasks -> TaskState] /\ feed \in [Tasks -> Seq(TaskState)]
    /\ ownLag \in [Tasks -> Nat]
NodeTypes == fleet \in [Nodes -> NodeState] /\ synced \subseteq Nodes
CacheTypes ==
    taskCache \in [Tasks -> TaskState] /\ fleetCache \in [Nodes -> NodeState]
AgentTypes ==
    /\ agent \in [Nodes -> {"down", "recover", "up", "drain"}]
    /\ listed \in [Nodes -> SUBSET Tasks]
    /\ runs \in [Nodes -> SUBSET RunState] /\ nextClaim \in Nat

\* TypeOK is the conjunction of the parts each kind of write touches.
LEMMA TypeParts ==
    TypeOK => /\ TaskTypes /\ NodeTypes /\ CacheTypes /\ AgentTypes
              /\ sched \in SchedState /\ faults \in Nat
BY DEF TypeOK, TaskTypes, NodeTypes, CacheTypes, AgentTypes

\* The parts after a step make up TypeOK after the step.
LEMMA TypeFromParts ==
    (/\ TaskTypes /\ NodeTypes /\ CacheTypes /\ AgentTypes
     /\ sched \in SchedState /\ faults \in Nat)' => TypeOK'
BY DEF TypeOK, TaskTypes, NodeTypes, CacheTypes, AgentTypes

\* A group of variables that a step leaves alone keeps its type.
LEMMA TypeFrame ==
    ASSUME TypeOK
    PROVE  /\ UNCHANGED taskVars => TaskTypes'
           /\ UNCHANGED nodeVars => NodeTypes'
           /\ UNCHANGED cacheVars => CacheTypes'
           /\ UNCHANGED agentVars => AgentTypes'
           /\ UNCHANGED sched => (sched \in SchedState)'
           /\ UNCHANGED faults => (faults \in Nat)'
BY DEF TypeOK, TaskTypes, NodeTypes, CacheTypes, AgentTypes, taskVars, nodeVars,
       cacheVars, agentVars

----------------------------------------------------------------------------
(* What the patches preserve *)

\* A patch of a task to a well-formed state keeps the tasks and the events on
\* their way to the operator well formed.
LEMMA WriteTaskType ==
    ASSUME TaskTypes, NEW t \in Tasks, NEW s \in TaskState, WriteTask(t, s)
    PROVE  task' \in [Tasks -> TaskState] /\ feed' \in [Tasks -> Seq(TaskState)]
BY DEF TaskTypes, WriteTask

\* An agent's merge patch keeps the tasks well formed.
LEMMA AgentPatchType ==
    ASSUME TaskTypes, NEW t \in Tasks, NEW s \in TaskState, AgentPatch(t, s)
    PROVE  TaskTypes'
BY WriteTaskType DEF TaskTypes, AgentPatch

\* So does a patch by the scheduler, which also restarts the wait for its own
\* write to come back through the cache.
LEMMA PatchTaskType ==
    ASSUME TaskTypes, NEW t \in Tasks, NEW s \in TaskState, PatchTask(t, s)
    PROVE  TaskTypes'
<1>1. CASE UNCHANGED taskVars
  BY <1>1 DEF TaskTypes, taskVars
<1>2. CASE SchedulerPatch(t, s)
  <2>1. task' \in [Tasks -> TaskState] /\ feed' \in [Tasks -> Seq(TaskState)]
    BY <1>2, WriteTaskType DEF SchedulerPatch
  <2>2. Len(feed[t]) + 1 \in Nat
    BY DEF TaskTypes
  <2>3. ownLag' \in [Tasks -> Nat]
    BY <1>2, <2>2 DEF SchedulerPatch, TaskTypes
  <2> QED BY <2>1, <2>3 DEF TaskTypes
<1> QED BY <1>1, <1>2 DEF PatchTask

\* A patch of a FleetNode to a well-formed state keeps the fleet well formed.
LEMMA WriteNodeType ==
    ASSUME NodeTypes, NEW n \in Nodes, NEW f \in NodeState, WriteNode(n, f)
    PROVE  NodeTypes'
BY DEF NodeTypes, WriteNode

\* clearNodeCurrentTask keeps the fleet well formed, conflict or not.
LEMMA ClearType ==
    ASSUME NodeTypes, NEW n \in Nodes, NEW t, ClearNodeCurrentTask(n, t)
    PROVE  NodeTypes'
<1>1. [fleet[n] EXCEPT !.currentTask = NoTask] \in NodeState
  BY DEF NodeTypes, NodeState
<1> QED BY <1>1, WriteNodeType DEF ClearNodeCurrentTask, NodeTypes, nodeVars

\* A record that differs from a well-formed one in well-formed fields.
LEMMA TaskStateExcept ==
    ASSUME NEW s \in TaskState,
           NEW p \in Phases, NEW a \in Nodes \cup {NoNode}, NEW c \in Nat
    PROVE  /\ [s EXCEPT !.phase = p] \in TaskState
           /\ [s EXCEPT !.phase = p, !.assignedNode = a] \in TaskState
           /\ [s EXCEPT !.phase = p, !.claimedAt = c] \in TaskState
           /\ [s EXCEPT !.phase = p, !.assignedNode = a, !.claimedAt = c] \in TaskState
BY DEF TaskState

\* What releaseExpiredClaim writes is a well-formed task.
LEMMA ReleasedType ==
    ASSUME TaskTypes, NEW t \in Tasks PROVE Released(t) \in TaskState
<1>1. task[t] \in TaskState
  BY DEF TaskTypes
<1>2. task[t].releases + 1 \in Nat
  BY <1>1 DEF TaskState
<1> QED BY <1>1, <1>2 DEF Released, TaskState, Phases, NoClaim

\* An unregistered and a freshly registered FleetNode are well formed.
LEMMA NodeConstantsType == NoFleetNode \in NodeState /\ NewFleetNode \in NodeState
BY DEF NoFleetNode, NewFleetNode, NodeState

----------------------------------------------------------------------------
(* Type correctness *)

\* Each reconcile step of the scheduler keeps every object well formed.
LEMMA SchedulerType == ASSUME TypeOK, Scheduler PROVE TypeOK'
<1>1. /\ TaskTypes /\ NodeTypes /\ CacheTypes /\ AgentTypes
      /\ sched \in SchedState /\ faults \in Nat
  BY TypeParts
<1>2. \A t \in Tasks : task[t] \in TaskState /\ taskCache[t] \in TaskState
  BY <1>1 DEF TaskTypes, CacheTypes
<1>3. Idle \in SchedState
  BY DEF Idle, Busy, SchedState
<1>4. ASSUME NEW t \in Tasks, SetInitialPending(t) PROVE TypeOK'
  <2>1. [task[t] EXCEPT !.phase = "Pending"] \in TaskState
    BY <1>2, TaskStateExcept DEF Phases
  <2>2. TaskTypes'
    BY <1>4, <1>1, <2>1, PatchTaskType DEF SetInitialPending
  <2> QED BY <1>4, <2>2, TypeFrame, TypeFromParts DEF SetInitialPending
<1>5. ASSUME NEW t \in Tasks, ReconcileTerminal(t) PROVE TypeOK'
  <2>1. taskCache[t].assignedNode \in Nodes
    BY <1>5, <1>2 DEF ReconcileTerminal, TaskState
  <2>2. NodeTypes'
    BY <1>5, <1>1, <2>1, ClearType DEF ReconcileTerminal
  <2> QED BY <1>5, <2>2, TypeFrame, TypeFromParts DEF ReconcileTerminal
<1>6. ASSUME NEW t \in Tasks, ReserveFirstFitNode(t) PROVE TypeOK'
  <2>1. PICK n \in Nodes :
            /\ sched' = Busy("reserved", t, n, 0)
            /\ UNCHANGED nodeVars \/ WriteNode(n, [fleet[n] EXCEPT !.currentTask = t])
    BY <1>6 DEF ReserveFirstFitNode
  <2>2. [fleet[n] EXCEPT !.currentTask = t] \in NodeState
    BY <1>1 DEF NodeTypes, NodeState
  <2>3. NodeTypes'
    BY <1>1, <2>1, <2>2, WriteNodeType, TypeFrame
  <2>4. sched' \in SchedState
    BY <2>1 DEF Busy, SchedState
  <2> QED BY <1>6, <2>3, <2>4, TypeFrame, TypeFromParts DEF ReserveFirstFitNode
<1>7. ASSUME NEW t \in Tasks, CheckClaimExpiry(t) PROVE TypeOK'
  <2>1. /\ taskCache[t].assignedNode \in Nodes \cup {NoNode}
        /\ taskCache[t].expiries \in Nat
    BY <1>2 DEF TaskState
  <2>2. sched' \in SchedState
    BY <1>7, <2>1 DEF CheckClaimExpiry, Busy, SchedState, ExpiryVerdict
  <2> QED BY <1>7, <2>2, TypeFrame, TypeFromParts DEF CheckClaimExpiry
<1> DEFINE t == sched.task
           n == sched.node
           scheduled == [task[t] EXCEPT !.phase = "Scheduled", !.assignedNode = n]
<1>8. ASSUME sched.pc # "idle"
      PROVE  t \in Tasks /\ n \in Nodes /\ sched.prior \in Nat
  BY <1>1, <1>8 DEF SchedState, Idle, Busy
<1>9. ASSUME sched.pc # "idle"
      PROVE  /\ PatchTask(t, scheduled) => TaskTypes'
             /\ ClearNodeCurrentTask(n, t) => NodeTypes'
  <2>1. scheduled \in TaskState
    BY <1>8, <1>9, <1>2, TaskStateExcept DEF Phases, InFlight
  <2> QED BY <1>1, <1>8, <1>9, <2>1, PatchTaskType, ClearType
<1>10. CASE ScheduleToNode
  <2>1. TaskTypes' /\ NodeTypes'
    BY <1>10, <1>9, TypeFrame DEF ScheduleToNode
  <2> QED BY <1>10, <1>3, <2>1, TypeFrame, TypeFromParts DEF ScheduleToNode
<1>11. CASE ScheduleToNodeError
  <2>1. TaskTypes' /\ NodeTypes'
    BY <1>11, <1>9, TypeFrame DEF ScheduleToNodeError
  <2>2. faults' \in Nat
    BY <1>11, <1>1 DEF ScheduleToNodeError, Fault
  <2> QED BY <1>11, <1>3, <2>1, <2>2, TypeFrame, TypeFromParts
          DEF ScheduleToNodeError
<1>12. CASE IncrementExpiryCounter
  <2> DEFINE counted == [task[t] EXCEPT !.expiries =
                             MaxOf(taskCache[t].expiries, sched.prior) + 1]
  <2>1. counted \in TaskState
    <3>1. task[t] \in TaskState /\ taskCache[t].expiries \in Nat /\ sched.prior \in Nat
      BY <1>12, <1>2, <1>8 DEF IncrementExpiryCounter, TaskState
    <3>2. MaxOf(taskCache[t].expiries, sched.prior) + 1 \in Nat
      BY <3>1 DEF MaxOf
    <3> QED BY <3>1, <3>2 DEF TaskState
  <2>2. \/ sched' = Idle /\ UNCHANGED taskVars
        \/ PatchTask(t, counted) /\ sched' = [sched EXCEPT !.pc = "expired"]
    BY <1>12 DEF IncrementExpiryCounter
  <2>3. TaskTypes'
    BY <1>1, <1>8, <1>12, <2>1, <2>2, PatchTaskType, TypeFrame
       DEF IncrementExpiryCounter
  <2>4. sched' \in SchedState
    BY <1>1, <1>12, <2>2 DEF IncrementExpiryCounter, SchedState, Idle, Busy
  <2> QED BY <1>12, <2>3, <2>4, TypeFrame, TypeFromParts DEF IncrementExpiryCounter
<1>13. CASE ReleaseExpiredClaim
  <2>1. TaskTypes' /\ NodeTypes'
    BY <1>1, <1>8, <1>9, <1>13, PatchTaskType, ReleasedType, TypeFrame
       DEF ReleaseExpiredClaim
  <2> QED BY <1>13, <1>3, <2>1, TypeFrame, TypeFromParts DEF ReleaseExpiredClaim
<1>14. CASE TerminalFailExpired
  <2>1. sched.pc # "idle"
    BY <1>14 DEF TerminalFailExpired
  <2>2. [task[t] EXCEPT !.phase = "Failed"] \in TaskState
    BY <1>2, <1>8, <2>1, TaskStateExcept DEF Phases, Terminal
  <2>3. TaskTypes' /\ NodeTypes'
    BY <1>1, <1>8, <1>9, <1>14, <2>1, <2>2, PatchTaskType, TypeFrame
       DEF TerminalFailExpired
  <2> QED BY <1>14, <1>3, <2>3, TypeFrame, TypeFromParts DEF TerminalFailExpired
<1> QED
  BY <1>4, <1>5, <1>6, <1>7, <1>10, <1>11, <1>12, <1>13, <1>14 DEF Scheduler

\* So does each step of the FleetNode reconciler, of the informers, and a
\* restart of the operator.
LEMMA OperatorType == ASSUME TypeOK, Operator PROVE TypeOK'
<1>1. /\ TaskTypes /\ NodeTypes /\ CacheTypes /\ faults \in Nat
  BY TypeParts
<1>2. ASSUME NEW n \in Nodes, ReapDraining(n) PROVE TypeOK'
  <2>1. NodeTypes'
    BY <1>1, <1>2, WriteNodeType, NodeConstantsType DEF ReapDraining, Reap
  <2> QED BY <1>2, <2>1, TypeFrame, TypeFromParts DEF ReapDraining
<1>3. ASSUME NEW n \in Nodes, ReconcileFleetNode(n) PROVE TypeOK'
  <2> DEFINE cleared == IF DeadReservation(n)
                        THEN [fleet[n] EXCEPT !.currentTask = NoTask] ELSE fleet[n]
             desired == IF HeartbeatStale(fleetCache[n]) THEN "NotReady" ELSE "Ready"
             phased == IF fleetCache[n].phase # desired
                       THEN [cleared EXCEPT !.phase = desired] ELSE cleared
  <2>1. cleared \in NodeState
    BY <1>1 DEF NodeTypes, NodeState
  <2>2. phased \in NodeState
    BY <2>1 DEF NodeState
  <2>3. WriteNode(n, NoFleetNode) \/ WriteNode(n, phased) \/ UNCHANGED nodeVars
    BY <1>3 DEF ReconcileFleetNode, Reap
  <2>4. NodeTypes'
    BY <1>1, <2>2, <2>3, WriteNodeType, NodeConstantsType, TypeFrame
  <2> QED BY <1>3, <2>4, TypeFrame, TypeFromParts DEF ReconcileFleetNode
<1>4. ASSUME NEW t \in Tasks, DeliverTask(t) PROVE TypeOK'
  <2>1. feed[t] \in Seq(TaskState) /\ feed[t] # <<>>
    BY <1>1, <1>4 DEF TaskTypes, DeliverTask
  <2>2. Head(feed[t]) \in TaskState /\ Tail(feed[t]) \in Seq(TaskState)
    BY <2>1
  <2>3. TaskTypes' /\ CacheTypes'
    BY <1>1, <1>4, <2>2 DEF DeliverTask, TaskTypes, CacheTypes
  <2> QED BY <1>4, <2>3, TypeFrame, TypeFromParts DEF DeliverTask
<1>5. CASE RefreshFleet
  <2>1. NodeTypes' /\ CacheTypes'
    BY <1>1, <1>5 DEF RefreshFleet, NodeTypes, CacheTypes
  <2> QED BY <1>5, <2>1, TypeFrame, TypeFromParts DEF RefreshFleet
<1>6. CASE OperatorCrash
  <2>1. NodeTypes' /\ CacheTypes' /\ faults' \in Nat
    BY <1>1, <1>6 DEF OperatorCrash, NodeTypes, CacheTypes, TaskTypes, Fault
  <2>2. TaskTypes'
    BY <1>1, <1>6 DEF OperatorCrash, TaskTypes
  <2>3. sched' \in SchedState
    BY <1>6 DEF OperatorCrash, SchedState
  <2> QED BY <1>6, <2>1, <2>2, <2>3, TypeFrame, TypeFromParts DEF OperatorCrash
<1> QED BY <1>2, <1>3, <1>4, <1>5, <1>6 DEF Operator

\* So does each step of an agent's process life cycle and heartbeat.
LEMMA RegistrarType ==
    ASSUME TypeOK, NEW n \in Nodes, Registrar(n) PROVE TypeOK'
<1>1. /\ NodeTypes /\ CacheTypes /\ AgentTypes /\ faults \in Nat
  BY TypeParts
<1> USE TypeFrame, TypeFromParts DEF registrarFrame
<1>2. CASE Start(n)
  <2>1. (IF fleet[n].exists THEN fleet[n] ELSE NewFleetNode) \in NodeState
    BY <1>1, NodeConstantsType DEF NodeTypes
  <2>2. NodeTypes'
    BY <1>1, <1>2, <2>1, WriteNodeType DEF Start
  <2>3. CacheTypes' /\ AgentTypes'
    BY <1>1, <1>2 DEF Start, CacheTypes, AgentTypes, Orphans
  <2> QED BY <1>2, <2>2, <2>3 DEF Start
<1>3. CASE Heartbeat(n)
  <2>1. PICK c \in Capabilities :
            fleet' = [fleet EXCEPT ![n] = [@ EXCEPT !.exists = TRUE, !.phase = "Ready",
                                                    !.age = 0, !.capability = c]]
    BY <1>3 DEF Heartbeat
  <2>2. [fleet[n] EXCEPT !.exists = TRUE, !.phase = "Ready", !.age = 0,
                         !.capability = c] \in NodeState
    BY <1>1 DEF NodeTypes, NodeState
  <2>3. NodeTypes' /\ CacheTypes'
    BY <1>1, <1>3, <2>1, <2>2 DEF Heartbeat, NodeTypes, CacheTypes
  <2> QED BY <1>3, <2>3 DEF Heartbeat
<1>4. CASE Silence(n)
  <2> DEFINE age == fleet[n].age + 1
             cached == MaxOf(fleetCache[n].age, age)
  <2>1. fleet[n] \in NodeState /\ fleetCache[n] \in NodeState
    BY <1>1 DEF NodeTypes, CacheTypes
  <2>2. fleet[n].age \in Nat /\ fleetCache[n].age \in Nat
    BY <2>1 DEF NodeState
  <2>3. age \in Nat /\ cached \in Nat
    BY <2>2 DEF MaxOf
  <2> HIDE DEF age, cached
  <2>4. /\ [fleet[n] EXCEPT !.age = age] \in NodeState
        /\ [fleetCache[n] EXCEPT !.age = cached] \in NodeState
    BY <2>1, <2>3 DEF NodeState
  <2>5. /\ fleet' = [fleet EXCEPT ![n] = [fleet[n] EXCEPT !.age = age]]
        /\ fleetCache' = [fleetCache EXCEPT ![n] = [fleetCache[n] EXCEPT !.age = cached]]
        /\ UNCHANGED <<registrarFrame, synced, agentVars>> /\ Fault
    BY <1>4 DEF Silence, age, cached
  <2>6. NodeTypes' /\ CacheTypes' /\ faults' \in Nat
    BY <1>1, <2>4, <2>5 DEF NodeTypes, CacheTypes, Fault
  <2> QED BY <2>5, <2>6
<1>5. CASE Drain(n)
  <2>1. [fleet[n] EXCEPT !.phase = "Draining", !.age = 0] \in NodeState
    BY <1>1 DEF NodeTypes, NodeState
  <2>2. NodeTypes' /\ CacheTypes' /\ faults' \in Nat
    BY <1>1, <1>5, <2>1 DEF Drain, NodeTypes, CacheTypes, Fault, nodeVars
  <2>3. AgentTypes'
    BY <1>1, <1>5 DEF Drain, AgentTypes
  <2> QED BY <1>5, <2>2, <2>3 DEF Drain
<1>6. CASE Exit(n)
  <2>1. CacheTypes' /\ AgentTypes'
    BY <1>1, <1>6 DEF Exit, AgentTypes, CacheTypes
  <2> QED BY <1>6, <2>1 DEF Exit
<1>7. CASE Crash(n)
  <2>1. CacheTypes' /\ AgentTypes' /\ faults' \in Nat
    BY <1>1, <1>7 DEF Crash, AgentTypes, CacheTypes, Fault
  <2> QED BY <1>7, <2>1 DEF Crash
<1> QED BY <1>2, <1>3, <1>4, <1>5, <1>6, <1>7 DEF Registrar

\* So does each step of an agent's watcher and of its executions.
LEMMA WatcherType ==
    ASSUME TypeOK, NEW n \in Nodes, Watcher(n) PROVE TypeOK'
<1>1. /\ TaskTypes /\ AgentTypes /\ faults \in Nat
  BY TypeParts
<1>2. /\ \A t \in Tasks : task[t] \in TaskState
      /\ listed[n] \subseteq Tasks /\ runs[n] \subseteq RunState
      /\ nextClaim \in Nat /\ nextClaim + 1 \in Nat
  BY <1>1 DEF TaskTypes, AgentTypes
<1>3. \A r \in runs[n] : r \in RunState /\ r.task \in Tasks
  BY <1>2 DEF RunState
<1> USE TypeFrame, TypeFromParts DEF operatorVars
<1>4. CASE RecoverOrphanedTask(n)
  <2>1. PICK t \in listed[n] :
            /\ listed' = [listed EXCEPT ![n] = @ \ {t}]
            /\ \/ UNCHANGED taskVars
               \/ AgentPatch(t, [task[t] EXCEPT !.phase = "Pending",
                                   !.assignedNode = NoNode, !.claimedAt = NoClaim])
    BY <1>4 DEF RecoverOrphanedTask
  <2>2. [task[t] EXCEPT !.phase = "Pending", !.assignedNode = NoNode,
                        !.claimedAt = NoClaim] \in TaskState
    BY <1>2, TaskStateExcept DEF Phases, NoClaim
  <2>3. TaskTypes'
    BY <1>1, <1>2, <2>1, <2>2, AgentPatchType
  <2>4. AgentTypes'
    BY <1>1, <1>4, <2>1 DEF RecoverOrphanedTask, AgentTypes
  <2> QED BY <1>4, <2>3, <2>4 DEF RecoverOrphanedTask
<1>5. CASE RecoverOrphanedTaskError(n)
  <2>1. AgentTypes' /\ faults' \in Nat
    BY <1>1, <1>5 DEF RecoverOrphanedTaskError, AgentTypes, Fault
  <2> QED BY <1>5, <2>1 DEF RecoverOrphanedTaskError
<1>6. CASE StartPolling(n)
  <2>1. AgentTypes'
    BY <1>1, <1>6 DEF StartPolling, AgentTypes
  <2> QED BY <1>6, <2>1 DEF StartPolling
<1>7. CASE PollOnce(n)
  <2>1. AgentTypes'
    BY <1>1, <1>7 DEF PollOnce, AgentTypes
  <2> QED BY <1>7, <2>1 DEF PollOnce
<1>8. ASSUME NEW t \in Tasks, ClaimPatch(t) PROVE TaskTypes'
  <2>1. [task[t] EXCEPT !.phase = "Running", !.claimedAt = nextClaim] \in TaskState
    BY <1>2, TaskStateExcept DEF Phases, InFlight
  <2> QED BY <1>1, <1>8, <2>1, AgentPatchType DEF ClaimPatch
<1>9. CASE ClaimAndLaunch(n)
  <2>1. PICK t \in Tasks :
            /\ listed' = [listed EXCEPT ![n] = @ \ {t}]
            /\ ClaimPatch(t)
            /\ runs' = [runs EXCEPT ![n] = @ \cup
                          {[task |-> t, claim |-> nextClaim, stage |-> "exec"]}]
    BY <1>9 DEF ClaimAndLaunch, NextCandidate
  <2>2. [task |-> t, claim |-> nextClaim, stage |-> "exec"] \in RunState
    BY <1>2 DEF RunState
  <2>3. AgentTypes'
    BY <1>1, <1>2, <1>9, <2>1, <2>2 DEF ClaimAndLaunch, AgentTypes
  <2> QED BY <1>8, <1>9, <2>1, <2>3 DEF ClaimAndLaunch
<1>10. CASE SkipCandidate(n)
  <2>1. AgentTypes'
    BY <1>1, <1>10 DEF SkipCandidate, NextCandidate, AgentTypes
  <2> QED BY <1>10, <2>1 DEF SkipCandidate
<1>11. CASE ClaimError(n)
  <2>1. PICK t \in Tasks :
            /\ listed' = [listed EXCEPT ![n] = @ \ {t}]
            /\ \/ ClaimPatch(t) /\ nextClaim' = nextClaim + 1
               \/ UNCHANGED <<taskVars, nextClaim>>
    BY <1>11 DEF ClaimError, NextCandidate
  <2>2. AgentTypes' /\ faults' \in Nat
    BY <1>1, <1>2, <1>11, <2>1 DEF ClaimError, AgentTypes, Fault
  <2> QED BY <1>8, <1>11, <2>1, <2>2 DEF ClaimError
<1>12. ASSUME NEW t \in Tasks, NEW o \in Terminal, WriteOutcome(t, o)
       PROVE  TaskTypes'
  <2>1. [task[t] EXCEPT !.phase = o] \in TaskState
    BY <1>2, TaskStateExcept DEF Phases, NoClaim
  <2> QED BY <1>1, <1>12, <2>1, AgentPatchType DEF WriteOutcome
<1>13. ASSUME NEW r \in runs[n], runs' = [runs EXCEPT ![n] = @ \ {r}],
              UNCHANGED <<agent, listed, nextClaim>>
       PROVE  AgentTypes'
  BY <1>1, <1>13 DEF AgentTypes
<1>14. ASSUME NEW r \in runs[n], NEW st \in {"write", "fallback"},
              runs' = [runs EXCEPT ![n] = (@ \ {r}) \cup {[r EXCEPT !.stage = st]}],
              UNCHANGED <<agent, listed, nextClaim>>
       PROVE  AgentTypes'
  <2>1. [r EXCEPT !.stage = st] \in RunState
    BY <1>3 DEF RunState
  <2> QED BY <1>1, <1>14, <2>1 DEF AgentTypes
<1> USE DEF runFrame
<1>15. CASE PatchTerminal(n)
  BY <1>3, <1>12, <1>13, <1>15 DEF PatchTerminal, EndRun
<1>16. CASE PatchTerminalStall(n)
  BY <1>3, <1>14, <1>16 DEF PatchTerminalStall
<1>17. CASE PatchTerminalLate(n)
  BY <1>3, <1>12, <1>13, <1>14, <1>17 DEF PatchTerminalLate, EndRun
<1>18. CASE PatchTerminalFallback(n)
  BY <1>3, <1>12, <1>13, <1>18 DEF PatchTerminalFallback, EndRun, Terminal
<1>19. CASE PatchTerminalError(n)
  <2>1. AgentTypes'
    BY <1>13, <1>19 DEF PatchTerminalError, EndRun
  <2>2. faults' \in Nat
    BY <1>1, <1>19 DEF PatchTerminalError, Fault
  <2> QED BY <1>19, <2>1, <2>2 DEF PatchTerminalError
<1> QED
  BY <1>4, <1>5, <1>6, <1>7, <1>9, <1>10, <1>11, <1>15, <1>16, <1>17, <1>18, <1>19
     DEF Watcher

\* TypeOK holds in every reachable state, whatever the constants.
THEOREM TypeCorrect == Spec => []TypeOK
<1>1. Init => TypeOK
  <2> SUFFICES ASSUME Init PROVE TypeOK
    OBVIOUS
  <2>1. NewTask \in TaskState
    BY DEF NewTask, TaskState, Phases, NoClaim
  <2> QED
    BY <2>1, NodeConstantsType DEF Init, TypeOK, SchedState
<1>2. TypeOK /\ [Next]_vars => TypeOK'
  <2> SUFFICES ASSUME TypeOK, [Next]_vars PROVE TypeOK'
    OBVIOUS
  <2>1. ASSUME NEW t \in Tasks, DeleteTask(t) PROVE TypeOK'
    <3>1. [task[t] EXCEPT !.phase = "Gone"] \in TaskState
      BY TypeParts, TaskStateExcept DEF TaskTypes, Phases, NoClaim
    <3>2. TaskTypes' /\ faults' \in Nat
      BY <2>1, <3>1, TypeParts, AgentPatchType DEF DeleteTask, Fault
    <3> QED BY <2>1, <3>2, TypeFrame, TypeFromParts DEF DeleteTask, operatorVars
  <2>2. CASE UNCHANGED vars
    BY <2>2, TypeFrame, TypeFromParts DEF vars, taskVars, nodeVars, cacheVars, agentVars
  <2> QED BY <2>1, <2>2, SchedulerType, OperatorType, RegistrarType, WatcherType DEF Next
<1> QED BY <1>1, <1>2, PTL DEF Spec

----------------------------------------------------------------------------
(* Execution slots *)

\* The inductive form of SlotsRespected, for the executions S of one process:
\* finite, at most one of them in-process, the others within the budget.
Jobs(S) == {r \in S : IsJob(r.task)}
WithinSlots(S) ==
    /\ IsFiniteSet(S)
    /\ \A r, q \in S : ~IsJob(r.task) /\ ~IsJob(q.task) => r = q
    /\ Cardinality(Jobs(S)) <= MaxSupervised
SlotInv == \A n \in Nodes : WithinSlots(runs[n])

\* The Job-mode executions of a finite set are finitely many.
LEMMA JobsFinite ==
    ASSUME NEW S, IsFiniteSet(S)
    PROVE  IsFiniteSet(Jobs(S)) /\ Cardinality(Jobs(S)) \in Nat
BY FS_Subset, FS_CardinalityType DEF Jobs

\* An execution that ends frees its slot and no other (launchExecutor's defer).
LEMMA SlotsAfterEnd ==
    ASSUME NEW S, WithinSlots(S), NEW T \in SUBSET S PROVE WithinSlots(T)
<1>1. IsFiniteSet(T)
  BY FS_Subset DEF WithinSlots
<1>2. Jobs(T) \in SUBSET Jobs(S)
  BY DEF Jobs
<1>3. Cardinality(Jobs(T)) <= Cardinality(Jobs(S))
  BY <1>2, JobsFinite, FS_Subset DEF WithinSlots
<1>4. Cardinality(Jobs(T)) <= MaxSupervised
  BY <1>1, <1>3, JobsFinite, ConstantsAssumption DEF WithinSlots
<1> QED BY <1>1, <1>4 DEF WithinSlots

\* hasCapacityFor keeps a launch within the slots.
LEMMA SlotsAfterLaunch ==
    ASSUME NEW S, WithinSlots(S), NEW x,
           IF IsJob(x.task) THEN Cardinality(Jobs(S)) < MaxSupervised
                            ELSE S \ Jobs(S) = {}
    PROVE  WithinSlots(S \cup {x})
<1>1. IsFiniteSet(S \cup {x}) /\ IsFiniteSet(Jobs(S)) /\ Cardinality(Jobs(S)) \in Nat
  BY FS_AddElement, JobsFinite DEF WithinSlots
<1>2. CASE IsJob(x.task)
  <2>1. Jobs(S \cup {x}) = Jobs(S) \cup {x}
    BY <1>2 DEF Jobs
  <2>2. Cardinality(Jobs(S) \cup {x}) =
            IF x \in Jobs(S) THEN Cardinality(Jobs(S)) ELSE Cardinality(Jobs(S)) + 1
    BY <1>1, FS_AddElement, Zenon
  <2>3. Cardinality(Jobs(S)) < MaxSupervised /\ MaxSupervised \in Nat
    BY <1>2, ConstantsAssumption
  <2>4. Cardinality(Jobs(S) \cup {x}) <= MaxSupervised
    <3> DEFINE c == Cardinality(Jobs(S))
               d == Cardinality(Jobs(S) \cup {x})
    <3>1. c \in Nat /\ (d = c \/ d = c + 1) /\ c < MaxSupervised /\ MaxSupervised \in Nat
      BY <1>1, <2>2, <2>3
    <3> HIDE DEF c, d
    <3>2. d <= MaxSupervised
      BY <3>1
    <3> QED BY <3>2 DEF d
  <2> QED BY <1>1, <1>2, <2>1, <2>4, Zenon DEF WithinSlots
<1>3. CASE ~IsJob(x.task)
  <2>1. Jobs(S \cup {x}) = Jobs(S)
    BY <1>3 DEF Jobs
  <2>2. \A r \in S : IsJob(r.task)
    BY <1>3 DEF Jobs
  <2> QED BY <1>1, <2>1, <2>2 DEF WithinSlots
<1> QED BY <1>2, <1>3

\* An execution that moves to the next stage of patchTerminal keeps its slot.
LEMMA SlotsAfterStage ==
    ASSUME NEW S, WithinSlots(S), NEW r \in S, NEW x, x.task = r.task
    PROVE  WithinSlots((S \ {r}) \cup {x})
<1>1. WithinSlots(S \ {r})
  BY SlotsAfterEnd
<1>2. CASE IsJob(r.task)
  <2>1. Jobs(S \ {r}) = Jobs(S) \ {r} /\ r \in Jobs(S)
    BY <1>2 DEF Jobs
  <2>2. IsFiniteSet(Jobs(S)) /\ Cardinality(Jobs(S)) \in Nat
    BY JobsFinite DEF WithinSlots
  <2>3. Cardinality(Jobs(S) \ {r}) =
            IF r \in Jobs(S) THEN Cardinality(Jobs(S)) - 1 ELSE Cardinality(Jobs(S))
    BY <2>2, FS_RemoveElement, Zenon
  <2>4. Cardinality(Jobs(S)) <= MaxSupervised /\ MaxSupervised \in Nat
    BY ConstantsAssumption DEF WithinSlots
  <2>5. Cardinality(Jobs(S \ {r})) < MaxSupervised
    <3> DEFINE c == Cardinality(Jobs(S))
               d == Cardinality(Jobs(S \ {r}))
    <3>1. c \in Nat /\ d = c - 1 /\ c <= MaxSupervised /\ MaxSupervised \in Nat
      BY <2>1, <2>2, <2>3, <2>4
    <3> HIDE DEF c, d
    <3>2. d < MaxSupervised
      BY <3>1
    <3> QED BY <3>2 DEF d
  <2> QED BY <1>1, <1>2, <2>5, SlotsAfterLaunch
<1>3. CASE ~IsJob(r.task)
  <2>1. (S \ {r}) \ Jobs(S \ {r}) = {}
    BY <1>3 DEF WithinSlots, Jobs
  <2> QED BY <1>1, <1>3, <2>1, SlotsAfterLaunch
<1> QED BY <1>2, <1>3

\* A step that replaces the executions of one process within its slots.
LEMMA SlotInvUpdate ==
    ASSUME TypeOK, SlotInv, NEW n \in Nodes, NEW S, WithinSlots(S),
           runs' = [runs EXCEPT ![n] = S]
    PROVE  SlotInv'
<1>1. runs \in [Nodes -> SUBSET RunState]
  BY DEF TypeOK
<1>2. \A m \in Nodes : WithinSlots(runs'[m])
  BY <1>1 DEF SlotInv
<1> QED BY <1>2 DEF SlotInv

\* A step that leaves the executions alone.
LEMMA SlotInvFrame == ASSUME SlotInv, UNCHANGED runs PROVE SlotInv'
BY DEF SlotInv

\* No step of a watcher overbooks the slots of its process.
LEMMA WatcherSlots ==
    ASSUME TypeOK, SlotInv, NEW n \in Nodes, Watcher(n) PROVE SlotInv'
<1>1. WithinSlots(runs[n]) /\ runs[n] \subseteq RunState
  BY DEF SlotInv, TypeOK
<1>2. ASSUME NEW r \in runs[n], EndRun(n, r) PROVE SlotInv'
  BY <1>1, <1>2, SlotsAfterEnd, SlotInvUpdate DEF EndRun
<1>3. ASSUME NEW r \in runs[n], NEW st,
             runs' = [runs EXCEPT ![n] = (@ \ {r}) \cup {[r EXCEPT !.stage = st]}]
      PROVE  SlotInv'
  <2>1. [r EXCEPT !.stage = st].task = r.task
    BY <1>1 DEF RunState
  <2>2. WithinSlots((runs[n] \ {r}) \cup {[r EXCEPT !.stage = st]})
    BY <1>1, <2>1, SlotsAfterStage
  <2> QED BY <1>3, <2>2, SlotInvUpdate
<1>4. CASE ClaimAndLaunch(n)
  <2>1. PICK t \in Tasks :
            /\ HasCapacityFor(n, IsJob(t))
            /\ runs' = [runs EXCEPT ![n] = @ \cup
                          {[task |-> t, claim |-> nextClaim, stage |-> "exec"]}]
    BY <1>4 DEF ClaimAndLaunch
  <2> DEFINE x == [task |-> t, claim |-> nextClaim, stage |-> "exec"]
  <2>2. IF IsJob(x.task) THEN Cardinality(Jobs(runs[n])) < MaxSupervised
                         ELSE runs[n] \ Jobs(runs[n]) = {}
    BY <2>1 DEF HasCapacityFor, Supervised, InProcess, Jobs
  <2>3. WithinSlots(runs[n] \cup {x})
    <3> HIDE DEF x
    <3> QED BY <1>1, <2>2, SlotsAfterLaunch
  <2> QED BY <2>1, <2>3, SlotInvUpdate
<1>5. CASE PatchTerminal(n) \/ PatchTerminalFallback(n) \/ PatchTerminalError(n)
  BY <1>2, <1>5 DEF PatchTerminal, PatchTerminalFallback, PatchTerminalError
<1>6. CASE PatchTerminalStall(n) \/ PatchTerminalLate(n)
  BY <1>2, <1>3, <1>6 DEF PatchTerminalStall, PatchTerminalLate
<1>7. CASE \/ RecoverOrphanedTask(n) \/ RecoverOrphanedTaskError(n) \/ StartPolling(n)
           \/ PollOnce(n) \/ SkipCandidate(n) \/ ClaimError(n)
  BY <1>7, SlotInvFrame DEF RecoverOrphanedTask, RecoverOrphanedTaskError,
     StartPolling, PollOnce, SkipCandidate, ClaimError
<1> QED BY <1>4, <1>5, <1>6, <1>7 DEF Watcher

\* An agent process never runs more than one in-process task or supervises
\* more than MaxSupervised Job-mode tasks, whatever pollOnce listed.
THEOREM SlotsNeverOverbooked == Spec => []SlotsRespected
<1>1. Init => SlotInv
  <2> SUFFICES ASSUME Init, NEW n \in Nodes PROVE WithinSlots(runs[n])
    BY DEF SlotInv
  <2>1. runs[n] = {} /\ Jobs(runs[n]) = {}
    BY DEF Init, Jobs
  <2>2. Cardinality({}) <= MaxSupervised
    BY FS_EmptySet, ConstantsAssumption
  <2> QED BY <2>1, <2>2, FS_EmptySet, Zenon DEF WithinSlots
<1>2. TypeOK /\ SlotInv /\ [Next]_vars => SlotInv'
  <2> SUFFICES ASSUME TypeOK, SlotInv, [Next]_vars PROVE SlotInv'
    OBVIOUS
  <2>1. CASE UNCHANGED vars
    BY <2>1, SlotInvFrame DEF vars
  <2>2. CASE Scheduler
    BY <2>2, SlotInvFrame DEF Scheduler, SetInitialPending, ReconcileTerminal,
       ReserveFirstFitNode, CheckClaimExpiry, ScheduleToNode, ScheduleToNodeError,
       IncrementExpiryCounter, ReleaseExpiredClaim, TerminalFailExpired, agentVars
  <2>3. CASE Operator
    BY <2>3, SlotInvFrame DEF Operator, ReapDraining, ReconcileFleetNode,
       DeliverTask, RefreshFleet, OperatorCrash, agentVars
  <2>4. ASSUME NEW n \in Nodes, Registrar(n) PROVE SlotInv'
    <3>1. CASE Crash(n)
      <4>1. WithinSlots({})
        BY SlotsAfterEnd DEF SlotInv
      <4> QED BY <3>1, <4>1, SlotInvUpdate DEF Crash
    <3>2. CASE Start(n) \/ Heartbeat(n) \/ Silence(n) \/ Drain(n) \/ Exit(n)
      BY <3>2, SlotInvFrame DEF Start, Heartbeat, Silence, Drain, Exit, agentVars
    <3> QED BY <2>4, <3>1, <3>2 DEF Registrar
  <2>5. ASSUME NEW t \in Tasks, DeleteTask(t) PROVE SlotInv'
    BY <2>5, SlotInvFrame DEF DeleteTask, agentVars
  <2> QED BY <2>1, <2>2, <2>3, <2>4, <2>5, WatcherSlots DEF Next
<1>3. SlotInv => SlotsRespected
  BY DEF SlotInv, WithinSlots, Jobs, SlotsRespected, InProcess, Supervised
<1> QED BY <1>1, <1>2, <1>3, TypeCorrect, PTL DEF Spec

----------------------------------------------------------------------------
(* Ownership of an outcome *)

\* What SingleOwner rests on: the executions S of a process carry claims older
\* than k, and no two of them the same one.
ClaimsUnique(S, k) ==
    /\ \A r \in S : r.claim < k
    /\ \A r, q \in S : r.claim = q.claim => r = q
ClaimInv == \A n \in Nodes : ClaimsUnique(runs[n], nextClaim)

\* Executions that end, and claims made elsewhere, leave claims unique.
LEMMA ClaimsAfterEnd ==
    ASSUME NEW S \in SUBSET RunState, NEW k \in Nat, NEW j \in {k, k + 1},
           ClaimsUnique(S, k), NEW T \in SUBSET S
    PROVE  ClaimsUnique(T, j)
<1>1. ASSUME NEW r \in T PROVE r.claim < j
  <2>1. r.claim \in Nat /\ r.claim < k
    BY DEF RunState, ClaimsUnique
  <2> QED BY <2>1
<1> QED BY <1>1 DEF ClaimsUnique

\* An execution that moves on keeps its claim.
LEMMA ClaimsAfterStage ==
    ASSUME NEW S, NEW k, ClaimsUnique(S, k), NEW r \in S, NEW x, x.claim = r.claim
    PROVE  ClaimsUnique((S \ {r}) \cup {x}, k)
BY DEF ClaimsUnique

\* An execution launched with the claim k is the only one with that claim.
LEMMA ClaimsAfterLaunch ==
    ASSUME NEW S \in SUBSET RunState, NEW k \in Nat, ClaimsUnique(S, k),
           NEW x, x.claim = k
    PROVE  ClaimsUnique(S \cup {x}, k + 1)
<1>1. \A r \in S : r.claim \in Nat /\ r.claim < k /\ r.claim # k /\ r.claim < k + 1
  BY DEF RunState, ClaimsUnique
<1>2. k < k + 1
  OBVIOUS
<1> QED BY <1>1, <1>2 DEF ClaimsUnique

\* A step that replaces the executions of one process and may make a claim.
LEMMA ClaimInvUpdate ==
    ASSUME TypeOK, ClaimInv, NEW n \in Nodes, NEW S,
           NEW k \in {nextClaim, nextClaim + 1}, ClaimsUnique(S, k),
           nextClaim' = k, runs' = [runs EXCEPT ![n] = S]
    PROVE  ClaimInv'
<1>1. runs \in [Nodes -> SUBSET RunState] /\ nextClaim \in Nat
  BY DEF TypeOK
<1>2. ASSUME NEW m \in Nodes PROVE ClaimsUnique(runs[m], k)
  <2>1. runs[m] \in SUBSET RunState /\ ClaimsUnique(runs[m], nextClaim)
    BY <1>1 DEF ClaimInv
  <2> QED BY <1>1, <2>1, ClaimsAfterEnd
<1>3. \A m \in Nodes : ClaimsUnique(runs'[m], k)
  BY <1>1, <1>2
<1> QED BY <1>3 DEF ClaimInv

\* A step that leaves the executions alone.
LEMMA ClaimInvFrame ==
    ASSUME TypeOK, ClaimInv, UNCHANGED runs,
           nextClaim' = nextClaim \/ nextClaim' = nextClaim + 1
    PROVE  ClaimInv'
<1>1. nextClaim \in Nat
  BY DEF TypeOK
<1>2. ASSUME NEW m \in Nodes, NEW r \in runs[m] PROVE r.claim < nextClaim'
  <2>1. r.claim \in Nat /\ r.claim < nextClaim
    BY DEF TypeOK, RunState, ClaimInv, ClaimsUnique
  <2> QED BY <1>1, <2>1
<1> QED BY <1>2 DEF ClaimInv, ClaimsUnique

\* No step of a watcher gives two executions the same claim.
LEMMA WatcherClaims ==
    ASSUME TypeOK, ClaimInv, NEW n \in Nodes, Watcher(n) PROVE ClaimInv'
<1>1. /\ ClaimsUnique(runs[n], nextClaim) /\ runs[n] \in SUBSET RunState
      /\ nextClaim \in Nat
  BY DEF ClaimInv, TypeOK
<1>2. ASSUME NEW r \in runs[n], EndRun(n, r), UNCHANGED nextClaim PROVE ClaimInv'
  <2>1. ClaimsUnique(runs[n] \ {r}, nextClaim)
    BY <1>1, ClaimsAfterEnd
  <2> QED BY <1>2, <2>1, ClaimInvUpdate DEF EndRun
<1>3. ASSUME NEW r \in runs[n], NEW st, UNCHANGED nextClaim,
             runs' = [runs EXCEPT ![n] = (@ \ {r}) \cup {[r EXCEPT !.stage = st]}]
      PROVE  ClaimInv'
  <2>1. [r EXCEPT !.stage = st].claim = r.claim
    BY <1>1 DEF RunState
  <2>2. ClaimsUnique((runs[n] \ {r}) \cup {[r EXCEPT !.stage = st]}, nextClaim)
    BY <1>1, <2>1, ClaimsAfterStage
  <2> QED BY <1>3, <2>2, ClaimInvUpdate
<1>4. CASE ClaimAndLaunch(n)
  <2>1. PICK t \in Tasks :
            runs' = [runs EXCEPT ![n] = @ \cup
                       {[task |-> t, claim |-> nextClaim, stage |-> "exec"]}]
    BY <1>4 DEF ClaimAndLaunch
  <2>2. nextClaim' = nextClaim + 1
    BY <1>4 DEF ClaimAndLaunch
  <2>3. ClaimsUnique(runs[n] \cup {[task |-> t, claim |-> nextClaim, stage |-> "exec"]},
                     nextClaim + 1)
    BY <1>1, ClaimsAfterLaunch
  <2> QED BY <2>1, <2>2, <2>3, ClaimInvUpdate
<1> USE DEF runFrame
<1>5. CASE PatchTerminal(n) \/ PatchTerminalFallback(n) \/ PatchTerminalError(n)
  BY <1>2, <1>5 DEF PatchTerminal, PatchTerminalFallback, PatchTerminalError
<1>6. CASE PatchTerminalStall(n) \/ PatchTerminalLate(n)
  BY <1>2, <1>3, <1>6 DEF PatchTerminalStall, PatchTerminalLate
<1>7. CASE \/ RecoverOrphanedTask(n) \/ RecoverOrphanedTaskError(n) \/ StartPolling(n)
           \/ PollOnce(n) \/ SkipCandidate(n) \/ ClaimError(n)
  BY <1>7, ClaimInvFrame DEF RecoverOrphanedTask, RecoverOrphanedTaskError,
     StartPolling, PollOnce, SkipCandidate, ClaimError
<1> QED BY <1>4, <1>5, <1>6, <1>7 DEF Watcher

\* At most one execution of a task may write its outcome, however often the
\* task was expired and claimed again and on however many nodes.
THEOREM OneOwner == Spec => []SingleOwner
<1>1. Init => ClaimInv
  BY DEF Init, ClaimInv, ClaimsUnique
<1>2. TypeOK /\ ClaimInv /\ [Next]_vars => ClaimInv'
  <2> SUFFICES ASSUME TypeOK, ClaimInv, [Next]_vars PROVE ClaimInv'
    OBVIOUS
  <2>1. CASE UNCHANGED vars
    BY <2>1, ClaimInvFrame DEF vars
  <2>2. CASE Scheduler
    BY <2>2, ClaimInvFrame DEF Scheduler, SetInitialPending, ReconcileTerminal,
       ReserveFirstFitNode, CheckClaimExpiry, ScheduleToNode, ScheduleToNodeError,
       IncrementExpiryCounter, ReleaseExpiredClaim, TerminalFailExpired, agentVars
  <2>3. CASE Operator
    BY <2>3, ClaimInvFrame DEF Operator, ReapDraining, ReconcileFleetNode,
       DeliverTask, RefreshFleet, OperatorCrash, agentVars
  <2>4. ASSUME NEW n \in Nodes, Registrar(n) PROVE ClaimInv'
    <3>1. CASE Crash(n)
      <4>1. UNCHANGED nextClaim /\ runs' = [runs EXCEPT ![n] = {}]
        BY <3>1 DEF Crash
      <4>2. ClaimsUnique({}, nextClaim)
        BY DEF ClaimsUnique
      <4> QED BY <4>1, <4>2, ClaimInvUpdate
    <3>2. CASE Start(n) \/ Heartbeat(n) \/ Silence(n) \/ Drain(n) \/ Exit(n)
      BY <3>2, ClaimInvFrame DEF Start, Heartbeat, Silence, Drain, Exit, agentVars
    <3> QED BY <2>4, <3>1, <3>2 DEF Registrar
  <2>5. ASSUME NEW t \in Tasks, DeleteTask(t) PROVE ClaimInv'
    BY <2>5, ClaimInvFrame DEF DeleteTask, agentVars
  <2> QED BY <2>1, <2>2, <2>3, <2>4, <2>5, WatcherClaims DEF Next
<1>3. ClaimInv => SingleOwner
  BY DEF ClaimInv, ClaimsUnique, SingleOwner, Owns
<1> QED BY <1>1, <1>2, <1>3, TypeCorrect, PTL DEF Spec

----------------------------------------------------------------------------
(* What a cached task says about the task.  It is an old version of it; once *)
(* the scheduler's own last write has come back, every later version is the  *)
(* work of agents and users, and that bounds how wrong the cache can be.     *)

\* The versions of a task from the cached one, c, to the last one of its feed.
Version(c, f, i) == IF i = 0 THEN c ELSE f[i]

\* What agents and users may make of a version v: they never touch the expiry
\* count, and an agent that does not sleep between its read and its write
\* (~Stall) never puts a task in flight, moves it, or reopens it.
Follows(v, w) ==
    /\ w.expiries = v.expiries /\ w.releases = v.releases
    /\ \/ Stall
       \/ w.phase = "Gone"
       \/ v.phase \in {"New", "Pending"} /\ w.phase = v.phase /\ w.assignedNode = NoNode
       \/ v.phase \in Terminal \cup InFlight /\ w.phase \in Terminal
       \/ v.phase \in InFlight /\ w.phase = "Pending" /\ w.assignedNode = NoNode
       \/ /\ v.phase \in InFlight /\ w.phase \in InFlight
          /\ w.assignedNode = v.assignedNode

\* The last version is the task s itself, and from the scheduler's last write,
\* k, on each version is followed by the later ones.
Trail(c, f, k, s) ==
    /\ k <= Len(f) /\ s = Version(c, f, Len(f))
    /\ \A i, j \in 0..Len(f) :
           k <= i /\ i <= j => Follows(Version(c, f, i), Version(c, f, j))

\* The inductive invariant about the cache.  Between its first read and its
\* first write a reconcile has no write of its own under way, and agents that
\* do not sleep have no late outcome to write.
Trails == \A t \in Tasks : Trail(taskCache[t], feed[t], ownLag[t], task[t])
CacheInv ==
    /\ Trails
    /\ sched.pc \in {"reserved", "expiring"} => \A t \in Tasks : ownLag[t] = 0
    /\ ~Stall => \A n \in Nodes : \A r \in runs[n] : r.stage = "exec"

----------------------------------------------------------------------------
(* Versions *)

\* What agents do in several writes, they might have done in one.
LEMMA FollowsTransitive ==
    ASSUME NEW u \in TaskState, NEW v \in TaskState, NEW w \in TaskState,
           Follows(u, v), Follows(v, w)
    PROVE  Follows(u, w)
BY DEF Follows, Terminal, InFlight

\* A version that follows another one follows itself.
LEMMA FollowsItself ==
    ASSUME NEW u \in TaskState, NEW v \in TaskState, Follows(u, v)
    PROVE  Follows(v, v)
BY DEF Follows, Terminal, InFlight, TaskState, Phases

\* An agent's write is one more version.
LEMMA TrailAgent ==
    ASSUME NEW c \in TaskState, NEW f \in Seq(TaskState), NEW k \in Nat,
           NEW s \in TaskState, NEW w \in TaskState,
           Trail(c, f, k, s), Follows(s, w)
    PROVE  Trail(c, Append(f, w), k, w)
<1> DEFINE g == Append(f, w)
<1>1. /\ g \in Seq(TaskState) /\ Len(f) \in Nat /\ Len(g) = Len(f) + 1
      /\ g[Len(f) + 1] = w /\ \A i \in 1..Len(f) : g[i] = f[i]
  OBVIOUS
<1> HIDE DEF g
<1>2. \A i \in 0..Len(f) : Version(c, g, i) = Version(c, f, i)
  BY <1>1 DEF Version
<1>3. Version(c, g, Len(g)) = w
  BY <1>1 DEF Version
<1>4. \A i \in 0..Len(f) : Version(c, f, i) \in TaskState
  BY DEF Version
<1>5. k <= Len(g) /\ w = Version(c, g, Len(g))
  BY <1>1, <1>3 DEF Trail
<1>6. ASSUME NEW i \in 0..Len(g), NEW j \in 0..Len(g), k <= i, i <= j
      PROVE  Follows(Version(c, g, i), Version(c, g, j))
  <2>1. CASE j \in 0..Len(f)
    <3>1. i \in 0..Len(f)
      BY <1>1, <1>6, <2>1
    <3> QED BY <1>2, <1>6, <2>1, <3>1 DEF Trail
  <2>2. CASE i \in 0..Len(f) /\ j = Len(g)
    <3>1. Len(f) \in 0..Len(f) /\ i <= Len(f)
      BY <1>1, <2>2
    <3>2. Follows(Version(c, f, i), s)
      BY <1>6, <2>2, <3>1 DEF Trail
    <3> QED BY <1>2, <1>3, <1>4, <2>2, <3>2, FollowsTransitive
  <2>3. CASE i = Len(g) /\ j = Len(g)
    BY <1>3, <2>3, FollowsItself
  <2>4. \/ j \in 0..Len(f) \/ (i \in 0..Len(f) /\ j = Len(g))
        \/ (i = Len(g) /\ j = Len(g))
    BY <1>1, <1>6
  <2> QED BY <2>1, <2>2, <2>3, <2>4
<1>7. Trail(c, g, k, w)
  BY <1>5, <1>6 DEF Trail
<1> QED BY <1>7 DEF g

\* After a write of its own the scheduler waits for that version.
LEMMA TrailScheduler ==
    ASSUME NEW c \in TaskState, NEW f \in Seq(TaskState), NEW w \in TaskState,
           Follows(w, w)
    PROVE  Trail(c, Append(f, w), Len(f) + 1, w)
<1> DEFINE g == Append(f, w)
<1>1. Len(f) \in Nat /\ Len(g) = Len(f) + 1 /\ g[Len(f) + 1] = w
  OBVIOUS
<1> HIDE DEF g
<1>2. Version(c, g, Len(g)) = w
  BY <1>1 DEF Version
<1>3. \A i, j \in 0..Len(g) : Len(f) + 1 <= i /\ i <= j => i = Len(g) /\ j = Len(g)
  BY <1>1
<1>4. Trail(c, g, Len(f) + 1, w)
  BY <1>1, <1>2, <1>3 DEF Trail
<1> QED BY <1>4 DEF g

\* The watch delivers the oldest version.
LEMMA TrailDeliver ==
    ASSUME NEW c \in TaskState, NEW f \in Seq(TaskState), NEW k \in Nat,
           NEW s \in TaskState, Trail(c, f, k, s), f # <<>>
    PROVE  Trail(Head(f), Tail(f), IF k = 0 THEN 0 ELSE k - 1, s)
<1> DEFINE g == Tail(f)
           h == Head(f)
           l == IF k = 0 THEN 0 ELSE k - 1
<1>1. /\ g \in Seq(TaskState) /\ Len(f) \in Nat \ {0} /\ Len(g) = Len(f) - 1
      /\ h = f[1] /\ \A i \in 1..Len(g) : g[i] = f[i + 1]
  OBVIOUS
<1>2. l \in Nat /\ l <= Len(g) /\ k <= l + 1
  BY <1>1 DEF Trail
<1> HIDE DEF g, h, l
<1>3. \A i \in 0..Len(g) : /\ Version(h, g, i) = Version(c, f, i + 1)
                           /\ i + 1 \in 0..Len(f)
  BY <1>1 DEF Version
<1>4. s = Version(h, g, Len(g))
  BY <1>1, <1>3 DEF Trail
<1>5. ASSUME NEW i \in 0..Len(g), NEW j \in 0..Len(g), l <= i, i <= j
      PROVE  Follows(Version(h, g, i), Version(h, g, j))
  <2>1. k <= i + 1 /\ i + 1 <= j + 1
    BY <1>1, <1>2, <1>5
  <2> QED BY <1>3, <2>1 DEF Trail
<1>6. Trail(h, g, l, s)
  BY <1>2, <1>4, <1>5 DEF Trail
<1> QED BY <1>6 DEF g, h, l

\* A fresh list is the task itself.
LEMMA TrailFresh ==
    ASSUME NEW s \in TaskState, Follows(s, s) PROVE Trail(s, <<>>, 0, s)
<1>1. Len(<<>>) = 0 /\ 0..0 = {0}
  OBVIOUS
<1> QED BY <1>1 DEF Trail, Version

\* The task follows itself, and the cached version too once the scheduler's
\* last write has come back.
LEMMA TrailEnds ==
    ASSUME NEW c \in TaskState, NEW f \in Seq(TaskState), NEW k \in Nat,
           NEW s, Trail(c, f, k, s)
    PROVE  Follows(s, s) /\ (k = 0 => Follows(c, s))
<1>1. Len(f) \in Nat /\ 0 \in 0..Len(f) /\ Len(f) \in 0..Len(f)
  OBVIOUS
<1> QED BY <1>1 DEF Trail, Version

----------------------------------------------------------------------------
(* Patches *)

\* TypeOK for one task.
LEMMA TaskTypesOf ==
    ASSUME TypeOK, NEW t \in Tasks
    PROVE  /\ task[t] \in TaskState /\ taskCache[t] \in TaskState
           /\ feed[t] \in Seq(TaskState) /\ ownLag[t] \in Nat
BY DEF TypeOK

\* A patch of one task moves on the trail of that task alone.
LEMMA TrailsUpdate ==
    ASSUME TypeOK, Trails, NEW t \in Tasks, NEW c, NEW f, NEW k, NEW s,
           Trail(c, f, k, s),
           taskCache' = [taskCache EXCEPT ![t] = c], feed' = [feed EXCEPT ![t] = f],
           ownLag' = [ownLag EXCEPT ![t] = k], task' = [task EXCEPT ![t] = s]
    PROVE  Trails'
<1>1. ASSUME NEW u \in Tasks
      PROVE  Trail(taskCache'[u], feed'[u], ownLag'[u], task'[u])
  <2>1. CASE u = t
    <3>1. taskCache'[u] = c /\ feed'[u] = f /\ ownLag'[u] = k /\ task'[u] = s
      BY <2>1 DEF TypeOK
    <3> QED BY <3>1
  <2>2. CASE u # t
    <3>1. /\ taskCache'[u] = taskCache[u] /\ feed'[u] = feed[u]
          /\ ownLag'[u] = ownLag[u] /\ task'[u] = task[u]
      BY <2>2 DEF TypeOK
    <3> QED BY <3>1 DEF Trails
  <2> QED BY <2>1, <2>2
<1> QED BY <1>1 DEF Trails

\* A patch that changes nothing.
LEMMA TrailsFrame ==
    ASSUME Trails, UNCHANGED <<task, feed, ownLag, taskCache>> PROVE Trails'
BY DEF Trails

\* A patch by an agent or a user to a version that follows the task.
LEMMA AgentPatchTrail ==
    ASSUME TypeOK, Trails, NEW t \in Tasks, NEW s \in TaskState,
           Follows(task[t], s), AgentPatch(t, s), UNCHANGED taskCache
    PROVE  Trails'
<1>1. CASE s = task[t]
  <2>1. task' = task /\ feed' = feed /\ ownLag' = ownLag
    BY <1>1 DEF AgentPatch, WriteTask, TypeOK
  <2> QED BY <2>1, TrailsFrame
<1>2. CASE s # task[t]
  <2>1. /\ task' = [task EXCEPT ![t] = s]
        /\ feed' = [feed EXCEPT ![t] = Append(feed[t], s)] /\ ownLag' = ownLag
    BY <1>2 DEF AgentPatch, WriteTask
  <2>2. /\ taskCache' = [taskCache EXCEPT ![t] = taskCache[t]]
        /\ ownLag' = [ownLag EXCEPT ![t] = ownLag[t]]
    BY <2>1 DEF TypeOK
  <2>3. Trail(taskCache[t], Append(feed[t], s), ownLag[t], s)
    BY TaskTypesOf, TrailAgent DEF Trails
  <2> QED BY <2>1, <2>2, <2>3, TrailsUpdate, Zenon
<1> QED BY <1>1, <1>2

\* A patch by the scheduler, to any version.
LEMMA PatchTaskTrail ==
    ASSUME TypeOK, Trails, NEW t \in Tasks, NEW s \in TaskState,
           Follows(s, s), PatchTask(t, s), UNCHANGED taskCache
    PROVE  Trails'
<1>1. CASE UNCHANGED taskVars
  BY <1>1, TrailsFrame DEF taskVars
<1>2. CASE SchedulerPatch(t, s) /\ s = task[t]
  <2>1. task' = task /\ feed' = feed /\ ownLag' = ownLag
    BY <1>2 DEF SchedulerPatch, WriteTask, TypeOK
  <2> QED BY <2>1, TrailsFrame
<1>3. CASE SchedulerPatch(t, s) /\ s # task[t]
  <2>1. /\ task' = [task EXCEPT ![t] = s]
        /\ feed' = [feed EXCEPT ![t] = Append(feed[t], s)]
        /\ ownLag' = [ownLag EXCEPT ![t] = Len(feed[t]) + 1]
    BY <1>3 DEF SchedulerPatch, WriteTask
  <2>2. taskCache' = [taskCache EXCEPT ![t] = taskCache[t]]
    BY DEF TypeOK
  <2>3. Trail(taskCache[t], Append(feed[t], s), Len(feed[t]) + 1, s)
    BY TaskTypesOf, TrailScheduler
  <2> QED BY <2>1, <2>2, <2>3, TrailsUpdate, Zenon
<1> QED BY <1>1, <1>2, <1>3 DEF PatchTask

\* The task follows itself; with no write of the scheduler under way it
\* follows the cached version.
LEMMA CacheIsOld ==
    ASSUME TypeOK, Trails, NEW t \in Tasks
    PROVE  /\ Follows(task[t], task[t])
           /\ ownLag[t] = 0 => Follows(taskCache[t], task[t])
BY TaskTypesOf, TrailEnds DEF Trails

\* A reconcile begins with no write of its own under way.
LEMMA BeginsCaughtUp ==
    ASSUME ~OwnWriteLag, NEW t \in Tasks, BeginReconcile(t)
    PROVE  \A u \in Tasks : ownLag[u] = 0
BY DEF BeginReconcile

----------------------------------------------------------------------------
(* The cache *)

\* What a step of an agent or a user does to the tasks.
AgentWrites ==
    /\ \/ UNCHANGED taskVars
       \/ \E t \in Tasks, s \in TaskState : Follows(task[t], s) /\ AgentPatch(t, s)
    /\ UNCHANGED <<taskCache, sched>>

\* Every step of a watcher writes at most one task, to a version that follows
\* it: the guards of recoverOrphanedTasks, claim and patchTerminal see to it.
LEMMA WatcherWrites ==
    ASSUME TypeOK, CacheInv, NEW n \in Nodes, Watcher(n) PROVE AgentWrites
<1>1. /\ \A t \in Tasks : task[t] \in TaskState
      /\ listed[n] \subseteq Tasks /\ runs[n] \subseteq RunState /\ nextClaim \in Nat
  BY DEF TypeOK
<1>2. n # NoNode
  BY ConstantsAssumption DEF Nodes, NoNode
<1>3. UNCHANGED <<taskCache, sched>>
  BY Zenon DEF Watcher, RecoverOrphanedTask, RecoverOrphanedTaskError, StartPolling,
     PollOnce, ClaimAndLaunch, SkipCandidate, ClaimError, PatchTerminal,
     PatchTerminalStall, PatchTerminalLate, PatchTerminalFallback,
     PatchTerminalError, runFrame, operatorVars, cacheVars
<1>4. CASE UNCHANGED taskVars
  BY <1>3, <1>4 DEF AgentWrites
<1>5. ASSUME NEW t \in Tasks, NEW s \in TaskState, Follows(task[t], s), AgentPatch(t, s)
      PROVE  AgentWrites
  BY <1>3, <1>5 DEF AgentWrites
<1>6. CASE RecoverOrphanedTask(n)
  <2>1. PICK t \in listed[n] :
            \/ UNCHANGED taskVars
            \/ /\ Stall \/ task[t].phase = "Running"
               /\ AgentPatch(t, [task[t] EXCEPT !.phase = "Pending",
                                   !.assignedNode = NoNode, !.claimedAt = NoClaim])
    BY <1>6, Zenon DEF RecoverOrphanedTask
  <2> DEFINE s == [task[t] EXCEPT !.phase = "Pending", !.assignedNode = NoNode,
                                  !.claimedAt = NoClaim]
  <2>2. s \in TaskState
    BY <1>1, TaskStateExcept, Zenon DEF Phases, NoClaim
  <2>3. /\ s.phase = "Pending" /\ s.assignedNode = NoNode
        /\ s.expiries = task[t].expiries /\ s.releases = task[t].releases
    BY <1>1 DEF TaskState
  <2>4. Stall \/ task[t].phase = "Running" => Follows(task[t], s)
    BY <2>3 DEF Follows, InFlight
  <2> QED BY <1>1, <1>4, <1>5, <2>1, <2>2, <2>4
<1>7. ASSUME NEW t \in Tasks, Claimable(n, t), ClaimPatch(t) PROVE AgentWrites
  <2> DEFINE s == [task[t] EXCEPT !.phase = "Running", !.claimedAt = nextClaim]
  <2>1. s \in TaskState
    BY <1>1, TaskStateExcept, Zenon DEF Phases, InFlight
  <2>2. /\ s.phase = "Running" /\ s.assignedNode = task[t].assignedNode
        /\ s.expiries = task[t].expiries /\ s.releases = task[t].releases
    BY <1>1 DEF TaskState
  <2>3. Follows(task[t], s)
    BY <1>7, <2>2 DEF Follows, InFlight, Claimable
  <2> QED BY <1>5, <1>7, <2>1, <2>3 DEF ClaimPatch
<1>8. CASE ClaimAndLaunch(n) \/ ClaimError(n)
  BY <1>4, <1>7, <1>8 DEF ClaimAndLaunch, ClaimError, taskVars
<1>9. ASSUME NEW r \in runs[n], NEW o \in Terminal, WriteOutcome(r.task, o),
             Stall \/ Owns(n, r)
      PROVE  AgentWrites
  <2> DEFINE t == r.task
             s == [task[t] EXCEPT !.phase = o]
  <2>1. t \in Tasks /\ task[t] \in TaskState
    BY <1>1 DEF RunState
  <2>2. s \in TaskState
    BY <2>1, TaskStateExcept, Zenon DEF Phases, NoClaim
  <2>3. /\ s.phase = o
        /\ s.expiries = task[t].expiries /\ s.releases = task[t].releases
    BY <2>1 DEF TaskState
  <2>4. Follows(task[t], task[t])
    BY <2>1, CacheIsOld DEF CacheInv
  <2>5. Follows(task[t], s)
    BY <1>2, <1>9, <2>3, <2>4 DEF Follows, Owns, Terminal, InFlight
  <2> QED BY <1>4, <1>5, <1>9, <2>1, <2>2, <2>5 DEF WriteOutcome
<1>10. CASE PatchTerminal(n)
  BY <1>4, <1>9, <1>10 DEF PatchTerminal
<1>11. \A r \in runs[n] : r.stage \in {"write", "fallback"} => Stall
  BY DEF CacheInv
<1>12. CASE PatchTerminalLate(n)
  BY <1>4, <1>9, <1>11, <1>12 DEF PatchTerminalLate
<1>13. CASE PatchTerminalFallback(n)
  BY <1>4, <1>9, <1>11, <1>13 DEF PatchTerminalFallback, Terminal
<1>14. CASE \/ RecoverOrphanedTaskError(n) \/ StartPolling(n) \/ PollOnce(n)
            \/ SkipCandidate(n) \/ PatchTerminalStall(n) \/ PatchTerminalError(n)
  BY <1>4, <1>14 DEF RecoverOrphanedTaskError, StartPolling, PollOnce,
     SkipCandidate, PatchTerminalStall, PatchTerminalError
<1> QED BY <1>6, <1>8, <1>10, <1>12, <1>13, <1>14 DEF Watcher

\* A deletion is followed by nothing else.
LEMMA DeleteWrites ==
    ASSUME TypeOK, NEW t \in Tasks, DeleteTask(t) PROVE AgentWrites
<1> DEFINE s == [task[t] EXCEPT !.phase = "Gone"]
<1>1. s \in TaskState
  BY TaskTypesOf, TaskStateExcept, Zenon DEF Phases, NoClaim
<1>2. s.phase = "Gone" /\ s.expiries = task[t].expiries /\ s.releases = task[t].releases
  BY TaskTypesOf DEF TaskState
<1>3. Follows(task[t], s)
  BY <1>2 DEF Follows
<1> QED BY <1>1, <1>3 DEF DeleteTask, AgentWrites, operatorVars, cacheVars

\* The fields of what the scheduler writes.
LEMMA PatchFields ==
    ASSUME NEW s \in TaskState, NEW p, NEW a, NEW e
    PROVE  /\ LET w == [s EXCEPT !.phase = p]
              IN  /\ w.phase = p /\ w.assignedNode = s.assignedNode
                  /\ w.expiries = s.expiries /\ w.releases = s.releases
           /\ LET w == [s EXCEPT !.phase = p, !.assignedNode = a]
              IN  /\ w.phase = p /\ w.assignedNode = a
                  /\ w.expiries = s.expiries /\ w.releases = s.releases
           /\ LET w == [s EXCEPT !.expiries = e]
              IN  /\ w.phase = s.phase /\ w.assignedNode = s.assignedNode
                  /\ w.expiries = e /\ w.releases = s.releases
BY DEF TaskState

\* The fields of what releaseExpiredClaim writes.
LEMMA ReleasedFields ==
    ASSUME TypeOK, NEW t \in Tasks
    PROVE  LET w == Released(t)
           IN  /\ w \in TaskState /\ w.phase = "Pending" /\ w.assignedNode = NoNode
               /\ w.expiries = task[t].expiries
               /\ w.releases \in {task[t].releases, task[t].releases + 1}
<1>1. Released(t) \in TaskState
  BY TypeParts, ReleasedType
<1>2. task[t] \in TaskState
  BY TaskTypesOf
<1> QED BY <1>1, <1>2 DEF Released, TaskState

\* A reconcile in progress is about a task and a node.
LEMMA SchedFields ==
    ASSUME TypeOK, sched.pc # "idle"
    PROVE  sched.task \in Tasks /\ sched.node \in Nodes /\ sched.prior \in Nat
BY DEF TypeOK, SchedState, Idle, Busy

\* SetInitialPending finds the task as new as the cache has it, or deleted.
LEMMA InitialPending ==
    ASSUME TypeOK, CacheInv, ~OwnWriteLag, NEW t \in Tasks, SetInitialPending(t)
    PROVE  \/ UNCHANGED taskVars
           \/ \E s \in TaskState :
                /\ PatchTask(t, s) /\ Follows(s, s)
                /\ Stall \/ task[t].phase = "New"
                /\ s.phase = "Pending" /\ s.assignedNode = task[t].assignedNode
                /\ s.expiries = task[t].expiries /\ s.releases = task[t].releases
<1> DEFINE s == [task[t] EXCEPT !.phase = "Pending"]
<1>1. s \in TaskState
  BY TaskTypesOf, TaskStateExcept, Zenon DEF Phases, NoClaim
<1>2. /\ s.phase = "Pending" /\ s.assignedNode = task[t].assignedNode
      /\ s.expiries = task[t].expiries /\ s.releases = task[t].releases
  BY TaskTypesOf DEF TaskState
<1>3. Follows(taskCache[t], task[t]) /\ taskCache[t].phase = "New" /\ PatchTask(t, s)
  BY BeginsCaughtUp, CacheIsOld DEF SetInitialPending, CacheInv
<1> HIDE DEF s
<1>4. \/ task[t].phase = "Gone"
      \/ Stall \/ (task[t].phase = "New" /\ task[t].assignedNode = NoNode)
  BY <1>3 DEF Follows, Terminal, InFlight
<1>5. CASE task[t].phase = "Gone"
  BY <1>3, <1>5 DEF PatchTask
<1>6. CASE Stall \/ (task[t].phase = "New" /\ task[t].assignedNode = NoNode)
  <2>1. Follows(s, s)
    BY <1>2, <1>6 DEF Follows
  <2> QED BY <1>1, <1>2, <1>3, <1>6, <2>1
<1> QED BY <1>4, <1>5, <1>6

\* A count of one more expiry leaves the task as it is otherwise.
LEMMA CountedFollows ==
    ASSUME TypeOK, Trails, NEW t \in Tasks, NEW e \in Nat
    PROVE  LET w == [task[t] EXCEPT !.expiries = e]
           IN  w \in TaskState /\ Follows(w, w)
<1> DEFINE w == [task[t] EXCEPT !.expiries = e]
<1>1. task[t] \in TaskState /\ Follows(task[t], task[t])
  BY TaskTypesOf, CacheIsOld
<1>2. w \in TaskState
  BY <1>1 DEF TaskState
<1>3. w.phase = task[t].phase /\ w.assignedNode = task[t].assignedNode
  BY <1>1 DEF TaskState
<1> HIDE DEF w
<1>4. Follows(w, w)
  BY <1>1, <1>3 DEF Follows
<1> QED BY <1>2, <1>4 DEF w

\* What scheduleToNode writes: the task is in flight on the node.
LEMMA ScheduledFollows ==
    ASSUME TypeOK, NEW t \in Tasks, NEW n \in Nodes
    PROVE  LET w == [task[t] EXCEPT !.phase = "Scheduled", !.assignedNode = n]
           IN  /\ w \in TaskState /\ Follows(w, w)
               /\ w.phase = "Scheduled" /\ w.assignedNode = n
               /\ w.expiries = task[t].expiries /\ w.releases = task[t].releases
<1> DEFINE w == [task[t] EXCEPT !.phase = "Scheduled", !.assignedNode = n]
<1>1. w \in TaskState
  BY TaskTypesOf, TaskStateExcept, Zenon DEF Phases, InFlight, NoClaim
<1>2. /\ w.phase = "Scheduled" /\ w.assignedNode = n
      /\ w.expiries = task[t].expiries /\ w.releases = task[t].releases
  BY TaskTypesOf, PatchFields
<1> HIDE DEF w
<1>3. Follows(w, w)
  BY <1>2 DEF Follows, InFlight
<1> QED BY <1>1, <1>2, <1>3 DEF w

\* What terminalFailExpired writes.
LEMMA FailedFollows ==
    ASSUME TypeOK, NEW t \in Tasks
    PROVE  LET w == [task[t] EXCEPT !.phase = "Failed"]
           IN  /\ w \in TaskState /\ Follows(w, w) /\ w.phase = "Failed"
               /\ w.expiries = task[t].expiries /\ w.releases = task[t].releases
<1> DEFINE w == [task[t] EXCEPT !.phase = "Failed"]
<1>1. w \in TaskState
  BY TaskTypesOf, TaskStateExcept, Zenon DEF Phases, Terminal, NoClaim
<1>2. /\ w.phase = "Failed"
      /\ w.expiries = task[t].expiries /\ w.releases = task[t].releases
  BY TaskTypesOf, PatchFields
<1> HIDE DEF w
<1>3. Follows(w, w)
  BY <1>2 DEF Follows, Terminal
<1> QED BY <1>1, <1>2, <1>3 DEF w

\* Every reconcile step of the scheduler keeps the invariant of the cache.
LEMMA SchedulerCache ==
    ASSUME TypeOK, CacheInv, ~OwnWriteLag, Scheduler PROVE CacheInv'
<1>1. UNCHANGED <<taskCache, runs>>
  BY Zenon DEF Scheduler, SetInitialPending, ReconcileTerminal, ReserveFirstFitNode,
     CheckClaimExpiry, ScheduleToNode, ScheduleToNodeError, IncrementExpiryCounter,
     ReleaseExpiredClaim, TerminalFailExpired, cacheVars, agentVars
<1>2. ASSUME Trails',
             sched'.pc \notin {"reserved", "expiring"} \/ \A t \in Tasks : ownLag'[t] = 0
      PROVE  CacheInv'
  BY <1>1, <1>2 DEF CacheInv
<1>3. Trails
  BY DEF CacheInv
<1>4. Idle.pc = "idle"
  BY DEF Idle, Busy
<1>5. UNCHANGED taskVars => Trails'
  BY <1>1, <1>3, TrailsFrame DEF taskVars
<1>6. ASSUME NEW t \in Tasks, SetInitialPending(t) PROVE CacheInv'
  <2>1. Trails'
    BY <1>1, <1>3, <1>5, <1>6, InitialPending, PatchTaskTrail
  <2>2. sched'.pc = "idle"
    BY <1>6 DEF SetInitialPending, BeginReconcile
  <2> QED BY <1>2, <2>1, <2>2
<1>7. ASSUME NEW t \in Tasks,
             ReconcileTerminal(t) \/ ReserveFirstFitNode(t) \/ CheckClaimExpiry(t)
      PROVE  CacheInv'
  <2>1. UNCHANGED taskVars /\ BeginReconcile(t)
    BY <1>7 DEF ReconcileTerminal, ReserveFirstFitNode, CheckClaimExpiry
  <2>2. \A u \in Tasks : ownLag'[u] = 0
    BY <2>1, BeginsCaughtUp DEF taskVars
  <2> QED BY <1>2, <1>5, <2>1, <2>2
<1> DEFINE t == sched.task
           n == sched.node
<1>8. CASE ScheduleToNode \/ ScheduleToNodeError
  <2>1. t \in Tasks /\ n \in Nodes
    BY <1>8, SchedFields DEF ScheduleToNode, ScheduleToNodeError
  <2> DEFINE w == [task[t] EXCEPT !.phase = "Scheduled", !.assignedNode = n]
  <2>2. /\ UNCHANGED taskVars \/ PatchTask(t, w)
        /\ sched' = Idle
    BY <1>8 DEF ScheduleToNode, ScheduleToNodeError
  <2>3. w \in TaskState /\ Follows(w, w)
    BY <2>1, ScheduledFollows, Zenon
  <2>4. Trails'
    BY <1>1, <1>3, <1>5, <2>1, <2>2, <2>3, PatchTaskTrail
  <2> QED BY <1>2, <1>4, <2>2, <2>4
<1>9. CASE IncrementExpiryCounter
  <2> DEFINE e == MaxOf(taskCache[t].expiries, sched.prior) + 1
             w == [task[t] EXCEPT !.expiries = e]
  <2>1. t \in Tasks /\ sched.prior \in Nat
    BY <1>9, SchedFields DEF IncrementExpiryCounter
  <2>2. e \in Nat
    <3>1. taskCache[t].expiries \in Nat
      BY <2>1, TaskTypesOf DEF TaskState
    <3> QED BY <2>1, <3>1 DEF MaxOf
  <2>3. \/ sched' = Idle /\ UNCHANGED taskVars
        \/ PatchTask(t, w) /\ sched' = [sched EXCEPT !.pc = "expired"]
    BY <1>9 DEF IncrementExpiryCounter
  <2>4. sched'.pc \in {"idle", "expired"}
    BY <1>4, <1>9, <2>3 DEF IncrementExpiryCounter, TypeOK, SchedState, Idle, Busy
  <2> HIDE DEF e
  <2>5. w \in TaskState /\ Follows(w, w)
    BY <1>3, <2>1, <2>2, CountedFollows
  <2>6. Trails'
    BY <1>1, <1>3, <1>5, <2>1, <2>3, <2>5, PatchTaskTrail
  <2> QED BY <1>2, <2>4, <2>6
<1>10. CASE ReleaseExpiredClaim
  <2>1. t \in Tasks
    BY <1>10, SchedFields DEF ReleaseExpiredClaim
  <2>2. /\ UNCHANGED taskVars \/ PatchTask(t, Released(t))
        /\ sched' = Idle
    BY <1>10 DEF ReleaseExpiredClaim
  <2>3. Released(t) \in TaskState /\ Follows(Released(t), Released(t))
    BY <2>1, ReleasedFields DEF Follows
  <2>4. Trails'
    BY <1>1, <1>3, <1>5, <2>1, <2>2, <2>3, PatchTaskTrail
  <2> QED BY <1>2, <1>4, <2>2, <2>4
<1>11. CASE TerminalFailExpired
  <2>1. t \in Tasks
    BY <1>11, SchedFields DEF TerminalFailExpired
  <2> DEFINE w == [task[t] EXCEPT !.phase = "Failed"]
  <2>2. /\ UNCHANGED taskVars \/ PatchTask(t, w)
        /\ sched' = Idle
    BY <1>11 DEF TerminalFailExpired
  <2>3. w \in TaskState /\ Follows(w, w)
    BY <2>1, FailedFollows
  <2>4. Trails'
    BY <1>1, <1>3, <1>5, <2>1, <2>2, <2>3, PatchTaskTrail
  <2> QED BY <1>2, <1>4, <2>2, <2>4
<1> QED BY <1>6, <1>7, <1>8, <1>9, <1>10, <1>11 DEF Scheduler

\* So does every step of the FleetNode reconciler and of the informers, and a
\* restart of the operator.
LEMMA OperatorCache == ASSUME TypeOK, CacheInv, Operator PROVE CacheInv'
<1>1. Trails /\ UNCHANGED runs
  BY Zenon DEF CacheInv, Operator, ReapDraining, ReconcileFleetNode, DeliverTask,
     RefreshFleet, OperatorCrash, agentVars
<1>2. ASSUME NEW n \in Nodes, ReapDraining(n) \/ ReconcileFleetNode(n) PROVE CacheInv'
  <2>1. UNCHANGED <<task, feed, ownLag, taskCache, sched>>
    BY <1>2 DEF ReapDraining, ReconcileFleetNode, taskVars, cacheVars
  <2> QED BY <1>1, <2>1, TrailsFrame DEF CacheInv
<1>3. CASE RefreshFleet
  <2>1. UNCHANGED <<task, feed, ownLag, taskCache, sched>>
    BY <1>3 DEF RefreshFleet, taskVars
  <2> QED BY <1>1, <2>1, TrailsFrame DEF CacheInv
<1>4. ASSUME NEW t \in Tasks, DeliverTask(t) PROVE CacheInv'
  <2> DEFINE k == IF ownLag[t] = 0 THEN 0 ELSE ownLag[t] - 1
  <2>1. /\ task[t] \in TaskState /\ taskCache[t] \in TaskState
        /\ feed[t] \in Seq(TaskState) /\ ownLag[t] \in Nat
    BY TaskTypesOf
  <2>2. Trail(Head(feed[t]), Tail(feed[t]), k, task[t])
    BY <1>1, <1>4, <2>1, TrailDeliver DEF Trails, DeliverTask
  <2>3. /\ taskCache' = [taskCache EXCEPT ![t] = Head(feed[t])]
        /\ feed' = [feed EXCEPT ![t] = Tail(feed[t])]
        /\ ownLag' = [ownLag EXCEPT ![t] = k]
        /\ task' = [task EXCEPT ![t] = task[t]]
    BY <1>4 DEF DeliverTask, TypeOK
  <2>4. UNCHANGED sched /\ ownLag \in [Tasks -> Nat]
    BY <1>4 DEF DeliverTask, TypeOK
  <2>5. \A u \in Tasks : ownLag[u] = 0 => ownLag'[u] = 0
    BY <2>3, <2>4
  <2>6. Trails'
    <3> HIDE DEF k
    <3> QED BY <1>1, <2>2, <2>3, TrailsUpdate, Zenon
  <2> QED BY <1>1, <2>4, <2>5, <2>6 DEF CacheInv
<1>5. CASE OperatorCrash
  <2>1. /\ taskCache' = task /\ UNCHANGED task /\ sched' = Idle
        /\ feed' = [t \in Tasks |-> <<>>] /\ ownLag' = [t \in Tasks |-> 0]
    BY <1>5 DEF OperatorCrash
  <2>2. \A t \in Tasks : Trail(task[t], <<>>, 0, task[t])
    BY <1>1, TaskTypesOf, CacheIsOld, TrailFresh
  <2>3. Trails'
    BY <2>1, <2>2 DEF Trails
  <2>4. sched'.pc = "idle"
    BY <2>1 DEF Idle, Busy
  <2> QED BY <1>1, <2>3, <2>4 DEF CacheInv
<1> QED BY <1>2, <1>3, <1>4, <1>5 DEF Operator

\* What agents and users write moves on the trails.
LEMMA AgentWritesTrail ==
    ASSUME TypeOK, Trails, AgentWrites
    PROVE  Trails' /\ \A t \in Tasks : ownLag'[t] = ownLag[t]
<1>1. CASE UNCHANGED taskVars
  BY <1>1, TrailsFrame DEF AgentWrites, taskVars
<1>2. ASSUME NEW t \in Tasks, NEW s \in TaskState, Follows(task[t], s), AgentPatch(t, s)
      PROVE  Trails' /\ ownLag' = ownLag
  BY <1>2, AgentPatchTrail DEF AgentWrites, AgentPatch
<1> QED BY <1>1, <1>2 DEF AgentWrites

\* Every step of an agent's watcher keeps the invariant of the cache.
LEMMA WatcherCache ==
    ASSUME TypeOK, CacheInv, NEW n \in Nodes, Watcher(n) PROVE CacheInv'
<1>1. AgentWrites /\ Trails /\ UNCHANGED sched
  BY WatcherWrites DEF CacheInv, AgentWrites
<1>2. Trails' /\ \A t \in Tasks : ownLag'[t] = ownLag[t]
  BY <1>1, AgentWritesTrail
<1>3. ASSUME ~Stall PROVE \A m \in Nodes : \A r \in runs'[m] : r.stage = "exec"
  <2>1. \A m \in Nodes : \A r \in runs[m] : r.stage = "exec"
    BY <1>3 DEF CacheInv
  <2>2. CASE UNCHANGED runs
    BY <2>1, <2>2
  <2>3. CASE ClaimAndLaunch(n)
    <3>1. PICK t \in Tasks :
              runs' = [runs EXCEPT ![n] = @ \cup
                         {[task |-> t, claim |-> nextClaim, stage |-> "exec"]}]
      BY <2>3, Zenon DEF ClaimAndLaunch
    <3> QED BY <2>1, <3>1 DEF TypeOK
  <2>4. CASE PatchTerminal(n) \/ PatchTerminalError(n)
    <3>1. PICK r \in runs[n] : EndRun(n, r)
      BY <2>4 DEF PatchTerminal, PatchTerminalError
    <3> QED BY <2>1, <3>1 DEF EndRun, TypeOK
  <2>5. ~(PatchTerminalStall(n) \/ PatchTerminalLate(n) \/ PatchTerminalFallback(n))
    BY <1>3, <2>1 DEF PatchTerminalStall, PatchTerminalLate, PatchTerminalFallback
  <2>6. CASE \/ RecoverOrphanedTask(n) \/ RecoverOrphanedTaskError(n)
             \/ StartPolling(n) \/ PollOnce(n) \/ SkipCandidate(n) \/ ClaimError(n)
    BY <2>2, <2>6, Zenon DEF RecoverOrphanedTask, RecoverOrphanedTaskError, StartPolling,
       PollOnce, SkipCandidate, ClaimError
  <2> QED BY <2>3, <2>4, <2>5, <2>6 DEF Watcher
<1> QED BY <1>1, <1>2, <1>3 DEF CacheInv

\* A step of an agent's life cycle leaves the tasks and the cache alone.
LEMMA RegistrarFrame ==
    ASSUME TypeOK, NEW n \in Nodes, Registrar(n)
    PROVE  /\ UNCHANGED <<task, feed, ownLag, taskCache, sched>>
           /\ \A m \in Nodes : runs'[m] \subseteq runs[m]
<1>1. UNCHANGED <<task, feed, ownLag, taskCache, sched>>
  BY Zenon DEF Registrar, Start, Heartbeat, Silence, Drain, Exit, Crash, registrarFrame,
     taskVars
<1>2. UNCHANGED runs \/ runs' = [runs EXCEPT ![n] = {}]
  BY Zenon DEF Registrar, Start, Heartbeat, Silence, Drain, Exit, Crash, agentVars
<1> QED BY <1>1, <1>2, Zenon DEF TypeOK

\* The invariant of the cache is inductive as long as a reconcile sees the
\* scheduler's own writes.
LEMMA CacheInvariance ==
    ASSUME ~OwnWriteLag
    PROVE  /\ Init => CacheInv
           /\ TypeOK /\ CacheInv /\ [Next]_vars => CacheInv'
<1>1. ASSUME Init PROVE CacheInv
  <2>1. NewTask \in TaskState /\ Follows(NewTask, NewTask)
    BY DEF NewTask, TaskState, Phases, NoClaim, Follows
  <2>2. Trail(NewTask, <<>>, 0, NewTask)
    BY <2>1, TrailFresh
  <2>3. Trails
    <3> HIDE DEF NewTask
    <3> QED BY <1>1, <2>2 DEF Init, Trails
  <2>4. sched.pc = "idle" /\ \A n \in Nodes : runs[n] = {}
    BY <1>1 DEF Init, Idle, Busy
  <2> QED BY <2>3, <2>4 DEF CacheInv
<1>2. ASSUME TypeOK, CacheInv, [Next]_vars PROVE CacheInv'
  <2>1. CASE UNCHANGED vars
    BY <1>2, <2>1, TrailsFrame DEF CacheInv, vars
  <2>2. ASSUME NEW n \in Nodes, Registrar(n) PROVE CacheInv'
    BY <1>2, <2>2, RegistrarFrame, TrailsFrame DEF CacheInv
  <2>3. ASSUME NEW t \in Tasks, DeleteTask(t) PROVE CacheInv'
    <3>1. AgentWrites /\ UNCHANGED <<sched, runs>>
      BY <1>2, <2>3, DeleteWrites DEF AgentWrites, DeleteTask, agentVars
    <3> QED BY <1>2, <3>1, AgentWritesTrail DEF CacheInv
  <2> QED BY <1>2, <2>1, <2>2, <2>3, SchedulerCache, OperatorCache, WatcherCache DEF Next
<1> QED BY <1>1, <1>2
============================================================================
