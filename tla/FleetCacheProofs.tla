------------------------- MODULE FleetCacheProofs --------------------------
(***************************************************************************)
(* Proofs about the decisions that the scheduler of FleetDispatch takes on *)
(* cached tasks: how often it releases a claim, how many tasks of an Agent *)
(* it lets run, and which node it keeps for whom.  They rest on CacheInv,  *)
(* which says how wrong the cache can be.                                  *)
(***************************************************************************)
EXTENDS FleetDispatchProofs

----------------------------------------------------------------------------
(* Claim expiry *)

\* The inductive form of BoundedReleases: a reconcile that is about to count
\* an expiry took its decision on the count the task has, and one that is about
\* to release has counted an expiry that no release has used.
ExpiryInv ==
    /\ BoundedReleases
    /\ sched.pc = "expiring" => /\ sched.prior = task[sched.task].expiries
                                /\ sched.prior < ClaimExpiryLimit
    /\ sched.pc = "expired" =>
           task[sched.task].releases < task[sched.task].expiries

\* A patch changes the one task it is for, or nothing.
LEMMA PatchTaskWrites ==
    ASSUME TypeOK, NEW t \in Tasks, NEW s, PatchTask(t, s)
    PROVE  \/ task' = task
           \/ task' = [task EXCEPT ![t] = s] /\ task'[t] = s
BY DEF PatchTask, taskVars, SchedulerPatch, WriteTask, TypeOK

\* A step that leaves the counts of every task alone.
CountsKept ==
    \A t \in Tasks : /\ task'[t].expiries = task[t].expiries
                     /\ task'[t].releases = task[t].releases

\* A patch of one task that keeps its counts keeps all counts.
LEMMA PatchKeepsCounts ==
    ASSUME TypeOK, NEW t \in Tasks, NEW s,
           task' = task \/ task' = [task EXCEPT ![t] = s],
           s.expiries = task[t].expiries, s.releases = task[t].releases
    PROVE  CountsKept
BY Zenon DEF CountsKept, TypeOK

\* Agents and users leave the counts alone.
LEMMA AgentsKeepCounts == ASSUME TypeOK, AgentWrites PROVE CountsKept
<1>1. CASE UNCHANGED taskVars
  BY <1>1 DEF taskVars, CountsKept
<1>2. ASSUME NEW t \in Tasks, NEW s \in TaskState, Follows(task[t], s), AgentPatch(t, s)
      PROVE  CountsKept
  BY <1>2, PatchKeepsCounts, Zenon DEF AgentPatch, WriteTask, Follows
<1> QED BY <1>1, <1>2 DEF AgentWrites

\* Counts that stay keep the invariant, if the reconcile stays or ends.
LEMMA ExpiryFrame ==
    ASSUME TypeOK, ExpiryInv, CountsKept,
           sched' = sched \/ sched'.pc \notin {"expiring", "expired"}
    PROVE  ExpiryInv'
<1>1. BoundedReleases'
  BY DEF ExpiryInv, BoundedReleases, CountsKept
<1>2. sched.pc # "idle" => sched.task \in Tasks
  BY SchedFields
<1> QED BY <1>1, <1>2 DEF ExpiryInv, CountsKept

\* One more expiry is counted within the limit, one more release within the
\* count, and nothing else in the scheduler touches either.
LEMMA SchedulerExpiry ==
    ASSUME TypeOK, CacheInv, ~OwnWriteLag, ExpiryInv, Scheduler PROVE ExpiryInv'
<1>1. Idle.pc = "idle" /\ Trails
  BY DEF Idle, Busy, CacheInv
<1>2. UNCHANGED taskVars => CountsKept
  BY DEF taskVars, CountsKept
<1>3. ASSUME NEW t \in Tasks, SetInitialPending(t) PROVE ExpiryInv'
  <2>1. CountsKept
    BY <1>2, <1>3, InitialPending, PatchTaskWrites, PatchKeepsCounts
  <2> QED BY <1>3, <2>1, ExpiryFrame DEF SetInitialPending
<1>4. ASSUME NEW t \in Tasks, ReconcileTerminal(t) \/ ReserveFirstFitNode(t)
      PROVE  ExpiryInv'
  <2>1. CountsKept
    BY <1>2, <1>4 DEF ReconcileTerminal, ReserveFirstFitNode
  <2>2. sched' = sched \/ sched'.pc = "reserved"
    <3>1. CASE ReconcileTerminal(t)
      BY <3>1 DEF ReconcileTerminal
    <3>2. CASE ReserveFirstFitNode(t)
      <4>1. PICK m \in Nodes : sched' = Busy("reserved", t, m, 0)
        BY <3>2 DEF ReserveFirstFitNode
      <4> QED BY <4>1 DEF Busy
    <3> QED BY <1>4, <3>1, <3>2
  <2> QED BY <2>1, <2>2, ExpiryFrame
<1>5. ASSUME NEW t \in Tasks, CheckClaimExpiry(t) PROVE ExpiryInv'
  <2>1. /\ task' = task
        /\ sched'.pc = ExpiryVerdict(taskCache[t].expiries)
        /\ sched'.task = t /\ sched'.prior = taskCache[t].expiries
    BY <1>5 DEF CheckClaimExpiry, taskVars, Busy
  <2>2. Follows(taskCache[t], task[t])
    BY <1>1, <1>5, BeginsCaughtUp, CacheIsOld DEF CheckClaimExpiry
  <2>3. taskCache[t].expiries = task[t].expiries /\ task[t].expiries \in Nat
    BY <2>2, TaskTypesOf DEF Follows, TaskState
  <2>4. sched'.pc = "expiring" => sched'.prior < ClaimExpiryLimit
    BY <2>1, <2>3, ConstantsAssumption DEF ExpiryVerdict
  <2>5. sched'.pc # "expired"
    BY <2>1 DEF ExpiryVerdict
  <2> QED BY <2>1, <2>3, <2>4, <2>5 DEF ExpiryInv, BoundedReleases
<1> DEFINE t == sched.task
           n == sched.node
<1>6. CASE ScheduleToNode \/ ScheduleToNodeError
  <2>1. t \in Tasks /\ n \in Nodes
    BY <1>6, SchedFields DEF ScheduleToNode, ScheduleToNodeError
  <2> DEFINE w == [task[t] EXCEPT !.phase = "Scheduled", !.assignedNode = n]
  <2>2. /\ UNCHANGED taskVars \/ PatchTask(t, w)
        /\ sched' = Idle
    BY <1>6 DEF ScheduleToNode, ScheduleToNodeError
  <2>3. w.expiries = task[t].expiries /\ w.releases = task[t].releases
    BY <2>1, ScheduledFollows, Zenon
  <2> HIDE DEF w
  <2>4. CountsKept
    BY <1>2, <2>1, <2>2, <2>3, PatchTaskWrites, PatchKeepsCounts
  <2> QED BY <1>1, <2>2, <2>4, ExpiryFrame
<1>7. CASE IncrementExpiryCounter
  <2> DEFINE e == MaxOf(taskCache[t].expiries, sched.prior) + 1
             w == [task[t] EXCEPT !.expiries = e]
  <2>1. t \in Tasks /\ sched.prior \in Nat /\ sched.pc = "expiring"
    BY <1>7, SchedFields DEF IncrementExpiryCounter
  <2>2. \/ sched' = Idle /\ UNCHANGED taskVars
        \/ /\ PatchTask(t, w) /\ task[t].phase # "Gone"
           /\ sched' = [sched EXCEPT !.pc = "expired"]
    BY <1>7 DEF IncrementExpiryCounter
  <2>3. CASE sched' = Idle /\ UNCHANGED taskVars
    BY <1>1, <1>2, <2>3, ExpiryFrame
  <2>4. CASE /\ PatchTask(t, w) /\ task[t].phase # "Gone"
             /\ sched' = [sched EXCEPT !.pc = "expired"]
    <3>1. Follows(taskCache[t], task[t])
      BY <1>1, <2>1, CacheIsOld DEF CacheInv
    <3>2. /\ taskCache[t].expiries = task[t].expiries /\ task[t].expiries \in Nat
          /\ task[t].releases \in Nat
      BY <2>1, <3>1, TaskTypesOf DEF Follows, TaskState
    <3>3. /\ sched.prior = task[t].expiries /\ task[t].expiries < ClaimExpiryLimit
          /\ task[t].releases <= task[t].expiries
      BY <2>1 DEF ExpiryInv, BoundedReleases
    <3>4. e = task[t].expiries + 1 /\ e <= ClaimExpiryLimit /\ task[t].releases < e
      BY <3>2, <3>3, ConstantsAssumption DEF MaxOf
    <3>5. w.expiries = e /\ w.releases = task[t].releases
      BY <2>1, TaskTypesOf, PatchFields
    <3>6. task' = [task EXCEPT ![t] = w] /\ task'[t] = w
      BY <2>1, <2>4 DEF PatchTask, SchedulerPatch, WriteTask, TypeOK
    <3>7. sched'.pc = "expired" /\ sched'.task = t
      BY <2>1, <2>4 DEF TypeOK, SchedState, Idle, Busy
    <3> HIDE DEF e, w
    <3>8. task[t].releases <= e
      BY <3>2, <3>4
    <3>9. \A u \in Tasks : task'[u] = w \/ task'[u] = task[u]
      BY <3>6 DEF TypeOK
    <3>10. BoundedReleases'
      BY <3>4, <3>5, <3>8, <3>9 DEF ExpiryInv, BoundedReleases
    <3> QED BY <3>4, <3>5, <3>6, <3>7, <3>10 DEF ExpiryInv
  <2> QED BY <2>2, <2>3, <2>4
<1>8. CASE ReleaseExpiredClaim
  <2>1. t \in Tasks /\ sched.pc = "expired"
    BY <1>8, SchedFields DEF ReleaseExpiredClaim
  <2>2. /\ UNCHANGED taskVars \/ PatchTask(t, Released(t))
        /\ sched'.pc = "idle"
    BY <1>1, <1>8 DEF ReleaseExpiredClaim
  <2>3. /\ Released(t).expiries = task[t].expiries
        /\ Released(t).releases \in {task[t].releases, task[t].releases + 1}
        /\ task[t].releases \in Nat /\ task[t].expiries \in Nat
    BY <2>1, ReleasedFields, TaskTypesOf DEF TaskState
  <2>4. task[t].releases < task[t].expiries /\ task[t].expiries <= ClaimExpiryLimit
    BY <2>1 DEF ExpiryInv, BoundedReleases
  <2>5. /\ Released(t).releases <= Released(t).expiries
        /\ Released(t).expiries <= ClaimExpiryLimit
    BY <2>3, <2>4
  <2>6. \A u \in Tasks : task'[u] = task[u] \/ task'[u] = Released(t)
    BY <2>1, <2>2, PatchTaskWrites DEF taskVars, TypeOK
  <2>7. BoundedReleases'
    BY <2>5, <2>6 DEF ExpiryInv, BoundedReleases
  <2> QED BY <2>2, <2>7 DEF ExpiryInv
<1>9. CASE TerminalFailExpired
  <2>1. t \in Tasks
    BY <1>9, SchedFields DEF TerminalFailExpired
  <2> DEFINE w == [task[t] EXCEPT !.phase = "Failed"]
  <2>2. /\ UNCHANGED taskVars \/ PatchTask(t, w)
        /\ sched' = Idle
    BY <1>9 DEF TerminalFailExpired
  <2>3. w.expiries = task[t].expiries /\ w.releases = task[t].releases
    BY <2>1, FailedFollows
  <2> HIDE DEF w
  <2>4. CountsKept
    BY <1>2, <2>1, <2>2, <2>3, PatchTaskWrites, PatchKeepsCounts
  <2> QED BY <1>1, <2>2, <2>4, ExpiryFrame
<1> QED BY <1>3, <1>4, <1>5, <1>6, <1>7, <1>8, <1>9 DEF Scheduler

\* The operator's other steps leave the tasks alone and at most cut the
\* reconcile short.
LEMMA OperatorFrame ==
    ASSUME Operator PROVE task' = task /\ (sched' = sched \/ sched' = Idle)
BY Zenon DEF Operator, ReapDraining, ReconcileFleetNode, DeliverTask, RefreshFleet,
       OperatorCrash, taskVars

\* Claim expiry takes a task away from a node at most claimExpiryLimit times,
\* and counts before it takes (checkClaimExpiry, incrementExpiryCounter,
\* releaseExpiredClaim), for any number of tasks, nodes, crashes and errors and
\* with agents that sleep as they like, provided a reconcile sees the
\* scheduler's own earlier writes.
THEOREM ReleasesStayBounded == ~OwnWriteLag => (Spec => []BoundedReleases)
<1> SUFFICES ASSUME ~OwnWriteLag PROVE Spec => []BoundedReleases
  OBVIOUS
<1>1. Init => CacheInv
  BY CacheInvariance
<1>2. TypeOK /\ CacheInv /\ [Next]_vars => CacheInv'
  BY CacheInvariance
<1>3. Init => ExpiryInv
  <2> SUFFICES ASSUME Init PROVE ExpiryInv
    OBVIOUS
  <2>1. \A t \in Tasks : task[t].releases = 0 /\ task[t].expiries = 0
    BY DEF Init, NewTask
  <2>2. sched.pc = "idle"
    BY DEF Init, Idle, Busy
  <2>3. 0 <= 0 /\ 0 <= ClaimExpiryLimit
    BY ConstantsAssumption
  <2> QED BY <2>1, <2>2, <2>3 DEF ExpiryInv, BoundedReleases
<1>4. TypeOK /\ CacheInv /\ ExpiryInv /\ [Next]_vars => ExpiryInv'
  <2> SUFFICES ASSUME TypeOK, CacheInv, ExpiryInv, [Next]_vars PROVE ExpiryInv'
    OBVIOUS
  <2>1. ASSUME task' = task, sched' = sched \/ sched' = Idle PROVE ExpiryInv'
    <3>1. CountsKept /\ (sched' = sched \/ sched'.pc = "idle")
      BY <2>1 DEF CountsKept, Idle, Busy
    <3> QED BY <3>1, ExpiryFrame
  <2>2. CASE UNCHANGED vars
    BY <2>1, <2>2 DEF vars
  <2>3. CASE Operator
    BY <2>1, <2>3, OperatorFrame
  <2>4. ASSUME NEW n \in Nodes, Registrar(n) PROVE ExpiryInv'
    BY <2>1, <2>4, RegistrarFrame
  <2>5. ASSUME AgentWrites PROVE ExpiryInv'
    BY <2>5, AgentsKeepCounts, ExpiryFrame DEF AgentWrites
  <2> QED
    BY <2>2, <2>3, <2>4, <2>5, SchedulerExpiry, WatcherWrites, DeleteWrites DEF Next
<1>5. ExpiryInv => BoundedReleases
  BY DEF ExpiryInv
<1> QED BY <1>1, <1>2, <1>3, <1>4, <1>5, TypeCorrect, PTL DEF Spec

----------------------------------------------------------------------------
(* Concurrency limits *)

\* The tasks of an Agent that are in flight according to f, on the API server
\* or in the cache: all of them, and those besides t.
Flying(a, f) == {u \in Tasks : AgentOf[u] = a /\ f[u].phase \in InFlight}
Others(t, f) == {u \in Tasks \ {t} : /\ AgentOf[u] = AgentOf[t]
                                     /\ f[u].phase \in InFlight}

\* The inductive form of ConcurrencyBound: the place that the scheduler found
\* free for a task stays free until it has written the task.
ConcurrencyInv ==
    /\ \A a \in Agents : Cardinality(Flying(a, task)) <= MaxConcurrent[a]
    /\ sched.pc = "reserved" =>
           Cardinality(Others(sched.task, task)) < MaxConcurrent[AgentOf[sched.task]]

\* No task is in flight in g that is not in flight in f.
NoMore(f, g) == \A u \in Tasks : g[u].phase \in InFlight => f[u].phase \in InFlight

\* A set of tasks that holds no more than another one is no larger.
LEMMA FewerTasks ==
    ASSUME NEW S \in SUBSET Tasks, NEW T \in SUBSET S
    PROVE  /\ Cardinality(T) <= Cardinality(S)
           /\ Cardinality(T) \in Nat /\ Cardinality(S) \in Nat
<1>1. IsFiniteSet(S)
  BY FS_Subset, ConstantsAssumption
<1> QED BY <1>1, FS_Subset, FS_CardinalityType

\* Where no task is more in flight, the limits hold as well.
LEMMA NoMoreWithin ==
    ASSUME NEW f, NEW g, NoMore(f, g)
    PROVE  /\ \A a \in Agents : Cardinality(Flying(a, f)) <= MaxConcurrent[a]
                                => Cardinality(Flying(a, g)) <= MaxConcurrent[a]
           /\ \A t \in Tasks :
                Cardinality(Others(t, f)) < MaxConcurrent[AgentOf[t]]
                => Cardinality(Others(t, g)) < MaxConcurrent[AgentOf[t]]
<1>1. ASSUME NEW x \in Nat, NEW y \in Nat, NEW m \in Nat, x <= y
      PROVE  (y <= m => x <= m) /\ (y < m => x < m)
  BY <1>1
<1>2. ASSUME NEW a \in Agents
      PROVE  Cardinality(Flying(a, f)) <= MaxConcurrent[a]
             => Cardinality(Flying(a, g)) <= MaxConcurrent[a]
  <2>1. Flying(a, f) \in SUBSET Tasks /\ Flying(a, g) \in SUBSET Flying(a, f)
    BY DEF Flying, NoMore
  <2>2. MaxConcurrent[a] \in Nat
    BY ConstantsAssumption
  <2> QED BY <1>1, <2>1, <2>2, FewerTasks
<1>3. ASSUME NEW t \in Tasks
      PROVE  Cardinality(Others(t, f)) < MaxConcurrent[AgentOf[t]]
             => Cardinality(Others(t, g)) < MaxConcurrent[AgentOf[t]]
  <2>1. Others(t, f) \in SUBSET Tasks /\ Others(t, g) \in SUBSET Others(t, f)
    BY DEF Others, NoMore
  <2>2. MaxConcurrent[AgentOf[t]] \in Nat
    BY ConstantsAssumption
  <2> QED BY <1>1, <2>1, <2>2, FewerTasks
<1> QED BY <1>2, <1>3

\* With no task started, the limits stay respected.
LEMMA ConcurrencyFrame ==
    ASSUME TypeOK, ConcurrencyInv, NoMore(task, task'),
           sched' = sched \/ sched'.pc # "reserved"
    PROVE  ConcurrencyInv'
<1>1. \A a \in Agents : Cardinality(Flying(a, task')) <= MaxConcurrent[a]
  BY NoMoreWithin DEF ConcurrencyInv
<1>2. ASSUME sched'.pc = "reserved"
      PROVE  Cardinality(Others(sched'.task, task'))
             < MaxConcurrent[AgentOf[sched'.task]]
  <2>1. sched' = sched /\ sched.task \in Tasks
    BY <1>2, SchedFields
  <2>2. Cardinality(Others(sched.task, task')) < MaxConcurrent[AgentOf[sched.task]]
    BY <1>2, <2>1, NoMoreWithin DEF ConcurrencyInv
  <2> QED BY <2>1, <2>2
<1> QED BY <1>1, <1>2 DEF ConcurrencyInv

\* A patch of one task that does not put it in flight.
LEMMA PatchStartsNone ==
    ASSUME TypeOK, NEW t \in Tasks, NEW s,
           task' = task \/ task' = [task EXCEPT ![t] = s],
           s.phase \in InFlight => task[t].phase \in InFlight
    PROVE  NoMore(task, task')
BY Zenon DEF NoMore, TypeOK

\* An agent that does not sleep starts no task that was not scheduled.
LEMMA AgentsStartNone ==
    ASSUME TypeOK, ~Stall, AgentWrites PROVE NoMore(task, task')
<1>1. CASE UNCHANGED taskVars
  BY <1>1 DEF taskVars, NoMore
<1>2. ASSUME NEW t \in Tasks, NEW s \in TaskState, Follows(task[t], s), AgentPatch(t, s)
      PROVE  NoMore(task, task')
  <2>1. s.phase \in InFlight => task[t].phase \in InFlight
    BY <1>2 DEF Follows, InFlight, Terminal
  <2> QED BY <1>2, <2>1, PatchStartsNone, Zenon DEF AgentPatch, WriteTask
<1> QED BY <1>1, <1>2 DEF AgentWrites

\* scheduleToNode fills the one place that was found free.
LEMMA ScheduleWithin ==
    ASSUME TypeOK, ConcurrencyInv, NEW t \in Tasks, NEW s,
           Cardinality(Others(t, task)) < MaxConcurrent[AgentOf[t]],
           task' = [task EXCEPT ![t] = s]
    PROVE  \A a \in Agents : Cardinality(Flying(a, task')) <= MaxConcurrent[a]
<1> SUFFICES ASSUME NEW a \in Agents
             PROVE  Cardinality(Flying(a, task')) <= MaxConcurrent[a]
  BY Zenon
<1>1. \A u \in Tasks \ {t} : task'[u] = task[u]
  BY DEF TypeOK
<1>2. MaxConcurrent[a] \in Nat
  BY ConstantsAssumption
<1>3. CASE a # AgentOf[t]
  <2>1. Flying(a, task) \in SUBSET Tasks /\ Flying(a, task') \in SUBSET Flying(a, task)
    BY <1>1, <1>3 DEF Flying
  <2>2. Cardinality(Flying(a, task)) <= MaxConcurrent[a]
    BY DEF ConcurrencyInv
  <2> DEFINE x == Cardinality(Flying(a, task'))
             y == Cardinality(Flying(a, task))
  <2>3. x <= y /\ x \in Nat /\ y \in Nat
    BY <2>1, FewerTasks, Zenon
  <2> HIDE DEF x, y
  <2>4. x <= MaxConcurrent[a]
    BY <1>2, <2>2, <2>3 DEF y
  <2> QED BY <2>4 DEF x
<1>4. CASE a = AgentOf[t]
  <2> DEFINE S == Others(t, task)
             x == Cardinality(Flying(a, task'))
             y == Cardinality(S \cup {t})
             z == Cardinality(S)
  <2>1. S \in SUBSET Tasks /\ t \notin S /\ S \cup {t} \in SUBSET Tasks
    BY DEF Others
  <2>2. Flying(a, task') \in SUBSET (S \cup {t})
    BY <1>1, <1>4 DEF Flying, Others
  <2>3. x <= y /\ x \in Nat /\ y \in Nat
    <3> HIDE DEF S
    <3> QED BY <2>1, <2>2, FewerTasks, Zenon
  <2>4. z \in Nat /\ y = z + 1
    <3>1. IsFiniteSet(S)
      BY <2>1, FS_Subset, ConstantsAssumption
    <3> HIDE DEF S
    <3> QED BY <2>1, <3>1, FS_AddElement, FS_CardinalityType
  <2>5. z < MaxConcurrent[a]
    BY <1>4
  <2> HIDE DEF x, y, z
  <2>6. x <= MaxConcurrent[a]
    BY <1>2, <2>3, <2>4, <2>5
  <2> QED BY <2>6 DEF x
<1> QED BY <1>3, <1>4

\* agentAtConcurrencyLimit counts on the cache; with the scheduler's own writes
\* back it counts every task in flight, and nothing starts until it writes.
LEMMA SchedulerConcurrency ==
    ASSUME TypeOK, CacheInv, ~OwnWriteLag, ~Stall, ConcurrencyInv, Scheduler
    PROVE  ConcurrencyInv'
<1>1. Idle.pc = "idle" /\ Trails
  BY DEF Idle, Busy, CacheInv
<1>2. UNCHANGED taskVars => NoMore(task, task')
  BY DEF taskVars, NoMore
<1>3. ASSUME NEW t \in Tasks, SetInitialPending(t) PROVE ConcurrencyInv'
  <2>1. NoMore(task, task')
    BY <1>2, <1>3, InitialPending, PatchTaskWrites, PatchStartsNone DEF InFlight
  <2> QED BY <1>3, <2>1, ConcurrencyFrame DEF SetInitialPending
<1>4. ASSUME NEW t \in Tasks, ReconcileTerminal(t) PROVE ConcurrencyInv'
  BY <1>2, <1>4, ConcurrencyFrame DEF ReconcileTerminal
<1>5. ASSUME NEW t \in Tasks, CheckClaimExpiry(t) PROVE ConcurrencyInv'
  <2>1. UNCHANGED taskVars /\ sched'.pc = ExpiryVerdict(taskCache[t].expiries)
    BY <1>5 DEF CheckClaimExpiry, Busy
  <2>2. sched'.pc # "reserved"
    BY <2>1 DEF ExpiryVerdict
  <2> QED BY <1>2, <2>1, <2>2, ConcurrencyFrame
<1>6. ASSUME NEW t \in Tasks, ReserveFirstFitNode(t) PROVE ConcurrencyInv'
  <2>1. PICK n \in Nodes : sched' = Busy("reserved", t, n, 0)
    BY <1>6 DEF ReserveFirstFitNode
  <2>2. task' = task /\ sched'.pc = "reserved" /\ sched'.task = t
    BY <1>6, <2>1 DEF ReserveFirstFitNode, taskVars, Busy
  <2>3. \A u \in Tasks : Follows(taskCache[u], task[u])
    BY <1>1, <1>6, BeginsCaughtUp, CacheIsOld DEF ReserveFirstFitNode
  <2>4. NoMore(taskCache, task)
    BY <2>3 DEF NoMore, Follows, InFlight, Terminal
  <2>5. ~(Cardinality(Others(t, taskCache)) >= MaxConcurrent[AgentOf[t]])
    BY <1>6 DEF ReserveFirstFitNode, AgentAtConcurrencyLimit, Others
  <2>6. Cardinality(Others(t, taskCache)) < MaxConcurrent[AgentOf[t]]
    <3>1. Cardinality(Others(t, taskCache)) \in Nat
      BY FewerTasks DEF Others
    <3>2. MaxConcurrent[AgentOf[t]] \in Nat
      BY ConstantsAssumption
    <3> QED BY <2>5, <3>1, <3>2
  <2>7. Cardinality(Others(t, task)) < MaxConcurrent[AgentOf[t]]
    BY <2>4, <2>6, NoMoreWithin
  <2> QED BY <2>2, <2>7 DEF ConcurrencyInv
<1> DEFINE t == sched.task
           n == sched.node
<1>7. CASE ScheduleToNode \/ ScheduleToNodeError
  <2>1. t \in Tasks /\ sched.pc = "reserved"
    BY <1>7, SchedFields DEF ScheduleToNode, ScheduleToNodeError
  <2> DEFINE w == [task[t] EXCEPT !.phase = "Scheduled", !.assignedNode = n]
  <2>2. /\ UNCHANGED taskVars \/ PatchTask(t, w)
        /\ sched'.pc = "idle"
    BY <1>1, <1>7 DEF ScheduleToNode, ScheduleToNodeError
  <2> HIDE DEF w
  <2>3. CASE task' = task
    BY <2>2, <2>3, ConcurrencyFrame DEF NoMore
  <2>4. CASE task' = [task EXCEPT ![t] = w]
    <3>1. Cardinality(Others(t, task)) < MaxConcurrent[AgentOf[t]]
      BY <2>1 DEF ConcurrencyInv
    <3>2. \A a \in Agents : Cardinality(Flying(a, task')) <= MaxConcurrent[a]
      BY <2>1, <2>4, <3>1, ScheduleWithin, Zenon
    <3> QED BY <2>2, <3>2 DEF ConcurrencyInv
  <2> QED BY <2>1, <2>2, <2>3, <2>4, PatchTaskWrites DEF taskVars
<1>8. CASE IncrementExpiryCounter
  <2> DEFINE w == [task[t] EXCEPT !.expiries =
                       MaxOf(taskCache[t].expiries, sched.prior) + 1]
  <2>1. t \in Tasks /\ sched.pc = "expiring"
    BY <1>8, SchedFields DEF IncrementExpiryCounter
  <2>2. w.phase = task[t].phase
    BY <2>1, TaskTypesOf, PatchFields
  <2>3. /\ UNCHANGED taskVars \/ PatchTask(t, w)
        /\ sched' = Idle \/ sched' = [sched EXCEPT !.pc = "expired"]
    BY <1>8 DEF IncrementExpiryCounter
  <2>4. sched'.pc # "reserved"
    BY <1>1, <2>1, <2>3 DEF TypeOK, SchedState, Idle, Busy
  <2> HIDE DEF w
  <2>5. NoMore(task, task')
    BY <1>2, <2>1, <2>2, <2>3, PatchTaskWrites, PatchStartsNone
  <2> QED BY <2>4, <2>5, ConcurrencyFrame
<1>9. CASE ReleaseExpiredClaim \/ TerminalFailExpired
  <2>1. t \in Tasks
    BY <1>9, SchedFields DEF ReleaseExpiredClaim, TerminalFailExpired
  <2> DEFINE w == [task[t] EXCEPT !.phase = "Failed"]
  <2>2. Released(t).phase = "Pending" /\ w.phase = "Failed"
    BY <2>1, ReleasedFields, FailedFollows
  <2>3. /\ UNCHANGED taskVars \/ PatchTask(t, Released(t)) \/ PatchTask(t, w)
        /\ sched'.pc = "idle"
    BY <1>1, <1>9 DEF ReleaseExpiredClaim, TerminalFailExpired
  <2> HIDE DEF w
  <2>4. NoMore(task, task')
    BY <1>2, <2>1, <2>2, <2>3, PatchTaskWrites, PatchStartsNone DEF InFlight
  <2> QED BY <2>3, <2>4, ConcurrencyFrame
<1> QED BY <1>3, <1>4, <1>5, <1>6, <1>7, <1>8, <1>9 DEF Scheduler

\* An Agent never has more tasks in flight than spec.maxConcurrentTasks
\* (agentAtConcurrencyLimit), for any number of tasks, agents and nodes and
\* whatever crashes and errors fall between the count and the write, provided a
\* reconcile sees the scheduler's own earlier writes and no agent sleeps between
\* a read and the write that depends on it.
THEOREM ConcurrencyKept == ~OwnWriteLag /\ ~Stall => (Spec => []ConcurrencyBound)
<1> SUFFICES ASSUME ~OwnWriteLag, ~Stall PROVE Spec => []ConcurrencyBound
  OBVIOUS
<1>1. Init => CacheInv
  BY CacheInvariance
<1>2. TypeOK /\ CacheInv /\ [Next]_vars => CacheInv'
  BY CacheInvariance
<1>3. Init => ConcurrencyInv
  <2> SUFFICES ASSUME Init PROVE ConcurrencyInv
    OBVIOUS
  <2>1. \A a \in Agents : Flying(a, task) = {}
    BY DEF Init, NewTask, Flying, InFlight
  <2>2. sched.pc = "idle"
    BY DEF Init, Idle, Busy
  <2>3. \A a \in Agents : Cardinality({}) <= MaxConcurrent[a]
    BY FS_EmptySet, ConstantsAssumption
  <2> QED BY <2>1, <2>2, <2>3 DEF ConcurrencyInv
<1>4. TypeOK /\ CacheInv /\ ConcurrencyInv /\ [Next]_vars => ConcurrencyInv'
  <2> SUFFICES ASSUME TypeOK, CacheInv, ConcurrencyInv, [Next]_vars
               PROVE  ConcurrencyInv'
    OBVIOUS
  <2>1. ASSUME task' = task, sched' = sched \/ sched' = Idle PROVE ConcurrencyInv'
    <3>1. NoMore(task, task') /\ (sched' = sched \/ sched'.pc = "idle")
      BY <2>1 DEF NoMore, Idle, Busy
    <3> QED BY <3>1, ConcurrencyFrame
  <2>2. CASE UNCHANGED vars
    BY <2>1, <2>2 DEF vars
  <2>3. CASE Operator
    BY <2>1, <2>3, OperatorFrame
  <2>4. ASSUME NEW n \in Nodes, Registrar(n) PROVE ConcurrencyInv'
    BY <2>1, <2>4, RegistrarFrame
  <2>5. ASSUME AgentWrites PROVE ConcurrencyInv'
    BY <2>5, AgentsStartNone, ConcurrencyFrame DEF AgentWrites
  <2> QED BY <2>2, <2>3, <2>4, <2>5, SchedulerConcurrency, WatcherWrites,
             DeleteWrites DEF Next
<1>5. ConcurrencyInv => ConcurrencyBound
  BY DEF ConcurrencyInv, ConcurrencyBound, Flying
<1> QED BY <1>1, <1>2, <1>3, <1>4, <1>5, TypeCorrect, PTL DEF Spec

----------------------------------------------------------------------------
(* Reservations: what the cache says of a task that holds a node *)

\* The cached version of a task and those on their way.
Versions(c, f) == {c} \cup {f[i] : i \in 1..Len(f)}

\* A version of a task that taskIsLive takes for an occupant of node n.
LiveOn(v, n) == /\ v.phase \notin Terminal \cup {"Gone"}
                /\ v.assignedNode \in {NoNode, n}

\* No version of a task in flight denies it its node, although the reservation
\* hygiene reads the cache at any time.
FlightVersions ==
    \A t \in Tasks : task[t].phase \in InFlight =>
        \A v \in Versions(taskCache[t], feed[t]) : LiveOn(v, task[t].assignedNode)

\* A task that is being scheduled is Pending in every version, unless it was
\* deleted meanwhile.
PendingVersions ==
    sched.pc = "reserved" /\ task[sched.task].phase # "Gone" =>
        \A v \in Versions(taskCache[sched.task], feed[sched.task]) :
            v.phase = "Pending" /\ v.assignedNode = NoNode

VersionInv == FlightVersions /\ PendingVersions

\* A delivery forgets the cached version, a write adds one.
LEMMA VersionsMove ==
    ASSUME NEW c \in TaskState, NEW f \in Seq(TaskState), NEW s \in TaskState
    PROVE  /\ f # <<>> => Versions(Head(f), Tail(f)) \subseteq Versions(c, f)
           /\ Versions(c, Append(f, s)) = Versions(c, f) \cup {s}
           /\ Versions(c, <<>>) = {c}
<1>1. ASSUME f # <<>> PROVE Versions(Head(f), Tail(f)) \subseteq Versions(c, f)
  <2>1. /\ Len(f) \in Nat \ {0} /\ Len(Tail(f)) = Len(f) - 1 /\ Head(f) = f[1]
        /\ \A i \in 1..Len(Tail(f)) : Tail(f)[i] = f[i + 1] /\ i + 1 \in 1..Len(f)
    BY <1>1
  <2>2. 1 \in 1..Len(f)
    BY <2>1
  <2> QED BY <2>1, <2>2 DEF Versions
<1>2. Versions(c, Append(f, s)) = Versions(c, f) \cup {s}
  <2> DEFINE g == Append(f, s)
  <2>1. /\ Len(f) \in Nat /\ Len(g) = Len(f) + 1 /\ g[Len(f) + 1] = s
        /\ \A i \in 1..Len(f) : g[i] = f[i]
    OBVIOUS
  <2>2. 1..Len(g) = (1..Len(f)) \cup {Len(f) + 1}
    BY <2>1
  <2> HIDE DEF g
  <2>3. Versions(c, g) = Versions(c, f) \cup {s}
    BY <2>1, <2>2 DEF Versions
  <2> QED BY <2>3 DEF g
<1>3. Versions(c, <<>>) = {c}
  <2>1. 1..Len(<<>>) = {}
    OBVIOUS
  <2> QED BY <2>1 DEF Versions
<1> QED BY <1>1, <1>2, <1>3

\* A write of task t to s adds at most the version s, and to t alone.
WritesOne(t, s) ==
    /\ \A u \in Tasks \ {t} :
           /\ task'[u] = task[u]
           /\ Versions(taskCache'[u], feed'[u]) = Versions(taskCache[u], feed[u])
    /\ task'[t] = s
    /\ Versions(taskCache'[t], feed'[t]) \subseteq
           Versions(taskCache[t], feed[t]) \cup {s}

\* Every patch that is not rejected does that.
LEMMA WriteTaskVersions ==
    ASSUME TypeOK, NEW t \in Tasks, NEW s \in TaskState, WriteTask(t, s),
           UNCHANGED taskCache
    PROVE  WritesOne(t, s)
<1>1. task'[t] = s /\ \A u \in Tasks \ {t} : task'[u] = task[u] /\ feed'[u] = feed[u]
  BY DEF WriteTask, TypeOK
<1>2. feed'[t] = feed[t] \/ feed'[t] = Append(feed[t], s)
  BY DEF WriteTask, TypeOK
<1>3. Versions(taskCache[t], Append(feed[t], s)) =
          Versions(taskCache[t], feed[t]) \cup {s}
  BY TaskTypesOf, VersionsMove
<1> QED BY <1>1, <1>2, <1>3, Zenon DEF WritesOne

\* The scheduler's patch is rejected, or does that.
LEMMA PatchTaskVersions ==
    ASSUME TypeOK, NEW t \in Tasks, NEW s \in TaskState, PatchTask(t, s),
           UNCHANGED taskCache
    PROVE  \/ UNCHANGED taskVars /\ task[t].phase = "Gone"
           \/ WritesOne(t, s) /\ task[t].phase # "Gone"
BY WriteTaskVersions DEF PatchTask, SchedulerPatch

\* Nothing changes for the tasks, and the reconcile stays or ends.
LEMMA VersionFrame ==
    ASSUME VersionInv, UNCHANGED <<task, feed, taskCache>>,
           sched' = sched \/ sched'.pc # "reserved"
    PROVE  VersionInv'
BY DEF VersionInv, FlightVersions, PendingVersions

\* A write to a version that is not in flight, or in flight where the task
\* was already.
LEMMA WriteKeepsFlight ==
    ASSUME FlightVersions, NEW t \in Tasks, NEW s, WritesOne(t, s),
           s.phase \in InFlight => /\ task[t].phase \in InFlight
                                   /\ s.assignedNode = task[t].assignedNode
    PROVE  FlightVersions'
<1>1. ASSUME NEW u \in Tasks, task'[u].phase \in InFlight,
             NEW v \in Versions(taskCache'[u], feed'[u])
      PROVE  LiveOn(v, task'[u].assignedNode)
  <2>1. CASE u # t
    BY <1>1, <2>1 DEF WritesOne, FlightVersions
  <2>2. CASE u = t
    <3>1. /\ task[t].phase \in InFlight /\ s.assignedNode = task[t].assignedNode
          /\ task'[t] = s /\ s.phase \in InFlight
      BY <1>1, <2>2 DEF WritesOne
    <3>2. v = s \/ v \in Versions(taskCache[t], feed[t])
      BY <1>1, <2>2 DEF WritesOne
    <3>3. LiveOn(s, s.assignedNode)
      BY <3>1 DEF LiveOn, InFlight, Terminal
    <3> QED BY <2>2, <3>1, <3>2, <3>3 DEF FlightVersions
  <2> QED BY <2>1, <2>2
<1> QED BY <1>1 DEF FlightVersions

\* The task is the last of its versions.
LEMMA TaskIsVersion ==
    ASSUME TypeOK, Trails, NEW t \in Tasks
    PROVE  task[t] \in Versions(taskCache[t], feed[t])
<1>1. Len(feed[t]) \in Nat
  BY TaskTypesOf
<1>2. task[t] = Version(taskCache[t], feed[t], Len(feed[t]))
  BY DEF Trails, Trail
<1>3. Len(feed[t]) = 0 \/ Len(feed[t]) \in 1..Len(feed[t])
  BY <1>1
<1> QED BY <1>2, <1>3 DEF Version, Versions

\* With no write of the scheduler under way, a task that is Pending in the
\* cache is Pending in every version, or deleted.
LEMMA PendingThroughout ==
    ASSUME TypeOK, Trails, ~Stall, NEW t \in Tasks, ownLag[t] = 0,
           taskCache[t].phase = "Pending", task[t].phase # "Gone",
           NEW v \in Versions(taskCache[t], feed[t])
    PROVE  v.phase = "Pending" /\ v.assignedNode = NoNode
<1> DEFINE c == taskCache[t]
           f == feed[t]
<1>1. c \in TaskState /\ f \in Seq(TaskState) /\ Len(f) \in Nat
  BY TaskTypesOf
<1>2. PICK i \in 0..Len(f) : v = Version(c, f, i)
  <2>1. CASE v = c
    <3>1. 0 \in 0..Len(f) /\ v = Version(c, f, 0)
      BY <1>1, <2>1 DEF Version
    <3> QED BY <3>1
  <2>2. ASSUME NEW i \in 1..Len(f), v = f[i] PROVE i \in 0..Len(f) /\ v = Version(c, f, i)
    BY <2>2 DEF Version
  <2> QED BY <2>1, <2>2 DEF Versions
<1>3. Trail(c, f, 0, task[t])
  BY DEF Trails
<1>4. 0 <= i /\ i <= Len(f) /\ 0 \in 0..Len(f) /\ Len(f) \in 0..Len(f)
  BY <1>1
<1>5. Follows(c, v) /\ Follows(v, task[t])
  BY <1>2, <1>3, <1>4 DEF Trail, Version
<1> QED BY <1>5 DEF Follows, InFlight, Terminal

\* Agents and users keep what the versions say.
LEMMA AgentVersions ==
    ASSUME TypeOK, CacheInv, ~Stall, VersionInv, AgentWrites PROVE VersionInv'
<1>1. UNCHANGED <<taskCache, sched>>
  BY DEF AgentWrites
<1>2. CASE UNCHANGED taskVars
  BY <1>1, <1>2, VersionFrame DEF taskVars
<1>3. ASSUME NEW t \in Tasks, NEW s \in TaskState, Follows(task[t], s), AgentPatch(t, s)
      PROVE  VersionInv'
  <2>1. WritesOne(t, s)
    BY <1>1, <1>3, WriteTaskVersions DEF AgentPatch
  <2>2. s.phase \in InFlight => /\ task[t].phase \in InFlight
                                /\ s.assignedNode = task[t].assignedNode
    BY <1>3 DEF Follows, InFlight, Terminal
  <2>3. FlightVersions'
    BY <2>1, <2>2, WriteKeepsFlight DEF VersionInv
  <2>4. ASSUME sched.pc = "reserved", task'[sched.task].phase # "Gone",
               NEW v \in Versions(taskCache'[sched.task], feed'[sched.task])
        PROVE  v.phase = "Pending" /\ v.assignedNode = NoNode
    <3>1. sched.task \in Tasks
      BY <2>4, SchedFields
    <3>2. CASE sched.task # t
      BY <2>1, <2>4, <3>1, <3>2 DEF WritesOne, VersionInv, PendingVersions
    <3>3. CASE sched.task = t
      <4>1. s.phase # "Gone" /\ task[t].phase # "Gone"
        BY <1>3, <2>1, <2>4, <3>3 DEF WritesOne, Follows, Terminal, InFlight
      <4>2. \A x \in Versions(taskCache[t], feed[t]) :
                x.phase = "Pending" /\ x.assignedNode = NoNode
        BY <2>4, <3>3, <4>1 DEF VersionInv, PendingVersions
      <4>3. task[t].phase = "Pending"
        BY <4>2, TaskIsVersion DEF CacheInv
      <4>4. s.phase = "Pending" /\ s.assignedNode = NoNode
        BY <1>3, <4>1, <4>3 DEF Follows, Terminal, InFlight
      <4> QED BY <2>1, <2>4, <3>3, <4>2, <4>4 DEF WritesOne
    <3> QED BY <3>2, <3>3
  <2>5. PendingVersions'
    BY <1>1, <2>4 DEF PendingVersions
  <2> QED BY <2>3, <2>5 DEF VersionInv
<1> QED BY <1>2, <1>3 DEF AgentWrites

\* The scheduler keeps what the versions say: it schedules only a task that
\* every version has Pending.
LEMMA SchedulerVersions ==
    ASSUME TypeOK, CacheInv, ~OwnWriteLag, ~Stall, VersionInv, Scheduler
    PROVE  VersionInv'
<1>1. Idle.pc = "idle" /\ Trails /\ FlightVersions
  BY DEF Idle, Busy, CacheInv, VersionInv
<1>2. UNCHANGED taskCache
  BY Zenon DEF Scheduler, SetInitialPending, ReconcileTerminal, ReserveFirstFitNode,
     CheckClaimExpiry, ScheduleToNode, ScheduleToNodeError, IncrementExpiryCounter,
     ReleaseExpiredClaim, TerminalFailExpired, cacheVars
<1>3. ASSUME UNCHANGED taskVars, sched' = sched \/ sched'.pc # "reserved"
      PROVE  VersionInv'
  BY <1>2, <1>3, VersionFrame DEF taskVars
<1>4. ASSUME NEW t \in Tasks, NEW s \in TaskState, PatchTask(t, s),
             sched'.pc # "reserved",
             s.phase \in InFlight => /\ task[t].phase \in InFlight
                                     /\ s.assignedNode = task[t].assignedNode
      PROVE  VersionInv'
  <2>1. CASE UNCHANGED taskVars
    BY <1>3, <1>4, <2>1
  <2>2. CASE WritesOne(t, s)
    BY <1>1, <1>4, <2>2, WriteKeepsFlight DEF VersionInv, PendingVersions
  <2> QED BY <1>2, <1>4, <2>1, <2>2, PatchTaskVersions
<1>5. ASSUME NEW t \in Tasks, SetInitialPending(t) PROVE VersionInv'
  <2>1. sched' = sched /\ sched'.pc = "idle"
    BY <1>5 DEF SetInitialPending, BeginReconcile
  <2> QED BY <1>3, <1>4, <1>5, <2>1, InitialPending DEF InFlight
<1>6. ASSUME NEW t \in Tasks, ReconcileTerminal(t) PROVE VersionInv'
  BY <1>3, <1>6 DEF ReconcileTerminal
<1>7. ASSUME NEW t \in Tasks, CheckClaimExpiry(t) PROVE VersionInv'
  <2>1. UNCHANGED taskVars /\ sched'.pc = ExpiryVerdict(taskCache[t].expiries)
    BY <1>7 DEF CheckClaimExpiry, Busy
  <2> QED BY <1>3, <2>1 DEF ExpiryVerdict
<1>8. ASSUME NEW t \in Tasks, ReserveFirstFitNode(t) PROVE VersionInv'
  <2>1. PICK n \in Nodes : sched' = Busy("reserved", t, n, 0)
    BY <1>8 DEF ReserveFirstFitNode
  <2>2. /\ UNCHANGED <<task, feed, taskCache>> /\ sched'.task = t
        /\ taskCache[t].phase = "Pending" /\ BeginReconcile(t)
    BY <1>2, <1>8, <2>1 DEF ReserveFirstFitNode, taskVars, Busy
  <2>3. ownLag[t] = 0
    BY <2>2, BeginsCaughtUp
  <2>4. task[t].phase # "Gone" => \A v \in Versions(taskCache[t], feed[t]) :
            v.phase = "Pending" /\ v.assignedNode = NoNode
    BY <1>1, <2>2, <2>3, PendingThroughout
  <2>5. PendingVersions'
    BY <2>2, <2>4 DEF PendingVersions
  <2>6. FlightVersions'
    BY <1>1, <2>2 DEF FlightVersions
  <2> QED BY <2>5, <2>6 DEF VersionInv
<1> DEFINE t == sched.task
           n == sched.node
<1>9. CASE ScheduleToNode \/ ScheduleToNodeError
  <2>1. t \in Tasks /\ n \in Nodes /\ sched.pc = "reserved"
    BY <1>9, SchedFields DEF ScheduleToNode, ScheduleToNodeError
  <2> DEFINE w == [task[t] EXCEPT !.phase = "Scheduled", !.assignedNode = n]
  <2>2. /\ UNCHANGED taskVars \/ PatchTask(t, w)
        /\ sched'.pc = "idle"
    BY <1>1, <1>9 DEF ScheduleToNode, ScheduleToNodeError
  <2>3. w \in TaskState /\ w.phase = "Scheduled" /\ w.assignedNode = n
    BY <2>1, ScheduledFollows, Zenon
  <2> HIDE DEF w
  <2>4. CASE UNCHANGED taskVars
    BY <1>3, <2>2, <2>4
  <2>5. CASE WritesOne(t, w) /\ task[t].phase # "Gone"
    <3>1. \A v \in Versions(taskCache[t], feed[t]) :
              v.phase = "Pending" /\ v.assignedNode = NoNode
      BY <2>1, <2>5 DEF VersionInv, PendingVersions
    <3>2. \A v \in Versions(taskCache'[t], feed'[t]) : LiveOn(v, n)
      BY <2>3, <2>5, <3>1 DEF WritesOne, LiveOn, Terminal
    <3>3. ASSUME NEW u \in Tasks, task'[u].phase \in InFlight,
                 NEW v \in Versions(taskCache'[u], feed'[u])
          PROVE  LiveOn(v, task'[u].assignedNode)
      <4>1. CASE u = t
        BY <2>3, <2>5, <3>2, <3>3, <4>1 DEF WritesOne
      <4>2. CASE u # t
        BY <1>1, <2>5, <3>3, <4>2 DEF WritesOne, FlightVersions
      <4> QED BY <4>1, <4>2
    <3>4. FlightVersions'
      BY <3>3 DEF FlightVersions
    <3> QED BY <2>2, <3>4 DEF VersionInv, PendingVersions
  <2> QED BY <1>2, <2>1, <2>2, <2>3, <2>4, <2>5, PatchTaskVersions
<1>10. CASE IncrementExpiryCounter
  <2> DEFINE e == MaxOf(taskCache[t].expiries, sched.prior) + 1
             w == [task[t] EXCEPT !.expiries = e]
  <2>1. t \in Tasks /\ sched.prior \in Nat /\ sched.pc = "expiring"
    BY <1>10, SchedFields DEF IncrementExpiryCounter
  <2>2. e \in Nat
    <3>1. taskCache[t].expiries \in Nat
      BY <2>1, TaskTypesOf DEF TaskState
    <3> QED BY <2>1, <3>1 DEF MaxOf
  <2>3. /\ UNCHANGED taskVars \/ PatchTask(t, w)
        /\ sched' = Idle \/ sched' = [sched EXCEPT !.pc = "expired"]
    BY <1>10 DEF IncrementExpiryCounter
  <2>4. sched'.pc # "reserved"
    BY <1>1, <2>1, <2>3 DEF TypeOK, SchedState, Idle, Busy
  <2> HIDE DEF e
  <2>5. w.phase = task[t].phase /\ w.assignedNode = task[t].assignedNode
    BY <2>1, TaskTypesOf, PatchFields
  <2>6. w \in TaskState
    BY <1>1, <2>1, <2>2, CountedFollows
  <2> HIDE DEF w
  <2> QED BY <1>3, <1>4, <2>1, <2>3, <2>4, <2>5, <2>6
<1>11. CASE ReleaseExpiredClaim \/ TerminalFailExpired
  <2>1. t \in Tasks
    BY <1>11, SchedFields DEF ReleaseExpiredClaim, TerminalFailExpired
  <2> DEFINE w == [task[t] EXCEPT !.phase = "Failed"]
  <2>2. /\ Released(t) \in TaskState /\ Released(t).phase = "Pending"
        /\ w \in TaskState /\ w.phase = "Failed"
    BY <2>1, ReleasedFields, FailedFollows
  <2>3. /\ UNCHANGED taskVars \/ PatchTask(t, Released(t)) \/ PatchTask(t, w)
        /\ sched'.pc = "idle"
    BY <1>1, <1>11 DEF ReleaseExpiredClaim, TerminalFailExpired
  <2> HIDE DEF w
  <2> QED BY <1>3, <1>4, <2>1, <2>2, <2>3 DEF InFlight
<1> QED BY <1>5, <1>6, <1>7, <1>8, <1>9, <1>10, <1>11 DEF Scheduler

\* So do the informers and a restart of the operator.
LEMMA OperatorVersions ==
    ASSUME TypeOK, CacheInv, VersionInv, Operator PROVE VersionInv'
<1>1. ASSUME NEW n \in Nodes, ReapDraining(n) \/ ReconcileFleetNode(n)
      PROVE  VersionInv'
  BY <1>1, VersionFrame DEF ReapDraining, ReconcileFleetNode, taskVars, cacheVars
<1>2. CASE RefreshFleet
  BY <1>2, VersionFrame DEF RefreshFleet, taskVars
<1>3. ASSUME NEW t \in Tasks, DeliverTask(t) PROVE VersionInv'
  <2>1. Versions(Head(feed[t]), Tail(feed[t])) \subseteq Versions(taskCache[t], feed[t])
    BY <1>3, TaskTypesOf, VersionsMove DEF DeliverTask
  <2>2. UNCHANGED <<task, sched>>
    BY <1>3 DEF DeliverTask
  <2>3. \A u \in Tasks : Versions(taskCache'[u], feed'[u])
                         \subseteq Versions(taskCache[u], feed[u])
    BY <1>3, <2>1 DEF DeliverTask, TypeOK
  <2>4. sched.pc = "reserved" => sched.task \in Tasks
    BY SchedFields
  <2> QED BY <2>2, <2>3, <2>4 DEF VersionInv, FlightVersions, PendingVersions
<1>4. CASE OperatorCrash
  <2>1. /\ taskCache' = task /\ task' = task /\ sched'.pc = "idle"
        /\ \A t \in Tasks : feed'[t] = <<>>
    BY <1>4 DEF OperatorCrash, Idle, Busy
  <2>2. \A t \in Tasks : Versions(task[t], <<>>) = {task[t]}
    BY TaskTypesOf, VersionsMove
  <2>3. FlightVersions'
    BY <2>1, <2>2 DEF FlightVersions, LiveOn, InFlight, Terminal
  <2> QED BY <2>1, <2>3 DEF VersionInv, PendingVersions
<1> QED BY <1>1, <1>2, <1>3, <1>4 DEF Operator

----------------------------------------------------------------------------
(* Reservations: the nodes *)

\* A cached node at the latest resourceVersion tells who holds it; a node that
\* does not exist is held by nobody; and none was silent past the reap windows.
NodeInv ==
    \A n \in Nodes :
        /\ n \in synced => /\ fleetCache[n].currentTask = fleet[n].currentTask
                           /\ fleetCache[n].exists = fleet[n].exists
        /\ fleet[n].age <= 1 /\ fleetCache[n].age <= 1
        /\ ~fleet[n].exists => fleet[n].currentTask = NoTask

\* An in-process task t that needs node n: it is in flight there, or is being
\* scheduled to it.
Holds(t, n) ==
    /\ ~IsJob(t)
    /\ \/ task[t].phase \in InFlight /\ task[t].assignedNode = n
       \/ /\ sched.pc = "reserved" /\ sched.task = t /\ sched.node = n
          /\ task[t].phase # "Gone"

\* The inductive form of ReservationHeld.
HoldInv ==
    /\ NodeInv
    /\ \A t \in Tasks, n \in Nodes : Holds(t, n) => fleet[n].currentTask = t

\* The cache shows the holder of a node as live on it.
LEMMA HolderIsLive ==
    ASSUME VersionInv, NEW t \in Tasks, NEW n \in Nodes, Holds(t, n)
    PROVE  TaskIsLive(t, n)
<1>1. taskCache[t] \in Versions(taskCache[t], feed[t])
  BY DEF Versions
<1>2. CASE task[t].phase \in InFlight /\ task[t].assignedNode = n
  BY <1>1, <1>2 DEF VersionInv, FlightVersions, LiveOn, TaskIsLive
<1>3. CASE sched.pc = "reserved" /\ sched.task = t /\ task[t].phase # "Gone"
  BY <1>1, <1>3 DEF VersionInv, PendingVersions, TaskIsLive, Terminal
<1> QED BY <1>2, <1>3 DEF Holds

\* A patch of a node that stays within the reap windows.
LEMMA WriteNodeInv ==
    ASSUME TypeOK, NodeInv, NEW n \in Nodes, NEW f, WriteNode(n, f),
           UNCHANGED fleetCache, f.age <= 1, ~f.exists => f.currentTask = NoTask
    PROVE  NodeInv' /\ fleet'[n] = f /\ \A m \in Nodes \ {n} : fleet'[m] = fleet[m]
<1>1. fleet'[n] = f /\ \A m \in Nodes \ {n} : fleet'[m] = fleet[m]
  BY DEF WriteNode, TypeOK
<1>2. ASSUME NEW m \in Nodes
      PROVE  /\ m \in synced' => /\ fleetCache'[m].currentTask = fleet'[m].currentTask
                                 /\ fleetCache'[m].exists = fleet'[m].exists
             /\ fleet'[m].age <= 1 /\ fleetCache'[m].age <= 1
             /\ ~fleet'[m].exists => fleet'[m].currentTask = NoTask
  <2>1. CASE m = n
    <3>1. n \in synced' => f = fleet[n] /\ n \in synced
      BY DEF WriteNode
    <3> QED BY <1>1, <2>1, <3>1 DEF NodeInv
  <2>2. CASE m # n
    <3>1. m \in synced' => m \in synced
      BY DEF WriteNode
    <3> QED BY <1>1, <2>2, <3>1 DEF NodeInv
  <2> QED BY <2>1, <2>2
<1> QED BY <1>1, <1>2 DEF NodeInv

\* The fields of a node in which one field is patched.
LEMMA NodeFields ==
    ASSUME NEW f \in NodeState, NEW t, NEW p
    PROVE  /\ [f EXCEPT !.currentTask = t].currentTask = t
           /\ [f EXCEPT !.currentTask = t].exists = f.exists
           /\ [f EXCEPT !.currentTask = t].age = f.age
           /\ [f EXCEPT !.phase = p].currentTask = f.currentTask
           /\ [f EXCEPT !.phase = p].exists = f.exists
           /\ [f EXCEPT !.phase = p].age = f.age
BY Zenon DEF NodeState

\* clearNodeCurrentTask takes a node from task t and from no other.
LEMMA ClearInv ==
    ASSUME TypeOK, NodeInv, NEW n \in Nodes, NEW t \in Tasks,
           ClearNodeCurrentTask(n, t), UNCHANGED fleetCache
    PROVE  /\ NodeInv'
           /\ \A m \in Nodes : \/ fleet'[m].currentTask = fleet[m].currentTask
                               \/ m = n /\ fleet[m].currentTask = t
<1>1. CASE UNCHANGED nodeVars
  BY <1>1 DEF NodeInv, nodeVars
<1>2. CASE n \in synced /\ fleetCache[n].currentTask = t
           /\ WriteNode(n, [fleet[n] EXCEPT !.currentTask = NoTask])
  <2> DEFINE f == [fleet[n] EXCEPT !.currentTask = NoTask]
  <2>1. f.currentTask = NoTask /\ f.age = fleet[n].age
    BY NodeFields DEF TypeOK
  <2>2. f.age <= 1
    BY <2>1 DEF NodeInv
  <2>3. fleet[n].currentTask = t
    BY <1>2 DEF NodeInv
  <2> HIDE DEF f
  <2>4. NodeInv' /\ fleet'[n] = f /\ \A m \in Nodes \ {n} : fleet'[m] = fleet[m]
    BY <1>2, <2>1, <2>2, WriteNodeInv, Zenon DEF f
  <2> QED BY <2>3, <2>4
<1> QED BY <1>1, <1>2 DEF ClearNodeCurrentTask

\* No task comes to need a node.
NoNewHolder == \A t \in Tasks, n \in Nodes : Holds(t, n)' => Holds(t, n)

\* Then the reservations stand if no node loses its holder.
LEMMA HoldFrame ==
    ASSUME HoldInv, NodeInv', NoNewHolder,
           \A t \in Tasks, n \in Nodes :
               Holds(t, n)' => fleet'[n].currentTask = fleet[n].currentTask
    PROVE  HoldInv'
<1>1. ASSUME NEW t \in Tasks, NEW n \in Nodes, Holds(t, n)'
      PROVE  fleet'[n].currentTask = t
  BY <1>1 DEF HoldInv, NoNewHolder
<1> QED BY <1>1 DEF HoldInv

\* Nobody comes to need a node when the tasks stay and the reconcile stays or
\* ends.
LEMMA SameHolders ==
    ASSUME task' = task, sched' = sched \/ sched'.pc # "reserved"
    PROVE  NoNewHolder
BY DEF NoNewHolder, Holds

\* Nor by a patch of a task that does not put it in flight elsewhere.
LEMMA PatchHolders ==
    ASSUME TypeOK, NEW t \in Tasks, NEW s,
           task' = task \/ task' = [task EXCEPT ![t] = s],
           s.phase \in InFlight => /\ task[t].phase \in InFlight
                                   /\ s.assignedNode = task[t].assignedNode,
           \/ sched' = sched /\ (s.phase # "Gone" => task[t].phase # "Gone")
           \/ sched'.pc # "reserved"
    PROVE  NoNewHolder
<1>1. \A u \in Tasks : task'[u] = task[u] \/ (u = t /\ task'[u] = s)
  BY DEF TypeOK
<1> QED BY <1>1 DEF NoNewHolder, Holds

\* Nor by what agents and users write.
LEMMA AgentHolders == ASSUME TypeOK, ~Stall, AgentWrites PROVE NoNewHolder
<1>1. CASE UNCHANGED taskVars
  BY <1>1, SameHolders DEF AgentWrites, taskVars
<1>2. ASSUME NEW t \in Tasks, NEW s \in TaskState, Follows(task[t], s), AgentPatch(t, s)
      PROVE  NoNewHolder
  <2>1. s.phase \in InFlight => /\ task[t].phase \in InFlight
                                /\ s.assignedNode = task[t].assignedNode
    BY <1>2 DEF Follows, InFlight, Terminal
  <2>2. s.phase # "Gone" => task[t].phase # "Gone"
    BY <1>2 DEF Follows, InFlight, Terminal
  <2>3. sched' = sched /\ task' = [task EXCEPT ![t] = s]
    BY <1>2 DEF AgentWrites, AgentPatch, WriteTask
  <2> QED BY <2>1, <2>2, <2>3, PatchHolders, Zenon
<1> QED BY <1>1, <1>2 DEF AgentWrites

\* The steps of an agent process leave every reservation in place.
LEMMA RegistrarHolds ==
    ASSUME TypeOK, HoldInv, MaxAge <= 1, NEW n \in Nodes, Registrar(n)
    PROVE  HoldInv'
<1>1. NodeInv /\ task' = task /\ sched' = sched
  BY RegistrarFrame DEF HoldInv
<1>2. NoNewHolder
  BY <1>1, SameHolders
<1>3. ASSUME NodeInv', \A m \in Nodes : fleet'[m].currentTask = fleet[m].currentTask
      PROVE  HoldInv'
  BY <1>2, <1>3, HoldFrame
<1>4. fleet[n] \in NodeState /\ fleetCache[n] \in NodeState
  BY DEF TypeOK
<1>5. CASE Start(n)
  <2> DEFINE f == IF fleet[n].exists THEN fleet[n] ELSE NewFleetNode
  <2>1. NewFleetNode.age = 1 /\ NewFleetNode.currentTask = NoTask
    BY DEF NewFleetNode, NoFleetNode
  <2>2. f.age <= 1 /\ f.currentTask = fleet[n].currentTask
        /\ (~f.exists => f.currentTask = NoTask)
    BY <1>1, <2>1 DEF NodeInv
  <2>3. WriteNode(n, f) /\ UNCHANGED fleetCache
    BY <1>5 DEF Start
  <2> HIDE DEF f
  <2>4. NodeInv' /\ fleet'[n] = f /\ \A m \in Nodes \ {n} : fleet'[m] = fleet[m]
    BY <1>1, <2>2, <2>3, WriteNodeInv
  <2> QED BY <1>3, <2>2, <2>4
<1>6. ASSUME NEW f, fleet' = [fleet EXCEPT ![n] = f], synced' = synced \ {n},
             UNCHANGED fleetCache, f.exists, f.age = 0,
             f.currentTask = fleet[n].currentTask
      PROVE  HoldInv'
  <2>1. fleet'[n] = f /\ \A m \in Nodes \ {n} : fleet'[m] = fleet[m]
    BY <1>6 DEF TypeOK
  <2>2. NodeInv'
    BY <1>1, <1>6, <2>1 DEF NodeInv
  <2> QED BY <1>3, <1>6, <2>1, <2>2
<1>7. CASE Heartbeat(n)
  <2>1. PICK c \in Capabilities :
            fleet' = [fleet EXCEPT ![n] = [fleet[n] EXCEPT !.exists = TRUE,
                          !.phase = "Ready", !.age = 0, !.capability = c]]
    BY <1>7, Zenon DEF Heartbeat
  <2> DEFINE f == [fleet[n] EXCEPT !.exists = TRUE, !.phase = "Ready", !.age = 0,
                                   !.capability = c]
  <2>2. f.exists /\ f.age = 0 /\ f.currentTask = fleet[n].currentTask
    BY <1>4, Zenon DEF NodeState
  <2>3. synced' = synced \ {n} /\ UNCHANGED fleetCache
    BY <1>7 DEF Heartbeat
  <2> QED BY <1>6, <2>1, <2>2, <2>3, Zenon
<1>8. CASE Silence(n)
  <2> DEFINE age == fleet[n].age + 1
             f == [fleet[n] EXCEPT !.age = age]
             c == [fleetCache[n] EXCEPT !.age = MaxOf(fleetCache[n].age, age)]
  <2>1. fleet[n].age \in Nat /\ fleetCache[n].age \in Nat /\ MaxAge \in Nat
    BY <1>4, ConstantsAssumption, Zenon DEF NodeState
  <2>2. age <= 1 /\ fleetCache[n].age <= 1
    BY <1>1, <1>8, <2>1 DEF Silence, NodeInv
  <2>3. MaxOf(fleetCache[n].age, age) <= 1
    BY <2>2 DEF MaxOf
  <2>4. /\ f.age = age /\ f.currentTask = fleet[n].currentTask
        /\ f.exists = fleet[n].exists
        /\ c.age = MaxOf(fleetCache[n].age, age) /\ c.exists = fleetCache[n].exists
        /\ c.currentTask = fleetCache[n].currentTask
    BY <1>4, Zenon DEF NodeState
  <2>5. /\ fleet' = [fleet EXCEPT ![n] = f] /\ UNCHANGED synced
        /\ fleetCache' = [fleetCache EXCEPT ![n] = c]
    BY <1>8 DEF Silence
  <2> HIDE DEF age, f, c
  <2>6. /\ fleet'[n] = f /\ \A m \in Nodes \ {n} : fleet'[m] = fleet[m]
        /\ fleetCache'[n] = c /\ \A m \in Nodes \ {n} : fleetCache'[m] = fleetCache[m]
    BY <2>5 DEF TypeOK
  <2>7. NodeInv'
    <3> SUFFICES ASSUME NEW m \in Nodes
                 PROVE  /\ m \in synced =>
                               /\ fleetCache'[m].currentTask = fleet'[m].currentTask
                               /\ fleetCache'[m].exists = fleet'[m].exists
                        /\ fleet'[m].age <= 1 /\ fleetCache'[m].age <= 1
                        /\ ~fleet'[m].exists => fleet'[m].currentTask = NoTask
      BY <2>5 DEF NodeInv
    <3>1. CASE m = n
      BY <1>1, <2>2, <2>3, <2>4, <2>6, <3>1 DEF NodeInv
    <3>2. CASE m # n
      BY <1>1, <2>6, <3>2 DEF NodeInv
    <3> QED BY <3>1, <3>2
  <2> QED BY <1>3, <2>4, <2>6, <2>7
<1>9. CASE Drain(n)
  <2> DEFINE f == [fleet[n] EXCEPT !.phase = "Draining", !.age = 0]
  <2>1. f.exists = fleet[n].exists /\ f.age = 0 /\ f.currentTask = fleet[n].currentTask
    BY <1>4, Zenon DEF NodeState
  <2>2. CASE fleet[n].exists
    <3>1. /\ fleet' = [fleet EXCEPT ![n] = f] /\ synced' = synced \ {n}
          /\ UNCHANGED fleetCache
      BY <1>9, <2>2 DEF Drain
    <3> HIDE DEF f
    <3> QED BY <1>6, <2>1, <2>2, <3>1, Zenon
  <2>3. CASE ~fleet[n].exists
    <3>1. UNCHANGED <<fleet, synced, fleetCache>>
      BY <1>9, <2>3 DEF Drain, nodeVars
    <3> QED BY <1>1, <1>3, <3>1 DEF NodeInv
  <2> QED BY <2>2, <2>3
<1>10. CASE Exit(n) \/ Crash(n)
  <2>1. UNCHANGED <<fleet, synced, fleetCache>>
    BY <1>10 DEF Exit, Crash, nodeVars
  <2> QED BY <1>1, <1>3, <2>1 DEF NodeInv
<1> QED BY <1>5, <1>7, <1>8, <1>9, <1>10 DEF Registrar

\* The reservation hygiene of the FleetNode reconciler never frees a node that
\* its holder still needs.
LEMMA OperatorHolds ==
    ASSUME TypeOK, VersionInv, HoldInv, Operator PROVE HoldInv'
<1>1. NodeInv /\ NoNewHolder
  BY OperatorFrame, SameHolders DEF HoldInv, Idle, Busy
<1>2. ASSUME NodeInv', \A m \in Nodes : fleet'[m].currentTask = fleet[m].currentTask
      PROVE  HoldInv'
  BY <1>1, <1>2, HoldFrame
<1>3. \A n \in Nodes : ~(fleetCache[n].age >= 2)
  <2> SUFFICES ASSUME NEW n \in Nodes PROVE ~(fleetCache[n].age >= 2)
    OBVIOUS
  <2>1. fleetCache[n] \in NodeState /\ fleetCache[n].age <= 1
    BY <1>1 DEF TypeOK, NodeInv
  <2>2. fleetCache[n].age \in Nat
    BY <2>1, Zenon DEF NodeState
  <2> QED BY <2>1, <2>2
<1>4. ASSUME NEW n \in Nodes, ReapDraining(n) PROVE HoldInv'
  BY <1>3, <1>4 DEF ReapDraining, DrainReapable
<1>5. ASSUME NEW n \in Nodes, ReconcileFleetNode(n) PROVE HoldInv'
  <2> DEFINE d == IF HeartbeatStale(fleetCache[n]) THEN "NotReady" ELSE "Ready"
             e == IF DeadReservation(n)
                  THEN [fleet[n] EXCEPT !.currentTask = NoTask] ELSE fleet[n]
             f == IF fleetCache[n].phase # d THEN [e EXCEPT !.phase = d] ELSE e
  <2>1. /\ UNCHANGED fleetCache
        /\ DeadReservation(n) => n \in synced
        /\ UNCHANGED nodeVars \/ (fleet[n].exists /\ WriteNode(n, f))
    BY <1>3, <1>5 DEF ReconcileFleetNode, NotReadyReapable, cacheVars
  <2>2. e \in NodeState
    <3>1. fleet[n] \in NodeState
      BY DEF TypeOK
    <3> QED BY <3>1, Zenon DEF NodeState
  <2>3. /\ e.exists = fleet[n].exists /\ e.age = fleet[n].age
        /\ ~DeadReservation(n) => e.currentTask = fleet[n].currentTask
    BY NodeFields DEF TypeOK
  <2> HIDE DEF e
  <2>4. f.exists = e.exists /\ f.age = e.age /\ f.currentTask = e.currentTask
    BY <2>2, NodeFields
  <2> HIDE DEF f
  <2>5. CASE UNCHANGED nodeVars
    BY <1>1, <1>2, <2>1, <2>5 DEF NodeInv, nodeVars
  <2>6. CASE fleet[n].exists /\ WriteNode(n, f)
    <3>1. f.age <= 1 /\ f.exists
      BY <1>1, <2>3, <2>4, <2>6 DEF NodeInv
    <3>2. NodeInv' /\ fleet'[n] = f /\ \A m \in Nodes \ {n} : fleet'[m] = fleet[m]
      BY <1>1, <2>1, <2>6, <3>1, WriteNodeInv
    <3>3. CASE DeadReservation(n)
      <4>1. /\ fleet[n].currentTask = fleetCache[n].currentTask
            /\ ~TaskIsLive(fleetCache[n].currentTask, n)
        BY <1>1, <2>1, <3>3 DEF NodeInv, DeadReservation
      <4>2. \A t \in Tasks : ~Holds(t, n)
        BY <4>1, HolderIsLive DEF HoldInv
      <4>3. \A t \in Tasks, m \in Nodes :
                Holds(t, m)' => fleet'[m].currentTask = fleet[m].currentTask
        BY <1>1, <3>2, <4>2 DEF NoNewHolder
      <4> QED BY <1>1, <3>2, <4>3, HoldFrame
    <3>4. CASE ~DeadReservation(n)
      BY <1>2, <2>3, <2>4, <3>2, <3>4
    <3> QED BY <3>3, <3>4
  <2> QED BY <2>1, <2>5, <2>6
<1>6. ASSUME NEW t \in Tasks, DeliverTask(t) PROVE HoldInv'
  <2>1. UNCHANGED <<fleet, synced, fleetCache>>
    BY <1>6 DEF DeliverTask, nodeVars
  <2> QED BY <1>1, <1>2, <2>1 DEF NodeInv
<1>7. CASE RefreshFleet \/ OperatorCrash
  <2>1. fleet' = fleet /\ fleetCache' = fleet
    BY <1>7 DEF RefreshFleet, OperatorCrash
  <2> QED BY <1>1, <1>2, <2>1 DEF NodeInv
<1> QED BY <1>4, <1>5, <1>6, <1>7 DEF Operator

\* clearNodeCurrentTask for a task that needs the node no longer.
LEMMA ClearKeepsHolders ==
    ASSUME TypeOK, HoldInv, NoNewHolder, NEW n \in Nodes, NEW t \in Tasks,
           UNCHANGED fleetCache, ClearNodeCurrentTask(n, t), ~Holds(t, n)'
    PROVE  HoldInv'
<1>1. NodeInv' /\ \A m \in Nodes : \/ fleet'[m].currentTask = fleet[m].currentTask
                                   \/ m = n /\ fleet[m].currentTask = t
  BY ClearInv DEF HoldInv
<1>2. ASSUME NEW u \in Tasks, NEW m \in Nodes, Holds(u, m)'
      PROVE  fleet'[m].currentTask = fleet[m].currentTask
  <2>1. fleet[m].currentTask = u
    BY <1>2 DEF NoNewHolder, HoldInv
  <2> QED BY <1>1, <1>2, <2>1
<1> QED BY <1>1, <1>2, HoldFrame

\* reserveNode takes a node only from a task that does not need it.
LEMMA ReserveHolds ==
    ASSUME TypeOK, VersionInv, HoldInv, NEW t \in Tasks, ReserveFirstFitNode(t)
    PROVE  HoldInv'
<1>1. PICK n \in Nodes :
          /\ sched' = Busy("reserved", t, n, 0)
          /\ IF IsJob(t)
             THEN UNCHANGED nodeVars
             ELSE /\ Reservable(t, n)
                  /\ WriteNode(n, [fleet[n] EXCEPT !.currentTask = t])
  BY DEF ReserveFirstFitNode, FirstFit
<1>2. /\ UNCHANGED <<task, fleetCache>> /\ sched.pc = "idle"
      /\ sched'.task = t /\ sched'.node = n
  BY <1>1 DEF ReserveFirstFitNode, taskVars, cacheVars, BeginReconcile, Busy
<1>3. \A u \in Tasks, m \in Nodes :
          Holds(u, m)' => Holds(u, m) \/ (u = t /\ m = n /\ ~IsJob(t))
  BY <1>2 DEF Holds
<1>4. NodeInv
  BY DEF HoldInv
<1>5. CASE IsJob(t)
  <2>1. NodeInv' /\ \A m \in Nodes : fleet'[m].currentTask = fleet[m].currentTask
    BY <1>1, <1>2, <1>4, <1>5 DEF NodeInv, nodeVars
  <2>2. NoNewHolder
    BY <1>3, <1>5 DEF NoNewHolder
  <2> QED BY <2>1, <2>2, HoldFrame
<1>6. CASE ~IsJob(t)
  <2> DEFINE f == [fleet[n] EXCEPT !.currentTask = t]
  <2>1. f.currentTask = t /\ f.exists = fleet[n].exists /\ f.age = fleet[n].age
    BY NodeFields DEF TypeOK
  <2>2. /\ n \in synced /\ fleetCache[n].exists
        /\ fleetCache[n].currentTask \notin {NoTask, t} =>
               ~TaskIsLive(fleetCache[n].currentTask, n)
    BY <1>1, <1>6 DEF Reservable, Eligible
  <2>3. /\ fleet[n].exists /\ fleet[n].age <= 1
        /\ fleet[n].currentTask \notin {NoTask, t} =>
               ~TaskIsLive(fleet[n].currentTask, n)
    BY <1>4, <2>2 DEF NodeInv
  <2>4. WriteNode(n, f)
    BY <1>1, <1>6
  <2> HIDE DEF f
  <2>5. NodeInv' /\ fleet'[n] = f /\ \A m \in Nodes \ {n} : fleet'[m] = fleet[m]
    BY <1>2, <1>4, <2>1, <2>3, <2>4, WriteNodeInv, Zenon
  <2>6. \A u \in Tasks : Holds(u, n) => u = t
    <3> SUFFICES ASSUME NEW u \in Tasks, Holds(u, n) PROVE u = t
      OBVIOUS
    <3>1. fleet[n].currentTask = u /\ TaskIsLive(u, n)
      BY HolderIsLive DEF HoldInv
    <3>2. u # NoTask
      BY ConstantsAssumption
    <3> QED BY <2>3, <3>1, <3>2
  <2>7. ASSUME NEW u \in Tasks, NEW m \in Nodes, Holds(u, m)'
        PROVE  fleet'[m].currentTask = u
    <3>1. CASE m = n
      BY <1>3, <2>1, <2>5, <2>6, <2>7, <3>1
    <3>2. CASE m # n
      BY <1>3, <2>5, <2>7, <3>2 DEF HoldInv
    <3> QED BY <3>1, <3>2
  <2> QED BY <2>5, <2>7 DEF HoldInv
<1> QED BY <1>5, <1>6

\* The scheduler takes a reservation back only from a task that it has taken
\* off the node, or that it found finished or deleted.
LEMMA SchedulerHolds ==
    ASSUME TypeOK, CacheInv, ~OwnWriteLag, ~Stall, "schedule" \notin FailingCalls,
           VersionInv, HoldInv, Scheduler
    PROVE  HoldInv'
<1>1. UNCHANGED fleetCache /\ Idle.pc = "idle" /\ NodeInv
  BY Zenon DEF Scheduler, SetInitialPending, ReconcileTerminal, ReserveFirstFitNode,
     CheckClaimExpiry, ScheduleToNode, ScheduleToNodeError, IncrementExpiryCounter,
     ReleaseExpiredClaim, TerminalFailExpired, cacheVars, Idle, Busy, HoldInv
<1>2. ASSUME NoNewHolder, UNCHANGED nodeVars PROVE HoldInv'
  <2>1. NodeInv' /\ \A m \in Nodes : fleet'[m].currentTask = fleet[m].currentTask
    BY <1>1, <1>2 DEF NodeInv, nodeVars
  <2> QED BY <1>2, <2>1, HoldFrame
<1>3. ASSUME NEW t \in Tasks, SetInitialPending(t) PROVE HoldInv'
  <2>1. UNCHANGED nodeVars /\ sched' = sched /\ sched'.pc = "idle"
    BY <1>3 DEF SetInitialPending, BeginReconcile
  <2>2. CASE UNCHANGED taskVars
    BY <1>2, <2>1, <2>2, SameHolders DEF taskVars
  <2>3. ASSUME NEW s \in TaskState, PatchTask(t, s), s.phase = "Pending" PROVE HoldInv'
    BY <1>2, <2>1, <2>3, PatchTaskWrites, PatchHolders DEF InFlight
  <2> QED BY <1>3, <2>2, <2>3, InitialPending
<1>4. ASSUME NEW t \in Tasks, ReconcileTerminal(t) PROVE HoldInv'
  <2>1. /\ task' = task /\ sched' = sched
        /\ ClearNodeCurrentTask(taskCache[t].assignedNode, t)
        /\ taskCache[t].phase \in Terminal /\ taskCache[t].assignedNode # NoNode
    BY <1>4 DEF ReconcileTerminal, taskVars
  <2>2. PICK n \in Nodes : n = taskCache[t].assignedNode
    BY <2>1, TaskTypesOf DEF TaskState
  <2>3. NoNewHolder
    BY <2>1, SameHolders
  <2>4. ~Holds(t, n)'
    BY <2>1, <2>2, <2>3, HolderIsLive DEF NoNewHolder, TaskIsLive
  <2> QED BY <1>1, <2>1, <2>2, <2>3, <2>4, ClearKeepsHolders
<1>5. ASSUME NEW t \in Tasks, CheckClaimExpiry(t) PROVE HoldInv'
  <2>1. /\ task' = task /\ UNCHANGED nodeVars
        /\ sched'.pc = ExpiryVerdict(taskCache[t].expiries)
    BY <1>5 DEF CheckClaimExpiry, Busy, taskVars
  <2> QED BY <1>2, <2>1, SameHolders DEF ExpiryVerdict
<1>6. CASE ScheduleToNode
  <2>1. PICK t \in Tasks, n \in Nodes :
            t = sched.task /\ n = sched.node /\ sched.pc = "reserved"
    BY <1>6, SchedFields DEF ScheduleToNode
  <2> DEFINE w == [task[t] EXCEPT !.phase = "Scheduled", !.assignedNode = n]
  <2>2. w.assignedNode = n
    BY <2>1, ScheduledFollows, Zenon
  <2>3. /\ PatchTask(t, w) /\ sched'.pc = "idle"
        /\ IF task[t].phase = "Gone" THEN ClearNodeCurrentTask(n, t)
                                     ELSE UNCHANGED nodeVars
    BY <1>1, <1>6, <2>1 DEF ScheduleToNode
  <2> HIDE DEF w
  <2>4. CASE task[t].phase = "Gone"
    <3>1. task' = task
      BY <2>3, <2>4 DEF PatchTask, taskVars
    <3>2. NoNewHolder
      BY <2>3, <3>1, SameHolders
    <3>3. ~Holds(t, n)'
      BY <2>3, <2>4, <3>1 DEF Holds, InFlight
    <3> QED BY <1>1, <2>1, <2>3, <2>4, <3>2, <3>3, ClearKeepsHolders
  <2>5. CASE task[t].phase # "Gone"
    <3>1. task'[t] = w /\ \A u \in Tasks \ {t} : task'[u] = task[u]
      BY <2>1, <2>3, <2>5 DEF PatchTask, SchedulerPatch, WriteTask, TypeOK
    <3>2. NoNewHolder
      <4> SUFFICES ASSUME NEW u \in Tasks, NEW m \in Nodes, Holds(u, m)'
                   PROVE  Holds(u, m)
        BY DEF NoNewHolder
      <4>1. CASE u = t
        BY <2>1, <2>2, <2>3, <2>5, <3>1, <4>1 DEF Holds
      <4>2. CASE u # t
        BY <2>3, <3>1, <4>2 DEF Holds
      <4> QED BY <4>1, <4>2
    <3> QED BY <1>2, <2>3, <2>5, <3>2
  <2> QED BY <2>4, <2>5
<1>7. CASE IncrementExpiryCounter
  <2>1. PICK t \in Tasks :
            t = sched.task /\ sched.pc = "expiring" /\ UNCHANGED nodeVars
    BY <1>7, SchedFields DEF IncrementExpiryCounter
  <2> DEFINE w == [task[t] EXCEPT !.expiries =
                       MaxOf(taskCache[t].expiries, sched.prior) + 1]
  <2>2. w.phase = task[t].phase /\ w.assignedNode = task[t].assignedNode
    BY <2>1, TaskTypesOf, PatchFields
  <2>3. /\ UNCHANGED taskVars \/ PatchTask(t, w)
        /\ sched' = Idle \/ sched' = [sched EXCEPT !.pc = "expired"]
    BY <1>7, <2>1 DEF IncrementExpiryCounter
  <2>4. sched'.pc # "reserved"
    BY <1>1, <2>1, <2>3 DEF TypeOK, SchedState, Idle, Busy
  <2> HIDE DEF w
  <2>5. task' = task \/ task' = [task EXCEPT ![t] = w]
    BY <2>1, <2>3, PatchTaskWrites DEF taskVars
  <2>6. NoNewHolder
    BY <2>1, <2>2, <2>4, <2>5, PatchHolders
  <2> QED BY <1>2, <2>1, <2>6
<1>8. CASE ReleaseExpiredClaim \/ TerminalFailExpired
  <2>1. PICK t \in Tasks, n \in Nodes : t = sched.task /\ n = sched.node
    BY <1>8, SchedFields DEF ReleaseExpiredClaim, TerminalFailExpired
  <2> DEFINE w == [task[t] EXCEPT !.phase = "Failed"]
  <2>2. Released(t).phase = "Pending" /\ w.phase = "Failed"
    BY <2>1, ReleasedFields, FailedFollows
  <2>3. /\ sched'.pc = "idle"
        /\ \/ UNCHANGED <<taskVars, nodeVars>>
           \/ /\ PatchTask(t, Released(t)) \/ PatchTask(t, w)
              /\ task[t].phase # "Gone" /\ ClearNodeCurrentTask(n, t)
    BY <1>1, <1>8, <2>1 DEF ReleaseExpiredClaim, TerminalFailExpired
  <2> HIDE DEF w
  <2>4. CASE UNCHANGED <<taskVars, nodeVars>>
    BY <1>2, <2>3, <2>4, SameHolders DEF taskVars
  <2>5. ASSUME NEW s, PatchTask(t, s), task[t].phase # "Gone",
               s.phase \notin InFlight, ClearNodeCurrentTask(n, t)
        PROVE  HoldInv'
    <3>1. task' = [task EXCEPT ![t] = s] /\ task'[t] = s
      BY <2>1, <2>5 DEF PatchTask, SchedulerPatch, WriteTask, TypeOK
    <3>2. NoNewHolder
      BY <2>1, <2>3, <2>5, <3>1, PatchHolders, Zenon
    <3>3. ~Holds(t, n)'
      BY <2>3, <2>5, <3>1 DEF Holds
    <3> QED BY <1>1, <2>1, <2>5, <3>2, <3>3, ClearKeepsHolders
  <2> QED BY <2>2, <2>3, <2>4, <2>5 DEF InFlight
<1> QED BY <1>3, <1>4, <1>5, <1>6, <1>7, <1>8, ReserveHolds
        DEF Scheduler, ScheduleToNodeError

\* The node an in-process task is scheduled to or runs on stays reserved for
\* it (reserveNode, clearNodeCurrentTask, taskIsLive and the reservation hygiene
\* of the FleetNode reconciler), for any number of tasks and nodes.  The run
\* shows what this rests on: a reconcile sees the scheduler's own earlier writes,
\* agents do not sleep between a read and its write, scheduleToNode does not
\* report an error, and no node is silent past the reap windows.
THEOREM ReservationsStayHeld ==
    /\ ~OwnWriteLag /\ ~Stall
    /\ "schedule" \notin FailingCalls /\ MaxAge <= 1
    => (Spec => []ReservationHeld)
<1> SUFFICES ASSUME ~OwnWriteLag, ~Stall, "schedule" \notin FailingCalls, MaxAge <= 1
             PROVE  Spec => []ReservationHeld
  OBVIOUS
<1>1. Init => CacheInv
  BY CacheInvariance
<1>2. TypeOK /\ CacheInv /\ [Next]_vars => CacheInv'
  BY CacheInvariance
<1>3. Init => VersionInv /\ HoldInv
  <2> SUFFICES ASSUME Init PROVE VersionInv /\ HoldInv
    OBVIOUS
  <2>1. (\A t \in Tasks : task[t].phase = "New") /\ sched.pc = "idle"
    BY DEF Init, NewTask, Idle, Busy
  <2>2. \A n \in Nodes : /\ fleetCache[n] = fleet[n] /\ fleet[n].age = 1
                         /\ fleet[n].currentTask = NoTask
    BY Zenon DEF Init, NoFleetNode
  <2>3. VersionInv
    BY <2>1 DEF VersionInv, FlightVersions, PendingVersions, InFlight
  <2>4. NodeInv
    BY <2>2 DEF NodeInv
  <2> QED BY <2>1, <2>3, <2>4 DEF HoldInv, Holds, InFlight
<1>4. TypeOK /\ CacheInv /\ VersionInv /\ HoldInv /\ [Next]_vars
      => VersionInv' /\ HoldInv'
  <2> SUFFICES ASSUME TypeOK, CacheInv, VersionInv, HoldInv, [Next]_vars
               PROVE  VersionInv' /\ HoldInv'
    OBVIOUS
  <2>1. CASE UNCHANGED vars
    <3>1. VersionInv'
      BY <2>1, VersionFrame DEF vars
    <3>2. NoNewHolder /\ NodeInv'
      BY <2>1, SameHolders DEF vars, HoldInv, NodeInv
    <3> QED BY <2>1, <3>1, <3>2, HoldFrame DEF vars
  <2>2. CASE Scheduler
    BY <2>2, SchedulerVersions, SchedulerHolds
  <2>3. CASE Operator
    BY <2>3, OperatorVersions, OperatorHolds
  <2>4. ASSUME NEW n \in Nodes, Registrar(n) PROVE VersionInv' /\ HoldInv'
    BY <2>4, RegistrarFrame, VersionFrame, RegistrarHolds
  <2>5. ASSUME AgentWrites, UNCHANGED <<nodeVars, fleetCache>>
        PROVE  VersionInv' /\ HoldInv'
    <3>1. NodeInv' /\ \A m \in Nodes : fleet'[m].currentTask = fleet[m].currentTask
      BY <2>5 DEF HoldInv, NodeInv, nodeVars
    <3> QED BY <2>5, <3>1, AgentVersions, AgentHolders, HoldFrame
  <2>6. ASSUME NEW n \in Nodes, Watcher(n) PROVE VersionInv' /\ HoldInv'
    <3>1. UNCHANGED <<nodeVars, fleetCache>>
      BY <2>6, Zenon DEF Watcher, RecoverOrphanedTask, RecoverOrphanedTaskError,
         StartPolling, PollOnce, ClaimAndLaunch, SkipCandidate, ClaimError,
         PatchTerminal, PatchTerminalStall, PatchTerminalLate,
         PatchTerminalFallback, PatchTerminalError, runFrame, operatorVars, cacheVars
    <3> QED BY <2>5, <2>6, <3>1, WatcherWrites
  <2>7. ASSUME NEW t \in Tasks, DeleteTask(t) PROVE VersionInv' /\ HoldInv'
    BY <2>5, <2>7, DeleteWrites DEF DeleteTask, operatorVars, cacheVars
  <2> QED BY <2>1, <2>2, <2>3, <2>4, <2>6, <2>7 DEF Next
<1>5. TypeOK /\ HoldInv => ReservationHeld
  <2> SUFFICES ASSUME TypeOK, HoldInv, NEW t \in Tasks, ~IsJob(t),
                      task[t].phase \in InFlight, task[t].assignedNode # NoNode
               PROVE  fleet[task[t].assignedNode].currentTask = t
    BY DEF ReservationHeld
  <2>1. task[t].assignedNode \in Nodes
    BY TaskTypesOf DEF TaskState
  <2> QED BY <2>1 DEF HoldInv, Holds
<1> QED BY <1>1, <1>2, <1>3, <1>4, <1>5, TypeCorrect, PTL DEF Spec
============================================================================
