--------------------------- MODULE ModelPoolProofs ---------------------------
(***************************************************************************)
(* The properties of the Activator, alone and composed with the cluster    *)
(* and the ModelPoolReconciler, for every list of members and every finite *)
(* set of requests.                                                        *)
(***************************************************************************)
EXTENDS ModelPool, ActivatorProofs

----------------------------------------------------------------------------
(* The cluster and the ModelPoolReconciler *)

\* The first member of ms is a member of ms.
LEMMA FirstIsMember ==
    ASSUME NEW ms, ms \subseteq Members, ms # {}
    PROVE  First(ms) \in ms
<1> DEFINE T == {i \in DOMAIN MemberSeq : MemberSeq[i] \in ms}
<1>1. DOMAIN MemberSeq = 1..Len(MemberSeq) /\ Len(MemberSeq) \in Nat
  BY MembersAssumption
<1>2. T \subseteq Nat /\ T # {}
  BY <1>1 DEF Members
<1>3. PICK i \in T : \A j \in T : i <= j
  BY <1>2, FirstPosition, Zenon
<1>4. \A j \in 1..(i - 1) : MemberSeq[j] \notin ms
  BY <1>1, <1>3
<1> QED BY <1>3, <1>4 DEF First

\* Pods, crashes and published phases keep the types of the members.
LEMMA MembersStepType ==
    ASSUME MembersTypeOK, MembersNext
    PROVE  MembersTypeOK'
<1>1. ASSUME NEW m \in Members, PodProgress(m) PROVE MembersTypeOK'
  <2>1. pod' \in [Members -> PodStates]
    BY <1>1 DEF PodProgress, MembersTypeOK, PodStates
  <2>2. load' \in [Members -> SUBSET Requests]
    BY <1>1 DEF PodProgress, MembersTypeOK
  <2> QED BY <1>1, <2>1, <2>2 DEF PodProgress, MembersTypeOK
<1>2. ASSUME NEW m \in Members, PodCrash(m) PROVE MembersTypeOK'
  <2>1. faults' \in 0..MaxFaults /\ disturbed' \in BOOLEAN
    BY <1>2, FaultType DEF PodCrash
  <2>2. pod' \in [Members -> PodStates] /\ load' \in [Members -> SUBSET Requests]
    BY <1>2 DEF PodCrash, MembersTypeOK, PodStates
  <2> QED BY <1>2, <2>1, <2>2 DEF PodCrash, MembersTypeOK
<1>3. ASSUME NEW m \in Members, DeterminePhase(m) PROVE MembersTypeOK'
  <2>1. (replicas[m] = 1 /\ pod[m] = "serving") \in BOOLEAN
    OBVIOUS
  <2>2. phase' \in [Members -> BOOLEAN]
    BY <1>3, <2>1, Zenon DEF DeterminePhase, MembersTypeOK
  <2> QED BY <1>3, <2>2 DEF DeterminePhase, MembersTypeOK
<1> QED BY <1>1, <1>2, <1>3 DEF MembersNext

\* Members that come and go as they like keep their types too.
LEMMA FlipType ==
    ASSUME MembersTypeOK, NEW m \in Members, MemberFlips(m)
    PROVE  MembersTypeOK'
<1>1. pod' \in [Members -> PodStates] /\ load' \in [Members -> SUBSET Requests]
  BY DEF MemberFlips, MembersTypeOK, PodStates
<1>2. phase' \in [Members -> BOOLEAN]
  <2>1. (pod'[m] = "serving") \in BOOLEAN
    OBVIOUS
  <2> QED BY <2>1, Zenon DEF MemberFlips, MembersTypeOK
<1> QED BY <1>1, <1>2 DEF MemberFlips, MembersTypeOK

\* A step that leaves the Activator alone keeps its invariant.
LEMMA ActivatorStays ==
    ASSUME ActivatorInductive, UNCHANGED activatorVars, MembersTypeOK'
    PROVE  ActivatorInductive'
BY DEF ActivatorInductive, ActivatorTypeOK, activatorVars

\* resolveSlotOwner names a member, or nobody.
LEMMA OwnerType ==
    ASSUME status \in Status
    PROVE  ResolveSlotOwner(status, replicas) \in Members \cup {None}
<1> DEFINE requested == {m \in Members : replicas[m] = 1}
           newly == requested \ {status.resident}
<1>1. requested # {} => First(requested) \in Members
  BY FirstIsMember
<1>2. newly # {} => First(newly) \in Members
  BY FirstIsMember
<1>3. status.pending \in Members \cup {None} /\ status.resident \in Members \cup {None}
  BY DEF Status
<1>4. Default \in Members \cup {None}
  BY PoolAssumption
<1> HIDE DEF requested, newly
<1>5. CASE status.resident = None
  <2>1. ResolveSlotOwner(status, replicas)
          = CASE status.pending # None -> status.pending
              [] status.pending = None /\ requested = {} -> Default
              [] status.pending = None /\ Default \in requested -> Default
              [] OTHER -> First(requested)
    BY <1>5 DEF ResolveSlotOwner, requested
  <2> QED BY <1>1, <1>3, <1>4, <2>1
<1>6. CASE status.resident # None
  <2>1. ResolveSlotOwner(status, replicas)
          = CASE newly # {} -> IF status.pending \in newly THEN status.pending ELSE First(newly)
              [] newly = {} /\ status.pending # None -> status.pending
              [] OTHER -> status.resident
    BY <1>6 DEF ResolveSlotOwner, newly, requested
  <2> QED BY <1>2, <1>3, <2>1
<1> QED BY <1>5, <1>6

\* applyReclaimOwner keeps the owner or takes the default, and sets the clock.
LEMMA ReclaimType ==
    ASSUME status \in Status, NEW o \in Members \cup {None}, NEW answer
    PROVE  /\ ApplyReclaimOwner(o, status, phase, answer)[1] \in Members \cup {None}
           /\ ApplyReclaimOwner(o, status, phase, answer)[2] \in IdleClock
<1>1. Default \in Members \cup {None} /\ status.idle \in IdleClock
  BY PoolAssumption DEF Status
<1>2. ApplyReclaimOwner(o, status, phase, answer)
        \in {<<o, "unset">>, <<o, status.idle>>, <<o, "running">>, <<Default, "elapsed">>}
  BY Zenon DEF ApplyReclaimOwner
<1> QED BY <1>1, <1>2 DEF IdleClock
PoolInductive == ActivatorInductive /\ status \in Status /\ rec \in Reconcile

\* The types of the record a reconcile starts from.
LEMMA NoReconcileType == NoReconcile \in Reconcile
<1>1. /\ [m \in Members |-> 0] \in [Members -> {0, 1}]
      /\ [m \in Members |-> FALSE] \in [Members -> BOOLEAN]
      /\ {} \in SUBSET Members
  OBVIOUS
<1> QED BY <1>1, Zenon DEF NoReconcile, Reconcile, IdleClock

\* ensureReplicas sets a replica count to zero or one.
LEMMA EnsureType ==
    ASSUME MembersTypeOK, NEW m, NEW d \in {0, 1}, EnsureReplicas(m, d)
    PROVE  replicas' \in [Members -> {0, 1}]
BY DEF MembersTypeOK, EnsureReplicas

\* Every step of the reconciler keeps the types of its state and of the
\* members it patches.
LEMMA ReconcileStepType ==
    ASSUME PoolInductive, ReconcileNext
    PROVE  MembersTypeOK' /\ status' \in Status /\ rec' \in Reconcile
<1>1. MembersTypeOK /\ status \in Status /\ rec \in Reconcile
  BY DEF PoolInductive, ActivatorInductive, ActivatorTypeOK
<1>2. CASE ReconcileBegin
  <2> DEFINE o == ResolveSlotOwner(status, replicas)
  <2>1. PICK answer \in IF o = None THEN {"refused"} ELSE ProbeAnswers(o) :
          \E d \in {ApplyReclaimOwner(o, status, phase, answer)} :
             /\ rec' = [NoReconcile EXCEPT
                           !.pc = "next", !.replicas = replicas, !.ready = phase,
                           !.owner = d[1], !.idle = d[2], !.todo = Members \ {d[1]}]
             /\ disturbed' = (disturbed \/ d[1] # o)
    BY <1>2, Zenon DEF ReconcileBegin
  <2> DEFINE d == ApplyReclaimOwner(o, status, phase, answer)
  <2>2. d[1] \in Members \cup {None} /\ d[2] \in IdleClock
    BY <1>1, OwnerType, ReclaimType
  <2>3. /\ rec' = [NoReconcile EXCEPT !.pc = "next", !.replicas = replicas, !.ready = phase,
                       !.owner = d[1], !.idle = d[2], !.todo = Members \ {d[1]}]
        /\ disturbed' = (disturbed \/ d[1] # o)
    BY <2>1, Zenon
  <2> HIDE DEF d, o
  <2>4. Members \ {d[1]} \in SUBSET Members
    OBVIOUS
  <2>5. rec' \in Reconcile
    BY <1>1, <2>2, <2>3, <2>4, NoReconcileType, Zenon DEF Reconcile, MembersTypeOK
  <2>6. disturbed' \in BOOLEAN
    BY <2>3, Zenon
  <2> QED BY <1>1, <1>2, <2>5, <2>6 DEF ReconcileBegin, MembersTypeOK
<1>3. CASE ReconcileMember
  <2> DEFINE m == First(rec.todo)
  <2>1. rec.todo \in SUBSET Members /\ rec.todo # {}
    BY <1>1, <1>3 DEF ReconcileMember, Reconcile
  <2>2. m \in Members
    BY <2>1, FirstIsMember
  <2>3. \/ rec' = [rec EXCEPT !.pc = "drain", !.member = m, !.gone = ~HasPod(m),
                              !.ready = [@ EXCEPT ![m] = FALSE]]
        \/ rec' = [rec EXCEPT !.todo = @ \ {m}, !.clear = FALSE,
                              !.ready = [@ EXCEPT ![m] = FALSE],
                              !.replicas = [@ EXCEPT ![m] = 0]]
    BY <1>3, Zenon DEF ReconcileMember
  <2> HIDE DEF m
  <2>4. /\ [rec.ready EXCEPT ![m] = FALSE] \in [Members -> BOOLEAN]
        /\ [rec.replicas EXCEPT ![m] = 0] \in [Members -> {0, 1}]
        /\ rec.todo \ {m} \in SUBSET Members /\ (~HasPod(m)) \in BOOLEAN
    BY <1>1, <2>2 DEF Reconcile
  <2>5. [rec EXCEPT !.pc = "drain", !.member = m, !.gone = ~HasPod(m),
                    !.ready = [rec.ready EXCEPT ![m] = FALSE]] \in Reconcile
    BY <1>1, <2>2, <2>4, Zenon DEF Reconcile
  <2>6. [rec EXCEPT !.todo = rec.todo \ {m}, !.clear = FALSE,
                    !.ready = [rec.ready EXCEPT ![m] = FALSE],
                    !.replicas = [rec.replicas EXCEPT ![m] = 0]] \in Reconcile
    BY <1>1, <2>2, <2>4, Zenon DEF Reconcile
  <2>7. rec' \in Reconcile
    BY <2>3, <2>5, <2>6, Zenon
  <2> QED BY <1>1, <1>3, <2>7 DEF ReconcileMember, memberVars, MembersTypeOK
<1>4. CASE ReconcileDrain
  <2> DEFINE m == rec.member
  <2>1. /\ [rec.replicas EXCEPT ![m] = 0] \in [Members -> {0, 1}]
        /\ rec.todo \ {m} \in SUBSET Members
    BY <1>1 DEF Reconcile
  <2>2. (rec.clear /\ rec.gone) \in BOOLEAN
    BY <1>1, Zenon DEF Reconcile
  <2>3. rec' = [rec EXCEPT !.pc = "next", !.todo = rec.todo \ {m}, !.member = None,
                           !.clear = rec.clear /\ rec.gone, !.gone = FALSE,
                           !.replicas = [rec.replicas EXCEPT ![m] = 0]]
    BY <1>4 DEF ReconcileDrain
  <2>4. rec' \in Reconcile
    BY <1>1, <2>1, <2>2, <2>3, Zenon DEF Reconcile
  <2>5. replicas' \in [Members -> {0, 1}]
    BY <1>1, <1>4, EnsureType DEF ReconcileDrain
  <2> QED BY <1>1, <1>4, <2>4, <2>5 DEF ReconcileDrain, MembersTypeOK
<1>5. CASE ReconcileOwner
  <2>1. rec.owner \in Members \cup {None} /\ rec.idle \in IdleClock
    BY <1>1 DEF Reconcile
  <2>2. \/ status' = [resident |-> None, pending |-> None, idle |-> rec.idle]
        \/ status' = [resident |-> rec.owner, pending |-> None, idle |-> rec.idle]
        \/ status' = [status EXCEPT !.pending = rec.owner, !.idle = rec.idle]
    BY <1>5, Zenon DEF ReconcileOwner
  <2>3. status' \in Status
    <3>1. /\ [resident |-> None, pending |-> None, idle |-> rec.idle] \in Status
          /\ [resident |-> rec.owner, pending |-> None, idle |-> rec.idle] \in Status
      BY <2>1, Zenon DEF Status
    <3>2. [status EXCEPT !.pending = rec.owner, !.idle = rec.idle] \in Status
      BY <1>1, <2>1, Zenon DEF Status
    <3> QED BY <2>2, <3>1, <3>2, Zenon
  <2>4. replicas' \in [Members -> {0, 1}]
    BY <1>1, <1>5, EnsureType DEF ReconcileOwner, MembersTypeOK
  <2> QED BY <1>1, <1>5, <2>3, <2>4, NoReconcileType DEF ReconcileOwner, MembersTypeOK
<1>6. CASE ReconcileAbort
  BY <1>1, <1>6, FaultType, NoReconcileType DEF ReconcileAbort, MembersTypeOK
<1>7. CASE IdleElapses
  <2>1. status' \in Status
    BY <1>1, <1>7 DEF IdleElapses, Status, IdleClock
  <2> QED BY <1>1, <1>7, <2>1 DEF IdleElapses, memberVars, MembersTypeOK
<1> QED BY <1>2, <1>3, <1>4, <1>5, <1>6, <1>7 DEF ReconcileNext

\* The reconciler never writes the Activator's state.
LEMMA ReconcileLeavesActivator ==
    ASSUME ReconcileNext
    PROVE  UNCHANGED activatorVars
BY DEF ReconcileNext, ReconcileBegin, ReconcileMember, ReconcileDrain, ReconcileOwner,
       ReconcileAbort, IdleElapses
----------------------------------------------------------------------------
(* What the runs check, for every instance *)

\* The Activator alone keeps its invariant.
LEMMA AloneInvariance == AloneSpec => []ActivatorInductive
<1>1. MembersInit /\ ActivatorInit => ActivatorInductive
  BY ActivatorStart
<1>2. ActivatorInductive /\ [AloneNext]_aloneVars => ActivatorInductive'
  <2> SUFFICES ASSUME ActivatorInductive, [AloneNext]_aloneVars
               PROVE  ActivatorInductive'
    OBVIOUS
  <2>1. CASE ActivatorNext
    BY <2>1, ActivatorStep
  <2>2. ASSUME NEW m \in Members, MemberFlips(m) PROVE ActivatorInductive'
    <3>1. MembersTypeOK' /\ UNCHANGED activatorVars
      BY <2>2, FlipType DEF MemberFlips, ActivatorInductive, ActivatorTypeOK
    <3> QED BY <3>1, ActivatorStays
  <2>3. CASE UNCHANGED aloneVars
    <3>1. MembersTypeOK' /\ UNCHANGED activatorVars
      BY <2>3 DEF aloneVars, memberVars, ActivatorInductive, ActivatorTypeOK, MembersTypeOK
    <3> QED BY <3>1, ActivatorStays
  <2> QED BY <2>1, <2>2, <2>3 DEF AloneNext
<1> QED BY <1>1, <1>2, PTL DEF AloneSpec

\* So does the Activator composed with the cluster and the reconciler.
LEMMA PoolInvariance == Spec => []PoolInductive
<1>1. Init => PoolInductive
  <2> SUFFICES ASSUME Init PROVE PoolInductive
    OBVIOUS
  <2>1. MemberSeq[1] \in Members
    <3>1. 1 \in DOMAIN MemberSeq
      BY MembersAssumption
    <3> QED BY <3>1 DEF Members
  <2>2. status \in Status
    BY <2>1 DEF Init, Status, IdleClock
  <2> QED BY <2>2, ActivatorStart, NoReconcileType DEF Init, PoolInductive
<1>2. PoolInductive /\ [Next]_vars => PoolInductive'
  <2> SUFFICES ASSUME PoolInductive, [Next]_vars
               PROVE  PoolInductive'
    OBVIOUS
  <2>1. ActivatorInductive /\ MembersTypeOK
    BY DEF PoolInductive, ActivatorInductive, ActivatorTypeOK
  <2>2. CASE ClusterNext
    <3>1. MembersTypeOK' /\ UNCHANGED activatorVars /\ UNCHANGED poolVars
      BY <2>1, <2>2, MembersStepType DEF ClusterNext
    <3> QED BY <2>1, <3>1, ActivatorStays DEF PoolInductive, poolVars
  <2>3. CASE ActivatorNext /\ UNCHANGED poolVars
    BY <2>1, <2>3, ActivatorStep DEF PoolInductive, poolVars
  <2>4. CASE ReconcileNext
    BY <2>1, <2>4, ReconcileStepType, ReconcileLeavesActivator, ActivatorStays DEF PoolInductive
  <2>5. CASE UNCHANGED vars
    <3>1. MembersTypeOK' /\ UNCHANGED activatorVars /\ UNCHANGED poolVars
      BY <2>1, <2>5 DEF vars, memberVars, MembersTypeOK
    <3> QED BY <2>1, <3>1, ActivatorStays DEF PoolInductive, poolVars
  <2> QED BY <2>2, <2>3, <2>4, <2>5 DEF Next
<1> QED BY <1>1, <1>2, PTL DEF Spec

\* Every variable of the pool keeps its type: in particular no replica count
\* leaves {0, 1} and resolveSlotOwner never names a member that is not there.
THEOREM PoolTyped == Spec => []PoolTypeOK
<1>1. PoolInductive => PoolTypeOK
  BY DEF PoolInductive, ActivatorInductive, PoolTypeOK
<1> QED BY <1>1, PoolInvariance, PTL

\* inflight and waiting of poolRuntime are exact, whatever the members do and
\* however many requests arrive, give up, fail or finish in between.
THEOREM CountersStayExact == AloneSpec \/ Spec => []CountersExact
<1>1. ActivatorInductive => CountersExact
  BY SoundMeans
<1>2. PoolInductive => ActivatorInductive
  BY DEF PoolInductive
<1> QED BY <1>1, <1>2, AloneInvariance, PoolInvariance, PTL

\* A swap that startSwap began runs to its end with the incumbent idle.
THEOREM SwapsDrainFirst == AloneSpec \/ Spec => []IncumbentIdleDuringSwap
<1>1. ActivatorInductive => IncumbentIdleDuringSwap
  BY SoundMeans
<1>2. PoolInductive => ActivatorInductive
  BY DEF PoolInductive
<1> QED BY <1>1, <1>2, AloneInvariance, PoolInvariance, PTL

\* No request sleeps on the change channel with nobody left to close it.
THEOREM NobodySleepsAlone == AloneSpec \/ Spec => []HeldHasWaker
<1>1. ActivatorInductive => HeldHasWaker
  BY SoundMeans
<1>2. PoolInductive => ActivatorInductive
  BY DEF PoolInductive
<1> QED BY <1>1, <1>2, AloneInvariance, PoolInvariance, PTL

\* The failure of a swap reaches every request that waited through it, and no
\* request that arrives later, over every schedule of arrivals, swaps,
\* timeouts and restarts.
THEOREM FailuresReachTheirWaiters == AloneSpec \/ Spec => FailureMeetsItsWaiters
<1> DEFINE Step == \A r \in Requests : FailureStep(r)
<1>1. UNCHANGED <<pr, req>> => Step
  BY DEF FailureStep
<1>2. ActivatorInductive /\ [AloneNext]_aloneVars => [Step]_aloneVars
  BY <1>1, ActivatorFailureStep DEF AloneNext, MemberFlips, activatorVars
<1>3. PoolInductive /\ [Next]_vars => [Step]_aloneVars
  BY <1>1, ActivatorFailureStep, ReconcileLeavesActivator
     DEF PoolInductive, Next, ClusterNext, activatorVars, vars, aloneVars
<1>4. Step <=> \A r \in Requests :
          /\ pr'.swapErr # pr.swapErr /\ pr'.swapGen = pr.swapGen
             /\ req[r].pc = "waiting" /\ Target[r] = pr.swapTarget
             => req'[r].woken /\ Failed(pr', Target[r], req'[r].arrivalGen)
          /\ req[r].pc = "idle" /\ req'[r].pc = "leaving"
             => req'[r].result # "swapFailed"
  BY DEF FailureStep
<1> HIDE DEF Step
<1> QED BY <1>2, <1>3, <1>4, AloneInvariance, PoolInvariance, PTL
        DEF AloneSpec, Spec, FailureMeetsItsWaiters

\* A deactivate of the proxy, from a failed swap or from a goroutine that runs
\* late, never hits the resident or the target of a swap in flight.
THEOREM ClaimsAreSafe == AloneSpec \/ Spec => ClaimNeverDeactivated
<1> DEFINE Step ==
      \A m \in Members :
          replicas[m] = 1 /\ replicas'[m] = 0 /\ <<swap', unwanted'>> # <<swap, unwanted>>
            => pr'.resident # m /\ ~(pr'.swapping /\ pr'.swapTarget = m)
<1>1. UNCHANGED <<swap, unwanted>> => Step
  OBVIOUS
<1>2. ActivatorInductive /\ ActivatorNext => Step
  BY ActivatorClaimStep
<1>3. ActivatorInductive /\ [AloneNext]_aloneVars => [Step]_aloneVars
  BY <1>1, <1>2 DEF AloneNext, MemberFlips, activatorVars
<1>4. PoolInductive /\ [Next]_vars => [Step]_aloneVars
  BY <1>1, <1>2, ReconcileLeavesActivator
     DEF PoolInductive, Next, ClusterNext, activatorVars, vars, aloneVars
<1> QED BY <1>3, <1>4, AloneInvariance, PoolInvariance, PTL
        DEF AloneSpec, Spec, ClaimNeverDeactivated
=============================================================================
