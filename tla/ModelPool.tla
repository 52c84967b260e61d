------------------------------ MODULE ModelPool ------------------------------
(***************************************************************************)
(* internal/controller/modelpool_controller.go composed with the           *)
(* router-proxy's Activator: the ModelPoolReconciler makes the member the  *)
(* proxy scaled up the owner of the slot, drains every other member once   *)
(* its server is idle, and starts the owner when their Pods are gone.      *)
(***************************************************************************)
EXTENDS Activator

CONSTANTS
    Default,    \* spec.default, or None
    Reclaim     \* spec.swapPolicy is reclaim

ASSUME PoolAssumption ==
    Default \in Members \cup {None} /\ Reclaim \in BOOLEAN

VARIABLES
    status,     \* status: residentMember, pendingMember, residentIdleSince
    rec         \* the reconcile in progress

poolVars == <<status, rec>>
vars == <<memberVars, activatorVars, poolVars>>

IdleClock == {"unset", "running", "elapsed"}    \* against spec.reclaimAfter
Status == [resident : Members \cup {None}, pending : Members \cup {None}, idle : IdleClock]

Reconcile ==
    [pc : {"idle", "next", "drain"},
     replicas : [Members -> {0, 1}],    \* the members as read from the cache
     ready : [Members -> BOOLEAN],
     idle : IdleClock,                  \* the idle clock to write
     owner : Members \cup {None},
     todo : SUBSET Members,             \* non-owners not looked at yet
     member : Members \cup {None},      \* the non-owner being drained
     gone : BOOLEAN,                    \* it had no Pods when they were listed
     clear : BOOLEAN]                   \* othersClear

NoReconcile ==
    [pc |-> "idle", replicas |-> [m \in Members |-> 0], ready |-> [m \in Members |-> FALSE],
     idle |-> "unset", owner |-> None, todo |-> {}, member |-> None,
     gone |-> FALSE, clear |-> TRUE]

----------------------------------------------------------------------------
First(ms) ==
    MemberSeq[CHOOSE i \in DOMAIN MemberSeq :
        MemberSeq[i] \in ms /\ \A j \in 1..(i - 1) : MemberSeq[j] \notin ms]

ResolveSlotOwner(st, repl) ==
    LET requested == {m \in Members : repl[m] = 1}
        newly == requested \ {st.resident}
    IN IF st.resident = None
       THEN CASE st.pending # None -> st.pending
              [] st.pending = None /\ requested = {} -> Default
              [] st.pending = None /\ Default \in requested -> Default
              [] OTHER -> First(requested)
       ELSE CASE newly # {} -> IF st.pending \in newly THEN st.pending ELSE First(newly)
              [] newly = {} /\ st.pending # None -> st.pending
              [] OTHER -> st.resident

\* The runtime's idle probe: what it can answer for a member's server.
ProbeAnswers(m) ==
    IF pod[m] = "serving"
    THEN {IF load[m] = {} THEN "idle" ELSE "busy", "error"}
    ELSE {"refused", "error"}
\* memberIdleVerdict: a member has one Pod, so a refusal means idle.
Idles(answer) == answer \in {"idle", "refused"}

\* applyReclaimOwner: the owner and the idle clock, given the probe's answer.
ApplyReclaimOwner(owner, st, ready, answer) ==
    CASE ~Reclaim \/ Default = None \/ owner = None \/ owner # st.resident
           \/ st.resident = Default \/ ~ready[st.resident] -> <<owner, "unset">>
      [] OTHER ->
           CASE answer \in {"refused", "error"} -> <<owner, st.idle>>
             [] answer = "busy" -> <<owner, "unset">>
             [] answer = "idle" /\ st.idle = "unset" -> <<owner, "running">>
             [] answer = "idle" /\ st.idle = "running" -> <<owner, "running">>
             [] OTHER -> <<Default, "elapsed">>

\* Reconcile up to the drain loop.  Members and status come from the cache:
\* everything after this step acts on what it read here.
ReconcileBegin ==
    /\ rec.pc = "idle"
    /\ \E o \in {ResolveSlotOwner(status, replicas)} :
         \E answer \in IF o = None THEN {"refused"} ELSE ProbeAnswers(o) :
           \E d \in {ApplyReclaimOwner(o, status, phase, answer)} :
             /\ rec' = [NoReconcile EXCEPT
                          !.pc = "next", !.replicas = replicas, !.ready = phase,
                          !.owner = d[1], !.idle = d[2],
                          !.todo = Members \ {d[1]}]
             /\ disturbed' = (disturbed \/ d[1] # o)
    /\ UNCHANGED <<status, activatorVars, replicas, pod, phase, load, faults>>

\* The drain loop: list a non-owner's Pods and, if it reports Ready, ask for
\* its verdict.  A busy or unestablished one is left alone.  What was read of
\* a member is dropped when the loop has dealt with it: nobody reads it again.
ReconcileMember ==
    /\ rec.pc = "next" /\ rec.todo # {}
    /\ \E m \in {First(rec.todo)} :
         \/ /\ ~rec.ready[m] \/ \E answer \in ProbeAnswers(m) : Idles(answer)
            /\ rec' = [rec EXCEPT !.pc = "drain", !.member = m, !.gone = ~HasPod(m),
                                  !.ready = [@ EXCEPT ![m] = FALSE]]
         \/ /\ rec.ready[m] /\ \E answer \in ProbeAnswers(m) : ~Idles(answer)
            /\ rec' = [rec EXCEPT !.todo = @ \ {m}, !.clear = FALSE,
                                  !.ready = [@ EXCEPT ![m] = FALSE],
                                  !.replicas = [@ EXCEPT ![m] = 0]]
    /\ UNCHANGED <<status, activatorVars, memberVars>>

\* ensureReplicas patches when the count it read differs.
EnsureReplicas(m, desired) ==
    replicas' = IF rec.replicas[m] = desired THEN replicas
                ELSE [replicas EXCEPT ![m] = desired]

\* Mutant: the test whether Pods are left is turned round.
ReconcileDrainInverted ==
    /\ rec.pc = "drain"
    /\ EnsureReplicas(rec.member, 0)
    /\ rec' = [rec EXCEPT !.pc = "next", !.todo = @ \ {rec.member}, !.member = None,
                          !.clear = @ /\ ~rec.gone, !.gone = FALSE,
                          !.replicas = [@ EXCEPT ![rec.member] = 0]]
    /\ UNCHANGED <<status, activatorVars, pod, phase, load, faults, disturbed>>

ReconcileDrain ==
    /\ rec.pc = "drain"
    /\ EnsureReplicas(rec.member, 0)
    /\ rec' = [rec EXCEPT !.pc = "next", !.todo = @ \ {rec.member}, !.member = None,
                          !.clear = @ /\ rec.gone, !.gone = FALSE,
                          !.replicas = [@ EXCEPT ![rec.member] = 0]]
    /\ UNCHANGED <<status, activatorVars, pod, phase, load, faults, disturbed>>

\* The owner's replicas, then updateStatus.
ReconcileOwner ==
    /\ rec.pc = "next" /\ rec.todo = {}
    /\ IF rec.owner = None THEN UNCHANGED replicas
       ELSE EnsureReplicas(rec.owner, IF rec.clear THEN 1 ELSE 0)
    /\ status' =
         CASE rec.owner = None -> [resident |-> None, pending |-> None, idle |-> rec.idle]
           [] rec.owner # None /\ rec.ready[rec.owner] ->
                [resident |-> rec.owner, pending |-> None, idle |-> rec.idle]
           [] OTHER -> [status EXCEPT !.pending = rec.owner, !.idle = rec.idle]
    /\ rec' = NoReconcile
    /\ UNCHANGED <<activatorVars, pod, phase, load, faults, disturbed>>

\* A call of the reconcile fails, or the operator restarts: what was patched
\* so far stays and the next reconcile starts over.
ReconcileAbort ==
    /\ rec.pc # "idle"
    /\ Fault
    /\ rec' = NoReconcile
    /\ UNCHANGED <<status, activatorVars, replicas, pod, phase, load>>

\* reclaimAfter passes since the resident was first seen idle.
IdleElapses ==
    /\ status.idle = "running"
    /\ status' = [status EXCEPT !.idle = "elapsed"]
    /\ UNCHANGED <<rec, activatorVars, memberVars>>

----------------------------------------------------------------------------
Init ==
    /\ MembersInit /\ ActivatorInit
    /\ status = [resident |-> MemberSeq[1], pending |-> None, idle |-> "unset"]
    /\ rec = NoReconcile

ReconcileNext ==
    \/ ReconcileBegin \/ ReconcileMember \/ ReconcileDrain \/ ReconcileOwner
    \/ ReconcileAbort \/ IdleElapses

\* The cluster.  Loading a model is slow against a reconcile: a Pod becomes
\* ready between two of them, when the status of the member unloaded before
\* it has long been written.
ClusterNext ==
    /\ MembersNext
    /\ \A m \in Members : pod[m] = "loading" /\ pod'[m] = "serving"
          => rec.pc = "idle" /\ \A n \in Members \ {m} : ~phase[n]
    /\ UNCHANGED <<activatorVars, poolVars>>

Next ==
    \/ ClusterNext
    \/ ActivatorNext /\ UNCHANGED poolVars
    \/ ReconcileNext

Spec == Init /\ [][Next]_vars

----------------------------------------------------------------------------
PoolTypeOK == ActivatorTypeOK /\ status \in Status /\ rec \in Reconcile

\* Drain before swap: through the first swap of the proxy, as long as no call
\* has failed, no swap was abandoned and nothing was reclaimed, a member is
\* scaled to zero only when its server is idle, although the reconciler
\* probes it well before it patches it and the proxy keeps admitting requests.
DrainedIsIdle ==
    [][\A m \in Members :
          ~disturbed' /\ pr'.swapGen <= 1 /\ load[m] # {}
            => replicas'[m] >= replicas[m]]_vars
=============================================================================
