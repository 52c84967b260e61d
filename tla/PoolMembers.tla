----------------------------- MODULE PoolMembers -----------------------------
(***************************************************************************)
(* The members of one ModelPool as the cluster sees them: the replica      *)
(* count of each member InferenceService, its Pod on the shared device and *)
(* the phase the InferenceService reconciler publishes.  The router-proxy  *)
(* (Activator) and the ModelPoolReconciler (ModelPool) act on this state.  *)
(***************************************************************************)
EXTENDS Integers, FiniteSets, Sequences

CONSTANTS
    MemberSeq,      \* spec.members, in declaration order
    Requests,       \* client requests, each sent any number of times
    MaxFaults       \* bound: crashes, restarts and failing calls

Members == {MemberSeq[i] : i \in DOMAIN MemberSeq}
None == "none"

ASSUME MembersAssumption ==
    /\ MemberSeq \in Seq(STRING) /\ MemberSeq # <<>> /\ None \notin Members
    /\ IsFiniteSet(Requests) /\ MaxFaults \in Nat

VARIABLES
    replicas,   \* spec.replicas of each member
    pod,        \* the member's Pod
    phase,      \* status.phase: TRUE when it is Ready
    load,       \* the requests the member's server is working on
    faults,     \* faults so far
    disturbed   \* history: a fault, an abandoned swap or a reclaim happened

memberVars == <<replicas, pod, phase, load, faults, disturbed>>

PodStates == {"none", "loading", "serving", "terminating"}
\* A Deployment at one replica has a Pod, if only a pending one.
HasPod(m) == pod[m] # "none" \/ replicas[m] = 1

Fault == faults < MaxFaults /\ faults' = faults + 1 /\ disturbed' = TRUE

\* Deployment, scheduler, kubelet and server.  The device admits one Pod at
\* a time; a member scaled to zero unloads, whatever it is serving.
PodProgress(m) ==
    /\ \/ /\ pod[m] = "none" /\ replicas[m] = 1 /\ \A n \in Members : pod[n] = "none"
          /\ pod' = [pod EXCEPT ![m] = "loading"]
       \/ /\ pod[m] = "loading"
          /\ pod' = [pod EXCEPT ![m] = "serving"]
       \/ /\ pod[m] \in {"loading", "serving"} /\ replicas[m] = 0
          /\ pod' = [pod EXCEPT ![m] = "terminating"]
       \/ /\ pod[m] = "terminating"
          /\ pod' = [pod EXCEPT ![m] = "none"]
    /\ load' = IF pod'[m] = "none" THEN [load EXCEPT ![m] = {}] ELSE load
    /\ UNCHANGED <<replicas, phase, faults, disturbed>>

\* A serving Pod loses its process out of band (OOM kill, node drain).
PodCrash(m) ==
    /\ pod[m] = "serving"
    /\ Fault
    /\ pod' = [pod EXCEPT ![m] = "loading"]
    /\ load' = [load EXCEPT ![m] = {}]
    /\ UNCHANGED <<replicas, phase>>

\* The status the InferenceService reconciler writes: Ready when the one
\* desired replica is ready.
DeterminePhase(m) ==
    /\ phase' = [phase EXCEPT ![m] = replicas[m] = 1 /\ pod[m] = "serving"]
    /\ phase' # phase
    /\ UNCHANGED <<replicas, pod, load, faults, disturbed>>

MembersInit ==
    /\ replicas = [m \in Members |-> IF m = MemberSeq[1] THEN 1 ELSE 0]
    /\ pod = [m \in Members |-> IF m = MemberSeq[1] THEN "serving" ELSE "none"]
    /\ phase = [m \in Members |-> m = MemberSeq[1]]
    /\ load = [m \in Members |-> {}]
    /\ faults = 0 /\ disturbed = FALSE

MembersNext ==
    \E m \in Members :
        PodProgress(m) \/ PodCrash(m) \/ DeterminePhase(m)

MembersTypeOK ==
    /\ replicas \in [Members -> {0, 1}] /\ pod \in [Members -> PodStates]
    /\ phase \in [Members -> BOOLEAN] /\ load \in [Members -> SUBSET Requests]
    /\ faults \in 0..MaxFaults /\ disturbed \in BOOLEAN
=============================================================================
