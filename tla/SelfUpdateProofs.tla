--------------------------- MODULE SelfUpdateProofs ---------------------------
(***************************************************************************)
(* Proofs about SelfUpdate for every set of versions, every number of      *)
(* retained ones and every number of updates, kills and failing calls: an  *)
(* agent can always be started, beats only as the installed version, and   *)
(* its install root behaves as ManagedAgent promises.                      *)
(***************************************************************************)
EXTENDS SelfUpdate, TLAPS

SelfSpec == SelfInit /\ [][SelfNext]_selfVars

Applying == {"stage", "chmod", "previous", "flip"}

\* The part of the types the arguments need.
SelfTypes ==
    /\ binary \in [Versions -> Binaries]
    /\ current \in Versions /\ previous \in Links
    /\ proc \in Process /\ request \in Links

\* Why an update may stop anywhere: until the flip the agent runs what current
\* names and works on another version, and it flips only to a finished one.
SelfInductive ==
    /\ SelfTypes
    /\ AlwaysStartable
    /\ proc.pc \in Applying \cup {"beat"} => proc.version = current
    /\ proc.pc \in Applying => proc.target \in Versions /\ proc.target # current
    /\ proc.pc \in {"previous", "flip"} => binary[proc.target] = "exec"

\* The installation by hand is a good one.
LEMMA SelfInductiveInit == SelfInit => SelfInductive
  BY SelfUpdateAssumption DEF SelfInit, SelfInductive, SelfTypes, AlwaysStartable, Applying,
     Binaries, Links, Process, Steps

\* Every call of MaybeApply, every error path and every kill between two of
\* them keeps the invariant.
LEMMA SelfInductiveStep == SelfInductive /\ [SelfNext]_selfVars => SelfInductive'
  <1> SUFFICES ASSUME SelfInductive, [SelfNext]_selfVars
               PROVE  SelfInductive'
    OBVIOUS
  <1> USE SelfUpdateAssumption
      DEF SelfInductive, SelfTypes, AlwaysStartable, Applying, Binaries, Links, Process, Steps,
          installRoot
  <1>1. CASE \E v \in Versions : Ask(v)
    BY <1>1 DEF Ask
  <1>2. CASE MaybeApply
    BY <1>2 DEF MaybeApply
  <1>3. CASE Stage
    BY <1>3 DEF Stage
  <1>4. CASE Chmod
    BY <1>4 DEF Chmod
  <1>5. CASE RecordPrevious
    BY <1>5 DEF RecordPrevious
  <1>6. CASE Flip
    BY <1>6 DEF Flip
  <1>7. CASE PruneOldVersions
    <2>1. PICK gone \in SUBSET Stale :
             binary' = [v \in Versions |-> IF v \in gone THEN "none" ELSE binary[v]]
      BY <1>7 DEF PruneOldVersions
    <2>2. current \notin gone /\ previous \notin gone
      BY <2>1 DEF Stale, Prunable
    <2> QED
      BY <1>7, <2>1, <2>2 DEF PruneOldVersions
  <1>8. CASE Fail
    BY <1>8 DEF Fail, Kill
  <1>9. CASE Exit
    BY <1>9 DEF Exit
  <1>10. CASE Killed
    BY <1>10 DEF Killed, Kill
  <1>11. CASE Relaunch
    BY <1>11 DEF Relaunch
  <1>12. CASE UNCHANGED selfVars
    BY <1>12 DEF selfVars
  <1> QED
    BY <1>1, <1>2, <1>3, <1>4, <1>5, <1>6, <1>7, <1>8, <1>9, <1>10, <1>11, <1>12
       DEF SelfNext, Apply

\* The invariant holds in every behaviour.
LEMMA SelfInvariance == SelfSpec => []SelfInductive
  BY SelfInductiveInit, SelfInductiveStep, PTL DEF SelfSpec

\* Whenever the agent is killed and whatever pruneOldVersions removes, current
\* leads to an executable and previous to a binary.
THEOREM Startable == SelfSpec => []AlwaysStartable
  <1>1. SelfInductive => AlwaysStartable
    BY DEF SelfInductive
  <1> QED
    BY <1>1, SelfInvariance, PTL

\* No heartbeat of an old version follows a flip.
THEOREM BeatsAsInstalled == SelfSpec => []NoBeatAfterFlip
  <1>1. SelfInductive => NoBeatAfterFlip
    BY DEF SelfInductive, NoBeatAfterFlip, Applying
  <1> QED
    BY <1>1, SelfInvariance, PTL

----------------------------------------------------------------------------
\* What ManagedAgent says of the steps of an agent.
ManagedSafely == Managed!AgentInit /\ [][Managed!AgentNext]_(Managed!agentVars)

\* An agent that updates itself starts as a managed one.
LEMMA ManagedInit == SelfInit => Managed!AgentInit
  BY SelfUpdateAssumption DEF SelfInit, Managed!AgentInit

\* Flip installs, Exit and Killed stop, Relaunch starts; the other calls are
\* invisible through the symlink.
LEMMA ManagedStep ==
    SelfInductive /\ SelfInductive' /\ [SelfNext]_selfVars
        => [Managed!AgentNext]_(Managed!agentVars)
  <1> SUFFICES ASSUME SelfInductive, SelfInductive', [SelfNext]_selfVars
               PROVE  [Managed!AgentNext]_(Managed!agentVars)
    OBVIOUS
  <1>a. /\ binary[current] = "exec" /\ binary'[current'] = "exec"
        /\ proc \in Process /\ current \in Versions
    BY DEF SelfInductive, SelfTypes, AlwaysStartable
  <1> USE <1>a DEF Managed!agentVars, installRoot
  <1>1. CASE \E v \in Versions : Ask(v)
    BY <1>1 DEF Ask
  <1>2. CASE MaybeApply
    BY <1>2 DEF MaybeApply, Process
  <1>3. CASE Stage
    BY <1>3 DEF Stage, Process
  <1>4. CASE Chmod
    BY <1>4 DEF Chmod, Process
  <1>5. CASE RecordPrevious
    BY <1>5 DEF RecordPrevious, Process
  <1>6. CASE Flip
    <2>1. proc.target \in Versions /\ proc.target # current /\ proc.version = current
      BY <1>6 DEF Flip, SelfInductive, Applying
    <2>2. Managed!Install(proc.target)
      BY <1>6, <2>1 DEF Flip, Process, Managed!Install
    <2> QED
      BY <2>1, <2>2 DEF Managed!AgentNext
  <1>7. CASE PruneOldVersions
    BY <1>7 DEF PruneOldVersions, Process
  <1>8. CASE Fail
    BY <1>8 DEF Fail, Process
  <1>9. CASE Exit \/ Killed
    <2>1. Managed!Stop
      BY <1>9 DEF Exit, Killed, Process, Managed!Stop
    <2> QED
      BY <2>1 DEF Managed!AgentNext
  <1>10. CASE Relaunch
    <2>1. Managed!Start
      BY <1>10 DEF Relaunch, Process, Managed!Start
    <2> QED
      BY <2>1 DEF Managed!AgentNext
  <1>11. CASE UNCHANGED selfVars
    BY <1>11 DEF selfVars
  <1> QED
    BY <1>1, <1>2, <1>3, <1>4, <1>5, <1>6, <1>7, <1>8, <1>9, <1>10, <1>11
       DEF SelfNext, Apply

\* Self-update implements the abstract agent the rollout relies on, as far as
\* safety goes: the version to start changes in one step, only under an agent
\* that runs the one before, and a stopped agent comes back with it.
THEOREM ImplementsManagedSafely == SelfSpec => ManagedSafely
  BY ManagedInit, ManagedStep, SelfInvariance, PTL DEF SelfSpec, ManagedSafely
=============================================================================
