------------------------------ MODULE SelfUpdate ------------------------------
(***************************************************************************)
(* pkg/selfupdate/updater.go under the heartbeat loop of the agent: an     *)
(* update is downloaded, verified, staged under versions/<v>, and becomes  *)
(* the one the supervisor starts when the symlink current is renamed over. *)
(* One step is one call that changes the install root; the agent may be    *)
(* killed between any two of them.                                         *)
(***************************************************************************)
EXTENDS Integers, FiniteSets, Sequences, SequencesExt, FiniteSetsExt

CONSTANTS
    Versions,           \* version strings
    FirstVersion,       \* the one installed by hand
    RetainVersions,     \* staged versions kept besides current and previous
    MaxUpdates,         \* bound: update requests
    MaxKills            \* bound: kills of the agent and failing calls

NoVersion == "none"

ASSUME SelfUpdateAssumption ==
    /\ FirstVersion \in Versions /\ NoVersion \notin Versions
    /\ RetainVersions \in Nat \ {0} /\ MaxUpdates \in Nat /\ MaxKills \in Nat

VARIABLES
    binary,     \* versions/<v>/<binary> of each version
    dirs,       \* the version directories, oldest mtime first
    current,    \* the version the symlink current points at
    previous,   \* the version the symlink previous points at
    proc,       \* the agent process
    request,    \* the version FleetNode.status.updateRequest asks for
    updates,    \* requests so far
    kills       \* kills so far

installRoot == <<binary, dirs, current, previous>>
selfVars == <<installRoot, proc, request, updates, kills>>

\* A binary is missing, there but not executable, or good.
Binaries == {"none", "plain", "exec"}
Links == Versions \cup {NoVersion}
Steps == {"down", "beat", "stage", "chmod", "previous", "flip", "prune", "exit"}
Process == [pc : Steps, version : Versions, target : Links]

Touch(v) == Append(SelectSeq(dirs, LAMBDA w : w # v), v)

Kill == kills < MaxKills /\ kills' = kills + 1

----------------------------------------------------------------------------
\* The operator asks for a version.
Ask(v) ==
    /\ updates < MaxUpdates /\ v # request
    /\ request' = v
    /\ updates' = updates + 1
    /\ UNCHANGED <<installRoot, proc, kills>>

\* Mutant: an absent request is not told from one for another version.
MaybeApplyNothing ==
    /\ proc.pc = "beat"
    /\ request # proc.version
    /\ proc' = [proc EXCEPT !.pc = "stage", !.target = request]
    /\ UNCHANGED <<installRoot, request, updates, kills>>

\* Mutant: a version that is staged already is taken for applied.
MaybeApplyOnce ==
    /\ proc.pc = "beat"
    /\ request \notin {NoVersion, proc.version} /\ binary[request] = "none"
    /\ proc' = [proc EXCEPT !.pc = "stage", !.target = request]
    /\ UNCHANGED <<installRoot, request, updates, kills>>

\* A heartbeat saw a request: MaybeApply downloads and verifies, or gives up
\* (a failed download, a wrong digest) and leaves the install root alone.
MaybeApply ==
    /\ proc.pc = "beat"
    /\ request \notin {NoVersion, proc.version}
    /\ proc' = [proc EXCEPT !.pc = "stage", !.target = request]
    /\ UNCHANGED <<installRoot, request, updates, kills>>

\* An error path: the rest of MaybeApply is skipped, the next beat retries.
Fail ==
    /\ proc.pc \in {"stage", "chmod", "previous", "flip"}
    /\ Kill
    /\ proc' = [proc EXCEPT !.pc = "beat", !.target = NoVersion]
    /\ UNCHANGED <<installRoot, request, updates>>

\* The verified file is renamed to versions/<v>/<binary>, not yet executable.
Stage ==
    /\ proc.pc = "stage"
    /\ binary' = [binary EXCEPT ![proc.target] = "plain"]
    /\ dirs' = Touch(proc.target)
    /\ proc' = [proc EXCEPT !.pc = "chmod"]
    /\ UNCHANGED <<current, previous, request, updates, kills>>

Chmod ==
    /\ proc.pc = "chmod"
    /\ binary' = [binary EXCEPT ![proc.target] = "exec"]
    /\ proc' = [proc EXCEPT !.pc = "previous"]
    /\ UNCHANGED <<dirs, current, previous, request, updates, kills>>

\* previous.tmp is renamed over previous.
RecordPrevious ==
    /\ proc.pc = "previous"
    /\ previous' = current
    /\ proc' = [proc EXCEPT !.pc = "flip"]
    /\ UNCHANGED <<binary, dirs, current, request, updates, kills>>

\* current.tmp is renamed over current.
Flip ==
    /\ proc.pc = "flip"
    /\ current' = proc.target
    /\ proc' = [proc EXCEPT !.pc = "prune"]
    /\ UNCHANGED <<binary, dirs, previous, request, updates, kills>>

\* Mutant: pruning does not spare previous.
PrunableButCurrent == {v \in Range(dirs) : v # current}

\* pruneOldVersions: current, previous and the newest of the others stay.
\* A removal that fails is only logged.
Prunable == {v \in Range(dirs) : v \notin {current, previous}}
Newer(v) == {w \in Prunable : \E i, j \in DOMAIN dirs : i > j /\ dirs[i] = w /\ dirs[j] = v}
Stale == {v \in Prunable : Cardinality(Newer(v)) >= RetainVersions}

PruneOldVersions ==
    /\ proc.pc = "prune"
    /\ \E gone \in SUBSET Stale :
         /\ gone # Stale => kills < MaxKills
         /\ kills' = IF gone = Stale THEN kills ELSE kills + 1
         /\ binary' = [v \in Versions |-> IF v \in gone THEN "none" ELSE binary[v]]
         /\ dirs' = SelectSeq(dirs, LAMBDA v : v \notin gone)
    /\ proc' = [proc EXCEPT !.pc = "exit", !.target = NoVersion]
    /\ UNCHANGED <<current, previous, request, updates>>

\* Mutant: the agent executes the new binary itself.
ExitInPlace ==
    /\ proc.pc = "exit"
    /\ proc' = [proc EXCEPT !.pc = "beat", !.version = current]
    /\ UNCHANGED <<installRoot, request, updates, kills>>

\* Restarting is TRUE: the agent drains and exits.
Exit ==
    /\ proc.pc = "exit"
    /\ proc' = [proc EXCEPT !.pc = "down"]
    /\ UNCHANGED <<installRoot, request, updates, kills>>

Killed ==
    /\ proc.pc # "down"
    /\ Kill
    /\ proc' = [proc EXCEPT !.pc = "down", !.target = NoVersion]
    /\ UNCHANGED <<installRoot, request, updates>>

\* The supervisor runs <root>/current/<binary>.
Relaunch ==
    /\ proc.pc = "down"
    /\ binary[current] = "exec"
    /\ proc' = [proc EXCEPT !.pc = "beat", !.version = current]
    /\ UNCHANGED <<installRoot, request, updates, kills>>

----------------------------------------------------------------------------
SelfInit ==
    /\ binary = [v \in Versions |-> IF v = FirstVersion THEN "exec" ELSE "none"]
    /\ dirs = <<FirstVersion>> /\ current = FirstVersion /\ previous = NoVersion
    /\ proc = [pc |-> "beat", version |-> FirstVersion, target |-> NoVersion]
    /\ request = NoVersion /\ updates = 0 /\ kills = 0

Apply == MaybeApply \/ Stage \/ Chmod \/ RecordPrevious \/ Flip \/ PruneOldVersions
SelfNext ==
    \/ \E v \in Versions : Ask(v)
    \/ Apply \/ Fail \/ Exit \/ Killed \/ Relaunch

\* The agent beats and works on, and the supervisor keeps it alive.
SelfFairness == WF_selfVars(Apply \/ Exit \/ Relaunch)

----------------------------------------------------------------------------
SelfTypeOK ==
    /\ binary \in [Versions -> Binaries] /\ dirs \in Seq(Versions)
    /\ current \in Versions /\ previous \in Links
    /\ proc \in Process /\ request \in Links
    /\ updates \in 0..MaxUpdates /\ kills \in 0..MaxKills

\* Whenever the agent is killed, and whatever is pruned, the supervisor finds
\* an executable to start through current, and previous is there to go back to.
AlwaysStartable ==
    /\ binary[current] = "exec"
    /\ previous # NoVersion => binary[previous] # "none"

\* An agent that beats runs the version current points at: a finished flip is
\* followed by an exit, so no Ready beat of the old version comes after it.
NoBeatAfterFlip == proc.pc = "beat" => proc.version = current

\* The install root, through the symlink the supervisor follows, behaves as
\* ManagedAgent promises, kills and pruning included.
Managed == INSTANCE ManagedAgent WITH
    Releases <- Versions, Initial <- FirstVersion,
    up <- proc.pc # "down", running <- proc.version,
    installed <- IF binary[current] = "exec" THEN current ELSE NoVersion
ImplementsManagedAgent == Managed!AgentSpec

\* A request that stands is carried out: the agent ends up running it.
RequestArrives ==
    \A v \in Versions : <>[](request = v) => <>[](proc.version = v)
=============================================================================
