------------------------------ MODULE Workload ------------------------------
(***************************************************************************)
(* One issue-batch Workload of Foreman: WorkloadReconciler.Reconcile       *)
(* renders the batch into AgenticTasks, retries an issue on a larger coder *)
(* or with the reviewers' findings, asks escalation reviewers, and rolls   *)
(* the children up into a phase.  The AgenticTask reconciler takes each    *)
(* child through its dependency ladder.  Both read the same informer       *)
(* cache of tasks; dispatching and executing a task is one abstract step   *)
(* here and is the subject of FleetDispatch.                               *)
(***************************************************************************)
EXTENDS Integers, FiniteSets, Sequences, SequencesExt

CONSTANTS
    NumIssues,              \* spec.issues
    NumReviewers,           \* spec.reviewerAgentRefs
    NumEscReviewers,        \* spec.escalationReviewerAgentRefs
    HasVerifier,            \* spec.verifierAgentRef is set
    HasEscCoder,            \* spec.escalationCoderAgentRef is set
    EscalateOnFailure,      \* spec.escalateOnFailure
    MaxReviewIterations,    \* spec.maxReviewIterations
    MaxTasks,               \* spec.maxTasks, 0 for no limit
    CloudAgents,            \* reviewers dropped by a closed sovereignty gate
    FailingSites,           \* where creating tasks may fail part-way
    Deletions,              \* what a user may delete: "child", "workload"
    MaxLag,                 \* bound: undelivered task events
    MaxFaults               \* bound: failures and deletions

Sites == {"render", "coder", "iterate", "escalate"}

ASSUME ConstantsAssumption ==
    /\ NumIssues \in Nat /\ NumReviewers \in Nat /\ NumEscReviewers \in Nat
    /\ HasVerifier \in BOOLEAN /\ HasEscCoder \in BOOLEAN
    /\ EscalateOnFailure \in BOOLEAN
    /\ MaxReviewIterations \in Nat /\ MaxTasks \in Nat
    /\ CloudAgents \subseteq {"review", "escalate"} \X Nat
    /\ FailingSites \subseteq Sites /\ Deletions \subseteq {"child", "workload"}
    /\ MaxLag \in Nat /\ MaxFaults \in Nat

(***************************************************************************)
(* A step is <<kind, issue, round, index>>.  Round 0 is the base attempt,  *)
(* k the fix iteration -r<k>, Esc the coder escalation -esc.               *)
(***************************************************************************)
Issues == 1..NumIssues
Esc == -1

Code(n, k) == <<"code", n, k, 0>>
Verify(n, k) == <<"verify", n, k, 0>>
Review(n, k, i) == <<"review", n, k, i>>
Reviews(n, k) == {Review(n, k, i) : i \in 1..NumReviewers}
Escalate(n, j) == <<"escalate", n, 0, j>>

KindOf(s) == s[1]
IssueOf(s) == s[2]
RoundOf(s) == s[3]

\* The steps of one attempt at an issue, in the order they are created.
\* The three places that emit an attempt give it the same shape.
Attempt(n, k) ==
    <<Code(n, k)>>
      \o (IF HasVerifier THEN <<Verify(n, k)>> ELSE <<>>)
      \o [i \in 1..NumReviewers |-> Review(n, k, i)]

AttemptSteps ==
    [n \in Issues, k \in Esc..MaxReviewIterations |->
        {Attempt(n, k)[i] : i \in DOMAIN Attempt(n, k)}]

DependsOn(s) ==
    LET n == IssueOf(s)
        k == RoundOf(s)
    IN CASE KindOf(s) = "verify" -> {Code(n, k)}
         [] KindOf(s) = "review" -> {IF HasVerifier THEN Verify(n, k) ELSE Code(n, k)}
         [] OTHER -> {}

\* The order of the loops that emit steps: by issue, by round, and within
\* an attempt dependencies first.
CreationOrder ==
    FlattenSeq([n \in Issues |->
        FlattenSeq([k \in 1..(MaxReviewIterations + 1) |-> Attempt(n, k - 1)])
          \o Attempt(n, Esc)
          \o [j \in 1..NumEscReviewers |-> Escalate(n, j)]])
Steps == {CreationOrder[i] : i \in DOMAIN CreationOrder}
InOrder(steps) == SelectSeq(CreationOrder, LAMBDA s : s \in steps)

(***************************************************************************)
(* The status of a task.  "go" is an on-target verdict (GO, GATE-PASS),    *)
(* "resolved" NO-GO with ALREADY-RESOLVED, "nogo" a NO-GO that can be      *)
(* retried (and a GATE-FAIL), "inert" a reviewer's NO-GO made by a rail    *)
(* without findings, "incomplete" a run that gave up, "error" any other    *)
(* terminal failure.  "pending" covers the empty phase of a new task.      *)
(***************************************************************************)
Results == {"go", "resolved", "nogo", "inert", "incomplete", "error", "skipped"}
Good == {"go", "resolved", "skipped"}
InFlight == {"pending", "running"}
Task == [st : Results \cup InFlight \cup {"absent"},
         contra : BOOLEAN,      \* extra.crossStageContradictions is not empty
         waiting : BOOLEAN]     \* the DepWaitStarted condition is recorded
Absent == [st |-> "absent", contra |-> FALSE, waiting |-> FALSE]
NewTask == [Absent EXCEPT !.st = "pending"]

\* What an execution of a step can report.
Outcomes(s) ==
    CASE KindOf(s) = "code" -> {"go", "resolved", "nogo", "incomplete", "error"}
      [] KindOf(s) = "verify" -> {"go", "nogo", "error"}
      [] OTHER -> {"go", "nogo", "inert", "error"}

Phases == {"", "Planning", "Planned", "Dispatched", "Completed", "Failed",
           "Rejected",  \* Failed by failWorkload, before any rollup
           "Gone"}

VARIABLES
    tasks,      \* the AgenticTasks in the API server
    cache,      \* the operator's informer cache of them
    feed,       \* task events on their way to the cache, in order
    wl,         \* the Workload: its phase and whether it is being deleted
    wlCache,    \* the cached Workload
    faults,     \* failures and deletions so far
    deleted     \* history: the issues a child of which was deleted by hand

vars == <<tasks, cache, feed, wl, wlCache, faults, deleted>>

Present(v, s) == v[s].st # "absent"
Terminal(v, s) == v[s].st \in Results

TypeOK ==
    /\ tasks \in [Steps -> Task]
    /\ cache \in [Steps -> Task]
    /\ feed \in Seq([step : Steps, task : Task])
    /\ wl \in [phase : Phases, deleting : BOOLEAN]
    /\ wlCache \in [phase : Phases, deleting : BOOLEAN]
    /\ faults \in 0..MaxFaults
    /\ deleted \subseteq Issues

Init ==
    /\ tasks = [s \in Steps |-> Absent]
    /\ cache = tasks
    /\ feed = <<>>
    /\ wl = [phase |-> "", deleting |-> FALSE]
    /\ wlCache = wl
    /\ faults = 0
    /\ deleted = {}

Fault == faults < MaxFaults /\ faults' = faults + 1

(***************************************************************************)
(* Which steps are due.  v is a view of the children: the cached list, and *)
(* placeholders for the tasks created earlier in the same reconcile.       *)
(***************************************************************************)
SynthesizeIssueBatch == InOrder(UNION {AttemptSteps[n, 0] : n \in Issues})

ChooseSteps ==
    {SynthesizeIssueBatch[i] : i \in
        {i \in DOMAIN SynthesizeIssueBatch : MaxTasks = 0 \/ i <= MaxTasks}}

Suppressed(s) == <<KindOf(s), s[4]>> \in CloudAgents
FilterCloudProviders(steps) == {s \in steps : ~Suppressed(s)}

\* shouldEscalateCoder and, by opt-in, shouldEscalateCoderOnFailure.
ShouldEscalateCoder(t) ==
    \/ t.st = "nogo"
    \/ EscalateOnFailure /\ t.st = "incomplete"

\* Mutant: a fix iteration's coder is taken for a base coder.
CoderEscalationStepsAnyRound(v) ==
    UNION {AttemptSteps[n, Esc] : n \in
        {n \in Issues : /\ HasEscCoder
                        /\ \E k \in 0..MaxReviewIterations : ShouldEscalateCoder(v[Code(n, k)])
                        /\ ~Present(v, Code(n, Esc))}}

CoderEscalationSteps(v) ==
    UNION {AttemptSteps[n, Esc] : n \in
        {n \in Issues : /\ HasEscCoder /\ ShouldEscalateCoder(v[Code(n, 0)])
                        /\ ~Present(v, Code(n, Esc))}}

\* Every review of the round is terminal and one is a NO-GO to act on.
NoGoReviewRound(v, n, k) ==
    /\ \A s \in Reviews(n, k) : v[s].st \notin InFlight
    /\ \E s \in Reviews(n, k) : v[s].st = "nogo"

\* Mutant: an iteration whose coder exists is taken to be complete.
ReviewIterationStepsByCoder(v) ==
    UNION {{s \in AttemptSteps[nk] : ~Present(v, s)} : nk \in
        {nk \in Issues \X (1..MaxReviewIterations) :
            /\ ~Present(v, Code(nk[1], nk[2]))
            /\ \A j \in 0..(nk[2] - 1) : NoGoReviewRound(v, nk[1], j)}}

\* Iteration k is due when rounds 0..k-1 were all rejected; of its steps
\* the missing ones are emitted.
ReviewIterationSteps(v) ==
    UNION {{s \in AttemptSteps[nk] : ~Present(v, s)} : nk \in
        {nk \in Issues \X (1..MaxReviewIterations) :
            \A j \in 0..(nk[2] - 1) : NoGoReviewRound(v, nk[1], j)}}

\* activeChildren: a later fix iteration or an escalated coder supersedes
\* the other attempts at the issue.
Superseded(v, s) ==
    /\ KindOf(s) # "escalate" /\ RoundOf(s) # Esc
    /\ \/ Present(v, Code(IssueOf(s), Esc))
       \/ \E k \in (RoundOf(s) + 1)..MaxReviewIterations :
             \E z \in AttemptSteps[IssueOf(s), k] : Present(v, z)

ActiveChildren(v) == [s \in Steps |-> IF Superseded(v, s) THEN Absent ELSE v[s]]

\* An inert NO-GO, too, is put before the escalation reviewers.
EscalationSteps(v) ==
    {e \in Steps :
        /\ KindOf(e) = "escalate" /\ ~Present(v, e)
        /\ \A k \in 0..MaxReviewIterations : \A s \in Reviews(IssueOf(e), k) :
              v[s].st \notin InFlight
        /\ \E k \in 0..MaxReviewIterations : \E s \in Reviews(IssueOf(e), k) :
              v[s].st \in {"nogo", "inert"}}

\* The common middle of the three emit functions: all the steps or, past
\* the cap, none; then the sovereignty gate.
Emit(v, steps) ==
    IF MaxTasks > 0 /\ Cardinality({s \in Steps : Present(v, s)}) + Cardinality(steps) > MaxTasks
      THEN {}
      ELSE FilterCloudProviders(steps)

\* Mutant: the rollup counts only what the cached list returned.
WithoutPlaceholders(v, steps) == v

\* The view with placeholders for the tasks just created.
WithPlaceholders(v, steps) ==
    [s \in Steps |-> IF s \in steps /\ ~Present(v, s) THEN NewTask ELSE v[s]]

\* Mutant: an AgenticTask phase where a Workload phase belongs.
ComputeTerminalStateTaskPhase(v) ==
    LET children == {s \in Steps : Present(v, s)}
    IN CASE \E s \in children : v[s].st \in InFlight -> "Running"
         [] \A s \in children : v[s].st \in Good -> "Completed"
         [] OTHER -> "Failed"

\* classifyChildren and computeTerminalState.
ComputeTerminalState(v) ==
    LET children == {s \in Steps : Present(v, s)}
    IN CASE \E s \in children : v[s].st \in InFlight -> "Dispatched"
         [] \A s \in children : v[s].st \in Good -> "Completed"
         [] OTHER -> "Failed"

(***************************************************************************)
(* Writes.  A status patch carries the phase p only if it differs from the *)
(* one of the copy it is computed from, and fails once the Workload is     *)
(* gone.  That copy is the cached one, or the answer to an earlier status  *)
(* patch of the same reconcile.                                            *)
(***************************************************************************)
Shown(p) == IF p = "Rejected" THEN "Failed" ELSE p

PatchPhase(copy, p) ==
    wl' = IF wl.phase = "Gone" \/ Shown(p) = Shown(copy) THEN wl ELSE [wl EXCEPT !.phase = p]

\* renderAndCreate: a task that exists already is left alone.
Create(steps) ==
    \E new \in {InOrder({s \in steps : ~Present(tasks, s)})} :
        /\ Len(feed) + Len(new) <= MaxLag
        /\ tasks' = [s \in Steps |-> IF s \in steps /\ ~Present(tasks, s)
                                      THEN NewTask ELSE tasks[s]]
        /\ feed' = feed \o [i \in DOMAIN new |-> [step |-> new[i], task |-> NewTask]]

\* The first j of some steps: renderAndCreate stopped by an error or a crash.
First(j, steps) == {InOrder(steps)[i] : i \in 1..j}

PatchTask(s, t) ==
    /\ Len(feed) < MaxLag
    /\ tasks' = [tasks EXCEPT ![s] = t]
    /\ feed' = Append(feed, [step |-> s, task |-> t])

(***************************************************************************)
(* WorkloadReconciler.Reconcile.                                           *)
(***************************************************************************)
\* Mutant: a Workload that is being deleted is reconciled as well (#949).
ReconcilingDeleted == wlCache.phase # "Gone"

\* The Workload is in the cache and not being deleted there.
Reconciling == wlCache.phase # "Gone" /\ ~wlCache.deleting
HasChildren == \E s \in Steps : Present(cache, s)

RenderedSteps == FilterCloudProviders(ChooseSteps)

ReconcileRender ==
    /\ Reconciling /\ ~HasChildren
    /\ Create(RenderedSteps)
    /\ PatchPhase(wlCache.phase, "Planned")
    /\ UNCHANGED <<cache, wlCache, faults, deleted>>

\* A create fails, the operator dies, or the status patch fails: the phase
\* stays at Planning.
ReconcileRenderError ==
    /\ Reconciling /\ ~HasChildren /\ "render" \in FailingSites /\ Fault
    /\ \E j \in 0..Cardinality(RenderedSteps) : Create(First(j, RenderedSteps))
    /\ IF wlCache.phase \in {"Planning", "Planned", "Dispatched"}
         THEN UNCHANGED wl
         ELSE PatchPhase(wlCache.phase, "Planning")
    /\ UNCHANGED <<cache, wlCache, deleted>>

\* Admission refuses a task as invalid: failWorkload, after markPlanning.
ReconcileRenderInvalid ==
    /\ Reconciling /\ ~HasChildren /\ "render" \in FailingSites /\ Fault
    /\ \E j \in 0..(Cardinality(RenderedSteps) - 1) : Create(First(j, RenderedSteps))
    /\ PatchPhase("Planning", "Rejected")
    /\ UNCHANGED <<cache, wlCache, deleted>>

\* An emission that fails part-way, or after its last create, ends the
\* reconcile; done are the tasks of the earlier emissions.
EmissionFails(site, done, steps) ==
    /\ site \in FailingSites /\ steps # {} /\ Fault
    /\ \E j \in 0..Cardinality(steps) :
          Create(done \cup First(j, steps))
    /\ UNCHANGED wl

\* The children-exist branch: three emissions, each on the view that the
\* earlier ones left, then the rollup.  An emission patches conditions, also
\* when it is cut to nothing, so the rollup may start from a fresh copy.
ReconcileChildren ==
    /\ Reconciling /\ HasChildren
    /\ \E coder \in {Emit(cache, CoderEscalationSteps(cache))} :
       \E v1 \in {WithPlaceholders(cache, coder)} :
       \E iterate \in {Emit(v1, ReviewIterationSteps(v1))} :
       \E v2 \in {WithPlaceholders(v1, iterate)} :
       \E active \in {ActiveChildren(v2)} :
       \E escalate \in {Emit(active, EscalationSteps(active))} :
       \E final \in {WithPlaceholders(active, escalate)} :
          \/ /\ Create(coder \cup iterate \cup escalate)
             /\ \E copy \in IF coder \cup iterate \cup escalate = {}
                              THEN {wl.phase, wlCache.phase} ELSE {wl.phase} :
                   PatchPhase(copy, ComputeTerminalState(final))
             /\ UNCHANGED faults
          \/ EmissionFails("coder", {}, coder)
          \/ EmissionFails("iterate", coder, iterate)
          \/ EmissionFails("escalate", coder \cup iterate, escalate)
    /\ UNCHANGED <<cache, wlCache, deleted>>

(***************************************************************************)
(* AgenticTaskReconciler.Reconcile, the dependency ladder of a Pending     *)
(* task.  The scheduler has seen its own last write to the task.           *)
(***************************************************************************)
Reconcilable(s) ==
    /\ cache[s].st = "pending"
    /\ \A i \in DOMAIN feed : feed[i].step # s

Resolved(d) == cache[d].st \in {"resolved", "skipped"}
\* Mutant: contradictions are recorded and not acted upon.
ContradictedIgnored(d) == FALSE
Contradicted(d) == cache[d].contra
Missing(d) == ~Present(cache, d)
\* Mutant: only a dependency with phase Failed fails its dependents (#541).
FailedDepByPhase(d) == cache[d].st = "error"
FailedDep(d) == Terminal(cache, d) /\ cache[d].st # "go"

SkipTask(s) ==
    /\ Reconcilable(s)
    /\ \E d \in DependsOn(s) : Resolved(d) \/ Contradicted(d)
    /\ PatchTask(s, [cache[s] EXCEPT !.st = "skipped"])
    /\ UNCHANGED <<cache, wl, wlCache, faults, deleted>>

NotSkipped(s) == \A d \in DependsOn(s) : ~Resolved(d) /\ ~Contradicted(d)

\* Mutant: an absent dependency is waited for without a limit (#1687).
FailTaskWaitsForever(s) ==
    /\ Reconcilable(s) /\ NotSkipped(s)
    /\ \E d \in DependsOn(s) : FailedDep(d)
    /\ PatchTask(s, [cache[s] EXCEPT !.st = "error"])
    /\ UNCHANGED <<cache, wl, wlCache, faults, deleted>>

\* A dependency is absent and the wait recorded for it has expired, or a
\* dependency ended without success.
FailTask(s) ==
    /\ Reconcilable(s) /\ NotSkipped(s)
    /\ \E d \in DependsOn(s) : (Missing(d) /\ cache[s].waiting) \/ FailedDep(d)
    /\ PatchTask(s, [cache[s] EXCEPT !.st = "error"])
    /\ UNCHANGED <<cache, wl, wlCache, faults, deleted>>

RecordMissingDep(s) ==
    /\ Reconcilable(s) /\ NotSkipped(s)
    /\ \A d \in DependsOn(s) : ~FailedDep(d)
    /\ \E d \in DependsOn(s) : Missing(d)
    /\ ~cache[s].waiting
    /\ PatchTask(s, [cache[s] EXCEPT !.waiting = TRUE])
    /\ UNCHANGED <<cache, wl, wlCache, faults, deleted>>

\* Mutant: any dependency with phase Succeeded will do (#541).
AllDepsSucceededByPhase(s) ==
    \A d \in DependsOn(s) : Terminal(cache, d) /\ cache[d].st # "error"
AllDepsSucceeded(s) == \A d \in DependsOn(s) : cache[d].st = "go"

\* The rest of the ladder and the claim: FleetDispatch.
Dispatch(s) ==
    /\ Reconcilable(s) /\ NotSkipped(s) /\ AllDepsSucceeded(s)
    /\ PatchTask(s, [cache[s] EXCEPT !.st = "running"])
    /\ UNCHANGED <<cache, wl, wlCache, faults, deleted>>

\* An agent writes the outcome of a task.
Finish(s) ==
    /\ tasks[s].st = "running"
    /\ \E r \in Outcomes(s), c \in BOOLEAN :
          /\ c => KindOf(s) \in {"code", "verify"}
          /\ PatchTask(s, [tasks[s] EXCEPT !.st = r, !.contra = c])
    /\ UNCHANGED <<cache, wl, wlCache, faults, deleted>>

(***************************************************************************)
(* The API server: watches, deletion of a child by hand, and foreground    *)
(* deletion of the Workload.                                               *)
(***************************************************************************)
DeliverTask ==
    /\ feed # <<>>
    /\ cache' = [cache EXCEPT ![Head(feed).step] = Head(feed).task]
    /\ feed' = Tail(feed)
    /\ UNCHANGED <<tasks, wl, wlCache, faults, deleted>>

RefreshWorkload ==
    /\ wlCache' = wl
    /\ UNCHANGED <<tasks, cache, feed, wl, faults, deleted>>

DeleteTask(s) ==
    /\ "child" \in Deletions /\ Present(tasks, s) /\ Fault
    /\ PatchTask(s, Absent)
    /\ deleted' = deleted \cup {IssueOf(s)}
    /\ UNCHANGED <<cache, wl, wlCache>>

DeleteWorkload ==
    /\ "workload" \in Deletions /\ ~wl.deleting /\ Fault
    /\ wl' = [wl EXCEPT !.deleting = TRUE]
    /\ UNCHANGED <<tasks, cache, feed, wlCache, deleted>>

GarbageCollect(s) ==
    /\ wl.deleting /\ Present(tasks, s)
    /\ PatchTask(s, Absent)
    /\ UNCHANGED <<cache, wl, wlCache, faults, deleted>>

RemoveWorkload ==
    /\ wl.deleting /\ \A s \in Steps : ~Present(tasks, s)
    /\ wl' = [wl EXCEPT !.phase = "Gone"]
    /\ UNCHANGED <<tasks, cache, feed, wlCache, faults, deleted>>

Ladder(s) == SkipTask(s) \/ FailTask(s) \/ RecordMissingDep(s) \/ Dispatch(s)

Next ==
    \/ ReconcileRender \/ ReconcileRenderError \/ ReconcileRenderInvalid
    \/ ReconcileChildren
    \/ \E s \in Steps : Ladder(s) \/ Finish(s) \/ DeleteTask(s) \/ GarbageCollect(s)
    \/ DeliverTask \/ RefreshWorkload
    \/ DeleteWorkload \/ RemoveWorkload

Spec == Init /\ [][Next]_vars

\* Reconciles are triggered by the watches and retried on errors, watches
\* deliver, executions end, and the garbage collector keeps working.
FairSpec ==
    /\ Spec
    /\ WF_vars(ReconcileRender) /\ WF_vars(ReconcileChildren)
    /\ WF_vars(\E s \in Steps : Ladder(s))
    /\ WF_vars(\E s \in Steps : Finish(s))
    /\ WF_vars(DeliverTask) /\ WF_vars(RefreshWorkload)
    /\ WF_vars(\E s \in Steps : GarbageCollect(s)) /\ WF_vars(RemoveWorkload)

(***************************************************************************)
(* Properties.                                                             *)
(***************************************************************************)
\* The attempt that decides an issue: what activeChildren keeps.
LatestAttempt(n) ==
    IF Present(tasks, Code(n, Esc))
      THEN Esc
      ELSE CHOOSE k \in 0..MaxReviewIterations :
              /\ k = 0 \/ \E s \in AttemptSteps[n, k] : Present(tasks, s)
              /\ \A j \in (k + 1)..MaxReviewIterations :
                    \A s \in AttemptSteps[n, j] : ~Present(tasks, s)

PlannedFor(n, k) == FilterCloudProviders(AttemptSteps[n, k])

\* A Workload reported Completed is done in fact: whatever the rollup saw of
\* the children through the cache, every task of the deciding attempt at an
\* issue ended well, and a fix iteration cut short by a failed create was
\* completed first ("a partial create failure is repaired on the next
\* reconcile", reviewIterationSteps).  Issues whose tasks were deleted by
\* hand are excepted.
CompletedIsDone ==
    wl.phase = "Completed" /\ ~wl.deleting =>
        \A n \in Issues \ deleted :
            LET k == LatestAttempt(n)
            IN \A s \in PlannedFor(n, k) :
                  \/ tasks[s].st \in Good
                  \/ tasks[s].st = "absent" /\ k \in {0, Esc}

\* The two ways to retry an issue exclude one another, as Reconcile's
\* comment claims: a coder that was escalated has no fix iteration.
RetriesExclude ==
    \A n \in Issues : \A k \in 1..MaxReviewIterations :
        ~(Present(tasks, Code(n, Esc)) /\ Present(tasks, Code(n, k)))

\* What activeChildren hides from the rollup never executes: a task still
\* pending in a superseded attempt ends in the dependency ladder.
SupersededNeverRuns ==
    \A s \in Steps : Superseded(tasks, s) => tasks[s].st # "running"

\* A task executes only on dependencies that succeeded without a
\* contradiction, although the ladder reads them from the cache.
RunsOnGoodDeps ==
    \A s \in Steps : tasks[s].st = "running" /\ IssueOf(s) \notin deleted =>
        \A d \in DependsOn(s) : wl.deleting \/ (tasks[d].st = "go" /\ ~tasks[d].contra)

\* A phase reached by the rollup is final: no later reconcile, on however
\* stale a list, reopens the Workload.  Children deleted by hand may.
TerminalStays ==
    [][wl.phase \in {"Completed", "Failed"} /\ deleted = {} /\ ~wl.deleting =>
          wl'.phase \in {wl.phase, "Gone"}]_vars

\* Every Workload ends, and stays, in a terminal phase (or is deleted),
\* whatever its tasks report, however often creating them fails and
\* whichever of them are deleted.
WorkloadSettles == <>[](wl.phase \in {"Completed", "Failed", "Rejected", "Gone"})

\* Foreground deletion finishes: children are not rendered again while the
\* garbage collector removes them (#949).
DeletionFinishes ==
    wl.deleting ~> [](wl.phase = "Gone" /\ \A s \in Steps : ~Present(tasks, s))

\* What the comments on Reconcile ("a retry on the next reconcile picks up
\* where this one left off") and on coderEscalationSteps ("a partial create
\* failure is repaired on the next reconcile") say: a Workload is Completed
\* only when every task planned for the deciding attempt exists.
PlanCarriedOut ==
    wl.phase = "Completed" /\ ~wl.deleting =>
        \A n \in Issues \ deleted :
            \A s \in PlannedFor(n, LatestAttempt(n)) : Present(tasks, s)
=============================================================================
