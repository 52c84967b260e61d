------------------------------ MODULE Activator ------------------------------
(***************************************************************************)
(* internal/router/activator.go: the router-proxy's swap policy for one    *)
(* ModelPool.  A request for the resident member joins it; a request for   *)
(* another member is held until the resident is idle and a background      *)
(* goroutine has swapped the slot.  Every step below is one critical       *)
(* section of Activator.mu, one API call, or one step of a client.         *)
(***************************************************************************)
EXTENDS PoolMembers

CONSTANTS
    Target,         \* the member a request is for
    IfIdle,         \* requests a rule may route with poolActivation IfIdle
    Budgets,        \* bounds: swaps started, and how often a request is sent
    MaxGoroutines   \* bound: pending deactivateIfUnwanted goroutines

ASSUME ActivatorAssumption ==
    /\ Target \in [Requests -> Members] /\ IfIdle \subseteq Requests
    /\ \A b \in Budgets : b \in [swaps : Nat, sends : [Requests -> Nat]]
    /\ MaxGoroutines \in Nat

VARIABLES
    pr,         \* poolRuntime
    swap,       \* the goroutine of startSwap: its step
    unwanted,   \* pending deactivateIfUnwanted goroutines per member
    req,        \* the requests: where AcquireWithMode stands
    left        \* what is left of the budget

activatorVars == <<pr, swap, unwanted, req, left>>

PoolRuntime ==
    [resident : Members \cup {None},
     checked : BOOLEAN,             \* residentCheckedAt is not zero
     swapping : BOOLEAN,
     swapTarget : Members \cup {None},
     swapGen : Nat,
     swapErr : [Members -> Nat],   \* generation of the last failure, 0: none
     inflight : [Members -> Int],
     waiting : [Members -> Int]]

SwapSteps == {"none", "activate", "waitReady", "ready", "deadline", "error"}
PCs == {"idle", "waiting", "leaving", "dispatched"}
AcquireResults == {"none", "acquired", "swapFailed", "incumbentBusy", "holdExceeded"}
Request ==
    [pc : PCs,
     arrivalGen : Nat,
     woken : BOOLEAN,       \* the change channel the request waits on is closed
     result : AcquireResults,
     ifIdle : BOOLEAN]      \* mode is IfIdle

ColdRuntime ==
    [resident |-> None, checked |-> FALSE, swapping |-> FALSE, swapTarget |-> None,
     swapGen |-> 0, swapErr |-> [m \in Members |-> 0],
     inflight |-> [m \in Members |-> 0], waiting |-> [m \in Members |-> 0]]
NewRequest ==
    [pc |-> "idle", arrivalGen |-> 0, woken |-> FALSE, result |-> "none",
     ifIdle |-> FALSE]

\* notify: every request that waits re-evaluates the pool.
Notify(rs) == [r \in Requests |-> [rs[r] EXCEPT !.woken = rs[r].pc = "waiting"]]

----------------------------------------------------------------------------
\* reconcileResident: what the belief may become.  Phase is a live read.
FirstReady ==
    IF \E m \in Members : phase[m]
    THEN MemberSeq[CHOOSE i \in DOMAIN MemberSeq :
             phase[MemberSeq[i]] /\ \A j \in 1..(i - 1) : ~phase[MemberSeq[j]]]
    ELSE None

\* A belief checked before is trusted until resyncInterval has passed, and
\* at any arrival it may have.
ReconcileResident(p) ==
    (IF p.swapping \/ p.checked THEN {p} ELSE {})
      \cup (IF p.swapping THEN {}
            ELSE {[p EXCEPT !.checked = TRUE,
                            !.resident = IF @ # None /\ phase[@] THEN @ ELSE FirstReady]})

\* A phase read fails: the belief is kept, or dropped once it proved stale.
ReconcileFails(p) ==
    {[p EXCEPT !.checked = TRUE, !.resident = m] :
        m \in IF p.resident # None /\ ~phase[p.resident]
              THEN {p.resident, None} ELSE {p.resident}}

----------------------------------------------------------------------------
\* The body of AcquireWithMode's loop, run under the lock by request r in
\* runtime p, rs being the requests.  It returns, or waits for a change.
Return(r, p, rs, res) ==
    /\ pr' = p
    /\ req' = [rs EXCEPT ![r] = [@ EXCEPT !.pc = "leaving", !.result = res, !.woken = FALSE]]
    /\ UNCHANGED swap

Hold(r, p, rs) ==
    /\ pr' = p
    /\ req' = [rs EXCEPT ![r] = [@ EXCEPT !.pc = "waiting", !.woken = FALSE]]
    /\ UNCHANGED swap

\* The caller takes its channel after startSwap has notified: it is not woken.
StartSwap(r, p, rs) ==
    /\ left.swaps > 0
    /\ pr' = [p EXCEPT !.swapping = TRUE, !.swapTarget = Target[r], !.swapGen = @ + 1]
    /\ req' = [Notify(rs) EXCEPT ![r] = [@ EXCEPT !.pc = "waiting", !.woken = FALSE]]
    /\ swap' = "activate"

\* Mutant: a busy incumbent is preempted.
IdleIgnored(p) == TRUE

Idle(p) == p.resident # None => p.inflight[p.resident] = 0
Failed(p, m, arrivalGen) == p.swapErr[m] >= arrivalGen

Evaluate(r, p, rs) ==
    LET m == Target[r]
    IN \/ /\ Failed(p, m, rs[r].arrivalGen)
          /\ Return(r, p, rs, "swapFailed")
       \/ /\ ~Failed(p, m, rs[r].arrivalGen)
          /\ \/ /\ ~p.swapping /\ p.resident = m
                /\ Return(r, [p EXCEPT !.inflight[m] = @ + 1], rs, "acquired")
             \/ /\ ~p.swapping /\ p.resident # m /\ Idle(p)
                /\ StartSwap(r, p, rs)
             \/ /\ ~p.swapping /\ p.resident # m /\ ~Idle(p) /\ rs[r].ifIdle
                /\ Return(r, p, rs, "incumbentBusy")
             \/ /\ p.swapping \/ (p.resident # m /\ ~Idle(p) /\ ~rs[r].ifIdle)
                /\ Hold(r, p, rs)

\* Mutant: the last swap, whether or not one is in flight.
ArrivalGenLast(p) == p.swapGen

\* The swap a caller that registers now waits through, or starts itself.
ArrivalGen(p) == IF p.swapping THEN p.swapGen ELSE p.swapGen + 1

Register(r, p) ==
    \E mode \in BOOLEAN :
        /\ mode => r \in IfIdle
        /\ Evaluate(r,
                    [p EXCEPT !.waiting[Target[r]] = @ + 1],
                    [req EXCEPT ![r] = [@ EXCEPT !.arrivalGen = ArrivalGen(p), !.ifIdle = mode]])

\* The requests rs are sent; a swap that starts spends one of the swaps.
Spend(rs) ==
    left' = [swaps |-> IF swap' = swap THEN left.swaps ELSE left.swaps - 1,
             sends |-> [r \in Requests |-> IF r \in rs THEN left.sends[r] - 1 ELSE left.sends[r]]]

Arrive(r) ==
    /\ req[r].pc = "idle" /\ left.sends[r] > 0
    /\ \/ /\ \E p \in ReconcileResident(pr) : Register(r, p)
          /\ UNCHANGED <<faults, disturbed>>
       \/ /\ ~pr.swapping /\ Fault
          /\ \E p \in ReconcileFails(pr) : Register(r, p)
    /\ Spend({r})
    /\ UNCHANGED <<unwanted, replicas, pod, phase, load>>

Wake(r) ==
    /\ req[r].pc = "waiting" /\ req[r].woken
    /\ Evaluate(r, pr, req)
    /\ Spend({})
    /\ UNCHANGED <<unwanted, memberVars>>

\* Mutant: the early return skips the deferred function.
GiveUpNoDefer(r) ==
    /\ req[r].pc = "waiting"
    /\ pr' = pr
    /\ req' = [req EXCEPT ![r] = NewRequest]
    /\ UNCHANGED <<swap, unwanted, left, memberVars>>

\* The hold budget or the client ends the wait.
GiveUp(r) ==
    /\ req[r].pc = "waiting"
    /\ Return(r, pr, req, "holdExceeded")
    /\ UNCHANGED <<unwanted, left, memberVars>>

\* The deferred function: deregister, and have a member nobody wants scaled
\* down by a goroutine of its own.
Leave(r) ==
    LET m == Target[r]
        w == pr.waiting[m] - 1
        acquired == req[r].result = "acquired"
    IN /\ req[r].pc = "leaving"
       /\ pr' = [pr EXCEPT !.waiting[m] = w]
       /\ IF w = 0 /\ pr.resident # m
          THEN /\ unwanted[m] < MaxGoroutines
               /\ unwanted' = [unwanted EXCEPT ![m] = @ + 1]
          ELSE UNCHANGED unwanted
       /\ req' = [req EXCEPT ![r] = [@ EXCEPT !.pc = IF acquired THEN "dispatched" ELSE "idle",
                                             !.arrivalGen = 0, !.result = "none", !.ifIdle = FALSE]]
       \* dispatchWithFallback sends it on to the member's server.
       /\ load' = IF acquired /\ pod[m] = "serving"
                  THEN [load EXCEPT ![m] = @ \cup {r}] ELSE load
       /\ UNCHANGED <<left, swap, replicas, pod, phase, faults, disturbed>>

----------------------------------------------------------------------------
\* Mutant: the last request to leave a member wakes nobody.
ReleaseSilently(r, p) ==
    /\ pr' = [p EXCEPT !.inflight[Target[r]] = @ - 1]
    /\ req' = [req EXCEPT ![r] = [@ EXCEPT !.pc = "idle"]]

\* release: what the caller runs once when its request is over.
Release(r, p) ==
    LET m == Target[r]
        n == IF p.inflight[m] > 0 THEN p.inflight[m] - 1 ELSE p.inflight[m]
        done == [req EXCEPT ![r] = [@ EXCEPT !.pc = "idle"]]
    IN /\ pr' = [p EXCEPT !.inflight[m] = n]
       /\ req' = IF n = 0 THEN Notify(done) ELSE done

\* A refused connection or a header timeout: InvalidateResident, then release.
DispatchFails(r) ==
    /\ req[r].pc = "dispatched"
    /\ Release(r, IF pr.swapping THEN pr ELSE [pr EXCEPT !.checked = FALSE])
    /\ load' = [load EXCEPT ![Target[r]] = @ \ {r}]
    /\ UNCHANGED <<left, swap, unwanted, replicas, pod, phase, faults, disturbed>>

\* The response is over (served, broken off, or a 5xx): the body is closed.
Finish(r) ==
    /\ req[r].pc = "dispatched" /\ r \in load[Target[r]]
    /\ Release(r, pr)
    /\ load' = [load EXCEPT ![Target[r]] = @ \ {r}]
    /\ UNCHANGED <<left, swap, unwanted, replicas, pod, phase, faults, disturbed>>

----------------------------------------------------------------------------
\* The goroutine of startSwap.  Its calls run outside the lock.
SwapActivate ==
    /\ swap = "activate"
    /\ \/ /\ replicas' = [replicas EXCEPT ![pr.swapTarget] = 1]
          /\ swap' = "waitReady"
          /\ UNCHANGED <<faults, disturbed>>
       \/ /\ Fault
          /\ swap' = "error"
          /\ UNCHANGED replicas
    /\ UNCHANGED <<left, pr, unwanted, req, pod, phase, load>>

SwapWaitReady ==
    /\ swap = "waitReady"
    /\ \/ /\ phase[pr.swapTarget]
          /\ swap' = "ready"
          /\ UNCHANGED <<faults, disturbed>>
       \/ /\ Fault
          /\ swap' = "error"
    /\ UNCHANGED <<left, pr, unwanted, req, replicas, pod, phase, load>>

\* resolveSwapDeadline passes first.
SwapDeadline ==
    /\ swap \in {"activate", "waitReady"}
    /\ swap' = "deadline"
    /\ disturbed' = TRUE
    /\ UNCHANGED <<left, pr, unwanted, req, replicas, pod, phase, load, faults>>

\* Mutant: one replica less, whatever the count is.
DeactivateByOne(m) ==
    \/ /\ replicas' = [replicas EXCEPT ![m] = @ - 1]
       /\ UNCHANGED <<faults, disturbed>>
    \/ Fault /\ UNCHANGED replicas

\* Deactivate, whose failure is only logged.
Deactivate(m) ==
    \/ /\ replicas' = [replicas EXCEPT ![m] = 0]
       /\ UNCHANGED <<faults, disturbed>>
    \/ Fault /\ UNCHANGED replicas

\* The goroutine publishes its outcome under the lock.  A failed swap scales
\* its target down before it notifies.
SwapPublish ==
    /\ swap \in {"ready", "deadline", "error"}
    /\ \E p \in {[pr EXCEPT !.swapping = FALSE, !.swapTarget = None]} :
         IF swap = "ready"
         THEN /\ pr' = [p EXCEPT !.resident = pr.swapTarget, !.checked = TRUE]
              /\ UNCHANGED <<replicas, faults, disturbed>>
         ELSE /\ pr' = [p EXCEPT !.swapErr[pr.swapTarget] = pr.swapGen]
              /\ Deactivate(pr.swapTarget)
    /\ req' = Notify(req)
    /\ swap' = "none"
    /\ UNCHANGED <<left, unwanted, pod, phase, load>>

\* Mutant: a swap that activates the member again is not looked for.
DeactivateIfUnwantedStale(m) ==
    /\ unwanted[m] > 0
    /\ unwanted' = [unwanted EXCEPT ![m] = @ - 1]
    /\ IF pr.waiting[m] > 0 \/ pr.resident = m
       THEN UNCHANGED <<replicas, faults, disturbed>>
       ELSE Deactivate(m)
    /\ UNCHANGED <<left, pr, swap, req, pod, phase, load>>

DeactivateIfUnwanted(m) ==
    /\ unwanted[m] > 0
    /\ unwanted' = [unwanted EXCEPT ![m] = @ - 1]
    /\ IF \/ pr.waiting[m] > 0
          \/ pr.resident = m
          \/ pr.swapping /\ pr.swapTarget = m
       THEN UNCHANGED <<replicas, faults, disturbed>>
       ELSE Deactivate(m)
    /\ UNCHANGED <<left, pr, swap, req, pod, phase, load>>

----------------------------------------------------------------------------
\* The proxy is restarted: its state and its connections are gone.
ProxyRestart ==
    /\ Fault
    /\ pr' = ColdRuntime
    /\ swap' = "none"
    /\ unwanted' = [m \in Members |-> 0]
    /\ req' = [r \in Requests |-> NewRequest]
    /\ load' = [m \in Members |-> {}]
    /\ UNCHANGED <<left, replicas, pod, phase>>

ActivatorInit ==
    /\ pr = ColdRuntime
    /\ swap = "none"
    /\ unwanted = [m \in Members |-> 0]
    /\ req = [r \in Requests |-> NewRequest]
    /\ left \in Budgets

ActivatorNext ==
    \/ \E r \in Requests :
          \/ Arrive(r) \/ Wake(r) \/ GiveUp(r) \/ Leave(r)
          \/ DispatchFails(r) \/ Finish(r)
    \/ SwapActivate \/ SwapWaitReady \/ SwapDeadline \/ SwapPublish
    \/ \E m \in Members : DeactivateIfUnwanted(m)
    \/ ProxyRestart

----------------------------------------------------------------------------
\* The Activator alone, over members that come and go as they like.
MemberFlips(m) ==
    /\ pod' = [pod EXCEPT ![m] = IF @ = "serving" THEN "none" ELSE "serving"]
    /\ phase' = [phase EXCEPT ![m] = pod'[m] = "serving"]
    /\ load' = [load EXCEPT ![m] = {}]
    /\ disturbed' = TRUE
    /\ UNCHANGED <<activatorVars, replicas, faults>>

AloneNext == ActivatorNext \/ \E m \in Members : MemberFlips(m)
aloneVars == <<memberVars, activatorVars>>

----------------------------------------------------------------------------
ActivatorTypeOK ==
    /\ MembersTypeOK
    /\ pr \in PoolRuntime /\ swap \in SwapSteps
    /\ unwanted \in [Members -> 0..MaxGoroutines] /\ req \in [Requests -> Request]
    /\ left.swaps \in Nat /\ left.sends \in [Requests -> Nat]

\* The requests the counters of poolRuntime stand for.
InFlightOn(m) ==
    {r \in Requests : /\ Target[r] = m
                      /\ \/ req[r].pc = "dispatched"
                         \/ req[r].pc = "leaving" /\ req[r].result = "acquired"}
WaitingFor(m) == {r \in Requests : Target[r] = m /\ req[r].pc \in {"waiting", "leaving"}}

\* inflight and waiting count exactly the requests dispatched to, or held
\* for, a member, over every return path, timeout and failed dispatch:
\* a leaked count would keep a member resident, or scaled up, forever.
CountersExact ==
    \A m \in Members :
        /\ pr.inflight[m] = Cardinality(InFlightOn(m))
        /\ pr.waiting[m] = Cardinality(WaitingFor(m))

\* While a swap is in flight nothing is dispatched to the incumbent it
\* drains, from the moment the swap starts until its outcome is published.
IncumbentIdleDuringSwap ==
    pr.swapping /\ pr.resident # None => pr.inflight[pr.resident] = 0

\* A request that sleeps on the change channel has somebody to wake it: a
\* swap in flight, or a request in flight whose release notifies.
HeldHasWaker ==
    (\E r \in Requests : req[r].pc = "waiting" /\ ~req[r].woken)
        => pr.swapping \/ \E m \in Members : pr.inflight[m] > 0

\* The failure of a swap goes to those who waited through it.  Every request
\* held for the member is woken with that failure to read, whether it came
\* before or during the swap; a request that arrives later starts a fresh load
\* and never takes the recorded failure of an earlier swap as its own.
FailureMeetsItsWaiters ==
    [][\A r \in Requests :
          /\ pr'.swapErr # pr.swapErr /\ pr'.swapGen = pr.swapGen
             /\ req[r].pc = "waiting" /\ Target[r] = pr.swapTarget
             => req'[r].woken /\ Failed(pr', Target[r], req'[r].arrivalGen)
          /\ req[r].pc = "idle" /\ req'[r].pc = "leaving"
             => req'[r].result # "swapFailed"]_aloneVars

\* The proxy never scales down a member that is resident or that a swap in
\* flight activates, however late a deactivate goroutine runs.
ClaimNeverDeactivated ==
    [][\A m \in Members :
          replicas[m] = 1 /\ replicas'[m] = 0 /\ <<swap', unwanted'>> # <<swap, unwanted>>
            => pr'.resident # m /\ ~(pr'.swapping /\ pr'.swapTarget = m)]_aloneVars
=============================================================================
