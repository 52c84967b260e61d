--------------------------- MODULE ActivatorProofs ---------------------------
(***************************************************************************)
(* The inductive invariant of the Activator, and what one step of it does, *)
(* for every list of members and every finite set of requests.             *)
(***************************************************************************)
EXTENDS Activator, FiniteSetTheorems, TLAPS

\* The Activator alone, over members that come and go as they like.
AloneSpec == MembersInit /\ ActivatorInit /\ [][AloneNext]_aloneVars

----------------------------------------------------------------------------
(* The members in declaration order *)

\* A set of positions that is not empty has a first one.
LEMMA FirstPosition ==
    ASSUME NEW T, T \subseteq Nat, T # {}
    PROVE  \E i \in T : \A j \in T : i <= j
<1> DEFINE R == OpToRel(<, Nat)
<1>1. IsWellFoundedOn(R, Nat)
  BY NatLessThanWellFounded, Zenon
<1>2. \A x, y \in Nat : x < y => <<x, y>> \in R
  BY DEF OpToRel
<1> HIDE DEF R
<1>3. PICK i \in T : \A j \in T : ~(<<j, i>> \in R)
  BY <1>1, WFMin, Zenon
<1>4. ASSUME NEW j \in T PROVE i <= j
  <2>1. i \in Nat /\ j \in Nat
    OBVIOUS
  <2>2. ~(j < i)
    BY <1>2, <1>3, <2>1, Zenon
  <2> QED BY <2>1, <2>2
<1> QED BY <1>4

\* reconcileResident finds a member of the pool, or none.
LEMMA FirstReadyType == FirstReady \in Members \cup {None}
<1> DEFINE ms == {m \in Members : phase[m]}
<1>1. CASE ms = {}
  BY <1>1 DEF FirstReady
<1>2. CASE ms # {}
  <2>1. \A i \in DOMAIN MemberSeq : MemberSeq[i] \in Members
    BY DEF Members
  <2> DEFINE T == {i \in DOMAIN MemberSeq : MemberSeq[i] \in ms}
  <2>2. DOMAIN MemberSeq = 1..Len(MemberSeq) /\ Len(MemberSeq) \in Nat
    BY MembersAssumption
  <2>3. T \subseteq Nat /\ T # {}
    BY <1>2, <2>2 DEF Members
  <2>4. PICK i \in T : \A j \in T : i <= j
    BY <2>3, FirstPosition, Zenon
  <2>5. \A j \in 1..(i - 1) : ~phase[MemberSeq[j]]
    BY <2>1, <2>2, <2>4
  <2> QED BY <1>2, <2>1, <2>4, <2>5 DEF FirstReady
<1> QED BY <1>1, <1>2

----------------------------------------------------------------------------
(* Counting requests *)

Bit(b) == IF b THEN 1 ELSE 0

\* Two sets of requests that differ at most in r differ by r in their sizes.
LEMMA CountsMove ==
    ASSUME NEW r \in Requests, NEW P \in SUBSET Requests, NEW Q \in SUBSET Requests,
           \A q \in Requests \ {r} : q \in P <=> q \in Q
    PROVE  /\ Cardinality(P) \in Nat /\ Cardinality(Q) \in Nat
           /\ Cardinality(Q) = Cardinality(P) + Bit(r \in Q) - Bit(r \in P)
<1>1. /\ IsFiniteSet(P) /\ Cardinality(P) \in Nat
      /\ IsFiniteSet(Q) /\ Cardinality(Q) \in Nat
  BY MembersAssumption, FS_Subset, FS_CardinalityType
<1>2. CASE r \in P /\ r \in Q
  <2>1. P = Q
    BY <1>2
  <2> QED BY <1>1, <1>2, <2>1 DEF Bit
<1>3. CASE r \notin P /\ r \notin Q
  <2>1. P = Q
    BY <1>3
  <2> QED BY <1>1, <1>3, <2>1 DEF Bit
<1>4. CASE r \in P /\ r \notin Q
  <2>1. Q = P \ {r}
    BY <1>4
  <2>2. Cardinality(Q) = Cardinality(P) - 1
    BY <1>1, <1>4, <2>1, FS_RemoveElement, Zenon
  <2> QED BY <1>1, <1>4, <2>2 DEF Bit
<1>5. CASE r \notin P /\ r \in Q
  <2>1. Q = P \cup {r}
    BY <1>5
  <2>2. Cardinality(Q) = Cardinality(P) + 1
    BY <1>1, <1>5, <2>1, FS_AddElement, Zenon
  <2> QED BY <1>1, <1>5, <2>2 DEF Bit
<1> QED BY <1>2, <1>3, <1>4, <1>5

----------------------------------------------------------------------------
(* The inductive invariant *)

\* What the counters of poolRuntime stand for, read off the requests rs.
Busy(q) == q.pc = "dispatched" \/ (q.pc = "leaving" /\ q.result = "acquired")
Queued(q) == q.pc \in {"waiting", "leaving"}
BusyOn(rs, m) == {r \in Requests : Target[r] = m /\ Busy(rs[r])}
QueuedFor(rs, m) == {r \in Requests : Target[r] = m /\ Queued(rs[r])}

Counted(p, rs) ==
    \A m \in Members : /\ p.inflight[m] = Cardinality(BusyOn(rs, m))
                       /\ p.waiting[m] = Cardinality(QueuedFor(rs, m))

\* swapping says that the goroutine of startSwap runs, for a member that is
\* not resident, and while it runs nothing is in flight on the resident.
SwapConsistent(p, sw) ==
    /\ p.swapping <=> sw # "none"
    /\ p.swapping => p.swapTarget \in Members /\ p.swapTarget # p.resident
    /\ p.swapping /\ p.resident # None => p.inflight[p.resident] = 0

\* A recorded failure is that of a past swap, and a request that waits came
\* no later than the swap that is running, or the one to come.
Ordered(p, rs) ==
    /\ \A m \in Members : p.swapErr[m] < ArrivalGen(p)
    /\ \A r \in Requests : rs[r].pc = "waiting" => rs[r].arrivalGen <= ArrivalGen(p)

\* A request that sleeps has somebody to wake it.
Wakeable(p, rs) ==
    (\E r \in Requests : rs[r].pc = "waiting" /\ ~rs[r].woken)
        => p.swapping \/ \E m \in Members : p.inflight[m] > 0

Sound(p, sw, rs) ==
    /\ p \in PoolRuntime /\ sw \in SwapSteps /\ rs \in [Requests -> Request]
    /\ Counted(p, rs) /\ SwapConsistent(p, sw) /\ Ordered(p, rs) /\ Wakeable(p, rs)

ActivatorInductive == ActivatorTypeOK /\ Sound(pr, swap, req)

\* The properties of poolRuntime are what Sound says of it.
LEMMA SoundMeans ==
    ASSUME ActivatorInductive
    PROVE  CountersExact /\ IncumbentIdleDuringSwap /\ HeldHasWaker
<1>1. \A m \in Members : InFlightOn(m) = BusyOn(req, m) /\ WaitingFor(m) = QueuedFor(req, m)
  BY DEF InFlightOn, WaitingFor, BusyOn, QueuedFor, Busy, Queued
<1>2. CountersExact
  BY <1>1 DEF ActivatorInductive, Sound, Counted, CountersExact
<1> QED BY <1>2 DEF ActivatorInductive, Sound, SwapConsistent, Wakeable,
           IncumbentIdleDuringSwap, HeldHasWaker

\* Request r alone changes what it counts for, and the counters follow it.
Moves(p, q, rs, ts, r) ==
    /\ p.inflight \in [Members -> Int] /\ p.waiting \in [Members -> Int]
    /\ q.inflight \in [Members -> Int] /\ q.waiting \in [Members -> Int]
    /\ \A s \in Requests \ {r} :
          (Busy(ts[s]) <=> Busy(rs[s])) /\ (Queued(ts[s]) <=> Queued(rs[s]))
    /\ \A m \in Members \ {Target[r]} :
          q.inflight[m] = p.inflight[m] /\ q.waiting[m] = p.waiting[m]
    /\ q.inflight[Target[r]] = p.inflight[Target[r]] + Bit(Busy(ts[r])) - Bit(Busy(rs[r]))
    /\ q.waiting[Target[r]] = p.waiting[Target[r]] + Bit(Queued(ts[r])) - Bit(Queued(rs[r]))

\* Counters that follow the one request that moves stay exact.
LEMMA CountedMove ==
    ASSUME NEW p, NEW q, NEW rs, NEW ts, NEW r \in Requests,
           Counted(p, rs), Moves(p, q, rs, ts, r)
    PROVE  Counted(q, ts)
<1> USE DEF Moves
<1> SUFFICES ASSUME NEW m \in Members
             PROVE  /\ q.inflight[m] = Cardinality(BusyOn(ts, m))
                    /\ q.waiting[m] = Cardinality(QueuedFor(ts, m))
  BY DEF Counted
<1>1. /\ BusyOn(rs, m) \in SUBSET Requests /\ BusyOn(ts, m) \in SUBSET Requests
      /\ QueuedFor(rs, m) \in SUBSET Requests /\ QueuedFor(ts, m) \in SUBSET Requests
  BY DEF BusyOn, QueuedFor
<1>2. \A s \in Requests \ {r} : /\ s \in BusyOn(rs, m) <=> s \in BusyOn(ts, m)
                                /\ s \in QueuedFor(rs, m) <=> s \in QueuedFor(ts, m)
  BY DEF BusyOn, QueuedFor
<1>3. /\ Cardinality(BusyOn(ts, m)) =
            Cardinality(BusyOn(rs, m)) + Bit(r \in BusyOn(ts, m)) - Bit(r \in BusyOn(rs, m))
      /\ Cardinality(QueuedFor(ts, m)) =
            Cardinality(QueuedFor(rs, m)) + Bit(r \in QueuedFor(ts, m)) - Bit(r \in QueuedFor(rs, m))
      /\ Cardinality(BusyOn(rs, m)) \in Nat /\ Cardinality(QueuedFor(rs, m)) \in Nat
  BY <1>1, <1>2, CountsMove
<1>4. /\ p.inflight[m] = Cardinality(BusyOn(rs, m))
      /\ p.waiting[m] = Cardinality(QueuedFor(rs, m))
  BY DEF Counted
<1>5. CASE m = Target[r]
  <2>1. /\ r \in BusyOn(ts, m) <=> Busy(ts[r])
        /\ r \in BusyOn(rs, m) <=> Busy(rs[r])
        /\ r \in QueuedFor(ts, m) <=> Queued(ts[r])
        /\ r \in QueuedFor(rs, m) <=> Queued(rs[r])
    BY <1>5 DEF BusyOn, QueuedFor
  <2> QED BY <1>3, <1>4, <1>5, <2>1 DEF Bit
<1>6. CASE m # Target[r]
  <2>1. /\ r \notin BusyOn(ts, m) /\ r \notin BusyOn(rs, m)
        /\ r \notin QueuedFor(ts, m) /\ r \notin QueuedFor(rs, m)
    BY <1>6 DEF BusyOn, QueuedFor
  <2> QED BY <1>3, <1>4, <1>6, <2>1 DEF Bit
<1> QED BY <1>5, <1>6

\* Exact counters are never negative.
LEMMA CountIsNat ==
    ASSUME NEW p, NEW rs, Counted(p, rs), NEW m \in Members
    PROVE  p.inflight[m] \in Nat /\ p.waiting[m] \in Nat
<1>1. BusyOn(rs, m) \in SUBSET Requests /\ QueuedFor(rs, m) \in SUBSET Requests
  BY DEF BusyOn, QueuedFor
<1>2. Cardinality(BusyOn(rs, m)) \in Nat /\ Cardinality(QueuedFor(rs, m)) \in Nat
  BY <1>1, MembersAssumption, FS_Subset, FS_CardinalityType
<1> QED BY <1>2 DEF Counted

----------------------------------------------------------------------------
(* AcquireWithMode *)

\* A request that returns from the loop without the member.
LEMMA ReturnSound ==
    ASSUME NEW r \in Requests, NEW p, NEW rs, Sound(p, swap, rs), rs[r].pc = "waiting",
           NEW res \in AcquireResults \ {"acquired"}, Return(r, p, rs, res)
    PROVE  Sound(pr', swap', req')
<1> DEFINE ts == [rs EXCEPT ![r] = [@ EXCEPT !.pc = "leaving", !.result = res, !.woken = FALSE]]
<1>1. pr' = p /\ swap' = swap /\ req' = ts
  BY DEF Return
<1>2. p \in PoolRuntime /\ rs \in [Requests -> Request] /\ rs[r] \in Request
  BY DEF Sound
<1>3. ts \in [Requests -> Request] /\ ts[r].pc = "leaving" /\ ts[r].result = res
  BY <1>2, Zenon DEF Request, PCs
<1>4. \A s \in Requests \ {r} : ts[s] = rs[s]
  BY <1>2
<1> HIDE DEF ts
<1>5. Counted(p, ts)
  <2>1. ~Busy(rs[r]) /\ ~Busy(ts[r]) /\ Queued(rs[r]) /\ Queued(ts[r])
    BY <1>3 DEF Busy, Queued
  <2>2. Moves(p, p, rs, ts, r)
    BY <1>2, <1>4, <2>1, ActivatorAssumption DEF Moves, PoolRuntime, Bit
  <2> QED BY <2>2, CountedMove DEF Sound
<1>6. Ordered(p, ts)
  BY <1>3, <1>4 DEF Sound, Ordered
<1>7. Wakeable(p, ts)
  BY <1>3, <1>4 DEF Sound, Wakeable
<1> QED BY <1>1, <1>2, <1>3, <1>5, <1>6, <1>7 DEF Sound

\* A request that joins the resident member.
LEMMA AcquireSound ==
    ASSUME NEW r \in Requests, NEW p, NEW rs, Sound(p, swap, rs), rs[r].pc = "waiting",
           ~p.swapping, p.resident = Target[r],
           Return(r, [p EXCEPT !.inflight[Target[r]] = @ + 1], rs, "acquired")
    PROVE  Sound(pr', swap', req')
<1> DEFINE q == [p EXCEPT !.inflight[Target[r]] = @ + 1]
           ts == [rs EXCEPT ![r] = [@ EXCEPT !.pc = "leaving", !.result = "acquired", !.woken = FALSE]]
<1>1. pr' = q /\ swap' = swap /\ req' = ts
  BY DEF Return
<1>2. /\ p \in PoolRuntime /\ rs \in [Requests -> Request] /\ rs[r] \in Request
      /\ Target[r] \in Members
  BY ActivatorAssumption DEF Sound
<1>3. ts \in [Requests -> Request] /\ ts[r].pc = "leaving" /\ ts[r].result = "acquired"
  BY <1>2, Zenon DEF Request, PCs, AcquireResults
<1>4. \A s \in Requests \ {r} : ts[s] = rs[s]
  BY <1>2
<1>5. /\ q \in PoolRuntime
      /\ q.swapping = p.swapping /\ q.swapGen = p.swapGen /\ q.swapErr = p.swapErr
      /\ q.waiting = p.waiting
      /\ \A m \in Members : q.inflight[m] = p.inflight[m] + Bit(m = Target[r])
  <2>1. q = [p EXCEPT !.inflight = [p.inflight EXCEPT ![Target[r]] = p.inflight[Target[r]] + 1]]
    OBVIOUS
  <2>2. [p.inflight EXCEPT ![Target[r]] = p.inflight[Target[r]] + 1] \in [Members -> Int]
    BY <1>2 DEF PoolRuntime
  <2> QED BY <1>2, <2>1, <2>2 DEF PoolRuntime, Bit
<1> HIDE DEF q, ts
<1>6. Counted(q, ts)
  <2>1. ~Busy(rs[r]) /\ Busy(ts[r]) /\ Queued(rs[r]) /\ Queued(ts[r])
    BY <1>3 DEF Busy, Queued
  <2>2. Moves(p, q, rs, ts, r)
    BY <1>2, <1>4, <1>5, <2>1 DEF Moves, PoolRuntime, Bit
  <2> QED BY <2>2, CountedMove DEF Sound
<1>7. SwapConsistent(q, swap)
  BY <1>5 DEF Sound, SwapConsistent
<1>8. Ordered(q, ts)
  BY <1>3, <1>4, <1>5 DEF Sound, Ordered, ArrivalGen
<1>9. Wakeable(q, ts)
  <2>1. \A m \in Members : p.inflight[m] > 0 => q.inflight[m] > 0
    BY <1>2, <1>5 DEF Bit, PoolRuntime
  <2> QED BY <1>3, <1>4, <1>5, <2>1 DEF Sound, Wakeable
<1> QED BY <1>1, <1>3, <1>5, <1>6, <1>7, <1>8, <1>9 DEF Sound

\* A request that waits: for a swap in flight, or for the resident to drain.
LEMMA HoldSound ==
    ASSUME NEW r \in Requests, NEW p, NEW rs, Sound(p, swap, rs), rs[r].pc = "waiting",
           p.swapping \/ ~Idle(p), Hold(r, p, rs)
    PROVE  Sound(pr', swap', req')
<1> DEFINE ts == [rs EXCEPT ![r] = [@ EXCEPT !.pc = "waiting", !.woken = FALSE]]
<1>1. pr' = p /\ swap' = swap /\ req' = ts
  BY DEF Hold
<1>2. p \in PoolRuntime /\ rs \in [Requests -> Request] /\ rs[r] \in Request
  BY DEF Sound
<1>3. ts \in [Requests -> Request] /\ ts[r].pc = "waiting" /\ ts[r].arrivalGen = rs[r].arrivalGen
  BY <1>2, Zenon DEF Request, PCs
<1>4. \A s \in Requests \ {r} : ts[s] = rs[s]
  BY <1>2
<1> HIDE DEF ts
<1>5. Counted(p, ts)
  <2>1. ~Busy(rs[r]) /\ ~Busy(ts[r]) /\ Queued(rs[r]) /\ Queued(ts[r])
    BY <1>3 DEF Busy, Queued
  <2>2. Moves(p, p, rs, ts, r)
    BY <1>2, <1>4, <2>1, ActivatorAssumption DEF Moves, PoolRuntime, Bit
  <2> QED BY <2>2, CountedMove DEF Sound
<1>6. Ordered(p, ts)
  BY <1>3, <1>4 DEF Sound, Ordered
<1>7. Wakeable(p, ts)
  <2>1. CASE p.swapping
    BY <2>1 DEF Wakeable
  <2>2. CASE ~Idle(p)
    <3>1. p.resident \in Members /\ p.inflight[p.resident] # 0
      BY <1>2, <2>2 DEF Idle, PoolRuntime
    <3>2. p.inflight[p.resident] \in Nat
      BY <3>1, CountIsNat DEF Sound
    <3>3. p.inflight[p.resident] > 0
      BY <3>1, <3>2
    <3> QED BY <3>1, <3>3 DEF Wakeable
  <2> QED BY <2>1, <2>2
<1> QED BY <1>1, <1>2, <1>3, <1>5, <1>6, <1>7 DEF Sound

\* notify changes nothing but who is woken.
LEMMA NotifyFacts ==
    ASSUME NEW rs \in [Requests -> Request]
    PROVE  /\ Notify(rs) \in [Requests -> Request]
           /\ \A s \in Requests : /\ Notify(rs)[s].pc = rs[s].pc
                                  /\ Notify(rs)[s].result = rs[s].result
                                  /\ Notify(rs)[s].arrivalGen = rs[s].arrivalGen
                                  /\ Notify(rs)[s].woken <=> rs[s].pc = "waiting"
<1>1. \A s \in Requests : rs[s] \in Request /\ (rs[s].pc = "waiting") \in BOOLEAN
  OBVIOUS
<1> QED BY <1>1, Zenon DEF Notify, Request

\* A request that finds the slot idle starts a swap and waits for it.
LEMMA StartSwapSound ==
    ASSUME NEW r \in Requests, NEW p, NEW rs, Sound(p, swap, rs), rs[r].pc = "waiting",
           ~p.swapping, p.resident # Target[r], Idle(p), StartSwap(r, p, rs)
    PROVE  Sound(pr', swap', req')
<1> DEFINE q == [p EXCEPT !.swapping = TRUE, !.swapTarget = Target[r], !.swapGen = @ + 1]
           ts == [Notify(rs) EXCEPT ![r] = [@ EXCEPT !.pc = "waiting", !.woken = FALSE]]
<1>1. pr' = q /\ swap' = "activate" /\ req' = ts
  BY DEF StartSwap
<1>2. /\ p \in PoolRuntime /\ rs \in [Requests -> Request] /\ Target[r] \in Members
      /\ Notify(rs) \in [Requests -> Request] /\ Notify(rs)[r] \in Request
  BY ActivatorAssumption, NotifyFacts DEF Sound
<1>3. /\ ts \in [Requests -> Request] /\ ts[r].pc = "waiting"
      /\ ts[r].arrivalGen = Notify(rs)[r].arrivalGen
  BY <1>2, Zenon DEF Request, PCs
<1>4. \A s \in Requests \ {r} : ts[s] = Notify(rs)[s]
  BY <1>2
<1>5. /\ q \in PoolRuntime /\ q.swapping /\ q.swapTarget = Target[r] /\ q.resident = p.resident
      /\ q.swapGen = p.swapGen + 1 /\ q.swapErr = p.swapErr
      /\ q.inflight = p.inflight /\ q.waiting = p.waiting
  <2>1. p.swapGen + 1 \in Nat
    BY <1>2 DEF PoolRuntime
  <2>2. q \in PoolRuntime
    BY <1>2, <2>1, Zenon DEF PoolRuntime
  <2> QED BY <1>2, <2>2, Zenon DEF PoolRuntime
<1> HIDE DEF q, ts
<1>6. \A s \in Requests : /\ ts[s].pc = rs[s].pc /\ ts[s].arrivalGen = rs[s].arrivalGen
                          /\ Busy(ts[s]) <=> Busy(rs[s])
                          /\ Queued(ts[s]) <=> Queued(rs[s])
  BY <1>2, <1>3, <1>4, NotifyFacts DEF Busy, Queued
<1>7. Counted(q, ts)
  <2>1. Moves(p, q, rs, ts, r)
    BY <1>2, <1>5, <1>6 DEF Moves, PoolRuntime, Bit
  <2> QED BY <2>1, CountedMove DEF Sound
<1>8. SwapConsistent(q, "activate")
  BY <1>2, <1>5 DEF SwapConsistent, Idle
<1>9. Ordered(q, ts)
  <2>1. ArrivalGen(q) = ArrivalGen(p)
    BY <1>5 DEF ArrivalGen
  <2> QED BY <1>5, <1>6, <2>1 DEF Sound, Ordered
<1>10. Wakeable(q, ts)
  BY <1>5 DEF Wakeable
<1> QED BY <1>1, <1>3, <1>5, <1>7, <1>8, <1>9, <1>10 DEF Sound, SwapSteps

\* Whatever the loop of AcquireWithMode decides, the runtime stays sound.
LEMMA EvaluateSound ==
    ASSUME NEW r \in Requests, NEW p, NEW rs, Sound(p, swap, rs), rs[r].pc = "waiting",
           Evaluate(r, p, rs)
    PROVE  Sound(pr', swap', req')
<1>1. CASE Return(r, p, rs, "swapFailed") \/ Return(r, p, rs, "incumbentBusy")
  BY <1>1, ReturnSound DEF AcquireResults
<1>2. CASE /\ ~p.swapping /\ p.resident = Target[r]
           /\ Return(r, [p EXCEPT !.inflight[Target[r]] = @ + 1], rs, "acquired")
  BY <1>2, AcquireSound
<1>3. CASE ~p.swapping /\ p.resident # Target[r] /\ Idle(p) /\ StartSwap(r, p, rs)
  BY <1>3, StartSwapSound
<1>4. CASE (p.swapping \/ ~Idle(p)) /\ Hold(r, p, rs)
  BY <1>4, HoldSound
<1> QED BY <1>1, <1>2, <1>3, <1>4 DEF Evaluate

\* What reconcileResident may make of the belief keeps the runtime sound.
LEMMA ReconciledSound ==
    ASSUME Sound(pr, swap, req), NEW p,
           p \in ReconcileResident(pr) \/ (~pr.swapping /\ p \in ReconcileFails(pr))
    PROVE  Sound(p, swap, req)
<1>1. CASE p = pr
  BY <1>1
<1>2. CASE ~pr.swapping /\ \E m \in Members \cup {None} :
               p = [pr EXCEPT !.checked = TRUE, !.resident = m]
  <2>1. PICK m \in Members \cup {None} : p = [pr EXCEPT !.checked = TRUE, !.resident = m]
    BY <1>2, Zenon
  <2>2. pr \in PoolRuntime
    BY DEF Sound
  <2>3. /\ p \in PoolRuntime /\ ~p.swapping /\ p.swapGen = pr.swapGen /\ p.swapErr = pr.swapErr
        /\ p.inflight = pr.inflight /\ p.waiting = pr.waiting
    BY <1>2, <2>1, <2>2, Zenon DEF PoolRuntime
  <2>4. Counted(p, req) /\ Wakeable(p, req)
    BY <1>2, <2>3 DEF Sound, Counted, Wakeable
  <2>5. SwapConsistent(p, swap) /\ Ordered(p, req)
    BY <1>2, <2>3 DEF Sound, SwapConsistent, Ordered, ArrivalGen
  <2> QED BY <2>3, <2>4, <2>5 DEF Sound
<1>3. pr.resident \in Members \cup {None}
  BY DEF Sound, PoolRuntime
<1>4. CASE p \in ReconcileResident(pr)
  <2>1. CASE p # pr
    <3>1. /\ ~pr.swapping
          /\ p = [pr EXCEPT !.checked = TRUE,
                            !.resident = IF pr.resident # None /\ phase[pr.resident]
                                         THEN pr.resident ELSE FirstReady]
      BY <1>4, <2>1 DEF ReconcileResident
    <3> QED BY <1>2, <1>3, <3>1, FirstReadyType, Zenon
  <2> QED BY <1>1, <2>1
<1>5. CASE ~pr.swapping /\ p \in ReconcileFails(pr)
  <2>1. \E m \in {pr.resident, None} : p = [pr EXCEPT !.checked = TRUE, !.resident = m]
    BY <1>5, Zenon DEF ReconcileFails
  <2> QED BY <1>2, <1>3, <1>5, <2>1, Zenon
<1> QED BY <1>4, <1>5

\* A request that registers is one that waits and has just been woken.
Joined(r, p, mode) ==
    [req EXCEPT ![r] = [@ EXCEPT !.pc = "waiting", !.arrivalGen = ArrivalGen(p),
                                 !.woken = TRUE, !.ifIdle = mode]]

\* The loop overwrites what tells a request that joins from one that waited.
LEMMA SameOutcome ==
    ASSUME NEW r \in Requests, NEW rs \in [Requests -> Request], NEW ts \in [Requests -> Request],
           \A s \in Requests \ {r} : ts[s] = rs[s],
           ts[r].arrivalGen = rs[r].arrivalGen, ts[r].ifIdle = rs[r].ifIdle,
           ts[r].result = rs[r].result,
           NEW p, Evaluate(r, p, rs)
    PROVE  Evaluate(r, p, ts)
<1> DEFINE L(q, res) == [q EXCEPT !.pc = "leaving", !.result = res, !.woken = FALSE]
           W(q) == [q EXCEPT !.pc = "waiting", !.woken = FALSE]
<1>1. rs[r] \in Request /\ ts[r] \in Request
  OBVIOUS
<1>2. ASSUME NEW res PROVE L(ts[r], res) = L(rs[r], res)
  BY <1>1, Zenon DEF Request
<1>3. W(ts[r]) = W(rs[r])
  BY <1>1, Zenon DEF Request
<1>4. W(Notify(ts)[r]) = W(Notify(rs)[r])
  BY <1>1, Zenon DEF Request, Notify
<1>5. \A s \in Requests \ {r} : Notify(ts)[s] = Notify(rs)[s]
  BY DEF Notify
<1>6. ASSUME NEW res PROVE [rs EXCEPT ![r] = L(rs[r], res)] = [ts EXCEPT ![r] = L(ts[r], res)]
  BY <1>2, Zenon
<1>7. [rs EXCEPT ![r] = W(rs[r])] = [ts EXCEPT ![r] = W(ts[r])]
  BY <1>3, Zenon
<1>8. [Notify(rs) EXCEPT ![r] = W(Notify(rs)[r])] = [Notify(ts) EXCEPT ![r] = W(Notify(ts)[r])]
  <2>1. Notify(rs) \in [Requests -> Request] /\ Notify(ts) \in [Requests -> Request]
    BY NotifyFacts
  <2> HIDE DEF W
  <2> QED BY <1>4, <1>5, <2>1, Zenon
<1>9. ASSUME NEW q, NEW res, Return(r, q, rs, res) PROVE Return(r, q, ts, res)
  BY <1>6, <1>9, Zenon DEF Return
<1>10. Hold(r, p, rs) => Hold(r, p, ts)
  BY <1>7 DEF Hold
<1>11. StartSwap(r, p, rs) => StartSwap(r, p, ts)
  BY <1>8 DEF StartSwap
<1> QED BY <1>9, <1>10, <1>11, Zenon DEF Evaluate

\* A request that registers keeps the runtime sound.
LEMMA RegisterSound ==
    ASSUME NEW r \in Requests, NEW p, Sound(p, swap, req), req[r].pc = "idle", Register(r, p)
    PROVE  Sound(pr', swap', req')
<1> DEFINE q == [p EXCEPT !.waiting[Target[r]] = @ + 1]
<1>1. PICK mode \in BOOLEAN :
          Evaluate(r, q, [req EXCEPT ![r] = [@ EXCEPT !.arrivalGen = ArrivalGen(p), !.ifIdle = mode]])
  BY Zenon DEF Register
<1> DEFINE rs == [req EXCEPT ![r] = [@ EXCEPT !.arrivalGen = ArrivalGen(p), !.ifIdle = mode]]
           ts == Joined(r, p, mode)
<1>2. /\ p \in PoolRuntime /\ req \in [Requests -> Request] /\ req[r] \in Request
      /\ Target[r] \in Members
  BY ActivatorAssumption DEF Sound
<1>3. ArrivalGen(p) \in Nat
  BY <1>2 DEF ArrivalGen, PoolRuntime
<1>4. /\ ts \in [Requests -> Request] /\ ts[r].pc = "waiting"
      /\ ts[r].arrivalGen = ArrivalGen(p) /\ ts[r].woken
      /\ rs \in [Requests -> Request] /\ rs[r].arrivalGen = ts[r].arrivalGen
      /\ rs[r].ifIdle = ts[r].ifIdle /\ rs[r].result = ts[r].result
  <2> DEFINE j == [req[r] EXCEPT !.pc = "waiting", !.arrivalGen = ArrivalGen(p),
                                 !.woken = TRUE, !.ifIdle = mode]
             k == [req[r] EXCEPT !.arrivalGen = ArrivalGen(p), !.ifIdle = mode]
  <2>1. j \in Request /\ k \in Request
    BY <1>2, <1>3, Zenon DEF Request, PCs
  <2>2. /\ j.pc = "waiting" /\ j.arrivalGen = ArrivalGen(p) /\ j.woken
        /\ k.arrivalGen = j.arrivalGen /\ k.ifIdle = j.ifIdle /\ k.result = j.result
    BY <1>2, Zenon DEF Request
  <2>3. ts = [req EXCEPT ![r] = j] /\ rs = [req EXCEPT ![r] = k]
    BY DEF Joined
  <2> HIDE DEF j, k, ts, rs
  <2> QED BY <1>2, <2>1, <2>2, <2>3
<1>5. \A s \in Requests \ {r} : ts[s] = req[s] /\ rs[s] = req[s]
  BY <1>2, Zenon DEF Joined
<1>6. /\ q \in PoolRuntime /\ q.swapping = p.swapping /\ q.swapGen = p.swapGen
      /\ q.swapTarget = p.swapTarget /\ q.resident = p.resident
      /\ q.swapErr = p.swapErr /\ q.inflight = p.inflight
      /\ \A m \in Members : q.waiting[m] = p.waiting[m] + Bit(m = Target[r])
  <2>1. q = [p EXCEPT !.waiting = [p.waiting EXCEPT ![Target[r]] = p.waiting[Target[r]] + 1]]
    OBVIOUS
  <2>2. [p.waiting EXCEPT ![Target[r]] = p.waiting[Target[r]] + 1] \in [Members -> Int]
    BY <1>2 DEF PoolRuntime
  <2> QED BY <1>2, <2>1, <2>2 DEF PoolRuntime, Bit
<1>7. Sound(q, swap, ts)
  <2> HIDE DEF q, ts
  <2>1. Counted(q, ts)
    <3>1. ~Busy(req[r]) /\ ~Busy(ts[r]) /\ ~Queued(req[r]) /\ Queued(ts[r])
      BY <1>4 DEF Busy, Queued
    <3>2. Moves(p, q, req, ts, r)
      BY <1>2, <1>5, <1>6, <3>1 DEF Moves, PoolRuntime, Bit
    <3> QED BY <3>2, CountedMove DEF Sound
  <2>2. SwapConsistent(q, swap) /\ ArrivalGen(q) = ArrivalGen(p)
    BY <1>6 DEF Sound, SwapConsistent, ArrivalGen
  <2>3. Ordered(q, ts)
    BY <1>3, <1>4, <1>5, <1>6, <2>2 DEF Sound, Ordered
  <2>4. Wakeable(q, ts)
    BY <1>4, <1>5, <1>6 DEF Sound, Wakeable
  <2> QED BY <1>4, <1>6, <2>1, <2>2, <2>3, <2>4 DEF Sound
<1>8. Evaluate(r, q, ts)
  <2> HIDE DEF q, ts, rs
  <2>1. Evaluate(r, q, rs)
    BY <1>1 DEF q, rs
  <2>2. \A s \in Requests \ {r} : ts[s] = rs[s]
    BY <1>5
  <2> QED BY <1>4, <2>1, <2>2, SameOutcome
<1> QED BY <1>4, <1>7, <1>8, EvaluateSound
\* Arrive: the belief is reconciled, then the request registers.
LEMMA ArriveSound ==
    ASSUME Sound(pr, swap, req), NEW r \in Requests, Arrive(r)
    PROVE  Sound(pr', swap', req')
<1>1. PICK p : /\ p \in ReconcileResident(pr) \/ (~pr.swapping /\ p \in ReconcileFails(pr))
               /\ Register(r, p)
  BY Zenon DEF Arrive
<1>2. Sound(p, swap, req)
  BY <1>1, ReconciledSound
<1>3. req[r].pc = "idle"
  BY DEF Arrive
<1> QED BY <1>1, <1>2, <1>3, RegisterSound

\* The deferred function takes the request out of the count of the waiting.
LEMMA LeaveSound ==
    ASSUME Sound(pr, swap, req), NEW r \in Requests, Leave(r)
    PROVE  Sound(pr', swap', req')
<1> DEFINE m == Target[r]
           acquired == req[r].result = "acquired"
           j == [req[r] EXCEPT !.pc = IF acquired THEN "dispatched" ELSE "idle",
                               !.arrivalGen = 0, !.result = "none", !.ifIdle = FALSE]
<1>1. /\ pr' = [pr EXCEPT !.waiting[m] = pr.waiting[m] - 1]
      /\ req' = [req EXCEPT ![r] = j] /\ swap' = swap /\ req[r].pc = "leaving"
  BY DEF Leave
<1>2. /\ pr \in PoolRuntime /\ req \in [Requests -> Request] /\ req[r] \in Request
      /\ m \in Members
  BY ActivatorAssumption DEF Sound
<1>3. j \in Request /\ j.pc = IF acquired THEN "dispatched" ELSE "idle"
  <2>1. 0 \in Nat /\ (IF acquired THEN "dispatched" ELSE "idle") \in PCs
    BY DEF PCs
  <2> QED BY <1>2, <2>1, Zenon DEF Request, AcquireResults
<1> HIDE DEF j
<1>4. /\ req' \in [Requests -> Request] /\ req'[r] = j
      /\ \A s \in Requests \ {r} : req'[s] = req[s]
  BY <1>1, <1>2, <1>3
<1>5. /\ pr' \in PoolRuntime /\ pr'.swapping = pr.swapping /\ pr'.swapGen = pr.swapGen
      /\ pr'.swapTarget = pr.swapTarget /\ pr'.resident = pr.resident
      /\ pr'.swapErr = pr.swapErr /\ pr'.inflight = pr.inflight
      /\ \A n \in Members : pr'.waiting[n] = pr.waiting[n] - Bit(n = m)
  <2>1. pr' = [pr EXCEPT !.waiting = [pr.waiting EXCEPT ![m] = pr.waiting[m] - 1]]
    BY <1>1
  <2>2. [pr.waiting EXCEPT ![m] = pr.waiting[m] - 1] \in [Members -> Int]
    BY <1>2 DEF PoolRuntime
  <2> QED BY <1>2, <2>1, <2>2 DEF PoolRuntime, Bit
<1>6. Counted(pr', req')
  <2>1. Queued(req[r]) /\ ~Queued(req'[r]) /\ (Busy(req'[r]) <=> Busy(req[r]))
    BY <1>1, <1>3, <1>4 DEF Busy, Queued
  <2>2. Moves(pr, pr', req, req', r)
    BY <1>2, <1>4, <1>5, <2>1 DEF Moves, PoolRuntime, Bit
  <2> QED BY <2>2, CountedMove DEF Sound
<1>7. SwapConsistent(pr', swap') /\ ArrivalGen(pr') = ArrivalGen(pr)
  BY <1>1, <1>5 DEF Sound, SwapConsistent, ArrivalGen
<1>8. Ordered(pr', req') /\ Wakeable(pr', req')
  BY <1>3, <1>4, <1>5, <1>7 DEF Sound, Ordered, Wakeable
<1> QED BY <1>1, <1>4, <1>5, <1>6, <1>7, <1>8 DEF Sound

----------------------------------------------------------------------------
(* release *)

\* A request in flight that is over frees its place, and the last one to
\* leave a member wakes everybody who waits.
LEMMA ReleaseSound ==
    ASSUME NEW r \in Requests, NEW p, Sound(p, swap, req), req[r].pc = "dispatched",
           Release(r, p), swap' = swap
    PROVE  Sound(pr', swap', req')
<1> DEFINE m == Target[r]
           k == p.inflight[m] - 1
           j == [req[r] EXCEPT !.pc = "idle"]
           done == [req EXCEPT ![r] = j]
<1>1. /\ p \in PoolRuntime /\ req \in [Requests -> Request] /\ req[r] \in Request
      /\ m \in Members
  BY ActivatorAssumption DEF Sound
<1>2. p.inflight[m] \in Nat /\ p.inflight[m] > 0
  <2>1. BusyOn(req, m) \in SUBSET Requests /\ r \in BusyOn(req, m)
    BY DEF BusyOn, Busy
  <2>2. IsFiniteSet(BusyOn(req, m)) /\ Cardinality(BusyOn(req, m)) # 0
    BY <2>1, MembersAssumption, FS_Subset, FS_EmptySet
  <2>3. p.inflight[m] = Cardinality(BusyOn(req, m)) /\ p.inflight[m] \in Nat
    BY <1>1, CountIsNat DEF Sound, Counted
  <2> QED BY <2>2, <2>3
<1>3. /\ pr' = [p EXCEPT !.inflight[m] = k]
      /\ req' = IF k = 0 THEN Notify(done) ELSE done
  BY <1>2 DEF Release
<1>4. j \in Request /\ j.pc = "idle"
  BY <1>1, Zenon DEF Request, PCs
<1> HIDE DEF j
<1>5. /\ done \in [Requests -> Request] /\ done[r] = j
      /\ \A s \in Requests \ {r} : done[s] = req[s]
  BY <1>1, <1>4
<1> HIDE DEF done
<1>6. /\ req' \in [Requests -> Request] /\ req'[r].pc = "idle"
      /\ \A s \in Requests : s # r => /\ req'[s].pc = req[s].pc /\ req'[s].result = req[s].result
                                      /\ req'[s].arrivalGen = req[s].arrivalGen
  BY <1>3, <1>4, <1>5, NotifyFacts
<1>7. /\ pr' \in PoolRuntime /\ pr'.swapping = p.swapping /\ pr'.swapGen = p.swapGen
      /\ pr'.swapTarget = p.swapTarget /\ pr'.resident = p.resident
      /\ pr'.swapErr = p.swapErr /\ pr'.waiting = p.waiting
      /\ \A n \in Members : pr'.inflight[n] = p.inflight[n] - Bit(n = m)
  <2>1. pr' = [p EXCEPT !.inflight = [p.inflight EXCEPT ![m] = k]]
    BY <1>3
  <2>2. [p.inflight EXCEPT ![m] = k] \in [Members -> Int]
    BY <1>1 DEF PoolRuntime
  <2> QED BY <1>1, <2>1, <2>2 DEF PoolRuntime, Bit
<1>8. Counted(pr', req')
  <2>1. ~Queued(req[r]) /\ ~Queued(req'[r]) /\ Busy(req[r]) /\ ~Busy(req'[r])
    BY <1>6 DEF Busy, Queued
  <2>2. Moves(p, pr', req, req', r)
    BY <1>1, <1>6, <1>7, <2>1 DEF Moves, PoolRuntime, Bit, Busy, Queued
  <2> QED BY <2>2, CountedMove DEF Sound
<1>9. SwapConsistent(pr', swap') /\ ArrivalGen(pr') = ArrivalGen(p)
  <2>1. p.swapping /\ p.resident # None => p.resident \in Members /\ p.resident # m
    BY <1>1, <1>2 DEF Sound, SwapConsistent, PoolRuntime
  <2> QED BY <1>7, <2>1 DEF Sound, SwapConsistent, ArrivalGen, Bit
<1>10. Ordered(pr', req')
  BY <1>6, <1>7, <1>9 DEF Sound, Ordered
<1>11. Wakeable(pr', req')
  <2>1. CASE k = 0
    BY <1>3, <1>5, <2>1, NotifyFacts DEF Wakeable
  <2>2. CASE k # 0
    <3>1. pr'.inflight[m] = k /\ k > 0
      BY <1>1, <1>2, <1>7, <2>2 DEF Bit
    <3> QED BY <1>1, <3>1 DEF Wakeable
  <2> QED BY <2>1, <2>2
<1> QED BY <1>6, <1>7, <1>8, <1>9, <1>10, <1>11 DEF Sound

\* InvalidateResident forgets when the belief was checked, nothing else.
LEMMA InvalidatedSound ==
    ASSUME Sound(pr, swap, req)
    PROVE  Sound([pr EXCEPT !.checked = FALSE], swap, req)
<1> DEFINE p == [pr EXCEPT !.checked = FALSE]
<1>1. pr \in PoolRuntime
  BY DEF Sound
<1>2. /\ p \in PoolRuntime /\ p.swapping = pr.swapping /\ p.swapGen = pr.swapGen
      /\ p.swapTarget = pr.swapTarget /\ p.resident = pr.resident
      /\ p.swapErr = pr.swapErr /\ p.waiting = pr.waiting /\ p.inflight = pr.inflight
  BY <1>1, Zenon DEF PoolRuntime
<1> HIDE DEF p
<1>3. Counted(p, req) /\ SwapConsistent(p, swap) /\ Wakeable(p, req)
  BY <1>2 DEF Sound, Counted, SwapConsistent, Wakeable
<1>4. Ordered(p, req)
  BY <1>2 DEF Sound, Ordered, ArrivalGen
<1>5. Sound(p, swap, req)
  BY <1>2, <1>3, <1>4 DEF Sound
<1> QED BY <1>5 DEF p
----------------------------------------------------------------------------
(* The goroutine of startSwap, and a restart *)

\* The steps of the goroutine before it publishes touch neither the runtime
\* nor the requests.
LEMMA SwapStepSound ==
    ASSUME Sound(pr, swap, req), SwapActivate \/ SwapWaitReady \/ SwapDeadline
    PROVE  Sound(pr', swap', req')
<1>1. /\ pr' = pr /\ req' = req
      /\ swap # "none" /\ swap' \in SwapSteps \ {"none"}
  BY DEF SwapActivate, SwapWaitReady, SwapDeadline, SwapSteps
<1>2. SwapConsistent(pr', swap')
  BY <1>1 DEF Sound, SwapConsistent
<1> QED BY <1>1, <1>2 DEF Sound

\* The goroutine publishes a new resident, or the failure of its generation.
LEMMA SwapPublishSound ==
    ASSUME Sound(pr, swap, req), SwapPublish
    PROVE  Sound(pr', swap', req')
<1>1. /\ pr \in PoolRuntime /\ req \in [Requests -> Request]
      /\ swap # "none" /\ pr.swapping /\ pr.swapTarget \in Members /\ pr.swapGen \in Nat
  BY DEF Sound, SwapConsistent, SwapPublish, PoolRuntime
<1>2. req' = Notify(req) /\ swap' = "none"
  BY DEF SwapPublish
<1>3. /\ req' \in [Requests -> Request]
      /\ \A s \in Requests : /\ req'[s].pc = req[s].pc /\ req'[s].result = req[s].result
                             /\ req'[s].arrivalGen = req[s].arrivalGen
                             /\ req'[s].woken <=> req[s].pc = "waiting"
  BY <1>1, <1>2, NotifyFacts
<1> DEFINE p == [pr EXCEPT !.swapping = FALSE, !.swapTarget = None]
           errs == [pr.swapErr EXCEPT ![pr.swapTarget] = pr.swapGen]
<1>4. /\ pr' \in PoolRuntime /\ ~pr'.swapping /\ pr'.swapGen = pr.swapGen
      /\ pr'.inflight = pr.inflight /\ pr'.waiting = pr.waiting
      /\ pr'.swapErr \in {pr.swapErr, errs}
  <2>1. CASE swap = "ready"
    <3>1. pr' = [p EXCEPT !.resident = pr.swapTarget, !.checked = TRUE]
      BY <2>1 DEF SwapPublish
    <3> QED BY <1>1, <3>1, Zenon DEF PoolRuntime
  <2>2. CASE swap # "ready"
    <3>1. pr' = [p EXCEPT !.swapErr = errs]
      BY <1>1, <2>2 DEF SwapPublish, PoolRuntime
    <3>2. errs \in [Members -> Nat]
      BY <1>1 DEF PoolRuntime
    <3> HIDE DEF errs
    <3> QED BY <1>1, <3>1, <3>2, Zenon DEF PoolRuntime
  <2> QED BY <2>1, <2>2
<1>5. Counted(pr', req')
  <2>1. \A m \in Members : /\ BusyOn(req', m) = BusyOn(req, m)
                           /\ QueuedFor(req', m) = QueuedFor(req, m)
    BY <1>3 DEF BusyOn, QueuedFor, Busy, Queued
  <2> QED BY <1>4, <2>1 DEF Sound, Counted
<1>6. SwapConsistent(pr', swap') /\ Wakeable(pr', req')
  BY <1>2, <1>3, <1>4 DEF SwapConsistent, Wakeable
<1>7. Ordered(pr', req')
  <2>1. ArrivalGen(pr) = pr.swapGen /\ ArrivalGen(pr') = pr.swapGen + 1
    BY <1>1, <1>4 DEF ArrivalGen
  <2>2. \A m \in Members : pr.swapErr[m] \in Nat /\ pr.swapErr[m] < pr.swapGen
    BY <1>1, <2>1 DEF Sound, Ordered, PoolRuntime
  <2>3. \A m \in Members : pr'.swapErr[m] <= pr.swapGen /\ pr'.swapErr[m] \in Nat
    BY <1>1, <1>4, <2>2 DEF PoolRuntime
  <2>4. \A s \in Requests : req[s].arrivalGen \in Nat
                /\ (req[s].pc = "waiting" => req[s].arrivalGen <= pr.swapGen)
    BY <1>1, <2>1 DEF Sound, Ordered, Request
  <2> QED BY <1>1, <1>3, <2>1, <2>3, <2>4 DEF Ordered
<1> QED BY <1>2, <1>3, <1>4, <1>5, <1>6, <1>7 DEF Sound, SwapSteps

\* A proxy that starts has nothing in flight, nobody waiting and no swap.
LEMMA ColdSound ==
    ASSUME NEW rs, rs = [r \in Requests |-> NewRequest]
    PROVE  Sound(ColdRuntime, "none", rs)
<1>1. NewRequest \in Request /\ NewRequest.pc = "idle"
  BY DEF NewRequest, Request, PCs, AcquireResults
<1>2. rs \in [Requests -> Request] /\ \A r \in Requests : rs[r].pc = "idle"
  BY <1>1
<1>3. /\ ColdRuntime \in PoolRuntime /\ ~ColdRuntime.swapping /\ ColdRuntime.swapGen = 0
      /\ \A m \in Members : /\ ColdRuntime.swapErr[m] = 0
                            /\ ColdRuntime.inflight[m] = 0 /\ ColdRuntime.waiting[m] = 0
  BY DEF ColdRuntime, PoolRuntime
<1>4. Counted(ColdRuntime, rs)
  <2>1. \A m \in Members : BusyOn(rs, m) = {} /\ QueuedFor(rs, m) = {}
    BY <1>2 DEF BusyOn, QueuedFor, Busy, Queued
  <2> QED BY <1>3, <2>1, FS_EmptySet DEF Counted
<1>5. SwapConsistent(ColdRuntime, "none") /\ Ordered(ColdRuntime, rs) /\ Wakeable(ColdRuntime, rs)
  BY <1>2, <1>3 DEF SwapConsistent, Ordered, Wakeable, ArrivalGen
<1> QED BY <1>2, <1>3, <1>4, <1>5 DEF Sound, SwapSteps

\* No step of the Activator leaves its runtime unsound.
LEMMA ActivatorStepSound ==
    ASSUME Sound(pr, swap, req), ActivatorNext
    PROVE  Sound(pr', swap', req')
<1>1. ASSUME NEW r \in Requests, Arrive(r) PROVE Sound(pr', swap', req')
  BY <1>1, ArriveSound
<1>2. ASSUME NEW r \in Requests, Wake(r) PROVE Sound(pr', swap', req')
  BY <1>2, EvaluateSound DEF Wake
<1>3. ASSUME NEW r \in Requests, GiveUp(r) PROVE Sound(pr', swap', req')
  BY <1>3, ReturnSound DEF GiveUp, AcquireResults
<1>4. ASSUME NEW r \in Requests, Leave(r) PROVE Sound(pr', swap', req')
  BY <1>4, LeaveSound
<1>5. ASSUME NEW r \in Requests, DispatchFails(r) PROVE Sound(pr', swap', req')
  <2>1. Sound(IF pr.swapping THEN pr ELSE [pr EXCEPT !.checked = FALSE], swap, req)
    BY InvalidatedSound
  <2> QED BY <1>5, <2>1, ReleaseSound DEF DispatchFails
<1>6. ASSUME NEW r \in Requests, Finish(r) PROVE Sound(pr', swap', req')
  BY <1>6, ReleaseSound DEF Finish
<1>7. CASE SwapActivate \/ SwapWaitReady \/ SwapDeadline
  BY <1>7, SwapStepSound
<1>8. CASE SwapPublish
  BY <1>8, SwapPublishSound
<1>9. ASSUME NEW m \in Members, DeactivateIfUnwanted(m) PROVE Sound(pr', swap', req')
  <2>1. pr' = pr /\ swap' = swap /\ req' = req
    BY <1>9 DEF DeactivateIfUnwanted
  <2> QED BY <2>1
<1>10. CASE ProxyRestart
  <2>1. pr' = ColdRuntime /\ swap' = "none" /\ req' = [r \in Requests |-> NewRequest]
    BY <1>10 DEF ProxyRestart
  <2> QED BY <2>1, ColdSound
<1> QED BY <1>1, <1>2, <1>3, <1>4, <1>5, <1>6, <1>7, <1>8, <1>9, <1>10 DEF ActivatorNext
----------------------------------------------------------------------------
(* The types of what the Activator shares with the cluster *)

SharedTypeOK ==
    /\ MembersTypeOK
    /\ unwanted \in [Members -> 0..MaxGoroutines]
    /\ left.swaps \in Nat /\ left.sends \in [Requests -> Nat]

\* A swap starts only while the budget has one left.
LEMMA SwapsSpent ==
    ASSUME NEW r \in Requests, NEW p, NEW rs, Evaluate(r, p, rs)
    PROVE  swap' = swap \/ left.swaps > 0
BY Zenon DEF Evaluate, Return, Hold, StartSwap

\* What a step spends was there to be spent.
LEMMA SpendType ==
    ASSUME SharedTypeOK, NEW rs \in SUBSET Requests, \A r \in rs : left.sends[r] > 0,
           swap' = swap \/ left.swaps > 0, Spend(rs)
    PROVE  left'.swaps \in Nat /\ left'.sends \in [Requests -> Nat]
<1> DEFINE sends == [r \in Requests |-> IF r \in rs THEN left.sends[r] - 1 ELSE left.sends[r]]
           swaps == IF swap' = swap THEN left.swaps ELSE left.swaps - 1
<1>1. left' = [swaps |-> swaps, sends |-> sends]
  BY DEF Spend
<1>2. swaps \in Nat
  BY DEF SharedTypeOK
<1>3. sends \in [Requests -> Nat]
  BY DEF SharedTypeOK
<1> QED BY <1>1, <1>2, <1>3

\* A fault is counted and stays within its bound.
LEMMA FaultType ==
    ASSUME MembersTypeOK, Fault
    PROVE  faults' \in 0..MaxFaults /\ disturbed' \in BOOLEAN
BY MembersAssumption DEF MembersTypeOK, Fault

\* Deactivate sets a replica count, or fails.
LEMMA DeactivateType ==
    ASSUME MembersTypeOK, NEW m \in Members, Deactivate(m)
    PROVE  /\ replicas' \in [Members -> {0, 1}]
           /\ faults' \in 0..MaxFaults /\ disturbed' \in BOOLEAN
BY FaultType DEF MembersTypeOK, Deactivate

\* The Activator keeps the types of the state it shares.
LEMMA ActivatorStepType ==
    ASSUME Sound(pr, swap, req), SharedTypeOK, ActivatorNext
    PROVE  SharedTypeOK'
<1> USE DEF SharedTypeOK
<1>1. ASSUME NEW r \in Requests, Arrive(r) PROVE SharedTypeOK'
  <2>1. left'.swaps \in Nat /\ left'.sends \in [Requests -> Nat]
    <3>1. swap' = swap \/ left.swaps > 0
      BY <1>1, SwapsSpent, Zenon DEF Arrive, Register
    <3>2. Spend({r}) /\ left.sends[r] > 0
      BY <1>1 DEF Arrive
    <3> QED BY <3>1, <3>2, SpendType
  <2>2. faults' \in 0..MaxFaults /\ disturbed' \in BOOLEAN
    BY <1>1, FaultType DEF Arrive, MembersTypeOK
  <2> QED BY <1>1, <2>1, <2>2 DEF Arrive, MembersTypeOK
<1>2. ASSUME NEW r \in Requests, Wake(r) PROVE SharedTypeOK'
  <2>1. left'.swaps \in Nat /\ left'.sends \in [Requests -> Nat]
    BY <1>2, SwapsSpent, SpendType DEF Wake
  <2> QED BY <1>2, <2>1 DEF Wake, memberVars, MembersTypeOK
<1>3. ASSUME NEW r \in Requests, GiveUp(r) PROVE SharedTypeOK'
  BY <1>3 DEF GiveUp, memberVars, MembersTypeOK
<1>4. ASSUME NEW r \in Requests, Leave(r) PROVE SharedTypeOK'
  <2>1. Target[r] \in Members
    BY ActivatorAssumption
  <2>2. unwanted' \in [Members -> 0..MaxGoroutines]
    BY <1>4, <2>1, ActivatorAssumption DEF Leave
  <2>3. load' \in [Members -> SUBSET Requests]
    BY <1>4, <2>1 DEF Leave, MembersTypeOK
  <2> QED BY <1>4, <2>2, <2>3 DEF Leave, MembersTypeOK
<1>5. ASSUME NEW r \in Requests, DispatchFails(r) \/ Finish(r) PROVE SharedTypeOK'
  <2>1. load' \in [Members -> SUBSET Requests]
    BY <1>5, ActivatorAssumption DEF DispatchFails, Finish, MembersTypeOK
  <2> QED BY <1>5, <2>1 DEF DispatchFails, Finish, MembersTypeOK
<1>6. CASE SwapActivate \/ SwapWaitReady \/ SwapDeadline
  <2>1. pr.swapTarget \in Members
    BY <1>6 DEF Sound, SwapConsistent, SwapActivate, SwapWaitReady, SwapDeadline
  <2>2. faults' \in 0..MaxFaults /\ disturbed' \in BOOLEAN
    BY <1>6, FaultType DEF SwapActivate, SwapWaitReady, SwapDeadline, MembersTypeOK
  <2>3. replicas' \in [Members -> {0, 1}]
    BY <1>6, <2>1 DEF SwapActivate, SwapWaitReady, SwapDeadline, MembersTypeOK
  <2> QED BY <1>6, <2>2, <2>3 DEF SwapActivate, SwapWaitReady, SwapDeadline, MembersTypeOK
<1>7. CASE SwapPublish
  <2>1. pr.swapTarget \in Members
    BY <1>7 DEF Sound, SwapConsistent, SwapPublish
  <2>2. Deactivate(pr.swapTarget) \/ UNCHANGED <<replicas, faults, disturbed>>
    BY <1>7 DEF SwapPublish
  <2>3. /\ replicas' \in [Members -> {0, 1}]
        /\ faults' \in 0..MaxFaults /\ disturbed' \in BOOLEAN
    BY <2>1, <2>2, DeactivateType DEF MembersTypeOK
  <2> QED BY <1>7, <2>3 DEF SwapPublish, MembersTypeOK
<1>8. ASSUME NEW m \in Members, DeactivateIfUnwanted(m) PROVE SharedTypeOK'
  <2>1. unwanted' \in [Members -> 0..MaxGoroutines]
    BY <1>8, ActivatorAssumption DEF DeactivateIfUnwanted
  <2>2. Deactivate(m) \/ UNCHANGED <<replicas, faults, disturbed>>
    BY <1>8 DEF DeactivateIfUnwanted
  <2>3. /\ replicas' \in [Members -> {0, 1}]
        /\ faults' \in 0..MaxFaults /\ disturbed' \in BOOLEAN
    BY <2>2, DeactivateType DEF MembersTypeOK
  <2> QED BY <1>8, <2>1, <2>3 DEF DeactivateIfUnwanted, MembersTypeOK
<1>9. CASE ProxyRestart
  <2>1. unwanted' \in [Members -> 0..MaxGoroutines] /\ load' \in [Members -> SUBSET Requests]
    BY <1>9, ActivatorAssumption DEF ProxyRestart
  <2>2. faults' \in 0..MaxFaults /\ disturbed' \in BOOLEAN
    BY <1>9, FaultType DEF ProxyRestart
  <2> QED BY <1>9, <2>1, <2>2 DEF ProxyRestart, MembersTypeOK
<1> QED BY <1>1, <1>2, <1>3, <1>4, <1>5, <1>6, <1>7, <1>8, <1>9 DEF ActivatorNext

\* The two halves of the invariant are kept by every step of the Activator.
LEMMA ActivatorStep ==
    ASSUME ActivatorInductive, ActivatorNext
    PROVE  ActivatorInductive'
<1>1. Sound(pr, swap, req) /\ SharedTypeOK
  BY DEF ActivatorInductive, ActivatorTypeOK, SharedTypeOK
<1>2. Sound(pr', swap', req') /\ SharedTypeOK'
  BY <1>1, ActivatorStepSound, ActivatorStepType
<1> QED BY <1>2 DEF ActivatorInductive, ActivatorTypeOK, SharedTypeOK, Sound

\* Members and Activator start as the invariant says.
LEMMA ActivatorStart ==
    ASSUME MembersInit, ActivatorInit
    PROVE  ActivatorInductive
<1>1. Sound(pr, swap, req)
  BY ColdSound DEF ActivatorInit
<1>2. MembersTypeOK
  <2>1. phase \in [Members -> BOOLEAN]
    BY Zenon DEF MembersInit
  <2>2. replicas \in [Members -> {0, 1}] /\ pod \in [Members -> PodStates]
    BY DEF MembersInit, PodStates
  <2>3. load \in [Members -> SUBSET Requests]
    BY DEF MembersInit
  <2>4. faults = 0 /\ disturbed = FALSE /\ MaxFaults \in Nat
    BY MembersAssumption, Zenon DEF MembersInit
  <2>5. faults \in 0..MaxFaults
    BY <2>4
  <2> QED BY <2>1, <2>2, <2>3, <2>4, <2>5, Zenon DEF MembersTypeOK
<1>3. unwanted \in [Members -> 0..MaxGoroutines] /\ left.swaps \in Nat /\ left.sends \in [Requests -> Nat]
  BY ActivatorAssumption DEF ActivatorInit
<1> QED BY <1>1, <1>2, <1>3 DEF ActivatorInductive, ActivatorTypeOK, Sound

----------------------------------------------------------------------------
(* Where the failure of a swap goes, and whom the proxy scales down *)

\* What the loop of AcquireWithMode leaves as it was, and when it fails.
LEMMA EvaluateOutcome ==
    ASSUME NEW r \in Requests, NEW p \in PoolRuntime, NEW rs \in [Requests -> Request],
           Evaluate(r, p, rs)
    PROVE  /\ pr'.swapErr = p.swapErr
           /\ \A s \in Requests \ {r} : req'[s].pc = rs[s].pc
           /\ req'[r].pc = "leaving" /\ req'[r].result = "swapFailed"
                => Failed(p, Target[r], rs[r].arrivalGen)
<1>1. rs[r] \in Request /\ Notify(rs) \in [Requests -> Request] /\ Notify(rs)[r] \in Request
  BY NotifyFacts
<1>2. ASSUME NEW q, NEW res, Return(r, q, rs, res)
      PROVE  /\ pr' = q /\ req'[r].pc = "leaving" /\ req'[r].result = res
             /\ \A s \in Requests \ {r} : req'[s].pc = rs[s].pc
  BY <1>1, <1>2, Zenon DEF Return, Request
<1>3. CASE /\ Failed(p, Target[r], rs[r].arrivalGen) /\ Return(r, p, rs, "swapFailed")
  BY <1>2, <1>3
<1>4. CASE Return(r, p, rs, "incumbentBusy")
  <2>1. /\ pr' = p /\ req'[r].result = "incumbentBusy"
        /\ \A s \in Requests \ {r} : req'[s].pc = rs[s].pc
    BY <1>2, <1>4
  <2> QED BY <2>1
<1>5. CASE Return(r, [p EXCEPT !.inflight[Target[r]] = @ + 1], rs, "acquired")
  <2>1. /\ pr' = [p EXCEPT !.inflight[Target[r]] = @ + 1] /\ req'[r].result = "acquired"
        /\ \A s \in Requests \ {r} : req'[s].pc = rs[s].pc
    BY <1>2, <1>5
  <2>2. pr'.swapErr = p.swapErr
    BY <2>1 DEF PoolRuntime
  <2> QED BY <2>1, <2>2
<1>6. CASE StartSwap(r, p, rs)
  <2> DEFINE j == [Notify(rs)[r] EXCEPT !.pc = "waiting", !.woken = FALSE]
  <2>1. j.pc = "waiting"
    BY <1>1, Zenon DEF Request
  <2>2. req' = [Notify(rs) EXCEPT ![r] = j]
    BY <1>6 DEF StartSwap
  <2> HIDE DEF j
  <2>3. req'[r].pc = "waiting" /\ \A s \in Requests \ {r} : req'[s].pc = rs[s].pc
    BY <1>1, <2>1, <2>2, NotifyFacts
  <2>4. pr'.swapErr = p.swapErr
    BY <1>6 DEF StartSwap, PoolRuntime
  <2> QED BY <2>3, <2>4
<1>7. CASE Hold(r, p, rs)
  <2>1. pr' = p /\ req'[r].pc = "waiting" /\ \A s \in Requests \ {r} : req'[s].pc = rs[s].pc
    BY <1>1, <1>7, Zenon DEF Hold, Request
  <2> QED BY <2>1
<1> QED BY <1>3, <1>4, <1>5, <1>6, <1>7 DEF Evaluate

\* A request that arrives takes no recorded failure as its own.
LEMMA ArriveOutcome ==
    ASSUME Sound(pr, swap, req), NEW r \in Requests, Arrive(r)
    PROVE  /\ pr'.swapErr = pr.swapErr
           /\ \A s \in Requests \ {r} : req'[s].pc = req[s].pc
           /\ ~(req'[r].pc = "leaving" /\ req'[r].result = "swapFailed")
<1>1. PICK p : /\ p \in ReconcileResident(pr) \/ (~pr.swapping /\ p \in ReconcileFails(pr))
               /\ Register(r, p)
  BY Zenon DEF Arrive
<1>2. Sound(p, swap, req)
  BY <1>1, ReconciledSound
<1>3. p \in PoolRuntime /\ req \in [Requests -> Request] /\ req[r] \in Request /\ Target[r] \in Members
  BY <1>2, ActivatorAssumption DEF Sound
<1>4. p.swapErr = pr.swapErr
  <2>1. pr \in PoolRuntime
    BY DEF Sound
  <2>2. p = pr \/ \E m : p = [pr EXCEPT !.checked = TRUE, !.resident = m]
    BY <1>1, Zenon DEF ReconcileResident, ReconcileFails
  <2> QED BY <2>1, <2>2, Zenon DEF PoolRuntime
<1> DEFINE q == [p EXCEPT !.waiting[Target[r]] = @ + 1]
<1>5. PICK mode \in BOOLEAN :
          Evaluate(r, q, [req EXCEPT ![r] = [@ EXCEPT !.arrivalGen = ArrivalGen(p), !.ifIdle = mode]])
  BY <1>1, Zenon DEF Register
<1> DEFINE rs == [req EXCEPT ![r] = [@ EXCEPT !.arrivalGen = ArrivalGen(p), !.ifIdle = mode]]
<1>6. q \in PoolRuntime /\ q.swapErr = p.swapErr
  <2>1. q = [p EXCEPT !.waiting = [p.waiting EXCEPT ![Target[r]] = p.waiting[Target[r]] + 1]]
    OBVIOUS
  <2>2. [p.waiting EXCEPT ![Target[r]] = p.waiting[Target[r]] + 1] \in [Members -> Int]
    BY <1>3 DEF PoolRuntime
  <2> QED BY <1>3, <2>1, <2>2 DEF PoolRuntime
<1>7. /\ rs \in [Requests -> Request] /\ rs[r].arrivalGen = ArrivalGen(p)
      /\ \A s \in Requests \ {r} : rs[s] = req[s]
  <2>1. ArrivalGen(p) \in Nat
    BY <1>3 DEF ArrivalGen, PoolRuntime
  <2> DEFINE k == [req[r] EXCEPT !.arrivalGen = ArrivalGen(p), !.ifIdle = mode]
  <2>2. k \in Request /\ k.arrivalGen = ArrivalGen(p)
    BY <1>3, <2>1, Zenon DEF Request
  <2>3. rs = [req EXCEPT ![r] = k]
    OBVIOUS
  <2> HIDE DEF k, rs
  <2> QED BY <1>3, <2>2, <2>3
<1>8. ~Failed(q, Target[r], rs[r].arrivalGen)
  <2>1. p.swapErr[Target[r]] < ArrivalGen(p)
    BY <1>2, <1>3 DEF Sound, Ordered
  <2>2. p.swapErr[Target[r]] \in Nat /\ ArrivalGen(p) \in Nat
    BY <1>3 DEF PoolRuntime, ArrivalGen
  <2> HIDE DEF q, rs
  <2> QED BY <1>6, <1>7, <2>1, <2>2 DEF Failed
<1> HIDE DEF q, rs
<1>9. Evaluate(r, q, rs)
  BY <1>5 DEF q, rs
<1>10. /\ pr'.swapErr = q.swapErr
       /\ \A s \in Requests \ {r} : req'[s].pc = rs[s].pc
       /\ req'[r].pc = "leaving" /\ req'[r].result = "swapFailed"
             => Failed(q, Target[r], rs[r].arrivalGen)
  BY <1>6, <1>7, <1>9, EvaluateOutcome
<1> QED BY <1>4, <1>6, <1>7, <1>8, <1>10
\* What FailureMeetsItsWaiters says of request r in one step.
FailureStep(r) ==
    /\ pr'.swapErr # pr.swapErr /\ pr'.swapGen = pr.swapGen
       /\ req[r].pc = "waiting" /\ Target[r] = pr.swapTarget
       => req'[r].woken /\ Failed(pr', Target[r], req'[r].arrivalGen)
    /\ req[r].pc = "idle" /\ req'[r].pc = "leaving"
       => req'[r].result # "swapFailed"

\* A step that records no failure and lets no other request than one that was
\* not idle leave.
LEMMA NoFailureRecorded ==
    ASSUME pr'.swapErr = pr.swapErr,
           \A s \in Requests : req[s].pc = "idle" => req'[s].pc = "idle",
           NEW r \in Requests
    PROVE  FailureStep(r)
BY DEF FailureStep

\* One step of the Activator, for every request.
LEMMA ActivatorFailureStep ==
    ASSUME ActivatorInductive, ActivatorNext
    PROVE  \A r \in Requests : FailureStep(r)
<1>1. Sound(pr, swap, req) /\ pr \in PoolRuntime /\ req \in [Requests -> Request]
  BY DEF ActivatorInductive, Sound
<1>2. ASSUME NEW s \in Requests, Arrive(s) PROVE \A r \in Requests : FailureStep(r)
  BY <1>1, <1>2, ArriveOutcome DEF FailureStep
<1>3. ASSUME NEW s \in Requests, Wake(s) PROVE \A r \in Requests : FailureStep(r)
  <2>1. /\ pr'.swapErr = pr.swapErr /\ req[s].pc = "waiting"
        /\ \A r \in Requests \ {s} : req'[r].pc = req[r].pc
    BY <1>1, <1>3, EvaluateOutcome DEF Wake
  <2> QED BY <2>1, NoFailureRecorded
<1>4. ASSUME NEW s \in Requests, GiveUp(s) PROVE \A r \in Requests : FailureStep(r)
  <2>1. /\ pr' = pr /\ req[s].pc = "waiting"
        /\ \A r \in Requests \ {s} : req'[r] = req[r]
    BY <1>1, <1>4 DEF GiveUp, Return
  <2> QED BY <2>1, NoFailureRecorded
<1>5. ASSUME NEW s \in Requests, Leave(s) PROVE \A r \in Requests : FailureStep(r)
  <2>1. /\ pr'.swapErr = pr.swapErr /\ req[s].pc = "leaving"
        /\ \A r \in Requests \ {s} : req'[r] = req[r]
    BY <1>1, <1>5 DEF Leave, PoolRuntime
  <2> QED BY <2>1, NoFailureRecorded
<1>6. ASSUME NEW s \in Requests, DispatchFails(s) \/ Finish(s)
      PROVE  \A r \in Requests : FailureStep(r)
  <2> DEFINE done == [req EXCEPT ![s] = [@ EXCEPT !.pc = "idle"]]
  <2>1. req[s].pc = "dispatched" /\ \E p \in {pr, [pr EXCEPT !.checked = FALSE]} : Release(s, p)
    BY <1>6 DEF DispatchFails, Finish
  <2>2. PICK p \in {pr, [pr EXCEPT !.checked = FALSE]} : Release(s, p)
    BY <2>1, Zenon
  <2>3. p \in PoolRuntime /\ p.swapErr = pr.swapErr
    BY <1>1, <2>2, Zenon DEF PoolRuntime
  <2>4. pr'.swapErr = pr.swapErr
    BY <2>2, <2>3 DEF Release, PoolRuntime
  <2>5. req' = done \/ req' = Notify(done)
    BY <2>2, Zenon DEF Release
  <2>6. done \in [Requests -> Request] /\ \A r \in Requests \ {s} : done[r] = req[r]
    <3>1. req[s] \in Request
      BY <1>1
    <3>2. [req[s] EXCEPT !.pc = "idle"] \in Request
      BY <3>1, Zenon DEF Request, PCs
    <3> QED BY <1>1, <3>2
  <2>7. \A r \in Requests \ {s} : req'[r].pc = req[r].pc
    BY <2>5, <2>6, NotifyFacts, Zenon
  <2> QED BY <2>1, <2>4, <2>7, NoFailureRecorded
<1>7. CASE SwapActivate \/ SwapWaitReady \/ SwapDeadline
  <2>1. pr' = pr /\ req' = req
    BY <1>7 DEF SwapActivate, SwapWaitReady, SwapDeadline
  <2> QED BY <2>1, NoFailureRecorded
<1>8. CASE SwapPublish
  <2>1. req' = Notify(req)
    BY <1>8 DEF SwapPublish
  <2>2. \A r \in Requests : /\ req'[r].pc = req[r].pc /\ req'[r].arrivalGen = req[r].arrivalGen
                            /\ req'[r].woken <=> req[r].pc = "waiting"
    BY <1>1, <2>1, NotifyFacts
  <2>3. pr.swapping /\ pr.swapTarget \in Members
    BY <1>1, <1>8 DEF Sound, SwapConsistent, SwapPublish
  <2>4. CASE swap = "ready"
    <3>1. pr'.swapErr = pr.swapErr
      BY <1>1, <1>8, <2>4, Zenon DEF SwapPublish, PoolRuntime
    <3> QED BY <2>2, <3>1, NoFailureRecorded
  <2>5. CASE swap # "ready"
    <3> DEFINE errs == [pr.swapErr EXCEPT ![pr.swapTarget] = pr.swapGen]
               p == [pr EXCEPT !.swapping = FALSE, !.swapTarget = None]
    <3>0. pr' = [p EXCEPT !.swapErr = errs]
      BY <1>1, <1>8, <2>5, Zenon DEF SwapPublish, PoolRuntime
    <3>1. pr'.swapErr[pr.swapTarget] = pr.swapGen
      <4>1. pr'.swapErr = errs
        BY <1>1, <3>0 DEF PoolRuntime
      <4> QED BY <1>1, <2>3, <4>1 DEF PoolRuntime
    <3>2. \A r \in Requests : req[r].pc = "waiting" => req[r].arrivalGen <= pr.swapGen
      BY <1>1, <2>3 DEF Sound, Ordered, ArrivalGen
    <3>3. \A r \in Requests : req[r].arrivalGen \in Nat /\ pr.swapGen \in Nat
      BY <1>1 DEF Request, PoolRuntime
    <3> QED BY <2>2, <3>1, <3>2, <3>3 DEF FailureStep, Failed
  <2> QED BY <2>4, <2>5
<1>9. ASSUME NEW m \in Members, DeactivateIfUnwanted(m) PROVE \A r \in Requests : FailureStep(r)
  <2>1. pr' = pr /\ req' = req
    BY <1>9 DEF DeactivateIfUnwanted
  <2> QED BY <2>1, NoFailureRecorded
<1>10. CASE ProxyRestart
  <2>1. /\ pr'.swapGen = 0 /\ pr'.swapErr = [m \in Members |-> 0]
        /\ \A r \in Requests : req'[r].pc = "idle"
    BY <1>10 DEF ProxyRestart, ColdRuntime, NewRequest
  <2>2. pr.swapGen = 0 => pr.swapErr = [m \in Members |-> 0]
    BY <1>1 DEF Sound, Ordered, ArrivalGen, PoolRuntime
  <2> QED BY <2>1, <2>2 DEF FailureStep
<1> QED BY <1>2, <1>3, <1>4, <1>5, <1>6, <1>7, <1>8, <1>9, <1>10 DEF ActivatorNext

\* The proxy scales down no member it holds for resident or is activating.
LEMMA ActivatorClaimStep ==
    ASSUME ActivatorInductive, ActivatorNext, NEW m \in Members,
           replicas[m] = 1, replicas'[m] = 0
    PROVE  pr'.resident # m /\ ~(pr'.swapping /\ pr'.swapTarget = m)
<1>1. Sound(pr, swap, req) /\ pr \in PoolRuntime /\ replicas \in [Members -> {0, 1}]
  BY DEF ActivatorInductive, Sound, ActivatorTypeOK, MembersTypeOK
<1>2. replicas' # replicas
  OBVIOUS
<1>3. \A r \in Requests : ~(\/ Arrive(r) \/ Wake(r) \/ GiveUp(r) \/ Leave(r)
                            \/ DispatchFails(r) \/ Finish(r))
  BY <1>2 DEF Arrive, Wake, GiveUp, Leave, DispatchFails, Finish, memberVars
<1>4. ~(SwapActivate \/ SwapWaitReady \/ SwapDeadline \/ ProxyRestart)
  BY <1>1, <1>2 DEF SwapActivate, SwapWaitReady, SwapDeadline, ProxyRestart
<1>5. CASE SwapPublish
  <2>1. pr.swapping /\ pr.swapTarget \in Members /\ pr.swapTarget # pr.resident
    BY <1>1, <1>5 DEF Sound, SwapConsistent, SwapPublish
  <2>2. swap # "ready" /\ Deactivate(pr.swapTarget)
    BY <1>2, <1>5 DEF SwapPublish
  <2>3. m = pr.swapTarget
    BY <1>1, <2>1, <2>2 DEF Deactivate
  <2>4. pr'.resident = pr.resident /\ ~pr'.swapping
    BY <1>1, <1>5, <2>2, Zenon DEF SwapPublish, PoolRuntime
  <2> QED BY <2>1, <2>3, <2>4
<1>6. ASSUME NEW n \in Members, DeactivateIfUnwanted(n)
      PROVE  pr'.resident # m /\ ~(pr'.swapping /\ pr'.swapTarget = m)
  <2>1. /\ ~(pr.resident = n) /\ ~(pr.swapping /\ pr.swapTarget = n)
        /\ Deactivate(n) /\ pr' = pr
    BY <1>2, <1>6 DEF DeactivateIfUnwanted
  <2>2. n = m
    BY <1>1, <2>1 DEF Deactivate
  <2> QED BY <2>1, <2>2
<1> QED BY <1>3, <1>4, <1>5, <1>6 DEF ActivatorNext
=============================================================================
