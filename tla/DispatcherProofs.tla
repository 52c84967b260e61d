-------------------------- MODULE DispatcherProofs --------------------------
(***************************************************************************)
(* The load and health bookkeeping of the dispatcher is exact, for every   *)
(* set of Pods, every finite set of handlers and every rule.  The steps on *)
(* load records and on the endpoint set complete those of                  *)
(* DispatcherInvariant.                                                    *)
(***************************************************************************)
EXTENDS DispatcherInvariant

----------------------------------------------------------------------------
(* Load records *)

\* loadFor gives the record of the map or a new one, which the map then holds.
LEMMA LoadForAdds ==
    ASSUME LoadInv, NEW p \in Pods, NEW a \in Int, NEW b \in Int, LoadFor(p, a, b)
    PROVE  /\ LoadInv'
           /\ inflight' = [inflight EXCEPT ![p] = Added(inflight[p], LoadIndex(p), a)]
           /\ prefill' = [prefill EXCEPT ![p] = Added(prefill[p], LoadIndex(p), b)]
           /\ LoadIndex(p) \in 1..(Len(inflight[p]) + 1) /\ LoadIndex(p) <= Len(inflight'[p])
           /\ \A q \in Pods : Len(inflight'[q]) >= Len(inflight[q]) /\ Len(prefill'[q]) >= Len(prefill[q])
<1> DEFINE i == LoadIndex(p)
<1>1. /\ loads \in [Pods -> Nat] /\ loads[p] \in Nat /\ loads[p] <= Len(inflight[p])
      /\ inflight[p] \in Seq(Int) /\ prefill[p] \in Seq(Int) /\ Len(prefill[p]) = Len(inflight[p])
  BY DEF LoadInv
<1>2. i \in 1..(Len(inflight[p]) + 1) /\ (i = Len(inflight[p]) + 1 <=> loads[p] = 0)
  BY <1>1 DEF LoadIndex
<1>3. inflight' = [inflight EXCEPT ![p] = Added(inflight[p], i, a)]
  <2>1. CASE loads[p] = 0
    BY <1>2, <2>1, Zenon DEF LoadFor, Added
  <2>2. CASE loads[p] # 0
    <3>1. i = loads[p]
      BY <2>2 DEF LoadIndex
    <3>2. inflight' = [inflight EXCEPT ![p] = [inflight[p] EXCEPT ![i] = inflight[p][i] + a]]
      BY <2>2, <3>1, Zenon DEF LoadFor
    <3> QED BY <1>2, <2>2, <3>2, Zenon DEF Added
  <2> QED BY <2>1, <2>2
<1>4. prefill' = [prefill EXCEPT ![p] = Added(prefill[p], i, b)]
  <2>1. CASE loads[p] = 0
    BY <1>1, <1>2, <2>1, Zenon DEF LoadFor, Added
  <2>2. CASE loads[p] # 0
    <3>1. i = loads[p]
      BY <2>2 DEF LoadIndex
    <3>2. prefill' = [prefill EXCEPT ![p] = [prefill[p] EXCEPT ![i] = prefill[p][i] + b]]
      BY <2>2, <3>1, Zenon DEF LoadFor
    <3> QED BY <1>1, <1>2, <2>2, <3>2, Zenon DEF Added
  <2> QED BY <2>1, <2>2
<1>5. loads' = [loads EXCEPT ![p] = i]
  BY DEF LoadFor
<1> HIDE DEF i
<1>6. /\ Added(inflight[p], i, a) \in Seq(Int)
      /\ Len(Added(inflight[p], i, a)) = IF i = Len(inflight[p]) + 1 THEN Len(inflight[p]) + 1
                                         ELSE Len(inflight[p])
  BY <1>1, <1>2, AddedType
<1>7. /\ Added(prefill[p], i, b) \in Seq(Int)
      /\ Len(Added(prefill[p], i, b)) = IF i = Len(prefill[p]) + 1 THEN Len(prefill[p]) + 1
                                        ELSE Len(prefill[p])
  BY <1>1, <1>2, AddedType, Zenon
<1> DEFINE u == Added(inflight[p], i, a)
           v == Added(prefill[p], i, b)
           n == Len(inflight[p])
<1>9. /\ inflight' = [inflight EXCEPT ![p] = u] /\ prefill' = [prefill EXCEPT ![p] = v]
      /\ u \in Seq(Int) /\ v \in Seq(Int)
  BY <1>3, <1>4, <1>6, <1>7
<1>a. n \in Nat /\ i \in 1..(n + 1) /\ Len(u) = (IF i = n + 1 THEN n + 1 ELSE n) /\ Len(v) = Len(u)
  <2>1. n \in Nat /\ i \in 1..(n + 1)
    BY <1>1, <1>2
  <2>2. Len(u) = IF i = n + 1 THEN n + 1 ELSE n
    BY <1>6
  <2>3. Len(v) = IF i = n + 1 THEN n + 1 ELSE n
    BY <1>1, <1>7, Zenon
  <2> HIDE DEF u, v, n
  <2> QED BY <2>1, <2>2, <2>3
<1> HIDE DEF u, v
<1>8. Len(u) = Len(v) /\ i <= Len(u) /\ i \in Nat /\ Len(u) >= n
  <2> HIDE DEF n
  <2> QED BY <1>a
<1>10. /\ loads' \in [Pods -> Nat] /\ loads'[p] = i /\ inflight'[p] = u /\ prefill'[p] = v
       /\ inflight' \in [Pods -> Seq(Int)] /\ prefill' \in [Pods -> Seq(Int)]
       /\ \A q \in Pods \ {p} : loads'[q] = loads[q] /\ inflight'[q] = inflight[q] /\ prefill'[q] = prefill[q]
  BY <1>5, <1>8, <1>9 DEF LoadInv
<1>11. \A q \in Pods : /\ Len(prefill[q]) = Len(inflight[q]) /\ loads[q] <= Len(inflight[q])
                       /\ Len(inflight[q]) \in Nat
  BY DEF LoadInv
<1>12. ASSUME NEW q \in Pods
       PROVE  /\ Len(prefill'[q]) = Len(inflight'[q]) /\ loads'[q] <= Len(inflight'[q])
              /\ Len(inflight'[q]) >= Len(inflight[q]) /\ Len(prefill'[q]) >= Len(prefill[q])
  <2>1. CASE q = p
    BY <1>8, <1>10, <1>11, <2>1
  <2>2. CASE q # p
    <3>1. loads'[q] = loads[q] /\ inflight'[q] = inflight[q] /\ prefill'[q] = prefill[q]
      BY <1>10, <2>2, Zenon
    <3> QED BY <1>11, <3>1
  <2> QED BY <2>1, <2>2
<1>13. LoadInv'
  BY <1>10, <1>12 DEF LoadInv
<1>14. i <= Len(inflight'[p])
  BY <1>8, <1>10
<1> QED BY <1>2, <1>3, <1>4, <1>12, <1>13, <1>14 DEF i
\* What a step on the load records of a request leaves alone.
LEMMA HealthUntouched ==
    ASSUME DispatchInductive, UNCHANGED <<healthVars, watchVars>>
    PROVE  /\ HealthInv /\ LoadInv /\ CallInv /\ ExactInv /\ HealthInv' /\ WatchInv'
           /\ records' = records /\ rule' = rule
           /\ \A k \in HealthKeys : Len(records'[k]) >= Len(records[k])
BY DEF DispatchInductive, HealthInv, WatchInv, healthVars, watchVars

\* Request c alone moves, between the records its key and its number name.
LEMMA RecordsMove ==
    ASSUME CallInv, NEW c \in Callers, NEW s, call' = [call EXCEPT ![c] = s]
    PROVE  /\ \A x \in Callers \ {c} : /\ ByRequest(call')[x] = ByRequest(call)[x]
                                       /\ ByPrefill(call')[x] = ByPrefill(call)[x]
           /\ ByRequest(call)[c] = <<call[c].key, call[c].l>>
           /\ ByPrefill(call)[c] = <<call[c].key, call[c].f>>
           /\ ByRequest(call')[c] = <<s.key, s.l>> /\ ByPrefill(call')[c] = <<s.key, s.f>>
<1>1. /\ call'[c] = s /\ \A x \in Callers \ {c} : call'[x] = call[x]
  BY DEF CallInv
<1> QED BY <1>1 DEF ByRequest, ByPrefill

\* A record of the Pod is looked up, and the request counted on it: among those
\* in flight (a is 1), or those in prefill (b is 1).
Counted(old, new, i, a) == IF a = 1 THEN old = 0 /\ new = i ELSE new = old

LEMMA LoadTaken ==
    ASSUME DispatchInductive, NEW c \in Callers, NEW p \in Pods, call[c].key = p,
           NEW a \in {0, 1}, NEW b \in {0, 1}, LoadFor(p, a, b),
           NEW s \in Call, call' = [call EXCEPT ![c] = s], s.key = p,
           Counted(call[c].l, s.l, LoadIndex(p), a), Counted(call[c].f, s.f, LoadIndex(p), b),
           Standing(s, rule), s.pc # "mark",
           UNCHANGED <<healthVars, watchVars>>, expired' = expired
    PROVE  DispatchInductive'
<1> DEFINE i == LoadIndex(p)
<1>1. /\ HealthInv /\ LoadInv /\ CallInv /\ ExactInv /\ HealthInv' /\ WatchInv'
      /\ records' = records /\ rule' = rule
      /\ \A k \in HealthKeys : Len(records'[k]) >= Len(records[k])
  BY HealthUntouched
<1>2. /\ LoadInv'
      /\ inflight' = [inflight EXCEPT ![p] = Added(inflight[p], i, a)]
      /\ prefill' = [prefill EXCEPT ![p] = Added(prefill[p], i, b)]
      /\ i \in 1..(Len(inflight[p]) + 1) /\ i <= Len(inflight'[p])
      /\ \A q \in Pods : Len(inflight'[q]) >= Len(inflight[q]) /\ Len(prefill'[q]) >= Len(prefill[q])
  <2>1. a \in Int /\ b \in Int
    OBVIOUS
  <2> QED BY <1>1, <2>1, LoadForAdds
<1> HIDE DEF i
<1>3. /\ inflight \in [Pods -> Seq(Int)] /\ prefill \in [Pods -> Seq(Int)]
      /\ Len(prefill[p]) = Len(inflight[p]) /\ Len(inflight[p]) \in Nat
      /\ Len(prefill'[p]) = Len(inflight'[p]) /\ Len(inflight'[p]) \in Nat
  <2>1. /\ inflight \in [Pods -> Seq(Int)] /\ prefill \in [Pods -> Seq(Int)]
        /\ inflight' \in [Pods -> Seq(Int)]
        /\ Len(prefill[p]) = Len(inflight[p]) /\ Len(prefill'[p]) = Len(inflight'[p])
    BY <1>1, <1>2, Zenon DEF LoadInv
  <2>2. inflight[p] \in Seq(Int) /\ inflight'[p] \in Seq(Int)
    BY <2>1, Zenon
  <2>3. Len(inflight[p]) \in Nat /\ Len(inflight'[p]) \in Nat
    BY <2>2
  <2> QED BY <2>1, <2>3, Zenon
<1>4. CallInv'
  <2>1. Counting(s, inflight', prefill')
    <3>1. Counting(call[c], inflight, prefill) /\ call[c].l \in Nat /\ call[c].f \in Nat
      BY <1>1, CallFields
    <3>2. call[c].l <= Len(inflight[p]) /\ call[c].f <= Len(prefill[p])
      BY <3>1 DEF Counting
    <3>3. Len(inflight'[p]) >= Len(inflight[p]) /\ Len(prefill'[p]) >= Len(prefill[p]) /\ i \in Nat
      BY <1>2
    <3>4. s.l <= Len(inflight'[p])
      BY <1>2, <1>3, <3>1, <3>2, <3>3 DEF i, Counted
    <3>5. s.f <= Len(prefill'[p])
      BY <1>2, <1>3, <3>1, <3>2, <3>3 DEF i, Counted
    <3> QED BY <3>4, <3>5 DEF Counting
  <2>2. Standing(s, rule') /\ Marking(s, records')
    BY <1>1 DEF Marking
  <2> QED BY <1>1, <1>2, <2>1, <2>2, CallReplaced, Zenon
<1>5. ExactInv'
  <2>1. /\ \A x \in Callers \ {c} : /\ ByRequest(call')[x] = ByRequest(call)[x]
                                    /\ ByPrefill(call')[x] = ByPrefill(call)[x]
        /\ ByRequest(call)[c] = <<p, call[c].l>> /\ ByPrefill(call)[c] = <<p, call[c].f>>
        /\ ByRequest(call')[c] = <<p, s.l>> /\ ByPrefill(call')[c] = <<p, s.f>>
    <3>1. /\ \A x \in Callers \ {c} : /\ ByRequest(call')[x] = ByRequest(call)[x]
                                      /\ ByPrefill(call')[x] = ByPrefill(call)[x]
          /\ ByRequest(call)[c] = <<call[c].key, call[c].l>>
          /\ ByPrefill(call)[c] = <<call[c].key, call[c].f>>
          /\ ByRequest(call')[c] = <<s.key, s.l>> /\ ByPrefill(call')[c] = <<s.key, s.f>>
      BY <1>1, RecordsMove, Zenon
    <3> QED BY <3>1, Zenon
  <2>2. Within(inflight, ByRequest(call)) /\ Within(prefill, ByPrefill(call))
    BY <1>1, CountsWithin
  <2>3. Exact(inflight, ByRequest(call)) /\ Exact(prefill, ByPrefill(call))
    BY <1>1 DEF ExactInv
  <2>4. Takes(ByRequest(call), ByRequest(call'), c, p, i, a)
    BY <2>1, Zenon DEF Takes, i, Counted
  <2>5. Takes(ByPrefill(call), ByPrefill(call'), c, p, i, b)
    BY <2>1, Zenon DEF Takes, i, Counted
  <2>6. Adds(inflight, inflight', p, i, a)
    BY <1>2, Zenon DEF Adds
  <2>7. Adds(prefill, prefill', p, i, b)
    BY <1>2, <1>3, Zenon DEF Adds
  <2>8. Exact(inflight', ByRequest(call'))
    BY <1>3, <2>2, <2>3, <2>4, <2>6, ExactTaken, Zenon
  <2>9. Exact(prefill', ByPrefill(call'))
    BY <1>3, <2>2, <2>3, <2>5, <2>7, ExactTaken, Zenon
  <2> QED BY <2>8, <2>9 DEF ExactInv
<1>6. ExpiredInv'
  BY DEF DispatchInductive, ExpiredInv
<1> QED BY <1>1, <1>2, <1>4, <1>5, <1>6 DEF DispatchInductive

LEMMA TrackStep ==
    ASSUME DispatchInductive, NEW c \in Callers, Track(c)
    PROVE  DispatchInductive'
<1> DEFINE p == call[c].key
           pc == IF call[c].tokens THEN "prefill" ELSE "wait"
           s == [call[c] EXCEPT !.l = LoadIndex(p), !.pc = pc]
<1>1. /\ UNCHANGED <<healthVars, watchVars>> /\ expired' = expired /\ call[c].pc = "track"
      /\ LoadFor(p, 1, 0) /\ CallInv /\ LoadInv
  BY DEF Track, DispatchInductive
<1>2. call' = [call EXCEPT ![c] = s]
  BY Zenon DEF Track
<1>3. call[c] \in Call /\ Standing(call[c], rule)
  BY <1>1, CallFields
<1>4. p \in Pods /\ call[c].l = 0 /\ call[c].f = 0
  BY <1>1, <1>3 DEF Standing, Unplaced
<1>5. pc \in CallSteps /\ pc \in {"prefill", "wait"} /\ LoadIndex(p) \in Nat
  BY <1>1, <1>4 DEF CallSteps, LoadIndex, LoadInv
<1> HIDE DEF pc
<1>6. s \in Call
  BY <1>3, <1>5, Zenon DEF Call
<1>7. /\ s.l = LoadIndex(p) /\ s.pc = pc /\ s.key = p /\ s.f = call[c].f /\ s.at = call[c].at
  BY <1>3 DEF Call
<1> HIDE DEF s
<1>8. Standing(s, rule)
  BY <1>1, <1>3, <1>4, <1>5, <1>7 DEF Standing, Unplaced
<1>9. /\ Counted(call[c].l, s.l, LoadIndex(p), 1) /\ Counted(call[c].f, s.f, LoadIndex(p), 0)
      /\ 1 \in {0, 1} /\ 0 \in {0, 1} /\ s.pc # "mark"
  BY <1>4, <1>5, <1>7 DEF Counted
<1> QED BY <1>1, <1>2, <1>4, <1>6, <1>7, <1>8, <1>9, LoadTaken, Zenon

LEMMA TrackPrefillStep ==
    ASSUME DispatchInductive, NEW c \in Callers, TrackPrefill(c)
    PROVE  DispatchInductive'
<1> DEFINE p == call[c].key
           s == [call[c] EXCEPT !.f = LoadIndex(p), !.pc = "wait", !.tokens = FALSE]
<1>1. /\ UNCHANGED <<healthVars, watchVars>> /\ expired' = expired /\ call[c].pc = "prefill"
      /\ LoadFor(p, 0, 1) /\ CallInv /\ LoadInv
  BY DEF TrackPrefill, DispatchInductive
<1>2. call' = [call EXCEPT ![c] = s]
  BY Zenon DEF TrackPrefill
<1>3. call[c] \in Call /\ Standing(call[c], rule)
  BY <1>1, CallFields
<1>4. p \in Pods /\ call[c].f = 0
  BY <1>1, <1>3 DEF Standing, Unplaced
<1>5. "wait" \in CallSteps /\ FALSE \in BOOLEAN /\ LoadIndex(p) \in Nat
  BY <1>1, <1>4 DEF CallSteps, LoadIndex, LoadInv
<1>6. s \in Call
  BY <1>3, <1>5, Zenon DEF Call
<1>7. /\ s.f = LoadIndex(p) /\ s.pc = "wait" /\ s.key = p /\ s.l = call[c].l /\ s.at = call[c].at
  BY <1>3 DEF Call
<1> HIDE DEF s
<1>8. Standing(s, rule)
  BY <1>1, <1>3, <1>4, <1>7 DEF Standing, Unplaced
<1>9. /\ Counted(call[c].l, s.l, LoadIndex(p), 0) /\ Counted(call[c].f, s.f, LoadIndex(p), 1)
      /\ 1 \in {0, 1} /\ 0 \in {0, 1} /\ s.pc # "mark"
  BY <1>4, <1>7 DEF Counted
<1> QED BY <1>1, <1>2, <1>4, <1>6, <1>7, <1>8, <1>9, LoadTaken, Zenon
----------------------------------------------------------------------------
(* Releases *)

\* The prefill count a request holds is taken back.
LEMMA PrefillReleased ==
    ASSUME LoadInv, CallInv, ExactInv, NEW c \in Callers, NEW s, call' = [call EXCEPT ![c] = s],
           s.f = 0, prefill' = Released(prefill, call[c].key, call[c].f)
    PROVE  /\ Exact(prefill', ByPrefill(call')) /\ prefill' \in [Pods -> Seq(Int)]
           /\ \A p \in Pods : Len(prefill'[p]) = Len(prefill[p])
<1>1. /\ \A x \in Callers \ {c} : ByPrefill(call')[x] = ByPrefill(call)[x]
      /\ ByPrefill(call)[c] = <<call[c].key, call[c].f>> /\ ByPrefill(call')[c] = <<s.key, s.f>>
  BY RecordsMove, Zenon
<1>2. Leaves(ByPrefill(call), ByPrefill(call'), c, call[c].key, call[c].f)
  BY <1>1, Zenon DEF Leaves
<1>3. call[c].f \in Nat /\ (call[c].f # 0 => call[c].key \in Pods)
  BY CallFields DEF Standing
<1>4. Exact(prefill, ByPrefill(call)) /\ Within(prefill, ByPrefill(call)) /\ prefill \in [Pods -> Seq(Int)]
  BY CountsWithin DEF ExactInv, LoadInv
<1>5. Releases(prefill, prefill', ByPrefill(call), ByPrefill(call'), c, call[c].key, call[c].f)
  BY <1>2, <1>3, Zenon DEF Releases
<1> QED BY <1>4, <1>5, ExactRelease, Zenon

\* The number in flight a request holds is taken back.
LEMMA RequestReleased ==
    ASSUME LoadInv, CallInv, ExactInv, NEW c \in Callers, NEW s, call' = [call EXCEPT ![c] = s],
           s.l = 0, inflight' = Released(inflight, call[c].key, call[c].l)
    PROVE  /\ Exact(inflight', ByRequest(call')) /\ inflight' \in [Pods -> Seq(Int)]
           /\ \A p \in Pods : Len(inflight'[p]) = Len(inflight[p])
<1>1. /\ \A x \in Callers \ {c} : ByRequest(call')[x] = ByRequest(call)[x]
      /\ ByRequest(call)[c] = <<call[c].key, call[c].l>> /\ ByRequest(call')[c] = <<s.key, s.l>>
  BY RecordsMove, Zenon
<1>2. Leaves(ByRequest(call), ByRequest(call'), c, call[c].key, call[c].l)
  BY <1>1, Zenon DEF Leaves
<1>3. call[c].l \in Nat /\ (call[c].l # 0 => call[c].key \in Pods)
  BY CallFields DEF Standing
<1>4. Exact(inflight, ByRequest(call)) /\ Within(inflight, ByRequest(call)) /\ inflight \in [Pods -> Seq(Int)]
  BY CountsWithin DEF ExactInv, LoadInv
<1>5. Releases(inflight, inflight', ByRequest(call), ByRequest(call'), c, call[c].key, call[c].l)
  BY <1>2, <1>3, Zenon DEF Releases
<1> QED BY <1>4, <1>5, ExactRelease, Zenon

\* A request that keeps its number in flight is still counted.
LEMMA RequestKept ==
    ASSUME LoadInv, CallInv, ExactInv, NEW c \in Callers, NEW s, call' = [call EXCEPT ![c] = s],
           s.l = call[c].l, s.key = call[c].key
    PROVE  Exact(inflight, ByRequest(call'))
<1>1. /\ \A x \in Callers \ {c} : ByRequest(call')[x] = ByRequest(call)[x]
      /\ ByRequest(call)[c] = <<call[c].key, call[c].l>> /\ ByRequest(call')[c] = <<s.key, s.l>>
  BY RecordsMove, Zenon
<1>2. SameRecords(ByRequest(call), ByRequest(call'), c)
  BY <1>1, Zenon DEF SameRecords
<1>3. Exact(inflight, ByRequest(call)) /\ Within(inflight, ByRequest(call)) /\ inflight \in [Pods -> Seq(Int)]
  BY CountsWithin DEF ExactInv, LoadInv
<1> QED BY <1>2, <1>3, ExactStays

\* The counts are taken back in place, and the rest stays.
LEMMA AfterRelease ==
    ASSUME DispatchInductive, NEW c \in Callers, NEW s \in Call, call' = [call EXCEPT ![c] = s],
           Standing(s, rule), Marking(s, records), Counting(s, inflight, prefill),
           Exact(inflight', ByRequest(call')), inflight' \in [Pods -> Seq(Int)],
           \A p \in Pods : Len(inflight'[p]) = Len(inflight[p]),
           Exact(prefill', ByPrefill(call')), prefill' \in [Pods -> Seq(Int)],
           \A p \in Pods : Len(prefill'[p]) = Len(prefill[p]),
           loads' = loads, UNCHANGED <<healthVars, watchVars>>, expired' \subseteq expired
    PROVE  DispatchInductive'
<1>1. /\ HealthInv /\ LoadInv /\ CallInv /\ ExactInv /\ HealthInv' /\ WatchInv'
      /\ records' = records /\ rule' = rule
      /\ \A k \in HealthKeys : Len(records'[k]) >= Len(records[k])
  BY HealthUntouched
<1>2. LoadInv'
  BY <1>1 DEF LoadInv
<1>3. ExactInv' /\ ExpiredInv'
  BY DEF ExactInv, ExpiredInv, DispatchInductive
<1>4. \A p \in Pods : Len(inflight'[p]) >= Len(inflight[p]) /\ Len(prefill'[p]) >= Len(prefill[p])
  BY <1>1 DEF LoadInv
<1>5. Standing(s, rule') /\ Marking(s, records') /\ Counting(s, inflight', prefill')
  BY <1>1 DEF Counting
<1>6. CallInv'
  BY <1>1, <1>2, <1>4, <1>5, CallReplaced, Zenon
<1> QED BY <1>1, <1>2, <1>3, <1>6 DEF DispatchInductive

\* A request whose prefill is over, by its first byte or by the janitor.
LEMMA PrefillOver ==
    ASSUME DispatchInductive, NEW c \in Callers, call[c].f # 0,
           prefill' = TakeBack(prefill, call[c].key, call[c].f),
           call' = [call EXCEPT ![c] = [call[c] EXCEPT !.f = 0]],
           UNCHANGED <<healthVars, watchVars>>, inflight' = inflight, loads' = loads,
           expired' \subseteq expired
    PROVE  DispatchInductive'
<1> DEFINE s == [call[c] EXCEPT !.f = 0]
<1>1. LoadInv /\ CallInv /\ ExactInv
  BY DEF DispatchInductive
<1>2. /\ call[c] \in Call /\ Standing(call[c], rule) /\ Counting(call[c], inflight, prefill)
      /\ Marking(call[c], records) /\ 0 \in Nat
  BY <1>1, CallFields
<1>3. s \in Call
  BY <1>2, Zenon DEF Call
<1>4. /\ s.f = 0 /\ s.l = call[c].l /\ s.key = call[c].key /\ s.pc = call[c].pc /\ s.at = call[c].at
      /\ s.h = call[c].h /\ s.stores = call[c].stores /\ s.then = call[c].then
  BY <1>2 DEF Call
<1>5. call' = [call EXCEPT ![c] = s]
  OBVIOUS
<1> HIDE DEF s
<1>6. Standing(s, rule) /\ Marking(s, records)
  BY <1>2, <1>4 DEF Standing, Marking
<1>7. Counting(s, inflight, prefill)
  <2>1. \A p \in Pods : Len(prefill[p]) \in Nat
    BY <1>1 DEF LoadInv
  <2> QED BY <1>2, <1>4, <2>1 DEF Counting
<1>8. prefill' = Released(prefill, call[c].key, call[c].f)
  BY DEF Released
<1>9. /\ Exact(prefill', ByPrefill(call')) /\ prefill' \in [Pods -> Seq(Int)]
      /\ \A p \in Pods : Len(prefill'[p]) = Len(prefill[p])
  BY <1>1, <1>4, <1>5, <1>8, PrefillReleased, Zenon
<1>10. /\ Exact(inflight', ByRequest(call')) /\ inflight' \in [Pods -> Seq(Int)]
       /\ \A p \in Pods : Len(inflight'[p]) = Len(inflight[p])
  <2>1. Exact(inflight, ByRequest(call'))
    BY <1>1, <1>4, <1>5, RequestKept, Zenon
  <2> QED BY <1>1, <2>1 DEF LoadInv
<1> QED BY <1>3, <1>5, <1>6, <1>7, <1>9, <1>10, AfterRelease, Zenon
LEMMA FirstByteStep ==
    ASSUME DispatchInductive, NEW c \in Callers, FirstByte(c)
    PROVE  DispatchInductive'
<1>1. /\ call[c].f # 0 /\ prefill' = TakeBack(prefill, call[c].key, call[c].f)
      /\ UNCHANGED <<healthVars, watchVars>> /\ inflight' = inflight /\ loads' = loads
      /\ expired' \subseteq expired
  BY DEF FirstByte
<1>2. call' = [call EXCEPT ![c] = [call[c] EXCEPT !.f = 0]]
  BY Zenon DEF FirstByte
<1> QED BY <1>1, <1>2, PrefillOver, Zenon

\* What the janitor collected is acted on only if it is still the attempt that
\* holds the count.
LEMMA JanitorReleasesStep ==
    ASSUME DispatchInductive, NEW e \in expired, JanitorReleases(e)
    PROVE  DispatchInductive'
<1> DEFINE c == e[1]
<1>1. c \in Callers
  BY DEF DispatchInductive, ExpiredInv
<1>2. /\ UNCHANGED <<healthVars, watchVars>> /\ inflight' = inflight /\ loads' = loads
      /\ expired' \subseteq expired
  BY DEF JanitorReleases
<1>3. CASE e = Attempt(c) /\ call[c].f # 0
  <2>1. prefill' = TakeBack(prefill, call[c].key, call[c].f)
    BY <1>3, Zenon DEF JanitorReleases
  <2>2. call' = [call EXCEPT ![c] = [call[c] EXCEPT !.f = 0]]
    BY <1>3, Zenon DEF JanitorReleases
  <2> HIDE DEF c
  <2> QED BY <1>1, <1>2, <1>3, <2>1, <2>2, PrefillOver, Zenon
<1>4. CASE ~(e = Attempt(c) /\ call[c].f # 0)
  <2>1. prefill' = prefill /\ call' = call
    BY <1>4, Zenon DEF JanitorReleases
  <2> QED BY <1>2, <2>1 DEF DispatchInductive, HealthInv, LoadInv, CallInv, ExactInv, WatchInv,
             ExpiredInv, healthVars, watchVars
<1> QED BY <1>3, <1>4

LEMMA ReleaseCountsStep ==
    ASSUME DispatchInductive, NEW c \in Callers, ReleaseCounts(c)
    PROVE  DispatchInductive'
<1>1. LoadInv /\ CallInv /\ ExactInv /\ call[c].pc # "idle"
  BY DEF DispatchInductive, ReleaseCounts
<1>2. PICK s \in {NextBackend(c), [NewCall EXCEPT !.sends = call[c].sends]} :
         call' = [call EXCEPT ![c] = s]
  BY Zenon DEF ReleaseCounts
<1>3. Fresh(s)
  BY <1>1, <1>2, NextBackendFresh, Zenon
<1>4. /\ s \in Call /\ Standing(s, rule) /\ Counting(s, inflight, prefill)
      /\ Marking(s, records) /\ s.l = 0 /\ s.f = 0
  BY <1>3 DEF Fresh
<1>5. /\ UNCHANGED <<healthVars, watchVars>> /\ loads' = loads /\ expired' \subseteq expired
      /\ inflight' = Released(inflight, call[c].key, call[c].l)
      /\ prefill' = Released(prefill, call[c].key, call[c].f)
  BY Zenon DEF ReleaseCounts, Released, InFlightRecord
<1>6. /\ Exact(prefill', ByPrefill(call')) /\ prefill' \in [Pods -> Seq(Int)]
      /\ \A p \in Pods : Len(prefill'[p]) = Len(prefill[p])
  BY <1>1, <1>2, <1>4, <1>5, PrefillReleased, Zenon
<1>7. /\ Exact(inflight', ByRequest(call')) /\ inflight' \in [Pods -> Seq(Int)]
      /\ \A p \in Pods : Len(inflight'[p]) = Len(inflight[p])
  BY <1>1, <1>2, <1>4, <1>5, RequestReleased, Zenon
<1> QED BY <1>2, <1>4, <1>5, <1>6, <1>7, AfterRelease, Zenon

----------------------------------------------------------------------------
(* The endpoint set, and the janitor's first half *)

LEMMA SetEndpointsStep ==
    ASSUME DispatchInductive, NEW next \in SUBSET Pods, SetEndpoints(next)
    PROVE  DispatchInductive'
<1>1. /\ HealthInv /\ LoadInv /\ CallInv /\ ExactInv /\ WatchInv /\ ExpiredInv
      /\ watch.pc = "idle" /\ changes > 0 /\ HealthFor(next)
      /\ watch' = [pc |-> "drop", next |-> next] /\ changes' = changes - 1
      /\ UNCHANGED <<endpoints, rule, loadAware, loads, inflight, prefill, call, expired>>
  BY DEF DispatchInductive, SetEndpoints, loadVars
<1>2. next \in SUBSET HealthKeys
  BY DEF HealthKeys
<1>3. /\ HealthInv'
      /\ \A k \in HealthKeys : /\ Len(records'[k]) >= Len(records[k])
                               /\ health[k] # 0 => health'[k] # 0
      /\ \A k \in next : health'[k] # 0
  BY <1>1, <1>2, HealthForKeeps
<1>4. LoadInv' /\ ExactInv' /\ ExpiredInv'
  BY <1>1 DEF LoadInv, ExactInv, ExpiredInv
<1>5. CallInv'
  <2>1. ASSUME NEW c \in Callers
        PROVE  Marking(call[c], records')
    <3>1. call[c].key \in HealthKeys /\ Marking(call[c], records) /\ call[c].h \in Nat
      BY <1>1, CallFields
    <3>2. \A k \in HealthKeys : Len(records[k]) \in Nat /\ Len(records'[k]) \in Nat
      BY <1>1, <1>3 DEF HealthInv
    <3> QED BY <1>3, <3>1, <3>2 DEF Marking
  <2> QED BY <1>1, <2>1 DEF CallInv
<1>6. WatchInv'
  <2>1. watch' \in [pc : {"idle", "drop", "store"}, next : SUBSET Pods]
    BY <1>1, Zenon
  <2>2. changes' \in Nat
    BY <1>1 DEF WatchInv
  <2>3. watch'.next = next
    BY <1>1
  <2>4. \A p \in endpoints : health'[p] # 0
    BY <1>1, <1>3 DEF WatchInv, HealthKeys
  <2> QED BY <1>1, <1>3, <2>1, <2>2, <2>3, <2>4 DEF WatchInv
<1> QED BY <1>3, <1>4, <1>5, <1>6 DEF DispatchInductive

LEMMA DropDepartedStep ==
    ASSUME DispatchInductive, DropDeparted
    PROVE  DispatchInductive'
<1> DEFINE gone == endpoints \ watch.next
<1>1. /\ HealthInv /\ LoadInv /\ CallInv /\ ExactInv /\ WatchInv /\ ExpiredInv
      /\ watch.pc = "drop"
      /\ health' = [k \in HealthKeys |-> IF k \in gone THEN 0 ELSE health[k]]
      /\ loads' = [p \in Pods |-> IF p \in gone THEN 0 ELSE loads[p]]
      /\ watch' = [watch EXCEPT !.pc = "store"]
      /\ UNCHANGED <<endpoints, changes, rule, loadAware, records, inflight, prefill, call, expired>>
  BY Zenon DEF DispatchInductive, DropDeparted
<1>2. HealthInv'
  <2>1. health' \in [HealthKeys -> Nat]
    BY <1>1 DEF HealthInv
  <2>2. \A k \in HealthKeys : Len(records[k]) \in Nat /\ health[k] <= Len(records[k])
    BY <1>1 DEF HealthInv
  <2>3. \A k \in HealthKeys : health'[k] <= Len(records[k])
    BY <1>1, <2>2
  <2> QED BY <1>1, <2>1, <2>3 DEF HealthInv
<1>3. LoadInv'
  <2>1. loads' \in [Pods -> Nat]
    BY <1>1 DEF LoadInv
  <2>2. \A p \in Pods : Len(inflight[p]) \in Nat /\ loads[p] <= Len(inflight[p])
    BY <1>1 DEF LoadInv
  <2>3. \A p \in Pods : loads'[p] <= Len(inflight[p])
    BY <1>1, <2>2
  <2> QED BY <1>1, <2>1, <2>3 DEF LoadInv
<1>4. CallInv' /\ ExactInv' /\ ExpiredInv'
  BY <1>1 DEF CallInv, ExactInv, ExpiredInv
<1>5. WatchInv'
  <2>1. watch' \in [pc : {"idle", "drop", "store"}, next : SUBSET Pods]
    BY <1>1, Zenon DEF WatchInv
  <2>2. watch'.pc = "store" /\ watch'.next = watch.next /\ watch.next \subseteq Pods
    BY <1>1 DEF WatchInv
  <2>3. \A p \in watch.next : health'[p] # 0
    <3>1. \A p \in watch.next : health[p] # 0 /\ p \in HealthKeys /\ p \notin gone
      BY <1>1, <2>2 DEF WatchInv, HealthKeys
    <3> QED BY <1>1, <3>1
  <2> QED BY <1>1, <2>1, <2>2, <2>3 DEF WatchInv
<1> QED BY <1>2, <1>3, <1>4, <1>5 DEF DispatchInductive
LEMMA StoreEndpointsStep ==
    ASSUME DispatchInductive, StoreEndpoints
    PROVE  DispatchInductive'
<1>1. /\ HealthInv /\ LoadInv /\ CallInv /\ ExactInv /\ WatchInv /\ ExpiredInv
      /\ watch.pc = "store" /\ endpoints' = watch.next
      /\ watch' = [pc |-> "idle", next |-> {}]
      /\ UNCHANGED <<health, records, loads, inflight, prefill, changes, rule, loadAware, call, expired>>
  BY DEF DispatchInductive, StoreEndpoints, healthVars, loadVars
<1>2. HealthInv' /\ LoadInv' /\ CallInv' /\ ExactInv' /\ ExpiredInv'
  BY <1>1 DEF HealthInv, LoadInv, CallInv, ExactInv, ExpiredInv
<1>3. WatchInv'
  <2>1. {} \in SUBSET Pods
    OBVIOUS
  <2>2. watch' \in [pc : {"idle", "drop", "store"}, next : SUBSET Pods]
    BY <1>1, <2>1, Zenon
  <2>3. watch'.pc = "idle"
    BY <1>1
  <2>4. watch.next \subseteq Pods /\ \A p \in watch.next : health[p] # 0
    BY <1>1 DEF WatchInv
  <2> QED BY <1>1, <2>2, <2>3, <2>4 DEF WatchInv
<1> QED BY <1>2, <1>3 DEF DispatchInductive

LEMMA JanitorCollectsStep ==
    ASSUME DispatchInductive, JanitorCollects
    PROVE  DispatchInductive'
<1>1. /\ HealthInv /\ LoadInv /\ CallInv /\ ExactInv /\ WatchInv
      /\ UNCHANGED <<health, records, loads, inflight, prefill, endpoints, watch, changes, rule, loadAware, call>>
  BY DEF DispatchInductive, JanitorCollects, healthVars, loadVars, watchVars
<1>2. HealthInv' /\ LoadInv' /\ CallInv' /\ ExactInv' /\ WatchInv'
  BY <1>1 DEF HealthInv, LoadInv, CallInv, ExactInv, WatchInv
<1>3. ExpiredInv'
  <2>1. PICK old \in SUBSET Callers : expired' = {Attempt(c) : c \in old}
    BY DEF JanitorCollects
  <2>2. \A c \in old : Attempt(c)[1] \in Callers
    BY DEF Attempt
  <2> QED BY <2>1, <2>2 DEF ExpiredInv
<1> QED BY <1>2, <1>3 DEF DispatchInductive

LEMMA DispatchStarts ==
    ASSUME NEW start \in Starts, DispatchInit(start)
    PROVE  DispatchInductive
<1>1. /\ start.rule \in Seq(Backends) /\ start.rule # <<>> /\ start.set \subseteq Pods
      /\ start.changes \in Nat /\ start.loadAware \in BOOLEAN
  BY DispatcherAssumption
<1>2. HealthInv
  <2>1. health \in [HealthKeys -> Nat] /\ \A k \in HealthKeys : health[k] \in {0, 1}
    BY DEF DispatchInit
  <2>2. ASSUME NEW k \in HealthKeys
        PROVE  records[k] \in Seq(HealthRecord) /\ health[k] <= Len(records[k])
    <3>1. records[k] = IF health[k] = 0 THEN <<>> ELSE <<Healthy>>
      BY DEF DispatchInit
    <3>2. <<Healthy>> \in Seq(HealthRecord) /\ Len(<<Healthy>>) = 1
      BY HealthyIsRecord
    <3>3. CASE health[k] = 0
      BY <3>1, <3>3
    <3>4. CASE health[k] # 0
      BY <2>1, <3>1, <3>2, <3>4
    <3> QED BY <3>3, <3>4
  <2>3. records \in [HealthKeys -> Seq(HealthRecord)]
    <3>1. records = [k \in HealthKeys |-> records[k]]
      BY DEF DispatchInit
    <3> QED BY <2>2, <3>1
  <2> QED BY <2>1, <2>2, <2>3 DEF HealthInv
<1>3. LoadInv
  <2>1. /\ inflight = [p \in Pods |-> <<>>] /\ prefill = [p \in Pods |-> <<>>]
        /\ loads = [p \in Pods |-> 0]
    BY DEF DispatchInit
  <2> QED BY <2>1 DEF LoadInv
<1>4. CallInv
  <2>1. call = [c \in Callers |-> NewCall]
    BY DEF DispatchInit
  <2>2. 1 \in Nat \ {0}
    OBVIOUS
  <2>3. Fresh(NewCall)
    BY <2>2, NewCallFields, FreshCall
  <2> QED BY <2>1, <2>3 DEF CallInv, Fresh
<1>5. ExactInv
  BY DEF ExactInv, Exact, DispatchInit
<1>6. WatchInv
  <2>1. /\ rule = start.rule /\ endpoints = start.set /\ changes = start.changes
        /\ loadAware = start.loadAware /\ watch = [pc |-> "idle", next |-> {}]
        /\ health = [k \in HealthKeys |-> IF k \in Pods \ endpoints THEN 0 ELSE 1]
    BY DEF DispatchInit
  <2>2. {} \in SUBSET Pods
    OBVIOUS
  <2>3. watch \in [pc : {"idle", "drop", "store"}, next : SUBSET Pods]
    BY <2>1, <2>2, Zenon
  <2>4. watch.pc = "idle"
    BY <2>1
  <2>5. \A p \in endpoints : health[p] # 0
    BY <1>1, <2>1 DEF HealthKeys
  <2> QED BY <1>1, <2>1, <2>3, <2>4, <2>5 DEF WatchInv
<1>7. ExpiredInv
  BY DEF ExpiredInv, DispatchInit
<1> QED BY <1>2, <1>3, <1>4, <1>5, <1>6, <1>7 DEF DispatchInductive

LEMMA DispatchStep ==
    ASSUME DispatchInductive, [DispatchNext]_dispatchVars
    PROVE  DispatchInductive'
<1>1. CASE UNCHANGED dispatchVars
  BY <1>1 DEF dispatchVars, healthVars, loadVars, watchVars, DispatchInductive, HealthInv, LoadInv,
         CallInv, ExactInv, WatchInv, ExpiredInv
<1>2. ASSUME NEW c \in Callers,
             \/ CallArrives(c) \/ CheckHealthy(c) \/ Place(c) \/ Track(c) \/ TrackPrefill(c)
             \/ Answered(c) \/ UpstreamFails(c) \/ CallCancelled(c) \/ Store(c)
             \/ FirstByte(c) \/ BodyEnds(c) \/ BodyIdle(c) \/ ReleaseCounts(c)
      PROVE  DispatchInductive'
  BY <1>2, CallArrivesStep, CheckHealthyStep, PlaceStep, TrackStep, TrackPrefillStep, AnsweredStep,
     UpstreamFailsStep, CallCancelledStep, StoreStep, FirstByteStep, BodyEndsStep, BodyIdleStep,
     ReleaseCountsStep
<1>3. ASSUME NEW next \in SUBSET Pods, SetEndpoints(next)
      PROVE  DispatchInductive'
  BY <1>3, SetEndpointsStep
<1>4. ASSUME NEW e \in expired, JanitorReleases(e)
      PROVE  DispatchInductive'
  BY <1>4, JanitorReleasesStep
<1>5. ASSUME NEW k \in HealthKeys, WindowEnds(k)
      PROVE  DispatchInductive'
  BY <1>5, WindowEndsStep
<1> QED BY <1>1, <1>2, <1>3, <1>4, <1>5, DropDepartedStep, StoreEndpointsStep, JanitorCollectsStep
        DEF DispatchNext
----------------------------------------------------------------------------
(* The theorems *)

LEMMA DispatchInvariance == DispatchSpec => []DispatchInductive
<1>1. (\E s \in Starts : DispatchInit(s)) => DispatchInductive
  BY DispatchStarts
<1>2. DispatchInductive /\ [DispatchNext]_dispatchVars => DispatchInductive'
  BY DispatchStep
<1> QED BY <1>1, <1>2, PTL DEF DispatchSpec

\* The state of the dispatcher has its types.  No load count of
\* endpoint_load.go ever goes below zero, and the health and load maps hold only
\* records that exist.
THEOREM DispatcherTyped == DispatchSpec => []DispatcherTypeOK
<1>1. DispatchInductive => DispatcherTypeOK
  BY InvariantMeans
<1> QED BY <1>1, DispatchInvariance, PTL

\* track, trackPrefill, their release functions, the first byte and ExpirePrefill
\* keep both counts of every load record equal to the requests that hold it, for
\* any number of handlers, Pods and changes of the endpoint set.
THEOREM LoadStaysExact == DispatchSpec => []LoadExact
<1>1. DispatchInductive => LoadExact
  BY InvariantMeans
<1> QED BY <1>1, DispatchInvariance, PTL

\* SetEndpoints leaves every Pod of the live set with a health record, whatever
\* requests to departed Pods mark meanwhile.
THEOREM LivePodsHaveHealth == DispatchSpec => []LivePodHasHealth
<1>1. DispatchInductive => LivePodHasHealth
  BY InvariantMeans
<1> QED BY <1>1, DispatchInvariance, PTL
=============================================================================
