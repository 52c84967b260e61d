------------------------ MODULE DispatcherInvariant ------------------------
(***************************************************************************)
(* The inductive invariant of the dispatcher's bookkeeping, and the steps  *)
(* of a request that touch no load record: arriving, being placed, marking *)
(* its backend's health and reading the body.                              *)
(***************************************************************************)
EXTENDS Dispatcher, FiniteSetTheorems, SequenceTheorems, TLAPS

DispatchSpec == (\E s \in Starts : DispatchInit(s)) /\ [][DispatchNext]_dispatchVars

----------------------------------------------------------------------------
(* Counting the requests that hold a record *)

Bit(b) == IF b THEN 1 ELSE 0

\* Two sets of callers that differ at most in c differ by c in their sizes.
LEMMA CallersMove ==
    ASSUME NEW c \in Callers, NEW P \in SUBSET Callers, NEW Q \in SUBSET Callers,
           \A x \in Callers \ {c} : x \in P <=> x \in Q
    PROVE  /\ Cardinality(P) \in Nat /\ Cardinality(Q) \in Nat
           /\ Cardinality(Q) = Cardinality(P) + Bit(c \in Q) - Bit(c \in P)
<1>1. /\ IsFiniteSet(P) /\ Cardinality(P) \in Nat
      /\ IsFiniteSet(Q) /\ Cardinality(Q) \in Nat
  BY DispatcherAssumption, FS_Subset, FS_CardinalityType
<1>2. CASE c \in P <=> c \in Q
  <2>1. P = Q
    BY <1>2
  <2> QED BY <1>1, <1>2, <2>1 DEF Bit
<1>3. CASE c \in P /\ c \notin Q
  <2>1. Q = P \ {c}
    BY <1>3
  <2>2. Cardinality(Q) = Cardinality(P) - 1
    BY <1>1, <1>3, <2>1, FS_RemoveElement, Zenon
  <2> QED BY <1>1, <1>3, <2>2 DEF Bit
<1>4. CASE c \notin P /\ c \in Q
  <2>1. Q = P \cup {c}
    BY <1>4
  <2>2. Cardinality(Q) = Cardinality(P) + 1
    BY <1>1, <1>4, <2>1, FS_AddElement, Zenon
  <2> QED BY <1>1, <1>4, <2>2 DEF Bit
<1> QED BY <1>2, <1>3, <1>4

\* Which load record a request counts on: its number in flight, its prefill.
\* Record 0 of a key is no record.
ByRequest(cl) == [c \in Callers |-> <<cl[c].key, cl[c].l>>]
ByPrefill(cl) == [c \in Callers |-> <<cl[c].key, cl[c].f>>]

\* Does that record of a request count on record i of Pod p?
Here(h, p, i) == IF h = <<p, i>> THEN 1 ELSE 0

Held(w, p, i) == {c \in Callers : w[c] = <<p, i>>}
Exact(cnt, w) ==
    \A p \in Pods : \A i \in 1..Len(cnt[p]) : cnt[p][i] = Cardinality(Held(w, p, i))
Within(cnt, w) ==
    \A c \in Callers : \A p \in Pods : \A i \in Nat : w[c] = <<p, i>> => i <= Len(cnt[p])

\* Request c alone moves from one record to another, and the counts follow; a
\* record there was not before counted nothing.
Moves(cnt, cnt2, w, w2, c) ==
    /\ cnt \in [Pods -> Seq(Int)] /\ cnt2 \in [Pods -> Seq(Int)]
    /\ \A x \in Callers \ {c} : w2[x] = w[x]
    /\ \A p \in Pods : \A i \in 1..Len(cnt2[p]) :
          cnt2[p][i] = (IF i <= Len(cnt[p]) THEN cnt[p][i] ELSE 0)
                         + Here(w2[c], p, i) - Here(w[c], p, i)

\* Counts that follow the one request that moves stay exact.
LEMMA ExactMove ==
    ASSUME NEW cnt, NEW cnt2, NEW w, NEW w2, NEW c \in Callers,
           Exact(cnt, w), Within(cnt, w), Moves(cnt, cnt2, w, w2, c)
    PROVE  Exact(cnt2, w2)
<1> SUFFICES ASSUME NEW p \in Pods, NEW i \in 1..Len(cnt2[p])
             PROVE  cnt2[p][i] = Cardinality(Held(w2, p, i))
  BY DEF Exact
<1>0. cnt2[p] \in Seq(Int) /\ cnt[p] \in Seq(Int) /\ i \in Nat \ {0}
  BY DEF Moves
<1>1. Held(w, p, i) \in SUBSET Callers /\ Held(w2, p, i) \in SUBSET Callers
  BY DEF Held
<1>2. \A x \in Callers \ {c} : x \in Held(w, p, i) <=> x \in Held(w2, p, i)
  BY DEF Held, Moves
<1>3. /\ Cardinality(Held(w, p, i)) \in Nat
      /\ Cardinality(Held(w2, p, i)) = Cardinality(Held(w, p, i))
            + Bit(c \in Held(w2, p, i)) - Bit(c \in Held(w, p, i))
  BY <1>1, <1>2, CallersMove
<1>4. /\ c \in Held(w2, p, i) <=> w2[c] = <<p, i>>
      /\ c \in Held(w, p, i) <=> w[c] = <<p, i>>
  BY DEF Held
<1>5. Cardinality(Held(w, p, i)) = IF i <= Len(cnt[p]) THEN cnt[p][i] ELSE 0
  <2>1. CASE i <= Len(cnt[p])
    BY <1>0, <2>1 DEF Exact
  <2>2. CASE ~(i <= Len(cnt[p]))
    <3>1. Held(w, p, i) = {}
      BY <1>0, <2>2 DEF Held, Within
    <3> QED BY <2>2, <3>1, FS_EmptySet
  <2> QED BY <2>1, <2>2
<1>6. cnt2[p][i] = (IF i <= Len(cnt[p]) THEN cnt[p][i] ELSE 0)
                     + Here(w2[c], p, i) - Here(w[c], p, i)
  BY DEF Moves
<1> HIDE DEF Held, Moves
<1>7. Bit(c \in Held(w2, p, i)) = Here(w2[c], p, i) /\ Bit(c \in Held(w, p, i)) = Here(w[c], p, i)
  BY <1>4 DEF Bit, Here
<1> QED BY <1>3, <1>5, <1>6, <1>7

\* No count moves, and nor does any record held.
SameRecords(w, w2, c) ==
    /\ \A x \in Callers \ {c} : w2[x] = w[x]
    /\ \A p \in Pods, i \in Nat \ {0} : w2[c] = <<p, i>> <=> w[c] = <<p, i>>

LEMMA ExactStays ==
    ASSUME NEW cnt \in [Pods -> Seq(Int)], NEW w, NEW w2, NEW c \in Callers,
           Exact(cnt, w), Within(cnt, w), SameRecords(w, w2, c)
    PROVE  Exact(cnt, w2)
<1>1. ASSUME NEW p \in Pods, NEW i \in 1..Len(cnt[p])
      PROVE  cnt[p][i] = (IF i <= Len(cnt[p]) THEN cnt[p][i] ELSE 0)
                           + Here(w2[c], p, i) - Here(w[c], p, i)
  <2>1. cnt[p] \in Seq(Int) /\ cnt[p][i] \in Int /\ i \in Nat \ {0} /\ i <= Len(cnt[p])
    OBVIOUS
  <2>2. Here(w2[c], p, i) = Here(w[c], p, i) /\ Here(w[c], p, i) \in Int
    BY <2>1 DEF Here, SameRecords
  <2> QED BY <2>1, <2>2
<1>2. Moves(cnt, cnt, w, w2, c)
  BY <1>1 DEF Moves, SameRecords
<1> QED BY <1>2, ExactMove

\* The counts of one Pod once a is added to record i of it, a new one or not.
Added(q, i, a) == IF i = Len(q) + 1 THEN Append(q, a) ELSE [q EXCEPT ![i] = q[i] + a]

LEMMA AddedElements ==
    ASSUME NEW q \in Seq(Int), NEW i \in 1..(Len(q) + 1), NEW a \in Int
    PROVE  /\ Added(q, i, a) \in Seq(Int)
           /\ Len(Added(q, i, a)) = IF i = Len(q) + 1 THEN Len(q) + 1 ELSE Len(q)
           /\ \A j \in 1..Len(Added(q, i, a)) :
                 Added(q, i, a)[j] = (IF j <= Len(q) THEN q[j] ELSE 0) + (IF j = i THEN a ELSE 0)
<1>0. \A j \in 1..Len(q) : q[j] \in Int
  OBVIOUS
<1>1. CASE i = Len(q) + 1
  <2> DEFINE t == Append(q, a)
  <2>1. Added(q, i, a) = t
    BY <1>1 DEF Added
  <2>2. /\ t \in Seq(Int) /\ Len(t) = Len(q) + 1
        /\ t[Len(q) + 1] = a /\ \A j \in 1..Len(q) : t[j] = q[j]
    BY AppendProperties
  <2> HIDE DEF t
  <2>3. \A j \in 1..Len(t) : t[j] = (IF j <= Len(q) THEN q[j] ELSE 0) + (IF j = i THEN a ELSE 0)
    BY <1>0, <1>1, <2>2
  <2> QED BY <1>1, <2>1, <2>2, <2>3
<1>2. CASE i # Len(q) + 1
  <2> DEFINE t == [q EXCEPT ![i] = q[i] + a]
  <2>1. Added(q, i, a) = t
    BY <1>2 DEF Added
  <2>2. i \in 1..Len(q) /\ q[i] + a \in Int
    BY <1>2
  <2>3. /\ t \in Seq(Int) /\ Len(t) = Len(q)
        /\ \A j \in 1..Len(q) : t[j] = IF j = i THEN q[i] + a ELSE q[j]
    BY <2>2, ExceptSeq
  <2> HIDE DEF t
  <2>4. \A j \in 1..Len(t) : t[j] = (IF j <= Len(q) THEN q[j] ELSE 0) + (IF j = i THEN a ELSE 0)
    BY <1>0, <2>2, <2>3
  <2> QED BY <1>2, <2>1, <2>3, <2>4
<1> QED BY <1>1, <1>2

LEMMA AddedType ==
    ASSUME NEW q \in Seq(Int), NEW i \in 1..(Len(q) + 1), NEW a \in Int
    PROVE  /\ Added(q, i, a) \in Seq(Int)
           /\ Len(Added(q, i, a)) = IF i = Len(q) + 1 THEN Len(q) + 1 ELSE Len(q)
BY AddedElements

\* Request c, which holds none, takes record i of Pod p if a is 1, and the
\* record is only looked up for another count if a is 0.
Takes(w, w2, c, p, i, a) ==
    /\ \A x \in Callers \ {c} : w2[x] = w[x]
    /\ IF a = 1 THEN w[c] = <<p, 0>> /\ w2[c] = <<p, i>> ELSE w2[c] = w[c]

Adds(cnt, cnt2, p, i, a) ==
    i \in 1..(Len(cnt[p]) + 1) /\ cnt2 = [cnt EXCEPT ![p] = Added(cnt[p], i, a)]

LEMMA ExactTaken ==
    ASSUME NEW cnt \in [Pods -> Seq(Int)], NEW cnt2, NEW w, NEW w2, NEW c \in Callers,
           Exact(cnt, w), Within(cnt, w), NEW p \in Pods, NEW i,
           NEW a \in {0, 1}, Takes(w, w2, c, p, i, a), Adds(cnt, cnt2, p, i, a)
    PROVE  Exact(cnt2, w2)
<1> DEFINE s == Added(cnt[p], i, a)
<1> USE DEF Adds
<1>a. /\ s \in Seq(Int)
      /\ \A j \in 1..Len(s) :
            s[j] = (IF j <= Len(cnt[p]) THEN cnt[p][j] ELSE 0) + (IF j = i THEN a ELSE 0)
  <2>1. cnt[p] \in Seq(Int) /\ a \in Int
    OBVIOUS
  <2> QED BY <2>1, AddedElements
<1>b. cnt2 = [cnt EXCEPT ![p] = s]
  BY Zenon
<1> HIDE DEF s, Adds
<1>0. cnt2 \in [Pods -> Seq(Int)] /\ cnt2[p] = s /\ \A q \in Pods \ {p} : cnt2[q] = cnt[q]
  BY <1>a, <1>b
<1>1. ASSUME NEW q \in Pods, NEW j \in 1..Len(cnt2[q])
      PROVE  cnt2[q][j] = (IF j <= Len(cnt[q]) THEN cnt[q][j] ELSE 0)
                           + Here(w2[c], q, j) - Here(w[c], q, j)
  <2> DEFINE n == IF j <= Len(cnt[q]) THEN cnt[q][j] ELSE 0
  <2>0. cnt[q] \in Seq(Int) /\ cnt2[q] \in Seq(Int) /\ j \in Nat \ {0}
    BY <1>0
  <2>1. /\ Here(w2[c], q, j) - Here(w[c], q, j) = IF q = p /\ j = i THEN a ELSE 0
        /\ Here(w2[c], q, j) \in Int /\ Here(w[c], q, j) \in Int
    <3>1. CASE a = 1
      <4>1. Here(w[c], q, j) = 0
        BY <2>0, <3>1 DEF Here, Takes
      <4>2. Here(w2[c], q, j) = IF q = p /\ j = i THEN 1 ELSE 0
        BY <3>1 DEF Here, Takes
      <4> QED BY <3>1, <4>1, <4>2
    <3>2. CASE a = 0
      <4>1. Here(w2[c], q, j) = Here(w[c], q, j) /\ Here(w[c], q, j) \in Int
        BY <3>2 DEF Here, Takes
      <4> QED BY <3>2, <4>1
    <3> QED BY <3>1, <3>2
  <2>2. n \in Int
    BY <2>0
  <2>3. cnt2[q][j] = n + IF q = p /\ j = i THEN a ELSE 0
    <3>1. CASE q = p
      BY <1>0, <1>a, <3>1
    <3>2. CASE q # p
      <4>1. cnt2[q] = cnt[q] /\ j <= Len(cnt[q]) /\ cnt[q][j] \in Int
        BY <1>0, <2>0, <3>2
      <4> QED BY <3>2, <4>1
    <3> QED BY <3>1, <3>2
  <2> HIDE DEF n
  <2>4. cnt2[q][j] = n + Here(w2[c], q, j) - Here(w[c], q, j)
    BY <2>1, <2>2, <2>3, Zenon
  <2> QED BY <2>4 DEF n
<1>2. Moves(cnt, cnt2, w, w2, c)
  BY <1>0, <1>1 DEF Moves, Takes
<1> QED BY <1>2, ExactMove

\* A request takes its count back from the record it counts on.
Leaves(w, w2, c, p, i) ==
    /\ \A x \in Callers \ {c} : w2[x] = w[x]
    /\ w[c] = <<p, i>> /\ \E k : w2[c] = <<k, 0>>

LEMMA ExactReleased ==
    ASSUME NEW cnt \in [Pods -> Seq(Int)], NEW w, NEW w2, NEW c \in Callers,
           Exact(cnt, w), Within(cnt, w), NEW p \in Pods, NEW i \in 1..Len(cnt[p]),
           Leaves(w, w2, c, p, i)
    PROVE  /\ Exact(TakeBack(cnt, p, i), w2)
           /\ TakeBack(cnt, p, i) \in [Pods -> Seq(Int)]
           /\ \A q \in Pods : Len(TakeBack(cnt, p, i)[q]) = Len(cnt[q])
<1> DEFINE s == [cnt[p] EXCEPT ![i] = cnt[p][i] - 1]
           cnt2 == [cnt EXCEPT ![p] = s]
<1>a. cnt[p] \in Seq(Int) /\ cnt[p][i] - 1 \in Int
  OBVIOUS
<1>b. /\ s \in Seq(Int) /\ Len(s) = Len(cnt[p])
      /\ \A j \in 1..Len(cnt[p]) : s[j] = IF j = i THEN cnt[p][i] - 1 ELSE cnt[p][j]
  BY <1>a, ExceptSeq
<1>c. TakeBack(cnt, p, i) = cnt2
  BY DEF TakeBack
<1> HIDE DEF s
<1>0. cnt2 \in [Pods -> Seq(Int)] /\ cnt2[p] = s /\ \A q \in Pods \ {p} : cnt2[q] = cnt[q]
  BY <1>b
<1> HIDE DEF cnt2
<1>1. ASSUME NEW q \in Pods, NEW j \in 1..Len(cnt2[q])
      PROVE  cnt2[q][j] = (IF j <= Len(cnt[q]) THEN cnt[q][j] ELSE 0)
                           + Here(w2[c], q, j) - Here(w[c], q, j)
  <2>2. /\ cnt[q] \in Seq(Int) /\ cnt2[q] \in Seq(Int) /\ Len(cnt2[q]) = Len(cnt[q])
        /\ j \in Nat \ {0}
    <3>1. cnt[q] \in Seq(Int) /\ cnt2[q] \in Seq(Int)
      BY <1>0
    <3>2. Len(cnt2[q]) = Len(cnt[q])
      BY <1>0, <1>b, Zenon
    <3>3. j \in Nat \ {0}
      BY <3>1
    <3> QED BY <3>1, <3>2, <3>3
  <2>1. Here(w2[c], q, j) = 0 /\ Here(w[c], q, j) = IF q = p /\ j = i THEN 1 ELSE 0
    <3>1. PICK k : w2[c] = <<k, 0>>
      BY DEF Leaves
    <3>2. w[c] = <<p, i>>
      BY DEF Leaves
    <3> QED BY <2>2, <3>1, <3>2 DEF Here
  <2>3. j \in 1..Len(cnt[q]) /\ cnt[q][j] \in Int
    BY <2>2
  <2>4. cnt2[q][j] = IF q = p /\ j = i THEN cnt[q][j] - 1 ELSE cnt[q][j]
    BY <1>0, <1>b, <2>3, Zenon
  <2> QED BY <2>1, <2>3, <2>4
<1>2. Moves(cnt, cnt2, w, w2, c)
  BY <1>0, <1>1, Zenon DEF Moves, Leaves
<1>3. Exact(cnt2, w2)
  BY <1>2, ExactMove
<1> QED BY <1>0, <1>b, <1>c, <1>3, Zenon

\* A release function, that of a request with no count to take back included.
Released(cnt, p, i) == IF i = 0 THEN cnt ELSE TakeBack(cnt, p, i)
Releases(cnt, cnt2, w, w2, c, p, i) ==
    /\ Leaves(w, w2, c, p, i) /\ cnt2 = Released(cnt, p, i)
    /\ i \in Nat /\ (i # 0 => p \in Pods)

LEMMA ExactRelease ==
    ASSUME NEW cnt \in [Pods -> Seq(Int)], NEW cnt2, NEW w, NEW w2, NEW c \in Callers,
           Exact(cnt, w), Within(cnt, w), NEW p, NEW i, Releases(cnt, cnt2, w, w2, c, p, i)
    PROVE  /\ Exact(cnt2, w2) /\ cnt2 \in [Pods -> Seq(Int)]
           /\ \A q \in Pods : Len(cnt2[q]) = Len(cnt[q])
<1>0. Leaves(w, w2, c, p, i) /\ i \in Nat
  BY DEF Releases
<1>1. CASE i = 0
  <2>1. SameRecords(w, w2, c)
    BY <1>0, <1>1 DEF SameRecords, Leaves
  <2>2. Exact(cnt, w2)
    BY <2>1, ExactStays
  <2> QED BY <1>1, <2>2 DEF Releases, Released
<1>2. CASE i # 0
  <2>1. p \in Pods /\ Len(cnt[p]) \in Nat
    BY <1>2 DEF Releases
  <2>2. i \in 1..Len(cnt[p])
    BY <1>0, <1>2, <2>1 DEF Leaves, Within
  <2>3. /\ Exact(TakeBack(cnt, p, i), w2) /\ TakeBack(cnt, p, i) \in [Pods -> Seq(Int)]
        /\ \A q \in Pods : Len(TakeBack(cnt, p, i)[q]) = Len(cnt[q])
    BY <1>0, <2>1, <2>2, ExactReleased, Zenon
  <2>4. cnt2 = TakeBack(cnt, p, i)
    BY <1>2 DEF Releases, Released
  <2> QED BY <2>3, <2>4
<1> QED BY <1>1, <1>2

\* Exact counts are never negative.
LEMMA ExactIsNat ==
    ASSUME NEW cnt \in [Pods -> Seq(Int)], NEW w, Exact(cnt, w), NEW p \in Pods
    PROVE  cnt[p] \in Seq(Nat)
<1>1. \A i \in 1..Len(cnt[p]) : Cardinality(Held(w, p, i)) \in Nat
  BY DispatcherAssumption, FS_Subset, FS_CardinalityType DEF Held
<1>2. \A i \in 1..Len(cnt[p]) : cnt[p][i] \in Nat
  BY <1>1 DEF Exact
<1>3. cnt[p] = [i \in 1..Len(cnt[p]) |-> cnt[p][i]] /\ Len(cnt[p]) \in Nat
  OBVIOUS
<1>4. [i \in 1..Len(cnt[p]) |-> cnt[p][i]] \in Seq(Nat)
  BY <1>2, <1>3, IsASeq
<1> QED BY <1>3, <1>4
----------------------------------------------------------------------------
(* The inductive invariant *)

HealthInv ==
    /\ health \in [HealthKeys -> Nat] /\ records \in [HealthKeys -> Seq(HealthRecord)]
    /\ \A k \in HealthKeys : health[k] <= Len(records[k])

LoadInv ==
    /\ loads \in [Pods -> Nat]
    /\ inflight \in [Pods -> Seq(Int)] /\ prefill \in [Pods -> Seq(Int)]
    /\ \A p \in Pods : Len(prefill[p]) = Len(inflight[p]) /\ loads[p] <= Len(inflight[p])

\* Where a request stands: it is at a backend of its rule, it counts on no
\* record before it is placed, and only a Pod has load records.
Unplaced == {"idle", "check", "place", "track"}
Standing(q, r) ==
    /\ q.at # 0 /\ (q.pc # "idle" => q.at <= Len(r))
    /\ q.pc \in {"track", "prefill"} => q.key \in Pods
    /\ q.pc \in Unplaced => q.l = 0
    /\ q.pc \in Unplaced \cup {"prefill"} => q.f = 0
    /\ q.key \notin Pods => q.l = 0 /\ q.f = 0

\* The load records it counts on have been created, and so has the health
\* record it is about to write.
Counting(q, reqs, toks) ==
    q.key \in Pods => q.l <= Len(reqs[q.key]) /\ q.f <= Len(toks[q.key])
Marking(q, recs) ==
    q.pc = "mark" => /\ q.h \in 1..Len(recs[q.key]) /\ q.stores # <<>>
                     /\ q.then \in {"stream", "drain", "retry", "end"}

CallInv ==
    /\ call \in [Callers -> Call]
    /\ \A c \in Callers : /\ Standing(call[c], rule) /\ Counting(call[c], inflight, prefill)
                          /\ Marking(call[c], records)

ExactInv == Exact(inflight, ByRequest(call)) /\ Exact(prefill, ByPrefill(call))

\* The set and the one to come have their health records, from when
\* SetEndpoints makes them until it drops those of departed Pods.
WatchInv ==
    /\ endpoints \subseteq Pods /\ changes \in Nat /\ loadAware \in BOOLEAN
    /\ rule \in Seq(Backends) /\ rule # <<>>
    /\ watch \in [pc : {"idle", "drop", "store"}, next : SUBSET Pods]
    /\ watch.pc \in {"idle", "drop"} => \A p \in endpoints : health[p] # 0
    /\ watch.pc \in {"drop", "store"} => \A p \in watch.next : health[p] # 0

ExpiredInv == \A e \in expired : e[1] \in Callers

DispatchInductive ==
    HealthInv /\ LoadInv /\ CallInv /\ ExactInv /\ WatchInv /\ ExpiredInv

\* What the run checks is what the invariant says.
LEMMA InvariantMeans ==
    ASSUME DispatchInductive
    PROVE  DispatcherTypeOK /\ LoadExact /\ LivePodHasHealth
<1> USE DEF DispatchInductive
<1>1. LoadExact
  <2>1. \A p \in Pods : \A i \in Nat :
           /\ Held(ByRequest(call), p, i) = {c \in Callers : call[c].key = p /\ call[c].l = i}
           /\ Held(ByPrefill(call), p, i) = {c \in Callers : call[c].key = p /\ call[c].f = i}
    BY DEF Held, ByRequest, ByPrefill
  <2>2. \A p \in Pods : Len(inflight[p]) \in Nat /\ Len(prefill[p]) \in Nat
    BY DEF LoadInv
  <2>3. ASSUME NEW p \in Pods, NEW i \in 1..Len(inflight[p])
        PROVE  inflight[p][i] = Cardinality({c \in Callers : call[c].key = p /\ call[c].l = i})
    <3>1. i \in Nat
      BY <2>2
    <3>2. inflight[p][i] = Cardinality(Held(ByRequest(call), p, i))
      BY DEF ExactInv, Exact
    <3> QED BY <2>1, <3>1, <3>2, Zenon
  <2>4. ASSUME NEW p \in Pods, NEW i \in 1..Len(prefill[p])
        PROVE  prefill[p][i] = Cardinality({c \in Callers : call[c].key = p /\ call[c].f = i})
    <3>1. i \in Nat
      BY <2>2
    <3>2. prefill[p][i] = Cardinality(Held(ByPrefill(call), p, i))
      BY DEF ExactInv, Exact
    <3> QED BY <2>1, <3>1, <3>2, Zenon
  <2> QED BY <2>3, <2>4 DEF LoadExact
<1>2. LivePodHasHealth
  BY DEF WatchInv, LivePodHasHealth
<1>3. ASSUME NEW k \in HealthKeys
      PROVE  /\ \A i \in 1..Len(records[k]) : records[k][i] \in HealthRecord
             /\ health[k] \in 0..Len(records[k])
  <2>1. records[k] \in Seq(HealthRecord) /\ health[k] \in Nat /\ health[k] <= Len(records[k])
    BY DEF HealthInv
  <2> QED BY <2>1
<1>4. ASSUME NEW p \in Pods
      PROVE  /\ inflight[p] \in Seq(Nat) /\ prefill[p] \in Seq(Nat)
             /\ loads[p] \in 0..Len(inflight[p])
  <2>1. inflight[p] \in Seq(Nat) /\ prefill[p] \in Seq(Nat)
    BY ExactIsNat, Zenon DEF LoadInv, ExactInv
  <2>2. loads[p] \in Nat /\ loads[p] <= Len(inflight[p]) /\ Len(inflight[p]) \in Nat
    BY DEF LoadInv
  <2> QED BY <2>1, <2>2
<1>5. DispatcherTypeOK
  BY <1>3, <1>4 DEF DispatcherTypeOK, WatchInv, CallInv
<1> QED BY <1>1, <1>2, <1>5

\* No request counts on a record that was never created.
LEMMA CountsWithin ==
    ASSUME CallInv
    PROVE  Within(inflight, ByRequest(call)) /\ Within(prefill, ByPrefill(call))
BY DEF CallInv, Counting, Within, ByRequest, ByPrefill

\* A request that keeps its records, or had none and takes none.
SameHold(q, s) ==
    \/ s.key = q.key /\ s.l = q.l /\ s.f = q.f
    \/ q.l = 0 /\ q.f = 0 /\ s.l = 0 /\ s.f = 0

\* As long as no count moves and every request keeps what it holds, the
\* counts stay exact.
LEMMA ExactKept ==
    ASSUME ExactInv, CallInv, LoadInv, NEW c \in Callers, NEW s, call' = [call EXCEPT ![c] = s],
           SameHold(call[c], s), inflight' = inflight, prefill' = prefill
    PROVE  ExactInv'
<1>1. /\ call'[c] = s /\ \A x \in Callers \ {c} : call'[x] = call[x]
  BY DEF CallInv
<1>2. SameRecords(ByRequest(call), ByRequest(call'), c)
  BY <1>1 DEF SameRecords, ByRequest, SameHold
<1>3. SameRecords(ByPrefill(call), ByPrefill(call'), c)
  BY <1>1 DEF SameRecords, ByPrefill, SameHold
<1>4. inflight \in [Pods -> Seq(Int)] /\ prefill \in [Pods -> Seq(Int)]
  BY DEF LoadInv
<1>5. Exact(inflight, ByRequest(call')) /\ Exact(prefill, ByPrefill(call'))
  BY <1>2, <1>3, <1>4, CountsWithin, ExactStays DEF ExactInv
<1> QED BY <1>5 DEF ExactInv

\* Call c is replaced by s, which is where a request may be.
LEMMA CallReplaced ==
    ASSUME CallInv, NEW c \in Callers, NEW s \in Call, call' = [call EXCEPT ![c] = s],
           Standing(s, rule'), Counting(s, inflight', prefill'), Marking(s, records'),
           rule' = rule,
           \A p \in Pods : Len(inflight'[p]) >= Len(inflight[p]) /\ Len(prefill'[p]) >= Len(prefill[p]),
           \A k \in HealthKeys : Len(records'[k]) >= Len(records[k]),
           LoadInv, LoadInv', HealthInv, HealthInv'
    PROVE  CallInv'
<1>1. /\ call' \in [Callers -> Call] /\ call'[c] = s
      /\ \A x \in Callers \ {c} : call'[x] = call[x]
  BY DEF CallInv
<1>2. ASSUME NEW x \in Callers \ {c}
      PROVE  /\ Standing(call[x], rule') /\ Counting(call[x], inflight', prefill')
             /\ Marking(call[x], records')
  <2>1. /\ Standing(call[x], rule) /\ Counting(call[x], inflight, prefill)
        /\ Marking(call[x], records) /\ call[x] \in Call
    BY DEF CallInv
  <2>2. call[x].key \in HealthKeys /\ call[x].l \in Nat /\ call[x].f \in Nat /\ call[x].h \in Nat
    BY <2>1 DEF Call
  <2>3. Counting(call[x], inflight', prefill')
    <3>1. \A p \in Pods : /\ Len(inflight[p]) \in Nat /\ Len(inflight'[p]) \in Nat
                          /\ Len(prefill[p]) \in Nat /\ Len(prefill'[p]) \in Nat
      BY DEF LoadInv
    <3> QED BY <2>1, <2>2, <3>1 DEF Counting
  <2>4. Marking(call[x], records')
    <3>1. \A k \in HealthKeys : Len(records[k]) \in Nat /\ Len(records'[k]) \in Nat
      BY DEF HealthInv
    <3> QED BY <2>1, <2>2, <3>1 DEF Marking
  <2> QED BY <2>1, <2>3, <2>4
<1> QED BY <1>1, <1>2 DEF CallInv
----------------------------------------------------------------------------
(* Steps that move one request and nothing else *)

\* Request c goes where a request may be, and keeps what it holds.
LEMMA CallOnly ==
    ASSUME DispatchInductive, NEW c \in Callers, NEW s \in Call,
           call' = [call EXCEPT ![c] = s],
           Standing(s, rule), Counting(s, inflight, prefill), Marking(s, records),
           SameHold(call[c], s), UNCHANGED <<healthVars, loadVars, watchVars, expired>>
    PROVE  DispatchInductive'
<1>1. HealthInv' /\ LoadInv' /\ WatchInv' /\ ExpiredInv'
  BY DEF DispatchInductive, HealthInv, LoadInv, WatchInv, ExpiredInv, healthVars, loadVars, watchVars
<1>2. /\ rule' = rule /\ inflight' = inflight /\ prefill' = prefill /\ records' = records
      /\ ExactInv /\ CallInv /\ LoadInv /\ HealthInv
  BY DEF DispatchInductive, healthVars, loadVars, watchVars
<1>3. ExactInv'
  BY <1>2, ExactKept, Zenon
<1>4. /\ \A p \in Pods : Len(inflight'[p]) >= Len(inflight[p]) /\ Len(prefill'[p]) >= Len(prefill[p])
      /\ \A k \in HealthKeys : Len(records'[k]) >= Len(records[k])
  BY <1>2 DEF LoadInv, HealthInv
<1>5. CallInv'
  BY <1>1, <1>2, <1>4, CallReplaced, Zenon
<1> QED BY <1>1, <1>3, <1>5 DEF DispatchInductive

\* The fields of a request.
LEMMA CallFields ==
    ASSUME CallInv, NEW c \in Callers
    PROVE  /\ call[c] \in Call /\ call[c].pc \in CallSteps /\ call[c].then \in CallSteps
           /\ call[c].sends \in 0..MaxSends /\ call[c].at \in Nat /\ call[c].key \in HealthKeys
           /\ call[c].h \in Nat /\ call[c].l \in Nat /\ call[c].f \in Nat
           /\ call[c].stores \in Seq({"up", "clear", "reset", "count", "down", "window"})
           /\ Standing(call[c], rule) /\ Counting(call[c], inflight, prefill)
           /\ Marking(call[c], records)
BY DEF CallInv, Call

\* A handler that begins, or goes on, holds nothing.
Fresh(s) == /\ s \in Call /\ Standing(s, rule) /\ Counting(s, inflight, prefill)
            /\ Marking(s, records) /\ s.l = 0 /\ s.f = 0

LEMMA NewCallFields ==
    /\ NewCall \in Call /\ NewCall.pc = "idle" /\ NewCall.at = 1 /\ NewCall.key = "pool"
    /\ NewCall.l = 0 /\ NewCall.f = 0
<1>1. "pool" \in HealthKeys /\ "idle" \in CallSteps /\ 0 \in Nat /\ 1 \in Nat /\ 0 \in 0..MaxSends
  BY DispatcherAssumption DEF HealthKeys, Backends, CallSteps
<1>2. <<>> \in Seq({"up", "clear", "reset", "count", "down", "window"}) /\ FALSE \in BOOLEAN
  OBVIOUS
<1>3. NewCall \in Call
  BY <1>1, <1>2, Zenon DEF Call, NewCall
<1> QED BY <1>3 DEF NewCall

LEMMA FreshCall ==
    ASSUME NEW s \in Call, s.pc \in {"idle", "check"}, s.at \in Nat \ {0},
           s.pc # "idle" => s.at <= Len(rule), s.key = "pool", s.l = 0, s.f = 0
    PROVE  Fresh(s)
<1>1. "pool" \notin Pods
  BY DispatcherAssumption DEF Backends
<1>2. Standing(s, rule)
  BY <1>1 DEF Standing, Unplaced
<1>3. Counting(s, inflight, prefill) /\ Marking(s, records)
  BY <1>1 DEF Counting, Marking
<1> QED BY <1>2, <1>3 DEF Fresh

LEMMA GivesUp ==
    ASSUME NEW n \in 0..MaxSends
    PROVE  Fresh([NewCall EXCEPT !.sends = n])
<1> DEFINE s == [NewCall EXCEPT !.sends = n]
<1>1. s \in Call
  BY NewCallFields, Zenon DEF Call
<1>2. s.pc = "idle" /\ s.at = 1 /\ s.key = "pool" /\ s.l = 0 /\ s.f = 0
  BY NewCallFields DEF Call
<1> HIDE DEF s
<1>3. Fresh(s)
  BY <1>1, <1>2, FreshCall
<1> QED BY <1>3 DEF s

LEMMA TriesNext ==
    ASSUME NEW n \in 0..MaxSends, NEW at \in Nat \ {0}, at <= Len(rule)
    PROVE  Fresh([NewCall EXCEPT !.sends = n, !.pc = "check", !.at = at])
<1> DEFINE s == [NewCall EXCEPT !.sends = n, !.pc = "check", !.at = at]
<1>1. "check" \in CallSteps /\ at \in Nat
  BY DEF CallSteps
<1>2. s \in Call
  BY <1>1, NewCallFields, Zenon DEF Call
<1>3. s.pc = "check" /\ s.at = at /\ s.key = "pool" /\ s.l = 0 /\ s.f = 0
  BY NewCallFields DEF Call
<1> HIDE DEF s
<1>4. Fresh(s)
  BY <1>2, <1>3, FreshCall
<1> QED BY <1>4 DEF s

\* Where a handler goes after a backend: to the next one, or back to idle.
LEMMA NextBackendFresh ==
    ASSUME DispatchInductive, NEW c \in Callers, call[c].pc # "idle"
    PROVE  Fresh(NextBackend(c)) /\ Fresh([NewCall EXCEPT !.sends = call[c].sends])
<1>1. CallInv /\ Len(rule) \in Nat
  BY DEF DispatchInductive, WatchInv
<1>2. /\ call[c].sends \in 0..MaxSends /\ call[c].at \in Nat \ {0} /\ call[c].at <= Len(rule)
  BY <1>1, CallFields DEF Standing
<1>3. Fresh([NewCall EXCEPT !.sends = call[c].sends])
  BY <1>2, GivesUp
<1>4. CASE call[c].at = Len(rule)
  BY <1>3, <1>4, Zenon DEF NextBackend
<1>5. CASE call[c].at # Len(rule)
  <2>1. call[c].at + 1 \in Nat \ {0} /\ call[c].at + 1 <= Len(rule)
    BY <1>1, <1>2, <1>5
  <2>2. Fresh([NewCall EXCEPT !.sends = call[c].sends, !.pc = "check", !.at = call[c].at + 1])
    BY <1>2, <2>1, TriesNext, Zenon
  <2> QED BY <1>3, <1>5, <2>2, Zenon DEF NextBackend
<1> QED BY <1>4, <1>5

LEMMA CallArrivesStep ==
    ASSUME DispatchInductive, NEW c \in Callers, CallArrives(c)
    PROVE  DispatchInductive'
<1> DEFINE s == [NewCall EXCEPT !.pc = "check", !.sends = call[c].sends + 1]
<1>1. CallInv /\ rule \in Seq(Backends) /\ rule # <<>>
  BY DEF DispatchInductive, WatchInv
<1>2. call[c].sends + 1 \in 0..MaxSends /\ "check" \in CallSteps
  BY <1>1, CallFields, DispatcherAssumption DEF CallArrives, CallSteps
<1>3. s \in Call
  BY <1>2, NewCallFields, Zenon DEF Call
<1>4. s.pc = "check" /\ s.at = 1 /\ s.key = "pool" /\ s.l = 0 /\ s.f = 0
  BY NewCallFields DEF Call
<1>5. call' = [call EXCEPT ![c] = s] /\ UNCHANGED <<healthVars, loadVars, watchVars, expired>>
  BY Zenon DEF CallArrives
<1> HIDE DEF s
<1>6. 1 \in Nat \ {0} /\ 1 <= Len(rule)
  BY <1>1, EmptySeq
<1>7. Fresh(s)
  BY <1>3, <1>4, <1>6, FreshCall
<1>8. SameHold(call[c], s)
  BY <1>1, <1>4, CallFields DEF SameHold, Standing, Unplaced, CallArrives
<1> QED BY <1>5, <1>7, <1>8, CallOnly, Zenon DEF Fresh

\* A request that only goes on to its next step, or settles where it will go.
LEMMA GoesOn ==
    ASSUME CallInv, NEW c \in Callers, NEW pc \in CallSteps, NEW s,
           s = [call[c] EXCEPT !.pc = pc], pc \notin {"mark", "track", "prefill"},
           call[c].pc # "idle", pc \in Unplaced => call[c].pc \in Unplaced
    PROVE  /\ s \in Call /\ Standing(s, rule) /\ Counting(s, inflight, prefill)
           /\ Marking(s, records) /\ SameHold(call[c], s)
<1>1. /\ call[c] \in Call /\ Standing(call[c], rule) /\ Counting(call[c], inflight, prefill)
  BY CallFields
<1>2. s \in Call
  BY <1>1, Zenon DEF Call
<1>3. /\ s.pc = pc /\ s.at = call[c].at /\ s.key = call[c].key /\ s.l = call[c].l
      /\ s.f = call[c].f
  BY <1>1 DEF Call
<1>4. Standing(s, rule)
  BY <1>1, <1>3 DEF Standing, Unplaced
<1>5. Counting(s, inflight, prefill) /\ Marking(s, records) /\ SameHold(call[c], s)
  BY <1>1, <1>3 DEF Counting, Marking, SameHold
<1> QED BY <1>2, <1>4, <1>5
LEMMA CheckHealthyStep ==
    ASSUME DispatchInductive, NEW c \in Callers, CheckHealthy(c)
    PROVE  DispatchInductive'
<1> DEFINE s == [call[c] EXCEPT !.pc = "place"]
<1>1. CallInv /\ call[c].pc = "check" /\ "place" \in CallSteps
  BY DEF DispatchInductive, CheckHealthy, CallSteps
<1>2. /\ \/ call' = [call EXCEPT ![c] = s]
         \/ call' = [call EXCEPT ![c] = NextBackend(c)]
      /\ UNCHANGED <<healthVars, loadVars, watchVars, expired>>
  <2>1. call' = [call EXCEPT ![c] = IF IsHealthy(rule[call[c].at]) THEN s ELSE NextBackend(c)]
    BY Zenon DEF CheckHealthy
  <2> QED BY <2>1, Zenon DEF CheckHealthy
<1>3. CASE call' = [call EXCEPT ![c] = s]
  <2>1. /\ s \in Call /\ Standing(s, rule) /\ Counting(s, inflight, prefill)
        /\ Marking(s, records) /\ SameHold(call[c], s)
    BY <1>1, GoesOn DEF Unplaced
  <2> HIDE DEF s
  <2> QED BY <1>2, <1>3, <2>1, CallOnly, Zenon
<1>4. CASE call' = [call EXCEPT ![c] = NextBackend(c)]
  <2>1. Fresh(NextBackend(c))
    BY <1>1, NextBackendFresh, Zenon
  <2>2. SameHold(call[c], NextBackend(c))
    BY <1>1, <2>1, CallFields DEF SameHold, Standing, Unplaced, Fresh
  <2> QED BY <1>2, <1>4, <2>1, <2>2, CallOnly, Zenon DEF Fresh
<1> QED BY <1>2, <1>3, <1>4

LEMMA PlacedAt ==
    ASSUME DispatchInductive, NEW c \in Callers, call[c].pc = "place",
           NEW k \in HealthKeys, NEW tokens \in BOOLEAN, PlaceAt(c, k, tokens),
           UNCHANGED <<healthVars, loadVars, watchVars, expired>>
    PROVE  DispatchInductive'
<1> DEFINE pc == IF k \in Pods THEN "track" ELSE "wait"
           s == [call[c] EXCEPT !.pc = pc, !.key = k, !.tokens = tokens]
<1>1. CallInv /\ call[c] \in Call /\ Standing(call[c], rule)
  BY CallFields DEF DispatchInductive
<1>2. pc \in CallSteps /\ pc \in {"track", "wait"} /\ (pc = "track" => k \in Pods)
  BY DEF CallSteps
<1>3. call' = [call EXCEPT ![c] = s]
  BY Zenon DEF PlaceAt
<1> HIDE DEF pc
<1>4. s \in Call
  BY <1>1, <1>2, Zenon DEF Call
<1>5. s.pc = pc /\ s.at = call[c].at /\ s.key = k /\ s.l = call[c].l /\ s.f = call[c].f
  BY <1>1 DEF Call
<1> HIDE DEF s
<1>6. call[c].l = 0 /\ call[c].f = 0 /\ call[c].at # 0 /\ call[c].at <= Len(rule)
  BY <1>1 DEF Standing, Unplaced
<1>7. Standing(s, rule)
  BY <1>2, <1>5, <1>6 DEF Standing, Unplaced
<1>8. Counting(s, inflight, prefill)
  <2>1. LoadInv
    BY DEF DispatchInductive
  <2> QED BY <1>5, <1>6, <2>1 DEF Counting, LoadInv
<1>9. Marking(s, records) /\ SameHold(call[c], s)
  BY <1>2, <1>5, <1>6 DEF Marking, SameHold
<1> QED BY <1>3, <1>4, <1>7, <1>8, <1>9, CallOnly, Zenon

LEMMA PlaceStep ==
    ASSUME DispatchInductive, NEW c \in Callers, Place(c)
    PROVE  DispatchInductive'
<1>1. /\ call[c].pc = "place" /\ UNCHANGED <<healthVars, loadVars, watchVars, expired>>
      /\ endpoints \subseteq Pods /\ loadAware \in BOOLEAN /\ FALSE \in BOOLEAN
      /\ CallInv /\ rule \in Seq(Backends)
  BY Zenon DEF Place, DispatchInductive, WatchInv
<1>2. call[c].at \in 1..Len(rule)
  BY <1>1, CallFields DEF Standing
<1>3. rule[call[c].at] \in HealthKeys /\ \A p \in endpoints : p \in HealthKeys
  BY <1>1, <1>2 DEF HealthKeys
<1>4. \E k \in HealthKeys, tokens \in BOOLEAN : PlaceAt(c, k, tokens)
  BY <1>1, <1>3, Zenon DEF Place
<1> QED BY <1>1, <1>4, PlacedAt

LEMMA CallCancelledStep ==
    ASSUME DispatchInductive, NEW c \in Callers, CallCancelled(c)
    PROVE  DispatchInductive'
<1> DEFINE s == [call[c] EXCEPT !.pc = "retry"]
<1>1. CallInv /\ call[c].pc = "wait" /\ "retry" \in CallSteps
  BY DEF DispatchInductive, CallCancelled, CallSteps
<1>2. call' = [call EXCEPT ![c] = s] /\ UNCHANGED <<healthVars, loadVars, watchVars, expired>>
  BY Zenon DEF CallCancelled
<1>3. /\ s \in Call /\ Standing(s, rule) /\ Counting(s, inflight, prefill)
      /\ Marking(s, records) /\ SameHold(call[c], s)
  BY <1>1, GoesOn DEF Unplaced
<1> HIDE DEF s
<1> QED BY <1>2, <1>3, CallOnly, Zenon

LEMMA BodyEndsStep ==
    ASSUME DispatchInductive, NEW c \in Callers, BodyEnds(c)
    PROVE  DispatchInductive'
<1> DEFINE pc == IF call[c].pc = "stream" THEN "end" ELSE "retry"
           s == [call[c] EXCEPT !.pc = pc]
<1>1. CallInv /\ call[c].pc \in {"stream", "drain"} /\ pc \in CallSteps /\ pc \in {"end", "retry"}
  BY DEF DispatchInductive, BodyEnds, CallSteps
<1>2. call' = [call EXCEPT ![c] = s] /\ UNCHANGED <<healthVars, loadVars, watchVars, expired>>
  BY Zenon DEF BodyEnds
<1> HIDE DEF pc
<1>3. /\ s \in Call /\ Standing(s, rule) /\ Counting(s, inflight, prefill)
      /\ Marking(s, records) /\ SameHold(call[c], s)
  BY <1>1, GoesOn DEF Unplaced
<1> HIDE DEF s
<1> QED BY <1>2, <1>3, CallOnly, Zenon
----------------------------------------------------------------------------
(* Health records *)

LEMMA HealthyIsRecord == Healthy \in HealthRecord
BY DEF Healthy, HealthRecord

\* healthFor leaves every key it is asked for with a record, and no key that
\* had one without.
LEMMA HealthForKeeps ==
    ASSUME HealthInv, NEW ks \in SUBSET HealthKeys, HealthFor(ks)
    PROVE  /\ HealthInv'
           /\ \A k \in HealthKeys : /\ Len(records'[k]) >= Len(records[k])
                                    /\ health[k] # 0 => health'[k] # 0
           /\ \A k \in ks : health'[k] # 0 /\ HealthIndex(k) \in 1..Len(records'[k])
<1>1. ASSUME NEW k \in HealthKeys
      PROVE  /\ records'[k] \in Seq(HealthRecord) /\ health'[k] \in Nat
             /\ health'[k] <= Len(records'[k]) /\ Len(records'[k]) >= Len(records[k])
             /\ health[k] # 0 => health'[k] # 0
             /\ k \in ks => health'[k] # 0 /\ HealthIndex(k) \in 1..Len(records'[k])
  <2>1. records[k] \in Seq(HealthRecord) /\ health[k] \in Nat /\ health[k] <= Len(records[k])
    BY DEF HealthInv
  <2>2. /\ health'[k] = IF k \in ks THEN HealthIndex(k) ELSE health[k]
        /\ records'[k] = IF k \in ks /\ health[k] = 0 THEN Append(records[k], Healthy) ELSE records[k]
    BY DEF HealthFor
  <2>3. /\ Append(records[k], Healthy) \in Seq(HealthRecord)
        /\ Len(Append(records[k], Healthy)) = Len(records[k]) + 1
    BY <2>1, HealthyIsRecord, AppendProperties
  <2>4. CASE k \in ks /\ health[k] = 0
    BY <2>1, <2>2, <2>3, <2>4 DEF HealthIndex
  <2>5. CASE ~(k \in ks /\ health[k] = 0)
    BY <2>1, <2>2, <2>5 DEF HealthIndex
  <2> QED BY <2>4, <2>5
<1>2. health' \in [HealthKeys -> Nat]
  <2>1. \A k \in HealthKeys : (IF k \in ks THEN HealthIndex(k) ELSE health[k]) \in Nat
    BY <1>1 DEF HealthFor
  <2> QED BY <2>1 DEF HealthFor
<1>3. records' \in [HealthKeys -> Seq(HealthRecord)]
  <2>1. \A k \in HealthKeys : (IF k \in ks /\ health[k] = 0 THEN Append(records[k], Healthy)
                               ELSE records[k]) \in Seq(HealthRecord)
    BY <1>1 DEF HealthFor
  <2> QED BY <2>1 DEF HealthFor
<1> QED BY <1>1, <1>2, <1>3 DEF HealthInv

\* The fields the steps on health records leave alone.
LEMMA LoadsUntouched ==
    ASSUME DispatchInductive, NEW c \in Callers, NEW s \in Call, HealthInv',
           call' = [call EXCEPT ![c] = s], s.key = call[c].key, s.l = call[c].l, s.f = call[c].f,
           s.pc = "mark" \/ s.pc \in {"stream", "drain", "retry", "end"}, s.at = call[c].at,
           call[c].pc # "idle", Marking(s, records'),
           \A k \in HealthKeys : /\ Len(records'[k]) >= Len(records[k])
                                 /\ health[k] # 0 => health'[k] # 0,
           UNCHANGED <<loadVars, watchVars, expired>>
    PROVE  DispatchInductive'
<1>1. /\ LoadInv' /\ ExpiredInv' /\ LoadInv /\ HealthInv /\ CallInv /\ ExactInv /\ WatchInv
      /\ inflight' = inflight /\ prefill' = prefill /\ rule' = rule
  BY DEF DispatchInductive, LoadInv, ExpiredInv, loadVars, watchVars
<1>2. WatchInv'
  <2>1. \A p \in Pods : health[p] # 0 => health'[p] # 0
    BY DEF HealthKeys
  <2>2. endpoints \subseteq Pods /\ watch.next \subseteq Pods
    BY <1>1 DEF WatchInv
  <2>3. UNCHANGED <<endpoints, watch, changes, rule, loadAware>>
    BY DEF watchVars
  <2> QED BY <1>1, <2>1, <2>2, <2>3 DEF WatchInv
<1>3. SameHold(call[c], s)
  BY DEF SameHold
<1>4. ExactInv'
  BY <1>1, <1>3, ExactKept, Zenon
<1>5. Standing(call[c], rule) /\ Counting(call[c], inflight, prefill)
  BY <1>1, CallFields
<1>6. Standing(s, rule')
  BY <1>1, <1>5 DEF Standing, Unplaced
<1>7. Counting(s, inflight', prefill')
  BY <1>1, <1>5 DEF Counting
<1>8. \A p \in Pods : Len(inflight'[p]) >= Len(inflight[p]) /\ Len(prefill'[p]) >= Len(prefill[p])
  BY <1>1 DEF LoadInv
<1>9. CallInv'
  BY <1>1, <1>6, <1>7, <1>8, CallReplaced, Zenon
<1> QED BY <1>1, <1>2, <1>4, <1>9 DEF DispatchInductive

Stores == {"up", "clear", "reset", "count", "down", "window"}

LEMMA MarksStep ==
    ASSUME DispatchInductive, NEW c \in Callers, call[c].pc # "idle",
           NEW stores \in Seq(Stores), stores # <<>>, NEW next \in {"stream", "drain", "retry", "end"},
           Marks(c, stores, next)
    PROVE  DispatchInductive'
<1> DEFINE s == [call[c] EXCEPT !.pc = "mark", !.then = next, !.stores = stores,
                                !.h = HealthIndex(call[c].key)]
<1>1. CallInv /\ HealthInv /\ call[c] \in Call /\ call[c].key \in HealthKeys
  BY CallFields DEF DispatchInductive
<1>2. /\ HealthInv'
      /\ \A k \in HealthKeys : /\ Len(records'[k]) >= Len(records[k])
                               /\ health[k] # 0 => health'[k] # 0
      /\ HealthIndex(call[c].key) \in 1..Len(records'[call[c].key])
  BY <1>1, HealthForKeeps DEF Marks
<1>3. HealthIndex(call[c].key) \in Nat
  <2>1. Len(records'[call[c].key]) \in Nat
    BY <1>1, <1>2 DEF HealthInv
  <2> QED BY <1>2, <2>1
<1>4. "mark" \in CallSteps /\ next \in CallSteps
  BY DEF CallSteps
<1>5. s \in Call
  BY <1>1, <1>3, <1>4, Zenon DEF Call, Stores
<1>6. /\ s.pc = "mark" /\ s.then = next /\ s.stores = stores /\ s.h = HealthIndex(call[c].key)
      /\ s.key = call[c].key /\ s.l = call[c].l /\ s.f = call[c].f /\ s.at = call[c].at
  BY <1>1 DEF Call
<1>7. call' = [call EXCEPT ![c] = s] /\ UNCHANGED <<loadVars, watchVars, expired>>
  BY Zenon DEF Marks
<1> HIDE DEF s
<1>8. Marking(s, records')
  BY <1>2, <1>6 DEF Marking
<1> QED BY <1>2, <1>5, <1>6, <1>7, <1>8, LoadsUntouched, Zenon

LEMMA MarkSequences ==
    /\ MarkHealthy \in Seq(Stores) /\ MarkHealthy # <<>>
    /\ Quarantine \in Seq(Stores) /\ Quarantine # <<>>
    /\ <<"count">> \in Seq(Stores) /\ <<"count">> # <<>>
BY DEF MarkHealthy, Quarantine, Stores

LEMMA AnsweredStep ==
    ASSUME DispatchInductive, NEW c \in Callers, Answered(c)
    PROVE  DispatchInductive'
<1>1. PICK next \in {"stream", "retry"} : Marks(c, MarkHealthy, next)
  BY DEF Answered
<1> QED BY <1>1, MarksStep, MarkSequences DEF Answered

LEMMA UpstreamFailsStep ==
    ASSUME DispatchInductive, NEW c \in Callers, UpstreamFails(c)
    PROVE  DispatchInductive'
<1>1. PICK next \in {"drain", "retry"} :
         Marks(c, IF call[c].key \in Pods THEN <<"count">> ELSE Quarantine, next)
  BY DEF UpstreamFails
<1>2. PICK stores \in {<<"count">>, Quarantine} : Marks(c, stores, next)
  BY <1>1
<1> QED BY <1>2, MarksStep, MarkSequences, Zenon DEF UpstreamFails

LEMMA BodyIdleStep ==
    ASSUME DispatchInductive, NEW c \in Callers, BodyIdle(c)
    PROVE  DispatchInductive'
<1>1. PICK next \in {"end", "retry"} : Marks(c, Quarantine, next)
  BY DEF BodyIdle
<1> QED BY <1>1, MarksStep, MarkSequences DEF BodyIdle
\* One atomic store leaves a health record a health record.
LEMMA WrittenType ==
    ASSUME NEW r \in HealthRecord, NEW s \in Stores
    PROVE  Written(r, s) \in HealthRecord
<1>1. TRUE \in BOOLEAN /\ FALSE \in BOOLEAN /\ 0 \in 0..2
      /\ (IF r.failures < 2 THEN r.failures + 1 ELSE 2) \in 0..2
  <2>1. r.failures \in 0..2
    BY DEF HealthRecord
  <2> QED BY <2>1
<1>2. "zero" \in {"zero", "ahead", "past"} /\ "ahead" \in {"zero", "ahead", "past"}
  OBVIOUS
<1>3. CASE s = "up"
  <2>1. [r EXCEPT !.healthy = TRUE] \in HealthRecord
    BY <1>1, Zenon DEF HealthRecord
  <2> QED BY <1>3, <2>1 DEF Written
<1>4. CASE s = "clear"
  <2>1. [r EXCEPT !.until = "zero"] \in HealthRecord
    BY <1>2, Zenon DEF HealthRecord
  <2> QED BY <1>4, <2>1 DEF Written
<1>5. CASE s = "reset"
  <2>1. [r EXCEPT !.failures = 0] \in HealthRecord
    BY <1>1, Zenon DEF HealthRecord
  <2> QED BY <1>5, <2>1 DEF Written
<1>6. CASE s = "count"
  <2>1. [r EXCEPT !.failures = IF r.failures < 2 THEN r.failures + 1 ELSE 2] \in HealthRecord
    BY <1>1, Zenon DEF HealthRecord
  <2> QED BY <1>6, <2>1 DEF Written
<1>7. CASE s = "down"
  <2>1. [r EXCEPT !.healthy = FALSE] \in HealthRecord
    BY <1>1, Zenon DEF HealthRecord
  <2> QED BY <1>7, <2>1 DEF Written
<1>8. CASE s = "window"
  <2>1. [r EXCEPT !.until = "ahead"] \in HealthRecord
    BY <1>2, Zenon DEF HealthRecord
  <2> QED BY <1>8, <2>1 DEF Written
<1> QED BY <1>3, <1>4, <1>5, <1>6, <1>7, <1>8 DEF Stores

\* A record is written in place.
LEMMA RecordWritten ==
    ASSUME HealthInv, NEW k \in HealthKeys, NEW i \in 1..Len(records[k]), NEW r \in HealthRecord,
           records' = [records EXCEPT ![k] = [records[k] EXCEPT ![i] = r]], health' = health
    PROVE  HealthInv' /\ \A x \in HealthKeys : Len(records'[x]) = Len(records[x])
<1>1. /\ [records[k] EXCEPT ![i] = r] \in Seq(HealthRecord)
      /\ Len([records[k] EXCEPT ![i] = r]) = Len(records[k])
  BY ExceptSeq DEF HealthInv
<1> DEFINE q == [records[k] EXCEPT ![i] = r]
<1> HIDE DEF q
<1>2. /\ q \in Seq(HealthRecord) /\ Len(q) = Len(records[k]) /\ records' = [records EXCEPT ![k] = q]
  BY <1>1 DEF q
<1>3. /\ records' \in [HealthKeys -> Seq(HealthRecord)]
      /\ \A x \in HealthKeys : Len(records'[x]) = Len(records[x])
  BY <1>2 DEF HealthInv
<1> QED BY <1>3 DEF HealthInv

LEMMA StoreStep ==
    ASSUME DispatchInductive, NEW c \in Callers, Store(c)
    PROVE  DispatchInductive'
<1> DEFINE k == call[c].key
           i == call[c].h
           x == Head(call[c].stores)
           rest == IF x = "count" /\ records[k][i].failures > 0 THEN Quarantine
                   ELSE Tail(call[c].stores)
           pc == IF rest = <<>> THEN call[c].then ELSE "mark"
           then == IF rest = <<>> THEN "idle" ELSE call[c].then
           h == IF rest = <<>> THEN 0 ELSE i
           s == [call[c] EXCEPT !.stores = rest, !.pc = pc, !.then = then, !.h = h]
<1>1. /\ CallInv /\ HealthInv /\ call[c] \in Call /\ k \in HealthKeys /\ call[c].pc = "mark"
      /\ call[c].stores \in Seq(Stores) /\ Marking(call[c], records) /\ call[c].then \in CallSteps
  BY CallFields DEF DispatchInductive, Store, Stores
<1>2. /\ i \in 1..Len(records[k]) /\ call[c].stores # <<>>
      /\ call[c].then \in {"stream", "drain", "retry", "end"}
  BY <1>1 DEF Marking
<1>3. /\ records' = [records EXCEPT ![k] = [records[k] EXCEPT ![i] = Written(records[k][i], x)]]
      /\ call' = [call EXCEPT ![c] = s]
      /\ UNCHANGED <<health, loadVars, watchVars, expired>>
  BY Zenon DEF Store
<1>4. x \in Stores /\ rest \in Seq(Stores)
  <2>1. x \in Stores /\ Tail(call[c].stores) \in Seq(Stores)
    BY <1>1, <1>2, HeadTailProperties
  <2> QED BY <2>1, MarkSequences
<1>5. i \in Nat /\ records[k][i] \in HealthRecord
  <2>1. records[k] \in Seq(HealthRecord)
    BY <1>1 DEF HealthInv
  <2> QED BY <1>2, <2>1
<1>6. Written(records[k][i], x) \in HealthRecord
  BY <1>4, <1>5, WrittenType
<1>7. HealthInv' /\ \A y \in HealthKeys : Len(records'[y]) = Len(records[y])
  <2> DEFINE r == Written(records[k][i], x)
  <2> HIDE DEF r
  <2>1. r \in HealthRecord /\ records' = [records EXCEPT ![k] = [records[k] EXCEPT ![i] = r]]
    BY <1>3, <1>6 DEF r
  <2>2. health' = health
    BY <1>3
  <2> QED BY <1>1, <1>2, <2>1, <2>2, RecordWritten, Zenon
<1>8. /\ pc \in CallSteps /\ then \in CallSteps /\ h \in Nat
      /\ pc \in {"stream", "drain", "retry", "end"} \/ (pc = "mark" /\ rest # <<>> /\ h = i /\ then = call[c].then)
  BY <1>1, <1>2, <1>5, Zenon DEF CallSteps
<1> HIDE DEF rest, pc, then, h
<1>9. s \in Call
  BY <1>1, <1>4, <1>8, Zenon DEF Call, Stores
<1>10. /\ s.pc = pc /\ s.then = then /\ s.stores = rest /\ s.h = h
       /\ s.key = k /\ s.l = call[c].l /\ s.f = call[c].f /\ s.at = call[c].at
  BY <1>1 DEF Call
<1> HIDE DEF s
<1>11. Marking(s, records')
  BY <1>1, <1>2, <1>7, <1>8, <1>10 DEF Marking
<1>12. \A y \in HealthKeys : Len(records'[y]) >= Len(records[y]) /\ (health[y] # 0 => health'[y] # 0)
  <2>1. \A y \in HealthKeys : Len(records[y]) \in Nat
    BY <1>1 DEF HealthInv
  <2> QED BY <1>3, <1>7, <2>1
<1> QED BY <1>1, <1>3, <1>7, <1>8, <1>9, <1>10, <1>11, <1>12, LoadsUntouched, Zenon

LEMMA WindowEndsStep ==
    ASSUME DispatchInductive, NEW k \in HealthKeys, WindowEnds(k)
    PROVE  DispatchInductive'
<1> DEFINE i == health[k]
           r == [records[k][i] EXCEPT !.until = "past"]
<1>1. /\ HealthInv /\ LoadInv /\ CallInv /\ ExactInv /\ WatchInv /\ ExpiredInv
      /\ UNCHANGED <<health, loadVars, watchVars, call, expired>>
  BY Zenon DEF DispatchInductive, WindowEnds
<1>2. records[k] \in Seq(HealthRecord) /\ i \in 1..Len(records[k])
  BY <1>1 DEF HealthInv, WindowEnds
<1>3. records[k][i] \in HealthRecord /\ "past" \in {"zero", "ahead", "past"}
  BY <1>2
<1>4. r \in HealthRecord
  BY <1>3, Zenon DEF HealthRecord
<1>5. records' = [records EXCEPT ![k] = [records[k] EXCEPT ![i] = r]]
  BY Zenon DEF WindowEnds
<1> HIDE DEF r
<1>6. HealthInv' /\ \A x \in HealthKeys : Len(records'[x]) = Len(records[x])
  BY <1>1, <1>2, <1>4, <1>5, RecordWritten, Zenon
<1>7. LoadInv' /\ ExactInv' /\ WatchInv' /\ ExpiredInv'
  BY <1>1 DEF LoadInv, ExactInv, WatchInv, ExpiredInv, loadVars, watchVars
<1>8. CallInv'
  <2>1. ASSUME NEW c \in Callers
        PROVE  Marking(call[c], records')
    <3>1. call[c].key \in HealthKeys /\ Marking(call[c], records)
      BY <1>1, CallFields
    <3> QED BY <1>6, <3>1 DEF Marking
  <2>2. call' = call /\ rule' = rule /\ inflight' = inflight /\ prefill' = prefill
    BY <1>1 DEF loadVars, watchVars
  <2> QED BY <1>1, <2>1, <2>2 DEF CallInv
<1> QED BY <1>6, <1>7, <1>8 DEF DispatchInductive
=============================================================================
