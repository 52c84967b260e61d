--------------------------- MODULE SessionsProofs ---------------------------
(***************************************************************************)
(* Proofs about Sessions for every set of keys and Pods, every capacity    *)
(* and every timeout: the table keeps to its capacity, the bound that lets *)
(* Place skip scans is sound, and for that reason skipping them never      *)
(* turns a session away that there is room for.                            *)
(***************************************************************************)
EXTENDS Sessions, FiniteSetTheorems, TLAPS

SessionsSpec == SessionsInit /\ [][SessionsNext]_sessionVars

SessionTypes ==
    /\ clock \in Times /\ oldest \in Times /\ movedOff \in [Keys -> Times]
    /\ bindings \in [Keys -> Binding \cup {Unbound}]

\* What makes the properties inductive: the types, the bound, that no binding
\* was seen in the future, and that movedAt is the time of its last move.
SessionsInductive ==
    /\ SessionTypes
    /\ Cardinality(Bound) <= Capacity
    /\ OldestIsLowerBound
    /\ \A k \in Bound : /\ bindings[k].lastSeen <= clock
                        /\ bindings[k].movedAt = movedOff[k]

----------------------------------------------------------------------------
\* A set of times that is not empty has an earliest one.
LEMMA EarliestTime ==
    ASSUME NEW T, T \subseteq Nat, T # {}
    PROVE  \E t \in T : \A u \in T : t <= u
  <1> DEFINE R == OpToRel(<, Nat)
  <1>1. IsWellFoundedOn(R, Nat)
    BY NatLessThanWellFounded
  <1>2. \A x, y \in Nat : x < y => <<x, y>> \in R
    BY DEF OpToRel
  <1> HIDE DEF R
  <1>3. PICK t \in T : \A u \in T : ~(<<u, t>> \in R)
    BY <1>1, WFMin
  <1>4. \A u \in T : t <= u
    <2> TAKE u \in T
    <2>1. t \in Nat /\ u \in Nat
      OBVIOUS
    <2>2. ~(u < t)
      BY <1>2, <1>3, <2>1
    <2> QED
      BY <2>1, <2>2
  <1> QED
    BY <1>4

\* dropExpiredLocked: the bound it computes is one for the bindings it keeps.
LEMMA OldestOfBounds ==
    ASSUME SessionTypes, NEW ks, ks \subseteq Bound
    PROVE  /\ OldestOf(ks) \in Times
           /\ \A k \in ks : OldestOf(ks) <= bindings[k].lastSeen
  <1>1. CASE ks = {}
    BY <1>1, SessionsAssumption DEF OldestOf, Times
  <1>2. CASE ks # {}
    <2> DEFINE T == {bindings[k].lastSeen : k \in ks}
    <2>1. \A k \in ks : bindings[k] \in Binding
      BY DEF SessionTypes, Bound
    <2>2. T \subseteq Times /\ T \subseteq Nat /\ T # {}
      BY <1>2, <2>1, SessionsAssumption DEF Binding, Times
    <2> HIDE DEF T
    <2>3. PICK t \in T : \A u \in T : t <= u
      BY <2>2, EarliestTime
    <2>4. /\ t \in Times
          /\ \E k \in ks : bindings[k].lastSeen = t
          /\ \A k \in ks : t <= bindings[k].lastSeen
      BY <2>2, <2>3 DEF T
    <2> QED
      BY <1>2, <2>4 DEF OldestOf
  <1> QED
    BY <1>1, <1>2

\* The bindings kept after looking for room, and the bound for them.
LEMMA RoomForFacts ==
    ASSUME SessionsInductive, NEW k \in Keys
    PROVE  /\ RoomFor(k).keep \subseteq Bound \ {k}
           /\ RoomFor(k).oldest \in Times
           /\ \A j \in RoomFor(k).keep : RoomFor(k).oldest <= bindings[j].lastSeen
  <1>1. LiveKeys \ {k} \subseteq Bound
    BY DEF LiveKeys
  <1>2. /\ OldestOf(LiveKeys \ {k}) \in Times
        /\ \A j \in LiveKeys \ {k} : OldestOf(LiveKeys \ {k}) <= bindings[j].lastSeen
    BY <1>1, OldestOfBounds DEF SessionsInductive
  <1>3. oldest \in Times /\ \A j \in Bound : oldest <= bindings[j].lastSeen
    BY DEF SessionsInductive, SessionTypes, OldestIsLowerBound
  <1> QED
    BY <1>1, <1>2, <1>3 DEF RoomFor

----------------------------------------------------------------------------
\* The table starts empty.
LEMMA SessionsInductiveInit ==
    ASSUME SessionsInit
    PROVE  SessionsInductive
  <1>1. Bound = {}
    BY DEF SessionsInit, Bound
  <1>2. Cardinality(Bound) <= Capacity
    BY <1>1, FS_EmptySet, SessionsAssumption
  <1> QED
    BY <1>1, <1>2, SessionsAssumption
       DEF SessionsInit, SessionsInductive, SessionTypes, OldestIsLowerBound, Times

\* Binding a key to a pod anew, in a table reduced to ks, is a step of the
\* invariant when there is room and the bound is one for ks.
LEMMA BindStep ==
    ASSUME SessionsInductive, NEW k \in Keys, NEW ks \in SUBSET (Bound \ {k}),
           Cardinality(ks) < Capacity,
           NEW b \in Binding, b.lastSeen = clock,
           bindings' = [Only(ks) EXCEPT ![k] = b], clock' = clock,
           oldest' \in Times, oldest' <= clock,
           \A j \in ks : oldest' <= bindings[j].lastSeen,
           movedOff' = [movedOff EXCEPT ![k] = b.movedAt]
    PROVE  SessionsInductive'
  <1>1. b # Unbound
    BY SessionsAssumption DEF Binding, Unbound
  <1>2. /\ bindings'[k] = b
        /\ \A j \in ks : bindings'[j] = bindings[j]
        /\ \A j \in Keys \ (ks \cup {k}) : bindings'[j] = Unbound
    BY DEF Only, Bound
  <1>3. Bound' = ks \cup {k}
    BY <1>1, <1>2 DEF Bound
  <1>4. Cardinality(Bound') <= Capacity
    <2>1. ks \subseteq Keys
      BY DEF Bound
    <2>2. IsFiniteSet(ks)
      BY <2>1, FS_Subset, SessionsAssumption
    <2> DEFINE c == Cardinality(ks)
               d == Cardinality(ks \cup {k})
    <2>3. c \in Nat /\ d = IF k \in ks THEN c ELSE c + 1
      BY <2>2, FS_CardinalityType, FS_AddElement, Zenon
    <2>4. c < Capacity
      OBVIOUS
    <2> HIDE DEF c, d
    <2>5. d <= Capacity
      BY <2>3, <2>4, SessionsAssumption
    <2> QED
      BY <1>3, <2>5 DEF d
  <1>5. SessionTypes'
    <2>1. bindings' \in [Keys -> Binding \cup {Unbound}]
      BY DEF Only, Bound, SessionsInductive, SessionTypes
    <2>2. movedOff' \in [Keys -> Times]
      BY DEF Binding, SessionsInductive, SessionTypes
    <2> QED
      BY <2>1, <2>2 DEF SessionsInductive, SessionTypes
  <1>6. OldestIsLowerBound'
    BY <1>2, <1>3 DEF OldestIsLowerBound
  <1>7. \A j \in Bound' : /\ bindings'[j].lastSeen <= clock'
                          /\ bindings'[j].movedAt = movedOff'[j]
    <2> TAKE j \in Bound'
    <2>1. CASE j = k
      <3>1. clock <= clock
        BY SessionsAssumption DEF SessionsInductive, SessionTypes, Times
      <3> QED
        BY <1>2, <2>1, <3>1 DEF SessionsInductive, SessionTypes
    <2>2. CASE j \in ks /\ j # k
      BY <1>2, <2>2 DEF SessionsInductive, SessionTypes, Bound
    <2> QED
      BY <1>3, <2>1, <2>2
  <1> QED
    BY <1>4, <1>5, <1>6, <1>7 DEF SessionsInductive

\* Dropping bindings, with a bound for the rest, is one as well.
LEMMA DropStep ==
    ASSUME SessionsInductive, NEW ks \in SUBSET Bound,
           bindings' = Only(ks), clock' \in Times, oldest' \in Times,
           \A j \in ks : /\ oldest' <= bindings[j].lastSeen
                        /\ bindings[j].lastSeen <= clock',
           movedOff' = movedOff
    PROVE  SessionsInductive'
  <1>1. /\ \A j \in ks : bindings'[j] = bindings[j]
        /\ \A j \in Keys \ ks : bindings'[j] = Unbound
    BY DEF Only, Bound
  <1>2. Bound' = ks
    BY <1>1 DEF Bound
  <1>3. Cardinality(Bound') <= Capacity
    <2>1. Bound \subseteq Keys
      BY DEF Bound
    <2>2. IsFiniteSet(Bound)
      BY <2>1, FS_Subset, SessionsAssumption
    <2> DEFINE c == Cardinality(Bound)
               d == Cardinality(ks)
    <2>3. c \in Nat /\ d \in Nat /\ d <= c
      BY <2>2, FS_CardinalityType, FS_Subset
    <2>4. c <= Capacity
      BY DEF SessionsInductive
    <2> HIDE DEF c, d
    <2>5. d <= Capacity
      BY <2>3, <2>4, SessionsAssumption
    <2> QED
      BY <1>2, <2>5 DEF d
  <1>4. SessionTypes'
    BY DEF Only, Bound, SessionsInductive, SessionTypes
  <1> QED
    BY <1>1, <1>2, <1>3, <1>4 DEF SessionsInductive, OldestIsLowerBound

\* Rewriting a live binding in place is BindStep with every other one kept.
LEMMA RebindStep ==
    ASSUME SessionsInductive, NEW k \in LiveKeys,
           NEW b \in Binding, b.lastSeen = clock,
           bindings' = [bindings EXCEPT ![k] = b],
           movedOff' = [movedOff EXCEPT ![k] = b.movedAt],
           clock' = clock, oldest' = oldest
    PROVE  SessionsInductive'
  <1> DEFINE ks == Bound \ {k}
  <1>1. k \in Bound /\ k \in Keys /\ ks \in SUBSET (Bound \ {k})
    BY DEF LiveKeys, Bound
  <1>2. Cardinality(ks) < Capacity
    <2>1. Bound \subseteq Keys
      BY DEF Bound
    <2>2. IsFiniteSet(Bound)
      BY <2>1, FS_Subset, SessionsAssumption
    <2> DEFINE c == Cardinality(Bound)
               d == Cardinality(ks)
    <2>3. c \in Nat /\ d = c - 1
      BY <1>1, <2>2, FS_CardinalityType, FS_RemoveElement, Zenon
    <2>4. c <= Capacity
      BY DEF SessionsInductive
    <2> HIDE DEF c, d
    <2>5. d < Capacity
      BY <2>3, <2>4, SessionsAssumption
    <2> QED
      BY <2>5 DEF d
  <1>3. bindings' = [Only(ks) EXCEPT ![k] = b]
    BY <1>1 DEF Only, Bound, SessionsInductive, SessionTypes
  <1>4. oldest' \in Times /\ oldest' <= clock
    <2>1. oldest <= bindings[k].lastSeen /\ bindings[k].lastSeen <= clock
      BY <1>1 DEF SessionsInductive, OldestIsLowerBound
    <2>2. bindings[k] \in Binding
      BY <1>1 DEF SessionsInductive, SessionTypes, Bound
    <2>3. oldest \in Nat /\ clock \in Nat /\ bindings[k].lastSeen \in Nat
      BY <2>2, SessionsAssumption DEF SessionsInductive, SessionTypes, Times, Binding
    <2>4. oldest <= clock
      BY <2>1, <2>3
    <2> QED
      BY <2>4 DEF SessionsInductive, SessionTypes
  <1>5. \A j \in ks : oldest' <= bindings[j].lastSeen
    BY DEF SessionsInductive, OldestIsLowerBound
  <1> HIDE DEF ks
  <1> QED
    BY <1>1, <1>2, <1>3, <1>4, <1>5, BindStep

\* Every call on the table, and the clock, keep the invariant.
LEMMA SessionsInductiveStep ==
    ASSUME SessionsInductive, [SessionsNext]_sessionVars
    PROVE  SessionsInductive'
  <1>0. clock \in Times /\ clock \in Nat
    BY SessionsAssumption DEF SessionsInductive, SessionTypes, Times
  <1>1. ASSUME NEW k \in Keys, PlaceNew(k) PROVE SessionsInductive'
    <2> DEFINE ks == RoomFor(k).keep
    <2>1. PICK p \in Candidates :
            /\ Cardinality(ks) < Capacity
            /\ bindings' = [Only(ks) EXCEPT ![k] =
                              [endpoint |-> p, lastSeen |-> clock, movedAt |-> 0]]
            /\ oldest' = IF ks = {} THEN clock ELSE RoomFor(k).oldest
      BY <1>1 DEF PlaceNew
    <2> DEFINE b == [endpoint |-> p, lastSeen |-> clock, movedAt |-> 0]
    <2>2. b \in Binding /\ b.lastSeen = clock /\ b.movedAt = 0
      BY <1>0, SessionsAssumption DEF Binding, Times
    <2>3. ks \in SUBSET (Bound \ {k})
      BY RoomForFacts
    <2>4. oldest' \in Times /\ oldest' <= clock
      <3>1. CASE ks = {}
        BY <1>0, <2>1, <3>1
      <3>2. CASE ks # {}
        <4>1. PICK j \in ks : TRUE
          BY <3>2
        <4>2. /\ oldest' \in Times /\ oldest' <= bindings[j].lastSeen
              /\ bindings[j].lastSeen <= clock /\ bindings[j] \in Binding
          BY <2>1, <2>3, <3>2, <4>1, RoomForFacts
             DEF SessionsInductive, SessionTypes, Bound
        <4>3. oldest' \in Nat /\ bindings[j].lastSeen \in Nat
          BY <4>2, SessionsAssumption DEF Binding, Times
        <4>4. oldest' <= clock
          BY <1>0, <4>2, <4>3
        <4> QED
          BY <4>2, <4>4
      <3> QED
        BY <3>1, <3>2
    <2>5. \A j \in ks : oldest' <= bindings[j].lastSeen
      BY <2>1, RoomForFacts
    <2>6. movedOff' = [movedOff EXCEPT ![k] = b.movedAt] /\ clock' = clock
      BY <1>1, <2>2 DEF PlaceNew
    <2>7. bindings' = [Only(ks) EXCEPT ![k] = b] /\ Cardinality(ks) < Capacity
      BY <2>1
    <2> HIDE DEF ks, b
    <2> QED
      BY <2>2, <2>3, <2>4, <2>5, <2>6, <2>7, BindStep
  <1>2. ASSUME NEW k \in Keys, PlaceFallback(k) PROVE SessionsInductive'
    <2> DEFINE ks == RoomFor(k).keep
    <2>1. /\ bindings' = Only(ks) /\ oldest' = RoomFor(k).oldest
          /\ clock' = clock /\ movedOff' = movedOff
      BY <1>2 DEF PlaceFallback
    <2>2. /\ ks \in SUBSET Bound /\ oldest' \in Times
          /\ \A j \in ks : oldest' <= bindings[j].lastSeen
      BY <2>1, RoomForFacts
    <2>3. \A j \in ks : bindings[j].lastSeen <= clock'
      BY <2>1, <2>2 DEF SessionsInductive
    <2> HIDE DEF ks
    <2> QED
      BY <1>0, <2>1, <2>2, <2>3, DropStep
  <1>3. ASSUME NEW k \in Keys, PlaceMigrated(k) \/ PlaceSpill(k)
        PROVE  SessionsInductive'
    <2>1. PICK p \in Candidates :
            bindings' = [bindings EXCEPT ![k] =
                           [endpoint |-> p, lastSeen |-> clock, movedAt |-> clock]]
      BY <1>3 DEF PlaceMigrated, PlaceSpill
    <2> DEFINE b == [endpoint |-> p, lastSeen |-> clock, movedAt |-> clock]
    <2>2. b \in Binding /\ b.lastSeen = clock /\ b.movedAt = clock
      BY <1>0 DEF Binding
    <2>3. /\ k \in LiveKeys /\ clock' = clock /\ oldest' = oldest
          /\ movedOff' = [movedOff EXCEPT ![k] = b.movedAt]
      BY <1>3, <2>2 DEF PlaceMigrated, PlaceSpill
    <2>4. bindings' = [bindings EXCEPT ![k] = b]
      BY <2>1
    <2> HIDE DEF b
    <2> QED
      BY <2>2, <2>3, <2>4, RebindStep
  <1>4. ASSUME NEW k \in Keys, PlaceSticky(k) PROVE SessionsInductive'
    <2> DEFINE b == [bindings[k] EXCEPT !.lastSeen = clock]
    <2>1. k \in LiveKeys /\ clock' = clock /\ oldest' = oldest
      BY <1>4 DEF PlaceSticky
    <2>2. bindings[k] \in Binding /\ bindings[k].movedAt = movedOff[k]
      BY <2>1 DEF LiveKeys, Bound, SessionsInductive, SessionTypes
    <2>3. b \in Binding /\ b.lastSeen = clock /\ b.movedAt = movedOff[k]
      BY <1>0, <2>2 DEF Binding
    <2>4. movedOff' = [movedOff EXCEPT ![k] = b.movedAt]
      BY <1>4, <2>3 DEF PlaceSticky, SessionsInductive, SessionTypes
    <2>5. bindings' = [bindings EXCEPT ![k] = b]
      BY <1>4 DEF PlaceSticky
    <2> HIDE DEF b
    <2> QED
      BY <2>1, <2>3, <2>4, <2>5, RebindStep
  <1>5. CASE Sweep
    <2>1. LiveKeys \in SUBSET Bound
      BY DEF LiveKeys
    <2>2. /\ bindings' = Only(LiveKeys) /\ oldest' = OldestOf(LiveKeys)
          /\ clock' = clock /\ movedOff' = movedOff
      BY <1>5 DEF Sweep
    <2>3. oldest' \in Times /\ \A j \in LiveKeys : oldest' <= bindings[j].lastSeen
      BY <2>1, <2>2, OldestOfBounds DEF SessionsInductive
    <2>4. \A j \in LiveKeys : bindings[j].lastSeen <= clock'
      BY <2>1, <2>2 DEF SessionsInductive
    <2> QED
      BY <1>0, <2>1, <2>2, <2>3, <2>4, DropStep
  <1>6. CASE SessionTick
    <2>1. /\ bindings' = bindings /\ oldest' = oldest /\ movedOff' = movedOff
          /\ clock' = clock + 1 /\ clock < SessionsEnd
      BY <1>6 DEF SessionTick
    <2>2. clock' \in Times
      BY <1>0, <2>1, SessionsAssumption DEF Times
    <2>3. \A j \in Bound : bindings[j].lastSeen <= clock'
      <3> TAKE j \in Bound
      <3>1. bindings[j] \in Binding /\ bindings[j].lastSeen <= clock
        BY DEF Bound, SessionsInductive, SessionTypes
      <3>2. bindings[j].lastSeen \in Nat
        BY <3>1, SessionsAssumption DEF Binding, Times
      <3> QED
        BY <1>0, <2>1, <3>1, <3>2
    <2>4. bindings' = Only(Bound)
      BY <2>1 DEF Only, Bound, SessionsInductive, SessionTypes
    <2>5. oldest' \in Times /\ \A j \in Bound : oldest' <= bindings[j].lastSeen
      BY <2>1 DEF SessionsInductive, SessionTypes, OldestIsLowerBound
    <2> QED
      BY <2>1, <2>2, <2>3, <2>4, <2>5, DropStep
  <1>7. CASE UNCHANGED sessionVars
    BY <1>7 DEF sessionVars, SessionsInductive, SessionTypes, OldestIsLowerBound, Bound
  <1> QED
    BY <1>1, <1>2, <1>3, <1>4, <1>5, <1>6, <1>7 DEF SessionsNext

\* The invariant holds at all times.
LEMMA SessionsInvariance == SessionsSpec => []SessionsInductive
  BY SessionsInductiveInit, SessionsInductiveStep, PTL DEF SessionsSpec

----------------------------------------------------------------------------
\* Place never binds more sessions than the table's capacity, whatever is
\* dropped, moved or bound again, and every entry stays well formed.
THEOREM CapacityKept == SessionsSpec => []SessionsTypeOK
  <1>1. SessionsInductive => SessionsTypeOK
    BY DEF SessionsInductive, SessionTypes, SessionsTypeOK, Bound
  <1> QED
    BY <1>1, SessionsInvariance, PTL

\* The bound that Place consults before it scans the table is below the time
\* of every binding: a scan that is skipped would have dropped nothing.
THEOREM BoundSound == SessionsSpec => []OldestIsLowerBound
  <1>1. SessionsInductive => OldestIsLowerBound
    BY DEF SessionsInductive
  <1> QED
    BY <1>1, SessionsInvariance, PTL

\* Place turns a new session away only when live sessions fill the table,
\* although it scans for expired ones only when the bound says so.
THEOREM OnlyLiveSessionsFill == SessionsSpec => []OnlyLiveTurnAway
  <1>1. SessionsInductive => OnlyLiveTurnAway
    <2> SUFFICES ASSUME SessionsInductive, NEW k \in Keys \ LiveKeys,
                        Cardinality(RoomFor(k).keep) >= Capacity
                 PROVE  Cardinality(LiveKeys) >= Capacity
      BY DEF OnlyLiveTurnAway
    <2> DEFINE scan == Cardinality(Bound \ {k}) >= Capacity /\ MayHoldExpired
    <2>1. CASE scan
      <3>1. RoomFor(k).keep = LiveKeys \ {k}
        BY <2>1 DEF RoomFor
      <3>2. LiveKeys \ {k} = LiveKeys
        OBVIOUS
      <3> QED
        BY <3>1, <3>2
    <2>2. CASE ~scan
      <3>1. RoomFor(k).keep = Bound \ {k}
        BY <2>2 DEF RoomFor
      <3>2. ~MayHoldExpired
        BY <2>2, <3>1
      <3>3. ASSUME NEW j \in Bound PROVE ~Expired(j)
        <4>1. oldest <= bindings[j].lastSeen /\ bindings[j] \in Binding
          BY DEF SessionsInductive, SessionTypes, OldestIsLowerBound, Bound
        <4>2. oldest \in Nat /\ clock \in Nat /\ bindings[j].lastSeen \in Nat
          BY <4>1, SessionsAssumption DEF SessionsInductive, SessionTypes, Times, Binding
        <4>3. ~(clock - oldest > IdleTimeout)
          BY <3>2 DEF MayHoldExpired
        <4>4. ~(clock - bindings[j].lastSeen > IdleTimeout)
          BY <4>1, <4>2, <4>3, SessionsAssumption
        <4> QED
          BY <4>4 DEF Expired
      <3>4. Bound \ {k} = LiveKeys
        BY <3>3 DEF LiveKeys
      <3> QED
        BY <3>1, <3>4
    <2> QED
      BY <2>1, <2>2
  <1> QED
    BY <1>1, SessionsInvariance, PTL

\* Two pressure moves of a session are a cooldown apart: no sticky turn, sweep
\* or scan loses the time of the last move of a session that is still bound.
THEOREM CooldownSpaced == SessionsSpec => []CooldownHolds
  <1>1. SessionsInductive => CooldownHolds
    <2> SUFFICES ASSUME SessionsInductive, NEW k \in LiveKeys,
                        movedOff[k] > 0, clock - movedOff[k] < SpillCooldown
                 PROVE  ~CooledDown(k)
      BY DEF CooldownHolds
    <2>1. k \in Bound /\ k \in Keys
      BY DEF LiveKeys, Bound
    <2>2. bindings[k].movedAt = movedOff[k]
      BY <2>1 DEF SessionsInductive
    <2>3. clock \in Nat /\ movedOff[k] \in Nat
      BY <2>1, SessionsAssumption DEF SessionsInductive, SessionTypes, Times
    <2>4. ~(movedOff[k] = 0) /\ ~(clock - movedOff[k] >= SpillCooldown)
      BY <2>3, SessionsAssumption
    <2> QED
      BY <2>2, <2>4 DEF CooledDown
  <1> QED
    BY <1>1, SessionsInvariance, PTL
=============================================================================
