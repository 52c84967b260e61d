------------------------------ MODULE Sessions ------------------------------
(***************************************************************************)
(* internal/router/picker/sessions.go: the table that binds sessions to    *)
(* Pods.  Every call holds the table's lock, so each is one step.  Time is *)
(* a tick count; 0 is Go's zero time.  Which Pods are candidates, which of *)
(* them has the least load and whether the bound one is under pressure are *)
(* left open: the readings behind them change between any two requests.    *)
(***************************************************************************)
EXTENDS Integers, FiniteSets

CONSTANTS
    Keys,           \* session keys
    Candidates,     \* Pods
    Capacity,       \* bindings the table holds
    IdleTimeout,    \* ticks a binding survives without a request
    SpillCooldown,  \* ticks between two pressure moves
    SessionsEnd     \* bound: the last tick

ASSUME SessionsAssumption ==
    /\ IsFiniteSet(Keys) /\ "none" \notin Candidates
    /\ Capacity \in Nat \ {0} /\ IdleTimeout \in Nat \ {0}
    /\ SpillCooldown \in Nat /\ SessionsEnd \in Nat \ {0}

VARIABLES
    clock,
    bindings,   \* key -> binding, or Unbound
    oldest,     \* lower bound on every lastSeen
    movedOff    \* history: when a binding was last moved, 0: never

sessionVars == <<clock, bindings, oldest, movedOff>>

Times == 0..SessionsEnd
Binding == [endpoint : Candidates, lastSeen : Times, movedAt : Times]
Unbound == [endpoint |-> "none", lastSeen |-> 0, movedAt |-> 0]

Bound == {k \in Keys : bindings[k] # Unbound}
Expired(k) == k \in Bound /\ clock - bindings[k].lastSeen > IdleTimeout

----------------------------------------------------------------------------
\* dropExpiredLocked leaves the live bindings; the bound is taken anew.
LiveKeys == {k \in Bound : ~Expired(k)}
OldestOf(ks) ==
    IF ks = {} THEN 0
    ELSE CHOOSE t \in Times : /\ \E k \in ks : bindings[k].lastSeen = t
                              /\ \A k \in ks : t <= bindings[k].lastSeen

Only(ks) == [k \in Keys |-> IF k \in ks THEN bindings[k] ELSE Unbound]

\* Place of a key without a live binding.  The table is scanned only when it
\* is full and the bound says that something may have expired.
\* Mutant: the bound is compared one tick late.
MayHoldExpiredLate == oldest = 0 \/ clock - oldest > IdleTimeout + 1
MayHoldExpired == oldest = 0 \/ clock - oldest > IdleTimeout

\* What is bound, and the bound, when the table looks for room for key k.
RoomFor(k) ==
    LET others == Bound \ {k}
        scan == Cardinality(others) >= Capacity /\ MayHoldExpired
    IN IF scan THEN [keep |-> LiveKeys \ {k}, oldest |-> OldestOf(LiveKeys \ {k})]
       ELSE [keep |-> others, oldest |-> oldest]

\* Mutant: one binding too many.
PlaceNewOffByOne(k) ==
    /\ k \notin LiveKeys
    /\ \E room \in {RoomFor(k)}, p \in Candidates :
         /\ Cardinality(room.keep) <= Capacity
         /\ bindings' = [Only(room.keep) EXCEPT ![k] =
                           [endpoint |-> p, lastSeen |-> clock, movedAt |-> 0]]
         /\ oldest' = IF room.keep = {} THEN clock ELSE room.oldest
    /\ movedOff' = [movedOff EXCEPT ![k] = 0]
    /\ UNCHANGED clock

PlaceNew(k) ==
    /\ k \notin LiveKeys
    /\ \E room \in {RoomFor(k)}, p \in Candidates :
         /\ Cardinality(room.keep) < Capacity
         /\ bindings' = [Only(room.keep) EXCEPT ![k] =
                           [endpoint |-> p, lastSeen |-> clock, movedAt |-> 0]]
         /\ oldest' = IF room.keep = {} THEN clock ELSE room.oldest
    /\ movedOff' = [movedOff EXCEPT ![k] = 0]
    /\ UNCHANGED clock

\* The table stays full: the request goes to the ring home and is not bound.
PlaceFallback(k) ==
    /\ k \notin LiveKeys
    /\ \E room \in {RoomFor(k)} :
         /\ Cardinality(room.keep) >= Capacity
         /\ bindings' = Only(room.keep) /\ oldest' = room.oldest
    /\ UNCHANGED <<clock, movedOff>>

\* The bound Pod left the candidates.
PlaceMigrated(k) ==
    /\ k \in LiveKeys
    /\ \E p \in Candidates \ {bindings[k].endpoint} :
         bindings' = [bindings EXCEPT ![k] =
                        [endpoint |-> p, lastSeen |-> clock, movedAt |-> clock]]
    /\ movedOff' = [movedOff EXCEPT ![k] = clock]
    /\ UNCHANGED <<clock, oldest>>

\* The bound Pod is under pressure and another one is clearly better.
CooledDown(k) == bindings[k].movedAt = 0 \/ clock - bindings[k].movedAt >= SpillCooldown

PlaceSpill(k) ==
    /\ k \in LiveKeys /\ CooledDown(k)
    /\ \E p \in Candidates \ {bindings[k].endpoint} :
         bindings' = [bindings EXCEPT ![k] =
                        [endpoint |-> p, lastSeen |-> clock, movedAt |-> clock]]
    /\ movedOff' = [movedOff EXCEPT ![k] = clock]
    /\ UNCHANGED <<clock, oldest>>

PlaceSticky(k) ==
    /\ k \in LiveKeys
    /\ bindings' = [bindings EXCEPT ![k] = [@ EXCEPT !.lastSeen = clock]]
    /\ UNCHANGED <<clock, oldest, movedOff>>

\* Sweep, from RunSessionSweeper.
Sweep ==
    /\ bindings' = Only(LiveKeys)
    /\ oldest' = OldestOf(LiveKeys)
    /\ UNCHANGED <<clock, movedOff>>

SessionTick ==
    /\ clock < SessionsEnd
    /\ clock' = clock + 1
    /\ UNCHANGED <<bindings, oldest, movedOff>>

----------------------------------------------------------------------------
SessionsInit ==
    /\ clock = 1 /\ oldest = 0
    /\ bindings = [k \in Keys |-> Unbound] /\ movedOff = [k \in Keys |-> 0]

SessionsNext ==
    \/ \E k \in Keys : \/ PlaceNew(k) \/ PlaceFallback(k) \/ PlaceMigrated(k)
                       \/ PlaceSpill(k) \/ PlaceSticky(k)
    \/ Sweep \/ SessionTick

----------------------------------------------------------------------------
\* The types, with the capacity of the table.
SessionsTypeOK ==
    /\ clock \in Times /\ oldest \in Times /\ movedOff \in [Keys -> Times]
    /\ \A k \in Bound : bindings[k] \in Binding
    /\ Cardinality(Bound) <= Capacity

\* oldest is a lower bound on every binding's lastSeen, over deletions, scans
\* and bindings made into an emptied table: Place relies on it to skip scans.
OldestIsLowerBound == \A k \in Bound : oldest <= bindings[k].lastSeen

\* A new session is turned away only by a table full of live ones: although
\* expired bindings stay until a scan and most scans are skipped, none of them
\* keeps a session out.
OnlyLiveTurnAway ==
    \A k \in Keys \ LiveKeys :
        Cardinality(RoomFor(k).keep) >= Capacity => Cardinality(LiveKeys) >= Capacity

\* Pressure moves of one session are SpillCooldown apart, counted from its last
\* move of any kind, however many sticky turns come between.
CooldownHolds ==
    \A k \in LiveKeys :
        movedOff[k] > 0 /\ clock - movedOff[k] < SpillCooldown => ~CooledDown(k)
=============================================================================
