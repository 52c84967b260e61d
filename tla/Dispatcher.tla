----------------------------- MODULE Dispatcher -----------------------------
(***************************************************************************)
(* internal/router/backend.go, endpoint_load.go and endpoint_watch.go: the *)
(* dispatcher's health, load and prefill bookkeeping under concurrent      *)
(* requests, with the walk over a rule's backends of proxy.go.  A rule has *)
(* the backends "pool", balanced over the Pods behind it, and "spare".     *)
(* Health and load records are pointers: a request keeps the record it     *)
(* looked up, though the map may by then hold another, or none.  The       *)
(* fields of a health record are atomics, stored one after another.        *)
(***************************************************************************)
EXTENDS Integers, Sequences, FiniteSets

CONSTANTS
    Pods,       \* endpoints the Service of the pool may have
    Callers,    \* handlers that run at once
    MaxSends,   \* bound: requests of one caller
    Starts      \* rules, first endpoint sets and bounds on the changes of the set

Backends == {"pool", "spare"}
HealthKeys == Pods \cup Backends

ASSUME DispatcherAssumption ==
    /\ MaxSends \in Nat
    /\ Pods \cap Backends = {} /\ IsFiniteSet(Callers)
    /\ \A s \in Starts : /\ s.rule \in Seq(Backends) /\ s.rule # <<>> /\ s.set \subseteq Pods
                         /\ s.changes \in Nat /\ s.loadAware \in BOOLEAN

VARIABLES
    endpoints,  \* the live endpoint set of the pool
    health,     \* healthKey -> which of its records the map holds, 0: none
    records,    \* every health record there has been, by key
    loads,      \* endpoint -> which of its load records the map holds, 0: none
    inflight,   \* the two counts of every load record there has been,
    prefill,    \* by endpoint
    call,       \* the requests
    watch,      \* SetEndpoints in progress
    expired,    \* prefill releases the janitor has collected
    changes,    \* changes of the endpoint set still to come
    rule,       \* the backends of the matched rule, in order
    loadAware   \* is the pool's balancing mode LoadAware?

healthVars == <<health, records>>
loadVars == <<loads, inflight, prefill>>
watchVars == <<endpoints, watch, changes, rule, loadAware>>
dispatchVars == <<healthVars, loadVars, watchVars, call, expired>>

HealthRecord == [healthy : BOOLEAN, until : {"zero", "ahead", "past"}, failures : 0..2]
Healthy == [healthy |-> TRUE, until |-> "zero", failures |-> 0]

CallSteps == {"idle", "check", "place", "track", "prefill", "wait", "mark",
              "stream", "drain", "retry", "end"}
Call ==
    [pc : CallSteps, then : CallSteps, sends : 0..MaxSends,
     at : Nat,               \* the backend being tried
     key : HealthKeys,       \* where the request went,
     h : Nat, l : Nat,       \* and the records it holds: health, in flight,
     f : Nat,                \* and prefill, 0 once that count is released
     tokens : BOOLEAN,
     stores : Seq({"up", "clear", "reset", "count", "down", "window"})]
NewCall ==
    [pc |-> "idle", then |-> "idle", sends |-> 0, at |-> 1, key |-> "pool",
     h |-> 0, l |-> 0, f |-> 0, tokens |-> FALSE, stores |-> <<>>]

----------------------------------------------------------------------------
\* dispatchable: healthy, or quarantined with the window over.
Dispatchable(k) ==
    /\ health[k] # 0
    /\ LET r == records[k][health[k]] IN r.healthy \/ r.until = "past"

IsHealthy(b) ==
    IF b = "pool" /\ endpoints # {} THEN \E p \in endpoints : Dispatchable(p)
    ELSE Dispatchable(b)

\* healthFor and loadFor: the record of the map, or a new one stored there.
HealthIndex(k) == IF health[k] = 0 THEN Len(records[k]) + 1 ELSE health[k]
HealthFor(ks) ==
    /\ health' = [k \in HealthKeys |-> IF k \in ks THEN HealthIndex(k) ELSE health[k]]
    /\ records' = [k \in HealthKeys |->
                     IF k \in ks /\ health[k] = 0 THEN Append(records[k], Healthy) ELSE records[k]]

LoadIndex(p) == IF loads[p] = 0 THEN Len(inflight[p]) + 1 ELSE loads[p]
LoadFor(p, requests, tokens) ==
    /\ loads' = [loads EXCEPT ![p] = LoadIndex(p)]
    /\ inflight' = IF loads[p] = 0
                   THEN [inflight EXCEPT ![p] = Append(@, requests)]
                   ELSE [inflight EXCEPT ![p][loads[p]] = @ + requests]
    /\ prefill' = IF loads[p] = 0
                  THEN [prefill EXCEPT ![p] = Append(@, tokens)]
                  ELSE [prefill EXCEPT ![p][loads[p]] = @ + tokens]

\* A release function takes its count back from the record it was added to.
TakeBack(count, p, i) == [count EXCEPT ![p][i] = @ - 1]

\* Mutant: release looks the load record up again.
InFlightRecordNow(c) == LoadIndex(call[c].key)
InFlightRecord(c) == call[c].l

----------------------------------------------------------------------------
\* A request arrives and tries the first backend of its rule.
CallArrives(c) ==
    /\ call[c].pc = "idle" /\ call[c].sends < MaxSends
    /\ call' = [call EXCEPT ![c] = [NewCall EXCEPT !.pc = "check", !.sends = call[c].sends + 1]]
    /\ UNCHANGED <<healthVars, loadVars, watchVars, expired>>

\* The next backend of the rule, or the last error.
NextBackend(c) ==
    IF call[c].at = Len(rule) THEN [NewCall EXCEPT !.sends = call[c].sends]
    ELSE [NewCall EXCEPT !.sends = call[c].sends, !.pc = "check", !.at = call[c].at + 1]

CheckHealthy(c) ==
    /\ call[c].pc = "check"
    /\ call' = [call EXCEPT ![c] = IF IsHealthy(rule[@.at]) THEN [@ EXCEPT !.pc = "place"]
                                   ELSE NextBackend(c)]
    /\ UNCHANGED <<healthVars, loadVars, watchVars, expired>>

\* place, with the loads, the sessions and the cursor left open: one of the
\* dispatchable endpoints, any endpoint if there is none, the Address if the
\* set is empty.  Only a load-aware choice estimates prefill tokens.
PlaceAt(c, k, tokens) ==
    call' = [call EXCEPT ![c] = [@ EXCEPT !.pc = IF k \in Pods THEN "track" ELSE "wait",
                                          !.key = k, !.tokens = tokens]]

Place(c) ==
    /\ call[c].pc = "place"
    /\ \E up \in {{p \in endpoints : Dispatchable(p)}}, b \in {rule[call[c].at]} :
          \/ (b = "spare" \/ endpoints = {}) /\ PlaceAt(c, b, FALSE)
          \/ b = "pool" /\ \E p \in up : PlaceAt(c, p, loadAware)
          \/ b = "pool" /\ up = {} /\ \E p \in endpoints : PlaceAt(c, p, FALSE)
    /\ UNCHANGED <<healthVars, loadVars, watchVars, expired>>

Track(c) ==
    /\ call[c].pc = "track"
    /\ LoadFor(call[c].key, 1, 0)
    /\ call' = [call EXCEPT ![c] = [@ EXCEPT !.l = LoadIndex(call[c].key),
                                             !.pc = IF call[c].tokens THEN "prefill" ELSE "wait"]]
    /\ UNCHANGED <<healthVars, watchVars, expired>>

TrackPrefill(c) ==
    /\ call[c].pc = "prefill"
    /\ LoadFor(call[c].key, 0, 1)
    /\ call' = [call EXCEPT ![c] = [@ EXCEPT !.f = LoadIndex(call[c].key), !.pc = "wait",
                                             !.tokens = FALSE]]
    /\ UNCHANGED <<healthVars, watchVars, expired>>

----------------------------------------------------------------------------
\* The request looks its health record up, will make the stores, and go on.
Marks(c, stores, next) ==
    /\ HealthFor({call[c].key})
    /\ call' = [call EXCEPT ![c] = [@ EXCEPT !.pc = "mark", !.then = next, !.stores = stores,
                                             !.h = HealthIndex(call[c].key)]]
    /\ UNCHANGED <<loadVars, watchVars, expired>>

MarkHealthy == <<"up", "clear", "reset">>
Quarantine == <<"down", "window">>

\* Below 500.  The body is streamed, unless the header deadline passed just now.
Answered(c) ==
    /\ call[c].pc = "wait"
    /\ \E next \in {"stream", "retry"} : Marks(c, MarkHealthy, next)

\* A 5xx, whose body is drained, or a connection error: markUnhealthy.
UpstreamFails(c) ==
    /\ call[c].pc = "wait"
    /\ \E next \in {"drain", "retry"} :
          Marks(c, IF call[c].key \in Pods THEN <<"count">> ELSE Quarantine, next)

\* The header deadline, the client leaving or a request that cannot be built:
\* no judgement on the backend.
CallCancelled(c) ==
    /\ call[c].pc = "wait"
    /\ call' = [call EXCEPT ![c] = [@ EXCEPT !.pc = "retry"]]
    /\ UNCHANGED <<healthVars, loadVars, watchVars, expired>>

\* One atomic store; only two failures of a pod in a row quarantine it.
Written(r, s) ==
    CASE s = "up"     -> [r EXCEPT !.healthy = TRUE]
      [] s = "clear"  -> [r EXCEPT !.until = "zero"]
      [] s = "reset"  -> [r EXCEPT !.failures = 0]
      [] s = "count"  -> [r EXCEPT !.failures = IF @ < 2 THEN @ + 1 ELSE 2]
      [] s = "down"   -> [r EXCEPT !.healthy = FALSE]
      [] s = "window" -> [r EXCEPT !.until = "ahead"]

Store(c) ==
    /\ call[c].pc = "mark"
    /\ \E k \in {call[c].key}, i \in {call[c].h}, s \in {Head(call[c].stores)} :
       \E rest \in {IF s = "count" /\ records[k][i].failures > 0 THEN Quarantine
                     ELSE Tail(call[c].stores)} :
         /\ records' = [records EXCEPT ![k][i] = Written(@, s)]
         /\ call' = [call EXCEPT ![c] = [@ EXCEPT
                !.stores = rest,
                !.pc = IF rest = <<>> THEN call[c].then ELSE "mark",
                !.then = IF rest = <<>> THEN "idle" ELSE call[c].then,
                !.h = IF rest = <<>> THEN 0 ELSE i]]
    /\ UNCHANGED <<health, loadVars, watchVars, expired>>

\* firstByteBody: the first byte ends the prefill.
FirstByte(c) ==
    /\ call[c].pc \in {"stream", "drain"} /\ call[c].f # 0
    /\ prefill' = TakeBack(prefill, call[c].key, call[c].f)
    /\ call' = [call EXCEPT ![c] = [@ EXCEPT !.f = 0]]
    /\ UNCHANGED <<healthVars, loads, inflight, watchVars, expired>>

\* The body is read to its end, or the client leaves.
BodyEnds(c) ==
    /\ call[c].pc \in {"stream", "drain"}
    /\ call' = [call EXCEPT ![c].pc = IF @ = "stream" THEN "end" ELSE "retry"]
    /\ UNCHANGED <<healthVars, loadVars, watchVars, expired>>

\* The idle guard quarantines at once and aborts the body.
BodyIdle(c) ==
    /\ call[c].pc \in {"stream", "drain"}
    /\ Marks(c, Quarantine, IF call[c].pc = "stream" THEN "end" ELSE "retry")

\* release and releasePrefill; a failed attempt goes on to the next backend.
ReleaseCounts(c) ==
    /\ call[c].pc \in {"retry", "end"}
    /\ inflight' = IF call[c].l = 0 THEN inflight
                   ELSE TakeBack(inflight, call[c].key, InFlightRecord(c))
    /\ prefill' = IF call[c].f = 0 THEN prefill
                  ELSE TakeBack(prefill, call[c].key, call[c].f)
    /\ call' = [call EXCEPT ![c] = IF @.pc = "retry" THEN NextBackend(c)
                                   ELSE [NewCall EXCEPT !.sends = call[c].sends]]
    /\ UNCHANGED <<healthVars, loads, watchVars, expired>>

----------------------------------------------------------------------------
\* SetEndpoints: records for the new set, those of departed pods dropped from
\* the maps, the set stored.  The watcher's mutex keeps two of them apart.
\* Mutant: health records are left to the first response.
SetEndpointsLazily(next) ==
    /\ watch.pc = "idle" /\ changes > 0 /\ next # endpoints
    /\ watch' = [pc |-> "drop", next |-> next]
    /\ changes' = changes - 1
    /\ UNCHANGED <<endpoints, rule, loadAware, healthVars, loadVars, call, expired>>

SetEndpoints(next) ==
    /\ watch.pc = "idle" /\ changes > 0 /\ next # endpoints
    /\ HealthFor(next)
    /\ watch' = [pc |-> "drop", next |-> next]
    /\ changes' = changes - 1
    /\ UNCHANGED <<endpoints, rule, loadAware, loadVars, call, expired>>

DropDeparted ==
    /\ watch.pc = "drop"
    /\ \E gone \in {endpoints \ watch.next} :
         /\ health' = [k \in HealthKeys |-> IF k \in gone THEN 0 ELSE health[k]]
         /\ loads' = [p \in Pods |-> IF p \in gone THEN 0 ELSE loads[p]]
    /\ watch' = [watch EXCEPT !.pc = "store"]
    /\ UNCHANGED <<endpoints, changes, rule, loadAware, records, inflight, prefill, call, expired>>

StoreEndpoints ==
    /\ watch.pc = "store"
    /\ endpoints' = watch.next
    /\ watch' = [pc |-> "idle", next |-> {}]
    /\ UNCHANGED <<healthVars, loadVars, changes, rule, loadAware, call, expired>>

\* ExpirePrefill collects release functions under the lock and then runs them;
\* by then the request may have released the count, and be a later attempt.
Attempt(c) == <<c, call[c].sends, call[c].at>>

JanitorCollects ==
    /\ expired = {}
    /\ \E old \in SUBSET {c \in Callers : call[c].f # 0} \ {{}} :
          expired' = {Attempt(c) : c \in old}
    /\ UNCHANGED <<healthVars, loadVars, watchVars, call>>

JanitorReleases(e) ==
    /\ expired' = expired \ {e}
    /\ IF e = Attempt(e[1]) /\ call[e[1]].f # 0
       THEN /\ prefill' = TakeBack(prefill, call[e[1]].key, call[e[1]].f)
            /\ call' = [call EXCEPT ![e[1]] = [@ EXCEPT !.f = 0]]
       ELSE UNCHANGED <<prefill, call>>
    /\ UNCHANGED <<healthVars, loads, inflight, watchVars>>

\* A quarantine window ends; only records in the map are asked for theirs.
WindowEnds(k) ==
    /\ health[k] # 0 /\ records[k][health[k]].until = "ahead"
    /\ records' = [records EXCEPT ![k][health[k]].until = "past"]
    /\ UNCHANGED <<health, loadVars, watchVars, call, expired>>

----------------------------------------------------------------------------
\* NewDispatcher: the pods are listed in the configuration, or still unknown.
DispatchInit(start) ==
    /\ rule = start.rule /\ endpoints = start.set /\ changes = start.changes
    /\ loadAware = start.loadAware
    /\ expired = {}
    /\ health = [k \in HealthKeys |-> IF k \in Pods \ endpoints THEN 0 ELSE 1]
    /\ records = [k \in HealthKeys |-> IF health[k] = 0 THEN <<>> ELSE <<Healthy>>]
    /\ loads = [p \in Pods |-> 0]
    /\ inflight = [p \in Pods |-> <<>>] /\ prefill = inflight
    /\ call = [c \in Callers |-> NewCall]
    /\ watch = [pc |-> "idle", next |-> {}]

DispatchNext ==
    \/ \E c \in Callers :
          \/ CallArrives(c) \/ CheckHealthy(c) \/ Place(c) \/ Track(c) \/ TrackPrefill(c)
          \/ Answered(c) \/ UpstreamFails(c) \/ CallCancelled(c) \/ Store(c)
          \/ FirstByte(c) \/ BodyEnds(c) \/ BodyIdle(c) \/ ReleaseCounts(c)
    \/ \E next \in SUBSET Pods : SetEndpoints(next)
    \/ DropDeparted \/ StoreEndpoints
    \/ JanitorCollects \/ \E e \in expired : JanitorReleases(e)
    \/ \E k \in HealthKeys : WindowEnds(k)

----------------------------------------------------------------------------
\* The types; in particular no count of a load record is ever negative.
DispatcherTypeOK ==
    /\ endpoints \subseteq Pods /\ changes \in Nat /\ loadAware \in BOOLEAN
    /\ \A k \in HealthKeys :
          /\ \A i \in 1..Len(records[k]) : records[k][i] \in HealthRecord
          /\ health[k] \in 0..Len(records[k])
    /\ \A p \in Pods :
          /\ inflight[p] \in Seq(Nat) /\ prefill[p] \in Seq(Nat)
          /\ loads[p] \in 0..Len(inflight[p])
    /\ call \in [Callers -> Call]

\* The load the picker reads.  track and release: the in-flight count of a pod
\* is the number of requests with it, though it leaves and comes back under its
\* address while they run.  trackPrefill and its release: the prefill count is
\* that of the requests whose answer has not begun, though the first byte, the
\* closed body and the janitor, which decides before it acts, all release it.
LoadExact ==
    \A p \in Pods :
        /\ \A i \in 1..Len(inflight[p]) :
              inflight[p][i] = Cardinality({c \in Callers : call[c].key = p /\ call[c].l = i})
        /\ \A i \in 1..Len(prefill[p]) :
              prefill[p][i] = Cardinality({c \in Callers : call[c].key = p /\ call[c].f = i})

\* SetEndpoints: every pod of the set has its health record, so that a pod that
\* joins, or comes back, is dispatchable, whatever late marks of requests to
\* its predecessor do to the map meanwhile.
LivePodHasHealth ==
    watch.pc = "idle" => \A p \in endpoints : health[p] # 0
=============================================================================
