----------------------------- MODULE MetalAgent -----------------------------
(***************************************************************************)
(* The metal agent of a Mac (pkg/agent): it runs one engine process for    *)
(* each InferenceService it claims.  Five goroutines share its tables      *)
(* under one mutex: the watcher, which polls the API; the event loop,      *)
(* which alone starts engines; the health monitor, which stops the engine  *)
(* that fails its probes and leaves its restart to the loop; the           *)
(* heartbeat, which tears down what it finds deleted; and the memory       *)
(* watchdog, which evicts under pressure and has evicted services          *)
(* restarted.  An action is one critical section, one call to the API or   *)
(* one operation on a process.                                             *)
(*                                                                         *)
(* Left out: endpoints, status conditions and events, which no decision    *)
(* below reads; the sizes of models and of free memory (a start may be     *)
(* refused, a sample may have any level and any room); the time an object  *)
(* spends with a deletion timestamp (it is there or gone); the engine      *)
(* records and what an agent that restarts makes of them.                  *)
(***************************************************************************)
EXTENDS Naturals, FiniteSets

CONSTANTS
    Services,          \* keys of the InferenceServices
    Wants,             \* what a user may ask of one
    Specs,             \* computeSpecHash of its spec
    OtherEngines,      \* engines of further services, for the safety floor
    Threshold,         \* healthFailureThreshold
    Recreates,         \* a service that was deleted or given away may come back
    MaxEdits,          \* bound: writes of the API objects
    MaxStarts,         \* bound: engines spawned for one service
    MaxTroubles        \* bound: failing calls, stops, starts and crashes

VARIABLES
    isvc,              \* the InferenceServices in the API
    edits, troubles,   \* counters of the bounds
    watcher, seen,     \* a poll's list and what of it is still to be sent; versions sent
    loop,              \* the event loop
    monitor, heartbeat, watchdog,   \* the other goroutines
    processes,         \* a.processes
    starting,          \* a.starting
    restarts,          \* a.restarts
    restartWake,       \* a.restartWake holds a wake-up
    evicted,           \* a.pressureBlocked and a.pressureRestarting
    level,             \* a.lastPressureLevel
    alive, spawned,    \* engines that run, and how many were ever spawned
    lost, gaveUp,      \* history: engines whose stop failed; starts that failed for good
    polled             \* history: services that were in seen

apiVars == <<isvc, edits, watcher, seen, polled>>
engineVars == <<alive, spawned, lost>>
tableVars == <<processes, starting, restarts, restartWake, evicted>>
metalVars == <<apiVars, engineVars, tableVars, level, gaveUp, troubles,
               loop, monitor, heartbeat, watchdog>>

Isvc == [want : Wants, spec : Specs, rv : 1..(MaxEdits + 1)]
NoObject == [want |-> "gone", spec |-> 0, rv |-> 0]
Ids == 0..MaxStarts                                      \* 0 is no engine

NoProcess == [id |-> 0, spec |-> 0, healthy |-> TRUE, failures |-> 0]
Tracked(s) == processes[s].id # 0

\* restartBackoff: later says that nextAt is to come, timer that a wake-up is
\* armed, grown that delay is not 0, unclean that releaseAt is to come.
NoRestart == [held |-> FALSE, pending |-> FALSE, later |-> FALSE, timer |-> FALSE,
              grown |-> FALSE, unclean |-> FALSE, spec |-> 0]
NewRestart == [NoRestart EXCEPT !.held = TRUE]
\* Mutant: a state that is missing is used without being made.
StateOfMissing(s) == restarts[s]
\* restartStateLocked.
StateOf(s) == IF restarts[s].held THEN restarts[s] ELSE NewRestart

\* s is the service a goroutine works on and id the engine it stops or starts.
\* The loop: obj is the object it was given, had the process it found, guard
\* whether it holds starting[s], next what follows a deleteProcess; due are the
\* restarts to run, attempt says that this is one of them.
LoopResting == [pc |-> "idle", s |-> "none", id |-> 0, obj |-> NoObject, had |-> NoProcess,
                guard |-> FALSE, next |-> "none", due |-> {}, attempt |-> FALSE]
MonitorResting == [pc |-> "idle", s |-> "none", id |-> 0, kept |-> FALSE]
HeartbeatResting == [pc |-> "idle", s |-> "none", id |-> 0]
WatchdogResting == [pc |-> "idle", s |-> "none", id |-> 0, picked |-> {}]

\* isvcStopped.
IsvcStopped(o) == o.want \in {"zero", "suspended"}
\* The watcher reports such an object as deleted; a Get still finds an
\* unclaimed one.
NotOurs(o) == o.want \in {"gone", "unclaimed"}

Trouble == troubles < MaxTroubles /\ troubles' = troubles + 1

----------------------------------------------------------------------------
\* Writes of the tables, each under a.mu.
SetRestart(s, st) == restarts' = [restarts EXCEPT ![s] = st]

\* cancelRestartLocked.  The health monitor holds a pointer to the state while
\* it stops an engine; kept is whether that state is still in the table.
Cancel(s) ==
    /\ SetRestart(s, NoRestart)
    /\ monitor' = IF monitor.s = s THEN [monitor EXCEPT !.kept = FALSE] ELSE monitor

\* scheduleRestartLocked and queueRestartLocked.
Scheduled(st, notBefore) ==
    [st EXCEPT !.pending = TRUE, !.later = st.grown \/ notBefore,
               !.timer = st.grown \/ notBefore, !.grown = TRUE]
Queued(st, notBefore) ==
    LET wait == (st.pending /\ st.later) \/ st.unclean \/ notBefore
    IN [st EXCEPT !.pending = TRUE, !.later = wait, !.timer = wait, !.grown = TRUE]
\* armRestartLocked wakes the loop at once when there is nothing to wait for.
Arm(s, st) ==
    /\ SetRestart(s, st)
    /\ restartWake' = (restartWake \/ ~st.later)

SetEvicted(s, e) == evicted' = [evicted EXCEPT ![s] = e]
SetProcess(s, p) == processes' = [processes EXCEPT ![s] = p]

\* stopManagedProcess: the engine ends in time, is killed after the grace
\* period, or the stop fails and it may run on.
Stop(s, id, result) ==
    /\ alive' = [alive EXCEPT ![s] = IF result = "failed" THEN @ ELSE @ \ {id}]
    /\ lost' = [lost EXCEPT ![s] = IF result = "failed" THEN @ \cup (alive[s] \cap {id}) ELSE @]
    /\ \/ result = "clean" /\ UNCHANGED troubles
       \/ result \in {"killed", "failed"} /\ Trouble
    /\ UNCHANGED spawned
StopResults == {"clean", "killed", "failed"}

----------------------------------------------------------------------------
\* The user writes or deletes an object, moves it to another agent (its Model,
\* the agent's list of names), or anybody writes its status.
Edit(s) ==
    /\ edits < MaxEdits
    /\ ~NotOurs(isvc[s]) \/ Recreates
    /\ \E want \in Wants, spec \in Specs :
          /\ want \in {"gone", "unclaimed"} => spec = isvc[s].spec
          /\ isvc' = [isvc EXCEPT ![s] = [want |-> want, spec |-> spec, rv |-> @.rv + 1]]
    /\ edits' = edits + 1
    /\ UNCHANGED <<watcher, seen, polled, engineVars, tableVars, level, gaveUp, troubles,
                   loop, monitor, heartbeat, watchdog>>

\* listExisting, then poll: a list of all services and the events it leads to.
\* A service whose Model cannot be looked up is left out of this round.
ToSend(s) == IF NotOurs(isvc[s]) THEN seen[s] # 0 ELSE seen[s] # isvc[s].rv
Poll ==
    /\ watcher.todo = {}
    /\ \E unknown \in SUBSET Services :
         /\ \/ unknown = {} /\ UNCHANGED troubles
            \/ Cardinality(unknown) = 1 /\ Trouble
         /\ LET todo == {s \in Services \ unknown : ToSend(s)}
            IN watcher' = [todo |-> {[s |-> s, obj |-> isvc[s]] : s \in todo},
                           first |-> watcher.first /\ todo # {}]
    /\ UNCHANGED <<isvc, edits, seen, polled, engineVars, tableVars, level, gaveUp,
                   loop, monitor, heartbeat, watchdog>>

\* The loop receives the next event from the watcher, which was blocked on it.
\* The first list is not remembered.
LoopTakesEvent(e) ==
    /\ loop.pc = "idle" /\ e \in watcher.todo
    /\ watcher' = [todo |-> watcher.todo \ {e}, first |-> watcher.first /\ watcher.todo # {e}]
    /\ seen' = IF watcher.first THEN seen
               ELSE [seen EXCEPT ![e.s] = IF NotOurs(e.obj) THEN 0 ELSE e.obj.rv]
    /\ loop' = [LoopResting EXCEPT !.s = e.s, !.obj = e.obj,
                                   !.pc = IF NotOurs(e.obj) THEN "forget" ELSE "ensure"]
    /\ polled' = IF watcher.first THEN polled ELSE polled \cup {e.s}
    /\ gaveUp' = gaveUp \ {e.s}
    /\ UNCHANGED <<isvc, edits, engineVars, tableVars, level, troubles,
                   monitor, heartbeat, watchdog>>

\* handleEvent of a deletion: forgetEvicted, then deleteProcess.
LoopForgets ==
    /\ loop.pc = "forget"
    /\ SetEvicted(loop.s, "no")
    /\ loop' = [loop EXCEPT !.pc = "delete", !.next = "return"]
    /\ UNCHANGED <<apiVars, engineVars, processes, starting, restarts, restartWake, level,
                   gaveUp, troubles, monitor, heartbeat, watchdog>>

\* reconcileProcess, to the decisions it takes from one look at the tables: a
\* key that is held is left alone, and an evicted service is not started
\* again unless pressure is Normal and its restart was queued.
LoopEnsures ==
    /\ loop.pc = "ensure"
    /\ \E s \in {loop.s} :
         \/ /\ s \in starting
            /\ loop' = [loop EXCEPT !.pc = "return"]
            /\ UNCHANGED <<tableVars, monitor>>
         \/ /\ s \notin starting
            /\ starting' = starting \cup {s}
            /\ \E held \in {evicted[s] = "restarting" /\ level # "Normal"} :
                 /\ SetEvicted(s, IF held THEN "blocked" ELSE evicted[s])
                 /\ IF held THEN Cancel(s) ELSE UNCHANGED <<restarts, monitor>>
            /\ loop' = [loop EXCEPT !.guard = TRUE, !.had = processes[s],
                   !.pc = IF IsvcStopped(loop.obj)
                          THEN IF evicted'[s] = "blocked" THEN "release" ELSE "zero"
                          ELSE IF evicted'[s] = "blocked" THEN "return" ELSE "defer"]
            /\ UNCHANGED <<processes, restartWake>>
    /\ UNCHANGED <<apiVars, engineVars, level, gaveUp, troubles, heartbeat, watchdog>>

\* releaseStoppedEvicted: the block of a stopped service is forgotten.
LoopReleases ==
    /\ loop.pc = "release"
    /\ SetEvicted(loop.s, "no")
    /\ loop' = [loop EXCEPT !.pc = "zero"]
    /\ UNCHANGED <<apiVars, engineVars, processes, starting, restarts, restartWake, level,
                   gaveUp, troubles, monitor, heartbeat, watchdog>>

\* handleScaleToZero: dropRestart, then deleteProcess if there was a process.
LoopScalesToZero ==
    /\ loop.pc = "zero"
    /\ Cancel(loop.s)
    /\ loop' = [loop EXCEPT !.pc = IF loop.had.id # 0 THEN "delete" ELSE "return",
                            !.next = "return"]
    /\ UNCHANGED <<apiVars, engineVars, processes, starting, restartWake, evicted, level,
                   gaveUp, troubles, heartbeat, watchdog>>

\* deferToPendingRestart, and the comparison of the specs.
PendingOwns(s) == restarts[s].pending /\ ~Tracked(s)
LoopDefers ==
    /\ loop.pc = "defer"
    /\ \E s \in {loop.s} :
         \/ /\ PendingOwns(s) /\ restarts[s].spec \in {0, loop.obj.spec}
            /\ loop' = [loop EXCEPT !.pc = "return"] /\ UNCHANGED <<restarts, monitor>>
         \/ /\ PendingOwns(s) /\ restarts[s].spec \notin {0, loop.obj.spec}
            /\ loop' = [loop EXCEPT !.pc = IF restarts[s].unclean THEN "requeueLater" ELSE "requeue"]
            /\ Cancel(s)
         \/ /\ ~PendingOwns(s)
            /\ loop' = [loop EXCEPT !.pc = IF loop.had.id # 0 /\ loop.had.spec = loop.obj.spec
                                           THEN "return" ELSE "fetch"]
            /\ UNCHANGED <<restarts, monitor>>
    /\ UNCHANGED <<apiVars, engineVars, processes, starting, restartWake, evicted, level,
                   gaveUp, troubles, heartbeat, watchdog>>
LoopRequeues ==
    /\ loop.pc \in {"requeue", "requeueLater"}
    /\ Arm(loop.s, Queued(StateOf(loop.s), loop.pc = "requeueLater"))
    /\ loop' = [loop EXCEPT !.pc = "return"]
    /\ UNCHANGED <<apiVars, engineVars, processes, starting, evicted, level,
                   gaveUp, troubles, monitor, heartbeat, watchdog>>

\* fetchModelThenStopStale: a Model that cannot be read leaves the old process
\* as it is; one that does not exist stops it, and so does the new spec.
LoopFetchesModel ==
    /\ loop.pc = "fetch"
    /\ \E next \in {"start", "fail"} :
         /\ loop' = [loop EXCEPT !.pc = IF loop.had.id # 0 THEN "delete" ELSE next, !.next = next]
         /\ IF next = "fail" THEN Trouble ELSE UNCHANGED troubles
       \/ /\ Trouble
          /\ loop' = [loop EXCEPT !.pc = "fail"]
    /\ UNCHANGED <<apiVars, engineVars, tableVars, level, gaveUp, monitor, heartbeat, watchdog>>

\* deleteProcess: the restart is cancelled and the process looked up under one
\* lock.  A stop that was not clean is an error, for which nothing is started.
DeleteProcess(s) ==
    /\ Cancel(s)
    /\ SetProcess(s, NoProcess)
    /\ UNCHANGED <<starting, restartWake>>
LoopDeletes ==
    /\ loop.pc = "delete"
    /\ DeleteProcess(loop.s)
    /\ loop' = [loop EXCEPT !.pc = IF Tracked(loop.s) THEN "stop" ELSE loop.next,
                            !.id = processes[loop.s].id]
    /\ UNCHANGED <<apiVars, engineVars, evicted, level, gaveUp, troubles, heartbeat, watchdog>>
LoopStops ==
    /\ loop.pc = "stop"
    /\ \E result \in StopResults :
         /\ Stop(loop.s, loop.id, result)
         /\ loop' = [loop EXCEPT !.id = 0,
                !.pc = IF loop.next = "start" /\ result # "clean" THEN "fail" ELSE loop.next]
    /\ UNCHANGED <<apiVars, tableVars, level, gaveUp, monitor, heartbeat, watchdog>>

\* The checks before a start may refuse it, and do at the bound.  StartProcess
\* spawns the engine and returns when it is ready; a start that fails stops what
\* it spawned.
LoopSpawns ==
    /\ loop.pc = "start"
    /\ \/ /\ Trouble \/ (spawned[loop.s] = MaxStarts /\ UNCHANGED troubles)
          /\ loop' = [loop EXCEPT !.pc = "fail"]
          /\ UNCHANGED <<alive, spawned>>
       \/ /\ spawned[loop.s] < MaxStarts
          /\ spawned' = [spawned EXCEPT ![loop.s] = @ + 1]
          /\ alive' = [alive EXCEPT ![loop.s] = @ \cup {spawned'[loop.s]}]
          /\ loop' = [loop EXCEPT !.pc = "loading", !.id = spawned'[loop.s]]
          /\ UNCHANGED troubles
    /\ UNCHANGED <<apiVars, lost, tableVars, level, gaveUp, monitor, heartbeat, watchdog>>
LoopStartFails ==
    /\ loop.pc = "loading"
    /\ Trouble
    /\ alive' = [alive EXCEPT ![loop.s] = @ \ {loop.id}]
    /\ loop' = [loop EXCEPT !.pc = "fail", !.id = 0]
    /\ UNCHANGED <<apiVars, spawned, lost, tableVars, level, gaveUp, monitor, heartbeat, watchdog>>
LoopStores ==
    /\ loop.pc = "loading"
    /\ SetProcess(loop.s, [NoProcess EXCEPT !.id = loop.id, !.spec = loop.obj.spec])
    /\ loop' = [loop EXCEPT !.pc = "stored", !.id = 0]
    /\ UNCHANGED <<apiVars, engineVars, starting, restarts, restartWake, evicted, level, gaveUp,
                   troubles, monitor, heartbeat, watchdog>>
\* A record that cannot be written, or a name somebody else took, ends the
\* engine again; otherwise noteEvictedRestarted.
LoopRegisters ==
    /\ loop.pc = "stored"
    /\ \/ /\ Trouble
          /\ loop' = [loop EXCEPT !.pc = "delete", !.next = "fail"]
          /\ UNCHANGED <<evicted, restarts, monitor>>
       \/ /\ loop' = [loop EXCEPT !.pc = "return"]
          /\ \E s \in {loop.s} :
               \/ evicted[s] = "restarting" /\ SetEvicted(s, "no") /\ Cancel(s)
               \/ evicted[s] # "restarting" /\ UNCHANGED <<evicted, restarts, monitor>>
          /\ UNCHANGED troubles
    /\ UNCHANGED <<apiVars, engineVars, processes, starting, restartWake, level, gaveUp,
                   heartbeat, watchdog>>

\* The deferred release of the guard, and back to the loop or to runRestart.
LoopReturns ==
    /\ loop.pc \in {"return", "fail"}
    /\ starting' = IF loop.guard THEN starting \ {loop.s} ELSE starting
    /\ gaveUp' = IF loop.pc = "fail" THEN gaveUp \cup {loop.s} ELSE gaveUp
    /\ loop' = IF loop.attempt THEN [loop EXCEPT !.pc = "attempted", !.guard = FALSE]
               ELSE LoopResting
    /\ UNCHANGED <<apiVars, engineVars, processes, restarts, restartWake, evicted, level, troubles,
                   monitor, heartbeat, watchdog>>

----------------------------------------------------------------------------
\* runDueRestarts: the loop receives the wake-up and collects what is due.
LoopTakesWake ==
    /\ loop.pc = "idle" /\ restartWake
    /\ restartWake' = FALSE
    /\ loop' = [LoopResting EXCEPT !.pc = "due",
                   !.due = {s \in Services : restarts[s].pending /\ ~restarts[s].later}]
    /\ UNCHANGED <<apiVars, engineVars, processes, starting, restarts, evicted, level, gaveUp,
                   troubles, monitor, heartbeat, watchdog>>
LoopRanRestarts ==
    /\ loop.pc = "due" /\ loop.due = {}
    /\ loop' = LoopResting
    /\ UNCHANGED <<apiVars, engineVars, tableVars, level, gaveUp, troubles,
                   monitor, heartbeat, watchdog>>

\* runRestart, the first lock: cancelled or put off since; held by another; an
\* engine runs; or this attempt is the start the pending restart owns.
Later(rest) == [LoopResting EXCEPT !.pc = "due", !.due = rest]
LoopRunsRestart(s) ==
    /\ loop.pc = "due" /\ s \in loop.due
    /\ \E st \in {restarts[s]}, rest \in {loop.due \ {s}} :
         \/ /\ ~st.pending \/ st.later
            /\ loop' = Later(rest) /\ UNCHANGED restarts
         \/ /\ st.pending /\ ~st.later /\ s \in starting
            /\ SetRestart(s, [st EXCEPT !.timer = TRUE])
            /\ loop' = Later(rest)
         \/ /\ st.pending /\ ~st.later /\ s \notin starting
            /\ SetRestart(s, [st EXCEPT !.pending = FALSE])
            /\ loop' = IF Tracked(s) THEN Later(rest)
                       ELSE [Later(rest) EXCEPT !.pc = "get", !.s = s, !.attempt = TRUE]
    /\ UNCHANGED <<apiVars, engineVars, processes, starting, restartWake, evicted, level, gaveUp,
                   troubles, monitor, heartbeat, watchdog>>

\* It reads the service, and drops the restart of one that is gone or stopped.
LoopGetsService ==
    /\ loop.pc = "get"
    /\ \/ /\ isvc[loop.s].want = "gone" \/ IsvcStopped(isvc[loop.s])
          /\ loop' = [loop EXCEPT !.pc = "drop"]
          /\ UNCHANGED troubles
       \/ /\ isvc[loop.s].want # "gone" /\ ~IsvcStopped(isvc[loop.s])
          /\ loop' = [loop EXCEPT !.pc = "ensure", !.obj = isvc[loop.s]]
          /\ UNCHANGED troubles
       \/ Trouble /\ loop' = [loop EXCEPT !.pc = "attempted"]
    /\ UNCHANGED <<apiVars, engineVars, tableVars, level, gaveUp, monitor, heartbeat, watchdog>>
LoopDropsRestart ==
    /\ loop.pc = "drop"
    /\ Cancel(loop.s)
    /\ loop' = Later(loop.due)
    /\ UNCHANGED <<apiVars, engineVars, processes, starting, restartWake, evicted, level, gaveUp,
                   troubles, heartbeat, watchdog>>

\* runRestart, the last lock: an attempt that left no engine is tried again.
LoopAttempted ==
    /\ loop.pc = "attempted"
    /\ \E s \in {loop.s} :
         \/ /\ ~restarts[s].held \/ Tracked(s)
            /\ UNCHANGED <<restarts, restartWake, gaveUp>>
         \/ /\ restarts[s].held /\ ~Tracked(s)
            /\ Arm(s, Scheduled([restarts[s] EXCEPT
                                   !.spec = IF loop.obj = NoObject THEN @ ELSE loop.obj.spec], FALSE))
            /\ gaveUp' = gaveUp \ {s}
    /\ loop' = Later(loop.due)
    /\ UNCHANGED <<apiVars, engineVars, processes, starting, evicted, level,
                   troubles, monitor, heartbeat, watchdog>>

\* A timer armed by armRestartLocked fires.
TimerFires(s) ==
    /\ restarts[s].timer
    /\ SetRestart(s, [restarts[s] EXCEPT !.timer = FALSE, !.later = FALSE, !.unclean = FALSE])
    /\ restartWake' = TRUE
    /\ UNCHANGED <<apiVars, engineVars, processes, starting, evicted, level, gaveUp,
                   troubles, loop, monitor, heartbeat, watchdog>>

\* An engine dies by itself.
EngineDies(s) ==
    /\ Trouble
    /\ \E id \in alive[s] : alive' = [alive EXCEPT ![s] = @ \ {id}]
    /\ UNCHANGED <<apiVars, spawned, lost, tableVars, level, gaveUp,
                   loop, monitor, heartbeat, watchdog>>

----------------------------------------------------------------------------
\* HealthMonitor: checkAll takes a process from its snapshot and probes it.
MonitorProbes(s) ==
    /\ monitor.pc = "idle" /\ Tracked(s)
    /\ monitor' = [pc |-> "probing", s |-> s, id |-> processes[s].id, kept |-> FALSE]
    /\ UNCHANGED <<apiVars, engineVars, tableVars, level, gaveUp, troubles,
                   loop, heartbeat, watchdog>>

\* applyResult: the answer counts only for the process it was taken from.  A
\* dead engine does not answer and a live one may fail to.
SetHealth(s, healthy) ==
    SetProcess(s, [processes[s] EXCEPT !.healthy = healthy,
                      !.failures = IF healthy THEN 0 ELSE IF @ < Threshold THEN @ + 1 ELSE @])
MonitorApplies ==
    /\ monitor.pc = "probing"
    /\ \E s \in {monitor.s}, healthy \in BOOLEAN :
         /\ \/ healthy /\ monitor.id \in alive[s] /\ UNCHANGED troubles
            \/ ~healthy /\ monitor.id \notin alive[s] /\ UNCHANGED troubles
            \/ ~healthy /\ monitor.id \in alive[s] /\ Trouble
         /\ \/ /\ processes[s].id # monitor.id
               /\ monitor' = MonitorResting
               /\ UNCHANGED <<processes, restarts>>
            \/ /\ processes[s].id = monitor.id
               /\ SetHealth(s, healthy)
               /\ monitor' = IF ~healthy /\ processes'[s].failures >= Threshold
                             THEN [monitor EXCEPT !.pc = "restart"] ELSE MonitorResting
               /\ \/ UNCHANGED restarts
                  \/ healthy /\ restarts[s].held /\ ~restarts[s].pending /\ SetRestart(s, NoRestart)
    /\ UNCHANGED <<apiVars, engineVars, starting, restartWake, evicted, level, gaveUp,
                   loop, heartbeat, watchdog>>

\* Mutant: the key is not held while the engine stops.
MonitorRemovesUnguarded ==
    /\ monitor.pc = "restart"
    /\ \E s \in {monitor.s} :
         \/ /\ processes[s].id # monitor.id \/ processes[s].healthy \/ s \in starting
            /\ monitor' = MonitorResting
            /\ UNCHANGED <<processes, restarts>>
         \/ /\ processes[s].id = monitor.id /\ ~processes[s].healthy /\ s \notin starting
            /\ SetProcess(s, NoProcess)
            /\ SetRestart(s, [StateOf(s) EXCEPT !.spec = processes[s].spec])
            /\ monitor' = [monitor EXCEPT !.pc = "stop", !.kept = TRUE]
    /\ UNCHANGED <<apiVars, engineVars, starting, restartWake, evicted, level, gaveUp, troubles,
                   loop, heartbeat, watchdog>>

\* restartUnhealthy: remove the process, hold its key and its restart state.
MonitorRemoves ==
    /\ monitor.pc = "restart"
    /\ \E s \in {monitor.s} :
         \/ /\ processes[s].id # monitor.id \/ processes[s].healthy \/ s \in starting
            /\ monitor' = MonitorResting
            /\ UNCHANGED <<processes, starting, restarts>>
         \/ /\ processes[s].id = monitor.id /\ ~processes[s].healthy /\ s \notin starting
            /\ SetProcess(s, NoProcess)
            /\ starting' = starting \cup {s}
            /\ SetRestart(s, [StateOf(s) EXCEPT !.spec = processes[s].spec])
            /\ monitor' = [monitor EXCEPT !.pc = "stop", !.kept = TRUE]
    /\ UNCHANGED <<apiVars, engineVars, restartWake, evicted, level, gaveUp, troubles,
                   loop, heartbeat, watchdog>>
MonitorStops ==
    /\ monitor.pc = "stop"
    /\ \E result \in StopResults :
         /\ Stop(monitor.s, monitor.id, result)
         /\ monitor' = [monitor EXCEPT !.pc = IF result = "clean" THEN "schedule" ELSE "scheduleLater"]
    /\ UNCHANGED <<apiVars, tableVars, level, gaveUp, loop, heartbeat, watchdog>>

\* Mutant: the state is made anew without a look whether it was cancelled.
MonitorSchedulesAnyway ==
    /\ monitor.pc \in {"schedule", "scheduleLater"}
    /\ \E s \in {monitor.s}, floor \in {monitor.pc = "scheduleLater"} :
         /\ starting' = starting \ {s}
         /\ Arm(s, Scheduled([StateOf(s) EXCEPT !.unclean = @ \/ floor], floor))
    /\ monitor' = MonitorResting
    /\ UNCHANGED <<apiVars, engineVars, processes, evicted, level, gaveUp, troubles,
                   loop, heartbeat, watchdog>>

\* A teardown handled meanwhile has taken the state away; otherwise schedule.
MonitorSchedules ==
    /\ monitor.pc \in {"schedule", "scheduleLater"}
    /\ \E s \in {monitor.s}, floor \in {monitor.pc = "scheduleLater"} :
         /\ starting' = starting \ {s}
         /\ \/ ~monitor.kept /\ UNCHANGED <<restarts, restartWake>>
            \/ monitor.kept /\ Arm(s, Scheduled([restarts[s] EXCEPT !.unclean = @ \/ floor], floor))
    /\ monitor' = MonitorResting
    /\ UNCHANGED <<apiVars, engineVars, processes, evicted, level, gaveUp, troubles,
                   loop, heartbeat, watchdog>>

----------------------------------------------------------------------------
\* heartbeatOnce: an entry of the snapshot, whose service it then reads.
HeartbeatTakes(s) ==
    /\ heartbeat.pc = "idle" /\ Tracked(s)
    /\ heartbeat' = [HeartbeatResting EXCEPT !.pc = "get", !.s = s]
    /\ UNCHANGED <<apiVars, engineVars, tableVars, level, gaveUp, troubles,
                   loop, monitor, watchdog>>
HeartbeatGets ==
    /\ heartbeat.pc = "get"
    /\ heartbeat' = IF isvc[heartbeat.s].want = "gone" THEN [heartbeat EXCEPT !.pc = "delete"]
                    ELSE HeartbeatResting
    /\ UNCHANGED <<apiVars, engineVars, tableVars, level, gaveUp, troubles,
                   loop, monitor, watchdog>>
HeartbeatDeletes ==
    /\ heartbeat.pc = "delete"
    /\ DeleteProcess(heartbeat.s)
    /\ heartbeat' = IF Tracked(heartbeat.s)
                    THEN [heartbeat EXCEPT !.pc = "stop", !.id = processes[heartbeat.s].id]
                    ELSE HeartbeatResting
    /\ UNCHANGED <<apiVars, engineVars, evicted, level, gaveUp, troubles, loop, watchdog>>
HeartbeatStops ==
    /\ heartbeat.pc = "stop"
    /\ \E result \in StopResults : Stop(heartbeat.s, heartbeat.id, result)
    /\ heartbeat' = HeartbeatResting
    /\ UNCHANGED <<apiVars, tableVars, level, gaveUp, loop, monitor, watchdog>>

----------------------------------------------------------------------------
\* The watchdog's sample and handleMemoryPressure up to its first unlock.  A
\* steady Normal is delivered only while an evicted service waits; then
\* restartCandidatesLocked forgets the queued restarts that were cancelled and
\* picks what fits.  Critical evicts one engine unless it is the last.
Blocked == {s \in Services : evicted[s] = "blocked"}
Cancelled(s) == evicted[s] = "restarting" /\ ~restarts[s].held /\ ~Tracked(s) /\ s \notin starting
SampleNormal ==
    /\ watchdog.pc = "idle"
    /\ level # "Normal" \/ Blocked # {}
    /\ level' = "Normal"
    /\ evicted' = [s \in Services |-> IF Cancelled(s) THEN "no" ELSE evicted[s]]
    /\ \E picked \in SUBSET Blocked :
          watchdog' = IF picked = {} THEN WatchdogResting
                      ELSE [WatchdogResting EXCEPT !.pc = "picked", !.picked = picked]
    /\ UNCHANGED <<apiVars, engineVars, processes, starting, restarts, restartWake, gaveUp,
                   troubles, loop, monitor, heartbeat>>
SampleCritical ==
    /\ watchdog.pc = "idle"
    /\ Trouble
    /\ level' = "Critical"
    /\ \E target \in {s \in Services : Tracked(s)} :
          /\ Cardinality({s \in Services : Tracked(s)}) + OtherEngines > 1
          /\ watchdog' = [WatchdogResting EXCEPT !.pc = "evict", !.s = target]
       \/ watchdog' = WatchdogResting
    /\ UNCHANGED <<apiVars, engineVars, tableVars, gaveUp, loop, monitor, heartbeat>>

\* queueEvictedRestarts, one service after the other: evictedRestartVerdict,
\* then forgetEvicted or queueEvictedLocked.
WatchdogVerdict(s) ==
    /\ watchdog.pc = "picked" /\ s \in watchdog.picked
    /\ \E rest \in {[WatchdogResting EXCEPT !.picked = watchdog.picked \ {s},
                        !.pc = IF watchdog.picked = {s} THEN "idle" ELSE "picked"]} :
         \/ /\ watchdog' = [rest EXCEPT !.s = s,
                               !.pc = IF NotOurs(isvc[s]) THEN "forget" ELSE "queue"]
            /\ UNCHANGED troubles
         \/ Trouble /\ watchdog' = rest
    /\ UNCHANGED <<apiVars, engineVars, tableVars, level, gaveUp, loop, monitor, heartbeat>>
WatchdogNext == IF watchdog.picked = {} THEN WatchdogResting
                ELSE [watchdog EXCEPT !.pc = "picked", !.s = "none"]
WatchdogForgets ==
    /\ watchdog.pc = "forget"
    /\ SetEvicted(watchdog.s, "no")
    /\ watchdog' = WatchdogNext
    /\ UNCHANGED <<apiVars, engineVars, processes, starting, restarts, restartWake, level, gaveUp,
                   troubles, loop, monitor, heartbeat>>
WatchdogQueues ==
    /\ watchdog.pc = "queue"
    /\ \E s \in {watchdog.s} :
         IF evicted[s] = "blocked" /\ s \notin starting /\ ~restarts[s].pending
         THEN SetEvicted(s, "restarting") /\ Arm(s, Queued(StateOf(s), FALSE))
         ELSE UNCHANGED <<evicted, restarts, restartWake>>
    /\ watchdog' = WatchdogNext
    /\ UNCHANGED <<apiVars, engineVars, processes, starting, level, gaveUp,
                   troubles, loop, monitor, heartbeat>>

\* The eviction: block the key, then deleteProcess; a stop that failed lifts
\* the block again.
WatchdogBlocks ==
    /\ watchdog.pc = "evict"
    /\ SetEvicted(watchdog.s, "blocked")
    /\ watchdog' = [watchdog EXCEPT !.pc = "delete"]
    /\ UNCHANGED <<apiVars, engineVars, processes, starting, restarts, restartWake, level, gaveUp,
                   troubles, loop, monitor, heartbeat>>
WatchdogDeletes ==
    /\ watchdog.pc = "delete"
    /\ DeleteProcess(watchdog.s)
    /\ watchdog' = IF Tracked(watchdog.s)
                   THEN [watchdog EXCEPT !.pc = "stop", !.id = processes[watchdog.s].id]
                   ELSE WatchdogResting
    /\ gaveUp' = IF evicted[watchdog.s] = "blocked" THEN gaveUp ELSE gaveUp \cup {watchdog.s}
    /\ UNCHANGED <<apiVars, engineVars, evicted, level, troubles, loop, heartbeat>>
WatchdogStops ==
    /\ watchdog.pc = "stop"
    /\ \E result \in StopResults :
         /\ Stop(watchdog.s, watchdog.id, result)
         /\ watchdog' = IF result = "failed" THEN [watchdog EXCEPT !.pc = "unblock"] ELSE WatchdogResting
    /\ UNCHANGED <<apiVars, tableVars, level, gaveUp, loop, monitor, heartbeat>>
WatchdogUnblocks ==
    /\ watchdog.pc = "unblock"
    /\ SetEvicted(watchdog.s, IF evicted[watchdog.s] = "blocked" THEN "no" ELSE evicted[watchdog.s])
    /\ watchdog' = WatchdogResting
    /\ gaveUp' = gaveUp \cup {watchdog.s}
    /\ UNCHANGED <<apiVars, engineVars, processes, starting, restarts, restartWake, level,
                   troubles, loop, monitor, heartbeat>>

----------------------------------------------------------------------------
MetalInit ==
    /\ isvc = [s \in Services |-> [want |-> "up", spec |-> 1, rv |-> 1]]
    /\ edits = 0 /\ troubles = 0
    /\ watcher = [todo |-> {}, first |-> TRUE]
    /\ seen = [s \in Services |-> 0]
    /\ loop = LoopResting /\ monitor = MonitorResting
    /\ heartbeat = HeartbeatResting /\ watchdog = WatchdogResting
    /\ processes = [s \in Services |-> NoProcess]
    /\ starting = {}
    /\ restarts = [s \in Services |-> NoRestart]
    /\ restartWake = FALSE
    /\ evicted = [s \in Services |-> "no"]
    /\ level = "Normal"
    /\ alive = [s \in Services |-> {}] /\ lost = [s \in Services |-> {}]
    /\ spawned = [s \in Services |-> 0]
    /\ gaveUp = {} /\ polled = {}

MetalNext ==
    \/ \E s \in Services : Edit(s) \/ LoopRunsRestart(s) \/ TimerFires(s) \/ EngineDies(s)
                           \/ MonitorProbes(s) \/ HeartbeatTakes(s) \/ WatchdogVerdict(s)
    \/ Poll \/ \E e \in watcher.todo : LoopTakesEvent(e)
    \/ LoopForgets \/ LoopEnsures \/ LoopReleases \/ LoopScalesToZero \/ LoopDefers \/ LoopRequeues
    \/ LoopFetchesModel \/ LoopDeletes \/ LoopStops \/ LoopSpawns \/ LoopStartFails \/ LoopStores
    \/ LoopRegisters \/ LoopReturns \/ LoopTakesWake \/ LoopRanRestarts \/ LoopGetsService
    \/ LoopDropsRestart \/ LoopAttempted
    \/ MonitorApplies \/ MonitorRemoves \/ MonitorStops \/ MonitorSchedules
    \/ HeartbeatGets \/ HeartbeatDeletes \/ HeartbeatStops
    \/ SampleNormal \/ SampleCritical \/ WatchdogForgets \/ WatchdogQueues
    \/ WatchdogBlocks \/ WatchdogDeletes \/ WatchdogStops \/ WatchdogUnblocks

MetalSpec == MetalInit /\ [][MetalNext]_metalVars

----------------------------------------------------------------------------
MetalTypeOK ==
    /\ isvc \in [Services -> Isvc] /\ edits \in 0..MaxEdits /\ troubles \in 0..MaxTroubles
    /\ seen \in [Services -> 0..(MaxEdits + 1)]
    /\ watcher.todo \subseteq [s : Services, obj : Isvc] /\ watcher.first \in BOOLEAN
    /\ processes \in [Services -> [id : Ids, spec : Specs \cup {0}, healthy : BOOLEAN,
                                   failures : 0..Threshold]]
    /\ restarts \in [Services -> [held : BOOLEAN, pending : BOOLEAN, later : BOOLEAN, timer : BOOLEAN,
                                  grown : BOOLEAN, unclean : BOOLEAN, spec : Specs \cup {0}]]
    /\ \A s \in Services : ~restarts[s].held => restarts[s] = NoRestart
    /\ starting \subseteq Services /\ restartWake \in BOOLEAN
    /\ evicted \in [Services -> {"no", "blocked", "restarting"}] /\ level \in {"Normal", "Critical"}
    /\ alive \in [Services -> SUBSET (1..MaxStarts)] /\ lost \in [Services -> SUBSET (1..MaxStarts)]
    /\ spawned \in [Services -> Ids]
    /\ gaveUp \subseteq Services /\ polled \subseteq Services

Own(s) == {processes[s].id} \cup (IF loop.s = s THEN {loop.id} ELSE {})
BeingStopped(s) ==
    {g.id : g \in {h \in {monitor, heartbeat, watchdog} : h.s = s /\ h.pc = "stop"}}

\* An engine that runs is in the process table, in the hands of the loop, or
\* being stopped by exactly the goroutine that took it out of the table, unless
\* a stop failed; a service has at most one that is not on its way out, and
\* none is started while the health monitor still stops the last, nor, but by
\* the restart itself, while one is owed.  An untracked engine keeps its
\* weights wired, two hold them twice (the starting guard of
\* reconcileProcess), and a start that any status write may cause must not
\* skip the backoff of a crash loop (deferToPendingRestart).
EnginesAccounted ==
    \A s \in Services :
        /\ alive[s] \subseteq Own(s) \cup BeingStopped(s) \cup lost[s]
        /\ Cardinality((alive[s] \cap Own(s)) \ lost[s]) <= 1
        /\ (monitor.pc = "stop" /\ monitor.s = s) => alive[s] \cap Own(s) \subseteq lost[s]
        /\ (loop.pc \in {"start", "loading"} /\ loop.s = s) => ~restarts[s].pending

\* Nothing is left to do for s: its events are delivered, no restart is armed,
\* and no goroutine but a probe is at work on it.
Quiet(s) ==
    /\ watcher = [todo |-> {}, first |-> FALSE] /\ ~ToSend(s) /\ s \in polled
    /\ loop.pc = "idle" /\ ~restartWake /\ ~restarts[s].timer
    /\ \A g \in {monitor, heartbeat, watchdog} : g.s = s => g.pc \in {"idle", "probing", "get"}
    /\ s \notin watchdog.picked

\* Whatever order edits, failing engines, evictions and restarts come in, a
\* service that has come to rest is as its InferenceService asks: no engine
\* runs for one that is stopped, deleted or given away; one that is wanted has
\* an engine of its current spec, waits for memory, or its last start failed
\* outright.  A restart that survives its cancellation, a stop whose event was
\* dropped at the guard, or a restart nobody wakes the loop for would break it.
SettledAsAsked ==
    \A s \in Services : Quiet(s) =>
        IF NotOurs(isvc[s]) \/ IsvcStopped(isvc[s])
        THEN alive[s] \subseteq lost[s] /\ ~Tracked(s)
        ELSE \/ Tracked(s) /\ processes[s].spec = isvc[s].spec
             \/ evicted[s] = "blocked" \/ (Tracked(s) /\ evicted[s] = "restarting")
             \/ s \in gaveUp
=============================================================================
