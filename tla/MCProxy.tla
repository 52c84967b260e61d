------------------------------ MODULE MCProxy ------------------------------
(***************************************************************************)
(* Small instances of the request path of the router-proxy: the            *)
(* Dispatcher, the session table and the budget store.  A behaviour looks  *)
(* at one of them.                                                         *)
(***************************************************************************)
EXTENDS Dispatcher, Sessions, Budget, TLC

VARIABLE focus

mcVars == <<focus, dispatchVars, sessionVars, budgetVars>>

PodLeavesAndReturns == [rule |-> <<"pool">>, set |-> Pods, changes |-> 2, loadAware |-> TRUE]
PodJoinsBeforeSpare ==
    [rule |-> <<"pool", "spare">>, set |-> {}, changes |-> 1, loadAware |-> FALSE]
MCStarts == {PodLeavesAndReturns, PodJoinsBeforeSpare}

RouterThenTeam == <<"router", "team">>
MCScopesOf == [c \in Clients |-> IF c = "t1" THEN {"router"} ELSE {"router", "team"}]
MCMaxTokens == [sk \in {"router", "team"} |-> IF sk = "router" THEN 3 ELSE 2]
MCWindow == [sk \in {"router", "team"} |-> IF sk = "router" THEN 4 ELSE 2]

CallerSymmetry == Permutations(Callers)

MCInit ==
    /\ SessionsInit /\ BudgetInit
    /\ \/ focus = "dispatch" /\ \E s \in Starts : DispatchInit(s)
       \/ focus \in {"sessions", "budget"} /\ DispatchInit(PodLeavesAndReturns)

MCNext ==
    /\ \/ focus = "dispatch" /\ DispatchNext /\ UNCHANGED <<sessionVars, budgetVars>>
       \/ focus = "sessions" /\ SessionsNext /\ UNCHANGED <<dispatchVars, budgetVars>>
       \/ focus = "budget" /\ BudgetNext /\ UNCHANGED <<dispatchVars, sessionVars>>
    /\ UNCHANGED focus

MCSpec == MCInit /\ [][MCNext]_mcVars

\* The state of the dispatcher, of the session table (never above its
\* capacity) and of the budget store is what their types allow.
ProxyTypeOK == DispatcherTypeOK /\ SessionsTypeOK /\ BudgetTypeOK
=============================================================================
