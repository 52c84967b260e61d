------------------------------ MODULE MCRouter ------------------------------
(***************************************************************************)
(* Small instances of the router side.  A behaviour looks at one of them:  *)
(* the Activator over members that come and go as they like (alone), or    *)
(* the Activator with the cluster and the ModelPoolReconciler (pool).      *)
(***************************************************************************)
EXTENDS ModelPool

VARIABLE focus

mcVars == <<vars, focus>>

TwoMembers == <<"a", "b">>
TwoForB == [r1 |-> "a", r2 |-> "b", r3 |-> "b"]
AloneBudget == [swaps |-> 2, sends |-> [r1 |-> 1, r2 |-> 1, r3 |-> 1]]
PoolBudget == [swaps |-> 1, sends |-> [r1 |-> 1, r2 |-> 1, r3 |-> 0]]
MCBudgets == {AloneBudget, PoolBudget}

MCInit ==
    /\ Init
    /\ \/ focus = "alone" /\ left = AloneBudget
       \/ focus = "pool" /\ left = PoolBudget

MCNext ==
    /\ \/ focus = "alone" /\ AloneNext /\ UNCHANGED poolVars
       \/ focus = "pool" /\ Next
    /\ UNCHANGED focus

MCSpec == MCInit /\ [][MCNext]_mcVars
=============================================================================
