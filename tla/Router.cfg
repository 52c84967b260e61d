SPECIFICATION MCSpec
CONSTANTS
    MemberSeq <- TwoMembers
    Requests = {"r1", "r2", "r3"}
    Target <- TwoForB
    IfIdle = {"r3"}
    MaxFaults = 1
    Budgets <- MCBudgets
    MaxGoroutines = 1
    Default = "a"
    Reclaim = TRUE
INVARIANT PoolTypeOK
INVARIANT CountersExact
INVARIANT IncumbentIdleDuringSwap
INVARIANT HeldHasWaker
PROPERTY FailureMeetsItsWaiters
PROPERTY ClaimNeverDeactivated
 
CHECK_DEADLOCK FALSE
