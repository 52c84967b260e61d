SPECIFICATION MCSpec
CONSTANTS
    Pods = {"p1"}
    Callers = {c1, c2}
    MaxSends = 1
    Starts <- MCStarts
    Keys = {"k1", "k2", "k3"}
    Candidates = {"p", "q"}
    Capacity = 2
    IdleTimeout = 2
    SpillCooldown = 2
    SessionsEnd = 6
    Clients = {"t1", "t2"}
    ScopeKeys <- RouterThenTeam
    ScopesOf <- MCScopesOf
    MaxTokens <- MCMaxTokens
    Window <- MCWindow
    BucketTicks = 2
    Usages = {1, 2}
    BudgetEnd = 5
SYMMETRY CallerSymmetry
INVARIANT LoadExact
 
INVARIANT ProxyTypeOK
INVARIANT BucketsMeanWindow
INVARIANT OverspendBounded
 
CHECK_DEADLOCK FALSE
