SPECIFICATION FairSpec
CONSTANTS
    NumIssues = 1
    NumReviewers = 0
    NumEscReviewers = 0
    HasVerifier = TRUE
    HasEscCoder = FALSE
    EscalateOnFailure = TRUE
    MaxReviewIterations = 0
    MaxTasks = 2
    FailingSites = {"render", "coder", "iterate", "escalate"}
    MaxLag = 2
    Deletions = {"child", "workload"}
    MaxFaults = 2
    CloudAgents <- NoAgents
INVARIANT RunsOnGoodDeps
 
PROPERTY DeletionFinishes
