SPECIFICATION Spec
CONSTANTS
    NumIssues = 1
    NumReviewers = 1
    NumEscReviewers = 1
    HasVerifier = TRUE
    HasEscCoder = TRUE
    EscalateOnFailure = TRUE
    MaxReviewIterations = 1
    MaxTasks = 6
    FailingSites = {"render", "coder"}
    MaxLag = 3
    Deletions = {}
    MaxFaults = 1
    CloudAgents <- NoAgents
INVARIANT PlanCarriedOut
