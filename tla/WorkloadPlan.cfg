SPECIFICATION FairSpec
CONSTANTS
    NumIssues = 1
    NumReviewers = 2
    NumEscReviewers = 1
    HasVerifier = TRUE
    HasEscCoder = TRUE
    EscalateOnFailure = TRUE
    MaxReviewIterations = 1
    MaxTasks = 0
    FailingSites = {"render", "coder", "iterate", "escalate"}
    MaxLag = 3
    Deletions = {}
    MaxFaults = 1
    CloudAgents <- SecondReviewer
INVARIANT TypeOK
INVARIANT CompletedIsDone
INVARIANT RetriesExclude
INVARIANT SupersededNeverRuns
PROPERTY TerminalStays
 
