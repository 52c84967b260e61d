SPECIFICATION Spec
CONSTANTS
    Tasks = {"t1"}
    Agents <- MCAgents
    NumNodes = 1
    AgentOf <- AllInProcess
    JobAgents <- MCJobAgents
    MaxConcurrent <- NoLimit
    Capabilities <- MCCapabilities
    SatisfiedBy <- MCSatisfiedBy
    Rank <- MCRank
    InCluster = {1}
    NoTask = "none"
    ClaimExpiryLimit = 2
    MaxSupervised = 2
    Stall = FALSE
    OwnWriteLag = FALSE
    FailingCalls = {}
    MaxAge = 1
    MaxLag = 2
    MaxClaims = 3
    MaxFaults = 1
PROPERTY TerminalIsFinal
