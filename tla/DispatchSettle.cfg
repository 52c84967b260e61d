SPECIFICATION FairSpec
CONSTANTS
    Tasks = {"t1"}
    Agents <- MCAgents
    NumNodes = 1
    AgentOf <- AllInProcess
    JobAgents <- MCJobAgents
    MaxConcurrent <- NoLimit
    Capabilities <- MCCapabilities
    SatisfiedBy <- MCSatisfiedBy
    Rank <- MCRank
    InCluster = {1}
    NoTask = "none"
    ClaimExpiryLimit = 2
    MaxSupervised = 2
    Stall = FALSE
    OwnWriteLag = FALSE
    FailingCalls = {}
    MaxAge = 2
    MaxLag = 1
    MaxClaims = 5
    MaxFaults = 3
PROPERTY EveryTaskSettles
PROPERTY ReservationsFreed
