SPECIFICATION FairSpec
CONSTANTS
    Tasks = {"t1", "t2"}
    Agents <- MCAgents
    NumNodes = 1
    AgentOf <- AllInProcess
    JobAgents <- MCJobAgents
    MaxConcurrent <- NoLimit
    Capabilities <- BigAndSmall
    SatisfiedBy <- FirstNeedsBig
    Rank <- MCRank
    InCluster = {1}
    NoTask = "none"
    ClaimExpiryLimit = 2
    MaxSupervised = 2
    Stall = FALSE
    OwnWriteLag = FALSE
    FailingCalls = {}
    MaxAge = 1
    MaxLag = 1
    MaxClaims = 5
    MaxFaults = 1
PROPERTY NoNodeWedged
