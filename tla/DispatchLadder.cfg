SPECIFICATION Spec
CONSTANTS
    Tasks = {"t1"}
    Agents <- MCAgents
    NumNodes = 1
    AgentOf <- AllJobs
    JobAgents <- MCJobAgents
    MaxConcurrent <- NoLimit
    Capabilities <- MCCapabilities
    SatisfiedBy <- MCSatisfiedBy
    Rank <- MCRank
    InCluster = {1}
    NoTask = "none"
    ClaimExpiryLimit = 2
    MaxSupervised = 2
    Stall = TRUE
    OwnWriteLag = FALSE
    FailingCalls <- AllCalls
    MaxAge = 2
    MaxLag = 2
    MaxClaims = 3
    MaxFaults = 3
INVARIANT BoundedReleases
INVARIANT SingleOwner
 
