SPECIFICATION Spec
CONSTANTS
    Tasks = {"t1", "t2"}
    Agents <- MCAgents
    NumNodes = 2
    AgentOf <- AllInProcess
    JobAgents <- MCJobAgents
    MaxConcurrent <- LimitOne
    Capabilities <- MCCapabilities
    SatisfiedBy <- MCSatisfiedBy
    Rank <- MCRank
    InCluster = {1}
    NoTask = "none"
    ClaimExpiryLimit = 2
    MaxSupervised = 2
    Stall = FALSE
    OwnWriteLag = FALSE
    FailingCalls = {}
    MaxAge = 1
    MaxLag = 1
    MaxClaims = 3
    MaxFaults = 1
INVARIANT ReservationHeld
 
