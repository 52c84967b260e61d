SPECIFICATION MCFairSpec
CONSTANTS
    NumNodes = 3
    Fleets <- MCFleets
    AbortsAt = {"clear", "counts", "succeed", "await", "progress"}
    Versions = {"v1", "v2", "v3", "v4"}
    FirstVersion = "v1"
    RetainVersions = 1
    MaxUpdates = 3
    MaxKills = 2
INVARIANT AgentsTypeOK
 
INVARIANT AlwaysStartable
 
PROPERTY AgentsAreManaged
 
PROPERTY ImplementsManagedAgent
PROPERTY RequestArrives
CHECK_DEADLOCK FALSE
