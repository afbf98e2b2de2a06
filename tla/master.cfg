SPECIFICATION FairSpec
CONSTANTS
    Servers <- TwoServers
    Sticky <- OneSticky
    MaxCrashes = 1
INVARIANTS ProcessesSound WorkersCatchUp
PROPERTY MasterActs
CHECK_DEADLOCK FALSE
