SPECIFICATION FairSpec
CONSTANTS
    Calls = {c1, c2, c3}
    Ids <- OneServer
    Infos <- OneInfo
    None = None
    PendingSize = 0
    Retries = 2
    MaxSyncs = 2
    Faults <- AllFaults
PROPERTY DispatchesEnd
CHECK_DEADLOCK FALSE
