SPECIFICATION Spec
CONSTANTS
    Calls = {c1, c2, c3}
    Ids <- OneServer
    Infos <- TwoInfos
    None = None
    PendingSize = 0
    Retries = 2
    MaxSyncs = 2
    Faults <- AllFaults
SYMMETRY CallSymmetry
INVARIANTS TypeOK MailboxesSound QueuesSound NoOrphanedRequest
PROPERTY ParkedNotSentAfterStop
CHECK_DEADLOCK FALSE
