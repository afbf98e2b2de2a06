SPECIFICATION RFairSpec
CONSTANTS
    MaxCalls = 2
    MaxReqAttempts = 2
    FirstIds <- BoundaryIds
INVARIANTS RequestsSound FramesReadable OwnAnswer
PROPERTY RequestSettles
CHECK_DEADLOCK FALSE
