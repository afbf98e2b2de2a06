SPECIFICATION BFairSpec
CONSTANTS
    Sids = {s1, s2}
    Uids = {u1, u2}
    FalsyUids = {}
    None = None
    SingleSession = TRUE
    MaxConnections = 0
    Here = here
    There = there
    MaxCalls = 2
    MaxPushes = 2
INVARIANTS SingleSessionHolds ChannelSound
PROPERTIES PushesSound ClosedSessionLeaves
CHECK_DEADLOCK FALSE
