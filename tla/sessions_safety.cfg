SPECIFICATION Spec
CONSTANTS
    Sids = {s1, s2, s3, s4}
    Uids = {u1, u2}
    FalsyUids = {}
    None = None
    SingleSession = FALSE
    MaxConnections = 2
SYMMETRY SidUidSymmetry
INVARIANTS TablesAgree StatisticsExact
PROPERTY ClosedSessionStaysClosed
CHECK_DEADLOCK FALSE
