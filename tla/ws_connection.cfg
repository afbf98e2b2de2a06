SPECIFICATION FairSpec
CONSTANTS
    MaxAttempts = 1
    Socks = {1, 2, 3, 4}
INVARIANT ConnectionSound
PROPERTIES ConnectSettles SilentPeersDropped
CHECK_DEADLOCK FALSE
