SPECIFICATION FairSpec
CONSTANTS
    Address = a1
    MaxAttempts = 3
INVARIANT UDPSound
PROPERTY ConnectionSettles
CHECK_DEADLOCK FALSE
