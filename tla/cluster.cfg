SPECIFICATION FairSpec
CONSTANTS
    Nodes = {n1, n2, n3}
    Frontends = {n1}
    Pickers = {n1}
    LastPort = 3
    Retries = 1
    Cycle = 6
INVARIANTS RegistrySound FairTurns
PROPERTY StartSettles
CHECK_DEADLOCK FALSE
