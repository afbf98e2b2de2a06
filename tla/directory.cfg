SPECIFICATION DFairSpec
CONSTANTS
    Regs = {r1, r2}
    Ops = {w1, w2}
    Names = {n1, n2}
    Infos = {i1}
    None = None
    Tries = 1
INVARIANT LockSound
PROPERTIES KeepsDirectory OpsEnd
CHECK_DEADLOCK FALSE
