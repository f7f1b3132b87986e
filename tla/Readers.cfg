CONSTANTS
    r1 = r1
    r2 = r2
    w = w
    Threads = {r1, r2, w}
    NoThread = NoThread
    Calls <- MCCalls
    MaxCalls <- MCMaxCalls
    FilePages = 2
    MaxPages = 3
    Modes <- MCModes
SPECIFICATION Spec
CHECK_DEADLOCK FALSE
INVARIANTS TypeOK ReadsCurrent LatestKept NoSlotRace NoWriteAfterClose
PROPERTY EveryCallReturns
