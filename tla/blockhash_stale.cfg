\* The refresh loop alone, over two endpoints that follow the chain each at its pace.
SPECIFICATION CacheSpec
CONSTANTS
    helius = helius
    quicknode = quicknode
    keeper = keeper
    caller = caller
    None = None
    NoHash = NoHash
    Keeper = keeper
    Endpoints <- BothEndpoints
    Priority <- BothPriorities
    Calls <- LoopAlone
    MaxLen = 2
    MaxSlot = 1
INVARIANT Freshest
\* start() may fail, which ends the process.
CHECK_DEADLOCK FALSE
