\* The refresh loop and a caller of latest(), and one endpoint.
SPECIFICATION CacheFairSpec
CONSTANTS
    helius = helius
    quicknode = quicknode
    keeper = keeper
    caller = caller
    None = None
    NoHash = NoHash
    Keeper = keeper
    Endpoints <- OneEndpoint
    Priority <- OnePriority
    Calls <- LoopAndCaller
    MaxLen = 1
    MaxSlot = 1
INVARIANT CacheInd
PROPERTY CatchesUp
\* start() may fail, which ends the process.
CHECK_DEADLOCK FALSE
