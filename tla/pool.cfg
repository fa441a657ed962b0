\* One caller after another races the checks and the servers.
SPECIFICATION PoolFairSpec
CONSTANTS
    helius = helius
    quicknode = quicknode
    k = k
    None = None
    Endpoints <- MCEndpoints
    Calls <- MCCalls
    Priority <- MCPriority
INVARIANT NoFalseAlarm
PROPERTIES
    DeadIsLeft
    RecoveredIsUsed
\* stop() ends the pool.
CHECK_DEADLOCK FALSE
