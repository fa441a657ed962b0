SPECIFICATION EngineFairSpec
CONSTANTS
    w1 = w1
    w2 = w2
    l1 = l1
    l2 = l2
    o1 = o1
    sd = sd
    er = er
    External = External
    None = None
    Listing = Listing
    Shutdown = Shutdown
    Critical = Critical
    Confirmed = Confirmed
    onListing = onListing
    onShutdown = onShutdown
    onCritical = onCritical
    Workers = {w1, w2}
    QueueSize = 1
    Events = {sd, er}
    Topics = {Listing, Shutdown, Critical, Confirmed}
    Regs = {onListing, onShutdown, onCritical}
    TopicOf <- MCTopicOf
    PatternOf <- MCPatternOf
    SourceOf <- MCSourceOf
    Stoppers <- MCStoppers
PROPERTY ShutdownEventStops
CHECK_DEADLOCK FALSE
