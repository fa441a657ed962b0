SPECIFICATION FairSpec
CONSTANTS
    w1 = w1
    w2 = w2
    e1 = e1
    e2 = e2
    e3 = e3
    e4 = e4
    e5 = e5
    exact = exact
    wildcard = wildcard
    listing = listing
    confirmed = confirmed
    External = External
    None = None
    Workers = {w1, w2}
    QueueSize = 1
    Events = {e1, e2, e3, e4, e5}
    Topics = {listing, confirmed}
    Regs = {exact}
    TopicOf <- MCTopicOf
    PatternOf <- MCPatternOf
    SourceOf <- MCSourceOf
    Stoppers = {}
PROPERTY PublishInserts
CHECK_DEADLOCK FALSE
