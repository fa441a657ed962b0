\* Two endpoints that serve, fail or reject, with three attempts each.
SPECIFICATION FairSpec
CONSTANTS
    helius = helius
    spare = spare
    Endpoints <- MCEndpoints
    MaxAttempts = 3
PROPERTY RetriesFailures
\* stop() ends the manager.
CHECK_DEADLOCK FALSE
