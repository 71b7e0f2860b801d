CONSTANTS
    Clusters = {c1}
    Requests <- MCRequests
    Config <- MCConfig
    Limit = 2
    Minute = 2
    Filters = {c1}
    Slow = TRUE
    Errors = {"network", "other", "refused"}
    MaxValue = 2
    MaxEvents = 1
    MaxFaults = 3
SPECIFICATION FairSpec
CHECK_DEADLOCK FALSE
INVARIANTS TypeOK NoChangeLost NoEventLost HeardInTime
PROPERTIES FlushSendsAll ImplementsReplica Converges
