CONSTANTS
    Clusters = {c1, c2}
    Requests <- MCRequests
    Config <- MCConfig
    Limit = 2
    Minute = 2
    Filters = {c1}
    Slow = FALSE
    Errors = {}
    MaxValue = 1
    MaxEvents = 0
    MaxFaults = 0
SPECIFICATION Spec
CHECK_DEADLOCK FALSE
PROPERTY DropIsYetToCome
