CONSTANTS
    Providers = {p1, p2}
    NoOne = NoOne
    MaxVersion = 3
    MaxRetries = 3
    MaxFaults = 2
SPECIFICATION FairSpec
CHECK_DEADLOCK FALSE
INVARIANTS TypeOK AppliesValidated QueryIsScheduled
PROPERTY EveryProviderIsAsked
