CONSTANTS
    p = p
    q = q
    Peers = {p, q}
    MaxVersion = 2
    StallAge = 0
    MaxAsks = 2
    Talks <- MCTalks
    Consenting = {}
SPECIFICATION FairSpec
CHECK_DEADLOCK FALSE
INVARIANTS TypeOK OneEntryPerPeer
PROPERTIES AppliedAsConsented FirstTurn QueueGoesOn
