CONSTANTS
    Poll = poll
    Cgis = {c1}
    Tokens = {k1, k2}
    TTL = 2
    Backoff = 1
    Failures = {"lookup", "create", "refuse", "abort", "crash", "gate"}
    Serial = FALSE
    Users = {"regular"}
    NoMeta = NoMeta
    Torn = Torn
    MaxFaults = 1
SPECIFICATION FairSpec
PROPERTY SessionEnds
