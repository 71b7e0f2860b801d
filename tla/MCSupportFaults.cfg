CONSTANTS
    Poll = poll
    Cgis = {c1}
    Tokens = {k1, k2, k3}
    TTL = 3
    Backoff = 2
    Failures = {"lookup", "create", "refuse", "abort", "crash", "gate"}
    Serial = TRUE
    Users = {"regular", "owner", "absent"}
    NoMeta = NoMeta
    Torn = Torn
    MaxFaults = 4
SPECIFICATION Spec
SYMMETRY TokenSymmetry
INVARIANTS TypeOK TokenTracked PanelTellsAccess
PROPERTY StatusIsTruthful
