CONSTANTS
    Times = {}
    SceneTimes = {0, 1}
    MaxLevel = 4
    Unit = 6
    MoveTimes = {0, 2, 3}
    Rates = {0, 4}
    Sizes = {1}
    OnLevels = {0, 2}
    Late = 2
    Failing = {"step"}
    MaxFaults = 1
SPECIFICATION LightFairSpec
INVARIANTS LightTypeOK OffWhenDimmed
PROPERTY MovesEnd
