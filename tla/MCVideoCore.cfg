CONSTANTS
    Cameras = {c1, c2}
    Api = {a1}
    Routes = {"hard", "soft", "reload"}
    Sources = {"ok", "mute", "down"}
    Main = m
    Tasks = {c1, c2, a1, m}
    NoTask = NoTask
    HupEffects = {"reload"}
    GenMod = 1
    CanFail = TRUE
    MaxAttempts = 2
    Cooldown = 2
    Interval = 1
    SlowRestart = TRUE
    MaxFaults = 1
SPECIFICATION Spec
SYMMETRY Symmetry
INVARIANTS Inv OfflineMeansExhausted NothingLeftRunning
PROPERTY OfflineHolds
