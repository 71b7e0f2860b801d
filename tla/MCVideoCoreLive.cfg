CONSTANTS
    Cameras = {c1, c2}
    Api = {a1}
    Routes = {"hard", "reload"}
    Sources = {"ok", "down"}
    Main = m
    Tasks = {c1, c2, a1, m}
    NoTask = NoTask
    HupEffects = {"reload"}
    GenMod = 1
    CanFail = FALSE
    MaxAttempts = 2
    Cooldown = 2
    Interval = 1
    SlowRestart = FALSE
    MaxFaults = 1
SPECIFICATION FairSpec
PROPERTIES Settles DeadIsReplaced StopEnds
