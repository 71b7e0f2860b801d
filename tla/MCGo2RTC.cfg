CONSTANTS
    Cameras = {c1}
    Tasks = {t1, t2, t3}
    NoTask = NoTask
    HupEffects = {"reload", "ignore", "exit"}
    GenMod = 2
    CanFail = TRUE
SPECIFICATION FairMgrSpec
PROPERTIES ImplementsSingleProcess CallsReturn
