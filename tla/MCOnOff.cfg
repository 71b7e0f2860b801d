CONSTANTS
    Times = {0, 1, 3}
    SceneTimes = {0, 2}
SPECIFICATION FairSpec
INVARIANTS TypeOK TimersMatchLight
PROPERTIES KeepsPromise TimesRunOut
