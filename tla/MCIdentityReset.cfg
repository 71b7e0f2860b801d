CONSTANTS
    r1 = r1
    r2 = r2
    Resets = {r1, r2}
    CmdTime = 1
    IntTime = 2
    KillTime = 1
    LockWait = 7
    MaxLogins = 2
    MaxFaults = 2
SPECIFICATION FairSpec
INVARIANT TypeOK
PROPERTIES ResetForgets ComesBack
