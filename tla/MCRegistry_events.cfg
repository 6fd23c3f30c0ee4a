SPECIFICATION FairSpec
CONSTANTS
    k1 = k1
    k2 = k2
    Keys = {k1, k2}
    UntimedKeys = {k2}
    Retention = 2
    MaxSkew = 2
    MaxAttempts = 2
    MaxTime = 5
    MaxRestarts = 1
INVARIANT TypeOK
INVARIANT NewestWins
INVARIANT AnsweredIsCached
PROPERTY Converges
