SPECIFICATION Spec
CONSTANTS
    k1 = k1
    k2 = k2
    Keys = {k1, k2}
    UntimedKeys = {}
    Retention = 3
    MaxSkew = 3
    MaxAttempts = 2
    MaxTime = 4
    MaxRestarts = 1
INVARIANT DeletedStaysDeleted
