SPECIFICATION Spec
CONSTANTS
    f1 = f1
    f2 = f2
    good = good
    bad = bad
    w = w
    NoFile = NoFile
    NoRequest = NoRequest
    NoOne = NoOne
    Main = main
    Poller = poll
    Files = {f1, f2}
    Values = {good, bad}
    Malformed = {bad}
    Writers = {w}
    Refreshers = {poll}
    Reloaders = {admin}
    MaxPushRetries = 2
    InitialTrees <- OneFile
    Requests <- NetworkRequests
    Budget <- NetworkBudget
INVARIANT TypeOK
INVARIANT AckedIsDurable
INVARIANT AckedIsServed
INVARIANT OwnFilesOnly
INVARIANT CheckoutClean
PROPERTY ServedForward
PROPERTY ImplementsServing
