SPECIFICATION RevertFairSpec
CONSTANTS
    f1 = f1
    f2 = f2
    good = good
    bad = bad
    w = w
    NoFile = NoFile
    NoRequest = NoRequest
    NoOne = NoOne
    NoRevert = NoRevert
    ServiceFiles = {f1, f2}
    Main = main
    Poller = poll
    Files = {f1, f2}
    Values = {good, bad}
    Malformed = {bad}
    Writers = {w}
    Refreshers = {poll}
    Reloaders = {admin}
    MaxPushRetries = 3
    InitialTrees <- OneFile
    Requests <- AllRequests
    Budget <- PollBudget
PROPERTY CatchesUp
INVARIANT RevertTypeOK
INVARIANT NotSilentlyStale
INVARIANT RevertIsExact
PROPERTY NoopIsFresh
