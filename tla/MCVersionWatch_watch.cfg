SPECIFICATION FairSpec
CONSTANTS
    a = a
    b = b
    c1 = c1
    Absent = Absent
    Trees <- WatchTrees
    Clients = {c1}
    Views <- BothViews
    MaxVersions = 3
    MaxRestarts = 1
INVARIANT TypeOK
INVARIANT TokenIsLastChange
INVARIANT RawAnswerIsExact
INVARIANT AnswerIsOneSnapshot
INVARIANT BlockedIsCurrent
PROPERTY RawWatcherCatchesUp
