SPECIFICATION FairSpec
CONSTANTS
    a = a
    b = b
    c1 = c1
    Absent = Absent
    Trees <- DefaultsChange
    Clients = {c1}
    Views <- InheritedView
    MaxVersions = 2
    MaxRestarts = 0
PROPERTY WatcherCatchesUp
