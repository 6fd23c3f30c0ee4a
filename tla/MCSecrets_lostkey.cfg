SPECIFICATION VolumeSpec
\* The two writes are all there is.
CHECK_DEADLOCK FALSE
CONSTANTS
    Nothing_ = nothing
    a = a
    b = b
    k = k
    ns = ns
    Words = {a, b, k, ns}
    Plaintexts = {"v1", "v2"}
    SortedNames <- TwoNames
    Namespace <- TheNamespace
    SecretRequests <- KeyByKey
    OutsideEntries = {}
    MaxAttempts = 2
    SecretBudgets <- Calm
    Clients = {}
    SecretRefs = {}
INVARIANT EntriesHaveValues
