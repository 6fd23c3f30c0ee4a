SPECIFICATION MCSpec
\* The debouncer's clock comes to an end, levels take no steps, and budgets run out.
CHECK_DEADLOCK FALSE
CONSTANTS
    c1 = c1
    e1 = e1
    bad = bad
    s1 = s1
    s2 = s2
    Null = Null
    NoFile = NoFile
    None = None
    Bare = Bare
    Configs = {c1, c2}
    Envs = {e1, e2, bad}
    Unrenderable = {bad}
    InitialBackoff = 1
    MaxBackoff = 3
    AgentBudget <- Budget
    Cooldown = 3
    QuietPeriod = 2
    MaxWait = 5
    Late = 1
    Lag = 1
    MaxTime = 16
    Scalars = {s1, s2}
    Nothing_ = nothing
    a = a
    b = b
    k = k
    ns = ns
    Words = {a, b, k, ns}
    Plaintexts = {"v1", "v2"}
    SortedNames <- TwoNames
    Namespace <- TheNamespace
    SecretRequests <- TwoWrites
    OutsideEntries <- Others
    MaxAttempts = 2
    SecretBudgets <- ThreeKinds
    Clients = {r1, r2}
    SecretRefs <- Refs
INVARIANT AgentTypeOK
INVARIANT HandledIsRunning
PROPERTY RolloutSeesPayload
PROPERTY Converges
INVARIANT DebounceTypeOK
INVARIANT AppliedInTime
PROPERTY AppliesApart
INVARIANT ConfigIsLastWord
INVARIANT EnvIsLastWord
INVARIANT SecretTypeOK
PROPERTY EntriesAreKept
INVARIANT OnlyCommittedApplied
INVARIANT AppliedAsAnswered
INVARIANT ResolvedIsFresh
