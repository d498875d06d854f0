SPECIFICATION Spec
CONSTANTS
    c1 = c1
    Clients = {c1}
    StartupBatchSize = 2
    Kinds <- UnbatchedKind
    Faults = {"apply"}
    MaxSeq = 3
    MaxRestarts = 0
INVARIANT ReadinessExcludesStartupFailure
CHECK_DEADLOCK FALSE
