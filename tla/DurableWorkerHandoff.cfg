SPECIFICATION Spec
CONSTANTS
    w1 = w1
    w2 = w2
    m1 = m1
    m2 = m2
    Workers = {w1, w2}
    Messages = {m1}
    NoMessage = NoMessage
    MaxConcurrent = 2
    AckWait = 3
    FetchMaxWait = 2
    HeartbeatInterval = 2
    RetryDelay = 1
    StopBound = 2
    MaxFaults = 2
    MaxFailures = 2
INVARIANTS TypeOK SettledMeansHandled OneHandlerAtATime HandledAgainOnlyAfterFaults HandoffsLeave
