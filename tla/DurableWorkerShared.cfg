SPECIFICATION LiveSpec
CONSTANTS
    w1 = w1
    w2 = w2
    m1 = m1
    m2 = m2
    Workers = {w1, w2}
    Messages = {m1, m2}
    NoMessage = NoMessage
    MaxConcurrent = 1
    AckWait = 2
    FetchMaxWait = 1
    HeartbeatInterval = 1
    RetryDelay = 1
    StopBound = 1
    MaxFaults = 1
    MaxFailures = 2
PROPERTIES EveryMessageSettled
