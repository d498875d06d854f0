SPECIFICATION LiveSpec
CONSTANTS
    o1 = o1
    o2 = o2
    Owners = {o1, o2}
    NoOne = NoOne
    Revisions = {1, 2, 3, 4, 5, 6}
    TTL = 6
    RenewEvery = 1
    RetryEvery = 1
    RequestTimeout = 1
    StopBound = 1
    WorkBound = 1
    MaxFaults = 1
    MaxCrashes = 1
INVARIANTS TypeOK CooldownHonoured
PROPERTIES WorkIsExclusive Succession
