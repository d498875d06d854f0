SPECIFICATION FairSpec
CONSTANTS
    c1 = c1
    Clients = {c1}
    StartupBatchSize = 2
    Kinds <- ColdKinds
    Faults = {"metadata", "decode", "apply"}
    MaxSeq = 2
    MaxRestarts = 0
PROPERTIES StartupEnds WaitersReleased
CHECK_DEADLOCK FALSE
