SPECIFICATION Spec
CONSTANTS
    c1 = c1
    Clients = {c1}
    StartupBatchSize = 2
    Kinds <- SavingKinds
    Faults <- AllFaults
    MaxSeq = 3
    MaxRestarts = 1
INVARIANTS TypeOK StateExact ReadyMeansCaughtUp WaitIsReadYourWrites FailedEventsStayOut
CHECK_DEADLOCK FALSE
