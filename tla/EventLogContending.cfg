SPECIFICATION FairSpec
CONSTANTS
    w1 = w1
    w2 = w2
    w3 = w3
    w4 = w4
    Writers = {w1, w2}
    Subjects <- MCSubjects
    Bodies <- MCBodies
    Op <- ContendingOps
    MaxAttempts = 2
    MaxCalls = 2
INVARIANTS ReportedSequencesTrue ConflictStoresNothing ConflictsArePaidFor
PROPERTIES AppliedAtomically EveryCallReturns
CHECK_DEADLOCK FALSE
