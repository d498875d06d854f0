SPECIFICATION Spec
CONSTANTS
    w1 = w1
    w2 = w2
    w3 = w3
    w4 = w4
    Writers = {w1, w2, w3, w4}
    Subjects <- MCSubjects
    Bodies <- MCBodies
    Op <- MixedOps
    MaxAttempts = 2
    MaxCalls = 1
INVARIANTS TypeOK ReportedSequencesTrue ConflictStoresNothing
PROPERTIES AppliedAtomically
CHECK_DEADLOCK FALSE
