SPECIFICATION FairSpec
CONSTANTS
    r1 = r1
    r2 = r2
    r3 = r3
    Readers = {r1, r2, r3}
    Records = {1}
    MaxConcurrentReads = 2
    MaxClears = 1
INVARIANTS TypeOK ForgottenStaysOut NoReadAfterForget
PROPERTY ReadsReturn
