SPECIFICATION Spec
CONSTANTS
    MaxSeq = 3
    MaxGaps = 1
INVARIANT NoUnobservableGap
