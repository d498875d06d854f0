SPECIFICATION Spec
CONSTANTS
    MaxSeq = 3
    MaxGaps = 2
INVARIANTS TypeOK CursorCoversPosts MembershipTrue
PROPERTIES CursorNeverRegresses
