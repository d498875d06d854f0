SPECIFICATION Spec
CONSTANTS
    s1 = s1
    s2 = s2
    l1 = l1
    p1 = p1
    p2 = p2
    Savers = {s1, s2}
    Loaders = {l1}
    MaxGenerations = 3
    Parts = {p1, p2}
    Manifest = Manifest
    Ranges <- MCRanges
    MaxFaults = 1
SYMMETRY SwapSaversAndParts
INVARIANTS TypeOK OneFaultLeavesASnapshot LoadOutlivesOnePublication NothingLeftBehind
PROPERTIES NeverRegresses
