SPECIFICATION Spec
CONSTANTS
    Sealers = {s1, s2}
    Receipts = {r1, r2}
    MaxSeals = 3
    MaxFaults = 1
INVARIANTS AnchorLatestIsLastLeaf
SYMMETRY Symmetry
CHECK_DEADLOCK FALSE
