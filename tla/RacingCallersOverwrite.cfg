SPECIFICATION Spec
CONSTANTS
    Addresses = {1, 2, 3}
    Public = {2, 3}
    Literals = {"10.0.0.1"}
    MaxTtl = 2
    MaxBytes = 2
    MaxCaptures = 2
    MaxInterval = 1
    Launches = {p1, p2}
    Source <- Base
    Bodies <- MCBodies
    ProducerCommit = "c"
    MaxMoves = 2
    Recorders = {r1, r2}
    ApprovalTiers = {2, 3}
    MaxCalls = 3
    Missing = Missing
    Empty = Empty
    Torn = Torn
    Tasks = {t1, t2}
    Keys = {k1, k2}
    Channels <- TwoChannels
    Window = 2
    MaxRetries = 2
    InitialBackoff = 1
    MaxBackoff = 1
    MaxFaults = 1
INVARIANTS AcceptedStays
SYMMETRY Symmetry
CHECK_DEADLOCK FALSE
