SPECIFICATION Spec
CONSTANTS
    Procs = {p1, p2}
    Urls <- Web
    AllowedHosts = {"api", "mirror"}
    Addresses = {1, 2, 3}
    Public = {2}
    MaxRedirects = 2
    NoProcess = NoProcess
    Count = 3
    MaxFaults = 1
    MaxSwitches = 1
    Sources <- Files
    Listing <- Sorted
    Receipts <- Corpus
    MaxBatches = 2
    MaxIngestFaults = 0
INVARIANTS AcceptedReplays
SYMMETRY Symmetry
CHECK_DEADLOCK FALSE
