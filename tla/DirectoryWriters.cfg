SPECIFICATION Spec
CONSTANTS
    Procs = {p1, p2}
    Urls <- Web
    AllowedHosts = {"api", "mirror"}
    Addresses = {1, 2, 3}
    Public = {2}
    MaxRedirects = 2
    NoProcess = NoProcess
    Count = 3
    MaxFaults = 2
    MaxSwitches = 2
    Sources <- Files
    Listing <- Sorted
    Receipts <- Corpus
    MaxBatches = 2
    MaxIngestFaults = 1
INVARIANTS OnlyPublicContacted PassIsEarned ReplayClaimTrue CopiesApproved
PROPERTIES AtomicCommit KeepsPromise
SYMMETRY Symmetry
CHECK_DEADLOCK FALSE
