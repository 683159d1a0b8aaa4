SPECIFICATION Spec
CONSTANTS
    Observations <- MCObservations
    ComparisonUnit = "block"
    Tolerance = 1
    MaxSources = 3
    MaxTime = 2
    MaxRevisions = 1
    MaxReviewTime = 2
    Corpora <- MCCorpora
    Unit = 10
    MinImprovement = 1
    MaxRatio = 10
    MinSeeds = 2
    MaxSpread = 0
    ObjectiveTolerance = 0
    Targets <- MCTargets
    SeedResidues = {0, 1, 2, 3, 4, 5}
    One = 4
    RelParts = 10
    AbsParts = 100
    EvidenceBundles <- MCEvidence
    Contracts <- MCContracts
    MaxDrafts = 1
    Checks = {"tests", "review"}
    DraftChecks = {"tests"}
    EvidenceTypes = {"threat_model", "replay"}
    Clauses = {"assets", "abuse"}
    Rollbacks = {"r1", "r2"}
    Lifetime = 2
    MaxLifetime = 2
    MaxClosureTime = 2
    MaxEdits = 1
    TtlPolicies <- MCPolicies
    Minutes = {0, 1, 5, 9}
    MaxRenewals = 1
    Lattices <- MCLattices
    Ttls = {0, 1, 2}
    MaxInstant = 2
    MaxGrants = 1
    Definitions <- MCDefinitions
    Chains = {"base"}
    Envelopes <- MCEnvelopes
    MaxAge = 1
    Skew = 0
    Maturation = 1
    MaxMoment = 2
    NetworkTargets = {"n"}
    MaxAdmissions = 2
    Packets <- MCPackets
    Routes <- MCRoutes
    Geometry <- MCGeometry
    MinDelta = 0
    MinProfit = 4
    MaxPacketTtl = 2
    PartsOfSecond = 2
    Addresses = {1, 2, 3}
    Public = {2, 3}
    Literals = {"10.0.0.1"}
    MaxTtl = 2
    MaxBytes = 2
    MaxCaptures = 2
    MaxInterval = 1
    Candidates <- MCCandidates
    Bundles <- MCBundles
    Commit = "c"
    CaptureCount = 2
    Interval = 1
    MaxChanges = 2
    Source <- Base
    FirstAddress = 2
    SecondAddress = 3
    Loopback = 1
    MaxCycles = 10
INVARIANTS ConsensusExact LapseIsFinal VerdictEarned EscapesAtTolerance ReadyEarned PassPinsThreatModel ListingServes BarredStaysOut UpliftEarned SummaryTrue CampaignPasses
PROPERTIES AuthorityOnlyFalls SoakKeepsPromise
CHECK_DEADLOCK FALSE
