--------------------------- MODULE FailureCampaign ---------------------------
(***************************************************************************)
(* The synthetic failure campaign (eve_q/gate1_failure_campaign.py): blocks *)
(* of the nine cases, each block shuffled, are run until the cycles asked   *)
(* for are used up, and a summary says whether every case was exercised and *)
(* passed.  A case drives the documents' own checks into one failure.       *)
(***************************************************************************)
EXTENDS Gate1Documents

CONSTANTS
    TestSource,             \* _spec
    First, Second,          \* the public addresses of the test resolvers
    Loopback,               \* and the address that is not
    MaxCycles               \* bound: cycles asked for

\* The addresses, and the fields that _spec gives its sources.
CampaignAssumption ==
    /\ First \in Public /\ Second \in Public \ {First} /\ Loopback \notin Public
    /\ TestSource.id # "" /\ TestSource.kind = "market_snapshot"
    /\ TestSource.https /\ ~TestSource.credentials
    /\ TestSource.host \notin {""} \cup Literals /\ TestSource.port = 443
    /\ TestSource.allowed = {TestSource.host} /\ TestSource.method = "GET"
    /\ TestSource.ttl \in 1 .. MaxTtl /\ TestSource.timeout = 5 /\ TestSource.bytes \in 1 .. MaxBytes

VARIABLES status, cycles, block, counts, passes, verdict

vars == <<status, cycles, block, counts, passes, verdict>>

TestBody == [type |-> "application/json", wellFormed |-> TRUE, newlines |-> 0, bytes |-> 1]
TestSnapshot == Snapshot(TestSource, "commit", TestBody, 0)
From(source, group, digest) == [source |-> source, group |-> group, digest |-> digest]

\* run_case: for each case, whether its record says "passed".
Passed ==
    [independent_agreement |->
         Coalition({From("a", "provider-a", 1), From("b", "provider-b", 1)}) = "GROUNDED",
     conflicting_sources |->
         Coalition({From("a", "provider-a", 1), From("b", "provider-b", 2)}) = "CONFLICTING",
     weak_provenance_agreement |->
         Coalition({From("a", "shared", 1), From("b", "shared", 1)}) = "HERDING_RISK",
     source_outage |->
         RollbackBuilds("source_outage", 0, 0)
             /\ RollbackValid(RollbackReceipt("source_outage", 0, 0)),
     stale_snapshot |->
         SnapshotBuilds(TestSource, TestBody) /\ Stale(TestSnapshot, TestSource.ttl + 1),
     malformed_payload |->
         SpecValid(TestSource) /\ ~Normalizes([TestBody EXCEPT !.wellFormed = FALSE]),
     replay_hash_mismatch |->
         SnapshotBuilds(TestSource, TestBody)
             /\ TestSnapshot.raw # [TestBody EXCEPT !.bytes = @ + 8],
     non_public_dns |->
         HostAndPortValid(TestSource) /\ ~Accepted({Loopback}),
     dns_address_drift |->
         /\ ReceiptBuilds(TestSource, {First})
         /\ ~ReceiptCurrent(Receipt(TestSource, "commit", {First}), TestSource, {Second})]

Cases == DOMAIN Passed
None0 == [c \in Cases |-> 0]

Init ==
    /\ status = "idle" /\ cycles = 0 /\ block = Cases
    /\ counts = None0 /\ passes = None0 /\ verdict = "none"

\* Mutated form: one cycle too few is allowed.
Begin_TooShort(n) ==
    /\ status = "idle" /\ n + 1 >= Cardinality(Cases)
    /\ status' = "running" /\ cycles' = n
    /\ UNCHANGED <<block, counts, passes, verdict>>

\* The output directory is made, and the cycles are enough for one block.
Begin(n) ==
    /\ status = "idle" /\ n >= Cardinality(Cases)
    /\ status' = "running" /\ cycles' = n
    /\ UNCHANGED <<block, counts, passes, verdict>>

Refused(n) ==
    /\ status = "idle" /\ n < Cardinality(Cases)
    /\ status' = "refused"
    /\ UNCHANGED <<cycles, block, counts, passes, verdict>>

\* The next case of the shuffled block.
RunCase(c) ==
    /\ status = "running" /\ cycles > 0 /\ c \in block
    /\ cycles' = cycles - 1
    /\ block' = IF block = {c} THEN Cases ELSE block \ {c}
    /\ counts' = [counts EXCEPT ![c] = @ + 1]
    /\ passes' = IF Passed[c] THEN [passes EXCEPT ![c] = @ + 1] ELSE passes
    /\ UNCHANGED <<status, verdict>>

\* build_summary.
Summarize ==
    /\ status = "running" /\ cycles = 0
    /\ status' = "done"
    /\ verdict' = IF \A c \in Cases : counts[c] > 0 /\ passes[c] = counts[c] THEN "ok" ELSE "failed"
    /\ UNCHANGED <<cycles, block, counts, passes>>

Next ==
    \/ \E n \in 0 .. MaxCycles : Begin(n) \/ Refused(n)
    \/ \E c \in Cases : RunCase(c)
    \/ Summarize

Spec == Init /\ [][Next]_vars

-----------------------------------------------------------------------------
\* However its blocks are shuffled and its last block is cut off, a campaign
\* that ends has exercised all nine cases, and the checks answered each of them.
CampaignPasses == status = "done" => verdict = "ok"
=============================================================================
