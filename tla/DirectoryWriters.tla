--------------------------- MODULE DirectoryWriters ---------------------------
(***************************************************************************)
(* Programs of Eve Q that write files into a directory which a later step   *)
(* or a reader takes for a record: the Gate 1 capture, the Sepolia soak     *)
(* campaign and the cross-repository ingestor.  They share nothing with     *)
(* each other: a behaviour runs one of them.                                *)
(***************************************************************************)
EXTENDS Naturals, FiniteSets, Sequences

CONSTANTS
    Procs, Urls, AllowedHosts, Addresses, Public, MaxRedirects, NoProcess,
    Count, MaxFaults, MaxSwitches,
    Sources, Listing, Receipts, MaxBatches, MaxIngestFaults

VARIABLES
    program,
    pc, url, visited, hops, pinned, payload, staging, target, requests,
    inputs, expired, env, switches, faults, runner, index, evidence, bundle, accepted, rollback, replayed,
    summary, late,
    governed, checking, strict, receipt, copies, pending, querying, outcome, approved, refused, writer,
    leftovers, batches, ingestFaults

Capture == INSTANCE ReadOnlyCapture WITH Nobody <- NoProcess
Campaign == INSTANCE SoakCampaign WITH pc <- runner
Ingestor == INSTANCE CrossRepoIngest WITH
    Order <- Listing, target <- copies, faults <- ingestFaults, MaxFaults <- MaxIngestFaults

ASSUME WritersAssumption ==
    Capture!CaptureAssumption /\ Campaign!CampaignAssumption /\ Ingestor!IngestAssumption

captureVars == <<pc, url, visited, hops, pinned, payload, staging, target, requests>>
campaignVars == <<inputs, expired, env, switches, faults, runner, index, evidence, bundle, accepted,
                  rollback, replayed, summary, late>>
ingestVars == <<governed, checking, strict, receipt, copies, pending, querying, outcome, approved, refused,
                writer, leftovers, batches, ingestFaults>>
vars == <<program, captureVars, campaignVars, ingestVars>>

\* What a program that does not run starts from is fixed.
Init ==
    /\ program \in {"capture", "campaign", "ingest"}
    /\ program = "capture" \/ url = [p \in Procs |-> CHOOSE u \in Urls : TRUE]
    /\ program = "campaign" \/ (inputs = FALSE /\ expired = FALSE /\ env = "clear")
    /\ \/ program = "ingest"
       \/ /\ governed = FALSE /\ checking = FALSE /\ strict = FALSE
          /\ receipt = [s \in Sources |-> CHOOSE r \in Receipts : TRUE]
    /\ Capture!Init /\ Campaign!Init /\ Ingestor!Init

Next ==
    /\ UNCHANGED program
    /\ \/ program = "capture" /\ Capture!Next /\ UNCHANGED <<campaignVars, ingestVars>>
       \/ program = "campaign" /\ Campaign!Next /\ UNCHANGED <<captureVars, ingestVars>>
       \/ program = "ingest" /\ Ingestor!Next /\ UNCHANGED <<captureVars, campaignVars>>

Spec == Init /\ [][Next]_vars

-----------------------------------------------------------------------------
\* The properties of the programs, as their modules state them.
OnlyPublicContacted == Capture!OnlyPublicContacted
AtomicCommit == Capture!AtomicCommit
AcceptedReplays == Capture!AcceptedReplays
PassIsEarned == Campaign!PassIsEarned
ReplayClaimTrue == Campaign!ReplayClaimTrue
KeepsPromise == Campaign!KeepsPromise
FailureReturnsHold == Campaign!FailureReturnsHold
CopiesApproved == Ingestor!CopiesApproved
FailsClosed == Ingestor!FailsClosed
=============================================================================
