---------------------------- MODULE CaptureLaunch ----------------------------
(***************************************************************************)
(* The launcher scripts of a pilot capture                                  *)
(* (scripts/run_gate1_read_only_capture_v0_1.sh and _v0_2.sh): preflight of *)
(* the name, capture, offline replay, and verification of the resolution    *)
(* receipt, each a process of its own, with a rollback receipt when one     *)
(* fails.  Launches share one run directory: those of one script when they  *)
(* start in the same second, any when RUN_ROOT and RUN_ID are given.  The   *)
(* answers of the resolver change between any two steps.  A launch that     *)
(* dies takes no more steps.                                                *)
(***************************************************************************)
EXTENDS Gate1Documents

CONSTANTS
    Launches,       \* launches into one run directory
    Source,         \* the source spec
    Bodies,         \* responses of the source
    ProducerCommit, \* PRODUCER_COMMIT
    MaxMoves        \* bound: changes of the resolver's answer

LaunchAssumption == MaxMoves \in Nat

\* What the environment of a script makes of it, first match first.
Switches == {"clear", "kill_switch", "pilot_off", "write_secret"}

VARIABLES
    version,        \* which of the two scripts each launch runs
    at,             \* where each launch is, or how it ended
    dns,            \* the resolver's answer for the host, {} when it fails
    moves,          \* bound: how often it changed
    receipt,        \* resolution_receipt.json: [by, document]
    makers,         \* launches whose call put the snapshot directory there; {}: it does not exist
    bundle,         \* the files in it: name -> [by, body], where a torn one has no body
    captured,       \* the response that each capture process has in memory
    payload,        \* rollback_receipt.json: the trigger
    reason,         \* trigger of the launch that is rolling back
    contacted,      \* history: the address each capture connected to
    moved           \* history: changes of the answer from a launch's preflight to its end

bundleVars == <<makers, bundle, captured>>
directoryVars == <<makers, bundle>>
vars == <<version, at, dns, moves, receipt, bundleVars, payload, reason, contacted, moved>>

\* The files of a bundle, which v0.1 writes one by one, in this order.
Files == {"raw", "normalized", "snapshot"}

Over == {"pass", "rolled_back", "stopped", "escaped"}

Init ==
    /\ version \in [Launches -> {"v0_1", "v0_2"}]
    /\ at = [p \in Launches |-> "start"]
    /\ dns \in SUBSET Addresses /\ moves = 0
    /\ receipt = None /\ payload = ""
    /\ makers = {} /\ bundle = << >> /\ captured = [p \in Launches |-> None]
    /\ reason = [p \in Launches |-> ""]
    /\ contacted = [p \in Launches |-> None]
    /\ moved = [p \in Launches |-> 0]

Goto(p, where) == at' = [at EXCEPT ![p] = where]

Keeps(p, body) == captured' = [captured EXCEPT ![p] = body]

\* The process that failed is gone, and with it what it had in memory.
RollsBack(p, t) ==
    /\ Goto(p, "rollback") /\ reason' = [reason EXCEPT ![p] = t]
    /\ Keeps(p, None)
    /\ contacted' = [contacted EXCEPT ![p] = None] /\ moved' = [moved EXCEPT ![p] = 0]

GoesOn(p, where) == Goto(p, where) /\ UNCHANGED <<reason, captured, contacted, moved>>

-----------------------------------------------------------------------------
\* From a launch's preflight to its end.
Running == {"capture", "capture_secret", "fetched", "staged", "replay", "verify"} \cup Files

\* The resolver changes its answer.
Move(answer) ==
    /\ moves < MaxMoves /\ answer # dns
    /\ dns' = answer /\ moves' = moves + 1
    /\ moved' = [p \in Launches |->
                    IF at[p] \in Running /\ moved[p] < MaxMoves THEN moved[p] + 1 ELSE moved[p]]
    /\ UNCHANGED <<at, receipt, bundleVars, payload, reason, contacted>>

\* The two switches that the script itself reads.
Launch(p, environment) ==
    /\ at[p] = "start"
    /\ IF environment = "kill_switch" THEN RollsBack(p, "kill_switch")
       ELSE GoesOn(p, CASE environment = "pilot_off" -> "stopped"
                        [] environment = "write_secret" -> "preflight_secret"
                        [] OTHER -> "preflight")
    /\ UNCHANGED <<dns, moves, receipt, directoryVars, payload>>

Preflighting == {"preflight", "preflight_secret"}

\* gate1_hardening --preflight-source writes the receipt, over any that is there.
Preflight(p) ==
    /\ at[p] \in Preflighting /\ ReceiptBuilds(Source, dns)
    /\ receipt' = [by |-> p, document |-> Receipt(Source, ProducerCommit, dns)]
    /\ moved' = [moved EXCEPT ![p] = 0]
    /\ Goto(p, IF at[p] = "preflight" THEN "capture" ELSE "capture_secret")
    /\ UNCHANGED <<dns, moves, bundleVars, payload, reason, contacted>>

PreflightFails(p) ==
    /\ at[p] \in Preflighting /\ ~ReceiptBuilds(Source, dns)
    /\ RollsBack(p, "dns_policy_failure")
    /\ UNCHANGED <<dns, moves, receipt, directoryVars, payload>>

\* The capture resolves the name again.  v0.1 connects to any address of the
\* answer and follows redirects to other allowlisted hosts, which leave no
\* record; v0.2 connects to an address of an answer it accepts.
Contact(p, a) ==
    /\ at[p] = "capture" /\ a \in dns
    /\ version[p] = "v0_2" => Accepted(dns)
    /\ contacted' = [contacted EXCEPT ![p] = a]
    /\ Goto(p, "fetched")
    /\ UNCHANGED <<dns, moves, receipt, bundleVars, payload, reason, moved>>

\* A write-capable secret, a failed exchange, a refused body, or a directory that exists.
CaptureFails(p) ==
    /\ at[p] \in {"capture", "capture_secret", "fetched"}
    /\ RollsBack(p, "source_outage")
    /\ UNCHANGED <<dns, moves, receipt, directoryVars, payload>>

-----------------------------------------------------------------------------
AfterFile(file) == CASE file = "raw" -> "normalized" [] file = "normalized" -> "snapshot" [] OTHER -> "replay"

\* write_snapshot_bundle of v0.1 makes the directory, which must not exist.
MakeDirectory(p, body) ==
    /\ at[p] = "fetched" /\ version[p] = "v0_1" /\ SnapshotBuilds(Source, body)
    /\ makers = {} /\ makers' = {p} /\ bundle' = << >>
    /\ Keeps(p, body) /\ Goto(p, "raw")
    /\ UNCHANGED <<dns, moves, receipt, payload, reason, contacted, moved>>

Written(file, p, body) ==
    [f \in DOMAIN bundle \cup {file} |-> IF f = file THEN [by |-> p, body |-> body] ELSE bundle[f]]

WriteFile(p) ==
    /\ at[p] \in Files
    /\ bundle' = Written(at[p], p, captured[p])
    /\ Goto(p, AfterFile(at[p]))
    /\ IF at[p] = "snapshot" THEN Keeps(p, None) ELSE UNCHANGED captured
    /\ UNCHANGED <<dns, moves, receipt, makers, payload, reason, contacted, moved>>

\* A failed write leaves the directory as it is, perhaps with a torn file.
WriteFails(p) ==
    /\ at[p] \in Files
    /\ bundle' \in {bundle, Written(at[p], p, None)}
    /\ RollsBack(p, "source_outage")
    /\ UNCHANGED <<dns, moves, receipt, makers, payload>>

\* write_snapshot_bundle_atomic of v0.2 looks for the directory and stages the files elsewhere.
Stage(p, body) ==
    /\ at[p] = "fetched" /\ version[p] = "v0_2" /\ SnapshotBuilds(Source, body)
    /\ makers = {}
    /\ Keeps(p, body) /\ Goto(p, "staged")
    /\ UNCHANGED <<dns, moves, receipt, makers, bundle, payload, reason, contacted, moved>>

\* Mutated form: the replacement takes the place of whatever is there.
Replace_Anything(p) ==
    /\ at[p] = "staged"
    /\ makers' = makers \cup {p}
    /\ bundle' = [f \in Files |-> [by |-> p, body |-> captured[p]]]
    /\ Keeps(p, None) /\ Goto(p, "replay")
    /\ UNCHANGED <<dns, moves, receipt, payload, reason, contacted, moved>>

\* os.replace takes the place of no directory, or of an empty one.
Replace(p) ==
    /\ at[p] = "staged" /\ DOMAIN bundle = {}
    /\ makers' = makers \cup {p}
    /\ bundle' = [f \in Files |-> [by |-> p, body |-> captured[p]]]
    /\ Keeps(p, None) /\ Goto(p, "replay")
    /\ UNCHANGED <<dns, moves, receipt, payload, reason, contacted, moved>>

\* A failed write, or a directory that is no longer empty: the staged files are removed.
StageFails(p) ==
    /\ at[p] = "staged"
    /\ RollsBack(p, "source_outage")
    /\ UNCHANGED <<dns, moves, receipt, directoryVars, payload>>

\* Whether the files there are a bundle of p's script whose hashes, read back, are
\* those that its snapshot names.
Replays(p) ==
    /\ DOMAIN bundle = Files /\ \A f \in Files : bundle[f].body # None
    /\ version[bundle["snapshot"].by] = version[p]
    /\ bundle["raw"].body = bundle["snapshot"].body
    /\ ReadBack(Normalized(bundle["normalized"].body)) = Normalized(bundle["snapshot"].body)

\* v0.2 replays with --require-fresh.  A file that another launch is writing may be
\* read in part.
Replay(p, late, torn) ==
    /\ at[p] = "replay"
    /\ torn => \E q \in Launches \ {p} : at[q] \in Files
    /\ IF Replays(p) /\ ~torn /\ (version[p] = "v0_2" => ~late)
       THEN GoesOn(p, "verify")
       ELSE RollsBack(p, "operator_abort")
    /\ UNCHANGED <<dns, moves, receipt, directoryVars, payload>>

\* The receipt on disk, whoever wrote it or is writing it, against the resolver as it is now.
Verify(p, torn) ==
    /\ at[p] = "verify"
    /\ torn => \E q \in Launches \ {p} : at[q] \in Preflighting
    /\ IF ReceiptCurrent(receipt.document, Source, dns) /\ ~torn
       THEN GoesOn(p, "pass")
       ELSE RollsBack(p, "dns_policy_failure")
    /\ UNCHANGED <<dns, moves, receipt, directoryVars, payload>>

-----------------------------------------------------------------------------
\* write_rollback writes the payload and validates it; under "set -e" a failure
\* of either ends the script.
WriteRollback(p) ==
    /\ at[p] = "rollback"
    /\ \/ RollbackBuilds(reason[p], 0, 0) /\ payload' = reason[p] /\ Goto(p, "rolled_back")
       \/ UNCHANGED payload /\ Goto(p, "escaped")
    /\ UNCHANGED <<dns, moves, receipt, bundleVars, reason, contacted, moved>>

Next ==
    /\ UNCHANGED version
    /\ \/ \E answer \in SUBSET Addresses : Move(answer)
       \/ \E p \in Launches :
           \/ \E e \in Switches : Launch(p, e)
           \/ Preflight(p) \/ PreflightFails(p)
           \/ \E a \in Addresses : Contact(p, a)
           \/ CaptureFails(p)
           \/ \E body \in Bodies : MakeDirectory(p, body) \/ Stage(p, body)
           \/ WriteFile(p) \/ WriteFails(p) \/ Replace(p) \/ StageFails(p)
           \/ \E late, torn \in BOOLEAN : Replay(p, late, torn)
           \/ \E torn \in BOOLEAN : Verify(p, torn)
           \/ WriteRollback(p)

Spec == Init /\ [][Next]_vars

-----------------------------------------------------------------------------
\* A launch that passed saw one answer: unless the resolver changed its answer
\* and changed it back, or another launch wrote over the receipt, the address
\* the capture connected to is one the receipt records, and global.
DriftCaught ==
    \A p \in Launches :
        at[p] = "pass" /\ receipt.by = p /\ moved[p] < 2 =>
            contacted[p] \in receipt.document.addresses \cap Public

\* The bundle on disk is the one that p captured, and replays.
Owns(p) == Replays(p) /\ \A f \in Files : bundle[f].by = p

\* Of the launches of one script into one run directory at most one passes.  The
\* bundle there is and stays the one that it captured and replayed: under v0.1 in
\* any case, under v0.2 unless a launch of v0.1 made the directory as well, which
\* v0.2 had then found missing when it looked and empty when it replaced it.
PassOwnsBundle ==
    /\ \A p, q \in Launches : at[p] = "pass" /\ at[q] = "pass" /\ version[p] = version[q] => p = q
    /\ \A p \in Launches :
         at[p] = "pass" => \/ Owns(p)
                           \/ version[p] = "v0_2" /\ \E q \in makers : version[q] = "v0_1"

\* EVE_Q_GATE1_CLOSURE_THREAT_MODEL_v0_1.md: "Accepted captures remain immutable
\* and deterministically replayable".
AcceptedStays == \A p \in Launches : at[p] = "pass" => Owns(p)
=============================================================================
