----------------------------- MODULE SoakCampaign -----------------------------
(***************************************************************************)
(* The fixed-count Sepolia campaign (eve_q/sepolia_soak_campaign.py).      *)
(*                                                                         *)
(* run_fixed_count_soak takes Count captures one after the other: check    *)
(* the environment (pilot flag, kill switch, credential names) and the     *)
(* expiry of the source review, call the adapter, validate, write a        *)
(* directory of four files.  The first failure writes a rollback receipt   *)
(* and ends the loop.  Then every directory under "captures" is read back, *)
(* and a summary is written.                                               *)
(*                                                                         *)
(* Meanwhile the operator may change the environment, the review may       *)
(* expire, and a stored bundle may be altered.  Any write may fail and the *)
(* process may die.                                                        *)
(***************************************************************************)
EXTENDS Naturals, FiniteSets

CONSTANTS
    Count,          \* CAPTURE_COUNT
    MaxFaults,      \* bound: failed writes, altered bundles and crashes
    MaxSwitches     \* bound: changes of the environment

CampaignAssumption ==
    Count \in Nat \ {0} /\ MaxFaults \in Nat /\ MaxSwitches \in Nat

Captures == 0 .. (Count - 1)
NoRollback == "none"

\* The environment, as far as the checks tell it apart.
Environments == {"clear", "no_pilot", "kill_switch", "credential"}

\* What the adapter can come back with: evidence, or an exception.
Evidence == {"sound", "stale", "mismatch", "authority"}
Failures == {"source_outage", "resolution", "other"}

VARIABLES
    inputs,     \* the registry, source and schedule pass validate_campaign_inputs
    expired,    \* the source review has expired
    env,        \* the environment
    switches,   \* changes of env so far
    faults,     \* faults so far
    pc,         \* where the runner is
    index,      \* the capture of the loop, or the directory replayed next
    evidence,   \* what the adapter returned
    bundle,     \* per capture: "none", "partial", "whole" or "altered"
    accepted,   \* captures recorded ACCEPTED_OBSERVATION_ONLY
    rollback,   \* per capture: the trigger of its rollback receipt
    replayed,   \* captures found valid by the replay
    summary,    \* the summary file, or NoSummary
    late        \* history: requests sent since the kill switch was set

world == <<inputs, expired, env, switches>>
vars == <<world, faults, pc, index, evidence, bundle, accepted, rollback, replayed,
          summary, late>>

NoSummary == [status |-> "none", all_replayed |-> FALSE]

\* validate_campaign_inputs.
InputsValid == inputs /\ ~expired

Init ==
    /\ inputs \in BOOLEAN /\ expired \in BOOLEAN /\ env \in Environments
    /\ switches = 0 /\ faults = 0
    /\ pc = "start" /\ index = 0 /\ evidence = "none"
    /\ bundle = [i \in Captures |-> "none"] /\ accepted = {}
    /\ rollback = [i \in Captures |-> NoRollback]
    /\ replayed = {} /\ summary = NoSummary /\ late = 0

\* The operator changes the environment, or the review expires.
Switch(e) ==
    /\ switches < MaxSwitches /\ switches' = switches + 1 /\ e # env
    /\ env' = e /\ late' = 0
    /\ UNCHANGED <<inputs, expired, faults, pc, index, evidence, bundle, accepted,
                   rollback, replayed, summary>>

Expire ==
    /\ ~expired /\ expired' = TRUE
    /\ UNCHANGED <<inputs, env, switches, faults, pc, index, evidence, bundle,
                   accepted, rollback, replayed, summary, late>>

\* A stored bundle is altered on disk.
Tamper(i) ==
    /\ faults < MaxFaults /\ faults' = faults + 1
    /\ bundle[i] = "whole" /\ bundle' = [bundle EXCEPT ![i] = "altered"]
    /\ UNCHANGED <<world, pc, index, evidence, accepted, rollback, replayed, summary,
                   late>>

Start ==
    /\ pc = "start"
    /\ pc' = IF InputsValid THEN "check" ELSE "raised"
    /\ UNCHANGED <<world, faults, index, evidence, bundle, accepted, rollback,
                   replayed, summary, late>>

\* _rollback_trigger; the receipt it names is written and the loop ends.
RollBack(trigger) ==
    /\ rollback' = [rollback EXCEPT ![index] = trigger]
    /\ pc' = "replay" /\ index' = 0
    /\ UNCHANGED <<world, faults, evidence, accepted, replayed, summary, late>>

\* _require_campaign_environment, then the expiry of the review.
CheckFails ==
    /\ pc = "check" /\ (env # "clear" \/ expired)
    /\ RollBack(CASE env = "kill_switch" -> "kill_switch"
                  [] OTHER -> "operator_abort")
    /\ UNCHANGED bundle

Check ==
    /\ pc = "check" /\ env = "clear" /\ ~expired
    /\ pc' = "ready"
    /\ UNCHANGED <<world, faults, index, evidence, bundle, accepted, rollback,
                   replayed, summary, late>>

\* The adapter is called with the environment that was checked.
Request ==
    /\ pc = "ready"
    /\ pc' = "request"
    /\ late' = IF env = "kill_switch" THEN late + 1 ELSE late
    /\ UNCHANGED <<world, faults, index, evidence, bundle, accepted, rollback,
                   replayed, summary>>

AdapterReturns(e) ==
    /\ pc = "request"
    /\ evidence' = e /\ pc' = "validate"
    /\ UNCHANGED <<world, faults, index, bundle, accepted, rollback, replayed,
                   summary, late>>

AdapterFails(f) ==
    /\ pc = "request"
    /\ RollBack(CASE f = "resolution" -> "dns_policy_failure"
                  [] f = "source_outage" -> "source_outage"
                  [] OTHER -> "operator_abort")
    /\ UNCHANGED bundle

\* _validate_capture.
CaptureValid == evidence = "sound"

\* Mutated form: the bundle is written before it is validated.
Refuse_Persisted ==
    /\ pc = "validate" /\ ~CaptureValid
    /\ RollBack("operator_abort")
    /\ bundle' = [bundle EXCEPT ![index] = IF evidence = "stale" THEN "whole" ELSE "altered"]

Refuse ==
    /\ pc = "validate" /\ ~CaptureValid
    /\ RollBack("operator_abort")
    /\ UNCHANGED bundle

\* _persist_capture succeeds, the record is accepted, and the loop sleeps and
\* goes on or ends.
Accept ==
    /\ pc = "validate" /\ CaptureValid
    /\ bundle' = [bundle EXCEPT ![index] = "whole"]
    /\ accepted' = accepted \cup {index}
    /\ IF index + 1 < Count
       THEN index' = index + 1 /\ pc' = "check"
       ELSE index' = 0 /\ pc' = "replay"
    /\ UNCHANGED <<world, faults, evidence, rollback, replayed, summary, late>>

\* _persist_capture fails on one of the four files: the directory stays.
PersistFails ==
    /\ pc = "validate" /\ CaptureValid
    /\ faults < MaxFaults /\ faults' = faults + 1
    /\ bundle' = [bundle EXCEPT ![index] = "partial"]
    /\ rollback' = [rollback EXCEPT ![index] = "operator_abort"]
    /\ pc' = "replay" /\ index' = 0
    /\ UNCHANGED <<world, evidence, accepted, replayed, summary, late>>

\* _replay_corpus reads one directory; a missing file raises.
ReplayOne ==
    /\ pc = "replay" /\ index \in Captures
    /\ bundle[index] # "partial"
    /\ replayed' = IF bundle[index] = "whole" THEN replayed \cup {index} ELSE replayed
    /\ index' = index + 1
    /\ UNCHANGED <<world, faults, pc, evidence, bundle, accepted, rollback, summary, late>>

ReplayRaises ==
    /\ pc = "replay" /\ index \in Captures /\ bundle[index] = "partial"
    /\ pc' = "raised"
    /\ UNCHANGED <<world, faults, index, evidence, bundle, accepted, rollback,
                   replayed, summary, late>>

Rollbacks == {i \in Captures : rollback[i] # NoRollback}

\* Mutated form: the replay is not part of the verdict.
Passed_NoReplay ==
    Cardinality(accepted) = Count /\ Rollbacks = {}

\* Mutated form: the verdict is that of the replay alone.
Passed_ReplayOnly ==
    Cardinality(replayed) = Cardinality(accepted)

Passed ==
    /\ Cardinality(accepted) = Count /\ Rollbacks = {}
    /\ Cardinality(replayed) = Cardinality(accepted)

WriteSummary ==
    /\ pc = "replay" /\ index = Count
    /\ summary' = [status |-> IF Passed THEN "PASS" ELSE "HOLD",
                   all_replayed |-> Cardinality(replayed) = Cardinality(accepted)]
    /\ pc' = "done"
    /\ UNCHANGED <<world, faults, index, evidence, bundle, accepted, rollback,
                   replayed, late>>

\* How a run ends: with its summary, with an exception of its own, with one
\* that a receipt or summary it could not write caused, or by dying.
Ended == {"done", "raised", "unwritten", "died"}

\* Another write fails and the exception ends the run: the receipt of the
\* rollback under way or the summary is missing.
WriteRaises ==
    /\ faults < MaxFaults /\ faults' = faults + 1
    /\ \/ pc = "check" /\ (env # "clear" \/ expired)
       \/ pc = "validate" /\ ~CaptureValid
       \/ pc = "request"
       \/ pc = "replay" /\ index = Count
    /\ pc' = "unwritten"
    /\ UNCHANGED <<world, index, evidence, bundle, accepted, rollback, replayed,
                   summary, late>>

\* The process dies; the capture being written stays incomplete.
Crash ==
    /\ pc \notin Ended
    /\ faults < MaxFaults /\ faults' = faults + 1
    /\ pc' = "died"
    /\ \/ UNCHANGED bundle
       \/ /\ pc = "validate" /\ CaptureValid
          /\ bundle' = [bundle EXCEPT ![index] = "partial"]
    /\ UNCHANGED <<world, index, evidence, accepted, rollback, replayed, summary, late>>

Step ==
    \/ Start \/ CheckFails \/ Check \/ Request
    \/ \E e \in Evidence : AdapterReturns(e)
    \/ \E f \in Failures : AdapterFails(f)
    \/ Refuse \/ Accept \/ PersistFails
    \/ ReplayOne \/ ReplayRaises \/ WriteSummary \/ WriteRaises

Next ==
    \/ Step
    \/ \E e \in Environments : Switch(e)
    \/ Expire \/ (\E i \in Captures : Tamper(i)) \/ Crash

Spec == Init /\ [][Next]_vars

-----------------------------------------------------------------------------
\* PASS: all captures were accepted, each bundle was intact when the corpus was
\* read back, and nothing was rolled back, whatever was altered, switched or
\* failed in between.
PassIsEarned ==
    summary.status = "PASS" =>
        accepted = Captures /\ replayed = Captures /\ Rollbacks = {}

\* all_accepted_snapshots_replayed compares two counts; it is nevertheless
\* true only if the accepted captures are exactly those that replayed.
ReplayClaimTrue == summary.all_replayed => replayed = accepted

\* A campaign stops at its first failure: the captures before a rollback were
\* all accepted, and nothing exists from it on.
StopsAtFirstFailure ==
    \A i \in Rollbacks : accepted = 0 .. (i - 1) /\ \A j \in Captures : j > i =>
                             bundle[j] = "none" /\ rollback[j] = NoRollback

\* Once the kill switch is set at most one more request is sent, the one whose
\* check had already passed.
KillSwitchStops == late <= 1

\* The campaign document: "The campaign returns HOLD when any attempt fails",
\* so a failed attempt with its rollback receipt ends in a HOLD summary unless
\* the process died or the receipt or summary could not be written.
FailureReturnsHold ==
    Rollbacks # {} => pc # "raised"

\* The promise, with the captures counted and the two ways of not passing
\* (a HOLD summary, an exception or the death of the process) both a HOLD.
Promise == INSTANCE BoundedRun WITH
    accepted <- Cardinality(accepted),
    verdict <- IF summary.status = "PASS" THEN "PASS"
               ELSE IF pc \in Ended THEN "HOLD" ELSE "open"

\* The campaign keeps the promise of a fixed-count run.
KeepsPromise == Promise!Spec
=============================================================================
