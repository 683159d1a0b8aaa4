----------------------------- MODULE BoundedSoak -----------------------------
(***************************************************************************)
(* A bounded soak (eve_q/gate1_soak_scaffold.py) under the runner that      *)
(* checks its rollback payloads (gate1_soak_runner.py).  An operator builds *)
(* a source review and a plan, may edit either by hand or build it anew,    *)
(* and runs the plan: one capture at a time, stopping at the first failure. *)
(* The pilot switches change while it runs, the injected adapter raises or  *)
(* returns anything, file writes fail and the process may die.              *)
(***************************************************************************)
EXTENDS Gate1Documents

CONSTANTS
    Candidates,     \* review candidates
    Bundles,        \* what the adapter can return: [snapshot, raw, normalized, receipt]
    Commit,         \* producer_commit of the plan
    CaptureCount,   \* the capture count the operator plans with
    Interval,       \* and the interval
    MaxChanges      \* bound: changes of the pilot switches

SoakAssumption ==
    /\ None \notin Bundles
    /\ CaptureCount \in 1 .. MaxCaptures /\ Interval \in 0 .. MaxInterval /\ MaxChanges \in Nat

\* The first refusal of enforce_pilot_preflight, if any.
Environments == {"clear", "kill_switch", "pilot_off", "write_secret"}

CaptureFiles == <<"snapshot.json", "raw.bin", "normalized.bin", "resolution_receipt.json">>
Written(n) == {CaptureFiles[i] : i \in 1 .. n}
AllFiles == Written(4)
Indices == 0 .. CaptureCount - 1

VARIABLES
    review, plan,   \* the documents on disk
    pc,             \* where the run is, or how it ended
    dir,            \* the output directory exists
    held,           \* the bundle being captured
    stored,         \* the files of each capture directory
    taken,          \* the bundle those files are from
    accepted,       \* records with ACCEPTED_OBSERVATION_ONLY
    trigger,        \* trigger of the failure being rolled back
    rollback,       \* the rollback payload on disk
    summary,        \* summary.json
    environment,    \* the switches of the pilot
    changes         \* bound: how often they changed

documents == <<review, plan>>
files == <<dir, stored, taken, rollback, summary>>
switches == <<environment, changes>>
run == <<pc, held, accepted, trigger>>
vars == <<documents, files, switches, run>>

Torn == [torn |-> TRUE]     \* a file whose writing was interrupted
Ended == {"done", "refused", "escaped", "died"}

Init ==
    /\ review = None /\ plan = None
    /\ pc = "idle" /\ dir = FALSE /\ held = None
    /\ stored = [i \in Indices |-> {}] /\ taken = [i \in Indices |-> None]
    /\ accepted = 0 /\ trigger = "" /\ rollback = None /\ summary = None
    /\ environment \in Environments /\ changes = 0

-----------------------------------------------------------------------------
(* The operator.                                                           *)

BuildReview(c) ==
    /\ pc = "idle" /\ ReviewBuilds(c)
    /\ review' = Review(c)
    /\ UNCHANGED <<plan, files, switches, run>>

\* A hand-edited decision, with the artifact_id refreshed or not.
EditReview(refreshed) ==
    /\ pc = "idle" /\ review # None
    /\ review' = [review EXCEPT !.eligibility = "ELIGIBLE", !.sealed = refreshed]
    /\ UNCHANGED <<plan, files, switches, run>>

BuildPlan ==
    /\ pc = "idle" /\ RequireEligible(review)
    /\ plan' = Plan(review, CaptureCount, Interval)
    /\ UNCHANGED <<review, files, switches, run>>

EditPlan(count, refreshed) ==
    /\ pc = "idle" /\ plan # None
    /\ plan' = [plan EXCEPT !.count = count, !.sealed = refreshed]
    /\ UNCHANGED <<review, files, switches, run>>

\* The switches change under the running soak.
Switch(e) ==
    /\ changes < MaxChanges /\ e # environment
    /\ environment' = e /\ changes' = changes + 1
    /\ UNCHANGED <<documents, files, pc, held, accepted, trigger>>

-----------------------------------------------------------------------------
(* run_bounded_soak.                                                       *)

\* The plan is validated against the review and the directories are made.
Start ==
    /\ pc \in {"idle", "died"} /\ PlanValid(plan, review) /\ ~dir
    /\ pc' = "preflight" /\ dir' = TRUE
    /\ UNCHANGED <<documents, switches, stored, taken, rollback, summary, held, accepted,
                   trigger>>

\* An invalid plan, or the directory of an earlier run.
Refuse ==
    /\ pc \in {"idle", "died"} /\ plan # None /\ (~PlanValid(plan, review) \/ dir)
    /\ pc' = "refused"
    /\ UNCHANGED <<documents, files, switches, held, accepted, trigger>>

Preflight ==
    /\ pc = "preflight" /\ environment = "clear"
    /\ pc' = "adapter"
    /\ UNCHANGED <<documents, files, switches, held, accepted, trigger>>

\* An exception reaches the handler of the loop; _rollback_trigger names it.
Fails(t) ==
    /\ trigger' = t /\ pc' = "rollback" /\ held' = None
    /\ UNCHANGED <<documents, files, switches, accepted>>

PreflightFails ==
    /\ pc = "preflight" /\ environment # "clear"
    /\ Fails(IF environment = "kill_switch" THEN "kill_switch" ELSE "source_outage")

\* The injected adapter returns a bundle.
AdapterReturns(b) ==
    /\ pc = "adapter"
    /\ held' = b /\ pc' = "validate"
    /\ UNCHANGED <<documents, files, switches, accepted, trigger>>

\* It raises TelemetryBoundaryError, Gate1HardeningError or anything else.
AdapterRaises(t) ==
    /\ pc = "adapter"
    /\ Fails(t)

\* The findings of one capture: neither freshness nor drift is asked for.
CaptureValid(b, p) ==
    /\ SnapshotValid(b.snapshot, b.raw, b.normalized) /\ ReceiptValid(b.receipt)
    /\ b.snapshot.source = p.source.id /\ b.receipt.source = p.source.id
    /\ b.snapshot.commit = Commit /\ b.receipt.commit = Commit

Validate ==
    /\ pc = "validate" /\ CaptureValid(held, plan)
    /\ pc' = "persist"
    /\ taken' = [taken EXCEPT ![accepted] = held]
    /\ UNCHANGED <<documents, switches, dir, stored, rollback, summary, held, accepted,
                   trigger>>

ValidateFails ==
    /\ pc = "validate" /\ ~CaptureValid(held, plan)
    /\ Fails("operator_abort")

\* _persist_capture, file by file.
Persist(n) ==
    /\ pc = "persist" /\ stored[accepted] = Written(n - 1)
    /\ stored' = [stored EXCEPT ![accepted] = Written(n)]
    /\ UNCHANGED <<documents, switches, dir, taken, rollback, summary, run>>

PersistFails ==
    /\ pc = "persist"
    /\ Fails("operator_abort")

\* Mutated form: the record is appended before the last file is written.
Accept_Early ==
    /\ pc = "persist" /\ stored[accepted] \in {Written(3), AllFiles}
    /\ accepted' = accepted + 1 /\ held' = None
    /\ pc' = IF accepted + 1 = plan.count THEN "summarize" ELSE "preflight"
    /\ UNCHANGED <<documents, files, switches, trigger>>

\* The record of an accepted capture ends the iteration.
Accept ==
    /\ pc = "persist" /\ stored[accepted] = AllFiles
    /\ accepted' = accepted + 1 /\ held' = None
    /\ pc' = IF accepted + 1 = plan.count THEN "summarize" ELSE "preflight"
    /\ UNCHANGED <<documents, files, switches, trigger>>

\* The rollback payload is written and the loop left.
RollBack ==
    /\ pc = "rollback" /\ RollbackBuilds(trigger, accepted, accepted)
    /\ rollback' = RollbackReceipt(trigger, accepted, accepted) /\ pc' = "summarize"
    /\ UNCHANGED <<documents, dir, stored, taken, summary, switches, held, accepted, trigger>>

\* Writing it fails: the exception leaves run_bounded_soak, without a summary.
RollBackFails ==
    /\ pc = "rollback"
    /\ rollback' \in {None, Torn} /\ pc' = "escaped"
    /\ UNCHANGED <<documents, dir, stored, taken, summary, switches, held, accepted, trigger>>

Failures == IF trigger = "" THEN 0 ELSE 1

\* Mutated form: a run is ok when it stayed within its plan.
Summarize_Within ==
    /\ pc = "summarize"
    /\ summary' = [ok |-> accepted <= plan.count, accepted |-> accepted,
                   rollbacks |-> Failures, payloads |-> Failures = 0]
    /\ pc' = "reread"
    /\ UNCHANGED <<documents, dir, stored, taken, rollback, switches, held, accepted, trigger>>

\* The summary of the scaffold.
Summarize ==
    /\ pc = "summarize"
    /\ summary' = [ok |-> accepted = plan.count /\ Failures = 0, accepted |-> accepted,
                   rollbacks |-> Failures, payloads |-> Failures = 0]
    /\ pc' = "reread"
    /\ UNCHANGED <<documents, dir, stored, taken, rollback, switches, held, accepted, trigger>>

SummarizeFails ==
    /\ pc \in {"summarize", "reread"}
    /\ summary' \in {summary, Torn} /\ pc' = "escaped"
    /\ UNCHANGED <<documents, dir, stored, taken, rollback, switches, held, accepted, trigger>>

RollbackFiles == IF rollback = None THEN 0 ELSE 1

\* Mutated form: the summary of the scaffold stands.
Reread_Keeps ==
    /\ pc = "reread"
    /\ pc' = "done"
    /\ UNCHANGED <<documents, files, switches, held, accepted, trigger>>

\* The runner counts and validates the payloads on disk and rewrites the summary.
Reread ==
    /\ pc = "reread"
    /\ summary' = [summary EXCEPT !.payloads =
                       RollbackFiles = summary.rollbacks /\ (rollback # None => RollbackValid(rollback))]
    /\ pc' = "done"
    /\ UNCHANGED <<documents, dir, stored, taken, rollback, switches, held, accepted, trigger>>

\* Killed anywhere; a summary being written may be left torn.
Die(left) ==
    /\ pc \notin Ended \cup {"idle"}
    /\ left = summary \/ (left = Torn /\ pc \in {"summarize", "reread"})
    /\ summary' = left
    /\ pc' = "died"
    /\ UNCHANGED <<documents, dir, stored, taken, rollback, switches, held, accepted, trigger>>

Next ==
    \/ \E c \in Candidates : BuildReview(c)
    \/ \E b \in BOOLEAN : EditReview(b)
    \/ BuildPlan
    \/ \E n \in {0, CaptureCount, MaxCaptures + 1}, b \in BOOLEAN : EditPlan(n, b)
    \/ \E e \in Environments : Switch(e)
    \/ Start \/ Refuse
    \/ Preflight \/ PreflightFails
    \/ \E b \in Bundles : AdapterReturns(b)
    \/ \E t \in Triggers : AdapterRaises(t)
    \/ Validate \/ ValidateFails
    \/ (\E n \in 1 .. 4 : Persist(n)) \/ PersistFails \/ Accept
    \/ RollBack \/ RollBackFails
    \/ Summarize \/ SummarizeFails \/ Reread
    \/ \E left \in {summary, Torn} : Die(left)

Spec == Init /\ [][Next]_vars

-----------------------------------------------------------------------------
\* A capture directory that can be replayed against the reviewed source.
Whole(i) ==
    /\ stored[i] = AllFiles
    /\ SnapshotValid(taken[i].snapshot, taken[i].raw, taken[i].normalized)
    /\ ReceiptValid(taken[i].receipt)
    /\ taken[i].snapshot.source = review.candidate.source.id
    /\ taken[i].receipt.source = review.candidate.source.id

Complete == summary \notin {None, Torn}

\* An ok summary: the controls of the review make its source eligible, the plan
\* is about that source, each capture it asked for is whole on disk and there is
\* no rollback payload, whatever died, failed or was edited before.
OkMeansWhole ==
    Complete /\ summary.ok =>
        /\ Eligibility(review.candidate) = "ELIGIBLE" /\ SourceReviewed(review.candidate.source)
        /\ plan.source = PlannedSource(review.candidate.source)
        /\ \A i \in 0 .. plan.count - 1 : Whole(i)
        /\ rollback = None

\* A summary claims rollback payloads only when they are on disk, and the one
\* the runner leaves of a failed run does claim them.
PayloadsClaimed ==
    Complete => /\ summary.payloads => RollbackFiles = summary.rollbacks
                /\ pc = "done" /\ ~summary.ok => summary.payloads /\ RollbackFiles = 1

SummaryTrue == OkMeansWhole /\ PayloadsClaimed

Promise == INSTANCE BoundedRun WITH
    Count <- CaptureCount,
    verdict <- IF pc # "done" THEN "open" ELSE IF summary.ok THEN "PASS" ELSE "HOLD"

\* The soak accepts at most its count, passes only after all of them and
\* accepts nothing after its verdict.
SoakKeepsPromise == Promise!Spec
=============================================================================
