-------------------------- MODULE EvidenceConvergence --------------------------
(***************************************************************************)
(* The charity target contract (eve_q/gate1a1_charity_target.py) and the    *)
(* convergence of the Gate 1A.1 evidence                                    *)
(* (eve_q/gate1a1_evidence_convergence.py).  An operator drafts the         *)
(* contract, has its receipt built, assembles the evidence bundle by hand   *)
(* and has a decision receipt written: a JSON file, then a text.            *)
(***************************************************************************)
EXTENDS Integers

CONSTANTS
    EvidenceBundles,    \* bundles: [missing, decision, sources, flags, escaped, value]
    Contracts,          \* charity contracts: [broken, interval, estimate, sealed]
    MaxDrafts           \* bound: contracts drafted

VARIABLES
    evidence,         \* the evidence bundle
    contract,       \* the charity contract
    charity,        \* its receipt: the contract and status
    charityCopied,  \* the receipt the charity section was copied from
    certificate,    \* decision-receipt.json
    certificateText,\* decision-receipt.txt
    certifying,     \* the JSON is written and the text is not
    drafts          \* bound

vars == <<evidence, contract, charity, charityCopied, certificate, certificateText, certifying, drafts>>

-----------------------------------------------------------------------------
\* What the sections of a bundle state, requirement by requirement; "missing"
\* holds those a bundle does not state.
BenchmarkRequirements == {"exact_pair_present", "same_qubo_hash", "assumptions_identical",
    "solver_versions_recorded", "resource_usage_recorded", "repeated_seed_stability_evaluated",
    "verifier_agreement"}
RustRequirements == {"source_commit_present", "build_command_present", "toolchain_pinned",
    "package_origin_recorded", "binary_hash_verified", "target_triple_recorded", "clean_tree",
    "schema_versions_match", "deterministic_replay"}
EconomicsRequirements == {"complete", "units_explicit", "frictions_included"}
RollbackRequirements == {"kill_switch_ready", "rollback_replay_passed"}
OtherRequirements == {"required_mutations_complete"}
SourceFlags == {"material_disagreement", "shared_provenance_concentration", "stale_evidence",
    "unit_ambiguity", "missing_or_expired_review"}

\* The clauses of the charity contract that validate_contract reads.
ContractClauses == {"locks", "pipeline", "no_transfer", "no_outcome", "model_only", "no_causal_claim",
    "no_data", "human_review_pending", "no_reward", "no_transfer_posture"}

ConvergenceAssumption ==
    /\ MaxDrafts \in Nat
    /\ \A b \in EvidenceBundles :
         /\ b.missing \subseteq BenchmarkRequirements \cup RustRequirements \cup EconomicsRequirements
                              \cup RollbackRequirements \cup OtherRequirements
         /\ b.flags \subseteq SourceFlags
         /\ b.sources \in Nat /\ b.escaped \in Nat
    /\ \A c \in Contracts :
         /\ c.broken \subseteq ContractClauses
         /\ c.interval[1] \in Int /\ c.interval[2] \in Int /\ c.estimate \in Int

\* Mutated form: only the lower end of the interval is compared.
ContractValid_Lower(c) == c.broken = {} /\ c.sealed /\ c.interval[1] <= c.estimate

\* validate_contract.
ContractValid(c) ==
    /\ c.broken = {} /\ c.sealed
    /\ c.interval[1] <= c.estimate /\ c.estimate <= c.interval[2]

\* _rust_reproducible and _rollback_ready.
Reproducible(b) == b.missing \cap RustRequirements = {}
RollbackReady(b) == b.missing \cap RollbackRequirements = {}

\* collect_hold_reasons: one reason for each requirement and flag.
Holds(b) ==
    b.missing \cup b.flags
    \cup (IF b.decision # "ACCEPT_OBSERVATION_ONLY" THEN {b.decision} ELSE {})
    \cup (IF b.sources < 2 THEN {"HOLD_SOURCE_QUORUM"} ELSE {})
    \cup (IF b.escaped > 0 THEN {"HOLD_VIV_CRITICAL_ESCAPE"} ELSE {})
    \cup (IF ~b.charity THEN {"HOLD_CHARITY_TARGET_CONTRACT"} ELSE {})

\* decide.
Decide(b) ==
    IF Holds(b) # {} THEN "HOLD" ELSE IF b.value THEN "READY_FOR_GATE1B_REVIEW" ELSE "QAOA_RESEARCH_ONLY"

\* The sections of _compact_report, and those that read clear.
Sections == {"source_quorum", "freshness", "economics", "classical_baseline", "qaoa", "rust",
             "adversarial", "charity", "rollback"}
ClearSections(b) ==
    {x \in Sections :
        CASE x = "source_quorum" -> b.decision = "ACCEPT_OBSERVATION_ONLY"
          [] x = "freshness" -> "stale_evidence" \notin b.flags
          [] x = "economics" -> "complete" \notin b.missing
          [] x = "classical_baseline" -> "exact_pair_present" \notin b.missing
          [] x = "qaoa" -> b.value
          [] x = "rust" -> Reproducible(b)
          [] x = "adversarial" -> b.escaped = 0
          [] x = "charity" -> b.charity
          [] x = "rollback" -> RollbackReady(b)}

\* build_receipt; its hash covers everything but the time.
Certificate(b, from) ==
    [evidence |-> b, from |-> from, decision |-> Decide(b), holds |-> Holds(b), clear |-> ClearSections(b)]

NoCertificate == [decision |-> ""]
NoReceipt == [status |-> "", contract |-> [broken |-> {}]]

-----------------------------------------------------------------------------
\* A bundle before its charity section is filled in.
WithCharity(b, complete) ==
    [missing |-> b.missing, decision |-> b.decision, sources |-> b.sources, flags |-> b.flags,
     escaped |-> b.escaped, value |-> b.value, charity |-> complete]

Init ==
    /\ contract \in Contracts /\ charity = NoReceipt /\ charityCopied = NoReceipt
    /\ evidence \in {WithCharity(b, FALSE) : b \in EvidenceBundles}
    /\ certificate = NoCertificate /\ certificateText = NoCertificate
    /\ certifying = FALSE /\ drafts = 0

\* The operator drafts another contract,
Draft(c) ==
    /\ drafts < MaxDrafts /\ c # contract
    /\ contract' = c /\ drafts' = drafts + 1
    /\ UNCHANGED <<evidence, charity, charityCopied, certificate, certificateText, certifying>>

\* and has it checked: build_receipt writes a receipt of every contract.
Review ==
    /\ charity' = [contract |-> contract,
                   status |-> IF ContractValid(contract) THEN "SIMULATION_ONLY_CONTRACT_COMPLETE"
                              ELSE "HOLD_CHARITY_TARGET_CONTRACT"]
    /\ UNCHANGED <<evidence, contract, charityCopied, certificate, certificateText, certifying, drafts>>

\* The operator fills in the charity section from the receipt.
CopyCharity ==
    /\ charity # NoReceipt /\ ~certifying
    /\ evidence' = [evidence EXCEPT !.charity = (charity.status = "SIMULATION_ONLY_CONTRACT_COMPLETE")]
    /\ charityCopied' = charity
    /\ UNCHANGED <<contract, charity, certificate, certificateText, certifying, drafts>>

\* main: decide and write the receipt over an earlier one,
Converge ==
    /\ ~certifying
    /\ certificate' = Certificate(evidence, charityCopied)
    /\ certifying' = TRUE
    /\ UNCHANGED <<evidence, contract, charity, charityCopied, certificateText, drafts>>

\* then the text, unless its write fails.
WriteText ==
    /\ certifying /\ certifying' = FALSE
    /\ certificateText' \in {certificate, certificateText}
    /\ UNCHANGED <<evidence, contract, charity, charityCopied, certificate, drafts>>

Next ==
    \/ \E c \in Contracts : Draft(c)
    \/ Review \/ CopyCharity \/ Converge \/ WriteText

-----------------------------------------------------------------------------
\* READY is earned: every requirement of the Decision Law is stated, no source
\* is in doubt, nothing escaped, and the charity contract that the section was
\* copied from is valid with its estimate inside its interval, whatever was
\* drafted since; and every section of the receipt reads clear.
ReadyEarned ==
    certificate # NoCertificate /\ certificate.decision = "READY_FOR_GATE1B_REVIEW" =>
        LET b == certificate.evidence c == certificate.from.contract IN
        /\ b.missing = {} /\ b.flags = {} /\ b.escaped = 0 /\ b.sources >= 2
        /\ b.decision = "ACCEPT_OBSERVATION_ONLY" /\ b.value
        /\ c.broken = {} /\ c.sealed /\ c.estimate \in c.interval[1] .. c.interval[2]
        /\ certificate.clear = Sections
=============================================================================
