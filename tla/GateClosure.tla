------------------------------ MODULE GateClosure ------------------------------
(***************************************************************************)
(* The Gate 0 to Gate 1 descent proposal (eve_q/gate_descent.py) and the    *)
(* closure packet that binds it to a threat model (eve_q/gate1_closure.py). *)
(* Operators edit both documents and refresh their hashes; the closure is   *)
(* verified, at times given on the command line, as often as anyone asks.   *)
(***************************************************************************)
EXTENDS Integers, FiniteSets

CONSTANTS
    Checks,         \* READY_CHECKS
    DraftChecks,    \* those a draft has from the start
    EvidenceTypes,  \* READY_EVIDENCE_TYPES, with "threat_model"
    Clauses,        \* what validate_threat_model asks of a threat model
    Rollbacks,      \* rollback plans and their test receipts
    Lifetime,       \* ttl_seconds of a proposal
    MaxLifetime,    \* MAX_TTL_SECONDS
    MaxClosureTime, \* bound: times of verification
    MaxEdits        \* bound: edits of the threat model

ClosureAssumption ==
    /\ DraftChecks \subseteq Checks /\ "threat_model" \in EvidenceTypes
    /\ Lifetime \in Nat /\ MaxLifetime \in Nat /\ MaxClosureTime \in Nat /\ MaxEdits \in Nat

VARIABLES
    threat,         \* the threat model: [version, satisfied, rollback, sealed]
    proposal,       \* the descent proposal
    edits,          \* bound
    verified        \* history: [proposal, threat, at] of the verifications that passed

vars == <<threat, proposal, edits, verified>>

\* The threat model's receipt hash is its content.
Receipt(t) == [version |-> t.version, satisfied |-> t.satisfied, rollback |-> t.rollback]

\* build_gate_0_to_1_draft.
DraftProposal ==
    [readiness |-> "DRAFT", eligible |-> FALSE, checks |-> DraftChecks, types |-> {}, threats |-> {},
     rollback |-> "none", tested |-> FALSE, expires |-> Lifetime, ttl |-> Lifetime,
     locked |-> TRUE, humanDecision |-> FALSE, sealed |-> TRUE]

Init ==
    /\ threat \in [version : {0}, satisfied : {Clauses} \cup {Clauses \ {c} : c \in Clauses},
                   rollback : Rollbacks, sealed : {TRUE}]
    /\ proposal = DraftProposal /\ edits = 0 /\ verified = {}

-----------------------------------------------------------------------------
\* validate_gate_descent, for a document of the expected shape.
DescentValid(p, now) ==
    /\ p.sealed /\ p.locked
    /\ p.ttl \in 1 .. MaxLifetime /\ p.expires = p.ttl /\ p.expires > now
    /\ \/ p.readiness = "DRAFT" /\ ~p.eligible
       \/ /\ p.readiness = "READY_FOR_HUMAN_REVIEW" /\ p.eligible
          /\ p.checks = Checks /\ p.types = EvidenceTypes /\ p.tested

\* validate_threat_model.
ThreatValid(t) == t.sealed /\ t.satisfied = Clauses

\* Mutated form: any threat model among the evidence will do.
BundleVerifies_AnyThreat(p, t, now) ==
    /\ ThreatValid(t) /\ DescentValid(p, now)
    /\ p.readiness = "READY_FOR_HUMAN_REVIEW" /\ ~p.humanDecision
    /\ p.threats # {} /\ p.rollback = t.rollback

\* verify_bundle: validate_ready_proposal binds the proposal to this threat
\* model, by exactly one entry with its hash, and to its rollback.
BundleVerifies(p, t, now) ==
    /\ ThreatValid(t) /\ DescentValid(p, now)
    /\ p.readiness = "READY_FOR_HUMAN_REVIEW" /\ ~p.humanDecision
    /\ Receipt(t) \in p.threats
    /\ p.rollback = t.rollback

-----------------------------------------------------------------------------
\* The proposal is completed by hand; refresh_artifact_id may be forgotten.
EditProposal(p) == proposal' = p /\ UNCHANGED <<threat, edits, verified>>

PassCheck(c) == c \notin proposal.checks /\ EditProposal([proposal EXCEPT !.checks = @ \cup {c}, !.sealed = FALSE])
Refresh == ~proposal.sealed /\ EditProposal([proposal EXCEPT !.sealed = TRUE])
AttachThreat ==
    /\ Receipt(threat) \notin proposal.threats
    /\ EditProposal([proposal EXCEPT !.threats = @ \cup {Receipt(threat)},
                                     !.types = @ \cup {"threat_model"}, !.sealed = FALSE])
Attach(type) ==
    /\ type # "threat_model" /\ type \notin proposal.types
    /\ EditProposal([proposal EXCEPT !.types = @ \cup {type}, !.sealed = FALSE])
TestRollback(r) ==
    /\ proposal.rollback # r
    /\ EditProposal([proposal EXCEPT !.rollback = r, !.tested = TRUE, !.sealed = FALSE])
MarkReady ==
    /\ proposal.readiness = "DRAFT"
    /\ EditProposal([proposal EXCEPT !.readiness = "READY_FOR_HUMAN_REVIEW", !.eligible = TRUE,
                                     !.sealed = FALSE])
DecideByHand ==
    /\ ~proposal.humanDecision
    /\ EditProposal([proposal EXCEPT !.humanDecision = TRUE, !.sealed = FALSE])

\* The threat model is revised, or a clause of it dropped; its hash follows or not.
Revise(satisfied, rollback, sealed) ==
    /\ edits < MaxEdits
    /\ threat' = [version |-> threat.version + 1, satisfied |-> satisfied, rollback |-> rollback,
                  sealed |-> sealed]
    /\ edits' = edits + 1
    /\ UNCHANGED <<proposal, verified>>

\* main, when it finds nothing.
Verify(now) ==
    /\ BundleVerifies(proposal, threat, now)
    /\ verified' = verified \cup {[proposal |-> proposal, threat |-> threat, at |-> now]}
    /\ UNCHANGED <<threat, proposal, edits>>

Next ==
    \/ (\E c \in Checks : PassCheck(c)) \/ Refresh \/ AttachThreat
    \/ (\E t \in EvidenceTypes : Attach(t)) \/ (\E r \in Rollbacks : TestRollback(r))
    \/ MarkReady \/ DecideByHand
    \/ \E s \in {Clauses} \cup {Clauses \ {c} : c \in Clauses}, r \in Rollbacks, b \in BOOLEAN : Revise(s, r, b)
    \/ \E t \in 0 .. MaxClosureTime : Verify(t)

-----------------------------------------------------------------------------
\* What passed names the very threat model it was verified with: a revision of
\* the threat model, whoever refreshed its hash, ends the proposal's
\* passes until the proposal is bound to it again, and no pass is later than the expiry.
PassPinsThreatModel ==
    \A x, y \in verified :
        /\ x.at < x.proposal.expires
        /\ x.threat.satisfied = Clauses /\ x.proposal.checks = Checks
        /\ x.proposal = y.proposal =>
             \/ x.threat = y.threat
             \/ {Receipt(x.threat), Receipt(y.threat)} \subseteq x.proposal.threats
=============================================================================
