----------------------------- MODULE SecondSource -----------------------------
(***************************************************************************)
(* The review of a second source                                            *)
(* (eve_q/gate1a1_second_source_review.py).  A candidate document gathers   *)
(* evidence; each evaluation, at a time given on the command line, writes a *)
(* reviewed document that may replace the candidate.                        *)
(***************************************************************************)
EXTENDS Integers

CONSTANT MaxReviewTime  \* bound: evaluation times and review expiries

SecondSourceAssumption == MaxReviewTime \in Nat

NoExpiry == -1      \* review_expires_at: null

VARIABLES
    candidate,      \* the candidate document
    lapsed,           \* history: the facts that an evaluation found expired, or {}
    replaced        \* the last evaluation was written over the candidate

vars == <<candidate, lapsed, replaced>>

Relationships == {"DISTINCT_OPERATOR_CANDIDATE", "SHARED_OR_UNKNOWN"}

\* What reviewers and the capture add to the candidate.
Facts(c) == [c EXCEPT !.generatedAt = 0, !.decision = ""]

Init ==
    /\ candidate \in [generatedAt : {0}, decision : {"HOLD_TERMS_REVIEW"}, bodyExact : BOOLEAN, bounded : BOOLEAN,
                      relationship : Relationships, terms : {"PENDING"}, reviewReceipt : {FALSE},
                      expires : {NoExpiry}, capture : {"NOT_RUN"}, captureReceipt : {FALSE}]
    /\ lapsed = {} /\ replaced = FALSE

-----------------------------------------------------------------------------
\* Evidence is written into the candidate by hand, one field at a time.
Record(c) == candidate' = c /\ replaced' = FALSE /\ UNCHANGED lapsed

ReviewTerms(verdict) == candidate.terms = "PENDING" /\ Record([candidate EXCEPT !.terms = verdict])
AttachReview(expiry) ==
    \/ ~candidate.reviewReceipt /\ Record([candidate EXCEPT !.reviewReceipt = TRUE])
    \/ candidate.expires = NoExpiry /\ Record([candidate EXCEPT !.expires = expiry])
AttachCapture(status) ==
    \/ candidate.capture = "NOT_RUN" /\ Record([candidate EXCEPT !.capture = status])
    \/ ~candidate.captureReceipt /\ Record([candidate EXCEPT !.captureReceipt = TRUE])

\* Mutated form: the time of the candidate is not looked at.
Evaluable_AnyTime(c, at) == c.bodyExact /\ c.bounded

\* evaluate_candidate, when it raises nothing.
Evaluable(c, at) == c.bodyExact /\ c.bounded /\ at >= c.generatedAt

\* evaluate_candidate: the decision, in the order of its branches.
Reviewed(c, at) ==
    IF c.relationship # "DISTINCT_OPERATOR_CANDIDATE" THEN "HOLD_CONCENTRATION"
    ELSE IF \/ c.terms # "REVIEWED" \/ ~c.reviewReceipt \/ c.expires = NoExpiry
            \/ c.expires <= at
         THEN "HOLD_TERMS_REVIEW"
    ELSE IF c.capture # "PASS" \/ ~c.captureReceipt THEN "HOLD_CAPTURE_EVIDENCE"
    ELSE "READY_FOR_ELIGIBILITY_REVIEW"

LapsedAt(c, at) == c.expires # NoExpiry /\ c.expires <= at

\* main: the reviewed document carries the evaluation time as its own, and is
\* written over the candidate.
Evaluate(at) ==
    /\ Evaluable(candidate, at)
    /\ candidate' = [candidate EXCEPT !.generatedAt = at, !.decision = Reviewed(candidate, at)]
    /\ lapsed' = IF LapsedAt(candidate, at) THEN {Facts(candidate)} ELSE lapsed
    /\ replaced' = TRUE

Next ==
    \/ \E v \in {"REVIEWED", "REJECTED"} : ReviewTerms(v)
    \/ \E s \in {"PASS", "FAIL"} : AttachCapture(s)
    \/ \E t \in 1 .. MaxReviewTime : AttachReview(t)
    \/ \E at \in 0 .. MaxReviewTime : Evaluate(at)

-----------------------------------------------------------------------------
\* A candidate whose review was found expired is not made ready by evaluating
\* its reviewed document again, whatever time is given: times only move on.
LapseIsFinal ==
    lapsed # {} /\ replaced /\ Facts(candidate) \in lapsed
        => candidate.decision # "READY_FOR_ELIGIBILITY_REVIEW"
=============================================================================
