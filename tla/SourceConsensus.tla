--------------------------- MODULE SourceConsensus ---------------------------
(***************************************************************************)
(* The offline evaluator of source observations                             *)
(* (eve_q/gate1_source_consensus.py).  An operator gathers a packet of      *)
(* observations, stamps it with an evaluation time of their choice and      *)
(* evaluates it; the decision is written to a JSON file and then to a       *)
(* summary.  The packet may be stamped and evaluated again, and changed.    *)
(***************************************************************************)
EXTENDS Integers, FiniteSets, FiniteSetsExt

CONSTANTS
    Observations,   \* what sources report, schema-valid records
    ComparisonUnit, \* comparison_unit of the packet
    Tolerance,      \* absolute_tolerance
    MaxSources,     \* most observations of a packet (16)
    MaxTime,        \* bound: evaluation times
    MaxRevisions    \* bound: observations replaced

ConsensusAssumption ==
    /\ Tolerance \in Nat /\ MaxTime \in Nat /\ MaxRevisions \in Nat
    /\ MaxSources \in Nat \ {0, 1}
    /\ \A o \in Observations : {o.value, o.factor, o.expires, o.reviewExpires} \subseteq Int

NoTime == -1        \* review_expires_at: null

VARIABLES
    packet,         \* the observations
    evaluatedAt,    \* evaluated_at
    decision,       \* source-consensus-decision.json
    text,           \* source-consensus-summary.txt
    writing,        \* the JSON is written and the text is not
    revisions       \* bound

vars == <<packet, evaluatedAt, decision, text, writing, revisions>>

Nothing == [code |-> "", at |-> 0, observations |-> {}, conflict |-> 0, independent |-> FALSE]

\* Packets that the schema lets through; evaluate_packet refuses repeated ids.
PacketValid(p) ==
    /\ IsFiniteSet(p) /\ Cardinality(p) \in 2 .. MaxSources
    /\ \A o, q \in p : o.id = q.id => o = q

-----------------------------------------------------------------------------
\* normalize_observation, when it raises nothing.
Normalizes(o) ==
    /\ o.decimals # "unknown"
    /\ o.unit # "" /\ o.comparisonUnit # ""
    /\ \/ o.conversion = "identity" /\ o.unit = o.comparisonUnit
       \/ o.conversion = "decimal_scale"

Normalized(o) == IF o.conversion = "identity" THEN o.value ELSE o.value * o.factor

ReviewExpired(o, at) == o.reviewExpires <= at

Conflict(p) == LET v == {Normalized(o) : o \in p} IN Max(v) - Min(v)
Independent(p) == \A o, q \in p : o.group = q.group => o = q

\* Mutated form: the tolerance is applied to neighbours only.
Code_Neighbours(p, at) ==
    IF \E o \in p : ~Normalizes(o) \/ o.comparisonUnit # ComparisonUnit THEN "HOLD_UNIT_AMBIGUITY"
    ELSE IF \E o \in p : o.review # "ELIGIBLE" \/ o.reviewExpires = NoTime THEN "HOLD_SOURCE_REVIEW"
    ELSE IF \E o \in p : ReviewExpired(o, at) THEN "HOLD_REVIEW_EXPIRED"
    ELSE IF \E o \in p : o.expires <= at THEN "HOLD_STALE"
    ELSE IF \E o \in p : \A q \in p \ {o} : Normalized(o) - Normalized(q) > Tolerance \/ Normalized(q) - Normalized(o) > Tolerance THEN "HOLD_CONFLICT"
    ELSE IF ~Independent(p) THEN "HOLD_CONCENTRATION" ELSE "ACCEPT_OBSERVATION_ONLY"

\* evaluate_packet: the decision, in the order of its returns.
Code(p, at) ==
    IF \E o \in p : ~Normalizes(o) THEN "HOLD_UNIT_AMBIGUITY"
    ELSE IF {o.comparisonUnit : o \in p} # {ComparisonUnit} THEN "HOLD_UNIT_AMBIGUITY"
    ELSE IF \E o \in p : o.review # "ELIGIBLE" \/ o.reviewExpires = NoTime THEN "HOLD_SOURCE_REVIEW"
    ELSE IF \E o \in p : ReviewExpired(o, at) THEN "HOLD_REVIEW_EXPIRED"
    ELSE IF \E o \in p : o.expires <= at THEN "HOLD_STALE"
    ELSE IF Conflict(p) > Tolerance THEN "HOLD_CONFLICT"
    ELSE IF ~Independent(p) THEN "HOLD_CONCENTRATION"
    ELSE "ACCEPT_OBSERVATION_ONLY"

Compared == {"HOLD_CONFLICT", "HOLD_CONCENTRATION", "ACCEPT_OBSERVATION_ONLY"}

\* _decision: the observations that could be normalized are kept, and the early
\* holds carry neither a conflict nor independence.
Decision(p, at) ==
    LET code == Code(p, at)
        known == {o \in p : Normalizes(o)} IN
    [code |-> code, at |-> at, observations |-> known,
     conflict |-> IF code \in Compared THEN Conflict(p) ELSE NoTime,
     independent |-> code \in Compared /\ Independent(p)]

-----------------------------------------------------------------------------
Init ==
    /\ packet \in {p \in SUBSET Observations : PacketValid(p)}
    /\ evaluatedAt = 0 /\ decision = Nothing /\ text = Nothing
    /\ writing = FALSE /\ revisions = 0

\* The operator replaces, adds or removes an observation.
Revise(p) ==
    /\ ~writing /\ revisions < MaxRevisions /\ PacketValid(p)
    /\ Cardinality(p \ packet) <= 1 /\ Cardinality(packet \ p) <= 1 /\ p # packet
    /\ packet' = p /\ revisions' = revisions + 1
    /\ UNCHANGED <<evaluatedAt, decision, text, writing>>

\* The operator stamps the packet; nothing compares the stamp with a clock.
Stamp(t) ==
    /\ ~writing /\ t # evaluatedAt
    /\ evaluatedAt' = t
    /\ UNCHANGED <<packet, decision, text, writing, revisions>>

\* main: evaluate, verify and write the decision, over any earlier one.
Evaluate ==
    /\ ~writing
    /\ decision' = Decision(packet, evaluatedAt)
    /\ writing' = TRUE
    /\ UNCHANGED <<packet, evaluatedAt, text, revisions>>

\* write_decision goes on with the summary,
Summarize ==
    /\ writing
    /\ text' = decision /\ writing' = FALSE
    /\ UNCHANGED <<packet, evaluatedAt, decision, revisions>>

\* unless that write fails or the process ends before it.
SummaryLost ==
    /\ writing
    /\ writing' = FALSE
    /\ UNCHANGED <<packet, evaluatedAt, decision, text, revisions>>

Next ==
    \/ \E o \in Observations :
         \E r \in packet : Revise(packet \cup {o}) \/ Revise((packet \ {r}) \cup {o}) \/ Revise(packet \ {r})
    \/ \E t \in 0 .. MaxTime : Stamp(t)
    \/ Evaluate \/ Summarize \/ SummaryLost

-----------------------------------------------------------------------------
\* What docs/alpha/GATE1_SOURCE_CONSENSUS_EVIDENCE_v0_1.md says of an accepted
\* packet, pair by pair.
Usable(o, at) ==
    /\ Normalizes(o) /\ o.comparisonUnit = ComparisonUnit
    /\ o.review = "ELIGIBLE" /\ o.reviewExpires > at /\ o.expires > at
Corroborates(o, q) ==
    /\ Normalized(o) - Normalized(q) <= Tolerance
    /\ o.group # q.group

\* A decision accepts exactly when every observation of the packet, none dropped
\* on the way, is usable at the stamped time and every two corroborate each other.
ConsensusExact ==
    writing => /\ decision.code = "ACCEPT_OBSERVATION_ONLY" <=>
                    /\ \A o \in packet : Usable(o, evaluatedAt)
                    /\ \A o, q \in packet : o # q => Corroborates(o, q)
               /\ decision.code = "ACCEPT_OBSERVATION_ONLY" => decision.observations = packet
=============================================================================
