---------------------------- MODULE Gate1Documents ----------------------------
(***************************************************************************)
(* The documents of the Gate 1 pilot and their checks: source reviews and  *)
(* soak plans (eve_q/gate1_source_review.py, gate1_soak_scaffold.py),       *)
(* snapshots (live_read_only_telemetry.py), resolution receipts             *)
(* (gate1_hardening.py) and coalitions of observations                      *)
(* (gate1_failure_campaign.py).                                             *)
(*                                                                         *)
(* A document is a record of the fields its checks read.  Its artifact_id   *)
(* is a hash of the rest: "sealed" says that the id is that hash, and a     *)
(* reference to another document by its id holds the document.              *)
(***************************************************************************)
EXTENDS Naturals, FiniteSets

CONSTANTS
    Addresses,      \* IP addresses
    Public,         \* those that _address_is_public accepts
    Literals,       \* hosts written as an IP address
    MaxTtl,         \* MAX_TTL_SECONDS
    MaxBytes,       \* MAX_RESPONSE_BYTES
    MaxCaptures,    \* MAX_CAPTURE_COUNT
    MaxInterval     \* MAX_INTERVAL_SECONDS

ASSUME DocumentsAssumption ==
    /\ Public \subseteq Addresses
    /\ MaxTtl \in Nat /\ MaxBytes \in Nat /\ MaxCaptures \in Nat /\ MaxInterval \in Nat

None == [none |-> TRUE]     \* no document
Methods == {"GET", "HEAD"}
Kinds == {"market_snapshot", "onchain_snapshot", "policy_snapshot", "impact_snapshot"}
ContentTypes == {"application/json", "text/plain"}

-----------------------------------------------------------------------------
(* Source reviews.                                                         *)

\* _validate_source.
SourceReviewed(s) ==
    /\ s.id # "" /\ s.kind \in Kinds
    /\ s.https /\ ~s.credentials /\ s.host # "" /\ s.port = 443
    /\ s.allowed # {} /\ s.allowed \cap {"", "*"} = {} /\ s.host \in s.allowed
    /\ s.method \in Methods
    /\ \/ s.auth = "NONE" /\ s.reference = "none"
       \/ s.auth = "READ_ONLY_CREDENTIAL" /\ s.reference = "read_only"
    /\ s.types # {} /\ s.types \subseteq ContentTypes
    /\ s.ttl \in 1 .. MaxTtl /\ s.bytes \in 1 .. MaxBytes /\ s.rate >= 1
    /\ s.redirects \in {"NO_REDIRECTS", "EXACT_ALLOWLIST_ONLY"}

\* _validate_provenance.
ProvenanceReviewed(c) == c.concentration \in {"LOW", "MEDIUM", "HIGH", "UNKNOWN"}

\* The fields of the review that _build_review refuses to go on without.
ControlsStated(c) ==
    /\ c.terms \in {"REVIEWED_COMPATIBLE", "REVIEWED_RESTRICTED", "NOT_REVIEWED"}
    /\ c.transport \in {"ACCEPTED_WITH_CONTROLS", "REJECTED", "UNRESOLVED"}

\* _build_review: the decision the controls lead to.
Eligibility(c) ==
    IF c.terms = "REVIEWED_RESTRICTED" \/ c.transport = "REJECTED" THEN "REJECT"
    ELSE IF \/ c.terms = "NOT_REVIEWED" \/ c.transport = "UNRESOLVED"
            \/ ~c.rollback \/ ~c.killSwitch
            \/ c.concentration = "HIGH" /\ ~c.mitigated
         THEN "HOLD" ELSE "ELIGIBLE"

ReviewBuilds(c) == SourceReviewed(c.source) /\ ProvenanceReviewed(c) /\ ControlsStated(c)
Review(c) == [candidate |-> c, eligibility |-> Eligibility(c), sealed |-> TRUE]

\* validate_source_review_artifact.
ReviewValid(r) ==
    /\ r # None /\ r.sealed /\ ReviewBuilds(r.candidate)
    /\ r.eligibility = Eligibility(r.candidate)

RequireEligible(r) == ReviewValid(r) /\ r.eligibility = "ELIGIBLE"

-----------------------------------------------------------------------------
(* Soak plans.                                                             *)

\* The fields of the source that a plan repeats.
PlannedSource(s) ==
    [id |-> s.id, kind |-> s.kind, host |-> s.host, allowed |-> s.allowed,
     method |-> s.method, ttl |-> s.ttl, bytes |-> s.bytes]

ScheduleBounded(count, interval) == count \in 1 .. MaxCaptures /\ interval \in 0 .. MaxInterval

\* build_soak_plan, which requires RequireEligible(r) and ScheduleBounded.
Plan(r, count, interval) ==
    [review |-> r, source |-> PlannedSource(r.candidate.source), count |-> count,
     interval |-> interval, stopOnFailure |-> TRUE, sealed |-> TRUE]

\* validate_soak_plan with the source review supplied.
PlanValid(p, r) ==
    /\ p # None /\ p.sealed /\ p.stopOnFailure
    /\ ScheduleBounded(p.count, p.interval)
    /\ RequireEligible(r)
    /\ p.review = r /\ p.source = PlannedSource(r.candidate.source)

-----------------------------------------------------------------------------
(* Name resolution.                                                        *)

\* validate_url.
UrlValid(s) == s.https /\ ~s.credentials /\ s.host # "" /\ s.host \in s.allowed

\* _validated_host_and_port: only here is an IP literal refused.
HostAndPortValid(s) == UrlValid(s) /\ s.host \notin Literals /\ s.port = 443

\* resolve_public_addresses: the answer of the resolver, {} when it fails.
Accepted(answer) == answer # {} /\ answer \subseteq Public

\* build_resolution_receipt, when it raises nothing.
ReceiptBuilds(s, answer) == HostAndPortValid(s) /\ Accepted(answer)
Receipt(s, commit, answer) ==
    [source |-> s.id, host |-> s.host, port |-> s.port, commit |-> commit,
     addresses |-> answer, sealed |-> TRUE]

\* validate_resolution_receipt with the document alone.
ReceiptValid(d) == d.sealed /\ Accepted(d.addresses) /\ d.port = 443

\* Mutated form: the answer is checked again but not compared with the record.
ReceiptCurrent_NoDrift(d, s, answer) ==
    /\ ReceiptValid(d) /\ HostAndPortValid(s)
    /\ d.source = s.id /\ d.host = s.host
    /\ Accepted(answer)

\* validate_resolution_receipt against the current source and resolver.
ReceiptCurrent(d, s, answer) ==
    /\ ReceiptValid(d) /\ HostAndPortValid(s)
    /\ d.source = s.id /\ d.host = s.host
    /\ Accepted(answer) /\ d.addresses = answer

-----------------------------------------------------------------------------
(* Snapshots.  A body is [type, wellFormed, newlines, bytes], where newlines *)
(* is the number of line feeds a text ends in; a payload is what it is       *)
(* normalized to.                                                            *)

\* validate_source_spec.
SpecValid(s) ==
    /\ s.id # "" /\ s.kind \in Kinds /\ s.allowed # {}
    /\ s.ttl \in 1 .. MaxTtl /\ s.timeout \in 1 .. 60 /\ s.bytes \in 1 .. MaxBytes
    /\ UrlValid(s)

\* normalize_payload, when it raises nothing.
Normalizes(body) == body.type \in ContentTypes /\ body.wellFormed
Normalized(body) ==
    [format |-> body.type, newlines |-> IF body.type = "text/plain" THEN body.newlines ELSE 0]

\* build_snapshot, when it raises nothing.
SnapshotBuilds(s, body) == SpecValid(s) /\ s.method \in Methods /\ body.bytes <= s.bytes /\ Normalizes(body)
Snapshot(s, commit, body, now) ==
    [source |-> s.id, commit |-> commit, method |-> s.method,
     retrieved |-> now, expires |-> now + s.ttl, ttl |-> s.ttl,
     raw |-> body, normalized |-> Normalized(body), sealed |-> TRUE]

\* validate_snapshot without require_fresh, and the finding that it adds.
SnapshotValid(d, raw, normalized) ==
    /\ d.sealed /\ d.raw = raw /\ d.normalized = normalized
    /\ d.expires = d.retrieved + d.ttl
    /\ d.method \in Methods
Stale(d, now) == d.expires <= now

\* write_snapshot_bundle adds one line feed to the normalized payload and
\* replay_snapshot_bundle strips all of them.
ReadBack(payload) == [payload EXCEPT !.newlines = 0]

-----------------------------------------------------------------------------
(* Rollback receipts and coalitions.                                       *)

\* build_rollback_receipt, when it raises nothing, and validate_rollback_receipt.
Triggers == {"kill_switch", "source_outage", "dns_policy_failure", "operator_abort"}
RollbackBuilds(trigger, started, completed) == trigger \in Triggers /\ completed >= started
RollbackReceipt(trigger, started, completed) ==
    [trigger |-> trigger, started |-> started, completed |-> completed,
     restored |-> TRUE, sealed |-> TRUE]
RollbackValid(d) == d.sealed /\ d.completed >= d.started /\ d.restored

\* classify_coalition: observations are records [source, group, digest].
Coalition(observations) ==
    IF Cardinality(observations) < 2 THEN "INSUFFICIENT"
    ELSE IF Cardinality({o.digest : o \in observations}) > 1 THEN "CONFLICTING"
    ELSE IF Cardinality({o.group : o \in observations}) < 2 THEN "HERDING_RISK"
    ELSE "GROUNDED"
=============================================================================
