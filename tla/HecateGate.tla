------------------------------ MODULE HecateGate ------------------------------
(***************************************************************************)
(* The Hecate input gate (eve_q/hecate_input_gate.py) and a daemon that     *)
(* uses it as docs/HECATE_INPUT_GATE_v0_1.md shows: it builds a context,    *)
(* presents an envelope, lets an allowed one into the field, buffers a held *)
(* one and presents it again.  The gate keeps no state; the context is a    *)
(* snapshot of what the daemon knew when it built it.  The findings that    *)
(* depend on the envelope alone are its "flaws".                            *)
(***************************************************************************)
EXTENDS Integers, FiniteSets

CONSTANTS
    Envelopes,      \* [payload, observed, flaws, targets]
    MaxAge,         \* max_age_seconds
    Skew,           \* future_skew_seconds
    Maturation,     \* maturation_seconds
    MaxMoment,      \* bound: time
    Targets,        \* network targets
    MaxAdmissions   \* bound: envelopes let into the field

GateAssumption ==
    /\ MaxAge \in Nat /\ Skew \in Nat /\ Maturation \in Nat /\ MaxMoment \in Nat /\ MaxAdmissions \in Nat
    /\ \A e \in Envelopes : e.observed \in Int

VARIABLES
    moment,
    known,          \* payloads the daemon has recorded
    context,        \* GateContext
    inbox,          \* the receipt of the envelope at the gate: [envelope, outcome, until]
    buffer,         \* held envelopes, with held_until
    field,          \* [envelope, at] that crossed
    barred          \* history: envelopes found stale, or returned for what they are

vars == <<moment, known, context, inbox, buffer, field, barred>>

\* Flaws: the source and the provenance may be mended outside, and are held;
\* what the payload, its size or its claims show is returned.
HeldFlaws == {"source_not_allowlisted", "provenance_missing"}
ReturnedFlaws == {"payload_too_large", "secret_shape", "prompt_injection", "authority_escalation",
                  "public_destination"}

\* GateContext: known_payload_hashes, reviewed_network_targets, and whether the
\* field is coherent, stable and ready, the route safe, execution disabled.
Contexts == [known : {known}, reviewed : SUBSET Targets, ready : BOOLEAN, safe : BOOLEAN]

NoReceipt == [outcome |-> ""]

-----------------------------------------------------------------------------
Stale(e, now) == now - e.observed > MaxAge

\* Mutated form: a stale envelope is not told from a fresh one.
Held_AnyAge(e, c, now) == e.flaws \cap HeldFlaws # {} \/ e.observed - now > Skew \/ ~c.ready

\* The findings with disposition HOLD, and those with RETURN.
Held(e, c, now) ==
    \/ e.flaws \cap HeldFlaws # {}
    \/ Stale(e, now) \/ e.observed - now > Skew
    \/ ~c.ready
Returned(e, c) ==
    \/ e.flaws \cap ReturnedFlaws # {}
    \/ e.payload \in c.known
    \/ ~(e.targets \subseteq c.reviewed)
    \/ ~c.safe

Outcome(e, c, now) == IF Returned(e, c) THEN "return" ELSE IF Held(e, c, now) THEN "hold" ELSE "allow"

-----------------------------------------------------------------------------
Init ==
    /\ moment = 0 /\ known = {} /\ inbox = NoReceipt /\ buffer = {} /\ field = {} /\ barred = {}
    /\ context \in Contexts

Tick == moment < MaxMoment /\ moment' = moment + 1 /\ UNCHANGED <<known, context, inbox, buffer, field, barred>>

BuildContext ==
    /\ context' \in Contexts
    /\ UNCHANGED <<moment, known, inbox, buffer, field, barred>>

\* evaluate: an envelope that arrives or is taken from the buffer; nothing
\* holds it there until held_until.
Present(e) ==
    /\ inbox = NoReceipt
    /\ LET o == Outcome(e, context, moment) IN
       inbox' = [outcome |-> o, envelope |-> e, until |-> IF o = "hold" THEN moment + Maturation ELSE moment]
    /\ buffer' = {b \in buffer : b.envelope # e}
    /\ barred' = IF Stale(e, moment) \/ e.flaws \cap ReturnedFlaws # {} THEN barred \cup {e} ELSE barred
    /\ UNCHANGED <<moment, known, context, field>>

\* require_allow, and Road Runner accepts.
Admit ==
    /\ inbox.outcome = "allow" /\ Cardinality(field) < MaxAdmissions
    /\ field' = field \cup {[envelope |-> inbox.envelope, at |-> moment]}
    /\ inbox' = NoReceipt
    /\ UNCHANGED <<moment, known, context, buffer, barred>>
Buffer ==
    /\ inbox.outcome = "hold"
    /\ buffer' = buffer \cup {[envelope |-> inbox.envelope, until |-> inbox.until]}
    /\ inbox' = NoReceipt
    /\ UNCHANGED <<moment, known, context, field, barred>>
Return ==
    /\ inbox.outcome = "return"
    /\ inbox' = NoReceipt
    /\ UNCHANGED <<moment, known, context, buffer, field, barred>>

\* The daemon records what crossed, in its own time.
Remember ==
    /\ known' = {a.envelope.payload : a \in field} /\ known' # known
    /\ UNCHANGED <<moment, context, inbox, buffer, field, barred>>

Next ==
    \/ Tick \/ BuildContext \/ Admit \/ Buffer \/ Return \/ Remember
    \/ \E e \in Envelopes : Present(e)

-----------------------------------------------------------------------------
\* An envelope that was stale once, or was returned for what it is, is never
\* allowed again, whatever context it is presented with and however often it
\* comes back from the buffer.
BarredStaysOut == inbox # NoReceipt /\ inbox.envelope \in barred => inbox.outcome # "allow"
=============================================================================
