------------------------------ MODULE TtlLattice ------------------------------
(***************************************************************************)
(* The typed TTL lattice (eve_q/ttl_lattice.py).  Clocks are observed, a    *)
(* snapshot of them is evaluated at a time its author gives, and the state  *)
(* follows the receipt's effective state.  A human may restore a state.     *)
(***************************************************************************)
EXTENDS Integers, FiniteSets

CONSTANTS
    Lattices,       \* manifests: [declared, rank, clocks]; a clock is [required, max, target]
    Ttls,           \* ttl_seconds of a clock, 0 when it is not positive
    MaxInstant,     \* bound: times
    MaxGrants       \* bound: states restored

LatticeAssumption ==
    /\ MaxInstant \in Nat /\ MaxGrants \in Nat /\ Ttls \subseteq Nat
    /\ \A l \in Lattices :
         /\ \A c \in DOMAIN l.clocks : l.clocks[c].max \in Nat
         /\ \A s \in DOMAIN l.rank : l.rank[s] \in Int

VARIABLES
    lattice,
    state,          \* current_state
    clocks,         \* the snapshot: [at, ttl] for the clocks it has
    lastReceipt,    \* of the last evaluation: [stop, expired, approval]
    grants          \* bound

vars == <<lattice, state, clocks, lastReceipt, grants>>

NoReceipt == [stop |-> FALSE, expired |-> {}, approval |-> FALSE]

-----------------------------------------------------------------------------
\* validate_manifest_shape finds nothing; "declared" stands for the fields, the
\* posture, the authority and the scope.
ManifestValid(l) ==
    /\ l.declared
    /\ "inert" \in DOMAIN l.rank
    /\ \A s \in DOMAIN l.rank : l.rank[s] >= 0 /\ \A t \in DOMAIN l.rank \ {s} : l.rank[s] # l.rank[t]
    /\ DOMAIN l.clocks # {}
    /\ \A c \in DOMAIN l.clocks : l.clocks[c].max > 0 /\ l.clocks[c].target \in DOMAIN l.rank

Least(a, b) == IF a <= b THEN a ELSE b

\* A clock counts as expired at the age of its TTL, and when it is missing and required.
Expired(l, seen, c, at) ==
    IF c \in DOMAIN seen THEN at - seen[c].at >= Least(seen[c].ttl, l.clocks[c].max) ELSE l.clocks[c].required

\* The snapshot raises no TTLLatticeError.
SnapshotValid(at) ==
    /\ ManifestValid(lattice)
    /\ state \in DOMAIN lattice.rank
    /\ \A c \in DOMAIN clocks : c \in DOMAIN lattice.clocks /\ clocks[c].at <= at /\ clocks[c].ttl > 0

Lowest(l, states) == CHOOSE s \in states : \A t \in states : l.rank[s] <= l.rank[t]

-----------------------------------------------------------------------------
Init ==
    /\ lattice \in Lattices /\ state \in DOMAIN lattice.rank
    /\ clocks = << >> /\ lastReceipt = NoReceipt /\ grants = 0

\* A clock is observed again, or dropped from the snapshot.
Observe(c, at, ttl) ==
    /\ clocks' = [d \in DOMAIN clocks \cup {c} |-> IF d = c THEN [at |-> at, ttl |-> ttl] ELSE clocks[d]]
    /\ UNCHANGED <<lattice, state, lastReceipt, grants>>
Drop(c) ==
    /\ c \in DOMAIN clocks
    /\ clocks' = [d \in DOMAIN clocks \ {c} |-> clocks[d]]
    /\ UNCHANGED <<lattice, state, lastReceipt, grants>>

\* Mutated form: the state is set to the target of an expired clock, whatever the state.
Evaluate_AnyTarget(at, stop) ==
    /\ SnapshotValid(at)
    /\ LET expired == {c \in DOMAIN lattice.clocks : Expired(lattice, clocks, c, at)}
           effective == IF stop THEN "inert"
                        ELSE IF expired = {} THEN state
                        ELSE Lowest(lattice, {lattice.clocks[c].target : c \in expired}) IN
       /\ state' = effective
       /\ lastReceipt' = [stop |-> stop, expired |-> expired, approval |-> stop \/ expired # {}]
    /\ UNCHANGED <<lattice, clocks, grants>>

\* evaluate_ttl_lattice at a given time, of a request outside the scope or with
\* a denied capability ("stop") or of one within it.
Evaluate(at, stop) ==
    /\ SnapshotValid(at)
    /\ LET expired == {c \in DOMAIN lattice.clocks : Expired(lattice, clocks, c, at)}
           effective == IF stop THEN "inert"
                        ELSE Lowest(lattice, {state} \cup {lattice.clocks[c].target : c \in expired}) IN
       /\ state' = effective
       /\ lastReceipt' = [stop |-> stop, expired |-> expired, approval |-> stop \/ expired # {}]
    /\ UNCHANGED <<lattice, clocks, grants>>

\* An external human decision; a receipt permits no renewal.
Restore(s) ==
    /\ grants < MaxGrants /\ s # state
    /\ state' = s /\ grants' = grants + 1
    /\ UNCHANGED <<lattice, clocks, lastReceipt>>

Next ==
    \/ \E c \in DOMAIN lattice.clocks :
         Drop(c) \/ \E at \in 0 .. MaxInstant, ttl \in Ttls : Observe(c, at, ttl)
    \/ \E at \in 0 .. MaxInstant, stop \in BOOLEAN : Evaluate(at, stop)
    \/ \E s \in DOMAIN lattice.rank : Restore(s)

Spec == Init /\ [][Next]_vars

-----------------------------------------------------------------------------
\* Only a human raises the state: no evaluation within scope does, and a clock
\* that expired and is observed afresh restores nothing.  (A stop goes to
\* "inert", which a manifest may rank above other states.)
NeverPromotes ==
    [][grants' = grants /\ ~lastReceipt'.stop
       => lattice.rank[state'] <= lattice.rank[state]]_<<state, lastReceipt, grants>>
=============================================================================
