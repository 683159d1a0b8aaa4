------------------------------- MODULE TtlPolicy -------------------------------
(***************************************************************************)
(* The TTL policy evaluator (eve_q/ttl_policy.py).  A caller has a mode and *)
(* the minutes it has left; it evaluates them under a policy, with the      *)
(* signals and capability claims of the moment, and goes on with the mode   *)
(* and minutes that the result names.  A human may renew.  Signals and      *)
(* claims are told apart by the lists of the policy they hit.               *)
(***************************************************************************)
EXTENDS Integers, FiniteSetsExt

CONSTANTS
    TtlPolicies,    \* [declared, rank, modes]; a mode is [target, required, max]
    Minutes,        \* minutes a human grants
    MaxRenewals     \* bound: renewals

NoTtl == -1         \* None

VARIABLES
    ttlPolicy,
    mode,           \* the mode, "artifact_only" after a hard stop
    minutes,        \* current_ttl_minutes
    result,         \* what the last evaluation returned
    renewals        \* bound

vars == <<ttlPolicy, mode, minutes, result, renewals>>

NoResult == [valid |-> FALSE, hardStop |-> FALSE, shortened |-> FALSE, approval |-> FALSE, outputs |-> FALSE]

-----------------------------------------------------------------------------
\* Mutated form: the ranks of a mode and its target are not compared.
Shape_AnyTarget(p) ==
    /\ p.declared
    /\ \A m \in DOMAIN p.modes :
         /\ m \in DOMAIN p.rank /\ p.modes[m].target \in DOMAIN p.modes \cap DOMAIN p.rank
         /\ p.modes[m].required => p.modes[m].max > 0

\* validate_ttl_policy_shape finds nothing; "declared" stands for the fields,
\* the posture and the lists.
Shape(p) ==
    /\ p.declared
    /\ \A m \in DOMAIN p.modes :
         /\ m \in DOMAIN p.rank /\ p.modes[m].target \in DOMAIN p.modes \cap DOMAIN p.rank
         /\ p.rank[p.modes[m].target] <= p.rank[m]
         /\ p.modes[m].required => p.modes[m].max > 0

\* Stop is the one mode the evaluator names itself; the policies considered
\* rank nothing below it, which validate_ttl_policy_shape does not ask.
Stop == "artifact_only"

PolicyAssumption ==
    /\ MaxRenewals \in Nat /\ Minutes \subseteq Nat
    /\ \A p \in TtlPolicies :
         /\ \A m \in DOMAIN p.rank : p.rank[m] \in Nat
         /\ Stop \in DOMAIN p.rank => \A m \in DOMAIN p.rank : p.rank[Stop] <= p.rank[m]
         /\ \A m \in DOMAIN p.modes : p.modes[m].max \in Nat \cup {NoTtl}

\* _cap_ttl_minutes and _shorten_ttl_minutes.
Cap(ttl, max) == IF ttl = NoTtl THEN max ELSE IF max = NoTtl \/ ttl <= max THEN ttl ELSE max
Shorten(ttl) == IF ttl = NoTtl THEN NoTtl ELSE IF ttl \div 2 > 1 THEN ttl \div 2 ELSE 1

\* What the state of one evaluation hits: lists of signals, an expired TTL,
\* a forbidden capability.
Hits == [shortening : BOOLEAN, graceful : BOOLEAN, expired : BOOLEAN, forbidden : BOOLEAN]

Rank(m) == IF m \in DOMAIN ttlPolicy.rank THEN ttlPolicy.rank[m] ELSE 0

-----------------------------------------------------------------------------
Init ==
    /\ ttlPolicy \in TtlPolicies
    /\ mode \in DOMAIN ttlPolicy.modes /\ minutes \in Minutes \cup {NoTtl}
    /\ result = NoResult /\ renewals = 0

Evaluable == Shape(ttlPolicy) /\ mode \in DOMAIN ttlPolicy.modes

\* Errors, or a mode the policy does not know, name no mode to go on with.
Refuse ==
    /\ ~Evaluable
    /\ result' = NoResult
    /\ UNCHANGED <<ttlPolicy, mode, minutes, renewals>>

HardStop(s) ==
    /\ Evaluable /\ s.forbidden
    /\ mode' = Stop /\ minutes' = NoTtl
    /\ result' = [valid |-> TRUE, hardStop |-> TRUE, shortened |-> FALSE, approval |-> TRUE, outputs |-> TRUE]
    /\ UNCHANGED <<ttlPolicy, renewals>>

\* The TTL is capped, then shortened; the mode is kept or degraded to its target.
Evaluate(s) ==
    /\ Evaluable /\ ~s.forbidden
    /\ LET m == ttlPolicy.modes[mode]
           capped == Cap(minutes, m.max)
           shortened == m.required /\ s.shortening
           degrade == s.expired \/ s.graceful \/ (m.required /\ minutes = NoTtl) IN
       /\ mode' = IF degrade THEN m.target ELSE mode
       /\ minutes' = IF shortened THEN Shorten(capped) ELSE capped
       /\ result' = [valid |-> TRUE, hardStop |-> FALSE, shortened |-> shortened,
                     approval |-> degrade, outputs |-> degrade]
    /\ UNCHANGED <<ttlPolicy, renewals>>

\* A human grants a mode and its minutes; nothing in the code does.
Renew(m, ttl) ==
    /\ renewals < MaxRenewals
    /\ mode' = m /\ minutes' = ttl
    /\ renewals' = renewals + 1
    /\ UNCHANGED <<ttlPolicy, result>>

Next ==
    \/ Refuse
    \/ \E s \in Hits : HardStop(s) \/ Evaluate(s)
    \/ \E m \in DOMAIN ttlPolicy.modes, ttl \in Minutes : Renew(m, ttl)

Spec == Init /\ [][Next]_vars

-----------------------------------------------------------------------------
\* No evaluation, of any signals in any order, raises the rank of the mode or
\* gives a mode more minutes than it had: both take a human.  A TTL that ran
\* down to nothing is left out: shortening it gives it one minute.
NeverPromotes ==
    [][renewals' = renewals =>
         /\ Rank(mode') <= Rank(mode)
         /\ minutes > 0 => minutes' <= minutes]_<<mode, minutes, renewals>>
=============================================================================
