----------------------------- MODULE VivGauntlet -----------------------------
(***************************************************************************)
(* The ViV harness (eve_q/viv_adversarial.py): the baseline is validated,   *)
(* each case mutates a copy of it with a seed of its own, the validator     *)
(* blocks the copy or lets it escape, and a receipt with the counts is      *)
(* built and validated.  The seed of a case is a hash, so that any residue  *)
(* may come up.                                                            *)
(***************************************************************************)
EXTENDS VivArtifacts

CONSTANTS
    Targets,        \* [kind, artifact], valid or not
    SeedResidues    \* derived seeds, up to what the mutators look at

GauntletAssumption ==
    /\ NumbersAssumption
    /\ SeedResidues \subseteq Nat
    /\ \A t \in Targets : IF t.kind = "market" THEN MarketShaped(t.artifact) ELSE BundleShaped(t.artifact)

VARIABLES
    target,
    baseline,       \* the copy of the artifact the cases work on
    done,           \* [case, status] in the order of the cases
    gauntlet        \* "start", "running", "invalid", "error", or the outcome

vars == <<target, baseline, done, gauntlet>>

GauntletCases == IF target.kind = "market" THEN MarketCases ELSE BundleCases
Valid(a) == IF target.kind = "market" THEN MarketValid(a) ELSE BundleValid(a)
Mutated(a, case, seed) ==
    IF target.kind = "market" THEN MarketMutated(a, case, seed) ELSE BundleMutated(a, case, seed)

Init == target \in Targets /\ baseline = target.artifact /\ done = << >> /\ gauntlet = "start"

\* _validate_candidate: an invalid baseline is an error, not a result.
ValidateBaseline ==
    /\ gauntlet = "start"
    /\ gauntlet' = IF Valid(baseline) THEN "running" ELSE "invalid"
    /\ UNCHANGED <<target, baseline, done>>

NextCase == GauntletCases[Len(done) + 1]

\* _run_case.
RunCase(seed) ==
    /\ gauntlet = "running" /\ Len(done) < Len(GauntletCases)
    /\ LET mutant == Mutated(baseline, NextCase, seed) IN
       done' = Append(done, [case |-> NextCase, status |-> IF Valid(mutant) THEN "escaped" ELSE "blocked"])
    /\ UNCHANGED <<target, baseline, gauntlet>>

Count(status) == Cardinality({i \in DOMAIN done : done[i].status = status})

\* The receipt, and validate_viv_receipt, which refuses one whose candidate changed.
Conclude ==
    /\ gauntlet = "running" /\ Len(done) = Len(GauntletCases)
    /\ gauntlet' = IF baseline # target.artifact THEN "error"
                   ELSE IF Count("escaped") = 0 THEN "pass" ELSE "fail"
    /\ UNCHANGED <<target, baseline, done>>

Next == ValidateBaseline \/ (\E s \in SeedResidues : RunCase(s)) \/ Conclude

-----------------------------------------------------------------------------
\* What a valid artifact has to be like for its validator not to see a mutation.
MarketTolerance(a, case) ==
    \/ case = "survival_rate_inflation" /\ a.class = "robust" /\ a.rate[1] # a.rate[2]
    \/ case = "worst_case_suppression" /\ \E d \in Deltas(a.results) : (RelParts - 1) * One <= Magnitude(d)
BundleTolerance(b, case) ==
    case = "false_consensus" /\ (b.sources[2].lost # {} \/ b.sources[2].value \in -One + 1 .. -1)
AtTolerance(case) ==
    IF target.kind = "market" THEN MarketTolerance(target.artifact, case) ELSE BundleTolerance(target.artifact, case)

\* Each case is tried on the artifact itself, once and in its order, and whatever
\* its seed and the values of the artifact, a mutation of a valid one escapes
\* only inside the tolerances of the validators: the rate 1 of a robust receipt
\* whose rate was not exactly 1, a worst case among deltas of a billion, and the
\* raised value of a source between -1 and 0, which int() takes for 0 before and
\* after, or so large a float that nothing was added.
EscapesAtTolerance ==
    /\ gauntlet # "error"
    /\ \A i \in DOMAIN done : done[i].status = "escaped" => AtTolerance(done[i].case)
    /\ gauntlet \in {"pass", "fail"} => [i \in DOMAIN done |-> done[i].case] = GauntletCases
    /\ gauntlet = "pass" => Count("blocked") = Len(GauntletCases)
=============================================================================
