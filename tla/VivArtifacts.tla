----------------------------- MODULE VivArtifacts -----------------------------
(***************************************************************************)
(* The artifacts that the ViV gauntlets attack: delta robustness receipts   *)
(* (eve_q/viv_market_adversarial.py) and Gate 1A.1 evidence bundles         *)
(* (eve_q/gate1a1_viv_gauntlet.py), with their validators and the mutations *)
(* of each.  A hash is the value it is taken of; numbers are counted in      *)
(* parts of 1.0, and the tolerances in what they divide.                    *)
(***************************************************************************)
EXTENDS Integers, FiniteSets, Sequences, SequencesExt, TLC

CONSTANTS
    One,            \* parts of 1.0, in which log deltas and observed values are counted
    RelParts,       \* 1 / rel_tol of math.isclose (10^9, its default)
    AbsParts        \* 1 / abs_tol (10^15)

NumbersAssumption == One \in Nat \ {0} /\ RelParts \in Nat \ 0 .. 2 /\ AbsParts \in Nat \ 0 .. 2

Magnitude(x) == IF x >= 0 THEN x ELSE -x

\* math.isclose of x / one and y / one.
Close(x, y, one) ==
    LET gap == Magnitude(x - y) IN
    RelParts * gap <= Magnitude(x) \/ RelParts * gap <= Magnitude(y) \/ AbsParts * gap <= one

\* int() of a value: toward zero.
Truncated(v) == IF v >= 0 THEN v \div One ELSE -((-v) \div One)

Reasons == {"not_profitable", "below_minimum_margin"}

-----------------------------------------------------------------------------
(* Delta robustness receipts.  A result is [id, passes, profitable, delta,   *)
(* reasons]; survival_rate is a fraction <<n, d>>.                           *)

Classes == {"robust", "resilient", "conditional", "fragile", "failed"}

\* _classify.
Class(n, d) ==
    IF Close(n, d, d) THEN "robust" ELSE IF 5 * n >= 4 * d THEN "resilient"
    ELSE IF 2 * n >= d THEN "conditional" ELSE IF n > 0 THEN "fragile" ELSE "failed"

\* _validate_result.
ResultValid(r) ==
    r.reasons = {x \in Reasons : \/ x = "not_profitable" /\ ~r.profitable
                                 \/ x = "below_minimum_margin" /\ ~r.passes}

\* The fields of a receipt, and the types of those that the mutators calculate with.
MarketShaped(a) ==
    /\ DOMAIN a = {"authority", "results", "scenarioSet", "scenarioCount", "survivors", "rate", "worst",
                   "median2", "failures", "class", "receipt"}
    /\ a.results \in Seq([id : Int, passes : BOOLEAN, profitable : BOOLEAN, delta : Int, reasons : SUBSET Reasons])
    /\ a.rate \in Int \X (Nat \ {0})

Scenarios(results) == [i \in DOMAIN results |-> results[i].id]
Survivors(results) == Cardinality({i \in DOMAIN results : results[i].passes})
Deltas(results) == {r.delta : r \in ToSet(results)}
Failures(results) ==
    LET counted == UNION {r.reasons : r \in ToSet(results)} IN
    [x \in counted |-> Cardinality({i \in DOMAIN results : x \in results[i].reasons})]
MedianDelta2(results) ==
    LET t == SortSeq([i \in DOMAIN results |-> results[i].delta], <) IN
    t[(Len(t) + 1) \div 2] + t[Len(t) \div 2 + 1]
ReceiptId(a) == [set |-> a.scenarioSet, results |-> a.results]

Least(S) == CHOOSE x \in S : \A y \in S : x <= y
Greatest(S) == CHOOSE x \in S : \A y \in S : x >= y

\* Mutated form: survival_count is not compared with the results.
MarketValid_NoCount(a) ==
    LET rs == a.results IN
    /\ ~a.authority /\ rs # << >> /\ \A i \in DOMAIN rs : ResultValid(rs[i])
    /\ a.scenarioSet = Scenarios(rs) /\ a.scenarioCount = Len(rs)
    /\ Close(a.rate[1] * Len(rs), Survivors(rs) * a.rate[2], a.rate[2] * Len(rs))
    /\ Close(a.worst, Least(Deltas(rs)), One) /\ Close(a.median2, MedianDelta2(rs), 2 * One)
    /\ a.failures = Failures(rs) /\ a.class = Class(Survivors(rs), Len(rs))
    /\ a.receipt = ReceiptId(a)

\* validate_delta_robustness_artifact.
MarketValid(a) ==
    LET rs == a.results IN
    /\ ~a.authority /\ rs # << >>
    /\ \A i \in DOMAIN rs : ResultValid(rs[i])
    /\ \A i, j \in DOMAIN rs : i < j => rs[i].id < rs[j].id
    /\ a.scenarioSet = Scenarios(rs)
    /\ a.scenarioCount = Len(rs) /\ a.survivors = Survivors(rs)
    /\ Close(a.rate[1] * Len(rs), Survivors(rs) * a.rate[2], a.rate[2] * Len(rs))
    /\ Close(a.worst, Least(Deltas(rs)), One) /\ Close(a.median2, MedianDelta2(rs), 2 * One)
    /\ a.failures = Failures(rs)
    /\ a.class = Class(Survivors(rs), Len(rs))
    /\ a.receipt = ReceiptId(a)

\* A receipt as delta_robustness builds it from its results.
MarketArtifact(rs) ==
    [authority |-> FALSE, results |-> rs, scenarioSet |-> Scenarios(rs), scenarioCount |-> Len(rs),
     survivors |-> Survivors(rs), rate |-> <<Survivors(rs), Len(rs)>>, worst |-> Least(Deltas(rs)),
     median2 |-> MedianDelta2(rs), failures |-> Failures(rs), class |-> Class(Survivors(rs), Len(rs)),
     receipt |-> [set |-> Scenarios(rs), results |-> rs]]

\* DEFAULT_MARKET_CASES in the order of their identifiers.
MarketCases == <<"authority_flip", "class_promotion", "failure_summary_suppression", "margin_result_flip",
                 "receipt_id_tamper", "result_deletion", "scenario_set_tamper", "survival_count_inflation",
                 "survival_rate_inflation", "worst_case_suppression">>

Picked(seed, s) == (seed % Len(s)) + 1

\* The mutators.
MarketMutated(a, case, seed) ==
    CASE case = "authority_flip" -> [a EXCEPT !.authority = TRUE]
      [] case = "survival_count_inflation" -> [a EXCEPT !.survivors = @ + 1]
      [] case = "survival_rate_inflation" -> [a EXCEPT !.rate = IF @[1] = @[2] THEN <<0, 1>> ELSE <<1, 1>>]
      [] case = "class_promotion" -> [a EXCEPT !.class = IF @ = "robust" THEN "failed" ELSE "robust"]
      [] case = "worst_case_suppression" ->
           LET top == Greatest(Deltas(a.results)) IN
           [a EXCEPT !.worst = IF Close(top, Least(Deltas(a.results)), One) THEN top + One ELSE top]
      [] case = "result_deletion" -> [a EXCEPT !.results = RemoveAt(@, Picked(seed, @))]
      [] case = "failure_summary_suppression" ->
           [a EXCEPT !.failures = IF @ = << >> THEN [x \in {"not_profitable"} |-> 1] ELSE << >>]
      [] case = "scenario_set_tamper" -> [a EXCEPT !.scenarioSet = << >>]
      [] case = "receipt_id_tamper" -> [a EXCEPT !.receipt = [set |-> << >>, results |-> << >>]]
      [] case = "margin_result_flip" -> [a EXCEPT !.results[Picked(seed, a.results)].passes = ~@]

-----------------------------------------------------------------------------
(* Gate 1A.1 evidence bundles.                                             *)

Frictions == {"gas", "protocol_fees", "slippage", "liquidity", "latency"}
\* The "expected" value of a friction is one that math.isclose takes for it.
Measured == [included |-> TRUE, status |-> "MEASURED", value |-> "expected"]

\* The fields of a bundle and of its sources.  "lost" holds the numbers that vanish
\* when they are added to the value, which then is a float of 2^53 or more.
BundleShaped(b) ==
    /\ DOMAIN b = {"authority", "humanPromotion", "economics", "sources", "posture"}
    /\ DOMAIN b.economics = Frictions
    /\ b.sources \in Seq([id : STRING, operator : STRING, group : STRING, value : Int, lost : SUBSET (1 .. 3),
                         units : STRING, fresh : BOOLEAN, review : STRING])

SourcesValid(ss) ==
    /\ Len(ss) = 2 /\ ss[1].id # ss[2].id /\ ss[1].group # ss[2].group
    /\ Truncated(ss[1].value) = Truncated(ss[2].value)
    /\ \A s \in ToSet(ss) : s.group # "" /\ s.operator # "" /\ s.units = "block_number" /\ s.fresh /\ s.review = "ELIGIBLE"

Posture ==
    [consensus |-> "ACCEPT_OBSERVATION_ONLY", classicalQubo |-> "expected", qaoaQubo |-> "expected",
     solver |-> "EXACT", seeds |-> "all", disclosed |-> TRUE, outcome |-> "QAOA_ADDS_NO_MEASURABLE_VALUE",
     environment |-> "testnet", receiptSuccess |-> TRUE, gate1b |-> FALSE, transfer |-> "none",
     profitability |-> "RESEARCH_ONLY", targetGas |-> "HYPOTHESIS", permission |-> FALSE,
     rollback |-> TRUE, killSwitch |-> TRUE, impact |-> "NO_CAUSAL_CLAIM", charityAuthority |-> FALSE,
     automaticReward |-> FALSE]

\* validate_gate1a1_evidence_bundle.
BundleValid(b) ==
    /\ b.authority = FALSE /\ b.humanPromotion
    /\ \A f \in Frictions : b.economics[f] = Measured
    /\ SourcesValid(b.sources)
    /\ b.posture = Posture

Bundle(sources) ==
    [authority |-> FALSE, humanPromotion |-> TRUE, economics |-> [f \in Frictions |-> Measured],
     sources |-> sources, posture |-> Posture]

\* GATE1A1_CASES in the order of their identifiers.
BundleCases == <<"changed_qubo", "charity_to_authority", "charity_without_evidence", "cherry_pick_seed",
                 "disguised_concentration", "erase_latency", "false_consensus", "gas_hypothesis_as_fact",
                 "inflate_liquidity", "omit_gas", "omit_protocol_fees", "promote_stale_telemetry",
                 "receipt_to_permission", "suppress_failed_runs", "suppress_slippage",
                 "testnet_profitability_language", "weaken_rollback", "weaker_classical_baseline">>

\* _conflict, on the value of the second source.
Raised(s, n) == IF n \in s.lost THEN s.value ELSE s.value + n * One

\* The mutators; the QUBO that replaces the paired one is never the same.
BundleMutated(b, case, seed) ==
    CASE case = "omit_gas" -> [b EXCEPT !.economics["gas"].included = FALSE]
      [] case = "omit_protocol_fees" -> [b EXCEPT !.economics["protocol_fees"].included = FALSE]
      [] case = "suppress_slippage" -> [b EXCEPT !.economics["slippage"].value = "zero"]
      [] case = "inflate_liquidity" -> [b EXCEPT !.economics["liquidity"].value = "inflated"]
      [] case = "erase_latency" -> [b EXCEPT !.economics["latency"].included = FALSE]
      [] case = "promote_stale_telemetry" -> [b EXCEPT !.sources[(seed % 2) + 1].fresh = FALSE]
      [] case = "false_consensus" -> [b EXCEPT !.sources[2].value = Raised(b.sources[2], 1 + (seed % 3))]
      [] case = "disguised_concentration" -> [b EXCEPT !.sources[2].group = b.sources[1].group]
      [] case = "weaker_classical_baseline" -> [b EXCEPT !.posture.solver = "HEURISTIC"]
      [] case = "changed_qubo" -> [b EXCEPT !.posture.qaoaQubo = "changed"]
      [] case = "cherry_pick_seed" -> [b EXCEPT !.posture.seeds = "first"]
      [] case = "suppress_failed_runs" -> [b EXCEPT !.posture.disclosed = FALSE]
      [] case = "testnet_profitability_language" -> [b EXCEPT !.posture.profitability = "PRODUCTION_PROFITABLE"]
      [] case = "receipt_to_permission" -> [b EXCEPT !.posture.permission = TRUE]
      [] case = "weaken_rollback" ->
           [b EXCEPT !.posture.rollback = (seed % 2 = 1), !.posture.killSwitch = FALSE]
      [] case = "gas_hypothesis_as_fact" -> [b EXCEPT !.posture.targetGas = "MEASURED"]
      [] case = "charity_without_evidence" -> [b EXCEPT !.posture.impact = "PROVEN_CAUSAL_IMPACT"]
      [] case = "charity_to_authority" ->
           [b EXCEPT !.posture.charityAuthority = TRUE, !.posture.automaticReward = TRUE]
=============================================================================
