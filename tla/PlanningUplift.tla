---------------------------- MODULE PlanningUplift ----------------------------
(***************************************************************************)
(* The consumer of strategy packets (eve_q/strategy_packet_uplift.py).  It  *)
(* admits a packet, runs the local baseline (eve_q/hybrid_benchmark.py),    *)
(* evaluates each hint with the same local pieces, compares and writes a    *)
(* receipt.  Log deltas, profits and energies are integers, no two of the   *)
(* same kind equal; a tie of the exact search does not arise.               *)
(***************************************************************************)
EXTENDS Integers, FiniteSets, Sequences, SequencesExt

CONSTANTS
    Packets,        \* strategy packets
    Routes,         \* the local cycles: id -> [delta, shifts], a delta per scenario
    Geometry,       \* <<route, provider, bucket>> -> [delta, profit, capacity]
    MinDelta,       \* minimum_log_delta
    MinProfit,      \* minimum_net_profit
    MaxTtl,         \* the longest ttl_seconds (86400)
    PartsOfSecond   \* in which instants are counted (microseconds in the code)

Ids == DOMAIN Routes
Providers == {g[2] : g \in DOMAIN Geometry}
Buckets == {g[3] : g \in DOMAIN Geometry}

\* What the case is built from: enumerate_triangular_cycles drops a cycle below the minimum.
UpliftAssumption ==
    /\ MinDelta \in Int /\ MinProfit \in Nat /\ MaxTtl \in Nat /\ PartsOfSecond \in Nat \ {0}
    /\ \A r \in Ids : Routes[r].delta >= MinDelta /\ Routes[r].shifts \in Seq(Int) \ {<< >>}
    /\ DOMAIN Geometry \subseteq Ids \X Providers \X Buckets
    /\ \A p \in Packets : p.compiled \in Int /\ p.expires \in Int

VARIABLES
    strategy,       \* the packet
    instant,        \* now
    step,           \* "packet", "baseline", "hints", "raised", "written"
    base,           \* metrics of the baseline
    judged,         \* the hints evaluated, in order: [hint, metrics]
    uplift          \* the receipt: [comparisons, overall]

vars == <<strategy, instant, step, base, judged, uplift>>

Nothing == [overall |-> ""]

-----------------------------------------------------------------------------
(* A packet is [sealed, broken, compiled, expires, ttl, evidence, summary,   *)
(* proposals].  "broken" names the clauses that it breaks among those of     *)
(* its surface, its posture, the task, the lineage, the fast path, and       *)
(* the prohibited actions.                                                  *)

\* _validate_remote_evidence: the summary counts what the evidence holds.
SummaryOf(evidence) ==
    [providers |-> Cardinality({evidence[i].provider : i \in DOMAIN evidence}),
     successful |-> Cardinality({i \in DOMAIN evidence : evidence[i].ok}),
     failed |-> Cardinality({i \in DOMAIN evidence : ~evidence[i].ok})]

\* _parse_hints, of one proposal.
Bound(h) ==
    /\ h.local                                  \* names this benchmark
    /\ h.route \in Ids
    /\ h.providers # << >> /\ ToSet(h.providers) \subseteq Providers
    /\ h.buckets # {} /\ h.buckets \subseteq Buckets

\* consume_strategy_packet, when it raises nothing.  The ttl is in whole seconds,
\* and int() drops what the timestamps have beyond them.
Consumable(p, now) ==
    /\ p.sealed /\ p.broken = {}
    /\ p.ttl \in 1 .. MaxTtl /\ (p.expires - p.compiled) \div PartsOfSecond = p.ttl
    /\ p.expires > now
    /\ p.summary = SummaryOf(p.evidence)
    /\ p.proposals # << >> /\ \A i \in DOMAIN p.proposals : Bound(p.proposals[i])
    /\ \A i, j \in DOMAIN p.proposals : p.proposals[i].id = p.proposals[j].id => i = j

\* The hints still to evaluate; consume_strategy_packet sorts them by their ids.
Pending == DOMAIN strategy.proposals \ {judged[k].hint : k \in DOMAIN judged}

-----------------------------------------------------------------------------
\* build_cycle_selection_qubo and its exact solution: the cycle with the
\* greatest log delta, unless none is worth selecting.
BestRoutes == {r \in Ids : Routes[r].delta > 0 /\ \A s \in Ids : Routes[s].delta <= Routes[r].delta}

\* enumerate_flash_liquidity_candidates and build_flash_liquidity_qubo: of the
\* candidates within capacity that lose nothing, the one with the greatest log delta.
Feasible(g) == Geometry[g].capacity /\ Geometry[g].profit >= 0
BestFlash(route, providers, buckets) ==
    LET C == {g \in DOMAIN Geometry : g[1] = route /\ g[2] \in providers /\ g[3] \in buckets} IN
    {g \in C : Feasible(g) /\ Geometry[g].delta > 0
               /\ \A x \in C : Feasible(x) => Geometry[x].delta <= Geometry[g].delta}

\* evaluate_candidate_robustness.
Survivors(r) == Cardinality({i \in DOMAIN Routes[r].shifts : Routes[r].shifts[i] >= MinDelta})
Worst(r) == CHOOSE d \in ToSet(Routes[r].shifts) : \A e \in ToSet(Routes[r].shifts) : d <= e
\* survival_rate of r is above that of s.
SurvivesMore(r, s) == Survivors(r) * Len(Routes[s].shifts) > Survivors(s) * Len(Routes[r].shifts)

\* What both verifiers say of a route with its flash candidate.
Metrics(r, g) == [route |-> r, profit |-> Geometry[g].profit, repays |-> Geometry[g].profit >= MinProfit]

\* Mutated form: a candidate counts as verified whether or not it repays.
Verified_NoRepayment(m) == Routes[m.route].delta >= MinDelta /\ Survivors(m.route) > 0

\* locally_verified.
Verified(m) == Routes[m.route].delta >= MinDelta /\ Survivors(m.route) > 0 /\ m.repays

-----------------------------------------------------------------------------
Init ==
    /\ strategy \in Packets /\ instant \in 0 .. (MaxTtl + 1) * PartsOfSecond
    /\ step = "packet" /\ base = Nothing /\ judged = << >> /\ uplift = Nothing

\* A refusal, a verifier that fails or times out, and a selection of no
\* candidate raise out of the run, which then writes nothing.
Raise ==
    /\ step \in {"packet", "baseline", "hints"}
    /\ step = "packet" => ~Consumable(strategy, instant)
    /\ step' = "raised"
    /\ UNCHANGED <<strategy, instant, base, judged, uplift>>

Consume ==
    /\ step = "packet" /\ Consumable(strategy, instant)
    /\ step' = "baseline"
    /\ UNCHANGED <<strategy, instant, base, judged, uplift>>

\* run_seeded_benchmark.
RunBaseline ==
    /\ step = "baseline"
    /\ \E r \in BestRoutes : \E g \in BestFlash(r, Providers, Buckets) : base' = Metrics(r, g)
    /\ step' = "hints"
    /\ UNCHANGED <<strategy, instant, judged, uplift>>

\* _evaluate_hint: a provider named twice is a ValueError.
EvaluateHint ==
    /\ step = "hints"
    /\ \E i \in Pending :
         LET h == strategy.proposals[i] IN
         /\ \A j \in Pending : h.id <= strategy.proposals[j].id
         /\ IsInjective(h.providers)
         /\ \E g \in BestFlash(h.route, ToSet(h.providers), h.buckets) :
              judged' = Append(judged, [hint |-> i, metrics |-> Metrics(h.route, g)])
    /\ UNCHANGED <<strategy, instant, step, base, uplift>>

\* The class of one comparison.
Class(m) ==
    IF ~Verified(m) THEN "rejected"
    ELSE IF \/ SurvivesMore(m.route, base.route) \/ Worst(m.route) > Worst(base.route)
            \/ m.profit > base.profit \/ m.route # base.route
         THEN "positive"
    ELSE "neutral"

\* run_seeded_planning_uplift compares, and main writes the receipt.
Write ==
    /\ step = "hints" /\ Pending = {}
    /\ LET classes == [k \in DOMAIN judged |-> Class(judged[k].metrics)] IN
       uplift' = [comparisons |-> classes,
                  overall |-> IF "positive" \in ToSet(classes) THEN "positive"
                              ELSE IF "neutral" \in ToSet(classes) THEN "neutral"
                              ELSE "no_verified_uplift"]
    /\ step' = "written"
    /\ UNCHANGED <<strategy, instant, base, judged>>

Next == Raise \/ Consume \/ RunBaseline \/ EvaluateHint \/ Write

-----------------------------------------------------------------------------
\* A positive receipt is earned: its packet was whole, had not expired and was
\* less than a second past the lifetime that its ttl states (the fraction that
\* the comparison of the ttl with the timestamps drops), and
\* one of its hints, with a provider and an amount of its own that are local,
\* repays with the profit required on a route that survives, and either takes
\* another route than the baseline or makes more of the same one; a hint on the
\* baseline's own route gains nothing but profit.
UpliftEarned ==
    uplift.overall = "positive" =>
        /\ strategy.broken = {} /\ instant < strategy.expires
        /\ instant < strategy.compiled + (strategy.ttl + 1) * PartsOfSecond
        /\ \E i \in DOMAIN strategy.proposals :
             LET h == strategy.proposals[i] IN
             \E p \in ToSet(h.providers), b \in h.buckets :
                 /\ <<h.route, p, b>> \in DOMAIN Geometry
                 /\ Geometry[<<h.route, p, b>>].capacity /\ Geometry[<<h.route, p, b>>].profit >= MinProfit
                 /\ Survivors(h.route) > 0
                 /\ h.route = base.route => Geometry[<<h.route, p, b>>].profit > base.profit
=============================================================================
