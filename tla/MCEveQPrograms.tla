---------------------------- MODULE MCEveQPrograms ----------------------------
(* Small inputs: a good document of each kind and ones that differ from it in a field. *)
EXTENDS EveQPrograms, TLC, Sequences

VA == INSTANCE VivArtifacts

\* For the operators that the inputs are computed with.
NoCorpus == INSTANCE BenchmarkCorpus WITH Corpora <- {}
NoPlan == INSTANCE PlanningUplift WITH Packets <- {}, MaxTtl <- MaxPacketTtl

\* Observations: two that agree, and others next to them.
Seen == [id |-> "a", value |-> 10, decimals |-> "known", unit |-> "block", comparisonUnit |-> "block",
         conversion |-> "identity", factor |-> 1, group |-> "g1", expires |-> 2, review |-> "ELIGIBLE",
         reviewExpires |-> 2]
Second2 == [Seen EXCEPT !.id = "b", !.group = "g2", !.value = 11]
MCObservations ==
    {Seen, Second2, [Seen EXCEPT !.id = "c", !.group = "g3", !.value = 12],
     [Second2 EXCEPT !.expires = 1], [Second2 EXCEPT !.reviewExpires = 1],
     [Second2 EXCEPT !.reviewExpires = -1], [Second2 EXCEPT !.review = "HOLD"],
     [Second2 EXCEPT !.group = "g1"], [Second2 EXCEPT !.decimals = "unknown"],
     [Second2 EXCEPT !.conversion = "decimal_scale", !.unit = "kblock", !.value = 1, !.factor = 10],
     [Second2 EXCEPT !.comparisonUnit = "wei", !.unit = "wei"]}

\* Cases: two variables, at most one of them; selecting the second is best.
Qubo == [linear |-> <<-1, -2>>, quadratic |-> <<1, 2>> :> 5, constant |-> 0,
         constraints |-> {[kind |-> "at_most_one", members |-> {1, 2}]}]
Level == [Qubo EXCEPT !.linear = <<-2, -2>>]
Run(q, seed, a, time, used) ==
    [seed |-> seed, assignment |-> a, objective |-> NoCorpus!Objective(q, a), feasible |-> NoCorpus!Feasible(q, a),
     runtime |-> time, resources |-> used]
Case(id, q, a, time, used, expected) ==
    [id |-> id, typed |-> TRUE, qubo |-> q, classical |-> Run(q, 0, a, 10, 10),
     runs |-> <<Run(q, 1, a, time, used), Run(q, 2, a, time + 1, used)>>, paired |-> TRUE, expected |-> expected]
Better == Case("a", Qubo, <<0, 1>>, 3, 10, "QAOA_CANDIDATE_FOR_FURTHER_TESTING")
Same == Case("b", Qubo, <<0, 1>>, 10, 10, "QAOA_ADDS_NO_MEASURABLE_VALUE")
Tie == Case("c", Level, <<0, 1>>, 10, 10, "QAOA_ADDS_NO_MEASURABLE_VALUE")
OtherTie == Case("d", Level, <<1, 0>>, 10, 10, "QAOA_ADDS_NO_MEASURABLE_VALUE")
Even == [Better EXCEPT !.id = "e", !.runs = Same.runs]
MCCases == {Better, Same, Tie, OtherTie, Even, [Better EXCEPT !.typed = FALSE], [Same EXCEPT !.paired = FALSE],
            [Better EXCEPT !.runs[1].assignment = <<1, 0>>], [Same EXCEPT !.runs[2].seed = 1]}
MCCorpora == {<< >>} \cup {<<c>> : c \in MCCases} \cup {<<c, d>> : c, d \in MCCases}

\* Receipts of two and three scenarios, and evidence bundles.
Outcome(id, passing, profitable, delta) ==
    [id |-> id, passes |-> passing, profitable |-> profitable, delta |-> delta,
     reasons |-> {r \in VA!Reasons : \/ r = "not_profitable" /\ ~profitable
                                     \/ r = "below_minimum_margin" /\ ~passing}]
Sourced(id, group, value) ==
    [id |-> id, operator |-> id, group |-> group, value |-> value, lost |-> {}, units |-> "block_number",
     fresh |-> TRUE, review |-> "ELIGIBLE"]
AllSurvive == VA!MarketArtifact(<<Outcome(1, TRUE, TRUE, 2), Outcome(2, TRUE, TRUE, 3)>>)
MCReceipts ==
    {AllSurvive, [AllSurvive EXCEPT !.rate = <<99, 100>>], [AllSurvive EXCEPT !.rate = <<9, 11>>]}
    \cup {VA!MarketArtifact(rs) : rs \in
            {<<Outcome(1, TRUE, TRUE, 2), Outcome(2, FALSE, TRUE, 1), Outcome(3, FALSE, FALSE, -1)>>,
             <<Outcome(1, FALSE, FALSE, -2), Outcome(2, FALSE, FALSE, -2)>>,
             <<Outcome(1, TRUE, TRUE, 40), Outcome(2, TRUE, TRUE, 40)>>,
             <<Outcome(1, TRUE, TRUE, 39), Outcome(2, FALSE, TRUE, 35)>>}}
Twice(group, v, w, lost) == VA!Bundle(<<Sourced("a", "g1", v), [Sourced("b", group, w) EXCEPT !.lost = lost]>>)
MCTargets ==
    {[kind |-> "market", artifact |-> a] : a \in MCReceipts}
    \cup {[kind |-> "bundle", artifact |-> b] : b \in
            {Twice("g1", 20, 20, {}), Twice("g2", 20, 20, {}), Twice("g2", 20, 23, {}), Twice("g2", 20, 24, {}),
             Twice("g2", 2, -2, {}), Twice("g2", -4, -4, {}), Twice("g2", 80, 80, {1, 2})}}

\* Evidence bundles: complete, and short of one thing.
Whole == [missing |-> {}, decision |-> "ACCEPT_OBSERVATION_ONLY", sources |-> 2, flags |-> {}, escaped |-> 0,
          value |-> TRUE]
MCEvidence == {Whole, [Whole EXCEPT !.value = FALSE], [Whole EXCEPT !.sources = 1], [Whole EXCEPT !.escaped = 1],
               [Whole EXCEPT !.missing = {"clean_tree"}], [Whole EXCEPT !.flags = {"stale_evidence"}],
               [Whole EXCEPT !.decision = "HOLD_STALE"]}
Charity == [broken |-> {}, interval |-> <<2, 4>>, estimate |-> 3, sealed |-> TRUE]
MCContracts == {Charity, [Charity EXCEPT !.estimate = 5], [Charity EXCEPT !.estimate = 1],
                [Charity EXCEPT !.broken = {"no_transfer"}], [Charity EXCEPT !.sealed = FALSE]}

\* The chain of the shipped policy with smaller times, and one that is refused.
Mode(to, required, max) == [target |-> to, required |-> required, max |-> max]
Shipped == [declared |-> TRUE,
            rank |-> "artifact_only" :> 0 @@ "testnet" :> 1 @@ "human_gated" :> 2 @@ "autonomy" :> 3,
            modes |-> "artifact_only" :> Mode("artifact_only", FALSE, -1)
                      @@ "testnet" :> Mode("artifact_only", TRUE, 8)
                      @@ "human_gated" :> Mode("testnet", TRUE, 4)
                      @@ "autonomy" :> Mode("human_gated", TRUE, 2)]
MCPolicies == {Shipped, [Shipped EXCEPT !.declared = FALSE],
               [Shipped EXCEPT !.modes["testnet"].target = "autonomy"],
               [Shipped EXCEPT !.modes["autonomy"].max = 0]}

Ladder == [declared |-> TRUE, rank |-> "inert" :> 0 @@ "review" :> 1 @@ "proposal" :> 2,
           clocks |-> "market" :> [required |-> TRUE, max |-> 2, target |-> "inert"]
                      @@ "intent" :> [required |-> FALSE, max |-> 1, target |-> "review"]]
MCLattices == {Ladder, [Ladder EXCEPT !.rank["review"] = 2], [Ladder EXCEPT !.clocks["intent"].target = "none"]}

Scroll(f, v, chains) == [family |-> f, version |-> v, chains |-> chains]
MCDefinitions == {Scroll("s", 1, {"*"}), Scroll("s", 2, {"eth"}), Scroll("s", 2, {"*"}), Scroll("t", 1, {"eth"})}

Envelope(p, t, flaws, targets) == [payload |-> p, observed |-> t, flaws |-> flaws, targets |-> targets]
MCEnvelopes == {Envelope("p", 0, {}, {}), Envelope("p", 1, {}, {"n"}), Envelope("q", 1, {"provenance_missing"}, {}),
                Envelope("r", 0, {"secret_shape"}, {})}

\* Two routes; on the better one a larger bucket earns more at a lower rate.
MCRoutes == "r1" :> [delta |-> 9, shifts |-> <<5, -2>>] @@ "r2" :> [delta |-> 7, shifts |-> <<6, 1>>]
            @@ "r3" :> [delta |-> 2, shifts |-> <<-1, -4>>]
MCGeometry == <<"r1", "p", 1>> :> [delta |-> 8, profit |-> 4, capacity |-> TRUE]
              @@ <<"r1", "p", 2>> :> [delta |-> 6, profit |-> 9, capacity |-> TRUE]
              @@ <<"r1", "o", 2>> :> [delta |-> 10, profit |-> 11, capacity |-> FALSE]
              @@ <<"r2", "p", 1>> :> [delta |-> 5, profit |-> 2, capacity |-> TRUE]
              @@ <<"r3", "p", 2>> :> [delta |-> 1, profit |-> 5, capacity |-> TRUE]
Hint(id, r, ps, bs) == [id |-> id, local |-> TRUE, route |-> r, providers |-> ps, buckets |-> bs]
Evidence == <<[provider |-> "claude", ok |-> TRUE], [provider |-> "grok", ok |-> FALSE]>>
Pack(hints) ==
    [sealed |-> TRUE, broken |-> {}, compiled |-> 0, expires |-> 4, ttl |-> 2, evidence |-> Evidence,
     summary |-> NoPlan!SummaryOf(Evidence), proposals |-> hints]
MCHints == {Hint(1, "r1", <<"p">>, {1}), Hint(2, "r1", <<"p", "o">>, {2}), Hint(3, "r2", <<"p">>, {1}),
            Hint(4, "r3", <<"p">>, {2}), Hint(5, "r1", <<"p", "p">>, {1}), Hint(6, "r9", <<"p">>, {1})}
Plain == Pack(<<Hint(2, "r1", <<"p">>, {2})>>)
MCPackets == {Pack(<<g, h>>) : g, h \in MCHints} \cup {Pack(<<h>>) : h \in MCHints}
             \cup {[Plain EXCEPT !.sealed = FALSE], [Plain EXCEPT !.broken = {"lineage"}], [Plain EXCEPT !.ttl = 1],
                   [Plain EXCEPT !.expires = 5], [Plain EXCEPT !.expires = 6],
                   [Plain EXCEPT !.summary.successful = 2], Pack(<< >>)}

\* The pilot: one good candidate, and candidates that differ from it in one field.
Base == [id |-> "s", kind |-> "market_snapshot", https |-> TRUE, credentials |-> FALSE,
         host |-> "api", port |-> 443, allowed |-> {"api"}, method |-> "GET", auth |-> "NONE",
         reference |-> "none", types |-> {"application/json"}, ttl |-> 1, bytes |-> 2, rate |-> 1,
         redirects |-> "NO_REDIRECTS", timeout |-> 5]
Keyed == [Base EXCEPT !.auth = "READ_ONLY_CREDENTIAL"]

Sources == {Base, [Base EXCEPT !.id = "t"], [Base EXCEPT !.https = FALSE],
            [Base EXCEPT !.port = 80], [Base EXCEPT !.host = "other"], [Base EXCEPT !.method = "POST"],
            [Base EXCEPT !.ttl = 0], Keyed, [Keyed EXCEPT !.reference = "read_only"]}

Clear(s) == [source |-> s, concentration |-> "LOW", mitigated |-> FALSE, terms |-> "REVIEWED_COMPATIBLE",
             transport |-> "ACCEPTED_WITH_CONTROLS", rollback |-> TRUE, killSwitch |-> TRUE]

MCCandidates == {Clear(s) : s \in Sources} \cup
    {[Clear(Base) EXCEPT !.terms = "NOT_REVIEWED"], [Clear(Base) EXCEPT !.terms = "REVIEWED_RESTRICTED"],
     [Clear(Base) EXCEPT !.transport = "UNRESOLVED"], [Clear(Base) EXCEPT !.killSwitch = FALSE],
     [Clear(Base) EXCEPT !.concentration = "HIGH"],
     [Clear(Base) EXCEPT !.concentration = "HIGH", !.mitigated = TRUE]}

Text == [type |-> "text/plain", wellFormed |-> TRUE, newlines |-> 1, bytes |-> 2]

GoodBundle == [snapshot |-> Snapshot(Base, "c", Text, 0), raw |-> Text, normalized |-> Normalized(Text),
               receipt |-> Receipt(Base, "c", {2})]
MCBundles == {GoodBundle, [GoodBundle EXCEPT !.raw.bytes = 1], [GoodBundle EXCEPT !.snapshot.source = "t"],
              [GoodBundle EXCEPT !.receipt.source = "t"], [GoodBundle EXCEPT !.receipt.addresses = {1, 2}]}

=============================================================================
