----------------------------- MODULE EveQPrograms -----------------------------
(***************************************************************************)
(* Programs of Eve Q side by side: those of the Gate 1 pilot (the bounded  *)
(* soak, the failure campaign), the evaluators of its evidence (sources,   *)
(* second source, corpus, gauntlets, convergence, closure) and those of    *)
(* signals, strategies and authority (the TTL policy and lattice, scrolls, *)
(* the Hecate gate, strategy packets).  Each is a program of its own that  *)
(* shares document checks and no state with the others: a behaviour runs   *)
(* one of them.                                                            *)
(***************************************************************************)
EXTENDS Gate1Documents, Integers

CONSTANTS
    Observations, ComparisonUnit, Tolerance, MaxSources, MaxTime, MaxRevisions,
    MaxReviewTime,
    Corpora, Unit, MinImprovement, MaxRatio, MinSeeds, MaxSpread, ObjectiveTolerance,
    Targets, SeedResidues, One, RelParts, AbsParts,
    EvidenceBundles, Contracts, MaxDrafts,
    Checks, DraftChecks, EvidenceTypes, Clauses, Rollbacks, Lifetime, MaxLifetime, MaxClosureTime, MaxEdits,
    TtlPolicies, Minutes, MaxRenewals,
    Lattices, Ttls, MaxInstant, MaxGrants,
    Definitions, Chains,
    Envelopes, MaxAge, Skew, Maturation, MaxMoment, NetworkTargets, MaxAdmissions,
    Packets, Routes, Geometry, MinDelta, MinProfit, MaxPacketTtl, PartsOfSecond,
    Candidates, Bundles, Commit, CaptureCount, Interval, MaxChanges,
    Source, FirstAddress, SecondAddress, Loopback, MaxCycles

VARIABLES
    program,
    packet, evaluatedAt, decision, text, writing, revisions,
    candidate, lapsed, replaced,
    corpus, next, seen, results, holds, overall,
    target, baseline, done, gauntlet,
    evidence, contract, charity, charityCopied, certificate, certificateText, certifying, drafts,
    threat, proposal, edits, verified,
    ttlPolicy, mode, minutes, result, renewals,
    lattice, state, clocks, lastReceipt, grants,
    scrolls, composite, proposed, listing,
    moment, known, context, inbox, buffer, field, barred,
    strategy, instant, step, base, judged, uplift,
    review, plan, pc, dir, held, stored, taken, accepted, trigger, rollback, summary,
    environment, changes,
    status, cycles, block, counts, passes, verdict

Consensus == INSTANCE SourceConsensus
SecondReview == INSTANCE SecondSource
Corpus == INSTANCE BenchmarkCorpus
Gauntlet == INSTANCE VivGauntlet
Convergence == INSTANCE EvidenceConvergence
Closure == INSTANCE GateClosure
Policy == INSTANCE TtlPolicy
Lattice == INSTANCE TtlLattice
Scrolls == INSTANCE ScrollProtocol WITH proposal <- proposed
Hecate == INSTANCE HecateGate WITH Targets <- NetworkTargets
Planning == INSTANCE PlanningUplift WITH MaxTtl <- MaxPacketTtl
Soak == INSTANCE BoundedSoak
Failures == INSTANCE FailureCampaign WITH
    TestSource <- Source, First <- FirstAddress, Second <- SecondAddress

ASSUME ProgramsAssumption ==
    /\ Consensus!ConsensusAssumption /\ SecondReview!SecondSourceAssumption /\ Corpus!CorpusAssumption
    /\ Gauntlet!GauntletAssumption
    /\ Convergence!ConvergenceAssumption /\ Closure!ClosureAssumption
    /\ Policy!PolicyAssumption /\ Lattice!LatticeAssumption
    /\ Scrolls!ScrollAssumption /\ Hecate!GateAssumption /\ Planning!UpliftAssumption
    /\ Soak!SoakAssumption /\ Failures!CampaignAssumption

consensusVars == <<packet, evaluatedAt, decision, text, writing, revisions>>
secondVars == <<candidate, lapsed, replaced>>
corpusVars == <<corpus, next, seen, results, holds, overall>>
gauntletVars == <<target, baseline, done, gauntlet>>
convergenceVars == <<evidence, contract, charity, charityCopied, certificate, certificateText, certifying, drafts>>
closureVars == <<threat, proposal, edits, verified>>
policyVars == <<ttlPolicy, mode, minutes, result, renewals>>
latticeVars == <<lattice, state, clocks, lastReceipt, grants>>
scrollVars == <<scrolls, composite, proposed, listing>>
hecateVars == <<moment, known, context, inbox, buffer, field, barred>>
planningVars == <<strategy, instant, step, base, judged, uplift>>
soakVars == <<review, plan, pc, dir, held, stored, taken, accepted, trigger, rollback, summary,
              environment, changes>>
campaignVars == <<status, cycles, block, counts, passes, verdict>>
vars == <<program, consensusVars, secondVars, corpusVars, gauntletVars, convergenceVars, closureVars,
          policyVars, latticeVars, scrollVars, hecateVars, planningVars, soakVars, campaignVars>>

Programs == {"consensus", "second", "corpus", "gauntlet", "convergence", "closure", "policy", "lattice",
             "scrolls", "hecate", "planning", "soak", "campaign"}

\* One choice for what a program that does not run starts from.
Runs(p, x, S) == program = p \/ x = CHOOSE y \in S : TRUE

Init ==
    /\ program \in Programs
    /\ Consensus!Init /\ Runs("consensus", packet, {p \in SUBSET Observations : Consensus!PacketValid(p)})
    /\ SecondReview!Init
    /\ \/ program = "second"
       \/ candidate.bodyExact /\ candidate.bounded /\ candidate.relationship = "SHARED_OR_UNKNOWN"
    /\ Corpus!Init /\ Runs("corpus", corpus, Corpora)
    /\ Gauntlet!Init /\ Runs("gauntlet", target, Targets)
    /\ Convergence!Init /\ Runs("convergence", contract, Contracts)
    /\ Runs("convergence", evidence, {Convergence!WithCharity(b, FALSE) : b \in EvidenceBundles})
    /\ Closure!Init /\ Runs("closure", threat.rollback, Rollbacks)
    /\ program = "closure" \/ threat.satisfied = Clauses
    /\ Policy!Init /\ Runs("policy", ttlPolicy, TtlPolicies)
    /\ Runs("policy", mode, DOMAIN ttlPolicy.modes) /\ Runs("policy", minutes, Minutes)
    /\ Lattice!Init /\ Runs("lattice", lattice, Lattices) /\ Runs("lattice", state, DOMAIN lattice.rank)
    /\ Scrolls!Init
    /\ Hecate!Init
    /\ \/ program = "hecate"
       \/ context.reviewed = {} /\ context.ready /\ context.safe
    /\ Planning!Init /\ Runs("planning", strategy, Packets) /\ Runs("planning", instant, {0})
    /\ Soak!Init /\ Failures!Init
    /\ Runs("soak", environment, {"clear"})

Rest(own) ==
    /\ own # "consensus" => UNCHANGED consensusVars
    /\ own # "second" => UNCHANGED secondVars
    /\ own # "corpus" => UNCHANGED corpusVars
    /\ own # "gauntlet" => UNCHANGED gauntletVars
    /\ own # "convergence" => UNCHANGED convergenceVars
    /\ own # "closure" => UNCHANGED closureVars
    /\ own # "policy" => UNCHANGED policyVars
    /\ own # "lattice" => UNCHANGED latticeVars
    /\ own # "scrolls" => UNCHANGED scrollVars
    /\ own # "hecate" => UNCHANGED hecateVars
    /\ own # "planning" => UNCHANGED planningVars
    /\ own # "soak" => UNCHANGED soakVars
    /\ own # "campaign" => UNCHANGED campaignVars

Next ==
    /\ UNCHANGED program
    /\ \/ program = "consensus" /\ Consensus!Next
       \/ program = "second" /\ SecondReview!Next
       \/ program = "corpus" /\ Corpus!Next
       \/ program = "gauntlet" /\ Gauntlet!Next
       \/ program = "convergence" /\ Convergence!Next
       \/ program = "closure" /\ Closure!Next
       \/ program = "policy" /\ Policy!Next
       \/ program = "lattice" /\ Lattice!Next
       \/ program = "scrolls" /\ Scrolls!Next
       \/ program = "hecate" /\ Hecate!Next
       \/ program = "planning" /\ Planning!Next
       \/ program = "soak" /\ Soak!Next
       \/ program = "campaign" /\ Failures!Next
    /\ Rest(program)

Spec == Init /\ [][Next]_vars

-----------------------------------------------------------------------------
\* The properties of the programs, as their modules state them, in the behaviours
\* that run the program.
Of(p, property) == program = p => property
ConsensusExact == Of("consensus", Consensus!ConsensusExact)
LapseIsFinal == Of("second", SecondReview!LapseIsFinal)
VerdictEarned == Of("corpus", Corpus!VerdictEarned)
EscapesAtTolerance == Of("gauntlet", Gauntlet!EscapesAtTolerance)
ReadyEarned == Of("convergence", Convergence!ReadyEarned)
PassPinsThreatModel == Of("closure", Closure!PassPinsThreatModel)
ListingServes == Of("scrolls", Scrolls!ListingServes)
BarredStaysOut == Of("hecate", Hecate!BarredStaysOut)
UpliftEarned == Of("planning", Planning!UpliftEarned)
SummaryTrue == Of("soak", Soak!SummaryTrue)
SoakKeepsPromise == Soak!SoakKeepsPromise
CampaignPasses == Of("campaign", Failures!CampaignPasses)

\* No evaluation of a mode or a state raises its authority.
AuthorityOnlyFalls == Policy!NeverPromotes /\ Lattice!NeverPromotes
=============================================================================
