--------------------------- MODULE BenchmarkCorpus ---------------------------
(***************************************************************************)
(* The fixed classical/QAOA corpus (eve_q/gate1a1_benchmark_corpus.py).     *)
(* Cases are evaluated one after the other; a case that raises ValueError   *)
(* is noted and the next one is evaluated, anything else ends the           *)
(* evaluation.  Coefficients are integers, so that the tolerances of 1e-12  *)
(* are exact; fractions are parts of Unit.                                  *)
(***************************************************************************)
EXTENDS Integers, FiniteSets, Sequences, SequencesExt

CONSTANTS
    Corpora,            \* sequences of cases
    Unit,               \* 1.0
    MinImprovement,     \* candidate_min_runtime_improvement_fraction
    MaxRatio,           \* candidate_max_resource_ratio
    MinSeeds,           \* minimum_seed_count
    MaxSpread,          \* maximum_objective_spread
    ObjectiveTolerance  \* objective_tolerance

\* What _parse_qubo and _validate_run make of a case whose types they expect.
QuboShaped(q) ==
    /\ q.linear \in Seq(Int) \ {<< >>} /\ q.constant \in Int
    /\ IsFiniteSet(DOMAIN q.quadratic) /\ \A p \in DOMAIN q.quadratic : q.quadratic[p] \in Int
CaseShaped(c) ==
    /\ QuboShaped(c.qubo) /\ c.classical.runtime \in Int
    /\ c.runs \in Seq(ToSet(c.runs)) /\ \A r \in ToSet(c.runs) : r.runtime \in Int

CorpusAssumption ==
    /\ Unit \in Nat \ {0} /\ MinImprovement \in Nat /\ MaxRatio \in Nat
    /\ MinSeeds \in Nat \ {0, 1} /\ MaxSpread \in Nat /\ ObjectiveTolerance \in Nat
    /\ \A k \in Corpora : k \in Seq(ToSet(k)) /\ \A c \in ToSet(k) : c.typed => CaseShaped(c)

VARIABLES
    corpus,
    next,           \* the case to evaluate
    seen,           \* identifiers of the cases evaluated
    results,        \* [case, outcome]
    holds,          \* hold_reasons: the cases, or 0 for the corpus
    overall         \* overall_outcome

vars == <<corpus, next, seen, results, holds, overall>>

-----------------------------------------------------------------------------
(* A QUBO is [linear, quadratic, constant, constraints]: coefficients of the *)
(* variables 1 .. n, of pairs <<i, j>>, and [kind, members] constraints.     *)

Size(q) == Len(q.linear)

\* _objective of an assignment, a sequence of bits.
Objective(q, a) ==
    LET chosen == {i \in 1 .. Size(q) : a[i] = 1}
        pairs == {p \in DOMAIN q.quadratic : p[1] \in chosen /\ p[2] \in chosen} IN
    q.constant + FoldFunctionOnSet(+, 0, q.linear, chosen)
               + FoldFunctionOnSet(+, 0, q.quadratic, pairs)

Ones(a, members) == Cardinality({i \in members : a[i] = 1})

\* _feasible.
Feasible(q, a) ==
    \A c \in q.constraints :
        IF c.kind = "at_most_one" THEN Ones(a, c.members) <= 1 ELSE Ones(a, c.members) = 1

\* itertools.product((0, 1), repeat=n): each prefix in turn, with a 0 and with a 1.
Assignments(n) ==
    LET product[m \in 0 .. n] ==
            IF m = 0 THEN << << >> >>
            ELSE LET prefixes == product[m - 1] IN
                 [k \in 1 .. 2 * Len(prefixes) |-> Append(prefixes[(k + 1) \div 2], (k + 1) % 2)]
    IN product[n]

\* Mutated form: a later assignment with the same objective replaces the best.
Exact_Last(q) ==
    LET A == Assignments(Size(q))
        best[k \in 0 .. Len(A)] ==
            IF k = 0 THEN << >>
            ELSE LET a == A[k] b == best[k - 1] IN
                 IF Feasible(q, a) /\ (b = << >> \/ Objective(q, a) <= Objective(q, b)) THEN a ELSE b
    IN best[Len(A)]

\* _exact_classical_solution: a scan that keeps the first best, << >> if none.
Exact(q) ==
    LET A == Assignments(Size(q))
        best[k \in 0 .. Len(A)] ==
            IF k = 0 THEN << >>
            ELSE LET a == A[k] b == best[k - 1] IN
                 IF Feasible(q, a) /\ (b = << >> \/ Objective(q, a) < Objective(q, b)) THEN a ELSE b
    IN best[Len(A)]

-----------------------------------------------------------------------------
(* Runs are [seed, assignment, objective, feasible, runtime, resources].     *)

\* _validate_run.
RunValid(q, r) ==
    /\ Len(r.assignment) = Size(q) /\ \A i \in DOMAIN r.assignment : r.assignment[i] \in {0, 1}
    /\ r.objective = Objective(q, r.assignment)
    /\ r.feasible = Feasible(q, r.assignment)
    /\ r.runtime >= 0 /\ r.resources >= 0

\* The value that stands at place k when a sequence is sorted.
Ranked(s, k) ==
    CHOOSE v \in ToSet(s) : /\ Cardinality({i \in DOMAIN s : s[i] < v}) < k
                            /\ Cardinality({i \in DOMAIN s : s[i] <= v}) >= k

\* Twice statistics.median.
Median2(s) == Ranked(s, (Len(s) + 1) \div 2) + Ranked(s, Len(s) \div 2 + 1)

Field(runs, name) == [i \in DOMAIN runs |-> runs[i][name]]
Objectives(c) == {r.objective : r \in ToSet(c.runs)}
Spread(c) == CHOOSE d \in {x - y : x, y \in Objectives(c)} : \A x, y \in Objectives(c) : x - y <= d

\* Mutated form: a run that uses as much as the baseline does may be a candidate.
Improves_Always(c) == TRUE

\* runtime_improvement and resource_ratio; a baseline of zero has neither.
Improves(c) ==
    LET time == Median2(Field(c.runs, "runtime"))
        used == Median2(Field(c.runs, "resources")) IN
    /\ c.classical.runtime > 0
    /\ (2 * c.classical.runtime - time) * Unit >= MinImprovement * 2 * c.classical.runtime
    /\ c.classical.resources > 0
    /\ used * Unit <= MaxRatio * 2 * c.classical.resources

\* The outcome that _evaluate_case derives.
Outcome(c) ==
    LET notWorse == \A v \in Objectives(c) : v <= c.classical.objective + ObjectiveTolerance
        agree == \A r \in ToSet(c.runs) : r.assignment = c.classical.assignment IN
    IF Spread(c) > MaxSpread \/ ~notWorse \/ ~agree THEN "QAOA_RESEARCH_ONLY"
    ELSE IF Improves(c) THEN "QAOA_CANDIDATE_FOR_FURTHER_TESTING"
    ELSE "QAOA_ADDS_NO_MEASURABLE_VALUE"

\* _evaluate_case, when it raises nothing.
CaseValid(c) ==
    /\ RunValid(c.qubo, c.classical) /\ c.classical.feasible
    /\ Exact(c.qubo) # << >> /\ c.classical.assignment = Exact(c.qubo)
    /\ c.paired
    /\ Len(c.runs) >= MinSeeds
    /\ \A r \in ToSet(c.runs) : RunValid(c.qubo, r) /\ r.feasible
    /\ \A i, j \in DOMAIN c.runs : i # j => c.runs[i].seed # c.runs[j].seed
    /\ Outcome(c) = c.expected

-----------------------------------------------------------------------------
Init ==
    /\ corpus \in Corpora
    /\ next = 1 /\ seen = {} /\ results = << >> /\ holds = << >> /\ overall = ""

Evaluating == overall = "" /\ next <= Len(corpus)

\* A case repeated, or a value of a type that no check expects, leaves the loop.
Aborts(c) == c.id \in seen \/ ~c.typed

Abort ==
    /\ Evaluating /\ Aborts(corpus[next])
    /\ next' = Len(corpus) + 1 /\ holds' = Append(holds, 0)
    /\ UNCHANGED <<corpus, seen, results, overall>>

EvaluateCase ==
    /\ Evaluating /\ ~Aborts(corpus[next])
    /\ seen' = seen \cup {corpus[next].id}
    /\ next' = next + 1
    /\ IF CaseValid(corpus[next])
       THEN /\ results' = Append(results, [case |-> next, outcome |-> Outcome(corpus[next])])
            /\ UNCHANGED holds
       ELSE holds' = Append(holds, next) /\ UNCHANGED results
    /\ UNCHANGED <<corpus, overall>>

\* The outcome of the corpus; one without cases is a hold.
Conclude ==
    /\ overall = "" /\ next > Len(corpus)
    /\ LET outcomes == {r.outcome : r \in ToSet(results)} IN
       overall' = IF holds # << >> \/ corpus = << >> THEN "HOLD"
                  ELSE IF outcomes = {"QAOA_CANDIDATE_FOR_FURTHER_TESTING"}
                       THEN "QAOA_CANDIDATE_FOR_FURTHER_TESTING"
                  ELSE IF outcomes \subseteq {"QAOA_ADDS_NO_MEASURABLE_VALUE"}
                       THEN "QAOA_ADDS_NO_MEASURABLE_VALUE"
                  ELSE "QAOA_RESEARCH_ONLY"
    /\ UNCHANGED <<corpus, next, seen, results, holds>>

Next == Abort \/ EvaluateCase \/ Conclude

-----------------------------------------------------------------------------
\* The solution every case is to be measured against: of the feasible
\* assignments with the least objective, the first in the order of the bits.
Before(a, b) == \E i \in DOMAIN a : a[i] < b[i] /\ \A j \in 1 .. i - 1 : a[j] = b[j]
Optimal(q, a) ==
    /\ Feasible(q, a)
    /\ \A b \in [1 .. Size(q) -> {0, 1}] :
         Feasible(q, b) =>
            \/ Objective(q, a) < Objective(q, b)
            \/ Objective(q, a) = Objective(q, b) /\ (a = b \/ Before(a, b))

Faster(c) ==
    2 * Cardinality({i \in DOMAIN c.runs : c.runs[i].runtime < c.classical.runtime}) >= Len(c.runs)

\* A verdict other than HOLD leaves no case of the corpus out, whatever
\* exception or repeated case met the loop, and each was compared, on at least
\* MinSeeds seeds, with the optimum.  Where it is CANDIDATE, QAOA found the
\* optimum on every seed of every case and in less time, at the median, than
\* the baseline.
VerdictEarned ==
    overall \notin {"", "HOLD"} =>
        /\ Len(results) = Len(corpus)
        /\ \A i \in DOMAIN corpus : LET c == corpus[i] IN
             /\ Optimal(c.qubo, c.classical.assignment)
             /\ Cardinality({r.seed : r \in ToSet(c.runs)}) >= MinSeeds
             /\ overall = "QAOA_CANDIDATE_FOR_FURTHER_TESTING" =>
                  /\ \A r \in ToSet(c.runs) : Optimal(c.qubo, r.assignment)
                  /\ MinImprovement > 0 => Faster(c)
=============================================================================
