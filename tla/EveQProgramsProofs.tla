--------------------------- MODULE EveQProgramsProofs ---------------------------
(***************************************************************************)
(* Proofs about the programs that stand side by side in EveQPrograms.  A   *)
(* step of one program leaves the state of the others alone, so each       *)
(* invariant below is one of a single program and is kept by the steps of  *)
(* that program.                                                           *)
(***************************************************************************)
EXTENDS EveQPrograms, WellFoundedInduction, NaturalsInduction, FiniteSetTheorems, SequenceTheorems, TLAPS

-----------------------------------------------------------------------------
(* The Hecate gate. *)

\* What bars an envelope does not pass with time.
HecateInv ==
    /\ moment \in Nat /\ barred \subseteq Envelopes
    /\ \A e \in barred : Hecate!Stale(e, moment) \/ e.flaws \cap Hecate!ReturnedFlaws # {}
    /\ Hecate!BarredStaysOut

LEMMA HecateInit == Init => HecateInv
BY DEF Init, Hecate!Init, HecateInv, Hecate!BarredStaysOut

LEMMA HecateKept == HecateInv /\ [Next]_vars => HecateInv'
<1> SUFFICES ASSUME HecateInv, [Next]_vars PROVE HecateInv'
  OBVIOUS
<1> USE DEF HecateInv
<1>a. MaxAge \in Nat /\ \A e \in Envelopes : e.observed \in Int
  BY ProgramsAssumption DEF Hecate!GateAssumption
<1>1. CASE UNCHANGED hecateVars
  BY <1>1 DEF hecateVars, Hecate!BarredStaysOut, Hecate!Stale
<1>2. ASSUME Hecate!Tick PROVE HecateInv'
  <2>1. \A e \in barred : Hecate!Stale(e, moment) => Hecate!Stale(e, moment')
    BY <1>a, <1>2 DEF Hecate!Tick, Hecate!Stale
  <2> QED
    BY <1>2, <2>1 DEF Hecate!Tick, Hecate!BarredStaysOut
<1>3. ASSUME Hecate!BuildContext \/ Hecate!Remember PROVE HecateInv'
  BY <1>3 DEF Hecate!BuildContext, Hecate!Remember, Hecate!BarredStaysOut, Hecate!Stale
<1>4. ASSUME Hecate!Admit \/ Hecate!Buffer \/ Hecate!Return PROVE HecateInv'
  BY <1>4 DEF Hecate!Admit, Hecate!Buffer, Hecate!Return, Hecate!BarredStaysOut, Hecate!Stale
<1>5. ASSUME NEW e \in Envelopes, Hecate!Present(e) PROVE HecateInv'
  <2>1. /\ moment' = moment
        /\ inbox'.outcome = Hecate!Outcome(e, context, moment) /\ inbox'.envelope = e
        /\ barred' = IF Hecate!Stale(e, moment) \/ e.flaws \cap Hecate!ReturnedFlaws # {}
                     THEN barred \cup {e} ELSE barred
    BY <1>5 DEF Hecate!Present
  <2>2. \A d \in barred' : Hecate!Stale(d, moment') \/ d.flaws \cap Hecate!ReturnedFlaws # {}
    BY <2>1
  <2>3. e \in barred' => inbox'.outcome # "allow"
    BY <2>1, <2>2 DEF Hecate!Outcome, Hecate!Returned, Hecate!Held
  <2> QED
    BY <1>5, <2>1, <2>2, <2>3 DEF Hecate!BarredStaysOut
<1> QED
  BY <1>1, <1>2, <1>3, <1>4, <1>5 DEF Next, Rest, vars, Hecate!Next

\* The gate: an envelope that was stale once, or was returned for what it is,
\* is never allowed again, through any contexts, buffering and time.
THEOREM BarredForGood == Spec => []BarredStaysOut
<1>1. HecateInv => BarredStaysOut
  BY DEF HecateInv, BarredStaysOut, Of
<1> QED
  BY <1>1, HecateInit, HecateKept, PTL DEF Spec

-----------------------------------------------------------------------------
(* The review of a second source. *)

\* A document has these fields, and times for numbers.
Document(c) ==
    /\ c = [generatedAt |-> c.generatedAt, decision |-> c.decision, bodyExact |-> c.bodyExact,
            bounded |-> c.bounded, relationship |-> c.relationship, terms |-> c.terms,
            reviewReceipt |-> c.reviewReceipt, expires |-> c.expires, capture |-> c.capture,
            captureReceipt |-> c.captureReceipt]
    /\ c.generatedAt \in Int /\ c.expires \in Int

\* The document carries the time of the last evaluation, which what was found
\* expired had not outlived.
SecondInv ==
    /\ Document(candidate) /\ replaced \in BOOLEAN
    /\ \A f \in lapsed : f.expires \in Int /\ SecondReview!LapsedAt(f, candidate.generatedAt)
    /\ SecondReview!LapseIsFinal

LEMMA SecondInit == Init => SecondInv
<1> SUFFICES ASSUME SecondReview!Init PROVE SecondInv
  BY DEF Init
<1>1. /\ Document(candidate) /\ lapsed = {} /\ replaced = FALSE
  BY DEF SecondReview!Init, Document, SecondReview!NoExpiry
<1> QED
  BY <1>1 DEF SecondInv, SecondReview!LapseIsFinal

LEMMA SecondKept == SecondInv /\ [Next]_vars => SecondInv'
<1> SUFFICES ASSUME SecondInv, [Next]_vars PROVE SecondInv'
  OBVIOUS
<1> USE DEF SecondInv
<1>a. MaxReviewTime \in Nat
  BY ProgramsAssumption DEF SecondReview!SecondSourceAssumption
<1>1. CASE UNCHANGED secondVars
  BY <1>1 DEF secondVars, SecondReview!LapseIsFinal, SecondReview!Facts, SecondReview!LapsedAt
<1>2. ASSUME NEW c, Document(c), c.generatedAt = candidate.generatedAt, SecondReview!Record(c)
      PROVE  SecondInv'
  BY <1>2 DEF SecondReview!Record, SecondReview!LapseIsFinal, SecondReview!LapsedAt
<1>3. ASSUME NEW v \in {"REVIEWED", "REJECTED"}, SecondReview!ReviewTerms(v) PROVE SecondInv'
  BY <1>2, <1>3 DEF SecondReview!ReviewTerms, Document
<1>4. ASSUME NEW s \in {"PASS", "FAIL"}, SecondReview!AttachCapture(s) PROVE SecondInv'
  BY <1>2, <1>4 DEF SecondReview!AttachCapture, Document
<1>5. ASSUME NEW t \in 1 .. MaxReviewTime, SecondReview!AttachReview(t) PROVE SecondInv'
  BY <1>a, <1>2, <1>5 DEF SecondReview!AttachReview, Document
<1>6. ASSUME NEW at \in 0 .. MaxReviewTime, SecondReview!Evaluate(at) PROVE SecondInv'
  <2>1. /\ candidate' = [candidate EXCEPT !.generatedAt = at, !.decision = SecondReview!Reviewed(candidate, at)]
        /\ lapsed' = IF SecondReview!LapsedAt(candidate, at)
                     THEN {SecondReview!Facts(candidate)} ELSE lapsed
        /\ replaced' = TRUE /\ at >= candidate.generatedAt
    BY <1>6 DEF SecondReview!Evaluate, SecondReview!Evaluable
  <2>2. Document(candidate) /\ at \in Int
    BY <1>a
  <2> DEFINE d == SecondReview!Reviewed(candidate, at)
  <2> HIDE DEF SecondInv, d
  <2>3. /\ Document(candidate') /\ candidate'.generatedAt = at
        /\ candidate'.decision = SecondReview!Reviewed(candidate, at)
        /\ SecondReview!Facts(candidate') = SecondReview!Facts(candidate)
        /\ SecondReview!Facts(candidate).expires = candidate.expires
    <3>1. candidate' = [candidate EXCEPT !.generatedAt = at, !.decision = d]
      BY <2>1 DEF d
    <3>2. /\ candidate'.generatedAt = at /\ candidate'.decision = d
          /\ candidate'.expires = candidate.expires
      BY <2>2, <3>1 DEF Document
    <3>3. candidate' = [generatedAt |-> at, decision |-> d, bodyExact |-> candidate.bodyExact,
             bounded |-> candidate.bounded, relationship |-> candidate.relationship,
             terms |-> candidate.terms, reviewReceipt |-> candidate.reviewReceipt,
             expires |-> candidate.expires, capture |-> candidate.capture,
             captureReceipt |-> candidate.captureReceipt]
      BY <2>2, <3>1 DEF Document
    <3>4. Document(candidate')
      BY <2>2, <3>2, <3>3 DEF Document
    <3>5. /\ SecondReview!Facts(candidate') = SecondReview!Facts(candidate)
          /\ SecondReview!Facts(candidate).expires = candidate.expires
      BY <2>2, <3>1 DEF SecondReview!Facts, Document
    <3> QED
      BY <3>2, <3>4, <3>5 DEF d
  <2> USE DEF SecondInv
  <2>4. \A f \in lapsed' : f.expires \in Int /\ SecondReview!LapsedAt(f, at)
    BY <1>a, <2>1, <2>3 DEF Document, SecondReview!LapsedAt
  <2>5. SecondReview!Facts(candidate') \in lapsed' => candidate.expires <= at
    BY <2>3, <2>4 DEF SecondReview!LapsedAt
  <2>6. candidate.expires <= at => candidate'.decision # "READY_FOR_ELIGIBILITY_REVIEW"
    BY <2>3 DEF SecondReview!Reviewed
  <2> QED
    BY <2>1, <2>3, <2>4, <2>5, <2>6 DEF SecondReview!LapseIsFinal
<1> QED
  BY <1>1, <1>3, <1>4, <1>5, <1>6 DEF Next, Rest, vars, SecondReview!Next

\* The second source: what an evaluation found expired is not made ready by
\* evaluating its own output again, at any of the times a caller may give.
THEOREM LapsesAreFinal == Spec => []LapseIsFinal
<1>1. SecondInv => LapseIsFinal
  BY DEF SecondInv, LapseIsFinal, Of
<1> QED
  BY <1>1, SecondInit, SecondKept, PTL DEF Spec

-----------------------------------------------------------------------------
(* The TTL policy and the lattice. *)

PolicyInv == ttlPolicy \in TtlPolicies /\ minutes \in Nat \cup {-1} /\ renewals \in Nat

LEMMA PolicyInit == Init => PolicyInv
BY ProgramsAssumption DEF Init, Policy!Init, PolicyInv, Policy!PolicyAssumption, Policy!NoTtl

LEMMA CapBounds ==
  ASSUME NEW ttl \in Nat \cup {-1}, NEW max \in Nat \cup {-1}
  PROVE  /\ Policy!Cap(ttl, max) \in Nat \cup {-1} /\ Policy!Shorten(Policy!Cap(ttl, max)) \in Nat \cup {-1}
         /\ ttl > 0 => Policy!Cap(ttl, max) <= ttl /\ Policy!Shorten(Policy!Cap(ttl, max)) <= ttl
BY DEF Policy!Cap, Policy!Shorten, Policy!NoTtl


PolicyFalls ==
    renewals' = renewals =>
        /\ Policy!Rank(mode') <= Policy!Rank(mode)
        /\ minutes > 0 => minutes' <= minutes

LEMMA PolicyStep == PolicyInv /\ [Next]_vars => PolicyInv' /\ PolicyFalls
<1> SUFFICES ASSUME PolicyInv, [Next]_vars PROVE PolicyInv' /\ PolicyFalls
  OBVIOUS
<1> USE DEF PolicyInv
<1>a. ASSUME NEW m \in DOMAIN ttlPolicy.rank
      PROVE  /\ ttlPolicy.rank[m] \in Nat
             /\ Policy!Stop \in DOMAIN ttlPolicy.rank => ttlPolicy.rank[Policy!Stop] <= ttlPolicy.rank[m]
  BY ProgramsAssumption DEF Policy!PolicyAssumption
<1>b. /\ Minutes \subseteq Nat
      /\ \A m \in DOMAIN ttlPolicy.modes : ttlPolicy.modes[m].max \in Nat \cup {-1}
  BY ProgramsAssumption DEF Policy!PolicyAssumption, Policy!NoTtl
<1>1. CASE UNCHANGED policyVars
  <2>1. Policy!Rank(mode) \in Int
    BY <1>a DEF Policy!Rank
  <2> QED
    BY <1>1, <2>1 DEF policyVars, PolicyFalls, Policy!Rank
<1>2. ASSUME Policy!Refuse PROVE PolicyInv' /\ PolicyFalls
  <2>1. Policy!Rank(mode) \in Int
    BY <1>a DEF Policy!Rank
  <2> QED
    BY <1>2, <2>1 DEF Policy!Refuse, PolicyFalls, Policy!Rank
<1>3. ASSUME NEW s \in Policy!Hits, Policy!HardStop(s) PROVE PolicyInv' /\ PolicyFalls
  <2>1. /\ UNCHANGED <<ttlPolicy, renewals>> /\ minutes' = -1 /\ mode' = Policy!Stop
        /\ mode \in DOMAIN ttlPolicy.rank
    BY <1>3 DEF Policy!HardStop, Policy!Evaluable, Policy!Shape, Policy!NoTtl
  <2>2. Policy!Rank(mode') <= Policy!Rank(mode)
    BY <1>a, <2>1 DEF Policy!Rank
  <2> QED
    BY <2>1, <2>2 DEF PolicyFalls
<1>4. ASSUME NEW s \in Policy!Hits, Policy!Evaluate(s) PROVE PolicyInv' /\ PolicyFalls
  <2> DEFINE m == ttlPolicy.modes[mode]
  <2>1. /\ UNCHANGED <<ttlPolicy, renewals>>
        /\ mode' = m.target \/ mode' = mode
        /\ \/ minutes' = Policy!Cap(minutes, m.max)
           \/ minutes' = Policy!Shorten(Policy!Cap(minutes, m.max))
    BY <1>4 DEF Policy!Evaluate
  <2>2. /\ mode \in DOMAIN ttlPolicy.rank /\ m.target \in DOMAIN ttlPolicy.rank
        /\ ttlPolicy.rank[m.target] <= ttlPolicy.rank[mode]
        /\ m.max \in Nat \cup {-1}
    BY <1>4, <1>b DEF Policy!Evaluate, Policy!Evaluable, Policy!Shape
  <2>3. Policy!Rank(mode') <= Policy!Rank(mode)
    BY <1>a, <2>1, <2>2 DEF Policy!Rank
  <2>4. minutes' \in Nat \cup {-1} /\ (minutes > 0 => minutes' <= minutes)
    BY <2>1, <2>2, CapBounds
  <2> QED
    BY <2>1, <2>3, <2>4 DEF PolicyFalls
<1>5. ASSUME NEW m \in DOMAIN ttlPolicy.modes, NEW ttl \in Minutes, Policy!Renew(m, ttl)
      PROVE  PolicyInv' /\ PolicyFalls
  BY <1>5, <1>b, ProgramsAssumption DEF Policy!Renew, PolicyFalls, Policy!PolicyAssumption
<1> QED
  BY <1>1, <1>2, <1>3, <1>4, <1>5 DEF Next, Rest, vars, Policy!Next


\* A set of states has a lowest one, whatever the manifest ranks.
LEMMA LeastOfNaturals ==
  ASSUME NEW T, T \subseteq Nat, T # {}
  PROVE  \E x \in T : \A y \in T : x <= y
<1>1. PICK x \in T : \A y \in T : <<y, x>> \notin OpToRel(<, Nat)
  BY WFMin, NatLessThanWellFounded, Zenon
<1>2. \A y \in T : y \in Nat /\ x \in Nat
  OBVIOUS
<1>3. \A y \in T : ~(y < x)
  BY <1>1, <1>2, Zenon DEF OpToRel
<1> QED
  BY <1>2, <1>3

LEMMA LowestIsLowest ==
  ASSUME NEW l, NEW S, S # {}, \A s \in S : l.rank[s] \in Nat
  PROVE  Lattice!Lowest(l, S) \in S /\ \A t \in S : l.rank[Lattice!Lowest(l, S)] <= l.rank[t]
<1>1. \E r \in {l.rank[s] : s \in S} : \A q \in {l.rank[s] : s \in S} : r <= q
  <2>1. {l.rank[s] : s \in S} \subseteq Nat /\ {l.rank[s] : s \in S} # {}
    OBVIOUS
  <2> QED
    BY <2>1, LeastOfNaturals
<1>2. \E s \in S : \A t \in S : l.rank[s] <= l.rank[t]
  BY <1>1
<1> QED
  BY <1>2 DEF Lattice!Lowest

LatticeInv == lattice \in Lattices /\ grants \in Nat

LatticeFalls ==
    [grants' = grants /\ ~lastReceipt'.stop
     => lattice.rank[state'] <= lattice.rank[state]]_<<state, lastReceipt, grants>>

LEMMA LatticeInit == Init => LatticeInv
BY DEF Init, Lattice!Init, LatticeInv

LEMMA LatticeStep == LatticeInv /\ [Next]_vars => LatticeInv' /\ LatticeFalls
<1> SUFFICES ASSUME LatticeInv, [Next]_vars PROVE LatticeInv' /\ LatticeFalls
  OBVIOUS
<1> USE DEF LatticeInv
<1>1. CASE UNCHANGED latticeVars
  BY <1>1 DEF latticeVars, LatticeFalls
<1>2. ASSUME NEW c \in DOMAIN lattice.clocks, Lattice!Drop(c) PROVE LatticeInv' /\ LatticeFalls
  BY <1>2 DEF Lattice!Drop, LatticeFalls
<1>3. ASSUME NEW c \in DOMAIN lattice.clocks, NEW at \in 0 .. MaxInstant, NEW ttl \in Ttls,
             Lattice!Observe(c, at, ttl)
      PROVE  LatticeInv' /\ LatticeFalls
  BY <1>3 DEF Lattice!Observe, LatticeFalls
<1>4. ASSUME NEW at \in 0 .. MaxInstant, NEW stop \in BOOLEAN, Lattice!Evaluate(at, stop)
      PROVE  LatticeInv' /\ LatticeFalls
  <2> DEFINE expired == {c \in DOMAIN lattice.clocks : Lattice!Expired(lattice, clocks, c, at)}
             reached == {state} \cup {lattice.clocks[c].target : c \in expired}
  <2>1. /\ UNCHANGED <<lattice, grants>> /\ lastReceipt'.stop = stop
        /\ ~stop => state' = Lattice!Lowest(lattice, reached)
    BY <1>4 DEF Lattice!Evaluate
  <2>2. \A s \in reached : lattice.rank[s] \in Nat
    <3>1. /\ state \in DOMAIN lattice.rank
          /\ \A c \in DOMAIN lattice.clocks : lattice.clocks[c].target \in DOMAIN lattice.rank
          /\ \A s \in DOMAIN lattice.rank : lattice.rank[s] >= 0
      BY <1>4 DEF Lattice!Evaluate, Lattice!SnapshotValid, Lattice!ManifestValid
    <3>2. \A s \in DOMAIN lattice.rank : lattice.rank[s] \in Int
      BY ProgramsAssumption DEF Lattice!LatticeAssumption
    <3> QED
      BY <3>1, <3>2
  <2>3. ~stop => lattice.rank[state'] <= lattice.rank[state]
    <3>1. state \in reached
      OBVIOUS
    <3> HIDE DEF reached
    <3> QED
      BY <2>1, <2>2, <3>1, LowestIsLowest
  <2> QED
    BY <2>1, <2>3 DEF LatticeFalls
<1>5. ASSUME NEW s \in DOMAIN lattice.rank, Lattice!Restore(s) PROVE LatticeInv' /\ LatticeFalls
  <2>1. ASSUME grants' = grants PROVE FALSE
    BY <1>5, <2>1 DEF Lattice!Restore
  <2> QED
    BY <1>5, <2>1 DEF Lattice!Restore, LatticeFalls
<1> QED
  BY <1>1, <1>2, <1>3, <1>4, <1>5 DEF Next, Rest, vars, Lattice!Next

\* The TTL policy and the lattice: no evaluation, of any signals, claims, clocks
\* and times in any order, raises the authority it is asked about.
THEOREM AuthorityNeverRises == Spec => AuthorityOnlyFalls
<1>1. PolicyInv /\ [Next]_vars
      => [renewals' = renewals =>
            /\ Policy!Rank(mode') <= Policy!Rank(mode)
            /\ minutes > 0 => minutes' <= minutes]_<<mode, minutes, renewals>>
  BY PolicyStep DEF PolicyFalls
<1>2. LatticeInv /\ [Next]_vars => LatticeFalls
  BY LatticeStep
<1>3. PolicyInv /\ [Next]_vars => PolicyInv'
  BY PolicyStep
<1>4. LatticeInv /\ [Next]_vars => LatticeInv'
  BY LatticeStep
<1>5. Spec => Policy!NeverPromotes
  BY <1>1, <1>3, PolicyInit, PTL DEF Spec, Policy!NeverPromotes
<1>6. Spec => Lattice!NeverPromotes
  BY <1>2, <1>4, LatticeInit, PTL DEF Spec, Lattice!NeverPromotes, LatticeFalls
<1> QED
  BY <1>5, <1>6 DEF AuthorityOnlyFalls

-----------------------------------------------------------------------------
(* The closure of Gate 1. *)

ClosureInv ==
    \A x \in verified :
        Closure!BundleVerifies(x.proposal, x.threat, x.at) /\ x.at \in Int

LEMMA ClosureInit == Init => ClosureInv
BY DEF Init, Closure!Init, ClosureInv

LEMMA ClosureKept == ClosureInv /\ [Next]_vars => ClosureInv'
<1> SUFFICES ASSUME ClosureInv, [Next]_vars PROVE ClosureInv'
  OBVIOUS
<1>a. MaxClosureTime \in Nat
  BY ProgramsAssumption DEF Closure!ClosureAssumption
<1>1. CASE UNCHANGED verified
  BY <1>1 DEF ClosureInv
<1>2. ASSUME NEW t \in 0 .. MaxClosureTime, Closure!Verify(t) PROVE ClosureInv'
  BY <1>a, <1>2 DEF Closure!Verify, ClosureInv
<1>3. ASSUME Closure!Next PROVE UNCHANGED verified \/ \E t \in 0 .. MaxClosureTime : Closure!Verify(t)
  BY <1>3 DEF Closure!Next, Closure!PassCheck, Closure!Refresh, Closure!AttachThreat, Closure!Attach,
     Closure!TestRollback, Closure!MarkReady, Closure!DecideByHand, Closure!Revise, Closure!EditProposal
<1> QED
  BY <1>1, <1>2, <1>3 DEF Next, Rest, vars, closureVars

\* The closure: whatever was edited between two verifications, a bundle that
\* passed names the threat model it passed with, in full and in time.
THEOREM PassesPinned == Spec => []PassPinsThreatModel
<1>1. ClosureInv => PassPinsThreatModel
  <2> SUFFICES ASSUME ClosureInv, NEW x \in verified, NEW y \in verified
               PROVE  /\ x.at < x.proposal.expires
                      /\ x.threat.satisfied = Clauses /\ x.proposal.checks = Checks
                      /\ x.proposal = y.proposal =>
                           {Closure!Receipt(x.threat), Closure!Receipt(y.threat)} \subseteq x.proposal.threats
    BY DEF PassPinsThreatModel, Of, Closure!PassPinsThreatModel
  <2>1. /\ Closure!BundleVerifies(x.proposal, x.threat, x.at) /\ x.at \in Int
        /\ Closure!BundleVerifies(y.proposal, y.threat, y.at)
    BY DEF ClosureInv
  <2>2. MaxLifetime \in Nat
    BY ProgramsAssumption DEF Closure!ClosureAssumption
  <2> QED
    BY <2>1, <2>2 DEF Closure!BundleVerifies, Closure!ThreatValid, Closure!DescentValid
<1> QED
  BY <1>1, ClosureInit, ClosureKept, PTL DEF Spec

-----------------------------------------------------------------------------
(* The convergence of the evidence. *)

\* A bundle that says its charity section is complete was filled in from a
\* receipt of a valid contract.
Backed(b, from) ==
    /\ b.sources \in Nat /\ b.escaped \in Nat
    /\ b.charity => from.contract \in Contracts /\ Convergence!ContractValid(from.contract)

ConvergenceInv ==
    /\ contract \in Contracts
    /\ charity.status = "SIMULATION_ONLY_CONTRACT_COMPLETE"
       => charity.contract \in Contracts /\ Convergence!ContractValid(charity.contract)
    /\ evidence = Convergence!WithCharity(evidence, evidence.charity)
    /\ Backed(evidence, charityCopied)
    /\ certificate # Convergence!NoCertificate =>
         \E b, from : Backed(b, from) /\ certificate = Convergence!Certificate(b, from)

LEMMA ConvergenceInit == Init => ConvergenceInv
<1> SUFFICES ASSUME Convergence!Init PROVE ConvergenceInv
  BY DEF Init
<1>1. PICK b \in EvidenceBundles : evidence = Convergence!WithCharity(b, FALSE)
  BY DEF Convergence!Init
<1>2. b.sources \in Nat /\ b.escaped \in Nat
  BY ProgramsAssumption DEF Convergence!ConvergenceAssumption
<1> QED
  BY <1>1, <1>2 DEF Convergence!Init, ConvergenceInv, Backed, Convergence!WithCharity, Convergence!NoReceipt

LEMMA ConvergenceKept == ConvergenceInv /\ [Next]_vars => ConvergenceInv'
<1> SUFFICES ASSUME ConvergenceInv, [Next]_vars PROVE ConvergenceInv'
  OBVIOUS
<1> USE DEF ConvergenceInv
<1>1. CASE UNCHANGED convergenceVars
  BY <1>1 DEF convergenceVars
<1>2. ASSUME NEW c \in Contracts, Convergence!Draft(c) PROVE ConvergenceInv'
  BY <1>2 DEF Convergence!Draft
<1>3. ASSUME Convergence!Review PROVE ConvergenceInv'
  BY <1>3 DEF Convergence!Review
<1>4. ASSUME Convergence!CopyCharity PROVE ConvergenceInv'
  <2>1. /\ evidence' = [evidence EXCEPT !.charity = (charity.status = "SIMULATION_ONLY_CONTRACT_COMPLETE")]
        /\ charityCopied' = charity /\ UNCHANGED <<contract, charity, certificate>>
    BY <1>4 DEF Convergence!CopyCharity
  <2>2. /\ evidence'.sources = evidence.sources /\ evidence'.escaped = evidence.escaped
        /\ evidence'.charity = (charity.status = "SIMULATION_ONLY_CONTRACT_COMPLETE")
        /\ evidence' = Convergence!WithCharity(evidence', evidence'.charity)
    BY <2>1 DEF Convergence!WithCharity
  <2>3. Backed(evidence', charityCopied')
    BY <2>1, <2>2 DEF Backed
  <2> QED
    BY <2>1, <2>2, <2>3
<1>5. ASSUME Convergence!Converge PROVE ConvergenceInv'
  BY <1>5 DEF Convergence!Converge
<1>6. ASSUME Convergence!WriteText PROVE ConvergenceInv'
  BY <1>6 DEF Convergence!WriteText
<1> QED
  BY <1>1, <1>2, <1>3, <1>4, <1>5, <1>6 DEF Next, Rest, vars, Convergence!Next

\* A bundle that gives no reason to hold reads clear in every section.
LEMMA NothingHeld ==
  ASSUME NEW b, b.sources \in Nat, b.escaped \in Nat, Convergence!Holds(b) = {}
  PROVE  /\ b.missing = {} /\ b.flags = {} /\ b.escaped = 0 /\ b.sources >= 2
         /\ b.decision = "ACCEPT_OBSERVATION_ONLY" /\ b.charity
         /\ b.value => Convergence!ClearSections(b) = Convergence!Sections
<1> DEFINE Quorum == IF b.sources < 2 THEN {"HOLD_SOURCE_QUORUM"} ELSE {}
           Escape == IF b.escaped > 0 THEN {"HOLD_VIV_CRITICAL_ESCAPE"} ELSE {}
           Contract == IF ~b.charity THEN {"HOLD_CHARITY_TARGET_CONTRACT"} ELSE {}
           Decision == IF b.decision # "ACCEPT_OBSERVATION_ONLY" THEN {b.decision} ELSE {}
<1>1. b.missing \cup b.flags \cup Decision \cup Quorum \cup Escape \cup Contract = {}
  BY DEF Convergence!Holds
<1>2. /\ b.missing = {} /\ b.flags = {} /\ Decision = {}
      /\ Quorum = {} /\ Escape = {} /\ Contract = {}
  <2> HIDE DEF Decision, Quorum, Escape, Contract
  <2> QED
    BY <1>1
<1>3. b.decision = "ACCEPT_OBSERVATION_ONLY"
  BY <1>2
<1>4. ~(b.sources < 2) /\ ~(b.escaped > 0)
  BY <1>2
<1>5. b.charity
  BY <1>2
<1>6. b.escaped = 0 /\ b.sources >= 2
  BY <1>4
<1>7. ASSUME b.value PROVE Convergence!ClearSections(b) = Convergence!Sections
  <2>1. Convergence!Reproducible(b) /\ Convergence!RollbackReady(b)
    BY <1>2 DEF Convergence!Reproducible, Convergence!RollbackReady
  <2> QED
    BY <1>2, <1>3, <1>5, <1>6, <1>7, <2>1 DEF Convergence!ClearSections, Convergence!Sections
<1> QED
  BY <1>2, <1>3, <1>5, <1>6, <1>7

\* READY is earned, whatever was drafted, reviewed, copied or written since
\* (gate1a1_evidence_convergence decide and gate1a1_charity_target
\* validate_contract): no requirement is missing, no source is in doubt, and the
\* contract the charity section came from is valid.
THEOREM ReadyIsEarned == Spec => []ReadyEarned
<1>1. ConvergenceInv => ReadyEarned
  <2> SUFFICES ASSUME ConvergenceInv, certificate # Convergence!NoCertificate,
                      certificate.decision = "READY_FOR_GATE1B_REVIEW"
               PROVE  Convergence!ReadyEarned
    BY Zenon DEF ReadyEarned, Of, Convergence!ReadyEarned
  <2>1. PICK b, from : Backed(b, from) /\ certificate = Convergence!Certificate(b, from)
    BY DEF ConvergenceInv
  <2>2. /\ certificate.evidence = b /\ certificate.from = from
        /\ certificate.clear = Convergence!ClearSections(b)
        /\ Convergence!Decide(b) = "READY_FOR_GATE1B_REVIEW"
    BY <2>1 DEF Convergence!Certificate
  <2>3. Convergence!Holds(b) = {} /\ b.value
    BY <2>2 DEF Convergence!Decide
  <2>4. /\ b.missing = {} /\ b.flags = {} /\ b.escaped = 0 /\ b.sources >= 2
        /\ b.decision = "ACCEPT_OBSERVATION_ONLY" /\ b.charity
        /\ Convergence!ClearSections(b) = Convergence!Sections
    BY <2>1, <2>3, NothingHeld DEF Backed
  <2>5. from.contract \in Contracts /\ Convergence!ContractValid(from.contract)
    BY <2>1, <2>4 DEF Backed
  <2>6. from.contract.interval[1] \in Int /\ from.contract.interval[2] \in Int /\ from.contract.estimate \in Int
    BY <2>5, ProgramsAssumption DEF Convergence!ConvergenceAssumption
  <2>7. /\ from.contract.broken = {} /\ from.contract.sealed
        /\ from.contract.estimate \in from.contract.interval[1] .. from.contract.interval[2]
    BY <2>5, <2>6 DEF Convergence!ContractValid
  <2> QED
    BY <2>2, <2>3, <2>4, <2>7 DEF Convergence!ReadyEarned
<1> QED
  BY <1>1, ConvergenceInit, ConvergenceKept, PTL DEF Spec

-----------------------------------------------------------------------------
(* The bounded soak. *)

\* Nothing has failed in the loop of the run.
Unfailed == trigger = ""

\* The directory of a run is made once, for a plan that is valid for the review
\* on disk, and nobody edits either of them after that.
Begun ==
    /\ accepted \in 0 .. CaptureCount
    /\ plan # Soak!None => plan.count \in {0, CaptureCount, MaxCaptures + 1}
    /\ dir => Soak!PlanValid(plan, review) /\ pc # "idle"
    /\ ~dir => /\ pc \in {"idle", "refused"} /\ accepted = 0 /\ Unfailed
               /\ rollback = Soak!None /\ summary = Soak!None

\* What was accepted is whole, and what is being written is a valid capture.
Kept ==
    /\ stored = [i \in Soak!Indices |-> stored[i]] /\ taken = [i \in Soak!Indices |-> taken[i]]
    /\ pc = "persist" => Soak!CaptureValid(taken[accepted], plan)
    /\ \A i \in Soak!Indices : i < accepted => Soak!Whole(i)

\* How a run that left its loop left it.
Left ==
    /\ Unfailed => accepted = CaptureCount /\ rollback = Soak!None
    /\ ~Unfailed => rollback = Soak!RollbackReceipt(trigger, accepted, accepted)

\* Where a run is says what it has done so far.
Stage ==
    /\ pc \in {"preflight", "adapter", "validate", "persist"} =>
          accepted < CaptureCount /\ Unfailed /\ rollback = Soak!None
    /\ pc = "rollback" => ~Unfailed /\ rollback = Soak!None
    /\ pc \in {"summarize", "reread", "done"} => Left
    /\ pc \in {"preflight", "adapter", "validate", "persist", "rollback", "summarize"} => summary = Soak!None
    /\ pc \in {"reread", "done"} => Soak!Complete

\* A summary tells of a run that left its loop.
Reported ==
    Soak!Complete =>
        /\ Left
        /\ summary = [ok |-> summary.ok, accepted |-> accepted, payloads |-> summary.payloads,
                      rollbacks |-> IF Unfailed THEN 0 ELSE 1]
        /\ summary.ok <=> Unfailed
        /\ summary.payloads => rollback = Soak!None <=> Unfailed
        /\ pc = "done" => summary.payloads

SoakInv == Begun /\ Kept /\ Stage /\ Reported

LEMMA SoakConstants ==
    CaptureCount \in Nat /\ CaptureCount > 0 /\ CaptureCount <= MaxCaptures /\ MaxCaptures \in Nat
BY ProgramsAssumption, DocumentsAssumption DEF Soak!SoakAssumption

\* While a directory is there, the plan asks for CaptureCount captures.
LEMMA PlannedCount == Begun /\ dir => plan.count = CaptureCount
BY SoakConstants DEF Begun, Soak!PlanValid, Soak!ScheduleBounded

LEMMA SoakInit == Init => SoakInv
<1> SUFFICES ASSUME Soak!Init PROVE SoakInv
  BY DEF Init
<1>1. /\ pc = "idle" /\ ~dir /\ plan = Soak!None /\ summary = Soak!None /\ rollback = Soak!None
      /\ accepted = 0 /\ Unfailed
  BY Zenon DEF Soak!Init, Unfailed
<1>2. Begun
  BY <1>1, SoakConstants DEF Begun
<1>3. Kept
  <2>1. stored = [i \in Soak!Indices |-> stored[i]] /\ taken = [i \in Soak!Indices |-> taken[i]]
    BY DEF Soak!Init
  <2>2. \A i \in Soak!Indices : ~(i < accepted)
    BY <1>1, SoakConstants DEF Soak!Indices
  <2> QED
    BY <1>1, <2>1, <2>2 DEF Kept
<1>4. Stage /\ Reported
  BY <1>1 DEF Stage, Reported, Soak!Complete
<1> QED
  BY <1>2, <1>3, <1>4 DEF SoakInv

\* The operator edits documents while there is no directory.
LEMMA OperatorKeeps ==
  ASSUME SoakInv,
         \/ \E c \in Candidates : Soak!BuildReview(c)
         \/ \E b \in BOOLEAN : Soak!EditReview(b)
         \/ Soak!BuildPlan
         \/ \E n \in {0, CaptureCount, MaxCaptures + 1}, b \in BOOLEAN : Soak!EditPlan(n, b)
  PROVE  SoakInv'
<1>1. /\ pc = "idle" /\ UNCHANGED <<dir, stored, taken, rollback, summary, pc, accepted, trigger>>
      /\ UNCHANGED plan \/ plan'.count \in {0, CaptureCount, MaxCaptures + 1}
  <2>1. ASSUME NEW n \in {0, CaptureCount, MaxCaptures + 1}, NEW b \in BOOLEAN, Soak!EditPlan(n, b)
        PROVE  UNCHANGED plan \/ plan'.count \in {0, CaptureCount, MaxCaptures + 1}
    <3>1. plan' = [plan EXCEPT !.count = n, !.sealed = b]
      BY <2>1 DEF Soak!EditPlan
    <3> QED
      BY <3>1
  <2>2. ASSUME Soak!BuildPlan PROVE plan'.count = CaptureCount
    BY <2>2 DEF Soak!BuildPlan, Soak!Plan
  <2> QED
    BY <2>1, <2>2 DEF Soak!BuildReview, Soak!EditReview, Soak!BuildPlan, Soak!EditPlan, Soak!files, Soak!run
<1>2. ~dir /\ accepted = 0 /\ summary = Soak!None
  BY <1>1 DEF SoakInv, Begun
<1>3. Begun'
  BY <1>1, <1>2 DEF SoakInv, Begun, Unfailed
<1>4. Kept'
  BY <1>1, <1>2 DEF SoakInv, Kept, Soak!Indices
<1>5. Stage' /\ Reported'
  BY <1>1, <1>2 DEF Stage, Reported, Soak!Complete
<1> QED
  BY <1>3, <1>4, <1>5 DEF SoakInv

\* A step that leaves the documents, the files, the count and the trigger alone.
LEMMA MovesKeep ==
  ASSUME SoakInv, UNCHANGED <<Soak!documents, Soak!files, accepted, trigger>>,
         \/ pc' = pc
         \/ pc' = "refused" /\ pc \in {"idle", "died"}
         \/ pc = "preflight" /\ pc' = "adapter"
         \/ pc = "adapter" /\ pc' = "validate"
  PROVE  SoakInv'
<1>1. /\ UNCHANGED <<review, plan, dir, stored, taken, rollback, summary, accepted, trigger>>
      /\ Unfailed' <=> Unfailed
  BY Zenon DEF Soak!documents, Soak!files, Unfailed
<1>2. Begun'
  BY <1>1 DEF SoakInv, Begun
<1>3. Kept'
  <2>1. pc' = "persist" => pc = "persist"
    OBVIOUS
  <2> QED
    BY <1>1, <2>1 DEF SoakInv, Kept, Soak!Whole
<1>4. Stage'
  BY <1>1 DEF SoakInv, Stage, Left, Soak!Complete
<1>5. Reported'
  <2>1. pc' = "done" => pc = "done"
    OBVIOUS
  <2> QED
    BY <1>1, <2>1 DEF SoakInv, Reported, Left, Soak!Complete
<1> QED
  BY <1>2, <1>3, <1>4, <1>5 DEF SoakInv

\* A failure in the loop.
LEMMA FailureKeeps ==
  ASSUME SoakInv, pc \in {"preflight", "adapter", "validate", "persist"},
         NEW t \in Soak!Triggers, Soak!Fails(t)
  PROVE  SoakInv'
<1>1. /\ UNCHANGED <<review, plan, dir, stored, taken, rollback, summary, accepted>>
      /\ pc' = "rollback" /\ ~Unfailed'
  BY Zenon DEF Soak!documents, Soak!files, Unfailed, Soak!Fails, Soak!Triggers
<1>2. dir /\ summary = Soak!None /\ rollback = Soak!None
  BY DEF SoakInv, Begun, Stage
<1>3. Begun'
  BY <1>1, <1>2 DEF SoakInv, Begun
<1>4. Kept'
  BY <1>1 DEF SoakInv, Kept, Soak!Whole
<1>5. Stage' /\ Reported'
  BY <1>1, <1>2 DEF Stage, Reported, Soak!Complete
<1> QED
  BY <1>3, <1>4, <1>5 DEF SoakInv

LEMMA StartKeeps == SoakInv /\ Soak!Start => SoakInv'
<1> SUFFICES ASSUME SoakInv, Soak!Start PROVE SoakInv'
  OBVIOUS
<1>1. /\ ~dir /\ dir' /\ pc' = "preflight" /\ Soak!PlanValid(plan, review)
      /\ UNCHANGED <<review, plan, stored, taken, rollback, summary, accepted, trigger>>
  BY Zenon DEF Soak!Start, Soak!documents
<1>2. accepted = 0 /\ Unfailed /\ summary = Soak!None /\ rollback = Soak!None
  BY <1>1 DEF SoakInv, Begun
<1>3. Unfailed'
  BY <1>1, <1>2, Zenon DEF Unfailed
<1>4. Begun'
  BY <1>1 DEF SoakInv, Begun
<1>5. Kept'
  BY <1>1 DEF SoakInv, Kept, Soak!Whole
<1>6. Stage' /\ Reported'
  BY <1>1, <1>2, <1>3, SoakConstants DEF Stage, Reported, Soak!Complete
<1> QED
  BY <1>4, <1>5, <1>6 DEF SoakInv

LEMMA ValidateKeeps == SoakInv /\ Soak!Validate => SoakInv'
<1> SUFFICES ASSUME SoakInv, Soak!Validate PROVE SoakInv'
  OBVIOUS
<1>1. /\ pc = "validate" /\ pc' = "persist" /\ Soak!CaptureValid(held, plan)
      /\ taken' = [taken EXCEPT ![accepted] = held]
      /\ UNCHANGED <<review, plan, dir, stored, rollback, summary, accepted, trigger>>
      /\ Unfailed' <=> Unfailed
  BY Zenon DEF Soak!Validate, Soak!documents, Unfailed
<1>2. accepted \in Soak!Indices /\ summary = Soak!None /\ dir
  BY <1>1, SoakConstants DEF SoakInv, Begun, Stage, Soak!Indices
<1>3. Begun'
  BY <1>1 DEF SoakInv, Begun
<1>4. Kept'
  <2>1. taken'[accepted] = held /\ taken' = [i \in Soak!Indices |-> taken'[i]]
    BY <1>1, <1>2 DEF SoakInv, Kept
  <2>2. ASSUME NEW i \in Soak!Indices, i < accepted PROVE Soak!Whole(i)'
    <3>1. taken'[i] = taken[i]
      BY <1>1, <1>2, <2>2, SoakConstants DEF SoakInv, Kept, Soak!Indices
    <3> QED
      BY <1>1, <2>2, <3>1 DEF SoakInv, Kept, Soak!Whole
  <2> QED
    BY <1>1, <2>1, <2>2 DEF SoakInv, Kept
<1>5. Stage' /\ Reported'
  BY <1>1, <1>2 DEF SoakInv, Stage, Reported, Soak!Complete
<1> QED
  BY <1>3, <1>4, <1>5 DEF SoakInv

LEMMA PersistKeeps == ASSUME SoakInv, NEW n \in 1 .. 4, Soak!Persist(n) PROVE SoakInv'
<1>1. /\ pc = "persist" /\ pc' = pc
      /\ stored' = [stored EXCEPT ![accepted] = Soak!Written(n)]
      /\ UNCHANGED <<review, plan, dir, taken, rollback, summary, accepted, trigger>>
      /\ Unfailed' <=> Unfailed
  BY Zenon DEF Soak!Persist, Soak!documents, Soak!run, Unfailed
<1>2. accepted \in Soak!Indices /\ summary = Soak!None
  BY <1>1, SoakConstants DEF SoakInv, Begun, Stage, Soak!Indices
<1>3. Begun'
  BY <1>1 DEF SoakInv, Begun
<1>4. Kept'
  <2>1. stored' = [i \in Soak!Indices |-> stored'[i]]
    BY <1>1, <1>2 DEF SoakInv, Kept
  <2>2. ASSUME NEW i \in Soak!Indices, i < accepted PROVE Soak!Whole(i)'
    <3>1. stored'[i] = stored[i]
      BY <1>1, <1>2, <2>2, SoakConstants DEF SoakInv, Kept, Soak!Indices
    <3> QED
      BY <1>1, <2>2, <3>1 DEF SoakInv, Kept, Soak!Whole
  <2> QED
    BY <1>1, <2>1, <2>2 DEF SoakInv, Kept
<1>5. Stage' /\ Reported'
  BY <1>1, <1>2 DEF SoakInv, Stage, Reported, Soak!Complete
<1> QED
  BY <1>3, <1>4, <1>5 DEF SoakInv

LEMMA AcceptKeeps == SoakInv /\ Soak!Accept => SoakInv'
<1> SUFFICES ASSUME SoakInv, Soak!Accept PROVE SoakInv'
  OBVIOUS
<1>1. /\ pc = "persist" /\ accepted' = accepted + 1 /\ stored[accepted] = Soak!AllFiles
      /\ pc' = IF accepted + 1 = plan.count THEN "summarize" ELSE "preflight"
      /\ UNCHANGED <<review, plan, dir, stored, taken, rollback, summary, trigger>>
      /\ Unfailed' <=> Unfailed
  BY Zenon DEF Soak!Accept, Soak!documents, Soak!files, Unfailed
<1>2. /\ dir /\ accepted \in Soak!Indices /\ Unfailed /\ summary = Soak!None /\ rollback = Soak!None
      /\ plan.count = CaptureCount
  BY <1>1, SoakConstants, PlannedCount DEF SoakInv, Begun, Stage, Soak!Indices
<1>3. Begun'
  BY <1>1, <1>2, SoakConstants DEF SoakInv, Begun, Soak!Indices
<1>4. Kept'
  <2>1. Soak!Whole(accepted)
    <3>1. plan.source.id = review.candidate.source.id
      BY <1>2 DEF SoakInv, Begun, Soak!PlanValid, Soak!PlannedSource
    <3>2. Soak!CaptureValid(taken[accepted], plan)
      BY <1>1 DEF SoakInv, Kept
    <3> QED
      BY <1>1, <3>1, <3>2 DEF Soak!Whole, Soak!CaptureValid
  <2>2. ASSUME NEW i \in Soak!Indices, i < accepted' PROVE Soak!Whole(i)'
    <3>1. i = accepted \/ i < accepted
      BY <1>1, <1>2, <2>2, SoakConstants DEF Soak!Indices
    <3>2. Soak!Whole(i)
      BY <2>1, <3>1 DEF SoakInv, Kept
    <3> QED
      BY <1>1, <3>2 DEF Soak!Whole
  <2> QED
    BY <1>1, <2>2 DEF SoakInv, Kept
<1>5. Stage' /\ Reported'
  BY <1>1, <1>2, SoakConstants DEF Stage, Left, Reported, Soak!Complete, Soak!Indices
<1> QED
  BY <1>3, <1>4, <1>5 DEF SoakInv

\* What a run does once it has left its loop changes its rollback payload and summary only.
LEMMA EndingKeeps ==
  ASSUME SoakInv, UNCHANGED <<Soak!documents, dir, stored, taken, accepted, trigger>>,
         pc \notin {"idle", "refused"}, pc' \notin {"idle", "persist"}
  PROVE  Begun' /\ Kept' /\ (Unfailed' <=> Unfailed)
<1>1. UNCHANGED <<review, plan, dir, stored, taken, accepted, trigger>> /\ (Unfailed' <=> Unfailed)
  BY Zenon DEF Soak!documents, Unfailed
<1>2. Begun'
  BY <1>1 DEF SoakInv, Begun
<1>3. Kept'
  BY <1>1 DEF SoakInv, Kept, Soak!Whole
<1> QED
  BY <1>1, <1>2, <1>3

LEMMA RollBackKeeps == SoakInv /\ (Soak!RollBack \/ Soak!RollBackFails) => SoakInv'
<1> SUFFICES ASSUME SoakInv, Soak!RollBack \/ Soak!RollBackFails PROVE SoakInv'
  OBVIOUS
<1>1. /\ pc = "rollback" /\ UNCHANGED <<summary, accepted, trigger>>
      /\ \/ pc' = "escaped"
         \/ pc' = "summarize" /\ rollback' = Soak!RollbackReceipt(trigger, accepted, accepted)
  BY Zenon DEF Soak!RollBack, Soak!RollBackFails
<1>2. Begun' /\ Kept' /\ (Unfailed' <=> Unfailed)
  BY <1>1, EndingKeeps DEF Soak!RollBack, Soak!RollBackFails
<1>3. ~Unfailed /\ summary = Soak!None
  BY <1>1 DEF SoakInv, Stage
<1>4. Stage' /\ Reported'
  BY <1>1, <1>2, <1>3 DEF Stage, Left, Reported, Soak!Complete
<1> QED
  BY <1>2, <1>4 DEF SoakInv

LEMMA FailuresCounted == Soak!Failures = IF Unfailed THEN 0 ELSE 1
BY Zenon DEF Soak!Failures, Unfailed

\* A summary with its fields is not a missing or a torn one.
LEMMA SummaryComplete ==
  ASSUME NEW s, s = [ok |-> s.ok, accepted |-> s.accepted, rollbacks |-> s.rollbacks, payloads |-> s.payloads]
  PROVE  s # Soak!None /\ s # Soak!Torn
BY DEF Soak!None, Soak!Torn

LEMMA SummarizeKeeps == SoakInv /\ Soak!Summarize => SoakInv'
<1> SUFFICES ASSUME SoakInv, Soak!Summarize PROVE SoakInv'
  OBVIOUS
<1>1. /\ pc = "summarize" /\ pc' = "reread" /\ UNCHANGED <<rollback, accepted, trigger>>
      /\ summary' = [ok |-> accepted = plan.count /\ Soak!Failures = 0, accepted |-> accepted,
                     rollbacks |-> Soak!Failures, payloads |-> Soak!Failures = 0]
  BY DEF Soak!Summarize
<1>2. Begun' /\ Kept' /\ (Unfailed' <=> Unfailed)
  BY <1>1, EndingKeeps DEF Soak!Summarize
<1>3. Left /\ dir /\ plan.count = CaptureCount
  BY <1>1, PlannedCount DEF SoakInv, Begun, Stage
<1>4. Left'
  BY <1>1, <1>2, <1>3 DEF Left
<1>5. /\ (Soak!Failures = 0) <=> Unfailed
      /\ (accepted = plan.count /\ Soak!Failures = 0) <=> Unfailed
  BY <1>3, FailuresCounted DEF Left
<1>6. /\ summary' = [ok |-> summary'.ok, accepted |-> accepted', payloads |-> summary'.payloads,
                     rollbacks |-> IF Unfailed' THEN 0 ELSE 1]
      /\ summary'.payloads <=> Unfailed'
      /\ summary'.ok <=> Unfailed'
  BY <1>1, <1>2, <1>5, FailuresCounted
<1>7. Stage'
  BY <1>1, <1>4, <1>6, SummaryComplete DEF Stage, Soak!Complete
<1>8. Reported'
  <2>1. summary'.payloads => rollback' = Soak!None <=> Unfailed'
    BY <1>4, <1>6 DEF Left
  <2> QED
    BY <1>1, <1>4, <1>6, <2>1 DEF Reported
<1> QED
  BY <1>2, <1>7, <1>8 DEF SoakInv

\* The exceptions of the summary, and a process that dies anywhere.
LEMMA LossKeeps ==
  ASSUME SoakInv, UNCHANGED <<Soak!documents, dir, stored, taken, rollback, accepted, trigger>>,
         pc \notin {"idle", "refused"}, pc' \in {"escaped", "died"}, summary' \in {summary, Soak!Torn}
  PROVE  SoakInv'
<1>1. Begun' /\ Kept' /\ (Unfailed' <=> Unfailed)
  BY EndingKeeps
<1>2. Stage'
  BY <1>1 DEF Stage
<1>3. Reported'
  <2>1. Soak!Complete' => summary' = summary /\ Soak!Complete
    BY DEF Soak!Complete
  <2> QED
    BY <1>1, <2>1 DEF SoakInv, Reported, Left
<1> QED
  BY <1>1, <1>2, <1>3 DEF SoakInv

LEMMA RereadKeeps == SoakInv /\ Soak!Reread => SoakInv'
<1> SUFFICES ASSUME SoakInv, Soak!Reread PROVE SoakInv'
  OBVIOUS
<1> DEFINE counted == /\ Soak!RollbackFiles = summary.rollbacks
                      /\ rollback # Soak!None => Soak!RollbackValid(rollback)
<1>1. /\ pc = "reread" /\ pc' = "done" /\ UNCHANGED <<rollback, accepted, trigger>>
      /\ summary' = [summary EXCEPT !.payloads = counted]
  BY DEF Soak!Reread
<1>2. Begun' /\ Kept' /\ (Unfailed' <=> Unfailed)
  BY <1>1, EndingKeeps DEF Soak!Reread
<1>3. /\ Left
      /\ summary = [ok |-> summary.ok, accepted |-> accepted, payloads |-> summary.payloads,
                    rollbacks |-> IF Unfailed THEN 0 ELSE 1]
      /\ summary.ok <=> Unfailed
  BY <1>1 DEF SoakInv, Stage, Reported
<1>4. counted /\ (rollback = Soak!None <=> Unfailed)
  <2>1. ASSUME ~Unfailed PROVE rollback # Soak!None /\ Soak!RollbackValid(rollback)
    <3>1. /\ rollback = Soak!RollbackReceipt(trigger, accepted, accepted) /\ accepted \in Nat
          /\ accepted >= accepted
      BY <1>3, <2>1, SoakConstants DEF SoakInv, Begun, Left
    <3> QED
      BY <3>1 DEF Soak!RollbackReceipt, Soak!RollbackValid, Soak!None
  <2>2. Unfailed => rollback = Soak!None
    BY <1>3 DEF Left
  <2> QED
    BY <1>3, <2>1, <2>2 DEF Soak!RollbackFiles
<1> HIDE DEF counted
<1>5. /\ summary' = [ok |-> summary'.ok, accepted |-> accepted', payloads |-> summary'.payloads,
                     rollbacks |-> IF Unfailed' THEN 0 ELSE 1]
      /\ summary'.payloads /\ (summary'.ok <=> Unfailed')
  <2>1. summary'.payloads = counted /\ summary'.ok = summary.ok
    BY <1>1, <1>3
  <2>2. summary' = [ok |-> summary.ok, accepted |-> accepted, payloads |-> counted,
                    rollbacks |-> IF Unfailed THEN 0 ELSE 1]
    BY <1>1, <1>3
  <2>3. accepted' = accepted
    BY <1>1
  <2> QED
    BY <1>2, <1>3, <1>4, <2>1, <2>2, <2>3
<1>6. Left'
  BY <1>1, <1>2, <1>3 DEF Left
<1>7. Stage'
  BY <1>1, <1>5, <1>6, SummaryComplete DEF Stage, Soak!Complete
<1>8. Reported'
  <2>1. rollback' = Soak!None <=> Unfailed'
    BY <1>1, <1>2, <1>4
  <2> QED
    BY <1>5, <1>6, <2>1 DEF Reported
<1> QED
  BY <1>2, <1>7, <1>8 DEF SoakInv

LEMMA SoakKept == SoakInv /\ [Next]_vars => SoakInv'
<1> SUFFICES ASSUME SoakInv, [Next]_vars PROVE SoakInv'
  OBVIOUS
<1>1. CASE UNCHANGED soakVars
  <2>1. UNCHANGED <<Soak!documents, Soak!files, accepted, trigger>> /\ pc' = pc
    BY <1>1 DEF soakVars, Soak!documents, Soak!files
  <2> QED
    BY <2>1, MovesKeep
<1>2. ASSUME NEW e \in Soak!Environments, Soak!Switch(e) PROVE SoakInv'
  <2>1. UNCHANGED <<Soak!documents, Soak!files, accepted, trigger>> /\ pc' = pc
    BY <1>2 DEF Soak!Switch
  <2> QED
    BY <2>1, MovesKeep
<1>3. CASE Soak!Refuse \/ Soak!Preflight \/ \E b \in Bundles : Soak!AdapterReturns(b)
  <2>1. /\ UNCHANGED <<Soak!documents, Soak!files, accepted, trigger>>
        /\ \/ pc' = "refused" /\ pc \in {"idle", "died"}
           \/ pc = "preflight" /\ pc' = "adapter"
           \/ pc = "adapter" /\ pc' = "validate"
    BY <1>3, Zenon DEF Soak!Refuse, Soak!Preflight, Soak!AdapterReturns
  <2> QED
    BY <2>1, MovesKeep
<1>4. CASE Soak!PreflightFails \/ Soak!ValidateFails \/ Soak!PersistFails
           \/ \E t \in Soak!Triggers : Soak!AdapterRaises(t)
  <2>1. /\ pc \in {"preflight", "adapter", "validate", "persist"}
        /\ \E t \in Soak!Triggers : Soak!Fails(t)
    BY <1>4, Zenon DEF Soak!PreflightFails, Soak!ValidateFails, Soak!PersistFails, Soak!AdapterRaises, Soak!Triggers
  <2> QED
    BY <2>1, FailureKeeps
<1>5. CASE Soak!SummarizeFails \/ \E left \in {summary, Soak!Torn} : Soak!Die(left)
  <2>1. /\ UNCHANGED <<Soak!documents, dir, stored, taken, rollback, accepted, trigger>>
        /\ pc \notin {"idle", "refused"} /\ pc' \in {"escaped", "died"} /\ summary' \in {summary, Soak!Torn}
    BY <1>5, Zenon DEF Soak!SummarizeFails, Soak!Die, Soak!Ended
  <2> QED
    BY <2>1, LossKeeps
<1> QED
  BY <1>1, <1>2, <1>3, <1>4, <1>5, OperatorKeeps, StartKeeps, ValidateKeeps, PersistKeeps, AcceptKeeps,
     RollBackKeeps, SummarizeKeeps, RereadKeeps DEF Next, Rest, vars, Soak!Next

\* The bounded soak: what a summary says is so, whatever failed, died or was
\* edited before.  An ok summary stands for a whole campaign of an eligible
\* source, and rollback payloads are claimed when they are there
\* (gate1_soak_scaffold run_bounded_soak, gate1_soak_runner).
THEOREM SummariesAreTrue == Spec => []SummaryTrue
<1>1. SoakInv => SummaryTrue
  <2> SUFFICES ASSUME SoakInv, Soak!Complete PROVE Soak!OkMeansWhole /\ Soak!PayloadsClaimed
    BY DEF SummaryTrue, Of, Soak!SummaryTrue, Soak!OkMeansWhole, Soak!PayloadsClaimed
  <2>1. /\ Left /\ dir /\ plan.count = CaptureCount /\ Soak!PlanValid(plan, review)
        /\ summary.ok <=> Unfailed
    BY PlannedCount DEF SoakInv, Begun, Reported, Soak!Complete
  <2>2. summary.rollbacks = IF Unfailed THEN 0 ELSE 1
    BY DEF SoakInv, Reported
  <2>3. ASSUME summary.ok PROVE \A i \in 0 .. plan.count - 1 : Soak!Whole(i)
    BY <2>1, <2>3, SoakConstants DEF SoakInv, Kept, Left, Soak!Indices
  <2>4. Soak!OkMeansWhole
    <3>1. /\ Soak!Eligibility(review.candidate) = "ELIGIBLE" /\ Soak!SourceReviewed(review.candidate.source)
          /\ plan.source = Soak!PlannedSource(review.candidate.source)
      BY <2>1 DEF Soak!PlanValid, Soak!RequireEligible, Soak!ReviewValid, Soak!ReviewBuilds
    <3> QED
      BY <2>1, <2>3, <3>1 DEF Soak!OkMeansWhole, Left
  <2>5. Soak!PayloadsClaimed
    BY <2>1, <2>2 DEF SoakInv, Reported, Soak!PayloadsClaimed, Soak!RollbackFiles
  <2> QED
    BY <2>4, <2>5
<1> QED
  BY <1>1, SoakInit, SoakKept, PTL DEF Spec

\* The verdict of the promise, and the steps that do not give it.
SoakVerdict == IF pc # "done" THEN "open" ELSE IF summary.ok THEN "PASS" ELSE "HOLD"

LEMMA AcceptPromised == SoakInv /\ Soak!Accept => Soak!Promise!Accept
<1> SUFFICES ASSUME SoakInv, Soak!Accept PROVE Soak!Promise!Accept
  OBVIOUS
<1>1. /\ pc = "persist" /\ pc' \in {"summarize", "preflight"} /\ accepted' = accepted + 1
      /\ accepted < CaptureCount
  BY DEF Soak!Accept, SoakInv, Stage
<1> QED
  BY <1>1 DEF Soak!Promise!Accept

LEMMA RereadPromised == SoakInv /\ Soak!Reread => Soak!Promise!Pass \/ Soak!Promise!Hold
<1> SUFFICES ASSUME SoakInv, Soak!Reread PROVE Soak!Promise!Pass \/ Soak!Promise!Hold
  OBVIOUS
<1>1. pc = "reread" /\ pc' = "done" /\ UNCHANGED accepted
  BY DEF Soak!Reread
<1>2. Left /\ (Unfailed' <=> Unfailed) /\ (summary'.ok <=> Unfailed')
  <2>1. SoakInv' /\ (Unfailed' <=> Unfailed)
    BY RereadKeeps, <1>1, EndingKeeps DEF Soak!Reread
  <2> QED
    BY <1>1, <2>1 DEF SoakInv, Stage, Reported
<1>3. CASE Unfailed
  BY <1>1, <1>2, <1>3 DEF Left, Soak!Promise!Pass
<1>4. CASE ~Unfailed
  BY <1>1, <1>2, <1>4 DEF Soak!Promise!Hold
<1> QED
  BY <1>3, <1>4

\* The bounded soak implements the promise of a bounded run: it accepts its
\* captures one at a time and no more than it was asked for, passes only with
\* all of them, and its verdict is final.
THEOREM SoakKeepsItsPromise == Spec => SoakKeepsPromise
<1>1. Init => Soak!Promise!Init
  <2> SUFFICES ASSUME Soak!Init PROVE Soak!Promise!Init
    BY DEF Init
  <2>1. pc = "idle" /\ accepted = 0
    BY Zenon DEF Soak!Init
  <2> QED
    BY <2>1 DEF Soak!Promise!Init
<1>2. SoakInv /\ [Next]_vars => [Soak!Promise!Next]_<<accepted, SoakVerdict>>
  <2> SUFFICES ASSUME SoakInv, [Next]_vars, ~Soak!Accept, ~Soak!Reread
               PROVE  UNCHANGED accepted /\ UNCHANGED SoakVerdict
    BY AcceptPromised, RereadPromised DEF Soak!Promise!Next
  <2>1. CASE UNCHANGED <<accepted, pc, summary>>
    BY <2>1 DEF SoakVerdict
  <2>2. CASE UNCHANGED accepted /\ pc # "done" /\ pc' # "done"
    BY <2>2 DEF SoakVerdict
  <2>3. UNCHANGED soakVars \/ Soak!Next
    BY DEF Next, Rest, vars
  <2>4. UNCHANGED soakVars => UNCHANGED <<accepted, pc, summary>>
    BY DEF soakVars
  <2>5. ASSUME Soak!Next
        PROVE  \/ UNCHANGED <<accepted, pc, summary>>
               \/ UNCHANGED accepted /\ pc # "done" /\ pc' # "done"
    BY <2>5, Zenon DEF Soak!Next, Soak!BuildReview, Soak!EditReview, Soak!BuildPlan, Soak!EditPlan, Soak!Switch,
       Soak!Start, Soak!Refuse, Soak!Preflight, Soak!PreflightFails, Soak!AdapterReturns, Soak!AdapterRaises,
       Soak!Fails, Soak!Validate, Soak!ValidateFails, Soak!Persist, Soak!PersistFails, Soak!RollBack,
       Soak!RollBackFails, Soak!Summarize, Soak!SummarizeFails, Soak!Die, Soak!Ended, Soak!documents,
       Soak!files, Soak!run
  <2> QED
    BY <2>1, <2>2, <2>3, <2>4, <2>5
<1>3. SoakInv /\ [Next]_vars
      => [Soak!Promise!Next]_<<accepted, IF pc # "done" THEN "open" ELSE IF summary.ok THEN "PASS" ELSE "HOLD">>
  BY <1>2 DEF SoakVerdict
<1> QED
  BY SoakInit, SoakKept, <1>1, <1>3, PTL DEF Spec, SoakKeepsPromise, Soak!SoakKeepsPromise, Soak!Promise!Spec

-----------------------------------------------------------------------------
(* The failure campaign. *)

LEMMA CampaignCounts == \A S : Failures!Cardinality(S) = Cardinality(S)
BY Zenon DEF Failures!Cardinality, Cardinality

LEMMA OneOrTwo ==
  ASSUME NEW a, NEW b
  PROVE  Cardinality({a}) = 1 /\ (a # b => Cardinality({a, b}) = 2)
<1>1. IsFiniteSet({a}) /\ Cardinality({a}) = 1
  BY FS_Singleton
<1>2. ASSUME a # b PROVE Cardinality({a, b}) = 2
  <2>1. {a, b} = {a} \cup {b} /\ b \notin {a}
    BY <1>2
  <2>2. Cardinality({a} \cup {b}) = Cardinality({a}) + 1
    BY <1>1, <2>1, FS_AddElement
  <2> QED
    BY <1>1, <2>1, <2>2
<1> QED
  BY <1>1, <1>2

\* What two observations of different sources are taken for.
LEMMA CoalitionOfTwo ==
  ASSUME NEW g, NEW h, NEW d, NEW e
  PROVE  Failures!Coalition({Failures!From("a", g, d), Failures!From("b", h, e)}) =
           IF d # e THEN "CONFLICTING" ELSE IF g = h THEN "HERDING_RISK" ELSE "GROUNDED"
<1> DEFINE p == Failures!From("a", g, d)
           q == Failures!From("b", h, e)
<1>1. p # q /\ p.digest = d /\ q.digest = e /\ p.group = g /\ q.group = h
  BY DEF Failures!From
<1>2. {o.digest : o \in {p, q}} = {d, e} /\ {o.group : o \in {p, q}} = {g, h}
  BY <1>1
<1> HIDE DEF p, q
<1>3. Cardinality({p, q}) = 2
  BY <1>1, OneOrTwo
<1>4. Cardinality({d, e}) = IF d = e THEN 1 ELSE 2
  BY OneOrTwo
<1>5. Cardinality({g, h}) = IF g = h THEN 1 ELSE 2
  BY OneOrTwo
<1>6. Failures!Coalition({p, q}) = IF d # e THEN "CONFLICTING" ELSE IF g = h THEN "HERDING_RISK" ELSE "GROUNDED"
  BY <1>2, <1>3, <1>4, <1>5, CampaignCounts DEF Failures!Coalition
<1> QED
  BY <1>6 DEF p, q

\* The source of the campaign is a valid one.
LEMMA TestSourceValid ==
  /\ Failures!SpecValid(Source) /\ Failures!HostAndPortValid(Source)
  /\ Failures!SnapshotBuilds(Source, Failures!TestBody)
  /\ Source.ttl \in Nat
<1>1. /\ Source.id # "" /\ Source.kind = "market_snapshot" /\ Source.https /\ ~Source.credentials
      /\ Source.host # "" /\ Source.host \notin Literals /\ Source.port = 443
      /\ Source.allowed = {Source.host} /\ Source.method = "GET"
  BY ProgramsAssumption, Zenon DEF Failures!CampaignAssumption
<1>2. Source.ttl \in 1 .. MaxTtl /\ Source.timeout = 5 /\ Source.bytes \in 1 .. MaxBytes
  BY ProgramsAssumption, Zenon DEF Failures!CampaignAssumption
<1>3. Source.timeout \in 1 .. 60
  BY <1>2
<1>4. Failures!UrlValid(Source)
  BY <1>1, Zenon DEF Failures!UrlValid
<1>5. Failures!SpecValid(Source)
  BY <1>1, <1>2, <1>3, <1>4, Zenon DEF Failures!SpecValid, Failures!Kinds
<1>6. Failures!HostAndPortValid(Source)
  BY <1>1, <1>4, Zenon DEF Failures!HostAndPortValid
<1>7. Failures!TestBody.bytes <= Source.bytes /\ Failures!Normalizes(Failures!TestBody)
  BY <1>2, DocumentsAssumption DEF Failures!TestBody, Failures!Normalizes, Failures!ContentTypes
<1>8. Source.method \in Failures!Methods
  BY <1>1, Zenon DEF Failures!Methods
<1> QED
  BY <1>2, <1>5, <1>6, <1>7, <1>8, DocumentsAssumption DEF Failures!SnapshotBuilds

LEMMA CasesFinite ==
  /\ IsFiniteSet(Failures!Cases)
  /\ Failures!Cases = {"independent_agreement", "conflicting_sources", "weak_provenance_agreement",
                       "source_outage", "stale_snapshot", "malformed_payload", "replay_hash_mismatch",
                       "non_public_dns", "dns_address_drift"}
<1>1. Failures!Cases = {"independent_agreement", "conflicting_sources", "weak_provenance_agreement",
                       "source_outage", "stale_snapshot", "malformed_payload", "replay_hash_mismatch",
                       "non_public_dns", "dns_address_drift"}
  BY DEF Failures!Cases, Failures!Passed
<1>2. ASSUME NEW S, IsFiniteSet(S), NEW x PROVE IsFiniteSet(S \cup {x})
  BY <1>2, FS_AddElement
<1> DEFINE A == {} \cup {"independent_agreement"} \cup {"conflicting_sources"}
                  \cup {"weak_provenance_agreement"} \cup {"source_outage"}
           B == A \cup {"stale_snapshot"} \cup {"malformed_payload"} \cup {"replay_hash_mismatch"}
                  \cup {"non_public_dns"} \cup {"dns_address_drift"}
<1>3. IsFiniteSet(A)
  BY <1>2, FS_EmptySet, Zenon
<1>4. IsFiniteSet(B)
  <2> HIDE DEF A
  <2> QED
    BY <1>2, <1>3, Zenon
<1>5. Failures!Cases = B
  BY <1>1
<1> QED
  BY <1>1, <1>4, <1>5

\* Each case drives the checks into the failure it is named for.
LEMMA CasesPass == \A c \in Failures!Cases : Failures!Passed[c]
<1>1. Failures!Passed.independent_agreement
  <2>1. Failures!Coalition({Failures!From("a", "provider-a", 1), Failures!From("b", "provider-b", 1)}) = "GROUNDED"
    BY CoalitionOfTwo
  <2> QED
    BY <2>1 DEF Failures!Passed
<1>2. Failures!Passed.conflicting_sources
  <2>1. Failures!Coalition({Failures!From("a", "provider-a", 1), Failures!From("b", "provider-b", 2)})
          = "CONFLICTING"
    BY CoalitionOfTwo
  <2> QED
    BY <2>1 DEF Failures!Passed
<1>3. Failures!Passed.weak_provenance_agreement
  <2>1. Failures!Coalition({Failures!From("a", "shared", 1), Failures!From("b", "shared", 1)}) = "HERDING_RISK"
    BY CoalitionOfTwo
  <2> QED
    BY <2>1 DEF Failures!Passed
<1>4. Failures!Passed.source_outage
  <2>1. /\ Failures!RollbackBuilds("source_outage", 0, 0)
        /\ Failures!RollbackValid(Failures!RollbackReceipt("source_outage", 0, 0))
    BY DEF Failures!RollbackBuilds, Failures!RollbackValid, Failures!RollbackReceipt, Failures!Triggers
  <2> QED
    BY <2>1 DEF Failures!Passed
<1>5. Failures!Passed.stale_snapshot
  <2>1. Failures!TestSnapshot.expires = 0 + Source.ttl
    BY DEF Failures!TestSnapshot, Failures!Snapshot
  <2>2. Failures!Stale(Failures!TestSnapshot, Source.ttl + 1)
    BY <2>1, TestSourceValid DEF Failures!Stale
  <2> QED
    BY <2>2, TestSourceValid DEF Failures!Passed
<1>6. Failures!Passed.malformed_payload
  <2>1. ~Failures!Normalizes([Failures!TestBody EXCEPT !.wellFormed = FALSE])
    BY DEF Failures!Normalizes, Failures!TestBody
  <2> QED
    BY <2>1, TestSourceValid DEF Failures!Passed
<1>7. Failures!Passed.replay_hash_mismatch
  <2>1. Failures!TestSnapshot.raw # [Failures!TestBody EXCEPT !.bytes = @ + 8]
    BY DEF Failures!TestSnapshot, Failures!Snapshot, Failures!TestBody
  <2> QED
    BY <2>1, TestSourceValid DEF Failures!Passed
<1>8. Failures!Passed.non_public_dns
  <2>1. Loopback \notin Public
    BY ProgramsAssumption, Zenon DEF Failures!CampaignAssumption
  <2> QED
    BY <2>1, TestSourceValid DEF Failures!Passed, Failures!Accepted
<1>9. Failures!Passed.dns_address_drift
  <2>1. FirstAddress \in Public /\ SecondAddress # FirstAddress
    BY ProgramsAssumption, Zenon DEF Failures!CampaignAssumption
  <2>2. ~Failures!ReceiptCurrent(Failures!Receipt(Source, "commit", {FirstAddress}), Source, {SecondAddress})
    BY <2>1 DEF Failures!ReceiptCurrent, Failures!Receipt
  <2> QED
    BY <2>1, <2>2, TestSourceValid DEF Failures!Passed, Failures!ReceiptBuilds, Failures!Accepted
<1> QED
  BY <1>1, <1>2, <1>3, <1>4, <1>5, <1>6, <1>7, <1>8, <1>9, CasesFinite, Zenon

\* The cases not exercised yet are the block being run; there are cycles for all of them.
Unseen == {c \in Failures!Cases : counts[c] = 0}
CampaignInv ==
    /\ counts \in [Failures!Cases -> Nat] /\ passes = counts
    /\ status = "idle" => Unseen = Failures!Cases /\ block = Failures!Cases
    /\ status = "running" => /\ cycles \in Nat /\ Cardinality(Unseen) <= cycles
                             /\ Unseen = {} \/ Unseen = block
    /\ Failures!CampaignPasses

LEMMA CampaignInit == Init => CampaignInv
<1> SUFFICES ASSUME Failures!Init PROVE CampaignInv
  BY DEF Init
<1> QED
  BY DEF Failures!Init, CampaignInv, Unseen, Failures!None0, Failures!CampaignPasses

LEMMA CampaignKept == CampaignInv /\ [Next]_vars => CampaignInv'
<1> SUFFICES ASSUME CampaignInv, [Next]_vars PROVE CampaignInv'
  OBVIOUS
<1> USE DEF CampaignInv
<1>a. IsFiniteSet(Unseen) /\ Cardinality(Unseen) \in Nat
  BY CasesFinite, FS_Subset, FS_CardinalityType DEF Unseen
<1>1. CASE UNCHANGED campaignVars
  BY <1>1 DEF campaignVars, Unseen, Failures!CampaignPasses
<1>2. ASSUME NEW n \in 0 .. MaxCycles, Failures!Begin(n) PROVE CampaignInv'
  BY <1>2, CampaignCounts DEF Failures!Begin, Unseen, Failures!CampaignPasses
<1>3. ASSUME NEW n \in 0 .. MaxCycles, Failures!Refused(n) PROVE CampaignInv'
  BY <1>3 DEF Failures!Refused, Unseen, Failures!CampaignPasses
<1>4. ASSUME NEW c \in Failures!Cases, Failures!RunCase(c) PROVE CampaignInv'
  <2>1. /\ status = "running" /\ status' = status /\ cycles > 0 /\ c \in block /\ cycles' = cycles - 1
        /\ block' = IF block = {c} THEN Failures!Cases ELSE block \ {c}
        /\ counts' = [counts EXCEPT ![c] = @ + 1] /\ passes' = [passes EXCEPT ![c] = @ + 1]
    BY <1>4, CasesPass DEF Failures!RunCase
  <2>2. counts' \in [Failures!Cases -> Nat] /\ passes' = counts'
    BY <2>1
  <2>3. Unseen' = Unseen \ {c}
    BY <2>1 DEF Unseen
  <2>4. Unseen' = {} \/ Unseen' = block'
    BY <2>1, <2>3
  <2>5. cycles' \in Nat /\ Cardinality(Unseen') <= cycles'
    <3>1. CASE c \in Unseen
      <4>1. Cardinality(Unseen \ {c}) = Cardinality(Unseen) - 1
        BY <1>a, <3>1, FS_RemoveElement
      <4> QED
        BY <1>a, <2>1, <2>3, <4>1
    <3>2. CASE c \notin Unseen
      <4>1. Unseen = {}
        BY <2>1, <3>2
      <4>2. Unseen' = {} /\ Cardinality({}) = 0
        BY <2>3, <4>1, FS_EmptySet
      <4> QED
        BY <2>1, <4>2
    <3> QED
      BY <3>1, <3>2
  <2> QED
    BY <2>1, <2>2, <2>4, <2>5 DEF Failures!CampaignPasses
<1>5. ASSUME Failures!Summarize PROVE CampaignInv'
  <2>1. Unseen = {}
    <3>1. Cardinality(Unseen) = 0
      BY <1>5, <1>a DEF Failures!Summarize
    <3> QED
      BY <1>a, <3>1, FS_EmptySet
  <2>2. \A c \in Failures!Cases : counts[c] > 0 /\ passes[c] = counts[c]
    BY <2>1 DEF Unseen
  <2> QED
    BY <1>5, <2>2 DEF Failures!Summarize, Failures!CampaignPasses, Unseen
<1> QED
  BY <1>1, <1>2, <1>3, <1>4, <1>5 DEF Next, Rest, vars, Failures!Next

\* The failure campaign: however the blocks are shuffled and wherever the last
\* one is cut off, a campaign that ends has run all nine cases, and the checks of
\* the documents answer each of them (gate1_failure_campaign run_case, run_campaign).
THEOREM CampaignsPass == Spec => []CampaignPasses
<1>1. CampaignInv => CampaignPasses
  BY DEF CampaignInv, CampaignPasses, Of
<1> QED
  BY <1>1, CampaignInit, CampaignKept, PTL DEF Spec

-----------------------------------------------------------------------------
(* The consensus of sources. *)

\* A finite set of integers has a greatest element: one with the fewest above it.
LEMMA GreatestOfFinite ==
  ASSUME NEW S, S \subseteq Int, S # {}, IsFiniteSet(S)
  PROVE  \E x \in S : \A y \in S : x >= y
<1> DEFINE Above(x) == {y \in S : y > x}
<1>1. ASSUME NEW x \in S PROVE IsFiniteSet(Above(x)) /\ Cardinality(Above(x)) \in Nat
  BY FS_Subset, FS_CardinalityType
<1>2. PICK x \in S : \A y \in S : Cardinality(Above(x)) <= Cardinality(Above(y))
  <2> DEFINE T == {Cardinality(Above(y)) : y \in S}
  <2>1. T \subseteq Nat /\ T # {}
    BY <1>1
  <2> HIDE DEF T
  <2>2. PICK n \in T : \A m \in T : n <= m
    BY <2>1, LeastOfNaturals
  <2> QED
    BY <2>2 DEF T
<1>3. ASSUME NEW z \in S, ~(x >= z) PROVE FALSE
  <2>1. Above(z) \subseteq Above(x) /\ z \in Above(x) /\ z \notin Above(z)
    <3>1. z \in Int /\ x \in Int /\ x < z
      BY <1>3
    <3>2. \A y \in S : y > z => y > x
      BY <3>1
    <3>3. z > x /\ ~(z > z)
      BY <3>1
    <3> QED
      BY <3>2, <3>3, Zenon
  <2>2. /\ Cardinality(Above(z)) <= Cardinality(Above(x))
        /\ Cardinality(Above(z)) = Cardinality(Above(x)) => Above(z) = Above(x)
    BY <1>1, <2>1, FS_Subset
  <2> HIDE DEF Above
  <2> QED
    BY <1>1, <1>2, <2>1, <2>2
<1> QED
  BY <1>3

LEMMA FiniteImage ==
  ASSUME NEW S, IsFiniteSet(S), NEW f, DOMAIN f = S
  PROVE  IsFiniteSet({f[x] : x \in S})
<1> DEFINE T == {f[x] : x \in S}
           g == [x \in S |-> f[x]]
<1>1. g \in Surjection(S, T)
  BY DEF Surjection
<1> QED
  BY <1>1, FS_Surjection

LEMMA LeastOfFinite ==
  ASSUME NEW S, S \subseteq Int, S # {}, IsFiniteSet(S)
  PROVE  \E x \in S : \A y \in S : x <= y
<1> DEFINE N == {0 - x : x \in S}
<1>1. N \subseteq Int /\ N # {} /\ IsFiniteSet(N)
  <2> DEFINE f == [x \in S |-> 0 - x]
  <2>1. IsFiniteSet({f[x] : x \in S})
    BY FiniteImage
  <2>2. {f[x] : x \in S} = N
    <3>1. \A x \in S : f[x] = 0 - x
      OBVIOUS
    <3> HIDE DEF f
    <3> QED
      BY <3>1
  <2>3. N \subseteq Int /\ N # {}
    <3>1. \A x \in S : 0 - x \in Int
      OBVIOUS
    <3> QED
      BY <3>1, Zenon
  <2> QED
    BY <2>1, <2>2, <2>3
<1> HIDE DEF N
<1>2. PICK n \in N : \A m \in N : n >= m
  BY <1>1, GreatestOfFinite
<1> QED
  BY <1>2 DEF N

\* The tolerance bounds every two values when it bounds the extremes.
LEMMA SpreadBounds ==
  ASSUME NEW V, V \subseteq Int, V # {}, IsFiniteSet(V)
  PROVE  Consensus!Max(V) - Consensus!Min(V) <= Tolerance <=> \A x, y \in V : x - y <= Tolerance
<1>1. Consensus!Max(V) \in V /\ \A y \in V : Consensus!Max(V) >= y
  BY GreatestOfFinite DEF Consensus!Max
<1>2. Consensus!Min(V) \in V /\ \A y \in V : Consensus!Min(V) <= y
  BY LeastOfFinite DEF Consensus!Min
<1>3. Tolerance \in Nat
  BY ProgramsAssumption DEF Consensus!ConsensusAssumption
<1> DEFINE hi == Consensus!Max(V)
           lo == Consensus!Min(V)
<1> HIDE DEF hi, lo
<1>4. hi \in V /\ lo \in V /\ \A y \in V : hi >= y /\ lo <= y
  BY <1>1, <1>2 DEF hi, lo
<1>5. ASSUME hi - lo <= Tolerance, NEW x \in V, NEW y \in V PROVE x - y <= Tolerance
  <2>1. hi \in Int /\ lo \in Int /\ x \in Int /\ y \in Int /\ hi >= x /\ lo <= y
    BY <1>4
  <2> QED
    BY <1>3, <1>5, <2>1
<1>6. hi - lo <= Tolerance <=> \A x, y \in V : x - y <= Tolerance
  BY <1>4, <1>5, Zenon
<1> QED
  BY <1>6 DEF hi, lo

ConsensusInv ==
    /\ packet \subseteq Observations /\ Consensus!PacketValid(packet) /\ evaluatedAt \in Nat
    /\ writing => decision = Consensus!Decision(packet, evaluatedAt)

LEMMA ConsensusInit == Init => ConsensusInv
BY DEF Init, Consensus!Init, ConsensusInv

LEMMA ConsensusKept == ConsensusInv /\ [Next]_vars => ConsensusInv'
<1> SUFFICES ASSUME ConsensusInv, [Next]_vars PROVE ConsensusInv'
  OBVIOUS
<1> USE DEF ConsensusInv
<1>1. CASE UNCHANGED consensusVars
  BY <1>1 DEF consensusVars
<1>2. ASSUME NEW p, p \subseteq Observations, Consensus!Revise(p) PROVE ConsensusInv'
  BY <1>2 DEF Consensus!Revise
<1>3. ASSUME NEW t \in 0 .. MaxTime, Consensus!Stamp(t) PROVE ConsensusInv'
  BY <1>3, ProgramsAssumption DEF Consensus!Stamp, Consensus!ConsensusAssumption
<1>4. CASE Consensus!Evaluate
  BY <1>4 DEF Consensus!Evaluate
<1>5. CASE Consensus!Summarize \/ Consensus!SummaryLost
  BY <1>5 DEF Consensus!Summarize, Consensus!SummaryLost
<1>6. ASSUME NEW o \in Observations, NEW r \in packet
      PROVE  packet \cup {o} \subseteq Observations /\ (packet \ {r}) \cup {o} \subseteq Observations
             /\ packet \ {r} \subseteq Observations
  OBVIOUS
<1> QED
  BY <1>1, <1>2, <1>3, <1>4, <1>5, <1>6 DEF Next, Rest, vars, Consensus!Next

\* The chain of refusals lets through what the documentation says of an accepted packet.
LEMMA AcceptedExactly ==
  ASSUME NEW p, p \subseteq Observations, Consensus!PacketValid(p), NEW at \in Nat
  PROVE  Consensus!Code(p, at) = "ACCEPT_OBSERVATION_ONLY" <=>
           /\ \A o \in p : Consensus!Usable(o, at)
           /\ \A o, q \in p : o # q => Consensus!Corroborates(o, q)
<1> DEFINE V == {Consensus!Normalized(o) : o \in p}
           spread == Consensus!Max(V) - Consensus!Min(V)
<1>1. Consensus!Code(p, at) = "ACCEPT_OBSERVATION_ONLY" <=>
        /\ ~\E o \in p : ~Consensus!Normalizes(o)
        /\ {o.comparisonUnit : o \in p} = {ComparisonUnit}
        /\ ~\E o \in p : o.review # "ELIGIBLE" \/ o.reviewExpires = Consensus!NoTime
        /\ ~\E o \in p : Consensus!ReviewExpired(o, at)
        /\ ~\E o \in p : o.expires <= at
        /\ ~(spread > Tolerance)
        /\ Consensus!Independent(p)
  <2> DEFINE a == \E o \in p : ~Consensus!Normalizes(o)
             b == {o.comparisonUnit : o \in p} = {ComparisonUnit}
             c == \E o \in p : o.review # "ELIGIBLE" \/ o.reviewExpires = Consensus!NoTime
             d == \E o \in p : Consensus!ReviewExpired(o, at)
             e == \E o \in p : o.expires <= at
             f == spread > Tolerance
             g == Consensus!Independent(p)
  <2>1. Consensus!Code(p, at) =
          IF a THEN "HOLD_UNIT_AMBIGUITY" ELSE IF ~b THEN "HOLD_UNIT_AMBIGUITY"
          ELSE IF c THEN "HOLD_SOURCE_REVIEW" ELSE IF d THEN "HOLD_REVIEW_EXPIRED"
          ELSE IF e THEN "HOLD_STALE" ELSE IF f THEN "HOLD_CONFLICT"
          ELSE IF ~g THEN "HOLD_CONCENTRATION" ELSE "ACCEPT_OBSERVATION_ONLY"
    BY Zenon DEF Consensus!Code, Consensus!Conflict
  <2> HIDE DEF a, b, c, d, e, f, g
  <2>2. Consensus!Code(p, at) = "ACCEPT_OBSERVATION_ONLY" <=> ~a /\ b /\ ~c /\ ~d /\ ~e /\ ~f /\ g
    BY <2>1
  <2> QED
    BY <2>2 DEF a, b, c, d, e, f, g
<1>2. \A o \in p : {o.value, o.factor, o.expires, o.reviewExpires} \subseteq Int
  BY ProgramsAssumption, Zenon DEF Consensus!ConsensusAssumption
<1>3. \A o \in p : Consensus!Normalized(o) \in Int
  <2> SUFFICES ASSUME NEW o \in p PROVE Consensus!Normalized(o) \in Int
    OBVIOUS
  <2>1. o.value \in Int /\ o.factor \in Int
    BY <1>2
  <2> QED
    BY <2>1 DEF Consensus!Normalized
<1>4. IsFiniteSet(p) /\ p # {}
  <2>1. Consensus!IsFiniteSet(p) <=> IsFiniteSet(p)
    BY Zenon DEF Consensus!IsFiniteSet, IsFiniteSet
  <2>2. Consensus!Cardinality(p) = Cardinality(p)
    BY Zenon DEF Consensus!Cardinality, Cardinality
  <2>3. IsFiniteSet(p) /\ Cardinality(p) \in 2 .. MaxSources
    BY <2>1, <2>2, Zenon DEF Consensus!PacketValid
  <2>4. Cardinality(p) # 0
    BY <2>3
  <2> QED
    BY <2>3, <2>4, FS_EmptySet
<1>5. V \subseteq Int /\ V # {} /\ IsFiniteSet(V)
  <2> DEFINE f == [o \in p |-> Consensus!Normalized(o)]
  <2>1. IsFiniteSet({f[o] : o \in p})
    BY <1>4, FiniteImage
  <2>2. {f[o] : o \in p} = V
    BY Zenon
  <2> QED
    BY <1>3, <1>4, <2>1, <2>2, Zenon
<1>6. /\ spread <= Tolerance <=> \A x, y \in V : x - y <= Tolerance
      /\ spread \in Int
  <2>1. Consensus!Max(V) \in V /\ Consensus!Min(V) \in V
    <3>1. /\ \E x \in V : \A y \in V : x >= y
          /\ \E x \in V : \A y \in V : x <= y
      BY <1>5, GreatestOfFinite, LeastOfFinite
    <3> QED
      BY <3>1, Zenon DEF Consensus!Max, Consensus!Min
  <2>2. spread <= Tolerance <=> \A x, y \in V : x - y <= Tolerance
    <3> HIDE DEF V
    <3> QED
      BY <1>5, SpreadBounds
  <2>3. Consensus!Max(V) \in Int /\ Consensus!Min(V) \in Int
    BY <1>5, <2>1, Zenon
  <2>4. spread \in Int
    <3> HIDE DEF V
    <3> QED
      BY <2>3
  <2> QED
    BY <2>2, <2>4, Zenon
<1>7. Tolerance \in Nat
  BY ProgramsAssumption DEF Consensus!ConsensusAssumption
<1>8. (\A o \in p : Consensus!Usable(o, at)) <=>
        /\ ~\E o \in p : ~Consensus!Normalizes(o)
        /\ {o.comparisonUnit : o \in p} = {ComparisonUnit}
        /\ ~\E o \in p : o.review # "ELIGIBLE" \/ o.reviewExpires = Consensus!NoTime
        /\ ~\E o \in p : Consensus!ReviewExpired(o, at)
        /\ ~\E o \in p : o.expires <= at
  <2>1. {o.comparisonUnit : o \in p} = {ComparisonUnit} <=> \A o \in p : o.comparisonUnit = ComparisonUnit
    BY <1>4, Zenon
  <2>2. \A o \in p : /\ ~Consensus!ReviewExpired(o, at) <=> o.reviewExpires > at
                     /\ ~(o.expires <= at) <=> o.expires > at
                     /\ o.reviewExpires > at => o.reviewExpires # Consensus!NoTime
    BY <1>2 DEF Consensus!ReviewExpired, Consensus!NoTime
  <2> QED
    BY <2>1, <2>2, Zenon DEF Consensus!Usable
<1>9. ~(spread > Tolerance) <=> spread <= Tolerance
  <2> HIDE DEF spread
  <2> QED
    BY <1>6, <1>7
<1>10. (\A x, y \in V : x - y <= Tolerance) /\ Consensus!Independent(p)
         <=> \A o, q \in p : o # q => Consensus!Corroborates(o, q)
  <2>1. \A o \in p : Consensus!Normalized(o) - Consensus!Normalized(o) <= Tolerance
    BY <1>3, <1>7
  <2>2. (\A x, y \in V : x - y <= Tolerance)
          <=> \A o, q \in p : Consensus!Normalized(o) - Consensus!Normalized(q) <= Tolerance
    BY Zenon
  <2> QED
    BY <2>1, <2>2, Zenon DEF Consensus!Independent, Consensus!Corroborates
<1> HIDE DEF V, spread
<1> QED
  BY <1>1, <1>6, <1>8, <1>9, <1>10, Zenon

\* The consensus of sources: a decision accepts exactly the packets that the
\* documentation says it accepts, at the time stamped, and with every observation
\* (gate1_source_consensus evaluate_packet).
THEOREM ConsensusIsExact == Spec => []ConsensusExact
<1>1. ConsensusInv => ConsensusExact
  <2> SUFFICES ASSUME ConsensusInv, writing PROVE Consensus!ConsensusExact
    BY DEF ConsensusExact, Of, Consensus!ConsensusExact
  <2>1. decision.code = Consensus!Code(packet, evaluatedAt)
    BY DEF ConsensusInv, Consensus!Decision
  <2>2. decision.observations = {o \in packet : Consensus!Normalizes(o)}
    BY DEF ConsensusInv, Consensus!Decision
  <2>3. decision.code = "ACCEPT_OBSERVATION_ONLY" <=>
          /\ \A o \in packet : Consensus!Usable(o, evaluatedAt)
          /\ \A o, q \in packet : o # q => Consensus!Corroborates(o, q)
    BY <2>1, AcceptedExactly DEF ConsensusInv
  <2>4. decision.code = "ACCEPT_OBSERVATION_ONLY" => decision.observations = packet
    BY <2>2, <2>3 DEF Consensus!Usable
  <2> QED
    BY <2>3, <2>4, Zenon DEF Consensus!ConsensusExact
<1> QED
  BY <1>1, ConsensusInit, ConsensusKept, PTL DEF Spec

-----------------------------------------------------------------------------
(* The scrolls. *)

\* A registry holds finitely many definitions, and one of a family and version.
Registry(reg) ==
    /\ DOMAIN reg \subseteq Definitions /\ IsFiniteSet(DOMAIN reg)
    /\ \A d, e \in DOMAIN reg : d.family = e.family /\ d.version = e.version => d = e

ScrollInv ==
    /\ Registry(scrolls) /\ Registry(listing.of)
    /\ \A f \in listing.families :
          /\ Scrolls!Active(listing.of, f) # {}
          /\ Scrolls!Compatible(Scrolls!Latest(listing.of, f), listing.chain)

LEMMA ScrollInit == Init => ScrollInv
<1> SUFFICES ASSUME Scrolls!Init PROVE ScrollInv
  BY DEF Init
<1>1. scrolls = << >> /\ listing.of = << >> /\ listing.families = {}
  BY DEF Scrolls!Init, Scrolls!NoListing
<1>2. DOMAIN scrolls = {} /\ DOMAIN listing.of = {}
  BY <1>1
<1> QED
  BY <1>1, <1>2, FS_EmptySet DEF ScrollInv, Registry

LEMMA ScrollKept == ScrollInv /\ [Next]_vars => ScrollInv'
<1> SUFFICES ASSUME ScrollInv, [Next]_vars PROVE ScrollInv'
  OBVIOUS
<1>1. CASE UNCHANGED <<scrolls, listing>>
  BY <1>1 DEF ScrollInv
<1>2. ASSUME UNCHANGED listing, Registry(scrolls') PROVE ScrollInv'
  BY <1>2 DEF ScrollInv
<1>3. ASSUME NEW d \in Definitions, Scrolls!Register(d) PROVE ScrollInv'
  <2>1. DOMAIN scrolls' = DOMAIN scrolls \cup {d} /\ UNCHANGED listing
    BY <1>3 DEF Scrolls!Register
  <2>2. \A e \in DOMAIN scrolls : <<e.family, e.version>> # <<d.family, d.version>>
    BY <1>3 DEF Scrolls!Register
  <2>3. \A e \in DOMAIN scrolls : ~(e.family = d.family /\ e.version = d.version)
    BY <2>2
  <2>4. IsFiniteSet(DOMAIN scrolls \cup {d})
    BY FS_AddElement DEF ScrollInv, Registry
  <2>5. Registry(scrolls')
    BY <2>1, <2>3, <2>4, Zenon DEF ScrollInv, Registry
  <2> QED
    BY <1>2, <2>1, <2>5
<1>4. ASSUME NEW d \in Definitions, Scrolls!Validate(d) \/ Scrolls!Deprecate(d) PROVE ScrollInv'
  <2>1. DOMAIN scrolls' = DOMAIN scrolls /\ UNCHANGED listing
    BY <1>4 DEF Scrolls!Validate, Scrolls!Deprecate
  <2>2. Registry(scrolls')
    BY <2>1, Zenon DEF ScrollInv, Registry
  <2> QED
    BY <1>2, <2>1, <2>2
<1>5. ASSUME NEW c \in Chains, Scrolls!ListByChain(c) PROVE ScrollInv'
  <2>1. /\ scrolls' = scrolls /\ listing'.of = scrolls /\ listing'.chain = c
        /\ \A f \in listing'.families : /\ Scrolls!Active(scrolls, f) # {}
                                       /\ Scrolls!Compatible(Scrolls!Latest(scrolls, f), c)
    BY <1>5 DEF Scrolls!ListByChain
  <2> QED
    BY <2>1 DEF ScrollInv
<1>6. ASSUME \/ \E d \in Definitions : Scrolls!ProposeVersion(d)
             \/ \E f \in Scrolls!Families : Scrolls!Propose(f)
             \/ \E fs \in SUBSET Scrolls!Families : Scrolls!Compose(fs)
             \/ Scrolls!ProposeComposite
      PROVE  UNCHANGED <<scrolls, listing>>
  BY <1>6 DEF Scrolls!ProposeVersion, Scrolls!Propose, Scrolls!Compose, Scrolls!ProposeComposite
<1>7. CASE UNCHANGED scrollVars
  BY <1>1, <1>7 DEF scrollVars
<1> QED
  BY <1>1, <1>3, <1>4, <1>5, <1>6, <1>7 DEF Next, Rest, vars, Scrolls!Next

\* get without a version finds a highest active definition when there is one.
LEMMA LatestIsHighest ==
  ASSUME NEW reg, NEW f, Registry(reg), Scrolls!Active(reg, f) # {}
  PROVE  /\ Scrolls!Latest(reg, f) \in Scrolls!Active(reg, f)
         /\ \A e \in Scrolls!Active(reg, f) : e.version <= Scrolls!Latest(reg, f).version
         /\ Scrolls!Max({e.version : e \in Scrolls!Active(reg, f)}) = Scrolls!Latest(reg, f).version
<1> DEFINE A == Scrolls!Active(reg, f)
           V == {e.version : e \in A}
<1>1. IsFiniteSet(A) /\ \A e \in A : e.version \in Int
  <2>1. A \subseteq DOMAIN reg
    BY DEF Scrolls!Active
  <2> QED
    BY <2>1, FS_Subset, ProgramsAssumption DEF Registry, Scrolls!ScrollAssumption
<1>2. V \subseteq Int /\ V # {} /\ IsFiniteSet(V)
  <2> DEFINE g == [e \in A |-> e.version]
  <2>1. IsFiniteSet({g[e] : e \in A})
    BY <1>1, FiniteImage
  <2>2. {g[e] : e \in A} = V
    BY Zenon
  <2> QED
    BY <1>1, <2>1, <2>2, Zenon
<1>3. \E x \in V : \A y \in V : x >= y
  BY <1>2, GreatestOfFinite
<1>4. PICK d \in A : \A e \in A : e.version <= d.version
  BY <1>1, <1>3
<1>5. /\ Scrolls!Latest(reg, f) \in A
      /\ \A e \in A : e.version <= Scrolls!Latest(reg, f).version
  BY <1>4, Zenon DEF Scrolls!Latest
<1>6. Scrolls!Max(V) \in V /\ \A y \in V : Scrolls!Max(V) >= y
  BY <1>3, Zenon DEF Scrolls!Max
<1>7. Scrolls!Max(V) = Scrolls!Latest(reg, f).version
  <2> DEFINE m == Scrolls!Max(V)
             l == Scrolls!Latest(reg, f)
  <2>1. m \in Int /\ l.version \in Int /\ m >= l.version /\ l.version >= m
    <3>1. l.version \in V /\ m \in V
      BY <1>5, <1>6
    <3>2. m >= l.version
      BY <1>6, <3>1
    <3>3. \A y \in V : y <= l.version
      BY <1>5
    <3> QED
      BY <1>2, <3>1, <3>2, <3>3
  <2> HIDE DEF m, l
  <2>2. m = l.version
    BY <2>1
  <2> QED
    BY <2>2 DEF m, l
<1> QED
  BY <1>5, <1>7

\* The scrolls: a family that was listed for a chain is proposed on that chain,
\* whatever else happened to the registry, as long as nobody deprecated what was
\* listed or registered a newer version (scroll_protocol list_by_chain, propose).
THEOREM ListingsServe == Spec => []ListingServes
<1>1. ScrollInv => ListingServes
  <2> SUFFICES ASSUME ScrollInv, NEW f \in listing.families,
                      \A d \in Scrolls!Active(listing.of, f) : d \in Scrolls!Active(scrolls, f),
                      \A d \in Scrolls!Active(scrolls, f) :
                        d.version <= Scrolls!Max({e.version : e \in Scrolls!Active(listing.of, f)})
               PROVE  Scrolls!Compatible(Scrolls!Latest(scrolls, f), listing.chain)
    BY Zenon DEF ListingServes, Of, Scrolls!ListingServes
  <2> DEFINE old == Scrolls!Latest(listing.of, f)
             new == Scrolls!Latest(scrolls, f)
  <2>1. Scrolls!Active(listing.of, f) # {} /\ Scrolls!Compatible(old, listing.chain)
    BY DEF ScrollInv
  <2>2. Scrolls!Active(scrolls, f) # {}
    BY <2>1
  <2>3. /\ old \in Scrolls!Active(listing.of, f)
        /\ Scrolls!Max({e.version : e \in Scrolls!Active(listing.of, f)}) = old.version
    BY <2>1, LatestIsHighest DEF ScrollInv
  <2>4. /\ new \in Scrolls!Active(scrolls, f)
        /\ \A e \in Scrolls!Active(scrolls, f) : e.version <= new.version
    BY <2>2, LatestIsHighest DEF ScrollInv
  <2>5. old \in Scrolls!Active(scrolls, f) /\ old.version <= new.version /\ new.version <= old.version
    BY <2>3, <2>4
  <2>6. /\ old \in DOMAIN scrolls /\ new \in DOMAIN scrolls /\ old.family = f /\ new.family = f
        /\ old.version \in Int /\ new.version \in Int
    BY <2>4, <2>5, ProgramsAssumption DEF ScrollInv, Registry, Scrolls!Active, Scrolls!ScrollAssumption
  <2> HIDE DEF old, new
  <2>7. old.version = new.version
    BY <2>5, <2>6
  <2>8. old = new
    BY <2>6, <2>7 DEF ScrollInv, Registry
  <2> QED
    BY <2>1, <2>8 DEF new
<1> QED
  BY <1>1, ScrollInit, ScrollKept, PTL DEF Spec

-----------------------------------------------------------------------------
(* The gauntlets. *)

LEMMA GauntletSets ==
  \A S : (Gauntlet!IsFiniteSet(S) <=> IsFiniteSet(S)) /\ Gauntlet!Cardinality(S) = Cardinality(S)
BY Zenon DEF Gauntlet!IsFiniteSet, IsFiniteSet, Gauntlet!Cardinality, Cardinality

\* Division with a positive divisor, by the multiples around the dividend.
LEMMA WholeParts ==
  ASSUME NEW d \in Int, NEW parts \in Nat \ {0}
  PROVE  /\ d \div parts \in Int
         /\ (d \div parts) * parts <= d /\ d < (d \div parts) * parts + parts
<1>1. d = parts * (d \div parts) + (d % parts) /\ d % parts \in 0 .. parts - 1
  BY SMTT(30)
<1>2. PICK t \in Int : t = d \div parts
  OBVIOUS
<1>3. PICK r \in 0 .. parts - 1 : d = parts * t + r
  BY <1>1, <1>2
<1>4. PICK p \in Int : p = parts * t /\ p = t * parts
  OBVIOUS
<1> QED
  BY <1>2, <1>3, <1>4

\* A product with a positive factor keeps the order, and exceeds three times the other.
LEMMA ProductsGrow ==
  ASSUME NEW k \in Nat \ 0 .. 2, NEW x \in Nat, NEW y \in Nat, x <= y
  PROVE  k * x \in Nat /\ k * y \in Nat /\ k * x <= k * y /\ 3 * x <= k * x
<1>1. PICK j \in Nat : k = 3 + j
  <2>1. k - 3 \in Nat /\ k = 3 + (k - 3)
    OBVIOUS
  <2> QED
    BY <2>1
<1>2. PICK z \in Nat : y = x + z
  <2>1. y - x \in Nat /\ y = x + (y - x)
    OBVIOUS
  <2> QED
    BY <2>1
<1>3. k * x \in Nat /\ k * z \in Nat /\ k * y = k * x + k * z
  BY <1>2, SMTT(30)
<1>4. j * x \in Nat /\ k * x = 3 * x + j * x
  BY <1>1, SMTT(30)
<1> QED
  BY <1>2, <1>3, <1>4

LEMMA Numbers ==
  /\ One \in Nat \ {0} /\ RelParts \in Nat \ 0 .. 2 /\ AbsParts \in Nat \ 0 .. 2
  /\ \A x \in Int : Gauntlet!Magnitude(x) \in Nat
BY ProgramsAssumption DEF Gauntlet!GauntletAssumption, Gauntlet!NumbersAssumption, Gauntlet!Magnitude

\* What it is to be close.
LEMMA CloseMeans ==
  ASSUME NEW x \in Int, NEW y \in Int, NEW one \in Nat, Gauntlet!Close(x, y, one)
  PROVE  \/ RelParts * Gauntlet!Magnitude(x - y) <= Gauntlet!Magnitude(x)
         \/ RelParts * Gauntlet!Magnitude(x - y) <= Gauntlet!Magnitude(y)
         \/ AbsParts * Gauntlet!Magnitude(x - y) <= one
BY DEF Gauntlet!Close

\* Numbers that are close are within a third of the greater or of 1.0.
LEMMA CloseIsNear ==
  ASSUME NEW x \in Int, NEW y \in Int, NEW one \in Nat, Gauntlet!Close(x, y, one)
  PROVE  LET gap == Gauntlet!Magnitude(x - y) IN
         3 * gap <= Gauntlet!Magnitude(x) \/ 3 * gap <= Gauntlet!Magnitude(y) \/ 3 * gap <= one
<1>1. PICK gap \in Nat : gap = Gauntlet!Magnitude(x - y)
  BY Numbers
<1>2. 3 * gap <= RelParts * gap /\ 3 * gap <= AbsParts * gap /\ RelParts * gap \in Nat /\ AbsParts * gap \in Nat
  BY Numbers, ProductsGrow
<1>3. \/ RelParts * gap <= Gauntlet!Magnitude(x) \/ RelParts * gap <= Gauntlet!Magnitude(y)
      \/ AbsParts * gap <= one
  BY <1>1 DEF Gauntlet!Close
<1>4. Gauntlet!Magnitude(x) \in Nat /\ Gauntlet!Magnitude(y) \in Nat
  BY Numbers
<1> QED
  BY <1>1, <1>2, <1>3, <1>4

\* Which of two numbers is named first does not matter.
LEMMA CloseIsSymmetric ==
  ASSUME NEW x \in Int, NEW y \in Int, NEW one, Gauntlet!Close(x, y, one)
  PROVE  Gauntlet!Close(y, x, one)
<1>1. Gauntlet!Magnitude(x - y) = Gauntlet!Magnitude(y - x)
  BY DEF Gauntlet!Magnitude
<1> QED
  BY <1>1 DEF Gauntlet!Close

\* A value raised by 1.0 or more is truncated to another, except from -1.0 to 0.
LEMMA RaisedTruncates ==
  ASSUME NEW v \in Int, NEW w \in Int, w >= v + One, Gauntlet!Truncated(w) = Gauntlet!Truncated(v)
  PROVE  v \in -One + 1 .. -1
<1> SUFFICES ASSUME v >= 0 \/ v <= -One PROVE FALSE
  BY Numbers
<1>1. One \in Nat \ {0}
  BY Numbers
<1>2. CASE v >= 0
  <2>1. v \div One = w \div One
    BY <1>1, <1>2 DEF Gauntlet!Truncated
  <2>2. PICK p \in Int : p = (v \div One) * One
    BY <1>1, WholeParts
  <2>3. w < p + One /\ p <= v
    BY <1>1, <2>1, <2>2, WholeParts
  <2> QED
    BY <1>1, <2>2, <2>3
<1>3. CASE v <= -One
  <2> DEFINE t == (-v) \div One
  <2>1. t \in Int /\ t * One <= -v /\ -v < t * One + One
    BY <1>1, WholeParts
  <2>2. Gauntlet!Truncated(v) = -t
    BY <1>1, <1>3 DEF Gauntlet!Truncated
  <2> HIDE DEF t
  <2>3. PICK p \in Int : p = t * One
    BY <1>1, <2>1
  <2>4. t >= 1
    <3>1. t <= 0 => t * One <= 0
      BY <1>1, <2>1, SMTT(30)
    <3> QED
      BY <1>1, <1>3, <2>1, <2>3, <3>1
  <2>5. CASE w >= 0
    <3>1. w \div One = -t
      BY <2>2, <2>5 DEF Gauntlet!Truncated
    <3>2. w < (-t) * One + One
      BY <1>1, <3>1, WholeParts
    <3>3. (-t) * One = -p
      BY <1>1, <2>1, <2>3, SMTT(30)
    <3>4. p >= One
      BY <1>1, <2>1, <2>3, <2>4, SMTT(30)
    <3> QED
      BY <1>1, <2>3, <2>5, <3>2, <3>3, <3>4
  <2>6. CASE w < 0
    <3>1. (-w) \div One = t
      <4>1. Gauntlet!Truncated(w) = -((-w) \div One) /\ (-w) \div One \in Int
        BY <1>1, <2>6 DEF Gauntlet!Truncated
      <4> QED
        BY <2>1, <2>2, <4>1
    <3>2. p <= -w
      BY <1>1, <2>3, <3>1, WholeParts
    <3> QED
      BY <1>1, <2>1, <2>3, <3>2
  <2> QED
    BY <2>5, <2>6
<1> QED
  BY <1>2, <1>3

LEMMA SeedPicks ==
  ASSUME NEW s, Len(s) \in Nat \ {0}, NEW seed \in SeedResidues
  PROVE  Gauntlet!Picked(seed, s) \in 1 .. Len(s)
BY ProgramsAssumption DEF Gauntlet!GauntletAssumption, Gauntlet!Picked

\* What is counted and compared in the results of a receipt.
LEMMA ReceiptNumbers ==
  ASSUME NEW a, Gauntlet!MarketShaped(a), a.results # << >>
  PROVE  /\ Len(a.results) \in Nat \ {0} /\ DOMAIN a.results = 1 .. Len(a.results)
         /\ Gauntlet!Survivors(a.results) \in Nat /\ Gauntlet!Deltas(a.results) \subseteq Int
         /\ Gauntlet!Least(Gauntlet!Deltas(a.results)) \in Gauntlet!Deltas(a.results)
         /\ Gauntlet!Greatest(Gauntlet!Deltas(a.results)) \in Gauntlet!Deltas(a.results)
         /\ Gauntlet!Least(Gauntlet!Deltas(a.results)) <= Gauntlet!Greatest(Gauntlet!Deltas(a.results))
<1> DEFINE rs == a.results
           n == Len(rs)
           D == {r.delta : r \in {rs[i] : i \in DOMAIN rs}}
<1>1. n \in Nat \ {0} /\ DOMAIN rs = 1 .. n /\ \A i \in 1 .. n : rs[i].delta \in Int
  <2> DEFINE R == [id : Int, passes : BOOLEAN, profitable : BOOLEAN, delta : Int, reasons : SUBSET Gauntlet!Reasons]
  <2>1. \A r \in R : r.delta \in Int
    OBVIOUS
  <2>2. rs \in Seq(R)
    BY DEF Gauntlet!MarketShaped
  <2> HIDE DEF R
  <2>3. n \in Nat /\ DOMAIN rs = 1 .. n /\ \A i \in 1 .. n : rs[i] \in R
    BY <2>2
  <2>4. n # 0
    BY <2>2, EmptySeq
  <2> QED
    BY <2>1, <2>3, <2>4
<1>2. IsFiniteSet(1 .. n)
  BY <1>1, FS_Interval
<1>3. Gauntlet!Survivors(rs) \in Nat
  <2> DEFINE P == {i \in DOMAIN rs : rs[i].passes}
  <2>1. IsFiniteSet(P)
    BY <1>1, <1>2, FS_Subset
  <2>2. Cardinality(P) \in Nat
    BY <2>1, FS_CardinalityType
  <2> QED
    BY <2>2, GauntletSets DEF Gauntlet!Survivors
<1>4. D \subseteq Int /\ D # {} /\ IsFiniteSet(D)
  <2> DEFINE f == [i \in 1 .. n |-> rs[i].delta]
  <2>1. IsFiniteSet({f[i] : i \in 1 .. n})
    BY <1>2, FiniteImage
  <2>2. {f[i] : i \in 1 .. n} = D
    BY <1>1, Zenon
  <2>3. 1 \in 1 .. n
    BY <1>1
  <2> QED
    BY <1>1, <2>1, <2>2, <2>3, Zenon
<1>5. Gauntlet!Deltas(rs) = D
  BY DEF Gauntlet!Deltas, Gauntlet!ToSet
<1>6. Gauntlet!Least(D) \in D /\ \A y \in D : Gauntlet!Least(D) <= y
  <2> HIDE DEF D
  <2>1. \E x \in D : \A y \in D : x <= y
    BY <1>4, LeastOfFinite
  <2> QED
    BY <2>1, Zenon DEF Gauntlet!Least
<1>7. Gauntlet!Greatest(D) \in D
  <2> HIDE DEF D
  <2>1. \E x \in D : \A y \in D : x >= y
    BY <1>4, GreatestOfFinite
  <2> QED
    BY <2>1, Zenon DEF Gauntlet!Greatest
<1> HIDE DEF D
<1> QED
  BY <1>1, <1>3, <1>4, <1>5, <1>6, <1>7

LEMMA MarketClauses ==
  ASSUME NEW a, Gauntlet!MarketValid(a)
  PROVE  /\ ~a.authority /\ a.results # << >> /\ a.scenarioSet = Gauntlet!Scenarios(a.results)
         /\ a.scenarioCount = Len(a.results) /\ a.survivors = Gauntlet!Survivors(a.results)
         /\ Gauntlet!Close(a.rate[1] * Len(a.results), Gauntlet!Survivors(a.results) * a.rate[2],
                           a.rate[2] * Len(a.results))
         /\ Gauntlet!Close(a.worst, Gauntlet!Least(Gauntlet!Deltas(a.results)), One) /\ a.failures = Gauntlet!Failures(a.results)
         /\ a.class = Gauntlet!Class(Gauntlet!Survivors(a.results), Len(a.results))
         /\ a.receipt = Gauntlet!ReceiptId(a)
BY Zenon DEF Gauntlet!MarketValid

\* A mutation of a valid robustness receipt is valid within the tolerances only.
LEMMA MarketBlocks ==
  ASSUME NEW a, Gauntlet!MarketShaped(a), Gauntlet!MarketValid(a),
         NEW i \in DOMAIN Gauntlet!MarketCases, NEW seed \in SeedResidues
  PROVE  Gauntlet!MarketValid(Gauntlet!MarketMutated(a, Gauntlet!MarketCases[i], seed)) =>
           Gauntlet!MarketTolerance(a, Gauntlet!MarketCases[i])
<1> DEFINE rs == a.results
           n == Len(rs)
           S == Gauntlet!Survivors(rs)
           case == Gauntlet!MarketCases[i]
           m == Gauntlet!MarketMutated(a, case, seed)
<1> SUFFICES ASSUME Gauntlet!MarketValid(m) PROVE Gauntlet!MarketTolerance(a, case)
  OBVIOUS
<1>1. /\ ~a.authority /\ rs # << >> /\ a.scenarioSet = Gauntlet!Scenarios(rs)
      /\ a.scenarioCount = n /\ a.survivors = S
      /\ Gauntlet!Close(a.rate[1] * n, S * a.rate[2], a.rate[2] * n) /\ a.failures = Gauntlet!Failures(rs)
      /\ a.class = Gauntlet!Class(S, n) /\ a.receipt = Gauntlet!ReceiptId(a)
  BY MarketClauses, Zenon
<1>2. /\ n \in Nat \ {0} /\ DOMAIN rs = 1 .. n /\ S \in Nat
      /\ Gauntlet!Least(Gauntlet!Deltas(rs)) \in Int /\ Gauntlet!Greatest(Gauntlet!Deltas(rs)) \in Int
      /\ Gauntlet!Least(Gauntlet!Deltas(rs)) \in Gauntlet!Deltas(rs)
      /\ Gauntlet!Greatest(Gauntlet!Deltas(rs)) \in Gauntlet!Deltas(rs)
      /\ Gauntlet!Least(Gauntlet!Deltas(rs)) <= Gauntlet!Greatest(Gauntlet!Deltas(rs))
  BY <1>1, ReceiptNumbers
<1>3. DOMAIN a = {"authority", "results", "scenarioSet", "scenarioCount", "survivors", "rate", "worst",
                  "median2", "failures", "class", "receipt"}
  BY DEF Gauntlet!MarketShaped
<1>4. Gauntlet!Picked(seed, rs) \in 1 .. n
  BY <1>2, SeedPicks
<1>5. case \in {"authority_flip", "class_promotion", "failure_summary_suppression", "margin_result_flip",
               "receipt_id_tamper", "result_deletion", "scenario_set_tamper", "survival_count_inflation",
               "survival_rate_inflation", "worst_case_suppression"}
  BY DEF Gauntlet!MarketCases
<1> HIDE DEF rs, n, S, case, m
<1>6. CASE case = "authority_flip"
  <2>1. m = [a EXCEPT !.authority = TRUE]
    BY <1>6 DEF Gauntlet!MarketMutated, m
  <2>2. m.authority
    BY <1>3, <2>1
  <2> QED
    BY <2>2, MarketClauses, Zenon
<1>7. CASE case = "survival_count_inflation"
  <2>1. m = [a EXCEPT !.survivors = @ + 1]
    BY <1>7 DEF Gauntlet!MarketMutated, m
  <2>2. m.survivors = S + 1 /\ m.results = rs
    BY <1>1, <1>3, <2>1 DEF rs
  <2>3. m.survivors # Gauntlet!Survivors(m.results)
    BY <1>2, <2>2 DEF S
  <2> QED
    BY <2>3, MarketClauses, Zenon
<1>8. CASE case = "class_promotion"
  <2>1. m = [a EXCEPT !.class = IF @ = "robust" THEN "failed" ELSE "robust"]
    BY <1>8 DEF Gauntlet!MarketMutated, m
  <2>2. m.class # Gauntlet!Class(S, n) /\ m.results = rs
    BY <1>1, <1>3, <2>1 DEF rs
  <2>3. m.class # Gauntlet!Class(Gauntlet!Survivors(m.results), Len(m.results))
    BY <2>2, Zenon DEF S, n
  <2> QED
    BY <2>3, MarketClauses, Zenon
<1>9. CASE case = "worst_case_suppression"
  <2> DEFINE top == Gauntlet!Greatest(Gauntlet!Deltas(rs))
             least == Gauntlet!Least(Gauntlet!Deltas(rs))
  <2>1. m = [a EXCEPT !.worst = IF Gauntlet!Close(top, least, One) THEN top + One ELSE top]
    BY <1>9, Zenon DEF Gauntlet!MarketMutated, m, rs
  <2>2. /\ top \in Int /\ least \in Int /\ least <= top
        /\ top \in Gauntlet!Deltas(rs) /\ least \in Gauntlet!Deltas(rs)
    BY <1>2
  <2> HIDE DEF top, least
  <2>3. /\ m.results = rs
        /\ m.worst = IF Gauntlet!Close(top, least, One) THEN top + One ELSE top
    BY <1>3, <2>1 DEF rs
  <2>4. Gauntlet!Close(m.worst, least, One)
    BY <2>3, MarketClauses, Zenon DEF least
  <2>5. Gauntlet!Close(top + One, least, One)
    BY <2>3, <2>4
  <2>6. /\ One \in Nat \ {0} /\ RelParts \in Nat \ 0 .. 2 /\ AbsParts \in Nat \ 0 .. 2
        /\ \A x \in Int : Gauntlet!Magnitude(x) \in Nat
    BY Numbers
  <2>7. PICK gap \in Nat : gap = Gauntlet!Magnitude((top + One) - least) /\ One <= gap
    BY <2>2, <2>6 DEF Gauntlet!Magnitude
  <2>8. PICK edge \in Nat : edge = RelParts * One /\ (RelParts - 1) * One = edge - One
    BY <2>6, SMTT(30)
  <2>9. edge <= RelParts * gap /\ RelParts * gap \in Nat /\ ~(AbsParts * gap <= One)
    BY <2>6, <2>7, <2>8, ProductsGrow
  <2>10. RelParts * gap <= Gauntlet!Magnitude(top + One) \/ RelParts * gap <= Gauntlet!Magnitude(least)
    <3>1. \/ RelParts * Gauntlet!Magnitude((top + One) - least) <= Gauntlet!Magnitude(top + One)
          \/ RelParts * Gauntlet!Magnitude((top + One) - least) <= Gauntlet!Magnitude(least)
          \/ AbsParts * Gauntlet!Magnitude((top + One) - least) <= One
      <4> DEFINE x == top + One
      <4>1. x \in Int /\ Gauntlet!Close(x, least, One)
        BY <2>2, <2>5, <2>6
      <4> HIDE DEF x
      <4>2. \/ RelParts * Gauntlet!Magnitude(x - least) <= Gauntlet!Magnitude(x)
            \/ RelParts * Gauntlet!Magnitude(x - least) <= Gauntlet!Magnitude(least)
            \/ AbsParts * Gauntlet!Magnitude(x - least) <= One
        BY <2>2, <2>6, <4>1, CloseMeans, Zenon
      <4> QED
        BY <4>2, Zenon DEF x
    <3>2. Gauntlet!Magnitude((top + One) - least) = gap
      BY <2>7
    <3>3. \/ RelParts * gap <= Gauntlet!Magnitude(top + One) \/ RelParts * gap <= Gauntlet!Magnitude(least)
          \/ AbsParts * gap <= One
      BY <3>1, <3>2, Zenon
    <3> QED
      BY <2>9, <3>3, Zenon
  <2>11. Gauntlet!Magnitude(top + One) <= Gauntlet!Magnitude(top) + One
    BY <2>2, <2>6 DEF Gauntlet!Magnitude
  <2>12. edge - One <= Gauntlet!Magnitude(top) \/ edge - One <= Gauntlet!Magnitude(least)
    <3>1. /\ Gauntlet!Magnitude(top) \in Nat /\ Gauntlet!Magnitude(least) \in Nat
          /\ Gauntlet!Magnitude(top + One) \in Nat
      BY <2>2, <2>6
    <3> QED
      BY <2>6, <2>9, <2>10, <2>11, <3>1
  <2> QED
    BY <1>9, <2>2, <2>8, <2>12 DEF Gauntlet!MarketTolerance, rs
<1>10. CASE case = "failure_summary_suppression"
  <2>1. m = [a EXCEPT !.failures = IF @ = << >> THEN [x \in {"not_profitable"} |-> 1] ELSE << >>]
    BY <1>10 DEF Gauntlet!MarketMutated, m
  <2>2. [x \in {"not_profitable"} |-> 1] # << >>
    <3>1. DOMAIN [x \in {"not_profitable"} |-> 1] = {"not_profitable"} /\ DOMAIN << >> = {}
      OBVIOUS
    <3> QED
      BY <3>1
  <2>3. m.failures # Gauntlet!Failures(rs) /\ m.results = rs
    BY <1>1, <1>3, <2>1, <2>2 DEF rs
  <2> QED
    BY <2>3, MarketClauses, Zenon
<1>11. CASE case = "scenario_set_tamper"
  <2>1. m = [a EXCEPT !.scenarioSet = << >>]
    BY <1>11 DEF Gauntlet!MarketMutated, m
  <2>2. m.scenarioSet = << >> /\ m.results = rs
    BY <1>3, <2>1 DEF rs
  <2>3. Gauntlet!Scenarios(rs) # << >>
    <3>1. DOMAIN Gauntlet!Scenarios(rs) = 1 .. n /\ 1 \in 1 .. n
      BY <1>2 DEF Gauntlet!Scenarios
    <3>2. DOMAIN << >> = {}
      OBVIOUS
    <3> QED
      BY <3>1, <3>2, Zenon
  <2> QED
    BY <2>2, <2>3, MarketClauses, Zenon
<1>12. CASE case = "receipt_id_tamper"
  <2>1. m = [a EXCEPT !.receipt = [set |-> << >>, results |-> << >>]]
    BY <1>12 DEF Gauntlet!MarketMutated, m
  <2>2. m.receipt.results = << >> /\ m.results = rs
    BY <1>3, <2>1 DEF rs
  <2>3. m.receipt # Gauntlet!ReceiptId(m)
    BY <1>1, <2>2 DEF Gauntlet!ReceiptId
  <2> QED
    BY <2>3, MarketClauses, Zenon
<1>13. CASE case = "survival_rate_inflation"
  <2>1. m = [a EXCEPT !.rate = IF @[1] = @[2] THEN <<0, 1>> ELSE <<1, 1>>]
    BY <1>13 DEF Gauntlet!MarketMutated, m
  <2>2. m.results = rs /\ m.rate = IF a.rate[1] = a.rate[2] THEN <<0, 1>> ELSE <<1, 1>>
    BY <1>3, <2>1 DEF rs
  <2> DEFINE x == a.rate[1]
             y == a.rate[2]
  <2>3. x \in Int /\ y \in Nat \ {0} /\ Gauntlet!Close(x * n, S * y, y * n)
    BY <1>1 DEF Gauntlet!MarketShaped
  <2>4. Gauntlet!Close(m.rate[1] * n, S * m.rate[2], m.rate[2] * n)
    BY <2>2, MarketClauses, Zenon DEF S, n
  <2>5. CASE x # y
    <3>1. m.rate[1] = 1 /\ m.rate[2] = 1
      BY <2>2, <2>5
    <3>2. 1 * n = n /\ S * 1 = S
      BY <1>2
    <3>3. Gauntlet!Close(n, S, n)
      BY <2>4, <3>1, <3>2
    <3>4. Gauntlet!Close(S, n, n)
      BY <1>2, <3>3, CloseIsSymmetric
    <3>5. a.class = "robust"
      BY <1>1, <3>4 DEF Gauntlet!Class
    <3> QED
      BY <1>13, <2>5, <3>5 DEF Gauntlet!MarketTolerance
  <2>6. CASE x = y
    <3>1. m.rate[1] = 0 /\ m.rate[2] = 1
      BY <2>2, <2>6
    <3> HIDE DEF x, y
    <3>2. 0 * n = 0 /\ S * 1 = S /\ 1 * n = n
      BY <1>2
    <3>3. Gauntlet!Close(0, S, n)
      BY <2>4, <3>1, <3>2
    <3>4. 3 * S <= n
      BY <1>2, <3>3, CloseIsNear DEF Gauntlet!Magnitude
    <3>5. PICK all \in Nat : all = y * n /\ all = x * n /\ all > 0
      BY <1>2, <2>3, <2>6, SMTT(30)
    <3>6. PICK some \in Nat : some = S * y /\ 3 * some <= all
      BY <1>2, <2>3, <3>4, <3>5, SMTT(30)
    <3>7. Gauntlet!Close(all, some, all)
      BY <2>3, <3>5, <3>6
    <3>8. \/ 3 * Gauntlet!Magnitude(all - some) <= Gauntlet!Magnitude(all)
          \/ 3 * Gauntlet!Magnitude(all - some) <= Gauntlet!Magnitude(some)
          \/ 3 * Gauntlet!Magnitude(all - some) <= all
      BY <3>7, CloseIsNear
    <3> QED
      BY <3>5, <3>6, <3>8 DEF Gauntlet!Magnitude
  <2> QED
    BY <2>5, <2>6
<1>14. CASE case = "result_deletion"
  <2> DEFINE k == Gauntlet!Picked(seed, rs)
  <2>1. m = [a EXCEPT !.results = Gauntlet!RemoveAt(@, Gauntlet!Picked(seed, @))]
    BY <1>14 DEF Gauntlet!MarketMutated, m
  <2>2. m.results = Gauntlet!RemoveAt(rs, k) /\ m.scenarioCount = n
    BY <1>1, <1>3, <2>1 DEF rs
  <2>3. Len(Gauntlet!RemoveAt(rs, k)) = n - 1
    <3> DEFINE R == [id : Int, passes : BOOLEAN, profitable : BOOLEAN, delta : Int, reasons : SUBSET Gauntlet!Reasons]
    <3>1. rs \in Seq(R) /\ n = Len(rs) /\ k \in 1 .. n
      BY <1>4 DEF Gauntlet!MarketShaped, rs, n
    <3> HIDE DEF R, k
    <3>2. /\ SubSeq(rs, 1, k - 1) \in Seq(R) /\ Len(SubSeq(rs, 1, k - 1)) = k - 1
          /\ SubSeq(rs, k + 1, n) \in Seq(R) /\ Len(SubSeq(rs, k + 1, n)) = n - k
      <4>1. 1 \in 1 .. n + 1 /\ k - 1 \in 0 .. n /\ k + 1 \in 1 .. n + 1 /\ n \in 0 .. n
        BY <1>2, <3>1
      <4>2. /\ SubSeq(rs, 1, k - 1) \in Seq(R)
            /\ Len(SubSeq(rs, 1, k - 1)) = IF 1 <= k - 1 THEN (k - 1) - 1 + 1 ELSE 0
        BY <3>1, <4>1, SubSeqProperties
      <4>3. /\ SubSeq(rs, k + 1, n) \in Seq(R)
            /\ Len(SubSeq(rs, k + 1, n)) = IF k + 1 <= n THEN n - (k + 1) + 1 ELSE 0
        BY <3>1, <4>1, SubSeqProperties
      <4>4. /\ (IF 1 <= k - 1 THEN (k - 1) - 1 + 1 ELSE 0) = k - 1
            /\ (IF k + 1 <= n THEN n - (k + 1) + 1 ELSE 0) = n - k
        <5>1. n \in Nat /\ k \in Int /\ 1 <= k /\ k <= n
          BY <1>2, <3>1
        <5> QED
          BY <5>1
      <4> QED
        BY <4>2, <4>3, <4>4
    <3>3. Len(SubSeq(rs, 1, k - 1) \o SubSeq(rs, k + 1, n)) = (k - 1) + (n - k)
      BY <3>2, ConcatProperties
    <3>4. Gauntlet!RemoveAt(rs, k) = SubSeq(rs, 1, k - 1) \o SubSeq(rs, k + 1, n)
      BY <3>1, Zenon DEF Gauntlet!RemoveAt
    <3> QED
      <4>1. (k - 1) + (n - k) = n - 1
        BY <1>2, <3>1
      <4> QED
        BY <3>3, <3>4, <4>1
  <2>4. m.scenarioCount # Len(m.results)
    BY <1>2, <2>2, <2>3
  <2> QED
    BY <2>4, MarketClauses, Zenon
<1>15. CASE case = "margin_result_flip"
  <2> DEFINE k == Gauntlet!Picked(seed, rs)
  <2>1. m = [a EXCEPT !.results[Gauntlet!Picked(seed, a.results)].passes = ~@]
    BY <1>15 DEF Gauntlet!MarketMutated, m
  <2>2. m.receipt = a.receipt /\ m.results = [rs EXCEPT ![k].passes = ~@]
    BY <1>3, <2>1 DEF rs
  <2>3. m.results # rs
    <3> DEFINE R == [id : Int, passes : BOOLEAN, profitable : BOOLEAN, delta : Int, reasons : SUBSET Gauntlet!Reasons]
    <3>1. rs \in Seq(R)
      BY DEF Gauntlet!MarketShaped, rs
    <3>2. \A r \in R : r.passes \in BOOLEAN /\ DOMAIN r = {"id", "passes", "profitable", "delta", "reasons"}
      OBVIOUS
    <3> HIDE DEF R
    <3>3. k \in DOMAIN rs /\ rs[k] \in R
      <4>1. k \in DOMAIN rs
        BY <1>2, <1>4
      <4> HIDE DEF k
      <4> QED
        BY <3>1, <4>1
    <3>4. m.results[k].passes = ~rs[k].passes
      BY <2>2, <3>2, <3>3
    <3>5. rs[k].passes \in BOOLEAN
      BY <3>2, <3>3
    <3> QED
      BY <3>4, <3>5, Zenon
  <2>4. m.receipt # Gauntlet!ReceiptId(m)
    <3>1. m.receipt.results = rs
      BY <1>1, <2>2 DEF Gauntlet!ReceiptId, rs
    <3>2. Gauntlet!ReceiptId(m).results = m.results
      BY DEF Gauntlet!ReceiptId
    <3> QED
      BY <2>3, <3>1, <3>2
  <2> QED
    BY <2>4, MarketClauses, Zenon
<1> QED
  BY <1>5, <1>6, <1>7, <1>8, <1>9, <1>10, <1>11, <1>12, <1>13, <1>14, <1>15 DEF case

LEMMA BundleClauses ==
  ASSUME NEW b, Gauntlet!BundleValid(b)
  PROVE  /\ \A f \in Gauntlet!Frictions : b.economics[f] = Gauntlet!Measured
         /\ Len(b.sources) = 2 /\ b.sources[1].group # b.sources[2].group
         /\ Gauntlet!Truncated(b.sources[1].value) = Gauntlet!Truncated(b.sources[2].value)
         /\ \A i \in DOMAIN b.sources : b.sources[i].fresh
         /\ b.posture = Gauntlet!Posture
BY Zenon DEF Gauntlet!BundleValid, Gauntlet!SourcesValid, Gauntlet!ToSet

\* The seed of a bundle's case is never its undoing.
LEMMA PostureBlocks ==
  ASSUME NEW b, "posture" \in DOMAIN b, b.posture = Gauntlet!Posture, NEW p, p # Gauntlet!Posture
  PROVE  ~Gauntlet!BundleValid([b EXCEPT !.posture = p])
BY BundleClauses

LEMMA FrictionBlocks ==
  ASSUME NEW b, "economics" \in DOMAIN b, DOMAIN b.economics = Gauntlet!Frictions,
         NEW f \in Gauntlet!Frictions, NEW x, x # Gauntlet!Measured
  PROVE  ~Gauntlet!BundleValid([b EXCEPT !.economics[f] = x])
<1>1. [b EXCEPT !.economics[f] = x].economics[f] = x
  OBVIOUS
<1> QED
  BY <1>1, BundleClauses

\* A mutation of a valid evidence bundle is valid within the tolerances only.
LEMMA BundleBlocks ==
  ASSUME NEW b, Gauntlet!BundleShaped(b), Gauntlet!BundleValid(b),
         NEW i \in DOMAIN Gauntlet!BundleCases, NEW seed \in SeedResidues
  PROVE  Gauntlet!BundleValid(Gauntlet!BundleMutated(b, Gauntlet!BundleCases[i], seed)) =>
           Gauntlet!BundleTolerance(b, Gauntlet!BundleCases[i])
<1> DEFINE case == Gauntlet!BundleCases[i]
           m == Gauntlet!BundleMutated(b, case, seed)
<1> SUFFICES ASSUME ~Gauntlet!BundleTolerance(b, case) PROVE ~Gauntlet!BundleValid(m)
  OBVIOUS
<1>1. /\ \A f \in Gauntlet!Frictions : b.economics[f] = Gauntlet!Measured
      /\ b.sources[1].group # b.sources[2].group
      /\ Gauntlet!Truncated(b.sources[1].value) = Gauntlet!Truncated(b.sources[2].value)
      /\ b.posture = Gauntlet!Posture
  BY BundleClauses
<1>2. /\ DOMAIN b = {"authority", "humanPromotion", "economics", "sources", "posture"}
      /\ DOMAIN b.economics = Gauntlet!Frictions
      /\ DOMAIN b.sources = 1 .. 2 /\ b.sources[1].value \in Int /\ b.sources[2].value \in Int
      /\ \A k \in 1 .. 2 : {"group", "value", "fresh"} \subseteq DOMAIN b.sources[k]
  <2> DEFINE R == [id : STRING, operator : STRING, group : STRING, value : Int, lost : SUBSET (1 .. 3),
                   units : STRING, fresh : BOOLEAN, review : STRING]
  <2>1. \A r \in R : r.value \in Int /\ {"group", "value", "fresh"} \subseteq DOMAIN r
    OBVIOUS
  <2>2. b.sources \in Seq(R) /\ Len(b.sources) = 2
    BY BundleClauses DEF Gauntlet!BundleShaped
  <2> HIDE DEF R
  <2>3. DOMAIN b.sources = 1 .. 2 /\ b.sources[1] \in R /\ b.sources[2] \in R
    BY <2>2
  <2> QED
    BY <2>1, <2>3 DEF Gauntlet!BundleShaped
<1>3. seed \in Nat
  BY ProgramsAssumption DEF Gauntlet!GauntletAssumption
<1>4. case \in {"changed_qubo",
               "charity_to_authority",
               "charity_without_evidence",
               "cherry_pick_seed",
               "disguised_concentration",
               "erase_latency",
               "false_consensus",
               "gas_hypothesis_as_fact",
               "inflate_liquidity",
               "omit_gas",
               "omit_protocol_fees",
               "promote_stale_telemetry",
               "receipt_to_permission",
               "suppress_failed_runs",
               "suppress_slippage",
               "testnet_profitability_language",
               "weaken_rollback",
               "weaker_classical_baseline"}
  BY DEF Gauntlet!BundleCases
<1> HIDE DEF case, m
<1>5. CASE case = "omit_gas"
  <2>1. m = [b EXCEPT !.economics["gas"] = [@ EXCEPT !.included = FALSE]]
    BY <1>5 DEF Gauntlet!BundleMutated, m
  <2>2. [Gauntlet!Measured EXCEPT !.included = FALSE] # Gauntlet!Measured
    BY DEF Gauntlet!Measured
  <2>3. "gas" \in Gauntlet!Frictions
    BY DEF Gauntlet!Frictions
  <2> QED
    BY <1>1, <1>2, <2>1, <2>2, <2>3, FrictionBlocks
<1>6. CASE case = "omit_protocol_fees"
  <2>1. m = [b EXCEPT !.economics["protocol_fees"] = [@ EXCEPT !.included = FALSE]]
    BY <1>6 DEF Gauntlet!BundleMutated, m
  <2>2. [Gauntlet!Measured EXCEPT !.included = FALSE] # Gauntlet!Measured
    BY DEF Gauntlet!Measured
  <2>3. "protocol_fees" \in Gauntlet!Frictions
    BY DEF Gauntlet!Frictions
  <2> QED
    BY <1>1, <1>2, <2>1, <2>2, <2>3, FrictionBlocks
<1>7. CASE case = "suppress_slippage"
  <2>1. m = [b EXCEPT !.economics["slippage"] = [@ EXCEPT !.value = "zero"]]
    BY <1>7 DEF Gauntlet!BundleMutated, m
  <2>2. [Gauntlet!Measured EXCEPT !.value = "zero"] # Gauntlet!Measured
    BY DEF Gauntlet!Measured
  <2>3. "slippage" \in Gauntlet!Frictions
    BY DEF Gauntlet!Frictions
  <2> QED
    BY <1>1, <1>2, <2>1, <2>2, <2>3, FrictionBlocks
<1>8. CASE case = "inflate_liquidity"
  <2>1. m = [b EXCEPT !.economics["liquidity"] = [@ EXCEPT !.value = "inflated"]]
    BY <1>8 DEF Gauntlet!BundleMutated, m
  <2>2. [Gauntlet!Measured EXCEPT !.value = "inflated"] # Gauntlet!Measured
    BY DEF Gauntlet!Measured
  <2>3. "liquidity" \in Gauntlet!Frictions
    BY DEF Gauntlet!Frictions
  <2> QED
    BY <1>1, <1>2, <2>1, <2>2, <2>3, FrictionBlocks
<1>9. CASE case = "erase_latency"
  <2>1. m = [b EXCEPT !.economics["latency"] = [@ EXCEPT !.included = FALSE]]
    BY <1>9 DEF Gauntlet!BundleMutated, m
  <2>2. [Gauntlet!Measured EXCEPT !.included = FALSE] # Gauntlet!Measured
    BY DEF Gauntlet!Measured
  <2>3. "latency" \in Gauntlet!Frictions
    BY DEF Gauntlet!Frictions
  <2> QED
    BY <1>1, <1>2, <2>1, <2>2, <2>3, FrictionBlocks
<1>10. CASE case = "weaker_classical_baseline"
  <2>1. m = [b EXCEPT !.posture = [@ EXCEPT !.solver = "HEURISTIC"]]
    BY <1>10 DEF Gauntlet!BundleMutated, m
  <2>2. [Gauntlet!Posture EXCEPT !.solver = "HEURISTIC"] # Gauntlet!Posture
    BY DEF Gauntlet!Posture
  <2> QED
    BY <1>1, <1>2, <2>1, <2>2, PostureBlocks
<1>11. CASE case = "changed_qubo"
  <2>1. m = [b EXCEPT !.posture = [@ EXCEPT !.qaoaQubo = "changed"]]
    BY <1>11 DEF Gauntlet!BundleMutated, m
  <2>2. [Gauntlet!Posture EXCEPT !.qaoaQubo = "changed"] # Gauntlet!Posture
    BY DEF Gauntlet!Posture
  <2> QED
    BY <1>1, <1>2, <2>1, <2>2, PostureBlocks
<1>12. CASE case = "cherry_pick_seed"
  <2>1. m = [b EXCEPT !.posture = [@ EXCEPT !.seeds = "first"]]
    BY <1>12 DEF Gauntlet!BundleMutated, m
  <2>2. [Gauntlet!Posture EXCEPT !.seeds = "first"] # Gauntlet!Posture
    BY DEF Gauntlet!Posture
  <2> QED
    BY <1>1, <1>2, <2>1, <2>2, PostureBlocks
<1>13. CASE case = "suppress_failed_runs"
  <2>1. m = [b EXCEPT !.posture = [@ EXCEPT !.disclosed = FALSE]]
    BY <1>13 DEF Gauntlet!BundleMutated, m
  <2>2. [Gauntlet!Posture EXCEPT !.disclosed = FALSE] # Gauntlet!Posture
    BY DEF Gauntlet!Posture
  <2> QED
    BY <1>1, <1>2, <2>1, <2>2, PostureBlocks
<1>14. CASE case = "testnet_profitability_language"
  <2>1. m = [b EXCEPT !.posture = [@ EXCEPT !.profitability = "PRODUCTION_PROFITABLE"]]
    BY <1>14 DEF Gauntlet!BundleMutated, m
  <2>2. [Gauntlet!Posture EXCEPT !.profitability = "PRODUCTION_PROFITABLE"] # Gauntlet!Posture
    BY DEF Gauntlet!Posture
  <2> QED
    BY <1>1, <1>2, <2>1, <2>2, PostureBlocks
<1>15. CASE case = "receipt_to_permission"
  <2>1. m = [b EXCEPT !.posture = [@ EXCEPT !.permission = TRUE]]
    BY <1>15 DEF Gauntlet!BundleMutated, m
  <2>2. [Gauntlet!Posture EXCEPT !.permission = TRUE] # Gauntlet!Posture
    BY DEF Gauntlet!Posture
  <2> QED
    BY <1>1, <1>2, <2>1, <2>2, PostureBlocks
<1>16. CASE case = "gas_hypothesis_as_fact"
  <2>1. m = [b EXCEPT !.posture = [@ EXCEPT !.targetGas = "MEASURED"]]
    BY <1>16 DEF Gauntlet!BundleMutated, m
  <2>2. [Gauntlet!Posture EXCEPT !.targetGas = "MEASURED"] # Gauntlet!Posture
    BY DEF Gauntlet!Posture
  <2> QED
    BY <1>1, <1>2, <2>1, <2>2, PostureBlocks
<1>17. CASE case = "charity_without_evidence"
  <2>1. m = [b EXCEPT !.posture = [@ EXCEPT !.impact = "PROVEN_CAUSAL_IMPACT"]]
    BY <1>17 DEF Gauntlet!BundleMutated, m
  <2>2. [Gauntlet!Posture EXCEPT !.impact = "PROVEN_CAUSAL_IMPACT"] # Gauntlet!Posture
    BY DEF Gauntlet!Posture
  <2> QED
    BY <1>1, <1>2, <2>1, <2>2, PostureBlocks
<1>18. CASE case = "charity_to_authority"
  <2>1. m = [b EXCEPT !.posture = [@ EXCEPT !.charityAuthority = TRUE, !.automaticReward = TRUE]]
    BY <1>18 DEF Gauntlet!BundleMutated, m
  <2>2. [Gauntlet!Posture EXCEPT !.charityAuthority = TRUE, !.automaticReward = TRUE] # Gauntlet!Posture
    BY DEF Gauntlet!Posture
  <2> QED
    BY <1>1, <1>2, <2>1, <2>2, PostureBlocks
<1>19. CASE case = "weaken_rollback"
  <2>1. m = [b EXCEPT !.posture = [@ EXCEPT !.rollback = (seed % 2 = 1), !.killSwitch = FALSE]]
    BY <1>19 DEF Gauntlet!BundleMutated, m
  <2>2. [Gauntlet!Posture EXCEPT !.rollback = (seed % 2 = 1), !.killSwitch = FALSE] # Gauntlet!Posture
    BY DEF Gauntlet!Posture
  <2> QED
    BY <1>1, <1>2, <2>1, <2>2, PostureBlocks
<1>20. CASE case = "promote_stale_telemetry"
  <2> DEFINE k == (seed % 2) + 1
  <2>1. m = [b EXCEPT !.sources[(seed % 2) + 1].fresh = FALSE]
    BY <1>20 DEF Gauntlet!BundleMutated, m
  <2>2. k \in 1 .. 2
    BY <1>3
  <2> HIDE DEF k
  <2>3. k \in DOMAIN m.sources /\ m.sources[k].fresh = FALSE
    BY <1>2, <2>1, <2>2 DEF k
  <2> QED
    BY <2>3, BundleClauses
<1>21. CASE case = "false_consensus"
  <2> DEFINE n == 1 + (seed % 3)
             v == b.sources[2].value
             w == Gauntlet!Raised(b.sources[2], n)
  <2>1. m = [b EXCEPT !.sources[2].value = w]
    BY <1>21 DEF Gauntlet!BundleMutated, m
  <2>2. m.sources[1].value = b.sources[1].value /\ m.sources[2].value = w
    <3> HIDE DEF w
    <3> QED
      BY <1>2, <2>1
  <2>3. n \in 1 .. 3
    BY <1>3
  <2> HIDE DEF n
  <2>4. b.sources[2].lost = {} /\ ~(v \in -One + 1 .. -1)
    BY <1>21 DEF Gauntlet!BundleTolerance
  <2>5. w = v + n * One
    BY <2>4 DEF Gauntlet!Raised
  <2>6. v \in Int /\ w \in Int /\ w >= v + One
    <3>1. One \in Nat \ {0} /\ v \in Int
      BY <1>2, Numbers
    <3>2. n * One \in Nat /\ n * One >= One
      BY <2>3, <3>1, SMTT(30)
    <3> HIDE DEF v, w
    <3> QED
      BY <2>5, <3>1, <3>2
  <2>7. Gauntlet!Truncated(w) # Gauntlet!Truncated(v)
    <3> HIDE DEF v, w
    <3> QED
      BY <2>4, <2>6, RaisedTruncates
  <2>8. Gauntlet!Truncated(m.sources[1].value) # Gauntlet!Truncated(m.sources[2].value)
    <3> HIDE DEF w
    <3> QED
      BY <1>1, <2>2, <2>7, Zenon
  <2> QED
    BY <2>8, BundleClauses, Zenon
<1>22. CASE case = "disguised_concentration"
  <2>1. m = [b EXCEPT !.sources[2].group = b.sources[1].group]
    BY <1>22 DEF Gauntlet!BundleMutated, m
  <2>2. m.sources[1].group = m.sources[2].group
    BY <1>2, <2>1
  <2> QED
    BY <2>2, BundleClauses
<1> QED
  BY <1>4, <1>5, <1>6, <1>7, <1>8, <1>9, <1>10, <1>11, <1>12, <1>13, <1>14, <1>15, <1>16, <1>17, <1>18, <1>19, <1>20, <1>21, <1>22

\* The cases run in their order, on the artifact itself, and each was blocked or
\* lies within the tolerances.
GauntletInv ==
    /\ target \in Targets /\ baseline = target.artifact
    /\ gauntlet \in {"start", "running", "invalid", "pass", "fail"}
    /\ gauntlet = "running" => Gauntlet!Valid(baseline)
    /\ gauntlet \in {"pass", "fail"} => Len(done) = Len(Gauntlet!GauntletCases)
    /\ gauntlet = "pass" => \A i \in DOMAIN done : done[i].status = "blocked"
    /\ done \in Seq([case : Gauntlet!ToSet(Gauntlet!GauntletCases), status : {"blocked", "escaped"}])
    /\ \A i \in DOMAIN done : i \in DOMAIN Gauntlet!GauntletCases /\ done[i].case = Gauntlet!GauntletCases[i]
    /\ \A i \in DOMAIN done : done[i].status = "escaped" => Gauntlet!AtTolerance(done[i].case)

LEMMA GauntletInit == Init => GauntletInv
<1> SUFFICES ASSUME Gauntlet!Init PROVE GauntletInv
  BY DEF Init
<1> QED
  BY EmptySeq DEF Gauntlet!Init, GauntletInv

\* A case of either kind is blocked or lies within the tolerances.
LEMMA CaseBlocks ==
  ASSUME GauntletInv, Gauntlet!Valid(baseline), NEW i \in DOMAIN Gauntlet!GauntletCases, NEW seed \in SeedResidues
  PROVE  Gauntlet!Valid(Gauntlet!Mutated(baseline, Gauntlet!GauntletCases[i], seed)) =>
           Gauntlet!AtTolerance(Gauntlet!GauntletCases[i])
<1>1. IF target.kind = "market" THEN Gauntlet!MarketShaped(baseline) ELSE Gauntlet!BundleShaped(baseline)
  BY ProgramsAssumption DEF GauntletInv, Gauntlet!GauntletAssumption
<1>2. CASE target.kind = "market"
  BY <1>1, <1>2, MarketBlocks
  DEF GauntletInv, Gauntlet!Valid, Gauntlet!Mutated, Gauntlet!GauntletCases, Gauntlet!AtTolerance
<1>3. CASE target.kind # "market"
  BY <1>1, <1>3, BundleBlocks
  DEF GauntletInv, Gauntlet!Valid, Gauntlet!Mutated, Gauntlet!GauntletCases, Gauntlet!AtTolerance
<1> QED
  BY <1>2, <1>3

LEMMA GauntletCaseSeq ==
  /\ Len(Gauntlet!GauntletCases) \in Nat
  /\ DOMAIN Gauntlet!GauntletCases = 1 .. Len(Gauntlet!GauntletCases)
  /\ Gauntlet!GauntletCases = [i \in 1 .. Len(Gauntlet!GauntletCases) |-> Gauntlet!GauntletCases[i]]
<1>1. CASE target.kind = "market"
  BY <1>1 DEF Gauntlet!GauntletCases, Gauntlet!MarketCases
<1>2. CASE target.kind # "market"
  BY <1>2 DEF Gauntlet!GauntletCases, Gauntlet!BundleCases
<1> QED
  BY <1>1, <1>2

LEMMA GauntletKept == GauntletInv /\ [Next]_vars => GauntletInv'
<1> SUFFICES ASSUME GauntletInv, [Next]_vars PROVE GauntletInv'
  OBVIOUS
<1> DEFINE Outcomes == [case : Gauntlet!ToSet(Gauntlet!GauntletCases), status : {"blocked", "escaped"}]
<1>1. ASSUME target' = target
      PROVE  UNCHANGED <<Gauntlet!GauntletCases, Outcomes>> /\ \A c : Gauntlet!AtTolerance(c)' = Gauntlet!AtTolerance(c)
  BY <1>1 DEF Gauntlet!GauntletCases, Gauntlet!AtTolerance
<1>2. CASE UNCHANGED gauntletVars
  BY <1>1, <1>2 DEF gauntletVars, GauntletInv, Gauntlet!Valid
<1>3. CASE Gauntlet!ValidateBaseline
  BY <1>1, <1>3 DEF Gauntlet!ValidateBaseline, GauntletInv, Gauntlet!Valid
<1>4. ASSUME NEW s \in SeedResidues, Gauntlet!RunCase(s) PROVE GauntletInv'
  <2> DEFINE n == Len(done)
             case == Gauntlet!GauntletCases[n + 1]
             o == [case |-> case,
                   status |-> IF Gauntlet!Valid(Gauntlet!Mutated(baseline, case, s)) THEN "escaped" ELSE "blocked"]
  <2>1. /\ gauntlet = "running" /\ UNCHANGED <<target, baseline, gauntlet>>
        /\ n < Len(Gauntlet!GauntletCases)
    BY <1>4 DEF Gauntlet!RunCase
  <2>2. n \in Nat /\ DOMAIN done = 1 .. n /\ n + 1 \in DOMAIN Gauntlet!GauntletCases
    <3> HIDE DEF Outcomes
    <3>1. done \in Seq(Outcomes)
      BY DEF GauntletInv, Outcomes
    <3> QED
      BY <2>1, <3>1, GauntletCaseSeq
  <2>3. done' = Append(done, o)
    BY <1>4, <2>1, Zenon DEF Gauntlet!RunCase, Gauntlet!NextCase
  <2>4. o \in Outcomes /\ (o.status = "escaped" => Gauntlet!AtTolerance(o.case))
    <3>1. case \in Gauntlet!ToSet(Gauntlet!GauntletCases)
      BY <2>2 DEF Gauntlet!ToSet
    <3>2. Gauntlet!Valid(Gauntlet!Mutated(baseline, case, s)) => Gauntlet!AtTolerance(case)
      BY <2>1, <2>2, CaseBlocks DEF GauntletInv
    <3> HIDE DEF case
    <3> QED
      BY <3>1, <3>2
  <2>5. done \in Seq(Outcomes)
    BY DEF GauntletInv
  <2>6. /\ done' \in Seq(Outcomes) /\ DOMAIN done' = 1 .. n + 1 /\ done'[n + 1] = o
        /\ \A i \in 1 .. n : done'[i] = done[i]
    <3> HIDE DEF Outcomes, o
    <3> QED
      BY <2>2, <2>3, <2>4, <2>5, AppendProperties
  <2>7. \A i \in DOMAIN done' : i \in DOMAIN Gauntlet!GauntletCases /\ done'[i].case = Gauntlet!GauntletCases[i]
    <3> SUFFICES ASSUME NEW i \in 1 .. n + 1
                 PROVE  i \in DOMAIN Gauntlet!GauntletCases /\ done'[i].case = Gauntlet!GauntletCases[i]
      BY <2>6
    <3>1. CASE i = n + 1
      BY <2>2, <2>6, <3>1
    <3>2. CASE i \in 1 .. n
      BY <2>2, <2>6, <3>2 DEF GauntletInv
    <3> QED
      BY <2>2, <3>1, <3>2
  <2>9. (\A i \in DOMAIN done : done[i].status = "escaped" => Gauntlet!AtTolerance(done[i].case))'
    <3> SUFFICES ASSUME NEW i \in 1 .. n + 1, done'[i].status = "escaped"
                 PROVE  Gauntlet!AtTolerance(done[i].case)'
      BY <2>6
    <3>a. Gauntlet!AtTolerance(done[i].case)' =
            IF target.kind = "market" THEN Gauntlet!MarketTolerance(target.artifact, done'[i].case)
            ELSE Gauntlet!BundleTolerance(target.artifact, done'[i].case)
      BY <2>1 DEF Gauntlet!AtTolerance
    <3> HIDE DEF o
    <3>1. CASE i = n + 1
      BY <2>4, <2>6, <3>a, <3>1 DEF Gauntlet!AtTolerance
    <3>2. CASE i \in 1 .. n
      BY <2>2, <2>6, <3>a, <3>2 DEF GauntletInv, Gauntlet!AtTolerance
    <3> QED
      BY <2>2, <3>1, <3>2
  <2> HIDE DEF Outcomes
  <2>8. done' \in Seq(Outcomes')
    BY <1>1, <2>1, <2>6
  <2> QED
    BY <1>1, <2>1, <2>7, <2>8, <2>9 DEF GauntletInv, Gauntlet!Valid, Outcomes
<1>5. CASE Gauntlet!Conclude
  <2>1. UNCHANGED <<target, baseline, done>> /\ Len(done) = Len(Gauntlet!GauntletCases)
    BY <1>5 DEF Gauntlet!Conclude
  <2>2. gauntlet' = IF Gauntlet!Count("escaped") = 0 THEN "pass" ELSE "fail"
    BY <1>5 DEF Gauntlet!Conclude, GauntletInv
  <2>3. ASSUME Gauntlet!Count("escaped") = 0 PROVE \A i \in DOMAIN done : done[i].status = "blocked"
    <3> DEFINE K == {i \in DOMAIN done : done[i].status = "escaped"}
    <3>1. \A i \in DOMAIN done : done[i] \in Outcomes
      <4> HIDE DEF Outcomes
      <4>1. done \in Seq(Outcomes)
        BY DEF GauntletInv, Outcomes
      <4> QED
        BY <4>1
    <3>2. IsFiniteSet(DOMAIN done)
      <4>1. Len(done) \in Nat /\ DOMAIN done = 1 .. Len(done)
        BY DEF GauntletInv
      <4> QED
        BY <4>1, FS_Interval
    <3>3. IsFiniteSet(K) /\ Cardinality(K) = 0
      <4>1. IsFiniteSet(K)
        BY <3>2, FS_Subset
      <4> QED
        BY <2>3, <4>1, GauntletSets DEF Gauntlet!Count
    <3>4. K = {}
      <4> HIDE DEF K
      <4> QED
        BY <3>3, FS_EmptySet
    <3> QED
      BY <3>1, <3>4
  <2> QED
    BY <1>1, <2>1, <2>2, <2>3 DEF GauntletInv
<1> QED
  BY <1>2, <1>3, <1>4, <1>5 DEF Next, Rest, vars, Gauntlet!Next

\* The ViV gauntlets: every case is tried on the artifact itself, and a mutation
\* of a valid receipt or bundle escapes only within the tolerances of the
\* validators (viv_adversarial, viv_market_adversarial, gate1a1_viv_gauntlet).
THEOREM GauntletEscapesAtTolerance == Spec => []EscapesAtTolerance
<1>1. GauntletInv => EscapesAtTolerance
  <2> SUFFICES ASSUME GauntletInv, gauntlet \in {"pass", "fail"}
               PROVE  /\ [i \in DOMAIN done |-> done[i].case] = Gauntlet!GauntletCases
                      /\ gauntlet = "pass" => Gauntlet!Count("blocked") = Len(Gauntlet!GauntletCases)
    BY DEF GauntletInv, EscapesAtTolerance, Of, Gauntlet!EscapesAtTolerance
  <2> DEFINE n == Len(Gauntlet!GauntletCases)
  <2>1. n \in Nat /\ DOMAIN Gauntlet!GauntletCases = 1 .. n
    BY GauntletCaseSeq
  <2>2. DOMAIN done = 1 .. n
    BY DEF GauntletInv
  <2>3. \A i \in 1 .. n : done[i].case = Gauntlet!GauntletCases[i]
    BY <2>2 DEF GauntletInv
  <2>4. [i \in DOMAIN done |-> done[i].case] = Gauntlet!GauntletCases
    <3>1. Gauntlet!GauntletCases = [i \in 1 .. n |-> Gauntlet!GauntletCases[i]]
      BY GauntletCaseSeq
    <3> HIDE DEF n
    <3> QED
      BY <2>2, <2>3, <3>1
  <2>5. ASSUME gauntlet = "pass" PROVE Gauntlet!Count("blocked") = n
    <3>1. {i \in DOMAIN done : done[i].status = "blocked"} = 1 .. n
      BY <2>2, <2>5 DEF GauntletInv
    <3>2. Cardinality(1 .. n) = n
      <4> HIDE DEF n
      <4> QED
        BY <2>1, FS_Interval
    <3> QED
      BY <3>1, <3>2, GauntletSets DEF Gauntlet!Count
  <2> QED
    BY <2>4, <2>5
<1> QED
  BY <1>1, GauntletInit, GauntletKept, PTL DEF Spec

-----------------------------------------------------------------------------
(* The uplift of a strategy packet.                                         *)

\* What the local pieces may say of each hint of the packet.
JudgedOf(i) ==
    LET h == strategy.proposals[i] IN
    {[hint |-> i, metrics |-> Planning!Metrics(h.route, g)] :
       g \in Planning!BestFlash(h.route, Planning!ToSet(h.providers), h.buckets)}
Judgements == UNION {JudgedOf(i) : i \in DOMAIN strategy.proposals}

\* A run past its packet has one that may be consumed, each hint was judged by the
\* local pieces, and a positive receipt rests on the class of a hint.
PlanningInv ==
    /\ strategy \in Packets /\ instant \in Int
    /\ step \in {"baseline", "hints", "written"} => Planning!Consumable(strategy, instant)
    /\ step # "written" => uplift = Planning!Nothing
    /\ judged \in Seq(Judgements)
    /\ uplift.overall = "positive" =>
         \E k \in DOMAIN judged : Planning!Class(judged[k].metrics) = "positive"

LEMMA NothingIsPositive == Planning!Nothing.overall # "positive"
<1> QED
  BY Zenon DEF Planning!Nothing

LEMMA PlanningInit == Init => PlanningInv
<1> SUFFICES ASSUME Planning!Init PROVE PlanningInv
  BY DEF Init
<1>1. instant \in Int
  <2> DEFINE last == (MaxPacketTtl + 1) * PartsOfSecond
  <2>1. last \in Int /\ instant \in 0 .. last
    BY ProgramsAssumption DEF Planning!Init, Planning!UpliftAssumption
  <2> HIDE DEF last
  <2> QED
    BY <2>1
<1>2. uplift.overall # "positive"
  BY NothingIsPositive DEF Planning!Init
<1>3. judged \in Seq(Judgements)
  BY EmptySeq DEF Planning!Init
<1> QED
  BY <1>1, <1>2, <1>3 DEF Planning!Init, PlanningInv

LEMMA PlanningKept == PlanningInv /\ [Next]_vars => PlanningInv'
<1> SUFFICES ASSUME PlanningInv, [Next]_vars PROVE PlanningInv'
  OBVIOUS
<1>1. ASSUME strategy' = strategy PROVE Judgements' = Judgements
  BY <1>1 DEF Judgements, JudgedOf
<1>2. CASE UNCHANGED planningVars
  BY <1>1, <1>2 DEF planningVars, PlanningInv, Planning!Class, Planning!Verified
<1>3. CASE Planning!Raise \/ Planning!Consume \/ Planning!RunBaseline
  <2>1. /\ UNCHANGED <<strategy, instant, judged, uplift>> /\ step # "written"
        /\ step' \in {"raised", "baseline", "hints"}
        /\ step' \in {"baseline", "hints"} => Planning!Consumable(strategy, instant)
    BY <1>3 DEF Planning!Raise, Planning!Consume, Planning!RunBaseline, PlanningInv
  <2>2. uplift.overall # "positive"
    BY <2>1, NothingIsPositive DEF PlanningInv
  <2> QED
    BY <1>1, <2>1, <2>2 DEF PlanningInv
<1>4. CASE Planning!EvaluateHint
  <2>1. step = "hints" /\ UNCHANGED <<strategy, instant, step, base, uplift>>
    BY <1>4 DEF Planning!EvaluateHint
  <2>2. PICK j \in Judgements : judged' = Append(judged, j)
    <3>1. PICK i \in DOMAIN strategy.proposals :
            LET h == strategy.proposals[i] IN
            \E g \in Planning!BestFlash(h.route, Planning!ToSet(h.providers), h.buckets) :
              judged' = Append(judged, [hint |-> i, metrics |-> Planning!Metrics(h.route, g)])
      BY <1>4 DEF Planning!EvaluateHint, Planning!Pending
    <3> DEFINE h == strategy.proposals[i]
    <3>2. PICK g \in Planning!BestFlash(h.route, Planning!ToSet(h.providers), h.buckets) :
            judged' = Append(judged, [hint |-> i, metrics |-> Planning!Metrics(h.route, g)])
      BY <3>1
    <3>3. [hint |-> i, metrics |-> Planning!Metrics(h.route, g)] \in Judgements
      <4>1. [hint |-> i, metrics |-> Planning!Metrics(h.route, g)] \in JudgedOf(i)
        BY <3>2 DEF JudgedOf
      <4> QED
        BY <4>1 DEF Judgements
    <3> QED
      BY <3>2, <3>3
  <2>3. judged' \in Seq(Judgements)
    BY <2>2, AppendProperties DEF PlanningInv
  <2>4. uplift.overall # "positive"
    BY <2>1, NothingIsPositive DEF PlanningInv
  <2> QED
    BY <1>1, <2>1, <2>3, <2>4 DEF PlanningInv
<1>5. CASE Planning!Write
  <2> DEFINE classes == [k \in DOMAIN judged |-> Planning!Class(judged[k].metrics)]
  <2>1. /\ step = "hints" /\ step' = "written" /\ UNCHANGED <<strategy, instant, base, judged>>
        /\ uplift'.overall = "positive" => "positive" \in Planning!ToSet(classes)
    BY <1>5 DEF Planning!Write
  <2>2. uplift'.overall = "positive" => \E k \in DOMAIN judged : Planning!Class(judged[k].metrics) = "positive"
    BY <2>1 DEF Planning!ToSet
  <2>3. \A m : Planning!Class(m)' = Planning!Class(m)
    BY <2>1 DEF Planning!Class, Planning!Verified
  <2> QED
    BY <1>1, <2>1, <2>2, <2>3 DEF PlanningInv
<1> QED
  BY <1>2, <1>3, <1>4, <1>5 DEF Next, Rest, vars, Planning!Next

\* What is counted and compared of a route are numbers.
LEMMA RouteNumbers ==
  ASSUME NEW r \in Planning!Ids
  PROVE  Planning!Survivors(r) \in Nat /\ Len(Routes[r].shifts) \in Nat /\ Planning!Worst(r) \in Int
<1> DEFINE s == Routes[r].shifts
<1>1. s \in Seq(Int) /\ s # << >>
  BY ProgramsAssumption DEF Planning!UpliftAssumption
<1> HIDE DEF s
<1>2. Len(s) \in Nat /\ DOMAIN s = 1 .. Len(s) /\ Len(s) > 0 /\ \A i \in 1 .. Len(s) : s[i] \in Int
  BY <1>1
<1>3. IsFiniteSet(1 .. Len(s))
  BY <1>2, FS_Interval
<1>4. Planning!Survivors(r) \in Nat
  <2> DEFINE K == {i \in DOMAIN s : s[i] >= MinDelta}
  <2>1. IsFiniteSet(K)
    BY <1>2, <1>3, FS_Subset
  <2>2. Cardinality(K) \in Nat
    BY <2>1, FS_CardinalityType
  <2>3. Planning!Cardinality(K) = Cardinality(K)
    BY Zenon DEF Planning!Cardinality, Cardinality
  <2> QED
    BY <2>2, <2>3 DEF Planning!Survivors, s
<1>5. Planning!Worst(r) \in Int
  <2> DEFINE S == {s[i] : i \in 1 .. Len(s)}
  <2>1. Planning!ToSet(s) = S
    BY <1>2 DEF Planning!ToSet
  <2>2. S \subseteq Int /\ S # {}
    BY <1>2
  <2>3. IsFiniteSet(S)
    <3> HIDE DEF S
    <3> QED
      BY <1>3, FiniteImage DEF S
  <2>4. \E x \in S : \A y \in S : x <= y
    <3> HIDE DEF S
    <3> QED
      BY <2>2, <2>3, LeastOfFinite
  <2>5. Planning!Worst(r) = CHOOSE d \in S : \A e \in S : d <= e
    BY <2>1 DEF Planning!Worst, s
  <2> HIDE DEF S
  <2> QED
    BY <2>2, <2>4, <2>5
<1> QED
  BY <1>2, <1>4, <1>5 DEF s

\* The uplift: a positive receipt comes of a whole packet that had not expired
\* and was less than a second past the lifetime it states, and of a hint that
\* repays on a surviving route and gains on the baseline
\* (strategy_packet_uplift.run_seeded_planning_uplift).
THEOREM UpliftIsEarned == Spec => []UpliftEarned
<1>1. PlanningInv => UpliftEarned
  <2> SUFFICES ASSUME PlanningInv, uplift.overall = "positive" PROVE Planning!UpliftEarned
    BY DEF UpliftEarned, Of, Planning!UpliftEarned
  <2>1. Planning!Consumable(strategy, instant)
    BY NothingIsPositive DEF PlanningInv
  <2>2. /\ strategy.broken = {} /\ instant < strategy.expires
        /\ instant < strategy.compiled + (strategy.ttl + 1) * PartsOfSecond
    <3> DEFINE end == (strategy.ttl + 1) * PartsOfSecond
    <3>1. strategy.compiled \in Int /\ strategy.expires \in Int /\ instant \in Int
      BY ProgramsAssumption DEF PlanningInv, Planning!UpliftAssumption
    <3>2. /\ strategy.ttl \in 1 .. MaxPacketTtl /\ MaxPacketTtl \in Nat /\ PartsOfSecond \in Nat \ {0}
          /\ (strategy.expires - strategy.compiled) \div PartsOfSecond = strategy.ttl
          /\ strategy.expires > instant
      BY <2>1, ProgramsAssumption DEF Planning!Consumable, Planning!UpliftAssumption
    <3>3. strategy.broken = {}
      BY <2>1 DEF Planning!Consumable
    <3>4. strategy.expires - strategy.compiled < end /\ end \in Int
      <4> DEFINE span == strategy.expires - strategy.compiled
      <4>1. span \in Int /\ strategy.ttl \in Int /\ span \div PartsOfSecond = strategy.ttl
        BY <3>1, <3>2
      <4>2. end \in Int
        BY <3>2, <4>1
      <4> HIDE DEF span
      <4>3. span < (strategy.ttl + 1) * PartsOfSecond
        <5>1. span < strategy.ttl * PartsOfSecond + PartsOfSecond
          BY <3>2, <4>1, WholeParts
        <5>2. (strategy.ttl + 1) * PartsOfSecond = strategy.ttl * PartsOfSecond + PartsOfSecond
          BY <3>2, <4>1
        <5> QED
          BY <5>1, <5>2, Zenon
      <4> QED
        BY <4>2, <4>3 DEF span
    <3> HIDE DEF end
    <3>5. instant < strategy.compiled + end
      BY <3>1, <3>2, <3>4
    <3> QED
      BY <3>1, <3>2, <3>3, <3>5 DEF end
  <2>3. PICK k \in DOMAIN judged : Planning!Class(judged[k].metrics) = "positive"
    BY DEF PlanningInv
  <2>4. judged[k] \in Judgements
    BY DEF PlanningInv
  <2>5. PICK i \in DOMAIN strategy.proposals :
          \E g \in Planning!BestFlash(strategy.proposals[i].route, Planning!ToSet(strategy.proposals[i].providers),
                                      strategy.proposals[i].buckets) :
            judged[k] = [hint |-> i, metrics |-> Planning!Metrics(strategy.proposals[i].route, g)]
    BY <2>4 DEF Judgements, JudgedOf
  <2> DEFINE h == strategy.proposals[i]
             m == judged[k].metrics
  <2>6. PICK g \in Planning!BestFlash(h.route, Planning!ToSet(h.providers), h.buckets) :
          m = Planning!Metrics(h.route, g)
    BY <2>5
  <2>7. /\ g \in DOMAIN Geometry /\ g[1] = h.route /\ g[2] \in Planning!ToSet(h.providers)
        /\ g[3] \in h.buckets /\ Geometry[g].capacity
    BY <2>6 DEF Planning!BestFlash, Planning!Feasible
  <2>8. g = <<h.route, g[2], g[3]>>
    BY <2>7, ProgramsAssumption DEF Planning!UpliftAssumption
  <2>9. /\ m.route = h.route /\ m.profit = Geometry[g].profit
        /\ m.repays = (Geometry[g].profit >= MinProfit)
    BY <2>6 DEF Planning!Metrics
  <2>10. Planning!Survivors(h.route) > 0 /\ Geometry[g].profit >= MinProfit
    BY <2>3, <2>9 DEF Planning!Class, Planning!Verified
  <2>11. ASSUME h.route = base.route PROVE Geometry[g].profit > base.profit
    <3>1. h.route \in Planning!Ids
      BY <2>1 DEF Planning!Consumable, Planning!Bound
    <3>2. ~Planning!SurvivesMore(h.route, base.route)
      <4> DEFINE product == Planning!Survivors(h.route) * Len(Routes[h.route].shifts)
      <4>1. product \in Int
        BY <3>1, RouteNumbers
      <4> HIDE DEF product
      <4>2. ~(product > product)
        BY <4>1
      <4> QED
        BY <2>11, <4>2 DEF Planning!SurvivesMore, product
    <3>3. ~(Planning!Worst(h.route) > Planning!Worst(base.route))
      BY <2>11, <3>1, RouteNumbers
    <3> QED
      BY <2>3, <2>9, <2>11, <3>2, <3>3 DEF Planning!Class
  <2> QED
    BY <2>2, <2>7, <2>8, <2>10, <2>11 DEF Planning!UpliftEarned
<1> QED
  BY <1>1, PlanningInit, PlanningKept, PTL DEF Spec

-----------------------------------------------------------------------------
(* Induction over data.  A set that holds 0 and each successor holds 0 .. N,  *)
(* by its least counterexample; a recursive function and a fold follow it.    *)

\* Whatever holds 0, and k whenever it holds k - 1, holds all of 0 .. N.
LEMMA InductionUpTo ==
  ASSUME NEW N \in Nat, NEW G, 0 \in G, \A k \in 1 .. N : k - 1 \in G => k \in G
  PROVE  \A k \in 0 .. N : k \in G
<1> DEFINE Bad == {k \in 0 .. N : k \notin G}
<1> SUFFICES ASSUME Bad # {} PROVE FALSE
  OBVIOUS
<1>1. Bad \subseteq Int /\ IsFiniteSet(Bad)
  <2>1. IsFiniteSet(0 .. N) /\ Bad \subseteq 0 .. N
    BY FS_Interval
  <2>2. IsFiniteSet(Bad)
    <3> HIDE DEF Bad
    <3> QED
      BY <2>1, FS_Subset
  <2> QED
    BY <2>2
<1>2. PICK k \in Bad : \A y \in Bad : k <= y
  <2> HIDE DEF Bad
  <2> QED
    BY <1>1, LeastOfFinite
<1>3. k \in 1 .. N
  BY <1>2
<1>4. k - 1 \in 0 .. N /\ ~(k <= k - 1)
  BY <1>3
<1>5. k - 1 \in G
  BY <1>2, <1>4
<1> QED
  BY <1>2, <1>3, <1>5

\* f starts from x0 and takes the steps that "move" prescribes.
Follows(n, X, x0, move, f) ==
    f \in [0 .. n -> X] /\ f[0] = x0 /\ \A k \in 1 .. n : f[k] = move[<<k, f[k - 1]>>]

\* A function defined by recursion over 0 .. N exists.
LEMMA RecursionUpTo ==
  ASSUME NEW N \in Nat, NEW X, NEW x0 \in X, NEW move \in [(1 .. N) \X X -> X]
  PROVE  \E f : Follows(N, X, x0, move, f)
<1> DEFINE Part(n, f) == Follows(n, X, x0, move, f)
           G == {n \in 0 .. N : \E f : Part(n, f)}
<1>1. 0 \in G
  <2>1. Part(0, [k \in 0 .. 0 |-> x0])
    BY DEF Follows
  <2> HIDE DEF Part
  <2> QED
    BY <2>1
<1>2. ASSUME NEW n \in 1 .. N, n - 1 \in G PROVE n \in G
  <2>1. PICK g : Part(n - 1, g)
    BY <1>2
  <2>a. g \in [0 .. n - 1 -> X]
    BY <2>1, Zenon DEF Follows
  <2>b. g[0] = x0
    BY <2>1, Zenon DEF Follows
  <2>c. \A k \in 1 .. n - 1 : g[k] = move[k, g[k - 1]]
    BY <2>1, Zenon DEF Follows
  <2> HIDE DEF Part
  <2> DEFINE f == [k \in 0 .. n |-> IF k = n THEN move[<<n, g[n - 1]>>] ELSE g[k]]
  <2>2. n - 1 \in 0 .. n - 1 /\ g[n - 1] \in X /\ move[<<n, g[n - 1]>>] \in X
    <3>1. n - 1 \in 0 .. n - 1
      OBVIOUS
    <3>2. g[n - 1] \in X
      BY <2>a, <3>1
    <3>3. <<n, g[n - 1]>> \in (1 .. N) \X X
      BY <3>2
    <3> QED
      BY <3>1, <3>2, <3>3
  <2>3. f \in [0 .. n -> X]
    <3> SUFFICES ASSUME NEW k \in 0 .. n, k # n PROVE g[k] \in X
      BY <2>2
    <3>1. k \in 0 .. n - 1
      OBVIOUS
    <3> QED
      BY <2>a, <3>1
  <2>4. f[0] = x0
    <3>1. 0 \in 0 .. n /\ 0 # n
      OBVIOUS
    <3> QED
      BY <2>b, <3>1
  <2>5. ASSUME NEW k \in 1 .. n PROVE f[k] = move[<<k, f[k - 1]>>]
    <3>0. k \in 0 .. n /\ k - 1 \in 0 .. n /\ k - 1 # n
      OBVIOUS
    <3>1. k \in 0 .. n /\ f[k - 1] = g[k - 1]
      BY <3>0
    <3>2. CASE k = n
      BY <3>1, <3>2
    <3>3. CASE k # n
      <4>1. k \in 1 .. n - 1
        BY <3>3
      <4>2. f[k] = g[k]
        BY <3>1, <3>3
      <4> QED
        BY <2>c, <3>1, <4>1, <4>2
    <3> QED
      BY <3>2, <3>3
  <2>6. Part(n, f)
    <3> HIDE DEF f
    <3> QED
      BY <2>3, <2>4, <2>5 DEF Part, Follows
  <2> HIDE DEF f
  <2> QED
    BY <2>6
<1>3. N \in G
  <2> HIDE DEF G
  <2>1. \A n \in 1 .. N : n - 1 \in G => n \in G
    BY <1>2
  <2> QED
    BY <1>1, <2>1, InductionUpTo
<1> QED
  BY <1>3

\* The sum of integers over a finite set is an integer, in whatever order it is taken.
LEMMA SumIsInteger ==
  ASSUME NEW S, IsFiniteSet(S), NEW f, \A x \in S : f[x] \in Int
  PROVE  Corpus!FoldFunctionOnSet(+, 0, f, S) \in Int
<1> DEFINE First(s) == CHOOSE x \in s : TRUE
           Sums(it, D) == \A s \in D : it[s] = IF s = {} THEN 0 ELSE f[First(s)] + it[s \ {First(s)}]
           Small(n) == {s \in SUBSET S : Cardinality(s) <= n}
           Part(n, it) == it \in [Small(n) -> Int] /\ Sums(it, Small(n))
           N == Cardinality(S)
<1>1. N \in Nat
  BY FS_CardinalityType
<1>2. ASSUME NEW s \in SUBSET S
      PROVE  /\ Cardinality(s) \in 0 .. N
             /\ s # {} => /\ First(s) \in S /\ s \ {First(s)} \in SUBSET S
                          /\ Cardinality(s) \in 1 .. N
                          /\ Cardinality(s \ {First(s)}) = Cardinality(s) - 1
  <2>1. IsFiniteSet(s) /\ Cardinality(s) \in Nat /\ Cardinality(s) <= N
    BY FS_Subset, FS_CardinalityType
  <2>2. ASSUME s # {} PROVE First(s) \in s
    BY <2>2
  <2>3. s # {} => Cardinality(s \ {First(s)}) = Cardinality(s) - 1
    BY <2>1, <2>2, FS_RemoveElement
  <2>4. s # {} => Cardinality(s) # 0
    BY <2>1, FS_EmptySet
  <2> HIDE DEF First, N
  <2> QED
    BY <1>1, <2>1, <2>2, <2>3, <2>4
<1> HIDE DEF First, N
<1>3. \E it : it = [s \in SUBSET S |-> IF s = {} THEN 0 ELSE f[First(s)] + it[s \ {First(s)}]]
  <2> DEFINE G == {n \in 0 .. N : \E it : Part(n, it)}
  <2>1. 0 \in G
    <3>1. Part(0, [s \in Small(0) |-> 0])
      <4>1. ASSUME NEW s \in Small(0) PROVE s = {}
        <5>1. s \in SUBSET S /\ Cardinality(s) <= 0
          OBVIOUS
        <5>2. s # {} => Cardinality(s) \in 1 .. N
          BY <1>2, <5>1
        <5> QED
          BY <1>1, <5>1, <5>2
      <4> QED
        BY <4>1
    <3> HIDE DEF Part
    <3> QED
      BY <1>1, <3>1
  <2>2. ASSUME NEW n \in 1 .. N, n - 1 \in G PROVE n \in G
    <3>1. PICK g : Part(n - 1, g)
      BY <2>2
    <3> DEFINE h == [s \in Small(n) |-> IF s = {} THEN 0 ELSE f[First(s)] + g[s \ {First(s)}]]
    <3>2. ASSUME NEW s \in Small(n), s # {}
          PROVE  s \ {First(s)} \in Small(n - 1) /\ s \ {First(s)} \in Small(n)
      <4>1. Cardinality(s \ {First(s)}) = Cardinality(s) - 1 /\ Cardinality(s) \in Int /\ Cardinality(s) <= n
        BY <1>2, <3>2
      <4>2. Cardinality(s \ {First(s)}) <= n - 1 /\ Cardinality(s \ {First(s)}) <= n
        BY <4>1
      <4> QED
        BY <1>2, <3>2, <4>2
    <3>3. h \in [Small(n) -> Int]
      <4> SUFFICES ASSUME NEW s \in Small(n), s # {} PROVE f[First(s)] + g[s \ {First(s)}] \in Int
        OBVIOUS
      <4>1. f[First(s)] \in Int
        BY <1>2
      <4>2. g[s \ {First(s)}] \in Int
        <5> HIDE DEF Small
        <5> QED
          BY <3>1, <3>2
      <4> QED
        BY <4>1, <4>2
    <3>4. ASSUME NEW s \in Small(n - 1) PROVE s \in Small(n) /\ h[s] = g[s]
      <4>1. s \in Small(n)
        <5>1. s \in SUBSET S /\ Cardinality(s) <= n - 1
          OBVIOUS
        <5>2. Cardinality(s) \in 0 .. N
          BY <1>2, <5>1
        <5>3. Cardinality(s) <= n
          BY <1>1, <5>1, <5>2
        <5> QED
          BY <5>1, <5>3
      <4>2. g[s] = IF s = {} THEN 0 ELSE f[First(s)] + g[s \ {First(s)}]
        BY <3>1
      <4> HIDE DEF Small
      <4> QED
        BY <4>1, <4>2
    <3>5. Sums(h, Small(n))
      <4> SUFFICES ASSUME NEW s \in Small(n)
                   PROVE  h[s] = IF s = {} THEN 0 ELSE f[First(s)] + h[s \ {First(s)}]
        OBVIOUS
      <4>1. s # {} => h[s \ {First(s)}] = g[s \ {First(s)}]
        <5> HIDE DEF h, Small
        <5> QED
          BY <3>2, <3>4
      <4>2. h[s] = IF s = {} THEN 0 ELSE f[First(s)] + g[s \ {First(s)}]
        OBVIOUS
      <4> HIDE DEF h, Small
      <4> QED
        BY <4>1, <4>2
    <3>6. Part(n, h)
      <4> HIDE DEF h, Small, Sums
      <4> QED
        BY <3>3, <3>5
    <3> HIDE DEF Part
    <3> QED
      BY <3>6
  <2>3. N \in G
    <3> HIDE DEF G
    <3>1. \A n \in 1 .. N : n - 1 \in G => n \in G
      BY <2>2
    <3> QED
      BY <1>1, <2>1, <3>1, InductionUpTo
  <2>4. PICK it : Part(N, it)
    BY <2>3
  <2>5. Small(N) = SUBSET S
    <3> SUFFICES ASSUME NEW s \in SUBSET S PROVE Cardinality(s) <= N
      OBVIOUS
    <3>1. Cardinality(s) \in 0 .. N
      BY <1>2
    <3> QED
      BY <1>1, <3>1
  <2>6. DOMAIN it = SUBSET S /\ \A s \in SUBSET S : it[s] = IF s = {} THEN 0 ELSE f[First(s)] + it[s \ {First(s)}]
    BY <2>4, <2>5
  <2>7. it = [s \in SUBSET S |-> IF s = {} THEN 0 ELSE f[First(s)] + it[s \ {First(s)}]]
    BY <2>4, <2>5, <2>6
  <2> QED
    BY <2>7
<1> DEFINE it == CHOOSE it : it = [s \in SUBSET S |-> IF s = {} THEN 0 ELSE f[First(s)] + it[s \ {First(s)}]]
<1>4. it = [s \in SUBSET S |-> IF s = {} THEN 0 ELSE f[First(s)] + it[s \ {First(s)}]]
  BY <1>3
<1>5. Corpus!FoldFunctionOnSet(+, 0, f, S) = it[S]
  BY DEF Corpus!FoldFunctionOnSet, Corpus!MapThenFoldSet, First
<1> HIDE DEF it
<1>6. it[S] \in Int
  <2> DEFINE G == {n \in 0 .. N : \A s \in SUBSET S : Cardinality(s) = n => it[s] \in Int}
  <2>1. 0 \in G
    <3> SUFFICES ASSUME NEW s \in SUBSET S, Cardinality(s) = 0 PROVE it[s] \in Int
      BY <1>1
    <3>1. s = {}
      <4>1. s # {} => Cardinality(s) \in 1 .. N
        BY <1>2
      <4> QED
        BY <1>1, <4>1
    <3> QED
      BY <1>4, <3>1
  <2>2. ASSUME NEW n \in 1 .. N, n - 1 \in G PROVE n \in G
    <3> SUFFICES ASSUME NEW s \in SUBSET S, Cardinality(s) = n PROVE it[s] \in Int
      BY <1>1
    <3>1. s # {}
      <4> SUFFICES ASSUME s = {} PROVE FALSE
        OBVIOUS
      <4>1. Cardinality(s) = 0
        BY FS_EmptySet
      <4> QED
        BY <4>1
    <3>2. it[s] = f[First(s)] + it[s \ {First(s)}]
      BY <1>4, <3>1
    <3>3. f[First(s)] \in Int /\ it[s \ {First(s)}] \in Int
      BY <1>2, <2>2, <3>1
    <3> QED
      BY <3>2, <3>3
  <2>3. N \in G
    <3> HIDE DEF G
    <3>1. \A n \in 1 .. N : n - 1 \in G => n \in G
      BY <2>2
    <3> QED
      BY <1>1, <2>1, <3>1, InductionUpTo
  <2> QED
    BY <2>3 DEF N
<1> QED
  BY <1>5, <1>6

-----------------------------------------------------------------------------
(* The fixed corpus: the assignments of itertools.product.                  *)

Bits(n) == [1 .. n -> {0, 1}]
Doubled(p) == [k \in 1 .. 2 * Len(p) |-> Append(p[(k + 1) \div 2], (k + 1) % 2)]

\* A enumerates the assignments of n bits in their order.
InOrder(n, A) ==
    /\ A \in Seq(Bits(n))
    /\ \A b \in Bits(n) : \E k \in 1 .. Len(A) : A[k] = b
    /\ \A i, j \in 1 .. Len(A) : i < j => Corpus!Before(A[i], A[j])

\* A function on 1 .. n is a sequence.
LEMMA FunctionIsSequence ==
  ASSUME NEW T, NEW n \in Nat, NEW s \in [1 .. n -> T]
  PROVE  s \in Seq(T)
<1> QED
  BY SeqDef

\* An assignment of n bits is a sequence of length n.
LEMMA BitsAreSequences ==
  ASSUME NEW n \in Nat, NEW b \in Bits(n)
  PROVE  b \in Seq({0, 1}) /\ Len(b) = n
<1>1. b \in Seq({0, 1})
  BY SeqDef DEF Bits
<1>2. DOMAIN b = 1 .. n /\ DOMAIN b = 1 .. Len(b) /\ Len(b) \in Nat
  BY <1>1, LenProperties DEF Bits
<1> HIDE DEF Bits
<1>3. Len(b) = n
  BY <1>2
<1> QED
  BY <1>1, <1>3

\* Entry 2j - 1 + x is prefix j followed by x.
LEMMA Halves ==
  ASSUME NEW j \in Int, NEW x \in {0, 1}
  PROVE  (2 * j - 1 + x + 1) \div 2 = j /\ (2 * j - 1 + x + 1) % 2 = x
<1> QED
  OBVIOUS

\* Entries are in the order of their prefixes, then of their last bits.
LEMMA HalvesInOrder ==
  ASSUME NEW g \in Int, NEW h \in Int, NEW x \in Int, NEW y \in Int, 0 <= x, x <= 1, 0 <= y, y <= 1,
         2 * g - 1 + x < 2 * h - 1 + y
  PROVE  g < h \/ (g = h /\ x = 0 /\ y = 1)
<1> QED
  OBVIOUS

\* A bit more.
LEMMA AppendedBit ==
  ASSUME NEW n \in Nat, NEW b \in Bits(n), NEW x \in {0, 1}
  PROVE  /\ Append(b, x) \in Bits(n + 1) /\ Append(b, x)[n + 1] = x
         /\ \A i \in 1 .. n : Append(b, x)[i] = b[i]
<1>1. b \in Seq({0, 1}) /\ Len(b) = n
  BY BitsAreSequences
<1>2. /\ Append(b, x) \in Seq({0, 1}) /\ Len(Append(b, x)) = n + 1
      /\ Append(b, x)[n + 1] = x /\ \A i \in 1 .. n : Append(b, x)[i] = b[i]
  BY <1>1, AppendProperties
<1>3. Append(b, x) \in [1 .. n + 1 -> {0, 1}]
  BY <1>2, LenProperties
<1> QED
  BY <1>2, <1>3 DEF Bits

\* Each prefix with a 0 and with a 1, in turn, keeps the enumeration complete and in order.
LEMMA DoubledInOrder ==
  ASSUME NEW n \in Nat, NEW p, InOrder(n, p)
  PROVE  InOrder(n + 1, Doubled(p))
<1> DEFINE A == Doubled(p)
           half(k) == (k + 1) \div 2
           bit(k) == (k + 1) % 2
           L == Len(p)
<1>1. p \in Seq(Bits(n)) /\ L \in Nat /\ \A j \in 1 .. L : p[j] \in Bits(n)
  <2>1. p \in Seq(Bits(n))
    BY DEF InOrder
  <2> QED
    BY <2>1, LenProperties, ElementOfSeq
<1>2. ASSUME NEW k \in 1 .. 2 * L
      PROVE  half(k) \in 1 .. L /\ bit(k) \in {0, 1} /\ k = 2 * half(k) - 1 + bit(k)
  <2> HIDE DEF L
  <2> QED
    BY <1>1
<1>3. ASSUME NEW k \in 1 .. 2 * L PROVE A[k] = Append(p[half(k)], bit(k)) /\ A[k] \in Bits(n + 1)
  <2>1. A[k] = Append(p[half(k)], bit(k))
    BY DEF Doubled
  <2>2. p[half(k)] \in Bits(n) /\ bit(k) \in {0, 1}
    BY <1>1, <1>2
  <2> HIDE DEF A, L, half, bit
  <2> QED
    BY <2>1, <2>2, AppendedBit
<1>4. A \in Seq(Bits(n + 1)) /\ Len(A) = 2 * L
  <2>1. 2 * L \in Nat
    <3> HIDE DEF L
    <3> QED
      BY <1>1
  <2>2. DOMAIN A = 1 .. 2 * L /\ A = [k \in 1 .. 2 * L |-> A[k]]
    BY DEF Doubled
  <2>3. A \in [1 .. 2 * L -> Bits(n + 1)]
    <3> HIDE DEF A
    <3> QED
      BY <1>3, <2>2
  <2>4. A \in Seq(Bits(n + 1))
    <3> HIDE DEF A, L
    <3> QED
      BY <2>1, <2>3, SeqDef
  <2>5. DOMAIN A = 1 .. Len(A) /\ Len(A) \in Nat
    <3> HIDE DEF A, L
    <3> QED
      BY <2>4, LenProperties
  <2>6. Len(A) = 2 * L
    <3> HIDE DEF A, L
    <3> QED
      BY <2>1, <2>2, <2>5
  <2> QED
    BY <2>4, <2>6
<1>5. ASSUME NEW b \in Bits(n + 1) PROVE \E k \in 1 .. 2 * L : A[k] = b
  <2> DEFINE c == [i \in 1 .. n |-> b[i]]
  <2>1. c \in Bits(n) /\ b[n + 1] \in {0, 1}
    BY DEF Bits
  <2>2. PICK j \in 1 .. L : p[j] = c
    BY <2>1 DEF InOrder
  <2> DEFINE k == 2 * j - 1 + b[n + 1]
  <2>3. k \in 1 .. 2 * L /\ half(k) = j /\ bit(k) = b[n + 1]
    <3>2. j \in Int /\ 1 <= j /\ j <= L /\ L \in Int
      BY <1>1
    <3>1. half(k) = j /\ bit(k) = b[n + 1]
      BY <2>1, <3>2, Halves, Zenon
    <3>3. k \in 1 .. 2 * L
      <4> HIDE DEF L
      <4> QED
        BY <2>1, <3>2
    <3> QED
      BY <3>1, <3>3
  <2>4. A[k] = Append(c, b[n + 1])
    <3> HIDE DEF A, L, half, bit, k, c
    <3> QED
      BY <1>3, <2>2, <2>3
  <2>5. /\ Append(c, b[n + 1]) \in Bits(n + 1) /\ Append(c, b[n + 1])[n + 1] = b[n + 1]
        /\ \A i \in 1 .. n : Append(c, b[n + 1])[i] = c[i]
    <3> HIDE DEF c
    <3> QED
      BY <2>1, AppendedBit
  <2>6. \A i \in 1 .. n + 1 : Append(c, b[n + 1])[i] = b[i]
    <3> SUFFICES ASSUME NEW i \in 1 .. n + 1 PROVE Append(c, b[n + 1])[i] = b[i]
      OBVIOUS
    <3>1. CASE i = n + 1
      BY <2>5, <3>1
    <3>2. CASE i \in 1 .. n
      BY <2>5, <3>2
    <3> QED
      BY <3>1, <3>2
  <2>7. Append(c, b[n + 1]) = b
    <3> DEFINE d == Append(c, b[n + 1])
    <3>1. d \in [1 .. n + 1 -> {0, 1}] /\ b \in [1 .. n + 1 -> {0, 1}]
      BY <2>5 DEF Bits
    <3>2. \A i \in 1 .. n + 1 : d[i] = b[i]
      BY <2>6
    <3> HIDE DEF d
    <3> QED
      BY <3>1, <3>2 DEF d
  <2> HIDE DEF A, L, k
  <2> QED
    BY <2>3, <2>4, <2>7
<1>6. ASSUME NEW i \in 1 .. 2 * L, NEW j \in 1 .. 2 * L, i < j PROVE Corpus!Before(A[i], A[j])
  <2> DEFINE a == p[half(i)]
             b == p[half(j)]
  <2>1. /\ half(i) \in 1 .. L /\ bit(i) \in {0, 1} /\ i = 2 * half(i) - 1 + bit(i)
        /\ half(j) \in 1 .. L /\ bit(j) \in {0, 1} /\ j = 2 * half(j) - 1 + bit(j)
    BY <1>2
  <2>2. half(i) < half(j) \/ (half(i) = half(j) /\ bit(i) = 0 /\ bit(j) = 1)
    <3> HIDE DEF half, bit, L
    <3>1. half(i) \in Int /\ half(j) \in Int
      BY <1>1, <2>1
    <3>2. 2 * half(i) - 1 + bit(i) < 2 * half(j) - 1 + bit(j)
      BY <1>6, <2>1, Zenon
    <3>3. /\ bit(i) \in Int /\ 0 <= bit(i) /\ bit(i) <= 1
          /\ bit(j) \in Int /\ 0 <= bit(j) /\ bit(j) <= 1
      BY <2>1
    <3> QED
      BY <3>1, <3>2, <3>3, HalvesInOrder, Zenon
  <2>3. /\ DOMAIN A[i] = 1 .. n + 1 /\ DOMAIN a = 1 .. n
        /\ A[i][n + 1] = bit(i) /\ A[j][n + 1] = bit(j)
        /\ \A x \in 1 .. n : A[i][x] = a[x] /\ A[j][x] = b[x]
    <3>1. a \in Bits(n) /\ b \in Bits(n)
      BY <1>1, <2>1
    <3>2. A[i] = Append(a, bit(i)) /\ A[j] = Append(b, bit(j)) /\ A[i] \in Bits(n + 1)
      BY <1>3
    <3>3. DOMAIN A[i] = 1 .. n + 1 /\ DOMAIN a = 1 .. n
      <4> HIDE DEF A, a
      <4> QED
        BY <3>1, <3>2 DEF Bits
    <3>4. bit(i) \in {0, 1} /\ bit(j) \in {0, 1}
      BY <2>1
    <3>5. Append(a, bit(i))[n + 1] = bit(i) /\ \A x \in 1 .. n : Append(a, bit(i))[x] = a[x]
      BY <3>1, <3>4, AppendedBit, Zenon
    <3>6. Append(b, bit(j))[n + 1] = bit(j) /\ \A x \in 1 .. n : Append(b, bit(j))[x] = b[x]
      BY <3>1, <3>4, AppendedBit, Zenon
    <3> HIDE DEF A, a, b, half, bit, L
    <3> QED
      BY <3>2, <3>3, <3>5, <3>6
  <2>4. CASE half(i) < half(j)
    <3>1. Corpus!Before(a, b)
      BY <2>1, <2>4 DEF InOrder
    <3> HIDE DEF A, a, b, half, bit, L
    <3>2. PICK x \in 1 .. n : a[x] < b[x] /\ \A y \in 1 .. x - 1 : a[y] = b[y]
      BY <2>3, <3>1 DEF Corpus!Before
    <3>3. \A y \in 1 .. x - 1 : y \in 1 .. n
      OBVIOUS
    <3>4. x \in 1 .. n + 1
      OBVIOUS
    <3> QED
      BY <2>3, <3>2, <3>3, <3>4 DEF Corpus!Before
  <2>5. CASE half(i) = half(j) /\ bit(i) = 0 /\ bit(j) = 1
    <3>1. a = b
      BY <2>5
    <3> HIDE DEF A, a, b, half, bit, L
    <3>2. n + 1 \in 1 .. n + 1 /\ (n + 1) - 1 = n
      OBVIOUS
    <3>3. A[i][n + 1] < A[j][n + 1] /\ \A y \in 1 .. (n + 1) - 1 : A[i][y] = A[j][y]
      BY <2>3, <2>5, <3>1, <3>2
    <3> QED
      BY <2>3, <3>2, <3>3 DEF Corpus!Before
  <2> QED
    BY <2>2, <2>4, <2>5
<1> HIDE DEF A, L
<1> QED
  BY <1>4, <1>5, <1>6 DEF InOrder, A

\* itertools.product enumerates every assignment, in the order of the bits.
LEMMA AssignmentsInOrder ==
  ASSUME NEW n \in Nat
  PROVE  InOrder(n, Corpus!Assignments(n))
<1> DEFINE X == Seq(Seq({0, 1}))
           one == << << >> >>
           move == [e \in (1 .. n) \X X |-> Doubled(e[2])]
           Product(p) == p = [m \in 0 .. n |-> IF m = 0 THEN one ELSE Doubled(p[m - 1])]
           p == CHOOSE p : Product(p)
<1>1. ASSUME NEW A \in X PROVE Doubled(A) \in X
  <2>1. Len(A) \in Nat /\ \A k \in 1 .. Len(A) : A[k] \in Seq({0, 1})
    BY LenProperties, ElementOfSeq
  <2>2. ASSUME NEW k \in 1 .. 2 * Len(A)
        PROVE  Append(A[(k + 1) \div 2], (k + 1) % 2) \in Seq({0, 1})
    <3>1. (k + 1) \div 2 \in 1 .. Len(A) /\ (k + 1) % 2 \in {0, 1}
      BY <2>1
    <3> QED
      BY <2>1, <3>1, AppendProperties
  <2>3. Doubled(A) \in [1 .. 2 * Len(A) -> Seq({0, 1})] /\ 2 * Len(A) \in Nat
    BY <2>1, <2>2 DEF Doubled
  <2>4. Doubled(A) \in Seq(Seq({0, 1}))
    <3> HIDE DEF X
    <3> QED
      BY <2>3, FunctionIsSequence
  <2> QED
    BY <2>4
<1>2. move \in [(1 .. n) \X X -> X] /\ one \in X
  <2>1. one \in X
    BY EmptySeq
  <2>2. ASSUME NEW e \in (1 .. n) \X X PROVE Doubled(e[2]) \in X
    BY <1>1
  <2> HIDE DEF X, one
  <2> QED
    BY <2>1, <2>2
<1>3. \E q : Product(q)
  <2> HIDE DEF X, one
  <2>f. PICK f : Follows(n, X, one, move, f)
    <3>1. move \in [(1 .. n) \X X -> X] /\ one \in X
      BY <1>2
    <3> HIDE DEF move
    <3> QED
      BY <3>1, RecursionUpTo
  <2>1. f \in [0 .. n -> X] /\ f[0] = one /\ \A m \in 1 .. n : f[m] = move[<<m, f[m - 1]>>]
    <3> HIDE DEF move
    <3> QED
      BY <2>f DEF Follows
  <2>2. ASSUME NEW m \in 1 .. n PROVE f[m] = Doubled(f[m - 1])
    <3>1. m - 1 \in 0 .. n
      OBVIOUS
    <3>2. <<m, f[m - 1]>> \in (1 .. n) \X X
      <4>1. f[m - 1] \in X
        <5> HIDE DEF move
        <5> QED
          BY <2>1, <3>1
      <4> QED
        BY <4>1
    <3>3. move[<<m, f[m - 1]>>] = Doubled(f[m - 1])
      BY <3>2
    <3> QED
      BY <2>1, <3>3
  <2>3. \A m \in 0 .. n : f[m] = IF m = 0 THEN one ELSE Doubled(f[m - 1])
    <3> SUFFICES ASSUME NEW m \in 0 .. n, m # 0 PROVE f[m] = Doubled(f[m - 1])
      BY <2>1
    <3>1. m \in 1 .. n
      OBVIOUS
    <3> QED
      BY <2>2, <3>1
  <2>4. Product(f)
    BY <2>1, <2>3
  <2> HIDE DEF Product
  <2> QED
    BY <2>4
<1>4. Product(p)
  <2> HIDE DEF Product
  <2> QED
    BY <1>3
<1>5. Corpus!Assignments(n) = p[n]
  BY Zenon DEF Corpus!Assignments, Doubled
<1> HIDE DEF p
<1>6. p[0] = one /\ \A m \in 1 .. n : p[m] = Doubled(p[m - 1])
  <2>1. \A m \in 1 .. n : m \in 0 .. n /\ m # 0
    OBVIOUS
  <2> HIDE DEF one
  <2> QED
    BY <1>4, <2>1
<1> DEFINE G == {m \in 0 .. n : InOrder(m, p[m])}
<1>7. 0 \in G
  <2>1. Bits(0) = {<< >>}
    <3>1. ASSUME NEW b \in Bits(0) PROVE b = << >>
      <4>1. b \in Seq({0, 1}) /\ Len(b) = 0
        BY BitsAreSequences
      <4> QED
        BY <4>1, EmptySeq
    <3>2. << >> \in Seq({0, 1}) /\ Len(<< >>) = 0
      BY EmptySeq
    <3>3. << >> \in [1 .. 0 -> {0, 1}]
      BY <3>2, LenProperties
    <3> QED
      BY <3>1, <3>3 DEF Bits
  <2>2. one \in Seq(Bits(0)) /\ Len(one) = 1 /\ one[1] = << >>
    BY <2>1
  <2> HIDE DEF one
  <2>3. InOrder(0, one)
    BY <2>1, <2>2 DEF InOrder
  <2> QED
    BY <1>6, <2>3
<1>8. ASSUME NEW m \in 1 .. n, m - 1 \in G PROVE m \in G
  <2>1. m - 1 \in Nat /\ (m - 1) + 1 = m
    OBVIOUS
  <2>2. InOrder(m - 1, p[m - 1])
    BY <1>8
  <2>3. InOrder(m, Doubled(p[m - 1]))
    BY <2>1, <2>2, DoubledInOrder
  <2> QED
    BY <1>6, <2>3
<1>9. n \in G
  <2> HIDE DEF G
  <2>1. \A m \in 1 .. n : m - 1 \in G => m \in G
    BY <1>8
  <2> QED
    BY <1>7, <2>1, InductionUpTo
<1> QED
  BY <1>5, <1>9

-----------------------------------------------------------------------------
(* The exact search.                                                        *)

\* The objective of any assignment is a number.
LEMMA ObjectiveIsInteger ==
  ASSUME NEW q, Corpus!QuboShaped(q), NEW a
  PROVE  Corpus!Objective(q, a) \in Int
<1> DEFINE chosen == {i \in 1 .. Corpus!Size(q) : a[i] = 1}
           pairs == {p \in DOMAIN q.quadratic : p[1] \in chosen /\ p[2] \in chosen}
<1>1. /\ q.linear \in Seq(Int) /\ q.constant \in Int /\ Corpus!Size(q) = Len(q.linear)
      /\ \A p \in DOMAIN q.quadratic : q.quadratic[p] \in Int
  BY DEF Corpus!QuboShaped, Corpus!Size
<1>2. IsFiniteSet(DOMAIN q.quadratic)
  <2>1. Corpus!IsFiniteSet(DOMAIN q.quadratic)
    BY DEF Corpus!QuboShaped
  <2> QED
    BY <2>1, Zenon DEF Corpus!IsFiniteSet, IsFiniteSet
<1>3. Corpus!Size(q) \in Nat /\ \A i \in 1 .. Corpus!Size(q) : q.linear[i] \in Int
  BY <1>1, LenProperties, ElementOfSeq
<1>4. IsFiniteSet(chosen) /\ \A i \in chosen : q.linear[i] \in Int
  <2>1. IsFiniteSet(1 .. Corpus!Size(q)) /\ chosen \subseteq 1 .. Corpus!Size(q)
    BY <1>3, FS_Interval
  <2>2. IsFiniteSet(chosen)
    <3> HIDE DEF chosen
    <3> QED
      BY <2>1, FS_Subset
  <2> QED
    BY <1>3, <2>2
<1>5. IsFiniteSet(pairs) /\ \A p \in pairs : q.quadratic[p] \in Int
  <2>1. pairs \subseteq DOMAIN q.quadratic
    OBVIOUS
  <2> HIDE DEF pairs
  <2> QED
    BY <1>1, <1>2, <2>1, FS_Subset
<1>6. /\ Corpus!FoldFunctionOnSet(+, 0, q.linear, chosen) \in Int
      /\ Corpus!FoldFunctionOnSet(+, 0, q.quadratic, pairs) \in Int
  <2> HIDE DEF chosen, pairs
  <2> QED
    BY <1>4, <1>5, SumIsInteger
<1> DEFINE x == Corpus!FoldFunctionOnSet(+, 0, q.linear, chosen)
           y == Corpus!FoldFunctionOnSet(+, 0, q.quadratic, pairs)
<1>7. Corpus!Objective(q, a) = q.constant + x + y
  BY Zenon DEF Corpus!Objective
<1>8. x \in Int /\ y \in Int
  BY <1>6
<1> HIDE DEF x, y
<1> QED
  BY <1>1, <1>7, <1>8

\* What the search returns is the first of the best feasible assignments.
LEMMA ExactIsOptimal ==
  ASSUME NEW q, Corpus!QuboShaped(q), Corpus!Exact(q) # << >>
  PROVE  Corpus!Optimal(q, Corpus!Exact(q))
<1> DEFINE n == Corpus!Size(q)
           A == Corpus!Assignments(n)
           N == Len(A)
           F(a) == Corpus!Feasible(q, a)
           o(a) == Corpus!Objective(q, a)
           Keep(a, b) == IF F(a) /\ (b = << >> \/ o(a) < o(b)) THEN a ELSE b
           X == {<< >>} \cup {A[k] : k \in 1 .. N}
           move == [e \in (1 .. N) \X X |-> Keep(A[e[1]], e[2])]
           Scan(s) == s = [k \in 0 .. N |-> IF k = 0 THEN << >> ELSE Keep(A[k], s[k - 1])]
           best == CHOOSE s : Scan(s)
<1>1. n \in Nat \ {0} /\ \A a : o(a) \in Int
  <2>1. q.linear \in Seq(Int) /\ q.linear # << >>
    BY DEF Corpus!QuboShaped
  <2>2. Len(q.linear) \in Nat \ {0}
    BY <2>1, EmptySeq
  <2> QED
    BY <2>2, ObjectiveIsInteger DEF Corpus!Size
<1> HIDE DEF n
<1>2. /\ A \in Seq(Bits(n)) /\ \A b \in Bits(n) : \E k \in 1 .. N : A[k] = b
      /\ \A i, j \in 1 .. N : i < j => Corpus!Before(A[i], A[j])
  BY <1>1, AssignmentsInOrder DEF InOrder
<1>3. N \in Nat /\ \A k \in 1 .. N : A[k] \in Bits(n) /\ A[k] # << >>
  <2>1. N \in Nat /\ \A k \in 1 .. N : A[k] \in Bits(n)
    <3> HIDE DEF A
    <3> QED
      BY <1>2, LenProperties, ElementOfSeq
  <2>2. \A b \in Bits(n) : Len(b) = n
    BY <1>1, BitsAreSequences
  <2>3. Len(<< >>) = 0
    BY EmptySeq
  <2> HIDE DEF A
  <2> QED
    BY <1>1, <2>1, <2>2, <2>3
<1>4. Corpus!Exact(q) = best[N]
  BY Zenon DEF Corpus!Exact, n
<1> HIDE DEF A, N, F, o
<1>5. \E s : Scan(s)
  <2>1. move \in [(1 .. N) \X X -> X] /\ << >> \in X
    OBVIOUS
  <2>2. PICK s : Follows(N, X, << >>, move, s)
    <3> HIDE DEF X, move
    <3> QED
      BY <1>3, <2>1, RecursionUpTo
  <2>3. s \in [0 .. N -> X] /\ s[0] = << >> /\ \A k \in 1 .. N : s[k] = move[<<k, s[k - 1]>>]
    <3> HIDE DEF X, move
    <3> QED
      BY <2>2 DEF Follows
  <2>4. ASSUME NEW k \in 1 .. N PROVE s[k] = Keep(A[k], s[k - 1])
    <3>1. k - 1 \in 0 .. N
      BY <1>3
    <3>2. s[k - 1] \in X
      <4> HIDE DEF X, move
      <4> QED
        BY <2>3, <3>1
    <3>3. <<k, s[k - 1]>> \in (1 .. N) \X X
      <4> HIDE DEF X
      <4> QED
        BY <3>2
    <3> HIDE DEF X, Keep
    <3>4. move[<<k, s[k - 1]>>] = Keep(A[k], s[k - 1])
      BY <3>3
    <3> HIDE DEF move
    <3> QED
      BY <2>3, <3>4
  <2>5. \A k \in 0 .. N : s[k] = IF k = 0 THEN << >> ELSE Keep(A[k], s[k - 1])
    <3> SUFFICES ASSUME NEW k \in 0 .. N, k # 0 PROVE s[k] = Keep(A[k], s[k - 1])
      <4> HIDE DEF X, Keep, move
      <4> QED
        BY <2>3
    <3>1. k \in 1 .. N
      BY <1>3
    <3> QED
      BY <2>4, <3>1
  <2>6. Scan(s)
    <3> HIDE DEF X, Keep, move
    <3> QED
      BY <2>3, <2>5
  <2> HIDE DEF Scan
  <2> QED
    BY <2>6
<1>6. Scan(best)
  <2> HIDE DEF Scan
  <2> QED
    BY <1>5
<1> HIDE DEF best
<1>7. best[0] = << >> /\ \A k \in 1 .. N : best[k] = Keep(A[k], best[k - 1])
  <2>1. 0 \in 0 .. N /\ \A k \in 1 .. N : k \in 0 .. N /\ k # 0
    BY <1>3
  <2> HIDE DEF Keep
  <2> QED
    BY <1>6, <2>1
<1> DEFINE Best(k, b, j) ==
             /\ j \in 1 .. k /\ b = A[j] /\ F(b)
             /\ \A i \in 1 .. k : F(A[i]) => \/ o(b) < o(A[i])
                                             \/ o(b) = o(A[i]) /\ j <= i
           Found(k, b) ==
             \/ b = << >> /\ \A i \in 1 .. k : ~F(A[i])
             \/ \E j \in 1 .. k : Best(k, b, j)
           G == {k \in 0 .. N : Found(k, best[k])}
<1>8. 0 \in G
  <2>1. 0 \in 0 .. N
    BY <1>3
  <2> QED
    BY <1>7, <2>1
<1>9. ASSUME NEW k \in 1 .. N, k - 1 \in G PROVE k \in G
  <2> DEFINE b == best[k - 1]
             c == best[k]
  <2>1. k \in Int /\ k - 1 \in Int /\ \A i \in 1 .. k : i = k \/ i \in 1 .. k - 1
    BY <1>3
  <2>2. Found(k - 1, b)
    BY <1>9
  <2>3. c = Keep(A[k], b) /\ A[k] # << >>
    BY <1>3, <1>7
  <2> HIDE DEF b, c
  <2>4. Found(k, c)
    <3>1. CASE ~F(A[k])
      <4>1. c = b
        BY <2>3, <3>1
      <4>2. CASE b = << >> /\ \A i \in 1 .. k - 1 : ~F(A[i])
        BY <2>1, <3>1, <4>1, <4>2
      <4>3. ASSUME NEW j \in 1 .. k - 1, Best(k - 1, b, j) PROVE Best(k, c, j) /\ j \in 1 .. k
        BY <2>1, <3>1, <4>1, <4>3
      <4> QED
        BY <2>2, <4>2, <4>3
    <3>2. CASE F(A[k]) /\ (b = << >> \/ o(A[k]) < o(b))
      <4>1. c = A[k]
        BY <2>3, <3>2
      <4>2. ASSUME NEW i \in 1 .. k - 1, F(A[i]) PROVE o(A[k]) < o(A[i])
        <5>1. b # << >>
          <6> SUFFICES ASSUME b = << >> PROVE FALSE
            OBVIOUS
          <6>1. \A j \in 1 .. k - 1 : A[j] # << >>
            BY <1>3, <2>1
          <6> QED
            BY <2>2, <4>2, <6>1
        <5>2. o(A[k]) < o(b)
          BY <3>2, <5>1
        <5>3. o(b) <= o(A[i])
          <6>1. PICK j \in 1 .. k - 1 : Best(k - 1, b, j)
            BY <2>2, <5>1
          <6>2. o(b) < o(A[i]) \/ o(b) = o(A[i])
            BY <4>2, <6>1
          <6> QED
            BY <1>1, <6>2
        <5> QED
          BY <1>1, <5>2, <5>3
      <4>3. Best(k, c, k) /\ k \in 1 .. k
        BY <2>1, <3>2, <4>1, <4>2
      <4> HIDE DEF Best
      <4> QED
        BY <4>3
    <3>3. CASE F(A[k]) /\ b # << >> /\ ~(o(A[k]) < o(b))
      <4>1. c = b
        BY <2>3, <3>3
      <4>2. PICK j \in 1 .. k - 1 : Best(k - 1, b, j)
        BY <2>2, <3>3
      <4>3. j \in 1 .. k /\ j <= k
        BY <2>1
      <4>4. o(b) < o(A[k]) \/ o(b) = o(A[k])
        BY <1>1, <3>3
      <4>5. Best(k, c, j)
        BY <2>1, <4>1, <4>2, <4>3, <4>4
      <4> HIDE DEF Best
      <4> QED
        BY <4>3, <4>5
    <3> QED
      BY <3>1, <3>2, <3>3
  <2> HIDE DEF Found
  <2>5. k \in 0 .. N
    BY <1>3
  <2> QED
    BY <2>4, <2>5 DEF c
<1>10. Found(N, best[N])
  <2> HIDE DEF Found
  <2>1. \A k \in 1 .. N : k - 1 \in G => k \in G
    <3> HIDE DEF G
    <3> QED
      BY <1>9
  <2>2. N \in G
    <3> HIDE DEF G
    <3> QED
      BY <1>3, <1>8, <2>1, InductionUpTo
  <2> QED
    BY <2>2
<1>11. PICK j \in 1 .. N : Best(N, best[N], j)
  BY <1>4, <1>10
<1> DEFINE a == best[N]
<1>12. F(a) /\ a = A[j]
  BY <1>11
<1>13. ASSUME NEW b \in Bits(n), F(b)
       PROVE  \/ o(a) < o(b)
              \/ o(a) = o(b) /\ (a = b \/ Corpus!Before(a, b))
  <2>1. PICK i \in 1 .. N : A[i] = b
    BY <1>2 DEF N
  <2>2. o(a) < o(b) \/ (o(a) = o(b) /\ j <= i)
    BY <1>11, <1>13, <2>1
  <2>3. j = i \/ j < i \/ ~(j <= i)
    BY <1>3
  <2>4. j < i => Corpus!Before(a, b)
    BY <1>2, <1>12, <2>1 DEF N
  <2> HIDE DEF a
  <2> QED
    BY <1>12, <2>1, <2>2, <2>3, <2>4
<1> HIDE DEF a
<1> QED
  BY <1>4, <1>12, <1>13 DEF Corpus!Optimal, F, o, n, a, Bits

-----------------------------------------------------------------------------
(* Medians.                                                                 *)

\* The corpus counts as everybody does.
LEMMA CorpusCounts == \A S : Corpus!Cardinality(S) = Cardinality(S)
<1> QED
  BY Zenon DEF Corpus!Cardinality, Cardinality

\* The value at place k has k values or more that are not above it.
LEMMA RankedHasRank ==
  ASSUME NEW s \in Seq(Int), NEW k \in 1 .. Len(s)
  PROVE  Corpus!Ranked(s, k) \in Int /\ Cardinality({i \in 1 .. Len(s) : s[i] <= Corpus!Ranked(s, k)}) >= k
<1> DEFINE n == Len(s)
           V == {s[i] : i \in 1 .. n}
           Below(v) == {i \in 1 .. n : s[i] < v}
           UpTo(v) == {i \in 1 .. n : s[i] <= v}
           Hit == {v \in V : Cardinality(UpTo(v)) >= k}
           P(v) == Cardinality(Below(v)) < k /\ Cardinality(UpTo(v)) >= k
<1>1. n \in Nat /\ DOMAIN s = 1 .. n /\ (\A i \in 1 .. n : s[i] \in Int) /\ k \in Nat /\ 1 <= k /\ k <= n
  BY LenProperties, ElementOfSeq
<1> HIDE DEF n
<1>2. IsFiniteSet(1 .. n) /\ Cardinality(1 .. n) = n
  BY <1>1, FS_Interval
<1>3. V \subseteq Int /\ IsFiniteSet(V)
  <2>1. V \subseteq Int
    BY <1>1
  <2>2. IsFiniteSet(V)
    BY <1>1, <1>2, FiniteImage, Zenon
  <2> QED
    BY <2>1, <2>2
<1>4. ASSUME NEW v PROVE IsFiniteSet(Below(v)) /\ IsFiniteSet(UpTo(v)) /\ Cardinality(UpTo(v)) \in Nat /\ Cardinality(Below(v)) \in Nat
  <2>1. Below(v) \subseteq 1 .. n /\ UpTo(v) \subseteq 1 .. n
    OBVIOUS
  <2> HIDE DEF Below, UpTo
  <2> QED
    BY <1>2, <2>1, FS_Subset, FS_CardinalityType
<1>5. Hit # {}
  <2>1. V # {}
    <3>1. 1 \in 1 .. n
      BY <1>1
    <3> QED
      BY <3>1
  <2>2. PICK v \in V : \A u \in V : u <= v
    <3> HIDE DEF V
    <3> QED
      BY <1>3, <2>1, GreatestOfFinite
  <2>3. UpTo(v) = 1 .. n
    BY <2>2
  <2>4. Cardinality(UpTo(v)) >= k
    <3> HIDE DEF UpTo
    <3> QED
      BY <1>1, <1>2, <2>3
  <2> HIDE DEF UpTo
  <2> QED
    BY <2>2, <2>4
<1>6. PICK v \in Hit : \A u \in Hit : v <= u
  <2>1. Hit \subseteq V
    OBVIOUS
  <2>2. Hit \subseteq Int /\ IsFiniteSet(Hit)
    <3> HIDE DEF Hit, V
    <3> QED
      BY <1>3, <2>1, FS_Subset
  <2> HIDE DEF Hit
  <2> QED
    BY <1>5, <2>2, LeastOfFinite
<1>7. v \in V /\ v \in Int /\ Cardinality(UpTo(v)) >= k
  <2> HIDE DEF V, UpTo
  <2> QED
    BY <1>3, <1>6
<1>8. Cardinality(Below(v)) < k
  <2> DEFINE L == {u \in V : u < v}
  <2>1. CASE L = {}
    <3>1. Below(v) = {}
      BY <2>1
    <3> HIDE DEF Below
    <3> QED
      BY <1>1, <3>1, FS_EmptySet
  <2>2. CASE L # {}
    <3>1. L \subseteq V
      OBVIOUS
    <3>2. L \subseteq Int /\ IsFiniteSet(L)
      <4> HIDE DEF L, V
      <4> QED
        BY <1>3, <3>1, FS_Subset
    <3>3. PICK u \in L : \A w \in L : w <= u
      <4> HIDE DEF L
      <4> QED
        BY <2>2, <3>2, GreatestOfFinite
    <3>4. u \in V /\ u < v /\ u \in Int
      BY <3>2, <3>3
    <3>5. Below(v) = UpTo(u)
      <4>1. ASSUME NEW i \in 1 .. n PROVE s[i] < v <=> s[i] <= u
        <5>1. s[i] \in V /\ s[i] \in Int
          BY <1>1
        <5>2. s[i] < v => s[i] \in L
          BY <5>1
        <5> HIDE DEF L, V
        <5> QED
          BY <1>7, <3>3, <3>4, <5>1, <5>2
      <4> QED
        BY <4>1
    <3>6. u \notin Hit
      <4> HIDE DEF Hit, V
      <4> QED
        BY <1>6, <1>7, <3>4
    <3>7. ~(Cardinality(UpTo(u)) >= k)
      <4> HIDE DEF V, UpTo
      <4> QED
        BY <3>4, <3>6
    <3> HIDE DEF Below, UpTo
    <3> QED
      BY <1>1, <1>4, <3>5, <3>7
  <2> QED
    BY <2>1, <2>2
<1>9. Corpus!Ranked(s, k) = CHOOSE w \in V : P(w)
  BY <1>1, CorpusCounts DEF Corpus!Ranked, Corpus!ToSet
<1>10. P(v)
  <2> HIDE DEF Below, UpTo
  <2> QED
    BY <1>7, <1>8
<1> DEFINE r == Corpus!Ranked(s, k)
<1>11. r \in V /\ P(r)
  <2> HIDE DEF P, V
  <2> QED
    BY <1>7, <1>9, <1>10
<1> HIDE DEF r
<1>12. r \in Int /\ Cardinality(UpTo(r)) >= k
  <2>1. r \in Int
    <3> HIDE DEF V, P
    <3> QED
      BY <1>3, <1>11
  <2> HIDE DEF UpTo, Below
  <2> QED
    BY <1>11, <2>1
<1> QED
  BY <1>12 DEF r, n

\* A fraction gained of what is positive is a gain.
LEMMA ImprovementIsPositive ==
  ASSUME NEW R \in Int, NEW t \in Int, NEW U \in Nat, NEW M \in Nat, R > 0, U > 0, M > 0,
         (2 * R - t) * U >= M * 2 * R
  PROVE  t < 2 * R
<1> SUFFICES ASSUME ~(t < 2 * R) PROVE FALSE
  OBVIOUS
<1> DEFINE d == t - 2 * R
<1>1. d \in Nat /\ 2 * R - t = 0 - d
  OBVIOUS
<1> HIDE DEF d
<1>2. d * U \in Nat /\ (0 - d) * U = 0 - d * U
  BY <1>1
<1>3. M * 2 * R > 0
  <2>1. M * 2 \in Nat /\ M * 2 > 0
    OBVIOUS
  <2> QED
    BY <2>1
<1> QED
  BY <1>1, <1>2, <1>3

\* A run that improves by any fraction is the faster one on half of the seeds.
LEMMA ImprovesIsFaster ==
  ASSUME NEW c, Corpus!CaseShaped(c), Len(c.runs) > 0, Corpus!Improves(c), MinImprovement > 0
  PROVE  Corpus!Faster(c)
<1> DEFINE n == Len(c.runs)
           s == Corpus!Field(c.runs, "runtime")
           R == c.classical.runtime
           k1 == (n + 1) \div 2
           k2 == n \div 2 + 1
           a == Corpus!Ranked(s, k1)
           b == Corpus!Ranked(s, k2)
           Quick == {i \in 1 .. n : s[i] < R}
<1>1. n \in Nat /\ DOMAIN c.runs = 1 .. n /\ n > 0 /\ \A i \in 1 .. n : c.runs[i].runtime \in Int
  <2>1. c.runs \in Seq(Corpus!ToSet(c.runs)) /\ \A r \in Corpus!ToSet(c.runs) : r.runtime \in Int
    BY DEF Corpus!CaseShaped
  <2> QED
    BY <2>1, LenProperties, ElementOfSeq
<1>2. s = [i \in 1 .. n |-> c.runs[i].runtime]
  BY <1>1 DEF Corpus!Field
<1>3. s \in Seq(Int) /\ Len(s) = n
  <2> HIDE DEF n, s
  <2>1. s \in [1 .. n -> Int]
    BY <1>1, <1>2
  <2>2. s \in Seq(Int)
    BY <1>1, <2>1, FunctionIsSequence
  <2>3. DOMAIN s = 1 .. n /\ DOMAIN s = 1 .. Len(s) /\ Len(s) \in Nat
    BY <2>1, <2>2, LenProperties
  <2> QED
    BY <1>1, <2>2, <2>3
<1> HIDE DEF n, s
<1>4. k1 \in 1 .. n /\ k2 \in 1 .. n /\ 2 * k1 >= n /\ k2 >= k1
  BY <1>1
<1>5. R \in Int /\ R > 0 /\ (2 * R - Corpus!Median2(s)) * Unit >= MinImprovement * 2 * R
  BY DEF Corpus!CaseShaped, Corpus!Improves, s
<1>6. Unit \in Nat /\ Unit > 0 /\ MinImprovement \in Nat
  BY ProgramsAssumption DEF Corpus!CorpusAssumption
<1>7. /\ a \in Int /\ Cardinality({i \in 1 .. n : s[i] <= a}) >= k1
      /\ b \in Int /\ Cardinality({i \in 1 .. n : s[i] <= b}) >= k2
  <2> HIDE DEF k1, k2
  <2> QED
    BY <1>3, <1>4, RankedHasRank
<1>8. Corpus!Median2(s) = a + b
  BY <1>3 DEF Corpus!Median2
<1> HIDE DEF a, b, k1, k2, R
<1>9. a + b < 2 * R
  BY <1>5, <1>6, <1>7, <1>8, ImprovementIsPositive
<1>10. PICK v \in Int : v < R /\ Cardinality({i \in 1 .. n : s[i] <= v}) >= k1
  <2>1. a < R \/ b < R
    BY <1>5, <1>7, <1>9
  <2>2. Cardinality({i \in 1 .. n : s[i] <= b}) \in Int
    <3>1. IsFiniteSet(1 .. n)
      BY <1>1, FS_Interval
    <3> DEFINE T == {i \in 1 .. n : s[i] <= b}
    <3>2. T \subseteq 1 .. n
      OBVIOUS
    <3> HIDE DEF T
    <3>3. Cardinality(T) \in Nat
      BY <3>1, <3>2, FS_Subset, FS_CardinalityType
    <3> QED
      BY <3>3 DEF T
  <2>3. Cardinality({i \in 1 .. n : s[i] <= b}) >= k1
    BY <1>1, <1>4, <1>7, <2>2
  <2> QED
    BY <1>7, <2>1, <2>3
<1>11. Cardinality(Quick) \in Nat /\ Cardinality(Quick) >= k1
  <2> DEFINE T == {i \in 1 .. n : s[i] <= v}
  <2>1. T \subseteq Quick /\ Quick \subseteq 1 .. n
    <3>1. \A i \in 1 .. n : s[i] \in Int
      BY <1>1, <1>2
    <3> QED
      BY <1>5, <1>10, <3>1
  <2>2. IsFiniteSet(1 .. n)
    BY <1>1, FS_Interval
  <2>3. Cardinality(T) >= k1
    BY <1>10
  <2> HIDE DEF T, Quick
  <2>4. IsFiniteSet(Quick) /\ IsFiniteSet(T) /\ Cardinality(T) <= Cardinality(Quick)
    BY <2>1, <2>2, FS_Subset
  <2>5. Cardinality(Quick) \in Nat /\ Cardinality(T) \in Nat
    BY <2>4, FS_CardinalityType
  <2> QED
    BY <1>1, <1>4, <2>3, <2>4, <2>5
<1>12. 2 * Cardinality(Quick) >= n
  <2> HIDE DEF Quick
  <2> QED
    BY <1>1, <1>4, <1>11
<1>13. Quick = {i \in DOMAIN c.runs : c.runs[i].runtime < c.classical.runtime}
  BY <1>1, <1>2 DEF R
<1> HIDE DEF Quick
<1> QED
  BY <1>12, <1>13, CorpusCounts DEF Corpus!Faster, n

-----------------------------------------------------------------------------
(* The verdict on the corpus.                                               *)

\* Runs with seeds of their own have as many seeds as there are runs.
LEMMA SeedsCounted ==
  ASSUME NEW c, Corpus!CaseShaped(c), \A i, j \in DOMAIN c.runs : i # j => c.runs[i].seed # c.runs[j].seed,
         Len(c.runs) >= MinSeeds
  PROVE  Corpus!Cardinality({r.seed : r \in Corpus!ToSet(c.runs)}) >= MinSeeds
<1> DEFINE n == Len(c.runs)
           f == [i \in 1 .. n |-> c.runs[i].seed]
           T == {f[i] : i \in 1 .. n}
<1>1. n \in Nat /\ DOMAIN c.runs = 1 .. n
  <2>1. c.runs \in Seq(Corpus!ToSet(c.runs))
    BY DEF Corpus!CaseShaped
  <2> QED
    BY <2>1, LenProperties
<1>2. {r.seed : r \in Corpus!ToSet(c.runs)} = T
  BY <1>1 DEF Corpus!ToSet
<1>3. DOMAIN f = 1 .. n /\ \A i, j \in 1 .. n : i # j => f[i] # f[j]
  BY <1>1
<1>4. f \in [1 .. n -> T]
  OBVIOUS
<1>5. IsFiniteSet(1 .. n) /\ Cardinality(1 .. n) = n
  <2> HIDE DEF n
  <2> QED
    BY <1>1, FS_Interval
<1> HIDE DEF n, f
<1>6. IsFiniteSet(T)
  BY <1>3, <1>5, FiniteImage
<1> HIDE DEF T
<1>7. f \in Injection(1 .. n, T)
  BY <1>3, <1>4 DEF Injection, IsInjective
<1>8. n <= Cardinality(T) /\ Cardinality(T) \in Nat
  BY <1>5, <1>6, <1>7, FS_Injection, FS_CardinalityType
<1>9. MinSeeds \in Nat /\ n >= MinSeeds
  BY ProgramsAssumption DEF Corpus!CorpusAssumption, n
<1>10. Corpus!Cardinality({r.seed : r \in Corpus!ToSet(c.runs)}) = Cardinality(T)
  BY <1>2, CorpusCounts
<1> QED
  BY <1>1, <1>8, <1>9, <1>10

CaseOutcomes == {"QAOA_RESEARCH_ONLY", "QAOA_CANDIDATE_FOR_FURTHER_TESTING", "QAOA_ADDS_NO_MEASURABLE_VALUE"}
Undecided == {"", "HOLD"}

\* The cases before "next" were good, each with the outcome in its place, as long
\* as nothing was held; a verdict rests on all of them.
CorpusInv ==
    /\ corpus \in Corpora /\ next \in Nat \ {0}
    /\ results \in Seq([case : Nat, outcome : CaseOutcomes])
    /\ holds = << >> =>
         /\ next <= Len(corpus) + 1 /\ Len(results) = next - 1
         /\ \A i \in 1 .. next - 1 : /\ corpus[i].typed /\ Corpus!CaseValid(corpus[i])
                                     /\ results[i].outcome = Corpus!Outcome(corpus[i])
    /\ \/ overall \in Undecided
       \/ /\ holds = << >> /\ next = Len(corpus) + 1
          /\ overall = "QAOA_CANDIDATE_FOR_FURTHER_TESTING" =>
               \A i \in 1 .. Len(corpus) : Corpus!Outcome(corpus[i]) = overall

\* The cases are a sequence, and those of the expected types have the shape of a case.
LEMMA CorpusShape ==
  ASSUME corpus \in Corpora
  PROVE  /\ Len(corpus) \in Nat /\ DOMAIN corpus = 1 .. Len(corpus)
         /\ \A i \in 1 .. Len(corpus) : corpus[i].typed => Corpus!CaseShaped(corpus[i])
<1>1. corpus \in Seq(Corpus!ToSet(corpus)) /\ \A c \in Corpus!ToSet(corpus) : c.typed => Corpus!CaseShaped(c)
  BY ProgramsAssumption DEF Corpus!CorpusAssumption
<1> QED
  BY <1>1, LenProperties, ElementOfSeq

LEMMA CorpusInit == Init => CorpusInv
<1> SUFFICES ASSUME Corpus!Init PROVE CorpusInv
  BY DEF Init
<1>1. overall \in Undecided
  BY Zenon DEF Corpus!Init, Undecided
<1>2. /\ corpus \in Corpora /\ next = 1 /\ results = << >>
  BY Zenon DEF Corpus!Init
<1>3. Len(corpus) \in Nat /\ results \in Seq([case : Nat, outcome : CaseOutcomes]) /\ Len(results) = 0
  BY <1>2, CorpusShape, EmptySeq
<1> QED
  BY <1>1, <1>2, <1>3 DEF CorpusInv

LEMMA CorpusKept == CorpusInv /\ [Next]_vars => CorpusInv'
<1> SUFFICES ASSUME CorpusInv, [Next]_vars PROVE CorpusInv'
  OBVIOUS
<1> DEFINE Results == [case : Nat, outcome : CaseOutcomes]
<1>1. /\ corpus \in Corpora /\ next \in Nat \ {0} /\ results \in Seq(Results)
      /\ Len(corpus) \in Nat /\ DOMAIN corpus = 1 .. Len(corpus)
      /\ Len(results) \in Nat /\ DOMAIN results = 1 .. Len(results)
  <2>1. corpus \in Corpora /\ next \in Nat \ {0} /\ results \in Seq(Results)
    BY DEF CorpusInv
  <2> HIDE DEF Results
  <2> QED
    BY <2>1, CorpusShape, LenProperties
<1>2. CASE UNCHANGED corpusVars
  BY <1>2 DEF corpusVars, CorpusInv
<1>3. CASE Corpus!Abort
  <2>1. /\ next <= Len(corpus) /\ next' = Len(corpus) + 1 /\ holds' = Append(holds, 0)
        /\ UNCHANGED <<corpus, results, overall>>
    BY <1>3, Zenon DEF Corpus!Abort, Corpus!Evaluating
  <2>2. holds' # << >>
    BY <2>1
  <2>3. overall \in Undecided
    BY <1>1, <2>1 DEF CorpusInv
  <2>4. next' \in Nat \ {0}
    BY <1>1, <2>1
  <2> QED
    BY <1>1, <2>1, <2>2, <2>3, <2>4 DEF CorpusInv
<1>4. CASE Corpus!EvaluateCase
  <2> DEFINE c == corpus[next]
             r == [case |-> next, outcome |-> Corpus!Outcome(c)]
  <2>1. /\ next <= Len(corpus) /\ c.typed /\ next' = next + 1 /\ UNCHANGED <<corpus, overall>>
        /\ IF Corpus!CaseValid(c) THEN results' = Append(results, r) /\ UNCHANGED holds
           ELSE holds' = Append(holds, next) /\ UNCHANGED results
    BY <1>4, Zenon DEF Corpus!EvaluateCase, Corpus!Evaluating, Corpus!Aborts
  <2>2. overall \in Undecided
    BY <1>1, <2>1 DEF CorpusInv
  <2>3. CASE ~Corpus!CaseValid(c)
    <3>1. holds' # << >> /\ UNCHANGED results
      BY <2>1, <2>3
    <3>2. next' \in Nat \ {0}
      BY <1>1, <2>1
    <3> HIDE DEF c, r
    <3> QED
      BY <1>1, <2>1, <2>2, <3>1, <3>2 DEF CorpusInv
  <2>4. CASE Corpus!CaseValid(c)
    <3>1. results' = Append(results, r) /\ UNCHANGED holds
      BY <2>1, <2>4
    <3>2. r \in Results
      BY <1>1 DEF Corpus!Outcome, CaseOutcomes
    <3>3. /\ results' \in Seq(Results) /\ Len(results') = Len(results) + 1
          /\ results'[Len(results) + 1] = r /\ \A i \in 1 .. Len(results) : results'[i] = results[i]
      <4> HIDE DEF r, Results
      <4> QED
        BY <1>1, <3>1, <3>2, AppendProperties
    <3>4. ASSUME holds = << >>
          PROVE  /\ next' <= Len(corpus) + 1 /\ Len(results') = next' - 1
                 /\ \A i \in 1 .. next' - 1 : /\ corpus[i].typed /\ Corpus!CaseValid(corpus[i])
                                              /\ results'[i].outcome = Corpus!Outcome(corpus[i])
      <4>1. next <= Len(corpus) + 1 /\ Len(results) = next - 1
        BY <3>4 DEF CorpusInv
      <4>2. \A i \in 1 .. next - 1 : /\ corpus[i].typed /\ Corpus!CaseValid(corpus[i])
                                     /\ results[i].outcome = Corpus!Outcome(corpus[i])
        BY <3>4 DEF CorpusInv
      <4>3. results'[next] = r /\ \A i \in 1 .. next - 1 : results'[i] = results[i]
        <5> HIDE DEF r
        <5> QED
          BY <1>1, <3>3, <4>1
      <4>4. ASSUME NEW i \in 1 .. next' - 1
            PROVE  /\ corpus[i].typed /\ Corpus!CaseValid(corpus[i])
                   /\ results'[i].outcome = Corpus!Outcome(corpus[i])
        <5>1. i = next \/ i \in 1 .. next - 1
          BY <1>1, <2>1
        <5>2. CASE i = next
          <6>1. results'[next].outcome = Corpus!Outcome(c)
            BY <4>3
          <6> QED
            BY <2>1, <2>4, <5>2, <6>1
        <5>3. CASE i \in 1 .. next - 1
          BY <4>2, <4>3, <5>3
        <5> QED
          BY <5>1, <5>2, <5>3
      <4> QED
        BY <1>1, <2>1, <3>3, <4>1, <4>4
    <3>5. next' \in Nat \ {0}
      BY <1>1, <2>1
    <3> HIDE DEF r, c
    <3>6. \A i : Corpus!CaseValid(corpus[i])' = Corpus!CaseValid(corpus[i])
      BY <2>1
    <3> QED
      BY <1>1, <2>1, <2>2, <3>1, <3>3, <3>4, <3>5 DEF CorpusInv
  <2> QED
    BY <2>3, <2>4
<1>5. CASE Corpus!Conclude
  <2> DEFINE outcomes == {r.outcome : r \in Corpus!ToSet(results)}
  <2>1. /\ next > Len(corpus) /\ UNCHANGED <<corpus, next, results, holds>>
        /\ \/ overall' = "HOLD"
           \/ /\ holds = << >>
              /\ overall' = "QAOA_CANDIDATE_FOR_FURTHER_TESTING" =>
                   outcomes = {"QAOA_CANDIDATE_FOR_FURTHER_TESTING"}
    BY <1>5, Zenon DEF Corpus!Conclude
  <2>2. CASE overall' = "HOLD"
    <3>1. overall' \in Undecided
      BY <2>2, Zenon DEF Undecided
    <3> QED
      BY <2>1, <3>1 DEF CorpusInv
  <2>3. CASE overall' # "HOLD"
    <3>1. /\ holds = << >> /\ next <= Len(corpus) + 1 /\ Len(results) = next - 1
          /\ \A i \in 1 .. next - 1 : results[i].outcome = Corpus!Outcome(corpus[i])
      BY <2>1, <2>3 DEF CorpusInv
    <3>2. next = Len(corpus) + 1 /\ Len(results) = Len(corpus)
      BY <1>1, <2>1, <3>1
    <3>3. overall' = "QAOA_CANDIDATE_FOR_FURTHER_TESTING" =>
            \A i \in 1 .. Len(corpus) : Corpus!Outcome(corpus[i]) = overall'
      <4> SUFFICES ASSUME overall' = "QAOA_CANDIDATE_FOR_FURTHER_TESTING", NEW i \in 1 .. Len(corpus)
                   PROVE  Corpus!Outcome(corpus[i]) = overall'
        OBVIOUS
      <4>1. results[i] \in Corpus!ToSet(results)
        BY <1>1, <3>2 DEF Corpus!ToSet
      <4>2. results[i].outcome \in outcomes
        BY <4>1
      <4>3. i \in 1 .. next - 1
        BY <1>1, <3>2
      <4> HIDE DEF outcomes
      <4> QED
        BY <2>1, <2>3, <3>1, <4>2, <4>3
    <3> QED
      BY <2>1, <3>1, <3>2, <3>3 DEF CorpusInv
  <2> QED
    BY <2>2, <2>3
<1> QED
  BY <1>2, <1>3, <1>4, <1>5 DEF Next, Rest, vars, Corpus!Next

\* The fixed corpus: a verdict other than a hold rests on every case, each held
\* against the true optimum on enough seeds; one that calls QAOA a candidate says
\* that it found the optimum each time and was faster on half of its seeds
\* (gate1a1_benchmark_corpus.evaluate_corpus).
THEOREM VerdictsAreEarned == Spec => []VerdictEarned
<1>1. CorpusInv => VerdictEarned
  <2> SUFFICES ASSUME CorpusInv, overall \notin Undecided PROVE Corpus!VerdictEarned
    BY Zenon DEF VerdictEarned, Of, Corpus!VerdictEarned, Undecided
  <2>1. /\ Len(corpus) \in Nat /\ DOMAIN corpus = 1 .. Len(corpus)
        /\ \A i \in 1 .. Len(corpus) : corpus[i].typed => Corpus!CaseShaped(corpus[i])
    BY CorpusShape DEF CorpusInv
  <2>2. holds = << >> /\ next = Len(corpus) + 1
    BY DEF CorpusInv
  <2>3. Len(results) = Len(corpus) /\ \A i \in 1 .. Len(corpus) : corpus[i].typed /\ Corpus!CaseValid(corpus[i])
    <3>1. Len(results) = next - 1 /\ \A i \in 1 .. next - 1 : corpus[i].typed /\ Corpus!CaseValid(corpus[i])
      BY <2>2 DEF CorpusInv
    <3>2. next - 1 = Len(corpus)
      BY <2>1, <2>2
    <3> QED
      BY <3>1, <3>2
  <2>4. ASSUME NEW i \in DOMAIN corpus
        PROVE  LET c == corpus[i] IN
               /\ Corpus!Optimal(c.qubo, c.classical.assignment)
               /\ Corpus!Cardinality({r.seed : r \in Corpus!ToSet(c.runs)}) >= MinSeeds
               /\ overall = "QAOA_CANDIDATE_FOR_FURTHER_TESTING" =>
                    /\ \A r \in Corpus!ToSet(c.runs) : Corpus!Optimal(c.qubo, r.assignment)
                    /\ MinImprovement > 0 => Corpus!Faster(c)
    <3> DEFINE c == corpus[i]
    <3>1. Corpus!CaseShaped(c) /\ Corpus!CaseValid(c)
      BY <2>1, <2>3
    <3>a. overall = "QAOA_CANDIDATE_FOR_FURTHER_TESTING" => Corpus!Outcome(c) = "QAOA_CANDIDATE_FOR_FURTHER_TESTING"
      BY <2>1 DEF CorpusInv
    <3> HIDE DEF c
    <3>2. Corpus!Optimal(c.qubo, c.classical.assignment)
      BY <3>1, ExactIsOptimal DEF Corpus!CaseShaped, Corpus!CaseValid
    <3>3. Corpus!Cardinality({r.seed : r \in Corpus!ToSet(c.runs)}) >= MinSeeds
      BY <3>1, SeedsCounted DEF Corpus!CaseValid
    <3>4. ASSUME overall = "QAOA_CANDIDATE_FOR_FURTHER_TESTING"
          PROVE  /\ \A r \in Corpus!ToSet(c.runs) : Corpus!Optimal(c.qubo, r.assignment)
                 /\ MinImprovement > 0 => Corpus!Faster(c)
      <4>1. /\ \A r \in Corpus!ToSet(c.runs) : r.assignment = c.classical.assignment
            /\ Corpus!Improves(c)
        BY <3>a, <3>4 DEF Corpus!Outcome
      <4>2. Len(c.runs) > 0
        <5>1. Len(c.runs) \in Nat
          <6>1. c.runs \in Seq(Corpus!ToSet(c.runs))
            BY <3>1 DEF Corpus!CaseShaped
          <6> QED
            BY <6>1, LenProperties
        <5>2. Len(c.runs) >= MinSeeds /\ MinSeeds \in Nat \ {0}
          BY <3>1, ProgramsAssumption DEF Corpus!CaseValid, Corpus!CorpusAssumption
        <5> QED
          BY <5>1, <5>2
      <4> QED
        BY <3>1, <3>2, <4>1, <4>2, ImprovesIsFaster
    <3> QED
      BY <3>2, <3>3, <3>4 DEF c
  <2> QED
    BY <2>3, <2>4 DEF Corpus!VerdictEarned
<1> QED
  BY <1>1, CorpusInit, CorpusKept, PTL DEF Spec

=============================================================================
