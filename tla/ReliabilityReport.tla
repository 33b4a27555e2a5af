-------------------------- MODULE ReliabilityReport --------------------------
(***************************************************************************)
(* What the runtime and Theonoe derive from a finished density run: the    *)
(* provenance that the run's result carries and checks, the noise-impact   *)
(* report against an ideal replay, the bare-reliability report that        *)
(* answers a goal, and the protection requirement drawn from it            *)
(* (runtime.py, noise_impact.py, bare_reliability.py,                      *)
(* protection_requirement.py).  Every artifact is built by one function    *)
(* and examined again by its constructor: a constructor that turns down    *)
(* what the builder made raises ValueError.                                *)
(*                                                                         *)
(* Probabilities are weights over the trace of the density matrix.  The    *)
(* run has no schedule and no idle decoherence (ScheduledExecution has     *)
(* them), so both stay absent in every pair.  Fixed texts (assumptions,    *)
(* limitations, reasons) follow from the fields that are kept.             *)
(***************************************************************************)
EXTENDS LogicalRun

CONSTANTS
    Questions(_),   \* what is asked of a run with that many leaves:
                    \* [goal |-> [maximum, confident], acceptance |-> [arity, outcomes], kind]
    Tolerance       \* BARE_RELIABILITY_ABS_TOLERANCE; a fraction <<n, d>>, as are the goals

ASSUME ToleranceAssumption == Tolerance \in Nat \X (Nat \ {0})

\* None is no question and no part of one, and goals are fractions.
ASSUME QuestionsAssumption ==
    \A c \in Circuits : \A l \in Leaves(c) :
        /\ NoEvidence \notin Questions(Len(l))
        /\ \A q \in Questions(Len(l)) :
              q.goal.maximum \in Nat \X Nat /\ q.acceptance.outcomes # NoEvidence

\* ... nor is it a distribution, the distributions of a run, or what is told of them.
ASSUME OutputsAreEvidence ==
    /\ \A c \in Circuits : \A l \in Leaves(c) :
          LET distributions == [Outcomes(l) -> Int]
          IN  /\ NoEvidence \notin distributions
              /\ NoEvidence \notin [physical : distributions, reported : distributions]
    /\ NoEvidence \notin [physical_output_tvd : Int, readout_distortion_tvd : Int]
    /\ NoEvidence \notin Int \X Int

VARIABLES
    provenance,  \* DensityExecutionProvenanceSnapshot
    impact,      \* NoiseImpactReport
    question,    \* goal, acceptance and distribution kind of the bare report
    bare,        \* BareReliabilityReport
    need,        \* ProtectionRequirementReport; all NoEvidence before they are built
    refusal      \* "none", or what raised ValueError

artifacts == <<provenance, impact, question, bare, need, refusal>>

reportVars == <<runVars, artifacts>>

WeightOf(distribution) == MapThenSumSet(LAMBDA o : distribution[o], DOMAIN distribution)

Published == status = "published" /\ Engine = "density" /\ refusal = "none"

HasDistributions == output # NoEvidence

-----------------------------------------------------------------------------
(* Provenance and coverage.                                                *)

ExecutedFeatures(bindings, readout) ==
    {f \in {"gate channels", "readout errors"} :
        IF f = "gate channels" THEN bindings # {} ELSE readout # NoEvidence}

\* A two-qubit gate has no noise model.
CircuitIssues == IF \E i \in DOMAIN circuit : Acts(i, {"CX"}) THEN {"ideal-only CX"} ELSE {}

\* Tuples without repetition in a canonical order: sets.
Coverage(executed, issues) == [executed |-> executed, issues |-> issues]

BuiltCoverageSilent ==      \* mutant: CX is not an issue
    Coverage(ExecutedFeatures(DOMAIN request.noise, channel), {})
\* Once from the request that was executed, ...
BuiltCoverage == Coverage(ExecutedFeatures(DOMAIN request.noise, channel), CircuitIssues)

\* ... and once from the provenance that claims it.
DerivedCoverage(p) == Coverage(ExecutedFeatures(p.bindings, p.readout), CircuitIssues)

\* Whether two distributions are equal; readout multiplies the weights' sum.
SameDistribution(left, right) ==
    \A o \in DOMAIN left : left[o] * WeightOf(right) = right[o] * WeightOf(left)

ReportedMatches == SameDistribution(output.physical, output.reported)

Provenance ==
    [bindings   |-> DOMAIN request.noise,
     readout    |-> channel,
     gateEvents |-> [i \in DOMAIN noiseEvents |-> noiseEvents[i].op],
     results    |-> IF HasDistributions THEN leaves ELSE <<>>,
     sizes      |-> IF HasDistributions
                    THEN {Cardinality(DOMAIN output.physical), Cardinality(DOMAIN output.reported)}
                    ELSE {},
     matches    |-> IF HasDistributions THEN ReportedMatches ELSE NoEvidence,
     coverage   |-> BuiltCoverage]

SnapshotAccepted(p) ==
    IF p.sizes = {} THEN p.results = <<>> /\ p.matches = NoEvidence
    ELSE Cardinality(p.sizes) = 1 /\ p.results # <<>> /\ p.matches \in BOOLEAN

ResultAccepted(p) ==
    /\ p.gateEvents = [i \in DOMAIN noiseEvents |-> noiseEvents[i].op]
    /\ HasDistributions <=> leaves # <<>>
    /\ HasDistributions =>
          /\ p.results = leaves
          /\ p.sizes = {Cardinality(Outcomes(leaves))}
          /\ p.matches = ReportedMatches
          /\ p.readout = NoEvidence => ReportedMatches
    /\ ~ HasDistributions => p.results = <<>> /\ p.sizes = {}
    /\ p.coverage.executed = DerivedCoverage(p).executed
    /\ DerivedCoverage(p).issues \subseteq p.coverage.issues

\* The last step of the run: its result is constructed with its provenance.
RecordProvenance ==
    /\ Published /\ provenance = NoEvidence
    /\ LET p == Provenance IN
       IF SnapshotAccepted(p) /\ ResultAccepted(p)
       THEN provenance' = p /\ UNCHANGED refusal
       ELSE refusal' = "provenance" /\ UNCHANGED provenance
    /\ UNCHANGED <<runVars, impact, question, bare, need>>

-----------------------------------------------------------------------------
(* The noise impact: the run against a replay of its circuit with no       *)
(* noise.  The replay is scaled to the trace of the run's matrix.          *)

ReplayStep(matrix, i) ==
    CASE Acts(i, {"MEASURE"}) -> matrix
      [] Acts(i, {"RESET"})   -> DensityReset(matrix, circuit[i].targets[1])
      [] OTHER                -> IdealDensity(matrix, circuit[i])

TraceOf(matrix) == WeightOf(Diagonal(matrix))

IdealReplay ==
    LET replay == FoldLeftDomain(ReplayStep, GroundDensity, circuit)
    IN  [row \in BasisStates |-> [col \in BasisStates |->
            replay[row][col] * (TraceOf(density) \div TraceOf(replay))]]

Magnitude(n) == IF n < 0 THEN - n ELSE n

Entries == BasisStates \X BasisStates
OffDiagonal == {e \in Entries : e[1] # e[2]}

Purity(matrix) ==
    SumFunction([e \in Entries |-> matrix[e[1]][e[2]] * matrix[e[2]][e[1]]])

Coherence(matrix) == SumFunction([e \in OffDiagonal |-> Magnitude(matrix[e[1]][e[2]])])

Inspection(matrix) ==
    [populations |-> Diagonal(matrix), purity |-> Purity(matrix), coherence |-> Coherence(matrix)]

InspectionAccepted(report) ==
    LET total == TraceOf(density)
    IN  /\ \A b \in BasisStates : report.populations[b] >= 0
        /\ WeightOf(report.populations) = total
        /\ report.purity <= total * total
        /\ report.purity * Cardinality(BasisStates) >= total * total

\* Twice the distance.
TotalVariation(left, right) ==
    SumFunction([o \in DOMAIN left |-> Magnitude(left[o] - right[o])])

\* The square of the distance.
HilbertSchmidt(left, right) ==
    SumFunction([e \in Entries |->
        LET gap == left[e[1]][e[2]] - right[e[1]][e[2]] IN gap * gap])

CoherenceChange(left, right) ==
    SumFunction([e \in OffDiagonal |->
        Magnitude(Magnitude(left[e[1]][e[2]]) - Magnitude(right[e[1]][e[2]]))])

StateMetrics(ideal) ==
    [hilbert_schmidt  |-> HilbertSchmidt(density, ideal),
     population_tvd   |-> TotalVariation(Diagonal(ideal), Diagonal(density)),
     delta_coherence  |-> Coherence(density) - Coherence(ideal),
     coherence_change |-> CoherenceChange(density, ideal),
     delta_purity     |-> Purity(density) - Purity(ideal)]

\* Readout multiplied the reported weights by this.
ReadoutScale == WeightOf(output.reported) \div WeightOf(output.physical)

OutputMetricsFromReport(physical) ==    \* mutant: readout noise counted as damage
    [physical_output_tvd |-> TotalVariation([o \in DOMAIN physical |-> physical[o] * ReadoutScale],
                                            output.reported),
     readout_distortion_tvd |-> 0]
OutputMetrics(physical) ==
    [physical_output_tvd |-> TotalVariation(physical, output.physical),
     readout_distortion_tvd |->
        TotalVariation([o \in DOMAIN physical |-> output.physical[o] * ReadoutScale],
                       output.reported)]

GateFinding(event) == [kind |-> "gate", op |-> event.op, slot |-> event.slot]
ReadoutFinding(distortion) == [kind |-> "readout", distortion |-> distortion]

FindingsOf(outputs) ==
    [i \in DOMAIN noiseEvents |-> GateFinding(noiseEvents[i])]
        \o (IF channel # NoEvidence /\ outputs # NoEvidence
            THEN <<ReadoutFinding(outputs.readout_distortion_tvd)>> ELSE <<>>)

NoiseImpact ==
    LET ideal == IdealReplay
        physical == Project(UniqueWeights(ideal))
        outputs == IF HasDistributions THEN OutputMetrics(physical) ELSE NoEvidence
    IN  [ideal    |-> Inspection(ideal),
         noisy    |-> Inspection(density),
         state    |-> StateMetrics(ideal),
         outputs  |-> outputs,
         physical |-> IF HasDistributions THEN physical ELSE NoEvidence,
         findings |-> FindingsOf(outputs)]

ImpactAccepted(report) ==
    /\ InspectionAccepted(report.ideal) /\ InspectionAccepted(report.noisy)
    /\ report.physical = NoEvidence <=> ~ HasDistributions
    /\ report.outputs = NoEvidence <=> ~ HasDistributions
    /\ HasDistributions => WeightOf(report.physical) = TraceOf(density)
                           /\ WeightOf(output.physical) = TraceOf(density)

BuildImpact ==
    /\ Published /\ provenance # NoEvidence /\ impact = NoEvidence
    /\ LET report == NoiseImpact IN
       IF ImpactAccepted(report)
       THEN impact' = report /\ UNCHANGED refusal
       ELSE refusal' = "noise impact" /\ UNCHANGED impact
    /\ UNCHANGED <<runVars, provenance, question, bare, need>>

-----------------------------------------------------------------------------
(* The bare reliability of the run for a question, whose first step is the *)
(* noise impact above.                                                     *)

Selected ==
    IF question'.kind = "physical" THEN output.physical ELSE output.reported

\* An outcome's place in a distribution: its first leaf is the lowest bit.
OutcomeIndex(outcome) == FoldRight(LAMBDA bit, places : bit + 2 * places, outcome, 0)

AcceptedIndicesHighFirst(outcomes) ==   \* mutant: the first leaf is the highest bit
    {MapThenSumSet(LAMBDA i : o[i] * 2 ^ (Len(o) - i), DOMAIN o) : o \in outcomes}
AcceptedIndices(outcomes) == {OutcomeIndex(o) : o \in outcomes}

SuccessWeight(distribution, outcomes) ==
    MapThenSumSet(LAMBDA o : distribution[o],
                  {o \in DOMAIN distribution : OutcomeIndex(o) \in AcceptedIndices(outcomes)})

\* p compared with q plus a signed multiple of the tolerance, all fractions.
Above(p, q, sign) ==
    p[1] * q[2] * Tolerance[2] > p[2] * (q[1] * Tolerance[2] + sign * Tolerance[1] * q[2])
Below(p, q, sign) ==
    p[1] * q[2] * Tolerance[2] < p[2] * (q[1] * Tolerance[2] + sign * Tolerance[1] * q[2])

VerdictLoose(failure, maximum) ==   \* mutant: the tolerance is given to the program
    IF Below(failure, maximum, 1) THEN "satisfied"
    ELSE IF Above(failure, maximum, 1) THEN "violated" ELSE "not evaluated"
Verdict(failure, maximum) ==
    IF Below(failure, maximum, -1) THEN "satisfied"
    ELSE IF Above(failure, maximum, 1) THEN "violated" ELSE "not evaluated"

BareReport(answer, verdict, bound, failure, issues) ==
    [status |-> answer, verdict |-> verdict, bound |-> bound, failure |-> failure,
     issues |-> issues]

\* BareReliabilityReport.__post_init__
BareAccepted(report) ==
    LET assessed == report.failure # NoEvidence
    IN  /\ assessed => report.failure[1] \in 0 .. report.failure[2]
        /\ report.bound # NoEvidence <=> assessed
        /\ report.status = "supported" =>
              assessed /\ report.issues = {} /\ ~ question'.goal.confident
        /\ report.status # "supported" => report.verdict = "not evaluated"
        /\ report.status = "indeterminate" => question'.goal.confident
        /\ report.status = "unsupported" => ~ assessed

Assess(report) ==
    /\ IF BareAccepted(report)
       THEN bare' = report /\ UNCHANGED refusal
       ELSE refusal' = "bare reliability" /\ UNCHANGED bare
    /\ UNCHANGED <<runVars, provenance, impact, need>>

\* What the constructors of the criterion and of the goal let through.
WellFormed(q) ==
    /\ q.acceptance.arity >= 1
    /\ q.acceptance.outcomes \subseteq [1 .. q.acceptance.arity -> {0, 1}]
    /\ q.goal.maximum[1] \in 1 .. q.goal.maximum[2]

AskedEarly ==           \* mutant: before the noise impact is there
    /\ Published /\ provenance # NoEvidence /\ question = NoEvidence
    /\ question' \in {q \in Questions(Len(leaves)) : WellFormed(q)}
Asked ==
    /\ Published /\ impact # NoEvidence /\ question = NoEvidence
    /\ question' \in {q \in Questions(Len(leaves)) : WellFormed(q)}

AssessUnsupported ==
    /\ Asked
    /\ quantum \/ ~ HasDistributions
    /\ Assess(BareReport("unsupported", "not evaluated", NoEvidence, NoEvidence, {}))

Assessable == Asked /\ ~ quantum /\ HasDistributions

\* The criterion has the arity of the leaves, and its result identifiers are unique.
Bindable == question'.acceptance.arity = Len(leaves) /\ IsInjective(leaves)

RefuseCriterion ==
    /\ Assessable /\ ~ Bindable
    /\ refusal' = "criterion"
    /\ UNCHANGED <<runVars, provenance, impact, bare, need>>

Failure ==
    <<WeightOf(Selected) - SuccessWeight(Selected, question'.acceptance.outcomes),
      WeightOf(Selected)>>

\* Coverage is recorded with every run, and unsupported_features is empty in all that
\* is recorded: the answers to their absence and presence are never given.
AssessIncomplete ==
    /\ Assessable /\ Bindable /\ provenance.coverage.issues # {}
    /\ Assess(BareReport("incomplete", "not evaluated", question'.acceptance.outcomes, Failure,
                         provenance.coverage.issues))

AssessIndeterminate ==
    /\ Assessable /\ Bindable /\ provenance.coverage.issues = {} /\ question'.goal.confident
    /\ Assess(BareReport("indeterminate", "not evaluated", question'.acceptance.outcomes,
                         Failure, {}))

AssessSupported ==
    /\ Assessable /\ Bindable /\ provenance.coverage.issues = {} /\ ~ question'.goal.confident
    /\ Assess(BareReport("supported", Verdict(Failure, question'.goal.maximum),
                         question'.acceptance.outcomes, Failure, {}))

-----------------------------------------------------------------------------
(* The protection requirement: how far the failure is from the goal.       *)

NeedVerdict ==
    IF bare.status # "supported" THEN "not assessed"
    ELSE IF bare.verdict = "violated" THEN "required" ELSE "not required"

\* failure - goal and failure / goal as fractions over a common denominator.
Requirement ==
    LET maximum == question.goal.maximum
    IN  [excess   |-> <<bare.failure[1] * maximum[2] - bare.failure[2] * maximum[1],
                        bare.failure[2] * maximum[2]>>,
         suppress |-> IF bare.verdict = "violated"
                      THEN <<bare.failure[1] * maximum[2], bare.failure[2] * maximum[1]>>
                      ELSE NoEvidence]

NeedReport ==
    [verdict |-> NeedVerdict,
     metrics |-> IF bare.status = "supported" THEN Requirement ELSE NoEvidence]

NeedAccepted(report) ==
    report.verdict = "required" =>
        /\ report.metrics.excess[1] > 0
        /\ report.metrics.suppress[1] > report.metrics.suppress[2]

BuildNeed ==
    /\ Published /\ bare # NoEvidence /\ need = NoEvidence
    /\ IF NeedAccepted(NeedReport)
       THEN need' = NeedReport /\ UNCHANGED refusal
       ELSE refusal' = "protection requirement" /\ UNCHANGED need
    /\ UNCHANGED <<runVars, provenance, impact, question, bare>>

-----------------------------------------------------------------------------
ReportInit ==
    /\ RunInit
    /\ provenance = NoEvidence /\ impact = NoEvidence /\ question = NoEvidence
    /\ bare = NoEvidence /\ need = NoEvidence /\ refusal = "none"

ReportStep ==
    \/ RunStep /\ UNCHANGED artifacts
    \/ RecordProvenance \/ BuildImpact
    \/ AssessUnsupported \/ RefuseCriterion
    \/ AssessIncomplete \/ AssessIndeterminate \/ AssessSupported
    \/ BuildNeed

ReportEnded ==
    /\ RunEnded
    /\ ~ Published \/ need # NoEvidence
    /\ UNCHANGED reportVars

ReportNext == ReportStep \/ ReportEnded

\* The reports are built by synchronous calls.
ReportSpec == ReportInit /\ [][ReportNext]_reportVars /\ WF_reportVars(ReportStep)

-----------------------------------------------------------------------------
(* Reference definitions for the properties.                               *)

\* The weights of the leaves as a reader of the reports sees them: every
\* observation of the mixture of pure trajectories is read through the channel once.
Reading(bit, seen) ==
    IF channel = NoEvidence THEN (IF bit = seen THEN 1 ELSE 0) ELSE channel[bit][seen]

Likelihood(b, o) ==
    FoldLeftDomain(LAMBDA w, i : w * Reading(IF SlotOf(leaves[i]) \in b THEN 1 ELSE 0, o[i]),
                   1, leaves)

TrueReport ==
    LET mixture == Mixture(Len(circuit))
    IN  [o \in Outcomes(leaves) |->
            MapThenSumSet(LAMBDA b : mixture[b][b] * Likelihood(b, o), BasisStates)]

Believed == IF question.kind = "physical" THEN Truth ELSE TrueReport

Rejected(distribution) ==
    MapThenSumSet(LAMBDA o : distribution[o],
                  {o \in DOMAIN distribution : o \notin question.acceptance.outcomes})

Exceeds(p, q) == p[1] * q[2] > q[1] * p[2]

\* Operations whose noise the model covers.
Covered(i) == ~ Acts(i, {"CX"})

-----------------------------------------------------------------------------
(* Properties.                                                             *)

\* The shapes of the artifacts, and the order in which they come to be.
ReportTypeOK ==
    /\ impact # NoEvidence => provenance # NoEvidence
    /\ bare # NoEvidence => impact # NoEvidence /\ question \in Questions(Len(leaves))
    /\ need # NoEvidence => bare # NoEvidence
    /\ bare # NoEvidence =>
          /\ bare.status \in {"supported", "incomplete", "indeterminate", "unsupported"}
          /\ bare.verdict \in {"satisfied", "violated", "not evaluated"}
    /\ refusal \in {"none", "provenance", "noise impact", "criterion", "bare reliability",
                   "protection requirement"}

\* What one function builds, the constructor that examines it again accepts, for
\* every run: the checks on both sides of each artifact agree.  Only a criterion
\* that does not fit the program's leaves is turned down.
NoReportTurnedDown ==
    /\ refusal \in {"none", "criterion"}
    /\ refusal = "criterion" =>
          question.acceptance.arity # Len(leaves) \/ ~ IsInjective(leaves)

\* A verdict is what the trajectories say: over the weight of every outcome that
\* is not accepted, in the distribution asked for, a goal is called met or
\* violated only when it is, undecided only within the tolerance, and nothing is
\* said of a circuit with an operation whose noise the model leaves out, of a
\* goal with a confidence, or of quantum returns.
VerdictIsJustified ==
    bare # NoEvidence =>
        LET goal == question.goal.maximum
            risk == <<Rejected(Believed), WeightOf(Believed)>>
        IN  /\ bare.verdict = "satisfied" => Exceeds(goal, risk)
            /\ bare.verdict = "violated"  => Exceeds(risk, goal)
            /\ bare.status = "supported" /\ bare.verdict = "not evaluated" =>
                  ~ Above(risk, goal, 1) /\ ~ Below(risk, goal, -1)
            /\ (bare.status = "supported") <=>
                  (/\ leaves # <<>> /\ ~ quantum /\ ~ question.goal.confident
                   /\ \A i \in DOMAIN circuit : Covered(i))

\* Protection is called for exactly when the program's weight outside the accepted
\* outcomes is beyond the goal and the tolerance, and by an amount that brings it
\* down to the goal: risk - excess = goal, and risk / suppression = goal.
NeedClosesTheGap ==
    need # NoEvidence /\ need.verdict # "not assessed" =>
        LET goal == question.goal.maximum
            risk == <<Rejected(Believed), WeightOf(Believed)>>
            excess == need.metrics.excess
        IN  /\ (need.verdict = "required") <=> Above(risk, goal, 1)
            /\ (risk[1] * excess[2] - excess[1] * risk[2]) * goal[2]
                    = goal[1] * risk[2] * excess[2]
            /\ need.verdict = "required" =>
                  LET factor == need.metrics.suppress
                  IN  risk[1] * factor[2] * goal[2] = risk[2] * factor[1] * goal[1]

\* The two reports on a goal follow from the trajectories.
ReportsAreJustified == VerdictIsJustified /\ NeedClosesTheGap

\* The impact report blames the state's damage on the gates whose channels ran and
\* on nothing else: without such an event the noisy and the ideal state and their
\* outputs are the same whatever the readout does, without a readout channel the
\* reported output is not distorted, and damage seen in the outputs is damage of the
\* populations, no larger (the outputs are sums of populations).
DamageIsAttributed ==
    impact # NoEvidence =>
        LET NoEvent == ~ \E i \in DOMAIN circuit : Acts(i, DOMAIN request.noise)
        IN  /\ NoEvent => /\ \A name \in DOMAIN impact.state : impact.state[name] = 0
                          /\ impact.outputs # NoEvidence => impact.outputs.physical_output_tvd = 0
            /\ channel = NoEvidence /\ impact.outputs # NoEvidence =>
                  impact.outputs.readout_distortion_tvd = 0
            /\ impact.outputs # NoEvidence =>
                  impact.outputs.physical_output_tvd <= impact.state.population_tvd
            /\ Magnitude(impact.state.delta_coherence) <= impact.state.coherence_change
            /\ {f.op : f \in {g \in ToSet(impact.findings) : g.kind = "gate"}}
                  = {i \in DOMAIN circuit : Acts(i, DOMAIN request.noise)}

=============================================================================
