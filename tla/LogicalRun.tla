----------------------------- MODULE LogicalRun -----------------------------
(***************************************************************************)
(* A logical program's run (packages/runtime, runtime.py): a compiled      *)
(* circuit goes through one of the engines, and the readout plan's ordered *)
(* classical leaves are published as an exact distribution, as sampled     *)
(* shots with counts, or as a physical and a reported distribution.        *)
(*                                                                         *)
(* A leaf is the observation that declared the returned result; a program  *)
(* may return the same result more than once.  In a compiled logical       *)
(* circuit every observation has one target.                               *)
(***************************************************************************)
EXTENDS CircuitExecution

CONSTANTS
    Leaves(_),       \* the sequences of observations a circuit's program returns
    ReadoutChannels  \* NoEvidence, or weights of reported bit given actual bit

\* A program returns results of its observations.
ASSUME LeavesAreObservations ==
    \A c \in Circuits : \A l \in Leaves(c) :
        l \in Seq({i \in DOMAIN c : c[i].opcode = "MEASURE"})

\* A reported bit has one total weight, whichever the actual bit.
ASSUME ReadoutChannelsAreStochastic ==
    \A c \in ReadoutChannels \ {NoEvidence} :
        /\ c \in [{0, 1} -> [{0, 1} -> Nat]]
        /\ c[0][0] + c[0][1] = c[1][0] + c[1][1]

VARIABLES
    leaves,      \* readout.classical_return_ids(); never assigned
    quantum,     \* whether quantum values are returned too; never assigned
    channel,     \* the noise model's readout channel; never assigned
    output       \* the published classical output, NoEvidence before

runVars == <<executionVars, leaves, quantum, channel, output>>

SlotOf(leaf) == circuit[leaf].targets[1]

LeafSlots == [i \in DOMAIN leaves |-> SlotOf(leaves[i])]

-----------------------------------------------------------------------------
(* The three projections of a finished simulation onto the leaves.         *)

ExactDistribution == Probabilities(state, LeafSlots)

\* The outcomes of a shot, found by the observations' operation identifiers.
ShotOutcomeInOrder(shot) ==     \* mutant: by the order of measurement
    [i \in DOMAIN leaves |-> shot.measured[i].outcome[1]]
ShotOutcome(shot) ==
    [i \in DOMAIN leaves |->
        (CHOOSE m \in ToSet(shot.measured) : m.op = leaves[i]).outcome[1]]

SampledOutput ==
    LET outcomes == [n \in DOMAIN shots |-> ShotOutcome(shots[n])]
    IN  [shots |-> outcomes,
         counts |-> [o \in Outcomes(leaves) |->
                        Cardinality({n \in DOMAIN shots : outcomes[n] = o})]]

\* The distinct results returned, and their joint distribution.
UniqueLeaves == ToSet(leaves)
UniqueOutcomes == [UniqueLeaves -> {0, 1}]

UniqueWeights(matrix) ==
    [u \in UniqueOutcomes |->
        MapThenSumSet(LAMBDA b : Diagonal(matrix)[b],
                      {b \in BasisStates : \A leaf \in UniqueLeaves :
                          u[leaf] = IF SlotOf(leaf) \in b THEN 1 ELSE 0})]

\* The distribution of the leaves, repetitions included.
Project(weights) ==
    [o \in Outcomes(leaves) |->
        MapThenSumSet(LAMBDA u : weights[u],
                      {u \in UniqueOutcomes : \A i \in DOMAIN leaves : o[i] = u[leaves[i]]})]

\* The chance of a joint report: the channel acts on each bit by itself.
Conditional(reported, actual) ==
    MapThenFoldSet(LAMBDA x, y : x * y, 1,
                   LAMBDA bit : channel[actual[bit]][reported[bit]],
                   LAMBDA bits : CHOOSE bit \in bits : TRUE,
                   DOMAIN actual)

ApplyReadout(weights) ==
    [reported \in DOMAIN weights |->
        MapThenSumSet(LAMBDA actual : weights[actual] * Conditional(reported, actual),
                      DOMAIN weights)]

ReportedPerLeaf ==              \* mutant: noise on every leaf, not on every observation
    IF channel = NoEvidence THEN Project(UniqueWeights(density))
    ELSE ApplyReadout(Project(UniqueWeights(density)))
Reported ==
    IF channel = NoEvidence THEN Project(UniqueWeights(density))
    ELSE Project(ApplyReadout(UniqueWeights(density)))

-----------------------------------------------------------------------------
(* The run.                                                                *)

RunInit ==
    /\ ExecutionInit
    /\ leaves \in Leaves(circuit)
    \* an exact run publishes the same whether quantum values are returned or not
    /\ quantum \in IF Engine = "exact" THEN {FALSE} ELSE BOOLEAN
    /\ channel \in IF Engine = "density" THEN ReadoutChannels ELSE {NoEvidence}
    /\ output = NoEvidence

\* Sampled execution has no single state to hold a handle into.
QuantumSampled == Engine = "sampled" /\ quantum

Simulate ==
    /\ ~ QuantumSampled
    /\ EngineStep
    /\ UNCHANGED <<leaves, quantum, channel, output>>

RefuseQuantumReturn ==
    /\ status = "requested" /\ QuantumSampled
    /\ Abort("quantum return")
    /\ UNCHANGED <<leaves, quantum, channel, output>>

Publish(artifact) ==
    /\ output' = IF leaves = <<>> THEN NoEvidence ELSE artifact
    /\ status' = "published"

\* SampledClassicalResult demands that its result identifiers are unique.
DuplicateLeaf == ~ IsInjective(leaves)

FinishSampled ==
    /\ Engine = "sampled"
    /\ IF DuplicateLeaf
       THEN status' = "duplicate result" /\ UNCHANGED output
       ELSE Publish(SampledOutput)

FinishRun ==
    /\ status = "finished"
    /\ \/ Engine = "exact" /\ Publish(ExactDistribution)
       \/ FinishSampled
       \/ Engine = "density" /\ Publish([physical |-> Project(UniqueWeights(density)),
                                         reported |-> Reported])
    /\ UNCHANGED <<circuit, request, pc, state, density, observed, lossy, measured, resets,
                   shots, trace, noiseEvents, leaves, quantum, channel>>

RunStep == Simulate \/ RefuseQuantumReturn \/ FinishRun

RunEnded == Ended /\ status # "finished"

RunDone == RunEnded /\ UNCHANGED runVars

RunNext == RunStep \/ RunDone

\* run_logical_program and run_logical_module are synchronous calls.
RunSpec == RunInit /\ [][RunNext]_runVars /\ WF_runVars(RunStep)

-----------------------------------------------------------------------------
(* Properties.                                                             *)

\* The diagonal of the mixture of pure trajectories over the whole circuit: what
\* a distribution of terminal observations has to be.
Truth ==
    LET mixture == Mixture(Len(circuit))
    IN  [o \in Outcomes(leaves) |->
            MapThenSumSet(LAMBDA b : mixture[b][b],
                          {b \in BasisStates : Outcome(b, LeafSlots) = o})]

\* The shapes of the engines' values, and of an output once it is published.
RunTypeOK ==
    /\ ExecutionTypeOK
    /\ output # NoEvidence =>
        /\ status = "published" /\ leaves # <<>>
        /\ Engine = "exact" => output \in [Outcomes(leaves) -> Nat]
        /\ Engine = "sampled" => /\ \A n \in DOMAIN output.shots :
                                       output.shots[n] \in Outcomes(leaves)
                                 /\ output.counts \in [Outcomes(leaves) -> 0 .. request.shots]
        /\ Engine = "density" => output.physical \in [Outcomes(leaves) -> Nat]

\* The three modes publish one joint distribution of the leaves, repetitions
\* included: the exact engine, which projects every leaf at once, and the density
\* engine, which projects the distinct results and then spreads them over the
\* leaves, give it, and every published shot of terminal observations, found by
\* operation identifiers, is an outcome that it gives a positive weight.
DistributionsAreJoint ==
    status = "published" /\ leaves # <<>> =>
        /\ Engine = "exact" => output = Truth
        /\ Engine = "density" => output.physical = Truth
        /\ Engine = "sampled" /\ Late = {} =>
              \A n \in DOMAIN output.shots : Truth[output.shots[n]] > 0

\* Readout noise disturbs each observation once: leaves that return one result
\* agree in every report of positive weight, and the marginal of a leaf is the
\* channel applied to its physical marginal.
ReadoutOncePerObservation ==
    status = "published" /\ Engine = "density" /\ leaves # <<>> /\ channel # NoEvidence =>
        LET Marginal(weights, i, bit) ==
                MapThenSumSet(LAMBDA o : weights[o], {o \in Outcomes(leaves) : o[i] = bit})
            Total(actual) == channel[actual][0] + channel[actual][1]
            \* the other observations multiply every weight by their channels' totals
            Others(leaf) == FoldFunctionOnSet(LAMBDA x, y : x * y, 1,
                                              [l \in UniqueLeaves |-> Total(0)],
                                              UniqueLeaves \ {leaf})
        IN  /\ \A o \in Outcomes(leaves) : output.reported[o] > 0 =>
                  \A i, j \in DOMAIN leaves : leaves[i] = leaves[j] => o[i] = o[j]
            /\ \A i \in DOMAIN leaves, bit \in {0, 1} :
                  Marginal(output.reported, i, bit) =
                      Others(leaves[i]) * (  Marginal(output.physical, i, 0) * channel[0][bit]
                                           + Marginal(output.physical, i, 1) * channel[1][bit])

\* What is published is joint: over the leaves in every mode, and under readout
\* noise.
PublishedIsJoint == DistributionsAreJoint /\ ReadoutOncePerObservation

\* A program whose return repeats a result, which the exact and the density runs
\* publish with a distribution over aliases, is published by a sampled run too.
RepeatedLeavesPublished == status # "duplicate result"

=============================================================================
