-------------------------- MODULE CircuitExecution --------------------------
(***************************************************************************)
(* One run of an allocated circuit by one of the three reference engines   *)
(* (packages/simulator): the exact state vector and the sampled            *)
(* trajectories of statevector.py, and the density matrix of               *)
(* density_matrix.py without a schedule (ScheduledExecution has the        *)
(* schedule).  The engines are synchronous loops over the operations; each *)
(* iteration is an action.                                                 *)
(*                                                                         *)
(* A draw of the private random generator is a choice among the outcomes   *)
(* of positive weight.  In floating point the probabilities may add up to  *)
(* less than one once an amplitude is not exact, and a draw beyond their   *)
(* sum takes the last outcome whatever its probability: lossy says that    *)
(* this may happen.  The norm check after each step and the density matrix *)
(* checks hold in exact arithmetic and are left out.                       *)
(***************************************************************************)
EXTENDS QuantumState, SequencesExt, FiniteSets

CONSTANTS
    Circuits,    \* sequences of operations; an operation's id is its position
    Requests,    \* [engine, shots, traced, noise]
    NoEvidence   \* Python's None in a trace step

\* Only an observation has several targets, which are distinct; the control of a CX
\* is not its target.
AllocatedOperations ==
    {o \in [opcode : DOMAIN Matrix \union {"CX", "MEASURE", "RESET"},
            targets : Seq(Slots) \ {<<>>}, control : Slots] :
        /\ IsInjective(o.targets) /\ (o.opcode # "MEASURE" => Len(o.targets) = 1)
        /\ o.opcode = "CX" => o.control # o.targets[1]}

ASSUME CircuitsAreSequences == \A c \in Circuits : c \in Seq(AllocatedOperations)

ASSUME RequestsAreRuns ==
    \A r \in Requests : /\ r.engine \in {"exact", "sampled", "density"}
                        /\ r.shots \in Nat /\ r.traced \in BOOLEAN

\* Noise is bound to gates of one slot, as Kraus operators; simulate, which runs the
\* vector engines, takes none.
ASSUME NoiseIsOfGates ==
    \A r \in Requests :
        /\ DOMAIN r.noise \subseteq DOMAIN Matrix
        /\ \A gate \in DOMAIN r.noise : \A k \in DOMAIN r.noise[gate] :
              /\ r.noise[gate][k].weight \in Nat
              /\ \A i, j \in {1, 2} : r.noise[gate][k].matrix[i][j] \in Int
        /\ \A gate \in DOMAIN r.noise :
              /\ Len(r.noise[gate]) \in Nat
              /\ DOMAIN r.noise[gate] = 1 .. Len(r.noise[gate])
        /\ r.engine # "density" => DOMAIN r.noise = {}

\* The products of the columns of a channel's operators, over all operators.
Completeness(kraus, row, column) ==
    MapThenSumSet(LAMBDA k : kraus[k].weight * (kraus[k].matrix[1][row] * kraus[k].matrix[1][column]
                                     + kraus[k].matrix[2][row] * kraus[k].matrix[2][column]),
                  DOMAIN kraus)

\* A channel keeps the sum of the probabilities, up to its weights' common factor.
ASSUME ChannelsAreComplete ==
    \A r \in Requests : \A gate \in DOMAIN r.noise :
        LET product(row, column) == Completeness(r.noise[gate], row, column)
        IN  product(1, 1) > 0 /\ product(2, 2) = product(1, 1) /\ product(1, 2) = 0

VARIABLES
    circuit, request,   \* the arguments; never assigned
    status,      \* "requested", "running", "finished" or how the run failed
    pc,          \* the operation the loop is at
    state,       \* the vector of the exact engine or of the current trajectory
    density,     \* the matrix of the density engine
    observed,    \* terminal_observation: the first observation, 0 for None
    lossy,       \* the probabilities may add up to less than one
    measured,    \* measurement_outcomes of the current shot
    resets,      \* reset_events of the current shot
    shots,       \* the completed shots
    trace,       \* the captured steps
    noiseEvents  \* gate_noise_events

executionVars == <<circuit, request, status, pc, state, density, observed, lossy,
                   measured, resets, shots, trace, noiseEvents>>

Engine == request.engine
Running == status = "running" /\ pc <= Len(circuit)
Operation == circuit[pc]
IsMeasurement == Operation.opcode = "MEASURE"

-----------------------------------------------------------------------------
(* Trace capture.                                                          *)

TraceStepAliased(before, after, probabilities, outcome, reset) ==   \* mutant: no copy
    [op |-> pc, opcode |-> Operation.opcode, before |-> after, after |-> after,
     probabilities |-> probabilities, outcome |-> outcome, reset |-> reset]
TraceStep(before, after, probabilities, outcome, reset) ==
    [op |-> pc, opcode |-> Operation.opcode, before |-> before, after |-> after,
     probabilities |-> probabilities, outcome |-> outcome, reset |-> reset]

Captured(before, after, probabilities, outcome, reset) ==
    IF request.traced
    THEN Append(trace, TraceStep(before, after, probabilities, outcome, reset))
    ELSE trace

Probabilities(vector, targets) ==
    [outcome \in Outcomes(targets) |-> Weight(vector, targets, outcome)]

\* What the constructors of TraceStep and ExecutionTrace demand of a trace.
TraceAccepted ==
    /\ \A i \in DOMAIN trace :
          LET step == trace[i] IN
          /\ step.op = i
          /\ step.before = IF i = 1 THEN GroundState ELSE trace[i - 1].after
          /\ step.probabilities # NoEvidence \/ step.outcome # NoEvidence
                => step.opcode = "MEASURE" /\ step.reset = NoEvidence
          /\ step.reset # NoEvidence => step.opcode = "RESET"
          /\ Engine = "exact" => step.outcome = NoEvidence /\ step.reset = NoEvidence
          /\ Engine = "sampled" => step.probabilities = NoEvidence

-----------------------------------------------------------------------------
(* Entry: simulate, simulate_density_matrix and the runtime's refusal of a *)
(* density trace.                                                          *)

ExecutionInit ==
    /\ circuit \in Circuits /\ request \in Requests
    /\ status = "requested" /\ pc = 1
    /\ state = GroundState /\ density = GroundDensity
    /\ observed = 0 /\ lossy = FALSE
    /\ measured = <<>> /\ resets = <<>> /\ shots = <<>>
    /\ trace = <<>> /\ noiseEvents = <<>>

TraceRefusal ==
    IF ~ request.traced THEN "none"
    ELSE IF Engine = "density" THEN "A205"
    ELSE IF Engine = "sampled" /\ request.shots # 1 THEN "A204" ELSE "none"

Start ==
    /\ status = "requested"
    /\ status' = IF TraceRefusal = "none" THEN "running" ELSE TraceRefusal
    /\ UNCHANGED <<circuit, request, pc, state, density, observed, lossy, measured,
                   resets, shots, trace, noiseEvents>>

-----------------------------------------------------------------------------
(* The exact engine and the density engine: observations are terminal.     *)

Abort(code) ==
    /\ status' = code
    /\ UNCHANGED <<circuit, request, pc, state, density, observed, lossy, measured,
                   resets, shots, trace, noiseEvents>>

RefuseResetSilently ==      \* mutant: a reset is skipped
    /\ Running /\ Engine = "exact" /\ Operation.opcode = "RESET"
    /\ pc' = pc + 1
    /\ UNCHANGED <<circuit, request, status, state, density, observed, lossy, measured,
                   resets, shots, trace, noiseEvents>>
RefuseReset ==
    /\ Running /\ Engine = "exact" /\ Operation.opcode = "RESET"
    /\ Abort("A203")

FollowsObservation == observed # 0 /\ ~ IsMeasurement

RefuseEvolution ==
    /\ Running /\ Engine # "sampled" /\ FollowsObservation
    /\ Engine = "exact" => Operation.opcode # "RESET"
    /\ Abort("A202")

ObservedAnything == IF observed = 0 THEN pc ELSE observed   \* mutant: any operation observes
Observed == IF IsMeasurement /\ observed = 0 THEN pc ELSE observed

ExactOperation ==
    /\ Running /\ Engine = "exact" /\ Operation.opcode # "RESET" /\ ~ FollowsObservation
    /\ observed' = Observed
    /\ state' = IF IsMeasurement THEN state ELSE ApplyOperation(state, Operation)
    /\ trace' = Captured(state, state',
                         IF IsMeasurement THEN Probabilities(state', Operation.targets)
                         ELSE NoEvidence,
                         NoEvidence, NoEvidence)
    /\ pc' = pc + 1
    /\ UNCHANGED <<circuit, request, status, density, lossy, measured, resets, shots,
                   noiseEvents>>

NoisyGate == Operation.opcode \in DOMAIN request.noise

EvolvedNoiseFirst ==        \* mutant: the channel comes before the gate
    CASE IsMeasurement -> density
      [] Operation.opcode = "RESET" -> DensityReset(density, Operation.targets[1])
      [] NoisyGate -> IdealDensity(ApplyChannel(density, Operation.targets[1],
                                                request.noise[Operation.opcode]), Operation)
      [] OTHER -> IdealDensity(density, Operation)
Evolved ==
    CASE IsMeasurement -> density
      [] Operation.opcode = "RESET" -> DensityReset(density, Operation.targets[1])
      [] NoisyGate -> ApplyChannel(IdealDensity(density, Operation), Operation.targets[1],
                                   request.noise[Operation.opcode])
      [] OTHER -> IdealDensity(density, Operation)

DensityOperation ==
    /\ Running /\ Engine = "density" /\ ~ FollowsObservation
    /\ observed' = Observed
    /\ density' = Evolved
    /\ noiseEvents' = IF NoisyGate
                      THEN Append(noiseEvents, [op |-> pc, slot |-> Operation.targets[1]])
                      ELSE noiseEvents
    /\ pc' = pc + 1
    /\ UNCHANGED <<circuit, request, status, state, lossy, measured, resets, shots, trace>>

-----------------------------------------------------------------------------
(* The sampled engine: every operation is allowed at any place.            *)

CanEvolve == Running /\ Engine = "sampled"

\* A gate; only H and RY make amplitudes that floating point cannot hold.
SampledGate ==
    /\ CanEvolve /\ Operation.opcode \notin {"MEASURE", "RESET"}
    /\ state' = ApplyOperation(state, Operation)
    /\ lossy' = (lossy \/ Operation.opcode \in {"H", "RY"})
    /\ trace' = Captured(state, state', NoEvidence, NoEvidence, NoEvidence)
    /\ pc' = pc + 1
    /\ UNCHANGED <<circuit, request, status, density, observed, measured, resets, shots,
                   noiseEvents>>

Possible(targets) == {o \in Outcomes(targets) : Weight(state, targets, o) > 0}

LastOutcome(targets) == [i \in DOMAIN targets |-> 1]

SampledMeasure ==
    /\ CanEvolve /\ IsMeasurement
    /\ \E outcome \in Possible(Operation.targets) :
          /\ state' = Collapse(state, Operation.targets, outcome)
          /\ measured' = Append(measured, [op |-> pc, outcome |-> outcome])
          /\ trace' = Captured(state, state', NoEvidence, outcome, NoEvidence)
    /\ pc' = pc + 1
    /\ UNCHANGED <<circuit, request, status, density, observed, lossy, resets, shots,
                   noiseEvents>>

CorrectedNever(target, outcome) ==      \* mutant: the conditional X is missing
    Collapse(state, <<target>>, <<outcome>>)
\* The state RESET leaves after its internal outcome.
Corrected(target, outcome) ==
    LET collapsed == Collapse(state, <<target>>, <<outcome>>)
    IN  IF outcome = 1 THEN ApplySingle(collapsed, target, Matrix.X) ELSE collapsed

SampledReset ==
    /\ CanEvolve /\ Operation.opcode = "RESET"
    /\ \E outcome \in Possible(Operation.targets) :
          LET event == [op |-> pc, target |-> Operation.targets[1], outcome |-> outcome[1]] IN
          /\ state' = Corrected(event.target, event.outcome)
          /\ resets' = Append(resets, event)
          /\ trace' = Captured(state, state', NoEvidence, NoEvidence, event)
    /\ pc' = pc + 1
    /\ UNCHANGED <<circuit, request, status, density, observed, lossy, measured, shots,
                   noiseEvents>>

DrawBeyondMassAnyhow ==    \* mutant: a last outcome with a weight of its own is given up too
    /\ CanEvolve /\ Operation.opcode \in {"MEASURE", "RESET"}
    /\ lossy
    /\ Abort("impossible")
\* A draw beyond the sum of the probabilities when the last outcome has none.
DrawBeyondMass ==
    /\ CanEvolve /\ Operation.opcode \in {"MEASURE", "RESET"}
    /\ lossy /\ LastOutcome(Operation.targets) \notin Possible(Operation.targets)
    /\ Abort("impossible")

FinishShotKeepingState ==   \* mutant: the next trajectory starts where this one ended
    /\ status = "running" /\ Engine = "sampled"
    /\ pc = Len(circuit) + 1 /\ Len(shots) < request.shots
    /\ shots' = Append(shots, [measured |-> measured, resets |-> resets, final |-> state])
    /\ IF Len(shots') < request.shots
       THEN pc' = 1 /\ measured' = <<>> /\ resets' = <<>>
       ELSE UNCHANGED <<pc, measured, resets>>
    /\ UNCHANGED <<circuit, request, status, state, density, observed, lossy, trace,
                   noiseEvents>>
\* The end of a trajectory; the next one starts from the ground state.
FinishShot ==
    /\ status = "running" /\ Engine = "sampled"
    /\ pc = Len(circuit) + 1 /\ Len(shots) < request.shots
    /\ shots' = Append(shots, [measured |-> measured, resets |-> resets, final |-> state])
    /\ IF Len(shots') < request.shots
       THEN /\ pc' = 1 /\ state' = GroundState /\ lossy' = FALSE
            /\ measured' = <<>> /\ resets' = <<>>
       ELSE UNCHANGED <<pc, state, lossy, measured, resets>>
    /\ UNCHANGED <<circuit, request, status, density, observed, trace, noiseEvents>>

-----------------------------------------------------------------------------
Complete == IF Engine = "sampled" THEN Len(shots) = request.shots ELSE pc = Len(circuit) + 1

FinishExecution ==
    /\ status = "running" /\ Complete
    /\ status' = IF TraceAccepted THEN "finished" ELSE "invalid trace"
    /\ UNCHANGED <<circuit, request, pc, state, density, observed, lossy, measured,
                   resets, shots, trace, noiseEvents>>

EngineStep ==
    \/ Start
    \/ RefuseReset \/ RefuseEvolution \/ ExactOperation
    \/ DensityOperation
    \/ SampledGate \/ SampledMeasure \/ SampledReset \/ DrawBeyondMass \/ FinishShot
    \/ FinishExecution

Ended == status \notin {"requested", "running"}

ExecutionDone == Ended /\ UNCHANGED executionVars

ExecutionNext == EngineStep \/ ExecutionDone

\* The engines are called and return: the loop does not stop half way.
ExecutionSpec ==
    ExecutionInit /\ [][ExecutionNext]_executionVars /\ WF_executionVars(EngineStep)

-----------------------------------------------------------------------------
(* Reference definitions for the properties.                               *)

Acts(i, opcodes) == circuit[i].opcode \in opcodes

Gates == DOMAIN Matrix \union {"CX"}

\* Operations that an engine with terminal observations cannot run.
Late == {i \in DOMAIN circuit : ~ Acts(i, {"MEASURE"})
                                  /\ \E j \in 1 .. i - 1 : Acts(j, {"MEASURE"})}
ResetsAt == {i \in DOMAIN circuit : Acts(i, {"RESET"})}

\* The vector after the gates alone.
IdealVector ==
    FoldLeftDomain(LAMBDA vector, i : IF Acts(i, Gates) THEN ApplyOperation(vector, circuit[i])
                                      ELSE vector,
                   GroundState, circuit)

\* What a step that is not a unitary may do: the internal outcome of a reset, the
\* Kraus operator of a noisy gate.
ChoicesAt(i) == CASE Acts(i, {"RESET"})           -> {0, 1}
                [] Acts(i, DOMAIN request.noise) -> DOMAIN request.noise[circuit[i].opcode]
                [] OTHER                         -> {0}

Branches(n) == {b \in [1 .. n -> (UNION {ChoicesAt(i) : i \in 1 .. n}) \union {0}] :
                   \A i \in 1 .. n : b[i] \in ChoicesAt(i)}

BranchStep(vector, i, choice) ==
    CASE Acts(i, {"MEASURE"}) -> vector
      [] Acts(i, {"RESET"}) ->
            LET kept == Collapse(vector, circuit[i].targets, <<choice>>)
            IN  IF choice = 1 THEN ApplySingle(kept, circuit[i].targets[1], Matrix.X) ELSE kept
      [] Acts(i, DOMAIN request.noise) ->
            ApplySingle(ApplyOperation(vector, circuit[i]), circuit[i].targets[1],
                        request.noise[circuit[i].opcode][choice].matrix)
      [] OTHER -> ApplyOperation(vector, circuit[i])

BranchVector(branch) ==
    FoldLeftDomain(LAMBDA vector, i : BranchStep(vector, i, branch[i]), GroundState, branch)

BranchWeight(branch) ==
    FoldLeftDomain(LAMBDA w, i : IF Acts(i, DOMAIN request.noise)
                                 THEN w * request.noise[circuit[i].opcode][branch[i]].weight ELSE w,
                   1, branch)

\* The mixture of what the pure-state trajectories of the first n operations reach.
Mixture(n) ==
    LET ends == {<<BranchVector(b), b>> : b \in Branches(n)}
    IN  [row \in BasisStates |-> [col \in BasisStates |->
            MapThenSumSet(LAMBDA end : BranchWeight(end[2]) * end[1][row] * end[1][col], ends)]]

\* Operations that may change the bit an observation of the slot would give.
Disturbs(i, slot) == Acts(i, {"X", "H", "RY", "CX", "RESET"}) /\ circuit[i].targets[1] = slot

Undisturbed(slot, i, j) == \A k \in i + 1 .. j - 1 : ~ Disturbs(k, slot)

-----------------------------------------------------------------------------
(* Properties.                                                             *)

\* The loops of the three engines keep the shapes of the code's values.
ExecutionTypeOK ==
    /\ pc \in 1 .. Len(circuit) + 1
    /\ state \in States /\ density \in Densities
    /\ observed = 0 \/ (observed \in DOMAIN circuit /\ Acts(observed, {"MEASURE"}))
    /\ lossy \in BOOLEAN
    /\ \A i \in DOMAIN measured : measured[i].outcome \in Outcomes(circuit[measured[i].op].targets)
    /\ \A i \in DOMAIN resets : resets[i].outcome \in {0, 1}
    /\ Len(shots) <= request.shots

\* The density engine's channel arithmetic is the average of pure trajectories:
\* after every operation the matrix is the mixture over the internal outcomes of
\* the resets and the Kraus operators of the noisy gates, each branch computed
\* with the state-vector engine's own operations.
DensityIsMixture ==
    Engine = "density" => density = Mixture(pc - 1)

\* Observing one operation after another and collapsing in between is one joint
\* projection of the final state, in every shot: the trajectory of a circuit
\* with terminal observations ends in the ideal state restricted to the outcomes
\* it reports, so its weight is their joint weight, which is not zero.
CollapseIsProjection ==
    Late = {} /\ ResetsAt = {} =>
        \A n \in DOMAIN shots :
            LET Agrees(b) == \A k \in DOMAIN shots[n].measured :
                    Outcome(b, circuit[shots[n].measured[k].op].targets)
                        = shots[n].measured[k].outcome
            IN  /\ shots[n].final = [b \in BasisStates |-> IF Agrees(b) THEN IdealVector[b] ELSE 0]
                /\ \E b \in BasisStates : shots[n].final[b] # 0

\* In the middle of a circuit an observed bit persists: until an operation acts on
\* the slot, observing it again, alone or with others and in any target order,
\* gives the same bit, and after a reset it gives zero.
UndisturbedBitsPersist ==
    LET Bit(m, slot) == m.outcome[CHOOSE i \in DOMAIN m.outcome : circuit[m.op].targets[i] = slot]
        On(m) == ToSet(circuit[m.op].targets)
    IN  /\ \A x, y \in ToSet(measured) : \A slot \in On(x) \cap On(y) :
              x.op < y.op /\ Undisturbed(slot, x.op, y.op) => Bit(x, slot) = Bit(y, slot)
        /\ \A r \in ToSet(resets), y \in ToSet(measured) :
              r.op < y.op /\ r.target \in On(y) /\ Undisturbed(r.target, r.op, y.op)
                 => Bit(y, r.target) = 0

\* The engines follow pure trajectories: the density engine's matrix is their
\* mixture, and a sampled shot is one of them, projected on what it observed, in
\* the whole circuit and in the middle of it.
TrajectoriesAgree == DensityIsMixture /\ CollapseIsProjection /\ UndisturbedBitsPersist

\* An amplitude of this trajectory was rounded.
Rounded == \E i \in 1 .. pc - 1 : Acts(i, {"H", "RY"})

\* The last outcome, which a draw beyond the probabilities falls through to, has none.
LastIsImpossible ==
    /\ Acts(pc, {"MEASURE", "RESET"})
    /\ LastOutcome(circuit[pc].targets) \notin Possible(circuit[pc].targets)

\* The refusals are exactly the documented ones, in the order of the checks: the
\* exact engine refuses the first reset (A203) unless an operation before it
\* already followed an observation (A202), the density engine refuses evolution
\* after an observation, and the sampled engine refuses no circuit: it gives up
\* only at a draw that rounding brought beyond the probabilities.
RefusalsAreExact ==
    LET Evolves == Late # {} /\ (Engine = "exact" =>
                                   \A i \in ResetsAt : \E j \in Late : j < i)
        Resets  == ResetsAt # {} /\ \A j \in Late : \E i \in ResetsAt : i <= j
    IN  Ended /\ TraceRefusal = "none" =>
            /\ (status = "A202") <=> (Engine # "sampled" /\ Evolves)
            /\ (status = "A203") <=> (Engine = "exact" /\ Resets)
            /\ status = "impossible" => Engine = "sampled" /\ Rounded /\ LastIsImpossible

\* A captured trace passes the constructors of TraceStep and ExecutionTrace, has
\* a step for every operation and ends in the state the run returns.
TraceExplainsRun ==
    /\ status # "invalid trace"
    /\ status = "finished" /\ request.traced /\ circuit # <<>> =>
          /\ Len(trace) = Len(circuit)
          /\ Last(trace).after = IF Engine = "sampled" THEN shots[1].final ELSE state

=============================================================================
