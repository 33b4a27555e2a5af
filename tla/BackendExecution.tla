--------------------------- MODULE BackendExecution ---------------------------
(***************************************************************************)
(* A circuit handed to a backend the caller chose (simulator/backend.py,   *)
(* reference_backends.py, simulator-numpy/backends.py): the plan, the      *)
(* checks of the options, and the run.  The reference backends hand over   *)
(* to the engines of CircuitExecution.  The NumPy backends have loops and  *)
(* kernels of their own (PackedArrays).                                    *)
(*                                                                         *)
(* Timing is the schedule and the idle decoherence of a density request,   *)
(* for the NumPy density backend only.  The schedule is one that           *)
(* validate_schedule_for_circuit accepts (ScheduledExecution).             *)
(***************************************************************************)
EXTENDS CircuitExecution, PackedArrays

CONSTANTS
    Queries,    \* of SimulationQuery, those that are asked
    Timings(_)  \* for a circuit: [spans, peak, decay], what its density requests may carry

\* The slots an operation is on.
Touched(operation) ==
    ToSet(operation.targets) \union (IF operation.opcode = "CX" THEN {operation.control} ELSE {})

\* A schedule is validated against its circuit: every operation takes time, and
\* operations that share a slot follow each other.
ASSUME TimingsAreSchedules ==
    \A c \in Circuits : \A t \in Timings(c) :
        /\ t.peak \in Nat
        /\ \A i \in DOMAIN c : /\ t.spans[i].start \in Nat /\ t.spans[i].end \in Nat
                               /\ t.spans[i].start < t.spans[i].end /\ t.spans[i].end <= t.peak
        /\ \A i, j \in DOMAIN c :
              i < j /\ Touched(c[i]) \cap Touched(c[j]) # {} => t.spans[i].end <= t.spans[j].start

VARIABLES
    backend,    \* the caller's choice
    query,      \* what it asks
    options,    \* "none", or the type of the options it passes
    timing,     \* of the density request, NoEvidence for None
    plan,       \* SimulationPlan, NoEvidence before it is granted
    vector,     \* the amplitudes of the NumPy state-vector backend
    matrix,     \* the array of the NumPy density backend
    lastEnd,    \* slot_last_end
    idleEvents  \* decoherence_events

submission == <<backend, query, options, timing>>

arrays == <<vector, matrix, lastEnd, idleEvents>>

backendVars == <<executionVars, submission, plan, arrays>>

-----------------------------------------------------------------------------
(* Capabilities and the plan.                                              *)

Capability(engine, queries, accepted) ==
    [engine |-> engine, queries |-> queries, options |-> accepted]

Exactly == {"full_state", "probabilities"}

\* What a backend declares, and the options its execute takes.
Capabilities ==
    [b \in {"reference-state-vector", "numpy-cpu-state-vector", "reference-sampled-trajectory",
            "reference-density-matrix", "numpy-cpu-density-matrix"} |->
        IF b \in {"reference-state-vector", "numpy-cpu-state-vector"}
        THEN Capability("exact", Exactly, {"none"})
        ELSE IF b = "reference-sampled-trajectory"
        THEN Capability("sampled", {"full_state", "samples"}, {"sampled"})
        ELSE Capability("density", Exactly, {"none", "density"})]

ResettingWithVector ==      \* mutant: declared by a backend that refuses it
    {"reference-sampled-trajectory", "reference-density-matrix", "numpy-cpu-density-matrix",
     "numpy-cpu-state-vector"}
\* Those that declare supports_reset.
Resetting ==
    {"reference-sampled-trajectory", "reference-density-matrix", "numpy-cpu-density-matrix"}

OnNumpy == backend \in {"numpy-cpu-state-vector", "numpy-cpu-density-matrix"}

SupportsAnything == TRUE    \* mutant: the query is not compared
Supports == query \in Capabilities[backend].queries

\* build_simulation_plan
PlanRun ==
    /\ status = "requested" /\ plan = NoEvidence
    /\ IF Supports
       THEN plan' = [backend |-> backend, query |-> query] /\ UNCHANGED status
       ELSE status' = "unsupported query" /\ UNCHANGED plan
    /\ UNCHANGED <<circuit, request, pc, state, density, observed, lossy, measured, resets,
                   shots, trace, noiseEvents, submission, arrays>>

\* The entry of execute; it plans again, with the same answer.
ExecuteRun ==
    /\ status = "requested" /\ plan # NoEvidence
    /\ status' = IF options \in Capabilities[backend].options THEN "running"
                 ELSE "options refused"
    /\ UNCHANGED <<circuit, request, pc, state, density, observed, lossy, measured, resets,
                   shots, trace, noiseEvents, submission, plan, arrays>>

-----------------------------------------------------------------------------
(* Idle decoherence.                                                       *)

ApplyIdle == timing # NoEvidence

Decayed(array, slot, duration) ==
    LET damped == IF "amplitude" \in timing.decay
                  THEN ChannelDensity(array, slot, AmplitudeDamping(duration)) ELSE array
    IN  IF "phase" \in timing.decay
        THEN ChannelDensity(damped, slot, PhaseDamping(duration)) ELSE damped

InvolvedTargets(operation) == operation.targets     \* mutant: a control does not wait
\* Targets, then controls.
InvolvedSlots(operation) ==
    IF operation.opcode = "CX" THEN Append(operation.targets, operation.control)
    ELSE operation.targets

\* The idle time of a slot, if it has any.
Idled(array, slot, until) ==
    IF until > lastEnd[slot] THEN Decayed(array, slot, until - lastEnd[slot]) ELSE array

\* The slots' idle time up to until, in the order of the sequence.
IdledUntil(slots, until) ==
    LET late == SelectSeq(slots, LAMBDA slot : until > lastEnd[slot])
    IN  [matrix |-> FoldLeft(LAMBDA array, slot : Idled(array, slot, until), matrix, slots),
         events |-> [i \in DOMAIN late |->
                        [slot |-> late[i], start |-> lastEnd[late[i]], end |-> until]]]

Waited ==
    IF ApplyIdle THEN IdledUntil(InvolvedSlots(Operation), timing.spans[pc].start)
    ELSE [matrix |-> matrix, events |-> <<>>]

-----------------------------------------------------------------------------
(* The loops of the NumPy backends.                                        *)

OnNumpyVector == Running /\ backend = "numpy-cpu-state-vector"
OnNumpyDensity == Running /\ backend = "numpy-cpu-density-matrix"

NumpyAbort(code) == Abort(code) /\ UNCHANGED <<submission, plan, arrays>>

NumpyRefuseReset ==
    /\ OnNumpyVector /\ Operation.opcode = "RESET"
    /\ NumpyAbort("A203")

NumpyRefuseEvolution ==
    /\ OnNumpyDensity \/ (OnNumpyVector /\ Operation.opcode # "RESET")
    /\ FollowsObservation
    /\ NumpyAbort("A202")

NumpyVectorOperation ==
    /\ OnNumpyVector /\ Operation.opcode # "RESET" /\ ~ FollowsObservation
    /\ observed' = Observed
    /\ vector' = IF IsMeasurement THEN vector ELSE VectorKernel(vector, Operation)
    /\ pc' = pc + 1
    /\ UNCHANGED <<circuit, request, status, state, density, lossy, measured, resets, shots,
                   trace, noiseEvents, submission, plan, matrix, lastEnd, idleEvents>>

NumpyEvolved(array) ==
    CASE IsMeasurement -> array
      [] Operation.opcode = "RESET" -> ResetDensity(array, Operation.targets[1])
      [] NoisyGate -> ChannelDensity(DensityKernel(array, Operation), Operation.targets[1],
                                     request.noise[Operation.opcode])
      [] OTHER -> DensityKernel(array, Operation)

NumpyDensityOperation ==
    /\ OnNumpyDensity /\ ~ FollowsObservation
    /\ observed' = Observed
    /\ matrix' = NumpyEvolved(Waited.matrix)
    /\ idleEvents' = idleEvents \o Waited.events
    /\ lastEnd' = [slot \in Slots |->
                      IF ApplyIdle /\ slot \in ToSet(InvolvedSlots(Operation))
                      THEN timing.spans[pc].end ELSE lastEnd[slot]]
    /\ noiseEvents' = IF NoisyGate
                      THEN Append(noiseEvents, [op |-> pc, slot |-> Operation.targets[1]])
                      ELSE noiseEvents
    /\ pc' = pc + 1
    /\ UNCHANGED <<circuit, request, status, state, density, lossy, measured, resets, shots,
                   trace, submission, plan, vector>>

\* The remaining idle time of every slot, then the result.
FinishNumpy ==
    /\ status = "running" /\ OnNumpy /\ pc = Len(circuit) + 1
    /\ status' = "finished"
    /\ IF ApplyIdle
       THEN LET rest == IdledUntil([i \in 1 .. QubitCount |-> i - 1], timing.peak)
            IN  matrix' = rest.matrix /\ idleEvents' = idleEvents \o rest.events
       ELSE UNCHANGED <<matrix, idleEvents>>
    /\ UNCHANGED <<circuit, request, pc, state, density, observed, lossy, measured, resets,
                   shots, trace, noiseEvents, submission, plan, vector, lastEnd>>

NumpyStep ==
    \/ NumpyRefuseReset \/ NumpyRefuseEvolution
    \/ NumpyVectorOperation \/ NumpyDensityOperation \/ FinishNumpy

-----------------------------------------------------------------------------
\* What a call carries: the request of the options, or of None, and no trace.
Carried ==
    /\ ~ request.traced
    /\ request.engine = Capabilities[backend].engine
    /\ options # Capabilities[backend].engine =>
          timing = NoEvidence /\ request.noise = [g \in {} |-> <<>>]
    /\ timing # NoEvidence => backend = "numpy-cpu-density-matrix"

BackendInit ==
    /\ ExecutionInit
    /\ backend \in DOMAIN Capabilities /\ query \in Queries
    /\ options \in {"none", "sampled", "density"}
    /\ timing \in {NoEvidence} \union Timings(circuit)
    /\ Carried
    /\ plan = NoEvidence
    /\ vector = [i \in Indexes |-> IF i = 0 THEN 1 ELSE 0]
    /\ matrix = [row \in Indexes |-> [col \in Indexes |-> IF row = 0 /\ col = 0 THEN 1 ELSE 0]]
    /\ lastEnd = [slot \in Slots |-> 0] /\ idleEvents = <<>>

\* The engines of CircuitExecution, entered by ExecuteRun.
ReferenceStep ==
    /\ ~ OnNumpy
    /\ \/ RefuseReset \/ RefuseEvolution \/ ExactOperation \/ DensityOperation
       \/ SampledGate \/ SampledMeasure \/ SampledReset \/ DrawBeyondMass \/ FinishShot
       \/ FinishExecution
    /\ UNCHANGED <<submission, plan, arrays>>

BackendStep == PlanRun \/ ExecuteRun \/ ReferenceStep \/ NumpyStep

BackendEnded == Ended /\ UNCHANGED backendVars

BackendNext == BackendStep \/ BackendEnded

\* Planning and running are synchronous calls.
BackendSpec == BackendInit /\ [][BackendNext]_backendVars /\ WF_backendVars(BackendStep)

-----------------------------------------------------------------------------
(* The reference engine a run stands for.                                  *)

VectorAsState == [b \in BasisStates |-> vector[IndexOf(b)]]
MatrixAsDensity ==
    [row \in BasisStates |-> [col \in BasisStates |-> matrix[IndexOf(row)][IndexOf(col)]]]

Refused == status \in {"unsupported query", "options refused"}

Reference == INSTANCE CircuitExecution WITH
    status  <- IF Refused THEN "requested" ELSE status,
    state   <- IF backend = "numpy-cpu-state-vector" THEN VectorAsState ELSE state,
    density <- IF backend = "numpy-cpu-density-matrix" THEN MatrixAsDensity ELSE density

\* The circuit run in time with the reference engine's operations: at every tick
\* the operations that start, then one unit of decay for every slot none is using.
OperationAt(array, i) ==
    LET target == circuit[i].targets[1]
    IN  CASE Acts(i, {"MEASURE"}) -> array
          [] Acts(i, {"RESET"}) -> DensityReset(array, target)
          [] Acts(i, DOMAIN request.noise) ->
                ApplyChannel(IdealDensity(array, circuit[i]), target, request.noise[circuit[i].opcode])
          [] OTHER -> IdealDensity(array, circuit[i])

UsedAt(slot, tick) ==
    \E i \in DOMAIN circuit : /\ slot \in Touched(circuit[i])
                              /\ timing.spans[i].start <= tick /\ tick < timing.spans[i].end

DecayOneTick(array, slot) ==
    LET damped == IF "amplitude" \in timing.decay
                  THEN ApplyChannel(array, slot, AmplitudeDamping(1)) ELSE array
        decayed == IF "phase" \in timing.decay
                   THEN ApplyChannel(damped, slot, PhaseDamping(1)) ELSE damped
    IN  CHOOSE one \in {decayed} : one \in Densities

\* A tick has a moment for each operation and then one for each slot.
Places == Len(circuit) + QubitCount

AtMoment(array, n) ==
    LET tick  == n \div Places
        place == n % Places
        slot  == place - Len(circuit)
    IN  IF place < Len(circuit)
        THEN IF timing.spans[place + 1].start = tick THEN OperationAt(array, place + 1) ELSE array
        ELSE IF UsedAt(slot, tick) THEN array ELSE DecayOneTick(array, slot)

InTime == FoldLeft(AtMoment, GroundDensity, [n \in 1 .. timing.peak * Places |-> n - 1])

-----------------------------------------------------------------------------
(* Properties.                                                             *)

\* The shapes of the backends' values; no backend runs a query it does not declare.
BackendTypeOK ==
    /\ vector \in [Indexes -> Int] /\ matrix \in [Indexes -> [Indexes -> Int]]
    /\ lastEnd \in [Slots -> Nat]
    /\ plan # NoEvidence => plan.query \in Capabilities[plan.backend].queries
    /\ status \notin {"requested", "unsupported query"} => plan # NoEvidence

\* Every backend implements the reference engine of its representation: the NumPy
\* loops take the steps of the reference loops, with the same refusals at the same
\* operation, the same gate-noise evidence, and, read by packed index, the same
\* amplitudes and density matrix after every operation (without a schedule).
BackendsImplementReference ==
    Reference!ExecutionInit
        /\ [][~ ApplyIdle => Reference!ExecutionNext]_(Reference!executionVars)

\* A granted plan is honoured as far as the capabilities say: with options of its
\* type a run ends with a result exactly when it needs no reset its backend does
\* not declare and, but for trajectories, no evolution after an observation.
\* (A draw beyond the mass is the simulator's own assertion, not a refusal.)
GrantIsHonoured ==
    LET Able == /\ ResetsAt # {} => backend \in Resetting
                /\ Late # {} => Engine = "sampled"
    IN  /\ plan # NoEvidence /\ Ended =>
              (status \in {"finished", "impossible"})
                  <=> (Able /\ options \in Capabilities[backend].options)
        /\ Ended /\ ~ Refused => plan # NoEvidence

\* Idle time is applied to a slot only when its next operation comes, in the order
\* of the circuit and not of time.  The final matrix is still the one of the
\* circuit run in time, with every slot decaying whenever no operation uses it.
LateDecayIsTimed ==
    status = "finished" /\ ApplyIdle => MatrixAsDensity = InTime

=============================================================================
