---------------------------- MODULE CircuitProofs ----------------------------
(* Proofs about the engines of CircuitExecution: which circuits they refuse, *)
(* what a trace says of the run it was captured from, and what the density   *)
(* matrix is: a sum of pure matrices, whose trace and purity have bounds,    *)
(* and the noiseless replay of its circuit where no noise took part;         *)
(* and which operations can entangle a slot or separate it.  The lemmas are  *)
(* about single steps of a loop, so that the modules about what calls an     *)
(* engine (RunProofs, BackendProofs) prove their theorems from them.         *)
EXTENDS CircuitExecution, FoldFacts, SequenceTheorems

(***************************************************************************)
(* The steps of the loops, without the entry of EngineStep.                *)
(***************************************************************************)
LoopStep ==
    \/ RefuseReset \/ RefuseEvolution \/ ExactOperation
    \/ DensityOperation
    \/ SampledGate \/ SampledMeasure \/ SampledReset \/ DrawBeyondMass \/ FinishShot
    \/ FinishExecution

LEMMA EngineStepIsLoopStep == EngineStep <=> Start \/ LoopStep
BY DEF EngineStep, LoopStep

-----------------------------------------------------------------------------
(* What the arguments are.                                                 *)

Arguments == circuit \in Circuits /\ request \in Requests

LEMMA ArgumentFacts ==
    ASSUME Arguments
    PROVE  /\ Len(circuit) \in Nat /\ DOMAIN circuit = 1 .. Len(circuit)
           /\ \A i \in DOMAIN circuit : circuit[i] \in AllocatedOperations
           /\ Engine \in {"exact", "sampled", "density"}
           /\ request.shots \in Nat /\ request.traced \in BOOLEAN
<1>1. circuit \in Seq(AllocatedOperations)
  BY CircuitsAreSequences DEF Arguments
<1>2. Len(circuit) \in Nat /\ DOMAIN circuit = 1 .. Len(circuit)
  BY <1>1, LenProperties
<1>3. \A i \in DOMAIN circuit : circuit[i] \in AllocatedOperations
  BY <1>1, <1>2, ElementOfSeq
<1>4. QED BY <1>2, <1>3, RequestsAreRuns DEF Arguments, Engine

LEMMA FirstTarget ==
    ASSUME NEW operation \in AllocatedOperations
    PROVE  /\ operation.targets \in Seq(Slots) /\ Len(operation.targets) \in Nat \ {0}
           /\ 1 \in DOMAIN operation.targets /\ operation.targets[1] \in Slots
<1>1. operation.targets \in Seq(Slots) /\ operation.targets # <<>>
  BY DEF AllocatedOperations
<1>2. Len(operation.targets) \in Nat \ {0}
       /\ DOMAIN operation.targets = 1 .. Len(operation.targets)
  BY <1>1, EmptySeq, LenProperties
<1>3. 1 \in DOMAIN operation.targets
  BY <1>2
<1>4. QED BY <1>1, <1>2, <1>3, ElementOfSeq

-----------------------------------------------------------------------------
(* Which operations a loop has passed.                                     *)

Measures(i) == Acts(i, {"MEASURE"})

\* Before its end an exact or a density loop has passed no operation that follows
\* an observation, and the exact loop no reset; observed says whether an observation
\* was passed.
Progress ==
    /\ Arguments
    /\ pc \in 1 .. Len(circuit) + 1
    /\ Engine # "sampled" =>
          /\ observed \in 0 .. pc - 1
          /\ observed # 0 => Measures(observed)
          /\ observed = 0 => \A i \in 1 .. pc - 1 : ~ Measures(i)
          /\ \A i \in 1 .. pc - 1 : i \notin Late
    /\ Engine = "exact" => \A i \in 1 .. pc - 1 : i \notin ResetsAt
    /\ status = "requested" => pc = 1 /\ observed = 0

\* Where a loop has stopped, by the way that it ended.
Stopped ==
    /\ status \in {"running", "finished", "invalid trace"} => TraceRefusal = "none"
    /\ status \in {"finished", "invalid trace"} => (Engine # "sampled" => pc = Len(circuit) + 1)
    /\ status = "A202" => /\ Engine # "sampled" /\ pc \in Late
                          /\ Engine = "exact" => pc \notin ResetsAt
    /\ status = "A203" => Engine = "exact" /\ pc \in ResetsAt
    /\ status \in {"A204", "A205"} => TraceRefusal # "none"
    /\ status = "impossible" => Engine = "sampled"

Statuses == {"requested", "running", "finished", "invalid trace", "A202", "A203", "A204", "A205",
             "impossible"}

ControlIInv == Progress /\ Stopped

\* The operation that a loop is at exists.
LEMMA RunningFacts ==
    ASSUME Progress, Running
    PROVE  /\ pc \in DOMAIN circuit /\ pc \in Nat \ {0} /\ pc + 1 \in 1 .. Len(circuit) + 1
           /\ Operation \in AllocatedOperations
           /\ IsMeasurement <=> Measures(pc)
           /\ (Operation.opcode = "RESET") <=> pc \in ResetsAt
           /\ 1 .. (pc + 1) - 1 = (1 .. pc - 1) \union {pc}
<1>1. Len(circuit) \in Nat /\ DOMAIN circuit = 1 .. Len(circuit)
  BY ArgumentFacts DEF Progress
<1>2. pc \in 1 .. Len(circuit) + 1 /\ pc <= Len(circuit)
  BY DEF Progress, Running
<1>3. pc \in DOMAIN circuit /\ pc \in Nat \ {0} /\ pc + 1 \in 1 .. Len(circuit) + 1
  BY <1>1, <1>2
<1>4. Operation \in AllocatedOperations
  BY <1>3, ArgumentFacts DEF Progress, Operation
<1>5. IsMeasurement <=> Measures(pc)
  BY DEF IsMeasurement, Measures, Acts, Operation
<1>6. (Operation.opcode = "RESET") <=> pc \in ResetsAt
  BY <1>3 DEF ResetsAt, Acts, Operation
<1>7. 1 .. (pc + 1) - 1 = (1 .. pc - 1) \union {pc}
  BY <1>3
<1>8. QED BY <1>3, <1>4, <1>5, <1>6, <1>7

\* FollowsObservation asks the one variable what Late asks the whole circuit.
LEMMA FollowsIsLate ==
    ASSUME Progress, Running, Engine # "sampled"
    PROVE  FollowsObservation <=> pc \in Late
<1>1. CASE observed = 0
  <2>1. \A j \in 1 .. pc - 1 : ~ Measures(j)
    BY <1>1 DEF Progress
  <2>2. QED BY <1>1, <2>1, RunningFacts DEF FollowsObservation, Late, Measures
<1>2. CASE observed # 0
  <2>1. observed \in 1 .. pc - 1 /\ Measures(observed)
    BY <1>2, RunningFacts DEF Progress
  <2>2. pc \in Late <=> ~ Measures(pc)
    BY <2>1, RunningFacts DEF Late, Measures
  <2>3. QED BY <1>2, <2>2, RunningFacts DEF FollowsObservation
<1>3. QED BY <1>1, <1>2

\* A step past an operation that its engine runs.
LEMMA PassingKeepsProgress ==
    ASSUME Progress, Running,
           UNCHANGED <<circuit, request, status>>, pc' = pc + 1,
           Engine = "sampled"
             \/ (observed' = Observed /\ ~ FollowsObservation
                  /\ (Engine = "exact" => pc \notin ResetsAt))
    PROVE  Progress'
<1>1. Arguments'
  BY DEF Progress, Arguments
<1>2. pc' \in 1 .. Len(circuit') + 1
  BY RunningFacts
<1>3. status' # "requested"
  BY DEF Running
<1>4. Engine' = Engine
  BY DEF Engine
<1>5. ASSUME Engine # "sampled"
      PROVE  /\ observed' \in 0 .. pc' - 1
             /\ observed' # 0 => Measures(observed)'
             /\ observed' = 0 => \A i \in 1 .. pc' - 1 : ~ Measures(i)'
             /\ \A i \in 1 .. pc' - 1 : i \notin Late'
  <2>1. observed' = Observed /\ pc \notin Late
    BY <1>5, FollowsIsLate
  <2>2. /\ Late' = Late /\ \A i : Measures(i)' <=> Measures(i)
        /\ Measures(observed)' <=> Acts(observed', {"MEASURE"})
    BY DEF Late, Measures, Acts
  <2>3. /\ observed \in 0 .. pc - 1
        /\ observed # 0 => Measures(observed)
        /\ observed = 0 => \A i \in 1 .. pc - 1 : ~ Measures(i)
        /\ \A i \in 1 .. pc - 1 : i \notin Late
    BY <1>5 DEF Progress
  <2>4. \A i \in 1 .. pc' - 1 : i \in 1 .. pc - 1 \/ i = pc
    BY RunningFacts
  <2>5. \A i \in 1 .. pc' - 1 : i \notin Late'
    BY <2>1, <2>2, <2>3, <2>4
  <2>6. CASE IsMeasurement /\ observed = 0
    <3>1. observed' = pc /\ Measures(pc)
      BY <2>1, <2>6, RunningFacts DEF Observed
    <3>2. observed' \in 0 .. pc' - 1 /\ observed' # 0
      BY <3>1, RunningFacts
    <3>3. QED BY <2>2, <2>5, <3>1, <3>2
  <2>7. CASE ~ (IsMeasurement /\ observed = 0)
    <3>1. observed' = observed
      BY <2>1, <2>7 DEF Observed
    <3>2. observed' \in 0 .. pc' - 1
      BY <2>3, <3>1, RunningFacts
    <3>3. observed = 0 => ~ Measures(pc)
      BY <2>7, RunningFacts
    <3>4. QED BY <2>2, <2>3, <2>4, <2>5, <3>1, <3>2, <3>3
  <2>8. QED BY <2>6, <2>7
<1>6. ASSUME Engine = "exact" PROVE \A i \in 1 .. pc' - 1 : i \notin ResetsAt'
  <2>1. pc \notin ResetsAt /\ ResetsAt' = ResetsAt
    BY <1>6 DEF ResetsAt, Acts
  <2>2. \A i \in 1 .. pc' - 1 : i \in 1 .. pc - 1 \/ i = pc
    BY RunningFacts
  <2>3. QED BY <1>6, <2>1, <2>2 DEF Progress
<1>7. QED BY <1>1, <1>2, <1>3, <1>4, <1>5, <1>6 DEF Progress

-----------------------------------------------------------------------------
(* Every step keeps the account of the loop.                               *)

LEMMA InitEstablishesControl == ExecutionInit => ControlIInv
<1> SUFFICES ASSUME ExecutionInit PROVE ControlIInv
  OBVIOUS
<1>1. Arguments /\ status = "requested" /\ pc = 1 /\ observed = 0
  BY DEF ExecutionInit, Arguments
<1>2. pc \in 1 .. Len(circuit) + 1 /\ 1 .. pc - 1 = {}
  BY <1>1, ArgumentFacts
<1>3. Progress
  BY <1>1, <1>2 DEF Progress
<1>4. QED BY <1>1, <1>3 DEF ControlIInv, Stopped

LEMMA StartKeepsControl == ControlIInv /\ Start => ControlIInv'
<1> SUFFICES ASSUME ControlIInv, Start PROVE ControlIInv'
  OBVIOUS
<1>1. TraceRefusal \in {"none", "A204", "A205"}
  BY DEF TraceRefusal
<1>2. Progress'
  <2>1. UNCHANGED <<circuit, request, pc, observed>> /\ status' # "requested"
    BY <1>1 DEF Start
  <2>2. QED BY <2>1 DEF ControlIInv, Progress, Arguments, Engine, Measures, Late, ResetsAt, Acts
<1>3. Stopped'
  <2>1. TraceRefusal' = TraceRefusal
    BY DEF Start, TraceRefusal, Engine
  <2>2. status' = IF TraceRefusal = "none" THEN "running" ELSE TraceRefusal
    BY DEF Start
  <2>3. QED BY <1>1, <2>1, <2>2 DEF Stopped
<1>4. QED BY <1>2, <1>3 DEF ControlIInv

\* A step that only ends the run.
LEMMA EndingKeepsProgress ==
    ASSUME Progress, UNCHANGED <<circuit, request, pc, observed>>, status' # "requested"
    PROVE  Progress' /\ TraceRefusal' = TraceRefusal /\ Late' = Late /\ ResetsAt' = ResetsAt
                /\ Engine' = Engine
<1>1. Progress'
  BY DEF Progress, Arguments, Engine, Measures, Late, ResetsAt, Acts
<1>2. QED BY <1>1 DEF TraceRefusal, Engine, Late, ResetsAt, Acts

\* The next operation of the same run, or the next run of the same circuit.
LEMMA RunningOnIsNotStopped ==
    ASSUME Stopped, status = "running", UNCHANGED <<circuit, request, status>>
    PROVE  Stopped'
BY DEF Stopped, TraceRefusal, Engine

\* The two refusals at an operation, in any engine that makes them.
LEMMA RefusingResetKeepsControl ==
    ASSUME ControlIInv, Running, Engine = "exact", Operation.opcode = "RESET", Abort("A203")
    PROVE  ControlIInv'
<1>1. pc \in ResetsAt /\ status' = "A203"
  BY RunningFacts DEF ControlIInv, Abort
<1>2. Progress' /\ ResetsAt' = ResetsAt /\ Engine' = Engine /\ pc' = pc
  BY <1>1, EndingKeepsProgress DEF ControlIInv, Abort
<1>3. QED BY <1>1, <1>2 DEF ControlIInv, Stopped

LEMMA RefusingEvolutionKeepsControl ==
    ASSUME ControlIInv, Running, Engine # "sampled", FollowsObservation,
           Engine = "exact" => Operation.opcode # "RESET", Abort("A202")
    PROVE  ControlIInv'
<1>1. pc \in Late /\ (Engine = "exact" => pc \notin ResetsAt) /\ status' = "A202"
  BY FollowsIsLate, RunningFacts DEF ControlIInv, Abort
<1>2. Progress' /\ Late' = Late /\ ResetsAt' = ResetsAt /\ Engine' = Engine /\ pc' = pc
  BY <1>1, EndingKeepsProgress DEF ControlIInv, Abort
<1>3. QED BY <1>1, <1>2 DEF ControlIInv, Stopped

LEMMA FinishingKeepsControl ==
    ASSUME ControlIInv, status = "running", Engine # "sampled" => pc = Len(circuit) + 1,
           status' \in {"finished", "invalid trace"}, UNCHANGED <<circuit, request, pc, observed>>
    PROVE  ControlIInv'
<1>1. /\ Progress' /\ TraceRefusal' = TraceRefusal /\ Engine' = Engine
      /\ TraceRefusal = "none"
  BY EndingKeepsProgress DEF ControlIInv, Stopped
<1>2. QED BY <1>1 DEF ControlIInv, Stopped

LEMMA LoopKeepsControl == ControlIInv /\ LoopStep => ControlIInv'
<1> SUFFICES ASSUME ControlIInv, LoopStep PROVE ControlIInv'
  OBVIOUS
<1> USE DEF ControlIInv
<1>1. CASE RefuseReset
  BY <1>1, RefusingResetKeepsControl DEF RefuseReset
<1>2. CASE RefuseEvolution
  BY <1>2, RefusingEvolutionKeepsControl DEF RefuseEvolution
<1>3. CASE ExactOperation
  <2>1. Running /\ pc \notin ResetsAt /\ ~ FollowsObservation /\ observed' = Observed
    BY <1>3, RunningFacts DEF ExactOperation
  <2>2. UNCHANGED <<circuit, request, status>> /\ pc' = pc + 1
    BY <1>3 DEF ExactOperation
  <2>3. QED BY <2>1, <2>2, PassingKeepsProgress, RunningOnIsNotStopped DEF Running
<1>4. CASE DensityOperation
  <2>1. Running /\ Engine # "exact" /\ ~ FollowsObservation /\ observed' = Observed
    BY <1>4 DEF DensityOperation
  <2>2. UNCHANGED <<circuit, request, status>> /\ pc' = pc + 1
    BY <1>4 DEF DensityOperation
  <2>3. QED BY <2>1, <2>2, PassingKeepsProgress, RunningOnIsNotStopped DEF Running
<1>5. CASE SampledGate \/ SampledMeasure \/ SampledReset
  <2>1. Running /\ Engine = "sampled"
    BY <1>5 DEF SampledGate, SampledMeasure, SampledReset, CanEvolve
  <2>2. UNCHANGED <<circuit, request, status>> /\ pc' = pc + 1
    BY <1>5 DEF SampledGate, SampledMeasure, SampledReset
  <2>3. QED BY <2>1, <2>2, PassingKeepsProgress, RunningOnIsNotStopped DEF Running
<1>6. CASE DrawBeyondMass
  <2>1. Engine = "sampled" /\ status' = "impossible"
    BY <1>6 DEF DrawBeyondMass, CanEvolve, Abort
  <2>2. Progress' /\ Engine' = Engine
    BY <1>6, <2>1, EndingKeepsProgress DEF DrawBeyondMass, Abort
  <2>3. QED BY <2>1, <2>2 DEF Stopped
<1>7. CASE FinishShot
  <2>1. /\ status = "running" /\ Engine = "sampled"
        /\ UNCHANGED <<circuit, request, status, observed>>
        /\ pc' \in {1, pc}
    BY <1>7 DEF FinishShot
  <2>2. pc' \in 1 .. Len(circuit) + 1
    BY <2>1, ArgumentFacts DEF Progress
  <2>3. Progress'
    BY <2>1, <2>2 DEF Progress, Arguments, Engine
  <2>4. QED BY <2>1, <2>3, RunningOnIsNotStopped
<1>8. CASE FinishExecution
  BY <1>8, FinishingKeepsControl DEF FinishExecution, Complete
<1>9. QED BY <1>1, <1>2, <1>3, <1>4, <1>5, <1>6, <1>7, <1>8 DEF LoopStep

LEMMA StutterKeepsControl == ControlIInv /\ UNCHANGED executionVars => ControlIInv'
BY DEF ControlIInv, Progress, Stopped, Arguments, Engine, Measures, Late, ResetsAt, Acts,
       TraceRefusal, executionVars

LEMMA EngineStatuses ==
    EngineStep => status \in {"requested", "running"} /\ status' \in Statuses
<1> SUFFICES ASSUME EngineStep
             PROVE  status \in {"requested", "running"} /\ status' \in Statuses
  OBVIOUS
<1>1. CASE Start
  BY <1>1 DEF Start, TraceRefusal, Statuses
<1>2. CASE RefuseReset \/ RefuseEvolution \/ DrawBeyondMass
  BY <1>2 DEF RefuseReset, RefuseEvolution, DrawBeyondMass, CanEvolve, Running, Abort, Statuses
<1>3. CASE ExactOperation \/ DensityOperation \/ SampledGate \/ SampledMeasure \/ SampledReset
  BY <1>3 DEF ExactOperation, DensityOperation, SampledGate, SampledMeasure, SampledReset,
              CanEvolve, Running, Statuses
<1>4. CASE FinishShot \/ FinishExecution
  BY <1>4 DEF FinishShot, FinishExecution, Statuses
<1>5. QED BY <1>1, <1>2, <1>3, <1>4 DEF EngineStep

-----------------------------------------------------------------------------
(* Only a gate of this trajectory makes its amplitudes inexact.            *)

GivesUpOnRounding == status = "impossible" => Engine = "sampled" /\ Rounded /\ LastIsImpossible

DrawsIInv == (lossy => Rounded) /\ GivesUpOnRounding

LEMMA DrawFactsStay ==
    ASSUME UNCHANGED <<circuit, request, pc, state>>
    PROVE  (Rounded' <=> Rounded) /\ (LastIsImpossible' <=> LastIsImpossible) /\ Engine' = Engine
<1>1. Rounded' <=> Rounded
  BY DEF Rounded, Acts
<1>2. Possible(circuit[pc].targets)' = Possible(circuit[pc].targets)
  BY DEF Possible
<1>3. LastIsImpossible' <=> LastIsImpossible
  BY <1>2 DEF LastIsImpossible, Acts
<1>4. QED BY <1>1, <1>3 DEF Engine

LEMMA EndingKeepsDraws ==
    ASSUME DrawsIInv, UNCHANGED <<circuit, request, pc, state, lossy>>,
           status' # "impossible" \/ UNCHANGED status
    PROVE  DrawsIInv'
<1>1. (Rounded' <=> Rounded) /\ (LastIsImpossible' <=> LastIsImpossible) /\ Engine' = Engine
  BY DrawFactsStay
<1>2. GivesUpOnRounding'
  BY <1>1 DEF DrawsIInv, GivesUpOnRounding
<1>3. lossy' => Rounded'
  BY <1>1, Zenon DEF DrawsIInv
<1>4. QED BY <1>2, <1>3 DEF DrawsIInv

LEMMA PassingKeepsDraws ==
    ASSUME Progress, DrawsIInv, Running, UNCHANGED <<circuit, status>>, pc' = pc + 1,
           lossy' => lossy \/ Operation.opcode \in {"H", "RY"}
    PROVE  DrawsIInv'
<1>1. Acts(pc, {"H", "RY"}) <=> Operation.opcode \in {"H", "RY"}
  BY DEF Acts, Operation
<1>2. lossy' => Rounded \/ Acts(pc, {"H", "RY"})
  BY <1>1, Zenon DEF DrawsIInv
<1>3. ASSUME Rounded \/ Acts(pc, {"H", "RY"}) PROVE Rounded'
  <2>1. PICK i \in (1 .. pc - 1) \union {pc} : Acts(i, {"H", "RY"})
    BY <1>3 DEF Rounded
  <2>2. i \in 1 .. pc' - 1
    BY <2>1, RunningFacts
  <2>3. QED BY <2>1, <2>2 DEF Rounded, Acts
<1>4. GivesUpOnRounding'
  BY DEF GivesUpOnRounding, Running
<1>5. lossy' => Rounded'
  BY <1>2, <1>3, Zenon
<1>6. QED BY <1>4, <1>5 DEF DrawsIInv

LEMMA EngineKeepsDraws == Progress /\ DrawsIInv /\ EngineStep => DrawsIInv'
<1> SUFFICES ASSUME Progress, DrawsIInv, EngineStep PROVE DrawsIInv'
  OBVIOUS
<1>1. CASE Start
  <2>1. UNCHANGED <<circuit, request, pc, state, lossy>> /\ status' # "impossible"
    BY <1>1 DEF Start, TraceRefusal
  <2>2. QED BY <2>1, EndingKeepsDraws
<1>2. CASE RefuseReset \/ RefuseEvolution
  <2>1. UNCHANGED <<circuit, request, pc, state, lossy>> /\ status' \in {"A202", "A203"}
    BY <1>2 DEF RefuseReset, RefuseEvolution, Abort
  <2>2. QED BY <2>1, EndingKeepsDraws
<1>3. CASE FinishExecution
  <2>1. UNCHANGED <<circuit, request, pc, state, lossy>> /\ status' # "impossible"
    BY <1>3, Zenon DEF FinishExecution
  <2>2. QED BY <2>1, EndingKeepsDraws
<1>4. CASE ExactOperation \/ DensityOperation \/ SampledMeasure \/ SampledReset
  <2>1. /\ Running /\ pc' = pc + 1 /\ UNCHANGED <<circuit, status>> /\ lossy' = lossy
    BY <1>4 DEF ExactOperation, DensityOperation, SampledMeasure, SampledReset, CanEvolve
  <2>2. lossy' => lossy
    BY <2>1
  <2>3. QED BY <2>1, <2>2, PassingKeepsDraws
<1>5. CASE SampledGate
  <2>1. /\ Running /\ pc' = pc + 1 /\ UNCHANGED <<circuit, status>>
        /\ lossy' = (lossy \/ Operation.opcode \in {"H", "RY"})
    BY <1>5 DEF SampledGate, CanEvolve
  <2>2. lossy' => lossy \/ Operation.opcode \in {"H", "RY"}
    BY <2>1, Zenon
  <2>3. QED BY <2>1, <2>2, PassingKeepsDraws
<1>6. CASE DrawBeyondMass
  <2>1. /\ Engine = "sampled" /\ lossy /\ Operation.opcode \in {"MEASURE", "RESET"}
        /\ LastOutcome(Operation.targets) \notin Possible(Operation.targets)
        /\ UNCHANGED <<circuit, request, pc, state, lossy>>
    BY <1>6 DEF DrawBeyondMass, CanEvolve, Abort
  <2>2. Rounded
    BY <2>1, Zenon DEF DrawsIInv
  <2>3. LastIsImpossible
    BY <2>1 DEF LastIsImpossible, Operation, Acts
  <2>4. Rounded' /\ LastIsImpossible' /\ Engine' = "sampled"
    BY <2>1, <2>2, <2>3, DrawFactsStay
  <2>5. QED BY <2>4 DEF DrawsIInv, GivesUpOnRounding
<1>7. CASE FinishShot
  <2>1. /\ UNCHANGED <<circuit, status>> /\ status = "running"
        /\ lossy' = FALSE \/ UNCHANGED <<pc, lossy>>
    BY <1>7 DEF FinishShot
  <2>2. GivesUpOnRounding'
    BY <2>1 DEF GivesUpOnRounding
  <2>3. UNCHANGED pc => (Rounded' <=> Rounded)
    BY <2>1 DEF Rounded, Acts
  <2>4. lossy' => Rounded'
    BY <2>1, <2>3, Zenon DEF DrawsIInv
  <2>5. QED BY <2>2, <2>4 DEF DrawsIInv
<1>8. QED BY <1>1, <1>2, <1>3, <1>4, <1>5, <1>6, <1>7 DEF EngineStep

-----------------------------------------------------------------------------
(* What the account says of the refusals.                                  *)

\* A run that did not stop at an operation has passed them all.
RanThrough == Engine = "sampled" \/ pc = Len(circuit) + 1

LEMMA PassedEverything ==
    ASSUME Progress, RanThrough
    PROVE  /\ Engine # "sampled" => Late = {}
           /\ Engine = "exact" => ResetsAt = {}
<1>1. Engine # "sampled" => pc = Len(circuit) + 1
  BY DEF RanThrough
<1>2. Engine # "sampled" => 1 .. pc - 1 = DOMAIN circuit
  BY <1>1, ArgumentFacts DEF Progress
<1>3. Late \subseteq DOMAIN circuit /\ ResetsAt \subseteq DOMAIN circuit
  BY DEF Late, ResetsAt
<1>4. QED BY <1>2, <1>3 DEF Progress

LEMMA ControlGivesRefusals ==
    ASSUME ControlIInv,
           Ended /\ TraceRefusal = "none" /\ status \notin {"A202", "A203"} => RanThrough,
           GivesUpOnRounding
    PROVE  RefusalsAreExact
<1> DEFINE Evolves == Late # {} /\ (Engine = "exact" =>
                                        \A i \in ResetsAt : \E j \in Late : j < i)
           Resets  == ResetsAt # {} /\ \A j \in Late : \E i \in ResetsAt : i <= j
<1> SUFFICES ASSUME Ended, TraceRefusal = "none"
             PROVE  /\ (status = "A202") <=> (Engine # "sampled" /\ Evolves)
                    /\ (status = "A203") <=> (Engine = "exact" /\ Resets)
  BY Zenon DEF RefusalsAreExact, GivesUpOnRounding
<1>1. /\ Len(circuit) \in Nat /\ DOMAIN circuit = 1 .. Len(circuit)
      /\ Late \subseteq Nat /\ ResetsAt \subseteq Nat
      /\ Late \subseteq DOMAIN circuit /\ ResetsAt \subseteq DOMAIN circuit
      /\ pc \in Nat
  BY ArgumentFacts DEF ControlIInv, Progress, Late, ResetsAt
<1>2. /\ Engine # "sampled" => \A i \in Late : pc <= i
      /\ Engine = "exact" => \A i \in ResetsAt : pc <= i
  <2>1. \A i \in Nat : i \in DOMAIN circuit /\ i \notin 1 .. pc - 1 => pc <= i
    BY <1>1
  <2>2. QED BY <1>1, <2>1 DEF ControlIInv, Progress
<1>3. CASE status = "A202"
  <2>1. Engine # "sampled" /\ pc \in Late /\ (Engine = "exact" => pc \notin ResetsAt)
    BY <1>3 DEF ControlIInv, Stopped
  <2>2. Engine = "exact" => \A i \in ResetsAt : pc < i
    BY <1>1, <1>2, <2>1
  <2>3. Evolves
    BY <2>1, <2>2
  <2>4. Engine = "exact" => ~ Resets
    BY <1>1, <2>1, <2>2
  <2>5. QED BY <1>3, <2>1, <2>3, <2>4
<1>4. CASE status = "A203"
  <2>1. Engine = "exact" /\ pc \in ResetsAt
    BY <1>4 DEF ControlIInv, Stopped
  <2>2. Resets
    BY <1>2, <2>1
  <2>3. ~ Evolves
    BY <1>1, <1>2, <2>1
  <2>4. QED BY <1>4, <2>1, <2>2, <2>3
<1>5. CASE status \notin {"A202", "A203"}
  <2>1. /\ Engine # "sampled" => Late = {}
        /\ Engine = "exact" => ResetsAt = {}
    BY <1>5, PassedEverything DEF ControlIInv
  <2>2. QED BY <1>5, <2>1
<1>6. QED BY <1>3, <1>4, <1>5

-----------------------------------------------------------------------------
(* What a captured trace says of the run.                                  *)

LEMMA AppendFacts ==
    ASSUME NEW S, NEW s \in Seq(S), NEW e
    PROVE  /\ Append(s, e) \in Seq(S \union {e})
           /\ Len(s) \in Nat /\ DOMAIN s = 1 .. Len(s)
           /\ Len(Append(s, e)) = Len(s) + 1 /\ DOMAIN Append(s, e) = 1 .. Len(s) + 1
           /\ \A i \in 1 .. Len(s) : Append(s, e)[i] = s[i]
           /\ Append(s, e)[Len(s) + 1] = e
<1>1. s \in Seq(S \union {e})
  BY ElementOfSeq
<1>2. QED BY <1>1, AppendProperties, LenProperties

\* The state that a reset leaves, of the state before it.
ResetState(before, target, outcome) ==
    IF outcome = 1
    THEN ApplySingle(Collapse(before, <<target>>, <<outcome>>), target, Matrix.X)
    ELSE Collapse(before, <<target>>, <<outcome>>)

StepRecord(i, operation, before, after, probabilities, outcome, reset) ==
    [op |-> i, opcode |-> operation.opcode, before |-> before, after |-> after,
     probabilities |-> probabilities, outcome |-> outcome, reset |-> reset]

\* A step of a trace: what it says of an operation determines the state after it,
\* given the state before it.
ExactStep(i, operation, before, step) ==
    /\ operation.opcode # "RESET"
    /\ step = StepRecord(i, operation, before,
                         IF operation.opcode = "MEASURE" THEN before
                         ELSE ApplyOperation(before, operation),
                         IF operation.opcode = "MEASURE"
                         THEN Probabilities(before, operation.targets) ELSE NoEvidence,
                         NoEvidence, NoEvidence)

GateStep(i, operation, before, step) ==
    /\ operation.opcode \notin {"MEASURE", "RESET"}
    /\ step = StepRecord(i, operation, before, ApplyOperation(before, operation),
                         NoEvidence, NoEvidence, NoEvidence)

MeasureStep(i, operation, before, step) ==
    /\ operation.opcode = "MEASURE"
    /\ \E outcome \in Outcomes(operation.targets) :
          step = StepRecord(i, operation, before, Collapse(before, operation.targets, outcome),
                            NoEvidence, outcome, NoEvidence)

ResetStep(i, operation, before, step) ==
    /\ operation.opcode = "RESET"
    /\ \E bit \in {0, 1} :
          LET target == operation.targets[1]
          IN  step = StepRecord(i, operation, before, ResetState(before, target, bit),
                                NoEvidence, NoEvidence,
                                [op |-> i, target |-> target, outcome |-> bit])

SampledStep(i, operation, before, step) ==
    \/ GateStep(i, operation, before, step)
    \/ MeasureStep(i, operation, before, step)
    \/ ResetStep(i, operation, before, step)

StepOf(engine, i, operation, before, step) ==
    IF engine = "exact" THEN ExactStep(i, operation, before, step)
    ELSE SampledStep(i, operation, before, step)

StateBefore(steps, i) == IF i = 1 THEN GroundState ELSE steps[i - 1].after

\* Capture is on, and the engine agreed to it: a sampled run has one shot.
Capturing == request.traced /\ TraceRefusal = "none"

LEMMA CapturingFacts ==
    ASSUME Arguments, Capturing
    PROVE  Engine \in {"exact", "sampled"} /\ (Engine = "sampled" => request.shots = 1)
BY ArgumentFacts DEF Capturing, TraceRefusal

TraceIsSequence == \E S : trace \in Seq(S)

TraceIInv ==
    /\ TraceIsSequence
    /\ \A i \in DOMAIN trace :
          StepOf(Engine, i, circuit[i], StateBefore(trace, i), trace[i])
    /\ ~ Capturing => trace = <<>>
    /\ Capturing =>
          /\ Len(trace) = pc - 1
          /\ state = StateBefore(trace, pc)
          /\ \/ shots = <<>>
             \/ /\ Len(shots) = 1 /\ pc = Len(circuit) + 1
                /\ shots[1].final = state
    /\ status # "invalid trace"
    /\ status = "finished" /\ Engine = "sampled" => Len(shots) = request.shots
    /\ status = "requested" => shots = <<>>

\* The constructors take every trace whose steps are steps of the engine.
LEMMA TraceIsAccepted ==
    ASSUME Arguments, TraceIInv
    PROVE  TraceAccepted
<1> SUFFICES ASSUME NEW i \in DOMAIN trace
             PROVE  LET step == trace[i] IN
                    /\ step.op = i
                    /\ step.before = StateBefore(trace, i)
                    /\ step.probabilities # NoEvidence \/ step.outcome # NoEvidence
                          => step.opcode = "MEASURE" /\ step.reset = NoEvidence
                    /\ step.reset # NoEvidence => step.opcode = "RESET"
                    /\ Engine = "exact" => step.outcome = NoEvidence /\ step.reset = NoEvidence
                    /\ Engine = "sampled" => step.probabilities = NoEvidence
  BY DEF TraceAccepted, StateBefore
<1> DEFINE before == StateBefore(trace, i)
<1>1. StepOf(Engine, i, circuit[i], before, trace[i])
  BY DEF TraceIInv
<1> HIDE DEF before
<1>2. CASE Engine = "exact"
  BY <1>1, <1>2 DEF StepOf, ExactStep, StepRecord, before
<1>3. CASE Engine # "exact" /\ GateStep(i, circuit[i], before, trace[i])
  BY <1>3 DEF GateStep, StepRecord, before
<1>4. CASE Engine # "exact" /\ MeasureStep(i, circuit[i], before, trace[i])
  BY <1>4 DEF MeasureStep, StepRecord, before
<1>5. CASE Engine # "exact" /\ ResetStep(i, circuit[i], before, trace[i])
  BY <1>5 DEF ResetStep, StepRecord, before
<1>6. QED BY <1>1, <1>2, <1>3, <1>4, <1>5 DEF StepOf, SampledStep

LEMMA InitEstablishesTrace == ExecutionInit => TraceIInv
<1> SUFFICES ASSUME ExecutionInit PROVE TraceIInv
  OBVIOUS
<1>1. trace = <<>> /\ shots = <<>> /\ pc = 1 /\ state = GroundState /\ status = "requested"
  BY DEF ExecutionInit
<1>2. trace \in Seq({}) /\ DOMAIN trace = {} /\ Len(trace) = 0
  BY <1>1, EmptySeq
<1>3. QED BY <1>1, <1>2 DEF TraceIInv, TraceIsSequence, StateBefore

\* A step that captures a step of the trace, or an untraced step.
LEMMA CapturingKeepsTrace ==
    ASSUME ControlIInv, TraceIInv, Running,
           UNCHANGED <<circuit, request, status, shots>>, pc' = pc + 1,
           NEW step,
           trace' = IF request.traced THEN Append(trace, step) ELSE trace,
           Capturing => /\ StepOf(Engine, pc, Operation, state, step)
                        /\ step.after = state'
    PROVE  TraceIInv'
<1>1. Capturing' = Capturing /\ Engine' = Engine
  BY DEF Capturing, TraceRefusal, Engine
<1>2. TraceRefusal = "none"
  BY DEF ControlIInv, Stopped, Running
<1>3. /\ pc \in 1 .. Len(circuit) /\ Len(circuit) \in Nat /\ pc # Len(circuit) + 1
      /\ pc \in Nat \ {0} /\ pc # 1 => pc - 1 \in 1 .. pc - 1
      /\ pc + 1 # 1 /\ (pc + 1) - 1 = pc
      /\ status' # "finished" /\ status' # "requested"
  BY RunningFacts, ArgumentFacts DEF ControlIInv, Progress, Running
<1>4. CASE ~ Capturing
  <2>1. trace' = trace /\ trace = <<>>
    BY <1>2, <1>4, ArgumentFacts DEF Capturing, ControlIInv, Progress, TraceIInv
  <2>2. DOMAIN trace' = {} /\ \E S : trace' \in Seq(S)
    BY <2>1, EmptySeq
  <2>3. QED BY <1>1, <1>3, <1>4, <2>1, <2>2 DEF TraceIInv, TraceIsSequence
<1>5. CASE Capturing
  <2>1. trace' = Append(trace, step)
    BY <1>5 DEF Capturing
  <2>2. PICK S : trace \in Seq(S)
    BY DEF TraceIInv, TraceIsSequence
  <2>3. Len(trace) = pc - 1 /\ state = StateBefore(trace, pc)
    BY <1>5 DEF TraceIInv
  <2>4. /\ trace' \in Seq(S \union {step})
        /\ Len(trace') = pc /\ DOMAIN trace' = 1 .. pc
        /\ \A i \in 1 .. pc - 1 : i \in DOMAIN trace /\ trace'[i] = trace[i]
        /\ trace'[pc] = step
    <3>1. Len(trace) + 1 = pc /\ 1 .. Len(trace) = 1 .. pc - 1
      BY <1>3, <2>3
    <3>2. QED BY <2>1, <2>2, <3>1, AppendFacts
  <2>5. StateBefore(trace', pc) = StateBefore(trace, pc) /\ state = StateBefore(trace, pc)
    BY <1>3, <2>4, <2>3 DEF StateBefore
  <2>6. ASSUME NEW i \in DOMAIN trace'
        PROVE  StepOf(Engine, i, circuit[i], StateBefore(trace', i), trace'[i])
    <3>1. CASE i = pc
      BY <1>5, <2>4, <2>5, <3>1 DEF Operation
    <3>2. CASE i # pc
      <4>1. i \in 1 .. pc - 1
        BY <1>3, <2>4, <3>2
      <4>2. StateBefore(trace', i) = StateBefore(trace, i)
        BY <1>3, <2>4, <4>1 DEF StateBefore
      <4>3. QED BY <2>4, <4>1, <4>2 DEF TraceIInv
    <3>3. QED BY <3>1, <3>2
  <2>7. StateBefore(trace', pc + 1) = state'
    BY <1>3, <1>5, <2>4 DEF StateBefore
  <2>8. shots = <<>>
    BY <1>3, <1>5 DEF TraceIInv
  <2>9. Len(trace') = pc' - 1 /\ state' = StateBefore(trace', pc')
    BY <1>3, <2>4, <2>7
  <2>10. \A i \in DOMAIN trace' :
            StepOf(Engine', i, circuit'[i], StateBefore(trace', i), trace'[i])
    BY <1>1, <2>6
  <2>11. (\E S1 : trace' \in Seq(S1)) /\ shots' = <<>> /\ Capturing' /\ status' = "running"
    BY <1>1, <1>5, <2>4, <2>8 DEF Running
  <2>12. QED BY <2>9, <2>10, <2>11 DEF TraceIInv, TraceIsSequence
<1>6. QED BY <1>4, <1>5

\* A step that leaves the trace, the state and the place where they are.
LEMMA KeepingKeepsTrace ==
    ASSUME TraceIInv, UNCHANGED <<circuit, request, pc, state, shots, trace>>,
           status' \notin {"requested", "finished", "invalid trace"}
    PROVE  TraceIInv'
<1>1. Capturing' = Capturing /\ Engine' = Engine
  BY DEF Capturing, TraceRefusal, Engine
<1>2. QED BY <1>1 DEF TraceIInv, TraceIsSequence

LEMMA LoopKeepsTrace == ControlIInv /\ TraceIInv /\ LoopStep => TraceIInv'
<1> SUFFICES ASSUME ControlIInv, TraceIInv, LoopStep PROVE TraceIInv'
  OBVIOUS
<1>1. CASE RefuseReset \/ RefuseEvolution \/ DrawBeyondMass
  BY <1>1, KeepingKeepsTrace
     DEF RefuseReset, RefuseEvolution, DrawBeyondMass, Abort
<1>2. CASE ExactOperation
  <2> DEFINE step == TraceStep(state, state',
                               IF IsMeasurement THEN Probabilities(state', Operation.targets)
                               ELSE NoEvidence, NoEvidence, NoEvidence)
  <2>1. /\ Running /\ Engine = "exact" /\ Operation.opcode # "RESET"
        /\ UNCHANGED <<circuit, request, status, shots>> /\ pc' = pc + 1
        /\ trace' = IF request.traced THEN Append(trace, step) ELSE trace
        /\ state' = IF IsMeasurement THEN state ELSE ApplyOperation(state, Operation)
    BY <1>2 DEF ExactOperation, Captured
  <2>2. StepOf(Engine, pc, Operation, state, step) /\ step.after = state'
    BY <2>1 DEF StepOf, ExactStep, StepRecord, TraceStep, IsMeasurement
  <2>3. QED BY <2>1, <2>2, CapturingKeepsTrace
<1>3. CASE DensityOperation
  <2>1. /\ Running /\ Engine = "density"
        /\ UNCHANGED <<circuit, request, status, state, shots, trace>> /\ pc' = pc + 1
    BY <1>3 DEF DensityOperation
  <2>2. TraceRefusal = "none" /\ status' # "invalid trace" /\ status' # "finished"
            /\ status' # "requested"
    BY <2>1 DEF Running, ControlIInv, Stopped
  <2>3. ~ Capturing /\ ~ Capturing' /\ Engine' = Engine
    BY <2>1, <2>2 DEF Capturing, TraceRefusal, Engine
  <2>4. QED BY <2>1, <2>2, <2>3 DEF TraceIInv, TraceIsSequence
<1>4. CASE SampledGate
  <2> DEFINE step == TraceStep(state, state', NoEvidence, NoEvidence, NoEvidence)
  <2>1. /\ Running /\ Engine = "sampled" /\ Operation.opcode \notin {"MEASURE", "RESET"}
        /\ UNCHANGED <<circuit, request, status, shots>> /\ pc' = pc + 1
        /\ trace' = IF request.traced THEN Append(trace, step) ELSE trace
        /\ state' = ApplyOperation(state, Operation)
    BY <1>4 DEF SampledGate, Captured, CanEvolve
  <2>2. StepOf(Engine, pc, Operation, state, step) /\ step.after = state'
    BY <2>1 DEF StepOf, SampledStep, GateStep, StepRecord, TraceStep
  <2>3. QED BY <2>1, <2>2, CapturingKeepsTrace
<1>5. CASE SampledMeasure
  <2>1. PICK outcome \in Possible(Operation.targets) :
           /\ state' = Collapse(state, Operation.targets, outcome)
           /\ trace' = Captured(state, state', NoEvidence, outcome, NoEvidence)
    BY <1>5 DEF SampledMeasure
  <2> DEFINE step == TraceStep(state, state', NoEvidence, outcome, NoEvidence)
  <2>2. /\ Running /\ Engine = "sampled" /\ Operation.opcode = "MEASURE"
        /\ UNCHANGED <<circuit, request, status, shots>> /\ pc' = pc + 1
        /\ trace' = IF request.traced THEN Append(trace, step) ELSE trace
    BY <1>5, <2>1 DEF SampledMeasure, Captured, CanEvolve, IsMeasurement
  <2>3. outcome \in Outcomes(Operation.targets)
    BY DEF Possible
  <2>4. MeasureStep(pc, Operation, state, step) /\ step.after = state'
    BY <2>1, <2>2, <2>3 DEF MeasureStep, StepRecord, TraceStep
  <2>5. StepOf(Engine, pc, Operation, state, step)
    BY <2>2, <2>4 DEF StepOf, SampledStep
  <2>6. QED BY <2>2, <2>4, <2>5, CapturingKeepsTrace
<1>6. CASE SampledReset
  <2> DEFINE target == Operation.targets[1]
             Event(bit) == [op |-> pc, target |-> target, outcome |-> bit]
  <2>1. PICK outcome \in Possible(Operation.targets) :
           /\ state' = Corrected(Event(outcome[1]).target, Event(outcome[1]).outcome)
           /\ trace' = Captured(state, state', NoEvidence, NoEvidence, Event(outcome[1]))
    BY <1>6 DEF SampledReset
  <2> DEFINE bit == outcome[1]
             step == TraceStep(state, state', NoEvidence, NoEvidence, Event(bit))
  <2>2. /\ Running /\ Engine = "sampled" /\ Operation.opcode = "RESET"
        /\ UNCHANGED <<circuit, request, status, shots>> /\ pc' = pc + 1
        /\ trace' = IF request.traced THEN Append(trace, step) ELSE trace
    BY <1>6, <2>1 DEF SampledReset, Captured, CanEvolve
  <2>3. state' = ResetState(state, target, bit) /\ bit \in {0, 1}
    <3>1. state' = ResetState(state, target, bit)
      BY <2>1 DEF Corrected, ResetState
    <3>2. Operation \in AllocatedOperations
      BY <2>2, RunningFacts DEF ControlIInv
    <3>3. 1 \in DOMAIN Operation.targets
      BY <3>2, FirstTarget
    <3>4. outcome \in [DOMAIN Operation.targets -> {0, 1}]
      BY <2>1 DEF Possible, Outcomes
    <3>5. QED BY <3>1, <3>3, <3>4
  <2>4. ResetStep(pc, Operation, state, step) /\ step.after = state'
    BY <2>2, <2>3 DEF ResetStep, StepRecord, TraceStep
  <2>5. StepOf(Engine, pc, Operation, state, step)
    BY <2>2, <2>4 DEF StepOf, SampledStep
  <2>6. QED BY <2>2, <2>4, <2>5, CapturingKeepsTrace
<1>7. CASE FinishShot
  <2>1. /\ Engine = "sampled" /\ pc = Len(circuit) + 1 /\ status = "running"
        /\ UNCHANGED <<circuit, request, status, trace>>
        /\ shots' = Append(shots, [measured |-> measured, resets |-> resets, final |-> state])
        /\ Len(shots') < request.shots \/ UNCHANGED <<pc, state>>
        /\ Len(shots) < request.shots
    BY <1>7 DEF FinishShot
  <2>2. Capturing' = Capturing /\ Engine' = Engine
    BY <2>1 DEF Capturing, TraceRefusal, Engine
  <2>3. CASE ~ Capturing
    BY <2>1, <2>2, <2>3 DEF TraceIInv, TraceIsSequence
  <2>4. CASE Capturing
    <3>1. request.shots = 1 /\ request.shots' = 1
      BY <2>1, <2>4, CapturingFacts DEF ControlIInv, Progress
    <3>2. shots = <<>>
      BY <2>1, <2>4, <3>1 DEF TraceIInv
    <3>3. Len(shots') = 1 /\ shots'[1].final = state
      BY <2>1, <3>2
    <3>4. UNCHANGED <<pc, state>>
      BY <2>1, <3>1, <3>3
    <3>5. QED BY <2>1, <2>2, <2>4, <3>3, <3>4 DEF TraceIInv, TraceIsSequence
  <2>5. QED BY <2>3, <2>4
<1>8. CASE FinishExecution
  <2>1. status' = "finished"
    BY <1>8, TraceIsAccepted DEF FinishExecution, ControlIInv, Progress
  <2>2. /\ UNCHANGED <<circuit, request, pc, state, shots, trace>>
        /\ Engine = "sampled" => Len(shots) = request.shots
    BY <1>8 DEF FinishExecution, Complete
  <2>3. Capturing' = Capturing /\ Engine' = Engine
    BY <2>2 DEF Capturing, TraceRefusal, Engine
  <2>4. QED BY <2>1, <2>2, <2>3 DEF TraceIInv, TraceIsSequence
<1>9. QED BY <1>1, <1>2, <1>3, <1>4, <1>5, <1>6, <1>7, <1>8 DEF LoopStep

LEMMA StartKeepsTrace == TraceIInv /\ Start => TraceIInv'
<1> SUFFICES ASSUME TraceIInv, Start PROVE TraceIInv'
  OBVIOUS
<1>1. status' \in {"running", "A204", "A205"}
  BY DEF Start, TraceRefusal
<1>2. QED BY <1>1, KeepingKeepsTrace DEF Start

LEMMA StutterKeepsTrace == TraceIInv /\ UNCHANGED executionVars => TraceIInv'
BY DEF TraceIInv, TraceIsSequence, Capturing, TraceRefusal, Engine, executionVars

LEMMA TraceIInvExplains ==
    ASSUME ControlIInv, TraceIInv
    PROVE  TraceExplainsRun
<1> SUFFICES ASSUME status = "finished", request.traced, circuit # <<>>
             PROVE  /\ Len(trace) = Len(circuit)
                    /\ Last(trace).after = IF Engine = "sampled" THEN shots[1].final ELSE state
  BY DEF TraceExplainsRun, TraceIInv
<1>1. Capturing
  BY DEF Capturing, ControlIInv, Stopped
<1>2. Engine \in {"exact", "sampled"} /\ (Engine = "sampled" => request.shots = 1)
  BY <1>1, CapturingFacts DEF ControlIInv, Progress
<1>3. Len(circuit) \in Nat \ {0}
  BY CircuitsAreSequences, EmptySeq, LenProperties DEF ControlIInv, Progress, Arguments
<1>4. Engine = "sampled" => Len(shots) = 1 /\ shots # <<>>
  <2>1. Engine = "sampled" => Len(shots) = 1
    BY <1>2 DEF TraceIInv
  <2>2. Len(<<>>) # 1
    BY EmptySeq
  <2>3. QED BY <2>1, <2>2
<1>5. pc = Len(circuit) + 1 /\ (Engine = "sampled" => shots[1].final = state)
  BY <1>1, <1>2, <1>4 DEF TraceIInv, ControlIInv, Stopped
<1>6. Len(trace) = Len(circuit)
  BY <1>1, <1>3, <1>5 DEF TraceIInv
<1>7. state = trace[Len(trace)].after
  BY <1>1, <1>3, <1>5, <1>6 DEF TraceIInv, StateBefore
<1>8. QED BY <1>5, <1>6, <1>7 DEF Last

-----------------------------------------------------------------------------
(* What the engines compute: vectors of integers and matrices of integers.   *)

LEMMA BasisIsFinite == IsFiniteSet(BasisStates)
BY SlotsAreFinite, FS_SUBSET DEF BasisStates

LEMMA BasisFacts ==
    ASSUME NEW b \in BasisStates, NEW slot \in Slots
    PROVE  b \ {slot} \in BasisStates /\ b \union {slot} \in BasisStates
BY DEF BasisStates

IsMatrix(m) == \A i, j \in {1, 2} : m[i][j] \in Int

LEMMA MatrixOfGate == ASSUME NEW g \in DOMAIN Matrix PROVE IsMatrix(Matrix[g])
<1>1. g \in {"X", "H", "Z", "RY"}
  BY DEF Matrix
<1>2. CASE g = "X"
  BY <1>2 DEF Matrix, IsMatrix
<1>3. CASE g = "H"
  BY <1>3 DEF Matrix, IsMatrix
<1>4. CASE g = "Z"
  BY <1>4 DEF Matrix, IsMatrix
<1>5. CASE g = "RY"
  BY <1>5 DEF Matrix, IsMatrix
<1>6. QED BY <1>1, <1>2, <1>3, <1>4, <1>5

LEMMA GroundIsState == GroundState \in States /\ GroundDensity \in Densities
BY DEF GroundState, GroundDensity, States, Densities

\* The row of a matrix that gives the amplitude of a basis state.
Line(m, target, b) == IF target \in b THEN m[2] ELSE m[1]

LEMMA LineFacts ==
    ASSUME NEW m, IsMatrix(m), NEW target, NEW b
    PROVE  Line(m, target, b)[1] \in Int /\ Line(m, target, b)[2] \in Int
BY DEF IsMatrix, Line

LEMMA IntegerOperations ==
    ASSUME NEW x \in Int, NEW y \in Int
    PROVE  x * y \in Int /\ x + y \in Int
OBVIOUS

LEMMA SingleFacts ==
    ASSUME NEW v \in States, NEW target \in Slots, NEW m, IsMatrix(m)
    PROVE  /\ ApplySingle(v, target, m) \in States
           /\ \A b \in BasisStates :
                 /\ v[b \ {target}] \in Int /\ v[b \union {target}] \in Int
                 /\ ApplySingle(v, target, m)[b] = Line(m, target, b)[1] * v[b \ {target}]
                                                  + Line(m, target, b)[2] * v[b \union {target}]
<1>1. ASSUME NEW b \in BasisStates
      PROVE  /\ v[b \ {target}] \in Int /\ v[b \union {target}] \in Int
             /\ ApplySingle(v, target, m)[b] = Line(m, target, b)[1] * v[b \ {target}]
                                              + Line(m, target, b)[2] * v[b \union {target}]
             /\ ApplySingle(v, target, m)[b] \in Int
  <2> DEFINE x == v[b \ {target}]
             y == v[b \union {target}]
             row == Line(m, target, b)
  <2>1. x \in Int /\ y \in Int
    BY BasisFacts DEF States
  <2>2. ApplySingle(v, target, m)[b] = row[1] * x + row[2] * y
    BY DEF ApplySingle, Line
  <2>3. row[1] \in Int /\ row[2] \in Int
    BY LineFacts
  <2> HIDE DEF x, y, row
  <2>4. ApplySingle(v, target, m)[b] \in Int
    BY <2>1, <2>2, <2>3, IntegerOperations
  <2>5. QED BY <2>1, <2>2, <2>4 DEF x, y, row
<1>2. ApplySingle(v, target, m) = [b \in BasisStates |-> ApplySingle(v, target, m)[b]]
  BY DEF ApplySingle
<1>3. QED BY <1>1, <1>2 DEF States

LEMMA PermutedFacts ==
    ASSUME NEW b \in BasisStates, NEW control, NEW target \in Slots
    PROVE  Permuted(b, control, target) \in BasisStates
BY BasisFacts DEF Permuted

LEMMA GateFacts ==
    ASSUME NEW v \in States, NEW operation \in AllocatedOperations, operation.opcode \in Gates
    PROVE  ApplyOperation(v, operation) \in States
<1> DEFINE target == operation.targets[1]
<1>1. target \in Slots
  BY FirstTarget
<1>2. CASE operation.opcode = "CX"
  <2>1. ApplyCx(v, operation.control, target) \in States
    BY <1>1, PermutedFacts DEF ApplyCx, States
  <2>2. QED BY <1>2, <2>1 DEF ApplyOperation
<1>3. CASE operation.opcode # "CX"
  <2>1. operation.opcode \in DOMAIN Matrix
    BY <1>3 DEF Gates
  <2>2. ApplySingle(v, target, Matrix[operation.opcode]) \in States
    BY <1>1, <2>1, MatrixOfGate, SingleFacts
  <2>3. QED BY <1>3, <2>2 DEF ApplyOperation
<1>4. QED BY <1>2, <1>3

LEMMA CollapseFacts ==
    ASSUME NEW v \in States, NEW targets, NEW outcome
    PROVE  Collapse(v, targets, outcome) \in States
BY DEF Collapse, States

LEMMA ResetFacts ==
    ASSUME NEW v \in States, NEW target \in Slots, NEW outcome
    PROVE  ResetState(v, target, outcome) \in States
<1>1. IsMatrix(Matrix.X)
  BY DEF Matrix, IsMatrix
<1>2. QED BY <1>1, CollapseFacts, SingleFacts DEF ResetState

(* Densities. *)

LEMMA DensityFacts ==
    ASSUME NEW D \in Densities, NEW row \in BasisStates, NEW col \in BasisStates
    PROVE  D[row] \in States /\ D[row][col] \in Int
BY DEF Densities, States

\* The operator on the rows.
RowOperator(D, target, m) ==
    [row \in BasisStates |-> [col \in BasisStates |->
        Line(m, target, row)[1] * D[row \ {target}][col]
        + Line(m, target, row)[2] * D[row \union {target}][col]]]

LEMMA OperatorFacts ==
    ASSUME NEW D \in Densities, NEW target \in Slots, NEW m, IsMatrix(m)
    PROVE  /\ RowOperator(D, target, m) \in Densities
           /\ ApplyOperator(D, target, m)
                 = [row \in BasisStates |-> ApplySingle(RowOperator(D, target, m)[row], target, m)]
           /\ ApplyOperator(D, target, m) \in Densities
<1> DEFINE L == RowOperator(D, target, m)
<1>1. ASSUME NEW row \in BasisStates, NEW col \in BasisStates PROVE L[row][col] \in Int
  <2> DEFINE x == D[row \ {target}][col]
             y == D[row \union {target}][col]
             line == Line(m, target, row)
  <2>1. x \in Int /\ y \in Int
    BY BasisFacts, DensityFacts
  <2>2. line[1] \in Int /\ line[2] \in Int
    BY LineFacts
  <2>3. L[row][col] = line[1] * x + line[2] * y
    BY DEF RowOperator
  <2> HIDE DEF x, y, line, L
  <2>4. QED BY <2>1, <2>2, <2>3, IntegerOperations
<1>2. L \in Densities
  BY <1>1 DEF RowOperator, Densities, States
<1>3. ApplyOperator(D, target, m) = [row \in BasisStates |-> ApplySingle(L[row], target, m)]
  BY DEF ApplyOperator, RowOperator, Line
<1> HIDE DEF L
<1>4. \A row \in BasisStates : ApplySingle(L[row], target, m) \in States
  BY <1>2, SingleFacts DEF Densities
<1>5. ApplyOperator(D, target, m) \in Densities
  BY <1>3, <1>4 DEF Densities
<1>6. QED BY <1>2, <1>3, <1>5 DEF L

LEMMA ExchangeFacts ==
    ASSUME NEW D \in Densities, NEW control, NEW target \in Slots
    PROVE  DensityCx(D, control, target) \in Densities
BY PermutedFacts, DensityFacts DEF DensityCx, Densities, States

LEMMA DensityResetFacts ==
    ASSUME NEW D \in Densities, NEW target \in Slots
    PROVE  DensityReset(D, target) \in Densities
<1>1. ASSUME NEW row \in BasisStates, NEW col \in BasisStates
      PROVE  D[row][col] \in Int /\ D[row \union {target}][col \union {target}] \in Int
  BY BasisFacts, DensityFacts
<1>2. ASSUME NEW row \in BasisStates, NEW col \in BasisStates
      PROVE  DensityReset(D, target)[row][col] \in Int
  <2> DEFINE x == D[row][col]
             y == D[row \union {target}][col \union {target}]
  <2>1. x \in Int /\ y \in Int
    BY <1>1
  <2>2. DensityReset(D, target)[row][col] = IF target \in row \/ target \in col THEN 0 ELSE x + y
    BY DEF DensityReset
  <2> HIDE DEF x, y
  <2>3. QED BY <2>1, <2>2
<1>3. DensityReset(D, target) =
         [row \in BasisStates |-> [col \in BasisStates |-> DensityReset(D, target)[row][col]]]
  BY DEF DensityReset
<1>4. QED BY <1>2, <1>3 DEF Densities, States

IsChannel(channel) ==
    /\ IsFiniteSet(DOMAIN channel)
    /\ \A k \in DOMAIN channel : channel[k].weight \in Nat /\ IsMatrix(channel[k].matrix)

\* An entry of the sum over the Kraus operators.
Term(D, target, channel, row, col) ==
    [k \in DOMAIN channel |->
        channel[k].weight * ApplyOperator(D, target, channel[k].matrix)[row][col]]

LEMMA TermIsInt ==
    ASSUME NEW D \in Densities, NEW target \in Slots, NEW channel, IsChannel(channel),
           NEW row \in BasisStates, NEW col \in BasisStates, NEW k \in DOMAIN channel
    PROVE  /\ channel[k].weight \in Int
           /\ ApplyOperator(D, target, channel[k].matrix)[row][col] \in Int
           /\ Term(D, target, channel, row, col)[k]
                 = channel[k].weight * ApplyOperator(D, target, channel[k].matrix)[row][col]
           /\ Term(D, target, channel, row, col)[k] \in Int
<1> DEFINE w == channel[k].weight
           e == ApplyOperator(D, target, channel[k].matrix)[row][col]
<1>1. w \in Int /\ IsMatrix(channel[k].matrix)
  BY DEF IsChannel
<1>2. e \in Int
  BY <1>1, OperatorFacts, DensityFacts
<1>3. Term(D, target, channel, row, col)[k] = w * e
  BY DEF Term
<1> HIDE DEF w, e
<1>4. w * e \in Int
  BY <1>1, <1>2
<1>5. QED BY <1>1, <1>2, <1>3, <1>4 DEF w, e

LEMMA ChannelFacts ==
    ASSUME NEW D \in Densities, NEW target \in Slots, NEW channel, IsChannel(channel)
    PROVE  /\ \A row, col \in BasisStates :
                 ApplyChannel(D, target, channel)[row][col]
                   = Sum(Term(D, target, channel, row, col), DOMAIN channel)
           /\ ApplyChannel(D, target, channel) \in Densities
<1> DEFINE S == DOMAIN channel
           applied == [k \in S |-> ApplyOperator(D, target, channel[k].matrix)]
           E == ApplyChannel(D, target, channel)
           Next(row, col, g) ==
               [s \in SUBSET S |-> IF s = {} THEN 0
                                   ELSE LET k == CHOOSE k \in s : TRUE
                                        IN  channel[k].weight * applied[k][row][col] + g[s \ {k}]]
<1>1. ASSUME NEW row \in BasisStates, NEW col \in BasisStates
      PROVE  E[row][col] = Sum(Term(D, target, channel, row, col), S)
  <2> DEFINE f == Term(D, target, channel, row, col)
  <2>1. E[row][col] = (CHOOSE g : g = Next(row, col, g))[S]
    BY DEF ApplyChannel, MapThenSumSet, MapThenFoldSet
  <2>2. ASSUME NEW g PROVE Next(row, col, g) = SumStep(f, S, g)
    <3>1. ASSUME NEW k \in S PROVE f[k] = channel[k].weight * applied[k][row][col]
      BY DEF Term
    <3> HIDE DEF f, applied
    <3>2. ASSUME NEW s \in SUBSET S PROVE Next(row, col, g)[s] = SumStep(f, S, g)[s]
      BY <3>1 DEF SumStep
    <3>3. QED BY <3>2 DEF SumStep
  <2> HIDE DEF f, Next
  <2>3. (CHOOSE g : g = Next(row, col, g)) = (CHOOSE g : g = SumStep(f, S, g))
    BY <2>2
  <2>4. QED BY <2>1, <2>3 DEF Sum, f
<1>2. \A row, col \in BasisStates : E[row][col] \in Int
  BY <1>1, TermIsInt, SumIsInt DEF IsChannel
<1>3. E = [row \in BasisStates |-> [col \in BasisStates |-> E[row][col]]]
  BY DEF ApplyChannel
<1> HIDE DEF E
<1>4. E \in Densities
  BY <1>2, <1>3 DEF Densities, States
<1>5. QED BY <1>1, <1>4 DEF E

\* The weight of an outcome: the squares of the amplitudes that have it.
Having(targets, outcome) == {b \in BasisStates : Outcome(b, targets) = outcome}

Squares(v) == [b \in BasisStates |-> v[b] * v[b]]

LEMMA WeightFacts ==
    ASSUME NEW v \in States, NEW targets, NEW outcome
    PROVE  /\ Weight(v, targets, outcome) = Sum(Squares(v), Having(targets, outcome))
           /\ Weight(v, targets, outcome) \in Nat
           /\ Weight(v, targets, outcome) > 0 => \E b \in Having(targets, outcome) : v[b] # 0
<1> DEFINE S == Having(targets, outcome)
           f == Squares(v)
           Next(g) == [s \in SUBSET S |-> IF s = {} THEN 0
                                          ELSE LET b == CHOOSE b \in s : TRUE
                                               IN  v[b] * v[b] + g[s \ {b}]]
<1>1. S \subseteq BasisStates /\ IsFiniteSet(S)
  BY BasisIsFinite, FS_Subset DEF Having
<1>2. Weight(v, targets, outcome) = (CHOOSE g : g = Next(g))[S]
  BY DEF Weight, MapThenSumSet, MapThenFoldSet, Having
<1>3. ASSUME NEW g PROVE Next(g) = SumStep(f, S, g)
  <2>1. \A b \in S : f[b] = v[b] * v[b]
    BY <1>1 DEF Squares
  <2> HIDE DEF f, S
  <2>2. ASSUME NEW s \in SUBSET S PROVE Next(g)[s] = SumStep(f, S, g)[s]
    BY <2>1 DEF SumStep
  <2>3. QED BY <2>2 DEF SumStep
<1> HIDE DEF Next
<1>4. Weight(v, targets, outcome) = Sum(f, S)
  <2>1. (CHOOSE g : g = Next(g)) = (CHOOSE g : g = SumStep(f, S, g))
    BY <1>3
  <2>2. QED BY <1>2, <2>1 DEF Sum
<1>5. \A b \in S : v[b] \in Int /\ f[b] = v[b] * v[b]
  BY <1>1 DEF States, Squares
<1>6. \A x \in Int : x * x \in Nat /\ (x = 0 => x * x = 0)
  OBVIOUS
<1> HIDE DEF S, f
<1>7. \A b \in S : f[b] \in Nat /\ (v[b] = 0 => f[b] = 0)
  BY <1>5, <1>6
<1>8. Sum(f, S) \in Nat
  BY <1>1, <1>7, SumOfNaturals
<1>9. (\A b \in S : v[b] = 0) => Sum(f, S) = 0
  BY <1>1, <1>7, SumOfZeros
<1>10. QED BY <1>4, <1>8, <1>9 DEF f, S

-----------------------------------------------------------------------------
(* The types of an execution's values.                                       *)

LEMMA NoiseFacts ==
    ASSUME Arguments, NEW gate \in DOMAIN request.noise
    PROVE  /\ gate \in DOMAIN Matrix /\ IsChannel(request.noise[gate])
           /\ \E n \in Nat : DOMAIN request.noise[gate] = 1 .. n
<1> DEFINE n == Len(request.noise[gate])
<1>1. request \in Requests
  BY DEF Arguments
<1>2. /\ gate \in DOMAIN Matrix /\ n \in Nat /\ DOMAIN request.noise[gate] = 1 .. n
      /\ \A k \in DOMAIN request.noise[gate] :
            request.noise[gate][k].weight \in Nat /\ IsMatrix(request.noise[gate][k].matrix)
  BY <1>1, NoiseIsOfGates DEF IsMatrix
<1> HIDE DEF n
<1>3. IsFiniteSet(1 .. n)
  BY <1>2, FS_Interval
<1>4. QED BY <1>2, <1>3 DEF IsChannel

\* The four things the density engine may do at an operation.
LEMMA EvolvedCases ==
    ASSUME Arguments, NEW target, target = Operation.targets[1]
    PROVE  /\ IsMeasurement => Evolved = density
           /\ Operation.opcode = "RESET" => Evolved = DensityReset(density, target)
           /\ NoisyGate => Evolved = ApplyChannel(IdealDensity(density, Operation), target,
                                                  request.noise[Operation.opcode])
           /\ ~ IsMeasurement /\ Operation.opcode # "RESET" /\ ~ NoisyGate
                 => Evolved = IdealDensity(density, Operation)
<1>1. NoisyGate => ~ IsMeasurement /\ Operation.opcode # "RESET"
  BY NoiseFacts DEF NoisyGate, IsMeasurement, Matrix
<1>2. IsMeasurement => Operation.opcode # "RESET"
  BY DEF IsMeasurement
<1>3. IsMeasurement => Evolved = density
  BY <1>1, <1>2, Zenon DEF Evolved
<1>4. Operation.opcode = "RESET" => Evolved = DensityReset(density, target)
  BY <1>1, <1>2, Zenon DEF Evolved
<1>5. NoisyGate => Evolved = ApplyChannel(IdealDensity(density, Operation), target,
                                          request.noise[Operation.opcode])
  BY <1>1, <1>2, Zenon DEF Evolved
<1>6. ~ IsMeasurement /\ Operation.opcode # "RESET" /\ ~ NoisyGate
         => Evolved = IdealDensity(density, Operation)
  BY Zenon DEF Evolved
<1>7. QED BY <1>3, <1>4, <1>5, <1>6

LEMMA IdealDensityFacts ==
    ASSUME NEW D \in Densities, NEW operation \in AllocatedOperations,
           operation.opcode \in Gates
    PROVE  IdealDensity(D, operation) \in Densities
<1> DEFINE target == operation.targets[1]
<1>1. target \in Slots
  BY FirstTarget
<1>2. CASE operation.opcode = "CX"
  BY <1>1, <1>2, ExchangeFacts DEF IdealDensity
<1>3. CASE operation.opcode # "CX"
  <2>1. operation.opcode \in DOMAIN Matrix
    BY <1>3 DEF Gates
  <2>2. QED BY <1>1, <1>3, <2>1, MatrixOfGate, OperatorFacts DEF IdealDensity
<1>4. QED BY <1>2, <1>3

LEMMA OpcodeIsKnown ==
    ASSUME NEW operation \in AllocatedOperations
    PROVE  operation.opcode \in Gates \union {"MEASURE", "RESET"}
BY DEF AllocatedOperations, Gates

LEMMA EvolvedFacts ==
    ASSUME Arguments, Operation \in AllocatedOperations, density \in Densities
    PROVE  Evolved \in Densities
<1> DEFINE target == Operation.targets[1]
<1>1. target \in Slots
  BY FirstTarget
<1>2. CASE IsMeasurement
  BY <1>2, EvolvedCases
<1>3. CASE Operation.opcode = "RESET"
  BY <1>1, <1>3, EvolvedCases, DensityResetFacts
<1>4. CASE ~ IsMeasurement /\ Operation.opcode # "RESET"
  <2>1. IdealDensity(density, Operation) \in Densities
    BY <1>4, OpcodeIsKnown, IdealDensityFacts DEF IsMeasurement
  <2>2. NoisyGate => ApplyChannel(IdealDensity(density, Operation), target,
                                  request.noise[Operation.opcode]) \in Densities
    BY <1>1, <2>1, NoiseFacts, ChannelFacts DEF NoisyGate
  <2>3. QED BY <1>4, <2>1, <2>2, EvolvedCases
<1>5. QED BY <1>2, <1>3, <1>4

\* What a trajectory records of the operations before a place: every observation with
\* an outcome for each of its targets, and the internal outcomes of the resets.
IsObservation(m, n) ==
    m.op \in 1 .. n - 1 /\ m.op \in DOMAIN circuit /\ Measures(m.op)
      /\ m.outcome \in Outcomes(circuit[m.op].targets)

IsResetEvent(r, n) ==
    r.op \in 1 .. n - 1 /\ r.op \in ResetsAt /\ r.target = circuit[r.op].targets[1]
      /\ r.outcome \in {0, 1}

Observations(records, n) ==
    /\ \E S : records \in Seq(S)
    /\ \A i \in DOMAIN records : IsObservation(records[i], n)
    /\ \A j \in 1 .. n - 1 : Measures(j) => \E i \in DOMAIN records : records[i].op = j

ResetEvents(records, n) ==
    (\E S : records \in Seq(S)) /\ \A i \in DOMAIN records : IsResetEvent(records[i], n)

Recorded(shot) == Observations(shot.measured, Len(circuit) + 1) /\ shot.final \in States

ValuesIInv ==
    /\ state \in States /\ density \in Densities /\ lossy \in BOOLEAN
    /\ Engine = "sampled" => /\ observed = 0
                             /\ Observations(measured, pc) /\ ResetEvents(resets, pc)
    /\ Engine # "sampled" => measured = <<>> /\ resets = <<>> /\ shots = <<>>
    /\ (\E S : shots \in Seq(S)) /\ Len(shots) <= request.shots
    /\ \A n \in DOMAIN shots : Recorded(shots[n])

LEMMA ObservationsOfNothing == Observations(<<>>, 1) /\ ResetEvents(<<>>, 1)
<1>1. <<>> \in Seq({}) /\ DOMAIN <<>> = {} /\ 1 .. 1 - 1 = {}
  BY EmptySeq
<1>2. QED BY <1>1 DEF Observations, ResetEvents

\* Passing an operation, with or without a record of it.
LEMMA ObservationsGrow ==
    ASSUME Progress, Running, NEW records, Observations(records, pc)
    PROVE  /\ ~ IsMeasurement => Observations(records, pc + 1)
           /\ \A outcome \in Outcomes(Operation.targets) :
                 IsMeasurement =>
                    Observations(Append(records, [op |-> pc, outcome |-> outcome]), pc + 1)
<1>1. PICK S : records \in Seq(S)
  BY DEF Observations
<1>2. /\ pc \in Nat /\ pc \in DOMAIN circuit
      /\ \A j : j \in 1 .. (pc + 1) - 1 <=> j \in 1 .. pc - 1 \/ j = pc
      /\ IsMeasurement <=> Measures(pc)
  BY RunningFacts
<1>3. ASSUME NEW m, IsObservation(m, pc) PROVE IsObservation(m, pc + 1)
  BY <1>2, <1>3 DEF IsObservation
<1>4. CASE ~ IsMeasurement
  BY <1>1, <1>2, <1>3, <1>4 DEF Observations
<1>5. ASSUME NEW outcome \in Outcomes(Operation.targets), IsMeasurement
      PROVE  Observations(Append(records, [op |-> pc, outcome |-> outcome]), pc + 1)
  <2> DEFINE e == [op |-> pc, outcome |-> outcome]
             more == Append(records, e)
  <2>1. IsObservation(e, pc + 1)
    BY <1>2, <1>5 DEF IsObservation, Operation
  <2>2. e.op = pc
    OBVIOUS
  <2> HIDE DEF e
  <2>3. /\ more \in Seq(S \union {e}) /\ Len(records) \in Nat
        /\ DOMAIN records = 1 .. Len(records) /\ DOMAIN more = 1 .. Len(records) + 1
        /\ \A i \in 1 .. Len(records) : more[i] = records[i]
        /\ more[Len(records) + 1] = e
    BY <1>1, AppendFacts
  <2> HIDE DEF more
  <2>4. \A i \in DOMAIN more : i \in DOMAIN records \/ i = Len(records) + 1
    BY <2>3
  <2>5. DOMAIN records \subseteq DOMAIN more /\ Len(records) + 1 \in DOMAIN more
    BY <2>3
  <2>6. \A i \in DOMAIN more : IsObservation(more[i], pc + 1)
    BY <1>3, <2>1, <2>3, <2>4 DEF Observations
  <2>7. ASSUME NEW j \in 1 .. (pc + 1) - 1, Measures(j)
        PROVE  \E i \in DOMAIN more : more[i].op = j
    <3>1. CASE j = pc
      BY <2>2, <2>3, <2>5, <3>1
    <3>2. CASE j \in 1 .. pc - 1
      <4>1. PICK i \in DOMAIN records : records[i].op = j
        BY <2>7, <3>2 DEF Observations
      <4>2. QED BY <2>3, <2>5, <4>1
    <3>3. QED BY <1>2, <3>1, <3>2
  <2>8. QED BY <2>3, <2>6, <2>7 DEF Observations, more, e
<1>6. QED BY <1>4, <1>5

LEMMA ResetEventsGrow ==
    ASSUME Progress, Running, NEW records, ResetEvents(records, pc)
    PROVE  /\ ResetEvents(records, pc + 1)
           /\ \A bit \in {0, 1} :
                 Operation.opcode = "RESET" =>
                    ResetEvents(Append(records, [op |-> pc, target |-> Operation.targets[1],
                                                 outcome |-> bit]), pc + 1)
<1>1. PICK S : records \in Seq(S)
  BY DEF ResetEvents
<1>2. /\ pc \in Nat /\ pc \in DOMAIN circuit
      /\ \A j : j \in 1 .. (pc + 1) - 1 <=> j \in 1 .. pc - 1 \/ j = pc
      /\ Operation.opcode = "RESET" <=> pc \in ResetsAt
  BY RunningFacts
<1>3. ASSUME NEW r, IsResetEvent(r, pc) PROVE IsResetEvent(r, pc + 1)
  BY <1>2, <1>3 DEF IsResetEvent
<1>4. ResetEvents(records, pc + 1)
  BY <1>1, <1>3 DEF ResetEvents
<1>5. ASSUME NEW bit \in {0, 1}, Operation.opcode = "RESET"
      PROVE  ResetEvents(Append(records, [op |-> pc, target |-> Operation.targets[1],
                                          outcome |-> bit]), pc + 1)
  <2> DEFINE e == [op |-> pc, target |-> Operation.targets[1], outcome |-> bit]
             more == Append(records, e)
  <2>1. IsResetEvent(e, pc + 1)
    BY <1>2, <1>5 DEF IsResetEvent, Operation
  <2> HIDE DEF e
  <2>2. /\ more \in Seq(S \union {e}) /\ Len(records) \in Nat
        /\ DOMAIN records = 1 .. Len(records) /\ DOMAIN more = 1 .. Len(records) + 1
        /\ \A i \in 1 .. Len(records) : more[i] = records[i]
        /\ more[Len(records) + 1] = e
    BY <1>1, AppendFacts
  <2> HIDE DEF more
  <2>3. \A i \in DOMAIN more : i \in DOMAIN records \/ i = Len(records) + 1
    BY <2>2
  <2>4. \A i \in DOMAIN more : IsResetEvent(more[i], pc + 1)
    BY <1>4, <2>1, <2>2, <2>3 DEF ResetEvents
  <2>5. QED BY <2>2, <2>4 DEF ResetEvents, more, e
<1>6. QED BY <1>4, <1>5

LEMMA InitEstablishesValues == ExecutionInit => ValuesIInv
<1> SUFFICES ASSUME ExecutionInit PROVE ValuesIInv
  OBVIOUS
<1>1. /\ state = GroundState /\ density = GroundDensity /\ lossy = FALSE /\ observed = 0
      /\ pc = 1 /\ measured = <<>> /\ resets = <<>> /\ shots = <<>> /\ Arguments
  BY DEF ExecutionInit, Arguments
<1>2. shots \in Seq({}) /\ DOMAIN shots = {} /\ Len(shots) = 0
  BY <1>1, EmptySeq
<1>3. Len(shots) <= request.shots
  BY <1>1, <1>2, ArgumentFacts
<1>4. QED BY <1>1, <1>2, <1>3, GroundIsState, ObservationsOfNothing DEF ValuesIInv

\* A step that leaves the values and the place where they are.
LEMMA KeepingKeepsValues ==
    ASSUME ValuesIInv,
           UNCHANGED <<circuit, request, pc, state, density, observed, lossy, measured, resets,
                       shots>>
    PROVE  ValuesIInv'
BY DEF ValuesIInv, Engine, Observations, ResetEvents, IsObservation, IsResetEvent, Recorded,
       Measures, ResetsAt, Acts

\* A step of the sampled engine past an operation.
LEMMA SamplingKeepsValues ==
    ASSUME Progress, ValuesIInv, Running, Engine = "sampled",
           UNCHANGED <<circuit, request, density, observed, shots>>, pc' = pc + 1,
           state' \in States, lossy' \in BOOLEAN,
           Observations(measured', pc + 1), ResetEvents(resets', pc + 1)
    PROVE  ValuesIInv'
<1>1. Engine' = Engine
  BY DEF Engine
<1>2. Observations(measured, pc)'
  BY DEF Observations, IsObservation, Measures, Acts
<1>3. ResetEvents(resets, pc)'
  BY DEF ResetEvents, IsResetEvent, ResetsAt, Acts
<1>4. ASSUME NEW n \in DOMAIN shots PROVE Recorded(shots[n])'
  <2>1. Recorded(shots[n])
    BY DEF ValuesIInv
  <2>2. QED BY <2>1 DEF Recorded, Observations, IsObservation, Measures, Acts
<1>5. QED BY <1>1, <1>2, <1>3, <1>4 DEF ValuesIInv

LEMMA LoopKeepsValues == ControlIInv /\ ValuesIInv /\ LoopStep => ValuesIInv'
<1> SUFFICES ASSUME ControlIInv, ValuesIInv, LoopStep PROVE ValuesIInv'
  OBVIOUS
<1>a. Progress /\ Arguments
  BY DEF ControlIInv, Progress
<1>1. CASE RefuseReset \/ RefuseEvolution \/ DrawBeyondMass
  BY <1>1, KeepingKeepsValues DEF RefuseReset, RefuseEvolution, DrawBeyondMass, Abort
<1>2. CASE ExactOperation
  <2>1. /\ Running /\ Engine = "exact" /\ Operation.opcode # "RESET"
        /\ state' = IF IsMeasurement THEN state ELSE ApplyOperation(state, Operation)
        /\ UNCHANGED <<circuit, request, density, lossy, measured, resets, shots>>
    BY <1>2 DEF ExactOperation
  <2>2. Operation \in AllocatedOperations
    BY <1>a, <2>1, RunningFacts
  <2>3. ~ IsMeasurement => Operation.opcode \in Gates
    BY <2>1, <2>2, OpcodeIsKnown DEF IsMeasurement
  <2>4. state' \in States
    BY <2>1, <2>2, <2>3, GateFacts DEF ValuesIInv
  <2>5. Engine' = Engine
    BY <2>1 DEF Engine
  <2>6. QED BY <2>1, <2>4, <2>5, EmptySeq DEF ValuesIInv
<1>3. CASE DensityOperation
  <2>1. /\ Running /\ Engine = "density" /\ density' = Evolved
        /\ UNCHANGED <<circuit, request, state, lossy, measured, resets, shots>>
    BY <1>3 DEF DensityOperation
  <2>2. Operation \in AllocatedOperations
    BY <1>a, <2>1, RunningFacts
  <2>3. density' \in Densities
    BY <1>a, <2>1, <2>2, EvolvedFacts DEF ValuesIInv
  <2>4. Engine' = Engine
    BY <2>1 DEF Engine
  <2>5. QED BY <2>1, <2>3, <2>4, EmptySeq DEF ValuesIInv
<1>4. CASE SampledGate
  <2>1. /\ Running /\ Engine = "sampled" /\ Operation.opcode \notin {"MEASURE", "RESET"}
        /\ state' = ApplyOperation(state, Operation)
        /\ lossy' = (lossy \/ Operation.opcode \in {"H", "RY"})
        /\ UNCHANGED <<circuit, request, density, observed, measured, resets, shots>>
        /\ pc' = pc + 1
    BY <1>4 DEF SampledGate, CanEvolve
  <2>2. Operation \in AllocatedOperations
    BY <1>a, <2>1, RunningFacts
  <2>3. state' \in States /\ lossy' \in BOOLEAN
    BY <2>1, <2>2, OpcodeIsKnown, GateFacts DEF ValuesIInv
  <2>4. Observations(measured', pc + 1) /\ ResetEvents(resets', pc + 1)
    BY <1>a, <2>1, ObservationsGrow, ResetEventsGrow DEF ValuesIInv, IsMeasurement
  <2>5. QED BY <1>a, <2>1, <2>3, <2>4, SamplingKeepsValues
<1>5. CASE SampledMeasure
  <2>1. /\ Running /\ Engine = "sampled" /\ IsMeasurement
        /\ UNCHANGED <<circuit, request, density, observed, lossy, resets, shots>>
        /\ pc' = pc + 1
    BY <1>5 DEF SampledMeasure, CanEvolve
  <2>2. PICK outcome \in Possible(Operation.targets) :
           /\ state' = Collapse(state, Operation.targets, outcome)
           /\ measured' = Append(measured, [op |-> pc, outcome |-> outcome])
    BY <1>5 DEF SampledMeasure
  <2>3. outcome \in Outcomes(Operation.targets)
    BY DEF Possible
  <2>4. state' \in States /\ lossy' \in BOOLEAN
    BY <2>1, <2>2, CollapseFacts DEF ValuesIInv
  <2>5. Observations(measured', pc + 1)
    BY <1>a, <2>1, <2>2, <2>3, ObservationsGrow DEF ValuesIInv
  <2>6. ResetEvents(resets', pc + 1)
    BY <1>a, <2>1, ResetEventsGrow DEF ValuesIInv
  <2>7. QED BY <1>a, <2>1, <2>4, <2>5, <2>6, SamplingKeepsValues
<1>6. CASE SampledReset
  <2> DEFINE target == Operation.targets[1]
  <2>1. /\ Running /\ Engine = "sampled" /\ Operation.opcode = "RESET"
        /\ UNCHANGED <<circuit, request, density, observed, lossy, measured, shots>>
        /\ pc' = pc + 1
    BY <1>6 DEF SampledReset, CanEvolve
  <2>2. PICK outcome \in Possible(Operation.targets) :
           /\ state' = Corrected(target, outcome[1])
           /\ resets' = Append(resets, [op |-> pc, target |-> target, outcome |-> outcome[1]])
    BY <1>6 DEF SampledReset
  <2>3. Operation \in AllocatedOperations
    BY <1>a, <2>1, RunningFacts
  <2>4. target \in Slots /\ outcome[1] \in {0, 1}
    BY <2>3, FirstTarget DEF Possible, Outcomes
  <2>5. state' \in States /\ lossy' \in BOOLEAN
    <3>1. state' = ResetState(state, target, outcome[1])
      BY <2>2 DEF Corrected, ResetState
    <3>2. QED BY <2>1, <2>4, <3>1, ResetFacts DEF ValuesIInv
  <2>6. Observations(measured', pc + 1)
    BY <1>a, <2>1, ObservationsGrow DEF ValuesIInv, IsMeasurement
  <2>7. ResetEvents(resets', pc + 1)
    BY <1>a, <2>1, <2>2, <2>4, ResetEventsGrow DEF ValuesIInv
  <2>8. QED BY <1>a, <2>1, <2>5, <2>6, <2>7, SamplingKeepsValues
<1>7. CASE FinishShot
  <2> DEFINE shot == [measured |-> measured, resets |-> resets, final |-> state]
  <2>1. /\ Engine = "sampled" /\ pc = Len(circuit) + 1 /\ Len(shots) < request.shots
        /\ shots' = Append(shots, shot)
        /\ UNCHANGED <<circuit, request, density, observed>>
        /\ \/ pc' = 1 /\ state' = GroundState /\ lossy' = FALSE
                 /\ measured' = <<>> /\ resets' = <<>>
           \/ UNCHANGED <<pc, state, lossy, measured, resets>>
    BY <1>7 DEF FinishShot
  <2>2. Observations(measured, Len(circuit) + 1)
    BY <2>1 DEF ValuesIInv
  <2>3. shot.measured = measured /\ shot.final = state
    OBVIOUS
  <2> HIDE DEF shot
  <2>4. Recorded(shot)
    BY <2>2, <2>3 DEF Recorded, ValuesIInv
  <2>5. PICK S : shots \in Seq(S)
    BY DEF ValuesIInv
  <2>6. /\ shots' \in Seq(S \union {shot}) /\ Len(shots) \in Nat
        /\ Len(shots') = Len(shots) + 1
        /\ DOMAIN shots = 1 .. Len(shots) /\ DOMAIN shots' = 1 .. Len(shots) + 1
        /\ \A n \in 1 .. Len(shots) : shots'[n] = shots[n]
        /\ shots'[Len(shots) + 1] = shot
    BY <2>1, <2>5, AppendFacts
  <2>7. \A n \in DOMAIN shots' : n \in DOMAIN shots \/ n = Len(shots) + 1
    BY <2>6
  <2>8. \A n \in DOMAIN shots' : Recorded(shots'[n])
    BY <2>4, <2>6, <2>7 DEF ValuesIInv
  <2>9. Len(shots') <= request.shots
    BY <1>a, <2>1, <2>6, ArgumentFacts
  <2>10. Engine' = Engine
    BY <2>1 DEF Engine
  <2>11. \A r : Recorded(r) => Recorded(r)'
    BY <2>1 DEF Recorded, Observations, IsObservation, Measures, Acts
  <2>12. \A n \in DOMAIN shots' : Recorded(shots[n])'
    BY <2>8, <2>11 DEF Recorded, Observations, IsObservation
  <2>13. CASE UNCHANGED <<pc, state, lossy, measured, resets>>
    <3>1. Observations(measured, pc)' /\ ResetEvents(resets, pc)'
      BY <2>1, <2>13 DEF ValuesIInv, Observations, ResetEvents, IsObservation, IsResetEvent,
                         Measures, ResetsAt, Acts
    <3>2. QED BY <2>1, <2>6, <2>9, <2>10, <2>12, <2>13, <3>1 DEF ValuesIInv
  <2>14. CASE pc' = 1 /\ state' = GroundState /\ lossy' = FALSE
                /\ measured' = <<>> /\ resets' = <<>>
    <3>1. Observations(measured, pc)' /\ ResetEvents(resets, pc)'
      BY <2>14, EmptySeq DEF Observations, ResetEvents
    <3>2. QED BY <2>1, <2>6, <2>9, <2>10, <2>12, <2>14, <3>1, GroundIsState DEF ValuesIInv
  <2>15. QED BY <2>1, <2>13, <2>14
<1>8. CASE FinishExecution
  BY <1>8, KeepingKeepsValues DEF FinishExecution
<1>9. QED BY <1>1, <1>2, <1>3, <1>4, <1>5, <1>6, <1>7, <1>8 DEF LoopStep

LEMMA StartKeepsValues == ValuesIInv /\ Start => ValuesIInv'
BY KeepingKeepsValues DEF Start

LEMMA StutterKeepsValues == ValuesIInv /\ UNCHANGED executionVars => ValuesIInv'
BY KeepingKeepsValues DEF executionVars

LEMMA ValuesHaveTypes ==
    ASSUME ControlIInv, ValuesIInv
    PROVE  ExecutionTypeOK
<1>1. pc \in 1 .. Len(circuit) + 1 /\ Arguments
  BY DEF ControlIInv, Progress
<1>2. observed = 0 \/ (observed \in DOMAIN circuit /\ Acts(observed, {"MEASURE"}))
  <2>1. CASE Engine = "sampled"
    BY <2>1 DEF ValuesIInv
  <2>2. CASE Engine # "sampled"
    <3>1. observed \in 0 .. pc - 1 /\ (observed # 0 => Measures(observed))
      BY <2>2 DEF ControlIInv, Progress
    <3>2. observed # 0 => observed \in DOMAIN circuit
      BY <1>1, <3>1, ArgumentFacts
    <3>3. QED BY <3>1, <3>2 DEF Measures
  <2>3. QED BY <2>1, <2>2
<1>3. /\ \A i \in DOMAIN measured :
            measured[i].outcome \in Outcomes(circuit[measured[i].op].targets)
      /\ \A i \in DOMAIN resets : resets[i].outcome \in {0, 1}
  <2>1. CASE Engine = "sampled"
    BY <2>1 DEF ValuesIInv, Observations, IsObservation, ResetEvents, IsResetEvent
  <2>2. CASE Engine # "sampled"
    BY <2>2, EmptySeq DEF ValuesIInv
  <2>3. QED BY <2>1, <2>2
<1>4. QED BY <1>1, <1>2, <1>3 DEF ExecutionTypeOK, ValuesIInv

-----------------------------------------------------------------------------
(* The branches of a circuit: what a trajectory does at each operation.       *)

LEMMA OneTarget ==
    ASSUME NEW operation \in AllocatedOperations, operation.opcode # "MEASURE"
    PROVE  operation.targets = <<operation.targets[1]>>
<1>1. operation.targets \in Seq(Slots) /\ Len(operation.targets) = 1
  BY DEF AllocatedOperations
<1>2. operation.targets = [k \in 1 .. 1 |-> operation.targets[k]]
  BY <1>1
<1>3. QED BY <1>2

\* The four things that an operation may do to a vector, and the choices it has.
Noisy(i) == Acts(i, DOMAIN request.noise)

Unitary(i) == ~ Measures(i) /\ i \notin ResetsAt /\ ~ Noisy(i)

LEMMA BranchCases ==
    ASSUME Arguments, NEW i \in DOMAIN circuit, NEW v, NEW choice, NEW target,
           target = circuit[i].targets[1]
    PROVE  /\ Measures(i) => BranchStep(v, i, choice) = v /\ ChoicesAt(i) = {0}
           /\ i \in ResetsAt => /\ BranchStep(v, i, choice) = ResetState(v, target, choice)
                                /\ ChoicesAt(i) = {0, 1}
           /\ Noisy(i) =>
                 /\ BranchStep(v, i, choice)
                      = ApplySingle(ApplyOperation(v, circuit[i]), target,
                                    request.noise[circuit[i].opcode][choice].matrix)
                 /\ ChoicesAt(i) = DOMAIN request.noise[circuit[i].opcode]
           /\ Unitary(i) => /\ BranchStep(v, i, choice) = ApplyOperation(v, circuit[i])
                            /\ ChoicesAt(i) = {0}
           /\ Noisy(i) => circuit[i].opcode \in DOMAIN Matrix /\ ~ Measures(i) /\ i \notin ResetsAt
           /\ ~ Measures(i) /\ i \notin ResetsAt => circuit[i].opcode \in Gates
           /\ i \in ResetsAt => ~ Measures(i)
<1>1. Noisy(i) => circuit[i].opcode \in DOMAIN Matrix /\ ~ Measures(i) /\ i \notin ResetsAt
  BY NoiseFacts DEF Noisy, Measures, ResetsAt, Acts, Matrix
<1>2. i \in ResetsAt => ~ Measures(i)
  BY DEF ResetsAt, Measures, Acts
<1>3. Acts(i, {"RESET"}) <=> i \in ResetsAt
  BY DEF ResetsAt
<1>4. circuit[i] \in AllocatedOperations
  BY ArgumentFacts
<1>5. ~ Measures(i) /\ i \notin ResetsAt => circuit[i].opcode \in Gates
  BY <1>4, OpcodeIsKnown DEF Measures, ResetsAt, Acts
<1>6. Measures(i) => BranchStep(v, i, choice) = v /\ ChoicesAt(i) = {0}
  <2>1. Measures(i) => BranchStep(v, i, choice) = v
    BY <1>1, <1>2, <1>3, Zenon DEF BranchStep, Measures, Noisy
  <2>2. Measures(i) => ChoicesAt(i) = {0}
    BY <1>1, <1>2, <1>3, Zenon DEF ChoicesAt, Noisy
  <2>3. QED BY <2>1, <2>2
<1>7. i \in ResetsAt => /\ BranchStep(v, i, choice) = ResetState(v, target, choice)
                        /\ ChoicesAt(i) = {0, 1}
  <2>1. ASSUME i \in ResetsAt PROVE circuit[i].targets = <<target>>
    BY <1>2, <1>4, <2>1, OneTarget DEF Measures, Acts
  <2>2. i \in ResetsAt => BranchStep(v, i, choice) =
            LET kept == Collapse(v, circuit[i].targets, <<choice>>)
            IN  IF choice = 1 THEN ApplySingle(kept, circuit[i].targets[1], Matrix.X) ELSE kept
    BY <1>1, <1>2, <1>3, Zenon DEF BranchStep, Measures, Noisy
  <2>3. i \in ResetsAt => ChoicesAt(i) = {0, 1}
    BY <1>1, <1>2, <1>3, Zenon DEF ChoicesAt, Noisy
  <2>4. QED BY <2>1, <2>2, <2>3 DEF ResetState
<1>8. Noisy(i) =>
         /\ BranchStep(v, i, choice)
              = ApplySingle(ApplyOperation(v, circuit[i]), target,
                            request.noise[circuit[i].opcode][choice].matrix)
         /\ ChoicesAt(i) = DOMAIN request.noise[circuit[i].opcode]
  <2>1. Noisy(i) => BranchStep(v, i, choice)
              = ApplySingle(ApplyOperation(v, circuit[i]), target,
                            request.noise[circuit[i].opcode][choice].matrix)
    BY <1>1, <1>2, <1>3, Zenon DEF BranchStep, Measures, Noisy
  <2>2. Noisy(i) => ChoicesAt(i) = DOMAIN request.noise[circuit[i].opcode]
    BY <1>1, <1>2, <1>3, Zenon DEF ChoicesAt, Noisy
  <2>3. QED BY <2>1, <2>2
<1>9. Unitary(i) => /\ BranchStep(v, i, choice) = ApplyOperation(v, circuit[i])
                    /\ ChoicesAt(i) = {0}
  <2>1. Unitary(i) => BranchStep(v, i, choice) = ApplyOperation(v, circuit[i])
    BY <1>3, Zenon DEF BranchStep, Measures, Noisy, Unitary
  <2>2. Unitary(i) => ChoicesAt(i) = {0}
    BY <1>3, Zenon DEF ChoicesAt, Noisy, Unitary
  <2>3. QED BY <2>1, <2>2
<1>10. QED BY <1>1, <1>2, <1>5, <1>6, <1>7, <1>8, <1>9

LEMMA WhatAnOperationIs ==
    ASSUME NEW i PROVE Measures(i) \/ i \in ResetsAt \/ Noisy(i) \/ Unitary(i)
BY DEF Unitary

LEMMA BranchStepIsState ==
    ASSUME Arguments, NEW i \in DOMAIN circuit, NEW v \in States, NEW choice \in ChoicesAt(i)
    PROVE  BranchStep(v, i, choice) \in States
<1> DEFINE target == circuit[i].targets[1]
<1>1. circuit[i] \in AllocatedOperations /\ target \in Slots
  BY ArgumentFacts, FirstTarget
<1>2. CASE Measures(i)
  BY <1>2, BranchCases
<1>3. CASE i \in ResetsAt
  BY <1>1, <1>3, BranchCases, ResetFacts
<1>4. CASE Noisy(i)
  <2>1. ApplyOperation(v, circuit[i]) \in States
    BY <1>1, <1>4, BranchCases, GateFacts
  <2>2. IsMatrix(request.noise[circuit[i].opcode][choice].matrix)
    BY <1>4, BranchCases, NoiseFacts DEF Noisy, Acts, IsChannel
  <2>3. QED BY <1>1, <1>4, <2>1, <2>2, BranchCases, SingleFacts
<1>5. CASE Unitary(i)
  BY <1>1, <1>5, BranchCases, GateFacts DEF Unitary
<1>6. QED BY <1>2, <1>3, <1>4, <1>5, WhatAnOperationIs

LEMMA ChoicesAreFinite ==
    ASSUME Arguments, NEW i \in DOMAIN circuit PROVE IsFiniteSet(ChoicesAt(i))
<1>1. IsFiniteSet({0}) /\ IsFiniteSet({0, 1})
  <2>1. IsFiniteSet({0})
    BY FS_Singleton
  <2>2. IsFiniteSet({0} \union {1})
    BY <2>1, FS_AddElement
  <2>3. {0, 1} = {0} \union {1}
    OBVIOUS
  <2>4. QED BY <2>1, <2>2, <2>3
<1>2. Noisy(i) => IsFiniteSet(ChoicesAt(i))
  BY BranchCases, NoiseFacts DEF Noisy, Acts, IsChannel
<1>3. QED BY <1>1, <1>2, BranchCases, WhatAnOperationIs

\* The weight that a choice has.
ChoiceWeight(i, choice) ==
    IF Noisy(i) THEN request.noise[circuit[i].opcode][choice].weight ELSE 1

LEMMA ChoiceWeightIsNatural ==
    ASSUME Arguments, NEW i \in DOMAIN circuit, NEW choice \in ChoicesAt(i)
    PROVE  ChoiceWeight(i, choice) \in Nat
BY BranchCases, NoiseFacts DEF ChoiceWeight, Noisy, Acts, IsChannel

\* The vector and the weight after each operation of a branch.
BranchPath(branch, n, w) ==
    /\ w \in [0 .. n -> States] /\ w[0] = GroundState
    /\ \A i \in 1 .. n : w[i] = BranchStep(w[i - 1], i, branch[i])

WeightPath(branch, n, w) ==
    /\ w \in [0 .. n -> Nat] /\ w[0] = 1
    /\ \A i \in 1 .. n : w[i] = w[i - 1] * ChoiceWeight(i, branch[i])

LEMMA BranchFacts ==
    ASSUME Arguments, NEW n \in 0 .. Len(circuit), NEW b \in Branches(n)
    PROVE  /\ n \in Nat /\ 1 .. n \subseteq DOMAIN circuit
           /\ DOMAIN b = 1 .. n /\ \A i \in 1 .. n : b[i] \in ChoicesAt(i)
BY ArgumentFacts DEF Branches

LEMMA BranchHasPath ==
    ASSUME Arguments, NEW n \in 0 .. Len(circuit), NEW b \in Branches(n)
    PROVE  \E w : BranchPath(b, n, w)
<1> DEFINE step == [i \in 1 .. n |-> [v \in States |-> BranchStep(v, i, b[i])]]
<1>1. step \in [1 .. n -> [States -> States]]
  BY BranchFacts, BranchStepIsState
<1>2. \A i \in 1 .. n : \A v \in States : step[i][v] = BranchStep(v, i, b[i])
  OBVIOUS
<1> HIDE DEF step
<1>3. PICK w \in [0 .. n -> States] : Advances(w, n, GroundState, step)
  BY <1>1, BranchFacts, GroundIsState, PrefixValues
<1>4. \A i \in 1 .. n : w[i - 1] \in States
  BY BranchFacts
<1>5. w[0] = GroundState /\ \A i \in 1 .. n : w[i] = step[i][w[i - 1]]
  BY <1>3 DEF Advances
<1>6. \A i \in 1 .. n : w[i] = BranchStep(w[i - 1], i, b[i])
  BY <1>2, <1>4, <1>5
<1>7. BranchPath(b, n, w)
  BY <1>3, <1>5, <1>6 DEF BranchPath
<1>8. QED BY <1>7

LEMMA WeightHasPath ==
    ASSUME Arguments, NEW n \in 0 .. Len(circuit), NEW b \in Branches(n)
    PROVE  \E w : WeightPath(b, n, w)
<1> DEFINE step == [i \in 1 .. n |-> [x \in Nat |-> x * ChoiceWeight(i, b[i])]]
<1>1. step \in [1 .. n -> [Nat -> Nat]]
  <2>1. ASSUME NEW i \in 1 .. n, NEW x \in Nat PROVE x * ChoiceWeight(i, b[i]) \in Nat
    BY BranchFacts, ChoiceWeightIsNatural
  <2>2. QED BY <2>1
<1>2. \A i \in 1 .. n : \A x \in Nat : step[i][x] = x * ChoiceWeight(i, b[i])
  OBVIOUS
<1> HIDE DEF step
<1>3. PICK w \in [0 .. n -> Nat] : Advances(w, n, 1, step)
  <2>1. 1 \in Nat
    OBVIOUS
  <2>2. QED BY <1>1, <2>1, BranchFacts, PrefixValues
<1>4. ASSUME NEW i \in 1 .. n PROVE w[i] = w[i - 1] * ChoiceWeight(i, b[i])
  <2>1. w[i - 1] \in Nat
    BY BranchFacts
  <2>2. w[i] = step[i][w[i - 1]]
    BY <1>3 DEF Advances
  <2>3. QED BY <1>2, <2>1, <2>2
<1>5. QED BY <1>3, <1>4 DEF Advances, WeightPath

\* The folds of the model give the last of those values.
LEMMA BranchVectorIs ==
    ASSUME Arguments, NEW n \in 0 .. Len(circuit), NEW b \in Branches(n),
           NEW w, BranchPath(b, n, w)
    PROVE  BranchVector(b) = w[n]
<1> DEFINE choice == [s \in SUBSET (1 .. n) |-> Max(s)]
           step == [i \in 1 .. n |-> [v \in States |-> BranchStep(v, i, b[i])]]
           Next(g) == [s \in SUBSET (1 .. n) |->
                          IF s = {} THEN GroundState
                          ELSE LET i == Max(s) IN BranchStep(g[s \ {i}], i, b[i])]
           h == CHOOSE g : g = Next(g)
<1>1. n \in Nat /\ DOMAIN b = 1 .. n
  BY BranchFacts
<1>2. BranchVector(b) = h[1 .. n]
  <2> DEFINE Folded(g) == [s \in SUBSET (1 .. n) |->
                              IF s = {} THEN GroundState
                              ELSE LET i == Max(s)
                                   IN  BranchStep(g[s \ {i}], [j \in 1 .. n |-> j][i],
                                                  b[[j \in 1 .. n |-> j][i]])]
  <2>1. BranchVector(b) = (CHOOSE g : g = Folded(g))[1 .. n]
    BY <1>1 DEF BranchVector, FoldLeftDomain, FoldLeft, MapThenFoldSet
  <2>2. ASSUME NEW g PROVE Folded(g) = Next(g)
    <3>1. ASSUME NEW s \in SUBSET (1 .. n), s # {} PROVE [j \in 1 .. n |-> j][Max(s)] = Max(s)
      BY <1>1, <3>1, PrefixFacts DEF Chooses
    <3>2. ASSUME NEW s \in SUBSET (1 .. n) PROVE Folded(g)[s] = Next(g)[s]
      BY <3>1
    <3>3. QED BY <3>2
  <2> HIDE DEF Folded, Next
  <2>3. (CHOOSE g : g = Folded(g)) = (CHOOSE g : g = Next(g))
    BY <2>2
  <2>4. QED BY <2>1, <2>3
<1>3. \E g : g = Next(g)
  <2>1. step \in [1 .. n -> [States -> States]]
    BY BranchFacts, BranchStepIsState
  <2>a. Chooses(choice, 1 .. n)
    BY <1>1, PrefixFacts
  <2>b. IsFiniteSet(1 .. n)
    BY <1>1, FS_Interval
  <2>2. Chooses(choice, 1 .. n) /\ IsFiniteSet(1 .. n)
    BY <2>a, <2>b
  <2>3. PICK g \in [SUBSET (1 .. n) -> States] :
           FoldsTo(g, 1 .. n, choice, GroundState, step)
    <3> HIDE DEF step, choice
    <3>1. QED BY <2>1, <2>2, GroundIsState, FoldHasSolution
  <2>4. ASSUME NEW s \in SUBSET (1 .. n) PROVE g[s] = Next(g)[s]
    <3>1. s # {} => Max(s) \in 1 .. n
      BY <2>2 DEF Chooses
    <3>2. s # {} => g[s] = step[Max(s)][g[s \ {Max(s)}]]
      BY <2>3 DEF FoldsTo
    <3>3. s # {} => g[s] = BranchStep(g[s \ {Max(s)}], Max(s), b[Max(s)])
      BY <3>1, <3>2
    <3>4. s = {} => g[s] = GroundState
      BY <2>3 DEF FoldsTo
    <3>5. QED BY <3>3, <3>4
  <2>5. g = Next(g)
    BY <2>4
  <2>6. QED BY <2>5
<1>4. h = Next(h)
  BY <1>3
<1> HIDE DEF h
<1>5. h[1 .. 0] = w[0]
  <2>1. 1 .. 0 = {} /\ {} \in SUBSET (1 .. n)
    OBVIOUS
  <2>2. h[{}] = GroundState
    BY <1>4
  <2>3. QED BY <2>1, <2>2 DEF BranchPath
<1>6. ASSUME NEW i \in 1 .. n, h[1 .. i - 1] = w[i - 1] PROVE h[1 .. i] = w[i]
  <2>1. /\ Max(1 .. i) = i /\ (1 .. i) \ {i} = 1 .. i - 1 /\ 1 .. i # {}
        /\ 1 .. i \in SUBSET (1 .. n)
    BY <1>1, PrefixFacts
  <2>2. h[1 .. i] = BranchStep(h[1 .. i - 1], i, b[i])
    BY <1>4, <2>1
  <2>3. QED BY <1>6, <2>2 DEF BranchPath
<1>7. n \in 0 .. n
  BY <1>1
<1>8. h[1 .. n] = w[n]
  <2>1. SameSteps(h, w, n)
    BY <1>5, <1>6 DEF SameSteps
  <2>2. \A i \in 0 .. n : h[1 .. i] = w[i]
    BY <1>1, <2>1, PrefixesAgree
  <2>3. QED BY <1>7, <2>2
<1>9. QED BY <1>2, <1>8

LEMMA BranchWeightIs ==
    ASSUME Arguments, NEW n \in 0 .. Len(circuit), NEW b \in Branches(n),
           NEW w, WeightPath(b, n, w)
    PROVE  BranchWeight(b) = w[n]
<1> DEFINE choice == [s \in SUBSET (1 .. n) |-> Max(s)]
           Weighted(x, i) == IF Noisy(i)
                             THEN x * request.noise[circuit[i].opcode][b[i]].weight ELSE x
           step == [i \in 1 .. n |-> [x \in Nat |-> Weighted(x, i)]]
           Next(g) == [s \in SUBSET (1 .. n) |->
                          IF s = {} THEN 1
                          ELSE LET i == Max(s) IN Weighted(g[s \ {i}], i)]
           h == CHOOSE g : g = Next(g)
<1>1. n \in Nat /\ DOMAIN b = 1 .. n
  BY BranchFacts
<1>2. BranchWeight(b) = h[1 .. n]
  <2> DEFINE Identity == [j \in DOMAIN b |-> j]
             Folded(g) == [s \in SUBSET (DOMAIN b) |->
                  IF s = {} THEN 1
                  ELSE LET i == Max(s)
                       IN  IF Noisy(Identity[i])
                           THEN g[s \ {i}] * request.noise[circuit[Identity[i]].opcode]
                                                          [b[Identity[i]]].weight
                           ELSE g[s \ {i}]]
  <2>1. BranchWeight(b) = (CHOOSE g : g = Folded(g))[DOMAIN b]
    BY DEF BranchWeight, FoldLeftDomain, FoldLeft, MapThenFoldSet, Noisy, Acts
  <2>2. ASSUME NEW g PROVE Folded(g) = Next(g)
    <3>1. ASSUME NEW s \in SUBSET (1 .. n), s # {} PROVE Identity[Max(s)] = Max(s)
      BY <1>1, <3>1, PrefixFacts DEF Chooses
    <3> HIDE DEF Identity
    <3>2. ASSUME NEW s \in SUBSET (1 .. n) PROVE Folded(g)[s] = Next(g)[s]
      BY <1>1, <3>1
    <3>3. QED BY <1>1, <3>2, Zenon
  <2> HIDE DEF Folded, Next
  <2>3. (CHOOSE g : g = Folded(g)) = (CHOOSE g : g = Next(g))
    BY <2>2
  <2>4. QED BY <1>1, <2>1, <2>3
<1>a. ASSUME NEW i \in 1 .. n, NEW x \in Nat
      PROVE  Weighted(x, i) = x * ChoiceWeight(i, b[i]) /\ Weighted(x, i) \in Nat
  <2> DEFINE c == ChoiceWeight(i, b[i])
  <2>1. c \in Nat
    BY BranchFacts, ChoiceWeightIsNatural
  <2>2. Noisy(i) => Weighted(x, i) = x * c
    BY DEF ChoiceWeight
  <2>3. ~ Noisy(i) => Weighted(x, i) = x /\ c = 1
    BY DEF ChoiceWeight
  <2> HIDE DEF c, Weighted
  <2>4. Weighted(x, i) = x * c
    BY <2>2, <2>3
  <2>5. x * c \in Nat
    BY <2>1
  <2>6. QED BY <2>4, <2>5 DEF c
<1> HIDE DEF Weighted
<1>3. \E g : g = Next(g)
  <2>1. step \in [1 .. n -> [Nat -> Nat]]
    BY <1>a
  <2>a. Chooses(choice, 1 .. n)
    BY <1>1, PrefixFacts
  <2>b. IsFiniteSet(1 .. n)
    BY <1>1, FS_Interval
  <2>c. 1 \in Nat
    OBVIOUS
  <2>2. Chooses(choice, 1 .. n) /\ IsFiniteSet(1 .. n)
    BY <2>a, <2>b
  <2>3. PICK g \in [SUBSET (1 .. n) -> Nat] : FoldsTo(g, 1 .. n, choice, 1, step)
    <3> HIDE DEF step, choice
    <3>1. QED BY <2>1, <2>2, <2>c, FoldHasSolution
  <2>4. ASSUME NEW s \in SUBSET (1 .. n) PROVE g[s] = Next(g)[s]
    <3>1. s # {} => Max(s) \in 1 .. n
      BY <2>2 DEF Chooses
    <3>2. s # {} => g[s] = step[Max(s)][g[s \ {Max(s)}]]
      BY <2>3 DEF FoldsTo
    <3>3. s # {} => g[s] = Weighted(g[s \ {Max(s)}], Max(s))
      BY <3>1, <3>2
    <3>4. s = {} => g[s] = 1
      BY <2>3 DEF FoldsTo
    <3>5. QED BY <3>3, <3>4
  <2>5. g = Next(g)
    BY <2>4
  <2>6. QED BY <2>5
<1>4. h = Next(h)
  BY <1>3
<1> HIDE DEF h
<1>5. h[1 .. 0] = w[0]
  <2>1. 1 .. 0 = {} /\ {} \in SUBSET (1 .. n)
    OBVIOUS
  <2>2. h[{}] = 1
    BY <1>4
  <2>3. QED BY <2>1, <2>2 DEF WeightPath
<1>6. ASSUME NEW i \in 1 .. n, h[1 .. i - 1] = w[i - 1] PROVE h[1 .. i] = w[i]
  <2>1. /\ Max(1 .. i) = i /\ (1 .. i) \ {i} = 1 .. i - 1 /\ 1 .. i # {}
        /\ 1 .. i \in SUBSET (1 .. n)
    BY <1>1, PrefixFacts
  <2>2. h[1 .. i] = Weighted(h[1 .. i - 1], i)
    BY <1>4, <2>1
  <2>3. w[i - 1] \in Nat
    BY <1>1 DEF WeightPath
  <2>4. QED BY <1>6, <1>a, <2>2, <2>3 DEF WeightPath
<1>7. n \in 0 .. n
  BY <1>1
<1>8. h[1 .. n] = w[n]
  <2>1. SameSteps(h, w, n)
    BY <1>5, <1>6 DEF SameSteps
  <2>2. \A i \in 0 .. n : h[1 .. i] = w[i]
    BY <1>1, <2>1, PrefixesAgree
  <2>3. QED BY <1>7, <2>2
<1>9. QED BY <1>2, <1>8

-----------------------------------------------------------------------------
(* One operation more.                                                        *)

Extend(b, n, choice) == [i \in 1 .. n + 1 |-> IF i = n + 1 THEN choice ELSE b[i]]

Cut(b, n) == [i \in 1 .. n |-> b[i]]

LEMMA IsBranch ==
    ASSUME NEW n \in Nat, NEW b, b = [i \in 1 .. n |-> b[i]],
           \A i \in 1 .. n : b[i] \in ChoicesAt(i)
    PROVE  b \in Branches(n)
<1> DEFINE T == (UNION {ChoicesAt(i) : i \in 1 .. n}) \union {0}
<1>1. ASSUME NEW i \in 1 .. n PROVE b[i] \in T
  <2>1. ChoicesAt(i) \in {ChoicesAt(j) : j \in 1 .. n}
    OBVIOUS
  <2>2. QED BY <2>1
<1> HIDE DEF T
<1>2. b \in [1 .. n -> T]
  BY <1>1
<1>3. QED BY <1>2 DEF Branches, T

LEMMA CutFacts ==
    ASSUME Arguments, NEW n \in 0 .. Len(circuit) - 1, NEW b \in Branches(n + 1)
    PROVE  /\ Cut(b, n) \in Branches(n) /\ b[n + 1] \in ChoicesAt(n + 1)
           /\ b = Extend(Cut(b, n), n, b[n + 1])
<1>1. n \in Nat /\ n + 1 \in 0 .. Len(circuit) /\ n + 1 \in 1 .. n + 1
  BY ArgumentFacts
<1>2. DOMAIN b = 1 .. n + 1 /\ \A i \in 1 .. n + 1 : b[i] \in ChoicesAt(i)
  BY <1>1, BranchFacts
<1>3. b = [i \in 1 .. n + 1 |-> b[i]]
  BY <1>1, <1>2 DEF Branches
<1>4. Cut(b, n) \in Branches(n)
  <2>1. /\ Cut(b, n) = [i \in 1 .. n |-> Cut(b, n)[i]]
        /\ \A i \in 1 .. n : Cut(b, n)[i] \in ChoicesAt(i)
    BY <1>1, <1>2 DEF Cut
  <2>2. QED BY <1>1, <2>1, IsBranch
<1>5. \A i \in 1 .. n + 1 : i = n + 1 \/ i \in 1 .. n
  BY <1>1
<1>6. Extend(Cut(b, n), n, b[n + 1]) = [i \in 1 .. n + 1 |-> b[i]]
  BY <1>5 DEF Extend, Cut
<1>7. QED BY <1>1, <1>2, <1>3, <1>4, <1>6

LEMMA ExtendFacts ==
    ASSUME Arguments, NEW n \in 0 .. Len(circuit) - 1, NEW b \in Branches(n),
           NEW choice \in ChoicesAt(n + 1)
    PROVE  /\ Extend(b, n, choice) \in Branches(n + 1)
           /\ Extend(b, n, choice)[n + 1] = choice /\ Cut(Extend(b, n, choice), n) = b
           /\ BranchVector(b) \in States /\ BranchWeight(b) \in Nat
           /\ BranchVector(Extend(b, n, choice)) = BranchStep(BranchVector(b), n + 1, choice)
           /\ BranchWeight(Extend(b, n, choice)) = BranchWeight(b) * ChoiceWeight(n + 1, choice)
<1> DEFINE x == Extend(b, n, choice)
<1>1. /\ n \in Nat /\ n \in 0 .. Len(circuit) /\ n + 1 \in 0 .. Len(circuit)
      /\ n + 1 \in 1 .. n + 1 /\ n + 1 \in 0 .. n + 1 /\ n \in 0 .. n /\ n + 1 \in DOMAIN circuit
      /\ (n + 1) - 1 = n
  BY ArgumentFacts
<1>2. DOMAIN b = 1 .. n /\ \A i \in 1 .. n : b[i] \in ChoicesAt(i)
  BY <1>1, BranchFacts
<1>3. \A i \in 1 .. n + 1 : i = n + 1 \/ i \in 1 .. n
  BY <1>1
<1>4. x[n + 1] = choice /\ \A i \in 1 .. n : x[i] = b[i]
  BY <1>1 DEF Extend
<1>5. x \in Branches(n + 1)
  <2>1. n + 1 \in Nat /\ x = [i \in 1 .. n + 1 |-> x[i]]
    BY <1>1 DEF Extend
  <2>2. \A i \in 1 .. n + 1 : x[i] \in ChoicesAt(i)
    BY <1>2, <1>3, <1>4
  <2> HIDE DEF x
  <2>3. QED BY <2>1, <2>2, IsBranch
<1>6. Cut(x, n) = b
  <2>1. b = [i \in 1 .. n |-> b[i]]
    BY <1>1 DEF Branches
  <2>2. Cut(x, n) = [i \in 1 .. n |-> b[i]]
    BY <1>4 DEF Cut
  <2>3. QED BY <2>1, <2>2
<1> HIDE DEF x
<1>7. BranchVector(b) \in States /\ BranchVector(x) = BranchStep(BranchVector(b), n + 1, choice)
  <2>1. PICK w : BranchPath(b, n, w)
    BY <1>1, BranchHasPath
  <2>2. BranchVector(b) = w[n] /\ w[n] \in States
    BY <1>1, <2>1, BranchVectorIs DEF BranchPath
  <2> DEFINE u == [i \in 0 .. n + 1 |-> IF i = n + 1 THEN BranchStep(w[n], n + 1, choice)
                                        ELSE w[i]]
  <2>3. /\ u[n + 1] = BranchStep(w[n], n + 1, choice) /\ \A i \in 0 .. n : u[i] = w[i]
        /\ u = [i \in 0 .. n + 1 |-> u[i]]
    BY <1>1
  <2> HIDE DEF u
  <2>4. u[n + 1] \in States
    BY <1>1, <2>2, <2>3, BranchStepIsState
  <2>5. \A i \in 0 .. n + 1 : u[i] \in States
    <3>1. \A i \in 0 .. n + 1 : i \in 0 .. n \/ i = n + 1
      BY <1>1
    <3>2. QED BY <2>1, <2>3, <2>4, <3>1 DEF BranchPath
  <2>6. ASSUME NEW i \in 1 .. n + 1 PROVE u[i] = BranchStep(u[i - 1], i, x[i])
    <3>1. CASE i = n + 1
      BY <1>1, <1>4, <2>3, <3>1
    <3>2. CASE i \in 1 .. n
      <4>1. i \in 0 .. n /\ i - 1 \in 0 .. n
        BY <1>1, <3>2
      <4>2. w[i] = BranchStep(w[i - 1], i, b[i])
        BY <2>1, <3>2 DEF BranchPath
      <4>3. QED BY <1>4, <2>3, <3>2, <4>1, <4>2
    <3>3. QED BY <1>3, <3>1, <3>2
  <2>7. u[0] = GroundState
    BY <1>1, <2>1, <2>3 DEF BranchPath
  <2>8. BranchPath(x, n + 1, u)
    BY <2>3, <2>5, <2>6, <2>7 DEF BranchPath
  <2>9. BranchVector(x) = u[n + 1]
    BY <1>1, <1>5, <2>8, BranchVectorIs
  <2>10. QED BY <2>2, <2>3, <2>9
<1>8. BranchWeight(b) \in Nat /\ BranchWeight(x) = BranchWeight(b) * ChoiceWeight(n + 1, choice)
  <2>1. PICK w : WeightPath(b, n, w)
    BY <1>1, WeightHasPath
  <2>2. BranchWeight(b) = w[n] /\ w[n] \in Nat
    BY <1>1, <2>1, BranchWeightIs DEF WeightPath
  <2> DEFINE last == w[n] * ChoiceWeight(n + 1, choice)
             u == [i \in 0 .. n + 1 |-> IF i = n + 1 THEN last ELSE w[i]]
  <2>a. last \in Nat
    BY <1>1, <2>2, ChoiceWeightIsNatural
  <2>3. /\ u[n + 1] = last /\ \A i \in 0 .. n : u[i] = w[i]
        /\ u = [i \in 0 .. n + 1 |-> u[i]]
    BY <1>1
  <2>5. \A i \in 0 .. n + 1 : u[i] \in Nat
    <3>1. \A i \in 0 .. n + 1 : i \in 0 .. n \/ i = n + 1
      BY <1>1
    <3> HIDE DEF u, last
    <3>2. QED BY <2>1, <2>a, <2>3, <3>1 DEF WeightPath
  <2>6. ASSUME NEW i \in 1 .. n + 1 PROVE u[i] = u[i - 1] * ChoiceWeight(i, x[i])
    <3> HIDE DEF u
    <3>1. CASE i = n + 1
      BY <1>1, <1>4, <2>3, <3>1
    <3>2. CASE i \in 1 .. n
      <4>1. i \in 0 .. n /\ i - 1 \in 0 .. n
        BY <1>1, <3>2
      <4>2. w[i] = w[i - 1] * ChoiceWeight(i, b[i])
        BY <2>1, <3>2 DEF WeightPath
      <4>3. u[i] = w[i] /\ u[i - 1] = w[i - 1] /\ x[i] = b[i]
        BY <1>4, <2>3, <3>2, <4>1
      <4>4. QED BY <4>2, <4>3
    <3>3. QED BY <1>3, <3>1, <3>2
  <2> HIDE DEF u, last
  <2>7. u[0] = 1
    BY <1>1, <2>1, <2>3 DEF WeightPath
  <2>8. WeightPath(x, n + 1, u)
    BY <2>3, <2>5, <2>6, <2>7 DEF WeightPath
  <2>9. BranchWeight(x) = u[n + 1]
    BY <1>1, <1>5, <2>8, BranchWeightIs
  <2>10. QED BY <2>2, <2>3, <2>9 DEF last
<1>9. QED BY <1>4, <1>5, <1>6, <1>7, <1>8 DEF x

LEMMA BranchesAreFinite ==
    ASSUME Arguments, NEW n \in 0 .. Len(circuit)
    PROVE  IsFiniteSet(Branches(n))
<1> DEFINE Good == {m \in Nat : m <= Len(circuit) => IsFiniteSet(Branches(m))}
<1>1. Len(circuit) \in Nat
  BY ArgumentFacts
<1>2. 0 \in Good
  <2>1. \A b \in Branches(0) : b = [i \in {} |-> b[i]] /\ [i \in {} |-> b[i]] = <<>>
    BY DEF Branches
  <2>2. Branches(0) \subseteq {<<>>}
    BY <2>1
  <2>3. IsFiniteSet({<<>>})
    BY FS_Singleton
  <2>4. IsFiniteSet(Branches(0))
    BY <2>2, <2>3, FS_Subset
  <2>5. QED BY <2>4
<1>3. ASSUME NEW m \in Nat, m \in Good PROVE m + 1 \in Good
  <2> SUFFICES ASSUME m + 1 <= Len(circuit) PROVE IsFiniteSet(Branches(m + 1))
    OBVIOUS
  <2> DEFINE Pairs == Branches(m) \X ChoicesAt(m + 1)
             join == [p \in Pairs |-> Extend(p[1], m, p[2])]
  <2>1. m \in 0 .. Len(circuit) - 1 /\ m + 1 \in DOMAIN circuit /\ m <= Len(circuit)
    BY <1>1, ArgumentFacts
  <2>2. IsFiniteSet(Branches(m)) /\ IsFiniteSet(ChoicesAt(m + 1))
    BY <1>3, <2>1, ChoicesAreFinite
  <2>3. IsFiniteSet(Pairs)
    BY <2>2, FS_Product
  <2>4. ASSUME NEW b \in Branches(m + 1) PROVE b \in {join[p] : p \in Pairs}
    <3>1. <<Cut(b, m), b[m + 1]>> \in Pairs /\ b = Extend(Cut(b, m), m, b[m + 1])
      BY <2>1, CutFacts
    <3>2. join[<<Cut(b, m), b[m + 1]>>] = b
      BY <3>1
    <3> HIDE DEF join
    <3>3. QED BY <3>1, <3>2
  <2> HIDE DEF join
  <2>5. IsFiniteSet({join[p] : p \in Pairs})
    BY <2>3, ImageIsFinite
  <2>6. Branches(m + 1) \subseteq {join[p] : p \in Pairs}
    BY <2>4
  <2>7. QED BY <2>5, <2>6, FS_Subset
<1>4. Nat \subseteq Good
  <2> HIDE DEF Good
  <2>1. QED BY <1>2, <1>3, SetInduction
<1>5. n \in Nat /\ n <= Len(circuit)
  BY <1>1
<1>6. QED BY <1>4, <1>5

LEMMA BranchValues ==
    ASSUME Arguments, NEW n \in 0 .. Len(circuit), NEW b \in Branches(n)
    PROVE  BranchVector(b) \in States /\ BranchWeight(b) \in Nat
<1>1. n \in Nat
  BY ArgumentFacts
<1>2. BranchVector(b) \in States
  <2>1. PICK w : BranchPath(b, n, w)
    BY BranchHasPath
  <2>2. BranchVector(b) = w[n]
    BY <2>1, BranchVectorIs
  <2>3. n \in 0 .. n
    BY <1>1
  <2>4. QED BY <2>1, <2>2, <2>3 DEF BranchPath
<1>3. BranchWeight(b) \in Nat
  <2>1. PICK w : WeightPath(b, n, w)
    BY WeightHasPath
  <2>2. BranchWeight(b) = w[n]
    BY <2>1, BranchWeightIs
  <2>3. n \in 0 .. n
    BY <1>1
  <2>4. QED BY <2>1, <2>2, <2>3 DEF WeightPath
<1>4. QED BY <1>2, <1>3

\* What a branch adds to an entry of the mixture.
Share(n, row, col) ==
    [b \in Branches(n) |-> BranchWeight(b) * BranchVector(b)[row] * BranchVector(b)[col]]

LEMMA ShareIsInt ==
    ASSUME Arguments, NEW n \in 0 .. Len(circuit), NEW b \in Branches(n),
           NEW row \in BasisStates, NEW col \in BasisStates
    PROVE  /\ Share(n, row, col)[b] = BranchWeight(b) * BranchVector(b)[row] * BranchVector(b)[col]
           /\ BranchVector(b)[row] \in Int /\ BranchVector(b)[col] \in Int
           /\ Share(n, row, col)[b] \in Int
<1> DEFINE x == BranchVector(b)[row]
           y == BranchVector(b)[col]
           w == BranchWeight(b)
<1>1. x \in Int /\ y \in Int /\ w \in Int
  BY BranchValues DEF States
<1>2. Share(n, row, col)[b] = w * x * y
  BY DEF Share
<1> HIDE DEF x, y, w
<1>3. w * x * y \in Int
  BY <1>1
<1>4. QED BY <1>1, <1>2, <1>3 DEF x, y, w

LEMMA MixtureFacts ==
    ASSUME Arguments, NEW n \in 0 .. Len(circuit)
    PROVE  /\ Mixture(n) \in Densities
           /\ \A row, col \in BasisStates :
                 Mixture(n)[row][col] = Sum(Share(n, row, col), Branches(n))
<1> DEFINE B == Branches(n)
           end == [b \in B |-> <<BranchVector(b), b>>]
           ends == {<<BranchVector(b), b>> : b \in B}
           E == Mixture(n)
           Next(row, col, g) ==
               [s \in SUBSET ends |->
                   IF s = {} THEN 0
                   ELSE LET e == CHOOSE e \in s : TRUE
                        IN  (BranchWeight(e[2]) * e[1][row] * e[1][col]) + g[s \ {e}]]
<1>1. IsFiniteSet(B)
  BY BranchesAreFinite
<1>2. /\ ends = {end[b] : b \in B}
      /\ \A b \in B : end[b][1] = BranchVector(b) /\ end[b][2] = b
      /\ \A a, b \in B : end[a] = end[b] => a = b
  OBVIOUS
<1>3. E = [row \in BasisStates |-> [col \in BasisStates |-> E[row][col]]]
  BY DEF Mixture
<1>4. ASSUME NEW row \in BasisStates, NEW col \in BasisStates
      PROVE  E[row][col] = Sum(Share(n, row, col), B) /\ E[row][col] \in Int
  <2> DEFINE f == Share(n, row, col)
             g1 == [e \in ends |-> BranchWeight(e[2]) * e[1][row] * e[1][col]]
  <2>1. E[row][col] = (CHOOSE g : g = Next(row, col, g))[ends]
    BY DEF Mixture, MapThenSumSet, MapThenFoldSet
  <2>2. ASSUME NEW g PROVE Next(row, col, g) = SumStep(g1, ends, g)
    <3>1. ASSUME NEW e \in ends PROVE g1[e] = BranchWeight(e[2]) * e[1][row] * e[1][col]
      OBVIOUS
    <3> HIDE DEF g1, ends
    <3>2. ASSUME NEW s \in SUBSET ends PROVE Next(row, col, g)[s] = SumStep(g1, ends, g)[s]
      BY <3>1 DEF SumStep
    <3>3. QED BY <3>2 DEF SumStep
  <2>3. \A b \in B : g1[end[b]] = f[b]
    BY <1>2 DEF Share
  <2>4. \A b \in B : f[b] \in Int
    BY ShareIsInt
  <2> HIDE DEF Next, g1, f, end, ends, E, B
  <2>5. (CHOOSE g : g = Next(row, col, g)) = (CHOOSE g : g = SumStep(g1, ends, g))
    BY <2>2
  <2>6. E[row][col] = Sum(g1, ends)
    BY <2>1, <2>5 DEF Sum
  <2>7. Sum(g1, {end[b] : b \in B}) = Sum(f, B)
    <3>1. Reindexes(B, f, g1, end)
      BY <1>2, <2>3, <2>4 DEF Reindexes
    <3>2. QED BY <1>1, <3>1, SumImage
  <2>8. Sum(f, B) \in Int
    BY <1>1, <2>4, SumIsInt
  <2>9. QED BY <1>2, <2>6, <2>7, <2>8 DEF f
<1> HIDE DEF E
<1>5. E \in Densities
  BY <1>3, <1>4 DEF Densities, States
<1>6. QED BY <1>4, <1>5 DEF E

\* What the choices of one operation add to an entry, starting from one vector.
ChoiceShare(v, i, row, col) ==
    [choice \in ChoicesAt(i) |->
        ChoiceWeight(i, choice) * BranchStep(v, i, choice)[row] * BranchStep(v, i, choice)[col]]

LEMMA ChoiceShareIsInt ==
    ASSUME Arguments, NEW i \in DOMAIN circuit, NEW v \in States, NEW choice \in ChoicesAt(i),
           NEW row \in BasisStates, NEW col \in BasisStates
    PROVE  /\ ChoiceShare(v, i, row, col)[choice] = ChoiceWeight(i, choice)
                 * BranchStep(v, i, choice)[row] * BranchStep(v, i, choice)[col]
           /\ ChoiceShare(v, i, row, col)[choice] \in Int
           /\ ChoiceWeight(i, choice) \in Int
           /\ BranchStep(v, i, choice)[row] \in Int /\ BranchStep(v, i, choice)[col] \in Int
<1> DEFINE x == BranchStep(v, i, choice)[row]
           y == BranchStep(v, i, choice)[col]
           w == ChoiceWeight(i, choice)
<1>1. x \in Int /\ y \in Int /\ w \in Int
  BY BranchStepIsState, ChoiceWeightIsNatural DEF States
<1>2. ChoiceShare(v, i, row, col)[choice] = w * x * y
  BY DEF ChoiceShare
<1> HIDE DEF x, y, w
<1>3. w * x * y \in Int
  BY <1>1
<1>4. QED BY <1>1, <1>2, <1>3 DEF x, y, w

LEMMA ChoiceSumIsInt ==
    ASSUME Arguments, NEW i \in DOMAIN circuit, NEW v \in States,
           NEW row \in BasisStates, NEW col \in BasisStates
    PROVE  Sum(ChoiceShare(v, i, row, col), ChoicesAt(i)) \in Int
<1>1. IsFiniteSet(ChoicesAt(i))
  BY ChoicesAreFinite
<1>2. \A c \in ChoicesAt(i) : ChoiceShare(v, i, row, col)[c] \in Int
  BY ChoiceShareIsInt
<1>3. QED BY <1>1, <1>2, SumIsInt

\* An entry of the next mixture, branch by branch of this one.
NextShare(n, row, col) ==
    [b \in Branches(n) |->
        BranchWeight(b) * Sum(ChoiceShare(BranchVector(b), n + 1, row, col), ChoicesAt(n + 1))]

LEMMA MixtureOfOneMore ==
    ASSUME Arguments, NEW n \in 0 .. Len(circuit) - 1,
           NEW row \in BasisStates, NEW col \in BasisStates
    PROVE  Mixture(n + 1)[row][col] = Sum(NextShare(n, row, col), Branches(n))
<1> DEFINE B == Branches(n)
           N == Branches(n + 1)
           C == ChoicesAt(n + 1)
           f == Share(n + 1, row, col)
           cut == [x \in N |-> Cut(x, n)]
           Fibre(b) == {x \in N : cut[x] = b}
           h == NextShare(n, row, col)
<1>1. /\ n \in Nat /\ n \in 0 .. Len(circuit) /\ n + 1 \in 0 .. Len(circuit)
      /\ n + 1 \in DOMAIN circuit
  BY ArgumentFacts
<1>2. IsFiniteSet(B) /\ IsFiniteSet(N) /\ IsFiniteSet(C)
  BY <1>1, BranchesAreFinite, ChoicesAreFinite
<1>3. \A x \in N : f[x] \in Int /\ cut[x] \in B
  BY <1>1, ShareIsInt, CutFacts
<1>4. ASSUME NEW b \in B PROVE h[b] = Sum(f, Fibre(b))
  <2> DEFINE v == BranchVector(b)
             w == BranchWeight(b)
             one == ChoiceShare(v, n + 1, row, col)
             all == [c \in C |-> w * one[c]]
             ext == [c \in C |-> Extend(b, n, c)]
  <2>1. v \in States /\ w \in Int
    BY <1>1, BranchValues
  <2>2. \A c \in C : one[c] \in Int
    BY <1>1, <2>1, ChoiceShareIsInt
  <2>3. \A c \in C : ext[c] \in N /\ ext[c][n + 1] = c /\ Cut(ext[c], n) = b
    BY <1>1, ExtendFacts
  <2>4. Fibre(b) = {ext[c] : c \in C}
    <3>1. ASSUME NEW x \in Fibre(b) PROVE x \in {ext[c] : c \in C}
      <4>1. x \in N /\ Cut(x, n) = b
        OBVIOUS
      <4>2. x[n + 1] \in C /\ x = Extend(b, n, x[n + 1])
        BY <4>1, CutFacts
      <4>3. x = ext[x[n + 1]]
        BY <4>2
      <4> HIDE DEF ext
      <4>4. QED BY <4>2, <4>3
    <3>2. ASSUME NEW c \in C PROVE ext[c] \in Fibre(b)
      BY <2>3
    <3> HIDE DEF ext, Fibre
    <3>3. QED BY <3>1, <3>2
  <2>5. ASSUME NEW c \in C PROVE f[ext[c]] = all[c] /\ all[c] \in Int
    <3> DEFINE k == ChoiceWeight(n + 1, c)
               p == BranchStep(v, n + 1, c)[row]
               q == BranchStep(v, n + 1, c)[col]
    <3>1. k \in Int /\ p \in Int /\ q \in Int /\ one[c] = k * p * q
      BY <1>1, <2>1, ChoiceShareIsInt
    <3>2. /\ BranchVector(ext[c]) = BranchStep(v, n + 1, c)
          /\ BranchWeight(ext[c]) = w * k
      BY <1>1, ExtendFacts
    <3>3. f[ext[c]] = BranchWeight(ext[c]) * BranchVector(ext[c])[row] * BranchVector(ext[c])[col]
      BY <1>1, <2>3, ShareIsInt
    <3>4. all[c] = w * one[c]
      OBVIOUS
    <3>5. f[ext[c]] = (w * k) * p * q
      BY <3>2, <3>3
    <3> HIDE DEF k, p, q, w, v, one, all, ext, f
    <3>6. \A i1, i2, i3, i4 \in Int : (i1 * i2) * i3 * i4 = i1 * (i2 * i3 * i4)
                                     /\ i1 * (i2 * i3 * i4) \in Int
      OBVIOUS
    <3>7. QED BY <2>1, <3>1, <3>4, <3>5, <3>6
  <2>6. \A c, d \in C : ext[c] = ext[d] => c = d
    BY <2>3
  <2>7. Sum(f, {ext[c] : c \in C}) = Sum(all, C)
    <3> HIDE DEF f, ext, all, C
    <3>1. Reindexes(C, all, f, ext)
      BY <2>5, <2>6 DEF Reindexes
    <3>2. QED BY <1>2, <3>1, SumImage
  <2>8. Sum(all, C) = w * Sum(one, C)
    <3>1. \A c \in C : one[c] \in Int /\ one[c] \in Int /\ all[c] = w * one[c] + 0 * one[c]
      <4>1. \A c \in C : all[c] = w * one[c]
        OBVIOUS
      <4> HIDE DEF all, one, w
      <4>2. \A i1, i2 \in Int : i1 * i2 = i1 * i2 + 0 * i2
        OBVIOUS
      <4>3. QED BY <2>1, <2>2, <4>1, <4>2
    <3> HIDE DEF all, one, w, C
    <3>2. Sum(all, C) = w * Sum(one, C) + 0 * Sum(one, C)
      BY <1>2, <2>1, <3>1, SumCombination
    <3>3. Sum(one, C) \in Int
      BY <1>2, <2>2, SumIsInt
    <3>4. \A i1, i2 \in Int : i1 * i2 + 0 * i2 = i1 * i2
      OBVIOUS
    <3>5. QED BY <2>1, <3>2, <3>3, <3>4
  <2>9. h[b] = w * Sum(one, C)
    BY DEF NextShare
  <2>10. QED BY <2>4, <2>7, <2>8, <2>9
<1>5. Sum(f, N) = Sum(h, B)
  <2>1. \A b \in B : h[b] = Sum(f, {x \in N : cut[x] = b})
    BY <1>4
  <2> HIDE DEF f, h, N, B, cut, Fibre
  <2>2. Groups(N, B, f, cut, h)
    BY <1>3, <2>1 DEF Groups
  <2>3. QED BY <1>2, <2>2, SumFibres
<1>6. Mixture(n + 1)[row][col] = Sum(f, N)
  BY <1>1, MixtureFacts
<1>7. QED BY <1>5, <1>6

-----------------------------------------------------------------------------
(* The density engine's arithmetic is linear, and on the matrix of one vector *)
(* it does what the vector engine does.                                       *)

LEMMA SingleEntry ==
    ASSUME NEW v \in States, NEW target \in Slots, NEW m, IsMatrix(m), NEW b \in BasisStates
    PROVE  ApplySingle(v, target, m)[b] = Line(m, target, b)[1] * v[b \ {target}]
                                        + Line(m, target, b)[2] * v[b \union {target}]
BY SingleFacts

\* The matrix of a vector.
Outer(v) == [row \in BasisStates |-> [col \in BasisStates |-> v[row] * v[col]]]

PlusVector(v, a, u) == [b \in BasisStates |-> v[b] + a * u[b]]

Plus(D, a, E) == [row \in BasisStates |-> PlusVector(D[row], a, E[row])]

LEMMA VectorsEqual ==
    ASSUME NEW v \in States, NEW u \in States, \A b \in BasisStates : v[b] = u[b]
    PROVE  v = u
BY DEF States

LEMMA DensitiesEqual ==
    ASSUME NEW D \in Densities, NEW E \in Densities,
           \A row, col \in BasisStates : D[row][col] = E[row][col]
    PROVE  D = E
<1>1. \A row \in BasisStates : D[row] \in States /\ E[row] \in States
  BY DEF Densities
<1>2. \A row \in BasisStates : D[row] = E[row]
  BY <1>1, VectorsEqual
<1>3. QED BY <1>2 DEF Densities

LEMMA PlusVectorFacts ==
    ASSUME NEW v \in States, NEW u \in States, NEW a \in Int
    PROVE  /\ PlusVector(v, a, u) \in States
           /\ \A b \in BasisStates : PlusVector(v, a, u)[b] = v[b] + a * u[b]
<1>1. \A b \in BasisStates : v[b] \in Int /\ u[b] \in Int
  BY DEF States
<1>2. \A x, y \in Int : x + a * y \in Int
  OBVIOUS
<1>3. QED BY <1>1, <1>2 DEF PlusVector, States

LEMMA PlusFacts ==
    ASSUME NEW D \in Densities, NEW E \in Densities, NEW a \in Int
    PROVE  /\ Plus(D, a, E) \in Densities
           /\ \A row, col \in BasisStates : Plus(D, a, E)[row][col] = D[row][col] + a * E[row][col]
<1>1. \A row \in BasisStates : D[row] \in States /\ E[row] \in States
  BY DEF Densities
<1>2. \A row \in BasisStates : PlusVector(D[row], a, E[row]) \in States
  BY <1>1, PlusVectorFacts
<1>3. Plus(D, a, E) \in Densities
  BY <1>2 DEF Plus, Densities
<1>4. ASSUME NEW row \in BasisStates, NEW col \in BasisStates
      PROVE  Plus(D, a, E)[row][col] = D[row][col] + a * E[row][col]
  <2>1. Plus(D, a, E)[row] = PlusVector(D[row], a, E[row])
    BY DEF Plus
  <2>2. PlusVector(D[row], a, E[row])[col] = D[row][col] + a * E[row][col]
    BY DEF PlusVector
  <2>3. QED BY <2>1, <2>2
<1>5. QED BY <1>3, <1>4

LEMMA PlusEntry ==
    ASSUME NEW D \in Densities, NEW E \in Densities, NEW a \in Int,
           NEW row \in BasisStates, NEW col \in BasisStates
    PROVE  Plus(D, a, E)[row][col] = D[row][col] + a * E[row][col]
<1>1. Plus(D, a, E)[row] = PlusVector(D[row], a, E[row])
  BY DEF Plus
<1>2. PlusVector(D[row], a, E[row])[col] = D[row][col] + a * E[row][col]
  BY DEF PlusVector
<1>3. QED BY <1>1, <1>2

LEMMA OuterFacts ==
    ASSUME NEW v \in States
    PROVE  /\ Outer(v) \in Densities
           /\ \A row, col \in BasisStates : Outer(v)[row][col] = v[row] * v[col]
<1>1. \A b \in BasisStates : v[b] \in Int
  BY DEF States
<1>2. \A row, col \in BasisStates : v[row] * v[col] \in Int
  BY <1>1, IntegerOperations
<1>3. QED BY <1>2 DEF Outer, Densities, States

LEMMA SingleIsLinear ==
    ASSUME NEW v \in States, NEW u \in States, NEW a \in Int, NEW target \in Slots,
           NEW m, IsMatrix(m)
    PROVE  ApplySingle(PlusVector(v, a, u), target, m)
             = PlusVector(ApplySingle(v, target, m), a, ApplySingle(u, target, m))
<1> DEFINE s == PlusVector(v, a, u)
           L == ApplySingle(s, target, m)
           V == ApplySingle(v, target, m)
           U == ApplySingle(u, target, m)
           R == PlusVector(V, a, U)
<1>1. s \in States /\ V \in States /\ U \in States /\ L \in States
  BY PlusVectorFacts, SingleFacts
<1>2. R \in States
  BY <1>1, PlusVectorFacts
<1>3. ASSUME NEW b \in BasisStates PROVE L[b] = R[b]
  <2> DEFINE l1 == Line(m, target, b)[1]
             l2 == Line(m, target, b)[2]
             v0 == v[b \ {target}]
             v1 == v[b \union {target}]
             u0 == u[b \ {target}]
             u1 == u[b \union {target}]
  <2>1. l1 \in Int /\ l2 \in Int /\ v0 \in Int /\ v1 \in Int /\ u0 \in Int /\ u1 \in Int
    BY LineFacts, SingleFacts
  <2>a. V[b] = l1 * v0 + l2 * v1
    BY SingleEntry
  <2>b. U[b] = l1 * u0 + l2 * u1
    BY SingleEntry
  <2>2. V[b] = l1 * v0 + l2 * v1 /\ U[b] = l1 * u0 + l2 * u1
    BY <2>a, <2>b
  <2>3. L[b] = l1 * s[b \ {target}] + l2 * s[b \union {target}]
    BY <1>1, SingleEntry
  <2>4. s[b \ {target}] = v0 + a * u0 /\ s[b \union {target}] = v1 + a * u1
    BY BasisFacts, PlusVectorFacts
  <2>5. R[b] = V[b] + a * U[b]
    BY <1>1, PlusVectorFacts
  <2> HIDE DEF l1, l2, v0, v1, u0, u1, s, L, V, U, R
  <2>6. \A k1, k2, x0, x1, y0, y1 \in Int :
           k1 * (x0 + a * y0) + k2 * (x1 + a * y1) = (k1 * x0 + k2 * x1) + a * (k1 * y0 + k2 * y1)
    OBVIOUS
  <2>7. QED BY <2>1, <2>2, <2>3, <2>4, <2>5, <2>6
<1> HIDE DEF s, L, V, U, R
<1>4. L = R
  BY <1>1, <1>2, <1>3, VectorsEqual
<1>5. QED BY <1>4 DEF s, L, V, U, R

LEMMA RowOperatorIsLinear ==
    ASSUME NEW D \in Densities, NEW E \in Densities, NEW a \in Int, NEW target \in Slots,
           NEW m, IsMatrix(m)
    PROVE  RowOperator(Plus(D, a, E), target, m)
             = Plus(RowOperator(D, target, m), a, RowOperator(E, target, m))
<1> DEFINE S == Plus(D, a, E)
           L == RowOperator(S, target, m)
           P == RowOperator(D, target, m)
           Q == RowOperator(E, target, m)
           R == Plus(P, a, Q)
<1>1. S \in Densities /\ P \in Densities /\ Q \in Densities /\ L \in Densities
  BY PlusFacts, OperatorFacts
<1>2. R \in Densities
  BY <1>1, PlusFacts
<1>3. ASSUME NEW row \in BasisStates, NEW col \in BasisStates PROVE L[row][col] = R[row][col]
  <2> DEFINE l1 == Line(m, target, row)[1]
             l2 == Line(m, target, row)[2]
             d0 == D[row \ {target}][col]
             d1 == D[row \union {target}][col]
             e0 == E[row \ {target}][col]
             e1 == E[row \union {target}][col]
  <2>1. l1 \in Int /\ l2 \in Int
    BY LineFacts
  <2>2. d0 \in Int /\ d1 \in Int /\ e0 \in Int /\ e1 \in Int
    BY BasisFacts, DensityFacts
  <2>3. P[row][col] = l1 * d0 + l2 * d1 /\ Q[row][col] = l1 * e0 + l2 * e1
    BY DEF RowOperator
  <2>4. L[row][col] = l1 * S[row \ {target}][col] + l2 * S[row \union {target}][col]
    BY DEF RowOperator
  <2>5. S[row \ {target}][col] = d0 + a * e0 /\ S[row \union {target}][col] = d1 + a * e1
    <3>1. row \ {target} \in BasisStates /\ row \union {target} \in BasisStates
      BY BasisFacts
    <3>2. \A r \in BasisStates : S[r][col] = D[r][col] + a * E[r][col]
      BY PlusFacts
    <3>3. QED BY <3>1, <3>2
  <2>6. R[row][col] = P[row][col] + a * Q[row][col]
    BY <1>1, PlusEntry
  <2> HIDE DEF l1, l2, d0, d1, e0, e1, S, L, P, Q, R
  <2>7. \A k1, k2, x0, x1, y0, y1 \in Int :
           k1 * (x0 + a * y0) + k2 * (x1 + a * y1) = (k1 * x0 + k2 * x1) + a * (k1 * y0 + k2 * y1)
    OBVIOUS
  <2>8. QED BY <2>1, <2>2, <2>3, <2>4, <2>5, <2>6, <2>7
<1> HIDE DEF S, L, P, Q, R
<1>4. L = R
  BY <1>1, <1>2, <1>3, DensitiesEqual
<1>5. QED BY <1>4 DEF S, L, P, Q, R

LEMMA OperatorIsLinear ==
    ASSUME NEW D \in Densities, NEW E \in Densities, NEW a \in Int, NEW target \in Slots,
           NEW m, IsMatrix(m)
    PROVE  ApplyOperator(Plus(D, a, E), target, m)
             = Plus(ApplyOperator(D, target, m), a, ApplyOperator(E, target, m))
<1> DEFINE S == Plus(D, a, E)
           P == RowOperator(D, target, m)
           Q == RowOperator(E, target, m)
<1>1. S \in Densities /\ P \in Densities /\ Q \in Densities
  BY PlusFacts, OperatorFacts
<1>2. RowOperator(S, target, m) = Plus(P, a, Q)
  BY RowOperatorIsLinear
<1>3. ASSUME NEW row \in BasisStates
      PROVE  ApplySingle(Plus(P, a, Q)[row], target, m)
               = PlusVector(ApplySingle(P[row], target, m), a, ApplySingle(Q[row], target, m))
  <2>1. Plus(P, a, Q)[row] = PlusVector(P[row], a, Q[row])
    BY DEF Plus
  <2>2. P[row] \in States /\ Q[row] \in States
    BY <1>1, DensityFacts
  <2> HIDE DEF P, Q
  <2>3. QED BY <2>1, <2>2, SingleIsLinear
<1>4. ApplyOperator(S, target, m)
         = [row \in BasisStates |-> ApplySingle(Plus(P, a, Q)[row], target, m)]
  BY <1>1, <1>2, OperatorFacts
<1>5. /\ ApplyOperator(D, target, m) = [row \in BasisStates |-> ApplySingle(P[row], target, m)]
      /\ ApplyOperator(E, target, m) = [row \in BasisStates |-> ApplySingle(Q[row], target, m)]
  BY OperatorFacts
<1> HIDE DEF S, P, Q
<1>6. Plus(ApplyOperator(D, target, m), a, ApplyOperator(E, target, m))
        = [row \in BasisStates |-> PlusVector(ApplySingle(P[row], target, m), a,
                                              ApplySingle(Q[row], target, m))]
  BY <1>5 DEF Plus
<1>7. ApplyOperator(S, target, m)
         = [row \in BasisStates |-> PlusVector(ApplySingle(P[row], target, m), a,
                                              ApplySingle(Q[row], target, m))]
  BY <1>3, <1>4
<1>8. QED BY <1>6, <1>7 DEF S

LEMMA OperatorOnOuter ==
    ASSUME NEW v \in States, NEW target \in Slots, NEW m, IsMatrix(m)
    PROVE  ApplyOperator(Outer(v), target, m) = Outer(ApplySingle(v, target, m))
<1> DEFINE V == ApplySingle(v, target, m)
           P == RowOperator(Outer(v), target, m)
           L == ApplyOperator(Outer(v), target, m)
           R == Outer(V)
<1>1. V \in States /\ Outer(v) \in Densities
  BY SingleFacts, OuterFacts
<1>2. P \in Densities /\ L \in Densities /\ R \in Densities
  BY <1>1, OperatorFacts, OuterFacts
<1>3. ASSUME NEW row \in BasisStates, NEW col \in BasisStates PROVE P[row][col] = V[row] * v[col]
  <2> DEFINE l1 == Line(m, target, row)[1]
             l2 == Line(m, target, row)[2]
             v0 == v[row \ {target}]
             v1 == v[row \union {target}]
             vc == v[col]
  <2>1. l1 \in Int /\ l2 \in Int /\ v0 \in Int /\ v1 \in Int /\ vc \in Int
    BY LineFacts, SingleFacts DEF States
  <2>2. V[row] = l1 * v0 + l2 * v1
    BY SingleFacts
  <2>3. P[row][col] = l1 * Outer(v)[row \ {target}][col] + l2 * Outer(v)[row \union {target}][col]
    BY DEF RowOperator
  <2>4. Outer(v)[row \ {target}][col] = v0 * vc /\ Outer(v)[row \union {target}][col] = v1 * vc
    BY BasisFacts, OuterFacts
  <2> HIDE DEF l1, l2, v0, v1, vc, V, P
  <2>5. \A k1, k2, x0, x1, c \in Int : k1 * (x0 * c) + k2 * (x1 * c) = (k1 * x0 + k2 * x1) * c
    OBVIOUS
  <2>6. QED BY <2>1, <2>2, <2>3, <2>4, <2>5 DEF vc
<1>4. ASSUME NEW row \in BasisStates, NEW col \in BasisStates PROVE L[row][col] = R[row][col]
  <2> DEFINE l1 == Line(m, target, col)[1]
             l2 == Line(m, target, col)[2]
             v0 == v[col \ {target}]
             v1 == v[col \union {target}]
             vr == V[row]
  <2>1. l1 \in Int /\ l2 \in Int /\ v0 \in Int /\ v1 \in Int /\ vr \in Int
    BY <1>1, LineFacts, SingleFacts DEF States
  <2>2. V[col] = l1 * v0 + l2 * v1
    BY SingleFacts
  <2>3. L[row] = ApplySingle(P[row], target, m) /\ P[row] \in States
    BY <1>1, <1>2, OperatorFacts, DensityFacts
  <2>4. L[row][col] = l1 * P[row][col \ {target}] + l2 * P[row][col \union {target}]
    <3> DEFINE r == P[row]
    <3>1. r \in States /\ L[row] = ApplySingle(r, target, m)
      BY <2>3
    <3> HIDE DEF P, r, L
    <3>2. ApplySingle(r, target, m)[col] = l1 * r[col \ {target}] + l2 * r[col \union {target}]
      BY <3>1, SingleEntry
    <3>3. QED BY <3>1, <3>2 DEF r
  <2>5. P[row][col \ {target}] = vr * v0 /\ P[row][col \union {target}] = vr * v1
    BY <1>3, BasisFacts
  <2>6. R[row][col] = vr * V[col]
    BY <1>1, OuterFacts
  <2> HIDE DEF l1, l2, v0, v1, vr, V, P, L, R
  <2>7. \A k1, k2, x0, x1, c \in Int : k1 * (c * x0) + k2 * (c * x1) = c * (k1 * x0 + k2 * x1)
    OBVIOUS
  <2>8. QED BY <2>1, <2>2, <2>4, <2>5, <2>6, <2>7
<1> HIDE DEF L, R
<1>5. L = R
  BY <1>2, <1>4, DensitiesEqual
<1>6. QED BY <1>5 DEF L, R

LEMMA IdealOnOuter ==
    ASSUME NEW v \in States, NEW operation \in AllocatedOperations, operation.opcode \in Gates
    PROVE  IdealDensity(Outer(v), operation) = Outer(ApplyOperation(v, operation))
<1> DEFINE target == operation.targets[1]
<1>1. target \in Slots
  BY FirstTarget
<1>2. CASE operation.opcode = "CX"
  <2> DEFINE control == operation.control
  <2>1. DensityCx(Outer(v), control, target) = Outer(ApplyCx(v, control, target))
    BY <1>1, PermutedFacts DEF DensityCx, Outer, ApplyCx
  <2>2. QED BY <1>2, <2>1 DEF IdealDensity, ApplyOperation
<1>3. CASE operation.opcode # "CX"
  <2>1. IsMatrix(Matrix[operation.opcode])
    BY <1>3, MatrixOfGate DEF Gates
  <2>2. QED BY <1>1, <1>3, <2>1, OperatorOnOuter DEF IdealDensity, ApplyOperation
<1>4. QED BY <1>2, <1>3

LEMMA ExchangeIsLinear ==
    ASSUME NEW D \in Densities, NEW E \in Densities, NEW a \in Int, NEW control,
           NEW target \in Slots
    PROVE  DensityCx(Plus(D, a, E), control, target)
             = Plus(DensityCx(D, control, target), a, DensityCx(E, control, target))
<1> DEFINE P == DensityCx(D, control, target)
           Q == DensityCx(E, control, target)
           L == DensityCx(Plus(D, a, E), control, target)
           R == Plus(P, a, Q)
<1>1. P \in Densities /\ Q \in Densities /\ Plus(D, a, E) \in Densities
  BY ExchangeFacts, PlusFacts
<1>2. L \in Densities /\ R \in Densities
  BY <1>1, ExchangeFacts, PlusFacts
<1>3. ASSUME NEW row \in BasisStates, NEW col \in BasisStates PROVE L[row][col] = R[row][col]
  <2> DEFINE r == Permuted(row, control, target)
             c == Permuted(col, control, target)
  <2>1. r \in BasisStates /\ c \in BasisStates
    BY PermutedFacts
  <2>2. P[row][col] = D[r][c] /\ Q[row][col] = E[r][c] /\ L[row][col] = Plus(D, a, E)[r][c]
    BY DEF DensityCx
  <2> HIDE DEF r, c, L, P, Q
  <2>3. Plus(D, a, E)[r][c] = D[r][c] + a * E[r][c]
    BY <2>1, PlusEntry
  <2>4. R[row][col] = P[row][col] + a * Q[row][col]
    BY <1>1, PlusEntry
  <2>5. QED BY <2>2, <2>3, <2>4
<1> HIDE DEF L, R
<1>4. L = R
  BY <1>2, <1>3, DensitiesEqual
<1>5. QED BY <1>4 DEF L, R

LEMMA IdealIsLinear ==
    ASSUME NEW D \in Densities, NEW E \in Densities, NEW a \in Int,
           NEW operation \in AllocatedOperations, operation.opcode \in Gates
    PROVE  IdealDensity(Plus(D, a, E), operation)
             = Plus(IdealDensity(D, operation), a, IdealDensity(E, operation))
<1> DEFINE target == operation.targets[1]
<1>1. target \in Slots
  BY FirstTarget
<1>2. CASE operation.opcode = "CX"
  BY <1>1, <1>2, ExchangeIsLinear DEF IdealDensity
<1>3. CASE operation.opcode # "CX"
  <2>1. IsMatrix(Matrix[operation.opcode])
    BY <1>3, MatrixOfGate DEF Gates
  <2>2. QED BY <1>1, <1>3, <2>1, OperatorIsLinear DEF IdealDensity
<1>4. QED BY <1>2, <1>3

LEMMA ResetIsLinear ==
    ASSUME NEW D \in Densities, NEW E \in Densities, NEW a \in Int, NEW target \in Slots
    PROVE  DensityReset(Plus(D, a, E), target)
             = Plus(DensityReset(D, target), a, DensityReset(E, target))
<1> DEFINE S == Plus(D, a, E)
           P == DensityReset(D, target)
           Q == DensityReset(E, target)
           L == DensityReset(S, target)
           R == Plus(P, a, Q)
<1>1. P \in Densities /\ Q \in Densities /\ S \in Densities
  BY DensityResetFacts, PlusFacts
<1>2. L \in Densities /\ R \in Densities
  BY <1>1, DensityResetFacts, PlusFacts
<1>3. ASSUME NEW row \in BasisStates, NEW col \in BasisStates PROVE L[row][col] = R[row][col]
  <2> DEFINE r == row \union {target}
             c == col \union {target}
             none == target \in row \/ target \in col
  <2>1. r \in BasisStates /\ c \in BasisStates
    BY BasisFacts
  <2>2. /\ P[row][col] = IF none THEN 0 ELSE D[row][col] + D[r][c]
        /\ Q[row][col] = IF none THEN 0 ELSE E[row][col] + E[r][c]
        /\ L[row][col] = IF none THEN 0 ELSE S[row][col] + S[r][c]
    BY DEF DensityReset
  <2> HIDE DEF r, c, none, L, P, Q
  <2>3. /\ S[row][col] = D[row][col] + a * E[row][col]
        /\ S[r][c] = D[r][c] + a * E[r][c]
    BY <2>1, PlusEntry
  <2>4. R[row][col] = P[row][col] + a * Q[row][col]
    BY <1>1, PlusEntry
  <2>5. D[row][col] \in Int /\ D[r][c] \in Int /\ E[row][col] \in Int /\ E[r][c] \in Int
    BY <2>1, DensityFacts
  <2> HIDE DEF S, R
  <2>6. \A d0, d1, e0, e1 \in Int :
           (d0 + a * e0) + (d1 + a * e1) = (d0 + d1) + a * (e0 + e1) /\ 0 + a * 0 = 0
    OBVIOUS
  <2>7. QED BY <2>2, <2>3, <2>4, <2>5, <2>6
<1> HIDE DEF L, R
<1>4. L = R
  BY <1>2, <1>3, DensitiesEqual
<1>5. QED BY <1>4 DEF L, R

LEMMA ChannelIsLinear ==
    ASSUME NEW D \in Densities, NEW E \in Densities, NEW a \in Int, NEW target \in Slots,
           NEW channel, IsChannel(channel)
    PROVE  ApplyChannel(Plus(D, a, E), target, channel)
             = Plus(ApplyChannel(D, target, channel), a, ApplyChannel(E, target, channel))
<1> DEFINE S == Plus(D, a, E)
           P == ApplyChannel(D, target, channel)
           Q == ApplyChannel(E, target, channel)
           L == ApplyChannel(S, target, channel)
           R == Plus(P, a, Q)
           K == DOMAIN channel
<1>1. P \in Densities /\ Q \in Densities /\ S \in Densities
  BY ChannelFacts, PlusFacts
<1>2. L \in Densities /\ R \in Densities
  BY <1>1, ChannelFacts, PlusFacts
<1>3. ASSUME NEW row \in BasisStates, NEW col \in BasisStates PROVE L[row][col] = R[row][col]
  <2> DEFINE f == Term(D, target, channel, row, col)
             g == Term(E, target, channel, row, col)
             h == Term(S, target, channel, row, col)
  <2>1. IsFiniteSet(K)
    BY DEF IsChannel
  <2>2. ASSUME NEW k \in K PROVE f[k] \in Int /\ g[k] \in Int /\ h[k] = 1 * f[k] + a * g[k]
    <3> DEFINE m == channel[k].matrix
               w == channel[k].weight
               A == ApplyOperator(D, target, m)
               B == ApplyOperator(E, target, m)
               C == ApplyOperator(S, target, m)
    <3>1. IsMatrix(m)
      BY DEF IsChannel
    <3>2. C = Plus(A, a, B)
      BY <3>1, OperatorIsLinear
    <3>3. A \in Densities /\ B \in Densities
      BY <3>1, OperatorFacts
    <3>4. f[k] = w * A[row][col] /\ f[k] \in Int /\ w \in Int
      BY TermIsInt
    <3>5. g[k] = w * B[row][col] /\ g[k] \in Int
      BY TermIsInt
    <3>6. h[k] = w * C[row][col]
      BY DEF Term
    <3>7. A[row][col] \in Int /\ B[row][col] \in Int
      BY <3>3, DensityFacts
    <3> HIDE DEF A, B, C, f, g, h, m, w
    <3>8. C[row][col] = A[row][col] + a * B[row][col]
      BY <3>2, <3>3, PlusEntry
    <3>9. \A x, y, z \in Int : z * (x + a * y) = 1 * (z * x) + a * (z * y)
      OBVIOUS
    <3>10. h[k] = w * (A[row][col] + a * B[row][col])
      BY <3>6, <3>8
    <3>11. w * (A[row][col] + a * B[row][col]) = 1 * f[k] + a * g[k]
      <4> DEFINE x == A[row][col]
                 y == B[row][col]
      <4>1. x \in Int /\ y \in Int /\ w \in Int
        BY <3>4, <3>7
      <4>2. f[k] = w * x /\ g[k] = w * y
        BY <3>4, <3>5
      <4> HIDE DEF x, y
      <4>3. w * (x + a * y) = 1 * (w * x) + a * (w * y)
        BY <3>9, <4>1
      <4>4. QED BY <4>2, <4>3 DEF x, y
    <3>12. QED BY <3>4, <3>5, <3>10, <3>11
  <2>3. P[row][col] = Sum(f, K)
    BY ChannelFacts
  <2>4. Q[row][col] = Sum(g, K)
    BY ChannelFacts
  <2>5. L[row][col] = Sum(h, K)
    BY <1>1, ChannelFacts
  <2>6. R[row][col] = P[row][col] + a * Q[row][col]
    BY <1>1, PlusEntry
  <2>7. P[row][col] \in Int /\ Q[row][col] \in Int
    BY <1>1, DensityFacts
  <2> HIDE DEF f, g, h, P, Q, L, R, K
  <2>8. Sum(h, K) = 1 * Sum(f, K) + a * Sum(g, K)
    <3>1. \A k \in K : f[k] \in Int /\ g[k] \in Int /\ h[k] = 1 * f[k] + a * g[k]
      BY <2>2
    <3>2. 1 \in Int
      OBVIOUS
    <3>3. QED BY <2>1, <3>1, <3>2, SumCombination
  <2>9. QED BY <2>3, <2>4, <2>5, <2>6, <2>7, <2>8
<1> HIDE DEF L, R
<1>4. L = R
  BY <1>2, <1>3, DensitiesEqual
<1>5. QED BY <1>4 DEF L, R

\* The amplitudes after a reset, by its internal outcome.
LEMMA ResetAmplitudes ==
    ASSUME NEW v \in States, NEW target \in Slots, NEW b \in BasisStates
    PROVE  /\ ResetState(v, target, 0)[b] = IF target \in b THEN 0 ELSE v[b]
           /\ ResetState(v, target, 1)[b] = IF target \in b THEN 0 ELSE v[b \union {target}]
<1>1. ASSUME NEW c \in BasisStates, NEW bit
      PROVE  Collapse(v, <<target>>, <<bit>>)[c]
               = IF (IF target \in c THEN 1 ELSE 0) = bit THEN v[c] ELSE 0
  <2>1. Outcome(c, <<target>>) = <<IF target \in c THEN 1 ELSE 0>>
    BY DEF Outcome
  <2>2. \A x, y : <<x>> = <<y>> <=> x = y
    OBVIOUS
  <2>3. Outcome(c, <<target>>) = <<bit>> <=> (IF target \in c THEN 1 ELSE 0) = bit
    BY <2>1, <2>2
  <2>4. QED BY <2>3 DEF Collapse
<1>2. ResetState(v, target, 0)[b] = IF target \in b THEN 0 ELSE v[b]
  BY <1>1 DEF ResetState
<1>3. ResetState(v, target, 1)[b] = IF target \in b THEN 0 ELSE v[b \union {target}]
  <2> DEFINE kept == Collapse(v, <<target>>, <<1>>)
             low == b \ {target}
             high == b \union {target}
  <2>1. low \in BasisStates /\ high \in BasisStates
    BY BasisFacts
  <2>2. kept[low] = 0 /\ kept[high] = v[high]
    BY <1>1, <2>1
  <2>3. kept \in States /\ v[high] \in Int
    BY <2>1, CollapseFacts DEF States
  <2>4. IsMatrix(Matrix.X) /\ Matrix.X = <<<<0, 1>>, <<1, 0>>>>
    BY DEF Matrix, IsMatrix
  <2>5. ResetState(v, target, 1) = ApplySingle(kept, target, Matrix.X)
    BY DEF ResetState
  <2> HIDE DEF kept
  <2>6. ApplySingle(kept, target, Matrix.X)[b]
           = Line(Matrix.X, target, b)[1] * kept[low] + Line(Matrix.X, target, b)[2] * kept[high]
    BY <2>3, <2>4, SingleEntry
  <2> HIDE DEF low, high
  <2>7. CASE target \in b
    <3>1. Line(Matrix.X, target, b)[1] = 1 /\ Line(Matrix.X, target, b)[2] = 0
      BY <2>4, <2>7 DEF Line
    <3>2. QED BY <2>2, <2>3, <2>5, <2>6, <2>7, <3>1
  <2>8. CASE target \notin b
    <3>1. Line(Matrix.X, target, b)[1] = 0 /\ Line(Matrix.X, target, b)[2] = 1
      BY <2>4, <2>8 DEF Line
    <3>2. QED BY <2>2, <2>3, <2>5, <2>6, <2>8, <3>1 DEF high
  <2>9. QED BY <2>7, <2>8
<1>4. QED BY <1>2, <1>3

-----------------------------------------------------------------------------
(* One operation of the density engine.                                       *)

EvolvedAt(i, D) ==
    LET target == circuit[i].targets[1] IN
    IF Measures(i) THEN D
    ELSE IF i \in ResetsAt THEN DensityReset(D, target)
    ELSE IF Noisy(i) THEN ApplyChannel(IdealDensity(D, circuit[i]), target,
                                       request.noise[circuit[i].opcode])
    ELSE IdealDensity(D, circuit[i])

LEMMA EvolvedIsEvolvedAt ==
    ASSUME Progress, Running
    PROVE  Evolved = EvolvedAt(pc, density)
<1>1. Arguments /\ pc \in DOMAIN circuit /\ (IsMeasurement <=> Measures(pc))
        /\ (Operation.opcode = "RESET" <=> pc \in ResetsAt)
  BY RunningFacts DEF Progress
<1>2. NoisyGate <=> Noisy(pc)
  BY DEF NoisyGate, Noisy, Acts, Operation
<1>3. Noisy(pc) => ~ Measures(pc) /\ pc \notin ResetsAt
  BY <1>1, BranchCases
<1>4. pc \in ResetsAt => ~ Measures(pc)
  BY <1>1, BranchCases
<1>5. QED BY <1>1, <1>2, <1>3, <1>4, EvolvedCases DEF EvolvedAt, Operation

LEMMA EvolvedAtFacts ==
    ASSUME Arguments, NEW i \in DOMAIN circuit, NEW D \in Densities
    PROVE  EvolvedAt(i, D) \in Densities
<1> DEFINE target == circuit[i].targets[1]
           ideal == IdealDensity(D, circuit[i])
<1>1. circuit[i] \in AllocatedOperations /\ target \in Slots
  BY ArgumentFacts, FirstTarget
<1>2. ~ Measures(i) /\ i \notin ResetsAt => ideal \in Densities
  BY <1>1, BranchCases, IdealDensityFacts
<1>3. i \in ResetsAt => DensityReset(D, target) \in Densities
  BY <1>1, DensityResetFacts
<1>4. Noisy(i) => ~ Measures(i) /\ i \notin ResetsAt
                    /\ IsChannel(request.noise[circuit[i].opcode])
  BY BranchCases, NoiseFacts DEF Noisy, Acts
<1> HIDE DEF target, ideal
<1>5. Noisy(i) => ApplyChannel(ideal, target, request.noise[circuit[i].opcode]) \in Densities
  BY <1>1, <1>2, <1>4, ChannelFacts DEF target
<1>6. QED BY <1>2, <1>3, <1>5 DEF EvolvedAt, ideal, target

LEMMA EvolvedIsLinear ==
    ASSUME Arguments, NEW i \in DOMAIN circuit, NEW D \in Densities, NEW E \in Densities,
           NEW a \in Int
    PROVE  EvolvedAt(i, Plus(D, a, E)) = Plus(EvolvedAt(i, D), a, EvolvedAt(i, E))
<1> DEFINE target == circuit[i].targets[1]
<1>1. circuit[i] \in AllocatedOperations /\ target \in Slots
  BY ArgumentFacts, FirstTarget
<1>2. CASE Measures(i)
  BY <1>2 DEF EvolvedAt
<1>3. CASE ~ Measures(i) /\ i \in ResetsAt
  BY <1>1, <1>3, ResetIsLinear DEF EvolvedAt
<1>4. CASE ~ Measures(i) /\ i \notin ResetsAt
  <2> DEFINE ID == IdealDensity(D, circuit[i])
             IE == IdealDensity(E, circuit[i])
             IS == IdealDensity(Plus(D, a, E), circuit[i])
             noise == request.noise[circuit[i].opcode]
  <2>1. circuit[i].opcode \in Gates
    BY <1>4, BranchCases
  <2>2. ID \in Densities /\ IE \in Densities
    BY <1>1, <2>1, IdealDensityFacts
  <2>3. IS = Plus(ID, a, IE)
    BY <1>1, <2>1, IdealIsLinear
  <2>4. CASE ~ Noisy(i)
    BY <1>4, <2>3, <2>4 DEF EvolvedAt
  <2>5. CASE Noisy(i)
    <3>1. IsChannel(noise)
      BY <2>5, NoiseFacts DEF Noisy, Acts
    <3>2. /\ EvolvedAt(i, D) = ApplyChannel(ID, target, noise)
          /\ EvolvedAt(i, E) = ApplyChannel(IE, target, noise)
          /\ EvolvedAt(i, Plus(D, a, E)) = ApplyChannel(IS, target, noise)
      BY <1>4, <2>5 DEF EvolvedAt
    <3> HIDE DEF ID, IE, IS, noise, target
    <3>3. ApplyChannel(Plus(ID, a, IE), target, noise)
            = Plus(ApplyChannel(ID, target, noise), a, ApplyChannel(IE, target, noise))
      BY <1>1, <2>2, <3>1, ChannelIsLinear
    <3>4. QED BY <2>3, <3>2, <3>3
  <2>6. QED BY <2>4, <2>5
<1>5. QED BY <1>2, <1>3, <1>4

\* On the matrix of one vector the engine adds up what the choices do to the vector.
LEMMA EvolvedOnOuter ==
    ASSUME Arguments, NEW i \in DOMAIN circuit, NEW v \in States,
           NEW row \in BasisStates, NEW col \in BasisStates
    PROVE  EvolvedAt(i, Outer(v))[row][col]
             = Sum(ChoiceShare(v, i, row, col), ChoicesAt(i))
<1> DEFINE target == circuit[i].targets[1]
           f == ChoiceShare(v, i, row, col)
           G == ApplyOperation(v, circuit[i])
           noise == request.noise[circuit[i].opcode]
<1>1. circuit[i] \in AllocatedOperations /\ target \in Slots
  BY ArgumentFacts, FirstTarget
<1>2. \A c \in ChoicesAt(i) :
         /\ f[c] = ChoiceWeight(i, c) * BranchStep(v, i, c)[row] * BranchStep(v, i, c)[col]
         /\ f[c] \in Int
         /\ BranchStep(v, i, c)[row] \in Int /\ BranchStep(v, i, c)[col] \in Int
  BY ChoiceShareIsInt
<1>3. ASSUME ~ Noisy(i), NEW c \in ChoicesAt(i)
      PROVE  f[c] = BranchStep(v, i, c)[row] * BranchStep(v, i, c)[col]
  <2>1. ChoiceWeight(i, c) = 1
    BY <1>3 DEF ChoiceWeight
  <2>2. \A x, y \in Int : 1 * x * y = x * y
    OBVIOUS
  <2> HIDE DEF f
  <2>3. QED BY <1>2, <2>1, <2>2
<1>4. CASE Measures(i)
  <2>1. ChoicesAt(i) = {0} /\ BranchStep(v, i, 0) = v /\ ~ Noisy(i)
    BY <1>4, BranchCases
  <2>2. EvolvedAt(i, Outer(v))[row][col] = v[row] * v[col]
    BY <1>4, OuterFacts DEF EvolvedAt
  <2> HIDE DEF f
  <2>3. Sum(f, {0}) = f[0]
    BY <1>2, <2>1, SumOfOne
  <2>4. QED BY <1>3, <2>1, <2>2, <2>3 DEF f
<1>5. CASE i \in ResetsAt
  <2> DEFINE lo == ResetState(v, target, 0)
             hi == ResetState(v, target, 1)
             none == target \in row \/ target \in col
             r == row \union {target}
             c == col \union {target}
  <2>1. /\ ChoicesAt(i) = {0, 1} /\ ~ Measures(i) /\ ~ Noisy(i)
        /\ BranchStep(v, i, 0) = lo /\ BranchStep(v, i, 1) = hi
    BY <1>5, BranchCases
  <2>2. r \in BasisStates /\ c \in BasisStates
    BY <1>1, BasisFacts
  <2>3. EvolvedAt(i, Outer(v))[row][col] = IF none THEN 0 ELSE v[row] * v[col] + v[r] * v[c]
    BY <1>5, <2>1, <2>2, OuterFacts DEF EvolvedAt, DensityReset
  <2>4. /\ lo[row] = (IF target \in row THEN 0 ELSE v[row])
        /\ lo[col] = (IF target \in col THEN 0 ELSE v[col])
        /\ hi[row] = (IF target \in row THEN 0 ELSE v[r])
        /\ hi[col] = (IF target \in col THEN 0 ELSE v[c])
    <3>1. ASSUME NEW x \in BasisStates
          PROVE  /\ ResetState(v, target, 0)[x] = (IF target \in x THEN 0 ELSE v[x])
                 /\ ResetState(v, target, 1)[x] =
                       (IF target \in x THEN 0 ELSE v[x \union {target}])
      <4> HIDE DEF target
      <4>1. target \in Slots /\ v \in States
        BY <1>1
      <4>2. QED BY ONLY <4>1, ResetAmplitudes
    <3>2. QED BY <3>1
  <2>5. v[row] \in Int /\ v[col] \in Int /\ v[r] \in Int /\ v[c] \in Int
    BY <2>2 DEF States
  <2>6. f[0] = lo[row] * lo[col] /\ f[1] = hi[row] * hi[col] /\ f[0] \in Int /\ f[1] \in Int
    BY <1>2, <1>3, <2>1
  <2> HIDE DEF f, lo, hi, r, c
  <2>7. Sum(f, {0, 1}) = f[0] + f[1]
    <3>1. 0 # 1
      OBVIOUS
    <3>2. f[0] \in Int /\ f[1] \in Int
      BY <2>6
    <3>3. QED BY ONLY <3>1, <3>2, SumOfTwo
  <2>8. \A x, y \in Int : 0 * x = 0 /\ x * 0 = 0
    OBVIOUS
  <2>9. f[0] + f[1] = IF none THEN 0 ELSE v[row] * v[col] + v[r] * v[c]
    <3>1. CASE none
      <4>1. lo[row] * lo[col] = 0 /\ hi[row] * hi[col] = 0
        BY <2>4, <2>5, <2>8, <3>1
      <4>2. QED BY <2>6, <3>1, <4>1
    <3>2. CASE ~ none
      BY <2>4, <2>6, <3>2
    <3>3. QED BY <3>1, <3>2
  <2>10. QED BY <2>1, <2>3, <2>7, <2>9 DEF f
<1>6. CASE Unitary(i)
  <2>1. /\ ChoicesAt(i) = {0} /\ BranchStep(v, i, 0) = G /\ ~ Noisy(i)
        /\ ~ Measures(i) /\ i \notin ResetsAt /\ circuit[i].opcode \in Gates
    BY <1>6, BranchCases DEF Unitary
  <2>2. G \in States
    BY <1>1, <2>1, GateFacts
  <2>3. EvolvedAt(i, Outer(v)) = Outer(G)
    BY <1>1, <2>1, IdealOnOuter DEF EvolvedAt
  <2> HIDE DEF f, G
  <2>4. Outer(G)[row][col] = G[row] * G[col]
    BY <2>2, OuterFacts
  <2>5. Sum(f, {0}) = f[0]
    BY <1>2, <2>1, SumOfOne
  <2>6. f[0] = G[row] * G[col]
    BY <1>3, <2>1
  <2>7. QED BY <2>1, <2>3, <2>4, <2>5, <2>6 DEF f
<1>7. CASE Noisy(i)
  <2>1. /\ ChoicesAt(i) = DOMAIN noise /\ ~ Measures(i) /\ i \notin ResetsAt
        /\ circuit[i].opcode \in Gates
    BY <1>7, BranchCases
  <2>2. G \in States /\ Outer(G) \in Densities
    BY <1>1, <2>1, GateFacts, OuterFacts
  <2>3. EvolvedAt(i, Outer(v)) = ApplyChannel(Outer(G), target, noise)
    BY <1>1, <1>7, <2>1, IdealOnOuter DEF EvolvedAt
  <2>4. IsChannel(noise)
    BY <1>7, NoiseFacts DEF Noisy, Acts
  <2> DEFINE g == Term(Outer(G), target, noise, row, col)
  <2>5. EvolvedAt(i, Outer(v))[row][col] = Sum(g, DOMAIN noise)
    <3> HIDE DEF G, target, noise
    <3>1. QED BY <1>1, <2>2, <2>3, <2>4, ChannelFacts
  <2>6. ASSUME NEW k \in DOMAIN noise PROVE f[k] \in Int /\ g[k] = f[k]
    <3> DEFINE m == noise[k].matrix
               V == ApplySingle(G, target, m)
    <3>1. IsMatrix(m)
      BY <2>4 DEF IsChannel
    <3>2. BranchStep(v, i, k) = V
      BY <1>7, BranchCases
    <3>3. ApplyOperator(Outer(G), target, m) = Outer(V) /\ V \in States
      <4> HIDE DEF G, m
      <4>1. ApplyOperator(Outer(G), target, m) = Outer(V)
        BY <1>1, <2>2, <3>1, OperatorOnOuter
      <4>2. V \in States
        BY <1>1, <2>2, <3>1, SingleFacts, Zenon
      <4>3. QED BY <4>1, <4>2
    <3>4. g[k] = noise[k].weight * Outer(V)[row][col]
      BY <3>3, Zenon DEF Term
    <3>5. ChoiceWeight(i, k) = noise[k].weight /\ noise[k].weight \in Int
      BY <1>7, <2>4 DEF ChoiceWeight, IsChannel
    <3>6. /\ f[k] = ChoiceWeight(i, k) * BranchStep(v, i, k)[row] * BranchStep(v, i, k)[col]
          /\ f[k] \in Int
          /\ BranchStep(v, i, k)[row] \in Int /\ BranchStep(v, i, k)[col] \in Int
      BY <1>2, <2>1
    <3> HIDE DEF f, g, V, m, noise, G
    <3>7. Outer(V)[row][col] = V[row] * V[col]
      BY <3>3, OuterFacts
    <3>8. \A x, y, z \in Int : x * (y * z) = x * y * z
      OBVIOUS
    <3>9. noise[k].weight * (V[row] * V[col]) = noise[k].weight * V[row] * V[col]
      BY <3>2, <3>5, <3>6, <3>8
    <3>10. QED BY <3>2, <3>4, <3>5, <3>6, <3>7, <3>9
  <2>7. Sum(g, DOMAIN noise) = Sum(f, DOMAIN noise)
    <3>1. IsFiniteSet(DOMAIN noise)
      BY <2>4 DEF IsChannel
    <3> HIDE DEF f, g, noise
    <3>2. QED BY <2>6, <3>1, SumEqual
  <2>8. QED BY <2>1, <2>5, <2>7
<1>8. QED BY <1>4, <1>5, <1>6, <1>7, WhatAnOperationIs

\* The part of the mixture that some of the branches make.
Partial(n, s) ==
    [row \in BasisStates |-> [col \in BasisStates |-> Sum(Share(n, row, col), s)]]

LEMMA PartialFacts ==
    ASSUME Arguments, NEW n \in 0 .. Len(circuit), NEW s \in SUBSET Branches(n)
    PROVE  /\ Partial(n, s) \in Densities
           /\ \A row, col \in BasisStates : Partial(n, s)[row][col] = Sum(Share(n, row, col), s)
<1>1. IsFiniteSet(s)
  BY BranchesAreFinite, FS_Subset
<1>2. ASSUME NEW row \in BasisStates, NEW col \in BasisStates
      PROVE  Sum(Share(n, row, col), s) \in Int
  <2>1. \A b \in s : Share(n, row, col)[b] \in Int
    BY ShareIsInt
  <2>2. QED BY <1>1, <2>1, SumIsInt
<1>3. QED BY <1>2 DEF Partial, Densities, States

LEMMA PartialOfOneMore ==
    ASSUME Arguments, NEW n \in 0 .. Len(circuit), NEW s \in SUBSET Branches(n),
           NEW b \in Branches(n) \ s
    PROVE  Partial(n, s \union {b}) = Plus(Partial(n, s), BranchWeight(b), Outer(BranchVector(b)))
<1> DEFINE D == Partial(n, s)
           w == BranchWeight(b)
           O == Outer(BranchVector(b))
           E == Partial(n, s \union {b})
<1>1. D \in Densities /\ E \in Densities
  BY PartialFacts
<1>2. w \in Int /\ BranchVector(b) \in States
  BY BranchValues
<1>3. O \in Densities
  BY <1>2, OuterFacts
<1>4. Plus(D, w, O) \in Densities
  <2> HIDE DEF D, w, O
  <2>1. QED BY <1>1, <1>2, <1>3, PlusFacts
<1>5. IsFiniteSet(s)
  BY BranchesAreFinite, FS_Subset
<1>6. ASSUME NEW row \in BasisStates, NEW col \in BasisStates
      PROVE  E[row][col] = Plus(D, w, O)[row][col]
  <2> DEFINE f == Share(n, row, col)
             x == BranchVector(b)[row]
             y == BranchVector(b)[col]
  <2>1. f[b] = w * x * y /\ x \in Int /\ y \in Int
    BY ShareIsInt
  <2>2. \A c \in s \union {b} : f[c] \in Int
    BY ShareIsInt
  <2>3. E[row][col] = Sum(f, s \union {b}) /\ D[row][col] = Sum(f, s)
    BY PartialFacts
  <2>4. O[row][col] = x * y
    BY <1>2, OuterFacts
  <2> HIDE DEF f, x, y, w, D, E, O
  <2>5. Sum(f, s \union {b}) = f[b] + Sum(f, s) /\ Sum(f, s) \in Int
    BY <1>5, <2>2, SumAdd
  <2>6. Plus(D, w, O)[row][col] = D[row][col] + w * O[row][col]
    BY <1>1, <1>2, <1>3, PlusEntry
  <2>7. \A i, j, k, l \in Int : i * j * k + l = l + i * (j * k)
    OBVIOUS
  <2>8. QED BY <1>2, <2>1, <2>3, <2>4, <2>5, <2>6, <2>7
<1> HIDE DEF D, w, O, E
<1>7. E = Plus(D, w, O)
  BY <1>1, <1>4, <1>6, DensitiesEqual
<1>8. QED BY <1>7 DEF D, w, O, E

\* What is linear maps nothing to nothing.
LEMMA EvolvedOfNothing ==
    ASSUME Arguments, NEW i \in DOMAIN circuit, NEW Z \in Densities,
           \A row, col \in BasisStates : Z[row][col] = 0,
           NEW row \in BasisStates, NEW col \in BasisStates
    PROVE  EvolvedAt(i, Z)[row][col] = 0
<1> DEFINE F == EvolvedAt(i, Z)
<1>1. F \in Densities
  BY EvolvedAtFacts
<1>2. -1 \in Int
  OBVIOUS
<1>3. Plus(Z, -1, Z) = Z
  <2>1. Plus(Z, -1, Z) \in Densities
    BY <1>2, PlusFacts
  <2>2. ASSUME NEW r \in BasisStates, NEW c \in BasisStates
        PROVE  Plus(Z, -1, Z)[r][c] = Z[r][c]
    BY <1>2, PlusEntry
  <2>3. QED BY <2>1, <2>2, DensitiesEqual
<1>4. EvolvedAt(i, Plus(Z, -1, Z)) = Plus(F, -1, F)
  BY <1>2, EvolvedIsLinear
<1> HIDE DEF F
<1>5. F = Plus(F, -1, F)
  BY <1>3, <1>4 DEF F
<1>6. Plus(F, -1, F)[row][col] = F[row][col] + (-1) * F[row][col]
  BY <1>1, <1>2, PlusEntry
<1>7. F[row][col] \in Int
  BY <1>1 DEF Densities, States
<1>8. \A x \in Int : x = x + (-1) * x => x = 0
  OBVIOUS
<1>9. QED BY <1>5, <1>6, <1>7, <1>8 DEF F

\* One operation takes the mixture of the trajectories so far to the next one.
LEMMA EvolvedMixture ==
    ASSUME Arguments, NEW n \in 0 .. Len(circuit) - 1
    PROVE  EvolvedAt(n + 1, Mixture(n)) = Mixture(n + 1)
<1> DEFINE B == Branches(n)
           At(s) == EvolvedAt(n + 1, Partial(n, s))
           P == {s \in SUBSET B : \A row, col \in BasisStates :
                    At(s)[row][col] = Sum(NextShare(n, row, col), s)}
<1>1. /\ n \in Nat /\ n \in 0 .. Len(circuit) /\ n + 1 \in 0 .. Len(circuit)
      /\ n + 1 \in DOMAIN circuit
  BY ArgumentFacts
<1>2. IsFiniteSet(B)
  BY <1>1, BranchesAreFinite
<1>3. ASSUME NEW row \in BasisStates, NEW col \in BasisStates, NEW b \in B
      PROVE  /\ NextShare(n, row, col)[b] = BranchWeight(b)
                   * Sum(ChoiceShare(BranchVector(b), n + 1, row, col), ChoicesAt(n + 1))
             /\ Sum(ChoiceShare(BranchVector(b), n + 1, row, col), ChoicesAt(n + 1)) \in Int
             /\ BranchWeight(b) \in Int
             /\ NextShare(n, row, col)[b] \in Int
  <2> DEFINE k == Sum(ChoiceShare(BranchVector(b), n + 1, row, col), ChoicesAt(n + 1))
             w == BranchWeight(b)
  <2>1. w \in Int /\ BranchVector(b) \in States
    BY <1>1, BranchValues
  <2>2. k \in Int
    BY <1>1, <2>1, ChoiceSumIsInt
  <2>3. NextShare(n, row, col)[b] = w * k
    BY DEF NextShare
  <2> HIDE DEF k, w
  <2>4. w * k \in Int
    BY <2>1, <2>2
  <2>5. QED BY <2>1, <2>2, <2>3, <2>4 DEF k, w
<1>4. {} \in P
  <2>1. Partial(n, {}) \in Densities /\ \A row, col \in BasisStates : Partial(n, {})[row][col] = 0
    BY <1>1, PartialFacts, SumEmpty
  <2>2. \A row, col \in BasisStates : At({})[row][col] = 0
    BY <1>1, <2>1, EvolvedOfNothing
  <2>3. QED BY <2>2, SumEmpty
<1>5. ASSUME NEW s \in SUBSET B, NEW b \in B \ s, s \in P PROVE s \union {b} \in P
  <2> DEFINE D == Partial(n, s)
             v == BranchVector(b)
             w == BranchWeight(b)
             FD == EvolvedAt(n + 1, D)
             FO == EvolvedAt(n + 1, Outer(v))
  <2>1. D \in Densities /\ v \in States /\ w \in Int
    BY <1>1, PartialFacts, BranchValues
  <2>2. Outer(v) \in Densities
    BY <2>1, OuterFacts
  <2>3. Partial(n, s \union {b}) = Plus(D, w, Outer(v))
    BY <1>1, PartialOfOneMore
  <2>4. EvolvedAt(n + 1, Plus(D, w, Outer(v))) = Plus(FD, w, FO)
    <3> HIDE DEF D, w, v
    <3>1. QED BY <1>1, <2>1, <2>2, EvolvedIsLinear
  <2>5. At(s \union {b}) = Plus(FD, w, FO)
    BY <2>3, <2>4
  <2>6. FD \in Densities /\ FO \in Densities
    <3> HIDE DEF D, v
    <3>1. QED BY <1>1, <2>1, <2>2, EvolvedAtFacts
  <2>7. ASSUME NEW row \in BasisStates, NEW col \in BasisStates
        PROVE  At(s \union {b})[row][col] = Sum(NextShare(n, row, col), s \union {b})
    <3> DEFINE f == NextShare(n, row, col)
               k == Sum(ChoiceShare(v, n + 1, row, col), ChoicesAt(n + 1))
    <3>1. FO[row][col] = k
      <4> HIDE DEF v
      <4>1. QED BY <1>1, <2>1, EvolvedOnOuter
    <3>2. f[b] = w * k /\ k \in Int
      BY <1>3
    <3>3. \A c \in s \union {b} : f[c] \in Int
      BY <1>3
    <3>4. FD[row][col] = Sum(f, s)
      BY <1>5
    <3>5. IsFiniteSet(s)
      BY <1>2, FS_Subset
    <3> HIDE DEF f, k, FD, FO, w, At
    <3>6. Sum(f, s \union {b}) = f[b] + Sum(f, s) /\ Sum(f, s) \in Int
      BY <3>3, <3>5, SumAdd
    <3>7. Plus(FD, w, FO)[row][col] = FD[row][col] + w * FO[row][col]
      BY <2>1, <2>6, PlusEntry
    <3>8. \A x, y, z \in Int : x + y * z = y * z + x
      OBVIOUS
    <3>9. Plus(FD, w, FO)[row][col] = Sum(f, s \union {b})
      BY <2>1, <3>1, <3>2, <3>4, <3>6, <3>7, <3>8
    <3>10. QED BY <2>5, <3>9 DEF f
  <2>8. QED BY <2>7
<1>6. B \in P
  <2> HIDE DEF P, B
  <2>1. QED BY <1>2, <1>4, <1>5, SubsetInduction
<1>7. Mixture(n) = Partial(n, B)
  <2>1. Mixture(n) \in Densities /\ Partial(n, B) \in Densities
    BY <1>1, MixtureFacts, PartialFacts
  <2>2. \A row, col \in BasisStates : Mixture(n)[row][col] = Partial(n, B)[row][col]
    BY <1>1, MixtureFacts, PartialFacts
  <2>3. QED BY <2>1, <2>2, DensitiesEqual
<1>8. EvolvedAt(n + 1, Mixture(n)) \in Densities /\ Mixture(n + 1) \in Densities
  BY <1>1, MixtureFacts, EvolvedAtFacts
<1>9. ASSUME NEW row \in BasisStates, NEW col \in BasisStates
      PROVE  EvolvedAt(n + 1, Mixture(n))[row][col] = Mixture(n + 1)[row][col]
  <2>1. At(B)[row][col] = Sum(NextShare(n, row, col), B)
    BY <1>6
  <2>2. Mixture(n + 1)[row][col] = Sum(NextShare(n, row, col), B)
    BY MixtureOfOneMore
  <2>3. QED BY <1>7, <2>1, <2>2
<1>10. QED BY <1>8, <1>9, DensitiesEqual

\* Before the first operation there is one trajectory, in the ground state.
LEMMA FirstBranch ==
    ASSUME Arguments, NEW e, e = [i \in 1 .. 0 |-> 0]
    PROVE  Branches(0) = {e} /\ BranchVector(e) = GroundState /\ BranchWeight(e) = 1
<1>1. 0 \in 0 .. Len(circuit) /\ 1 .. 0 = {}
  BY ArgumentFacts
<1>2. Branches(0) = {e}
  <2>1. e \in Branches(0)
    BY <1>1 DEF Branches
  <2>2. ASSUME NEW b \in Branches(0) PROVE b = e
    BY <1>1 DEF Branches
  <2>3. QED BY <2>1, <2>2
<1>3. BranchVector(e) = GroundState
  <2>1. PICK w : BranchPath(e, 0, w)
    BY <1>1, <1>2, BranchHasPath
  <2>2. BranchVector(e) = w[0]
    BY <1>1, <1>2, <2>1, BranchVectorIs
  <2>3. QED BY <2>1, <2>2 DEF BranchPath
<1>4. BranchWeight(e) = 1
  <2>1. PICK w : WeightPath(e, 0, w)
    BY <1>1, <1>2, WeightHasPath
  <2>2. BranchWeight(e) = w[0]
    BY <1>1, <1>2, <2>1, BranchWeightIs
  <2>3. QED BY <2>1, <2>2 DEF WeightPath
<1>5. QED BY <1>2, <1>3, <1>4

LEMMA FirstMixture ==
    ASSUME Arguments PROVE Mixture(0) = GroundDensity
<1> DEFINE e == [i \in 1 .. 0 |-> 0]
<1>1. 0 \in 0 .. Len(circuit) /\ 1 .. 0 = {}
  BY ArgumentFacts
<1>2. Branches(0) = {e} /\ BranchVector(e) = GroundState /\ BranchWeight(e) = 1
  BY FirstBranch
<1>3. GroundDensity \in Densities
  BY DEF GroundDensity, Densities, States
<1>4. ASSUME NEW row \in BasisStates, NEW col \in BasisStates
      PROVE  Mixture(0)[row][col] = GroundDensity[row][col]
  <2> DEFINE f == Share(0, row, col)
  <2>1. f[e] = 1 * GroundState[row] * GroundState[col] /\ f[e] \in Int
    BY <1>1, <1>2, ShareIsInt
  <2>2. f[e] = GroundDensity[row][col]
    <3> HIDE DEF e, f
    <3>1. QED BY <2>1 DEF GroundState, GroundDensity
  <2>3. Mixture(0)[row][col] = Sum(f, {e})
    BY <1>1, <1>2, MixtureFacts
  <2> HIDE DEF f, e
  <2>4. Sum(f, {e}) = f[e]
    BY <2>1, SumOfOne
  <2>5. QED BY <2>2, <2>3, <2>4
<1>5. QED BY <1>1, <1>3, <1>4, MixtureFacts, DensitiesEqual

\* The reference definitions depend on the arguments of the run alone.
LEMMA StepsStay ==
    ASSUME UNCHANGED <<circuit, request>>
    PROVE  /\ \A i : ChoicesAt(i)' = ChoicesAt(i)
           /\ \A v, i, c : BranchStep(v, i, c)' = BranchStep(v, i, c)
           /\ \A i : Noisy(i)' <=> Noisy(i)
BY DEF ChoicesAt, BranchStep, Acts, Noisy

LEMMA BranchesStay ==
    ASSUME UNCHANGED <<circuit, request>>, NEW n
    PROVE  Branches(n)' = Branches(n)
BY StepsStay DEF Branches

LEMMA BranchVectorStays ==
    ASSUME UNCHANGED <<circuit, request>>, NEW b
    PROVE  BranchVector(b)' = BranchVector(b)
<1> DEFINE Folded(g) ==
               [s \in SUBSET (DOMAIN [j \in DOMAIN b |-> j]) |->
                   IF s = {} THEN GroundState
                   ELSE LET i == Max(s)
                        IN  BranchStep(g[s \ {i}], [j \in DOMAIN b |-> j][i],
                                       b[[j \in DOMAIN b |-> j][i]])]
<1>1. BranchVector(b) = (CHOOSE g : g = Folded(g))[DOMAIN [j \in DOMAIN b |-> j]]
  BY DEF BranchVector, FoldLeftDomain, FoldLeft, MapThenFoldSet
<1>2. BranchVector(b)' = (CHOOSE g : g = Folded(g)')[DOMAIN [j \in DOMAIN b |-> j]]
  BY DEF BranchVector, FoldLeftDomain, FoldLeft, MapThenFoldSet
<1>3. ASSUME NEW g PROVE Folded(g)' = Folded(g)
  BY StepsStay
<1> HIDE DEF Folded
<1>4. (CHOOSE g : g = Folded(g)') = (CHOOSE g : g = Folded(g))
  BY <1>3
<1>5. QED BY <1>1, <1>2, <1>4

LEMMA BranchWeightStays ==
    ASSUME UNCHANGED <<circuit, request>>, NEW b
    PROVE  BranchWeight(b)' = BranchWeight(b)
<1> DEFINE Folded(g) ==
               [s \in SUBSET (DOMAIN [j \in DOMAIN b |-> j]) |->
                   IF s = {} THEN 1
                   ELSE LET i == Max(s)
                            k == [j \in DOMAIN b |-> j][i]
                        IN  IF Acts(k, DOMAIN request.noise)
                            THEN g[s \ {i}]
                                   * request.noise[circuit[k].opcode][b[k]].weight
                            ELSE g[s \ {i}]]
<1>1. BranchWeight(b) = (CHOOSE g : g = Folded(g))[DOMAIN [j \in DOMAIN b |-> j]]
  BY DEF BranchWeight, FoldLeftDomain, FoldLeft, MapThenFoldSet
<1>2. BranchWeight(b)' = (CHOOSE g : g = Folded(g)')[DOMAIN [j \in DOMAIN b |-> j]]
  BY DEF BranchWeight, FoldLeftDomain, FoldLeft, MapThenFoldSet
<1>3. ASSUME NEW g PROVE Folded(g)' = Folded(g)
  BY DEF Acts
<1> HIDE DEF Folded
<1>4. (CHOOSE g : g = Folded(g)') = (CHOOSE g : g = Folded(g))
  BY <1>3
<1>5. QED BY <1>1, <1>2, <1>4

LEMMA MixtureStays ==
    ASSUME UNCHANGED <<circuit, request>>, NEW n
    PROVE  Mixture(n)' = Mixture(n)
<1> DEFINE ends == {<<BranchVector(b), b>> : b \in Branches(n)}
           Next(row, col, g) ==
               [s \in SUBSET ends |->
                   IF s = {} THEN 0
                   ELSE LET e == CHOOSE e \in s : TRUE
                        IN  (BranchWeight(e[2]) * e[1][row] * e[1][col]) + g[s \ {e}]]
           Entry(row, col) == (CHOOSE g : g = Next(row, col, g))[ends]
<1>1. /\ Mixture(n) = [row \in BasisStates |-> [col \in BasisStates |-> Entry(row, col)]]
      /\ Mixture(n)' = [row \in BasisStates |-> [col \in BasisStates |-> Entry(row, col)']]
  BY DEF Mixture, MapThenSumSet, MapThenFoldSet
<1>2. ends' = ends
  BY BranchesStay, BranchVectorStays
<1>3. ASSUME NEW row, NEW col, NEW g PROVE Next(row, col, g)' = Next(row, col, g)
  <2> HIDE DEF ends
  <2>1. QED BY <1>2, BranchWeightStays
<1> HIDE DEF Next, ends
<1>4. ASSUME NEW row, NEW col PROVE Entry(row, col)' = Entry(row, col)
  <2>1. (CHOOSE g : g = Next(row, col, g)') = (CHOOSE g : g = Next(row, col, g))
    BY <1>3
  <2>2. QED BY <1>2, <2>1
<1> HIDE DEF Entry
<1>5. QED BY <1>1, <1>4

\* What the density engine holds is the mixture of the trajectories so far.
LEMMA InitEstablishesMixture == ExecutionInit => DensityIsMixture
<1> SUFFICES ASSUME ExecutionInit PROVE DensityIsMixture
  OBVIOUS
<1>1. density = GroundDensity /\ pc - 1 = 0 /\ Arguments
  BY DEF ExecutionInit, Arguments
<1>2. QED BY <1>1, FirstMixture DEF DensityIsMixture

LEMMA KeepingKeepsMixture ==
    ASSUME DensityIsMixture, UNCHANGED <<circuit, request>>,
           Engine = "density" => UNCHANGED <<pc, density>>
    PROVE  DensityIsMixture'
<1> SUFFICES ASSUME Engine = "density" PROVE density' = Mixture(pc - 1)'
  BY DEF DensityIsMixture, Engine
<1>1. density = Mixture(pc - 1)
  BY DEF DensityIsMixture
<1>2. Mixture(pc - 1)' = Mixture(pc' - 1)
  <2> DEFINE n == pc - 1
  <2>1. UNCHANGED n
    OBVIOUS
  <2>2. QED BY MixtureStays
<1>3. QED BY <1>1, <1>2

LEMMA LoopKeepsMixture == Progress /\ DensityIsMixture /\ LoopStep => DensityIsMixture'
<1> SUFFICES ASSUME Progress, DensityIsMixture, LoopStep PROVE DensityIsMixture'
  OBVIOUS
<1>1. CASE RefuseReset \/ RefuseEvolution \/ DrawBeyondMass
  BY <1>1, KeepingKeepsMixture DEF RefuseReset, RefuseEvolution, DrawBeyondMass, Abort
<1>2. CASE ExactOperation
  BY <1>2, KeepingKeepsMixture DEF ExactOperation
<1>3. CASE DensityOperation
  <2>1. /\ Running /\ Engine = "density" /\ density' = Evolved /\ pc' = pc + 1
        /\ UNCHANGED <<circuit, request>>
    BY <1>3 DEF DensityOperation
  <2>2. Arguments /\ pc \in Nat /\ pc - 1 \in 0 .. Len(circuit) - 1 /\ (pc - 1) + 1 = pc
    BY <2>1, RunningFacts, ArgumentFacts DEF Progress
  <2>3. density' = EvolvedAt(pc, Mixture(pc - 1))
    BY <2>1, EvolvedIsEvolvedAt DEF DensityIsMixture
  <2>4. EvolvedAt((pc - 1) + 1, Mixture(pc - 1)) = Mixture((pc - 1) + 1)
    BY <2>2, EvolvedMixture
  <2>5. density' = Mixture(pc)
    BY <2>2, <2>3, <2>4
  <2>6. \A n : Mixture(n)' = Mixture(n)
    BY <2>1, MixtureStays
  <2>7. (pc - 1)' = pc
    BY <2>1, <2>2
  <2>8. Mixture(pc - 1)' = Mixture(pc)
    BY <2>6, <2>7
  <2>9. QED BY <2>5, <2>8 DEF DensityIsMixture
<1>4. CASE SampledGate \/ SampledMeasure \/ SampledReset
  BY <1>4, KeepingKeepsMixture DEF SampledGate, SampledMeasure, SampledReset, CanEvolve
<1>5. CASE FinishShot
  BY <1>5, KeepingKeepsMixture DEF FinishShot
<1>6. CASE FinishExecution
  BY <1>6, KeepingKeepsMixture DEF FinishExecution
<1>7. QED BY <1>1, <1>2, <1>3, <1>4, <1>5, <1>6 DEF LoopStep

-----------------------------------------------------------------------------
(* Sampled trajectories.  A gate can be undone, so that no amplitudes are lost. *)

NotZero(v) == \E b \in BasisStates : v[b] # 0

LEMMA CxIsUndone ==
    ASSUME NEW b \in BasisStates, NEW control \in Slots, NEW target \in Slots, control # target
    PROVE  /\ Permuted(b, control, target) \in BasisStates
           /\ Permuted(Permuted(b, control, target), control, target) = b
BY DEF Permuted, BasisStates

LEMMA GatesAreRegular ==
    ASSUME NEW g \in DOMAIN Matrix, NEW x \in Int, NEW y \in Int,
           Matrix[g][1][1] * x + Matrix[g][1][2] * y = 0,
           Matrix[g][2][1] * x + Matrix[g][2][2] * y = 0
    PROVE  x = 0 /\ y = 0
<1>1. g \in {"X", "H", "Z", "RY"}
  BY DEF Matrix
<1>2. CASE g = "X"
  BY <1>2 DEF Matrix
<1>3. CASE g = "H"
  BY <1>3 DEF Matrix
<1>4. CASE g = "Z"
  BY <1>4 DEF Matrix
<1>5. CASE g = "RY"
  BY <1>5 DEF Matrix
<1>6. QED BY <1>1, <1>2, <1>3, <1>4, <1>5

LEMMA GatesKeepAmplitudes ==
    ASSUME NEW v \in States, NEW operation \in AllocatedOperations, operation.opcode \in Gates,
           NotZero(v)
    PROVE  NotZero(ApplyOperation(v, operation))
<1> DEFINE target == operation.targets[1]
           control == operation.control
           V == ApplyOperation(v, operation)
<1>1. PICK b \in BasisStates : v[b] # 0
  BY DEF NotZero
<1>2. target \in Slots
  BY FirstTarget
<1>3. CASE operation.opcode = "CX"
  <2>1. control \in Slots /\ control # target
    BY <1>3 DEF AllocatedOperations
  <2> DEFINE c == Permuted(b, control, target)
  <2>2. c \in BasisStates /\ Permuted(c, control, target) = b
    BY <1>2, <2>1, CxIsUndone
  <2> HIDE DEF c
  <2>3. V[c] = v[b]
    BY <1>3, <2>2 DEF ApplyOperation, ApplyCx
  <2>4. QED BY <1>1, <2>2, <2>3 DEF NotZero
<1>4. CASE operation.opcode # "CX"
  <2> DEFINE m == Matrix[operation.opcode]
             lo == b \ {target}
             hi == b \union {target}
             x == v[lo]
             y == v[hi]
  <2>1. operation.opcode \in DOMAIN Matrix /\ IsMatrix(m)
    BY <1>4, MatrixOfGate DEF Gates
  <2>2. lo \in BasisStates /\ hi \in BasisStates /\ x \in Int /\ y \in Int
    BY <1>2, BasisFacts DEF States
  <2>3. V = ApplySingle(v, target, m)
    BY <1>4 DEF ApplyOperation
  <2>4. V[lo] = m[1][1] * x + m[1][2] * y
    <3>1. lo \ {target} = lo /\ lo \union {target} = hi /\ target \notin lo
      OBVIOUS
    <3>2. V[lo] = m[1][1] * v[lo \ {target}] + m[1][2] * v[lo \union {target}]
      <4> HIDE DEF lo, m
      <4>1. target \notin lo
        BY <3>1
      <4>2. QED BY <2>2, <2>3, <4>1 DEF ApplySingle
    <3>3. QED BY <3>1, <3>2
  <2>5. V[hi] = m[2][1] * x + m[2][2] * y
    <3>1. hi \ {target} = lo /\ hi \union {target} = hi /\ target \in hi
      OBVIOUS
    <3>2. V[hi] = m[2][1] * v[hi \ {target}] + m[2][2] * v[hi \union {target}]
      <4>1. target \in hi
        BY <3>1
      <4> HIDE DEF hi, m
      <4>2. QED BY <2>2, <2>3, <4>1 DEF ApplySingle
    <3>3. QED BY <3>1, <3>2
  <2>6. x # 0 \/ y # 0
    <3>1. b = lo \/ b = hi
      OBVIOUS
    <3>2. QED BY <1>1, <3>1
  <2> HIDE DEF lo, hi, x, y, V
  <2>7. V[lo] # 0 \/ V[hi] # 0
    BY <2>1, <2>2, <2>4, <2>5, <2>6, GatesAreRegular
  <2>8. QED BY <2>2, <2>7 DEF NotZero, V
<1>5. QED BY <1>3, <1>4

LEMMA GroundIsNotZero == NotZero(GroundState)
<1>1. {} \in BasisStates
  BY DEF BasisStates
<1>2. GroundState[{}] = 1
  BY <1>1 DEF GroundState
<1>3. QED BY <1>1, <1>2 DEF NotZero

\* What an operation does to a vector that no choice is made about.
IdealStep(v, i) == IF Acts(i, Gates) THEN ApplyOperation(v, circuit[i]) ELSE v

LEMMA IdealStepIsState ==
    ASSUME Arguments, NEW i \in DOMAIN circuit, NEW v \in States
    PROVE  IdealStep(v, i) \in States
BY ArgumentFacts, GateFacts DEF IdealStep, Acts

LEMMA StepWithoutChoice ==
    ASSUME Arguments, NEW i \in DOMAIN circuit, NEW v, NEW choice, i \notin ResetsAt, ~ Noisy(i)
    PROVE  BranchStep(v, i, choice) = IdealStep(v, i) /\ ChoicesAt(i) = {0}
<1>1. Measures(i) => BranchStep(v, i, choice) = v /\ ChoicesAt(i) = {0}
  BY BranchCases
<1>2. Unitary(i) => BranchStep(v, i, choice) = ApplyOperation(v, circuit[i]) /\ ChoicesAt(i) = {0}
  BY BranchCases
<1>3. Measures(i) <=> ~ Acts(i, Gates)
  <2>1. circuit[i] \in AllocatedOperations
    BY ArgumentFacts
  <2>2. circuit[i].opcode \in Gates \union {"MEASURE", "RESET"} /\ "MEASURE" \notin Gates
    BY <2>1, OpcodeIsKnown DEF Gates, Matrix
  <2>3. circuit[i].opcode # "RESET"
    BY DEF ResetsAt, Acts
  <2>4. QED BY <2>2, <2>3 DEF Measures, Acts
<1>4. QED BY <1>1, <1>2, <1>3 DEF Unitary, IdealStep

\* Without a choice to make there is one trajectory, along the gates.
LEMMA IdealVectorIs ==
    ASSUME Arguments, ResetsAt = {}, \A i \in DOMAIN circuit : ~ Noisy(i),
           NEW b \in Branches(Len(circuit))
    PROVE  IdealVector = BranchVector(b)
<1> DEFINE n == Len(circuit)
           choice == [s \in SUBSET (1 .. n) |-> Max(s)]
           step == [i \in 1 .. n |-> [v \in States |-> IdealStep(v, i)]]
           Next(g) == [s \in SUBSET (1 .. n) |->
                          IF s = {} THEN GroundState
                          ELSE LET i == Max(s) IN IdealStep(g[s \ {i}], i)]
           h == CHOOSE g : g = Next(g)
<1>0. PICK w : BranchPath(b, n, w)
  BY BranchHasPath, ArgumentFacts
<1>1. n \in Nat /\ DOMAIN circuit = 1 .. n
  BY ArgumentFacts
<1>2. IdealVector = h[1 .. n]
  <2> DEFINE Folded(g) == [s \in SUBSET (1 .. n) |->
                              IF s = {} THEN GroundState
                              ELSE LET i == Max(s)
                                   IN  IdealStep(g[s \ {i}], [j \in 1 .. n |-> j][i])]
  <2>1. IdealVector = (CHOOSE g : g = Folded(g))[1 .. n]
    BY <1>1 DEF IdealVector, FoldLeftDomain, FoldLeft, MapThenFoldSet, IdealStep
  <2>2. ASSUME NEW g PROVE Folded(g) = Next(g)
    <3>1. ASSUME NEW s \in SUBSET (1 .. n), s # {} PROVE [j \in 1 .. n |-> j][Max(s)] = Max(s)
      BY <1>1, <3>1, PrefixFacts DEF Chooses
    <3>2. ASSUME NEW s \in SUBSET (1 .. n) PROVE Folded(g)[s] = Next(g)[s]
      BY <3>1
    <3>3. QED BY <3>2
  <2> HIDE DEF Folded, Next
  <2>3. (CHOOSE g : g = Folded(g)) = (CHOOSE g : g = Next(g))
    BY <2>2
  <2>4. QED BY <2>1, <2>3
<1>3. \E g : g = Next(g)
  <2>1. step \in [1 .. n -> [States -> States]]
    BY <1>1, IdealStepIsState
  <2>a. Chooses(choice, 1 .. n)
    BY <1>1, PrefixFacts
  <2>b. IsFiniteSet(1 .. n)
    BY <1>1, FS_Interval
  <2>2. Chooses(choice, 1 .. n) /\ IsFiniteSet(1 .. n)
    BY <2>a, <2>b
  <2>3. PICK g \in [SUBSET (1 .. n) -> States] :
           FoldsTo(g, 1 .. n, choice, GroundState, step)
    <3> HIDE DEF step, choice
    <3>1. QED BY <2>1, <2>2, GroundIsState, FoldHasSolution
  <2>4. ASSUME NEW s \in SUBSET (1 .. n) PROVE g[s] = Next(g)[s]
    <3>1. s # {} => Max(s) \in 1 .. n
      BY <2>2 DEF Chooses
    <3>2. s # {} => g[s] = step[Max(s)][g[s \ {Max(s)}]]
      BY <2>3 DEF FoldsTo
    <3>3. s # {} => g[s] = IdealStep(g[s \ {Max(s)}], Max(s))
      BY <3>1, <3>2
    <3>4. s = {} => g[s] = GroundState
      BY <2>3 DEF FoldsTo
    <3>5. QED BY <3>3, <3>4
  <2>5. g = Next(g)
    BY <2>4
  <2>6. QED BY <2>5
<1>4. h = Next(h)
  BY <1>3
<1> HIDE DEF h
<1>5. h[1 .. 0] = w[0]
  <2>1. 1 .. 0 = {} /\ {} \in SUBSET (1 .. n)
    OBVIOUS
  <2>2. h[{}] = GroundState
    BY <1>4
  <2>3. QED BY <1>0, <2>1, <2>2 DEF BranchPath
<1>6. ASSUME NEW i \in 1 .. n, h[1 .. i - 1] = w[i - 1] PROVE h[1 .. i] = w[i]
  <2>1. /\ Max(1 .. i) = i /\ (1 .. i) \ {i} = 1 .. i - 1 /\ 1 .. i # {}
        /\ 1 .. i \in SUBSET (1 .. n)
    BY <1>1, PrefixFacts
  <2>2. h[1 .. i] = IdealStep(h[1 .. i - 1], i)
    BY <1>4, <2>1
  <2>3. w[i] = IdealStep(w[i - 1], i)
    BY <1>0, <1>1, StepWithoutChoice DEF BranchPath
  <2>4. QED BY <1>6, <2>2, <2>3
<1>7. n \in 0 .. n
  BY <1>1
<1>8. h[1 .. n] = w[n]
  <2>1. SameSteps(h, w, n)
    BY <1>5, <1>6 DEF SameSteps
  <2>2. \A i \in 0 .. n : h[1 .. i] = w[i]
    BY <1>1, <2>1, PrefixesAgree
  <2>3. QED BY <1>7, <2>2
<1>9. BranchVector(b) = w[n]
  BY <1>0, <1>1, BranchVectorIs
<1>10. QED BY <1>2, <1>8, <1>9

\* The basis states that give all the outcomes a trajectory has recorded.
Agrees(records, b) ==
    \A k \in DOMAIN records : Outcome(b, circuit[records[k].op].targets) = records[k].outcome

Restricted(v, records) == [b \in BasisStates |-> IF Agrees(records, b) THEN v[b] ELSE 0]

\* What a vector engine holds after n operations, in a circuit where nothing follows
\* an observation: the end of a branch, projected on what was observed.
IsTrajectory(v, records, n) ==
    NotZero(v) /\ \E b \in Branches(n) : v = Restricted(BranchVector(b), records)

TrajectoryIInv ==
    Engine # "density" /\ (Engine = "sampled" => Late = {}) =>
        /\ IsTrajectory(state, measured, pc - 1)
        /\ \A n \in DOMAIN shots : IsTrajectory(shots[n].final, shots[n].measured, Len(circuit))

LEMMA NothingRecorded ==
    ASSUME NEW v \in States, NEW records, DOMAIN records = {}
    PROVE  Restricted(v, records) = v
BY DEF Restricted, Agrees, States

LEMMA NoNoiseOnVectors ==
    ASSUME Arguments, Engine # "density"
    PROVE  \A i : ~ Noisy(i)
BY NoiseIsOfGates DEF Arguments, Engine, Noisy, Acts

LEMMA FirstTrajectory ==
    ASSUME Arguments
    PROVE  IsTrajectory(GroundState, <<>>, 0)
<1> DEFINE e == [i \in 1 .. 0 |-> 0]
<1>1. e \in Branches(0) /\ BranchVector(e) = GroundState
  BY FirstBranch
<1>2. DOMAIN <<>> = {}
  BY EmptySeq
<1> HIDE DEF e
<1>3. Restricted(BranchVector(e), <<>>) = GroundState
  BY <1>1, <1>2, NothingRecorded, GroundIsState
<1>4. QED BY <1>1, <1>3, GroundIsNotZero DEF IsTrajectory

LEMMA InitEstablishesTrajectory == ExecutionInit => TrajectoryIInv
<1> SUFFICES ASSUME ExecutionInit PROVE TrajectoryIInv
  OBVIOUS
<1>1. /\ state = GroundState /\ pc - 1 = 0 /\ measured = <<>> /\ Arguments
      /\ DOMAIN shots = {}
  BY EmptySeq DEF ExecutionInit, Arguments
<1>2. IsTrajectory(state, measured, 0)
  BY <1>1, FirstTrajectory
<1>3. QED BY <1>1, <1>2 DEF TrajectoryIInv

\* Trajectories of one circuit are the same before and after a step.
LEMMA TrajectoryStays ==
    ASSUME UNCHANGED <<circuit, request>>, NEW v, NEW records, NEW n, IsTrajectory(v, records, n)
    PROVE  IsTrajectory(v, records, n)'
<1>1. Branches(n)' = Branches(n) /\ \A b : BranchVector(b)' = BranchVector(b)
  BY BranchesStay, BranchVectorStays
<1>2. \A b : Agrees(records, b)' <=> Agrees(records, b)
  BY DEF Agrees
<1>3. \A u : Restricted(u, records)' = Restricted(u, records)
  BY <1>2 DEF Restricted
<1>4. \A b : Restricted(BranchVector(b), records)' = Restricted(BranchVector(b), records)
  BY <1>1, <1>2 DEF Restricted
<1>5. QED BY <1>1, <1>4 DEF IsTrajectory, NotZero

LEMMA KeepingKeepsTrajectory ==
    ASSUME TrajectoryIInv, UNCHANGED <<circuit, request>>,
           Engine # "density" => UNCHANGED <<pc, state, measured, shots>>
    PROVE  TrajectoryIInv'
<1>1. Late' = Late /\ Engine' = Engine
  BY DEF Late, Acts, Engine
<1> SUFFICES ASSUME Engine # "density", Engine = "sampled" => Late = {}
    PROVE  /\ IsTrajectory(state, measured, pc - 1)'
           /\ \A n \in DOMAIN shots : IsTrajectory(shots[n].final, shots[n].measured, Len(circuit))'
  BY <1>1 DEF TrajectoryIInv
<1>2. /\ IsTrajectory(state, measured, pc - 1)
      /\ \A n \in DOMAIN shots : IsTrajectory(shots[n].final, shots[n].measured, Len(circuit))
  BY DEF TrajectoryIInv
<1>3. \A v, r, i : IsTrajectory(v, r, i) => IsTrajectory(v, r, i)'
  BY TrajectoryStays
<1>4. UNCHANGED <<pc, state, measured, shots, circuit>>
  OBVIOUS
<1>5. IsTrajectory(state, measured, pc - 1)'
  BY <1>2, <1>3, <1>4
<1>6. ASSUME NEW n \in DOMAIN shots
      PROVE  IsTrajectory(shots[n].final, shots[n].measured, Len(circuit))'
  BY <1>2, <1>3, <1>4
<1>7. QED BY <1>5, <1>6

\* The place of a loop among the branches.
LEMMA PlaceFacts ==
    ASSUME Progress, Running
    PROVE  /\ Arguments /\ pc \in DOMAIN circuit /\ pc \in Nat /\ pc - 1 \in 0 .. Len(circuit) - 1
           /\ pc - 1 \in 0 .. Len(circuit) /\ pc \in 0 .. Len(circuit) /\ (pc - 1) + 1 = pc
           /\ Operation \in AllocatedOperations /\ circuit[pc] = Operation
BY RunningFacts, ArgumentFacts DEF Progress, Operation

LEMMA BranchGoesOn ==
    ASSUME Progress, Running, NEW b \in Branches(pc - 1), NEW choice \in ChoicesAt(pc)
    PROVE  /\ BranchVector(b) \in States
           /\ \E d \in Branches(pc) : BranchVector(d) = BranchStep(BranchVector(b), pc, choice)
<1> DEFINE n == pc - 1
<1>1. Arguments /\ n \in 0 .. Len(circuit) - 1 /\ n + 1 = pc
  BY PlaceFacts
<1>2. choice \in ChoicesAt(n + 1)
  BY <1>1
<1> HIDE DEF n
<1>3. b \in Branches(n)
  BY DEF n
<1>4. /\ BranchVector(b) \in States /\ Extend(b, n, choice) \in Branches(n + 1)
      /\ BranchVector(Extend(b, n, choice)) = BranchStep(BranchVector(b), n + 1, choice)
  BY <1>1, <1>2, <1>3, ExtendFacts
<1>5. QED BY <1>1, <1>4

LEMMA NothingObservedYet ==
    ASSUME Progress, Running, ~ IsMeasurement, Late = {}, Observations(measured, pc)
    PROVE  DOMAIN measured = {}
<1> SUFFICES ASSUME NEW k \in DOMAIN measured PROVE FALSE
  OBVIOUS
<1>1. measured[k].op \in 1 .. pc - 1 /\ Measures(measured[k].op)
  BY DEF Observations, IsObservation
<1>2. pc \in Late
  BY <1>1, RunningFacts DEF Late, Measures
<1>3. QED BY <1>2

\* An operation that records nothing, in a trajectory that has recorded nothing.
LEMMA StepKeepsTrajectory ==
    ASSUME Progress, Running, DOMAIN measured = {}, IsTrajectory(state, measured, pc - 1),
           NEW choice \in ChoicesAt(pc), NEW V, NotZero(V), V = BranchStep(state, pc, choice)
    PROVE  IsTrajectory(V, measured, pc)
<1>1. PICK b \in Branches(pc - 1) : state = Restricted(BranchVector(b), measured)
  BY DEF IsTrajectory
<1>2. PICK d \in Branches(pc) : BranchVector(d) = BranchStep(BranchVector(b), pc, choice)
  BY BranchGoesOn
<1>3. BranchVector(b) \in States
  BY BranchGoesOn
<1>4. state = BranchVector(b)
  BY <1>1, <1>3, NothingRecorded
<1>5. BranchVector(d) \in States
  BY PlaceFacts, BranchValues
<1>6. V = BranchVector(d)
  BY <1>2, <1>4
<1>7. Restricted(BranchVector(d), measured) = BranchVector(d)
  BY <1>5, NothingRecorded
<1>8. QED BY <1>6, <1>7 DEF IsTrajectory

LEMMA GateKeepsTrajectory ==
    ASSUME Progress, Running, Engine # "density", DOMAIN measured = {}, state \in States,
           Operation.opcode \in Gates, IsTrajectory(state, measured, pc - 1)
    PROVE  IsTrajectory(ApplyOperation(state, Operation), measured, pc)
<1>1. Acts(pc, Gates) /\ pc \notin ResetsAt /\ ~ Noisy(pc)
  BY PlaceFacts, NoNoiseOnVectors DEF Acts, ResetsAt, Gates, Matrix
<1>2. 0 \in ChoicesAt(pc) /\ BranchStep(state, pc, 0) = ApplyOperation(state, Operation)
  BY <1>1, PlaceFacts, StepWithoutChoice DEF IdealStep
<1>3. NotZero(ApplyOperation(state, Operation))
  BY PlaceFacts, GatesKeepAmplitudes DEF IsTrajectory
<1>4. QED BY <1>2, <1>3, StepKeepsTrajectory

LEMMA ResetKeepsTrajectory ==
    ASSUME Progress, Running, DOMAIN measured = {}, state \in States,
           Operation.opcode = "RESET", IsTrajectory(state, measured, pc - 1),
           NEW outcome \in Possible(Operation.targets)
    PROVE  IsTrajectory(ResetState(state, Operation.targets[1], outcome[1]), measured, pc)
<1> DEFINE target == Operation.targets[1]
           bit == outcome[1]
           V == ResetState(state, target, bit)
<1>1. pc \in ResetsAt /\ target \in Slots /\ Operation.targets = <<target>>
  BY PlaceFacts, RunningFacts, FirstTarget, OneTarget
<1>2. bit \in {0, 1} /\ outcome = <<bit>>
  <2>1. outcome \in [{1} -> {0, 1}]
    BY <1>1 DEF Possible, Outcomes
  <2>2. outcome = [i \in {1} |-> outcome[i]] /\ outcome[1] \in {0, 1}
    BY <2>1
  <2>3. {1} = 1 .. 1
    OBVIOUS
  <2>4. QED BY <2>2, <2>3
<1>3. bit \in ChoicesAt(pc) /\ V = BranchStep(state, pc, bit)
  BY <1>1, <1>2, PlaceFacts, BranchCases
<1>4. PICK b \in BasisStates : state[b] # 0 /\ Outcome(b, <<target>>) = <<bit>>
  <2>1. Weight(state, Operation.targets, outcome) > 0
    BY DEF Possible
  <2>2. PICK b \in Having(Operation.targets, outcome) : state[b] # 0
    BY <2>1, WeightFacts
  <2>3. QED BY <1>1, <1>2, <2>2 DEF Having
<1>5. bit = IF target \in b THEN 1 ELSE 0
  <2>1. Outcome(b, <<target>>)[1] = IF target \in b THEN 1 ELSE 0
    BY DEF Outcome
  <2>2. <<bit>>[1] = bit
    OBVIOUS
  <2>3. QED BY <1>4, <2>1, <2>2
<1>6. NotZero(V)
  <2> DEFINE low == b \ {target}
  <2>1. low \in BasisStates /\ target \notin low
    BY <1>1, BasisFacts
  <2>2. /\ ResetState(state, target, 0)[low] = state[low]
        /\ ResetState(state, target, 1)[low] = state[low \union {target}]
    <3> HIDE DEF low, target
    <3>1. QED BY <1>1, <2>1, ResetAmplitudes
  <2>3. CASE target \in b
    <3>1. low \union {target} = b /\ bit = 1
      BY <1>5, <2>3
    <3>2. QED BY <1>4, <2>1, <2>2, <3>1 DEF NotZero
  <2>4. CASE target \notin b
    <3>1. low = b /\ bit = 0
      BY <1>5, <2>4
    <3>2. QED BY <1>4, <2>1, <2>2, <3>1 DEF NotZero
  <2>5. QED BY <2>3, <2>4
<1> HIDE DEF bit, V
<1>7. QED BY <1>3, <1>6, StepKeepsTrajectory DEF V, bit

LEMMA ObservationKeepsTrajectory ==
    ASSUME Progress, Running, IsMeasurement, Observations(measured, pc), state \in States,
           IsTrajectory(state, measured, pc - 1), NEW outcome \in Possible(Operation.targets)
    PROVE  IsTrajectory(Collapse(state, Operation.targets, outcome),
                        Append(measured, [op |-> pc, outcome |-> outcome]), pc)
<1> DEFINE targets == Operation.targets
           e == [op |-> pc, outcome |-> outcome]
           more == Append(measured, e)
           after == Collapse(state, targets, outcome)
<1>1. /\ Arguments /\ pc \in DOMAIN circuit /\ pc \in Nat /\ pc - 1 \in 0 .. Len(circuit)
      /\ circuit[pc].targets = targets
  BY RunningFacts, ArgumentFacts DEF Progress, Operation
<1>2. PICK b0 \in Branches(pc - 1) : state = Restricted(BranchVector(b0), measured)
  BY DEF IsTrajectory
<1> DEFINE I == BranchVector(b0)
<1>a. PICK d \in Branches(pc) : BranchVector(d) = I
  <2>1. ChoicesAt(pc) = {0} /\ BranchStep(I, pc, 0) = I
    BY RunningFacts, PlaceFacts, BranchCases
  <2>2. QED BY <2>1, BranchGoesOn
<1>3. PICK S : measured \in Seq(S)
  BY DEF Observations
<1>4. e.op = pc /\ e.outcome = outcome
  OBVIOUS
<1> HIDE DEF e
<1>5. /\ Len(measured) \in Nat /\ DOMAIN measured = 1 .. Len(measured)
      /\ DOMAIN more = 1 .. Len(measured) + 1
      /\ \A k \in 1 .. Len(measured) : more[k] = measured[k]
      /\ more[Len(measured) + 1] = e
  BY <1>3, AppendFacts
<1> HIDE DEF more
<1>6. ASSUME NEW b PROVE Agrees(more, b) <=> Agrees(measured, b) /\ Outcome(b, targets) = outcome
  <2>1. \A k \in DOMAIN more : k \in DOMAIN measured \/ k = Len(measured) + 1
    BY <1>5
  <2>2. DOMAIN measured \subseteq DOMAIN more /\ Len(measured) + 1 \in DOMAIN more
    BY <1>5
  <2> DEFINE Fits(r) == Outcome(b, circuit[r.op].targets) = r.outcome
  <2>3. Fits(e) <=> Outcome(b, targets) = outcome
    BY <1>1, <1>4
  <2>4. (\A k \in DOMAIN more : Fits(more[k])) <=> (\A k \in DOMAIN measured : Fits(measured[k])) /\ Fits(e)
    <3> HIDE DEF Fits
    <3>1. QED BY <1>5, <2>1, <2>2
  <2>5. QED BY <2>3, <2>4 DEF Agrees
<1>7. state = Restricted(I, measured)
  BY <1>2
<1>8. \A b \in BasisStates : after[b] = IF Outcome(b, targets) = outcome THEN state[b] ELSE 0
  BY DEF Collapse
<1>9. after = Restricted(I, more)
  <2>1. ASSUME NEW b \in BasisStates
        PROVE  after[b] = IF Agrees(more, b) THEN I[b] ELSE 0
    <3>1. state[b] = IF Agrees(measured, b) THEN I[b] ELSE 0
      BY <1>7 DEF Restricted
    <3> HIDE DEF after, I
    <3>2. QED BY <1>6, <1>8, <3>1
  <2>2. after = [b \in BasisStates |-> after[b]]
    BY DEF Collapse
  <2> HIDE DEF after, I
  <2>3. QED BY <2>1, <2>2 DEF Restricted
<1>10. NotZero(after)
  <2>1. Weight(state, targets, outcome) > 0
    BY DEF Possible
  <2>2. PICK b \in Having(targets, outcome) : state[b] # 0
    BY <2>1, WeightFacts
  <2>3. b \in BasisStates /\ Outcome(b, targets) = outcome
    BY DEF Having
  <2>4. QED BY <1>8, <2>2, <2>3 DEF NotZero
<1>11. QED BY <1>a, <1>9, <1>10 DEF IsTrajectory, more, e

LEMMA SeenKeepsTrajectory ==
    ASSUME Progress, Running, IsMeasurement, DOMAIN measured = {},
           IsTrajectory(state, measured, pc - 1)
    PROVE  IsTrajectory(state, measured, pc)
<1>1. ChoicesAt(pc) = {0} /\ BranchStep(state, pc, 0) = state
  BY RunningFacts, PlaceFacts, BranchCases
<1>2. QED BY <1>1, StepKeepsTrajectory DEF IsTrajectory


\* A step of a vector engine past an operation.
LEMMA PassingKeepsTrajectory ==
    ASSUME Progress, Running, TrajectoryIInv, UNCHANGED <<circuit, request, shots>>, pc' = pc + 1,
           Engine # "density", Engine = "sampled" /\ Late = {} => IsTrajectory(state', measured', pc),
           Engine = "exact" => IsTrajectory(state', measured', pc)
    PROVE  TrajectoryIInv'
<1>1. Late' = Late /\ Engine' = Engine /\ Engine \in {"exact", "sampled"}
  BY RequestsAreRuns DEF Late, Acts, Engine, Progress, Arguments
<1> SUFFICES ASSUME Engine = "sampled" => Late = {}
    PROVE  /\ IsTrajectory(state, measured, pc - 1)'
           /\ \A n \in DOMAIN shots : IsTrajectory(shots[n].final, shots[n].measured, Len(circuit))'
  BY <1>1 DEF TrajectoryIInv
<1>2. \A v, r, i : IsTrajectory(v, r, i) => IsTrajectory(v, r, i)'
  BY TrajectoryStays
<1>3. (pc - 1)' = pc
  BY RunningFacts
<1>4. IsTrajectory(state', measured', pc)
  BY <1>1
<1>5. IsTrajectory(state, measured, pc - 1)'
  BY <1>2, <1>3, <1>4
<1>6. \A n \in DOMAIN shots : IsTrajectory(shots[n].final, shots[n].measured, Len(circuit))
  BY DEF TrajectoryIInv
<1>7. ASSUME NEW n \in DOMAIN shots
      PROVE  IsTrajectory(shots[n].final, shots[n].measured, Len(circuit))'
  BY <1>2, <1>6
<1>8. QED BY <1>5, <1>7

LEMMA ShotKeepsTrajectory == Progress /\ ValuesIInv /\ TrajectoryIInv /\ FinishShot => TrajectoryIInv'
<1> SUFFICES ASSUME Progress, ValuesIInv, TrajectoryIInv, FinishShot PROVE TrajectoryIInv'
  OBVIOUS
<1> DEFINE shot == [measured |-> measured, resets |-> resets, final |-> state]
<1>1. /\ Engine = "sampled" /\ pc = Len(circuit) + 1 /\ shots' = Append(shots, shot)
      /\ UNCHANGED <<circuit, request>>
      /\ \/ pc' = 1 /\ state' = GroundState /\ measured' = <<>>
         \/ UNCHANGED <<pc, state, measured>>
  BY DEF FinishShot
<1>2. Late' = Late /\ Engine' = Engine
  BY <1>1 DEF Late, Acts, Engine
<1> SUFFICES ASSUME Late = {}
    PROVE  /\ IsTrajectory(state, measured, pc - 1)'
           /\ \A n \in DOMAIN shots' : IsTrajectory(shots[n].final, shots[n].measured, Len(circuit))'
  BY <1>1, <1>2 DEF TrajectoryIInv
<1>3. \A v, r, i : IsTrajectory(v, r, i) => IsTrajectory(v, r, i)'
  BY <1>1, TrajectoryStays
<1>4. /\ IsTrajectory(state, measured, pc - 1)
      /\ \A n \in DOMAIN shots : IsTrajectory(shots[n].final, shots[n].measured, Len(circuit))
  BY <1>1 DEF TrajectoryIInv
<1>5. shot.measured = measured /\ shot.final = state
  OBVIOUS
<1> HIDE DEF shot
<1>6. Arguments /\ Len(circuit) \in Nat /\ pc - 1 = Len(circuit)
  BY <1>1, ArgumentFacts DEF Progress
<1>7. IsTrajectory(shot.final, shot.measured, Len(circuit))
  BY <1>4, <1>5, <1>6
<1>8. PICK S : shots \in Seq(S)
  BY DEF ValuesIInv
<1>9. /\ Len(shots) \in Nat /\ DOMAIN shots = 1 .. Len(shots) /\ DOMAIN shots' = 1 .. Len(shots) + 1
      /\ \A n \in 1 .. Len(shots) : shots'[n] = shots[n]
      /\ shots'[Len(shots) + 1] = shot
  BY <1>1, <1>8, AppendFacts
<1>10. ASSUME NEW n \in DOMAIN shots'
       PROVE  IsTrajectory(shots[n].final, shots[n].measured, Len(circuit))'
  <2>1. n \in DOMAIN shots \/ n = Len(shots) + 1
    BY <1>9
  <2>2. IsTrajectory(shots'[n].final, shots'[n].measured, Len(circuit))
    BY <1>4, <1>7, <1>9, <2>1
  <2>3. QED BY <1>1, <1>3, <2>2
<1>11. IsTrajectory(state, measured, pc - 1)'
  <2>1. CASE UNCHANGED <<pc, state, measured>>
    BY <1>3, <1>4, <2>1
  <2>2. CASE pc' = 1 /\ state' = GroundState /\ measured' = <<>>
    <3>1. IsTrajectory(GroundState, <<>>, 0)
      BY <1>6, FirstTrajectory
    <3>2. (pc - 1)' = 0
      BY <2>2
    <3>3. IsTrajectory(GroundState, <<>>, 0)'
      BY <1>3, <3>1
    <3>4. QED BY <2>2, <3>2, <3>3
  <2>3. QED BY <1>1, <2>1, <2>2
<1>12. QED BY <1>10, <1>11

LEMMA LoopKeepsTrajectory ==
    Progress /\ ValuesIInv /\ TrajectoryIInv /\ LoopStep => TrajectoryIInv'
<1> SUFFICES ASSUME Progress, ValuesIInv, TrajectoryIInv, LoopStep PROVE TrajectoryIInv'
  OBVIOUS
<1>1. CASE RefuseReset \/ RefuseEvolution \/ DrawBeyondMass \/ FinishExecution
  BY <1>1, KeepingKeepsTrajectory
     DEF RefuseReset, RefuseEvolution, DrawBeyondMass, FinishExecution, Abort
<1>2. CASE DensityOperation
  BY <1>2, KeepingKeepsTrajectory DEF DensityOperation
<1>3. CASE ExactOperation
  <2>1. /\ Running /\ Engine = "exact" /\ Operation.opcode # "RESET"
        /\ state' = IF IsMeasurement THEN state ELSE ApplyOperation(state, Operation)
        /\ pc' = pc + 1 /\ UNCHANGED <<circuit, request, measured, shots>>
    BY <1>3 DEF ExactOperation
  <2>2. DOMAIN measured = {} /\ state \in States
    BY <2>1, EmptySeq DEF ValuesIInv
  <2>3. IsTrajectory(state, measured, pc - 1)
    BY <2>1 DEF TrajectoryIInv
  <2>4. CASE IsMeasurement
    BY <2>1, <2>2, <2>3, <2>4, SeenKeepsTrajectory, PassingKeepsTrajectory
  <2>5. CASE ~ IsMeasurement
    <3>1. Operation.opcode \in Gates
      BY <2>1, <2>5, PlaceFacts, OpcodeIsKnown DEF IsMeasurement
    <3>2. IsTrajectory(ApplyOperation(state, Operation), measured, pc)
      BY <2>1, <2>2, <2>3, <3>1, GateKeepsTrajectory
    <3>3. QED BY <2>1, <2>5, <3>2, PassingKeepsTrajectory
  <2>6. QED BY <2>4, <2>5
<1>4. CASE SampledGate
  <2>1. /\ Running /\ Engine = "sampled" /\ Operation.opcode \notin {"MEASURE", "RESET"}
        /\ state' = ApplyOperation(state, Operation) /\ pc' = pc + 1
        /\ UNCHANGED <<circuit, request, measured, shots>>
    BY <1>4 DEF SampledGate, CanEvolve
  <2>2. Operation.opcode \in Gates /\ ~ IsMeasurement
    BY <2>1, PlaceFacts, OpcodeIsKnown DEF IsMeasurement
  <2>3. ASSUME Late = {} PROVE IsTrajectory(state', measured', pc)
    <3>1. DOMAIN measured = {} /\ state \in States
      BY <2>1, <2>2, <2>3, NothingObservedYet DEF ValuesIInv
    <3>2. QED BY <2>1, <2>2, <2>3, <3>1, GateKeepsTrajectory DEF TrajectoryIInv
  <2>4. QED BY <2>1, <2>3, PassingKeepsTrajectory
<1>5. CASE SampledMeasure
  <2>1. /\ Running /\ Engine = "sampled" /\ IsMeasurement /\ pc' = pc + 1
        /\ UNCHANGED <<circuit, request, shots>>
    BY <1>5 DEF SampledMeasure, CanEvolve
  <2>2. PICK outcome \in Possible(Operation.targets) :
           /\ state' = Collapse(state, Operation.targets, outcome)
           /\ measured' = Append(measured, [op |-> pc, outcome |-> outcome])
    BY <1>5 DEF SampledMeasure
  <2>3. Late = {} => IsTrajectory(state', measured', pc)
    BY <2>1, <2>2, ObservationKeepsTrajectory DEF TrajectoryIInv, ValuesIInv
  <2>4. QED BY <2>1, <2>3, PassingKeepsTrajectory
<1>6. CASE SampledReset
  <2>1. /\ Running /\ Engine = "sampled" /\ Operation.opcode = "RESET" /\ pc' = pc + 1
        /\ UNCHANGED <<circuit, request, measured, shots>>
    BY <1>6 DEF SampledReset, CanEvolve
  <2>2. PICK outcome \in Possible(Operation.targets) :
           state' = ResetState(state, Operation.targets[1], outcome[1])
    BY <1>6 DEF SampledReset, Corrected, ResetState
  <2>3. ASSUME Late = {} PROVE IsTrajectory(state', measured', pc)
    <3>1. DOMAIN measured = {} /\ state \in States
      BY <2>1, <2>3, NothingObservedYet DEF ValuesIInv, IsMeasurement
    <3>2. QED BY <2>1, <2>2, <2>3, <3>1, ResetKeepsTrajectory DEF TrajectoryIInv
  <2>4. QED BY <2>1, <2>3, PassingKeepsTrajectory
<1>7. CASE FinishShot
  BY <1>7, ShotKeepsTrajectory
<1>8. QED BY <1>1, <1>2, <1>3, <1>4, <1>5, <1>6, <1>7 DEF LoopStep

LEMMA ProjectionIsCollapse ==
    ASSUME Arguments, ValuesIInv, TrajectoryIInv
    PROVE  CollapseIsProjection
<1> SUFFICES ASSUME Late = {}, ResetsAt = {}, NEW n \in DOMAIN shots
    PROVE  /\ shots[n].final
                = [b \in BasisStates |->
                      IF \A k \in DOMAIN shots[n].measured :
                            Outcome(b, circuit[shots[n].measured[k].op].targets)
                                = shots[n].measured[k].outcome
                      THEN IdealVector[b] ELSE 0]
           /\ \E b \in BasisStates : shots[n].final[b] # 0
  BY DEF CollapseIsProjection
<1>1. Engine = "sampled"
  BY EmptySeq DEF ValuesIInv
<1>2. IsTrajectory(shots[n].final, shots[n].measured, Len(circuit))
  BY <1>1 DEF TrajectoryIInv
<1>3. PICK b \in Branches(Len(circuit)) :
         shots[n].final = Restricted(BranchVector(b), shots[n].measured)
  BY <1>2 DEF IsTrajectory
<1>4. IdealVector = BranchVector(b)
  <2>1. \A i \in DOMAIN circuit : ~ Noisy(i)
    BY <1>1, NoNoiseOnVectors
  <2>2. QED BY <2>1, IdealVectorIs
<1>5. QED BY <1>2, <1>3, <1>4 DEF IsTrajectory, Restricted, Agrees, NotZero

-----------------------------------------------------------------------------
(* What a trajectory has observed stays so until an operation acts on it.     *)

\* Every basis state of a vector has the bit at the slot.
Holds(v, slot, bit) == \A b \in BasisStates : v[b] # 0 => bit = IF slot \in b THEN 1 ELSE 0

LEMMA CollapseKeepsBits ==
    ASSUME NEW v, NEW targets, NEW outcome, NEW slot, NEW bit, Holds(v, slot, bit)
    PROVE  Holds(Collapse(v, targets, outcome), slot, bit)
BY DEF Holds, Collapse

LEMMA SingleComesFrom ==
    ASSUME NEW v \in States, NEW target \in Slots, NEW m, IsMatrix(m), NEW b \in BasisStates,
           ApplySingle(v, target, m)[b] # 0
    PROVE  v[b \ {target}] # 0 \/ v[b \union {target}] # 0
<1> DEFINE x == v[b \ {target}]
           y == v[b \union {target}]
           p == Line(m, target, b)[1]
           q == Line(m, target, b)[2]
<1>1. p \in Int /\ q \in Int
  BY LineFacts
<1>2. ApplySingle(v, target, m)[b] = p * x + q * y
  BY SingleEntry
<1> HIDE DEF x, y, p, q
<1>3. p * 0 + q * 0 = 0
  BY <1>1
<1>4. x # 0 \/ y # 0
  BY <1>2, <1>3
<1>5. QED BY <1>4 DEF x, y

LEMMA SingleKeepsBits ==
    ASSUME NEW v \in States, NEW target \in Slots, NEW m, IsMatrix(m), NEW slot, NEW bit,
           slot # target, Holds(v, slot, bit)
    PROVE  Holds(ApplySingle(v, target, m), slot, bit)
<1> SUFFICES ASSUME NEW b \in BasisStates, ApplySingle(v, target, m)[b] # 0
             PROVE  bit = IF slot \in b THEN 1 ELSE 0
  BY DEF Holds
<1>1. b \ {target} \in BasisStates /\ b \union {target} \in BasisStates
  BY BasisFacts
<1>2. /\ slot \in b \ {target} <=> slot \in b
      /\ slot \in b \union {target} <=> slot \in b
  OBVIOUS
<1>3. v[b \ {target}] # 0 \/ v[b \union {target}] # 0
  BY SingleComesFrom
<1>4. QED BY <1>1, <1>2, <1>3 DEF Holds

LEMMA PhaseKeepsBits ==
    ASSUME NEW v \in States, NEW target \in Slots, NEW slot, NEW bit, Holds(v, slot, bit)
    PROVE  Holds(ApplySingle(v, target, Matrix["Z"]), slot, bit)
<1> SUFFICES ASSUME NEW b \in BasisStates, v[b] = 0
             PROVE  ApplySingle(v, target, Matrix["Z"])[b] = 0
  BY DEF Holds
<1>1. v[b \ {target}] \in Int /\ v[b \union {target}] \in Int
  BY BasisFacts DEF States
<1>2. CASE target \in b
  <2>1. b \union {target} = b
    BY <1>2
  <2>2. ApplySingle(v, target, Matrix["Z"])[b]
          = Matrix["Z"][2][1] * v[b \ {target}] + Matrix["Z"][2][2] * v[b \union {target}]
    BY <1>2 DEF ApplySingle
  <2>3. Matrix["Z"][2] = <<0, -1>>
    BY DEF Matrix
  <2>4. \A p \in Int : 0 * p + (-1) * 0 = 0
    OBVIOUS
  <2>5. v[b \union {target}] = 0
    BY <2>1
  <2>6. QED BY <1>1, <2>2, <2>3, <2>4, <2>5
<1>3. CASE target \notin b
  <2>1. b \ {target} = b
    BY <1>3
  <2>2. ApplySingle(v, target, Matrix["Z"])[b]
          = Matrix["Z"][1][1] * v[b \ {target}] + Matrix["Z"][1][2] * v[b \union {target}]
    BY <1>3 DEF ApplySingle
  <2>3. Matrix["Z"][1] = <<1, 0>>
    BY DEF Matrix
  <2>4. \A p \in Int : 1 * 0 + 0 * p = 0
    OBVIOUS
  <2>5. v[b \ {target}] = 0
    BY <2>1
  <2>6. QED BY <1>1, <2>2, <2>3, <2>4, <2>5
<1>4. QED BY <1>2, <1>3

LEMMA CxKeepsBits ==
    ASSUME NEW v, NEW target \in Slots, NEW control, NEW slot, NEW bit, slot # target,
           Holds(v, slot, bit)
    PROVE  Holds(ApplyCx(v, control, target), slot, bit)
<1> SUFFICES ASSUME NEW b \in BasisStates, v[Permuted(b, control, target)] # 0
             PROVE  bit = IF slot \in b THEN 1 ELSE 0
  BY DEF Holds, ApplyCx
<1>1. /\ Permuted(b, control, target) \in BasisStates
      /\ slot \in Permuted(b, control, target) <=> slot \in b
  BY DEF Permuted, BasisStates
<1>2. QED BY <1>1 DEF Holds

LEMMA ResetKeepsBits ==
    ASSUME NEW v \in States, NEW target \in Slots, NEW outcome \in {0, 1}
    PROVE  /\ Holds(ResetState(v, target, outcome), target, 0)
           /\ \A slot, bit : slot # target /\ Holds(v, slot, bit)
                                => Holds(ResetState(v, target, outcome), slot, bit)
<1> DEFINE V == ResetState(v, target, outcome)
<1>1. ASSUME NEW b \in BasisStates
      PROVE  V[b] = 0 \/ (target \notin b /\ (V[b] = v[b] \/ V[b] = v[b \union {target}]))
  BY ResetAmplitudes
<1>2. Holds(V, target, 0)
  <2> HIDE DEF V
  <2>1. QED BY <1>1 DEF Holds
<1>3. ASSUME NEW slot, NEW bit, slot # target, Holds(v, slot, bit) PROVE Holds(V, slot, bit)
  <2> SUFFICES ASSUME NEW b \in BasisStates, V[b] # 0 PROVE bit = IF slot \in b THEN 1 ELSE 0
    BY DEF Holds
  <2>1. v[b] # 0 \/ v[b \union {target}] # 0
    BY <1>1
  <2>2. b \union {target} \in BasisStates /\ (slot \in b \union {target} <=> slot \in b)
    BY <1>3, BasisFacts
  <2>3. QED BY <1>3, <2>1, <2>2 DEF Holds
<1>4. QED BY <1>2, <1>3

LEMMA GateKeepsBits ==
    ASSUME NEW v \in States, NEW operation \in AllocatedOperations, operation.opcode \in Gates,
           NEW slot, NEW bit, Holds(v, slot, bit),
           ~ (operation.opcode \in {"X", "H", "RY", "CX", "RESET"} /\ operation.targets[1] = slot)
    PROVE  Holds(ApplyOperation(v, operation), slot, bit)
<1> DEFINE target == operation.targets[1]
<1>1. target \in Slots
  BY FirstTarget
<1>2. operation.opcode \in {"X", "H", "RY", "CX", "Z"}
  BY DEF Gates, Matrix
<1> HIDE DEF target
<1>3. CASE operation.opcode = "CX"
  BY <1>1, <1>3, CxKeepsBits DEF ApplyOperation, target
<1>4. CASE operation.opcode = "Z"
  <2>1. ApplyOperation(v, operation) = ApplySingle(v, target, Matrix["Z"])
    BY <1>4 DEF ApplyOperation, target
  <2>2. QED BY <1>1, <2>1, PhaseKeepsBits
<1>5. CASE operation.opcode \in {"X", "H", "RY"}
  <2>1. ApplyOperation(v, operation) = ApplySingle(v, target, Matrix[operation.opcode])
    BY <1>5 DEF ApplyOperation, target
  <2>2. IsMatrix(Matrix[operation.opcode])
    BY <1>5, MatrixOfGate DEF Matrix
  <2>3. slot # target
    BY <1>5 DEF target
  <2>4. QED BY <1>1, <2>1, <2>2, <2>3, SingleKeepsBits
<1>6. QED BY <1>2, <1>3, <1>4, <1>5

\* The slots of an observation, and the bit of its outcome for one of them.
SlotsOf(m) == ToSet(circuit[m.op].targets)

BitOf(m, slot) == m.outcome[CHOOSE i \in DOMAIN m.outcome : circuit[m.op].targets[i] = slot]

LEMMA BitOfOutcome ==
    ASSUME NEW m, NEW b, NEW slot \in SlotsOf(m), Outcome(b, circuit[m.op].targets) = m.outcome
    PROVE  BitOf(m, slot) = IF slot \in b THEN 1 ELSE 0
<1> DEFINE targets == circuit[m.op].targets
           i == CHOOSE i \in DOMAIN m.outcome : targets[i] = slot
<1>1. DOMAIN m.outcome = DOMAIN targets
  BY DEF Outcome
<1>2. \E k \in DOMAIN targets : targets[k] = slot
  BY DEF SlotsOf, ToSet
<1>3. i \in DOMAIN targets /\ targets[i] = slot
  BY <1>1, <1>2
<1> HIDE DEF i
<1>4. m.outcome[i] = IF targets[i] \in b THEN 1 ELSE 0
  BY <1>3 DEF Outcome
<1>5. QED BY <1>3, <1>4 DEF BitOf, i

\* The records agree with each other, and the vector with the records.
Persistent(records, events) ==
    /\ \A x, y \in ToSet(records) : \A slot \in SlotsOf(x) \cap SlotsOf(y) :
          x.op < y.op /\ Undisturbed(slot, x.op, y.op) => BitOf(x, slot) = BitOf(y, slot)
    /\ \A r \in ToSet(events), y \in ToSet(records) :
          r.op < y.op /\ r.target \in SlotsOf(y) /\ Undisturbed(r.target, r.op, y.op)
             => BitOf(y, r.target) = 0

Remembers(v, records, events, n) ==
    /\ \A x \in ToSet(records) : \A slot \in SlotsOf(x) :
          Undisturbed(slot, x.op, n) => Holds(v, slot, BitOf(x, slot))
    /\ \A r \in ToSet(events) : Undisturbed(r.target, r.op, n) => Holds(v, r.target, 0)

PersistIInv ==
    Engine = "sampled" => Remembers(state, measured, resets, pc) /\ Persistent(measured, resets)

LEMMA ToSetOfAppend ==
    ASSUME NEW records, NEW e, \E S : records \in Seq(S)
    PROVE  ToSet(Append(records, e)) = ToSet(records) \union {e}
<1> DEFINE more == Append(records, e)
<1>1. PICK S : records \in Seq(S)
  OBVIOUS
<1>2. /\ Len(records) \in Nat /\ DOMAIN records = 1 .. Len(records)
      /\ DOMAIN more = 1 .. Len(records) + 1
      /\ \A k \in 1 .. Len(records) : more[k] = records[k]
      /\ more[Len(records) + 1] = e
  BY <1>1, AppendFacts
<1> HIDE DEF more
<1>3. \A k \in DOMAIN more : k \in DOMAIN records \/ k = Len(records) + 1
  BY <1>2
<1>4. DOMAIN records \subseteq DOMAIN more /\ Len(records) + 1 \in DOMAIN more
  BY <1>2
<1>5. ToSet(more) = ToSet(records) \union {e}
  BY <1>2, <1>3, <1>4 DEF ToSet
<1>6. QED BY <1>5 DEF more

LEMMA UndisturbedEarlier ==
    ASSUME NEW i \in Nat, NEW n \in Nat, i < n, NEW slot, Undisturbed(slot, i, n + 1)
    PROVE  Undisturbed(slot, i, n) /\ ~ Disturbs(n, slot)
<1>1. i + 1 .. n - 1 \subseteq i + 1 .. (n + 1) - 1 /\ n \in i + 1 .. (n + 1) - 1
  OBVIOUS
<1>2. QED BY <1>1 DEF Undisturbed

LEMMA PassingRemembers ==
    ASSUME NEW n \in Nat, NEW v, NEW V, NEW records, NEW events,
           Observations(records, n), ResetEvents(events, n), Remembers(v, records, events, n),
           \A slot, bit : ~ Disturbs(n, slot) /\ Holds(v, slot, bit) => Holds(V, slot, bit)
    PROVE  Remembers(V, records, events, n + 1)
<1>1. ASSUME NEW x \in ToSet(records), NEW slot \in SlotsOf(x), Undisturbed(slot, x.op, n + 1)
      PROVE  Holds(V, slot, BitOf(x, slot))
  <2>1. x.op \in Nat /\ x.op < n
    BY DEF ToSet, Observations, IsObservation
  <2>2. Undisturbed(slot, x.op, n) /\ ~ Disturbs(n, slot)
    BY <1>1, <2>1, UndisturbedEarlier
  <2>3. QED BY <2>2 DEF Remembers
<1>2. ASSUME NEW r \in ToSet(events), Undisturbed(r.target, r.op, n + 1)
      PROVE  Holds(V, r.target, 0)
  <2>1. r.op \in Nat /\ r.op < n
    BY DEF ToSet, ResetEvents, IsResetEvent
  <2>2. Undisturbed(r.target, r.op, n) /\ ~ Disturbs(n, r.target)
    BY <1>2, <2>1, UndisturbedEarlier
  <2>3. QED BY <2>2 DEF Remembers
<1>3. QED BY <1>1, <1>2 DEF Remembers

\* The records do not change when the circuit does not.
LEMMA RemembersStays ==
    ASSUME UNCHANGED <<circuit, request>>, NEW v, NEW records, NEW events, NEW n
    PROVE  /\ Remembers(v, records, events, n) => Remembers(v, records, events, n)'
           /\ Persistent(records, events) => Persistent(records, events)'
<1>1. /\ \A m : SlotsOf(m)' = SlotsOf(m)
      /\ \A m, slot : BitOf(m, slot)' = BitOf(m, slot)
      /\ \A slot, i, j : Undisturbed(slot, i, j)' <=> Undisturbed(slot, i, j)
  BY DEF SlotsOf, BitOf, Undisturbed, Disturbs, Acts
<1>2. Remembers(v, records, events, n) => Remembers(v, records, events, n)'
  BY <1>1 DEF Remembers, Holds
<1>3. Persistent(records, events) => Persistent(records, events)'
  BY <1>1 DEF Persistent
<1>4. QED BY <1>2, <1>3

LEMMA NothingIsRemembered ==
    ASSUME NEW v, NEW n
    PROVE  Remembers(v, <<>>, <<>>, n) /\ Persistent(<<>>, <<>>)
<1>1. ToSet(<<>>) = {}
  BY EmptySeq DEF ToSet
<1>2. QED BY <1>1 DEF Remembers, Persistent

LEMMA InitEstablishesPersistence == ExecutionInit => PersistIInv
BY NothingIsRemembered DEF ExecutionInit, PersistIInv

LEMMA KeepingKeepsPersistence ==
    ASSUME PersistIInv, UNCHANGED <<circuit, request>>,
           Engine = "sampled" => UNCHANGED <<pc, state, measured, resets>>
    PROVE  PersistIInv'
<1>1. Engine' = Engine
  BY DEF Engine
<1>2. ASSUME Engine = "sampled"
      PROVE  Remembers(state, measured, resets, pc)' /\ Persistent(measured, resets)'
  <2>1. Remembers(state, measured, resets, pc) /\ Persistent(measured, resets)
    BY <1>2 DEF PersistIInv
  <2>2. \A v, r, e, n : /\ Remembers(v, r, e, n) => Remembers(v, r, e, n)'
                        /\ Persistent(r, e) => Persistent(r, e)'
    BY RemembersStays
  <2>3. UNCHANGED <<pc, state, measured, resets>>
    BY <1>2
  <2>4. QED BY <2>1, <2>2, <2>3
<1>3. QED BY <1>1, <1>2 DEF PersistIInv

\* The sampled engine's operations, as steps to constants.
LEMMA PassingKeepsPersistence ==
    ASSUME Progress, Running, UNCHANGED <<circuit, request>>, pc' = pc + 1,
           Remembers(state', measured', resets', pc + 1), Persistent(measured', resets')
    PROVE  PersistIInv'
<1>1. \A v, r, e, n : /\ Remembers(v, r, e, n) => Remembers(v, r, e, n)'
                      /\ Persistent(r, e) => Persistent(r, e)'
  BY RemembersStays
<1>2. Remembers(state, measured, resets, pc)' /\ Persistent(measured, resets)'
  BY <1>1
<1>3. QED BY <1>2 DEF PersistIInv

LEMMA ObservationPersists ==
    ASSUME Progress, Running, IsMeasurement, state \in States,
           Observations(measured, pc), ResetEvents(resets, pc),
           Remembers(state, measured, resets, pc), Persistent(measured, resets),
           NEW outcome \in Possible(Operation.targets),
           NEW V, V = Collapse(state, Operation.targets, outcome),
           NEW e, e = [op |-> pc, outcome |-> outcome]
    PROVE  /\ Remembers(V, Append(measured, e), resets, pc + 1)
           /\ Persistent(Append(measured, e), resets)
<1> DEFINE targets == Operation.targets
<1>1. /\ pc \in Nat /\ e.op = pc /\ e.outcome = outcome /\ circuit[e.op].targets = targets
  BY RunningFacts DEF Operation
<1>2. Remembers(V, measured, resets, pc + 1)
  <2>1. \A slot, bit : ~ Disturbs(pc, slot) /\ Holds(state, slot, bit) => Holds(V, slot, bit)
    BY CollapseKeepsBits
  <2>2. QED BY <1>1, <2>1, PassingRemembers
<1>3. ToSet(Append(measured, e)) = ToSet(measured) \union {e}
  BY ToSetOfAppend DEF Observations
<1>4. PICK c \in BasisStates : state[c] # 0 /\ Outcome(c, targets) = outcome
  <2>1. Weight(state, targets, outcome) > 0
    BY DEF Possible
  <2>2. PICK c \in Having(targets, outcome) : state[c] # 0
    BY <2>1, WeightFacts
  <2>3. QED BY <2>2 DEF Having
<1>5. ASSUME NEW slot \in SlotsOf(e) PROVE Holds(V, slot, BitOf(e, slot))
  <2> SUFFICES ASSUME NEW b \in BasisStates, V[b] # 0
               PROVE  BitOf(e, slot) = IF slot \in b THEN 1 ELSE 0
    BY DEF Holds
  <2>1. Outcome(b, targets) = outcome
    BY DEF Collapse
  <2>2. QED BY <1>1, <2>1, BitOfOutcome
<1>6. ASSUME NEW slot \in SlotsOf(e) PROVE BitOf(e, slot) = IF slot \in c THEN 1 ELSE 0
  BY <1>1, <1>4, BitOfOutcome
<1>7. \A x \in ToSet(measured) : x.op \in Nat /\ x.op < pc
  BY <1>1 DEF ToSet, Observations, IsObservation
<1>8. Remembers(V, Append(measured, e), resets, pc + 1)
  BY <1>2, <1>3, <1>5 DEF Remembers
<1>9. ASSUME NEW x \in ToSet(measured) \union {e}, NEW y \in ToSet(measured) \union {e},
             NEW slot \in SlotsOf(x) \cap SlotsOf(y), x.op < y.op, Undisturbed(slot, x.op, y.op)
      PROVE  BitOf(x, slot) = BitOf(y, slot)
  <2>1. CASE x \in ToSet(measured) /\ y \in ToSet(measured)
    BY <1>9, <2>1 DEF Persistent
  <2>2. CASE x \in ToSet(measured) /\ y = e
    <3>1. Holds(state, slot, BitOf(x, slot))
      BY <1>1, <1>9, <2>2 DEF Remembers
    <3>2. BitOf(x, slot) = IF slot \in c THEN 1 ELSE 0
      BY <1>4, <3>1 DEF Holds
    <3>3. QED BY <1>6, <2>2, <3>2
  <2>3. CASE x = e
    <3>1. ~ (x.op < y.op)
      BY <1>1, <1>7, <2>3
    <3>2. QED BY <1>9, <3>1
  <2>4. QED BY <2>1, <2>2, <2>3
<1>10. ASSUME NEW r \in ToSet(resets), NEW y \in ToSet(measured) \union {e}, r.op < y.op,
              r.target \in SlotsOf(y), Undisturbed(r.target, r.op, y.op)
       PROVE  BitOf(y, r.target) = 0
  <2>1. CASE y \in ToSet(measured)
    BY <1>10, <2>1 DEF Persistent
  <2>2. CASE y = e
    <3>1. Holds(state, r.target, 0)
      BY <1>1, <1>10, <2>2 DEF Remembers
    <3>2. 0 = IF r.target \in c THEN 1 ELSE 0
      BY <1>4, <3>1 DEF Holds
    <3>3. QED BY <1>6, <1>10, <2>2, <3>2
  <2>3. QED BY <2>1, <2>2
<1>11. Persistent(Append(measured, e), resets)
  BY <1>3, <1>9, <1>10 DEF Persistent
<1>12. QED BY <1>8, <1>11

LEMMA ResetPersists ==
    ASSUME Progress, Running, Operation.opcode = "RESET", state \in States,
           Observations(measured, pc), ResetEvents(resets, pc),
           Remembers(state, measured, resets, pc), Persistent(measured, resets),
           NEW bit \in {0, 1}, NEW target, target = Operation.targets[1],
           NEW V, V = ResetState(state, target, bit),
           NEW e, e = [op |-> pc, target |-> target, outcome |-> bit]
    PROVE  /\ Remembers(V, measured, Append(resets, e), pc + 1)
           /\ Persistent(measured, Append(resets, e))
<1>1. pc \in Nat /\ e.op = pc /\ e.target = target /\ target \in Slots
  BY RunningFacts, FirstTarget
<1>2. Remembers(V, measured, resets, pc + 1)
  <2>1. ASSUME NEW slot, NEW b, ~ Disturbs(pc, slot), Holds(state, slot, b)
        PROVE  Holds(V, slot, b)
    <3>1. slot # target
      BY <2>1 DEF Disturbs, Acts, Operation
    <3>2. QED BY <1>1, <2>1, <3>1, ResetKeepsBits
  <2>2. QED BY <1>1, <2>1, PassingRemembers
<1>3. ToSet(Append(resets, e)) = ToSet(resets) \union {e}
  BY ToSetOfAppend DEF ResetEvents
<1>4. Holds(V, e.target, 0)
  BY <1>1, ResetKeepsBits
<1>5. \A y \in ToSet(measured) : y.op \in Nat /\ y.op < pc
  BY <1>1 DEF ToSet, Observations, IsObservation
<1>6. Remembers(V, measured, Append(resets, e), pc + 1)
  BY <1>2, <1>3, <1>4 DEF Remembers
<1>7. \A y \in ToSet(measured) : ~ (e.op < y.op)
  BY <1>1, <1>5
<1>8. Persistent(measured, Append(resets, e))
  BY <1>3, <1>7 DEF Persistent
<1>9. QED BY <1>6, <1>8

LEMMA LoopKeepsPersistence ==
    Progress /\ ValuesIInv /\ PersistIInv /\ LoopStep => PersistIInv'
<1> SUFFICES ASSUME Progress, ValuesIInv, PersistIInv, LoopStep PROVE PersistIInv'
  OBVIOUS
<1>1. CASE RefuseReset \/ RefuseEvolution \/ DrawBeyondMass \/ FinishExecution
  BY <1>1, KeepingKeepsPersistence
     DEF RefuseReset, RefuseEvolution, DrawBeyondMass, FinishExecution, Abort
<1>2. CASE ExactOperation \/ DensityOperation
  BY <1>2, KeepingKeepsPersistence DEF ExactOperation, DensityOperation
<1>3. ASSUME Engine = "sampled"
      PROVE  /\ state \in States /\ Observations(measured, pc) /\ ResetEvents(resets, pc)
             /\ Remembers(state, measured, resets, pc) /\ Persistent(measured, resets)
  BY <1>3 DEF ValuesIInv, PersistIInv
<1>4. CASE SampledGate
  <2>1. /\ Running /\ Engine = "sampled" /\ Operation.opcode \notin {"MEASURE", "RESET"}
        /\ state' = ApplyOperation(state, Operation) /\ pc' = pc + 1
        /\ UNCHANGED <<circuit, request, measured, resets>>
    BY <1>4 DEF SampledGate, CanEvolve
  <2>2. pc \in Nat /\ Operation \in AllocatedOperations /\ Operation.opcode \in Gates
    BY <2>1, RunningFacts, OpcodeIsKnown
  <2>3. ASSUME NEW slot, NEW bit, ~ Disturbs(pc, slot), Holds(state, slot, bit)
        PROVE  Holds(state', slot, bit)
    BY <1>3, <2>1, <2>2, <2>3, GateKeepsBits DEF Disturbs, Acts, Operation
  <2>4. Remembers(state', measured', resets', pc + 1)
    BY <1>3, <2>1, <2>2, <2>3, PassingRemembers
  <2>5. Persistent(measured', resets')
    BY <1>3, <2>1
  <2>6. QED BY <2>1, <2>4, <2>5, PassingKeepsPersistence
<1>5. CASE SampledMeasure
  <2>1. /\ Running /\ Engine = "sampled" /\ IsMeasurement /\ pc' = pc + 1
        /\ UNCHANGED <<circuit, request, resets>>
    BY <1>5 DEF SampledMeasure, CanEvolve
  <2>2. PICK outcome \in Possible(Operation.targets) :
           /\ state' = Collapse(state, Operation.targets, outcome)
           /\ measured' = Append(measured, [op |-> pc, outcome |-> outcome])
    BY <1>5 DEF SampledMeasure
  <2>3. Remembers(state', measured', resets', pc + 1) /\ Persistent(measured', resets')
    BY <1>3, <2>1, <2>2, ObservationPersists
  <2>4. QED BY <2>1, <2>3, PassingKeepsPersistence
<1>6. CASE SampledReset
  <2> DEFINE target == Operation.targets[1]
  <2>1. /\ Running /\ Engine = "sampled" /\ Operation.opcode = "RESET" /\ pc' = pc + 1
        /\ UNCHANGED <<circuit, request, measured>>
    BY <1>6 DEF SampledReset, CanEvolve
  <2>2. PICK outcome \in Possible(Operation.targets) :
           /\ state' = Corrected(target, outcome[1])
           /\ resets' = Append(resets, [op |-> pc, target |-> target, outcome |-> outcome[1]])
    BY <1>6 DEF SampledReset
  <2>3. outcome[1] \in {0, 1}
    BY <2>1, RunningFacts, FirstTarget DEF Possible, Outcomes
  <2>4. state' = ResetState(state, target, outcome[1])
    BY <2>2 DEF Corrected, ResetState
  <2>5. Remembers(state', measured', resets', pc + 1) /\ Persistent(measured', resets')
    BY <1>3, <2>1, <2>2, <2>3, <2>4, ResetPersists
  <2>6. QED BY <2>1, <2>5, PassingKeepsPersistence
<1>7. CASE FinishShot
  <2>1. /\ UNCHANGED <<circuit, request>>
        /\ \/ measured' = <<>> /\ resets' = <<>>
           \/ UNCHANGED <<pc, state, measured, resets>>
    BY <1>7 DEF FinishShot
  <2>2. CASE UNCHANGED <<pc, state, measured, resets>>
    BY <2>1, <2>2, KeepingKeepsPersistence
  <2>3. CASE measured' = <<>> /\ resets' = <<>>
    <3>1. \A v, n : Remembers(v, <<>>, <<>>, n) /\ Persistent(<<>>, <<>>)
      BY NothingIsRemembered
    <3>2. \A v, n : Remembers(v, <<>>, <<>>, n)' /\ Persistent(<<>>, <<>>)'
      BY <2>1, <3>1, RemembersStays
    <3>3. QED BY <2>3, <3>2 DEF PersistIInv
  <2>4. QED BY <2>1, <2>2, <2>3
<1>8. QED BY <1>1, <1>2, <1>4, <1>5, <1>6, <1>7 DEF LoopStep

LEMMA PersistenceHolds ==
    ASSUME ValuesIInv, PersistIInv
    PROVE  UndisturbedBitsPersist
<1>1. Persistent(measured, resets)
  BY NothingIsRemembered DEF ValuesIInv, PersistIInv
<1>2. QED BY <1>1 DEF UndisturbedBitsPersist, Persistent, BitOf, SlotsOf

-----------------------------------------------------------------------------
(* The matrices that a density engine can hold: sums of pure ones.           *)

NullDensity == [row \in BasisStates |-> [col \in BasisStates |-> 0]]

\* A property of the empty sum that adding a pure matrix keeps.
Additive(P) ==
    NullDensity \in P /\ \A D \in P : \A a \in Nat : \A v \in States : Plus(D, a, Outer(v)) \in P

Mixed == {D \in Densities : \A P \in SUBSET Densities : Additive(P) => D \in P}

LEMMA MixedIsAdditive ==
    /\ NullDensity \in Mixed /\ NullDensity \in Densities
    /\ \A D \in Mixed : \A a \in Nat : \A v \in States : Plus(D, a, Outer(v)) \in Mixed
    /\ \A D \in Mixed : D \in Densities
<1>1. NullDensity \in Densities
  BY DEF NullDensity, Densities, States
<1>2. ASSUME NEW D \in Mixed, NEW a \in Nat, NEW v \in States PROVE Plus(D, a, Outer(v)) \in Mixed
  <2>1. D \in Densities /\ Outer(v) \in Densities /\ a \in Int
    BY OuterFacts DEF Mixed
  <2>2. Plus(D, a, Outer(v)) \in Densities
    BY <2>1, PlusFacts
  <2>3. ASSUME NEW P \in SUBSET Densities, Additive(P) PROVE Plus(D, a, Outer(v)) \in P
    BY <2>3 DEF Mixed, Additive
  <2>4. QED BY <2>2, <2>3 DEF Mixed
<1>3. QED BY <1>1, <1>2 DEF Mixed, Additive

LEMMA MixedHave ==
    ASSUME NEW P \in SUBSET Densities, Additive(P), NEW D \in Mixed
    PROVE  D \in P
BY DEF Mixed

LEMMA OuterIsMixed == ASSUME NEW v \in States PROVE Outer(v) \in Mixed
<1>1. Plus(NullDensity, 1, Outer(v)) \in Mixed /\ NullDensity \in Densities
  BY MixedIsAdditive
<1>2. Outer(v) \in Densities
  BY OuterFacts
<1>3. Plus(NullDensity, 1, Outer(v)) \in Densities
  BY <1>1, MixedIsAdditive
<1>4. ASSUME NEW row \in BasisStates, NEW col \in BasisStates
      PROVE  Plus(NullDensity, 1, Outer(v))[row][col] = Outer(v)[row][col]
  <2>1. Plus(NullDensity, 1, Outer(v))[row][col] = NullDensity[row][col] + 1 * Outer(v)[row][col]
    BY <1>1, <1>2, PlusEntry
  <2>2. NullDensity[row][col] = 0
    BY DEF NullDensity
  <2>3. Outer(v)[row][col] \in Int
    BY <1>2, DensityFacts
  <2>4. QED BY <2>1, <2>2, <2>3
<1>5. Plus(NullDensity, 1, Outer(v)) = Outer(v)
  BY <1>2, <1>3, <1>4, DensitiesEqual
<1>6. QED BY <1>1, <1>5

LEMMA GroundIsMixed == GroundDensity \in Mixed
<1>1. GroundState \in States /\ GroundDensity \in Densities
  BY GroundIsState
<1>2. Outer(GroundState) \in Densities
  BY <1>1, OuterFacts
<1>3. \A row, col \in BasisStates : GroundDensity[row][col] = Outer(GroundState)[row][col]
  BY <1>1, OuterFacts DEF GroundDensity, GroundState
<1>4. GroundDensity = Outer(GroundState)
  BY <1>1, <1>2, <1>3, DensitiesEqual
<1>5. QED BY <1>1, <1>4, OuterIsMixed

\* What the density engine holds after n operations.
LEMMA MixtureIsMixed ==
    ASSUME Arguments, NEW n \in 0 .. Len(circuit)
    PROVE  Mixture(n) \in Mixed
<1> DEFINE B == Branches(n)
           P == {s \in SUBSET B : Partial(n, s) \in Mixed}
<1>1. IsFiniteSet(B)
  BY BranchesAreFinite
<1>2. {} \in P
  <2>1. Partial(n, {}) = NullDensity
    BY SumEmpty DEF Partial, NullDensity
  <2>2. QED BY <2>1, MixedIsAdditive
<1>3. ASSUME NEW s \in SUBSET B, NEW b \in B \ s, s \in P PROVE s \union {b} \in P
  <2>1. Partial(n, s \union {b}) = Plus(Partial(n, s), BranchWeight(b), Outer(BranchVector(b)))
    BY PartialOfOneMore
  <2>2. BranchWeight(b) \in Nat /\ BranchVector(b) \in States
    BY BranchValues
  <2>3. Partial(n, s) \in Mixed
    BY <1>3
  <2>4. Partial(n, s \union {b}) \in Mixed
    BY <2>1, <2>2, <2>3, MixedIsAdditive
  <2>5. QED BY <2>4
<1> HIDE DEF P
<1>4. B \in P
  BY <1>1, <1>2, <1>3, SubsetInduction
<1>5. Partial(n, B) \in Mixed
  BY <1>4 DEF P
<1>6. Mixture(n) = Partial(n, B)
  <2>1. Mixture(n) \in Densities /\ Partial(n, B) \in Densities
    BY MixtureFacts, PartialFacts
  <2>2. \A row, col \in BasisStates : Mixture(n)[row][col] = Partial(n, B)[row][col]
    BY MixtureFacts, PartialFacts
  <2>3. QED BY <2>1, <2>2, DensitiesEqual
<1>7. QED BY <1>5, <1>6

\* A gate and a reset keep the sums of pure matrices.
LEMMA GateKeepsMixed ==
    ASSUME NEW operation \in AllocatedOperations, operation.opcode \in Gates, NEW D \in Mixed
    PROVE  IdealDensity(D, operation) \in Mixed
<1> DEFINE P == {X \in Densities : IdealDensity(X, operation) \in Mixed}
<1>1. NullDensity \in P
  <2>1. IdealDensity(NullDensity, operation) \in Densities
    BY MixedIsAdditive, IdealDensityFacts
  <2>2. Plus(NullDensity, 1, NullDensity) = NullDensity
    <3>1. Plus(NullDensity, 1, NullDensity) \in Densities
      BY MixedIsAdditive, PlusFacts
    <3>2. ASSUME NEW row \in BasisStates, NEW col \in BasisStates
          PROVE  Plus(NullDensity, 1, NullDensity)[row][col] = NullDensity[row][col]
      <4>1. Plus(NullDensity, 1, NullDensity)[row][col]
              = NullDensity[row][col] + 1 * NullDensity[row][col]
        BY MixedIsAdditive, PlusEntry
      <4>2. NullDensity[row][col] = 0
        BY DEF NullDensity
      <4>3. QED BY <4>1, <4>2
    <3>3. QED BY <3>1, <3>2, MixedIsAdditive, DensitiesEqual
  <2> DEFINE Z == IdealDensity(NullDensity, operation)
  <2>3. Z = Plus(Z, 1, Z)
    <3>1. IdealDensity(Plus(NullDensity, 1, NullDensity), operation) = Plus(Z, 1, Z)
      BY MixedIsAdditive, IdealIsLinear
    <3>2. QED BY <2>2, <3>1
  <2> HIDE DEF Z
  <2>4. ASSUME NEW row \in BasisStates, NEW col \in BasisStates PROVE Z[row][col] = NullDensity[row][col]
    <3>1. Z \in Densities
      BY <2>1 DEF Z
    <3>2. Plus(Z, 1, Z)[row][col] = Z[row][col] + 1 * Z[row][col]
      BY <3>1, PlusEntry
    <3>3. Z[row][col] \in Int
      BY <3>1, DensityFacts
    <3>4. \A z \in Int : z = z + 1 * z => z = 0
      OBVIOUS
    <3>5. Plus(Z, 1, Z)[row][col] = Z[row][col]
      BY <2>3
    <3>6. Z[row][col] = 0
      BY <3>2, <3>3, <3>4, <3>5
    <3>7. QED BY <3>6 DEF NullDensity
  <2>5. Z = NullDensity
    BY <2>1, <2>4, MixedIsAdditive, DensitiesEqual DEF Z
  <2>6. QED BY <2>5, MixedIsAdditive DEF Z
<1>2. ASSUME NEW X \in P, NEW a \in Nat, NEW v \in States PROVE Plus(X, a, Outer(v)) \in P
  <2>1. X \in Densities /\ Outer(v) \in Densities /\ a \in Int
    BY OuterFacts
  <2>2. IdealDensity(Plus(X, a, Outer(v)), operation)
          = Plus(IdealDensity(X, operation), a, IdealDensity(Outer(v), operation))
    BY <2>1, IdealIsLinear
  <2>3. IdealDensity(Outer(v), operation) = Outer(ApplyOperation(v, operation))
    BY IdealOnOuter
  <2>4. ApplyOperation(v, operation) \in States
    BY GateFacts
  <2>5. IdealDensity(X, operation) \in Mixed
    OBVIOUS
  <2>6. IdealDensity(Plus(X, a, Outer(v)), operation) \in Mixed
    BY <2>2, <2>3, <2>4, <2>5, MixedIsAdditive
  <2>7. Plus(X, a, Outer(v)) \in Densities
    BY <2>1, PlusFacts
  <2>8. QED BY <2>6, <2>7
<1>3. Additive(P) /\ P \in SUBSET Densities
  BY <1>1, <1>2 DEF Additive
<1> HIDE DEF P
<1>4. D \in P
  BY <1>3, MixedHave
<1>5. QED BY <1>4 DEF P

LEMMA ResetOnOuter ==
    ASSUME NEW v \in States, NEW target \in Slots
    PROVE  /\ ResetState(v, target, 0) \in States /\ ResetState(v, target, 1) \in States
           /\ DensityReset(Outer(v), target)
                = Plus(Outer(ResetState(v, target, 0)), 1, Outer(ResetState(v, target, 1)))
<1> DEFINE v0 == ResetState(v, target, 0)
           v1 == ResetState(v, target, 1)
<1>1. v0 \in States /\ v1 \in States
  BY ResetFacts
<1>2. /\ \A b \in BasisStates : v0[b] = IF target \in b THEN 0 ELSE v[b]
      /\ \A b \in BasisStates : v1[b] = IF target \in b THEN 0 ELSE v[b \union {target}]
  <2>1. ASSUME NEW b \in BasisStates
        PROVE  /\ v0[b] = IF target \in b THEN 0 ELSE v[b]
               /\ v1[b] = IF target \in b THEN 0 ELSE v[b \union {target}]
    BY ResetAmplitudes, ZenonT(60)
  <2>2. QED BY <2>1
<1> HIDE DEF v0, v1
<1>3. Outer(v) \in Densities /\ Outer(v0) \in Densities /\ Outer(v1) \in Densities
  BY <1>1, OuterFacts
<1>4. DensityReset(Outer(v), target) \in Densities
      /\ Plus(Outer(v0), 1, Outer(v1)) \in Densities
  BY <1>3, DensityResetFacts, PlusFacts
<1>5. ASSUME NEW row \in BasisStates, NEW col \in BasisStates
      PROVE  DensityReset(Outer(v), target)[row][col] = Plus(Outer(v0), 1, Outer(v1))[row][col]
  <2> DEFINE rowOne == row \union {target}
             colOne == col \union {target}
  <2>1. rowOne \in BasisStates /\ colOne \in BasisStates
    BY BasisFacts
  <2>2. DensityReset(Outer(v), target)[row][col]
          = IF target \in row \/ target \in col THEN 0
            ELSE Outer(v)[row][col] + Outer(v)[rowOne][colOne]
    BY DEF DensityReset
  <2>3. Plus(Outer(v0), 1, Outer(v1))[row][col] = Outer(v0)[row][col] + 1 * Outer(v1)[row][col]
    BY <1>3, PlusEntry
  <2>4. Outer(v0)[row][col] = v0[row] * v0[col] /\ Outer(v1)[row][col] = v1[row] * v1[col]
    BY <1>1, OuterFacts
  <2>5. Outer(v)[row][col] = v[row] * v[col] /\ Outer(v)[rowOne][colOne] = v[rowOne] * v[colOne]
    BY <2>1, OuterFacts
  <2>6. v[row] \in Int /\ v[col] \in Int /\ v[rowOne] \in Int /\ v[colOne] \in Int
    BY <2>1 DEF States
  <2>7. /\ v0[row] = IF target \in row THEN 0 ELSE v[row]
        /\ v0[col] = IF target \in col THEN 0 ELSE v[col]
        /\ v1[row] = IF target \in row THEN 0 ELSE v[rowOne]
        /\ v1[col] = IF target \in col THEN 0 ELSE v[colOne]
    BY <1>2
  <2> HIDE DEF rowOne, colOne
  <2> DEFINE a == v[row]
             b == v[col]
             c == v[rowOne]
             d == v[colOne]
  <2>8. DensityReset(Outer(v), target)[row][col]
          = IF target \in row \/ target \in col THEN 0 ELSE a * b + c * d
    BY <2>2, <2>5
  <2>9. Plus(Outer(v0), 1, Outer(v1))[row][col]
          = (IF target \in row THEN 0 ELSE a) * (IF target \in col THEN 0 ELSE b)
            + 1 * ((IF target \in row THEN 0 ELSE c) * (IF target \in col THEN 0 ELSE d))
    BY <2>3, <2>4, <2>7
  <2>10. a \in Int /\ b \in Int /\ c \in Int /\ d \in Int
    BY <2>6
  <2> HIDE DEF a, b, c, d
  <2>11. \A i \in Int : 0 * i = 0 /\ i * 0 = 0 /\ 1 * i = i
    OBVIOUS
  <2>12. a * b \in Int /\ c * d \in Int
    BY <2>10
  <2>13. CASE target \in row
    BY <2>8, <2>9, <2>10, <2>11, <2>13
  <2>14. CASE target \notin row /\ target \in col
    BY <2>8, <2>9, <2>10, <2>11, <2>14
  <2>15. CASE target \notin row /\ target \notin col
    BY <2>8, <2>9, <2>11, <2>12, <2>15
  <2>16. QED BY <2>13, <2>14, <2>15
<1>6. DensityReset(Outer(v), target) = Plus(Outer(v0), 1, Outer(v1))
  BY <1>4, <1>5, DensitiesEqual
<1>7. QED BY <1>1, <1>6 DEF v0, v1

LEMMA ResetKeepsMixed ==
    ASSUME NEW target \in Slots, NEW D \in Mixed
    PROVE  DensityReset(D, target) \in Mixed
<1> DEFINE P == {X \in Densities : DensityReset(X, target) \in Mixed}
<1>1. NullDensity \in P
  <2> DEFINE Z == DensityReset(NullDensity, target)
  <2>1. Z \in Densities
    BY MixedIsAdditive, DensityResetFacts
  <2>2. ASSUME NEW row \in BasisStates, NEW col \in BasisStates
        PROVE  Z[row][col] = NullDensity[row][col]
    BY BasisFacts DEF DensityReset, NullDensity
  <2>3. Z = NullDensity
    BY <2>1, <2>2, MixedIsAdditive, DensitiesEqual
  <2>4. QED BY <2>3, MixedIsAdditive
<1>2. ASSUME NEW X \in P, NEW a \in Nat, NEW v \in States PROVE Plus(X, a, Outer(v)) \in P
  <2> DEFINE v0 == ResetState(v, target, 0)
             v1 == ResetState(v, target, 1)
             R == DensityReset(X, target)
  <2>1. X \in Densities /\ Outer(v) \in Densities /\ a \in Int /\ R \in Mixed /\ R \in Densities
    BY OuterFacts, MixedIsAdditive
  <2>2. /\ v0 \in States /\ v1 \in States
        /\ DensityReset(Outer(v), target) = Plus(Outer(v0), 1, Outer(v1))
    BY ResetOnOuter
  <2>3. DensityReset(Plus(X, a, Outer(v)), target) = Plus(R, a, DensityReset(Outer(v), target))
    BY <2>1, ResetIsLinear
  <2> HIDE DEF v0, v1, R
  <2> DEFINE Left == Plus(R, a, Plus(Outer(v0), 1, Outer(v1)))
             First == Plus(R, a, Outer(v0))
             Right == Plus(First, a, Outer(v1))
  <2>4. Outer(v0) \in Densities /\ Outer(v1) \in Densities
    BY <2>2, OuterFacts
  <2>5. First \in Mixed /\ First \in Densities /\ Right \in Mixed /\ Right \in Densities
    BY <2>1, <2>2, MixedIsAdditive
  <2>6. Plus(Outer(v0), 1, Outer(v1)) \in Densities
    BY <2>4, PlusFacts
  <2>7. Left \in Densities
    BY <2>1, <2>6, PlusFacts
  <2>8. ASSUME NEW row \in BasisStates, NEW col \in BasisStates PROVE Left[row][col] = Right[row][col]
    <3> DEFINE r == R[row][col]
               x == Outer(v0)[row][col]
               y == Outer(v1)[row][col]
    <3>1. r \in Int /\ x \in Int /\ y \in Int
      BY <2>1, <2>4, DensityFacts
    <3>2. Plus(Outer(v0), 1, Outer(v1))[row][col] = x + 1 * y
      BY <2>4, PlusEntry
    <3>3. Left[row][col] = r + a * Plus(Outer(v0), 1, Outer(v1))[row][col]
      BY <2>1, <2>6, PlusEntry
    <3>4. First[row][col] = r + a * x
      BY <2>1, <2>4, PlusEntry
    <3>5. Right[row][col] = First[row][col] + a * y
      BY <2>1, <2>4, <2>5, PlusEntry
    <3> HIDE DEF Left, First, Right, r, x, y
    <3>6. \A i, j, k \in Int : i + a * (j + 1 * k) = (i + a * j) + a * k
      BY <2>1
    <3>7. QED BY <3>1, <3>2, <3>3, <3>4, <3>5, <3>6
  <2>9. Left = Right
    BY <2>5, <2>7, <2>8, DensitiesEqual
  <2>10. DensityReset(Plus(X, a, Outer(v)), target) \in Mixed
    BY <2>2, <2>3, <2>5, <2>9
  <2>11. Plus(X, a, Outer(v)) \in Densities
    BY <2>1, PlusFacts
  <2>12. QED BY <2>10, <2>11
<1>3. Additive(P) /\ P \in SUBSET Densities
  BY <1>1, <1>2 DEF Additive
<1> HIDE DEF P
<1>4. D \in P
  BY <1>3, MixedHave
<1>5. QED BY <1>4 DEF P

-----------------------------------------------------------------------------
(* What bounds a sum of pure matrices.                                       *)

\* A quadratic form of two numbers that is never negative.
LEMMA FormBounds ==
    ASSUME NEW a \in Int, NEW b \in Int, NEW d \in Int,
           \A x, y \in Int : a * (x * x) + 2 * (b * (x * y)) + d * (y * y) >= 0
    PROVE  a >= 0 /\ d >= 0 /\ b * b <= a * d
<1> DEFINE Form(x, y) == a * (x * x) + 2 * (b * (x * y)) + d * (y * y)
<1>0. ASSUME NEW x \in Int, NEW y \in Int PROVE Form(x, y) >= 0
  OBVIOUS
<1> HIDE DEF Form
<1>1. a >= 0
  <2>1. Form(1, 0) >= 0
    BY <1>0
  <2>2. QED BY <2>1 DEF Form
<1>2. d >= 0
  <2>1. Form(0, 1) >= 0
    BY <1>0
  <2>2. QED BY <2>1 DEF Form
<1> DEFINE s == b * b
<1>3. s \in Nat
  OBVIOUS
<1>4. CASE a > 0
  <2>1. - a \in Int /\ Form(b, - a) >= 0
    BY <1>0
  <2>2. \A i, j, k \in Int : i * (j * j) + 2 * (j * (j * (- i))) + k * ((- i) * (- i))
                                = i * (i * k - j * j)
    OBVIOUS
  <2>3. a * (a * d - b * b) >= 0
    BY <2>1, <2>2 DEF Form
  <2>4. \A i, j \in Int : i > 0 /\ i * j >= 0 => j >= 0
    OBVIOUS
  <2>5. a * d - b * b \in Int /\ a * d \in Int /\ b * b \in Int
    OBVIOUS
  <2>6. a * d - b * b >= 0
    BY <1>4, <2>3, <2>4, <2>5
  <2>7. \A i, j \in Int : i - j >= 0 => j <= i
    OBVIOUS
  <2>8. QED BY <1>1, <1>2, <2>5, <2>6, <2>7
<1>5. CASE a = 0
  <2> DEFINE x == - (b * (d + 1))
  <2>1. x \in Int
    OBVIOUS
  <2> HIDE DEF x
  <2>2. Form(x, 1) >= 0
    BY <1>0, <2>1
  <2>3. a * (x * x) = 0 /\ d * (1 * 1) = d
    BY <1>5, <2>1
  <2>4. \A i, j \in Int : 2 * (i * ((- (i * (j + 1))) * 1)) = - (2 * ((i * i) * (j + 1)))
    OBVIOUS
  <2>5. 2 * (b * (x * 1)) = - (2 * (s * (d + 1)))
    BY <2>4 DEF x
  <2> HIDE DEF s
  <2>6. s * (d + 1) \in Int /\ d >= 2 * (s * (d + 1))
    BY <1>3, <2>2, <2>3, <2>5 DEF Form
  <2>7. \A i, j \in Nat : i >= 1 => i * (j + 1) >= j + 1
    OBVIOUS
  <2>8. d \in Nat /\ (s >= 1 => s * (d + 1) >= d + 1)
    BY <1>2, <1>3, <2>7
  <2>9. s = 0
    BY <1>3, <2>6, <2>8
  <2>10. a * d = 0
    BY <1>5
  <2>11. b * b <= a * d
    BY <2>9, <2>10 DEF s
  <2>12. QED BY <1>1, <1>2, <2>11
<1>6. QED BY <1>1, <1>4, <1>5

Form(D, row, col, x, y) ==
    D[row][row] * (x * x) + 2 * (D[row][col] * (x * y)) + D[col][col] * (y * y)

Positive ==
    {D \in Densities : \A row, col \in BasisStates :
        /\ D[row][col] = D[col][row]
        /\ \A x, y \in Int : Form(D, row, col, x, y) >= 0}

LEMMA PositiveIsAdditive == Additive(Positive)
<1>1. NullDensity \in Positive
  <2>1. NullDensity \in Densities /\ \A row, col \in BasisStates : NullDensity[row][col] = 0
    BY MixedIsAdditive DEF NullDensity
  <2>2. ASSUME NEW row \in BasisStates, NEW col \in BasisStates, NEW x \in Int, NEW y \in Int
        PROVE  Form(NullDensity, row, col, x, y) >= 0
    <3>1. \A i \in Int : 0 * i = 0
      OBVIOUS
    <3>2. NullDensity[row][row] = 0 /\ NullDensity[row][col] = 0 /\ NullDensity[col][col] = 0
      BY <2>1
    <3>3. x * x \in Int /\ x * y \in Int /\ y * y \in Int
      OBVIOUS
    <3>4. Form(NullDensity, row, col, x, y) = 0 * (x * x) + 2 * (0 * (x * y)) + 0 * (y * y)
      BY <3>2 DEF Form
    <3>5. QED BY <3>1, <3>3, <3>4
  <2>3. QED BY <2>1, <2>2 DEF Positive
<1>2. ASSUME NEW D \in Positive, NEW a \in Nat, NEW v \in States
      PROVE  Plus(D, a, Outer(v)) \in Positive
  <2> DEFINE E == Plus(D, a, Outer(v))
  <2>1. D \in Densities /\ Outer(v) \in Densities /\ a \in Int
    BY OuterFacts DEF Positive
  <2>2. E \in Densities
    BY <2>1, PlusFacts
  <2>3. ASSUME NEW row \in BasisStates, NEW col \in BasisStates
        PROVE  /\ E[row][col] = D[row][col] + a * (v[row] * v[col])
               /\ D[row][col] \in Int /\ v[row] \in Int /\ v[col] \in Int
    <3>1. E[row][col] = D[row][col] + a * Outer(v)[row][col]
      BY <2>1, PlusEntry
    <3>2. Outer(v)[row][col] = v[row] * v[col]
      BY OuterFacts
    <3>3. QED BY <2>1, <3>1, <3>2, DensityFacts DEF States
  <2> HIDE DEF E
  <2>4. ASSUME NEW row \in BasisStates, NEW col \in BasisStates PROVE E[row][col] = E[col][row]
    <3>1. D[row][col] = D[col][row]
      BY DEF Positive
    <3>2. \A i, j \in Int : i * j = j * i
      OBVIOUS
    <3>3. v[row] * v[col] = v[col] * v[row]
      BY <2>3, <3>2
    <3>4. QED BY <2>3, <3>1, <3>3
  <2>5. ASSUME NEW row \in BasisStates, NEW col \in BasisStates, NEW x \in Int, NEW y \in Int
        PROVE  Form(E, row, col, x, y) >= 0
    <3> DEFINE p == v[row]
               q == v[col]
               d == D[row][row]
               e == D[row][col]
               f == D[col][col]
               old == Form(D, row, col, x, y)
               s == p * x + q * y
    <3>1. p \in Int /\ q \in Int /\ d \in Int /\ e \in Int /\ f \in Int
      BY <2>3
    <3>2. old = d * (x * x) + 2 * (e * (x * y)) + f * (y * y) /\ old >= 0
      BY DEF Form, Positive
    <3>3. /\ E[row][row] = d + a * (p * p) /\ E[row][col] = e + a * (p * q)
          /\ E[col][col] = f + a * (q * q)
      BY <2>3
    <3>4. Form(E, row, col, x, y)
            = (d + a * (p * p)) * (x * x) + 2 * ((e + a * (p * q)) * (x * y))
              + (f + a * (q * q)) * (y * y)
      BY <3>3 DEF Form
    <3> HIDE DEF old, p, q, d, e, f
    <3>5. \A i, j, k \in Int :
              (i + a * (p * p)) * (x * x) + 2 * ((j + a * (p * q)) * (x * y))
                  + (k + a * (q * q)) * (y * y)
              = (i * (x * x) + 2 * (j * (x * y)) + k * (y * y)) + a * (s * s)
      BY <3>1
    <3>6. Form(E, row, col, x, y) = old + a * (s * s)
      BY <3>1, <3>2, <3>4, <3>5
    <3>7. s \in Int /\ old \in Int
      BY <3>1, <3>2
    <3>8. \A i \in Int : i * i \in Nat
      OBVIOUS
    <3>9. \A i, j \in Nat : i * j \in Nat
      OBVIOUS
    <3> HIDE DEF s
    <3>10. a * (s * s) \in Nat
      BY <3>7, <3>8, <3>9
    <3>11. QED BY <3>2, <3>6, <3>7, <3>10
  <2>6. E \in Positive
    BY <2>2, <2>4, <2>5 DEF Positive
  <2>7. QED BY <2>6 DEF E
<1>3. QED BY <1>1, <1>2 DEF Additive

LEMMA MixedBounds ==
    ASSUME NEW D \in Mixed, NEW row \in BasisStates, NEW col \in BasisStates
    PROVE  /\ D[row][col] = D[col][row]
           /\ D[row][row] >= 0
           /\ D[row][col] * D[row][col] <= D[row][row] * D[col][col]
<1>1. Positive \in SUBSET Densities
  BY DEF Positive
<1>2. D \in Positive
  BY <1>1, PositiveIsAdditive, MixedHave
<1>3. D \in Densities
  BY MixedIsAdditive
<1>4. D[row][row] \in Int /\ D[row][col] \in Int /\ D[col][col] \in Int
  BY <1>3, DensityFacts
<1>5. \A x, y \in Int : D[row][row] * (x * x) + 2 * (D[row][col] * (x * y))
                        + D[col][col] * (y * y) >= 0
  BY <1>2 DEF Positive, Form
<1>6. D[row][row] >= 0 /\ D[row][col] * D[row][col] <= D[row][row] * D[col][col]
  BY <1>4, <1>5, FormBounds
<1>7. QED BY <1>2, <1>6 DEF Positive

-----------------------------------------------------------------------------
(* Trace and purity.                                                         *)

Trace(D) == Sum(Diagonal(D), BasisStates)

Squared(D) == [e \in BasisStates \X BasisStates |-> D[e[1]][e[2]] * D[e[2]][e[1]]]

LEMMA TraceFacts ==
    ASSUME NEW D \in Densities
    PROVE  /\ \A b \in BasisStates : Diagonal(D)[b] = D[b][b] /\ Diagonal(D)[b] \in Int
           /\ Trace(D) \in Int
<1>1. \A b \in BasisStates : Diagonal(D)[b] = D[b][b] /\ Diagonal(D)[b] \in Int
  BY DensityFacts DEF Diagonal
<1>2. QED BY <1>1, BasisIsFinite, SumIsInt DEF Trace

\* The purity of a sum of pure matrices is between the trace's square and a fraction of it.
LEMMA PurityBounds ==
    ASSUME NEW D \in Mixed
    PROVE  /\ Trace(D) \in Nat /\ Sum(Squared(D), BasisStates \X BasisStates) \in Int
           /\ Sum(Squared(D), BasisStates \X BasisStates) <= Trace(D) * Trace(D)
           /\ Trace(D) * Trace(D)
                <= Cardinality(BasisStates) * Sum(Squared(D), BasisStates \X BasisStates)
<1> DEFINE S == BasisStates
           d == Diagonal(D)
           g == [e \in S \X S |-> d[e[1]] * d[e[2]]]
           h == [b \in S |-> d[b] * d[b]]
           twice == [b \in S |-> <<b, b>>]
           T == {twice[b] : b \in S}
           N == Cardinality(S)
           p == Sum(Squared(D), S \X S)
           q == Sum(h, S)
           t == Sum(d, S)
<1>1. IsFiniteSet(S) /\ IsFiniteSet(S \X S) /\ N \in Nat
  BY BasisIsFinite, FS_Product, FS_CardinalityType
<1>2. D \in Densities /\ \A b \in S : d[b] = D[b][b] /\ d[b] \in Nat
  BY MixedIsAdditive, MixedBounds, TraceFacts
<1>3. ASSUME NEW row \in S, NEW col \in S
      PROVE  /\ Squared(D)[<<row, col>>] = D[row][col] * D[row][col]
             /\ Squared(D)[<<row, col>>] \in Nat
             /\ Squared(D)[<<row, col>>] <= d[row] * d[col]
  <2>1. D[row][col] \in Int /\ D[row][col] = D[col][row]
        /\ D[row][col] * D[row][col] <= D[row][row] * D[col][col]
    BY <1>2, DensityFacts, MixedBounds
  <2>2. Squared(D)[<<row, col>>] = D[row][col] * D[col][row]
    BY DEF Squared
  <2>3. \A i \in Int : i * i \in Nat
    OBVIOUS
  <2>4. D[row][col] * D[row][col] \in Nat
    BY <2>1, <2>3
  <2> HIDE DEF d
  <2>5. QED BY <1>2, <2>1, <2>2, <2>4
<1> HIDE DEF d
<1>4. t \in Nat
  BY <1>1, <1>2, SumOfNaturals
<1>5. \A e \in S \X S : Squared(D)[e] \in Nat
  BY <1>3
<1>6. p \in Int
  BY <1>1, <1>5, SumIsInt
<1>7. p <= t * t
  <2>1. ASSUME NEW row \in S, NEW col \in S
        PROVE  g[<<row, col>>] = d[row] * d[col] /\ g[<<row, col>>] \in Int
    <3>1. g[<<row, col>>] = d[row] * d[col]
      OBVIOUS
    <3>2. \A i, j \in Int : i * j \in Int
      OBVIOUS
    <3> HIDE DEF g
    <3>3. QED BY <1>2, <3>1, <3>2
  <2> HIDE DEF g
  <2>2. \A e \in S \X S : Squared(D)[e] \in Int /\ g[e] \in Int /\ Squared(D)[e] <= g[e]
    BY <1>3, <2>1
  <2>3. p <= Sum(g, S \X S)
    BY <1>1, <2>2, SumAtMost
  <2>4. \A b \in S : d[b] \in Int
    BY <1>2
  <2>5. Sum(g, S \X S) = t * t
    BY <1>1, <2>1, <2>4, SquareOfSum
  <2>6. QED BY <2>3, <2>5
<1>8. \A b \in S : h[b] = d[b] * d[b] /\ h[b] \in Nat
  <2>1. \A b \in S : h[b] = d[b] * d[b]
    OBVIOUS
  <2>2. \A i \in Int : i * i \in Nat
    OBVIOUS
  <2> HIDE DEF h
  <2>3. QED BY <1>2, <2>1, <2>2
<1>9. t * t <= N * q
  <2> HIDE DEF h
  <2>1. \A b \in S : d[b] \in Int /\ h[b] = d[b] * d[b]
    BY <1>2, <1>8
  <2>2. QED BY <1>1, <2>1, SumOfSquares
<1>10. q <= p /\ q \in Nat
  <2> HIDE DEF h
  <2>1. ASSUME NEW b \in S PROVE h[b] \in Int /\ Squared(D)[twice[b]] = h[b]
    <3>1. twice[b] = <<b, b>>
      OBVIOUS
    <3>2. Squared(D)[<<b, b>>] = D[b][b] * D[b][b]
      BY <1>3
    <3>3. d[b] = D[b][b] /\ h[b] = d[b] * d[b] /\ h[b] \in Int
      BY <1>2, <1>8
    <3>4. QED BY <3>1, <3>2, <3>3
  <2>2. \A b, c \in S : twice[b] = twice[c] => b = c
    OBVIOUS
  <2>3. T \in SUBSET (S \X S)
    OBVIOUS
  <2> HIDE DEF twice
  <2>4. Reindexes(S, h, Squared(D), twice)
    BY <2>1, <2>2 DEF Reindexes
  <2>5. Sum(Squared(D), T) = q
    BY <1>1, <2>4, SumImage
  <2> HIDE DEF T
  <2>6. \A e \in S \X S : Squared(D)[e] \in Int
    BY <1>5
  <2> DEFINE whole == S \X S
             rest == Sum(Squared(D), whole \ T)
  <2>7. IsFiniteSet(whole) /\ T \in SUBSET whole /\ \A e \in whole : Squared(D)[e] \in Nat
    BY <1>1, <1>5, <2>3
  <2>8. p = Sum(Squared(D), whole)
    OBVIOUS
  <2> HIDE DEF whole
  <2>9. p = q + rest
    <3>1. Sum(Squared(D), whole) = Sum(Squared(D), T) + Sum(Squared(D), whole \ T)
      BY <2>7, SumOfParts
    <3>2. QED BY <2>5, <2>8, <3>1
  <2>10. rest \in Nat
    <3>1. IsFiniteSet(whole \ T)
      BY <2>7, FS_Subset
    <3>2. QED BY <2>7, <3>1, SumOfNaturals
  <2>11. q \in Nat
    BY <1>1, <1>8, SumOfNaturals
  <2> HIDE DEF p, q, rest
  <2>12. QED BY <1>6, <2>9, <2>10, <2>11
<1>11. t * t <= N * p
  <2> HIDE DEF p, q, t, N
  <2>1. \A i, j, k, l \in Int : j >= 0 /\ i <= j * k /\ k <= l => i <= j * l
    <3>1. \A j, k, l \in Int : j >= 0 /\ k <= l => j * k <= j * l
      OBVIOUS
    <3>2. \A j, k \in Int : j * k \in Int
      OBVIOUS
    <3>3. QED BY <3>1, <3>2
  <2>2. t * t \in Int /\ N \in Int /\ N >= 0 /\ q \in Int
    BY <1>1, <1>4, <1>10
  <2>3. QED BY <1>6, <1>9, <1>10, <2>1, <2>2
<1>12. t = Trace(D)
  BY DEF Trace, d
<1>13. QED BY <1>4, <1>6, <1>7, <1>11, <1>12

-----------------------------------------------------------------------------
(* What the operations do to the trace.                                      *)

Clear(target) == {b \in BasisStates : target \notin b}

\* The part of the trace in which the target is summed.
Pair(D, target, b) == D[b][b] + D[b \union {target}][b \union {target}]

LEMMA TraceOverPairs ==
    ASSUME NEW D \in Densities, NEW target \in Slots
    PROVE  /\ Trace(D) = Sum([b \in Clear(target) |-> Pair(D, target, b)], Clear(target))
           /\ \A b \in Clear(target) : Pair(D, target, b) \in Int
           /\ IsFiniteSet(Clear(target))
<1> DEFINE S == BasisStates
           T == Clear(target)
           d == Diagonal(D)
           raised == [b \in T |-> b \union {target}]
           upper == [b \in T |-> d[raised[b]]]
           pairs == [b \in T |-> Pair(D, target, b)]
<1>1. IsFiniteSet(S) /\ T \in SUBSET S /\ IsFiniteSet(T)
  BY BasisIsFinite, FS_Subset DEF Clear
<1>2. \A b \in S : d[b] = D[b][b] /\ d[b] \in Int
  BY TraceFacts
<1>3. \A b \in T : raised[b] = b \union {target} /\ raised[b] \in S
  BY BasisFacts DEF Clear
<1>4. S \ T = {raised[b] : b \in T}
  <2>1. ASSUME NEW b \in S \ T PROVE b \in {raised[c] : c \in T}
    <3>1. b \ {target} \in T /\ raised[b \ {target}] = b
      BY BasisFacts DEF Clear
    <3>2. QED BY <3>1
  <2>2. ASSUME NEW b \in T PROVE raised[b] \in S \ T
    BY <1>3 DEF Clear
  <2>3. QED BY <2>1, <2>2
<1>5. \A b, c \in T : raised[b] = raised[c] => b = c
  BY DEF Clear
<1> HIDE DEF d, T, raised
<1>6. \A b \in T : upper[b] \in Int /\ upper[b] = d[raised[b]]
  BY <1>2, <1>3
<1> HIDE DEF upper
<1>7. Sum(d, S \ T) = Sum(upper, T)
  <2>1. Reindexes(T, upper, d, raised)
    BY <1>5, <1>6 DEF Reindexes
  <2>2. QED BY <1>1, <1>4, <2>1, SumImage
<1>8. Sum(d, S) = Sum(d, T) + Sum(d, S \ T)
  BY <1>1, <1>2, SumOfParts
<1>9. ASSUME NEW b \in T
      PROVE  pairs[b] = Pair(D, target, b) /\ pairs[b] = 1 * d[b] + 1 * upper[b]
             /\ d[b] \in Int /\ upper[b] \in Int /\ pairs[b] \in Int
  <2>1. pairs[b] = Pair(D, target, b)
    OBVIOUS
  <2>2. Pair(D, target, b) = d[b] + upper[b]
    BY <1>1, <1>2, <1>3, <1>6 DEF Pair
  <2>3. d[b] \in Int /\ upper[b] \in Int
    BY <1>1, <1>2, <1>6
  <2> HIDE DEF pairs
  <2>4. QED BY <2>1, <2>2, <2>3
<1> HIDE DEF pairs
<1>10. Sum(pairs, T) = 1 * Sum(d, T) + 1 * Sum(upper, T)
  BY <1>1, <1>9, SumCombination
<1>11. Sum(d, T) \in Int /\ Sum(upper, T) \in Int
  BY <1>1, <1>9, SumIsInt
<1>12. Sum(d, S) = Sum(pairs, T)
  BY <1>7, <1>8, <1>10, <1>11
<1>13. Trace(D) = Sum(pairs, T)
  BY <1>12 DEF Trace, d
<1>14. \A b \in T : Pair(D, target, b) \in Int
  BY <1>9
<1>15. QED BY <1>1, <1>13, <1>14 DEF pairs, T

LEMMA TraceIsScaled ==
    ASSUME NEW D \in Densities, NEW E \in Densities, NEW target \in Slots, NEW c \in Int,
           \A b \in Clear(target) : Pair(E, target, b) = c * Pair(D, target, b)
    PROVE  Trace(E) = c * Trace(D)
<1> DEFINE T == Clear(target)
           f == [b \in T |-> Pair(D, target, b)]
           g == [b \in T |-> Pair(E, target, b)]
<1>1. Trace(D) = Sum(f, T) /\ Trace(E) = Sum(g, T) /\ IsFiniteSet(T)
  BY TraceOverPairs
<1>2. \A b \in T : Pair(D, target, b) \in Int
  BY TraceOverPairs
<1>3. ASSUME NEW b \in T PROVE f[b] \in Int /\ g[b] = c * f[b] + 0 * f[b]
  <2>1. f[b] \in Int /\ g[b] = c * f[b]
    BY <1>2
  <2>2. \A i \in Int : c * i = c * i + 0 * i
    OBVIOUS
  <2> HIDE DEF f, g
  <2>3. QED BY <2>1, <2>2
<1> HIDE DEF T, f, g
<1>4. Sum(f, T) \in Int
  BY <1>1, <1>3, SumIsInt
<1>5. Sum(g, T) = c * Sum(f, T) + 0 * Sum(f, T)
  <2>1. \A b \in T : f[b] \in Int /\ f[b] \in Int /\ g[b] = c * f[b] + 0 * f[b]
    BY <1>3
  <2>2. c \in Int /\ 0 \in Int /\ IsFiniteSet(T)
    BY <1>1
  <2>3. QED BY ONLY <2>1, <2>2, SumCombination
<1>6. \A i \in Int : c * i + 0 * i = c * i
  OBVIOUS
<1>7. QED BY <1>1, <1>4, <1>5, <1>6

\* The products of a matrix's columns.
Gram(m, i, j) == m[1][i] * m[1][j] + m[2][i] * m[2][j]

LEMMA OperatorPair ==
    ASSUME NEW D \in Densities, NEW target \in Slots, NEW m, IsMatrix(m),
           NEW b \in Clear(target), NEW one, one = b \union {target}
    PROVE  Pair(ApplyOperator(D, target, m), target, b)
             = Gram(m, 1, 1) * D[b][b] + Gram(m, 1, 2) * (D[b][one] + D[one][b])
               + Gram(m, 2, 2) * D[one][one]
<1> DEFINE L == RowOperator(D, target, m)
           A == ApplyOperator(D, target, m)
<1>1. /\ b \in BasisStates /\ one \in BasisStates
      /\ b \ {target} = b /\ b \union {target} = one
      /\ one \ {target} = b /\ one \union {target} = one
      /\ target \notin b /\ target \in one
  BY BasisFacts DEF Clear
<1>2. L \in Densities /\ A = [row \in BasisStates |-> ApplySingle(L[row], target, m)]
  BY OperatorFacts
<1>3. Line(m, target, b) = m[1] /\ Line(m, target, one) = m[2]
  BY <1>1 DEF Line
<1>4. ASSUME NEW col \in BasisStates
      PROVE  /\ L[b][col] = m[1][1] * D[b][col] + m[1][2] * D[one][col]
             /\ L[one][col] = m[2][1] * D[b][col] + m[2][2] * D[one][col]
  BY <1>1, <1>3 DEF RowOperator
<1>5. A[b][b] = m[1][1] * L[b][b] + m[1][2] * L[b][one]
  <2> DEFINE v == L[b]
  <2>1. v \in States /\ A[b][b] = ApplySingle(v, target, m)[b]
    BY <1>1, <1>2, DensityFacts
  <2> HIDE DEF A, v
  <2>2. ApplySingle(v, target, m)[b] = Line(m, target, b)[1] * v[b \ {target}]
                                        + Line(m, target, b)[2] * v[b \union {target}]
    BY <1>1, <2>1, SingleEntry
  <2>3. QED BY <1>1, <1>3, <2>1, <2>2 DEF v
<1>6. A[one][one] = m[2][1] * L[one][b] + m[2][2] * L[one][one]
  <2> DEFINE v == L[one]
  <2>1. v \in States /\ A[one][one] = ApplySingle(v, target, m)[one]
    BY <1>1, <1>2, DensityFacts
  <2> HIDE DEF A, v
  <2>2. ApplySingle(v, target, m)[one] = Line(m, target, one)[1] * v[one \ {target}]
                                        + Line(m, target, one)[2] * v[one \union {target}]
    BY <1>1, <2>1, SingleEntry
  <2>3. QED BY <1>1, <1>3, <2>1, <2>2 DEF v
<1> DEFINE p == m[1][1]
           q == m[1][2]
           r == m[2][1]
           s == m[2][2]
           w == D[b][b]
           x == D[b][one]
           y == D[one][b]
           z == D[one][one]
<1>7. p \in Int /\ q \in Int /\ r \in Int /\ s \in Int
  BY DEF IsMatrix
<1>8. w \in Int /\ x \in Int /\ y \in Int /\ z \in Int
  BY <1>1, DensityFacts
<1>9. A[b][b] = p * (p * w + q * y) + q * (p * x + q * z)
  BY <1>1, <1>4, <1>5
<1>10. A[one][one] = r * (r * w + s * y) + s * (r * x + s * z)
  BY <1>1, <1>4, <1>6
<1>11. /\ Gram(m, 1, 1) = p * p + r * r /\ Gram(m, 1, 2) = p * q + r * s
       /\ Gram(m, 2, 2) = q * q + s * s
  BY DEF Gram
<1>12. Pair(A, target, b) = A[b][b] + A[one][one]
  BY <1>1 DEF Pair
<1>13. \A a, c, e, f, g, h, k, l \in Int :
          (a * (a * g + c * k) + c * (a * h + c * l)) + (e * (e * g + f * k) + f * (e * h + f * l))
          = (a * a + e * e) * g + (a * c + e * f) * (h + k) + (c * c + f * f) * l
  OBVIOUS
<1> HIDE DEF L, A, p, q, r, s, w, x, y, z
<1>14. (p * (p * w + q * y) + q * (p * x + q * z)) + (r * (r * w + s * y) + s * (r * x + s * z))
       = (p * p + r * r) * w + (p * q + r * s) * (x + y) + (q * q + s * s) * z
  BY <1>7, <1>8, <1>13
<1>15. Pair(A, target, b)
        = (p * p + r * r) * w + (p * q + r * s) * (x + y) + (q * q + s * s) * z
  BY <1>9, <1>10, <1>12, <1>14
<1>16. Pair(A, target, b)
         = Gram(m, 1, 1) * w + Gram(m, 1, 2) * (x + y) + Gram(m, 2, 2) * z
  BY <1>11, <1>15
<1>17. QED BY <1>16 DEF A, w, x, y, z

GateScale(g) == IF g \in {"H", "RY"} THEN 2 ELSE 1

LEMMA GramOfGate ==
    ASSUME NEW g \in DOMAIN Matrix
    PROVE  /\ Gram(Matrix[g], 1, 1) = GateScale(g) /\ Gram(Matrix[g], 2, 2) = GateScale(g)
           /\ Gram(Matrix[g], 1, 2) = 0
<1>1. g \in {"X", "H", "Z", "RY"}
  BY DEF Matrix
<1>2. CASE g = "X"
  BY <1>2 DEF Matrix, Gram, GateScale
<1>3. CASE g = "H"
  BY <1>3 DEF Matrix, Gram, GateScale
<1>4. CASE g = "Z"
  BY <1>4 DEF Matrix, Gram, GateScale
<1>5. CASE g = "RY"
  BY <1>5 DEF Matrix, Gram, GateScale
<1>6. QED BY <1>1, <1>2, <1>3, <1>4, <1>5

LEMMA OperatorTrace ==
    ASSUME NEW D \in Densities, NEW target \in Slots, NEW m, IsMatrix(m), NEW c \in Int,
           Gram(m, 1, 1) = c, Gram(m, 2, 2) = c, Gram(m, 1, 2) = 0
    PROVE  Trace(ApplyOperator(D, target, m)) = c * Trace(D)
<1> DEFINE E == ApplyOperator(D, target, m)
<1>1. E \in Densities
  BY OperatorFacts
<1>2. ASSUME NEW b \in Clear(target) PROVE Pair(E, target, b) = c * Pair(D, target, b)
  <2> DEFINE one == b \union {target}
             w == D[b][b]
             x == D[b][one]
             y == D[one][b]
             z == D[one][one]
  <2>1. b \in BasisStates /\ one \in BasisStates
    BY BasisFacts DEF Clear
  <2>2. w \in Int /\ x \in Int /\ y \in Int /\ z \in Int
    BY <2>1, DensityFacts
  <2>3. Pair(D, target, b) = w + z
    BY DEF Pair
  <2>4. Pair(E, target, b)
          = Gram(m, 1, 1) * w + Gram(m, 1, 2) * (x + y) + Gram(m, 2, 2) * z
    BY OperatorPair
  <2>5. Pair(E, target, b) = c * w + 0 * (x + y) + c * z
    BY <2>4
  <2>6. \A i, j, k, l \in Int : c * i + 0 * (j + k) + c * l = c * (i + l)
    OBVIOUS
  <2> HIDE DEF w, x, y, z, E
  <2>7. QED BY <2>2, <2>3, <2>5, <2>6
<1> HIDE DEF E
<1>3. Trace(E) = c * Trace(D)
  BY <1>1, <1>2, TraceIsScaled
<1>4. QED BY <1>3 DEF E

LEMMA ExchangeTrace ==
    ASSUME NEW D \in Densities, NEW control \in Slots, NEW target \in Slots, control # target
    PROVE  Trace(DensityCx(D, control, target)) = Trace(D)
<1> DEFINE S == BasisStates
           E == DensityCx(D, control, target)
           moved == [b \in S |-> Permuted(b, control, target)]
           d == Diagonal(D)
           e == Diagonal(E)
<1>1. ASSUME NEW b \in S
      PROVE  moved[b] \in S /\ moved[moved[b]] = b
  BY CxIsUndone
<1>2. ASSUME NEW b \in S PROVE e[b] = d[moved[b]] /\ e[b] \in Int
  <2>1. E \in Densities /\ moved[b] \in S
    BY <1>1, ExchangeFacts
  <2>2. E[b][b] = D[moved[b]][moved[b]]
    BY DEF DensityCx
  <2>3. e[b] = E[b][b] /\ e[b] \in Int /\ d[moved[b]] = D[moved[b]][moved[b]]
    BY <2>1, TraceFacts
  <2>4. QED BY <2>2, <2>3
<1> HIDE DEF moved, d, e
<1>3. {moved[b] : b \in S} = S
  BY <1>1
<1>4. \A b, c \in S : moved[b] = moved[c] => b = c
  BY <1>1
<1>5. Reindexes(S, e, d, moved)
  BY <1>2, <1>4 DEF Reindexes
<1>6. Sum(d, {moved[b] : b \in S}) = Sum(e, S)
  BY <1>5, BasisIsFinite, SumImage
<1>7. Sum(d, S) = Sum(e, S)
  BY <1>3, <1>6
<1>8. QED BY <1>7 DEF Trace, d, e

LEMMA IdealTrace ==
    ASSUME NEW D \in Densities, NEW operation \in AllocatedOperations,
           operation.opcode \in Gates
    PROVE  Trace(IdealDensity(D, operation)) = GateScale(operation.opcode) * Trace(D)
<1> DEFINE target == operation.targets[1]
           g == operation.opcode
<1>1. target \in Slots /\ Trace(D) \in Int /\ GateScale(g) \in Nat
  BY FirstTarget, TraceFacts DEF GateScale
<1>2. CASE g = "CX"
  <2>1. operation.control \in Slots /\ operation.control # target
    BY <1>2 DEF AllocatedOperations
  <2>2. IdealDensity(D, operation) = DensityCx(D, operation.control, target)
    BY <1>2 DEF IdealDensity
  <2>3. Trace(DensityCx(D, operation.control, target)) = Trace(D)
    BY <1>1, <2>1, ExchangeTrace
  <2>4. GateScale(g) = 1
    BY <1>2 DEF GateScale
  <2>5. QED BY <1>1, <2>2, <2>3, <2>4
<1>3. CASE g # "CX"
  <2>1. g \in DOMAIN Matrix
    BY <1>3 DEF Gates
  <2>2. IsMatrix(Matrix[g])
    BY <2>1, MatrixOfGate
  <2>3. IdealDensity(D, operation) = ApplyOperator(D, target, Matrix[g])
    BY <1>3 DEF IdealDensity
  <2>4. /\ Gram(Matrix[g], 1, 1) = GateScale(g) /\ Gram(Matrix[g], 2, 2) = GateScale(g)
        /\ Gram(Matrix[g], 1, 2) = 0
    BY <2>1, GramOfGate
  <2>5. Trace(ApplyOperator(D, target, Matrix[g])) = GateScale(g) * Trace(D)
    BY <1>1, <2>2, <2>4, OperatorTrace
  <2>6. QED BY <2>3, <2>5
<1>4. QED BY <1>2, <1>3

LEMMA ResetTrace ==
    ASSUME NEW D \in Densities, NEW target \in Slots
    PROVE  Trace(DensityReset(D, target)) = Trace(D)
<1> DEFINE E == DensityReset(D, target)
<1>1. E \in Densities
  BY DensityResetFacts
<1>2. ASSUME NEW b \in Clear(target) PROVE Pair(E, target, b) = 1 * Pair(D, target, b)
  <2> DEFINE one == b \union {target}
  <2>1. b \in BasisStates /\ one \in BasisStates /\ target \notin b /\ target \in one
    BY BasisFacts DEF Clear
  <2>2. D[b][b] \in Int /\ D[one][one] \in Int
    BY <2>1, DensityFacts
  <2>3. E[b][b] = D[b][b] + D[one][one] /\ E[one][one] = 0
    BY <2>1 DEF DensityReset
  <2>4. Pair(E, target, b) = E[b][b] + E[one][one] /\ Pair(D, target, b) = D[b][b] + D[one][one]
    BY DEF Pair
  <2> HIDE DEF E, one
  <2>5. QED BY <2>2, <2>3, <2>4
<1> HIDE DEF E
<1>3. Trace(E) = 1 * Trace(D)
  <2>1. 1 \in Int
    OBVIOUS
  <2>2. QED BY <1>1, <1>2, <2>1, TraceIsScaled
<1>4. Trace(D) \in Int
  BY TraceFacts
<1>5. QED BY <1>3, <1>4 DEF E

Grams(kraus, i, j) ==
    [k \in DOMAIN kraus |-> kraus[k].weight * Gram(kraus[k].matrix, i, j)]

LEMMA CompletenessIs ==
    ASSUME NEW kraus, IsChannel(kraus), NEW i \in {1, 2}, NEW j \in {1, 2}
    PROVE  /\ Completeness(kraus, i, j) = Sum(Grams(kraus, i, j), DOMAIN kraus)
           /\ \A k \in DOMAIN kraus : Grams(kraus, i, j)[k] \in Int
           /\ Completeness(kraus, i, j) \in Int
<1> DEFINE S == DOMAIN kraus
           f == Grams(kraus, i, j)
           Next(g) == [s \in SUBSET S |->
                          IF s = {} THEN 0
                          ELSE LET k == CHOOSE k \in s : TRUE
                               IN  kraus[k].weight
                                     * (kraus[k].matrix[1][i] * kraus[k].matrix[1][j]
                                        + kraus[k].matrix[2][i] * kraus[k].matrix[2][j])
                                   + g[s \ {k}]]
<1>1. Completeness(kraus, i, j) = (CHOOSE g : g = Next(g))[S]
  BY DEF Completeness, MapThenSumSet, MapThenFoldSet
<1>2. ASSUME NEW g PROVE Next(g) = SumStep(f, S, g)
  <2>1. ASSUME NEW k \in S
        PROVE  f[k] = kraus[k].weight * (kraus[k].matrix[1][i] * kraus[k].matrix[1][j]
                                         + kraus[k].matrix[2][i] * kraus[k].matrix[2][j])
    BY DEF Grams, Gram
  <2> HIDE DEF f
  <2>2. ASSUME NEW s \in SUBSET S PROVE Next(g)[s] = SumStep(f, S, g)[s]
    BY <2>1 DEF SumStep
  <2>3. QED BY <2>2 DEF SumStep
<1> HIDE DEF Next
<1>3. (CHOOSE g : g = Next(g)) = (CHOOSE g : g = SumStep(f, S, g))
  BY <1>2
<1>4. Completeness(kraus, i, j) = Sum(f, S)
  BY <1>1, <1>3 DEF Sum
<1>5. ASSUME NEW k \in S PROVE f[k] \in Int
  <2> DEFINE m == kraus[k].matrix
  <2>1. kraus[k].weight \in Int
    BY DEF IsChannel
  <2>2. m[1][i] \in Int /\ m[1][j] \in Int /\ m[2][i] \in Int /\ m[2][j] \in Int
    BY DEF IsChannel, IsMatrix
  <2>3. f[k] = kraus[k].weight * (m[1][i] * m[1][j] + m[2][i] * m[2][j])
    BY DEF Grams, Gram
  <2>4. \A a, b, c, d, e \in Int : a * (b * c + d * e) \in Int
    OBVIOUS
  <2> HIDE DEF f, m
  <2>5. QED BY <2>1, <2>2, <2>3, <2>4
<1>6. IsFiniteSet(S)
  BY DEF IsChannel
<1> HIDE DEF f
<1>7. Sum(f, S) \in Int
  BY <1>5, <1>6, SumIsInt
<1>8. QED BY <1>4, <1>5, <1>7 DEF f

LEMMA ChannelTrace ==
    ASSUME NEW D \in Densities, NEW target \in Slots, NEW kraus, IsChannel(kraus),
           Completeness(kraus, 2, 2) = Completeness(kraus, 1, 1), Completeness(kraus, 1, 2) = 0
    PROVE  Trace(ApplyChannel(D, target, kraus)) = Completeness(kraus, 1, 1) * Trace(D)
<1> DEFINE E == ApplyChannel(D, target, kraus)
           S == DOMAIN kraus
           c == Completeness(kraus, 1, 1)
           f1 == Grams(kraus, 1, 1)
           f2 == Grams(kraus, 1, 2)
           f3 == Grams(kraus, 2, 2)
<1>1. E \in Densities
  BY ChannelFacts
<1>2. c \in Int /\ Sum(f1, S) = c /\ Sum(f2, S) = 0 /\ Sum(f3, S) = c
  BY CompletenessIs
<1>3. \A k \in S : f1[k] \in Int /\ f2[k] \in Int /\ f3[k] \in Int
  BY CompletenessIs
<1>4. IsFiniteSet(S)
  BY DEF IsChannel
<1> HIDE DEF E, c, f1, f2, f3
<1>5. ASSUME NEW b \in Clear(target) PROVE Pair(E, target, b) = c * Pair(D, target, b)
  <2> DEFINE one == b \union {target}
             w == D[b][b]
             x == D[b][one] + D[one][b]
             z == D[one][one]
             low == Term(D, target, kraus, b, b)
             high == Term(D, target, kraus, one, one)
             both == [k \in S |-> low[k] + high[k]]
             part == [k \in S |-> w * f1[k] + x * f2[k]]
  <2>1. b \in BasisStates /\ one \in BasisStates
    BY BasisFacts DEF Clear
  <2>2. w \in Int /\ x \in Int /\ z \in Int
    <3>1. D[b][one] \in Int /\ D[one][b] \in Int
      BY <2>1, DensityFacts
    <3>2. w \in Int /\ z \in Int
      BY <2>1, DensityFacts
    <3>3. QED BY <3>1, <3>2
  <2>3. E[b][b] = Sum(low, S) /\ E[one][one] = Sum(high, S)
    BY <2>1, ChannelFacts DEF E
  <2>4. ASSUME NEW k \in S
        PROVE  /\ low[k] \in Int /\ high[k] \in Int
               /\ low[k] + high[k] = w * f1[k] + x * f2[k] + z * f3[k]
    <3> DEFINE m == kraus[k].matrix
               a == kraus[k].weight
               A == ApplyOperator(D, target, m)
               g1 == Gram(m, 1, 1)
               g2 == Gram(m, 1, 2)
               g3 == Gram(m, 2, 2)
    <3>1. low[k] \in Int /\ high[k] \in Int
      BY <2>1, TermIsInt
    <3>2. /\ low[k] = a * A[b][b] /\ high[k] = a * A[one][one]
          /\ A[b][b] \in Int /\ A[one][one] \in Int /\ a \in Int
      BY <2>1, TermIsInt
    <3>3. IsMatrix(m)
      BY DEF IsChannel
    <3>4. A[b][b] + A[one][one] = g1 * w + g2 * x + g3 * z
      BY <3>3, OperatorPair DEF Pair
    <3>5. f1[k] = a * g1 /\ f2[k] = a * g2 /\ f3[k] = a * g3
      BY DEF f1, f2, f3, Grams
    <3>6. g1 \in Int /\ g2 \in Int /\ g3 \in Int
      <4>1. m[1][1] \in Int /\ m[1][2] \in Int /\ m[2][1] \in Int /\ m[2][2] \in Int
        BY <3>3 DEF IsMatrix
      <4>2. \A i, j, p, q \in Int : i * j + p * q \in Int
        OBVIOUS
      <4>3. QED BY <4>1, <4>2 DEF Gram
    <3> DEFINE p == A[b][b]
               q == A[one][one]
    <3> HIDE DEF low, high, w, x, z, a, g1, g2, g3, p, q
    <3>7. \A i, j, k1, k2, k3, l1, l2, l3 \in Int :
            i * (k1 * l1 + k2 * l2 + k3 * l3)
              = l1 * (i * k1) + l2 * (i * k2) + l3 * (i * k3)
      OBVIOUS
    <3>8. p \in Int /\ q \in Int /\ low[k] = a * p /\ high[k] = a * q
          /\ p + q = g1 * w + g2 * x + g3 * z
      BY <3>2, <3>4 DEF p, q
    <3>9. \A i, j, l \in Int : i * j + i * l = i * (j + l)
      OBVIOUS
    <3>10. low[k] + high[k] = a * (p + q)
      BY <3>2, <3>8, <3>9
    <3>11. low[k] + high[k] = a * (g1 * w + g2 * x + g3 * z)
      BY <3>8, <3>10
    <3>12. a * (g1 * w + g2 * x + g3 * z) = w * (a * g1) + x * (a * g2) + z * (a * g3)
      BY <2>2, <3>2, <3>6, <3>7
    <3>13. QED BY <3>1, <3>5, <3>11, <3>12
  <2>5. \A k \in S : both[k] = low[k] + high[k] /\ part[k] = w * f1[k] + x * f2[k]
    OBVIOUS
  <2> HIDE DEF w, x, z, low, high, both, part
  <2>6. Sum(both, S) = 1 * Sum(low, S) + 1 * Sum(high, S)
    <3>1. \A k \in S : low[k] \in Int /\ high[k] \in Int /\ both[k] = 1 * low[k] + 1 * high[k]
      BY <2>4, <2>5
    <3>2. 1 \in Int
      OBVIOUS
    <3>3. QED BY <1>4, <3>1, <3>2, SumCombination
  <2>7. Sum(part, S) = w * Sum(f1, S) + x * Sum(f2, S)
    BY <1>3, <1>4, <2>2, <2>5, SumCombination
  <2>8. Sum(both, S) = 1 * Sum(part, S) + z * Sum(f3, S)
    <3>1. ASSUME NEW k \in S PROVE part[k] \in Int /\ both[k] = 1 * part[k] + z * f3[k]
      <4>1. \A i, j, p, q \in Int : i * j + p * q \in Int /\ i * j + p * q = 1 * (i * j + p * q)
        OBVIOUS
      <4>2. part[k] \in Int /\ part[k] = 1 * part[k]
        BY <1>3, <2>2, <2>5, <4>1
      <4>3. both[k] = part[k] + z * f3[k]
        BY <2>4, <2>5
      <4>4. QED BY <4>2, <4>3
    <3>2. 1 \in Int
      OBVIOUS
    <3>3. QED BY <1>3, <1>4, <2>2, <3>1, <3>2, SumCombination
  <2>9. Sum(low, S) \in Int /\ Sum(high, S) \in Int
    BY <1>4, <2>4, SumIsInt
  <2>10. Pair(E, target, b) = Sum(both, S)
    BY <2>3, <2>6, <2>9 DEF Pair
  <2>11. \A i, j, k, l \in Int : 1 * (i * k + j * 0) + l * k = k * (i + l)
    OBVIOUS
  <2>12. Sum(both, S) = 1 * (w * c + x * 0) + z * c
    BY <1>2, <2>7, <2>8
  <2>13. Pair(E, target, b) = c * (w + z)
    BY <1>2, <2>2, <2>10, <2>11, <2>12
  <2>14. Pair(D, target, b) = w + z
    BY DEF Pair, w, z
  <2>15. QED BY <2>13, <2>14
<1>6. Trace(E) = c * Trace(D)
  BY <1>1, <1>2, <1>5, TraceIsScaled
<1>7. QED BY <1>6 DEF E, c

-----------------------------------------------------------------------------
(* A replay of the circuit without its noise.                                *)

Scaled(D, c) == [row \in BasisStates |-> [col \in BasisStates |-> D[row][col] * c]]

LEMMA ScaledFacts ==
    ASSUME NEW D \in Densities, NEW c \in Int
    PROVE  /\ Scaled(D, c) \in Densities
           /\ \A row, col \in BasisStates : Scaled(D, c)[row][col] = D[row][col] * c
           /\ Trace(Scaled(D, c)) = c * Trace(D)
<1> DEFINE E == Scaled(D, c)
           d == Diagonal(D)
           e == Diagonal(E)
           S == BasisStates
<1>1. \A row, col \in S : E[row][col] = D[row][col] * c
  BY DEF Scaled
<1>2. \A row, col \in S : D[row][col] * c \in Int
  <2>1. \A i \in Int : i * c \in Int
    OBVIOUS
  <2>2. QED BY <2>1, DensityFacts
<1>3. E \in Densities
  BY <1>2 DEF Scaled, Densities, States
<1>4. ASSUME NEW b \in S PROVE d[b] \in Int /\ d[b] \in Int /\ e[b] = c * d[b] + 0 * d[b]
  <2>1. d[b] \in Int /\ d[b] = D[b][b] /\ e[b] = E[b][b]
    BY <1>3, TraceFacts
  <2>2. \A i \in Int : i * c = c * i + 0 * i
    OBVIOUS
  <2> HIDE DEF d, e, E
  <2>3. QED BY <1>1, <2>1, <2>2
<1> HIDE DEF d, e, E
<1>5. Sum(d, S) \in Int
  BY <1>4, BasisIsFinite, SumIsInt
<1>6. Sum(e, S) = c * Sum(d, S) + 0 * Sum(d, S)
  <2>1. 0 \in Int
    OBVIOUS
  <2>2. QED BY <1>4, <2>1, BasisIsFinite, SumCombination
<1>7. Sum(e, S) = c * Sum(d, S)
  BY <1>5, <1>6
<1>8. QED BY <1>1, <1>3, <1>7 DEF Trace, d, e, E

LEMMA ScaledIsMixed ==
    ASSUME NEW D \in Mixed, NEW c \in Nat
    PROVE  Scaled(D, c) \in Mixed
<1> DEFINE P == {X \in Densities : Scaled(X, c) \in Mixed}
<1>1. NullDensity \in P
  <2>1. NullDensity \in Densities /\ NullDensity \in Mixed
    BY MixedIsAdditive
  <2>2. \A row, col \in BasisStates : Scaled(NullDensity, c)[row][col] = NullDensity[row][col]
    BY DEF Scaled, NullDensity
  <2>3. Scaled(NullDensity, c) = NullDensity
    BY <2>1, <2>2, ScaledFacts, DensitiesEqual
  <2>4. QED BY <2>1, <2>3
<1>2. ASSUME NEW X \in P, NEW a \in Nat, NEW v \in States PROVE Plus(X, a, Outer(v)) \in P
  <2> DEFINE O == Outer(v)
             Y == Plus(X, a, O)
  <2>1. X \in Densities /\ O \in Densities /\ Y \in Densities /\ c \in Int /\ a \in Int
    BY OuterFacts, PlusFacts
  <2>2. a * c \in Nat /\ a * c \in Int
    OBVIOUS
  <2>3. Plus(Scaled(X, c), a * c, O) \in Mixed
    BY <2>2, MixedIsAdditive
  <2>4. Plus(Scaled(X, c), a * c, O) \in Densities
    BY <2>3, MixedIsAdditive
  <2> HIDE DEF O, Y
  <2>5. ASSUME NEW row \in BasisStates, NEW col \in BasisStates
        PROVE  Scaled(Y, c)[row][col] = Plus(Scaled(X, c), a * c, O)[row][col]
    <3>1. Scaled(Y, c)[row][col] = Y[row][col] * c
      BY <2>1, ScaledFacts
    <3>2. Y[row][col] = X[row][col] + a * O[row][col]
      BY <2>1, PlusEntry DEF Y
    <3>3. Plus(Scaled(X, c), a * c, O)[row][col] = Scaled(X, c)[row][col] + (a * c) * O[row][col]
      <4>1. Scaled(X, c) \in Densities
        BY <2>1, ScaledFacts
      <4>2. QED BY <2>1, <2>2, <4>1, PlusEntry
    <3>4. Scaled(X, c)[row][col] = X[row][col] * c
      BY <2>1, ScaledFacts
    <3>5. X[row][col] \in Int /\ O[row][col] \in Int
      BY <2>1, DensityFacts
    <3>6. \A x, o \in Int : (x + a * o) * c = x * c + (a * c) * o
      OBVIOUS
    <3>7. QED BY <3>1, <3>2, <3>3, <3>4, <3>5, <3>6
  <2>6. Scaled(Y, c) = Plus(Scaled(X, c), a * c, O)
    BY <2>1, <2>4, <2>5, ScaledFacts, DensitiesEqual
  <2>7. QED BY <2>1, <2>3, <2>6 DEF Y, O
<1>3. P \in SUBSET Densities
  OBVIOUS
<1>4. Additive(P)
  <2> HIDE DEF P
  <2>1. QED BY <1>1, <1>2 DEF Additive
<1>5. D \in P
  <2> HIDE DEF P
  <2>1. QED BY <1>3, <1>4, MixedHave
<1>6. QED BY <1>5

IdealAt(i, D) ==
    IF Measures(i) THEN D
    ELSE IF i \in ResetsAt THEN DensityReset(D, circuit[i].targets[1])
    ELSE IdealDensity(D, circuit[i])

Factor(i) == IF Measures(i) \/ i \in ResetsAt THEN 1 ELSE GateScale(circuit[i].opcode)

LEMMA IdealAtFacts ==
    ASSUME Arguments, NEW i \in DOMAIN circuit, NEW D \in Densities
    PROVE  /\ IdealAt(i, D) \in Densities
           /\ D \in Mixed => IdealAt(i, D) \in Mixed
           /\ Factor(i) \in Nat \ {0}
           /\ Trace(IdealAt(i, D)) = Factor(i) * Trace(D)
<1> DEFINE target == circuit[i].targets[1]
           ideal == IdealDensity(D, circuit[i])
           reset == DensityReset(D, target)
<1>1. circuit[i] \in AllocatedOperations /\ target \in Slots
  BY ArgumentFacts, FirstTarget
<1>2. Trace(D) \in Int /\ 1 * Trace(D) = Trace(D)
  <2>1. \A x \in Int : 1 * x = x
    OBVIOUS
  <2>2. QED BY <2>1, TraceFacts
<1>3. CASE Measures(i)
  <2>1. IdealAt(i, D) = D /\ Factor(i) = 1
    BY <1>3 DEF IdealAt, Factor
  <2>2. QED BY <1>2, <2>1
<1>4. CASE ~ Measures(i) /\ i \in ResetsAt
  <2>1. IdealAt(i, D) = reset /\ Factor(i) = 1
    BY <1>4 DEF IdealAt, Factor
  <2>2. reset \in Densities /\ Trace(reset) = Trace(D) /\ (D \in Mixed => reset \in Mixed)
    BY <1>1, DensityResetFacts, ResetTrace, ResetKeepsMixed
  <2> HIDE DEF reset
  <2>3. QED BY <1>2, <2>1, <2>2
<1>5. CASE ~ Measures(i) /\ i \notin ResetsAt
  <2> DEFINE g == circuit[i].opcode
  <2>1. IdealAt(i, D) = ideal /\ Factor(i) = GateScale(g)
    BY <1>5 DEF IdealAt, Factor
  <2>2. g \in Gates
    BY <1>5, BranchCases
  <2>3. ideal \in Densities /\ Trace(ideal) = GateScale(g) * Trace(D)
    BY <1>1, <2>2, IdealDensityFacts, IdealTrace
  <2>4. D \in Mixed => ideal \in Mixed
    BY <1>1, <2>2, GateKeepsMixed
  <2>5. GateScale(g) \in Nat \ {0}
    BY DEF GateScale
  <2> HIDE DEF ideal, g
  <2>6. QED BY <2>1, <2>3, <2>4, <2>5
<1>6. QED BY <1>3, <1>4, <1>5

\* What noise makes of an operation: more of the same trace.
LEMMA EvolvedTrace ==
    ASSUME Arguments, NEW i \in DOMAIN circuit, NEW D \in Densities
    PROVE  /\ ~ Noisy(i) => EvolvedAt(i, D) = IdealAt(i, D)
           /\ \E c \in Nat \ {0} : Trace(EvolvedAt(i, D)) = c * Trace(IdealAt(i, D))
<1>1. ~ Noisy(i) => EvolvedAt(i, D) = IdealAt(i, D)
  BY DEF EvolvedAt, IdealAt
<1>2. Trace(IdealAt(i, D)) \in Int
  BY IdealAtFacts, TraceFacts
<1>3. CASE ~ Noisy(i)
  <2>1. Trace(EvolvedAt(i, D)) = 1 * Trace(IdealAt(i, D)) /\ 1 \in Nat \ {0}
    BY <1>1, <1>2, <1>3
  <2>2. QED BY <1>1, <2>1
<1>4. CASE Noisy(i)
  <2> DEFINE target == circuit[i].targets[1]
             kraus == request.noise[circuit[i].opcode]
             ideal == IdealDensity(D, circuit[i])
             c == Completeness(kraus, 1, 1)
  <2>1. ~ Measures(i) /\ i \notin ResetsAt
    BY <1>4, BranchCases
  <2>2. IdealAt(i, D) = ideal /\ EvolvedAt(i, D) = ApplyChannel(ideal, target, kraus)
    BY <1>4, <2>1 DEF IdealAt, EvolvedAt
  <2>3. circuit[i].opcode \in DOMAIN request.noise /\ request \in Requests
    BY <1>4 DEF Noisy, Acts, Arguments
  <2>4. IsChannel(kraus) /\ target \in Slots
    BY <2>3, NoiseFacts, ArgumentFacts, FirstTarget
  <2>5. c > 0 /\ Completeness(kraus, 2, 2) = c /\ Completeness(kraus, 1, 2) = 0
    BY <2>3, ChannelsAreComplete
  <2>6. c \in Int
    BY <2>4, CompletenessIs
  <2>7. ideal \in Densities
    BY <2>2, IdealAtFacts
  <2> HIDE DEF ideal, kraus, target, c
  <2>8. Trace(ApplyChannel(ideal, target, kraus)) = c * Trace(ideal)
    BY <2>4, <2>5, <2>7, ChannelTrace DEF c
  <2>9. c \in Nat \ {0}
    BY <2>5, <2>6
  <2>10. QED BY <1>4, <2>2, <2>8, <2>9
<1>5. QED BY <1>3, <1>4

ReplayPath(w, n) ==
    /\ w \in [0 .. n -> Densities] /\ w[0] = GroundDensity
    /\ \A i \in 1 .. n : w[i] = IdealAt(i, w[i - 1])

LEMMA ReplayHasPath ==
    ASSUME Arguments, NEW n \in 0 .. Len(circuit)
    PROVE  \E w : ReplayPath(w, n)
<1> DEFINE step == [i \in 1 .. n |-> [D \in Densities |-> IdealAt(i, D)]]
<1>1. n \in Nat /\ 1 .. n \subseteq DOMAIN circuit
  BY ArgumentFacts
<1>2. step \in [1 .. n -> [Densities -> Densities]]
  BY <1>1, IdealAtFacts
<1>3. \A i \in 1 .. n : \A D \in Densities : step[i][D] = IdealAt(i, D)
  OBVIOUS
<1> HIDE DEF step
<1>4. PICK w \in [0 .. n -> Densities] : Advances(w, n, GroundDensity, step)
  BY <1>1, <1>2, GroundIsState, PrefixValues
<1>5. \A i \in 1 .. n : w[i - 1] \in Densities
  BY <1>1
<1>6. w[0] = GroundDensity /\ \A i \in 1 .. n : w[i] = step[i][w[i - 1]]
  BY <1>4 DEF Advances
<1>7. \A i \in 1 .. n : w[i] = IdealAt(i, w[i - 1])
  BY <1>3, <1>5, <1>6
<1>8. QED BY <1>4, <1>6, <1>7 DEF ReplayPath

LEMMA GroundTrace == Trace(GroundDensity) = 1
<1> DEFINE d == Diagonal(GroundDensity)
<1>1. {} \in BasisStates /\ {{}} \in SUBSET BasisStates
  BY DEF BasisStates
<1>2. \A b \in BasisStates : d[b] = IF b = {} THEN 1 ELSE 0
  BY DEF Diagonal, GroundDensity
<1> HIDE DEF d
<1>3. d[{}] = 1 /\ \A b \in {{}} : d[b] \in Int
  <2>1. d[{}] = 1
    BY <1>1, <1>2
  <2>2. QED BY <2>1
<1>4. \A b \in BasisStates \ {{}} : d[b] = 0
  BY <1>2
<1>5. Sum(d, BasisStates) = Sum(d, {{}})
  BY <1>1, <1>3, <1>4, BasisIsFinite, SumOfPart
<1>6. Sum(d, {{}}) = d[{}]
  BY <1>3, SumOfOne
<1>7. QED BY <1>3, <1>5, <1>6 DEF Trace, d

\* A replay is a mixture of positive trace; the run's trace is a multiple of it, and
\* before the first noise the run's matrix is the replay.
Replayed(w, n) ==
    /\ w[n] \in Mixed /\ Trace(w[n]) \in Nat \ {0}
    /\ \E c \in Nat \ {0} : Trace(Mixture(n)) = c * Trace(w[n])
    /\ (\A i \in 1 .. n : ~ Noisy(i)) => Mixture(n) = w[n]

LEMMA FirstReplayed ==
    ASSUME Arguments, NEW w, w[0] = GroundDensity
    PROVE  Replayed(w, 0)
<1>1. Mixture(0) = GroundDensity
  BY FirstMixture
<1>2. Trace(Mixture(0)) = 1 * Trace(w[0]) /\ 1 \in Nat \ {0}
  BY <1>1, GroundTrace
<1>3. QED BY <1>1, <1>2, GroundIsMixed, GroundTrace DEF Replayed

LEMMA NextReplayed ==
    ASSUME Arguments, NEW w, NEW n \in 0 .. Len(circuit) - 1, Replayed(w, n),
           w[n + 1] = IdealAt(n + 1, w[n])
    PROVE  Replayed(w, n + 1)
<1> DEFINE M == Mixture(n)
           N == Mixture(n + 1)
           i == n + 1
           D == w[n]
           E == w[i]
<1>1. i \in DOMAIN circuit /\ n \in Nat /\ n \in 0 .. Len(circuit)
  BY ArgumentFacts
<1>2. D \in Mixed /\ D \in Densities /\ Trace(D) \in Nat \ {0}
  BY MixedIsAdditive DEF Replayed
<1>3. M \in Densities /\ M \in Mixed
  BY <1>1, MixtureIsMixed, MixedIsAdditive
<1>4. EvolvedAt(i, M) = N
  BY EvolvedMixture
<1>5. PICK c \in Nat \ {0} : Trace(M) = c * Trace(D)
  BY DEF Replayed
<1>6. E = IdealAt(i, D)
  OBVIOUS
<1>7. (\A j \in 1 .. n : ~ Noisy(j)) => M = D
  BY DEF Replayed
<1> HIDE DEF D, E, M, N, i
<1>8. /\ IdealAt(i, M) \in Densities /\ Trace(IdealAt(i, M)) = Factor(i) * Trace(M)
      /\ E \in Mixed /\ Trace(E) = Factor(i) * Trace(D) /\ Factor(i) \in Nat \ {0}
  BY <1>1, <1>2, <1>3, <1>6, IdealAtFacts
<1>9. PICK k \in Nat \ {0} : Trace(N) = k * Trace(IdealAt(i, M))
  BY <1>1, <1>3, <1>4, EvolvedTrace
<1>10. Trace(E) \in Nat \ {0}
  <2>1. \A x, y \in Nat \ {0} : x * y \in Nat \ {0}
    OBVIOUS
  <2>2. QED BY <1>2, <1>8, <2>1
<1>11. Trace(N) = (k * c) * Trace(E) /\ k * c \in Nat \ {0}
  <2>1. \A a, b, f, t \in Int : a * (f * (b * t)) = (a * b) * (f * t)
    OBVIOUS
  <2>2. \A x, y \in Nat \ {0} : x * y \in Nat \ {0}
    OBVIOUS
  <2>3. Trace(N) = k * (Factor(i) * (c * Trace(D)))
    BY <1>5, <1>8, <1>9
  <2>4. Trace(N) = (k * c) * (Factor(i) * Trace(D))
    BY <1>2, <1>8, <2>1, <2>3
  <2>5. QED BY <1>8, <2>2, <2>4
<1>12. (\A j \in 1 .. i : ~ Noisy(j)) => N = E
  <2> SUFFICES ASSUME \A j \in 1 .. i : ~ Noisy(j) PROVE N = E
    OBVIOUS
  <2>1. (\A j \in 1 .. n : ~ Noisy(j)) /\ ~ Noisy(i)
    BY <1>1 DEF i
  <2>2. M = D /\ EvolvedAt(i, M) = IdealAt(i, M)
    BY <1>1, <1>3, <1>7, <2>1, EvolvedTrace
  <2>3. QED BY <1>4, <1>6, <2>2
<1>13. QED BY <1>8, <1>10, <1>11, <1>12 DEF Replayed, D, E, N, i

LEMMA ReplayFollows ==
    ASSUME Arguments, NEW w, ReplayPath(w, Len(circuit))
    PROVE  Replayed(w, Len(circuit))
<1> DEFINE L == Len(circuit)
           P == {n \in Nat : n <= L => Replayed(w, n)}
<1>1. L \in Nat
  BY ArgumentFacts
<1>2. 0 \in P
  BY FirstReplayed DEF ReplayPath
<1>3. ASSUME NEW n \in Nat, n \in P PROVE n + 1 \in P
  <2>1. CASE n + 1 <= L
    <3>1. Replayed(w, n) /\ n \in 0 .. Len(circuit) - 1 /\ n + 1 \in 1 .. L /\ (n + 1) - 1 = n
      BY <1>1, <1>3, <2>1
    <3>2. w[n + 1] = IdealAt(n + 1, w[n])
      BY <3>1 DEF ReplayPath
    <3>3. Replayed(w, n + 1)
      BY <3>1, <3>2, NextReplayed
    <3>4. QED BY <3>3
  <2>2. QED BY <2>1
<1>4. Nat \subseteq P
  <2> HIDE DEF P
  <2>1. QED BY <1>2, <1>3, SetInduction
<1>5. QED BY <1>1, <1>4

-----------------------------------------------------------------------------
(* The density engine notes the noise of every noisy operation it has passed. *)

NoiseIsNoted ==
    Engine = "density" =>
        /\ \E S : noiseEvents \in Seq(S)
        /\ {noiseEvents[k].op : k \in DOMAIN noiseEvents} = {i \in 1 .. pc - 1 : Noisy(i)}

LEMMA InitEstablishesNoise == ExecutionInit => NoiseIsNoted
<1> SUFFICES ASSUME ExecutionInit PROVE NoiseIsNoted
  OBVIOUS
<1>1. pc = 1 /\ noiseEvents = <<>>
  BY DEF ExecutionInit
<1>2. 1 .. pc - 1 = {}
  BY <1>1
<1>3. noiseEvents \in Seq({}) /\ DOMAIN noiseEvents = {}
  BY <1>1, EmptySeq
<1>4. QED BY <1>2, <1>3 DEF NoiseIsNoted

LEMMA KeepingKeepsNoise ==
    ASSUME NoiseIsNoted, UNCHANGED <<circuit, request, noiseEvents>>,
           Engine = "density" => UNCHANGED pc
    PROVE  NoiseIsNoted'
<1> SUFFICES ASSUME Engine = "density"
             PROVE  /\ \E S : noiseEvents' \in Seq(S)
                    /\ {noiseEvents'[k].op : k \in DOMAIN noiseEvents'}
                         = {i \in 1 .. pc' - 1 : Noisy(i)'}
  BY DEF NoiseIsNoted, Engine
<1>1. \A i : Noisy(i)' <=> Noisy(i)
  BY StepsStay
<1>2. pc' = pc /\ noiseEvents' = noiseEvents
  OBVIOUS
<1>3. {i \in 1 .. pc' - 1 : Noisy(i)'} = {i \in 1 .. pc - 1 : Noisy(i)}
  BY <1>1, <1>2
<1>4. QED BY <1>2, <1>3 DEF NoiseIsNoted

LEMMA LoopKeepsNoise == Progress /\ NoiseIsNoted /\ LoopStep => NoiseIsNoted'
<1> SUFFICES ASSUME Progress, NoiseIsNoted, LoopStep PROVE NoiseIsNoted'
  OBVIOUS
<1>1. CASE RefuseReset \/ RefuseEvolution \/ DrawBeyondMass
  BY <1>1, KeepingKeepsNoise DEF RefuseReset, RefuseEvolution, DrawBeyondMass, Abort
<1>2. CASE ExactOperation
  BY <1>2, KeepingKeepsNoise DEF ExactOperation
<1>3. CASE DensityOperation
  <2> DEFINE event == [op |-> pc, slot |-> Operation.targets[1]]
  <2>1. /\ Running /\ Engine = "density" /\ pc' = pc + 1 /\ UNCHANGED <<circuit, request>>
        /\ noiseEvents' = IF NoisyGate THEN Append(noiseEvents, event) ELSE noiseEvents
    BY <1>3 DEF DensityOperation
  <2>2. /\ {i \in 1 .. pc' - 1 : Noisy(i)'} = {i \in (1 .. pc - 1) \union {pc} : Noisy(i)}
    <3>1. \A i : Noisy(i)' <=> Noisy(i)
      BY <2>1, StepsStay
    <3>2. 1 .. pc' - 1 = (1 .. pc - 1) \union {pc}
      BY <2>1, RunningFacts
    <3>3. QED BY <3>1, <3>2
  <2>3. NoisyGate <=> Noisy(pc)
    BY DEF NoisyGate, Noisy, Acts, Operation
  <2>4. PICK S : noiseEvents \in Seq(S)
    BY <2>1 DEF NoiseIsNoted
  <2>5. {noiseEvents[k].op : k \in DOMAIN noiseEvents} = {i \in 1 .. pc - 1 : Noisy(i)}
    BY <2>1 DEF NoiseIsNoted
  <2>6. CASE ~ NoisyGate
    <3>1. {i \in 1 .. pc' - 1 : Noisy(i)'} = {i \in 1 .. pc - 1 : Noisy(i)}
      BY <2>2, <2>3, <2>6
    <3>2. noiseEvents' = noiseEvents
      BY <2>1, <2>6
    <3>3. QED BY <2>4, <2>5, <3>1, <3>2 DEF NoiseIsNoted
  <2>7. CASE NoisyGate
    <3> DEFINE n == Len(noiseEvents)
    <3>1. noiseEvents' = Append(noiseEvents, event)
      BY <2>1, <2>7
    <3>2. event.op = pc
      OBVIOUS
    <3> HIDE DEF event
    <3>3. /\ noiseEvents' \in Seq(S \union {event}) /\ n \in Nat
          /\ DOMAIN noiseEvents = 1 .. n /\ DOMAIN noiseEvents' = 1 .. n + 1
          /\ \A k \in 1 .. n : noiseEvents'[k] = noiseEvents[k]
          /\ noiseEvents'[n + 1] = event
      BY <2>4, <3>1, AppendFacts
    <3>4. 1 .. n + 1 = (1 .. n) \union {n + 1}
      BY <3>3
    <3>5. {noiseEvents'[k].op : k \in DOMAIN noiseEvents'}
            = {noiseEvents[k].op : k \in DOMAIN noiseEvents} \union {pc}
      BY <3>2, <3>3, <3>4
    <3>6. {i \in 1 .. pc' - 1 : Noisy(i)'} = {i \in 1 .. pc - 1 : Noisy(i)} \union {pc}
      BY <2>2, <2>3, <2>7
    <3>7. {noiseEvents'[k].op : k \in DOMAIN noiseEvents'} = {i \in 1 .. pc' - 1 : Noisy(i)'}
      BY <2>5, <3>5, <3>6
    <3>8. QED BY <3>3, <3>7 DEF NoiseIsNoted
  <2>8. QED BY <2>6, <2>7
<1>4. CASE SampledGate \/ SampledMeasure \/ SampledReset
  BY <1>4, KeepingKeepsNoise DEF SampledGate, SampledMeasure, SampledReset, CanEvolve
<1>5. CASE FinishShot
  BY <1>5, KeepingKeepsNoise DEF FinishShot
<1>6. CASE FinishExecution
  BY <1>6, KeepingKeepsNoise DEF FinishExecution
<1>7. QED BY <1>1, <1>2, <1>3, <1>4, <1>5, <1>6 DEF LoopStep

-----------------------------------------------------------------------------
(* The invariant of an execution.                                          *)

ExecutionIInv ==
    /\ ControlIInv /\ TraceIInv /\ ValuesIInv
    /\ DensityIsMixture /\ TrajectoryIInv /\ PersistIInv /\ NoiseIsNoted

LEMMA InitEstablishesExecution == ExecutionInit => ExecutionIInv
BY InitEstablishesControl, InitEstablishesTrace, InitEstablishesValues, InitEstablishesMixture,
   InitEstablishesTrajectory, InitEstablishesPersistence, InitEstablishesNoise DEF ExecutionIInv

\* A step that only changes the status keeps what the engines computed.
LEMMA KeepingKeepsComputed ==
    ASSUME ExecutionIInv,
           UNCHANGED <<circuit, request, pc, state, density, observed, lossy, measured, resets,
                       shots, noiseEvents>>
    PROVE  ValuesIInv' /\ DensityIsMixture' /\ TrajectoryIInv' /\ PersistIInv' /\ NoiseIsNoted'
<1>1. ValuesIInv'
  BY KeepingKeepsValues DEF ExecutionIInv
<1>2. DensityIsMixture'
  BY KeepingKeepsMixture DEF ExecutionIInv
<1>3. TrajectoryIInv'
  BY KeepingKeepsTrajectory DEF ExecutionIInv
<1>4. PersistIInv'
  BY KeepingKeepsPersistence DEF ExecutionIInv
<1>5. NoiseIsNoted'
  BY KeepingKeepsNoise DEF ExecutionIInv
<1>6. QED BY <1>1, <1>2, <1>3, <1>4, <1>5

LEMMA EngineKeepsExecution == ExecutionIInv /\ EngineStep => ExecutionIInv'
<1> SUFFICES ASSUME ExecutionIInv, EngineStep PROVE ExecutionIInv'
  OBVIOUS
<1>1. Progress
  BY DEF ExecutionIInv, ControlIInv
<1>2. CASE Start
  <2>1. ControlIInv' /\ TraceIInv'
    BY <1>2, StartKeepsControl, StartKeepsTrace DEF ExecutionIInv
  <2>2. ValuesIInv' /\ DensityIsMixture' /\ TrajectoryIInv' /\ PersistIInv' /\ NoiseIsNoted'
    BY <1>2, KeepingKeepsComputed DEF Start
  <2>3. QED BY <2>1, <2>2 DEF ExecutionIInv
<1>3. CASE LoopStep
  <2>1. ControlIInv' /\ TraceIInv' /\ ValuesIInv'
    BY <1>3, LoopKeepsControl, LoopKeepsTrace, LoopKeepsValues DEF ExecutionIInv
  <2>2. DensityIsMixture' /\ TrajectoryIInv' /\ PersistIInv' /\ NoiseIsNoted'
    BY <1>1, <1>3, LoopKeepsMixture, LoopKeepsTrajectory, LoopKeepsPersistence,
       LoopKeepsNoise DEF ExecutionIInv
  <2>3. QED BY <2>1, <2>2 DEF ExecutionIInv
<1>4. QED BY <1>2, <1>3, EngineStepIsLoopStep

LEMMA StutterKeepsExecution == ExecutionIInv /\ UNCHANGED executionVars => ExecutionIInv'
<1> SUFFICES ASSUME ExecutionIInv, UNCHANGED executionVars PROVE ExecutionIInv'
  OBVIOUS
<1>1. ControlIInv' /\ TraceIInv'
  BY StutterKeepsControl, StutterKeepsTrace DEF ExecutionIInv
<1>2. ValuesIInv' /\ DensityIsMixture' /\ TrajectoryIInv' /\ PersistIInv' /\ NoiseIsNoted'
  BY KeepingKeepsComputed DEF executionVars
<1>3. QED BY <1>1, <1>2 DEF ExecutionIInv

\* The engines follow pure trajectories.
LEMMA TrajectoriesHold == ExecutionIInv => TrajectoriesAgree
<1> SUFFICES ASSUME ExecutionIInv PROVE TrajectoriesAgree
  OBVIOUS
<1>1. Arguments
  BY DEF ExecutionIInv, ControlIInv, Progress
<1>2. CollapseIsProjection
  BY <1>1, ProjectionIsCollapse DEF ExecutionIInv
<1>3. UndisturbedBitsPersist
  BY PersistenceHolds DEF ExecutionIInv
<1>4. QED BY <1>2, <1>3 DEF TrajectoriesAgree, ExecutionIInv

-----------------------------------------------------------------------------
(* Entanglement.  A slot is separable from the others if the amplitudes with *)
(* it at one are a multiple of those with it at zero.                        *)

Minor(v, slot, b, c) ==
    v[b \ {slot}] * v[c \union {slot}] - v[c \ {slot}] * v[b \union {slot}]

Separable(v, slot) == \A b, c \in BasisStates : Minor(v, slot, b, c) = 0

LEMMA AmplitudesAreInt ==
    ASSUME NEW v \in States, NEW slot \in Slots, NEW b \in BasisStates
    PROVE  v[b] \in Int /\ v[b \ {slot}] \in Int /\ v[b \union {slot}] \in Int
BY BasisFacts DEF States

LEMMA NoZeroDivisor ==
    ASSUME NEW i \in Int, i # 0, NEW j \in Int, NEW k \in Int, i * j = i * k
    PROVE  j = k
<1>1. \A a, b \in Int : a # 0 /\ a * b = 0 => b = 0
  OBVIOUS
<1>2. \A a, b, c \in Int : a * (b - c) = a * b - a * c
  OBVIOUS
<1>3. i * (j - k) = 0
  <2>1. i * (j - k) = i * j - i * k
    BY <1>2
  <2>2. i * k \in Int
    OBVIOUS
  <2>3. \A a, b \in Int : a = b => a - b = 0
    OBVIOUS
  <2>4. QED BY <2>1, <2>2, <2>3
<1>4. j - k \in Int /\ j - k = 0
  BY <1>1, <1>3
<1>5. QED BY <1>4

\* The sums of two vectors' squares and products: Cauchy's inequality is an equation
\* exactly for vectors that are multiples of one vector.
LEMMA ParallelVectors ==
    ASSUME NEW S, IsFiniteSet(S), NEW x, NEW y, NEW xx, NEW yy, NEW xy,
           \A c \in S : /\ x[c] \in Int /\ y[c] \in Int
                        /\ xx[c] = x[c] * x[c] /\ yy[c] = y[c] * y[c] /\ xy[c] = x[c] * y[c]
    PROVE  Sum(xx, S) * Sum(yy, S) = Sum(xy, S) * Sum(xy, S)
              <=> \A b, c \in S : x[b] * y[c] = x[c] * y[b]
<1> DEFINE zero == Sum(xx, S)
           one == Sum(yy, S)
           off == Sum(xy, S)
<1>1. \A i, j \in Int : i * j \in Int /\ i * i \in Nat /\ (i * i = 0 => i = 0)
  OBVIOUS
<1>2. \A c \in S : /\ xx[c] \in Nat /\ yy[c] \in Nat /\ xy[c] \in Int
                   /\ xx[c] \in Int /\ yy[c] \in Int
  BY <1>1
<1>3. zero \in Nat /\ one \in Nat /\ off \in Int
  BY <1>2, SumOfNaturals, SumIsInt
<1> HIDE DEF zero, one, off
<1>4. ASSUME zero = 0 PROVE \A c \in S : x[c] = 0
  <2> SUFFICES ASSUME NEW c \in S, x[c] # 0 PROVE FALSE
    OBVIOUS
  <2>1. xx[c] > 0
    <3>1. \A i \in Int : i # 0 => i * i > 0
      OBVIOUS
    <3>2. QED BY <3>1
  <2>2. zero > 0
    BY <1>2, <2>1, SumPositive DEF zero
  <2>3. QED BY <1>4, <2>2
<1>5. ASSUME \A c \in S : x[c] = 0 PROVE zero = 0 /\ off = 0
  <2>1. \A i \in Int : 0 * i = 0
    OBVIOUS
  <2>2. \A c \in S : xx[c] = 0 /\ xy[c] = 0
    BY <1>5, <2>1
  <2>3. QED BY <2>2, SumOfZeros DEF zero, off
<1>6. ASSUME \A b, c \in S : x[b] * y[c] = x[c] * y[b] PROVE zero * one = off * off
  <2>1. CASE \A c \in S : x[c] = 0
    BY <1>3, <1>5, <2>1
  <2>2. CASE \E c \in S : x[c] # 0
    <3>1. PICK b \in S : x[b] # 0
      BY <2>2
    <3> DEFINE p == x[b]
               q == y[b]
    <3>2. p \in Int /\ q \in Int /\ p # 0
      BY <3>1
    <3>3. \A c \in S : p * y[c] = q * x[c]
      <4>1. \A i, j \in Int : i * j = j * i
        OBVIOUS
      <4>2. QED BY <1>6, <3>2, <4>1
    <3> HIDE DEF p, q
    <3>4. p * off = q * zero
      <4> DEFINE h == [c \in S |-> p * xy[c]]
      <4>1. \A c \in S : h[c] = p * xy[c] + 0 * xy[c]
        <5>1. \A i, j \in Int : i * j = i * j + 0 * j
          OBVIOUS
        <5>2. QED BY <1>2, <3>2, <5>1
      <4>2. \A c \in S : h[c] = q * xx[c] + 0 * xx[c]
        <5>1. \A i, j, k \in Int : /\ i * (j * k) = (i * k) * j
                                   /\ (i * j) * k = i * (j * k) + 0 * (j * k)
          OBVIOUS
        <5>2. ASSUME NEW c \in S PROVE h[c] = q * xx[c] + 0 * xx[c]
          <6>1. p * y[c] = q * x[c] /\ x[c] \in Int /\ y[c] \in Int
            BY <3>3
          <6>2. h[c] = p * (x[c] * y[c]) /\ xx[c] = x[c] * x[c]
            OBVIOUS
          <6> HIDE DEF h
          <6>3. p * (x[c] * y[c]) = (p * y[c]) * x[c]
            BY <3>2, <5>1, <6>1
          <6>4. (q * x[c]) * x[c] = q * (x[c] * x[c]) + 0 * (x[c] * x[c])
            BY <3>2, <5>1, <6>1
          <6>5. QED BY ONLY <6>1, <6>2, <6>3, <6>4
        <5>3. QED BY <5>2
      <4> HIDE DEF h
      <4>3. Sum(h, S) = p * off + 0 * off
        <5>1. 0 \in Int /\ \A c \in S : /\ xy[c] \in Int /\ xy[c] \in Int
                                        /\ h[c] = p * xy[c] + 0 * xy[c]
          BY <1>2, <4>1
        <5>2. QED BY <3>2, <5>1, SumCombination DEF off
      <4>4. Sum(h, S) = q * zero + 0 * zero
        <5>1. 0 \in Int /\ \A c \in S : /\ xx[c] \in Int /\ xx[c] \in Int
                                        /\ h[c] = q * xx[c] + 0 * xx[c]
          BY <1>2, <4>2
        <5>2. QED BY <3>2, <5>1, SumCombination DEF zero
      <4>5. \A i, j, k, l \in Int : i * j + 0 * j = k * l + 0 * l => i * j = k * l
        OBVIOUS
      <4>6. QED BY <1>3, <3>2, <4>3, <4>4, <4>5
    <3>5. p * one = q * off
      <4> DEFINE h == [c \in S |-> p * yy[c]]
      <4>1. \A c \in S : h[c] = p * yy[c] + 0 * yy[c]
        <5>1. \A i, j \in Int : i * j = i * j + 0 * j
          OBVIOUS
        <5>2. QED BY <1>2, <3>2, <5>1
      <4>2. \A c \in S : h[c] = q * xy[c] + 0 * xy[c]
        <5>1. \A i, j, k \in Int : /\ i * (k * k) = (i * k) * k
                                   /\ (i * j) * k = i * (j * k) + 0 * (j * k)
          OBVIOUS
        <5>2. ASSUME NEW c \in S PROVE h[c] = q * xy[c] + 0 * xy[c]
          <6>1. p * y[c] = q * x[c] /\ x[c] \in Int /\ y[c] \in Int
            BY <3>3
          <6>2. h[c] = p * (y[c] * y[c]) /\ xy[c] = x[c] * y[c]
            OBVIOUS
          <6> HIDE DEF h
          <6>3. p * (y[c] * y[c]) = (p * y[c]) * y[c]
            BY <3>2, <5>1, <6>1
          <6>4. (q * x[c]) * y[c] = q * (x[c] * y[c]) + 0 * (x[c] * y[c])
            BY <3>2, <5>1, <6>1
          <6>5. QED BY ONLY <6>1, <6>2, <6>3, <6>4
        <5>3. QED BY <5>2
      <4> HIDE DEF h
      <4>3. Sum(h, S) = p * one + 0 * one
        <5>1. 0 \in Int /\ \A c \in S : /\ yy[c] \in Int /\ yy[c] \in Int
                                        /\ h[c] = p * yy[c] + 0 * yy[c]
          BY <1>2, <4>1
        <5>2. QED BY <3>2, <5>1, SumCombination DEF one
      <4>4. Sum(h, S) = q * off + 0 * off
        <5>1. 0 \in Int /\ \A c \in S : /\ xy[c] \in Int /\ xy[c] \in Int
                                        /\ h[c] = q * xy[c] + 0 * xy[c]
          BY <1>2, <4>2
        <5>2. QED BY <3>2, <5>1, SumCombination DEF off
      <4>5. \A i, j, k, l \in Int : i * j + 0 * j = k * l + 0 * l => i * j = k * l
        OBVIOUS
      <4>6. QED BY <1>3, <3>2, <4>3, <4>4, <4>5
    <3>6. p * (zero * one) = p * (off * off)
      <4>1. \A i, j, k \in Int : i * (j * k) = j * (i * k) /\ i * (j * k) = (i * j) * k
        OBVIOUS
      <4>2. p * (zero * one) = zero * (p * one)
        BY <1>3, <3>2, <4>1
      <4>3. zero * (q * off) = q * (zero * off) /\ q * (zero * off) = (q * zero) * off
        BY <1>3, <3>2, <4>1
      <4>4. p * (off * off) = (p * off) * off
        BY <1>3, <3>2, <4>1
      <4>5. QED BY ONLY <3>4, <3>5, <4>2, <4>3, <4>4
    <3>7. zero * one \in Int /\ off * off \in Int
      BY <1>1, <1>3
    <3>8. QED BY <3>2, <3>6, <3>7, NoZeroDivisor
  <2>3. QED BY <2>1, <2>2
<1>7. ASSUME zero * one = off * off PROVE \A b, c \in S : x[b] * y[c] = x[c] * y[b]
  <2>1. CASE zero = 0
    <3>1. \A c \in S : x[c] = 0 /\ y[c] \in Int
      BY <1>4, <2>1
    <3>2. \A i \in Int : 0 * i = 0
      OBVIOUS
    <3>3. QED BY <3>1, <3>2
  <2>2. CASE zero # 0
    <3> DEFINE z == [c \in S |-> zero * y[c] - off * x[c]]
               zz == [c \in S |-> z[c] * z[c]]
               g == [c \in S |-> zero * yy[c] - (2 * off) * xy[c]]
    <3>1. \A c \in S : z[c] \in Int /\ z[c] = zero * y[c] - off * x[c]
      BY <1>3
    <3>2. \A c \in S : g[c] \in Int /\ g[c] = zero * yy[c] + (- (2 * off)) * xy[c]
      <4>1. \A i, j, k, l \in Int : /\ i * j - (2 * k) * l \in Int
                                    /\ i * j - (2 * k) * l = i * j + (- (2 * k)) * l
        OBVIOUS
      <4>2. QED BY <1>2, <1>3, <4>1
    <3>3. \A c \in S : zz[c] \in Nat /\ zz[c] = zero * g[c] + (off * off) * xx[c]
      <4>1. \A i, k, j, l \in Int :
               (i * j - k * l) * (i * j - k * l)
                  = i * (i * (j * j) - (2 * k) * (l * j)) + (k * k) * (l * l)
        OBVIOUS
      <4>2. ASSUME NEW c \in S PROVE zz[c] \in Nat /\ zz[c] = zero * g[c] + (off * off) * xx[c]
        <5>1. zz[c] = z[c] * z[c] /\ z[c] \in Int
          BY <3>1
        <5>2. zz[c] \in Nat
          BY <1>1, <5>1
        <5>3. z[c] = zero * y[c] - off * x[c] /\ x[c] \in Int /\ y[c] \in Int
          BY <3>1
        <5>4. /\ g[c] = zero * (y[c] * y[c]) - (2 * off) * (x[c] * y[c])
              /\ xx[c] = x[c] * x[c]
          OBVIOUS
        <5> HIDE DEF z, zz, g
        <5>5. (zero * y[c] - off * x[c]) * (zero * y[c] - off * x[c])
                 = zero * (zero * (y[c] * y[c]) - (2 * off) * (x[c] * y[c]))
                     + (off * off) * (x[c] * x[c])
          BY <1>3, <4>1, <5>3
        <5>6. zz[c] = zero * g[c] + (off * off) * xx[c]
          BY <5>1, <5>3, <5>4, <5>5
        <5>7. QED BY <5>2, <5>6
      <4>3. QED BY <4>2
    <3> DEFINE a == - (2 * off)
               d == off * off
    <3> HIDE DEF z, zz, g
    <3>4. Sum(g, S) = zero * one + a * off
      <4>1. zero \in Int /\ a \in Int
        BY <1>3
      <4>2. \A c \in S : /\ yy[c] \in Int /\ xy[c] \in Int
                         /\ g[c] = zero * yy[c] + a * xy[c]
        BY <1>2, <3>2
      <4> HIDE DEF a
      <4>3. Sum(g, S) = zero * Sum(yy, S) + a * Sum(xy, S)
        BY <4>1, <4>2, SumCombination
      <4>4. QED BY <4>3 DEF one, off
    <3>5. Sum(zz, S) = zero * Sum(g, S) + d * zero
      <4>1. zero \in Int /\ d \in Int
        BY <1>3
      <4>2. \A c \in S : /\ g[c] \in Int /\ xx[c] \in Int
                         /\ zz[c] = zero * g[c] + d * xx[c]
        BY <1>2, <3>2, <3>3
      <4> HIDE DEF d
      <4>3. Sum(zz, S) = zero * Sum(g, S) + d * Sum(xx, S)
        BY <4>1, <4>2, SumCombination
      <4>4. QED BY <4>3 DEF zero
    <3>6. Sum(zz, S) = 0
      <4>1. \A i, j, k \in Int :
               i * j = k * k => i * (i * j + (- (2 * k)) * k) + (k * k) * i = 0
        <5> SUFFICES ASSUME NEW i \in Int, NEW j \in Int, NEW k \in Int, i * j = k * k
                     PROVE  i * (i * j + (- (2 * k)) * k) + (k * k) * i = 0
          OBVIOUS
        <5>1. i * (i * j + (- (2 * k)) * k) = i * (k * k + (- (2 * k)) * k)
          BY ONLY i * j = k * k
        <5>2. i * (k * k + (- (2 * k)) * k) + (k * k) * i = 0
          BY ONLY i \in Int, k \in Int
        <5>3. QED BY ONLY <5>1, <5>2
      <4>2. QED BY <1>3, <1>7, <3>4, <3>5, <4>1
    <3>7. ASSUME NEW c \in S PROVE zero * y[c] = off * x[c]
      <4>1. z[c] = 0
        <5> SUFFICES ASSUME z[c] # 0 PROVE FALSE
          OBVIOUS
        <5>1. zz[c] > 0
          <6>1. \A i \in Int : i # 0 => i * i > 0
            OBVIOUS
          <6>2. zz[c] = z[c] * z[c]
            BY DEF zz
          <6>3. QED BY <3>1, <6>1, <6>2
        <5>2. Sum(zz, S) > 0
          BY <3>3, <5>1, SumPositive
        <5>3. QED BY <3>6, <5>2
      <4>2. \A i, j \in Int : i - j = 0 => i = j
        OBVIOUS
      <4>3. zero * y[c] \in Int /\ off * x[c] \in Int
        BY <1>1, <1>3
      <4>4. QED BY <3>1, <4>1, <4>2, <4>3
    <3>8. ASSUME NEW b \in S, NEW c \in S PROVE x[b] * y[c] = x[c] * y[b]
      <4>1. zero * (x[b] * y[c]) = zero * (x[c] * y[b])
        <5>1. \A i, j, k \in Int : i * (j * k) = j * (i * k)
          OBVIOUS
        <5>2. zero * (x[b] * y[c]) = x[b] * (zero * y[c])
          BY <1>3, <5>1
        <5>3. zero * (x[c] * y[b]) = x[c] * (zero * y[b])
          BY <1>3, <5>1
        <5>4. x[b] * (off * x[c]) = x[c] * (off * x[b])
          <6>1. \A i, j, k \in Int : i * (j * k) = k * (j * i)
            OBVIOUS
          <6>2. QED BY <1>3, <6>1
        <5>5. x[b] * (zero * y[c]) = x[b] * (off * x[c])
          BY <3>7
        <5>6. x[c] * (zero * y[b]) = x[c] * (off * x[b])
          BY <3>7
        <5>7. QED BY ONLY <5>2, <5>3, <5>4, <5>5, <5>6
      <4>2. x[b] * y[c] \in Int /\ x[c] * y[b] \in Int
        BY <1>1
      <4> DEFINE l == x[b] * y[c]
                 r == x[c] * y[b]
      <4>3. zero * l = zero * r /\ l \in Int /\ r \in Int /\ zero \in Int
        BY <1>3, <4>1, <4>2
      <4> HIDE DEF l, r
      <4>4. l = r
        BY <2>2, <4>3, NoZeroDivisor
      <4>5. QED BY <4>4 DEF l, r
    <3>9. QED BY <3>8
  <2>3. QED BY <2>1, <2>2
<1>8. QED BY <1>6, <1>7 DEF zero, one, off

\* A gate on a pair of amplitudes.
LEMMA SingleOnPair ==
    ASSUME NEW v \in States, NEW target \in Slots, NEW m, IsMatrix(m), NEW b \in BasisStates
    PROVE  /\ ApplySingle(v, target, m)[b \ {target}]
                = m[1][1] * v[b \ {target}] + m[1][2] * v[b \union {target}]
           /\ ApplySingle(v, target, m)[b \union {target}]
                = m[2][1] * v[b \ {target}] + m[2][2] * v[b \union {target}]
<1> DEFINE lo == b \ {target}
           hi == b \union {target}
           w == ApplySingle(v, target, m)
<1>1. lo \in BasisStates /\ hi \in BasisStates
  BY BasisFacts
<1>2. /\ target \notin lo /\ lo \ {target} = lo /\ lo \union {target} = hi
      /\ target \in hi /\ hi \ {target} = lo /\ hi \union {target} = hi
  OBVIOUS
<1> HIDE DEF lo, hi
<1>3. w[lo] = Line(m, target, lo)[1] * v[lo] + Line(m, target, lo)[2] * v[hi]
  BY <1>1, <1>2, SingleFacts
<1>4. w[hi] = Line(m, target, hi)[1] * v[lo] + Line(m, target, hi)[2] * v[hi]
  BY <1>1, <1>2, SingleFacts
<1>5. Line(m, target, lo) = m[1] /\ Line(m, target, hi) = m[2]
  BY <1>2 DEF Line
<1>6. QED BY <1>3, <1>4, <1>5 DEF lo, hi

Det(m) == m[1][1] * m[2][2] - m[1][2] * m[2][1]

\* A gate of one slot is linear, so that no minor of a separable slot is left.
LEMMA SingleKeepsSeparable ==
    ASSUME NEW v \in States, NEW target \in Slots, NEW slot \in Slots, NEW m, IsMatrix(m),
           Separable(v, slot)
    PROVE  Separable(ApplySingle(v, target, m), slot)
<1> DEFINE w == ApplySingle(v, target, m)
<1> SUFFICES ASSUME NEW b \in BasisStates, NEW c \in BasisStates PROVE Minor(w, slot, b, c) = 0
  BY DEF Separable
<1>1. CASE target = slot
  <2> DEFINE p == m[1][1]
             q == m[1][2]
             r == m[2][1]
             s == m[2][2]
             x == v[b \ {slot}]
             y == v[b \union {slot}]
             f == v[c \ {slot}]
             g == v[c \union {slot}]
  <2>1. /\ p \in Int /\ q \in Int /\ r \in Int /\ s \in Int
        /\ x \in Int /\ y \in Int /\ f \in Int /\ g \in Int
    BY AmplitudesAreInt DEF IsMatrix
  <2>2. /\ w[b \ {slot}] = p * x + q * y /\ w[b \union {slot}] = r * x + s * y
        /\ w[c \ {slot}] = p * f + q * g /\ w[c \union {slot}] = r * f + s * g
    BY <1>1, SingleOnPair
  <2>3. x * g - f * y = 0
    BY DEF Separable, Minor
  <2>4. Minor(w, slot, b, c)
          = (p * x + q * y) * (r * f + s * g) - (p * f + q * g) * (r * x + s * y)
    BY <2>2 DEF Minor
  <2>5. \A p1, q1, r1, s1, x1, y1, f1, g1 \in Int :
           (p1 * x1 + q1 * y1) * (r1 * f1 + s1 * g1) - (p1 * f1 + q1 * g1) * (r1 * x1 + s1 * y1)
             = (p1 * s1 - q1 * r1) * (x1 * g1 - f1 * y1)
    OBVIOUS
  <2>6. \A i, j \in Int : j = 0 => i * j = 0
    OBVIOUS
  <2> HIDE DEF w, p, q, r, s, x, y, f, g
  <2>7. Minor(w, slot, b, c) = (p * s - q * r) * (x * g - f * y)
    BY <2>1, <2>4, <2>5
  <2>8. p * s - q * r \in Int /\ x * g - f * y \in Int
    <3>1. \A i, j, k, l \in Int : i * j - k * l \in Int
      OBVIOUS
    <3>2. QED BY <2>1, <3>1
  <2>9. QED BY <2>3, <2>6, <2>7, <2>8
<1>2. CASE target # slot
  <2> DEFINE bl == b \ {target}
             bh == b \union {target}
             cl == c \ {target}
             ch == c \union {target}
             p == Line(m, target, b)[1]
             q == Line(m, target, b)[2]
             r == Line(m, target, c)[1]
             s == Line(m, target, c)[2]
  <2>1. /\ bl \in BasisStates /\ bh \in BasisStates /\ cl \in BasisStates /\ ch \in BasisStates
        /\ b \ {slot} \in BasisStates /\ b \union {slot} \in BasisStates
        /\ c \ {slot} \in BasisStates /\ c \union {slot} \in BasisStates
    BY BasisFacts
  <2>2. p \in Int /\ q \in Int /\ r \in Int /\ s \in Int
    BY LineFacts
  <2>3. ASSUME NEW a \in BasisStates
        PROVE  /\ w[a \ {slot}] = Line(m, target, a)[1] * v[(a \ {target}) \ {slot}]
                                    + Line(m, target, a)[2] * v[(a \union {target}) \ {slot}]
               /\ w[a \union {slot}] = Line(m, target, a)[1] * v[(a \ {target}) \union {slot}]
                                    + Line(m, target, a)[2] * v[(a \union {target}) \union {slot}]
    <3> DEFINE lo == a \ {slot}
               hi == a \union {slot}
    <3>1. lo \in BasisStates /\ hi \in BasisStates
      BY BasisFacts
    <3>2. /\ lo \ {target} = (a \ {target}) \ {slot}
          /\ lo \union {target} = (a \union {target}) \ {slot}
          /\ hi \ {target} = (a \ {target}) \union {slot}
          /\ hi \union {target} = (a \union {target}) \union {slot}
      BY <1>2
    <3>3. target \in lo <=> target \in a
      BY <1>2
    <3>4. target \in hi <=> target \in a
      BY <1>2
    <3> HIDE DEF lo, hi, w
    <3>5. Line(m, target, lo) = Line(m, target, a) /\ Line(m, target, hi) = Line(m, target, a)
      BY <3>3, <3>4 DEF Line
    <3>6. ASSUME NEW d \in BasisStates
          PROVE  w[d] = Line(m, target, d)[1] * v[d \ {target}]
                          + Line(m, target, d)[2] * v[d \union {target}]
      BY SingleFacts DEF w
    <3>7. w[lo] = Line(m, target, lo)[1] * v[lo \ {target}]
                    + Line(m, target, lo)[2] * v[lo \union {target}]
      BY <3>1, <3>6
    <3>8. w[hi] = Line(m, target, hi)[1] * v[hi \ {target}]
                    + Line(m, target, hi)[2] * v[hi \union {target}]
      BY <3>1, <3>6
    <3>9. QED BY <3>2, <3>5, <3>7, <3>8 DEF lo, hi
  <2> DEFINE x1 == v[bl \ {slot}]
             y1 == v[bl \union {slot}]
             x2 == v[bh \ {slot}]
             y2 == v[bh \union {slot}]
             f1 == v[cl \ {slot}]
             g1 == v[cl \union {slot}]
             f2 == v[ch \ {slot}]
             g2 == v[ch \union {slot}]
  <2>4. /\ w[b \ {slot}] = p * x1 + q * x2 /\ w[b \union {slot}] = p * y1 + q * y2
        /\ w[c \ {slot}] = r * f1 + s * f2 /\ w[c \union {slot}] = r * g1 + s * g2
    BY <2>3
  <2> HIDE DEF w, bl, bh, cl, ch, p, q, r, s
  <2>5. /\ x1 \in Int /\ y1 \in Int /\ x2 \in Int /\ y2 \in Int
        /\ f1 \in Int /\ g1 \in Int /\ f2 \in Int /\ g2 \in Int
    BY <2>1, AmplitudesAreInt
  <2>6. /\ x1 * g1 - f1 * y1 = 0 /\ x1 * g2 - f2 * y1 = 0
        /\ x2 * g1 - f1 * y2 = 0 /\ x2 * g2 - f2 * y2 = 0
    BY <2>1 DEF Separable, Minor
  <2>7. Minor(w, slot, b, c)
          = (p * x1 + q * x2) * (r * g1 + s * g2) - (r * f1 + s * f2) * (p * y1 + q * y2)
    BY <2>4 DEF Minor
  <2>8. \A a1, a2, b1, b2, c1, c2, d1, d2, k1, k2, l1, l2 \in Int :
           (k1 * a1 + k2 * a2) * (l1 * d1 + l2 * d2) - (l1 * c1 + l2 * c2) * (k1 * b1 + k2 * b2)
             = (k1 * l1) * (a1 * d1 - c1 * b1) + (k1 * l2) * (a1 * d2 - c2 * b1)
               + (k2 * l1) * (a2 * d1 - c1 * b2) + (k2 * l2) * (a2 * d2 - c2 * b2)
    OBVIOUS
  <2> HIDE DEF x1, y1, x2, y2, f1, g1, f2, g2
  <2>9. Minor(w, slot, b, c)
          = (p * r) * (x1 * g1 - f1 * y1) + (p * s) * (x1 * g2 - f2 * y1)
            + (q * r) * (x2 * g1 - f1 * y2) + (q * s) * (x2 * g2 - f2 * y2)
    BY <2>2, <2>5, <2>7, <2>8
  <2>10. \A i, j, k, l \in Int : i * 0 + j * 0 + k * 0 + l * 0 = 0
    OBVIOUS
  <2>11. p * r \in Int /\ p * s \in Int /\ q * r \in Int /\ q * s \in Int
    BY <2>2, IntegerOperations
  <2>12. Minor(w, slot, b, c) = (p * r) * 0 + (p * s) * 0 + (q * r) * 0 + (q * s) * 0
    BY ONLY <2>6, <2>9
  <2>13. QED BY ONLY <2>10, <2>11, <2>12
<1>3. QED BY <1>1, <1>2

\* A gate's inverse, up to the determinant.
Undo(m) == <<<<m[2][2], - m[1][2]>>, <<- m[2][1], m[1][1]>>>>

LEMMA UndoIsMatrix == ASSUME NEW m, IsMatrix(m) PROVE IsMatrix(Undo(m)) /\ Det(m) \in Int
<1>1. m[1][1] \in Int /\ m[1][2] \in Int /\ m[2][1] \in Int /\ m[2][2] \in Int
  BY DEF IsMatrix
<1>2. /\ Undo(m)[1][1] = m[2][2] /\ Undo(m)[1][2] = - m[1][2]
      /\ Undo(m)[2][1] = - m[2][1] /\ Undo(m)[2][2] = m[1][1]
  BY DEF Undo
<1>3. IsMatrix(Undo(m))
  <2>1. - m[1][2] \in Int /\ - m[2][1] \in Int
    BY <1>1
  <2>2. \A i \in {1, 2} : i = 1 \/ i = 2
    OBVIOUS
  <2>3. QED BY <1>1, <1>2, <2>1, <2>2 DEF IsMatrix
<1>4. \A i, j, k, l \in Int : i * j - k * l \in Int
  OBVIOUS
<1>5. QED BY <1>1, <1>3, <1>4 DEF Det

LEMMA SingleIsUndone ==
    ASSUME NEW v \in States, NEW target \in Slots, NEW m, IsMatrix(m), NEW b \in BasisStates
    PROVE  ApplySingle(ApplySingle(v, target, m), target, Undo(m))[b] = Det(m) * v[b]
<1> DEFINE w == ApplySingle(v, target, m)
           u == ApplySingle(w, target, Undo(m))
           p == m[1][1]
           q == m[1][2]
           r == m[2][1]
           s == m[2][2]
           x == v[b \ {target}]
           y == v[b \union {target}]
<1>1. p \in Int /\ q \in Int /\ r \in Int /\ s \in Int /\ x \in Int /\ y \in Int
  BY AmplitudesAreInt DEF IsMatrix
<1>2. w \in States /\ IsMatrix(Undo(m))
  BY SingleFacts, UndoIsMatrix
<1>3. /\ w[b \ {target}] = p * x + q * y /\ w[b \union {target}] = r * x + s * y
  BY SingleOnPair
<1> HIDE DEF w
<1>4. /\ u[b \ {target}] = s * w[b \ {target}] + (- q) * w[b \union {target}]
      /\ u[b \union {target}] = (- r) * w[b \ {target}] + p * w[b \union {target}]
  <2>1. /\ Undo(m)[1][1] = s /\ Undo(m)[1][2] = - q
        /\ Undo(m)[2][1] = - r /\ Undo(m)[2][2] = p
    BY DEF Undo
  <2> DEFINE n == Undo(m)
  <2>2. ASSUME NEW k, k = n, IsMatrix(k)
        PROVE  /\ ApplySingle(w, target, k)[b \ {target}]
                    = k[1][1] * w[b \ {target}] + k[1][2] * w[b \union {target}]
               /\ ApplySingle(w, target, k)[b \union {target}]
                    = k[2][1] * w[b \ {target}] + k[2][2] * w[b \union {target}]
    BY <1>2, <2>2, SingleOnPair
  <2> HIDE DEF s, q, r, p
  <2>3. /\ u[b \ {target}] = n[1][1] * w[b \ {target}] + n[1][2] * w[b \union {target}]
        /\ u[b \union {target}] = n[2][1] * w[b \ {target}] + n[2][2] * w[b \union {target}]
    BY <1>2, <2>2
  <2> HIDE DEF n, u
  <2>4. n[1][1] = s /\ n[1][2] = - q /\ n[2][1] = - r /\ n[2][2] = p
    BY <2>1 DEF n
  <2>5. QED BY <2>3, <2>4
<1>5. \A p1, q1, r1, s1, x1, y1 \in Int :
         /\ s1 * (p1 * x1 + q1 * y1) + (- q1) * (r1 * x1 + s1 * y1) = (p1 * s1 - q1 * r1) * x1
         /\ (- r1) * (p1 * x1 + q1 * y1) + p1 * (r1 * x1 + s1 * y1) = (p1 * s1 - q1 * r1) * y1
  OBVIOUS
<1> HIDE DEF u, p, q, r, s, x, y
<1>6. u[b \ {target}] = (p * s - q * r) * x /\ u[b \union {target}] = (p * s - q * r) * y
  BY <1>1, <1>3, <1>4, <1>5
<1>7. Det(m) = p * s - q * r
  BY DEF Det, p, q, r, s
<1>8. b = b \ {target} \/ b = b \union {target}
  OBVIOUS
<1>9. u[b] = Det(m) * v[b]
  BY <1>6, <1>7, <1>8 DEF x, y
<1>10. QED BY <1>9 DEF u, w

LEMMA MultipleIsSeparable ==
    ASSUME NEW v \in States, NEW u, NEW k \in Int, k # 0, NEW slot \in Slots,
           \A b \in BasisStates : u[b] = k * v[b], Separable(u, slot)
    PROVE  Separable(v, slot)
<1> SUFFICES ASSUME NEW b \in BasisStates, NEW c \in BasisStates PROVE Minor(v, slot, b, c) = 0
  BY DEF Separable
<1> DEFINE x == v[b \ {slot}]
           y == v[b \union {slot}]
           f == v[c \ {slot}]
           g == v[c \union {slot}]
<1>1. x \in Int /\ y \in Int /\ f \in Int /\ g \in Int
  BY AmplitudesAreInt
<1>2. /\ u[b \ {slot}] = k * x /\ u[b \union {slot}] = k * y
      /\ u[c \ {slot}] = k * f /\ u[c \union {slot}] = k * g
  BY BasisFacts
<1>3. (k * x) * (k * g) - (k * f) * (k * y) = 0
  <2>1. Minor(u, slot, b, c) = 0
    BY DEF Separable
  <2>2. QED BY <1>2, <2>1 DEF Minor
<1>4. Minor(v, slot, b, c) = x * g - f * y
  BY DEF Minor
<1> HIDE DEF x, y, f, g
<1>5. \A i, p, q, r, s \in Int : (i * p) * (i * q) - (i * r) * (i * s) = i * (i * (p * q - r * s))
  OBVIOUS
<1>6. k * (k * (x * g - f * y)) = 0
  BY <1>1, <1>3, <1>5
<1>7. \A i, j \in Int : i # 0 /\ i * j = 0 => j = 0
  OBVIOUS
<1>8. x * g - f * y \in Int /\ k * (x * g - f * y) \in Int
  <2>1. \A i, p, q, r, s \in Int : p * q - r * s \in Int /\ i * (p * q - r * s) \in Int
    OBVIOUS
  <2>2. QED BY <1>1, <2>1
<1>9. x * g - f * y = 0
  BY <1>6, <1>7, <1>8
<1>10. QED BY <1>4, <1>9

\* No gate of one slot changes which slots are separable.
LEMMA GateKeepsSeparable ==
    ASSUME NEW v \in States, NEW operation \in AllocatedOperations,
           operation.opcode \in DOMAIN Matrix, NEW slot \in Slots
    PROVE  Separable(ApplyOperation(v, operation), slot) <=> Separable(v, slot)
<1> DEFINE m == Matrix[operation.opcode]
           target == operation.targets[1]
           w == ApplySingle(v, target, m)
           u == ApplySingle(w, target, Undo(m))
<1>1. target \in Slots /\ IsMatrix(m)
  BY FirstTarget, MatrixOfGate
<1>2. ApplyOperation(v, operation) = w
  <2>1. operation.opcode # "CX"
    BY DEF Matrix
  <2>2. QED BY <2>1 DEF ApplyOperation
<1>3. Det(m) \in Int /\ IsMatrix(Undo(m))
  BY <1>1, UndoIsMatrix
<1>4. Det(m) # 0
  <2>1. operation.opcode \in {"X", "H", "Z", "RY"}
    BY DEF Matrix
  <2>2. CASE operation.opcode = "X"
    BY <2>2 DEF Matrix, Det
  <2>3. CASE operation.opcode = "H"
    BY <2>3 DEF Matrix, Det
  <2>4. CASE operation.opcode = "Z"
    BY <2>4 DEF Matrix, Det
  <2>5. CASE operation.opcode = "RY"
    BY <2>5 DEF Matrix, Det
  <2>6. QED BY <2>1, <2>2, <2>3, <2>4, <2>5
<1> HIDE DEF m, target
<1>5. Separable(v, slot) => Separable(w, slot)
  BY <1>1, SingleKeepsSeparable
<1>6. w \in States /\ \A b \in BasisStates : u[b] = Det(m) * v[b]
  BY <1>1, SingleFacts, SingleIsUndone
<1> HIDE DEF w
<1>7. ASSUME Separable(w, slot) PROVE Separable(v, slot)
  <2>1. Separable(u, slot)
    BY <1>1, <1>3, <1>6, <1>7, SingleKeepsSeparable
  <2> HIDE DEF u
  <2>2. QED BY <1>3, <1>4, <1>6, <2>1, MultipleIsSeparable
<1>8. QED BY <1>2, <1>5, <1>7

\* An observation leaves the other slots separable that were, and the observed ones are.
LEMMA CollapseSeparates ==
    ASSUME NEW v \in States, NEW targets, NEW outcome, NEW slot \in Slots,
           Separable(v, slot) \/ \E i \in DOMAIN targets : targets[i] = slot
    PROVE  Separable(Collapse(v, targets, outcome), slot)
<1> DEFINE u == Collapse(v, targets, outcome)
<1> SUFFICES ASSUME NEW b \in BasisStates, NEW c \in BasisStates PROVE Minor(u, slot, b, c) = 0
  BY DEF Separable
<1>1. /\ b \ {slot} \in BasisStates /\ b \union {slot} \in BasisStates
      /\ c \ {slot} \in BasisStates /\ c \union {slot} \in BasisStates
  BY BasisFacts
<1>2. u \in States /\ \A a \in BasisStates :
         u[a] \in Int /\ u[a] = IF Outcome(a, targets) = outcome THEN v[a] ELSE 0
  BY CollapseFacts DEF Collapse, States
<1>3. Minor(u, slot, b, c)
        = u[b \ {slot}] * u[c \union {slot}] - u[c \ {slot}] * u[b \union {slot}]
  BY DEF Minor
<1>4. \A i, j, k, l \in Int : /\ i = 0 /\ k = 0 => i * j - k * l = 0
                              /\ j = 0 /\ l = 0 => i * j - k * l = 0
                              /\ i = 0 /\ l = 0 => i * j - k * l = 0
                              /\ j = 0 /\ k = 0 => i * j - k * l = 0
  OBVIOUS
<1>5. CASE \E i \in DOMAIN targets : targets[i] = slot
  <2>1. PICK i \in DOMAIN targets : targets[i] = slot
    BY <1>5
  <2>2. \A a : Outcome(a \ {slot}, targets)[i] = 0 /\ Outcome(a \union {slot}, targets)[i] = 1
    BY <2>1 DEF Outcome
  <2>3. CASE outcome[i] = 0
    <3>1. Outcome(b \union {slot}, targets) # outcome /\ Outcome(c \union {slot}, targets) # outcome
      BY <2>2, <2>3
    <3>2. u[b \union {slot}] = 0 /\ u[c \union {slot}] = 0
      BY <1>1, <1>2, <3>1
    <3>3. QED BY <1>1, <1>2, <1>3, <1>4, <3>2
  <2>4. CASE outcome[i] # 0
    <3>1. Outcome(b \ {slot}, targets) # outcome /\ Outcome(c \ {slot}, targets) # outcome
      BY <2>2, <2>4
    <3>2. u[b \ {slot}] = 0 /\ u[c \ {slot}] = 0
      BY <1>1, <1>2, <3>1
    <3>3. QED BY <1>1, <1>2, <1>3, <1>4, <3>2
  <2>5. QED BY <2>3, <2>4
<1>6. CASE \A i \in DOMAIN targets : targets[i] # slot
  <2>1. ASSUME NEW a
        PROVE  /\ Outcome(a \ {slot}, targets) = Outcome(a, targets)
               /\ Outcome(a \union {slot}, targets) = Outcome(a, targets)
    <3>1. \A i \in DOMAIN targets : /\ targets[i] \in a \ {slot} <=> targets[i] \in a
                                    /\ targets[i] \in a \union {slot} <=> targets[i] \in a
      BY <1>6
    <3>2. QED BY <3>1 DEF Outcome
  <2>2. CASE Outcome(b, targets) # outcome
    <3>1. u[b \ {slot}] = 0 /\ u[b \union {slot}] = 0
      BY <1>1, <1>2, <2>1, <2>2
    <3>2. QED BY <1>1, <1>2, <1>3, <1>4, <3>1
  <2>3. CASE Outcome(c, targets) # outcome
    <3>1. u[c \ {slot}] = 0 /\ u[c \union {slot}] = 0
      BY <1>1, <1>2, <2>1, <2>3
    <3>2. QED BY <1>1, <1>2, <1>3, <1>4, <3>1
  <2>4. CASE Outcome(b, targets) = outcome /\ Outcome(c, targets) = outcome
    <3>1. /\ u[b \ {slot}] = v[b \ {slot}] /\ u[b \union {slot}] = v[b \union {slot}]
          /\ u[c \ {slot}] = v[c \ {slot}] /\ u[c \union {slot}] = v[c \union {slot}]
      BY <1>1, <1>2, <2>1, <2>4
    <3>2. Minor(u, slot, b, c) = Minor(v, slot, b, c)
      BY <1>3, <3>1 DEF Minor
    <3>3. Separable(v, slot)
      BY <1>6
    <3>4. QED BY <3>2, <3>3 DEF Separable
  <2>5. QED BY <2>2, <2>3, <2>4
<1>7. QED BY <1>5, <1>6

LEMMA ResetSeparates ==
    ASSUME NEW v \in States, NEW target \in Slots, NEW outcome, NEW slot \in Slots,
           Separable(v, slot) \/ slot = target
    PROVE  Separable(ResetState(v, target, outcome), slot)
<1> DEFINE u == Collapse(v, <<target>>, <<outcome>>)
<1>1. 1 \in DOMAIN <<target>> /\ <<target>>[1] = target
  OBVIOUS
<1>2. u \in States /\ Separable(u, slot)
  BY <1>1, CollapseFacts, CollapseSeparates
<1> HIDE DEF u
<1>3. IsMatrix(Matrix.X)
  BY DEF Matrix, IsMatrix
<1>4. Separable(ApplySingle(u, target, Matrix.X), slot)
  BY <1>2, <1>3, SingleKeepsSeparable
<1>5. QED BY <1>2, <1>4 DEF ResetState, u

==============================================================================
