# A TLA+ model of Ariadion

Ariadion turns quantum programs, written as decorated Python functions, into
circuits and simulates them. This directory holds TLA+ modules that model the
way from source text to published result, the configurations that model-check
them with TLC, and theorems about them that TLAPS has checked.

    Python function --capture--> LogicalModule --expand--> ExpandedLogicalProgram
      --analyse, allocate, lower--> CircuitIR + ReadoutPlan --schedule--> ExecutionSchedule
      --simulate (exact | sampled | density matrix)--> state, trace, shots
      --readout--> classical distributions over the return leaves

Beside it stand the release verifier of `tools/`, the one program of the repository
that deals with a network, a file system and restarts, and the publication workflow
that runs it between uploads to two package indexes.

## 1. Inventory

| Component (source) | State it keeps | Operations | What makes it correct |
|---|---|---|---|
| Logical program model (`semantics/model.py`) | none; validated immutable values | constructors of `LogicalProgram`, `LogicalModule` | exactly the programs with declared, unaliased operands and acyclic calls are accepted |
| Python capture (`frontend-python`) | context: programs by identifier, functions by identifier, active functions; per function: name bindings, instructions, returned qubits | `to_logical_program`, `to_logical_module`, walk over statements, recursive capture of callees | what is captured is a logical module and means what the names in the source mean; what is not is refused with a diagnostic |
| Call expansion (`daidalon/expansion.py`) | an activation per running call, pending definitions, instances, escapes, call records | depth-first expansion, on-demand instantiation, the artifact's constructor | expansion is inlining; identities are unique per invocation; escapes and records are complete |
| Logical compiler (`daidalon/compiler.py`) | artifacts of the stages | validation, lifetimes, releases, allocation, lowering, readout, cross-checks | slots are values, nothing is used after release, both compile paths agree, errors are diagnostics |
| Scheduler (`simulator/scheduling.py`) | when each slot is free | `schedule_asap`, `validate_schedule_for_circuit` | slots are exclusive, starts are earliest, time is accounted for, only ASAP schedules are accepted |
| State-vector engines (`simulator/statevector.py`) | amplitudes, shot, events, trace | exact and sampled execution, collapse, reset, trace capture | a trajectory is one joint projection; each engine refuses what it says |
| Density-matrix engine (`simulator/density_matrix.py`) | density matrix, end of each slot's last operation, observed flag, evidence | gates, channels, reset, idle decoherence, terminal observation | the matrix is the mixture of the trajectories; idle time is applied once |
| Runtime (`runtime/runtime.py`, `trace.py`) | none between calls | three run modes, readout projection, provenance, coverage, reports | the modes publish the same joint distribution; readout noise acts once per observation |
| Trace inspection and debugger (`runtime/inspection.py`, `debugger.py`, `apps/cli`) | selected step | inspect, open a session, next, previous, go to | a view shows the step of the trace it claims to show |
| Reports (`theonoe`) | none | noise impact, bare reliability, protection need | verdicts follow from the distributions and are withheld when the model is incomplete |
| Release verifier (`tools/verify_index_release.py`) | the download directory on disk, the attempt | absence check, verification with retries, download, cleanup | nothing unverified is ever in place; what is accepted was seen |
| Backends (`simulator/backend.py`, `reference_backends.py`, `simulator-numpy`) | arrays of one run, end of each slot's last operation | plan, check of options, execute, idle decay in circuit order | a granted plan is honoured; NumPy loops take the reference loops' steps; late decay equals decay in time |
| Publication workflow (`.github/workflows/publish.yml`) | jobs of each run, the bundle of each run; outside it, the indexes | absence, build, TestPyPI, approval, PyPI; runs taking turns, jobs run again | production holds part of one build that was staged completely; what another run or person has begun is never completed |
| `syntax`, `ir`, `core`, `language`, `noise`, `visualization`, `sdk`, examples, benchmarks | none | validation, serialisation, rendering | value contracts |

The packages are libraries. Components interact by synchronous calls that hand
over immutable values; nothing runs concurrently inside the process and nothing
is persisted. The hard part is therefore the length of the chain: identities,
indexes and orders made in one stage are relied on several stages later, where
constructors check them again, often by re-deriving them. Recursion (capture and
expansion follow the call graph), cursors that advance separately, in-place
updates under immutable results, floating-point edges, and errors raised half
way through are the sources of mistakes. The release verifier adds the classical
ones: an index that changes between two questions, lost answers, retries, kills
at any moment, leftovers of earlier runs, other programs on the same disk.

`PROJECT.json` lists each of these hazards with its source line and the
properties that watch it.

## 2. Plan

Done, in this order; a module stands on the ones named after it.

1. `LogicalModel`: which programs and modules exist.
2. `Expansion` (LogicalModel) with `ExpansionReference`, a recursive inlining
   definition that only TLC evaluates.
3. `LogicalCompiler` (Expansion).
4. `Schedule` with `ScheduleProofs`.
5. `ScheduledExecution` (Schedule): validation of a schedule against a circuit and
   the density engine's walk over it.
6. `QuantumState` (amplitudes as integers) and `CircuitExecution` (QuantumState):
   the three engines.
7. `LogicalRun` (CircuitExecution): from request to published output.
8. `Capture` (LogicalModel).
9. `ReleasePublication`, the abstract promise, `ReleaseVerification`, its
   implementation, and `ReleaseProofs`.
10. `TraceDebugger` (CircuitExecution): traces of two runs, inspections, sessions put
    together from either, the interactive loop and the other displays.
11. `ReliabilityReport` (LogicalRun): provenance, coverage, noise impact, the ladder of
    statuses, verdict and protection need.
12. `PackedArrays` (QuantumState): the NumPy kernels on packed arrays; `BackendExecution`
    (CircuitExecution, PackedArrays): plans, options, and the NumPy engines as
    implementations of the reference engines.
13. `StagedRelease`, the promise, `ReleaseWorkflow`, the jobs of `publish.yml` around the
    verifier over two indexes; its proofs follow those of the verifier in `ReleaseProofs`.
14. Proofs about the engines and their callers: `FoldFacts` (folds, sums and products),
    `CircuitProofs` (FoldFacts; the engines), and on it `RunProofs` (logical runs, their
    reports, the debugger) and `BackendProofs`; the rest of the scheduler and the scheduled walk in `ScheduleProofs`.
15. Proofs about the front half: `CompilerProofs`, the expander's machine and the stages of
    the compiler, for every set of modules; and `CaptureProofs`, the capture of every set of
    functions that call each other.

Next:

16. The older `Program` builder and `compile_program`, against `LogicalCompiler`.

## 3. Modules and code

**LogicalModel** is data only: `IsLogicalProgram` and `IsLogicalModule` are the
validations of the two dataclasses. A program is a record of parameters,
definitions, instructions, result bits and return leaves. Identifiers are abstract;
a source position is a number. X, H and Z are one kind of gate up to the simulator,
and the three rotations one kind of rotation.

**Expansion** models `_LogicalModuleExpander`. The Python recursion is the variable `stack`
of activations. `InstantiateParameter`, `InstantiatePending`, `SkipPending`,
`InstantiateOnDemand`, `ExpandInstruction`, `EnterCall` and `ReturnFromCall` are the
steps of one activation, with the pending-definition cursor, on-demand
instantiation, the reserved call records and the escape list of the code. An expanded identifier is a
pair of the invocation path and the local name, which is what the code's formatted
identifiers encode. `FinishExpansion` is the constructor of the finished artifact.
`ExpansionReference` defines inlining recursively.

**LogicalCompiler** extends it with the stages of `compile_logical_module`, one
action each, and defines the path of `compile_logical_program` as operators
(`DirectOperation`, `DirectDiagnostics`) for comparison.

**Schedule** is the loop of `schedule_asap`, an operation per step, then the idle
intervals and the checks of the artifacts' constructors. Times are natural numbers;
the code adds, compares and takes maxima of floats only. **ScheduledExecution** runs
the scheduler, submits its schedule or a moved one with the same or a related
circuit (`SubmitOwn`, `SubmitMoved`), validates as `validate_schedule_for_circuit`
does, including its tolerance, and walks the operations as `simulate_density_matrix`
does, collecting the decoherence events.

**QuantumState** is the arithmetic of gates, collapse and channels over vectors
of integers. Normalisation is left out: every factor that the code divides by is
common to a whole vector or matrix, so ratios and zeros are kept and every
comparison in the properties is made between unnormalised weights. **CircuitExecution**
has one action per kind of step of each engine, with the refusals and their order,
the trace of the two state-vector engines and the evidence of the density engine.
`DrawBeyondMass` is the fall-through of `_sample_outcome`: floating-point
probabilities may sum to less than one, so a draw may exceed them. **LogicalRun** adds
the return leaves, the readout channel and the three projections onto published
outputs.

**TraceDebugger** extends CircuitExecution. A traced run is recorded (`Record`), the
program stays as it is or changes and is run again (`RunAgain`), and a session is put
together from a circuit, a trace and an inspection of either run (`OpenSession`), with
the comparisons of the session's constructor. `View` is `view_at`; `StartLoop`,
`NextStep`, `PreviousStep`, `GoTo` and `Quit` are the interactive loop, `ShowOne` and
`ShowAll` the displays of `run --step` and `run --trace`. A report is the amplitudes of the
circuit's slots and the slots that are not separable, by the determinant of the reduced
density matrix. `width` is the circuit's number of slots: the constructor does not
compare it, so that two programs built with one `program_id` on one source line, with the
same operations and different widths, give a session that shows a trace of one width
with an inspection of the other. `SessionIsOneRun` says that this is the only confusion.

**Capture** is `_CaptureContext.capture` and `_CaptureState`. The stack of running
captures is explicit; a statement's text is abstracted to the form, target, function
name and arguments that the code looks at. What syntax alone decides, such as a
loop or a keyword argument, is a statement refused with its code. Ordinals in node
identifiers are always zero in the model because no two nodes of a kind share a
position.

**ReleaseVerification** is `main` of the verifier with everything below it, and the
world around it: the index (`IndexMoves`), the operating system (`Killed`,
`Restart`), and another program that writes into the directory (`Intrude`). A
project's page is absent, exact or anything else; a file's bytes are right or wrong.
Errors are split as the code splits them: those it reports as `IndexReleaseError`
(`StepFails`, `FetchFails`) and those that pass its handlers (`FetchEscapes`,
`FinallyFails`, `CleaningFails`, and `escaped` outcomes of `StepFails`).
**ReleasePublication** is what a reader of the directory may rely on.

**ReliabilityReport** extends LogicalRun with what is derived from a finished density
run. Each artifact is a step: `RecordProvenance` (the run's own last step),
`BuildImpact`, the five outcomes of the bare-reliability question
(`AssessUnsupported`, `RefuseCriterion`, `AssessIncomplete`, `AssessIndeterminate`,
`AssessSupported`, in the order of the code's ladder) and `BuildNeed`. The code builds
each artifact in one function and checks it again in a constructor that derives part of
it anew; the model keeps both sides (`Provenance` and `SnapshotAccepted`,
`BuiltCoverage` and `DerivedCoverage`, and so on), and `refusal` tells which
constructor turned a builder down. Probabilities are integer weights over the trace of
the matrix, verdicts compare fractions.

**BackendExecution** extends CircuitExecution with the caller's choice of a backend, a
query and options. `PlanRun` and `ExecuteRun` are `plan` and `execute` as `execute_with_backend`
calls them, one after the other. The reference
backends then take the engines' own steps; the NumPy backends take steps of their own
(`NumpyVectorOperation`, `NumpyDensityOperation`, `FinishNumpy`) over arrays indexed by
packed bits, with `reshape`, `moveaxis`, `einsum` and `ix_` modelled by what they
return in `PackedArrays`. `Waited` applies the idle decay of the operation's slots before it, as the code
does, and `FinishNumpy` the rest. `BackendsImplementReference` is the refinement, by
instantiating CircuitExecution with the arrays read by packed index.

**ReleaseWorkflow** is `publish.yml`. `Needs` is the graph of its jobs; `AskAbsent`,
`Build`, `Upload` and `Verify` are what their steps do to the indexes, one page or file
at a time, and `JobFails` is every way in which a job may stop half way. GitHub and the
indexes are its environment: runs of a tag take turns and one waits (`Queue`,
`StartRun`, `EndRun`), people push the tag again, cancel, and run jobs again with
everything that needs them (`PushTag`, `CancelRun`, `Rerun`), others upload by hand,
yank and delete (`UploadByHand`, `Show`). One verification of an index is the behaviour
that ReleaseVerification models; here it is asked page by page and fails in one step.
**StagedRelease** is what the workflow promises of the indexes.

Every definition that models code is listed in `PROJECT.json` with its lines.
Definitions with `\* mutant:` after their head are deliberate mistakes; each property
is paired with one it detects, and no specification uses them.

## 4. Runs

| Run | Instance | What it shows |
|---|---|---|
| `compiler` | entries that call two levels deep, with parameters aliased and locals before and after their use; entries with two calls of one callee, all return shapes, observations in two bases; call-free programs | expansion is inlining; identities, escapes, call records and call stacks are right; values do not outlive their release, slots carry values, the two paths agree, failures are diagnostics except for observations under an alias that is returned |
| `schedule` | own schedules: three slots, up to three operations, two durations, a non-positive one, missing timing; exchanged ones: two slots, three operations, tolerance 1, shifts from -1 to 2 | exclusive slots, earliest starts, accounted time; the scheduler's schedule is valid and accepted, and with a recompiled circuit only if it fits that one; what is accepted is near-ASAP and applies its idle time once |
| `execution` | two slots; up to four operations of six kinds and three of twelve; two shots; gate noise; up to two leaves with repetitions, asymmetric readout noise | the engines agree with each other, refuse exactly what they say and publish one joint distribution |
| `debugger` | two slots, up to three operations of five kinds, two runs, every combination of their artifacts | a session opens exactly over one run's artifacts, or equal ones, and shows the states of its trace |
| `reliability` | two slots, up to two operations before up to two observations, returns of up to two leaves, with and without gate noise and readout noise; goals met, missed, and within the tolerance 1/32; four criteria | no constructor turns down what a builder made; verdicts and protection needs are what the pure trajectories say; damage is blamed on the channels that ran |
| `backends` | three slots, two operations that entangle and up to two of ten, five backends, both queries, gate noise, two decays, ASAP schedules | NumPy engines implement the reference engines step by step; a granted plan is honoured; idle decay applied late is decay in time |
| `capture` | functions of up to five statements, alone and over two others | captured modules mean what the source says |
| `release` | two projects, two files, two attempts, two runs, two changes of the index, one intrusion | safety of the directory under failures, kills and intrusions; refinement; every run ends |
| `workflow` | two names on each index, two pushes, two builds, three turns in all, one thing done by others | production is staged first; a green run has released its bundle; nothing is published on top of what was found; runs take turns |

Three more runs state what a document, a docstring or an assertion says and are
violated by what the code does:

| Run | Statement | What happens |
|---|---|---|
| `repeated_leaves` | a result returned twice is published in every mode | the sampled run fails after all its shots |
| `unavailable_source` | a function without source text is reported as P100 | `to_logical_module` reports P101, because the diagnostic is a `ValueError` |
| `clean_path` | after any failure the download directory is gone | errors that the handlers do not name leave it in place |

Smaller observations made while modelling, which no run states any more:

* `specs/language.md:317` says that the allocation reports the independently measured
  peak-live count; `compiler.py:885` reports the number of entries.
* `_sample_outcome` falls through to the last outcome when the draw exceeds the summed
  probabilities. After H twice on a slot these round to a sum below 1 - 2^-53, the
  largest draw; the last outcome is impossible, and the collapse at `statevector.py:598`
  raises `ValueError` instead of a shot.
  The model has the fall-through (`DrawBeyondMass`) and its end as a status of its own:
  `RefusalsAreExact` says that a run is given up in this way only after an operation that
  rounds, at an observation or reset whose last outcome is impossible.
* A goal so small that dividing a failure by it overflows is turned down by the
  protection report with a `ValueError`; a program that returns one result twice cannot
  be given a criterion. The first is floating point and not in the model, the second is
  the "criterion" refusal of ReliabilityReport.
* Running a failed job of the publication workflow again does not ask the indexes for
  absence again. The promise holds all the same, because an index takes one file per
  name; but TestPyPI may end up with files of two builds, which no later run can
  complete. `docs/publishing.md:128` asks people not to rerun it.

The bounds, and why they are enough. Three programs give the shortest call chain
in which a value passes through a program that neither made nor uses it, and a
program called twice gives two invocations to confuse. Two slots are the fewest with
entanglement and with a slot that is idle while another works; three slots and three
operations let two chains join. Two shots show whether one influences the next. Two
attempts show a retry, two runs show leftovers met by a later run and artifacts of two runs confused, two files show a
failure with one file already in place, and two index changes let a page change and
change back. The tolerance of one unit with shifts beyond it has values inside, at and
outside it. Three slots tell the axes of a tensor apart when they are counted from the
wrong end, and the entangling preparation keeps every slot from being at rest; amplitude
decay of 1/4 and phase decay of 1/2 for a unit of time are rational with a rational root.
The reports' tolerance is 1/32 and not the code's 1e-12, so that goals can lie within it;
what is compared with it is the same. In the workflow, two names let an upload stop half
way, two pushes and a third turn let a second run, or jobs run again, follow on what the
first has left behind. Each mutant in `PROJECT.json` is found within these bounds.

Deadlock is checked in every run; a finished machine stutters in a named disjunct of
its next-state relation.

### Fairness

The library's components are sequential functions: once called, they take their next
step. The specifications of the compiler, the capture and the engines assume weak
fairness of the whole next step and nothing else. A loop in the code that does not
advance shows up as a lasso: `CompilationEnds` and `CaptureEnds` exclude it for the
expander's and the capture's recursions. The engines and the scheduler are loops over a
finite list. The debugger waits for commands and has no fairness.

`ReleaseVerification` assumes weak fairness of `VerifierStep`, the process's own steps:
every socket has a timeout, every read is bounded and `time.sleep` returns. Nothing is
assumed of the index, of other programs, of kills or of restarts. `RunEnds`
then says that each run ends in a bounded number of attempts, whatever the index
does.

`ReleaseWorkflow` assumes weak fairness of `WorkflowStep`: GitHub starts a job that can
start and ends one whose time is over (jobs, environments that wait for an approval and
runs all have deadlines). Nothing is assumed of people: no one need approve, push, run a
job again or keep off the indexes. `RunsEnd` says that the turn passes on, so that a run that
waits is started or replaced.

## 5. Proofs

Proved for all values of the constants, under the named assumptions of the modules:

| Assumption | What it says, and where the code has it from |
|---|---|
| `ModulesAreLogical` | modules are what `LogicalModule` and `LogicalProgram` admit: programs and calls that refer to what exists, identifiers distinct within a program, no recursion |
| `ModulesAreTyped`, `NoValueIsNoId` | the types of the dataclasses: tuples, the kinds of instructions, one leaf in a scalar return; `None` is no expanded identifier |
| `CircuitsAreOperations`, `CircuitsAreSequences` | circuits are sequences of operations as the IR's constructor admits them (opcodes, operands, distinct identifiers, a control other than its target) |
| `OperandsAreDistinct`, `SlotsAreARange`, `SlotsAreNumbered`, `SlotsAreFinite` | no operation names a slot twice; slots are `range(qubit_count)` |
| `ProfilesAreDurations`, `TimesAreNaturals`, `TolIsNatural`, `ShiftsAreIntegers`, `DurationsAboveTol` | a profile maps an operation to a duration or to nothing, durations are positive and above the tolerance of the comparison |
| `RequestsAreRuns`, `NoiseIsOfGates` | a request is an engine, a number of shots and whether a trace is asked for; noise is given for gates, by channels that are sequences of operators with integer entries and weights |
| `TimingsAreSchedules` | a schedule is one that `validate_schedule_for_circuit` accepts for its circuit: every operation takes time and ends by the peak, and operations that share a slot follow each other |
| `LeavesAreObservations`, `ReadoutChannelsAreStochastic` | return leaves name observations; both rows of a readout channel sum to the same positive total |
| `EditsAreCircuits`, `NoneIsNoOutcome` | what a program is changed to is a program; the absent outcome is no bit |
| `LinesAreWideEnough`, `WorldsArePython` | a line of source is wider than the nodes on it; functions have distinct identifiers and parameters, and statements of the forms of Python's syntax |
| `NoValueIsNoName` | `None` is no diagnostic code and no node's identifier |
| `QuestionsAssumption`, `ToleranceAssumption` | `None` is no question and no set of outcomes, goals and the tolerance are fractions |
| `OutputsAreEvidence` | `None` is no distribution, no pair of them, and no metrics of them |
| `ChannelsAreComplete` | the Kraus operators of a channel sum to the identity, up to the common factor of their weights (`validate_quantum_channel`) |
| `ReleaseAssumption`, `WorkflowAssumption` | projects and files are sequences without repetition, attempts are positive; at least one push, build and turn |

**Folds** (`FoldFacts`). The engines' arithmetic is made of folds: over the sequence of
operations, over the set of basis states, over the slots of an outcome. The module gets
induction up to a bound from the least-number principle (a set of naturals that is not empty has
a least member), and with it induction over finite sets, without the library's theorems
that take an operator as a parameter. From these follow how a fold over a longer sequence or a larger
set is computed, that sums do not depend on an order, distribute and split, and that the product of sums
is a sum of products. `StepsReach` is for steps of which a loop has taken some and not yet others: it says
that one array is another after the steps of a set of positions, taken in the order of a sequence,
and that a step may be made up for once it commutes with the later ones already taken.

**Capture** (`CaptureProofs`). A captured program names values by the position that made
them, and knows nothing of the names in the source. `CaptureIInv` ties the two together while
the walk goes on. `NamesGoBack`: the identifier a name is bound to says where the source,
read up to this statement, makes the name go back to (a parameter, an assignment, a call;
`OriginsAfter`), through any number of aliases. Positions only grow, so that what a
statement makes is new. `OperandsNamed` then gives `OperandsAreSourceValues`, and at the end of a
function, with `LeavesAtReturn`, that its program passes the constructor unless it
returns a qubit that it has observed. `StackIInv`: each running capture but the last waits at the call of the
next one's function, no function runs twice, and none that runs has been captured already.
A call met in the walk therefore leads to a program captured before (`CallsFit`), `order`
ranks the call graph and the module is acyclic. A function met again while it runs gives a
circle of calls along the stack, no longer than there are functions, which is what
P115 claims (`RecursionExplained`). `CaptureInvariant` is the induction; `CaptureTypes`,
`CaptureFaithful` and `CallsReachTheirFunctions` follow.

**Logical compiler** (`CompilerProofs`). Programs share operation and value names, and one
program may be called many times, so that whatever an expansion makes must be told apart by
its path alone. `ExpansionIInv` says why it is. Each activation but the last stands at the
call of the next (`Chained`); a path belongs to an activation on the stack, to a call that has
returned, or to none yet; and every instance, expanded instruction and call record belongs to one of the
first two. What a new call makes is therefore new, and a returned call is never entered
again, since program counters only advance. On this stand the invariants of values (an activation's
bindings name instances that exist, and what a definition stands for does not change), of
the code (operands are defined before they are used) and of the records (call records are complete
when the call returns, and match the call stacks of their instructions).
`CompilerIInv` adds that each artifact is what its stage makes of the finished
expansion (`ArtifactsIInv`), which checks have been passed (`ChecksIInv`), and, of a program without calls,
that its expansion is the program itself under the empty path (`Lone`).
`CompilationInvariant` is its induction; `CompilerIsTyped` and
`CompiledModuleIsFaithful` follow. The latter conjoins `ExpansionSound`,
`OnlyAliasedObservationFails` (a finished expansion compiles, except for an observation under
an alias that is returned), `ReleasesSound`, `SlotsAreValues` and `PathsAgree` (without
calls the module's path and the direct one give the same operations and readout).

**Scheduler** (`ScheduleProofs`). `ScheduleIInv` is inductive. What the properties need
and do not say is the meaning of the availability table: `FreeAfterUse`, no slot is
free before an operation on it has ended, and `FreeSince`, a slot's free time is zero
or the end of an operation on it. The first gives `SlotsExclusive`. The second,
with `DurationKept`, gives `ScheduleIsEarliest` by induction over the steps: an
operation starts at zero or at the end of an earlier operation that shares a slot,
which no competing schedule ends earlier. A competing schedule restricted to the
operations scheduled so far is one itself (`ExecutesRestricts`).
`SlotTimeIsAccounted` sums the operations and gaps of a slot up to the makespan:
the sorted operations of a slot do not overlap, so that each gap ends where the next
operation starts.

**Scheduled walk** (`ScheduleProofs`). `OnlyAsapIsAccepted`: a schedule that validation
accepts is one the scheduler could have made, up to the tolerance, whatever was moved and whatever circuit it came
from (`RequestIInv`). `IdleIsAppliedOnce`: in an accepted schedule the decoherence events
of a slot cover its idle time, in order, without overlap and without a gap that counts
left out. `IdleIInv` says that a slot's cursor is the latest end among the operations
passed, and that the events are the gaps before these; that the walk in circuit order
meets a slot's operations in order of time is the step that needs validation.

**Engines** (`CircuitProofs`, used through `RunProofs` and `BackendProofs`). `ExecutionIInv` conjoins five
parts. `ControlIInv` says how far an engine may have come before it refuses, and that it has
stopped once it has; with `DrawsIInv`, that amplitudes are inexact only after an
operation that rounds and that a run is given up only at an impossible last outcome,
`RefusalsExact` follows. `TraceIInv` ties a trace step to the
operation and the outcome it records, and `TracesExplainRuns` follows. `ValuesIInv` gives
every register its type. `TrajectoryIInv` says that the state vector is the
trajectory of the outcomes drawn so far, and the density matrix the weighted sum of the
trajectories over all outcomes and all branches of the channels (`DensityIsMixture`: a
channel is linear in the matrix, and a sequence of outcomes with one more is a
branch of the shorter one). `PersistIInv` is what later operations leave alone, and
`NoiseIsNoted` says that the density engine has an event for each noisy operation it has
passed and for no other. With these, `EnginesFollowTrajectories` states that the exact, sampled and density engines compute what
the pure trajectories say.

**Published results** (`RunProofs`). `RunIInv` adds `RunStopped` and `PublishIInv`.
`PublishedJointly`: in every mode the published distribution or shots are
the joint ones of the return leaves, with the readout channel applied once per observation
however often it is returned. A readout of several leaves is a product of sums, which the
marginal over the leaves not asked for reduces to the factors of the others, since the rows of a channel sum
to its total. `PublishedTypes` is the type invariant.

**Reports** (`RunProofs`). `OrderIInv`, over the steps of the run and of the reports, says that
each artifact has those it is made from and that a question is one of those that fit the leaves;
`ReportTypes` follows. `EvidenceIInv` adds that the reports are of a run that has ended, and that a
bare report and a protection need are what its output and the question give.

`ReportsFollow`. The weight outside the accepted outcomes is computed from places in a
vector, and the property speaks of outcomes; `IndexIsInjective` (a fold that doubles at every leaf) makes
them one. The reported distribution is the trajectories' read through the channel,
`ReportThroughChannel`, so that `Missed` is the risk of `VerdictIsJustified`; the rest is arithmetic of
fractions (`VerdictIs`, `DistanceIs`).

`NothingIsTurnedDown` and `DamageIsBlamed` need to know what a density matrix is. `Mixed` are the matrices
that come from sums of pure ones with natural weights; they are symmetric, their diagonal
is not negative and an entry's square is at most the product of the diagonal entries of its row and column
(`MixedBounds`), from which the purity is at most the square of the trace, and at least its
share for the dimension (`PurityBounds`, Cauchy's inequality for finite sums).
Gates and channels multiply the trace by a factor (`IdealTrace`, `ChannelTrace`, where
completeness of the channels is needed) and resets keep it, so that the replay's trace divides the
run's (`ReplayFollows`) and the scaled replay weighs as much as the run
(`IdealReplayFacts`). Damage of outcomes is at most damage of populations because
outcomes divide the basis states (`OutcomesAreWithin`).

**Backends** (`BackendProofs`). `BackendIInv` is `ControlIInv`, which the NumPy steps keep as
well, and `PlanIInv`, what has been planned and with which options; `GrantsAreHonoured`:
once a plan is granted the run ends with a result exactly if the options are of the
backend's type and it declares what the circuit needs.

`BackendsImplement` is the refinement of the reference engines by the NumPy loops
(`BackendsImplementReference`), for every number of slots, every circuit and every channel.
Its first half is about the kernels. A packed index is a set of bits:
`IndexOf` maps basis states to indexes one to one and onto, a bit of the index is a member
of the set, and adding or taking away a power of two sets or clears it (`IndexFacts`); that is what
the mask kernels do (`XVectorIs`, `DiagonalVectorIs`, `CxVectorIs`). A tensor's tuple of
digits is the same set, the highest slot first (`TupleFacts`), so that moving an axis to the front, contracting
it and moving it back replaces one digit (`SettingAxis`), the one of the slot, on a
vector's axes and on both halves of a matrix's. Hence `VectorKernelIs`,
`DensityKernelIs`, `ResetMatrixIs`, and, one operator of the channel after the other,
`ChannelMatrixIs`: read by basis state, what the kernel returns is what `QuantumState`'s
operation returns. The second half is the loops. `PackedIInv` adds to
`BackendIInv` that the arrays are arrays of integers over the indexes, which no step
changes, and `BackendTypes` follows. Then step by step: a granted `ExecuteRun` is the
reference engine's start, `PlanRun` and a refusal before it are stutters, the reference
backends take the engine's own steps (`ReferenceStep`), and a step of a loop without a schedule
is the engine's step for the same operation (`NumpyStepIsReference`).

`DecayIsTimed` is about the loop with a schedule: it decays a slot only when the next operation
on it comes, and at the end, in the order of the circuit, which need not be the order of
time. The run in time is a sequence of moments, a place for each operation and for each slot in
every tick. `DecayIInv` says which of them the loop has behind it (`CaughtUp`): the operations before
the program counter, and the decays of each slot up to the end of the last operation on it.
Its array is the ground state after these moments, taken in time order (`Made`). When the
loop makes up for a moment, those later in time that it has already taken are on other slots
(`Covers`, `EndsOfOperations`, `Free`), since operations that share a slot follow each other.
Operations on disjoint slots commute (`BuiltCommute`), whichever they are: each is an entrywise
blend of its slots, or an exchange. The decays of one slot over successive ticks are one decay over
their sum (`DecayOneMore`, `FadesOfFades`). A moment in which a used slot would decay, or an operation
does not start, changes nothing. At the end everything is behind the loop, and its matrix is
`InTime`.

**Debugger** (`RunProofs`). `DebuggerIInv`: every recorded run is a run of its circuit
whose trace determines its inspection (`RecordedRuns`: a step of a trace is determined by the state
before it and the recorded evidence), an open session keeps the artifacts it
was opened with (`SessionKept`), and the screen shows one of its steps (`ScreenKept`).
`SessionsAreOneRun` and `ViewsShowTheTrace` follow, and with `ValuesIInv`, which a second run
establishes again, `DebuggerTypes`. `TransitionsAreExplained` needs what the purity that the
inspection computes says of the amplitudes: Cauchy's inequality for the amplitudes with the
slot at zero and at one is an equation exactly if they are multiples of one vector
(`ParallelVectors`, `MixedIsNotSeparable`), that is if every two-by-two minor is zero. A gate
of one slot combines minors linearly and can be undone up to its determinant, so that it neither
entangles nor separates; an observation or a reset keeps separable slots so and leaves none of
its targets entangled.

**Release verifier** (`ReleaseProofs`). `ReleaseInv` conjoins the type invariant,
`DownloadInv` (whose directory it is, how far the download has come, that
artifacts before the current one are in place and right, that the temporary file holds
checked bytes after the digest step), `OnlyVerifiedFiles` and `DeliveredComplete`.
It yields `OnlyVerifiedFilesInPlace`, `DeliveryIsComplete`, `ReportedFailureIsClean`, both
together `DownloadIsAllOrNothing` (of failures whose cleanup is not itself stopped), and,
with the action-wise argument, `InPlaceIsKept`, which is stated over the steps (`NothingReplaced`)
and only proved, no run checks it. `AcceptedWasShown` needs
`HistoryInv`: the page the index shows now, and each page fetched in this attempt, is
among those it showed during the attempt.
`PublicationRefined` proves that the verifier implements `ReleasePublication`: the
initial states map to the initial state, and `PromiseStep` maps each step to a step of
the abstract machine or to a stutter.

**Publication workflow** (`ReleaseProofs`). `WorkflowIInv` conjoins the type invariant with
`Ordered` (a job that has started has what it needs, which holds across jobs run again
because those that need a job go back with it, `DependentsClosed`), `OneJob`, `Bundled`,
`Verified` (an index whose verification has succeeded holds the run's bundle, and what a
running one has passed is there: a name in use is never free again, `IndexStep`) and
`Absence` (a page in use when the run's turn came, and found absent since, has been
deleted for good). `StepCases` splits a step by what it does to the jobs, so that each
conjunct is kept by a lemma of its own. `ReleaseIsSound` follows from `Verified` and `Absence`;
`ReleaseIsStaged` is the refinement of StagedRelease, where only `Upload` maps to a step
that is not a stutter (`StagedStep`).

**Only model-checked.** Liveness and everything else under fairness is out of the prover's reach:
`CompilationEnds`, `CaptureEnds`, `RunEnds`, `RunsEnd`. So is what a RECURSIVE definition
computes: `ExpansionIsInlining` compares with the recursive inlining of
`ExpansionReference`.

## 6. Abstractions and what is left out

* Amplitudes are integers up to a common factor: X, H, Z, CX, reset,
  observation and channels with rational Kraus weights. Rotations have irrational
  amplitudes and are modelled up to lowering only. Norm and positivity checks of the
  engines hold in exact arithmetic and are left out; the one effect of rounding that
  changes control, the draw beyond the summed probabilities, is an action.
* A duration so short that adding it to a start does not change the float makes an
  operation without length, which its constructor turns down; times in the model add
  exactly.
* Damping strengths, calibration data, phases, basis changes and rotation explanations
  are real-number functions of finished results and are not modelled. Of the noise-impact
  distances the Hilbert-Schmidt distance is kept as its square.
* Reported runs carry no schedule and no idle decoherence. `ProtectionPlan`,
  `NoiseProfile` and `SimulationRequest` are validated records that nothing in the running
  system reads.
* Coverage is recorded with every run and never names an unsupported feature, so that the
  branches of `build_bare_reliability_report` for a run without coverage
  (`runtime.py:1100`) and for unsupported features are left out.
* A function's source text is there or not, and stays so while captures run: `capture`
  asks the source provider again at every call, also for a function captured before, and
  gets the same answer.
* Serialisation, identifiers' text, rendering, the command line's parsing and the older
  `Program` builder with its compile path are not modelled.
* The NumPy engines are modelled over exact numbers: dtypes, contiguity and norm checks
  are left out, and of the rotations RY by a right angle stands for them (the others have
  irrational or complex entries). That rounding agrees is what the repository's parity
  tests compare.
* In the release verifier, URLs, hashes and JSON are reduced to the distinctions that
  the code draws, one intrusion per behaviour is enough to meet each step once, and the
  index does not move while it is being asked a single question. `Killed` is the death of
  the process, after which the system keeps what it has written; the tool never calls
  `fsync`, and a loss of power is not modelled.
* In the workflow, a name stands for a project's wheel and source distribution; the checks of
  the build job are the comparison of the tag with the run's commit and a build that
  succeeds or fails; the smoke test after the verification is part of its success. The order
  of uploads, and whether an index takes the same bytes again, are left open. `ci.yml` and
  `release_smoke.py` (building and comparing archives) are not modelled.

The list of components in `PROJECT.json` names each part of the repository with the
extent to which it is modelled.

## 7. Checking

    tlc -workers 2 -config MC_ScheduledExecution.cfg MC_ScheduledExecution
    tlapm ReleaseProofs.tla

Every configuration finishes within a few minutes. The three configurations of the second
table above end with a counterexample.
