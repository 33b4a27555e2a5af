--------------------------- MODULE TraceDebugger ---------------------------
(***************************************************************************)
(* Traces, their inspections and the debugger (packages/runtime: trace.py, *)
(* inspection.py, debugger.py; apps/cli).  A program is run with a trace,  *)
(* edited or not, and run again; a debugger session is put together from   *)
(* a circuit, a trace and an inspection, each of either run, and read by   *)
(* the interactive loop or the two displays of the run command.            *)
(*                                                                         *)
(* The two runs are of programs with one identifier: a Program that was    *)
(* changed in between, or another one built with the same program_id.      *)
(* Artifacts of other programs are told apart by the circuit identifier    *)
(* and are left out.  Equal operations have equal identifiers, sources and *)
(* provenance.                                                             *)
(***************************************************************************)
EXTENDS CircuitExecution

CONSTANTS
    Edits(_),    \* the circuits that a program with a circuit may become
    NoSession, NoView

ASSUME EditsAreCircuits == \A c \in Circuits : Edits(c) \subseteq Circuits

ASSUME NoneIsNoOutcome ==
    \A c \in Circuits : \A i \in DOMAIN c : NoEvidence \notin Outcomes(c[i].targets)

VARIABLES
    width,       \* qubit_count of the circuit
    recorded,    \* the traces of the runs so far, with their circuits
    session,     \* the arguments of the session, by the run each comes from
    screen       \* the view rendered last

debuggerVars == <<executionVars, width, recorded, session, screen>>

MaxRecorded == 2    \* bound: two runs

Widths(operations) ==
    {w \in 1 .. Cardinality(Slots) :
        \A i \in DOMAIN operations :
            ToSet(operations[i].targets) \cup {operations[i].control} \subseteq 0 .. w - 1}

-----------------------------------------------------------------------------
(* Inspection of a trace.                                                  *)

IsMixedByChance(vector, slot) ==    \* mutant: every slot in superposition
    \E b, c \in BasisStates : vector[b] # 0 /\ vector[c] # 0 /\ slot \in b \ c
\* One slot's reduced density matrix has purity one exactly if its determinant
\* is zero.
IsMixed(vector, slot) ==
    LET without == {b \in BasisStates : slot \notin b}
        zero == MapThenSumSet(LAMBDA b : vector[b] * vector[b], without)
        one  == MapThenSumSet(LAMBDA b : vector[b \cup {slot}] * vector[b \cup {slot}], without)
        off  == MapThenSumSet(LAMBDA b : vector[b] * vector[b \cup {slot}], without)
    IN  zero * one # off * off

Report(vector, w) ==
    [amplitudes |-> [b \in SUBSET (0 .. w - 1) |-> vector[b]],
     entangled  |-> {slot \in 0 .. w - 1 : IsMixed(vector, slot)}]

\* inspect_execution_trace: the report before a step is the one after the last.
ReportBeforeInitial(run, i) == Report(GroundState, run.width)   \* mutant: never advanced
ReportBefore(run, i) ==
    Report(IF i = 1 THEN GroundState ELSE run.steps[i - 1].after, run.width)

InspectedStep(run, i) ==
    LET step   == run.steps[i]
        before == ReportBefore(run, i)
        after  == Report(step.after, run.width)
    IN  [operation |-> run.operations[step.op],
         measurement |-> <<step.probabilities, step.outcome>>, reset |-> step.reset,
         before |-> before, after |-> after,
         newlyEntangled |-> after.entangled \ before.entangled,
         newlySeparable |-> before.entangled \ after.entangled]

StepInspection(run) == [i \in DOMAIN run.steps |-> InspectedStep(run, i)]

-----------------------------------------------------------------------------
(* The session's constructor.                                              *)

MetadataMatchesGate(inspected, operation, step) ==     \* mutant: no evidence
    inspected.operation = operation
MetadataMatches(inspected, operation, step) ==
    /\ inspected.operation = operation
    /\ inspected.measurement = <<step.probabilities, step.outcome>>
    /\ inspected.reset = step.reset

IsStepIndex(index, run) == index \in 0 .. Len(run.steps) - 1

SessionAccepted(operations, run, inspection, start) ==
    /\ Len(operations) = Len(run.steps)
    /\ Len(run.steps) = Len(inspection)
    /\ IF run.steps = <<>> THEN start = 0 ELSE IsStepIndex(start, run)
    /\ \A i \in DOMAIN run.steps :
          LET step == run.steps[i] IN
          /\ operations[i] = run.operations[step.op]
          /\ step.op = i
          /\ MetadataMatches(inspection[i], run.operations[step.op], step)

-----------------------------------------------------------------------------
(* Runs.                                                                   *)

DebuggerInit ==
    /\ ExecutionInit
    /\ width \in Widths(circuit)
    /\ recorded = <<>> /\ session = NoSession /\ screen = NoView

RunTraced == EngineStep /\ UNCHANGED <<width, recorded, session, screen>>

KeepEngine == UNCHANGED <<circuit, request, pc, state, density, observed, lossy, measured,
                          resets, shots, trace, noiseEvents>>

\* The run returns its result with the trace.
Record ==
    /\ status = "finished" /\ request.traced
    /\ recorded' = Append(recorded, [operations |-> circuit, width |-> width, steps |-> trace])
    /\ status' = "recorded"
    /\ KeepEngine /\ UNCHANGED <<width, session, screen>>

RunAgain ==
    /\ status = "recorded" /\ Len(recorded) < MaxRecorded
    /\ circuit' \in Edits(circuit) /\ request' \in Requests
    /\ width' \in Widths(circuit')
    /\ status' = "requested" /\ pc' = 1
    /\ state' = GroundState /\ density' = GroundDensity
    /\ observed' = 0 /\ lossy' = FALSE
    /\ measured' = <<>> /\ resets' = <<>> /\ shots' = <<>>
    /\ trace' = <<>> /\ noiseEvents' = <<>>
    /\ UNCHANGED <<recorded, session, screen>>

-----------------------------------------------------------------------------
(* A session over a run's circuit, a run's trace and a run's inspection.   *)

OpenSession ==
    /\ status = "recorded" /\ session = NoSession
    /\ \E c, t, i \in DOMAIN recorded, start \in 0 .. Len(recorded[1].steps) :
          /\ session' = [circuit |-> c, trace |-> t, inspection |-> i, current |-> start]
          /\ status' = IF SessionAccepted(recorded[c].operations, recorded[t],
                                          StepInspection(recorded[i]), start)
                       THEN "session" ELSE "session refused"
    /\ KeepEngine /\ UNCHANGED <<width, recorded, screen>>

Traced == recorded[session.trace]
StepCount == Len(Traced.steps)

\* view_at
View(index) ==
    LET step      == Traced.steps[index + 1]
        inspected == InspectedStep(recorded[session.inspection], index + 1)
    IN  [index |-> index, operation |-> Traced.operations[step.op],
         before |-> inspected.before, after |-> inspected.after,
         newlyEntangled |-> inspected.newlyEntangled,
         newlySeparable |-> inspected.newlySeparable]

KeepRuns == KeepEngine /\ UNCHANGED <<width, recorded>>

\* The head of run_debugger.
StartLoop ==
    /\ status = "session"
    /\ IF StepCount = 0
       THEN status' = "quit" /\ UNCHANGED screen
       ELSE status' = "debugging" /\ screen' = View(session.current)
    /\ KeepRuns /\ UNCHANGED session

\* go_to, then the view of the new session.
ShowFrom(index) ==
    /\ session' = [session EXCEPT !.current = index]
    /\ screen' = View(index)

\* "n" and "p"; at an end of the trace a message is printed.
NextStep ==
    /\ status = "debugging"
    /\ IF session.current = StepCount - 1
       THEN UNCHANGED <<session, screen>>
       ELSE ShowFrom(session.current + 1)
    /\ KeepRuns /\ UNCHANGED status

PreviousStep ==
    /\ status = "debugging"
    /\ IF session.current = 0
       THEN UNCHANGED <<session, screen>>
       ELSE ShowFrom(session.current - 1)
    /\ KeepRuns /\ UNCHANGED status

\* "g N" takes a one-based number; a wrong one leaves the session.
GoToShown(number) ==    \* mutant: the view of the step, the number of the session
    /\ session' = [session EXCEPT !.current = number]
    /\ screen' = View(number - 1)
GoToStep(number) == ShowFrom(number - 1)

GoTo ==
    /\ status = "debugging"
    /\ \E number \in 0 .. StepCount + 1 :
          IF IsStepIndex(number - 1, Traced)
          THEN GoToStep(number)
          ELSE UNCHANGED <<session, screen>>
    /\ KeepRuns /\ UNCHANGED status

\* "q", or the end of the input.
Quit ==
    /\ status = "debugging" /\ status' = "quit"
    /\ KeepRuns /\ UNCHANGED <<session, screen>>

\* run --step N: one view, or an error.
ShowOne ==
    /\ status = "session"
    /\ \E number \in 0 .. StepCount + 1 :
          IF IsStepIndex(number - 1, Traced)
          THEN status' = "quit" /\ screen' = View(number - 1)
          ELSE status' = "step error" /\ UNCHANGED screen
    /\ KeepRuns /\ UNCHANGED session

\* run --trace: every view in order; the session keeps its selected step.
ShowAll ==
    /\ status \in {"session", "listing"}
    /\ LET shown == IF status = "session" THEN 0 ELSE screen.index + 1
       IN  IF shown < StepCount
           THEN status' = "listing" /\ screen' = View(shown)
           ELSE status' = "quit" /\ UNCHANGED screen
    /\ KeepRuns /\ UNCHANGED session

DebuggerDone ==
    /\ status \notin {"requested", "running", "finished", "recorded", "session", "debugging",
                      "listing"}
    /\ UNCHANGED debuggerVars

DebuggerNext ==
    \/ RunTraced \/ Record \/ RunAgain \/ OpenSession
    \/ StartLoop \/ NextStep \/ PreviousStep \/ GoTo \/ Quit
    \/ ShowOne \/ ShowAll
    \/ DebuggerDone

DebuggerSpec == DebuggerInit /\ [][DebuggerNext]_debuggerVars

-----------------------------------------------------------------------------
(* Properties.                                                             *)

HasSession == session # NoSession
SessionRefused == status = "session refused"

\* The recorded runs have a step for each operation, a session's selected step
\* exists, and the engine's values keep their shapes.
DebuggerTypeOK ==
    /\ ExecutionTypeOK
    /\ width \in Widths(circuit)
    /\ Len(recorded) <= MaxRecorded
    /\ \A n \in DOMAIN recorded :
          Len(recorded[n].steps) = Len(recorded[n].operations)
    /\ HasSession /\ ~ SessionRefused =>
          session.current = 0 \/ IsStepIndex(session.current, Traced)

\* The constructor compares operations and evidence but never a state; yet it
\* accepts exactly the circuits, traces and inspections that say the same of every
\* state, whichever runs they are from: an inspection of another trajectory is
\* refused, the artifacts of one run never are.  The only thing that it does not
\* notice is that two programs differ in their number of unused slots.
SessionIsOneRun ==
    HasSession =>
        LET c == recorded[session.circuit]
            i == recorded[session.inspection]
            SameRun == c.operations = Traced.operations /\ i.operations = Traced.operations
                         /\ i.steps = Traced.steps
            Selects == session.current = 0 \/ IsStepIndex(session.current, Traced)
        IN  ~ SessionRefused <=> SameRun /\ Selects

\* What is displayed is the session's trace at the step that the loop is at: the
\* states before and after it, which the inspection never compared with it.
ViewsAreFaithful ==
    screen # NoView =>
        LET step == Traced.steps[screen.index + 1]
            Shows(report, vector) == \A b \in DOMAIN report.amplitudes :
                                         report.amplitudes[b] = vector[b]
        IN  /\ status = "debugging" => screen.index = session.current
            /\ Shows(screen.before, step.before) /\ Shows(screen.after, step.after)

\* The entanglement transition displayed is one that the operation can cause: only
\* a CX entangles, no other gate changes which slots are entangled, and a slot
\* observed or reset in a trajectory is separable afterwards.
EntanglementExplained ==
    screen # NoView =>
        LET step == Traced.steps[screen.index + 1]
            opcode == screen.operation.opcode
        IN  /\ screen.newlyEntangled # {} => opcode = "CX"
            /\ opcode \in DOMAIN Matrix => screen.newlySeparable = {}
            /\ step.outcome # NoEvidence \/ step.reset # NoEvidence =>
                  ToSet(screen.operation.targets) \cap screen.after.entangled = {}

\* What is displayed is the session's trace, and explains it.
DisplayIsFaithful == ViewsAreFaithful /\ EntanglementExplained

=============================================================================
