------------------------- MODULE ScheduledExecution -------------------------
(***************************************************************************)
(* Running a circuit with schedule-aware decoherence: a schedule and a     *)
(* circuit meet in a DensityMatrixExecutionRequest,                        *)
(* validate_schedule_for_circuit (scheduling.py) decides whether they      *)
(* belong together, and simulate_density_matrix (density_matrix.py) walks  *)
(* the operations and applies idle decoherence slot by slot.               *)
(*                                                                         *)
(* ExecutionSchedule is a public immutable value.  It may be the           *)
(* scheduler's own, one made for another version of the circuit, or one    *)
(* that was written down and read back with other times.                   *)
(***************************************************************************)
EXTENDS Schedule, SequencesExt

CONSTANTS
    Tol,        \* the tolerance of isclose, 1e-12 ns in the code
    Shifts,     \* by how much the times of a foreign schedule may differ
    Exchanged   \* the circuits and profiles that also run with the schedules
                \* of each other, and with times moved: pairs

ASSUME TolIsNatural == Tol \in Nat

ASSUME ShiftsAreIntegers == Shifts \subseteq Int

\* Any declared duration is far above the tolerance: times are nanoseconds.
ASSUME DurationsAboveTol ==
    \A p \in Profiles : \A id \in OperationIds :
        p[id] \in Int /\ p[id] > 0 => p[id] > 2 * Tol

\* range(qubit_count)
ASSUME SlotsAreARange == IsFiniteSet(Slots) /\ Slots = 0 .. Cardinality(Slots) - 1

\* The operands of an operation are different slots: the control of a CX is not
\* its target (semantics/model.py).
ASSUME OperandsAreDistinct ==
    \A c \in Circuits : \A i \in 1 .. Len(c) : \A r, q \in 1 .. Len(c[i].slots) :
        c[i].slots[r] = c[i].slots[q] => r = q

VARIABLES
    target,     \* the circuit of the request
    candidate,  \* the schedule of the request
    run,        \* how far the request came
    lastEnd,    \* slot_last_end
    step,       \* operations executed
    events,     \* decoherence_events: the intervals, in order of application
    observed    \* terminal_observation is set

requestVars   == <<target, candidate>>
executionVars == <<run, lastEnd, step, events, observed>>
runVars       == <<scheduleVars, requestVars, executionVars>>

-----------------------------------------------------------------------------
(* The ASAP schedule of a circuit as a function of the durations.          *)

Share(c, i, j) == Involved(c[i]) \intersect Involved(c[j]) # {}

\* The end of every operation.
AsapEnds(c, duration) ==
    LET start(end, i) == CHOOSE t \in LatestOf({end[j] : j \in {k \in 1 .. i - 1 : Share(c, k, i)}}) : TRUE
        end[i \in 1 .. Len(c)] == start(end, i) + duration[i]
    IN  end

AsapLast(c, duration) ==    \* mutant: the last operation taken for the latest
    IF c = <<>> THEN 0 ELSE AsapEnds(c, duration)[Len(c)]
AsapPeak(c, duration) ==
    LET ends == AsapEnds(c, duration)
    IN  CHOOSE t \in LatestOf({ends[i] : i \in {k \in 1 .. Len(c) : Involved(c[k]) # {}}}) : TRUE

-----------------------------------------------------------------------------
(* validate_schedule_for_circuit.                                          *)

Close(a, b) == a - b <= Tol /\ b - a <= Tol

\* The schedule's own times as durations.
OwnDurations(schedule) ==
    [i \in 1 .. Len(schedule.ops) |-> schedule.ops[i].end - schedule.ops[i].start]

\* Coverage, order and fingerprint: the schedule was made for these
\* operations with these slots.
MadeFor(schedule, c) == schedule.fingerprint = c

IsAsapPeak(schedule, c) ==    \* mutant: only the total duration compared
    Close(schedule.peak, AsapPeak(c, OwnDurations(schedule)))
IsAsapRealization(schedule, c) ==
    LET durations == OwnDurations(schedule)
        ends      == AsapEnds(c, durations)
    IN  /\ \A i \in 1 .. Len(c) :
              /\ Close(schedule.ops[i].end, ends[i])
              /\ Close(schedule.ops[i].start, ends[i] - durations[i])
        /\ Close(schedule.peak, AsapPeak(c, durations))

IdleEvidenceUnchecked(schedule, c) == TRUE    \* mutant
IdleEvidenceMatches(schedule, c) ==
    schedule.idle = IdleIntervals(c, schedule.ops, schedule.peak)

ValidSchedule(schedule, c) ==
    /\ MadeFor(schedule, c)
    /\ IsAsapRealization(schedule, c)
    /\ IdleEvidenceMatches(schedule, c)

-----------------------------------------------------------------------------

\* The scheduler's own result as a value.
OwnSchedule ==
    [fingerprint |-> circuit, ops |-> scheduled, idle |-> idle, peak |-> peak]

\* The schedule with every operation and the peak moved, and its idle
\* intervals left alone or made to follow.
Moved(shift, late, following) ==
    LET ops == [i \in 1 .. Len(scheduled) |->
                  [start |-> scheduled[i].start + shift[i], end |-> scheduled[i].end + shift[i]]]
    IN  [fingerprint |-> circuit, ops |-> ops, peak |-> peak + late,
         idle |-> IF following THEN IdleIntervals(circuit, ops, peak + late) ELSE idle]

Submitted(c, schedule) ==
    /\ target' = c /\ candidate' = schedule
    /\ run' = "submitted"
    /\ UNCHANGED <<scheduleVars, lastEnd, step, events, observed>>

\* The circuit as it is now, and what it may have become.
Recompiled ==
    {circuit} \union
    {c \in Circuits : <<circuit, profile>> \in Exchanged /\ <<c, profile>> \in Exchanged}

\* A circuit is run with the schedule of a circuit: its own, or another one
\* when the program was compiled again in the meantime.
SubmitOwn ==
    /\ phase = "scheduled" /\ run = "idle"
    /\ \E c \in Recompiled : Submitted(c, OwnSchedule)

\* A circuit is run with other times, which the constructor lets pass.
SubmitMoved ==
    /\ phase = "scheduled" /\ run = "idle"
    /\ <<circuit, profile>> \in Exchanged
    /\ \E shift \in [1 .. Len(scheduled) -> Shifts], late \in Shifts, following \in BOOLEAN :
          LET schedule == Moved(shift, late, following)
          IN  /\ IsExecutionSchedule(schedule.ops, schedule.idle, schedule.peak)
              /\ Submitted(circuit, schedule)

\* The request is validated before anything is executed.
Accept ==
    /\ run = "submitted"
    /\ ValidSchedule(candidate, target)
    /\ run' = "executing"
    /\ UNCHANGED <<scheduleVars, requestVars, lastEnd, step, events, observed>>

\* ScheduleCircuitBindingError.
Reject ==
    /\ run = "submitted"
    /\ ~ValidSchedule(candidate, target)
    /\ run' = "rejected"
    /\ UNCHANGED <<scheduleVars, requestVars, lastEnd, step, events, observed>>

-----------------------------------------------------------------------------
(* simulate_density_matrix.                                                *)

CurrentOp   == target[step + 1]
CurrentSpan == candidate.ops[step + 1]

\* The events of one idle slot, none when no time has passed.
EventsUntil(slot, until) ==
    IF until > lastEnd[slot]
    THEN <<[slot |-> slot, start |-> lastEnd[slot], end |-> until]>> ELSE <<>>

\* Idle decoherence on each slot in operand order, then the operation.
Execute ==
    /\ run = "executing" /\ step < Len(target)
    /\ observed => CurrentOp.kind = "observe"
    /\ events' = events \o FlattenSeq([r \in 1 .. Len(CurrentOp.slots) |->
                              EventsUntil(CurrentOp.slots[r], CurrentSpan.start)])
    /\ lastEnd' = [slot \in Slots |-> IF slot \in Involved(CurrentOp) THEN CurrentSpan.end
                                      ELSE lastEnd[slot]]
    /\ observed' = (observed \/ CurrentOp.kind = "observe")
    /\ step' = step + 1
    /\ UNCHANGED <<scheduleVars, requestVars, run>>

\* DensityMatrixTerminalObservationError: no evolution after an observation.
RefuseEvolution ==
    /\ run = "executing" /\ step < Len(target)
    /\ observed /\ CurrentOp.kind # "observe"
    /\ run' = "refused"
    /\ UNCHANGED <<scheduleVars, requestVars, lastEnd, step, events, observed>>

\* The remaining idle time of every slot, up to the peak.
FinishRun ==
    /\ run = "executing" /\ step = Len(target)
    /\ events' = events \o FlattenSeq([r \in 1 .. Cardinality(Slots) |->
                              EventsUntil(r - 1, candidate.peak)])
    /\ run' = "finished"
    /\ UNCHANGED <<scheduleVars, requestVars, lastEnd, step, observed>>

-----------------------------------------------------------------------------

RunInit ==
    /\ ScheduleInit
    /\ target = <<>> /\ candidate = OwnSchedule
    /\ run = "idle" /\ lastEnd = [slot \in Slots |-> 0] /\ step = 0
    /\ events = <<>> /\ observed = FALSE

ScheduleStep == Schedule /\ UNCHANGED <<requestVars, executionVars>>

RunStep ==
    \/ ScheduleStep \/ SubmitOwn \/ SubmitMoved \/ Accept \/ Reject \/ Execute \/ RefuseEvolution \/ FinishRun

RunEnded == run \in {"finished", "rejected", "refused"} \/ phase \in {"untimed", "inconsistent"}

RunDone == RunEnded /\ UNCHANGED runVars

RunNext == RunStep \/ RunDone

\* Scheduling and simulation are synchronous calls; the caller is taken to
\* run the circuit it scheduled.
RunSpec == RunInit /\ [][RunNext]_runVars /\ WF_runVars(RunStep)

-----------------------------------------------------------------------------
(* Properties.                                                             *)

\* The scheduler's own work is turned down neither by the constructor of
\* ExecutionSchedule, when every operation works on at least one slot, nor by
\* the validator, which computes the earliest times as a function of the
\* durations where the scheduler keeps a table.
OwnScheduleAccepted ==
    /\ (\A i \in 1 .. Len(circuit) : Involved(circuit[i]) # {}) => phase # "inconsistent"
    /\ run = "rejected" => candidate # OwnSchedule \/ target # circuit

\* Whatever schedule is accepted, the circuit is executed as it is written:
\* operations of one slot overlap by at most twice the tolerance, and no
\* operation is put off for longer than its slots need.
AcceptedNearAsap ==
    run \in {"executing", "finished", "refused"} =>
        /\ \A i, j \in 1 .. Len(target) : i < j /\ Share(target, i, j) =>
              candidate.ops[i].end <= candidate.ops[j].start + 2 * Tol
        /\ \A j \in 1 .. Len(target) :
              \/ candidate.ops[j].start <= Tol
              \/ \E i \in 1 .. j - 1 : Share(target, i, j)
                    /\ candidate.ops[j].start <= candidate.ops[i].end + 2 * Tol

\* The validator turns down none of the scheduler's work, and accepts nothing
\* else than an ASAP schedule of the circuit, up to its tolerance.
AsapOnly == OwnScheduleAccepted /\ AcceptedNearAsap

\* While the circuit runs, the decoherence applied to a slot is exactly the
\* schedule's idle evidence up to the slot's last operation, each interval
\* once; a finished run has applied all of it.
IdleAppliedOnce ==
    run \in {"executing", "finished"} =>
        \A slot \in Slots :
            LET applied == {n \in DOMAIN events : events[n].slot = slot}
                due     == {interval \in candidate.idle : interval.slot = slot
                              /\ (run = "finished" \/ interval.end <= lastEnd[slot])}
            IN  /\ {events[n] : n \in applied} = due
                /\ \A m, n \in applied : m < n => events[m].end <= events[n].start

=============================================================================
