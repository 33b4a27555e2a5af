------------------------------ MODULE Schedule ------------------------------
(***************************************************************************)
(* schedule_asap (packages/simulator, scheduling.py): an allocated circuit *)
(* and declared operation durations become start and end times for every   *)
(* operation and idle intervals for every slot.                            *)
(*                                                                         *)
(* Times are natural numbers of some unit.  The code's are floats; it only *)
(* adds durations, takes maxima and compares, and rounding keeps sums of   *)
(* positive numbers in order, so the order of two times is the same.  One  *)
(* effect is lost: a duration so short that adding it to the start does    *)
(* not change the sum makes an operation without length, which the         *)
(* constructor of ScheduledOperation turns down.                           *)
(***************************************************************************)
EXTENDS Integers, Sequences, FiniteSets

CONSTANTS
    Slots,           \* the circuit's allocated slots, range(qubit_count)
    OperationIds,    \* IR operation identifiers
    Circuits,        \* the operations of the circuits that are scheduled
    Profiles,        \* timing profiles: a duration per operation identifier
    NoTiming,        \* the entry of an operation the profile does not time
    Times            \* the moments a competing schedule may start operations

OpKinds == {"gate", "cx", "reset", "observe"}

Operations == [id : OperationIds, kind : OpKinds, slots : Seq(Slots)]

\* Operation identifiers of one circuit are distinct, as lowering makes them.
ASSUME CircuitsAreOperations ==
    \A c \in Circuits :
        /\ c \in Seq(Operations)
        /\ \A i, j \in 1 .. Len(c) : c[i].id = c[j].id => i = j

ASSUME ProfilesAreDurations ==
    /\ Profiles \subseteq [OperationIds -> Int \union {NoTiming}]
    /\ NoTiming \notin Int

ASSUME TimesAreNaturals == Times \subseteq Nat

VARIABLES
    circuit,      \* circuit.operations; never assigned
    profile,      \* timing_profile; never assigned
    available,    \* slot_available: when each slot is free again
    scheduled,    \* scheduled_operations: the start and end of each operation
    idle,         \* idle_intervals, in no order
    peak,         \* peak_duration_ns
    phase         \* "scheduling", then how schedule_asap ended

scheduleVars == <<circuit, profile, available, scheduled, idle, peak, phase>>

-----------------------------------------------------------------------------

\* targets + controls.
Involved(op) == {op.slots[r] : r \in 1 .. Len(op.slots)}

\* max(times, default=0) of times that are not negative: one element.
FirstOf(times) == {t \in times \union {0} : \A u \in times : t <= u}    \* mutant
LatestOf(times) == {t \in times \union {0} : \A u \in times : u <= t}

\* A positive declared duration.
IsNumber(op) == profile[op.id] \in Int    \* mutant: sign not checked
IsTimed(op) == profile[op.id] \in Int /\ profile[op.id] > 0

NextOperation == circuit[Len(scheduled) + 1]

\* When the slots of an operation are free.
AllFreeTimes(op) == {available[slot] : slot \in Slots}    \* mutant: waits for every slot
FreeTimes(op) == {available[slot] : slot \in Involved(op)}

\* The operations of c that work on a slot.
Using(c, slot) == {i \in 1 .. Len(c) : slot \in Involved(c[i])}

\* The order the busy ranges of a slot are sorted in.
SortedBefore(ops, i, j) ==
    \/ ops[i].start < ops[j].start
    \/ ops[i].start = ops[j].start /\ i < j

\* The idle interval between the cursor, where the given ranges have ended,
\* and a later moment.
Gap(slot, ends, until) ==
    {[slot |-> slot, start |-> cursor, end |-> until] :
        cursor \in {c \in LatestOf(ends) : c < until}}

\* The gaps before each operation of a slot and after its last one.
IdleBetween(c, ops, slot, duration) ==    \* mutant: the time after the last operation forgotten
    UNION {Gap(slot, {ops[j].end : j \in {k \in Using(c, slot) : SortedBefore(ops, k, i)}},
               ops[i].start) : i \in Using(c, slot)}
IdleOn(c, ops, slot, duration) ==
    (UNION {Gap(slot, {ops[j].end : j \in {k \in Using(c, slot) : SortedBefore(ops, k, i)}},
                ops[i].start) : i \in Using(c, slot)})
    \union Gap(slot, {ops[j].end : j \in Using(c, slot)}, duration)

IdleIntervals(c, ops, duration) == UNION {IdleOn(c, ops, slot, duration) : slot \in Slots}

\* ExecutionSchedule.__init__ on times; it does not compare operations with
\* each other or with the idle intervals.
IsExecutionSchedule(ops, intervals, duration) ==
    /\ \A i \in 1 .. Len(ops) :
          0 <= ops[i].start /\ ops[i].start < ops[i].end /\ ops[i].end <= duration
    /\ \A interval \in intervals :
          /\ 0 <= interval.start /\ interval.start < interval.end
          /\ interval.end <= duration
    /\ \A a, b \in intervals :
          a.slot = b.slot /\ a # b => a.end <= b.start \/ b.end <= a.start

-----------------------------------------------------------------------------

ScheduleInit ==
    /\ circuit \in Circuits
    /\ profile \in Profiles
    /\ available = [slot \in Slots |-> 0]
    /\ scheduled = <<>>
    /\ idle = {}
    /\ peak = 0
    /\ phase = "scheduling"

\* An operation starts when the last of its slots is free.
ScheduleOperation ==
    /\ phase = "scheduling"
    /\ Len(scheduled) < Len(circuit)
    /\ IsTimed(NextOperation)
    /\ \E start \in LatestOf(FreeTimes(NextOperation)) :
          LET end == start + profile[NextOperation.id]
          IN  /\ scheduled' = Append(scheduled, [start |-> start, end |-> end])
              /\ available' = [slot \in Slots |->
                                  IF slot \in Involved(NextOperation) THEN end
                                  ELSE available[slot]]
    /\ UNCHANGED <<circuit, profile, idle, peak, phase>>

\* MissingOperationTimingError or OperationTimingError: no schedule results.
RejectTiming ==
    /\ phase = "scheduling"
    /\ Len(scheduled) < Len(circuit)
    /\ ~IsTimed(NextOperation)
    /\ phase' = "untimed"
    /\ UNCHANGED <<circuit, profile, available, scheduled, idle, peak>>

\* The peak, the idle intervals, and the constructor of ExecutionSchedule.
FinishSchedule ==
    /\ phase = "scheduling"
    /\ Len(scheduled) = Len(circuit)
    /\ \E latest \in LatestOf({available[slot] : slot \in Slots}) :
          /\ peak' = latest
          /\ idle' = IdleIntervals(circuit, scheduled, latest)
          /\ phase' = IF IsExecutionSchedule(scheduled, idle', latest)
                      THEN "scheduled" ELSE "inconsistent"
    /\ UNCHANGED <<circuit, profile, available, scheduled>>

Schedule == ScheduleOperation \/ RejectTiming \/ FinishSchedule

ScheduleDone == phase # "scheduling" /\ UNCHANGED scheduleVars

ScheduleNext == Schedule \/ ScheduleDone

ScheduleSpec == ScheduleInit /\ [][ScheduleNext]_scheduleVars /\ WF_scheduleVars(Schedule)

-----------------------------------------------------------------------------
(* Properties.                                                             *)

ScheduleTypeOK ==
    /\ circuit \in Circuits /\ profile \in Profiles
    /\ available \in [Slots -> Nat]
    /\ scheduled \in Seq([start : Nat, end : Nat])
    /\ Len(scheduled) <= Len(circuit)
    /\ peak \in Nat
    /\ phase \in {"scheduling", "scheduled", "untimed", "inconsistent"}

\* A slot serves one operation at a time, in the circuit's order: no later
\* operation on a slot starts before an earlier one has ended, however the
\* two are connected to the rest of the circuit.
SlotExclusive ==
    \A i, j \in 1 .. Len(scheduled) :
        i < j /\ Involved(circuit[i]) \intersect Involved(circuit[j]) # {}
        => scheduled[i].end <= scheduled[j].start

\* A choice of start times that executes the circuit: durations as declared,
\* operations of a slot one after the other.
Executes(starts) ==
    \A i, j \in 1 .. Len(scheduled) :
        i < j /\ Involved(circuit[i]) \intersect Involved(circuit[j]) # {}
        => starts[i] + profile[circuit[i].id] <= starts[j]

\* "As soon as possible" is meant literally: no choice of start times that
\* executes the circuit starts any operation earlier than the schedule does.
EarliestOfAll ==
    \A starts \in [1 .. Len(scheduled) -> Times] :
        Executes(starts) => \A i \in 1 .. Len(scheduled) : scheduled[i].start <= starts[i]

\* A slot is busy or idle at every moment up to the peak and never both: the
\* idle intervals account for all the time that the operations leave.
SlotTimeAccounted ==
    phase = "scheduled" =>
        \A slot \in Slots : \A t \in 0 .. peak - 1 :
            Cardinality({i \in Using(circuit, slot) :
                            scheduled[i].start <= t /\ t < scheduled[i].end})
            + Cardinality({interval \in idle : interval.slot = slot
                              /\ interval.start <= t /\ t < interval.end}) = 1

=============================================================================
