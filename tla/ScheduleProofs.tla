--------------------------- MODULE ScheduleProofs ---------------------------
(***************************************************************************)
(* Proofs about the ASAP scheduler, for every circuit, timing profile and  *)
(* number of slots, and about running a circuit with a schedule: what the  *)
(* validator accepts, for every tolerance and every schedule that is the   *)
(* scheduler's own or was written with other times.                        *)
(***************************************************************************)
EXTENDS ScheduledExecution, FoldFacts, SequenceTheorems

-----------------------------------------------------------------------------

\* The latest of some times is one of them, or 0, and none is later.
LEMMA LatestOfBounds ==
    ASSUME NEW times, NEW latest \in LatestOf(times)
    PROVE  /\ latest = 0 \/ latest \in times
           /\ \A u \in times : u <= latest
BY DEF LatestOf

\* What a scheduling step appends.
LEMMA ScheduleOperationStep ==
    ASSUME ScheduleTypeOK, ScheduleOperation
    PROVE  \E start \in Nat, end \in Nat :
              /\ start \in LatestOf(FreeTimes(NextOperation))
              /\ end = start + profile[NextOperation.id]
              /\ start < end
              /\ scheduled' = Append(scheduled, [start |-> start, end |-> end])
              /\ Len(scheduled') = Len(scheduled) + 1
              /\ \A i \in 1 .. Len(scheduled) : scheduled'[i] = scheduled[i]
              /\ scheduled'[Len(scheduled) + 1] = [start |-> start, end |-> end]
              /\ available' = [slot \in Slots |->
                                  IF slot \in Involved(NextOperation) THEN end
                                  ELSE available[slot]]
              /\ NextOperation = circuit[Len(scheduled) + 1]
              /\ Len(scheduled) + 1 \in 1 .. Len(circuit)
              /\ Involved(NextOperation) \subseteq Slots
<1>1. /\ circuit \in Seq(Operations)
      /\ scheduled \in Seq([start : Nat, end : Nat])
      /\ available \in [Slots -> Nat]
      /\ Len(scheduled) < Len(circuit)
  BY CircuitsAreOperations DEF ScheduleTypeOK, ScheduleOperation
<1>2. Len(scheduled) \in Nat /\ Len(circuit) \in Nat /\ Len(scheduled) + 1 \in 1 .. Len(circuit)
  BY <1>1
<1>3. NextOperation \in Operations
  BY <1>1, <1>2 DEF NextOperation
<1>4. Involved(NextOperation) \subseteq Slots
  BY <1>3 DEF Involved, Operations
<1>5. PICK start \in LatestOf(FreeTimes(NextOperation)) :
          /\ scheduled' = Append(scheduled,
                [start |-> start, end |-> start + profile[NextOperation.id]])
          /\ available' = [slot \in Slots |->
                              IF slot \in Involved(NextOperation)
                              THEN start + profile[NextOperation.id]
                              ELSE available[slot]]
  BY DEF ScheduleOperation
<1>6. start \in Nat
  BY <1>1, <1>4, <1>5 DEF LatestOf, FreeTimes
<1>7. profile[NextOperation.id] \in Nat /\ profile[NextOperation.id] > 0
  BY DEF ScheduleOperation, IsTimed
<1>8. start + profile[NextOperation.id] \in Nat /\ start < start + profile[NextOperation.id]
  BY <1>6, <1>7
<1>9. /\ Len(scheduled') = Len(scheduled) + 1
      /\ \A i \in 1 .. Len(scheduled) : scheduled'[i] = scheduled[i]
      /\ scheduled'[Len(scheduled) + 1] =
            [start |-> start, end |-> start + profile[NextOperation.id]]
  BY <1>1, <1>5, <1>6, <1>8
<1> QED
  BY <1>2, <1>4, <1>5, <1>6, <1>8, <1>9 DEF NextOperation

LEMMA ScheduleTypeStep ==
    ScheduleTypeOK /\ [ScheduleNext]_scheduleVars => ScheduleTypeOK'
<1> SUFFICES ASSUME ScheduleTypeOK, [ScheduleNext]_scheduleVars
             PROVE  ScheduleTypeOK'
  OBVIOUS
<1>0. circuit \in Seq(Operations)
  BY CircuitsAreOperations DEF ScheduleTypeOK
<1>1. CASE ScheduleOperation
  <2>1. PICK start \in Nat, end \in Nat :
            /\ scheduled' = Append(scheduled, [start |-> start, end |-> end])
            /\ Len(scheduled') = Len(scheduled) + 1
            /\ available' = [slot \in Slots |->
                                IF slot \in Involved(NextOperation) THEN end
                                ELSE available[slot]]
            /\ Len(scheduled) + 1 \in 1 .. Len(circuit)
    BY <1>1, ScheduleOperationStep
  <2>2. scheduled' \in Seq([start : Nat, end : Nat])
    BY <2>1 DEF ScheduleTypeOK
  <2>3. available' \in [Slots -> Nat]
    BY <2>1 DEF ScheduleTypeOK
  <2> QED
    BY <1>1, <2>1, <2>2, <2>3 DEF ScheduleTypeOK, ScheduleOperation
<1>2. CASE RejectTiming
  BY <1>2 DEF ScheduleTypeOK, RejectTiming
<1>3. CASE FinishSchedule
  <2>1. peak' \in Nat
    BY <1>3 DEF FinishSchedule, ScheduleTypeOK, LatestOf
  <2> QED
    BY <1>3, <2>1 DEF ScheduleTypeOK, FinishSchedule
<1>4. CASE ScheduleDone \/ UNCHANGED scheduleVars
  BY <1>4 DEF ScheduleTypeOK, ScheduleDone, scheduleVars
<1> QED
  BY <1>1, <1>2, <1>3, <1>4 DEF ScheduleNext, Schedule

\* The scheduler's state keeps its shape.
THEOREM ScheduleTypeCorrect == ScheduleSpec => []ScheduleTypeOK
<1>1. ScheduleInit => ScheduleTypeOK
  <2> SUFFICES ASSUME ScheduleInit PROVE ScheduleTypeOK
    OBVIOUS
  <2>1. circuit \in Seq(Operations)
    BY CircuitsAreOperations DEF ScheduleInit
  <2> QED
    BY <2>1 DEF ScheduleInit, ScheduleTypeOK
<1> QED
  BY <1>1, ScheduleTypeStep, PTL DEF ScheduleSpec

-----------------------------------------------------------------------------
(* The availability table is the end of the last operation of each slot.   *)

\* No operation ends after the moment its slots are free again.
FreeAfterUse ==
    \A i \in 1 .. Len(scheduled) : \A slot \in Involved(circuit[i]) :
        scheduled[i].end <= available[slot]

\* A slot is free from the start, or from the end of one of its operations.
FreeSince ==
    \A slot \in Slots :
        \/ available[slot] = 0
        \/ \E j \in 1 .. Len(scheduled) :
              slot \in Involved(circuit[j]) /\ available[slot] = scheduled[j].end

\* Operations take their declared, positive time.
DurationKept ==
    \A i \in 1 .. Len(scheduled) :
        /\ profile[circuit[i].id] \in Nat /\ profile[circuit[i].id] > 0
        /\ scheduled[i].end = scheduled[i].start + profile[circuit[i].id]

ScheduleIInv ==
    /\ ScheduleTypeOK
    /\ FreeAfterUse
    /\ FreeSince
    /\ DurationKept
    /\ SlotExclusive
    /\ EarliestOfAll


\* Every start time chosen for the operations scheduled next restricts to one
\* for the operations scheduled so far.
LEMMA ExecutesRestricts ==
    ASSUME NEW starts \in [1 .. Len(scheduled') -> Times],
           Executes(starts)',
           Len(scheduled) \in Nat,
           Len(scheduled') = Len(scheduled) + 1,
           circuit' = circuit, profile' = profile
    PROVE  LET earlier == [i \in 1 .. Len(scheduled) |-> starts[i]]
           IN  earlier \in [1 .. Len(scheduled) -> Times] /\ Executes(earlier)
<1> DEFINE earlier == [i \in 1 .. Len(scheduled) |-> starts[i]]
<1>1. \A i \in 1 .. Len(scheduled) : i \in 1 .. Len(scheduled') /\ earlier[i] = starts[i]
  OBVIOUS
<1>2. earlier \in [1 .. Len(scheduled) -> Times]
  BY <1>1
<1>3. \A i, j \in 1 .. Len(scheduled') :
          i < j /\ Involved(circuit[i]) \intersect Involved(circuit[j]) # {}
          => starts[i] + profile[circuit[i].id] <= starts[j]
  BY DEF Executes
<1>4. Executes(earlier)
  BY <1>1, <1>3 DEF Executes
<1> QED
  BY <1>2, <1>4

LEMMA InitEstablishesIInv == ScheduleInit => ScheduleIInv
<1> SUFFICES ASSUME ScheduleInit PROVE ScheduleIInv
  OBVIOUS
<1>1. circuit \in Seq(Operations)
  BY CircuitsAreOperations DEF ScheduleInit
<1>2. ScheduleTypeOK
  BY <1>1 DEF ScheduleInit, ScheduleTypeOK
<1>3. Len(scheduled) = 0 /\ 1 .. Len(scheduled) = {}
  BY DEF ScheduleInit
<1>4. FreeAfterUse /\ DurationKept /\ SlotExclusive /\ EarliestOfAll
  BY <1>3 DEF FreeAfterUse, DurationKept, SlotExclusive, EarliestOfAll
<1>5. FreeSince
  BY DEF FreeSince, ScheduleInit
<1> QED
  BY <1>2, <1>4, <1>5 DEF ScheduleIInv

\* The step that appends an operation, conjunct by conjunct.
LEMMA AppendKeepsIInv ==
    ASSUME ScheduleIInv, ScheduleOperation
    PROVE  /\ FreeAfterUse' /\ FreeSince' /\ DurationKept'
           /\ SlotExclusive' /\ EarliestOfAll'
<1> DEFINE n == Len(scheduled) + 1
<1>1. PICK start \in Nat, end \in Nat :
          /\ start \in LatestOf(FreeTimes(NextOperation))
          /\ end = start + profile[NextOperation.id]
          /\ start < end
          /\ Len(scheduled') = n
          /\ \A i \in 1 .. Len(scheduled) : scheduled'[i] = scheduled[i]
          /\ scheduled'[n] = [start |-> start, end |-> end]
          /\ available' = [slot \in Slots |->
                              IF slot \in Involved(NextOperation) THEN end
                              ELSE available[slot]]
          /\ NextOperation = circuit[n]
          /\ n \in 1 .. Len(circuit)
          /\ Involved(NextOperation) \subseteq Slots
  BY ScheduleOperationStep DEF ScheduleIInv
<1>2. circuit' = circuit /\ profile' = profile
  BY DEF ScheduleOperation
<1>3. /\ Len(scheduled) \in Nat
      /\ available \in [Slots -> Nat]
      /\ \A i \in 1 .. Len(scheduled) : scheduled[i].start \in Nat /\ scheduled[i].end \in Nat
  <2>1. /\ scheduled \in Seq([start : Nat, end : Nat])
        /\ available \in [Slots -> Nat]
    BY DEF ScheduleIInv, ScheduleTypeOK
  <2>2. ASSUME NEW i \in 1 .. Len(scheduled)
        PROVE  scheduled[i].start \in Nat /\ scheduled[i].end \in Nat
    <3>1. scheduled[i] \in [start : Nat, end : Nat]
      BY <2>1, ElementOfSeq
    <3> QED
      BY <3>1
  <2>3. Len(scheduled) \in Nat
    BY <2>1
  <2> QED
    BY <2>1, <2>2, <2>3
<1>4. 1 .. n = (1 .. Len(scheduled)) \union {n}
  BY <1>3
<1>5. \A slot \in Involved(circuit[n]) : available[slot] <= start
  BY <1>1 DEF LatestOf, FreeTimes
<1>6. \A i \in 1 .. Len(scheduled) : Involved(circuit[i]) \subseteq Slots
  <2>1. circuit \in Seq(Operations) /\ Len(scheduled) <= Len(circuit)
    BY CircuitsAreOperations DEF ScheduleIInv, ScheduleTypeOK
  <2>2. \A i \in 1 .. Len(scheduled) : circuit[i] \in Operations
    BY <1>3, <2>1
  <2> QED
    BY <2>2 DEF Involved, Operations
<1>7. FreeAfterUse'
  <2> SUFFICES ASSUME NEW i \in 1 .. n, NEW slot \in Involved(circuit[i])
               PROVE  scheduled'[i].end <= available'[slot]
    BY <1>1, <1>2 DEF FreeAfterUse
  <2>1. CASE i = n
    BY <1>1, <2>1
  <2>2. CASE i \in 1 .. Len(scheduled)
    <3>1. slot \in Slots /\ scheduled[i].end <= available[slot]
      BY <1>6, <2>2 DEF ScheduleIInv, FreeAfterUse
    <3>2. CASE slot \in Involved(circuit[n])
      <4>1. available[slot] <= start
        BY <1>5, <3>2
      <4>2. available'[slot] = end /\ scheduled'[i] = scheduled[i]
        BY <1>1, <2>2, <3>1, <3>2
      <4> QED
        BY <1>1, <1>3, <2>2, <3>1, <4>1, <4>2
    <3>3. CASE slot \notin Involved(circuit[n])
      BY <1>1, <2>2, <3>1, <3>3
    <3> QED
      BY <3>2, <3>3
  <2> QED
    BY <1>4, <2>1, <2>2
<1>8. FreeSince'
  <2> SUFFICES ASSUME NEW slot \in Slots
               PROVE  \/ available'[slot] = 0
                      \/ \E j \in 1 .. n : /\ slot \in Involved(circuit[j])
                                           /\ available'[slot] = scheduled'[j].end
    BY <1>1, <1>2 DEF FreeSince
  <2>1. CASE slot \in Involved(circuit[n])
    BY <1>1, <1>4, <2>1
  <2>2. CASE slot \notin Involved(circuit[n])
    <3>1. available'[slot] = available[slot]
      BY <1>1, <2>2
    <3> QED
      BY <1>1, <1>4, <3>1 DEF ScheduleIInv, FreeSince
  <2> QED
    BY <2>1, <2>2
<1>9. DurationKept'
  <2> SUFFICES ASSUME NEW i \in 1 .. n
               PROVE  /\ profile[circuit[i].id] \in Nat /\ profile[circuit[i].id] > 0
                      /\ scheduled'[i].end = scheduled'[i].start + profile[circuit[i].id]
    BY <1>1, <1>2 DEF DurationKept
  <2>1. CASE i = n
    BY <1>1, <2>1 DEF ScheduleOperation, IsTimed
  <2>2. CASE i \in 1 .. Len(scheduled)
    BY <1>1, <2>2 DEF ScheduleIInv, DurationKept
  <2> QED
    BY <1>4, <2>1, <2>2
<1>10. SlotExclusive'
  <2> SUFFICES ASSUME NEW i \in 1 .. n, NEW j \in 1 .. n, i < j,
                      Involved(circuit[i]) \intersect Involved(circuit[j]) # {}
               PROVE  scheduled'[i].end <= scheduled'[j].start
    BY <1>1, <1>2 DEF SlotExclusive
  <2>1. i \in 1 .. Len(scheduled)
    BY <1>3, <1>4
  <2>2. CASE j = n
    <3>1. PICK slot : slot \in Involved(circuit[i]) /\ slot \in Involved(circuit[n])
      BY <2>2
    <3>2. slot \in Slots /\ scheduled[i].end <= available[slot] /\ available[slot] <= start
      BY <1>5, <1>6, <2>1, <3>1 DEF ScheduleIInv, FreeAfterUse
    <3>3. scheduled[i].end <= start
      BY <1>3, <2>1, <3>2
    <3> QED
      BY <1>1, <2>1, <2>2, <3>3
  <2>3. CASE j \in 1 .. Len(scheduled)
    BY <1>1, <2>1, <2>3 DEF ScheduleIInv, SlotExclusive
  <2> QED
    BY <1>4, <2>2, <2>3
<1>11. EarliestOfAll'
  <2> SUFFICES ASSUME NEW starts \in [1 .. Len(scheduled') -> Times], Executes(starts)',
                      NEW i \in 1 .. n
               PROVE  scheduled'[i].start <= starts[i]
    BY <1>1 DEF EarliestOfAll
  <2> DEFINE earlier == [k \in 1 .. Len(scheduled) |-> starts[k]]
  <2>1. earlier \in [1 .. Len(scheduled) -> Times] /\ Executes(earlier)
    BY <1>1, <1>2, <1>3, ExecutesRestricts
  <2>2. \A k \in 1 .. Len(scheduled) : scheduled[k].start <= starts[k]
    <3>1. \A k \in 1 .. Len(scheduled) : scheduled[k].start <= earlier[k]
      BY <2>1 DEF ScheduleIInv, EarliestOfAll
    <3> QED
      BY <3>1
  <2>3. \A k \in 1 .. n : starts[k] \in Nat
    BY <1>1, TimesAreNaturals
  <2>4. CASE i \in 1 .. Len(scheduled)
    BY <1>1, <2>2, <2>4
  <2>5. CASE i = n
    <3>1. scheduled'[n].start = start
      BY <1>1
    <3>2. CASE start = 0
      BY <1>4, <2>3, <2>5, <3>1, <3>2
    <3>3. CASE start # 0
      <4>1. PICK slot \in Involved(circuit[n]) : start = available[slot]
        BY <1>1, <3>3 DEF LatestOf, FreeTimes
      <4>2. PICK j \in 1 .. Len(scheduled) :
                slot \in Involved(circuit[j]) /\ available[slot] = scheduled[j].end
        BY <1>1, <3>3, <4>1 DEF ScheduleIInv, FreeSince
      <4>3. Involved(circuit[j]) \intersect Involved(circuit[n]) # {}
        BY <4>1, <4>2
      <4>4. j \in 1 .. n /\ n \in 1 .. n /\ j < n
        BY <1>3, <4>2
      <4>5. starts[j] + profile[circuit[j].id] <= starts[n]
        BY <1>1, <1>2, <4>3, <4>4 DEF Executes
      <4>6. start = scheduled[j].start + profile[circuit[j].id]
        BY <4>1, <4>2 DEF ScheduleIInv, DurationKept
      <4>7. /\ scheduled[j].start <= starts[j]
            /\ profile[circuit[j].id] \in Nat /\ scheduled[j].start \in Nat
            /\ starts[j] \in Nat /\ starts[n] \in Nat
        BY <1>3, <2>2, <2>3, <4>2, <4>4 DEF ScheduleIInv, DurationKept
      <4> QED
        BY <2>5, <3>1, <4>5, <4>6, <4>7, SMTT(30)
    <3> QED
      BY <3>2, <3>3
  <2> QED
    BY <1>4, <2>4, <2>5
<1> QED
  BY <1>7, <1>8, <1>9, <1>10, <1>11

\* Nothing else touches what the invariant speaks of.
LEMMA OthersKeepIInv ==
    ASSUME ScheduleIInv,
           UNCHANGED <<circuit, profile, available, scheduled>>
    PROVE  /\ FreeAfterUse' /\ FreeSince' /\ DurationKept'
           /\ SlotExclusive' /\ EarliestOfAll'
BY DEF ScheduleIInv, FreeAfterUse, FreeSince, DurationKept, SlotExclusive,
       EarliestOfAll, Executes

LEMMA ScheduleStepKeepsIInv ==
    ScheduleIInv /\ [ScheduleNext]_scheduleVars => ScheduleIInv'
<1> SUFFICES ASSUME ScheduleIInv, [ScheduleNext]_scheduleVars
             PROVE  ScheduleIInv'
  OBVIOUS
<1>0. ScheduleTypeOK'
  BY ScheduleTypeStep DEF ScheduleIInv
<1>1. CASE ScheduleOperation
  BY <1>0, <1>1, AppendKeepsIInv DEF ScheduleIInv
<1>2. CASE UNCHANGED <<circuit, profile, available, scheduled>>
  BY <1>0, <1>2, OthersKeepIInv DEF ScheduleIInv
<1>3. RejectTiming \/ FinishSchedule \/ ScheduleDone \/ UNCHANGED scheduleVars
      => UNCHANGED <<circuit, profile, available, scheduled>>
  BY DEF RejectTiming, FinishSchedule, ScheduleDone, scheduleVars
<1> QED
  BY <1>1, <1>2, <1>3 DEF ScheduleNext, Schedule

\* The availability table is right, and with it every start time.
THEOREM ScheduleInvariant == ScheduleSpec => []ScheduleIInv
BY InitEstablishesIInv, ScheduleStepKeepsIInv, PTL DEF ScheduleSpec

\* No two operations share a slot at one time, for every circuit.
THEOREM SlotsExclusive == ScheduleSpec => []SlotExclusive
<1>1. ScheduleIInv => SlotExclusive
  BY DEF ScheduleIInv
<1> QED
  BY <1>1, ScheduleInvariant, PTL

\* The schedule is the earliest of all executions of the circuit, whatever
\* the moments are that a competing schedule may choose from.
THEOREM ScheduleIsEarliest == ScheduleSpec => []EarliestOfAll
<1>1. ScheduleIInv => EarliestOfAll
  BY DEF ScheduleIInv
<1> QED
  BY <1>1, ScheduleInvariant, PTL

-----------------------------------------------------------------------------
(* The time of a slot.  The idle intervals of a slot are the gaps before    *)
(* its marks: the starts of its operations, and the peak after the last.    *)

LEMMA LatestExists ==
    ASSUME NEW times \in SUBSET Nat, NEW b \in Nat, \A x \in times : x <= b
    PROVE  \E t \in LatestOf(times) : t \in Nat /\ t <= b
<1>1. times \union {0} \in SUBSET Nat /\ times \union {0} # {} /\ \A x \in times \union {0} : x <= b
  OBVIOUS
<1>2. PICK t \in times \union {0} : \A x \in times \union {0} : x <= t
  BY <1>1, GreatestNumber
<1> QED
  BY <1>1, <1>2 DEF LatestOf

LEMMA LatestIsUnique ==
    ASSUME NEW times \in SUBSET Nat, NEW s \in LatestOf(times), NEW t \in LatestOf(times)
    PROVE  s \in Nat /\ s = t
BY DEF LatestOf

AllScheduled == ScheduleIInv /\ Len(scheduled) = Len(circuit)

\* The moments a gap of a slot may end at; the mark after the last operation
\* of the circuit is the given duration.
Marks(slot) == Using(circuit, slot) \union {Len(circuit) + 1}
Mark(k, duration) == IF k = Len(circuit) + 1 THEN duration ELSE scheduled[k].start

\* The ends of a slot's operations before a mark.
EndsBefore(slot, k) == {scheduled[j].end : j \in {h \in Using(circuit, slot) : h < k}}

LEMMA OperationTimes ==
    ASSUME ScheduleIInv, NEW i \in 1 .. Len(scheduled)
    PROVE  /\ Len(scheduled) \in Nat /\ Len(circuit) \in Nat
           /\ scheduled[i].start \in Nat /\ scheduled[i].end \in Nat
           /\ scheduled[i].start < scheduled[i].end
<1>1. circuit \in Seq(Operations)
  BY CircuitsAreOperations DEF ScheduleIInv, ScheduleTypeOK
<1>2. scheduled \in Seq([start : Nat, end : Nat])
  BY DEF ScheduleIInv, ScheduleTypeOK
<1>3. scheduled[i] \in [start : Nat, end : Nat]
  BY <1>2, ElementOfSeq
<1>4. profile[circuit[i].id] \in Nat /\ profile[circuit[i].id] > 0
      /\ scheduled[i].end = scheduled[i].start + profile[circuit[i].id]
  BY DEF ScheduleIInv, DurationKept
<1>5. scheduled[i].start \in Nat /\ scheduled[i].end \in Nat
  BY <1>3
<1>6. scheduled[i].start < scheduled[i].end
  BY <1>4, <1>5
<1> QED
  BY <1>1, <1>2, <1>5, <1>6

\* The busy ranges of a slot, sorted by time, are in the order of the circuit.
LEMMA SlotInOrder ==
    ASSUME AllScheduled, NEW slot, NEW i \in Using(circuit, slot), NEW j \in Using(circuit, slot)
    PROVE  /\ i \in 1 .. Len(scheduled) /\ j \in 1 .. Len(scheduled)
           /\ i < j => scheduled[i].end <= scheduled[j].start
           /\ SortedBefore(scheduled, i, j) <=> i < j
<1>1. i \in 1 .. Len(scheduled) /\ j \in 1 .. Len(scheduled)
  BY DEF AllScheduled, Using
<1>2. Involved(circuit[i]) \intersect Involved(circuit[j]) # {}
  BY DEF Using
<1>3. i < j => scheduled[i].end <= scheduled[j].start
  BY <1>1, <1>2 DEF AllScheduled, ScheduleIInv, SlotExclusive
<1>4. j < i => scheduled[j].end <= scheduled[i].start
  BY <1>1, <1>2 DEF AllScheduled, ScheduleIInv, SlotExclusive
<1>5. /\ scheduled[i].start \in Nat /\ scheduled[i].end \in Nat
      /\ scheduled[i].start < scheduled[i].end
  BY <1>1, OperationTimes DEF AllScheduled
<1>6. /\ scheduled[j].start \in Nat /\ scheduled[j].end \in Nat
      /\ scheduled[j].start < scheduled[j].end
  BY <1>1, OperationTimes DEF AllScheduled
<1>7. i \in Int /\ j \in Int
  BY <1>1
<1>8. SortedBefore(scheduled, i, j) <=> i < j
  BY <1>3, <1>4, <1>5, <1>6, <1>7 DEF SortedBefore
<1> QED
  BY <1>1, <1>3, <1>8

LEMMA IdleOnItsSlot ==
    ASSUME NEW duration, NEW slot,
           NEW interval \in IdleOn(circuit, scheduled, slot, duration)
    PROVE  interval.slot = slot
<1> DEFINE before(i) == Gap(slot, {scheduled[j].end :
                            j \in {k \in Using(circuit, slot) : SortedBefore(scheduled, k, i)}},
                            scheduled[i].start)
           last == Gap(slot, {scheduled[j].end : j \in Using(circuit, slot)}, duration)
<1>1. interval \in (UNION {before(i) : i \in Using(circuit, slot)}) \union last
  BY DEF IdleOn
<1>2. \A ends, until : interval \in Gap(slot, ends, until) => interval.slot = slot
  BY DEF Gap
<1>3. \A i : interval \in before(i) => interval.slot = slot
  BY <1>2
<1>4. interval \in last => interval.slot = slot
  BY <1>2
<1> HIDE DEF before, last
<1> QED
  BY <1>1, <1>3, <1>4

\* The idle intervals of a slot are its gaps.
LEMMA IdleIsGap ==
    ASSUME AllScheduled, NEW duration, NEW slot \in Slots, NEW interval
    PROVE  (interval \in IdleIntervals(circuit, scheduled, duration) /\ interval.slot = slot)
           <=> \E k \in Marks(slot) : \E cursor \in LatestOf(EndsBefore(slot, k)) :
                  /\ cursor < Mark(k, duration)
                  /\ interval = [slot |-> slot, start |-> cursor, end |-> Mark(k, duration)]
<1> DEFINE Sorted(i) == {scheduled[j].end :
                            j \in {k \in Using(circuit, slot) : SortedBefore(scheduled, k, i)}}
           All == {scheduled[j].end : j \in Using(circuit, slot)}
<1>0. Len(circuit) \in Nat /\ Using(circuit, slot) \subseteq 1 .. Len(circuit)
  BY CircuitsAreOperations DEF AllScheduled, ScheduleIInv, ScheduleTypeOK, Using
<1>1. ASSUME NEW i \in Using(circuit, slot) PROVE Sorted(i) = EndsBefore(slot, i)
  <2>1. \A j \in Using(circuit, slot) : SortedBefore(scheduled, j, i) <=> j < i
    BY SlotInOrder
  <2> QED
    BY <2>1 DEF EndsBefore
<1>2. All = EndsBefore(slot, Len(circuit) + 1)
  <2>1. \A j \in Using(circuit, slot) : j < Len(circuit) + 1
    BY <1>0
  <2> QED
    BY <2>1 DEF EndsBefore
<1>3. \A i \in Using(circuit, slot) : Mark(i, duration) = scheduled[i].start
  BY <1>0 DEF Mark
<1>4. Mark(Len(circuit) + 1, duration) = duration
  BY DEF Mark
<1>5. interval \in IdleIntervals(circuit, scheduled, duration) /\ interval.slot = slot
      <=> interval \in IdleOn(circuit, scheduled, slot, duration)
  <2> QED
    BY IdleOnItsSlot DEF IdleIntervals
<1>6. interval \in IdleOn(circuit, scheduled, slot, duration)
      <=> \/ \E i \in Using(circuit, slot) : interval \in Gap(slot, Sorted(i), scheduled[i].start)
          \/ interval \in Gap(slot, All, duration)
  <2> DEFINE before(i) == Gap(slot, Sorted(i), scheduled[i].start)
             last == Gap(slot, All, duration)
  <2>1. IdleOn(circuit, scheduled, slot, duration)
        = (UNION {before(i) : i \in Using(circuit, slot)}) \union last
    BY DEF IdleOn
  <2> HIDE DEF before, last
  <2>2. interval \in IdleOn(circuit, scheduled, slot, duration)
        <=> (\E i \in Using(circuit, slot) : interval \in before(i)) \/ interval \in last
    BY <2>1
  <2> QED
    BY <2>2 DEF before, last
<1>7. \A ends, until : interval \in Gap(slot, ends, until)
          <=> \E cursor \in LatestOf(ends) :
                 cursor < until /\ interval = [slot |-> slot, start |-> cursor, end |-> until]
  BY DEF Gap
<1> HIDE DEF Sorted, All
<1>8. ASSUME NEW i \in Using(circuit, slot)
      PROVE  interval \in Gap(slot, Sorted(i), scheduled[i].start)
             <=> \E cursor \in LatestOf(EndsBefore(slot, i)) :
                    /\ cursor < Mark(i, duration)
                    /\ interval = [slot |-> slot, start |-> cursor, end |-> Mark(i, duration)]
  BY <1>1, <1>3, <1>7
<1>9. interval \in Gap(slot, All, duration)
      <=> \E cursor \in LatestOf(EndsBefore(slot, Len(circuit) + 1)) :
             /\ cursor < Mark(Len(circuit) + 1, duration)
             /\ interval = [slot |-> slot, start |-> cursor, end |-> Mark(Len(circuit) + 1, duration)]
  BY <1>2, <1>4, <1>7
<1> QED
  BY <1>5, <1>6, <1>8, <1>9 DEF Marks

\* All the slot's operations have ended by its marks that come after them.
LEMMA EndsBeforeMark ==
    ASSUME AllScheduled, NEW slot \in Slots, NEW duration \in Nat,
           \A i \in Using(circuit, slot) : scheduled[i].end <= duration,
           NEW i \in Using(circuit, slot), NEW k \in Marks(slot), i < k
    PROVE  /\ scheduled[i].end <= Mark(k, duration)
           /\ scheduled[i].end \in EndsBefore(slot, k)
<1>1. scheduled[i].end \in EndsBefore(slot, k)
  BY DEF EndsBefore
<1>2. ASSUME k \in Using(circuit, slot), k # Len(circuit) + 1
      PROVE  scheduled[i].end <= Mark(k, duration)
  <2>1. scheduled[i].end <= scheduled[k].start
    BY <1>2, SlotInOrder
  <2>2. Mark(k, duration) = scheduled[k].start
    BY <1>2 DEF Mark
  <2> QED
    BY <2>1, <2>2
<1>3. ASSUME k = Len(circuit) + 1
      PROVE  scheduled[i].end <= Mark(k, duration)
  <2>1. Mark(k, duration) = duration
    BY <1>3 DEF Mark
  <2>2. scheduled[i].end <= duration
    OBVIOUS
  <2> QED
    BY <2>1, <2>2
<1> QED
  BY <1>1, <1>2, <1>3 DEF Marks

LEMMA MarkFacts ==
    ASSUME AllScheduled, NEW slot \in Slots, NEW duration \in Nat, NEW k \in Marks(slot)
    PROVE  /\ Len(circuit) \in Nat
           /\ Using(circuit, slot) \subseteq 1 .. Len(circuit)
           /\ k \in 1 .. Len(circuit) + 1
           /\ k \in Using(circuit, slot) => Mark(k, duration) = scheduled[k].start
           /\ k \notin Using(circuit, slot) => Mark(k, duration) = duration
           /\ Mark(k, duration) \in Nat
           /\ EndsBefore(slot, k) \in SUBSET Nat
<1>1. Len(circuit) \in Nat /\ Using(circuit, slot) \subseteq 1 .. Len(circuit)
  BY CircuitsAreOperations DEF AllScheduled, ScheduleIInv, ScheduleTypeOK, Using
<1>2. /\ k \in Using(circuit, slot) => Mark(k, duration) = scheduled[k].start
      /\ k \notin Using(circuit, slot) => Mark(k, duration) = duration
  BY <1>1 DEF Mark, Marks
<1>3. \A i \in Using(circuit, slot) : scheduled[i].start \in Nat /\ scheduled[i].end \in Nat
  BY <1>1, OperationTimes DEF AllScheduled
<1>4. EndsBefore(slot, k) \in SUBSET Nat
  BY <1>3 DEF EndsBefore
<1> QED
  BY <1>1, <1>2, <1>3, <1>4 DEF Marks

\* While an operation works on a slot there is no other one, and no gap.
LEMMA BusySlot ==
    ASSUME AllScheduled, NEW slot \in Slots, NEW duration \in Nat,
           \A i \in Using(circuit, slot) : scheduled[i].end <= duration,
           NEW t \in Nat, NEW i \in Using(circuit, slot),
           scheduled[i].start <= t, t < scheduled[i].end
    PROVE  /\ \A j \in Using(circuit, slot) :
                 scheduled[j].start <= t /\ t < scheduled[j].end => j = i
           /\ \A k \in Marks(slot) : \A cursor \in LatestOf(EndsBefore(slot, k)) :
                 ~ (cursor <= t /\ t < Mark(k, duration))
<1>0. /\ scheduled[i].start \in Nat /\ scheduled[i].end \in Nat /\ i \in 1 .. Len(scheduled)
  BY SlotInOrder, OperationTimes DEF AllScheduled
<1>1. ASSUME NEW j \in Using(circuit, slot),
             scheduled[j].start <= t, t < scheduled[j].end, j # i
      PROVE  FALSE
  <2>1. scheduled[j].start \in Nat /\ scheduled[j].end \in Nat /\ j \in 1 .. Len(scheduled)
    BY SlotInOrder, OperationTimes DEF AllScheduled
  <2>2. i < j => scheduled[i].end <= scheduled[j].start
    BY SlotInOrder
  <2>3. j < i => scheduled[j].end <= scheduled[i].start
    BY SlotInOrder
  <2> QED
    BY <1>0, <1>1, <2>1, <2>2, <2>3
<1>2. ASSUME NEW k \in Marks(slot), NEW cursor \in LatestOf(EndsBefore(slot, k)),
             cursor <= t, t < Mark(k, duration)
      PROVE  FALSE
  <2>1. /\ k \in 1 .. Len(circuit) + 1 /\ Mark(k, duration) \in Nat
        /\ EndsBefore(slot, k) \in SUBSET Nat /\ cursor \in Nat
        /\ k \in Using(circuit, slot) => Mark(k, duration) = scheduled[k].start
        /\ Len(circuit) \in Nat /\ Using(circuit, slot) \subseteq 1 .. Len(circuit)
    <3>1. EndsBefore(slot, k) \in SUBSET Nat
      BY MarkFacts
    <3>2. cursor \in Nat
      BY <3>1 DEF LatestOf
    <3> QED
      BY <3>2, MarkFacts
  <2>2. CASE i < k
    <3>1. scheduled[i].end \in EndsBefore(slot, k)
      BY <2>2, EndsBeforeMark
    <3>2. scheduled[i].end <= cursor
      BY <3>1 DEF LatestOf
    <3> QED
      BY <1>0, <1>2, <2>1, <3>2
  <2>3. CASE k < i
    <3>1. k \in Using(circuit, slot)
      BY <1>0, <2>1, <2>3 DEF Marks
    <3>2. scheduled[k].end <= scheduled[i].start
      BY <2>3, <3>1, SlotInOrder
    <3>3. /\ scheduled[k].start \in Nat /\ scheduled[k].end \in Nat
          /\ scheduled[k].start < scheduled[k].end
      BY <3>1, SlotInOrder, OperationTimes DEF AllScheduled
    <3> QED
      BY <1>0, <1>2, <2>1, <3>1, <3>2, <3>3, SMTT(30)
  <2>4. CASE k = i
    BY <1>0, <1>2, <2>1, <2>4
  <2> QED
    BY <1>0, <2>1, <2>2, <2>3, <2>4
<1> QED
  BY <1>1, <1>2

\* While nothing works on a slot, one gap is around that moment: the one
\* before the slot's first mark that comes later.
LEMMA IdleSlot ==
    ASSUME AllScheduled, NEW slot \in Slots, NEW duration \in Nat,
           \A i \in Using(circuit, slot) : scheduled[i].end <= duration,
           NEW t \in Nat, t < duration,
           \A i \in Using(circuit, slot) : ~ (scheduled[i].start <= t /\ t < scheduled[i].end)
    PROVE  \E first \in Marks(slot) : \E cursor \in LatestOf(EndsBefore(slot, first)) :
              /\ cursor <= t /\ t < Mark(first, duration)
              /\ \A k \in Marks(slot) : \A other \in LatestOf(EndsBefore(slot, k)) :
                    other <= t /\ t < Mark(k, duration) => k = first /\ other = cursor
<1> DEFINE later == {k \in Marks(slot) : t < Mark(k, duration)}
<1>1. /\ Len(circuit) \in Nat
      /\ Using(circuit, slot) \subseteq 1 .. Len(circuit)
      /\ Len(circuit) + 1 \in Marks(slot)
      /\ Mark(Len(circuit) + 1, duration) = duration
  BY MarkFacts DEF Marks, Mark
<1>2. later \in SUBSET Nat /\ later # {}
  BY <1>1 DEF Marks
<1>3. PICK first \in later : \A k \in later : first <= k
  BY <1>2, LeastNumber
<1>4. \A i \in Using(circuit, slot) :
          /\ i \in 1 .. Len(scheduled)
          /\ scheduled[i].start \in Nat /\ scheduled[i].end \in Nat
          /\ scheduled[i].start < scheduled[i].end
  BY SlotInOrder, OperationTimes DEF AllScheduled
<1>5. ASSUME NEW i \in Using(circuit, slot), i < first PROVE scheduled[i].end <= t
  <2>1. i \in Marks(slot) /\ Mark(i, duration) = scheduled[i].start
    BY MarkFacts DEF Marks
  <2>2. ~ (t < scheduled[i].start)
    BY <1>2, <1>3, <1>4, <1>5, <2>1
  <2> QED
    BY <1>4, <2>2
<1>6. EndsBefore(slot, first) \in SUBSET Nat /\ \A x \in EndsBefore(slot, first) : x <= t
  BY <1>5, MarkFacts, SMTT(30) DEF EndsBefore
<1>7. PICK cursor \in LatestOf(EndsBefore(slot, first)) : cursor \in Nat /\ cursor <= t
  BY <1>6, LatestExists
<1>8. ASSUME NEW k \in Marks(slot), NEW other \in LatestOf(EndsBefore(slot, k)),
             other <= t, t < Mark(k, duration)
      PROVE  k = first /\ other = cursor
  <2>1. k \in later /\ first <= k
    BY <1>3, <1>8
  <2>2. EndsBefore(slot, k) \in SUBSET Nat /\ other \in Nat
    BY MarkFacts, LatestIsUnique
  <2>3. ASSUME first < k PROVE FALSE
    <3>1. first \in Using(circuit, slot)
      BY <1>1, <1>2, <2>1, <2>3 DEF Marks
    <3>2. scheduled[first].end <= other
      <4>1. scheduled[first].end \in EndsBefore(slot, k)
        BY <2>3, <3>1, EndsBeforeMark
      <4> QED
        BY <4>1 DEF LatestOf
    <3>3. t < scheduled[first].start
      BY <1>3, <3>1, MarkFacts
    <3> QED
      BY <1>4, <1>8, <2>2, <3>1, <3>2, <3>3
  <2>4. k = first
    BY <1>2, <2>1, <2>3
  <2> QED
    BY <1>6, <1>7, <2>4, LatestIsUnique
<1> QED
  BY <1>3, <1>7, <1>8

\* Counting an empty set and a singleton.
LEMMA OneOrNone ==
    ASSUME NEW S
    PROVE  /\ S = {} => Cardinality(S) = 0
           /\ (\E x : S = {x}) => Cardinality(S) = 1
BY FS_EmptySet, FS_Singleton

\* How a schedule comes to be: the idle intervals are those of the final
\* times, and the peak is the end of the operation that ends last.
FinishedSchedule ==
    phase \in {"scheduled", "inconsistent"} =>
        /\ Len(scheduled) = Len(circuit)
        /\ peak \in LatestOf({available[slot] : slot \in Slots})
        /\ idle = IdleIntervals(circuit, scheduled, peak)
        /\ phase = "scheduled" <=> IsExecutionSchedule(scheduled, idle, peak)

LEMMA FinishedScheduleStep ==
    FinishedSchedule /\ [ScheduleNext]_scheduleVars => FinishedSchedule'
<1> SUFFICES ASSUME FinishedSchedule, [ScheduleNext]_scheduleVars PROVE FinishedSchedule'
  OBVIOUS
<1>1. CASE ScheduleOperation \/ RejectTiming
  BY <1>1 DEF ScheduleOperation, RejectTiming, FinishedSchedule
<1>2. CASE FinishSchedule
  <2>1. PICK latest \in LatestOf({available[slot] : slot \in Slots}) :
            /\ peak' = latest
            /\ idle' = IdleIntervals(circuit, scheduled, latest)
            /\ phase' = IF IsExecutionSchedule(scheduled, idle', latest)
                        THEN "scheduled" ELSE "inconsistent"
    BY <1>2 DEF FinishSchedule
  <2>2. /\ Len(scheduled) = Len(circuit)
        /\ UNCHANGED <<circuit, available, scheduled>>
    BY <1>2 DEF FinishSchedule
  <2>3. IdleIntervals(circuit, scheduled, peak)' = IdleIntervals(circuit, scheduled, latest)
    BY <2>1, <2>2
  <2>4. IsExecutionSchedule(scheduled, idle, peak)' <=> IsExecutionSchedule(scheduled, idle', latest)
    BY <2>1, <2>2
  <2> QED
    BY <2>1, <2>2, <2>3, <2>4 DEF FinishedSchedule
<1>3. CASE ScheduleDone \/ UNCHANGED scheduleVars
  BY <1>3 DEF ScheduleDone, scheduleVars, FinishedSchedule
<1> QED
  BY <1>1, <1>2, <1>3 DEF ScheduleNext, Schedule

\* The peak is a time that no operation of any slot outlasts.
LEMMA PeakIsLast ==
    ASSUME ScheduleIInv, FinishedSchedule, phase \in {"scheduled", "inconsistent"}
    PROVE  /\ AllScheduled /\ peak \in Nat
           /\ \A slot \in Slots : \A i \in Using(circuit, slot) : scheduled[i].end <= peak
<1>1. AllScheduled /\ peak \in Nat
  BY DEF AllScheduled, FinishedSchedule, ScheduleIInv, ScheduleTypeOK
<1>2. ASSUME NEW slot \in Slots, NEW i \in Using(circuit, slot)
      PROVE  scheduled[i].end <= peak
  <2>1. i \in 1 .. Len(scheduled) /\ slot \in Involved(circuit[i])
    BY <1>1, SlotInOrder DEF Using
  <2>2. scheduled[i].end <= available[slot] /\ scheduled[i].end \in Nat
    BY <2>1, OperationTimes DEF ScheduleIInv, FreeAfterUse
  <2>3. available[slot] <= peak
    BY DEF FinishedSchedule, LatestOf
  <2>4. available[slot] \in Nat
    BY DEF ScheduleIInv, ScheduleTypeOK
  <2> QED
    BY <1>1, <2>2, <2>3, <2>4
<1> QED
  BY <1>1, <1>2

\* The constructor of ExecutionSchedule turns no schedule down in which every
\* operation works on at least one slot.
LEMMA ConstructorAccepts ==
    ASSUME ScheduleIInv, FinishedSchedule, phase \in {"scheduled", "inconsistent"},
           \A i \in 1 .. Len(circuit) : Involved(circuit[i]) # {}
    PROVE  phase = "scheduled"
<1>1. /\ AllScheduled /\ peak \in Nat
      /\ \A slot \in Slots : \A i \in Using(circuit, slot) : scheduled[i].end <= peak
      /\ idle = IdleIntervals(circuit, scheduled, peak)
      /\ Len(scheduled) = Len(circuit) /\ Len(scheduled) \in Nat
  BY PeakIsLast DEF FinishedSchedule, ScheduleIInv, ScheduleTypeOK
<1>2. ASSUME NEW i \in 1 .. Len(scheduled)
      PROVE  0 <= scheduled[i].start /\ scheduled[i].start < scheduled[i].end
             /\ scheduled[i].end <= peak
  <2>1. circuit[i] \in Operations
    BY <1>1, CircuitsAreOperations DEF ScheduleIInv, ScheduleTypeOK
  <2>2. PICK slot \in Slots : slot \in Involved(circuit[i])
    BY <1>1, <2>1 DEF Involved, Operations
  <2>3. i \in Using(circuit, slot)
    BY <1>1, <2>2 DEF Using
  <2> QED
    BY <1>1, <2>2, <2>3, OperationTimes
<1>3. ASSUME NEW interval \in idle
      PROVE  /\ interval.slot \in Slots
             /\ \E k \in Marks(interval.slot) :
                   \E cursor \in LatestOf(EndsBefore(interval.slot, k)) :
                      /\ cursor < Mark(k, peak)
                      /\ interval = [slot |-> interval.slot, start |-> cursor,
                                     end |-> Mark(k, peak)]
  <2>1. PICK slot \in Slots : interval \in IdleOn(circuit, scheduled, slot, peak)
    BY <1>1 DEF IdleIntervals
  <2>2. interval.slot = slot
    BY <2>1, IdleOnItsSlot
  <2>3. \E k \in Marks(slot) : \E cursor \in LatestOf(EndsBefore(slot, k)) :
           /\ cursor < Mark(k, peak)
           /\ interval = [slot |-> slot, start |-> cursor, end |-> Mark(k, peak)]
    <3>1. interval \in IdleIntervals(circuit, scheduled, peak) /\ AllScheduled
      BY <1>1
    <3> QED
      BY <2>2, <3>1, IdleIsGap
  <2> QED
    BY <2>2, <2>3
<1>4. ASSUME NEW slot \in Slots, NEW k \in Marks(slot), NEW cursor \in LatestOf(EndsBefore(slot, k)),
             cursor < Mark(k, peak)
      PROVE  cursor \in Nat /\ Mark(k, peak) \in Nat /\ Mark(k, peak) <= peak
  <2>1. /\ EndsBefore(slot, k) \in SUBSET Nat /\ Mark(k, peak) \in Nat
        /\ k \in Using(circuit, slot) => Mark(k, peak) = scheduled[k].start
        /\ k \notin Using(circuit, slot) => Mark(k, peak) = peak
    BY <1>1, MarkFacts
  <2>2. CASE k \in Using(circuit, slot)
    <3>1. /\ scheduled[k].end <= peak /\ scheduled[k].end \in Nat
          /\ scheduled[k].start < scheduled[k].end
      BY <1>1, <2>2, SlotInOrder, OperationTimes
    <3> QED
      BY <1>1, <2>1, <2>2, <3>1 DEF LatestOf
  <2>3. CASE k \notin Using(circuit, slot)
    BY <1>1, <2>1, <2>3 DEF LatestOf
  <2> QED
    BY <2>2, <2>3
<1>5. ASSUME NEW slot \in Slots, NEW k \in Marks(slot), NEW j \in Marks(slot), k < j,
             NEW cursor \in LatestOf(EndsBefore(slot, j))
      PROVE  Mark(k, peak) <= cursor
  <2>1. /\ k \in 1 .. Len(circuit) + 1 /\ j \in 1 .. Len(circuit) + 1 /\ Len(circuit) \in Nat
        /\ EndsBefore(slot, j) \in SUBSET Nat
        /\ k \in Using(circuit, slot) => Mark(k, peak) = scheduled[k].start
    BY <1>1, MarkFacts
  <2>2. k \in Using(circuit, slot)
    BY <1>5, <2>1 DEF Marks
  <2>3. scheduled[k].end \in EndsBefore(slot, j)
    BY <1>1, <1>5, <2>2, EndsBeforeMark
  <2>4. /\ scheduled[k].start \in Nat /\ scheduled[k].end \in Nat
        /\ scheduled[k].start < scheduled[k].end
    BY <1>1, <2>2, SlotInOrder, OperationTimes
  <2> QED
    BY <2>1, <2>2, <2>3, <2>4 DEF LatestOf
<1>6. ASSUME NEW a \in idle, NEW b \in idle, a.slot = b.slot, a # b
      PROVE  a.end <= b.start \/ b.end <= a.start
  <2>1. PICK k \in Marks(a.slot) : \E cursor \in LatestOf(EndsBefore(a.slot, k)) :
            /\ cursor < Mark(k, peak)
            /\ a = [slot |-> a.slot, start |-> cursor, end |-> Mark(k, peak)]
    BY <1>3
  <2>2. PICK first \in LatestOf(EndsBefore(a.slot, k)) :
            /\ first < Mark(k, peak)
            /\ a = [slot |-> a.slot, start |-> first, end |-> Mark(k, peak)]
    BY <2>1
  <2>3. PICK j \in Marks(a.slot) : \E cursor \in LatestOf(EndsBefore(a.slot, j)) :
            /\ cursor < Mark(j, peak)
            /\ b = [slot |-> a.slot, start |-> cursor, end |-> Mark(j, peak)]
    BY <1>3, <1>6
  <2>4. PICK second \in LatestOf(EndsBefore(a.slot, j)) :
            /\ second < Mark(j, peak)
            /\ b = [slot |-> a.slot, start |-> second, end |-> Mark(j, peak)]
    BY <2>3
  <2>5. a.slot \in Slots /\ k \in Int /\ j \in Int
    BY <1>1, <1>3, MarkFacts
  <2>6. k # j
    <3>1. ASSUME k = j PROVE first = second
      BY <1>1, <2>5, <3>1, MarkFacts, LatestIsUnique
    <3>2. k = j => a = b
      BY <2>2, <2>4, <3>1
    <3> QED
      BY <1>6, <3>2
  <2>7. a.end = Mark(k, peak) /\ a.start = first /\ b.end = Mark(j, peak) /\ b.start = second
    BY <2>2, <2>4
  <2>8. k < j => Mark(k, peak) <= second
    BY <1>5, <2>5
  <2>9. j < k => Mark(j, peak) <= first
    BY <1>5, <2>5
  <2> QED
    BY <2>5, <2>6, <2>7, <2>8, <2>9
<1>7. ASSUME NEW interval \in idle
      PROVE  0 <= interval.start /\ interval.start < interval.end /\ interval.end <= peak
  <2>1. PICK k \in Marks(interval.slot) : \E cursor \in LatestOf(EndsBefore(interval.slot, k)) :
            /\ cursor < Mark(k, peak)
            /\ interval = [slot |-> interval.slot, start |-> cursor, end |-> Mark(k, peak)]
    BY <1>3
  <2>2. PICK cursor \in LatestOf(EndsBefore(interval.slot, k)) :
            /\ cursor < Mark(k, peak)
            /\ interval = [slot |-> interval.slot, start |-> cursor, end |-> Mark(k, peak)]
    BY <2>1
  <2>3. interval.start = cursor /\ interval.end = Mark(k, peak)
    BY <2>2
  <2> QED
    BY <1>3, <1>4, <2>2, <2>3
<1> QED
  BY <1>2, <1>6, <1>7 DEF IsExecutionSchedule, FinishedSchedule

\* A moment before the peak, on a slot.
LEMMA MomentAccounted ==
    ASSUME ScheduleIInv, FinishedSchedule, phase = "scheduled",
           NEW slot \in Slots, NEW t \in 0 .. peak - 1
    PROVE  Cardinality({i \in Using(circuit, slot) :
                           scheduled[i].start <= t /\ t < scheduled[i].end})
           + Cardinality({interval \in idle : interval.slot = slot
                             /\ interval.start <= t /\ t < interval.end}) = 1
<1> DEFINE busy == {i \in Using(circuit, slot) : scheduled[i].start <= t /\ t < scheduled[i].end}
           gaps == {interval \in idle : interval.slot = slot
                       /\ interval.start <= t /\ t < interval.end}
<1>1. /\ AllScheduled /\ peak \in Nat
      /\ \A i \in Using(circuit, slot) : scheduled[i].end <= peak
  BY PeakIsLast
<1>2. t \in Nat /\ t < peak
  BY <1>1
<1>3. \A interval : interval \in gaps <=>
          \E k \in Marks(slot) : \E cursor \in LatestOf(EndsBefore(slot, k)) :
             /\ cursor <= t /\ t < Mark(k, peak)
             /\ interval = [slot |-> slot, start |-> cursor, end |-> Mark(k, peak)]
  <2> SUFFICES ASSUME NEW interval
               PROVE  interval \in gaps <=>
                         \E k \in Marks(slot) : \E cursor \in LatestOf(EndsBefore(slot, k)) :
                            /\ cursor <= t /\ t < Mark(k, peak)
                            /\ interval = [slot |-> slot, start |-> cursor, end |-> Mark(k, peak)]
    OBVIOUS
  <2>1. (interval \in idle /\ interval.slot = slot)
        <=> \E k \in Marks(slot) : \E cursor \in LatestOf(EndsBefore(slot, k)) :
               /\ cursor < Mark(k, peak)
               /\ interval = [slot |-> slot, start |-> cursor, end |-> Mark(k, peak)]
    <3>1. idle = IdleIntervals(circuit, scheduled, peak)
      BY DEF FinishedSchedule
    <3> QED
      BY <1>1, <3>1, IdleIsGap
  <2>2. ASSUME NEW k \in Marks(slot), NEW cursor \in LatestOf(EndsBefore(slot, k))
        PROVE  cursor \in Nat /\ Mark(k, peak) \in Nat
    <3>1. EndsBefore(slot, k) \in SUBSET Nat /\ Mark(k, peak) \in Nat
      BY <1>1, MarkFacts
    <3> QED
      BY <3>1 DEF LatestOf
  <2>3. ASSUME interval \in gaps
        PROVE  \E k \in Marks(slot) : \E cursor \in LatestOf(EndsBefore(slot, k)) :
                  /\ cursor <= t /\ t < Mark(k, peak)
                  /\ interval = [slot |-> slot, start |-> cursor, end |-> Mark(k, peak)]
    BY <2>1, <2>3
  <2>4. ASSUME NEW k \in Marks(slot), NEW cursor \in LatestOf(EndsBefore(slot, k)),
               cursor <= t, t < Mark(k, peak),
               interval = [slot |-> slot, start |-> cursor, end |-> Mark(k, peak)]
        PROVE  interval \in gaps
    <3>1. cursor < Mark(k, peak)
      BY <1>2, <2>2, <2>4
    <3>2. interval \in idle /\ interval.slot = slot
      BY <2>1, <2>4, <3>1
    <3> QED
      BY <2>4, <3>2
  <2> QED
    BY <2>3, <2>4
<1>4. CASE \E i \in Using(circuit, slot) : scheduled[i].start <= t /\ t < scheduled[i].end
  <2>1. PICK i \in Using(circuit, slot) : scheduled[i].start <= t /\ t < scheduled[i].end
    BY <1>4
  <2>2. /\ \A j \in Using(circuit, slot) :
               scheduled[j].start <= t /\ t < scheduled[j].end => j = i
        /\ \A k \in Marks(slot) : \A cursor \in LatestOf(EndsBefore(slot, k)) :
               ~ (cursor <= t /\ t < Mark(k, peak))
    BY <1>1, <1>2, <2>1, BusySlot
  <2>3. busy = {i}
    BY <2>1, <2>2
  <2>4. gaps = {}
    BY <1>3, <2>2
  <2>5. Cardinality(busy) = 1 /\ Cardinality(gaps) = 0
    BY <2>3, <2>4, OneOrNone
  <2> QED
    BY <2>5
<1>5. CASE \A i \in Using(circuit, slot) : ~ (scheduled[i].start <= t /\ t < scheduled[i].end)
  <2>1. busy = {}
    BY <1>5
  <2>2. PICK first \in Marks(slot) : \E cursor \in LatestOf(EndsBefore(slot, first)) :
            /\ cursor <= t /\ t < Mark(first, peak)
            /\ \A k \in Marks(slot) : \A other \in LatestOf(EndsBefore(slot, k)) :
                  other <= t /\ t < Mark(k, peak) => k = first /\ other = cursor
    BY <1>1, <1>2, <1>5, IdleSlot
  <2>3. PICK cursor \in LatestOf(EndsBefore(slot, first)) :
            /\ cursor <= t /\ t < Mark(first, peak)
            /\ \A k \in Marks(slot) : \A other \in LatestOf(EndsBefore(slot, k)) :
                  other <= t /\ t < Mark(k, peak) => k = first /\ other = cursor
    BY <2>2
  <2>4. gaps = {[slot |-> slot, start |-> cursor, end |-> Mark(first, peak)]}
    <3> HIDE DEF gaps
    <3> QED
      BY <1>3, <2>3
  <2>5. Cardinality(busy) = 0 /\ Cardinality(gaps) = 1
    BY <2>1, <2>4, OneOrNone
  <2> QED
    BY <2>5
<1> QED
  BY <1>4, <1>5

\* The idle intervals account for all the time the operations leave on every
\* slot, and for no moment twice.
THEOREM SlotTimeIsAccounted == ScheduleSpec => []SlotTimeAccounted
<1>1. ScheduleInit => FinishedSchedule
  BY DEF ScheduleInit, FinishedSchedule
<1>2. ScheduleSpec => []FinishedSchedule
  BY <1>1, FinishedScheduleStep, PTL DEF ScheduleSpec
<1>3. ScheduleIInv /\ FinishedSchedule => SlotTimeAccounted
  BY MomentAccounted DEF SlotTimeAccounted
<1> QED
  BY <1>2, <1>3, ScheduleInvariant, PTL

-----------------------------------------------------------------------------
(* AsapEnds is defined by recursion: that there is such a function, and     *)
(* what its values are, is proved by induction on the operations.           *)

\* The ends of the operations before i that share a slot with it.
SharingEnds(c, end, i) == {end[j] : j \in {k \in 1 .. i - 1 : Share(c, k, i)}}

\* When an operation may start, given the ends of the earlier ones.
StartAfter(c, end, i) == CHOOSE t \in LatestOf(SharingEnds(c, end, i)) : TRUE

\* The ends of the operations up to m follow from each other.
AreAsapEnds(c, duration, end, m) ==
    \A i \in 1 .. m : end[i] = StartAfter(c, end, i) + duration[i]

\* Finitely many times have a bound.
LEMMA TimesAreBounded ==
    ASSUME NEW m \in Nat, NEW end, \A i \in 1 .. m : end[i] \in Nat
    PROVE  \E b \in Nat : \A i \in 1 .. m : end[i] <= b
<1> DEFINE Bounded == {k \in Nat : k <= m => \E b \in Nat : \A i \in 1 .. k : end[i] <= b}
<1>1. 0 \in Bounded
  OBVIOUS
<1>2. ASSUME NEW k \in Nat, k \in Bounded PROVE k + 1 \in Bounded
  <2> SUFFICES ASSUME k + 1 <= m PROVE \E b \in Nat : \A i \in 1 .. k + 1 : end[i] <= b
    OBVIOUS
  <2>1. PICK b \in Nat : \A i \in 1 .. k : end[i] <= b
    BY <1>2
  <2>2. end[k + 1] \in Nat
    OBVIOUS
  <2>3. PICK u \in Nat : b <= u /\ end[k + 1] <= u
    <3>1. CASE b <= end[k + 1]
      BY <2>2, <3>1
    <3>2. CASE ~ (b <= end[k + 1])
      BY <2>1, <2>2, <3>2
    <3> QED
      BY <3>1, <3>2
  <2>4. ASSUME NEW i \in 1 .. k + 1 PROVE end[i] <= u
    <3>1. CASE i = k + 1
      BY <2>3, <3>1
    <3>2. CASE i \in 1 .. k
      <4>1. end[i] <= b /\ end[i] \in Nat
        BY <2>1, <3>2
      <4> QED
        BY <2>1, <2>3, <4>1
    <3> QED
      BY <3>1, <3>2
  <2> QED
    BY <2>4
<1>3. m \in Bounded
  <2> HIDE DEF Bounded
  <2> QED
    BY <1>1, <1>2, SetInduction
<1> QED
  BY <1>3

\* An operation has a start, which depends on the earlier ends only.
LEMMA StartAfterEarlier ==
    ASSUME NEW c, NEW i \in Nat \ {0}, NEW end, \A j \in 1 .. i - 1 : end[j] \in Nat
    PROVE  /\ StartAfter(c, end, i) \in LatestOf(SharingEnds(c, end, i))
           /\ StartAfter(c, end, i) \in Nat
           /\ \A other : (\A j \in 1 .. i - 1 : other[j] = end[j])
                         => StartAfter(c, other, i) = StartAfter(c, end, i)
<1>1. SharingEnds(c, end, i) \in SUBSET Nat
  BY DEF SharingEnds
<1>2. PICK b \in Nat : \A j \in 1 .. i - 1 : end[j] <= b
  <2>1. i - 1 \in Nat
    OBVIOUS
  <2> QED
    BY <2>1, TimesAreBounded
<1>3. \A x \in SharingEnds(c, end, i) : x <= b
  BY <1>2 DEF SharingEnds
<1>4. \E t \in LatestOf(SharingEnds(c, end, i)) : t \in Nat
  BY <1>1, <1>3, LatestExists
<1>5. StartAfter(c, end, i) \in LatestOf(SharingEnds(c, end, i))
  BY <1>4 DEF StartAfter
<1>6. StartAfter(c, end, i) \in Nat
  BY <1>1, <1>5 DEF LatestOf
<1>7. ASSUME NEW other, \A j \in 1 .. i - 1 : other[j] = end[j]
      PROVE  StartAfter(c, other, i) = StartAfter(c, end, i)
  <2>1. SharingEnds(c, other, i) = SharingEnds(c, end, i)
    BY <1>7 DEF SharingEnds
  <2> QED
    BY <2>1 DEF StartAfter
<1> QED
  BY <1>5, <1>6, <1>7

\* Every circuit has ASAP ends for every choice of durations.
LEMMA AsapEndsExist ==
    ASSUME NEW c, NEW n \in Nat, NEW duration \in [1 .. n -> Nat]
    PROVE  \E end \in [1 .. n -> Nat] : AreAsapEnds(c, duration, end, n)
<1> DEFINE Exist == {m \in Nat : m <= n =>
                        \E end \in [1 .. m -> Nat] : AreAsapEnds(c, duration, end, m)}
<1>1. 0 \in Exist
  <2>1. [i \in 1 .. 0 |-> 0] \in [1 .. 0 -> Nat]
    OBVIOUS
  <2>2. AreAsapEnds(c, duration, [i \in 1 .. 0 |-> 0], 0)
    BY DEF AreAsapEnds
  <2> QED
    BY <2>1, <2>2
<1>2. ASSUME NEW m \in Nat, m \in Exist PROVE m + 1 \in Exist
  <2> SUFFICES ASSUME m + 1 <= n
               PROVE  \E end \in [1 .. m + 1 -> Nat] : AreAsapEnds(c, duration, end, m + 1)
    OBVIOUS
  <2>1. PICK end \in [1 .. m -> Nat] : AreAsapEnds(c, duration, end, m)
    BY <1>2, SMTT(30)
  <2> DEFINE next == StartAfter(c, end, m + 1) + duration[m + 1]
             longer == [i \in 1 .. m + 1 |-> IF i <= m THEN end[i] ELSE next]
  <2>2. next \in Nat
    <3>1. StartAfter(c, end, m + 1) \in Nat
      BY <2>1, StartAfterEarlier
    <3> QED
      BY <3>1
  <2>3. longer \in [1 .. m + 1 -> Nat]
    BY <2>1, <2>2
  <2>4. /\ \A i \in 1 .. m : longer[i] = end[i]
        /\ longer[m + 1] = next
    OBVIOUS
  <2> HIDE DEF longer
  <2>5. ASSUME NEW i \in 1 .. m + 1
        PROVE  StartAfter(c, longer, i) = StartAfter(c, end, i)
    <3>1. /\ i \in Nat \ {0}
          /\ \A j \in 1 .. i - 1 : end[j] \in Nat /\ longer[j] = end[j]
      BY <2>1, <2>4
    <3> QED
      BY <3>1, StartAfterEarlier
  <2>6. AreAsapEnds(c, duration, longer, m + 1)
    BY <2>1, <2>4, <2>5 DEF AreAsapEnds
  <2> QED
    BY <2>3, <2>6
<1>3. n \in Exist
  <2> HIDE DEF Exist
  <2> QED
    BY <1>1, <1>2, SetInduction
<1> QED
  BY <1>3

\* The recursive definition has its meaning.
LEMMA AsapEndsMeaning ==
    ASSUME NEW c, Len(c) \in Nat, NEW duration \in [1 .. Len(c) -> Nat]
    PROVE  AreAsapEnds(c, duration, AsapEnds(c, duration), Len(c))
<1>1. AsapEnds(c, duration)
      = CHOOSE end : end = [i \in 1 .. Len(c) |-> StartAfter(c, end, i) + duration[i]]
  BY DEF AsapEnds, StartAfter, SharingEnds
<1>2. PICK end \in [1 .. Len(c) -> Nat] : AreAsapEnds(c, duration, end, Len(c))
  BY AsapEndsExist
<1>3. end = [i \in 1 .. Len(c) |-> StartAfter(c, end, i) + duration[i]]
  BY <1>2 DEF AreAsapEnds
<1>4. AsapEnds(c, duration)
      = [i \in 1 .. Len(c) |-> StartAfter(c, AsapEnds(c, duration), i) + duration[i]]
  BY <1>1, <1>3
<1> QED
  BY <1>4 DEF AreAsapEnds

LEMMA AsapEndsAreTimes ==
    ASSUME NEW c, NEW n \in Nat, NEW duration \in [1 .. n -> Nat],
           NEW end, AreAsapEnds(c, duration, end, n)
    PROVE  \A i \in 1 .. n : end[i] \in Nat
<1> DEFINE Typed == {m \in Nat : m <= n => \A i \in 1 .. m : end[i] \in Nat}
<1>1. 0 \in Typed
  OBVIOUS
<1>2. ASSUME NEW m \in Nat, m \in Typed PROVE m + 1 \in Typed
  <2> SUFFICES ASSUME m + 1 <= n PROVE \A i \in 1 .. m + 1 : end[i] \in Nat
    OBVIOUS
  <2>1. \A j \in 1 .. m : end[j] \in Nat
    BY <1>2
  <2>2. StartAfter(c, end, m + 1) \in Nat
    BY <2>1, StartAfterEarlier
  <2>3. end[m + 1] = StartAfter(c, end, m + 1) + duration[m + 1] /\ duration[m + 1] \in Nat
    BY DEF AreAsapEnds
  <2>4. \A i \in 1 .. m + 1 : i \in 1 .. m \/ i = m + 1
    OBVIOUS
  <2>5. end[m + 1] \in Nat
    BY <2>2, <2>3
  <2> QED
    BY <2>1, <2>4, <2>5
<1>3. n \in Typed
  <2> HIDE DEF Typed
  <2> QED
    BY <1>1, <1>2, SetInduction
<1> QED
  BY <1>3

\* An operation starts at 0 or at the end of an earlier one that it shares a
\* slot with, and not before any of them has ended.
LEMMA AsapStartFacts ==
    ASSUME NEW c, NEW n \in Nat, NEW duration \in [1 .. n -> Nat],
           NEW end, AreAsapEnds(c, duration, end, n), NEW i \in 1 .. n
    PROVE  \E start \in Nat :
              /\ end[i] \in Nat /\ end[i] - duration[i] = start
              /\ \A j \in 1 .. i - 1 : Share(c, j, i) => end[j] <= start
              /\ start = 0 \/ \E j \in 1 .. i - 1 : Share(c, j, i) /\ start = end[j]
<1>1. \A j \in 1 .. n : end[j] \in Nat
  BY AsapEndsAreTimes
<1>2. /\ StartAfter(c, end, i) \in LatestOf(SharingEnds(c, end, i))
      /\ StartAfter(c, end, i) \in Nat
  BY <1>1, StartAfterEarlier
<1>3. end[i] = StartAfter(c, end, i) + duration[i] /\ duration[i] \in Nat
  BY DEF AreAsapEnds
<1>4. \A j \in 1 .. i - 1 : Share(c, j, i) => end[j] <= StartAfter(c, end, i)
  BY <1>2 DEF LatestOf, SharingEnds
<1>5. \/ StartAfter(c, end, i) = 0
      \/ \E j \in 1 .. i - 1 : Share(c, j, i) /\ StartAfter(c, end, i) = end[j]
  BY <1>2 DEF LatestOf, SharingEnds
<1>6. end[i] - duration[i] = StartAfter(c, end, i) /\ end[i] \in Nat
  BY <1>1, <1>2, <1>3
<1> QED
  BY <1>2, <1>4, <1>5, <1>6

\* The durations determine the ends.
LEMMA AsapEndsAreUnique ==
    ASSUME NEW c, NEW n \in Nat, NEW duration \in [1 .. n -> Nat],
           NEW end, AreAsapEnds(c, duration, end, n),
           NEW other, AreAsapEnds(c, duration, other, n)
    PROVE  \A i \in 1 .. n : other[i] = end[i]
<1> DEFINE Agree == {m \in Nat : m <= n => \A i \in 1 .. m : other[i] = end[i]}
<1>1. 0 \in Agree
  OBVIOUS
<1>2. ASSUME NEW m \in Nat, m \in Agree PROVE m + 1 \in Agree
  <2> SUFFICES ASSUME m + 1 <= n PROVE \A i \in 1 .. m + 1 : other[i] = end[i]
    OBVIOUS
  <2>1. \A j \in 1 .. m : other[j] = end[j]
    BY <1>2
  <2>2. \A j \in 1 .. m : end[j] \in Nat
    BY AsapEndsAreTimes
  <2>3. StartAfter(c, other, m + 1) = StartAfter(c, end, m + 1)
    BY <2>1, <2>2, StartAfterEarlier
  <2>4. other[m + 1] = end[m + 1]
    BY <2>3 DEF AreAsapEnds
  <2> QED
    BY <2>1, <2>4
<1>3. n \in Agree
  <2> HIDE DEF Agree
  <2> QED
    BY <1>1, <1>2, SetInduction
<1> QED
  BY <1>3

-----------------------------------------------------------------------------
(* The scheduler's own work.                                                *)

\* Every operation starts when an earlier one on one of its slots ends, or at
\* once.
StartsWhenFree ==
    \A i \in 1 .. Len(scheduled) :
        \/ scheduled[i].start = 0
        \/ \E j \in 1 .. i - 1 : Share(circuit, j, i) /\ scheduled[i].start = scheduled[j].end

LEMMA StartsWhenFreeStep ==
    ASSUME ScheduleIInv, StartsWhenFree, [ScheduleNext]_scheduleVars
    PROVE  StartsWhenFree'
<1>1. CASE ScheduleOperation
  <2> DEFINE n == Len(scheduled) + 1
  <2>1. PICK start \in Nat, end \in Nat :
            /\ start \in LatestOf(FreeTimes(NextOperation))
            /\ Len(scheduled') = n
            /\ \A i \in 1 .. Len(scheduled) : scheduled'[i] = scheduled[i]
            /\ scheduled'[n] = [start |-> start, end |-> end]
            /\ NextOperation = circuit[n]
            /\ Involved(NextOperation) \subseteq Slots
    BY <1>1, ScheduleOperationStep DEF ScheduleIInv
  <2>2. circuit' = circuit /\ Len(scheduled) \in Nat
    BY <1>1 DEF ScheduleOperation, ScheduleIInv, ScheduleTypeOK
  <2>3. ASSUME NEW i \in 1 .. Len(scheduled)
        PROVE  \/ scheduled'[i].start = 0
               \/ \E j \in 1 .. i - 1 :
                     Share(circuit, j, i) /\ scheduled'[i].start = scheduled'[j].end
    <3>1. i \in Int /\ \A j \in 1 .. i - 1 : j \in 1 .. Len(scheduled)
      BY <2>2
    <3> QED
      BY <2>1, <3>1 DEF StartsWhenFree
  <2>4. \/ scheduled'[n].start = 0
        \/ \E j \in 1 .. n - 1 : Share(circuit, j, n) /\ scheduled'[n].start = scheduled'[j].end
    <3>1. scheduled'[n].start = start
      BY <2>1
    <3>2. CASE start = 0
      BY <3>1, <3>2
    <3>3. CASE start # 0
      <4>1. PICK slot \in Involved(circuit[n]) : start = available[slot]
        BY <2>1, <3>3 DEF LatestOf, FreeTimes
      <4>2. PICK j \in 1 .. Len(scheduled) :
                slot \in Involved(circuit[j]) /\ available[slot] = scheduled[j].end
        BY <2>1, <3>3, <4>1 DEF ScheduleIInv, FreeSince
      <4>3. j \in 1 .. n - 1 /\ Share(circuit, j, n)
        BY <2>2, <4>1, <4>2, SMTT(30) DEF Share
      <4>4. scheduled'[j].end = start
        BY <2>1, <4>1, <4>2
      <4> QED
        BY <3>1, <4>3, <4>4
    <3> QED
      BY <3>2, <3>3
  <2>5. 1 .. n = (1 .. Len(scheduled)) \union {n}
    BY <2>2
  <2>6. \A i \in 1 .. n :
            \/ scheduled'[i].start = 0
            \/ \E j \in 1 .. i - 1 :
                  Share(circuit, j, i) /\ scheduled'[i].start = scheduled'[j].end
    BY <2>3, <2>4, <2>5
  <2>7. \A i, j : Share(circuit, j, i)' <=> Share(circuit, j, i)
    BY <2>2 DEF Share
  <2> QED
    BY <2>1, <2>2, <2>6, <2>7 DEF StartsWhenFree
<1>2. CASE UNCHANGED <<circuit, scheduled>>
  BY <1>2 DEF StartsWhenFree, Share
<1>3. RejectTiming \/ FinishSchedule \/ ScheduleDone \/ UNCHANGED scheduleVars
      => UNCHANGED <<circuit, scheduled>>
  BY DEF RejectTiming, FinishSchedule, ScheduleDone, scheduleVars
<1> QED
  BY <1>1, <1>2, <1>3 DEF ScheduleNext, Schedule

LEMMA CloseToItself == ASSUME NEW a \in Int PROVE Close(a, a)
BY TolIsNatural DEF Close

\* The validator computes the scheduler's times from the durations, and turns
\* the scheduler's own schedule of the circuit down for no other reason.
LEMMA OwnScheduleIsValid ==
    ASSUME ScheduleIInv, FinishedSchedule, StartsWhenFree, phase = "scheduled"
    PROVE  ValidSchedule(OwnSchedule, circuit)
<1> DEFINE n == Len(circuit)
           duration == [i \in 1 .. n |-> scheduled[i].end - scheduled[i].start]
           end == [i \in 1 .. n |-> scheduled[i].end]
           asap == AsapEnds(circuit, duration)
<1>1. /\ AllScheduled /\ peak \in Nat
      /\ \A slot \in Slots : \A i \in Using(circuit, slot) : scheduled[i].end <= peak
      /\ n \in Nat /\ Len(scheduled) = n
      /\ \A i \in 1 .. n : /\ scheduled[i].start \in Nat /\ scheduled[i].end \in Nat
                           /\ scheduled[i].start < scheduled[i].end
  <2>1. AllScheduled /\ peak \in Nat /\ Len(scheduled) = n /\ Len(scheduled) \in Nat
    BY PeakIsLast DEF FinishedSchedule, ScheduleIInv, ScheduleTypeOK
  <2> QED
    BY <2>1, PeakIsLast, OperationTimes
<1>2. OwnDurations(OwnSchedule) = duration
  BY <1>1 DEF OwnDurations, OwnSchedule
<1>3. duration \in [1 .. n -> Nat]
  BY <1>1
<1>4. AreAsapEnds(circuit, duration, end, n)
  <2> SUFFICES ASSUME NEW i \in 1 .. n
               PROVE  end[i] = StartAfter(circuit, end, i) + duration[i]
    BY DEF AreAsapEnds
  <2>1. \A j \in 1 .. i - 1 :
            j \in 1 .. n /\ j < i /\ end[j] = scheduled[j].end /\ end[j] \in Nat
    BY <1>1
  <2>2. SharingEnds(circuit, end, i) \in SUBSET Nat
    <3> HIDE DEF end
    <3> QED
      BY <2>1 DEF SharingEnds
  <2>3. \A t \in SharingEnds(circuit, end, i) : t <= scheduled[i].start
    <3> SUFFICES ASSUME NEW j \in 1 .. i - 1, Share(circuit, j, i)
                 PROVE  end[j] <= scheduled[i].start
      BY DEF SharingEnds
    <3> QED
      BY <1>1, <2>1 DEF Share, ScheduleIInv, SlotExclusive
  <2>4. scheduled[i].start \in SharingEnds(circuit, end, i) \union {0}
    <3>1. CASE scheduled[i].start = 0
      BY <3>1
    <3>2. CASE scheduled[i].start # 0
      <4>1. PICK j \in 1 .. i - 1 : Share(circuit, j, i) /\ scheduled[i].start = scheduled[j].end
        BY <1>1, <3>2 DEF StartsWhenFree
      <4> QED
        BY <2>1, <4>1 DEF SharingEnds
    <3> QED
      BY <3>1, <3>2
  <2>5. scheduled[i].start \in LatestOf(SharingEnds(circuit, end, i))
    BY <1>1, <2>3, <2>4 DEF LatestOf
  <2>6. StartAfter(circuit, end, i) = scheduled[i].start
    <3>1. StartAfter(circuit, end, i) \in LatestOf(SharingEnds(circuit, end, i))
      BY <2>5 DEF StartAfter
    <3> QED
      BY <2>2, <2>5, <3>1, LatestIsUnique
  <2> QED
    BY <1>1, <2>6
<1>5. \A i \in 1 .. n : asap[i] = scheduled[i].end
  <2>1. AreAsapEnds(circuit, duration, asap, n)
    BY <1>1, <1>3, AsapEndsMeaning
  <2>2. \A i \in 1 .. n : asap[i] = end[i]
    <3>1. n \in Nat
      BY <1>1
    <3> HIDE DEF asap, duration, end, n
    <3> QED
      BY <1>3, <1>4, <2>1, <3>1, AsapEndsAreUnique
  <2> QED
    BY <2>2
<1>6. AsapPeak(circuit, duration) = peak
  <2> DEFINE working == {k \in 1 .. n : Involved(circuit[k]) # {}}
             last == {asap[i] : i \in working}
  <2>1. \A t \in last : t <= peak
    <3> SUFFICES ASSUME NEW i \in working PROVE asap[i] <= peak
      OBVIOUS
    <3>1. circuit[i] \in Operations
      BY <1>1, CircuitsAreOperations DEF ScheduleIInv, ScheduleTypeOK
    <3>2. PICK slot \in Slots : slot \in Involved(circuit[i])
      BY <3>1 DEF Involved, Operations
    <3>3. i \in Using(circuit, slot)
      BY <3>2 DEF Using
    <3> QED
      BY <1>1, <1>5, <3>2, <3>3
  <2>2. peak \in last \union {0}
    <3>1. CASE peak = 0
      BY <3>1
    <3>2. CASE peak # 0
      <4>1. PICK slot \in Slots : peak = available[slot]
        BY <3>2 DEF FinishedSchedule, LatestOf
      <4>2. PICK j \in 1 .. n : slot \in Involved(circuit[j]) /\ peak = scheduled[j].end
        BY <1>1, <3>2, <4>1 DEF ScheduleIInv, FreeSince
      <4>3. j \in working
        BY <4>2
      <4> QED
        BY <1>5, <4>2, <4>3
    <3> QED
      BY <3>1, <3>2
  <2>3. last \in SUBSET Nat
    BY <1>1, <1>5
  <2>4. peak \in LatestOf(last)
    BY <1>1, <2>1, <2>2 DEF LatestOf
  <2>5. AsapPeak(circuit, duration) = CHOOSE t \in LatestOf(last) : TRUE
    BY DEF AsapPeak
  <2> HIDE DEF last
  <2>6. (CHOOSE t \in LatestOf(last) : TRUE) \in LatestOf(last)
    BY <2>4
  <2> QED
    BY <2>3, <2>4, <2>5, <2>6, LatestIsUnique
<1>7. IsAsapRealization(OwnSchedule, circuit)
  <2>1. OwnSchedule.ops = scheduled /\ OwnSchedule.peak = peak
    BY DEF OwnSchedule
  <2> HIDE DEF asap, duration
  <2>2. \A i \in 1 .. n : /\ asap[i] = scheduled[i].end
                          /\ asap[i] - duration[i] = scheduled[i].start
    BY <1>1, <1>5 DEF duration
  <2>3. \A i \in 1 .. n : /\ Close(scheduled[i].end, asap[i])
                          /\ Close(scheduled[i].start, asap[i] - duration[i])
    BY <1>1, <2>2, CloseToItself
  <2>4. Close(peak, AsapPeak(circuit, duration))
    BY <1>1, <1>6, CloseToItself
  <2> QED
    BY <1>2, <2>1, <2>3, <2>4 DEF IsAsapRealization, asap
<1>8. IdleEvidenceMatches(OwnSchedule, circuit) /\ MadeFor(OwnSchedule, circuit)
  BY DEF IdleEvidenceMatches, MadeFor, OwnSchedule, FinishedSchedule
<1> QED
  BY <1>7, <1>8 DEF ValidSchedule

-----------------------------------------------------------------------------
(* The request: what became of the schedule that was submitted.             *)

\* The schedule of a request was made from the scheduler's for this circuit:
\* one entry per operation, each with a positive duration.
CandidateOfCircuit ==
    /\ candidate.fingerprint = circuit
    /\ Len(candidate.ops) = Len(circuit)
    /\ \A i \in 1 .. Len(circuit) :
          /\ candidate.ops[i].start \in Int /\ candidate.ops[i].end \in Int
          /\ candidate.ops[i].start < candidate.ops[i].end

\* The verdict on a request is the validator's, and stays.
RequestIInv ==
    /\ ScheduleIInv /\ FinishedSchedule /\ StartsWhenFree
    /\ run # "idle" => phase = "scheduled" /\ CandidateOfCircuit
    /\ run \in {"executing", "finished", "refused"} => ValidSchedule(candidate, target)
    /\ run = "rejected" => ~ ValidSchedule(candidate, target)

LEMMA RunStepsSchedule ==
    ASSUME [RunNext]_runVars PROVE [ScheduleNext]_scheduleVars
<1>1. CASE ScheduleStep
  BY <1>1 DEF ScheduleStep, ScheduleNext
<1>2. SubmitOwn \/ SubmitMoved => UNCHANGED scheduleVars
  BY DEF SubmitOwn, SubmitMoved, Submitted
<1>3. Accept \/ Reject \/ Execute \/ RefuseEvolution \/ FinishRun => UNCHANGED scheduleVars
  BY DEF Accept, Reject, Execute, RefuseEvolution, FinishRun
<1>4. RunDone \/ UNCHANGED runVars => UNCHANGED scheduleVars
  BY DEF RunDone, runVars
<1> QED
  BY <1>1, <1>2, <1>3, <1>4 DEF RunNext, RunStep

\* The scheduler's result has the shape, and so has every shifted one.
LEMMA SubmittedShape ==
    ASSUME ScheduleIInv, FinishedSchedule, phase = "scheduled",
           NEW shift, \A i \in 1 .. Len(scheduled) : shift[i] \in Int,
           NEW schedule, schedule.fingerprint = circuit,
           schedule.ops = [i \in 1 .. Len(scheduled) |->
                              [start |-> scheduled[i].start + shift[i],
                               end |-> scheduled[i].end + shift[i]]]
    PROVE  /\ Len(schedule.ops) = Len(circuit)
           /\ \A i \in 1 .. Len(circuit) :
                 /\ schedule.ops[i].start \in Int /\ schedule.ops[i].end \in Int
                 /\ schedule.ops[i].start < schedule.ops[i].end
<1>1. Len(scheduled) = Len(circuit) /\ Len(scheduled) \in Nat
  BY DEF FinishedSchedule, ScheduleIInv, ScheduleTypeOK
<1>2. Len(schedule.ops) = Len(scheduled)
  BY <1>1
<1>3. ASSUME NEW i \in 1 .. Len(circuit)
      PROVE  /\ schedule.ops[i].start \in Int /\ schedule.ops[i].end \in Int
             /\ schedule.ops[i].start < schedule.ops[i].end
  <2>1. /\ scheduled[i].start \in Nat /\ scheduled[i].end \in Nat
        /\ scheduled[i].start < scheduled[i].end /\ shift[i] \in Int
    BY <1>1, OperationTimes
  <2>2. schedule.ops[i].start = scheduled[i].start + shift[i]
        /\ schedule.ops[i].end = scheduled[i].end + shift[i]
    BY <1>1
  <2> QED
    BY <2>1, <2>2
<1> QED
  BY <1>1, <1>2, <1>3

LEMMA SubmitEstablishes ==
    ASSUME RequestIInv, SubmitOwn \/ SubmitMoved
    PROVE  CandidateOfCircuit'
<1>1. phase = "scheduled" /\ ScheduleIInv /\ FinishedSchedule
  BY DEF SubmitOwn, SubmitMoved, RequestIInv
<1>2. UNCHANGED scheduleVars /\ circuit' = circuit
  BY DEF SubmitOwn, SubmitMoved, Submitted, scheduleVars
<1>3. CASE SubmitOwn
  <2>1. candidate' = OwnSchedule
    BY <1>3 DEF SubmitOwn, Submitted
  <2>2. candidate'.ops = scheduled /\ candidate'.fingerprint = circuit
    BY <2>1 DEF OwnSchedule
  <2>3. /\ Len(scheduled) = Len(circuit)
        /\ \A i \in 1 .. Len(circuit) :
              /\ scheduled[i].start \in Nat /\ scheduled[i].end \in Nat
              /\ scheduled[i].start < scheduled[i].end
    BY <1>1, OperationTimes DEF FinishedSchedule
  <2> QED
    BY <1>2, <2>2, <2>3 DEF CandidateOfCircuit
<1>4. CASE SubmitMoved
  <2>1. PICK shift \in [1 .. Len(scheduled) -> Shifts], late \in Shifts, following \in BOOLEAN :
            candidate' = Moved(shift, late, following)
    BY <1>4 DEF SubmitMoved, Submitted
  <2>2. \A i \in 1 .. Len(scheduled) : shift[i] \in Int
    BY ShiftsAreIntegers
  <2>3. /\ candidate'.fingerprint = circuit
        /\ candidate'.ops = [i \in 1 .. Len(scheduled) |->
                                [start |-> scheduled[i].start + shift[i],
                                 end |-> scheduled[i].end + shift[i]]]
    BY <2>1 DEF Moved
  <2>4. /\ Len(candidate'.ops) = Len(circuit)
        /\ \A i \in 1 .. Len(circuit) :
              /\ candidate'.ops[i].start \in Int /\ candidate'.ops[i].end \in Int
              /\ candidate'.ops[i].start < candidate'.ops[i].end
    BY <1>1, <2>2, <2>3, SubmittedShape
  <2> QED
    BY <1>2, <2>3, <2>4 DEF CandidateOfCircuit
<1> QED
  BY <1>3, <1>4

LEMMA RequestStep ==
    RequestIInv /\ [RunNext]_runVars => RequestIInv'
<1> SUFFICES ASSUME RequestIInv, [RunNext]_runVars PROVE RequestIInv'
  OBVIOUS
<1>1. ScheduleIInv' /\ FinishedSchedule' /\ StartsWhenFree'
  BY RunStepsSchedule, ScheduleStepKeepsIInv, FinishedScheduleStep, StartsWhenFreeStep
     DEF RequestIInv
<1>2. CASE ScheduleStep
  <2>1. run' = run /\ UNCHANGED <<candidate, target>> /\ phase = "scheduling"
    BY <1>2 DEF ScheduleStep, requestVars, executionVars, Schedule, ScheduleOperation,
                RejectTiming, FinishSchedule
  <2>2. run = "idle"
    BY <2>1 DEF RequestIInv
  <2> QED
    BY <1>1, <2>1, <2>2 DEF RequestIInv
<1>3. CASE SubmitOwn \/ SubmitMoved
  <2>1. run' = "submitted" /\ phase' = "scheduled"
    BY <1>3 DEF SubmitOwn, SubmitMoved, Submitted, scheduleVars
  <2> QED
    BY <1>1, <1>3, <2>1, SubmitEstablishes DEF RequestIInv
<1>4. ASSUME UNCHANGED <<scheduleVars, requestVars>>
      PROVE  /\ CandidateOfCircuit' <=> CandidateOfCircuit
             /\ ValidSchedule(candidate, target)' <=> ValidSchedule(candidate, target)
             /\ phase' = phase
  BY <1>4 DEF scheduleVars, requestVars, CandidateOfCircuit
<1>5. CASE Accept
  <2>1. UNCHANGED <<scheduleVars, requestVars>> /\ run' = "executing"
        /\ run = "submitted" /\ ValidSchedule(candidate, target)
    BY <1>5 DEF Accept
  <2> QED
    BY <1>1, <1>4, <2>1 DEF RequestIInv
<1>6. CASE Reject
  <2>1. UNCHANGED <<scheduleVars, requestVars>> /\ run' = "rejected"
        /\ run = "submitted" /\ ~ ValidSchedule(candidate, target)
    BY <1>6 DEF Reject
  <2> QED
    BY <1>1, <1>4, <2>1 DEF RequestIInv
<1>7. CASE Execute \/ RefuseEvolution \/ FinishRun
  <2>1. UNCHANGED <<scheduleVars, requestVars>> /\ run = "executing"
        /\ run' \in {"executing", "refused", "finished"}
    BY <1>7 DEF Execute, RefuseEvolution, FinishRun
  <2> QED
    BY <1>1, <1>4, <2>1 DEF RequestIInv
<1>8. CASE RunDone \/ UNCHANGED runVars
  <2>1. UNCHANGED <<scheduleVars, requestVars>> /\ run' = run
    BY <1>8 DEF RunDone, runVars, executionVars
  <2> QED
    BY <1>1, <1>4, <2>1 DEF RequestIInv
<1> QED
  BY <1>2, <1>3, <1>5, <1>6, <1>7, <1>8 DEF RunNext, RunStep

LEMMA TwiceTheTolerance ==
    ASSUME NEW a \in Int, NEW b \in Int, NEW c \in Int, NEW d \in Int,
           Tol \in Nat, a <= b + Tol, b <= c, c <= d + Tol
    PROVE  a <= d + 2 * Tol
OBVIOUS

\* What a schedule that the validator accepts says about the circuit.
LEMMA AcceptedTimes ==
    ASSUME CandidateOfCircuit, ValidSchedule(candidate, target), Len(circuit) \in Nat,
           NEW j \in 1 .. Len(target)
    PROVE  /\ candidate.ops[j].start \in Int
           /\ \A i \in 1 .. j - 1 : Share(target, i, j) =>
                 candidate.ops[i].end <= candidate.ops[j].start + 2 * Tol
           /\ \/ candidate.ops[j].start <= Tol
              \/ \E i \in 1 .. j - 1 : Share(target, i, j)
                    /\ candidate.ops[j].start <= candidate.ops[i].end + 2 * Tol
<1> DEFINE n == Len(target)
           duration == OwnDurations(candidate)
           end == AsapEnds(target, duration)
<1>1. target = circuit /\ n \in Nat /\ j \in 1 .. n /\ 2 * Tol = Tol + Tol
  BY TolIsNatural DEF CandidateOfCircuit, ValidSchedule, MadeFor
<1>2. \A i \in 1 .. n : /\ candidate.ops[i].start \in Int /\ candidate.ops[i].end \in Int
                        /\ candidate.ops[i].start < candidate.ops[i].end
  BY <1>1 DEF CandidateOfCircuit
<1>3. duration \in [1 .. n -> Nat]
  BY <1>1, <1>2 DEF CandidateOfCircuit, OwnDurations
<1>4. AreAsapEnds(target, duration, end, n)
  BY <1>1, <1>3, AsapEndsMeaning
<1>5. \A i \in 1 .. n : /\ Close(candidate.ops[i].end, end[i])
                        /\ Close(candidate.ops[i].start, end[i] - duration[i])
  BY DEF ValidSchedule, IsAsapRealization
<1> HIDE DEF duration, end
<1>6. \A i \in 1 .. n : end[i] \in Nat
  BY <1>1, <1>3, <1>4, AsapEndsAreTimes
<1>7. PICK start \in Nat :
          /\ end[j] - duration[j] = start
          /\ \A i \in 1 .. j - 1 : Share(target, i, j) => end[i] <= start
          /\ start = 0 \/ \E i \in 1 .. j - 1 : Share(target, i, j) /\ start = end[i]
  <2> HIDE DEF n
  <2>1. \E start \in Nat :
           /\ end[j] \in Nat /\ end[j] - duration[j] = start
           /\ \A i \in 1 .. j - 1 : Share(target, i, j) => end[i] <= start
           /\ start = 0 \/ \E i \in 1 .. j - 1 : Share(target, i, j) /\ start = end[i]
    <3>1. n \in Nat /\ j \in 1 .. n
      BY <1>1
    <3> QED
      BY <1>3, <1>4, <3>1, AsapStartFacts
  <2> QED
    BY <2>1
<1>8. /\ candidate.ops[j].start \in Int /\ Tol \in Nat
      /\ candidate.ops[j].start <= start + Tol /\ start <= candidate.ops[j].start + Tol
  BY <1>2, <1>5, <1>7, TolIsNatural DEF Close
<1>9. ASSUME NEW i \in 1 .. j - 1
      PROVE  /\ candidate.ops[i].end \in Int /\ end[i] \in Nat
             /\ candidate.ops[i].end <= end[i] + Tol /\ end[i] <= candidate.ops[i].end + Tol
  <2>1. i \in 1 .. n
    BY <1>1
  <2>2. Close(candidate.ops[i].end, end[i])
    BY ONLY <1>5, <2>1
  <2>3. candidate.ops[i].end \in Int /\ end[i] \in Nat
    BY ONLY <1>2, <1>6, <2>1
  <2> QED
    BY ONLY <2>2, <2>3, TolIsNatural DEF Close
<1>10. ASSUME NEW i \in 1 .. j - 1, Share(target, i, j)
       PROVE  candidate.ops[i].end <= candidate.ops[j].start + 2 * Tol
  <2>1. end[i] <= start
    BY <1>7, <1>10
  <2>2. /\ candidate.ops[i].end \in Int /\ end[i] \in Int /\ start \in Int
        /\ candidate.ops[j].start \in Int /\ Tol \in Nat
        /\ candidate.ops[i].end <= end[i] + Tol /\ start <= candidate.ops[j].start + Tol
    BY <1>7, <1>8, <1>9
  <2> HIDE DEF n
  <2> QED
    BY <2>1, <2>2, TwiceTheTolerance
<1>11. CASE start = 0
  BY <1>8, <1>10, <1>11
<1>12. CASE start # 0
  <2>1. PICK i \in 1 .. j - 1 : Share(target, i, j) /\ start = end[i]
    BY <1>7, <1>12
  <2>2. candidate.ops[j].start <= candidate.ops[i].end + 2 * Tol
    <3>1. /\ candidate.ops[i].end \in Int /\ end[i] \in Int /\ start \in Int /\ start <= end[i]
          /\ candidate.ops[j].start \in Int /\ Tol \in Nat
          /\ end[i] <= candidate.ops[i].end + Tol /\ candidate.ops[j].start <= start + Tol
      BY <1>7, <1>8, <1>9, <2>1
    <3> QED
      BY <3>1, TwiceTheTolerance
  <2> QED
    BY <1>8, <1>10, <2>1, <2>2
<1> QED
  BY <1>11, <1>12

\* The validator turns down none of the scheduler's work, and accepts an ASAP
\* schedule of the circuit only: whatever the circuit, the profile, the
\* tolerance and the times that were written into the schedule.
THEOREM OnlyAsapIsAccepted == RunSpec => []AsapOnly
<1>1. RunInit => RequestIInv
  <2> SUFFICES ASSUME RunInit PROVE RequestIInv
    OBVIOUS
  <2>1. ScheduleIInv
    BY InitEstablishesIInv DEF RunInit
  <2>2. FinishedSchedule /\ StartsWhenFree /\ run = "idle"
    BY DEF RunInit, ScheduleInit, FinishedSchedule, StartsWhenFree
  <2> QED
    BY <2>1, <2>2 DEF RequestIInv
<1>2. RequestIInv => OwnScheduleAccepted
  <2> SUFFICES ASSUME RequestIInv PROVE OwnScheduleAccepted
    OBVIOUS
  <2>1. (\A i \in 1 .. Len(circuit) : Involved(circuit[i]) # {}) => phase # "inconsistent"
    BY ConstructorAccepts DEF RequestIInv
  <2>2. ASSUME run = "rejected", candidate = OwnSchedule, target = circuit
        PROVE  FALSE
    BY <2>2, OwnScheduleIsValid DEF RequestIInv
  <2> QED
    BY <2>1, <2>2 DEF OwnScheduleAccepted
<1>3. RequestIInv => AcceptedNearAsap
  <2> SUFFICES ASSUME RequestIInv, run \in {"executing", "finished", "refused"}
               PROVE  /\ \A i, j \in 1 .. Len(target) : i < j /\ Share(target, i, j) =>
                            candidate.ops[i].end <= candidate.ops[j].start + 2 * Tol
                      /\ \A j \in 1 .. Len(target) :
                            \/ candidate.ops[j].start <= Tol
                            \/ \E i \in 1 .. j - 1 : Share(target, i, j)
                                  /\ candidate.ops[j].start <= candidate.ops[i].end + 2 * Tol
    BY DEF AcceptedNearAsap
  <2>1. CandidateOfCircuit /\ ValidSchedule(candidate, target) /\ Len(circuit) \in Nat
    BY DEF RequestIInv, FinishedSchedule, ScheduleIInv, ScheduleTypeOK
  <2>2. ASSUME NEW i \in 1 .. Len(target), NEW j \in 1 .. Len(target), i < j,
               Share(target, i, j)
        PROVE  candidate.ops[i].end <= candidate.ops[j].start + 2 * Tol
    <3>1. i \in 1 .. j - 1
      BY <2>2
    <3> QED
      BY <2>1, <2>2, <3>1, AcceptedTimes
  <2> QED
    BY <2>1, <2>2, AcceptedTimes
<1> QED
  BY <1>1, <1>2, <1>3, RequestStep, PTL DEF RunSpec, AsapOnly

-----------------------------------------------------------------------------
(* Idle decoherence.                                                         *)

\* A flattened sequence holds the first k parts, each of at most one element.
Joins(flat, S, part, k) ==
    /\ flat \in Seq(S)
    /\ \A n \in 1 .. Len(flat) : \E r \in 1 .. k : part[r] = <<flat[n]>>
    /\ \A r \in 1 .. k : part[r] # <<>> => \E n \in 1 .. Len(flat) : part[r] = <<flat[n]>>
    /\ \A m, n \in 1 .. Len(flat) : m < n =>
          \E q, r \in 1 .. k : q < r /\ part[q] = <<flat[m]>> /\ part[r] = <<flat[n]>>

LEMMA JoinsOne ==
    ASSUME NEW S, NEW k \in Nat, NEW part \in [1 .. k -> Seq(S)], 1 <= k, Len(part[1]) <= 1
    PROVE  Joins(part[1], S, part, 1)
<1> DEFINE p == part[1]
<1>1. p \in Seq(S) /\ Len(p) \in Nat /\ Len(p) <= 1
  OBVIOUS
<1>2. CASE Len(p) = 0
  <2>1. p = <<>>
    BY <1>1, <1>2, EmptySeq
  <2> QED
    BY <1>1, <2>1 DEF Joins
<1>3. CASE Len(p) = 1
  <2>1. p = <<p[1]>>
    BY <1>1, <1>3
  <2>2. 1 .. Len(p) = {1} /\ 1 .. 1 = {1}
    BY <1>3
  <2>3. \A n \in 1 .. Len(p) : n = 1
    BY <2>2
  <2>4. \A n \in 1 .. Len(p) : \E r \in 1 .. 1 : part[r] = <<p[n]>>
    BY <2>1, <2>2
  <2>5. \A r \in 1 .. 1 : part[r] # <<>> => \E n \in 1 .. Len(p) : part[r] = <<p[n]>>
    BY <2>1, <2>2
  <2> QED
    BY <1>1, <2>3, <2>4, <2>5 DEF Joins
<1>4. Len(p) = 0 \/ Len(p) = 1
  <2>1. \A l \in Nat : l <= 1 => l = 0 \/ l = 1
    OBVIOUS
  <2> HIDE DEF p
  <2> QED
    BY <1>1, <2>1
<1> QED
  BY <1>2, <1>3, <1>4

LEMMA JoinsNext ==
    ASSUME NEW S, NEW k \in Nat, NEW part \in [1 .. k -> Seq(S)], NEW m \in Nat, m + 1 <= k,
           Len(part[m + 1]) <= 1, NEW flat, Joins(flat, S, part, m)
    PROVE  Joins(flat \o part[m + 1], S, part, m + 1)
<1> DEFINE p == part[m + 1]
           longer == flat \o p
<1>1. /\ flat \in Seq(S) /\ p \in Seq(S) /\ Len(p) \in Nat /\ Len(p) <= 1 /\ Len(flat) \in Nat
      /\ m + 1 \in 1 .. k
  BY DEF Joins
<1>2. 1 .. m + 1 = (1 .. m) \union {m + 1}
  OBVIOUS
<1>7. /\ \A n \in 1 .. Len(flat) : \E r \in 1 .. m : part[r] = <<flat[n]>>
      /\ \A r \in 1 .. m : part[r] # <<>> => \E n \in 1 .. Len(flat) : part[r] = <<flat[n]>>
      /\ \A a, b \in 1 .. Len(flat) : a < b =>
            \E q, r \in 1 .. m : q < r /\ part[q] = <<flat[a]>> /\ part[r] = <<flat[b]>>
  BY DEF Joins
<1>3. /\ longer \in Seq(S) /\ Len(longer) = Len(flat) + Len(p)
      /\ \A n \in 1 .. Len(flat) + Len(p) :
            longer[n] = IF n <= Len(flat) THEN flat[n] ELSE p[n - Len(flat)]
  BY <1>1, ConcatProperties
<1>4. CASE Len(p) = 0
  <2>1. p = <<>> /\ Len(longer) = Len(flat)
    BY <1>1, <1>3, <1>4, EmptySeq
  <2>0. p = part[m + 1]
    OBVIOUS
  <2>2. \A n \in 1 .. Len(flat) : longer[n] = flat[n]
    BY <1>1, <1>3, <1>4
  <2> HIDE DEF longer, p
  <2>3. \A n \in 1 .. Len(longer) : \E r \in 1 .. m + 1 : part[r] = <<longer[n]>>
    <3> SUFFICES ASSUME NEW n \in 1 .. Len(longer) PROVE \E r \in 1 .. m + 1 : part[r] = <<longer[n]>>
      OBVIOUS
    <3>1. n \in 1 .. Len(flat) /\ longer[n] = flat[n]
      BY <2>1, <2>2
    <3>2. PICK r \in 1 .. m : part[r] = <<flat[n]>>
      BY <1>7, <3>1
    <3> QED
      BY <1>2, <3>1, <3>2
  <2>4. \A r \in 1 .. m + 1 : part[r] # <<>> => \E n \in 1 .. Len(longer) : part[r] = <<longer[n]>>
    <3> SUFFICES ASSUME NEW r \in 1 .. m + 1, part[r] # <<>>
                 PROVE  \E n \in 1 .. Len(longer) : part[r] = <<longer[n]>>
      OBVIOUS
    <3>1. r \in 1 .. m
      BY <1>2, <2>0, <2>1
    <3>2. PICK n \in 1 .. Len(flat) : part[r] = <<flat[n]>>
      BY <1>7, <3>1
    <3>3. longer[n] = flat[n] /\ n \in 1 .. Len(longer)
      BY <2>1, <2>2
    <3> QED
      BY <3>2, <3>3
  <2>5. ASSUME NEW a \in 1 .. Len(longer), NEW b \in 1 .. Len(longer), a < b
        PROVE  \E q, r \in 1 .. m + 1 : q < r /\ part[q] = <<longer[a]>> /\ part[r] = <<longer[b]>>
    <3>1. PICK q \in 1 .. m, r \in 1 .. m : q < r /\ part[q] = <<flat[a]>> /\ part[r] = <<flat[b]>>
      <4>1. a \in 1 .. Len(flat) /\ b \in 1 .. Len(flat) /\ a < b
        BY <2>1, <2>5
      <4> QED
        BY <1>7, <4>1
    <3> QED
      BY <1>2, <2>1, <2>2, <2>5, <3>1
  <2> QED
    BY <1>3, <2>3, <2>4, <2>5 DEF Joins, longer, p
<1>5. CASE Len(p) = 1
  <2>1. p = <<p[1]>> /\ Len(longer) = Len(flat) + 1
    BY <1>1, <1>3, <1>5
  <2>2. \A n \in 1 .. Len(flat) : longer[n] = flat[n]
    BY <1>1, <1>3, <1>5
  <2>3. longer[Len(flat) + 1] = p[1]
    BY <1>1, <1>3, <1>5
  <2>4. 1 .. Len(longer) = (1 .. Len(flat)) \union {Len(flat) + 1}
    <3> HIDE DEF longer, p
    <3> QED
      BY <1>1, <2>1
  <2>0. p = part[m + 1] /\ m + 1 \in 1 .. m + 1 /\ Len(flat) + 1 \in 1 .. Len(longer)
    BY <1>1, <2>1
  <2> HIDE DEF longer, p
  <2>5. \A n \in 1 .. Len(longer) : \E r \in 1 .. m + 1 : part[r] = <<longer[n]>>
    <3>1. ASSUME NEW n \in 1 .. Len(flat) PROVE \E r \in 1 .. m : part[r] = <<longer[n]>>
      <4>1. PICK r \in 1 .. m : part[r] = <<flat[n]>>
        BY <1>7
      <4> QED
        BY <2>2, <4>1
    <3>2. part[m + 1] = <<longer[Len(flat) + 1]>>
      BY <2>0, <2>1, <2>3
    <3> QED
      BY <1>2, <2>0, <2>4, <3>1, <3>2
  <2>6. \A r \in 1 .. m + 1 : part[r] # <<>> => \E n \in 1 .. Len(longer) : part[r] = <<longer[n]>>
    <3>1. \A r \in 1 .. m : part[r] # <<>> => \E n \in 1 .. Len(flat) : part[r] = <<longer[n]>>
      BY <1>7, <2>2
    <3>2. part[m + 1] = <<longer[Len(flat) + 1]>>
      BY <2>0, <2>1, <2>3
    <3> QED
      BY <1>2, <2>0, <2>4, <3>1, <3>2
  <2>7. ASSUME NEW a \in 1 .. Len(longer), NEW b \in 1 .. Len(longer), a < b
        PROVE  \E q, r \in 1 .. m + 1 : q < r /\ part[q] = <<longer[a]>> /\ part[r] = <<longer[b]>>
    <3>1. a \in 1 .. Len(flat)
      BY <1>1, <2>1, <2>7
    <3>2. CASE b \in 1 .. Len(flat)
      <4>1. PICK q \in 1 .. m, r \in 1 .. m : q < r /\ part[q] = <<flat[a]>> /\ part[r] = <<flat[b]>>
        BY <1>7, <2>7, <3>1, <3>2
      <4> QED
        BY <1>2, <2>2, <3>1, <3>2, <4>1
    <3>3. CASE b = Len(flat) + 1
      <4>1. PICK q \in 1 .. m : part[q] = <<flat[a]>>
        BY <1>7, <3>1
      <4>2. q < m + 1 /\ part[q] = <<longer[a]>> /\ part[m + 1] = <<longer[b]>>
        BY <2>0, <2>1, <2>2, <2>3, <3>1, <3>3, <4>1
      <4> QED
        BY <1>2, <2>0, <4>1, <4>2
    <3> QED
      BY <2>4, <3>2, <3>3
  <2> QED
    BY <1>3, <2>5, <2>6, <2>7 DEF Joins, longer, p
<1>6. Len(p) = 0 \/ Len(p) = 1
  <2>1. \A l \in Nat : l <= 1 => l = 0 \/ l = 1
    OBVIOUS
  <2> HIDE DEF p, longer
  <2> QED
    BY <1>1, <2>1
<1> QED
  BY <1>4, <1>5, <1>6

\* The concatenations of the parts up to each one.
Flattens(flat, part, m) ==
    \A i \in 1 .. m : flat[i] = IF i = 1 THEN part[i] ELSE flat[i - 1] \o part[i]

LEMMA FlattensExist ==
    ASSUME NEW S, NEW k \in Nat, NEW part \in [1 .. k -> Seq(S)]
    PROVE  \E flat \in [1 .. k -> Seq(S)] : Flattens(flat, part, k)
<1> DEFINE Exist == {m \in Nat : m <= k => \E flat \in [1 .. m -> Seq(S)] : Flattens(flat, part, m)}
<1>1. 0 \in Exist
  <2>1. [i \in 1 .. 0 |-> <<>>] \in [1 .. 0 -> Seq(S)]
    OBVIOUS
  <2>2. Flattens([i \in 1 .. 0 |-> <<>>], part, 0)
    BY DEF Flattens
  <2> QED
    BY <2>1, <2>2
<1>2. ASSUME NEW m \in Nat, m \in Exist PROVE m + 1 \in Exist
  <2> SUFFICES ASSUME m + 1 <= k
               PROVE  \E flat \in [1 .. m + 1 -> Seq(S)] : Flattens(flat, part, m + 1)
    OBVIOUS
  <2>1. PICK flat \in [1 .. m -> Seq(S)] : Flattens(flat, part, m)
    BY <1>2
  <2> DEFINE next == IF m = 0 THEN part[m + 1] ELSE flat[m] \o part[m + 1]
             longer == [i \in 1 .. m + 1 |-> IF i <= m THEN flat[i] ELSE next]
  <2>2. next \in Seq(S)
    <3>1. part[m + 1] \in Seq(S)
      OBVIOUS
    <3>2. m # 0 => flat[m] \in Seq(S)
      OBVIOUS
    <3> QED
      BY <3>1, <3>2, ConcatProperties
  <2>3. longer \in [1 .. m + 1 -> Seq(S)]
    BY <2>1, <2>2
  <2> HIDE DEF next
  <2>4. (\A i \in 1 .. m : longer[i] = flat[i]) /\ longer[m + 1] = next
    OBVIOUS
  <2> HIDE DEF longer
  <2>5. ASSUME NEW i \in 1 .. m + 1
        PROVE  longer[i] = IF i = 1 THEN part[i] ELSE longer[i - 1] \o part[i]
    <3>1. CASE i = m + 1
      <4>1. next = IF m = 0 THEN part[m + 1] ELSE flat[m] \o part[m + 1]
        BY DEF next
      <4>2. m # 0 => longer[m] = flat[m]
        BY <2>4
      <4> QED
        BY <2>4, <3>1, <4>1, <4>2
    <3>2. CASE i \in 1 .. m
      <4>1. i # 1 => i - 1 \in 1 .. m
        BY <3>2
      <4> QED
        BY <2>1, <2>4, <3>2, <4>1 DEF Flattens
    <3> QED
      BY <3>1, <3>2
  <2> QED
    BY <2>3, <2>5 DEF Flattens
<1>3. k \in Exist
  <2> HIDE DEF Exist
  <2> QED
    BY <1>1, <1>2, SetInduction
<1> QED
  BY <1>3

LEMMA FlattenMeaning ==
    ASSUME NEW S, NEW k \in Nat, NEW part \in [1 .. k -> Seq(S)],
           \A r \in 1 .. k : Len(part[r]) <= 1
    PROVE  Joins(FlattenSeq(part), S, part, k)
<1>1. Len(part) = k /\ part \in Seq(Seq(S))
  OBVIOUS
<1>2. CASE k = 0
  <2>1. FlattenSeq(part) = <<>>
    BY <1>1, <1>2, EmptySeq DEF FlattenSeq
  <2> QED
    BY <1>2, <2>1 DEF Joins
<1>3. CASE k # 0
  <2> DEFINE G == CHOOSE g : g = [i \in 1 .. k |-> IF i = 1 THEN part[i] ELSE g[i - 1] \o part[i]]
  <2>1. FlattenSeq(part) = G[k]
    BY <1>1, <1>3 DEF FlattenSeq
  <2>2. Flattens(G, part, k)
    <3>1. PICK flat \in [1 .. k -> Seq(S)] : Flattens(flat, part, k)
      BY FlattensExist
    <3>2. flat = [i \in 1 .. k |-> IF i = 1 THEN part[i] ELSE flat[i - 1] \o part[i]]
      BY <3>1, SMTT(30) DEF Flattens
    <3>3. G = [i \in 1 .. k |-> IF i = 1 THEN part[i] ELSE G[i - 1] \o part[i]]
      BY <3>2, Zenon
    <3> HIDE DEF G
    <3> QED
      BY <3>3 DEF Flattens
  <2> HIDE DEF G
  <2> DEFINE Good == {m \in Nat : 1 <= m /\ m <= k => Joins(G[m], S, part, m)}
  <2>3. 0 \in Good
    OBVIOUS
  <2>4. ASSUME NEW m \in Nat, m \in Good PROVE m + 1 \in Good
    <3> SUFFICES ASSUME m + 1 <= k PROVE Joins(G[m + 1], S, part, m + 1)
      OBVIOUS
    <3>1. Len(part[m + 1]) <= 1
      OBVIOUS
    <3>2. CASE m = 0
      <4>1. G[1] = part[1]
        BY <1>3, <2>2 DEF Flattens
      <4>2. Joins(part[1], S, part, 1)
        <5>1. 1 <= k /\ Len(part[1]) <= 1
          BY <3>2
        <5> QED
          BY <5>1, JoinsOne
      <4> QED
        BY <3>2, <4>1, <4>2
    <3>3. CASE m # 0
      <4>1. G[m + 1] = G[m] \o part[m + 1]
        <5>1. m + 1 \in 1 .. k /\ m + 1 # 1 /\ (m + 1) - 1 = m
          BY <3>3
        <5>2. G[m + 1] = IF m + 1 = 1 THEN part[m + 1] ELSE G[(m + 1) - 1] \o part[m + 1]
          BY <2>2, <5>1 DEF Flattens
        <5> QED
          BY <5>1, <5>2
      <4>2. Joins(G[m], S, part, m)
        BY <2>4, <3>3
      <4> QED
        BY <3>1, <4>1, <4>2, JoinsNext
    <3> QED
      BY <3>2, <3>3
  <2>5. k \in Good
    <3> HIDE DEF Good
    <3> QED
      BY <2>3, <2>4, SetInduction
  <2> QED
    BY <1>3, <2>1, <2>5
<1> QED
  BY <1>2, <1>3

Intervals == [slot : Slots, start : Int, end : Int]

\* The events of a slot.
OnSlot(list, slot) == {n \in 1 .. Len(list) : list[n].slot = slot}

\* The event of a slot that has been idle since its last operation ended.
IdleUntil(slot, until) == [slot |-> slot, start |-> lastEnd[slot], end |-> until]

\* Idle time until a moment, on the given slots: one event each where time has
\* passed, and none elsewhere.
CoversIdle(list, slots, until) ==
    /\ list \in Seq(Intervals)
    /\ \A slot \in Slots : \A n \in OnSlot(list, slot) :
          slot \in slots /\ until > lastEnd[slot] /\ list[n] = IdleUntil(slot, until)
    /\ \A slot \in Slots : \A m, n \in OnSlot(list, slot) : m = n
    /\ \A slot \in slots : until > lastEnd[slot] => OnSlot(list, slot) # {}

LEMMA NewEvents ==
    ASSUME NEW k \in Nat, NEW who \in [1 .. k -> Slots],
           \A q, r \in 1 .. k : who[q] = who[r] => q = r,
           lastEnd \in [Slots -> Int], NEW until \in Int
    PROVE  CoversIdle(FlattenSeq([r \in 1 .. k |-> EventsUntil(who[r], until)]),
                      {who[r] : r \in 1 .. k}, until)
<1> DEFINE part == [r \in 1 .. k |-> EventsUntil(who[r], until)]
           flat == FlattenSeq(part)
<1>1. ASSUME NEW r \in 1 .. k
      PROVE  /\ part[r] = IF until > lastEnd[who[r]] THEN <<IdleUntil(who[r], until)>> ELSE <<>>
             /\ who[r] \in Slots
             /\ IdleUntil(who[r], until) \in Intervals
             /\ IdleUntil(who[r], until).slot = who[r]
  <2>1. who[r] \in Slots /\ lastEnd[who[r]] \in Int
    OBVIOUS
  <2> QED
    BY <2>1 DEF EventsUntil, IdleUntil, Intervals
<1>2. \A r \in 1 .. k : part[r] \in Seq(Intervals) /\ Len(part[r]) <= 1
  <2> SUFFICES ASSUME NEW r \in 1 .. k PROVE part[r] \in Seq(Intervals) /\ Len(part[r]) <= 1
    OBVIOUS
  <2>1. \A e \in Intervals : <<e>> \in Seq(Intervals) /\ Len(<<e>>) = 1
    OBVIOUS
  <2>2. <<>> \in Seq(Intervals) /\ Len(<<>>) = 0
    OBVIOUS
  <2> DEFINE event == IdleUntil(who[r], until)
  <2>3. event \in Intervals /\ (part[r] = <<event>> \/ part[r] = <<>>)
    BY <1>1
  <2>4. <<event>> \in Seq(Intervals) /\ Len(<<event>>) = 1
    BY <2>1, <2>3
  <2> HIDE DEF part, event
  <2>5. CASE part[r] = <<event>>
    <3>1. part[r] \in Seq(Intervals) /\ Len(part[r]) = 1
      BY <2>4, <2>5
    <3> QED
      BY <3>1
  <2>6. CASE part[r] = <<>>
    <3>1. part[r] \in Seq(Intervals) /\ Len(part[r]) = 0
      BY <2>2, <2>6
    <3> QED
      BY <3>1
  <2> QED
    BY <2>3, <2>5, <2>6
<1>3. part \in [1 .. k -> Seq(Intervals)]
  BY <1>2
<1>4. Joins(flat, Intervals, part, k)
  <2> HIDE DEF part
  <2> QED
    BY <1>2, <1>3, FlattenMeaning
<1> HIDE DEF part, flat
<1>5. ASSUME NEW n \in 1 .. Len(flat), NEW r \in 1 .. k, part[r] = <<flat[n]>>
      PROVE  /\ flat[n] = IdleUntil(who[r], until) /\ flat[n].slot = who[r]
             /\ until > lastEnd[who[r]]
  <2>1. part[r] # <<>>
    BY <1>5
  <2>2. until > lastEnd[who[r]] /\ part[r] = <<IdleUntil(who[r], until)>>
    BY <1>1, <2>1
  <2>3. flat[n] = IdleUntil(who[r], until)
    BY <1>5, <2>2
  <2> QED
    BY <1>1, <2>2, <2>3
<1>6. ASSUME NEW slot \in Slots, NEW n \in OnSlot(flat, slot)
      PROVE  /\ slot \in {who[r] : r \in 1 .. k} /\ until > lastEnd[slot]
             /\ flat[n] = IdleUntil(slot, until)
  <2>1. n \in 1 .. Len(flat) /\ flat[n].slot = slot
    BY DEF OnSlot
  <2>2. PICK r \in 1 .. k : part[r] = <<flat[n]>>
    BY <1>4, <2>1 DEF Joins
  <2> QED
    BY <1>5, <2>1, <2>2
<1>7. ASSUME NEW slot \in Slots, NEW m \in OnSlot(flat, slot), NEW n \in OnSlot(flat, slot)
      PROVE  ~ (m < n)
  <2> SUFFICES ASSUME m < n PROVE FALSE
    OBVIOUS
  <2>1. m \in 1 .. Len(flat) /\ n \in 1 .. Len(flat) /\ flat[m].slot = slot /\ flat[n].slot = slot
    BY DEF OnSlot
  <2>2. PICK q \in 1 .. k, r \in 1 .. k : q < r /\ part[q] = <<flat[m]>> /\ part[r] = <<flat[n]>>
    BY <1>4, <2>1 DEF Joins
  <2>3. who[q] = slot /\ who[r] = slot
    BY <1>5, <2>1, <2>2
  <2>4. q = r
    BY <2>3
  <2> QED
    BY <2>2, <2>4
<1>8. \A slot \in Slots : \A m, n \in OnSlot(flat, slot) : m = n
  <2> SUFFICES ASSUME NEW slot \in Slots, NEW m \in OnSlot(flat, slot), NEW n \in OnSlot(flat, slot)
               PROVE  m = n
    OBVIOUS
  <2>1. ~ (m < n) /\ ~ (n < m)
    BY <1>7
  <2>2. m \in Int /\ n \in Int
    BY DEF OnSlot
  <2> QED
    BY <2>1, <2>2
<1>9. ASSUME NEW r \in 1 .. k, until > lastEnd[who[r]] PROVE OnSlot(flat, who[r]) # {}
  <2>1. part[r] = <<IdleUntil(who[r], until)>>
    BY <1>1, <1>9
  <2>2. PICK n \in 1 .. Len(flat) : part[r] = <<flat[n]>>
    <3>1. part[r] # <<>>
      BY <2>1
    <3> QED
      BY <1>4, <3>1 DEF Joins
  <2>3. flat[n].slot = who[r]
    BY <1>5, <2>2
  <2> QED
    BY <2>3 DEF OnSlot
<1>10. flat \in Seq(Intervals)
  BY <1>4 DEF Joins
<1>11. CoversIdle(flat, {who[r] : r \in 1 .. k}, until)
  BY <1>6, <1>8, <1>9, <1>10 DEF CoversIdle
<1> QED
  BY <1>11 DEF flat, part

\* What the events show of a slot: a set of intervals, one after the other.
ShowsInOrder(list, slot, intervals) ==
    /\ {list[n] : n \in OnSlot(list, slot)} = intervals
    /\ \A m, n \in OnSlot(list, slot) : m < n => list[m].end <= list[n].start

\* New events come after the old ones of the slot.
LEMMA AppendedEvents ==
    ASSUME NEW list \in Seq(Intervals), NEW slots, NEW more, NEW until \in Int,
           CoversIdle(more, slots, until), NEW slot \in Slots, NEW intervals,
           ShowsInOrder(list, slot, intervals),
           \A n \in OnSlot(list, slot) : list[n].end <= lastEnd[slot]
    PROVE  ShowsInOrder(list \o more, slot,
                        intervals \union {e \in {IdleUntil(slot, until)} :
                                             slot \in slots /\ until > lastEnd[slot]})
<1> DEFINE all == list \o more
           l == Len(list)
           added == {e \in {IdleUntil(slot, until)} : slot \in slots /\ until > lastEnd[slot]}
<1>1. more \in Seq(Intervals) /\ l \in Nat /\ Len(more) \in Nat
  BY DEF CoversIdle
<1>2. /\ Len(all) = l + Len(more)
      /\ \A n \in 1 .. l + Len(more) : all[n] = IF n <= l THEN list[n] ELSE more[n - l]
  BY <1>1, ConcatProperties
<1> HIDE DEF all
<1>3. ASSUME NEW n \in OnSlot(all, slot)
      PROVE  \/ n \in OnSlot(list, slot) /\ all[n] = list[n]
             \/ n - l \in OnSlot(more, slot) /\ all[n] = more[n - l] /\ l < n
  <2>1. n \in 1 .. l + Len(more) /\ all[n].slot = slot
    BY <1>2 DEF OnSlot
  <2>2. CASE n <= l
    BY <1>1, <1>2, <2>1, <2>2 DEF OnSlot
  <2>3. CASE ~ (n <= l)
    <3>1. all[n] = more[n - l] /\ n - l \in 1 .. Len(more) /\ l < n
      BY <1>1, <1>2, <2>1, <2>3
    <3> QED
      BY <2>1, <3>1 DEF OnSlot
  <2> QED
    BY <2>2, <2>3
<1>4. ASSUME NEW n \in OnSlot(list, slot) PROVE n \in OnSlot(all, slot) /\ all[n] = list[n] /\ n <= l
  BY <1>1, <1>2 DEF OnSlot
<1>5. ASSUME NEW n \in OnSlot(more, slot)
      PROVE  l + n \in OnSlot(all, slot) /\ all[l + n] = more[n]
  <2>1. n \in 1 .. Len(more) /\ more[n].slot = slot
    BY DEF OnSlot
  <2>2. l + n \in 1 .. l + Len(more) /\ ~ (l + n <= l) /\ (l + n) - l = n
    BY <1>1, <2>1
  <2>3. all[l + n] = more[n]
    BY <1>2, <2>2
  <2> QED
    BY <1>2, <2>1, <2>2, <2>3 DEF OnSlot
<1>6. \A n \in OnSlot(more, slot) :
         slot \in slots /\ until > lastEnd[slot] /\ more[n] = IdleUntil(slot, until)
  BY DEF CoversIdle
<1>7. {all[n] : n \in OnSlot(all, slot)} = intervals \union added
  <2>1. ASSUME NEW n \in OnSlot(all, slot) PROVE all[n] \in intervals \union added
    BY <1>3, <1>6 DEF ShowsInOrder
  <2>2. ASSUME NEW e \in intervals PROVE \E n \in OnSlot(all, slot) : e = all[n]
    <3>1. PICK n \in OnSlot(list, slot) : e = list[n]
      BY <2>2 DEF ShowsInOrder
    <3> QED
      BY <1>4, <3>1
  <2>3. ASSUME slot \in slots, until > lastEnd[slot]
        PROVE  \E n \in OnSlot(all, slot) : IdleUntil(slot, until) = all[n]
    <3>1. PICK n \in OnSlot(more, slot) : TRUE
      BY <2>3 DEF CoversIdle
    <3> QED
      BY <1>5, <1>6, <3>1
  <2> QED
    BY <2>1, <2>2, <2>3
<1>8. ASSUME NEW m \in OnSlot(all, slot), NEW n \in OnSlot(all, slot), m < n
      PROVE  all[m].end <= all[n].start
  <2>1. CASE n \in OnSlot(list, slot) /\ all[n] = list[n]
    <3>1. m \in OnSlot(list, slot) /\ all[m] = list[m]
      <4>1. n <= l /\ m \in Int /\ n \in Int
        BY <1>4, <2>1 DEF OnSlot
      <4> QED
        BY <1>1, <1>3, <1>8, <4>1
    <3> QED
      BY <1>8, <2>1, <3>1 DEF ShowsInOrder
  <2>2. CASE n - l \in OnSlot(more, slot) /\ all[n] = more[n - l]
    <3>1. all[n].start = lastEnd[slot]
      BY <1>6, <2>2 DEF IdleUntil
    <3>2. CASE m \in OnSlot(list, slot) /\ all[m] = list[m]
      BY <3>1, <3>2
    <3>3. CASE m - l \in OnSlot(more, slot)
      <4>1. m - l = n - l
        BY <2>2, <3>3 DEF CoversIdle
      <4>2. m \in Int /\ n \in Int
        BY DEF OnSlot
      <4> QED
        BY <1>1, <1>8, <4>1, <4>2
    <3> QED
      BY <1>3, <3>2, <3>3
  <2> QED
    BY <1>3, <2>1, <2>2
<1>9. ShowsInOrder(all, slot, intervals \union added)
  BY <1>7, <1>8 DEF ShowsInOrder
<1> QED
  BY <1>9 DEF all

\* The candidate went through the constructor of ExecutionSchedule, and its
\* operations last longer than twice the tolerance.
CandidateIsSchedule ==
    /\ IsExecutionSchedule(candidate.ops, candidate.idle, candidate.peak)
    /\ candidate.peak \in Int
    /\ \A i \in 1 .. Len(circuit) : candidate.ops[i].end - candidate.ops[i].start > 2 * Tol

\* A request that may run.
Runnable ==
    /\ CandidateOfCircuit /\ CandidateIsSchedule /\ ValidSchedule(candidate, target)
    /\ circuit \in Circuits

\* The ends of a slot's operations among the first m, and the gap before one.
EndsUpTo(slot, m) == {candidate.ops[j].end : j \in {h \in Using(target, slot) : h <= m}}
GapBefore(slot, i) == Gap(slot, EndsUpTo(slot, i - 1), candidate.ops[i].start)
GapsUpTo(slot, m) == UNION {GapBefore(slot, i) : i \in {h \in Using(target, slot) : h <= m}}
LastGap(slot) == Gap(slot, EndsUpTo(slot, Len(target)), candidate.peak)

LEMMA RunnableTimes ==
    ASSUME Runnable
    PROVE  /\ target = circuit /\ target \in Seq(Operations) /\ Len(target) \in Nat
           /\ Len(candidate.ops) = Len(target) /\ candidate.peak \in Int
           /\ \A i \in 1 .. Len(target) :
                 /\ candidate.ops[i].start \in Nat /\ candidate.ops[i].end \in Nat
                 /\ candidate.ops[i].start + 2 * Tol < candidate.ops[i].end
                 /\ candidate.ops[i].start < candidate.ops[i].end
                 /\ candidate.ops[i].end <= candidate.peak
<1>1. target = circuit /\ target \in Seq(Operations) /\ Len(target) \in Nat
      /\ Len(candidate.ops) = Len(target) /\ candidate.peak \in Int /\ Tol \in Nat
  BY CircuitsAreOperations, TolIsNatural
     DEF Runnable, ValidSchedule, MadeFor, CandidateOfCircuit, CandidateIsSchedule
<1>2. ASSUME NEW i \in 1 .. Len(target)
      PROVE  /\ candidate.ops[i].start \in Int /\ candidate.ops[i].end \in Int
             /\ 0 <= candidate.ops[i].start /\ candidate.ops[i].start < candidate.ops[i].end
             /\ candidate.ops[i].end <= candidate.peak
             /\ candidate.ops[i].end - candidate.ops[i].start > 2 * Tol
  BY <1>1 DEF Runnable, CandidateOfCircuit, CandidateIsSchedule, IsExecutionSchedule
<1>3. ASSUME NEW i \in 1 .. Len(target)
      PROVE  /\ candidate.ops[i].start \in Nat /\ candidate.ops[i].end \in Nat
             /\ candidate.ops[i].start + 2 * Tol < candidate.ops[i].end
  <2> DEFINE s == candidate.ops[i].start
             e == candidate.ops[i].end
  <2>1. s \in Int /\ e \in Int /\ 0 <= s /\ s < e /\ e - s > 2 * Tol /\ Tol \in Nat
    BY <1>1, <1>2
  <2>2. s \in Nat /\ e \in Nat /\ s + 2 * Tol < e
    <3> HIDE DEF s, e
    <3> QED
      BY <2>1
  <2> QED
    BY <2>2
<1> QED
  BY <1>1, <1>2, <1>3

\* The operations of a slot start and end in the circuit's order.
LEMMA SlotOperationsInOrder ==
    ASSUME Runnable, NEW slot \in Slots, NEW i \in Using(target, slot), NEW j \in Using(target, slot),
           i < j
    PROVE  /\ candidate.ops[i].start < candidate.ops[j].start
           /\ candidate.ops[i].end < candidate.ops[j].end
<1>1. i \in 1 .. Len(target) /\ j \in 1 .. Len(target) /\ i \in 1 .. j - 1 /\ Share(target, i, j)
  BY DEF Using, Share
<1>2. Len(circuit) \in Nat
  BY RunnableTimes
<1>3. candidate.ops[i].end <= candidate.ops[j].start + 2 * Tol
  BY <1>1, <1>2, AcceptedTimes DEF Runnable
<1> DEFINE is == candidate.ops[i].start
           ie == candidate.ops[i].end
           js == candidate.ops[j].start
           je == candidate.ops[j].end
<1>4. /\ is \in Nat /\ ie \in Nat /\ js \in Nat /\ je \in Nat /\ Tol \in Nat
      /\ is + 2 * Tol < ie /\ js + 2 * Tol < je /\ ie <= js + 2 * Tol
  BY <1>1, <1>3, RunnableTimes, TolIsNatural
<1>5. is < js /\ ie < je
  <2>1. \A a, b, c, d, t \in Nat : a + t < b /\ c + t < d /\ b <= c + t => a < c /\ b < d
    OBVIOUS
  <2>2. 2 * Tol \in Nat
    BY <1>4
  <2> HIDE DEF is, ie, js, je
  <2> QED
    BY <1>4, <2>1, <2>2
<1> QED
  BY <1>5

LEMMA SortedAsWritten ==
    ASSUME Runnable, NEW slot \in Slots, NEW i \in Using(target, slot)
    PROVE  {candidate.ops[j].end : j \in {k \in Using(target, slot) : SortedBefore(candidate.ops, k, i)}}
           = EndsUpTo(slot, i - 1)
<1>1. ASSUME NEW k \in Using(target, slot)
      PROVE  SortedBefore(candidate.ops, k, i) <=> k <= i - 1
  <2>1. k \in Int /\ i \in Int /\ candidate.ops[k].start \in Nat /\ candidate.ops[i].start \in Nat
    BY RunnableTimes DEF Using
  <2>2. CASE k < i
    BY <2>1, <2>2, SlotOperationsInOrder DEF SortedBefore
  <2>3. CASE i < k
    <3>1. candidate.ops[i].start < candidate.ops[k].start
      BY <2>3, SlotOperationsInOrder
    <3> QED
      BY <2>1, <2>3, <3>1 DEF SortedBefore
  <2>4. CASE k = i
    BY <2>1, <2>4 DEF SortedBefore
  <2> QED
    BY <2>1, <2>2, <2>3, <2>4
<1>2. {k \in Using(target, slot) : SortedBefore(candidate.ops, k, i)}
      = {h \in Using(target, slot) : h <= i - 1}
  BY <1>1
<1> QED
  BY <1>2 DEF EndsUpTo

\* The idle evidence of a slot is its gaps.
LEMMA EvidenceIsGaps ==
    ASSUME Runnable, NEW slot \in Slots
    PROVE  {e \in candidate.idle : e.slot = slot} = GapsUpTo(slot, Len(target)) \union LastGap(slot)
<1> DEFINE n == Len(target)
           sorted(i) == {candidate.ops[j].end :
                            j \in {k \in Using(target, slot) : SortedBefore(candidate.ops, k, i)}}
<1>1. candidate.idle = UNION {IdleOn(target, candidate.ops, s, candidate.peak) : s \in Slots}
  BY DEF Runnable, ValidSchedule, IdleEvidenceMatches, IdleIntervals
<1>2. \A s, ends, until : \A e \in Gap(s, ends, until) : e.slot = s
  BY DEF Gap
<1>3. ASSUME NEW s, NEW e \in IdleOn(target, candidate.ops, s, candidate.peak) PROVE e.slot = s
  <2> DEFINE before(i) == Gap(s, {candidate.ops[j].end :
                              j \in {k \in Using(target, s) : SortedBefore(candidate.ops, k, i)}},
                              candidate.ops[i].start)
             last == Gap(s, {candidate.ops[j].end : j \in Using(target, s)}, candidate.peak)
  <2>1. e \in (UNION {before(i) : i \in Using(target, s)}) \union last
    BY DEF IdleOn
  <2>2. (\A i : e \in before(i) => e.slot = s) /\ (e \in last => e.slot = s)
    BY <1>2
  <2> HIDE DEF before, last
  <2> QED
    BY <2>1, <2>2
<1>4. {e \in candidate.idle : e.slot = slot} = IdleOn(target, candidate.ops, slot, candidate.peak)
  BY <1>1, <1>3
<1>5. n \in Nat /\ \A i \in Using(target, slot) : i <= n
  BY RunnableTimes DEF Using
<1>6. \A i \in Using(target, slot) : Gap(slot, sorted(i), candidate.ops[i].start) = GapBefore(slot, i)
  BY SortedAsWritten DEF GapBefore
<1>7. (UNION {Gap(slot, sorted(i), candidate.ops[i].start) : i \in Using(target, slot)})
      = GapsUpTo(slot, n)
  <2> HIDE DEF sorted, n
  <2>1. {h \in Using(target, slot) : h <= n} = Using(target, slot)
    BY <1>5
  <2> QED
    BY <1>6, <2>1 DEF GapsUpTo
<1>8. {candidate.ops[j].end : j \in Using(target, slot)} = EndsUpTo(slot, n)
  <2>1. {h \in Using(target, slot) : h <= n} = Using(target, slot)
    BY <1>5
  <2> QED
    BY <2>1 DEF EndsUpTo
<1>9. IdleOn(target, candidate.ops, slot, candidate.peak) = GapsUpTo(slot, n) \union LastGap(slot)
  BY <1>7, <1>8 DEF IdleOn, LastGap
<1> QED
  BY <1>4, <1>9

\* The ends of a slot's operations are times.
LEMMA EndsAreTimes ==
    ASSUME Runnable, NEW slot \in Slots, NEW m
    PROVE  EndsUpTo(slot, m) \in SUBSET Nat
BY RunnableTimes DEF EndsUpTo, Using

\* A gap is the event of the slot, when the slot's last operation before it
\* has ended at the cursor.
LEMMA GapIsEvent ==
    ASSUME Runnable, NEW slot \in Slots, NEW m, NEW until \in Int,
           lastEnd[slot] \in LatestOf(EndsUpTo(slot, m))
    PROVE  Gap(slot, EndsUpTo(slot, m), until)
           = {e \in {IdleUntil(slot, until)} : until > lastEnd[slot]}
<1>1. lastEnd[slot] \in Nat /\ \A c \in LatestOf(EndsUpTo(slot, m)) : c = lastEnd[slot]
  BY EndsAreTimes, LatestIsUnique
<1>2. {c \in LatestOf(EndsUpTo(slot, m)) : c < until} = {c \in {lastEnd[slot]} : until > c}
  BY <1>1
<1> QED
  BY <1>2 DEF Gap, IdleUntil

\* What is due of a slot's evidence once its first m operations are done: the gaps
\* before them.
LEMMA DueIsPast ==
    ASSUME Runnable, NEW slot \in Slots, NEW m \in 0 .. Len(target),
           lastEnd[slot] \in LatestOf(EndsUpTo(slot, m))
    PROVE  {e \in candidate.idle : e.slot = slot /\ e.end <= lastEnd[slot]} = GapsUpTo(slot, m)
<1> DEFINE n == Len(target)
           last == lastEnd[slot]
<1>0. n \in Nat /\ m \in Nat /\ candidate.peak \in Int
  BY RunnableTimes
<1>1. last \in Nat /\ \A u \in EndsUpTo(slot, m) : u <= last
  BY EndsAreTimes, LatestIsUnique, LatestOfBounds
<1>2. ASSUME NEW k \in Nat, m <= k, NEW until \in Int, NEW e \in Gap(slot, EndsUpTo(slot, k), until)
      PROVE  ~ (e.end <= last)
  <2>1. PICK c \in LatestOf(EndsUpTo(slot, k)) : c < until /\ e = [slot |-> slot, start |-> c, end |-> until]
    BY <1>2 DEF Gap
  <2>2. c \in Nat
    BY EndsAreTimes, LatestIsUnique
  <2>3. last <= c
    <3>1. last = 0 \/ last \in EndsUpTo(slot, m)
      BY LatestOfBounds
    <3>2. EndsUpTo(slot, m) \subseteq EndsUpTo(slot, k)
      BY <1>0, <1>2 DEF EndsUpTo, Using
    <3> QED
      BY <2>1, <2>2, <3>1, <3>2, LatestOfBounds
  <2> QED
    BY <1>1, <2>1, <2>2, <2>3
<1>3. ASSUME NEW i \in Using(target, slot), NEW e \in GapBefore(slot, i)
      PROVE  e.end <= last <=> i <= m
  <2>1. i \in 1 .. n /\ candidate.ops[i].start \in Nat /\ candidate.ops[i].end \in Nat
        /\ candidate.ops[i].start < candidate.ops[i].end
    BY RunnableTimes DEF Using
  <2>2. CASE i <= m
    <3>1. candidate.ops[i].end <= last
      BY <1>1, <2>2 DEF EndsUpTo
    <3>2. e.end = candidate.ops[i].start
      BY <1>3 DEF GapBefore, Gap
    <3> QED
      BY <1>1, <2>1, <2>2, <3>1, <3>2
  <2>3. CASE ~ (i <= m)
    <3>1. i - 1 \in Nat /\ m <= i - 1
      BY <1>0, <2>1, <2>3
    <3>2. e \in Gap(slot, EndsUpTo(slot, i - 1), candidate.ops[i].start)
      BY <1>3 DEF GapBefore
    <3> QED
      BY <1>2, <2>1, <2>3, <3>1, <3>2
  <2> QED
    BY <2>2, <2>3
<1>4. \A e \in LastGap(slot) : ~ (e.end <= last)
  BY <1>0, <1>2 DEF LastGap
<1>5. {e \in candidate.idle : e.slot = slot /\ e.end <= last}
      = {e \in GapsUpTo(slot, n) \union LastGap(slot) : e.end <= last}
  BY EvidenceIsGaps
<1>6. ASSUME NEW e
      PROVE  e \in GapsUpTo(slot, n) /\ e.end <= last <=> e \in GapsUpTo(slot, m)
  <2>1. \A i \in Using(target, slot) : i <= n
    BY DEF Using
  <2>2. e \in GapsUpTo(slot, n) <=> \E i \in Using(target, slot) : e \in GapBefore(slot, i)
    BY <2>1 DEF GapsUpTo
  <2>3. e \in GapsUpTo(slot, m) <=> \E i \in Using(target, slot) : i <= m /\ e \in GapBefore(slot, i)
    BY DEF GapsUpTo
  <2> QED
    BY <1>3, <2>2, <2>3
<1> HIDE DEF n, last
<1>7. {e \in candidate.idle : e.slot = slot /\ e.end <= last} = GapsUpTo(slot, m)
  BY <1>4, <1>5, <1>6
<1> QED
  BY <1>7 DEF last

\* While the circuit runs, every slot's last end is the end of its last
\* operation, and its events are the gaps before its operations.
Executing ==
    /\ step \in 0 .. Len(target)
    /\ lastEnd \in [Slots -> Int]
    /\ \A slot \in Slots :
          /\ lastEnd[slot] \in LatestOf(EndsUpTo(slot, step))
          /\ ShowsInOrder(events, slot, GapsUpTo(slot, step))
          /\ \A n \in OnSlot(events, slot) : events[n].end <= lastEnd[slot]

IdleIInv ==
    /\ RequestIInv
    /\ run # "idle" => CandidateIsSchedule
    /\ events \in Seq(Intervals)
    /\ run \in {"idle", "submitted"} =>
          step = 0 /\ events = <<>> /\ lastEnd = [slot \in Slots |-> 0]
    /\ run = "executing" => Executing
    /\ run = "finished" =>
          \A slot \in Slots : ShowsInOrder(events, slot, {e \in candidate.idle : e.slot = slot})

LEMMA RunningIsRunnable ==
    ASSUME IdleIInv, run \in {"executing", "finished"}
    PROVE  Runnable
BY DEF IdleIInv, RequestIInv, Runnable, ScheduleIInv, ScheduleTypeOK

LEMMA NothingYet ==
    ASSUME NEW slot
    PROVE  0 \in LatestOf(EndsUpTo(slot, 0)) /\ ShowsInOrder(<<>>, slot, GapsUpTo(slot, 0))
           /\ OnSlot(<<>>, slot) = {}
<1>1. {h \in Using(target, slot) : h <= 0} = {}
  BY DEF Using
<1>2. EndsUpTo(slot, 0) = {} /\ GapsUpTo(slot, 0) = {}
  BY <1>1 DEF EndsUpTo, GapsUpTo
<1>3. 0 \in LatestOf({})
  BY DEF LatestOf
<1>4. OnSlot(<<>>, slot) = {}
  BY DEF OnSlot
<1>5. ShowsInOrder(<<>>, slot, {})
  BY <1>4 DEF ShowsInOrder
<1> QED
  BY <1>2, <1>3, <1>4, <1>5

\* One more operation of a slot, or of other slots only.
LEMMA OneMore ==
    ASSUME Runnable, NEW slot \in Slots, NEW m \in Nat, m < Len(target)
    PROVE  /\ m + 1 \in Using(target, slot) =>
                 /\ candidate.ops[m + 1].end \in LatestOf(EndsUpTo(slot, m + 1))
                 /\ GapsUpTo(slot, m + 1)
                    = GapsUpTo(slot, m) \union Gap(slot, EndsUpTo(slot, m), candidate.ops[m + 1].start)
                 /\ \A u \in LatestOf(EndsUpTo(slot, m)) : u <= candidate.ops[m + 1].end
           /\ m + 1 \notin Using(target, slot) =>
                 EndsUpTo(slot, m + 1) = EndsUpTo(slot, m) /\ GapsUpTo(slot, m + 1) = GapsUpTo(slot, m)
<1> DEFINE k == m + 1
           used(j) == {h \in Using(target, slot) : h <= j}
<1>1. Using(target, slot) \subseteq Nat /\ k \in 1 .. Len(target) /\ k - 1 = m /\ Len(target) \in Nat
  BY RunnableTimes DEF Using
<1>2. ASSUME k \notin Using(target, slot)
      PROVE  EndsUpTo(slot, k) = EndsUpTo(slot, m) /\ GapsUpTo(slot, k) = GapsUpTo(slot, m)
  <2>1. used(k) = used(m)
    BY <1>1, <1>2
  <2> QED
    BY <2>1 DEF EndsUpTo, GapsUpTo
<1>3. ASSUME k \in Using(target, slot)
      PROVE  /\ candidate.ops[k].end \in LatestOf(EndsUpTo(slot, k))
             /\ GapsUpTo(slot, k)
                = GapsUpTo(slot, m) \union Gap(slot, EndsUpTo(slot, m), candidate.ops[k].start)
             /\ \A u \in LatestOf(EndsUpTo(slot, m)) : u <= candidate.ops[k].end
  <2>1. used(k) = used(m) \union {k}
    BY <1>1, <1>3
  <2>2. candidate.ops[k].end \in Nat
    BY <1>1, RunnableTimes
  <2>3. \A j \in used(m) : candidate.ops[j].end < candidate.ops[k].end
    <3> SUFFICES ASSUME NEW j \in used(m) PROVE candidate.ops[j].end < candidate.ops[k].end
      OBVIOUS
    <3>1. j \in Using(target, slot) /\ j < k
      BY <1>1
    <3> HIDE DEF k
    <3> QED
      BY <1>3, <3>1, SlotOperationsInOrder
  <2>4. \A j \in used(m) : candidate.ops[j].end \in Nat
    BY RunnableTimes DEF Using
  <2>5. \A u \in EndsUpTo(slot, m) : u <= candidate.ops[k].end
    BY <2>2, <2>3, <2>4 DEF EndsUpTo
  <2>6. EndsUpTo(slot, k) = EndsUpTo(slot, m) \union {candidate.ops[k].end}
    BY <2>1 DEF EndsUpTo
  <2>7. candidate.ops[k].end \in LatestOf(EndsUpTo(slot, k))
    BY <2>2, <2>5, <2>6 DEF LatestOf
  <2>8. GapsUpTo(slot, k) = GapsUpTo(slot, m) \union GapBefore(slot, k)
    BY <2>1 DEF GapsUpTo
  <2>9. \A u \in LatestOf(EndsUpTo(slot, m)) : u <= candidate.ops[k].end
    BY <2>2, <2>5, LatestOfBounds
  <2>10. GapBefore(slot, k) = Gap(slot, EndsUpTo(slot, m), candidate.ops[k].start)
    BY <1>1 DEF GapBefore
  <2> QED
    BY <2>7, <2>8, <2>9, <2>10
<1> QED
  BY <1>2, <1>3

LEMMA RequestStays ==
    ASSUME UNCHANGED <<target, candidate>>
    PROVE  \A slot, m : /\ EndsUpTo(slot, m)' = EndsUpTo(slot, m)
                        /\ GapsUpTo(slot, m)' = GapsUpTo(slot, m)
BY DEF EndsUpTo, GapsUpTo, GapBefore

\* The slots of the operation that is next, each once.
LEMMA OperandsOnce ==
    ASSUME Runnable, NEW i \in 1 .. Len(target)
    PROVE  /\ target[i].slots \in Seq(Slots) /\ Len(target[i].slots) \in Nat
           /\ target[i].slots \in [1 .. Len(target[i].slots) -> Slots]
           /\ \A q, r \in 1 .. Len(target[i].slots) : target[i].slots[q] = target[i].slots[r] => q = r
           /\ Involved(target[i]) = {target[i].slots[r] : r \in 1 .. Len(target[i].slots)}
<1>1. target = circuit /\ circuit \in Circuits /\ target \in Seq(Operations)
  BY RunnableTimes DEF Runnable
<1>2. target[i] \in Operations
  BY <1>1
<1>3. target[i].slots \in Seq(Slots)
  BY <1>2 DEF Operations
<1>4. \A q, r \in 1 .. Len(target[i].slots) : target[i].slots[q] = target[i].slots[r] => q = r
  BY <1>1, OperandsAreDistinct
<1> QED
  BY <1>3, <1>4 DEF Involved

LEMMA ExecuteKeeps ==
    ASSUME IdleIInv, Execute
    PROVE  Executing' /\ events' \in Seq(Intervals)
<1>1. Runnable /\ Executing /\ events \in Seq(Intervals) /\ UNCHANGED <<target, candidate>>
  BY RunningIsRunnable DEF Execute, IdleIInv, requestVars
<1> DEFINE k == step + 1
           start == candidate.ops[k].start
           slots == target[k].slots
           more == FlattenSeq([r \in 1 .. Len(slots) |-> EventsUntil(slots[r], start)])
<1>2. step \in Nat /\ step < Len(target) /\ k \in 1 .. Len(target) /\ Len(target) \in Nat
      /\ step' = k /\ k \in 0 .. Len(target)
  BY <1>1, RunnableTimes DEF Execute, Executing
<1>3. start \in Nat /\ candidate.ops[k].end \in Nat /\ start < candidate.ops[k].end
  BY <1>1, <1>2, RunnableTimes
<1>4. /\ events' = events \o more
      /\ lastEnd' = [slot \in Slots |-> IF slot \in Involved(target[k]) THEN candidate.ops[k].end
                                         ELSE lastEnd[slot]]
  BY DEF Execute, CurrentOp, CurrentSpan
<1>5. CoversIdle(more, Involved(target[k]), start)
  <2>1. /\ Len(slots) \in Nat /\ slots \in [1 .. Len(slots) -> Slots]
        /\ \A q, r \in 1 .. Len(slots) : slots[q] = slots[r] => q = r
        /\ Involved(target[k]) = {slots[r] : r \in 1 .. Len(slots)}
    BY <1>1, <1>2, OperandsOnce
  <2>2. lastEnd \in [Slots -> Int] /\ start \in Int
    BY <1>1, <1>3 DEF Executing
  <2> HIDE DEF slots, start, k
  <2>3. CoversIdle(more, {slots[r] : r \in 1 .. Len(slots)}, start)
    BY <2>1, <2>2, NewEvents
  <2> QED
    BY <2>1, <2>3 DEF slots
<1> HIDE DEF more, slots, start
<1>6. events' \in Seq(Intervals)
  <2>1. more \in Seq(Intervals)
    BY <1>5 DEF CoversIdle
  <2> QED
    BY <1>1, <1>4, <2>1, ConcatProperties
<1>7. lastEnd' \in [Slots -> Int]
  BY <1>1, <1>3, <1>4 DEF Executing
<1>8. ASSUME NEW slot \in Slots
      PROVE  /\ lastEnd'[slot] \in LatestOf(EndsUpTo(slot, k))
             /\ ShowsInOrder(events', slot, GapsUpTo(slot, k))
             /\ lastEnd[slot] <= lastEnd'[slot]
             /\ lastEnd[slot] \in Int /\ lastEnd'[slot] \in Int
  <2>1. /\ lastEnd[slot] \in LatestOf(EndsUpTo(slot, step)) /\ lastEnd[slot] \in Int
        /\ ShowsInOrder(events, slot, GapsUpTo(slot, step))
        /\ \A n \in OnSlot(events, slot) : events[n].end <= lastEnd[slot]
        /\ lastEnd'[slot] \in Int
    BY <1>1, <1>7 DEF Executing
  <2> DEFINE added == {e \in {IdleUntil(slot, start)} : slot \in Involved(target[k]) /\ start > lastEnd[slot]}
  <2>2. ShowsInOrder(events', slot, GapsUpTo(slot, step) \union added)
    <3>1. start \in Int
      BY <1>3
    <3>2. ShowsInOrder(events \o more, slot, GapsUpTo(slot, step) \union added)
      BY <1>1, <1>5, <2>1, <3>1, AppendedEvents
    <3> QED
      BY <1>4, <3>2
  <2>3. CASE slot \in Involved(target[k])
    <3>1. k \in Using(target, slot)
      BY <1>2, <2>3 DEF Using
    <3>2. /\ candidate.ops[k].end \in LatestOf(EndsUpTo(slot, k))
          /\ GapsUpTo(slot, k) = GapsUpTo(slot, step) \union Gap(slot, EndsUpTo(slot, step), candidate.ops[k].start)
          /\ \A u \in LatestOf(EndsUpTo(slot, step)) : u <= candidate.ops[k].end
      BY <1>1, <1>2, <3>1, OneMore
    <3>3. Gap(slot, EndsUpTo(slot, step), start) = {e \in {IdleUntil(slot, start)} : start > lastEnd[slot]}
      <4>1. start \in Int
        BY <1>3
      <4> QED
        BY <1>1, <2>1, <4>1, GapIsEvent
    <3>4. added = Gap(slot, EndsUpTo(slot, step), start)
      BY <2>3, <3>3
    <3>5. lastEnd'[slot] = candidate.ops[k].end
      BY <1>4, <2>3
    <3>6. GapsUpTo(slot, k) = GapsUpTo(slot, step) \union added
      BY <3>2, <3>4 DEF start
    <3>7. ShowsInOrder(events', slot, GapsUpTo(slot, k))
      BY <2>2, <3>6
    <3> QED
      BY <2>1, <3>2, <3>5, <3>7
  <2>4. CASE slot \notin Involved(target[k])
    <3>1. k \notin Using(target, slot)
      BY <2>4 DEF Using
    <3>2. EndsUpTo(slot, k) = EndsUpTo(slot, step) /\ GapsUpTo(slot, k) = GapsUpTo(slot, step)
      BY <1>1, <1>2, <3>1, OneMore
    <3>3. added = {} /\ lastEnd'[slot] = lastEnd[slot]
      BY <1>4, <2>4
    <3>4. GapsUpTo(slot, step) \union added = GapsUpTo(slot, k)
      BY <3>2, <3>3
    <3>5. ShowsInOrder(events', slot, GapsUpTo(slot, k))
      BY <2>2, <3>4
    <3> QED
      BY <2>1, <3>2, <3>3, <3>5
  <2> QED
    BY <2>3, <2>4
<1>9. ASSUME NEW slot \in Slots, NEW n \in OnSlot(events', slot)
      PROVE  events'[n].end <= lastEnd'[slot]
  <2>1. events'[n] \in GapsUpTo(slot, k)
    BY <1>8 DEF ShowsInOrder
  <2>2. PICK i \in Using(target, slot) : i <= k /\ events'[n] \in GapBefore(slot, i)
    BY <2>1 DEF GapsUpTo
  <2>3. events'[n].end = candidate.ops[i].start
    BY <2>2 DEF GapBefore, Gap
  <2>4. candidate.ops[i].end <= lastEnd'[slot]
    <3>1. candidate.ops[i].end \in EndsUpTo(slot, k)
      BY <2>2 DEF EndsUpTo
    <3> QED
      BY <1>8, <3>1, LatestOfBounds
  <2>5. /\ candidate.ops[i].start \in Nat /\ candidate.ops[i].end \in Nat
        /\ candidate.ops[i].start < candidate.ops[i].end
    BY <1>1, RunnableTimes DEF Using
  <2>6. lastEnd'[slot] \in Int
    BY <1>8
  <2> QED
    BY <2>3, <2>4, <2>5, <2>6
<1>10. ASSUME NEW slot \in Slots
       PROVE  /\ (lastEnd[slot] \in LatestOf(EndsUpTo(slot, step)))'
              /\ ShowsInOrder(events, slot, GapsUpTo(slot, step))'
              /\ \A n \in OnSlot(events', slot) : events'[n].end <= lastEnd'[slot]
  BY <1>1, <1>2, <1>8, <1>9, RequestStays
<1> QED
  BY <1>1, <1>2, <1>6, <1>7, <1>10 DEF Executing

LEMMA FinishKeeps ==
    ASSUME IdleIInv, FinishRun
    PROVE  /\ events' \in Seq(Intervals)
           /\ \A slot \in Slots : ShowsInOrder(events', slot, {e \in candidate.idle : e.slot = slot})
<1>1. Runnable /\ Executing /\ events \in Seq(Intervals) /\ step = Len(target)
  BY RunningIsRunnable DEF FinishRun, IdleIInv
<1> DEFINE n == Cardinality(Slots)
           who == [r \in 1 .. n |-> r - 1]
           peakNow == candidate.peak
           more == FlattenSeq([r \in 1 .. n |-> EventsUntil(who[r], peakNow)])
<1>2. n \in Nat /\ Slots = 0 .. n - 1
  BY SlotsAreARange, FS_CardinalityType
<1>3. events' = events \o more
  <2>1. [r \in 1 .. n |-> EventsUntil(r - 1, peakNow)] = [r \in 1 .. n |-> EventsUntil(who[r], peakNow)]
    OBVIOUS
  <2> QED
    BY <2>1 DEF FinishRun
<1>4. CoversIdle(more, Slots, peakNow)
  <2> HIDE DEF n
  <2>1. /\ who \in [1 .. n -> Slots] /\ \A q, r \in 1 .. n : who[q] = who[r] => q = r
        /\ {who[r] : r \in 1 .. n} = Slots
    <3>1. \A r \in 1 .. n : who[r] = r - 1 /\ who[r] \in Slots
      BY <1>2
    <3>2. \A s \in Slots : s + 1 \in 1 .. n /\ who[s + 1] = s
      BY <1>2
    <3>3. \A q, r \in 1 .. n : who[q] = who[r] => q = r
      BY <3>1
    <3>4. who \in [1 .. n -> Slots]
      BY <3>1
    <3> HIDE DEF who
    <3> QED
      BY <3>1, <3>2, <3>3, <3>4
  <2>2. lastEnd \in [Slots -> Int] /\ peakNow \in Int
    BY <1>1, RunnableTimes DEF Executing
  <2> HIDE DEF who, peakNow
  <2>3. CoversIdle(more, {who[r] : r \in 1 .. n}, peakNow)
    BY <1>2, <2>1, <2>2, NewEvents
  <2> QED
    BY <2>1, <2>3
<1> HIDE DEF more, peakNow
<1>5. events' \in Seq(Intervals)
  <2>1. more \in Seq(Intervals)
    BY <1>4 DEF CoversIdle
  <2> QED
    BY <1>1, <1>3, <2>1, ConcatProperties
<1>6. ASSUME NEW slot \in Slots
      PROVE  ShowsInOrder(events', slot, {e \in candidate.idle : e.slot = slot})
  <2>1. /\ lastEnd[slot] \in LatestOf(EndsUpTo(slot, step))
        /\ ShowsInOrder(events, slot, GapsUpTo(slot, step))
        /\ \A m \in OnSlot(events, slot) : events[m].end <= lastEnd[slot]
    BY <1>1 DEF Executing
  <2> DEFINE added == {e \in {IdleUntil(slot, peakNow)} : slot \in Slots /\ peakNow > lastEnd[slot]}
  <2>2. peakNow \in Int
    BY <1>1, RunnableTimes DEF peakNow
  <2>3. ShowsInOrder(events \o more, slot, GapsUpTo(slot, step) \union added)
    BY <1>1, <1>4, <2>1, <2>2, AppendedEvents
  <2>4. Gap(slot, EndsUpTo(slot, step), peakNow) = {e \in {IdleUntil(slot, peakNow)} : peakNow > lastEnd[slot]}
    BY <1>1, <2>1, <2>2, GapIsEvent
  <2>5. added = LastGap(slot)
    BY <1>1, <2>4 DEF LastGap, peakNow
  <2>6. {e \in candidate.idle : e.slot = slot} = GapsUpTo(slot, step) \union added
    BY <1>1, <2>5, EvidenceIsGaps
  <2> HIDE DEF added
  <2> QED
    BY <1>3, <2>3, <2>6
<1> QED
  BY <1>5, <1>6

\* The scheduler's schedule has been through the constructor, and so has one
\* that was written with other times.
LEMMA SubmitIsSchedule ==
    ASSUME RequestIInv, SubmitOwn \/ SubmitMoved
    PROVE  CandidateIsSchedule'
<1>1. phase = "scheduled" /\ ScheduleIInv /\ FinishedSchedule
  BY DEF SubmitOwn, SubmitMoved, RequestIInv
<1>2. circuit' = circuit
  BY DEF SubmitOwn, SubmitMoved, Submitted, scheduleVars
<1>3. /\ Len(scheduled) = Len(circuit) /\ Len(scheduled) \in Nat /\ peak \in Nat
      /\ IsExecutionSchedule(scheduled, idle, peak)
  BY <1>1, PeakIsLast DEF FinishedSchedule, ScheduleIInv, ScheduleTypeOK
<1>4. ASSUME NEW i \in 1 .. Len(circuit)
      PROVE  /\ scheduled[i].start \in Int /\ scheduled[i].end \in Int
             /\ scheduled[i].end - scheduled[i].start > 2 * Tol
  <2>1. /\ profile[circuit[i].id] \in Nat /\ profile[circuit[i].id] > 0
        /\ scheduled[i].end = scheduled[i].start + profile[circuit[i].id]
        /\ scheduled[i].start \in Nat
    BY <1>1, <1>3, OperationTimes DEF ScheduleIInv, DurationKept
  <2>2. circuit \in Seq(Operations) /\ profile \in Profiles
    BY <1>1, CircuitsAreOperations DEF ScheduleIInv, ScheduleTypeOK
  <2>3. circuit[i].id \in OperationIds
    <3>1. circuit[i] \in Operations
      BY <2>2, ElementOfSeq
    <3> QED
      BY <3>1 DEF Operations
  <2>4. profile[circuit[i].id] > 2 * Tol
    BY <2>1, <2>2, <2>3, DurationsAboveTol
  <2> DEFINE s == scheduled[i].start
             e == scheduled[i].end
             d == profile[circuit[i].id]
  <2>5. s \in Nat /\ d \in Nat /\ e = s + d /\ d > 2 * Tol /\ Tol \in Nat
    BY <2>1, <2>4, TolIsNatural
  <2>6. s \in Int /\ e \in Int /\ e - s > 2 * Tol
    <3> HIDE DEF s, e, d
    <3> QED
      BY <2>5
  <2> QED
    BY <2>6
<1>5. CASE SubmitOwn
  <2>1. candidate' = OwnSchedule
    BY <1>5 DEF SubmitOwn, Submitted
  <2>2. candidate'.ops = scheduled /\ candidate'.idle = idle /\ candidate'.peak = peak
    BY <2>1 DEF OwnSchedule
  <2> QED
    BY <1>2, <1>3, <1>4, <2>2 DEF CandidateIsSchedule
<1>6. CASE SubmitMoved
  <2>1. PICK shift \in [1 .. Len(scheduled) -> Shifts], late \in Shifts, following \in BOOLEAN :
            /\ candidate' = Moved(shift, late, following)
            /\ IsExecutionSchedule(candidate'.ops, candidate'.idle, candidate'.peak)
    BY <1>6 DEF SubmitMoved, Submitted
  <2>2. /\ candidate'.peak = peak + late
        /\ candidate'.ops = [i \in 1 .. Len(scheduled) |->
                                [start |-> scheduled[i].start + shift[i],
                                 end |-> scheduled[i].end + shift[i]]]
    BY <2>1 DEF Moved
  <2>3. late \in Int /\ \A i \in 1 .. Len(scheduled) : shift[i] \in Int
    BY ShiftsAreIntegers
  <2>4. ASSUME NEW i \in 1 .. Len(circuit)
        PROVE  candidate'.ops[i].end - candidate'.ops[i].start > 2 * Tol
    <3> DEFINE s == scheduled[i].start
               e == scheduled[i].end
               h == shift[i]
    <3>1. s \in Int /\ e \in Int /\ h \in Int /\ e - s > 2 * Tol /\ Tol \in Nat
      BY <1>3, <1>4, <2>3, TolIsNatural
    <3>2. candidate'.ops[i].start = s + h /\ candidate'.ops[i].end = e + h
      BY <1>3, <2>2
    <3>3. (e + h) - (s + h) > 2 * Tol
      <4> HIDE DEF s, e, h
      <4> QED
        BY <3>1
    <3> QED
      BY <3>2, <3>3
  <2>5. candidate'.peak \in Int
    BY <1>3, <2>2, <2>3
  <2> QED
    BY <1>2, <2>1, <2>4, <2>5 DEF CandidateIsSchedule
<1> QED
  BY <1>5, <1>6

LEMMA IdleStep ==
    IdleIInv /\ [RunNext]_runVars => IdleIInv'
<1> SUFFICES ASSUME IdleIInv, [RunNext]_runVars PROVE IdleIInv'
  OBVIOUS
<1>1. RequestIInv /\ RequestIInv'
  BY RequestStep DEF IdleIInv
<1>2. CASE ScheduleStep
  <2>1. /\ UNCHANGED <<requestVars, executionVars>> /\ phase = "scheduling"
    BY <1>2 DEF ScheduleStep, Schedule, ScheduleOperation, RejectTiming, FinishSchedule
  <2>2. run = "idle" /\ run' = "idle" /\ UNCHANGED <<step, events, lastEnd>>
    BY <1>1, <2>1 DEF RequestIInv, executionVars
  <2> QED
    BY <1>1, <2>2 DEF IdleIInv
<1>3. CASE SubmitOwn \/ SubmitMoved
  <2>1. run = "idle" /\ run' = "submitted" /\ UNCHANGED <<step, events, lastEnd>>
    BY <1>3 DEF SubmitOwn, SubmitMoved, Submitted
  <2>2. CandidateIsSchedule'
    BY <1>1, <1>3, SubmitIsSchedule
  <2> QED
    BY <1>1, <2>1, <2>2 DEF IdleIInv
<1>4. ASSUME UNCHANGED <<scheduleVars, requestVars>> PROVE CandidateIsSchedule' <=> CandidateIsSchedule
  BY <1>4 DEF CandidateIsSchedule, scheduleVars, requestVars
<1>5. CASE Accept
  <2>1. /\ run = "submitted" /\ run' = "executing" /\ UNCHANGED <<step, events, lastEnd>>
        /\ UNCHANGED <<scheduleVars, requestVars>> /\ ValidSchedule(candidate, target)
    BY <1>5 DEF Accept
  <2>2. step = 0 /\ events = <<>> /\ lastEnd = [slot \in Slots |-> 0] /\ CandidateIsSchedule
    BY <2>1 DEF IdleIInv
  <2>3. Executing'
    <3>1. UNCHANGED <<target, candidate>> /\ Len(target) \in Nat
      <4>1. Runnable
        BY <1>1, <2>1, <2>2 DEF Runnable, RequestIInv, ScheduleIInv, ScheduleTypeOK
      <4> QED
        BY <2>1, <4>1, RunnableTimes DEF requestVars
    <3>2. ASSUME NEW slot \in Slots
          PROVE  /\ lastEnd'[slot] \in LatestOf(EndsUpTo(slot, step)')
                 /\ ShowsInOrder(events', slot, GapsUpTo(slot, step)')
                 /\ \A n \in OnSlot(events', slot) : events'[n].end <= lastEnd'[slot]
      <4>1. step' = 0 /\ events' = <<>> /\ lastEnd'[slot] = 0
        BY <2>1, <2>2
      <4>2. EndsUpTo(slot, 0)' = EndsUpTo(slot, 0) /\ GapsUpTo(slot, 0)' = GapsUpTo(slot, 0)
        BY <3>1, RequestStays
      <4>3. EndsUpTo(slot, step)' = EndsUpTo(slot, 0)' /\ GapsUpTo(slot, step)' = GapsUpTo(slot, 0)'
        BY <4>1 DEF EndsUpTo, GapsUpTo, GapBefore
      <4> QED
        BY <4>1, <4>2, <4>3, NothingYet
    <3>3. step' \in 0 .. Len(target)' /\ lastEnd' \in [Slots -> Int]
      BY <2>1, <2>2, <3>1
    <3> QED
      BY <3>2, <3>3 DEF Executing
  <2> QED
    BY <1>1, <1>4, <2>1, <2>2, <2>3 DEF IdleIInv
<1>6. CASE Execute
  <2>1. /\ run = "executing" /\ run' = "executing" /\ UNCHANGED <<scheduleVars, requestVars>>
    BY <1>6 DEF Execute
  <2> QED
    BY <1>1, <1>4, <1>6, <2>1, ExecuteKeeps DEF IdleIInv
<1>7. CASE FinishRun
  <2>1. /\ run = "executing" /\ run' = "finished" /\ UNCHANGED <<scheduleVars, requestVars>>
        /\ candidate' = candidate
    BY <1>7 DEF FinishRun, requestVars
  <2>2. \A slot \in Slots : ShowsInOrder(events', slot, {e \in candidate'.idle : e.slot = slot})
    BY <1>7, <2>1, FinishKeeps
  <2> QED
    BY <1>1, <1>4, <1>7, <2>1, <2>2, FinishKeeps DEF IdleIInv
<1>8. CASE Reject \/ RefuseEvolution
  <2>1. /\ run # "idle" /\ run' \in {"rejected", "refused"}
        /\ UNCHANGED <<scheduleVars, requestVars, step, events, lastEnd>>
    BY <1>8 DEF Reject, RefuseEvolution
  <2> QED
    BY <1>1, <1>4, <2>1 DEF IdleIInv
<1>9. CASE RunDone \/ UNCHANGED runVars
  <2>1. UNCHANGED <<scheduleVars, requestVars, executionVars>>
    BY <1>9 DEF RunDone, runVars
  <2>2. UNCHANGED <<run, step, events, lastEnd, target, candidate>>
    BY <2>1 DEF requestVars, executionVars
  <2>3. Executing' <=> Executing
    BY <2>2, RequestStays DEF Executing
  <2> QED
    BY <1>1, <1>4, <2>1, <2>2, <2>3 DEF IdleIInv
<1> QED
  BY <1>2, <1>3, <1>5, <1>6, <1>7, <1>8, <1>9 DEF RunNext, RunStep

\* Idle decoherence is applied to a slot for exactly the idle intervals of an
\* accepted schedule, each once and in order, while the circuit runs and when
\* it has: whatever the circuit, the profile and the times in the schedule.
THEOREM IdleIsAppliedOnce == RunSpec => []IdleAppliedOnce
<1>1. RunInit => IdleIInv
  <2> SUFFICES ASSUME RunInit PROVE IdleIInv
    OBVIOUS
  <2>1. RequestIInv
    <3>1. ScheduleIInv
      BY InitEstablishesIInv DEF RunInit
    <3>2. FinishedSchedule /\ StartsWhenFree /\ run = "idle"
      BY DEF RunInit, ScheduleInit, FinishedSchedule, StartsWhenFree
    <3> QED
      BY <3>1, <3>2 DEF RequestIInv
  <2> QED
    BY <2>1 DEF IdleIInv, RunInit
<1>2. IdleIInv => IdleAppliedOnce
  <2> SUFFICES ASSUME IdleIInv, run \in {"executing", "finished"}, NEW slot \in Slots
               PROVE  ShowsInOrder(events, slot,
                          {e \in candidate.idle : e.slot = slot
                              /\ (run = "finished" \/ e.end <= lastEnd[slot])})
    <3>1. DOMAIN events = 1 .. Len(events)
      BY DEF IdleIInv
    <3> QED
      BY <3>1 DEF IdleAppliedOnce, ShowsInOrder, OnSlot
  <2>1. CASE run = "finished"
    <3>1. ShowsInOrder(events, slot, {e \in candidate.idle : e.slot = slot})
      BY <2>1 DEF IdleIInv
    <3>2. {e \in candidate.idle : e.slot = slot /\ (run = "finished" \/ e.end <= lastEnd[slot])}
          = {e \in candidate.idle : e.slot = slot}
      BY <2>1
    <3> QED
      BY <3>1, <3>2
  <2>2. CASE run = "executing"
    <3>1. Runnable /\ Executing
      BY <2>2, RunningIsRunnable DEF IdleIInv
    <3>2. {e \in candidate.idle : e.slot = slot /\ e.end <= lastEnd[slot]} = GapsUpTo(slot, step)
      BY <3>1, DueIsPast DEF Executing
    <3>3. {e \in candidate.idle : e.slot = slot /\ (run = "finished" \/ e.end <= lastEnd[slot])}
          = {e \in candidate.idle : e.slot = slot /\ e.end <= lastEnd[slot]}
      BY <2>2
    <3> QED
      BY <3>1, <3>2, <3>3 DEF Executing
  <2> QED
    BY <2>1, <2>2
<1> QED
  BY <1>1, <1>2, IdleStep, PTL DEF RunSpec

=============================================================================
