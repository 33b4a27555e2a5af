--------------------------- MODULE LogicalCompiler ---------------------------
(***************************************************************************)
(* compile_logical_module (packages/daidalon, compiler.py) around the      *)
(* expander: the two validations, lifetime and release analysis, dense     *)
(* slot allocation, lowering to IR operations, the readout plan, and the   *)
(* cross-check that LogicalCompilationResult makes of all of them.         *)
(*                                                                         *)
(* The code expands twice, once to validate and once to compile; expansion *)
(* depends on the module alone, so one expansion stands for both.          *)
(*                                                                         *)
(* Instruction indexes are the code's: instruction i here has index i - 1, *)
(* and an index equal to the number of instructions is the program's end.  *)
(* Slots are counted from 0.                                               *)
(***************************************************************************)
EXTENDS Expansion

VARIABLES
    stage,          \* how far the compilation came
    diagnostics,    \* the diagnostic codes of a CompileError
    lifetimes,      \* LogicalLifetimeAnalysis.lifetimes, one per value
    releases,       \* QuantumReleaseAnalysis.releases, one per value
    allocation,     \* LogicalSlotAllocationPlan
    operations,     \* CircuitIR.operations
    readout         \* ReadoutPlan.observations

artifactVars == <<lifetimes, releases, allocation, operations, readout>>
compilerVars == <<expansionVars, stage, diagnostics, artifactVars>>

NotAllocated == [entries |-> <<>>, peak |-> 0, width |-> 0]

-----------------------------------------------------------------------------
(* Validation.                                                             *)

\* A204: some program of the module, reachable from the entry or not, calls
\* one that observes.
CallsObserver ==
    \E p \in DOMAIN module.programs : \E c \in Callees(module, p) :
        Observations(module.programs[c]) # {}

CheckCallees ==
    /\ stage = "checking"
    /\ diagnostics' = IF CallsObserver THEN {"A204"} ELSE {}
    /\ stage' = IF CallsObserver THEN "rejected" ELSE "expanding"
    /\ UNCHANGED <<expansionVars, artifactVars>>

ExpandStep ==
    /\ stage = "expanding"
    /\ Expand
    /\ UNCHANGED <<stage, diagnostics, artifactVars>>

\* The expanded artifact's constructor raised a ValueError.
ExpansionRaisesSilently ==    \* mutant: the error is swallowed
    stage = "expanding" /\ phase = "invalid" /\ UNCHANGED compilerVars
ExpansionRaises ==
    /\ stage = "expanding" /\ phase = "invalid"
    /\ stage' = "failed"
    /\ UNCHANGED <<expansionVars, diagnostics, artifactVars>>

\* A205: aliases made both operands of a CX one value.
AliasedCxAtEntry(instr) ==    \* mutant: callees not checked
    instr.kind = "cx" /\ instr.path = <<>> /\ instr.refs[1] = instr.refs[2]
AliasedCx(instr)    == instr.kind = "cx" /\ instr.refs[1] = instr.refs[2]
\* A201: an observation in a basis other than z.
UnsupportedBasis(instr) == instr.kind = "observe" /\ instr.basis # "z"

CheckExpanded ==
    /\ stage = "expanding" /\ phase = "expanded"
    /\ diagnostics' =
          {code \in {"A201", "A205"} : \E i \in DOMAIN instrs :
              IF code = "A205" THEN AliasedCx(instrs[i]) ELSE UnsupportedBasis(instrs[i])}
    /\ stage' = IF diagnostics' = {} THEN "analyzing" ELSE "rejected"
    /\ UNCHANGED <<expansionVars, artifactVars>>

-----------------------------------------------------------------------------
(* Analysis.                                                               *)

ProgramEnd == Len(instrs)

ReturnedIds == {returned[leaf].id : leaf \in {l \in DOMAIN returned : returned[l].quantum}}

\* The indexes of the instructions that name a value.
TargetIndexes(id) ==    \* mutant: controls are not uses
    {i - 1 : i \in {j \in DOMAIN instrs : instrs[j].refs[1] = id}}
UseIndexes(id) ==
    {i - 1 : i \in {j \in DOMAIN instrs : \E r \in DOMAIN instrs[j].refs :
                                             instrs[j].refs[r] = id}}

EndReason(qubit) ==
    IF qubit.id \in ReturnedIds THEN "returned"
    ELSE IF qubit.id \in ToSet(escapes) THEN "call_escape"
    ELSE IF qubit.ownership = "entry_parameter" THEN "program_end"
    ELSE "last_use"

LastUseOrZero(qubit) ==    \* mutant: an unused value ends at the start
    IF UseIndexes(qubit.id) = {} THEN 0 ELSE Max(UseIndexes(qubit.id))
LastUse(qubit) ==
    IF UseIndexes(qubit.id) = {} THEN qubit.created ELSE Max(UseIndexes(qubit.id))

Lifetime(qubit) ==
    [id |-> qubit.id, first |-> qubit.created, reason |-> EndReason(qubit),
     last |-> IF EndReason(qubit) \in {"returned", "program_end"}
              THEN ProgramEnd ELSE LastUse(qubit)]

LiveAt(index) ==
    {q \in DOMAIN lifetimes : lifetimes[q].first <= index /\ index <= lifetimes[q].last}

\* peak_semantically_live_values.
PeakSemanticallyLive == Max({Cardinality(LiveAt(index)) : index \in 0 .. ProgramEnd})

\* LogicalLifetime.__post_init__ demands that no lifetime ends before it starts.
AnalyzeLifetimes ==
    /\ stage = "analyzing"
    /\ lifetimes' = [q \in DOMAIN qubits |-> Lifetime(qubits[q])]
    /\ stage' = IF \A q \in DOMAIN lifetimes' : lifetimes'[q].first <= lifetimes'[q].last
                THEN "releasing" ELSE "failed"
    /\ UNCHANGED <<expansionVars, diagnostics, releases, allocation, operations, readout>>

ReleaseKind(qubit) ==
    IF qubit.id \in ReturnedIds \/ qubit.ownership = "entry_parameter"
    THEN "retained" ELSE "discard_required"

AnalyzeReleases ==
    /\ stage = "releasing"
    /\ releases' = [q \in DOMAIN qubits |->
                       [id |-> qubits[q].id, after |-> lifetimes[q].last,
                        kind |-> ReleaseKind(qubits[q]), reason |-> lifetimes[q].reason]]
    /\ stage' = "allocating"
    /\ UNCHANGED <<expansionVars, diagnostics, lifetimes, allocation, operations, readout>>

-----------------------------------------------------------------------------
(* Allocation and lowering.                                                *)

\* expanded-dense-no-reuse-v1: one slot per value, in creation order.
Allocate ==
    /\ stage = "allocating"
    /\ allocation' = [entries |-> [q \in DOMAIN qubits |-> [id |-> qubits[q].id, slot |-> q - 1]],
                      peak |-> Len(qubits), width |-> Len(qubits)]
    /\ stage' = "lowering"
    /\ UNCHANGED <<expansionVars, diagnostics, lifetimes, releases, operations, readout>>

\* slots[id]: a later entry of one identifier would overwrite an earlier one.
SlotFromOne(id) ==    \* mutant: slots counted from one
    Max({q \in DOMAIN allocation.entries : allocation.entries[q].id = id})
Slot(id) ==
    allocation.entries[Max({q \in DOMAIN allocation.entries :
                              allocation.entries[q].id = id})].slot

\* The IR operation identifier carries the call path and the definition's
\* operation identifier, not the expanded one.
IrId(instr) == <<[n \in DOMAIN instr.calls |-> instr.calls[n].op], instr.op>>

LowerInstruction(instr) ==
    [id |-> IrId(instr), kind |-> instr.kind,
     slots |-> [r \in DOMAIN instr.refs |-> Slot(instr.refs[r])],
     key |-> instr.result,
     observed |-> IF instr.kind = "observe" THEN instr.refs[1] ELSE NoValue,
     parent |-> instr.op]

Lower ==
    /\ stage = "lowering"
    /\ operations' = [i \in DOMAIN instrs |-> LowerInstruction(instrs[i])]
    /\ stage' = "reading"
    /\ UNCHANGED <<expansionVars, diagnostics, lifetimes, releases, allocation, readout>>

IsObservation(instr) == instr.kind = "observe"

AllocatedObservation(instr) ==
    [result |-> instr.result, id |-> instr.refs[1], slot |-> Slot(instr.refs[1]),
     operation |-> instr.op]

\* The observations among the instructions, in order.
ExpandedObservations ==
    LET among[i \in 0 .. Len(instrs)] ==
            IF i = 0 THEN <<>>
            ELSE IF IsObservation(instrs[i]) THEN Append(among[i - 1], instrs[i])
            ELSE among[i - 1]
    IN  among[Len(instrs)]

BuildReadout ==
    /\ stage = "reading"
    /\ readout' = [n \in DOMAIN ExpandedObservations |->
                      AllocatedObservation(ExpandedObservations[n])]
    /\ stage' = "publishing"
    /\ UNCHANGED <<expansionVars, diagnostics, lifetimes, releases, allocation, operations>>

-----------------------------------------------------------------------------
(* The published result.                                                   *)

\* ReadoutPlan.__post_init__.
ReadoutPlanValid ==
    /\ Injective([n \in DOMAIN readout |-> readout[n].result])
    /\ Injective([n \in DOMAIN readout |-> readout[n].operation])
    /\ \A leaf \in DOMAIN returned : ~returned[leaf].quantum =>
          \E n \in DOMAIN readout : readout[n].result = returned[leaf].id

\* An observation against the one IR measurement that produces its result.
ObservationMatches(observation) ==
    \E o \in DOMAIN operations :
        /\ operations[o].kind = "observe"
        /\ operations[o].key = observation.result
        /\ operations[o].slots = <<observation.slot>>
        /\ operations[o].observed = observation.id
        /\ operations[o].parent = observation.operation
        /\ \A other \in DOMAIN operations :
              operations[other].kind = "observe"
                 /\ operations[other].key = observation.result => other = o

\* LogicalCompilationResult.__post_init__.
ResultConsistent ==
    /\ [q \in DOMAIN allocation.entries |-> allocation.entries[q].id] =
          [q \in DOMAIN qubits |-> qubits[q].id]
    /\ [q \in DOMAIN lifetimes |-> lifetimes[q].id] = [q \in DOMAIN qubits |-> qubits[q].id]
    /\ [q \in DOMAIN releases |-> releases[q].id] = [q \in DOMAIN qubits |-> qubits[q].id]
    /\ \A q \in DOMAIN releases :
          /\ releases[q].after = lifetimes[q].last
          /\ releases[q].reason = lifetimes[q].reason
          /\ releases[q].kind = ReleaseKind(qubits[q])
    /\ \A n \in DOMAIN readout :
          /\ Slot(readout[n].id) = readout[n].slot
          /\ ObservationMatches(readout[n])
    /\ \A id \in ReturnedIds : \E q \in DOMAIN allocation.entries :
          allocation.entries[q].id = id

Publish ==
    /\ stage = "publishing"
    /\ stage' = IF ReadoutPlanValid /\ ResultConsistent THEN "compiled" ELSE "failed"
    /\ UNCHANGED <<expansionVars, diagnostics, artifactVars>>

-----------------------------------------------------------------------------
(* compile_logical_program: one hand-built program without a module.  Its  *)
(* values keep their identifiers, which here are those of the entry        *)
(* program's invocation.                                                   *)

DirectDiagnostics(program) ==
    (IF CallInstrs(program) # {} THEN {"A203"} ELSE {}) \union
    (IF \E i \in DOMAIN program.code : UnsupportedBasis(program.code[i])
     THEN {"A201"} ELSE {})

\* dense-no-reuse-v1: one slot per value, in declaration order.
DirectSlot(program, v) ==
    (CHOOSE d \in DOMAIN program.defs : program.defs[d].id = v) - 1

DirectOperationControlsFirst(program, i) ==    \* mutant: controls and targets swapped
    LET instr == program.code[i]
    IN  [id |-> <<<<>>, instr.op>>, kind |-> instr.kind,
         slots |-> Reverse([r \in DOMAIN instr.refs |-> DirectSlot(program, instr.refs[r])]),
         key |-> instr.result,
         observed |-> IF IsObservation(instr) THEN <<<<>>, instr.refs[1]>> ELSE NoValue,
         parent |-> instr.op]
DirectOperation(program, i) ==
    LET instr == program.code[i]
    IN  [id |-> <<<<>>, instr.op>>, kind |-> instr.kind,
         slots |-> [r \in DOMAIN instr.refs |-> DirectSlot(program, instr.refs[r])],
         key |-> instr.result,
         observed |-> IF IsObservation(instr) THEN <<<<>>, instr.refs[1]>> ELSE NoValue,
         parent |-> instr.op]

-----------------------------------------------------------------------------

CompilerInit ==
    /\ ExpansionInit
    /\ stage = "checking"
    /\ diagnostics = {}
    /\ lifetimes = <<>> /\ releases = <<>> /\ operations = <<>> /\ readout = <<>>
    /\ allocation = NotAllocated

Compile ==
    \/ CheckCallees \/ ExpandStep \/ ExpansionRaises \/ CheckExpanded
    \/ AnalyzeLifetimes \/ AnalyzeReleases \/ Allocate \/ Lower \/ BuildReadout
    \/ Publish

Ended == stage \in {"compiled", "rejected", "failed"}

CompilationDone == Ended /\ UNCHANGED compilerVars

CompilerNext == Compile \/ CompilationDone

\* One synchronous call.
CompilerSpec == CompilerInit /\ [][CompilerNext]_compilerVars /\ WF_compilerVars(Compile)

-----------------------------------------------------------------------------
(* Properties.                                                             *)

\* The shape of the artifacts, and of the expansion they are made from.
CompilerTypeOK ==
    /\ TypeOK
    /\ stage \in {"checking", "expanding", "analyzing", "releasing", "allocating",
                  "lowering", "reading", "publishing", "compiled", "rejected", "failed"}
    /\ diagnostics \subseteq {"A201", "A204", "A205"}
    /\ \A q \in DOMAIN lifetimes :
          lifetimes[q].reason \in {"returned", "call_escape", "program_end", "last_use"}
    /\ \A q \in DOMAIN releases : releases[q].kind \in {"retained", "discard_required"}
    /\ allocation.peak <= allocation.width
    /\ \A o \in DOMAIN operations : \A r \in DOMAIN operations[o].slots :
          operations[o].slots[r] \in 0 .. allocation.width - 1

\* Compilation fails with an error that is not a diagnostic only when a value
\* is returned that was observed under an alias: no later constructor and no
\* cross-check of the result turns the compiler's own artifacts down.
OnlyAliasedObservationFails == stage = "failed" => phase = "invalid" /\ ObservedUnderAlias

\* A value's release is neither too early nor too late for anyone who knows it
\* by any name: no operation after it touches the slot the value holds; what the
\* entry program returns or borrows is retained to the end; and what a call
\* returned upward does not end as if its last use had been inside the call.
ReleasesSound ==
    stage = "compiled" =>
        \A q \in DOMAIN releases :
            LET id == releases[q].id IN
            /\ \A o \in DOMAIN operations :
                  (\E r \in DOMAIN operations[o].slots :
                      operations[o].slots[r] = allocation.entries[q].slot)
                  => lifetimes[q].first < o /\ o <= releases[q].after + 1
            /\ releases[q].kind = "discard_required" =>
                  id \notin ReturnedIds /\ qubits[q].ownership = "local"
            /\ id \in ReturnedIds => releases[q].after = ProgramEnd
            /\ releases[q].reason = "last_use" =>
                  \A c \in DOMAIN records :
                      records[c].returned = id => ~InstantiatedBy(id, records[c].path)

\* The slots of the compiled circuit carry the source program: two operands
\* of the circuit meet in a slot exactly when they are one value, and every
\* controlled operation acts on two slots.
SlotsAreValues ==
    stage = "compiled" =>
        /\ \A i, j \in DOMAIN operations :
              \A r \in DOMAIN operations[i].slots, s \in DOMAIN operations[j].slots :
                  (operations[i].slots[r] = operations[j].slots[s])
                     <=> (instrs[i].refs[r] = instrs[j].refs[s])
        /\ \A i \in DOMAIN operations : operations[i].kind = "cx" =>
              operations[i].slots[1] # operations[i].slots[2]
        /\ Injective([i \in DOMAIN operations |-> operations[i].id])

\* For a program without calls the two ways of compiling it agree: they
\* report the same diagnostics and otherwise produce the same operations and
\* readout, up to the choice of slots, although one allocates in declaration
\* order and the other in source order.  A program with calls is turned away
\* by compile_logical_program.
PathsAgree ==
    Ended =>
        LET program == module.programs[module.entry]
        IN  IF CallInstrs(program) # {}
            THEN "A203" \in DirectDiagnostics(program)
            ELSE /\ stage # "failed"
                 /\ "A204" \notin diagnostics => diagnostics = DirectDiagnostics(program)
                 /\ stage = "compiled" =>
                       \E renaming \in Bijection(0 .. Len(program.defs) - 1,
                                                0 .. allocation.width - 1) :
                          /\ operations = [i \in DOMAIN program.code |->
                                LET direct == DirectOperation(program, i)
                                IN  [direct EXCEPT !.slots =
                                        [r \in DOMAIN @ |-> renaming[@[r]]]]]
                          /\ \A n \in DOMAIN readout : \A i \in DOMAIN program.code :
                                program.code[i].op = readout[n].operation =>
                                    readout[n].slot = renaming[DirectSlot(program, readout[n].id[2])]

\* The compiled circuit is the source program: the expansion is one that every
\* later stage may rely on; values keep their slots while anyone may use them,
\* slots carry values, and both paths say so; and nothing but an aliased
\* observation stops a valid module half way.
CompiledIsFaithful ==
    /\ ExpansionSound
    /\ OnlyAliasedObservationFails /\ ReleasesSound /\ SlotsAreValues /\ PathsAgree

\* Every compilation ends.
CompilationEnds == <>Ended

=============================================================================
