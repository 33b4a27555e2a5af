----------------------------- MODULE Expansion -----------------------------
(***************************************************************************)
(* Invocation-aware call expansion (packages/daidalon, expansion.py): the  *)
(* recursive _expand_program of _LogicalModuleExpander as a machine with   *)
(* an explicit stack of activations.  Every call of the entry program's    *)
(* call tree is inlined; every Qubit() definition is instantiated once per *)
(* invocation; parameters are aliases of the caller's values.              *)
(*                                                                         *)
(* Each iteration of the code's loops is one action, in the code's order,  *)
(* so the machine is deterministic once the module is chosen.              *)
(*                                                                         *)
(* A CallInstanceId is the path of call operations from the entry program, *)
(* and an expanded identifier is the pair of that path and the definition's*)
(* identifier.  The code renders the path with ":call:" between operation  *)
(* identifiers; the rendering is one-to-one for identifiers that do not    *)
(* contain that separator, as the Python frontend's do not.                *)
(***************************************************************************)
EXTENDS LogicalModel, SequencesExt

CONSTANT Modules    \* the logical modules handed to expand_logical_module

ASSUME ModulesAreLogical == \A m \in Modules : IsLogicalModule(m)

\* What the types of the dataclasses say: tuples, kinds, and one leaf in a scalar.
IsTuple(s) == s \in Seq(ToSet(s))

ASSUME ModulesAreTyped ==
    \A m \in Modules : \A p \in DOMAIN m.programs :
        LET program == m.programs[p]
        IN  /\ IsTuple(program.defs) /\ IsTuple(program.params) /\ IsTuple(program.bits)
            /\ IsTuple(program.code) /\ IsTuple(program.leaves)
            /\ \A i \in DOMAIN program.code :
                  /\ program.code[i].kind \in Kinds
                  /\ IsTuple(program.code[i].refs) /\ IsTuple(program.code[i].params)
            /\ \A k \in DOMAIN program.leaves :
                  program.leaves[k] \in [quantum : BOOLEAN, id : {program.leaves[k].id}]
            /\ program.shape = "scalar" => Len(program.leaves) = 1

VARIABLES
    module,      \* the module being expanded; never assigned
    stack,       \* activations of _expand_program, the running one last
    qubits,      \* self.qubits: the instantiated quantum values
    instrs,      \* self.instructions: the expanded instructions
    records,     \* self.records: one per call, NoValue until the call returns
    escapes,     \* self.call_escape_qubit_ids, in order, with repetitions
    returned,    \* the entry program's resolved return leaves
    phase        \* "expanding", then "expanded" or "invalid"

expansionVars ==
    <<module, stack, qubits, instrs, records, escapes, returned, phase>>

\* Every operation identifier of the modules.
OpIds == UNION {UNION {{m.programs[p].code[i].op : i \in DOMAIN m.programs[p].code} :
                          p \in DOMAIN m.programs} : m \in Modules}

\* Every identifier of a value or a result.
Names == UNION {UNION {DefinedIds(m.programs[p])
                          \union {m.programs[p].code[i].result : i \in DOMAIN m.programs[p].code} :
                          p \in DOMAIN m.programs} : m \in Modules}

\* None is no expanded identifier.
ASSUME NoValueIsNoId == NoValue \notin Seq(OpIds) \X Names

-----------------------------------------------------------------------------
(* The running activation.                                                 *)

Top      == stack[Len(stack)]
Program  == module.programs[Top.prog]
Finished == Top.pc > Len(Program.code)
Current  == Program.code[Top.pc]

IsBound(frame, v) == v \in DOMAIN frame.bound

\* The expanded identifier of definition v in the invocation at path.
ExpandedId(path, v) == <<path, v>>

\* A frame with the value v bound to the expanded identifier id.
Bind(frame, v, id) ==
    [frame EXCEPT !.bound = [x \in DOMAIN @ \union {v} |->
                                IF x = v THEN id ELSE @[x]]]

WithTop(frame) == [stack EXCEPT ![Len(stack)] = frame]

LocalDefs(program) ==
    {d \in DOMAIN program.defs : program.defs[d].id \notin ParamIds(program)}

NewFrameStartingLate(prog, path, calls, bound, record) ==    \* mutant: first instruction missed
    [prog |-> prog, path |-> path, calls |-> calls, pc |-> 1, bound |-> bound,
     pending |-> LocalDefs(module.programs[prog]), locals |-> <<>>,
     record |-> record, start |-> Len(instrs) + 1]
NewFrame(prog, path, calls, bound, record) ==
    [prog |-> prog, path |-> path, calls |-> calls, pc |-> 1, bound |-> bound,
     pending |-> LocalDefs(module.programs[prog]), locals |-> <<>>,
     record |-> record, start |-> Len(instrs)]

\* pending_definitions, sorted by source position; the sort is stable.
Earlier(program, d, e) ==
    \/ program.defs[d].pos < program.defs[e].pos
    \/ program.defs[d].pos = program.defs[e].pos /\ d <= e

IsNextPending(d) ==
    /\ d \in Top.pending
    /\ \A e \in Top.pending : Earlier(Program, d, e)

\* The while loops before each instruction and after the last one.
IsDue(d) == ~Finished => Program.defs[d].pos <= Current.pos

NothingDue == \A d \in Top.pending : ~IsDue(d)

ParametersBound == \A k \in DOMAIN Program.params : IsBound(Top, Program.params[k])

\* The current instruction can be copied: its operands all resolve.
OperandsBound == \A r \in DOMAIN Current.refs : IsBound(Top, Current.refs[r])

Running == phase = "expanding" /\ ParametersBound

\* _instantiate_definition.
NewQubitAfterUse(v, ownership) ==    \* mutant: creation counted after the instruction
    [id |-> ExpandedId(Top.path, v), program |-> Top.prog, ownership |-> ownership,
     created |-> Len(instrs) + 1]
NewQubit(v, ownership) ==
    [id |-> ExpandedId(Top.path, v), program |-> Top.prog, ownership |-> ownership,
     created |-> Len(instrs)]

\* The nested instantiate_definition: a callee also lists the value as one
\* of its instantiated locals.
WithLocal(frame, v) ==
    LET id == ExpandedId(frame.path, v)
    IN  [Bind(frame, v, id) EXCEPT
            !.locals = IF frame.path = <<>> THEN @ ELSE Append(@, id)]

InstantiateLocal(d, pending) ==
    LET v == Program.defs[d].id
    IN  /\ qubits' = Append(qubits, NewQubit(v, "local"))
        /\ stack' = WithTop([WithLocal(Top, v) EXCEPT !.pending = pending])
        /\ UNCHANGED <<module, instrs, records, escapes, returned, phase>>

-----------------------------------------------------------------------------
(* The actions.                                                            *)

\* An entry parameter becomes a borrowed value of the computation.  A
\* callee's parameters are bound before it runs.
InstantiateParameter ==
    /\ phase = "expanding"
    /\ \E k \in DOMAIN Program.params :
          LET v == Program.params[k]
          IN  /\ ~IsBound(Top, v)
              /\ \A j \in 1 .. (k - 1) : IsBound(Top, Program.params[j])
              /\ Top.path = <<>>
              /\ qubits' = Append(qubits, NewQubit(v, "entry_parameter"))
              /\ stack' = WithTop(Bind(Top, v, ExpandedId(Top.path, v)))
    /\ UNCHANGED <<module, instrs, records, escapes, returned, phase>>

InstantiatePending ==
    /\ Running
    /\ \E d \in DOMAIN Program.defs :
          /\ IsNextPending(d) /\ IsDue(d)
          /\ ~IsBound(Top, Program.defs[d].id)
          /\ InstantiateLocal(d, Top.pending \ {d})

\* A definition that an earlier use already forced is passed over.
SkipPending ==
    /\ Running
    /\ \E d \in DOMAIN Program.defs :
          /\ IsNextPending(d) /\ IsDue(d)
          /\ IsBound(Top, Program.defs[d].id)
          /\ stack' = WithTop([Top EXCEPT !.pending = @ \ {d}])
    /\ UNCHANGED <<module, qubits, instrs, records, escapes, returned, phase>>

\* resolve_value: an operand whose definition comes later in the source is
\* instantiated when it is used.
InstantiateOnDemand ==
    /\ Running /\ ~Finished /\ NothingDue
    /\ \E r \in DOMAIN Current.refs : \E d \in DOMAIN Program.defs :
          /\ ~IsBound(Top, Current.refs[r])
          /\ \A j \in 1 .. (r - 1) : IsBound(Top, Current.refs[j])
          /\ Program.defs[d].id = Current.refs[r]
          /\ InstantiateLocal(d, Top.pending)

\* The operands after alias resolution.
ResolvedByName(frame, refs) ==    \* mutant: aliases ignored
    [r \in DOMAIN refs |-> ExpandedId(frame.path, refs[r])]
Resolved(frame, refs) == [r \in DOMAIN refs |-> frame.bound[refs[r]]]

\* A gate, rotation, reset or observation is copied with resolved operands.
ExpandInstruction ==
    /\ Running /\ ~Finished /\ NothingDue /\ OperandsBound
    /\ Current.kind # "call"
    /\ instrs' = Append(instrs,
          [path |-> Top.path, op |-> Current.op, kind |-> Current.kind,
           refs |-> Resolved(Top, Current.refs), result |-> Current.result,
           basis |-> Current.basis, calls |-> Top.calls])
    /\ stack' = WithTop([Top EXCEPT !.pc = @ + 1])
    /\ UNCHANGED <<module, qubits, records, escapes, returned, phase>>

\* A call reserves its record, and its callee runs with the parameters bound
\* to the resolved arguments.
EnterCall ==
    /\ Running /\ ~Finished /\ NothingDue /\ OperandsBound
    /\ Current.kind = "call"
    /\ LET call    == Current
           binding == [v \in {call.params[k] : k \in DOMAIN call.params} |->
                          Top.bound[call.refs[CHOOSE k \in DOMAIN call.params :
                                                 call.params[k] = v]]]
           here    == [caller |-> Top.prog, op |-> call.op, callee |-> call.callee]
       IN  /\ records' = Append(records, NoValue)
           /\ stack' = Append(stack,
                 NewFrame(call.callee, Append(Top.path, call.op),
                          Append(Top.calls, here), binding, Len(records) + 1))
    /\ UNCHANGED <<module, qubits, instrs, escapes, returned, phase>>

\* _was_instantiated_by: the value was created by the call at path, or by a
\* call below it.
InstantiatedBy(id, path) == IsPrefix(path, id[1])

\* The callee's return is resolved, aliased by the caller's result binding,
\* noted as an escape when the callee's own invocation created it, and the
\* reserved record is filled with the instructions appended meanwhile.
ReturnFromCall ==
    /\ Running /\ Finished /\ Top.pending = {} /\ Len(stack) > 1
    /\ LET callee   == Top
           caller   == stack[Len(stack) - 1]
           call     == module.programs[caller.prog].code[caller.pc]
           scalar   == IsScalarQuantum(Program)
           value    == IF scalar THEN callee.bound[Program.leaves[1].id] ELSE NoValue
           resumed  == [caller EXCEPT !.pc = @ + 1]
       IN  /\ stack' = Append(SubSeq(stack, 1, Len(stack) - 2),
                              IF call.result = NoValue
                              THEN resumed
                              ELSE Bind(resumed, call.result, value))
           /\ escapes' = IF call.result # NoValue /\ InstantiatedBy(value, callee.path)
                         THEN Append(escapes, value) ELSE escapes
           /\ records' = [records EXCEPT ![callee.record] =
                 [path |-> callee.path, caller |-> caller.prog,
                  callee |-> callee.prog, op |-> call.op,
                  arguments |-> call.refs, locals |-> callee.locals,
                  instrs |-> [i \in 1 .. (Len(instrs) - callee.start) |->
                                 <<instrs[callee.start + i].path,
                                   instrs[callee.start + i].op>>],
                  returned |-> value]]
    /\ UNCHANGED <<module, qubits, instrs, returned, phase>>

-----------------------------------------------------------------------------
(* ExpandedLogicalProgram.__post_init__ and CallExpansionPlan: the checks  *)
(* on the finished expansion.  One that fails is a ValueError.             *)

QubitIds      == {qubits[q].id : q \in DOMAIN qubits}
ObservedIds   == {instrs[i].refs[1] : i \in {j \in DOMAIN instrs :
                                               instrs[j].kind = "observe"}}
ProducedBits  == {instrs[i].result : i \in {j \in DOMAIN instrs :
                                              instrs[j].kind = "observe"}}

ResolveLeaf(frame, leaf) ==
    [leaf EXCEPT !.id = IF leaf.quantum THEN frame.bound[leaf.id] ELSE leaf.id]

ExpandedProgramValid(leaves) ==
    LET entryBits == BitIds(module.programs[module.entry])
    IN  /\ Injective([q \in DOMAIN qubits |-> qubits[q].id])
        /\ Injective([i \in DOMAIN instrs |-> <<instrs[i].path, instrs[i].op>>])
        /\ Injective([c \in DOMAIN records |-> records[c].path])
        /\ \A i \in DOMAIN instrs : \A r \in DOMAIN instrs[i].refs :
              instrs[i].refs[r] \in QubitIds
        /\ ProducedBits \subseteq entryBits
        /\ \A leaf \in DOMAIN leaves :
              IF leaves[leaf].quantum
              THEN leaves[leaf].id \in QubitIds \ ObservedIds
              ELSE leaves[leaf].id \in entryBits \intersect ProducedBits

\* expand: the entry activation ends and the artifact is constructed.
FinishExpansion ==
    /\ Running /\ Finished /\ Top.pending = {} /\ Len(stack) = 1
    /\ returned' = [leaf \in DOMAIN Program.leaves |->
                      ResolveLeaf(Top, Program.leaves[leaf])]
    /\ phase' = IF ExpandedProgramValid(returned') THEN "expanded" ELSE "invalid"
    /\ UNCHANGED <<module, stack, qubits, instrs, records, escapes>>

ExpansionInit ==
    /\ module \in Modules
    /\ stack = <<[prog |-> module.entry, path |-> <<>>, calls |-> <<>>, pc |-> 1,
                  bound |-> <<>>, locals |-> <<>>, record |-> 0, start |-> 0,
                  pending |-> LocalDefs(module.programs[module.entry])]>>
    /\ qubits = <<>> /\ instrs = <<>> /\ records = <<>> /\ escapes = <<>>
    /\ returned = <<>>
    /\ phase = "expanding"

Expand ==
    \/ InstantiateParameter
    \/ InstantiatePending
    \/ SkipPending
    \/ InstantiateOnDemand
    \/ ExpandInstruction
    \/ EnterCall
    \/ ReturnFromCall
    \/ FinishExpansion

\* The finished artifact is immutable.
Done == phase # "expanding" /\ UNCHANGED expansionVars

ExpansionNext == Expand \/ Done

\* The expander is one sequential call: nothing can stop it between steps.
ExpansionSpec ==
    ExpansionInit /\ [][ExpansionNext]_expansionVars /\ WF_expansionVars(Expand)

-----------------------------------------------------------------------------
(* Properties.                                                             *)

IsExpandedId(id) == id \in Seq(OpIds) \X Names

\* The shape of the expander's state: the activations mirror the reserved
\* records, and every binding is an expanded identifier.
TypeOK ==
    /\ phase \in {"expanding", "expanded", "invalid"}
    /\ \A q \in DOMAIN qubits :
          /\ IsExpandedId(qubits[q].id)
          /\ qubits[q].ownership \in {"local", "entry_parameter"}
          /\ qubits[q].created \in 0 .. Len(instrs)
    /\ \A i \in DOMAIN instrs : instrs[i].kind \in Kinds \ {"call"}
    /\ \A k \in DOMAIN stack :
          /\ stack[k].prog \in DOMAIN module.programs
          /\ Len(stack[k].path) = k - 1 /\ Len(stack[k].calls) = k - 1
          /\ stack[k].pc \in 1 .. Len(module.programs[stack[k].prog].code) + 1
          /\ stack[k].record \in (IF k = 1 THEN {0} ELSE 1 .. Len(records))
          /\ stack[k].start \in 0 .. Len(instrs)
          /\ \A v \in DOMAIN stack[k].bound : IsExpandedId(stack[k].bound[v])

\* Every operand of an expanded instruction is a value that was instantiated,
\* with a creation index that is not after the instruction: the lifetimes
\* computed from these indexes never start after a use.
DefinedBeforeUse ==
    \A i \in DOMAIN instrs : \A r \in DOMAIN instrs[i].refs :
        \E q \in DOMAIN qubits :
            qubits[q].id = instrs[i].refs[r] /\ qubits[q].created < i

\* No two instantiated values and no two expanded instructions share an
\* identifier, however often a program is invoked and whatever operation
\* identifiers the programs have in common.
UniqueIdentity ==
    /\ Injective([q \in DOMAIN qubits |-> qubits[q].id])
    /\ Injective([i \in DOMAIN instrs |-> <<instrs[i].path, instrs[i].op>>])

\* A value an activation can name was created by itself or by an activation
\* still running above it, or it is on the list of call escapes: no value
\* leaves the call that created it unnoticed.
EscapesRecorded ==
    \A k \in DOMAIN stack : \A v \in DOMAIN stack[k].bound :
        LET id == stack[k].bound[v]
        IN  IsPrefix(id[1], stack[k].path) \/ id \in ToSet(escapes)

\* The two accounts of where an instruction came from agree: the instructions
\* whose call stack passes through a call that has returned follow one another,
\* and its record lists exactly them, in order.
RecordsMatchCallStacks ==
    \A c \in DOMAIN records : records[c] # NoValue =>
        LET listed == records[c].instrs
            inside == {i \in DOMAIN instrs :
                         IsPrefix(records[c].path,
                                  [n \in DOMAIN instrs[i].calls |-> instrs[i].calls[n].op])}
        IN  \E start \in 0 .. Len(instrs) :
                /\ inside = start + 1 .. start + Len(listed)
                /\ \A n \in DOMAIN listed :
                      listed[n] = <<instrs[start + n].path, instrs[start + n].op>>

\* The call stack of an instruction leads from the entry program, frame by
\* frame and through calls that are there, to the program that defines the
\* instruction.  ExecutionTrace demands this of every operation of a callee,
\* after the run.
CallStacksContiguous ==
    \A i \in DOMAIN instrs :
        LET calls   == instrs[i].calls
            Host(n) == IF n = 0 THEN module.entry ELSE calls[n].callee
            Has(prog, op) == \E k \in DOMAIN module.programs[prog].code :
                                 module.programs[prog].code[k].op = op
        IN  /\ \A n \in DOMAIN calls : calls[n].caller = Host(n - 1)
                                        /\ Has(Host(n - 1), calls[n].op)
            /\ Has(Host(Len(calls)), instrs[i].op)

\* What lifetime analysis, lowering, the result's provenance and the trace take
\* for granted of an expansion, at every step of it.
ExpansionSound ==
    /\ DefinedBeforeUse /\ UniqueIdentity /\ EscapesRecorded
    /\ RecordsMatchCallStacks /\ CallStacksContiguous

\* A returned value was observed under another name, which the constructor of
\* ExpandedLogicalProgram turns down.
ObservedUnderAlias ==
    \E leaf \in DOMAIN returned : returned[leaf].quantum /\ returned[leaf].id \in ObservedIds

=============================================================================
