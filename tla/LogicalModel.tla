---------------------------- MODULE LogicalModel ----------------------------
(***************************************************************************)
(* The pre-allocation quantum programs that every later stage starts from: *)
(* which records are a LogicalProgram and which are a LogicalModule        *)
(* (packages/semantics, model.py).  Both dataclasses validate in their     *)
(* constructors, so these predicates say exactly which inputs the compiler *)
(* can be handed.                                                          *)
(*                                                                         *)
(* Identifiers are abstract values.  A source position is a number, the    *)
(* order _source_position sorts by.  An element with a source but no range *)
(* sorts after every element that has one, by its operation's identifier;  *)
(* elements without a source sort between the two and share one position.  *)
(*                                                                         *)
(* An instruction's operands are one sequence, "refs": its targets, then   *)
(* its controls; for a call, its arguments in binding order.               *)
(***************************************************************************)
EXTENDS Naturals, Sequences, FiniteSets

CONSTANT NoValue    \* an absent optional field (Python's None)

\* The operation kinds of QuantumInstruction.  The one-qubit gates X, H and Z
\* behave alike up to the simulator and are one kind here.
GateKinds == {"gate", "cx", "rotation"}
Kinds     == GateKinds \union {"reset", "observe", "call"}

CallInstrs(program) == {i \in DOMAIN program.code : program.code[i].kind = "call"}
Observations(program) ==
    {i \in DOMAIN program.code : program.code[i].kind = "observe"}

DefinedIds(program) == {program.defs[d].id : d \in DOMAIN program.defs}
BitIds(program)     == {program.bits[b] : b \in DOMAIN program.bits}
ParamIds(program)   == {program.params[k] : k \in DOMAIN program.params}

\* The quantum values an instruction may name: every declared one, and the
\* results bound by the calls before it.
KnownBefore(program, i) ==
    DefinedIds(program) \union
    {program.code[j].result : j \in {c \in CallInstrs(program) :
                                       c < i /\ program.code[c].result # NoValue}}

Injective(seq) == \A i, j \in DOMAIN seq : seq[i] = seq[j] => i = j

\* _validate_logical_gate_arity: CX takes one control and one target, two
\* different declared identities; the other gates take one target.
GateArity(instr) ==
    CASE instr.kind = "cx" -> Len(instr.refs) = 2 /\ instr.refs[1] # instr.refs[2]
      [] instr.kind = "call" -> TRUE
      [] OTHER -> Len(instr.refs) = 1

\* One instruction against what is declared before it.
InstructionDeclared(program, i) ==
    LET instr == program.code[i]
        known == KnownBefore(program, i)
    IN  /\ GateArity(instr)
        /\ \A r \in DOMAIN instr.refs : instr.refs[r] \in known
        /\ instr.kind = "observe" => instr.result \in BitIds(program)
        /\ instr.kind = "call" => Injective(instr.params) /\ instr.result \notin known

\* Every return leaf names a value of its own kind; a quantum leaf was not
\* observed under that name.
ReturnDeclared(program) ==
    LET known    == KnownBefore(program, Len(program.code) + 1)
        observed == {program.code[i].refs[1] : i \in Observations(program)}
    IN  \A leaf \in DOMAIN program.leaves :
            LET ref == program.leaves[leaf]
            IN  IF ref.quantum
                THEN ref.id \in known /\ ref.id \notin observed
                ELSE ref.id \in BitIds(program)

\* LogicalProgram.__post_init__.
IsLogicalProgram(program) ==
    /\ Injective([d \in DOMAIN program.defs |-> program.defs[d].id])
    /\ Injective(program.params)
    /\ ParamIds(program) \subseteq DefinedIds(program)
    /\ Injective(program.bits)
    /\ DefinedIds(program) \intersect BitIds(program) = {}
    /\ Injective([i \in DOMAIN program.code |-> program.code[i].op])
    /\ \A i \in DOMAIN program.code : InstructionDeclared(program, i)
    /\ \A i, j \in Observations(program) :
          program.code[i].result = program.code[j].result => i = j
    /\ BitIds(program) = {program.code[i].result : i \in Observations(program)}
    /\ ReturnDeclared(program)

\* A ScalarReturn whose leaf is a quantum value.
IsScalarQuantum(program) ==
    program.shape = "scalar" /\ program.leaves[1].quantum

\* One call against its callee: arity, binding order, and a result binding
\* exactly when the callee returns one quantum value.
CallResolved(module, instr) ==
    /\ instr.callee \in DOMAIN module.programs
    /\ LET callee == module.programs[instr.callee]
       IN  /\ instr.params = callee.params
           /\ Len(instr.refs) = Len(callee.params)
           /\ IF instr.result = NoValue
              THEN callee.shape = "none"
              ELSE /\ IsScalarQuantum(callee)
                   /\ callee.leaves[1].id = instr.callee_value

Callees(module, p) ==
    {module.programs[p].code[i].callee : i \in CallInstrs(module.programs[p])}

\* The depth-first visit accepts a call graph exactly when the programs can
\* be ranked so that every call goes to a lower rank.
Acyclic(module) ==
    LET programs == DOMAIN module.programs
    IN  \E rank \in [programs -> 1 .. Cardinality(programs)] :
            \A p \in programs : \A c \in Callees(module, p) : rank[c] < rank[p]

\* LogicalModule.__post_init__.
IsLogicalModule(module) ==
    /\ module.entry \in DOMAIN module.programs
    /\ \A p \in DOMAIN module.programs :
          /\ IsLogicalProgram(module.programs[p])
          /\ \A i \in CallInstrs(module.programs[p]) :
                CallResolved(module, module.programs[p].code[i])
    /\ Acyclic(module)
=============================================================================
