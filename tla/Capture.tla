------------------------------- MODULE Capture -------------------------------
(***************************************************************************)
(* Capturing Python functions (packages/frontend-python, capture.py): the  *)
(* syntax tree of a @quantum function becomes a LogicalProgram without     *)
(* running it, and the functions it calls are captured on the way, each    *)
(* once, by the recursion of _CaptureContext.capture, here a stack.        *)
(*                                                                         *)
(* A statement's text is abstracted to what the capture distinguishes.     *)
(* What the syntax alone decides (a loop, a keyword argument, an angle     *)
(* that is no literal) is a statement that is refused with a code.  The    *)
(* gates X, H and Z are one function "gate".  Identifiers are built from   *)
(* the program, the kind of the node and its position; no two nodes of a   *)
(* kind share a position, so the ordinal in the code's identifiers is      *)
(* always zero and is left out.                                            *)
(***************************************************************************)
EXTENDS LogicalModel, SequencesExt

CONSTANTS
    Worlds,   \* what the interpreter holds: [entry, functions, globals]
    LineWidth \* no line of a source text has as many nodes

VARIABLES
    world,     \* functions and globals; never assigned
    method,    \* to_logical_program or to_logical_module; never assigned
    stack,     \* the _CaptureStates at work, the running one last
    programs,  \* _programs_by_id
    owners,    \* _functions_by_program_id
    order,     \* _programs_in_capture_order, the identifiers
    failure    \* NoValue, or the diagnostic's code and what was raised first

captureVars == <<world, method, stack, programs, owners, order, failure>>

Functions == DOMAIN world.functions
Function(f) == world.functions[f]

Position(line, column) == LineWidth * line + column

TargetColumn == 1
CallColumn   == 2

ASSUME LinesAreWideEnough == LineWidth \in Nat /\ CallColumn < LineWidth

Intrinsics == {"gate", "cx", "rotation", "observe", "reset"}

\* What the syntax alone makes the capture report of a statement.
SyntaxCodes == {"P101", "P102", "P103", "P104", "P105", "P106", "P110", "P112"}

\* Every diagnostic, and what a constructor that turns its arguments down raises.
Codes ==
    SyntaxCodes \union {"P100", "P107", "P108", "P109", "P111", "P114", "P115", "P116", "P117",
                        "invariant"}

\* The kinds of nodes that identifiers are made of.
NodeKinds ==
    {"parameter", "qubit-declaration", "gate", "cx", "rotation", "reset", "explicit-observation",
     "inferred-observation", "observation-result", "discarded-observation-result",
     "quantum-call", "call-result"}

\* What Python's grammar and the names of a function make of a statement.
IsStatement(stmt, variables) ==
    /\ stmt.form \in {"refused", "assign", "alias", "call", "return"}
    /\ stmt.form = "refused" => stmt.code \in SyntaxCodes
    /\ stmt.form # "refused" => stmt.args \in Seq(variables) /\ Len(stmt.args) < LineWidth
    /\ stmt.form \in {"assign", "alias"} => stmt.target \in variables
    /\ stmt.form = "alias" => Len(stmt.args) = 1

\* Parameters have different names; a function is neither a marker nor None; a
\* scalar annotation names one kind.
IsWorld(w) ==
    /\ w.entry \in DOMAIN w.functions /\ IsFiniteSet(DOMAIN w.functions)
    /\ DOMAIN w.functions \intersect (Intrinsics \union {"Qubit", "missing", NoValue}) = {}
    /\ \A f \in DOMAIN w.functions :
          LET function == w.functions[f]
          IN  /\ function.params \in Seq(function.variables) /\ Injective(function.params)
              /\ Len(function.params) < LineWidth
              /\ function.body \in Seq(ToSet(function.body))
              /\ \A i \in DOMAIN function.body : IsStatement(function.body[i], function.variables)
              /\ function.returns.kinds \in Seq({"bit", "qubit"})
              /\ function.returns.shape = "scalar" => Len(function.returns.kinds) = 1

ASSUME WorldsArePython == \A w \in Worlds : IsWorld(w)

\* None is no code and no identifier.
ASSUME NoValueIsNoName ==
    /\ NoValue \notin Codes
    /\ \A w \in Worlds :
          NoValue \notin {w.functions[f].id : f \in DOMAIN w.functions} \X NodeKinds \X Nat

-----------------------------------------------------------------------------
(* The running capture.                                                    *)

Frame     == Last(stack)
Source    == Function(Frame.fn)
AtEnd     == Frame.pc > Len(Source.body)
Statement == Source.body[Frame.pc]

WithFrame(frame) == [stack EXCEPT ![Len(stack)] = frame]
Advanced(frame) == [frame EXCEPT !.pc = @ + 1]

SourceId(kind, column) == <<Source.id, kind, Position(Frame.pc, column)>>

IsBound(name)   == name \in DOMAIN Frame.names
IsQuantum(name) == IsBound(name) /\ Frame.names[name].quantum

Bound(frame, name, value) ==
    [frame EXCEPT !.names = [n \in DOMAIN @ \union {name} |-> IF n = name THEN value ELSE @[n]]]

Qubits(args) == [r \in DOMAIN args |-> Frame.names[args[r]].id]

\* What a name means where it is called; local names hide global ones.
Meaning(stmt) ==
    IF stmt.func \in DOMAIN world.globals THEN world.globals[stmt.func] ELSE "missing"

Arity == [gate |-> 1, cx |-> 2, rotation |-> 1, observe |-> 1, reset |-> 1, Qubit |-> 0]

Accepted(form) ==
    Functions \union IF form = "assign" THEN {"Qubit", "observe"} ELSE Intrinsics

\* _programs_by_id holds the function's program. The source provider, which capture
\* asks first at every call, answers as it did before: Function(f) does not change.
IsCapturedById(f) == Function(f).id \in DOMAIN programs    \* mutant: whoever it belongs to
IsCaptured(f) == Function(f).id \in DOMAIN programs /\ owners[Function(f).id] = f

Capturing == failure = NoValue /\ ~ (stack = <<>> /\ IsCaptured(world.entry))

\* A call of another quantum function under a name that is not hidden.
IsQuantumCall ==
    ~AtEnd /\ Statement.form \in {"assign", "call"}
           /\ ~IsBound(Statement.func) /\ Meaning(Statement) \in Functions

TargetTaken(stmt) ==
    stmt.form \in {"assign", "alias"}
    /\ (stmt.target \in Intrinsics \union {"Qubit", "Bit"} \/ IsBound(stmt.target))

\* The function that capture is called with next.
Wanted ==
    IF stack = <<>> THEN world.entry
    ELSE IF IsQuantumCall /\ ~TargetTaken(Statement) /\ ~IsCaptured(Meaning(Statement))
         THEN Meaning(Statement) ELSE NoValue

-----------------------------------------------------------------------------
(* The diagnostics, in the order of the checks; NoValue for none.          *)

ActiveWith(id) == {k \in DOMAIN stack : Function(stack[k].fn).id = id}

\* _CaptureContext.capture before the function's text is looked at.
EntryErrorUnlessActive(f) ==    \* mutant: the functions at work are not looked at
    IF ~Function(f).available THEN "P100"
    ELSE IF Function(f).id \in DOMAIN programs THEN "P117"
    ELSE NoValue
EntryError(f) ==
    LET active == ActiveWith(Function(f).id)
    IN  IF ~Function(f).available THEN "P100"
        ELSE IF \E k \in active : stack[k].fn = f THEN "P115"
        ELSE IF active # {} \/ Function(f).id \in DOMAIN programs THEN "P117"
        ELSE NoValue

\* The signature: parse, closure, return annotation, parameters.
SignatureError(f) ==
    IF ~Function(f).parses THEN "P101"
    ELSE IF Function(f).closure THEN "P114"
    ELSE IF Function(f).returns.shape = "missing" THEN "P111"
    ELSE IF Function(f).returns.shape = "unsupported" THEN "P109"
    ELSE IF ~Function(f).flat THEN "P108"
    ELSE NoValue

IntrinsicError(stmt, intrinsic) ==
    IF Len(stmt.args) # Arity[intrinsic] THEN "P105"
    ELSE IF \E r \in DOMAIN stmt.args : ~IsQuantum(stmt.args[r]) THEN "P106"
    ELSE IF intrinsic = "cx" /\ ~Injective(Qubits(stmt.args)) THEN "P105"
    ELSE NoValue

\* _validate_composed_callee: a callee observes nothing and returns what the
\* call makes of it.
ComposedByReturn(callee, assigned) ==    \* mutant: observations not looked for
    IF assigned THEN IsScalarQuantum(callee) ELSE callee.shape = "none"
Composed(callee, assigned) ==
    /\ Observations(callee) = {}
    /\ IF assigned THEN IsScalarQuantum(callee) ELSE callee.shape = "none"

CalleeError(stmt, callee) ==
    IF Len(stmt.args) # Len(callee.params) THEN "P105"
    ELSE IF \E r \in DOMAIN stmt.args : ~IsQuantum(stmt.args[r]) THEN "P106"
    ELSE IF ~Composed(callee, stmt.form = "assign") THEN "P116"
    ELSE NoValue

\* A name that is not what it is written as: a marker that was rebound, or
\* something else altogether.
UnresolvedError(stmt) ==
    IF stmt.form = "assign" /\ Meaning(stmt) = "reset" THEN "P105"
    ELSE IF stmt.func \in (IF stmt.form = "assign" THEN {"Qubit"} ELSE Intrinsics) THEN "P104"
    ELSE "P103"

CallError(stmt) ==
    IF IsBound(stmt.func) THEN "P104"
    ELSE IF Meaning(stmt) \notin Accepted(stmt.form) THEN UnresolvedError(stmt)
    ELSE IF Meaning(stmt) \in Functions
         THEN CalleeError(stmt, programs[Function(Meaning(stmt)).id])
         ELSE IntrinsicError(stmt, Meaning(stmt))

AssignmentError(stmt) ==
    IF stmt.target \in Intrinsics \union {"Qubit", "Bit"} THEN "P103"
    ELSE IF IsBound(stmt.target) THEN "P107"
    ELSE IF stmt.form = "assign" THEN CallError(stmt)
    ELSE IF ~IsBound(stmt.args[1]) THEN "P106"
    ELSE NoValue

\* The shape of the return expression against the annotation.
ReturnError(stmt) ==
    LET expected == Source.returns
    IN  IF Frame.pc # Len(Source.body) THEN "P101"
        ELSE IF stmt.shape # expected.shape \/ Len(stmt.args) # Len(expected.kinds) THEN "P110"
        ELSE NoValue

\* One leaf of the return.
NextLeaf == Len(Frame.leaves) + 1
AllLeavesAligned == NextLeaf > Len(Statement.args)

LeafErrorByName(stmt) ==    \* mutant: what was returned before is not compared
    LET name == stmt.args[NextLeaf] IN
    IF ~IsBound(name) THEN "P106"
    ELSE IF Source.returns.kinds[NextLeaf] = "qubit" /\ ~IsQuantum(name) THEN "P110"
    ELSE NoValue
LeafError(stmt) ==
    LET name == stmt.args[NextLeaf]
        id   == Frame.names[name].id
    IN  IF ~IsBound(name) THEN "P106"
        ELSE IF Source.returns.kinds[NextLeaf] = "qubit"
        THEN IF ~IsQuantum(name) \/ id \in Frame.asBit THEN "P110" ELSE NoValue
        ELSE IF IsQuantum(name) /\ id \in Frame.asQubit THEN "P110" ELSE NoValue

StatementError(stmt) ==
    CASE stmt.form = "refused" -> stmt.code
      [] stmt.form = "call" -> CallError(stmt)
      [] stmt.form \in {"assign", "alias"} -> AssignmentError(stmt)
      [] stmt.form = "return" ->
            IF ReturnError(stmt) # NoValue THEN ReturnError(stmt)
            ELSE IF AllLeavesAligned THEN NoValue ELSE LeafError(stmt)

\* The program that the _CaptureState hands to LogicalProgram.
Assembled ==
    [params |-> Frame.params, defs |-> Frame.defs, code |-> Frame.code, bits |-> Frame.bits,
     shape |-> Source.returns.shape, leaves |-> Frame.leaves]

BodyDone == ~AtEnd => Statement.form = "return" /\ AllLeavesAligned

CaptureError ==
    IF Wanted # NoValue
    THEN IF EntryError(Wanted) # NoValue THEN EntryError(Wanted) ELSE SignatureError(Wanted)
    ELSE IF ~AtEnd /\ StatementError(Statement) # NoValue THEN StatementError(Statement)
    ELSE IF AtEnd /\ Source.returns.shape # "none" THEN "P110"
    ELSE IF BodyDone /\ ~IsLogicalProgram(Assembled) THEN "invariant"
    ELSE NoValue

-----------------------------------------------------------------------------
(* The actions.                                                            *)

\* The reported code: a ValueError of a constructor is P101, and
\* to_logical_module takes a PythonFrontendError, which P100 raises directly,
\* for one.
Reported(raised) ==
    IF raised = "invariant" \/ (raised = "P100" /\ method = "module") THEN "P101" ELSE raised

RefuseSilently ==    \* mutant: the error is swallowed
    Capturing /\ CaptureError # NoValue /\ UNCHANGED captureVars
Refuse ==
    /\ Capturing
    /\ CaptureError # NoValue
    /\ failure' = [code |-> Reported(CaptureError), raised |-> CaptureError]
    /\ UNCHANGED <<world, method, stack, programs, owners, order>>

Proceeding == Capturing /\ CaptureError = NoValue

\* A function's parameters are its first values.
BeginCapture ==
    /\ Proceeding /\ Wanted # NoValue
    /\ LET function == Function(Wanted)
           ids == [k \in DOMAIN function.params |-> <<function.id, "parameter", Position(0, k)>>]
       IN  stack' = Append(stack,
              [fn |-> Wanted, pc |-> 1,
               names |-> [n \in ToSet(function.params) |->
                            [quantum |-> TRUE,
                             id |-> ids[CHOOSE k \in DOMAIN ids : function.params[k] = n]]],
               params |-> ids,
               defs |-> [k \in DOMAIN ids |-> [id |-> ids[k], pos |-> Position(0, k)]],
               code |-> <<>>, bits |-> <<>>, leaves |-> <<>>, asBit |-> {}, asQubit |-> {}])
    /\ UNCHANGED <<world, method, programs, owners, order, failure>>

InBody(form) == Proceeding /\ Wanted = NoValue /\ ~AtEnd /\ Statement.form = form

CapturesTo(frame) ==
    /\ stack' = WithFrame(frame)
    /\ UNCHANGED <<world, method, programs, owners, order, failure>>

BindAlias ==
    /\ InBody("alias")
    /\ CapturesTo(Advanced(Bound(Frame, Statement.target, Frame.names[Statement.args[1]])))

DeclareQubit ==
    /\ InBody("assign") /\ Meaning(Statement) = "Qubit"
    /\ LET id == SourceId("qubit-declaration", CallColumn)
           declared == [id |-> id, pos |-> Position(Frame.pc, CallColumn)]
       IN  CapturesTo(Advanced([Bound(Frame, Statement.target, [quantum |-> TRUE, id |-> id])
                                EXCEPT !.defs = Append(@, declared)]))

Instruction(op, kind, refs, column) ==
    [op |-> op, kind |-> kind, refs |-> refs, pos |-> Position(Frame.pc, column),
     params |-> <<>>, callee |-> NoValue, callee_value |-> NoValue, result |-> NoValue,
     basis |-> NoValue]

Emit(frame, instr) == [frame EXCEPT !.code = Append(@, instr)]

\* The control of a CX stands first in the call and last in the instruction.
OperandsAsCalled(args) == Qubits(args)    \* mutant: control and target exchanged
Operands(args) == Reverse(Qubits(args))

\* Gates, rotations and resets.
CaptureOperation ==
    /\ InBody("call") /\ Meaning(Statement) \in Intrinsics \ {"observe"}
    /\ LET kind == Meaning(Statement)
       IN  CapturesTo(Advanced(Emit(Frame,
              Instruction(SourceId(kind, CallColumn), kind, Operands(Statement.args),
                          CallColumn))))

\* An observation's instruction and its classical result.
Observed(frame, op, id, result, column) ==
    [Emit(frame, [Instruction(op, "observe", <<id>>, column)
                     EXCEPT !.result = result, !.basis = Source.basis])
        EXCEPT !.bits = Append(@, result)]

CaptureObservation ==
    /\ Proceeding /\ Wanted = NoValue /\ ~AtEnd
    /\ Statement.form \in {"assign", "call"} /\ Meaning(Statement) = "observe"
    /\ LET assigned == Statement.form = "assign"
           result   == IF assigned THEN SourceId("observation-result", TargetColumn)
                       ELSE SourceId("discarded-observation-result", CallColumn)
           frame    == Observed(Frame, SourceId("explicit-observation", CallColumn),
                                Frame.names[Statement.args[1]].id, result, CallColumn)
       IN  CapturesTo(Advanced(
              IF assigned THEN Bound(frame, Statement.target, [quantum |-> FALSE, id |-> result])
              ELSE frame))

\* The callee has been captured: its parameters are bound to the arguments,
\* and its result gets a name and an identity of the caller's.
CaptureCall ==
    /\ Proceeding /\ Wanted = NoValue /\ IsQuantumCall
    /\ LET function == Function(Meaning(Statement))
           callee   == programs[function.id]
           assigned == Statement.form = "assign"
           result   == IF assigned THEN SourceId("call-result", CallColumn) ELSE NoValue
           instr    == [Instruction(SourceId("quantum-call", CallColumn), "call",
                                    Qubits(Statement.args), CallColumn)
                          EXCEPT !.callee = function.id, !.params = callee.params,
                                 !.result = result,
                                 !.callee_value = IF assigned THEN callee.leaves[1].id ELSE NoValue]
           frame    == Emit(Frame, instr)
       IN  CapturesTo(Advanced(
              IF assigned THEN Bound(frame, Statement.target, [quantum |-> TRUE, id |-> result])
              ELSE frame))

\* A qubit returned where the annotation says Bit is observed first.
AlignLeaf ==
    /\ InBody("return") /\ ~AllLeavesAligned
    /\ LET value  == Frame.names[Statement.args[NextLeaf]]
           column == NextLeaf
           bit    == SourceId("observation-result", column)
           leaf(quantum, id) == [Frame EXCEPT !.leaves = Append(@, [quantum |-> quantum, id |-> id])]
       IN  CapturesTo(
              IF Source.returns.kinds[NextLeaf] = "qubit"
              THEN [leaf(TRUE, value.id) EXCEPT !.asQubit = @ \union {value.id}]
              ELSE IF ~value.quantum THEN leaf(FALSE, value.id)
              ELSE [Observed(leaf(FALSE, bit), SourceId("inferred-observation", column), value.id,
                             bit, column) EXCEPT !.asBit = @ \union {value.id}])

\* LogicalProgram accepts the program, and the context keeps it.
FinishProgram ==
    /\ Proceeding /\ Wanted = NoValue /\ BodyDone
    /\ programs' = [id \in DOMAIN programs \union {Source.id} |->
                       IF id = Source.id THEN Assembled ELSE programs[id]]
    /\ owners' = [id \in DOMAIN owners \union {Source.id} |->
                       IF id = Source.id THEN Frame.fn ELSE owners[id]]
    /\ order' = Append(order, Source.id)
    /\ stack' = Front(stack)
    /\ UNCHANGED <<world, method, failure>>

-----------------------------------------------------------------------------

CaptureInit ==
    /\ world \in Worlds /\ method \in {"program", "module"}
    /\ stack = <<>>
    /\ programs = <<>> /\ owners = <<>> /\ order = <<>>
    /\ failure = NoValue

Capture ==
    \/ Refuse \/ BeginCapture \/ BindAlias \/ DeclareQubit \/ CaptureOperation
    \/ CaptureObservation \/ CaptureCall \/ AlignLeaf \/ FinishProgram

CaptureDone == ~Capturing /\ UNCHANGED captureVars

CaptureNext == Capture \/ CaptureDone

\* One synchronous call of to_logical_program or to_logical_module.
CaptureSpec == CaptureInit /\ [][CaptureNext]_captureVars /\ WF_captureVars(Capture)

-----------------------------------------------------------------------------
(* The source, read without capturing it.                                  *)

Succeeded == failure = NoValue /\ ~Capturing

\* LogicalModule(entry_program.id, context.programs).
CapturedModule == [entry |-> Function(world.entry).id, programs |-> programs]

\* What a statement gives its target: the line of an assignment, or what its alias stands for.
Rebound(origins, stmt, line) ==
    CASE stmt.form = "assign" -> [origins EXCEPT ![stmt.target] = <<line, 0>>]
      [] stmt.form = "alias"  -> [origins EXCEPT ![stmt.target] = origins[stmt.args[1]]]
      [] OTHER                -> origins

\* Zero and its number for a parameter.
Unassigned(function) ==
    [n \in function.variables |->
        <<0, IF n \in ToSet(function.params)
             THEN CHOOSE k \in DOMAIN function.params : function.params[k] = n ELSE 0>>]

\* Where the values of a function's names come from when it runs.
Origins(function) ==
    FoldLeftDomain(LAMBDA origins, i : Rebound(origins, function.body[i], i),
                   Unassigned(function), function.body)

Calls(f, g) ==
    \E i \in DOMAIN Function(f).body :
        /\ Function(f).body[i].form \in {"assign", "call"}
        /\ Meaning(Function(f).body[i]) = g

\* g can be reached from f by at least one call.
Reaches(f, g) ==
    \E n \in 1 .. Cardinality(Functions) : \E path \in [0 .. n -> Functions] :
        path[0] = f /\ path[n] = g /\ \A i \in 1 .. n : Calls(path[i - 1], path[i])

-----------------------------------------------------------------------------
(* Properties.                                                             *)

\* The shapes of the traversal's state; the stack holds every function and
\* every program identifier at most once.
CaptureTypeOK ==
    /\ Injective([k \in DOMAIN stack |-> Function(stack[k].fn).id])
    /\ \A k \in DOMAIN stack : stack[k].fn \in Functions
    /\ DOMAIN programs = ToSet(order) /\ DOMAIN owners = ToSet(order)
    /\ failure # NoValue => failure.code # "invariant"

\* Whatever the source says, the only program the semantic constructor turns
\* down is one that returns a qubit it has observed; every other mistake is
\* found by the capture itself and reported at the place where it is made.
InvariantFailureExplained ==
    failure # NoValue /\ failure.raised = "invariant" =>
        \E l \in DOMAIN Frame.leaves : \E i \in Observations(Assembled) :
            /\ Frame.leaves[l].quantum /\ Frame.leaves[l].id = Frame.code[i].refs[1]
            /\ Frame.code[i].op[2] = "explicit-observation"

\* What to_logical_module puts together is a logical module, and one that the
\* compiler's refusal of observing callees never meets: the programs captured on
\* the way resolve every call, in arity, binding and result, their calls are
\* acyclic, and no function that is called, however deep, observes anything.
CapturedModuleIsLogical ==
    /\ Succeeded => IsLogicalModule(CapturedModule)
    /\ \A p \in DOMAIN programs : \A i \in CallInstrs(programs[p]) :
          Observations(programs[programs[p].code[i].callee]) = {}

\* Names are resolved like Python resolves them: two operands of a captured
\* program are one value exactly when their names go back, through aliases,
\* to the same assignment or parameter.
OperandsAreSourceValues ==
    \A p \in DOMAIN programs :
        LET f        == owners[p]
            named(i) == programs[p].code[i].pos \div LineWidth
            args(i)  == LET s == Function(f).body[named(i)]
                        IN  IF s.form = "return"
                            THEN <<s.args[programs[p].code[i].pos % LineWidth]>>
                            ELSE IF programs[p].code[i].kind = "cx" THEN Reverse(s.args) ELSE s.args
        IN  \A i, j \in DOMAIN programs[p].code :
               \A r \in DOMAIN args(i), s \in DOMAIN args(j) :
                  (programs[p].code[i].refs[r] = programs[p].code[j].refs[s])
                     <=> (Origins(Function(f))[args(i)[r]] = Origins(Function(f))[args(j)[s]])

\* Capture ends in a refusal that the source explains or in a logical module
\* whose operands are the source's values.
CaptureIsFaithful ==
    InvariantFailureExplained /\ CapturedModuleIsLogical /\ OperandsAreSourceValues

\* A captured call leads to the program of the very function object that the
\* source names, captured before the caller was finished, even when functions
\* carry the same identifier.
CallsReachNamedFunction ==
    \A n \in DOMAIN order :
        LET program == programs[order[n]]
            body    == Function(owners[order[n]]).body
        IN  \A i \in CallInstrs(program) :
               /\ owners[program.code[i].callee] = Meaning(body[program.code[i].pos \div LineWidth])
               /\ \E m \in 1 .. n - 1 : order[m] = program.code[i].callee

\* Recursion is reported only for functions that reach themselves.
RecursionExplained ==
    failure # NoValue /\ failure.raised = "P115" => Reaches(Wanted, Wanted)

\* Programs and functions are told apart by what they are and not by the
\* identifier they declare.
FunctionsToldApart == CallsReachNamedFunction /\ RecursionExplained

\* source.py, line 45: a source-provider failure is "normalized to frontend
\* diagnostic P100", whichever artifact is asked for.
UnavailableSourceReported ==
    failure # NoValue /\ failure.raised = "P100" => failure.code = "P100"

\* Every capture ends.
CaptureEnds == <>(~Capturing)
=============================================================================
