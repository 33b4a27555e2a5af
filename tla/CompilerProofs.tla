--------------------------- MODULE CompilerProofs ---------------------------
(***************************************************************************)
(* Proofs about the logical compiler, for every set of logical modules: of *)
(* any number of programs, calls to any depth, any code.                   *)
(*                                                                         *)
(* The invariant of the expander speaks of its stack.  Each activation but *)
(* the last stands at the call of the next, so a path belongs to an        *)
(* activation, to a call that has returned, or to none yet.  Whatever was  *)
(* instantiated, copied or recorded belongs to one of the first two; what a*)
(* new call makes is therefore new, although programs share operation and  *)
(* value names.  The invariant of the compiler adds that each artifact is  *)
(* what its stage makes of the finished expansion.                         *)
(***************************************************************************)
EXTENDS LogicalCompiler, FoldFacts, SequenceTheorems

-----------------------------------------------------------------------------
(* Programs.                                                               *)

Code(m, p) == m.programs[p].code

ProgramNames == UNION {DOMAIN m.programs : m \in Modules}

\* The expanded identifiers.
Ids == Seq(OpIds) \X Names

\* A tuple has a length, and its items.
LEMMA TupleFacts ==
    ASSUME NEW s, IsTuple(s)
    PROVE  Len(s) \in Nat /\ DOMAIN s = 1 .. Len(s)
BY SMTT(30) DEF IsTuple

\* What a program is made of.
LEMMA ProgramFacts ==
    ASSUME NEW m \in Modules, NEW p \in DOMAIN m.programs
    PROVE  /\ p \in ProgramNames
           /\ Len(Code(m, p)) \in Nat /\ DOMAIN Code(m, p) = 1 .. Len(Code(m, p))
           /\ \A i \in DOMAIN Code(m, p) :
                 /\ Code(m, p)[i].op \in OpIds /\ Code(m, p)[i].kind \in Kinds
                 /\ Code(m, p)[i].result \in Names
                 /\ Len(Code(m, p)[i].refs) \in Nat
                 /\ DOMAIN Code(m, p)[i].refs = 1 .. Len(Code(m, p)[i].refs)
           /\ \A i, j \in DOMAIN Code(m, p) : Code(m, p)[i].op = Code(m, p)[j].op => i = j
           /\ IsLogicalProgram(m.programs[p])
<1> DEFINE program == m.programs[p]
<1>1. IsLogicalProgram(program)
  BY ModulesAreLogical DEF IsLogicalModule
<1>2. IsTuple(program.code)
      /\ \A i \in DOMAIN program.code : program.code[i].kind \in Kinds
                                        /\ IsTuple(program.code[i].refs)
  BY ModulesAreTyped, SMTT(30)
<1>3. Injective([i \in DOMAIN program.code |-> program.code[i].op])
  BY <1>1 DEF IsLogicalProgram
<1>4. p \in ProgramNames
  BY ONLY m \in Modules, p \in DOMAIN m.programs DEF ProgramNames
<1>5. ASSUME NEW i \in DOMAIN program.code
      PROVE  program.code[i].op \in OpIds
  <2> DEFINE ops(mm, pp) == {mm.programs[pp].code[k].op : k \in DOMAIN mm.programs[pp].code}
             opsIn(mm)   == UNION {ops(mm, pp) : pp \in DOMAIN mm.programs}
  <2>1. program.code[i].op \in ops(m, p)
    BY ONLY i \in DOMAIN program.code
  <2>2. ops(m, p) \in {ops(m, pp) : pp \in DOMAIN m.programs}
    BY ONLY p \in DOMAIN m.programs
  <2>3. opsIn(m) \in {opsIn(mm) : mm \in Modules}
    BY ONLY m \in Modules
  <2>4. OpIds = UNION {opsIn(mm) : mm \in Modules}
    BY ONLY DEF OpIds
  <2> HIDE DEF ops
  <2>5. program.code[i].op \in opsIn(m)
    BY ONLY <2>1, <2>2
  <2> HIDE DEF opsIn
  <2> QED
    BY ONLY <2>3, <2>4, <2>5
<1>6. ASSUME NEW i \in DOMAIN program.code
      PROVE  program.code[i].result \in Names
  <2> DEFINE named(mm, pp) ==
                 DefinedIds(mm.programs[pp])
                 \union {mm.programs[pp].code[k].result : k \in DOMAIN mm.programs[pp].code}
             namedIn(mm) == UNION {named(mm, pp) : pp \in DOMAIN mm.programs}
  <2>1. program.code[i].result \in named(m, p)
    BY ONLY i \in DOMAIN program.code
  <2>2. named(m, p) \in {named(m, pp) : pp \in DOMAIN m.programs}
    BY ONLY p \in DOMAIN m.programs
  <2>3. namedIn(m) \in {namedIn(mm) : mm \in Modules}
    BY ONLY m \in Modules
  <2>4. Names = UNION {namedIn(mm) : mm \in Modules}
    BY ONLY DEF Names
  <2> HIDE DEF named
  <2>5. program.code[i].result \in namedIn(m)
    BY ONLY <2>1, <2>2
  <2> HIDE DEF namedIn
  <2> QED
    BY ONLY <2>3, <2>4, <2>5
<1>7. \A i, j \in DOMAIN program.code : program.code[i].op = program.code[j].op => i = j
  BY <1>3 DEF Injective
<1>8. Len(program.code) \in Nat /\ DOMAIN program.code = 1 .. Len(program.code)
  BY <1>2, TupleFacts
<1>9. \A i \in DOMAIN program.code : /\ Len(program.code[i].refs) \in Nat
                                     /\ DOMAIN program.code[i].refs = 1 .. Len(program.code[i].refs)
  BY <1>2, TupleFacts
<1>10. Code(m, p) = program.code
  BY DEF Code
<1> HIDE DEF program
<1> QED
  BY <1>1, <1>2, <1>4, <1>5, <1>6, <1>7, <1>8, <1>9, <1>10 DEF program

\* Definitions, parameters and leaves.
LEMMA DefinitionFacts ==
    ASSUME NEW m \in Modules, NEW p \in DOMAIN m.programs
    PROVE  LET program == m.programs[p] IN
           /\ Len(program.defs) \in Nat /\ DOMAIN program.defs = 1 .. Len(program.defs)
           /\ \A d \in DOMAIN program.defs : program.defs[d].id \in Names
           /\ \A d, e \in DOMAIN program.defs : program.defs[d].id = program.defs[e].id => d = e
           /\ Len(program.params) \in Nat /\ DOMAIN program.params = 1 .. Len(program.params)
           /\ \A k \in DOMAIN program.params : program.params[k] \in DefinedIds(program)
           /\ \A j, k \in DOMAIN program.params : program.params[j] = program.params[k] => j = k
           /\ DefinedIds(program) \subseteq Names
           /\ LocalDefs(program) \subseteq DOMAIN program.defs
           /\ Len(program.leaves) \in Nat /\ DOMAIN program.leaves = 1 .. Len(program.leaves)
           /\ program.shape = "scalar" => Len(program.leaves) = 1
           /\ \A k \in DOMAIN program.leaves :
                 program.leaves[k] \in [quantum : BOOLEAN, id : {program.leaves[k].id}]
<1> DEFINE program == m.programs[p]
<1>1. IsLogicalProgram(program)
  BY ProgramFacts
<1>2. /\ IsTuple(program.defs) /\ IsTuple(program.params) /\ IsTuple(program.leaves)
      /\ \A k \in DOMAIN program.leaves :
            program.leaves[k] \in [quantum : BOOLEAN, id : {program.leaves[k].id}]
      /\ program.shape = "scalar" => Len(program.leaves) = 1
  BY ModulesAreTyped
<1>3. Injective([d \in DOMAIN program.defs |-> program.defs[d].id])
  BY <1>1, SMTT(30) DEF IsLogicalProgram
<1>4. Injective(program.params) /\ ParamIds(program) \subseteq DefinedIds(program)
  BY <1>1, SMTT(30) DEF IsLogicalProgram
<1>5. DefinedIds(program) \subseteq Names
  BY DEF Names
<1>6. \A d \in DOMAIN program.defs : program.defs[d].id \in DefinedIds(program)
  BY DEF DefinedIds
<1>7. \A k \in DOMAIN program.params : program.params[k] \in DefinedIds(program)
  BY <1>4 DEF ParamIds
<1>8. \A d, e \in DOMAIN program.defs : program.defs[d].id = program.defs[e].id => d = e
  BY <1>3 DEF Injective
<1>9. \A j, k \in DOMAIN program.params : program.params[j] = program.params[k] => j = k
  BY <1>4 DEF Injective
<1>10. LocalDefs(program) \subseteq DOMAIN program.defs
  BY DEF LocalDefs
<1>11. /\ Len(program.defs) \in Nat /\ DOMAIN program.defs = 1 .. Len(program.defs)
       /\ Len(program.params) \in Nat /\ DOMAIN program.params = 1 .. Len(program.params)
       /\ Len(program.leaves) \in Nat /\ DOMAIN program.leaves = 1 .. Len(program.leaves)
  BY <1>2, TupleFacts
<1> HIDE DEF program
<1> QED
  BY <1>2, <1>5, <1>6, <1>7, <1>8, <1>9, <1>10, <1>11 DEF program

\* What is known before an instruction, and what a call is.
LEMMA UseFacts ==
    ASSUME NEW m \in Modules, NEW p \in DOMAIN m.programs, NEW i \in DOMAIN Code(m, p)
    PROVE  LET program == m.programs[p]
               instr == Code(m, p)[i]
           IN
           /\ GateArity(instr)
           /\ \A r \in DOMAIN instr.refs : instr.refs[r] \in KnownBefore(program, i)
           /\ instr.kind = "observe" => instr.result \in BitIds(program)
           /\ instr.kind = "call" =>
                 /\ instr.callee \in DOMAIN m.programs
                 /\ instr.params = m.programs[instr.callee].params
                 /\ Len(instr.refs) = Len(instr.params)
                 /\ instr.result # NoValue => IsScalarQuantum(m.programs[instr.callee])
                 /\ instr.result = NoValue => m.programs[instr.callee].shape = "none"
<1> DEFINE program == m.programs[p]
           instr == program.code[i]
<1>1. IsLogicalProgram(program)
  BY ProgramFacts
<1>2. i \in DOMAIN program.code /\ Code(m, p)[i] = instr
  BY SMTT(30) DEF Code
<1>3. InstructionDeclared(program, i)
  BY <1>1, <1>2 DEF IsLogicalProgram
<1>4. /\ GateArity(instr)
      /\ \A r \in DOMAIN instr.refs : instr.refs[r] \in KnownBefore(program, i)
      /\ instr.kind = "observe" => instr.result \in BitIds(program)
  BY <1>3 DEF InstructionDeclared
<1>5. ASSUME instr.kind = "call" PROVE CallResolved(m, instr)
  <2>1. i \in CallInstrs(program)
    BY <1>2, <1>5 DEF CallInstrs
  <2>2. \A j \in CallInstrs(program) : CallResolved(m, program.code[j])
    BY ModulesAreLogical, SMTT(30) DEF IsLogicalModule
  <2>3. QED BY <2>1, <2>2
<1>6. instr.kind = "call" =>
                 /\ instr.callee \in DOMAIN m.programs
                 /\ instr.params = m.programs[instr.callee].params
                 /\ Len(instr.refs) = Len(instr.params)
                 /\ instr.result # NoValue => IsScalarQuantum(m.programs[instr.callee])
                 /\ instr.result = NoValue => m.programs[instr.callee].shape = "none"
  BY <1>5 DEF CallResolved
<1> HIDE DEF program, instr
<1> QED BY <1>2, <1>4, <1>6 DEF program

-----------------------------------------------------------------------------
(* Paths.                                                                  *)

\* p is s or goes on from it: IsPrefix, item by item.
Begins(s, p) == Len(s) <= Len(p) /\ \A n \in 1 .. Len(s) : s[n] = p[n]

\* IsPrefix says the same.
LEMMA PrefixBegins ==
    ASSUME NEW S, NEW s \in Seq(S), NEW p \in Seq(S)
    PROVE  IsPrefix(s, p) <=> Begins(s, p)
<1>1. Len(s) \in Nat /\ Len(p) \in Nat
  OBVIOUS
<1>2. SubSeq(s, 1, Len(s)) = s
  BY SubSeqFull
<1>3. ASSUME Len(s) <= Len(p)
      PROVE  s = SubSeq(p, 1, Len(s)) <=> \A n \in 1 .. Len(s) : s[n] = p[n]
  <2> DEFINE q == SubSeq(p, 1, Len(s))
  <2>1. \A i \in 1 .. Len(s) : p[i] \in S
    BY <1>1, <1>3
  <2>2. q \in Seq(S) /\ Len(q) = Len(s) /\ \A i \in 1 .. Len(s) : q[i] = p[i]
    BY <1>1, <2>1
  <2> HIDE DEF q
  <2>3. (\A i \in 1 .. Len(s) : s[i] = q[i]) => s = q
    BY <2>2, SeqEqual
  <2> QED BY <2>2, <2>3 DEF q
<1>4. QED BY <1>1, <1>2, <1>3 DEF IsPrefix, Begins

\* One more item.
LEMMA AppendFacts ==
    ASSUME NEW S, NEW s \in Seq(S), NEW e \in S
    PROVE  /\ Append(s, e) \in Seq(S) /\ Len(Append(s, e)) = Len(s) + 1 /\ Len(s) \in Nat
           /\ DOMAIN s = 1 .. Len(s) /\ DOMAIN Append(s, e) = 1 .. Len(s) + 1
           /\ \A n \in 1 .. Len(s) : Append(s, e)[n] = s[n]
           /\ Append(s, e)[Len(s) + 1] = e
OBVIOUS

\* Prefixes of one path, and of longer ones.
LEMMA BeginsTransitive ==
    ASSUME NEW a, NEW b, NEW c, Len(a) \in Nat, Len(b) \in Nat, Len(c) \in Nat,
           Begins(a, b), Begins(b, c)
    PROVE  Begins(a, c)
BY DEF Begins

-----------------------------------------------------------------------------
(* The types of the expander's state.                                      *)

CallSteps == [caller : ProgramNames, op : OpIds, callee : ProgramNames]

Bindings == UNION {[S -> Ids] : S \in SUBSET Names}

Frames ==
    [prog : ProgramNames, path : Seq(OpIds), calls : Seq(CallSteps), pc : Nat, bound : Bindings,
     pending : SUBSET Nat, locals : Seq(Ids), record : Nat, start : Nat]

Instances ==
    [id : Ids, program : ProgramNames, ownership : {"local", "entry_parameter"}, created : Nat]

Bases == UNION {UNION {{Code(m, p)[i].basis : i \in DOMAIN Code(m, p)} :
                          p \in DOMAIN m.programs} : m \in Modules}

Expanded ==
    [path : Seq(OpIds), op : OpIds, kind : Kinds \ {"call"}, refs : Seq(Ids), result : Names,
     basis : Bases, calls : Seq(CallSteps)]

Filled ==
    [path : Seq(OpIds), caller : ProgramNames, callee : ProgramNames, op : OpIds,
     arguments : Seq(Names), locals : Seq(Ids), instrs : Seq(Seq(OpIds) \X OpIds),
     returned : Ids \union {NoValue}]

Typed ==
    /\ module \in Modules
    /\ stack \in Seq(Frames) /\ Len(stack) # 0
    /\ qubits \in Seq(Instances)
    /\ instrs \in Seq(Expanded)
    /\ records \in Seq(Filled \union {NoValue})
    /\ escapes \in Seq(Ids)
    /\ phase \in {"expanding", "expanded", "invalid"}

-----------------------------------------------------------------------------
(* The stack: each activation but the last stands at the call of the next. *)

CallAt(m, s, n) == Code(m, s[n].prog)[s[n].pc]

StepAt(m, s, n) ==
    [caller |-> s[n].prog, op |-> CallAt(m, s, n).op, callee |-> CallAt(m, s, n).callee]

FrameFits(m, frame, k) ==
    /\ frame.prog \in DOMAIN m.programs
    /\ frame.pc \in 1 .. Len(Code(m, frame.prog)) + 1
    /\ Len(frame.path) = k - 1 /\ Len(frame.calls) = k - 1
    /\ frame.pending \subseteq LocalDefs(m.programs[frame.prog])

FrameFollows(m, s, frame, n) ==
    frame.path[n] = CallAt(m, s, n).op /\ frame.calls[n] = StepAt(m, s, n)

StandsAtCall(m, s, n) ==
    /\ s[n].pc \in DOMAIN Code(m, s[n].prog)
    /\ CallAt(m, s, n).kind = "call" /\ CallAt(m, s, n).callee = s[n + 1].prog

Chained(m, s) ==
    /\ s[1].prog = m.entry
    /\ \A k \in DOMAIN s : FrameFits(m, s[k], k)
    /\ \A k \in DOMAIN s : \A n \in 1 .. k - 1 :
          StandsAtCall(m, s, n) /\ FrameFollows(m, s, s[k], n)

\* The path is of a call that has returned, or of one below such a call.
PastBelow(m, frame, p) ==
    \E i \in 1 .. frame.pc - 1 : Begins(Append(frame.path, Code(m, frame.prog)[i].op), p)

Past(m, s, p) == \E k \in DOMAIN s : PastBelow(m, s[k], p)

Entered(m, s, p) == (\E k \in DOMAIN s : p = s[k].path) \/ Past(m, s, p)

-----------------------------------------------------------------------------

\* The activations of a chained stack.
LEMMA StackFacts ==
    ASSUME NEW m \in Modules, NEW s \in Seq(Frames), Chained(m, s), NEW k \in DOMAIN s
    PROVE  /\ Len(s) \in Nat /\ DOMAIN s = 1 .. Len(s) /\ s[k] \in Frames
           /\ s[k].prog \in DOMAIN m.programs /\ s[k].path \in Seq(OpIds)
           /\ Len(s[k].path) = k - 1 /\ s[k].pc \in 1 .. Len(Code(m, s[k].prog)) + 1
           /\ \A n \in 1 .. k - 1 : /\ s[n].pc \in DOMAIN Code(m, s[n].prog)
                                    /\ s[k].path[n] = Code(m, s[n].prog)[s[n].pc].op
           /\ \A i \in 1 .. s[k].pc - 1 :
                 /\ i \in DOMAIN Code(m, s[k].prog)
                 /\ Code(m, s[k].prog)[i].op \in OpIds
                 /\ Append(s[k].path, Code(m, s[k].prog)[i].op) \in Seq(OpIds)
                 /\ Len(Append(s[k].path, Code(m, s[k].prog)[i].op)) = k
                 /\ Append(s[k].path, Code(m, s[k].prog)[i].op)[k] = Code(m, s[k].prog)[i].op
<1>1. Len(s) \in Nat /\ DOMAIN s = 1 .. Len(s) /\ s[k] \in Frames
  OBVIOUS
<1>2. FrameFits(m, s[k], k)
  BY DEF Chained
<1>3. s[k].prog \in DOMAIN m.programs /\ Len(s[k].path) = k - 1
      /\ s[k].pc \in 1 .. Len(Code(m, s[k].prog)) + 1
  BY <1>2 DEF FrameFits
<1>4. s[k].path \in Seq(OpIds)
  BY <1>1 DEF Frames
<1>5. ASSUME NEW n \in 1 .. k - 1
      PROVE  s[n].pc \in DOMAIN Code(m, s[n].prog)
             /\ s[k].path[n] = Code(m, s[n].prog)[s[n].pc].op
  BY DEF Chained, StandsAtCall, FrameFollows, CallAt
<1>6. ASSUME NEW i \in 1 .. s[k].pc - 1
      PROVE  /\ i \in DOMAIN Code(m, s[k].prog)
             /\ Code(m, s[k].prog)[i].op \in OpIds
             /\ Append(s[k].path, Code(m, s[k].prog)[i].op) \in Seq(OpIds)
             /\ Len(Append(s[k].path, Code(m, s[k].prog)[i].op)) = k
             /\ Append(s[k].path, Code(m, s[k].prog)[i].op)[k] = Code(m, s[k].prog)[i].op
  <2>1. Len(Code(m, s[k].prog)) \in Nat
        /\ DOMAIN Code(m, s[k].prog) = 1 .. Len(Code(m, s[k].prog))
    BY <1>3, ProgramFacts
  <2>2. i \in DOMAIN Code(m, s[k].prog)
    BY <1>3, <2>1
  <2>3. Code(m, s[k].prog)[i].op \in OpIds
    BY <1>3, <2>2, ProgramFacts
  <2>4. k \in Nat
    BY <1>1
  <2> QED BY <1>3, <1>4, <2>2, <2>3, <2>4, AppendFacts
<1> QED BY <1>1, <1>3, <1>4, <1>5, <1>6

\* A running call is not past, nor is the one that the top is about to make.
LEMMA RunningIsNotPast ==
    ASSUME NEW m \in Modules, NEW s \in Seq(Frames), Chained(m, s), NEW k \in DOMAIN s
    PROVE  ~ Past(m, s, s[k].path)
<1> SUFFICES ASSUME NEW j \in DOMAIN s, NEW i \in 1 .. s[j].pc - 1,
                    Begins(Append(s[j].path, Code(m, s[j].prog)[i].op), s[k].path)
             PROVE  FALSE
  BY DEF Past, PastBelow
<1> DEFINE q == Append(s[j].path, Code(m, s[j].prog)[i].op)
<1>1. Len(q) = j /\ q[j] = Code(m, s[j].prog)[i].op /\ i \in DOMAIN Code(m, s[j].prog)
  BY StackFacts
<1>2. Len(s[k].path) = k - 1 /\ j \in Nat /\ k \in Nat /\ j >= 1
  BY StackFacts
<1>3. j <= k - 1 /\ q[j] = s[k].path[j]
  <2>1. Begins(q, s[k].path)
    OBVIOUS
  <2>2. j \in 1 .. Len(q)
    BY <1>1, <1>2
  <2> HIDE DEF q
  <2>3. Len(q) <= Len(s[k].path) /\ q[j] = s[k].path[j]
    BY <2>1, <2>2 DEF Begins
  <2> QED BY <1>1, <1>2, <2>3
<1>4. s[j].pc \in DOMAIN Code(m, s[j].prog) /\ s[k].path[j] = Code(m, s[j].prog)[s[j].pc].op
  <2>1. j \in 1 .. k - 1
    BY <1>2, <1>3
  <2> QED BY <2>1, StackFacts
<1>5. i = s[j].pc
  <2>1. s[j].prog \in DOMAIN m.programs
    BY StackFacts
  <2>2. Code(m, s[j].prog)[i].op = Code(m, s[j].prog)[s[j].pc].op
    BY <1>1, <1>3, <1>4
  <2> QED BY <1>1, <1>4, <2>1, <2>2, ProgramFacts
<1> QED BY <1>5, StackFacts

\* No instruction or value has the path of a call that is only now entered.
LEMMA CalledIsNew ==
    ASSUME NEW m \in Modules, NEW s \in Seq(Frames), Len(s) # 0, Chained(m, s),
           s[Len(s)].pc \in DOMAIN Code(m, s[Len(s)].prog), NEW p \in Seq(OpIds), Entered(m, s, p)
    PROVE  ~ Begins(Append(s[Len(s)].path, Code(m, s[Len(s)].prog)[s[Len(s)].pc].op), p)
<1> DEFINE n == Len(s)
           top == s[n]
           op == Code(m, top.prog)[top.pc].op
           N == Append(top.path, op)
<1>0. n \in DOMAIN s /\ n \in Nat
  OBVIOUS
<1>1. top.prog \in DOMAIN m.programs /\ top.path \in Seq(OpIds) /\ Len(top.path) = n - 1
  BY <1>0, StackFacts
<1>2. op \in OpIds
  BY <1>1, ProgramFacts
<1>3. Len(N) = n /\ N[n] = op /\ \A x \in 1 .. n - 1 : N[x] = top.path[x]
  BY <1>0, <1>1, <1>2, AppendFacts
<1> HIDE DEF N
<1> SUFFICES ASSUME Begins(N, p) PROVE FALSE
  BY DEF N
<1>4. CASE \E k \in DOMAIN s : p = s[k].path
  <2>1. PICK k \in DOMAIN s : p = s[k].path
    BY <1>4
  <2>2. Len(p) = k - 1 /\ k <= n /\ k \in Nat
    BY <2>1, StackFacts
  <2> QED BY <1>0, <1>3, <2>2 DEF Begins
<1>5. CASE Past(m, s, p)
  <2>1. PICK j \in DOMAIN s : PastBelow(m, s[j], p)
    BY <1>5 DEF Past
  <2>2. PICK i \in 1 .. s[j].pc - 1 : Begins(Append(s[j].path, Code(m, s[j].prog)[i].op), p)
    BY <2>1 DEF PastBelow
  <2> DEFINE q == Append(s[j].path, Code(m, s[j].prog)[i].op)
  <2>3. Len(q) = j /\ q[j] = Code(m, s[j].prog)[i].op /\ i \in DOMAIN Code(m, s[j].prog)
    BY StackFacts
  <2>4. j \in 1 .. n /\ n \in Nat /\ Len(p) \in Nat
    BY StackFacts
  <2> HIDE DEF q
  <2>5. p[j] = q[j]
    BY <2>2, <2>3, <2>4 DEF Begins, q
  <2>6. p[j] = N[j]
    BY <1>3, <2>4 DEF Begins
  <2>7. s[j].pc \in DOMAIN Code(m, s[j].prog) /\ N[j] = Code(m, s[j].prog)[s[j].pc].op
    <3>1. CASE j = n
      BY <1>3, <3>1
    <3>2. CASE j # n
      <4>1. j \in 1 .. n - 1
        BY <2>4, <3>2
      <4>2. s[j].pc \in DOMAIN Code(m, s[j].prog) /\ top.path[j] = Code(m, s[j].prog)[s[j].pc].op
        BY <1>0, <4>1, StackFacts
      <4> QED BY <1>3, <4>1, <4>2
    <3> QED BY <3>1, <3>2
  <2>8. i = s[j].pc
    <3>1. s[j].prog \in DOMAIN m.programs
      BY StackFacts
    <3>2. Code(m, s[j].prog)[i].op = Code(m, s[j].prog)[s[j].pc].op
      BY <2>3, <2>5, <2>6, <2>7
    <3> QED BY <2>3, <2>7, <3>1, <3>2, ProgramFacts
  <2> QED BY <2>8, StackFacts
<1> QED BY <1>4, <1>5 DEF Entered

-----------------------------------------------------------------------------
(* What the actions do to the stack.                                       *)

\* The activation goes on: it is the same, and has passed no less.
Resumes(m, old, new) ==
    /\ new \in Frames
    /\ new.prog = old.prog /\ new.path = old.path /\ new.calls = old.calls
    /\ new.record = old.record /\ new.start = old.start
    /\ new.pc \in 1 .. Len(Code(m, new.prog)) + 1 /\ old.pc <= new.pc
    /\ new.pending \subseteq old.pending

LEMMA PastStays ==
    ASSUME NEW m, NEW old \in Frames, NEW new, Resumes(m, old, new), NEW p,
           PastBelow(m, old, p)
    PROVE  PastBelow(m, new, p)
<1>1. PICK i \in 1 .. old.pc - 1 : Begins(Append(old.path, Code(m, old.prog)[i].op), p)
  BY DEF PastBelow
<1>2. old.pc \in Nat /\ new.pc \in Nat /\ old.pc <= new.pc
  BY DEF Resumes, Frames
<1>3. i \in 1 .. new.pc - 1
  BY <1>2
<1>4. QED BY <1>1, <1>3 DEF PastBelow, Resumes

\* The running activation goes on: the stack stays chained and loses nothing.
LEMMA TopResumes ==
    ASSUME NEW m \in Modules, NEW s \in Seq(Frames), Len(s) # 0, Chained(m, s), NEW frame,
           Resumes(m, s[Len(s)], frame), NEW t, t = [s EXCEPT ![Len(s)] = frame]
    PROVE  /\ t \in Seq(Frames) /\ Len(t) = Len(s) /\ DOMAIN t = DOMAIN s
           /\ t[Len(s)] = frame /\ \A k \in DOMAIN s : k # Len(s) => t[k] = s[k]
           /\ \A k \in DOMAIN s : Resumes(m, s[k], t[k])
           /\ Chained(m, t)
           /\ \A p : Past(m, s, p) => Past(m, t, p)
           /\ \A p : Entered(m, s, p) => Entered(m, t, p)
<1> DEFINE n == Len(s)
<1>0. n \in DOMAIN s /\ DOMAIN s = 1 .. n /\ n \in Nat
  OBVIOUS
<1>1. frame \in Frames
  BY DEF Resumes
<1>2. /\ t \in Seq(Frames) /\ Len(t) = Len(s) /\ DOMAIN t = DOMAIN s
      /\ t[Len(s)] = frame /\ \A k \in DOMAIN s : k # Len(s) => t[k] = s[k]
  BY <1>0, <1>1
<1>3. ASSUME NEW k \in DOMAIN s PROVE Resumes(m, s[k], t[k])
  <2>1. CASE k = n
    BY <1>2, <2>1
  <2>2. CASE k # n
    <3>1. s[k] \in Frames
      OBVIOUS
    <3>2. FrameFits(m, s[k], k)
      BY DEF Chained
    <3>3. s[k].pc \in Nat
      BY <3>1 DEF Frames
    <3>4. s[k].pc \in 1 .. Len(Code(m, s[k].prog)) + 1
      BY <3>2 DEF FrameFits
    <3>5. Resumes(m, s[k], s[k])
      BY <3>1, <3>3, <3>4 DEF Resumes
    <3>6. QED BY <1>2, <2>2, <3>5
  <2>3. QED BY <2>1, <2>2
<1>4. \A k \in DOMAIN s : t[k].prog = s[k].prog /\ t[k].path = s[k].path /\ t[k].calls = s[k].calls
  BY <1>3 DEF Resumes
<1>5. Chained(m, t)
  <2>1. t[1].prog = m.entry
    BY <1>0, <1>4 DEF Chained
  <2>2. ASSUME NEW k \in DOMAIN t PROVE FrameFits(m, t[k], k)
    <3>1. k \in DOMAIN s /\ FrameFits(m, s[k], k) /\ Resumes(m, s[k], t[k])
      BY <1>2, <1>3 DEF Chained
    <3>2. QED BY <3>1 DEF FrameFits, Resumes
  <2>3. ASSUME NEW k \in DOMAIN t, NEW x \in 1 .. k - 1
        PROVE  StandsAtCall(m, t, x) /\ FrameFollows(m, t, t[k], x)
    <3>0. k \in 1 .. n /\ k \in DOMAIN s
      BY <1>0, <1>2
    <3>1. k \in DOMAIN s /\ x \in DOMAIN s /\ x # n /\ x + 1 \in DOMAIN s
      <4> HIDE DEF n
      <4> QED BY <1>0, <3>0
    <3>2. t[x] = s[x] /\ t[x + 1].prog = s[x + 1].prog
      BY <1>2, <1>4, <3>1
    <3>3. StandsAtCall(m, s, x) /\ FrameFollows(m, s, s[k], x)
      BY <3>1 DEF Chained
    <3>4. StandsAtCall(m, t, x)
      BY <3>2, <3>3 DEF StandsAtCall, CallAt
    <3>5. FrameFollows(m, t, t[k], x)
      BY <1>4, <3>1, <3>2, <3>3 DEF FrameFollows, CallAt, StepAt
    <3>6. QED BY <3>4, <3>5
  <2>4. QED BY <2>1, <2>2, <2>3 DEF Chained
<1>6. ASSUME NEW p, Past(m, s, p) PROVE Past(m, t, p)
  <2>1. PICK k \in DOMAIN s : PastBelow(m, s[k], p)
    BY <1>6 DEF Past
  <2>2. s[k] \in Frames /\ Resumes(m, s[k], t[k])
    BY <1>3
  <2>3. PastBelow(m, t[k], p)
    BY <2>1, <2>2, PastStays
  <2>4. QED BY <1>2, <2>3 DEF Past
<1>7. ASSUME NEW p, Entered(m, s, p) PROVE Entered(m, t, p)
  <2>1. CASE Past(m, s, p)
    BY <1>6, <2>1 DEF Entered
  <2>2. CASE \E k \in DOMAIN s : p = s[k].path
    BY <1>2, <1>4, <2>2 DEF Entered
  <2>3. QED BY <1>7, <2>1, <2>2 DEF Entered
<1>8. QED BY <1>2, <1>3, <1>5, <1>6, <1>7

\* A call is entered.
Calls(m, s, frame) ==
    LET n == Len(s)
    IN  /\ s[n].pc \in DOMAIN Code(m, s[n].prog) /\ CallAt(m, s, n).kind = "call"
        /\ frame \in Frames
        /\ frame.prog = CallAt(m, s, n).callee
        /\ frame.path = Append(s[n].path, CallAt(m, s, n).op)
        /\ frame.calls = Append(s[n].calls, StepAt(m, s, n))
        /\ frame.pc = 1
        /\ frame.pending = LocalDefs(m.programs[frame.prog])

\* A call is entered.
LEMMA TopCalls ==
    ASSUME NEW m \in Modules, NEW s \in Seq(Frames), Len(s) # 0, Chained(m, s), NEW frame,
           Calls(m, s, frame), NEW t, t = Append(s, frame)
    PROVE  /\ t \in Seq(Frames) /\ Len(t) = Len(s) + 1 /\ DOMAIN t = 1 .. Len(s) + 1
           /\ t[Len(s) + 1] = frame /\ \A k \in DOMAIN s : t[k] = s[k]
           /\ Chained(m, t)
           /\ \A p : Past(m, s, p) => Past(m, t, p)
           /\ \A p : Entered(m, s, p) => Entered(m, t, p)
<1> DEFINE n == Len(s)
           call == CallAt(m, s, n)
<1>0. n \in DOMAIN s /\ DOMAIN s = 1 .. n /\ n \in Nat
  OBVIOUS
<1>1. frame \in Frames
  BY DEF Calls
<1>2. /\ t \in Seq(Frames) /\ Len(t) = n + 1 /\ DOMAIN t = 1 .. n + 1
      /\ t[n + 1] = frame /\ \A k \in DOMAIN s : t[k] = s[k]
  BY <1>0, <1>1
<1>3. /\ s[n].prog \in DOMAIN m.programs /\ s[n].path \in Seq(OpIds) /\ Len(s[n].path) = n - 1
      /\ s[n].pc \in DOMAIN Code(m, s[n].prog) /\ call.kind = "call"
  BY <1>0, StackFacts, Zenon DEF Calls
<1>4. call.op \in OpIds /\ call.callee \in DOMAIN m.programs
  BY <1>3, ProgramFacts, UseFacts DEF CallAt
<1>5. s[n].calls \in Seq(CallSteps) /\ Len(s[n].calls) = n - 1
  <2>1. s[n] \in Frames
    BY <1>0
  <2>2. s[n].calls \in Seq(CallSteps)
    BY <2>1 DEF Frames
  <2>3. FrameFits(m, s[n], n)
    BY <1>0 DEF Chained
  <2>4. QED BY <2>2, <2>3 DEF FrameFits
<1>6. StepAt(m, s, n) \in CallSteps
  BY <1>3, <1>4 DEF StepAt, CallSteps, ProgramNames
<1>7. /\ frame.prog \in DOMAIN m.programs /\ frame.prog = call.callee
      /\ Len(frame.path) = n /\ Len(frame.calls) = n
      /\ frame.path[n] = call.op /\ \A x \in 1 .. n - 1 : frame.path[x] = s[n].path[x]
      /\ frame.calls[n] = StepAt(m, s, n) /\ \A x \in 1 .. n - 1 : frame.calls[x] = s[n].calls[x]
  <2>1. /\ frame.path = Append(s[n].path, call.op) /\ frame.calls = Append(s[n].calls, StepAt(m, s, n))
        /\ frame.prog = call.callee
    BY DEF Calls
  <2>2. /\ Len(frame.path) = n /\ frame.path[n] = call.op
        /\ \A x \in 1 .. n - 1 : frame.path[x] = s[n].path[x]
    <3> DEFINE a == s[n].path
               e == call.op
    <3>1. a \in Seq(OpIds) /\ e \in OpIds /\ Len(a) = n - 1 /\ frame.path = Append(a, e)
      BY <1>3, <1>4, <2>1
    <3> HIDE DEF a, e
    <3>2. Len(Append(a, e)) = n /\ Append(a, e)[n] = e /\ \A x \in 1 .. n - 1 : Append(a, e)[x] = a[x]
      <4> HIDE DEF n
      <4> QED BY <1>0, <3>1, AppendFacts
    <3> QED BY <3>1, <3>2 DEF a, e
  <2>3. /\ Len(frame.calls) = n /\ frame.calls[n] = StepAt(m, s, n)
        /\ \A x \in 1 .. n - 1 : frame.calls[x] = s[n].calls[x]
    <3> DEFINE a == s[n].calls
               e == StepAt(m, s, n)
    <3>1. a \in Seq(CallSteps) /\ e \in CallSteps /\ Len(a) = n - 1 /\ frame.calls = Append(a, e)
      BY <1>5, <1>6, <2>1
    <3> HIDE DEF a, e
    <3>2. Len(Append(a, e)) = n /\ Append(a, e)[n] = e /\ \A x \in 1 .. n - 1 : Append(a, e)[x] = a[x]
      <4> HIDE DEF n
      <4> QED BY <1>0, <3>1, AppendFacts
    <3> QED BY <3>1, <3>2 DEF a, e
  <2>4. QED BY <1>4, <2>1, <2>2, <2>3
<1>8. Chained(m, t)
  <2>1. t[1].prog = m.entry
    BY <1>0, <1>2 DEF Chained
  <2>2. FrameFits(m, frame, n + 1)
    <3>1. Len(Code(m, frame.prog)) \in Nat
      BY <1>7, ProgramFacts
    <3>2. frame.pc = 1 /\ frame.pending = LocalDefs(m.programs[frame.prog])
      BY DEF Calls
    <3>3. QED BY <1>0, <1>7, <3>1, <3>2 DEF FrameFits
  <2>3. ASSUME NEW k \in DOMAIN t PROVE FrameFits(m, t[k], k)
    <3>1. CASE k = n + 1
      BY <1>2, <2>2, <3>1
    <3>2. CASE k # n + 1
      BY <1>0, <1>2, <3>2 DEF Chained
    <3>3. QED BY <3>1, <3>2
  <2>4. ASSUME NEW x \in 1 .. n PROVE StandsAtCall(m, t, x)
    <3>1. t[x] = s[x]
      BY <1>0, <1>2
    <3>2. CASE x = n
      <4>1. CallAt(m, t, n) = call /\ t[n].prog = s[n].prog /\ t[n].pc = s[n].pc
            /\ t[n + 1].prog = call.callee
        BY <1>2, <1>7, <3>1, <3>2 DEF CallAt
      <4>2. QED BY <1>3, <3>2, <4>1 DEF StandsAtCall
    <3>3. CASE x # n
      <4>0. x \in 1 .. n - 1 /\ x + 1 \in 1 .. n
        <5> HIDE DEF n
        <5> QED BY <1>0, <3>3
      <4>1. StandsAtCall(m, s, x)
        BY <1>0, <4>0 DEF Chained
      <4>2. t[x + 1] = s[x + 1]
        BY <1>0, <1>2, <4>0
      <4>3. QED BY <3>1, <4>1, <4>2 DEF StandsAtCall, CallAt
    <3>4. QED BY <3>2, <3>3
  <2>5. ASSUME NEW k \in DOMAIN t, NEW x \in 1 .. k - 1 PROVE FrameFollows(m, t, t[k], x)
    <3>1. x \in 1 .. n /\ t[x] = s[x] /\ CallAt(m, t, x) = CallAt(m, s, x)
          /\ StepAt(m, t, x) = StepAt(m, s, x)
      BY <1>0, <1>2 DEF CallAt, StepAt
    <3>2. CASE k = n + 1 /\ x = n
      BY <1>2, <1>7, <3>1, <3>2 DEF FrameFollows
    <3>3. CASE k = n + 1 /\ x # n
      <4>1. x \in 1 .. n - 1 /\ FrameFollows(m, s, s[n], x)
        BY <1>0, <3>1, <3>3 DEF Chained
      <4>2. t[k].path[x] = s[n].path[x] /\ t[k].calls[x] = s[n].calls[x]
        BY <1>2, <1>7, <3>3, <4>1
      <4>3. QED BY <3>1, <4>1, <4>2 DEF FrameFollows
    <3>4. CASE k # n + 1
      <4>1. k \in DOMAIN s /\ t[k] = s[k]
        BY <1>0, <1>2, <3>4
      <4>2. FrameFollows(m, s, s[k], x)
        BY <4>1 DEF Chained
      <4>3. QED BY <3>1, <4>1, <4>2 DEF FrameFollows
    <3>5. QED BY <3>2, <3>3, <3>4
  <2>6. \A k \in DOMAIN t : \A x \in 1 .. k - 1 : x \in 1 .. n
    BY <1>0, <1>2
  <2>7. QED BY <2>1, <2>3, <2>4, <2>5, <2>6 DEF Chained
<1>9. ASSUME NEW p, Past(m, s, p) PROVE Past(m, t, p)
  BY <1>0, <1>2, <1>9 DEF Past
<1>10. ASSUME NEW p, Entered(m, s, p) PROVE Entered(m, t, p)
  <2>1. CASE Past(m, s, p)
    BY <1>9, <2>1 DEF Entered
  <2>2. CASE \E k \in DOMAIN s : p = s[k].path
    BY <1>0, <1>2, <2>2 DEF Entered
  <2>3. QED BY <1>10, <2>1, <2>2 DEF Entered
<1>11. QED BY <1>2, <1>8, <1>9, <1>10

\* A call returns, and its caller goes on after it.
ReturnsTo(m, s, frame, t) ==
    /\ t \in Seq(Frames) /\ Len(t) = Len(s) - 1 /\ DOMAIN t = 1 .. Len(s) - 1
    /\ t[Len(s) - 1] = frame /\ \A k \in DOMAIN t : k # Len(s) - 1 => t[k] = s[k]
    /\ \A k \in DOMAIN t : Resumes(m, s[k], t[k])
    /\ Chained(m, t)
    /\ \A p \in Seq(OpIds) : Past(m, s, p) => Past(m, t, p)
    /\ \A p \in Seq(OpIds) : Entered(m, s, p) => Entered(m, t, p)
    /\ Past(m, t, s[Len(s)].path)

\* A call returns.
LEMMA TopReturns ==
    ASSUME NEW m \in Modules, NEW s \in Seq(Frames), Len(s) > 1, Chained(m, s), NEW frame,
           Resumes(m, s[Len(s) - 1], frame), frame.pc = s[Len(s) - 1].pc + 1,
           NEW t, t = Append(SubSeq(s, 1, Len(s) - 2), frame)
    PROVE  ReturnsTo(m, s, frame, t)
<1> DEFINE n == Len(s) - 1
           u == SubSeq(s, 1, n)
<1>0. n \in DOMAIN s /\ n + 1 \in DOMAIN s /\ DOMAIN s = 1 .. n + 1 /\ n \in Nat /\ n > 0
      /\ Len(s) = n + 1
  OBVIOUS
<1>1. u \in Seq(Frames) /\ Len(u) = n /\ DOMAIN u = 1 .. n /\ \A k \in 1 .. n : u[k] = s[k]
  <2>1. \A i \in 1 .. n : s[i] \in Frames
    BY <1>0
  <2>2. QED BY <1>0, <2>1, SubSeqProperties
<1>2. Chained(m, u)
  <2>1. \A k \in DOMAIN u : FrameFits(m, u[k], k)
    BY <1>0, <1>1 DEF Chained
  <2>2. ASSUME NEW k \in DOMAIN u, NEW x \in 1 .. k - 1
        PROVE  StandsAtCall(m, u, x) /\ FrameFollows(m, u, u[k], x)
    <3>1. k \in DOMAIN s /\ u[k] = s[k] /\ u[x] = s[x] /\ u[x + 1] = s[x + 1]
      BY <1>0, <1>1
    <3>2. StandsAtCall(m, s, x) /\ FrameFollows(m, s, s[k], x)
      BY <3>1 DEF Chained
    <3> HIDE DEF u
    <3>3. QED BY <3>1, <3>2 DEF StandsAtCall, FrameFollows, CallAt, StepAt
  <2>3. u[1].prog = m.entry
    BY <1>0, <1>1 DEF Chained
  <2> HIDE DEF u
  <2>4. QED BY <2>1, <2>2, <2>3 DEF Chained
<1>3. t = [u EXCEPT ![n] = frame]
  <2>1. frame \in Frames
    BY DEF Resumes
  <2> DEFINE w == SubSeq(s, 1, n - 1)
  <2>2. w \in Seq(Frames) /\ Len(w) = n - 1 /\ \A k \in 1 .. n - 1 : w[k] = s[k]
    <3>1. \A i \in 1 .. n - 1 : s[i] \in Frames
      BY <1>0
    <3>2. n - 1 \in Int
      BY <1>0
    <3>3. QED BY <1>0, <3>1, <3>2, SubSeqProperties
  <2>3. t = Append(w, frame)
    BY <1>0
  <2> HIDE DEF u, w
  <2>4. t \in Seq(Frames) /\ Len(t) = n /\ t[n] = frame /\ \A k \in 1 .. n - 1 : t[k] = s[k]
    <3> HIDE DEF n
    <3> QED BY <1>0, <2>1, <2>2, <2>3, AppendFacts
  <2> DEFINE v == [u EXCEPT ![n] = frame]
  <2>5. v \in Seq(Frames) /\ Len(v) = n /\ v[n] = frame /\ \A k \in 1 .. n - 1 : v[k] = u[k]
    <3> HIDE DEF n
    <3> QED BY <1>0, <1>1, <2>1
  <2>6. \A k \in 1 .. n : t[k] = v[k]
    <3> HIDE DEF n, v
    <3> QED BY <1>0, <1>1, <2>4, <2>5
  <2> HIDE DEF v
  <2>7. t = v
    BY <2>4, <2>5, <2>6, SeqEqual
  <2>8. QED BY <2>7 DEF v
<1>4. Resumes(m, u[Len(u)], frame) /\ Len(u) # 0
  BY <1>0, <1>1
<1>5. /\ t \in Seq(Frames) /\ Len(t) = n /\ DOMAIN t = 1 .. n
      /\ t[n] = frame /\ \A k \in DOMAIN t : k # n => t[k] = s[k]
      /\ \A k \in DOMAIN t : Resumes(m, s[k], t[k])
      /\ Chained(m, t)
      /\ \A p : Past(m, u, p) => Past(m, t, p)
  <2> HIDE DEF u
  <2>1. t = [u EXCEPT ![Len(u)] = frame]
    BY <1>1, <1>3
  <2>2. /\ t \in Seq(Frames) /\ Len(t) = Len(u) /\ DOMAIN t = DOMAIN u
        /\ t[Len(u)] = frame /\ \A k \in DOMAIN u : k # Len(u) => t[k] = u[k]
        /\ \A k \in DOMAIN u : Resumes(m, u[k], t[k])
        /\ Chained(m, t)
        /\ \A p : Past(m, u, p) => Past(m, t, p)
    <3> HIDE DEF n
    <3>1. u \in Seq(Frames)
      BY <1>1
    <3>a. t \in Seq(Frames)
      BY <1>2, <1>4, <2>1, <3>1, TopResumes
    <3>b. Len(t) = Len(u)
      BY <1>2, <1>4, <2>1, <3>1, TopResumes
    <3>c. DOMAIN t = DOMAIN u
      BY <2>1
    <3>2. t \in Seq(Frames) /\ Len(t) = Len(u) /\ DOMAIN t = DOMAIN u
      BY <3>a, <3>b, <3>c
    <3>3. t[Len(u)] = frame
      BY <1>2, <1>4, <2>1, <3>1, TopResumes
    <3>4. \A k \in DOMAIN u : k # Len(u) => t[k] = u[k]
      BY <1>2, <1>4, <2>1, <3>1, TopResumes
    <3>5. \A k \in DOMAIN u : Resumes(m, u[k], t[k])
      BY <1>2, <1>4, <2>1, <3>1, TopResumes
    <3>6. Chained(m, t)
      BY <1>2, <1>4, <2>1, <3>1, TopResumes
    <3>7. \A p : Past(m, u, p) => Past(m, t, p)
      BY <1>2, <1>4, <2>1, <3>1, TopResumes
    <3> QED BY <3>2, <3>3, <3>4, <3>5, <3>6, <3>7
  <2> HIDE DEF n
  <2>3. QED BY <1>1, <2>2
<1>6. /\ s[n].prog = frame.prog /\ s[n].path = frame.path
      /\ s[n].pc \in DOMAIN Code(m, s[n].prog) /\ frame.pc = s[n].pc + 1 /\ s[n].pc \in Nat
      /\ s[n + 1].path = Append(frame.path, Code(m, frame.prog)[s[n].pc].op)
      /\ s[n + 1].path \in Seq(OpIds) /\ Len(s[n + 1].path) = n
  <2>1. s[n].prog = frame.prog /\ s[n].path = frame.path
    BY DEF Resumes
  <2>2. StandsAtCall(m, s, n)
    BY <1>0 DEF Chained
  <2>3. s[n].pc \in DOMAIN Code(m, s[n].prog) /\ s[n].pc \in Nat /\ frame.pc = s[n].pc + 1
    BY <1>0, <2>2, StackFacts DEF StandsAtCall
  <2>4. /\ s[n + 1].path \in Seq(OpIds) /\ Len(s[n + 1].path) = n
        /\ \A x \in 1 .. n : s[n + 1].path[x] = Code(m, s[x].prog)[s[x].pc].op
    <3>1. n + 1 - 1 = n
      BY <1>0
    <3> HIDE DEF n
    <3>2. QED BY <1>0, <3>1, StackFacts, SMTT(30)
  <2>5. /\ s[n].path \in Seq(OpIds) /\ Len(s[n].path) = n - 1 /\ s[n].prog \in DOMAIN m.programs
        /\ \A x \in 1 .. n - 1 : s[n].path[x] = Code(m, s[x].prog)[s[x].pc].op
    <3> HIDE DEF n
    <3>1. QED BY <1>0, StackFacts
  <2> DEFINE op == Code(m, s[n].prog)[s[n].pc].op
             q == Append(s[n].path, op)
  <2>6. op \in OpIds
    BY <2>3, <2>5, ProgramFacts
  <2>7. q \in Seq(OpIds) /\ Len(q) = n /\ q[n] = op /\ \A x \in 1 .. n - 1 : q[x] = s[n].path[x]
    <3> HIDE DEF n, op
    <3>1. QED BY <1>0, <2>5, <2>6, AppendFacts
  <2>8. \A x \in 1 .. n : q[x] = s[n + 1].path[x]
    <3> HIDE DEF q, n, op
    <3>1. ASSUME NEW x \in 1 .. n - 1 PROVE q[x] = s[n + 1].path[x]
      <4>1. x \in 1 .. n
        BY <1>0
      <4>2. QED BY <2>4, <2>5, <2>7, <4>1
    <3>2. q[n] = s[n + 1].path[n]
      <4>1. n \in 1 .. n
        BY <1>0
      <4>2. s[n + 1].path[n] = op
        BY <2>4, <4>1 DEF op
      <4>3. QED BY <2>7, <4>2
    <3>3. QED BY <1>0, <3>1, <3>2
  <2>9. q = s[n + 1].path
    <3> HIDE DEF q, n
    <3>1. QED BY <2>4, <2>7, <2>8, SeqEqual
  <2>10. QED BY <2>1, <2>3, <2>4, <2>9
<1>7. ASSUME NEW p \in Seq(OpIds), Begins(s[n + 1].path, p)
      PROVE  Past(m, t, p)
  <2>1. s[n].pc \in 1 .. frame.pc - 1
    <3>1. s[n].prog \in DOMAIN m.programs
      BY <1>0, StackFacts
    <3>2. DOMAIN Code(m, s[n].prog) = 1 .. Len(Code(m, s[n].prog))
      BY <3>1, ProgramFacts
    <3> HIDE DEF n
    <3>3. s[n].pc \in 1 .. Len(Code(m, s[n].prog)) /\ s[n].pc \in Nat /\ frame.pc = s[n].pc + 1
      BY <1>6, <3>2
    <3>4. \A a \in Nat : \A len : a \in 1 .. len => a \in 1 .. (a + 1) - 1
      OBVIOUS
    <3>5. s[n].pc \in 1 .. (s[n].pc + 1) - 1
      BY <3>3, <3>4
    <3>6. QED BY <3>3, <3>5
  <2>2. PastBelow(m, frame, p)
    BY <1>6, <1>7, <2>1 DEF PastBelow
  <2>3. QED BY <1>0, <1>5, <2>2 DEF Past
<1>8. ASSUME NEW p \in Seq(OpIds), Past(m, s, p) PROVE Past(m, t, p)
  <2>1. PICK k \in DOMAIN s : PastBelow(m, s[k], p)
    BY <1>8 DEF Past
  <2>2. CASE k = n + 1
    <3>1. PICK i \in 1 .. s[k].pc - 1 : Begins(Append(s[k].path, Code(m, s[k].prog)[i].op), p)
      BY <2>1 DEF PastBelow
    <3> DEFINE q == Append(s[k].path, Code(m, s[k].prog)[i].op)
    <3>2. /\ s[k].path \in Seq(OpIds) /\ Len(s[k].path) = k - 1
          /\ i \in DOMAIN Code(m, s[k].prog) /\ Code(m, s[k].prog)[i].op \in OpIds
      BY StackFacts
    <3>3. Len(q) \in Nat /\ Begins(s[k].path, q)
      BY <3>2, AppendFacts DEF Begins
    <3>4. Len(s[k].path) \in Nat /\ Len(p) \in Nat
      BY <3>2
    <3> HIDE DEF q
    <3>5. Begins(s[k].path, p)
      BY <3>1, <3>3, <3>4, BeginsTransitive DEF q
    <3>6. QED BY <1>7, <2>2, <3>5
  <2>3. CASE k # n + 1
    <3>1. k \in DOMAIN u /\ u[k] = s[k]
      BY <1>0, <1>1, <2>3
    <3>2. Past(m, u, p)
      BY <2>1, <3>1 DEF Past
    <3>3. QED BY <1>5, <3>2
  <2>4. QED BY <2>2, <2>3
<1>9. Past(m, t, s[n + 1].path)
  <2>1. Begins(s[n + 1].path, s[n + 1].path)
    <3> HIDE DEF n
    <3> QED BY <1>0, <1>6 DEF Begins
  <2>2. QED BY <1>6, <1>7, <2>1
<1>10. ASSUME NEW p \in Seq(OpIds), Entered(m, s, p) PROVE Entered(m, t, p)
  <2>1. CASE Past(m, s, p)
    BY <1>8, <2>1 DEF Entered
  <2>2. CASE \E k \in DOMAIN s : p = s[k].path
    <3>1. PICK k \in DOMAIN s : p = s[k].path
      BY <2>2
    <3>2. CASE k = n + 1
      BY <1>9, <3>1, <3>2 DEF Entered
    <3>3. CASE k # n + 1
      <4>0. k \in DOMAIN t
        <5> HIDE DEF n
        <5> QED BY <1>0, <1>5, <3>3
      <4>1. k \in DOMAIN t /\ t[k].path = s[k].path
        BY <1>5, <4>0 DEF Resumes
      <4>2. QED BY <3>1, <4>1 DEF Entered
    <3>4. QED BY <3>2, <3>3
  <2>3. QED BY <1>10, <2>1, <2>2 DEF Entered
<1>11. QED BY <1>0, <1>5, <1>8, <1>9, <1>10 DEF ReturnsTo

-----------------------------------------------------------------------------
(* The invariant of the expander.                                          *)

QubitsOf(qs) == {qs[q].id : q \in DOMAIN qs}

\* A value belongs to an activation that has been entered, which knows it if it runs.
QubitsPlaced(m, s, qs) ==
    \A q \in DOMAIN qs :
        /\ Entered(m, s, qs[q].id[1])
        /\ \A k \in DOMAIN s : qs[q].id[1] = s[k].path => qs[q].id[2] \in DOMAIN s[k].bound

QubitsDistinct(qs) == \A q, r \in DOMAIN qs : qs[q].id = qs[r].id => q = r

QubitsInTime(qs, n) == \A q \in DOMAIN qs : qs[q].created <= n

\* What an activation can name: values that are there, its own or an ancestor's or
\* escaped, by names of its program, and all it has passed.
NamesValues(frame, qs, es) ==
    \A v \in DOMAIN frame.bound :
        /\ frame.bound[v] \in QubitsOf(qs)
        /\ Begins(frame.bound[v][1], frame.path) \/ frame.bound[v] \in ToSet(es)

NamesKnown(m, frame) ==
    DOMAIN frame.bound \subseteq KnownBefore(m.programs[frame.prog], frame.pc)

NamesPassed(m, frame, k) ==
    /\ k > 1 => \A j \in DOMAIN m.programs[frame.prog].params :
                    m.programs[frame.prog].params[j] \in DOMAIN frame.bound
    /\ \A d \in LocalDefs(m.programs[frame.prog]) \ frame.pending :
            m.programs[frame.prog].defs[d].id \in DOMAIN frame.bound
    /\ \A i \in 1 .. frame.pc - 1 :
            Code(m, frame.prog)[i].kind = "call" /\ Code(m, frame.prog)[i].result # NoValue
                => Code(m, frame.prog)[i].result \in DOMAIN frame.bound

FrameBound(m, frame, k, qs, es) ==
    NamesValues(frame, qs, es) /\ NamesKnown(m, frame) /\ NamesPassed(m, frame, k)

FramesBound(m, s, qs, es) == \A k \in DOMAIN s : FrameBound(m, s[k], k, qs, es)

\* An expanded instruction is a copy of one that its activation has passed.
CopyOf(instr, source) ==
    /\ instr.op = source.op /\ instr.kind = source.kind /\ instr.result = source.result
    /\ instr.basis = source.basis /\ Len(instr.refs) = Len(source.refs)

Copied(m, frame, instr) ==
    \E i \in 1 .. frame.pc - 1 :
        Code(m, frame.prog)[i].kind # "call" /\ CopyOf(instr, Code(m, frame.prog)[i])

InstrsPlaced(m, s, is) ==
    \A i \in DOMAIN is :
        /\ Entered(m, s, is[i].path)
        /\ \A k \in DOMAIN s : is[i].path = s[k].path => Copied(m, s[k], is[i])

InstrsDistinct(is) ==
    \A i, j \in DOMAIN is : is[i].path = is[j].path /\ is[i].op = is[j].op => i = j

\* What it uses was there before it.
Uses(qs, refs, i) ==
    \A r \in DOMAIN refs : \E q \in DOMAIN qs : qs[q].id = refs[r] /\ qs[q].created < i

InstrsUse(qs, is) == \A i \in DOMAIN is : Uses(qs, is[i].refs, i)

Arity(instr) ==
    /\ instr.kind = "cx" => Len(instr.refs) = 2
    /\ instr.kind # "cx" => Len(instr.refs) = 1

InstrsHaveArity(is) == \A i \in DOMAIN is : Arity(is[i])

\* Calls lead from the entry to the program of the instruction.
Host(m, calls, n) == IF n = 0 THEN m.entry ELSE calls[n].callee

HasOp(m, p, op) == \E k \in DOMAIN Code(m, p) : Code(m, p)[k].op = op

Leads(m, calls) ==
    \A n \in DOMAIN calls : calls[n].caller = Host(m, calls, n - 1)
                            /\ HasOp(m, Host(m, calls, n - 1), calls[n].op)

InstrCalled(m, instr) ==
    /\ Len(instr.path) = Len(instr.calls)
    /\ \A n \in 1 .. Len(instr.path) : instr.path[n] = instr.calls[n].op
    /\ Leads(m, instr.calls)
    /\ HasOp(m, Host(m, instr.calls, Len(instr.calls)), instr.op)

InstrsCalled(m, is) == \A i \in DOMAIN is : InstrCalled(m, is[i])

\* No callee observes: an observation is the entry program's.
ObserverCalled(m) ==
    \E p \in DOMAIN m.programs : \E c \in Callees(m, p) : Observations(m.programs[c]) # {}

ObservedAtEntry(m, is) ==
    ~ ObserverCalled(m) => \A i \in DOMAIN is : is[i].kind = "observe" => is[i].path = <<>>

\* The entry program's instructions are copied as they are passed.
EntryCopied(m, s, is) ==
    \A j \in 1 .. s[1].pc - 1 :
        Code(m, m.entry)[j].kind # "call" =>
            \E i \in DOMAIN is : is[i].path = <<>> /\ CopyOf(is[i], Code(m, m.entry)[j])

\* The instructions of a running call are those since its start.
FrameStarts(frame, is) ==
    /\ frame.start \in 0 .. Len(is)
    /\ \A i \in DOMAIN is : (i > frame.start) <=> Begins(frame.path, is[i].path)

FramesStart(s, is) == \A k \in DOMAIN s : FrameStarts(s[k], is)

\* Its record is reserved.
FramesReserve(s, rs) ==
    /\ s[1].record = 0
    /\ \A k \in 2 .. Len(s) : /\ s[k].record \in DOMAIN rs /\ rs[s[k].record] = NoValue
                              /\ \A j \in 2 .. Len(s) : s[j].record = s[k].record => j = k

Open(s) == {s[k].record : k \in 2 .. Len(s)}

\* The record of a call that has returned.
Listed(is, r) ==
    \E start \in 0 .. Len(is) :
        /\ start + Len(r.instrs) <= Len(is)
        /\ \A i \in DOMAIN is :
              Begins(r.path, is[i].path) <=> i \in start + 1 .. start + Len(r.instrs)
        /\ \A n \in DOMAIN r.instrs : r.instrs[n] = <<is[start + n].path, is[start + n].op>>

Noted(r, qs, es) ==
    \/ r.returned = NoValue
    \/ /\ r.returned \in QubitsOf(qs)
       /\ Begins(r.path, r.returned[1]) => r.returned \in ToSet(es)

RecordsFilled(m, s, rs) ==
    \A c \in DOMAIN rs \ Open(s) : rs[c] \in Filled /\ Past(m, s, rs[c].path)

RecordsListed(s, is, rs) == \A c \in DOMAIN rs \ Open(s) : Listed(is, rs[c])

RecordsNoted(s, rs, qs, es) == \A c \in DOMAIN rs \ Open(s) : Noted(rs[c], qs, es)

RecordsDistinct(s, rs) ==
    \A c, d \in DOMAIN rs \ Open(s) : rs[c].path = rs[d].path => c = d

-----------------------------------------------------------------------------
(* A step of the stack, and what it keeps of the rest.                     *)

Extends(old, new) ==
    DOMAIN old.bound \subseteq DOMAIN new.bound
    /\ \A v \in DOMAIN old.bound : new.bound[v] = old.bound[v]

Grows(m, s, t) ==
    /\ t \in Seq(Frames)
    /\ \A p \in Seq(OpIds) : Past(m, s, p) => Past(m, t, p)
    /\ \A p \in Seq(OpIds) : Entered(m, s, p) => Entered(m, t, p)
    /\ \A k \in DOMAIN t :
          \/ k \in DOMAIN s /\ s[k] \in Frames /\ Resumes(m, s[k], t[k]) /\ Extends(s[k], t[k])
          \/ ~ Entered(m, s, t[k].path)

LEMMA QubitsStayPlaced ==
    ASSUME NEW m, NEW s, NEW t, Grows(m, s, t), NEW qs \in Seq(Instances), QubitsPlaced(m, s, qs)
    PROVE  QubitsPlaced(m, t, qs)
<1> SUFFICES ASSUME NEW q \in DOMAIN qs
             PROVE  /\ Entered(m, t, qs[q].id[1])
                    /\ \A k \in DOMAIN t : qs[q].id[1] = t[k].path
                                           => qs[q].id[2] \in DOMAIN t[k].bound
  BY DEF QubitsPlaced
<1>1. qs[q].id[1] \in Seq(OpIds)
  <2>1. qs[q] \in Instances
    OBVIOUS
  <2>2. QED BY <2>1 DEF Instances, Ids
<1>2. Entered(m, s, qs[q].id[1])
  BY DEF QubitsPlaced
<1>3. Entered(m, t, qs[q].id[1])
  BY <1>1, <1>2 DEF Grows
<1>4. ASSUME NEW k \in DOMAIN t, qs[q].id[1] = t[k].path
      PROVE  qs[q].id[2] \in DOMAIN t[k].bound
  <2>1. k \in DOMAIN s /\ Resumes(m, s[k], t[k]) /\ Extends(s[k], t[k])
    BY <1>2, <1>4 DEF Grows
  <2>2. qs[q].id[1] = s[k].path
    BY <1>4, <2>1 DEF Resumes
  <2>3. qs[q].id[2] \in DOMAIN s[k].bound
    BY <2>1, <2>2 DEF QubitsPlaced
  <2>4. QED BY <2>1, <2>3 DEF Extends
<1>5. QED BY <1>3, <1>4

LEMMA CopiedStays ==
    ASSUME NEW m, NEW old \in Frames, NEW new, Resumes(m, old, new), NEW instr,
           Copied(m, old, instr)
    PROVE  Copied(m, new, instr)
<1>1. PICK i \in 1 .. old.pc - 1 :
          Code(m, old.prog)[i].kind # "call" /\ CopyOf(instr, Code(m, old.prog)[i])
  BY DEF Copied
<1>2. i \in 1 .. new.pc - 1
  BY DEF Resumes, Frames
<1>3. new.prog = old.prog
  BY DEF Resumes
<1>4. QED BY <1>1, <1>2, <1>3 DEF Copied

LEMMA InstrsStayPlaced ==
    ASSUME NEW m, NEW s, NEW t, Grows(m, s, t), NEW is \in Seq(Expanded), InstrsPlaced(m, s, is)
    PROVE  InstrsPlaced(m, t, is)
<1> SUFFICES ASSUME NEW i \in DOMAIN is
             PROVE  /\ Entered(m, t, is[i].path)
                    /\ \A k \in DOMAIN t : is[i].path = t[k].path => Copied(m, t[k], is[i])
  BY DEF InstrsPlaced
<1>1. is[i].path \in Seq(OpIds)
  <2>1. is[i] \in Expanded
    OBVIOUS
  <2>2. QED BY <2>1 DEF Expanded
<1>2. Entered(m, s, is[i].path)
  BY DEF InstrsPlaced
<1>3. Entered(m, t, is[i].path)
  BY <1>1, <1>2 DEF Grows
<1>4. ASSUME NEW k \in DOMAIN t, is[i].path = t[k].path
      PROVE  Copied(m, t[k], is[i])
  <2>1. k \in DOMAIN s /\ s[k] \in Frames /\ Resumes(m, s[k], t[k])
    BY <1>2, <1>4 DEF Grows
  <2>2. is[i].path = s[k].path
    BY <1>4, <2>1 DEF Resumes
  <2>3. Copied(m, s[k], is[i])
    BY <2>1, <2>2 DEF InstrsPlaced
  <2>4. QED BY <2>1, <2>3, CopiedStays
<1>5. QED BY <1>3, <1>4

\* More values, more escapes.
LEMMA ValuesStay ==
    ASSUME NEW qs, NEW qt, QubitsOf(qs) \subseteq QubitsOf(qt),
           NEW es, NEW et, ToSet(es) \subseteq ToSet(et)
    PROVE  /\ \A frame : NamesValues(frame, qs, es) => NamesValues(frame, qt, et)
           /\ \A m, frame, k : FrameBound(m, frame, k, qs, es) => FrameBound(m, frame, k, qt, et)
           /\ \A r : Noted(r, qs, es) => Noted(r, qt, et)
<1>1. \A frame : NamesValues(frame, qs, es) => NamesValues(frame, qt, et)
  BY DEF NamesValues
<1>2. \A m, frame, k : FrameBound(m, frame, k, qs, es) => FrameBound(m, frame, k, qt, et)
  BY <1>1 DEF FrameBound
<1>3. \A r : Noted(r, qs, es) => Noted(r, qt, et)
  BY DEF Noted
<1>4. QED BY <1>1, <1>2, <1>3

LEMMA AppendContents ==
    ASSUME NEW S, NEW x \in Seq(S), NEW e \in S
    PROVE  ToSet(Append(x, e)) = ToSet(x) \union {e}
BY AppendFacts DEF ToSet

LEMMA AppendQubits ==
    ASSUME NEW qs \in Seq(Instances), NEW q \in Instances
    PROVE  QubitsOf(Append(qs, q)) = QubitsOf(qs) \union {q.id}
BY AppendFacts DEF QubitsOf

\* One more instruction, of another call than the record's.
LEMMA ListedStays ==
    ASSUME NEW is \in Seq(Expanded), NEW instr \in Expanded, NEW r \in Filled, Listed(is, r),
           ~ Begins(r.path, instr.path)
    PROVE  Listed(Append(is, instr), r)
<1> DEFINE ju == Append(is, instr)
<1>1. PICK start \in 0 .. Len(is) :
        /\ start + Len(r.instrs) <= Len(is)
        /\ \A i \in DOMAIN is :
              Begins(r.path, is[i].path) <=> i \in start + 1 .. start + Len(r.instrs)
        /\ \A n \in DOMAIN r.instrs : r.instrs[n] = <<is[start + n].path, is[start + n].op>>
  BY DEF Listed
<1>2. /\ Len(ju) = Len(is) + 1 /\ Len(is) \in Nat /\ DOMAIN is = 1 .. Len(is)
      /\ DOMAIN ju = 1 .. Len(is) + 1 /\ ju[Len(is) + 1] = instr
      /\ \A i \in 1 .. Len(is) : ju[i] = is[i]
  BY AppendFacts
<1>3. Len(r.instrs) \in Nat /\ DOMAIN r.instrs = 1 .. Len(r.instrs)
  BY DEF Filled
<1> HIDE DEF ju
<1>4. ASSUME NEW i \in DOMAIN ju
      PROVE  Begins(r.path, ju[i].path) <=> i \in start + 1 .. start + Len(r.instrs)
  <2>1. CASE i = Len(is) + 1
    <3>1. ~ Begins(r.path, ju[i].path)
      BY <1>2, <2>1
    <3>2. ~ (i \in start + 1 .. start + Len(r.instrs))
      BY <1>1, <1>2, <1>3, <2>1
    <3>3. QED BY <3>1, <3>2
  <2>2. CASE i # Len(is) + 1
    <3>1. i \in DOMAIN is /\ ju[i] = is[i]
      BY <1>2, <2>2
    <3>2. QED BY <1>1, <3>1
  <2>3. QED BY <2>1, <2>2
<1>5. ASSUME NEW n \in DOMAIN r.instrs
      PROVE  r.instrs[n] = <<ju[start + n].path, ju[start + n].op>>
  <2>1. start + n \in 1 .. Len(is)
    BY <1>1, <1>2, <1>3
  <2>2. QED BY <1>1, <1>2, <2>1
<1>6. start \in 0 .. Len(ju) /\ start + Len(r.instrs) <= Len(ju)
  BY <1>1, <1>2, <1>3
<1>7. QED BY <1>4, <1>5, <1>6 DEF Listed, ju

-----------------------------------------------------------------------------
(* What growing stacks and contents keep of the invariant.                 *)

ValuesIInv(m, s, qs, n, es) ==
    QubitsPlaced(m, s, qs) /\ QubitsDistinct(qs) /\ QubitsInTime(qs, n) /\ FramesBound(m, s, qs, es)

CodeIInv(m, s, qs, is) ==
    /\ InstrsPlaced(m, s, is) /\ InstrsDistinct(is) /\ InstrsUse(qs, is) /\ InstrsHaveArity(is)
    /\ InstrsCalled(m, is) /\ ObservedAtEntry(m, is) /\ EntryCopied(m, s, is)

RecordsIInv(m, s, qs, is, rs, es) ==
    /\ FramesStart(s, is) /\ FramesReserve(s, rs)
    /\ RecordsFilled(m, s, rs) /\ RecordsListed(s, is, rs) /\ RecordsNoted(s, rs, qs, es)
    /\ RecordsDistinct(s, rs)

\* A step of the running activation grows the stack.
LEMMA TopGrows ==
    ASSUME NEW m \in Modules, NEW s \in Seq(Frames), Len(s) # 0, Chained(m, s), NEW frame,
           Resumes(m, s[Len(s)], frame), Extends(s[Len(s)], frame),
           NEW t, t = [s EXCEPT ![Len(s)] = frame]
    PROVE  Grows(m, s, t)
<1>1. t \in Seq(Frames)
  BY TopResumes
<1>2. \A p : Past(m, s, p) => Past(m, t, p)
  BY TopResumes
<1>3. \A p : Entered(m, s, p) => Entered(m, t, p)
  BY TopResumes
<1>4. \A k \in DOMAIN s : Resumes(m, s[k], t[k])
  BY TopResumes
<1>5. DOMAIN t = DOMAIN s /\ t[Len(s)] = frame /\ \A k \in DOMAIN s : k # Len(s) => t[k] = s[k]
  BY TopResumes
<1>6. \A k \in DOMAIN s : Extends(s[k], t[k])
  BY <1>5 DEF Extends
<1>7. \A k \in DOMAIN s : s[k] \in Frames
  OBVIOUS
<1>8. QED BY <1>1, <1>2, <1>3, <1>4, <1>5, <1>6, <1>7 DEF Grows

\* The top goes on without passing an instruction.
LEMMA QuietStep ==
    ASSUME NEW m \in Modules, NEW s \in Seq(Frames), Len(s) # 0, Chained(m, s), NEW frame,
           Resumes(m, s[Len(s)], frame), Extends(s[Len(s)], frame), frame.pc = s[Len(s)].pc,
           NEW t, t = [s EXCEPT ![Len(s)] = frame],
           NEW qs, NEW qt, NEW is \in Seq(Expanded), NEW rs, NEW es,
           CodeIInv(m, s, qs, is), RecordsIInv(m, s, qs, is, rs, es),
           InstrsUse(qt, is), QubitsOf(qs) \subseteq QubitsOf(qt)
    PROVE  CodeIInv(m, t, qt, is) /\ RecordsIInv(m, t, qt, is, rs, es)
<1>1. Grows(m, s, t)
  BY TopGrows
<1>2. DOMAIN t = DOMAIN s /\ t[Len(s)] = frame /\ \A k \in DOMAIN s : k # Len(s) => t[k] = s[k]
  BY TopResumes
<1>3. Len(t) = Len(s) /\ Len(s) \in Nat /\ DOMAIN s = 1 .. Len(s) /\ 1 \in DOMAIN s
  BY TopResumes
<1>4. \A k \in DOMAIN s : /\ t[k].pc = s[k].pc /\ t[k].path = s[k].path
                          /\ t[k].start = s[k].start /\ t[k].record = s[k].record
  BY <1>2 DEF Resumes
<1>5. InstrsPlaced(m, t, is)
  BY <1>1, InstrsStayPlaced DEF CodeIInv
<1>6. EntryCopied(m, t, is)
  BY <1>3, <1>4 DEF CodeIInv, EntryCopied
<1>7. FramesStart(t, is)
  BY <1>2, <1>4 DEF RecordsIInv, FramesStart, FrameStarts
<1>8. FramesReserve(t, rs)
  <2>1. \A k \in 2 .. Len(s) : k \in DOMAIN s
    BY <1>3
  <2>2. \A k \in 1 .. Len(s) : t[k].record = s[k].record
    BY <1>3, <1>4, Zenon
  <2>3. FramesReserve(s, rs)
    BY DEF RecordsIInv
  <2>4. t[1].record = 0
    BY <1>3, <2>2, <2>3, Zenon DEF FramesReserve
  <2>5. ASSUME NEW k \in 2 .. Len(t)
        PROVE  /\ t[k].record \in DOMAIN rs /\ rs[t[k].record] = NoValue
               /\ \A j \in 2 .. Len(t) : t[j].record = t[k].record => j = k
    <3>1. k \in 2 .. Len(s) /\ k \in 1 .. Len(s) /\ \A j \in 2 .. Len(s) : j \in 1 .. Len(s)
      BY <1>3
    <3>2. t[k].record = s[k].record /\ \A j \in 2 .. Len(s) : t[j].record = s[j].record
      BY <2>2, <3>1
    <3>3. QED BY <1>3, <2>3, <3>1, <3>2, Zenon DEF FramesReserve
  <2>6. QED BY <2>4, <2>5 DEF FramesReserve
<1>9. Open(t) = Open(s)
  <2>1. \A k \in 2 .. Len(s) : k \in 1 .. Len(s)
    BY <1>3
  <2>2. \A k \in 2 .. Len(s) : t[k].record = s[k].record
    BY <1>3, <1>4, <2>1, Zenon
  <2>3. Open(t) = {t[k].record : k \in 2 .. Len(s)}
    BY <1>3 DEF Open
  <2>4. QED BY <2>2, <2>3 DEF Open
<1>10. RecordsFilled(m, t, rs)
  <2>1. ASSUME NEW c \in DOMAIN rs \ Open(t) PROVE rs[c] \in Filled /\ Past(m, t, rs[c].path)
    <3>1. rs[c] \in Filled /\ Past(m, s, rs[c].path)
      BY <1>9 DEF RecordsIInv, RecordsFilled
    <3>2. rs[c].path \in Seq(OpIds)
      BY <3>1 DEF Filled
    <3>3. QED BY <1>1, <3>1, <3>2 DEF Grows
  <2>2. QED BY <2>1 DEF RecordsFilled
<1>11. RecordsListed(t, is, rs) /\ RecordsDistinct(t, rs)
  BY <1>9 DEF RecordsIInv, RecordsListed, RecordsDistinct
<1>12. RecordsNoted(t, rs, qt, es)
  BY <1>9, ValuesStay DEF RecordsIInv, RecordsNoted
<1>13. QED BY <1>5, <1>6, <1>7, <1>8, <1>10, <1>11, <1>12 DEF CodeIInv, RecordsIInv

\* More values make no use impossible.
LEMMA UsesStay ==
    ASSUME NEW qs \in Seq(Instances), NEW q \in Instances, NEW is, InstrsUse(qs, is)
    PROVE  InstrsUse(Append(qs, q), is)
<1>1. /\ Len(qs) \in Nat /\ DOMAIN qs = 1 .. Len(qs) /\ DOMAIN Append(qs, q) = 1 .. Len(qs) + 1
      /\ \A n \in 1 .. Len(qs) : Append(qs, q)[n] = qs[n]
  BY AppendFacts
<1>2. ASSUME NEW refs, NEW i, Uses(qs, refs, i) PROVE Uses(Append(qs, q), refs, i)
  <2>1. ASSUME NEW r \in DOMAIN refs
        PROVE  \E x \in DOMAIN Append(qs, q) :
                  Append(qs, q)[x].id = refs[r] /\ Append(qs, q)[x].created < i
    <3>1. PICK x \in DOMAIN qs : qs[x].id = refs[r] /\ qs[x].created < i
      BY <1>2 DEF Uses
    <3>2. x \in DOMAIN Append(qs, q) /\ Append(qs, q)[x] = qs[x]
      BY <1>1
    <3>3. QED BY <3>1, <3>2
  <2>2. QED BY <2>1 DEF Uses
<1>3. QED BY <1>2 DEF InstrsUse

\* Every action but one starts from these.
LEMMA TopFacts ==
    ASSUME Typed, Chained(module, stack)
    PROVE  /\ Len(stack) \in Nat /\ Len(stack) \in DOMAIN stack /\ DOMAIN stack = 1 .. Len(stack)
           /\ Top = stack[Len(stack)] /\ Top \in Frames
           /\ Top.prog \in DOMAIN module.programs /\ Program = module.programs[Top.prog]
           /\ Top.path \in Seq(OpIds) /\ Len(Top.path) = Len(stack) - 1
           /\ Top.pc \in 1 .. Len(Code(module, Top.prog)) + 1 /\ Top.pc \in Nat
           /\ Len(Code(module, Top.prog)) \in Nat
           /\ DOMAIN Code(module, Top.prog) = 1 .. Len(Code(module, Top.prog))
           /\ Top.bound \in [DOMAIN Top.bound -> Ids] /\ DOMAIN Top.bound \subseteq Names
           /\ Top.pending \subseteq LocalDefs(Program)
           /\ ~ Finished => Top.pc \in DOMAIN Code(module, Top.prog)
                            /\ Current = Code(module, Top.prog)[Top.pc]
           /\ Finished => Top.pc = Len(Code(module, Top.prog)) + 1
           /\ Len(instrs) \in Nat
<1>1. /\ Len(stack) \in Nat /\ Len(stack) \in DOMAIN stack /\ DOMAIN stack = 1 .. Len(stack)
      /\ Top = stack[Len(stack)] /\ Top \in Frames /\ Len(instrs) \in Nat /\ module \in Modules
  BY DEF Typed, Top
<1>2. /\ Top.prog \in DOMAIN module.programs /\ Top.path \in Seq(OpIds)
      /\ Len(Top.path) = Len(stack) - 1 /\ Top.pc \in 1 .. Len(Code(module, Top.prog)) + 1
  BY <1>1, StackFacts, Zenon DEF Typed
<1>3. /\ Len(Code(module, Top.prog)) \in Nat
      /\ DOMAIN Code(module, Top.prog) = 1 .. Len(Code(module, Top.prog))
  BY <1>1, <1>2, ProgramFacts, Zenon
<1>4. Top.pc \in Nat /\ Top.bound \in Bindings
  BY <1>1 DEF Frames
<1>5. Top.bound \in [DOMAIN Top.bound -> Ids] /\ DOMAIN Top.bound \subseteq Names
  BY <1>4 DEF Bindings
<1>6. Program = module.programs[Top.prog] /\ Program.code = Code(module, Top.prog)
  BY DEF Program, Code
<1>7. Top.pending \subseteq LocalDefs(Program)
  <2>1. FrameFits(module, Top, Len(stack))
    BY <1>1 DEF Chained
  <2>2. QED BY <1>6, <2>1 DEF FrameFits
<1>8. ~ Finished => Top.pc \in DOMAIN Code(module, Top.prog)
                    /\ Current = Code(module, Top.prog)[Top.pc]
  BY <1>2, <1>3, <1>6 DEF Finished, Current
<1>9. Finished => Top.pc = Len(Code(module, Top.prog)) + 1
  BY <1>2, <1>3, <1>6 DEF Finished
<1>10. QED BY <1>1, <1>2, <1>3, <1>4, <1>5, <1>6, <1>7, <1>8, <1>9, Zenon

LEMMA BindFacts ==
    ASSUME NEW frame \in Frames, NEW v \in Names, NEW id \in Ids
    PROVE  LET new == Bind(frame, v, id) IN
           /\ new \in Frames
           /\ new.prog = frame.prog /\ new.path = frame.path /\ new.calls = frame.calls
           /\ new.pc = frame.pc /\ new.pending = frame.pending /\ new.record = frame.record
           /\ new.start = frame.start /\ new.locals = frame.locals
           /\ DOMAIN new.bound = DOMAIN frame.bound \union {v}
           /\ new.bound[v] = id
           /\ \A x \in DOMAIN frame.bound : x # v => new.bound[x] = frame.bound[x]
<1> DEFINE bound == [x \in DOMAIN frame.bound \union {v} |-> IF x = v THEN id ELSE frame.bound[x]]
           new == [frame EXCEPT !.bound = bound]
<1>1. Bind(frame, v, id) = new
  BY DEF Bind, Frames
<1>2. frame.bound \in Bindings
  BY DEF Frames
<1>3. DOMAIN frame.bound \subseteq Names /\ \A x \in DOMAIN frame.bound : frame.bound[x] \in Ids
  BY <1>2 DEF Bindings
<1>4. DOMAIN bound \in SUBSET Names /\ bound \in [DOMAIN bound -> Ids]
  BY <1>3
<1>5. bound \in Bindings
  BY <1>4 DEF Bindings
<1>6. /\ DOMAIN bound = DOMAIN frame.bound \union {v} /\ bound[v] = id
      /\ \A x \in DOMAIN frame.bound : x # v => bound[x] = frame.bound[x]
  OBVIOUS
<1> HIDE DEF bound
<1>7. /\ new \in Frames /\ new.bound = bound
      /\ new.prog = frame.prog /\ new.path = frame.path /\ new.calls = frame.calls
      /\ new.pc = frame.pc /\ new.pending = frame.pending /\ new.record = frame.record
      /\ new.start = frame.start /\ new.locals = frame.locals
  BY <1>5 DEF Frames
<1> HIDE DEF new
<1>8. QED BY <1>1, <1>6, <1>7

-----------------------------------------------------------------------------
(* Binding a value.                                                        *)

ExpansionNow ==
    /\ Typed /\ Chained(module, stack)
    /\ ValuesIInv(module, stack, qubits, Len(instrs), escapes)
    /\ CodeIInv(module, stack, qubits, instrs)
    /\ RecordsIInv(module, stack, qubits, instrs, records, escapes)

\* The activation with one more value to name.
Binds(old, v, id, new) ==
    /\ new \in Frames
    /\ new.prog = old.prog /\ new.path = old.path /\ new.calls = old.calls /\ new.pc = old.pc
    /\ new.record = old.record /\ new.start = old.start
    /\ DOMAIN new.bound = DOMAIN old.bound \union {v}
    /\ new.bound[v] = id /\ \A x \in DOMAIN old.bound : x # v => new.bound[x] = old.bound[x]
    /\ new.pending \subseteq old.pending
    /\ \A d \in old.pending \ new.pending : module.programs[old.prog].defs[d].id = v

\* To bind one more value is to go on.
LEMMA BindsResumes ==
    ASSUME ExpansionNow, NEW v, ~ IsBound(Top, v), NEW id, NEW frame, Binds(Top, v, id, frame),
           NEW t, t = [stack EXCEPT ![Len(stack)] = frame]
    PROVE  /\ Resumes(module, stack[Len(stack)], frame) /\ Extends(stack[Len(stack)], frame)
           /\ Grows(module, stack, t) /\ Chained(module, t) /\ t \in Seq(Frames)
           /\ Len(t) = Len(stack) /\ DOMAIN t = DOMAIN stack
           /\ t[Len(stack)] = frame /\ \A k \in DOMAIN stack : k # Len(stack) => t[k] = stack[k]
<1>1. /\ Top = stack[Len(stack)] /\ Top.pc \in 1 .. Len(Code(module, Top.prog)) + 1
      /\ Top.pc \in Nat
  BY TopFacts, Zenon DEF ExpansionNow
<1>2. Resumes(module, Top, frame)
  BY <1>1 DEF Binds, Resumes
<1>3. Extends(Top, frame)
  BY DEF Binds, Extends, IsBound
<1>4. module \in Modules /\ stack \in Seq(Frames) /\ Len(stack) # 0 /\ Chained(module, stack)
  BY DEF ExpansionNow, Typed
<1>5. Grows(module, stack, t)
  BY <1>1, <1>2, <1>3, <1>4, TopGrows
<1>6. Chained(module, t)
  BY <1>1, <1>2, <1>4, TopResumes
<1>7. t \in Seq(Frames)
  BY <1>1, <1>2, <1>4, TopResumes
<1>8. DOMAIN t = DOMAIN stack /\ t[Len(stack)] = frame
      /\ \A k \in DOMAIN stack : k # Len(stack) => t[k] = stack[k]
  BY <1>1, <1>2, <1>4, TopResumes
<1>9. Len(t) = Len(stack)
  BY <1>1, <1>2, <1>4, TopResumes
<1>10. QED BY <1>1, <1>2, <1>3, <1>5, <1>6, <1>7, <1>8, <1>9

\* No two activations have one path.
LEMMA PathsDiffer ==
    ASSUME ExpansionNow, NEW k \in DOMAIN stack, stack[k].path = Top.path
    PROVE  k = Len(stack)
<1>1. module \in Modules /\ stack \in Seq(Frames) /\ Chained(module, stack)
  BY DEF ExpansionNow, Typed
<1>2. Len(stack[k].path) = k - 1 /\ k \in Nat
  BY <1>1, StackFacts
<1>3. Len(Top.path) = Len(stack) - 1 /\ Len(stack) \in Nat
  BY TopFacts, Zenon DEF ExpansionNow
<1>4. QED BY <1>2, <1>3

LEMMA InstantiateStep ==
    ASSUME ExpansionNow, NEW v \in DefinedIds(Program), ~ IsBound(Top, v),
           NEW ownership \in {"local", "entry_parameter"},
           NEW frame, Binds(Top, v, ExpandedId(Top.path, v), frame),
           NEW t, t = [stack EXCEPT ![Len(stack)] = frame],
           NEW qt, qt = Append(qubits, NewQubit(v, ownership))
    PROVE  /\ t \in Seq(Frames) /\ Len(t) = Len(stack) /\ qt \in Seq(Instances)
           /\ t[Len(stack)] = frame
           /\ Chained(module, t)
           /\ ValuesIInv(module, t, qt, Len(instrs), escapes)
           /\ CodeIInv(module, t, qt, instrs)
           /\ RecordsIInv(module, t, qt, instrs, records, escapes)
<1> DEFINE n == Len(stack)
           new == NewQubit(v, ownership)
           id == ExpandedId(Top.path, v)
<1>1. /\ n \in Nat /\ n \in DOMAIN stack /\ DOMAIN stack = 1 .. n /\ Top = stack[n] /\ Top \in Frames
      /\ Top.prog \in DOMAIN module.programs /\ Program = module.programs[Top.prog]
      /\ Top.path \in Seq(OpIds) /\ Len(instrs) \in Nat /\ Top.pc \in Nat
  BY TopFacts, Zenon DEF ExpansionNow
<1>2. /\ module \in Modules /\ stack \in Seq(Frames) /\ n # 0 /\ Chained(module, stack)
      /\ qubits \in Seq(Instances) /\ instrs \in Seq(Expanded)
  BY DEF ExpansionNow, Typed
<1>3. v \in Names
  BY <1>1, <1>2, DefinitionFacts
<1>4. id \in Ids /\ id[1] = Top.path /\ id[2] = v
  BY <1>1, <1>3 DEF Ids, ExpandedId
<1>5. new \in Instances /\ new.id = id /\ new.created = Len(instrs)
  <2>1. Top.prog \in ProgramNames
    BY <1>1 DEF Frames
  <2>2. QED BY <1>1, <1>4, <2>1 DEF NewQubit, Instances
<1> HIDE DEF new, id
<1>6. /\ qt \in Seq(Instances) /\ Len(qt) = Len(qubits) + 1 /\ Len(qubits) \in Nat
      /\ DOMAIN qubits = 1 .. Len(qubits) /\ DOMAIN qt = 1 .. Len(qubits) + 1
      /\ qt[Len(qubits) + 1] = new /\ \A q \in 1 .. Len(qubits) : qt[q] = qubits[q]
  BY <1>2, <1>5, AppendFacts DEF new
<1>7. QubitsOf(qt) = QubitsOf(qubits) \union {id}
  BY <1>2, <1>5, AppendQubits DEF new
<1>8. Binds(Top, v, id, frame)
  BY DEF id
<1>9. /\ Resumes(module, stack[n], frame) /\ Extends(stack[n], frame)
      /\ Grows(module, stack, t) /\ Chained(module, t) /\ t \in Seq(Frames)
      /\ Len(t) = n /\ DOMAIN t = DOMAIN stack
      /\ t[n] = frame /\ \A k \in DOMAIN stack : k # n => t[k] = stack[k]
  BY <1>8, BindsResumes
<1>10. \A k \in DOMAIN t : t[k].path = stack[k].path
  BY <1>1, <1>8, <1>9 DEF Binds
<1>11. QubitsPlaced(module, t, qt)
  <2>1. QubitsPlaced(module, t, qubits)
    BY <1>2, <1>9, QubitsStayPlaced DEF ExpansionNow, ValuesIInv
  <2>2. Entered(module, t, id[1])
    <3>1. n \in DOMAIN t /\ t[n].path = Top.path
      BY <1>1, <1>9, <1>10
    <3>2. QED BY <1>4, <3>1 DEF Entered
  <2>3. ASSUME NEW k \in DOMAIN t, id[1] = t[k].path PROVE id[2] \in DOMAIN t[k].bound
    <3>1. k = n
      BY <1>4, <1>9, <1>10, <2>3, PathsDiffer
    <3>2. QED BY <1>4, <1>8, <1>9, <3>1 DEF Binds
  <2>4. ASSUME NEW q \in DOMAIN qt
        PROVE  /\ Entered(module, t, qt[q].id[1])
               /\ \A k \in DOMAIN t : qt[q].id[1] = t[k].path => qt[q].id[2] \in DOMAIN t[k].bound
    <3>1. CASE q = Len(qubits) + 1
      BY <1>5, <1>6, <2>2, <2>3, <3>1
    <3>2. CASE q # Len(qubits) + 1
      <4>1. q \in DOMAIN qubits /\ qt[q] = qubits[q]
        BY <1>6, <3>2
      <4>2. QED BY <2>1, <4>1 DEF QubitsPlaced
    <3>3. QED BY <3>1, <3>2
  <2>5. QED BY <2>4 DEF QubitsPlaced
<1>12. QubitsDistinct(qt)
  <2>1. ASSUME NEW q \in DOMAIN qubits PROVE qubits[q].id # id
    <3>1. QubitsPlaced(module, stack, qubits)
      BY DEF ExpansionNow, ValuesIInv
    <3>2. qubits[q].id = id => v \in DOMAIN Top.bound
      BY <1>1, <1>4, <3>1 DEF QubitsPlaced
    <3>3. QED BY <3>2 DEF IsBound
  <2>2. QubitsDistinct(qubits)
    BY DEF ExpansionNow, ValuesIInv
  <2>3. ASSUME NEW q \in DOMAIN qt, NEW r \in DOMAIN qt, qt[q].id = qt[r].id PROVE q = r
    <3>1. CASE q \in DOMAIN qubits /\ r \in DOMAIN qubits
      <4>1. qt[q] = qubits[q] /\ qt[r] = qubits[r]
        BY <1>6, <3>1
      <4>2. QED BY <2>2, <2>3, <3>1, <4>1 DEF QubitsDistinct
    <3>2. CASE q \notin DOMAIN qubits /\ r \in DOMAIN qubits
      <4>1. qt[q] = new /\ qt[r] = qubits[r]
        BY <1>6, <3>2
      <4>2. QED BY <1>5, <2>1, <2>3, <3>2, <4>1
    <3>3. CASE q \in DOMAIN qubits /\ r \notin DOMAIN qubits
      <4>1. qt[r] = new /\ qt[q] = qubits[q]
        BY <1>6, <3>3
      <4>2. QED BY <1>5, <2>1, <2>3, <3>3, <4>1
    <3>4. CASE q \notin DOMAIN qubits /\ r \notin DOMAIN qubits
      BY <1>6, <3>4
    <3>5. QED BY <3>1, <3>2, <3>3, <3>4
  <2>4. QED BY <2>3 DEF QubitsDistinct
<1>13. QubitsInTime(qt, Len(instrs))
  <2>1. \A q \in DOMAIN qubits : qubits[q].created <= Len(instrs)
    BY DEF ExpansionNow, ValuesIInv, QubitsInTime
  <2>2. ASSUME NEW q \in DOMAIN qt PROVE qt[q].created <= Len(instrs)
    <3>1. CASE q = Len(qubits) + 1
      BY <1>1, <1>5, <1>6, <3>1
    <3>2. CASE q # Len(qubits) + 1
      BY <1>6, <2>1, <3>2
    <3>3. QED BY <3>1, <3>2
  <2>3. QED BY <2>2 DEF QubitsInTime
<1>14. FramesBound(module, t, qt, escapes)
  <2>1. \A k \in DOMAIN stack : FrameBound(module, stack[k], k, qubits, escapes)
    BY DEF ExpansionNow, ValuesIInv, FramesBound
  <2>2. QubitsOf(qubits) \subseteq QubitsOf(qt) /\ ToSet(escapes) \subseteq ToSet(escapes)
    BY <1>7
  <2>3. \A k \in DOMAIN stack : FrameBound(module, stack[k], k, qt, escapes)
    BY <2>1, <2>2, ValuesStay
  <2>4. FrameBound(module, Top, n, qt, escapes)
    BY <1>1, <2>3
  <2>5. NamesValues(frame, qt, escapes)
    <3>1. NamesValues(Top, qt, escapes)
      BY <2>4 DEF FrameBound
    <3>2. Begins(id[1], frame.path)
      BY <1>1, <1>4, <1>8 DEF Begins, Binds
    <3>3. ASSUME NEW x \in DOMAIN frame.bound
          PROVE  /\ frame.bound[x] \in QubitsOf(qt)
                 /\ Begins(frame.bound[x][1], frame.path) \/ frame.bound[x] \in ToSet(escapes)
      <4>1. CASE x = v
        <5>1. frame.bound[x] = id
          BY <1>8, <4>1 DEF Binds
        <5>2. QED BY <1>7, <3>2, <5>1
      <4>2. CASE x # v
        <5>1. x \in DOMAIN Top.bound /\ frame.bound[x] = Top.bound[x] /\ frame.path = Top.path
          BY <1>8, <4>2 DEF Binds
        <5>2. QED BY <3>1, <5>1 DEF NamesValues
      <4>3. QED BY <4>1, <4>2
    <3>4. QED BY <3>3 DEF NamesValues
  <2>6. NamesKnown(module, frame)
    <3>1. NamesKnown(module, Top)
      BY <2>4 DEF FrameBound
    <3>2. v \in KnownBefore(Program, Top.pc)
      BY DEF KnownBefore
    <3>3. QED BY <1>1, <1>8, <3>1, <3>2 DEF NamesKnown, Binds
  <2>7. NamesPassed(module, frame, n)
    <3>1. NamesPassed(module, Top, n)
      BY <2>4 DEF FrameBound
    <3>2. frame.prog = Top.prog /\ frame.pc = Top.pc /\ DOMAIN Top.bound \subseteq DOMAIN frame.bound
          /\ v \in DOMAIN frame.bound
      BY <1>8 DEF Binds
    <3>3. \A d \in LocalDefs(Program) \ frame.pending : Program.defs[d].id \in DOMAIN frame.bound
      <4>1. ASSUME NEW d \in LocalDefs(Program) \ frame.pending
            PROVE  Program.defs[d].id \in DOMAIN frame.bound
        <5>1. CASE d \in Top.pending
          <6>1. Program.defs[d].id = v
            BY <1>1, <1>8, <5>1 DEF Binds
          <6>2. QED BY <3>2, <6>1
        <5>2. CASE d \notin Top.pending
          <6>1. Program.defs[d].id \in DOMAIN Top.bound
            BY <1>1, <3>1, <5>2 DEF NamesPassed
          <6>2. QED BY <3>2, <6>1
        <5>3. QED BY <5>1, <5>2
      <4>2. QED BY <4>1
    <3>4. QED BY <1>1, <3>1, <3>2, <3>3 DEF NamesPassed
  <2>8. FrameBound(module, frame, n, qt, escapes)
    BY <2>5, <2>6, <2>7 DEF FrameBound
  <2>9. QED BY <1>9, <2>3, <2>8 DEF FramesBound
<1>15. ValuesIInv(module, t, qt, Len(instrs), escapes)
  BY <1>11, <1>12, <1>13, <1>14 DEF ValuesIInv
<1>16. CodeIInv(module, t, qt, instrs) /\ RecordsIInv(module, t, qt, instrs, records, escapes)
  <2>1. InstrsUse(qt, instrs)
    <3>1. InstrsUse(qubits, instrs)
      BY DEF ExpansionNow, CodeIInv
    <3>2. QED BY <1>2, <1>5, <3>1, UsesStay DEF new
  <2>2. QubitsOf(qubits) \subseteq QubitsOf(qt)
    BY <1>7
  <2>3. frame.pc = stack[n].pc
    BY <1>1, <1>8 DEF Binds
  <2>4. CodeIInv(module, stack, qubits, instrs)
        /\ RecordsIInv(module, stack, qubits, instrs, records, escapes)
    BY DEF ExpansionNow
  <2>5. CodeIInv(module, t, qt, instrs)
    BY <1>2, <1>9, <2>1, <2>2, <2>3, <2>4, QuietStep
  <2>6. RecordsIInv(module, t, qt, instrs, records, escapes)
    BY <1>2, <1>9, <2>1, <2>2, <2>3, <2>4, QuietStep
  <2>7. QED BY <2>5, <2>6
<1>17. QED BY <1>6, <1>9, <1>15, <1>16

-----------------------------------------------------------------------------
(* A program without calls; the invariant as a whole.                      *)

\* The entry program without calls: its own names, and its own instructions.
OwnNames(frame) == \A v \in DOMAIN frame.bound : frame.bound[v] = <<<<>>, v>>

CopiedInPlace(instr, source) ==
    /\ CopyOf(instr, source) /\ instr.path = <<>> /\ instr.calls = <<>>
    /\ \A r \in DOMAIN instr.refs : instr.refs[r] = <<<<>>, source.refs[r]>>

Lone(m, s, is) ==
    CallInstrs(m.programs[m.entry]) = {} =>
        /\ Len(s) = 1 /\ OwnNames(s[1]) /\ Len(is) = s[1].pc - 1
        /\ \A i \in DOMAIN is : CopiedInPlace(is[i], Code(m, m.entry)[i])

ExpansionDone ==
    phase # "expanding" =>
        /\ Len(stack) = 1 /\ Finished /\ Top.pending = {} /\ ParametersBound
        /\ returned = [leaf \in DOMAIN Program.leaves |-> ResolveLeaf(Top, Program.leaves[leaf])]
        /\ (phase = "expanded") <=> ExpandedProgramValid(returned)

ExpansionIInv == ExpansionNow /\ ExpansionDone /\ Lone(module, stack, instrs)

-----------------------------------------------------------------------------

LEMMA LoneBinds ==
    ASSUME ExpansionNow, Lone(module, stack, instrs), NEW v, ~ IsBound(Top, v),
           NEW frame, Binds(Top, v, ExpandedId(Top.path, v), frame),
           NEW t, t = [stack EXCEPT ![Len(stack)] = frame]
    PROVE  Lone(module, t, instrs)
<1> SUFFICES ASSUME CallInstrs(module.programs[module.entry]) = {}
             PROVE  /\ Len(t) = 1 /\ OwnNames(t[1]) /\ Len(instrs) = t[1].pc - 1
                    /\ \A i \in DOMAIN instrs : CopiedInPlace(instrs[i], Code(module, module.entry)[i])
  BY DEF Lone
<1>1. /\ Len(stack) = 1 /\ OwnNames(stack[1]) /\ Len(instrs) = stack[1].pc - 1
      /\ \A i \in DOMAIN instrs : CopiedInPlace(instrs[i], Code(module, module.entry)[i])
  BY DEF Lone
<1>2. Len(t) = Len(stack) /\ t[Len(stack)] = frame
  BY BindsResumes
<1>3. Len(Top.path) = 0 /\ Top = stack[1]
  BY <1>1, TopFacts DEF ExpansionNow
<1>4. Top.path = <<>>
  <2>1. Top.path \in Seq(OpIds)
    BY TopFacts, Zenon DEF ExpansionNow
  <2>2. QED BY <1>3, <2>1
<1>5. OwnNames(frame)
  BY <1>1, <1>3, <1>4 DEF OwnNames, Binds, ExpandedId
<1>6. frame.pc = Top.pc
  BY DEF Binds
<1>7. QED BY <1>1, <1>2, <1>3, <1>5, <1>6

\* A value is instantiated, by the activation for itself or as an entry parameter.
LEMMA InstantiateKeeps ==
    ASSUME ExpansionIInv, phase = "expanding", NEW v \in DefinedIds(Program), ~ IsBound(Top, v),
           NEW ownership \in {"local", "entry_parameter"},
           NEW frame, Binds(Top, v, ExpandedId(Top.path, v), frame),
           stack' = WithTop(frame), qubits' = Append(qubits, NewQubit(v, ownership)),
           UNCHANGED <<module, instrs, records, escapes, returned, phase>>
    PROVE  ExpansionIInv'
<1> DEFINE t == [stack EXCEPT ![Len(stack)] = frame]
           qt == Append(qubits, NewQubit(v, ownership))
<1>0. ExpansionNow /\ Lone(module, stack, instrs)
  BY DEF ExpansionIInv
<1>1. /\ t \in Seq(Frames) /\ Len(t) = Len(stack) /\ qt \in Seq(Instances)
      /\ Chained(module, t)
      /\ ValuesIInv(module, t, qt, Len(instrs), escapes)
      /\ CodeIInv(module, t, qt, instrs)
      /\ RecordsIInv(module, t, qt, instrs, records, escapes)
  <2> HIDE DEF t, qt
  <2>0. t = [stack EXCEPT ![Len(stack)] = frame] /\ qt = Append(qubits, NewQubit(v, ownership))
    BY DEF t, qt
  <2>1. t \in Seq(Frames) /\ Len(t) = Len(stack) /\ qt \in Seq(Instances)
    BY <1>0, <2>0, InstantiateStep
  <2>2. Chained(module, t)
    BY <1>0, <2>0, InstantiateStep
  <2>3. ValuesIInv(module, t, qt, Len(instrs), escapes)
    BY <1>0, <2>0, InstantiateStep
  <2>4. CodeIInv(module, t, qt, instrs)
    BY <1>0, <2>0, InstantiateStep
  <2>5. RecordsIInv(module, t, qt, instrs, records, escapes)
    BY <1>0, <2>0, InstantiateStep
  <2>6. QED BY <2>1, <2>2, <2>3, <2>4, <2>5
<1>2. Lone(module, t, instrs)
  BY <1>0, LoneBinds
<1>3. stack' = t /\ qubits' = qt
  BY DEF WithTop
<1> HIDE DEF t, qt
<1>4. Typed'
  <2>1. /\ module \in Modules /\ Len(stack) # 0 /\ instrs \in Seq(Expanded)
        /\ records \in Seq(Filled \union {NoValue}) /\ escapes \in Seq(Ids)
        /\ phase \in {"expanding", "expanded", "invalid"}
    BY <1>0 DEF ExpansionNow, Typed
  <2>2. QED BY <1>1, <1>3, <2>1 DEF Typed
<1>5. ExpansionNow'
  BY <1>1, <1>3, <1>4 DEF ExpansionNow
<1>6. ExpansionDone'
  BY DEF ExpansionDone
<1>7. QED BY <1>2, <1>3, <1>5, <1>6 DEF ExpansionIInv

\* InstantiateParameter.
LEMMA ParameterKeeps == ASSUME ExpansionIInv, InstantiateParameter PROVE ExpansionIInv'
<1>1. PICK k \in DOMAIN Program.params :
        LET v == Program.params[k]
        IN  /\ ~ IsBound(Top, v)
            /\ qubits' = Append(qubits, NewQubit(v, "entry_parameter"))
            /\ stack' = WithTop(Bind(Top, v, ExpandedId(Top.path, v)))
  BY DEF InstantiateParameter
<1>2. phase = "expanding" /\ UNCHANGED <<module, instrs, records, escapes, returned, phase>>
  BY DEF InstantiateParameter
<1> DEFINE v == Program.params[k]
           frame == Bind(Top, v, ExpandedId(Top.path, v))
<1>3. /\ Top \in Frames /\ Top.prog \in DOMAIN module.programs /\ Top.path \in Seq(OpIds)
      /\ Program = module.programs[Top.prog] /\ module \in Modules
  BY TopFacts DEF ExpansionIInv, ExpansionNow, Typed
<1>4. v \in DefinedIds(Program) /\ v \in Names
  BY <1>3, DefinitionFacts
<1>5. ExpandedId(Top.path, v) \in Ids
  BY <1>3, <1>4 DEF Ids, ExpandedId
<1>6. Binds(Top, v, ExpandedId(Top.path, v), frame)
  <2> DEFINE id == ExpandedId(Top.path, v)
  <2> HIDE DEF id, v
  <2>1. /\ frame \in Frames
        /\ frame.prog = Top.prog /\ frame.path = Top.path /\ frame.calls = Top.calls
        /\ frame.pc = Top.pc /\ frame.pending = Top.pending /\ frame.record = Top.record
        /\ frame.start = Top.start
        /\ DOMAIN frame.bound = DOMAIN Top.bound \union {v}
        /\ frame.bound[v] = id
        /\ \A x \in DOMAIN Top.bound : x # v => frame.bound[x] = Top.bound[x]
    BY <1>3, <1>4, <1>5, BindFacts DEF id
  <2> HIDE DEF frame
  <2>2. QED BY <2>1 DEF Binds, id
<1> HIDE DEF frame
<1>7. stack' = WithTop(frame) /\ qubits' = Append(qubits, NewQubit(v, "entry_parameter"))
  BY <1>1 DEF frame
<1>8. ~ IsBound(Top, v)
  BY <1>1
<1> HIDE DEF v
<1>9. "entry_parameter" \in {"local", "entry_parameter"}
  OBVIOUS
<1>10. QED BY <1>2, <1>4, <1>6, <1>7, <1>8, <1>9, InstantiateKeeps

LEMMA LocalKeeps ==
    ASSUME ExpansionIInv, phase = "expanding", NEW d \in DOMAIN Program.defs,
           ~ IsBound(Top, Program.defs[d].id), NEW pending, pending \subseteq Top.pending,
           \A e \in Top.pending \ pending : e = d, InstantiateLocal(d, pending)
    PROVE  ExpansionIInv'
<1> DEFINE v == Program.defs[d].id
           id == ExpandedId(Top.path, v)
           bound == Bind(Top, v, id)
           frame == [WithLocal(Top, v) EXCEPT !.pending = pending]
<1>1. /\ UNCHANGED <<module, instrs, records, escapes, returned, phase>>
      /\ qubits' = Append(qubits, NewQubit(v, "local")) /\ stack' = WithTop(frame)
  BY DEF InstantiateLocal
<1>2. /\ Top \in Frames /\ Top.prog \in DOMAIN module.programs /\ Top.path \in Seq(OpIds)
      /\ Program = module.programs[Top.prog] /\ module \in Modules
      /\ Top.pending \subseteq LocalDefs(Program)
  BY TopFacts, Zenon DEF ExpansionIInv, ExpansionNow, Typed
<1>3. v \in DefinedIds(Program) /\ v \in Names
  <2>1. v \in DefinedIds(Program)
    BY DEF DefinedIds
  <2>2. QED BY <1>2, <2>1, DefinitionFacts
<1>4. id \in Ids
  BY <1>2, <1>3 DEF Ids, ExpandedId
<1>5. /\ bound \in Frames
      /\ bound.prog = Top.prog /\ bound.path = Top.path /\ bound.calls = Top.calls
      /\ bound.pc = Top.pc /\ bound.pending = Top.pending /\ bound.record = Top.record
      /\ bound.start = Top.start
      /\ DOMAIN bound.bound = DOMAIN Top.bound \union {v}
      /\ bound.bound[v] = id
      /\ \A x \in DOMAIN Top.bound : x # v => bound.bound[x] = Top.bound[x]
  <2> HIDE DEF v, id
  <2>1. QED BY <1>2, <1>3, <1>4, BindFacts
<1>6. /\ frame \in Frames
      /\ frame.prog = bound.prog /\ frame.path = bound.path /\ frame.calls = bound.calls
      /\ frame.pc = bound.pc /\ frame.pending = pending /\ frame.record = bound.record
      /\ frame.start = bound.start /\ frame.bound = bound.bound
  <2> HIDE DEF v
  <2> DEFINE locals == IF Top.path = <<>> THEN bound.locals ELSE Append(bound.locals, id)
  <2>1. WithLocal(Top, v) = [bound EXCEPT !.locals = locals]
    <3>1. WithLocal(Top, v) = [bound EXCEPT !.locals = IF Top.path = <<>> THEN @ ELSE Append(@, id)]
      BY DEF WithLocal
    <3> HIDE DEF bound, id
    <3>2. QED BY <1>5, <3>1 DEF Frames
  <2>2. bound.locals \in Seq(Ids)
    <3> HIDE DEF bound, id
    <3>1. QED BY <1>5 DEF Frames
  <2>3. locals \in Seq(Ids)
    <3> HIDE DEF bound, id
    <3>1. QED BY <1>4, <2>2
  <2>4. Top.pending \in SUBSET Nat /\ pending \in SUBSET Nat
    <3>1. Top.pending \in SUBSET Nat
      BY <1>2 DEF Frames
    <3>2. QED BY <3>1
  <2>5. frame = [[bound EXCEPT !.locals = locals] EXCEPT !.pending = pending]
    BY <2>1
  <2> HIDE DEF bound, locals, frame
  <2>6. QED BY <1>5, <2>3, <2>4, <2>5 DEF Frames
<1>7. \A e \in Top.pending \ pending : Program.defs[e].id = v
  OBVIOUS
<1>8. Binds(Top, v, id, frame)
  <2> HIDE DEF frame, bound, v, id
  <2>1. QED BY <1>2, <1>5, <1>6, <1>7 DEF Binds
<1>9. ~ IsBound(Top, v) /\ "local" \in {"local", "entry_parameter"}
  OBVIOUS
<1> HIDE DEF frame, bound, v
<1>10. QED BY <1>1, <1>3, <1>8, <1>9, InstantiateKeeps DEF id

\* InstantiatePending.
LEMMA PendingKeeps == ASSUME ExpansionIInv, InstantiatePending PROVE ExpansionIInv'
<1>1. PICK d \in DOMAIN Program.defs :
        ~ IsBound(Top, Program.defs[d].id) /\ InstantiateLocal(d, Top.pending \ {d})
  BY DEF InstantiatePending
<1>2. phase = "expanding"
  BY DEF InstantiatePending, Running
<1>3. Top.pending \ {d} \subseteq Top.pending
      /\ \A e \in Top.pending \ (Top.pending \ {d}) : e = d
  OBVIOUS
<1>4. QED BY <1>1, <1>2, <1>3, LocalKeeps

\* InstantiateOnDemand.
LEMMA OnDemandKeeps == ASSUME ExpansionIInv, InstantiateOnDemand PROVE ExpansionIInv'
<1>1. PICK r \in DOMAIN Current.refs : \E d \in DOMAIN Program.defs :
          /\ ~ IsBound(Top, Current.refs[r]) /\ Program.defs[d].id = Current.refs[r]
          /\ InstantiateLocal(d, Top.pending)
  BY DEF InstantiateOnDemand
<1>2. PICK d \in DOMAIN Program.defs :
          ~ IsBound(Top, Program.defs[d].id) /\ InstantiateLocal(d, Top.pending)
  BY <1>1
<1>3. phase = "expanding"
  BY DEF InstantiateOnDemand, Running
<1>4. Top.pending \subseteq Top.pending /\ \A e \in Top.pending \ Top.pending : e = d
  OBVIOUS
<1>5. QED BY <1>2, <1>3, <1>4, LocalKeeps

\* SkipPending.
LEMMA SkipKeeps == ASSUME ExpansionIInv, SkipPending PROVE ExpansionIInv'
<1>1. PICK d \in DOMAIN Program.defs :
        /\ IsBound(Top, Program.defs[d].id)
        /\ stack' = WithTop([Top EXCEPT !.pending = @ \ {d}])
  BY Zenon DEF SkipPending
<1>2. /\ phase = "expanding"
      /\ UNCHANGED <<module, qubits, instrs, records, escapes, returned, phase>>
  BY DEF SkipPending, Running
<1>3. ExpansionNow /\ Lone(module, stack, instrs)
  BY DEF ExpansionIInv
<1>4. /\ module \in Modules /\ stack \in Seq(Frames) /\ Len(stack) # 0 /\ Chained(module, stack)
      /\ qubits \in Seq(Instances) /\ instrs \in Seq(Expanded)
  BY <1>3 DEF ExpansionNow, Typed
<1>5. /\ Top = stack[Len(stack)] /\ Top \in Frames /\ Program = module.programs[Top.prog]
      /\ Top.pc \in 1 .. Len(Code(module, Top.prog)) + 1 /\ Top.pc \in Nat
      /\ Len(stack) \in DOMAIN stack /\ DOMAIN stack = 1 .. Len(stack)
  BY <1>3, TopFacts, Zenon DEF ExpansionNow
<1> DEFINE frame == [Top EXCEPT !.pending = Top.pending \ {d}]
           t == [stack EXCEPT ![Len(stack)] = frame]
<1>6. /\ frame \in Frames /\ frame.prog = Top.prog /\ frame.path = Top.path
      /\ frame.calls = Top.calls /\ frame.pc = Top.pc /\ frame.record = Top.record
      /\ frame.start = Top.start /\ frame.bound = Top.bound /\ frame.pending = Top.pending \ {d}
  <2>1. Top.pending \ {d} \in SUBSET Nat
    BY <1>5 DEF Frames
  <2>2. QED BY <1>5, <2>1 DEF Frames
<1>7. stack' = t
  BY <1>1, <1>5 DEF WithTop, Frames
<1> HIDE DEF frame
<1>8. Resumes(module, stack[Len(stack)], frame) /\ Extends(stack[Len(stack)], frame)
      /\ frame.pc = stack[Len(stack)].pc
  BY <1>5, <1>6 DEF Resumes, Extends
<1>9. t = [stack EXCEPT ![Len(stack)] = frame]
  OBVIOUS
<1> HIDE DEF t
<1>10. /\ t \in Seq(Frames) /\ Chained(module, t)
  <2>1. t \in Seq(Frames)
    BY <1>4, <1>8, <1>9, TopResumes
  <2>2. Chained(module, t)
    BY <1>4, <1>8, <1>9, TopResumes
  <2>3. QED BY <2>1, <2>2
<1>11. /\ DOMAIN t = DOMAIN stack /\ t[Len(stack)] = frame
       /\ \A k \in DOMAIN stack : k # Len(stack) => t[k] = stack[k]
  BY <1>4, <1>8, <1>9, TopResumes
<1>12. Len(t) = Len(stack)
  BY <1>4, <1>8, <1>9, TopResumes
<1>13. Grows(module, stack, t)
  BY <1>4, <1>8, <1>9, TopGrows
<1>14. ValuesIInv(module, t, qubits, Len(instrs), escapes)
  <2>1. QubitsPlaced(module, t, qubits)
    BY <1>3, <1>4, <1>13, QubitsStayPlaced DEF ExpansionNow, ValuesIInv
  <2>2. \A k \in DOMAIN stack : FrameBound(module, stack[k], k, qubits, escapes)
    BY <1>3 DEF ExpansionNow, ValuesIInv, FramesBound
  <2>3. FrameBound(module, frame, Len(stack), qubits, escapes)
    <3>1. FrameBound(module, Top, Len(stack), qubits, escapes)
      BY <1>5, <2>2
    <3>2. NamesValues(frame, qubits, escapes)
      BY <1>6, <3>1 DEF FrameBound, NamesValues
    <3>3. NamesKnown(module, frame)
      BY <1>6, <3>1 DEF FrameBound, NamesKnown
    <3>4. NamesPassed(module, frame, Len(stack))
      <4>1. NamesPassed(module, Top, Len(stack))
        BY <3>1 DEF FrameBound
      <4>2. \A e \in LocalDefs(Program) \ frame.pending : Program.defs[e].id \in DOMAIN frame.bound
        BY <1>1, <1>5, <1>6, <4>1, Zenon DEF NamesPassed, IsBound
      <4>3. QED BY <1>5, <1>6, <4>1, <4>2 DEF NamesPassed
    <3>5. QED BY <3>2, <3>3, <3>4 DEF FrameBound
  <2>4. FramesBound(module, t, qubits, escapes)
    BY <1>11, <2>2, <2>3 DEF FramesBound
  <2>5. QED BY <1>3, <2>1, <2>4 DEF ExpansionNow, ValuesIInv
<1>15. CodeIInv(module, t, qubits, instrs) /\ RecordsIInv(module, t, qubits, instrs, records, escapes)
  <2>1. CodeIInv(module, stack, qubits, instrs)
        /\ RecordsIInv(module, stack, qubits, instrs, records, escapes)
    BY <1>3 DEF ExpansionNow
  <2>2. InstrsUse(qubits, instrs) /\ QubitsOf(qubits) \subseteq QubitsOf(qubits)
    BY <2>1 DEF CodeIInv
  <2>3. CodeIInv(module, t, qubits, instrs)
    BY <1>4, <1>8, <1>9, <2>1, <2>2, QuietStep
  <2>4. RecordsIInv(module, t, qubits, instrs, records, escapes)
    BY <1>4, <1>8, <1>9, <2>1, <2>2, QuietStep
  <2>5. QED BY <2>3, <2>4
<1>16. Lone(module, t, instrs)
  <2>1. Len(stack) = 1 => t[1] = frame
    BY <1>11
  <2>2. Len(stack) = 1 => t[1].bound = stack[1].bound /\ t[1].pc = stack[1].pc
    BY <1>5, <1>6, <2>1
  <2>3. QED BY <1>3, <1>12, <2>2 DEF Lone, OwnNames
<1>17. Typed'
  <2>1. /\ records \in Seq(Filled \union {NoValue}) /\ escapes \in Seq(Ids)
        /\ phase \in {"expanding", "expanded", "invalid"}
    BY <1>3 DEF ExpansionNow, Typed
  <2>2. QED BY <1>2, <1>4, <1>7, <1>10, <1>12, <2>1 DEF Typed
<1>18. ExpansionNow'
  BY <1>2, <1>7, <1>10, <1>14, <1>15, <1>17 DEF ExpansionNow
<1>19. ExpansionDone'
  BY <1>2 DEF ExpansionDone
<1>20. QED BY <1>2, <1>7, <1>16, <1>18, <1>19 DEF ExpansionIInv

-----------------------------------------------------------------------------
(* Instantiating, and passing a definition over.                           *)

LEMMA SameReserve ==
    ASSUME NEW s, NEW t, Len(t) = Len(s), Len(s) \in Nat, Len(s) # 0,
           \A k \in 1 .. Len(s) : t[k].record = s[k].record
    PROVE  Open(t) = Open(s) /\ \A rs : FramesReserve(s, rs) => FramesReserve(t, rs)
<1>1. \A k \in 2 .. Len(s) : k \in 1 .. Len(s)
  OBVIOUS
<1>2. 1 \in 1 .. Len(s)
  OBVIOUS
<1>3. \A k \in 2 .. Len(s) : t[k].record = s[k].record
  BY <1>1
<1>4. Open(t) = Open(s)
  <2>1. Open(t) = {t[k].record : k \in 2 .. Len(s)}
    BY DEF Open
  <2>2. QED BY <1>3, <2>1 DEF Open
<1>5. ASSUME NEW rs, FramesReserve(s, rs) PROVE FramesReserve(t, rs)
  <2>1. t[1].record = 0
    BY <1>2, <1>5 DEF FramesReserve
  <2>2. ASSUME NEW k \in 2 .. Len(t)
        PROVE  /\ t[k].record \in DOMAIN rs /\ rs[t[k].record] = NoValue
               /\ \A j \in 2 .. Len(t) : t[j].record = t[k].record => j = k
    <3>1. k \in 2 .. Len(s) /\ t[k].record = s[k].record
      BY <1>3
    <3>2. /\ s[k].record \in DOMAIN rs /\ rs[s[k].record] = NoValue
          /\ \A j \in 2 .. Len(s) : s[j].record = s[k].record => j = k
      BY <1>5, <3>1 DEF FramesReserve
    <3>3. QED BY <1>3, <3>1, <3>2
  <2>3. QED BY <2>1, <2>2 DEF FramesReserve
<1>6. QED BY <1>4, <1>5

\* The later instruction knows what the earlier one knew.
LEMMA KnownGrows ==
    ASSUME NEW m \in Modules, NEW p \in DOMAIN m.programs, NEW i \in Nat
    PROVE  /\ KnownBefore(m.programs[p], i) \subseteq KnownBefore(m.programs[p], i + 1)
           /\ i \in DOMAIN Code(m, p) /\ Code(m, p)[i].kind = "call" /\ Code(m, p)[i].result # NoValue
                => Code(m, p)[i].result \in KnownBefore(m.programs[p], i + 1)
<1> DEFINE program == m.programs[p]
           Passed(x) == {c \in CallInstrs(program) : c < x /\ program.code[c].result # NoValue}
<1>1. Passed(i) \subseteq Passed(i + 1)
  <2>1. \A c \in CallInstrs(program) : c \in Nat
    BY ProgramFacts DEF CallInstrs, Code
  <2>2. \A c \in Nat : c < i => c < i + 1
    OBVIOUS
  <2>3. QED BY <2>1, <2>2
<1>2. \A x : KnownBefore(program, x)
                = DefinedIds(program) \union {program.code[j].result : j \in Passed(x)}
  BY DEF KnownBefore
<1>3. ASSUME i \in DOMAIN Code(m, p), Code(m, p)[i].kind = "call", Code(m, p)[i].result # NoValue
      PROVE  i \in Passed(i + 1) /\ Code(m, p)[i].result = program.code[i].result
  <2>1. i < i + 1
    OBVIOUS
  <2>2. QED BY <1>3, <2>1 DEF CallInstrs, Code
<1>4. QED
  <2> HIDE DEF Passed
  <2>1. QED BY <1>1, <1>2, <1>3

\* The paths of the activations below begin the top's.
LEMMA RunningBelow ==
    ASSUME NEW m \in Modules, NEW s \in Seq(Frames), Chained(m, s), NEW j \in DOMAIN s,
           NEW k \in DOMAIN s, j <= k
    PROVE  Begins(s[j].path, s[k].path)
<1>1. /\ j \in Nat /\ k \in Nat /\ Len(s[j].path) = j - 1 /\ Len(s[k].path) = k - 1
      /\ \A n \in 1 .. j - 1 : s[j].path[n] = Code(m, s[n].prog)[s[n].pc].op
      /\ \A n \in 1 .. k - 1 : s[k].path[n] = Code(m, s[n].prog)[s[n].pc].op
  BY StackFacts
<1>2. \A n \in 1 .. j - 1 : n \in 1 .. k - 1
  BY <1>1
<1>3. QED BY <1>1, <1>2 DEF Begins

\* An activation's call stack leads to it.
LEMMA FrameCalled ==
    ASSUME NEW m \in Modules, NEW s \in Seq(Frames), Len(s) # 0, Chained(m, s), NEW k \in DOMAIN s
    PROVE  /\ Len(s[k].calls) = Len(s[k].path)
           /\ \A n \in 1 .. Len(s[k].path) : s[k].path[n] = s[k].calls[n].op
           /\ Leads(m, s[k].calls)
           /\ Host(m, s[k].calls, Len(s[k].calls)) = s[k].prog
<1> DEFINE calls == s[k].calls
<1>1. k \in Nat /\ k >= 1 /\ Len(s[k].path) = k - 1 /\ DOMAIN s = 1 .. Len(s) /\ Len(s) \in Nat
  BY StackFacts
<1>2. Len(calls) = k - 1 /\ calls \in Seq(CallSteps) /\ DOMAIN calls = 1 .. k - 1
  <2>1. s[k] \in Frames /\ FrameFits(m, s[k], k)
    BY DEF Chained
  <2>2. calls \in Seq(CallSteps) /\ Len(calls) = k - 1
    BY <2>1 DEF Frames, FrameFits
  <2>3. QED BY <2>2
<1>3. ASSUME NEW n \in 1 .. k - 1
      PROVE  /\ StandsAtCall(m, s, n) /\ FrameFollows(m, s, s[k], n)
             /\ calls[n] = StepAt(m, s, n)
             /\ calls[n].op = CallAt(m, s, n).op /\ calls[n].caller = s[n].prog
             /\ calls[n].callee = s[n + 1].prog
             /\ s[k].path[n] = CallAt(m, s, n).op
             /\ HasOp(m, s[n].prog, calls[n].op)
  <2>1. StandsAtCall(m, s, n) /\ FrameFollows(m, s, s[k], n)
    BY DEF Chained
  <2>2. calls[n] = StepAt(m, s, n) /\ s[k].path[n] = CallAt(m, s, n).op
    BY <2>1 DEF FrameFollows
  <2>3. calls[n].op = CallAt(m, s, n).op /\ calls[n].caller = s[n].prog
        /\ calls[n].callee = CallAt(m, s, n).callee
    BY <2>2 DEF StepAt
  <2>4. CallAt(m, s, n).callee = s[n + 1].prog /\ s[n].pc \in DOMAIN Code(m, s[n].prog)
    BY <2>1 DEF StandsAtCall
  <2>5. HasOp(m, s[n].prog, calls[n].op)
    BY <2>3, <2>4 DEF HasOp, CallAt
  <2>6. QED BY <2>1, <2>2, <2>3, <2>4, <2>5
<1> HIDE DEF calls
<1>4. ASSUME NEW n \in 0 .. k - 1 PROVE Host(m, calls, n) = s[n + 1].prog
  <2>1. CASE n = 0
    BY <2>1 DEF Host, Chained
  <2>2. CASE n # 0
    <3>1. n \in 1 .. k - 1
      BY <1>1, <2>2
    <3>2. QED BY <1>3, <2>2, <3>1 DEF Host
  <2>3. QED BY <2>1, <2>2
<1>5. ASSUME NEW n \in 1 .. k - 1 PROVE Host(m, calls, n - 1) = s[n].prog
  <2>1. n - 1 \in 0 .. k - 1 /\ (n - 1) + 1 = n
    BY <1>1
  <2>2. QED BY <1>4, <2>1
<1>6. Leads(m, calls)
  BY <1>2, <1>3, <1>5 DEF Leads
<1>7. Host(m, calls, k - 1) = s[k].prog
  <2>1. k - 1 \in 0 .. k - 1 /\ (k - 1) + 1 = k
    BY <1>1
  <2>2. QED BY <1>4, <2>1
<1>8. QED BY <1>1, <1>2, <1>3, <1>6, <1>7 DEF calls

\* No running callee observes in a module that passed the check of the callees.
LEMMA CalleesDoNotObserve ==
    ASSUME NEW m \in Modules, NEW s \in Seq(Frames), Chained(m, s), ~ ObserverCalled(m),
           NEW k \in DOMAIN s, k # 1
    PROVE  \A i \in DOMAIN Code(m, s[k].prog) : Code(m, s[k].prog)[i].kind # "observe"
<1> DEFINE n == k - 1
<1>1. n \in 1 .. k - 1 /\ n + 1 = k /\ n \in DOMAIN s
  OBVIOUS
<1>2. StandsAtCall(m, s, n)
  <2> HIDE DEF n
  <2>1. QED BY <1>1 DEF Chained
<1>3. s[n].prog \in DOMAIN m.programs
  <2> HIDE DEF n
  <2>1. QED BY <1>1, StackFacts
<1>4. s[k].prog \in Callees(m, s[n].prog)
  <2> HIDE DEF n
  <2>1. s[n].pc \in CallInstrs(m.programs[s[n].prog])
        /\ m.programs[s[n].prog].code[s[n].pc].callee = s[k].prog
    BY <1>1, <1>2 DEF StandsAtCall, CallInstrs, CallAt, Code
  <2>2. QED BY <2>1, Zenon DEF Callees
<1>5. Observations(m.programs[s[k].prog]) = {}
  BY <1>3, <1>4 DEF ObserverCalled
<1>6. QED BY <1>5 DEF Observations, Code

-----------------------------------------------------------------------------
(* Copying an instruction.                                                 *)

CopiedInstr ==
    [path |-> Top.path, op |-> Current.op, kind |-> Current.kind,
     refs |-> Resolved(Top, Current.refs), result |-> Current.result,
     basis |-> Current.basis, calls |-> Top.calls]

\* The activation after the instruction.
Passes(old, new) ==
    /\ new \in Frames
    /\ new.prog = old.prog /\ new.path = old.path /\ new.calls = old.calls
    /\ new.pc = old.pc + 1 /\ new.bound = old.bound /\ new.pending = old.pending
    /\ new.record = old.record /\ new.start = old.start

\* What every step past an instruction starts from.
Passing(frame) ==
    /\ ExpansionNow /\ ~ Finished /\ OperandsBound /\ Current.kind # "call"
    /\ Passes(Top, frame)

LEMMA CopyFacts ==
    ASSUME ExpansionNow, ~ Finished, OperandsBound, Current.kind # "call"
    PROVE  /\ CopiedInstr \in Expanded
           /\ CopiedInstr.path = Top.path /\ CopiedInstr.calls = Top.calls
           /\ CopiedInstr.op = Current.op /\ CopiedInstr.kind = Current.kind
           /\ CopyOf(CopiedInstr, Current)
           /\ Len(CopiedInstr.refs) = Len(Current.refs) /\ Len(Current.refs) \in Nat
           /\ DOMAIN CopiedInstr.refs = 1 .. Len(Current.refs)
           /\ \A r \in DOMAIN CopiedInstr.refs : /\ Current.refs[r] \in DOMAIN Top.bound
                                                 /\ CopiedInstr.refs[r] = Top.bound[Current.refs[r]]
<1>1. /\ Top \in Frames /\ Top.prog \in DOMAIN module.programs /\ Top.path \in Seq(OpIds)
      /\ Top.pc \in DOMAIN Code(module, Top.prog) /\ Current = Code(module, Top.prog)[Top.pc]
      /\ Top.bound \in [DOMAIN Top.bound -> Ids] /\ module \in Modules
  BY TopFacts DEF ExpansionNow, Typed
<1>2. /\ Current.op \in OpIds /\ Current.kind \in Kinds /\ Current.result \in Names
      /\ Len(Current.refs) \in Nat /\ DOMAIN Current.refs = 1 .. Len(Current.refs)
  BY <1>1, ProgramFacts
<1>3. Current.basis \in Bases
  <2>1. Current.basis \in {Code(module, Top.prog)[i].basis : i \in DOMAIN Code(module, Top.prog)}
    BY <1>1
  <2>2. QED BY <1>1, <2>1 DEF Bases
<1> DEFINE refs == Resolved(Top, Current.refs)
<1>4. \A r \in DOMAIN Current.refs : /\ Current.refs[r] \in DOMAIN Top.bound
                                     /\ Top.bound[Current.refs[r]] \in Ids
  BY <1>1 DEF OperandsBound, IsBound
<1>5. refs = [r \in 1 .. Len(Current.refs) |-> Top.bound[Current.refs[r]]]
  BY <1>2 DEF Resolved
<1>6. refs \in Seq(Ids) /\ Len(refs) = Len(Current.refs) /\ DOMAIN refs = 1 .. Len(Current.refs)
      /\ \A r \in DOMAIN refs : refs[r] = Top.bound[Current.refs[r]]
  <2>1. refs \in [1 .. Len(Current.refs) -> Ids]
    BY <1>2, <1>4, <1>5
  <2>2. QED BY <1>2, <1>5, <2>1
<1> HIDE DEF refs
<1>7. CopiedInstr = [path |-> Top.path, op |-> Current.op, kind |-> Current.kind,
                     refs |-> refs, result |-> Current.result,
                     basis |-> Current.basis, calls |-> Top.calls]
  BY DEF CopiedInstr, refs
<1>8. Top.calls \in Seq(CallSteps) /\ Current.kind \in Kinds \ {"call"}
  BY <1>1, <1>2 DEF Frames
<1>9. CopiedInstr \in Expanded
  BY <1>1, <1>2, <1>3, <1>6, <1>7, <1>8 DEF Expanded
<1>10. QED BY <1>2, <1>4, <1>6, <1>7, <1>9 DEF CopyOf

LEMMA PassFacts ==
    ASSUME NEW frame, Passing(frame), NEW t, t = [stack EXCEPT ![Len(stack)] = frame]
    PROVE  /\ Resumes(module, stack[Len(stack)], frame) /\ Extends(stack[Len(stack)], frame)
           /\ Grows(module, stack, t) /\ Chained(module, t) /\ t \in Seq(Frames)
           /\ Len(t) = Len(stack) /\ DOMAIN t = DOMAIN stack
           /\ t[Len(stack)] = frame /\ \A k \in DOMAIN stack : k # Len(stack) => t[k] = stack[k]
           /\ \A k \in DOMAIN stack : /\ t[k].path = stack[k].path /\ t[k].record = stack[k].record
                                      /\ t[k].start = stack[k].start
<1>1. /\ Top = stack[Len(stack)] /\ Top.pc \in 1 .. Len(Code(module, Top.prog))
      /\ Top.pc \in Nat /\ Len(Code(module, Top.prog)) \in Nat
  BY TopFacts, Zenon DEF Passing, ExpansionNow
<1>2. Resumes(module, Top, frame)
  BY <1>1 DEF Passing, Passes, Resumes
<1>3. Extends(Top, frame)
  BY DEF Passing, Passes, Extends
<1>4. module \in Modules /\ stack \in Seq(Frames) /\ Len(stack) # 0 /\ Chained(module, stack)
  BY DEF Passing, ExpansionNow, Typed
<1>5. Grows(module, stack, t)
  BY <1>1, <1>2, <1>3, <1>4, TopGrows
<1>6. Chained(module, t)
  BY <1>1, <1>2, <1>4, TopResumes
<1>7. t \in Seq(Frames)
  BY <1>1, <1>2, <1>4, TopResumes
<1>8. DOMAIN t = DOMAIN stack /\ t[Len(stack)] = frame
      /\ \A k \in DOMAIN stack : k # Len(stack) => t[k] = stack[k]
  BY <1>1, <1>2, <1>4, TopResumes
<1>9. Len(t) = Len(stack)
  BY <1>1, <1>2, <1>4, TopResumes
<1>10. \A k \in DOMAIN stack : /\ t[k].path = stack[k].path /\ t[k].record = stack[k].record
                               /\ t[k].start = stack[k].start
  BY <1>1, <1>2, <1>8 DEF Resumes
<1>11. QED BY <1>1, <1>2, <1>3, <1>5, <1>6, <1>7, <1>8, <1>9, <1>10

LEMMA CopyValues ==
    ASSUME NEW frame, Passing(frame), NEW t, t = [stack EXCEPT ![Len(stack)] = frame]
    PROVE  ValuesIInv(module, t, qubits, Len(instrs) + 1, escapes)
<1>1. /\ Len(stack) \in Nat /\ Len(stack) \in DOMAIN stack /\ Top = stack[Len(stack)]
      /\ Top.prog \in DOMAIN module.programs /\ Program = module.programs[Top.prog]
      /\ Top.pc \in DOMAIN Code(module, Top.prog) /\ Current = Code(module, Top.prog)[Top.pc]
      /\ Top.pc \in Nat /\ Len(instrs) \in Nat
  BY TopFacts, Zenon DEF Passing, ExpansionNow
<1>2. /\ module \in Modules /\ qubits \in Seq(Instances)
      /\ ValuesIInv(module, stack, qubits, Len(instrs), escapes)
  BY DEF Passing, ExpansionNow, Typed
<1>3. /\ Grows(module, stack, t) /\ DOMAIN t = DOMAIN stack
      /\ t[Len(stack)] = frame /\ \A k \in DOMAIN stack : k # Len(stack) => t[k] = stack[k]
  BY PassFacts
<1>4. QubitsPlaced(module, t, qubits)
  BY <1>2, <1>3, QubitsStayPlaced DEF ValuesIInv
<1>5. QubitsInTime(qubits, Len(instrs) + 1)
  <2>1. \A q \in DOMAIN qubits : qubits[q] \in Instances /\ qubits[q].created <= Len(instrs)
    BY <1>2 DEF ValuesIInv, QubitsInTime
  <2>2. \A q \in DOMAIN qubits : qubits[q].created \in Nat
    BY <2>1 DEF Instances
  <2>3. QED BY <1>1, <2>1, <2>2 DEF QubitsInTime
<1>6. FramesBound(module, t, qubits, escapes)
  <2>1. \A k \in DOMAIN stack : FrameBound(module, stack[k], k, qubits, escapes)
    BY <1>2 DEF ValuesIInv, FramesBound
  <2>2. FrameBound(module, Top, Len(stack), qubits, escapes)
    BY <1>1, <2>1
  <2>3. /\ frame.prog = Top.prog /\ frame.path = Top.path /\ frame.pc = Top.pc + 1
        /\ frame.bound = Top.bound /\ frame.pending = Top.pending
    BY DEF Passing, Passes
  <2>4. NamesValues(frame, qubits, escapes)
    BY <2>2, <2>3 DEF FrameBound, NamesValues
  <2>5. NamesKnown(module, frame)
    <3>1. KnownBefore(Program, Top.pc) \subseteq KnownBefore(Program, Top.pc + 1)
      BY <1>1, <1>2, KnownGrows
    <3>2. QED BY <1>1, <2>2, <2>3, <3>1 DEF FrameBound, NamesKnown
  <2>6. NamesPassed(module, frame, Len(stack))
    <3>1. NamesPassed(module, Top, Len(stack))
      BY <2>2 DEF FrameBound
    <3>2. Code(module, Top.prog)[Top.pc].kind # "call"
      BY <1>1 DEF Passing
    <3>3. \A i \in 1 .. frame.pc - 1 : i \in 1 .. Top.pc - 1 \/ i = Top.pc
      BY <1>1, <2>3
    <3>4. \A i \in 1 .. frame.pc - 1 :
            Code(module, Top.prog)[i].kind = "call" /\ Code(module, Top.prog)[i].result # NoValue
                => Code(module, Top.prog)[i].result \in DOMAIN Top.bound
      BY <3>1, <3>2, <3>3 DEF NamesPassed
    <3>5. QED BY <2>3, <3>1, <3>4 DEF NamesPassed
  <2>7. FrameBound(module, frame, Len(stack), qubits, escapes)
    BY <2>4, <2>5, <2>6 DEF FrameBound
  <2>8. QED BY <1>3, <2>1, <2>7 DEF FramesBound
<1>7. QED BY <1>2, <1>4, <1>5, <1>6 DEF ValuesIInv

LEMMA CopyCode ==
    ASSUME NEW frame, Passing(frame), NEW t, t = [stack EXCEPT ![Len(stack)] = frame],
           NEW ju, ju = Append(instrs, CopiedInstr)
    PROVE  CodeIInv(module, t, qubits, ju)
<1> DEFINE n == Len(stack)
           instr == CopiedInstr
<1>1. /\ n \in Nat /\ n \in DOMAIN stack /\ DOMAIN stack = 1 .. n /\ Top = stack[n] /\ n # 0
      /\ Top.prog \in DOMAIN module.programs /\ Program = module.programs[Top.prog]
      /\ Top.pc \in DOMAIN Code(module, Top.prog) /\ Current = Code(module, Top.prog)[Top.pc]
      /\ Top.pc \in Nat /\ Len(instrs) \in Nat /\ Top.path \in Seq(OpIds)
      /\ Len(Top.path) = n - 1
  BY TopFacts DEF Passing, ExpansionNow, Typed
<1>2. /\ module \in Modules /\ stack \in Seq(Frames) /\ Chained(module, stack)
      /\ qubits \in Seq(Instances) /\ instrs \in Seq(Expanded)
      /\ CodeIInv(module, stack, qubits, instrs) /\ ExpansionNow
  BY DEF Passing, ExpansionNow, Typed
<1>3. /\ Grows(module, stack, t) /\ DOMAIN t = DOMAIN stack
      /\ t[n] = frame /\ \A k \in DOMAIN stack : k # n => t[k] = stack[k]
  BY PassFacts
<1>4. \A k \in DOMAIN stack : t[k].path = stack[k].path
  BY PassFacts
<1> HIDE DEF n
<1>0. n \in Nat /\ n # 0 /\ Len(instrs) \in Nat /\ Top.pc \in Nat /\ Top.pc >= 1
  BY <1>1, <1>2, ProgramFacts
<1>5. /\ instr \in Expanded
      /\ instr.path = Top.path /\ instr.calls = Top.calls
      /\ instr.op = Current.op /\ instr.kind = Current.kind
      /\ CopyOf(instr, Current)
      /\ Len(instr.refs) = Len(Current.refs)
      /\ \A r \in DOMAIN instr.refs : /\ Current.refs[r] \in DOMAIN Top.bound
                                      /\ instr.refs[r] = Top.bound[Current.refs[r]]
  BY CopyFacts DEF Passing
<1>6. /\ frame.prog = Top.prog /\ frame.path = Top.path /\ frame.pc = Top.pc + 1
  BY DEF Passing, Passes
<1> HIDE DEF instr
<1>7. /\ Len(ju) = Len(instrs) + 1 /\ DOMAIN instrs = 1 .. Len(instrs)
      /\ DOMAIN ju = 1 .. Len(instrs) + 1 /\ ju[Len(instrs) + 1] = instr
      /\ \A i \in 1 .. Len(instrs) : ju[i] = instrs[i]
  BY <1>2, <1>5, AppendFacts DEF instr
<1>8. \A i \in DOMAIN ju : \/ i = Len(instrs) + 1 /\ ju[i] = instr
                           \/ i \in DOMAIN instrs /\ ju[i] = instrs[i]
  BY <1>0, <1>7
<1>9. Current.kind # "call"
  BY DEF Passing
<1>10. InstrsPlaced(module, t, ju)
  <2>1. InstrsPlaced(module, t, instrs)
    BY <1>2, <1>3, InstrsStayPlaced DEF CodeIInv
  <2>2. Entered(module, t, instr.path)
    <3>1. n \in DOMAIN t /\ instr.path = t[n].path
      BY <1>1, <1>3, <1>4, <1>5
    <3>2. QED BY <3>1 DEF Entered
  <2>3. ASSUME NEW k \in DOMAIN t, instr.path = t[k].path PROVE Copied(module, t[k], instr)
    <3>1. k = n
      <4>1. k \in DOMAIN stack /\ stack[k].path = Top.path
        BY <1>3, <1>4, <1>5, <2>3
      <4>2. QED BY <1>2, <4>1, PathsDiffer DEF n
    <3>2. Top.pc \in 1 .. frame.pc - 1
      <4>1. frame.pc - 1 = Top.pc
        BY <1>0, <1>6
      <4>2. QED BY <1>0, <4>1
    <3>3. Copied(module, frame, instr)
      BY <1>1, <1>5, <1>6, <1>9, <3>2 DEF Copied
    <3>4. t[k] = frame
      BY <1>3, <3>1
    <3>5. QED BY <3>3, <3>4
  <2>4. ASSUME NEW i \in DOMAIN ju
        PROVE  /\ Entered(module, t, ju[i].path)
               /\ \A k \in DOMAIN t : ju[i].path = t[k].path => Copied(module, t[k], ju[i])
    <3>1. CASE ju[i] = instr
      BY <2>2, <2>3, <3>1
    <3>2. CASE i \in DOMAIN instrs /\ ju[i] = instrs[i]
      BY <2>1, <3>2 DEF InstrsPlaced
    <3>3. QED BY <1>8, <3>1, <3>2
  <2>5. QED BY <2>4 DEF InstrsPlaced
<1>11. InstrsDistinct(ju)
  <2>1. ASSUME NEW i \in DOMAIN instrs, instrs[i].path = instr.path, instrs[i].op = instr.op
        PROVE  FALSE
    <3>1. Copied(module, Top, instrs[i])
      BY <1>1, <1>2, <1>5, <2>1 DEF CodeIInv, InstrsPlaced
    <3>2. PICK j \in 1 .. Top.pc - 1 : CopyOf(instrs[i], Code(module, Top.prog)[j])
      BY <3>1 DEF Copied
    <3>3. Code(module, Top.prog)[j].op = Code(module, Top.prog)[Top.pc].op
      BY <1>1, <1>5, <2>1, <3>2 DEF CopyOf
    <3>4. j \in DOMAIN Code(module, Top.prog)
      <4>1. DOMAIN Code(module, Top.prog) = 1 .. Len(Code(module, Top.prog))
            /\ Len(Code(module, Top.prog)) \in Nat
        BY <1>1, <1>2, ProgramFacts
      <4>2. Top.pc <= Len(Code(module, Top.prog))
        BY <1>1, <4>1
      <4>3. QED BY <1>0, <4>1, <4>2
    <3>5. j = Top.pc
      BY <1>1, <1>2, <3>3, <3>4, ProgramFacts
    <3>6. QED BY <1>0, <3>5
  <2>2. InstrsDistinct(instrs)
    BY <1>2 DEF CodeIInv
  <2>3. QED BY <1>8, <2>1, <2>2 DEF InstrsDistinct
<1>12. InstrsUse(qubits, ju)
  <2>1. InstrsUse(qubits, instrs)
    BY <1>2 DEF CodeIInv
  <2>2. Uses(qubits, instr.refs, Len(instrs) + 1)
    <3>1. ValuesIInv(module, stack, qubits, Len(instrs), escapes)
      BY <1>2 DEF ExpansionNow
    <3>2. NamesValues(Top, qubits, escapes)
      BY <1>1, <3>1 DEF ValuesIInv, FramesBound, FrameBound
    <3>3. ASSUME NEW r \in DOMAIN instr.refs
          PROVE  \E q \in DOMAIN qubits : qubits[q].id = instr.refs[r]
                                          /\ qubits[q].created < Len(instrs) + 1
      <4>1. instr.refs[r] \in QubitsOf(qubits)
        BY <1>5, <3>2 DEF NamesValues
      <4>2. PICK q \in DOMAIN qubits : qubits[q].id = instr.refs[r]
        BY <4>1 DEF QubitsOf
      <4>3. qubits[q].created <= Len(instrs)
        BY <3>1 DEF ValuesIInv, QubitsInTime
      <4>4. qubits[q] \in Instances
        BY <1>2
      <4>5. qubits[q].created \in Nat
        BY <4>4 DEF Instances
      <4>6. QED BY <1>0, <4>2, <4>3, <4>5
    <3>4. QED BY <3>3 DEF Uses
  <2>3. QED BY <1>8, <2>1, <2>2 DEF InstrsUse
<1>13. InstrsHaveArity(ju)
  <2>1. GateArity(Current)
    BY <1>1, <1>2, UseFacts
  <2>2. /\ Current.kind = "cx" => Len(Current.refs) = 2
        /\ Current.kind # "cx" => Len(Current.refs) = 1
    BY <1>9, <2>1 DEF GateArity
  <2>3. Arity(instr)
    BY <1>5, <2>2 DEF Arity
  <2>4. QED BY <1>2, <1>8, <2>3 DEF InstrsHaveArity, CodeIInv
<1>14. InstrsCalled(module, ju)
  <2>1. /\ Len(Top.calls) = Len(Top.path)
        /\ \A x \in 1 .. Len(Top.path) : Top.path[x] = Top.calls[x].op
        /\ Leads(module, Top.calls)
        /\ Host(module, Top.calls, Len(Top.calls)) = Top.prog
    BY <1>1, <1>2, FrameCalled, Zenon DEF n
  <2>2. HasOp(module, Top.prog, Current.op)
    BY <1>1 DEF HasOp
  <2>3. InstrCalled(module, instr)
    BY <1>5, <2>1, <2>2 DEF InstrCalled
  <2>4. QED BY <1>2, <1>8, <2>3 DEF InstrsCalled, CodeIInv
<1>15. ObservedAtEntry(module, ju)
  <2>1. ASSUME ~ ObserverCalled(module), instr.kind = "observe" PROVE instr.path = <<>>
    <3>1. n = 1
      <4>1. n # 1 => Code(module, Top.prog)[Top.pc].kind # "observe"
        BY <1>1, <1>2, <2>1, CalleesDoNotObserve
      <4>2. QED BY <1>1, <1>5, <2>1, <4>1
    <3>2. QED BY <1>1, <1>5, <3>1
  <2>2. ObservedAtEntry(module, instrs)
    BY <1>2 DEF CodeIInv
  <2>3. QED BY <1>8, <2>1, <2>2 DEF ObservedAtEntry
<1>16. EntryCopied(module, t, ju)
  <2>1. EntryCopied(module, stack, instrs)
    BY <1>2 DEF CodeIInv
  <2>2. ASSUME NEW j \in 1 .. t[1].pc - 1, Code(module, module.entry)[j].kind # "call"
        PROVE  \E i \in DOMAIN ju : ju[i].path = <<>> /\ CopyOf(ju[i], Code(module, module.entry)[j])
    <3>1. CASE j \in 1 .. stack[1].pc - 1
      <4>1. PICK i \in DOMAIN instrs : instrs[i].path = <<>>
                                       /\ CopyOf(instrs[i], Code(module, module.entry)[j])
        BY <2>1, <2>2, <3>1 DEF EntryCopied
      <4>2. i \in DOMAIN ju /\ ju[i] = instrs[i]
        BY <1>0, <1>7
      <4>3. QED BY <4>1, <4>2
    <3>2. CASE j \notin 1 .. stack[1].pc - 1
      <4>1. n = 1
        <5>1. n # 1 => t[1] = stack[1]
          <6>1. 1 \in DOMAIN stack
            BY <1>0, <1>1
          <6>2. QED BY <1>3, <6>1
        <5>2. QED BY <3>2, <5>1
      <4>2. j = Top.pc /\ Top.prog = module.entry
        <5>1. t[1].pc = Top.pc + 1 /\ stack[1] = Top
          BY <1>1, <1>3, <1>6, <4>1
        <5>2. Top.prog = module.entry
          BY <1>2, <5>1 DEF Chained
        <5>3. j \in 1 .. (Top.pc + 1) - 1 /\ j \notin 1 .. Top.pc - 1
          BY <3>2, <5>1
        <5>4. j = Top.pc
          BY <1>0, <5>3
        <5>5. QED BY <5>2, <5>4
      <4>3. instr.path = <<>>
        BY <1>1, <1>5, <4>1
      <4>4. CopyOf(instr, Code(module, module.entry)[j])
        BY <1>1, <1>5, <4>2
      <4>5. Len(instrs) + 1 \in DOMAIN ju
        BY <1>0, <1>7
      <4>6. QED BY <1>7, <4>3, <4>4, <4>5
    <3>3. QED BY <3>1, <3>2
  <2>3. QED BY <2>2 DEF EntryCopied
<1>17. QED BY <1>10, <1>11, <1>12, <1>13, <1>14, <1>15, <1>16 DEF CodeIInv

LEMMA CopyRecords ==
    ASSUME NEW frame, Passing(frame), NEW t, t = [stack EXCEPT ![Len(stack)] = frame],
           NEW ju, ju = Append(instrs, CopiedInstr)
    PROVE  RecordsIInv(module, t, qubits, ju, records, escapes)
<1> DEFINE n == Len(stack)
           instr == CopiedInstr
<1>1. /\ n \in Nat /\ n \in DOMAIN stack /\ DOMAIN stack = 1 .. n /\ Top = stack[n] /\ n # 0
      /\ Len(instrs) \in Nat /\ Top.path \in Seq(OpIds)
  BY TopFacts DEF Passing, ExpansionNow, Typed
<1>2. /\ module \in Modules /\ stack \in Seq(Frames) /\ Chained(module, stack)
      /\ instrs \in Seq(Expanded)
      /\ RecordsIInv(module, stack, qubits, instrs, records, escapes) /\ ExpansionNow
  BY DEF Passing, ExpansionNow, Typed
<1>3. /\ Grows(module, stack, t) /\ DOMAIN t = DOMAIN stack /\ Len(t) = n
  BY PassFacts
<1>4. \A k \in DOMAIN stack : /\ t[k].path = stack[k].path /\ t[k].record = stack[k].record
                              /\ t[k].start = stack[k].start
  BY PassFacts
<1>5. instr \in Expanded /\ instr.path = Top.path
  BY CopyFacts DEF Passing
<1> HIDE DEF instr
<1>7. /\ Len(ju) = Len(instrs) + 1 /\ DOMAIN instrs = 1 .. Len(instrs)
      /\ DOMAIN ju = 1 .. Len(instrs) + 1 /\ ju[Len(instrs) + 1] = instr
      /\ \A i \in 1 .. Len(instrs) : ju[i] = instrs[i]
  BY <1>2, <1>5, AppendFacts DEF instr
<1>8. \A i \in DOMAIN ju : \/ i = Len(instrs) + 1 /\ ju[i] = instr
                           \/ i \in DOMAIN instrs /\ ju[i] = instrs[i]
  BY <1>1, <1>7
<1>9. FramesStart(t, ju)
  <2>1. ASSUME NEW k \in DOMAIN stack
        PROVE  /\ stack[k].start \in 0 .. Len(ju)
               /\ \A i \in DOMAIN ju : (i > stack[k].start) <=> Begins(stack[k].path, ju[i].path)
    <3>1. FrameStarts(stack[k], instrs)
      BY <1>2 DEF RecordsIInv, FramesStart
    <3>2. stack[k].start \in 0 .. Len(instrs)
      BY <3>1 DEF FrameStarts
    <3>3. Begins(stack[k].path, instr.path)
      <4>1. k <= n
        BY <1>1
      <4>2. QED BY <1>1, <1>2, <1>5, <4>1, RunningBelow
    <3>4. ASSUME NEW i \in DOMAIN ju
          PROVE  (i > stack[k].start) <=> Begins(stack[k].path, ju[i].path)
      <4>1. CASE i = Len(instrs) + 1
        <5>1. i > stack[k].start /\ ju[i] = instr
          BY <1>1, <1>7, <3>2, <4>1
        <5>2. QED BY <3>3, <5>1
      <4>2. CASE i # Len(instrs) + 1
        <5>1. i \in DOMAIN instrs /\ ju[i] = instrs[i]
          BY <1>8, <4>2
        <5>2. QED BY <3>1, <5>1 DEF FrameStarts
      <4>3. QED BY <4>1, <4>2
    <3>5. QED BY <1>1, <1>7, <3>2, <3>4
  <2>2. QED BY <1>3, <1>4, <2>1 DEF FramesStart, FrameStarts
<1>10. Open(t) = Open(stack) /\ FramesReserve(t, records)
  <2>1. \A k \in 1 .. n : t[k].record = stack[k].record
    BY <1>1, <1>4, Zenon
  <2>2. FramesReserve(stack, records)
    BY <1>2 DEF RecordsIInv
  <2>3. QED BY <1>1, <1>3, <2>1, <2>2, SameReserve, Zenon
<1>11. ASSUME NEW c \in DOMAIN records \ Open(stack)
       PROVE  records[c] \in Filled /\ Past(module, t, records[c].path) /\ Listed(ju, records[c])
  <2>1. records[c] \in Filled /\ Past(module, stack, records[c].path) /\ Listed(instrs, records[c])
    BY <1>2 DEF RecordsIInv, RecordsFilled, RecordsListed
  <2>2. records[c].path \in Seq(OpIds)
    BY <2>1 DEF Filled
  <2>3. Past(module, t, records[c].path)
    BY <1>3, <2>1, <2>2 DEF Grows
  <2>4. ~ Begins(records[c].path, Top.path)
    <3>1. SUFFICES ASSUME Begins(records[c].path, Top.path) PROVE FALSE
      OBVIOUS
    <3>2. PICK k \in DOMAIN stack : PastBelow(module, stack[k], records[c].path)
      BY <2>1 DEF Past
    <3>3. PICK i \in 1 .. stack[k].pc - 1 :
            Begins(Append(stack[k].path, Code(module, stack[k].prog)[i].op), records[c].path)
      BY <3>2 DEF PastBelow
    <3>4. Append(stack[k].path, Code(module, stack[k].prog)[i].op) \in Seq(OpIds)
      BY <1>2, StackFacts
    <3> DEFINE q == Append(stack[k].path, Code(module, stack[k].prog)[i].op)
    <3>5. Begins(q, Top.path)
      <4>1. Len(q) \in Nat /\ Len(records[c].path) \in Nat /\ Len(Top.path) \in Nat
        BY <1>1, <2>2, <3>4
      <4>2. Begins(q, records[c].path)
        BY <3>3
      <4> HIDE DEF q
      <4>3. QED BY <3>1, <4>1, <4>2, BeginsTransitive
    <3>6. Past(module, stack, Top.path)
      BY <3>5 DEF Past, PastBelow
    <3>7. QED BY <1>1, <1>2, <3>6, RunningIsNotPast
  <2>5. Listed(ju, records[c])
    BY <1>2, <1>5, <2>1, <2>4, ListedStays DEF instr
  <2>6. QED BY <2>1, <2>3, <2>5
<1>12. RecordsFilled(module, t, records) /\ RecordsListed(t, ju, records)
  BY <1>10, <1>11 DEF RecordsFilled, RecordsListed
<1>13. RecordsNoted(t, records, qubits, escapes) /\ RecordsDistinct(t, records)
  BY <1>2, <1>10 DEF RecordsIInv, RecordsNoted, RecordsDistinct
<1>14. QED BY <1>9, <1>10, <1>12, <1>13 DEF RecordsIInv

LEMMA LoneCopies ==
    ASSUME NEW frame, Passing(frame), NEW t, t = [stack EXCEPT ![Len(stack)] = frame],
           NEW ju, ju = Append(instrs, CopiedInstr), Lone(module, stack, instrs)
    PROVE  Lone(module, t, ju)
<1> SUFFICES ASSUME CallInstrs(module.programs[module.entry]) = {}
             PROVE  /\ Len(t) = 1 /\ OwnNames(t[1]) /\ Len(ju) = t[1].pc - 1
                    /\ \A i \in DOMAIN ju : CopiedInPlace(ju[i], Code(module, module.entry)[i])
  BY DEF Lone
<1>1. /\ Len(stack) = 1 /\ OwnNames(stack[1]) /\ Len(instrs) = stack[1].pc - 1
      /\ \A i \in DOMAIN instrs : CopiedInPlace(instrs[i], Code(module, module.entry)[i])
  BY DEF Lone
<1>2. Len(t) = Len(stack) /\ t[Len(stack)] = frame
  BY PassFacts
<1>3. /\ Top = stack[1] /\ Len(Top.path) = 0 /\ Top.path \in Seq(OpIds) /\ Top \in Frames
      /\ Top.pc \in Nat /\ Len(instrs) \in Nat /\ Current = Code(module, Top.prog)[Top.pc]
  BY <1>1, TopFacts DEF Passing, ExpansionNow
<1>4. Top.path = <<>> /\ Top.calls = <<>> /\ Top.prog = module.entry
  <2>1. Top.calls \in Seq(CallSteps)
    BY <1>3 DEF Frames
  <2>2. FrameFits(module, stack[1], 1) /\ stack[1].prog = module.entry
    <3>1. 1 \in DOMAIN stack
      BY <1>1, TopFacts DEF Passing, ExpansionNow
    <3>2. QED BY <3>1 DEF Passing, ExpansionNow, Chained
  <2>3. Len(Top.calls) = 0
    BY <1>3, <2>2 DEF FrameFits
  <2>4. QED BY <1>3, <2>1, <2>2, <2>3
<1>5. frame.pc = Top.pc + 1 /\ frame.bound = Top.bound
  BY DEF Passing, Passes
<1> DEFINE instr == CopiedInstr
<1>6. /\ instr \in Expanded /\ instr.path = Top.path /\ instr.calls = Top.calls
      /\ CopyOf(instr, Current)
      /\ \A r \in DOMAIN instr.refs : /\ Current.refs[r] \in DOMAIN Top.bound
                                      /\ instr.refs[r] = Top.bound[Current.refs[r]]
  BY CopyFacts DEF Passing
<1> HIDE DEF instr
<1>7. /\ Len(ju) = Len(instrs) + 1 /\ DOMAIN instrs = 1 .. Len(instrs)
      /\ DOMAIN ju = 1 .. Len(instrs) + 1 /\ ju[Len(instrs) + 1] = instr
      /\ \A i \in 1 .. Len(instrs) : ju[i] = instrs[i]
  <2>1. instrs \in Seq(Expanded)
    BY DEF Passing, ExpansionNow, Typed
  <2>2. QED BY <1>6, <2>1, AppendFacts DEF instr
<1>8. CopiedInPlace(instr, Current)
  BY <1>1, <1>3, <1>4, <1>6 DEF CopiedInPlace, OwnNames
<1>9. Len(instrs) + 1 = Top.pc
  BY <1>1, <1>3
<1>10. ASSUME NEW i \in DOMAIN ju PROVE CopiedInPlace(ju[i], Code(module, module.entry)[i])
  <2>1. CASE i = Len(instrs) + 1
    BY <1>3, <1>4, <1>7, <1>8, <1>9, <2>1
  <2>2. CASE i # Len(instrs) + 1
    <3>1. i \in DOMAIN instrs /\ ju[i] = instrs[i]
      BY <1>3, <1>7, <2>2
    <3>2. QED BY <1>1, <3>1
  <2>3. QED BY <2>1, <2>2
<1>11. t[1] = frame /\ Len(t) = 1
  BY <1>1, <1>2
<1>12. OwnNames(t[1])
  BY <1>1, <1>3, <1>5, <1>11 DEF OwnNames
<1>13. Len(ju) = t[1].pc - 1
  BY <1>3, <1>5, <1>7, <1>9, <1>11
<1>14. QED BY <1>10, <1>11, <1>12, <1>13

\* ExpandInstruction.
LEMMA InstructionKeeps == ASSUME ExpansionIInv, ExpandInstruction PROVE ExpansionIInv'
<1> DEFINE frame == [Top EXCEPT !.pc = Top.pc + 1]
           t == [stack EXCEPT ![Len(stack)] = frame]
           ju == Append(instrs, CopiedInstr)
<1>1. ExpansionNow /\ Lone(module, stack, instrs)
  BY DEF ExpansionIInv
<1>2. Top \in Frames /\ Top.pc \in Nat
  BY <1>1, TopFacts, Zenon DEF ExpansionNow
<1>3. /\ ~ Finished /\ OperandsBound /\ Current.kind # "call"
      /\ instrs' = ju /\ stack' = t /\ phase = "expanding"
      /\ UNCHANGED <<module, qubits, records, escapes, returned, phase>>
  <2>1. /\ ~ Finished /\ OperandsBound /\ Current.kind # "call" /\ phase = "expanding"
        /\ UNCHANGED <<module, qubits, records, escapes, returned, phase>>
    BY DEF ExpandInstruction, Running
  <2>2. instrs' = ju
    BY DEF ExpandInstruction, CopiedInstr
  <2>3. stack' = WithTop([Top EXCEPT !.pc = @ + 1])
    BY DEF ExpandInstruction
  <2>4. [Top EXCEPT !.pc = @ + 1] = frame
    BY <1>2 DEF Frames
  <2>5. stack' = t
    <3> HIDE DEF frame
    <3>1. QED BY <2>3, <2>4 DEF WithTop
  <2> HIDE DEF frame, t, ju
  <2>6. QED BY <2>1, <2>2, <2>5
<1>4. Passes(Top, frame)
  <2>1. Top.pc + 1 \in Nat
    BY <1>2
  <2>2. frame \in Frames
    BY <1>2, <2>1 DEF Frames
  <2>3. /\ frame.prog = Top.prog /\ frame.path = Top.path /\ frame.calls = Top.calls
        /\ frame.pc = Top.pc + 1 /\ frame.bound = Top.bound /\ frame.pending = Top.pending
        /\ frame.record = Top.record /\ frame.start = Top.start
    BY <1>2 DEF Frames
  <2> HIDE DEF frame
  <2>4. QED BY <2>2, <2>3 DEF Passes
<1> HIDE DEF frame
<1>5. Passing(frame) /\ t = [stack EXCEPT ![Len(stack)] = frame] /\ ju = Append(instrs, CopiedInstr)
  BY <1>1, <1>3, <1>4 DEF Passing
<1> HIDE DEF t, ju
<1>6. t \in Seq(Frames) /\ Len(t) = Len(stack) /\ Chained(module, t)
  BY <1>5, PassFacts
<1>7. ValuesIInv(module, t, qubits, Len(instrs) + 1, escapes)
  BY <1>5, CopyValues
<1>8. CodeIInv(module, t, qubits, ju)
  BY <1>5, CopyCode
<1>9. RecordsIInv(module, t, qubits, ju, records, escapes)
  BY <1>5, CopyRecords
<1>10. Lone(module, t, ju)
  BY <1>1, <1>5, LoneCopies
<1>11. ju \in Seq(Expanded) /\ Len(ju) = Len(instrs) + 1
  <2>1. instrs \in Seq(Expanded)
    BY <1>1 DEF ExpansionNow, Typed
  <2>2. CopiedInstr \in Expanded
    BY <1>1, <1>3, CopyFacts
  <2>3. QED BY <1>5, <2>1, <2>2, AppendFacts
<1>12. Typed'
  <2>1. /\ module \in Modules /\ Len(stack) # 0 /\ qubits \in Seq(Instances)
        /\ records \in Seq(Filled \union {NoValue}) /\ escapes \in Seq(Ids)
        /\ phase \in {"expanding", "expanded", "invalid"}
    BY <1>1 DEF ExpansionNow, Typed
  <2>2. QED BY <1>3, <1>6, <1>11, <2>1 DEF Typed
<1>13. ExpansionNow'
  BY <1>3, <1>6, <1>7, <1>8, <1>9, <1>11, <1>12 DEF ExpansionNow
<1>14. ExpansionDone'
  BY <1>3 DEF ExpansionDone
<1>15. QED BY <1>3, <1>10, <1>13, <1>14 DEF ExpansionIInv

-----------------------------------------------------------------------------

CalledBinding ==
    [v \in {Current.params[k] : k \in DOMAIN Current.params} |->
        Top.bound[Current.refs[CHOOSE k \in DOMAIN Current.params : Current.params[k] = v]]]

CalledFrame ==
    NewFrame(Current.callee, Append(Top.path, Current.op),
             Append(Top.calls, [caller |-> Top.prog, op |-> Current.op, callee |-> Current.callee]),
             CalledBinding, Len(records) + 1)

Calling == ExpansionNow /\ ~ Finished /\ OperandsBound /\ Current.kind = "call"

LEMMA CalledFacts ==
    ASSUME Calling
    PROVE  /\ Calls(module, stack, CalledFrame)
           /\ CalledFrame.path = Append(Top.path, Current.op)
           /\ CalledFrame.prog \in DOMAIN module.programs
           /\ DOMAIN CalledFrame.bound = ParamIds(module.programs[CalledFrame.prog])
           /\ \A v \in DOMAIN CalledFrame.bound :
                 \E x \in DOMAIN Top.bound : CalledFrame.bound[v] = Top.bound[x]
           /\ CalledFrame.record = Len(records) + 1 /\ CalledFrame.start = Len(instrs)
           /\ ~ Entered(module, stack, CalledFrame.path)
           /\ \A p \in Seq(OpIds) : Entered(module, stack, p) => ~ Begins(CalledFrame.path, p)
<1> DEFINE n == Len(stack)
           here == [caller |-> Top.prog, op |-> Current.op, callee |-> Current.callee]
<1>1. /\ n \in Nat /\ n \in DOMAIN stack /\ Top = stack[n] /\ n # 0 /\ Top \in Frames
      /\ Top.prog \in DOMAIN module.programs
      /\ Top.pc \in DOMAIN Code(module, Top.prog) /\ Current = Code(module, Top.prog)[Top.pc]
      /\ Top.path \in Seq(OpIds) /\ Len(instrs) \in Nat
      /\ Top.bound \in [DOMAIN Top.bound -> Ids] /\ DOMAIN Top.bound \subseteq Names
  BY TopFacts DEF Calling, ExpansionNow, Typed
<1>2. /\ module \in Modules /\ stack \in Seq(Frames) /\ Chained(module, stack)
      /\ records \in Seq(Filled \union {NoValue}) /\ Len(records) \in Nat
  BY DEF Calling, ExpansionNow, Typed
<1> DEFINE callee == module.programs[Current.callee]
           params == Current.params
<1>3. /\ Current.callee \in DOMAIN module.programs /\ params = callee.params
      /\ Len(Current.refs) = Len(params) /\ Current.kind = "call"
  BY <1>1, <1>2, UseFacts DEF Calling
<1>4. /\ Len(params) \in Nat /\ DOMAIN params = 1 .. Len(params)
      /\ \A k \in DOMAIN params : params[k] \in DefinedIds(callee)
      /\ DefinedIds(callee) \subseteq Names
  BY <1>2, <1>3, DefinitionFacts
<1>5. DOMAIN Current.refs = 1 .. Len(Current.refs) /\ Current.op \in OpIds
  BY <1>1, <1>2, ProgramFacts
<1>6. DOMAIN CalledBinding = {params[k] : k \in DOMAIN params}
  BY DEF CalledBinding
<1>7. DOMAIN CalledBinding = ParamIds(callee)
  BY <1>3, <1>6 DEF ParamIds
<1>8. ASSUME NEW v \in DOMAIN CalledBinding
      PROVE  \E x \in DOMAIN Top.bound : CalledBinding[v] = Top.bound[x]
  <2> DEFINE k == CHOOSE k \in DOMAIN params : params[k] = v
  <2>1. \E j \in DOMAIN params : params[j] = v
    BY <1>6
  <2>2. k \in DOMAIN params
    BY <2>1
  <2>3. k \in DOMAIN Current.refs
    BY <1>3, <1>4, <1>5, <2>2
  <2>4. Current.refs[k] \in DOMAIN Top.bound
    BY <2>3 DEF Calling, OperandsBound, IsBound
  <2>5. CalledBinding[v] = Top.bound[Current.refs[k]]
    BY <1>6 DEF CalledBinding
  <2>6. QED BY <2>4, <2>5
<1>9. CalledBinding \in Bindings
  <2>1. DOMAIN CalledBinding \in SUBSET Names
    BY <1>4, <1>6
  <2>2. \A v \in DOMAIN CalledBinding : CalledBinding[v] \in Ids
    BY <1>1, <1>8
  <2>3. CalledBinding = [v \in DOMAIN CalledBinding |-> CalledBinding[v]]
    BY DEF CalledBinding
  <2>4. CalledBinding \in [DOMAIN CalledBinding -> Ids]
    BY <2>2, <2>3
  <2>5. QED BY <2>1, <2>4 DEF Bindings
<1>10. here \in CallSteps /\ Current.callee \in ProgramNames
  <2>1. Top.prog \in ProgramNames /\ Current.callee \in ProgramNames
    BY <1>1, <1>2, <1>3 DEF ProgramNames
  <2>2. QED BY <1>5, <2>1 DEF CallSteps
<1> DEFINE path == Append(Top.path, Current.op)
           calls == Append(Top.calls, here)
           pending == LocalDefs(callee)
<1>11. path \in Seq(OpIds) /\ calls \in Seq(CallSteps) /\ pending \in SUBSET Nat
  <2>1. Top.calls \in Seq(CallSteps)
    BY <1>1 DEF Frames
  <2> HIDE DEF here
  <2>2. path \in Seq(OpIds) /\ calls \in Seq(CallSteps)
    BY <1>1, <1>5, <1>10, <2>1
  <2>3. LocalDefs(callee) \subseteq DOMAIN callee.defs /\ DOMAIN callee.defs = 1 .. Len(callee.defs)
        /\ Len(callee.defs) \in Nat
    BY <1>2, <1>3, DefinitionFacts
  <2>4. QED BY <2>2, <2>3
<1>12. CalledFrame =
         [prog |-> Current.callee, path |-> path, calls |-> calls, pc |-> 1, bound |-> CalledBinding,
          pending |-> pending, locals |-> <<>>, record |-> Len(records) + 1, start |-> Len(instrs)]
  BY DEF CalledFrame, NewFrame
<1> HIDE DEF path, calls, pending, here
<1>13. CalledFrame \in Frames
  <2>1. <<>> \in Seq(Ids) /\ 1 \in Nat /\ Len(records) + 1 \in Nat
    BY <1>2
  <2>2. QED BY <1>1, <1>9, <1>10, <1>11, <1>12, <2>1 DEF Frames
<1>14. /\ CalledFrame.prog = Current.callee /\ CalledFrame.path = path /\ CalledFrame.calls = calls
       /\ CalledFrame.pc = 1 /\ CalledFrame.pending = pending /\ CalledFrame.bound = CalledBinding
       /\ CalledFrame.record = Len(records) + 1 /\ CalledFrame.start = Len(instrs)
  BY <1>12
<1>15. Calls(module, stack, CalledFrame)
  <2>1. CallAt(module, stack, n) = Current /\ StepAt(module, stack, n) = here
    BY <1>1 DEF CallAt, StepAt, here
  <2>2. QED BY <1>1, <1>3, <1>13, <1>14, <2>1 DEF Calls, path, calls, pending
<1>16. \A p \in Seq(OpIds) : Entered(module, stack, p) => ~ Begins(path, p)
  <2>1. stack[n].pc \in DOMAIN Code(module, stack[n].prog)
        /\ path = Append(stack[n].path, Code(module, stack[n].prog)[stack[n].pc].op)
    BY <1>1 DEF path
  <2>2. QED BY <1>1, <1>2, <2>1, CalledIsNew
<1>17. ~ Entered(module, stack, path)
  <2>1. Begins(path, path)
    <3>1. Len(path) \in Nat
      BY <1>11
    <3>2. QED BY <3>1 DEF Begins
  <2>2. QED BY <1>11, <1>16, <2>1
<1>18. QED BY <1>3, <1>7, <1>8, <1>14, <1>15, <1>16, <1>17 DEF path

LEMMA CallGrows ==
    ASSUME Calling, NEW t, t = Append(stack, CalledFrame)
    PROVE  /\ Grows(module, stack, t) /\ Chained(module, t) /\ t \in Seq(Frames)
           /\ Len(t) = Len(stack) + 1 /\ DOMAIN t = 1 .. Len(stack) + 1
           /\ t[Len(stack) + 1] = CalledFrame /\ \A k \in DOMAIN stack : t[k] = stack[k]
           /\ \A k \in DOMAIN t : k = Len(stack) + 1 \/ k \in DOMAIN stack
<1>1. /\ module \in Modules /\ stack \in Seq(Frames) /\ Len(stack) # 0 /\ Chained(module, stack)
      /\ Len(stack) \in Nat /\ DOMAIN stack = 1 .. Len(stack)
  BY DEF Calling, ExpansionNow, Typed
<1>2. Calls(module, stack, CalledFrame)
  BY CalledFacts
<1>3. t \in Seq(Frames) /\ Len(t) = Len(stack) + 1 /\ DOMAIN t = 1 .. Len(stack) + 1
      /\ t[Len(stack) + 1] = CalledFrame /\ \A k \in DOMAIN stack : t[k] = stack[k]
  BY <1>1, <1>2, TopCalls
<1>4. Chained(module, t)
  BY <1>1, <1>2, TopCalls
<1>5. \A p : Past(module, stack, p) => Past(module, t, p)
  BY <1>1, <1>2, TopCalls
<1>6. \A p : Entered(module, stack, p) => Entered(module, t, p)
  BY <1>1, <1>2, TopCalls
<1>7. \A k \in DOMAIN t : k = Len(stack) + 1 \/ k \in DOMAIN stack
  BY <1>1, <1>3
<1>8. ASSUME NEW k \in DOMAIN stack
      PROVE  stack[k] \in Frames /\ Resumes(module, stack[k], t[k]) /\ Extends(stack[k], t[k])
  <2>1. stack[k] \in Frames /\ t[k] = stack[k]
    BY <1>1, <1>3
  <2>2. stack[k].pc \in 1 .. Len(Code(module, stack[k].prog)) + 1 /\ stack[k].pc \in Nat
    BY <1>1, <2>1, StackFacts DEF Frames
  <2>3. QED BY <2>1, <2>2 DEF Resumes, Extends
<1>9. ~ Entered(module, stack, CalledFrame.path)
  BY CalledFacts
<1>10. Grows(module, stack, t)
  BY <1>3, <1>5, <1>6, <1>7, <1>8, <1>9 DEF Grows
<1>11. QED BY <1>3, <1>4, <1>7, <1>10

-----------------------------------------------------------------------------
(* Entering a call.                                                        *)

LEMMA CallValues ==
    ASSUME Calling, NEW t, t = Append(stack, CalledFrame)
    PROVE  ValuesIInv(module, t, qubits, Len(instrs), escapes)
<1> DEFINE n == Len(stack)
           frame == CalledFrame
<1>1. /\ n \in Nat /\ n \in DOMAIN stack /\ Top = stack[n] /\ n # 0
      /\ Top.prog \in DOMAIN module.programs /\ Top.path \in Seq(OpIds)
      /\ Top.bound \in [DOMAIN Top.bound -> Ids] /\ Current.op \in OpIds
  <2>1. /\ n \in Nat /\ n \in DOMAIN stack /\ Top = stack[n] /\ n # 0 /\ module \in Modules
        /\ Top.prog \in DOMAIN module.programs /\ Top.path \in Seq(OpIds)
        /\ Top.bound \in [DOMAIN Top.bound -> Ids]
        /\ Top.pc \in DOMAIN Code(module, Top.prog) /\ Current = Code(module, Top.prog)[Top.pc]
    BY TopFacts DEF Calling, ExpansionNow, Typed
  <2>2. Current.op \in OpIds
    BY <2>1, ProgramFacts
  <2>3. QED BY <2>1, <2>2
<1>2. /\ module \in Modules /\ qubits \in Seq(Instances)
      /\ ValuesIInv(module, stack, qubits, Len(instrs), escapes)
  BY DEF Calling, ExpansionNow, Typed
<1>3. /\ Grows(module, stack, t) /\ t[n + 1] = frame /\ \A k \in DOMAIN stack : t[k] = stack[k]
      /\ \A k \in DOMAIN t : k = n + 1 \/ k \in DOMAIN stack
  BY CallGrows
<1>4. /\ Calls(module, stack, frame)
      /\ frame.path = Append(Top.path, Current.op)
      /\ frame.prog \in DOMAIN module.programs
      /\ DOMAIN frame.bound = ParamIds(module.programs[frame.prog])
      /\ \A v \in DOMAIN frame.bound : \E x \in DOMAIN Top.bound : frame.bound[v] = Top.bound[x]
  BY CalledFacts
<1> HIDE DEF frame, n
<1>5. QubitsPlaced(module, t, qubits)
  BY <1>2, <1>3, QubitsStayPlaced DEF ValuesIInv
<1>6. FramesBound(module, t, qubits, escapes)
  <2>1. \A k \in DOMAIN stack : FrameBound(module, stack[k], k, qubits, escapes)
    BY <1>2 DEF ValuesIInv, FramesBound
  <2>2. NamesValues(Top, qubits, escapes)
    BY <1>1, <2>1 DEF FrameBound
  <2>3. Begins(Top.path, frame.path) /\ Len(Top.path) \in Nat /\ Len(frame.path) \in Nat
    <3>1. /\ Len(Append(Top.path, Current.op)) = Len(Top.path) + 1 /\ Len(Top.path) \in Nat
          /\ \A i \in 1 .. Len(Top.path) : Append(Top.path, Current.op)[i] = Top.path[i]
      BY <1>1, AppendFacts
    <3>2. QED BY <1>4, <3>1 DEF Begins
  <2>4. NamesValues(frame, qubits, escapes)
    <3>1. ASSUME NEW v \in DOMAIN frame.bound
          PROVE  /\ frame.bound[v] \in QubitsOf(qubits)
                 /\ Begins(frame.bound[v][1], frame.path) \/ frame.bound[v] \in ToSet(escapes)
      <4>1. PICK x \in DOMAIN Top.bound : frame.bound[v] = Top.bound[x]
        BY <1>4
      <4>2. /\ Top.bound[x] \in QubitsOf(qubits)
            /\ Begins(Top.bound[x][1], Top.path) \/ Top.bound[x] \in ToSet(escapes)
        BY <2>2 DEF NamesValues
      <4>3. Top.bound[x] \in Ids
        BY <1>1
      <4>4. Len(Top.bound[x][1]) \in Nat
        BY <4>3 DEF Ids
      <4>5. Begins(Top.bound[x][1], Top.path) => Begins(Top.bound[x][1], frame.path)
        BY <2>3, <4>4, BeginsTransitive
      <4>6. QED BY <4>1, <4>2, <4>5
    <3>2. QED BY <3>1 DEF NamesValues
  <2>5. NamesKnown(module, frame)
    <3>1. ParamIds(module.programs[frame.prog]) \subseteq DefinedIds(module.programs[frame.prog])
      BY <1>2, <1>4, DefinitionFacts DEF ParamIds
    <3>2. QED BY <1>4, <3>1 DEF NamesKnown, KnownBefore
  <2>6. NamesPassed(module, frame, n + 1)
    <3>1. frame.pc = 1 /\ frame.pending = LocalDefs(module.programs[frame.prog])
      BY <1>4 DEF Calls
    <3>2. \A j \in DOMAIN module.programs[frame.prog].params :
             module.programs[frame.prog].params[j] \in DOMAIN frame.bound
      BY <1>4 DEF ParamIds
    <3>3. 1 .. frame.pc - 1 = {}
      BY <3>1
    <3>4. QED BY <3>1, <3>2, <3>3 DEF NamesPassed
  <2>7. FrameBound(module, frame, n + 1, qubits, escapes)
    BY <2>4, <2>5, <2>6 DEF FrameBound
  <2>8. QED BY <1>3, <2>1, <2>7 DEF FramesBound
<1>7. QED BY <1>2, <1>5, <1>6 DEF ValuesIInv

LEMMA CallCode ==
    ASSUME Calling, NEW t, t = Append(stack, CalledFrame)
    PROVE  CodeIInv(module, t, qubits, instrs)
<1>1. Grows(module, stack, t) /\ \A k \in DOMAIN stack : t[k] = stack[k]
  BY CallGrows
<1>2. CodeIInv(module, stack, qubits, instrs) /\ instrs \in Seq(Expanded)
  BY DEF Calling, ExpansionNow, Typed
<1>3. InstrsPlaced(module, t, instrs)
  BY <1>1, <1>2, InstrsStayPlaced DEF CodeIInv
<1>4. 1 \in DOMAIN stack
  BY TopFacts DEF Calling, ExpansionNow, Typed
<1>5. t[1] = stack[1]
  BY <1>1, <1>4
<1>6. EntryCopied(module, t, instrs)
  BY <1>2, <1>5 DEF CodeIInv, EntryCopied
<1>7. QED BY <1>2, <1>3, <1>6 DEF CodeIInv

LEMMA CallRecords ==
    ASSUME Calling, NEW t, t = Append(stack, CalledFrame), NEW rs, rs = Append(records, NoValue)
    PROVE  RecordsIInv(module, t, qubits, instrs, rs, escapes)
<1> DEFINE n == Len(stack)
           frame == CalledFrame
           last == Len(records) + 1
<1>1. /\ n \in Nat /\ n # 0 /\ DOMAIN stack = 1 .. n /\ Len(instrs) \in Nat
  BY TopFacts DEF Calling, ExpansionNow, Typed
<1>2. /\ module \in Modules /\ records \in Seq(Filled \union {NoValue}) /\ instrs \in Seq(Expanded)
      /\ RecordsIInv(module, stack, qubits, instrs, records, escapes)
      /\ CodeIInv(module, stack, qubits, instrs)
  BY DEF Calling, ExpansionNow, Typed
<1>3. /\ Grows(module, stack, t) /\ Len(t) = n + 1 /\ DOMAIN t = 1 .. n + 1
      /\ t[n + 1] = frame /\ \A k \in DOMAIN stack : t[k] = stack[k]
      /\ \A k \in DOMAIN t : k = n + 1 \/ k \in DOMAIN stack
  BY CallGrows
<1>4. /\ frame.record = last /\ frame.start = Len(instrs)
      /\ \A p \in Seq(OpIds) : Entered(module, stack, p) => ~ Begins(frame.path, p)
  BY CalledFacts
<1> HIDE DEF frame, n
<1>5. /\ Len(rs) = last /\ Len(records) \in Nat /\ DOMAIN records = 1 .. Len(records)
      /\ DOMAIN rs = 1 .. last /\ rs[last] = NoValue
      /\ \A c \in DOMAIN records : rs[c] = records[c]
  <2>1. NoValue \in Filled \union {NoValue}
    OBVIOUS
  <2>2. QED BY <1>2, <2>1, AppendFacts
<1>6. last \in Nat /\ last \in DOMAIN rs /\ last \notin DOMAIN records
      /\ \A c \in DOMAIN rs : c = last \/ c \in DOMAIN records
  BY <1>5
<1> HIDE DEF last
<1>7. FramesStart(t, instrs)
  <2>1. \A k \in DOMAIN stack : FrameStarts(stack[k], instrs)
    BY <1>2 DEF RecordsIInv, FramesStart
  <2>2. FrameStarts(frame, instrs)
    <3>1. ASSUME NEW i \in DOMAIN instrs
          PROVE  (i > frame.start) <=> Begins(frame.path, instrs[i].path)
      <4>1. instrs[i] \in Expanded /\ i <= Len(instrs) /\ i \in Nat
        BY <1>2
      <4>2. instrs[i].path \in Seq(OpIds)
        BY <4>1 DEF Expanded
      <4>3. Entered(module, stack, instrs[i].path)
        BY <1>2 DEF CodeIInv, InstrsPlaced
      <4>4. ~ Begins(frame.path, instrs[i].path)
        BY <1>4, <4>2, <4>3
      <4>5. ~ (i > frame.start)
        BY <1>1, <1>4, <4>1
      <4>6. QED BY <4>4, <4>5
    <3>2. frame.start \in 0 .. Len(instrs)
      BY <1>1, <1>4
    <3>3. QED BY <3>1, <3>2 DEF FrameStarts
  <2>3. QED BY <1>3, <2>1, <2>2 DEF FramesStart
<1>8. \A k \in 2 .. n + 1 : k = n + 1 \/ k \in 2 .. n
  BY <1>1
<1>9. \A k \in 2 .. n : k \in DOMAIN stack /\ k # n + 1
  BY <1>1
<1>10. FramesReserve(stack, records)
  BY <1>2 DEF RecordsIInv
<1>11. \A k \in 2 .. n : t[k].record = stack[k].record /\ t[k].record \in DOMAIN records
  BY <1>3, <1>9, <1>10 DEF FramesReserve, n
<1>12. t[n + 1].record = last
  BY <1>3, <1>4
<1>13. FramesReserve(t, rs)
  <2>1. t[1].record = 0
    <3>1. 1 \in DOMAIN stack
      BY <1>1
    <3>2. QED BY <1>3, <1>10, <3>1 DEF FramesReserve
  <2>2. ASSUME NEW k \in 2 .. n + 1
        PROVE  /\ t[k].record \in DOMAIN rs /\ rs[t[k].record] = NoValue
               /\ \A j \in 2 .. n + 1 : t[j].record = t[k].record => j = k
    <3>1. CASE k = n + 1
      <4>1. \A j \in 2 .. n + 1 : t[j].record = last => j = n + 1
        BY <1>6, <1>8, <1>11
      <4>2. QED BY <1>5, <1>6, <1>12, <3>1, <4>1
    <3>2. CASE k \in 2 .. n
      <4>1. stack[k].record \in DOMAIN records /\ records[stack[k].record] = NoValue
            /\ \A j \in 2 .. n : stack[j].record = stack[k].record => j = k
        BY <1>10, <3>2 DEF FramesReserve, n
      <4>2. t[k].record = stack[k].record
        BY <1>11, <3>2
      <4>3. t[k].record \in DOMAIN rs /\ rs[t[k].record] = NoValue
        <5>1. \A c \in DOMAIN records : c \in DOMAIN rs
          BY <1>5 DEF last
        <5>2. QED BY <1>5, <4>1, <4>2, <5>1
      <4>4. \A j \in 2 .. n + 1 : t[j].record = t[k].record => j = k
        BY <1>6, <1>8, <1>11, <1>12, <4>1, <4>2
      <4>5. QED BY <4>3, <4>4
    <3>3. QED BY <1>8, <3>1, <3>2
  <2>3. QED BY <1>3, <2>1, <2>2 DEF FramesReserve
<1>14. DOMAIN rs \ Open(t) = DOMAIN records \ Open(stack)
  <2>1. Open(t) = {t[k].record : k \in 2 .. n + 1}
    BY <1>3 DEF Open
  <2>2. Open(stack) = {stack[k].record : k \in 2 .. n}
    BY DEF Open, n
  <2>3. n + 1 \in 2 .. n + 1 /\ \A k \in 2 .. n : k \in 2 .. n + 1
    BY <1>1
  <2>4. Open(t) = Open(stack) \union {last}
    <3>1. ASSUME NEW c \in Open(t) PROVE c \in Open(stack) \union {last}
      BY <1>8, <1>11, <1>12, <2>1, <2>2
    <3>2. ASSUME NEW c \in Open(stack) \union {last} PROVE c \in Open(t)
      BY <1>11, <1>12, <2>1, <2>2, <2>3
    <3>3. QED BY <3>1, <3>2
  <2>5. \A c \in DOMAIN records : c \in DOMAIN rs /\ c # last
    BY <1>5, <1>6 DEF last
  <2>6. QED BY <1>6, <2>4, <2>5
<1>15. \A c \in DOMAIN rs \ Open(t) : rs[c] = records[c]
  BY <1>5, <1>14
<1>16. RecordsFilled(module, t, rs)
  <2>1. ASSUME NEW c \in DOMAIN rs \ Open(t) PROVE rs[c] \in Filled /\ Past(module, t, rs[c].path)
    <3>1. records[c] \in Filled /\ Past(module, stack, records[c].path)
      BY <1>2, <1>14 DEF RecordsIInv, RecordsFilled
    <3>2. records[c].path \in Seq(OpIds)
      BY <3>1 DEF Filled
    <3>3. QED BY <1>3, <1>15, <3>1, <3>2 DEF Grows
  <2>2. QED BY <2>1 DEF RecordsFilled
<1>17. RecordsListed(t, instrs, rs)
  BY <1>2, <1>14, <1>15 DEF RecordsIInv, RecordsListed
<1>18. RecordsNoted(t, rs, qubits, escapes)
  BY <1>2, <1>14, <1>15 DEF RecordsIInv, RecordsNoted
<1>19. RecordsDistinct(t, rs)
  BY <1>2, <1>14, <1>15 DEF RecordsIInv, RecordsDistinct
<1>20. QED BY <1>7, <1>13, <1>16, <1>17, <1>18, <1>19 DEF RecordsIInv

\* EnterCall.
LEMMA EnterKeeps == ASSUME ExpansionIInv, EnterCall PROVE ExpansionIInv'
<1>1. ExpansionNow /\ Lone(module, stack, instrs)
  BY DEF ExpansionIInv
<1>2. Calling /\ phase = "expanding"
  BY <1>1 DEF EnterCall, Calling, Running
<1> DEFINE t == Append(stack, CalledFrame)
           rs == Append(records, NoValue)
<1>3. /\ stack' = t /\ records' = rs
      /\ UNCHANGED <<module, qubits, instrs, escapes, returned, phase>>
  BY DEF EnterCall, CalledFrame, CalledBinding
<1>4. t = Append(stack, CalledFrame) /\ rs = Append(records, NoValue)
  OBVIOUS
<1> HIDE DEF t, rs
<1>5. /\ t \in Seq(Frames) /\ Len(t) = Len(stack) + 1 /\ Chained(module, t)
  BY <1>2, <1>4, CallGrows
<1>6. ValuesIInv(module, t, qubits, Len(instrs), escapes)
  BY <1>2, <1>4, CallValues
<1>7. CodeIInv(module, t, qubits, instrs)
  BY <1>2, <1>4, CallCode
<1>8. RecordsIInv(module, t, qubits, instrs, rs, escapes)
  BY <1>2, <1>4, CallRecords
<1>9. Typed'
  <2>1. /\ module \in Modules /\ Len(stack) \in Nat /\ qubits \in Seq(Instances)
        /\ instrs \in Seq(Expanded)
        /\ records \in Seq(Filled \union {NoValue}) /\ escapes \in Seq(Ids)
        /\ phase \in {"expanding", "expanded", "invalid"}
    BY <1>1 DEF ExpansionNow, Typed
  <2>2. rs \in Seq(Filled \union {NoValue})
    BY <1>4, <2>1
  <2>3. Len(t) # 0
    BY <1>5, <2>1
  <2>4. QED BY <1>3, <1>5, <2>1, <2>2, <2>3 DEF Typed
<1>10. ExpansionNow'
  BY <1>3, <1>5, <1>6, <1>7, <1>8, <1>9 DEF ExpansionNow
<1>11. ExpansionDone'
  BY <1>2, <1>3 DEF ExpansionDone
<1>12. Lone(module, t, instrs)
  <2>1. SUFFICES ASSUME CallInstrs(module.programs[module.entry]) = {} PROVE FALSE
    BY DEF Lone
  <2>2. Len(stack) = 1
    BY <1>1, <2>1 DEF Lone
  <2>3. /\ 1 \in DOMAIN stack /\ Top = stack[1] /\ Top.pc \in DOMAIN Code(module, Top.prog)
        /\ Current = Code(module, Top.prog)[Top.pc]
    BY <1>2, <2>2, TopFacts DEF Calling, ExpansionNow
  <2>4. Top.prog = module.entry
    BY <1>1, <2>3 DEF ExpansionNow, Chained
  <2>5. Top.pc \in CallInstrs(module.programs[module.entry])
    BY <1>2, <2>3, <2>4 DEF Calling, CallInstrs, Code
  <2>6. QED BY <2>1, <2>5
<1>13. QED BY <1>3, <1>10, <1>11, <1>12 DEF ExpansionIInv

-----------------------------------------------------------------------------
(* Returning from a call.                                                  *)

\* At its end an activation has a value for every name its return may use.
LEMMA AllBound ==
    ASSUME ExpansionNow, Finished, Top.pending = {}, ParametersBound
    PROVE  /\ KnownBefore(Program, Len(Program.code) + 1) \subseteq DOMAIN Top.bound
           /\ \A k \in DOMAIN Program.leaves :
                 Program.leaves[k].quantum => /\ Program.leaves[k].id \in DOMAIN Top.bound
                                              /\ Top.bound[Program.leaves[k].id] \in QubitsOf(qubits)
<1>1. /\ Len(stack) \in DOMAIN stack /\ Top = stack[Len(stack)] /\ module \in Modules
      /\ Top.prog \in DOMAIN module.programs /\ Program = module.programs[Top.prog]
      /\ Top.pc = Len(Code(module, Top.prog)) + 1 /\ Len(Code(module, Top.prog)) \in Nat
      /\ DOMAIN Code(module, Top.prog) = 1 .. Len(Code(module, Top.prog))
  BY TopFacts DEF ExpansionNow, Typed
<1>2. Code(module, Top.prog) = Program.code
  BY <1>1 DEF Code
<1>3. NamesPassed(module, Top, Len(stack)) /\ NamesValues(Top, qubits, escapes)
  BY <1>1 DEF ExpansionNow, ValuesIInv, FramesBound, FrameBound
<1>4. ASSUME NEW d \in DOMAIN Program.defs PROVE Program.defs[d].id \in DOMAIN Top.bound
  <2>1. CASE d \in LocalDefs(Program)
    BY <1>1, <1>3, <2>1 DEF NamesPassed
  <2>2. CASE d \notin LocalDefs(Program)
    <3>1. Program.defs[d].id \in ParamIds(Program)
      BY <2>2 DEF LocalDefs
    <3>2. QED BY <3>1 DEF ParametersBound, IsBound, ParamIds
  <2>3. QED BY <2>1, <2>2
<1>5. DefinedIds(Program) \subseteq DOMAIN Top.bound
  BY <1>4 DEF DefinedIds
<1>6. ASSUME NEW i \in CallInstrs(Program), Program.code[i].result # NoValue
      PROVE  Program.code[i].result \in DOMAIN Top.bound
  <2>1. i \in 1 .. Top.pc - 1 /\ Code(module, Top.prog)[i].kind = "call"
    BY <1>1, <1>2 DEF CallInstrs
  <2>2. QED BY <1>2, <1>3, <1>6, <2>1 DEF NamesPassed
<1>7. KnownBefore(Program, Len(Program.code) + 1) \subseteq DOMAIN Top.bound
  BY <1>5, <1>6 DEF KnownBefore
<1>8. ASSUME NEW k \in DOMAIN Program.leaves, Program.leaves[k].quantum
      PROVE  /\ Program.leaves[k].id \in DOMAIN Top.bound
             /\ Top.bound[Program.leaves[k].id] \in QubitsOf(qubits)
  <2>1. IsLogicalProgram(Program)
    BY <1>1, ProgramFacts
  <2>2. Program.leaves[k].id \in KnownBefore(Program, Len(Program.code) + 1)
    BY <1>8, <2>1 DEF IsLogicalProgram, ReturnDeclared
  <2>3. Program.leaves[k].id \in DOMAIN Top.bound
    BY <1>7, <2>2
  <2>4. QED BY <1>3, <2>3 DEF NamesValues
<1>9. QED BY <1>7, <1>8

Returning == ExpansionNow /\ Finished /\ Top.pending = {} /\ Len(stack) > 1

Caller == stack[Len(stack) - 1]

CallMade == Code(module, Caller.prog)[Caller.pc]

ReturnedValue == IF IsScalarQuantum(Program) THEN Top.bound[Program.leaves[1].id] ELSE NoValue

PassedCall == [Caller EXCEPT !.pc = Caller.pc + 1]

Resumed ==
    IF CallMade.result = NoValue THEN PassedCall ELSE Bind(PassedCall, CallMade.result, ReturnedValue)

StackAfter == Append(SubSeq(stack, 1, Len(stack) - 2), Resumed)

EscapesAfter ==
    IF CallMade.result # NoValue /\ InstantiatedBy(ReturnedValue, Top.path)
    THEN Append(escapes, ReturnedValue) ELSE escapes

RecordMade ==
    [path |-> Top.path, caller |-> Caller.prog, callee |-> Top.prog, op |-> CallMade.op,
     arguments |-> CallMade.refs, locals |-> Top.locals,
     instrs |-> [i \in 1 .. (Len(instrs) - Top.start) |->
                    <<instrs[Top.start + i].path, instrs[Top.start + i].op>>],
     returned |-> ReturnedValue]

LEMMA ReturnFacts ==
    ASSUME Returning
    PROVE  /\ Len(stack) - 1 \in Nat /\ Len(stack) - 1 \in DOMAIN stack /\ Len(stack) \in DOMAIN stack
           /\ Len(stack) - 1 # 0 /\ Len(stack) \in Nat /\ DOMAIN stack = 1 .. Len(stack)
           /\ Top = stack[Len(stack)] /\ Top \in Frames
           /\ Top.prog \in DOMAIN module.programs /\ Program = module.programs[Top.prog]
           /\ Caller \in Frames /\ Caller.prog \in DOMAIN module.programs
           /\ Caller.pc \in DOMAIN Code(module, Caller.prog) /\ Caller.pc \in Nat
           /\ Caller.pc + 1 \in 1 .. Len(Code(module, Caller.prog)) + 1
           /\ CallMade.kind = "call" /\ CallMade.callee = Top.prog
           /\ CallMade.op \in OpIds /\ CallMade.result \in Names
           /\ (CallMade.result # NoValue) <=> IsScalarQuantum(Program)
           /\ CallMade.result # NoValue =>
                 /\ ReturnedValue \in QubitsOf(qubits) /\ ReturnedValue \in Ids
                 /\ Begins(ReturnedValue[1], Top.path) \/ ReturnedValue \in ToSet(escapes)
           /\ CallMade.result = NoValue => ReturnedValue = NoValue
           /\ CallMade.result \notin DOMAIN Caller.bound
<1> DEFINE n == Len(stack) - 1
<1>1. /\ n \in Nat /\ n \in DOMAIN stack /\ n + 1 \in DOMAIN stack /\ n # 0 /\ Len(stack) = n + 1
      /\ DOMAIN stack = 1 .. n + 1
  BY DEF Returning, ExpansionNow, Typed
<1>2. /\ module \in Modules /\ stack \in Seq(Frames) /\ Chained(module, stack)
      /\ qubits \in Seq(Instances) /\ ValuesIInv(module, stack, qubits, Len(instrs), escapes)
  BY DEF Returning, ExpansionNow, Typed
<1>3. /\ Top = stack[n + 1] /\ Top \in Frames
      /\ Top.prog \in DOMAIN module.programs /\ Program = module.programs[Top.prog]
  BY <1>1, TopFacts, Zenon DEF Returning, ExpansionNow
<1>4. Caller = stack[n]
  BY DEF Caller
<1> HIDE DEF n
<1>5. /\ Caller \in Frames /\ Caller.prog \in DOMAIN module.programs
      /\ Caller.pc \in 1 .. Len(Code(module, Caller.prog)) + 1
  BY <1>1, <1>2, <1>4, StackFacts
<1>6. StandsAtCall(module, stack, n)
  <2>1. n \in 1 .. (n + 1) - 1
    BY <1>1
  <2>2. QED BY <1>1, <1>2, <2>1 DEF Chained
<1>7. Caller.pc \in DOMAIN Code(module, Caller.prog) /\ CallMade.kind = "call"
      /\ CallMade.callee = Top.prog
  BY <1>3, <1>4, <1>6 DEF StandsAtCall, CallAt, CallMade
<1>8. Len(Code(module, Caller.prog)) \in Nat
      /\ DOMAIN Code(module, Caller.prog) = 1 .. Len(Code(module, Caller.prog))
  BY <1>2, <1>5, ProgramFacts
<1>9. Caller.pc \in Nat /\ Caller.pc + 1 \in 1 .. Len(Code(module, Caller.prog)) + 1
  <2>1. Caller.pc \in 1 .. Len(Code(module, Caller.prog))
    BY <1>7, <1>8
  <2>2. QED BY <1>8, <2>1
<1>10. CallMade.op \in OpIds /\ CallMade.result \in Names
  BY <1>2, <1>5, <1>7, ProgramFacts DEF CallMade
<1>11. /\ CallMade.result # NoValue => IsScalarQuantum(Program)
       /\ CallMade.result = NoValue => Program.shape = "none"
  BY <1>2, <1>3, <1>5, <1>7, UseFacts DEF CallMade
<1>12. CallMade.result = NoValue => ~ IsScalarQuantum(Program)
  BY <1>11 DEF IsScalarQuantum
<1>13. NamesPassed(module, Top, n + 1) /\ NamesValues(Top, qubits, escapes)
  BY <1>1, <1>2, <1>3 DEF ValuesIInv, FramesBound, FrameBound
<1>14. ParametersBound
  <2>1. n + 1 > 1
    BY <1>1
  <2>2. QED BY <1>3, <1>13, <2>1 DEF NamesPassed, ParametersBound, IsBound
<1>15. ASSUME IsScalarQuantum(Program)
       PROVE  /\ ReturnedValue \in QubitsOf(qubits) /\ ReturnedValue \in Ids
              /\ Begins(ReturnedValue[1], Top.path) \/ ReturnedValue \in ToSet(escapes)
  <2>1. Program.leaves[1].quantum /\ Program.shape = "scalar"
    BY <1>15 DEF IsScalarQuantum
  <2>2. 1 \in DOMAIN Program.leaves
    <3>1. Len(Program.leaves) = 1 /\ DOMAIN Program.leaves = 1 .. Len(Program.leaves)
      BY <1>2, <1>3, <2>1, DefinitionFacts
    <3>2. QED BY <3>1
  <2>3. Program.leaves[1].id \in DOMAIN Top.bound
        /\ Top.bound[Program.leaves[1].id] \in QubitsOf(qubits)
    BY <1>14, <2>1, <2>2, AllBound DEF Returning
  <2>4. ReturnedValue = Top.bound[Program.leaves[1].id]
    BY <1>15 DEF ReturnedValue
  <2>5. Top.bound \in [DOMAIN Top.bound -> Ids]
    BY TopFacts, Zenon DEF Returning, ExpansionNow
  <2>6. ReturnedValue \in Ids
    BY <2>3, <2>4, <2>5
  <2>7. Begins(ReturnedValue[1], Top.path) \/ ReturnedValue \in ToSet(escapes)
    BY <1>13, <2>3, <2>4 DEF NamesValues
  <2>8. QED BY <2>3, <2>4, <2>6, <2>7
<1>16. CallMade.result = NoValue => ReturnedValue = NoValue
  BY <1>12 DEF ReturnedValue
<1>17. CallMade.result \notin DOMAIN Caller.bound
  <2>1. NamesKnown(module, Caller)
    BY <1>1, <1>2, <1>4 DEF ValuesIInv, FramesBound, FrameBound
  <2>2. IsLogicalProgram(module.programs[Caller.prog])
    BY <1>2, <1>5, ProgramFacts
  <2>3. InstructionDeclared(module.programs[Caller.prog], Caller.pc)
    BY <1>7, <2>2, Zenon DEF IsLogicalProgram, Code
  <2>4. CallMade.result \notin KnownBefore(module.programs[Caller.prog], Caller.pc)
    BY <1>7, <2>3, Zenon DEF InstructionDeclared, CallMade, Code
  <2>5. QED BY <2>1, <2>4 DEF NamesKnown
<1>18. QED
  BY <1>1, <1>3, <1>5, <1>7, <1>9, <1>10, <1>11, <1>12, <1>15, <1>16, <1>17 DEF n

LEMMA ResumedFacts ==
    ASSUME Returning
    PROVE  /\ Resumes(module, Caller, Resumed) /\ Extends(Caller, Resumed)
           /\ Resumed.pc = Caller.pc + 1
           /\ Resumed.pending = Caller.pending
           /\ \A x \in DOMAIN Resumed.bound :
                 \/ x \in DOMAIN Caller.bound /\ Resumed.bound[x] = Caller.bound[x]
                 \/ /\ CallMade.result # NoValue /\ x = CallMade.result
                    /\ Resumed.bound[x] = ReturnedValue
           /\ CallMade.result # NoValue => CallMade.result \in DOMAIN Resumed.bound
<1>1. /\ Caller \in Frames /\ Caller.pc \in Nat
      /\ Caller.pc + 1 \in 1 .. Len(Code(module, Caller.prog)) + 1
      /\ CallMade.result \in Names
      /\ CallMade.result \notin DOMAIN Caller.bound
  BY ReturnFacts
<1>2. CallMade.result # NoValue => ReturnedValue \in Ids
  BY ReturnFacts
<1>3. Caller.pc + 1 \in Nat /\ Caller.pc <= Caller.pc + 1
  BY <1>1
<1>4. /\ PassedCall \in Frames /\ PassedCall.prog = Caller.prog /\ PassedCall.path = Caller.path
      /\ PassedCall.calls = Caller.calls /\ PassedCall.pc = Caller.pc + 1
      /\ PassedCall.bound = Caller.bound /\ PassedCall.pending = Caller.pending
      /\ PassedCall.record = Caller.record /\ PassedCall.start = Caller.start
  BY <1>1, <1>3 DEF PassedCall, Frames
<1>5. CASE CallMade.result = NoValue
  <2>1. Resumed = PassedCall
    BY <1>5 DEF Resumed
  <2>2. Resumes(module, Caller, Resumed)
    BY <1>1, <1>3, <1>4, <2>1 DEF Resumes
  <2>3. Extends(Caller, Resumed)
    BY <1>4, <2>1 DEF Extends
  <2>4. QED BY <1>4, <1>5, <2>1, <2>2, <2>3
<1>6. CASE CallMade.result # NoValue
  <2> DEFINE new == Bind(PassedCall, CallMade.result, ReturnedValue)
  <2>1. /\ new \in Frames
        /\ new.prog = PassedCall.prog /\ new.path = PassedCall.path /\ new.calls = PassedCall.calls
        /\ new.pc = PassedCall.pc /\ new.pending = PassedCall.pending
        /\ new.record = PassedCall.record /\ new.start = PassedCall.start
        /\ DOMAIN new.bound = DOMAIN PassedCall.bound \union {CallMade.result}
        /\ new.bound[CallMade.result] = ReturnedValue
        /\ \A x \in DOMAIN PassedCall.bound : x # CallMade.result => new.bound[x] = PassedCall.bound[x]
    <3>1. ReturnedValue \in Ids
      BY <1>2, <1>6
    <3>2. QED BY <1>1, <1>4, <3>1, BindFacts
  <2>2. Resumed = new
    BY <1>6 DEF Resumed
  <2> HIDE DEF new
  <2>3. Resumes(module, Caller, Resumed)
    BY <1>1, <1>3, <1>4, <2>1, <2>2 DEF Resumes
  <2>4. Extends(Caller, Resumed)
    BY <1>1, <1>4, <2>1, <2>2 DEF Extends
  <2>5. \A x \in DOMAIN Resumed.bound :
           \/ x \in DOMAIN Caller.bound /\ Resumed.bound[x] = Caller.bound[x]
           \/ x = CallMade.result /\ Resumed.bound[x] = ReturnedValue
    BY <1>4, <2>1, <2>2
  <2>6. QED BY <1>4, <1>6, <2>1, <2>2, <2>3, <2>4, <2>5
<1>7. QED BY <1>5, <1>6

LEMMA ReturnGrows ==
    ASSUME Returning
    PROVE  /\ Grows(module, stack, StackAfter) /\ Chained(module, StackAfter)
           /\ StackAfter \in Seq(Frames)
           /\ Len(StackAfter) = Len(stack) - 1 /\ DOMAIN StackAfter = 1 .. Len(stack) - 1
           /\ StackAfter[Len(stack) - 1] = Resumed
           /\ \A k \in DOMAIN StackAfter : k # Len(stack) - 1 => StackAfter[k] = stack[k]
           /\ \A k \in DOMAIN StackAfter : k \in DOMAIN stack /\ Resumes(module, stack[k], StackAfter[k])
           /\ Past(module, StackAfter, Top.path)
<1> DEFINE n == Len(stack) - 1
           t == StackAfter
<1>1. /\ module \in Modules /\ stack \in Seq(Frames) /\ Len(stack) > 1 /\ Chained(module, stack)
  BY DEF Returning, ExpansionNow, Typed
<1>2. /\ n \in Nat /\ n # 0 /\ Len(stack) = n + 1 /\ DOMAIN stack = 1 .. n + 1
      /\ Top = stack[Len(stack)]
  BY ReturnFacts
<1>0. Extends(stack[n], Resumed)
  BY ResumedFacts DEF Caller
<1>3. Resumes(module, stack[Len(stack) - 1], Resumed) /\ Resumed.pc = stack[Len(stack) - 1].pc + 1
  BY ResumedFacts DEF Caller
<1>4. t = Append(SubSeq(stack, 1, Len(stack) - 2), Resumed)
  BY DEF StackAfter
<1> HIDE DEF t
<1>5. ReturnsTo(module, stack, Resumed, t)
  BY <1>1, <1>3, <1>4, TopReturns
<1>6. /\ t \in Seq(Frames) /\ Len(t) = n /\ DOMAIN t = 1 .. n
      /\ t[n] = Resumed /\ \A k \in DOMAIN t : k # n => t[k] = stack[k]
  BY <1>5 DEF ReturnsTo
<1>7. /\ \A k \in DOMAIN t : Resumes(module, stack[k], t[k])
      /\ Chained(module, t)
      /\ \A p \in Seq(OpIds) : Past(module, stack, p) => Past(module, t, p)
      /\ \A p \in Seq(OpIds) : Entered(module, stack, p) => Entered(module, t, p)
      /\ Past(module, t, stack[Len(stack)].path)
  BY <1>5 DEF ReturnsTo
<1>12. \A k \in DOMAIN t : k \in DOMAIN stack /\ stack[k] \in Frames
  BY <1>1, <1>2, <1>6
<1> HIDE DEF n
<1>13. \A k \in DOMAIN t : Extends(stack[k], t[k])
  <2>1. ASSUME NEW k \in DOMAIN t PROVE Extends(stack[k], t[k])
    <3>1. CASE k = n
      BY <1>0, <1>6, <3>1
    <3>2. CASE k # n
      BY <1>6, <3>2 DEF Extends
    <3>3. QED BY <3>1, <3>2
  <2>2. QED BY <2>1
<1>14. Grows(module, stack, t)
  BY <1>6, <1>7, <1>12, <1>13 DEF Grows
<1>15. QED BY <1>2, <1>6, <1>7, <1>12, <1>14 DEF n, t

\* What the caller then names.
LEMMA ReturnedKnown ==
    ASSUME Returning
    PROVE  /\ QubitsOf(qubits) = QubitsOf(qubits) /\ ToSet(escapes) \subseteq ToSet(EscapesAfter)
           /\ EscapesAfter \in Seq(Ids)
           /\ CallMade.result # NoValue =>
                 Begins(ReturnedValue[1], Caller.path) \/ ReturnedValue \in ToSet(EscapesAfter)
           /\ CallMade.result # NoValue /\ Begins(Top.path, ReturnedValue[1]) =>
                 ReturnedValue \in ToSet(EscapesAfter)
<1>1. /\ module \in Modules /\ stack \in Seq(Frames) /\ Chained(module, stack) /\ escapes \in Seq(Ids)
  BY DEF Returning, ExpansionNow, Typed
<1>2. Len(stack) - 1 \in DOMAIN stack /\ Len(stack) \in DOMAIN stack /\ Len(stack) \in Nat
      /\ Top = stack[Len(stack)]
  BY ReturnFacts
<1>3. /\ Caller.path \in Seq(OpIds) /\ Len(Caller.path) = Len(stack) - 2
      /\ Top.path \in Seq(OpIds) /\ Len(Top.path) = Len(stack) - 1
  <2>1. Caller.path \in Seq(OpIds) /\ Len(Caller.path) = (Len(stack) - 1) - 1
    BY <1>1, <1>2, StackFacts DEF Caller
  <2>2. Top.path \in Seq(OpIds) /\ Len(Top.path) = Len(stack) - 1
    BY <1>1, <1>2, StackFacts
  <2>3. QED BY <1>2, <2>1, <2>2
<1>4. Begins(Caller.path, Top.path)
  BY <1>1, <1>2, RunningBelow DEF Caller
<1>5. ASSUME CallMade.result # NoValue
      PROVE  /\ ReturnedValue \in Ids /\ ReturnedValue[1] \in Seq(OpIds) /\ Len(ReturnedValue[1]) \in Nat
             /\ InstantiatedBy(ReturnedValue, Top.path) <=> Begins(Top.path, ReturnedValue[1])
             /\ Begins(ReturnedValue[1], Top.path) \/ ReturnedValue \in ToSet(escapes)
  <2>1. ReturnedValue \in Ids
    BY <1>5, ReturnFacts
  <2>2. ReturnedValue[1] \in Seq(OpIds)
    BY <2>1 DEF Ids
  <2>3. Begins(ReturnedValue[1], Top.path) \/ ReturnedValue \in ToSet(escapes)
    BY <1>5, ReturnFacts
  <2>4. QED BY <1>3, <2>1, <2>2, <2>3, PrefixBegins DEF InstantiatedBy
<1>6. CASE CallMade.result # NoValue /\ Begins(Top.path, ReturnedValue[1])
  <2>1. EscapesAfter = Append(escapes, ReturnedValue) /\ ReturnedValue \in Ids
    BY <1>5, <1>6 DEF EscapesAfter
  <2>2. ToSet(EscapesAfter) = ToSet(escapes) \union {ReturnedValue}
    BY <1>1, <2>1, AppendContents
  <2>3. EscapesAfter \in Seq(Ids)
    BY <1>1, <2>1, AppendFacts
  <2>4. QED BY <2>2, <2>3
<1>7. CASE ~ (CallMade.result # NoValue /\ Begins(Top.path, ReturnedValue[1]))
  <2>1. EscapesAfter = escapes
    BY <1>5, <1>7 DEF EscapesAfter
  <2>2. ASSUME CallMade.result # NoValue, ReturnedValue \notin ToSet(escapes)
        PROVE  Begins(ReturnedValue[1], Caller.path)
    <3>1. Begins(ReturnedValue[1], Top.path) /\ Len(ReturnedValue[1]) \in Nat
      BY <1>5, <2>2
    <3>2. ~ Begins(Top.path, ReturnedValue[1])
      BY <1>7, <2>2
    <3>3. Len(ReturnedValue[1]) <= Len(Top.path)
          /\ \A i \in 1 .. Len(ReturnedValue[1]) : ReturnedValue[1][i] = Top.path[i]
      BY <3>1 DEF Begins
    <3>4. Len(ReturnedValue[1]) # Len(Top.path)
      <4>1. SUFFICES ASSUME Len(ReturnedValue[1]) = Len(Top.path) PROVE FALSE
        OBVIOUS
      <4>2. Len(Top.path) <= Len(ReturnedValue[1])
        BY <1>3, <3>1, <4>1
      <4>3. \A i \in 1 .. Len(Top.path) : Top.path[i] = ReturnedValue[1][i]
        BY <3>3, <4>1
      <4>4. QED BY <3>2, <4>2, <4>3 DEF Begins
    <3>5. Len(ReturnedValue[1]) <= Len(Caller.path)
      BY <1>2, <1>3, <3>1, <3>3, <3>4
    <3>6. \A i \in 1 .. Len(ReturnedValue[1]) : i \in 1 .. Len(Caller.path)
      BY <1>2, <1>3, <3>1, <3>5
    <3>7. \A i \in 1 .. Len(Caller.path) : Caller.path[i] = Top.path[i]
      BY <1>4 DEF Begins
    <3>8. QED BY <3>3, <3>5, <3>6, <3>7 DEF Begins
  <2>3. QED BY <1>1, <1>7, <2>1, <2>2
<1>8. QED BY <1>6, <1>7

LEMMA ReturnValues ==
    ASSUME Returning
    PROVE  ValuesIInv(module, StackAfter, qubits, Len(instrs), EscapesAfter)
<1> DEFINE n == Len(stack) - 1
           t == StackAfter
           et == EscapesAfter
<1>1. /\ module \in Modules /\ qubits \in Seq(Instances) /\ stack \in Seq(Frames)
      /\ ValuesIInv(module, stack, qubits, Len(instrs), escapes)
  BY DEF Returning, ExpansionNow, Typed
<1>2. /\ n \in Nat /\ n \in DOMAIN stack /\ n # 0
      /\ Caller \in Frames /\ Caller.prog \in DOMAIN module.programs
      /\ Caller.pc \in DOMAIN Code(module, Caller.prog) /\ Caller.pc \in Nat
      /\ CallMade.result # NoValue => ReturnedValue \in QubitsOf(qubits)
      /\ CallMade.kind = "call"
  BY ReturnFacts
<1>3. /\ Grows(module, stack, t) /\ t[n] = Resumed
      /\ \A k \in DOMAIN t : k # n => t[k] = stack[k]
      /\ \A k \in DOMAIN t : k \in DOMAIN stack
  BY ReturnGrows
<1>4. /\ Resumes(module, Caller, Resumed) /\ Extends(Caller, Resumed)
      /\ Resumed.pc = Caller.pc + 1 /\ Resumed.pending = Caller.pending
      /\ \A x \in DOMAIN Resumed.bound :
            \/ x \in DOMAIN Caller.bound /\ Resumed.bound[x] = Caller.bound[x]
            \/ /\ CallMade.result # NoValue /\ x = CallMade.result
               /\ Resumed.bound[x] = ReturnedValue
      /\ CallMade.result # NoValue => CallMade.result \in DOMAIN Resumed.bound
  BY ResumedFacts
<1>5. /\ ToSet(escapes) \subseteq ToSet(et)
      /\ CallMade.result # NoValue =>
            Begins(ReturnedValue[1], Caller.path) \/ ReturnedValue \in ToSet(et)
  BY ReturnedKnown
<1>6. stack[n] = Caller
  BY DEF Caller
<1> HIDE DEF n, t, et
<1>7. QubitsPlaced(module, t, qubits)
  BY <1>1, <1>3, QubitsStayPlaced DEF ValuesIInv
<1>8. \A k \in DOMAIN stack : FrameBound(module, stack[k], k, qubits, escapes)
  BY <1>1 DEF ValuesIInv, FramesBound
<1>9. \A k \in DOMAIN stack : FrameBound(module, stack[k], k, qubits, et)
  BY <1>5, <1>8, ValuesStay
<1>10. FrameBound(module, Caller, n, qubits, et)
  BY <1>2, <1>6, <1>9
<1>11. Resumed.prog = Caller.prog /\ Resumed.path = Caller.path
  BY <1>4 DEF Resumes
<1>12. NamesValues(Resumed, qubits, et)
  <2>1. NamesValues(Caller, qubits, et)
    BY <1>10 DEF FrameBound
  <2>2. ASSUME NEW x \in DOMAIN Resumed.bound
        PROVE  /\ Resumed.bound[x] \in QubitsOf(qubits)
               /\ Begins(Resumed.bound[x][1], Resumed.path) \/ Resumed.bound[x] \in ToSet(et)
    <3>1. CASE x \in DOMAIN Caller.bound /\ Resumed.bound[x] = Caller.bound[x]
      BY <1>11, <2>1, <3>1 DEF NamesValues
    <3>2. CASE CallMade.result # NoValue /\ Resumed.bound[x] = ReturnedValue
      BY <1>2, <1>5, <1>11, <3>2
    <3>3. QED BY <1>4, <3>1, <3>2
  <2>3. QED BY <2>2 DEF NamesValues
<1>13. NamesKnown(module, Resumed)
  <2>1. DOMAIN Caller.bound \subseteq KnownBefore(module.programs[Caller.prog], Caller.pc)
    BY <1>10 DEF FrameBound, NamesKnown
  <2>2. KnownBefore(module.programs[Caller.prog], Caller.pc)
          \subseteq KnownBefore(module.programs[Caller.prog], Caller.pc + 1)
    BY <1>1, <1>2, KnownGrows
  <2>3. CallMade.result # NoValue
          => CallMade.result \in KnownBefore(module.programs[Caller.prog], Caller.pc + 1)
    BY <1>1, <1>2, KnownGrows DEF CallMade
  <2>4. DOMAIN Resumed.bound \subseteq KnownBefore(module.programs[Caller.prog], Caller.pc + 1)
    BY <1>4, <2>1, <2>2, <2>3
  <2>5. QED BY <1>4, <1>11, <2>4 DEF NamesKnown
<1>14. NamesPassed(module, Resumed, n)
  <2>1. NamesPassed(module, Caller, n)
    BY <1>10 DEF FrameBound
  <2>2. DOMAIN Caller.bound \subseteq DOMAIN Resumed.bound
    BY <1>4 DEF Extends
  <2>3. n > 1 => \A j \in DOMAIN module.programs[Caller.prog].params :
                    module.programs[Caller.prog].params[j] \in DOMAIN Resumed.bound
    BY <2>1, <2>2 DEF NamesPassed
  <2>4. \A d \in LocalDefs(module.programs[Caller.prog]) \ Caller.pending :
            module.programs[Caller.prog].defs[d].id \in DOMAIN Resumed.bound
    BY <2>1, <2>2 DEF NamesPassed
  <2>5. ASSUME NEW i \in 1 .. Resumed.pc - 1, Code(module, Caller.prog)[i].kind = "call",
               Code(module, Caller.prog)[i].result # NoValue
        PROVE  Code(module, Caller.prog)[i].result \in DOMAIN Resumed.bound
    <3>1. i \in 1 .. Caller.pc - 1 \/ i = Caller.pc
      BY <1>2, <1>4
    <3>2. CASE i \in 1 .. Caller.pc - 1
      <4>1. Code(module, Caller.prog)[i].result \in DOMAIN Caller.bound
        BY <2>1, <2>5, <3>2 DEF NamesPassed
      <4>2. QED BY <2>2, <4>1
    <3>3. CASE i = Caller.pc
      BY <1>4, <2>5, <3>3 DEF CallMade
    <3>4. QED BY <3>1, <3>2, <3>3
  <2>6. QED BY <1>4, <1>11, <2>3, <2>4, <2>5 DEF NamesPassed
<1>15. FrameBound(module, Resumed, n, qubits, et)
  BY <1>12, <1>13, <1>14 DEF FrameBound
<1>16. FramesBound(module, t, qubits, et)
  BY <1>3, <1>9, <1>15 DEF FramesBound
<1>17. QED BY <1>1, <1>7, <1>16 DEF ValuesIInv, t, et

LEMMA ReturnCode ==
    ASSUME Returning
    PROVE  CodeIInv(module, StackAfter, qubits, instrs)
<1> DEFINE n == Len(stack) - 1
           t == StackAfter
<1>1. /\ module \in Modules /\ instrs \in Seq(Expanded) /\ Chained(module, stack)
      /\ CodeIInv(module, stack, qubits, instrs)
  BY DEF Returning, ExpansionNow, Typed
<1>2. /\ n \in Nat /\ n \in DOMAIN stack /\ n # 0 /\ DOMAIN stack = 1 .. Len(stack) /\ Len(stack) \in Nat
      /\ Caller.pc \in Nat /\ CallMade.kind = "call"
  BY ReturnFacts
<1>3. /\ Grows(module, stack, t) /\ t[n] = Resumed /\ DOMAIN t = 1 .. n
      /\ \A k \in DOMAIN t : k # n => t[k] = stack[k]
  BY ReturnGrows
<1>4. Resumed.pc = Caller.pc + 1
  BY ResumedFacts
<1>5. stack[n] = Caller
  BY DEF Caller
<1> HIDE DEF n, t
<1>6. InstrsPlaced(module, t, instrs)
  BY <1>1, <1>3, InstrsStayPlaced DEF CodeIInv
<1>7. EntryCopied(module, t, instrs)
  <2>0. EntryCopied(module, stack, instrs)
    BY <1>1 DEF CodeIInv
  <2>1. CASE n # 1
    <3>1. t[1] = stack[1]
      BY <1>2, <1>3, <2>1
    <3>2. QED BY <2>0, <3>1 DEF EntryCopied
  <2>2. CASE n = 1
    <3>1. stack[1] = Caller /\ t[1].pc = Caller.pc + 1
      BY <1>3, <1>4, <1>5, <2>2
    <3>2. Caller.prog = module.entry
      BY <1>1, <3>1 DEF Chained
    <3>3. ASSUME NEW j \in 1 .. t[1].pc - 1, Code(module, module.entry)[j].kind # "call"
          PROVE  j \in 1 .. stack[1].pc - 1
      <4>1. j # Caller.pc
        BY <1>2, <3>2, <3>3 DEF CallMade
      <4>2. QED BY <1>2, <3>1, <4>1
    <3>4. QED BY <2>0, <3>3 DEF EntryCopied
  <2>3. QED BY <2>1, <2>2
<1>8. QED BY <1>1, <1>6, <1>7 DEF CodeIInv, t

\* What an instruction names is a name.
LEMMA RefsAreNames ==
    ASSUME NEW m \in Modules, NEW p \in DOMAIN m.programs, NEW i \in DOMAIN Code(m, p)
    PROVE  Code(m, p)[i].refs \in Seq(Names)
<1> DEFINE program == m.programs[p]
           refs == Code(m, p)[i].refs
<1>1. Len(refs) \in Nat /\ DOMAIN refs = 1 .. Len(refs) /\ \A r \in DOMAIN refs : refs[r] \in KnownBefore(program, i)
  BY ProgramFacts, UseFacts
<1>2. DefinedIds(program) \subseteq Names
  BY DefinitionFacts
<1>3. \A c \in CallInstrs(program) : program.code[c].result \in Names
  BY ProgramFacts DEF CallInstrs, Code
<1>4. KnownBefore(program, i) \subseteq Names
  BY <1>2, <1>3 DEF KnownBefore
<1>5. IsTuple(refs)
  BY ModulesAreTyped DEF Code
<1>6. refs \in Seq(ToSet(refs))
  BY <1>5 DEF IsTuple
<1> HIDE DEF refs
<1>7. \A r \in DOMAIN refs : refs[r] \in Names
  BY <1>1, <1>4
<1>8. refs \in [1 .. Len(refs) -> Names]
  BY <1>1, <1>6, <1>7
<1>9. refs \in Seq(Names)
  BY <1>1, <1>8
<1>10. QED BY <1>9 DEF refs

LEMMA RecordFacts ==
    ASSUME Returning
    PROVE  /\ RecordMade \in Filled /\ RecordMade.path = Top.path
           /\ RecordMade.returned = ReturnedValue
           /\ Len(RecordMade.instrs) = Len(instrs) - Top.start
           /\ Top.start \in 0 .. Len(instrs) /\ Len(instrs) \in Nat
           /\ \A n \in DOMAIN RecordMade.instrs :
                 RecordMade.instrs[n] = <<instrs[Top.start + n].path, instrs[Top.start + n].op>>
<1>1. /\ module \in Modules /\ instrs \in Seq(Expanded)
      /\ RecordsIInv(module, stack, qubits, instrs, records, escapes)
  BY DEF Returning, ExpansionNow, Typed
<1>2. /\ Len(stack) \in DOMAIN stack /\ Top = stack[Len(stack)] /\ Top \in Frames
      /\ Top.prog \in DOMAIN module.programs
      /\ Caller \in Frames /\ Caller.prog \in DOMAIN module.programs
      /\ Caller.pc \in DOMAIN Code(module, Caller.prog)
      /\ CallMade.op \in OpIds
      /\ CallMade.result # NoValue => ReturnedValue \in Ids
      /\ CallMade.result = NoValue => ReturnedValue = NoValue
  BY ReturnFacts
<1>3. Top.start \in 0 .. Len(instrs) /\ Len(instrs) \in Nat /\ Len(instrs) - Top.start \in Nat
  <2>1. FrameStarts(Top, instrs)
    BY <1>1, <1>2 DEF RecordsIInv, FramesStart
  <2>2. Top.start \in 0 .. Len(instrs) /\ Len(instrs) \in Nat
    BY <1>1, <2>1 DEF FrameStarts
  <2>3. QED BY <2>2
<1> DEFINE count == Len(instrs) - Top.start
           listed == [i \in 1 .. count |-> <<instrs[Top.start + i].path, instrs[Top.start + i].op>>]
<1>4. listed \in Seq(Seq(OpIds) \X OpIds) /\ Len(listed) = count /\ DOMAIN listed = 1 .. count
  <2>0. count \in Nat
    BY <1>3
  <2>1. ASSUME NEW i \in 1 .. count
        PROVE  <<instrs[Top.start + i].path, instrs[Top.start + i].op>> \in Seq(OpIds) \X OpIds
    <3>1. Top.start + i \in DOMAIN instrs
      BY <1>1, <1>3
    <3>2. instrs[Top.start + i] \in Expanded
      BY <1>1, <3>1
    <3>3. QED BY <3>2 DEF Expanded
  <2> HIDE DEF count
  <2>2. listed \in [1 .. count -> Seq(OpIds) \X OpIds]
    BY <2>1
  <2> HIDE DEF listed
  <2>3. QED BY <2>0, <2>2
<1>5. \A n \in DOMAIN listed : listed[n] = <<instrs[Top.start + n].path, instrs[Top.start + n].op>>
  OBVIOUS
<1>6. RecordMade =
        [path |-> Top.path, caller |-> Caller.prog, callee |-> Top.prog, op |-> CallMade.op,
         arguments |-> CallMade.refs, locals |-> Top.locals, instrs |-> listed,
         returned |-> ReturnedValue]
  BY DEF RecordMade
<1>7. CallMade.refs \in Seq(Names)
  BY <1>1, <1>2, RefsAreNames DEF CallMade
<1>8. Top.path \in Seq(OpIds) /\ Top.locals \in Seq(Ids)
  BY <1>2 DEF Frames
<1>9. Caller.prog \in ProgramNames /\ Top.prog \in ProgramNames
  BY <1>1, <1>2 DEF ProgramNames
<1>10. ReturnedValue \in Ids \union {NoValue}
  BY <1>2
<1> HIDE DEF listed, count
<1>11. RecordMade \in Filled
  BY <1>2, <1>4, <1>6, <1>7, <1>8, <1>9, <1>10 DEF Filled
<1>12. QED BY <1>3, <1>4, <1>5, <1>6, <1>11 DEF count

LEMMA ReturnReserve ==
    ASSUME Returning, NEW rs, rs = [records EXCEPT ![Top.record] = RecordMade]
    PROVE  /\ DOMAIN rs = DOMAIN records /\ Top.record \in DOMAIN records
           /\ rs[Top.record] = RecordMade
           /\ \A c \in DOMAIN records : c # Top.record => rs[c] = records[c]
           /\ FramesReserve(StackAfter, rs)
           /\ \A c \in DOMAIN rs \ Open(StackAfter) :
                 c = Top.record \/ c \in DOMAIN records \ Open(stack)
<1> DEFINE n == Len(stack) - 1
           t == StackAfter
<1>1. FramesReserve(stack, records) /\ records \in Seq(Filled \union {NoValue})
  BY DEF Returning, ExpansionNow, Typed, RecordsIInv
<1>2. /\ n \in Nat /\ n # 0 /\ DOMAIN stack = 1 .. n + 1 /\ Len(stack) = n + 1
      /\ Top = stack[n + 1]
  BY ReturnFacts
<1>3. /\ Len(t) = n /\ DOMAIN t = 1 .. n
      /\ \A k \in DOMAIN t : Resumes(module, stack[k], t[k])
  BY ReturnGrows
<1> HIDE DEF t, n
<1>4. \A k \in 1 .. n : t[k].record = stack[k].record
  BY <1>3 DEF Resumes
<1>5. n + 1 \in 2 .. n + 1 /\ 1 \in 1 .. n /\ \A k \in 2 .. n : k \in 2 .. n + 1 /\ k \in 1 .. n /\ k # n + 1
  BY <1>2
<1>6. /\ stack[1].record = 0
      /\ \A k \in 2 .. n + 1 : /\ stack[k].record \in DOMAIN records /\ records[stack[k].record] = NoValue
                               /\ \A j \in 2 .. n + 1 : stack[j].record = stack[k].record => j = k
  BY <1>1, <1>2 DEF FramesReserve
<1>7. Top.record \in DOMAIN records /\ \A k \in 2 .. n : stack[k].record # Top.record
  BY <1>2, <1>5, <1>6
<1>8. DOMAIN rs = DOMAIN records /\ rs[Top.record] = RecordMade
      /\ \A c \in DOMAIN records : c # Top.record => rs[c] = records[c]
  BY <1>1, <1>7
<1>9. FramesReserve(t, rs)
  <2>1. t[1].record = 0
    BY <1>4, <1>5, <1>6
  <2>2. ASSUME NEW k \in 2 .. n
        PROVE  /\ t[k].record \in DOMAIN rs /\ rs[t[k].record] = NoValue
               /\ \A j \in 2 .. n : t[j].record = t[k].record => j = k
    <3>1. k \in 2 .. n + 1 /\ t[k].record = stack[k].record
      BY <1>4, <1>5
    <3>2. stack[k].record \in DOMAIN records /\ records[stack[k].record] = NoValue
      BY <1>6, <3>1
    <3>3. stack[k].record # Top.record
      BY <1>7
    <3>4. rs[t[k].record] = NoValue /\ t[k].record \in DOMAIN rs
      BY <1>8, <3>1, <3>2, <3>3
    <3>5. \A j \in 2 .. n : t[j].record = t[k].record => j = k
      BY <1>4, <1>5, <1>6, <3>1
    <3>6. QED BY <3>4, <3>5
  <2>3. QED BY <1>3, <2>1, <2>2 DEF FramesReserve
<1>10. ASSUME NEW c \in DOMAIN rs \ Open(t)
       PROVE  c = Top.record \/ c \in DOMAIN records \ Open(stack)
  <2>1. Open(t) = {t[k].record : k \in 2 .. n} /\ Open(stack) = {stack[k].record : k \in 2 .. n + 1}
    BY <1>2, <1>3 DEF Open
  <2>2. SUFFICES ASSUME c \in Open(stack) PROVE c = Top.record
    BY <1>8
  <2>3. PICK k \in 2 .. n + 1 : c = stack[k].record
    BY <2>1, <2>2
  <2>4. CASE k = n + 1
    BY <1>2, <2>3, <2>4
  <2>5. CASE k \in 2 .. n
    <3>1. t[k].record = c
      BY <1>4, <1>5, <2>3, <2>5
    <3>2. QED BY <2>1, <2>5, <3>1
  <2>6. QED BY <1>2, <2>4, <2>5
<1>11. QED BY <1>7, <1>8, <1>9, <1>10 DEF t

LEMMA ReturnRecords ==
    ASSUME Returning, NEW rs, rs = [records EXCEPT ![Top.record] = RecordMade]
    PROVE  RecordsIInv(module, StackAfter, qubits, instrs, rs, EscapesAfter)
<1> DEFINE t == StackAfter
           et == EscapesAfter
<1>1. /\ module \in Modules /\ instrs \in Seq(Expanded) /\ stack \in Seq(Frames) /\ Chained(module, stack)
      /\ RecordsIInv(module, stack, qubits, instrs, records, escapes)
  BY DEF Returning, ExpansionNow, Typed
<1>2. /\ Len(stack) \in DOMAIN stack /\ Top = stack[Len(stack)] /\ Top \in Frames
      /\ CallMade.result # NoValue => ReturnedValue \in QubitsOf(qubits)
      /\ CallMade.result = NoValue => ReturnedValue = NoValue
  BY ReturnFacts
<1>3. /\ Grows(module, stack, t) /\ \A k \in DOMAIN t : k \in DOMAIN stack /\ Resumes(module, stack[k], t[k])
      /\ Past(module, t, Top.path)
  BY ReturnGrows
<1>4. /\ RecordMade \in Filled /\ RecordMade.path = Top.path /\ RecordMade.returned = ReturnedValue
      /\ Len(RecordMade.instrs) = Len(instrs) - Top.start
      /\ Top.start \in 0 .. Len(instrs) /\ Len(instrs) \in Nat
      /\ \A n \in DOMAIN RecordMade.instrs :
            RecordMade.instrs[n] = <<instrs[Top.start + n].path, instrs[Top.start + n].op>>
  BY RecordFacts
<1>5. /\ DOMAIN rs = DOMAIN records /\ Top.record \in DOMAIN records
      /\ rs[Top.record] = RecordMade
      /\ \A c \in DOMAIN records : c # Top.record => rs[c] = records[c]
      /\ FramesReserve(t, rs)
      /\ \A c \in DOMAIN rs \ Open(t) : c = Top.record \/ c \in DOMAIN records \ Open(stack)
  BY ReturnReserve
<1>6. /\ ToSet(escapes) \subseteq ToSet(et)
      /\ CallMade.result # NoValue /\ Begins(Top.path, ReturnedValue[1]) => ReturnedValue \in ToSet(et)
  BY ReturnedKnown
<1>7. \A k \in DOMAIN stack : FrameStarts(stack[k], instrs)
  BY <1>1 DEF RecordsIInv, FramesStart
<1> HIDE DEF t, et
<1>8. FramesStart(t, instrs)
  BY <1>3, <1>7 DEF FramesStart, FrameStarts, Resumes
<1>9. ASSUME NEW c \in DOMAIN rs \ Open(t), c # Top.record
      PROVE  /\ c \in DOMAIN records \ Open(stack) /\ rs[c] = records[c]
             /\ records[c] \in Filled /\ Past(module, stack, records[c].path)
             /\ Listed(instrs, records[c]) /\ Noted(records[c], qubits, escapes)
  <2>1. c \in DOMAIN records \ Open(stack) /\ rs[c] = records[c]
    BY <1>5, <1>9
  <2>2. records[c] \in Filled /\ Past(module, stack, records[c].path)
    BY <1>1, <2>1 DEF RecordsIInv, RecordsFilled
  <2>3. Listed(instrs, records[c]) /\ Noted(records[c], qubits, escapes)
    BY <1>1, <2>1 DEF RecordsIInv, RecordsListed, RecordsNoted
  <2>4. QED BY <2>1, <2>2, <2>3
<1>10. RecordsFilled(module, t, rs)
  <2>1. ASSUME NEW c \in DOMAIN rs \ Open(t) PROVE rs[c] \in Filled /\ Past(module, t, rs[c].path)
    <3>1. CASE c = Top.record
      BY <1>3, <1>4, <1>5, <3>1
    <3>2. CASE c # Top.record
      <4>1. records[c] \in Filled /\ Past(module, stack, records[c].path) /\ rs[c] = records[c]
        BY <1>9, <3>2
      <4>2. records[c].path \in Seq(OpIds)
        BY <4>1 DEF Filled
      <4>3. QED BY <1>3, <4>1, <4>2 DEF Grows
    <3>3. QED BY <3>1, <3>2
  <2>2. QED BY <2>1 DEF RecordsFilled
<1>11. RecordsListed(t, instrs, rs)
  <2>1. Listed(instrs, RecordMade)
    <3>1. Top.start \in 0 .. Len(instrs) /\ Top.start + Len(RecordMade.instrs) = Len(instrs)
      BY <1>4
    <3>2. ASSUME NEW i \in DOMAIN instrs
          PROVE  Begins(RecordMade.path, instrs[i].path)
                   <=> i \in Top.start + 1 .. Top.start + Len(RecordMade.instrs)
      <4>1. (i > Top.start) <=> Begins(Top.path, instrs[i].path)
        BY <1>2, <1>7 DEF FrameStarts
      <4>2. i \in Nat /\ i <= Len(instrs)
        BY <1>1
      <4>3. (i > Top.start) <=> i \in Top.start + 1 .. Len(instrs)
        BY <1>4, <4>2
      <4>4. QED BY <1>4, <3>1, <4>1, <4>3
    <3>3. Top.start + Len(RecordMade.instrs) <= Len(instrs)
      BY <1>4, <3>1
    <3>4. QED BY <1>4, <3>1, <3>2, <3>3 DEF Listed
  <2>2. QED BY <1>5, <1>9, <2>1 DEF RecordsListed
<1>12. RecordsNoted(t, rs, qubits, et)
  <2>1. Noted(RecordMade, qubits, et)
    BY <1>2, <1>4, <1>6 DEF Noted
  <2>2. ASSUME NEW c \in DOMAIN rs \ Open(t) PROVE Noted(rs[c], qubits, et)
    <3>1. CASE c = Top.record
      BY <1>5, <2>1, <3>1
    <3>2. CASE c # Top.record
      <4>1. Noted(records[c], qubits, escapes) /\ rs[c] = records[c]
        BY <1>9, <3>2
      <4>2. QED BY <1>6, <4>1, ValuesStay
    <3>3. QED BY <3>1, <3>2
  <2>3. QED BY <2>2 DEF RecordsNoted
<1>13. RecordsDistinct(t, rs)
  <2>1. ~ Past(module, stack, Top.path)
    BY <1>1, <1>2, RunningIsNotPast
  <2>2. ASSUME NEW c \in DOMAIN rs \ Open(t), c # Top.record PROVE rs[c].path # Top.path
    BY <1>9, <2>1, <2>2
  <2>3. ASSUME NEW c \in DOMAIN rs \ Open(t), NEW d \in DOMAIN rs \ Open(t), rs[c].path = rs[d].path
        PROVE  c = d
    <3>1. CASE c # Top.record /\ d # Top.record
      <4>1. c \in DOMAIN records \ Open(stack) /\ rs[c] = records[c]
        BY <1>9, <3>1
      <4>2. d \in DOMAIN records \ Open(stack) /\ rs[d] = records[d]
        BY <1>9, <3>1
      <4>3. RecordsDistinct(stack, records)
        BY <1>1 DEF RecordsIInv
      <4>4. QED BY <2>3, <4>1, <4>2, <4>3 DEF RecordsDistinct
    <3>2. CASE c = Top.record
      BY <1>4, <1>5, <2>2, <2>3, <3>2
    <3>3. CASE d = Top.record
      BY <1>4, <1>5, <2>2, <2>3, <3>3
    <3>4. QED BY <3>1, <3>2, <3>3
  <2>4. QED BY <2>3 DEF RecordsDistinct
<1>14. QED BY <1>5, <1>8, <1>10, <1>11, <1>12, <1>13 DEF RecordsIInv, t, et

-----------------------------------------------------------------------------
(* The expander keeps its invariant.                                       *)

\* ReturnFromCall.
LEMMA ReturnKeeps == ASSUME ExpansionIInv, ReturnFromCall PROVE ExpansionIInv'
<1>1. ExpansionNow /\ Lone(module, stack, instrs) /\ phase = "expanding"
  BY Zenon DEF ExpansionIInv, ReturnFromCall, Running
<1>2. Returning
  BY <1>1, Zenon DEF ReturnFromCall, Returning
<1>20. Len(stack) \in Nat /\ Len(stack) # 1 /\ Len(stack) - 1 # 0
  <2>1. Len(stack) > 1
    BY Zenon DEF ReturnFromCall
  <2>2. Len(stack) \in Nat
    BY <1>1 DEF ExpansionNow, Typed
  <2>3. QED BY <2>1, <2>2
<1>3. Caller \in Frames /\ Caller.prog \in DOMAIN module.programs
  BY <1>2, ReturnFacts
<1> DEFINE rs == [records EXCEPT ![Top.record] = RecordMade]
<1>4. module.programs[Caller.prog].code[Caller.pc] = CallMade
  BY DEF CallMade, Code
<1>5. [Caller EXCEPT !.pc = @ + 1] = PassedCall
  BY <1>3 DEF PassedCall, Frames
<1>6. UNCHANGED <<module, qubits, instrs, returned, phase>>
  BY Zenon DEF ReturnFromCall
<1>7. stack' = StackAfter
  BY <1>4, <1>5 DEF ReturnFromCall, StackAfter, Resumed, ReturnedValue, Caller
<1>8. escapes' = EscapesAfter
  BY <1>4 DEF ReturnFromCall, EscapesAfter, ReturnedValue, Caller
<1>9. records' = rs
  BY <1>4 DEF ReturnFromCall, RecordMade, ReturnedValue, Caller
<1>10. rs = [records EXCEPT ![Top.record] = RecordMade]
  OBVIOUS
<1> HIDE DEF rs
<1>11. ValuesIInv(module, StackAfter, qubits, Len(instrs), EscapesAfter)
  BY <1>2, ReturnValues
<1>12. CodeIInv(module, StackAfter, qubits, instrs)
  BY <1>2, ReturnCode
<1>13. RecordsIInv(module, StackAfter, qubits, instrs, rs, EscapesAfter)
  BY <1>2, <1>10, ReturnRecords
<1>14. StackAfter \in Seq(Frames) /\ Chained(module, StackAfter) /\ Len(StackAfter) = Len(stack) - 1
  BY <1>2, ReturnGrows
<1>15. Typed'
  <2>1. /\ module \in Modules /\ Len(stack) \in Nat /\ qubits \in Seq(Instances)
        /\ instrs \in Seq(Expanded) /\ phase \in {"expanding", "expanded", "invalid"}
        /\ records \in Seq(Filled \union {NoValue})
    BY <1>1 DEF ExpansionNow, Typed
  <2>2. EscapesAfter \in Seq(Ids)
    BY <1>2, ReturnedKnown
  <2>3. RecordMade \in Filled
    BY <1>2, RecordFacts
  <2>4. rs \in Seq(Filled \union {NoValue})
    <3>1. RecordMade \in Filled \union {NoValue}
      BY <2>3
    <3>2. Top.record \in DOMAIN records
      BY <1>2, <1>10, ReturnReserve
    <3> DEFINE S == Filled \union {NoValue}
    <3>3. records \in Seq(S) /\ RecordMade \in S
      BY <2>1, <3>1
    <3> HIDE DEF S
    <3>4. rs \in Seq(S)
      BY <1>10, <3>2, <3>3
    <3>5. QED BY <3>4 DEF S
  <2>5. Len(StackAfter) # 0
    BY <1>14, <1>20
  <2>6. QED BY <1>6, <1>7, <1>8, <1>9, <1>14, <2>1, <2>2, <2>4, <2>5 DEF Typed
<1>16. ExpansionNow'
  BY <1>6, <1>7, <1>8, <1>9, <1>11, <1>12, <1>13, <1>14, <1>15 DEF ExpansionNow
<1>17. ExpansionDone'
  BY <1>1, <1>6 DEF ExpansionDone
<1>18. Lone(module, StackAfter, instrs)
  <2>1. QED BY <1>1, <1>20 DEF Lone
<1>19. QED BY <1>6, <1>7, <1>16, <1>17, <1>18 DEF ExpansionIInv

\* FinishExpansion.
LEMMA FinishKeeps == ASSUME ExpansionIInv, FinishExpansion PROVE ExpansionIInv'
<1>1. /\ ExpansionNow /\ Lone(module, stack, instrs) /\ phase = "expanding"
      /\ ParametersBound /\ Finished /\ Top.pending = {} /\ Len(stack) = 1
  BY DEF ExpansionIInv, FinishExpansion, Running
<1>2. UNCHANGED <<module, stack, qubits, instrs, records, escapes>>
  BY DEF FinishExpansion
<1>3. phase' \in {"expanded", "invalid"} /\ ((phase' = "expanded") <=> ExpandedProgramValid(returned'))
  BY DEF FinishExpansion
<1>4. returned' = [leaf \in DOMAIN Program.leaves |-> ResolveLeaf(Top, Program.leaves[leaf])]
  BY DEF FinishExpansion
<1>5. Typed'
  BY <1>1, <1>2, <1>3 DEF ExpansionNow, Typed
<1>6. ExpansionNow'
  BY <1>1, <1>2, <1>5 DEF ExpansionNow
<1>7. Top' = Top /\ Program' = Program
  BY <1>2 DEF Top, Program
<1>8. Finished' /\ ParametersBound'
  BY <1>1, <1>7 DEF Finished, ParametersBound, IsBound
<1>9. ExpandedProgramValid(returned') <=> ExpandedProgramValid(returned)'
  BY <1>2 DEF ExpandedProgramValid, QubitIds, ObservedIds, ProducedBits
<1>11. ExpansionDone'
  BY <1>1, <1>2, <1>3, <1>4, <1>7, <1>8, <1>9 DEF ExpansionDone
<1>12. Lone(module, stack, instrs)'
  BY <1>1, <1>2
<1>13. QED BY <1>6, <1>11, <1>12 DEF ExpansionIInv

\* The first state.
LEMMA ExpansionStarts == ExpansionInit => ExpansionIInv
<1> SUFFICES ASSUME ExpansionInit PROVE ExpansionIInv
  OBVIOUS
<1> DEFINE program == module.programs[module.entry]
           frame == [prog |-> module.entry, path |-> <<>>, calls |-> <<>>, pc |-> 1,
                     bound |-> <<>>, locals |-> <<>>, record |-> 0, start |-> 0,
                     pending |-> LocalDefs(program)]
<1>1. /\ module \in Modules /\ stack = <<frame>>
      /\ qubits = <<>> /\ instrs = <<>> /\ records = <<>> /\ escapes = <<>> /\ phase = "expanding"
  BY DEF ExpansionInit
<1>2. module.entry \in DOMAIN module.programs
  BY <1>1, ModulesAreLogical DEF IsLogicalModule
<1>3. LocalDefs(program) \subseteq DOMAIN program.defs /\ DOMAIN program.defs = 1 .. Len(program.defs)
      /\ Len(program.defs) \in Nat
  BY <1>1, <1>2, DefinitionFacts
<1>4. LocalDefs(program) \in SUBSET Nat
  BY <1>3
<1>5. module.entry \in ProgramNames /\ Len(Code(module, module.entry)) \in Nat
  BY <1>1, <1>2, ProgramFacts
<1> HIDE DEF program
<1>6. <<>> \in Bindings
  <2>1. <<>> \in [{} -> Ids]
    OBVIOUS
  <2>2. {} \in SUBSET Names
    OBVIOUS
  <2>3. QED BY <2>1, <2>2 DEF Bindings
<1>7. frame \in Frames
  <2>1. <<>> \in Seq(OpIds) /\ <<>> \in Seq(CallSteps) /\ <<>> \in Seq(Ids)
    OBVIOUS
  <2>2. QED BY <1>4, <1>5, <1>6, <2>1 DEF Frames
<1>8. /\ frame.prog = module.entry /\ frame.path = <<>> /\ frame.calls = <<>> /\ frame.pc = 1
      /\ frame.bound = <<>> /\ frame.record = 0 /\ frame.start = 0 /\ frame.pending = LocalDefs(program)
  OBVIOUS
<1> HIDE DEF frame
<1>9. stack \in Seq(Frames) /\ Len(stack) = 1 /\ DOMAIN stack = {1} /\ stack[1] = frame
      /\ 2 .. Len(stack) = {}
  BY <1>1, <1>7
<1>10. Typed
  BY <1>1, <1>9 DEF Typed
<1>11. Chained(module, stack)
  <2>1. FrameFits(module, frame, 1)
    BY <1>2, <1>5, <1>8 DEF FrameFits, program
  <2>2. \A k \in DOMAIN stack : 1 .. k - 1 = {}
    BY <1>9
  <2>3. QED BY <1>8, <1>9, <2>1, <2>2 DEF Chained
<1>12. DOMAIN qubits = {} /\ DOMAIN instrs = {} /\ DOMAIN records = {} /\ Len(instrs) = 0
  BY <1>1
<1>13. DOMAIN frame.bound = {} /\ 1 .. frame.pc - 1 = {}
  BY <1>8
<1>14. ValuesIInv(module, stack, qubits, Len(instrs), escapes)
  <2>1. QubitsPlaced(module, stack, qubits) /\ QubitsDistinct(qubits) /\ QubitsInTime(qubits, Len(instrs))
    BY <1>12 DEF QubitsPlaced, QubitsDistinct, QubitsInTime
  <2>2. NamesValues(frame, qubits, escapes) /\ NamesKnown(module, frame)
    BY <1>13 DEF NamesValues, NamesKnown
  <2>3. LocalDefs(module.programs[frame.prog]) \ frame.pending = {}
    BY <1>8 DEF program
  <2>4. NamesPassed(module, frame, 1)
    BY <1>13, <2>3 DEF NamesPassed
  <2>5. QED BY <1>9, <2>1, <2>2, <2>4 DEF ValuesIInv, FramesBound, FrameBound
<1>15. CodeIInv(module, stack, qubits, instrs)
  <2>1. InstrsPlaced(module, stack, instrs) /\ InstrsDistinct(instrs) /\ InstrsUse(qubits, instrs)
        /\ InstrsHaveArity(instrs) /\ InstrsCalled(module, instrs) /\ ObservedAtEntry(module, instrs)
    BY <1>12 DEF InstrsPlaced, InstrsDistinct, InstrsUse, InstrsHaveArity, InstrsCalled, ObservedAtEntry
  <2>2. EntryCopied(module, stack, instrs)
    BY <1>9, <1>13 DEF EntryCopied
  <2>3. QED BY <2>1, <2>2 DEF CodeIInv
<1>16. RecordsIInv(module, stack, qubits, instrs, records, escapes)
  <2>1. FramesStart(stack, instrs)
    BY <1>8, <1>9, <1>12 DEF FramesStart, FrameStarts
  <2>2. FramesReserve(stack, records)
    BY <1>8, <1>9 DEF FramesReserve
  <2>3. QED BY <1>12, <2>1, <2>2
          DEF RecordsIInv, RecordsFilled, RecordsListed, RecordsNoted, RecordsDistinct
<1>17. ExpansionDone /\ Lone(module, stack, instrs)
  <2>1. ExpansionDone
    BY <1>1 DEF ExpansionDone
  <2>2. OwnNames(frame) /\ Len(instrs) = frame.pc - 1
    BY <1>8, <1>12, <1>13 DEF OwnNames
  <2>3. QED BY <1>9, <1>12, <2>1, <2>2 DEF Lone
<1>18. QED BY <1>10, <1>11, <1>14, <1>15, <1>16, <1>17 DEF ExpansionIInv, ExpansionNow

\* Every step of the expander.
LEMMA ExpandKeeps == ASSUME ExpansionIInv, Expand PROVE ExpansionIInv'
BY ParameterKeeps, PendingKeeps, SkipKeeps, OnDemandKeeps, InstructionKeeps, EnterKeeps,
   ReturnKeeps, FinishKeeps DEF Expand

\* Steps of others.
LEMMA ExpansionStutters == ASSUME ExpansionIInv, UNCHANGED expansionVars PROVE ExpansionIInv'
<1>1. UNCHANGED <<module, stack, qubits, instrs, records, escapes, returned, phase>>
  BY DEF expansionVars
<1>2. ExpansionNow'
  BY <1>1 DEF ExpansionIInv, ExpansionNow, Typed
<1>3. Top' = Top /\ Program' = Program
  BY <1>1 DEF Top, Program
<1>4. ExpandedProgramValid(returned') <=> ExpandedProgramValid(returned)'
  BY <1>1 DEF ExpandedProgramValid, QubitIds, ObservedIds, ProducedBits
<1>5. Finished' <=> Finished
  BY <1>3 DEF Finished
<1>6. ParametersBound' <=> ParametersBound
  BY <1>3 DEF ParametersBound, IsBound
<1>8. ExpandedProgramValid(returned)' <=> ExpandedProgramValid(returned)
  BY <1>1 DEF ExpandedProgramValid, QubitIds, ObservedIds, ProducedBits
<1>9. ExpansionDone'
  BY <1>1, <1>3, <1>5, <1>6, <1>8 DEF ExpansionIInv, ExpansionDone
<1>10. Lone(module, stack, instrs)'
  BY <1>1 DEF ExpansionIInv
<1>11. QED BY <1>2, <1>9, <1>10 DEF ExpansionIInv

-----------------------------------------------------------------------------
(* What the invariant says of the expansion.                               *)

\* The expander's state has its shape.
LEMMA ExpansionTyped == ASSUME ExpansionIInv PROVE TypeOK
<1>1. /\ Typed /\ Chained(module, stack) /\ QubitsInTime(qubits, Len(instrs))
      /\ FramesStart(stack, instrs) /\ FramesReserve(stack, records)
  BY DEF ExpansionIInv, ExpansionNow, ValuesIInv, RecordsIInv
<1>2. /\ module \in Modules /\ stack \in Seq(Frames) /\ qubits \in Seq(Instances)
      /\ instrs \in Seq(Expanded) /\ records \in Seq(Filled \union {NoValue})
      /\ phase \in {"expanding", "expanded", "invalid"}
  BY <1>1 DEF Typed
<1>3. ASSUME NEW q \in DOMAIN qubits
      PROVE  /\ IsExpandedId(qubits[q].id)
             /\ qubits[q].ownership \in {"local", "entry_parameter"}
             /\ qubits[q].created \in 0 .. Len(instrs)
  <2>1. qubits[q] \in Instances
    BY <1>2
  <2>2. qubits[q].created \in Nat /\ Len(instrs) \in Nat /\ qubits[q].created <= Len(instrs)
    BY <1>1, <1>2, <2>1 DEF Instances, QubitsInTime
  <2>3. qubits[q].created \in 0 .. Len(instrs)
    BY <2>2
  <2>4. QED BY <2>1, <2>3 DEF Instances, IsExpandedId, Ids
<1>4. ASSUME NEW i \in DOMAIN instrs PROVE instrs[i].kind \in Kinds \ {"call"}
  <2>1. instrs[i] \in Expanded
    BY <1>2
  <2>2. QED BY <2>1 DEF Expanded
<1>5. ASSUME NEW k \in DOMAIN stack
      PROVE  /\ stack[k].prog \in DOMAIN module.programs
             /\ Len(stack[k].path) = k - 1 /\ Len(stack[k].calls) = k - 1
             /\ stack[k].pc \in 1 .. Len(module.programs[stack[k].prog].code) + 1
             /\ stack[k].record \in (IF k = 1 THEN {0} ELSE 1 .. Len(records))
             /\ stack[k].start \in 0 .. Len(instrs)
             /\ \A v \in DOMAIN stack[k].bound : IsExpandedId(stack[k].bound[v])
  <2>1. FrameFits(module, stack[k], k)
    BY <1>1 DEF Chained
  <2>2. /\ stack[k].prog \in DOMAIN module.programs
        /\ Len(stack[k].path) = k - 1 /\ Len(stack[k].calls) = k - 1
        /\ stack[k].pc \in 1 .. Len(module.programs[stack[k].prog].code) + 1
    BY <2>1 DEF FrameFits, Code
  <2>3. stack[k].start \in 0 .. Len(instrs)
    BY <1>1 DEF FramesStart, FrameStarts
  <2>4. stack[k].record \in (IF k = 1 THEN {0} ELSE 1 .. Len(records))
    <3>1. CASE k = 1
      BY <1>1, <3>1 DEF FramesReserve
    <3>2. CASE k # 1
      <4>1. k \in 2 .. Len(stack)
        BY <1>2, <3>2
      <4>2. stack[k].record \in DOMAIN records
        BY <1>1, <4>1 DEF FramesReserve
      <4>3. QED BY <1>2, <3>2, <4>2
    <3>3. QED BY <3>1, <3>2
  <2>5. ASSUME NEW v \in DOMAIN stack[k].bound PROVE IsExpandedId(stack[k].bound[v])
    <3>1. stack[k] \in Frames
      BY <1>2
    <3>2. stack[k].bound \in Bindings
      BY <3>1 DEF Frames
    <3>3. stack[k].bound \in [DOMAIN stack[k].bound -> Ids]
      BY <3>2 DEF Bindings
    <3>4. QED BY <3>3 DEF Ids, IsExpandedId
  <2>6. QED BY <2>2, <2>3, <2>4, <2>5
<1>6. QED BY <1>2, <1>3, <1>4, <1>5 DEF TypeOK

\* What an expanded instruction is.
LEMMA InstrFacts ==
    ASSUME ExpansionIInv, NEW i \in DOMAIN instrs
    PROVE  /\ instrs[i] \in Expanded /\ instrs[i].path \in Seq(OpIds)
           /\ [n \in DOMAIN instrs[i].calls |-> instrs[i].calls[n].op] = instrs[i].path
           /\ InstrCalled(module, instrs[i])
           /\ DOMAIN instrs[i].refs = 1 .. Len(instrs[i].refs) /\ Len(instrs[i].refs) \in Nat
           /\ instrs[i].kind = "cx" => Len(instrs[i].refs) = 2
           /\ instrs[i].kind # "cx" => Len(instrs[i].refs) = 1
           /\ 1 \in DOMAIN instrs[i].refs
           /\ \A r \in DOMAIN instrs[i].refs :
                 \E q \in DOMAIN qubits : qubits[q].id = instrs[i].refs[r] /\ qubits[q].created < i
<1>1. /\ instrs \in Seq(Expanded) /\ InstrsCalled(module, instrs) /\ InstrsHaveArity(instrs)
      /\ InstrsUse(qubits, instrs)
  BY DEF ExpansionIInv, ExpansionNow, Typed, CodeIInv
<1>2. instrs[i] \in Expanded
  BY <1>1
<1>3. instrs[i].path \in Seq(OpIds) /\ instrs[i].calls \in Seq(CallSteps) /\ instrs[i].refs \in Seq(Ids)
  BY <1>2 DEF Expanded
<1>4. InstrCalled(module, instrs[i])
  BY <1>1 DEF InstrsCalled
<1> DEFINE path == instrs[i].path
           calls == instrs[i].calls
           ops == [n \in DOMAIN calls |-> calls[n].op]
<1>5. Len(path) = Len(calls) /\ \A n \in 1 .. Len(path) : path[n] = calls[n].op
  BY <1>4 DEF InstrCalled
<1>6. ops = path
  <2>1. path \in Seq(OpIds) /\ calls \in Seq(CallSteps)
    BY <1>3
  <2> HIDE DEF path, calls
  <2>2. DOMAIN calls = 1 .. Len(path) /\ path = [n \in 1 .. Len(path) |-> path[n]]
    BY <1>5, <2>1
  <2>3. ops = [n \in 1 .. Len(path) |-> calls[n].op]
    BY <2>2
  <2>4. [n \in 1 .. Len(path) |-> calls[n].op] = [n \in 1 .. Len(path) |-> path[n]]
    BY <1>5
  <2>5. QED BY <2>2, <2>3, <2>4
<1>7. Arity(instrs[i]) /\ Uses(qubits, instrs[i].refs, i)
  BY <1>1 DEF InstrsHaveArity, InstrsUse
<1>8. /\ instrs[i].kind = "cx" => Len(instrs[i].refs) = 2
      /\ instrs[i].kind # "cx" => Len(instrs[i].refs) = 1
  BY <1>7 DEF Arity
<1>9. DOMAIN instrs[i].refs = 1 .. Len(instrs[i].refs) /\ Len(instrs[i].refs) \in Nat
  BY <1>3
<1>10. 1 \in DOMAIN instrs[i].refs
  <2>1. Len(instrs[i].refs) = 1 \/ Len(instrs[i].refs) = 2
    BY <1>8
  <2> DEFINE len == Len(instrs[i].refs)
  <2>2. DOMAIN instrs[i].refs = 1 .. len
    BY <1>9
  <2>3. len = 1 \/ len = 2
    BY <2>1
  <2> HIDE DEF len
  <2>4. 1 \in 1 .. len
    BY <2>3
  <2>5. QED BY <2>2, <2>4
<1>11. QED BY <1>2, <1>3, <1>4, <1>6, <1>7, <1>8, <1>9, <1>10 DEF Uses

\* A filled record is that of a call that has returned.
LEMMA FilledIsReturned ==
    ASSUME ExpansionIInv, NEW c \in DOMAIN records, records[c] # NoValue
    PROVE  c \in DOMAIN records \ Open(stack)
<1>1. FramesReserve(stack, records)
  BY DEF ExpansionIInv, ExpansionNow, RecordsIInv
<1>2. QED BY <1>1 DEF FramesReserve, Open

\* Values are there before they are used, no two share an identifier, every
\* escape is noted, and records and call stacks agree.
LEMMA ExpansionIsSound == ASSUME ExpansionIInv PROVE ExpansionSound
<1>1. DefinedBeforeUse
  BY InstrFacts DEF DefinedBeforeUse
<1>2. UniqueIdentity
  <2>1. QubitsDistinct(qubits) /\ InstrsDistinct(instrs)
    BY DEF ExpansionIInv, ExpansionNow, ValuesIInv, CodeIInv
  <2>2. Injective([q \in DOMAIN qubits |-> qubits[q].id])
    BY <2>1 DEF QubitsDistinct, Injective
  <2>3. Injective([i \in DOMAIN instrs |-> <<instrs[i].path, instrs[i].op>>])
    BY <2>1 DEF InstrsDistinct, Injective
  <2>4. QED BY <2>2, <2>3 DEF UniqueIdentity
<1>3. EscapesRecorded
  <2>1. ASSUME NEW k \in DOMAIN stack, NEW v \in DOMAIN stack[k].bound
        PROVE  IsPrefix(stack[k].bound[v][1], stack[k].path) \/ stack[k].bound[v] \in ToSet(escapes)
    <3>1. /\ stack \in Seq(Frames)
          /\ FramesBound(module, stack, qubits, escapes)
      BY DEF ExpansionIInv, ExpansionNow, ValuesIInv, Typed
    <3>2. stack[k] \in Frames
      BY <3>1
    <3>3. stack[k].bound \in Bindings /\ stack[k].path \in Seq(OpIds)
      BY <3>2 DEF Frames
    <3>4. stack[k].bound[v] \in Ids
      BY <3>3 DEF Bindings
    <3>5. stack[k].bound[v][1] \in Seq(OpIds)
      BY <3>4 DEF Ids
    <3>6. Begins(stack[k].bound[v][1], stack[k].path) \/ stack[k].bound[v] \in ToSet(escapes)
      BY <3>1 DEF FramesBound, FrameBound, NamesValues
    <3>7. QED BY <3>3, <3>5, <3>6, PrefixBegins
  <2>2. QED BY <2>1 DEF EscapesRecorded
<1>4. RecordsMatchCallStacks
  <2>1. ASSUME NEW c \in DOMAIN records, records[c] # NoValue
        PROVE  LET listed == records[c].instrs
                   inside == {i \in DOMAIN instrs :
                                IsPrefix(records[c].path,
                                         [n \in DOMAIN instrs[i].calls |-> instrs[i].calls[n].op])}
               IN  \E start \in 0 .. Len(instrs) :
                       /\ inside = start + 1 .. start + Len(listed)
                       /\ \A n \in DOMAIN listed :
                             listed[n] = <<instrs[start + n].path, instrs[start + n].op>>
    <3>1. c \in DOMAIN records \ Open(stack)
      BY <2>1, FilledIsReturned
    <3>2. records[c] \in Filled /\ Listed(instrs, records[c]) /\ instrs \in Seq(Expanded)
      BY <3>1 DEF ExpansionIInv, ExpansionNow, RecordsIInv, RecordsFilled, RecordsListed, Typed
    <3>3. records[c].path \in Seq(OpIds) /\ Len(records[c].instrs) \in Nat
      BY <3>2 DEF Filled
    <3>4. PICK start \in 0 .. Len(instrs) :
            /\ start + Len(records[c].instrs) <= Len(instrs)
            /\ \A i \in DOMAIN instrs :
                  Begins(records[c].path, instrs[i].path)
                     <=> i \in start + 1 .. start + Len(records[c].instrs)
            /\ \A n \in DOMAIN records[c].instrs :
                  records[c].instrs[n] = <<instrs[start + n].path, instrs[start + n].op>>
      BY <3>2 DEF Listed
    <3> DEFINE Inside(i) == IsPrefix(records[c].path,
                                     [n \in DOMAIN instrs[i].calls |-> instrs[i].calls[n].op])
    <3>5. ASSUME NEW i \in DOMAIN instrs
          PROVE  Inside(i) <=> i \in start + 1 .. start + Len(records[c].instrs)
      <4>1. instrs[i].path \in Seq(OpIds)
            /\ [n \in DOMAIN instrs[i].calls |-> instrs[i].calls[n].op] = instrs[i].path
        BY InstrFacts
      <4>2. IsPrefix(records[c].path, instrs[i].path) <=> Begins(records[c].path, instrs[i].path)
        BY <3>3, <4>1, PrefixBegins
      <4>3. QED BY <3>4, <4>1, <4>2
    <3>6. \A i \in start + 1 .. start + Len(records[c].instrs) : i \in DOMAIN instrs
      <4>1. DOMAIN instrs = 1 .. Len(instrs) /\ Len(instrs) \in Nat
        BY <3>2
      <4>2. QED BY <3>3, <3>4, <4>1
    <3> HIDE DEF Inside
    <3>7. {i \in DOMAIN instrs : Inside(i)} = start + 1 .. start + Len(records[c].instrs)
      BY <3>5, <3>6
    <3>8. QED BY <3>4, <3>7 DEF Inside
  <2>2. QED BY <2>1 DEF RecordsMatchCallStacks
<1>5. CallStacksContiguous
  <2>1. ASSUME NEW i \in DOMAIN instrs
        PROVE  /\ Leads(module, instrs[i].calls)
               /\ HasOp(module, Host(module, instrs[i].calls, Len(instrs[i].calls)), instrs[i].op)
    BY InstrFacts, Zenon DEF InstrCalled
  <2>2. QED BY <2>1 DEF CallStacksContiguous, Leads, HasOp, Host, Code
<1>6. QED BY <1>1, <1>2, <1>3, <1>4, <1>5 DEF ExpansionSound

-----------------------------------------------------------------------------
(* The finished expansion.                                                 *)

\* Without calls every value is the entry program's.
LoneValues(m, qs) ==
    CallInstrs(m.programs[m.entry]) = {} => \A q \in DOMAIN qs : qs[q].id[1] = <<>>

\* Nobody but the entry program instantiates.
LEMMA LoneValuesStay ==
    ASSUME ExpansionIInv, LoneValues(module, qubits), Expand
    PROVE  LoneValues(module, qubits)'
<1>1. ASSUME CallInstrs(module.programs[module.entry]) = {} PROVE Top.path = <<>>
  <2>1. Len(stack) = 1
    BY <1>1 DEF ExpansionIInv, Lone
  <2>2. Top.path \in Seq(OpIds) /\ Len(Top.path) = 0
    BY <2>1, TopFacts DEF ExpansionIInv, ExpansionNow
  <2>3. QED BY <2>2
<1>2. ASSUME NEW v, NEW ownership, qubits' = Append(qubits, NewQubit(v, ownership)), module' = module
      PROVE  LoneValues(module, qubits)'
  <2>1. SUFFICES ASSUME CallInstrs(module.programs[module.entry]) = {}, NEW q \in DOMAIN qubits'
                 PROVE  qubits'[q].id[1] = <<>>
    BY <1>2 DEF LoneValues
  <2>2. NewQubit(v, ownership).id[1] = <<>>
    BY <1>1, <2>1 DEF NewQubit, ExpandedId
  <2>3. Len(qubits) \in Nat /\ DOMAIN qubits = 1 .. Len(qubits)
    BY DEF ExpansionIInv, ExpansionNow, Typed
  <2>4. qubits \in Seq(Instances)
    BY DEF ExpansionIInv, ExpansionNow, Typed
  <2>5. \/ q = Len(qubits) + 1 /\ qubits'[q] = NewQubit(v, ownership)
        \/ q \in DOMAIN qubits /\ qubits'[q] = qubits[q]
    <3> DEFINE x == NewQubit(v, ownership)
               S == Instances \union {x}
    <3>1. qubits \in Seq(S) /\ x \in S
      BY <2>4
    <3> HIDE DEF x, S
    <3>2. /\ DOMAIN Append(qubits, x) = 1 .. Len(qubits) + 1
          /\ \A n \in 1 .. Len(qubits) : Append(qubits, x)[n] = qubits[n]
          /\ Append(qubits, x)[Len(qubits) + 1] = x
      BY <3>1, AppendFacts
    <3>3. qubits' = Append(qubits, x)
      BY <1>2 DEF x
    <3>4. q \in 1 .. Len(qubits) + 1
      BY <2>1, <3>2, <3>3
    <3>5. q = Len(qubits) + 1 \/ q \in 1 .. Len(qubits)
      <4> DEFINE len == Len(qubits)
      <4>1. len \in Nat /\ q \in 1 .. len + 1
        BY <2>3, <3>4
      <4> HIDE DEF len
      <4>2. q = len + 1 \/ q \in 1 .. len
        BY <4>1
      <4>3. QED BY <4>2 DEF len
    <3>6. CASE q = Len(qubits) + 1
      BY <3>2, <3>3, <3>6 DEF x
    <3>7. CASE q \in 1 .. Len(qubits)
      BY <2>3, <3>2, <3>3, <3>7
    <3>8. QED BY <3>5, <3>6, <3>7
  <2>6. QED BY <2>1, <2>2, <2>5 DEF LoneValues
<1>3. CASE InstantiateParameter
  BY <1>2, <1>3 DEF InstantiateParameter
<1>4. CASE InstantiatePending
  BY <1>2, <1>4 DEF InstantiatePending, InstantiateLocal
<1>5. CASE InstantiateOnDemand
  BY <1>2, <1>5 DEF InstantiateOnDemand, InstantiateLocal
<1>6. CASE UNCHANGED <<module, qubits>>
  BY <1>6 DEF LoneValues
<1>7. QED
  BY <1>3, <1>4, <1>5, <1>6, Zenon
     DEF Expand, SkipPending, ExpandInstruction, EnterCall, ReturnFromCall, FinishExpansion

\* How an expansion ends.
LEMMA EndFacts ==
    ASSUME ExpansionIInv, phase # "expanding"
    PROVE  /\ Len(stack) = 1 /\ Top = stack[1] /\ 1 \in DOMAIN stack /\ Top.prog = module.entry
           /\ module \in Modules /\ module.entry \in DOMAIN module.programs
           /\ Program = module.programs[module.entry] /\ Program.code = Code(module, module.entry)
           /\ Top.path = <<>> /\ Top.pc = Len(Code(module, module.entry)) + 1
           /\ Len(Code(module, module.entry)) \in Nat
           /\ DOMAIN Code(module, module.entry) = 1 .. Len(Code(module, module.entry))
           /\ IsLogicalProgram(Program)
           /\ Open(stack) = {}
           /\ DOMAIN Top.bound \subseteq KnownBefore(Program, Len(Code(module, module.entry)) + 1)
           /\ DOMAIN returned = DOMAIN Program.leaves
           /\ \A leaf \in DOMAIN returned :
                 /\ returned[leaf].quantum = Program.leaves[leaf].quantum
                 /\ returned[leaf].quantum \in BOOLEAN
                 /\ returned[leaf].quantum =>
                       /\ Program.leaves[leaf].id \in DOMAIN Top.bound
                       /\ returned[leaf].id = Top.bound[Program.leaves[leaf].id]
                       /\ returned[leaf].id \in QubitsOf(qubits)
                 /\ ~ returned[leaf].quantum => returned[leaf].id = Program.leaves[leaf].id
           /\ (phase = "expanded") <=> ExpandedProgramValid(returned)
<1>1. /\ Len(stack) = 1 /\ Finished /\ Top.pending = {} /\ ParametersBound
      /\ returned = [leaf \in DOMAIN Program.leaves |-> ResolveLeaf(Top, Program.leaves[leaf])]
      /\ (phase = "expanded") <=> ExpandedProgramValid(returned)
      /\ ExpansionNow /\ module \in Modules /\ Typed /\ Chained(module, stack)
  BY DEF ExpansionIInv, ExpansionDone, ExpansionNow, Typed
<1>2. /\ 1 \in DOMAIN stack /\ Top = stack[1] /\ Top.prog \in DOMAIN module.programs
      /\ Program = module.programs[Top.prog] /\ Top.path \in Seq(OpIds) /\ Len(Top.path) = 0
      /\ Top.pc = Len(Code(module, Top.prog)) + 1 /\ Len(Code(module, Top.prog)) \in Nat
      /\ DOMAIN Code(module, Top.prog) = 1 .. Len(Code(module, Top.prog))
  BY <1>1, TopFacts
<1>3. Top.prog = module.entry /\ Top.path = <<>>
  BY <1>1, <1>2 DEF Chained
<1>4. Open(stack) = {}
  <2>1. 2 .. Len(stack) = {}
    BY <1>1
  <2>2. QED BY <2>1 DEF Open
<1>5. ASSUME NEW leaf \in DOMAIN Program.leaves
      PROVE  /\ returned[leaf].quantum = Program.leaves[leaf].quantum
             /\ returned[leaf].quantum \in BOOLEAN
             /\ returned[leaf].quantum =>
                   /\ Program.leaves[leaf].id \in DOMAIN Top.bound
                   /\ returned[leaf].id = Top.bound[Program.leaves[leaf].id]
                   /\ returned[leaf].id \in QubitsOf(qubits)
             /\ ~ returned[leaf].quantum => returned[leaf].id = Program.leaves[leaf].id
  <2>1. Program.leaves[leaf] \in [quantum : BOOLEAN, id : {Program.leaves[leaf].id}]
    BY <1>1, <1>2, DefinitionFacts
  <2>2. Program.leaves[leaf].quantum => /\ Program.leaves[leaf].id \in DOMAIN Top.bound
                                        /\ Top.bound[Program.leaves[leaf].id] \in QubitsOf(qubits)
    BY <1>1, AllBound
  <2>3. returned[leaf] = ResolveLeaf(Top, Program.leaves[leaf])
    BY <1>1
  <2> DEFINE old == Program.leaves[leaf]
  <2>4. /\ ResolveLeaf(Top, old).quantum = old.quantum /\ old.quantum \in BOOLEAN
        /\ ResolveLeaf(Top, old).id = IF old.quantum THEN Top.bound[old.id] ELSE old.id
    <3>1. old \in [quantum : BOOLEAN, id : {old.id}]
      BY <2>1
    <3> HIDE DEF old
    <3>2. QED BY <3>1 DEF ResolveLeaf
  <2>5. QED BY <2>2, <2>3, <2>4
<1>6. DOMAIN returned = DOMAIN Program.leaves
  BY <1>1
<1>7. IsLogicalProgram(Program)
  BY <1>1, <1>2, ProgramFacts
<1>8. DOMAIN Top.bound \subseteq KnownBefore(Program, Len(Code(module, Top.prog)) + 1)
  <2>1. NamesKnown(module, Top)
    BY <1>1, <1>2 DEF ExpansionNow, ValuesIInv, FramesBound, FrameBound
  <2>2. QED BY <1>2, <2>1 DEF NamesKnown
<1>9. Program.code = Code(module, Top.prog)
  BY <1>2 DEF Code
<1>10. QED BY <1>1, <1>2, <1>3, <1>4, <1>5, <1>6, <1>7, <1>8, <1>9, Zenon

\* The observations of a module whose callees do not observe: they are the entry
\* program's, each of them once.
LEMMA ObservationFacts ==
    ASSUME ExpansionIInv, phase # "expanding", ~ ObserverCalled(module)
    PROVE  /\ \A i \in DOMAIN instrs : instrs[i].kind = "observe" =>
                 \E j \in Observations(Program) : CopyOf(instrs[i], Program.code[j])
           /\ \A j \in Observations(Program) :
                 \E i \in DOMAIN instrs : CopyOf(instrs[i], Program.code[j])
           /\ \A i, k \in DOMAIN instrs :
                 /\ instrs[i].kind = "observe" /\ instrs[k].kind = "observe"
                 /\ instrs[i].op = instrs[k].op \/ instrs[i].result = instrs[k].result
                 => i = k
<1>1. /\ Top = stack[1] /\ 1 \in DOMAIN stack /\ module \in Modules /\ Top.path = <<>>
      /\ Top.prog = module.entry
      /\ Program = module.programs[module.entry] /\ Program.code = Code(module, module.entry)
      /\ Top.pc = Len(Code(module, module.entry)) + 1 /\ Len(Code(module, module.entry)) \in Nat
      /\ DOMAIN Code(module, module.entry) = 1 .. Len(Code(module, module.entry))
      /\ IsLogicalProgram(Program)
  BY EndFacts
<1>2. /\ InstrsPlaced(module, stack, instrs) /\ InstrsDistinct(instrs)
      /\ ObservedAtEntry(module, instrs) /\ EntryCopied(module, stack, instrs)
  BY DEF ExpansionIInv, ExpansionNow, CodeIInv
<1>3. 1 .. stack[1].pc - 1 = DOMAIN Program.code
  BY <1>1
<1>4. ASSUME NEW i \in DOMAIN instrs, instrs[i].kind = "observe"
      PROVE  /\ instrs[i].path = <<>>
             /\ \E j \in Observations(Program) : CopyOf(instrs[i], Program.code[j])
  <2>1. instrs[i].path = <<>>
    BY <1>2, <1>4 DEF ObservedAtEntry
  <2>2. Copied(module, stack[1], instrs[i])
    BY <1>1, <1>2, <2>1 DEF InstrsPlaced
  <2>3. PICK j \in 1 .. stack[1].pc - 1 : CopyOf(instrs[i], Code(module, stack[1].prog)[j])
    BY <2>2 DEF Copied
  <2>4. CopyOf(instrs[i], Program.code[j]) /\ j \in DOMAIN Program.code
    BY <1>1, <1>3, <2>3
  <2>5. j \in Observations(Program)
    BY <1>4, <2>4 DEF CopyOf, Observations
  <2>6. QED BY <2>1, <2>4, <2>5
<1>5. ASSUME NEW j \in Observations(Program)
      PROVE  \E i \in DOMAIN instrs : CopyOf(instrs[i], Program.code[j])
  <2>1. j \in 1 .. stack[1].pc - 1 /\ Code(module, module.entry)[j].kind # "call"
    BY <1>1, <1>3 DEF Observations
  <2>2. QED BY <1>1, <1>2, <2>1 DEF EntryCopied
<1>6. ASSUME NEW i \in DOMAIN instrs, NEW k \in DOMAIN instrs,
             instrs[i].kind = "observe", instrs[k].kind = "observe",
             instrs[i].op = instrs[k].op \/ instrs[i].result = instrs[k].result
      PROVE  i = k
  <2>1. PICK a \in Observations(Program) : CopyOf(instrs[i], Program.code[a])
    BY <1>4, <1>6
  <2>2. PICK b \in Observations(Program) : CopyOf(instrs[k], Program.code[b])
    BY <1>4, <1>6
  <2>3. a \in DOMAIN Program.code /\ b \in DOMAIN Program.code
    BY DEF Observations
  <2>4. instrs[i].op = instrs[k].op
    <3>1. CASE instrs[i].result = instrs[k].result
      <4>1. Program.code[a].result = Program.code[b].result
        BY <2>1, <2>2, <3>1 DEF CopyOf
      <4>2. a = b
        BY <1>1, <4>1 DEF IsLogicalProgram
      <4>3. QED BY <2>1, <2>2, <4>2 DEF CopyOf
    <3>2. QED BY <1>6, <3>1
  <2>5. instrs[i].path = instrs[k].path
    BY <1>4, <1>6
  <2>6. QED BY <1>2, <2>4, <2>5 DEF InstrsDistinct
<1>7. QED BY <1>4, <1>5, <1>6

\* The constructor of the expanded artifact has one thing to turn down.
LEMMA ValidUnlessAliased ==
    ASSUME ExpansionIInv, phase # "expanding", ~ ObserverCalled(module)
    PROVE  ExpandedProgramValid(returned) <=> ~ ObservedUnderAlias
<1>1. UniqueIdentity /\ DefinedBeforeUse
  BY ExpansionIsSound DEF ExpansionSound
<1>2. /\ Program = module.programs[module.entry] /\ IsLogicalProgram(Program)
      /\ Open(stack) = {} /\ DOMAIN returned = DOMAIN Program.leaves
  BY EndFacts
<1>3. Injective([c \in DOMAIN records |-> records[c].path])
  <2>1. RecordsDistinct(stack, records)
    BY DEF ExpansionIInv, ExpansionNow, RecordsIInv
  <2>2. \A c, d \in DOMAIN records : records[c].path = records[d].path => c = d
    BY <1>2, <2>1 DEF RecordsDistinct
  <2>3. QED BY <2>2 DEF Injective
<1>4. \A i \in DOMAIN instrs : \A r \in DOMAIN instrs[i].refs : instrs[i].refs[r] \in QubitIds
  BY <1>1 DEF DefinedBeforeUse, QubitIds
<1>5. BitIds(Program) = {Program.code[j].result : j \in Observations(Program)}
  BY <1>2, Zenon DEF IsLogicalProgram
<1>6. ProducedBits = BitIds(Program)
  <2>1. ASSUME NEW x \in ProducedBits PROVE x \in BitIds(Program)
    <3>1. PICK i \in DOMAIN instrs : instrs[i].kind = "observe" /\ x = instrs[i].result
      BY DEF ProducedBits
    <3>2. PICK j \in Observations(Program) : CopyOf(instrs[i], Program.code[j])
      BY <3>1, ObservationFacts
    <3>3. QED BY <1>5, <3>1, <3>2 DEF CopyOf
  <2>2. ASSUME NEW x \in BitIds(Program) PROVE x \in ProducedBits
    <3>1. PICK j \in Observations(Program) : x = Program.code[j].result
      BY <1>5
    <3>2. PICK i \in DOMAIN instrs : CopyOf(instrs[i], Program.code[j])
      BY ObservationFacts
    <3>3. instrs[i].kind = "observe" /\ instrs[i].result = x
      BY <3>1, <3>2 DEF CopyOf, Observations
    <3>4. QED BY <3>3 DEF ProducedBits
  <2>3. QED BY <2>1, <2>2
<1>7. ASSUME NEW leaf \in DOMAIN returned
      PROVE  /\ returned[leaf].quantum \in BOOLEAN
             /\ returned[leaf].quantum => returned[leaf].id \in QubitIds
             /\ ~ returned[leaf].quantum => returned[leaf].id \in BitIds(Program)
  <2>1. /\ returned[leaf].quantum = Program.leaves[leaf].quantum
        /\ returned[leaf].quantum \in BOOLEAN
        /\ returned[leaf].quantum => returned[leaf].id \in QubitsOf(qubits)
        /\ ~ returned[leaf].quantum => returned[leaf].id = Program.leaves[leaf].id
    BY EndFacts
  <2>2. ASSUME ~ returned[leaf].quantum PROVE Program.leaves[leaf].id \in BitIds(Program)
    BY <1>2, <2>1, <2>2, Zenon DEF IsLogicalProgram, ReturnDeclared
  <2>3. QED BY <2>1, <2>2 DEF QubitIds, QubitsOf
<1>8. ExpandedProgramValid(returned) <=>
        \A leaf \in DOMAIN returned :
           IF returned[leaf].quantum
           THEN returned[leaf].id \in QubitIds \ ObservedIds
           ELSE returned[leaf].id \in BitIds(Program) \intersect ProducedBits
  BY <1>1, <1>2, <1>3, <1>4, <1>6 DEF ExpandedProgramValid, UniqueIdentity
<1>9. QED BY <1>6, <1>7, <1>8 DEF ObservedUnderAlias

-----------------------------------------------------------------------------
(* The analyses of a finished expansion.                                   *)

\* The observations are listed once each.
Lists(obs, is, n) ==
    /\ obs \in Seq(Expanded)
    /\ \A x \in DOMAIN obs : \E i \in 1 .. n : is[i].kind = "observe" /\ obs[x] = is[i]
    /\ \A i \in 1 .. n : is[i].kind = "observe" => \E x \in DOMAIN obs : obs[x] = is[i]
    /\ \A x, y \in DOMAIN obs : obs[x] = obs[y] => x = y

\* One more instruction is looked at.
LEMMA ListsOneMore ==
    ASSUME NEW is \in Seq(Expanded), InstrsDistinct(is), NEW n \in Nat, n + 1 \in DOMAIN is,
           NEW obs, Lists(obs, is, n),
           NEW more, more = IF is[n + 1].kind = "observe" THEN Append(obs, is[n + 1]) ELSE obs
    PROVE  Lists(more, is, n + 1)
<1>1. \A i \in 1 .. n + 1 : i = n + 1 \/ i \in 1 .. n
  OBVIOUS
<1>2. \A i \in 1 .. n : i \in 1 .. n + 1 /\ i # n + 1 /\ i \in DOMAIN is
  OBVIOUS
<1>3. n + 1 \in 1 .. n + 1 /\ is[n + 1] \in Expanded
  OBVIOUS
<1>4. CASE is[n + 1].kind # "observe"
  <2>1. more = obs
    BY <1>4
  <2>2. QED BY <1>1, <1>2, <1>4, <2>1 DEF Lists
<1>5. CASE is[n + 1].kind = "observe"
  <2> DEFINE last == Len(obs) + 1
  <2>1. /\ more \in Seq(Expanded) /\ DOMAIN more = 1 .. last /\ DOMAIN obs = 1 .. Len(obs)
        /\ Len(obs) \in Nat /\ more[last] = is[n + 1]
        /\ \A x \in 1 .. Len(obs) : more[x] = obs[x]
    BY <1>3, <1>5, AppendFacts DEF Lists
  <2>2. last \in DOMAIN more /\ (\A x \in DOMAIN obs : x \in DOMAIN more /\ more[x] = obs[x])
        /\ \A x \in DOMAIN more : x = last \/ x \in DOMAIN obs
    <3>1. last \in 1 .. last /\ (\A x \in 1 .. Len(obs) : x \in 1 .. last)
          /\ \A x \in 1 .. last : x = last \/ x \in 1 .. Len(obs)
      BY <2>1
    <3>2. QED BY <2>1, <3>1
  <2> HIDE DEF last
  <2>3. ASSUME NEW x \in DOMAIN obs PROVE obs[x] # is[n + 1]
    <3>1. PICK i \in 1 .. n : obs[x] = is[i]
      BY DEF Lists
    <3>2. i \in DOMAIN is /\ i # n + 1
      BY <1>2
    <3>3. QED BY <3>1, <3>2 DEF InstrsDistinct
  <2>4. ASSUME NEW x \in DOMAIN more
        PROVE  \E i \in 1 .. n + 1 : is[i].kind = "observe" /\ more[x] = is[i]
    <3>1. CASE x = last
      BY <1>3, <1>5, <2>1, <3>1
    <3>2. CASE x \in DOMAIN obs
      <4>1. PICK i \in 1 .. n : is[i].kind = "observe" /\ obs[x] = is[i]
        BY <3>2 DEF Lists
      <4>2. QED BY <1>2, <2>2, <3>2, <4>1
    <3>3. QED BY <2>2, <3>1, <3>2
  <2>5. ASSUME NEW i \in 1 .. n + 1, is[i].kind = "observe"
        PROVE  \E x \in DOMAIN more : more[x] = is[i]
    <3>1. CASE i = n + 1
      BY <2>1, <2>2, <3>1
    <3>2. CASE i \in 1 .. n
      <4>1. PICK x \in DOMAIN obs : obs[x] = is[i]
        BY <2>5, <3>2 DEF Lists
      <4>2. QED BY <2>2, <4>1
    <3>3. QED BY <1>1, <3>1, <3>2
  <2>6. ASSUME NEW x \in DOMAIN more, NEW y \in DOMAIN more, more[x] = more[y] PROVE x = y
    BY <2>1, <2>2, <2>3, <2>6 DEF Lists
  <2>7. QED BY <2>1, <2>4, <2>5, <2>6 DEF Lists
<1>6. QED BY <1>4, <1>5

\* The readout plan's list is one of all observations.
LEMMA ObservationsListed ==
    ASSUME ExpansionIInv
    PROVE  Lists(ExpandedObservations, instrs, Len(instrs))
<1> DEFINE n == Len(instrs)
           V == Seq(Expanded)
           step == [i \in 1 .. n |-> [s \in V |-> IF IsObservation(instrs[i])
                                                  THEN Append(s, instrs[i]) ELSE s]]
           Next(f) == [i \in 0 .. n |-> IF i = 0 THEN <<>>
                                        ELSE IF IsObservation(instrs[i])
                                        THEN Append(f[i - 1], instrs[i]) ELSE f[i - 1]]
           among == CHOOSE f : f = Next(f)
<1>1. instrs \in Seq(Expanded) /\ InstrsDistinct(instrs) /\ n \in Nat /\ DOMAIN instrs = 1 .. n
  BY DEF ExpansionIInv, ExpansionNow, Typed, CodeIInv
<1>2. ExpandedObservations = among[n]
  BY DEF ExpandedObservations
<1> HIDE DEF n
<1>3. step \in [1 .. n -> [V -> V]]
  <2>1. ASSUME NEW i \in 1 .. n, NEW s \in V
        PROVE  (IF IsObservation(instrs[i]) THEN Append(s, instrs[i]) ELSE s) \in V
    <3>1. instrs[i] \in Expanded
      BY <1>1
    <3>2. QED BY <3>1, AppendFacts
  <2> HIDE DEF V
  <2>2. QED BY <2>1
<1>4. <<>> \in V
  OBVIOUS
<1>5. \E w \in [0 .. n -> V] : Advances(w, n, <<>>, step)
  <2> HIDE DEF V, step
  <2>1. QED BY <1>1, <1>3, <1>4, PrefixValues
<1>6. PICK w \in [0 .. n -> V] : Advances(w, n, <<>>, step)
  BY <1>5
<1>7. w = Next(w)
  <2>1. w = [i \in 0 .. n |-> w[i]]
    OBVIOUS
  <2>2. ASSUME NEW i \in 0 .. n PROVE w[i] = Next(w)[i]
    <3>1. CASE i = 0
      BY <1>6, <3>1 DEF Advances
    <3>2. CASE i # 0
      <4>1. i \in 1 .. n /\ i - 1 \in 0 .. n
        BY <1>1, <3>2
      <4>2. w[i] = step[i][w[i - 1]] /\ w[i - 1] \in V
        BY <1>6, <4>1 DEF Advances
      <4>3. step[i][w[i - 1]] = IF IsObservation(instrs[i])
                                THEN Append(w[i - 1], instrs[i]) ELSE w[i - 1]
        BY <4>1, <4>2
      <4>4. QED BY <3>2, <4>2, <4>3
    <3>3. QED BY <3>1, <3>2
  <2>3. QED BY <2>1, <2>2
<1>8. among = Next(among)
  <2> HIDE DEF Next
  <2>1. QED BY <1>7
<1> DEFINE Right == {k \in Nat : k <= n => Lists(among[k], instrs, k)}
<1>9. among[0] = <<>> /\ \A i \in 1 .. n :
         among[i] = IF IsObservation(instrs[i]) THEN Append(among[i - 1], instrs[i]) ELSE among[i - 1]
  <2> HIDE DEF among
  <2>1. 0 \in 0 .. n /\ \A i \in 1 .. n : i \in 0 .. n /\ i # 0
    BY <1>1
  <2>2. QED BY <1>8, <2>1
<1> HIDE DEF among
<1>10. 0 \in Right
  <2>1. DOMAIN among[0] = {} /\ 1 .. 0 = {} /\ among[0] \in Seq(Expanded)
    BY <1>9
  <2>2. QED BY <2>1 DEF Lists
<1>11. ASSUME NEW k \in Nat, k \in Right PROVE k + 1 \in Right
  <2>1. SUFFICES ASSUME k + 1 <= n PROVE Lists(among[k + 1], instrs, k + 1)
    OBVIOUS
  <2>2. k <= n /\ k + 1 \in 1 .. n /\ (k + 1) - 1 = k
    BY <1>1, <2>1
  <2>3. Lists(among[k], instrs, k)
    BY <1>11, <2>2
  <2>4. among[k + 1] = IF instrs[k + 1].kind = "observe" THEN Append(among[k], instrs[k + 1])
                       ELSE among[k]
    BY <1>9, <2>2 DEF IsObservation
  <2>5. k + 1 \in DOMAIN instrs
    BY <1>1, <2>2
  <2>6. QED BY <1>1, <2>3, <2>4, <2>5, ListsOneMore
<1>12. Nat \subseteq Right
  <2> HIDE DEF Right
  <2>1. QED BY <1>10, <1>11, SetInduction
<1>13. Lists(among[n], instrs, n)
  BY <1>1, <1>12
<1>14. QED BY <1>2, <1>13 DEF n

-----------------------------------------------------------------------------
(* Slots.                                                                  *)

Allocated ==
    [entries |-> [q \in DOMAIN qubits |-> [id |-> qubits[q].id, slot |-> q - 1]],
     peak |-> Len(qubits), width |-> Len(qubits)]

\* A value's slot is its place among the values.
LEMMA SlotOf ==
    ASSUME ExpansionIInv, allocation = Allocated, NEW q \in DOMAIN qubits
    PROVE  Slot(qubits[q].id) = q - 1
<1>1. QubitsDistinct(qubits) /\ qubits \in Seq(Instances)
  BY DEF ExpansionIInv, ExpansionNow, ValuesIInv, Typed
<1>2. q \in Nat
  BY <1>1
<1> DEFINE entries == allocation.entries
           here == {x \in DOMAIN entries : entries[x].id = qubits[q].id}
<1>3. DOMAIN entries = DOMAIN qubits
      /\ \A x \in DOMAIN qubits : entries[x].id = qubits[x].id /\ entries[x].slot = x - 1
  BY DEF Allocated
<1>4. here = {q}
  BY <1>1, <1>3 DEF QubitsDistinct
<1> HIDE DEF entries
<1>5. Max({q}) = q
  <2>1. \A x \in {q} : (\A y \in {q} : x >= y) <=> x = q
    BY <1>2
  <2>2. QED BY <2>1 DEF Max
<1>6. Slot(qubits[q].id) = entries[Max(here)].slot
  BY DEF Slot, entries
<1>7. QED BY <1>3, <1>4, <1>5, <1>6

\* An operand's slot is that of the value it is.
LEMMA RefSlots ==
    ASSUME ExpansionIInv, allocation = Allocated,
           NEW i \in DOMAIN instrs, NEW r \in DOMAIN instrs[i].refs
    PROVE  \E q \in DOMAIN qubits : /\ instrs[i].refs[r] = qubits[q].id /\ qubits[q].created < i
                                    /\ Slot(instrs[i].refs[r]) = q - 1 /\ q - 1 \in 0 .. Len(qubits) - 1
<1>1. PICK q \in DOMAIN qubits : qubits[q].id = instrs[i].refs[r] /\ qubits[q].created < i
  BY InstrFacts
<1>2. Slot(instrs[i].refs[r]) = q - 1
  BY <1>1, SlotOf
<1>3. q - 1 \in 0 .. Len(qubits) - 1
  <2>1. qubits \in Seq(Instances)
    BY DEF ExpansionIInv, ExpansionNow, Typed
  <2>2. q \in 1 .. Len(qubits) /\ Len(qubits) \in Nat
    BY <2>1
  <2>3. QED BY <2>2
<1>4. QED BY <1>1, <1>2, <1>3

\* Two operands have one slot exactly when they are one value.
LEMMA SlotsTellValues ==
    ASSUME ExpansionIInv, allocation = Allocated,
           NEW i \in DOMAIN instrs, NEW r \in DOMAIN instrs[i].refs,
           NEW j \in DOMAIN instrs, NEW s \in DOMAIN instrs[j].refs
    PROVE  (Slot(instrs[i].refs[r]) = Slot(instrs[j].refs[s])) <=> (instrs[i].refs[r] = instrs[j].refs[s])
<1>1. PICK q \in DOMAIN qubits : instrs[i].refs[r] = qubits[q].id /\ Slot(instrs[i].refs[r]) = q - 1
  BY RefSlots
<1>2. PICK p \in DOMAIN qubits : instrs[j].refs[s] = qubits[p].id /\ Slot(instrs[j].refs[s]) = p - 1
  BY RefSlots
<1>3. q \in Nat /\ p \in Nat
  BY DEF ExpansionIInv, ExpansionNow, Typed
<1>4. QED BY <1>1, <1>2, <1>3

-----------------------------------------------------------------------------
(* Lifetimes.                                                              *)

\* A lifetime begins before every use of its value and ends after all of them.
LEMMA LifetimeFacts ==
    ASSUME ExpansionIInv, NEW q \in DOMAIN qubits
    PROVE  /\ Lifetime(qubits[q]).id = qubits[q].id
           /\ Lifetime(qubits[q]).first = qubits[q].created
           /\ Lifetime(qubits[q]).reason = EndReason(qubits[q])
           /\ Lifetime(qubits[q]).first <= Lifetime(qubits[q]).last
           /\ EndReason(qubits[q]) \in {"returned", "call_escape", "program_end", "last_use"}
           /\ EndReason(qubits[q]) = "returned" <=> qubits[q].id \in ReturnedIds
           /\ qubits[q].id \in ReturnedIds => Lifetime(qubits[q]).last = ProgramEnd
           /\ EndReason(qubits[q]) = "last_use" =>
                 qubits[q].id \notin ToSet(escapes) /\ qubits[q].ownership # "entry_parameter"
           /\ \A i \in DOMAIN instrs : \A r \in DOMAIN instrs[i].refs :
                 instrs[i].refs[r] = qubits[q].id =>
                    qubits[q].created < i /\ i <= Lifetime(qubits[q]).last + 1
<1> DEFINE value == qubits[q]
           uses == UseIndexes(value.id)
<1>1. /\ qubits \in Seq(Instances) /\ instrs \in Seq(Expanded) /\ QubitsDistinct(qubits)
      /\ QubitsInTime(qubits, Len(instrs))
  BY DEF ExpansionIInv, ExpansionNow, ValuesIInv, Typed
<1>2. value.created \in Nat /\ value.created <= Len(instrs) /\ Len(instrs) \in Nat
      /\ DOMAIN instrs = 1 .. Len(instrs)
  <2>1. value \in Instances
    BY <1>1
  <2>2. value.created <= Len(instrs)
    BY <1>1 DEF QubitsInTime
  <2>3. QED BY <1>1, <2>1, <2>2 DEF Instances
<1>3. \A i \in DOMAIN instrs : \A r \in DOMAIN instrs[i].refs :
         instrs[i].refs[r] = value.id => value.created < i
  <2>1. ASSUME NEW i \in DOMAIN instrs, NEW r \in DOMAIN instrs[i].refs, instrs[i].refs[r] = value.id
        PROVE  value.created < i
    <3>1. PICK p \in DOMAIN qubits : qubits[p].id = instrs[i].refs[r] /\ qubits[p].created < i
      BY InstrFacts
    <3>2. p = q
      BY <1>1, <2>1, <3>1 DEF QubitsDistinct
    <3>3. QED BY <3>1, <3>2
  <2>2. QED BY <2>1
<1>4. /\ uses \in SUBSET Nat
      /\ \A u \in uses : u <= Len(instrs) /\ value.created <= u
      /\ \A i \in DOMAIN instrs : \A r \in DOMAIN instrs[i].refs :
            instrs[i].refs[r] = value.id => i - 1 \in uses
  <2>1. ASSUME NEW u \in uses PROVE u \in Nat /\ u <= Len(instrs) /\ value.created <= u
    <3>1. PICK i \in DOMAIN instrs : u = i - 1 /\ \E r \in DOMAIN instrs[i].refs : instrs[i].refs[r] = value.id
      BY DEF UseIndexes
    <3>2. value.created < i /\ i \in 1 .. Len(instrs)
      BY <1>2, <1>3, <3>1
    <3>3. QED BY <1>2, <3>1, <3>2
  <2>2. \A i \in DOMAIN instrs : \A r \in DOMAIN instrs[i].refs :
            instrs[i].refs[r] = value.id => i - 1 \in uses
    BY DEF UseIndexes
  <2> HIDE DEF uses
  <2>3. QED BY <2>1, <2>2
<1> HIDE DEF value
<1>5. /\ value.created <= LastUse(value) /\ \A u \in uses : u <= LastUse(value)
      /\ LastUse(value) \in Nat
  <2>1. CASE uses = {}
    BY <1>2, <2>1 DEF LastUse
  <2>2. CASE uses # {}
    <3> HIDE DEF uses
    <3>1. \E m \in uses : \A k \in uses : k <= m
      BY <1>2, <1>4, <2>2, GreatestNumber
    <3>2. Max(uses) \in uses /\ \A k \in uses : Max(uses) >= k
      <4>1. \E m \in uses : \A k \in uses : m >= k
        BY <1>4, <3>1
      <4>2. QED BY <4>1 DEF Max
    <3>3. LastUse(value) = Max(uses)
      BY <2>2 DEF LastUse, uses
    <3>4. Max(uses) \in Nat
      BY <1>4, <3>2
    <3>5. value.created <= Max(uses)
      BY <1>4, <3>2
    <3>6. \A u \in uses : u <= Max(uses)
      BY <1>4, <3>2, <3>4
    <3>7. QED BY <3>3, <3>4, <3>5, <3>6
  <2>3. QED BY <2>1, <2>2
<1> HIDE DEF uses
<1> DEFINE life == Lifetime(value)
<1>6. /\ life.id = value.id /\ life.first = value.created /\ life.reason = EndReason(value)
      /\ life.last = IF EndReason(value) \in {"returned", "program_end"} THEN Len(instrs) ELSE LastUse(value)
  BY DEF Lifetime, ProgramEnd
<1> HIDE DEF life
<1>7. life.first <= life.last
  BY <1>2, <1>5, <1>6
<1>8. /\ EndReason(value) \in {"returned", "call_escape", "program_end", "last_use"}
      /\ (EndReason(value) = "returned") <=> value.id \in ReturnedIds
      /\ EndReason(value) = "last_use" =>
            value.id \notin ToSet(escapes) /\ value.ownership # "entry_parameter"
  BY DEF EndReason
<1>9. value.id \in ReturnedIds => life.last = ProgramEnd
  BY <1>6, <1>8 DEF ProgramEnd
<1>10. ASSUME NEW i \in DOMAIN instrs, NEW r \in DOMAIN instrs[i].refs, instrs[i].refs[r] = value.id
       PROVE  value.created < i /\ i <= life.last + 1
  <2>1. value.created < i /\ i - 1 \in uses /\ i \in Nat /\ i <= Len(instrs)
    <3>1. value.created < i
      BY <1>3, <1>10 DEF value
    <3>2. i - 1 \in uses
      BY <1>4, <1>10
    <3>3. i \in 1 .. Len(instrs)
      BY <1>2
    <3>4. QED BY <1>2, <3>1, <3>2, <3>3
  <2>2. i - 1 <= LastUse(value)
    BY <1>5, <2>1
  <2>3. CASE life.last = Len(instrs)
    BY <1>2, <2>1, <2>3
  <2>4. CASE life.last = LastUse(value)
    BY <1>5, <2>1, <2>2, <2>4
  <2>5. QED BY <1>6, <2>3, <2>4
<1>11. QED
  BY <1>6, <1>7, <1>8, <1>9, <1>10 DEF value, life

-----------------------------------------------------------------------------
(* The stages.                                                             *)

AfterReading    == {"publishing", "compiled"}
AfterLowering   == AfterReading \union {"reading"}
AfterAllocation == AfterLowering \union {"lowering"}
AfterReleases   == AfterAllocation \union {"allocating"}
AfterLifetimes  == AfterReleases \union {"releasing"}
AfterChecks     == AfterLifetimes \union {"analyzing"}
Stages == AfterChecks \union {"checking", "expanding", "rejected", "failed"}

LifetimesNow == [q \in DOMAIN qubits |-> Lifetime(qubits[q])]

ReleasesNow ==
    [q \in DOMAIN qubits |->
        [id |-> qubits[q].id, after |-> LifetimesNow[q].last,
         kind |-> ReleaseKind(qubits[q]), reason |-> LifetimesNow[q].reason]]

OperationsNow == [i \in DOMAIN instrs |-> LowerInstruction(instrs[i])]

ReadoutNow ==
    [n \in DOMAIN ExpandedObservations |-> AllocatedObservation(ExpandedObservations[n])]

\* What CheckExpanded reports.
Found ==
    {code \in {"A201", "A205"} : \E i \in DOMAIN instrs :
        IF code = "A205" THEN AliasedCx(instrs[i]) ELSE UnsupportedBasis(instrs[i])}

\* Each artifact is there from its stage on, and is what its stage makes it.
ArtifactsIInv ==
    /\ lifetimes = IF stage \in AfterLifetimes THEN LifetimesNow ELSE <<>>
    /\ releases = IF stage \in AfterReleases THEN ReleasesNow ELSE <<>>
    /\ allocation = IF stage \in AfterAllocation THEN Allocated ELSE NotAllocated
    /\ operations = IF stage \in AfterLowering THEN OperationsNow ELSE <<>>
    /\ readout = IF stage \in AfterReading THEN ReadoutNow ELSE <<>>

\* What the checks have shown.
ChecksIInv ==
    /\ stage \in Stages
    /\ stage # "rejected" => diagnostics = {}
    /\ stage \notin {"checking", "rejected"} => ~ ObserverCalled(module)
    /\ stage \in AfterChecks => phase = "expanded" /\ Found = {}
    /\ stage = "failed" => phase = "invalid"
    /\ stage = "rejected" =>
          \/ diagnostics = {"A204"}
          \/ /\ diagnostics = Found /\ phase = "expanded"

CompilerIInv ==
    ExpansionIInv /\ LoneValues(module, qubits) /\ ArtifactsIInv /\ ChecksIInv

-----------------------------------------------------------------------------

\* The analyses depend on the expansion alone,
LEMMA SameAnalyses ==
    ASSUME UNCHANGED expansionVars
    PROVE  /\ LifetimesNow' = LifetimesNow /\ ReleasesNow' = ReleasesNow
           /\ Allocated' = Allocated /\ Found' = Found
           /\ ObserverCalled(module)' <=> ObserverCalled(module)
           /\ phase' = phase /\ LoneValues(module, qubits)' <=> LoneValues(module, qubits)
           /\ ExpandedObservations' = ExpandedObservations
<1>1. UNCHANGED <<module, stack, qubits, instrs, records, escapes, returned, phase>>
  BY DEF expansionVars
<1>2. ReturnedIds' = ReturnedIds /\ ProgramEnd' = ProgramEnd
  BY <1>1 DEF ReturnedIds, ProgramEnd
<1>3. LifetimesNow' = LifetimesNow
  BY <1>1, <1>2 DEF LifetimesNow, Lifetime, EndReason, LastUse, UseIndexes
<1>4. ReleasesNow' = ReleasesNow
  BY <1>1, <1>2, <1>3 DEF ReleasesNow, ReleaseKind
<1>5. Allocated' = Allocated
  BY <1>1 DEF Allocated
<1>6. Found' = Found
  BY <1>1 DEF Found, AliasedCx, UnsupportedBasis
<1>7. ExpandedObservations' = ExpandedObservations
  BY <1>1 DEF ExpandedObservations, IsObservation
<1>8. QED BY <1>1, <1>3, <1>4, <1>5, <1>6, <1>7 DEF ObserverCalled, LoneValues

\* and lowering and readout on the allocation as well.
LEMMA SameCode ==
    ASSUME UNCHANGED expansionVars, allocation' = allocation
    PROVE  OperationsNow' = OperationsNow /\ ReadoutNow' = ReadoutNow
<1>1. UNCHANGED <<module, stack, qubits, instrs, records, escapes, returned, phase>>
  BY DEF expansionVars
<1>2. OperationsNow' = OperationsNow
  BY <1>1 DEF OperationsNow, LowerInstruction, IrId, Slot
<1>3. ReadoutNow' = ReadoutNow
  BY <1>1, SameAnalyses DEF ReadoutNow, AllocatedObservation, Slot
<1>4. QED BY <1>2, <1>3

\* A stage that leaves the expansion as it is.
LEMMA AnalysisKeeps ==
    ASSUME CompilerIInv, UNCHANGED expansionVars
    PROVE  ExpansionIInv' /\ LoneValues(module, qubits)'
<1>1. ExpansionIInv'
  BY ExpansionStutters DEF CompilerIInv
<1>2. LoneValues(module, qubits)'
  BY SameAnalyses DEF CompilerIInv
<1>3. QED BY <1>1, <1>2

LEMMA CheckCalleesKeeps == ASSUME CompilerIInv, CheckCallees PROVE CompilerIInv'
<1>1. UNCHANGED expansionVars /\ UNCHANGED artifactVars /\ stage = "checking"
      /\ stage' = (IF CallsObserver THEN "rejected" ELSE "expanding")
      /\ diagnostics' = (IF CallsObserver THEN {"A204"} ELSE {})
  BY DEF CheckCallees
<1>2. CallsObserver <=> ObserverCalled(module)
  BY DEF CallsObserver, ObserverCalled
<1>3. ArtifactsIInv'
  BY <1>1 DEF CompilerIInv, ArtifactsIInv, artifactVars, AfterLifetimes, AfterReleases,
              AfterAllocation, AfterLowering, AfterReading, NotAllocated
<1>4. ChecksIInv'
  BY <1>1, <1>2, SameAnalyses
     DEF CompilerIInv, ChecksIInv, Stages, AfterChecks, AfterLifetimes, AfterReleases,
         AfterAllocation, AfterLowering, AfterReading
<1>5. QED BY <1>1, <1>3, <1>4, AnalysisKeeps DEF CompilerIInv

LEMMA ExpandStepKeeps == ASSUME CompilerIInv, ExpandStep PROVE CompilerIInv'
<1>1. stage = "expanding" /\ Expand /\ stage' = stage /\ diagnostics' = diagnostics
      /\ UNCHANGED artifactVars
  BY DEF ExpandStep
<1>2. ExpansionIInv' /\ LoneValues(module, qubits)'
  BY <1>1, ExpandKeeps, LoneValuesStay DEF CompilerIInv
<1>3. module' = module
  BY <1>1, Zenon
     DEF Expand, InstantiateParameter, InstantiatePending, SkipPending, InstantiateOnDemand,
         InstantiateLocal, ExpandInstruction, EnterCall, ReturnFromCall, FinishExpansion
<1>4. ArtifactsIInv'
  BY <1>1 DEF CompilerIInv, ArtifactsIInv, artifactVars, AfterLifetimes, AfterReleases,
              AfterAllocation, AfterLowering, AfterReading, NotAllocated
<1>5. ChecksIInv'
  BY <1>1, <1>3
     DEF CompilerIInv, ChecksIInv, Stages, AfterChecks, AfterLifetimes, AfterReleases,
         AfterAllocation, AfterLowering, AfterReading, ObserverCalled
<1>6. QED BY <1>2, <1>4, <1>5 DEF CompilerIInv

LEMMA ExpansionRaisesKeeps == ASSUME CompilerIInv, ExpansionRaises PROVE CompilerIInv'
<1>1. UNCHANGED expansionVars /\ UNCHANGED artifactVars /\ stage = "expanding" /\ phase = "invalid"
      /\ stage' = "failed" /\ diagnostics' = diagnostics
  BY DEF ExpansionRaises
<1>2. ArtifactsIInv'
  BY <1>1 DEF CompilerIInv, ArtifactsIInv, artifactVars, AfterLifetimes, AfterReleases,
              AfterAllocation, AfterLowering, AfterReading, NotAllocated
<1>3. ChecksIInv'
  BY <1>1, SameAnalyses
     DEF CompilerIInv, ChecksIInv, Stages, AfterChecks, AfterLifetimes, AfterReleases,
         AfterAllocation, AfterLowering, AfterReading
<1>4. QED BY <1>1, <1>2, <1>3, AnalysisKeeps DEF CompilerIInv

LEMMA CheckExpandedKeeps == ASSUME CompilerIInv, CheckExpanded PROVE CompilerIInv'
<1>1. UNCHANGED expansionVars /\ UNCHANGED artifactVars /\ stage = "expanding" /\ phase = "expanded"
      /\ diagnostics' = Found
      /\ stage' = (IF diagnostics' = {} THEN "analyzing" ELSE "rejected")
  BY DEF CheckExpanded, Found
<1>2. ArtifactsIInv'
  BY <1>1 DEF CompilerIInv, ArtifactsIInv, artifactVars, AfterLifetimes, AfterReleases,
              AfterAllocation, AfterLowering, AfterReading, NotAllocated
<1>3. ChecksIInv'
  BY <1>1, SameAnalyses
     DEF CompilerIInv, ChecksIInv, Stages, AfterChecks, AfterLifetimes, AfterReleases,
         AfterAllocation, AfterLowering, AfterReading
<1>4. QED BY <1>1, <1>2, <1>3, AnalysisKeeps DEF CompilerIInv

LEMMA AnalyzeLifetimesKeeps == ASSUME CompilerIInv, AnalyzeLifetimes PROVE CompilerIInv'
<1>1. /\ UNCHANGED expansionVars /\ stage = "analyzing" /\ diagnostics' = diagnostics
      /\ releases' = releases /\ allocation' = allocation /\ operations' = operations
      /\ readout' = readout
      /\ lifetimes' = LifetimesNow
      /\ stage' = IF \A q \in DOMAIN lifetimes' : lifetimes'[q].first <= lifetimes'[q].last
                  THEN "releasing" ELSE "failed"
  BY DEF AnalyzeLifetimes, LifetimesNow
<1>2. \A q \in DOMAIN LifetimesNow : LifetimesNow[q].first <= LifetimesNow[q].last
  BY LifetimeFacts DEF CompilerIInv, LifetimesNow
<1>3. stage' = "releasing"
  BY <1>1, <1>2
<1>4. ArtifactsIInv'
  BY <1>1, <1>3, SameAnalyses
     DEF CompilerIInv, ArtifactsIInv, AfterLifetimes, AfterReleases,
         AfterAllocation, AfterLowering, AfterReading, NotAllocated
<1>5. ChecksIInv'
  BY <1>1, <1>3, SameAnalyses
     DEF CompilerIInv, ChecksIInv, Stages, AfterChecks, AfterLifetimes, AfterReleases,
         AfterAllocation, AfterLowering, AfterReading
<1>6. QED BY <1>1, <1>4, <1>5, AnalysisKeeps DEF CompilerIInv

LEMMA AnalyzeReleasesKeeps == ASSUME CompilerIInv, AnalyzeReleases PROVE CompilerIInv'
<1>1. /\ UNCHANGED expansionVars /\ stage = "releasing" /\ diagnostics' = diagnostics
      /\ lifetimes' = lifetimes /\ allocation' = allocation /\ operations' = operations
      /\ readout' = readout /\ stage' = "allocating"
  BY DEF AnalyzeReleases
<1>2. lifetimes = LifetimesNow
  BY <1>1 DEF CompilerIInv, ArtifactsIInv, AfterLifetimes
<1>3. releases' = ReleasesNow
  BY <1>2 DEF AnalyzeReleases, ReleasesNow
<1>4. ArtifactsIInv'
  BY <1>1, <1>2, <1>3, SameAnalyses
     DEF CompilerIInv, ArtifactsIInv, AfterLifetimes, AfterReleases,
         AfterAllocation, AfterLowering, AfterReading, NotAllocated
<1>5. ChecksIInv'
  BY <1>1, SameAnalyses
     DEF CompilerIInv, ChecksIInv, Stages, AfterChecks, AfterLifetimes, AfterReleases,
         AfterAllocation, AfterLowering, AfterReading
<1>6. QED BY <1>1, <1>4, <1>5, AnalysisKeeps DEF CompilerIInv

LEMMA AllocateKeeps == ASSUME CompilerIInv, Allocate PROVE CompilerIInv'
<1>1. /\ UNCHANGED expansionVars /\ stage = "allocating" /\ diagnostics' = diagnostics
      /\ lifetimes' = lifetimes /\ releases' = releases /\ operations' = operations
      /\ readout' = readout /\ stage' = "lowering" /\ allocation' = Allocated
  BY DEF Allocate, Allocated
<1>2. ArtifactsIInv'
  BY <1>1, SameAnalyses
     DEF CompilerIInv, ArtifactsIInv, AfterLifetimes, AfterReleases,
         AfterAllocation, AfterLowering, AfterReading, NotAllocated
<1>3. ChecksIInv'
  BY <1>1, SameAnalyses
     DEF CompilerIInv, ChecksIInv, Stages, AfterChecks, AfterLifetimes, AfterReleases,
         AfterAllocation, AfterLowering, AfterReading
<1>4. QED BY <1>1, <1>2, <1>3, AnalysisKeeps DEF CompilerIInv

LEMMA LowerKeeps == ASSUME CompilerIInv, Lower PROVE CompilerIInv'
<1>1. /\ UNCHANGED expansionVars /\ stage = "lowering" /\ diagnostics' = diagnostics
      /\ lifetimes' = lifetimes /\ releases' = releases /\ allocation' = allocation
      /\ readout' = readout /\ stage' = "reading" /\ operations' = OperationsNow
  BY DEF Lower, OperationsNow
<1>2. ArtifactsIInv'
  BY <1>1, SameAnalyses, SameCode
     DEF CompilerIInv, ArtifactsIInv, AfterLifetimes, AfterReleases,
         AfterAllocation, AfterLowering, AfterReading, NotAllocated
<1>3. ChecksIInv'
  BY <1>1, SameAnalyses
     DEF CompilerIInv, ChecksIInv, Stages, AfterChecks, AfterLifetimes, AfterReleases,
         AfterAllocation, AfterLowering, AfterReading
<1>4. QED BY <1>1, <1>2, <1>3, AnalysisKeeps DEF CompilerIInv

LEMMA BuildReadoutKeeps == ASSUME CompilerIInv, BuildReadout PROVE CompilerIInv'
<1>1. /\ UNCHANGED expansionVars /\ stage = "reading" /\ diagnostics' = diagnostics
      /\ lifetimes' = lifetimes /\ releases' = releases /\ allocation' = allocation
      /\ operations' = operations /\ stage' = "publishing" /\ readout' = ReadoutNow
  BY DEF BuildReadout, ReadoutNow
<1>2. ArtifactsIInv'
  BY <1>1, SameAnalyses, SameCode
     DEF CompilerIInv, ArtifactsIInv, AfterLifetimes, AfterReleases,
         AfterAllocation, AfterLowering, AfterReading, NotAllocated
<1>3. ChecksIInv'
  BY <1>1, SameAnalyses
     DEF CompilerIInv, ChecksIInv, Stages, AfterChecks, AfterLifetimes, AfterReleases,
         AfterAllocation, AfterLowering, AfterReading
<1>4. QED BY <1>1, <1>2, <1>3, AnalysisKeeps DEF CompilerIInv

-----------------------------------------------------------------------------
(* What publication compares.                                              *)

\* A readout entry is an observation's.
LEMMA ReadoutFacts ==
    ASSUME CompilerIInv, stage \in AfterReading, NEW n \in DOMAIN readout
    PROVE  \E i \in DOMAIN instrs :
              /\ instrs[i].kind = "observe" /\ ExpandedObservations[n] = instrs[i]
              /\ n \in DOMAIN ExpandedObservations
              /\ readout[n] = AllocatedObservation(instrs[i])
              /\ readout[n].result = instrs[i].result /\ readout[n].operation = instrs[i].op
              /\ readout[n].id = instrs[i].refs[1] /\ readout[n].slot = Slot(instrs[i].refs[1])
<1>1. readout = ReadoutNow
  BY DEF CompilerIInv, ArtifactsIInv
<1>2. n \in DOMAIN ExpandedObservations /\ readout[n] = AllocatedObservation(ExpandedObservations[n])
  BY <1>1 DEF ReadoutNow
<1>3. Lists(ExpandedObservations, instrs, Len(instrs))
  BY ObservationsListed DEF CompilerIInv
<1>4. PICK i \in 1 .. Len(instrs) : instrs[i].kind = "observe" /\ ExpandedObservations[n] = instrs[i]
  BY <1>2, <1>3 DEF Lists
<1>5. i \in DOMAIN instrs
  BY DEF CompilerIInv, ExpansionIInv, ExpansionNow, Typed
<1>6. QED BY <1>2, <1>4, <1>5 DEF AllocatedObservation

\* An operation is an instruction's.
LEMMA OperationFacts ==
    ASSUME CompilerIInv, stage \in AfterLowering
    PROVE  /\ DOMAIN operations = DOMAIN instrs
           /\ \A i \in DOMAIN instrs :
                 /\ operations[i] = LowerInstruction(instrs[i])
                 /\ operations[i].id = <<instrs[i].path, instrs[i].op>>
                 /\ operations[i].kind = instrs[i].kind /\ operations[i].key = instrs[i].result
                 /\ operations[i].parent = instrs[i].op
                 /\ operations[i].slots = [r \in DOMAIN instrs[i].refs |-> Slot(instrs[i].refs[r])]
                 /\ instrs[i].kind = "observe" =>
                       operations[i].observed = instrs[i].refs[1]
                       /\ operations[i].slots = <<Slot(instrs[i].refs[1])>>
                 /\ instrs[i].kind # "observe" => operations[i].observed = NoValue
<1>1. operations = OperationsNow
  BY DEF CompilerIInv, ArtifactsIInv
<1>2. DOMAIN operations = DOMAIN instrs
  BY <1>1 DEF OperationsNow
<1>3. ASSUME NEW i \in DOMAIN instrs
      PROVE  /\ operations[i] = LowerInstruction(instrs[i])
             /\ operations[i].id = <<instrs[i].path, instrs[i].op>>
             /\ operations[i].kind = instrs[i].kind /\ operations[i].key = instrs[i].result
             /\ operations[i].parent = instrs[i].op
             /\ operations[i].slots = [r \in DOMAIN instrs[i].refs |-> Slot(instrs[i].refs[r])]
             /\ instrs[i].kind = "observe" => operations[i].observed = instrs[i].refs[1]
             /\ instrs[i].kind # "observe" => operations[i].observed = NoValue
  <2>1. operations[i] = LowerInstruction(instrs[i])
    BY <1>1 DEF OperationsNow
  <2>2. IrId(instrs[i]) = <<instrs[i].path, instrs[i].op>>
    BY InstrFacts DEF IrId, CompilerIInv
  <2>3. /\ LowerInstruction(instrs[i]).id = IrId(instrs[i])
        /\ LowerInstruction(instrs[i]).kind = instrs[i].kind
        /\ LowerInstruction(instrs[i]).key = instrs[i].result
        /\ LowerInstruction(instrs[i]).parent = instrs[i].op
        /\ LowerInstruction(instrs[i]).slots
             = [r \in DOMAIN instrs[i].refs |-> Slot(instrs[i].refs[r])]
        /\ LowerInstruction(instrs[i]).observed
             = IF instrs[i].kind = "observe" THEN instrs[i].refs[1] ELSE NoValue
    BY DEF LowerInstruction
  <2>4. QED BY <2>1, <2>2, <2>3
<1>4. ASSUME NEW i \in DOMAIN instrs, instrs[i].kind = "observe"
      PROVE  operations[i].slots = <<Slot(instrs[i].refs[1])>>
  <2>1. DOMAIN instrs[i].refs = 1 .. Len(instrs[i].refs) /\ Len(instrs[i].refs) = 1
    BY <1>4, InstrFacts DEF CompilerIInv
  <2>2. operations[i].slots = [r \in 1 .. 1 |-> Slot(instrs[i].refs[r])]
    BY <1>3, <2>1
  <2>3. \A f : [r \in 1 .. 1 |-> f[r]] = <<f[1]>>
    OBVIOUS
  <2> DEFINE f == [r \in 1 .. 1 |-> Slot(instrs[i].refs[r])]
  <2>4. f[1] = Slot(instrs[i].refs[1]) /\ f = [r \in 1 .. 1 |-> f[r]]
    OBVIOUS
  <2> HIDE DEF f
  <2>5. f = <<Slot(instrs[i].refs[1])>>
    BY <2>3, <2>4
  <2>6. QED BY <2>2, <2>5 DEF f
<1>5. QED BY <1>2, <1>3, <1>4

\* The readout plan and the cross-checks of the result accept every compilation
\* that comes so far.
LEMMA PublishSucceeds ==
    ASSUME CompilerIInv, stage = "publishing"
    PROVE  ReadoutPlanValid /\ ResultConsistent
<1>1. stage \in AfterReading /\ stage \in AfterLowering /\ stage \in AfterAllocation
      /\ stage \in AfterReleases /\ stage \in AfterLifetimes /\ stage \in AfterChecks
      /\ stage \notin {"checking", "rejected"}
  BY DEF AfterReading, AfterLowering, AfterAllocation, AfterReleases, AfterLifetimes, AfterChecks
<1>2. ExpansionIInv /\ phase = "expanded" /\ ~ ObserverCalled(module)
  BY <1>1 DEF CompilerIInv, ChecksIInv
<1>3. /\ lifetimes = LifetimesNow /\ releases = ReleasesNow /\ allocation = Allocated
      /\ readout = ReadoutNow
  BY <1>1 DEF CompilerIInv, ArtifactsIInv
<1>4. /\ ExpandedProgramValid(returned)
      /\ \A leaf \in DOMAIN returned :
            returned[leaf].quantum => returned[leaf].id \in QubitsOf(qubits)
  BY <1>2, EndFacts
<1>5. \A i, k \in DOMAIN instrs :
         /\ instrs[i].kind = "observe" /\ instrs[k].kind = "observe"
         /\ instrs[i].op = instrs[k].op \/ instrs[i].result = instrs[k].result
         => i = k
  BY <1>2, ObservationFacts
<1>6. Lists(ExpandedObservations, instrs, Len(instrs))
  BY <1>2, ObservationsListed
<1>7. ReadoutPlanValid
  <2>1. ASSUME NEW n \in DOMAIN readout, NEW m \in DOMAIN readout,
               readout[n].result = readout[m].result \/ readout[n].operation = readout[m].operation
        PROVE  n = m
    <3>1. PICK i \in DOMAIN instrs :
            /\ instrs[i].kind = "observe" /\ ExpandedObservations[n] = instrs[i]
            /\ n \in DOMAIN ExpandedObservations
            /\ readout[n].result = instrs[i].result /\ readout[n].operation = instrs[i].op
      BY <1>1, ReadoutFacts
    <3>2. PICK k \in DOMAIN instrs :
            /\ instrs[k].kind = "observe" /\ ExpandedObservations[m] = instrs[k]
            /\ m \in DOMAIN ExpandedObservations
            /\ readout[m].result = instrs[k].result /\ readout[m].operation = instrs[k].op
      BY <1>1, ReadoutFacts
    <3>3. i = k
      BY <1>5, <2>1, <3>1, <3>2
    <3>4. QED BY <1>6, <3>1, <3>2, <3>3 DEF Lists
  <2>2. ASSUME NEW leaf \in DOMAIN returned, ~ returned[leaf].quantum
        PROVE  \E n \in DOMAIN readout : readout[n].result = returned[leaf].id
    <3>1. returned[leaf].id \in ProducedBits
      BY <1>4, <2>2 DEF ExpandedProgramValid
    <3>2. PICK i \in DOMAIN instrs : instrs[i].kind = "observe" /\ returned[leaf].id = instrs[i].result
      BY <3>1 DEF ProducedBits
    <3>3. i \in 1 .. Len(instrs)
      BY <1>2 DEF ExpansionIInv, ExpansionNow, Typed
    <3>4. PICK n \in DOMAIN ExpandedObservations : ExpandedObservations[n] = instrs[i]
      BY <1>6, <3>2, <3>3 DEF Lists
    <3>5. n \in DOMAIN readout /\ readout[n] = AllocatedObservation(instrs[i])
      BY <1>3, <3>4 DEF ReadoutNow
    <3>6. QED BY <3>2, <3>5 DEF AllocatedObservation
  <2>3. QED BY <2>1, <2>2 DEF ReadoutPlanValid, Injective
<1>8. ASSUME NEW n \in DOMAIN readout
      PROVE  Slot(readout[n].id) = readout[n].slot /\ ObservationMatches(readout[n])
  <2>1. PICK i \in DOMAIN instrs :
          /\ instrs[i].kind = "observe"
          /\ readout[n].result = instrs[i].result /\ readout[n].operation = instrs[i].op
          /\ readout[n].id = instrs[i].refs[1] /\ readout[n].slot = Slot(instrs[i].refs[1])
    BY <1>1, ReadoutFacts
  <2>2. /\ DOMAIN operations = DOMAIN instrs
        /\ operations[i].kind = "observe" /\ operations[i].key = readout[n].result
        /\ operations[i].parent = readout[n].operation
        /\ operations[i].observed = readout[n].id
        /\ operations[i].slots = <<readout[n].slot>>
    BY <1>1, <2>1, OperationFacts
  <2>3. ASSUME NEW other \in DOMAIN operations, operations[other].kind = "observe",
               operations[other].key = readout[n].result
        PROVE  other = i
    <3>1. other \in DOMAIN instrs /\ instrs[other].kind = "observe"
          /\ instrs[other].result = instrs[i].result
      BY <1>1, <2>1, <2>2, <2>3, OperationFacts
    <3>2. QED BY <1>5, <2>1, <3>1
  <2>4. QED BY <2>1, <2>2, <2>3 DEF ObservationMatches
<1>9. ASSUME NEW id \in ReturnedIds
      PROVE  \E q \in DOMAIN allocation.entries : allocation.entries[q].id = id
  <2>1. id \in QubitsOf(qubits)
    BY <1>4 DEF ReturnedIds
  <2>2. PICK q \in DOMAIN qubits : qubits[q].id = id
    BY <2>1 DEF QubitsOf
  <2>3. QED BY <1>3, <2>2 DEF Allocated
<1>10. /\ [q \in DOMAIN allocation.entries |-> allocation.entries[q].id]
            = [q \in DOMAIN qubits |-> qubits[q].id]
       /\ [q \in DOMAIN lifetimes |-> lifetimes[q].id] = [q \in DOMAIN qubits |-> qubits[q].id]
       /\ [q \in DOMAIN releases |-> releases[q].id] = [q \in DOMAIN qubits |-> qubits[q].id]
  <2>1. DOMAIN allocation.entries = DOMAIN qubits
        /\ \A q \in DOMAIN qubits : allocation.entries[q].id = qubits[q].id
    BY <1>3 DEF Allocated
  <2>2. DOMAIN lifetimes = DOMAIN qubits /\ \A q \in DOMAIN qubits : lifetimes[q].id = qubits[q].id
    BY <1>2, <1>3, LifetimeFacts DEF LifetimesNow
  <2>3. DOMAIN releases = DOMAIN qubits /\ \A q \in DOMAIN qubits : releases[q].id = qubits[q].id
    BY <1>3 DEF ReleasesNow
  <2>4. [q \in DOMAIN allocation.entries |-> allocation.entries[q].id]
            = [q \in DOMAIN qubits |-> qubits[q].id]
    BY <2>1
  <2>5. [q \in DOMAIN lifetimes |-> lifetimes[q].id] = [q \in DOMAIN qubits |-> qubits[q].id]
    BY <2>2
  <2>6. [q \in DOMAIN releases |-> releases[q].id] = [q \in DOMAIN qubits |-> qubits[q].id]
    BY <2>3
  <2>7. QED BY <2>4, <2>5, <2>6
<1>11. \A q \in DOMAIN releases :
          /\ releases[q].after = lifetimes[q].last
          /\ releases[q].reason = lifetimes[q].reason
          /\ releases[q].kind = ReleaseKind(qubits[q])
  BY <1>3 DEF ReleasesNow
<1>12. ResultConsistent
  BY <1>8, <1>9, <1>10, <1>11 DEF ResultConsistent
<1>13. QED BY <1>7, <1>12

LEMMA PublishKeeps == ASSUME CompilerIInv, Publish PROVE CompilerIInv'
<1>1. /\ UNCHANGED expansionVars /\ UNCHANGED artifactVars /\ stage = "publishing"
      /\ diagnostics' = diagnostics /\ stage' = "compiled"
  BY PublishSucceeds DEF Publish
<1>2. ArtifactsIInv'
  BY <1>1, SameAnalyses, SameCode
     DEF CompilerIInv, ArtifactsIInv, artifactVars, AfterLifetimes, AfterReleases,
         AfterAllocation, AfterLowering, AfterReading, NotAllocated
<1>3. ChecksIInv'
  BY <1>1, SameAnalyses
     DEF CompilerIInv, ChecksIInv, Stages, AfterChecks, AfterLifetimes, AfterReleases,
         AfterAllocation, AfterLowering, AfterReading
<1>4. QED BY <1>1, <1>2, <1>3, AnalysisKeeps DEF CompilerIInv

LEMMA CompilationStutters == ASSUME CompilerIInv, UNCHANGED compilerVars PROVE CompilerIInv'
<1>1. /\ UNCHANGED expansionVars /\ UNCHANGED artifactVars /\ stage' = stage
      /\ diagnostics' = diagnostics
  BY DEF compilerVars
<1>2. ArtifactsIInv'
  BY <1>1, SameAnalyses, SameCode DEF CompilerIInv, ArtifactsIInv, artifactVars, NotAllocated
<1>3. ChecksIInv'
  BY <1>1, SameAnalyses DEF CompilerIInv, ChecksIInv
<1>4. QED BY <1>1, <1>2, <1>3, AnalysisKeeps DEF CompilerIInv

LEMMA CompilationStarts == CompilerInit => CompilerIInv
<1> SUFFICES ASSUME CompilerInit PROVE CompilerIInv
  OBVIOUS
<1>1. ExpansionIInv
  BY ExpansionStarts DEF CompilerInit
<1>2. qubits = <<>>
  BY DEF CompilerInit, ExpansionInit
<1>3. LoneValues(module, qubits)
  <2>1. DOMAIN qubits = {}
    BY <1>2
  <2>2. QED BY <2>1 DEF LoneValues
<1>4. ArtifactsIInv
  BY DEF CompilerInit, ArtifactsIInv, AfterLifetimes, AfterReleases,
         AfterAllocation, AfterLowering, AfterReading
<1>5. ChecksIInv
  BY DEF CompilerInit, ChecksIInv, Stages, AfterChecks, AfterLifetimes, AfterReleases,
         AfterAllocation, AfterLowering, AfterReading
<1>6. QED BY <1>1, <1>3, <1>4, <1>5 DEF CompilerIInv

LEMMA CompilationKeeps == CompilerIInv /\ [CompilerNext]_compilerVars => CompilerIInv'
<1> SUFFICES ASSUME CompilerIInv, [CompilerNext]_compilerVars PROVE CompilerIInv'
  OBVIOUS
<1>1. CASE Compile
  BY <1>1, CheckCalleesKeeps, ExpandStepKeeps, ExpansionRaisesKeeps, CheckExpandedKeeps,
     AnalyzeLifetimesKeeps, AnalyzeReleasesKeeps, AllocateKeeps, LowerKeeps, BuildReadoutKeeps,
     PublishKeeps DEF Compile
<1>2. CASE UNCHANGED compilerVars
  BY <1>2, CompilationStutters
<1>3. QED BY <1>1, <1>2 DEF CompilerNext, CompilationDone

\* The invariant of the compilation: the stack of the expander is a chain of calls,
\* everything instantiated, copied and recorded belongs to one of its activations
\* or to a call that has returned, and every artifact is what its stage makes of
\* the finished expansion.
THEOREM CompilationInvariant == CompilerSpec => []CompilerIInv
<1>1. QED BY CompilationStarts, CompilationKeeps, PTL DEF CompilerSpec

-----------------------------------------------------------------------------
(* What the invariant says of the compilation.                             *)

\* The compiler's state has its shape.
LEMMA CompilationTyped == ASSUME CompilerIInv PROVE CompilerTypeOK
<1>1. TypeOK
  BY ExpansionTyped DEF CompilerIInv
<1>2. stage \in Stages /\ diagnostics \subseteq {"A201", "A204", "A205"}
  <2>1. Found \subseteq {"A201", "A205"}
    BY DEF Found
  <2>2. stage # "rejected" => diagnostics = {}
    BY DEF CompilerIInv, ChecksIInv
  <2>3. stage = "rejected" => diagnostics = {"A204"} \/ diagnostics = Found
    BY DEF CompilerIInv, ChecksIInv
  <2>4. QED BY <2>1, <2>2, <2>3 DEF CompilerIInv, ChecksIInv
<1>3. ASSUME NEW q \in DOMAIN lifetimes
      PROVE  lifetimes[q].reason \in {"returned", "call_escape", "program_end", "last_use"}
  <2>1. lifetimes = LifetimesNow \/ lifetimes = <<>>
    BY DEF CompilerIInv, ArtifactsIInv
  <2>2. lifetimes = LifetimesNow
    BY <1>3, <2>1
  <2>3. q \in DOMAIN qubits /\ lifetimes[q] = Lifetime(qubits[q])
    BY <1>3, <2>2 DEF LifetimesNow
  <2>4. QED BY <2>3, LifetimeFacts DEF CompilerIInv
<1>4. ASSUME NEW q \in DOMAIN releases
      PROVE  releases[q].kind \in {"retained", "discard_required"}
  <2>1. releases = ReleasesNow \/ releases = <<>>
    BY DEF CompilerIInv, ArtifactsIInv
  <2>2. releases = ReleasesNow
    BY <1>4, <2>1
  <2>3. releases[q].kind = ReleaseKind(qubits[q])
    BY <1>4, <2>2 DEF ReleasesNow
  <2>4. QED BY <2>3 DEF ReleaseKind
<1>5. allocation.peak <= allocation.width
  <2>1. allocation = Allocated \/ allocation = NotAllocated
    BY DEF CompilerIInv, ArtifactsIInv
  <2>2. Len(qubits) \in Nat
    BY DEF CompilerIInv, ExpansionIInv, ExpansionNow, Typed
  <2>3. CASE allocation = Allocated
    BY <2>2, <2>3 DEF Allocated
  <2>4. CASE allocation = NotAllocated
    BY <2>4 DEF NotAllocated
  <2>5. QED BY <2>1, <2>3, <2>4
<1>6. ASSUME NEW o \in DOMAIN operations, NEW r \in DOMAIN operations[o].slots
      PROVE  operations[o].slots[r] \in 0 .. allocation.width - 1
  <2>1. stage \in AfterLowering
    BY <1>6 DEF CompilerIInv, ArtifactsIInv
  <2>2. allocation = Allocated
    BY <2>1 DEF CompilerIInv, ArtifactsIInv, AfterAllocation
  <2>3. /\ o \in DOMAIN instrs
        /\ operations[o].slots = [s \in DOMAIN instrs[o].refs |-> Slot(instrs[o].refs[s])]
    BY <2>1, OperationFacts
  <2>4. r \in DOMAIN instrs[o].refs /\ operations[o].slots[r] = Slot(instrs[o].refs[r])
    BY <1>6, <2>3
  <2>5. Slot(instrs[o].refs[r]) \in 0 .. Len(qubits) - 1
    BY <2>2, <2>3, <2>4, RefSlots DEF CompilerIInv
  <2>6. allocation.width = Len(qubits)
    BY <2>2 DEF Allocated
  <2>7. QED BY <2>4, <2>5, <2>6
<1>7. QED
  BY <1>1, <1>2, <1>3, <1>4, <1>5, <1>6
     DEF CompilerTypeOK, Stages, AfterChecks, AfterLifetimes, AfterReleases, AfterAllocation,
         AfterLowering, AfterReading

\* What fails without a diagnostic is an observation under another name.
LEMMA FailureIsAliased == ASSUME CompilerIInv PROVE OnlyAliasedObservationFails
<1>1. SUFFICES ASSUME stage = "failed" PROVE phase = "invalid" /\ ObservedUnderAlias
  BY DEF OnlyAliasedObservationFails
<1>2. ExpansionIInv /\ phase = "invalid" /\ ~ ObserverCalled(module)
  BY <1>1 DEF CompilerIInv, ChecksIInv
<1>3. ~ ExpandedProgramValid(returned)
  <2>1. (phase = "expanded") <=> ExpandedProgramValid(returned)
    BY <1>2, EndFacts
  <2>2. QED BY <1>2, <2>1
<1>4. QED BY <1>2, <1>3, ValidUnlessAliased

\* What a compiled result is made of.
LEMMA CompiledFacts ==
    ASSUME CompilerIInv, stage = "compiled"
    PROVE  /\ ExpansionIInv /\ phase = "expanded" /\ ~ ObserverCalled(module)
           /\ stage \in AfterReading /\ stage \in AfterLowering
           /\ Found = {} /\ lifetimes = LifetimesNow /\ releases = ReleasesNow
           /\ allocation = Allocated /\ operations = OperationsNow /\ readout = ReadoutNow
           /\ DOMAIN operations = DOMAIN instrs
           /\ \A i \in DOMAIN instrs :
                 operations[i].slots = [r \in DOMAIN instrs[i].refs |-> Slot(instrs[i].refs[r])]
<1>1. /\ stage \in AfterReading /\ stage \in AfterLowering /\ stage \in AfterAllocation
      /\ stage \in AfterReleases /\ stage \in AfterLifetimes /\ stage \in AfterChecks
      /\ stage \notin {"checking", "rejected"}
  BY DEF AfterReading, AfterLowering, AfterAllocation, AfterReleases, AfterLifetimes, AfterChecks
<1>2. ExpansionIInv /\ phase = "expanded" /\ ~ ObserverCalled(module) /\ Found = {}
  BY <1>1 DEF CompilerIInv, ChecksIInv
<1>3. /\ lifetimes = LifetimesNow /\ releases = ReleasesNow /\ allocation = Allocated
      /\ operations = OperationsNow /\ readout = ReadoutNow
  BY <1>1 DEF CompilerIInv, ArtifactsIInv
<1>4. QED BY <1>1, <1>2, <1>3, OperationFacts

\* No value is released too early or too late.
LEMMA ReleasesAreSound == ASSUME CompilerIInv PROVE ReleasesSound
<1>1. SUFFICES ASSUME stage = "compiled", NEW q \in DOMAIN releases
      PROVE  LET id == releases[q].id IN
            /\ \A o \in DOMAIN operations :
                  (\E r \in DOMAIN operations[o].slots :
                      operations[o].slots[r] = allocation.entries[q].slot)
                  => lifetimes[q].first < o /\ o <= releases[q].after + 1
            /\ releases[q].kind = "discard_required" =>
                  id \notin ReturnedIds /\ qubits[q].ownership = "local"
            /\ id \in ReturnedIds => releases[q].after = ProgramEnd
            /\ releases[q].reason = "last_use" =>
                  \A c \in DOMAIN records :
                      records[c].returned = id => ~InstantiatedBy(id, records[c].path)
  BY DEF ReleasesSound
<1>2. /\ ExpansionIInv /\ phase = "expanded" /\ lifetimes = LifetimesNow /\ releases = ReleasesNow
      /\ allocation = Allocated /\ DOMAIN operations = DOMAIN instrs
      /\ \A i \in DOMAIN instrs :
            operations[i].slots = [r \in DOMAIN instrs[i].refs |-> Slot(instrs[i].refs[r])]
  BY <1>1, CompiledFacts
<1>3. /\ q \in DOMAIN qubits /\ releases[q].id = qubits[q].id
      /\ releases[q].kind = ReleaseKind(qubits[q])
      /\ releases[q].after = Lifetime(qubits[q]).last
      /\ releases[q].reason = Lifetime(qubits[q]).reason
      /\ lifetimes[q] = Lifetime(qubits[q]) /\ allocation.entries[q].slot = q - 1
  BY <1>1, <1>2 DEF ReleasesNow, LifetimesNow, Allocated
<1>4. qubits \in Seq(Instances) /\ QubitsDistinct(qubits)
  BY <1>2 DEF ExpansionIInv, ExpansionNow, ValuesIInv, Typed
<1>5. qubits[q] \in Instances
  BY <1>3, <1>4
<1>6. ASSUME NEW o \in DOMAIN operations, NEW r \in DOMAIN operations[o].slots,
             operations[o].slots[r] = allocation.entries[q].slot
      PROVE  lifetimes[q].first < o /\ o <= releases[q].after + 1
  <2>1. o \in DOMAIN instrs /\ r \in DOMAIN instrs[o].refs
        /\ operations[o].slots[r] = Slot(instrs[o].refs[r])
    BY <1>2, <1>6
  <2>2. PICK p \in DOMAIN qubits : instrs[o].refs[r] = qubits[p].id /\ Slot(instrs[o].refs[r]) = p - 1
    BY <1>2, <2>1, RefSlots
  <2>3. p = q
    <3>1. p \in Nat /\ q \in Nat
      BY <1>3, <1>4
    <3>2. p - 1 = q - 1
      BY <1>3, <1>6, <2>1, <2>2
    <3>3. QED BY <3>1, <3>2
  <2>4. qubits[q].created < o /\ o <= Lifetime(qubits[q]).last + 1
    BY <1>2, <1>3, <2>1, <2>2, <2>3, LifetimeFacts
  <2>5. lifetimes[q].first = qubits[q].created
    BY <1>2, <1>3, LifetimeFacts
  <2>6. QED BY <1>3, <2>4, <2>5
<1>7. ASSUME releases[q].kind = "discard_required"
      PROVE  releases[q].id \notin ReturnedIds /\ qubits[q].ownership = "local"
  <2>1. qubits[q].id \notin ReturnedIds /\ qubits[q].ownership # "entry_parameter"
    BY <1>3, <1>7 DEF ReleaseKind
  <2>2. qubits[q].ownership \in {"local", "entry_parameter"}
    BY <1>5 DEF Instances
  <2>3. QED BY <1>3, <2>1, <2>2
<1>8. ASSUME releases[q].id \in ReturnedIds PROVE releases[q].after = ProgramEnd
  BY <1>2, <1>3, <1>8, LifetimeFacts
<1>9. ASSUME releases[q].reason = "last_use", NEW c \in DOMAIN records,
             records[c].returned = releases[q].id
      PROVE  ~ InstantiatedBy(releases[q].id, records[c].path)
  <2>1. qubits[q].id \notin ToSet(escapes)
    BY <1>2, <1>3, <1>9, LifetimeFacts
  <2>2. Open(stack) = {}
    BY <1>2, EndFacts
  <2>3. records[c] \in Filled /\ Noted(records[c], qubits, escapes)
    BY <1>2, <2>2 DEF ExpansionIInv, ExpansionNow, RecordsIInv, RecordsFilled, RecordsNoted
  <2>4. qubits[q].id \in Ids /\ records[c].path \in Seq(OpIds)
    BY <1>5, <2>3 DEF Instances, Filled
  <2>5. qubits[q].id # NoValue
    BY <2>4, NoValueIsNoId DEF Ids
  <2>6. ~ Begins(records[c].path, qubits[q].id[1])
    BY <1>3, <1>9, <2>1, <2>3, <2>5 DEF Noted
  <2>7. qubits[q].id[1] \in Seq(OpIds)
    BY <2>4 DEF Ids
  <2>8. ~ IsPrefix(records[c].path, qubits[q].id[1])
    BY <2>4, <2>6, <2>7, PrefixBegins
  <2>9. QED BY <1>3, <2>8 DEF InstantiatedBy
<1>10. QED BY <1>6, <1>7, <1>8, <1>9

\* Slots are values.
LEMMA SlotsHoldValues == ASSUME CompilerIInv PROVE SlotsAreValues
<1>1. SUFFICES ASSUME stage = "compiled"
      PROVE  /\ \A i, j \in DOMAIN operations :
                  \A r \in DOMAIN operations[i].slots, s \in DOMAIN operations[j].slots :
                      (operations[i].slots[r] = operations[j].slots[s])
                         <=> (instrs[i].refs[r] = instrs[j].refs[s])
             /\ \A i \in DOMAIN operations : operations[i].kind = "cx" =>
                  operations[i].slots[1] # operations[i].slots[2]
             /\ Injective([i \in DOMAIN operations |-> operations[i].id])
  BY DEF SlotsAreValues
<1>2. /\ ExpansionIInv /\ Found = {} /\ stage \in AfterLowering
      /\ allocation = Allocated /\ DOMAIN operations = DOMAIN instrs
      /\ \A i \in DOMAIN instrs :
            operations[i].slots = [r \in DOMAIN instrs[i].refs |-> Slot(instrs[i].refs[r])]
  BY <1>1, CompiledFacts
<1>3. ASSUME NEW i \in DOMAIN operations, NEW j \in DOMAIN operations,
             NEW r \in DOMAIN operations[i].slots, NEW s \in DOMAIN operations[j].slots
      PROVE  (operations[i].slots[r] = operations[j].slots[s])
                <=> (instrs[i].refs[r] = instrs[j].refs[s])
  <2>1. /\ i \in DOMAIN instrs /\ j \in DOMAIN instrs
        /\ r \in DOMAIN instrs[i].refs /\ s \in DOMAIN instrs[j].refs
        /\ operations[i].slots[r] = Slot(instrs[i].refs[r])
        /\ operations[j].slots[s] = Slot(instrs[j].refs[s])
    BY <1>2, <1>3
  <2>2. (Slot(instrs[i].refs[r]) = Slot(instrs[j].refs[s])) <=> (instrs[i].refs[r] = instrs[j].refs[s])
    BY <1>2, <2>1, SlotsTellValues
  <2>3. QED BY <2>1, <2>2
<1>4. ASSUME NEW i \in DOMAIN operations, operations[i].kind = "cx"
      PROVE  operations[i].slots[1] # operations[i].slots[2]
  <2>1. i \in DOMAIN instrs /\ instrs[i].kind = "cx"
    BY <1>2, <1>4, OperationFacts
  <2>2. DOMAIN instrs[i].refs = 1 .. Len(instrs[i].refs) /\ Len(instrs[i].refs) = 2
    BY <1>2, <2>1, InstrFacts
  <2>3. 1 \in 1 .. 2 /\ 2 \in 1 .. 2
    OBVIOUS
  <2>4. 1 \in DOMAIN instrs[i].refs /\ 2 \in DOMAIN instrs[i].refs
    BY <2>2, <2>3
  <2>5. instrs[i].refs[1] # instrs[i].refs[2]
    <3>1. "A205" \notin Found
      BY <1>2
    <3>2. ~ AliasedCx(instrs[i])
      BY <2>1, <3>1 DEF Found
    <3>3. QED BY <2>1, <3>2 DEF AliasedCx
  <2>6. DOMAIN operations[i].slots = DOMAIN instrs[i].refs
    BY <1>2, <2>1
  <2>7. QED BY <1>3, <2>4, <2>5, <2>6
<1>5. Injective([i \in DOMAIN operations |-> operations[i].id])
  <2>1. InstrsDistinct(instrs)
    BY <1>2 DEF ExpansionIInv, ExpansionNow, CodeIInv
  <2>2. ASSUME NEW i \in DOMAIN operations, NEW j \in DOMAIN operations,
               operations[i].id = operations[j].id
        PROVE  i = j
    <3>1. i \in DOMAIN instrs /\ operations[i].id = <<instrs[i].path, instrs[i].op>>
      BY <1>2, OperationFacts
    <3>2. j \in DOMAIN instrs /\ operations[j].id = <<instrs[j].path, instrs[j].op>>
      BY <1>2, OperationFacts
    <3>3. <<instrs[i].path, instrs[i].op>> = <<instrs[j].path, instrs[j].op>>
      BY <2>2, <3>1, <3>2
    <3>4. instrs[i].path = instrs[j].path /\ instrs[i].op = instrs[j].op
      BY <3>3
    <3>5. QED BY <2>1, <3>1, <3>2, <3>4 DEF InstrsDistinct
  <2>3. QED BY <2>2 DEF Injective
<1>6. QED BY <1>3, <1>4, <1>5

-----------------------------------------------------------------------------
(* A program without calls.                                                *)

\* Without calls the expansion is the entry program, in place.
LEMMA LoneFacts ==
    ASSUME ExpansionIInv, LoneValues(module, qubits), phase # "expanding",
           CallInstrs(module.programs[module.entry]) = {}
    PROVE  /\ Program = module.programs[module.entry]
           /\ DOMAIN instrs = DOMAIN Program.code
           /\ \A i \in DOMAIN instrs :
                 /\ CopiedInPlace(instrs[i], Program.code[i])
                 /\ DOMAIN instrs[i].refs = DOMAIN Program.code[i].refs
                 /\ GateArity(Program.code[i])
                 /\ \A r \in DOMAIN instrs[i].refs :
                       /\ Program.code[i].refs[r] \in DefinedIds(Program)
                       /\ instrs[i].refs[r] = <<<<>>, Program.code[i].refs[r]>>
           /\ \A v \in DefinedIds(Program) : \E q \in DOMAIN qubits : qubits[q].id = <<<<>>, v>>
           /\ \A q \in DOMAIN qubits : \E v \in DefinedIds(Program) : qubits[q].id = <<<<>>, v>>
           /\ \A v \in DOMAIN Top.bound : Top.bound[v] = <<<<>>, v>>
<1>1. /\ Len(stack) = 1 /\ Top = stack[1] /\ 1 \in DOMAIN stack /\ Top.prog = module.entry
      /\ module \in Modules /\ module.entry \in DOMAIN module.programs
      /\ Program = module.programs[module.entry] /\ Program.code = Code(module, module.entry)
      /\ Top.path = <<>> /\ Top.pc = Len(Code(module, module.entry)) + 1
      /\ Len(Code(module, module.entry)) \in Nat
      /\ DOMAIN Code(module, module.entry) = 1 .. Len(Code(module, module.entry))
      /\ DOMAIN Top.bound \subseteq KnownBefore(Program, Len(Code(module, module.entry)) + 1)
  BY EndFacts
<1>2. /\ OwnNames(stack[1]) /\ Len(instrs) = stack[1].pc - 1
      /\ \A i \in DOMAIN instrs : CopiedInPlace(instrs[i], Code(module, module.entry)[i])
  BY DEF ExpansionIInv, Lone
<1>3. \A j : KnownBefore(Program, j) = DefinedIds(Program)
  BY <1>1 DEF KnownBefore
<1>4. DOMAIN instrs = DOMAIN Program.code
  <2>1. instrs \in Seq(Expanded)
    BY DEF ExpansionIInv, ExpansionNow, Typed
  <2>2. DOMAIN instrs = 1 .. Len(instrs)
    BY <2>1
  <2>3. Len(instrs) = Len(Code(module, module.entry))
    BY <1>1, <1>2
  <2>4. QED BY <1>1, <2>2, <2>3
<1>5. ASSUME NEW i \in DOMAIN instrs
      PROVE  /\ CopiedInPlace(instrs[i], Program.code[i])
             /\ DOMAIN instrs[i].refs = DOMAIN Program.code[i].refs
             /\ GateArity(Program.code[i])
             /\ \A r \in DOMAIN instrs[i].refs :
                   /\ Program.code[i].refs[r] \in DefinedIds(Program)
                   /\ instrs[i].refs[r] = <<<<>>, Program.code[i].refs[r]>>
  <2>1. CopiedInPlace(instrs[i], Program.code[i])
    BY <1>1, <1>2
  <2>2. i \in DOMAIN Code(module, module.entry)
    BY <1>1, <1>4
  <2>3. DOMAIN Program.code[i].refs = 1 .. Len(Program.code[i].refs)
    BY <1>1, <2>2, ProgramFacts
  <2>4. DOMAIN instrs[i].refs = 1 .. Len(instrs[i].refs)
    BY InstrFacts
  <2>5. Len(instrs[i].refs) = Len(Program.code[i].refs)
    BY <2>1 DEF CopiedInPlace, CopyOf
  <2>6. /\ GateArity(Program.code[i])
        /\ \A r \in DOMAIN Program.code[i].refs : Program.code[i].refs[r] \in KnownBefore(Program, i)
    BY <1>1, <2>2, UseFacts
  <2>7. DOMAIN instrs[i].refs = DOMAIN Program.code[i].refs
    BY <2>3, <2>4, <2>5
  <2>8. \A r \in DOMAIN instrs[i].refs : instrs[i].refs[r] = <<<<>>, Program.code[i].refs[r]>>
    BY <2>1 DEF CopiedInPlace
  <2>9. QED BY <1>3, <2>1, <2>6, <2>7, <2>8
<1>6. \A v \in DOMAIN Top.bound : Top.bound[v] = <<<<>>, v>>
  BY <1>1, <1>2 DEF OwnNames
<1>7. FrameBound(module, stack[1], 1, qubits, escapes) /\ QubitsPlaced(module, stack, qubits)
      /\ qubits \in Seq(Instances)
  BY <1>1 DEF ExpansionIInv, ExpansionNow, ValuesIInv, FramesBound, Typed
<1>8. ASSUME NEW v \in DefinedIds(Program)
      PROVE  \E q \in DOMAIN qubits : qubits[q].id = <<<<>>, v>>
  <2>1. PICK d \in DOMAIN Program.defs : v = Program.defs[d].id
    BY DEF DefinedIds
  <2>2. v \in DOMAIN Top.bound
    <3>1. Top.pending = {} /\ ParametersBound
      BY DEF ExpansionIInv, ExpansionDone
    <3>2. CASE v \in ParamIds(Program)
      BY <3>1, <3>2 DEF ParamIds, ParametersBound, IsBound
    <3>3. CASE v \notin ParamIds(Program)
      <4>1. d \in LocalDefs(Program) \ Top.pending
        BY <2>1, <3>1, <3>3 DEF LocalDefs
      <4>2. QED BY <1>1, <1>7, <2>1, <4>1 DEF FrameBound, NamesPassed
    <3>4. QED BY <3>2, <3>3
  <2>3. Top.bound[v] \in QubitsOf(qubits)
    BY <1>1, <1>7, <2>2 DEF FrameBound, NamesValues
  <2>4. QED BY <1>6, <2>2, <2>3 DEF QubitsOf
<1>9. ASSUME NEW q \in DOMAIN qubits
      PROVE  \E v \in DefinedIds(Program) : qubits[q].id = <<<<>>, v>>
  <2>1. qubits[q] \in Instances
    BY <1>7
  <2>2. qubits[q].id \in Ids
    BY <2>1 DEF Instances
  <2>3. qubits[q].id = <<qubits[q].id[1], qubits[q].id[2]>>
    BY <2>2 DEF Ids
  <2>4. qubits[q].id[1] = <<>>
    BY DEF LoneValues
  <2>5. qubits[q].id[2] \in DOMAIN Top.bound
    BY <1>1, <1>7, <2>4 DEF QubitsPlaced
  <2>6. qubits[q].id[2] \in DefinedIds(Program)
    BY <1>1, <1>3, <2>5
  <2>7. QED BY <2>3, <2>4, <2>6
<1>10. QED BY <1>1, <1>4, <1>5, <1>6, <1>8, <1>9

\* Nothing is observed under another name.
LEMMA LoneIsNotAliased ==
    ASSUME ExpansionIInv, LoneValues(module, qubits), phase # "expanding",
           CallInstrs(module.programs[module.entry]) = {}
    PROVE  ~ ObservedUnderAlias
<1>1. SUFFICES ASSUME NEW leaf \in DOMAIN returned, returned[leaf].quantum,
                      returned[leaf].id \in ObservedIds
               PROVE  FALSE
  BY DEF ObservedUnderAlias
<1>2. /\ leaf \in DOMAIN Program.leaves /\ Program.leaves[leaf].quantum
      /\ Program.leaves[leaf].id \in DOMAIN Top.bound
      /\ returned[leaf].id = Top.bound[Program.leaves[leaf].id]
  BY <1>1, EndFacts
<1>3. returned[leaf].id = <<<<>>, Program.leaves[leaf].id>>
  BY <1>2, LoneFacts
<1>4. PICK i \in DOMAIN instrs : instrs[i].kind = "observe" /\ returned[leaf].id = instrs[i].refs[1]
  BY <1>1 DEF ObservedIds
<1>5. 1 \in DOMAIN instrs[i].refs
  BY InstrFacts
<1>6. instrs[i].refs[1] = <<<<>>, Program.code[i].refs[1]>> /\ i \in DOMAIN Program.code
      /\ Program.code[i].kind = "observe"
  BY <1>4, <1>5, LoneFacts DEF CopiedInPlace, CopyOf
<1>7. Program.leaves[leaf].id = Program.code[i].refs[1]
  <2>1. <<<<>>, Program.leaves[leaf].id>> = <<<<>>, Program.code[i].refs[1]>>
    BY <1>3, <1>4, <1>6
  <2>2. QED BY <2>1
<1>8. i \in Observations(Program)
  BY <1>6 DEF Observations
<1>9. ReturnDeclared(Program)
  BY EndFacts DEF IsLogicalProgram
<1>10. QED BY <1>2, <1>7, <1>8, <1>9 DEF ReturnDeclared

\* It is reported the same.
LEMMA LoneIsReported ==
    ASSUME ExpansionIInv, LoneValues(module, qubits), phase # "expanding",
           CallInstrs(module.programs[module.entry]) = {}
    PROVE  Found = DirectDiagnostics(module.programs[module.entry])
<1>1. Program = module.programs[module.entry] /\ DOMAIN instrs = DOMAIN Program.code
  BY LoneFacts
<1>2. "A205" \notin Found
  <2>1. ASSUME NEW i \in DOMAIN instrs PROVE ~ AliasedCx(instrs[i])
    <3>1. SUFFICES ASSUME instrs[i].kind = "cx" PROVE instrs[i].refs[1] # instrs[i].refs[2]
      BY DEF AliasedCx
    <3>2. DOMAIN instrs[i].refs = 1 .. Len(instrs[i].refs) /\ Len(instrs[i].refs) = 2
      BY <3>1, InstrFacts
    <3>3. 1 \in 1 .. 2 /\ 2 \in 1 .. 2
      OBVIOUS
    <3>4. 1 \in DOMAIN instrs[i].refs /\ 2 \in DOMAIN instrs[i].refs
      BY <3>2, <3>3
    <3>5. Program.code[i].kind = "cx" /\ GateArity(Program.code[i])
      BY <3>1, LoneFacts DEF CopiedInPlace, CopyOf
    <3>6. Program.code[i].refs[1] # Program.code[i].refs[2]
      BY <3>5 DEF GateArity
    <3>7. instrs[i].refs[1] = <<<<>>, Program.code[i].refs[1]>>
          /\ instrs[i].refs[2] = <<<<>>, Program.code[i].refs[2]>>
      BY <3>4, LoneFacts
    <3>8. QED BY <3>6, <3>7
  <2>2. QED BY <2>1 DEF Found
<1>3. \A i \in DOMAIN instrs : UnsupportedBasis(instrs[i]) <=> UnsupportedBasis(Program.code[i])
  BY LoneFacts DEF CopiedInPlace, CopyOf, UnsupportedBasis
<1>4. "A201" \in Found <=> \E i \in DOMAIN Program.code : UnsupportedBasis(Program.code[i])
  BY <1>1, <1>3 DEF Found
<1>5. Found \subseteq {"A201", "A205"}
  BY DEF Found
<1>6. CASE \E i \in DOMAIN Program.code : UnsupportedBasis(Program.code[i])
  <2>1. Found = {"A201"}
    BY <1>2, <1>4, <1>5, <1>6
  <2>2. DirectDiagnostics(Program) = {"A201"}
    BY <1>1, <1>6 DEF DirectDiagnostics
  <2>3. QED BY <1>1, <2>1, <2>2
<1>7. CASE ~ \E i \in DOMAIN Program.code : UnsupportedBasis(Program.code[i])
  <2>1. Found = {}
    BY <1>2, <1>4, <1>5, <1>7
  <2>2. DirectDiagnostics(Program) = {}
    BY <1>1, <1>7 DEF DirectDiagnostics
  <2>3. QED BY <1>1, <2>1, <2>2
<1>8. QED BY <1>6, <1>7

\* From the direct path's slots to the module's.
InOrder(program) ==
    [k \in 0 .. Len(program.defs) - 1 |->
        (CHOOSE q \in DOMAIN qubits : qubits[q].id = <<<<>>, program.defs[k + 1].id>>) - 1]

\* They are the same slots in another order.
LEMMA LoneSlots ==
    ASSUME ExpansionIInv, LoneValues(module, qubits), phase # "expanding",
           CallInstrs(module.programs[module.entry]) = {}, allocation = Allocated
    PROVE  /\ InOrder(Program) \in Bijection(0 .. Len(Program.defs) - 1, 0 .. Len(qubits) - 1)
           /\ \A v \in DefinedIds(Program) :
                 InOrder(Program)[DirectSlot(Program, v)] = Slot(<<<<>>, v>>)
<1> DEFINE defs == Program.defs
           len == Len(defs)
           width == Len(qubits)
           Home(d) == CHOOSE q \in DOMAIN qubits : qubits[q].id = <<<<>>, defs[d].id>>
<1>1. /\ len \in Nat /\ DOMAIN defs = 1 .. len
      /\ \A d, e \in DOMAIN defs : defs[d].id = defs[e].id => d = e
  BY EndFacts, DefinitionFacts
<1>2. qubits \in Seq(Instances) /\ QubitsDistinct(qubits)
  BY DEF ExpansionIInv, ExpansionNow, ValuesIInv, Typed
<1>3. width \in Nat /\ DOMAIN qubits = 1 .. width
  BY <1>2
<1>4. /\ \A v \in DefinedIds(Program) : \E q \in DOMAIN qubits : qubits[q].id = <<<<>>, v>>
      /\ \A q \in DOMAIN qubits : \E v \in DefinedIds(Program) : qubits[q].id = <<<<>>, v>>
  BY LoneFacts
<1>5. DefinedIds(Program) = {defs[d].id : d \in DOMAIN defs}
  BY DEF DefinedIds
<1>6. InOrder(Program) = [k \in 0 .. len - 1 |-> Home(k + 1) - 1]
  BY DEF InOrder
<1> HIDE DEF defs, len, width
<1>7. ASSUME NEW d \in 1 .. len PROVE Home(d) \in DOMAIN qubits /\ qubits[Home(d)].id = <<<<>>, defs[d].id>>
  BY <1>1, <1>4, <1>5
<1> HIDE DEF Home
<1>8. \A k \in 0 .. len - 1 : k + 1 \in 1 .. len
  BY <1>1
<1>9. \A d \in 1 .. len : d - 1 \in 0 .. len - 1 /\ (d - 1) + 1 = d
  BY <1>1
<1>10. \A q \in DOMAIN qubits : q \in Nat /\ q - 1 \in 0 .. width - 1
  BY <1>3
<1>11. \A s \in 0 .. width - 1 : s + 1 \in DOMAIN qubits /\ (s + 1) - 1 = s
  BY <1>3
<1> DEFINE f == [k \in 0 .. len - 1 |-> Home(k + 1) - 1]
<1>12. f \in [0 .. len - 1 -> 0 .. width - 1]
  BY <1>7, <1>8, <1>10
<1>13. ASSUME NEW a \in 0 .. len - 1, NEW b \in 0 .. len - 1, f[a] = f[b] PROVE a = b
  <2>1. /\ a + 1 \in 1 .. len /\ b + 1 \in 1 .. len
        /\ f[a] = Home(a + 1) - 1 /\ f[b] = Home(b + 1) - 1
    BY <1>8
  <2>2. Home(a + 1) \in DOMAIN qubits /\ Home(b + 1) \in DOMAIN qubits
        /\ Home(a + 1) \in Nat /\ Home(b + 1) \in Nat
    BY <1>7, <1>10, <2>1
  <2>3. Home(a + 1) = Home(b + 1)
    <3> HIDE DEF f
    <3>1. Home(a + 1) - 1 = Home(b + 1) - 1
      BY <1>13, <2>1
    <3>2. QED BY <2>2, <3>1
  <2>4. <<<<>>, defs[a + 1].id>> = <<<<>>, defs[b + 1].id>>
    BY <1>7, <2>1, <2>3
  <2>5. defs[a + 1].id = defs[b + 1].id
    BY <2>4
  <2>6. a + 1 = b + 1
    BY <1>1, <2>1, <2>5
  <2>7. a \in Int /\ b \in Int
    OBVIOUS
  <2>8. QED BY <2>6, <2>7
<1>14. ASSUME NEW s \in 0 .. width - 1 PROVE \E k \in 0 .. len - 1 : f[k] = s
  <2>1. s + 1 \in DOMAIN qubits
    BY <1>11
  <2>2. PICK d \in DOMAIN defs : qubits[s + 1].id = <<<<>>, defs[d].id>>
    BY <1>4, <1>5, <2>1
  <2>3. d \in 1 .. len
    BY <1>1, <2>2
  <2>4. Home(d) = s + 1
    BY <1>2, <1>7, <2>1, <2>2, <2>3 DEF QubitsDistinct
  <2>5. d - 1 \in 0 .. len - 1 /\ (d - 1) + 1 = d
    BY <1>9, <2>3
  <2>6. f[d - 1] = Home(d) - 1
    BY <2>5
  <2>7. f[d - 1] = s
    BY <1>11, <2>4, <2>6
  <2>8. QED BY <2>5, <2>7
<1>15. f \in Bijection(0 .. len - 1, 0 .. width - 1)
  <2> HIDE DEF f
  <2>1. f \in Injection(0 .. len - 1, 0 .. width - 1)
    BY <1>12, <1>13 DEF Injection, IsInjective
  <2>2. f \in Surjection(0 .. len - 1, 0 .. width - 1)
    BY <1>12, <1>14 DEF Surjection
  <2>3. QED BY <2>1, <2>2 DEF Bijection
<1>16. ASSUME NEW v \in DefinedIds(Program)
       PROVE  f[DirectSlot(Program, v)] = Slot(<<<<>>, v>>)
  <2>1. PICK d \in DOMAIN defs : v = defs[d].id
    BY <1>5
  <2>2. DirectSlot(Program, v) = d - 1
    <3>1. (CHOOSE e \in DOMAIN defs : defs[e].id = v) = d
      BY <1>1, <2>1
    <3>2. QED BY <3>1 DEF DirectSlot, defs
  <2>3. d \in 1 .. len
    BY <1>1, <2>1
  <2>4. d - 1 \in 0 .. len - 1 /\ (d - 1) + 1 = d
    BY <1>9, <2>3
  <2>5. f[d - 1] = Home(d) - 1
    BY <2>4
  <2>6. Home(d) \in DOMAIN qubits /\ qubits[Home(d)].id = <<<<>>, v>>
    BY <1>7, <2>1, <2>3
  <2>7. Slot(qubits[Home(d)].id) = Home(d) - 1
    BY <2>6, SlotOf
  <2>8. QED BY <2>2, <2>5, <2>6, <2>7
<1>17. f = InOrder(Program)
  BY <1>6
<1> HIDE DEF f
<1>18. QED BY <1>15, <1>16, <1>17 DEF len, width, defs

\* A direct operation in other slots.
Moved(f, direct) == [direct EXCEPT !.slots = [r \in DOMAIN @ |-> f[@[r]]]]

\* The module's operations are the direct ones, in those slots.
LEMMA LoneOperations ==
    ASSUME CompilerIInv, stage = "compiled", CallInstrs(module.programs[module.entry]) = {}
    PROVE  operations = [i \in DOMAIN Program.code |->
                            Moved(InOrder(Program), DirectOperation(Program, i))]
<1>1. /\ ExpansionIInv /\ LoneValues(module, qubits) /\ phase # "expanding"
      /\ allocation = Allocated /\ operations = OperationsNow
  BY CompiledFacts DEF CompilerIInv
<1>2. DOMAIN instrs = DOMAIN Program.code
  BY <1>1, LoneFacts
<1> DEFINE f == InOrder(Program)
<1>3. \A v \in DefinedIds(Program) : f[DirectSlot(Program, v)] = Slot(<<<<>>, v>>)
  BY <1>1, LoneSlots, Zenon
<1> HIDE DEF f
<1>4. ASSUME NEW i \in DOMAIN instrs
      PROVE  LowerInstruction(instrs[i]) = Moved(f, DirectOperation(Program, i))
  <2> DEFINE source == Program.code[i]
             instr == instrs[i]
             slots == [r \in DOMAIN source.refs |-> DirectSlot(Program, source.refs[r])]
             observed == IF source.kind = "observe" THEN <<<<>>, source.refs[1]>> ELSE NoValue
             moved == [r \in DOMAIN slots |-> f[slots[r]]]
             expanded == [r \in DOMAIN instr.refs |-> Slot(instr.refs[r])]
  <2>1. /\ CopiedInPlace(instr, source) /\ DOMAIN instr.refs = DOMAIN source.refs
        /\ \A r \in DOMAIN instr.refs : source.refs[r] \in DefinedIds(Program)
                                        /\ instr.refs[r] = <<<<>>, source.refs[r]>>
    BY <1>1, <1>4, LoneFacts
  <2>2. 1 \in DOMAIN instr.refs
    BY <1>1, <1>4, InstrFacts
  <2>3. /\ instr.op = source.op /\ instr.kind = source.kind /\ instr.result = source.result
        /\ instr.path = <<>>
    BY <2>1 DEF CopiedInPlace, CopyOf
  <2>4. IrId(instr) = <<<<>>, source.op>>
    <3>1. IrId(instr) = <<instr.path, instr.op>>
      BY <1>1, <1>4, InstrFacts DEF IrId
    <3>2. QED BY <2>3, <3>1
  <2>5. DirectOperation(Program, i)
           = [id |-> <<<<>>, source.op>>, kind |-> source.kind, slots |-> slots,
              key |-> source.result, observed |-> observed, parent |-> source.op]
    BY DEF DirectOperation, IsObservation
  <2>6. LowerInstruction(instr)
           = [id |-> IrId(instr), kind |-> instr.kind, slots |-> expanded, key |-> instr.result,
              observed |-> IF instr.kind = "observe" THEN instr.refs[1] ELSE NoValue,
              parent |-> instr.op]
    BY DEF LowerInstruction
  <2>7. moved = expanded
    <3>1. DOMAIN slots = DOMAIN instr.refs
      BY <2>1
    <3>2. ASSUME NEW r \in DOMAIN instr.refs PROVE f[slots[r]] = Slot(instr.refs[r])
      <4>1. slots[r] = DirectSlot(Program, source.refs[r])
        BY <2>1, <3>2
      <4>2. f[DirectSlot(Program, source.refs[r])] = Slot(<<<<>>, source.refs[r]>>)
        BY <1>3, <2>1, <3>2
      <4>3. QED BY <2>1, <3>2, <4>1, <4>2
    <3> HIDE DEF slots
    <3>3. QED BY <3>1, <3>2
  <2>8. (IF instr.kind = "observe" THEN instr.refs[1] ELSE NoValue) = observed
    BY <2>1, <2>2, <2>3
  <2> HIDE DEF slots, observed
  <2>9. Moved(f, DirectOperation(Program, i))
           = [id |-> <<<<>>, source.op>>, kind |-> source.kind, slots |-> moved,
              key |-> source.result, observed |-> observed, parent |-> source.op]
    <3> DEFINE direct == DirectOperation(Program, i)
    <3>1. direct = [id |-> <<<<>>, source.op>>, kind |-> source.kind, slots |-> slots,
                    key |-> source.result, observed |-> observed, parent |-> source.op]
      BY <2>5
    <3> HIDE DEF direct
    <3>2. Moved(f, direct) = [direct EXCEPT !.slots = [r \in DOMAIN direct.slots |-> f[direct.slots[r]]]]
      BY DEF Moved
    <3>3. [r \in DOMAIN direct.slots |-> f[direct.slots[r]]] = moved
      BY <3>1
    <3> HIDE DEF moved, source
    <3>4. Moved(f, direct) = [direct EXCEPT !.slots = moved]
      BY <3>2, <3>3
    <3>5. [direct EXCEPT !.slots = moved]
            = [id |-> <<<<>>, source.op>>, kind |-> source.kind, slots |-> moved,
               key |-> source.result, observed |-> observed, parent |-> source.op]
      BY <3>1
    <3>6. QED BY <3>4, <3>5 DEF direct
  <2> HIDE DEF moved, expanded
  <2>10. QED BY <2>3, <2>4, <2>6, <2>7, <2>8, <2>9
<1>5. operations = [i \in DOMAIN instrs |-> LowerInstruction(instrs[i])]
  BY <1>1 DEF OperationsNow
<1>6. QED BY <1>2, <1>4, <1>5 DEF f

\* And so is its readout.
LEMMA LoneReadout ==
    ASSUME CompilerIInv, stage = "compiled", CallInstrs(module.programs[module.entry]) = {},
           NEW n \in DOMAIN readout
    PROVE  readout[n].slot = InOrder(Program)[DirectSlot(Program, readout[n].id[2])]
<1>1. /\ ExpansionIInv /\ LoneValues(module, qubits) /\ phase # "expanding"
      /\ allocation = Allocated /\ stage \in AfterReading
  BY CompiledFacts DEF CompilerIInv
<1>2. PICK i \in DOMAIN instrs : readout[n].id = instrs[i].refs[1]
                                 /\ readout[n].slot = Slot(instrs[i].refs[1])
  BY <1>1, ReadoutFacts
<1>3. 1 \in DOMAIN instrs[i].refs
  BY <1>1, InstrFacts
<1>4. /\ instrs[i].refs[1] = <<<<>>, Program.code[i].refs[1]>>
      /\ Program.code[i].refs[1] \in DefinedIds(Program)
  BY <1>1, <1>3, LoneFacts
<1>5. readout[n].id[2] = Program.code[i].refs[1]
  BY <1>2, <1>4
<1>6. InOrder(Program)[DirectSlot(Program, Program.code[i].refs[1])]
        = Slot(<<<<>>, Program.code[i].refs[1]>>)
  BY <1>1, <1>4, LoneSlots
<1>7. QED BY <1>2, <1>4, <1>5, <1>6

\* Both ways of compiling agree.
LEMMA PathsDoAgree == ASSUME CompilerIInv PROVE PathsAgree
<1>1. SUFFICES ASSUME Ended
      PROVE  LET program == module.programs[module.entry]
             IN  IF CallInstrs(program) # {}
                 THEN "A203" \in DirectDiagnostics(program)
                 ELSE /\ stage # "failed"
                      /\ "A204" \notin diagnostics => diagnostics = DirectDiagnostics(program)
                      /\ stage = "compiled" =>
                            \E renaming \in Bijection(0 .. Len(program.defs) - 1,
                                                     0 .. allocation.width - 1) :
                               /\ operations = [i \in DOMAIN program.code |->
                                     LET direct == DirectOperation(program, i)
                                     IN  [direct EXCEPT !.slots =
                                             [r \in DOMAIN @ |-> renaming[@[r]]]]]
                               /\ \A n \in DOMAIN readout : \A i \in DOMAIN program.code :
                                     program.code[i].op = readout[n].operation =>
                                         readout[n].slot
                                            = renaming[DirectSlot(program, readout[n].id[2])]
  BY DEF PathsAgree
<1> DEFINE program == module.programs[module.entry]
<1>2. CASE CallInstrs(program) # {}
  BY <1>2 DEF DirectDiagnostics
<1>3. CASE CallInstrs(program) = {}
  <2>1. ExpansionIInv /\ LoneValues(module, qubits)
    BY DEF CompilerIInv
  <2>2. stage # "failed"
    <3>1. SUFFICES ASSUME stage = "failed" PROVE FALSE
      OBVIOUS
    <3>2. phase = "invalid" /\ ObservedUnderAlias
      BY <3>1, FailureIsAliased DEF OnlyAliasedObservationFails
    <3>3. QED BY <1>3, <2>1, <3>2, LoneIsNotAliased
  <2>3. ASSUME "A204" \notin diagnostics PROVE diagnostics = DirectDiagnostics(program)
    <3>1. stage = "compiled" \/ stage = "rejected"
      BY <1>1, <2>2 DEF Ended
    <3>2. diagnostics = Found /\ phase = "expanded"
      <4>1. CASE stage = "compiled"
        <5>1. Found = {} /\ phase = "expanded"
          BY <4>1, CompiledFacts
        <5>2. diagnostics = {}
          BY <4>1 DEF CompilerIInv, ChecksIInv
        <5>3. QED BY <5>1, <5>2
      <4>2. CASE stage = "rejected"
        BY <2>3, <4>2 DEF CompilerIInv, ChecksIInv
      <4>3. QED BY <3>1, <4>1, <4>2
    <3>3. QED BY <1>3, <2>1, <3>2, LoneIsReported
  <2>4. ASSUME stage = "compiled"
        PROVE  \E renaming \in Bijection(0 .. Len(program.defs) - 1, 0 .. allocation.width - 1) :
                  /\ operations = [i \in DOMAIN program.code |->
                                      Moved(renaming, DirectOperation(program, i))]
                  /\ \A n \in DOMAIN readout :
                        readout[n].slot = renaming[DirectSlot(program, readout[n].id[2])]
    <3>1. phase # "expanding" /\ allocation = Allocated
      BY <2>4, CompiledFacts
    <3>2. Program = program
      BY <1>3, <2>1, <3>1, LoneFacts
    <3>3. InOrder(program) \in Bijection(0 .. Len(program.defs) - 1, 0 .. Len(qubits) - 1)
      BY <1>3, <2>1, <3>1, <3>2, LoneSlots
    <3>4. allocation.width = Len(qubits)
      BY <3>1 DEF Allocated
    <3>5. operations = [i \in DOMAIN program.code |->
                           Moved(InOrder(program), DirectOperation(program, i))]
      BY <1>3, <2>4, <3>2, LoneOperations
    <3>6. \A n \in DOMAIN readout :
             readout[n].slot = InOrder(program)[DirectSlot(program, readout[n].id[2])]
      BY <1>3, <2>4, <3>2, LoneReadout
    <3> HIDE DEF program
    <3>7. QED BY <3>3, <3>4, <3>5, <3>6
  <2>5. QED BY <1>3, <2>2, <2>3, <2>4 DEF Moved
<1>4. QED BY <1>2, <1>3

\* For every set of modules the state of the expander and the artifacts of
\* compile_logical_module keep their shape: activations mirror the reserved records,
\* creation indexes are in range, and every slot of the circuit is allocated.
THEOREM CompilerIsTyped == CompilerSpec => []CompilerTypeOK
<1>1. CompilerIInv => CompilerTypeOK
  BY CompilationTyped
<1>2. QED BY <1>1, CompilationInvariant, PTL

\* For every set of modules, of any size and call depth, what compile_logical_module
\* publishes is the source program: identities are unique, every value is there
\* before it is used and is not released before its last use under any name, slots
\* carry exactly the values, records and call stacks tell one story, the two compile
\* paths agree where both apply, and no stage and no cross-check raises anything but
\* a diagnostic, save for a returned value that was observed under another name.
THEOREM CompiledModuleIsFaithful == CompilerSpec => []CompiledIsFaithful
<1>1. CompilerIInv => CompiledIsFaithful
  <2> SUFFICES ASSUME CompilerIInv PROVE CompiledIsFaithful
    OBVIOUS
  <2>1. OnlyAliasedObservationFails
    BY FailureIsAliased
  <2>2. ReleasesSound
    BY ReleasesAreSound
  <2>3. SlotsAreValues
    BY SlotsHoldValues
  <2>4. PathsAgree
    BY PathsDoAgree
  <2>5. ExpansionSound
    BY ExpansionIsSound DEF CompilerIInv
  <2>6. QED BY <2>1, <2>2, <2>3, <2>4, <2>5 DEF CompiledIsFaithful
<1>2. QED BY <1>1, CompilationInvariant, PTL

=============================================================================
