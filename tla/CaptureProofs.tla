---------------------------- MODULE CaptureProofs ----------------------------
(***************************************************************************)
(* Proofs about capturing Python functions, for any functions that call    *)
(* each other in any way.                                                  *)
(*                                                                         *)
(* The invariant speaks of each capture at work: positions only grow, so   *)
(* what it makes of a statement is new; a name's identifier says where the *)
(* name goes back to; and what a call leads to has been captured, under    *)
(* its own identifier, before its caller is finished.                      *)
(***************************************************************************)
EXTENDS Capture, FoldFacts, SequenceTheorems

-----------------------------------------------------------------------------
(* The invariant.                                                          *)

ProgramIds(w) == {w.functions[f].id : f \in DOMAIN w.functions}
Ids(w)        == ProgramIds(w) \X NodeKinds \X Nat
Values(w)     == [quantum : BOOLEAN, id : Ids(w)]

Definitions(w) == [id : Ids(w), pos : Nat]

Instructions(w) ==
    [op : Ids(w), kind : Kinds, refs : Seq(Ids(w)), pos : Nat, params : Seq(Ids(w)),
     callee : ProgramIds(w) \union {NoValue}, callee_value : Ids(w) \union {NoValue},
     result : Ids(w) \union {NoValue},
     basis : {w.functions[f].basis : f \in DOMAIN w.functions} \union {NoValue}]

Variables(w)  == UNION {w.functions[f].variables : f \in DOMAIN w.functions}
NameTables(w) == UNION {[S -> Values(w)] : S \in SUBSET Variables(w)}

CaptureFrames(w) ==
    [fn : DOMAIN w.functions, pc : Nat, names : NameTables(w), params : Seq(Ids(w)),
     defs : Seq(Definitions(w)), code : Seq(Instructions(w)), bits : Seq(Ids(w)),
     leaves : Seq(Values(w)), asBit : SUBSET Ids(w), asQubit : SUBSET Ids(w)]

Body(w, f) == w.functions[f].body

\* What a capture has put together so far.
Made(frame) ==
    [params |-> frame.params, defs |-> frame.defs, code |-> frame.code, bits |-> frame.bits]

\* Everything was made before the place where the capture is.
Reached(frame) == Position(frame.pc, Len(frame.leaves) + 1)

PositionsGrow(w, frame) ==
    /\ frame.pc \in 1 .. Len(Body(w, frame.fn)) + 1
    /\ \A n \in DOMAIN frame.names : frame.names[n].id[3] < Position(frame.pc, 0)
    /\ \A d \in DOMAIN frame.defs : frame.defs[d].id[3] < Reached(frame)
    /\ \A b \in DOMAIN frame.bits : frame.bits[b][3] < Reached(frame)
    /\ \A i \in DOMAIN frame.code :
          /\ frame.code[i].op[3] < Reached(frame)
          /\ frame.code[i].result # NoValue => frame.code[i].result[3] < Reached(frame)

\* Leaves are aligned at the return, which is the last statement.
LeavesAtReturn(w, frame) ==
    frame.leaves # <<>> =>
        LET body == Body(w, frame.fn)
        IN  /\ frame.pc = Len(body) /\ body[frame.pc].form = "return"
            /\ Len(frame.leaves) <= Len(body[frame.pc].args)

\* What the program's constructor asks of it, but for observed leaves.
ValuesDeclared(frame) ==
    /\ Injective([d \in DOMAIN frame.defs |-> frame.defs[d].id])
    /\ Injective(frame.params)
    /\ \A k \in DOMAIN frame.params : \E d \in DOMAIN frame.defs : frame.defs[d].id = frame.params[k]
    /\ Injective(frame.bits)
    /\ \A d \in DOMAIN frame.defs : frame.defs[d].id[2] \in {"parameter", "qubit-declaration"}
    /\ \A b \in DOMAIN frame.bits :
          frame.bits[b][2] \in {"observation-result", "discarded-observation-result"}

KnownTo(frame) == KnownBefore(Made(frame), Len(frame.code) + 1)

CodeDeclared(frame) ==
    LET program == Made(frame)
    IN  /\ Injective([i \in DOMAIN frame.code |-> frame.code[i].op])
        /\ \A i \in DOMAIN frame.code : InstructionDeclared(program, i)
        /\ \A i, j \in Observations(program) :
              frame.code[i].result = frame.code[j].result => i = j
        /\ BitIds(program) = {frame.code[i].result : i \in Observations(program)}

NamesDeclared(frame) ==
    \A n \in DOMAIN frame.names :
        IF frame.names[n].quantum THEN frame.names[n].id \in KnownTo(frame)
        ELSE frame.names[n].id \in BitIds(Made(frame))

LeavesDeclared(frame) ==
    /\ \A l \in DOMAIN frame.leaves :
          IF frame.leaves[l].quantum
          THEN frame.leaves[l].id \in KnownTo(frame) /\ frame.leaves[l].id \in frame.asQubit
          ELSE frame.leaves[l].id \in BitIds(Made(frame))
    /\ frame.asBit \intersect frame.asQubit = {}
    /\ \A i \in Observations(Made(frame)) :
          \/ frame.code[i].op[2] = "explicit-observation"
          \/ frame.code[i].refs[1] \in frame.asBit

\* Where an identifier at a position goes back to.
OriginAt(pos) == IF pos \div LineWidth = 0 THEN <<0, pos>> ELSE <<pos \div LineWidth, 0>>

\* Where names go back to after so many statements.
OriginsAfter(function, k) ==
    Origins([params |-> function.params, variables |-> function.variables,
             body |-> SubSeq(function.body, 1, k)])

NamesGoBack(w, frame) ==
    /\ \A n \in DOMAIN frame.names :
          /\ n \in w.functions[frame.fn].variables
          /\ OriginsAfter(w.functions[frame.fn], frame.pc - 1)[n] = OriginAt(frame.names[n].id[3])
    /\ \A m, n \in DOMAIN frame.names :
          OriginAt(frame.names[m].id[3]) = OriginAt(frame.names[n].id[3])
              => frame.names[m].id = frame.names[n].id

Line(instr) == instr.pos \div LineWidth

\* The names that an instruction's operands are written as.
Written(body, instr) ==
    LET stmt == body[Line(instr)]
    IN  IF stmt.form = "return" THEN <<stmt.args[instr.pos % LineWidth]>>
        ELSE IF instr.kind = "cx" THEN Reverse(stmt.args) ELSE stmt.args

OperandsNamed(w, frame) ==
    \A i \in DOMAIN frame.code :
        LET names == Written(Body(w, frame.fn), frame.code[i])
        IN  /\ Line(frame.code[i]) \in 1 .. Len(Body(w, frame.fn))
            /\ \A r \in DOMAIN names :
                  /\ names[r] \in DOMAIN frame.names
                  /\ frame.code[i].refs[r] = frame.names[names[r]].id

MeaningIn(w, stmt) ==
    IF stmt.func \in DOMAIN w.globals THEN w.globals[stmt.func] ELSE "missing"

\* Calls lead to captured programs of the functions they name.
CallsFit(w, ps, ow, f, code) ==
    \A i \in DOMAIN code : code[i].kind = "call" =>
        /\ CallResolved([programs |-> ps], code[i])
        /\ Observations(ps[code[i].callee]) = {}
        /\ ow[code[i].callee] = MeaningIn(w, Body(w, f)[Line(code[i])])

CaptureFits(w, ps, ow, frame) ==
    /\ PositionsGrow(w, frame) /\ LeavesAtReturn(w, frame)
    /\ ValuesDeclared(frame) /\ CodeDeclared(frame) /\ NamesDeclared(frame) /\ LeavesDeclared(frame)
    /\ NamesGoBack(w, frame) /\ OperandsNamed(w, frame)
    /\ CallsFit(w, ps, ow, frame.fn, frame.code)

\* Each capture but the last waits at the call of the next one's function.
StackIInv ==
    /\ world \in Worlds
    /\ stack \in Seq(CaptureFrames(world))
    /\ \A k \in DOMAIN stack : CaptureFits(world, programs, owners, stack[k])
    /\ \A k, n \in DOMAIN stack : Function(stack[k].fn).id = Function(stack[n].fn).id => k = n
    /\ \A k \in DOMAIN stack : Function(stack[k].fn).id \notin DOMAIN programs
    /\ \A k \in 1 .. Len(stack) - 1 :
          LET body == Body(world, stack[k].fn)
          IN  /\ stack[k].pc \in DOMAIN body /\ body[stack[k].pc].form \in {"assign", "call"}
              /\ MeaningIn(world, body[stack[k].pc]) = stack[k + 1].fn

OperandsFit(w, f, code) ==
    \A i, j \in DOMAIN code :
        LET namesI == Written(Body(w, f), code[i])
            namesJ == Written(Body(w, f), code[j])
            origins == Origins(w.functions[f])
        IN  \A r \in DOMAIN namesI, s \in DOMAIN namesJ :
               (code[i].refs[r] = code[j].refs[s]) <=> (origins[namesI[r]] = origins[namesJ[s]])

ProgramTyped(w, program) ==
    /\ program.params \in Seq(Ids(w)) /\ program.code \in Seq(Instructions(w))
    /\ program.leaves \in Seq(Values(w)) /\ (program.shape = "scalar" => program.leaves # <<>>)

ProgramsIInv ==
    /\ order \in Seq(ProgramIds(world)) /\ Injective(order)
    /\ DOMAIN programs = ToSet(order) /\ DOMAIN owners = ToSet(order)
    /\ \A p \in DOMAIN programs :
          /\ owners[p] \in Functions /\ Function(owners[p]).id = p
          /\ ProgramTyped(world, programs[p]) /\ IsLogicalProgram(programs[p])
          /\ CallsFit(world, programs, owners, owners[p], programs[p].code)
          /\ OperandsFit(world, owners[p], programs[p].code)
    /\ \A n \in DOMAIN order : \A i \in CallInstrs(programs[order[n]]) :
          \E m \in 1 .. n - 1 : order[m] = programs[order[n]].code[i].callee

FailureIInv ==
    failure # NoValue =>
        /\ failure.code # "invariant"
        /\ InvariantFailureExplained /\ RecursionExplained

CaptureIInv == StackIInv /\ ProgramsIInv /\ FailureIInv

-----------------------------------------------------------------------------
(* Positions and worlds.                                                   *)

LEMMA DivisionFacts ==
    ASSUME NEW m \in Nat, m > 0, NEW l \in Nat, NEW c \in Nat, c < m
    PROVE  (m * l + c) \div m = l /\ (m * l + c) % m = c
<1> DEFINE x == m * l + c
           q == x \div m
           r == x % m
<1>1. x \in Nat
  OBVIOUS
<1>2. q \in Int /\ r \in Int /\ x = m * q + r /\ 0 <= r /\ r < m
  BY <1>1
<1> HIDE DEF q, r
<1>3. m * l + c = m * q + r
  BY <1>2
<1>4. ASSUME q > l PROVE FALSE
  <2>1. q >= l + 1
    BY <1>2, <1>4
  <2>2. m * q >= m * (l + 1)
    BY <1>2, <2>1
  <2>3. m * (l + 1) = m * l + m
    OBVIOUS
  <2>4. QED BY <1>2, <1>3, <2>2, <2>3
<1>5. ASSUME q < l PROVE FALSE
  <2>1. m * (q + 1) <= m * l
    BY <1>2, <1>5
  <2>2. m * (q + 1) = m * q + m
    BY <1>2
  <2>3. QED BY <1>2, <1>3, <2>1, <2>2
<1>6. q = l
  BY <1>2, <1>4, <1>5
<1>7. QED BY <1>2, <1>3, <1>6 DEF q, r

LEMMA PositionFacts ==
    ASSUME NEW line \in Nat, NEW column \in Nat
    PROVE  /\ Position(line, column) \in Nat
           /\ Position(line, column + 1) = Position(line, column) + 1
           /\ Position(line, 0) <= Position(line, column)
           /\ column < LineWidth => /\ Position(line, column) \div LineWidth = line
                                    /\ Position(line, column) % LineWidth = column
           /\ column < LineWidth => Position(line, column) < Position(line + 1, 0)
<1>1. LineWidth \in Nat /\ LineWidth > 0
  BY LinesAreWideEnough DEF CallColumn
<1>2. LineWidth * (line + 1) = LineWidth * line + LineWidth /\ LineWidth * line \in Nat
  BY <1>1
<1>3. column < LineWidth => /\ (LineWidth * line + column) \div LineWidth = line
                            /\ (LineWidth * line + column) % LineWidth = column
  BY <1>1, DivisionFacts
<1>4. QED BY <1>1, <1>2, <1>3 DEF Position

LEMMA LinesGrow ==
    ASSUME NEW line \in Nat, NEW other \in Nat, line < other
    PROVE  Position(line + 1, 0) <= Position(other, 0)
<1>1. LineWidth \in Nat
  BY LinesAreWideEnough
<1>2. LineWidth * (line + 1) <= LineWidth * other
  BY <1>1
<1>3. QED BY <1>1, <1>2 DEF Position

\* A position before a line is on an earlier one.
LEMMA EarlierLine ==
    ASSUME NEW pos \in Nat, NEW line \in Nat, pos < Position(line, 0)
    PROVE  pos \div LineWidth \in Nat /\ pos \div LineWidth < line
<1> DEFINE q == pos \div LineWidth
           r == pos % LineWidth
<1>1. LineWidth \in Nat /\ LineWidth > 0
  BY LinesAreWideEnough DEF CallColumn
<1>2. q \in Int /\ r \in Int /\ pos = LineWidth * q + r /\ 0 <= r /\ r < LineWidth
  BY <1>1
<1> HIDE DEF q, r
<1>3. ASSUME q < 0 PROVE FALSE
  <2>1. q + 1 <= 0
    BY <1>2, <1>3
  <2>2. LineWidth * (q + 1) <= 0
    BY <1>1, <1>2, <2>1
  <2>3. LineWidth * (q + 1) = LineWidth * q + LineWidth
    BY <1>1, <1>2
  <2>4. QED BY <1>1, <1>2, <2>2, <2>3
<1>4. ASSUME q >= line PROVE FALSE
  <2>1. LineWidth * q >= LineWidth * line
    BY <1>1, <1>2, <1>4
  <2>2. QED BY <1>1, <1>2, <2>1 DEF Position
<1>5. QED BY <1>2, <1>3, <1>4 DEF q

LEMMA WorldFacts ==
    ASSUME NEW w \in Worlds, NEW f \in DOMAIN w.functions
    PROVE  LET function == w.functions[f]
           IN  /\ function.params \in Seq(function.variables) /\ Injective(function.params)
               /\ Len(function.params) < LineWidth /\ Len(function.params) \in Nat
               /\ DOMAIN function.params = 1 .. Len(function.params)
               /\ function.id \in ProgramIds(w)
               /\ Len(Body(w, f)) \in Nat /\ DOMAIN Body(w, f) = 1 .. Len(Body(w, f))
               /\ Body(w, f) = function.body /\ function.body \in Seq(ToSet(function.body))
               /\ \A i \in DOMAIN Body(w, f) : IsStatement(Body(w, f)[i], function.variables)
               /\ function.variables \subseteq Variables(w)
               /\ f # NoValue /\ f # "missing" /\ f # "Qubit" /\ f \notin Intrinsics
BY WorldsArePython DEF IsWorld, ProgramIds, Body, Variables

LEMMA NoIdIsNoValue ==
    ASSUME NEW w \in Worlds
    PROVE  NoValue \notin Ids(w) /\ NoValue \notin Codes
BY NoValueIsNoName DEF Ids, ProgramIds

LEMMA IdFacts ==
    ASSUME NEW w, NEW id \in Ids(w)
    PROVE  id[1] \in ProgramIds(w) /\ id[2] \in NodeKinds /\ id[3] \in Nat /\ id = <<id[1], id[2], id[3]>>
BY DEF Ids

-----------------------------------------------------------------------------
(* What a capture holds, and what a new value or instruction keeps.        *)

-----------------------------------------------------------------------------
(* What one statement adds to a program.                                   *)

LEMMA FrameFacts ==
    ASSUME NEW w \in Worlds, NEW frame \in CaptureFrames(w)
    PROVE  /\ frame.fn \in DOMAIN w.functions /\ frame.pc \in Nat
           /\ \A n \in DOMAIN frame.names : frame.names[n] \in Values(w)
           /\ DOMAIN frame.names \subseteq Variables(w)
           /\ frame.params \in Seq(Ids(w))
           /\ frame.defs \in Seq(Definitions(w)) /\ Len(frame.defs) \in Nat
           /\ DOMAIN frame.defs = 1 .. Len(frame.defs)
           /\ \A d \in DOMAIN frame.defs : frame.defs[d].id \in Ids(w)
           /\ frame.code \in Seq(Instructions(w)) /\ Len(frame.code) \in Nat
           /\ DOMAIN frame.code = 1 .. Len(frame.code)
           /\ \A i \in DOMAIN frame.code : frame.code[i] \in Instructions(w)
           /\ frame.bits \in Seq(Ids(w)) /\ Len(frame.bits) \in Nat
           /\ DOMAIN frame.bits = 1 .. Len(frame.bits)
           /\ frame.leaves \in Seq(Values(w)) /\ Len(frame.leaves) \in Nat
           /\ DOMAIN frame.leaves = 1 .. Len(frame.leaves)
           /\ Reached(frame) \in Nat
<1>1. PICK S \in SUBSET Variables(w) : frame.names \in [S -> Values(w)]
  BY DEF CaptureFrames, NameTables
<1>2. \A n \in DOMAIN frame.names : frame.names[n] \in Values(w)
  BY <1>1
<1>3. frame.pc \in Nat /\ frame.leaves \in Seq(Values(w)) /\ frame.defs \in Seq(Definitions(w))
  BY DEF CaptureFrames
<1>4. Reached(frame) \in Nat
  <2>1. frame.pc \in Nat /\ Len(frame.leaves) + 1 \in Nat
    BY <1>3
  <2>2. QED BY <2>1, PositionFacts DEF Reached
<1>5. \A d \in DOMAIN frame.defs : frame.defs[d].id \in Ids(w)
  <2>1. \A d \in DOMAIN frame.defs : frame.defs[d] \in Definitions(w)
    BY <1>3
  <2>2. QED BY <2>1 DEF Definitions
<1>6. QED BY <1>1, <1>2, <1>3, <1>4, <1>5 DEF CaptureFrames

BoundBefore(frame, i) ==
    {c \in DOMAIN frame.code : frame.code[c].kind = "call" /\ c < i /\ frame.code[c].result # NoValue}

LEMMA KnownIs ==
    ASSUME NEW frame, NEW i
    PROVE  KnownBefore(Made(frame), i)
             = {frame.defs[d].id : d \in DOMAIN frame.defs}
               \union {frame.code[j].result : j \in BoundBefore(frame, i)}
<1>1. Made(frame).code = frame.code /\ Made(frame).defs = frame.defs
  BY DEF Made
<1>2. {c \in CallInstrs(Made(frame)) : c < i /\ Made(frame).code[c].result # NoValue}
        = BoundBefore(frame, i)
  BY <1>1 DEF CallInstrs, BoundBefore
<1>3. QED BY <1>1, <1>2 DEF KnownBefore, DefinedIds

LEMMA KnownToIs ==
    ASSUME NEW frame
    PROVE  KnownTo(frame) = {frame.defs[d].id : d \in DOMAIN frame.defs}
               \union {frame.code[j].result : j \in BoundBefore(frame, Len(frame.code) + 1)}
BY KnownIs, Zenon DEF KnownTo

LEMMA MadeIs ==
    ASSUME NEW frame
    PROVE  /\ BitIds(Made(frame)) = {frame.bits[b] : b \in DOMAIN frame.bits}
           /\ Observations(Made(frame)) = {j \in DOMAIN frame.code : frame.code[j].kind = "observe"}
           /\ Made(frame).code = frame.code
BY DEF Made, BitIds, Observations

\* What is known was made before the place where the capture is.
LEMMA KnownGrows ==
    ASSUME NEW w \in Worlds, NEW frame \in CaptureFrames(w), PositionsGrow(w, frame), NEW i \in Nat
    PROVE  \A id \in KnownBefore(Made(frame), i) : id \in Ids(w) /\ id[3] < Reached(frame)
<1> SUFFICES ASSUME NEW id \in KnownBefore(Made(frame), i)
             PROVE  id \in Ids(w) /\ id[3] < Reached(frame)
  OBVIOUS
<1>1. CASE id \in {frame.defs[d].id : d \in DOMAIN frame.defs}
  BY <1>1, FrameFacts DEF PositionsGrow
<1>2. CASE id \in {frame.code[j].result : j \in BoundBefore(frame, i)}
  <2>1. PICK j \in DOMAIN frame.code : id = frame.code[j].result /\ id # NoValue
    BY <1>2 DEF BoundBefore
  <2>2. id \in Ids(w)
    BY <2>1, FrameFacts DEF Instructions
  <2>3. QED BY <2>1, <2>2 DEF PositionsGrow
<1>3. QED BY <1>1, <1>2, KnownIs

\* Nothing is lost.
Keeps(old, new) ==
    /\ ValuesDeclared(new) /\ CodeDeclared(new)
    /\ KnownTo(old) \subseteq KnownTo(new)
    /\ BitIds(Made(old)) \subseteq BitIds(Made(new))

LEMMA SameMakesKeep ==
    ASSUME NEW old, NEW new, ValuesDeclared(old), CodeDeclared(old), new.params = old.params,
           new.defs = old.defs, new.code = old.code, new.bits = old.bits
    PROVE  Keeps(old, new)
<1>1. Made(new) = Made(old) /\ KnownTo(new) = KnownTo(old)
  BY DEF Made, KnownTo
<1>2. ValuesDeclared(new)
  BY DEF ValuesDeclared
<1>3. CodeDeclared(new)
  BY <1>1 DEF CodeDeclared
<1>4. QED BY <1>1, <1>2, <1>3 DEF Keeps

LEMMA IdsGrow ==
    ASSUME NEW n \in Nat, NEW a, NEW b, DOMAIN a = 1 .. n, DOMAIN b = 1 .. n + 1,
           \A k \in 1 .. n : b[k] = a[k]
    PROVE  {b[k].id : k \in DOMAIN b} = {a[k].id : k \in DOMAIN a} \union {b[n + 1].id}
<1>1. ASSUME NEW k \in DOMAIN b
      PROVE  b[k].id \in {a[j].id : j \in DOMAIN a} \union {b[n + 1].id}
  <2>1. CASE k = n + 1
    BY <2>1
  <2>2. CASE k # n + 1
    <3>1. k \in DOMAIN a /\ b[k] = a[k]
      BY <2>2
    <3>2. QED BY <3>1
  <2>3. QED BY <2>1, <2>2
<1>2. ASSUME NEW k \in DOMAIN a PROVE a[k].id \in {b[j].id : j \in DOMAIN b}
  <2>1. k \in DOMAIN b /\ b[k] = a[k]
    OBVIOUS
  <2>2. QED BY <2>1
<1>3. n + 1 \in DOMAIN b
  OBVIOUS
<1>4. QED BY <1>1, <1>2, <1>3

LEMMA NewValueKeeps ==
    ASSUME NEW w \in Worlds, NEW old \in CaptureFrames(w), NEW new \in CaptureFrames(w),
           PositionsGrow(w, old), ValuesDeclared(old), CodeDeclared(old),
           NEW d \in Definitions(w), d.id[3] >= Reached(old), d.id[2] = "qubit-declaration",
           new.params = old.params, new.defs = Append(old.defs, d),
           new.code = old.code, new.bits = old.bits
    PROVE  Keeps(old, new) /\ d.id \in KnownTo(new)
<1> DEFINE n == Len(old.defs)
<1>0. /\ n \in Nat /\ DOMAIN old.defs = 1 .. n /\ DOMAIN new.defs = 1 .. n + 1
      /\ new.defs[n + 1] = d /\ \A k \in 1 .. n : new.defs[k] = old.defs[k]
      /\ d.id \in Ids(w) /\ d.id[3] \in Nat /\ Reached(old) \in Nat
      /\ \A k \in 1 .. n : old.defs[k].id \in Ids(w) /\ old.defs[k].id[3] \in Nat
  <2>1. d.id \in Ids(w) /\ d.id[3] \in Nat
    BY IdFacts DEF Definitions
  <2>2. /\ old.defs \in Seq(Definitions(w)) /\ n \in Nat /\ DOMAIN old.defs = 1 .. n
        /\ Reached(old) \in Nat /\ \A k \in DOMAIN old.defs : old.defs[k].id \in Ids(w)
    BY FrameFacts
  <2>3. \A k \in 1 .. n : old.defs[k].id \in Ids(w) /\ old.defs[k].id[3] \in Nat
    BY <2>2, IdFacts
  <2>4. /\ DOMAIN new.defs = 1 .. n + 1 /\ new.defs[n + 1] = d
        /\ \A k \in 1 .. n : new.defs[k] = old.defs[k]
    BY <2>2
  <2>5. QED BY <2>1, <2>2, <2>3, <2>4
<1>1. ASSUME NEW i \in Nat
      PROVE  KnownBefore(Made(new), i) = KnownBefore(Made(old), i) \union {d.id}
  <2>1. {new.defs[k].id : k \in DOMAIN new.defs}
          = {old.defs[k].id : k \in DOMAIN old.defs} \union {d.id}
    <3>1. /\ DOMAIN old.defs = 1 .. n /\ DOMAIN new.defs = 1 .. n + 1
          /\ \A k \in 1 .. n : new.defs[k] = old.defs[k]
          /\ new.defs[n + 1] = d /\ n \in Nat
      BY <1>0
    <3> HIDE DEF n
    <3>2. {new.defs[k].id : k \in DOMAIN new.defs}
            = {old.defs[k].id : k \in DOMAIN old.defs} \union {new.defs[n + 1].id}
      BY <3>1, IdsGrow
    <3>3. QED BY <3>1, <3>2
  <2>2. BoundBefore(new, i) = BoundBefore(old, i)
    BY DEF BoundBefore
  <2>3. /\ KnownBefore(Made(new), i) = {new.defs[k].id : k \in DOMAIN new.defs}
               \union {new.code[j].result : j \in BoundBefore(new, i)}
        /\ KnownBefore(Made(old), i) = {old.defs[k].id : k \in DOMAIN old.defs}
               \union {old.code[j].result : j \in BoundBefore(old, i)}
    BY KnownIs
  <2>4. QED BY <2>1, <2>2, <2>3
<1>2. KnownTo(new) = KnownTo(old) \union {d.id}
  <2>1. Len(new.code) + 1 \in Nat /\ new.code = old.code
    BY FrameFacts
  <2>2. QED BY <1>1, <2>1 DEF KnownTo
<1>3. BitIds(Made(new)) = BitIds(Made(old)) /\ Observations(Made(new)) = Observations(Made(old))
  <2>1. /\ BitIds(Made(new)) = {new.bits[b] : b \in DOMAIN new.bits}
        /\ BitIds(Made(old)) = {old.bits[b] : b \in DOMAIN old.bits}
        /\ Observations(Made(new)) = {j \in DOMAIN new.code : new.code[j].kind = "observe"}
        /\ Observations(Made(old)) = {j \in DOMAIN old.code : old.code[j].kind = "observe"}
    BY MadeIs, Zenon
  <2>2. new.bits = old.bits /\ new.code = old.code
    OBVIOUS
  <2>3. QED BY <2>1, <2>2, Zenon
<1>4. ValuesDeclared(new)
  <2>1. \A k \in 1 .. n : old.defs[k].id[3] < d.id[3]
    BY <1>0 DEF PositionsGrow
  <2>2. Injective([k \in DOMAIN new.defs |-> new.defs[k].id])
    <3>1. \A k \in 1 .. n : old.defs[k].id # d.id
      BY <1>0, <2>1
    <3>2. \A k, m \in 1 .. n : old.defs[k].id = old.defs[m].id => k = m
      BY <1>0 DEF ValuesDeclared, Injective
    <3>3. \A k, m \in 1 .. n + 1 : new.defs[k].id = new.defs[m].id => k = m
      <4> SUFFICES ASSUME NEW k \in 1 .. n + 1, NEW m \in 1 .. n + 1, new.defs[k].id = new.defs[m].id
                   PROVE  k = m
        OBVIOUS
      <4>1. CASE k \in 1 .. n /\ m \in 1 .. n
        BY <1>0, <3>2, <4>1
      <4>2. CASE k = n + 1 /\ m \in 1 .. n
        BY <1>0, <3>1, <4>2
      <4>3. CASE m = n + 1 /\ k \in 1 .. n
        BY <1>0, <3>1, <4>3
      <4>4. QED BY <1>0, <4>1, <4>2, <4>3
    <3>4. QED BY <1>0, <3>3 DEF Injective
  <2>3. \A k \in DOMAIN new.defs : new.defs[k].id[2] \in {"parameter", "qubit-declaration"}
    BY <1>0 DEF ValuesDeclared
  <2>4. \A k \in DOMAIN new.params : \E m \in DOMAIN new.defs : new.defs[m].id = new.params[k]
    <3> SUFFICES ASSUME NEW k \in DOMAIN old.params
                 PROVE  \E m \in DOMAIN new.defs : new.defs[m].id = old.params[k]
      OBVIOUS
    <3>1. PICK m \in DOMAIN old.defs : old.defs[m].id = old.params[k]
      BY DEF ValuesDeclared
    <3>2. m \in DOMAIN new.defs /\ new.defs[m] = old.defs[m]
      BY <1>0
    <3>3. QED BY <3>1, <3>2
  <2>5. QED BY <2>2, <2>3, <2>4 DEF ValuesDeclared
<1>5. CodeDeclared(new)
  <2>1. ASSUME NEW i \in DOMAIN old.code
        PROVE  InstructionDeclared(Made(new), i)
    <3>1. InstructionDeclared(Made(old), i)
      BY DEF CodeDeclared, Made
    <3>2. Made(new).code[i] = old.code[i] /\ Made(old).code[i] = old.code[i] /\ i \in Nat
      BY FrameFacts DEF Made
    <3>3. old.code[i].kind = "call" => old.code[i].result # d.id
      <4>1. CASE old.code[i].result = NoValue
        BY <1>0, <4>1, NoIdIsNoValue
      <4>2. CASE old.code[i].result # NoValue
        <5>1. old.code[i].result[3] < Reached(old) /\ old.code[i].result \in Ids(w)
          BY <4>2, FrameFacts DEF PositionsGrow, Instructions
        <5>2. QED BY <1>0, <5>1, IdFacts
      <4>3. QED BY <4>1, <4>2
    <3>4. QED BY <1>1, <1>3, <3>1, <3>2, <3>3 DEF InstructionDeclared
  <2>2. QED BY <1>3, <2>1 DEF CodeDeclared
<1>6. QED BY <1>2, <1>3, <1>4, <1>5 DEF Keeps

\* An instruction, which is a call, or an observation with its bit, or neither.
Emits(w, old, new, instr) ==
    /\ new.params = old.params /\ new.defs = old.defs
    /\ new.code = Append(old.code, instr)
    /\ new.bits = IF instr.kind = "observe" THEN Append(old.bits, instr.result) ELSE old.bits
    /\ GateArity(instr)
    /\ \A r \in DOMAIN instr.refs : instr.refs[r] \in KnownTo(old)
    /\ instr.op[3] >= Reached(old)
    /\ instr.result # NoValue => instr.result[3] >= Reached(old)
    /\ instr.kind = "call" => Injective(instr.params)
    /\ instr.kind = "observe" =>
          instr.result # NoValue
          /\ instr.result[2] \in {"observation-result", "discarded-observation-result"}

LEMMA NewInstructionKeeps ==
    ASSUME NEW w \in Worlds, NEW old \in CaptureFrames(w), NEW new \in CaptureFrames(w),
           PositionsGrow(w, old), ValuesDeclared(old), CodeDeclared(old),
           NEW instr \in Instructions(w), Emits(w, old, new, instr)
    PROVE  /\ Keeps(old, new)
           /\ instr.kind = "call" /\ instr.result # NoValue => instr.result \in KnownTo(new)
           /\ instr.kind = "observe" => instr.result \in BitIds(Made(new))
           /\ Observations(Made(new))
                = IF instr.kind = "observe" THEN Observations(Made(old)) \union {Len(old.code) + 1}
                  ELSE Observations(Made(old))
<1> DEFINE n == Len(old.code)
<1>0. /\ n \in Nat /\ DOMAIN old.code = 1 .. n /\ DOMAIN new.code = 1 .. n + 1
      /\ new.code[n + 1] = instr /\ \A k \in 1 .. n : new.code[k] = old.code[k]
      /\ Len(new.code) = n + 1
      /\ instr.op \in Ids(w) /\ instr.result \in Ids(w) \union {NoValue} /\ Reached(old) \in Nat
      /\ \A k \in 1 .. n : old.code[k].op \in Ids(w) /\ old.code[k].result \in Ids(w) \union {NoValue}
  <2>1. instr.op \in Ids(w) /\ instr.result \in Ids(w) \union {NoValue}
    BY DEF Instructions
  <2>2. \A k \in DOMAIN old.code : old.code[k].op \in Ids(w) /\ old.code[k].result \in Ids(w) \union {NoValue}
    BY FrameFacts DEF Instructions
  <2>3. old.code \in Seq(Instructions(w)) /\ new.code = Append(old.code, instr)
    BY FrameFacts DEF Emits
  <2>4. QED BY <2>1, <2>2, <2>3, FrameFacts
<1>1. ASSUME NEW i \in 1 .. n + 1
      PROVE  KnownBefore(Made(new), i) = KnownBefore(Made(old), i)
  <2>1. BoundBefore(new, i) = BoundBefore(old, i)
    BY <1>0 DEF BoundBefore
  <2>2. \A j \in BoundBefore(old, i) : new.code[j] = old.code[j]
    BY <1>0 DEF BoundBefore
  <2>3. new.defs = old.defs
    BY DEF Emits
  <2>4. /\ KnownBefore(Made(new), i) = {new.defs[k].id : k \in DOMAIN new.defs}
               \union {new.code[j].result : j \in BoundBefore(new, i)}
        /\ KnownBefore(Made(old), i) = {old.defs[k].id : k \in DOMAIN old.defs}
               \union {old.code[j].result : j \in BoundBefore(old, i)}
    BY KnownIs
  <2>5. QED BY <2>1, <2>2, <2>3, <2>4
<1>2. KnownTo(old) \subseteq KnownTo(new)
      /\ (instr.kind = "call" /\ instr.result # NoValue => instr.result \in KnownTo(new))
  <2> DEFINE C == BoundBefore(old, n + 1)
             D == BoundBefore(new, n + 2)
  <2>1. \A c \in C : c \in D /\ new.code[c] = old.code[c]
    BY <1>0 DEF BoundBefore
  <2>2. instr.kind = "call" /\ instr.result # NoValue => n + 1 \in D
    BY <1>0 DEF BoundBefore
  <2>3. new.defs = old.defs
    BY DEF Emits
  <2>4. KnownTo(old) = {old.defs[d].id : d \in DOMAIN old.defs} \union {old.code[j].result : j \in C}
    BY KnownToIs
  <2>5. KnownTo(new) = {new.defs[d].id : d \in DOMAIN new.defs} \union {new.code[j].result : j \in D}
    <3>1. Len(new.code) + 1 = n + 2
      BY <1>0
    <3>2. QED BY <3>1, KnownToIs
  <2> HIDE DEF C, D
  <2>6. QED BY <1>0, <2>1, <2>2, <2>3, <2>4, <2>5
<1>3. Observations(Made(new)) = IF instr.kind = "observe" THEN Observations(Made(old)) \union {n + 1}
                                ELSE Observations(Made(old))
  <2>1. \A j \in DOMAIN new.code : new.code[j].kind = "observe" <=>
            (j \in DOMAIN old.code /\ old.code[j].kind = "observe") \/ (j = n + 1 /\ instr.kind = "observe")
    BY <1>0
  <2>2. /\ Observations(Made(new)) = {j \in DOMAIN new.code : new.code[j].kind = "observe"}
        /\ Observations(Made(old)) = {j \in DOMAIN old.code : old.code[j].kind = "observe"}
    BY MadeIs, Zenon
  <2>3. n + 1 \in DOMAIN new.code /\ \A j \in DOMAIN old.code : j \in DOMAIN new.code
    BY <1>0
  <2>4. QED BY <2>1, <2>2, <2>3
<1>4. BitIds(Made(new)) = IF instr.kind = "observe" THEN BitIds(Made(old)) \union {instr.result}
                          ELSE BitIds(Made(old))
  <2>0. /\ BitIds(Made(new)) = {new.bits[b] : b \in DOMAIN new.bits}
        /\ BitIds(Made(old)) = {old.bits[b] : b \in DOMAIN old.bits}
    BY MadeIs, Zenon
  <2>1. CASE instr.kind = "observe"
    <3>1. new.bits = Append(old.bits, instr.result) /\ instr.result \in Ids(w)
      BY <1>0, <2>1 DEF Emits
    <3>2. old.bits \in Seq(Ids(w))
      BY FrameFacts
    <3>3. {new.bits[b] : b \in DOMAIN new.bits} = {old.bits[b] : b \in DOMAIN old.bits} \union {instr.result}
      BY <3>1, <3>2
    <3>4. QED BY <2>0, <2>1, <3>3
  <2>2. CASE instr.kind # "observe"
    <3>1. new.bits = old.bits
      BY <2>2 DEF Emits
    <3>2. QED BY <2>0, <2>2, <3>1
  <2>3. QED BY <2>1, <2>2
<1>5. ValuesDeclared(new)
  <2>1. CASE instr.kind = "observe"
    <3> DEFINE m == Len(old.bits)
    <3>1. /\ m \in Nat /\ DOMAIN old.bits = 1 .. m /\ DOMAIN new.bits = 1 .. m + 1
          /\ new.bits[m + 1] = instr.result /\ \A k \in 1 .. m : new.bits[k] = old.bits[k]
          /\ instr.result \in Ids(w)
          /\ \A k \in 1 .. m : old.bits[k] \in Ids(w)
      <4>1. new.bits = Append(old.bits, instr.result) /\ instr.result \in Ids(w)
        BY <1>0, <2>1 DEF Emits
      <4>2. old.bits \in Seq(Ids(w))
        BY FrameFacts
      <4>3. QED BY <4>1, <4>2
    <3>2. \A k \in 1 .. m : old.bits[k] # instr.result
      <4> SUFFICES ASSUME NEW k \in 1 .. m PROVE old.bits[k] # instr.result
        OBVIOUS
      <4>1. old.bits[k][3] < Reached(old) /\ instr.result[3] >= Reached(old)
        BY <2>1, <3>1 DEF PositionsGrow, Emits
      <4>2. old.bits[k][3] \in Nat /\ instr.result[3] \in Nat
        BY <3>1, IdFacts
      <4>3. QED BY <1>0, <4>1, <4>2
    <3>3. Injective(new.bits)
      <4>1. \A k, l \in 1 .. m : old.bits[k] = old.bits[l] => k = l
        BY <3>1 DEF ValuesDeclared, Injective
      <4>2. ASSUME NEW k \in 1 .. m + 1, NEW l \in 1 .. m + 1, new.bits[k] = new.bits[l]
            PROVE  k = l
        <5>1. CASE k \in 1 .. m /\ l \in 1 .. m
          BY <3>1, <4>1, <4>2, <5>1
        <5>2. CASE k = m + 1 /\ l \in 1 .. m
          BY <3>1, <3>2, <4>2, <5>2
        <5>3. CASE l = m + 1 /\ k \in 1 .. m
          BY <3>1, <3>2, <4>2, <5>3
        <5>4. QED BY <3>1, <5>1, <5>2, <5>3
      <4>3. QED BY <3>1, <4>2 DEF Injective
    <3>4. \A b \in DOMAIN new.bits :
             new.bits[b][2] \in {"observation-result", "discarded-observation-result"}
      BY <2>1, <3>1 DEF ValuesDeclared, Emits
    <3>5. QED BY <3>3, <3>4 DEF ValuesDeclared, Emits
  <2>2. CASE instr.kind # "observe"
    BY <2>2 DEF ValuesDeclared, Emits
  <2>3. QED BY <2>1, <2>2
<1>6. CodeDeclared(new)
  <2>1. Injective([i \in DOMAIN new.code |-> new.code[i].op])
    <3>1. \A k \in 1 .. n : old.code[k].op # instr.op
      <4> SUFFICES ASSUME NEW k \in 1 .. n PROVE old.code[k].op # instr.op
        OBVIOUS
      <4>1. old.code[k].op[3] < Reached(old) /\ instr.op[3] >= Reached(old)
        BY <1>0 DEF PositionsGrow, Emits
      <4>2. old.code[k].op[3] \in Nat /\ instr.op[3] \in Nat
        BY <1>0, IdFacts
      <4>3. QED BY <1>0, <4>1, <4>2
    <3>2. \A k, l \in 1 .. n : old.code[k].op = old.code[l].op => k = l
      BY <1>0 DEF CodeDeclared, Injective
    <3>3. ASSUME NEW k \in 1 .. n + 1, NEW l \in 1 .. n + 1, new.code[k].op = new.code[l].op
          PROVE  k = l
      <4>1. CASE k \in 1 .. n /\ l \in 1 .. n
        BY <1>0, <3>2, <3>3, <4>1
      <4>2. CASE k = n + 1 /\ l \in 1 .. n
        BY <1>0, <3>1, <3>3, <4>2
      <4>3. CASE l = n + 1 /\ k \in 1 .. n
        BY <1>0, <3>1, <3>3, <4>3
      <4>4. QED BY <1>0, <4>1, <4>2, <4>3
    <3>4. QED BY <1>0, <3>3 DEF Injective
  <2>2. ASSUME NEW i \in 1 .. n
        PROVE  InstructionDeclared(Made(new), i)
    <3>1. InstructionDeclared(Made(old), i)
      BY <1>0 DEF CodeDeclared, Made
    <3>2. Made(new).code[i] = old.code[i] /\ Made(old).code[i] = old.code[i]
      BY <1>0 DEF Made
    <3>3. KnownBefore(Made(new), i) = KnownBefore(Made(old), i)
      BY <1>0, <1>1
    <3>4. QED BY <1>4, <3>1, <3>2, <3>3 DEF InstructionDeclared
  <2>3. InstructionDeclared(Made(new), n + 1)
    <3>1. Made(new).code[n + 1] = instr
      BY <1>0 DEF Made
    <3>2. KnownBefore(Made(new), n + 1) = KnownTo(old)
      BY <1>0, <1>1 DEF KnownTo
    <3>3. instr.result \notin KnownTo(old)
      <4>1. CASE instr.result = NoValue
        <5>1. \A id \in KnownTo(old) : id \in Ids(w)
          BY <1>0, KnownGrows DEF KnownTo
        <5>2. QED BY <4>1, <5>1, NoIdIsNoValue
      <4>2. CASE instr.result # NoValue
        <5>1. \A id \in KnownTo(old) : id \in Ids(w) /\ id[3] < Reached(old)
          BY <1>0, KnownGrows DEF KnownTo
        <5>2. instr.result \in Ids(w) /\ instr.result[3] >= Reached(old)
          BY <1>0, <4>2 DEF Emits
        <5>3. QED BY <1>0, <5>1, <5>2, IdFacts
      <4>3. QED BY <4>1, <4>2
    <3>4. QED BY <1>4, <3>1, <3>2, <3>3 DEF InstructionDeclared, Emits
  <2>4. \A i, j \in Observations(Made(new)) : new.code[i].result = new.code[j].result => i = j
    <3>1. \A i, j \in Observations(Made(old)) : old.code[i].result = old.code[j].result => i = j
      BY DEF CodeDeclared
    <3>2. \A i \in Observations(Made(old)) : i \in 1 .. n /\ old.code[i].result \in BitIds(Made(old))
      BY <1>0, MadeIs DEF CodeDeclared
    <3>3. \A id \in BitIds(Made(old)) : id \in Ids(w) /\ id[3] < Reached(old)
      BY MadeIs, FrameFacts DEF PositionsGrow
    <3>4. CASE instr.kind = "observe"
      <4>1. instr.result \in Ids(w) /\ instr.result[3] >= Reached(old)
        BY <1>0, <3>4 DEF Emits
      <4>2. \A i \in Observations(Made(old)) : old.code[i].result # instr.result
        BY <1>0, <3>2, <3>3, <4>1, IdFacts
      <4>3. ASSUME NEW i \in Observations(Made(new)), NEW j \in Observations(Made(new)),
                   new.code[i].result = new.code[j].result
            PROVE  i = j
        <5>0. /\ i \in Observations(Made(old)) \/ i = n + 1
              /\ j \in Observations(Made(old)) \/ j = n + 1
          BY <1>3, <3>4
        <5>1. CASE i \in Observations(Made(old)) /\ j \in Observations(Made(old))
          BY <1>0, <3>1, <3>2, <4>3, <5>1
        <5>2. CASE i = n + 1 /\ j \in Observations(Made(old))
          BY <1>0, <3>2, <4>2, <4>3, <5>2
        <5>3. CASE j = n + 1 /\ i \in Observations(Made(old))
          BY <1>0, <3>2, <4>2, <4>3, <5>3
        <5>4. QED BY <5>0, <5>1, <5>2, <5>3
      <4>4. QED BY <4>3
    <3>5. CASE instr.kind # "observe"
      BY <1>0, <1>3, <3>1, <3>2, <3>5
    <3>6. QED BY <3>4, <3>5
  <2>5. BitIds(Made(new)) = {new.code[i].result : i \in Observations(Made(new))}
    <3>1. BitIds(Made(old)) = {old.code[i].result : i \in Observations(Made(old))}
      BY DEF CodeDeclared
    <3>2. \A i \in Observations(Made(old)) : i \in 1 .. n /\ new.code[i] = old.code[i]
      BY <1>0, MadeIs
    <3>3. CASE instr.kind = "observe"
      BY <1>0, <1>3, <1>4, <3>1, <3>2, <3>3, SMTT(30)
    <3>4. CASE instr.kind # "observe"
      BY <1>3, <1>4, <3>1, <3>2, <3>4
    <3>5. QED BY <3>3, <3>4
  <2>6. \A i \in DOMAIN new.code : InstructionDeclared(Made(new), i)
    BY <1>0, <2>2, <2>3
  <2>7. QED BY <2>1, <2>4, <2>5, <2>6 DEF CodeDeclared
<1>7. Keeps(old, new)
  BY <1>2, <1>4, <1>5, <1>6 DEF Keeps
<1>8. QED BY <1>2, <1>3, <1>4, <1>7

-----------------------------------------------------------------------------
(* Where names go back to, statement by statement.                         *)

-----------------------------------------------------------------------------
(* Where names go back to, statement by statement.                         *)

Tables(function) == [function.variables -> Nat \X Nat]

\* The tables after each statement.
OriginPath(function, n, path) ==
    /\ path[0] = Unassigned(function)
    /\ \A i \in 1 .. n : path[i] = Rebound(path[i - 1], function.body[i], i)

LEMMA UnassignedIsTable ==
    ASSUME NEW function, function.params \in Seq(function.variables)
    PROVE  Unassigned(function) \in Tables(function)
<1>1. ASSUME NEW n \in function.variables
      PROVE  (IF n \in ToSet(function.params)
              THEN CHOOSE k \in DOMAIN function.params : function.params[k] = n ELSE 0) \in Nat
  <2>1. n \in ToSet(function.params) => \E k \in DOMAIN function.params : function.params[k] = n
    BY DEF ToSet
  <2>2. DOMAIN function.params \subseteq Nat
    OBVIOUS
  <2>3. n \in ToSet(function.params) =>
            (CHOOSE k \in DOMAIN function.params : function.params[k] = n) \in DOMAIN function.params
    BY <2>1
  <2>4. QED BY <2>2, <2>3
<1>2. QED BY <1>1 DEF Unassigned, Tables

LEMMA ReboundIsTable ==
    ASSUME NEW function, NEW stmt, IsStatement(stmt, function.variables), NEW i \in Nat,
           NEW o \in Tables(function)
    PROVE  Rebound(o, stmt, i) \in Tables(function)
<1>1. CASE stmt.form = "assign"
  <2>1. Rebound(o, stmt, i) = [o EXCEPT ![stmt.target] = <<i, 0>>]
    BY <1>1 DEF Rebound
  <2>2. <<i, 0>> \in Nat \X Nat
    OBVIOUS
  <2>3. QED BY <2>1, <2>2 DEF Tables
<1>2. CASE stmt.form = "alias"
  <2>1. Rebound(o, stmt, i) = [o EXCEPT ![stmt.target] = o[stmt.args[1]]]
    BY <1>2 DEF Rebound
  <2>2. stmt.args[1] \in function.variables
    BY <1>2 DEF IsStatement
  <2>3. QED BY <2>1, <2>2 DEF Tables
<1>3. CASE stmt.form \notin {"assign", "alias"}
  BY <1>3 DEF Rebound
<1>4. QED BY <1>1, <1>2, <1>3

\* The model's fold gives the last table.
LEMMA OriginsIs ==
    ASSUME NEW function, function.params \in Seq(function.variables),
           NEW n \in Nat, DOMAIN function.body = 1 .. n, Len(function.body) = n,
           \A i \in 1 .. n : IsStatement(function.body[i], function.variables),
           NEW path, OriginPath(function, n, path)
    PROVE  Origins(function) = path[n]
<1> DEFINE T == Tables(function)
           base == Unassigned(function)
           choice == [s \in SUBSET (1 .. n) |-> Max(s)]
           step == [i \in 1 .. n |-> [o \in T |-> Rebound(o, function.body[i], i)]]
           Next(g) == [s \in SUBSET (1 .. n) |->
                          IF s = {} THEN base
                          ELSE LET i == Max(s) IN Rebound(g[s \ {i}], function.body[i], i)]
           h == CHOOSE g : g = Next(g)
<1>0. base \in T
  BY UnassignedIsTable
<1>2. Origins(function) = h[1 .. n]
  <2> DEFINE Folded(g) == [s \in SUBSET (1 .. n) |->
                              IF s = {} THEN base
                              ELSE LET i == Max(s)
                                   IN  Rebound(g[s \ {i}], function.body[[j \in 1 .. n |-> j][i]],
                                               [j \in 1 .. n |-> j][i])]
  <2>1. Origins(function) = (CHOOSE g : g = Folded(g))[1 .. n]
    BY DEF Origins, FoldLeftDomain, FoldLeft, MapThenFoldSet
  <2>2. ASSUME NEW g PROVE Folded(g) = Next(g)
    <3>1. ASSUME NEW s \in SUBSET (1 .. n), s # {} PROVE [j \in 1 .. n |-> j][Max(s)] = Max(s)
      BY <3>1, PrefixFacts DEF Chooses
    <3>2. ASSUME NEW s \in SUBSET (1 .. n) PROVE Folded(g)[s] = Next(g)[s]
      BY <3>1
    <3>3. QED BY <3>2
  <2> HIDE DEF Folded, Next
  <2>3. (CHOOSE g : g = Folded(g)) = (CHOOSE g : g = Next(g))
    BY <2>2
  <2>4. QED BY <2>1, <2>3
<1>3. \E g : g = Next(g)
  <2>0. \A i \in 1 .. n, o \in T : Rebound(o, function.body[i], i) \in T
    BY ReboundIsTable
  <2>1. step \in [1 .. n -> [T -> T]]
    BY <2>0
  <2>a. Chooses(choice, 1 .. n)
    BY PrefixFacts
  <2>b. IsFiniteSet(1 .. n)
    BY FS_Interval
  <2>3. PICK g \in [SUBSET (1 .. n) -> T] : FoldsTo(g, 1 .. n, choice, base, step)
    <3> HIDE DEF step, choice, base, T
    <3>1. QED BY <1>0, <2>1, <2>a, <2>b, FoldHasSolution
  <2>4. ASSUME NEW s \in SUBSET (1 .. n) PROVE g[s] = Next(g)[s]
    <3>1. s # {} => Max(s) \in 1 .. n
      BY <2>a DEF Chooses
    <3>2. s # {} => g[s] = step[Max(s)][g[s \ {Max(s)}]]
      BY <2>3 DEF FoldsTo
    <3>3. s # {} => g[s] = Rebound(g[s \ {Max(s)}], function.body[Max(s)], Max(s))
      BY <3>1, <3>2
    <3>4. s = {} => g[s] = base
      BY <2>3 DEF FoldsTo
    <3>5. QED BY <3>3, <3>4
  <2>5. g = Next(g)
    BY <2>4
  <2>6. QED BY <2>5
<1>4. h = Next(h)
  BY <1>3
<1> HIDE DEF h
<1>5. h[1 .. 0] = path[0]
  <2>1. 1 .. 0 = {} /\ {} \in SUBSET (1 .. n)
    OBVIOUS
  <2>2. h[{}] = base
    BY <1>4
  <2>3. QED BY <2>1, <2>2 DEF OriginPath
<1>6. ASSUME NEW i \in 1 .. n, h[1 .. i - 1] = path[i - 1] PROVE h[1 .. i] = path[i]
  <2>1. /\ Max(1 .. i) = i /\ (1 .. i) \ {i} = 1 .. i - 1 /\ 1 .. i # {}
        /\ 1 .. i \in SUBSET (1 .. n)
    BY PrefixFacts
  <2>2. h[1 .. i] = Rebound(h[1 .. i - 1], function.body[i], i)
    BY <1>4, <2>1
  <2>3. path[i] = Rebound(path[i - 1], function.body[i], i)
    BY DEF OriginPath
  <2>4. QED BY <1>6, <2>2, <2>3
<1>7. SameSteps(h, path, n)
  BY <1>5, <1>6 DEF SameSteps
<1>8. QED BY <1>2, <1>7, PrefixesAgree

\* One statement further.
LEMMA OriginsAdvance ==
    ASSUME NEW w \in Worlds, NEW f \in DOMAIN w.functions
    PROVE  LET function == w.functions[f]
               n == Len(Body(w, f))
           IN  /\ OriginsAfter(function, 0) = Unassigned(function)
               /\ OriginsAfter(function, n) = Origins(function)
               /\ \A k \in 0 .. n : OriginsAfter(function, k) \in Tables(function)
               /\ \A k \in 1 .. n : OriginsAfter(function, k)
                      = Rebound(OriginsAfter(function, k - 1), Body(w, f)[k], k)
<1> DEFINE function == w.functions[f]
           n == Len(Body(w, f))
           T == Tables(function)
           base == Unassigned(function)
           step == [i \in 1 .. n |-> [o \in T |-> Rebound(o, function.body[i], i)]]
           cut(k) == [params |-> function.params, variables |-> function.variables,
                      body |-> SubSeq(function.body, 1, k)]
<1>0. /\ function.params \in Seq(function.variables) /\ n \in Nat
      /\ function.body \in Seq(ToSet(function.body)) /\ function.body = Body(w, f)
      /\ DOMAIN function.body = 1 .. n /\ Len(function.body) = n
      /\ \A i \in 1 .. n : IsStatement(function.body[i], function.variables)
  BY WorldFacts
<1>1. base \in T
  BY <1>0, UnassignedIsTable
<1>2. \A i \in 1 .. n, o \in T : Rebound(o, function.body[i], i) \in T
  BY <1>0, ReboundIsTable
<1>3. step \in [1 .. n -> [T -> T]] /\ \A i \in 1 .. n : \A o \in T : step[i][o] = Rebound(o, function.body[i], i)
  BY <1>2
<1>4. PICK path \in [0 .. n -> T] : Advances(path, n, base, step)
  <2> HIDE DEF step, base, T, n
  <2>1. QED BY <1>0, <1>1, <1>3, PrefixValues
<1> HIDE DEF step
<1>5. OriginPath(function, n, path)
  <2>1. ASSUME NEW i \in 1 .. n PROVE path[i] = Rebound(path[i - 1], function.body[i], i)
    <3>1. path[i - 1] \in T
      BY <1>0
    <3>2. path[i] = step[i][path[i - 1]]
      BY <1>4 DEF Advances
    <3>3. QED BY <1>3, <3>1, <3>2
  <2>2. QED BY <1>4, <2>1 DEF Advances, OriginPath
<1>6. Origins(function) = path[n]
  BY <1>0, <1>5, OriginsIs
<1>7. ASSUME NEW k \in 0 .. n PROVE OriginsAfter(function, k) = path[k]
  <2>1. /\ k \in Nat /\ Len(SubSeq(function.body, 1, k)) = k
        /\ DOMAIN SubSeq(function.body, 1, k) = 1 .. k
        /\ \A i \in 1 .. k : SubSeq(function.body, 1, k)[i] = function.body[i] /\ i \in 1 .. n
    BY <1>0, SMTT(30)
  <2>2. /\ cut(k).params = function.params /\ cut(k).variables = function.variables
        /\ cut(k).body = SubSeq(function.body, 1, k)
    OBVIOUS
  <2>3. Unassigned(cut(k)) = Unassigned(function)
    BY <2>2 DEF Unassigned
  <2>4. OriginPath(cut(k), k, path)
    BY <1>5, <2>1, <2>2, <2>3 DEF OriginPath
  <2> HIDE DEF cut
  <2>5. Origins(cut(k)) = path[k]
    BY <1>0, <2>1, <2>2, <2>4, OriginsIs
  <2>6. QED BY <2>5 DEF OriginsAfter, cut
<1>8. path[0] = base /\ path[n] \in T
  BY <1>0, <1>5 DEF OriginPath
<1>9. ASSUME NEW k \in 1 .. n
      PROVE  OriginsAfter(function, k) = Rebound(OriginsAfter(function, k - 1), Body(w, f)[k], k)
  <2>1. k \in 0 .. n /\ k - 1 \in 0 .. n
    BY <1>0
  <2>2. QED BY <1>0, <1>5, <1>7, <2>1 DEF OriginPath
<1>10. n \in 0 .. n /\ 0 \in 0 .. n
  BY <1>0
<1>11. QED BY <1>0, <1>6, <1>7, <1>8, <1>9, <1>10

\* What a statement makes of a name.
LEMMA ReboundFacts ==
    ASSUME NEW w \in Worlds, NEW f \in DOMAIN w.functions, NEW k \in DOMAIN Body(w, f)
    PROVE  LET function == w.functions[f]
               stmt == Body(w, f)[k]
               before == OriginsAfter(function, k - 1)
               after == OriginsAfter(function, k)
           IN  \A n \in function.variables :
                  after[n] = CASE stmt.form = "assign" /\ n = stmt.target -> <<k, 0>>
                               [] stmt.form = "alias" /\ n = stmt.target -> before[stmt.args[1]]
                               [] OTHER -> before[n]
<1> DEFINE function == w.functions[f]
           stmt == Body(w, f)[k]
           before == OriginsAfter(function, k - 1)
           after == OriginsAfter(function, k)
<1>1. k \in 1 .. Len(Body(w, f)) /\ k - 1 \in 0 .. Len(Body(w, f))
  BY WorldFacts
<1>2. after = Rebound(before, stmt, k) /\ before \in Tables(function)
  BY <1>1, OriginsAdvance
<1> HIDE DEF before, after, stmt
<1>3. ASSUME stmt.form = "assign", NEW n \in function.variables
      PROVE  after[n] = IF n = stmt.target THEN <<k, 0>> ELSE before[n]
  <2>1. after = [before EXCEPT ![stmt.target] = <<k, 0>>]
    BY <1>2, <1>3 DEF Rebound
  <2>2. QED BY <1>2, <2>1 DEF Tables
<1>4. ASSUME stmt.form = "alias", NEW n \in function.variables
      PROVE  after[n] = IF n = stmt.target THEN before[stmt.args[1]] ELSE before[n]
  <2>1. after = [before EXCEPT ![stmt.target] = before[stmt.args[1]]]
    BY <1>2, <1>4 DEF Rebound
  <2>2. QED BY <1>2, <2>1 DEF Tables
<1>5. ASSUME stmt.form \notin {"assign", "alias"}
      PROVE  after = before
  BY <1>2, <1>5 DEF Rebound
<1>6. QED BY <1>3, <1>4, <1>5 DEF before, after, stmt

-----------------------------------------------------------------------------
(* A statement moves the capture on.                                       *)

-----------------------------------------------------------------------------
(* From one statement to the next.                                         *)

\* The capture goes on to the next statement of its function.
GoesOn(old, new) ==
    /\ new.fn = old.fn /\ new.pc = old.pc + 1 /\ new.params = old.params
    /\ old.leaves = <<>> /\ new.leaves = <<>>
    /\ new.asBit = old.asBit /\ new.asQubit = old.asQubit

\* A name is bound to the value that an assignment makes or an alias copies.
BindsName(w, old, new, target, value) ==
    LET stmt == Body(w, old.fn)[old.pc]
    IN  /\ target \in w.functions[old.fn].variables \ DOMAIN old.names /\ target = stmt.target
        /\ new.names = [n \in DOMAIN old.names \union {target} |->
                          IF n = target THEN value ELSE old.names[n]]
        /\ \/ /\ stmt.form = "assign"
              /\ \E column \in {TargetColumn, CallColumn} : value.id[3] = Position(old.pc, column)
           \/ /\ stmt.form = "alias" /\ stmt.args[1] \in DOMAIN old.names
              /\ value = old.names[stmt.args[1]]
        /\ IF value.quantum THEN value.id \in KnownTo(new) ELSE value.id \in BitIds(Made(new))

NamesMove(w, old, new) ==
    \/ /\ new.names = old.names
       /\ Body(w, old.fn)[old.pc].form \notin {"assign", "alias"}
    \/ \E target \in Variables(w) : \E value \in Values(w) : BindsName(w, old, new, target, value)

\* Something that the statement makes.
MadeHere(old, id) == \E column \in {TargetColumn, CallColumn} : id[3] = Position(old.pc, column)

DefsMove(w, old, new) ==
    \/ new.defs = old.defs
    \/ \E d \in Definitions(w) : new.defs = Append(old.defs, d) /\ MadeHere(old, d.id)

BitsMove(w, old, new) ==
    \/ new.bits = old.bits
    \/ \E b \in Ids(w) : new.bits = Append(old.bits, b) /\ MadeHere(old, b)

OperandsWritten(w, old, instr) ==
    /\ Line(instr) = old.pc
    /\ LET names == Written(Body(w, old.fn), instr)
       IN  \A r \in DOMAIN names :
              names[r] \in DOMAIN old.names /\ instr.refs[r] = old.names[names[r]].id

CallFits(w, ps, ow, f, instr) ==
    instr.kind = "call" =>
        /\ CallResolved([programs |-> ps], instr)
        /\ Observations(ps[instr.callee]) = {}
        /\ ow[instr.callee] = MeaningIn(w, Body(w, f)[Line(instr)])

CodeMoves(w, ps, ow, old, new) ==
    \/ new.code = old.code
    \/ \E instr \in Instructions(w) :
          /\ new.code = Append(old.code, instr)
          /\ MadeHere(old, instr.op) /\ (instr.result # NoValue => MadeHere(old, instr.result))
          /\ instr.kind = "observe" => instr.op[2] = "explicit-observation"
          /\ OperandsWritten(w, old, instr) /\ CallFits(w, ps, ow, old.fn, instr)

LEMMA StatementPositions ==
    ASSUME NEW w \in Worlds, NEW old \in CaptureFrames(w), PositionsGrow(w, old),
           NEW new \in CaptureFrames(w), GoesOn(old, new)
    PROVE  /\ old.pc \in Nat \ {0} /\ Reached(old) \in Nat /\ Reached(new) \in Nat
           /\ Position(old.pc, 0) \in Nat /\ Position(new.pc, 0) \in Nat
           /\ Position(old.pc, 0) <= Reached(old) /\ Reached(old) < Position(new.pc, 0)
           /\ Position(new.pc, 0) <= Reached(new)
           /\ \A id : MadeHere(old, id) =>
                 /\ id[3] \in Nat /\ Reached(old) <= id[3] /\ id[3] < Position(new.pc, 0)
                 /\ OriginAt(id[3]) = <<old.pc, 0>>
<1>1. old.pc \in Nat \ {0} /\ new.pc = old.pc + 1 /\ new.pc \in Nat
  BY FrameFacts DEF PositionsGrow, GoesOn
<1>2. Reached(old) = Position(old.pc, 1) /\ Reached(new) = Position(new.pc, 1)
  BY DEF Reached, GoesOn
<1>3. LineWidth \in Nat /\ 1 < LineWidth /\ 2 < LineWidth /\ TargetColumn = 1 /\ CallColumn = 2
  BY LinesAreWideEnough DEF TargetColumn, CallColumn
<1>4. /\ Position(old.pc, 0) \in Nat /\ Position(old.pc, 1) = Position(old.pc, 0) + 1
      /\ Position(old.pc, 2) = Position(old.pc, 0) + 2
      /\ Position(new.pc, 0) \in Nat /\ Position(new.pc, 1) = Position(new.pc, 0) + 1
  BY <1>1, <1>3 DEF Position
<1>5. \A c \in {1, 2} : Position(old.pc, c) < Position(new.pc, 0) /\ Position(old.pc, c) \div LineWidth = old.pc
  <2> DEFINE k == old.pc
             m == new.pc
  <2>1. k \in Nat \ {0} /\ m = k + 1 /\ m \in Nat
    BY <1>1
  <2> HIDE DEF k, m
  <2>2. ASSUME NEW c \in {1, 2}
        PROVE  Position(k, c) < Position(m, 0) /\ Position(k, c) \div LineWidth = k
    BY <1>3, <2>1, PositionFacts
  <2>3. QED BY <2>2 DEF k, m
<1>6. ASSUME NEW id, MadeHere(old, id)
      PROVE  /\ id[3] \in Nat /\ Reached(old) <= id[3] /\ id[3] < Position(new.pc, 0)
             /\ OriginAt(id[3]) = <<old.pc, 0>>
  <2>1. PICK c \in {1, 2} : id[3] = Position(old.pc, c)
    BY <1>3, <1>6 DEF MadeHere
  <2>2. id[3] \div LineWidth = old.pc /\ id[3] < Position(new.pc, 0)
    BY <1>5, <2>1
  <2>3. OriginAt(id[3]) = <<old.pc, 0>>
    BY <1>1, <2>2 DEF OriginAt
  <2>4. id[3] \in Nat /\ Reached(old) <= id[3]
    BY <1>2, <1>4, <2>1
  <2>5. QED BY <2>2, <2>3, <2>4
<1>7. QED BY <1>1, <1>2, <1>4, <1>5, <1>6

\* What has grown by one element.
LEMMA Appended ==
    ASSUME NEW S, NEW s \in Seq(S), NEW e \in S
    PROVE  /\ Len(s) \in Nat /\ DOMAIN s = 1 .. Len(s)
           /\ DOMAIN Append(s, e) = 1 .. Len(s) + 1 /\ Len(Append(s, e)) = Len(s) + 1
           /\ Append(s, e)[Len(s) + 1] = e
           /\ \A i \in 1 .. Len(s) : Append(s, e)[i] = s[i]
           /\ \A i \in DOMAIN Append(s, e) :
                 (i \in DOMAIN s /\ Append(s, e)[i] = s[i]) \/ (i = Len(s) + 1 /\ Append(s, e)[i] = e)
<1> DEFINE n == Len(s)
           t == Append(s, e)
<1>1. n \in Nat /\ DOMAIN s = 1 .. n
  OBVIOUS
<1>2. DOMAIN t = 1 .. n + 1 /\ Len(t) = n + 1
  OBVIOUS
<1>3. t[n + 1] = e /\ \A i \in 1 .. n : t[i] = s[i]
  OBVIOUS
<1> HIDE DEF n, t
<1>4. \A i \in 1 .. n + 1 : i \in 1 .. n \/ i = n + 1
  BY <1>1
<1>5. \A i \in 1 .. n + 1 : (i \in 1 .. n /\ t[i] = s[i]) \/ (i = n + 1 /\ t[i] = e)
  BY <1>3, <1>4
<1>6. QED BY <1>1, <1>2, <1>3, <1>5 DEF n, t

LEMMA PositionsAdvance ==
    ASSUME NEW w \in Worlds, NEW old \in CaptureFrames(w), PositionsGrow(w, old),
           NEW new \in CaptureFrames(w), GoesOn(old, new), old.pc \in DOMAIN Body(w, old.fn),
           NamesMove(w, old, new), DefsMove(w, old, new), BitsMove(w, old, new),
           NEW ps, NEW ow, CodeMoves(w, ps, ow, old, new)
    PROVE  PositionsGrow(w, new)
<1> DEFINE P == Position(old.pc, 0)
           Q == Position(new.pc, 0)
           R == Reached(old)
           N == Reached(new)
<1>0. /\ P \in Nat /\ Q \in Nat /\ R \in Nat /\ N \in Nat /\ P <= R /\ R < Q /\ Q <= N
      /\ \A id : MadeHere(old, id) => id[3] \in Nat /\ id[3] < Q
  BY StatementPositions
<1>1. ASSUME NEW n \in DOMAIN new.names PROVE new.names[n].id[3] < Q
  <2>0. \A m \in DOMAIN old.names : old.names[m].id[3] \in Nat /\ old.names[m].id[3] < P
    <3>1. \A m \in DOMAIN old.names : old.names[m].id \in Ids(w)
      BY FrameFacts DEF Values
    <3>2. QED BY <3>1, IdFacts DEF PositionsGrow
  <2>1. CASE new.names = old.names
    BY <1>0, <2>0, <2>1
  <2>2. ASSUME NEW target \in Variables(w), NEW value \in Values(w), BindsName(w, old, new, target, value)
        PROVE  new.names[n].id[3] < Q
    <3>1. new.names = [m \in DOMAIN old.names \union {target} |-> IF m = target THEN value ELSE old.names[m]]
      BY <2>2 DEF BindsName
    <3>2. CASE n = target
      <4>1. new.names[n] = value
        BY <3>1, <3>2
      <4>2. MadeHere(old, value.id) \/ \E m \in DOMAIN old.names : value = old.names[m]
        BY <2>2 DEF BindsName, MadeHere
      <4>3. QED BY <1>0, <2>0, <4>1, <4>2
    <3>3. CASE n # target
      BY <1>0, <2>0, <3>1, <3>3
    <3>4. QED BY <3>2, <3>3
  <2>3. QED BY <2>1, <2>2 DEF NamesMove
<1>2. ASSUME NEW d \in DOMAIN new.defs PROVE new.defs[d].id[3] < N
  <2>0. \A e \in DOMAIN old.defs : old.defs[e].id[3] \in Nat /\ old.defs[e].id[3] < R
    BY FrameFacts, IdFacts DEF PositionsGrow
  <2>1. CASE new.defs = old.defs
    BY <1>0, <2>0, <2>1
  <2>2. ASSUME NEW e \in Definitions(w), new.defs = Append(old.defs, e), MadeHere(old, e.id)
        PROVE  new.defs[d].id[3] < N
    <3>1. (d \in DOMAIN old.defs /\ new.defs[d] = old.defs[d]) \/ new.defs[d] = e
      BY <2>2, FrameFacts, Appended
    <3>2. QED BY <1>0, <2>0, <2>2, <3>1
  <2>3. QED BY <2>1, <2>2 DEF DefsMove
<1>3. ASSUME NEW b \in DOMAIN new.bits PROVE new.bits[b][3] < N
  <2>0. \A e \in DOMAIN old.bits : old.bits[e][3] \in Nat /\ old.bits[e][3] < R
    BY FrameFacts, IdFacts DEF PositionsGrow
  <2>1. CASE new.bits = old.bits
    BY <1>0, <2>0, <2>1
  <2>2. ASSUME NEW e \in Ids(w), new.bits = Append(old.bits, e), MadeHere(old, e)
        PROVE  new.bits[b][3] < N
    <3>1. (b \in DOMAIN old.bits /\ new.bits[b] = old.bits[b]) \/ new.bits[b] = e
      BY <2>2, FrameFacts, Appended
    <3>2. QED BY <1>0, <2>0, <2>2, <3>1
  <2>3. QED BY <2>1, <2>2 DEF BitsMove
<1>4. ASSUME NEW i \in DOMAIN new.code
      PROVE  new.code[i].op[3] < N /\ (new.code[i].result # NoValue => new.code[i].result[3] < N)
  <2>0. \A e \in DOMAIN old.code :
           /\ old.code[e].op[3] \in Nat /\ old.code[e].op[3] < R
           /\ old.code[e].result # NoValue => old.code[e].result[3] \in Nat /\ old.code[e].result[3] < R
    <3>1. \A e \in DOMAIN old.code : old.code[e].op \in Ids(w) /\ old.code[e].result \in Ids(w) \union {NoValue}
      BY FrameFacts DEF Instructions
    <3>2. QED BY <3>1, IdFacts DEF PositionsGrow
  <2>1. CASE new.code = old.code
    BY <1>0, <2>0, <2>1
  <2>2. ASSUME NEW e \in Instructions(w), new.code = Append(old.code, e), MadeHere(old, e.op),
               e.result # NoValue => MadeHere(old, e.result)
        PROVE  new.code[i].op[3] < N /\ (new.code[i].result # NoValue => new.code[i].result[3] < N)
    <3>1. (i \in DOMAIN old.code /\ new.code[i] = old.code[i]) \/ new.code[i] = e
      BY <2>2, FrameFacts, Appended
    <3>2. CASE i \in DOMAIN old.code /\ new.code[i] = old.code[i]
      BY <1>0, <2>0, <3>2
    <3>3. CASE new.code[i] = e
      BY <1>0, <2>2, <3>3
    <3>4. QED BY <3>1, <3>2, <3>3
  <2>3. QED BY <2>1, <2>2 DEF CodeMoves
<1>5. new.pc \in 1 .. Len(Body(w, new.fn)) + 1
  BY WorldFacts, FrameFacts DEF GoesOn
<1>6. QED BY <1>1, <1>2, <1>3, <1>4, <1>5 DEF PositionsGrow

LEMMA NamesAdvance ==
    ASSUME NEW w \in Worlds, NEW old \in CaptureFrames(w), PositionsGrow(w, old),
           NEW new \in CaptureFrames(w), GoesOn(old, new), old.pc \in DOMAIN Body(w, old.fn),
           NamesGoBack(w, old), NamesMove(w, old, new)
    PROVE  NamesGoBack(w, new)
<1> DEFINE function == w.functions[old.fn]
           stmt == Body(w, old.fn)[old.pc]
           before == OriginsAfter(function, old.pc - 1)
           after == OriginsAfter(function, old.pc)
           at(value) == OriginAt(value.id[3])
<1>0. /\ old.pc \in Nat \ {0} /\ new.fn = old.fn /\ new.pc - 1 = old.pc /\ old.fn \in DOMAIN w.functions
      /\ \A id : MadeHere(old, id) => OriginAt(id[3]) = <<old.pc, 0>>
  BY StatementPositions, FrameFacts DEF GoesOn
<1>1. \A n \in function.variables :
         after[n] = CASE stmt.form = "assign" /\ n = stmt.target -> <<old.pc, 0>>
                      [] stmt.form = "alias" /\ n = stmt.target -> before[stmt.args[1]]
                      [] OTHER -> before[n]
  BY <1>0, ReboundFacts
<1>2. \A n \in DOMAIN old.names : n \in function.variables /\ before[n] = at(old.names[n])
  BY DEF NamesGoBack
<1>3. \A n \in DOMAIN old.names : at(old.names[n]) # <<old.pc, 0>>
  <2> SUFFICES ASSUME NEW n \in DOMAIN old.names PROVE at(old.names[n]) # <<old.pc, 0>>
    OBVIOUS
  <2>1. old.names[n].id \in Ids(w)
    BY FrameFacts DEF Values
  <2>2. old.names[n].id[3] \in Nat /\ old.names[n].id[3] < Position(old.pc, 0)
    BY <2>1, IdFacts DEF PositionsGrow
  <2>3. old.names[n].id[3] \div LineWidth \in Nat /\ old.names[n].id[3] \div LineWidth < old.pc
    BY <1>0, <2>2, EarlierLine
  <2>4. QED BY <1>0, <2>3 DEF OriginAt
<1>4. \A m, n \in DOMAIN old.names : at(old.names[m]) = at(old.names[n]) => old.names[m].id = old.names[n].id
  BY DEF NamesGoBack
<1> HIDE DEF before, after, at
<1>5. CASE new.names = old.names /\ stmt.form \notin {"assign", "alias"}
  <2>1. \A n \in DOMAIN new.names : n \in function.variables /\ after[n] = at(new.names[n])
    BY <1>1, <1>2, <1>5
  <2>2. QED BY <1>0, <1>4, <1>5, <2>1 DEF NamesGoBack, before, after, at
<1>6. ASSUME NEW target \in Variables(w), NEW value \in Values(w), BindsName(w, old, new, target, value)
      PROVE  NamesGoBack(w, new)
  <2>1. /\ target \in function.variables \ DOMAIN old.names /\ target = stmt.target
        /\ DOMAIN new.names = DOMAIN old.names \union {target} /\ new.names[target] = value
        /\ \A n \in DOMAIN old.names : n # target /\ new.names[n] = old.names[n]
    BY <1>6 DEF BindsName
  <2>2. /\ stmt.form \in {"assign", "alias"}
        /\ stmt.form = "assign" => at(value) = <<old.pc, 0>>
        /\ stmt.form = "alias" => stmt.args[1] \in DOMAIN old.names /\ value = old.names[stmt.args[1]]
    BY <1>0, <1>6 DEF BindsName, MadeHere, at
  <2>3. \A n \in DOMAIN new.names : n \in function.variables /\ after[n] = at(new.names[n])
    <3> SUFFICES ASSUME NEW n \in DOMAIN new.names
                 PROVE  n \in function.variables /\ after[n] = at(new.names[n])
      OBVIOUS
    <3>1. CASE n \in DOMAIN old.names
      BY <1>1, <1>2, <2>1, <2>2, <3>1
    <3>2. CASE n = target
      BY <1>1, <1>2, <2>1, <2>2, <3>2
    <3>3. QED BY <2>1, <3>1, <3>2
  <2>4. \A m, n \in DOMAIN new.names : at(new.names[m]) = at(new.names[n]) => new.names[m].id = new.names[n].id
    <3>1. CASE stmt.form = "assign"
      BY <1>3, <1>4, <2>1, <2>2, <3>1
    <3>2. CASE stmt.form = "alias"
      BY <1>4, <2>1, <2>2, <3>2
    <3>3. QED BY <2>2, <3>1, <3>2
  <2>5. QED BY <1>0, <2>3, <2>4 DEF NamesGoBack, before, after, at
<1>7. QED BY <1>5, <1>6 DEF NamesMove

\* Names keep what they were bound to, whatever else is bound.
LEMMA NamesStay ==
    ASSUME NEW w, NEW old, NEW new, NamesMove(w, old, new)
    PROVE  \A n \in DOMAIN old.names : n \in DOMAIN new.names /\ new.names[n] = old.names[n]
<1>1. CASE new.names = old.names
  BY <1>1
<1>2. ASSUME NEW target, NEW value, BindsName(w, old, new, target, value)
      PROVE  \A n \in DOMAIN old.names : n \in DOMAIN new.names /\ new.names[n] = old.names[n]
  <2>1. target \notin DOMAIN old.names
        /\ new.names = [n \in DOMAIN old.names \union {target} |-> IF n = target THEN value ELSE old.names[n]]
    BY <1>2 DEF BindsName
  <2>2. QED BY <2>1
<1>3. QED BY <1>1, <1>2 DEF NamesMove

LEMMA OperandsAdvance ==
    ASSUME NEW w \in Worlds, NEW old \in CaptureFrames(w), NEW new \in CaptureFrames(w),
           new.fn = old.fn, old.pc \in DOMAIN Body(w, old.fn), NamesMove(w, old, new),
           NEW ps, NEW ow, CodeMoves(w, ps, ow, old, new), OperandsNamed(w, old)
    PROVE  OperandsNamed(w, new)
<1> DEFINE body == Body(w, old.fn)
           Fits(frame, instr) ==
               /\ Line(instr) \in 1 .. Len(body)
               /\ \A r \in DOMAIN Written(body, instr) :
                     /\ Written(body, instr)[r] \in DOMAIN frame.names
                     /\ instr.refs[r] = frame.names[Written(body, instr)[r]].id
<1>1. \A n \in DOMAIN old.names : n \in DOMAIN new.names /\ new.names[n] = old.names[n]
  BY NamesStay
<1>2. ASSUME NEW i \in DOMAIN old.code PROVE Fits(new, old.code[i])
  <2>1. Fits(old, old.code[i])
    BY DEF OperandsNamed
  <2>2. QED BY <1>1, <2>1
<1>3. ASSUME NEW e, Line(e) = old.pc, OperandsWritten(w, old, e) PROVE Fits(new, e)
  <2>1. old.pc \in 1 .. Len(body)
    BY WorldFacts, FrameFacts
  <2>2. Fits(old, e)
    BY <1>3, <2>1 DEF OperandsWritten
  <2>3. QED BY <1>1, <2>2
<1>4. ASSUME NEW i \in DOMAIN new.code PROVE Fits(new, new.code[i])
  <2>1. CASE new.code = old.code
    BY <1>2, <2>1
  <2>2. ASSUME NEW e \in Instructions(w), new.code = Append(old.code, e), OperandsWritten(w, old, e)
        PROVE  Fits(new, new.code[i])
    <3>1. (i \in DOMAIN old.code /\ new.code[i] = old.code[i]) \/ new.code[i] = e
      BY <2>2, FrameFacts, Appended
    <3>2. Fits(new, e)
      BY <1>3, <2>2 DEF OperandsWritten
    <3> HIDE DEF Fits
    <3>3. QED BY <1>2, <3>1, <3>2
  <2> HIDE DEF Fits
  <2>3. QED BY <2>1, <2>2 DEF CodeMoves
<1>5. QED BY <1>4 DEF OperandsNamed

LEMMA CallsAdvance ==
    ASSUME NEW w \in Worlds, NEW old \in CaptureFrames(w), NEW new \in CaptureFrames(w),
           new.fn = old.fn, NEW ps, NEW ow, CodeMoves(w, ps, ow, old, new),
           CallsFit(w, ps, ow, old.fn, old.code)
    PROVE  CallsFit(w, ps, ow, new.fn, new.code)
<1>1. \A i \in DOMAIN old.code : CallFits(w, ps, ow, old.fn, old.code[i])
  BY DEF CallsFit, CallFits
<1>2. ASSUME NEW i \in DOMAIN new.code PROVE CallFits(w, ps, ow, old.fn, new.code[i])
  <2>1. CASE new.code = old.code
    BY <1>1, <2>1
  <2>2. ASSUME NEW e \in Instructions(w), new.code = Append(old.code, e), CallFits(w, ps, ow, old.fn, e)
        PROVE  CallFits(w, ps, ow, old.fn, new.code[i])
    <3>1. (i \in DOMAIN old.code /\ new.code[i] = old.code[i]) \/ new.code[i] = e
      BY <2>2, FrameFacts, Appended
    <3>2. QED BY <1>1, <2>2, <3>1
  <2>3. QED BY <2>1, <2>2 DEF CodeMoves
<1>3. QED BY <1>2 DEF CallsFit, CallFits

LEMMA NamesDeclaredAdvance ==
    ASSUME NEW w, NEW old, NEW new, NamesMove(w, old, new), NamesDeclared(old), Keeps(old, new)
    PROVE  NamesDeclared(new)
<1>1. KnownTo(old) \subseteq KnownTo(new) /\ BitIds(Made(old)) \subseteq BitIds(Made(new))
  BY DEF Keeps
<1>2. CASE new.names = old.names
  BY <1>1, <1>2 DEF NamesDeclared
<1>3. ASSUME NEW target, NEW value, BindsName(w, old, new, target, value)
      PROVE  NamesDeclared(new)
  <2>1. /\ new.names = [n \in DOMAIN old.names \union {target} |-> IF n = target THEN value ELSE old.names[n]]
        /\ IF value.quantum THEN value.id \in KnownTo(new) ELSE value.id \in BitIds(Made(new))
    BY <1>3 DEF BindsName
  <2>2. ASSUME NEW n \in DOMAIN new.names
        PROVE  IF new.names[n].quantum THEN new.names[n].id \in KnownTo(new)
               ELSE new.names[n].id \in BitIds(Made(new))
    <3>1. CASE n = target
      BY <2>1, <3>1
    <3>2. CASE n # target
      <4>1. n \in DOMAIN old.names /\ new.names[n] = old.names[n]
        BY <2>1, <3>2
      <4>2. QED BY <1>1, <4>1 DEF NamesDeclared
    <3>3. QED BY <3>1, <3>2
  <2>3. QED BY <2>2 DEF NamesDeclared
<1>4. QED BY <1>2, <1>3 DEF NamesMove

\* Before the return there are no leaves, and what is observed is observed by name.
LEMMA LeavesAdvance ==
    ASSUME NEW w \in Worlds, NEW old \in CaptureFrames(w), NEW new \in CaptureFrames(w),
           GoesOn(old, new), NEW ps, NEW ow, CodeMoves(w, ps, ow, old, new),
           LeavesDeclared(old)
    PROVE  LeavesDeclared(new) /\ LeavesAtReturn(w, new)
<1>1. DOMAIN new.leaves = {}
  BY DEF GoesOn
<1>2. new.asBit \intersect new.asQubit = {}
  BY DEF GoesOn, LeavesDeclared
<1>3. \A i \in DOMAIN old.code : old.code[i].kind = "observe" =>
          old.code[i].op[2] = "explicit-observation" \/ old.code[i].refs[1] \in old.asBit
  BY MadeIs DEF LeavesDeclared
<1>4. ASSUME NEW i \in DOMAIN new.code, new.code[i].kind = "observe"
      PROVE  new.code[i].op[2] = "explicit-observation" \/ new.code[i].refs[1] \in new.asBit
  <2>0. new.asBit = old.asBit
    BY DEF GoesOn
  <2>1. CASE new.code = old.code
    BY <1>3, <1>4, <2>0, <2>1
  <2>2. ASSUME NEW e \in Instructions(w), new.code = Append(old.code, e),
               e.kind = "observe" => e.op[2] = "explicit-observation"
        PROVE  new.code[i].op[2] = "explicit-observation" \/ new.code[i].refs[1] \in new.asBit
    <3>1. (i \in DOMAIN old.code /\ new.code[i] = old.code[i]) \/ new.code[i] = e
      BY <2>2, FrameFacts, Appended
    <3>2. QED BY <1>3, <1>4, <2>0, <2>2, <3>1
  <2>3. QED BY <2>1, <2>2 DEF CodeMoves
<1>5. \A i \in Observations(Made(new)) :
          new.code[i].op[2] = "explicit-observation" \/ new.code[i].refs[1] \in new.asBit
  BY <1>4, MadeIs
<1>6. LeavesDeclared(new)
  BY <1>1, <1>2, <1>5 DEF LeavesDeclared
<1>7. LeavesAtReturn(w, new)
  BY DEF LeavesAtReturn, GoesOn
<1>8. QED BY <1>6, <1>7

\* A statement captured: the invariant's account of the capture goes on.
LEMMA StatementAdvance ==
    ASSUME NEW w \in Worlds, NEW old \in CaptureFrames(w), NEW new \in CaptureFrames(w),
           NEW ps, NEW ow, CaptureFits(w, ps, ow, old),
           GoesOn(old, new), old.pc \in DOMAIN Body(w, old.fn), Keeps(old, new),
           NamesMove(w, old, new), DefsMove(w, old, new), BitsMove(w, old, new),
           CodeMoves(w, ps, ow, old, new)
    PROVE  CaptureFits(w, ps, ow, new)
<1>0. /\ PositionsGrow(w, old) /\ NamesDeclared(old) /\ LeavesDeclared(old)
      /\ NamesGoBack(w, old) /\ OperandsNamed(w, old) /\ CallsFit(w, ps, ow, old.fn, old.code)
      /\ new.fn = old.fn
  BY DEF CaptureFits, GoesOn
<1>1. PositionsGrow(w, new)
  BY <1>0, PositionsAdvance
<1>2. LeavesDeclared(new) /\ LeavesAtReturn(w, new)
  BY <1>0, LeavesAdvance
<1>3. ValuesDeclared(new) /\ CodeDeclared(new)
  BY DEF Keeps
<1>4. NamesDeclared(new)
  BY <1>0, NamesDeclaredAdvance
<1>5. NamesGoBack(w, new)
  BY <1>0, NamesAdvance
<1>6. OperandsNamed(w, new)
  BY <1>0, OperandsAdvance
<1>7. CallsFit(w, ps, ow, new.fn, new.code)
  BY <1>0, CallsAdvance
<1>8. QED BY <1>1, <1>2, <1>3, <1>4, <1>5, <1>6, <1>7 DEF CaptureFits

-----------------------------------------------------------------------------
(* What the checks leave when nothing is refused.                          *)

-----------------------------------------------------------------------------
(* The capture at work.                                                    *)

LEMMA AtWork ==
    ASSUME StackIInv, stack # <<>>
    PROVE  /\ world \in Worlds /\ Frame \in CaptureFrames(world)
           /\ CaptureFits(world, programs, owners, Frame)
           /\ Frame.fn \in Functions /\ Source = world.functions[Frame.fn]
           /\ Source.id \in ProgramIds(world) /\ Source.id \notin DOMAIN programs
           /\ Source.body = Body(world, Frame.fn)
           /\ Len(stack) \in Nat /\ Len(stack) > 0 /\ DOMAIN stack = 1 .. Len(stack)
           /\ Frame = stack[Len(stack)]
<1>1. /\ world \in Worlds /\ stack \in Seq(CaptureFrames(world))
      /\ \A k \in DOMAIN stack : /\ CaptureFits(world, programs, owners, stack[k])
                                 /\ Function(stack[k].fn).id \notin DOMAIN programs
  BY DEF StackIInv
<1>2. Len(stack) \in Nat /\ Len(stack) > 0 /\ DOMAIN stack = 1 .. Len(stack)
  BY <1>1
<1>3. Frame = stack[Len(stack)] /\ Len(stack) \in DOMAIN stack
  BY <1>2 DEF Frame, Last
<1>4. Frame \in CaptureFrames(world) /\ CaptureFits(world, programs, owners, Frame)
  BY <1>1, <1>3
<1>5. Frame.fn \in Functions /\ Source = world.functions[Frame.fn] /\ Source.body = Body(world, Frame.fn)
  BY <1>1, <1>4, FrameFacts DEF Functions, Source, Function, Body
<1>6. Source.id \in ProgramIds(world) /\ Source.id \notin DOMAIN programs
  BY <1>1, <1>3, <1>5 DEF ProgramIds, Functions, Source
<1>7. QED BY <1>1, <1>2, <1>3, <1>4, <1>5, <1>6

\* The statement that is captured, and what it cannot come after.
LEMMA AtStatement ==
    ASSUME StackIInv, stack # <<>>, ~AtEnd
    PROVE  /\ Frame.pc \in Nat \ {0} /\ Frame.pc \in DOMAIN Body(world, Frame.fn)
           /\ Frame.pc <= Len(Body(world, Frame.fn))
           /\ Statement = Body(world, Frame.fn)[Frame.pc]
           /\ IsStatement(Statement, Source.variables)
           /\ Statement.form # "return" => Frame.leaves = <<>>
<1>1. /\ world \in Worlds /\ Frame \in CaptureFrames(world) /\ Frame.fn \in DOMAIN world.functions
      /\ PositionsGrow(world, Frame) /\ LeavesAtReturn(world, Frame)
      /\ Source = world.functions[Frame.fn] /\ Source.body = Body(world, Frame.fn)
  BY AtWork DEF CaptureFits, Functions
<1>2. /\ Len(Body(world, Frame.fn)) \in Nat /\ DOMAIN Body(world, Frame.fn) = 1 .. Len(Body(world, Frame.fn))
      /\ \A i \in DOMAIN Body(world, Frame.fn) : IsStatement(Body(world, Frame.fn)[i], Source.variables)
  BY <1>1, WorldFacts
<1>3. Frame.pc \in Nat \ {0} /\ Frame.pc \in DOMAIN Body(world, Frame.fn)
      /\ Frame.pc <= Len(Body(world, Frame.fn))
  BY <1>1, <1>2 DEF AtEnd, PositionsGrow
<1>4. Statement = Body(world, Frame.fn)[Frame.pc]
  BY <1>1 DEF Statement
<1>5. Statement.form # "return" => Frame.leaves = <<>>
  BY <1>1, <1>4 DEF LeavesAtReturn
<1>6. QED BY <1>2, <1>3, <1>4, <1>5

\* A code is not the absence of one.
LEMMA CodesAreNoNoValue ==
    ASSUME world \in Worlds
    PROVE  /\ \A id \in Ids(world) : id # NoValue
           /\ "P100" # NoValue /\ "P101" # NoValue /\ "P103" # NoValue /\ "P104" # NoValue
           /\ "P105" # NoValue /\ "P106" # NoValue /\ "P107" # NoValue /\ "P110" # NoValue
           /\ "P115" # NoValue /\ "P116" # NoValue /\ "P117" # NoValue /\ "invariant" # NoValue
<1>1. NoValue \notin Ids(world) /\ NoValue \notin Codes
  BY NoIdIsNoValue
<1>2. \A id \in Ids(world) : id # NoValue
  BY <1>1, Zenon
<1>3. QED BY <1>1, <1>2 DEF Codes, SyntaxCodes

LEMMA WaitsForNothing ==
    ASSUME StackIInv, Proceeding, Wanted = NoValue
    PROVE  /\ stack # <<>>
           /\ ~AtEnd => StatementError(Statement) = NoValue
           /\ AtEnd => Source.returns.shape = "none"
           /\ BodyDone => IsLogicalProgram(Assembled)
           /\ IsQuantumCall /\ ~TargetTaken(Statement) => IsCaptured(Meaning(Statement))
<1>0. world \in Worlds
  BY DEF StackIInv
<1>1. stack # <<>>
  <2>1. world.entry # NoValue
    BY <1>0, WorldFacts, WorldsArePython DEF IsWorld
  <2>2. QED BY <2>1 DEF Wanted
<1>2. CaptureError = NoValue
  BY DEF Proceeding
<1>3. ~AtEnd => StatementError(Statement) = NoValue
  BY <1>2 DEF CaptureError
<1>4. AtEnd => Source.returns.shape = "none"
  BY <1>0, <1>2, CodesAreNoNoValue DEF CaptureError
<1>5. BodyDone => IsLogicalProgram(Assembled)
  BY <1>0, <1>2, <1>3, <1>4, CodesAreNoNoValue DEF CaptureError
<1>6. IsQuantumCall /\ ~TargetTaken(Statement) => IsCaptured(Meaning(Statement))
  <2>1. ASSUME IsQuantumCall, ~TargetTaken(Statement), ~IsCaptured(Meaning(Statement)) PROVE FALSE
    <3>1. Wanted = Meaning(Statement)
      BY <1>1, <2>1 DEF Wanted
    <3>2. Meaning(Statement) \in DOMAIN world.functions
      BY <2>1 DEF IsQuantumCall, Functions
    <3>3. QED BY <1>0, <3>1, <3>2, WorldFacts
  <2>2. QED BY <2>1
<1>7. QED BY <1>1, <1>3, <1>4, <1>5, <1>6

\* An accepted assignment's target is a new name.
LEMMA TargetIsNew ==
    ASSUME StackIInv, Proceeding, Wanted = NoValue, ~AtEnd, Statement.form \in {"assign", "alias"}
    PROVE  /\ Statement.target \in Source.variables \ DOMAIN Frame.names /\ ~TargetTaken(Statement)
           /\ Statement.form = "assign" => CallError(Statement) = NoValue
           /\ Statement.form = "alias" => Statement.args[1] \in DOMAIN Frame.names
<1>1. stack # <<>> /\ StatementError(Statement) = NoValue /\ world \in Worlds
  BY WaitsForNothing DEF StackIInv
<1>2. AssignmentError(Statement) = NoValue
  BY <1>1 DEF StatementError
<1>3. Statement.target \notin Intrinsics \union {"Qubit", "Bit"} /\ ~IsBound(Statement.target)
  BY <1>1, <1>2, CodesAreNoNoValue DEF AssignmentError
<1>4. Statement.target \in Source.variables
  BY <1>1, AtStatement DEF IsStatement
<1>5. Statement.form = "assign" => CallError(Statement) = NoValue
  BY <1>2, <1>3 DEF AssignmentError
<1>6. Statement.form = "alias" => Statement.args[1] \in DOMAIN Frame.names
  BY <1>1, <1>2, <1>3, CodesAreNoNoValue DEF AssignmentError, IsBound
<1>7. QED BY <1>3, <1>4, <1>5, <1>6 DEF TargetTaken, IsBound

LEMMA CallIsSound ==
    ASSUME StackIInv, Proceeding, Wanted = NoValue, ~AtEnd, Statement.form \in {"assign", "call"}
    PROVE  /\ CallError(Statement) = NoValue /\ ~IsBound(Statement.func) /\ ~TargetTaken(Statement)
           /\ Meaning(Statement) \in Accepted(Statement.form)
           /\ IF Meaning(Statement) \in Functions
              THEN CalleeError(Statement, programs[Function(Meaning(Statement)).id]) = NoValue
              ELSE IntrinsicError(Statement, Meaning(Statement)) = NoValue
<1>1. stack # <<>> /\ StatementError(Statement) = NoValue /\ world \in Worlds
  BY WaitsForNothing DEF StackIInv
<1>2. CallError(Statement) = NoValue /\ ~TargetTaken(Statement)
  <2>1. CASE Statement.form = "assign"
    BY <2>1, TargetIsNew
  <2>2. CASE Statement.form = "call"
    BY <1>1, <2>2 DEF StatementError, TargetTaken
  <2>3. QED BY <2>1, <2>2
<1>3. ~IsBound(Statement.func)
  BY <1>1, <1>2, CodesAreNoNoValue DEF CallError
<1>4. Meaning(Statement) \in Accepted(Statement.form)
  <2>1. UnresolvedError(Statement) # NoValue
    BY <1>1, CodesAreNoNoValue DEF UnresolvedError
  <2>2. QED BY <1>2, <1>3, <2>1 DEF CallError
<1>5. QED BY <1>2, <1>3, <1>4 DEF CallError

\* A call's arguments are quantum values that the program knows.
LEMMA ArgumentsKnown ==
    ASSUME StackIInv, stack # <<>>, ~AtEnd, Statement.form # "refused",
           \A r \in DOMAIN Statement.args : IsQuantum(Statement.args[r])
    PROVE  /\ Statement.args \in Seq(Source.variables)
           /\ \A r \in DOMAIN Statement.args : Statement.args[r] \in DOMAIN Frame.names
           /\ Qubits(Statement.args) \in Seq(Ids(world))
           /\ Len(Qubits(Statement.args)) = Len(Statement.args) /\ Len(Statement.args) \in Nat
           /\ DOMAIN Qubits(Statement.args) = 1 .. Len(Statement.args)
           /\ DOMAIN Statement.args = 1 .. Len(Statement.args)
           /\ \A r \in 1 .. Len(Statement.args) :
                 /\ Qubits(Statement.args)[r] = Frame.names[Statement.args[r]].id
                 /\ Qubits(Statement.args)[r] \in KnownTo(Frame)
<1> DEFINE args == Statement.args
<1>1. args \in Seq(Source.variables)
  BY AtStatement DEF IsStatement
<1>2. Len(args) \in Nat /\ DOMAIN args = 1 .. Len(args)
  BY <1>1
<1>3. ASSUME NEW r \in DOMAIN args
      PROVE  args[r] \in DOMAIN Frame.names /\ Frame.names[args[r]].id \in KnownTo(Frame)
             /\ Frame.names[args[r]].id \in Ids(world)
  <2>1. args[r] \in DOMAIN Frame.names /\ Frame.names[args[r]].quantum
    BY DEF IsQuantum, IsBound
  <2>2. NamesDeclared(Frame) /\ Frame \in CaptureFrames(world) /\ world \in Worlds
    BY AtWork DEF CaptureFits
  <2>3. Frame.names[args[r]] \in Values(world)
    BY <2>1, <2>2, FrameFacts
  <2>4. QED BY <2>1, <2>2, <2>3 DEF NamesDeclared, Values
<1>4. Qubits(args) = [r \in 1 .. Len(args) |-> Frame.names[args[r]].id]
  BY <1>2 DEF Qubits
<1>5. Qubits(args) \in Seq(Ids(world)) /\ Len(Qubits(args)) = Len(args)
  BY <1>2, <1>3, <1>4
<1>6. QED BY <1>1, <1>2, <1>3, <1>4, <1>5

-----------------------------------------------------------------------------
(* Aliases, new qubits and operations.                                     *)

-----------------------------------------------------------------------------
(* Each statement captured.                                                *)

LEMMA BoundIs ==
    ASSUME NEW w, NEW old \in CaptureFrames(w), NEW name \in Variables(w), NEW value \in Values(w)
    PROVE  LET new == Bound(old, name, value)
           IN  /\ new \in CaptureFrames(w)
               /\ new.names = [n \in DOMAIN old.names \union {name} |->
                                  IF n = name THEN value ELSE old.names[n]]
               /\ new.fn = old.fn /\ new.pc = old.pc /\ new.params = old.params
               /\ new.defs = old.defs /\ new.code = old.code /\ new.bits = old.bits
               /\ new.leaves = old.leaves /\ new.asBit = old.asBit /\ new.asQubit = old.asQubit
<1> DEFINE names == [n \in DOMAIN old.names \union {name} |-> IF n = name THEN value ELSE old.names[n]]
<1>1. old.names \in NameTables(w)
  BY DEF CaptureFrames
<1>2. PICK S \in SUBSET Variables(w) : old.names \in [S -> Values(w)]
  BY <1>1 DEF NameTables
<1>3. names \in [S \union {name} -> Values(w)] /\ S \union {name} \in SUBSET Variables(w)
  BY <1>2
<1>4. names \in NameTables(w)
  BY <1>3 DEF NameTables
<1> HIDE DEF names
<1>5. LET new == [old EXCEPT !.names = names]
      IN  /\ new \in CaptureFrames(w) /\ new.names = names
          /\ new.fn = old.fn /\ new.pc = old.pc /\ new.params = old.params
          /\ new.defs = old.defs /\ new.code = old.code /\ new.bits = old.bits
          /\ new.leaves = old.leaves /\ new.asBit = old.asBit /\ new.asQubit = old.asQubit
  BY <1>4 DEF CaptureFrames
<1>6. Bound(old, name, value) = [old EXCEPT !.names = names]
  BY DEF Bound, names
<1>7. QED BY <1>5, <1>6 DEF names

LEMMA AdvancedIs ==
    ASSUME NEW w, NEW frame \in CaptureFrames(w)
    PROVE  LET new == Advanced(frame)
           IN  /\ new \in CaptureFrames(w)
               /\ new.fn = frame.fn /\ new.pc = frame.pc + 1 /\ new.names = frame.names
               /\ new.params = frame.params /\ new.defs = frame.defs /\ new.code = frame.code
               /\ new.bits = frame.bits /\ new.leaves = frame.leaves
               /\ new.asBit = frame.asBit /\ new.asQubit = frame.asQubit
<1>1. frame.pc + 1 \in Nat
  BY DEF CaptureFrames
<1>2. Advanced(frame) = [frame EXCEPT !.pc = frame.pc + 1]
  BY DEF Advanced
<1>3. QED BY <1>1, <1>2 DEF CaptureFrames

LEMMA EmitIs ==
    ASSUME NEW w, NEW frame \in CaptureFrames(w), NEW instr \in Instructions(w)
    PROVE  LET new == Emit(frame, instr)
           IN  /\ new \in CaptureFrames(w)
               /\ new.fn = frame.fn /\ new.pc = frame.pc /\ new.names = frame.names
               /\ new.params = frame.params /\ new.defs = frame.defs
               /\ new.code = Append(frame.code, instr)
               /\ new.bits = frame.bits /\ new.leaves = frame.leaves
               /\ new.asBit = frame.asBit /\ new.asQubit = frame.asQubit
<1>1. Append(frame.code, instr) \in Seq(Instructions(w))
  <2>1. frame.code \in Seq(Instructions(w))
    BY DEF CaptureFrames
  <2>2. QED BY <2>1
<1>2. Emit(frame, instr) = [frame EXCEPT !.code = Append(frame.code, instr)]
  BY DEF Emit
<1>3. QED BY <1>1, <1>2 DEF CaptureFrames

LEMMA BitAdded ==
    ASSUME NEW w, NEW frame \in CaptureFrames(w), NEW id \in Ids(w)
    PROVE  LET new == [frame EXCEPT !.bits = Append(@, id)]
           IN  /\ new \in CaptureFrames(w)
               /\ new.fn = frame.fn /\ new.pc = frame.pc /\ new.names = frame.names
               /\ new.params = frame.params /\ new.defs = frame.defs /\ new.code = frame.code
               /\ new.bits = Append(frame.bits, id) /\ new.leaves = frame.leaves
               /\ new.asBit = frame.asBit /\ new.asQubit = frame.asQubit
<1>1. Append(frame.bits, id) \in Seq(Ids(w))
  <2>1. frame.bits \in Seq(Ids(w))
    BY DEF CaptureFrames
  <2>2. QED BY <2>1
<1>2. [frame EXCEPT !.bits = Append(@, id)] = [frame EXCEPT !.bits = Append(frame.bits, id)]
  OBVIOUS
<1>3. QED BY <1>1, <1>2 DEF CaptureFrames

LEMMA DefinitionAdded ==
    ASSUME NEW w, NEW frame \in CaptureFrames(w), NEW d \in Definitions(w)
    PROVE  LET new == [frame EXCEPT !.defs = Append(@, d)]
           IN  /\ new \in CaptureFrames(w)
               /\ new.fn = frame.fn /\ new.pc = frame.pc /\ new.names = frame.names
               /\ new.params = frame.params /\ new.defs = Append(frame.defs, d)
               /\ new.code = frame.code /\ new.bits = frame.bits /\ new.leaves = frame.leaves
               /\ new.asBit = frame.asBit /\ new.asQubit = frame.asQubit
<1>1. Append(frame.defs, d) \in Seq(Definitions(w))
  <2>1. frame.defs \in Seq(Definitions(w))
    BY DEF CaptureFrames
  <2>2. QED BY <2>1
<1>2. [frame EXCEPT !.defs = Append(@, d)] = [frame EXCEPT !.defs = Append(frame.defs, d)]
  OBVIOUS
<1>3. QED BY <1>1, <1>2 DEF CaptureFrames

LEMMA IdsMadeHere ==
    ASSUME StackIInv, stack # <<>>, ~AtEnd, NEW kind \in NodeKinds, NEW column \in {TargetColumn, CallColumn}
    PROVE  /\ SourceId(kind, column) \in Ids(world) /\ SourceId(kind, column) # NoValue
           /\ MadeHere(Frame, SourceId(kind, column)) /\ SourceId(kind, column)[2] = kind
           /\ SourceId(kind, column)[3] = Position(Frame.pc, column)
           /\ Position(Frame.pc, column) \in Nat /\ Position(Frame.pc, column) \div LineWidth = Frame.pc
<1>1. Frame.pc \in Nat /\ Source.id \in ProgramIds(world) /\ world \in Worlds
  BY AtWork, AtStatement
<1>2. column \in Nat /\ column < LineWidth
  BY LinesAreWideEnough DEF TargetColumn, CallColumn
<1>3. Position(Frame.pc, column) \in Nat /\ Position(Frame.pc, column) \div LineWidth = Frame.pc
  BY <1>1, <1>2, PositionFacts
<1>4. SourceId(kind, column) \in Ids(world)
  BY <1>1, <1>3 DEF SourceId, Ids
<1>5. SourceId(kind, column)[2] = kind /\ SourceId(kind, column)[3] = Position(Frame.pc, column)
  BY DEF SourceId
<1>6. QED BY <1>1, <1>3, <1>4, <1>5, CodesAreNoNoValue DEF MadeHere

LEMMA AliasFits ==
    ASSUME StackIInv, InBody("alias")
    PROVE  LET new == Advanced(Bound(Frame, Statement.target, Frame.names[Statement.args[1]]))
           IN  /\ new \in CaptureFrames(world) /\ new.fn = Frame.fn
               /\ CaptureFits(world, programs, owners, new)
<1> DEFINE target == Statement.target
           value == Frame.names[Statement.args[1]]
           bound == Bound(Frame, target, value)
           new == Advanced(bound)
<1>0. Proceeding /\ Wanted = NoValue /\ ~AtEnd /\ Statement.form = "alias" /\ stack # <<>>
  BY WaitsForNothing DEF InBody
<1>1. /\ world \in Worlds /\ Frame \in CaptureFrames(world)
      /\ CaptureFits(world, programs, owners, Frame)
      /\ Frame.fn \in DOMAIN world.functions /\ Source = world.functions[Frame.fn]
  BY <1>0, AtWork DEF Functions
<1>2. /\ target \in Source.variables \ DOMAIN Frame.names /\ Statement.args[1] \in DOMAIN Frame.names
      /\ target \in Variables(world) /\ value \in Values(world)
  BY <1>0, <1>1, TargetIsNew, WorldFacts, FrameFacts
<1>3. /\ Frame.pc \in DOMAIN Body(world, Frame.fn) /\ Statement = Body(world, Frame.fn)[Frame.pc]
      /\ Frame.leaves = <<>>
  BY <1>0, AtStatement
<1>4. /\ bound \in CaptureFrames(world)
      /\ bound.names = [n \in DOMAIN Frame.names \union {target} |->
                                  IF n = target THEN value ELSE Frame.names[n]]
      /\ bound.fn = Frame.fn /\ bound.pc = Frame.pc /\ bound.params = Frame.params
      /\ bound.defs = Frame.defs /\ bound.code = Frame.code /\ bound.bits = Frame.bits
      /\ bound.leaves = Frame.leaves /\ bound.asBit = Frame.asBit /\ bound.asQubit = Frame.asQubit
  BY <1>1, <1>2, BoundIs
<1> HIDE DEF bound
<1>5. /\ new \in CaptureFrames(world)
      /\ new.fn = bound.fn /\ new.pc = bound.pc + 1 /\ new.names = bound.names
      /\ new.params = bound.params /\ new.defs = bound.defs /\ new.code = bound.code
      /\ new.bits = bound.bits /\ new.leaves = bound.leaves
      /\ new.asBit = bound.asBit /\ new.asQubit = bound.asQubit
  BY <1>4, AdvancedIs
<1> HIDE DEF new
<1>6. /\ new \in CaptureFrames(world) /\ GoesOn(Frame, new) /\ new.names = bound.names
      /\ new.defs = Frame.defs /\ new.code = Frame.code /\ new.bits = Frame.bits
  BY <1>3, <1>4, <1>5 DEF GoesOn
<1>7. Keeps(Frame, new)
  BY <1>1, <1>6, SameMakesKeep DEF CaptureFits, GoesOn
<1>8. NamesMove(world, Frame, new)
  <2>1. IF value.quantum THEN value.id \in KnownTo(new) ELSE value.id \in BitIds(Made(new))
    BY <1>1, <1>2, <1>7, SMTT(30) DEF CaptureFits, NamesDeclared, Keeps
  <2>2. BindsName(world, Frame, new, target, value)
    BY <1>0, <1>1, <1>2, <1>3, <1>4, <1>6, <2>1, Zenon DEF BindsName
  <2>3. QED BY <1>2, <2>2 DEF NamesMove
<1>9. DefsMove(world, Frame, new) /\ BitsMove(world, Frame, new)
      /\ CodeMoves(world, programs, owners, Frame, new)
  BY <1>6 DEF DefsMove, BitsMove, CodeMoves
<1>10. CaptureFits(world, programs, owners, new)
  BY <1>1, <1>3, <1>6, <1>7, <1>8, <1>9, StatementAdvance
<1>11. QED BY <1>6, <1>10 DEF GoesOn, new, bound

LEMMA QubitFits ==
    ASSUME StackIInv, InBody("assign"), Meaning(Statement) = "Qubit",
           NEW id, id = SourceId("qubit-declaration", CallColumn),
           NEW d, d = [id |-> id, pos |-> Position(Frame.pc, CallColumn)]
    PROVE  LET new == Advanced([Bound(Frame, Statement.target, [quantum |-> TRUE, id |-> id])
                                EXCEPT !.defs = Append(@, d)])
           IN  /\ new \in CaptureFrames(world) /\ new.fn = Frame.fn
               /\ CaptureFits(world, programs, owners, new)
<1> DEFINE target == Statement.target
           value == [quantum |-> TRUE, id |-> id]
           bound == Bound(Frame, target, value)
           more == [bound EXCEPT !.defs = Append(@, d)]
           new == Advanced(more)
<1>0. Proceeding /\ Wanted = NoValue /\ ~AtEnd /\ Statement.form = "assign" /\ stack # <<>>
  BY WaitsForNothing DEF InBody
<1>1. /\ world \in Worlds /\ Frame \in CaptureFrames(world)
      /\ CaptureFits(world, programs, owners, Frame)
      /\ PositionsGrow(world, Frame) /\ ValuesDeclared(Frame) /\ CodeDeclared(Frame)
      /\ Frame.fn \in DOMAIN world.functions /\ Source = world.functions[Frame.fn]
  BY <1>0, AtWork DEF Functions, CaptureFits
<1>2. /\ id \in Ids(world) /\ MadeHere(Frame, id) /\ id[2] = "qubit-declaration"
      /\ id[3] = Position(Frame.pc, CallColumn) /\ Position(Frame.pc, CallColumn) \in Nat
  BY <1>0, IdsMadeHere DEF NodeKinds
<1>3. /\ target \in Source.variables \ DOMAIN Frame.names
      /\ target \in Variables(world) /\ value \in Values(world) /\ d \in Definitions(world)
  BY <1>0, <1>1, <1>2, TargetIsNew, WorldFacts DEF Values, Definitions
<1>4. /\ Frame.pc \in DOMAIN Body(world, Frame.fn) /\ Statement = Body(world, Frame.fn)[Frame.pc]
      /\ Frame.leaves = <<>>
  BY <1>0, AtStatement
<1>5. /\ bound \in CaptureFrames(world)
      /\ bound.names = [n \in DOMAIN Frame.names \union {target} |->
                                  IF n = target THEN value ELSE Frame.names[n]]
      /\ bound.fn = Frame.fn /\ bound.pc = Frame.pc /\ bound.params = Frame.params
      /\ bound.defs = Frame.defs /\ bound.code = Frame.code /\ bound.bits = Frame.bits
      /\ bound.leaves = Frame.leaves /\ bound.asBit = Frame.asBit /\ bound.asQubit = Frame.asQubit
  <2> HIDE DEF value
  <2>1. QED BY <1>1, <1>3, BoundIs
<1> HIDE DEF bound, value
<1>6. /\ more \in CaptureFrames(world)
      /\ more.fn = bound.fn /\ more.pc = bound.pc /\ more.names = bound.names
      /\ more.params = bound.params /\ more.defs = Append(bound.defs, d)
      /\ more.code = bound.code /\ more.bits = bound.bits /\ more.leaves = bound.leaves
      /\ more.asBit = bound.asBit /\ more.asQubit = bound.asQubit
  BY <1>3, <1>5, DefinitionAdded
<1> HIDE DEF more
<1>7. /\ new \in CaptureFrames(world)
      /\ new.fn = more.fn /\ new.pc = more.pc + 1 /\ new.names = more.names
      /\ new.params = more.params /\ new.defs = more.defs /\ new.code = more.code
      /\ new.bits = more.bits /\ new.leaves = more.leaves
      /\ new.asBit = more.asBit /\ new.asQubit = more.asQubit
  BY <1>6, AdvancedIs
<1> HIDE DEF new
<1>8. /\ new \in CaptureFrames(world) /\ GoesOn(Frame, new) /\ new.params = Frame.params
      /\ new.names = bound.names
      /\ new.defs = Append(Frame.defs, d) /\ new.code = Frame.code /\ new.bits = Frame.bits
  BY <1>4, <1>5, <1>6, <1>7 DEF GoesOn
<1>9. d.id = id /\ value.quantum /\ value.id = id
  BY DEF value
<1>10. Keeps(Frame, new) /\ id \in KnownTo(new)
  <2>1. d.id[3] >= Reached(Frame)
    <3>1. id[3] \in Nat /\ Reached(Frame) <= id[3] /\ Reached(Frame) \in Nat
      BY <1>1, <1>2, <1>8, StatementPositions
    <3>2. QED BY <1>9, <3>1
  <2>2. Keeps(Frame, new) /\ d.id \in KnownTo(new)
    BY <1>1, <1>2, <1>3, <1>8, <1>9, <2>1, NewValueKeeps
  <2>3. QED BY <1>9, <2>2
<1>11. NamesMove(world, Frame, new)
  <2>1. BindsName(world, Frame, new, target, value)
    BY <1>0, <1>1, <1>2, <1>3, <1>4, <1>5, <1>8, <1>9, <1>10 DEF BindsName
  <2>2. QED BY <1>3, <2>1 DEF NamesMove
<1>12. DefsMove(world, Frame, new) /\ BitsMove(world, Frame, new)
      /\ CodeMoves(world, programs, owners, Frame, new)
  BY <1>2, <1>3, <1>8, <1>9 DEF DefsMove, BitsMove, CodeMoves
<1>13. CaptureFits(world, programs, owners, new)
  BY <1>1, <1>4, <1>8, <1>10, <1>11, <1>12, StatementAdvance
<1>14. QED BY <1>8, <1>13 DEF GoesOn, new, more, bound, value

LEMMA InstructionIs ==
    ASSUME NEW w, NEW op \in Ids(w), NEW kind \in Kinds, NEW refs \in Seq(Ids(w)), NEW column,
           Position(Frame.pc, column) \in Nat
    PROVE  LET instr == Instruction(op, kind, refs, column)
           IN  /\ instr \in Instructions(w)
               /\ instr.op = op /\ instr.kind = kind /\ instr.refs = refs
               /\ instr.pos = Position(Frame.pc, column) /\ instr.result = NoValue
               /\ instr.params = <<>> /\ instr.callee = NoValue /\ instr.callee_value = NoValue
<1>1. <<>> \in Seq(Ids(w))
  OBVIOUS
<1>2. QED BY <1>1 DEF Instruction, Instructions

\* A gate, a rotation or a reset of what the call names.
LEMMA OperationFits ==
    ASSUME StackIInv, InBody("call"), Meaning(Statement) \in Intrinsics \ {"observe"},
           NEW kind, kind = Meaning(Statement),
           NEW instr, instr = Instruction(SourceId(kind, CallColumn), kind, Operands(Statement.args),
                                          CallColumn)
    PROVE  LET new == Advanced(Emit(Frame, instr))
           IN  /\ new \in CaptureFrames(world) /\ new.fn = Frame.fn
               /\ CaptureFits(world, programs, owners, new)
<1> DEFINE args == Statement.args
           refs == Operands(args)
           more == Emit(Frame, instr)
           new == Advanced(more)
           op == SourceId(kind, CallColumn)
<1>0. Proceeding /\ Wanted = NoValue /\ ~AtEnd /\ Statement.form = "call" /\ stack # <<>>
  BY WaitsForNothing DEF InBody
<1>1. /\ world \in Worlds /\ Frame \in CaptureFrames(world)
      /\ CaptureFits(world, programs, owners, Frame)
      /\ PositionsGrow(world, Frame) /\ ValuesDeclared(Frame) /\ CodeDeclared(Frame)
      /\ Frame.fn \in DOMAIN world.functions /\ Source = world.functions[Frame.fn]
  BY <1>0, AtWork DEF Functions, CaptureFits
<1>2. kind \in {"gate", "cx", "rotation", "reset"} /\ kind \in Kinds /\ kind \in NodeKinds
  BY DEF Intrinsics, Kinds, GateKinds, NodeKinds
<1>3. kind \notin Functions
  BY <1>1, WorldFacts DEF Functions
<1>4. IntrinsicError(Statement, kind) = NoValue
  BY <1>0, <1>3, CallIsSound
<1>5. /\ Len(args) = Arity[kind] /\ \A r \in DOMAIN args : IsQuantum(args[r])
      /\ kind = "cx" => Injective(Qubits(args))
  BY <1>1, <1>4, CodesAreNoNoValue DEF IntrinsicError
<1>6. /\ \A r \in DOMAIN args : args[r] \in DOMAIN Frame.names
      /\ Qubits(args) \in Seq(Ids(world))
      /\ Len(Qubits(args)) = Len(args) /\ Len(args) \in Nat
      /\ DOMAIN Qubits(args) = 1 .. Len(args) /\ DOMAIN args = 1 .. Len(args)
      /\ \A r \in 1 .. Len(args) : /\ Qubits(args)[r] = Frame.names[args[r]].id
                                   /\ Qubits(args)[r] \in KnownTo(Frame)
  BY <1>0, <1>5, ArgumentsKnown
<1>7. Len(args) = IF kind = "cx" THEN 2 ELSE 1
  BY <1>2, <1>5 DEF Arity
<1>8. /\ refs \in Seq(Ids(world)) /\ Len(refs) = Len(args) /\ DOMAIN refs = 1 .. Len(args)
      /\ \A r \in 1 .. Len(args) : refs[r] = Qubits(args)[Len(args) - r + 1]
  <2>1. refs = [i \in 1 .. Len(args) |-> Qubits(args)[(Len(args) - i) + 1]]
    BY <1>6 DEF Operands, Reverse
  <2>2. \A i \in 1 .. Len(args) : (Len(args) - i) + 1 \in 1 .. Len(args)
    BY <1>6
  <2>3. \A i \in 1 .. Len(args) : Qubits(args)[i] \in Ids(world)
    BY <1>6
  <2>4. refs \in [1 .. Len(args) -> Ids(world)]
    BY <2>1, <2>2, <2>3
  <2>5. QED BY <1>6, <2>1, <2>4
<1>9. Reverse(args) = [i \in 1 .. Len(args) |-> args[(Len(args) - i) + 1]]
  BY DEF Reverse
<1>10. op \in Ids(world) /\ MadeHere(Frame, op) /\ Position(Frame.pc, CallColumn) \in Nat
       /\ Position(Frame.pc, CallColumn) \div LineWidth = Frame.pc
  BY <1>0, <1>2, IdsMadeHere
<1>11. /\ instr \in Instructions(world) /\ instr.op = op /\ instr.kind = kind /\ instr.refs = refs
       /\ instr.pos = Position(Frame.pc, CallColumn) /\ instr.result = NoValue
  BY <1>2, <1>8, <1>10, InstructionIs
<1>12. /\ more \in CaptureFrames(world)
       /\ more.fn = Frame.fn /\ more.pc = Frame.pc /\ more.names = Frame.names
       /\ more.params = Frame.params /\ more.defs = Frame.defs
       /\ more.code = Append(Frame.code, instr) /\ more.bits = Frame.bits
       /\ more.leaves = Frame.leaves /\ more.asBit = Frame.asBit /\ more.asQubit = Frame.asQubit
  BY <1>1, <1>11, EmitIs
<1> HIDE DEF more, refs, op
<1>13. /\ new \in CaptureFrames(world)
       /\ new.fn = more.fn /\ new.pc = more.pc + 1 /\ new.names = more.names
       /\ new.params = more.params /\ new.defs = more.defs /\ new.code = more.code
       /\ new.bits = more.bits /\ new.leaves = more.leaves
       /\ new.asBit = more.asBit /\ new.asQubit = more.asQubit
  BY <1>12, AdvancedIs
<1> HIDE DEF new
<1>14. /\ Frame.pc \in DOMAIN Body(world, Frame.fn) /\ Statement = Body(world, Frame.fn)[Frame.pc]
       /\ Frame.leaves = <<>>
  BY <1>0, AtStatement
<1>15. /\ new \in CaptureFrames(world) /\ GoesOn(Frame, new) /\ new.names = Frame.names
       /\ new.params = Frame.params /\ new.defs = Frame.defs
       /\ new.code = Append(Frame.code, instr) /\ new.bits = Frame.bits
  BY <1>12, <1>13, <1>14 DEF GoesOn
<1>16. Keeps(Frame, new)
  <2>1. GateArity(instr)
    <3>1. CASE kind = "cx"
      <4>1. refs[1] = Qubits(args)[2] /\ refs[2] = Qubits(args)[1] /\ 1 \in 1 .. 2 /\ 2 \in 1 .. 2
        BY <1>7, <1>8, <3>1
      <4>2. Qubits(args)[1] # Qubits(args)[2]
        BY <1>5, <1>6, <1>7, <3>1 DEF Injective
      <4>3. QED BY <1>7, <1>8, <1>11, <3>1, <4>1, <4>2 DEF GateArity
    <3>2. CASE kind # "cx"
      BY <1>2, <1>7, <1>8, <1>11, <3>2 DEF GateArity
    <3>3. QED BY <3>1, <3>2
  <2>2. \A r \in DOMAIN instr.refs : instr.refs[r] \in KnownTo(Frame)
    <3>1. \A r \in 1 .. Len(args) : Len(args) - r + 1 \in 1 .. Len(args)
      BY <1>6
    <3>2. QED BY <1>6, <1>8, <1>11, <3>1
  <2>3. instr.op[3] >= Reached(Frame)
    <3>1. op[3] \in Nat /\ Reached(Frame) <= op[3] /\ Reached(Frame) \in Nat
      BY <1>1, <1>10, <1>15, StatementPositions
    <3>2. QED BY <1>11, <3>1
  <2>4. Emits(world, Frame, new, instr)
    BY <1>2, <1>11, <1>15, <2>1, <2>2, <2>3 DEF Emits
  <2>5. QED BY <1>1, <1>11, <1>15, <2>4, NewInstructionKeeps
<1>17. CodeMoves(world, programs, owners, Frame, new)
  <2>1. Line(instr) = Frame.pc
    BY <1>10, <1>11 DEF Line
  <2>2. Written(Body(world, Frame.fn), instr) = IF kind = "cx" THEN Reverse(args) ELSE args
    BY <1>0, <1>11, <1>14, <2>1 DEF Written
  <2>3. ASSUME NEW r \in DOMAIN Written(Body(world, Frame.fn), instr)
        PROVE  /\ Written(Body(world, Frame.fn), instr)[r] \in DOMAIN Frame.names
               /\ instr.refs[r] = Frame.names[Written(Body(world, Frame.fn), instr)[r]].id
    <3>1. CASE kind = "cx"
      <4>1. r \in 1 .. Len(args) /\ Written(Body(world, Frame.fn), instr)[r] = args[(Len(args) - r) + 1]
        BY <1>9, <2>2, <3>1
      <4>2. (Len(args) - r) + 1 \in 1 .. Len(args)
        BY <1>6, <4>1
      <4>3. QED BY <1>6, <1>8, <1>11, <4>1, <4>2
    <3>2. CASE kind # "cx"
      <4>1. r = 1 /\ Len(args) - r + 1 = 1 /\ Len(args) = 1 /\ Written(Body(world, Frame.fn), instr)[r] = args[1]
        BY <1>6, <1>7, <2>2, <3>2
      <4>2. QED BY <1>6, <1>8, <1>11, <4>1
    <3>3. QED BY <3>1, <3>2
  <2>4. OperandsWritten(world, Frame, instr)
    BY <2>1, <2>3 DEF OperandsWritten
  <2>5. CallFits(world, programs, owners, Frame.fn, instr)
    BY <1>2, <1>11 DEF CallFits
  <2>6. QED BY <1>2, <1>10, <1>11, <1>15, <2>4, <2>5 DEF CodeMoves
<1>18. NamesMove(world, Frame, new) /\ DefsMove(world, Frame, new) /\ BitsMove(world, Frame, new)
  BY <1>0, <1>14, <1>15 DEF NamesMove, DefsMove, BitsMove
<1>19. CaptureFits(world, programs, owners, new)
  BY <1>1, <1>14, <1>15, <1>16, <1>17, <1>18, StatementAdvance
<1>20. QED BY <1>15, <1>19 DEF GoesOn, new, more

-----------------------------------------------------------------------------
(* Observations and calls.                                                 *)

ObservationOf(op, id, result, column) ==
    [Instruction(op, "observe", <<id>>, column) EXCEPT !.result = result, !.basis = Source.basis]

LEMMA ObservedIs ==
    ASSUME StackIInv, stack # <<>>, NEW frame \in CaptureFrames(world),
           NEW op \in Ids(world), NEW id \in Ids(world), NEW result \in Ids(world), NEW column,
           Position(Frame.pc, column) \in Nat
    PROVE  LET new == Observed(frame, op, id, result, column)
               instr == ObservationOf(op, id, result, column)
           IN  /\ instr \in Instructions(world)
               /\ instr.op = op /\ instr.kind = "observe" /\ instr.refs = <<id>>
               /\ instr.pos = Position(Frame.pc, column) /\ instr.result = result
               /\ new \in CaptureFrames(world)
               /\ new.fn = frame.fn /\ new.pc = frame.pc /\ new.names = frame.names
               /\ new.params = frame.params /\ new.defs = frame.defs
               /\ new.code = Append(frame.code, instr) /\ new.bits = Append(frame.bits, result)
               /\ new.leaves = frame.leaves
               /\ new.asBit = frame.asBit /\ new.asQubit = frame.asQubit
<1> DEFINE refs == <<id>>
           plain == Instruction(op, "observe", refs, column)
           instr == ObservationOf(op, id, result, column)
           more == Emit(frame, instr)
<1>1. refs \in Seq(Ids(world)) /\ "observe" \in Kinds
  BY DEF Kinds
<1> HIDE DEF refs
<1>2. /\ plain \in Instructions(world)
      /\ plain.op = op /\ plain.kind = "observe" /\ plain.refs = refs
      /\ plain.pos = Position(Frame.pc, column)
  BY <1>1, InstructionIs
<1>3. Source.basis \in {world.functions[f].basis : f \in DOMAIN world.functions}
  BY AtWork DEF Functions
<1> HIDE DEF plain
<1>4. /\ instr \in Instructions(world)
      /\ instr.op = op /\ instr.kind = "observe" /\ instr.refs = refs
      /\ instr.pos = Position(Frame.pc, column) /\ instr.result = result
  <2>1. instr = [plain EXCEPT !.result = result, !.basis = Source.basis]
    BY DEF ObservationOf, plain, refs
  <2> HIDE DEF instr
  <2>2. QED BY <1>2, <1>3, <2>1 DEF Instructions
<1> HIDE DEF instr
<1>5. /\ more \in CaptureFrames(world)
      /\ more.fn = frame.fn /\ more.pc = frame.pc /\ more.names = frame.names
      /\ more.params = frame.params /\ more.defs = frame.defs
      /\ more.code = Append(frame.code, instr) /\ more.bits = frame.bits
      /\ more.leaves = frame.leaves /\ more.asBit = frame.asBit /\ more.asQubit = frame.asQubit
  BY <1>4, EmitIs
<1>6. Observed(frame, op, id, result, column) = [more EXCEPT !.bits = Append(@, result)]
  BY DEF Observed, instr, ObservationOf
<1> HIDE DEF more
<1>7. LET new == [more EXCEPT !.bits = Append(@, result)]
      IN  /\ new \in CaptureFrames(world)
          /\ new.fn = more.fn /\ new.pc = more.pc /\ new.names = more.names
          /\ new.params = more.params /\ new.defs = more.defs /\ new.code = more.code
          /\ new.bits = Append(more.bits, result) /\ new.leaves = more.leaves
          /\ new.asBit = more.asBit /\ new.asQubit = more.asQubit
  BY <1>5, BitAdded
<1>8. QED BY <1>4, <1>5, <1>6, <1>7 DEF instr, refs

\* A statement that names its result when it is an assignment.
Named(frame, value) ==
    Advanced(IF Statement.form = "assign" THEN Bound(frame, Statement.target, value) ELSE frame)

LEMMA NamedIs ==
    ASSUME NEW w, NEW more \in CaptureFrames(w), NEW value,
           Statement.form = "assign" => value \in Values(w) /\ Statement.target \in Variables(w)
    PROVE  LET new == Named(more, value)
           IN  /\ new \in CaptureFrames(w)
               /\ new.names = IF Statement.form = "assign"
                              THEN [n \in DOMAIN more.names \union {Statement.target} |->
                                       IF n = Statement.target THEN value ELSE more.names[n]]
                              ELSE more.names
               /\ new.fn = more.fn /\ new.pc = more.pc + 1 /\ new.params = more.params
               /\ new.defs = more.defs /\ new.code = more.code /\ new.bits = more.bits
               /\ new.leaves = more.leaves /\ new.asBit = more.asBit /\ new.asQubit = more.asQubit
<1> DEFINE bound == Bound(more, Statement.target, value)
<1>1. CASE Statement.form = "assign"
  <2>1. /\ bound \in CaptureFrames(w)
        /\ bound.names = [n \in DOMAIN more.names \union {Statement.target} |->
                             IF n = Statement.target THEN value ELSE more.names[n]]
        /\ bound.fn = more.fn /\ bound.pc = more.pc /\ bound.params = more.params
        /\ bound.defs = more.defs /\ bound.code = more.code /\ bound.bits = more.bits
        /\ bound.leaves = more.leaves /\ bound.asBit = more.asBit /\ bound.asQubit = more.asQubit
    BY <1>1, BoundIs
  <2>2. Named(more, value) = Advanced(bound)
    BY <1>1 DEF Named
  <2> HIDE DEF bound
  <2> DEFINE new == Advanced(bound)
  <2>3. /\ new \in CaptureFrames(w)
        /\ new.fn = bound.fn /\ new.pc = bound.pc + 1 /\ new.names = bound.names
        /\ new.params = bound.params /\ new.defs = bound.defs /\ new.code = bound.code
        /\ new.bits = bound.bits /\ new.leaves = bound.leaves
        /\ new.asBit = bound.asBit /\ new.asQubit = bound.asQubit
    BY <2>1, AdvancedIs
  <2> HIDE DEF new
  <2>4. QED BY <1>1, <2>1, <2>2, <2>3 DEF new
<1>2. CASE Statement.form # "assign"
  <2>1. Named(more, value) = Advanced(more)
    BY <1>2 DEF Named
  <2> DEFINE new == Advanced(more)
  <2>3. /\ new \in CaptureFrames(w)
        /\ new.fn = more.fn /\ new.pc = more.pc + 1 /\ new.names = more.names
        /\ new.params = more.params /\ new.defs = more.defs /\ new.code = more.code
        /\ new.bits = more.bits /\ new.leaves = more.leaves
        /\ new.asBit = more.asBit /\ new.asQubit = more.asQubit
    BY AdvancedIs
  <2> HIDE DEF new
  <2>4. QED BY <1>2, <2>1, <2>3 DEF new
<1>3. QED BY <1>1, <1>2

WithInstruction(more, instr) ==
    /\ more.fn = Frame.fn /\ more.pc = Frame.pc /\ more.names = Frame.names
    /\ more.leaves = Frame.leaves /\ more.asBit = Frame.asBit /\ more.asQubit = Frame.asQubit
    /\ more.params = Frame.params /\ more.defs = Frame.defs
    /\ more.code = Append(Frame.code, instr)
    /\ more.bits = IF instr.kind = "observe" THEN Append(Frame.bits, instr.result) ELSE Frame.bits

\* An instruction whose result is named when it is an assignment.
LEMMA NamedInstructionFits ==
    ASSUME StackIInv, Proceeding, Wanted = NoValue, ~AtEnd, Statement.form \in {"assign", "call"},
           NEW instr \in Instructions(world), instr.kind \in {"observe", "call"},
           NEW more \in CaptureFrames(world), WithInstruction(more, instr),
           instr.kind = "observe" =>
              /\ instr.result # NoValue /\ instr.op[2] = "explicit-observation" /\ Len(instr.refs) = 1
              /\ instr.result[2] \in {"observation-result", "discarded-observation-result"},
           instr.kind = "call" => Injective(instr.params),
           \A r \in DOMAIN Statement.args : IsQuantum(Statement.args[r]),
           instr.refs = Qubits(Statement.args), Line(instr) = Frame.pc,
           MadeHere(Frame, instr.op), instr.result # NoValue => MadeHere(Frame, instr.result),
           CallFits(world, programs, owners, Frame.fn, instr),
           NEW value,
           Statement.form = "assign" =>
              /\ instr.result # NoValue
              /\ value \in Values(world) /\ value.id = instr.result
              /\ value.quantum <=> instr.kind = "call"
    PROVE  LET new == Named(more, value)
           IN  /\ new \in CaptureFrames(world) /\ new.fn = Frame.fn
               /\ CaptureFits(world, programs, owners, new)
<1> DEFINE args == Statement.args
           target == Statement.target
           new == Named(more, value)
<1>0. stack # <<>>
  BY WaitsForNothing
<1>1. /\ world \in Worlds /\ Frame \in CaptureFrames(world)
      /\ CaptureFits(world, programs, owners, Frame)
      /\ PositionsGrow(world, Frame) /\ ValuesDeclared(Frame) /\ CodeDeclared(Frame)
      /\ Frame.fn \in DOMAIN world.functions /\ Source = world.functions[Frame.fn]
  BY <1>0, AtWork DEF Functions, CaptureFits
<1>2. instr.op \in Ids(world) /\ (instr.result # NoValue => instr.result \in Ids(world))
  BY DEF Instructions
<1>3. Statement.form = "assign" =>
         /\ target \in Source.variables \ DOMAIN Frame.names /\ target \in Variables(world)
         /\ value \in Values(world)
  <2> SUFFICES ASSUME Statement.form = "assign"
               PROVE  /\ target \in Source.variables \ DOMAIN Frame.names /\ target \in Variables(world)
                      /\ value \in Values(world)
    OBVIOUS
  <2>1. target \in Source.variables \ DOMAIN Frame.names /\ target \in Variables(world)
    BY <1>1, TargetIsNew, WorldFacts
  <2>2. QED BY <2>1
<1>4. /\ Frame.pc \in DOMAIN Body(world, Frame.fn) /\ Statement = Body(world, Frame.fn)[Frame.pc]
      /\ Frame.leaves = <<>>
  BY <1>0, AtStatement
<1>5. /\ new \in CaptureFrames(world)
      /\ new.names = IF Statement.form = "assign"
                     THEN [n \in DOMAIN more.names \union {target} |->
                              IF n = target THEN value ELSE more.names[n]]
                     ELSE more.names
      /\ new.fn = more.fn /\ new.pc = more.pc + 1 /\ new.params = more.params
      /\ new.defs = more.defs /\ new.code = more.code /\ new.bits = more.bits
      /\ new.leaves = more.leaves /\ new.asBit = more.asBit /\ new.asQubit = more.asQubit
  <2>1. Statement.form = "assign" => value \in Values(world) /\ Statement.target \in Variables(world)
    BY <1>3
  <2>2. QED BY <2>1, NamedIs
<1> HIDE DEF new
<1>6. /\ new \in CaptureFrames(world) /\ GoesOn(Frame, new) /\ new.params = Frame.params
      /\ new.defs = Frame.defs /\ new.code = Append(Frame.code, instr)
      /\ new.bits = IF instr.kind = "observe" THEN Append(Frame.bits, instr.result) ELSE Frame.bits
      /\ new.names = IF Statement.form = "assign"
                     THEN [n \in DOMAIN Frame.names \union {target} |->
                              IF n = target THEN value ELSE Frame.names[n]]
                     ELSE Frame.names
  BY <1>4, <1>5 DEF GoesOn, WithInstruction
<1>7. /\ \A r \in DOMAIN args : args[r] \in DOMAIN Frame.names
      /\ Len(args) \in Nat /\ DOMAIN Qubits(args) = 1 .. Len(args) /\ DOMAIN args = 1 .. Len(args)
      /\ Len(Qubits(args)) = Len(args)
      /\ \A r \in 1 .. Len(args) : /\ Qubits(args)[r] = Frame.names[args[r]].id
                                   /\ Qubits(args)[r] \in KnownTo(Frame)
  BY <1>0, ArgumentsKnown
<1>8. Emits(world, Frame, new, instr)
  <2>1. GateArity(instr)
    BY DEF GateArity
  <2>2. \A r \in DOMAIN instr.refs : instr.refs[r] \in KnownTo(Frame)
    BY <1>7
  <2>3. instr.op[3] >= Reached(Frame) /\ (instr.result # NoValue => instr.result[3] >= Reached(Frame))
    <3>1. \A id : MadeHere(Frame, id) => id[3] \in Nat /\ Reached(Frame) <= id[3]
      BY <1>1, <1>6, StatementPositions
    <3>2. Reached(Frame) \in Nat
      BY <1>1, <1>6, StatementPositions
    <3>3. QED BY <3>1, <3>2
  <2>4. QED BY <1>6, <2>1, <2>2, <2>3 DEF Emits
<1>9. /\ Keeps(Frame, new)
      /\ instr.kind = "call" /\ instr.result # NoValue => instr.result \in KnownTo(new)
      /\ instr.kind = "observe" => instr.result \in BitIds(Made(new))
  BY <1>1, <1>6, <1>8, NewInstructionKeeps
<1>10. NamesMove(world, Frame, new)
  <2>1. CASE Statement.form = "assign"
    <3>1. value.id = instr.result /\ (value.quantum <=> instr.kind = "call") /\ instr.result # NoValue
      BY <2>1
    <3>2. IF value.quantum THEN value.id \in KnownTo(new) ELSE value.id \in BitIds(Made(new))
      BY <1>9, <3>1
    <3>3. \E column \in {TargetColumn, CallColumn} : value.id[3] = Position(Frame.pc, column)
      BY <3>1 DEF MadeHere
    <3>4. BindsName(world, Frame, new, target, value)
      BY <1>1, <1>3, <1>4, <1>6, <2>1, <3>2, <3>3 DEF BindsName
    <3>5. QED BY <1>3, <2>1, <3>4 DEF NamesMove
  <2>2. CASE Statement.form # "assign"
    BY <1>4, <1>6, <2>2 DEF NamesMove
  <2>3. QED BY <2>1, <2>2
<1>11. DefsMove(world, Frame, new) /\ BitsMove(world, Frame, new)
  BY <1>2, <1>6 DEF DefsMove, BitsMove
<1>12. CodeMoves(world, programs, owners, Frame, new)
  <2>1. Written(Body(world, Frame.fn), instr) = args
    BY <1>4 DEF Written
  <2>2. OperandsWritten(world, Frame, instr)
    BY <1>7, <2>1 DEF OperandsWritten
  <2>3. QED BY <1>6, <2>2 DEF CodeMoves
<1>13. CaptureFits(world, programs, owners, new)
  BY <1>1, <1>4, <1>6, <1>9, <1>10, <1>11, <1>12, StatementAdvance
<1>14. QED BY <1>6, <1>13 DEF GoesOn, new

ObservedResult ==
    IF Statement.form = "assign" THEN SourceId("observation-result", TargetColumn)
    ELSE SourceId("discarded-observation-result", CallColumn)

LEMMA ObservationFits ==
    ASSUME StackIInv, Proceeding, Wanted = NoValue, ~AtEnd,
           Statement.form \in {"assign", "call"}, Meaning(Statement) = "observe"
    PROVE  LET frame == Observed(Frame, SourceId("explicit-observation", CallColumn),
                                 Frame.names[Statement.args[1]].id, ObservedResult, CallColumn)
               new == Named(frame, [quantum |-> FALSE, id |-> ObservedResult])
           IN  /\ new \in CaptureFrames(world) /\ new.fn = Frame.fn
               /\ CaptureFits(world, programs, owners, new)
<1> DEFINE args == Statement.args
           result == ObservedResult
           op == SourceId("explicit-observation", CallColumn)
           id == Frame.names[args[1]].id
           more == Observed(Frame, op, id, result, CallColumn)
           instr == ObservationOf(op, id, result, CallColumn)
           value == [quantum |-> FALSE, id |-> result]
<1>0. stack # <<>> /\ world \in Worlds
  BY WaitsForNothing DEF StackIInv
<1>1. Meaning(Statement) \notin Functions
  BY <1>0, WorldFacts DEF Functions, Intrinsics
<1>2. IntrinsicError(Statement, "observe") = NoValue
  BY <1>1, CallIsSound
<1>3. Len(args) = 1 /\ \A r \in DOMAIN args : IsQuantum(args[r])
  BY <1>0, <1>2, CodesAreNoNoValue DEF IntrinsicError, Arity
<1>4. /\ Qubits(args) \in Seq(Ids(world)) /\ Len(Qubits(args)) = 1
      /\ Qubits(args)[1] = id
  BY <1>0, <1>3, ArgumentsKnown
<1>5. Qubits(args) = <<id>>
  BY <1>4
<1>a. id \in Ids(world)
  BY <1>4
<1>6. /\ op \in Ids(world) /\ MadeHere(Frame, op) /\ op[2] = "explicit-observation"
      /\ Position(Frame.pc, CallColumn) \in Nat /\ Position(Frame.pc, CallColumn) \div LineWidth = Frame.pc
  BY <1>0, IdsMadeHere DEF NodeKinds
<1>7. /\ result \in Ids(world) /\ result # NoValue /\ MadeHere(Frame, result)
      /\ result[2] \in {"observation-result", "discarded-observation-result"}
  BY <1>0, IdsMadeHere DEF NodeKinds, ObservedResult
<1> HIDE DEF op, id, result
<1>8. Frame \in CaptureFrames(world)
  BY <1>0, AtWork
<1>9. /\ instr \in Instructions(world)
      /\ instr.op = op /\ instr.kind = "observe" /\ instr.refs = <<id>>
      /\ instr.pos = Position(Frame.pc, CallColumn) /\ instr.result = result
      /\ more \in CaptureFrames(world)
      /\ more.fn = Frame.fn /\ more.pc = Frame.pc /\ more.names = Frame.names
      /\ more.params = Frame.params /\ more.defs = Frame.defs
      /\ more.code = Append(Frame.code, instr) /\ more.bits = Append(Frame.bits, result)
      /\ more.leaves = Frame.leaves
      /\ more.asBit = Frame.asBit /\ more.asQubit = Frame.asQubit
  <2>1. op \in Ids(world) /\ result \in Ids(world) /\ Position(Frame.pc, CallColumn) \in Nat
    BY <1>6, <1>7
  <2>2. instr \in Instructions(world) /\ instr.op = op /\ instr.result = result
    BY <1>0, <1>a, <1>8, <2>1, ObservedIs
  <2>3. instr.kind = "observe"
    BY <1>0, <1>a, <1>8, <2>1, ObservedIs
  <2>4. instr.refs = <<id>>
    BY <1>0, <1>a, <1>8, <2>1, ObservedIs
  <2>5. instr.pos = Position(Frame.pc, CallColumn)
    BY <1>0, <1>a, <1>8, <2>1, ObservedIs
  <2>6. /\ more \in CaptureFrames(world)
        /\ more.fn = Frame.fn /\ more.pc = Frame.pc /\ more.names = Frame.names
    BY <1>0, <1>a, <1>8, <2>1, ObservedIs
  <2>7. /\ more.params = Frame.params /\ more.defs = Frame.defs /\ more.leaves = Frame.leaves
        /\ more.asBit = Frame.asBit /\ more.asQubit = Frame.asQubit
    BY <1>0, <1>a, <1>8, <2>1, ObservedIs
  <2>8. more.code = Append(Frame.code, instr)
    BY <1>0, <1>a, <1>8, <2>1, ObservedIs
  <2>9. more.bits = Append(Frame.bits, result)
    BY <1>0, <1>a, <1>8, <2>1, ObservedIs
  <2> HIDE DEF more, instr
  <2>10. QED BY <2>2, <2>3, <2>4, <2>5, <2>6, <2>7, <2>8, <2>9
<1> HIDE DEF more, instr
<1>10. WithInstruction(more, instr)
  BY <1>9 DEF WithInstruction
<1>11. /\ instr.kind \in {"observe", "call"} /\ instr.refs = Qubits(args) /\ Line(instr) = Frame.pc
       /\ instr.result # NoValue /\ instr.op[2] = "explicit-observation" /\ Len(instr.refs) = 1
       /\ instr.result[2] \in {"observation-result", "discarded-observation-result"}
       /\ instr.kind # "call" /\ MadeHere(Frame, instr.op) /\ MadeHere(Frame, instr.result)
  BY <1>4, <1>5, <1>6, <1>7, <1>9 DEF Line
<1>12. CallFits(world, programs, owners, Frame.fn, instr)
  BY <1>11 DEF CallFits
<1>13. value \in Values(world) /\ value.id = instr.result /\ (value.quantum <=> instr.kind = "call")
  BY <1>7, <1>9, <1>11 DEF Values
<1> HIDE DEF value
<1>14. LET new == Named(more, value)
       IN  /\ new \in CaptureFrames(world) /\ new.fn = Frame.fn
           /\ CaptureFits(world, programs, owners, new)
  BY <1>3, <1>9, <1>10, <1>11, <1>12, <1>13, NamedInstructionFits
<1>15. QED BY <1>14 DEF more, value, op, id, result

\* A call of a captured function.
CallResult == IF Statement.form = "assign" THEN SourceId("call-result", CallColumn) ELSE NoValue

CallOf(function, callee, result) ==
    [Instruction(SourceId("quantum-call", CallColumn), "call", Qubits(Statement.args), CallColumn)
       EXCEPT !.callee = function.id, !.params = callee.params, !.result = result,
              !.callee_value = IF Statement.form = "assign" THEN callee.leaves[1].id ELSE NoValue]

LEMMA QuantumCallFits ==
    ASSUME StackIInv, ProgramsIInv, Proceeding, Wanted = NoValue, IsQuantumCall,
           NEW function, function = Function(Meaning(Statement)),
           NEW callee, callee = programs[function.id]
    PROVE  LET new == Named(Emit(Frame, CallOf(function, callee, CallResult)),
                            [quantum |-> TRUE, id |-> CallResult])
           IN  /\ new \in CaptureFrames(world) /\ new.fn = Frame.fn
               /\ CaptureFits(world, programs, owners, new)
<1> DEFINE args == Statement.args
           op == SourceId("quantum-call", CallColumn)
           refs == Qubits(args)
           result == CallResult
           instr == CallOf(function, callee, result)
           last == IF Statement.form = "assign" THEN callee.leaves[1].id ELSE NoValue
           plain == Instruction(op, "call", refs, CallColumn)
           more == Emit(Frame, instr)
           value == [quantum |-> TRUE, id |-> result]
<1>0. stack # <<>> /\ world \in Worlds /\ ~AtEnd /\ Statement.form \in {"assign", "call"}
      /\ Meaning(Statement) \in Functions
  BY WaitsForNothing DEF StackIInv, IsQuantumCall
<1>1. /\ CalleeError(Statement, callee) = NoValue /\ ~TargetTaken(Statement)
  BY <1>0, CallIsSound
<1>2. /\ Len(args) = Len(callee.params) /\ \A r \in DOMAIN args : IsQuantum(args[r])
      /\ Composed(callee, Statement.form = "assign")
  BY <1>0, <1>1, CodesAreNoNoValue DEF CalleeError
<1>3. function.id \in DOMAIN programs /\ owners[function.id] = Meaning(Statement)
  BY <1>0, <1>1, WaitsForNothing DEF IsCaptured
<1>4. /\ ProgramTyped(world, callee) /\ IsLogicalProgram(callee)
  BY <1>3 DEF ProgramsIInv
<1>5. function.id \in ProgramIds(world)
  BY <1>0 DEF ProgramIds, Functions, Function
<1>6. /\ refs \in Seq(Ids(world)) /\ Len(refs) = Len(args)
  BY <1>0, <1>2, ArgumentsKnown
<1>7. /\ op \in Ids(world) /\ MadeHere(Frame, op)
      /\ Position(Frame.pc, CallColumn) \in Nat /\ Position(Frame.pc, CallColumn) \div LineWidth = Frame.pc
  BY <1>0, IdsMadeHere DEF NodeKinds
<1>8. /\ Statement.form = "assign" => result \in Ids(world) /\ result # NoValue /\ MadeHere(Frame, result)
      /\ Statement.form # "assign" => result = NoValue
  BY <1>0, IdsMadeHere DEF NodeKinds, CallResult
<1>9. /\ Statement.form = "assign" => IsScalarQuantum(callee) /\ last \in Ids(world)
      /\ Statement.form # "assign" => callee.shape = "none" /\ last = NoValue
      /\ Observations(callee) = {}
  <2>1. CASE Statement.form = "assign"
    <3>1. IsScalarQuantum(callee) /\ Observations(callee) = {}
      BY <1>2, <2>1 DEF Composed
    <3>2. callee.leaves \in Seq(Values(world)) /\ callee.leaves # <<>>
      BY <1>4, <3>1 DEF ProgramTyped, IsScalarQuantum
    <3>3. callee.leaves[1] \in Values(world)
      BY <3>2
    <3>4. QED BY <2>1, <3>1, <3>3 DEF Values
  <2>2. CASE Statement.form # "assign"
    BY <1>2, <2>2 DEF Composed
  <2>3. QED BY <2>1, <2>2
<1>10. /\ plain \in Instructions(world)
       /\ plain.op = op /\ plain.kind = "call" /\ plain.refs = refs
       /\ plain.pos = Position(Frame.pc, CallColumn)
  <2> HIDE DEF op, refs
  <2>1. "call" \in Kinds
    BY DEF Kinds
  <2>2. QED BY <1>6, <1>7, <2>1, InstructionIs
<1>11. instr = [plain EXCEPT !.callee = function.id, !.params = callee.params, !.result = result,
                             !.callee_value = last]
  BY DEF CallOf
<1> HIDE DEF plain, op, refs, last, result, instr
<1>12. /\ instr \in Instructions(world)
       /\ instr.op = op /\ instr.kind = "call" /\ instr.refs = refs
       /\ instr.pos = Position(Frame.pc, CallColumn) /\ instr.result = result
       /\ instr.callee = function.id /\ instr.params = callee.params /\ instr.callee_value = last
  <2>1. callee.params \in Seq(Ids(world))
    BY <1>4 DEF ProgramTyped
  <2>2. result \in Ids(world) \union {NoValue} /\ last \in Ids(world) \union {NoValue}
    BY <1>8, <1>9
  <2>3. QED BY <1>5, <1>10, <1>11, <2>1, <2>2 DEF Instructions
<1>13. Frame \in CaptureFrames(world)
  BY <1>0, AtWork
<1>14. /\ more \in CaptureFrames(world)
       /\ more.fn = Frame.fn /\ more.pc = Frame.pc /\ more.names = Frame.names
       /\ more.params = Frame.params /\ more.defs = Frame.defs
       /\ more.code = Append(Frame.code, instr) /\ more.bits = Frame.bits
       /\ more.leaves = Frame.leaves
       /\ more.asBit = Frame.asBit /\ more.asQubit = Frame.asQubit
  BY <1>12, <1>13, EmitIs
<1> HIDE DEF more
<1>15. WithInstruction(more, instr)
  BY <1>12, <1>14 DEF WithInstruction
<1>16. Injective(instr.params)
  BY <1>4, <1>12 DEF IsLogicalProgram
<1>17. Line(instr) = Frame.pc
  BY <1>7, <1>12 DEF Line
<1>18. CallFits(world, programs, owners, Frame.fn, instr)
  <2>1. CallResolved([programs |-> programs], instr)
    BY <1>2, <1>3, <1>6, <1>8, <1>9, <1>12, SMTT(30) DEF CallResolved, last
  <2>2. owners[instr.callee] = MeaningIn(world, Body(world, Frame.fn)[Line(instr)])
    <3>1. Statement = Body(world, Frame.fn)[Frame.pc]
      BY <1>0, AtStatement
    <3>2. QED BY <1>3, <1>12, <1>17, <3>1, Zenon DEF MeaningIn, Meaning
  <2>3. QED BY <1>9, <1>12, <2>1, <2>2 DEF CallFits
<1>19. Statement.form = "assign" =>
          /\ instr.result # NoValue
          /\ value \in Values(world) /\ value.id = instr.result
          /\ value.quantum <=> instr.kind = "call"
  BY <1>8, <1>12 DEF Values
<1> HIDE DEF value
<1>20. /\ instr.kind \in {"observe", "call"} /\ instr.kind # "observe" /\ instr.refs = Qubits(args)
       /\ MadeHere(Frame, instr.op) /\ (instr.result # NoValue => MadeHere(Frame, instr.result))
  BY <1>7, <1>8, <1>12 DEF refs
<1>21. LET new == Named(more, value)
       IN  /\ new \in CaptureFrames(world) /\ new.fn = Frame.fn
           /\ CaptureFits(world, programs, owners, new)
  BY <1>0, <1>2, <1>12, <1>14, <1>15, <1>16, <1>17, <1>18, <1>19, <1>20, NamedInstructionFits
<1>22. QED BY <1>21 DEF more, value, instr, result

-----------------------------------------------------------------------------
(* Leaves of the return.                                                   *)

-----------------------------------------------------------------------------
(* The return, leaf by leaf.                                               *)

NextColumn(old) == Len(old.leaves) + 1

\* The name that the next leaf is written as.
LeafName(w, old) == Body(w, old.fn)[old.pc].args[NextColumn(old)]

\* A leaf is aligned: nothing else is made but what a bit's observation is.
Aligns(w, old, new, leaf) ==
    /\ new.fn = old.fn /\ new.pc = old.pc /\ new.names = old.names
    /\ new.params = old.params /\ new.defs = old.defs
    /\ new.leaves = Append(old.leaves, leaf)
    /\ old.asBit \subseteq new.asBit /\ old.asQubit \subseteq new.asQubit
    /\ new.asBit \intersect new.asQubit = {}
    /\ IF leaf.quantum THEN leaf.id \in KnownTo(new) /\ leaf.id \in new.asQubit
       ELSE leaf.id \in BitIds(Made(new))

ObservesLeaf(w, old, new, instr) ==
    /\ new.code = Append(old.code, instr) /\ new.bits = Append(old.bits, instr.result)
    /\ instr.kind = "observe" /\ instr.result # NoValue
    /\ instr.result[2] = "observation-result"
    /\ instr.op[3] = Position(old.pc, NextColumn(old))
    /\ instr.result[3] = Position(old.pc, NextColumn(old))
    /\ instr.pos = Position(old.pc, NextColumn(old))
    /\ LeafName(w, old) \in DOMAIN old.names
    /\ instr.refs = <<old.names[LeafName(w, old)].id>>
    /\ instr.refs[1] \in KnownTo(old) /\ instr.refs[1] \in new.asBit

AtReturn(w, old) ==
    LET body == Body(w, old.fn)
    IN  /\ old.pc \in DOMAIN body /\ old.pc = Len(body) /\ body[old.pc].form = "return"
        /\ NextColumn(old) <= Len(body[old.pc].args) /\ Len(body[old.pc].args) < LineWidth
        /\ Len(body[old.pc].args) \in Nat

LEMMA LeafPositions ==
    ASSUME NEW w \in Worlds, NEW old \in CaptureFrames(w), PositionsGrow(w, old), AtReturn(w, old)
    PROVE  /\ Reached(old) \in Nat /\ Reached(old) = Position(old.pc, NextColumn(old))
           /\ Reached(old) \div LineWidth = old.pc /\ Reached(old) % LineWidth = NextColumn(old)
           /\ NextColumn(old) \in Nat
           /\ Position(old.pc, NextColumn(old) + 1) = Reached(old) + 1
<1>1. old.pc \in Nat /\ NextColumn(old) \in Nat
  BY FrameFacts DEF NextColumn
<1>2. NextColumn(old) < LineWidth
  BY <1>1, LinesAreWideEnough DEF AtReturn
<1>3. QED BY <1>1, <1>2, PositionFacts DEF Reached, NextColumn

LEMMA LeafAdvance ==
    ASSUME NEW w \in Worlds, NEW old \in CaptureFrames(w), NEW new \in CaptureFrames(w),
           NEW ps, NEW ow, CaptureFits(w, ps, ow, old), AtReturn(w, old),
           NEW leaf \in Values(w), Aligns(w, old, new, leaf),
           \/ new.code = old.code /\ new.bits = old.bits
           \/ \E instr \in Instructions(w) : ObservesLeaf(w, old, new, instr)
    PROVE  CaptureFits(w, ps, ow, new)
<1> DEFINE n == Len(old.leaves)
           R == Reached(old)
           Grown == \E instr \in Instructions(w) : ObservesLeaf(w, old, new, instr)
<1>0. /\ PositionsGrow(w, old) /\ ValuesDeclared(old) /\ CodeDeclared(old)
      /\ NamesDeclared(old) /\ LeavesDeclared(old)
      /\ NamesGoBack(w, old) /\ OperandsNamed(w, old) /\ CallsFit(w, ps, ow, old.fn, old.code)
      /\ new.fn = old.fn /\ new.pc = old.pc /\ new.names = old.names /\ new.defs = old.defs
  BY DEF CaptureFits, Aligns
<1>1. n \in Nat /\ Len(new.leaves) = n + 1 /\ new.leaves = Append(old.leaves, leaf)
      /\ old.leaves \in Seq(Values(w))
  <2>1. old.leaves \in Seq(Values(w)) /\ new.leaves = Append(old.leaves, leaf)
    BY FrameFacts DEF Aligns
  <2>2. QED BY <2>1
<1>2. /\ R \in Nat /\ R = Position(old.pc, NextColumn(old)) /\ Reached(new) = R + 1
      /\ R \div LineWidth = old.pc /\ R % LineWidth = NextColumn(old)
  <2>1. Reached(new) = Position(old.pc, NextColumn(old) + 1)
    BY <1>0, <1>1 DEF Reached, NextColumn
  <2>2. QED BY <1>0, <2>1, LeafPositions
<1>3. Keeps(old, new)
      /\ Observations(Made(new)) \subseteq Observations(Made(old)) \union {Len(old.code) + 1}
  <2>1. CASE new.code = old.code /\ new.bits = old.bits
    <3>1. Keeps(old, new)
      BY <1>0, <2>1, SameMakesKeep DEF Aligns
    <3>2. Observations(Made(new)) = Observations(Made(old))
      BY <2>1, MadeIs
    <3>3. QED BY <3>1, <3>2
  <2>2. ASSUME NEW instr \in Instructions(w), ObservesLeaf(w, old, new, instr)
        PROVE  Keeps(old, new)
               /\ Observations(Made(new)) \subseteq Observations(Made(old)) \union {Len(old.code) + 1}
    <3>1. GateArity(instr) /\ \A r \in DOMAIN instr.refs : instr.refs[r] \in KnownTo(old)
      BY <2>2 DEF ObservesLeaf, GateArity
    <3>2. instr.op[3] >= R /\ instr.result[3] >= R
      BY <1>2, <2>2 DEF ObservesLeaf
    <3>3. Emits(w, old, new, instr)
      BY <2>2, <3>1, <3>2 DEF ObservesLeaf, Emits, Aligns
    <3>4. instr.kind = "observe"
      BY <2>2 DEF ObservesLeaf
    <3>5. /\ Keeps(old, new)
          /\ Observations(Made(new)) = Observations(Made(old)) \union {Len(old.code) + 1}
      BY <1>0, <3>3, <3>4, NewInstructionKeeps
    <3>6. QED BY <3>5
  <2>3. QED BY <2>1, <2>2
<1>4. ASSUME NEW i \in DOMAIN new.code
      PROVE  \/ i \in DOMAIN old.code /\ new.code[i] = old.code[i]
             \/ i = Len(old.code) + 1 /\ ObservesLeaf(w, old, new, new.code[i])
  <2>1. CASE new.code = old.code
    BY <2>1
  <2>2. ASSUME NEW instr \in Instructions(w), ObservesLeaf(w, old, new, instr)
        PROVE  \/ i \in DOMAIN old.code /\ new.code[i] = old.code[i]
               \/ i = Len(old.code) + 1 /\ ObservesLeaf(w, old, new, new.code[i])
    <3>1. new.code = Append(old.code, instr) /\ old.code \in Seq(Instructions(w))
      BY <2>2, FrameFacts DEF ObservesLeaf
    <3>2. (i \in DOMAIN old.code /\ new.code[i] = old.code[i])
            \/ (i = Len(old.code) + 1 /\ new.code[i] = instr)
      BY <3>1, Appended
    <3>3. QED BY <2>2, <3>2
  <2>3. QED BY <2>1, <2>2
<1>5. PositionsGrow(w, new)
  <2>1. \A d \in DOMAIN new.defs : new.defs[d].id[3] < R + 1
    <3>1. \A d \in DOMAIN old.defs : old.defs[d].id[3] \in Nat /\ old.defs[d].id[3] < R
      BY <1>0, FrameFacts, IdFacts DEF PositionsGrow
    <3>2. QED BY <1>0, <1>2, <3>1
  <2>2. \A b \in DOMAIN new.bits : new.bits[b][3] < R + 1
    <3>0. \A b \in DOMAIN old.bits : old.bits[b][3] \in Nat /\ old.bits[b][3] < R
      BY <1>0, FrameFacts, IdFacts DEF PositionsGrow
    <3>1. CASE new.bits = old.bits
      BY <1>2, <3>0, <3>1
    <3>2. ASSUME NEW instr \in Instructions(w), ObservesLeaf(w, old, new, instr), NEW b \in DOMAIN new.bits
          PROVE  new.bits[b][3] < R + 1
      <4>1. /\ new.bits = Append(old.bits, instr.result) /\ instr.result \in Ids(w)
            /\ instr.result[3] = R
        BY <1>2, <3>2 DEF ObservesLeaf, Instructions
      <4>2. (b \in DOMAIN old.bits /\ new.bits[b] = old.bits[b]) \/ new.bits[b] = instr.result
        BY <4>1, FrameFacts, Appended
      <4>3. QED BY <1>2, <3>0, <4>1, <4>2
    <3>3. QED BY <3>1, <3>2
  <2>3. ASSUME NEW i \in DOMAIN new.code
        PROVE  new.code[i].op[3] < R + 1 /\ (new.code[i].result # NoValue => new.code[i].result[3] < R + 1)
    <3>1. CASE i \in DOMAIN old.code /\ new.code[i] = old.code[i]
      <4>1. old.code[i].op \in Ids(w) /\ (old.code[i].result # NoValue => old.code[i].result \in Ids(w))
        BY <3>1, FrameFacts DEF Instructions
      <4>2. old.code[i].op[3] \in Nat /\ (old.code[i].result # NoValue => old.code[i].result[3] \in Nat)
        BY <4>1, IdFacts
      <4>3. old.code[i].op[3] < R /\ (old.code[i].result # NoValue => old.code[i].result[3] < R)
        BY <1>0, <3>1 DEF PositionsGrow
      <4>4. QED BY <1>2, <3>1, <4>2, <4>3
    <3>2. CASE ObservesLeaf(w, old, new, new.code[i])
      BY <1>2, <3>2 DEF ObservesLeaf
    <3>3. QED BY <1>4, <3>1, <3>2
  <2>4. QED BY <1>0, <1>2, <2>1, <2>2, <2>3 DEF PositionsGrow
<1>6. LeavesAtReturn(w, new)
  BY <1>0, <1>1 DEF LeavesAtReturn, AtReturn, NextColumn
<1>7. ValuesDeclared(new) /\ CodeDeclared(new)
  BY <1>3 DEF Keeps
<1>8. NamesDeclared(new)
  BY <1>0, <1>3 DEF NamesDeclared, Keeps
<1>9. LeavesDeclared(new)
  <2>1. ASSUME NEW l \in DOMAIN new.leaves
        PROVE  IF new.leaves[l].quantum
               THEN new.leaves[l].id \in KnownTo(new) /\ new.leaves[l].id \in new.asQubit
               ELSE new.leaves[l].id \in BitIds(Made(new))
    <3>1. (l \in DOMAIN old.leaves /\ new.leaves[l] = old.leaves[l]) \/ new.leaves[l] = leaf
      BY <1>1, Appended
    <3>2. CASE l \in DOMAIN old.leaves /\ new.leaves[l] = old.leaves[l]
      BY <1>0, <1>3, <3>2 DEF LeavesDeclared, Keeps, Aligns
    <3>3. CASE new.leaves[l] = leaf
      BY <3>3 DEF Aligns
    <3>4. QED BY <3>1, <3>2, <3>3
  <2>2. ASSUME NEW i \in Observations(Made(new))
        PROVE  new.code[i].op[2] = "explicit-observation" \/ new.code[i].refs[1] \in new.asBit
    <3>0. i \in DOMAIN new.code /\ new.code[i].kind = "observe"
      BY MadeIs
    <3>1. CASE i \in DOMAIN old.code /\ new.code[i] = old.code[i]
      <4>1. i \in Observations(Made(old))
        BY <3>0, <3>1, MadeIs
      <4>2. QED BY <1>0, <3>1, <4>1 DEF LeavesDeclared, Aligns
    <3>2. CASE ObservesLeaf(w, old, new, new.code[i])
      BY <3>2 DEF ObservesLeaf
    <3>3. QED BY <1>4, <3>0, <3>1, <3>2
  <2>3. QED BY <2>1, <2>2 DEF LeavesDeclared, Aligns
<1>10. NamesGoBack(w, new)
  BY <1>0 DEF NamesGoBack
<1>11. OperandsNamed(w, new)
  <2>1. ASSUME NEW i \in DOMAIN new.code
        PROVE  LET names == Written(Body(w, old.fn), new.code[i])
               IN  /\ Line(new.code[i]) \in 1 .. Len(Body(w, old.fn))
                   /\ \A r \in DOMAIN names :
                         names[r] \in DOMAIN old.names /\ new.code[i].refs[r] = old.names[names[r]].id
    <3>1. CASE i \in DOMAIN old.code /\ new.code[i] = old.code[i]
      BY <1>0, <3>1 DEF OperandsNamed
    <3>2. CASE ObservesLeaf(w, old, new, new.code[i])
      <4>1. Line(new.code[i]) = old.pc /\ new.code[i].pos % LineWidth = NextColumn(old)
        BY <1>2, <3>2 DEF ObservesLeaf, Line
      <4>2. Written(Body(w, old.fn), new.code[i]) = <<LeafName(w, old)>>
        BY <4>1 DEF Written, AtReturn, LeafName
      <4>3. old.pc \in 1 .. Len(Body(w, old.fn))
        BY WorldFacts, FrameFacts DEF AtReturn
      <4>4. QED BY <3>2, <4>1, <4>2, <4>3 DEF ObservesLeaf
    <3>3. QED BY <1>4, <3>1, <3>2
  <2>2. QED BY <1>0, <2>1 DEF OperandsNamed
<1>12. CallsFit(w, ps, ow, new.fn, new.code)
  <2>1. ASSUME NEW i \in DOMAIN new.code, new.code[i].kind = "call"
        PROVE  i \in DOMAIN old.code /\ new.code[i] = old.code[i]
    <3>1. ~ ObservesLeaf(w, old, new, new.code[i])
      BY <2>1 DEF ObservesLeaf
    <3>2. QED BY <1>4, <3>1
  <2>2. QED BY <1>0, <2>1 DEF CallsFit
<1>13. QED BY <1>5, <1>6, <1>7, <1>8, <1>9, <1>10, <1>11, <1>12 DEF CaptureFits

WithLeaf(frame, leaf) == [frame EXCEPT !.leaves = Append(@, leaf)]
AsQubit(frame, id) == [frame EXCEPT !.asQubit = @ \union {id}]
AsBit(frame, id) == [frame EXCEPT !.asBit = @ \union {id}]

LEMMA LeafAdded ==
    ASSUME NEW w, NEW frame \in CaptureFrames(w), NEW leaf \in Values(w)
    PROVE  LET new == WithLeaf(frame, leaf)
           IN  /\ new \in CaptureFrames(w)
               /\ new.fn = frame.fn /\ new.pc = frame.pc /\ new.names = frame.names
               /\ new.params = frame.params /\ new.defs = frame.defs /\ new.code = frame.code
               /\ new.bits = frame.bits /\ new.leaves = Append(frame.leaves, leaf)
               /\ new.asBit = frame.asBit /\ new.asQubit = frame.asQubit
<1>1. Append(frame.leaves, leaf) \in Seq(Values(w))
  <2>1. frame.leaves \in Seq(Values(w))
    BY DEF CaptureFrames
  <2>2. QED BY <2>1
<1>2. [frame EXCEPT !.leaves = Append(@, leaf)] = [frame EXCEPT !.leaves = Append(frame.leaves, leaf)]
  OBVIOUS
<1>3. QED BY <1>1, <1>2 DEF CaptureFrames, WithLeaf

LEMMA MarkedAsQubit ==
    ASSUME NEW w, NEW frame \in CaptureFrames(w), NEW id \in Ids(w)
    PROVE  LET new == AsQubit(frame, id)
           IN  /\ new \in CaptureFrames(w)
               /\ new.fn = frame.fn /\ new.pc = frame.pc /\ new.names = frame.names
               /\ new.params = frame.params /\ new.defs = frame.defs /\ new.code = frame.code
               /\ new.bits = frame.bits /\ new.leaves = frame.leaves
               /\ new.asBit = frame.asBit /\ new.asQubit = frame.asQubit \union {id}
<1>1. frame.asQubit \union {id} \in SUBSET Ids(w)
  BY DEF CaptureFrames
<1>2. [frame EXCEPT !.asQubit = @ \union {id}] = [frame EXCEPT !.asQubit = frame.asQubit \union {id}]
  OBVIOUS
<1>3. QED BY <1>1, <1>2 DEF CaptureFrames, AsQubit

LEMMA MarkedAsBit ==
    ASSUME NEW w, NEW frame \in CaptureFrames(w), NEW id \in Ids(w)
    PROVE  LET new == AsBit(frame, id)
           IN  /\ new \in CaptureFrames(w)
               /\ new.fn = frame.fn /\ new.pc = frame.pc /\ new.names = frame.names
               /\ new.params = frame.params /\ new.defs = frame.defs /\ new.code = frame.code
               /\ new.bits = frame.bits /\ new.leaves = frame.leaves
               /\ new.asBit = frame.asBit \union {id} /\ new.asQubit = frame.asQubit
<1>1. frame.asBit \union {id} \in SUBSET Ids(w)
  BY DEF CaptureFrames
<1>2. [frame EXCEPT !.asBit = @ \union {id}] = [frame EXCEPT !.asBit = frame.asBit \union {id}]
  OBVIOUS
<1>3. QED BY <1>1, <1>2 DEF CaptureFrames, AsBit

\* What is checked of a leaf.
LEMMA LeafIsSound ==
    ASSUME StackIInv, InBody("return"), ~AllLeavesAligned
    PROVE  LET name == Statement.args[NextLeaf]
               value == Frame.names[name]
           IN  /\ AtReturn(world, Frame) /\ name = LeafName(world, Frame)
               /\ NextLeaf = NextColumn(Frame)
               /\ name \in DOMAIN Frame.names /\ value \in Values(world)
               /\ Source.returns.kinds[NextLeaf] = "qubit" => value.quantum /\ value.id \notin Frame.asBit
               /\ Source.returns.kinds[NextLeaf] # "qubit" /\ value.quantum =>
                     value.id \notin Frame.asQubit
<1> DEFINE name == Statement.args[NextLeaf]
           value == Frame.names[name]
<1>0. Proceeding /\ Wanted = NoValue /\ ~AtEnd /\ Statement.form = "return" /\ stack # <<>>
      /\ StatementError(Statement) = NoValue /\ world \in Worlds
  BY WaitsForNothing DEF InBody, StackIInv
<1>1. ReturnError(Statement) = NoValue /\ LeafError(Statement) = NoValue
  BY <1>0 DEF StatementError
<1>2. Frame.pc = Len(Source.body) /\ Frame.pc \in DOMAIN Body(world, Frame.fn)
      /\ Source.body = Body(world, Frame.fn) /\ Statement = Body(world, Frame.fn)[Frame.pc]
  BY <1>0, <1>1, CodesAreNoNoValue, AtWork, AtStatement DEF ReturnError
<1>3. /\ Statement.args \in Seq(Source.variables) /\ Len(Statement.args) < LineWidth
      /\ Len(Statement.args) \in Nat
  <2>1. Statement.args \in Seq(Source.variables) /\ Len(Statement.args) < LineWidth
    BY <1>0, AtStatement DEF IsStatement
  <2>2. QED BY <2>1
<1>4. NextLeaf = NextColumn(Frame) /\ NextLeaf <= Len(Statement.args)
  <2>1. Len(Frame.leaves) \in Nat
    BY <1>0, AtWork, FrameFacts
  <2>2. QED BY <1>3, <2>1 DEF AllLeavesAligned, NextLeaf, NextColumn
<1>5. AtReturn(world, Frame)
  BY <1>0, <1>2, <1>3, <1>4 DEF AtReturn
<1>6. name = LeafName(world, Frame)
  BY <1>2, <1>4 DEF LeafName
<1>7. name \in DOMAIN Frame.names
  BY <1>0, <1>1, CodesAreNoNoValue DEF LeafError, IsBound
<1>8. value \in Values(world)
  BY <1>0, <1>7, AtWork, FrameFacts
<1>9. /\ Source.returns.kinds[NextLeaf] = "qubit" => value.quantum /\ value.id \notin Frame.asBit
      /\ Source.returns.kinds[NextLeaf] # "qubit" /\ value.quantum => value.id \notin Frame.asQubit
  BY <1>0, <1>1, <1>7, CodesAreNoNoValue DEF LeafError, IsBound, IsQuantum
<1>10. QED BY <1>4, <1>5, <1>6, <1>7, <1>8, <1>9

\* A leaf that is returned as it is.
LEMMA PlainLeafFits ==
    ASSUME StackIInv, InBody("return"), ~AllLeavesAligned,
           NEW new \in CaptureFrames(world), NEW leaf \in Values(world),
           leaf = Frame.names[Statement.args[NextLeaf]],
           new.fn = Frame.fn, new.pc = Frame.pc, new.names = Frame.names,
           new.params = Frame.params, new.defs = Frame.defs, new.code = Frame.code,
           new.bits = Frame.bits, new.leaves = Append(Frame.leaves, leaf),
           new.asBit = Frame.asBit,
           IF leaf.quantum THEN new.asQubit = Frame.asQubit \union {leaf.id} /\ leaf.id \notin Frame.asBit
           ELSE new.asQubit = Frame.asQubit
    PROVE  CaptureFits(world, programs, owners, new)
<1>0. stack # <<>> /\ world \in Worlds
  BY WaitsForNothing DEF InBody, StackIInv
<1>1. /\ Frame \in CaptureFrames(world) /\ CaptureFits(world, programs, owners, Frame)
      /\ NamesDeclared(Frame) /\ LeavesDeclared(Frame)
  BY <1>0, AtWork DEF CaptureFits
<1>2. AtReturn(world, Frame) /\ Statement.args[NextLeaf] \in DOMAIN Frame.names
  BY LeafIsSound
<1>3. Made(new) = Made(Frame) /\ KnownTo(new) = KnownTo(Frame)
  BY DEF Made, KnownTo
<1>4. IF leaf.quantum THEN leaf.id \in KnownTo(new) ELSE leaf.id \in BitIds(Made(new))
  BY <1>1, <1>2, <1>3 DEF NamesDeclared
<1>5. new.asBit \intersect new.asQubit = {} /\ Frame.asQubit \subseteq new.asQubit
      /\ (leaf.quantum => leaf.id \in new.asQubit)
  <2>1. Frame.asBit \intersect Frame.asQubit = {}
    BY <1>1 DEF LeavesDeclared
  <2>2. QED BY <2>1
<1>6. Aligns(world, Frame, new, leaf)
  BY <1>4, <1>5 DEF Aligns
<1>7. QED BY <1>0, <1>1, <1>2, <1>6, LeafAdvance

LEMMA BitsAreBitIds ==
    ASSUME NEW frame, NEW b \in DOMAIN frame.bits, NEW bit, frame.bits[b] = bit
    PROVE  bit \in BitIds(Made(frame))
BY MadeIs

\* A qubit that is observed for the return.
LEMMA ObservedLeafFits ==
    ASSUME StackIInv, InBody("return"), ~AllLeavesAligned,
           NEW new \in CaptureFrames(world), NEW id \in Ids(world), NEW bit \in Ids(world),
           NEW instr \in Instructions(world),
           id = Frame.names[Statement.args[NextLeaf]].id,
           Frame.names[Statement.args[NextLeaf]].quantum, id \notin Frame.asQubit,
           bit[2] = "observation-result", bit[3] = Position(Frame.pc, NextLeaf),
           instr.op[3] = Position(Frame.pc, NextLeaf), instr.pos = Position(Frame.pc, NextLeaf),
           instr.kind = "observe", instr.result = bit, instr.refs = <<id>>,
           new.fn = Frame.fn, new.pc = Frame.pc, new.names = Frame.names,
           new.params = Frame.params, new.defs = Frame.defs,
           new.code = Append(Frame.code, instr), new.bits = Append(Frame.bits, bit),
           new.leaves = Append(Frame.leaves, [quantum |-> FALSE, id |-> bit]),
           new.asBit = Frame.asBit \union {id}, new.asQubit = Frame.asQubit
    PROVE  CaptureFits(world, programs, owners, new)
<1> DEFINE leaf == [quantum |-> FALSE, id |-> bit]
<1>0. stack # <<>> /\ world \in Worlds
  BY WaitsForNothing DEF InBody, StackIInv
<1>1. /\ Frame \in CaptureFrames(world) /\ CaptureFits(world, programs, owners, Frame)
      /\ NamesDeclared(Frame) /\ LeavesDeclared(Frame)
  BY <1>0, AtWork DEF CaptureFits
<1>2. AtReturn(world, Frame) /\ Statement.args[NextLeaf] \in DOMAIN Frame.names
      /\ Statement.args[NextLeaf] = LeafName(world, Frame) /\ NextLeaf = NextColumn(Frame)
  BY LeafIsSound
<1>3. id \in KnownTo(Frame)
  BY <1>1, <1>2 DEF NamesDeclared
<1>4. bit # NoValue /\ instr.refs[1] = id
  BY <1>0, NoIdIsNoValue
<1>5. ObservesLeaf(world, Frame, new, instr)
  BY <1>2, <1>3, <1>4 DEF ObservesLeaf
<1>6. bit \in BitIds(Made(new))
  <2>1. Frame.bits \in Seq(Ids(world))
    BY <1>0, <1>1, FrameFacts
  <2>2. Len(Frame.bits) + 1 \in DOMAIN new.bits /\ new.bits[Len(Frame.bits) + 1] = bit
    BY <2>1
  <2>3. QED BY <2>2, BitsAreBitIds
<1>7. new.asBit \intersect new.asQubit = {} /\ Frame.asBit \subseteq new.asBit
  <2>1. Frame.asBit \intersect Frame.asQubit = {}
    BY <1>1 DEF LeavesDeclared
  <2>2. QED BY <2>1
<1>8. leaf \in Values(world) /\ ~leaf.quantum /\ leaf.id = bit
  BY DEF Values
<1>9. Aligns(world, Frame, new, leaf)
  <2>1. new.leaves = Append(Frame.leaves, leaf)
    OBVIOUS
  <2> HIDE DEF leaf
  <2>2. QED BY <1>6, <1>7, <1>8, <2>1 DEF Aligns
<1> HIDE DEF leaf
<1>10. QED BY <1>0, <1>1, <1>2, <1>5, <1>8, <1>9, LeafAdvance

\* Identifiers made of a leaf's column.
LEMMA IdsMadeOfLeaf ==
    ASSUME StackIInv, InBody("return"), ~AllLeavesAligned, NEW kind \in NodeKinds
    PROVE  /\ SourceId(kind, NextLeaf) \in Ids(world) /\ SourceId(kind, NextLeaf)[2] = kind
           /\ SourceId(kind, NextLeaf)[3] = Position(Frame.pc, NextLeaf)
           /\ Position(Frame.pc, NextLeaf) \in Nat
<1>0. stack # <<>>
  BY WaitsForNothing DEF InBody
<1>1. world \in Worlds /\ Source.id \in ProgramIds(world) /\ Frame \in CaptureFrames(world)
      /\ CaptureFits(world, programs, owners, Frame)
  BY <1>0, AtWork
<1>2. AtReturn(world, Frame) /\ NextLeaf = NextColumn(Frame)
  BY LeafIsSound
<1>3. PositionsGrow(world, Frame)
  BY <1>1 DEF CaptureFits
<1>4. Position(Frame.pc, NextLeaf) \in Nat
  BY <1>1, <1>2, <1>3, LeafPositions
<1>5. QED BY <1>1, <1>4 DEF SourceId, Ids

\* A leaf that is returned as it is.
LEMMA ReturnedQubitFits ==
    ASSUME StackIInv, InBody("return"), ~AllLeavesAligned, Source.returns.kinds[NextLeaf] = "qubit"
    PROVE  LET value == Frame.names[Statement.args[NextLeaf]]
               new == AsQubit(WithLeaf(Frame, value), value.id)
           IN  /\ value.quantum /\ value \in Values(world)
               /\ new \in CaptureFrames(world) /\ new.fn = Frame.fn
               /\ CaptureFits(world, programs, owners, new)
<1> DEFINE value == Frame.names[Statement.args[NextLeaf]]
           grown == WithLeaf(Frame, value)
           new == AsQubit(grown, value.id)
<1>0. stack # <<>> /\ world \in Worlds
  BY WaitsForNothing DEF InBody, StackIInv
<1>1. Frame \in CaptureFrames(world)
  BY <1>0, AtWork
<1>2. value \in Values(world) /\ value.quantum /\ value.id \notin Frame.asBit
  BY LeafIsSound
<1>3. value.id \in Ids(world)
  BY <1>2 DEF Values
<1> HIDE DEF value
<1>4. /\ grown \in CaptureFrames(world)
      /\ grown.fn = Frame.fn /\ grown.pc = Frame.pc /\ grown.names = Frame.names
      /\ grown.params = Frame.params /\ grown.defs = Frame.defs /\ grown.code = Frame.code
      /\ grown.bits = Frame.bits /\ grown.leaves = Append(Frame.leaves, value)
      /\ grown.asBit = Frame.asBit /\ grown.asQubit = Frame.asQubit
  BY <1>1, <1>2, LeafAdded
<1> HIDE DEF grown
<1>5. /\ new \in CaptureFrames(world)
      /\ new.fn = grown.fn /\ new.pc = grown.pc /\ new.names = grown.names
      /\ new.params = grown.params /\ new.defs = grown.defs /\ new.code = grown.code
      /\ new.bits = grown.bits /\ new.leaves = grown.leaves
      /\ new.asBit = grown.asBit /\ new.asQubit = grown.asQubit \union {value.id}
  <2>1. grown \in CaptureFrames(world)
    BY <1>4
  <2>2. QED BY <1>3, <2>1, MarkedAsQubit
<1> HIDE DEF new
<1>6. /\ new.fn = Frame.fn /\ new.pc = Frame.pc /\ new.names = Frame.names
      /\ new.params = Frame.params /\ new.defs = Frame.defs /\ new.code = Frame.code
      /\ new.bits = Frame.bits /\ new.leaves = Append(Frame.leaves, value)
      /\ new.asBit = Frame.asBit /\ new.asQubit = Frame.asQubit \union {value.id}
  BY <1>4, <1>5
<1>7. value = Frame.names[Statement.args[NextLeaf]]
  BY DEF value
<1>8. new \in CaptureFrames(world)
  BY <1>5
<1>9. CaptureFits(world, programs, owners, new)
  BY <1>2, <1>6, <1>7, <1>8, PlainLeafFits
<1>10. value.quantum /\ value \in Values(world) /\ new \in CaptureFrames(world) /\ new.fn = Frame.fn
       /\ CaptureFits(world, programs, owners, new)
  BY <1>2, <1>6, <1>8, <1>9
<1>11. QED BY <1>10 DEF new, grown, value

LEMMA ReturnedBitFits ==
    ASSUME StackIInv, InBody("return"), ~AllLeavesAligned,
           ~Frame.names[Statement.args[NextLeaf]].quantum
    PROVE  LET value == Frame.names[Statement.args[NextLeaf]]
               new == WithLeaf(Frame, value)
           IN  /\ value \in Values(world)
               /\ new \in CaptureFrames(world) /\ new.fn = Frame.fn
               /\ CaptureFits(world, programs, owners, new)
<1> DEFINE value == Frame.names[Statement.args[NextLeaf]]
           new == WithLeaf(Frame, value)
<1>0. stack # <<>> /\ world \in Worlds
  BY WaitsForNothing DEF InBody, StackIInv
<1>1. Frame \in CaptureFrames(world)
  BY <1>0, AtWork
<1>2. value \in Values(world) /\ ~value.quantum
  BY LeafIsSound
<1>3. value = Frame.names[Statement.args[NextLeaf]]
  OBVIOUS
<1> HIDE DEF value
<1>4. /\ new \in CaptureFrames(world)
      /\ new.fn = Frame.fn /\ new.pc = Frame.pc /\ new.names = Frame.names
      /\ new.params = Frame.params /\ new.defs = Frame.defs /\ new.code = Frame.code
      /\ new.bits = Frame.bits /\ new.leaves = Append(Frame.leaves, value)
      /\ new.asBit = Frame.asBit /\ new.asQubit = Frame.asQubit
  BY <1>1, <1>2, LeafAdded
<1> HIDE DEF new
<1>5. CaptureFits(world, programs, owners, new)
  BY <1>2, <1>3, <1>4, PlainLeafFits
<1>6. value \in Values(world) /\ new \in CaptureFrames(world) /\ new.fn = Frame.fn
       /\ CaptureFits(world, programs, owners, new)
  BY <1>2, <1>4, <1>5
<1>7. QED BY <1>6 DEF new, value

\* A qubit that the return observes.
LEMMA ReturnedObservationFits ==
    ASSUME StackIInv, InBody("return"), ~AllLeavesAligned, Source.returns.kinds[NextLeaf] # "qubit",
           Frame.names[Statement.args[NextLeaf]].quantum
    PROVE  LET id == Frame.names[Statement.args[NextLeaf]].id
               bit == SourceId("observation-result", NextLeaf)
               op == SourceId("inferred-observation", NextLeaf)
               new == AsBit(Observed(WithLeaf(Frame, [quantum |-> FALSE, id |-> bit]),
                                     op, id, bit, NextLeaf), id)
           IN  /\ new \in CaptureFrames(world) /\ new.fn = Frame.fn
               /\ CaptureFits(world, programs, owners, new)
<1> DEFINE id == Frame.names[Statement.args[NextLeaf]].id
           bit == SourceId("observation-result", NextLeaf)
           op == SourceId("inferred-observation", NextLeaf)
           instr == ObservationOf(op, id, bit, NextLeaf)
           leaf  == [quantum |-> FALSE, id |-> bit]
           grown == WithLeaf(Frame, leaf)
           seen == Observed(grown, op, id, bit, NextLeaf)
           new == AsBit(seen, id)
<1>0. stack # <<>> /\ world \in Worlds
  BY WaitsForNothing DEF InBody, StackIInv
<1>1. Frame \in CaptureFrames(world)
  BY <1>0, AtWork
<1>2. id \in Ids(world) /\ id \notin Frame.asQubit
  BY LeafIsSound DEF Values
<1>3. id = Frame.names[Statement.args[NextLeaf]].id
  OBVIOUS
<1> HIDE DEF id
<1>4. /\ bit \in Ids(world) /\ bit[2] = "observation-result"
      /\ bit[3] = Position(Frame.pc, NextLeaf) /\ Position(Frame.pc, NextLeaf) \in Nat
      /\ op \in Ids(world) /\ op[3] = Position(Frame.pc, NextLeaf)
  <2>1. "observation-result" \in NodeKinds /\ "inferred-observation" \in NodeKinds
    BY DEF NodeKinds
  <2>2. QED BY <2>1, IdsMadeOfLeaf
<1> HIDE DEF bit, op
<1>5. leaf \in Values(world)
  BY <1>4 DEF Values
<1>6. leaf = [quantum |-> FALSE, id |-> bit]
  OBVIOUS
<1> HIDE DEF leaf
<1>7. /\ grown \in CaptureFrames(world)
      /\ grown.fn = Frame.fn /\ grown.pc = Frame.pc /\ grown.names = Frame.names
      /\ grown.params = Frame.params /\ grown.defs = Frame.defs /\ grown.code = Frame.code
      /\ grown.bits = Frame.bits /\ grown.leaves = Append(Frame.leaves, leaf)
      /\ grown.asBit = Frame.asBit /\ grown.asQubit = Frame.asQubit
  BY <1>1, <1>5, LeafAdded
<1> HIDE DEF grown
<1>8. grown \in CaptureFrames(world) /\ id \in Ids(world) /\ bit \in Ids(world) /\ op \in Ids(world)
      /\ Position(Frame.pc, NextLeaf) \in Nat
  BY <1>2, <1>4, <1>7
<1>9. /\ instr \in Instructions(world)
      /\ instr.op = op /\ instr.kind = "observe" /\ instr.refs = <<id>>
      /\ instr.pos = Position(Frame.pc, NextLeaf) /\ instr.result = bit
      /\ seen \in CaptureFrames(world)
      /\ seen.fn = grown.fn /\ seen.pc = grown.pc /\ seen.names = grown.names
      /\ seen.params = grown.params /\ seen.defs = grown.defs
      /\ seen.code = Append(grown.code, instr) /\ seen.bits = Append(grown.bits, bit)
      /\ seen.leaves = grown.leaves
      /\ seen.asBit = grown.asBit /\ seen.asQubit = grown.asQubit
  <2>1. instr \in Instructions(world) /\ instr.op = op /\ instr.result = bit
    BY <1>0, <1>8, ObservedIs
  <2>2. instr.kind = "observe"
    BY <1>0, <1>8, ObservedIs
  <2>3. instr.refs = <<id>>
    BY <1>0, <1>8, ObservedIs, SMTT(30)
  <2>4. instr.pos = Position(Frame.pc, NextLeaf)
    BY <1>0, <1>8, ObservedIs
  <2>5. seen \in CaptureFrames(world) /\ seen.fn = grown.fn /\ seen.pc = grown.pc /\ seen.names = grown.names
    BY <1>0, <1>8, ObservedIs
  <2>6. seen.params = grown.params /\ seen.defs = grown.defs /\ seen.leaves = grown.leaves
    BY <1>0, <1>8, ObservedIs
  <2>7. seen.asBit = grown.asBit /\ seen.asQubit = grown.asQubit
    BY <1>0, <1>8, ObservedIs
  <2>8. seen.code = Append(grown.code, instr)
    BY <1>0, <1>8, ObservedIs
  <2>9. seen.bits = Append(grown.bits, bit)
    BY <1>0, <1>8, ObservedIs
  <2>10. QED BY <2>1, <2>2, <2>3, <2>4, <2>5, <2>6, <2>7, <2>8, <2>9
<1> HIDE DEF instr, seen
<1>10. seen \in CaptureFrames(world)
  BY <1>9
<1>11. /\ new \in CaptureFrames(world)
      /\ new.fn = seen.fn /\ new.pc = seen.pc /\ new.names = seen.names
      /\ new.params = seen.params /\ new.defs = seen.defs /\ new.code = seen.code
      /\ new.bits = seen.bits /\ new.leaves = seen.leaves
      /\ new.asBit = seen.asBit \union {id} /\ new.asQubit = seen.asQubit
  BY <1>8, <1>10, MarkedAsBit, SMTT(30)
<1> HIDE DEF new
<1>12. /\ new.fn = Frame.fn /\ new.pc = Frame.pc /\ new.names = Frame.names
      /\ new.params = Frame.params /\ new.defs = Frame.defs
      /\ new.code = Append(Frame.code, instr) /\ new.bits = Append(Frame.bits, bit)
      /\ new.leaves = Append(Frame.leaves, leaf)
      /\ new.asBit = Frame.asBit \union {id} /\ new.asQubit = Frame.asQubit
  BY <1>7, <1>9, <1>11, Zenon
<1>13. instr.op[3] = Position(Frame.pc, NextLeaf) /\ new.leaves = Append(Frame.leaves, [quantum |-> FALSE, id |-> bit])
  BY <1>4, <1>6, <1>9, <1>12
<1>14. new \in CaptureFrames(world) /\ instr \in Instructions(world)
       /\ instr.kind = "observe" /\ instr.result = bit /\ instr.refs = <<id>>
       /\ instr.pos = Position(Frame.pc, NextLeaf)
  BY <1>9, <1>11
<1>15. CaptureFits(world, programs, owners, new)
  BY <1>2, <1>3, <1>4, <1>8, <1>12, <1>13, <1>14, ObservedLeafFits
<1>16. new \in CaptureFrames(world) /\ new.fn = Frame.fn
       /\ CaptureFits(world, programs, owners, new)
  BY <1>12, <1>14, <1>15
<1>17. QED BY <1>16 DEF new, seen, grown, leaf, id, bit, op

\* The frame that a leaf leaves.
Aligned ==
    LET value  == Frame.names[Statement.args[NextLeaf]]
        bit    == SourceId("observation-result", NextLeaf)
        leaf(quantum, id) == [Frame EXCEPT !.leaves = Append(@, [quantum |-> quantum, id |-> id])]
    IN  IF Source.returns.kinds[NextLeaf] = "qubit"
        THEN [leaf(TRUE, value.id) EXCEPT !.asQubit = @ \union {value.id}]
        ELSE IF ~value.quantum THEN leaf(FALSE, value.id)
        ELSE [Observed(leaf(FALSE, bit), SourceId("inferred-observation", NextLeaf), value.id,
                       bit, NextLeaf) EXCEPT !.asBit = @ \union {value.id}]

LEMMA ValueIs ==
    ASSUME NEW w, NEW value \in Values(w)
    PROVE  /\ value.quantum => value = [quantum |-> TRUE, id |-> value.id]
           /\ ~value.quantum => value = [quantum |-> FALSE, id |-> value.id]
BY DEF Values

LEMMA AlignedFits ==
    ASSUME StackIInv, InBody("return"), ~AllLeavesAligned
    PROVE  /\ Aligned \in CaptureFrames(world) /\ Aligned.fn = Frame.fn
           /\ CaptureFits(world, programs, owners, Aligned)
<1> DEFINE value == Frame.names[Statement.args[NextLeaf]]
           bit == SourceId("observation-result", NextLeaf)
<1>1. CASE Source.returns.kinds[NextLeaf] = "qubit"
  <2>1. value = [quantum |-> TRUE, id |-> value.id]
    BY <1>1, ReturnedQubitFits, ValueIs
  <2>2. Aligned = AsQubit(WithLeaf(Frame, [quantum |-> TRUE, id |-> value.id]), value.id)
    BY <1>1, Zenon DEF Aligned, AsQubit, WithLeaf
  <2>3. Aligned = AsQubit(WithLeaf(Frame, value), value.id)
    BY <2>1, <2>2, Zenon
  <2>4. QED BY <1>1, <2>3, ReturnedQubitFits
<1>2. CASE Source.returns.kinds[NextLeaf] # "qubit" /\ ~value.quantum
  <2>1. value = [quantum |-> FALSE, id |-> value.id]
    BY <1>2, ReturnedBitFits, ValueIs
  <2>2. Aligned = WithLeaf(Frame, [quantum |-> FALSE, id |-> value.id])
    BY <1>2, Zenon DEF Aligned, WithLeaf
  <2>3. Aligned = WithLeaf(Frame, value)
    BY <2>1, <2>2, Zenon
  <2>4. QED BY <1>2, <2>3, ReturnedBitFits
<1>3. CASE Source.returns.kinds[NextLeaf] # "qubit" /\ value.quantum
  <2>1. Aligned = AsBit(Observed(WithLeaf(Frame, [quantum |-> FALSE, id |-> bit]),
                       SourceId("inferred-observation", NextLeaf), value.id, bit, NextLeaf), value.id)
    BY <1>3, Zenon DEF Aligned, AsBit, WithLeaf
  <2>2. QED BY <1>3, <2>1, ReturnedObservationFits
<1>4. QED BY <1>1, <1>2, <1>3

-----------------------------------------------------------------------------
(* Each action keeps the invariant.                                        *)

\* The captures that wait are left alone.
LEMMA Replaces ==
    ASSUME CaptureIInv, stack # <<>>, failure = NoValue, NEW frame \in CaptureFrames(world),
           frame.fn = Frame.fn, CaptureFits(world, programs, owners, frame), CapturesTo(frame)
    PROVE  CaptureIInv'
<1>0. StackIInv /\ ProgramsIInv /\ FailureIInv
  BY DEF CaptureIInv
<1>1. /\ world' = world /\ programs' = programs /\ owners' = owners /\ order' = order
      /\ failure' = NoValue /\ stack' = [stack EXCEPT ![Len(stack)] = frame]
  BY DEF CapturesTo, WithFrame
<1>2. /\ stack \in Seq(CaptureFrames(world)) /\ Len(stack) \in Nat /\ DOMAIN stack = 1 .. Len(stack)
      /\ Len(stack) \in DOMAIN stack /\ Frame = stack[Len(stack)]
  BY <1>0, AtWork DEF StackIInv
<1>3. /\ stack' \in Seq(CaptureFrames(world)) /\ Len(stack') = Len(stack)
      /\ DOMAIN stack' = DOMAIN stack
  BY <1>1, <1>2
<1>4. \A k \in DOMAIN stack : stack'[k] = IF k = Len(stack) THEN frame ELSE stack[k]
  BY <1>1, <1>2
<1>5. \A k \in DOMAIN stack : stack'[k].fn = stack[k].fn /\ CaptureFits(world, programs, owners, stack'[k])
  BY <1>0, <1>2, <1>4 DEF StackIInv
<1>6. \A k \in 1 .. Len(stack) - 1 : stack'[k] = stack[k] /\ k + 1 \in DOMAIN stack /\ k \in DOMAIN stack
  BY <1>2, <1>4
<1>7. StackIInv'
  <2>1. world' \in Worlds /\ stack' \in Seq(CaptureFrames(world'))
    BY <1>0, <1>1, <1>3 DEF StackIInv
  <2>2. \A k \in DOMAIN stack' : CaptureFits(world', programs', owners', stack'[k])
    BY <1>1, <1>3, <1>5
  <2>3. \A k, n \in DOMAIN stack' : Function(stack[k].fn)'.id = Function(stack[n].fn)'.id => k = n
    BY <1>0, <1>1, <1>3, <1>5 DEF StackIInv, Function
  <2>4. \A k \in DOMAIN stack' : Function(stack[k].fn)'.id \notin DOMAIN programs'
    BY <1>0, <1>1, <1>3, <1>5, SMTT(30) DEF StackIInv, Function
  <2>5. \A k \in 1 .. Len(stack') - 1 :
          LET body == Body(world', stack'[k].fn)
          IN  /\ stack'[k].pc \in DOMAIN body /\ body[stack'[k].pc].form \in {"assign", "call"}
              /\ MeaningIn(world', body[stack'[k].pc]) = stack'[k + 1].fn
    BY <1>0, <1>1, <1>3, <1>5, <1>6, ZenonT(60) DEF StackIInv
  <2>6. QED BY <2>1, <2>2, <2>3, <2>4, <2>5, ZenonT(60) DEF StackIInv
<1>8. ProgramsIInv'
  BY <1>0, <1>1 DEF ProgramsIInv, Functions, Function
<1>9. FailureIInv'
  BY <1>1 DEF FailureIInv
<1>10. QED BY <1>7, <1>8, <1>9 DEF CaptureIInv

LEMMA AtWorkProceeding ==
    ASSUME CaptureIInv, Proceeding, Wanted = NoValue
    PROVE  StackIInv /\ ProgramsIInv /\ stack # <<>> /\ failure = NoValue
BY WaitsForNothing DEF CaptureIInv, Proceeding, Capturing

LEMMA AliasKeeps ==
    ASSUME CaptureIInv, BindAlias
    PROVE  CaptureIInv'
<1> DEFINE new == Advanced(Bound(Frame, Statement.target, Frame.names[Statement.args[1]]))
<1>1. StackIInv /\ stack # <<>> /\ failure = NoValue
  BY AtWorkProceeding DEF BindAlias, InBody
<1>2. new \in CaptureFrames(world) /\ new.fn = Frame.fn /\ CaptureFits(world, programs, owners, new)
  BY <1>1, AliasFits DEF BindAlias
<1>3. CapturesTo(new)
  BY DEF BindAlias
<1> HIDE DEF new
<1>4. QED BY <1>1, <1>2, <1>3, Replaces

LEMMA QubitKeeps ==
    ASSUME CaptureIInv, DeclareQubit
    PROVE  CaptureIInv'
<1> DEFINE id == SourceId("qubit-declaration", CallColumn)
           d == [id |-> id, pos |-> Position(Frame.pc, CallColumn)]
           new == Advanced([Bound(Frame, Statement.target, [quantum |-> TRUE, id |-> id])
                                EXCEPT !.defs = Append(@, d)])
<1>1. StackIInv /\ stack # <<>> /\ failure = NoValue
  BY AtWorkProceeding DEF DeclareQubit, InBody
<1>2. new \in CaptureFrames(world) /\ new.fn = Frame.fn /\ CaptureFits(world, programs, owners, new)
  BY <1>1, QubitFits DEF DeclareQubit
<1>3. CapturesTo(new)
  BY DEF DeclareQubit
<1> HIDE DEF new
<1>4. QED BY <1>1, <1>2, <1>3, Replaces

LEMMA OperationKeeps ==
    ASSUME CaptureIInv, CaptureOperation
    PROVE  CaptureIInv'
<1> DEFINE kind == Meaning(Statement)
           instr == Instruction(SourceId(kind, CallColumn), kind, Operands(Statement.args),
                                          CallColumn)
           new == Advanced(Emit(Frame, instr))
<1>1. StackIInv /\ stack # <<>> /\ failure = NoValue
  BY AtWorkProceeding DEF CaptureOperation, InBody
<1>2. new \in CaptureFrames(world) /\ new.fn = Frame.fn /\ CaptureFits(world, programs, owners, new)
  BY <1>1, OperationFits DEF CaptureOperation
<1>3. CapturesTo(new)
  BY DEF CaptureOperation
<1> HIDE DEF new
<1>4. QED BY <1>1, <1>2, <1>3, Replaces

LEMMA ObservationKeeps ==
    ASSUME CaptureIInv, CaptureObservation
    PROVE  CaptureIInv'
<1> DEFINE frame == Observed(Frame, SourceId("explicit-observation", CallColumn),
                             Frame.names[Statement.args[1]].id, ObservedResult, CallColumn)
           new == Named(frame, [quantum |-> FALSE, id |-> ObservedResult])
<1>1. StackIInv /\ stack # <<>> /\ failure = NoValue
  BY AtWorkProceeding DEF CaptureObservation
<1>2. new \in CaptureFrames(world) /\ new.fn = Frame.fn /\ CaptureFits(world, programs, owners, new)
  BY <1>1, ObservationFits DEF CaptureObservation
<1>3. CapturesTo(new)
  BY Zenon DEF CaptureObservation, Named, ObservedResult
<1> HIDE DEF new
<1>4. QED BY <1>1, <1>2, <1>3, Replaces

LEMMA CallKeeps ==
    ASSUME CaptureIInv, CaptureCall
    PROVE  CaptureIInv'
<1> DEFINE function == Function(Meaning(Statement))
           callee == programs[function.id]
           new == Named(Emit(Frame, CallOf(function, callee, CallResult)),
                            [quantum |-> TRUE, id |-> CallResult])
<1>1. StackIInv /\ ProgramsIInv /\ stack # <<>> /\ failure = NoValue
  BY AtWorkProceeding DEF CaptureCall
<1>2. new \in CaptureFrames(world) /\ new.fn = Frame.fn /\ CaptureFits(world, programs, owners, new)
  BY <1>1, QuantumCallFits DEF CaptureCall
<1>3. CapturesTo(new)
  BY Zenon DEF CaptureCall, Named, CallOf, CallResult
<1> HIDE DEF new
<1>4. QED BY <1>1, <1>2, <1>3, Replaces

LEMMA LeafKeeps ==
    ASSUME CaptureIInv, AlignLeaf
    PROVE  CaptureIInv'
<1>1. StackIInv /\ stack # <<>> /\ failure = NoValue
  BY AtWorkProceeding, SMTT(30) DEF AlignLeaf, InBody
<1>2. Aligned \in CaptureFrames(world) /\ Aligned.fn = Frame.fn
      /\ CaptureFits(world, programs, owners, Aligned)
  BY <1>1, AlignedFits DEF AlignLeaf
<1>3. CapturesTo(Aligned)
  BY Zenon DEF AlignLeaf, Aligned
<1>4. QED BY <1>1, <1>2, <1>3, Replaces

\* The function that is captured next is neither at work nor captured.
LEMMA WantedIsNew ==
    ASSUME StackIInv, Proceeding, Wanted # NoValue
    PROVE  /\ Wanted \in Functions /\ ActiveWith(Function(Wanted).id) = {}
           /\ Function(Wanted).id \notin DOMAIN programs
           /\ stack # <<>> => ~AtEnd /\ Statement.form \in {"assign", "call"}
                              /\ Meaning(Statement) = Wanted
<1>0. world \in Worlds
  BY DEF StackIInv
<1>1. Wanted \in Functions
  <2>1. world.entry \in Functions
    BY <1>0, WorldsArePython DEF IsWorld, Functions
  <2>2. QED BY <2>1 DEF Wanted, IsQuantumCall
<1>2. EntryError(Wanted) = NoValue
  BY DEF Proceeding, CaptureError
<1>3. "P100" # NoValue /\ "P115" # NoValue /\ "P117" # NoValue
  BY <1>0, CodesAreNoNoValue
<1>4. ActiveWith(Function(Wanted).id) = {} /\ Function(Wanted).id \notin DOMAIN programs
  BY <1>2, <1>3 DEF EntryError
<1>5. stack # <<>> => ~AtEnd /\ Statement.form \in {"assign", "call"} /\ Meaning(Statement) = Wanted
  BY DEF Wanted, IsQuantumCall
<1>6. QED BY <1>1, <1>4, <1>5

\* Parameters' identifiers and names.
ParameterIds(function) ==
    [k \in DOMAIN function.params |-> <<function.id, "parameter", Position(0, k)>>]
Number(function, n) == CHOOSE k \in DOMAIN function.params : function.params[k] = n
ParameterNames(function) ==
    [n \in ToSet(function.params) |->
        [quantum |-> TRUE, id |-> ParameterIds(function)[Number(function, n)]]]
ParameterDefs(function) ==
    [k \in DOMAIN ParameterIds(function) |->
        [id |-> ParameterIds(function)[k], pos |-> Position(0, k)]]
Entered(f, function) ==
    [fn |-> f, pc |-> 1, names |-> ParameterNames(function), params |-> ParameterIds(function),
     defs |-> ParameterDefs(function), code |-> <<>>, bits |-> <<>>, leaves |-> <<>>,
     asBit |-> {}, asQubit |-> {}]

LEMMA ParameterPositions ==
    ASSUME NEW w \in Worlds, NEW f \in DOMAIN w.functions, NEW k \in DOMAIN w.functions[f].params
    PROVE  /\ k \in Nat /\ Position(0, k) = k /\ Position(0, k) \in Nat
           /\ Position(0, k) < Position(1, 0) /\ Position(0, k) \div LineWidth = 0
           /\ Position(1, 0) < Position(1, 1) /\ Position(1, 0) \in Nat /\ Position(1, 1) \in Nat
           /\ OriginAt(Position(0, k)) = <<0, k>>
<1>1. k \in Nat /\ k < LineWidth /\ LineWidth \in Nat
  BY WorldFacts, LinesAreWideEnough
<1>2. /\ Position(0, k) \in Nat /\ Position(0, k) < Position(0 + 1, 0)
      /\ Position(0, k) \div LineWidth = 0
  BY <1>1, PositionFacts
<1>3. Position(1, 0 + 1) = Position(1, 0) + 1 /\ Position(1, 0) \in Nat /\ Position(1, 1) \in Nat
  BY PositionFacts
<1>4. Position(0, k) = k
  BY <1>1 DEF Position
<1>5. OriginAt(Position(0, k)) = <<0, k>>
  BY <1>2, <1>4 DEF OriginAt
<1>6. QED BY <1>1, <1>2, <1>3, <1>4, <1>5

LEMMA ParameterIdsAre ==
    ASSUME NEW w \in Worlds, NEW f \in DOMAIN w.functions
    PROVE  LET function == w.functions[f]
               ids == ParameterIds(function)
           IN  /\ ids \in Seq(Ids(w)) /\ DOMAIN ids = DOMAIN function.params /\ Injective(ids)
               /\ \A k \in DOMAIN ids : ids[k][2] = "parameter" /\ ids[k][3] = Position(0, k)
               /\ \A k \in DOMAIN ids : ids[k] = <<function.id, "parameter", Position(0, k)>>
<1> DEFINE function == w.functions[f]
           ids == ParameterIds(function)
<1>1. DOMAIN function.params = 1 .. Len(function.params) /\ Len(function.params) \in Nat
      /\ function.id \in ProgramIds(w)
  BY WorldFacts
<1>2. DOMAIN ids = DOMAIN function.params
      /\ \A k \in DOMAIN ids : ids[k] = <<function.id, "parameter", Position(0, k)>>
  BY DEF ParameterIds
<1>3. \A k \in DOMAIN ids : ids[k] \in Ids(w)
  <2>1. \A k \in DOMAIN ids : Position(0, k) \in Nat
    BY <1>2, ParameterPositions
  <2>2. "parameter" \in NodeKinds
    BY DEF NodeKinds
  <2>3. function.id \in ProgramIds(w)
    BY <1>1
  <2> HIDE DEF ids, function
  <2>4. QED BY <1>2, <2>1, <2>2, <2>3 DEF Ids
<1>4. ids \in Seq(Ids(w))
  <2>1. ids = [k \in 1 .. Len(function.params) |-> ids[k]]
    BY <1>1 DEF ParameterIds
  <2> HIDE DEF ids
  <2>2. ids \in [1 .. Len(function.params) -> Ids(w)]
    BY <1>1, <1>2, <1>3, <2>1
  <2>3. QED BY <1>1, <2>2
<1>5. \A k \in DOMAIN ids : ids[k][2] = "parameter" /\ ids[k][3] = Position(0, k)
  BY <1>2
<1>6. Injective(ids)
  <2>1. \A k, n \in DOMAIN ids : ids[k] = ids[n] => k = n
    BY <1>2, <1>5, ParameterPositions
  <2> HIDE DEF ids
  <2>2. QED BY <2>1 DEF Injective
<1>7. QED BY <1>2, <1>4, <1>5, <1>6

LEMMA NumberIs ==
    ASSUME NEW w \in Worlds, NEW f \in DOMAIN w.functions, NEW n \in ToSet(w.functions[f].params)
    PROVE  LET function == w.functions[f]
           IN  /\ Number(function, n) \in DOMAIN function.params
               /\ function.params[Number(function, n)] = n /\ n \in function.variables
<1>1. PICK k \in DOMAIN w.functions[f].params : w.functions[f].params[k] = n
  BY DEF ToSet
<1>2. n \in w.functions[f].variables
  BY <1>1, WorldFacts
<1>3. QED BY <1>1, <1>2 DEF Number

LEMMA EnteredIsFrame ==
    ASSUME NEW w \in Worlds, NEW f \in DOMAIN w.functions
    PROVE  Entered(f, w.functions[f]) \in CaptureFrames(w)
<1> DEFINE function == w.functions[f]
           ids == ParameterIds(function)
           names == ParameterNames(function)
           defs == ParameterDefs(function)
<1>1. ids \in Seq(Ids(w)) /\ \A k \in DOMAIN ids : ids[k] \in Ids(w)
  BY ParameterIdsAre
<1>2. DOMAIN ids = 1 .. Len(function.params) /\ Len(function.params) \in Nat
  BY ParameterIdsAre, WorldFacts
<1>3. \A k \in DOMAIN ids : Position(0, k) \in Nat
  BY ParameterIdsAre, ParameterPositions
<1>4. defs \in Seq(Definitions(w))
  <2> HIDE DEF ids
  <2>1. defs = [k \in 1 .. Len(function.params) |-> [id |-> ids[k], pos |-> Position(0, k)]]
    BY <1>2 DEF ParameterDefs, ids
  <2>2. \A k \in 1 .. Len(function.params) : [id |-> ids[k], pos |-> Position(0, k)] \in Definitions(w)
    BY <1>1, <1>2, <1>3 DEF Definitions
  <2> HIDE DEF defs
  <2>3. defs \in [1 .. Len(function.params) -> Definitions(w)]
    BY <2>1, <2>2
  <2>4. QED BY <1>2, <2>3
<1>5. names \in NameTables(w)
  <2>1. ToSet(function.params) \in SUBSET Variables(w)
    BY NumberIs, WorldFacts
  <2>2. \A n \in ToSet(function.params) : ids[Number(function, n)] \in Ids(w)
    BY <1>1, NumberIs, ParameterIdsAre
  <2>3. \A n \in ToSet(function.params) :
           [quantum |-> TRUE, id |-> ids[Number(function, n)]] \in Values(w)
    BY <2>2 DEF Values
  <2>4. names \in [ToSet(function.params) -> Values(w)]
    BY <2>3 DEF ParameterNames
  <2> HIDE DEF names
  <2>5. QED BY <2>1, <2>4 DEF NameTables
<1>6. <<>> \in Seq(Instructions(w)) /\ <<>> \in Seq(Ids(w)) /\ <<>> \in Seq(Values(w))
  OBVIOUS
<1> HIDE DEF ids, names, defs
<1>7. QED BY <1>1, <1>4, <1>5, <1>6 DEF CaptureFrames, Entered, ids, names, defs

LEMMA EnteredIs ==
    ASSUME NEW f, NEW function
    PROVE  LET new == Entered(f, function)
           IN  /\ new.fn = f /\ new.pc = 1 /\ new.names = ParameterNames(function)
               /\ new.params = ParameterIds(function) /\ new.defs = ParameterDefs(function)
               /\ new.code = <<>> /\ new.bits = <<>> /\ new.leaves = <<>>
               /\ new.asBit = {} /\ new.asQubit = {}
               /\ DOMAIN new.code = {} /\ DOMAIN new.bits = {} /\ DOMAIN new.leaves = {}
               /\ Len(new.code) = 0 /\ Len(new.leaves) = 0
               /\ DOMAIN new.names = ToSet(function.params)
               /\ \A n \in DOMAIN new.names : new.names[n].quantum
               /\ \A n \in DOMAIN new.names :
                     new.names[n].id = ParameterIds(function)[Number(function, n)]
               /\ DOMAIN new.defs = DOMAIN ParameterIds(function)
               /\ \A k \in DOMAIN new.defs : new.defs[k].id = ParameterIds(function)[k]
<1>1. /\ DOMAIN ParameterNames(function) = ToSet(function.params)
      /\ \A n \in ToSet(function.params) : ParameterNames(function)[n].quantum
      /\ \A n \in ToSet(function.params) :
            ParameterNames(function)[n].id = ParameterIds(function)[Number(function, n)]
  BY DEF ParameterNames
<1>2. DOMAIN ParameterDefs(function) = DOMAIN ParameterIds(function)
      /\ \A k \in DOMAIN ParameterIds(function) : ParameterDefs(function)[k].id = ParameterIds(function)[k]
  BY DEF ParameterDefs
<1>3. QED BY <1>1, <1>2 DEF Entered

LEMMA EnteredPositions ==
    ASSUME NEW w \in Worlds, NEW f \in DOMAIN w.functions
    PROVE  PositionsGrow(w, Entered(f, w.functions[f]))
<1> DEFINE function == w.functions[f]
           ids == ParameterIds(function)
           new == Entered(f, function)
<1>1. /\ new.fn = f /\ new.pc = 1 /\ Len(new.leaves) = 0
      /\ DOMAIN new.code = {} /\ DOMAIN new.bits = {}
      /\ DOMAIN new.names = ToSet(function.params)
      /\ \A n \in DOMAIN new.names : new.names[n].id = ids[Number(function, n)]
      /\ DOMAIN new.defs = DOMAIN ids
      /\ \A k \in DOMAIN new.defs : new.defs[k].id = ids[k]
  BY EnteredIs
<1>2. /\ DOMAIN ids = DOMAIN function.params
      /\ \A k \in DOMAIN ids : ids[k][3] = Position(0, k)
  BY ParameterIdsAre
<1>3. \A k \in DOMAIN ids : ids[k][3] < Position(1, 0) /\ ids[k][3] < Position(1, 1)
  BY <1>2, ParameterPositions
<1>4. Reached(new) = Position(1, 1)
  BY <1>1 DEF Reached
<1>5. \A n \in ToSet(function.params) : Number(function, n) \in DOMAIN ids
  BY <1>2, NumberIs
<1>6. new.pc \in 1 .. Len(Body(w, new.fn)) + 1
  BY <1>1, WorldFacts
<1> HIDE DEF new, ids
<1>7. \A n \in DOMAIN new.names : new.names[n].id[3] < Position(new.pc, 0)
  BY <1>1, <1>3, <1>5
<1>8. \A d \in DOMAIN new.defs : new.defs[d].id[3] < Reached(new)
  BY <1>1, <1>3, <1>4
<1>9. DOMAIN new.code = {} /\ DOMAIN new.bits = {}
  BY <1>1
<1>10. PositionsGrow(w, new)
  BY <1>6, <1>7, <1>8, <1>9 DEF PositionsGrow
<1>11. QED BY <1>10 DEF new

LEMMA EnteredDeclares ==
    ASSUME NEW w \in Worlds, NEW f \in DOMAIN w.functions
    PROVE  LET new == Entered(f, w.functions[f])
           IN  ValuesDeclared(new) /\ CodeDeclared(new) /\ NamesDeclared(new) /\ LeavesDeclared(new)
<1> DEFINE function == w.functions[f]
           ids == ParameterIds(function)
           new == Entered(f, function)
<1>1. /\ new.params = ids /\ DOMAIN new.code = {} /\ DOMAIN new.bits = {} /\ DOMAIN new.leaves = {}
      /\ new.asBit = {} /\ new.asQubit = {}
      /\ DOMAIN new.names = ToSet(function.params)
      /\ \A n \in DOMAIN new.names : new.names[n].quantum /\ new.names[n].id = ids[Number(function, n)]
      /\ DOMAIN new.defs = DOMAIN ids
      /\ \A k \in DOMAIN new.defs : new.defs[k].id = ids[k]
  BY EnteredIs
<1>2. /\ DOMAIN ids = DOMAIN function.params /\ Injective(ids)
      /\ \A k \in DOMAIN ids : ids[k][2] = "parameter"
      /\ \A k, n \in DOMAIN ids : ids[k] = ids[n] => k = n
  BY ParameterIdsAre DEF Injective
<1>3. \A n \in ToSet(function.params) : Number(function, n) \in DOMAIN ids
  BY <1>2, NumberIs
<1> HIDE DEF new, ids
<1>4. BitIds(Made(new)) = {} /\ Observations(Made(new)) = {}
  BY <1>1, MadeIs
<1>5. KnownTo(new) = {ids[d] : d \in DOMAIN ids} \union {new.code[j].result : j \in BoundBefore(new, Len(new.code) + 1)}
  BY <1>1, KnownToIs
<1>6. ValuesDeclared(new)
  <2>1. Injective([d \in DOMAIN new.defs |-> new.defs[d].id])
    BY <1>1, <1>2 DEF Injective
  <2>2. Injective(new.params) /\ Injective(new.bits)
    BY <1>1, <1>2 DEF Injective
  <2>3. \A k \in DOMAIN new.params : \E d \in DOMAIN new.defs : new.defs[d].id = new.params[k]
    BY <1>1
  <2>4. QED BY <1>1, <1>2, <2>1, <2>2, <2>3 DEF ValuesDeclared
<1>7. CodeDeclared(new)
  <2>1. Injective([i \in DOMAIN new.code |-> new.code[i].op])
    BY <1>1 DEF Injective
  <2>2. QED BY <1>1, <1>4, <2>1 DEF CodeDeclared
<1>8. NamesDeclared(new)
  BY <1>1, <1>3, <1>5 DEF NamesDeclared
<1>9. LeavesDeclared(new)
  BY <1>1, <1>4 DEF LeavesDeclared
<1>10. QED BY <1>6, <1>7, <1>8, <1>9 DEF new

LEMMA EnteredGoesBack ==
    ASSUME NEW w \in Worlds, NEW f \in DOMAIN w.functions
    PROVE  NamesGoBack(w, Entered(f, w.functions[f]))
<1> DEFINE function == w.functions[f]
           ids == ParameterIds(function)
           new == Entered(f, function)
<1>1. /\ new.fn = f /\ new.pc - 1 = 0
      /\ DOMAIN new.names = ToSet(function.params)
      /\ \A n \in DOMAIN new.names : new.names[n].id = ids[Number(function, n)]
  BY EnteredIs
<1>2. /\ DOMAIN ids = DOMAIN function.params
      /\ \A k \in DOMAIN ids : ids[k][3] = Position(0, k)
  BY ParameterIdsAre
<1>3. \A n \in ToSet(function.params) :
         Number(function, n) \in DOMAIN ids /\ n \in function.variables
  BY <1>2, NumberIs
<1>4. OriginsAfter(function, 0) = Unassigned(function)
  BY OriginsAdvance
<1>5. \A n \in ToSet(function.params) : Unassigned(function)[n] = <<0, Number(function, n)>>
  BY <1>3, Zenon DEF Unassigned, Number
<1>6. \A k \in DOMAIN ids : OriginAt(ids[k][3]) = <<0, k>>
  BY <1>2, ParameterPositions
<1> HIDE DEF new, ids
<1>7. \A n \in DOMAIN new.names : OriginAt(new.names[n].id[3]) = <<0, Number(function, n)>>
  BY <1>1, <1>3, <1>6
<1>8. \A m, n \in DOMAIN new.names :
         <<0, Number(function, m)>> = <<0, Number(function, n)>> =>
            Number(function, m) = Number(function, n)
  OBVIOUS
<1>9. \A n \in DOMAIN new.names :
         /\ n \in w.functions[new.fn].variables
         /\ OriginsAfter(w.functions[new.fn], new.pc - 1)[n] = OriginAt(new.names[n].id[3])
  BY <1>1, <1>3, <1>4, <1>5, <1>7
<1>10. \A m, n \in DOMAIN new.names :
         OriginAt(new.names[m].id[3]) = OriginAt(new.names[n].id[3])
              => new.names[m].id = new.names[n].id
  BY <1>1, <1>7, <1>8
<1>11. NamesGoBack(w, new)
  BY <1>9, <1>10 DEF NamesGoBack
<1>12. QED BY <1>11 DEF new

LEMMA EnteredFits ==
    ASSUME NEW w \in Worlds, NEW f \in DOMAIN w.functions, NEW ps, NEW ow
    PROVE  CaptureFits(w, ps, ow, Entered(f, w.functions[f]))
<1> DEFINE new == Entered(f, w.functions[f])
<1>1. PositionsGrow(w, new) /\ ValuesDeclared(new) /\ CodeDeclared(new) /\ NamesDeclared(new)
      /\ LeavesDeclared(new) /\ NamesGoBack(w, new)
  BY EnteredPositions, EnteredDeclares, EnteredGoesBack
<1>2. new.leaves = <<>> /\ DOMAIN new.code = {}
  BY EnteredIs
<1> HIDE DEF new
<1>3. LeavesAtReturn(w, new) /\ OperandsNamed(w, new) /\ CallsFit(w, ps, ow, new.fn, new.code)
  BY <1>2 DEF LeavesAtReturn, OperandsNamed, CallsFit
<1>4. QED BY <1>1, <1>3 DEF CaptureFits, new

\* What the code does when it enters a function.
LEMMA EntryIs ==
    ASSUME BeginCapture
    PROVE  /\ stack' = Append(stack, Entered(Wanted, Function(Wanted)))
           /\ UNCHANGED <<world, method, programs, owners, order, failure>>
<1> DEFINE function == Function(Wanted)
           ids == ParameterIds(function)
<1>1. DOMAIN ids = DOMAIN function.params
  BY DEF ParameterIds
<1>2. \A n \in ToSet(function.params) :
         (CHOOSE k \in DOMAIN ids : function.params[k] = n) = Number(function, n)
  BY <1>1, Zenon DEF Number
<1>3. [n \in ToSet(function.params) |->
          [quantum |-> TRUE, id |-> ids[CHOOSE k \in DOMAIN ids : function.params[k] = n]]]
        = ParameterNames(function)
  BY <1>2, Zenon DEF ParameterNames
<1>4. stack' = Append(stack,
              [fn |-> Wanted, pc |-> 1,
               names |-> [n \in ToSet(function.params) |->
                            [quantum |-> TRUE,
                             id |-> ids[CHOOSE k \in DOMAIN ids : function.params[k] = n]]],
               params |-> ids,
               defs |-> [k \in DOMAIN ids |-> [id |-> ids[k], pos |-> Position(0, k)]],
               code |-> <<>>, bits |-> <<>>, leaves |-> <<>>, asBit |-> {}, asQubit |-> {}])
  BY Zenon DEF BeginCapture, ParameterIds
<1>5. stack' = Append(stack, Entered(Wanted, function))
  BY <1>3, <1>4, Zenon DEF Entered, ParameterDefs
<1>6. QED BY <1>5 DEF BeginCapture

LEMMA BeginKeeps ==
    ASSUME CaptureIInv, BeginCapture
    PROVE  CaptureIInv'
<1> DEFINE new == Entered(Wanted, Function(Wanted))
<1>0. StackIInv /\ ProgramsIInv /\ Proceeding /\ Wanted # NoValue /\ failure = NoValue /\ world \in Worlds
  BY DEF CaptureIInv, BeginCapture, Proceeding, Capturing, StackIInv
<1>1. /\ Wanted \in Functions /\ ActiveWith(Function(Wanted).id) = {}
      /\ Function(Wanted).id \notin DOMAIN programs
      /\ stack # <<>> => ~AtEnd /\ Statement.form \in {"assign", "call"}
                         /\ Meaning(Statement) = Wanted
  BY <1>0, WantedIsNew
<1>2. /\ world' = world /\ programs' = programs /\ owners' = owners /\ order' = order
      /\ failure' = NoValue /\ stack' = Append(stack, new)
  BY <1>0, EntryIs
<1>3. /\ new \in CaptureFrames(world) /\ CaptureFits(world, programs, owners, new)
      /\ new.fn = Wanted
  <2>1. Wanted \in DOMAIN world.functions /\ Function(Wanted) = world.functions[Wanted]
    BY <1>1 DEF Functions, Function
  <2>2. new \in CaptureFrames(world)
    BY <1>0, <2>1, EnteredIsFrame
  <2>3. CaptureFits(world, programs, owners, new)
    BY <1>0, <2>1, EnteredFits
  <2>4. new.fn = Wanted
    BY EnteredIs
  <2>5. QED BY <2>2, <2>3, <2>4
<1> HIDE DEF new
<1>4. stack \in Seq(CaptureFrames(world)) /\ Len(stack) \in Nat /\ DOMAIN stack = 1 .. Len(stack)
  BY <1>0 DEF StackIInv
<1>5. /\ stack' \in Seq(CaptureFrames(world)) /\ Len(stack') = Len(stack) + 1
      /\ DOMAIN stack' = 1 .. Len(stack) + 1
      /\ stack'[Len(stack) + 1] = new
      /\ \A k \in 1 .. Len(stack) : stack'[k] = stack[k]
  BY <1>2, <1>3, <1>4
<1>6. \A k \in DOMAIN stack : world.functions[stack[k].fn].id # world.functions[Wanted].id
  BY <1>1 DEF ActiveWith, Function
<1>7. \A k \in DOMAIN stack' : CaptureFits(world, programs, owners, stack'[k])
  BY <1>0, <1>3, <1>4, <1>5 DEF StackIInv
<1>8. \A k, n \in DOMAIN stack' :
         world.functions[stack'[k].fn].id = world.functions[stack'[n].fn].id => k = n
  <2>1. \A k, n \in DOMAIN stack :
           world.functions[stack[k].fn].id = world.functions[stack[n].fn].id => k = n
    BY <1>0 DEF StackIInv, Function
  <2>2. SUFFICES ASSUME NEW k \in DOMAIN stack', NEW n \in DOMAIN stack',
                        world.functions[stack'[k].fn].id = world.functions[stack'[n].fn].id
                 PROVE  k = n
    OBVIOUS
  <2>3. k \in 1 .. Len(stack) \/ k = Len(stack) + 1
    BY <1>4, <1>5
  <2>4. n \in 1 .. Len(stack) \/ n = Len(stack) + 1
    BY <1>4, <1>5
  <2>5. CASE k \in 1 .. Len(stack) /\ n \in 1 .. Len(stack)
    BY <1>4, <1>5, <2>1, <2>2, <2>5
  <2>6. CASE k \in 1 .. Len(stack) /\ n = Len(stack) + 1
    BY <1>3, <1>4, <1>5, <1>6, <2>2, <2>6
  <2>7. CASE k = Len(stack) + 1 /\ n \in 1 .. Len(stack)
    BY <1>3, <1>4, <1>5, <1>6, <2>2, <2>7
  <2>8. QED BY <2>3, <2>4, <2>5, <2>6, <2>7
<1>9. \A k \in DOMAIN stack' : world.functions[stack'[k].fn].id \notin DOMAIN programs
  <2>1. \A k \in DOMAIN stack : world.functions[stack[k].fn].id \notin DOMAIN programs
    BY <1>0 DEF StackIInv, Function
  <2>2. world.functions[Wanted].id \notin DOMAIN programs
    BY <1>1 DEF Function
  <2>3. QED BY <1>3, <1>4, <1>5, <2>1, <2>2
<1>10. \A k \in 1 .. Len(stack') - 1 :
          LET body == Body(world, stack'[k].fn)
          IN  /\ stack'[k].pc \in DOMAIN body /\ body[stack'[k].pc].form \in {"assign", "call"}
              /\ MeaningIn(world, body[stack'[k].pc]) = stack'[k + 1].fn
  <2> SUFFICES ASSUME NEW k \in 1 .. Len(stack') - 1
      PROVE LET body == Body(world, stack'[k].fn)
            IN  /\ stack'[k].pc \in DOMAIN body /\ body[stack'[k].pc].form \in {"assign", "call"}
                /\ MeaningIn(world, body[stack'[k].pc]) = stack'[k + 1].fn
    OBVIOUS
  <2>1. CASE k \in 1 .. Len(stack) - 1
    <3>1. stack'[k] = stack[k] /\ stack'[k + 1] = stack[k + 1]
      BY <1>4, <1>5, <2>1
    <3>2. QED BY <1>0, <2>1, <3>1 DEF StackIInv
  <2>2. CASE k = Len(stack)
    <3>1. stack # <<>> /\ stack'[k] = stack[k] /\ stack'[k + 1] = new /\ stack[k] = Frame
      <4>1. k \in 1 .. Len(stack)
        BY <1>4, <1>5, <2>2
      <4>2. stack # <<>>
        BY <1>4, <4>1
      <4>3. Frame = stack[Len(stack)]
        BY <1>0, <4>2, AtWork
      <4>4. QED BY <1>5, <2>2, <4>1, <4>2, <4>3
    <3>2. /\ Frame.pc \in DOMAIN Body(world, Frame.fn) /\ Statement.form \in {"assign", "call"}
          /\ Statement = Body(world, Frame.fn)[Frame.pc] /\ Meaning(Statement) = Wanted
      BY <1>0, <1>1, <3>1, AtStatement
    <3>3. MeaningIn(world, Statement) = Meaning(Statement)
      BY DEF MeaningIn, Meaning
    <3>4. QED BY <1>3, <3>1, <3>2, <3>3
  <2>3. k \in 1 .. Len(stack) - 1 \/ k = Len(stack)
    <3>1. Len(stack') - 1 = Len(stack) /\ Len(stack) \in Nat
      BY <1>4, <1>5
    <3>2. k \in 1 .. Len(stack)
      BY <3>1
    <3> DEFINE n == Len(stack)
    <3> HIDE DEF n
    <3>3. n \in Nat /\ k \in 1 .. n
      BY <3>1, <3>2 DEF n
    <3>4. k \in 1 .. n - 1 \/ k = n
      BY <3>3
    <3>5. QED BY <3>4 DEF n
  <2>4. QED BY <2>1, <2>2, <2>3
<1>11. StackIInv'
  BY <1>0, <1>2, <1>5, <1>7, <1>8, <1>9, <1>10 DEF StackIInv, Function
<1>12. ProgramsIInv'
  BY <1>0, <1>2 DEF ProgramsIInv, Functions, Function
<1>13. FailureIInv'
  BY <1>2 DEF FailureIInv
<1>14. QED BY <1>11, <1>12, <1>13 DEF CaptureIInv

\* More programs change no call.
LEMMA CallsStay ==
    ASSUME NEW w, NEW f, NEW code, NEW ps, NEW ow, NEW more, NEW moreOwners,
           CallsFit(w, ps, ow, f, code),
           \A p \in DOMAIN ps : p \in DOMAIN more /\ more[p] = ps[p] /\ moreOwners[p] = ow[p]
    PROVE  CallsFit(w, more, moreOwners, f, code)
<1> SUFFICES ASSUME NEW i \in DOMAIN code, code[i].kind = "call"
             PROVE  /\ CallResolved([programs |-> more], code[i])
                    /\ Observations(more[code[i].callee]) = {}
                    /\ moreOwners[code[i].callee] = MeaningIn(w, Body(w, f)[Line(code[i])])
  BY DEF CallsFit
<1>1. /\ CallResolved([programs |-> ps], code[i])
      /\ Observations(ps[code[i].callee]) = {}
      /\ ow[code[i].callee] = MeaningIn(w, Body(w, f)[Line(code[i])])
  BY DEF CallsFit
<1>2. code[i].callee \in DOMAIN ps
  BY <1>1 DEF CallResolved
<1>3. more[code[i].callee] = ps[code[i].callee] /\ moreOwners[code[i].callee] = ow[code[i].callee]
      /\ code[i].callee \in DOMAIN more
  BY <1>2
<1>4. CallResolved([programs |-> more], code[i])
  BY <1>1, <1>3 DEF CallResolved
<1>5. QED BY <1>1, <1>3, <1>4

LEMMA CaptureStays ==
    ASSUME NEW w, NEW frame, NEW ps, NEW ow, NEW more, NEW moreOwners,
           CaptureFits(w, ps, ow, frame),
           \A p \in DOMAIN ps : p \in DOMAIN more /\ more[p] = ps[p] /\ moreOwners[p] = ow[p]
    PROVE  CaptureFits(w, more, moreOwners, frame)
<1>1. CallsFit(w, more, moreOwners, frame.fn, frame.code)
  BY CallsStay DEF CaptureFits
<1>2. QED BY <1>1 DEF CaptureFits

\* A body that is done has been read to its end.
LEMMA ReadToTheEnd ==
    ASSUME StackIInv, Proceeding, Wanted = NoValue, BodyDone
    PROVE  /\ OriginsAfter(Source, Frame.pc - 1) = Origins(Source)
           /\ Source.returns.shape = "scalar" => Frame.leaves # <<>>
<1>0. stack # <<>> /\ world \in Worlds
  BY WaitsForNothing DEF StackIInv
<1>1. /\ Frame \in CaptureFrames(world) /\ CaptureFits(world, programs, owners, Frame)
      /\ Frame.fn \in DOMAIN world.functions /\ Source = world.functions[Frame.fn]
      /\ Source.body = Body(world, Frame.fn)
  BY <1>0, AtWork DEF Functions
<1>2. Frame.pc \in 1 .. Len(Body(world, Frame.fn)) + 1
  BY <1>1 DEF CaptureFits, PositionsGrow
<1>3. Len(Body(world, Frame.fn)) \in Nat
      /\ DOMAIN Body(world, Frame.fn) = 1 .. Len(Body(world, Frame.fn))
  BY <1>0, <1>1, WorldFacts
<1>4. CASE AtEnd
  <2>1. Frame.pc - 1 = Len(Body(world, Frame.fn))
    BY <1>1, <1>2, <1>3, <1>4 DEF AtEnd
  <2>2. OriginsAfter(Source, Len(Body(world, Frame.fn))) = Origins(Source)
    BY <1>0, <1>1, OriginsAdvance
  <2>3. Source.returns.shape = "none"
    BY <1>4, WaitsForNothing
  <2>4. QED BY <2>1, <2>2, <2>3
<1>5. CASE ~AtEnd
  <2>1. /\ Statement.form = "return" /\ AllLeavesAligned /\ StatementError(Statement) = NoValue
        /\ Statement = Body(world, Frame.fn)[Frame.pc] /\ Frame.pc \in DOMAIN Body(world, Frame.fn)
        /\ IsStatement(Statement, Source.variables)
    BY <1>0, <1>5, WaitsForNothing, AtStatement DEF BodyDone
  <2>2. ReturnError(Statement) = NoValue
    BY <2>1 DEF StatementError
  <2>3. Frame.pc = Len(Body(world, Frame.fn)) /\ Len(Statement.args) = Len(Source.returns.kinds)
    BY <1>0, <1>1, <2>2, CodesAreNoNoValue DEF ReturnError
  <2>4. OriginsAfter(Source, Frame.pc - 1) = OriginsAfter(Source, Frame.pc)
    <3> DEFINE before == OriginsAfter(Source, Frame.pc - 1)
               after == OriginsAfter(Source, Frame.pc)
    <3>1. after = Rebound(before, Statement, Frame.pc)
      BY <1>0, <1>1, <1>3, <2>1, OriginsAdvance
    <3> HIDE DEF before, after
    <3>2. after = before
      BY <2>1, <3>1 DEF Rebound
    <3>3. QED BY <3>2 DEF before, after
  <2>5. OriginsAfter(Source, Frame.pc) = Origins(Source)
    BY <1>0, <1>1, <2>3, OriginsAdvance
  <2>6. Source.returns.shape = "scalar" => Frame.leaves # <<>>
    <3>1. Source.returns.shape = "scalar" => Len(Source.returns.kinds) = 1
      BY <1>0, <1>1, WorldsArePython DEF IsWorld
    <3>2. Len(Frame.leaves) \in Nat
      BY <1>0, <1>1, FrameFacts
    <3>3. Len(Frame.leaves) + 1 > Len(Statement.args)
      BY <2>1 DEF AllLeavesAligned, NextLeaf
    <3>4. Source.returns.shape = "scalar" => Len(Frame.leaves) # 0
      <4> SUFFICES ASSUME Source.returns.shape = "scalar" PROVE Len(Frame.leaves) # 0
        OBVIOUS
      <4>1. Len(Statement.args) = 1
        BY <2>3, <3>1
      <4> DEFINE n == Len(Frame.leaves)
      <4>2. n + 1 > 1 /\ n \in Nat
        BY <3>2, <3>3, <4>1
      <4> HIDE DEF n
      <4>3. n # 0
        BY <4>2
      <4>4. QED BY <4>3 DEF n
    <3>5. Frame.leaves = <<>> => Len(Frame.leaves) = 0
      OBVIOUS
    <3>6. QED BY <3>4, <3>5
  <2>7. QED BY <2>4, <2>5, <2>6
<1>6. QED BY <1>4, <1>5

\* Then operands are one value exactly when their names are.
LEMMA OperandsOfDone ==
    ASSUME StackIInv, Proceeding, Wanted = NoValue, BodyDone
    PROVE  OperandsFit(world, Frame.fn, Frame.code)
<1>0. stack # <<>> /\ world \in Worlds
  BY WaitsForNothing DEF StackIInv
<1>1. /\ CaptureFits(world, programs, owners, Frame)
      /\ Source = world.functions[Frame.fn]
  BY <1>0, AtWork
<1>2. OriginsAfter(Source, Frame.pc - 1) = Origins(Source)
  BY ReadToTheEnd
<1>3. NamesGoBack(world, Frame) /\ OperandsNamed(world, Frame)
  BY <1>1 DEF CaptureFits
<1> DEFINE names(i) == Written(Body(world, Frame.fn), Frame.code[i])
           origins == Origins(world.functions[Frame.fn])
<1>4. \A n \in DOMAIN Frame.names : origins[n] = OriginAt(Frame.names[n].id[3])
  BY <1>1, <1>2, <1>3 DEF NamesGoBack
<1>5. \A m, n \in DOMAIN Frame.names :
         (Frame.names[m].id = Frame.names[n].id) <=> (origins[m] = origins[n])
  BY <1>3, <1>4 DEF NamesGoBack
<1>6. \A i \in DOMAIN Frame.code : \A r \in DOMAIN names(i) :
         names(i)[r] \in DOMAIN Frame.names /\ Frame.code[i].refs[r] = Frame.names[names(i)[r]].id
  BY <1>3 DEF OperandsNamed
<1>7. \A i, j \in DOMAIN Frame.code : \A r \in DOMAIN names(i), s \in DOMAIN names(j) :
         (Frame.code[i].refs[r] = Frame.code[j].refs[s])
            <=> (origins[names(i)[r]] = origins[names(j)[s]])
  <2> HIDE DEF names, origins
  <2>1. QED BY <1>5, <1>6
<1>8. QED BY <1>7 DEF OperandsFit

LEMMA Finished ==
    ASSUME CaptureIInv, FinishProgram
    PROVE  /\ StackIInv /\ ProgramsIInv /\ Proceeding /\ Wanted = NoValue /\ BodyDone
           /\ stack # <<>> /\ IsLogicalProgram(Assembled) /\ failure = NoValue
           /\ world' = world /\ failure' = NoValue /\ order' = Append(order, Source.id)
           /\ DOMAIN programs' = DOMAIN programs \union {Source.id}
           /\ DOMAIN owners' = DOMAIN owners \union {Source.id}
           /\ programs'[Source.id] = Assembled /\ owners'[Source.id] = Frame.fn
           /\ \A p \in DOMAIN programs :
                 p # Source.id /\ programs'[p] = programs[p] /\ owners'[p] = owners[p]
           /\ stack' = Front(stack)
<1>1. StackIInv /\ ProgramsIInv /\ Proceeding /\ Wanted = NoValue /\ BodyDone /\ failure = NoValue
  BY DEF CaptureIInv, FinishProgram, Proceeding, Capturing
<1>2. stack # <<>> /\ IsLogicalProgram(Assembled)
  BY <1>1, WaitsForNothing
<1>3. Source.id \notin DOMAIN programs /\ DOMAIN owners = DOMAIN programs
  BY <1>1, <1>2, AtWork DEF ProgramsIInv
<1>4. /\ programs' = [id \in DOMAIN programs \union {Source.id} |->
                       IF id = Source.id THEN Assembled ELSE programs[id]]
      /\ owners' = [id \in DOMAIN owners \union {Source.id} |->
                       IF id = Source.id THEN Frame.fn ELSE owners[id]]
      /\ world' = world /\ failure' = failure /\ order' = Append(order, Source.id)
      /\ stack' = Front(stack)
  BY DEF FinishProgram
<1> DEFINE source == Source
           assembled == Assembled
           fn == Frame.fn
<1> HIDE DEF source, assembled, fn
<1>5. /\ DOMAIN programs' = DOMAIN programs \union {source.id}
      /\ DOMAIN owners' = DOMAIN owners \union {source.id}
      /\ programs'[source.id] = assembled /\ owners'[source.id] = fn
      /\ \A p \in DOMAIN programs :
            p # source.id /\ programs'[p] = programs[p] /\ owners'[p] = owners[p]
  <2>1. /\ programs' = [id \in DOMAIN programs \union {source.id} |->
                       IF id = source.id THEN assembled ELSE programs[id]]
        /\ owners' = [id \in DOMAIN owners \union {source.id} |->
                       IF id = source.id THEN fn ELSE owners[id]]
        /\ source.id \notin DOMAIN programs /\ DOMAIN owners = DOMAIN programs
    BY <1>3, <1>4 DEF source, assembled, fn
  <2>2. QED BY <2>1
<1>6. QED BY <1>1, <1>2, <1>4, <1>5 DEF source, assembled, fn

LEMMA FrontIs ==
    ASSUME NEW S, NEW s \in Seq(S), s # <<>>
    PROVE  /\ Front(s) \in Seq(S) /\ Len(s) \in Nat /\ Len(s) > 0 /\ Len(Front(s)) = Len(s) - 1
           /\ DOMAIN Front(s) = 1 .. Len(s) - 1
           /\ \A k \in 1 .. Len(s) - 1 : k \in DOMAIN s /\ k # Len(s) /\ Front(s)[k] = s[k]
           /\ Len(s) \in DOMAIN s
<1>1. Len(s) \in Nat /\ Len(s) > 0 /\ DOMAIN s = 1 .. Len(s)
  BY EmptySeq
<1>2. Front(s) = SubSeq(s, 1, Len(s) - 1)
  BY DEF Front
<1>3. /\ SubSeq(s, 1, Len(s) - 1) \in Seq(S) /\ Len(SubSeq(s, 1, Len(s) - 1)) = Len(s) - 1
      /\ \A k \in 1 .. Len(s) - 1 : SubSeq(s, 1, Len(s) - 1)[k] = s[k]
  BY <1>1
<1>4. DOMAIN Front(s) = 1 .. Len(s) - 1
  BY <1>2, <1>3
<1>5. Front(s) \in Seq(S) /\ Len(Front(s)) = Len(s) - 1
      /\ \A k \in 1 .. Len(s) - 1 : Front(s)[k] = s[k]
  BY <1>2, <1>3
<1>6. \A k \in 1 .. Len(s) - 1 : k \in DOMAIN s /\ k # Len(s)
  <2> DEFINE n == Len(s)
             positions == DOMAIN s
  <2>1. n \in Nat /\ positions = 1 .. n
    BY <1>1
  <2> HIDE DEF n, positions
  <2>2. \A k \in 1 .. n - 1 : k \in positions /\ k # n
    BY <2>1
  <2>3. QED BY <2>2 DEF n, positions
<1>7. Len(s) \in DOMAIN s
  BY <1>1
<1> HIDE DEF Front
<1>8. QED BY <1>1, <1>4, <1>5, <1>6, <1>7, Zenon

\* The stack without the capture that is done.
LEMMA FinishKeepsStack ==
    ASSUME CaptureIInv, FinishProgram
    PROVE  StackIInv'
<1>1. /\ StackIInv /\ stack # <<>> /\ world' = world /\ stack' = Front(stack)
      /\ DOMAIN programs' = DOMAIN programs \union {Source.id}
      /\ \A p \in DOMAIN programs :
            p \in DOMAIN programs' /\ programs'[p] = programs[p] /\ owners'[p] = owners[p]
  BY Finished
<1>2. stack \in Seq(CaptureFrames(world)) /\ world \in Worlds
  BY <1>1 DEF StackIInv
<1> DEFINE n == Len(stack)
<1>3. /\ stack' \in Seq(CaptureFrames(world)) /\ n \in Nat /\ Len(stack') = n - 1
      /\ DOMAIN stack' = 1 .. n - 1
      /\ \A k \in 1 .. n - 1 : k \in DOMAIN stack /\ k # n /\ stack'[k] = stack[k]
      /\ n \in DOMAIN stack
  BY <1>1, <1>2, FrontIs
<1>4. Source.id = world.functions[stack[n].fn].id
  BY <1>1, AtWork
<1>5. \A k \in DOMAIN stack' : CaptureFits(world, programs', owners', stack'[k])
  <2> SUFFICES ASSUME NEW k \in DOMAIN stack' PROVE CaptureFits(world, programs', owners', stack'[k])
    OBVIOUS
  <2>1. CaptureFits(world, programs, owners, stack[k]) /\ stack'[k] = stack[k]
    BY <1>1, <1>3 DEF StackIInv
  <2>2. CaptureFits(world, programs', owners', stack[k])
    BY <1>1, <2>1, CaptureStays
  <2>3. QED BY <2>1, <2>2
<1>6. \A k, m \in DOMAIN stack :
         world.functions[stack[k].fn].id = world.functions[stack[m].fn].id => k = m
  BY <1>1 DEF StackIInv, Function
<1> HIDE DEF n
<1>7. \A k, m \in DOMAIN stack' :
         world.functions[stack'[k].fn].id = world.functions[stack'[m].fn].id => k = m
  BY <1>3, <1>6
<1>8. \A k \in DOMAIN stack' : world.functions[stack'[k].fn].id \notin DOMAIN programs'
  <2>1. \A k \in DOMAIN stack : world.functions[stack[k].fn].id \notin DOMAIN programs
    BY <1>1 DEF StackIInv, Function
  <2>2. QED BY <1>1, <1>3, <1>4, <1>6, <2>1
<1>9. \A k \in 1 .. Len(stack') - 1 :
          LET body == Body(world, stack'[k].fn)
          IN  /\ stack'[k].pc \in DOMAIN body /\ body[stack'[k].pc].form \in {"assign", "call"}
              /\ MeaningIn(world, body[stack'[k].pc]) = stack'[k + 1].fn
  <2> SUFFICES ASSUME NEW k \in 1 .. Len(stack') - 1
      PROVE LET body == Body(world, stack'[k].fn)
            IN  /\ stack'[k].pc \in DOMAIN body /\ body[stack'[k].pc].form \in {"assign", "call"}
                /\ MeaningIn(world, body[stack'[k].pc]) = stack'[k + 1].fn
    OBVIOUS
  <2>1. k \in 1 .. (n - 1) - 1
    BY <1>3
  <2>2. k \in 1 .. n - 1 /\ k + 1 \in 1 .. n - 1
    BY <1>3, <2>1
  <2>3. stack'[k] = stack[k] /\ stack'[k + 1] = stack[k + 1]
    BY <1>3, <2>2
  <2>4. QED BY <1>1, <2>2, <2>3 DEF StackIInv, n
<1>10. QED BY <1>1, <1>2, <1>3, <1>5, <1>7, <1>8, <1>9 DEF StackIInv, Function

LEMMA FinishedOrder ==
    ASSUME CaptureIInv, FinishProgram
    PROVE  /\ order \in Seq(ProgramIds(world)) /\ Len(order) \in Nat /\ DOMAIN order = 1 .. Len(order)
           /\ order' \in Seq(ProgramIds(world)) /\ Injective(order')
           /\ DOMAIN programs = ToSet(order)
           /\ DOMAIN programs' = ToSet(order') /\ DOMAIN owners' = ToSet(order')
           /\ DOMAIN order' = 1 .. Len(order) + 1 /\ order'[Len(order) + 1] = Source.id
           /\ \A m \in 1 .. Len(order) : order'[m] = order[m] /\ order[m] \in DOMAIN programs
<1>1. /\ order' = Append(order, Source.id) /\ DOMAIN programs' = DOMAIN programs \union {Source.id}
      /\ DOMAIN owners' = DOMAIN owners \union {Source.id}
      /\ \A p \in DOMAIN programs : p # Source.id
  BY Finished
<1>2. /\ order \in Seq(ProgramIds(world)) /\ Injective(order) /\ DOMAIN programs = ToSet(order)
      /\ DOMAIN owners = ToSet(order)
  BY Finished DEF ProgramsIInv
<1>3. Source.id \in ProgramIds(world)
  BY Finished, AtWork
<1> DEFINE id == Source.id
           n == Len(order)
<1> HIDE DEF id
<1>4. /\ n \in Nat /\ DOMAIN order = 1 .. n /\ order' \in Seq(ProgramIds(world))
      /\ DOMAIN order' = 1 .. n + 1 /\ order'[n + 1] = id
      /\ \A m \in 1 .. n : order'[m] = order[m]
  BY <1>1, <1>2, <1>3, Appended DEF id
<1> HIDE DEF n
<1>5. \A m \in 1 .. n : order[m] \in DOMAIN programs /\ order[m] # id
  BY <1>1, <1>2, <1>4 DEF ToSet, id
<1>6. Injective(order')
  <2> SUFFICES ASSUME NEW i \in DOMAIN order', NEW j \in DOMAIN order', order'[i] = order'[j]
               PROVE  i = j
    BY DEF Injective
  <2>1. (i \in 1 .. n \/ i = n + 1) /\ (j \in 1 .. n \/ j = n + 1)
    BY <1>4
  <2>2. CASE i \in 1 .. n /\ j \in 1 .. n
    BY <1>2, <1>4, <2>2 DEF Injective
  <2>3. CASE ~(i \in 1 .. n /\ j \in 1 .. n)
    BY <1>4, <1>5, <2>1, <2>3
  <2>4. QED BY <2>2, <2>3
<1>7. ToSet(order') = ToSet(order) \union {id}
  <2>1. ToSet(order') \subseteq ToSet(order) \union {id}
    BY <1>4 DEF ToSet
  <2>2. ToSet(order) \subseteq ToSet(order')
    BY <1>4 DEF ToSet
  <2>3. id \in ToSet(order')
    BY <1>4 DEF ToSet
  <2>4. QED BY <2>1, <2>2, <2>3
<1>8. QED BY <1>1, <1>2, <1>4, <1>5, <1>6, <1>7 DEF id, n

LEMMA AssembledIs ==
    /\ Assembled.params = Frame.params /\ Assembled.code = Frame.code
    /\ Assembled.leaves = Frame.leaves /\ Assembled.shape = Source.returns.shape
    /\ Assembled.defs = Frame.defs /\ Assembled.bits = Frame.bits
BY DEF Assembled

\* The program that is kept.
LEMMA AssembledFits ==
    ASSUME CaptureIInv, FinishProgram
    PROVE  /\ ProgramTyped(world, Assembled)
           /\ CallsFit(world, programs, owners, Frame.fn, Assembled.code)
           /\ OperandsFit(world, Frame.fn, Assembled.code)
<1>1. StackIInv /\ Proceeding /\ Wanted = NoValue /\ BodyDone /\ stack # <<>> /\ world \in Worlds
  BY Finished DEF StackIInv
<1>2. Frame \in CaptureFrames(world) /\ CaptureFits(world, programs, owners, Frame)
  BY <1>1, AtWork
<1>3. Frame.params \in Seq(Ids(world)) /\ Frame.code \in Seq(Instructions(world))
      /\ Frame.leaves \in Seq(Values(world))
  BY <1>1, <1>2, FrameFacts
<1>4. Source.returns.shape = "scalar" => Frame.leaves # <<>>
  BY <1>1, ReadToTheEnd
<1>5. ProgramTyped(world, Assembled)
  BY <1>3, <1>4, AssembledIs DEF ProgramTyped
<1>6. CallsFit(world, programs, owners, Frame.fn, Assembled.code)
  BY <1>2, AssembledIs DEF CaptureFits
<1>7. OperandsFit(world, Frame.fn, Assembled.code)
  BY <1>1, OperandsOfDone, AssembledIs
<1>8. QED BY <1>5, <1>6, <1>7

LEMMA CallsAreKept ==
    ASSUME NEW w, NEW f, NEW ps, NEW ow, NEW program, CallsFit(w, ps, ow, f, program.code)
    PROVE  \A i \in CallInstrs(program) : program.code[i].callee \in DOMAIN ps
BY DEF CallsFit, CallInstrs, CallResolved

LEMMA FinishKeepsPrograms ==
    ASSUME CaptureIInv, FinishProgram
    PROVE  ProgramsIInv'
<1> DEFINE id == Source.id
           new == Assembled
           n == Len(order)
<1>1. /\ ProgramsIInv /\ IsLogicalProgram(new) /\ world' = world
      /\ DOMAIN programs' = DOMAIN programs \union {id}
      /\ programs'[id] = new /\ owners'[id] = Frame.fn
      /\ \A p \in DOMAIN programs :
            p # id /\ programs'[p] = programs[p] /\ owners'[p] = owners[p]
  BY Finished
<1>2. Frame.fn \in DOMAIN world.functions /\ world.functions[Frame.fn].id = id
  BY Finished, AtWork DEF Functions
<1>3. /\ ProgramTyped(world, new) /\ CallsFit(world, programs, owners, Frame.fn, new.code)
      /\ OperandsFit(world, Frame.fn, new.code)
  BY AssembledFits
<1>4. /\ n \in Nat /\ DOMAIN order = 1 .. n
      /\ order' \in Seq(ProgramIds(world)) /\ Injective(order')
      /\ DOMAIN programs = ToSet(order)
      /\ DOMAIN programs' = ToSet(order') /\ DOMAIN owners' = ToSet(order')
      /\ DOMAIN order' = 1 .. n + 1 /\ order'[n + 1] = id
      /\ \A m \in 1 .. n : order'[m] = order[m] /\ order[m] \in DOMAIN programs
  BY FinishedOrder
<1> HIDE DEF id, new, n
<1>5. \A p \in DOMAIN programs : p \in DOMAIN programs' /\ programs'[p] = programs[p] /\ owners'[p] = owners[p]
  BY <1>1
<1>6. \A p \in DOMAIN programs' :
          /\ owners'[p] \in DOMAIN world.functions /\ world.functions[owners'[p]].id = p
          /\ ProgramTyped(world, programs'[p]) /\ IsLogicalProgram(programs'[p])
          /\ CallsFit(world, programs', owners', owners'[p], programs'[p].code)
          /\ OperandsFit(world, owners'[p], programs'[p].code)
  <2> SUFFICES ASSUME NEW p \in DOMAIN programs'
               PROVE  /\ owners'[p] \in DOMAIN world.functions /\ world.functions[owners'[p]].id = p
                      /\ ProgramTyped(world, programs'[p]) /\ IsLogicalProgram(programs'[p])
                      /\ CallsFit(world, programs', owners', owners'[p], programs'[p].code)
                      /\ OperandsFit(world, owners'[p], programs'[p].code)
    OBVIOUS
  <2>1. CASE p \in DOMAIN programs
    <3>1. /\ owners[p] \in DOMAIN world.functions /\ world.functions[owners[p]].id = p
          /\ ProgramTyped(world, programs[p]) /\ IsLogicalProgram(programs[p])
          /\ CallsFit(world, programs, owners, owners[p], programs[p].code)
          /\ OperandsFit(world, owners[p], programs[p].code)
      BY <1>1, <2>1 DEF ProgramsIInv, Functions, Function
    <3>2. CallsFit(world, programs', owners', owners[p], programs[p].code)
      BY <1>5, <3>1, CallsStay
    <3>3. programs'[p] = programs[p] /\ owners'[p] = owners[p]
      BY <1>5, <2>1
    <3>4. QED BY <3>1, <3>2, <3>3
  <2>2. CASE p = id
    <3>1. CallsFit(world, programs', owners', Frame.fn, new.code)
      BY <1>3, <1>5, CallsStay
    <3>2. programs'[p] = new /\ owners'[p] = Frame.fn
      BY <1>1, <2>2
    <3>3. QED BY <1>1, <1>2, <1>3, <2>2, <3>1, <3>2
  <2>3. QED BY <1>1, <2>1, <2>2
<1>7. \A k \in DOMAIN order' : \A i \in CallInstrs(programs'[order'[k]]) :
          \E m \in 1 .. k - 1 : order'[m] = programs'[order'[k]].code[i].callee
  <2> SUFFICES ASSUME NEW k \in DOMAIN order', NEW i \in CallInstrs(programs'[order'[k]])
               PROVE  \E m \in 1 .. k - 1 : order'[m] = programs'[order'[k]].code[i].callee
    OBVIOUS
  <2>1. CASE k \in 1 .. n
    <3>1. order'[k] = order[k] /\ programs'[order[k]] = programs[order[k]]
      BY <1>1, <1>4, <2>1
    <3>2. PICK m \in 1 .. k - 1 : order[m] = programs[order[k]].code[i].callee
      <4>1. k \in DOMAIN order /\ i \in CallInstrs(programs[order[k]])
        BY <1>4, <2>1, <3>1
      <4>2. QED BY <1>1, <4>1 DEF ProgramsIInv
    <3>3. m \in 1 .. n
      BY <1>4, <2>1
    <3>4. QED BY <1>4, <3>1, <3>2, <3>3
  <2>2. CASE k = n + 1
    <3>1. order'[k] = id /\ programs'[id] = new
      BY <1>1, <1>4, <2>2
    <3>2. new.code[i].callee \in DOMAIN programs
      BY <1>3, <3>1, CallsAreKept
    <3>3. PICK m \in DOMAIN order : order[m] = new.code[i].callee
      BY <1>4, <3>2 DEF ToSet
    <3>4. m \in 1 .. k - 1 /\ order'[m] = order[m]
      BY <1>4, <2>2, <3>3
    <3>5. QED BY <3>1, <3>3, <3>4
  <2>3. QED BY <1>4, <2>1, <2>2
<1>8. QED BY <1>1, <1>4, <1>6, <1>7 DEF ProgramsIInv, Functions, Function

LEMMA FinishKeeps ==
    ASSUME CaptureIInv, FinishProgram
    PROVE  CaptureIInv'
<1>1. failure' = NoValue
  BY Finished
<1>2. FailureIInv'
  BY <1>1 DEF FailureIInv
<1>3. QED BY <1>2, FinishKeepsStack, FinishKeepsPrograms DEF CaptureIInv

-----------------------------------------------------------------------------
(* Why a capture is refused.                                               *)

\* What the capture itself finds wrong with a statement.
LEMMA CallCodes ==
    ASSUME NEW stmt
    PROVE  CallError(stmt) \in {"P103", "P104", "P105", "P106", "P116", NoValue}
<1>1. UnresolvedError(stmt) \in {"P103", "P104", "P105"}
  BY DEF UnresolvedError
<1>2. \A callee : CalleeError(stmt, callee) \in {"P105", "P106", "P116", NoValue}
  BY DEF CalleeError
<1>3. \A intrinsic : IntrinsicError(stmt, intrinsic) \in {"P105", "P106", NoValue}
  BY DEF IntrinsicError
<1> HIDE DEF UnresolvedError, CalleeError, IntrinsicError
<1>4. CallError(stmt) \in {"P104", UnresolvedError(stmt), IntrinsicError(stmt, Meaning(stmt)),
         CalleeError(stmt, programs[Function(Meaning(stmt)).id])}
  BY DEF CallError
<1>5. QED BY <1>1, <1>2, <1>3, <1>4

LEMMA StatementCodes ==
    ASSUME world \in Worlds, NEW variables, IsStatement(Statement, variables)
    PROVE  StatementError(Statement) \notin {"invariant", "P115"}
<1> DEFINE stmt == Statement
<1>1. NoValue # "invariant" /\ NoValue # "P115"
  BY CodesAreNoNoValue
<1>2. CallError(stmt) \notin {"invariant", "P115"}
  BY <1>1, CallCodes
<1>3. AssignmentError(stmt) \notin {"invariant", "P115"}
  BY <1>1, <1>2 DEF AssignmentError
<1>4. ReturnError(stmt) \notin {"invariant", "P115"}
  BY <1>1 DEF ReturnError
<1>5. LeafError(stmt) \notin {"invariant", "P115"}
  BY <1>1 DEF LeafError
<1>6. stmt.form \in {"refused", "assign", "alias", "call", "return"}
      /\ (stmt.form = "refused" => stmt.code \in SyntaxCodes)
  BY DEF IsStatement
<1> HIDE DEF stmt
<1>7. CASE stmt.form = "refused"
  BY <1>6, <1>7 DEF StatementError, SyntaxCodes, stmt
<1>8. CASE stmt.form = "call"
  BY <1>2, <1>8 DEF StatementError, stmt
<1>9. CASE stmt.form \in {"assign", "alias"}
  BY <1>3, <1>9 DEF StatementError, stmt
<1>10. CASE stmt.form = "return"
  <2>1. StatementError(stmt) \in {ReturnError(stmt), NoValue, LeafError(stmt)}
    BY <1>10 DEF StatementError
  <2>2. QED BY <1>1, <1>4, <1>5, <2>1 DEF stmt
<1>11. QED BY <1>6, <1>7, <1>8, <1>9, <1>10

LEMMA SignatureCodes ==
    ASSUME world \in Worlds, NEW f
    PROVE  SignatureError(f) \notin {"invariant", "P115"} /\ EntryError(f) # "invariant"
<1>1. NoValue # "invariant" /\ NoValue # "P115"
  BY CodesAreNoNoValue
<1>2. QED BY <1>1 DEF SignatureError, EntryError

\* The constructor is asked for one reason only.
LEMMA WhenTurnedDown ==
    ASSUME StackIInv, Capturing, CaptureError = "invariant"
    PROVE  stack # <<>> /\ BodyDone /\ ~IsLogicalProgram(Assembled)
<1>0. world \in Worlds
  BY DEF StackIInv
<1>1. NoValue # "invariant"
  BY <1>0, CodesAreNoNoValue
<1>2. Wanted = NoValue
  BY <1>0, <1>1, SignatureCodes DEF CaptureError
<1>3. stack # <<>>
  <2>1. world.entry # NoValue
    BY <1>0, WorldFacts, WorldsArePython DEF IsWorld
  <2>2. QED BY <1>2, <2>1 DEF Wanted
<1>4. ~AtEnd => StatementError(Statement) # "invariant"
  BY <1>0, <1>3, AtStatement, StatementCodes
<1>5. QED BY <1>1, <1>2, <1>3, <1>4 DEF CaptureError

LEMMA AssembledDeclared ==
    ASSUME NEW w \in Worlds, NEW frame \in CaptureFrames(w), NEW ps, NEW ow,
           CaptureFits(w, ps, ow, frame), NEW shape
    PROVE  LET program == [params |-> frame.params, defs |-> frame.defs, code |-> frame.code,
                           bits |-> frame.bits, shape |-> shape, leaves |-> frame.leaves]
           IN  IsLogicalProgram(program) <=> ReturnDeclared(program)
<1> DEFINE program == [params |-> frame.params, defs |-> frame.defs, code |-> frame.code,
                       bits |-> frame.bits, shape |-> shape, leaves |-> frame.leaves]
           made == Made(frame)
<1>1. /\ program.params = frame.params /\ program.defs = frame.defs /\ program.code = frame.code
      /\ program.bits = frame.bits /\ program.leaves = frame.leaves
      /\ made.params = frame.params /\ made.defs = frame.defs /\ made.code = frame.code
      /\ made.bits = frame.bits
  BY DEF Made
<1>2. ValuesDeclared(frame) /\ CodeDeclared(frame)
  BY DEF CaptureFits
<1> HIDE DEF program, made
<1>3. /\ BitIds(program) = BitIds(made) /\ Observations(program) = Observations(made)
      /\ DefinedIds(program) = DefinedIds(made) /\ CallInstrs(program) = CallInstrs(made)
  BY <1>1 DEF BitIds, Observations, DefinedIds, CallInstrs
<1>4. \A i : KnownBefore(program, i) = KnownBefore(made, i)
  BY <1>1, <1>3, Zenon DEF KnownBefore
<1>5. \A i \in DOMAIN frame.code : InstructionDeclared(program, i)
  <2> SUFFICES ASSUME NEW i \in DOMAIN frame.code PROVE InstructionDeclared(program, i)
    OBVIOUS
  <2>1. InstructionDeclared(made, i)
    BY <1>2 DEF CodeDeclared, made
  <2>2. program.code[i] = made.code[i]
    BY <1>1
  <2>3. QED BY <1>3, <1>4, <2>1, <2>2, Zenon DEF InstructionDeclared
<1>6. Injective([d \in DOMAIN program.defs |-> program.defs[d].id])
  BY <1>1, <1>2 DEF ValuesDeclared
<1>7. Injective(program.params) /\ Injective(program.bits)
  BY <1>1, <1>2 DEF ValuesDeclared
<1>8. ParamIds(program) \subseteq DefinedIds(program)
  BY <1>1, <1>2 DEF ValuesDeclared, ParamIds, DefinedIds
<1>9. DefinedIds(program) \intersect BitIds(program) = {}
  <2>1. \A id \in DefinedIds(program) : id[2] \in {"parameter", "qubit-declaration"}
    BY <1>1, <1>2 DEF ValuesDeclared, DefinedIds
  <2>2. \A id \in BitIds(program) : id[2] \in {"observation-result", "discarded-observation-result"}
    BY <1>1, <1>2 DEF ValuesDeclared, BitIds
  <2>3. QED BY <2>1, <2>2
<1>10. Injective([i \in DOMAIN program.code |-> program.code[i].op])
  BY <1>1, <1>2 DEF CodeDeclared
<1>11. \A i, j \in Observations(program) : program.code[i].result = program.code[j].result => i = j
  BY <1>1, <1>2, <1>3 DEF CodeDeclared, made
<1>12. BitIds(program) = {program.code[i].result : i \in Observations(program)}
  BY <1>1, <1>2, <1>3 DEF CodeDeclared, made
<1>13. \A i \in DOMAIN program.code : InstructionDeclared(program, i)
  BY <1>1, <1>5
<1>14. IsLogicalProgram(program) <=> ReturnDeclared(program)
  BY <1>6, <1>7, <1>8, <1>9, <1>10, <1>11, <1>12, <1>13 DEF IsLogicalProgram
<1>15. QED BY <1>14 DEF program

\* A return of a qubit that was observed before.
LEMMA TurnedDownExplained ==
    ASSUME StackIInv, Capturing, CaptureError = "invariant"
    PROVE  \E l \in DOMAIN Frame.leaves : \E i \in Observations(Assembled) :
              /\ Frame.leaves[l].quantum /\ Frame.leaves[l].id = Frame.code[i].refs[1]
              /\ Frame.code[i].op[2] = "explicit-observation"
<1>1. stack # <<>> /\ ~IsLogicalProgram(Assembled) /\ world \in Worlds
  BY WhenTurnedDown DEF StackIInv
<1>2. Frame \in CaptureFrames(world) /\ CaptureFits(world, programs, owners, Frame)
  BY <1>1, AtWork
<1>3. IsLogicalProgram(Assembled) <=> ReturnDeclared(Assembled)
  BY <1>1, <1>2, AssembledDeclared DEF Assembled
<1>4. LeavesDeclared(Frame)
  BY <1>2 DEF CaptureFits
<1>5. /\ Observations(Assembled) = Observations(Made(Frame)) /\ BitIds(Assembled) = BitIds(Made(Frame))
      /\ KnownBefore(Assembled, Len(Assembled.code) + 1) = KnownTo(Frame)
  <2>1. /\ Assembled.code = Made(Frame).code /\ Assembled.bits = Made(Frame).bits
        /\ Assembled.defs = Made(Frame).defs /\ Assembled.code = Frame.code
    BY AssembledIs DEF Made
  <2> HIDE DEF Assembled, Made
  <2>2. Observations(Assembled) = Observations(Made(Frame)) /\ BitIds(Assembled) = BitIds(Made(Frame))
        /\ CallInstrs(Assembled) = CallInstrs(Made(Frame)) /\ DefinedIds(Assembled) = DefinedIds(Made(Frame))
    BY <2>1 DEF Observations, BitIds, CallInstrs, DefinedIds
  <2>3. QED BY <2>1, <2>2, Zenon DEF KnownBefore, KnownTo
<1>6. PICK l \in DOMAIN Assembled.leaves :
         ~ IF Assembled.leaves[l].quantum
           THEN /\ Assembled.leaves[l].id \in KnownBefore(Assembled, Len(Assembled.code) + 1)
                /\ Assembled.leaves[l].id \notin {Assembled.code[i].refs[1] : i \in Observations(Assembled)}
           ELSE Assembled.leaves[l].id \in BitIds(Assembled)
  BY <1>1, <1>3 DEF ReturnDeclared
<1>7. /\ l \in DOMAIN Frame.leaves /\ Assembled.leaves[l] = Frame.leaves[l]
      /\ Assembled.code = Frame.code
  BY AssembledIs
<1>8. Frame.leaves[l].quantum /\ Frame.leaves[l].id \in Frame.asQubit
  BY <1>4, <1>5, <1>6, <1>7 DEF LeavesDeclared
<1>9. PICK i \in Observations(Assembled) : Frame.leaves[l].id = Frame.code[i].refs[1]
  BY <1>4, <1>5, <1>6, <1>7, <1>8 DEF LeavesDeclared
<1>10. Frame.code[i].op[2] = "explicit-observation"
  BY <1>4, <1>5, <1>8, <1>9 DEF LeavesDeclared
<1>11. QED BY <1>7, <1>8, <1>9, <1>10

\* The captures at work are of different functions.
LEMMA StackIsShort ==
    ASSUME StackIInv
    PROVE  Len(stack) \in Nat /\ Cardinality(Functions) \in Nat /\ Len(stack) <= Cardinality(Functions)
<1>1. /\ stack \in Seq(CaptureFrames(world)) /\ Len(stack) \in Nat /\ DOMAIN stack = 1 .. Len(stack)
      /\ world \in Worlds
  BY DEF StackIInv
<1>2. IsFiniteSet(Functions)
  BY <1>1, WorldsArePython DEF IsWorld, Functions
<1>3. Cardinality(Functions) \in Nat
  BY <1>2, FS_CardinalityType
<1> DEFINE n == Len(stack)
           fns == [k \in 1 .. n |-> stack[k].fn]
<1>4. fns \in [1 .. n -> Functions]
  <2>1. \A k \in 1 .. n : stack[k] \in CaptureFrames(world)
    BY <1>1
  <2>2. \A k \in 1 .. n : stack[k].fn \in Functions
    BY <1>1, <2>1, FrameFacts DEF Functions
  <2>3. QED BY <2>2
<1>5. \A k, m \in 1 .. n : fns[k] = fns[m] => k = m
  BY <1>1 DEF StackIInv
<1>6. IsFiniteSet(1 .. n) /\ Cardinality(1 .. n) = n
  BY <1>1, FS_Interval
<1> HIDE DEF fns, n
<1>7. ~ (Cardinality(Functions) < Cardinality(1 .. n))
  <2> SUFFICES ASSUME Cardinality(Functions) < Cardinality(1 .. n) PROVE FALSE
    OBVIOUS
  <2> DEFINE positions == 1 .. n
  <2>1. fns \in [positions -> Functions] /\ IsFiniteSet(positions)
        /\ Cardinality(Functions) < Cardinality(positions)
        /\ \A k, m \in positions : fns[k] = fns[m] => k = m
    BY <1>4, <1>5, <1>6
  <2> HIDE DEF positions
  <2>2. \E k, m \in positions : k # m /\ fns[k] = fns[m]
    BY <1>2, <2>1, FS_PigeonHole
  <2>3. QED BY <2>1, <2>2
<1>8. n \in Nat /\ Len(stack) = n
  BY <1>1 DEF n
<1>9. QED BY <1>3, <1>6, <1>7, <1>8

\* A function that waits calls the next one.
LEMMA WaitingCalls ==
    ASSUME StackIInv, Wanted # NoValue, Wanted \in Functions
    PROVE  \A k \in DOMAIN stack :
              Calls(stack[k].fn, IF k = Len(stack) THEN Wanted ELSE stack[k + 1].fn)
<1> SUFFICES ASSUME NEW k \in DOMAIN stack
             PROVE  Calls(stack[k].fn, IF k = Len(stack) THEN Wanted ELSE stack[k + 1].fn)
  OBVIOUS
<1>1. Len(stack) \in Nat /\ DOMAIN stack = 1 .. Len(stack) /\ stack # <<>>
  BY DEF StackIInv
<1>2. \A f : Function(f).body = Body(world, f)
  BY DEF Function, Body
<1>3. \A stmt : Meaning(stmt) = MeaningIn(world, stmt)
  BY DEF Meaning, MeaningIn
<1>4. CASE k = Len(stack)
  <2>1. stack[k] = Frame
    BY <1>1, <1>4, AtWork
  <2>2. ~AtEnd /\ Statement.form \in {"assign", "call"} /\ Meaning(Statement) = Wanted
    BY <1>1 DEF Wanted, IsQuantumCall
  <2>3. Frame.pc \in DOMAIN Body(world, Frame.fn) /\ Statement = Body(world, Frame.fn)[Frame.pc]
    BY <1>1, <2>2, AtStatement
  <2>4. Calls(Frame.fn, Wanted)
    BY <1>2, <2>2, <2>3 DEF Calls
  <2>5. QED BY <1>4, <2>1, <2>4
<1>5. CASE k # Len(stack)
  <2>1. k \in 1 .. Len(stack) - 1
    BY <1>1, <1>5
  <2>2. /\ stack[k].pc \in DOMAIN Body(world, stack[k].fn)
        /\ Body(world, stack[k].fn)[stack[k].pc].form \in {"assign", "call"}
        /\ MeaningIn(world, Body(world, stack[k].fn)[stack[k].pc]) = stack[k + 1].fn
    BY <2>1 DEF StackIInv
  <2>3. Calls(stack[k].fn, stack[k + 1].fn)
    BY <1>2, <1>3, <2>2 DEF Calls
  <2>4. QED BY <1>5, <2>3
<1>6. QED BY <1>4, <1>5

LEMMA WaitsForItself ==
    ASSUME StackIInv, Capturing, CaptureError = "P115"
    PROVE  Wanted # NoValue /\ Wanted \in Functions /\ \E k \in DOMAIN stack : stack[k].fn = Wanted
<1>0. world \in Worlds /\ NoValue # "P115"
  BY CodesAreNoNoValue DEF StackIInv
<1>1. Wanted # NoValue
  <2> SUFFICES ASSUME Wanted = NoValue PROVE FALSE
    OBVIOUS
  <2>1. stack # <<>>
    <3>1. world.entry # NoValue
      BY <1>0, WorldFacts, WorldsArePython DEF IsWorld
    <3>2. QED BY <3>1 DEF Wanted
  <2>2. ~AtEnd => StatementError(Statement) # "P115"
    BY <1>0, <2>1, AtStatement, StatementCodes
  <2>3. QED BY <1>0, <2>2 DEF CaptureError
<1>2. Wanted \in Functions
  <2>1. world.entry \in Functions
    BY <1>0, WorldsArePython DEF IsWorld, Functions
  <2>2. QED BY <1>1, <2>1 DEF Wanted, IsQuantumCall
<1>3. EntryError(Wanted) = "P115"
  BY <1>0, <1>1, SignatureCodes DEF CaptureError
<1>4. \E k \in ActiveWith(Function(Wanted).id) : stack[k].fn = Wanted
  BY <1>0, <1>3 DEF EntryError
<1>5. QED BY <1>1, <1>2, <1>4 DEF ActiveWith

LEMMA RecursionReaches ==
    ASSUME StackIInv, Capturing, CaptureError = "P115"
    PROVE  Reaches(Wanted, Wanted)
<1>1. Wanted # NoValue /\ Wanted \in Functions
  BY WaitsForItself
<1>2. PICK k \in DOMAIN stack : stack[k].fn = Wanted
  BY WaitsForItself
<1>3. /\ Len(stack) \in Nat /\ Cardinality(Functions) \in Nat /\ Len(stack) <= Cardinality(Functions)
      /\ DOMAIN stack = 1 .. Len(stack)
  BY StackIsShort DEF StackIInv
<1>4. \A j \in DOMAIN stack : stack[j].fn \in Functions
  <2>1. \A j \in DOMAIN stack : stack[j] \in CaptureFrames(world)
    BY <1>3 DEF StackIInv
  <2>2. QED BY <2>1, FrameFacts DEF StackIInv, Functions
<1>5. \A j \in DOMAIN stack : Calls(stack[j].fn, IF j = Len(stack) THEN Wanted ELSE stack[j + 1].fn)
  BY <1>1, WaitingCalls
<1> DEFINE size == Len(stack)
           total == Cardinality(Functions)
           n == size - k + 1
           path == [i \in 0 .. n |-> IF i = n THEN Wanted ELSE stack[k + i].fn]
<1>6. size \in Nat /\ total \in Nat /\ size <= total /\ k \in 1 .. size /\ DOMAIN stack = 1 .. size
  BY <1>3
<1> HIDE DEF size, total
<1>7. n \in 1 .. total /\ n \in Nat
  BY <1>6
<1>8. \A i \in 0 .. n : i # n => k + i \in 1 .. size
  BY <1>6
<1>9. path \in [0 .. n -> Functions]
  BY <1>1, <1>4, <1>6, <1>8
<1>10. path[0] = Wanted /\ path[n] = Wanted
  BY <1>2, <1>6, <1>7
<1>11. \A i \in 1 .. n : Calls(path[i - 1], path[i])
  <2> SUFFICES ASSUME NEW i \in 1 .. n PROVE Calls(path[i - 1], path[i])
    OBVIOUS
  <2>1. i - 1 \in 0 .. n /\ i - 1 # n /\ i \in 0 .. n /\ k + (i - 1) \in 1 .. size
    BY <1>6, <1>7, <1>8
  <2>2. path[i - 1] = stack[k + (i - 1)].fn
    BY <2>1
  <2>3. path[i] = IF i = n THEN Wanted ELSE stack[k + i].fn
    BY <2>1
  <2>4. (i = n) <=> (k + (i - 1) = size)
    BY <1>6, <2>1
  <2>5. (k + (i - 1)) + 1 = k + i
    BY <1>6, <2>1
  <2>6. Calls(stack[k + (i - 1)].fn,
              IF k + (i - 1) = size THEN Wanted ELSE stack[(k + (i - 1)) + 1].fn)
    <3> DEFINE j == k + (i - 1)
    <3>1. j \in DOMAIN stack
      BY <1>6, <2>1
    <3> HIDE DEF j
    <3>2. Calls(stack[j].fn, IF j = size THEN Wanted ELSE stack[j + 1].fn)
      BY <1>5, <3>1 DEF size
    <3>3. QED BY <3>2 DEF j
  <2> HIDE DEF path, n
  <2>7. CASE i = n
    BY <2>2, <2>3, <2>4, <2>6, <2>7
  <2>8. CASE i # n
    BY <2>2, <2>3, <2>4, <2>5, <2>6, <2>8
  <2>9. QED BY <2>7, <2>8
<1> HIDE DEF path, n
<1>12. \E m \in 1 .. total : \E p \in [0 .. m -> Functions] :
          p[0] = Wanted /\ p[m] = Wanted /\ \A i \in 1 .. m : Calls(p[i - 1], p[i])
  BY <1>7, <1>9, <1>10, <1>11
<1>13. QED BY <1>12 DEF Reaches, total

-----------------------------------------------------------------------------
(* The invariant and what follows from it.                                 *)

LEMMA StateStays ==
    ASSUME CaptureIInv, UNCHANGED <<world, method, stack, programs, owners, order>>
    PROVE  StackIInv' /\ ProgramsIInv'
<1>1. StackIInv /\ ProgramsIInv
  BY DEF CaptureIInv
<1>2. /\ world' = world /\ stack' = stack /\ programs' = programs /\ owners' = owners
      /\ order' = order
  OBVIOUS
<1>3. StackIInv'
  BY <1>1, <1>2 DEF StackIInv, Function
<1>4. ProgramsIInv'
  BY <1>1, <1>2 DEF ProgramsIInv, Functions, Function
<1>5. QED BY <1>3, <1>4

LEMMA RunningStays ==
    ASSUME UNCHANGED <<world, method, stack, programs, owners, order>>
    PROVE  Frame' = Frame /\ Source' = Source /\ Assembled' = Assembled /\ Wanted' = Wanted
           /\ Functions' = Functions
           /\ Observations(Assembled)' = Observations(Assembled)
           /\ Reaches(Wanted, Wanted)' = Reaches(Wanted, Wanted)
<1>1. /\ world' = world /\ stack' = stack /\ programs' = programs /\ owners' = owners
      /\ order' = order
  OBVIOUS
<1>2. Frame' = Frame
  BY <1>1 DEF Frame
<1>3. Source' = Source /\ Functions' = Functions
  BY <1>1, <1>2 DEF Source, Function, Functions
<1>4. Assembled' = Assembled
  BY <1>2, <1>3 DEF Assembled
<1>5. Wanted' = Wanted
  BY <1>1, <1>2, <1>3 DEF Wanted, IsQuantumCall, AtEnd, Statement, Function, IsBound, Meaning,
     TargetTaken, IsCaptured
<1>6. Observations(Assembled)' = Observations(Assembled)
  BY <1>4 DEF Observations
<1>7. Reaches(Wanted, Wanted)' = Reaches(Wanted, Wanted)
  BY <1>1, <1>3, <1>5 DEF Reaches, Calls, Function, Meaning
<1>8. QED BY <1>2, <1>3, <1>4, <1>5, <1>6, <1>7

LEMMA RefuseKeeps ==
    ASSUME CaptureIInv, Refuse
    PROVE  CaptureIInv'
<1>1. /\ Capturing /\ CaptureError # NoValue
      /\ failure' = [code |-> Reported(CaptureError), raised |-> CaptureError]
      /\ UNCHANGED <<world, method, stack, programs, owners, order>>
  BY DEF Refuse
<1>2. StackIInv' /\ ProgramsIInv' /\ StackIInv
  BY <1>1, StateStays DEF CaptureIInv
<1>3. failure'.code # "invariant" /\ failure'.raised = CaptureError
  BY <1>1 DEF Reported
<1>4. InvariantFailureExplained'
  <2>1. CaptureError = "invariant" =>
           \E l \in DOMAIN Frame.leaves : \E i \in Observations(Assembled) :
              /\ Frame.leaves[l].quantum /\ Frame.leaves[l].id = Frame.code[i].refs[1]
              /\ Frame.code[i].op[2] = "explicit-observation"
    BY <1>1, <1>2, TurnedDownExplained
  <2>2. Frame' = Frame /\ Observations(Assembled)' = Observations(Assembled)
    BY <1>1, RunningStays
  <2>3. QED BY <1>3, <2>1, <2>2 DEF InvariantFailureExplained
<1>5. RecursionExplained'
  <2>1. CaptureError = "P115" => Reaches(Wanted, Wanted)
    BY <1>1, <1>2, RecursionReaches
  <2>2. Reaches(Wanted, Wanted)' = Reaches(Wanted, Wanted)
    BY <1>1, RunningStays
  <2>3. QED BY <1>3, <2>1, <2>2 DEF RecursionExplained
<1>6. FailureIInv'
  BY <1>3, <1>4, <1>5 DEF FailureIInv
<1>7. QED BY <1>2, <1>6 DEF CaptureIInv

LEMMA StutterKeeps ==
    ASSUME CaptureIInv, UNCHANGED captureVars
    PROVE  CaptureIInv'
<1>1. UNCHANGED <<world, method, stack, programs, owners, order>> /\ failure' = failure
  BY DEF captureVars
<1>2. StackIInv' /\ ProgramsIInv'
  BY <1>1, StateStays
<1>3. FailureIInv
  BY DEF CaptureIInv
<1>4. Frame' = Frame /\ Observations(Assembled)' = Observations(Assembled)
      /\ Reaches(Wanted, Wanted)' = Reaches(Wanted, Wanted)
  BY <1>1, RunningStays
<1>5. failure # NoValue => InvariantFailureExplained' /\ RecursionExplained'
  BY <1>1, <1>3, <1>4 DEF FailureIInv, InvariantFailureExplained, RecursionExplained
<1>6. FailureIInv'
  BY <1>1, <1>3, <1>5 DEF FailureIInv
<1>7. QED BY <1>2, <1>6 DEF CaptureIInv

LEMMA CaptureStarts ==
    ASSUME CaptureInit
    PROVE  CaptureIInv
<1>1. /\ world \in Worlds /\ stack = <<>> /\ programs = <<>> /\ owners = <<>> /\ order = <<>>
      /\ failure = NoValue
  BY DEF CaptureInit
<1>2. StackIInv
  BY <1>1 DEF StackIInv
<1>3. ProgramsIInv
  BY <1>1 DEF ProgramsIInv, ToSet, Injective
<1>4. FailureIInv
  BY <1>1 DEF FailureIInv
<1>5. QED BY <1>2, <1>3, <1>4 DEF CaptureIInv

LEMMA CaptureSteps ==
    ASSUME CaptureIInv, [CaptureNext]_captureVars
    PROVE  CaptureIInv'
<1>1. CASE Refuse
  BY <1>1, RefuseKeeps
<1>2. CASE BeginCapture
  BY <1>2, BeginKeeps
<1>3. CASE BindAlias
  BY <1>3, AliasKeeps
<1>4. CASE DeclareQubit
  BY <1>4, QubitKeeps
<1>5. CASE CaptureOperation
  BY <1>5, OperationKeeps
<1>6. CASE CaptureObservation
  BY <1>6, ObservationKeeps
<1>7. CASE CaptureCall
  BY <1>7, CallKeeps
<1>8. CASE AlignLeaf
  BY <1>8, LeafKeeps
<1>9. CASE FinishProgram
  BY <1>9, FinishKeeps
<1>10. CASE CaptureDone \/ UNCHANGED captureVars
  BY <1>10, StutterKeeps DEF CaptureDone
<1>11. QED BY <1>1, <1>2, <1>3, <1>4, <1>5, <1>6, <1>7, <1>8, <1>9, <1>10
          DEF CaptureNext, Capture

\* Every state of a capture, of any functions, satisfies CaptureIInv: it holds
\* before the first function is entered and every step of the walk keeps it.
THEOREM CaptureInvariant == CaptureSpec => []CaptureIInv
<1>1. CaptureInit => CaptureIInv
  BY CaptureStarts
<1>2. CaptureIInv /\ [CaptureNext]_captureVars => CaptureIInv'
  BY CaptureSteps
<1>3. QED BY <1>1, <1>2, PTL DEF CaptureSpec

LEMMA TypesFromInvariant == CaptureIInv => CaptureTypeOK
<1> SUFFICES ASSUME CaptureIInv PROVE CaptureTypeOK
  OBVIOUS
<1>1. StackIInv /\ ProgramsIInv /\ FailureIInv
  BY DEF CaptureIInv
<1>2. Injective([k \in DOMAIN stack |-> Function(stack[k].fn).id])
  BY <1>1 DEF StackIInv, Injective
<1>3. \A k \in DOMAIN stack : stack[k].fn \in Functions
  <2>1. \A k \in DOMAIN stack : stack[k] \in CaptureFrames(world)
    BY <1>1 DEF StackIInv
  <2>2. QED BY <1>1, <2>1, FrameFacts DEF StackIInv, Functions
<1>4. QED BY <1>1, <1>2, <1>3 DEF CaptureTypeOK, ProgramsIInv, FailureIInv

LEMMA CallsOfProgram ==
    ASSUME ProgramsIInv, NEW p \in DOMAIN programs, NEW i \in CallInstrs(programs[p])
    PROVE  /\ CallResolved([programs |-> programs], programs[p].code[i])
           /\ programs[p].code[i].callee \in DOMAIN programs
           /\ Observations(programs[programs[p].code[i].callee]) = {}
           /\ owners[programs[p].code[i].callee]
                = MeaningIn(world, Body(world, owners[p])[Line(programs[p].code[i])])
<1>1. CallsFit(world, programs, owners, owners[p], programs[p].code)
  BY DEF ProgramsIInv
<1>2. i \in DOMAIN programs[p].code /\ programs[p].code[i].kind = "call"
  BY DEF CallInstrs
<1>3. QED BY <1>1, <1>2 DEF CallsFit, CallResolved

\* As many programs as have been captured in order.
LEMMA OrderCounts ==
    ASSUME ProgramsIInv
    PROVE  Len(order) \in Nat /\ DOMAIN order = 1 .. Len(order)
           /\ Cardinality(DOMAIN programs) = Len(order)
<1>1. /\ order \in Seq(ProgramIds(world)) /\ Injective(order) /\ DOMAIN programs = ToSet(order)
  BY DEF ProgramsIInv
<1> DEFINE n == Len(order)
           S == DOMAIN programs
<1>2. n \in Nat /\ DOMAIN order = 1 .. n /\ order = [k \in 1 .. n |-> order[k]]
  BY <1>1
<1>3. S = {order[k] : k \in 1 .. n}
  BY <1>1, <1>2 DEF ToSet
<1>4. \A j, k \in 1 .. n : order[j] = order[k] => j = k
  BY <1>1, <1>2 DEF Injective
<1> HIDE DEF n, S
<1>5. order \in [1 .. n -> S]
  BY <1>2, <1>3
<1>6. order \in Bijection(1 .. n, S)
  <2>1. order \in Injection(1 .. n, S)
    BY <1>4, <1>5 DEF Injection, IsInjective
  <2>2. order \in Surjection(1 .. n, S)
    BY <1>3, <1>5 DEF Surjection
  <2>3. QED BY <2>1, <2>2 DEF Bijection
<1>7. ExistsBijection(1 .. n, S)
  BY <1>6 DEF ExistsBijection
<1>8. Cardinality(S) = n
  BY <1>2, <1>7, FS_CountingElements
<1>9. QED BY <1>2, <1>8 DEF n, S

LEMMA ModuleFromInvariant == ProgramsIInv => CapturedModuleIsLogical
<1> SUFFICES ASSUME ProgramsIInv PROVE CapturedModuleIsLogical
  OBVIOUS
<1>1. ASSUME NEW p \in DOMAIN programs, NEW i \in CallInstrs(programs[p])
      PROVE  Observations(programs[programs[p].code[i].callee]) = {}
  BY CallsOfProgram
<1>2. ASSUME Succeeded PROVE IsLogicalModule(CapturedModule)
  <2> DEFINE module == CapturedModule
  <2>1. module.programs = programs /\ module.entry = Function(world.entry).id
    BY DEF CapturedModule
  <2>2. module.entry \in DOMAIN programs
    BY <1>2, <2>1 DEF Succeeded, Capturing, IsCaptured
  <2> HIDE DEF module
  <2>3. \A p \in DOMAIN programs : IsLogicalProgram(programs[p])
    BY DEF ProgramsIInv
  <2>4. \A p \in DOMAIN programs : \A i \in CallInstrs(programs[p]) :
           CallResolved(module, programs[p].code[i])
    <3> SUFFICES ASSUME NEW p \in DOMAIN programs, NEW i \in CallInstrs(programs[p])
                 PROVE  CallResolved(module, programs[p].code[i])
      OBVIOUS
    <3>1. CallResolved([programs |-> programs], programs[p].code[i])
      BY CallsOfProgram
    <3>2. QED BY <2>1, <3>1 DEF CallResolved
  <2>5. Acyclic(module)
    <3> DEFINE rank == [p \in DOMAIN programs |-> CHOOSE n \in DOMAIN order : order[n] = p]
    <3>1. \A p \in DOMAIN programs : \E n \in DOMAIN order : order[n] = p
      BY DEF ProgramsIInv, ToSet
    <3>2. \A p \in DOMAIN programs : rank[p] \in DOMAIN order /\ order[rank[p]] = p
      BY <3>1
    <3>3. Len(order) \in Nat /\ DOMAIN order = 1 .. Len(order)
          /\ Cardinality(DOMAIN programs) = Len(order)
      BY OrderCounts
    <3>4. DOMAIN rank = DOMAIN programs
      OBVIOUS
    <3>5. rank \in [DOMAIN programs -> 1 .. Cardinality(DOMAIN programs)]
      BY <3>2, <3>3
    <3> HIDE DEF rank
    <3>6. \A p \in DOMAIN programs : \A c \in Callees(module, p) : rank[c] < rank[p]
      <4> SUFFICES ASSUME NEW p \in DOMAIN programs, NEW i \in CallInstrs(programs[p])
                   PROVE  rank[programs[p].code[i].callee] < rank[p]
        BY <2>1 DEF Callees
      <4> DEFINE c == programs[p].code[i].callee
      <4>1. c \in DOMAIN programs
        BY CallsOfProgram
      <4>2. rank[p] \in DOMAIN order /\ order[rank[p]] = p
        BY <3>2
      <4>3. PICK m \in 1 .. rank[p] - 1 : order[m] = c
        BY <4>2, SMTT(30) DEF ProgramsIInv
      <4>4. rank[c] \in DOMAIN order /\ order[rank[c]] = c
        BY <3>2, <4>1
      <4> HIDE DEF c
      <4>5. m \in DOMAIN order
        BY <3>3, <4>2
      <4>6. m = rank[c]
        BY <4>3, <4>4, <4>5 DEF ProgramsIInv, Injective
      <4>7. rank[c] < rank[p]
        BY <3>3, <4>2, <4>6
      <4>8. QED BY <4>7 DEF c
    <3>7. QED BY <2>1, <3>5, <3>6 DEF Acyclic
  <2>6. QED BY <2>1, <2>2, <2>3, <2>4, <2>5 DEF IsLogicalModule, module
<1>3. QED BY <1>1, <1>2 DEF CapturedModuleIsLogical

LEMMA OperandsFromInvariant == ProgramsIInv => OperandsAreSourceValues
<1> SUFFICES ASSUME ProgramsIInv PROVE OperandsAreSourceValues
  OBVIOUS
<1>1. \A f : Function(f) = world.functions[f] /\ Function(f).body = Body(world, f)
  BY DEF Function, Body
<1>2. \A p \in DOMAIN programs : OperandsFit(world, owners[p], programs[p].code)
  BY SMTT(30) DEF ProgramsIInv
<1> HIDE DEF ProgramsIInv
<1> SUFFICES ASSUME NEW p \in DOMAIN programs
             PROVE LET f        == owners[p]
                       named(i) == programs[p].code[i].pos \div LineWidth
                       args(i)  == LET s == Function(f).body[named(i)]
                                   IN  IF s.form = "return"
                                       THEN <<s.args[programs[p].code[i].pos % LineWidth]>>
                                       ELSE IF programs[p].code[i].kind = "cx" THEN Reverse(s.args) ELSE s.args
                   IN  \A i, j \in DOMAIN programs[p].code :
                          \A r \in DOMAIN args(i), s \in DOMAIN args(j) :
                             (programs[p].code[i].refs[r] = programs[p].code[j].refs[s])
                                <=> (Origins(Function(f))[args(i)[r]] = Origins(Function(f))[args(j)[s]])
  BY ZenonT(60) DEF OperandsAreSourceValues
<1> DEFINE code == programs[p].code
           args(i)  == LET s == Function(owners[p]).body[code[i].pos \div LineWidth]
                       IN  IF s.form = "return" THEN <<s.args[code[i].pos % LineWidth]>>
                           ELSE IF code[i].kind = "cx" THEN Reverse(s.args) ELSE s.args
<1>3. \A i : args(i) = Written(Body(world, owners[p]), code[i])
  BY <1>1, Zenon DEF Written, Line
<1>4. \A i, j \in DOMAIN code :
         \A r \in DOMAIN args(i), s \in DOMAIN args(j) :
            (code[i].refs[r] = code[j].refs[s])
               <=> (Origins(Function(owners[p]))[args(i)[r]] = Origins(Function(owners[p]))[args(j)[s]])
  <2>1. OperandsFit(world, owners[p], code)
    BY <1>2, SMTT(30)
  <2> HIDE DEF args, code
  <2>2. QED BY <1>1, <1>3, <2>1 DEF OperandsFit
<1>5. QED BY <1>4, Zenon

LEMMA CallsFromInvariant == ProgramsIInv => CallsReachNamedFunction
<1> SUFFICES ASSUME ProgramsIInv PROVE CallsReachNamedFunction
  OBVIOUS
<1> SUFFICES ASSUME NEW n \in DOMAIN order, NEW i \in CallInstrs(programs[order[n]])
             PROVE  /\ owners[programs[order[n]].code[i].callee]
                         = Meaning(Function(owners[order[n]]).body[programs[order[n]].code[i].pos \div LineWidth])
                    /\ \E m \in 1 .. n - 1 : order[m] = programs[order[n]].code[i].callee
  BY DEF CallsReachNamedFunction
<1>1. order[n] \in DOMAIN programs
  BY DEF ProgramsIInv, ToSet
<1>2. owners[programs[order[n]].code[i].callee]
         = MeaningIn(world, Body(world, owners[order[n]])[Line(programs[order[n]].code[i])])
  BY <1>1, CallsOfProgram
<1>3. \A stmt : Meaning(stmt) = MeaningIn(world, stmt)
  BY DEF Meaning, MeaningIn
<1>4. \E m \in 1 .. n - 1 : order[m] = programs[order[n]].code[i].callee
  BY DEF ProgramsIInv
<1>5. QED BY <1>2, <1>3, <1>4, ZenonT(60) DEF Line, Body, Function

\* The stack holds every function and every program identifier at most once,
\* and programs, owners and order speak of the same identifiers: CaptureTypeOK.
THEOREM CaptureTypes == CaptureSpec => []CaptureTypeOK
BY CaptureInvariant, TypesFromInvariant, PTL

\* Whatever functions call each other, the constructor turns a program down
\* only for a returned observed qubit, the module is logical, and operands are
\* the source's values: CaptureIsFaithful.
THEOREM CaptureFaithful == CaptureSpec => []CaptureIsFaithful
<1>1. CaptureIInv => CaptureIsFaithful
  <2> SUFFICES ASSUME CaptureIInv PROVE CaptureIsFaithful
    OBVIOUS
  <2>1. InvariantFailureExplained
    BY DEF CaptureIInv, FailureIInv, InvariantFailureExplained
  <2>2. CapturedModuleIsLogical /\ OperandsAreSourceValues
    BY ModuleFromInvariant, OperandsFromInvariant DEF CaptureIInv
  <2>3. QED BY <2>1, <2>2 DEF CaptureIsFaithful
<1>2. QED BY <1>1, CaptureInvariant, PTL

\* A call leads to the very function that is named, and recursion is real:
\* FunctionsToldApart.
THEOREM CallsReachTheirFunctions == CaptureSpec => []FunctionsToldApart
<1>1. CaptureIInv => FunctionsToldApart
  <2> SUFFICES ASSUME CaptureIInv PROVE FunctionsToldApart
    OBVIOUS
  <2>1. CallsReachNamedFunction
    BY CallsFromInvariant DEF CaptureIInv
  <2>2. RecursionExplained
    BY DEF CaptureIInv, FailureIInv, RecursionExplained
  <2>3. QED BY <2>1, <2>2 DEF FunctionsToldApart
<1>2. QED BY <1>1, CaptureInvariant, PTL
=============================================================================
