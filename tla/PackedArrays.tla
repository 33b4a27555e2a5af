----------------------------- MODULE PackedArrays -----------------------------
(***************************************************************************)
(* What the NumPy backends (simulator-numpy/backends.py) do to the arrays   *)
(* of QuantumState's vectors and matrices: kernels by the structure of the  *)
(* operation, on arrays indexed by packed bits and on tensors with an axis  *)
(* for each bit.  NumPy's array functions are modelled by what they return. *)
(***************************************************************************)
EXTENDS QuantumState, SequencesExt, FiniteSets

-----------------------------------------------------------------------------
(* Arrays and tensors.                                                     *)

QubitCount == Cardinality(Slots)

\* 1 << n
PowerOfTwo[n \in Nat] == IF n = 0 THEN 1 ELSE 2 * PowerOfTwo[n - 1]

Indexes == 0 .. PowerOfTwo[QubitCount] - 1

\* A basis state, packed into an index.
IndexOf(b) == MapThenSumSet(LAMBDA slot : PowerOfTwo[slot], b)

HasBit(index, slot) == (index \div PowerOfTwo[slot]) % 2 = 1

\* The entries at the zero indexes exchanged with the partners that have the bit.
Exchanged(array, zeros, slot) ==
    [i \in Indexes |-> IF i \in zeros THEN array[i + PowerOfTwo[slot]]
                       ELSE IF i - PowerOfTwo[slot] \in zeros THEN array[i - PowerOfTwo[slot]]
                       ELSE array[i]]

XVector(array, target) == Exchanged(array, {i \in Indexes : ~ HasBit(i, target)}, target)

CxVector(array, control, target) ==
    Exchanged(array, {i \in Indexes : HasBit(i, control) /\ ~ HasBit(i, target)}, target)

DiagonalVector(array, target, m) ==
    [i \in Indexes |-> (IF HasBit(i, target) THEN m[2][2] ELSE m[1][1]) * array[i]]

\* A tensor is a function on the tuples of its axes, the first axis slowest.
Digits(index, axes) == [a \in 1 .. axes |-> (index \div PowerOfTwo[axes - a]) % 2]
Position(digits) == FoldLeft(LAMBDA n, digit : 2 * n + digit, 0, digits)

Tensor(array) == [t \in [1 .. QubitCount -> {0, 1}] |-> array[Position(t)]]
Flat(tensor) == [i \in Indexes |-> tensor[Digits(i, QubitCount)]]

\* Axes are counted from 1; the others keep their order.
MoveAxis(tensor, source, destination) ==
    [t \in DOMAIN tensor |->
        tensor[InsertAt(RemoveAt(t, destination), source, t[destination])]]

\* einsum "ab,b...->a..." and "...b,bc->...c"
ContractFirst(m, tensor) ==
    [t \in DOMAIN tensor |->
        LET At(bit) == tensor[<<bit>> \o Tail(t)]
        IN  m[t[1] + 1][1] * At(0) + m[t[1] + 1][2] * At(1)]
ContractLast(m, tensor) ==
    [t \in DOMAIN tensor |->
        LET At(bit) == tensor[Append(Front(t), bit)]
        IN  m[1][Last(t) + 1] * At(0) + m[2][Last(t) + 1] * At(1)]

AxisOfReversed(target) == target + 1    \* mutant: the lowest slot is the first axis
\* Reshaping keeps the highest slot first.
AxisOf(target) == QubitCount - target

DenseVector(array, target, m) ==
    LET moved == MoveAxis(Tensor(array), AxisOf(target), 1)
    IN  Flat(MoveAxis(ContractFirst(m, moved), 1, AxisOf(target)))

DensityTensor(array) ==
    [t \in [1 .. 2 * QubitCount -> {0, 1}] |->
        array[Position(SubSeq(t, 1, QubitCount))][Position(SubSeq(t, QubitCount + 1, 2 * QubitCount))]]
\* ascontiguousarray: the values, not a view.
Contiguous(array) == CHOOSE copy \in {array} : copy \in [Indexes -> [Indexes -> Int]]
FlatDensity(tensor) ==
    Contiguous([row \in Indexes |-> [col \in Indexes |->
                    tensor[Digits(row, QubitCount) \o Digits(col, QubitCount)]]])

Adjoint(m) == <<<<m[1][1], m[2][1]>>, <<m[1][2], m[2][2]>>>>

LocalDensity(array, target, m) ==
    LET row == AxisOf(target)
        column == QubitCount + AxisOf(target)
        left == MoveAxis(ContractFirst(m, MoveAxis(DensityTensor(array), row, 1)), 1, row)
        last == 2 * QubitCount
    IN  FlatDensity(MoveAxis(ContractLast(Adjoint(m), MoveAxis(left, column, last)), last, column))

CxPermutation(control, target) ==
    [i \in Indexes |-> IF ~ HasBit(i, control) THEN i
                       ELSE IF HasBit(i, target) THEN i - PowerOfTwo[target]
                       ELSE i + PowerOfTwo[target]]

CxDensity(array, control, target) ==
    LET permutation == CxPermutation(control, target)
    IN  [row \in Indexes |-> [col \in Indexes |-> array[permutation[row]][permutation[col]]]]

ResetDensity(array, target) ==
    [row \in Indexes |-> [col \in Indexes |->
        IF HasBit(row, target) \/ HasBit(col, target) THEN 0
        ELSE array[row][col] + array[row + PowerOfTwo[target]][col + PowerOfTwo[target]]]]

PlusWeighted(array, weight, term) ==
    Contiguous([row \in Indexes |-> [col \in Indexes |->
                    array[row][col] + weight * term[row][col]]])

NoDensity == [row \in Indexes |-> [col \in Indexes |-> 0]]

ChannelDensity(array, target, channel) ==
    FoldLeft(LAMBDA sum, kraus :
                PlusWeighted(sum, kraus.weight, LocalDensity(array, target, kraus.matrix)),
             NoDensity, channel)

-----------------------------------------------------------------------------
(* The kernels by the structure of the operation.                          *)

Structure(opcode) ==
    CASE opcode = "X"           -> "permutation"
      [] opcode = "Z"           -> "diagonal"
      [] opcode \in {"H", "RY"} -> "local dense"
      [] opcode = "CX"          -> "controlled permutation"

VectorKernel(array, operation) ==
    LET target == operation.targets[1]
        structure == Structure(operation.opcode)
    IN  CASE structure = "permutation" -> XVector(array, target)
          [] structure = "diagonal"    -> DiagonalVector(array, target, Matrix[operation.opcode])
          [] structure = "local dense" -> DenseVector(array, target, Matrix[operation.opcode])
          [] structure = "controlled permutation" -> CxVector(array, operation.control, target)

DensityKernel(array, operation) ==
    IF Structure(operation.opcode) = "controlled permutation"
    THEN CxDensity(array, operation.control, operation.targets[1])
    ELSE LocalDensity(array, operation.targets[1], Matrix[operation.opcode])

-----------------------------------------------------------------------------
(* Idle decoherence: T1 and T2 decay of a slot by a factor 1/4 and 1/2 in  *)
(* each unit of time, on integers.                                         *)

AmplitudeDamping(duration) ==
    <<[matrix |-> <<<<PowerOfTwo[duration], 0>>, <<0, 1>>>>, weight |-> 1],
      [matrix |-> <<<<0, 1>>, <<0, 0>>>>, weight |-> PowerOfTwo[2 * duration] - 1]>>

PhaseDamping(duration) ==
    <<[matrix |-> <<<<PowerOfTwo[duration], 0>>, <<0, 1>>>>, weight |-> 1],
      [matrix |-> <<<<0, 0>>, <<0, 1>>>>, weight |-> PowerOfTwo[2 * duration] - 1]>>

=============================================================================
