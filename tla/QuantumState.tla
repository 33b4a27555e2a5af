---------------------------- MODULE QuantumState ----------------------------
(* The linear algebra of the reference engines (simulator/statevector.py and     *)
(* simulator/density_matrix.py) on integers.                                     *)
(*                                                                              *)
(* A basis state is the set of slots that are one; the code packs the same set   *)
(* into the bits of an index.  Amplitudes are not normalised: the code's H       *)
(* divides by sqrt(2) and a collapse by the square root of the probability, here *)
(* neither divides.  Every vector and matrix is therefore a positive multiple of *)
(* the code's, and a probability is a weight over the sum of the weights.  The   *)
(* factors depend on the operations alone, so that equal weights of two engines  *)
(* that ran the same operations are equal probabilities.  Of the rotations only  *)
(* RY by a right angle has integer entries; the others are left out, they go     *)
(* through the same ApplySingle.                                                 *)
EXTENDS Integers, Sequences, FiniteSetsExt

CONSTANT Slots          \* the circuit's slots, 0 .. qubit_count - 1

ASSUME SlotsAreFinite == IsFiniteSet(Slots)

ASSUME SlotsAreNumbered == Slots = 0 .. Cardinality(Slots) - 1

BasisStates == SUBSET Slots

States == [BasisStates -> Int]
Densities == [BasisStates -> States]

Matrix ==
    [X |-> <<<<0, 1>>, <<1, 0>>>>,
     H |-> <<<<1, 1>>, <<1, -1>>>>,
     Z |-> <<<<1, 0>>, <<0, -1>>>>,
     RY |-> <<<<1, -1>>, <<1, 1>>>>]

GroundState == [b \in BasisStates |-> IF b = {} THEN 1 ELSE 0]

(* Row m[1] of the matrix gives the amplitude with the target at zero, m[2] the  *)
(* one with the target at one.                                                   *)
ApplySingle(state, target, m) ==
    [b \in BasisStates |->
        LET row == IF target \in b THEN m[2] ELSE m[1]
        IN  row[1] * state[b \ {target}] + row[2] * state[b \cup {target}]]

(* The basis state a CX exchanges a basis state with. *)
Permuted(b, control, target) ==
    IF control \notin b THEN b
    ELSE IF target \in b THEN b \ {target} ELSE b \cup {target}

ApplyCx(state, control, target) ==
    [b \in BasisStates |-> state[Permuted(b, control, target)]]

ApplyOperation(state, operation) ==
    IF operation.opcode = "CX"
    THEN ApplyCx(state, operation.control, operation.targets[1])
    ELSE ApplySingle(state, operation.targets[1], Matrix[operation.opcode])

(* targets[i] gives outcome bit i. *)
Outcome(b, targets) == [i \in DOMAIN targets |-> IF targets[i] \in b THEN 1 ELSE 0]

Outcomes(targets) == [DOMAIN targets -> {0, 1}]

Weight(state, targets, outcome) ==
    MapThenSumSet(LAMBDA b : state[b] * state[b],
                  {b \in BasisStates : Outcome(b, targets) = outcome})

Collapse(state, targets, outcome) ==
    [b \in BasisStates |-> IF Outcome(b, targets) = outcome THEN state[b] ELSE 0]

-----------------------------------------------------------------------------
(* Density matrices: a row for each basis state, real because the gates are.     *)
GroundDensity ==
    [row \in BasisStates |-> [col \in BasisStates |->
        IF row = {} /\ col = {} THEN 1 ELSE 0]]

(* The operator on the rows, then its conjugate on the columns. *)
ApplyOperator(density, target, m) ==
    LET left == [row \in BasisStates |-> [col \in BasisStates |->
                    LET line == IF target \in row THEN m[2] ELSE m[1]
                    IN    line[1] * density[row \ {target}][col]
                        + line[2] * density[row \cup {target}][col]]]
    IN  [row \in BasisStates |-> ApplySingle(left[row], target, m)]

DensityCx(density, control, target) ==
    [row \in BasisStates |-> [col \in BasisStates |->
        density[Permuted(row, control, target)][Permuted(col, control, target)]]]

(* The trace over the target, with the target prepared at zero. *)
DensityReset(density, target) ==
    [row \in BasisStates |-> [col \in BasisStates |->
        IF target \in row \/ target \in col THEN 0
        ELSE density[row][col] + density[row \cup {target}][col \cup {target}]]]

(* A channel is a sequence of Kraus operators; here each has an integer matrix   *)
(* and the integer weight of its square.                                         *)
ApplyChannel(density, target, channel) ==
    LET applied == [k \in DOMAIN channel |->
                       ApplyOperator(density, target, channel[k].matrix)]
    IN  [row \in BasisStates |-> [col \in BasisStates |->
            MapThenSumSet(LAMBDA k : channel[k].weight * applied[k][row][col],
                          DOMAIN channel)]]

IdealDensity(density, operation) ==
    IF operation.opcode = "CX"
    THEN DensityCx(density, operation.control, operation.targets[1])
    ELSE ApplyOperator(density, operation.targets[1], Matrix[operation.opcode])

Diagonal(density) == [b \in BasisStates |-> density[b][b]]

=============================================================================
