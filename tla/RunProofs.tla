------------------------------ MODULE RunProofs ------------------------------
(* Proofs about what runs on the engines.  A logical run keeps what the       *)
(* engines keep (the refusals are the documented ones, a trace explains the   *)
(* run, the values follow pure trajectories); the distributions and shots it  *)
(* publishes are then those of the trajectories, and readout noise is applied *)
(* to them once.  Its reports come to be in their order, say what the         *)
(* trajectories say, blame the noise that took part, and pass the checks of   *)
(* their constructors.  A debugger session is put together from artifacts of  *)
(* several runs, and its constructor never compares a state: that it accepts  *)
(* exactly the artifacts that agree on every state is proved from what a step *)
(* of a trace is, its evidence determines the state after it.  The            *)
(* entanglement it displays is explained by the step's operation.             *)
EXTENDS ReliabilityReport, TraceDebugger, CircuitProofs

-----------------------------------------------------------------------------
(* What is published.                                                        *)

LEMMA LeafFacts ==
    ASSUME Arguments, leaves \in Leaves(circuit)
    PROVE  /\ Len(leaves) \in Nat /\ DOMAIN leaves = 1 .. Len(leaves)
           /\ \A i \in DOMAIN leaves : /\ leaves[i] \in DOMAIN circuit /\ Measures(leaves[i])
                                       /\ circuit[leaves[i]].targets \in Seq(Slots)
                                       /\ 1 \in DOMAIN circuit[leaves[i]].targets
                                       /\ leaves[i] \in UniqueLeaves
           /\ UniqueLeaves = {leaves[i] : i \in DOMAIN leaves} /\ IsFiniteSet(UniqueLeaves)
           /\ DOMAIN LeafSlots = DOMAIN leaves /\ Outcomes(LeafSlots) = Outcomes(leaves)
           /\ \A i \in DOMAIN leaves : LeafSlots[i] = SlotOf(leaves[i])
<1>1. leaves \in Seq({i \in DOMAIN circuit : circuit[i].opcode = "MEASURE"})
  BY LeavesAreObservations DEF Arguments
<1>2. Len(leaves) \in Nat /\ DOMAIN leaves = 1 .. Len(leaves)
  BY <1>1
<1>3. \A i \in DOMAIN leaves : leaves[i] \in DOMAIN circuit /\ Measures(leaves[i])
  BY <1>1, <1>2 DEF Measures, Acts
<1>4. UniqueLeaves = {leaves[i] : i \in DOMAIN leaves}
  BY DEF UniqueLeaves, ToSet
<1>5. IsFiniteSet(UniqueLeaves)
  <2>1. IsFiniteSet(DOMAIN leaves)
    BY <1>2, FS_Interval
  <2>2. QED BY <1>4, <2>1, ImageIsFinite
<1>6. \A i \in DOMAIN leaves : /\ circuit[leaves[i]].targets \in Seq(Slots)
                               /\ 1 \in DOMAIN circuit[leaves[i]].targets
  <2> SUFFICES ASSUME NEW i \in DOMAIN leaves
               PROVE  /\ circuit[leaves[i]].targets \in Seq(Slots)
                      /\ 1 \in DOMAIN circuit[leaves[i]].targets
    OBVIOUS
  <2> DEFINE targets == circuit[leaves[i]].targets
  <2>1. circuit[leaves[i]] \in AllocatedOperations
    BY <1>3, ArgumentFacts
  <2>2. targets \in Seq(Slots) /\ targets # <<>>
    BY <2>1 DEF AllocatedOperations
  <2> HIDE DEF targets
  <2>3. 1 \in DOMAIN targets
    BY <2>2, EmptySeq
  <2>4. QED BY <2>2, <2>3 DEF targets
<1>7. /\ DOMAIN LeafSlots = DOMAIN leaves /\ Outcomes(LeafSlots) = Outcomes(leaves)
      /\ \A i \in DOMAIN leaves : LeafSlots[i] = SlotOf(leaves[i])
  BY DEF LeafSlots, Outcomes
<1>8. QED BY <1>2, <1>3, <1>4, <1>5, <1>6, <1>7

\* A basis state's diagonal entry, and the sum of those that give an outcome.
LEMMA TruthIs ==
    ASSUME NEW o \in Outcomes(leaves)
    PROVE  Truth[o] = Sum(Diagonal(Mixture(Len(circuit))), Having(LeafSlots, o))
<1> DEFINE M == Mixture(Len(circuit))
           S == Having(LeafSlots, o)
           Next(g) == [s \in SUBSET S |-> IF s = {} THEN 0
                                          ELSE LET b == CHOOSE b \in s : TRUE
                                               IN  M[b][b] + g[s \ {b}]]
<1>1. Truth[o] = (CHOOSE g : g = Next(g))[S]
  BY DEF Truth, MapThenSumSet, MapThenFoldSet, Having
<1>2. ASSUME NEW g PROVE Next(g) = SumStep(Diagonal(M), S, g)
  <2>1. \A b \in S : Diagonal(M)[b] = M[b][b]
    BY DEF Diagonal, Having
  <2> HIDE DEF S, M
  <2>2. ASSUME NEW s \in SUBSET S PROVE Next(g)[s] = SumStep(Diagonal(M), S, g)[s]
    BY <2>1 DEF SumStep
  <2>3. QED BY <2>2 DEF SumStep
<1> HIDE DEF Next
<1>3. (CHOOSE g : g = Next(g)) = (CHOOSE g : g = SumStep(Diagonal(M), S, g))
  BY <1>2
<1>4. QED BY <1>1, <1>3 DEF Sum

LEMMA DiagonalFacts ==
    ASSUME NEW D \in Densities, NEW S \in SUBSET BasisStates
    PROVE  /\ IsFiniteSet(S)
           /\ \A b \in BasisStates : Diagonal(D)[b] = D[b][b] /\ Diagonal(D)[b] \in Int
<1>1. IsFiniteSet(S)
  BY BasisIsFinite, FS_Subset
<1>2. QED BY <1>1 DEF Diagonal, Densities, States

\* The weight of distinct results, and of the leaves that return them.
Matching(u) ==
    {b \in BasisStates : \A leaf \in UniqueLeaves : u[leaf] = IF SlotOf(leaf) \in b THEN 1 ELSE 0}

Spread(o) == {u \in UniqueOutcomes : \A i \in DOMAIN leaves : o[i] = u[leaves[i]]}

LEMMA UniqueWeightsIs ==
    ASSUME NEW values, NEW u \in UniqueOutcomes
    PROVE  UniqueWeights(values)[u] = Sum(Diagonal(values), Matching(u))
BY DEF UniqueWeights, MapThenSumSet, MapThenFoldSet, Matching, Sum, SumStep

LEMMA ProjectIs ==
    ASSUME NEW weights, NEW o \in Outcomes(leaves)
    PROVE  Project(weights)[o] = Sum(weights, Spread(o))
BY DEF Project, MapThenSumSet, MapThenFoldSet, Spread, Sum, SumStep

\* An outcome of the leaves comes from one outcome of the distinct results.
LEMMA SpreadFacts ==
    ASSUME Arguments, leaves \in Leaves(circuit), NEW o \in Outcomes(leaves)
    PROVE  /\ \A u \in Spread(o) : Spread(o) = {u} /\ Matching(u) = Having(LeafSlots, o)
           /\ Spread(o) = {} => Having(LeafSlots, o) = {}
<1>1. /\ UniqueLeaves = {leaves[i] : i \in DOMAIN leaves}
      /\ \A i \in DOMAIN leaves : LeafSlots[i] = SlotOf(leaves[i])
      /\ DOMAIN LeafSlots = DOMAIN leaves
  BY LeafFacts
<1>2. ASSUME NEW u \in Spread(o), NEW t \in Spread(o) PROVE t = u
  <2>1. \A leaf \in UniqueLeaves : t[leaf] = u[leaf]
    BY <1>1 DEF Spread
  <2>2. t \in [UniqueLeaves -> {0, 1}] /\ u \in [UniqueLeaves -> {0, 1}]
    BY DEF Spread, UniqueOutcomes
  <2>3. QED BY <2>1, <2>2
<1> DEFINE Bit(leaf, b) == IF SlotOf(leaf) \in b THEN 1 ELSE 0
<1>3. ASSUME NEW b \in BasisStates
      PROVE  b \in Having(LeafSlots, o) <=> \A i \in DOMAIN leaves : o[i] = Bit(leaves[i], b)
  <2>1. Outcome(b, LeafSlots) = [i \in DOMAIN leaves |-> Bit(leaves[i], b)]
    BY <1>1 DEF Outcome
  <2>2. o = [i \in DOMAIN leaves |-> o[i]]
    BY DEF Outcomes
  <2> HIDE DEF Bit
  <2>3. QED BY <2>1, <2>2 DEF Having
<1>4. ASSUME NEW u \in Spread(o) PROVE Matching(u) = Having(LeafSlots, o)
  <2>1. ASSUME NEW b \in BasisStates PROVE b \in Matching(u) <=> b \in Having(LeafSlots, o)
    <3>1. b \in Matching(u) <=> \A leaf \in UniqueLeaves : u[leaf] = Bit(leaf, b)
      BY DEF Matching
    <3> HIDE DEF Bit
    <3>2. b \in Matching(u) <=> \A i \in DOMAIN leaves : u[leaves[i]] = Bit(leaves[i], b)
      BY <1>1, <3>1
    <3>3. QED BY <1>3, <3>2 DEF Spread
  <2>2. QED BY <2>1 DEF Matching, Having
<1>5. ASSUME NEW b \in Having(LeafSlots, o) PROVE Spread(o) # {}
  <2> DEFINE u == [leaf \in UniqueLeaves |-> Bit(leaf, b)]
  <2>1. u \in UniqueOutcomes
    BY DEF UniqueOutcomes
  <2>2. b \in BasisStates
    BY DEF Having
  <2>3. \A i \in DOMAIN leaves : o[i] = Bit(leaves[i], b)
    BY <1>3, <2>2
  <2> HIDE DEF Bit
  <2>4. \A i \in DOMAIN leaves : o[i] = u[leaves[i]]
    BY <1>1, <2>3
  <2>5. u \in Spread(o)
    BY <2>1, <2>4 DEF Spread
  <2>6. QED BY <2>5
<1>6. QED BY <1>2, <1>4, <1>5

\* Projecting the distinct results and spreading them is projecting every leaf.
LEMMA SpreadIsJoint ==
    ASSUME Arguments, leaves \in Leaves(circuit), NEW D \in Densities, NEW o \in Outcomes(leaves)
    PROVE  Project(UniqueWeights(D))[o] = Sum(Diagonal(D), Having(LeafSlots, o))
<1> DEFINE w == UniqueWeights(D)
           H == Having(LeafSlots, o)
<1>1. Project(w)[o] = Sum(w, Spread(o))
  BY ProjectIs
<1>2. CASE Spread(o) = {}
  <2>1. H = {}
    BY <1>2, SpreadFacts
  <2> HIDE DEF w, H
  <2>2. QED BY <1>1, <1>2, <2>1, SumEmpty DEF w, H
<1>3. CASE Spread(o) # {}
  <2>1. PICK u \in Spread(o) : TRUE
    BY <1>3
  <2>2. Spread(o) = {u} /\ Matching(u) = H /\ u \in UniqueOutcomes
    BY <2>1, SpreadFacts DEF Spread
  <2>3. w[u] = Sum(Diagonal(D), H)
    BY <2>2, UniqueWeightsIs
  <2>4. w[u] \in Int
    <3>1. H \in SUBSET BasisStates
      BY DEF Having
    <3> HIDE DEF H
    <3>2. /\ IsFiniteSet(H) /\ H \subseteq BasisStates
          /\ \A b \in BasisStates : Diagonal(D)[b] \in Int
      BY <3>1, DiagonalFacts
    <3>3. \A b \in H : Diagonal(D)[b] \in Int
      BY <3>2
    <3>4. Sum(Diagonal(D), H) \in Int
      BY <3>2, <3>3, SumIsInt
    <3>5. QED BY <2>3, <3>4
  <2> HIDE DEF w, H
  <2>5. Sum(w, {u}) = w[u]
    BY <2>4, SumOfOne
  <2>6. QED BY <1>1, <2>2, <2>3, <2>5 DEF w, H
<1>4. QED BY <1>2, <1>3

-----------------------------------------------------------------------------
(* The diagonal of the mixture.                                              *)

LEMMA WeightWithoutNoise ==
    ASSUME Arguments, NEW n \in 0 .. Len(circuit), NEW b \in Branches(n),
           \A i \in DOMAIN circuit : ~ Noisy(i)
    PROVE  BranchWeight(b) = 1
<1>1. n \in Nat /\ 1 .. n \subseteq DOMAIN circuit
  BY BranchFacts
<1>2. PICK w : WeightPath(b, n, w)
  BY WeightHasPath
<1> DEFINE Good == {m \in Nat : m <= n => w[m] = 1}
<1>3. 0 \in Good
  BY <1>2 DEF WeightPath
<1>4. ASSUME NEW m \in Nat, m \in Good PROVE m + 1 \in Good
  <2> SUFFICES ASSUME m + 1 <= n PROVE w[m + 1] = 1
    OBVIOUS
  <2>1. m + 1 \in 1 .. n /\ (m + 1) - 1 = m /\ m <= n
    BY <1>1
  <2>2. w[m + 1] = w[(m + 1) - 1] * ChoiceWeight(m + 1, b[m + 1])
    BY <1>2, <2>1 DEF WeightPath
  <2>3. ChoiceWeight(m + 1, b[m + 1]) = 1
    BY <1>1, <2>1 DEF ChoiceWeight, Noisy
  <2>4. w[m] = 1
    BY <1>4, <2>1
  <2>5. QED BY <2>1, <2>2, <2>3, <2>4
<1> HIDE DEF Good
<1>5. n \in Good
  BY <1>1, <1>3, <1>4, SetInduction
<1>6. w[n] = 1
  BY <1>1, <1>5 DEF Good
<1>7. BranchWeight(b) = w[n]
  BY <1>2, BranchWeightIs
<1>8. QED BY <1>6, <1>7

LEMMA DiagonalShare ==
    ASSUME Arguments, NEW n \in 0 .. Len(circuit), NEW c \in BasisStates, NEW b \in Branches(n)
    PROVE  /\ Share(n, c, c)[b] \in Nat
           /\ BranchWeight(b) > 0 /\ BranchVector(b)[c] # 0 => Share(n, c, c)[b] > 0
           /\ BranchWeight(b) = 1 => Share(n, c, c)[b] = BranchVector(b)[c] * BranchVector(b)[c]
<1> DEFINE x == BranchVector(b)[c]
           w == BranchWeight(b)
<1>1. x \in Int /\ w \in Nat /\ Share(n, c, c)[b] = w * x * x
  BY ShareIsInt, BranchValues
<1> HIDE DEF x, w
<1>2. x * x \in Nat /\ (x # 0 => x * x > 0) /\ w * x * x = w * (x * x)
  <2>1. \A i \in Int : i * i \in Nat /\ (i # 0 => i * i > 0)
    OBVIOUS
  <2>2. \A i, j \in Int : j * i * i = j * (i * i)
    OBVIOUS
  <2>3. w \in Int
    BY <1>1
  <2>4. QED BY <1>1, <2>1, <2>2, <2>3
<1>3. \A i, j \in Nat : i * j \in Nat /\ (i > 0 /\ j > 0 => i * j > 0) /\ (i = 1 => i * j = j)
  OBVIOUS
<1> DEFINE square == x * x
<1> HIDE DEF square
<1>4. square \in Nat /\ (x # 0 => square > 0) /\ Share(n, c, c)[b] = w * square
  BY <1>1, <1>2 DEF square
<1>5. /\ Share(n, c, c)[b] \in Nat /\ (w > 0 /\ x # 0 => Share(n, c, c)[b] > 0)
      /\ w = 1 => Share(n, c, c)[b] = square
  BY <1>1, <1>3, <1>4
<1>6. QED BY <1>5 DEF square, x, w

LEMMA MixtureDiagonal ==
    ASSUME Arguments, NEW n \in 0 .. Len(circuit), NEW c \in BasisStates
    PROVE  /\ Mixture(n)[c][c] \in Nat
           /\ \A b \in Branches(n) : BranchWeight(b) > 0 /\ BranchVector(b)[c] # 0
                                        => Mixture(n)[c][c] > 0
           /\ \A b : Branches(n) = {b} /\ BranchWeight(b) = 1
                        => Mixture(n)[c][c] = BranchVector(b)[c] * BranchVector(b)[c]
<1> DEFINE f == Share(n, c, c)
           B == Branches(n)
<1>1. Mixture(n)[c][c] = Sum(f, B) /\ IsFiniteSet(B)
  BY MixtureFacts, BranchesAreFinite
<1>2. \A b \in B : /\ f[b] \in Nat
                   /\ BranchWeight(b) > 0 /\ BranchVector(b)[c] # 0 => f[b] > 0
                   /\ BranchWeight(b) = 1 => f[b] = BranchVector(b)[c] * BranchVector(b)[c]
  BY DiagonalShare
<1> HIDE DEF f, B
<1>3. Sum(f, B) \in Nat
  BY <1>1, <1>2, SumOfNaturals
<1>4. \A b \in B : f[b] > 0 => Sum(f, B) > 0
  BY <1>1, <1>2, SumPositive
<1>5. ASSUME NEW b, B = {b}, BranchWeight(b) = 1
      PROVE  Sum(f, B) = BranchVector(b)[c] * BranchVector(b)[c]
  <2>1. f[b] = BranchVector(b)[c] * BranchVector(b)[c] /\ f[b] \in Int
    BY <1>2, <1>5
  <2>2. Sum(f, {b}) = f[b]
    BY <2>1, SumOfOne
  <2>3. QED BY <1>5, <2>1, <2>2
<1>6. QED BY <1>1, <1>2, <1>3, <1>4, <1>5 DEF B

\* A truth is the weight of the basis states that give the outcome.
LEMMA TruthFacts ==
    ASSUME Arguments, leaves \in Leaves(circuit), NEW o \in Outcomes(leaves)
    PROVE  /\ Truth[o] \in Nat
           /\ \A b \in Having(LeafSlots, o) : Mixture(Len(circuit))[b][b] > 0 => Truth[o] > 0
<1> DEFINE M == Mixture(Len(circuit))
           H == Having(LeafSlots, o)
           d == Diagonal(M)
<1>1. Len(circuit) \in 0 .. Len(circuit)
  BY ArgumentFacts
<1>2. M \in Densities /\ \A b \in BasisStates : M[b][b] \in Nat
  BY <1>1, MixtureFacts, MixtureDiagonal
<1>3. H \in SUBSET BasisStates
  BY DEF Having
<1>4. Truth[o] = Sum(d, H)
  BY TruthIs
<1> HIDE DEF M, H
<1>5. IsFiniteSet(H) /\ \A b \in BasisStates : d[b] = M[b][b]
  BY <1>2, <1>3, DiagonalFacts
<1> HIDE DEF d
<1>6. \A b \in H : d[b] \in Nat /\ d[b] = M[b][b]
  BY <1>2, <1>3, <1>5
<1>7. Sum(d, H) \in Nat
  BY <1>5, <1>6, SumOfNaturals
<1>8. \A b \in H : d[b] > 0 => Sum(d, H) > 0
  BY <1>5, <1>6, SumPositive
<1>9. QED BY <1>4, <1>6, <1>7, <1>8 DEF M, H

-----------------------------------------------------------------------------
(* The three distributions.                                                  *)

\* A vector that went along the only branch.
LEMMA OnlyBranch ==
    ASSUME Arguments, Engine # "density", ResetsAt = {}, NEW b \in Branches(Len(circuit))
    PROVE  Branches(Len(circuit)) = {b} /\ BranchWeight(b) = 1
<1> DEFINE n == Len(circuit)
<1>1. n \in 0 .. n /\ 1 .. n \subseteq DOMAIN circuit
  BY ArgumentFacts
<1>2. \A i : ~ Noisy(i)
  BY NoNoiseOnVectors
<1>3. \A i \in 1 .. n : ChoicesAt(i) = {0}
  BY <1>1, <1>2, StepWithoutChoice
<1>4. ASSUME NEW d \in Branches(n) PROVE d = [i \in 1 .. n |-> 0]
  <2>1. d = [i \in 1 .. n |-> d[i]] /\ \A i \in 1 .. n : d[i] \in ChoicesAt(i)
    BY DEF Branches
  <2>2. QED BY <1>3, <2>1
<1>5. Branches(n) = {b}
  BY <1>4
<1>6. BranchWeight(b) = 1
  BY <1>1, <1>2, WeightWithoutNoise
<1>7. QED BY <1>5, <1>6

LEMMA ExactIsJoint ==
    ASSUME Arguments, leaves \in Leaves(circuit), Engine = "exact", ResetsAt = {},
           state \in States, IsTrajectory(state, <<>>, Len(circuit))
    PROVE  ExactDistribution = Truth /\ ExactDistribution \in [Outcomes(leaves) -> Nat]
<1> DEFINE n == Len(circuit)
           M == Mixture(n)
<1>1. n \in 0 .. n
  BY ArgumentFacts
<1>2. PICK b0 \in Branches(n) : state = Restricted(BranchVector(b0), <<>>)
  BY DEF IsTrajectory
<1>3. state = BranchVector(b0)
  BY <1>1, <1>2, EmptySeq, BranchValues, NothingRecorded
<1>4. Branches(n) = {b0} /\ BranchWeight(b0) = 1
  BY OnlyBranch
<1>5. \A b \in BasisStates : M[b][b] = state[b] * state[b]
  BY <1>1, <1>3, <1>4, MixtureDiagonal
<1>6. M \in Densities
  BY <1>1, MixtureFacts
<1> HIDE DEF n, M
<1>7. ASSUME NEW o \in Outcomes(leaves)
      PROVE  Weight(state, LeafSlots, o) = Truth[o] /\ Weight(state, LeafSlots, o) \in Nat
  <2> DEFINE H == Having(LeafSlots, o)
  <2>1. /\ Weight(state, LeafSlots, o) = Sum(Squares(state), H)
        /\ Weight(state, LeafSlots, o) \in Nat
    BY WeightFacts
  <2>2. Truth[o] = Sum(Diagonal(M), H)
    BY TruthIs DEF M, n
  <2>3. H \in SUBSET BasisStates
    BY DEF Having
  <2> HIDE DEF H
  <2>4. IsFiniteSet(H) /\ \A b \in BasisStates : /\ Diagonal(M)[b] = M[b][b]
                                                 /\ Diagonal(M)[b] \in Int
    BY <1>6, <2>3, DiagonalFacts
  <2>5. \A b \in H : Diagonal(M)[b] \in Int /\ Squares(state)[b] = Diagonal(M)[b]
    BY <1>5, <2>3, <2>4 DEF Squares
  <2>6. Sum(Squares(state), H) = Sum(Diagonal(M), H)
    BY <2>4, <2>5, SumEqual
  <2>7. QED BY <2>1, <2>2, <2>6
<1>8. ExactDistribution = [o \in Outcomes(leaves) |-> Weight(state, LeafSlots, o)]
  BY LeafFacts DEF ExactDistribution, Probabilities
<1>9. Truth = [o \in Outcomes(leaves) |-> Truth[o]]
  BY DEF Truth
<1> HIDE DEF Truth
<1>10. QED BY <1>7, <1>8, <1>9

LEMMA DensityIsJoint ==
    ASSUME Arguments, leaves \in Leaves(circuit), density \in Densities,
           density = Mixture(Len(circuit))
    PROVE  /\ Project(UniqueWeights(density)) = Truth
           /\ Project(UniqueWeights(density)) \in [Outcomes(leaves) -> Nat]
<1> DEFINE P == Project(UniqueWeights(density))
<1>1. \A o \in Outcomes(leaves) : P[o] = Truth[o] /\ Truth[o] \in Nat
  BY SpreadIsJoint, TruthIs, TruthFacts
<1>2. P = [o \in Outcomes(leaves) |-> P[o]]
  BY DEF Project
<1>3. Truth = [o \in Outcomes(leaves) |-> Truth[o]]
  BY DEF Truth
<1> HIDE DEF Truth, P
<1>4. P = Truth /\ P \in [Outcomes(leaves) -> Nat]
  BY <1>1, <1>2, <1>3
<1>5. QED BY <1>4 DEF P

\* The records of a shot have the outcome of every leaf.
LEMMA ShotHasLeaves ==
    ASSUME Arguments, leaves \in Leaves(circuit), NEW shot, Recorded(shot)
    PROVE  /\ \A i \in DOMAIN leaves : \E k \in DOMAIN shot.measured :
                 /\ shot.measured[k].op = leaves[i]
                 /\ ShotOutcome(shot)[i] = shot.measured[k].outcome[1]
                 /\ shot.measured[k].outcome \in Outcomes(circuit[leaves[i]].targets)
           /\ ShotOutcome(shot) \in Outcomes(leaves)
<1>1. ASSUME NEW i \in DOMAIN leaves
      PROVE  \E k \in DOMAIN shot.measured :
                /\ shot.measured[k].op = leaves[i]
                /\ ShotOutcome(shot)[i] = shot.measured[k].outcome[1]
                /\ shot.measured[k].outcome \in Outcomes(circuit[leaves[i]].targets)
  <2> DEFINE Named(m) == m \in ToSet(shot.measured) /\ m.op = leaves[i]
             m == CHOOSE m \in ToSet(shot.measured) : m.op = leaves[i]
  <2>1. leaves[i] \in 1 .. (Len(circuit) + 1) - 1 /\ Measures(leaves[i])
    BY LeafFacts, ArgumentFacts
  <2>2. PICK j \in DOMAIN shot.measured : shot.measured[j].op = leaves[i]
    BY <2>1 DEF Recorded, Observations
  <2>3. Named(shot.measured[j])
    BY <2>2 DEF ToSet
  <2>4. m \in ToSet(shot.measured) /\ m.op = leaves[i]
    BY <2>3
  <2>5. ShotOutcome(shot)[i] = m.outcome[1]
    BY DEF ShotOutcome
  <2> HIDE DEF m
  <2>6. PICK k \in DOMAIN shot.measured : m = shot.measured[k]
    BY <2>4 DEF ToSet
  <2>7. shot.measured[k].outcome \in Outcomes(circuit[shot.measured[k].op].targets)
    BY DEF Recorded, Observations, IsObservation
  <2>8. QED BY <2>4, <2>5, <2>6, <2>7
<1>2. ASSUME NEW i \in DOMAIN leaves PROVE ShotOutcome(shot)[i] \in {0, 1}
  <2>1. PICK k \in DOMAIN shot.measured :
            /\ ShotOutcome(shot)[i] = shot.measured[k].outcome[1]
            /\ shot.measured[k].outcome \in Outcomes(circuit[leaves[i]].targets)
    BY <1>1
  <2>2. 1 \in DOMAIN circuit[leaves[i]].targets
    BY LeafFacts
  <2>3. QED BY <2>1, <2>2 DEF Outcomes
<1>3. ShotOutcome(shot) = [i \in DOMAIN leaves |-> ShotOutcome(shot)[i]]
  BY DEF ShotOutcome
<1>4. ShotOutcome(shot) \in [DOMAIN leaves -> {0, 1}]
  BY <1>2, <1>3
<1>5. QED BY <1>1, <1>4 DEF Outcomes

LEMMA ShotIsPossible ==
    ASSUME Arguments, leaves \in Leaves(circuit), Engine = "sampled", NEW shot, Recorded(shot),
           IsTrajectory(shot.final, shot.measured, Len(circuit))
    PROVE  Truth[ShotOutcome(shot)] > 0
<1> DEFINE n == Len(circuit)
           o == ShotOutcome(shot)
<1>1. n \in 0 .. n /\ 1 .. n = DOMAIN circuit
  BY ArgumentFacts
<1>2. PICK d \in Branches(n) : shot.final = Restricted(BranchVector(d), shot.measured)
  BY DEF IsTrajectory
<1>3. PICK c \in BasisStates : shot.final[c] # 0
  BY DEF IsTrajectory, NotZero
<1>4. Agrees(shot.measured, c) /\ BranchVector(d)[c] # 0
  BY <1>2, <1>3 DEF Restricted
<1>5. BranchWeight(d) = 1
  BY <1>1, NoNoiseOnVectors, WeightWithoutNoise
<1>6. Mixture(n)[c][c] > 0
  BY <1>1, <1>4, <1>5, MixtureDiagonal
<1>7. c \in Having(LeafSlots, o)
  <2>1. ASSUME NEW i \in DOMAIN leaves PROVE o[i] = IF LeafSlots[i] \in c THEN 1 ELSE 0
    <3>1. PICK k \in DOMAIN shot.measured :
              /\ shot.measured[k].op = leaves[i] /\ o[i] = shot.measured[k].outcome[1]
      BY ShotHasLeaves
    <3>2. Outcome(c, circuit[leaves[i]].targets) = shot.measured[k].outcome
      BY <1>4, <3>1 DEF Agrees
    <3>3. 1 \in DOMAIN circuit[leaves[i]].targets /\ LeafSlots[i] = circuit[leaves[i]].targets[1]
      BY LeafFacts DEF SlotOf
    <3>4. Outcome(c, circuit[leaves[i]].targets)[1] = IF LeafSlots[i] \in c THEN 1 ELSE 0
      BY <3>3 DEF Outcome
    <3>5. QED BY <3>1, <3>2, <3>4
  <2>2. o = [i \in DOMAIN leaves |-> o[i]]
    BY DEF ShotOutcome
  <2>3. Outcome(c, LeafSlots) = [i \in DOMAIN leaves |-> IF LeafSlots[i] \in c THEN 1 ELSE 0]
    BY LeafFacts DEF Outcome
  <2> HIDE DEF o
  <2>4. Outcome(c, LeafSlots) = o
    BY <2>1, <2>2, <2>3
  <2>5. QED BY <2>4 DEF Having
<1>8. o \in Outcomes(leaves)
  BY ShotHasLeaves
<1> HIDE DEF o, n
<1>9. Truth[o] > 0
  BY <1>6, <1>7, <1>8, TruthFacts DEF n
<1>10. QED BY <1>9 DEF o

-----------------------------------------------------------------------------
(* Readout noise.                                                            *)

Showing(leaf, bit) == {u \in UniqueOutcomes : u[leaf] = bit}

LEMMA UniqueOutcomesAre ==
    ASSUME Arguments, leaves \in Leaves(circuit)
    PROVE  /\ UniqueOutcomes = Bits(UniqueLeaves) /\ IsFiniteSet(UniqueOutcomes)
           /\ IsFiniteSet(UniqueLeaves)
           /\ \A u \in UniqueOutcomes : \A leaf \in UniqueLeaves : u[leaf] \in {0, 1}
           /\ \A leaf \in UniqueLeaves : /\ Showing(leaf, 0) \in SUBSET UniqueOutcomes
                                         /\ Showing(leaf, 1) \in SUBSET UniqueOutcomes
                                         /\ UniqueOutcomes \ Showing(leaf, 0) = Showing(leaf, 1)
BY LeafFacts, BitsAreFinite DEF UniqueOutcomes, Bits, Showing

\* A bit's chances of being reported, given the outcomes of the observations.
Chances(a) == [leaf \in UniqueLeaves |-> channel[a[leaf]]]

Total(actual) == channel[actual][0] + channel[actual][1]

IsReadout == /\ channel \in [{0, 1} -> [{0, 1} -> Nat]]
             /\ Total(0) = Total(1)

LEMMA ChanceFacts ==
    ASSUME Arguments, leaves \in Leaves(circuit), IsReadout, NEW a \in UniqueOutcomes
    PROVE  \A leaf \in UniqueLeaves :
              /\ Chances(a)[leaf] = channel[a[leaf]]
              /\ Chances(a)[leaf][0] \in Int /\ Chances(a)[leaf][1] \in Int
              /\ Chances(a)[leaf][0] + Chances(a)[leaf][1] = Total(0)
<1> SUFFICES ASSUME NEW leaf \in UniqueLeaves
             PROVE  /\ Chances(a)[leaf] = channel[a[leaf]]
                    /\ Chances(a)[leaf][0] \in Int /\ Chances(a)[leaf][1] \in Int
                    /\ Chances(a)[leaf][0] + Chances(a)[leaf][1] = Total(0)
  OBVIOUS
<1>1. Chances(a)[leaf] = channel[a[leaf]] /\ a[leaf] \in {0, 1}
  BY UniqueOutcomesAre DEF Chances
<1>2. channel[a[leaf]] \in [{0, 1} -> Nat]
  BY <1>1 DEF IsReadout
<1>3. channel[a[leaf]][0] + channel[a[leaf]][1] = Total(0)
  BY <1>1 DEF IsReadout, Total
<1>4. QED BY <1>1, <1>2, <1>3

LEMMA ConditionalIs ==
    ASSUME NEW a \in UniqueOutcomes, NEW r \in UniqueOutcomes
    PROVE  Conditional(r, a) = Products(Chances(a), UniqueLeaves)[r]
<1> DEFINE S == UniqueLeaves
           f == Picked(Chances(a), r, S)
           Next(g) == [s \in SUBSET S |-> IF s = {} THEN 1
                                          ELSE LET bit == CHOOSE bit \in s : TRUE
                                               IN  channel[a[bit]][r[bit]] * g[s \ {bit}]]
<1>1. DOMAIN a = S
  BY DEF UniqueOutcomes
<1>2. Conditional(r, a) = (CHOOSE g : g = Next(g))[S]
  BY <1>1 DEF Conditional, MapThenFoldSet
<1>3. ASSUME NEW g PROVE Next(g) = ProductStep(f, S, g)
  <2>1. \A leaf \in S : f[leaf] = channel[a[leaf]][r[leaf]]
    BY DEF Picked, Chances
  <2> HIDE DEF f, S
  <2>2. ASSUME NEW s \in SUBSET S PROVE Next(g)[s] = ProductStep(f, S, g)[s]
    BY <2>1 DEF ProductStep
  <2>3. QED BY <2>2 DEF ProductStep
<1> HIDE DEF Next
<1>4. (CHOOSE g : g = Next(g)) = (CHOOSE g : g = ProductStep(f, S, g))
  BY <1>3
<1>5. Conditional(r, a) = Product(f, S)
  BY <1>2, <1>4 DEF Product
<1>6. r \in Bits(S)
  BY DEF UniqueOutcomes, Bits
<1>7. QED BY <1>5, <1>6 DEF Products

\* What the outcomes add to the weight of a report.
Reports(w, r) == [a \in UniqueOutcomes |-> w[a] * Conditional(r, a)]

LEMMA ReadoutIs ==
    ASSUME NEW w, DOMAIN w = UniqueOutcomes, NEW r \in UniqueOutcomes
    PROVE  ApplyReadout(w)[r] = Sum(Reports(w, r), UniqueOutcomes)
<1> DEFINE S == UniqueOutcomes
           f == Reports(w, r)
           Next(g) == [s \in SUBSET S |-> IF s = {} THEN 0
                                          ELSE LET a == CHOOSE a \in s : TRUE
                                               IN  (w[a] * Conditional(r, a)) + g[s \ {a}]]
<1>1. ApplyReadout(w)[r] = (CHOOSE g : g = Next(g))[S]
  BY DEF ApplyReadout, MapThenSumSet, MapThenFoldSet
<1>2. ASSUME NEW g PROVE Next(g) = SumStep(f, S, g)
  <2>1. \A a \in S : f[a] = w[a] * Conditional(r, a)
    BY DEF Reports
  <2> HIDE DEF f, S
  <2>2. ASSUME NEW s \in SUBSET S PROVE Next(g)[s] = SumStep(f, S, g)[s]
    BY <2>1 DEF SumStep
  <2>3. QED BY <2>2 DEF SumStep
<1> HIDE DEF Next
<1>3. (CHOOSE g : g = Next(g)) = (CHOOSE g : g = SumStep(f, S, g))
  BY <1>2
<1>4. QED BY <1>1, <1>3 DEF Sum

\* A leaf's marginal is its result's.
LEMMA ProjectMarginal ==
    ASSUME Arguments, leaves \in Leaves(circuit), NEW w, \A u \in UniqueOutcomes : w[u] \in Int,
           NEW i \in DOMAIN leaves, NEW bit \in {0, 1}
    PROVE  Sum(Project(w), {o \in Outcomes(leaves) : o[i] = bit}) = Sum(w, Showing(leaves[i], bit))
<1> DEFINE S == Showing(leaves[i], bit)
           T == {o \in Outcomes(leaves) : o[i] = bit}
           k == [u \in UniqueOutcomes |-> [j \in DOMAIN leaves |-> u[leaves[j]]]]
<1>1. IsFiniteSet(S) /\ S \subseteq UniqueOutcomes /\ \A j \in DOMAIN leaves : leaves[j] \in UniqueLeaves
  <2>1. S \subseteq UniqueOutcomes
    BY DEF Showing
  <2> HIDE DEF S
  <2>2. QED BY <2>1, UniqueOutcomesAre, LeafFacts, FS_Subset
<1>2. IsFiniteSet(T)
  <2>1. IsFiniteSet(DOMAIN leaves)
    BY LeafFacts, FS_Interval
  <2>2. IsFiniteSet(Bits(DOMAIN leaves))
    BY <2>1, BitsAreFinite
  <2>3. T \subseteq Bits(DOMAIN leaves)
    BY DEF Bits, Outcomes
  <2>4. QED BY <2>2, <2>3, FS_Subset
<1>3. ASSUME NEW u \in UniqueOutcomes, NEW o \in Outcomes(leaves)
      PROVE  k[u] = o <=> \A j \in DOMAIN leaves : o[j] = u[leaves[j]]
  <2>1. k[u] = [j \in DOMAIN leaves |-> u[leaves[j]]]
    OBVIOUS
  <2>2. o = [j \in DOMAIN leaves |-> o[j]]
    BY DEF Outcomes
  <2>3. (\A j \in DOMAIN leaves : o[j] = u[leaves[j]]) => k[u] = o
    BY <2>1, <2>2
  <2>4. k[u] = o => \A j \in DOMAIN leaves : o[j] = u[leaves[j]]
    BY <2>1
  <2>5. QED BY <2>3, <2>4
<1>4. ASSUME NEW u \in S PROVE k[u] \in T
  <2>1. u \in UniqueOutcomes /\ u[leaves[i]] = bit
    BY DEF Showing
  <2>2. \A j \in DOMAIN leaves : k[u][j] = u[leaves[j]] /\ k[u][j] \in {0, 1}
    BY <1>1, <2>1, UniqueOutcomesAre
  <2>3. k[u] = [j \in DOMAIN leaves |-> k[u][j]]
    BY <2>1
  <2> HIDE DEF k
  <2>4. k[u] \in Outcomes(leaves)
    BY <2>2, <2>3 DEF Outcomes
  <2>5. QED BY <2>1, <2>2, <2>4
<1>5. ASSUME NEW o \in T PROVE Project(w)[o] = Sum(w, {u \in S : k[u] = o})
  <2>1. o \in Outcomes(leaves) /\ o[i] = bit
    OBVIOUS
  <2>2. Spread(o) = {u \in S : k[u] = o}
    <3>1. ASSUME NEW u \in UniqueOutcomes PROVE u \in Spread(o) <=> u \in S /\ k[u] = o
      <4> HIDE DEF k
      <4>1. QED BY <1>3, <2>1 DEF Spread, Showing
    <3>2. Spread(o) \subseteq UniqueOutcomes /\ S \subseteq UniqueOutcomes
      BY <1>1 DEF Spread
    <3> HIDE DEF k, S
    <3>3. QED BY <3>1, <3>2
  <2>3. Project(w)[o] = Sum(w, Spread(o))
    BY <2>1, ProjectIs
  <2> HIDE DEF S, T, k
  <2>4. QED BY <2>2, <2>3
<1> HIDE DEF S, T, k
<1>6. Groups(S, T, w, k, Project(w))
  BY <1>1, <1>4, <1>5 DEF Groups
<1>7. Sum(w, S) = Sum(Project(w), T)
  BY <1>1, <1>2, <1>6, SumFibres
<1>8. QED BY <1>7 DEF S, T

\* The total weight of the other results' reports.
Others(leaf) == Product([l \in UniqueLeaves |-> Total(0)], UniqueLeaves \ {leaf})

LEMMA ReadoutIsInt ==
    ASSUME Arguments, leaves \in Leaves(circuit), IsReadout
    PROVE  /\ \A actual, bit \in {0, 1} : channel[actual][bit] \in Int
           /\ \A leaf : Others(leaf) \in Int
<1>1. \A actual, bit \in {0, 1} : channel[actual][bit] \in Nat
  BY DEF IsReadout
<1>2. Total(0) \in Int
  BY <1>1 DEF Total
<1>3. ASSUME NEW leaf PROVE Others(leaf) \in Int
  <2> DEFINE f == [l \in UniqueLeaves |-> Total(0)]
             S == UniqueLeaves \ {leaf}
  <2>1. IsFiniteSet(S) /\ \A x \in S : f[x] \in Int
    BY <1>2, UniqueOutcomesAre, FS_Subset
  <2> HIDE DEF f, S
  <2>2. Product(f, S) \in Int
    BY <2>1, ProductIsInt
  <2>3. QED BY <2>2 DEF f, S, Others
<1>4. QED BY <1>1, <1>3

\* The reports that show one bit of a result, whatever they show of the others.
LEMMA ConditionalMarginal ==
    ASSUME Arguments, leaves \in Leaves(circuit), IsReadout, NEW a \in UniqueOutcomes,
           NEW leaf \in UniqueLeaves, NEW bit \in {0, 1}
    PROVE  /\ Sum(Products(Chances(a), UniqueLeaves), Showing(leaf, bit))
                = channel[a[leaf]][bit] * Others(leaf)
           /\ \A r \in UniqueOutcomes : Products(Chances(a), UniqueLeaves)[r] \in Int
           /\ channel[a[leaf]][bit] \in Int /\ Others(leaf) \in Int
<1> DEFINE L == UniqueLeaves
           U == UniqueOutcomes
           S == Showing(leaf, bit)
           only == [b \in {0, 1} |-> IF b = bit THEN channel[a[leaf]][bit] ELSE 0]
           m == [x \in L |-> IF x = leaf THEN only ELSE Chances(a)[x]]
           C == Chances(a)
           X == channel[a[leaf]][bit]
           constant == [l \in L |-> Total(0)]
<1>1. /\ U = Bits(L) /\ IsFiniteSet(U) /\ IsFiniteSet(L) /\ S \in SUBSET U /\ IsFiniteSet(L \ {leaf})
      /\ S = {u \in U : u[leaf] = bit} /\ L = (L \ {leaf}) \union {leaf}
  <2>1. IsFiniteSet(L)
    BY UniqueOutcomesAre
  <2>2. IsFiniteSet(L \ {leaf})
    BY <2>1, FS_Subset
  <2>3. QED BY <2>1, <2>2, UniqueOutcomesAre DEF Showing
<1>2. \A x \in L : C[x][0] \in Int /\ C[x][1] \in Int /\ C[x][0] + C[x][1] = Total(0)
  BY ChanceFacts
<1>3. X = C[leaf][bit] /\ X \in Int
  BY <1>2, ChanceFacts
<1>4. /\ \A x \in L \ {leaf} : m[x] = C[x]
      /\ m[leaf][bit] = X /\ \A b \in {0, 1} : b # bit => m[leaf][b] = 0
      /\ m[leaf][0] + m[leaf][1] = X
  <2>1. m[leaf] = only /\ \A x \in L \ {leaf} : m[x] = C[x]
    OBVIOUS
  <2>2. only[bit] = X /\ \A b \in {0, 1} : b # bit => only[b] = 0
    OBVIOUS
  <2> HIDE DEF m, only, C, X
  <2>3. only[0] + only[1] = X
    <3>1. bit = 0 \/ bit = 1
      OBVIOUS
    <3>2. \A y \in Int : y + 0 = y /\ 0 + y = y
      OBVIOUS
    <3>3. QED BY <1>3, <2>2, <3>1, <3>2
  <2>4. QED BY <2>1, <2>2, <2>3
<1> HIDE DEF m, only, C, X
<1>5. \A x \in L : m[x][0] \in Int /\ m[x][1] \in Int
  <2>1. m[leaf][0] \in Int /\ m[leaf][1] \in Int
    <3>1. bit = 0 \/ bit = 1
      OBVIOUS
    <3>2. QED BY <1>3, <1>4, <3>1
  <2>2. ASSUME NEW x \in L PROVE m[x][0] \in Int /\ m[x][1] \in Int
    BY <1>2, <1>4, <2>1
  <2>3. QED BY <2>2
<1>6. \A r \in U : r[leaf] \in {0, 1}
  BY UniqueOutcomesAre
<1> HIDE DEF L, U, S
<1>7. ASSUME NEW r \in U
      PROVE  /\ Products(m, L)[r] = m[leaf][r[leaf]] * Product(Picked(m, r, L), L \ {leaf})
             /\ Products(C, L)[r] = C[leaf][r[leaf]] * Product(Picked(m, r, L), L \ {leaf})
             /\ Product(Picked(m, r, L), L \ {leaf}) \in Int
             /\ Products(m, L)[r] \in Int /\ Products(C, L)[r] \in Int
  <2>1. r \in Bits(L) /\ leaf \in L
    BY <1>1 DEF L
  <2>2. /\ \A x \in L : Picked(m, r, L)[x] = m[x][r[x]] /\ Picked(m, r, L)[x] \in Int
        /\ Products(m, L)[r] = Product(Picked(m, r, L), L) /\ Products(m, L)[r] \in Int
    BY <1>1, <1>5, <2>1, PickedFacts
  <2>3. /\ \A x \in L : Picked(C, r, L)[x] = C[x][r[x]] /\ Picked(C, r, L)[x] \in Int
        /\ Products(C, L)[r] = Product(Picked(C, r, L), L) /\ Products(C, L)[r] \in Int
    BY <1>1, <1>2, <2>1, PickedFacts
  <2>4. /\ Product(Picked(m, r, L), L)
             = Picked(m, r, L)[leaf] * Product(Picked(m, r, L), L \ {leaf})
        /\ Product(Picked(m, r, L), L \ {leaf}) \in Int
    BY <1>1, <2>1, <2>2, ProductRemove
  <2>5. Product(Picked(C, r, L), L)
          = Picked(C, r, L)[leaf] * Product(Picked(C, r, L), L \ {leaf})
    BY <1>1, <2>1, <2>3, ProductRemove
  <2>6. Product(Picked(C, r, L), L \ {leaf}) = Product(Picked(m, r, L), L \ {leaf})
    <3>1. \A x \in L \ {leaf} : /\ Picked(m, r, L)[x] \in Int
                                /\ Picked(C, r, L)[x] = Picked(m, r, L)[x]
      BY <1>4, <2>2, <2>3
    <3>2. QED BY <1>1, <3>1, ProductEqual
  <2>7. QED BY <2>1, <2>2, <2>3, <2>4, <2>5, <2>6
<1>8. ASSUME NEW r \in S PROVE Products(m, L)[r] \in Int /\ Products(C, L)[r] = Products(m, L)[r]
  <2>1. r \in U /\ r[leaf] = bit
    BY <1>1
  <2>2. C[leaf][r[leaf]] = m[leaf][r[leaf]]
    BY <1>3, <1>4, <2>1
  <2>3. QED BY <1>7, <2>1, <2>2
<1>9. ASSUME NEW r \in U \ S PROVE Products(m, L)[r] = 0
  <2>1. r \in U /\ r[leaf] # bit /\ r[leaf] \in {0, 1}
    BY <1>1, <1>6
  <2>2. m[leaf][r[leaf]] = 0
    BY <1>4, <2>1
  <2>3. \A y \in Int : 0 * y = 0
    OBVIOUS
  <2> DEFINE rest == Product(Picked(m, r, L), L \ {leaf})
  <2>4. Products(m, L)[r] = m[leaf][r[leaf]] * rest /\ rest \in Int
    BY <1>7, <2>1
  <2> HIDE DEF rest
  <2>5. QED BY <2>2, <2>3, <2>4
<1>10. Sum(Products(C, L), S) = Sum(Products(m, L), U)
  <2>1. IsFiniteSet(S)
    BY <1>1, FS_Subset
  <2>2. Sum(Products(C, L), S) = Sum(Products(m, L), S)
    BY <1>8, <2>1, SumEqual
  <2>3. Sum(Products(m, L), U) = Sum(Products(m, L), S)
    BY <1>1, <1>8, <1>9, SumOfPart
  <2>4. QED BY <2>2, <2>3
<1>11. Sum(Products(m, L), U) = Product(Totals(m, L), L)
  BY <1>1, <1>5, ProductOfSums
<1>12. \A x \in L : Totals(m, L)[x] = m[x][0] + m[x][1] /\ Totals(m, L)[x] \in Int
  BY <1>5 DEF Totals
<1>13. /\ Product(Totals(m, L), L) = Totals(m, L)[leaf] * Product(Totals(m, L), L \ {leaf})
       /\ Product(Totals(m, L), L \ {leaf}) \in Int
  <2>1. leaf \in L
    BY DEF L
  <2>2. QED BY <1>1, <1>12, <2>1, ProductRemove
<1>14. Totals(m, L)[leaf] = X
  BY <1>1, <1>4, <1>12
<1>15. Product(constant, L \ {leaf}) = Product(Totals(m, L), L \ {leaf})
  <2>1. \A x \in L \ {leaf} : Totals(m, L)[x] \in Int /\ constant[x] = Totals(m, L)[x]
    <3>1. ASSUME NEW x \in L \ {leaf} PROVE Totals(m, L)[x] \in Int /\ constant[x] = Totals(m, L)[x]
      <4>1. x \in L /\ m[x] = C[x]
        BY <1>4
      <4>2. Totals(m, L)[x] = C[x][0] + C[x][1] /\ Totals(m, L)[x] \in Int
        BY <1>12, <4>1
      <4>3. C[x][0] + C[x][1] = Total(0) /\ constant[x] = Total(0)
        BY <1>2, <4>1
      <4>4. QED BY <4>2, <4>3
    <3>2. QED BY <3>1
  <2> HIDE DEF constant
  <2>2. QED BY <1>1, <2>1, ProductEqual
<1>16. Others(leaf) = Product(constant, L \ {leaf})
  BY DEF Others, L
<1> HIDE DEF constant
<1>17. Sum(Products(C, L), S) = X * Others(leaf) /\ Others(leaf) \in Int
  BY <1>10, <1>11, <1>13, <1>14, <1>15, <1>16
<1>18. \A r \in U : Products(C, L)[r] \in Int
  BY <1>7
<1>19. QED BY <1>3, <1>17, <1>18 DEF C, L, S, X, U

\* The marginal of a result after the readout.
LEMMA ReadoutMarginal ==
    ASSUME Arguments, leaves \in Leaves(circuit), IsReadout,
           NEW w, DOMAIN w = UniqueOutcomes, \A u \in UniqueOutcomes : w[u] \in Int,
           NEW leaf \in UniqueLeaves, NEW bit \in {0, 1}
    PROVE  Sum(ApplyReadout(w), Showing(leaf, bit))
             = Others(leaf) * (  Sum(w, Showing(leaf, 0)) * channel[0][bit]
                               + Sum(w, Showing(leaf, 1)) * channel[1][bit])
<1> DEFINE U == UniqueOutcomes
           S == Showing(leaf, bit)
           C(a) == Products(Chances(a), UniqueLeaves)
           t == [r \in U |-> Reports(w, r)]
           columns == Columns(t, S, U)
           O == Others(leaf)
<1>1. /\ IsFiniteSet(U) /\ S \in SUBSET U /\ IsFiniteSet(S)
      /\ Showing(leaf, 0) \in SUBSET U /\ U \ Showing(leaf, 0) = Showing(leaf, 1)
      /\ IsFiniteSet(Showing(leaf, 0)) /\ IsFiniteSet(Showing(leaf, 1))
  <2>1. /\ IsFiniteSet(U) /\ S \in SUBSET U /\ Showing(leaf, 0) \in SUBSET U
        /\ Showing(leaf, 1) \in SUBSET U /\ U \ Showing(leaf, 0) = Showing(leaf, 1)
    BY UniqueOutcomesAre
  <2> HIDE DEF U, S
  <2>2. QED BY <2>1, FS_Subset
<1>2. \A a \in U : /\ Sum(C(a), S) = channel[a[leaf]][bit] * O
                   /\ \A r \in U : C(a)[r] \in Int
                   /\ channel[a[leaf]][bit] \in Int /\ O \in Int
  BY ConditionalMarginal
<1>3. \A r, a \in U : t[r][a] = w[a] * C(a)[r] /\ t[r][a] \in Int
  <2> SUFFICES ASSUME NEW r \in U, NEW a \in U PROVE t[r][a] = w[a] * C(a)[r] /\ t[r][a] \in Int
    OBVIOUS
  <2>1. t[r][a] = w[a] * Conditional(r, a)
    BY DEF Reports
  <2>2. Conditional(r, a) = C(a)[r]
    BY ConditionalIs
  <2>3. C(a)[r] \in Int /\ w[a] \in Int
    BY <1>2
  <2> HIDE DEF C, t, U
  <2>4. w[a] * C(a)[r] \in Int
    BY <2>3
  <2>5. QED BY <2>1, <2>2, <2>4
<1>4. ASSUME NEW r \in S PROVE ApplyReadout(w)[r] = Rows(t, S, U)[r] /\ Rows(t, S, U)[r] \in Int
  <2>1. r \in U
    BY <1>1
  <2>2. ApplyReadout(w)[r] = Sum(t[r], U)
    BY <2>1, ReadoutIs
  <2>3. Rows(t, S, U)[r] = Sum(t[r], U)
    BY DEF Rows
  <2>4. Sum(t[r], U) \in Int
    <3> HIDE DEF t, U
    <3>1. \A a \in U : t[r][a] \in Int
      BY <1>3, <2>1
    <3>2. QED BY <1>1, <3>1, SumIsInt
  <2>5. QED BY <2>2, <2>3, <2>4
<1> HIDE DEF t, S, U, C, O
<1>5. Sum(ApplyReadout(w), S) = Sum(columns, U)
  <2>1. Sum(ApplyReadout(w), S) = Sum(Rows(t, S, U), S)
    BY <1>1, <1>4, SumEqual
  <2>2. \A r \in S : \A a \in U : t[r][a] \in Int
    BY <1>1, <1>3
  <2>3. Sum(Rows(t, S, U), S) = Sum(columns, U)
    BY <1>1, <2>2, SumExchange
  <2>4. QED BY <2>1, <2>3
<1>6. ASSUME NEW a \in U
      PROVE  columns[a] = w[a] * (channel[a[leaf]][bit] * O) /\ columns[a] \in Int
  <2> DEFINE column == [r \in S |-> t[r][a]]
             x == channel[a[leaf]][bit]
             y == w[a]
  <2>1. columns[a] = Sum(column, S)
    BY DEF Columns
  <2>2. \A r \in S : C(a)[r] \in Int /\ column[r] = y * C(a)[r] + 0 * C(a)[r]
    <3>1. ASSUME NEW r \in S PROVE C(a)[r] \in Int /\ column[r] = y * C(a)[r] + 0 * C(a)[r]
      <4>1. r \in U /\ column[r] = t[r][a]
        BY <1>1
      <4>2. t[r][a] = y * C(a)[r] /\ C(a)[r] \in Int /\ y \in Int
        BY <1>2, <1>3, <4>1 DEF U
      <4> HIDE DEF column, y
      <4>3. \A i, j \in Int : i * j = i * j + 0 * j
        OBVIOUS
      <4>4. QED BY <4>1, <4>2, <4>3
    <3>2. QED BY <3>1
  <2>3. y \in Int /\ 0 \in Int /\ x \in Int /\ O \in Int
    BY <1>2 DEF U
  <2>4. Sum(C(a), S) = x * O
    BY <1>2
  <2> HIDE DEF column, x, y
  <2>5. Sum(column, S) = y * Sum(C(a), S) + 0 * Sum(C(a), S)
    BY <1>1, <2>2, <2>3, SumCombination
  <2>6. \A i, j, k \in Int : /\ i * (j * k) + 0 * (j * k) = i * (j * k)
                             /\ i * (j * k) \in Int
    OBVIOUS
  <2>7. Sum(column, S) = y * (x * O) /\ y * (x * O) \in Int
    BY <2>3, <2>4, <2>5, <2>6
  <2>8. QED BY <2>1, <2>7 DEF x, y
<1>7. ASSUME NEW actual \in {0, 1}
      PROVE  /\ Sum(columns, Showing(leaf, actual))
                  = (channel[actual][bit] * O) * Sum(w, Showing(leaf, actual))
             /\ channel[actual][bit] \in Int /\ O \in Int /\ Sum(w, Showing(leaf, actual)) \in Int
  <2> DEFINE V == Showing(leaf, actual)
             z == channel[actual][bit]
             c == z * O
  <2>1. V \subseteq U /\ IsFiniteSet(V) /\ \A a \in V : a[leaf] = actual
    BY <1>1 DEF Showing, U
  <2>2. z \in Int /\ O \in Int
    BY ReadoutIsInt DEF O
  <2>3. c \in Int /\ 0 \in Int
    <3> HIDE DEF z
    <3>1. QED BY <2>2
  <2>4. \A a \in V : w[a] \in Int /\ w[a] \in Int /\ columns[a] = c * w[a] + 0 * w[a]
    <3>1. ASSUME NEW a \in V PROVE w[a] \in Int /\ columns[a] = c * w[a] + 0 * w[a]
      <4>1. columns[a] = w[a] * c /\ w[a] \in Int
        BY <1>6, <2>1 DEF U
      <4> HIDE DEF c, columns
      <4>2. \A i, j \in Int : i * j = j * i + 0 * i
        OBVIOUS
      <4>3. QED BY <2>3, <4>1, <4>2
    <3>2. QED BY <3>1
  <2> HIDE DEF V, c, z, columns
  <2>5. Sum(columns, V) = c * Sum(w, V) + 0 * Sum(w, V)
    <3>1. IsFiniteSet(V)
      BY <2>1
    <3>2. QED BY <2>3, <2>4, <3>1, SumCombination
  <2>6. Sum(w, V) \in Int
    BY <2>1, <2>4, SumIsInt
  <2>7. \A i, j \in Int : i * j + 0 * j = i * j
    OBVIOUS
  <2>8. Sum(columns, V) = c * Sum(w, V)
    BY <2>3, <2>5, <2>6, <2>7
  <2>9. QED BY <2>2, <2>6, <2>8 DEF V, c, z
<1> HIDE DEF columns
<1>8. Sum(columns, U) = Sum(columns, Showing(leaf, 0)) + Sum(columns, Showing(leaf, 1))
  <2>1. \A a \in U : columns[a] \in Int
    BY <1>6
  <2>2. Sum(columns, U) = Sum(columns, Showing(leaf, 0)) + Sum(columns, U \ Showing(leaf, 0))
    BY <1>1, <2>1, SumOfParts
  <2>3. QED BY <1>1, <2>2
<1> DEFINE x0 == channel[0][bit]
           x1 == channel[1][bit]
           s0 == Sum(w, Showing(leaf, 0))
           s1 == Sum(w, Showing(leaf, 1))
<1>9. /\ Sum(columns, Showing(leaf, 0)) = (x0 * O) * s0
      /\ Sum(columns, Showing(leaf, 1)) = (x1 * O) * s1
      /\ x0 \in Int /\ x1 \in Int /\ O \in Int /\ s0 \in Int /\ s1 \in Int
  BY <1>7
<1> HIDE DEF x0, x1, s0, s1
<1>10. \A i, j, k, l, m \in Int : (i * m) * k + (j * m) * l = m * (k * i + l * j)
  OBVIOUS
<1>11. (x0 * O) * s0 + (x1 * O) * s1 = O * (s0 * x0 + s1 * x1)
  BY <1>9, <1>10
<1>12. Sum(ApplyReadout(w), S) = O * (s0 * x0 + s1 * x1)
  BY <1>5, <1>8, <1>9, <1>11
<1>13. QED BY <1>12 DEF S, O, x0, x1, s0, s1

\* The operators of the property, as sums and products.
LEMMA MarginalIs ==
    ASSUME NEW w, NEW S
    PROVE  MapThenSumSet(LAMBDA o : w[o], S) = Sum(w, S)
BY DEF MapThenSumSet, MapThenFoldSet, Sum, SumStep

LEMMA ScaleIs ==
    ASSUME NEW f, NEW S
    PROVE  FoldFunctionOnSet(LAMBDA x, y : x * y, 1, f, S) = Product(f, S)
BY DEF FoldFunctionOnSet, MapThenFoldSet, Product, ProductStep

\* Reports in which leaves of one result differ come from no outcome of the results.
LEMMA ReportsAgree ==
    ASSUME NEW w, NEW o \in Outcomes(leaves), Project(w)[o] # 0,
           NEW i \in DOMAIN leaves, NEW j \in DOMAIN leaves, leaves[i] = leaves[j]
    PROVE  o[i] = o[j]
<1>1. o[i] # o[j] => Spread(o) = {}
  BY DEF Spread
<1>2. Project(w)[o] = Sum(w, Spread(o))
  BY ProjectIs
<1>3. QED BY <1>1, <1>2, SumEmpty

LEMMA WeightsOfResults ==
    ASSUME Arguments, leaves \in Leaves(circuit), density \in Densities
    PROVE  /\ DOMAIN UniqueWeights(density) = UniqueOutcomes
           /\ \A u \in UniqueOutcomes : UniqueWeights(density)[u] \in Int
<1>1. DOMAIN UniqueWeights(density) = UniqueOutcomes
  BY DEF UniqueWeights
<1>2. ASSUME NEW u \in UniqueOutcomes PROVE UniqueWeights(density)[u] \in Int
  <2>1. Matching(u) \in SUBSET BasisStates
    BY DEF Matching
  <2>2. IsFiniteSet(Matching(u)) /\ \A b \in BasisStates : Diagonal(density)[b] \in Int
    BY <2>1, DiagonalFacts
  <2>3. Sum(Diagonal(density), Matching(u)) \in Int
    BY <2>1, <2>2, SumIsInt
  <2>4. QED BY <2>3, UniqueWeightsIs
<1>3. QED BY <1>1, <1>2

LEMMA ReadoutIsOnce ==
    ASSUME Arguments, leaves \in Leaves(circuit), IsReadout, channel # NoEvidence,
           density \in Densities,
           output = [physical |-> Project(UniqueWeights(density)), reported |-> Reported]
    PROVE  ReadoutOncePerObservation
<1> DEFINE w == UniqueWeights(density)
           after == ApplyReadout(w)
           Marginal(x, i, bit) == Sum(x, {o \in Outcomes(leaves) : o[i] = bit})
<1>1. DOMAIN w = UniqueOutcomes /\ \A u \in UniqueOutcomes : w[u] \in Int
  BY WeightsOfResults
<1>2. output.physical = Project(w) /\ output.reported = Project(after)
  BY DEF Reported
<1>3. \A i \in DOMAIN leaves : leaves[i] \in UniqueLeaves
  BY LeafFacts
<1> HIDE DEF w
<1>4. \A u \in UniqueOutcomes : after[u] \in Int
  <2> SUFFICES ASSUME NEW u \in UniqueOutcomes PROVE after[u] \in Int
    OBVIOUS
  <2>1. after[u] = Sum(Reports(w, u), UniqueOutcomes)
    BY <1>1, ReadoutIs
  <2>2. ASSUME NEW a \in UniqueOutcomes PROVE Reports(w, u)[a] \in Int
    <3>1. Reports(w, u)[a] = w[a] * Conditional(u, a)
      BY DEF Reports
    <3>2. Conditional(u, a) \in Int
      <4>1. \A leaf \in UniqueLeaves : /\ Chances(a)[leaf][0] \in Int
                                       /\ Chances(a)[leaf][1] \in Int
        BY ChanceFacts
      <4>2. u \in Bits(UniqueLeaves) /\ IsFiniteSet(UniqueLeaves)
        BY UniqueOutcomesAre
      <4>3. Products(Chances(a), UniqueLeaves)[u] \in Int
        BY <4>1, <4>2, PickedFacts
      <4>4. QED BY <4>3, ConditionalIs
    <3>3. QED BY <1>1, <3>1, <3>2
  <2>3. IsFiniteSet(UniqueOutcomes)
    BY UniqueOutcomesAre
  <2>4. Sum(Reports(w, u), UniqueOutcomes) \in Int
    BY <2>2, <2>3, SumIsInt
  <2>5. QED BY <2>1, <2>4
<1>5. \A i \in DOMAIN leaves, bit \in {0, 1} :
         Marginal(output.reported, i, bit)
            = Others(leaves[i]) * (  Marginal(output.physical, i, 0) * channel[0][bit]
                                   + Marginal(output.physical, i, 1) * channel[1][bit])
  <2> SUFFICES ASSUME NEW i \in DOMAIN leaves, NEW bit \in {0, 1}
               PROVE  Marginal(output.reported, i, bit)
                        = Others(leaves[i]) * (  Marginal(output.physical, i, 0) * channel[0][bit]
                                               + Marginal(output.physical, i, 1) * channel[1][bit])
    OBVIOUS
  <2> HIDE DEF after
  <2>1. Marginal(output.reported, i, bit) = Sum(after, Showing(leaves[i], bit))
    BY <1>2, <1>4, ProjectMarginal
  <2>2. /\ Marginal(output.physical, i, 0) = Sum(w, Showing(leaves[i], 0))
        /\ Marginal(output.physical, i, 1) = Sum(w, Showing(leaves[i], 1))
    <3>1. 0 \in {0, 1} /\ 1 \in {0, 1}
      OBVIOUS
    <3>2. QED BY <1>1, <1>2, <3>1, ProjectMarginal
  <2>3. Sum(after, Showing(leaves[i], bit))
          = Others(leaves[i]) * (  Sum(w, Showing(leaves[i], 0)) * channel[0][bit]
                                 + Sum(w, Showing(leaves[i], 1)) * channel[1][bit])
    BY <1>1, <1>3, ReadoutMarginal DEF after
  <2> HIDE DEF Marginal
  <2>4. QED BY <2>1, <2>2, <2>3
<1>6. \A o \in Outcomes(leaves) : output.reported[o] > 0 =>
         \A i, j \in DOMAIN leaves : leaves[i] = leaves[j] => o[i] = o[j]
  <2> SUFFICES ASSUME NEW o \in Outcomes(leaves), output.reported[o] > 0
               PROVE  \A i, j \in DOMAIN leaves : leaves[i] = leaves[j] => o[i] = o[j]
    OBVIOUS
  <2>1. Project(after)[o] # 0
    BY <1>2
  <2> HIDE DEF after
  <2>2. QED BY <2>1, ReportsAgree
<1>7. ASSUME NEW i \in DOMAIN leaves, NEW bit \in {0, 1}
      PROVE  MapThenSumSet(LAMBDA o : output.reported[o], {o \in Outcomes(leaves) : o[i] = bit})
               = FoldFunctionOnSet(LAMBDA x, y : x * y, 1,
                                   [l \in UniqueLeaves |-> channel[0][0] + channel[0][1]],
                                   UniqueLeaves \ {leaves[i]})
                 * (  MapThenSumSet(LAMBDA o : output.physical[o],
                                    {o \in Outcomes(leaves) : o[i] = 0}) * channel[0][bit]
                    + MapThenSumSet(LAMBDA o : output.physical[o],
                                    {o \in Outcomes(leaves) : o[i] = 1}) * channel[1][bit])
  <2>1. MapThenSumSet(LAMBDA o : output.reported[o], {o \in Outcomes(leaves) : o[i] = bit})
          = Marginal(output.reported, i, bit)
    BY MarginalIs
  <2>2. MapThenSumSet(LAMBDA o : output.physical[o], {o \in Outcomes(leaves) : o[i] = 0})
          = Marginal(output.physical, i, 0)
    BY MarginalIs
  <2>3. MapThenSumSet(LAMBDA o : output.physical[o], {o \in Outcomes(leaves) : o[i] = 1})
          = Marginal(output.physical, i, 1)
    BY MarginalIs
  <2>4. FoldFunctionOnSet(LAMBDA x, y : x * y, 1,
                          [l \in UniqueLeaves |-> channel[0][0] + channel[0][1]],
                          UniqueLeaves \ {leaves[i]}) = Others(leaves[i])
    BY ScaleIs DEF Others, Total
  <2> HIDE DEF Marginal
  <2>5. QED BY <1>5, <2>1, <2>2, <2>3, <2>4
<1>8. QED BY <1>6, <1>7 DEF ReadoutOncePerObservation

-----------------------------------------------------------------------------
(* The run.                                                                  *)

\* Where a run is after its engine has ended.
RunStopped ==
    /\ status \in Statuses \union {"quantum return", "published", "duplicate result"}
    /\ status \in {"published", "duplicate result"} => RanThrough
    /\ status = "quantum return" => Engine = "sampled"

Artifact ==
    IF Engine = "exact" THEN ExactDistribution
    ELSE IF Engine = "sampled" THEN SampledOutput
    ELSE [physical |-> Project(UniqueWeights(density)), reported |-> Reported]

PublishIInv ==
    /\ leaves \in Leaves(circuit) /\ channel \in ReadoutChannels \union {NoEvidence}
    /\ output # NoEvidence => status = "published" /\ leaves # <<>>
    /\ status = "published" /\ leaves # <<>> => output = Artifact

RunIInv == ExecutionIInv /\ RunStopped /\ PublishIInv

\* The projections depend on the values and the plan alone.
LEMMA ProjectStays ==
    ASSUME UNCHANGED leaves
    PROVE  \A w : Project(w)' = Project(w)
<1> DEFINE S(o) == {u \in UniqueOutcomes : \A i \in DOMAIN leaves : o[i] = u[leaves[i]]}
<1>1. ASSUME NEW w
      PROVE  /\ Project(w) = [o \in Outcomes(leaves) |-> Sum(w, S(o))]
             /\ Project(w)' = [o \in Outcomes(leaves)' |-> Sum(w, S(o)')]
  BY DEF Project, MapThenSumSet, MapThenFoldSet, Sum, SumStep
<1>2. ASSUME NEW o PROVE S(o)' = S(o)
  BY DEF UniqueOutcomes, UniqueLeaves
<1>3. Outcomes(leaves)' = Outcomes(leaves)
  OBVIOUS
<1> HIDE DEF S
<1>4. QED BY <1>1, <1>2, <1>3

LEMMA UniqueWeightsStay ==
    ASSUME UNCHANGED <<leaves, circuit>>
    PROVE  \A m : UniqueWeights(m)' = UniqueWeights(m)
<1> DEFINE S(u) == {b \in BasisStates : \A leaf \in UniqueLeaves :
                                           u[leaf] = IF SlotOf(leaf) \in b THEN 1 ELSE 0}
<1>1. ASSUME NEW m
      PROVE  /\ UniqueWeights(m) = [u \in UniqueOutcomes |-> Sum(Diagonal(m), S(u))]
             /\ UniqueWeights(m)' = [u \in UniqueOutcomes' |-> Sum(Diagonal(m), S(u)')]
  BY DEF UniqueWeights, MapThenSumSet, MapThenFoldSet, Sum, SumStep
<1>2. ASSUME NEW u PROVE S(u)' = S(u)
  BY DEF UniqueLeaves, SlotOf
<1>3. UniqueOutcomes' = UniqueOutcomes
  BY DEF UniqueOutcomes, UniqueLeaves
<1> HIDE DEF S
<1>4. QED BY <1>1, <1>2, <1>3

LEMMA ReadoutStays ==
    ASSUME UNCHANGED channel
    PROVE  \A w : ApplyReadout(w)' = ApplyReadout(w)
<1> DEFINE Next(r, a, g) == [s \in SUBSET DOMAIN a |->
                                IF s = {} THEN 1
                                ELSE LET bit == CHOOSE bit \in s : TRUE
                                     IN  channel[a[bit]][r[bit]] * g[s \ {bit}]]
<1>1. ASSUME NEW r, NEW a
      PROVE  /\ Conditional(r, a) = (CHOOSE g : g = Next(r, a, g))[DOMAIN a]
             /\ Conditional(r, a)' = (CHOOSE g : g = Next(r, a, g)')[DOMAIN a]
  BY DEF Conditional, MapThenFoldSet
<1>2. ASSUME NEW r, NEW a, NEW g PROVE Next(r, a, g)' = Next(r, a, g)
  OBVIOUS
<1> HIDE DEF Next
<1>3. ASSUME NEW r, NEW a PROVE Conditional(r, a)' = Conditional(r, a)
  <2>1. (CHOOSE g : g = Next(r, a, g)') = (CHOOSE g : g = Next(r, a, g))
    BY <1>2
  <2>2. QED BY <1>1, <2>1
<1> DEFINE Added(w, r, g) == [s \in SUBSET DOMAIN w |->
                                IF s = {} THEN 0
                                ELSE LET a == CHOOSE a \in s : TRUE
                                     IN  (w[a] * Conditional(r, a)) + g[s \ {a}]]
           Entry(w, r) == (CHOOSE g : g = Added(w, r, g))[DOMAIN w]
<1>4. ASSUME NEW w
      PROVE  /\ ApplyReadout(w) = [r \in DOMAIN w |-> Entry(w, r)]
             /\ ApplyReadout(w)' = [r \in DOMAIN w |-> Entry(w, r)']
  BY DEF ApplyReadout, MapThenSumSet, MapThenFoldSet
<1>5. ASSUME NEW w, NEW r, NEW g PROVE Added(w, r, g)' = Added(w, r, g)
  BY <1>3
<1> HIDE DEF Added
<1>6. ASSUME NEW w, NEW r PROVE Entry(w, r)' = Entry(w, r)
  <2>1. (CHOOSE g : g = Added(w, r, g)') = (CHOOSE g : g = Added(w, r, g))
    BY <1>5
  <2>2. QED BY <2>1
<1> HIDE DEF Entry
<1>7. QED BY <1>4, <1>6

LEMMA ArtifactStays ==
    ASSUME UNCHANGED <<circuit, request, state, density, shots, leaves, channel>>
    PROVE  Artifact' = Artifact
<1>1. Engine' = Engine
  BY DEF Engine
<1>2. ExactDistribution' = ExactDistribution
  <2>1. LeafSlots' = LeafSlots
    BY DEF LeafSlots, SlotOf
  <2>2. QED BY <2>1 DEF ExactDistribution
<1>3. SampledOutput' = SampledOutput
  <2>1. \A shot : ShotOutcome(shot)' = ShotOutcome(shot)
    BY DEF ShotOutcome
  <2>2. QED BY <2>1 DEF SampledOutput
<1>4. /\ Project(UniqueWeights(density))' = Project(UniqueWeights(density))
      /\ Project(ApplyReadout(UniqueWeights(density)))'
           = Project(ApplyReadout(UniqueWeights(density)))
  BY ProjectStays, UniqueWeightsStay, ReadoutStays
<1>5. Reported' = Reported
  BY <1>4 DEF Reported
<1>6. QED BY <1>1, <1>2, <1>3, <1>4, <1>5 DEF Artifact

LEMMA InitEstablishesRun == RunInit => RunIInv
<1> SUFFICES ASSUME RunInit PROVE RunIInv
  OBVIOUS
<1>1. ExecutionIInv /\ status = "requested" /\ output = NoEvidence
  BY InitEstablishesExecution DEF RunInit, ExecutionInit
<1>2. leaves \in Leaves(circuit) /\ channel \in ReadoutChannels \union {NoEvidence}
  BY DEF RunInit
<1>3. QED BY <1>1, <1>2 DEF RunIInv, RunStopped, Statuses, PublishIInv

LEMMA SimulateKeepsRun == RunIInv /\ Simulate => RunIInv'
<1> SUFFICES ASSUME RunIInv, Simulate PROVE RunIInv'
  OBVIOUS
<1>1. /\ EngineStep /\ status \in {"requested", "running"} /\ status' \in Statuses
      /\ UNCHANGED <<leaves, channel, output>>
  BY EngineStatuses DEF Simulate
<1>2. ExecutionIInv'
  BY <1>1, EngineKeepsExecution DEF RunIInv
<1>3. RunStopped'
  BY <1>1 DEF RunStopped, Statuses
<1>4. UNCHANGED circuit
  BY <1>1 DEF EngineStep, Start, RefuseReset, RefuseEvolution, Abort, ExactOperation,
              DensityOperation, SampledGate, SampledMeasure, SampledReset, DrawBeyondMass,
              FinishShot, FinishExecution
<1>5. PublishIInv'
  <2>1. status' # "published" /\ output = NoEvidence
    BY <1>1 DEF RunIInv, PublishIInv, Statuses
  <2>2. QED BY <1>1, <1>4, <2>1 DEF RunIInv, PublishIInv
<1>6. QED BY <1>2, <1>3, <1>5 DEF RunIInv

LEMMA RefusalKeepsRun == RunIInv /\ RefuseQuantumReturn => RunIInv'
<1> SUFFICES ASSUME RunIInv, RefuseQuantumReturn PROVE RunIInv'
  OBVIOUS
<1>1. /\ status = "requested" /\ status' = "quantum return" /\ Engine = "sampled"
      /\ UNCHANGED <<circuit, request, pc, state, density, observed, lossy, measured, resets,
                     shots, trace, noiseEvents, leaves, channel, output>>
  BY DEF RefuseQuantumReturn, Abort, QuantumSampled
<1>2. ControlIInv /\ TraceIInv /\ Progress
  BY DEF RunIInv, ExecutionIInv, ControlIInv
<1>3. Progress' /\ Engine' = Engine
  BY <1>1, <1>2, EndingKeepsProgress
<1>4. Stopped' /\ RunStopped'
  BY <1>1, <1>3 DEF Stopped, RunStopped
<1>5. TraceIInv'
  BY <1>1, <1>2, KeepingKeepsTrace
<1>6. ValuesIInv' /\ DensityIsMixture' /\ TrajectoryIInv' /\ PersistIInv' /\ NoiseIsNoted'
  BY <1>1, KeepingKeepsComputed DEF RunIInv
<1>7. PublishIInv'
  BY <1>1 DEF RunIInv, PublishIInv
<1>8. QED BY <1>3, <1>4, <1>5, <1>6, <1>7 DEF RunIInv, ExecutionIInv, ControlIInv

LEMMA FinishKeepsRun == RunIInv /\ FinishRun => RunIInv'
<1> SUFFICES ASSUME RunIInv, FinishRun PROVE RunIInv'
  OBVIOUS
<1>1. /\ status = "finished" /\ status' \in {"published", "duplicate result"}
      /\ UNCHANGED <<circuit, request, pc, state, density, observed, lossy, measured, resets,
                     shots, trace, noiseEvents, leaves, channel>>
  BY DEF FinishRun, FinishSampled, Publish
<1>2. ControlIInv /\ TraceIInv /\ Progress
  BY DEF RunIInv, ExecutionIInv, ControlIInv
<1>3. Progress' /\ Engine' = Engine
  BY <1>1, <1>2, EndingKeepsProgress
<1>4. RanThrough
  BY <1>1, <1>2 DEF ControlIInv, Stopped, RanThrough
<1>5. RanThrough'
  BY <1>1, <1>3, <1>4 DEF RanThrough
<1>6. Stopped' /\ RunStopped'
  BY <1>1, <1>3, <1>5 DEF Stopped, RunStopped
<1>7. TraceIInv'
  BY <1>1, <1>2, KeepingKeepsTrace
<1>8. ValuesIInv' /\ DensityIsMixture' /\ TrajectoryIInv' /\ PersistIInv' /\ NoiseIsNoted'
  BY <1>1, KeepingKeepsComputed DEF RunIInv
<1>9. PublishIInv'
  <2>1. output = NoEvidence
    BY <1>1 DEF RunIInv, PublishIInv
  <2>2. \/ status' = "duplicate result" /\ output' = output
        \/ status' = "published" /\ output' = IF leaves = <<>> THEN NoEvidence ELSE Artifact
    <3>1. CASE Engine = "exact"
      BY <3>1 DEF FinishRun, FinishSampled, Publish, Artifact
    <3>2. CASE Engine = "sampled"
      BY <3>2 DEF FinishRun, FinishSampled, Publish, Artifact
    <3>3. CASE Engine \notin {"exact", "sampled"}
      BY <3>3 DEF FinishRun, FinishSampled, Publish, Artifact
    <3>4. QED BY <3>1, <3>2, <3>3
  <2>3. Artifact' = Artifact
    BY <1>1, ArtifactStays
  <2>4. leaves' \in Leaves(circuit)' /\ channel' \in ReadoutChannels \union {NoEvidence}
    BY <1>1 DEF RunIInv, PublishIInv
  <2>5. (output # NoEvidence)' => (status = "published" /\ leaves # <<>>)'
    BY <1>1, <2>1, <2>2
  <2>6. (status = "published" /\ leaves # <<>>)' => output' = Artifact'
    BY <1>1, <2>2, <2>3
  <2>7. QED BY <2>4, <2>5, <2>6 DEF PublishIInv
<1>10. QED BY <1>3, <1>6, <1>7, <1>8, <1>9 DEF RunIInv, ExecutionIInv, ControlIInv

LEMMA StutterKeepsRun == RunIInv /\ UNCHANGED runVars => RunIInv'
<1> SUFFICES ASSUME RunIInv, UNCHANGED runVars PROVE RunIInv'
  OBVIOUS
<1>1. UNCHANGED executionVars /\ UNCHANGED <<leaves, channel, output>>
  BY DEF runVars
<1>2. UNCHANGED <<circuit, request, pc, status, state, density, shots>>
  BY <1>1 DEF executionVars
<1>3. ExecutionIInv'
  BY <1>1, StutterKeepsExecution DEF RunIInv
<1>4. RunStopped'
  BY <1>2 DEF RunIInv, RunStopped, RanThrough, Engine
<1>5. Artifact' = Artifact
  BY <1>1, <1>2, ArtifactStays
<1>6. PublishIInv'
  BY <1>1, <1>2, <1>5 DEF RunIInv, PublishIInv
<1>7. QED BY <1>3, <1>4, <1>6 DEF RunIInv

THEOREM RunInvariant == RunSpec => []RunIInv
<1>1. RunInit => RunIInv
  BY InitEstablishesRun
<1>2. RunIInv /\ [RunNext]_runVars => RunIInv'
  BY SimulateKeepsRun, RefusalKeepsRun, FinishKeepsRun, StutterKeepsRun
     DEF RunNext, RunStep, RunDone
<1>3. QED BY <1>1, <1>2, PTL DEF RunSpec

\* Of every circuit, whichever operations it has, an engine refuses exactly what is
\* documented: the loops find with one variable what the circuit says as a whole.
THEOREM RefusalsExact == RunSpec => []RefusalsAreExact
<1>1. RunIInv /\ DrawsIInv => RefusalsAreExact
  <2> SUFFICES ASSUME RunIInv, DrawsIInv PROVE RefusalsAreExact
    OBVIOUS
  <2>1. ControlIInv
    BY DEF RunIInv, ExecutionIInv
  <2>2. Ended /\ TraceRefusal = "none" /\ status \notin {"A202", "A203"} => RanThrough
    BY <2>1 DEF RunIInv, RunStopped, Statuses, ControlIInv, Stopped, Ended, RanThrough
  <2>3. QED BY <2>1, <2>2, ControlGivesRefusals DEF DrawsIInv
<1>2. RunInit => DrawsIInv
  BY DEF RunInit, ExecutionInit, DrawsIInv, GivesUpOnRounding
<1>3. RunIInv /\ DrawsIInv /\ [RunNext]_runVars => DrawsIInv'
  <2> SUFFICES ASSUME RunIInv, DrawsIInv, [RunNext]_runVars PROVE DrawsIInv'
    OBVIOUS
  <2>1. Progress
    BY DEF RunIInv, ExecutionIInv, ControlIInv
  <2>2. CASE Simulate
    BY <2>1, <2>2, EngineKeepsDraws DEF Simulate
  <2>3. CASE RefuseQuantumReturn
    <3>1. UNCHANGED <<circuit, request, pc, state, lossy>> /\ status' # "impossible"
      BY <2>3, Zenon DEF RefuseQuantumReturn, Abort
    <3>2. QED BY <3>1, EndingKeepsDraws
  <2>4. CASE FinishRun
    <3>1. UNCHANGED <<circuit, request, pc, state, lossy>>
      BY <2>4 DEF FinishRun
    <3>2. status' # "impossible"
      BY <2>4, Zenon DEF FinishRun, FinishSampled, Publish
    <3>3. QED BY <3>1, <3>2, EndingKeepsDraws
  <2>5. CASE UNCHANGED executionVars
    BY <2>5, EndingKeepsDraws DEF executionVars
  <2>6. QED BY <2>2, <2>3, <2>4, <2>5 DEF RunNext, RunStep, RunDone, runVars
<1>4. QED BY <1>1, <1>2, <1>3, RunInvariant, PTL DEF RunSpec

\* The constructors of a trace never turn down one that an engine captured, and it
\* ends in the state that the run returns.
THEOREM TracesExplainRuns == RunSpec => []TraceExplainsRun
<1>1. RunIInv => TraceExplainsRun
  BY TraceIInvExplains DEF RunIInv, ExecutionIInv
<1>2. QED BY <1>1, RunInvariant, PTL

\* The loops of the three engines are pure trajectories of the circuit, of every
\* circuit on every number of slots: the density matrix is their mixture, a sampled
\* shot is one of them, projected on what it observed, and what it observed in the
\* middle of the circuit persists.
THEOREM EnginesFollowTrajectories == RunSpec => []TrajectoriesAgree
<1>1. RunIInv => TrajectoriesAgree
  BY TrajectoriesHold DEF RunIInv
<1>2. QED BY <1>1, RunInvariant, PTL

-----------------------------------------------------------------------------
(* What is published.                                                        *)

\* A published run has passed every operation of its circuit.
LEMMA PublishedFacts ==
    ASSUME RunIInv, status = "published", leaves # <<>>
    PROVE  /\ Arguments /\ leaves \in Leaves(circuit) /\ output = Artifact
           /\ Engine # "sampled" => pc - 1 = Len(circuit) /\ Late = {} /\ measured = <<>>
           /\ Engine = "exact" => ResetsAt = {}
           /\ state \in States /\ density \in Densities
           /\ \A n \in DOMAIN shots : Recorded(shots[n])
<1>1. Progress /\ RanThrough /\ ValuesIInv
  BY DEF RunIInv, ExecutionIInv, ControlIInv, RunStopped
<1>2. Arguments /\ leaves \in Leaves(circuit) /\ output = Artifact
  BY <1>1 DEF Progress, RunIInv, PublishIInv
<1>3. /\ Engine # "sampled" => Late = {}
      /\ Engine = "exact" => ResetsAt = {}
  BY <1>1, PassedEverything
<1>4. Engine # "sampled" => pc - 1 = Len(circuit)
  <2>1. Len(circuit) \in Nat
    BY <1>2, ArgumentFacts
  <2>2. Engine # "sampled" => pc = Len(circuit) + 1
    BY <1>1 DEF RanThrough
  <2>3. QED BY <2>1, <2>2
<1>5. QED BY <1>1, <1>2, <1>3, <1>4 DEF ValuesIInv

LEMMA ExactPublishes ==
    ASSUME RunIInv, status = "published", leaves # <<>>, Engine = "exact"
    PROVE  output = Truth /\ output \in [Outcomes(leaves) -> Nat]
<1>1. output = ExactDistribution
  BY PublishedFacts DEF Artifact
<1>2. IsTrajectory(state, measured, pc - 1)
  BY DEF RunIInv, ExecutionIInv, TrajectoryIInv
<1>3. IsTrajectory(state, <<>>, Len(circuit))
  BY <1>2, PublishedFacts
<1>4. QED BY <1>1, <1>3, PublishedFacts, ExactIsJoint

LEMMA DensityPublishes ==
    ASSUME RunIInv, status = "published", leaves # <<>>, Engine = "density"
    PROVE  /\ output = [physical |-> Project(UniqueWeights(density)), reported |-> Reported]
           /\ output.physical = Truth /\ output.physical \in [Outcomes(leaves) -> Nat]
<1>1. output = [physical |-> Project(UniqueWeights(density)), reported |-> Reported]
  BY PublishedFacts DEF Artifact
<1>2. density = Mixture(Len(circuit))
  <2>1. density = Mixture(pc - 1)
    BY DEF RunIInv, ExecutionIInv, DensityIsMixture
  <2>2. QED BY <2>1, PublishedFacts
<1>3. /\ Project(UniqueWeights(density)) = Truth
      /\ Project(UniqueWeights(density)) \in [Outcomes(leaves) -> Nat]
  BY <1>2, PublishedFacts, DensityIsJoint
<1>4. QED BY <1>1, <1>3

LEMMA SampledPublishes ==
    ASSUME RunIInv, status = "published", leaves # <<>>, Engine = "sampled"
    PROVE  /\ DOMAIN output.shots = DOMAIN shots
           /\ \A n \in DOMAIN shots : /\ output.shots[n] = ShotOutcome(shots[n])
                                      /\ output.shots[n] \in Outcomes(leaves)
           /\ output.counts \in [Outcomes(leaves) -> 0 .. request.shots]
<1> DEFINE outcomes == [n \in DOMAIN shots |-> ShotOutcome(shots[n])]
           Giving(o) == {n \in DOMAIN shots : outcomes[n] = o}
<1>1. output = SampledOutput
  BY PublishedFacts DEF Artifact
<1>2. /\ output.shots = outcomes
      /\ output.counts = [o \in Outcomes(leaves) |-> Cardinality(Giving(o))]
  BY <1>1 DEF SampledOutput
<1>3. \A n \in DOMAIN shots : ShotOutcome(shots[n]) \in Outcomes(leaves)
  BY PublishedFacts, ShotHasLeaves
<1>4. ASSUME NEW o \in Outcomes(leaves) PROVE Cardinality(Giving(o)) \in 0 .. request.shots
  <2>1. PICK S : shots \in Seq(S)
    BY DEF RunIInv, ExecutionIInv, ValuesIInv
  <2>2. Len(shots) \in Nat /\ DOMAIN shots = 1 .. Len(shots)
    BY <2>1
  <2>3. Len(shots) <= request.shots /\ request.shots \in Nat
    BY PublishedFacts, RequestsAreRuns DEF RunIInv, ExecutionIInv, ValuesIInv, Arguments
  <2>4. IsFiniteSet(1 .. Len(shots)) /\ Cardinality(1 .. Len(shots)) = Len(shots)
    <3>1. 1 \in Int /\ Len(shots) \in Int
      BY <2>2
    <3>2. /\ IsFiniteSet(1 .. Len(shots))
          /\ Cardinality(1 .. Len(shots)) = IF 1 > Len(shots) THEN 0 ELSE Len(shots) - 1 + 1
      BY <3>1, FS_Interval
    <3>3. QED BY <2>2, <3>2
  <2>5. Giving(o) \in SUBSET (1 .. Len(shots))
    BY <2>2
  <2> HIDE DEF Giving
  <2>6. IsFiniteSet(Giving(o)) /\ Cardinality(Giving(o)) <= Len(shots)
    BY <2>4, <2>5, FS_Subset
  <2>7. Cardinality(Giving(o)) \in Nat
    BY <2>6, FS_CardinalityType
  <2>8. QED BY <2>2, <2>3, <2>6, <2>7
<1> HIDE DEF Giving
<1>5. output.counts \in [Outcomes(leaves) -> 0 .. request.shots]
  BY <1>2, <1>4
<1>6. QED BY <1>2, <1>3, <1>5

\* What is published has the code's shapes: an outcome for every leaf in each shot,
\* counts of no more than the shots that were asked for, and weights that no
\* arithmetic on amplitudes makes negative.
THEOREM PublishedTypes == RunSpec => []RunTypeOK
<1>1. RunIInv => RunTypeOK
  <2> SUFFICES ASSUME RunIInv PROVE RunTypeOK
    OBVIOUS
  <2>1. ExecutionTypeOK
    BY ValuesHaveTypes DEF RunIInv, ExecutionIInv
  <2>2. output # NoEvidence => status = "published" /\ leaves # <<>>
    BY DEF RunIInv, PublishIInv
  <2>3. QED BY <2>1, <2>2, ExactPublishes, DensityPublishes, SampledPublishes DEF RunTypeOK
<1>2. QED BY <1>1, RunInvariant, PTL

LEMMA PublishesJoint == RunIInv => DistributionsAreJoint
<1> SUFFICES ASSUME RunIInv, status = "published", leaves # <<>>
             PROVE  /\ Engine = "exact" => output = Truth
                    /\ Engine = "density" => output.physical = Truth
                    /\ Engine = "sampled" /\ Late = {} =>
                          \A n \in DOMAIN output.shots : Truth[output.shots[n]] > 0
  BY DEF DistributionsAreJoint
<1>1. ASSUME Engine = "sampled", Late = {}, NEW n \in DOMAIN output.shots
      PROVE  Truth[output.shots[n]] > 0
  <2>1. n \in DOMAIN shots /\ output.shots[n] = ShotOutcome(shots[n])
    BY <1>1, SampledPublishes
  <2>2. IsTrajectory(shots[n].final, shots[n].measured, Len(circuit))
    BY <1>1, <2>1 DEF RunIInv, ExecutionIInv, TrajectoryIInv
  <2>3. Truth[ShotOutcome(shots[n])] > 0
    BY <1>1, <2>1, <2>2, PublishedFacts, ShotIsPossible
  <2>4. QED BY <2>1, <2>3
<1>2. QED BY <1>1, ExactPublishes, DensityPublishes

LEMMA PublishesReadout == RunIInv => ReadoutOncePerObservation
<1> SUFFICES ASSUME RunIInv, status = "published", Engine = "density", leaves # <<>>,
                    channel # NoEvidence
             PROVE  ReadoutOncePerObservation
  BY DEF ReadoutOncePerObservation
<1>1. channel \in ReadoutChannels \ {NoEvidence}
  BY DEF RunIInv, PublishIInv
<1>2. IsReadout
  BY <1>1, ReadoutChannelsAreStochastic DEF IsReadout, Total
<1>3. QED BY <1>2, PublishedFacts, DensityPublishes, ReadoutIsOnce

\* The three modes publish one joint distribution of the leaves, whichever results
\* the program returns and however often, and readout noise disturbs each
\* observation once.
THEOREM PublishedJointly == RunSpec => []PublishedIsJoint
<1>1. RunIInv => PublishedIsJoint
  BY PublishesJoint, PublishesReadout DEF PublishedIsJoint
<1>2. QED BY <1>1, RunInvariant, PTL

-----------------------------------------------------------------------------
(* The reports on a run.                                                     *)

Answers == {"supported", "incomplete", "indeterminate", "unsupported"}
Verdicts == {"satisfied", "violated", "not evaluated"}
Refusals == {"none", "provenance", "noise impact", "criterion", "bare reliability",
             "protection requirement"}

\* The reports in the order in which they are built, and their shapes.
OrderIInv ==
    /\ impact # NoEvidence => provenance # NoEvidence
    /\ question # NoEvidence => impact # NoEvidence /\ question \in Questions(Len(leaves))
    /\ bare # NoEvidence =>
          question # NoEvidence /\ bare.status \in Answers /\ bare.verdict \in Verdicts
    /\ need # NoEvidence => bare # NoEvidence
    /\ refusal \in Refusals

LEMMA RunStepsKeepPlan ==
    ASSUME RunNext
    PROVE  UNCHANGED <<circuit, leaves>>
<1>1. CASE Simulate
  BY <1>1 DEF Simulate, EngineStep, Start, RefuseReset, RefuseEvolution, Abort, ExactOperation,
              DensityOperation, SampledGate, SampledMeasure, SampledReset, DrawBeyondMass,
              FinishShot, FinishExecution
<1>2. CASE RefuseQuantumReturn
  BY <1>2 DEF RefuseQuantumReturn, Abort
<1>3. CASE FinishRun
  BY <1>3 DEF FinishRun
<1>4. CASE RunDone
  BY <1>4 DEF RunDone, runVars, executionVars
<1>5. QED BY <1>1, <1>2, <1>3, <1>4 DEF RunNext, RunStep

\* A question is asked once, after the impact.
LEMMA AskedFacts ==
    ASSUME RunIInv, OrderIInv, Asked
    PROVE  /\ impact # NoEvidence /\ bare = NoEvidence /\ need = NoEvidence
           /\ question' # NoEvidence /\ question' \in Questions(Len(leaves))
<1>1. impact # NoEvidence /\ question = NoEvidence /\ question' \in Questions(Len(leaves))
  BY DEF Asked
<1>2. circuit \in Circuits /\ leaves \in Leaves(circuit)
  BY DEF RunIInv, ExecutionIInv, ControlIInv, Progress, Arguments, PublishIInv
<1>3. question' # NoEvidence
  BY <1>1, <1>2, QuestionsAssumption
<1>4. QED BY <1>1, <1>3 DEF OrderIInv

LEMMA AssessKeepsOrder ==
    ASSUME RunIInv, OrderIInv, Asked, UNCHANGED leaves,
           NEW answer \in Answers, NEW verdict \in Verdicts, NEW bound, NEW failure, NEW issues,
           Assess(BareReport(answer, verdict, bound, failure, issues))
    PROVE  OrderIInv'
<1> DEFINE report == BareReport(answer, verdict, bound, failure, issues)
<1>1. report.status = answer /\ report.verdict = verdict
  BY DEF BareReport
<1>2. \/ bare' = report /\ refusal' = refusal
      \/ bare' = bare /\ refusal' = "bare reliability"
  BY DEF Assess
<1>3. UNCHANGED <<provenance, impact, need>>
  BY DEF Assess
<1> HIDE DEF report
<1>4. QED BY <1>1, <1>2, <1>3, AskedFacts DEF OrderIInv, Refusals

\* The five answers that a question gets.
LEMMA QuestionsKeepOrder ==
    ASSUME RunIInv, OrderIInv,
           AssessUnsupported \/ RefuseCriterion \/ AssessIncomplete \/ AssessIndeterminate
               \/ AssessSupported
    PROVE  OrderIInv'
<1>1. CASE AssessUnsupported
  BY <1>1, AssessKeepsOrder DEF AssessUnsupported, Answers, Verdicts, Assess, runVars
<1>2. CASE AssessIncomplete
  BY <1>2, AssessKeepsOrder DEF AssessIncomplete, Assessable, Answers, Verdicts, Assess, runVars
<1>3. CASE AssessIndeterminate
  BY <1>3, AssessKeepsOrder
     DEF AssessIndeterminate, Assessable, Answers, Verdicts, Assess, runVars
<1>4. CASE AssessSupported
  <2>1. Verdict(Failure, question'.goal.maximum) \in Verdicts
    BY DEF Verdict, Verdicts
  <2>2. QED BY <1>4, <2>1, AssessKeepsOrder
            DEF AssessSupported, Assessable, Answers, Assess, runVars
<1>5. CASE RefuseCriterion
  <2>1. Asked /\ refusal' = "criterion" /\ UNCHANGED <<leaves, provenance, impact, bare, need>>
    BY <1>5 DEF RefuseCriterion, Assessable, runVars
  <2>2. QED BY <2>1, AskedFacts DEF OrderIInv, Refusals
<1>6. QED BY <1>1, <1>2, <1>3, <1>4, <1>5

THEOREM ReportInvariant == ReportSpec => [](RunIInv /\ OrderIInv)
<1>1. ReportInit => RunIInv /\ OrderIInv
  BY InitEstablishesRun DEF ReportInit, OrderIInv, Refusals
<1>2. RunIInv /\ [ReportNext]_reportVars => RunIInv'
  <2> SUFFICES ASSUME RunIInv, [ReportNext]_reportVars PROVE RunIInv'
    OBVIOUS
  <2>1. RunNext \/ UNCHANGED runVars
    BY DEF ReportNext, ReportStep, ReportEnded, reportVars, RecordProvenance, BuildImpact,
           AssessUnsupported, RefuseCriterion, AssessIncomplete, AssessIndeterminate,
           AssessSupported, Assess, BuildNeed, RunNext
  <2>2. QED BY <2>1, SimulateKeepsRun, RefusalKeepsRun, FinishKeepsRun, StutterKeepsRun
            DEF RunNext, RunStep, RunDone
<1>3. RunIInv /\ OrderIInv /\ [ReportNext]_reportVars => OrderIInv'
  <2> SUFFICES ASSUME RunIInv, OrderIInv, [ReportNext]_reportVars PROVE OrderIInv'
    OBVIOUS
  <2>1. CASE RunStep /\ UNCHANGED artifacts
    <3>1. UNCHANGED leaves
      BY <2>1, RunStepsKeepPlan DEF RunNext
    <3>2. QED BY <2>1, <3>1 DEF OrderIInv, artifacts
  <2>2. CASE RecordProvenance
    BY <2>2 DEF RecordProvenance, OrderIInv, runVars, Refusals
  <2>3. CASE BuildImpact
    BY <2>3 DEF BuildImpact, OrderIInv, runVars, Refusals
  <2>4. CASE BuildNeed
    BY <2>4 DEF BuildNeed, OrderIInv, runVars, Refusals
  <2>5. CASE UNCHANGED reportVars
    BY <2>5 DEF OrderIInv, reportVars, artifacts, runVars
  <2>6. QED BY <2>1, <2>2, <2>3, <2>4, <2>5, QuestionsKeepOrder
            DEF ReportNext, ReportStep, ReportEnded
<1>4. QED BY <1>1, <1>2, <1>3, PTL DEF ReportSpec

\* The artifacts come to be in their order and in their shapes.
THEOREM ReportTypes == ReportSpec => []ReportTypeOK
<1>1. OrderIInv => ReportTypeOK
  BY DEF OrderIInv, ReportTypeOK, Answers, Verdicts, Refusals
<1>2. QED BY <1>1, ReportInvariant, PTL

-----------------------------------------------------------------------------
(* An outcome's place.  The index is a fold from the highest bit to the      *)
(* lowest; outcomes of the same leaves have different places.                *)

LowestFirst(n) == [s \in SUBSET (1 .. n) |-> Min(s)]
Placed(o, n) == [i \in 1 .. n |-> [v \in Nat |-> o[i] + 2 * v]]

LEMMA LowestIsChosen == ASSUME NEW n \in Nat PROVE Chooses(LowestFirst(n), 1 .. n)
<1> SUFFICES ASSUME NEW s \in SUBSET (1 .. n), s # {} PROVE Min(s) \in s
  BY DEF Chooses, LowestFirst
<1>1. s \in SUBSET Nat
  OBVIOUS
<1>2. \E x \in s : \A y \in s : x <= y
  BY <1>1, LeastNumber
<1>3. QED BY <1>2 DEF Min

\* The places of the outcomes' upper parts.
PlacesOf(o, n, g) ==
    \A s \in SUBSET (1 .. n) :
        /\ g[s] \in Nat
        /\ g[s] = IF s = {} THEN 0 ELSE o[Min(s)] + 2 * g[s \ {Min(s)}]

LEMMA IndexIs ==
    ASSUME NEW n \in Nat, NEW o \in Bits(1 .. n)
    PROVE  \E g : PlacesOf(o, n, g) /\ OutcomeIndex(o) = g[1 .. n]
<1> DEFINE S == 1 .. n
           choice == LowestFirst(n)
           Next(g) == [s \in SUBSET S |-> IF s = {} THEN 0
                                          ELSE o[Min(s)] + 2 * g[s \ {Min(s)}]]
<1>1. DOMAIN o = S /\ \A i \in S : o[i] \in {0, 1}
  BY DEF Bits
<1>2. OutcomeIndex(o) = (CHOOSE g : g = Next(g))[S]
  BY <1>1 DEF OutcomeIndex, FoldRight, MapThenFoldSet
<1>3. Placed(o, n) \in [S -> [Nat -> Nat]]
  <2>1. ASSUME NEW i \in S, NEW v \in Nat PROVE o[i] + 2 * v \in Nat
    BY <1>1
  <2>2. QED BY <2>1 DEF Placed
<1>4. IsFiniteSet(S) /\ 0 \in Nat /\ Chooses(choice, S)
  BY FS_Interval, LowestIsChosen
<1>5. \A s \in SUBSET S : choice[s] = Min(s) /\ (s # {} => Min(s) \in s)
  BY <1>4 DEF Chooses, LowestFirst
<1> HIDE DEF choice
<1>6. PICK g \in [SUBSET S -> Nat] : FoldsTo(g, S, choice, 0, Placed(o, n))
  BY <1>3, <1>4, FoldHasSolution
<1>7. g = Next(g)
  <2>1. ASSUME NEW s \in SUBSET S PROVE g[s] = Next(g)[s]
    <3>1. CASE s = {}
      BY <1>6, <3>1 DEF FoldsTo
    <3>2. CASE s # {}
      <4> DEFINE m == Min(s)
      <4>1. m \in s /\ choice[s] = m
        BY <1>5, <3>2
      <4>2. g[s] = Placed(o, n)[m][g[s \ {m}]]
        BY <1>6, <3>2, <4>1 DEF FoldsTo
      <4>3. s \ {m} \in SUBSET S /\ m \in S /\ g[s \ {m}] \in Nat
        BY <4>1
      <4>4. g[s] = o[m] + 2 * g[s \ {m}]
        BY <4>2, <4>3 DEF Placed
      <4>5. QED BY <3>2, <4>4
    <3>3. QED BY <3>1, <3>2
  <2>2. QED BY <2>1
<1> DEFINE h == CHOOSE f : f = Next(f)
<1>8. h = Next(h)
  BY <1>7
<1> HIDE DEF h
<1>9. \A s \in SUBSET S : h[s] = IF s = {} THEN 0 ELSE o[Min(s)] + 2 * h[s \ {Min(s)}]
  BY <1>8
<1>10. ASSUME NEW s \in SUBSET S PROVE h[s] \in Nat
  <2> DEFINE P == {t \in SUBSET S : h[t] \in Nat}
  <2>1. {} \in P
    <3>1. h[{}] = 0
      BY <1>9
    <3>2. QED BY <3>1
  <2>2. ASSUME NEW t \in SUBSET S, t # {}, t \ {choice[t]} \in P PROVE t \in P
    <3>1. Min(t) \in S /\ choice[t] = Min(t)
      BY <1>5, <2>2
    <3>2. h[t] = o[Min(t)] + 2 * h[t \ {Min(t)}] /\ h[t \ {Min(t)}] \in Nat
      BY <1>9, <2>2, <3>1
    <3>3. QED BY <1>1, <3>1, <3>2
  <2> HIDE DEF P
  <2>3. ClosedUnder(choice, S, P)
    BY <2>1, <2>2 DEF ClosedUnder
  <2>4. s \in P
    BY <1>4, <2>3, RemovalInduction
  <2>5. QED BY <2>4 DEF P
<1>11. PlacesOf(o, n, h)
  BY <1>9, <1>10 DEF PlacesOf
<1>12. QED BY <1>2, <1>11 DEF h

\* Outcomes in one place are one.
LEMMA IndexIsInjective ==
    ASSUME NEW n \in Nat, NEW o \in Bits(1 .. n), NEW p \in Bits(1 .. n),
           OutcomeIndex(o) = OutcomeIndex(p)
    PROVE  o = p
<1> DEFINE S == 1 .. n
           choice == LowestFirst(n)
<1>1. PICK g : PlacesOf(o, n, g) /\ OutcomeIndex(o) = g[S]
  BY IndexIs
<1>2. PICK h : PlacesOf(p, n, h) /\ OutcomeIndex(p) = h[S]
  BY IndexIs
<1>3. IsFiniteSet(S) /\ Chooses(choice, S)
  BY FS_Interval, LowestIsChosen
<1>4. \A s \in SUBSET S : choice[s] = Min(s) /\ (s # {} => Min(s) \in s)
  BY <1>3 DEF Chooses, LowestFirst
<1> HIDE DEF choice
<1> DEFINE P == {s \in SUBSET S : g[s] = h[s] => \A i \in s : o[i] = p[i]}
<1>5. {} \in P
  OBVIOUS
<1>6. ASSUME NEW s \in SUBSET S, s # {}, s \ {choice[s]} \in P PROVE s \in P
  <2> SUFFICES ASSUME g[s] = h[s] PROVE \A i \in s : o[i] = p[i]
    OBVIOUS
  <2> DEFINE m == Min(s)
             rest == s \ {m}
  <2>1. m \in s /\ choice[s] = m
    BY <1>4, <1>6
  <2>2. o[m] \in {0, 1} /\ p[m] \in {0, 1}
    BY <2>1 DEF Bits
  <2>3. /\ g[s] = o[m] + 2 * g[rest] /\ g[rest] \in Nat
        /\ h[s] = p[m] + 2 * h[rest] /\ h[rest] \in Nat
    BY <1>1, <1>2, <1>6 DEF PlacesOf
  <2>4. rest \in P
    BY <1>6, <2>1
  <2>5. s = rest \union {m}
    BY <2>1
  <2> HIDE DEF m, rest
  <2>a. \A a, b \in {0, 1} : \A x, y \in Nat : a + 2 * x = b + 2 * y => a = b /\ x = y
    OBVIOUS
  <2>b. o[m] + 2 * g[rest] = p[m] + 2 * h[rest]
    BY <2>3
  <2>6. o[m] = p[m] /\ g[rest] = h[rest]
    BY <2>2, <2>3, <2>a, <2>b
  <2>7. \A i \in rest : o[i] = p[i]
    BY <2>4, <2>6
  <2>8. QED BY <2>5, <2>6, <2>7
<1> HIDE DEF P
<1>7. ClosedUnder(choice, S, P)
  BY <1>5, <1>6 DEF ClosedUnder
<1>8. S \in P
  BY <1>3, <1>7, RemovalInduction
<1>9. \A i \in S : o[i] = p[i]
  BY <1>1, <1>2, <1>8 DEF P
<1>10. QED BY <1>9 DEF Bits

-----------------------------------------------------------------------------
(* The readings of a basis state.                                            *)

LEMMA ProductImage ==
    ASSUME NEW S, IsFiniteSet(S), NEW f, NEW g, NEW h, Reindexes(S, f, g, h)
    PROVE  Product(g, {h[x] : x \in S}) = Product(f, S)
<1> USE DEF Reindexes
<1> DEFINE Image(s) == {h[x] : x \in s}
           P == {s \in SUBSET S : IsFiniteSet(Image(s)) /\ Product(g, Image(s)) = Product(f, s)}
<1>1. {} \in P
  <2>1. Image({}) = {}
    OBVIOUS
  <2>2. QED BY <2>1, ProductEmpty, FS_EmptySet
<1>2. ASSUME NEW s \in SUBSET S, NEW x \in S \ s, s \in P PROVE s \union {x} \in P
  <2>1. IsFiniteSet(s) /\ \A y \in s \union {x} : f[y] \in Int
    BY FS_Subset
  <2>2. Product(f, s \union {x}) = f[x] * Product(f, s)
    BY <2>1, ProductAdd
  <2>3. Image(s \union {x}) = Image(s) \union {h[x]}
    OBVIOUS
  <2>4. h[x] \notin Image(s) /\ \A y \in Image(s) \union {h[x]} : g[y] \in Int
    OBVIOUS
  <2>5. IsFiniteSet(Image(s)) /\ Product(g, Image(s)) = Product(f, s)
    BY <1>2
  <2>a. g[h[x]] = f[x]
    OBVIOUS
  <2> HIDE DEF Image
  <2>6. Product(g, Image(s) \union {h[x]}) = g[h[x]] * Product(g, Image(s))
    BY <2>4, <2>5, ProductAdd
  <2>7. IsFiniteSet(Image(s) \union {h[x]})
    BY <2>5, FS_AddElement
  <2>8. Product(g, Image(s \union {x})) = Product(f, s \union {x})
    BY <2>2, <2>3, <2>5, <2>6, <2>a
  <2>9. QED BY <2>3, <2>7, <2>8
<1>3. S \in P
  <2> HIDE DEF P
  <2>1. QED BY <1>1, <1>2, SubsetInduction
<1>4. QED BY <1>3

\* A product of ones and zeros is one or zero.
LEMMA ProductOfBits ==
    ASSUME NEW S, IsFiniteSet(S), NEW f, \A x \in S : f[x] \in {0, 1}
    PROVE  Product(f, S) = IF \A x \in S : f[x] = 1 THEN 1 ELSE 0
<1>1. CASE \A x \in S : f[x] = 1
  <2> DEFINE P == {s \in SUBSET S : Product(f, s) = 1}
  <2>1. {} \in P
    BY ProductEmpty
  <2>2. ASSUME NEW s \in SUBSET S, NEW x \in S \ s, s \in P PROVE s \union {x} \in P
    <3>1. IsFiniteSet(s) /\ \A y \in s \union {x} : f[y] \in Int
      BY FS_Subset
    <3>2. Product(f, s \union {x}) = f[x] * Product(f, s)
      BY <3>1, ProductAdd
    <3>3. f[x] = 1 /\ Product(f, s) = 1
      BY <1>1, <2>2
    <3>4. QED BY <3>2, <3>3
  <2> HIDE DEF P
  <2>3. S \in P
    BY <2>1, <2>2, SubsetInduction
  <2>4. QED BY <1>1, <2>3 DEF P
<1>2. CASE \E x \in S : f[x] # 1
  <2>1. PICK x \in S : f[x] = 0
    BY <1>2
  <2>2. \A y \in S : f[y] \in Int
    OBVIOUS
  <2>3. Product(f, S) = f[x] * Product(f, S \ {x}) /\ Product(f, S \ {x}) \in Int
    BY <2>1, <2>2, ProductRemove
  <2>4. \A i \in Int : 0 * i = 0
    OBVIOUS
  <2>5. QED BY <1>2, <2>1, <2>3, <2>4
<1>3. QED BY <1>1, <1>2

\* A product over a sequence, in the order of the sequence.
Multiplies(h, f, n) ==
    \A s \in SUBSET (1 .. n) : h[s] = IF s = {} THEN 1 ELSE h[s \ {Max(s)}] * f[Max(s)]

LEMMA FoldedProduct ==
    ASSUME NEW n \in Nat, NEW f, \A i \in 1 .. n : f[i] \in Int,
           NEW h, Multiplies(h, f, n)
    PROVE  h[1 .. n] = Product(f, 1 .. n)
<1> DEFINE S == 1 .. n
           choice == [s \in SUBSET S |-> Max(s)]
           P == {s \in SUBSET S : h[s] = Product(f, s)}
<1>1. Chooses(choice, S) /\ IsFiniteSet(S)
  <2>1. Chooses(choice, S)
    BY PrefixFacts
  <2>2. IsFiniteSet(S)
    BY FS_Interval
  <2>3. QED BY <2>1, <2>2
<1>2. \A s \in SUBSET S : choice[s] = Max(s) /\ (s # {} => Max(s) \in s)
  BY <1>1 DEF Chooses
<1> HIDE DEF choice
<1>3. {} \in P
  BY ProductEmpty DEF Multiplies
<1>a. ASSUME NEW s \in SUBSET S, NEW m \in s
      PROVE  Product(f, s) = Product(f, s \ {m}) * f[m]
  <2> HIDE DEF P
  <2>1. IsFiniteSet(s) /\ \A x \in s : f[x] \in Int
    BY <1>1, FS_Subset
  <2>2. Product(f, s) = f[m] * Product(f, s \ {m}) /\ Product(f, s \ {m}) \in Int
    BY <2>1, ProductRemove
  <2>3. f[m] \in Int
    BY <2>1
  <2>4. \A x, y \in Int : x * y = y * x
    OBVIOUS
  <2>5. QED BY <2>2, <2>3, <2>4
<1>4. ASSUME NEW s \in SUBSET S, s # {}, s \ {choice[s]} \in P PROVE s \in P
  <2>1. Max(s) \in s /\ choice[s] = Max(s)
    BY <1>2, <1>4
  <2>2. h[s] = h[s \ {Max(s)}] * f[Max(s)]
    BY <1>4 DEF Multiplies
  <2>3. h[s \ {Max(s)}] = Product(f, s \ {Max(s)})
    BY <1>4, <2>1
  <2>4. Product(f, s) = Product(f, s \ {Max(s)}) * f[Max(s)]
    BY <1>a, <2>1
  <2>5. QED BY <2>2, <2>3, <2>4
<1> HIDE DEF P
<1>5. ClosedUnder(choice, S, P)
  BY <1>3, <1>4 DEF ClosedUnder
<1>6. S \in P
  BY <1>1, <1>5, RemovalInduction
<1>7. QED BY <1>6 DEF P

\* What a reader sees of each leaf, given a basis state.
TrueBit(leaf, b) == IF SlotOf(leaf) \in b THEN 1 ELSE 0
Readings(b, o) == [i \in DOMAIN leaves |-> Reading(TrueBit(leaves[i], b), o[i])]

ReadoutFits == channel = NoEvidence \/ IsReadout

LEMMA ReadingFacts ==
    ASSUME ReadoutFits, NEW b, NEW o \in Outcomes(leaves)
    PROVE  \A i \in DOMAIN leaves :
              /\ Readings(b, o)[i] \in Int
              /\ channel = NoEvidence =>
                    Readings(b, o)[i] = IF TrueBit(leaves[i], b) = o[i] THEN 1 ELSE 0
              /\ channel # NoEvidence =>
                    Readings(b, o)[i] = channel[TrueBit(leaves[i], b)][o[i]]
<1> SUFFICES ASSUME NEW i \in DOMAIN leaves
             PROVE  /\ Readings(b, o)[i] \in Int
                    /\ channel = NoEvidence =>
                          Readings(b, o)[i] = IF TrueBit(leaves[i], b) = o[i] THEN 1 ELSE 0
                    /\ channel # NoEvidence =>
                          Readings(b, o)[i] = channel[TrueBit(leaves[i], b)][o[i]]
  OBVIOUS
<1>1. Readings(b, o)[i] = Reading(TrueBit(leaves[i], b), o[i])
  BY DEF Readings
<1>2. TrueBit(leaves[i], b) \in {0, 1} /\ o[i] \in {0, 1}
  BY DEF TrueBit, Outcomes
<1>3. channel # NoEvidence => channel[TrueBit(leaves[i], b)][o[i]] \in Nat
  BY <1>2 DEF ReadoutFits, IsReadout
<1>4. QED BY <1>1, <1>2, <1>3 DEF Reading

LEMMA LikelihoodIs ==
    ASSUME Arguments, leaves \in Leaves(circuit), ReadoutFits, NEW b, NEW o \in Outcomes(leaves)
    PROVE  Likelihood(b, o) = Product(Readings(b, o), DOMAIN leaves) /\ Likelihood(b, o) \in Int
<1> DEFINE n == Len(leaves)
           S == 1 .. n
           f == Readings(b, o)
           Next(g) == [s \in SUBSET S |-> IF s = {} THEN 1 ELSE g[s \ {Max(s)}] * f[Max(s)]]
<1>1. n \in Nat /\ DOMAIN leaves = S
  BY LeafFacts
<1>2. \A i \in S : f[i] \in Int
  BY <1>1, ReadingFacts
<1>3. Chooses([s \in SUBSET S |-> Max(s)], S) /\ IsFiniteSet(S)
  <2>1. Chooses([s \in SUBSET S |-> Max(s)], S)
    BY <1>1, PrefixFacts
  <2>2. IsFiniteSet(S)
    BY <1>1, FS_Interval
  <2>3. QED BY <2>1, <2>2
<1>4. \A s \in SUBSET S : s # {} => Max(s) \in s
  BY <1>3 DEF Chooses
<1>5. Likelihood(b, o) = (CHOOSE g : g = Next(g))[S]
  <2> DEFINE Identity == [j \in DOMAIN leaves |-> j]
             Folded(g) == [s \in SUBSET (DOMAIN leaves) |->
                  IF s = {} THEN 1
                  ELSE LET i == Max(s)
                       IN  g[s \ {i}] * Reading(IF SlotOf(leaves[Identity[i]]) \in b THEN 1 ELSE 0,
                                                o[Identity[i]])]
  <2>1. Likelihood(b, o) = (CHOOSE g : g = Folded(g))[DOMAIN leaves]
    BY DEF Likelihood, FoldLeftDomain, FoldLeft, MapThenFoldSet
  <2>2. ASSUME NEW g PROVE Folded(g) = Next(g)
    <3>1. ASSUME NEW s \in SUBSET S, s # {} PROVE Identity[Max(s)] = Max(s)
      BY <1>1, <1>4, <3>1
    <3>2. ASSUME NEW s \in SUBSET S, s # {}
          PROVE  f[Max(s)] = Reading(IF SlotOf(leaves[Max(s)]) \in b THEN 1 ELSE 0, o[Max(s)])
      BY <1>1, <1>4, <3>2 DEF Readings, TrueBit
    <3> HIDE DEF Identity, f
    <3>3. ASSUME NEW s \in SUBSET S PROVE Folded(g)[s] = Next(g)[s]
      BY <1>1, <3>1, <3>2
    <3>4. QED BY <1>1, <3>3
  <2> HIDE DEF Folded, Next
  <2>3. (CHOOSE g : g = Folded(g)) = (CHOOSE g : g = Next(g))
    BY <2>2
  <2>4. QED BY <1>1, <2>1, <2>3
<1> HIDE DEF f
<1> DEFINE p == [s \in SUBSET S |-> Product(f, s)]
<1>6. p = Next(p)
  <2>1. ASSUME NEW s \in SUBSET S PROVE p[s] = Next(p)[s]
    <3>1. CASE s = {}
      BY <3>1, ProductEmpty
    <3>2. CASE s # {}
      <4> DEFINE m == Max(s)
                 rest == s \ {m}
      <4>1. m \in s /\ IsFiniteSet(s) /\ rest \in SUBSET S /\ \A x \in s : f[x] \in Int
        BY <1>2, <1>3, <1>4, <3>2, FS_Subset
      <4>a. f[m] \in Int
        BY <4>1
      <4> HIDE DEF m
      <4>2. Product(f, s) = f[m] * Product(f, rest) /\ Product(f, rest) \in Int
        BY <4>1, ProductRemove
      <4>3. \A x, y \in Int : x * y = y * x
        OBVIOUS
      <4>4. Product(f, s) = Product(f, rest) * f[m]
        BY <4>2, <4>3, <4>a
      <4>5. p[s] = p[rest] * f[m]
        BY <4>1, <4>4
      <4> USE DEF m
      <4> HIDE DEF p
      <4>6. QED BY <3>2, <4>5
    <3>3. QED BY <3>1, <3>2
  <2>2. p = [s \in SUBSET S |-> p[s]]
    OBVIOUS
  <2>3. Next(p) = [s \in SUBSET S |-> Next(p)[s]]
    OBVIOUS
  <2> HIDE DEF p, Next
  <2>4. QED BY <2>1, <2>2, <2>3
<1> HIDE DEF p
<1> DEFINE h == CHOOSE g : g = Next(g)
<1>7. h = Next(h)
  BY <1>6
<1> HIDE DEF h
<1>8. \A s \in SUBSET S : h[s] = IF s = {} THEN 1 ELSE h[s \ {Max(s)}] * f[Max(s)]
  BY <1>7
<1> HIDE DEF Next
<1>9. h[S] = Product(f, S)
  <2> HIDE DEF S
  <2>1. QED BY <1>1, <1>2, <1>8, FoldedProduct DEF S, Multiplies
<1>10. Product(f, S) \in Int
  BY <1>2, <1>3, ProductIsInt
<1>11. QED BY <1>1, <1>5, <1>9, <1>10 DEF f, h

-----------------------------------------------------------------------------
(* The distributions of the reports.                                         *)

\* What every basis state adds to an outcome that a reader sees.
Seen(D, o) == [b \in BasisStates |-> D[b][b] * Likelihood(b, o)]

\* The outcome of the distinct results in a basis state.
Results(b) == [leaf \in UniqueLeaves |-> TrueBit(leaf, b)]

LEMMA TrueReportIs ==
    ASSUME NEW o \in Outcomes(leaves)
    PROVE  TrueReport[o] = Sum(Seen(Mixture(Len(circuit)), o), BasisStates)
<1> DEFINE M == Mixture(Len(circuit))
           S == BasisStates
           Next(g) == [s \in SUBSET S |-> IF s = {} THEN 0
                                          ELSE LET b == CHOOSE b \in s : TRUE
                                               IN  (M[b][b] * Likelihood(b, o)) + g[s \ {b}]]
<1>1. TrueReport[o] = (CHOOSE g : g = Next(g))[S]
  BY DEF TrueReport, MapThenSumSet, MapThenFoldSet
<1>2. ASSUME NEW g PROVE Next(g) = SumStep(Seen(M, o), S, g)
  <2>1. \A b \in S : Seen(M, o)[b] = M[b][b] * Likelihood(b, o)
    BY DEF Seen
  <2> HIDE DEF S, M
  <2>2. ASSUME NEW s \in SUBSET S PROVE Next(g)[s] = SumStep(Seen(M, o), S, g)[s]
    BY <2>1 DEF SumStep
  <2>3. QED BY <2>2 DEF SumStep
<1> HIDE DEF Next
<1>3. (CHOOSE g : g = Next(g)) = (CHOOSE g : g = SumStep(Seen(M, o), S, g))
  BY <1>2
<1>4. QED BY <1>1, <1>3 DEF Sum

\* Without a channel a reader sees the leaves' bits.
LEMMA SeenWithoutChannel ==
    ASSUME Arguments, leaves \in Leaves(circuit), channel = NoEvidence,
           NEW b \in BasisStates, NEW o \in Outcomes(leaves)
    PROVE  Likelihood(b, o) = IF b \in Having(LeafSlots, o) THEN 1 ELSE 0
<1>0. ReadoutFits
  BY DEF ReadoutFits
<1>1. Likelihood(b, o) = Product(Readings(b, o), DOMAIN leaves)
  BY <1>0, LikelihoodIs
<1>2. \A i \in DOMAIN leaves :
         Readings(b, o)[i] = IF TrueBit(leaves[i], b) = o[i] THEN 1 ELSE 0
  BY <1>0, ReadingFacts
<1>3. IsFiniteSet(DOMAIN leaves)
  BY LeafFacts, FS_Interval
<1>4. Product(Readings(b, o), DOMAIN leaves)
        = IF \A i \in DOMAIN leaves : Readings(b, o)[i] = 1 THEN 1 ELSE 0
  BY <1>2, <1>3, ProductOfBits
<1>5. b \in Having(LeafSlots, o) <=> \A i \in DOMAIN leaves : TrueBit(leaves[i], b) = o[i]
  <2>1. Outcome(b, LeafSlots) = [i \in DOMAIN leaves |-> TrueBit(leaves[i], b)]
    BY LeafFacts DEF Outcome, TrueBit
  <2>2. o = [i \in DOMAIN leaves |-> o[i]]
    BY DEF Outcomes
  <2>3. QED BY <2>1, <2>2 DEF Having
<1>6. QED BY <1>1, <1>2, <1>4, <1>5

LEMMA SeenIsInt ==
    ASSUME Arguments, leaves \in Leaves(circuit), ReadoutFits, NEW D \in Densities,
           NEW o \in Outcomes(leaves)
    PROVE  \A b \in BasisStates : Seen(D, o)[b] = D[b][b] * Likelihood(b, o)
                                  /\ Seen(D, o)[b] \in Int /\ D[b][b] \in Int
                                  /\ Likelihood(b, o) \in Int
<1> SUFFICES ASSUME NEW b \in BasisStates
             PROVE  Seen(D, o)[b] = D[b][b] * Likelihood(b, o)
                    /\ Seen(D, o)[b] \in Int /\ D[b][b] \in Int /\ Likelihood(b, o) \in Int
  OBVIOUS
<1>1. D[b][b] \in Int
  BY DEF Densities, States
<1>2. Likelihood(b, o) \in Int
  BY LikelihoodIs
<1>3. QED BY <1>1, <1>2 DEF Seen

LEMMA ReportWithoutChannel ==
    ASSUME Arguments, leaves \in Leaves(circuit), channel = NoEvidence,
           NEW D \in Densities, NEW o \in Outcomes(leaves)
    PROVE  Project(UniqueWeights(D))[o] = Sum(Seen(D, o), BasisStates)
<1> DEFINE H == Having(LeafSlots, o)
<1>1. H \in SUBSET BasisStates /\ IsFiniteSet(BasisStates) /\ IsFiniteSet(H)
  <2>1. H \in SUBSET BasisStates
    BY DEF Having
  <2>2. QED BY <2>1, BasisIsFinite, FS_Subset
<1>2. \A b \in BasisStates : /\ Seen(D, o)[b] = D[b][b] * Likelihood(b, o)
                             /\ Seen(D, o)[b] \in Int /\ D[b][b] \in Int
  BY SeenIsInt DEF ReadoutFits
<1>3. \A b \in BasisStates : Likelihood(b, o) = IF b \in H THEN 1 ELSE 0
  BY SeenWithoutChannel
<1> HIDE DEF H
<1>4. \A b \in BasisStates \ H : Seen(D, o)[b] = 0
  BY <1>2, <1>3
<1>5. \A b \in H : Seen(D, o)[b] = Diagonal(D)[b] /\ Diagonal(D)[b] \in Int
  BY <1>1, <1>2, <1>3 DEF Diagonal
<1>6. Sum(Seen(D, o), BasisStates) = Sum(Seen(D, o), H)
  BY <1>1, <1>2, <1>4, SumOfPart
<1>7. Sum(Seen(D, o), H) = Sum(Diagonal(D), H)
  BY <1>1, <1>5, SumEqual
<1>8. QED BY <1>6, <1>7, SpreadIsJoint DEF H

\* Leaves that repeat no result have every outcome from one of the results.
LEMMA SpreadOfDistinct ==
    ASSUME Arguments, leaves \in Leaves(circuit), IsInjective(leaves), NEW o \in Outcomes(leaves)
    PROVE  \E u \in UniqueOutcomes : /\ Spread(o) = {u}
                                     /\ \A i \in DOMAIN leaves : u[leaves[i]] = o[i]
<1> DEFINE place(leaf) == CHOOSE i \in DOMAIN leaves : leaves[i] = leaf
           u == [leaf \in UniqueLeaves |-> o[place(leaf)]]
<1>1. /\ UniqueLeaves = {leaves[i] : i \in DOMAIN leaves}
      /\ \A i \in DOMAIN leaves : leaves[i] \in UniqueLeaves
  BY LeafFacts
<1>2. \A leaf \in UniqueLeaves : place(leaf) \in DOMAIN leaves /\ leaves[place(leaf)] = leaf
  BY <1>1
<1>3. \A i \in DOMAIN leaves : place(leaves[i]) = i
  BY <1>1, <1>2 DEF IsInjective
<1> HIDE DEF place
<1>4. u \in UniqueOutcomes
  BY <1>2 DEF UniqueOutcomes, Outcomes
<1>5. \A i \in DOMAIN leaves : u[leaves[i]] = o[i]
  BY <1>1, <1>3
<1> HIDE DEF u
<1>6. u \in Spread(o)
  BY <1>4, <1>5 DEF Spread
<1>7. Spread(o) = {u}
  BY <1>6, SpreadFacts
<1>8. QED BY <1>4, <1>5, <1>7

\* ... and the chance of a joint report is the product of what each leaf is seen as.
LEMMA SeenThroughChannel ==
    ASSUME Arguments, leaves \in Leaves(circuit), IsInjective(leaves), IsReadout,
           channel # NoEvidence, NEW o \in Outcomes(leaves), NEW u \in UniqueOutcomes,
           \A i \in DOMAIN leaves : u[leaves[i]] = o[i], NEW b \in BasisStates
    PROVE  /\ Results(b) \in UniqueOutcomes
           /\ Likelihood(b, o) = Conditional(u, Results(b)) /\ Likelihood(b, o) \in Int
<1> DEFINE a == Results(b)
           S == DOMAIN leaves
           f == Readings(b, o)
           g == Picked(Chances(a), u, UniqueLeaves)
<1>1. a \in UniqueOutcomes
  BY DEF Results, UniqueOutcomes, TrueBit
<1>2. ReadoutFits
  BY DEF ReadoutFits
<1>3. Likelihood(b, o) = Product(f, S) /\ Likelihood(b, o) \in Int
  BY <1>2, LikelihoodIs
<1>4. Conditional(u, a) = Products(Chances(a), UniqueLeaves)[u]
  BY <1>1, ConditionalIs
<1>5. /\ IsFiniteSet(UniqueLeaves) /\ u \in Bits(UniqueLeaves)
      /\ \A leaf \in UniqueLeaves : /\ Chances(a)[leaf][0] \in Int
                                    /\ Chances(a)[leaf][1] \in Int
                                    /\ Chances(a)[leaf] = channel[a[leaf]]
  BY <1>1, UniqueOutcomesAre, ChanceFacts
<1>6. /\ \A leaf \in UniqueLeaves : g[leaf] = Chances(a)[leaf][u[leaf]]
      /\ Products(Chances(a), UniqueLeaves)[u] = Product(g, UniqueLeaves)
  <2> DEFINE m == Chances(a)
             L == UniqueLeaves
  <2>1. IsFiniteSet(L) /\ u \in Bits(L) /\ \A x \in L : m[x][0] \in Int /\ m[x][1] \in Int
    BY <1>5
  <2> HIDE DEF a, m, L
  <2>2. /\ \A x \in L : Picked(m, u, L)[x] = m[x][u[x]]
        /\ Products(m, L)[u] = Product(Picked(m, u, L), L)
    BY <2>1, PickedFacts
  <2>3. QED BY <2>2 DEF m, L
<1>7. /\ IsFiniteSet(S) /\ UniqueLeaves = {leaves[i] : i \in S}
      /\ \A i \in S : leaves[i] \in UniqueLeaves
  BY LeafFacts, FS_Interval
<1>8. \A i \in S : a[leaves[i]] = TrueBit(leaves[i], b)
  BY <1>7 DEF Results
<1>9. \A i \in S : f[i] \in Int /\ f[i] = channel[TrueBit(leaves[i], b)][o[i]]
  BY <1>2, ReadingFacts
<1> HIDE DEF a, f, g
<1>10. ASSUME NEW i \in S PROVE g[leaves[i]] = f[i]
  <2>1. g[leaves[i]] = channel[a[leaves[i]]][u[leaves[i]]]
    BY <1>5, <1>6, <1>7
  <2>2. u[leaves[i]] = o[i]
    OBVIOUS
  <2>3. QED BY <1>8, <1>9, <2>1, <2>2
<1>11. Reindexes(S, f, g, leaves)
  BY <1>9, <1>10 DEF Reindexes, IsInjective
<1>12. Product(g, UniqueLeaves) = Product(f, S)
  <2>1. Product(g, {leaves[i] : i \in S}) = Product(f, S)
    BY <1>7, <1>11, ProductImage
  <2>2. QED BY <1>7, <2>1
<1>13. QED BY <1>1, <1>3, <1>4, <1>6, <1>12 DEF a

LEMMA ReportThroughChannel ==
    ASSUME Arguments, leaves \in Leaves(circuit), IsInjective(leaves), IsReadout,
           channel # NoEvidence, NEW D \in Densities, NEW o \in Outcomes(leaves)
    PROVE  Project(ApplyReadout(UniqueWeights(D)))[o] = Sum(Seen(D, o), BasisStates)
<1> DEFINE w == UniqueWeights(D)
           f == Seen(D, o)
           k == [b \in BasisStates |-> Results(b)]
<1>1. PICK u \in UniqueOutcomes : /\ Spread(o) = {u}
                                  /\ \A i \in DOMAIN leaves : u[leaves[i]] = o[i]
  BY SpreadOfDistinct
<1> DEFINE h == Reports(w, u)
<1>2. DOMAIN w = UniqueOutcomes
  BY DEF UniqueWeights
<1>3. \A b \in BasisStates : /\ Results(b) \in UniqueOutcomes
                             /\ Likelihood(b, o) = Conditional(u, Results(b))
                             /\ Likelihood(b, o) \in Int
  BY <1>1, SeenThroughChannel
<1>4. \A b \in BasisStates : /\ f[b] = D[b][b] * Likelihood(b, o)
                             /\ f[b] \in Int /\ D[b][b] \in Int
  BY SeenIsInt DEF ReadoutFits
<1>5. ASSUME NEW a \in UniqueOutcomes PROVE h[a] = Sum(f, {b \in BasisStates : k[b] = a})
  <2> DEFINE S == {b \in BasisStates : k[b] = a}
             c == Conditional(u, a)
  <2>1. S = Matching(a)
    <3>1. ASSUME NEW b \in BasisStates PROVE b \in Matching(a) <=> k[b] = a
      <4>1. b \in Matching(a) <=> \A leaf \in UniqueLeaves : a[leaf] = TrueBit(leaf, b)
        BY DEF Matching, TrueBit
      <4>2. a = [leaf \in UniqueLeaves |-> a[leaf]]
        BY DEF UniqueOutcomes
      <4>3. k[b] = [leaf \in UniqueLeaves |-> TrueBit(leaf, b)]
        BY DEF Results
      <4> HIDE DEF k
      <4>4. QED BY <4>1, <4>2, <4>3
    <3> HIDE DEF k
    <3>2. Matching(a) \subseteq BasisStates
      BY DEF Matching
    <3>3. QED BY <3>1, <3>2
  <2>2. h[a] = w[a] * c
    BY DEF Reports
  <2>3. w[a] = Sum(Diagonal(D), S)
    BY <2>1, UniqueWeightsIs
  <2>4. IsFiniteSet(S) /\ S \subseteq BasisStates
    BY BasisIsFinite, FS_Subset
  <2>5. \A b \in S : f[b] = D[b][b] * c /\ D[b][b] \in Int /\ Diagonal(D)[b] = D[b][b]
    BY <1>3, <1>4 DEF Diagonal
  <2> HIDE DEF w, f, k, S
  <2>6. CASE S = {}
    <3>1. Sum(Diagonal(D), S) = 0 /\ Sum(f, S) = 0
      BY <2>6, SumEmpty
    <3>2. c \in Int
      <4>1. IsFiniteSet(UniqueLeaves) /\ u \in Bits(UniqueLeaves)
        BY UniqueOutcomesAre
      <4>2. \A leaf \in UniqueLeaves : Chances(a)[leaf][0] \in Int /\ Chances(a)[leaf][1] \in Int
        BY ChanceFacts
      <4>3. Products(Chances(a), UniqueLeaves)[u] \in Int
        BY <4>1, <4>2, PickedFacts
      <4>4. QED BY <4>3, ConditionalIs
    <3> HIDE DEF c, h
    <3>3. h[a] = 0
      BY <2>2, <2>3, <3>1, <3>2
    <3>4. QED BY <3>1, <3>3 DEF S
  <2>7. CASE S # {}
    <3>1. c \in Int
      <4>1. PICK b \in S : TRUE
        BY <2>7
      <4>2. b \in BasisStates /\ k[b] = a
        BY DEF S
      <4>3. Results(b) = a
        BY <4>2 DEF k
      <4>4. QED BY <1>3, <4>2, <4>3
    <3> HIDE DEF c, h
    <3>2. \A b \in S : Diagonal(D)[b] \in Int /\ f[b] = c * Diagonal(D)[b] + 0 * Diagonal(D)[b]
      <4>1. \A x, y \in Int : x * y = y * x + 0 * x
        OBVIOUS
      <4>2. QED BY <2>5, <3>1, <4>1
    <3>3. Sum(f, S) = c * Sum(Diagonal(D), S) + 0 * Sum(Diagonal(D), S)
      BY <2>4, <3>1, <3>2, SumCombination
    <3>4. Sum(Diagonal(D), S) \in Int
      BY <2>4, <3>2, SumIsInt
    <3>5. \A x, y \in Int : x * y = y * x + 0 * x
      OBVIOUS
    <3>6. h[a] = Sum(f, S)
      BY <2>2, <2>3, <3>1, <3>3, <3>4, <3>5
    <3>7. QED BY <3>6 DEF S
  <2>8. QED BY <2>6, <2>7
<1>6. \A b \in BasisStates : k[b] \in UniqueOutcomes
  BY <1>3
<1> HIDE DEF f, k, h
<1>7. Groups(BasisStates, UniqueOutcomes, f, k, h)
  BY <1>4, <1>5, <1>6 DEF Groups
<1>8. Sum(f, BasisStates) = Sum(h, UniqueOutcomes)
  BY <1>7, BasisIsFinite, UniqueOutcomesAre, SumFibres
<1>9. ApplyReadout(w)[u] = Sum(h, UniqueOutcomes)
  <2> HIDE DEF w
  <2>1. QED BY <1>2, ReadoutIs DEF h
<1>10. Project(ApplyReadout(w))[o] = Sum(ApplyReadout(w), {u})
  BY <1>1, ProjectIs
<1>11. ApplyReadout(w)[u] \in Int
  <2>1. Sum(f, BasisStates) \in Int
    BY <1>4, BasisIsFinite, SumIsInt
  <2>2. QED BY <1>8, <1>9, <2>1
<1>12. Sum(ApplyReadout(w), {u}) = ApplyReadout(w)[u]
  BY <1>11, SumOfOne
<1>13. QED BY <1>8, <1>9, <1>10, <1>12 DEF f, w

LEMMA ReportsAreInt ==
    ASSUME Arguments, leaves \in Leaves(circuit), IsReadout, density \in Densities
    PROVE  \A u \in UniqueOutcomes : ApplyReadout(UniqueWeights(density))[u] \in Int
<1> DEFINE w == UniqueWeights(density)
           after == ApplyReadout(w)
<1>1. DOMAIN w = UniqueOutcomes /\ \A u \in UniqueOutcomes : w[u] \in Int
  BY WeightsOfResults
<1> HIDE DEF w
<1> SUFFICES ASSUME NEW u \in UniqueOutcomes PROVE after[u] \in Int
  BY DEF w
<1>2. after[u] = Sum(Reports(w, u), UniqueOutcomes)
  BY <1>1, ReadoutIs
<1>3. ASSUME NEW a \in UniqueOutcomes PROVE Reports(w, u)[a] \in Int
  <2>1. Reports(w, u)[a] = w[a] * Conditional(u, a)
    BY DEF Reports
  <2>2. Conditional(u, a) \in Int
    <3>1. \A leaf \in UniqueLeaves : /\ Chances(a)[leaf][0] \in Int
                                     /\ Chances(a)[leaf][1] \in Int
      BY ChanceFacts
    <3>2. u \in Bits(UniqueLeaves) /\ IsFiniteSet(UniqueLeaves)
      BY UniqueOutcomesAre
    <3>3. Products(Chances(a), UniqueLeaves)[u] \in Int
      BY <3>1, <3>2, PickedFacts
    <3>4. QED BY <3>3, ConditionalIs
  <2>3. QED BY <1>1, <2>1, <2>2
<1>4. IsFiniteSet(UniqueOutcomes)
  BY UniqueOutcomesAre
<1>5. Sum(Reports(w, u), UniqueOutcomes) \in Int
  BY <1>3, <1>4, SumIsInt
<1>6. QED BY <1>2, <1>5

\* The product of the chances is a chance.
LEMMA ProductOfNaturals ==
    ASSUME NEW S, IsFiniteSet(S), NEW f, \A x \in S : f[x] \in Nat
    PROVE  Product(f, S) \in Nat
<1> DEFINE P == {s \in SUBSET S : Product(f, s) \in Nat}
<1>1. {} \in P
  BY ProductEmpty
<1>2. ASSUME NEW s \in SUBSET S, NEW x \in S \ s, s \in P PROVE s \union {x} \in P
  <2>1. IsFiniteSet(s) /\ \A y \in s \union {x} : f[y] \in Int
    BY FS_Subset
  <2>2. Product(f, s \union {x}) = f[x] * Product(f, s)
    BY <2>1, ProductAdd
  <2>3. f[x] \in Nat /\ Product(f, s) \in Nat
    BY <1>2
  <2>4. \A i, j \in Nat : i * j \in Nat
    OBVIOUS
  <2>5. QED BY <2>2, <2>3, <2>4
<1> HIDE DEF P
<1>3. S \in P
  BY <1>1, <1>2, SubsetInduction
<1>4. QED BY <1>3 DEF P

\* A circuit's run with a channel, or without.
LEMMA ChannelFits == ASSUME RunIInv PROVE ReadoutFits /\ (channel # NoEvidence => IsReadout)
<1>1. channel \in ReadoutChannels \union {NoEvidence}
  BY DEF RunIInv, PublishIInv
<1>2. channel # NoEvidence => IsReadout
  BY <1>1, ReadoutChannelsAreStochastic DEF IsReadout, Total
<1>3. QED BY <1>2 DEF ReadoutFits

\* What a reader is to be told is a weight, and a weight of every outcome.
LEMMA BelievedIs ==
    ASSUME RunIInv, status = "published", Engine = "density", leaves # <<>>
    PROVE  /\ Truth \in [Outcomes(leaves) -> Nat] /\ TrueReport \in [Outcomes(leaves) -> Nat]
           /\ IsFiniteSet(Outcomes(leaves))
<1> DEFINE M == Mixture(Len(circuit))
<1>1. Arguments /\ leaves \in Leaves(circuit) /\ Len(circuit) \in Nat
  BY PublishedFacts, ArgumentFacts
<1>2. Truth \in [Outcomes(leaves) -> Nat]
  BY DensityPublishes
<1>3. ASSUME NEW o \in Outcomes(leaves) PROVE TrueReport[o] \in Nat
  <2>1. TrueReport[o] = Sum(Seen(M, o), BasisStates)
    BY TrueReportIs
  <2>2. ASSUME NEW b \in BasisStates PROVE Seen(M, o)[b] \in Nat
    <3>1. M[b][b] \in Nat
      BY <1>1, MixtureDiagonal
    <3>2. \A i \in DOMAIN leaves : Readings(b, o)[i] \in Nat
      <4> SUFFICES ASSUME NEW i \in DOMAIN leaves PROVE Readings(b, o)[i] \in Nat
        OBVIOUS
      <4>1. TrueBit(leaves[i], b) \in {0, 1} /\ o[i] \in {0, 1}
        BY DEF TrueBit, Outcomes
      <4>2. channel # NoEvidence => channel[TrueBit(leaves[i], b)][o[i]] \in Nat
        BY <4>1, ChannelFits DEF IsReadout
      <4>3. /\ channel = NoEvidence =>
                  Readings(b, o)[i] = IF TrueBit(leaves[i], b) = o[i] THEN 1 ELSE 0
            /\ channel # NoEvidence =>
                  Readings(b, o)[i] = channel[TrueBit(leaves[i], b)][o[i]]
        BY ReadingFacts, ChannelFits
      <4>4. QED BY <4>2, <4>3
    <3>3. IsFiniteSet(DOMAIN leaves)
      BY <1>1, LeafFacts, FS_Interval
    <3>4. Product(Readings(b, o), DOMAIN leaves) \in Nat
      BY <3>2, <3>3, ProductOfNaturals
    <3>5. Likelihood(b, o) \in Nat
      BY <1>1, <3>4, ChannelFits, LikelihoodIs
    <3>6. \A i, j \in Nat : i * j \in Nat
      OBVIOUS
    <3>7. QED BY <3>1, <3>5, <3>6 DEF Seen
  <2>3. QED BY <2>1, <2>2, BasisIsFinite, SumOfNaturals
<1>4. DOMAIN TrueReport = Outcomes(leaves) /\ TrueReport = [o \in Outcomes(leaves) |-> TrueReport[o]]
  BY DEF TrueReport
<1>5. IsFiniteSet(Outcomes(leaves))
  <2>1. IsFiniteSet(DOMAIN leaves)
    BY <1>1, LeafFacts, FS_Interval
  <2>2. Outcomes(leaves) = Bits(DOMAIN leaves)
    BY DEF Bits, Outcomes
  <2>3. QED BY <2>1, <2>2, BitsAreFinite
<1>6. QED BY <1>2, <1>3, <1>4, <1>5

LEMMA ReportedFacts ==
    ASSUME RunIInv, status = "published", Engine = "density", leaves # <<>>
    PROVE  Reported \in [Outcomes(leaves) -> Int]
<1> DEFINE w == UniqueWeights(density)
<1>1. /\ Arguments /\ leaves \in Leaves(circuit) /\ density \in Densities
      /\ Project(w) = Truth /\ Truth \in [Outcomes(leaves) -> Nat]
  BY PublishedFacts, DensityPublishes
<1>2. ReadoutFits /\ (channel # NoEvidence => IsReadout)
  BY ChannelFits
<1>3. CASE channel = NoEvidence
  BY <1>1, <1>3 DEF Reported
<1>4. CASE channel # NoEvidence
  <2>1. Reported = Project(ApplyReadout(w))
    BY <1>4 DEF Reported
  <2>2. \A u \in UniqueOutcomes : ApplyReadout(w)[u] \in Int
    BY <1>1, <1>2, <1>4, ReportsAreInt
  <2> HIDE DEF w
  <2>3. ASSUME NEW o \in Outcomes(leaves) PROVE Project(ApplyReadout(w))[o] \in Int
    <3>1. Spread(o) \subseteq UniqueOutcomes
      BY DEF Spread
    <3>2. IsFiniteSet(Spread(o))
      BY <1>1, <3>1, UniqueOutcomesAre, FS_Subset
    <3>3. Sum(ApplyReadout(w), Spread(o)) \in Int
      BY <2>2, <3>1, <3>2, SumIsInt
    <3>4. QED BY <3>3, ProjectIs
  <2>4. \A x : Project(x) = [o \in Outcomes(leaves) |-> Project(x)[o]]
    BY DEF Project
  <2>5. Project(ApplyReadout(w)) = [o \in Outcomes(leaves) |-> Project(ApplyReadout(w))[o]]
    BY <2>4
  <2>6. QED BY <2>1, <2>3, <2>5
<1>5. QED BY <1>3, <1>4

\* The two published distributions are what a reader of them believes.
LEMMA PublishedAreBelieved ==
    ASSUME RunIInv, status = "published", Engine = "density", leaves # <<>>
    PROVE  /\ output # NoEvidence /\ output.physical = Truth
           /\ IsInjective(leaves) => output.reported = TrueReport
<1> DEFINE w == UniqueWeights(density)
<1>1. /\ Arguments /\ leaves \in Leaves(circuit) /\ density \in Densities
      /\ output = [physical |-> Project(w), reported |-> Reported]
      /\ output.physical = Truth /\ Truth \in [Outcomes(leaves) -> Nat]
  BY PublishedFacts, DensityPublishes
<1>2. density = Mixture(Len(circuit))
  <2>1. density = Mixture(pc - 1)
    BY DEF RunIInv, ExecutionIInv, DensityIsMixture
  <2>2. QED BY <2>1, PublishedFacts
<1>3. ReadoutFits /\ (channel # NoEvidence => IsReadout)
  BY ChannelFits
<1>4. Reported \in [Outcomes(leaves) -> Int]
  BY ReportedFacts
<1>5. output # NoEvidence
  <2>1. output \in [physical : [Outcomes(leaves) -> Int], reported : [Outcomes(leaves) -> Int]]
    BY <1>1, <1>4
  <2>2. circuit \in Circuits
    BY <1>1 DEF Arguments
  <2>3. QED BY <1>1, <2>1, <2>2, OutputsAreEvidence
<1>6. ASSUME IsInjective(leaves) PROVE Reported = TrueReport
  <2>1. ASSUME NEW o \in Outcomes(leaves) PROVE Reported[o] = TrueReport[o]
    <3>1. TrueReport[o] = Sum(Seen(density, o), BasisStates)
      BY <1>2, TrueReportIs
    <3>2. CASE channel = NoEvidence
      BY <1>1, <3>1, <3>2, ReportWithoutChannel DEF Reported
    <3>3. CASE channel # NoEvidence
      BY <1>1, <1>3, <1>6, <3>1, <3>3, ReportThroughChannel DEF Reported
    <3>4. QED BY <3>2, <3>3
  <2>2. TrueReport = [o \in Outcomes(leaves) |-> TrueReport[o]]
    BY DEF TrueReport
  <2>3. Reported = [o \in Outcomes(leaves) |-> Reported[o]]
    BY <1>4
  <2>4. QED BY <2>1, <2>2, <2>3
<1>7. QED BY <1>1, <1>5, <1>6

-----------------------------------------------------------------------------
(* What the reports say.                                                     *)

\* What a question is answered from, after it was asked.
Chosen == IF question.kind = "physical" THEN output.physical ELSE output.reported

Missed ==
    <<WeightOf(Chosen) - SuccessWeight(Chosen, question.acceptance.outcomes), WeightOf(Chosen)>>

Answer ==
    IF quantum \/ ~ HasDistributions THEN "unsupported"
    ELSE IF CircuitIssues # {} THEN "incomplete"
    ELSE IF question.goal.confident THEN "indeterminate" ELSE "supported"

Answered ==
    /\ provenance # NoEvidence /\ WellFormed(question)
    /\ bare.status = Answer
    /\ Answer # "unsupported" => /\ bare.failure = Missed
                                 /\ question.acceptance.arity = Len(leaves)
                                 /\ IsInjective(leaves)
    /\ bare.verdict = IF Answer = "supported" THEN Verdict(Missed, question.goal.maximum)
                      ELSE "not evaluated"

\* The reports are of the run that has ended, and keep what they were built from.
EvidenceIInv ==
    /\ provenance # NoEvidence => /\ status = "published" /\ Engine = "density"
                                  /\ provenance.coverage.issues = CircuitIssues
    /\ bare # NoEvidence => Answered
    /\ need # NoEvidence => need = NeedReport

\* The place of an outcome tells it from the others, so that the accepted weight is
\* the weight of the accepted outcomes.
LEMMA MissedIs ==
    ASSUME Arguments, leaves \in Leaves(circuit), IsFiniteSet(Outcomes(leaves)),
           NEW x \in [Outcomes(leaves) -> Nat], NEW outcomes,
           outcomes \subseteq [1 .. Len(leaves) -> {0, 1}]
    PROVE  /\ WeightOf(x) = Sum(x, Outcomes(leaves)) /\ WeightOf(x) \in Nat
           /\ WeightOf(x) - SuccessWeight(x, outcomes)
                = Sum(x, {o \in Outcomes(leaves) : o \notin outcomes})
<1> DEFINE S == Outcomes(leaves)
           T == {o \in S : OutcomeIndex(o) \in AcceptedIndices(outcomes)}
           n == Len(leaves)
<1>1. n \in Nat /\ S = Bits(1 .. n) /\ outcomes \subseteq S
  BY LeafFacts DEF Bits, Outcomes
<1>2. DOMAIN x = S /\ \A o \in S : x[o] \in Nat
  OBVIOUS
<1>3. WeightOf(x) = Sum(x, S) /\ SuccessWeight(x, outcomes) = Sum(x, T)
  <2>1. WeightOf(x) = Sum(x, DOMAIN x)
    BY MarginalIs DEF WeightOf
  <2>2. SuccessWeight(x, outcomes)
          = Sum(x, {o \in DOMAIN x : OutcomeIndex(o) \in AcceptedIndices(outcomes)})
    BY MarginalIs DEF SuccessWeight
  <2>3. QED BY <1>2, <2>1, <2>2
<1> HIDE DEF n, S
<1>4. \A o \in S : OutcomeIndex(o) \in AcceptedIndices(outcomes) <=> o \in outcomes
  <2> SUFFICES ASSUME NEW o \in S, OutcomeIndex(o) \in AcceptedIndices(outcomes)
               PROVE  o \in outcomes
    BY DEF AcceptedIndices
  <2>1. PICK p \in outcomes : OutcomeIndex(o) = OutcomeIndex(p)
    BY DEF AcceptedIndices
  <2>2. o \in Bits(1 .. n) /\ p \in Bits(1 .. n)
    BY <1>1
  <2>3. o = p
    BY <1>1, <2>1, <2>2, IndexIsInjective
  <2>4. QED BY <2>3
<1>5. S \ T = {o \in S : o \notin outcomes} /\ T \in SUBSET S
  BY <1>4
<1> HIDE DEF T
<1>6. IsFiniteSet(S) /\ \A o \in S : x[o] \in Int
  BY <1>2 DEF S
<1>7. Sum(x, S) = Sum(x, T) + Sum(x, S \ T) /\ Sum(x, T) \in Int /\ Sum(x, S \ T) \in Int
  BY <1>5, <1>6, SumOfParts
<1>8. Sum(x, S) \in Nat
  BY <1>2, <1>6, SumOfNaturals
<1>9. \A i, j, k \in Int : i = j + k => i - j = k
  OBVIOUS
<1>10. Sum(x, S) - Sum(x, T) = Sum(x, S \ T)
  BY <1>7, <1>8, <1>9
<1>11. QED BY <1>3, <1>5, <1>8, <1>10 DEF S

LEMMA ChosenIsBelieved ==
    ASSUME RunIInv, status = "published", Engine = "density", leaves # <<>>, IsInjective(leaves),
           WellFormed(question), question.acceptance.arity = Len(leaves)
    PROVE  /\ Missed = <<Rejected(Believed), WeightOf(Believed)>>
           /\ Rejected(Believed) \in Int /\ WeightOf(Believed) \in Nat
<1> DEFINE outcomes == question.acceptance.outcomes
           S == {o \in Outcomes(leaves) : o \notin outcomes}
<1>1. Arguments /\ leaves \in Leaves(circuit)
  BY PublishedFacts
<1>2. IsFiniteSet(Outcomes(leaves)) /\ Believed \in [Outcomes(leaves) -> Nat]
  BY BelievedIs DEF Believed
<1>3. Chosen = Believed
  BY PublishedAreBelieved DEF Chosen, Believed
<1>4. outcomes \subseteq [1 .. Len(leaves) -> {0, 1}]
  BY DEF WellFormed
<1>5. Rejected(Believed) = Sum(Believed, S)
  <2>1. Rejected(Believed) = Sum(Believed, {o \in DOMAIN Believed : o \notin outcomes})
    BY MarginalIs DEF Rejected
  <2>2. DOMAIN Believed = Outcomes(leaves)
    BY <1>2
  <2>3. QED BY <2>1, <2>2
<1>6. Sum(Believed, S) \in Int
  <2>1. IsFiniteSet(S) /\ \A o \in S : Believed[o] \in Int
    BY <1>2, FS_Subset
  <2>2. QED BY <2>1, SumIsInt
<1>7. /\ WeightOf(Believed) \in Nat
      /\ WeightOf(Believed) - SuccessWeight(Believed, outcomes) = Sum(Believed, S)
  BY <1>1, <1>2, <1>4, MissedIs
<1> HIDE DEF S
<1>8. Missed = <<WeightOf(Believed) - SuccessWeight(Believed, outcomes), WeightOf(Believed)>>
  BY <1>3 DEF Missed
<1>9. QED BY <1>5, <1>6, <1>7, <1>8

-----------------------------------------------------------------------------
(* Fractions.  The tolerance is never given to the program.                  *)

IsFraction(p) == p[1] \in Int /\ p[2] \in Nat

LEMMA VerdictIs ==
    ASSUME NEW p, IsFraction(p), NEW q, q \in Nat \X Nat
    PROVE  /\ Verdict(p, q) = "satisfied" => Exceeds(q, p)
           /\ Verdict(p, q) = "violated" => Exceeds(p, q)
           /\ Verdict(p, q) = "violated" <=> Above(p, q, 1)
           /\ Verdict(p, q) = "not evaluated" => ~ Above(p, q, 1) /\ ~ Below(p, q, -1)
<1> DEFINE f == p[1]
           w == p[2]
           g == q[1]
           h == q[2]
           t == Tolerance[1]
           u == Tolerance[2]
<1>1. f \in Int /\ w \in Nat /\ g \in Nat /\ h \in Nat /\ t \in Nat /\ u \in Nat /\ u > 0
  BY ToleranceAssumption DEF IsFraction
<1>2. /\ Above(p, q, 1) <=> f * h * u > w * (g * u + 1 * t * h)
      /\ Below(p, q, -1) <=> f * h * u < w * (g * u + (-1) * t * h)
      /\ Exceeds(q, p) <=> g * w > f * h
      /\ Exceeds(p, q) <=> f * h > g * w
  BY DEF Above, Below, Exceeds
<1> HIDE DEF f, w, g, h, t, u
<1> DEFINE a == f * h
           b == g * w
           c == w * (t * h)
<1>3. a \in Int /\ b \in Nat /\ c \in Nat
  <2>1. \A i, j \in Nat : i * j \in Nat
    OBVIOUS
  <2>2. t * h \in Nat
    BY <1>1, <2>1
  <2>3. \A i \in Int : \A j \in Nat : i * j \in Int
    OBVIOUS
  <2>4. QED BY <1>1, <2>1, <2>2, <2>3
<1>4. /\ w * (g * u + 1 * t * h) = b * u + c
      /\ w * (g * u + (-1) * t * h) = b * u - c
  <2>1. \A i, j, k, l, m \in Int : /\ i * (j * k + 1 * l * m) = (j * i) * k + i * (l * m)
                                   /\ i * (j * k + (-1) * l * m) = (j * i) * k - i * (l * m)
    OBVIOUS
  <2>2. w \in Int /\ g \in Int /\ u \in Int /\ t \in Int /\ h \in Int
    BY <1>1
  <2>3. QED BY <2>1, <2>2
<1> HIDE DEF a, b, c
<1>5. \A i, j \in Int : \A k, l \in Nat : l > 0 => /\ i * l > j * l + k => i > j
                                                   /\ i * l < j * l - k => i < j
                                                   /\ i * l > j * l + k => ~ (i * l < j * l - k)
  <2> SUFFICES ASSUME NEW i \in Int, NEW j \in Int, NEW k \in Nat, NEW l \in Nat, l > 0
               PROVE  /\ i * l > j * l + k => i > j
                      /\ i * l < j * l - k => i < j
                      /\ i * l > j * l + k => ~ (i * l < j * l - k)
    OBVIOUS
  <2>1. i * l \in Int /\ j * l \in Int
    OBVIOUS
  <2>2. i <= j => i * l <= j * l
    OBVIOUS
  <2>3. j <= i => j * l <= i * l
    OBVIOUS
  <2> DEFINE x == i * l
             y == j * l
  <2>4. x \in Int /\ y \in Int /\ (i <= j => x <= y) /\ (j <= i => y <= x)
    BY <2>1, <2>2, <2>3
  <2> HIDE DEF x, y
  <2>5. (x > y + k => i > j) /\ (x < y - k => i < j) /\ (x > y + k => ~ (x < y - k))
    BY <2>4
  <2>6. QED BY <2>5 DEF x, y
<1>6. /\ Above(p, q, 1) <=> a * u > b * u + c
      /\ Below(p, q, -1) <=> a * u < b * u - c
      /\ Exceeds(q, p) <=> b > a
      /\ Exceeds(p, q) <=> a > b
  BY <1>2, <1>4 DEF a, b
<1>7. /\ Above(p, q, 1) => Exceeds(p, q) /\ ~ Below(p, q, -1)
      /\ Below(p, q, -1) => Exceeds(q, p)
  <2>1. b \in Int /\ (a < b <=> b > a)
    BY <1>3
  <2>2. QED BY <1>1, <1>3, <1>5, <1>6, <2>1
<1>8. QED BY <1>7 DEF Verdict

\* The distance to the goal brings the risk down to it.
LEMMA DistanceIs ==
    ASSUME NEW p, IsFraction(p), NEW q, q \in Nat \X Nat
    PROVE  /\ (p[1] * (p[2] * q[2]) - (p[1] * q[2] - p[2] * q[1]) * p[2]) * q[2]
                = q[1] * p[2] * (p[2] * q[2])
           /\ p[1] * (p[2] * q[1]) * q[2] = p[2] * (p[1] * q[2]) * q[1]
<1>1. p[1] \in Int /\ p[2] \in Int /\ q[1] \in Int /\ q[2] \in Int
  BY DEF IsFraction
<1>2. \A f, w, g, h \in Int : /\ (f * (w * h) - (f * h - w * g) * w) * h = g * w * (w * h)
                              /\ f * (w * g) * h = w * (f * h) * g
  OBVIOUS
<1>3. QED BY <1>1, <1>2

LEMMA AnswersAreJustified ==
    ASSUME RunIInv, OrderIInv, EvidenceIInv
    PROVE  ReportsAreJustified
<1> DEFINE goal == question.goal.maximum
           risk == <<Rejected(Believed), WeightOf(Believed)>>
<1>1. ASSUME bare # NoEvidence
      PROVE  /\ Answered /\ status = "published" /\ Engine = "density"
             /\ HasDistributions <=> leaves # <<>>
             /\ goal \in Nat \X Nat
  <2>1. Answered /\ provenance # NoEvidence /\ question \in Questions(Len(leaves))
    BY <1>1 DEF EvidenceIInv, Answered, OrderIInv
  <2>2. status = "published" /\ Engine = "density"
    BY <2>1 DEF EvidenceIInv
  <2>3. HasDistributions <=> leaves # <<>>
    BY <2>2, PublishedAreBelieved DEF HasDistributions, RunIInv, PublishIInv
  <2>4. circuit \in Circuits /\ leaves \in Leaves(circuit)
    BY DEF RunIInv, ExecutionIInv, ControlIInv, Progress, Arguments, PublishIInv
  <2>5. QED BY <2>1, <2>2, <2>3, <2>4, QuestionsAssumption
<1>2. ASSUME bare # NoEvidence, Answer # "unsupported"
      PROVE  /\ bare.failure = risk /\ IsFraction(risk)
             /\ bare.verdict = IF Answer = "supported" THEN Verdict(risk, goal)
                               ELSE "not evaluated"
  <2>1. leaves # <<>>
    BY <1>1, <1>2 DEF Answer
  <2>2. Missed = risk /\ Rejected(Believed) \in Int /\ WeightOf(Believed) \in Nat
    BY <1>1, <1>2, <2>1, ChosenIsBelieved DEF Answered
  <2>3. IsFraction(risk)
    BY <2>2 DEF IsFraction
  <2>4. QED BY <1>1, <1>2, <2>2, <2>3 DEF Answered
<1>3. (\A i \in DOMAIN circuit : Covered(i)) <=> CircuitIssues = {}
  BY DEF Covered, CircuitIssues
<1>4. ASSUME bare # NoEvidence
      PROVE  bare.status = "supported" <=>
                (/\ leaves # <<>> /\ ~ quantum /\ ~ question.goal.confident
                 /\ \A i \in DOMAIN circuit : Covered(i))
  BY <1>1, <1>3, <1>4 DEF Answered, Answer
<1> HIDE DEF goal, risk
<1>5. ASSUME bare # NoEvidence
      PROVE  /\ bare.verdict = "satisfied" => Exceeds(goal, risk)
             /\ bare.verdict = "violated"  => Exceeds(risk, goal)
             /\ bare.status = "supported" /\ bare.verdict = "not evaluated" =>
                   ~ Above(risk, goal, 1) /\ ~ Below(risk, goal, -1)
  <2>1. CASE Answer = "supported"
    <3>1. bare.verdict = Verdict(risk, goal) /\ IsFraction(risk) /\ goal \in Nat \X Nat
      BY <1>1, <1>2, <1>5, <2>1
    <3>2. QED BY <3>1, VerdictIs
  <2>2. CASE Answer # "supported"
    BY <1>1, <1>5, <2>2 DEF Answered
  <2>3. QED BY <2>1, <2>2
<1>6. VerdictIsJustified
  BY <1>4, <1>5 DEF VerdictIsJustified, goal, risk
<1>7. ASSUME need # NoEvidence, need.verdict # "not assessed"
      PROVE  /\ (need.verdict = "required") <=> Above(risk, goal, 1)
             /\ (risk[1] * need.metrics.excess[2] - need.metrics.excess[1] * risk[2]) * goal[2]
                     = goal[1] * risk[2] * need.metrics.excess[2]
             /\ need.verdict = "required" =>
                   risk[1] * need.metrics.suppress[2] * goal[2]
                       = risk[2] * need.metrics.suppress[1] * goal[1]
  <2>1. need = NeedReport /\ bare # NoEvidence
    BY <1>7 DEF EvidenceIInv, OrderIInv
  <2>2. /\ bare.status = "supported" /\ need.metrics = Requirement
        /\ need.verdict = IF bare.verdict = "violated" THEN "required" ELSE "not required"
    BY <1>7, <2>1 DEF NeedReport, NeedVerdict
  <2>3. Answer = "supported"
    BY <1>1, <2>1, <2>2 DEF Answered
  <2>4. /\ bare.failure = risk /\ IsFraction(risk) /\ goal \in Nat \X Nat
        /\ bare.verdict = Verdict(risk, goal)
    BY <1>1, <1>2, <2>1, <2>3
  <2>5. /\ need.metrics.excess = <<risk[1] * goal[2] - risk[2] * goal[1], risk[2] * goal[2]>>
        /\ need.verdict = "required" =>
              need.metrics.suppress = <<risk[1] * goal[2], risk[2] * goal[1]>>
    <3>1. Requirement.excess = <<bare.failure[1] * goal[2] - bare.failure[2] * goal[1],
                                 bare.failure[2] * goal[2]>>
      BY DEF Requirement, goal
    <3>2. bare.verdict = "violated" =>
             Requirement.suppress = <<bare.failure[1] * goal[2], bare.failure[2] * goal[1]>>
      BY DEF Requirement, goal
    <3>3. need.verdict = "required" => bare.verdict = "violated"
      BY <2>2
    <3>4. bare.failure = risk /\ need.metrics = Requirement
      BY <2>2, <2>4
    <3>5. QED BY <3>1, <3>2, <3>3, <3>4, Zenon
  <2>6. (need.verdict = "required") <=> Above(risk, goal, 1)
    BY <2>2, <2>4, VerdictIs
  <2>7. /\ (risk[1] * (risk[2] * goal[2]) - (risk[1] * goal[2] - risk[2] * goal[1]) * risk[2])
              * goal[2] = goal[1] * risk[2] * (risk[2] * goal[2])
        /\ risk[1] * (risk[2] * goal[1]) * goal[2] = risk[2] * (risk[1] * goal[2]) * goal[1]
    BY <2>4, DistanceIs
  <2>8. QED BY <2>5, <2>6, <2>7
<1>8. NeedClosesTheGap
  <2> SUFFICES ASSUME need # NoEvidence, need.verdict # "not assessed"
               PROVE  /\ (need.verdict = "required") <=> Above(risk, goal, 1)
                      /\ (risk[1] * need.metrics.excess[2] - need.metrics.excess[1] * risk[2])
                              * goal[2] = goal[1] * risk[2] * need.metrics.excess[2]
                      /\ need.verdict = "required" =>
                            risk[1] * need.metrics.suppress[2] * goal[2]
                                = risk[2] * need.metrics.suppress[1] * goal[1]
    BY Zenon DEF NeedClosesTheGap, goal, risk
  <2>1. QED BY <1>7
<1>9. QED BY <1>6, <1>8 DEF ReportsAreJustified

-----------------------------------------------------------------------------
(* The steps of the reports.                                                 *)

LEMMA PublishedRunsAreOver == ASSUME status = "published" PROVE ~ RunStep
<1>1. ~ Simulate
  BY DEF Simulate, EngineStep, Start, RefuseReset, RefuseEvolution, ExactOperation,
         DensityOperation, SampledGate, SampledMeasure, SampledReset, DrawBeyondMass,
         FinishShot, FinishExecution, CanEvolve, Running
<1>2. ~ RefuseQuantumReturn /\ ~ FinishRun
  BY DEF RefuseQuantumReturn, FinishRun
<1>3. QED BY <1>1, <1>2 DEF RunStep

\* What has been said stays, as long as the run and the question do.
LEMMA AnswersStay ==
    ASSUME EvidenceIInv, UNCHANGED <<runVars, question, bare>>,
           provenance' = provenance \/ bare = NoEvidence, provenance # NoEvidence => provenance' # NoEvidence
    PROVE  bare' # NoEvidence => Answered'
<1> SUFFICES ASSUME bare # NoEvidence PROVE Answered'
  OBVIOUS
<1>1. Answered
  BY DEF EvidenceIInv
<1>2. UNCHANGED <<circuit, leaves, quantum, output, question, bare>>
  BY DEF runVars, executionVars
<1>3. Missed' = Missed
  BY <1>2 DEF Missed, Chosen
<1>4. Answer' = Answer
  BY <1>2 DEF Answer, HasDistributions, CircuitIssues, Acts
<1>5. QED BY <1>1, <1>2, <1>3, <1>4 DEF Answered

LEMMA AssessKeepsEvidence ==
    ASSUME RunIInv, OrderIInv, EvidenceIInv, Asked,
           NEW answer, NEW verdict, NEW bound, NEW failure, NEW issues,
           Assess(BareReport(answer, verdict, bound, failure, issues)),
           answer = Answer',
           verdict = IF Answer' = "supported" THEN Verdict(Missed, question.goal.maximum)'
                     ELSE "not evaluated",
           Answer' # "unsupported" => /\ failure = Missed'
                                      /\ question'.acceptance.arity = Len(leaves)
                                      /\ IsInjective(leaves)
    PROVE  EvidenceIInv'
<1> DEFINE report == BareReport(answer, verdict, bound, failure, issues)
<1>1. report.status = answer /\ report.verdict = verdict /\ report.failure = failure
  BY DEF BareReport
<1>2. /\ bare' = report \/ bare' = bare
      /\ UNCHANGED <<runVars, provenance, impact, need>>
  BY DEF Assess
<1> HIDE DEF report
<1>3. impact # NoEvidence /\ bare = NoEvidence /\ need = NoEvidence /\ WellFormed(question')
  BY AskedFacts DEF Asked
<1>4. provenance # NoEvidence
  BY <1>3 DEF OrderIInv
<1>5. UNCHANGED <<circuit, request, status, leaves, quantum, output, provenance, need>>
  BY <1>2 DEF runVars, executionVars
<1>6. ASSUME bare' # NoEvidence PROVE Answered'
  <2>1. bare' = report
    BY <1>2, <1>3, <1>6
  <2>2. QED BY <1>1, <1>3, <1>4, <1>5, <2>1 DEF Answered, WellFormed
<1>7. QED BY <1>3, <1>5, <1>6 DEF EvidenceIInv, Engine, CircuitIssues, Acts

LEMMA QuestionsKeepEvidence ==
    ASSUME RunIInv, OrderIInv, EvidenceIInv,
           AssessUnsupported \/ RefuseCriterion \/ AssessIncomplete \/ AssessIndeterminate
               \/ AssessSupported
    PROVE  EvidenceIInv'
<1>1. CASE RefuseCriterion
  <2>1. Asked /\ UNCHANGED <<runVars, provenance, impact, bare, need>>
    BY <1>1 DEF RefuseCriterion, Assessable
  <2>2. bare = NoEvidence /\ need = NoEvidence
    BY <2>1, AskedFacts
  <2>3. UNCHANGED <<circuit, request, status>>
    BY <2>1 DEF runVars, executionVars
  <2>4. QED BY <2>1, <2>2, <2>3 DEF EvidenceIInv, Engine, CircuitIssues, Acts
<1>2. CASE ~ RefuseCriterion
  <2>1. Asked /\ UNCHANGED runVars
    BY <1>2 DEF AssessUnsupported, AssessIncomplete, AssessIndeterminate, AssessSupported,
                Assessable, Assess
  <2>2. UNCHANGED <<circuit, request, status, leaves, quantum, output>>
    BY <2>1 DEF runVars, executionVars
  <2>3. Failure = Missed'
    BY <2>2 DEF Failure, Missed, Selected, Chosen
  <2>4. provenance.coverage.issues = CircuitIssues
    BY <2>1, AskedFacts DEF OrderIInv, EvidenceIInv
  <2>5. Answer' = IF quantum \/ ~ HasDistributions THEN "unsupported"
                  ELSE IF CircuitIssues # {} THEN "incomplete"
                  ELSE IF question'.goal.confident THEN "indeterminate" ELSE "supported"
    BY <2>2 DEF Answer, HasDistributions, CircuitIssues, Acts
  <2>6. CASE AssessUnsupported
    <3>1. Answer' = "unsupported"
      BY <2>5, <2>6 DEF AssessUnsupported
    <3>2. Assess(BareReport("unsupported", "not evaluated", NoEvidence, NoEvidence, {}))
      BY <2>6 DEF AssessUnsupported
    <3>3. QED BY <2>1, <3>1, <3>2, AssessKeepsEvidence
  <2>7. ASSUME Assessable, Bindable
        PROVE  /\ ~ (quantum \/ ~ HasDistributions)
               /\ question'.acceptance.arity = Len(leaves) /\ IsInjective(leaves)
    BY <2>7 DEF Assessable, Bindable
  <2>8. CASE AssessIncomplete
    <3>1. Answer' = "incomplete"
      BY <2>4, <2>5, <2>7, <2>8 DEF AssessIncomplete
    <3>2. Assess(BareReport("incomplete", "not evaluated", question'.acceptance.outcomes,
                            Failure, provenance.coverage.issues))
      BY <2>8 DEF AssessIncomplete
    <3>3. Assessable /\ Bindable
      BY <2>8 DEF AssessIncomplete
    <3>4. QED BY <2>1, <2>3, <2>7, <3>1, <3>2, <3>3, AssessKeepsEvidence
  <2>9. CASE AssessIndeterminate
    <3>1. Answer' = "indeterminate"
      BY <2>4, <2>5, <2>7, <2>9 DEF AssessIndeterminate
    <3>2. Assess(BareReport("indeterminate", "not evaluated", question'.acceptance.outcomes,
                            Failure, {}))
      BY <2>9 DEF AssessIndeterminate
    <3>3. Assessable /\ Bindable
      BY <2>9 DEF AssessIndeterminate
    <3>4. QED BY <2>1, <2>3, <2>7, <3>1, <3>2, <3>3, AssessKeepsEvidence
  <2>10. CASE AssessSupported
    <3>1. Answer' = "supported"
      BY <2>4, <2>5, <2>7, <2>10 DEF AssessSupported
    <3>2. Assess(BareReport("supported", Verdict(Failure, question'.goal.maximum),
                            question'.acceptance.outcomes, Failure, {}))
      BY <2>10 DEF AssessSupported
    <3>3. Assessable /\ Bindable
      BY <2>10 DEF AssessSupported
    <3>4. Verdict(Failure, question'.goal.maximum) = Verdict(Missed, question.goal.maximum)'
      BY <2>3 DEF Verdict, Above, Below
    <3>5. QED BY <2>1, <2>3, <2>7, <3>1, <3>2, <3>3, <3>4, AssessKeepsEvidence
  <2>11. QED BY <1>2, <2>6, <2>8, <2>9, <2>10
<1>3. QED BY <1>1, <1>2

LEMMA StepsKeepEvidence ==
    ASSUME RunIInv, OrderIInv, EvidenceIInv, [ReportNext]_reportVars
    PROVE  EvidenceIInv'
<1>1. ASSUME UNCHANGED <<runVars, provenance, question, bare, need>> PROVE EvidenceIInv'
  <2>1. bare' # NoEvidence => Answered'
    BY <1>1, AnswersStay
  <2>2. UNCHANGED <<circuit, request, status>>
    BY <1>1 DEF runVars, executionVars
  <2>3. NeedReport' = NeedReport
    BY <1>1 DEF NeedReport, NeedVerdict, Requirement
  <2>4. QED BY <1>1, <2>1, <2>2, <2>3 DEF EvidenceIInv, Engine, CircuitIssues, Acts
<1>2. CASE RunStep /\ UNCHANGED artifacts
  <2>1. provenance = NoEvidence
    BY <1>2, PublishedRunsAreOver DEF EvidenceIInv
  <2>2. bare = NoEvidence /\ need = NoEvidence
    BY <2>1 DEF OrderIInv
  <2>3. QED BY <1>2, <2>1, <2>2 DEF EvidenceIInv, artifacts
<1>3. CASE RecordProvenance
  <2>1. Published /\ UNCHANGED <<runVars, impact, question, bare, need>> /\ provenance = NoEvidence
    BY <1>3 DEF RecordProvenance
  <2>2. provenance' = Provenance \/ provenance' = NoEvidence
    BY <1>3, <2>1 DEF RecordProvenance
  <2>3. bare = NoEvidence /\ need = NoEvidence
    BY <2>1 DEF OrderIInv
  <2>4. Provenance.coverage.issues = CircuitIssues
    BY DEF Provenance, BuiltCoverage, Coverage
  <2>5. UNCHANGED <<circuit, request, status>>
    BY <2>1 DEF runVars, executionVars
  <2>6. QED BY <2>1, <2>2, <2>3, <2>4, <2>5 DEF EvidenceIInv, Published, Engine, CircuitIssues, Acts
<1>4. CASE BuildImpact
  BY <1>1, <1>4 DEF BuildImpact
<1>5. CASE BuildNeed
  <2>1. UNCHANGED <<runVars, provenance, impact, question, bare>>
    BY <1>5 DEF BuildNeed
  <2>2. need' = NeedReport \/ need' = need
    BY <1>5 DEF BuildNeed
  <2>3. bare' # NoEvidence => Answered'
    BY <2>1, AnswersStay
  <2>4. UNCHANGED <<circuit, request, status>>
    BY <2>1 DEF runVars, executionVars
  <2>5. NeedReport' = NeedReport
    BY <2>1 DEF NeedReport, NeedVerdict, Requirement
  <2>6. QED BY <2>1, <2>2, <2>3, <2>4, <2>5 DEF EvidenceIInv, Engine, CircuitIssues, Acts
<1>6. CASE UNCHANGED reportVars
  BY <1>1, <1>6 DEF reportVars, artifacts
<1>7. QED BY <1>2, <1>3, <1>4, <1>5, <1>6, QuestionsKeepEvidence
          DEF ReportNext, ReportStep, ReportEnded

LEMMA EvidenceIsKept == ReportSpec => []EvidenceIInv
<1>1. ReportInit => EvidenceIInv
  BY DEF ReportInit, EvidenceIInv
<1>2. QED BY <1>1, StepsKeepEvidence, ReportInvariant, PTL DEF ReportSpec

\* The verdict on a goal and the protection it calls for are what the pure
\* trajectories say, whichever circuit, noise, readout and question.
THEOREM ReportsFollow == ReportSpec => []ReportsAreJustified
<1>1. QED BY AnswersAreJustified, EvidenceIsKept, ReportInvariant, PTL

-----------------------------------------------------------------------------
(* The replay without noise.                                                 *)

LEMMA WeightIs == ASSUME NEW x PROVE WeightOf(x) = Sum(x, DOMAIN x)
BY MarginalIs DEF WeightOf

LEMMA TraceOfIs ==
    ASSUME NEW D \in Densities
    PROVE  TraceOf(D) = Trace(D)
<1>1. DOMAIN Diagonal(D) = BasisStates
  BY DEF Diagonal
<1>2. QED BY <1>1, WeightIs DEF TraceOf, Trace

LEMMA ReplayStepIs ==
    ASSUME NEW i \in DOMAIN circuit, NEW D
    PROVE  ReplayStep(D, i) = IdealAt(i, D)
<1>1. Acts(i, {"MEASURE"}) <=> Measures(i)
  BY DEF Measures
<1>2. Acts(i, {"RESET"}) <=> i \in ResetsAt
  BY DEF ResetsAt
<1>3. Acts(i, {"RESET"}) => ~ Acts(i, {"MEASURE"})
  BY DEF Acts
<1>4. CASE Measures(i)
  BY <1>1, <1>3, <1>4 DEF ReplayStep, IdealAt
<1>5. CASE i \in ResetsAt
  BY <1>1, <1>2, <1>3, <1>5 DEF ReplayStep, IdealAt
<1>6. CASE ~ Measures(i) /\ i \notin ResetsAt
  BY <1>1, <1>2, <1>6 DEF ReplayStep, IdealAt
<1>7. QED BY <1>4, <1>5, <1>6

\* The fold of the model gives the last matrix of the replay.
LEMMA ReplayIs ==
    ASSUME Arguments, NEW w, ReplayPath(w, Len(circuit))
    PROVE  FoldLeftDomain(ReplayStep, GroundDensity, circuit) = w[Len(circuit)]
<1> DEFINE n == Len(circuit)
           choice == [s \in SUBSET (1 .. n) |-> Max(s)]
           step == [i \in 1 .. n |-> [D \in Densities |-> IdealAt(i, D)]]
           Next(g) == [s \in SUBSET (1 .. n) |->
                          IF s = {} THEN GroundDensity
                          ELSE LET i == Max(s) IN IdealAt(i, g[s \ {i}])]
           h == CHOOSE g : g = Next(g)
<1>1. n \in Nat /\ DOMAIN circuit = 1 .. n
  BY ArgumentFacts
<1> HIDE DEF n
<1>2. FoldLeftDomain(ReplayStep, GroundDensity, circuit) = h[1 .. n]
  <2> DEFINE Folded(g) == [s \in SUBSET (1 .. n) |->
                              IF s = {} THEN GroundDensity
                              ELSE LET i == Max(s)
                                   IN  ReplayStep(g[s \ {i}], [j \in 1 .. n |-> j][i])]
  <2>1. FoldLeftDomain(ReplayStep, GroundDensity, circuit) = (CHOOSE g : g = Folded(g))[1 .. n]
    BY <1>1 DEF FoldLeftDomain, FoldLeft, MapThenFoldSet
  <2>2. ASSUME NEW g PROVE Folded(g) = Next(g)
    <3>1. ASSUME NEW s \in SUBSET (1 .. n), s # {}
          PROVE  [j \in 1 .. n |-> j][Max(s)] = Max(s) /\ Max(s) \in DOMAIN circuit
      BY <1>1, <3>1, PrefixFacts DEF Chooses
    <3>2. ASSUME NEW s \in SUBSET (1 .. n) PROVE Folded(g)[s] = Next(g)[s]
      <4>1. s # {} => ReplayStep(g[s \ {Max(s)}], Max(s)) = IdealAt(Max(s), g[s \ {Max(s)}])
        BY <3>1, ReplayStepIs
      <4>2. QED BY <3>1, <4>1
    <3>3. QED BY <3>2
  <2> HIDE DEF Folded, Next
  <2>3. (CHOOSE g : g = Folded(g)) = (CHOOSE g : g = Next(g))
    BY <2>2
  <2>4. QED BY <2>1, <2>3
<1>3. \E g : g = Next(g)
  <2>1. step \in [1 .. n -> [Densities -> Densities]]
    BY <1>1, IdealAtFacts
  <2>2. Chooses(choice, 1 .. n)
    BY <1>1, PrefixFacts
  <2>3. IsFiniteSet(1 .. n)
    BY <1>1, FS_Interval
  <2>4. PICK g \in [SUBSET (1 .. n) -> Densities] :
           FoldsTo(g, 1 .. n, choice, GroundDensity, step)
    <3> HIDE DEF step, choice
    <3>1. QED BY <2>1, <2>2, <2>3, GroundIsState, FoldHasSolution
  <2>5. ASSUME NEW s \in SUBSET (1 .. n) PROVE g[s] = Next(g)[s]
    <3>1. s # {} => Max(s) \in 1 .. n
      BY <2>2 DEF Chooses
    <3>2. s # {} => g[s] = step[Max(s)][g[s \ {Max(s)}]]
      BY <2>4 DEF FoldsTo
    <3>3. g[s \ {Max(s)}] \in Densities
      OBVIOUS
    <3>4. s # {} => g[s] = IdealAt(Max(s), g[s \ {Max(s)}])
      BY <3>1, <3>2, <3>3
    <3>5. s = {} => g[s] = GroundDensity
      BY <2>4 DEF FoldsTo
    <3>6. QED BY <3>4, <3>5
  <2>6. g = Next(g)
    BY <2>5
  <2>7. QED BY <2>6
<1>4. h = Next(h)
  BY <1>3
<1> HIDE DEF h
<1>5. h[1 .. 0] = w[0]
  <2>1. 1 .. 0 = {} /\ {} \in SUBSET (1 .. n)
    OBVIOUS
  <2>2. h[{}] = GroundDensity
    BY <1>4
  <2>3. QED BY <2>1, <2>2 DEF ReplayPath
<1>6. ASSUME NEW i \in 1 .. n, h[1 .. i - 1] = w[i - 1] PROVE h[1 .. i] = w[i]
  <2>1. /\ Max(1 .. i) = i /\ (1 .. i) \ {i} = 1 .. i - 1 /\ 1 .. i # {}
        /\ 1 .. i \in SUBSET (1 .. n)
    BY <1>1, PrefixFacts
  <2>2. h[1 .. i] = IdealAt(i, h[1 .. i - 1])
    BY <1>4, <2>1
  <2>3. w[i] = IdealAt(i, w[i - 1])
    BY DEF ReplayPath, n
  <2>4. QED BY <1>6, <2>2, <2>3
<1>7. n \in 0 .. n
  BY <1>1
<1>8. h[1 .. n] = w[n]
  <2>1. SameSteps(h, w, n)
    BY <1>5, <1>6 DEF SameSteps
  <2>2. \A i \in 0 .. n : h[1 .. i] = w[i]
    BY <1>1, <2>1, PrefixesAgree
  <2>3. QED BY <1>7, <2>2
<1>9. QED BY <1>2, <1>8 DEF n

\* The ideal matrix of an impact report: as heavy as the run's, and the run's own
\* when no noise took part.
LEMMA IdealReplayFacts ==
    ASSUME Arguments, density = Mixture(Len(circuit))
    PROVE  /\ density \in Mixed /\ density \in Densities
           /\ IdealReplay \in Mixed /\ IdealReplay \in Densities
           /\ Trace(density) \in Nat \ {0} /\ Trace(IdealReplay) = Trace(density)
           /\ (\A i \in DOMAIN circuit : ~ Noisy(i)) => IdealReplay = density
<1> DEFINE n == Len(circuit)
<1>1. n \in 0 .. Len(circuit) /\ DOMAIN circuit = 1 .. n
  BY ArgumentFacts
<1>2. PICK w : ReplayPath(w, n)
  BY <1>1, ReplayHasPath
<1> DEFINE R == w[n]
           k == Trace(density) \div Trace(R)
<1>3. Replayed(w, n)
  BY <1>2, ReplayFollows
<1>4. FoldLeftDomain(ReplayStep, GroundDensity, circuit) = R
  BY <1>2, ReplayIs
<1>5. density \in Mixed /\ density \in Densities
  BY <1>1, MixtureIsMixed, MixedIsAdditive
<1>6. R \in Mixed /\ R \in Densities /\ Trace(R) \in Nat \ {0}
  BY <1>3, MixedIsAdditive DEF Replayed
<1>7. PICK c \in Nat \ {0} : Trace(density) = c * Trace(R)
  BY <1>3 DEF Replayed
<1>8. (\A i \in 1 .. n : ~ Noisy(i)) => density = R
  BY <1>3 DEF Replayed
<1>9. IdealReplay = [row \in BasisStates |-> [col \in BasisStates |->
                         R[row][col] * (TraceOf(density) \div TraceOf(R))]]
  BY <1>4 DEF IdealReplay
<1>10. TraceOf(density) = Trace(density) /\ TraceOf(R) = Trace(R)
  BY <1>5, <1>6, TraceOfIs
<1> HIDE DEF R, k, n
<1>11. IdealReplay = Scaled(R, k)
  BY <1>9, <1>10 DEF Scaled, k
<1>12. k = c
  <2>1. \A x, y \in Nat \ {0} : (x * y) \div y = x
    OBVIOUS
  <2>2. QED BY <1>6, <1>7, <2>1 DEF k
<1>13. IdealReplay \in Mixed /\ IdealReplay \in Densities /\ Trace(IdealReplay) = Trace(density)
  <2>1. c \in Nat /\ c \in Int
    OBVIOUS
  <2>2. Scaled(R, c) \in Mixed
    BY <1>6, <2>1, ScaledIsMixed
  <2>3. Scaled(R, c) \in Densities /\ Trace(Scaled(R, c)) = c * Trace(R)
    BY <1>6, <2>1, ScaledFacts
  <2>4. IdealReplay = Scaled(R, c)
    BY <1>11, <1>12
  <2>5. QED BY <1>7, <2>2, <2>3, <2>4
<1>14. Trace(density) \in Nat \ {0}
  <2>1. \A x, y \in Nat \ {0} : x * y \in Nat \ {0}
    OBVIOUS
  <2>2. QED BY <1>6, <1>7, <2>1
<1>15. ASSUME \A i \in DOMAIN circuit : ~ Noisy(i) PROVE IdealReplay = density
  <2>1. density = R
    BY <1>1, <1>8, <1>15
  <2>2. c = 1
    <3>1. \A x, y \in Nat \ {0} : y = x * y => x = 1
      OBVIOUS
    <3>2. QED BY <1>6, <1>7, <2>1, <3>1
  <2>3. \A row, col \in BasisStates : Scaled(R, 1)[row][col] = R[row][col]
    <3>1. \A row, col \in BasisStates : Scaled(R, 1)[row][col] = R[row][col] * 1
      BY <1>6, ScaledFacts
    <3>2. \A row, col \in BasisStates : R[row][col] \in Int
      BY <1>6, DensityFacts
    <3>3. \A x \in Int : x * 1 = x
      OBVIOUS
    <3>4. QED BY <3>1, <3>2, <3>3
  <2>4. Scaled(R, 1) = R
    BY <1>6, <2>3, ScaledFacts, DensitiesEqual
  <2>5. QED BY <1>11, <1>12, <2>1, <2>2, <2>4
<1>16. QED BY <1>5, <1>13, <1>14, <1>15

-----------------------------------------------------------------------------
(* What the noise did, and what it is blamed on.                             *)

LEMMA EndedFacts ==
    ASSUME RunIInv, status = "published", Engine = "density"
    PROVE  /\ Arguments /\ leaves \in Leaves(circuit) /\ density = Mixture(Len(circuit))
           /\ \E S : noiseEvents \in Seq(S)
           /\ {noiseEvents[k].op : k \in DOMAIN noiseEvents} = {i \in DOMAIN circuit : Noisy(i)}
           /\ output # NoEvidence <=> leaves # <<>>
<1>1. Progress /\ RanThrough /\ DensityIsMixture /\ NoiseIsNoted
  BY DEF RunIInv, ExecutionIInv, ControlIInv, RunStopped
<1>2. Arguments /\ leaves \in Leaves(circuit)
  BY <1>1 DEF Progress, RunIInv, PublishIInv
<1>3. pc - 1 = Len(circuit) /\ 1 .. pc - 1 = DOMAIN circuit
  <2>1. Len(circuit) \in Nat /\ DOMAIN circuit = 1 .. Len(circuit)
    BY <1>2, ArgumentFacts
  <2>2. pc = Len(circuit) + 1
    BY <1>1 DEF RanThrough
  <2>3. QED BY <2>1, <2>2
<1>4. density = Mixture(pc - 1)
  BY <1>1 DEF DensityIsMixture
<1>5. output # NoEvidence <=> leaves # <<>>
  BY PublishedAreBelieved DEF RunIInv, PublishIInv
<1>6. /\ \E S : noiseEvents \in Seq(S)
      /\ {noiseEvents[k].op : k \in DOMAIN noiseEvents} = {i \in 1 .. pc - 1 : Noisy(i)}
  BY <1>1 DEF NoiseIsNoted
<1>7. QED BY <1>2, <1>3, <1>4, <1>5, <1>6

LEMMA MagnitudeFacts ==
    /\ \A i \in Int : Magnitude(i) \in Nat /\ - Magnitude(i) <= i /\ i <= Magnitude(i)
    /\ \A i \in Int : \A n \in Int : - n <= i /\ i <= n => Magnitude(i) <= n
    /\ Magnitude(0) = 0
BY DEF Magnitude

\* The metrics are sums.
Gaps(x, y) == [o \in DOMAIN x |-> Magnitude(x[o] - y[o])]
Sizes(D) == [e \in OffDiagonal |-> Magnitude(D[e[1]][e[2]])]

LEMMA MetricsAre ==
    ASSUME NEW D, NEW E
    PROVE  /\ Purity(D) = Sum(Squared(D), Entries)
           /\ Coherence(D) = Sum(Sizes(D), OffDiagonal)
           /\ TotalVariation(D, E) = Sum(Gaps(D, E), DOMAIN D)
           /\ CoherenceChange(D, E) = Sum(Gaps(Sizes(D), Sizes(E)), OffDiagonal)
<1>1. \A f : SumFunction(f) = Sum(f, DOMAIN f)
  BY LibrarySum DEF SumFunction
<1>2. Purity(D) = Sum(Squared(D), Entries)
  <2>1. DOMAIN Squared(D) = Entries /\ Purity(D) = SumFunction(Squared(D))
    BY DEF Squared, Entries, Purity
  <2>2. QED BY <1>1, <2>1
<1>3. Coherence(D) = Sum(Sizes(D), OffDiagonal)
  <2>1. DOMAIN Sizes(D) = OffDiagonal /\ Coherence(D) = SumFunction(Sizes(D))
    BY DEF Sizes, Coherence
  <2>2. QED BY <1>1, <2>1
<1>4. TotalVariation(D, E) = Sum(Gaps(D, E), DOMAIN D)
  <2>1. DOMAIN Gaps(D, E) = DOMAIN D /\ TotalVariation(D, E) = SumFunction(Gaps(D, E))
    BY DEF Gaps, TotalVariation
  <2>2. QED BY <1>1, <2>1
<1>5. CoherenceChange(D, E) = Sum(Gaps(Sizes(D), Sizes(E)), OffDiagonal)
  <2> DEFINE f == [e \in OffDiagonal |->
                     Magnitude(Magnitude(D[e[1]][e[2]]) - Magnitude(E[e[1]][e[2]]))]
  <2>1. CoherenceChange(D, E) = SumFunction(f)
    BY DEF CoherenceChange
  <2>2. DOMAIN Sizes(D) = OffDiagonal
    BY DEF Sizes
  <2>3. ASSUME NEW e \in OffDiagonal PROVE Gaps(Sizes(D), Sizes(E))[e] = f[e]
    BY <2>2 DEF Sizes, Gaps
  <2>4. Gaps(Sizes(D), Sizes(E)) = [e \in OffDiagonal |-> Gaps(Sizes(D), Sizes(E))[e]]
    BY <2>2 DEF Gaps
  <2>5. f = [e \in OffDiagonal |-> f[e]]
    OBVIOUS
  <2> HIDE DEF f
  <2>6. f = Gaps(Sizes(D), Sizes(E))
    BY <2>3, <2>4, <2>5
  <2>7. DOMAIN f = OffDiagonal
    BY <2>5
  <2>8. QED BY <1>1, <2>1, <2>6, <2>7
<1>6. QED BY <1>2, <1>3, <1>4, <1>5

LEMMA EntriesAre ==
    /\ IsFiniteSet(Entries) /\ IsFiniteSet(OffDiagonal)
    /\ \A D \in Densities : \A e \in Entries : D[e[1]][e[2]] \in Int
    /\ \A D \in Densities : \A e \in OffDiagonal : Sizes(D)[e] \in Nat
<1>1. IsFiniteSet(Entries)
  BY BasisIsFinite, FS_Product DEF Entries
<1>2. OffDiagonal \in SUBSET Entries
  BY DEF OffDiagonal
<1>3. IsFiniteSet(OffDiagonal)
  BY <1>1, <1>2, FS_Subset
<1>4. ASSUME NEW D \in Densities, NEW e \in Entries PROVE D[e[1]][e[2]] \in Int
  <2>1. e[1] \in BasisStates /\ e[2] \in BasisStates
    BY DEF Entries
  <2>2. QED BY <2>1, DensityFacts
<1>5. ASSUME NEW D \in Densities, NEW e \in OffDiagonal PROVE Sizes(D)[e] \in Nat
  <2>1. D[e[1]][e[2]] \in Int
    BY <1>2, <1>4
  <2>2. QED BY <2>1, MagnitudeFacts DEF Sizes
<1>6. QED BY <1>1, <1>3, <1>4, <1>5

\* Every metric of equal matrices is zero.
LEMMA EqualHasNoGap ==
    /\ \A S : \A x : IsFiniteSet(S) /\ DOMAIN x = S /\ (\A o \in S : x[o] \in Int)
                        => TotalVariation(x, x) = 0
    /\ \A D \in Densities : HilbertSchmidt(D, D) = 0 /\ CoherenceChange(D, D) = 0
                            /\ Coherence(D) - Coherence(D) = 0 /\ Purity(D) - Purity(D) = 0
<1>1. \A i \in Int : i - i = 0 /\ Magnitude(i - i) = 0
  BY MagnitudeFacts
<1>2. ASSUME NEW S, NEW x, IsFiniteSet(S), DOMAIN x = S, \A o \in S : x[o] \in Int
      PROVE  TotalVariation(x, x) = 0
  <2>1. \A o \in S : Gaps(x, x)[o] = 0
    BY <1>1, <1>2 DEF Gaps
  <2>2. Sum(Gaps(x, x), S) = 0
    BY <1>2, <2>1, SumOfZeros
  <2>3. QED BY <1>2, <2>2, MetricsAre
<1>3. ASSUME NEW D \in Densities PROVE HilbertSchmidt(D, D) = 0
  <2> DEFINE f == [e \in Entries |->
                     LET gap == D[e[1]][e[2]] - D[e[1]][e[2]] IN gap * gap]
  <2>1. \A e \in Entries : f[e] = 0
    BY <1>1, EntriesAre
  <2>2. DOMAIN f = Entries /\ HilbertSchmidt(D, D) = SumFunction(f)
    BY DEF HilbertSchmidt
  <2> HIDE DEF f
  <2>3. SumFunction(f) = Sum(f, Entries)
    BY <2>2, LibrarySum DEF SumFunction
  <2>4. Sum(f, Entries) = 0
    BY <2>1, EntriesAre, SumOfZeros
  <2>5. QED BY <2>2, <2>3, <2>4
<1>4. ASSUME NEW D \in Densities PROVE CoherenceChange(D, D) = 0
  <2>1. \A e \in OffDiagonal : Gaps(Sizes(D), Sizes(D))[e] = 0
    BY <1>1, EntriesAre DEF Gaps, Sizes
  <2>2. QED BY <2>1, MetricsAre, EntriesAre, SumOfZeros
<1>5. ASSUME NEW D \in Densities PROVE Coherence(D) \in Int /\ Purity(D) \in Int
  <2>1. Sum(Sizes(D), OffDiagonal) \in Nat
    BY EntriesAre, SumOfNaturals
  <2>2. ASSUME NEW e \in Entries PROVE Squared(D)[e] \in Int
    <3>1. e \in BasisStates \X BasisStates /\ e[1] \in BasisStates /\ e[2] \in BasisStates
      BY DEF Entries
    <3>2. D[e[1]][e[2]] \in Int /\ D[e[2]][e[1]] \in Int
      BY <3>1, DensityFacts
    <3>3. \A i, j \in Int : i * j \in Int
      OBVIOUS
    <3>4. QED BY <3>1, <3>2, <3>3 DEF Squared
  <2>3. Sum(Squared(D), Entries) \in Int
    BY <2>2, EntriesAre, SumIsInt
  <2>4. QED BY <2>1, <2>3, MetricsAre
<1>6. QED BY <1>1, <1>2, <1>3, <1>4, <1>5

\* Changes of the entries cancel in a sum.
LEMMA CoherenceIsWithin ==
    ASSUME NEW D \in Densities, NEW E \in Densities
    PROVE  Magnitude(Coherence(D) - Coherence(E)) <= CoherenceChange(D, E)
<1> DEFINE S == OffDiagonal
           f == Sizes(D)
           g == Sizes(E)
           h == [e \in S |-> f[e] - g[e]]
           k == Gaps(f, g)
<1>1. IsFiniteSet(S) /\ (\A e \in S : f[e] \in Nat /\ g[e] \in Nat) /\ DOMAIN f = S
  BY EntriesAre DEF Sizes
<1>2. /\ Coherence(D) = Sum(f, S) /\ Coherence(E) = Sum(g, S)
      /\ CoherenceChange(D, E) = Sum(k, S)
  BY MetricsAre
<1> HIDE DEF f, g, S
<1>3. \A e \in S : h[e] = f[e] - g[e] /\ k[e] = Magnitude(f[e] - g[e])
  BY <1>1 DEF Gaps
<1> HIDE DEF h, k
<1>4. ASSUME NEW e \in S
      PROVE  /\ f[e] \in Int /\ g[e] \in Int /\ h[e] \in Int /\ k[e] \in Int
             /\ h[e] = 1 * f[e] + (-1) * g[e]
             /\ - k[e] <= h[e] /\ h[e] <= k[e]
  <2>1. \A i, j \in Nat : i \in Int /\ j \in Int /\ i - j \in Int /\ i - j = 1 * i + (-1) * j
    OBVIOUS
  <2>2. f[e] - g[e] \in Int /\ f[e] - g[e] = 1 * f[e] + (-1) * g[e] /\ f[e] \in Int /\ g[e] \in Int
    BY <1>1, <2>1
  <2>3. \A i \in Int : Magnitude(i) \in Int /\ - Magnitude(i) <= i /\ i <= Magnitude(i)
    BY MagnitudeFacts
  <2>4. QED BY <1>3, <2>2, <2>3
<1>5. Sum(h, S) = 1 * Sum(f, S) + (-1) * Sum(g, S)
  <2>1. 1 \in Int /\ -1 \in Int
    OBVIOUS
  <2>2. QED BY <1>1, <1>4, <2>1, SumCombination
<1>6. /\ Sum(h, S) \in Int /\ Sum(k, S) \in Int
      /\ - Sum(k, S) <= Sum(h, S) /\ Sum(h, S) <= Sum(k, S)
  BY <1>1, <1>4, SumWithin
<1>7. Sum(f, S) \in Int /\ Sum(g, S) \in Int
  BY <1>1, <1>4, SumIsInt
<1>8. Sum(h, S) = Sum(f, S) - Sum(g, S)
  BY <1>5, <1>7
<1>9. Magnitude(Sum(h, S)) <= Sum(k, S)
  BY <1>6, MagnitudeFacts
<1>10. QED BY <1>2, <1>8, <1>9

\* The outcomes of the leaves divide the basis states.
LEMMA FibresAre ==
    ASSUME Arguments, leaves \in Leaves(circuit)
    PROVE  /\ IsFiniteSet(Outcomes(leaves))
           /\ \A b \in BasisStates : Outcome(b, LeafSlots) \in Outcomes(leaves)
           /\ \A o : Having(LeafSlots, o) \in SUBSET BasisStates
<1>1. IsFiniteSet(Outcomes(leaves))
  <2>1. IsFiniteSet(DOMAIN leaves)
    BY LeafFacts, FS_Interval
  <2>2. Outcomes(leaves) = Bits(DOMAIN leaves)
    BY DEF Bits, Outcomes
  <2>3. QED BY <2>1, <2>2, BitsAreFinite
<1>2. DOMAIN LeafSlots = DOMAIN leaves
  BY LeafFacts
<1>3. QED BY <1>1, <1>2 DEF Outcome, Outcomes, Having

LEMMA ProjectedFacts ==
    ASSUME Arguments, leaves \in Leaves(circuit), NEW D \in Densities
    PROVE  /\ Project(UniqueWeights(D)) \in [Outcomes(leaves) -> Int]
           /\ WeightOf(Project(UniqueWeights(D))) = Trace(D)
<1> DEFINE p == Project(UniqueWeights(D))
           d == Diagonal(D)
           O == Outcomes(leaves)
           k == [b \in BasisStates |-> Outcome(b, LeafSlots)]
<1>1. DOMAIN p = O /\ p = [o \in O |-> p[o]]
  BY DEF Project
<1>2. \A o \in O : p[o] = Sum(d, Having(LeafSlots, o))
  BY SpreadIsJoint
<1>3. \A b \in BasisStates : d[b] \in Int
  BY TraceFacts
<1>4. ASSUME NEW o \in O
      PROVE  p[o] \in Int /\ Having(LeafSlots, o) = {b \in BasisStates : k[b] = o}
  <2> DEFINE H == Having(LeafSlots, o)
  <2>1. H \in SUBSET BasisStates /\ IsFiniteSet(H)
    BY FibresAre, BasisIsFinite, FS_Subset
  <2>2. H = {b \in BasisStates : k[b] = o}
    BY DEF Having
  <2> HIDE DEF H, d
  <2>3. Sum(d, H) \in Int
    BY <1>3, <2>1, SumIsInt
  <2>4. p[o] = Sum(d, H)
    BY <1>2 DEF H
  <2> HIDE DEF p
  <2>5. QED BY <2>2, <2>3, <2>4 DEF H
<1>5. \A b \in BasisStates : k[b] \in O
  BY FibresAre
<1> HIDE DEF p, d, k
<1>6. Groups(BasisStates, O, d, k, p)
  BY <1>2, <1>3, <1>4, <1>5 DEF Groups
<1>7. Sum(d, BasisStates) = Sum(p, O)
  BY <1>6, FibresAre, BasisIsFinite, SumFibres
<1>8. WeightOf(p) = Sum(p, O)
  BY <1>1, WeightIs
<1>9. QED BY <1>1, <1>4, <1>7, <1>8 DEF Trace, p, d

\* Damage of the outcomes is damage of the populations, no larger.
LEMMA OutcomesAreWithin ==
    ASSUME Arguments, leaves \in Leaves(circuit), NEW D \in Densities, NEW E \in Densities
    PROVE  TotalVariation(Project(UniqueWeights(D)), Project(UniqueWeights(E)))
               <= TotalVariation(Diagonal(D), Diagonal(E))
<1> DEFINE p == Project(UniqueWeights(D))
           q == Project(UniqueWeights(E))
           d == Diagonal(D)
           e == Diagonal(E)
           O == Outcomes(leaves)
           B == BasisStates
           H(o) == Having(LeafSlots, o)
           k == [b \in B |-> Outcome(b, LeafSlots)]
           g == Gaps(d, e)
           f == [b \in B |-> d[b] - e[b]]
           h == [o \in O |-> Sum(g, H(o))]
           r == Gaps(p, q)
<1>1. /\ p \in [O -> Int] /\ q \in [O -> Int]
      /\ \A o \in O : p[o] = Sum(d, H(o)) /\ q[o] = Sum(e, H(o))
  BY ProjectedFacts, SpreadIsJoint
<1>2. (\A b \in B : d[b] \in Int /\ e[b] \in Int) /\ DOMAIN d = B
  BY TraceFacts DEF Diagonal
<1>3. IsFiniteSet(B) /\ IsFiniteSet(O) /\ \A o : H(o) \in SUBSET B /\ IsFiniteSet(H(o))
  BY FibresAre, BasisIsFinite, FS_Subset
<1>4. (\A b \in B : k[b] \in O) /\ \A o : H(o) = {b \in B : k[b] = o}
  BY FibresAre DEF Having
<1>5. DOMAIN p = O /\ (\A o \in O : r[o] = Magnitude(p[o] - q[o]))
  BY <1>1 DEF Gaps
<1>6. TotalVariation(p, q) = Sum(r, O) /\ TotalVariation(d, e) = Sum(g, B)
  BY <1>2, <1>5, MetricsAre
<1>7. \A b \in B : f[b] = d[b] - e[b] /\ g[b] = Magnitude(d[b] - e[b])
  BY <1>2 DEF Gaps
<1>8. \A o \in O : h[o] = Sum(g, H(o))
  OBVIOUS
<1> HIDE DEF p, q, d, e, B, H, k, g, f, h, r, O
<1>9. ASSUME NEW b \in B
      PROVE  /\ f[b] \in Int /\ g[b] \in Int /\ f[b] = 1 * d[b] + (-1) * e[b]
             /\ - g[b] <= f[b] /\ f[b] <= g[b]
  <2>1. \A i, j \in Int : i - j \in Int /\ i - j = 1 * i + (-1) * j
    OBVIOUS
  <2>2. d[b] - e[b] \in Int /\ d[b] - e[b] = 1 * d[b] + (-1) * e[b]
    BY <1>2, <2>1
  <2>3. \A i \in Int : Magnitude(i) \in Int /\ - Magnitude(i) <= i /\ i <= Magnitude(i)
    BY MagnitudeFacts
  <2>4. QED BY <1>7, <2>2, <2>3
<1>10. ASSUME NEW o \in O PROVE r[o] \in Int /\ h[o] \in Int /\ r[o] <= h[o]
  <2> DEFINE S == H(o)
  <2>1. IsFiniteSet(S) /\ S \in SUBSET B
    BY <1>3
  <2> HIDE DEF S
  <2>2. \A b \in S : /\ f[b] \in Int /\ g[b] \in Int /\ f[b] = 1 * d[b] + (-1) * e[b]
                     /\ - g[b] <= f[b] /\ f[b] <= g[b]
                     /\ d[b] \in Int /\ e[b] \in Int
    BY <1>2, <1>9, <2>1
  <2>3. Sum(f, S) = 1 * Sum(d, S) + (-1) * Sum(e, S)
    <3>1. 1 \in Int /\ -1 \in Int
      OBVIOUS
    <3>2. QED BY <2>1, <2>2, <3>1, SumCombination
  <2>4. /\ Sum(f, S) \in Int /\ Sum(g, S) \in Int
        /\ - Sum(g, S) <= Sum(f, S) /\ Sum(f, S) <= Sum(g, S)
    BY <2>1, <2>2, SumWithin
  <2>5. Sum(d, S) \in Int /\ Sum(e, S) \in Int
    BY <2>1, <2>2, SumIsInt
  <2>6. Sum(f, S) = Sum(d, S) - Sum(e, S)
    BY <2>3, <2>5
  <2>7. Magnitude(Sum(f, S)) <= Sum(g, S) /\ Magnitude(Sum(f, S)) \in Int
    BY <2>4, MagnitudeFacts
  <2>8. r[o] = Magnitude(Sum(d, S) - Sum(e, S)) /\ h[o] = Sum(g, S)
    BY <1>1, <1>5, <1>8 DEF S
  <2>9. QED BY <2>4, <2>6, <2>7, <2>8
<1>11. Groups(B, O, g, k, h)
  BY <1>4, <1>8, <1>9 DEF Groups
<1>12. Sum(g, B) = Sum(h, O)
  BY <1>3, <1>11, SumFibres
<1>13. Sum(r, O) <= Sum(h, O)
  BY <1>3, <1>10, SumAtMost
<1>14. QED BY <1>6, <1>12, <1>13 DEF p, q, d, e

\* What is said of an impact report, whichever it is.
Attributed(report) ==
    /\ (~ \E i \in DOMAIN circuit : Acts(i, DOMAIN request.noise)) =>
          /\ \A name \in DOMAIN report.state : report.state[name] = 0
          /\ report.outputs # NoEvidence => report.outputs.physical_output_tvd = 0
    /\ channel = NoEvidence /\ report.outputs # NoEvidence =>
          report.outputs.readout_distortion_tvd = 0
    /\ report.outputs # NoEvidence =>
          report.outputs.physical_output_tvd <= report.state.population_tvd
    /\ Magnitude(report.state.delta_coherence) <= report.state.coherence_change
    /\ {f.op : f \in {g \in ToSet(report.findings) : g.kind = "gate"}}
          = {i \in DOMAIN circuit : Acts(i, DOMAIN request.noise)}

\* The output metrics of a run that publishes a distribution.
LEMMA OutputMetricsAre ==
    ASSUME RunIInv, status = "published", Engine = "density", leaves # <<>>
    PROVE  LET metrics == OutputMetrics(Project(UniqueWeights(IdealReplay)))
           IN  /\ metrics.physical_output_tvd
                     <= TotalVariation(Diagonal(IdealReplay), Diagonal(density))
               /\ IdealReplay = density => metrics.physical_output_tvd = 0
               /\ channel = NoEvidence => metrics.readout_distortion_tvd = 0
<1> DEFINE p == Project(UniqueWeights(IdealReplay))
           w == Project(UniqueWeights(density))
           metrics == OutputMetrics(p)
           O == Outcomes(leaves)
<1>1. /\ Arguments /\ leaves \in Leaves(circuit) /\ density \in Densities
      /\ IdealReplay \in Densities /\ Trace(density) \in Nat \ {0}
  BY EndedFacts, IdealReplayFacts
<1>2. output.physical = w /\ (channel = NoEvidence => output.reported = w)
  BY DensityPublishes DEF Reported
<1>3. p \in [O -> Int] /\ w \in [O -> Int] /\ WeightOf(w) = Trace(density) /\ IsFiniteSet(O)
  BY <1>1, ProjectedFacts, FibresAre
<1>4. metrics.physical_output_tvd = TotalVariation(p, w)
  BY <1>2 DEF OutputMetrics
<1>5. TotalVariation(p, w) <= TotalVariation(Diagonal(IdealReplay), Diagonal(density))
  BY <1>1, OutcomesAreWithin
<1>6. TotalVariation(w, w) = 0
  BY <1>3, EqualHasNoGap
<1>7. metrics.readout_distortion_tvd
        = TotalVariation([o \in O |-> w[o] * ReadoutScale], output.reported)
  BY <1>2, <1>3 DEF OutputMetrics
<1>8. ASSUME channel = NoEvidence PROVE metrics.readout_distortion_tvd = 0
  <2>1. ReadoutScale = Trace(density) \div Trace(density)
    BY <1>2, <1>3, <1>8 DEF ReadoutScale
  <2>2. ReadoutScale = 1
    <3>1. \A n \in Nat \ {0} : n \div n = 1
      OBVIOUS
    <3>2. QED BY <1>1, <2>1, <3>1
  <2>3. \A o \in O : w[o] * ReadoutScale = w[o]
    BY <1>3, <2>2
  <2>4. w = [o \in O |-> w[o]]
    BY <1>3
  <2> HIDE DEF w
  <2>5. [o \in O |-> w[o] * ReadoutScale] = w
    BY <2>3, <2>4
  <2>6. QED BY <1>2, <1>6, <1>7, <1>8, <2>5
<1>9. IdealReplay = density => p = w
  OBVIOUS
<1> HIDE DEF p, w
<1>10. QED BY <1>4, <1>5, <1>6, <1>8, <1>9 DEF p

LEMMA FindingsAre ==
    ASSUME NEW S, noiseEvents \in Seq(S), NEW outputs
    PROVE  {f.op : f \in {g \in ToSet(FindingsOf(outputs)) : g.kind = "gate"}}
             = {noiseEvents[k].op : k \in DOMAIN noiseEvents}
<1> DEFINE gates == [i \in DOMAIN noiseEvents |-> GateFinding(noiseEvents[i])]
           tail == IF channel # NoEvidence /\ outputs # NoEvidence
                   THEN <<ReadoutFinding(outputs.readout_distortion_tvd)>> ELSE <<>>
           n == Len(noiseEvents)
           m == Len(tail)
           all == gates \o tail
<1>1. n \in Nat /\ DOMAIN noiseEvents = 1 .. n
  OBVIOUS
<1>2. m \in Nat /\ DOMAIN tail = 1 .. m /\ \A i \in 1 .. m : tail[i].kind = "readout"
  <2>1. CASE tail = <<>>
    <3>1. DOMAIN <<>> = {} /\ Len(<<>>) = 0 /\ 1 .. 0 = {}
      BY EmptySeq
    <3> HIDE DEF tail
    <3>2. QED BY <2>1, <3>1
  <2>2. CASE tail = <<ReadoutFinding(outputs.readout_distortion_tvd)>>
    <3> DEFINE f == ReadoutFinding(outputs.readout_distortion_tvd)
    <3>1. f.kind = "readout"
      BY DEF ReadoutFinding
    <3>2. tail = <<f>>
      BY <2>2
    <3> HIDE DEF tail, f
    <3>3. QED BY <3>1, <3>2
  <2>3. QED BY <2>1, <2>2
<1>3. Len(gates) = n
  BY <1>1
<1>4. DOMAIN all = 1 .. n + m /\ \A i \in 1 .. n + m :
         all[i] = IF i <= n THEN gates[i] ELSE tail[i - n]
  BY <1>1, <1>2, <1>3
<1>5. \A i \in 1 .. n : gates[i].kind = "gate" /\ gates[i].op = noiseEvents[i].op
  BY <1>1 DEF GateFinding
<1>6. FindingsOf(outputs) = all
  BY DEF FindingsOf
<1> HIDE DEF gates, tail, n, m, all
<1>7. \A i \in 1 .. n : i \in 1 .. n + m /\ all[i] = gates[i]
  <2>1. \A i \in 1 .. n : i \in 1 .. n + m /\ i <= n
    BY <1>1, <1>2
  <2>2. QED BY <1>4, <2>1
<1>8. \A i \in 1 .. n + m : all[i].kind = "gate" => i \in 1 .. n
  <2>1. \A i \in 1 .. n + m : i \notin 1 .. n => i - n \in 1 .. m /\ ~ (i <= n)
    BY <1>1, <1>2
  <2>2. \A i \in 1 .. n + m : i \notin 1 .. n => all[i].kind = "readout"
    BY <1>2, <1>4, <2>1
  <2>3. QED BY <2>2
<1>9. {g \in ToSet(all) : g.kind = "gate"} = {gates[i] : i \in 1 .. n}
  <2>1. ToSet(all) = {all[i] : i \in 1 .. n + m}
    BY <1>4 DEF ToSet
  <2>2. QED BY <2>1, <1>5, <1>7, <1>8
<1>10. {f.op : f \in {gates[i] : i \in 1 .. n}} = {noiseEvents[k].op : k \in 1 .. n}
  BY <1>5
<1>11. QED BY <1>1, <1>6, <1>9, <1>10

LEMMA ImpactIsAttributed ==
    ASSUME RunIInv, status = "published", Engine = "density"
    PROVE  Attributed(NoiseImpact)
<1> DEFINE I == IdealReplay
           outputs == IF HasDistributions THEN OutputMetrics(Project(UniqueWeights(I)))
                      ELSE NoEvidence
           report == NoiseImpact
           NoEvent == ~ \E i \in DOMAIN circuit : Acts(i, DOMAIN request.noise)
<1>1. /\ Arguments /\ density = Mixture(Len(circuit))
      /\ \E S : noiseEvents \in Seq(S)
      /\ {noiseEvents[k].op : k \in DOMAIN noiseEvents} = {i \in DOMAIN circuit : Noisy(i)}
      /\ HasDistributions <=> leaves # <<>>
  BY EndedFacts DEF HasDistributions
<1>2. /\ density \in Densities /\ I \in Densities
      /\ (\A i \in DOMAIN circuit : ~ Noisy(i)) => I = density
  BY <1>1, IdealReplayFacts
<1>3. report.state = StateMetrics(I) /\ report.outputs = outputs
      /\ report.findings = FindingsOf(outputs)
  BY DEF NoiseImpact
<1>4. /\ report.state.population_tvd = TotalVariation(Diagonal(I), Diagonal(density))
      /\ report.state.delta_coherence = Coherence(density) - Coherence(I)
      /\ report.state.coherence_change = CoherenceChange(density, I)
      /\ report.state.hilbert_schmidt = HilbertSchmidt(density, I)
      /\ report.state.delta_purity = Purity(density) - Purity(I)
      /\ DOMAIN report.state = {"hilbert_schmidt", "population_tvd", "delta_coherence",
                                "coherence_change", "delta_purity"}
  BY <1>3 DEF StateMetrics
<1>5. outputs # NoEvidence => /\ leaves # <<>>
                              /\ outputs = OutputMetrics(Project(UniqueWeights(I)))
  BY <1>1
<1> HIDE DEF report, outputs
<1>6. NoEvent => I = density
  BY <1>2 DEF Noisy
<1>7. ASSUME NoEvent PROVE \A name \in DOMAIN report.state : report.state[name] = 0
  <2>1. I = density
    BY <1>6, <1>7
  <2>2. /\ DOMAIN Diagonal(density) = BasisStates
        /\ \A b \in BasisStates : Diagonal(density)[b] \in Int
    BY <1>2, TraceFacts DEF Diagonal
  <2>3. TotalVariation(Diagonal(density), Diagonal(density)) = 0
    BY <2>2, BasisIsFinite, EqualHasNoGap
  <2> HIDE DEF I, NoEvent
  <2>4. /\ report.state.population_tvd = 0 /\ report.state.delta_coherence = 0
        /\ report.state.coherence_change = 0 /\ report.state.hilbert_schmidt = 0
        /\ report.state.delta_purity = 0
    BY <1>2, <1>4, <2>1, <2>3, EqualHasNoGap
  <2>5. QED BY <1>4, <2>4
<1>8. ASSUME outputs # NoEvidence
      PROVE  /\ NoEvent => outputs.physical_output_tvd = 0
             /\ channel = NoEvidence => outputs.readout_distortion_tvd = 0
             /\ outputs.physical_output_tvd <= report.state.population_tvd
  BY <1>4, <1>5, <1>6, <1>8, OutputMetricsAre
<1>9. Magnitude(report.state.delta_coherence) <= report.state.coherence_change
  BY <1>2, <1>4, CoherenceIsWithin
<1>10. {f.op : f \in {g \in ToSet(report.findings) : g.kind = "gate"}}
          = {i \in DOMAIN circuit : Acts(i, DOMAIN request.noise)}
  <2>1. {f.op : f \in {g \in ToSet(FindingsOf(outputs)) : g.kind = "gate"}}
          = {noiseEvents[k].op : k \in DOMAIN noiseEvents}
    BY <1>1, FindingsAre
  <2>2. QED BY <1>1, <1>3, <2>1 DEF Noisy
<1>11. QED BY <1>3, <1>7, <1>8, <1>9, <1>10 DEF Attributed, report

LEMMA AttributionIs == DamageIsAttributed <=> (impact # NoEvidence => Attributed(impact))
BY DEF DamageIsAttributed, Attributed

LEMMA StepsKeepAttribution ==
    ASSUME RunIInv, OrderIInv, EvidenceIInv, DamageIsAttributed, [ReportNext]_reportVars
    PROVE  DamageIsAttributed'
<1>1. DamageIsAttributed' <=> (impact' # NoEvidence => Attributed(impact)')
  BY DEF DamageIsAttributed, Attributed
<1>2. ASSUME UNCHANGED <<circuit, request, channel, impact>> PROVE DamageIsAttributed'
  BY <1>1, <1>2, AttributionIs DEF Attributed, Acts
<1>3. ASSUME UNCHANGED runVars PROVE UNCHANGED <<circuit, request, channel>>
  BY <1>3 DEF runVars, executionVars
<1>4. CASE RunStep /\ UNCHANGED artifacts
  <2>1. impact = NoEvidence
    BY <1>4, PublishedRunsAreOver DEF OrderIInv, EvidenceIInv
  <2>2. QED BY <1>1, <1>4, <2>1 DEF artifacts
<1>5. CASE BuildImpact
  <2>1. Published /\ UNCHANGED runVars /\ (impact' = NoiseImpact \/ impact' = impact)
    BY <1>5 DEF BuildImpact
  <2>2. CASE impact' = NoiseImpact
    <3>1. Attributed(NoiseImpact)
      BY <2>1, ImpactIsAttributed DEF Published
    <3> DEFINE report == NoiseImpact
    <3> HIDE DEF report
    <3>2. UNCHANGED <<circuit, request, channel>> /\ impact' = report
      BY <1>3, <2>1, <2>2 DEF report
    <3>3. Attributed(report)
      BY <3>1 DEF report
    <3>4. Attributed(impact)'
      BY <3>2, <3>3 DEF Attributed, Acts
    <3>5. QED BY <1>1, <3>4
  <2>3. CASE impact' = impact
    BY <1>2, <1>3, <2>1, <2>3
  <2>4. QED BY <2>1, <2>2, <2>3
<1>6. ASSUME UNCHANGED <<runVars, impact>> PROVE DamageIsAttributed'
  BY <1>2, <1>3, <1>6
<1>7. CASE RecordProvenance \/ BuildNeed \/ UNCHANGED reportVars
  BY <1>6, <1>7 DEF RecordProvenance, BuildNeed, reportVars, artifacts
<1>8. CASE AssessUnsupported \/ RefuseCriterion \/ AssessIncomplete \/ AssessIndeterminate
              \/ AssessSupported
  BY <1>6, <1>8 DEF AssessUnsupported, RefuseCriterion, AssessIncomplete, AssessIndeterminate,
                    AssessSupported, Assess
<1>9. QED BY <1>4, <1>5, <1>7, <1>8 DEF ReportNext, ReportStep, ReportEnded

\* The impact report blames the damage on the gates whose channels ran, and damage
\* of the outcomes is damage of the populations, for every circuit, noise and
\* readout channel.
THEOREM DamageIsBlamed == ReportSpec => []DamageIsAttributed
<1>1. ReportInit => DamageIsAttributed
  BY DEF ReportInit, DamageIsAttributed
<1>2. QED BY <1>1, StepsKeepAttribution, EvidenceIsKept, ReportInvariant, PTL DEF ReportSpec

-----------------------------------------------------------------------------
(* Constructors accept what the functions build.                             *)

\* The distributions of a published run, and that None is neither.
LEMMA DistributionsAre ==
    ASSUME RunIInv, status = "published", Engine = "density", leaves # <<>>
    PROVE  /\ output.physical \in [Outcomes(leaves) -> Int]
           /\ output.reported \in [Outcomes(leaves) -> Int]
           /\ channel = NoEvidence => output.reported = output.physical
           /\ WeightOf(output.physical) = TraceOf(density)
<1> DEFINE w == Project(UniqueWeights(density))
<1>1. Arguments /\ leaves \in Leaves(circuit) /\ density \in Densities
  BY EndedFacts, IdealReplayFacts
<1>2. w \in [Outcomes(leaves) -> Int] /\ WeightOf(w) = Trace(density)
  BY <1>1, ProjectedFacts
<1>3. output.physical = w /\ output.reported = Reported
  BY DensityPublishes
<1>4. Reported \in [Outcomes(leaves) -> Int]
  BY ReportedFacts
<1>5. channel = NoEvidence => Reported = w
  BY DEF Reported
<1>6. TraceOf(density) = Trace(density)
  BY <1>1, TraceOfIs
<1>7. QED BY <1>2, <1>3, <1>4, <1>5, <1>6

LEMMA ProvenanceIsAccepted ==
    ASSUME RunIInv, Published
    PROVE  SnapshotAccepted(Provenance) /\ ResultAccepted(Provenance)
<1> DEFINE p == Provenance
           sizes == {Cardinality(DOMAIN output.physical), Cardinality(DOMAIN output.reported)}
<1>1. status = "published" /\ Engine = "density"
  BY DEF Published
<1>2. HasDistributions <=> leaves # <<>>
  BY <1>1, EndedFacts DEF HasDistributions
<1>3. /\ p.bindings = DOMAIN request.noise /\ p.readout = channel
      /\ p.gateEvents = [i \in DOMAIN noiseEvents |-> noiseEvents[i].op]
      /\ p.coverage = BuiltCoverage
  BY DEF Provenance
<1>4. ~ HasDistributions => p.results = <<>> /\ p.sizes = {} /\ p.matches = NoEvidence
  BY DEF Provenance
<1>5. HasDistributions => p.results = leaves /\ p.sizes = sizes /\ p.matches = ReportedMatches
  BY DEF Provenance
<1>6. ReportedMatches \in BOOLEAN
  BY DEF ReportedMatches, SameDistribution
<1>7. HasDistributions => sizes = {Cardinality(Outcomes(leaves))}
  BY <1>1, <1>2, DistributionsAre
<1>8. HasDistributions /\ channel = NoEvidence => ReportedMatches
  BY <1>1, <1>2, DistributionsAre DEF ReportedMatches, SameDistribution
<1>9. /\ p.coverage.executed = DerivedCoverage(p).executed
      /\ DerivedCoverage(p).issues \subseteq p.coverage.issues
  BY <1>3 DEF BuiltCoverage, DerivedCoverage, Coverage
<1> HIDE DEF p, sizes
<1>10. SnapshotAccepted(p)
  <2>1. \A x : Cardinality({x}) = 1
    BY FS_Singleton
  <2>2. sizes = {Cardinality(Outcomes(leaves))} => sizes # {} /\ Cardinality(sizes) = 1
    BY <2>1
  <2>3. CASE HasDistributions
    BY <1>2, <1>5, <1>6, <1>7, <2>2, <2>3 DEF SnapshotAccepted
  <2>4. CASE ~ HasDistributions
    BY <1>4, <2>4 DEF SnapshotAccepted
  <2>5. QED BY <2>3, <2>4
<1>11. ResultAccepted(p)
  <2>1. CASE HasDistributions
    BY <1>2, <1>3, <1>5, <1>7, <1>8, <1>9, <2>1 DEF ResultAccepted
  <2>2. CASE ~ HasDistributions
    BY <1>2, <1>3, <1>4, <1>9, <2>2 DEF ResultAccepted
  <2>3. QED BY <2>1, <2>2
<1>12. QED BY <1>10, <1>11 DEF p

LEMMA InspectionIsAccepted ==
    ASSUME NEW D \in Mixed, D \in Densities, density \in Densities, Trace(D) = Trace(density)
    PROVE  InspectionAccepted(Inspection(D))
<1> DEFINE report == Inspection(D)
           n == Cardinality(BasisStates)
           t == Trace(density)
           s == Sum(Squared(D), BasisStates \X BasisStates)
<1>1. TraceOf(density) = t /\ TraceOf(D) = t
  BY TraceOfIs
<1>2. /\ report.populations = Diagonal(D) /\ report.purity = Purity(D)
      /\ WeightOf(report.populations) = TraceOf(D)
  BY DEF Inspection, TraceOf
<1>3. Purity(D) = s
  BY MetricsAre DEF Entries
<1>4. \A b \in BasisStates : report.populations[b] >= 0
  BY <1>2, MixedBounds DEF Diagonal
<1>5. t \in Nat /\ s \in Int /\ s <= t * t /\ t * t <= n * s
  BY PurityBounds
<1>6. n * s = s * n
  <2>1. n \in Nat
    BY BasisIsFinite, FS_CardinalityType
  <2>2. \A i \in Int : \A j \in Nat : j * i = i * j
    OBVIOUS
  <2> HIDE DEF n, s
  <2>3. QED BY <1>5, <2>1, <2>2
<1>7. s * n >= t * t
  <2>1. t * t \in Int
    <3>1. \A i \in Nat : i * i \in Int
      OBVIOUS
    <3> HIDE DEF t
    <3>2. QED BY <1>5, <3>1
  <2>2. n * s \in Int
    <3>1. n \in Nat
      BY BasisIsFinite, FS_CardinalityType
    <3>2. \A i \in Int : \A j \in Nat : j * i \in Int
      OBVIOUS
    <3> HIDE DEF n, s
    <3>3. QED BY <1>5, <3>1, <3>2
  <2>3. \A i, j \in Int : i <= j => j >= i
    OBVIOUS
  <2>4. n * s >= t * t
    BY <1>5, <2>1, <2>2, <2>3
  <2>5. QED BY <1>6, <2>4
<1> HIDE DEF report, n, t, s
<1>8. QED BY <1>1, <1>2, <1>3, <1>4, <1>5, <1>7 DEF InspectionAccepted, report, n

LEMMA ImpactIsAccepted ==
    ASSUME RunIInv, Published
    PROVE  ImpactAccepted(NoiseImpact)
<1> DEFINE I == IdealReplay
           physical == Project(UniqueWeights(I))
           report == NoiseImpact
           metrics == OutputMetrics(physical)
<1>1. status = "published" /\ Engine = "density" /\ (HasDistributions <=> leaves # <<>>)
  BY EndedFacts DEF Published, HasDistributions
<1>2. /\ Arguments /\ leaves \in Leaves(circuit)
      /\ density \in Mixed /\ density \in Densities /\ I \in Mixed /\ I \in Densities
      /\ Trace(I) = Trace(density)
  BY <1>1, EndedFacts, IdealReplayFacts
<1>3. InspectionAccepted(Inspection(I)) /\ InspectionAccepted(Inspection(density))
  BY <1>2, InspectionIsAccepted
<1>4. physical \in [Outcomes(leaves) -> Int] /\ WeightOf(physical) = TraceOf(density)
  BY <1>2, ProjectedFacts, TraceOfIs
<1>5. circuit \in Circuits
  BY <1>2 DEF Arguments
<1>6. physical # NoEvidence
  BY <1>2, <1>4, <1>5, OutputsAreEvidence
<1>7. HasDistributions => metrics # NoEvidence
  <2> SUFFICES ASSUME HasDistributions PROVE metrics # NoEvidence
    OBVIOUS
  <2> DEFINE O == Outcomes(leaves)
             scaled == [o \in O |-> output.physical[o] * ReadoutScale]
  <2>1. /\ output.physical \in [O -> Int] /\ output.reported \in [O -> Int] /\ IsFiniteSet(O)
        /\ DOMAIN physical = O
    BY <1>1, <1>2, <1>4, DistributionsAre, FibresAre
  <2>2. metrics = [physical_output_tvd    |-> TotalVariation(physical, output.physical),
                   readout_distortion_tvd |-> TotalVariation(scaled, output.reported)]
    BY <2>1 DEF OutputMetrics
  <2>3. ASSUME NEW x, NEW y, DOMAIN x = O, \A o \in O : x[o] \in Int /\ y[o] \in Int
        PROVE  TotalVariation(x, y) \in Int
    <3>1. \A i, j \in Int : i - j \in Int
      OBVIOUS
    <3>2. \A o \in O : Gaps(x, y)[o] \in Int
      BY <2>3, <3>1, MagnitudeFacts DEF Gaps
    <3>3. Sum(Gaps(x, y), O) \in Int
      BY <2>1, <3>2, SumIsInt
    <3>4. QED BY <2>3, <3>3, MetricsAre
  <2>4. TotalVariation(physical, output.physical) \in Int
    BY <1>4, <2>1, <2>3
  <2>5. TotalVariation(scaled, output.reported) \in Int
    <3>1. WeightOf(output.physical) \in Nat \ {0}
      BY <1>1, <1>2, DistributionsAre, IdealReplayFacts, EndedFacts, TraceOfIs
    <3>2. WeightOf(output.reported) \in Int
      <4>1. WeightOf(output.reported) = Sum(output.reported, O)
        BY <2>1, WeightIs
      <4>2. \A o \in O : output.reported[o] \in Int
        BY <2>1
      <4>3. QED BY <2>1, <4>1, <4>2, SumIsInt
    <3>3. ReadoutScale \in Int
      <4>1. \A i \in Int : \A n \in Nat \ {0} : i \div n \in Int
        OBVIOUS
      <4>2. QED BY <3>1, <3>2, <4>1 DEF ReadoutScale
    <3>4. \A o \in O : scaled[o] \in Int
      <4>1. \A i, j \in Int : i * j \in Int
        OBVIOUS
      <4>2. QED BY <2>1, <3>3, <4>1
    <3>5. DOMAIN scaled = O
      OBVIOUS
    <3> HIDE DEF scaled, O
    <3>6. QED BY <2>1, <2>3, <3>4, <3>5
  <2> HIDE DEF physical, metrics, scaled
  <2>6. metrics \in [physical_output_tvd : Int, readout_distortion_tvd : Int]
    BY <2>2, <2>4, <2>5
  <2>7. QED BY <2>6, OutputsAreEvidence
<1>8. report.physical = (IF HasDistributions THEN physical ELSE NoEvidence)
      /\ report.outputs = (IF HasDistributions THEN metrics ELSE NoEvidence)
      /\ report.ideal = Inspection(I) /\ report.noisy = Inspection(density)
  BY DEF NoiseImpact
<1>9. HasDistributions => WeightOf(output.physical) = TraceOf(density)
  BY <1>1, DistributionsAre
<1> HIDE DEF physical, metrics, report
<1>10. /\ report.physical = NoEvidence <=> ~ HasDistributions
       /\ report.outputs = NoEvidence <=> ~ HasDistributions
  BY <1>6, <1>7, <1>8
<1>11. HasDistributions => WeightOf(report.physical) = TraceOf(density)
  BY <1>4, <1>8
<1>12. ImpactAccepted(report)
  BY <1>3, <1>8, <1>9, <1>10, <1>11 DEF ImpactAccepted
<1>13. QED BY <1>12 DEF report

\* A failure is a part of the whole weight.
LEMMA FailureIsPart ==
    ASSUME RunIInv, status = "published", Engine = "density", leaves # <<>>, Bindable,
           WellFormed(question')
    PROVE  Failure[1] \in 0 .. Failure[2] /\ Failure # NoEvidence
<1> DEFINE outcomes == question'.acceptance.outcomes
           O == Outcomes(leaves)
           missed == {o \in O : o \notin outcomes}
           x == Selected
<1>1. IsInjective(leaves) /\ question'.acceptance.arity = Len(leaves)
  BY DEF Bindable
<1>2. outcomes \subseteq [1 .. Len(leaves) -> {0, 1}]
  BY <1>1 DEF WellFormed
<1>3. x \in [O -> Nat] /\ IsFiniteSet(O)
  BY <1>1, PublishedAreBelieved, BelievedIs DEF Selected
<1>4. Arguments /\ leaves \in Leaves(circuit)
  BY PublishedFacts
<1> HIDE DEF x, outcomes
<1>5. /\ WeightOf(x) = Sum(x, O) /\ WeightOf(x) \in Nat
      /\ WeightOf(x) - SuccessWeight(x, outcomes) = Sum(x, missed)
  BY <1>2, <1>3, <1>4, MissedIs
<1>6. Failure = <<WeightOf(x) - SuccessWeight(x, outcomes), WeightOf(x)>>
  BY DEF Failure, x, outcomes
<1> HIDE DEF O
<1>7. missed \in SUBSET O /\ \A o \in O : x[o] \in Int /\ x[o] \in Nat
  BY <1>3
<1> HIDE DEF missed
<1>8. Sum(x, missed) \in Nat /\ Sum(x, O \ missed) \in Nat
  <2>1. IsFiniteSet(missed) /\ IsFiniteSet(O \ missed)
    BY <1>3, <1>7, FS_Subset
  <2>2. (\A o \in missed : x[o] \in Nat) /\ (\A o \in O \ missed : x[o] \in Nat)
    BY <1>7
  <2>3. QED BY <2>1, <2>2, SumOfNaturals
<1>9. Sum(x, O) = Sum(x, missed) + Sum(x, O \ missed)
  BY <1>3, <1>7, SumOfParts
<1>10. \A i, j, k \in Nat : k = i + j => i \in 0 .. k
  OBVIOUS
<1>11. Sum(x, missed) \in 0 .. WeightOf(x)
  BY <1>5, <1>8, <1>9, <1>10
<1>12. Failure \in Int \X Int
  <2>1. Sum(x, missed) \in Int /\ WeightOf(x) \in Int
    BY <1>5, <1>8
  <2>2. QED BY <1>5, <1>6, <2>1
<1>13. Failure # NoEvidence
  BY <1>12, OutputsAreEvidence
<1>14. Failure[1] = Sum(x, missed) /\ Failure[2] = WeightOf(x)
  BY <1>5, <1>6
<1>15. QED BY <1>11, <1>13, <1>14

\* Every answer passes the checks of the report's constructor.
LEMMA AnswersAreAccepted ==
    ASSUME RunIInv, OrderIInv, EvidenceIInv,
           AssessUnsupported \/ AssessIncomplete \/ AssessIndeterminate \/ AssessSupported
    PROVE  UNCHANGED refusal
<1>1. Asked /\ provenance # NoEvidence
  BY AskedFacts DEF AssessUnsupported, AssessIncomplete, AssessIndeterminate, AssessSupported,
                    Assessable, Asked, OrderIInv
<1>2. status = "published" /\ Engine = "density" /\ WellFormed(question')
      /\ question'.acceptance.outcomes # NoEvidence
  <2>1. circuit \in Circuits /\ leaves \in Leaves(circuit)
    BY DEF RunIInv, ExecutionIInv, ControlIInv, Progress, Arguments, PublishIInv
  <2>2. question' \in Questions(Len(leaves)) /\ WellFormed(question') /\ Published
    BY <1>1 DEF Asked
  <2>3. QED BY <2>1, <2>2, QuestionsAssumption DEF Published
<1>3. \A report : Assess(report) /\ BareAccepted(report) => UNCHANGED refusal
  BY DEF Assess
<1>4. Assessable /\ Bindable =>
         Failure[1] \in 0 .. Failure[2] /\ Failure # NoEvidence
  BY <1>2, FailureIsPart, EndedFacts DEF Assessable, HasDistributions
<1>5. CASE AssessUnsupported
  <2> DEFINE report == BareReport("unsupported", "not evaluated", NoEvidence, NoEvidence, {})
  <2>1. /\ report.status = "unsupported" /\ report.verdict = "not evaluated"
        /\ report.bound = NoEvidence /\ report.failure = NoEvidence
    BY DEF BareReport
  <2> HIDE DEF report
  <2>2. BareAccepted(report)
    BY <2>1 DEF BareAccepted
  <2>3. QED BY <1>3, <1>5, <2>2 DEF AssessUnsupported, report
<1>6. CASE AssessIncomplete
  <2> DEFINE report == BareReport("incomplete", "not evaluated", question'.acceptance.outcomes,
                                  Failure, provenance.coverage.issues)
  <2>1. /\ report.status = "incomplete" /\ report.verdict = "not evaluated"
        /\ report.bound # NoEvidence /\ report.failure = Failure
    BY <1>2 DEF BareReport
  <2>2. Assess(report)
    BY <1>6 DEF AssessIncomplete
  <2>3. Failure[1] \in 0 .. Failure[2] /\ Failure # NoEvidence
    BY <1>4, <1>6 DEF AssessIncomplete
  <2> HIDE DEF report
  <2>4. BareAccepted(report)
    BY <2>1, <2>3 DEF BareAccepted
  <2>5. QED BY <1>3, <2>2, <2>4
<1>7. CASE AssessIndeterminate
  <2> DEFINE report == BareReport("indeterminate", "not evaluated",
                                  question'.acceptance.outcomes, Failure, {})
  <2>1. /\ report.status = "indeterminate" /\ report.verdict = "not evaluated"
        /\ report.bound # NoEvidence /\ report.failure = Failure
    BY <1>2 DEF BareReport
  <2>2. Assess(report) /\ question'.goal.confident
    BY <1>7 DEF AssessIndeterminate
  <2>3. Failure[1] \in 0 .. Failure[2] /\ Failure # NoEvidence
    BY <1>4, <1>7 DEF AssessIndeterminate
  <2> HIDE DEF report
  <2>4. BareAccepted(report)
    BY <2>1, <2>2, <2>3 DEF BareAccepted
  <2>5. QED BY <1>3, <2>2, <2>4
<1>8. CASE AssessSupported
  <2> DEFINE report == BareReport("supported", Verdict(Failure, question'.goal.maximum),
                                  question'.acceptance.outcomes, Failure, {})
  <2>1. /\ report.status = "supported" /\ report.issues = {}
        /\ report.bound # NoEvidence /\ report.failure = Failure
    BY <1>2 DEF BareReport
  <2>2. Assess(report) /\ ~ question'.goal.confident
    BY <1>8 DEF AssessSupported
  <2>3. Failure[1] \in 0 .. Failure[2] /\ Failure # NoEvidence
    BY <1>4, <1>8 DEF AssessSupported
  <2> HIDE DEF report
  <2>4. BareAccepted(report)
    BY <2>1, <2>2, <2>3 DEF BareAccepted
  <2>5. QED BY <1>3, <2>2, <2>4
<1>9. QED BY <1>5, <1>6, <1>7, <1>8

\* A goal that is violated is exceeded.
LEMMA NeedIsAccepted ==
    ASSUME RunIInv, OrderIInv, EvidenceIInv, bare # NoEvidence
    PROVE  NeedAccepted(NeedReport)
<1> DEFINE goal == question.goal.maximum
           risk == <<Rejected(Believed), WeightOf(Believed)>>
           report == NeedReport
<1> SUFFICES ASSUME report.verdict = "required"
             PROVE  /\ report.metrics.excess[1] > 0
                    /\ report.metrics.suppress[1] > report.metrics.suppress[2]
  BY DEF NeedAccepted
<1>1. bare.status = "supported" /\ bare.verdict = "violated" /\ report.metrics = Requirement
  BY DEF NeedReport, NeedVerdict
<1>2. Answered /\ status = "published" /\ Engine = "density" /\ question \in Questions(Len(leaves))
  BY DEF EvidenceIInv, Answered, OrderIInv
<1>3. goal \in Nat \X Nat
  <2>1. circuit \in Circuits /\ leaves \in Leaves(circuit)
    BY DEF RunIInv, ExecutionIInv, ControlIInv, Progress, Arguments, PublishIInv
  <2>2. QED BY <1>2, <2>1, QuestionsAssumption
<1>4. Answer = "supported" /\ leaves # <<>>
  BY <1>1, <1>2, EndedFacts DEF Answered, Answer, HasDistributions
<1>5. bare.failure = risk /\ IsFraction(risk) /\ Verdict(risk, goal) = "violated"
  <2>1. Missed = risk /\ Rejected(Believed) \in Int /\ WeightOf(Believed) \in Nat
    BY <1>2, <1>4, ChosenIsBelieved DEF Answered
  <2>2. QED BY <1>1, <1>2, <1>4, <2>1 DEF Answered, IsFraction
<1> HIDE DEF goal, risk, report
<1>6. Exceeds(risk, goal)
  BY <1>3, <1>5, VerdictIs
<1>7. /\ Requirement.excess[1] = risk[1] * goal[2] - risk[2] * goal[1]
      /\ Requirement.suppress[1] = risk[1] * goal[2]
      /\ Requirement.suppress[2] = risk[2] * goal[1]
  <2>1. Requirement.excess = <<bare.failure[1] * goal[2] - bare.failure[2] * goal[1],
                               bare.failure[2] * goal[2]>>
    BY DEF Requirement, goal
  <2>2. Requirement.suppress = <<bare.failure[1] * goal[2], bare.failure[2] * goal[1]>>
    BY <1>1 DEF Requirement, goal
  <2>3. QED BY <1>5, <2>1, <2>2
<1>8. risk[1] * goal[2] > risk[2] * goal[1] /\ risk[1] * goal[2] - risk[2] * goal[1] > 0
  <2>1. risk[1] \in Int /\ risk[2] \in Int /\ goal[1] \in Int /\ goal[2] \in Int
    BY <1>3, <1>5 DEF IsFraction
  <2>2. risk[1] * goal[2] > goal[1] * risk[2]
    BY <1>6 DEF Exceeds
  <2>3. \A i, j, k, l \in Int : i * l > k * j => i * l > j * k /\ i * l - j * k > 0
    OBVIOUS
  <2>4. QED BY <2>1, <2>2, <2>3
<1>9. QED BY <1>1, <1>7, <1>8

LEMMA StepsTurnNothingDown ==
    ASSUME RunIInv, OrderIInv, EvidenceIInv, NoReportTurnedDown, [ReportNext]_reportVars
    PROVE  NoReportTurnedDown'
<1>1. ASSUME UNCHANGED <<leaves, question, refusal>> PROVE NoReportTurnedDown'
  BY <1>1 DEF NoReportTurnedDown
<1>2. UNCHANGED runVars => UNCHANGED leaves
  BY DEF runVars
<1>3. CASE RunStep /\ UNCHANGED artifacts
  BY <1>1, <1>3, RunStepsKeepPlan DEF RunNext, artifacts
<1>4. CASE RecordProvenance
  BY <1>1, <1>2, <1>4, ProvenanceIsAccepted DEF RecordProvenance
<1>5. CASE BuildImpact
  BY <1>1, <1>2, <1>5, ImpactIsAccepted DEF BuildImpact
<1>6. CASE BuildNeed
  BY <1>1, <1>2, <1>6, NeedIsAccepted DEF BuildNeed
<1>7. CASE UNCHANGED reportVars
  BY <1>1, <1>2, <1>7 DEF reportVars, artifacts
<1>8. CASE RefuseCriterion
  <2>1. UNCHANGED leaves /\ refusal' = "criterion" /\ ~ Bindable
    BY <1>2, <1>8 DEF RefuseCriterion
  <2>2. QED BY <2>1 DEF NoReportTurnedDown, Bindable
<1>9. CASE AssessUnsupported \/ AssessIncomplete \/ AssessIndeterminate \/ AssessSupported
  <2>1. UNCHANGED refusal
    BY <1>9, AnswersAreAccepted
  <2>2. refusal = "none"
    BY <1>9 DEF AssessUnsupported, AssessIncomplete, AssessIndeterminate, AssessSupported,
                Assessable, Asked, Published
  <2>3. QED BY <2>1, <2>2 DEF NoReportTurnedDown
<1>10. QED BY <1>3, <1>4, <1>5, <1>6, <1>7, <1>8, <1>9 DEF ReportNext, ReportStep, ReportEnded

\* Every artifact passes the checks of its constructor, for every circuit, noise,
\* readout channel and question; a criterion that does not fit the leaves is the
\* only thing turned down.
THEOREM NothingIsTurnedDown == ReportSpec => []NoReportTurnedDown
<1>1. ReportInit => NoReportTurnedDown
  BY DEF ReportInit, NoReportTurnedDown
<1>2. QED BY <1>1, StepsTurnNothingDown, EvidenceIsKept, ReportInvariant, PTL DEF ReportSpec

-----------------------------------------------------------------------------
(* A step of a trace is determined by the state before it and its evidence.  *)

SameEvidence(x, y) ==
    x.probabilities = y.probabilities /\ x.outcome = y.outcome /\ x.reset = y.reset

LEMMA EvidenceDeterminesStep ==
    ASSUME NEW e, NEW f, NEW i, NEW operation \in AllocatedOperations, NEW before, NEW x, NEW y,
           NoEvidence \notin Outcomes(operation.targets),
           StepOf(e, i, operation, before, x), StepOf(f, i, operation, before, y),
           SameEvidence(x, y)
    PROVE  x = y
<1>1. CASE e = "exact" /\ f = "exact"
  BY <1>1 DEF StepOf, ExactStep
<1>2. CASE operation.opcode = "RESET"
  <2>1. ResetStep(i, operation, before, x) /\ ResetStep(i, operation, before, y)
    BY <1>2 DEF StepOf, ExactStep, SampledStep, GateStep, MeasureStep
  <2>2. PICK a \in {0, 1} :
           x = StepRecord(i, operation, before, ResetState(before, operation.targets[1], a),
                          NoEvidence, NoEvidence,
                          [op |-> i, target |-> operation.targets[1], outcome |-> a])
    BY <2>1 DEF ResetStep
  <2>3. PICK b \in {0, 1} :
           y = StepRecord(i, operation, before, ResetState(before, operation.targets[1], b),
                          NoEvidence, NoEvidence,
                          [op |-> i, target |-> operation.targets[1], outcome |-> b])
    BY <2>1 DEF ResetStep
  <2>4. x.reset.outcome = a /\ y.reset.outcome = b
    BY <2>2, <2>3 DEF StepRecord
  <2>5. a = b
    BY <2>4 DEF SameEvidence
  <2>6. QED BY <2>2, <2>3, <2>5
<1>3. CASE operation.opcode = "MEASURE" /\ e # "exact" /\ f # "exact"
  <2>1. MeasureStep(i, operation, before, x) /\ MeasureStep(i, operation, before, y)
    BY <1>3 DEF StepOf, SampledStep, GateStep, ResetStep
  <2>2. PICK a : x = StepRecord(i, operation, before, Collapse(before, operation.targets, a),
                                NoEvidence, a, NoEvidence)
    BY <2>1 DEF MeasureStep
  <2>3. PICK b : y = StepRecord(i, operation, before, Collapse(before, operation.targets, b),
                                NoEvidence, b, NoEvidence)
    BY <2>1 DEF MeasureStep
  <2>4. a = b
    BY <2>2, <2>3 DEF StepRecord, SameEvidence
  <2>5. QED BY <2>2, <2>3, <2>4
<1>4. CASE operation.opcode = "MEASURE" /\ ~ (e = "exact" <=> f = "exact")
  <2>1. ASSUME NEW p, NEW q, ExactStep(i, operation, before, p),
               SampledStep(i, operation, before, q)
        PROVE  p.outcome # q.outcome
    <3>1. p.outcome = NoEvidence
      BY <2>1 DEF ExactStep, StepRecord
    <3>2. MeasureStep(i, operation, before, q)
      BY <1>4, <2>1 DEF SampledStep, GateStep, ResetStep
    <3>3. q.outcome \in Outcomes(operation.targets)
      BY <3>2 DEF MeasureStep, StepRecord
    <3>4. QED BY <3>1, <3>3
  <2>2. QED BY <1>4, <2>1 DEF StepOf, SameEvidence
<1>5. CASE operation.opcode \notin {"MEASURE", "RESET"}
  <2>1. ASSUME NEW g, NEW z, StepOf(g, i, operation, before, z)
        PROVE  z = StepRecord(i, operation, before, ApplyOperation(before, operation),
                              NoEvidence, NoEvidence, NoEvidence)
    BY <1>5, <2>1 DEF StepOf, ExactStep, SampledStep, GateStep, MeasureStep, ResetStep
  <2>2. QED BY <2>1
<1>6. QED BY <1>1, <1>2, <1>3, <1>4, <1>5

LEMMA StepNamesOperation ==
    ASSUME NEW e, NEW i, NEW operation, NEW before, NEW x, StepOf(e, i, operation, before, x)
    PROVE  x.op = i /\ x.before = before
BY DEF StepOf, ExactStep, SampledStep, GateStep, MeasureStep, ResetStep, StepRecord

-----------------------------------------------------------------------------
(* The recorded runs.                                                        *)

\* Every step of a recorded trace is a step of one engine.
TraceRun(run) ==
    /\ run.operations \in Circuits
    /\ \E S : run.steps \in Seq(S)
    /\ Len(run.steps) = Len(run.operations)
    /\ \E engine \in {"exact", "sampled"} : \A i \in DOMAIN run.steps :
          StepOf(engine, i, run.operations[i], StateBefore(run.steps, i), run.steps[i])

LEMMA TraceRunFacts ==
    ASSUME NEW run, TraceRun(run)
    PROVE  /\ Len(run.steps) \in Nat
           /\ DOMAIN run.steps = 1 .. Len(run.steps)
           /\ DOMAIN run.operations = DOMAIN run.steps
           /\ run.operations \in Seq(AllocatedOperations)
           /\ run.steps = [i \in DOMAIN run.steps |-> run.steps[i]]
           /\ \A i \in DOMAIN run.steps : /\ run.operations[i] \in AllocatedOperations
                                          /\ run.steps[i].op = i
                                          /\ run.steps[i].before = StateBefore(run.steps, i)
<1>1. PICK S : run.steps \in Seq(S)
  BY DEF TraceRun
<1>2. run.operations \in Seq(AllocatedOperations)
  BY CircuitsAreSequences DEF TraceRun
<1>3. /\ Len(run.steps) \in Nat /\ DOMAIN run.steps = 1 .. Len(run.steps)
      /\ run.steps = [i \in DOMAIN run.steps |-> run.steps[i]]
  BY <1>1, LenProperties, SeqDef
<1>4. DOMAIN run.operations = DOMAIN run.steps
  BY <1>2, <1>3, LenProperties DEF TraceRun
<1>5. ASSUME NEW i \in DOMAIN run.steps
      PROVE  /\ run.operations[i] \in AllocatedOperations
             /\ run.steps[i].op = i /\ run.steps[i].before = StateBefore(run.steps, i)
  BY <1>2, <1>4, ElementOfSeq, LenProperties, StepNamesOperation DEF TraceRun
<1>6. QED BY <1>2, <1>3, <1>4, <1>5

\* Two traces of the same operations with the same evidence are the same trace.
LEMMA EvidenceDeterminesTrace ==
    ASSUME NEW r, NEW t, TraceRun(r), TraceRun(t), r.operations = t.operations,
           \A i \in DOMAIN r.steps : SameEvidence(r.steps[i], t.steps[i])
    PROVE  r.steps = t.steps
<1> DEFINE n == Len(r.steps)
           Alike == {m \in Nat : m <= n => \A i \in 1 .. m : r.steps[i] = t.steps[i]}
<1>1. /\ n \in Nat /\ DOMAIN r.steps = 1 .. n /\ DOMAIN t.steps = 1 .. n
      /\ r.steps = [i \in 1 .. n |-> r.steps[i]] /\ t.steps = [i \in 1 .. n |-> t.steps[i]]
  BY TraceRunFacts
<1>2. PICK e : \A i \in 1 .. n :
                  StepOf(e, i, r.operations[i], StateBefore(r.steps, i), r.steps[i])
  BY <1>1 DEF TraceRun
<1>3. PICK f : \A i \in 1 .. n :
                  StepOf(f, i, r.operations[i], StateBefore(t.steps, i), t.steps[i])
  BY <1>1 DEF TraceRun
<1> HIDE DEF n
<1>4. 0 \in Alike
  OBVIOUS
<1>5. ASSUME NEW m \in Nat, m \in Alike PROVE m + 1 \in Alike
  <2> SUFFICES ASSUME m + 1 <= n PROVE \A i \in 1 .. m + 1 : r.steps[i] = t.steps[i]
    OBVIOUS
  <2>1. \A i \in 1 .. m : r.steps[i] = t.steps[i]
    BY <1>1, <1>5
  <2>2. m + 1 \in 1 .. n /\ (m + 1 # 1 => (m + 1) - 1 \in 1 .. m)
    BY <1>1
  <2>3. StateBefore(r.steps, m + 1) = StateBefore(t.steps, m + 1)
    BY <2>1, <2>2 DEF StateBefore
  <2>4. /\ r.operations[m + 1] \in AllocatedOperations
        /\ NoEvidence \notin Outcomes(r.operations[m + 1].targets)
    BY <1>1, <2>2, TraceRunFacts, NoneIsNoOutcome DEF TraceRun
  <2>5. SameEvidence(r.steps[m + 1], t.steps[m + 1])
    BY <1>1, <2>2
  <2>6. r.steps[m + 1] = t.steps[m + 1]
    BY <1>2, <1>3, <2>2, <2>3, <2>4, <2>5, EvidenceDeterminesStep
  <2>7. \A i \in 1 .. m + 1 : i \in 1 .. m \/ i = m + 1
    OBVIOUS
  <2>8. QED BY <2>1, <2>6, <2>7
<1>6. n \in Alike
  <2> HIDE DEF Alike
  <2>1. QED BY <1>1, <1>4, <1>5, SetInduction
<1>7. \A i \in 1 .. n : r.steps[i] = t.steps[i]
  BY <1>1, <1>6
<1>8. QED BY <1>1, <1>7

\* What the constructor checks, and what it does not: it never sees a state.
Selects(start, run) == start = 0 \/ IsStepIndex(start, run)

SameRuns(c, t, i) ==
    c.operations = t.operations /\ i.operations = t.operations /\ i.steps = t.steps

LEMMA AcceptedIsOneRun ==
    ASSUME NEW c, NEW t, NEW i, TraceRun(c), TraceRun(t), TraceRun(i), NEW start
    PROVE  SessionAccepted(c.operations, t, StepInspection(i), start)
              <=> SameRuns(c, t, i) /\ Selects(start, t)
<1> DEFINE Accepted == SessionAccepted(c.operations, t, StepInspection(i), start)
<1>1. /\ Len(t.steps) \in Nat /\ DOMAIN t.steps = 1 .. Len(t.steps)
      /\ DOMAIN i.steps = 1 .. Len(i.steps) /\ Len(i.steps) \in Nat
      /\ \A k \in DOMAIN t.steps : t.steps[k].op = k
      /\ \A k \in DOMAIN i.steps : i.steps[k].op = k
  BY TraceRunFacts
<1>2. DOMAIN StepInspection(i) = DOMAIN i.steps /\ Len(StepInspection(i)) = Len(i.steps)
  BY <1>1 DEF StepInspection
<1>3. (IF t.steps = <<>> THEN start = 0 ELSE IsStepIndex(start, t)) <=> Selects(start, t)
  <2>1. t.steps = <<>> <=> Len(t.steps) = 0
    <3>1. PICK S : t.steps \in Seq(S)
      BY Zenon DEF TraceRun
    <3>2. QED BY <3>1, EmptySeq
  <2>2. QED BY <1>1, <2>1 DEF Selects, IsStepIndex
<1>4. \A k \in DOMAIN i.steps :
         /\ StepInspection(i)[k].operation = i.operations[k]
         /\ StepInspection(i)[k].measurement = <<i.steps[k].probabilities, i.steps[k].outcome>>
         /\ StepInspection(i)[k].reset = i.steps[k].reset
  BY <1>1, Zenon DEF StepInspection, InspectedStep
<1>5. ASSUME Accepted PROVE SameRuns(c, t, i) /\ Selects(start, t)
  <2>1. /\ Len(c.operations) = Len(t.steps) /\ Len(i.steps) = Len(t.steps)
        /\ \A k \in DOMAIN t.steps :
              /\ c.operations[k] = t.operations[k]
              /\ MetadataMatches(StepInspection(i)[k], t.operations[k], t.steps[k])
    BY <1>1, <1>2, <1>5 DEF SessionAccepted
  <2>2. DOMAIN i.steps = DOMAIN t.steps /\ DOMAIN c.operations = DOMAIN t.steps
    BY <1>1, <2>1, TraceRunFacts, LenProperties
  <2>3. \A k \in DOMAIN t.steps : i.operations[k] = t.operations[k]
    BY <1>4, <2>1, <2>2 DEF MetadataMatches
  <2>4. \A k \in DOMAIN i.steps : SameEvidence(i.steps[k], t.steps[k])
    BY <1>4, <2>1, <2>2 DEF MetadataMatches, SameEvidence
  <2>5. ASSUME NEW a \in Seq(AllocatedOperations), NEW b \in Seq(AllocatedOperations),
               Len(a) = Len(b), \A k \in DOMAIN b : a[k] = b[k]
        PROVE  a = b
    <3>1. a \in [1 .. Len(a) -> AllocatedOperations] /\ b \in [1 .. Len(b) -> AllocatedOperations]
      BY <2>5, LenProperties
    <3>2. /\ a = [k \in 1 .. Len(a) |-> a[k]] /\ b = [k \in 1 .. Len(a) |-> b[k]]
          /\ DOMAIN b = 1 .. Len(a)
      BY <2>5, <3>1
    <3>3. QED BY <2>5, <3>2
  <2>6. c.operations = t.operations /\ i.operations = t.operations
    <3>1. /\ c.operations \in Seq(AllocatedOperations) /\ t.operations \in Seq(AllocatedOperations)
          /\ i.operations \in Seq(AllocatedOperations) /\ DOMAIN t.operations = DOMAIN t.steps
      BY TraceRunFacts
    <3>2. /\ Len(c.operations) = Len(t.operations) /\ Len(i.operations) = Len(t.operations)
          /\ \A k \in DOMAIN t.operations : /\ c.operations[k] = t.operations[k]
                                            /\ i.operations[k] = t.operations[k]
      BY <2>1, <2>3, <3>1 DEF TraceRun
    <3>3. QED BY <2>5, <3>1, <3>2
  <2>7. i.steps = t.steps
    BY <2>4, <2>6, EvidenceDeterminesTrace
  <2>8. Selects(start, t)
    BY <1>3, <1>5 DEF SessionAccepted
  <2>9. QED BY <2>6, <2>7, <2>8 DEF SameRuns
<1>6. ASSUME SameRuns(c, t, i), Selects(start, t) PROVE Accepted
  <2>1. c.operations = t.operations /\ i.operations = t.operations /\ i.steps = t.steps
    BY <1>6 DEF SameRuns
  <2>2. \A k \in DOMAIN t.steps :
           MetadataMatches(StepInspection(i)[k], t.operations[t.steps[k].op], t.steps[k])
    BY <1>1, <1>4, <2>1 DEF MetadataMatches
  <2>3. Len(c.operations) = Len(t.steps)
    BY <2>1 DEF TraceRun
  <2>4. QED BY <1>1, <1>2, <1>3, <1>6, <2>1, <2>2, <2>3 DEF SessionAccepted
<1>7. QED BY <1>5, <1>6

-----------------------------------------------------------------------------
(* The program around the session.                                           *)

SessionStatuses == {"session", "session refused", "debugging", "listing", "quit", "step error"}

DebuggerStatuses == Statuses \union {"recorded"} \union SessionStatuses

Artifacts == [circuit : DOMAIN recorded, trace : DOMAIN recorded,
              inspection : DOMAIN recorded, current : Nat]

RecordedRuns == \A n \in DOMAIN recorded : TraceRun(recorded[n])

\* A session is over recorded runs; unless it was refused, they are one run and the
\* selected step exists.
SessionKept ==
    status \in SessionStatuses =>
        /\ session \in Artifacts
        /\ status # "session refused" <=>
              /\ SameRuns(recorded[session.circuit], Traced, recorded[session.inspection])
              /\ Selects(session.current, Traced)

Shown == IsStepIndex(screen.index, Traced) /\ screen = View(screen.index)

\* A view is one of an accepted session, and the loop shows its selected step.
ScreenKept ==
    /\ status \in {"debugging", "listing"} => Shown
    /\ screen # NoView => status \in SessionStatuses \ {"session refused"} /\ Shown
    /\ status = "debugging" => screen.index = session.current

DebuggerIInv ==
    /\ ControlIInv /\ TraceIInv
    /\ status \in DebuggerStatuses
    /\ \E S : recorded \in Seq(S)
    /\ RecordedRuns
    /\ status \notin SessionStatuses => session = NoSession /\ screen = NoView
    /\ SessionKept /\ ScreenKept

LEMMA InitEstablishesDebugger == DebuggerInit => DebuggerIInv
<1> SUFFICES ASSUME DebuggerInit PROVE DebuggerIInv
  OBVIOUS
<1>1. ExecutionInit /\ recorded = <<>> /\ session = NoSession /\ screen = NoView
  BY DEF DebuggerInit
<1>2. status = "requested"
  BY <1>1 DEF ExecutionInit
<1>3. recorded \in Seq({}) /\ DOMAIN recorded = {}
  BY <1>1, EmptySeq
<1>4. ControlIInv /\ TraceIInv
  BY <1>1, InitEstablishesControl, InitEstablishesTrace
<1>5. status \in DebuggerStatuses /\ status \notin SessionStatuses
  BY <1>2 DEF DebuggerStatuses, SessionStatuses, Statuses
<1>6. SessionKept /\ ScreenKept
  BY <1>1, <1>2, <1>5 DEF SessionKept, ScreenKept
<1>7. QED BY <1>1, <1>3, <1>4, <1>5, <1>6 DEF DebuggerIInv, RecordedRuns

\* While there is no session, nothing is claimed of one.
LEMMA NoSessionYet ==
    ASSUME DebuggerIInv, status' \in DebuggerStatuses \ SessionStatuses,
           status \notin SessionStatuses, UNCHANGED <<session, screen>>
    PROVE  /\ (status \notin SessionStatuses => session = NoSession /\ screen = NoView)'
           /\ SessionKept' /\ ScreenKept'
BY DEF DebuggerIInv, SessionKept, ScreenKept, SessionStatuses

LEMMA EngineKeepsDebugger == DebuggerIInv /\ RunTraced => DebuggerIInv'
<1> SUFFICES ASSUME DebuggerIInv, RunTraced PROVE DebuggerIInv'
  OBVIOUS
<1>1. EngineStep /\ UNCHANGED <<recorded, session, screen>>
  BY DEF RunTraced
<1>2. ControlIInv' /\ TraceIInv'
  BY <1>1, EngineStepIsLoopStep, StartKeepsControl, LoopKeepsControl, StartKeepsTrace,
     LoopKeepsTrace DEF DebuggerIInv
<1>3. status \in {"requested", "running"} /\ status' \in Statuses
  BY <1>1, EngineStatuses
<1>4. status \notin SessionStatuses /\ status' \in DebuggerStatuses \ SessionStatuses
  BY <1>3 DEF Statuses, SessionStatuses, DebuggerStatuses
<1>5. RecordedRuns'
  BY <1>1 DEF DebuggerIInv, RecordedRuns
<1>6. QED BY <1>1, <1>2, <1>4, <1>5, NoSessionYet DEF DebuggerIInv

LEMMA RecordKeepsDebugger == DebuggerIInv /\ Record => DebuggerIInv'
<1> SUFFICES ASSUME DebuggerIInv, Record PROVE DebuggerIInv'
  OBVIOUS
<1> DEFINE run == [operations |-> circuit, width |-> width, steps |-> trace]
<1>1. /\ status = "finished" /\ status' = "recorded" /\ request.traced
      /\ recorded' = Append(recorded, run)
      /\ UNCHANGED <<circuit, request, pc, state, observed, shots, trace, session, screen>>
  BY DEF Record, KeepEngine
<1>2. Progress'
  BY <1>1, EndingKeepsProgress DEF DebuggerIInv, ControlIInv
<1>3. Stopped' /\ TraceIInv'
  BY <1>1, KeepingKeepsTrace DEF DebuggerIInv, Stopped
<1>4. TraceRun(run)
  <2>1. Capturing
    BY <1>1 DEF Capturing, DebuggerIInv, ControlIInv, Stopped
  <2>2. Engine \in {"exact", "sampled"} /\ (Engine = "sampled" => request.shots = 1)
    BY <2>1, CapturingFacts DEF DebuggerIInv, ControlIInv, Progress
  <2>3. Engine = "sampled" => Len(shots) = 1 /\ shots # <<>>
    <3>1. Engine = "sampled" => Len(shots) = 1
      BY <1>1, <2>2 DEF DebuggerIInv, TraceIInv
    <3>2. Len(<<>>) # 1
      BY EmptySeq
    <3>3. QED BY <3>1, <3>2
  <2>4. pc = Len(circuit) + 1
    <3>1. CASE Engine # "sampled"
      BY <1>1, <3>1 DEF DebuggerIInv, ControlIInv, Stopped
    <3>2. CASE Engine = "sampled"
      <4>1. shots = <<>> \/ pc = Len(circuit) + 1
        BY <2>1 DEF DebuggerIInv, TraceIInv
      <4>2. QED BY <2>3, <3>2, <4>1
    <3>3. QED BY <3>1, <3>2
  <2>5. Len(trace) = Len(circuit)
    <3>1. Len(trace) = pc - 1
      BY <2>1 DEF DebuggerIInv, TraceIInv
    <3>2. Len(circuit) \in Nat
      BY ArgumentFacts DEF DebuggerIInv, ControlIInv, Progress
    <3>3. QED BY <2>4, <3>1, <3>2
  <2>6. \A i \in DOMAIN trace : StepOf(Engine, i, circuit[i], StateBefore(trace, i), trace[i])
    BY DEF DebuggerIInv, TraceIInv
  <2>7. circuit \in Circuits /\ \E S : trace \in Seq(S)
    BY DEF DebuggerIInv, TraceIInv, TraceIsSequence, ControlIInv, Progress, Arguments
  <2>8. QED BY <2>2, <2>5, <2>6, <2>7 DEF TraceRun
<1> HIDE DEF run
<1>5. PICK S : recorded \in Seq(S)
  BY DEF DebuggerIInv
<1>6. /\ recorded' \in Seq(S \union {run})
      /\ DOMAIN recorded = 1 .. Len(recorded) /\ DOMAIN recorded' = 1 .. Len(recorded) + 1
      /\ Len(recorded) \in Nat
      /\ \A n \in DOMAIN recorded : recorded'[n] = recorded[n]
      /\ recorded'[Len(recorded) + 1] = run
  BY <1>1, <1>5, AppendFacts
<1>7. RecordedRuns'
  <2>1. \A n \in DOMAIN recorded' : n \in DOMAIN recorded \/ n = Len(recorded) + 1
    BY <1>6
  <2>2. QED BY <1>4, <1>6, <2>1 DEF DebuggerIInv, RecordedRuns
<1>8. status \notin SessionStatuses /\ status' \in DebuggerStatuses \ SessionStatuses
  BY <1>1 DEF SessionStatuses, DebuggerStatuses
<1>9. QED BY <1>1, <1>2, <1>3, <1>6, <1>7, <1>8, NoSessionYet DEF DebuggerIInv, ControlIInv

LEMMA RunAgainKeepsDebugger == DebuggerIInv /\ RunAgain => DebuggerIInv'
<1>1. ExecutionInit' => ControlIInv' /\ TraceIInv'
  BY InitEstablishesControl, InitEstablishesTrace, PTL
<1> SUFFICES ASSUME DebuggerIInv, RunAgain PROVE DebuggerIInv'
  OBVIOUS
<1>2. circuit' \in Circuits
  BY EditsAreCircuits DEF RunAgain, DebuggerIInv, ControlIInv, Progress, Arguments
<1>3. ExecutionInit'
  BY <1>2 DEF RunAgain, ExecutionInit
<1>4. /\ status = "recorded" /\ status' = "requested"
      /\ UNCHANGED <<recorded, session, screen>>
  BY DEF RunAgain
<1>5. status \notin SessionStatuses /\ status' \in DebuggerStatuses \ SessionStatuses
  BY <1>4 DEF SessionStatuses, DebuggerStatuses, Statuses
<1>6. RecordedRuns'
  BY <1>4 DEF DebuggerIInv, RecordedRuns
<1>7. QED BY <1>1, <1>3, <1>4, <1>5, <1>6, NoSessionYet DEF DebuggerIInv

\* What the steps after the last run have in common.
LEMMA RunsAreKept ==
    ASSUME DebuggerIInv, KeepRuns, status' \in SessionStatuses
    PROVE  /\ ControlIInv' /\ TraceIInv' /\ RecordedRuns'
           /\ (\E S : recorded \in Seq(S))' /\ status' \in DebuggerStatuses
<1>1. /\ UNCHANGED <<circuit, request, pc, state, observed, shots, trace, recorded>>
      /\ status' \notin Statuses
  BY DEF KeepRuns, KeepEngine, SessionStatuses, Statuses
<1>2. Progress' /\ Stopped' /\ TraceIInv'
  BY <1>1, EndingKeepsProgress, KeepingKeepsTrace DEF DebuggerIInv, ControlIInv, Stopped, Statuses
<1>3. QED BY <1>1, <1>2 DEF DebuggerIInv, ControlIInv, RecordedRuns, DebuggerStatuses

LEMMA OpenSessionKeepsDebugger == DebuggerIInv /\ OpenSession => DebuggerIInv'
<1> SUFFICES ASSUME DebuggerIInv, OpenSession PROVE DebuggerIInv'
  OBVIOUS
<1>1. PICK c, t, i \in DOMAIN recorded, start \in 0 .. Len(recorded[1].steps) :
         /\ session' = [circuit |-> c, trace |-> t, inspection |-> i, current |-> start]
         /\ status' = IF SessionAccepted(recorded[c].operations, recorded[t],
                                         StepInspection(recorded[i]), start)
                      THEN "session" ELSE "session refused"
  BY DEF OpenSession
<1>2. status = "recorded" /\ KeepRuns /\ UNCHANGED <<recorded, screen>>
  BY DEF OpenSession, KeepRuns
<1>3. status' \in {"session", "session refused"} /\ status' \in SessionStatuses
  BY <1>1 DEF SessionStatuses
<1>4. screen' = NoView
  BY <1>2 DEF DebuggerIInv, SessionStatuses
<1>5. session' \in Artifacts'
  <2>1. PICK S : recorded \in Seq(S)
    BY DEF DebuggerIInv
  <2>2. 1 \in DOMAIN recorded
    BY <2>1, LenProperties
  <2>3. Len(recorded[1].steps) \in Nat
    BY <2>2, TraceRunFacts DEF DebuggerIInv, RecordedRuns
  <2>4. start \in Nat
    BY <2>3
  <2>5. QED BY <1>1, <1>2, <2>4 DEF Artifacts
<1>6. TraceRun(recorded[c]) /\ TraceRun(recorded[t]) /\ TraceRun(recorded[i])
  BY DEF DebuggerIInv, RecordedRuns
<1>7. status' # "session refused"
         <=> SameRuns(recorded[c], recorded[t], recorded[i]) /\ Selects(start, recorded[t])
  BY <1>1, <1>6, AcceptedIsOneRun
<1>8. SessionKept'
  BY <1>1, <1>2, <1>5, <1>7 DEF SessionKept, Traced
<1>9. ScreenKept'
  BY <1>3, <1>4 DEF ScreenKept
<1>10. QED BY <1>2, <1>3, <1>8, <1>9, RunsAreKept DEF DebuggerIInv

\* A step of an accepted session: the artifacts stay, the selected step exists, and the
\* screen shows what it showed or a view of this session.
InSession == SessionStatuses \ {"session refused"}

LEMMA SessionStepKeepsDebugger ==
    ASSUME DebuggerIInv, KeepRuns, status \in InSession, status' \in InSession,
           session' = session \/ \E k \in Nat : /\ Selects(k, Traced)
                                                /\ session' = [session EXCEPT !.current = k],
           \/ \E k : IsStepIndex(k, Traced) /\ screen' = View(k)
           \/ /\ screen' = screen
              /\ status' \in {"debugging", "listing"} => status \in {"debugging", "listing"},
           status' = "debugging" => screen'.index = session'.current
    PROVE  DebuggerIInv'
<1>1. UNCHANGED recorded /\ status \in SessionStatuses /\ status' \in SessionStatuses
      /\ status # "session refused" /\ status' # "session refused"
  BY DEF KeepRuns, InSession
<1>2. /\ session \in Artifacts /\ Selects(session.current, Traced)
      /\ SameRuns(recorded[session.circuit], Traced, recorded[session.inspection])
  BY <1>1 DEF DebuggerIInv, SessionKept
<1>3. /\ session' \in Artifacts /\ Selects(session'.current, Traced)
      /\ session'.circuit = session.circuit /\ session'.trace = session.trace
      /\ session'.inspection = session.inspection
  BY <1>2 DEF Artifacts
<1>4. Artifacts' = Artifacts /\ Traced' = Traced
  BY <1>1, <1>3 DEF Artifacts, Traced
<1>5. SessionKept'
  BY <1>1, <1>2, <1>3, <1>4 DEF SessionKept
<1>6. ASSUME NEW k PROVE View(k)' = View(k)
  BY <1>1, <1>3, <1>4 DEF View
<1>7. ASSUME NEW k, IsStepIndex(k, Traced), screen' = View(k) PROVE Shown'
  <2>1. screen'.index = k
    BY <1>7 DEF View
  <2>2. QED BY <1>4, <1>6, <1>7, <2>1 DEF Shown
<1>8. ASSUME screen' = screen, Shown PROVE Shown'
  BY <1>4, <1>6, <1>8 DEF Shown
<1>9. (status' \in {"debugging", "listing"} \/ screen' # NoView) => Shown'
  BY <1>7, <1>8 DEF DebuggerIInv, ScreenKept
<1>10. ScreenKept'
  BY <1>1, <1>9 DEF ScreenKept
<1>11. QED BY <1>1, <1>5, <1>10, RunsAreKept DEF DebuggerIInv

\* The selected step of a session exists; an index to show is a natural number.
LEMMA SessionFacts ==
    ASSUME DebuggerIInv, status \in InSession
    PROVE  /\ session \in Artifacts /\ Selects(session.current, Traced)
           /\ StepCount \in Nat /\ StepCount = Len(Traced.steps)
           /\ \A k : IsStepIndex(k, Traced) => k \in Nat /\ Selects(k, Traced)
           /\ status = "debugging" => /\ IsStepIndex(session.current, Traced)
                                      /\ screen.index = session.current
           /\ status = "listing" => IsStepIndex(screen.index, Traced)
<1>1. session \in Artifacts /\ Selects(session.current, Traced)
  BY DEF DebuggerIInv, SessionKept, InSession
<1>2. TraceRun(Traced)
  BY <1>1 DEF DebuggerIInv, RecordedRuns, Artifacts, Traced
<1>3. StepCount \in Nat /\ StepCount = Len(Traced.steps)
  BY <1>2, TraceRunFacts DEF StepCount
<1>4. \A k : IsStepIndex(k, Traced) => k \in Nat /\ Selects(k, Traced)
  BY <1>3 DEF IsStepIndex, Selects
<1>5. status \in {"debugging", "listing"} => IsStepIndex(screen.index, Traced)
  BY DEF DebuggerIInv, ScreenKept, Shown
<1>6. status = "debugging" => screen.index = session.current
  BY DEF DebuggerIInv, ScreenKept
<1>7. QED BY <1>1, <1>3, <1>4, <1>5, <1>6

\* Moving the loop to a step of the trace.
LEMMA ShowFromKeepsDebugger ==
    ASSUME DebuggerIInv, KeepRuns, status = "debugging", UNCHANGED status, NEW k,
           IsStepIndex(k, Traced), ShowFrom(k)
    PROVE  DebuggerIInv'
<1>1. status \in InSession /\ status' \in InSession
  BY DEF InSession, SessionStatuses
<1>2. k \in Nat /\ Selects(k, Traced) /\ session \in Artifacts
  BY <1>1, SessionFacts
<1>3. session' = [session EXCEPT !.current = k] /\ screen' = View(k)
  BY DEF ShowFrom
<1>4. screen'.index = k /\ session'.current = k
  BY <1>2, <1>3 DEF View, Artifacts
<1>5. QED BY <1>1, <1>2, <1>3, <1>4, SessionStepKeepsDebugger

LEMMA StayingKeepsDebugger ==
    ASSUME DebuggerIInv, KeepRuns, status = "debugging", status' \in {"debugging", "quit"},
           UNCHANGED <<session, screen>>
    PROVE  DebuggerIInv'
<1>1. status \in InSession /\ status' \in InSession
  BY DEF InSession, SessionStatuses
<1>2. QED BY <1>1, SessionFacts, SessionStepKeepsDebugger

LEMMA LoopKeepsDebugger ==
    DebuggerIInv /\ (NextStep \/ PreviousStep \/ GoTo \/ Quit) => DebuggerIInv'
<1> SUFFICES ASSUME DebuggerIInv, NextStep \/ PreviousStep \/ GoTo \/ Quit PROVE DebuggerIInv'
  OBVIOUS
<1>1. status = "debugging" /\ KeepRuns /\ status \in InSession
  BY DEF NextStep, PreviousStep, GoTo, Quit, InSession, SessionStatuses
<1>2. session.current \in 0 .. StepCount - 1 /\ StepCount \in Nat
      /\ \A k : IsStepIndex(k, Traced) <=> k \in 0 .. StepCount - 1
  BY <1>1, SessionFacts DEF IsStepIndex
<1>3. CASE NextStep
  <2>1. CASE session.current = StepCount - 1
    BY <1>1, <1>3, <2>1, StayingKeepsDebugger DEF NextStep
  <2>2. CASE session.current # StepCount - 1
    <3>1. IsStepIndex(session.current + 1, Traced)
      BY <1>2, <2>2
    <3>2. ShowFrom(session.current + 1) /\ UNCHANGED status
      BY <1>3, <2>2 DEF NextStep
    <3>3. QED BY <1>1, <3>1, <3>2, ShowFromKeepsDebugger
  <2>3. QED BY <2>1, <2>2
<1>4. CASE PreviousStep
  <2>1. CASE session.current = 0
    BY <1>1, <1>4, <2>1, StayingKeepsDebugger DEF PreviousStep
  <2>2. CASE session.current # 0
    <3>1. IsStepIndex(session.current - 1, Traced)
      BY <1>2, <2>2
    <3>2. ShowFrom(session.current - 1) /\ UNCHANGED status
      BY <1>4, <2>2 DEF PreviousStep
    <3>3. QED BY <1>1, <3>1, <3>2, ShowFromKeepsDebugger
  <2>3. QED BY <2>1, <2>2
<1>5. CASE GoTo
  <2>1. PICK number \in 0 .. StepCount + 1 :
           IF IsStepIndex(number - 1, Traced)
           THEN ShowFrom(number - 1) ELSE UNCHANGED <<session, screen>>
    BY <1>5 DEF GoTo, GoToStep
  <2>2. UNCHANGED status
    BY <1>5 DEF GoTo
  <2>3. CASE IsStepIndex(number - 1, Traced)
    BY <1>1, <2>1, <2>2, <2>3, ShowFromKeepsDebugger
  <2>4. CASE ~ IsStepIndex(number - 1, Traced)
    BY <1>1, <2>1, <2>2, <2>4, StayingKeepsDebugger
  <2>5. QED BY <2>3, <2>4
<1>6. CASE Quit
  BY <1>1, <1>6, StayingKeepsDebugger DEF Quit
<1>7. QED BY <1>3, <1>4, <1>5, <1>6

\* The head of the loop and the two displays of the run command.
LEMMA ShowingKeepsDebugger ==
    DebuggerIInv /\ (StartLoop \/ ShowOne \/ ShowAll) => DebuggerIInv'
<1> SUFFICES ASSUME DebuggerIInv, StartLoop \/ ShowOne \/ ShowAll PROVE DebuggerIInv'
  OBVIOUS
<1>1. KeepRuns /\ UNCHANGED session /\ status \in {"session", "listing"}
      /\ status' \in {"quit", "debugging", "listing", "step error"}
  BY DEF StartLoop, ShowOne, ShowAll
<1>2. status \in InSession /\ status' \in InSession
  BY <1>1 DEF InSession, SessionStatuses
<1>3. StepCount \in Nat /\ \A k : IsStepIndex(k, Traced) <=> k \in 0 .. StepCount - 1
  BY <1>2, SessionFacts DEF IsStepIndex
<1>4. CASE StartLoop
  <2>1. CASE StepCount = 0
    <3>1. status' = "quit" /\ screen' = screen
      BY <1>4, <2>1 DEF StartLoop
    <3>2. QED BY <1>1, <1>2, <3>1, SessionStepKeepsDebugger
  <2>2. CASE StepCount # 0
    <3>1. status' = "debugging" /\ screen' = View(session.current)
      BY <1>4, <2>2 DEF StartLoop
    <3>2. IsStepIndex(session.current, Traced)
      BY <1>2, <1>3, <2>2, SessionFacts DEF Selects
    <3>3. screen'.index = session'.current
      BY <1>1, <3>1 DEF View
    <3>4. QED BY <1>1, <1>2, <3>1, <3>2, <3>3, SessionStepKeepsDebugger
  <2>3. QED BY <2>1, <2>2
<1>5. CASE ShowOne
  <2>1. PICK number \in 0 .. StepCount + 1 :
           IF IsStepIndex(number - 1, Traced)
           THEN status' = "quit" /\ screen' = View(number - 1)
           ELSE status' = "step error" /\ UNCHANGED screen
    BY <1>5 DEF ShowOne
  <2>2. \/ \E k : IsStepIndex(k, Traced) /\ screen' = View(k)
        \/ screen' = screen /\ status' = "step error"
    BY <2>1
  <2>3. status' \notin {"debugging", "listing"}
    BY <2>1
  <2>4. QED BY <1>1, <1>2, <2>2, <2>3, SessionStepKeepsDebugger
<1>6. CASE ShowAll
  <2> DEFINE shown == IF status = "session" THEN 0 ELSE screen.index + 1
  <2>1. IF shown < StepCount
        THEN status' = "listing" /\ screen' = View(shown)
        ELSE status' = "quit" /\ UNCHANGED screen
    BY <1>6 DEF ShowAll
  <2>2. shown \in Nat
    <3>1. status = "listing" => screen.index \in 0 .. StepCount - 1
      BY <1>2, <1>3, SessionFacts
    <3>2. CASE status = "session"
      BY <3>2
    <3>3. CASE status = "listing"
      <4>1. shown = screen.index + 1 /\ screen.index \in 0 .. StepCount - 1
        BY <3>1, <3>3
      <4> HIDE DEF shown
      <4>2. QED BY <1>3, <4>1
    <3>4. QED BY <1>1, <3>2, <3>3
  <2> HIDE DEF shown
  <2>3. CASE shown < StepCount
    <3>1. IsStepIndex(shown, Traced) /\ status' = "listing" /\ screen' = View(shown)
      BY <1>3, <2>1, <2>2, <2>3
    <3>2. QED BY <1>1, <1>2, <3>1, SessionStepKeepsDebugger
  <2>4. CASE ~ shown < StepCount
    <3>1. status' = "quit" /\ screen' = screen
      BY <2>1, <2>4
    <3>2. QED BY <1>1, <1>2, <3>1, SessionStepKeepsDebugger
  <2>5. QED BY <2>3, <2>4
<1>7. QED BY <1>4, <1>5, <1>6

LEMMA StutterKeepsDebugger == DebuggerIInv /\ UNCHANGED debuggerVars => DebuggerIInv'
<1> SUFFICES ASSUME DebuggerIInv, UNCHANGED debuggerVars PROVE DebuggerIInv'
  OBVIOUS
<1>1. UNCHANGED executionVars /\ UNCHANGED <<status, recorded, session, screen>>
  BY DEF debuggerVars, executionVars
<1>2. ControlIInv' /\ TraceIInv'
  BY <1>1, StutterKeepsControl, StutterKeepsTrace DEF DebuggerIInv
<1>3. Traced' = Traced /\ Artifacts' = Artifacts /\ Shown' = Shown
  BY <1>1 DEF Traced, Artifacts, Shown, View
<1>4. RecordedRuns' /\ SessionKept' /\ ScreenKept'
  BY <1>1, <1>3 DEF DebuggerIInv, RecordedRuns, SessionKept, ScreenKept
<1>5. QED BY <1>1, <1>2, <1>4 DEF DebuggerIInv

\* Everything that is recorded, opened and shown stays in agreement with the engines.
THEOREM DebuggerInvariant == DebuggerSpec => []DebuggerIInv
<1>1. DebuggerInit => DebuggerIInv
  BY InitEstablishesDebugger
<1>2. DebuggerIInv /\ [DebuggerNext]_debuggerVars => DebuggerIInv'
  BY EngineKeepsDebugger, RecordKeepsDebugger, RunAgainKeepsDebugger, OpenSessionKeepsDebugger,
     LoopKeepsDebugger, ShowingKeepsDebugger, StutterKeepsDebugger
  DEF DebuggerNext, DebuggerDone
<1>3. QED BY <1>1, <1>2, PTL DEF DebuggerSpec

-----------------------------------------------------------------------------
(* What the session promises.                                                *)

\* The session's constructor, which compares operations and evidence only, accepts exactly
\* the artifacts that agree on every state (debugger.py, DebuggerSession.__post_init__).
THEOREM SessionsAreOneRun == DebuggerSpec => []SessionIsOneRun
<1>1. DebuggerIInv => SessionIsOneRun
  <2> SUFFICES ASSUME DebuggerIInv, HasSession PROVE SessionIsOneRun
    BY DEF SessionIsOneRun
  <2>1. status \in SessionStatuses
    BY DEF DebuggerIInv, HasSession
  <2>2. ~ SessionRefused <=> /\ SameRuns(recorded[session.circuit], Traced,
                                  recorded[session.inspection])
                      /\ Selects(session.current, Traced)
    BY <2>1 DEF DebuggerIInv, SessionKept, SessionRefused
  <2>3. QED BY <2>2 DEF SessionIsOneRun, SameRuns, Selects
<1>2. QED BY <1>1, DebuggerInvariant, PTL

\* The loop and both displays show the two states of the step that they name, although the
\* states they print come from the inspection and the step from the trace.
THEOREM ViewsShowTheTrace == DebuggerSpec => []ViewsAreFaithful
<1>1. DebuggerIInv => ViewsAreFaithful
  <2> SUFFICES ASSUME DebuggerIInv, screen # NoView PROVE ViewsAreFaithful
    BY DEF ViewsAreFaithful
  <2> DEFINE i == recorded[session.inspection]
             k == screen.index + 1
  <2>1. status \in InSession /\ Shown
    BY DEF DebuggerIInv, ScreenKept, InSession
  <2>2. session \in Artifacts /\ SameRuns(recorded[session.circuit], Traced, i)
    BY <2>1 DEF DebuggerIInv, SessionKept, InSession
  <2>3. TraceRun(Traced)
    BY <2>2 DEF DebuggerIInv, RecordedRuns, Artifacts, Traced
  <2>4. k \in DOMAIN Traced.steps /\ k \in Nat
    <3>1. screen.index \in 0 .. Len(Traced.steps) - 1
      BY <2>1 DEF Shown, IsStepIndex
    <3>2. Len(Traced.steps) \in Nat /\ DOMAIN Traced.steps = 1 .. Len(Traced.steps)
      BY <2>3, TraceRunFacts
    <3>3. QED BY <3>1, <3>2
  <2>5. /\ screen.before = InspectedStep(i, k).before
        /\ screen.after = InspectedStep(i, k).after
    BY <2>1 DEF Shown, View
  <2> HIDE DEF k
  <2>6. i.steps = Traced.steps /\ Traced.steps[k].before = StateBefore(Traced.steps, k)
    BY <2>2, <2>3, <2>4, TraceRunFacts DEF SameRuns
  <2> HIDE DEF i
  <2>7. /\ screen.before = Report(StateBefore(Traced.steps, k), i.width)
        /\ screen.after = Report(Traced.steps[k].after, i.width)
    BY <2>5, <2>6 DEF InspectedStep, ReportBefore, StateBefore
  <2>8. ASSUME NEW psi, NEW b \in DOMAIN Report(psi, i.width).amplitudes
        PROVE  Report(psi, i.width).amplitudes[b] = psi[b]
    BY <2>8 DEF Report
  <2>9. status = "debugging" => screen.index = session.current
    BY DEF DebuggerIInv, ScreenKept
  <2>10. QED BY <2>6, <2>7, <2>8, <2>9 DEF ViewsAreFaithful, k
<1>2. QED BY <1>1, DebuggerInvariant, PTL

-----------------------------------------------------------------------------
(* The shapes of the values, over both runs.                                 *)

\* There is room for a run that is still to be recorded.
ShapesIInv ==
    /\ ValuesIInv
    /\ width \in Widths(circuit)
    /\ Len(recorded) <= MaxRecorded
    /\ status \in Statuses => Len(recorded) < MaxRecorded
    /\ \A n \in DOMAIN recorded : recorded[n].width \in 1 .. Cardinality(Slots)

LEMMA InitEstablishesShapes == DebuggerInit => ShapesIInv
<1> SUFFICES ASSUME DebuggerInit PROVE ShapesIInv
  OBVIOUS
<1>1. ValuesIInv
  BY InitEstablishesValues DEF DebuggerInit
<1>2. Len(recorded) = 0 /\ DOMAIN recorded = {}
  BY EmptySeq DEF DebuggerInit
<1>3. QED BY <1>1, <1>2 DEF ShapesIInv, DebuggerInit, MaxRecorded

LEMMA EngineKeepsCircuit == EngineStep => circuit' = circuit
<1>1. Start \/ RefuseReset \/ RefuseEvolution \/ DrawBeyondMass => circuit' = circuit
  BY DEF Start, RefuseReset, RefuseEvolution, DrawBeyondMass, Abort
<1>2. ExactOperation \/ DensityOperation => circuit' = circuit
  BY DEF ExactOperation, DensityOperation
<1>3. SampledGate \/ SampledMeasure \/ SampledReset => circuit' = circuit
  BY DEF SampledGate, SampledMeasure, SampledReset
<1>4. FinishShot \/ FinishExecution => circuit' = circuit
  BY DEF FinishShot, FinishExecution
<1>5. QED BY <1>1, <1>2, <1>3, <1>4 DEF EngineStep

LEMMA StepKeepsShapes == DebuggerIInv /\ ShapesIInv /\ [DebuggerNext]_debuggerVars => ShapesIInv'
<1>1. ExecutionInit' => ValuesIInv'
  BY InitEstablishesValues, PTL
<1> SUFFICES ASSUME DebuggerIInv, ShapesIInv, [DebuggerNext]_debuggerVars PROVE ShapesIInv'
  OBVIOUS
<1>2. ControlIInv /\ ValuesIInv
  BY DEF DebuggerIInv, ShapesIInv
<1>3. ASSUME KeepEngine, UNCHANGED width PROVE ValuesIInv' /\ (width \in Widths(circuit))'
  <2>1. ValuesIInv'
    BY <1>2, <1>3, KeepingKeepsValues DEF KeepEngine
  <2>2. QED BY <1>3, <2>1 DEF KeepEngine, ShapesIInv, Widths
<1>4. CASE RunTraced
  <2>1. ValuesIInv'
    BY <1>2, <1>4, EngineStepIsLoopStep, StartKeepsValues, LoopKeepsValues DEF RunTraced
  <2>2. status \in Statuses /\ circuit' = circuit
    BY <1>4, EngineStatuses, EngineKeepsCircuit DEF RunTraced, Statuses
  <2>3. QED BY <1>4, <2>1, <2>2 DEF RunTraced, ShapesIInv, Widths
<1>5. CASE Record
  <2>1. recorded' = Append(recorded, [operations |-> circuit, width |-> width, steps |-> trace])
        /\ KeepEngine /\ UNCHANGED width /\ status = "finished" /\ status' = "recorded"
    BY <1>5 DEF Record
  <2>2. PICK S : recorded \in Seq(S)
    BY DEF DebuggerIInv
  <2>3. Len(recorded) \in Nat /\ Len(recorded') = Len(recorded) + 1
    BY <2>1, <2>2, AppendFacts
  <2>4. Len(recorded) < MaxRecorded /\ status' \notin Statuses
    BY <2>1 DEF ShapesIInv, Statuses
  <2>5. width \in 1 .. Cardinality(Slots)
    BY DEF ShapesIInv, Widths
  <2>6. \A n \in DOMAIN recorded' : recorded'[n].width \in 1 .. Cardinality(Slots)
    <3> DEFINE run == [operations |-> circuit, width |-> width, steps |-> trace]
    <3>1. /\ \A n \in DOMAIN recorded' : n \in DOMAIN recorded \/ n = Len(recorded) + 1
          /\ \A n \in DOMAIN recorded : recorded'[n] = recorded[n]
          /\ recorded'[Len(recorded) + 1].width = width
      BY <2>1, <2>2, AppendFacts
    <3>2. QED BY <2>5, <3>1 DEF ShapesIInv
  <2>7. QED BY <1>3, <2>1, <2>3, <2>4, <2>6 DEF ShapesIInv, MaxRecorded
<1>6. CASE RunAgain
  <2>1. circuit' \in Circuits
    BY <1>6, EditsAreCircuits DEF RunAgain, DebuggerIInv, ControlIInv, Progress, Arguments
  <2>2. ValuesIInv'
    BY <1>1, <1>6, <2>1 DEF RunAgain, ExecutionInit
  <2>3. (width \in Widths(circuit))'
    BY <1>6 DEF RunAgain, Widths
  <2>4. UNCHANGED recorded /\ Len(recorded) < MaxRecorded
    BY <1>6 DEF RunAgain
  <2>5. QED BY <2>2, <2>3, <2>4 DEF ShapesIInv
<1>7. ASSUME KeepEngine, UNCHANGED <<width, recorded>>, status' \notin Statuses
      PROVE  ShapesIInv'
  BY <1>3, <1>7 DEF ShapesIInv
<1>8. CASE OpenSession
  <2>1. KeepEngine /\ UNCHANGED <<width, recorded>> /\ status' \in {"session", "session refused"}
    BY <1>8 DEF OpenSession
  <2>2. QED BY <1>7, <2>1 DEF Statuses
<1>9. CASE StartLoop \/ NextStep \/ PreviousStep \/ GoTo \/ Quit \/ ShowOne \/ ShowAll
  <2>1. KeepRuns /\ status' \in {"debugging", "listing", "quit", "step error"}
    BY <1>9 DEF StartLoop, NextStep, PreviousStep, GoTo, Quit, ShowOne, ShowAll
  <2>2. QED BY <1>7, <2>1 DEF KeepRuns, Statuses
<1>10. CASE UNCHANGED debuggerVars
  <2>1. KeepEngine /\ UNCHANGED <<width, recorded, status>>
    BY <1>10 DEF debuggerVars, executionVars, KeepEngine
  <2>2. QED BY <1>3, <2>1 DEF ShapesIInv
<1>11. QED BY <1>4, <1>5, <1>6, <1>8, <1>9, <1>10 DEF DebuggerNext, DebuggerDone

\* Every recorded trace has a step for each operation of its circuit, a session's selected
\* step exists, and the engines' values keep their shapes from one run to the next.
THEOREM DebuggerTypes == DebuggerSpec => []DebuggerTypeOK
<1>1. DebuggerIInv /\ ShapesIInv => DebuggerTypeOK
  <2> SUFFICES ASSUME DebuggerIInv, ShapesIInv PROVE DebuggerTypeOK
    OBVIOUS
  <2>1. ExecutionTypeOK
    BY ValuesHaveTypes DEF DebuggerIInv, ShapesIInv
  <2>2. \A n \in DOMAIN recorded : Len(recorded[n].steps) = Len(recorded[n].operations)
    BY DEF DebuggerIInv, RecordedRuns, TraceRun
  <2>3. ASSUME HasSession, ~ SessionRefused
        PROVE  session.current = 0 \/ IsStepIndex(session.current, Traced)
    <3>1. status \in SessionStatuses
      BY <2>3 DEF DebuggerIInv, HasSession
    <3>2. Selects(session.current, Traced)
      BY <2>3, <3>1 DEF DebuggerIInv, SessionKept, SessionRefused
    <3>3. QED BY <3>2 DEF Selects
  <2>4. QED BY <2>1, <2>2, <2>3 DEF DebuggerTypeOK, ShapesIInv
<1>2. ShapesIInv /\ DebuggerIInv /\ [DebuggerNext]_debuggerVars => ShapesIInv'
  BY StepKeepsShapes
<1>3. QED BY <1>1, <1>2, InitEstablishesShapes, DebuggerInvariant, PTL DEF DebuggerSpec

-----------------------------------------------------------------------------
(* What a trace says of entanglement.                                        *)

\* The basis states with a slot at zero, and the sums of the slot's density matrix.
WithoutSlot(slot) == {b \in BasisStates : slot \notin b}

ZeroProducts(v, slot) == [b \in WithoutSlot(slot) |-> v[b] * v[b]]
OneProducts(v, slot) ==
    [b \in WithoutSlot(slot) |-> v[b \union {slot}] * v[b \union {slot}]]
CrossProducts(v, slot) == [b \in WithoutSlot(slot) |-> v[b] * v[b \union {slot}]]

LEMMA MixedIs ==
    ASSUME NEW v, NEW slot
    PROVE  IsMixed(v, slot) <=>
              Sum(ZeroProducts(v, slot), WithoutSlot(slot))
                * Sum(OneProducts(v, slot), WithoutSlot(slot))
              # Sum(CrossProducts(v, slot), WithoutSlot(slot))
                * Sum(CrossProducts(v, slot), WithoutSlot(slot))
<1> DEFINE S == WithoutSlot(slot)
           Zero(g) == [s \in SUBSET S |-> IF s = {} THEN 0
                                          ELSE LET b == CHOOSE b \in s : TRUE
                                               IN  v[b] * v[b] + g[s \ {b}]]
           One(g) == [s \in SUBSET S |-> IF s = {} THEN 0
                                         ELSE LET b == CHOOSE b \in s : TRUE
                                              IN  v[b \union {slot}] * v[b \union {slot}]
                                                    + g[s \ {b}]]
           Cross(g) == [s \in SUBSET S |-> IF s = {} THEN 0
                                           ELSE LET b == CHOOSE b \in s : TRUE
                                                IN  v[b] * v[b \union {slot}] + g[s \ {b}]]
<1>1. IsMixed(v, slot) <=>
         (CHOOSE g : g = Zero(g))[S] * (CHOOSE g : g = One(g))[S]
           # (CHOOSE g : g = Cross(g))[S] * (CHOOSE g : g = Cross(g))[S]
  BY DEF IsMixed, MapThenSumSet, MapThenFoldSet, WithoutSlot
<1>2. ASSUME NEW g PROVE Zero(g) = SumStep(ZeroProducts(v, slot), S, g)
  <2>1. \A b \in S : ZeroProducts(v, slot)[b] = v[b] * v[b]
    BY DEF ZeroProducts
  <2> HIDE DEF S
  <2>2. ASSUME NEW s \in SUBSET S PROVE Zero(g)[s] = SumStep(ZeroProducts(v, slot), S, g)[s]
    BY <2>1 DEF SumStep
  <2>3. QED BY <2>2 DEF SumStep
<1>3. ASSUME NEW g PROVE One(g) = SumStep(OneProducts(v, slot), S, g)
  <2>1. \A b \in S : OneProducts(v, slot)[b] = v[b \union {slot}] * v[b \union {slot}]
    BY DEF OneProducts
  <2> HIDE DEF S
  <2>2. ASSUME NEW s \in SUBSET S PROVE One(g)[s] = SumStep(OneProducts(v, slot), S, g)[s]
    BY <2>1 DEF SumStep
  <2>3. QED BY <2>2 DEF SumStep
<1>4. ASSUME NEW g PROVE Cross(g) = SumStep(CrossProducts(v, slot), S, g)
  <2>1. \A b \in S : CrossProducts(v, slot)[b] = v[b] * v[b \union {slot}]
    BY DEF CrossProducts
  <2> HIDE DEF S
  <2>2. ASSUME NEW s \in SUBSET S PROVE Cross(g)[s] = SumStep(CrossProducts(v, slot), S, g)[s]
    BY <2>1 DEF SumStep
  <2>3. QED BY <2>2 DEF SumStep
<1> HIDE DEF S, Zero, One, Cross
<1>5. (CHOOSE g : g = Zero(g)) = (CHOOSE g : g = SumStep(ZeroProducts(v, slot), S, g))
  BY <1>2
<1>6. (CHOOSE g : g = One(g)) = (CHOOSE g : g = SumStep(OneProducts(v, slot), S, g))
  BY <1>3
<1>7. (CHOOSE g : g = Cross(g)) = (CHOOSE g : g = SumStep(CrossProducts(v, slot), S, g))
  BY <1>4
<1>8. QED BY <1>1, <1>5, <1>6, <1>7 DEF Sum, S

LEMMA MixedIsNotSeparable ==
    ASSUME NEW v \in States, NEW slot \in Slots
    PROVE  IsMixed(v, slot) <=> ~ Separable(v, slot)
<1> DEFINE S == WithoutSlot(slot)
           x == [b \in S |-> v[b]]
           y == [b \in S |-> v[b \union {slot}]]
           xx == ZeroProducts(v, slot)
           yy == OneProducts(v, slot)
           xy == CrossProducts(v, slot)
<1>1. S \subseteq BasisStates /\ IsFiniteSet(S)
  BY BasisIsFinite, FS_Subset DEF WithoutSlot
<1>2. ASSUME NEW c \in S
      PROVE  /\ x[c] \in Int /\ y[c] \in Int
             /\ xx[c] = x[c] * x[c] /\ yy[c] = y[c] * y[c] /\ xy[c] = x[c] * y[c]
  <2>1. c \in BasisStates /\ x[c] = v[c] /\ y[c] = v[c \union {slot}]
    BY <1>1
  <2>2. x[c] \in Int /\ y[c] \in Int
    BY <2>1, AmplitudesAreInt
  <2>3. QED BY <2>1, <2>2 DEF ZeroProducts, OneProducts, CrossProducts
<1>3. Separable(v, slot) <=> \A b, c \in S : x[b] * y[c] = x[c] * y[b]
  <2>1. ASSUME NEW b \in BasisStates
        PROVE  /\ b \ {slot} \in S /\ x[b \ {slot}] = v[b \ {slot}]
               /\ y[b \ {slot}] = v[b \union {slot}]
    <3>1. b \ {slot} \in S /\ (b \ {slot}) \union {slot} = b \union {slot}
      BY BasisFacts DEF WithoutSlot
    <3>2. QED BY <3>1
  <2>2. ASSUME NEW b \in S
        PROVE  b \in BasisStates /\ x[b] = v[b \ {slot}] /\ y[b] = v[b \union {slot}]
    <3>1. b \in BasisStates /\ b \ {slot} = b
      BY DEF WithoutSlot
    <3>2. QED BY <3>1
  <2>3. \A i, j, k, l \in Int : i * j - k * l = 0 <=> i * j = k * l
    OBVIOUS
  <2> HIDE DEF S, x, y
  <2>4. ASSUME Separable(v, slot), NEW b \in S, NEW c \in S PROVE x[b] * y[c] = x[c] * y[b]
    <3>1. Minor(v, slot, b, c) = 0
      BY <2>2, <2>4 DEF Separable
    <3>2. x[b] * y[c] - x[c] * y[b] = 0
      BY <2>2, <3>1 DEF Minor
    <3>3. QED BY <1>2, <2>3, <3>2
  <2>5. ASSUME \A b, c \in S : x[b] * y[c] = x[c] * y[b],
               NEW b \in BasisStates, NEW c \in BasisStates
        PROVE  Minor(v, slot, b, c) = 0
    <3> DEFINE p == b \ {slot}
               q == c \ {slot}
    <3>1. /\ p \in S /\ q \in S
          /\ x[p] = v[b \ {slot}] /\ y[p] = v[b \union {slot}]
          /\ x[q] = v[c \ {slot}] /\ y[q] = v[c \union {slot}]
      BY <2>1
    <3>2. Minor(v, slot, b, c) = x[p] * y[q] - x[q] * y[p]
      BY <3>1 DEF Minor
    <3> HIDE DEF p, q
    <3>3. x[p] * y[q] = x[q] * y[p]
      BY <2>5, <3>1
    <3>4. QED BY <1>2, <2>3, <3>1, <3>2, <3>3
  <2>6. QED BY <2>4, <2>5 DEF Separable
<1> HIDE DEF S, x, y, xx, yy, xy
<1>4. Sum(xx, S) * Sum(yy, S) = Sum(xy, S) * Sum(xy, S)
         <=> \A b, c \in S : x[b] * y[c] = x[c] * y[b]
  <2>1. \A c \in S : /\ x[c] \in Int /\ y[c] \in Int
                     /\ xx[c] = x[c] * x[c] /\ yy[c] = y[c] * y[c] /\ xy[c] = x[c] * y[c]
    BY <1>2
  <2>2. IsFiniteSet(S)
    BY <1>1
  <2>3. QED BY ONLY <2>1, <2>2, ParallelVectors
<1>5. QED BY <1>3, <1>4, MixedIs DEF S, xx, yy, xy

\* What a step of a trace does to a slot.
LEMMA StepExplains ==
    ASSUME NEW e, NEW i, NEW operation \in AllocatedOperations, NEW before \in States, NEW x,
           StepOf(e, i, operation, before, x)
    PROVE  /\ x.after \in States
           /\ \A slot \in Slots :
                 /\ operation.opcode # "CX" =>
                       (Separable(before, slot) => Separable(x.after, slot))
                 /\ operation.opcode \in DOMAIN Matrix =>
                       (Separable(x.after, slot) => Separable(before, slot))
                 /\ (x.outcome # NoEvidence \/ x.reset # NoEvidence)
                       /\ slot \in ToSet(operation.targets) => Separable(x.after, slot)
<1> DEFINE opcode == operation.opcode
           targets == operation.targets
<1>1. /\ opcode \in Gates \union {"MEASURE", "RESET"} /\ targets \in Seq(Slots)
      /\ targets[1] \in Slots
  BY FirstTarget DEF AllocatedOperations, Gates
<1>2. "MEASURE" \notin Gates /\ "RESET" \notin Gates
  BY DEF Gates, Matrix
<1>3. CASE opcode \in Gates
  <2>1. x = StepRecord(i, operation, before, ApplyOperation(before, operation),
                       NoEvidence, NoEvidence, NoEvidence)
    BY <1>2, <1>3 DEF StepOf, ExactStep, SampledStep, GateStep, MeasureStep, ResetStep
  <2>2. /\ x.after = ApplyOperation(before, operation)
        /\ x.outcome = NoEvidence /\ x.reset = NoEvidence
    BY <2>1 DEF StepRecord
  <2>3. x.after \in States
    BY <1>3, <2>2, GateFacts
  <2>4. opcode # "CX" => opcode \in DOMAIN Matrix
    BY <1>3 DEF Gates
  <2>5. ASSUME NEW slot \in Slots, opcode \in DOMAIN Matrix
        PROVE  Separable(x.after, slot) <=> Separable(before, slot)
    BY <2>2, <2>5, GateKeepsSeparable
  <2>6. QED BY <2>2, <2>3, <2>4, <2>5
<1>4. CASE opcode = "MEASURE"
  <2>1. opcode # "CX" /\ opcode \notin DOMAIN Matrix
    BY <1>2, <1>4 DEF Gates
  <2>2. CASE MeasureStep(i, operation, before, x)
    <3>1. PICK o : x = StepRecord(i, operation, before, Collapse(before, targets, o),
                                  NoEvidence, o, NoEvidence)
      BY <2>2 DEF MeasureStep
    <3>2. x.after = Collapse(before, targets, o)
      BY <3>1 DEF StepRecord
    <3>3. x.after \in States
      BY <3>2, CollapseFacts
    <3>4. \A slot \in ToSet(targets) : \E k \in DOMAIN targets : targets[k] = slot
      BY DEF ToSet
    <3>5. ASSUME NEW slot \in Slots, Separable(before, slot) \/ slot \in ToSet(targets)
          PROVE  Separable(x.after, slot)
      BY <3>2, <3>4, <3>5, CollapseSeparates
    <3>6. QED BY <2>1, <3>3, <3>5
  <2>3. CASE ~ MeasureStep(i, operation, before, x)
    <3>1. ExactStep(i, operation, before, x)
      BY <1>4, <2>3 DEF StepOf, SampledStep, GateStep, ResetStep
    <3>2. x.after = before /\ x.outcome = NoEvidence /\ x.reset = NoEvidence
      BY <1>4, <3>1 DEF ExactStep, StepRecord
    <3>3. QED BY <2>1, <3>2
  <2>4. QED BY <2>2, <2>3
<1>5. CASE opcode = "RESET"
  <2>1. opcode # "CX" /\ opcode \notin DOMAIN Matrix
    BY <1>2, <1>5 DEF Gates
  <2>2. ResetStep(i, operation, before, x)
    BY <1>5 DEF StepOf, ExactStep, SampledStep, GateStep, MeasureStep
  <2>3. PICK a \in {0, 1} :
           x = StepRecord(i, operation, before, ResetState(before, targets[1], a),
                          NoEvidence, NoEvidence, [op |-> i, target |-> targets[1], outcome |-> a])
    BY <2>2 DEF ResetStep
  <2>4. x.after = ResetState(before, targets[1], a)
    BY <2>3 DEF StepRecord
  <2>5. x.after \in States
    BY <1>1, <2>4, ResetFacts
  <2>6. \A slot \in ToSet(targets) : slot = targets[1]
    <3>1. Len(targets) = 1
      BY <1>5 DEF AllocatedOperations
    <3>2. DOMAIN targets = 1 .. 1
      BY <1>1, <3>1, LenProperties
    <3>3. QED BY <3>2 DEF ToSet
  <2>7. ASSUME NEW slot \in Slots, Separable(before, slot) \/ slot \in ToSet(targets)
        PROVE  Separable(x.after, slot)
    BY <1>1, <2>4, <2>6, <2>7, ResetSeparates
  <2>8. QED BY <2>1, <2>5, <2>7
<1>6. QED BY <1>1, <1>3, <1>4, <1>5

\* The states of a recorded trace.
LEMMA TraceStates ==
    ASSUME NEW run, TraceRun(run)
    PROVE  \A i \in DOMAIN run.steps : StateBefore(run.steps, i) \in States
<1> DEFINE n == Len(run.steps)
           P == {m \in Nat : m < n => StateBefore(run.steps, m + 1) \in States}
<1>1. n \in Nat /\ DOMAIN run.steps = 1 .. n
      /\ \A i \in DOMAIN run.steps : run.operations[i] \in AllocatedOperations
  BY TraceRunFacts
<1>2. PICK e : \A i \in DOMAIN run.steps :
                  StepOf(e, i, run.operations[i], StateBefore(run.steps, i), run.steps[i])
  BY DEF TraceRun
<1> HIDE DEF n
<1>3. 0 \in P
  BY GroundIsState DEF StateBefore
<1>4. ASSUME NEW m \in Nat, m \in P PROVE m + 1 \in P
  <2> SUFFICES ASSUME m + 1 < n PROVE StateBefore(run.steps, (m + 1) + 1) \in States
    OBVIOUS
  <2>1. m < n /\ m + 1 \in 1 .. n /\ (m + 1) + 1 # 1 /\ ((m + 1) + 1) - 1 = m + 1
    BY <1>1
  <2>2. StateBefore(run.steps, m + 1) \in States
    BY <1>4, <2>1
  <2> DEFINE k == m + 1
  <2>3. k \in DOMAIN run.steps /\ StateBefore(run.steps, k) \in States
    BY <1>1, <2>1, <2>2
  <2>4. StateBefore(run.steps, (m + 1) + 1) = run.steps[k].after
    BY <2>1 DEF StateBefore
  <2> HIDE DEF k
  <2>5. run.steps[k].after \in States
    BY <1>1, <1>2, <2>3, StepExplains
  <2>6. QED BY <2>4, <2>5
<1>5. Nat \subseteq P
  <2> HIDE DEF P
  <2>1. QED BY <1>3, <1>4, SetInduction
<1>6. ASSUME NEW i \in DOMAIN run.steps PROVE StateBefore(run.steps, i) \in States
  <2>1. i - 1 \in Nat /\ i - 1 < n /\ (i - 1) + 1 = i
    BY <1>1
  <2>2. i - 1 \in P
    BY <1>5, <2>1
  <2>3. QED BY <2>1, <2>2
<1>7. QED BY <1>6

\* What the debugger displays is the session's trace, and the entanglement transition it
\* displays is one that the operation can cause: only a CX entangles, no gate of one slot
\* changes anything, and a slot that was observed or reset in a trajectory is separable
\* (inspection.py, inspect_execution_trace).
THEOREM TransitionsAreExplained == DebuggerSpec => []DisplayIsFaithful
<1>1. DebuggerIInv /\ ShapesIInv => EntanglementExplained
  <2> SUFFICES ASSUME DebuggerIInv, ShapesIInv, screen # NoView PROVE EntanglementExplained
    BY DEF EntanglementExplained
  <2> DEFINE i == recorded[session.inspection]
             k == screen.index + 1
             w == i.width
             operation == Traced.operations[k]
             step == Traced.steps[k]
             before == StateBefore(Traced.steps, k)
  <2>1. status \in InSession /\ Shown
    BY DEF DebuggerIInv, ScreenKept, InSession
  <2>2. session \in Artifacts /\ SameRuns(recorded[session.circuit], Traced, i)
    BY <2>1 DEF DebuggerIInv, SessionKept, InSession
  <2>3. TraceRun(Traced)
    BY <2>2 DEF DebuggerIInv, RecordedRuns, Artifacts, Traced
  <2>4. k \in DOMAIN Traced.steps /\ k \in Nat
    <3>1. screen.index \in 0 .. Len(Traced.steps) - 1
      BY <2>1 DEF Shown, IsStepIndex
    <3>2. Len(Traced.steps) \in Nat /\ DOMAIN Traced.steps = 1 .. Len(Traced.steps)
      BY <2>3, TraceRunFacts
    <3>3. QED BY <3>1, <3>2
  <2>5. /\ screen.after = InspectedStep(i, k).after
        /\ screen.newlyEntangled = InspectedStep(i, k).newlyEntangled
        /\ screen.newlySeparable = InspectedStep(i, k).newlySeparable
        /\ screen.operation = Traced.operations[Traced.steps[k].op]
    BY <2>1 DEF Shown, View
  <2>6. 0 .. w - 1 \subseteq Slots
    <3>1. w \in 1 .. Cardinality(Slots)
      BY <2>2 DEF ShapesIInv, Artifacts
    <3>2. Cardinality(Slots) \in Nat
      BY SlotsAreFinite, FS_CardinalityType
    <3> HIDE DEF w
    <3>3. 0 .. w - 1 \subseteq 0 .. Cardinality(Slots) - 1
      BY <3>1, <3>2
    <3>4. QED BY <3>3, SlotsAreNumbered
  <2> HIDE DEF k, w
  <2>7. i.steps = Traced.steps /\ Traced.steps[k].op = k
    BY <2>2, <2>3, <2>4, TraceRunFacts DEF SameRuns
  <2>8. screen.operation = operation
    BY <2>5, <2>7
  <2>9. /\ ReportBefore(i, k) = Report(before, w)
        /\ Report(i.steps[k].after, i.width) = Report(step.after, w)
    BY <2>7 DEF ReportBefore, StateBefore, w
  <2> DEFINE old == {slot \in 0 .. w - 1 : IsMixed(before, slot)}
             new == {slot \in 0 .. w - 1 : IsMixed(step.after, slot)}
  <2>10. /\ screen.after.entangled = new
         /\ screen.newlyEntangled = new \ old /\ screen.newlySeparable = old \ new
    <3>1. Report(before, w).entangled = old /\ Report(step.after, w).entangled = new
      BY DEF Report
    <3>2. QED BY <2>5, <2>9, <3>1 DEF InspectedStep
  <2>11. operation \in AllocatedOperations /\ before \in States
    BY <2>3, <2>4, TraceRunFacts, TraceStates
  <2>12. PICK e : StepOf(e, k, operation, before, step)
    BY <2>3, <2>4 DEF TraceRun
  <2> HIDE DEF operation, before, step, old, new
  <2>13. step.after \in States
    BY <2>11, <2>12, StepExplains
  <2>14. ASSUME NEW slot \in 0 .. w - 1
         PROVE  /\ slot \in old <=> ~ Separable(before, slot)
                /\ slot \in new <=> ~ Separable(step.after, slot)
                /\ operation.opcode # "CX" => (slot \in new => slot \in old)
                /\ operation.opcode \in DOMAIN Matrix => (slot \in old => slot \in new)
                /\ (step.outcome # NoEvidence \/ step.reset # NoEvidence)
                      /\ slot \in ToSet(operation.targets) => slot \notin new
    <3>1. slot \in Slots
      BY <2>6
    <3>2. /\ slot \in old <=> ~ Separable(before, slot)
          /\ slot \in new <=> ~ Separable(step.after, slot)
      BY <2>11, <2>13, <3>1, MixedIsNotSeparable DEF old, new
    <3>3. QED BY <2>11, <2>12, <3>1, <3>2, StepExplains
  <2>15. old \subseteq 0 .. w - 1 /\ new \subseteq 0 .. w - 1
    BY DEF old, new
  <2>16. QED
    BY <2>8, <2>10, <2>14, <2>15 DEF EntanglementExplained, step, k
<1>2. DebuggerIInv /\ ShapesIInv /\ ViewsAreFaithful => DisplayIsFaithful
  BY <1>1 DEF DisplayIsFaithful
<1>3. DebuggerIInv /\ ShapesIInv /\ [DebuggerNext]_debuggerVars => ShapesIInv'
  BY StepKeepsShapes
<1>4. QED
  BY <1>2, <1>3, InitEstablishesShapes, DebuggerInvariant, ViewsShowTheTrace, PTL
  DEF DebuggerSpec

==============================================================================
