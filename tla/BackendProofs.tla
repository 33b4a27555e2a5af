---------------------------- MODULE BackendProofs ----------------------------
(* Proofs about the backends.  The kernels of PackedArrays do to an array     *)
(* what the engines' operations do to what it packs; operations on disjoint   *)
(* slots commute, and the decays of a slot over successive times add up.      *)
(* From these: a plan that was granted is honoured as far as its capabilities *)
(* say, the loops of the NumPy backends implement the reference engines, and  *)
(* one that lets idle slots decay late, and in the order of the circuit,      *)
(* makes the matrix of the circuit run in time.                               *)
EXTENDS BackendExecution, CircuitProofs

-----------------------------------------------------------------------------
(* Packed arrays: the numbers that a bit's place counts for.               *)

LEMMA PowerFacts ==
    /\ PowerOfTwo[0] = 1
    /\ \A n \in Nat : PowerOfTwo[n] \in Nat \ {0} /\ PowerOfTwo[n + 1] = 2 * PowerOfTwo[n]
<1> DEFINE two == [i \in Nat |-> 2]
           power == [n \in Nat |-> Product(two, 1 .. n)]
           Doubles(g) == g = [n \in Nat |-> IF n = 0 THEN 1 ELSE 2 * g[n - 1]]
<1>1. power[0] = 1
  <2>1. 1 .. 0 = {}
    OBVIOUS
  <2>2. QED BY <2>1, ProductEmpty
<1>2. ASSUME NEW n \in Nat PROVE power[n + 1] = 2 * power[n] /\ power[n] \in Int
  <2>1. /\ IsFiniteSet(1 .. n) /\ n + 1 \notin 1 .. n
        /\ (1 .. n) \union {n + 1} = 1 .. n + 1
    BY FS_Interval
  <2>5. \A i \in (1 .. n) \union {n + 1} : two[i] \in Int
    OBVIOUS
  <2>2. Product(two, (1 .. n) \union {n + 1}) = two[n + 1] * Product(two, 1 .. n)
          /\ Product(two, 1 .. n) \in Int
    <3> HIDE DEF two
    <3>1. QED BY <2>1, <2>5, ProductAdd
  <2>3. two[n + 1] = 2 /\ n + 1 \in Nat
    OBVIOUS
  <2> HIDE DEF two
  <2>4. QED BY <2>1, <2>2, <2>3
<1>3. Doubles(power)
  <2>1. ASSUME NEW n \in Nat PROVE power[n] = IF n = 0 THEN 1 ELSE 2 * power[n - 1]
    <3>1. CASE n = 0
      BY <1>1, <3>1
    <3>2. CASE n # 0
      <4>1. n - 1 \in Nat /\ (n - 1) + 1 = n
        BY <3>2
      <4> HIDE DEF power
      <4>2. QED BY <1>2, <3>2, <4>1
    <3>3. QED BY <3>1, <3>2
  <2>2. power = [n \in Nat |-> power[n]]
    OBVIOUS
  <2> HIDE DEF power
  <2>3. QED BY <2>1, <2>2
<1>4. Doubles(PowerOfTwo)
  <2> HIDE DEF power
  <2>1. PowerOfTwo = CHOOSE g : g = [n \in Nat |-> IF n = 0 THEN 1 ELSE 2 * g[n - 1]]
    BY DEF PowerOfTwo
  <2>2. QED BY <1>3, <2>1
<1>5. \A n \in Nat : PowerOfTwo[n] = IF n = 0 THEN 1 ELSE 2 * PowerOfTwo[n - 1]
  BY <1>4
<1>6. \A n \in Nat : PowerOfTwo[n + 1] = 2 * PowerOfTwo[n]
  BY <1>5
<1> DEFINE positive == {n \in Nat : PowerOfTwo[n] \in Nat \ {0}}
<1>7. 0 \in positive
  BY <1>5
<1>8. \A n \in Nat : n \in positive => n + 1 \in positive
  BY <1>6
<1>9. Nat \subseteq positive
  <2> HIDE DEF positive
  <2>1. QED BY <1>7, <1>8, SetInduction
<1>10. QED BY <1>5, <1>6, <1>9

LEMMA DivideAndRest ==
    ASSUME NEW d \in Nat \ {0}, NEW q \in Nat, NEW r \in Nat, r < d
    PROVE  (d * q + r) \div d = q
OBVIOUS

LEMMA DivideMultiple ==
    ASSUME NEW d \in Nat \ {0}, NEW h \in Nat, NEW y \in Nat
    PROVE  (d * h + y) \div d = h + y \div d
OBVIOUS

LEMMA DivIsNat == ASSUME NEW d \in Nat \ {0}, NEW y \in Nat PROVE y \div d \in Nat
OBVIOUS

LEMMA EvenRest ==
    ASSUME NEW h \in Nat, NEW y \in Nat
    PROVE  (2 * h + y) % 2 = y % 2
OBVIOUS


-----------------------------------------------------------------------------
(* Packed indexes.                                                           *)

LEMMA IndexIsSum == ASSUME NEW b PROVE IndexOf(b) = Sum(PowerOfTwo, b)
BY DEF IndexOf, MapThenSumSet, MapThenFoldSet, Sum, SumStep

\* The highest bit of a packed number.
LEMMA IndexOfTop ==
    ASSUME NEW k \in Nat, NEW b \in SUBSET (0 .. k)
    PROVE  /\ b \ {k} \in SUBSET (0 .. k - 1)
           /\ k \notin b => b \in SUBSET (0 .. k - 1)
           /\ k \in b => IndexOf(b) = PowerOfTwo[k] + IndexOf(b \ {k})
<1>1. b \ {k} \in SUBSET (0 .. k - 1) /\ (k \notin b => b \in SUBSET (0 .. k - 1))
  OBVIOUS
<1>2. IsFiniteSet(b)
  <2>1. IsFiniteSet(0 .. k)
    BY FS_Interval
  <2>2. QED BY <2>1, FS_Subset
<1>3. \A s \in b : PowerOfTwo[s] \in Int
  BY PowerFacts
<1>4. k \in b => Sum(PowerOfTwo, b) = PowerOfTwo[k] + Sum(PowerOfTwo, b \ {k})
  BY <1>2, <1>3, SumRemove, ZenonT(60)
<1>5. QED BY <1>1, <1>4, IndexIsSum

LEMMA IndexOfNothing == IndexOf({}) = 0
BY IndexIsSum, SumEmpty

\* Packing k bits numbers the sets of them from 0 to 2^k - 1.
LEMMA PackingIsOnto ==
    ASSUME NEW k \in Nat
    PROVE  /\ \A b \in SUBSET (0 .. k - 1) : IndexOf(b) \in 0 .. PowerOfTwo[k] - 1
           /\ \A i \in 0 .. PowerOfTwo[k] - 1 : \E b \in SUBSET (0 .. k - 1) : IndexOf(b) = i
<1> DEFINE In(j) == \A b \in SUBSET (0 .. j - 1) : IndexOf(b) \in 0 .. PowerOfTwo[j] - 1
           Onto(j) == \A i \in 0 .. PowerOfTwo[j] - 1 :
                         \E b \in SUBSET (0 .. j - 1) : IndexOf(b) = i
           P == {j \in Nat : In(j) /\ Onto(j)}
<1>1. 0 \in P
  <2>1. \A b \in SUBSET (0 .. 0 - 1) : b = {}
    OBVIOUS
  <2>2. {} \in SUBSET (0 .. 0 - 1) /\ 0 .. PowerOfTwo[0] - 1 = {0}
    BY PowerFacts
  <2>3. QED BY <2>1, <2>2, IndexOfNothing
<1>2. ASSUME NEW j \in Nat, j \in P PROVE j + 1 \in P
  <2>1. In(j) /\ Onto(j)
    BY <1>2
  <2> HIDE DEF In, Onto
  <2>2. /\ PowerOfTwo[j + 1] = 2 * PowerOfTwo[j] /\ PowerOfTwo[j] \in Nat \ {0}
        /\ (j + 1) - 1 = j
    BY PowerFacts
  <2>3. ASSUME NEW b \in SUBSET (0 .. j) PROVE IndexOf(b) \in 0 .. PowerOfTwo[j + 1] - 1
    <3>1. CASE j \in b
      <4>1. IndexOf(b) = PowerOfTwo[j] + IndexOf(b \ {j}) /\ b \ {j} \in SUBSET (0 .. j - 1)
        BY <3>1, IndexOfTop
      <4>2. IndexOf(b \ {j}) \in 0 .. PowerOfTwo[j] - 1
        BY <2>1, <4>1 DEF In
      <4>3. QED BY <2>2, <4>1, <4>2
    <3>2. CASE j \notin b
      <4>1. IndexOf(b) \in 0 .. PowerOfTwo[j] - 1
        BY <2>1, <3>2, IndexOfTop DEF In
      <4>2. QED BY <2>2, <4>1
    <3>3. QED BY <3>1, <3>2
  <2>4. ASSUME NEW i \in 0 .. PowerOfTwo[j + 1] - 1
        PROVE  \E b \in SUBSET (0 .. j) : IndexOf(b) = i
    <3>1. CASE i < PowerOfTwo[j]
      <4>1. i \in 0 .. PowerOfTwo[j] - 1
        BY <2>2, <3>1
      <4>2. PICK b \in SUBSET (0 .. j - 1) : IndexOf(b) = i
        BY <2>1, <4>1 DEF Onto
      <4>3. b \in SUBSET (0 .. j)
        OBVIOUS
      <4>4. QED BY <4>2, <4>3
    <3>2. CASE ~ (i < PowerOfTwo[j])
      <4>1. i - PowerOfTwo[j] \in 0 .. PowerOfTwo[j] - 1
        BY <2>2, <3>2
      <4>2. PICK b \in SUBSET (0 .. j - 1) : IndexOf(b) = i - PowerOfTwo[j]
        BY <2>1, <4>1 DEF Onto
      <4>3. b \union {j} \in SUBSET (0 .. j) /\ (b \union {j}) \ {j} = b /\ j \in b \union {j}
        OBVIOUS
      <4>4. IndexOf(b \union {j}) = PowerOfTwo[j] + IndexOf(b)
        BY <4>3, IndexOfTop
      <4>5. IndexOf(b \union {j}) = i
        BY <2>2, <4>2, <4>4
      <4>6. QED BY <4>3, <4>5
    <3>3. QED BY <3>1, <3>2
  <2>5. In(j + 1) /\ Onto(j + 1)
    BY <2>2, <2>3, <2>4 DEF In, Onto
  <2>6. QED BY <2>5
<1>3. Nat \subseteq P
  <2> HIDE DEF P
  <2>1. QED BY <1>1, <1>2, SetInduction
<1>4. k \in P
  BY <1>3
<1>5. QED BY <1>4

\* A power divides the greater ones an even number of times.
LEMMA PowerDivides ==
    ASSUME NEW s \in Nat, NEW d \in Nat
    PROVE  \E h \in Nat : PowerOfTwo[s + d + 1] = PowerOfTwo[s] * (2 * h)
<1> DEFINE P == {e \in Nat : \E h \in Nat : PowerOfTwo[s + e + 1] = PowerOfTwo[s] * (2 * h)}
<1>1. 0 \in P
  <2>1. PowerOfTwo[s + 1] = 2 * PowerOfTwo[s] /\ PowerOfTwo[s] \in Nat /\ s + 0 + 1 = s + 1
    BY PowerFacts
  <2>2. \A p \in Nat : 2 * p = p * (2 * 1)
    OBVIOUS
  <2>3. QED BY <2>1, <2>2
<1>2. ASSUME NEW e \in Nat, e \in P PROVE e + 1 \in P
  <2>1. PICK h \in Nat : PowerOfTwo[s + e + 1] = PowerOfTwo[s] * (2 * h)
    BY <1>2
  <2>2. /\ s + (e + 1) + 1 = (s + e + 1) + 1 /\ s + e + 1 \in Nat
        /\ PowerOfTwo[(s + e + 1) + 1] = 2 * PowerOfTwo[s + e + 1] /\ PowerOfTwo[s] \in Nat
    BY PowerFacts
  <2>3. \A p, g \in Nat : 2 * (p * (2 * g)) = p * (2 * (2 * g)) /\ 2 * g \in Nat
    OBVIOUS
  <2>4. PowerOfTwo[s + (e + 1) + 1] = PowerOfTwo[s] * (2 * (2 * h)) /\ 2 * h \in Nat
    BY <2>1, <2>2, <2>3
  <2>5. \E g \in Nat : PowerOfTwo[s + (e + 1) + 1] = PowerOfTwo[s] * (2 * g)
    BY ONLY <2>4
  <2>6. e + 1 \in Nat
    BY ONLY e \in Nat
  <2>7. QED BY ONLY <2>5, <2>6
<1>3. Nat \subseteq P
  <2> HIDE DEF P
  <2>1. QED BY <1>1, <1>2, SetInduction
<1>4. QED BY <1>3

\* Adding a higher bit leaves the lower ones.
LEMMA HigherBit ==
    ASSUME NEW s \in Nat, NEW k \in Nat, s < k, NEW y \in Nat
    PROVE  HasBit(PowerOfTwo[k] + y, s) <=> HasBit(y, s)
<1>1. k - s - 1 \in Nat /\ s + (k - s - 1) + 1 = k
  OBVIOUS
<1>2. PICK h \in Nat : PowerOfTwo[k] = PowerOfTwo[s] * (2 * h)
  <2>1. \E h \in Nat : PowerOfTwo[s + (k - s - 1) + 1] = PowerOfTwo[s] * (2 * h)
    BY <1>1, PowerDivides
  <2>2. QED BY <1>1, <2>1
<1>3. PowerOfTwo[s] \in Nat \ {0}
  BY PowerFacts
<1>4. 2 * h \in Nat
  OBVIOUS
<1> DEFINE d == PowerOfTwo[s]
           g == 2 * h
<1>5. (d * g + y) \div d = g + y \div d
  <2> HIDE DEF d, g
  <2>1. d \in Nat \ {0} /\ g \in Nat
    BY <1>3, <1>4 DEF d, g
  <2>2. QED BY <2>1, DivideMultiple
<1>6. y \div d \in Nat
  <2> HIDE DEF d
  <2>1. d \in Nat \ {0}
    BY <1>3 DEF d
  <2>2. QED BY <2>1, DivIsNat
<1>7. (2 * h + y \div d) % 2 = (y \div d) % 2
  <2> HIDE DEF d
  <2>1. QED BY <1>6, EvenRest
<1>8. QED BY <1>2, <1>5, <1>7 DEF HasBit

LEMMA TopBit ==
    ASSUME NEW k \in Nat, NEW y \in 0 .. PowerOfTwo[k] - 1
    PROVE  HasBit(PowerOfTwo[k] + y, k) /\ ~ HasBit(y, k)
<1>1. PowerOfTwo[k] \in Nat \ {0}
  BY PowerFacts
<1>2. y \in Nat /\ y < PowerOfTwo[k]
  BY <1>1
<1>3. (PowerOfTwo[k] * 1 + y) \div PowerOfTwo[k] = 1
  BY <1>1, <1>2, DivideAndRest
<1>4. (PowerOfTwo[k] * 0 + y) \div PowerOfTwo[k] = 0
  BY <1>1, <1>2, DivideAndRest
<1>5. PowerOfTwo[k] * 1 = PowerOfTwo[k] /\ PowerOfTwo[k] * 0 + y = y
  BY <1>1, <1>2
<1>6. 1 % 2 = 1 /\ 0 % 2 = 0
  OBVIOUS
<1>7. QED BY <1>3, <1>4, <1>5, <1>6 DEF HasBit

\* The bits of a packed set are its members.
LEMMA BitsOfIndex ==
    ASSUME NEW k \in Nat
    PROVE  \A b \in SUBSET (0 .. k - 1) : \A s \in 0 .. k - 1 : HasBit(IndexOf(b), s) <=> s \in b
<1> DEFINE Right(j) == \A b \in SUBSET (0 .. j - 1) : \A s \in 0 .. j - 1 :
                          HasBit(IndexOf(b), s) <=> s \in b
           P == {j \in Nat : Right(j)}
<1>1. 0 \in P
  OBVIOUS
<1>2. ASSUME NEW j \in Nat, j \in P PROVE j + 1 \in P
  <2>1. Right(j)
    BY <1>2
  <2>2. ASSUME NEW b \in SUBSET (0 .. j), NEW s \in 0 .. j
        PROVE  HasBit(IndexOf(b), s) <=> s \in b
    <3> DEFINE c == b \ {j}
    <3>1. c \in SUBSET (0 .. j - 1) /\ (j \in b => IndexOf(b) = PowerOfTwo[j] + IndexOf(c))
            /\ (j \notin b => b = c)
      BY IndexOfTop
    <3>2. IndexOf(c) \in 0 .. PowerOfTwo[j] - 1 /\ IndexOf(c) \in Nat
      BY <3>1, PackingIsOnto
    <3> HIDE DEF c
    <3>3. CASE s = j
      BY <3>1, <3>2, <3>3, TopBit
    <3>4. CASE s # j
      <4>1. s \in 0 .. j - 1 /\ s < j /\ s \in Nat
        BY <3>4
      <4>2. HasBit(IndexOf(c), s) <=> s \in c
        BY <2>1, <3>1, <4>1
      <4>3. HasBit(PowerOfTwo[j] + IndexOf(c), s) <=> HasBit(IndexOf(c), s)
        BY <3>2, <4>1, HigherBit
      <4>4. s \in c <=> s \in b
        BY <3>4 DEF c
      <4>5. QED BY <3>1, <4>2, <4>3, <4>4
    <3>5. QED BY <3>3, <3>4
  <2>3. (j + 1) - 1 = j
    OBVIOUS
  <2> HIDE DEF Right
  <2>4. Right(j + 1)
    BY <2>2, <2>3 DEF Right
  <2>5. QED BY <2>4
<1>3. Nat \subseteq P
  <2> HIDE DEF P
  <2>1. QED BY <1>1, <1>2, SetInduction
<1>4. QED BY <1>3

-----------------------------------------------------------------------------
(* The basis states of the slots, packed.                                    *)

LEMMA SlotsFacts ==
    /\ QubitCount \in Nat /\ Slots = 0 .. QubitCount - 1
    /\ BasisStates = SUBSET (0 .. QubitCount - 1)
<1>1. QubitCount \in Nat
  BY SlotsAreFinite, FS_CardinalityType DEF QubitCount
<1>2. QED BY <1>1, SlotsAreNumbered DEF QubitCount, BasisStates

LEMMA IndexFacts ==
    /\ \A b \in BasisStates : IndexOf(b) \in Indexes
    /\ \A i \in Indexes : \E b \in BasisStates : IndexOf(b) = i
    /\ \A b \in BasisStates : \A s \in Slots : HasBit(IndexOf(b), s) <=> s \in b
    /\ \A i \in Indexes : i \in Int
<1>1. QubitCount \in Nat /\ Slots = 0 .. QubitCount - 1
        /\ BasisStates = SUBSET (0 .. QubitCount - 1)
  BY SlotsFacts
<1>2. /\ \A b \in SUBSET (0 .. QubitCount - 1) : IndexOf(b) \in 0 .. PowerOfTwo[QubitCount] - 1
      /\ \A i \in 0 .. PowerOfTwo[QubitCount] - 1 :
            \E b \in SUBSET (0 .. QubitCount - 1) : IndexOf(b) = i
  BY <1>1, PackingIsOnto
<1>3. \A b \in SUBSET (0 .. QubitCount - 1) : \A s \in 0 .. QubitCount - 1 :
         HasBit(IndexOf(b), s) <=> s \in b
  BY <1>1, BitsOfIndex
<1>4. \A i \in Indexes : i \in Int
  BY DEF Indexes
<1>5. QED BY <1>1, <1>2, <1>3, <1>4 DEF Indexes

LEMMA IndexWithBit ==
    ASSUME NEW b \in BasisStates, NEW s \in Slots
    PROVE  /\ b \ {s} \in BasisStates /\ b \union {s} \in BasisStates
           /\ s \notin b => IndexOf(b \union {s}) = IndexOf(b) + PowerOfTwo[s]
           /\ s \in b => IndexOf(b \ {s}) = IndexOf(b) - PowerOfTwo[s]
           /\ PowerOfTwo[s] \in Nat
<1>1. b \ {s} \in BasisStates /\ b \union {s} \in BasisStates
  BY DEF BasisStates
<1>2. \A k \in Slots : PowerOfTwo[k] \in Nat
  BY SlotsFacts, PowerFacts, SMTT(30)
<1>3. ASSUME NEW c \in BasisStates, s \notin c
      PROVE  IndexOf(c \union {s}) = PowerOfTwo[s] + IndexOf(c) /\ IndexOf(c) \in Int
  <2>1. IsFiniteSet(c) /\ \A k \in c \union {s} : PowerOfTwo[k] \in Int
    BY <1>2, SlotsAreFinite, FS_Subset DEF BasisStates
  <2>2. QED BY <1>3, <2>1, SumAdd, IndexIsSum
<1>4. CASE s \in b
  <2>1. (b \ {s}) \union {s} = b
    BY <1>4
  <2>2. IndexOf(b) = PowerOfTwo[s] + IndexOf(b \ {s}) /\ IndexOf(b \ {s}) \in Int
    BY <1>1, <1>3, <2>1
  <2>3. QED BY <1>1, <1>2, <1>4, <2>2
<1>5. CASE s \notin b
  BY <1>1, <1>2, <1>3, <1>5
<1>6. QED BY <1>4, <1>5

LEMMA IndexesDiffer ==
    ASSUME NEW b \in BasisStates, NEW c \in BasisStates, IndexOf(b) = IndexOf(c)
    PROVE  b = c
<1>1. \A s \in Slots : s \in b <=> s \in c
  BY IndexFacts
<1>2. QED BY <1>1 DEF BasisStates

-----------------------------------------------------------------------------
(* Tuples of bits, the highest slot first.                                   *)

Tuples(axes) == [1 .. axes -> {0, 1}]

PackedTuple(b) == [a \in 1 .. QubitCount |-> IF QubitCount - a \in b THEN 1 ELSE 0]

\* The places that the first i digits fill, of n.
Filled(t, n, i) == {s \in n - i .. n - 1 : t[n - s] = 1}

\* The values that reading the digits goes through.
ReadingPath(t, n, w) ==
    /\ w \in [0 .. n -> Int] /\ w[0] = 0
    /\ \A i \in 1 .. n : w[i] = 2 * w[i - 1] + t[i]

LEMMA ReadingPathExists ==
    ASSUME NEW n \in Nat, NEW t \in Tuples(n)
    PROVE  \E w : ReadingPath(t, n, w)
<1> DEFINE step == [i \in 1 .. n |-> [v \in Int |-> 2 * v + t[i]]]
<1>1. step \in [1 .. n -> [Int -> Int]] /\ \A i \in 1 .. n : \A v \in Int : step[i][v] = 2 * v + t[i]
  BY DEF Tuples
<1> HIDE DEF step
<1>2. PICK w \in [0 .. n -> Int] : Advances(w, n, 0, step)
  <2>1. 0 \in Int
    OBVIOUS
  <2>2. QED BY <1>1, <2>1, PrefixValues
<1>3. ASSUME NEW i \in 1 .. n PROVE w[i] = 2 * w[i - 1] + t[i]
  <2>1. w[i] = step[i][w[i - 1]] /\ w[i - 1] \in Int
    BY <1>2 DEF Advances
  <2>2. QED BY <1>1, <2>1
<1>4. QED BY <1>2, <1>3 DEF Advances, ReadingPath

LEMMA PositionIs ==
    ASSUME NEW n \in Nat, NEW t \in Tuples(n), NEW w, ReadingPath(t, n, w)
    PROVE  Position(t) = w[n]
<1> DEFINE choice == [s \in SUBSET (1 .. n) |-> Max(s)]
           step == [i \in 1 .. n |-> [v \in Int |-> 2 * v + t[i]]]
           Next(g) == [s \in SUBSET (1 .. n) |->
                          IF s = {} THEN 0 ELSE 2 * g[s \ {Max(s)}] + t[Max(s)]]
           h == CHOOSE g : g = Next(g)
<1>1. DOMAIN t = 1 .. n
  BY DEF Tuples
<1>2. Position(t) = h[1 .. n]
  BY <1>1 DEF Position, FoldLeft, MapThenFoldSet
<1>3. \E g : g = Next(g)
  <2>1. step \in [1 .. n -> [Int -> Int]]
    BY DEF Tuples
  <2>2. Chooses(choice, 1 .. n)
    BY PrefixFacts
  <2>3. IsFiniteSet(1 .. n)
    BY FS_Interval
  <2>4. PICK g \in [SUBSET (1 .. n) -> Int] : FoldsTo(g, 1 .. n, choice, 0, step)
    <3>1. 0 \in Int
      OBVIOUS
    <3> HIDE DEF step, choice
    <3>2. QED BY <2>1, <2>2, <2>3, <3>1, FoldHasSolution
  <2>5. ASSUME NEW s \in SUBSET (1 .. n) PROVE g[s] = Next(g)[s]
    <3>1. s # {} => Max(s) \in 1 .. n
      BY <2>2 DEF Chooses
    <3>2. s # {} => g[s] = step[Max(s)][g[s \ {Max(s)}]]
      BY <2>4 DEF FoldsTo
    <3>3. g[s \ {Max(s)}] \in Int
      BY <2>4
    <3>4. s # {} => g[s] = 2 * g[s \ {Max(s)}] + t[Max(s)]
      BY <3>1, <3>2, <3>3
    <3>5. s = {} => g[s] = 0
      BY <2>4 DEF FoldsTo
    <3>6. QED BY <3>4, <3>5
  <2>6. g = Next(g)
    BY <2>5
  <2>7. QED BY <2>6
<1>4. h = Next(h)
  BY <1>3
<1> HIDE DEF h
<1>5. h[1 .. 0] = w[0]
  <2>1. 1 .. 0 = {} /\ {} \in SUBSET (1 .. n)
    OBVIOUS
  <2>2. h[{}] = 0
    BY <1>4
  <2>3. QED BY <2>1, <2>2 DEF ReadingPath
<1>6. ASSUME NEW i \in 1 .. n, h[1 .. i - 1] = w[i - 1] PROVE h[1 .. i] = w[i]
  <2>1. /\ Max(1 .. i) = i /\ (1 .. i) \ {i} = 1 .. i - 1 /\ 1 .. i # {}
        /\ 1 .. i \in SUBSET (1 .. n)
    BY PrefixFacts
  <2>2. h[1 .. i] = 2 * h[1 .. i - 1] + t[i]
    BY <1>4, <2>1
  <2>3. QED BY <1>6, <2>2 DEF ReadingPath
<1>7. SameSteps(h, w, n)
  BY <1>5, <1>6 DEF SameSteps
<1>8. \A i \in 0 .. n : h[1 .. i] = w[i]
  BY <1>7, PrefixesAgree
<1>9. n \in 0 .. n
  OBVIOUS
<1>10. QED BY <1>2, <1>8, <1>9

\* Reading a tuple gives the index of the set of its ones.
LEMMA PositionOfBits ==
    ASSUME NEW n \in Nat, NEW t \in Tuples(n)
    PROVE  Position(t) = IndexOf(Filled(t, n, n))
<1>1. PICK w : ReadingPath(t, n, w)
  BY ReadingPathExists
<1> DEFINE P == {i \in Nat : i <= n => w[i] * PowerOfTwo[n - i] = IndexOf(Filled(t, n, i))}
<1>2. 0 \in P
  <2>1. Filled(t, n, 0) = {}
    BY DEF Filled
  <2>2. PowerOfTwo[n] \in Nat
    BY PowerFacts
  <2>3. 0 * PowerOfTwo[n] = 0
    BY <2>2
  <2>4. n - 0 = n /\ w[0] = 0
    BY <1>1 DEF ReadingPath
  <2>5. QED BY <2>1, <2>3, <2>4, IndexOfNothing
<1>3. ASSUME NEW i \in Nat, i \in P, i + 1 <= n PROVE i + 1 \in P
  <2> DEFINE p == PowerOfTwo[n - (i + 1)]
             low == Filled(t, n, i)
             all == Filled(t, n, i + 1)
             place == n - (i + 1)
  <2>1. n - (i + 1) \in Nat /\ (n - (i + 1)) + 1 = n - i /\ i + 1 \in 1 .. n
          /\ (i + 1) - 1 = i /\ n - (n - (i + 1)) = i + 1 /\ i \in 0 .. n
    BY <1>3
  <2>2. PowerOfTwo[n - i] = 2 * p /\ p \in Nat
    BY <2>1, PowerFacts
  <2>3. w[i + 1] = 2 * w[i] + t[i + 1] /\ w[i] \in Int /\ t[i + 1] \in {0, 1}
    BY <1>1, <2>1 DEF ReadingPath, Tuples
  <2>4. w[i] * (2 * p) = IndexOf(low)
    <3> HIDE DEF p
    <3>1. w[i] * PowerOfTwo[n - i] = IndexOf(low)
      BY <1>3, <2>1
    <3>2. QED BY <2>2, <3>1
  <2>5. place \notin low /\ all = IF t[i + 1] = 1 THEN low \union {place} ELSE low
    <3>1. place \notin low
      BY <2>1 DEF Filled
    <3>2. ASSUME NEW s \in Int
          PROVE  s \in n - (i + 1) .. n - 1 <=> s = place \/ s \in n - i .. n - 1
      BY <1>3
    <3>3. \A s : s \in all <=> s \in low \/ (s = place /\ t[i + 1] = 1)
      BY <2>1, <3>2 DEF Filled
    <3>4. QED BY <3>1, <3>3
  <2>6. t[i + 1] = 1 => IndexOf(all) = p + IndexOf(low)
    <3>1. low \in SUBSET (n - i .. n - 1)
      BY DEF Filled
    <3>2. IsFiniteSet(low) /\ \A s \in low \union {place} : PowerOfTwo[s] \in Int
      <4>1. IsFiniteSet(n - i .. n - 1)
        BY FS_Interval
      <4>2. IsFiniteSet(low)
        BY <3>1, <4>1, FS_Subset
      <4>3. \A s \in low \union {place} : s \in Nat
        BY <1>3, <2>1, <3>1
      <4>4. QED BY <4>2, <4>3, PowerFacts
    <3>3. Sum(PowerOfTwo, low \union {place}) = PowerOfTwo[place] + Sum(PowerOfTwo, low)
      <4> HIDE DEF low, place
      <4>1. QED BY <2>5, <3>2, SumAdd
    <3>4. QED BY <2>5, <3>3, IndexIsSum
  <2> HIDE DEF p, low, all, place
  <2>7. \A v \in Int, e \in Int, q \in Int : (2 * v + e) * q = v * (2 * q) + e * q
    OBVIOUS
  <2>8. w[i + 1] * p = IndexOf(low) + t[i + 1] * p
    BY <2>2, <2>3, <2>4, <2>7
  <2>9. t[i + 1] * p = IF t[i + 1] = 1 THEN p ELSE 0
    BY <2>2, <2>3
  <2>10. IndexOf(low) \in Int
    <3>1. w[i] * (2 * p) \in Int
      BY <2>2, <2>3
    <3>2. QED BY <2>4, <3>1
  <2>11. w[i + 1] * p = IndexOf(all)
    BY <2>2, <2>3, <2>5, <2>6, <2>8, <2>9, <2>10
  <2>12. QED BY <2>11 DEF p, all
<1>4. \A i \in Nat : i \in P => i + 1 \in P
  BY <1>3
<1>5. Nat \subseteq P
  <2> HIDE DEF P
  <2>1. QED BY <1>2, <1>4, SetInduction
<1>6. w[n] * PowerOfTwo[0] = IndexOf(Filled(t, n, n))
  <2>1. n \in P /\ n - n = 0 /\ n <= n
    BY <1>5
  <2>2. QED BY <2>1
<1>7. w[n] \in Int /\ PowerOfTwo[0] = 1
  BY <1>1, PowerFacts DEF ReadingPath
<1>8. w[n] = IndexOf(Filled(t, n, n))
  BY <1>6, <1>7
<1>9. QED BY <1>1, <1>8, PositionIs

\* An index, its tuple and its basis state.
LEMMA TupleFacts ==
    ASSUME NEW b \in BasisStates
    PROVE  /\ PackedTuple(b) \in Tuples(QubitCount)
           /\ Digits(IndexOf(b), QubitCount) = PackedTuple(b)
           /\ Position(PackedTuple(b)) = IndexOf(b)
<1> DEFINE n == QubitCount
           t == PackedTuple(b)
<1>1. n \in Nat /\ Slots = 0 .. n - 1 /\ b \subseteq 0 .. n - 1
  BY SlotsFacts DEF BasisStates
<1>2. t \in Tuples(n)
  BY DEF PackedTuple, Tuples
<1>3. Digits(IndexOf(b), n) = t
  <2>1. ASSUME NEW a \in 1 .. n
        PROVE  (IndexOf(b) \div PowerOfTwo[n - a]) % 2 = IF n - a \in b THEN 1 ELSE 0
    <3>1. n - a \in Slots
      BY <1>1
    <3>2. HasBit(IndexOf(b), n - a) <=> n - a \in b
      BY <3>1, IndexFacts
    <3>3. IndexOf(b) \in Nat /\ PowerOfTwo[n - a] \in Nat \ {0}
      <4>1. PowerOfTwo[n] \in Nat /\ n - a \in Nat
        BY <1>1, <3>1, PowerFacts, SMTT(30)
      <4>2. IndexOf(b) \in 0 .. PowerOfTwo[n] - 1
        BY IndexFacts DEF Indexes
      <4>3. QED BY <4>1, <4>2, PowerFacts
    <3>4. IndexOf(b) \div PowerOfTwo[n - a] \in Nat
      BY <3>3, DivIsNat
    <3> DEFINE q == IndexOf(b) \div PowerOfTwo[n - a]
    <3>5. q % 2 \in {0, 1}
      <4> HIDE DEF q
      <4>1. q \in Nat
        BY <3>4 DEF q
      <4>2. QED BY <4>1
    <3>6. q % 2 = 1 <=> n - a \in b
      BY <3>2 DEF HasBit
    <3> HIDE DEF q
    <3>7. q % 2 = IF n - a \in b THEN 1 ELSE 0
      BY <3>5, <3>6
    <3>8. QED BY <3>7 DEF q
  <2>2. QED BY <2>1 DEF Digits, PackedTuple
<1>4. Filled(t, n, n) = b
  <2>1. \A s \in 0 .. n - 1 : n - s \in 1 .. n /\ n - (n - s) = s
    BY <1>1
  <2>2. \A s \in 0 .. n - 1 : t[n - s] = IF s \in b THEN 1 ELSE 0
    BY <2>1 DEF PackedTuple
  <2>3. n - n = 0
    BY <1>1
  <2>4. Filled(t, n, n) = {s \in 0 .. n - 1 : t[n - s] = 1}
    BY <2>3 DEF Filled
  <2>5. \A s \in 0 .. n - 1 : t[n - s] = 1 <=> s \in b
    BY <2>2
  <2> HIDE DEF t, n
  <2>6. QED BY <1>1, <2>4, <2>5
<1>5. Position(t) = IndexOf(Filled(t, n, n))
  BY <1>1, <1>2, PositionOfBits
<1>6. QED BY <1>2, <1>3, <1>4, <1>5

\* Setting an axis of a tuple puts the slot in or out.
LEMMA TupleWithBit ==
    ASSUME NEW b \in BasisStates, NEW s \in Slots
    PROVE  /\ AxisOf(s) \in 1 .. QubitCount
           /\ PackedTuple(b)[AxisOf(s)] = IF s \in b THEN 1 ELSE 0
           /\ [PackedTuple(b) EXCEPT ![AxisOf(s)] = 0] = PackedTuple(b \ {s})
           /\ [PackedTuple(b) EXCEPT ![AxisOf(s)] = 1] = PackedTuple(b \union {s})
<1>1. QubitCount \in Nat /\ s \in 0 .. QubitCount - 1
  BY SlotsFacts
<1>2. AxisOf(s) \in 1 .. QubitCount /\ QubitCount - AxisOf(s) = s
  BY <1>1 DEF AxisOf
<1>3. \A a \in 1 .. QubitCount : a = AxisOf(s) <=> QubitCount - a = s
  BY <1>1 DEF AxisOf
<1>4. QED BY <1>2, <1>3 DEF PackedTuple

-----------------------------------------------------------------------------
(* Axes: taking one out, putting it back.                                    *)

LEMMA TupleIsSequence ==
    ASSUME NEW n \in Nat, NEW t \in Tuples(n)
    PROVE  t \in Seq({0, 1}) /\ Len(t) = n /\ \A i \in 1 .. n : t[i] \in {0, 1}
BY DEF Tuples

LEMMA SequenceIsTuple ==
    ASSUME NEW n \in Nat, NEW s \in Seq({0, 1}), Len(s) = n
    PROVE  s \in Tuples(n)
BY DEF Tuples

LEMMA AxisOut ==
    ASSUME NEW n \in Nat, NEW t \in Tuples(n), NEW a \in 1 .. n
    PROVE  /\ RemoveAt(t, a) \in Seq({0, 1}) /\ Len(RemoveAt(t, a)) = n - 1
           /\ \A i \in 1 .. n - 1 : RemoveAt(t, a)[i] = IF i < a THEN t[i] ELSE t[i + 1]
<1> DEFINE left == SubSeq(t, 1, a - 1)
           right == SubSeq(t, a + 1, n)
<1>1. t \in Seq({0, 1}) /\ Len(t) = n
  BY TupleIsSequence
<1>2. /\ left \in Seq({0, 1}) /\ Len(left) = a - 1
      /\ \A i \in 1 .. a - 1 : left[i] = t[i]
  BY <1>1
<1>3. /\ right \in Seq({0, 1}) /\ Len(right) = n - a
      /\ \A i \in 1 .. n - a : right[i] = t[a + i]
  <2>1. a + 1 \in 1 .. n + 1
    OBVIOUS
  <2>2. right \in Seq({0, 1}) /\ Len(right) = n - a
    BY <1>1, <2>1
  <2>3. \A i \in 1 .. n - a : right[i] = t[(a + 1) + i - 1]
    BY <1>1, <2>1
  <2>4. \A i \in 1 .. n - a : (a + 1) + i - 1 = a + i
    OBVIOUS
  <2> HIDE DEF right
  <2>5. QED BY <2>2, <2>3, <2>4
<1>4. RemoveAt(t, a) = left \o right
  BY <1>1 DEF RemoveAt
<1> HIDE DEF left, right
<1>5. left \o right \in Seq({0, 1}) /\ Len(left \o right) = n - 1
  <2>1. left \o right \in Seq({0, 1}) /\ Len(left \o right) = Len(left) + Len(right)
    BY <1>2, <1>3
  <2>2. QED BY <1>2, <1>3, <2>1
<1>6. ASSUME NEW i \in 1 .. n - 1 PROVE (left \o right)[i] = IF i < a THEN t[i] ELSE t[i + 1]
  <2>1. CASE i < a
    BY <1>2, <1>3, <2>1
  <2>2. CASE ~ (i < a)
    <3>1. i - (a - 1) \in 1 .. n - a /\ a + (i - (a - 1)) = i + 1
      BY <2>2
    <3>2. (left \o right)[i] = right[i - (a - 1)]
      BY <1>2, <1>3, <2>2, <3>1
    <3>3. QED BY <1>3, <2>2, <3>1, <3>2
  <2>3. QED BY <2>1, <2>2
<1>7. QED BY <1>4, <1>5, <1>6

LEMMA AxisIn ==
    ASSUME NEW n \in Nat \ {0}, NEW s \in Seq({0, 1}), Len(s) = n - 1, NEW a \in 1 .. n,
           NEW e \in {0, 1}
    PROVE  /\ InsertAt(s, a, e) \in Tuples(n)
           /\ \A i \in 1 .. n : InsertAt(s, a, e)[i] =
                 IF i < a THEN s[i] ELSE IF i = a THEN e ELSE s[i - 1]
<1> DEFINE left == SubSeq(s, 1, a - 1)
           right == SubSeq(s, a, n - 1)
           first == left \o <<e>>
<1>1. /\ left \in Seq({0, 1}) /\ Len(left) = a - 1
      /\ \A i \in 1 .. a - 1 : left[i] = s[i]
  OBVIOUS
<1>2. /\ right \in Seq({0, 1}) /\ Len(right) = n - a
      /\ \A i \in 1 .. n - a : right[i] = s[a + i - 1]
  OBVIOUS
<1>3. InsertAt(s, a, e) = first \o right
  BY DEF InsertAt
<1> HIDE DEF left, right
<1>4. /\ first \in Seq({0, 1}) /\ Len(first) = a /\ first[a] = e
      /\ \A i \in 1 .. a - 1 : first[i] = left[i]
  <2>1. first = Append(left, e)
    BY <1>1
  <2>2. QED BY <1>1, <2>1
<1> HIDE DEF first
<1>5. first \o right \in Seq({0, 1}) /\ Len(first \o right) = n
  <2>1. first \o right \in Seq({0, 1}) /\ Len(first \o right) = Len(first) + Len(right)
    BY ONLY <1>2, <1>4, ConcatProperties
  <2>2. QED BY <1>2, <1>4, <2>1
<1>6. ASSUME NEW i \in 1 .. n
      PROVE  (first \o right)[i] = IF i < a THEN s[i] ELSE IF i = a THEN e ELSE s[i - 1]
  <2>1. CASE i <= a
    BY <1>1, <1>2, <1>4, <2>1
  <2>2. CASE ~ (i <= a)
    <3>1. i - a \in 1 .. n - a /\ a + (i - a) - 1 = i - 1
      BY <2>2
    <3>2. (first \o right)[i] = right[i - a]
      BY <1>2, <1>4, <2>2, <3>1, SMTT(30)
    <3>3. QED BY <1>2, <2>2, <3>1, <3>2
  <2>3. QED BY <2>1, <2>2
<1>7. first \o right \in Tuples(n)
  BY <1>5, SequenceIsTuple
<1>8. QED BY <1>3, <1>6, <1>7

LEMMA HeadChanged ==
    ASSUME NEW n \in Nat \ {0}, NEW t \in Tuples(n), NEW e \in {0, 1}
    PROVE  /\ <<e>> \o Tail(t) \in Tuples(n)
           /\ (<<e>> \o Tail(t))[1] = e
           /\ \A i \in 2 .. n : (<<e>> \o Tail(t))[i] = t[i]
<1>1. t \in Seq({0, 1}) /\ Len(t) = n /\ t # <<>>
  BY TupleIsSequence
<1> DEFINE rest == Tail(t)
<1>2. rest \in Seq({0, 1}) /\ Len(rest) = n - 1 /\ \A i \in 1 .. n - 1 : rest[i] = t[i + 1]
  BY <1>1
<1> HIDE DEF rest
<1>3. <<e>> \o rest \in Seq({0, 1}) /\ Len(<<e>> \o rest) = n /\ (<<e>> \o rest)[1] = e
  BY <1>2
<1>4. ASSUME NEW i \in 2 .. n PROVE (<<e>> \o rest)[i] = t[i]
  <2>1. (<<e>> \o rest)[i] = rest[i - 1]
    BY <1>2
  <2>2. i - 1 \in 1 .. n - 1 /\ (i - 1) + 1 = i
    OBVIOUS
  <2>3. QED BY <1>2, <2>1, <2>2
<1>5. <<e>> \o rest \in Tuples(n)
  BY <1>3, SequenceIsTuple
<1>6. QED BY <1>3, <1>4, <1>5 DEF rest

LEMMA LastChanged ==
    ASSUME NEW n \in Nat \ {0}, NEW t \in Tuples(n), NEW e \in {0, 1}
    PROVE  /\ Append(Front(t), e) \in Tuples(n)
           /\ Append(Front(t), e)[n] = e
           /\ \A i \in 1 .. n - 1 : Append(Front(t), e)[i] = t[i]
           /\ Last(t) = t[n]
<1>1. t \in Seq({0, 1}) /\ Len(t) = n
  BY TupleIsSequence
<1> DEFINE rest == Front(t)
<1>2. rest \in Seq({0, 1}) /\ Len(rest) = n - 1 /\ \A i \in 1 .. n - 1 : rest[i] = t[i]
  BY <1>1 DEF Front
<1> HIDE DEF rest
<1>3. /\ Append(rest, e) \in Seq({0, 1}) /\ Len(Append(rest, e)) = n
      /\ Append(rest, e)[n] = e /\ \A i \in 1 .. n - 1 : Append(rest, e)[i] = t[i]
  BY <1>2
<1>4. Append(rest, e) \in Tuples(n)
  BY <1>3, SequenceIsTuple
<1>5. QED BY <1>1, <1>3, <1>4 DEF rest, Last

\* Two tuples are equal when they agree on the places after the axis is taken out.
LEMMA TuplesEqual ==
    ASSUME NEW n \in Nat, NEW t \in Tuples(n), NEW u \in Tuples(n),
           \A i \in 1 .. n : t[i] = u[i]
    PROVE  t = u
BY DEF Tuples

With(t, a, e) == [t EXCEPT ![a] = e]

LEMMA SettingAxis ==
    ASSUME NEW n \in Nat, NEW t \in Tuples(n), NEW a \in 1 .. n, NEW e \in {0, 1}
    PROVE  /\ With(t, a, e) \in Tuples(n)
           /\ With(t, a, e)[a] = e
           /\ \A i \in 1 .. n : i # a => With(t, a, e)[i] = t[i]
BY DEF Tuples, With

\* What an axis of a tensor gets from an operator.
OnAxis(m, tensor, a) ==
    [t \in DOMAIN tensor |-> m[t[a] + 1][1] * tensor[With(t, a, 0)]
                              + m[t[a] + 1][2] * tensor[With(t, a, 1)]]

\* Moving an axis to the front, contracting there and moving it back.
LEMMA ContractedInFront ==
    ASSUME NEW n \in Nat \ {0}, NEW tensor, DOMAIN tensor = Tuples(n), NEW a \in 1 .. n, NEW m
    PROVE  MoveAxis(ContractFirst(m, MoveAxis(tensor, a, 1)), 1, a) = OnAxis(m, tensor, a)
<1> DEFINE moved == MoveAxis(tensor, a, 1)
           contracted == ContractFirst(m, moved)
<1>1. DOMAIN moved = Tuples(n) /\ DOMAIN contracted = Tuples(n)
  BY DEF MoveAxis, ContractFirst
<1>2. 1 \in 1 .. n /\ n \in Nat
  OBVIOUS
<1>3. ASSUME NEW t \in Tuples(n)
      PROVE  MoveAxis(contracted, 1, a)[t] = OnAxis(m, tensor, a)[t]
  <2> DEFINE out == RemoveAt(t, a)
             u == InsertAt(out, 1, t[a])
  <2>1. /\ out \in Seq({0, 1}) /\ Len(out) = n - 1 /\ t[a] \in {0, 1}
        /\ \A i \in 1 .. n - 1 : out[i] = IF i < a THEN t[i] ELSE t[i + 1]
    BY AxisOut, TupleIsSequence
  <2>2. /\ u \in Tuples(n) /\ u[1] = t[a]
        /\ \A i \in 2 .. n : u[i] = out[i - 1]
    <3> HIDE DEF out
    <3>1. /\ u \in Tuples(n)
          /\ \A i \in 1 .. n : u[i] = IF i < 1 THEN out[i] ELSE IF i = 1 THEN t[a] ELSE out[i - 1]
      <4>1. /\ n \in Nat \ {0} /\ 1 \in 1 .. n /\ out \in Seq({0, 1}) /\ Len(out) = n - 1
            /\ t[a] \in {0, 1}
        BY <1>2, <2>1
      <4>2. QED BY ONLY <4>1, AxisIn
    <3> HIDE DEF u
    <3>2. QED BY <1>2, <3>1
  <2>3. MoveAxis(contracted, 1, a)[t] = contracted[u]
    BY <1>1 DEF MoveAxis
  <2> HIDE DEF u, out
  <2>4. contracted[u] = m[u[1] + 1][1] * moved[<<0>> \o Tail(u)]
                          + m[u[1] + 1][2] * moved[<<1>> \o Tail(u)]
    BY <1>1, <2>2 DEF ContractFirst
  <2>5. ASSUME NEW e \in {0, 1} PROVE moved[<<e>> \o Tail(u)] = tensor[With(t, a, e)]
    <3> DEFINE v == <<e>> \o Tail(u)
               rest == RemoveAt(v, 1)
               x == InsertAt(rest, a, e)
    <3>1. v \in Tuples(n) /\ v[1] = e /\ \A i \in 2 .. n : v[i] = u[i]
      BY <2>2, HeadChanged
    <3>2. moved[v] = tensor[InsertAt(rest, a, v[1])]
      BY <3>1 DEF MoveAxis
    <3> HIDE DEF v
    <3>3. /\ rest \in Seq({0, 1}) /\ Len(rest) = n - 1
          /\ \A i \in 1 .. n - 1 : rest[i] = IF i < 1 THEN v[i] ELSE v[i + 1]
      BY <1>2, <3>1, AxisOut
    <3> HIDE DEF rest
    <3>4. ASSUME NEW i \in 1 .. n - 1 PROVE rest[i] = out[i]
      <4>1. i + 1 \in 2 .. n /\ (i + 1) - 1 = i /\ ~ (i < 1)
        OBVIOUS
      <4>2. QED BY <2>2, <3>1, <3>3, <4>1
    <3>5. /\ x \in Tuples(n)
          /\ \A i \in 1 .. n : x[i] = IF i < a THEN rest[i] ELSE IF i = a THEN e ELSE rest[i - 1]
      BY <3>3, AxisIn
    <3> HIDE DEF x
    <3>6. ASSUME NEW i \in 1 .. n PROVE x[i] = With(t, a, e)[i]
      <4>1. With(t, a, e)[i] = IF i = a THEN e ELSE t[i]
        BY ONLY t \in Tuples(n), i \in 1 .. n, e \in {0, 1} DEF Tuples, With
      <4>2. CASE i < a
        <5>1. i \in 1 .. n - 1
          BY <4>2
        <5>2. QED BY <2>1, <3>4, <3>5, <4>1, <4>2, <5>1
      <4>3. CASE i = a
        BY <3>5, <4>1, <4>3
      <4>4. CASE i > a
        <5>1. i - 1 \in 1 .. n - 1 /\ ~ (i - 1 < a) /\ (i - 1) + 1 = i /\ ~ (i < a) /\ i # a
          BY <4>4
        <5>2. QED BY <2>1, <3>4, <3>5, <4>1, <5>1
      <4>5. QED BY <4>2, <4>3, <4>4
    <3>7. x = With(t, a, e)
      <4>1. With(t, a, e) \in Tuples(n)
        BY <1>2, SettingAxis, Zenon
      <4>2. QED BY <1>2, <3>5, <3>6, <4>1, TuplesEqual, Zenon
    <3>8. QED BY <3>1, <3>2, <3>7 DEF v, x
  <2>6. OnAxis(m, tensor, a)[t] = m[t[a] + 1][1] * tensor[With(t, a, 0)]
                                    + m[t[a] + 1][2] * tensor[With(t, a, 1)]
    BY DEF OnAxis
  <2>7. moved[<<0>> \o Tail(u)] = tensor[With(t, a, 0)]
          /\ moved[<<1>> \o Tail(u)] = tensor[With(t, a, 1)]
    BY <2>5
  <2> HIDE DEF moved, contracted
  <2>8. QED BY <2>2, <2>3, <2>4, <2>6, <2>7
<1>4. DOMAIN MoveAxis(contracted, 1, a) = Tuples(n) /\ DOMAIN OnAxis(m, tensor, a) = Tuples(n)
  BY <1>1 DEF MoveAxis, OnAxis
<1>5. MoveAxis(contracted, 1, a) = [t \in Tuples(n) |-> MoveAxis(contracted, 1, a)[t]]
        /\ OnAxis(m, tensor, a) = [t \in Tuples(n) |-> OnAxis(m, tensor, a)[t]]
  BY <1>1 DEF MoveAxis, OnAxis
<1> HIDE DEF moved, contracted
<1>6. MoveAxis(contracted, 1, a) = OnAxis(m, tensor, a)
  BY <1>3, <1>5
<1>7. QED BY <1>6 DEF moved, contracted

\* What an axis gets from an operator's columns.
OnAxisOfColumns(m, tensor, a) ==
    [t \in DOMAIN tensor |-> m[1][t[a] + 1] * tensor[With(t, a, 0)]
                              + m[2][t[a] + 1] * tensor[With(t, a, 1)]]

\* The same at the last axis.
LEMMA ContractedAtEnd ==
    ASSUME NEW n \in Nat \ {0}, NEW tensor, DOMAIN tensor = Tuples(n), NEW a \in 1 .. n, NEW m
    PROVE  MoveAxis(ContractLast(m, MoveAxis(tensor, a, n)), n, a) = OnAxisOfColumns(m, tensor, a)
<1> DEFINE moved == MoveAxis(tensor, a, n)
           contracted == ContractLast(m, moved)
<1>1. DOMAIN moved = Tuples(n) /\ DOMAIN contracted = Tuples(n)
  BY DEF MoveAxis, ContractLast
<1>2. n \in 1 .. n /\ n \in Nat
  OBVIOUS
<1>3. ASSUME NEW t \in Tuples(n)
      PROVE  MoveAxis(contracted, n, a)[t] = OnAxisOfColumns(m, tensor, a)[t]
  <2> DEFINE out == RemoveAt(t, a)
             u == InsertAt(out, n, t[a])
  <2>1. /\ out \in Seq({0, 1}) /\ Len(out) = n - 1 /\ t[a] \in {0, 1}
        /\ \A i \in 1 .. n - 1 : out[i] = IF i < a THEN t[i] ELSE t[i + 1]
    BY AxisOut, TupleIsSequence
  <2>2. /\ u \in Tuples(n) /\ u[n] = t[a]
        /\ \A i \in 1 .. n - 1 : u[i] = out[i]
    <3> HIDE DEF out
    <3>1. /\ u \in Tuples(n)
          /\ \A i \in 1 .. n : u[i] = IF i < n THEN out[i] ELSE IF i = n THEN t[a] ELSE out[i - 1]
      <4>1. /\ n \in Nat \ {0} /\ n \in 1 .. n /\ out \in Seq({0, 1}) /\ Len(out) = n - 1
            /\ t[a] \in {0, 1}
        BY <1>2, <2>1
      <4>2. QED BY ONLY <4>1, AxisIn
    <3> HIDE DEF u
    <3>2. QED BY <1>2, <3>1
  <2>3. MoveAxis(contracted, n, a)[t] = contracted[u]
    BY <1>1 DEF MoveAxis
  <2> HIDE DEF u, out
  <2>4. contracted[u] = m[1][Last(u) + 1] * moved[Append(Front(u), 0)]
                          + m[2][Last(u) + 1] * moved[Append(Front(u), 1)]
    BY <1>1, <2>2 DEF ContractLast
  <2>5. ASSUME NEW e \in {0, 1} PROVE moved[Append(Front(u), e)] = tensor[With(t, a, e)]
    <3> DEFINE v == Append(Front(u), e)
               rest == RemoveAt(v, n)
               x == InsertAt(rest, a, e)
    <3>1. v \in Tuples(n) /\ v[n] = e /\ \A i \in 1 .. n - 1 : v[i] = u[i]
      BY <2>2, LastChanged
    <3>2. moved[v] = tensor[InsertAt(rest, a, v[n])]
      BY <3>1 DEF MoveAxis
    <3> HIDE DEF v
    <3>3. /\ rest \in Seq({0, 1}) /\ Len(rest) = n - 1
          /\ \A i \in 1 .. n - 1 : rest[i] = IF i < n THEN v[i] ELSE v[i + 1]
      BY <1>2, <3>1, AxisOut
    <3> HIDE DEF rest
    <3>4. ASSUME NEW i \in 1 .. n - 1 PROVE rest[i] = out[i]
      <4>1. i < n
        OBVIOUS
      <4>2. QED BY <2>2, <3>1, <3>3, <4>1
    <3>5. /\ x \in Tuples(n)
          /\ \A i \in 1 .. n : x[i] = IF i < a THEN rest[i] ELSE IF i = a THEN e ELSE rest[i - 1]
      BY <3>3, AxisIn
    <3> HIDE DEF x
    <3>6. ASSUME NEW i \in 1 .. n PROVE x[i] = With(t, a, e)[i]
      <4>1. With(t, a, e)[i] = IF i = a THEN e ELSE t[i]
        BY ONLY t \in Tuples(n), i \in 1 .. n, e \in {0, 1} DEF Tuples, With
      <4>2. CASE i < a
        <5>1. i \in 1 .. n - 1
          BY <4>2
        <5>2. QED BY <2>1, <3>4, <3>5, <4>1, <4>2, <5>1
      <4>3. CASE i = a
        BY <3>5, <4>1, <4>3
      <4>4. CASE i > a
        <5>1. i - 1 \in 1 .. n - 1 /\ ~ (i - 1 < a) /\ (i - 1) + 1 = i /\ ~ (i < a) /\ i # a
          BY <4>4
        <5>2. QED BY <2>1, <3>4, <3>5, <4>1, <5>1
      <4>5. QED BY <4>2, <4>3, <4>4
    <3>7. x = With(t, a, e)
      <4>1. With(t, a, e) \in Tuples(n)
        BY <1>2, SettingAxis, Zenon
      <4>2. QED BY <1>2, <3>5, <3>6, <4>1, TuplesEqual, Zenon
    <3>8. QED BY <3>1, <3>2, <3>7 DEF v, x
  <2>6. OnAxisOfColumns(m, tensor, a)[t] = m[1][t[a] + 1] * tensor[With(t, a, 0)]
                                             + m[2][t[a] + 1] * tensor[With(t, a, 1)]
    BY DEF OnAxisOfColumns
  <2>7. moved[Append(Front(u), 0)] = tensor[With(t, a, 0)]
          /\ moved[Append(Front(u), 1)] = tensor[With(t, a, 1)]
    BY <2>5
  <2>8. Last(u) = t[a]
    BY <2>2, LastChanged
  <2> HIDE DEF moved, contracted
  <2>9. QED BY <2>3, <2>4, <2>6, <2>7, <2>8
<1>4. MoveAxis(contracted, n, a) = [t \in Tuples(n) |-> MoveAxis(contracted, n, a)[t]]
        /\ OnAxisOfColumns(m, tensor, a) = [t \in Tuples(n) |-> OnAxisOfColumns(m, tensor, a)[t]]
  BY <1>1 DEF MoveAxis, OnAxisOfColumns
<1> HIDE DEF moved, contracted
<1>5. MoveAxis(contracted, n, a) = OnAxisOfColumns(m, tensor, a)
  BY <1>3, <1>4
<1>6. QED BY <1>5 DEF moved, contracted

-----------------------------------------------------------------------------
(* The kernels on vectors.                                                   *)

PackedVectors == [Indexes -> Int]

\* An array, read by basis state.
Read(array) == [b \in BasisStates |-> array[IndexOf(b)]]

LEMMA ReadFacts ==
    ASSUME NEW array \in PackedVectors
    PROVE  /\ Read(array) \in States
           /\ \A b \in BasisStates : Read(array)[b] = array[IndexOf(b)]
BY IndexFacts DEF PackedVectors, Read, States

LEMMA WrittenFacts ==
    ASSUME NEW array, array = [i \in Indexes |-> array[i]], NEW v \in States,
           \A b \in BasisStates : array[IndexOf(b)] = v[b]
    PROVE  array \in PackedVectors /\ Read(array) = v
<1>1. \A i \in Indexes : array[i] \in Int
  BY IndexFacts DEF States
<1>2. array \in PackedVectors
  BY <1>1 DEF PackedVectors
<1>3. Read(array) = v
  BY DEF Read, States
<1>4. QED BY <1>2, <1>3

IndexesOf(Z) == {IndexOf(c) : c \in Z}

\* An exchange of the indexes of the basis states of Z with their partners.
LEMMA ExchangedIs ==
    ASSUME NEW array \in PackedVectors, NEW target \in Slots, NEW Z \in SUBSET BasisStates,
           \A c \in Z : target \notin c, NEW b \in BasisStates
    PROVE  /\ b \in Z => Exchanged(array, IndexesOf(Z), target)[IndexOf(b)]
                                = Read(array)[b \union {target}]
           /\ (b \notin Z /\ target \in b /\ b \ {target} \in Z) =>
                  Exchanged(array, IndexesOf(Z), target)[IndexOf(b)] = Read(array)[b \ {target}]
           /\ (b \notin Z /\ ~ (target \in b /\ b \ {target} \in Z)) =>
                  Exchanged(array, IndexesOf(Z), target)[IndexOf(b)] = Read(array)[b]
<1> DEFINE zeros == IndexesOf(Z)
           i == IndexOf(b)
           p == PowerOfTwo[target]
           E == Exchanged(array, zeros, target)
<1>1. i \in Indexes /\ i \in Int /\ p \in Nat
  BY IndexFacts, IndexWithBit
<1>2. \A c \in BasisStates : Read(array)[c] = array[IndexOf(c)]
  BY ReadFacts
<1>3. E[i] = IF i \in zeros THEN array[i + p]
             ELSE IF i - p \in zeros THEN array[i - p] ELSE array[i]
  <2> HIDE DEF i, p, zeros
  <2>1. QED BY <1>1 DEF Exchanged, p
<1>4. i \in zeros <=> b \in Z
  <2>1. ASSUME NEW c \in Z, IndexOf(c) = i PROVE b \in Z
    <3>1. c = b
      BY <2>1, IndexesDiffer
    <3>2. QED BY <3>1
  <2>2. QED BY <2>1 DEF IndexesOf
<1>5. i - p \in zeros <=> target \in b /\ b \ {target} \in Z
  <2>1. ASSUME target \in b, b \ {target} \in Z PROVE i - p \in zeros
    <3>1. IndexOf(b \ {target}) = i - p
      BY <2>1, IndexWithBit
    <3>2. QED BY <2>1, <3>1 DEF IndexesOf
  <2>2. ASSUME NEW c \in Z, IndexOf(c) = i - p PROVE target \in b /\ b \ {target} \in Z
    <3>1. /\ c \in BasisStates /\ target \notin c /\ c \union {target} \in BasisStates
          /\ IndexOf(c \union {target}) = IndexOf(c) + p
      BY IndexWithBit
    <3>2. IndexOf(c \union {target}) = i
      BY <1>1, <2>2, <3>1
    <3>3. c \union {target} = b
      BY <3>1, <3>2, IndexesDiffer
    <3>4. b \ {target} = c
      BY <3>1, <3>3
    <3>5. QED BY <3>3, <3>4
  <2>3. QED BY <2>1, <2>2 DEF IndexesOf
<1>6. b \in Z => i + p = IndexOf(b \union {target}) /\ b \union {target} \in BasisStates
  BY IndexWithBit
<1>7. target \in b => i - p = IndexOf(b \ {target}) /\ b \ {target} \in BasisStates
  BY IndexWithBit
<1> HIDE DEF i, p, E
<1>8. CASE b \in Z
  BY <1>2, <1>3, <1>4, <1>6, <1>8 DEF i, E
<1>9. CASE b \notin Z /\ target \in b /\ b \ {target} \in Z
  BY <1>2, <1>3, <1>4, <1>5, <1>7, <1>9 DEF i, E
<1>10. CASE b \notin Z /\ ~ (target \in b /\ b \ {target} \in Z)
  BY <1>2, <1>3, <1>4, <1>5, <1>10 DEF i, E
<1>11. QED BY <1>8, <1>9, <1>10

LEMMA XVectorIs ==
    ASSUME NEW array \in PackedVectors, NEW target \in Slots, NEW m, IsMatrix(m),
           m = <<<<0, 1>>, <<1, 0>>>>
    PROVE  /\ XVector(array, target) \in PackedVectors
           /\ Read(XVector(array, target)) = ApplySingle(Read(array), target, m)
<1> DEFINE v == Read(array)
           after == ApplySingle(v, target, m)
           Z == {c \in BasisStates : target \notin c}
           zeros == {i \in Indexes : ~ HasBit(i, target)}
           E == XVector(array, target)
<1>1. v \in States
  BY ReadFacts
<1>3. zeros = IndexesOf(Z)
  <2>1. \A i \in zeros : \E c \in Z : IndexOf(c) = i
    BY IndexFacts
  <2>2. \A c \in Z : IndexOf(c) \in zeros
    BY IndexFacts
  <2> HIDE DEF zeros, Z
  <2>3. QED BY <2>1, <2>2 DEF IndexesOf
<1>4. after \in States
  <2> HIDE DEF v
  <2>1. QED BY <1>1, SingleFacts
<1>5. ASSUME NEW b \in BasisStates PROVE E[IndexOf(b)] = after[b]
  <2>1. /\ v[b \ {target}] \in Int /\ v[b \union {target}] \in Int
        /\ after[b] = Line(m, target, b)[1] * v[b \ {target}]
                        + Line(m, target, b)[2] * v[b \union {target}]
    <3> HIDE DEF v
    <3>1. IsMatrix(m) /\ target \in Slots /\ b \in BasisStates
      OBVIOUS
    <3> HIDE DEF after, Z, zeros, E
    <3>2. \A c \in BasisStates :
             /\ v[c \ {target}] \in Int /\ v[c \union {target}] \in Int
             /\ ApplySingle(v, target, m)[c] = Line(m, target, c)[1] * v[c \ {target}]
                                                + Line(m, target, c)[2] * v[c \union {target}]
      BY ONLY <1>1, <3>1, SingleFacts
    <3>3. QED BY ONLY <3>1, <3>2, Zenon DEF after
  <2>2. after[b] = IF target \in b THEN v[b \ {target}] ELSE v[b \union {target}]
    <3> HIDE DEF v, after
    <3>1. CASE target \in b
      BY <2>1, <3>1 DEF Line
    <3>2. CASE target \notin b
      BY <2>1, <3>2 DEF Line
    <3>3. QED BY <3>1, <3>2
  <2>3. /\ b \in Z => Exchanged(array, zeros, target)[IndexOf(b)] = v[b \union {target}]
        /\ (b \notin Z /\ target \in b /\ b \ {target} \in Z) =>
               Exchanged(array, zeros, target)[IndexOf(b)] = v[b \ {target}]
        /\ (b \notin Z /\ ~ (target \in b /\ b \ {target} \in Z)) =>
               Exchanged(array, zeros, target)[IndexOf(b)] = v[b]
    <3>1. Z \in SUBSET BasisStates /\ \A c \in Z : target \notin c
      OBVIOUS
    <3>2. Exchanged(array, zeros, target) = Exchanged(array, IndexesOf(Z), target)
      BY ONLY <1>3
    <3> HIDE DEF zeros, Z, v
    <3>3. /\ b \in Z => Exchanged(array, IndexesOf(Z), target)[IndexOf(b)] = v[b \union {target}]
          /\ (b \notin Z /\ target \in b /\ b \ {target} \in Z) =>
                 Exchanged(array, IndexesOf(Z), target)[IndexOf(b)] = v[b \ {target}]
          /\ (b \notin Z /\ ~ (target \in b /\ b \ {target} \in Z)) =>
                 Exchanged(array, IndexesOf(Z), target)[IndexOf(b)] = v[b]
      BY <3>1, ExchangedIs DEF v
    <3>4. QED BY <3>2, <3>3
  <2>4. (b \in Z <=> target \notin b) /\ (b \ {target} \in Z)
    BY BasisFacts
  <2>5. E = Exchanged(array, zeros, target)
    BY DEF XVector
  <2> HIDE DEF v, after, Z, zeros, E
  <2>6. QED BY <2>2, <2>3, <2>4, <2>5
<1>6. E = [i \in Indexes |-> E[i]]
  BY DEF XVector, Exchanged
<1> HIDE DEF E, after
<1>7. E \in PackedVectors /\ Read(E) = after
  BY <1>4, <1>5, <1>6, WrittenFacts
<1>8. QED BY <1>7 DEF E, after

LEMMA CxVectorIs ==
    ASSUME NEW array \in PackedVectors, NEW control \in Slots, NEW target \in Slots,
           control # target
    PROVE  /\ CxVector(array, control, target) \in PackedVectors
           /\ Read(CxVector(array, control, target)) = ApplyCx(Read(array), control, target)
<1> DEFINE v == Read(array)
           after == ApplyCx(v, control, target)
           Z == {c \in BasisStates : control \in c /\ target \notin c}
           zeros == {i \in Indexes : HasBit(i, control) /\ ~ HasBit(i, target)}
           E == CxVector(array, control, target)
<1>1. v \in States
  BY ReadFacts
<1>2. zeros = IndexesOf(Z)
  <2>1. \A i \in zeros : \E c \in Z : IndexOf(c) = i
    BY IndexFacts
  <2>2. \A c \in Z : IndexOf(c) \in zeros
    BY IndexFacts
  <2> HIDE DEF zeros, Z
  <2>3. QED BY <2>1, <2>2 DEF IndexesOf
<1>3. after \in States
  <2> HIDE DEF v
  <2>1. QED BY <1>1, PermutedFacts DEF ApplyCx, States
<1>4. ASSUME NEW b \in BasisStates PROVE E[IndexOf(b)] = after[b]
  <2>1. after[b] = IF control \notin b THEN v[b]
                   ELSE IF target \in b THEN v[b \ {target}] ELSE v[b \union {target}]
    BY DEF ApplyCx, Permuted
  <2>2. /\ b \in Z => Exchanged(array, zeros, target)[IndexOf(b)] = v[b \union {target}]
        /\ (b \notin Z /\ target \in b /\ b \ {target} \in Z) =>
               Exchanged(array, zeros, target)[IndexOf(b)] = v[b \ {target}]
        /\ (b \notin Z /\ ~ (target \in b /\ b \ {target} \in Z)) =>
               Exchanged(array, zeros, target)[IndexOf(b)] = v[b]
    <3>1. Z \in SUBSET BasisStates /\ \A c \in Z : target \notin c
      OBVIOUS
    <3>2. Exchanged(array, zeros, target) = Exchanged(array, IndexesOf(Z), target)
      BY ONLY <1>2
    <3> HIDE DEF zeros, Z, v
    <3>3. /\ b \in Z => Exchanged(array, IndexesOf(Z), target)[IndexOf(b)] = v[b \union {target}]
          /\ (b \notin Z /\ target \in b /\ b \ {target} \in Z) =>
                 Exchanged(array, IndexesOf(Z), target)[IndexOf(b)] = v[b \ {target}]
          /\ (b \notin Z /\ ~ (target \in b /\ b \ {target} \in Z)) =>
                 Exchanged(array, IndexesOf(Z), target)[IndexOf(b)] = v[b]
      BY <3>1, ExchangedIs DEF v
    <3>4. QED BY <3>2, <3>3
  <2>3. /\ b \in Z <=> control \in b /\ target \notin b
        /\ b \ {target} \in Z <=> control \in b
    BY BasisFacts
  <2>4. E = Exchanged(array, zeros, target)
    BY DEF CxVector
  <2> HIDE DEF v, after, Z, zeros, E
  <2>5. QED BY <2>1, <2>2, <2>3, <2>4
<1>5. E = [i \in Indexes |-> E[i]]
  BY DEF CxVector, Exchanged
<1> HIDE DEF E, after
<1>6. E \in PackedVectors /\ Read(E) = after
  BY <1>3, <1>4, <1>5, WrittenFacts
<1>7. QED BY <1>6 DEF E, after

LEMMA DiagonalVectorIs ==
    ASSUME NEW array \in PackedVectors, NEW target \in Slots, NEW m, IsMatrix(m),
           m[1][2] = 0, m[2][1] = 0
    PROVE  /\ DiagonalVector(array, target, m) \in PackedVectors
           /\ Read(DiagonalVector(array, target, m)) = ApplySingle(Read(array), target, m)
<1> DEFINE v == Read(array)
           after == ApplySingle(v, target, m)
           E == DiagonalVector(array, target, m)
<1>1. v \in States /\ \A b \in BasisStates : v[b] = array[IndexOf(b)]
  BY ReadFacts
<1>2. after \in States
  <2> HIDE DEF v
  <2>1. QED BY <1>1, SingleFacts
<1>3. ASSUME NEW b \in BasisStates PROVE E[IndexOf(b)] = after[b]
  <2>1. /\ v[b \ {target}] \in Int /\ v[b \union {target}] \in Int
        /\ after[b] = Line(m, target, b)[1] * v[b \ {target}]
                        + Line(m, target, b)[2] * v[b \union {target}]
    <3> HIDE DEF v
    <3>1. IsMatrix(m) /\ target \in Slots /\ b \in BasisStates
      OBVIOUS
    <3> HIDE DEF after
    <3>2. \A c \in BasisStates :
             /\ v[c \ {target}] \in Int /\ v[c \union {target}] \in Int
             /\ ApplySingle(v, target, m)[c] = Line(m, target, c)[1] * v[c \ {target}]
                                                + Line(m, target, c)[2] * v[c \union {target}]
      BY ONLY <1>1, <3>1, SingleFacts
    <3>3. QED BY ONLY <3>1, <3>2, Zenon DEF after
  <2>2. E[IndexOf(b)] = (IF target \in b THEN m[2][2] ELSE m[1][1]) * v[b]
    BY <1>1, IndexFacts DEF DiagonalVector
  <2> HIDE DEF v, after, E
  <2>3. CASE target \in b
    <3>1. b \union {target} = b
      BY <2>3
    <3>2. after[b] = 0 * v[b \ {target}] + m[2][2] * v[b]
      BY <2>1, <2>3, <3>1 DEF Line
    <3>3. m[2][2] \in Int /\ v[b] \in Int
      BY <2>1, <3>1 DEF IsMatrix
    <3>4. \A x, y, e \in Int : 0 * x + e * y = e * y
      OBVIOUS
    <3>5. after[b] = m[2][2] * v[b]
      BY <2>1, <3>2, <3>3, <3>4
    <3>6. QED BY <2>2, <2>3, <3>5
  <2>4. CASE target \notin b
    <3>1. b \ {target} = b
      BY <2>4
    <3>2. after[b] = m[1][1] * v[b] + 0 * v[b \union {target}]
      BY <2>1, <2>4, <3>1 DEF Line
    <3>3. m[1][1] \in Int /\ v[b] \in Int
      BY <2>1, <3>1 DEF IsMatrix
    <3>4. \A x, y, e \in Int : e * y + 0 * x = e * y
      OBVIOUS
    <3>5. after[b] = m[1][1] * v[b]
      BY <2>1, <3>2, <3>3, <3>4
    <3>6. QED BY <2>2, <2>4, <3>5
  <2>5. QED BY <2>3, <2>4
<1>4. E = [i \in Indexes |-> E[i]]
  BY DEF DiagonalVector
<1> HIDE DEF E, after
<1>5. E \in PackedVectors /\ Read(E) = after
  BY <1>2, <1>3, <1>4, WrittenFacts
<1>6. QED BY <1>5 DEF E, after

LEMMA DenseVectorIs ==
    ASSUME NEW array \in PackedVectors, NEW target \in Slots, NEW m, IsMatrix(m)
    PROVE  /\ DenseVector(array, target, m) \in PackedVectors
           /\ Read(DenseVector(array, target, m)) = ApplySingle(Read(array), target, m)
<1> DEFINE v == Read(array)
           after == ApplySingle(v, target, m)
           a == AxisOf(target)
           tensor == Tensor(array)
           E == DenseVector(array, target, m)
<1>1. v \in States /\ \A b \in BasisStates : v[b] = array[IndexOf(b)]
  BY ReadFacts
<1>2. after \in States
  <2> HIDE DEF v
  <2>1. QED BY <1>1, SingleFacts
<1>3. a \in 1 .. QubitCount /\ QubitCount \in Nat /\ QubitCount \in Nat \ {0}
  <2>1. {} \in BasisStates
    BY DEF BasisStates
  <2>2. a \in 1 .. QubitCount
    BY <2>1, TupleWithBit
  <2>3. QED BY <2>2, SlotsFacts
<1>4. DOMAIN tensor = Tuples(QubitCount)
  BY DEF Tensor, Tuples
<1>5. E = Flat(OnAxis(m, tensor, a))
  <2>1. E = Flat(MoveAxis(ContractFirst(m, MoveAxis(tensor, a, 1)), 1, a))
    BY DEF DenseVector
  <2> HIDE DEF E, tensor, a
  <2>2. MoveAxis(ContractFirst(m, MoveAxis(tensor, a, 1)), 1, a) = OnAxis(m, tensor, a)
    BY <1>3, <1>4, ContractedInFront
  <2>3. QED BY <2>1, <2>2
<1>6. \A b \in BasisStates : tensor[PackedTuple(b)] = v[b]
  BY <1>1, TupleFacts DEF Tensor, Tuples
<1>7. ASSUME NEW b \in BasisStates PROVE E[IndexOf(b)] = after[b]
  <2> DEFINE t == PackedTuple(b)
  <2>1. /\ after[b] = Line(m, target, b)[1] * v[b \ {target}]
                        + Line(m, target, b)[2] * v[b \union {target}]
    <3> HIDE DEF v
    <3>1. IsMatrix(m) /\ target \in Slots /\ b \in BasisStates
      OBVIOUS
    <3> HIDE DEF after
    <3>2. \A c \in BasisStates :
             /\ v[c \ {target}] \in Int /\ v[c \union {target}] \in Int
             /\ ApplySingle(v, target, m)[c] = Line(m, target, c)[1] * v[c \ {target}]
                                                + Line(m, target, c)[2] * v[c \union {target}]
      BY ONLY <1>1, <3>1, SingleFacts
    <3>3. QED BY ONLY <3>1, <3>2, Zenon DEF after
  <2>2. t \in Tuples(QubitCount) /\ Digits(IndexOf(b), QubitCount) = t
    BY TupleFacts
  <2>3. Flat(OnAxis(m, tensor, a))[IndexOf(b)] = OnAxis(m, tensor, a)[t]
    BY <2>2, IndexFacts DEF Flat
  <2>4. /\ t[a] = IF target \in b THEN 1 ELSE 0
        /\ With(t, a, 0) = PackedTuple(b \ {target})
        /\ With(t, a, 1) = PackedTuple(b \union {target})
    BY TupleWithBit DEF With
  <2> HIDE DEF t, a, tensor, E, v, after
  <2>5. OnAxis(m, tensor, a)[t] = m[t[a] + 1][1] * tensor[With(t, a, 0)]
                                    + m[t[a] + 1][2] * tensor[With(t, a, 1)]
    BY <1>4, <2>2 DEF OnAxis
  <2>6. m[t[a] + 1] = Line(m, target, b)
    BY <2>4 DEF Line
  <2>7. tensor[With(t, a, 0)] = v[b \ {target}] /\ tensor[With(t, a, 1)] = v[b \union {target}]
    BY <1>6, <2>4, BasisFacts
  <2>8. QED BY <1>5, <2>1, <2>3, <2>5, <2>6, <2>7
<1>8. E = [i \in Indexes |-> E[i]]
  BY <1>5 DEF Flat
<1> HIDE DEF E, after
<1>9. E \in PackedVectors /\ Read(E) = after
  BY <1>2, <1>7, <1>8, WrittenFacts
<1>10. QED BY <1>9 DEF E, after

\* The kernel of a gate is the reference engine's operation.
LEMMA VectorKernelIs ==
    ASSUME NEW array \in PackedVectors, NEW operation \in AllocatedOperations,
           operation.opcode \in Gates
    PROVE  /\ VectorKernel(array, operation) \in PackedVectors
           /\ Read(VectorKernel(array, operation)) = ApplyOperation(Read(array), operation)
<1> DEFINE target == operation.targets[1]
<1>1. target \in Slots
  BY FirstTarget
<1>2. operation.opcode \in {"X", "H", "Z", "RY", "CX"}
  BY DEF Gates, Matrix
<1>3. CASE operation.opcode = "CX"
  <2>1. operation.control \in Slots /\ operation.control # target
    BY <1>3 DEF AllocatedOperations
  <2>2. VectorKernel(array, operation) = CxVector(array, operation.control, target)
    BY <1>3 DEF VectorKernel, Structure
  <2>3. ApplyOperation(Read(array), operation) = ApplyCx(Read(array), operation.control, target)
    BY <1>3 DEF ApplyOperation
  <2> HIDE DEF target
  <2>4. QED BY <1>1, <2>1, <2>2, <2>3, CxVectorIs
<1>4. CASE operation.opcode = "X"
  <2>1. VectorKernel(array, operation) = XVector(array, target)
    BY <1>4 DEF VectorKernel, Structure
  <2>2. ApplyOperation(Read(array), operation) = ApplySingle(Read(array), target, Matrix.X)
    BY <1>4 DEF ApplyOperation
  <2>3. IsMatrix(Matrix.X) /\ Matrix.X = <<<<0, 1>>, <<1, 0>>>>
    BY DEF Matrix, IsMatrix
  <2> HIDE DEF target
  <2>4. QED BY <1>1, <2>1, <2>2, <2>3, XVectorIs
<1>5. CASE operation.opcode = "Z"
  <2>1. VectorKernel(array, operation) = DiagonalVector(array, target, Matrix["Z"])
    BY <1>5 DEF VectorKernel, Structure
  <2>2. ApplyOperation(Read(array), operation) = ApplySingle(Read(array), target, Matrix["Z"])
    BY <1>5 DEF ApplyOperation
  <2>3. IsMatrix(Matrix["Z"]) /\ Matrix["Z"][1][2] = 0 /\ Matrix["Z"][2][1] = 0
    BY DEF Matrix, IsMatrix
  <2> HIDE DEF target
  <2>4. QED BY <1>1, <2>1, <2>2, <2>3, DiagonalVectorIs
<1>6. CASE operation.opcode \in {"H", "RY"}
  <2> DEFINE m == Matrix[operation.opcode]
  <2>1. VectorKernel(array, operation) = DenseVector(array, target, m)
    BY <1>6 DEF VectorKernel, Structure
  <2>2. ApplyOperation(Read(array), operation) = ApplySingle(Read(array), target, m)
    BY <1>6 DEF ApplyOperation
  <2>3. operation.opcode \in DOMAIN Matrix
    BY <1>6 DEF Matrix
  <2>4. IsMatrix(m)
    BY <2>3, MatrixOfGate
  <2> HIDE DEF target, m
  <2>5. QED BY <1>1, <2>1, <2>2, <2>4, DenseVectorIs
<1>7. QED BY <1>2, <1>3, <1>4, <1>5, <1>6

-----------------------------------------------------------------------------
(* The kernels on density matrices.                                          *)

PackedMatrices == [Indexes -> PackedVectors]

ReadMatrix(array) ==
    [row \in BasisStates |-> [col \in BasisStates |-> array[IndexOf(row)][IndexOf(col)]]]

LEMMA ReadMatrixFacts ==
    ASSUME NEW array \in PackedMatrices
    PROVE  /\ ReadMatrix(array) \in Densities
           /\ \A row, col \in BasisStates :
                 ReadMatrix(array)[row][col] = array[IndexOf(row)][IndexOf(col)]
           /\ \A i \in Indexes : array[i] \in PackedVectors
           /\ \A i, j \in Indexes : array[i][j] \in Int
<1>1. \A i \in Indexes : array[i] \in PackedVectors
  BY DEF PackedMatrices
<1>2. \A i, j \in Indexes : array[i][j] \in Int
  BY <1>1 DEF PackedVectors
<1>3. \A row, col \in BasisStates : array[IndexOf(row)][IndexOf(col)] \in Int
  BY <1>2, IndexFacts
<1>4. \A row, col \in BasisStates : ReadMatrix(array)[row][col] = array[IndexOf(row)][IndexOf(col)]
  BY DEF ReadMatrix
<1>5. ReadMatrix(array) \in Densities
  BY <1>3 DEF ReadMatrix, Densities, States
<1>6. QED BY <1>1, <1>2, <1>4, <1>5

\* An array of arrays.
IsTable(array) == array = [i \in Indexes |-> [j \in Indexes |-> array[i][j]]]

LEMMA WrittenMatrixFacts ==
    ASSUME NEW array, IsTable(array), NEW D \in Densities,
           \A row, col \in BasisStates : array[IndexOf(row)][IndexOf(col)] = D[row][col]
    PROVE  array \in PackedMatrices /\ ReadMatrix(array) = D
<1>1. \A row, col \in BasisStates : D[row][col] \in Int
  BY DensityFacts
<1>2. \A i, j \in Indexes : array[i][j] \in Int
  BY <1>1, IndexFacts
<1>3. array \in PackedMatrices
  BY <1>2 DEF IsTable, PackedMatrices, PackedVectors
<1>4. D = [row \in BasisStates |-> [col \in BasisStates |-> D[row][col]]]
  BY DEF Densities, States
<1>5. ReadMatrix(array) = D
  BY <1>4 DEF ReadMatrix
<1>6. QED BY <1>3, <1>5

LEMMA ContiguousIs ==
    ASSUME NEW array \in PackedMatrices
    PROVE  Contiguous(array) = array
BY DEF Contiguous, PackedMatrices, PackedVectors

\* The tuple of a row followed by the one of a column.
Joined(row, col) == PackedTuple(row) \o PackedTuple(col)

LEMMA JoinedFacts ==
    ASSUME NEW row \in BasisStates, NEW col \in BasisStates
    PROVE  /\ Joined(row, col) \in Tuples(2 * QubitCount)
           /\ \A i \in 1 .. QubitCount : Joined(row, col)[i] = PackedTuple(row)[i]
           /\ \A i \in 1 .. QubitCount : Joined(row, col)[QubitCount + i] = PackedTuple(col)[i]
           /\ SubSeq(Joined(row, col), 1, QubitCount) = PackedTuple(row)
           /\ SubSeq(Joined(row, col), QubitCount + 1, 2 * QubitCount) = PackedTuple(col)
<1> DEFINE n == QubitCount
           t == PackedTuple(row)
           u == PackedTuple(col)
           j == t \o u
           first == SubSeq(j, 1, n)
           second == SubSeq(j, n + 1, 2 * n)
<1>1. n \in Nat
  BY SlotsFacts
<1>2. t \in Tuples(n) /\ u \in Tuples(n)
  BY TupleFacts
<1> HIDE DEF n, t, u
<1>3. t \in Seq({0, 1}) /\ Len(t) = n /\ u \in Seq({0, 1}) /\ Len(u) = n
  BY <1>1, <1>2, TupleIsSequence
<1>4. /\ j \in Seq({0, 1}) /\ Len(j) = 2 * n
      /\ \A i \in 1 .. n : j[i] = t[i]
      /\ \A i \in 1 .. n : j[n + i] = u[i]
  BY <1>1, <1>3
<1> HIDE DEF j
<1>5. 2 * n \in Nat
  BY <1>1
<1>6. j \in Tuples(2 * n)
  BY <1>4, <1>5, SequenceIsTuple
<1>7. /\ first \in Seq({0, 1}) /\ Len(first) = n
      /\ \A i \in 1 .. n : first[i] = j[i]
  BY <1>1, <1>4
<1>8. /\ second \in Seq({0, 1}) /\ Len(second) = n
      /\ \A i \in 1 .. n : second[i] = j[n + i]
  <2>1. second \in Seq({0, 1}) /\ Len(second) = n
    <3> DEFINE lo == n + 1
               hi == 2 * n
    <3>1. lo \in Int /\ hi \in Int /\ hi - lo + 1 = n /\ (lo <= hi <=> n # 0)
            /\ \A i \in lo .. hi : i \in 1 .. hi
      BY ONLY <1>1
    <3>2. \A i \in 1 .. hi : j[i] \in {0, 1}
      <4> HIDE DEF hi
      <4>1. QED BY ONLY <1>4, <3>1, ElementOfSeq DEF hi
    <3>3. \A i \in lo .. hi : j[i] \in {0, 1}
      BY <3>1, <3>2, Zenon
    <3> HIDE DEF lo, hi
    <3>4. /\ SubSeq(j, lo, hi) \in Seq({0, 1})
          /\ Len(SubSeq(j, lo, hi)) = IF lo <= hi THEN hi - lo + 1 ELSE 0
      BY ONLY <3>1, <3>3, SubSeqProperties
    <3>5. Len(SubSeq(j, lo, hi)) = n
      BY ONLY <1>1, <3>1, <3>4
    <3>6. QED BY <3>4, <3>5 DEF lo, hi
  <2>2. \A i \in 1 .. n : second[i] = j[(n + 1) + i - 1]
    <3> DEFINE lo == n + 1
               hi == 2 * n
    <3>1. lo \in Int /\ hi \in Int /\ hi - lo + 1 = n
            /\ \A i \in lo .. hi : i \in 1 .. hi
      BY ONLY <1>1
    <3>2. \A i \in lo .. hi : j[i] \in {0, 1}
      <4>1. \A i \in 1 .. hi : j[i] \in {0, 1}
        BY ONLY <1>4, <3>1, ElementOfSeq
      <4>2. QED BY <3>1, <4>1, Zenon
    <3> HIDE DEF lo, hi
    <3>3. \A i \in 1 .. hi - lo + 1 : SubSeq(j, lo, hi)[i] = j[lo + i - 1]
      BY ONLY <3>1, <3>2, SubSeqProperties
    <3>4. QED BY <3>1, <3>3 DEF lo, hi
  <2>3. \A i \in 1 .. n : (n + 1) + i - 1 = n + i
    BY <1>1
  <2> HIDE DEF second
  <2>4. QED BY <2>1, <2>2, <2>3
<1> HIDE DEF first, second
<1>9. first = t
  <2>1. first \in Tuples(n)
    BY <1>1, <1>7, SequenceIsTuple
  <2>2. QED BY <1>1, <1>2, <1>4, <1>7, <2>1, TuplesEqual
<1>10. second = u
  <2>1. second \in Tuples(n)
    BY <1>1, <1>8, SequenceIsTuple
  <2>2. QED BY <1>1, <1>2, <1>4, <1>8, <2>1, TuplesEqual
<1>11. QED BY <1>4, <1>6, <1>9, <1>10 DEF j, n, t, u, first, second, Joined

LEMMA JoinedWithBit ==
    ASSUME NEW row \in BasisStates, NEW col \in BasisStates, NEW s \in Slots
    PROVE  /\ AxisOf(s) \in 1 .. 2 * QubitCount
           /\ QubitCount + AxisOf(s) \in 1 .. 2 * QubitCount
           /\ s \in row => Joined(row, col)[AxisOf(s)] = 1
           /\ s \notin row => Joined(row, col)[AxisOf(s)] = 0
           /\ s \in col => Joined(row, col)[QubitCount + AxisOf(s)] = 1
           /\ s \notin col => Joined(row, col)[QubitCount + AxisOf(s)] = 0
           /\ With(Joined(row, col), AxisOf(s), 0) = Joined(row \ {s}, col)
           /\ With(Joined(row, col), AxisOf(s), 1) = Joined(row \union {s}, col)
           /\ With(Joined(row, col), QubitCount + AxisOf(s), 0) = Joined(row, col \ {s})
           /\ With(Joined(row, col), QubitCount + AxisOf(s), 1) = Joined(row, col \union {s})
<1> DEFINE n == QubitCount
           a == AxisOf(s)
<1>1. n \in Nat /\ a \in 1 .. n /\ 2 * n \in Nat
  <2>1. n \in Nat
    BY SlotsFacts
  <2>2. a \in 1 .. n
    BY TupleWithBit
  <2> HIDE DEF n, a
  <2>3. QED BY <2>1, <2>2
<1>2. a \in 1 .. 2 * n /\ n + a \in 1 .. 2 * n
  BY <1>1
<1>3. ASSUME NEW r \in BasisStates
      PROVE  /\ r \ {s} \in BasisStates /\ r \union {s} \in BasisStates
             /\ PackedTuple(r) \in Tuples(n)
             /\ PackedTuple(r)[a] = IF s \in r THEN 1 ELSE 0
             /\ With(PackedTuple(r), a, 0) = PackedTuple(r \ {s})
             /\ With(PackedTuple(r), a, 1) = PackedTuple(r \union {s})
  BY BasisFacts, TupleFacts, TupleWithBit DEF With
<1>4. ASSUME NEW r \in BasisStates, NEW c \in BasisStates
      PROVE  /\ Joined(r, c) \in Tuples(2 * n)
             /\ \A i \in 1 .. n : Joined(r, c)[i] = PackedTuple(r)[i]
             /\ \A i \in 1 .. n : Joined(r, c)[n + i] = PackedTuple(c)[i]
  BY JoinedFacts
<1> HIDE DEF n, a
<1>5. ASSUME NEW e \in {0, 1}, NEW r \in BasisStates, With(PackedTuple(row), a, e) = PackedTuple(r)
      PROVE  With(Joined(row, col), a, e) = Joined(r, col)
  <2> DEFINE x == With(Joined(row, col), a, e)
             y == Joined(r, col)
  <2>1. /\ x \in Tuples(2 * n) /\ x[a] = e
        /\ \A i \in 1 .. 2 * n : i # a => x[i] = Joined(row, col)[i]
    <3>1. Joined(row, col) \in Tuples(2 * n)
      BY <1>4
    <3>2. QED BY <1>1, <1>2, <3>1, SettingAxis
  <2>2. PackedTuple(r)[a] = e /\ \A i \in 1 .. n : i # a => PackedTuple(r)[i] = PackedTuple(row)[i]
    <3>1. PackedTuple(row) \in Tuples(n)
      BY <1>3
    <3>2. /\ With(PackedTuple(row), a, e)[a] = e
          /\ \A i \in 1 .. n : i # a => With(PackedTuple(row), a, e)[i] = PackedTuple(row)[i]
      BY <1>1, <3>1, SettingAxis
    <3>3. QED BY <1>5, <3>2, Zenon
  <2> HIDE DEF x
  <2>3. ASSUME NEW i \in 1 .. 2 * n PROVE x[i] = y[i]
    <3>1. CASE i <= n
      <4>1. i \in 1 .. n
        BY <1>1, <3>1
      <4>2. y[i] = PackedTuple(r)[i] /\ Joined(row, col)[i] = PackedTuple(row)[i]
        BY <1>4, <4>1
      <4>3. QED BY <2>1, <2>2, <4>1, <4>2
    <3>2. CASE i > n
      <4>1. i - n \in 1 .. n /\ n + (i - n) = i /\ i # a
        BY <1>1, <3>2
      <4>2. y[n + (i - n)] = PackedTuple(col)[i - n] /\ Joined(row, col)[n + (i - n)] = PackedTuple(col)[i - n]
        BY <1>4, <4>1
      <4>3. QED BY <2>1, <4>1, <4>2
    <3>3. QED BY <1>1, <3>1, <3>2
  <2>4. y \in Tuples(2 * n)
    BY <1>4
  <2> HIDE DEF y
  <2>5. x = y
    BY <1>1, <2>1, <2>3, <2>4, TuplesEqual
  <2>6. QED BY <2>5 DEF x, y
<1>6. ASSUME NEW e \in {0, 1}, NEW c \in BasisStates, With(PackedTuple(col), a, e) = PackedTuple(c)
      PROVE  With(Joined(row, col), n + a, e) = Joined(row, c)
  <2> DEFINE x == With(Joined(row, col), n + a, e)
             y == Joined(row, c)
  <2>1. /\ x \in Tuples(2 * n) /\ x[n + a] = e
        /\ \A i \in 1 .. 2 * n : i # n + a => x[i] = Joined(row, col)[i]
    <3>1. Joined(row, col) \in Tuples(2 * n)
      BY <1>4
    <3>2. QED BY <1>1, <1>2, <3>1, SettingAxis
  <2>2. PackedTuple(c)[a] = e /\ \A i \in 1 .. n : i # a => PackedTuple(c)[i] = PackedTuple(col)[i]
    <3>1. PackedTuple(col) \in Tuples(n)
      BY <1>3
    <3>2. /\ With(PackedTuple(col), a, e)[a] = e
          /\ \A i \in 1 .. n : i # a => With(PackedTuple(col), a, e)[i] = PackedTuple(col)[i]
      BY <1>1, <3>1, SettingAxis
    <3>3. QED BY <1>6, <3>2, Zenon
  <2> HIDE DEF x
  <2>3. ASSUME NEW i \in 1 .. 2 * n PROVE x[i] = y[i]
    <3>1. CASE i <= n
      <4>1. i \in 1 .. n
        BY <1>1, <3>1
      <4>2. y[i] = PackedTuple(row)[i] /\ Joined(row, col)[i] = PackedTuple(row)[i] /\ i # n + a
        BY <1>1, <1>4, <3>1, <4>1
      <4>3. QED BY <2>1, <4>2
    <3>2. CASE i > n
      <4>1. i - n \in 1 .. n /\ n + (i - n) = i /\ (i = n + a <=> i - n = a)
        BY <1>1, <3>2
      <4>2. y[n + (i - n)] = PackedTuple(c)[i - n] /\ Joined(row, col)[n + (i - n)] = PackedTuple(col)[i - n]
        BY <1>4, <4>1
      <4>3. QED BY <2>1, <2>2, <4>1, <4>2
    <3>3. QED BY <1>1, <3>1, <3>2
  <2>4. y \in Tuples(2 * n)
    BY <1>4
  <2> HIDE DEF y
  <2>5. x = y
    BY <1>1, <2>1, <2>3, <2>4, TuplesEqual
  <2>6. QED BY <2>5 DEF x, y
<1>7. /\ Joined(row, col)[a] = PackedTuple(row)[a]
      /\ Joined(row, col)[n + a] = PackedTuple(col)[a]
  BY <1>1, <1>4
<1>8. QED BY <1>2, <1>3, <1>5, <1>6, <1>7 DEF n, a

LEMMA CxMatrixIs ==
    ASSUME NEW array \in PackedMatrices, NEW control \in Slots, NEW target \in Slots,
           control # target
    PROVE  /\ CxDensity(array, control, target) \in PackedMatrices
           /\ ReadMatrix(CxDensity(array, control, target))
                 = DensityCx(ReadMatrix(array), control, target)
<1> DEFINE D == ReadMatrix(array)
           after == DensityCx(D, control, target)
           E == CxDensity(array, control, target)
           permutation == CxPermutation(control, target)
<1>1. D \in Densities /\ \A row, col \in BasisStates : D[row][col] = array[IndexOf(row)][IndexOf(col)]
  BY ReadMatrixFacts
<1>2. after \in Densities
  <2> HIDE DEF D
  <2>1. QED BY <1>1, ExchangeFacts
<1>3. ASSUME NEW b \in BasisStates
      PROVE  /\ Permuted(b, control, target) \in BasisStates
             /\ permutation[IndexOf(b)] = IndexOf(Permuted(b, control, target))
  <2>1. IndexOf(b) \in Indexes
    BY IndexFacts
  <2>2. /\ HasBit(IndexOf(b), control) <=> control \in b
        /\ HasBit(IndexOf(b), target) <=> target \in b
    BY IndexFacts
  <2>3. permutation[IndexOf(b)] = IF control \notin b THEN IndexOf(b)
                                  ELSE IF target \in b THEN IndexOf(b) - PowerOfTwo[target]
                                  ELSE IndexOf(b) + PowerOfTwo[target]
    BY <2>1, <2>2 DEF CxPermutation
  <2>4. QED BY <2>3, IndexWithBit, PermutedFacts DEF Permuted
<1>4. ASSUME NEW row \in BasisStates, NEW col \in BasisStates
      PROVE  E[IndexOf(row)][IndexOf(col)] = after[row][col]
  <2>1. E[IndexOf(row)][IndexOf(col)] = array[permutation[IndexOf(row)]][permutation[IndexOf(col)]]
    BY IndexFacts DEF CxDensity
  <2>2. after[row][col] = D[Permuted(row, control, target)][Permuted(col, control, target)]
    BY DEF DensityCx
  <2> HIDE DEF E, after, D, permutation
  <2>3. QED BY <1>1, <1>3, <2>1, <2>2
<1>5. IsTable(E)
  BY DEF CxDensity, IsTable
<1> HIDE DEF E, after
<1>6. E \in PackedMatrices /\ ReadMatrix(E) = after
  BY <1>2, <1>4, <1>5, WrittenMatrixFacts
<1>7. QED BY <1>6 DEF E, after

LEMMA ResetMatrixIs ==
    ASSUME NEW array \in PackedMatrices, NEW target \in Slots
    PROVE  /\ ResetDensity(array, target) \in PackedMatrices
           /\ ReadMatrix(ResetDensity(array, target)) = DensityReset(ReadMatrix(array), target)
<1> DEFINE D == ReadMatrix(array)
           after == DensityReset(D, target)
           E == ResetDensity(array, target)
<1>1. D \in Densities /\ \A row, col \in BasisStates : D[row][col] = array[IndexOf(row)][IndexOf(col)]
  BY ReadMatrixFacts
<1>2. after \in Densities
  <2> HIDE DEF D
  <2>1. QED BY <1>1, DensityResetFacts
<1>3. ASSUME NEW b \in BasisStates
      PROVE  /\ IndexOf(b) \in Indexes /\ (HasBit(IndexOf(b), target) <=> target \in b)
             /\ b \union {target} \in BasisStates
             /\ target \notin b => IndexOf(b) + PowerOfTwo[target] = IndexOf(b \union {target})
  BY IndexFacts, IndexWithBit
<1>4. ASSUME NEW row \in BasisStates, NEW col \in BasisStates
      PROVE  E[IndexOf(row)][IndexOf(col)] = after[row][col]
  <2> DEFINE i == IndexOf(row)
             j == IndexOf(col)
  <2>1. i \in Indexes /\ j \in Indexes
    BY <1>3
  <2>2. E[i][j] = IF HasBit(i, target) \/ HasBit(j, target) THEN 0
                  ELSE array[i][j] + array[i + PowerOfTwo[target]][j + PowerOfTwo[target]]
    <3> HIDE DEF i, j
    <3>1. QED BY <2>1 DEF ResetDensity
  <2>3. after[row][col] = IF target \in row \/ target \in col THEN 0
                          ELSE D[row][col] + D[row \union {target}][col \union {target}]
    BY DEF DensityReset
  <2> HIDE DEF E, after, D
  <2>4. CASE target \in row \/ target \in col
    BY <1>3, <2>2, <2>3, <2>4
  <2>5. CASE target \notin row /\ target \notin col
    BY <1>1, <1>3, <2>2, <2>3, <2>5
  <2>6. QED BY <2>4, <2>5
<1>5. IsTable(E)
  BY DEF ResetDensity, IsTable
<1> HIDE DEF E, after
<1>6. E \in PackedMatrices /\ ReadMatrix(E) = after
  BY <1>2, <1>4, <1>5, WrittenMatrixFacts
<1>7. QED BY <1>6 DEF E, after

LEMMA AdjointIs ==
    ASSUME NEW m
    PROVE  \A i, j \in {1, 2} : Adjoint(m)[i][j] = m[j][i]
BY DEF Adjoint

\* The operator on the row's axis, its adjoint on the column's.
LEMMA LocalMatrixIs ==
    ASSUME NEW array \in PackedMatrices, NEW target \in Slots, NEW m, IsMatrix(m)
    PROVE  /\ LocalDensity(array, target, m) \in PackedMatrices
           /\ ReadMatrix(LocalDensity(array, target, m))
                 = ApplyOperator(ReadMatrix(array), target, m)
<1> DEFINE D == ReadMatrix(array)
           after == ApplyOperator(D, target, m)
           rows == RowOperator(D, target, m)
           N == 2 * QubitCount
           a == AxisOf(target)
           k == QubitCount + AxisOf(target)
           tensor == DensityTensor(array)
           left == OnAxis(m, tensor, a)
           right == OnAxisOfColumns(Adjoint(m), left, k)
           table == [i \in Indexes |-> [j \in Indexes |->
                        right[Digits(i, QubitCount) \o Digits(j, QubitCount)]]]
           E == LocalDensity(array, target, m)
<1>1. D \in Densities /\ \A row, col \in BasisStates : D[row][col] = array[IndexOf(row)][IndexOf(col)]
  BY ReadMatrixFacts
<1>2. /\ after \in Densities /\ rows \in Densities
      /\ after = [row \in BasisStates |-> ApplySingle(rows[row], target, m)]
  <2> HIDE DEF D
  <2>1. QED BY <1>1, OperatorFacts
<1>3. a \in 1 .. N /\ k \in 1 .. N /\ N \in Nat \ {0} /\ N \in 1 .. N
  <2>1. {} \in BasisStates
    BY DEF BasisStates
  <2>2. a \in 1 .. N /\ k \in 1 .. N /\ QubitCount \in Nat
    BY <2>1, JoinedWithBit, SlotsFacts
  <2> HIDE DEF a, k
  <2>3. QED BY <2>2
<1>4. DOMAIN tensor = Tuples(N) /\ DOMAIN left = Tuples(N) /\ DOMAIN right = Tuples(N)
  BY DEF DensityTensor, Tuples, OnAxis, OnAxisOfColumns
<1>5. E = Contiguous(table)
  <2>1. E = FlatDensity(MoveAxis(ContractLast(Adjoint(m), MoveAxis(
                MoveAxis(ContractFirst(m, MoveAxis(tensor, a, 1)), 1, a), k, N)), N, k))
    BY DEF LocalDensity
  <2> HIDE DEF E, tensor, a, k, N, left, right
  <2>2. MoveAxis(ContractFirst(m, MoveAxis(tensor, a, 1)), 1, a) = left
    BY <1>3, <1>4, ContractedInFront DEF left
  <2>3. MoveAxis(ContractLast(Adjoint(m), MoveAxis(left, k, N)), N, k) = right
    BY <1>3, <1>4, ContractedAtEnd DEF right
  <2>4. E = FlatDensity(right)
    BY <2>1, <2>2, <2>3
  <2>5. QED BY <2>4 DEF FlatDensity
<1>6. ASSUME NEW row \in BasisStates, NEW col \in BasisStates
      PROVE  tensor[Joined(row, col)] = D[row][col]
  <2> DEFINE t == Joined(row, col)
  <2>1. /\ t \in Tuples(N) /\ SubSeq(t, 1, QubitCount) = PackedTuple(row)
        /\ SubSeq(t, QubitCount + 1, N) = PackedTuple(col)
    BY JoinedFacts
  <2>2. tensor[t] = array[Position(SubSeq(t, 1, QubitCount))][Position(SubSeq(t, QubitCount + 1, N))]
    <3> HIDE DEF t
    <3>1. QED BY <2>1 DEF DensityTensor, Tuples
  <2>3. Position(PackedTuple(row)) = IndexOf(row) /\ Position(PackedTuple(col)) = IndexOf(col)
    BY TupleFacts
  <2> HIDE DEF t, tensor, N, D
  <2>4. tensor[t] = array[IndexOf(row)][IndexOf(col)]
    BY <2>1, <2>2, <2>3
  <2>5. QED BY <1>1, <2>4 DEF t
<1>7. ASSUME NEW row \in BasisStates, NEW col \in BasisStates
      PROVE  left[Joined(row, col)] = rows[row][col]
  <2> DEFINE t == Joined(row, col)
  <2>1. /\ t \in Tuples(N)
        /\ target \in row => t[a] = 1
        /\ target \notin row => t[a] = 0
        /\ With(t, a, 0) = Joined(row \ {target}, col)
        /\ With(t, a, 1) = Joined(row \union {target}, col)
    <3>1. t \in Tuples(N)
      BY JoinedFacts
    <3>2. /\ target \in row => t[a] = 1
          /\ target \notin row => t[a] = 0
          /\ With(t, a, 0) = Joined(row \ {target}, col)
          /\ With(t, a, 1) = Joined(row \union {target}, col)
      <4> HIDE DEF tensor, N, D, left, right, rows
      <4>1. QED BY JoinedWithBit, ZenonT(60)
    <3> HIDE DEF t, tensor, N, D, a, k
    <3>3. QED BY <3>1, <3>2
  <2> HIDE DEF t, tensor, N, D, a, k
  <2>2. left[t] = m[t[a] + 1][1] * tensor[With(t, a, 0)] + m[t[a] + 1][2] * tensor[With(t, a, 1)]
    BY <1>4, <2>1 DEF OnAxis
  <2>3. m[t[a] + 1] = Line(m, target, row)
    BY <2>1 DEF Line
  <2>4. /\ tensor[With(t, a, 0)] = D[row \ {target}][col]
        /\ tensor[With(t, a, 1)] = D[row \union {target}][col]
    <3>1. row \ {target} \in BasisStates /\ row \union {target} \in BasisStates
      BY BasisFacts
    <3>2. /\ tensor[Joined(row \ {target}, col)] = D[row \ {target}][col]
          /\ tensor[Joined(row \union {target}, col)] = D[row \union {target}][col]
      BY <1>6, <3>1
    <3>3. QED BY <2>1, <3>2
  <2>5. rows[row][col] = Line(m, target, row)[1] * D[row \ {target}][col]
                           + Line(m, target, row)[2] * D[row \union {target}][col]
    BY DEF RowOperator
  <2> HIDE DEF left, rows
  <2>6. left[t] = rows[row][col]
    BY <2>2, <2>3, <2>4, <2>5
  <2>7. QED BY <2>6 DEF t
<1>8. ASSUME NEW row \in BasisStates, NEW col \in BasisStates
      PROVE  right[Joined(row, col)] = after[row][col]
  <2> DEFINE t == Joined(row, col)
  <2>1. /\ t \in Tuples(N)
        /\ target \in col => t[k] = 1
        /\ target \notin col => t[k] = 0
        /\ With(t, k, 0) = Joined(row, col \ {target})
        /\ With(t, k, 1) = Joined(row, col \union {target})
    <3>1. t \in Tuples(N)
      BY JoinedFacts
    <3>2. (target \in col => t[k] = 1) /\ (target \notin col => t[k] = 0)
      BY JoinedWithBit
    <3>3. With(t, k, 0) = Joined(row, col \ {target})
      BY JoinedWithBit
    <3>4. With(t, k, 1) = Joined(row, col \union {target})
      BY JoinedWithBit
    <3>5. QED BY <3>1, <3>2, <3>3, <3>4
  <2> HIDE DEF t, tensor, N, D, a, k, left, rows, after
  <2>2. right[t] = Adjoint(m)[1][t[k] + 1] * left[With(t, k, 0)]
                     + Adjoint(m)[2][t[k] + 1] * left[With(t, k, 1)]
    BY <1>4, <2>1 DEF OnAxisOfColumns
  <2>3. t[k] + 1 \in {1, 2} /\ m[t[k] + 1] = Line(m, target, col)
    BY <2>1 DEF Line
  <2>4. /\ Adjoint(m)[1][t[k] + 1] = Line(m, target, col)[1]
        /\ Adjoint(m)[2][t[k] + 1] = Line(m, target, col)[2]
    BY <2>3, AdjointIs
  <2>5. /\ left[With(t, k, 0)] = rows[row][col \ {target}]
        /\ left[With(t, k, 1)] = rows[row][col \union {target}]
    BY <1>7, <2>1, BasisFacts
  <2>6. after[row][col] = Line(m, target, col)[1] * rows[row][col \ {target}]
                            + Line(m, target, col)[2] * rows[row][col \union {target}]
    <3>1. rows[row] \in States
      BY <1>2, DensityFacts
    <3>2. after[row] = ApplySingle(rows[row], target, m)
      BY <1>2
    <3>3. ApplySingle(rows[row], target, m)[col]
            = Line(m, target, col)[1] * rows[row][col \ {target}]
                + Line(m, target, col)[2] * rows[row][col \union {target}]
      <4> DEFINE v == rows[row]
      <4> HIDE DEF v
      <4>1. v \in States
        BY <3>1 DEF v
      <4>2. ApplySingle(v, target, m)[col] = Line(m, target, col)[1] * v[col \ {target}]
                                               + Line(m, target, col)[2] * v[col \union {target}]
        BY <4>1, SingleFacts
      <4>3. QED BY <4>2 DEF v
    <3>4. QED BY <3>2, <3>3
  <2> HIDE DEF right
  <2>7. right[t] = after[row][col]
    BY <2>2, <2>4, <2>5, <2>6
  <2>8. QED BY <2>7 DEF t
<1>9. ASSUME NEW row \in BasisStates, NEW col \in BasisStates
      PROVE  table[IndexOf(row)][IndexOf(col)] = after[row][col]
  <2>1. /\ IndexOf(row) \in Indexes /\ IndexOf(col) \in Indexes
        /\ Digits(IndexOf(row), QubitCount) = PackedTuple(row)
        /\ Digits(IndexOf(col), QubitCount) = PackedTuple(col)
    BY IndexFacts, TupleFacts
  <2> HIDE DEF right, after
  <2>2. table[IndexOf(row)][IndexOf(col)] = right[PackedTuple(row) \o PackedTuple(col)]
    BY <2>1
  <2> HIDE DEF table
  <2>3. QED BY <1>8, <2>2 DEF Joined
<1>10. IsTable(table)
  <2> HIDE DEF right
  <2>1. QED BY DEF IsTable
<1> HIDE DEF E, after, table
<1>11. table \in PackedMatrices /\ ReadMatrix(table) = after
  BY <1>2, <1>9, <1>10, WrittenMatrixFacts
<1>12. E = table
  BY <1>5, <1>11, ContiguousIs
<1>13. QED BY <1>11, <1>12 DEF E, after

\* The kernel of a gate is the reference engine's operation.
LEMMA DensityKernelIs ==
    ASSUME NEW array \in PackedMatrices, NEW operation \in AllocatedOperations,
           operation.opcode \in Gates
    PROVE  /\ DensityKernel(array, operation) \in PackedMatrices
           /\ ReadMatrix(DensityKernel(array, operation)) = IdealDensity(ReadMatrix(array), operation)
<1> DEFINE target == operation.targets[1]
<1>1. target \in Slots
  BY FirstTarget
<1>2. operation.opcode \in {"X", "H", "Z", "RY", "CX"}
  BY DEF Gates, Matrix
<1>3. CASE operation.opcode = "CX"
  <2>1. operation.control \in Slots /\ operation.control # target
    BY <1>3 DEF AllocatedOperations
  <2>2. DensityKernel(array, operation) = CxDensity(array, operation.control, target)
    BY <1>3 DEF DensityKernel, Structure
  <2>3. IdealDensity(ReadMatrix(array), operation)
          = DensityCx(ReadMatrix(array), operation.control, target)
    BY <1>3 DEF IdealDensity
  <2> HIDE DEF target
  <2>4. QED BY <1>1, <2>1, <2>2, <2>3, CxMatrixIs
<1>4. CASE operation.opcode # "CX"
  <2> DEFINE m == Matrix[operation.opcode]
  <2>1. Structure(operation.opcode) # "controlled permutation"
    BY <1>2, <1>4 DEF Structure
  <2>2. DensityKernel(array, operation) = LocalDensity(array, target, m)
    BY <2>1 DEF DensityKernel
  <2>3. IdealDensity(ReadMatrix(array), operation) = ApplyOperator(ReadMatrix(array), target, m)
    BY <1>4 DEF IdealDensity
  <2>4. operation.opcode \in DOMAIN Matrix
    BY <1>4 DEF Gates
  <2>5. IsMatrix(m)
    BY <2>4, MatrixOfGate
  <2> HIDE DEF target, m
  <2>6. QED BY <1>1, <2>2, <2>3, <2>5, LocalMatrixIs
<1>5. QED BY <1>3, <1>4

-----------------------------------------------------------------------------
(* Channels on density matrices.                                             *)

LEMMA PlusWeightedIs ==
    ASSUME NEW array \in PackedMatrices, NEW weight \in Int, NEW term \in PackedMatrices
    PROVE  /\ PlusWeighted(array, weight, term) \in PackedMatrices
           /\ \A row, col \in BasisStates :
                 ReadMatrix(PlusWeighted(array, weight, term))[row][col]
                   = ReadMatrix(array)[row][col] + weight * ReadMatrix(term)[row][col]
<1> DEFINE table == [i \in Indexes |-> [j \in Indexes |-> array[i][j] + weight * term[i][j]]]
<1>1. \A i, j \in Indexes : array[i][j] + weight * term[i][j] \in Int
  <2>1. ASSUME NEW x \in Int, NEW y \in Int PROVE x + weight * y \in Int
    OBVIOUS
  <2>2. QED BY <2>1, ReadMatrixFacts
<1>2. table \in PackedMatrices
  BY <1>1 DEF PackedMatrices, PackedVectors
<1>3. PlusWeighted(array, weight, term) = table
  <2>1. PlusWeighted(array, weight, term) = Contiguous(table)
    BY DEF PlusWeighted
  <2> HIDE DEF table
  <2>2. QED BY <1>2, <2>1, ContiguousIs
<1>4. ASSUME NEW row \in BasisStates, NEW col \in BasisStates
      PROVE  ReadMatrix(table)[row][col]
               = ReadMatrix(array)[row][col] + weight * ReadMatrix(term)[row][col]
  <2> DEFINE i == IndexOf(row)
             j == IndexOf(col)
  <2>1. i \in Indexes /\ j \in Indexes
    BY IndexFacts
  <2>2. ReadMatrix(table)[row][col] = table[i][j]
    <3> HIDE DEF table
    <3>1. QED BY DEF ReadMatrix
  <2>3. ReadMatrix(array)[row][col] = array[i][j] /\ ReadMatrix(term)[row][col] = term[i][j]
    BY DEF ReadMatrix
  <2> HIDE DEF i, j
  <2>4. table[i][j] = array[i][j] + weight * term[i][j]
    BY <2>1
  <2> HIDE DEF table
  <2>5. QED BY <2>2, <2>3, <2>4
<1> HIDE DEF table
<1>5. QED BY <1>2, <1>3, <1>4

LEMMA NoDensityIs ==
    /\ NoDensity \in PackedMatrices
    /\ \A row, col \in BasisStates : ReadMatrix(NoDensity)[row][col] = 0
<1>1. NoDensity \in PackedMatrices
  BY DEF NoDensity, PackedMatrices, PackedVectors
<1>2. ASSUME NEW row \in BasisStates, NEW col \in BasisStates
      PROVE  ReadMatrix(NoDensity)[row][col] = 0
  <2>1. IndexOf(row) \in Indexes /\ IndexOf(col) \in Indexes
    BY IndexFacts
  <2>2. ReadMatrix(NoDensity)[row][col] = NoDensity[IndexOf(row)][IndexOf(col)]
    BY DEF ReadMatrix
  <2>3. QED BY <2>1, <2>2 DEF NoDensity
<1>3. QED BY <1>1, <1>2

\* Kraus operators, one after the other.
AreOperators(channel, n) ==
    /\ DOMAIN channel = 1 .. n
    /\ \A k \in 1 .. n : channel[k].weight \in Int /\ IsMatrix(channel[k].matrix)

WithTerm(array, target, channel, v, k) ==
    PlusWeighted(v, channel[k].weight, LocalDensity(array, target, channel[k].matrix))

\* The sums that the operators go through.
SummingPath(array, target, channel, n, w) ==
    /\ w \in [0 .. n -> PackedMatrices] /\ w[0] = NoDensity
    /\ \A k \in 1 .. n : w[k] = WithTerm(array, target, channel, w[k - 1], k)

LEMMA SummingPathExists ==
    ASSUME NEW array \in PackedMatrices, NEW target \in Slots, NEW n \in Nat, NEW channel,
           AreOperators(channel, n)
    PROVE  \E w : SummingPath(array, target, channel, n, w)
<1> DEFINE step == [k \in 1 .. n |-> [v \in PackedMatrices |-> WithTerm(array, target, channel, v, k)]]
<1>1. \A k \in 1 .. n : \A v \in PackedMatrices : WithTerm(array, target, channel, v, k) \in PackedMatrices
  BY LocalMatrixIs, PlusWeightedIs DEF AreOperators, WithTerm
<1>2. /\ step \in [1 .. n -> [PackedMatrices -> PackedMatrices]]
      /\ \A k \in 1 .. n : \A v \in PackedMatrices : step[k][v] = WithTerm(array, target, channel, v, k)
  BY <1>1
<1> HIDE DEF step
<1>3. PICK w \in [0 .. n -> PackedMatrices] : Advances(w, n, NoDensity, step)
  BY <1>2, NoDensityIs, PrefixValues
<1>4. ASSUME NEW k \in 1 .. n PROVE w[k] = WithTerm(array, target, channel, w[k - 1], k)
  <2>1. w[k] = step[k][w[k - 1]] /\ w[k - 1] \in PackedMatrices
    BY <1>3 DEF Advances
  <2>2. QED BY <1>2, <2>1
<1>5. QED BY <1>3, <1>4 DEF Advances, SummingPath

LEMMA ChannelDensityIs ==
    ASSUME NEW array \in PackedMatrices, NEW target \in Slots, NEW n \in Nat, NEW channel,
           AreOperators(channel, n), NEW w, SummingPath(array, target, channel, n, w)
    PROVE  ChannelDensity(array, target, channel) = w[n]
<1> DEFINE choice == [s \in SUBSET (1 .. n) |-> Max(s)]
           step == [k \in 1 .. n |-> [v \in PackedMatrices |-> WithTerm(array, target, channel, v, k)]]
           Next(g) == [s \in SUBSET (1 .. n) |->
                          IF s = {} THEN NoDensity
                          ELSE WithTerm(array, target, channel, g[s \ {Max(s)}], Max(s))]
           h == CHOOSE g : g = Next(g)
<1>1. DOMAIN channel = 1 .. n
  BY DEF AreOperators
<1>2. ChannelDensity(array, target, channel) = h[1 .. n]
  BY <1>1 DEF ChannelDensity, FoldLeft, MapThenFoldSet, WithTerm
<1>3. \E g : g = Next(g)
  <2>1. \A k \in 1 .. n : \A v \in PackedMatrices :
            WithTerm(array, target, channel, v, k) \in PackedMatrices
    BY LocalMatrixIs, PlusWeightedIs DEF AreOperators, WithTerm
  <2>2. step \in [1 .. n -> [PackedMatrices -> PackedMatrices]]
    BY <2>1
  <2>3. Chooses(choice, 1 .. n)
    BY PrefixFacts
  <2>8. IsFiniteSet(1 .. n)
    BY FS_Interval
  <2>4. PICK g \in [SUBSET (1 .. n) -> PackedMatrices] : FoldsTo(g, 1 .. n, choice, NoDensity, step)
    <3> HIDE DEF step, choice
    <3>1. QED BY <2>2, <2>3, <2>8, NoDensityIs, FoldHasSolution
  <2>5. ASSUME NEW s \in SUBSET (1 .. n) PROVE g[s] = Next(g)[s]
    <3>1. s # {} => Max(s) \in 1 .. n
      BY <2>3 DEF Chooses
    <3>2. s # {} => g[s] = step[Max(s)][g[s \ {Max(s)}]]
      BY <2>4 DEF FoldsTo
    <3>3. g[s \ {Max(s)}] \in PackedMatrices
      BY <2>4
    <3>4. s # {} => g[s] = WithTerm(array, target, channel, g[s \ {Max(s)}], Max(s))
      BY <3>1, <3>2, <3>3
    <3>5. s = {} => g[s] = NoDensity
      BY <2>4 DEF FoldsTo
    <3>6. QED BY <3>4, <3>5
  <2>6. g = Next(g)
    BY <2>5
  <2>7. QED BY <2>6
<1>4. h = Next(h)
  BY <1>3
<1> HIDE DEF h
<1>5. h[1 .. 0] = w[0]
  <2>1. 1 .. 0 = {} /\ {} \in SUBSET (1 .. n)
    OBVIOUS
  <2>2. h[{}] = NoDensity
    BY <1>4
  <2>3. QED BY <2>1, <2>2 DEF SummingPath
<1>6. ASSUME NEW i \in 1 .. n, h[1 .. i - 1] = w[i - 1] PROVE h[1 .. i] = w[i]
  <2>1. /\ Max(1 .. i) = i /\ (1 .. i) \ {i} = 1 .. i - 1 /\ 1 .. i # {}
        /\ 1 .. i \in SUBSET (1 .. n)
    BY PrefixFacts
  <2>2. h[1 .. i] = WithTerm(array, target, channel, h[1 .. i - 1], i)
    BY <1>4, <2>1
  <2>3. QED BY <1>6, <2>2 DEF SummingPath
<1>7. SameSteps(h, w, n)
  BY <1>5, <1>6 DEF SameSteps
<1>8. \A i \in 0 .. n : h[1 .. i] = w[i]
  BY <1>7, PrefixesAgree
<1>9. n \in 0 .. n
  OBVIOUS
<1>10. QED BY <1>2, <1>8, <1>9

LEMMA ChannelDensityType ==
    ASSUME NEW array \in PackedMatrices, NEW target \in Slots, NEW n \in Nat, NEW channel,
           AreOperators(channel, n)
    PROVE  ChannelDensity(array, target, channel) \in PackedMatrices
<1>1. PICK w : SummingPath(array, target, channel, n, w)
  BY SummingPathExists
<1>2. w[n] \in PackedMatrices
  BY <1>1 DEF SummingPath
<1>3. QED BY <1>1, <1>2, ChannelDensityIs

\* The sum over a channel's operators is the reference engine's.
LEMMA ChannelMatrixIs ==
    ASSUME NEW array \in PackedMatrices, NEW target \in Slots, NEW n \in Nat, NEW channel,
           DOMAIN channel = 1 .. n, IsChannel(channel)
    PROVE  /\ ChannelDensity(array, target, channel) \in PackedMatrices
           /\ ReadMatrix(ChannelDensity(array, target, channel))
                 = ApplyChannel(ReadMatrix(array), target, channel)
<1> DEFINE D == ReadMatrix(array)
           E == ChannelDensity(array, target, channel)
           after == ApplyChannel(D, target, channel)
           f(row, col) == Term(D, target, channel, row, col)
<1>1. AreOperators(channel, n)
  BY DEF AreOperators, IsChannel
<1>2. PICK w : SummingPath(array, target, channel, n, w)
  BY <1>1, SummingPathExists
<1>3. E = w[n] /\ E \in PackedMatrices
  BY <1>1, <1>2, ChannelDensityIs, ChannelDensityType
<1>4. D \in Densities
  BY ReadMatrixFacts
<1>5. /\ \A row, col \in BasisStates : after[row][col] = Sum(f(row, col), 1 .. n)
      /\ after \in Densities
  <2> HIDE DEF D
  <2>1. QED BY <1>4, ChannelFacts
<1>6. ASSUME NEW row \in BasisStates, NEW col \in BasisStates
      PROVE  ReadMatrix(w[n])[row][col] = Sum(f(row, col), 1 .. n)
  <2> DEFINE t == f(row, col)
             Summed == {k \in Nat : k <= n => ReadMatrix(w[k])[row][col] = Sum(t, 1 .. k)}
  <2>1. \A k \in 1 .. n : t[k] \in Int
    <3> HIDE DEF D
    <3>1. QED BY <1>4, TermIsInt
  <2>2. 0 \in Summed
    <3>1. 1 .. 0 = {} /\ w[0] = NoDensity
      BY <1>2 DEF SummingPath
    <3> HIDE DEF t
    <3>2. Sum(t, 1 .. 0) = 0
      BY <3>1, SumEmpty
    <3>3. ReadMatrix(w[0])[row][col] = 0
      BY <3>1, NoDensityIs
    <3>4. QED BY <3>2, <3>3
  <2>3. ASSUME NEW k \in Nat, k \in Summed, k + 1 <= n
        PROVE  ReadMatrix(w[k + 1])[row][col] = Sum(t, 1 .. k + 1)
    <3> DEFINE i == k + 1
               m == channel[i].matrix
               weight == channel[i].weight
               term == LocalDensity(array, target, m)
    <3>1. i \in 1 .. n /\ i - 1 = k /\ k \in 0 .. n /\ k <= n
      BY <2>3
    <3>2. weight \in Int /\ IsMatrix(m)
      BY <1>1, <3>1 DEF AreOperators
    <3>3. w[i] = PlusWeighted(w[k], weight, term) /\ w[k] \in PackedMatrices
      BY <1>2, <3>1 DEF SummingPath, WithTerm
    <3>4. t[i] = weight * ApplyOperator(D, target, m)[row][col]
      BY <3>1 DEF Term
    <3>5. term \in PackedMatrices /\ ReadMatrix(term) = ApplyOperator(D, target, m)
      <4> HIDE DEF m
      <4>1. QED BY <3>2, LocalMatrixIs
    <3> HIDE DEF term, m, weight, D, t, i
    <3>6. ReadMatrix(w[i])[row][col] = ReadMatrix(w[k])[row][col] + weight * ReadMatrix(term)[row][col]
      <4>1. \A r, c \in BasisStates :
              ReadMatrix(PlusWeighted(w[k], weight, term))[r][c]
                = ReadMatrix(w[k])[r][c] + weight * ReadMatrix(term)[r][c]
        BY ONLY <3>2, <3>3, <3>5, PlusWeightedIs
      <4>2. QED BY <3>3, <4>1
    <3>7. ReadMatrix(w[i])[row][col] = Sum(t, 1 .. k) + t[i]
      BY <2>3, <3>1, <3>4, <3>5, <3>6
    <3>8. Sum(t, 1 .. i) = t[i] + Sum(t, 1 .. k) /\ Sum(t, 1 .. k) \in Int /\ t[i] \in Int
      <4>1. IsFiniteSet(1 .. k) /\ i \notin 1 .. k /\ (1 .. k) \union {i} = 1 .. i
        <5>1. IsFiniteSet(1 .. k)
          BY FS_Interval
        <5>2. i \notin 1 .. k /\ (1 .. k) \union {i} = 1 .. i
          BY DEF i
        <5>3. QED BY <5>1, <5>2
      <4>2. \A x \in (1 .. k) \union {i} : t[x] \in Int
        BY <2>1, <3>1 DEF i
      <4>3. Sum(t, (1 .. k) \union {i}) = t[i] + Sum(t, 1 .. k) /\ Sum(t, 1 .. k) \in Int
        BY <4>1, <4>2, SumAdd
      <4>4. QED BY <4>1, <4>2, <4>3
    <3>9. ReadMatrix(w[i])[row][col] = Sum(t, 1 .. i)
      BY <3>7, <3>8
    <3>10. QED BY <3>9 DEF i
  <2>4. \A k \in Nat : k \in Summed => k + 1 \in Summed
    <3> SUFFICES ASSUME NEW k \in Nat, k \in Summed PROVE k + 1 \in Summed
      OBVIOUS
    <3>1. k + 1 <= n => ReadMatrix(w[k + 1])[row][col] = Sum(t, 1 .. k + 1)
      BY <2>3
    <3> HIDE DEF t
    <3>2. QED BY <3>1
  <2>5. Nat \subseteq Summed
    <3> HIDE DEF Summed
    <3>1. QED BY <2>2, <2>4, SetInduction
  <2> HIDE DEF t
  <2>6. QED BY <2>5 DEF t
<1>7. ReadMatrix(E) \in Densities
  BY <1>3, ReadMatrixFacts
<1> HIDE DEF E, after, D, f
<1>8. \A row, col \in BasisStates : ReadMatrix(E)[row][col] = after[row][col]
  BY <1>3, <1>5, <1>6
<1>9. ReadMatrix(E) = after
  BY <1>5, <1>7, <1>8 DEF Densities, States
<1>10. QED BY <1>3, <1>9 DEF E, after, D

-----------------------------------------------------------------------------
(* Operations on different slots commute.                                    *)

\* The row of a slot's matrix that a basis state belongs to.
Side(slot, b) == IF slot \in b THEN 2 ELSE 1

Tables == [{1, 2} -> [{1, 2} -> Int]]

\* The four entries that differ in one slot, each with its coefficient.
Blend(k, D, slot, row, col) ==
    (k[1][1] * D[row \ {slot}][col \ {slot}] + k[1][2] * D[row \ {slot}][col \union {slot}])
    + (k[2][1] * D[row \union {slot}][col \ {slot}]
       + k[2][2] * D[row \union {slot}][col \union {slot}])

SuperOperators == [Densities -> Densities]

\* What a slot's operation makes of an entry depends on that slot alone.
Blends(F, slot, K) ==
    \A D \in Densities : \A row, col \in BasisStates :
        F[D][row][col] = Blend(K[Side(slot, row)][Side(slot, col)], D, slot, row, col)

ActsOn(F, slot) ==
    /\ F \in SuperOperators
    /\ \E K \in [{1, 2} -> [{1, 2} -> Tables]] : Blends(F, slot, K)

Commute(F, G) == \A D \in Densities : F[G[D]] = G[F[D]]

LEMMA SidesApart ==
    ASSUME NEW t \in Slots, NEW u \in Slots, t # u, NEW b \in BasisStates
    PROVE  /\ b \ {t} \in BasisStates /\ b \union {t} \in BasisStates
           /\ b \ {u} \in BasisStates /\ b \union {u} \in BasisStates
           /\ (b \ {u}) \ {t} = (b \ {t}) \ {u} /\ (b \union {u}) \ {t} = (b \ {t}) \union {u}
           /\ (b \ {u}) \union {t} = (b \union {t}) \ {u}
           /\ (b \union {u}) \union {t} = (b \union {t}) \union {u}
           /\ (b \ {t}) \ {u} \in BasisStates /\ (b \ {t}) \union {u} \in BasisStates
           /\ (b \union {t}) \ {u} \in BasisStates /\ (b \union {t}) \union {u} \in BasisStates
           /\ Side(u, b \ {t}) = Side(u, b) /\ Side(u, b \union {t}) = Side(u, b)
           /\ Side(t, b \ {u}) = Side(t, b) /\ Side(t, b \union {u}) = Side(t, b)
           /\ Side(t, b) \in {1, 2} /\ Side(u, b) \in {1, 2}
<1>1. b \ {t} \in BasisStates /\ b \union {t} \in BasisStates
      /\ b \ {u} \in BasisStates /\ b \union {u} \in BasisStates
  BY BasisFacts
<1>2. /\ (b \ {t}) \ {u} \in BasisStates /\ (b \ {t}) \union {u} \in BasisStates
      /\ (b \union {t}) \ {u} \in BasisStates /\ (b \union {t}) \union {u} \in BasisStates
  BY <1>1, BasisFacts
<1>3. /\ (b \ {u}) \ {t} = (b \ {t}) \ {u} /\ (b \union {u}) \ {t} = (b \ {t}) \union {u}
      /\ (b \ {u}) \union {t} = (b \union {t}) \ {u}
      /\ (b \union {u}) \union {t} = (b \union {t}) \union {u}
  OBVIOUS
<1>4. /\ Side(u, b \ {t}) = Side(u, b) /\ Side(u, b \union {t}) = Side(u, b)
      /\ Side(t, b \ {u}) = Side(t, b) /\ Side(t, b \union {u}) = Side(t, b)
      /\ Side(t, b) \in {1, 2} /\ Side(u, b) \in {1, 2}
  BY DEF Side
<1>5. QED BY <1>1, <1>2, <1>3, <1>4

\* A blend may be taken apart, and blends of blends exchanged.
LEMMA FourDistribute ==
    ASSUME NEW k \in Int, NEW a \in Int, NEW b \in Int, NEW c \in Int, NEW d \in Int,
           NEW w \in Int, NEW x \in Int, NEW y \in Int, NEW z \in Int
    PROVE  k * ((a * w + b * x) + (c * y + d * z))
              = (a * (k * w) + b * (k * x)) + (c * (k * y) + d * (k * z))
OBVIOUS

LEMMA BlendsOfBlends ==
    ASSUME NEW k \in [1 .. 4 -> Int], NEW l \in [1 .. 4 -> Int],
           NEW d \in [1 .. 4 -> [1 .. 4 -> Int]]
    PROVE    (k[1] * ((l[1] * d[1][1] + l[2] * d[1][2]) + (l[3] * d[1][3] + l[4] * d[1][4]))
              + k[2] * ((l[1] * d[2][1] + l[2] * d[2][2]) + (l[3] * d[2][3] + l[4] * d[2][4])))
             + (k[3] * ((l[1] * d[3][1] + l[2] * d[3][2]) + (l[3] * d[3][3] + l[4] * d[3][4]))
              + k[4] * ((l[1] * d[4][1] + l[2] * d[4][2]) + (l[3] * d[4][3] + l[4] * d[4][4])))
           = (l[1] * ((k[1] * d[1][1] + k[2] * d[2][1]) + (k[3] * d[3][1] + k[4] * d[4][1]))
              + l[2] * ((k[1] * d[1][2] + k[2] * d[2][2]) + (k[3] * d[3][2] + k[4] * d[4][2])))
             + (l[3] * ((k[1] * d[1][3] + k[2] * d[2][3]) + (k[3] * d[3][3] + k[4] * d[4][3]))
              + l[4] * ((k[1] * d[1][4] + k[2] * d[2][4]) + (k[3] * d[3][4] + k[4] * d[4][4])))
<1>1. \A i, j \in 1 .. 4 : d[i][j] \in Int /\ k[i] \in Int /\ l[j] \in Int
  OBVIOUS
<1>2. QED BY <1>1

LEMMA SideIs ==
    ASSUME NEW slot, NEW b
    PROVE  Side(slot, b) \in {1, 2}
BY DEF Side

LEMMA BlendIsInt ==
    ASSUME NEW k \in Tables, NEW D \in Densities, NEW t \in Slots,
           NEW row \in BasisStates, NEW col \in BasisStates
    PROVE  /\ \A i, j \in {1, 2} : k[i][j] \in Int
           /\ D[row \ {t}][col \ {t}] \in Int /\ D[row \ {t}][col \union {t}] \in Int
           /\ D[row \union {t}][col \ {t}] \in Int /\ D[row \union {t}][col \union {t}] \in Int
           /\ Blend(k, D, t, row, col) \in Int
<1>1. \A i, j \in {1, 2} : k[i][j] \in Int
  BY DEF Tables
<1> DEFINE d1 == D[row \ {t}][col \ {t}]
           d2 == D[row \ {t}][col \union {t}]
           d3 == D[row \union {t}][col \ {t}]
           d4 == D[row \union {t}][col \union {t}]
<1>2. d1 \in Int /\ d2 \in Int /\ d3 \in Int /\ d4 \in Int
  BY BasisFacts, DensityFacts
<1>3. Blend(k, D, t, row, col) = (k[1][1] * d1 + k[1][2] * d2) + (k[2][1] * d3 + k[2][2] * d4)
  BY DEF Blend
<1>4. k[1][1] \in Int /\ k[1][2] \in Int /\ k[2][1] \in Int /\ k[2][2] \in Int
  BY <1>1
<1> HIDE DEF d1, d2, d3, d4
<1>5. Blend(k, D, t, row, col) \in Int
  BY <1>2, <1>3, <1>4, IntegerOperations
<1>6. QED BY <1>1, <1>2, <1>5 DEF d1, d2, d3, d4

IsNeighbour(r, slot, b) == r = b \ {slot} \/ r = b \union {slot}

LEMMA NeighbourIs ==
    ASSUME NEW t \in Slots, NEW u \in Slots, t # u, NEW b \in BasisStates,
           NEW r, IsNeighbour(r, t, b)
    PROVE  r \in BasisStates /\ Side(u, r) = Side(u, b)
<1>1. CASE r = b \ {t}
  BY <1>1, BasisFacts DEF Side
<1>2. CASE r = b \union {t}
  BY <1>2, BasisFacts DEF Side
<1>3. QED BY <1>1, <1>2 DEF IsNeighbour

\* The entries next to one in slot t, each a blend over slot u.
NextTo(E, D, k, u, t, row, col) ==
    \A r \in {row \ {t}, row \union {t}} : \A c \in {col \ {t}, col \union {t}} :
        E[r][c] = Blend(k, D, u, r, c)

\* Blending the blends of another slot.
LEMMA BlendsExchange ==
    ASSUME NEW D \in Densities, NEW G \in Densities, NEW H \in Densities,
           NEW t \in Slots, NEW u \in Slots, t # u,
           NEW row \in BasisStates, NEW col \in BasisStates, NEW k \in Tables, NEW l \in Tables,
           NextTo(G, D, l, u, t, row, col), NextTo(H, D, k, t, u, row, col)
    PROVE  Blend(k, G, t, row, col) = Blend(l, H, u, row, col)
<1> DEFINE r1 == row \ {t}
           r2 == row \union {t}
           c1 == col \ {t}
           c2 == col \union {t}
           R(i) == IF i \in {1, 2} THEN r1 ELSE r2
           C(i) == IF i \in {1, 3} THEN c1 ELSE c2
           d == [i \in 1 .. 4 |-> [j \in 1 .. 4 |->
                    D[IF j \in {1, 2} THEN R(i) \ {u} ELSE R(i) \union {u}]
                     [IF j \in {1, 3} THEN C(i) \ {u} ELSE C(i) \union {u}]]]
           p == [i \in 1 .. 4 |-> k[IF i \in {1, 2} THEN 1 ELSE 2][IF i \in {1, 3} THEN 1 ELSE 2]]
           q == [i \in 1 .. 4 |-> l[IF i \in {1, 2} THEN 1 ELSE 2][IF i \in {1, 3} THEN 1 ELSE 2]]
<1>1. p \in [1 .. 4 -> Int] /\ q \in [1 .. 4 -> Int]
  BY DEF Tables
<1>2. d \in [1 .. 4 -> [1 .. 4 -> Int]]
  <2>1. r1 \in BasisStates /\ r2 \in BasisStates /\ c1 \in BasisStates /\ c2 \in BasisStates
    BY SidesApart
  <2> HIDE DEF r1, r2, c1, c2
  <2>2. \A i \in 1 .. 4 : R(i) \in BasisStates /\ C(i) \in BasisStates
    BY <2>1
  <2> HIDE DEF R, C
  <2>3. \A i, j \in 1 .. 4 :
           /\ (IF j \in {1, 2} THEN R(i) \ {u} ELSE R(i) \union {u}) \in BasisStates
           /\ (IF j \in {1, 3} THEN C(i) \ {u} ELSE C(i) \union {u}) \in BasisStates
    BY <2>2, BasisFacts
  <2>4. \A i, j \in 1 .. 4 : d[i][j] \in Int
    BY <2>3, DensityFacts
  <2>5. QED BY <2>4
<1>3. /\ p[1] = k[1][1] /\ p[2] = k[1][2] /\ p[3] = k[2][1] /\ p[4] = k[2][2]
      /\ q[1] = l[1][1] /\ q[2] = l[1][2] /\ q[3] = l[2][1] /\ q[4] = l[2][2]
  OBVIOUS
<1>4. /\ d[1][1] = D[r1 \ {u}][c1 \ {u}] /\ d[1][2] = D[r1 \ {u}][c1 \union {u}]
      /\ d[1][3] = D[r1 \union {u}][c1 \ {u}] /\ d[1][4] = D[r1 \union {u}][c1 \union {u}]
      /\ d[2][1] = D[r1 \ {u}][c2 \ {u}] /\ d[2][2] = D[r1 \ {u}][c2 \union {u}]
      /\ d[2][3] = D[r1 \union {u}][c2 \ {u}] /\ d[2][4] = D[r1 \union {u}][c2 \union {u}]
  <2> HIDE DEF r1, r2, c1, c2
  <2>1. QED OBVIOUS
<1>5. /\ d[3][1] = D[r2 \ {u}][c1 \ {u}] /\ d[3][2] = D[r2 \ {u}][c1 \union {u}]
      /\ d[3][3] = D[r2 \union {u}][c1 \ {u}] /\ d[3][4] = D[r2 \union {u}][c1 \union {u}]
      /\ d[4][1] = D[r2 \ {u}][c2 \ {u}] /\ d[4][2] = D[r2 \ {u}][c2 \union {u}]
      /\ d[4][3] = D[r2 \union {u}][c2 \ {u}] /\ d[4][4] = D[r2 \union {u}][c2 \union {u}]
  <2> HIDE DEF r1, r2, c1, c2
  <2>1. QED OBVIOUS
<1> HIDE DEF d, p, q
<1>6. /\ G[r1][c1] = (q[1] * d[1][1] + q[2] * d[1][2]) + (q[3] * d[1][3] + q[4] * d[1][4])
      /\ G[r1][c2] = (q[1] * d[2][1] + q[2] * d[2][2]) + (q[3] * d[2][3] + q[4] * d[2][4])
      /\ G[r2][c1] = (q[1] * d[3][1] + q[2] * d[3][2]) + (q[3] * d[3][3] + q[4] * d[3][4])
      /\ G[r2][c2] = (q[1] * d[4][1] + q[2] * d[4][2]) + (q[3] * d[4][3] + q[4] * d[4][4])
  <2>1. /\ G[r1][c1] = Blend(l, D, u, r1, c1) /\ G[r1][c2] = Blend(l, D, u, r1, c2)
        /\ G[r2][c1] = Blend(l, D, u, r2, c1) /\ G[r2][c2] = Blend(l, D, u, r2, c2)
    BY DEF NextTo
  <2> HIDE DEF r1, r2, c1, c2
  <2>2. QED BY ONLY <1>3, <1>4, <1>5, <2>1 DEF Blend
<1>7. /\ H[row \ {u}][col \ {u}]
            = (p[1] * d[1][1] + p[2] * d[2][1]) + (p[3] * d[3][1] + p[4] * d[4][1])
      /\ H[row \ {u}][col \union {u}]
            = (p[1] * d[1][2] + p[2] * d[2][2]) + (p[3] * d[3][2] + p[4] * d[4][2])
      /\ H[row \union {u}][col \ {u}]
            = (p[1] * d[1][3] + p[2] * d[2][3]) + (p[3] * d[3][3] + p[4] * d[4][3])
      /\ H[row \union {u}][col \union {u}]
            = (p[1] * d[1][4] + p[2] * d[2][4]) + (p[3] * d[3][4] + p[4] * d[4][4])
  <2> DEFINE s1 == row \ {u}
             s2 == row \union {u}
             e1 == col \ {u}
             e2 == col \union {u}
  <2>1. /\ s1 \ {t} = r1 \ {u} /\ s1 \union {t} = r2 \ {u}
        /\ s2 \ {t} = r1 \union {u} /\ s2 \union {t} = r2 \union {u}
        /\ e1 \ {t} = c1 \ {u} /\ e1 \union {t} = c2 \ {u}
        /\ e2 \ {t} = c1 \union {u} /\ e2 \union {t} = c2 \union {u}
    BY SidesApart
  <2>2. /\ H[s1][e1] = Blend(k, D, t, s1, e1) /\ H[s1][e2] = Blend(k, D, t, s1, e2)
        /\ H[s2][e1] = Blend(k, D, t, s2, e1) /\ H[s2][e2] = Blend(k, D, t, s2, e2)
    BY DEF NextTo
  <2> HIDE DEF r1, r2, c1, c2, s1, s2, e1, e2
  <2>3. /\ H[s1][e1] = (p[1] * d[1][1] + p[2] * d[2][1]) + (p[3] * d[3][1] + p[4] * d[4][1])
        /\ H[s1][e2] = (p[1] * d[1][2] + p[2] * d[2][2]) + (p[3] * d[3][2] + p[4] * d[4][2])
        /\ H[s2][e1] = (p[1] * d[1][3] + p[2] * d[2][3]) + (p[3] * d[3][3] + p[4] * d[4][3])
        /\ H[s2][e2] = (p[1] * d[1][4] + p[2] * d[2][4]) + (p[3] * d[3][4] + p[4] * d[4][4])
    <3>1. H[s1][e1] = (p[1] * d[1][1] + p[2] * d[2][1]) + (p[3] * d[3][1] + p[4] * d[4][1])
      BY ONLY <1>3, <1>4, <1>5, <2>1, <2>2 DEF Blend
    <3>2. H[s1][e2] = (p[1] * d[1][2] + p[2] * d[2][2]) + (p[3] * d[3][2] + p[4] * d[4][2])
      BY ONLY <1>3, <1>4, <1>5, <2>1, <2>2 DEF Blend
    <3>3. H[s2][e1] = (p[1] * d[1][3] + p[2] * d[2][3]) + (p[3] * d[3][3] + p[4] * d[4][3])
      BY ONLY <1>3, <1>4, <1>5, <2>1, <2>2 DEF Blend
    <3>4. H[s2][e2] = (p[1] * d[1][4] + p[2] * d[2][4]) + (p[3] * d[3][4] + p[4] * d[4][4])
      BY ONLY <1>3, <1>4, <1>5, <2>1, <2>2 DEF Blend
    <3>5. QED BY <3>1, <3>2, <3>3, <3>4
  <2>4. QED BY <2>3 DEF s1, s2, e1, e2
<1>8. Blend(k, G, t, row, col)
        = (p[1] * G[r1][c1] + p[2] * G[r1][c2]) + (p[3] * G[r2][c1] + p[4] * G[r2][c2])
  BY ONLY <1>3 DEF Blend
<1>9. Blend(l, H, u, row, col)
        = (q[1] * H[row \ {u}][col \ {u}] + q[2] * H[row \ {u}][col \union {u}])
          + (q[3] * H[row \union {u}][col \ {u}] + q[4] * H[row \union {u}][col \union {u}])
  BY ONLY <1>3 DEF Blend
<1> HIDE DEF r1, r2, c1, c2
<1>10. QED BY ONLY <1>1, <1>2, <1>6, <1>7, <1>8, <1>9, BlendsOfBlends

\* Operations that act on different slots commute.
LEMMA LocalsCommute ==
    ASSUME NEW t \in Slots, NEW u \in Slots, t # u, NEW F, NEW G, ActsOn(F, t), ActsOn(G, u)
    PROVE  Commute(F, G)
<1>1. PICK K \in [{1, 2} -> [{1, 2} -> Tables]] : Blends(F, t, K)
  BY DEF ActsOn
<1>2. PICK L \in [{1, 2} -> [{1, 2} -> Tables]] : Blends(G, u, L)
  BY DEF ActsOn
<1>3. F \in SuperOperators /\ G \in SuperOperators
  BY DEF ActsOn
<1>4. ASSUME NEW D \in Densities PROVE F[G[D]] = G[F[D]]
  <2>1. /\ F[D] \in Densities /\ G[D] \in Densities
        /\ F[G[D]] \in Densities /\ G[F[D]] \in Densities
    BY <1>3 DEF SuperOperators
  <2>2. ASSUME NEW row \in BasisStates, NEW col \in BasisStates
        PROVE  F[G[D]][row][col] = G[F[D]][row][col]
    <3> DEFINE k == K[Side(t, row)][Side(t, col)]
               l == L[Side(u, row)][Side(u, col)]
    <3>1. k \in Tables /\ l \in Tables
      BY SideIs
    <3>2. ASSUME NEW r \in {row \ {t}, row \union {t}}, NEW c \in {col \ {t}, col \union {t}}
          PROVE  G[D][r][c] = Blend(l, D, u, r, c)
      <4>1. r \in BasisStates /\ c \in BasisStates /\ Side(u, r) = Side(u, row)
              /\ Side(u, c) = Side(u, col)
        <5>1. IsNeighbour(r, t, row) /\ IsNeighbour(c, t, col)
          BY DEF IsNeighbour
        <5>2. r \in BasisStates /\ Side(u, r) = Side(u, row)
          BY <5>1, NeighbourIs
        <5>3. c \in BasisStates /\ Side(u, c) = Side(u, col)
          BY <5>1, NeighbourIs
        <5>4. QED BY <5>2, <5>3
      <4>2. G[D][r][c] = Blend(L[Side(u, r)][Side(u, c)], D, u, r, c)
        BY <1>2, <4>1 DEF Blends
      <4>3. QED BY <4>1, <4>2
    <3>3. ASSUME NEW r \in {row \ {u}, row \union {u}}, NEW c \in {col \ {u}, col \union {u}}
          PROVE  F[D][r][c] = Blend(k, D, t, r, c)
      <4>1. r \in BasisStates /\ c \in BasisStates /\ Side(t, r) = Side(t, row)
              /\ Side(t, c) = Side(t, col)
        <5>1. IsNeighbour(r, u, row) /\ IsNeighbour(c, u, col)
          BY DEF IsNeighbour
        <5>2. r \in BasisStates /\ Side(t, r) = Side(t, row)
          BY <5>1, NeighbourIs
        <5>3. c \in BasisStates /\ Side(t, c) = Side(t, col)
          BY <5>1, NeighbourIs
        <5>4. QED BY <5>2, <5>3
      <4>2. F[D][r][c] = Blend(K[Side(t, r)][Side(t, c)], D, t, r, c)
        BY <1>1, <4>1 DEF Blends
      <4>3. QED BY <4>1, <4>2
    <3>4. F[G[D]][row][col] = Blend(k, G[D], t, row, col)
      BY <1>1, <2>1 DEF Blends
    <3>5. G[F[D]][row][col] = Blend(l, F[D], u, row, col)
      BY <1>2, <2>1 DEF Blends
    <3> HIDE DEF k, l
    <3> DEFINE A == G[D]
               B == F[D]
    <3>6. A \in Densities /\ B \in Densities
      BY <2>1
    <3>7. NextTo(A, D, l, u, t, row, col) /\ NextTo(B, D, k, t, u, row, col)
      BY <3>2, <3>3 DEF NextTo
    <3> HIDE DEF A, B
    <3>8. Blend(k, A, t, row, col) = Blend(l, B, u, row, col)
      BY <3>1, <3>6, <3>7, BlendsExchange
    <3>9. QED BY <3>4, <3>5, <3>8 DEF A, B
  <2>3. QED BY <2>1, <2>2, DensitiesEqual
<1>5. QED BY <1>4 DEF Commute

LEMMA ExchangeEntry ==
    ASSUME NEW D \in Densities, NEW control, NEW target \in Slots,
           NEW row \in BasisStates, NEW col \in BasisStates
    PROVE  /\ DensityCx(D, control, target) \in Densities
           /\ DensityCx(D, control, target)[row][col]
                = D[Permuted(row, control, target)][Permuted(col, control, target)]
<1>1. DensityCx(D, control, target) \in Densities
  BY ExchangeFacts
<1>2. QED BY <1>1 DEF DensityCx

LeavesAlone(control, target, slot) ==
    \A b \in BasisStates :
        /\ Permuted(b \ {slot}, control, target) = Permuted(b, control, target) \ {slot}
        /\ Permuted(b \union {slot}, control, target) = Permuted(b, control, target) \union {slot}
        /\ Side(slot, Permuted(b, control, target)) = Side(slot, b)

\* A controlled exchange leaves other slots alone.
LEMMA ExchangeApart ==
    ASSUME NEW control \in Slots, NEW target \in Slots, NEW slot \in Slots,
           slot # control, slot # target
    PROVE  LeavesAlone(control, target, slot)
<1> SUFFICES ASSUME NEW b \in BasisStates
             PROVE  /\ Permuted(b \ {slot}, control, target) = Permuted(b, control, target) \ {slot}
                    /\ Permuted(b \union {slot}, control, target)
                          = Permuted(b, control, target) \union {slot}
                    /\ Side(slot, Permuted(b, control, target)) = Side(slot, b)
  BY DEF LeavesAlone
<1>1. CASE control \notin b
  BY <1>1 DEF Permuted
<1>2. CASE control \in b /\ target \in b
  BY <1>2 DEF Permuted, Side
<1>3. CASE control \in b /\ target \notin b
  BY <1>3 DEF Permuted, Side
<1>4. QED BY <1>1, <1>2, <1>3

ExchangeOn(control, target) == [D \in Densities |-> DensityCx(D, control, target)]

\* So do an operation on a slot and an exchange of others.
LEMMA LocalAndExchange ==
    ASSUME NEW control \in Slots, NEW target \in Slots, NEW slot \in Slots,
           slot # control, slot # target, NEW F, ActsOn(F, slot)
    PROVE  Commute(F, ExchangeOn(control, target)) /\ Commute(ExchangeOn(control, target), F)
<1> DEFINE G == ExchangeOn(control, target)
           P(b) == Permuted(b, control, target)
<1>1. PICK K \in [{1, 2} -> [{1, 2} -> Tables]] : Blends(F, slot, K)
  BY DEF ActsOn
<1>2. F \in SuperOperators
  BY DEF ActsOn
<1>0. \A b \in BasisStates :
         /\ P(b \ {slot}) = P(b) \ {slot} /\ P(b \union {slot}) = P(b) \union {slot}
         /\ Side(slot, P(b)) = Side(slot, b)
  <2>1. LeavesAlone(control, target, slot)
    BY ExchangeApart
  <2>2. QED BY <2>1, Zenon DEF P, LeavesAlone
<1> HIDE DEF P
<1>3. ASSUME NEW D \in Densities PROVE F[G[D]] = G[F[D]]
  <2>1. /\ G[D] = DensityCx(D, control, target) /\ G[D] \in Densities
        /\ F[D] \in Densities /\ F[G[D]] \in Densities
        /\ G[F[D]] = DensityCx(F[D], control, target) /\ G[F[D]] \in Densities
    BY <1>2, ExchangeFacts DEF SuperOperators, ExchangeOn
  <2>2. ASSUME NEW row \in BasisStates, NEW col \in BasisStates
        PROVE  F[G[D]][row][col] = G[F[D]][row][col]
    <3> DEFINE k == K[Side(slot, row)][Side(slot, col)]
               E == G[D]
    <3>1. F[E][row][col] = Blend(k, E, slot, row, col)
      BY <1>1, <2>1 DEF Blends
    <3>2. P(row) \in BasisStates /\ P(col) \in BasisStates
      BY PermutedFacts DEF P
    <3>3. G[F[D]][row][col] = F[D][P(row)][P(col)]
      BY <2>1, <3>2, ExchangeEntry DEF P
    <3>4. F[D][P(row)][P(col)] = Blend(k, D, slot, P(row), P(col))
      <4>1. Side(slot, P(row)) = Side(slot, row) /\ Side(slot, P(col)) = Side(slot, col)
        BY <1>0
      <4>2. F[D][P(row)][P(col)]
              = Blend(K[Side(slot, P(row))][Side(slot, P(col))], D, slot, P(row), P(col))
        BY <1>1, <3>2 DEF Blends
      <4>3. QED BY <4>1, <4>2
    <3>5. \A r, c \in BasisStates : E[r][c] = D[P(r)][P(c)]
      BY <2>1, ExchangeEntry DEF P
    <3>6. /\ row \ {slot} \in BasisStates /\ row \union {slot} \in BasisStates
          /\ col \ {slot} \in BasisStates /\ col \union {slot} \in BasisStates
      BY BasisFacts
    <3>7. /\ P(row \ {slot}) = P(row) \ {slot} /\ P(row \union {slot}) = P(row) \union {slot}
          /\ P(col \ {slot}) = P(col) \ {slot} /\ P(col \union {slot}) = P(col) \union {slot}
      BY <1>0, Zenon
    <3> HIDE DEF E, k
    <3>8. /\ E[row \ {slot}][col \ {slot}] = D[P(row) \ {slot}][P(col) \ {slot}]
          /\ E[row \ {slot}][col \union {slot}] = D[P(row) \ {slot}][P(col) \union {slot}]
          /\ E[row \union {slot}][col \ {slot}] = D[P(row) \union {slot}][P(col) \ {slot}]
          /\ E[row \union {slot}][col \union {slot}] = D[P(row) \union {slot}][P(col) \union {slot}]
      <4>1. ASSUME NEW r \in BasisStates, NEW c \in BasisStates PROVE E[r][c] = D[P(r)][P(c)]
        BY <3>5
      <4>2. E[row \ {slot}][col \ {slot}] = D[P(row) \ {slot}][P(col) \ {slot}]
        <5>1. E[row \ {slot}][col \ {slot}] = D[P(row \ {slot})][P(col \ {slot})]
          BY <3>6, <4>1
        <5>2. QED BY <3>7, <5>1
      <4>3. E[row \ {slot}][col \union {slot}] = D[P(row) \ {slot}][P(col) \union {slot}]
        <5>1. E[row \ {slot}][col \union {slot}] = D[P(row \ {slot})][P(col \union {slot})]
          BY <3>6, <4>1
        <5>2. QED BY <3>7, <5>1
      <4>4. E[row \union {slot}][col \ {slot}] = D[P(row) \union {slot}][P(col) \ {slot}]
        <5>1. E[row \union {slot}][col \ {slot}] = D[P(row \union {slot})][P(col \ {slot})]
          BY <3>6, <4>1
        <5>2. QED BY <3>7, <5>1
      <4>5. E[row \union {slot}][col \union {slot}] = D[P(row) \union {slot}][P(col) \union {slot}]
        <5>1. E[row \union {slot}][col \union {slot}] = D[P(row \union {slot})][P(col \union {slot})]
          BY <3>6, <4>1
        <5>2. QED BY <3>7, <5>1
      <4>6. QED BY <4>2, <4>3, <4>4, <4>5
    <3>9. Blend(k, E, slot, row, col) = Blend(k, D, slot, P(row), P(col))
      BY ONLY <3>8 DEF Blend
    <3>10. QED BY <3>1, <3>3, <3>4, <3>9 DEF E
  <2>3. QED BY <2>1, <2>2, DensitiesEqual
<1>4. QED BY <1>3 DEF Commute

\* And exchanges of disjoint pairs of slots.
LEMMA ExchangesCommute ==
    ASSUME NEW c1 \in Slots, NEW t1 \in Slots, NEW c2 \in Slots, NEW t2 \in Slots,
           c1 # c2, c1 # t2, t1 # c2, t1 # t2
    PROVE  Commute(ExchangeOn(c1, t1), ExchangeOn(c2, t2))
<1>1. ASSUME NEW b \in BasisStates
      PROVE  Permuted(Permuted(b, c1, t1), c2, t2) = Permuted(Permuted(b, c2, t2), c1, t1)
  <2>1. CASE c1 \notin b
    BY <2>1 DEF Permuted
  <2>2. CASE c2 \notin b
    BY <2>2 DEF Permuted
  <2>3. CASE c1 \in b /\ c2 \in b /\ t1 \in b /\ t2 \in b
    BY <2>3 DEF Permuted
  <2>4. CASE c1 \in b /\ c2 \in b /\ t1 \in b /\ t2 \notin b
    BY <2>4 DEF Permuted
  <2>5. CASE c1 \in b /\ c2 \in b /\ t1 \notin b /\ t2 \in b
    BY <2>5 DEF Permuted
  <2>6. CASE c1 \in b /\ c2 \in b /\ t1 \notin b /\ t2 \notin b
    BY <2>6 DEF Permuted
  <2>7. QED BY <2>1, <2>2, <2>3, <2>4, <2>5, <2>6
<1>2. ASSUME NEW D \in Densities
      PROVE  ExchangeOn(c1, t1)[ExchangeOn(c2, t2)[D]] = ExchangeOn(c2, t2)[ExchangeOn(c1, t1)[D]]
  <2> DEFINE A == DensityCx(D, c2, t2)
             B == DensityCx(D, c1, t1)
             L == DensityCx(A, c1, t1)
             R == DensityCx(B, c2, t2)
  <2>1. A \in Densities /\ B \in Densities
    BY ExchangeFacts
  <2>2. L \in Densities /\ R \in Densities
    <3> HIDE DEF A, B
    <3>1. QED BY <2>1, ExchangeFacts
  <2>3. ASSUME NEW row \in BasisStates, NEW col \in BasisStates PROVE L[row][col] = R[row][col]
    <3>1. /\ Permuted(row, c1, t1) \in BasisStates /\ Permuted(col, c1, t1) \in BasisStates
          /\ Permuted(row, c2, t2) \in BasisStates /\ Permuted(col, c2, t2) \in BasisStates
      BY PermutedFacts
    <3>2. L[row][col] = A[Permuted(row, c1, t1)][Permuted(col, c1, t1)]
          /\ R[row][col] = B[Permuted(row, c2, t2)][Permuted(col, c2, t2)]
      <4> HIDE DEF A, B
      <4>1. QED BY <2>1, ExchangeEntry
    <3>3. A[Permuted(row, c1, t1)][Permuted(col, c1, t1)]
            = D[Permuted(Permuted(row, c1, t1), c2, t2)][Permuted(Permuted(col, c1, t1), c2, t2)]
      BY <3>1, ExchangeEntry
    <3>4. B[Permuted(row, c2, t2)][Permuted(col, c2, t2)]
            = D[Permuted(Permuted(row, c2, t2), c1, t1)][Permuted(Permuted(col, c2, t2), c1, t1)]
      BY <3>1, ExchangeEntry
    <3> HIDE DEF L, R, A, B
    <3>5. QED BY <1>1, <3>2, <3>3, <3>4
  <2>4. L = R
    <3> HIDE DEF L, R
    <3>1. QED BY <2>2, <2>3, DensitiesEqual
  <2>5. QED BY <2>1, <2>4 DEF ExchangeOn
<1>3. QED BY <1>2 DEF Commute

\* One operation after another.
LEMMA ComposedCommute ==
    ASSUME NEW F \in SuperOperators, NEW G \in SuperOperators, NEW H \in SuperOperators,
           Commute(F, H), Commute(G, H)
    PROVE  Commute([D \in Densities |-> F[G[D]]], H)
<1>1. ASSUME NEW D \in Densities
      PROVE  F[G[H[D]]] = H[F[G[D]]] /\ H[D] \in Densities /\ G[D] \in Densities
  BY DEF SuperOperators, Commute
<1>2. QED BY <1>1 DEF Commute

LEMMA CommuteBothWays ==
    ASSUME NEW F, NEW G, Commute(F, G)
    PROVE  Commute(G, F)
BY DEF Commute

\* The tables of an operator on a slot.
OperatorTables(m) ==
    [a \in {1, 2} |-> [b \in {1, 2} |-> [i \in {1, 2} |-> [j \in {1, 2} |-> m[a][i] * m[b][j]]]]]

LEMMA OperatorTableFacts ==
    ASSUME NEW m, IsMatrix(m)
    PROVE  /\ OperatorTables(m) \in [{1, 2} -> [{1, 2} -> Tables]]
           /\ \A a, b, i, j \in {1, 2} : OperatorTables(m)[a][b][i][j] = m[a][i] * m[b][j]
<1>1. \A a, b, i, j \in {1, 2} : m[a][i] * m[b][j] \in Int
  BY DEF IsMatrix
<1>2. QED BY <1>1 DEF OperatorTables, Tables

LEMMA OperatorBlends ==
    ASSUME NEW D \in Densities, NEW t \in Slots, NEW m, IsMatrix(m),
           NEW row \in BasisStates, NEW col \in BasisStates
    PROVE  ApplyOperator(D, t, m)[row][col]
             = Blend(OperatorTables(m)[Side(t, row)][Side(t, col)], D, t, row, col)
<1> DEFINE L == RowOperator(D, t, m)
           A == ApplyOperator(D, t, m)
           l == Line(m, t, row)
           n == Line(m, t, col)
           r0 == row \ {t}
           r1 == row \union {t}
           c0 == col \ {t}
           c1 == col \union {t}
<1>1. r0 \in BasisStates /\ r1 \in BasisStates /\ c0 \in BasisStates /\ c1 \in BasisStates
  BY BasisFacts
<1>2. L \in Densities /\ A = [b \in BasisStates |-> ApplySingle(L[b], t, m)]
  BY OperatorFacts
<1>3. ASSUME NEW c \in BasisStates PROVE L[row][c] = l[1] * D[r0][c] + l[2] * D[r1][c]
  BY DEF RowOperator
<1>4. l[1] \in Int /\ l[2] \in Int /\ n[1] \in Int /\ n[2] \in Int
  BY LineFacts
<1>5. /\ D[r0][c0] \in Int /\ D[r0][c1] \in Int /\ D[r1][c0] \in Int /\ D[r1][c1] \in Int
  BY <1>1, DensityFacts
<1>6. A[row][col] = n[1] * L[row][c0] + n[2] * L[row][c1]
  <2> DEFINE v == L[row]
  <2>1. v \in States /\ A[row][col] = ApplySingle(v, t, m)[col]
    BY <1>2, DensityFacts
  <2> HIDE DEF A, L, v, l, n, r0, r1, c0, c1
  <2>2. ApplySingle(v, t, m)[col] = Line(m, t, col)[1] * v[col \ {t}] + Line(m, t, col)[2] * v[col \union {t}]
    <3>1. v \in States
      BY <2>1
    <3>2. \A b \in BasisStates :
             ApplySingle(v, t, m)[b] = Line(m, t, b)[1] * v[b \ {t}] + Line(m, t, b)[2] * v[b \union {t}]
      BY <3>1, SingleFacts
    <3>3. QED BY <3>2
  <2>3. QED BY <2>1, <2>2 DEF v, n, c0, c1
<1>7. /\ l = m[Side(t, row)] /\ n = m[Side(t, col)]
      /\ Side(t, row) \in {1, 2} /\ Side(t, col) \in {1, 2}
  BY DEF Line, Side
<1> DEFINE k == OperatorTables(m)[Side(t, row)][Side(t, col)]
<1>8. /\ k[1][1] = l[1] * n[1] /\ k[1][2] = l[1] * n[2]
      /\ k[2][1] = l[2] * n[1] /\ k[2][2] = l[2] * n[2]
  <2> HIDE DEF l, n
  <2>1. QED BY <1>7, OperatorTableFacts
<1>9. Blend(k, D, t, row, col) = (k[1][1] * D[r0][c0] + k[1][2] * D[r0][c1])
                                  + (k[2][1] * D[r1][c0] + k[2][2] * D[r1][c1])
  BY DEF Blend
<1>10. L[row][c0] = l[1] * D[r0][c0] + l[2] * D[r1][c0]
         /\ L[row][c1] = l[1] * D[r0][c1] + l[2] * D[r1][c1]
  BY <1>1, <1>3
<1> DEFINE d1 == D[r0][c0]
           d2 == D[r0][c1]
           d3 == D[r1][c0]
           d4 == D[r1][c1]
           l1 == l[1]
           l2 == l[2]
           n1 == n[1]
           n2 == n[2]
<1>11. A[row][col] = n1 * (l1 * d1 + l2 * d3) + n2 * (l1 * d2 + l2 * d4)
  <2> HIDE DEF A, L, l, n, r0, r1, c0, c1
  <2>1. QED BY <1>6, <1>10
<1>12. Blend(k, D, t, row, col)
         = ((l1 * n1) * d1 + (l1 * n2) * d2) + ((l2 * n1) * d3 + (l2 * n2) * d4)
  <2> HIDE DEF k, l, n, r0, r1, c0, c1
  <2>1. QED BY <1>8, <1>9
<1>13. d1 \in Int /\ d2 \in Int /\ d3 \in Int /\ d4 \in Int
         /\ l1 \in Int /\ l2 \in Int /\ n1 \in Int /\ n2 \in Int
  BY <1>4, <1>5
<1> HIDE DEF A, L, k, d1, d2, d3, d4, l1, l2, n1, n2
<1>14. n1 * (l1 * d1 + l2 * d3) + n2 * (l1 * d2 + l2 * d4)
         = ((l1 * n1) * d1 + (l1 * n2) * d2) + ((l2 * n1) * d3 + (l2 * n2) * d4)
  BY <1>13
<1>15. QED BY <1>11, <1>12, <1>14 DEF A, k

LocalOn(t, m) == [D \in Densities |-> ApplyOperator(D, t, m)]

LEMMA LocalActs ==
    ASSUME NEW t \in Slots, NEW m, IsMatrix(m)
    PROVE  ActsOn(LocalOn(t, m), t)
<1> DEFINE F == LocalOn(t, m)
           K == OperatorTables(m)
<1>1. F \in SuperOperators /\ \A D \in Densities : F[D] = ApplyOperator(D, t, m)
  BY OperatorFacts DEF LocalOn, SuperOperators
<1>2. K \in [{1, 2} -> [{1, 2} -> Tables]]
  BY OperatorTableFacts
<1> HIDE DEF F, K
<1>3. Blends(F, t, K)
  BY <1>1, OperatorBlends DEF Blends, K
<1>4. QED BY <1>1, <1>2, <1>3 DEF ActsOn, F

ResetTables ==
    [a \in {1, 2} |-> [b \in {1, 2} |-> [i \in {1, 2} |-> [j \in {1, 2} |->
        IF a = 1 /\ b = 1 /\ i = j THEN 1 ELSE 0]]]]

ResetOn(t) == [D \in Densities |-> DensityReset(D, t)]

LEMMA ResetActs ==
    ASSUME NEW t \in Slots
    PROVE  ActsOn(ResetOn(t), t)
<1> DEFINE F == ResetOn(t)
           K == ResetTables
<1>1. F \in SuperOperators /\ \A D \in Densities : F[D] = DensityReset(D, t)
  BY DensityResetFacts DEF ResetOn, SuperOperators
<1>2. K \in [{1, 2} -> [{1, 2} -> Tables]]
  BY DEF ResetTables, Tables
<1>3. ASSUME NEW D \in Densities, NEW row \in BasisStates, NEW col \in BasisStates
      PROVE  DensityReset(D, t)[row][col] = Blend(K[Side(t, row)][Side(t, col)], D, t, row, col)
  <2> DEFINE k == K[Side(t, row)][Side(t, col)]
             d1 == D[row \ {t}][col \ {t}]
             d2 == D[row \ {t}][col \union {t}]
             d3 == D[row \union {t}][col \ {t}]
             d4 == D[row \union {t}][col \union {t}]
  <2>1. d1 \in Int /\ d2 \in Int /\ d3 \in Int /\ d4 \in Int
    BY BasisFacts, DensityFacts
  <2>2. Blend(k, D, t, row, col) = (k[1][1] * d1 + k[1][2] * d2) + (k[2][1] * d3 + k[2][2] * d4)
    BY DEF Blend
  <2>3. CASE t \in row \/ t \in col
    <3>1. k[1][1] = 0 /\ k[1][2] = 0 /\ k[2][1] = 0 /\ k[2][2] = 0
      BY <2>3 DEF ResetTables, Side
    <3>2. DensityReset(D, t)[row][col] = 0
      BY <2>3 DEF DensityReset
    <3> HIDE DEF k, d1, d2, d3, d4
    <3>3. Blend(k, D, t, row, col) = 0
      BY <2>1, <2>2, <3>1
    <3>4. QED BY <3>2, <3>3 DEF k
  <2>4. CASE t \notin row /\ t \notin col
    <3>1. k[1][1] = 1 /\ k[1][2] = 0 /\ k[2][1] = 0 /\ k[2][2] = 1
      BY <2>4 DEF ResetTables, Side
    <3>2. row \ {t} = row /\ col \ {t} = col
      BY <2>4
    <3>3. DensityReset(D, t)[row][col] = d1 + d4
      BY <2>4, <3>2 DEF DensityReset
    <3> HIDE DEF k, d1, d2, d3, d4
    <3>4. Blend(k, D, t, row, col) = d1 + d4
      BY <2>1, <2>2, <3>1
    <3>5. QED BY <3>3, <3>4 DEF k
  <2>5. QED BY <2>3, <2>4
<1> HIDE DEF F, K
<1>4. Blends(F, t, K)
  BY <1>1, <1>3 DEF Blends
<1>5. QED BY <1>1, <1>2, <1>4 DEF ActsOn, F

\* The tables of a channel: the sums of its operators'.
KrausShare(channel, a, b, i, j) ==
    [k \in DOMAIN channel |-> channel[k].weight * OperatorTables(channel[k].matrix)[a][b][i][j]]

ChannelTables(channel) ==
    [a \in {1, 2} |-> [b \in {1, 2} |-> [i \in {1, 2} |-> [j \in {1, 2} |->
        Sum(KrausShare(channel, a, b, i, j), DOMAIN channel)]]]]

LEMMA KrausShareIsInt ==
    ASSUME NEW channel, IsChannel(channel), NEW a \in {1, 2}, NEW b \in {1, 2},
           NEW i \in {1, 2}, NEW j \in {1, 2}
    PROVE  /\ \A k \in DOMAIN channel : KrausShare(channel, a, b, i, j)[k] \in Int
           /\ Sum(KrausShare(channel, a, b, i, j), DOMAIN channel) \in Int
<1>1. ASSUME NEW k \in DOMAIN channel PROVE KrausShare(channel, a, b, i, j)[k] \in Int
  <2> DEFINE w == channel[k].weight
             e == OperatorTables(channel[k].matrix)[a][b][i][j]
  <2>1. w \in Int /\ IsMatrix(channel[k].matrix)
    BY DEF IsChannel
  <2>2. e \in Int
    BY <2>1, OperatorTableFacts DEF Tables
  <2>3. KrausShare(channel, a, b, i, j)[k] = w * e
    BY DEF KrausShare
  <2> HIDE DEF w, e
  <2>4. QED BY <2>1, <2>2, <2>3, IntegerOperations
<1>2. IsFiniteSet(DOMAIN channel)
  BY DEF IsChannel
<1> DEFINE f == KrausShare(channel, a, b, i, j)
           S == DOMAIN channel
<1>3. \A k \in S : f[k] \in Int
  BY <1>1
<1> HIDE DEF f, S
<1>4. Sum(f, S) \in Int
  BY <1>2, <1>3, SumIsInt DEF S
<1>5. QED BY <1>3, <1>4 DEF f, S

LEMMA ChannelBlends ==
    ASSUME NEW D \in Densities, NEW t \in Slots, NEW channel, IsChannel(channel),
           NEW row \in BasisStates, NEW col \in BasisStates
    PROVE  ApplyChannel(D, t, channel)[row][col]
             = Blend(ChannelTables(channel)[Side(t, row)][Side(t, col)], D, t, row, col)
<1> DEFINE S == DOMAIN channel
           a == Side(t, row)
           b == Side(t, col)
           T == Term(D, t, channel, row, col)
           f1 == KrausShare(channel, a, b, 1, 1)
           f2 == KrausShare(channel, a, b, 1, 2)
           f3 == KrausShare(channel, a, b, 2, 1)
           f4 == KrausShare(channel, a, b, 2, 2)
           d1 == D[row \ {t}][col \ {t}]
           d2 == D[row \ {t}][col \union {t}]
           d3 == D[row \union {t}][col \ {t}]
           d4 == D[row \union {t}][col \union {t}]
           g == [k \in S |-> d1 * f1[k] + d2 * f2[k]]
           h == [k \in S |-> d3 * f3[k] + d4 * f4[k]]
<1>1. a \in {1, 2} /\ b \in {1, 2} /\ IsFiniteSet(S)
  BY SideIs DEF IsChannel
<1>2. d1 \in Int /\ d2 \in Int /\ d3 \in Int /\ d4 \in Int
  BY BasisFacts, DensityFacts
<1>3. ApplyChannel(D, t, channel)[row][col] = Sum(T, S)
  BY ChannelFacts
<1>4. /\ \A k \in S : f1[k] \in Int /\ f2[k] \in Int /\ f3[k] \in Int /\ f4[k] \in Int
      /\ Sum(f1, S) \in Int /\ Sum(f2, S) \in Int /\ Sum(f3, S) \in Int /\ Sum(f4, S) \in Int
  <2> HIDE DEF a, b
  <2>1. QED BY <1>1, KrausShareIsInt
<1>5. ASSUME NEW k \in S
      PROVE  T[k] = (d1 * f1[k] + d2 * f2[k]) + (d3 * f3[k] + d4 * f4[k])
  <2> DEFINE w == channel[k].weight
             m == channel[k].matrix
             p == OperatorTables(m)[a][b]
  <2>1. w \in Int /\ IsMatrix(m)
    BY DEF IsChannel
  <2>2. T[k] = w * ApplyOperator(D, t, m)[row][col]
    BY DEF Term
  <2>3. ApplyOperator(D, t, m)[row][col] = (p[1][1] * d1 + p[1][2] * d2) + (p[2][1] * d3 + p[2][2] * d4)
    <3>1. ApplyOperator(D, t, m)[row][col] = Blend(p, D, t, row, col)
      <4> HIDE DEF m
      <4>1. QED BY <2>1, OperatorBlends
    <3>2. QED BY <3>1 DEF Blend
  <2>4. /\ p[1][1] \in Int /\ p[1][2] \in Int /\ p[2][1] \in Int /\ p[2][2] \in Int
    <3>1. p \in Tables
      <4> HIDE DEF m, a, b
      <4>1. QED BY <1>1, <2>1, OperatorTableFacts
    <3> HIDE DEF p
    <3>2. QED BY <3>1 DEF Tables
  <2>5. /\ f1[k] = w * p[1][1] /\ f2[k] = w * p[1][2] /\ f3[k] = w * p[2][1] /\ f4[k] = w * p[2][2]
    BY DEF KrausShare
  <2> HIDE DEF T, f1, f2, f3, f4, d1, d2, d3, d4, w, p, m
  <2>6. \A x1, x2, x3, x4 \in Int :
            w * ((x1 * d1 + x2 * d2) + (x3 * d3 + x4 * d4))
              = (d1 * (w * x1) + d2 * (w * x2)) + (d3 * (w * x3) + d4 * (w * x4))
    BY <1>2, <2>1
  <2>7. QED BY <2>2, <2>3, <2>4, <2>5, <2>6
<1> HIDE DEF T, f1, f2, f3, f4, d1, d2, d3, d4
<1>6. Sum(g, S) = d1 * Sum(f1, S) + d2 * Sum(f2, S) /\ \A k \in S : g[k] \in Int
  <2>1. \A k \in S : f1[k] \in Int /\ f2[k] \in Int /\ g[k] = d1 * f1[k] + d2 * f2[k]
    BY <1>4
  <2>2. \A k \in S : g[k] \in Int
    BY <1>2, <1>4
  <2> HIDE DEF g, S
  <2>3. QED BY <1>1, <1>2, <2>1, <2>2, SumCombination
<1>7. Sum(h, S) = d3 * Sum(f3, S) + d4 * Sum(f4, S) /\ \A k \in S : h[k] \in Int
  <2>1. \A k \in S : f3[k] \in Int /\ f4[k] \in Int /\ h[k] = d3 * f3[k] + d4 * f4[k]
    BY <1>4
  <2>2. \A k \in S : h[k] \in Int
    BY <1>2, <1>4
  <2> HIDE DEF g, h, S
  <2>3. Sum(h, S) = d3 * Sum(f3, S) + d4 * Sum(f4, S)
    BY ONLY <1>1, <1>2, <2>1, SumCombination
  <2>4. QED BY <2>2, <2>3
<1>8. \A k \in S : T[k] = 1 * g[k] + 1 * h[k]
  <2>1. \A k \in S : T[k] = g[k] + h[k]
    BY <1>5
  <2> HIDE DEF g, h, S
  <2>2. QED BY <1>6, <1>7, <2>1
<1>9. Sum(T, S) = 1 * Sum(g, S) + 1 * Sum(h, S)
  <2> HIDE DEF g, h, S
  <2>1. 1 \in Int
    OBVIOUS
  <2>2. QED BY <1>1, <1>6, <1>7, <1>8, <2>1, SumCombination
<1> DEFINE k == ChannelTables(channel)[a][b]
<1>10. /\ k[1][1] = Sum(f1, S) /\ k[1][2] = Sum(f2, S) /\ k[2][1] = Sum(f3, S) /\ k[2][2] = Sum(f4, S)
  <2> HIDE DEF a, b
  <2>1. QED BY <1>1 DEF ChannelTables, f1, f2, f3, f4
<1>11. Blend(k, D, t, row, col) = (k[1][1] * d1 + k[1][2] * d2) + (k[2][1] * d3 + k[2][2] * d4)
  BY DEF Blend, d1, d2, d3, d4
<1>12. QED
  <2> DEFINE s1 == Sum(f1, S)
             s2 == Sum(f2, S)
             s3 == Sum(f3, S)
             s4 == Sum(f4, S)
             x == ApplyChannel(D, t, channel)[row][col]
             y == Blend(k, D, t, row, col)
  <2>1. s1 \in Int /\ s2 \in Int /\ s3 \in Int /\ s4 \in Int
    BY <1>4
  <2>2. x = 1 * (d1 * s1 + d2 * s2) + 1 * (d3 * s3 + d4 * s4)
    BY <1>3, <1>6, <1>7, <1>9
  <2>3. y = (s1 * d1 + s2 * d2) + (s3 * d3 + s4 * d4)
    BY <1>10, <1>11
  <2> HIDE DEF s1, s2, s3, s4, x, y
  <2>4. x = y
    BY <1>2, <2>1, <2>2, <2>3
  <2>5. QED BY <2>4 DEF x, y

ChannelOn(t, channel) == [D \in Densities |-> ApplyChannel(D, t, channel)]

LEMMA ChannelActs ==
    ASSUME NEW t \in Slots, NEW channel, IsChannel(channel)
    PROVE  ActsOn(ChannelOn(t, channel), t)
<1> DEFINE F == ChannelOn(t, channel)
           K == ChannelTables(channel)
<1>1. F \in SuperOperators /\ \A D \in Densities : F[D] = ApplyChannel(D, t, channel)
  BY ChannelFacts DEF ChannelOn, SuperOperators
<1>2. K \in [{1, 2} -> [{1, 2} -> Tables]]
  <2>1. \A a, b, i, j \in {1, 2} : Sum(KrausShare(channel, a, b, i, j), DOMAIN channel) \in Int
    BY KrausShareIsInt
  <2>2. QED BY <2>1 DEF ChannelTables, Tables
<1> HIDE DEF F, K
<1>3. Blends(F, t, K)
  BY <1>1, ChannelBlends DEF Blends, K
<1>4. QED BY <1>1, <1>2, <1>3 DEF ActsOn, F

IdentityOn == [D \in Densities |-> D]

\* Nothing, an operation on a slot of a set, or an exchange within it.
Elementary(F, S) ==
    \/ F = IdentityOn
    \/ \E slot \in S : ActsOn(F, slot)
    \/ \E control, target \in S : F = ExchangeOn(control, target)

\* An operation on a set of slots: two such steps.
Built(F, S) ==
    \E A, B \in SuperOperators :
        Elementary(A, S) /\ Elementary(B, S) /\ F = [D \in Densities |-> A[B[D]]]

LEMMA ElementaryCommute ==
    ASSUME NEW S \in SUBSET Slots, NEW T \in SUBSET Slots, S \cap T = {},
           NEW F \in SuperOperators, NEW G \in SuperOperators, Elementary(F, S), Elementary(G, T)
    PROVE  Commute(F, G)
<1>1. CASE F = IdentityOn \/ G = IdentityOn
  <2>1. \A D \in Densities : F[D] \in Densities /\ G[D] \in Densities
    BY DEF SuperOperators
  <2>2. QED BY <1>1, <2>1 DEF IdentityOn, Commute
<1>2. ASSUME NEW s \in S, ActsOn(F, s), NEW t \in T, ActsOn(G, t) PROVE Commute(F, G)
  <2>1. s \in Slots /\ t \in Slots /\ s # t
    OBVIOUS
  <2>2. QED BY <1>2, <2>1, LocalsCommute
<1>3. ASSUME NEW s \in S, ActsOn(F, s), NEW c \in T, NEW t \in T, G = ExchangeOn(c, t)
      PROVE  Commute(F, G)
  <2>1. s \in Slots /\ t \in Slots /\ c \in Slots /\ s # t /\ s # c
    OBVIOUS
  <2>2. QED BY <1>3, <2>1, LocalAndExchange
<1>4. ASSUME NEW c \in S, NEW t \in S, F = ExchangeOn(c, t), NEW s \in T, ActsOn(G, s)
      PROVE  Commute(F, G)
  <2>1. s \in Slots /\ t \in Slots /\ c \in Slots /\ s # t /\ s # c
    OBVIOUS
  <2>2. QED BY <1>4, <2>1, LocalAndExchange
<1>5. ASSUME NEW c1 \in S, NEW t1 \in S, F = ExchangeOn(c1, t1),
             NEW c2 \in T, NEW t2 \in T, G = ExchangeOn(c2, t2)
      PROVE  Commute(F, G)
  <2>1. /\ c1 \in Slots /\ t1 \in Slots /\ c2 \in Slots /\ t2 \in Slots
        /\ c1 # c2 /\ c1 # t2 /\ t1 # c2 /\ t1 # t2
    OBVIOUS
  <2>2. QED BY <1>5, <2>1, ExchangesCommute
<1>6. QED BY <1>1, <1>2, <1>3, <1>4, <1>5 DEF Elementary

\* Operations on disjoint sets of slots commute.
LEMMA BuiltCommute ==
    ASSUME NEW S \in SUBSET Slots, NEW T \in SUBSET Slots, S \cap T = {},
           NEW F, NEW G, Built(F, S), Built(G, T)
    PROVE  Commute(F, G)
<1>1. PICK A \in SuperOperators, B \in SuperOperators :
         Elementary(A, S) /\ Elementary(B, S) /\ F = [D \in Densities |-> A[B[D]]]
  BY DEF Built
<1>2. PICK C \in SuperOperators, E \in SuperOperators :
         Elementary(C, T) /\ Elementary(E, T) /\ G = [D \in Densities |-> C[E[D]]]
  BY DEF Built
<1>3. F \in SuperOperators /\ G \in SuperOperators
  BY <1>1, <1>2 DEF SuperOperators
<1>4. Commute(A, C) /\ Commute(B, C) /\ Commute(A, E) /\ Commute(B, E)
  BY <1>1, <1>2, ElementaryCommute
<1>5. Commute(F, C) /\ Commute(F, E)
  BY <1>1, <1>4, ComposedCommute
<1>6. Commute(C, F) /\ Commute(E, F)
  BY <1>5, CommuteBothWays
<1>7. Commute(G, F)
  BY <1>2, <1>3, <1>6, ComposedCommute
<1>8. QED BY <1>7, CommuteBothWays

LEMMA BuiltTypes == ASSUME NEW S, NEW F, Built(F, S) PROVE F \in SuperOperators
BY DEF Built, SuperOperators

LEMMA ElementaryIsBuilt ==
    ASSUME NEW S, NEW F \in SuperOperators, Elementary(F, S)
    PROVE  Built(F, S)
<1>1. IdentityOn \in SuperOperators /\ Elementary(IdentityOn, S)
  BY DEF IdentityOn, SuperOperators, Elementary
<1>2. F = [D \in Densities |-> F[IdentityOn[D]]]
  BY DEF IdentityOn, SuperOperators
<1>3. QED BY <1>1, <1>2 DEF Built

-----------------------------------------------------------------------------
(* Decay adds up.                                                            *)

Fadings == [zero : Int, fallen : Int, across : Int, one : Int]

\* What decay makes of the entries of a slot.
Fades(E, D, t, f) ==
    \A row, col \in BasisStates :
        /\ t \notin row /\ t \notin col =>
              E[row][col] = f.zero * D[row][col] + f.fallen * D[row \union {t}][col \union {t}]
        /\ t \in row /\ t \in col => E[row][col] = f.one * D[row][col]
        /\ ~ (t \in row <=> t \in col) => E[row][col] = f.across * D[row][col]

LEMMA FadesAgree ==
    ASSUME NEW D, NEW t, NEW f, NEW E \in Densities, NEW G \in Densities,
           Fades(E, D, t, f), Fades(G, D, t, f)
    PROVE  E = G
<1>1. ASSUME NEW row \in BasisStates, NEW col \in BasisStates PROVE E[row][col] = G[row][col]
  <2>1. CASE t \notin row /\ t \notin col
    <3>1. /\ E[row][col] = f.zero * D[row][col] + f.fallen * D[row \union {t}][col \union {t}]
          /\ G[row][col] = f.zero * D[row][col] + f.fallen * D[row \union {t}][col \union {t}]
      BY <2>1, ZenonT(60) DEF Fades
    <3>2. QED BY <3>1
  <2>2. CASE t \in row /\ t \in col
    BY <2>2, ZenonT(60) DEF Fades
  <2>3. CASE ~ (t \in row <=> t \in col)
    BY <2>3, ZenonT(60) DEF Fades
  <2>4. QED BY <2>1, <2>2, <2>3
<1>2. QED BY <1>1, DensitiesEqual

\* Fading after fading is fading by the products.
LEMMA FadesOfFades ==
    ASSUME NEW D \in Densities, NEW t \in Slots, NEW f \in Fadings, NEW g \in Fadings,
           NEW E \in Densities, NEW G \in Densities, Fades(E, D, t, f), Fades(G, E, t, g)
    PROVE  Fades(G, D, t, [zero |-> g.zero * f.zero, fallen |-> g.zero * f.fallen + g.fallen * f.one,
                           across |-> g.across * f.across, one |-> g.one * f.one])
<1> DEFINE a1 == f.zero
           a2 == f.fallen
           a3 == f.across
           a4 == f.one
           b1 == g.zero
           b2 == g.fallen
           b3 == g.across
           b4 == g.one
           h == [zero |-> b1 * a1, fallen |-> b1 * a2 + b2 * a4, across |-> b3 * a3, one |-> b4 * a4]
<1>1. /\ a1 \in Int /\ a2 \in Int /\ a3 \in Int /\ a4 \in Int
      /\ b1 \in Int /\ b2 \in Int /\ b3 \in Int /\ b4 \in Int
  BY DEF Fadings
<1>2. h.zero = b1 * a1 /\ h.fallen = b1 * a2 + b2 * a4 /\ h.across = b3 * a3 /\ h.one = b4 * a4
  OBVIOUS
<1>3. ASSUME NEW row \in BasisStates, NEW col \in BasisStates
      PROVE  /\ t \notin row /\ t \notin col =>
                  G[row][col] = h.zero * D[row][col] + h.fallen * D[row \union {t}][col \union {t}]
             /\ t \in row /\ t \in col => G[row][col] = h.one * D[row][col]
             /\ ~ (t \in row <=> t \in col) => G[row][col] = h.across * D[row][col]
  <2> DEFINE r == row \union {t}
             c == col \union {t}
             x == D[row][col]
             y == D[r][c]
  <2>1. r \in BasisStates /\ c \in BasisStates /\ t \in r /\ t \in c
    BY BasisFacts
  <2>2. x \in Int /\ y \in Int
    BY <2>1, DensityFacts
  <2>3. CASE t \notin row /\ t \notin col
    <3>1. E[row][col] = a1 * x + a2 * y
      BY <2>3 DEF Fades
    <3>2. G[row][col] = b1 * E[row][col] + b2 * E[r][c]
      BY <2>3 DEF Fades
    <3>3. E[r][c] = a4 * y
      <4> HIDE DEF r, c
      <4>1. QED BY <2>1 DEF Fades, y
    <3> HIDE DEF a1, a2, a3, a4, b1, b2, b3, b4, x, y, h, r, c
    <3>4. b1 * (a1 * x + a2 * y) + b2 * (a4 * y) = (b1 * a1) * x + (b1 * a2 + b2 * a4) * y
      BY <1>1, <2>2
    <3>5. G[row][col] = h.zero * x + h.fallen * y
      BY <1>2, <3>1, <3>2, <3>3, <3>4
    <3>6. QED BY <2>3, <3>5 DEF x, y, r, c
  <2>4. CASE t \in row /\ t \in col
    <3>1. E[row][col] = a4 * x /\ G[row][col] = b4 * E[row][col]
      BY <2>4 DEF Fades
    <3> HIDE DEF a1, a2, a3, a4, b1, b2, b3, b4, x, y, h, r, c
    <3>2. b4 * (a4 * x) = (b4 * a4) * x
      BY <1>1, <2>2
    <3>3. G[row][col] = h.one * x
      BY <1>2, <3>1, <3>2
    <3>4. QED BY <2>4, <3>3 DEF x
  <2>5. CASE ~ (t \in row <=> t \in col)
    <3>1. E[row][col] = a3 * x /\ G[row][col] = b3 * E[row][col]
      BY <2>5 DEF Fades
    <3> HIDE DEF a1, a2, a3, a4, b1, b2, b3, b4, x, y, h, r, c
    <3>2. b3 * (a3 * x) = (b3 * a3) * x
      BY <1>1, <2>2
    <3>3. G[row][col] = h.across * x
      BY <1>2, <3>1, <3>2
    <3>4. QED BY <2>5, <3>3 DEF x
  <2>6. QED BY <2>3, <2>4, <2>5
<1>4. Fades(G, D, t, h)
  <2> HIDE DEF h
  <2>1. QED BY <1>3 DEF Fades
<1>5. QED BY <1>4

Triangular(p, q, r) == <<<<p, q>>, <<0, r>>>>

LEMMA TriangularFades ==
    ASSUME NEW D \in Densities, NEW t \in Slots, NEW p \in Int, NEW q \in Int, NEW r \in Int,
           p * q = 0, q * r = 0
    PROVE  /\ IsMatrix(Triangular(p, q, r))
           /\ Fades(ApplyOperator(D, t, Triangular(p, q, r)), D, t,
                    [zero |-> p * p, fallen |-> q * q, across |-> p * r, one |-> r * r])
<1> DEFINE m == Triangular(p, q, r)
           A == ApplyOperator(D, t, m)
           f == [zero |-> p * p, fallen |-> q * q, across |-> p * r, one |-> r * r]
<1>1. m[1][1] = p /\ m[1][2] = q /\ m[2][1] = 0 /\ m[2][2] = r
  BY DEF Triangular
<1> HIDE DEF m
<1>2. IsMatrix(m)
  BY <1>1 DEF IsMatrix
<1>3. ASSUME NEW row \in BasisStates, NEW col \in BasisStates
      PROVE  /\ t \notin row /\ t \notin col =>
                  A[row][col] = (p * p) * D[row][col] + (q * q) * D[row \union {t}][col \union {t}]
             /\ t \in row /\ t \in col => A[row][col] = (r * r) * D[row][col]
             /\ ~ (t \in row <=> t \in col) => A[row][col] = (p * r) * D[row][col]
  <2> DEFINE k == OperatorTables(m)[Side(t, row)][Side(t, col)]
             d1 == D[row \ {t}][col \ {t}]
             d2 == D[row \ {t}][col \union {t}]
             d3 == D[row \union {t}][col \ {t}]
             d4 == D[row \union {t}][col \union {t}]
             x == A[row][col]
  <2>1. d1 \in Int /\ d2 \in Int /\ d3 \in Int /\ d4 \in Int
    BY BasisFacts, DensityFacts
  <2>2. x = (k[1][1] * d1 + k[1][2] * d2) + (k[2][1] * d3 + k[2][2] * d4)
    BY <1>2, OperatorBlends DEF Blend
  <2>3. \A a, b \in {1, 2} : \A i, j \in {1, 2} : OperatorTables(m)[a][b][i][j] = m[a][i] * m[b][j]
    BY <1>2, OperatorTableFacts
  <2>4. CASE t \notin row /\ t \notin col
    <3>1. row \ {t} = row /\ col \ {t} = col /\ k = OperatorTables(m)[1][1]
      BY <2>4 DEF Side
    <3>2. k[1][1] = p * p /\ k[1][2] = p * q /\ k[2][1] = q * p /\ k[2][2] = q * q
      BY <1>1, <2>3, <3>1
    <3>3. D[row][col] = d1
      BY <3>1
    <3> HIDE DEF k, d1, d2, d3, d4, x
    <3>4. q * p = 0
      OBVIOUS
    <3>5. x = (p * p) * d1 + (q * q) * d4
      <4> DEFINE pp == p * p
                 qq == q * q
      <4>1. x = (pp * d1 + 0 * d2) + (0 * d3 + qq * d4)
        BY <2>2, <3>2, <3>4
      <4>2. pp \in Int /\ qq \in Int
        OBVIOUS
      <4> HIDE DEF pp, qq
      <4>3. x = pp * d1 + qq * d4
        BY <2>1, <4>1, <4>2
      <4>4. QED BY <4>3 DEF pp, qq
    <3>6. QED BY <2>4, <3>3, <3>5 DEF x, d4
  <2>5. CASE t \in row /\ t \in col
    <3>1. row \union {t} = row /\ col \union {t} = col /\ k = OperatorTables(m)[2][2]
      BY <2>5 DEF Side
    <3>2. k[1][1] = 0 /\ k[1][2] = 0 /\ k[2][1] = 0 /\ k[2][2] = r * r
      <4> HIDE DEF k
      <4>1. /\ k[1][1] = m[2][1] * m[2][1] /\ k[1][2] = m[2][1] * m[2][2]
            /\ k[2][1] = m[2][2] * m[2][1] /\ k[2][2] = m[2][2] * m[2][2]
        BY <2>3, <3>1
      <4>2. QED BY <1>1, <4>1
    <3>3. D[row][col] = d4
      BY <3>1
    <3> HIDE DEF k, d1, d2, d3, d4, x
    <3>5. x = (r * r) * d4
      <4> DEFINE rr == r * r
      <4>1. x = (0 * d1 + 0 * d2) + (0 * d3 + rr * d4)
        BY <2>2, <3>2
      <4>2. rr \in Int
        OBVIOUS
      <4> HIDE DEF rr
      <4>3. x = rr * d4
        BY <2>1, <4>1, <4>2
      <4>4. QED BY <4>3 DEF rr
    <3>6. QED BY <2>5, <3>3, <3>5 DEF x
  <2>6. CASE t \notin row /\ t \in col
    <3>1. row \ {t} = row /\ col \union {t} = col /\ k = OperatorTables(m)[1][2]
      BY <2>6 DEF Side
    <3>2. k[1][1] = 0 /\ k[1][2] = p * r /\ k[2][1] = 0 /\ k[2][2] = q * r
      <4> HIDE DEF k
      <4>1. /\ k[1][1] = m[1][1] * m[2][1] /\ k[1][2] = m[1][1] * m[2][2]
            /\ k[2][1] = m[1][2] * m[2][1] /\ k[2][2] = m[1][2] * m[2][2]
        BY <2>3, <3>1
      <4>2. QED BY <1>1, <4>1
    <3>3. D[row][col] = d2
      BY <3>1
    <3> HIDE DEF k, d1, d2, d3, d4, x
    <3>5. x = (p * r) * d2
      <4> DEFINE pr == p * r
      <4>1. x = (0 * d1 + pr * d2) + (0 * d3 + 0 * d4)
        BY <2>2, <3>2
      <4>2. pr \in Int
        OBVIOUS
      <4> HIDE DEF pr
      <4>3. x = pr * d2
        BY <2>1, <4>1, <4>2
      <4>4. QED BY <4>3 DEF pr
    <3>6. QED BY <2>6, <3>3, <3>5 DEF x
  <2>7. CASE t \in row /\ t \notin col
    <3>1. row \union {t} = row /\ col \ {t} = col /\ k = OperatorTables(m)[2][1]
      BY <2>7 DEF Side
    <3>2. k[1][1] = 0 /\ k[1][2] = 0 /\ k[2][1] = r * p /\ k[2][2] = r * q
      <4> HIDE DEF k
      <4>1. /\ k[1][1] = m[2][1] * m[1][1] /\ k[1][2] = m[2][1] * m[1][2]
            /\ k[2][1] = m[2][2] * m[1][1] /\ k[2][2] = m[2][2] * m[1][2]
        BY <2>3, <3>1
      <4>2. QED BY <1>1, <4>1
    <3>3. D[row][col] = d3
      BY <3>1
    <3> HIDE DEF k, d1, d2, d3, d4, x
    <3>4. r * q = 0 /\ r * p = p * r
      OBVIOUS
    <3>5. x = (p * r) * d3
      <4> DEFINE pr == p * r
      <4>1. x = (0 * d1 + 0 * d2) + (pr * d3 + 0 * d4)
        BY <2>2, <3>2, <3>4
      <4>2. pr \in Int
        OBVIOUS
      <4> HIDE DEF pr
      <4>3. x = pr * d3
        BY <2>1, <4>1, <4>2
      <4>4. QED BY <4>3 DEF pr
    <3>6. QED BY <2>7, <3>3, <3>5 DEF x
  <2>8. QED BY <2>4, <2>5, <2>6, <2>7
<1>4. f.zero = p * p /\ f.fallen = q * q /\ f.across = p * r /\ f.one = r * r
  OBVIOUS
<1> HIDE DEF A, f
<1>5. Fades(A, D, t, f)
  BY <1>3, <1>4 DEF Fades
<1>6. QED BY <1>2, <1>5 DEF A, f, m

LEMMA FadesAdd ==
    ASSUME NEW D \in Densities, NEW t \in Slots, NEW f \in Fadings, NEW g \in Fadings, NEW y \in Int,
           NEW E, NEW A, NEW B, Fades(A, D, t, f), Fades(B, D, t, g),
           \A row, col \in BasisStates : E[row][col] = A[row][col] + y * B[row][col]
    PROVE  Fades(E, D, t, [zero |-> f.zero + y * g.zero, fallen |-> f.fallen + y * g.fallen,
                           across |-> f.across + y * g.across, one |-> f.one + y * g.one])
<1> DEFINE a1 == f.zero
           a2 == f.fallen
           a3 == f.across
           a4 == f.one
           b1 == g.zero
           b2 == g.fallen
           b3 == g.across
           b4 == g.one
           h == [zero |-> a1 + y * b1, fallen |-> a2 + y * b2, across |-> a3 + y * b3, one |-> a4 + y * b4]
<1>1. /\ a1 \in Int /\ a2 \in Int /\ a3 \in Int /\ a4 \in Int
      /\ b1 \in Int /\ b2 \in Int /\ b3 \in Int /\ b4 \in Int
  BY DEF Fadings
<1>2. h.zero = a1 + y * b1 /\ h.fallen = a2 + y * b2 /\ h.across = a3 + y * b3 /\ h.one = a4 + y * b4
  OBVIOUS
<1>3. \A a, b, u \in Int : a * u + y * (b * u) = (a + y * b) * u
  OBVIOUS
<1>4. ASSUME NEW row \in BasisStates, NEW col \in BasisStates
      PROVE  /\ t \notin row /\ t \notin col =>
                  E[row][col] = h.zero * D[row][col] + h.fallen * D[row \union {t}][col \union {t}]
             /\ t \in row /\ t \in col => E[row][col] = h.one * D[row][col]
             /\ ~ (t \in row <=> t \in col) => E[row][col] = h.across * D[row][col]
  <2> DEFINE r == row \union {t}
             c == col \union {t}
             u == D[row][col]
             v == D[r][c]
  <2>1. u \in Int /\ v \in Int
    BY BasisFacts, DensityFacts
  <2>2. CASE t \notin row /\ t \notin col
    <3>1. A[row][col] = a1 * u + a2 * v /\ B[row][col] = b1 * u + b2 * v
      BY <2>2 DEF Fades
    <3> HIDE DEF a1, a2, a3, a4, b1, b2, b3, b4, u, v, h, r, c
    <3>2. (a1 * u + a2 * v) + y * (b1 * u + b2 * v) = (a1 + y * b1) * u + (a2 + y * b2) * v
      BY <1>1, <2>1
    <3>3. E[row][col] = h.zero * u + h.fallen * v
      BY <1>2, <3>1, <3>2
    <3>4. QED BY <2>2, <3>3 DEF u, v, r, c
  <2>3. CASE t \in row /\ t \in col
    <3>1. A[row][col] = a4 * u /\ B[row][col] = b4 * u
      BY <2>3 DEF Fades
    <3> HIDE DEF a1, a2, a3, a4, b1, b2, b3, b4, u, v, h, r, c
    <3>2. E[row][col] = h.one * u
      BY <1>1, <1>2, <1>3, <2>1, <3>1
    <3>3. QED BY <2>3, <3>2 DEF u
  <2>4. CASE ~ (t \in row <=> t \in col)
    <3>1. A[row][col] = a3 * u /\ B[row][col] = b3 * u
      BY <2>4 DEF Fades
    <3> HIDE DEF a1, a2, a3, a4, b1, b2, b3, b4, u, v, h, r, c
    <3>2. E[row][col] = h.across * u
      BY <1>1, <1>2, <1>3, <2>1, <3>1
    <3>3. QED BY <2>4, <3>2 DEF u
  <2>5. QED BY <2>2, <2>3, <2>4
<1>5. Fades(E, D, t, h)
  <2> HIDE DEF h
  <2>1. QED BY <1>4 DEF Fades
<1>6. QED BY <1>5

\* A channel of two operators.
LEMMA TwoOperators ==
    ASSUME NEW D \in Densities, NEW t \in Slots, NEW m, NEW n, IsMatrix(m), IsMatrix(n), NEW y \in Nat,
           NEW channel, channel = <<[matrix |-> m, weight |-> 1], [matrix |-> n, weight |-> y]>>
    PROVE  /\ IsChannel(channel) /\ DOMAIN channel = 1 .. 2
           /\ ApplyChannel(D, t, channel) \in Densities
           /\ \A row, col \in BasisStates :
                 ApplyChannel(D, t, channel)[row][col]
                   = ApplyOperator(D, t, m)[row][col] + y * ApplyOperator(D, t, n)[row][col]
<1>1. /\ DOMAIN channel = {1, 2} /\ DOMAIN channel = 1 .. 2
      /\ channel[1].weight = 1 /\ channel[1].matrix = m
      /\ channel[2].weight = y /\ channel[2].matrix = n
  OBVIOUS
<1>2. IsChannel(channel)
  <2>1. IsFiniteSet(1 .. 2)
    <3>1. 1 \in Int /\ 2 \in Int
      OBVIOUS
    <3>2. QED BY <3>1, FS_Interval
  <2>2. \A k \in DOMAIN channel : channel[k].weight \in Nat /\ IsMatrix(channel[k].matrix)
    BY <1>1
  <2>3. QED BY <1>1, <2>1, <2>2 DEF IsChannel
<1>3. ApplyChannel(D, t, channel) \in Densities
  BY <1>2, ChannelFacts
<1>4. ASSUME NEW row \in BasisStates, NEW col \in BasisStates
      PROVE  ApplyChannel(D, t, channel)[row][col]
               = ApplyOperator(D, t, m)[row][col] + y * ApplyOperator(D, t, n)[row][col]
  <2> DEFINE T == Term(D, t, channel, row, col)
             a == ApplyOperator(D, t, m)[row][col]
             b == ApplyOperator(D, t, n)[row][col]
  <2>1. ApplyChannel(D, t, channel)[row][col] = Sum(T, {1, 2})
    BY <1>1, <1>2, ChannelFacts
  <2>2. T[1] = 1 * a /\ T[2] = y * b
    BY <1>1 DEF Term
  <2>3. a \in Int /\ b \in Int
    BY OperatorFacts, DensityFacts
  <2> HIDE DEF T, a, b
  <2>4. T[1] \in Int /\ T[2] \in Int /\ T[1] = a
    BY <2>2, <2>3
  <2>5. Sum(T, {1, 2}) = T[1] + T[2]
    <3>1. 1 # 2
      OBVIOUS
    <3>2. QED BY <2>4, <3>1, SumOfTwo
  <2>6. QED BY <2>1, <2>2, <2>4, <2>5 DEF a, b
<1>5. QED BY <1>1, <1>2, <1>3, <1>4

LEMMA PowerOfDouble == \A d \in Nat : PowerOfTwo[2 * d] = PowerOfTwo[d] * PowerOfTwo[d]
<1> DEFINE Twice == {d \in Nat : PowerOfTwo[2 * d] = PowerOfTwo[d] * PowerOfTwo[d]}
<1>1. 0 \in Twice
  <2>1. 2 * 0 = 0
    OBVIOUS
  <2>2. QED BY <2>1, PowerFacts
<1>2. ASSUME NEW d \in Nat, d \in Twice PROVE d + 1 \in Twice
  <2> DEFINE e == 2 * d
             p == PowerOfTwo[d]
             q == PowerOfTwo[e]
  <2>1. e \in Nat /\ 2 * (d + 1) = (e + 1) + 1 /\ e + 1 \in Nat
    OBVIOUS
  <2>2. q = p * p
    BY <1>2
  <2> HIDE DEF e
  <2>3. PowerOfTwo[2 * (d + 1)] = 2 * PowerOfTwo[e + 1] /\ PowerOfTwo[e + 1] = 2 * q
          /\ PowerOfTwo[d + 1] = 2 * p /\ p \in Nat
    BY <2>1, PowerFacts
  <2> HIDE DEF p, q
  <2>4. 2 * (2 * (p * p)) = (2 * p) * (2 * p)
    BY <2>3
  <2>5. QED BY <2>2, <2>3, <2>4
<1>3. Nat \subseteq Twice
  <2> HIDE DEF Twice
  <2>1. QED BY <1>1, <1>2, SetInduction
<1>4. QED BY <1>3

AmplitudeFading(p) == [zero |-> p * p, fallen |-> p * p - 1, across |-> p, one |-> 1]
PhaseFading(p) == [zero |-> p * p, fallen |-> 0, across |-> p, one |-> p * p]

\* Both dampings fade a slot.
LEMMA DampingFades ==
    ASSUME NEW D \in Densities, NEW t \in Slots, NEW d \in Nat, NEW p, p = PowerOfTwo[d]
    PROVE  /\ IsChannel(AmplitudeDamping(d)) /\ IsChannel(PhaseDamping(d))
           /\ DOMAIN AmplitudeDamping(d) = 1 .. 2 /\ DOMAIN PhaseDamping(d) = 1 .. 2
           /\ ApplyChannel(D, t, AmplitudeDamping(d)) \in Densities
           /\ ApplyChannel(D, t, PhaseDamping(d)) \in Densities
           /\ Fades(ApplyChannel(D, t, AmplitudeDamping(d)), D, t, AmplitudeFading(p))
           /\ Fades(ApplyChannel(D, t, PhaseDamping(d)), D, t, PhaseFading(p))
<1> DEFINE y == PowerOfTwo[2 * d] - 1
           m == Triangular(p, 0, 1)
           down == Triangular(0, 1, 0)
           kept == Triangular(0, 0, 1)
           f == [zero |-> p * p, fallen |-> 0 * 0, across |-> p * 1, one |-> 1 * 1]
           g == [zero |-> 0 * 0, fallen |-> 1 * 1, across |-> 0 * 0, one |-> 0 * 0]
           h == [zero |-> 0 * 0, fallen |-> 0 * 0, across |-> 0 * 1, one |-> 1 * 1]
<1>1. p \in Nat \ {0} /\ p \in Int /\ p * p \in Nat \ {0}
  <2>1. p \in Nat \ {0}
    BY PowerFacts
  <2>2. QED BY <2>1
<1>2. y = p * p - 1 /\ y \in Nat
  BY <1>1, PowerOfDouble
<1>3. /\ AmplitudeDamping(d) = <<[matrix |-> m, weight |-> 1], [matrix |-> down, weight |-> y]>>
      /\ PhaseDamping(d) = <<[matrix |-> m, weight |-> 1], [matrix |-> kept, weight |-> y]>>
  BY DEF AmplitudeDamping, PhaseDamping, Triangular
<1> HIDE DEF y
<1>4. /\ IsMatrix(m) /\ Fades(ApplyOperator(D, t, m), D, t, f)
      /\ IsMatrix(down) /\ Fades(ApplyOperator(D, t, down), D, t, g)
      /\ IsMatrix(kept) /\ Fades(ApplyOperator(D, t, kept), D, t, h)
  <2>1. p * 0 = 0 /\ 0 * 1 = 0 /\ 1 * 0 = 0 /\ 0 * 0 = 0 /\ 0 \in Int /\ 1 \in Int
    BY <1>1
  <2>2. IsMatrix(m) /\ Fades(ApplyOperator(D, t, m), D, t, f)
    BY <1>1, <2>1, TriangularFades
  <2>3. IsMatrix(down) /\ Fades(ApplyOperator(D, t, down), D, t, g)
    BY <2>1, TriangularFades
  <2>4. IsMatrix(kept) /\ Fades(ApplyOperator(D, t, kept), D, t, h)
    BY <2>1, TriangularFades
  <2>5. QED BY <2>2, <2>3, <2>4
<1> HIDE DEF m, down, kept
<1>5. /\ IsChannel(AmplitudeDamping(d)) /\ DOMAIN AmplitudeDamping(d) = 1 .. 2
      /\ ApplyChannel(D, t, AmplitudeDamping(d)) \in Densities
      /\ \A row, col \in BasisStates :
            ApplyChannel(D, t, AmplitudeDamping(d))[row][col]
              = ApplyOperator(D, t, m)[row][col] + y * ApplyOperator(D, t, down)[row][col]
  BY <1>2, <1>3, <1>4, TwoOperators
<1>6. /\ IsChannel(PhaseDamping(d)) /\ DOMAIN PhaseDamping(d) = 1 .. 2
      /\ ApplyChannel(D, t, PhaseDamping(d)) \in Densities
      /\ \A row, col \in BasisStates :
            ApplyChannel(D, t, PhaseDamping(d))[row][col]
              = ApplyOperator(D, t, m)[row][col] + y * ApplyOperator(D, t, kept)[row][col]
  BY <1>2, <1>3, <1>4, TwoOperators
<1> DEFINE E == ApplyChannel(D, t, AmplitudeDamping(d))
           G == ApplyChannel(D, t, PhaseDamping(d))
           x == ApplyOperator(D, t, m)
           u == ApplyOperator(D, t, down)
           v == ApplyOperator(D, t, kept)
<1>7. f \in Fadings /\ g \in Fadings /\ h \in Fadings
  BY <1>1 DEF Fadings
<1>8. Fades(E, D, t, AmplitudeFading(p))
  <2> DEFINE k == [zero |-> f.zero + y * g.zero, fallen |-> f.fallen + y * g.fallen,
                   across |-> f.across + y * g.across, one |-> f.one + y * g.one]
  <2>1. k = AmplitudeFading(p)
    BY <1>1, <1>2 DEF AmplitudeFading
  <2>2. \A row, col \in BasisStates : E[row][col] = x[row][col] + y * u[row][col]
    BY <1>5
  <2>3. Fades(x, D, t, f) /\ Fades(u, D, t, g) /\ y \in Int
    BY <1>2, <1>4
  <2> HIDE DEF f, g, E, x, u
  <2>4. Fades(E, D, t, k)
    BY <1>7, <2>2, <2>3, FadesAdd
  <2> HIDE DEF k
  <2>5. QED BY <2>1, <2>4
<1>9. Fades(G, D, t, PhaseFading(p))
  <2> DEFINE k == [zero |-> f.zero + y * h.zero, fallen |-> f.fallen + y * h.fallen,
                   across |-> f.across + y * h.across, one |-> f.one + y * h.one]
  <2>1. k = PhaseFading(p)
    BY <1>1, <1>2 DEF PhaseFading
  <2>2. \A row, col \in BasisStates : G[row][col] = x[row][col] + y * v[row][col]
    BY <1>6
  <2>3. Fades(x, D, t, f) /\ Fades(v, D, t, h) /\ y \in Int
    BY <1>2, <1>4
  <2> HIDE DEF f, h, G, x, v
  <2>4. Fades(G, D, t, k)
    BY <1>7, <2>2, <2>3, FadesAdd
  <2> HIDE DEF k
  <2>5. QED BY <2>1, <2>4
<1>10. QED BY <1>5, <1>6, <1>8, <1>9

\* The decay of a slot over a time.
DecayFor(D, t, d, decay) ==
    LET damped == IF "amplitude" \in decay THEN ApplyChannel(D, t, AmplitudeDamping(d)) ELSE D
    IN  IF "phase" \in decay THEN ApplyChannel(damped, t, PhaseDamping(d)) ELSE damped

BothFading(p) == [zero |-> (p * p) * (p * p), fallen |-> (p * p) * (p * p - 1),
                  across |-> p * p, one |-> p * p]
NoFading == [zero |-> 1, fallen |-> 0, across |-> 1, one |-> 1]

DecayFading(decay, p) ==
    IF "amplitude" \in decay
    THEN IF "phase" \in decay THEN BothFading(p) ELSE AmplitudeFading(p)
    ELSE IF "phase" \in decay THEN PhaseFading(p) ELSE NoFading

LEMMA FadingTypes ==
    ASSUME NEW p \in Nat
    PROVE  /\ AmplitudeFading(p) \in Fadings /\ PhaseFading(p) \in Fadings
           /\ BothFading(p) \in Fadings /\ NoFading \in Fadings
<1>1. p * p \in Int /\ (p * p) * (p * p) \in Int /\ p * p - 1 \in Int /\ (p * p) * (p * p - 1) \in Int
  BY IntegerOperations
<1>2. QED BY <1>1 DEF AmplitudeFading, PhaseFading, BothFading, NoFading, Fadings

LEMMA NoFadingFades ==
    ASSUME NEW D \in Densities, NEW t \in Slots
    PROVE  Fades(D, D, t, NoFading)
<1>1. ASSUME NEW row \in BasisStates, NEW col \in BasisStates
      PROVE  /\ D[row][col] = 1 * D[row][col] + 0 * D[row \union {t}][col \union {t}]
             /\ D[row][col] = 1 * D[row][col]
  <2>1. D[row][col] \in Int /\ D[row \union {t}][col \union {t}] \in Int
    BY BasisFacts, DensityFacts
  <2>2. QED BY <2>1
<1>2. QED BY <1>1 DEF Fades, NoFading

LEMMA DecayFades ==
    ASSUME NEW D \in Densities, NEW t \in Slots, NEW d \in Nat, NEW decay, NEW p, p = PowerOfTwo[d]
    PROVE  /\ DecayFor(D, t, d, decay) \in Densities
           /\ Fades(DecayFor(D, t, d, decay), D, t, DecayFading(decay, p))
           /\ p \in Nat /\ DecayFading(decay, p) \in Fadings
<1> DEFINE A == ApplyChannel(D, t, AmplitudeDamping(d))
           damped == IF "amplitude" \in decay THEN A ELSE D
<1>1. p \in Nat
  BY PowerFacts
<1>2. DecayFading(decay, p) \in Fadings
  BY <1>1, FadingTypes DEF DecayFading
<1>3. A \in Densities /\ Fades(A, D, t, AmplitudeFading(p))
  BY DampingFades
<1>4. damped \in Densities
  BY <1>3
<1>5. DecayFor(D, t, d, decay)
        = IF "phase" \in decay THEN ApplyChannel(damped, t, PhaseDamping(d)) ELSE damped
  BY DEF DecayFor
<1>6. Fades(damped, D, t, IF "amplitude" \in decay THEN AmplitudeFading(p) ELSE NoFading)
  BY <1>3, NoFadingFades
<1>7. CASE "phase" \notin decay
  BY <1>1, <1>2, <1>4, <1>5, <1>6, <1>7 DEF DecayFading
<1>8. CASE "phase" \in decay
  <2> DEFINE G == ApplyChannel(damped, t, PhaseDamping(d))
  <2>1. G \in Densities /\ Fades(G, damped, t, PhaseFading(p))
    <3> HIDE DEF damped
    <3>1. QED BY <1>4, DampingFades
  <2>2. CASE "amplitude" \notin decay
    <3>1. damped = D /\ DecayFading(decay, p) = PhaseFading(p)
      BY <1>8, <2>2 DEF DecayFading
    <3>2. QED BY <1>1, <1>2, <1>5, <1>8, <2>1, <3>1
  <2>3. CASE "amplitude" \in decay
    <3> DEFINE f == AmplitudeFading(p)
               g == PhaseFading(p)
               k == [zero |-> g.zero * f.zero, fallen |-> g.zero * f.fallen + g.fallen * f.one,
                     across |-> g.across * f.across, one |-> g.one * f.one]
    <3>1. damped = A /\ DecayFading(decay, p) = BothFading(p)
      BY <1>8, <2>3 DEF DecayFading
    <3>2. k = BothFading(p)
      <4> DEFINE pp == p * p
      <4>1. pp \in Int
        BY <1>1
      <4>2. /\ f.zero = pp /\ f.fallen = pp - 1 /\ f.across = p /\ f.one = 1
            /\ g.zero = pp /\ g.fallen = 0 /\ g.across = p /\ g.one = pp
        BY DEF AmplitudeFading, PhaseFading
      <4>3. BothFading(p) = [zero |-> pp * pp, fallen |-> pp * (pp - 1), across |-> pp, one |-> pp]
        BY DEF BothFading
      <4>4. p * p = pp
        OBVIOUS
      <4> HIDE DEF f, g, pp
      <4>5. pp * (pp - 1) + 0 * 1 = pp * (pp - 1) /\ pp * 1 = pp
        BY <4>1
      <4>6. QED BY <4>2, <4>3, <4>4, <4>5
    <3>3. f \in Fadings /\ g \in Fadings
      BY <1>1, FadingTypes
    <3> HIDE DEF f, g
    <3>4. Fades(G, D, t, k)
      <4>1. Fades(damped, D, t, f)
        BY <1>3, <3>1 DEF f
      <4>2. Fades(G, damped, t, g)
        BY <2>1 DEF g
      <4> HIDE DEF G, damped
      <4>3. QED BY <1>4, <2>1, <3>3, <4>1, <4>2, FadesOfFades
    <3> HIDE DEF k
    <3>5. QED BY <1>1, <1>2, <1>5, <1>8, <2>1, <3>1, <3>2, <3>4
  <2>4. QED BY <2>2, <2>3
<1>9. QED BY <1>7, <1>8

LEMMA DecayOfNothing ==
    ASSUME NEW D \in Densities, NEW t \in Slots, NEW decay
    PROVE  DecayFor(D, t, 0, decay) = D
<1> DEFINE E == DecayFor(D, t, 0, decay)
<1>1. PowerOfTwo[0] = 1
  BY PowerFacts
<1>2. E \in Densities /\ Fades(E, D, t, DecayFading(decay, 1))
  BY <1>1, DecayFades
<1>3. DecayFading(decay, 1) = NoFading
  BY DEF DecayFading, AmplitudeFading, PhaseFading, BothFading, NoFading
<1> HIDE DEF E
<1>4. E = D
  BY <1>2, <1>3, NoFadingFades, FadesAgree
<1>5. QED BY <1>4 DEF E

LEMMA FadingOneMore ==
    ASSUME NEW decay, NEW p \in Nat, NEW f, NEW g, f = DecayFading(decay, p), g = DecayFading(decay, 2)
    PROVE  [zero |-> g.zero * f.zero, fallen |-> g.zero * f.fallen + g.fallen * f.one,
            across |-> g.across * f.across, one |-> g.one * f.one] = DecayFading(decay, 2 * p)
<1> DEFINE pp == p * p
<1>1. pp \in Int /\ (2 * p) * (2 * p) = 4 * pp
  OBVIOUS
<1>2. CASE "amplitude" \notin decay /\ "phase" \notin decay
  BY <1>2 DEF DecayFading, NoFading
<1>3. CASE "amplitude" \notin decay /\ "phase" \in decay
  <2>1. /\ f = [zero |-> pp, fallen |-> 0, across |-> p, one |-> pp]
        /\ g = [zero |-> 4, fallen |-> 0, across |-> 2, one |-> 4]
        /\ DecayFading(decay, 2 * p) = [zero |-> 4 * pp, fallen |-> 0, across |-> 2 * p, one |-> 4 * pp]
    BY <1>1, <1>3 DEF DecayFading, PhaseFading
  <2> HIDE DEF pp
  <2>2. /\ f.zero = pp /\ f.fallen = 0 /\ f.across = p /\ f.one = pp
        /\ g.zero = 4 /\ g.fallen = 0 /\ g.across = 2 /\ g.one = 4
    BY <2>1
  <2>3. 4 * 0 + 0 * pp = 0
    BY <1>1
  <2>4. QED BY <2>1, <2>2, <2>3
<1>4. CASE "amplitude" \in decay /\ "phase" \notin decay
  <2>1. /\ f = [zero |-> pp, fallen |-> pp - 1, across |-> p, one |-> 1]
        /\ g = [zero |-> 4, fallen |-> 3, across |-> 2, one |-> 1]
        /\ DecayFading(decay, 2 * p) = [zero |-> 4 * pp, fallen |-> 4 * pp - 1, across |-> 2 * p, one |-> 1]
    BY <1>1, <1>4 DEF DecayFading, AmplitudeFading
  <2> HIDE DEF pp
  <2>2. /\ f.zero = pp /\ f.fallen = pp - 1 /\ f.across = p /\ f.one = 1
        /\ g.zero = 4 /\ g.fallen = 3 /\ g.across = 2 /\ g.one = 1
    BY <2>1
  <2>3. 4 * (pp - 1) + 3 * 1 = 4 * pp - 1 /\ 1 * 1 = 1
    BY <1>1
  <2>4. QED BY <2>1, <2>2, <2>3
<1>5. CASE "amplitude" \in decay /\ "phase" \in decay
  <2>1. /\ f = [zero |-> pp * pp, fallen |-> pp * (pp - 1), across |-> pp, one |-> pp]
        /\ g = [zero |-> 16, fallen |-> 12, across |-> 4, one |-> 4]
        /\ DecayFading(decay, 2 * p) = [zero |-> (4 * pp) * (4 * pp), fallen |-> (4 * pp) * (4 * pp - 1),
                                        across |-> 4 * pp, one |-> 4 * pp]
    BY <1>1, <1>5 DEF DecayFading, BothFading
  <2> HIDE DEF pp
  <2>2. /\ f.zero = pp * pp /\ f.fallen = pp * (pp - 1) /\ f.across = pp /\ f.one = pp
        /\ g.zero = 16 /\ g.fallen = 12 /\ g.across = 4 /\ g.one = 4
    BY <2>1
  <2>3. /\ 16 * (pp * pp) = (4 * pp) * (4 * pp)
        /\ 16 * (pp * (pp - 1)) + 12 * pp = (4 * pp) * (4 * pp - 1)
    BY <1>1
  <2>4. QED BY <2>1, <2>2, <2>3
<1>6. QED BY <1>2, <1>3, <1>4, <1>5

\* Decaying for one more unit of time.
LEMMA DecayOneMore ==
    ASSUME NEW D \in Densities, NEW t \in Slots, NEW d \in Nat, NEW decay
    PROVE  DecayFor(DecayFor(D, t, d, decay), t, 1, decay) = DecayFor(D, t, d + 1, decay)
<1> DEFINE p == PowerOfTwo[d]
           E == DecayFor(D, t, d, decay)
           G == DecayFor(E, t, 1, decay)
           H == DecayFor(D, t, d + 1, decay)
           f == DecayFading(decay, p)
           g == DecayFading(decay, 2)
           k == DecayFading(decay, 2 * p)
<1>1. PowerOfTwo[1] = 2 /\ PowerOfTwo[d + 1] = 2 * p /\ p \in Nat /\ d + 1 \in Nat
  <2>1. 0 + 1 = 1
    OBVIOUS
  <2>2. QED BY <2>1, PowerFacts
<1>2. E \in Densities /\ Fades(E, D, t, f) /\ f \in Fadings
  BY DecayFades
<1>3. G \in Densities /\ Fades(G, E, t, g) /\ g \in Fadings
  <2> HIDE DEF E
  <2>1. QED BY <1>1, <1>2, DecayFades
<1>4. H \in Densities /\ Fades(H, D, t, k)
  BY <1>1, DecayFades
<1>5. [zero |-> g.zero * f.zero, fallen |-> g.zero * f.fallen + g.fallen * f.one,
       across |-> g.across * f.across, one |-> g.one * f.one] = k
  <2> HIDE DEF p
  <2>1. QED BY <1>1, FadingOneMore
<1> HIDE DEF E, G, H, f, g, k
<1>6. Fades(G, D, t, k)
  <2>1. Fades(G, D, t, [zero |-> g.zero * f.zero, fallen |-> g.zero * f.fallen + g.fallen * f.one,
                        across |-> g.across * f.across, one |-> g.one * f.one])
    BY <1>2, <1>3, FadesOfFades
  <2>2. QED BY <1>5, <2>1
<1>7. G = H
  BY <1>3, <1>4, <1>6, FadesAgree
<1>8. QED BY <1>7 DEF E, G, H

DecayOn(t, decay) == [D \in Densities |-> DecayFor(D, t, 1, decay)]

LEMMA DecayIsBuilt ==
    ASSUME NEW t \in Slots, NEW decay
    PROVE  Built(DecayOn(t, decay), {t})
<1> DEFINE A == IF "phase" \in decay THEN ChannelOn(t, PhaseDamping(1)) ELSE IdentityOn
           B == IF "amplitude" \in decay THEN ChannelOn(t, AmplitudeDamping(1)) ELSE IdentityOn
<1>1. GroundDensity \in Densities
  BY DEF GroundDensity, Densities, States
<1>2. IsChannel(PhaseDamping(1)) /\ IsChannel(AmplitudeDamping(1))
  BY <1>1, DampingFades
<1>3. /\ ActsOn(ChannelOn(t, PhaseDamping(1)), t) /\ ActsOn(ChannelOn(t, AmplitudeDamping(1)), t)
  BY <1>2, ChannelActs
<1>4. IdentityOn \in SuperOperators
  BY DEF IdentityOn, SuperOperators
<1>5. A \in SuperOperators /\ B \in SuperOperators /\ Elementary(A, {t}) /\ Elementary(B, {t})
  BY <1>3, <1>4 DEF ActsOn, Elementary
<1>6. ASSUME NEW D \in Densities PROVE DecayFor(D, t, 1, decay) = A[B[D]]
  <2>1. B[D] = IF "amplitude" \in decay THEN ApplyChannel(D, t, AmplitudeDamping(1)) ELSE D
    BY DEF ChannelOn, IdentityOn
  <2>2. B[D] \in Densities
    BY <1>5 DEF SuperOperators
  <2> HIDE DEF B
  <2>3. A[B[D]] = IF "phase" \in decay THEN ApplyChannel(B[D], t, PhaseDamping(1)) ELSE B[D]
    BY <2>2 DEF ChannelOn, IdentityOn
  <2> HIDE DEF A
  <2>4. QED BY <2>1, <2>3 DEF DecayFor
<1> HIDE DEF A, B
<1>7. DecayOn(t, decay) = [D \in Densities |-> A[B[D]]]
  BY <1>6 DEF DecayOn
<1>8. QED BY <1>5, <1>7 DEF Built

\* What the density engine makes of a matrix at an operation.
EvolvedBy(D, operation) ==
    CASE operation.opcode = "MEASURE" -> D
      [] operation.opcode = "RESET" -> DensityReset(D, operation.targets[1])
      [] operation.opcode \in DOMAIN request.noise ->
            ApplyChannel(IdealDensity(D, operation), operation.targets[1], request.noise[operation.opcode])
      [] OTHER -> IdealDensity(D, operation)

\* It is built on the operation's slots.
LEMMA OperationIsBuilt ==
    ASSUME Arguments, NEW operation \in AllocatedOperations, NEW S, operation.targets[1] \in S,
           operation.opcode = "CX" => operation.control \in S
    PROVE  Built([D \in Densities |-> EvolvedBy(D, operation)], S)
<1> DEFINE t == operation.targets[1]
           c == operation.control
           g == operation.opcode
           F == [D \in Densities |-> EvolvedBy(D, operation)]
           Ideal == [D \in Densities |-> IdealDensity(D, operation)]
<1>1. t \in Slots /\ c \in Slots
  BY FirstTarget DEF AllocatedOperations
<1>2. g \in DOMAIN request.noise => g \in DOMAIN Matrix /\ IsChannel(request.noise[g])
  BY NoiseFacts
<1>3. DOMAIN Matrix = {"X", "H", "Z", "RY"}
  BY DEF Matrix
<1>4. CASE g = "MEASURE"
  <2>1. F = IdentityOn
    BY <1>2, <1>3, <1>4 DEF EvolvedBy, IdentityOn
  <2>2. IdentityOn \in SuperOperators /\ Elementary(IdentityOn, S)
    BY DEF IdentityOn, SuperOperators, Elementary
  <2>3. QED BY <2>1, <2>2, ElementaryIsBuilt
<1>5. CASE g = "RESET"
  <2>1. F = ResetOn(t)
    BY <1>2, <1>3, <1>5 DEF EvolvedBy, ResetOn
  <2>2. ActsOn(ResetOn(t), t)
    BY <1>1, ResetActs
  <2>3. F \in SuperOperators /\ Elementary(F, S)
    BY <2>1, <2>2 DEF ActsOn, Elementary
  <2> HIDE DEF F
  <2>4. QED BY <2>3, ElementaryIsBuilt DEF F
<1>6. CASE g \notin {"MEASURE", "RESET"}
  <2>1. g \in DOMAIN Matrix \union {"CX"}
    BY <1>6, OpcodeIsKnown DEF Gates
  <2>2. Ideal \in SuperOperators /\ Elementary(Ideal, S)
    <3>1. CASE g = "CX"
      <4>1. Ideal = ExchangeOn(c, t)
        BY <3>1 DEF IdealDensity, ExchangeOn
      <4>2. ExchangeOn(c, t) \in SuperOperators
        BY <1>1, ExchangeFacts DEF ExchangeOn, SuperOperators
      <4>3. c \in S /\ t \in S
        BY <3>1
      <4> HIDE DEF Ideal
      <4>4. QED BY <4>1, <4>2, <4>3 DEF Elementary
    <3>2. CASE g # "CX"
      <4>1. IsMatrix(Matrix[g])
        BY <2>1, <3>2, MatrixOfGate
      <4>2. Ideal = LocalOn(t, Matrix[g])
        BY <3>2 DEF IdealDensity, LocalOn
      <4>3. ActsOn(Ideal, t)
        BY <1>1, <4>1, <4>2, LocalActs
      <4> HIDE DEF Ideal
      <4>4. QED BY <4>3 DEF ActsOn, Elementary
    <3>3. QED BY <3>1, <3>2
  <2>3. CASE g \notin DOMAIN request.noise
    <3>1. F = Ideal
      BY <1>6, <2>3 DEF EvolvedBy
    <3> HIDE DEF F, Ideal
    <3>2. QED BY <2>2, <3>1, ElementaryIsBuilt DEF F
  <2>4. CASE g \in DOMAIN request.noise
    <3> DEFINE N == ChannelOn(t, request.noise[g])
    <3>1. ActsOn(N, t)
      BY <1>1, <1>2, <2>4, ChannelActs
    <3>2. N \in SuperOperators /\ Elementary(N, S)
      BY <3>1 DEF ActsOn, Elementary
    <3>3. ASSUME NEW D \in Densities PROVE EvolvedBy(D, operation) = N[Ideal[D]]
      <4>1. EvolvedBy(D, operation) = ApplyChannel(IdealDensity(D, operation), t, request.noise[g])
        BY <1>6, <2>4 DEF EvolvedBy
      <4>2. Ideal[D] = IdealDensity(D, operation) /\ Ideal[D] \in Densities
        BY <2>2 DEF SuperOperators
      <4>3. QED BY <4>1, <4>2 DEF ChannelOn
    <3> HIDE DEF N, Ideal
    <3>4. F = [D \in Densities |-> N[Ideal[D]]]
      BY <3>3
    <3>5. QED BY <2>2, <3>2, <3>4 DEF Built
  <2>5. QED BY <2>3, <2>4
<1>7. QED BY <1>4, <1>5, <1>6


-----------------------------------------------------------------------------
(* Planned runs of a backend: by the reference engines and by the loops of the *)
(* NumPy backends, which share their account of what was observed and refuse   *)
(* at the same operations.                                                     *)

\* What was planned, and what the entry checked.
PlanIInv ==
    /\ backend \in DOMAIN Capabilities /\ Engine = Capabilities[backend].engine
    /\ ~ request.traced /\ trace = <<>>
    /\ status \in Statuses \union {"unsupported query", "options refused"}
    /\ status # "invalid trace"
    /\ status \notin {"requested", "unsupported query"} => plan # NoEvidence
    /\ status = "unsupported query" => plan = NoEvidence
    /\ status = "options refused" => options \notin Capabilities[backend].options
    /\ status \notin {"requested", "unsupported query", "options refused"} =>
          options \in Capabilities[backend].options

BackendIInv == ControlIInv /\ PlanIInv

Backends == {"reference-state-vector", "numpy-cpu-state-vector", "reference-sampled-trajectory",
             "reference-density-matrix", "numpy-cpu-density-matrix"}

\* A backend declares reset exactly if its engine takes it.
LEMMA CapabilityFacts ==
    /\ DOMAIN Capabilities = Backends
    /\ \A b \in Backends :
          /\ Capabilities[b].engine \in {"exact", "sampled", "density"}
          /\ b \in Resetting <=> Capabilities[b].engine # "exact"
    /\ Capabilities["numpy-cpu-state-vector"].engine = "exact"
    /\ Capabilities["numpy-cpu-density-matrix"].engine = "density"
BY DEF Capabilities, Capability, Backends, Resetting

LEMMA UntracedIsAccepted ==
    ASSUME ~ request.traced
    PROVE  TraceRefusal = "none" /\ (trace = <<>> => TraceAccepted)
<1>1. DOMAIN <<>> = {}
  BY EmptySeq
<1>2. QED BY <1>1 DEF TraceRefusal, TraceAccepted

-----------------------------------------------------------------------------
LEMMA InitEstablishesBackend == BackendInit => BackendIInv
BY InitEstablishesControl
   DEF BackendInit, BackendIInv, PlanIInv, Carried, ExecutionInit, Statuses, Engine

LEMMA PlanKeepsBackend == BackendIInv /\ PlanRun => BackendIInv'
<1> SUFFICES ASSUME BackendIInv, PlanRun PROVE BackendIInv'
  OBVIOUS
<1>1. /\ status = "requested" /\ plan = NoEvidence
      /\ \/ plan' = [backend |-> backend, query |-> query] /\ status' = "requested"
         \/ status' = "unsupported query" /\ plan' = NoEvidence
      /\ UNCHANGED <<circuit, request, pc, observed, trace, backend, options>>
  BY DEF PlanRun, submission
<1>2. ControlIInv'
  <2>1. Progress'
    BY <1>1 DEF BackendIInv, ControlIInv, Progress, Arguments, Engine, Measures, Late, ResetsAt,
                Acts
  <2>2. Stopped'
    BY <1>1 DEF Stopped
  <2>3. QED BY <2>1, <2>2 DEF ControlIInv
<1>3. Engine' = Engine
  BY <1>1 DEF Engine
<1>4. PlanIInv'
  BY <1>1, <1>3 DEF BackendIInv, PlanIInv, Statuses
<1>5. QED BY <1>2, <1>4 DEF BackendIInv

LEMMA ExecuteKeepsBackend == BackendIInv /\ ExecuteRun => BackendIInv'
<1> SUFFICES ASSUME BackendIInv, ExecuteRun PROVE BackendIInv'
  OBVIOUS
<1>1. /\ status = "requested" /\ plan # NoEvidence
      /\ status' = IF options \in Capabilities[backend].options THEN "running"
                   ELSE "options refused"
      /\ UNCHANGED <<circuit, request, pc, observed, trace, backend, options, plan>>
  BY DEF ExecuteRun, submission
<1>2. Progress' /\ TraceRefusal' = TraceRefusal /\ Engine' = Engine
  BY <1>1, EndingKeepsProgress DEF BackendIInv, ControlIInv
<1>3. TraceRefusal = "none"
  BY UntracedIsAccepted DEF BackendIInv, PlanIInv
<1>4. Stopped'
  BY <1>1, <1>2, <1>3 DEF Stopped
<1>5. PlanIInv'
  BY <1>1, <1>2 DEF BackendIInv, PlanIInv, Statuses
<1>6. QED BY <1>2, <1>4, <1>5 DEF BackendIInv, ControlIInv

\* A step of a loop leaves the arguments, the plan and the empty trace.
LEMMA InLoopKeepsPlan ==
    ASSUME PlanIInv, status = "running", status' \in Statuses \ {"requested", "invalid trace"},
           UNCHANGED <<request, trace, backend, options, plan>>
    PROVE  PlanIInv'
<1>1. Engine' = Engine
  BY DEF Engine
<1>2. QED BY <1>1 DEF PlanIInv, Statuses

LEMMA ReferenceKeepsBackend == BackendIInv /\ ReferenceStep => BackendIInv'
<1> SUFFICES ASSUME BackendIInv, ReferenceStep PROVE BackendIInv'
  OBVIOUS
<1>1. LoopStep /\ UNCHANGED <<backend, options, plan>>
  BY DEF ReferenceStep, LoopStep, submission
<1>2. ControlIInv'
  BY <1>1, LoopKeepsControl DEF BackendIInv
<1>3. ~ request.traced /\ TraceAccepted
  BY UntracedIsAccepted DEF BackendIInv, PlanIInv
<1>4. status = "running" /\ UNCHANGED <<request, trace>>
        /\ status' \in Statuses \ {"requested", "invalid trace"}
  <2>1. CASE RefuseReset \/ RefuseEvolution \/ DrawBeyondMass
    BY <2>1 DEF RefuseReset, RefuseEvolution, DrawBeyondMass, CanEvolve, Running, Abort, Statuses
  <2>2. CASE ExactOperation \/ DensityOperation \/ SampledGate \/ SampledMeasure \/ SampledReset
    BY <1>3, <2>2 DEF ExactOperation, DensityOperation, SampledGate, SampledMeasure, SampledReset,
                      CanEvolve, Running, Captured, Statuses
  <2>3. CASE FinishShot
    BY <2>3 DEF FinishShot, Statuses
  <2>4. CASE FinishExecution
    BY <1>3, <2>4 DEF FinishExecution, Statuses
  <2>5. QED BY <1>1, <2>1, <2>2, <2>3, <2>4 DEF LoopStep
<1>5. QED BY <1>1, <1>2, <1>4, InLoopKeepsPlan DEF BackendIInv

LEMMA NumpyKeepsBackend == BackendIInv /\ NumpyStep => BackendIInv'
<1> SUFFICES ASSUME BackendIInv, NumpyStep PROVE BackendIInv'
  OBVIOUS
<1>1. /\ OnNumpyVector => Running /\ Engine = "exact"
      /\ OnNumpyDensity => Running /\ Engine = "density"
      /\ OnNumpy => Engine # "sampled"
  BY CapabilityFacts DEF OnNumpyVector, OnNumpyDensity, OnNumpy, BackendIInv, PlanIInv
<1>2. CASE NumpyRefuseReset
  <2>1. Running /\ Engine = "exact" /\ Operation.opcode = "RESET" /\ Abort("A203")
            /\ UNCHANGED <<backend, options, plan>>
    BY <1>1, <1>2 DEF NumpyRefuseReset, NumpyAbort, submission
  <2>2. ControlIInv'
    BY <2>1, RefusingResetKeepsControl DEF BackendIInv
  <2>3. PlanIInv'
    BY <2>1, InLoopKeepsPlan DEF BackendIInv, Running, Abort, Statuses
  <2>4. QED BY <2>2, <2>3 DEF BackendIInv
<1>3. CASE NumpyRefuseEvolution
  <2>1. /\ Running /\ Engine # "sampled" /\ FollowsObservation /\ Abort("A202")
        /\ Engine = "exact" => Operation.opcode # "RESET"
        /\ UNCHANGED <<backend, options, plan>>
    BY <1>1, <1>3 DEF NumpyRefuseEvolution, NumpyAbort, submission
  <2>2. ControlIInv'
    BY <2>1, RefusingEvolutionKeepsControl DEF BackendIInv
  <2>3. PlanIInv'
    BY <2>1, InLoopKeepsPlan DEF BackendIInv, Running, Abort, Statuses
  <2>4. QED BY <2>2, <2>3 DEF BackendIInv
<1>4. CASE NumpyVectorOperation \/ NumpyDensityOperation
  <2>1. /\ Running /\ ~ FollowsObservation /\ observed' = Observed
        /\ Engine = "exact" => Operation.opcode # "RESET"
        /\ UNCHANGED <<circuit, request, status, trace, backend, options, plan>>
        /\ pc' = pc + 1
    BY <1>1, <1>4 DEF NumpyVectorOperation, NumpyDensityOperation, submission
  <2>2. Engine = "exact" => pc \notin ResetsAt
    BY <2>1, RunningFacts DEF BackendIInv, ControlIInv
  <2>3. ControlIInv'
    BY <2>1, <2>2, PassingKeepsProgress, RunningOnIsNotStopped
       DEF BackendIInv, ControlIInv, Running
  <2>4. PlanIInv'
    BY <2>1, InLoopKeepsPlan DEF BackendIInv, Running, Statuses
  <2>5. QED BY <2>3, <2>4 DEF BackendIInv
<1>5. CASE FinishNumpy
  <2>1. /\ status = "running" /\ pc = Len(circuit) + 1 /\ status' = "finished"
        /\ UNCHANGED <<circuit, request, pc, observed, trace, backend, options, plan>>
    BY <1>5 DEF FinishNumpy, submission
  <2>2. ControlIInv'
    BY <2>1, FinishingKeepsControl DEF BackendIInv
  <2>3. PlanIInv'
    BY <2>1, InLoopKeepsPlan DEF BackendIInv, Statuses
  <2>4. QED BY <2>2, <2>3 DEF BackendIInv
<1>6. QED BY <1>2, <1>3, <1>4, <1>5 DEF NumpyStep

LEMMA StepKeepsBackend == BackendIInv /\ [BackendNext]_backendVars => BackendIInv'
<1> SUFFICES ASSUME BackendIInv, [BackendNext]_backendVars PROVE BackendIInv'
  OBVIOUS
<1>1. CASE UNCHANGED backendVars
  <2>1. UNCHANGED executionVars /\ UNCHANGED <<backend, options, plan>>
    BY <1>1 DEF backendVars, submission
  <2>2. ControlIInv'
    BY <2>1, StutterKeepsControl DEF BackendIInv
  <2>3. PlanIInv'
    BY <2>1 DEF BackendIInv, PlanIInv, Engine, executionVars
  <2>4. QED BY <2>2, <2>3 DEF BackendIInv
<1>2. QED BY <1>1, PlanKeepsBackend, ExecuteKeepsBackend, ReferenceKeepsBackend,
             NumpyKeepsBackend
          DEF BackendNext, BackendStep, BackendEnded

THEOREM BackendInvariant == BackendSpec => []BackendIInv
BY InitEstablishesBackend, StepKeepsBackend, PTL DEF BackendSpec

\* Whatever is asked of whichever backend, with whatever circuit and options: once a
\* plan is granted, the run ends with a result exactly if the options are of the
\* backend's type, no reset is needed that it does not declare, and no evolution
\* after an observation except on trajectories.
THEOREM GrantsAreHonoured == BackendSpec => []GrantIsHonoured
<1>1. BackendIInv => GrantIsHonoured
  <2> DEFINE Able == /\ ResetsAt # {} => backend \in Resetting
                     /\ Late # {} => Engine = "sampled"
             Accepted == options \in Capabilities[backend].options
  <2> SUFFICES ASSUME BackendIInv, Ended
               PROVE  /\ plan # NoEvidence =>
                            (status \in {"finished", "impossible"})
                                <=> (Able /\ Accepted)
                      /\ ~ Refused => plan # NoEvidence
    BY DEF GrantIsHonoured
  <2>1. backend \in Resetting <=> Engine # "exact"
    BY CapabilityFacts DEF BackendIInv, PlanIInv
  <2>2. TraceRefusal = "none"
    BY UntracedIsAccepted DEF BackendIInv, PlanIInv
  <2>3. CASE status \in {"finished", "impossible"}
    <3>1. RanThrough
      BY <2>3 DEF BackendIInv, ControlIInv, Stopped, RanThrough
    <3>2. Able
      BY <2>1, <3>1, PassedEverything DEF BackendIInv, ControlIInv
    <3>3. Accepted /\ plan # NoEvidence
      BY <2>3 DEF BackendIInv, PlanIInv
    <3>4. QED BY <2>3, <3>2, <3>3
  <2>4. CASE status \in {"A202", "A203"}
    <3>1. ~ Able
      BY <2>1, <2>4 DEF BackendIInv, ControlIInv, Stopped
    <3>2. plan # NoEvidence /\ status \notin {"finished", "impossible"}
      BY <2>4 DEF BackendIInv, PlanIInv
    <3>3. QED BY <3>1, <3>2
  <2>5. CASE Refused
    BY <2>5 DEF Refused, BackendIInv, PlanIInv
  <2>6. QED BY <2>2, <2>3, <2>4, <2>5
            DEF BackendIInv, PlanIInv, ControlIInv, Stopped, Statuses, Ended, Refused
<1>2. QED BY <1>1, BackendInvariant, PTL

-----------------------------------------------------------------------------
(* The loops of the NumPy backends: what names the reference engine shares. *)

LEMMA SameGround ==
    /\ Reference!BasisStates = BasisStates
    /\ Reference!GroundState = GroundState /\ Reference!GroundDensity = GroundDensity
    /\ Reference!Matrix = Matrix
BY DEF Reference!BasisStates, Reference!GroundState, Reference!GroundDensity, Reference!Matrix,
       BasisStates, GroundState, GroundDensity, Matrix

LEMMA SameOperations ==
    ASSUME NEW v, NEW D, NEW operation, NEW target
    PROVE  /\ Reference!ApplyOperation(v, operation) = ApplyOperation(v, operation)
           /\ Reference!IdealDensity(D, operation) = IdealDensity(D, operation)
           /\ Reference!DensityReset(D, target) = DensityReset(D, target)
BY DEF Reference!BasisStates, Reference!Matrix, Reference!ApplyOperation, Reference!ApplyCx,
       Reference!ApplySingle, Reference!Permuted,
       Reference!IdealDensity, Reference!DensityCx, Reference!ApplyOperator, Reference!DensityReset,
       BasisStates, Matrix, ApplyOperation, ApplyCx, ApplySingle, Permuted,
       IdealDensity, DensityCx, ApplyOperator, DensityReset

LEMMA SameSingle ==
    ASSUME NEW v, NEW target, NEW m
    PROVE  Reference!ApplySingle(v, target, m) = ApplySingle(v, target, m)
BY DEF Reference!BasisStates, Reference!ApplySingle, BasisStates, ApplySingle

LEMMA SameChannel ==
    ASSUME NEW D, NEW target, NEW kraus
    PROVE  Reference!ApplyChannel(D, target, kraus) = ApplyChannel(D, target, kraus)
BY DEF Reference!BasisStates, Reference!ApplyOperator, Reference!ApplySingle,
       Reference!ApplyChannel, Reference!MapThenSumSet, Reference!MapThenFoldSet,
       BasisStates, ApplyOperator, ApplySingle, ApplyChannel, MapThenSumSet, MapThenFoldSet

LEMMA SameWeight ==
    ASSUME NEW v, NEW targets, NEW outcome
    PROVE  /\ Reference!Weight(v, targets, outcome) = Weight(v, targets, outcome)
           /\ Reference!Collapse(v, targets, outcome) = Collapse(v, targets, outcome)
           /\ Reference!Outcomes(targets) = Outcomes(targets)
BY DEF Reference!BasisStates, Reference!Weight, Reference!Outcome, Reference!Outcomes,
       Reference!Collapse, Reference!MapThenSumSet, Reference!MapThenFoldSet,
       BasisStates, Weight, Outcome, Outcomes, Collapse, MapThenSumSet, MapThenFoldSet

-----------------------------------------------------------------------------
(* The types of what the NumPy loops keep.                                   *)

ArraysIInv ==
    /\ timing \in {NoEvidence} \union Timings(circuit)
    /\ vector \in PackedVectors /\ matrix \in PackedMatrices /\ lastEnd \in [Slots -> Nat]

PackedIInv == BackendIInv /\ ArraysIInv

GroundVector == [i \in Indexes |-> IF i = 0 THEN 1 ELSE 0]

GroundMatrix == [row \in Indexes |-> [col \in Indexes |-> IF row = 0 /\ col = 0 THEN 1 ELSE 0]]

LEMMA GroundFacts ==
    /\ GroundVector \in PackedVectors /\ Read(GroundVector) = GroundState
    /\ GroundMatrix \in PackedMatrices /\ ReadMatrix(GroundMatrix) = GroundDensity
<1>1. ASSUME NEW b \in BasisStates PROVE IndexOf(b) \in Indexes /\ (IndexOf(b) = 0 <=> b = {})
  <2>1. {} \in BasisStates /\ IndexOf({}) = 0
    BY IndexOfNothing DEF BasisStates
  <2>2. QED BY <2>1, IndexFacts, IndexesDiffer
<1>2. GroundVector \in PackedVectors /\ GroundMatrix \in PackedMatrices
  BY DEF GroundVector, GroundMatrix, PackedVectors, PackedMatrices
<1>3. Read(GroundVector) = GroundState
  <2>1. \A b \in BasisStates : GroundVector[IndexOf(b)] = IF b = {} THEN 1 ELSE 0
    BY <1>1 DEF GroundVector
  <2>2. QED BY <2>1 DEF Read, GroundState
<1>4. ReadMatrix(GroundMatrix) = GroundDensity
  <2>1. \A row, col \in BasisStates :
            GroundMatrix[IndexOf(row)][IndexOf(col)] = IF row = {} /\ col = {} THEN 1 ELSE 0
    BY <1>1 DEF GroundMatrix
  <2>2. QED BY <2>1 DEF ReadMatrix, GroundDensity
<1>5. QED BY <1>2, <1>3, <1>4

LEMMA TimingFacts ==
    ASSUME Arguments, timing \in {NoEvidence} \union Timings(circuit), ApplyIdle
    PROVE  /\ timing.peak \in Nat
           /\ \A i \in DOMAIN circuit : timing.spans[i].start \in Nat /\ timing.spans[i].end \in Nat
BY TimingsAreSchedules DEF Arguments, ApplyIdle

\* The decay of a slot leaves a matrix of the array's shape.
LEMMA DampingIsOfOperators ==
    ASSUME NEW duration \in Nat
    PROVE  AreOperators(AmplitudeDamping(duration), 2) /\ AreOperators(PhaseDamping(duration), 2)
<1> DEFINE x == PowerOfTwo[duration]
           y == PowerOfTwo[2 * duration] - 1
<1>1. AmplitudeDamping(duration) = <<[matrix |-> <<<<x, 0>>, <<0, 1>>>>, weight |-> 1],
                                     [matrix |-> <<<<0, 1>>, <<0, 0>>>>, weight |-> y]>>
  BY DEF AmplitudeDamping
<1>2. PhaseDamping(duration) = <<[matrix |-> <<<<x, 0>>, <<0, 1>>>>, weight |-> 1],
                                 [matrix |-> <<<<0, 0>>, <<0, 1>>>>, weight |-> y]>>
  BY DEF PhaseDamping
<1>3. x \in Int /\ y \in Int
  <2>1. 2 * duration \in Nat
    OBVIOUS
  <2>2. QED BY <2>1, PowerFacts
<1> HIDE DEF x, y
<1>4. AreOperators(AmplitudeDamping(duration), 2)
  BY <1>1, <1>3 DEF AreOperators, IsMatrix
<1>5. AreOperators(PhaseDamping(duration), 2)
  BY <1>2, <1>3 DEF AreOperators, IsMatrix
<1>6. QED BY <1>4, <1>5

LEMMA IdledType ==
    ASSUME NEW array \in PackedMatrices, NEW slot \in Slots, NEW until \in Nat,
           lastEnd \in [Slots -> Nat]
    PROVE  Idled(array, slot, until) \in PackedMatrices
<1> DEFINE duration == until - lastEnd[slot]
           damped == IF "amplitude" \in timing.decay
                     THEN ChannelDensity(array, slot, AmplitudeDamping(duration)) ELSE array
           decayed == IF "phase" \in timing.decay
                      THEN ChannelDensity(damped, slot, PhaseDamping(duration)) ELSE damped
<1>1. CASE until > lastEnd[slot]
  <2>1. duration \in Nat
    BY <1>1
  <2> HIDE DEF duration
  <2>2. damped \in PackedMatrices
    BY <2>1, DampingIsOfOperators, ChannelDensityType
  <2> HIDE DEF damped
  <2>3. decayed \in PackedMatrices
    BY <2>1, <2>2, DampingIsOfOperators, ChannelDensityType
  <2>4. Idled(array, slot, until) = decayed
    BY <1>1 DEF Idled, Decayed, duration, damped
  <2>5. QED BY <2>3, <2>4
<1>2. CASE ~ (until > lastEnd[slot])
  BY <1>2 DEF Idled
<1>3. QED BY <1>1, <1>2

\* The arrays between the slots that are made to wait.
IdlePath(w, slots, n, until) ==
    w[0] = matrix /\ \A i \in 1 .. n : w[i] = Idled(w[i - 1], slots[i], until)

LEMMA IdledUntilPath ==
    ASSUME NEW slots, NEW n \in Nat, slots \in [1 .. n -> Slots], NEW until \in Nat, ArraysIInv
    PROVE  \E w \in [0 .. n -> PackedMatrices] :
              IdlePath(w, slots, n, until) /\ IdledUntil(slots, until).matrix = w[n]
<1> DEFINE choice == [s \in SUBSET (1 .. n) |-> Max(s)]
           step == [i \in 1 .. n |-> [v \in PackedMatrices |-> Idled(v, slots[i], until)]]
           Next(g) == [s \in SUBSET (1 .. n) |->
                          IF s = {} THEN matrix
                          ELSE Idled(g[s \ {Max(s)}], slots[Max(s)], until)]
           h == CHOOSE g : g = Next(g)
<1>1. IdledUntil(slots, until).matrix = h[1 .. n]
  BY DEF IdledUntil, FoldLeft, MapThenFoldSet
<1>2. matrix \in PackedMatrices /\ step \in [1 .. n -> [PackedMatrices -> PackedMatrices]]
  <2>1. \A i \in 1 .. n : \A v \in PackedMatrices : Idled(v, slots[i], until) \in PackedMatrices
    BY IdledType DEF ArraysIInv
  <2>2. QED BY <2>1 DEF ArraysIInv
<1>3. PICK g \in [SUBSET (1 .. n) -> PackedMatrices] : FoldsTo(g, 1 .. n, choice, matrix, step)
  <2>1. Chooses(choice, 1 .. n)
    BY PrefixFacts
  <2>2. IsFiniteSet(1 .. n)
    BY FS_Interval
  <2> HIDE DEF step, choice
  <2>3. QED BY <1>2, <2>1, <2>2, FoldHasSolution
<1>4. g = Next(g)
  <2>1. ASSUME NEW s \in SUBSET (1 .. n) PROVE g[s] = Next(g)[s]
    <3>1. s # {} => Max(s) \in 1 .. n
      BY PrefixFacts DEF Chooses
    <3>2. s # {} => g[s] = step[Max(s)][g[s \ {Max(s)}]]
      BY <1>3 DEF FoldsTo
    <3>3. g[s \ {Max(s)}] \in PackedMatrices
      BY <1>3
    <3>4. s # {} => g[s] = Idled(g[s \ {Max(s)}], slots[Max(s)], until)
      BY <3>1, <3>2, <3>3
    <3>5. s = {} => g[s] = matrix
      BY <1>3 DEF FoldsTo
    <3>6. QED BY <3>4, <3>5
  <2>2. QED BY <2>1
<1>5. h = Next(h)
  BY <1>4
<1> HIDE DEF h
<1>6. PICK w \in [0 .. n -> PackedMatrices] : Advances(w, n, matrix, step)
  <2> HIDE DEF step
  <2>1. QED BY <1>2, PrefixValues
<1>7. IdlePath(w, slots, n, until)
  <2>1. ASSUME NEW i \in 1 .. n PROVE w[i] = Idled(w[i - 1], slots[i], until)
    <3>1. i - 1 \in 0 .. n
      OBVIOUS
    <3>2. w[i - 1] \in PackedMatrices
      BY <3>1
    <3>3. w[i] = step[i][w[i - 1]]
      BY <1>6 DEF Advances
    <3>4. QED BY <3>2, <3>3
  <2>2. QED BY <1>6, <2>1 DEF IdlePath, Advances
<1>8. h[1 .. 0] = w[0]
  <2>1. 1 .. 0 = {} /\ {} \in SUBSET (1 .. n)
    OBVIOUS
  <2>2. h[{}] = matrix
    BY <1>5
  <2>3. QED BY <1>7, <2>1, <2>2 DEF IdlePath
<1>9. ASSUME NEW i \in 1 .. n, h[1 .. i - 1] = w[i - 1] PROVE h[1 .. i] = w[i]
  <2>1. /\ Max(1 .. i) = i /\ (1 .. i) \ {i} = 1 .. i - 1 /\ 1 .. i # {}
        /\ 1 .. i \in SUBSET (1 .. n)
    BY PrefixFacts
  <2>2. h[1 .. i] = Idled(h[1 .. i - 1], slots[i], until)
    BY <1>5, <2>1
  <2>3. QED BY <1>7, <1>9, <2>2 DEF IdlePath
<1>10. SameSteps(h, w, n)
  BY <1>8, <1>9 DEF SameSteps
<1>11. \A i \in 0 .. n : h[1 .. i] = w[i]
  BY <1>10, PrefixesAgree
<1>12. IdledUntil(slots, until).matrix = w[n]
  BY <1>1, <1>11
<1>13. QED BY <1>7, <1>12

LEMMA IdledUntilType ==
    ASSUME NEW slots, NEW n \in Nat, slots \in [1 .. n -> Slots], NEW until \in Nat,
           ArraysIInv
    PROVE  IdledUntil(slots, until).matrix \in PackedMatrices
<1>1. PICK w \in [0 .. n -> PackedMatrices] : IdledUntil(slots, until).matrix = w[n]
  BY IdledUntilPath
<1>2. n \in 0 .. n
  OBVIOUS
<1>3. QED BY <1>1, <1>2

-----------------------------------------------------------------------------
(* A step of the NumPy loops on its arrays.                                  *)

\* What the density engine makes of a matrix at the operation it is at.
EvolvedFrom(D) ==
    CASE IsMeasurement -> D
      [] Operation.opcode = "RESET" -> DensityReset(D, Operation.targets[1])
      [] NoisyGate -> ApplyChannel(IdealDensity(D, Operation), Operation.targets[1],
                                   request.noise[Operation.opcode])
      [] OTHER -> IdealDensity(D, Operation)

LEMMA NumpyEvolvedIs ==
    ASSUME Arguments, Operation \in AllocatedOperations, NEW array \in PackedMatrices
    PROVE  /\ NumpyEvolved(array) \in PackedMatrices
           /\ ReadMatrix(NumpyEvolved(array)) = EvolvedFrom(ReadMatrix(array))
<1> DEFINE target == Operation.targets[1]
           D == ReadMatrix(array)
           kernel == DensityKernel(array, Operation)
<1>1. target \in Slots
  BY FirstTarget
<1>2. NoisyGate => ~ IsMeasurement /\ Operation.opcode # "RESET"
  BY NoiseFacts DEF NoisyGate, IsMeasurement, Matrix
<1>3. IsMeasurement => Operation.opcode # "RESET"
  BY DEF IsMeasurement
<1>4. CASE IsMeasurement
  <2>1. NumpyEvolved(array) = array /\ EvolvedFrom(D) = D
    BY <1>2, <1>3, <1>4 DEF NumpyEvolved, EvolvedFrom
  <2>2. QED BY <2>1
<1>5. CASE Operation.opcode = "RESET"
  <2>1. NumpyEvolved(array) = ResetDensity(array, target) /\ EvolvedFrom(D) = DensityReset(D, target)
    BY <1>2, <1>3, <1>5 DEF NumpyEvolved, EvolvedFrom
  <2> HIDE DEF target
  <2>2. QED BY <1>1, <2>1, ResetMatrixIs
<1>6. CASE ~ IsMeasurement /\ Operation.opcode # "RESET"
  <2>1. Operation.opcode \in Gates
    BY <1>6, OpcodeIsKnown DEF IsMeasurement
  <2>2. kernel \in PackedMatrices /\ ReadMatrix(kernel) = IdealDensity(D, Operation)
    BY <2>1, DensityKernelIs
  <2>3. CASE NoisyGate
    <3> DEFINE kraus == request.noise[Operation.opcode]
    <3>1. /\ NumpyEvolved(array) = ChannelDensity(kernel, target, kraus)
          /\ EvolvedFrom(D) = ApplyChannel(IdealDensity(D, Operation), target, kraus)
      BY <1>6, <2>3 DEF NumpyEvolved, EvolvedFrom
    <3>2. IsChannel(kraus) /\ \E n \in Nat : DOMAIN kraus = 1 .. n
      BY <2>3, NoiseFacts DEF NoisyGate
    <3> HIDE DEF target, kraus, kernel, D
    <3>3. QED BY <1>1, <2>2, <3>1, <3>2, ChannelMatrixIs DEF D
  <2>4. CASE ~ NoisyGate
    <3>1. NumpyEvolved(array) = kernel /\ EvolvedFrom(D) = IdealDensity(D, Operation)
      BY <1>6, <2>4 DEF NumpyEvolved, EvolvedFrom
    <3>2. QED BY <2>2, <3>1
  <2>5. QED BY <2>3, <2>4
<1>7. QED BY <1>4, <1>5, <1>6

LEMMA NumpyVectorIs ==
    ASSUME Operation \in AllocatedOperations, Operation.opcode # "RESET", NEW array \in PackedVectors
    PROVE  ~ IsMeasurement =>
              /\ VectorKernel(array, Operation) \in PackedVectors
              /\ Read(VectorKernel(array, Operation)) = ApplyOperation(Read(array), Operation)
<1> SUFFICES ASSUME ~ IsMeasurement
             PROVE  /\ VectorKernel(array, Operation) \in PackedVectors
                    /\ Read(VectorKernel(array, Operation)) = ApplyOperation(Read(array), Operation)
  OBVIOUS
<1>1. Operation.opcode \in Gates
  BY OpcodeIsKnown DEF IsMeasurement
<1>2. QED BY <1>1, VectorKernelIs

LEMMA WaitedType ==
    ASSUME PackedIInv, Running, Operation \in AllocatedOperations
    PROVE  Waited.matrix \in PackedMatrices
<1>1. CASE ~ ApplyIdle
  BY <1>1 DEF Waited, PackedIInv, ArraysIInv
<1>2. CASE ApplyIdle
  <2> DEFINE slots == InvolvedSlots(Operation)
             until == timing.spans[pc].start
  <2>1. until \in Nat
    BY <1>2, TimingFacts, RunningFacts DEF PackedIInv, ArraysIInv, BackendIInv, ControlIInv, Progress
  <2>2. \E n \in Nat : slots \in [1 .. n -> Slots]
    <3>1. Operation.targets \in Seq(Slots) /\ Operation.control \in Slots
      BY DEF AllocatedOperations
    <3>2. slots \in Seq(Slots)
      BY <3>1 DEF InvolvedSlots
    <3> HIDE DEF slots
    <3>3. QED BY <3>2
  <2>3. Waited.matrix = IdledUntil(slots, until).matrix
    BY <1>2 DEF Waited
  <2> HIDE DEF slots, until
  <2>4. QED BY <2>1, <2>2, <2>3, IdledUntilType DEF PackedIInv
<1>3. QED BY <1>1, <1>2

-----------------------------------------------------------------------------
LEMMA InitEstablishesPacked == BackendInit => PackedIInv
<1> SUFFICES ASSUME BackendInit PROVE PackedIInv
  OBVIOUS
<1>1. vector = GroundVector /\ matrix = GroundMatrix /\ lastEnd = [slot \in Slots |-> 0]
        /\ timing \in {NoEvidence} \union Timings(circuit)
  BY DEF BackendInit, GroundVector, GroundMatrix
<1>2. QED BY <1>1, InitEstablishesBackend, GroundFacts DEF PackedIInv, ArraysIInv

LEMMA StepKeepsPacked == PackedIInv /\ [BackendNext]_backendVars => PackedIInv'
<1> SUFFICES ASSUME PackedIInv, [BackendNext]_backendVars PROVE PackedIInv'
  OBVIOUS
<1>1. BackendIInv'
  BY StepKeepsBackend DEF PackedIInv
<1>2. UNCHANGED <<circuit, timing, arrays>> => ArraysIInv'
  BY DEF PackedIInv, ArraysIInv, arrays
<1>3. ArraysIInv'
  <2>1. CASE UNCHANGED backendVars
    BY <1>2, <2>1 DEF backendVars, submission, executionVars
  <2>2. CASE PlanRun
    BY <1>2, <2>2 DEF PlanRun, submission
  <2>3. CASE ExecuteRun
    BY <1>2, <2>3 DEF ExecuteRun, submission
  <2>4. CASE ReferenceStep
    <3>1. UNCHANGED circuit
      BY <2>4 DEF ReferenceStep, RefuseReset, RefuseEvolution, ExactOperation, DensityOperation,
                  SampledGate, SampledMeasure, SampledReset, DrawBeyondMass, FinishShot,
                  FinishExecution, Abort
    <3>2. QED BY <1>2, <2>4, <3>1 DEF ReferenceStep, submission
  <2>5. CASE NumpyRefuseReset \/ NumpyRefuseEvolution
    BY <1>2, <2>5 DEF NumpyRefuseReset, NumpyRefuseEvolution, NumpyAbort, Abort, submission
  <2>6. CASE NumpyVectorOperation
    <3>1. Operation \in AllocatedOperations /\ vector \in PackedVectors /\ Operation.opcode # "RESET"
      BY <2>6, RunningFacts DEF NumpyVectorOperation, OnNumpyVector, PackedIInv, ArraysIInv,
                                BackendIInv, ControlIInv, Progress
    <3>2. vector' = IF IsMeasurement THEN vector ELSE VectorKernel(vector, Operation)
      BY <2>6 DEF NumpyVectorOperation
    <3>3. vector' \in PackedVectors
      BY <3>1, <3>2, NumpyVectorIs
    <3>4. QED BY <2>6, <3>3 DEF NumpyVectorOperation, PackedIInv, ArraysIInv, submission
  <2>7. CASE NumpyDensityOperation
    <3>1. Running /\ Arguments /\ Operation \in AllocatedOperations
      BY <2>7, RunningFacts DEF NumpyDensityOperation, OnNumpyDensity, PackedIInv,
                                BackendIInv, ControlIInv, Progress
    <3>2. matrix' \in PackedMatrices
      BY <2>7, <3>1, WaitedType, NumpyEvolvedIs DEF NumpyDensityOperation
    <3>3. lastEnd' \in [Slots -> Nat]
      <4>1. lastEnd \in [Slots -> Nat]
        BY DEF PackedIInv, ArraysIInv
      <4>2. ApplyIdle => timing.spans[pc].end \in Nat
        BY <3>1, TimingFacts, RunningFacts DEF PackedIInv, ArraysIInv, BackendIInv, ControlIInv,
                                               Progress
      <4>3. QED BY <2>7, <4>1, <4>2 DEF NumpyDensityOperation
    <3>4. QED BY <2>7, <3>2, <3>3 DEF NumpyDensityOperation, PackedIInv, ArraysIInv, submission
  <2>8. CASE FinishNumpy
    <3> DEFINE slots == [i \in 1 .. QubitCount |-> i - 1]
    <3>1. slots \in [1 .. QubitCount -> Slots] /\ QubitCount \in Nat
      BY SlotsFacts
    <3>2. ApplyIdle => timing.peak \in Nat
      BY TimingFacts DEF PackedIInv, ArraysIInv, BackendIInv, ControlIInv, Progress
    <3>3. IF ApplyIdle THEN matrix' = IdledUntil(slots, timing.peak).matrix ELSE matrix' = matrix
      BY <2>8 DEF FinishNumpy
    <3> HIDE DEF slots
    <3>4. matrix' \in PackedMatrices
      BY <3>1, <3>2, <3>3, IdledUntilType DEF PackedIInv, ArraysIInv
    <3>5. QED BY <2>8, <3>4 DEF FinishNumpy, PackedIInv, ArraysIInv, submission
  <2>9. QED BY <2>1, <2>2, <2>3, <2>4, <2>5, <2>6, <2>7, <2>8
            DEF BackendNext, BackendStep, BackendEnded, NumpyStep
<1>4. QED BY <1>1, <1>3 DEF PackedIInv

\* The inductive invariant of the NumPy loops: the backends' own, and arrays of integers.
THEOREM PackedInvariant == BackendSpec => []PackedIInv
BY InitEstablishesPacked, StepKeepsPacked, PTL DEF BackendSpec

\* What a plan was granted for.
GrantIInv ==
    plan # NoEvidence => plan = [backend |-> backend, query |-> query] /\ Supports

LEMMA StepKeepsGrant == GrantIInv /\ [BackendNext]_backendVars => GrantIInv'
<1> SUFFICES ASSUME GrantIInv, [BackendNext]_backendVars PROVE GrantIInv'
  OBVIOUS
<1>1. UNCHANGED <<backend, query>>
        /\ (plan' = plan \/ (plan' = [backend |-> backend, query |-> query] /\ Supports))
  <2>1. CASE UNCHANGED backendVars
    BY <2>1 DEF backendVars, submission
  <2>2. CASE PlanRun
    BY <2>2 DEF PlanRun, submission
  <2>3. CASE ExecuteRun \/ ReferenceStep
    BY <2>3 DEF ExecuteRun, ReferenceStep, submission
  <2>4. CASE NumpyStep
    BY <2>4 DEF NumpyStep, NumpyRefuseReset, NumpyRefuseEvolution, NumpyAbort,
                NumpyVectorOperation, NumpyDensityOperation, FinishNumpy, submission
  <2>5. QED BY <2>1, <2>2, <2>3, <2>4 DEF BackendNext, BackendStep, BackendEnded
<1>2. QED BY <1>1 DEF GrantIInv, Supports

\* The arrays keep their shapes, and no backend runs a query it does not declare.
THEOREM BackendTypes == BackendSpec => []BackendTypeOK
<1>1. BackendInit => GrantIInv
  BY DEF BackendInit, GrantIInv
<1>2. PackedIInv /\ GrantIInv => BackendTypeOK
  <2> SUFFICES ASSUME PackedIInv, GrantIInv PROVE BackendTypeOK
    OBVIOUS
  <2>1. vector \in [Indexes -> Int] /\ matrix \in [Indexes -> [Indexes -> Int]]
          /\ lastEnd \in [Slots -> Nat]
    BY DEF PackedIInv, ArraysIInv, PackedVectors, PackedMatrices
  <2>2. plan # NoEvidence => plan.query \in Capabilities[plan.backend].queries
    <3>1. plan # NoEvidence => plan.query = query /\ plan.backend = backend
      BY DEF GrantIInv
    <3>2. plan # NoEvidence => query \in Capabilities[backend].queries
      BY DEF GrantIInv, Supports
    <3>3. QED BY <3>1, <3>2
  <2>3. status \notin {"requested", "unsupported query"} => plan # NoEvidence
    BY DEF PackedIInv, BackendIInv, PlanIInv
  <2>4. QED BY <2>1, <2>2, <2>3 DEF BackendTypeOK
<1>3. QED BY <1>1, <1>2, StepKeepsGrant, PackedInvariant, PTL DEF BackendSpec

-----------------------------------------------------------------------------
(* Every backend implements the reference engine.                            *)

LEMMA BarIs ==
    /\ VectorAsState = Read(vector) /\ MatrixAsDensity = ReadMatrix(matrix)
    /\ VectorAsState' = Read(vector') /\ MatrixAsDensity' = ReadMatrix(matrix')
BY DEF VectorAsState, MatrixAsDensity, Read, ReadMatrix

LEMMA InitIsReference == BackendInit => Reference!ExecutionInit
<1> SUFFICES ASSUME BackendInit PROVE Reference!ExecutionInit
  OBVIOUS
<1>1. vector = GroundVector /\ matrix = GroundMatrix
  BY DEF BackendInit, GroundVector, GroundMatrix
<1>2. VectorAsState = GroundState /\ MatrixAsDensity = GroundDensity
  BY <1>1, BarIs, GroundFacts
<1>3. ExecutionInit /\ ~ Refused
  BY DEF BackendInit, ExecutionInit, Refused
<1>4. QED BY <1>2, <1>3, SameGround DEF ExecutionInit, Reference!ExecutionInit

\* A step that leaves the run, its arrays and the request alone.
LEMMA StutterIsReference ==
    ASSUME UNCHANGED <<circuit, request, pc, state, density, observed, lossy, measured, resets,
                       shots, trace, noiseEvents, backend, vector, matrix>>,
           (IF Refused THEN "requested" ELSE status)' = IF Refused THEN "requested" ELSE status
    PROVE  UNCHANGED Reference!executionVars
<1>1. UNCHANGED <<VectorAsState, MatrixAsDensity>>
  BY BarIs
<1>2. QED BY <1>1 DEF Reference!executionVars

LEMMA PlanIsReference == PlanRun => UNCHANGED Reference!executionVars
<1> SUFFICES ASSUME PlanRun PROVE UNCHANGED Reference!executionVars
  OBVIOUS
<1>1. (IF Refused THEN "requested" ELSE status)' = IF Refused THEN "requested" ELSE status
  BY DEF PlanRun, Refused
<1>2. QED BY <1>1, StutterIsReference DEF PlanRun, submission, arrays

LEMMA ExecuteIsReference ==
    ASSUME PackedIInv, ExecuteRun
    PROVE  Reference!Start \/ UNCHANGED Reference!executionVars
<1>1. UNCHANGED <<circuit, request, pc, state, density, observed, lossy, measured, resets,
                  shots, trace, noiseEvents, backend, vector, matrix>> /\ status = "requested"
  BY DEF ExecuteRun, submission, arrays
<1>2. CASE options \in Capabilities[backend].options
  <2>1. status' = "running" /\ ~ Refused /\ ~ Refused'
    BY <1>2 DEF ExecuteRun, Refused
  <2>2. UNCHANGED <<VectorAsState, MatrixAsDensity>>
    BY <1>1, BarIs
  <2>3. Reference!TraceRefusal = "none"
    BY DEF Reference!TraceRefusal, PackedIInv, BackendIInv, PlanIInv
  <2>4. Reference!Start
    BY <1>1, <2>1, <2>2, <2>3 DEF Reference!Start
  <2>5. QED BY <2>4
<1>3. CASE options \notin Capabilities[backend].options
  <2>1. status' = "options refused"
    BY <1>3 DEF ExecuteRun
  <2>2. (IF Refused THEN "requested" ELSE status)' = IF Refused THEN "requested" ELSE status
    BY <1>1, <2>1 DEF Refused
  <2>3. QED BY <1>1, <2>2, StutterIsReference
<1>4. QED BY <1>2, <1>3

LEMMA LoopsAreNotRefused ==
    ASSUME PackedIInv, ReferenceStep \/ NumpyStep
    PROVE  status = "running" /\ ~ Refused /\ ~ Refused'
<1>1. CASE ReferenceStep
  <2>1. status = "running" /\ status' \notin {"unsupported query", "options refused"}
    BY <1>1 DEF ReferenceStep, RefuseReset, RefuseEvolution, ExactOperation, DensityOperation,
                SampledGate, SampledMeasure, SampledReset, DrawBeyondMass, FinishShot,
                FinishExecution, CanEvolve, Running, Abort
  <2>2. QED BY <2>1 DEF Refused
<1>2. CASE NumpyStep
  <2>1. status = "running" /\ status' \notin {"unsupported query", "options refused"}
    BY <1>2 DEF NumpyStep, NumpyRefuseReset, NumpyRefuseEvolution, NumpyAbort, Abort,
                NumpyVectorOperation, NumpyDensityOperation, FinishNumpy, OnNumpyVector,
                OnNumpyDensity, Running
  <2>2. QED BY <2>1 DEF Refused
<1>3. QED BY <1>1, <1>2

\* The reference backends hand over to the engines.
LEMMA ReferenceStepIsReference ==
    ASSUME PackedIInv, ReferenceStep
    PROVE  Reference!EngineStep
<1>1. status = "running" /\ ~ Refused /\ ~ Refused'
  BY LoopsAreNotRefused
<1>2. backend \notin {"numpy-cpu-state-vector", "numpy-cpu-density-matrix"} /\ backend' = backend
  BY DEF ReferenceStep, OnNumpy, submission
<1>3. ~ request.traced
  BY DEF PackedIInv, BackendIInv, PlanIInv
<1> USE <1>1, <1>2 DEF Running, Engine, Operation, IsMeasurement, Abort, Reference!Running,
        Reference!Engine, Reference!Operation, Reference!IsMeasurement, Reference!Abort
<1>4. CASE RefuseReset
  <2>1. Reference!RefuseReset
    BY <1>4 DEF RefuseReset, Reference!RefuseReset
  <2>2. QED BY <2>1 DEF Reference!EngineStep
<1>5. CASE RefuseEvolution
  <2>1. Reference!RefuseEvolution
    BY <1>5 DEF RefuseEvolution, Reference!RefuseEvolution, FollowsObservation,
                Reference!FollowsObservation
  <2>2. QED BY <2>1 DEF Reference!EngineStep
<1>6. CASE ExactOperation
  <2>1. Reference!ExactOperation
    BY <1>3, <1>6, SameOperations
       DEF ExactOperation, Reference!ExactOperation, FollowsObservation, Observed, Captured,
           Reference!FollowsObservation, Reference!Observed, Reference!Captured
  <2>2. QED BY <2>1 DEF Reference!EngineStep
<1>7. CASE DensityOperation
  <2>1. Reference!DensityOperation
    BY <1>7, SameOperations, SameChannel
       DEF DensityOperation, Reference!DensityOperation, FollowsObservation, Observed, NoisyGate,
           Reference!FollowsObservation, Reference!Observed, Reference!NoisyGate, Evolved,
           Reference!Evolved
  <2>2. QED BY <2>1 DEF Reference!EngineStep
<1>8. CASE SampledGate
  <2>1. Reference!SampledGate
    BY <1>3, <1>8, SameOperations
       DEF SampledGate, Reference!SampledGate, CanEvolve, Captured, Reference!CanEvolve,
           Reference!Captured
  <2>2. QED BY <2>1 DEF Reference!EngineStep
<1>9. Reference!Possible(Operation.targets) = Possible(Operation.targets)
  BY SameWeight DEF Possible, Reference!Possible
<1>10. CASE SampledMeasure
  <2>1. Reference!SampledMeasure
    BY <1>3, <1>9, <1>10, SameWeight
       DEF SampledMeasure, Reference!SampledMeasure, CanEvolve, Captured, Reference!CanEvolve,
           Reference!Captured
  <2>2. QED BY <2>1 DEF Reference!EngineStep
<1>11. CASE SampledReset
  <2>1. \A target, outcome : Reference!Corrected(target, outcome) = Corrected(target, outcome)
    BY SameWeight, SameSingle, SameGround DEF Corrected, Reference!Corrected
  <2>2. Reference!SampledReset
    BY <1>3, <1>9, <1>11, <2>1
       DEF SampledReset, Reference!SampledReset, CanEvolve, Captured, Reference!CanEvolve,
           Reference!Captured
  <2>3. QED BY <2>2 DEF Reference!EngineStep
<1>12. CASE DrawBeyondMass
  <2>1. Reference!DrawBeyondMass
    BY <1>9, <1>12 DEF DrawBeyondMass, Reference!DrawBeyondMass, CanEvolve, Reference!CanEvolve,
                       LastOutcome, Reference!LastOutcome
  <2>2. QED BY <2>1 DEF Reference!EngineStep
<1>13. CASE FinishShot
  <2>1. Reference!FinishShot
    BY <1>13, SameGround DEF FinishShot, Reference!FinishShot
  <2>2. QED BY <2>1 DEF Reference!EngineStep
<1>14. CASE FinishExecution
  <2>1. TraceAccepted /\ Reference!TraceAccepted
    BY <1>3, UntracedIsAccepted DEF PackedIInv, BackendIInv, PlanIInv, Reference!TraceAccepted
  <2>2. Reference!FinishExecution
    BY <1>14, <2>1 DEF FinishExecution, Reference!FinishExecution, Complete, Reference!Complete
  <2>3. QED BY <2>2 DEF Reference!EngineStep
<1>15. QED BY <1>4, <1>5, <1>6, <1>7, <1>8, <1>10, <1>11, <1>12, <1>13, <1>14 DEF ReferenceStep

\* Without a schedule the NumPy loops take the steps of the reference loops.
LEMMA NumpyStepIsReference ==
    ASSUME PackedIInv, NumpyStep, ~ ApplyIdle
    PROVE  Reference!EngineStep
<1>1. status = "running" /\ ~ Refused /\ ~ Refused'
  BY LoopsAreNotRefused
<1>2. /\ VectorAsState = Read(vector) /\ MatrixAsDensity = ReadMatrix(matrix)
      /\ VectorAsState' = Read(vector') /\ MatrixAsDensity' = ReadMatrix(matrix')
  BY BarIs
<1>3. ~ request.traced
  BY DEF PackedIInv, BackendIInv, PlanIInv
<1>4. Engine = Capabilities[backend].engine
  BY DEF PackedIInv, BackendIInv, PlanIInv
<1>5. /\ backend = "numpy-cpu-state-vector" => Engine = "exact"
      /\ backend = "numpy-cpu-density-matrix" => Engine = "density"
  BY <1>4, CapabilityFacts
<1> USE <1>1 DEF Running, Engine, Operation, IsMeasurement, Abort, Reference!Running,
        Reference!Engine, Reference!Operation, Reference!IsMeasurement, Reference!Abort
<1>6. CASE NumpyRefuseReset
  <2>1. /\ Running /\ Engine = "exact" /\ Operation.opcode = "RESET" /\ status' = "A203"
        /\ UNCHANGED <<circuit, request, pc, state, density, observed, lossy, measured, resets,
                       shots, trace, noiseEvents, backend, vector, matrix>>
    BY <1>5, <1>6 DEF NumpyRefuseReset, NumpyAbort, OnNumpyVector, submission, arrays
  <2>2. UNCHANGED <<VectorAsState, MatrixAsDensity>>
    BY <1>2, <2>1
  <2>3. Reference!RefuseReset
    BY <2>1, <2>2 DEF Reference!RefuseReset
  <2>4. QED BY <2>3 DEF Reference!EngineStep
<1>7. CASE NumpyRefuseEvolution
  <2>1. /\ Running /\ Engine # "sampled" /\ FollowsObservation /\ status' = "A202"
        /\ Engine = "exact" => Operation.opcode # "RESET"
        /\ UNCHANGED <<circuit, request, pc, state, density, observed, lossy, measured, resets,
                       shots, trace, noiseEvents, backend, vector, matrix>>
    BY <1>5, <1>7 DEF NumpyRefuseEvolution, NumpyAbort, OnNumpyVector, OnNumpyDensity, submission,
                      arrays
  <2>2. UNCHANGED <<VectorAsState, MatrixAsDensity>>
    BY <1>2, <2>1
  <2>3. Reference!RefuseEvolution
    BY <2>1, <2>2 DEF Reference!RefuseEvolution, FollowsObservation, Reference!FollowsObservation
  <2>4. QED BY <2>3 DEF Reference!EngineStep
<1>8. CASE NumpyVectorOperation
  <2>1. /\ Running /\ Engine = "exact" /\ Operation.opcode # "RESET" /\ ~ FollowsObservation
        /\ backend = "numpy-cpu-state-vector" /\ backend' = backend
        /\ observed' = Observed /\ pc' = pc + 1
        /\ vector' = IF IsMeasurement THEN vector ELSE VectorKernel(vector, Operation)
        /\ UNCHANGED <<circuit, request, status, density, lossy, measured, resets, shots,
                       trace, noiseEvents>>
    BY <1>5, <1>8 DEF NumpyVectorOperation, OnNumpyVector, submission
  <2>2. Operation \in AllocatedOperations /\ vector \in PackedVectors
    BY <2>1, RunningFacts DEF PackedIInv, ArraysIInv, BackendIInv, ControlIInv, Progress
  <2>3. Read(vector') = IF IsMeasurement THEN Read(vector) ELSE ApplyOperation(Read(vector), Operation)
    BY <2>1, <2>2, NumpyVectorIs
  <2>4. VectorAsState' = IF IsMeasurement THEN VectorAsState
                         ELSE Reference!ApplyOperation(VectorAsState, Operation)
    BY <1>2, <2>3, SameOperations
  <2>5. Reference!ExactOperation
    BY <1>3, <2>1, <2>4
       DEF Reference!ExactOperation, FollowsObservation, Observed, Reference!FollowsObservation,
           Reference!Observed, Reference!Captured
  <2>6. QED BY <2>5 DEF Reference!EngineStep
<1>9. CASE NumpyDensityOperation
  <2>1. /\ Running /\ Engine = "density" /\ ~ FollowsObservation
        /\ backend = "numpy-cpu-density-matrix" /\ backend' = backend
        /\ observed' = Observed /\ pc' = pc + 1
        /\ matrix' = NumpyEvolved(Waited.matrix)
        /\ noiseEvents' = IF NoisyGate
                          THEN Append(noiseEvents, [op |-> pc, slot |-> Operation.targets[1]])
                          ELSE noiseEvents
        /\ UNCHANGED <<circuit, request, status, state, lossy, measured, resets, shots, trace>>
    BY <1>5, <1>9 DEF NumpyDensityOperation, OnNumpyDensity, submission
  <2>2. /\ Operation \in AllocatedOperations /\ matrix \in PackedMatrices /\ Arguments
        /\ Waited.matrix = matrix
    BY <2>1, RunningFacts DEF PackedIInv, ArraysIInv, BackendIInv, ControlIInv, Progress, Waited
  <2>3. ReadMatrix(matrix') = EvolvedFrom(ReadMatrix(matrix))
    BY <2>1, <2>2, NumpyEvolvedIs
  <2>4. Reference!Evolved = EvolvedFrom(MatrixAsDensity)
    BY <2>1, SameOperations, SameChannel
       DEF Reference!Evolved, EvolvedFrom, NoisyGate, Reference!NoisyGate
  <2>5. MatrixAsDensity' = Reference!Evolved
    BY <1>2, <2>3, <2>4
  <2>6. Reference!DensityOperation
    BY <2>1, <2>5
       DEF Reference!DensityOperation, FollowsObservation, Observed, NoisyGate,
           Reference!FollowsObservation, Reference!Observed, Reference!NoisyGate
  <2>7. QED BY <2>6 DEF Reference!EngineStep
<1>10. CASE FinishNumpy
  <2>1. /\ status = "running" /\ Engine # "sampled" /\ pc = Len(circuit) + 1 /\ status' = "finished"
        /\ UNCHANGED <<circuit, request, pc, state, density, observed, lossy, measured, resets,
                       shots, trace, noiseEvents, backend, vector, matrix>>
    BY <1>5, <1>10 DEF FinishNumpy, OnNumpy, submission
  <2>2. UNCHANGED <<VectorAsState, MatrixAsDensity>>
    BY <1>2, <2>1
  <2>3. Reference!TraceAccepted
    BY <1>3, UntracedIsAccepted DEF PackedIInv, BackendIInv, PlanIInv, Reference!TraceAccepted
  <2>4. Reference!FinishExecution
    BY <2>1, <2>2, <2>3 DEF Reference!FinishExecution, Reference!Complete
  <2>5. QED BY <2>4 DEF Reference!EngineStep
<1>11. QED BY <1>6, <1>7, <1>8, <1>9, <1>10 DEF NumpyStep

\* Every backend implements the reference engine of its representation: the kernels
\* by structure, on packed indexes and tensor axes, do what the reference engine does
\* to the basis states, for every number of slots, circuit and gate noise.
THEOREM BackendsImplement == BackendSpec => BackendsImplementReference
<1>1. ASSUME PackedIInv, [BackendNext]_backendVars
      PROVE  [~ ApplyIdle => Reference!ExecutionNext]_(Reference!executionVars)
  <2>1. CASE UNCHANGED backendVars
    <3>1. /\ UNCHANGED <<circuit, request, pc, state, density, observed, lossy, measured, resets,
                         shots, trace, noiseEvents, backend, vector, matrix>>
          /\ (IF Refused THEN "requested" ELSE status)' = IF Refused THEN "requested" ELSE status
      BY <2>1 DEF backendVars, executionVars, submission, arrays, Refused
    <3>2. QED BY <3>1, StutterIsReference
  <2>2. CASE PlanRun
    BY <2>2, PlanIsReference
  <2>3. CASE ExecuteRun
    BY <1>1, <2>3, ExecuteIsReference DEF Reference!ExecutionNext, Reference!EngineStep
  <2>4. CASE ReferenceStep
    BY <1>1, <2>4, ReferenceStepIsReference DEF Reference!ExecutionNext
  <2>5. CASE NumpyStep
    BY <1>1, <2>5, NumpyStepIsReference DEF Reference!ExecutionNext
  <2>6. QED BY <1>1, <2>1, <2>2, <2>3, <2>4, <2>5 DEF BackendNext, BackendStep, BackendEnded
<1>2. QED BY <1>1, InitIsReference, PackedInvariant, PTL
          DEF BackendSpec, BackendsImplementReference

LEMMA Division ==
    ASSUME NEW d \in Nat \ {0}, NEW n \in Nat
    PROVE  n \div d \in Nat /\ n % d \in 0 .. d - 1 /\ n = d * (n \div d) + (n % d)
OBVIOUS

LEMMA DivisionIs ==
    ASSUME NEW d \in Nat \ {0}, NEW q \in Nat, NEW r \in 0 .. d - 1
    PROVE  (d * q + r) \div d = q /\ (d * q + r) % d = r
OBVIOUS

LEMMA TimesGrows ==
    ASSUME NEW d \in Nat, NEW q \in Nat, NEW p \in Nat, q <= p
    PROVE  d * q <= d * p
OBVIOUS

-----------------------------------------------------------------------------
(* The moments of the circuit run in time.                                   *)

Moments == timing.peak * Places

TickOf(i) == (i - 1) \div Places
PlaceOf(i) == (i - 1) % Places
MomentOf(tick, place) == (Places * tick + place) + 1

LEMMA MomentNumbers ==
    ASSUME Places \in Nat, timing.peak \in Nat
    PROVE  /\ Moments \in Nat
           /\ \A i \in 1 .. Moments :
                 /\ TickOf(i) \in 0 .. timing.peak - 1 /\ PlaceOf(i) \in 0 .. Places - 1
                 /\ i = MomentOf(TickOf(i), PlaceOf(i))
           /\ \A i, k \in 1 .. Moments : i >= k => TickOf(i) >= TickOf(k)
           /\ \A tick \in 0 .. timing.peak - 1 : \A place \in 0 .. Places - 1 :
                 /\ MomentOf(tick, place) \in 1 .. Moments
                 /\ TickOf(MomentOf(tick, place)) = tick /\ PlaceOf(MomentOf(tick, place)) = place
<1> DEFINE P == Places
           peak == timing.peak
<1>1. P \in Nat /\ peak \in Nat /\ Moments = peak * P /\ peak * P \in Nat /\ peak * P = P * peak
  BY DEF Moments
<1>2. ASSUME NEW i \in 1 .. Moments
      PROVE  /\ P \in Nat \ {0} /\ i - 1 \in Nat
             /\ TickOf(i) \in Nat /\ PlaceOf(i) \in 0 .. P - 1
             /\ i - 1 = P * TickOf(i) + PlaceOf(i)
  <2> HIDE DEF P, peak
  <2>1. P # 0
    BY <1>1
  <2>2. i - 1 \in Nat
    BY <1>1
  <2>3. TickOf(i) = (i - 1) \div P /\ PlaceOf(i) = (i - 1) % P
    BY DEF TickOf, PlaceOf, P
  <2>4. QED BY <1>1, <2>1, <2>2, <2>3, Division
<1>3. ASSUME NEW i \in 1 .. Moments
      PROVE  /\ TickOf(i) \in 0 .. peak - 1 /\ PlaceOf(i) \in 0 .. P - 1
             /\ i = MomentOf(TickOf(i), PlaceOf(i))
  <2> DEFINE q == TickOf(i)
             r == PlaceOf(i)
  <2>1. q \in Nat /\ r \in 0 .. P - 1 /\ i - 1 = P * q + r /\ P \in Nat \ {0}
    BY <1>2
  <2>2. P * q \in Nat
    BY <1>1, <2>1
  <2>3. ~ (peak <= q)
    <3> SUFFICES ASSUME peak <= q PROVE FALSE
      OBVIOUS
    <3> HIDE DEF q, r, P, peak
    <3>1. P * peak <= P * q
      BY <1>1, <2>1, TimesGrows
    <3> DEFINE a == P * peak
               b == P * q
    <3>2. i - 1 = b + r /\ a <= b /\ i <= a /\ a \in Nat /\ b \in Nat /\ r \in Nat
      BY <1>1, <2>1, <2>2, <3>1
    <3> HIDE DEF a, b
    <3>3. QED BY <3>2
  <2>4. i = (P * q + r) + 1
    <3> DEFINE b == P * q
    <3>1. i - 1 = b + r /\ b \in Nat /\ r \in Nat
      BY <2>1, <2>2
    <3> HIDE DEF b, r
    <3>2. i = (b + r) + 1
      BY <3>1
    <3>3. QED BY <3>2 DEF b
  <2> HIDE DEF q, r
  <2>5. q \in 0 .. peak - 1
    BY <1>1, <2>1, <2>3
  <2>6. QED BY <2>1, <2>4, <2>5 DEF MomentOf, q, r
<1>4. ASSUME NEW i \in 1 .. Moments, NEW k \in 1 .. Moments, i >= k
      PROVE  TickOf(i) >= TickOf(k)
  <2> SUFFICES ASSUME ~ (TickOf(i) >= TickOf(k)) PROVE FALSE
    OBVIOUS
  <2> DEFINE q == TickOf(i)
             r == PlaceOf(i)
             x == TickOf(k)
             y == PlaceOf(k)
  <2>1. /\ q \in Nat /\ r \in 0 .. P - 1 /\ i - 1 = P * q + r /\ P \in Nat \ {0}
        /\ x \in Nat /\ y \in 0 .. P - 1 /\ k - 1 = P * x + y /\ ~ (q >= x)
    BY <1>2
  <2> HIDE DEF P, q, r, x, y
  <2>2. P * (q + 1) <= P * x
    <3>1. q + 1 <= x /\ q + 1 \in Nat
      BY <2>1
    <3>2. QED BY <1>1, <2>1, <3>1, TimesGrows
  <2>3. P * (q + 1) = P * q + P
    BY <2>1
  <2> DEFINE a == P * q
             b == P * x
  <2>4. /\ a \in Nat /\ b \in Nat /\ a + P <= b /\ i - 1 = a + r /\ k - 1 = b + y
        /\ r \in 0 .. P - 1 /\ y \in Nat
    BY <2>1, <2>2, <2>3
  <2> HIDE DEF a, b
  <2>5. QED BY <1>4, <2>1, <2>4
<1>5. ASSUME NEW tick \in 0 .. peak - 1, NEW place \in 0 .. P - 1
      PROVE  /\ MomentOf(tick, place) \in 1 .. Moments
             /\ TickOf(MomentOf(tick, place)) = tick /\ PlaceOf(MomentOf(tick, place)) = place
  <2> DEFINE a == P * tick
             n == a + place
  <2>1. P \in Nat \ {0} /\ tick \in Nat /\ tick + 1 <= peak /\ place \in 0 .. P - 1 /\ a \in Nat
    BY <1>1
  <2>2. MomentOf(tick, place) = n + 1 /\ n \in Nat
    BY <2>1 DEF MomentOf
  <2>3. n \div P = tick /\ n % P = place
    <3> HIDE DEF P
    <3>1. QED BY <2>1, DivisionIs
  <2>4. a + P <= peak * P
    <3> HIDE DEF P, peak
    <3>1. P * (tick + 1) <= P * peak
      BY <1>1, <2>1, TimesGrows
    <3>2. P * (tick + 1) = P * tick + P
      BY <2>1
    <3>3. QED BY <1>1, <3>1, <3>2
  <2>5. n + 1 \in 1 .. Moments
    <3> DEFINE b == peak * P
    <3>1. a + P <= b /\ b \in Nat /\ Moments = b
      BY <1>1, <2>4
    <3> HIDE DEF a, b, P
    <3>2. n + 1 <= b
      BY <2>1, <3>1
    <3>3. QED BY <2>2, <3>1, <3>2
  <2>6. (n + 1) - 1 = n
    BY <2>2
  <2> HIDE DEF n
  <2>7. QED BY <2>2, <2>3, <2>5, <2>6 DEF TickOf, PlaceOf, P
<1>6. QED BY <1>1, <1>3, <1>4, <1>5

\* A run with a schedule.
Timed == Arguments /\ timing \in Timings(circuit)

LEMMA TimedFacts ==
    ASSUME Timed
    PROVE  /\ timing.peak \in Nat /\ Len(circuit) \in Nat /\ DOMAIN circuit = 1 .. Len(circuit)
           /\ QubitCount \in Nat /\ Places = Len(circuit) + QubitCount /\ Places \in Nat
           /\ Slots = 0 .. QubitCount - 1
           /\ \A i \in DOMAIN circuit :
                 /\ circuit[i] \in AllocatedOperations
                 /\ timing.spans[i].start \in Nat /\ timing.spans[i].end \in Nat
                 /\ timing.spans[i].start < timing.spans[i].end
                 /\ timing.spans[i].end <= timing.peak
           /\ \A i, j \in DOMAIN circuit :
                 i < j /\ Touched(circuit[i]) \cap Touched(circuit[j]) # {} =>
                     timing.spans[i].end <= timing.spans[j].start
<1>1. circuit \in Circuits /\ timing \in Timings(circuit)
  BY DEF Timed, Arguments
<1>2. QubitCount \in Nat /\ Slots = 0 .. QubitCount - 1
  BY SlotsAreFinite, SlotsAreNumbered, FS_CardinalityType DEF QubitCount
<1>3. Len(circuit) \in Nat /\ DOMAIN circuit = 1 .. Len(circuit)
      /\ \A i \in DOMAIN circuit : circuit[i] \in AllocatedOperations
  BY ArgumentFacts DEF Timed
<1>4. Places = Len(circuit) + QubitCount /\ Places \in Nat
  BY <1>2, <1>3 DEF Places
<1>5. QED BY <1>1, <1>2, <1>3, <1>4, TimingsAreSchedules

LEMMA TouchedFacts ==
    ASSUME NEW operation \in AllocatedOperations
    PROVE  /\ Touched(operation) \in SUBSET Slots /\ operation.targets[1] \in Touched(operation)
           /\ operation.opcode = "CX" => operation.control \in Touched(operation)
<1>1. /\ operation.targets \in Seq(Slots) /\ 1 \in DOMAIN operation.targets
      /\ operation.control \in Slots
  BY FirstTarget DEF AllocatedOperations
<1>2. ToSet(operation.targets) \subseteq Slots /\ operation.targets[1] \in ToSet(operation.targets)
  BY <1>1 DEF ToSet
<1>3. QED BY <1>1, <1>2 DEF Touched

\* What is at a moment, and whether nothing happens.
MomentSlots(i) ==
    IF PlaceOf(i) < Len(circuit) THEN Touched(circuit[PlaceOf(i) + 1])
    ELSE {PlaceOf(i) - Len(circuit)}

Rests(i) ==
    IF PlaceOf(i) < Len(circuit) THEN timing.spans[PlaceOf(i) + 1].start # TickOf(i)
    ELSE UsedAt(PlaceOf(i) - Len(circuit), TickOf(i))

MomentSteps == [i \in 1 .. Moments |-> [D \in Densities |-> AtMoment(D, i - 1)]]

LEMMA MomentPlaces ==
    ASSUME Timed, NEW i \in 1 .. Moments
    PROVE  /\ TickOf(i) \in 0 .. timing.peak - 1 /\ PlaceOf(i) \in 0 .. Places - 1
           /\ PlaceOf(i) < Len(circuit) => PlaceOf(i) + 1 \in DOMAIN circuit
           /\ ~ (PlaceOf(i) < Len(circuit)) => PlaceOf(i) - Len(circuit) \in Slots
<1>1. TickOf(i) \in 0 .. timing.peak - 1 /\ PlaceOf(i) \in 0 .. Places - 1
  BY TimedFacts, MomentNumbers
<1>2. /\ Len(circuit) \in Nat /\ DOMAIN circuit = 1 .. Len(circuit) /\ Slots = 0 .. QubitCount - 1
      /\ Places = Len(circuit) + QubitCount /\ QubitCount \in Nat
  BY TimedFacts
<1>3. QED BY <1>1, <1>2

\* An operation that starts.
LEMMA MomentOfOperation ==
    ASSUME Timed, NEW i \in 1 .. Moments, NEW D \in Densities, PlaceOf(i) < Len(circuit)
    PROVE  MomentSteps[i][D] = IF Rests(i) THEN D ELSE EvolvedBy(D, circuit[PlaceOf(i) + 1])
<1> DEFINE k == PlaceOf(i) + 1
<1>1. MomentSteps[i][D] = AtMoment(D, i - 1)
  BY DEF MomentSteps
<1>2. AtMoment(D, i - 1) = IF timing.spans[k].start = TickOf(i) THEN OperationAt(D, k) ELSE D
  BY DEF AtMoment, PlaceOf, TickOf
<1>3. OperationAt(D, k) = EvolvedBy(D, circuit[k])
  BY DEF OperationAt, EvolvedBy, Acts
<1>4. Rests(i) <=> timing.spans[k].start # TickOf(i)
  BY DEF Rests
<1> HIDE DEF k
<1>5. MomentSteps[i][D] = IF Rests(i) THEN D ELSE EvolvedBy(D, circuit[k])
  BY <1>1, <1>2, <1>3, <1>4
<1>6. QED BY <1>5 DEF k

\* A slot that no operation is using.
LEMMA MomentOfSlot ==
    ASSUME Timed, NEW i \in 1 .. Moments, NEW D \in Densities, ~ (PlaceOf(i) < Len(circuit))
    PROVE  MomentSteps[i][D]
             = IF Rests(i) THEN D ELSE DecayFor(D, PlaceOf(i) - Len(circuit), 1, timing.decay)
<1> DEFINE slot == PlaceOf(i) - Len(circuit)
           one == DecayFor(D, slot, 1, timing.decay)
<1>1. MomentSteps[i][D] = AtMoment(D, i - 1)
  BY DEF MomentSteps
<1>2. AtMoment(D, i - 1) = IF UsedAt(slot, TickOf(i)) THEN D ELSE DecayOneTick(D, slot)
  BY DEF AtMoment, PlaceOf, TickOf
<1>3. slot \in Slots
  BY MomentPlaces
<1>4. one \in Densities
  <2> HIDE DEF slot
  <2>1. QED BY <1>3, DecayFades
<1>5. DecayOneTick(D, slot) = CHOOSE d \in {one} : d \in Densities
  <2> HIDE DEF slot
  <2>1. QED BY DEF DecayOneTick, DecayFor
<1>6. Rests(i) <=> UsedAt(slot, TickOf(i))
  BY DEF Rests
<1> HIDE DEF slot, one
<1>7. DecayOneTick(D, slot) = one
  BY <1>4, <1>5
<1>8. QED BY <1>1, <1>2, <1>6, <1>7 DEF slot, one

\* A moment is built on its slots, and at rest it changes nothing.
LEMMA MomentFacts ==
    ASSUME Timed, NEW i \in 1 .. Moments
    PROVE  /\ MomentSlots(i) \in SUBSET Slots /\ Built(MomentSteps[i], MomentSlots(i))
           /\ Rests(i) => \A D \in Densities : MomentSteps[i][D] = D
<1> DEFINE F == MomentSteps[i]
<1>1. F = [D \in Densities |-> F[D]]
  BY DEF MomentSteps
<1>2. ASSUME Rests(i) PROVE \A D \in Densities : F[D] = D
  BY <1>2, MomentOfOperation, MomentOfSlot
<1>3. MomentSlots(i) \in SUBSET Slots
  <2>1. CASE PlaceOf(i) < Len(circuit)
    <3>1. circuit[PlaceOf(i) + 1] \in AllocatedOperations
      BY <2>1, MomentPlaces, TimedFacts
    <3>2. QED BY <2>1, <3>1, TouchedFacts DEF MomentSlots
  <2>2. CASE ~ (PlaceOf(i) < Len(circuit))
    BY <2>2, MomentPlaces DEF MomentSlots
  <2>3. QED BY <2>1, <2>2
<1>4. Built(F, MomentSlots(i))
  <2>1. CASE Rests(i)
    <3> HIDE DEF F
    <3>1. F = IdentityOn
      BY <1>1, <1>2, <2>1 DEF IdentityOn
    <3>2. IdentityOn \in SuperOperators /\ Elementary(IdentityOn, MomentSlots(i))
      BY DEF IdentityOn, SuperOperators, Elementary
    <3>3. QED BY <3>1, <3>2, ElementaryIsBuilt
  <2>2. CASE ~ Rests(i) /\ PlaceOf(i) < Len(circuit)
    <3> DEFINE o == circuit[PlaceOf(i) + 1]
    <3>1. o \in AllocatedOperations /\ MomentSlots(i) = Touched(o)
      BY <2>2, MomentPlaces, TimedFacts DEF MomentSlots
    <3>2. \A D \in Densities : F[D] = EvolvedBy(D, o)
      BY <2>2, MomentOfOperation
    <3> HIDE DEF F, o
    <3>3. F = [D \in Densities |-> EvolvedBy(D, o)]
      BY <1>1, <3>2
    <3>4. o.targets[1] \in Touched(o) /\ (o.opcode = "CX" => o.control \in Touched(o))
      BY <3>1, TouchedFacts
    <3>5. Arguments
      BY DEF Timed
    <3>6. QED BY <3>1, <3>3, <3>4, <3>5, OperationIsBuilt
  <2>3. CASE ~ Rests(i) /\ ~ (PlaceOf(i) < Len(circuit))
    <3> DEFINE slot == PlaceOf(i) - Len(circuit)
    <3>1. slot \in Slots /\ MomentSlots(i) = {slot}
      BY <2>3, MomentPlaces DEF MomentSlots
    <3>2. \A D \in Densities : F[D] = DecayFor(D, slot, 1, timing.decay)
      BY <2>3, MomentOfSlot
    <3> HIDE DEF F, slot
    <3>3. F = DecayOn(slot, timing.decay)
      BY <1>1, <3>2 DEF DecayOn
    <3>4. QED BY <3>1, <3>3, DecayIsBuilt
  <2>4. QED BY <2>1, <2>2, <2>3
<1>5. QED BY <1>2, <1>3, <1>4

\* The moments of a set, taken in time.
Made(v, S) == StepsReach(v, Moments, Densities, GroundDensity, MomentSteps, S)

LEMMA StepsAreOperators ==
    ASSUME Timed
    PROVE  /\ MomentSteps \in [1 .. Moments -> [Densities -> Densities]]
           /\ GroundDensity \in Densities /\ Moments \in Nat
<1>1. Moments \in Nat
  BY TimedFacts, MomentNumbers
<1>2. GroundDensity \in Densities
  BY DEF GroundDensity, Densities, States
<1>3. \A i \in 1 .. Moments : MomentSteps[i] \in SuperOperators
  BY MomentFacts, BuiltTypes
<1>4. MomentSteps = [i \in 1 .. Moments |-> MomentSteps[i]]
  BY DEF MomentSteps
<1>5. QED BY <1>1, <1>2, <1>3, <1>4 DEF SuperOperators

LEMMA MadeType == ASSUME Timed, NEW S, NEW v, Made(v, S) PROVE v \in Densities
BY StepsAreOperators DEF Made, StepsReach

LEMMA MadeSame ==
    ASSUME Timed, NEW S, NEW T, NEW v, Made(v, S),
           \A i \in 1 .. Moments : (i \in S <=> i \in T) \/ Rests(i)
    PROVE  Made(v, T)
<1>1. \A i \in 1 .. Moments : (i \in S <=> i \in T) \/ \A D \in Densities : MomentSteps[i][D] = D
  BY MomentFacts
<1>2. Moments \in Nat
  BY StepsAreOperators
<1>3. QED BY <1>1, <1>2, ReachesSame DEF Made

\* A moment may be taken late if no later one is on its slots.
LEMMA MadeMore ==
    ASSUME Timed, NEW S, NEW v, Made(v, S), NEW k \in 1 .. Moments, k \notin S,
           \A i \in 1 .. Moments :
               i > k /\ i \in S => Rests(i) \/ MomentSlots(k) \cap MomentSlots(i) = {}
    PROVE  Made(MomentSteps[k][v], S \union {k})
<1>1. ASSUME NEW i \in 1 .. Moments, i > k /\ i \in S, NEW D \in Densities
      PROVE  MomentSteps[k][MomentSteps[i][D]] = MomentSteps[i][MomentSteps[k][D]]
  <2>1. CASE Rests(i)
    <3>1. MomentSteps[i][D] = D /\ MomentSteps[k][D] \in Densities
      BY <2>1, MomentFacts, StepsAreOperators
    <3>2. MomentSteps[i][MomentSteps[k][D]] = MomentSteps[k][D]
      BY <2>1, <3>1, MomentFacts
    <3>3. QED BY <3>1, <3>2
  <2>2. CASE MomentSlots(k) \cap MomentSlots(i) = {}
    <3>1. Commute(MomentSteps[k], MomentSteps[i])
      BY <2>2, MomentFacts, BuiltCommute
    <3>2. QED BY <3>1 DEF Commute
  <2>3. QED BY <1>1, <2>1, <2>2
<1>2. /\ MomentSteps \in [1 .. Moments -> [Densities -> Densities]]
      /\ GroundDensity \in Densities /\ Moments \in Nat
  BY StepsAreOperators
<1>3. \A i \in 1 .. Moments : i > k /\ i \in S =>
         \A D \in Densities : MomentSteps[k][MomentSteps[i][D]] = MomentSteps[i][MomentSteps[k][D]]
  BY <1>1
<1>4. QED BY <1>2, <1>3, ReachesMore DEF Made

-----------------------------------------------------------------------------
(* The moments the loop of the NumPy backend has caught up with.             *)

\* Operations before p, and the decay of each slot up to its end.
CaughtUp(p, ends) ==
    {i \in 1 .. Moments : IF PlaceOf(i) < Len(circuit) THEN PlaceOf(i) + 1 < p
                          ELSE TickOf(i) < ends[PlaceOf(i) - Len(circuit)]}

\* No slot's end lies before the operations on it have ended.
Covers(p, ends) ==
    /\ ends \in [Slots -> Nat]
    /\ \A i \in DOMAIN circuit : i < p =>
          \A s \in Touched(circuit[i]) : timing.spans[i].end <= ends[s]

\* No operation uses the slot between these times.
Free(s, from, until) ==
    \A i \in DOMAIN circuit : s \in Touched(circuit[i]) =>
        timing.spans[i].end <= from \/ until <= timing.spans[i].start

\* One unit of decay.
LEMMA OneMoreTick ==
    ASSUME Timed, NEW p, p \in Nat, NEW ends, Covers(p, ends), NEW s \in Slots,
           NEW until \in Nat, ends[s] < until, until <= timing.peak, Free(s, ends[s], until),
           NEW v, Made(v, CaughtUp(p, ends))
    PROVE  Made(DecayFor(v, s, 1, timing.decay), CaughtUp(p, [ends EXCEPT ![s] = @ + 1]))
<1> DEFINE tick == ends[s]
           place == Len(circuit) + s
           k == MomentOf(tick, place)
           more == [ends EXCEPT ![s] = @ + 1]
           S == CaughtUp(p, ends)
<1>1. /\ timing.peak \in Nat /\ Len(circuit) \in Nat /\ QubitCount \in Nat
      /\ Places = Len(circuit) + QubitCount /\ Places \in Nat /\ Slots = 0 .. QubitCount - 1
  BY TimedFacts
<1>2. ends \in [Slots -> Nat] /\ tick \in Nat /\ tick \in 0 .. timing.peak - 1
  BY <1>1 DEF Covers
<1>3. place \in 0 .. Places - 1 /\ ~ (place < Len(circuit)) /\ place - Len(circuit) = s
  BY <1>1
<1>4. k \in 1 .. Moments /\ TickOf(k) = tick /\ PlaceOf(k) = place
  <2> HIDE DEF tick, place
  <2>1. QED BY <1>1, <1>2, <1>3, MomentNumbers
<1> HIDE DEF tick, place, k
<1>5. ~ Rests(k)
  <2>1. ~ UsedAt(s, tick)
    <3> SUFFICES ASSUME UsedAt(s, tick) PROVE FALSE
      OBVIOUS
    <3>1. PICK i \in DOMAIN circuit : /\ s \in Touched(circuit[i])
                                      /\ timing.spans[i].start <= tick /\ tick < timing.spans[i].end
      BY DEF UsedAt
    <3>2. timing.spans[i].end <= tick \/ until <= timing.spans[i].start
      BY <3>1 DEF Free, tick
    <3>3. timing.spans[i].start \in Nat /\ timing.spans[i].end \in Nat /\ tick < until
      BY TimedFacts DEF tick
    <3>4. QED BY <1>2, <3>1, <3>2, <3>3
  <2>2. QED BY <1>3, <1>4, <2>1 DEF Rests
<1>6. k \notin S
  <2>1. k \in S => tick < ends[s]
    BY <1>3, <1>4 DEF CaughtUp
  <2>2. QED BY <1>2, <2>1 DEF tick
<1>7. v \in Densities
  BY MadeType
<1>8. MomentSteps[k][v] = DecayFor(v, s, 1, timing.decay)
  BY <1>3, <1>4, <1>5, <1>7, MomentOfSlot
<1>9. ASSUME NEW i \in 1 .. Moments, i > k /\ i \in S
      PROVE  Rests(i) \/ MomentSlots(k) \cap MomentSlots(i) = {}
  <2>1. MomentSlots(k) = {s}
    BY <1>3, <1>4 DEF MomentSlots
  <2>2. i >= k
    BY <1>9, <1>4, <1>1, MomentNumbers
  <2>3. TickOf(i) >= tick /\ TickOf(i) \in Nat
    BY <1>1, <1>4, <2>2, MomentNumbers
  <2>4. CASE PlaceOf(i) < Len(circuit)
    <3> DEFINE o == PlaceOf(i) + 1
    <3>1. o \in DOMAIN circuit /\ o < p /\ MomentSlots(i) = Touched(circuit[o])
      BY <1>9, <2>4, MomentPlaces DEF CaughtUp, MomentSlots
    <3> HIDE DEF o
    <3>2. s \in Touched(circuit[o]) => timing.spans[o].end <= tick
      BY <3>1 DEF Covers, tick
    <3>3. /\ timing.spans[o].start \in Nat /\ timing.spans[o].end \in Nat
          /\ timing.spans[o].start < timing.spans[o].end
      BY <3>1, TimedFacts
    <3>4. s \in Touched(circuit[o]) => timing.spans[o].start # TickOf(i)
      BY <1>2, <2>3, <3>2, <3>3
    <3>5. timing.spans[o].start # TickOf(i) => Rests(i)
      BY <2>4 DEF Rests, o
    <3>6. QED BY <2>1, <3>1, <3>4, <3>5
  <2>5. CASE ~ (PlaceOf(i) < Len(circuit))
    <3>1. TickOf(i) < ends[PlaceOf(i) - Len(circuit)] /\ MomentSlots(i) = {PlaceOf(i) - Len(circuit)}
      BY <1>9, <2>5 DEF CaughtUp, MomentSlots
    <3>2. PlaceOf(i) - Len(circuit) # s
      BY <1>2, <2>3, <3>1 DEF tick
    <3>3. QED BY <2>1, <3>1, <3>2
  <2>6. QED BY <2>4, <2>5
<1>10. Made(DecayFor(v, s, 1, timing.decay), S \union {k})
  BY <1>4, <1>6, <1>8, <1>9, MadeMore
<1>11. S \union {k} = CaughtUp(p, more)
  <2>1. ASSUME NEW i \in 1 .. Moments PROVE i \in S \union {k} <=> i \in CaughtUp(p, more)
    <3> DEFINE slot == PlaceOf(i) - Len(circuit)
    <3>1. CASE PlaceOf(i) < Len(circuit)
      <4>1. i # k
        BY <1>3, <1>4, <3>1
      <4>2. QED BY <3>1, <4>1 DEF CaughtUp
    <3>2. CASE ~ (PlaceOf(i) < Len(circuit))
      <4>1. /\ i \in S <=> TickOf(i) < ends[slot]
            /\ i \in CaughtUp(p, more) <=> TickOf(i) < more[slot]
            /\ slot \in Slots /\ TickOf(i) \in Nat /\ PlaceOf(i) \in Nat
        BY <3>2, MomentPlaces, <1>1 DEF CaughtUp
      <4>2. CASE slot # s
        <5>1. more[slot] = ends[slot]
          BY <1>2, <4>1, <4>2
        <5>2. i # k
          BY <1>3, <1>4, <4>2
        <5>3. QED BY <4>1, <5>1, <5>2
      <4>3. CASE slot = s
        <5>1. more[s] = tick + 1 /\ ends[s] = tick
          BY <1>2 DEF tick
        <5>2. PlaceOf(i) = place
          BY <1>1, <4>1, <4>3 DEF place
        <5>3. TickOf(i) = tick => i = k
          BY <1>1, <5>2, MomentNumbers DEF k
        <5>4. i = k => TickOf(i) = tick
          BY <1>4
        <5>5. QED BY <1>2, <4>1, <4>3, <5>1, <5>3, <5>4
      <4>4. QED BY <4>2, <4>3
    <3>3. QED BY <3>1, <3>2
  <2>2. S \union {k} \subseteq 1 .. Moments /\ CaughtUp(p, more) \subseteq 1 .. Moments
    BY <1>4 DEF CaughtUp
  <2> HIDE DEF S, more
  <2>3. QED BY <2>1, <2>2
<1>12. QED BY <1>10, <1>11

\* The decay of a slot over the time in which no operation uses it.
LEMMA DecayTaken ==
    ASSUME Timed, NEW p, p \in Nat, NEW ends, Covers(p, ends), NEW s \in Slots,
           NEW until \in Nat, ends[s] <= until, until <= timing.peak, Free(s, ends[s], until),
           NEW v, Made(v, CaughtUp(p, ends))
    PROVE  Made(DecayFor(v, s, until - ends[s], timing.decay),
                CaughtUp(p, [ends EXCEPT ![s] = until]))
<1> DEFINE from == ends[s]
           At(d) == [ends EXCEPT ![s] = from + d]
           Q == {d \in Nat : from + d <= until =>
                    Made(DecayFor(v, s, d, timing.decay), CaughtUp(p, At(d)))}
<1>1. ends \in [Slots -> Nat] /\ from \in Nat /\ v \in Densities
  BY MadeType DEF Covers
<1>2. 0 \in Q
  <2>1. At(0) = ends
    BY <1>1
  <2>2. DecayFor(v, s, 0, timing.decay) = v
    BY <1>1, DecayOfNothing
  <2> HIDE DEF At
  <2>3. QED BY <2>1, <2>2
<1>3. ASSUME NEW d \in Nat, d \in Q PROVE d + 1 \in Q
  <2> HIDE DEF At, from
  <2> SUFFICES ASSUME from + (d + 1) <= until
               PROVE  Made(DecayFor(v, s, d + 1, timing.decay), CaughtUp(p, At(d + 1)))
    OBVIOUS
  <2> USE DEF At, from
  <2> DEFINE e == At(d)
             D == DecayFor(v, s, d, timing.decay)
  <2>1. Made(D, CaughtUp(p, e))
    BY <1>1, <1>3
  <2>2. e \in [Slots -> Nat] /\ e[s] = from + d /\ \A t \in Slots : t # s => e[t] = ends[t]
    BY <1>1
  <2>3. At(d + 1) = [e EXCEPT ![s] = @ + 1]
    BY <1>1
  <2> HIDE DEF e, At, Q
  <2>4. Covers(p, e)
    <3>1. \A t \in Slots : ends[t] \in Nat /\ e[t] \in Nat /\ ends[t] <= e[t]
      BY <1>1, <2>2
    <3>2. ASSUME NEW i \in DOMAIN circuit, i < p, NEW t \in Touched(circuit[i])
          PROVE  timing.spans[i].end <= e[t]
      <4>1. circuit[i] \in AllocatedOperations /\ timing.spans[i].end \in Nat
        BY TimedFacts
      <4>2. t \in Slots
        BY <4>1, TouchedFacts
      <4>3. timing.spans[i].end <= ends[t]
        BY <3>2 DEF Covers
      <4>4. QED BY <3>1, <4>1, <4>2, <4>3
    <3>3. QED BY <2>2, <3>2 DEF Covers
  <2>5. Free(s, e[s], until)
    <3>1. \A i \in DOMAIN circuit : timing.spans[i].end \in Nat
      BY TimedFacts
    <3>2. QED BY <1>1, <2>2, <3>1 DEF Free
  <2>6. e[s] < until
    BY <1>1, <2>2
  <2>7. Made(DecayFor(D, s, 1, timing.decay), CaughtUp(p, [e EXCEPT ![s] = @ + 1]))
    <3> HIDE DEF D
    <3>1. QED BY <2>1, <2>4, <2>5, <2>6, OneMoreTick
  <2>8. DecayFor(D, s, 1, timing.decay) = DecayFor(v, s, d + 1, timing.decay)
    BY <1>1, DecayOneMore
  <2>9. QED BY <2>3, <2>7, <2>8
<1>4. Nat \subseteq Q
  <2> HIDE DEF Q
  <2>1. QED BY <1>2, <1>3, SetInduction
<1>5. until - from \in Nat /\ from + (until - from) = until
  BY <1>1
<1>6. Made(DecayFor(v, s, until - from, timing.decay), CaughtUp(p, At(until - from)))
  <2> HIDE DEF At
  <2>1. QED BY <1>1, <1>4, <1>5
<1>7. At(until - from) = [ends EXCEPT ![s] = until]
  BY <1>5
<1>8. QED BY <1>6, <1>7

\* The operation the loop is at, once its slots have waited.
LEMMA OperationTaken ==
    ASSUME Timed, NEW p \in DOMAIN circuit, NEW ends, Covers(p, ends),
           \A s \in Touched(circuit[p]) : ends[s] = timing.spans[p].start,
           NEW v, Made(v, CaughtUp(p, ends)), NEW after,
           after = [s \in Slots |-> IF s \in Touched(circuit[p]) THEN timing.spans[p].end
                                    ELSE ends[s]]
    PROVE  Made(EvolvedBy(v, circuit[p]), CaughtUp(p + 1, after)) /\ Covers(p + 1, after)
<1> DEFINE start == timing.spans[p].start
           end == timing.spans[p].end
           slots == Touched(circuit[p])
           k == MomentOf(start, p - 1)
           S == CaughtUp(p, ends)
<1>1. /\ timing.peak \in Nat /\ Len(circuit) \in Nat /\ QubitCount \in Nat
      /\ Places = Len(circuit) + QubitCount /\ Places \in Nat /\ DOMAIN circuit = 1 .. Len(circuit)
  BY TimedFacts
<1>2. /\ p \in Nat \ {0} /\ p - 1 \in 0 .. Places - 1 /\ p - 1 < Len(circuit) /\ (p - 1) + 1 = p
      /\ p + 1 \in Nat
  BY <1>1
<1>3. /\ start \in Nat /\ end \in Nat /\ start < end /\ end <= timing.peak
      /\ circuit[p] \in AllocatedOperations
  BY TimedFacts
<1>4. ends \in [Slots -> Nat] /\ slots \in SUBSET Slots /\ \A s \in slots : ends[s] = start
  BY <1>3, TouchedFacts DEF Covers
<1>5. k \in 1 .. Moments /\ TickOf(k) = start /\ PlaceOf(k) = p - 1
  <2>1. start \in 0 .. timing.peak - 1
    BY <1>1, <1>3
  <2> HIDE DEF start
  <2>2. QED BY <1>1, <1>2, <2>1, MomentNumbers
<1> HIDE DEF k
<1>6. ~ Rests(k) /\ MomentSlots(k) = slots
  BY <1>2, <1>5 DEF Rests, MomentSlots
<1>7. k \notin S
  BY <1>2, <1>5 DEF CaughtUp
<1>8. v \in Densities
  BY MadeType
<1>9. MomentSteps[k][v] = EvolvedBy(v, circuit[p])
  BY <1>2, <1>5, <1>6, <1>8, MomentOfOperation
<1>10. ASSUME NEW i \in 1 .. Moments, i > k /\ i \in S
       PROVE  Rests(i) \/ MomentSlots(k) \cap MomentSlots(i) = {}
  <2>1. i >= k
    BY <1>10, <1>5, <1>1, MomentNumbers
  <2>2. TickOf(i) >= start /\ TickOf(i) \in Nat
    BY <1>1, <1>5, <2>1, MomentNumbers
  <2>3. CASE PlaceOf(i) < Len(circuit)
    <3> DEFINE o == PlaceOf(i) + 1
    <3>1. o \in DOMAIN circuit /\ o < p /\ MomentSlots(i) = Touched(circuit[o])
      BY <1>10, <2>3, MomentPlaces DEF CaughtUp, MomentSlots
    <3>2. timing.spans[o].start # TickOf(i) => Rests(i)
      BY <2>3 DEF Rests
    <3> HIDE DEF o
    <3>3. Touched(circuit[o]) \cap slots # {} => timing.spans[o].end <= start
      BY <3>1, TimedFacts
    <3>4. /\ timing.spans[o].start \in Nat /\ timing.spans[o].end \in Nat
          /\ timing.spans[o].start < timing.spans[o].end
      BY <3>1, TimedFacts
    <3>5. Touched(circuit[o]) \cap slots # {} => timing.spans[o].start # TickOf(i)
      BY <1>3, <2>2, <3>3, <3>4
    <3>6. QED BY <1>6, <3>1, <3>2, <3>5
  <2>4. CASE ~ (PlaceOf(i) < Len(circuit))
    <3>1. TickOf(i) < ends[PlaceOf(i) - Len(circuit)] /\ MomentSlots(i) = {PlaceOf(i) - Len(circuit)}
      BY <1>10, <2>4 DEF CaughtUp, MomentSlots
    <3>2. PlaceOf(i) - Len(circuit) \notin slots
      BY <1>3, <1>4, <2>2, <3>1
    <3>3. QED BY <1>6, <3>1, <3>2
  <2>5. QED BY <2>3, <2>4
<1>11. Made(EvolvedBy(v, circuit[p]), S \union {k})
  BY <1>5, <1>7, <1>9, <1>10, MadeMore
<1>12. ASSUME NEW i \in 1 .. Moments
       PROVE  (i \in S \union {k} <=> i \in CaughtUp(p + 1, after)) \/ Rests(i)
  <2>1. TickOf(i) \in Nat /\ PlaceOf(i) \in Nat
    BY <1>1, MomentPlaces
  <2>2. CASE PlaceOf(i) < Len(circuit)
    <3>1. /\ i \in S <=> PlaceOf(i) + 1 < p
          /\ i \in CaughtUp(p + 1, after) <=> PlaceOf(i) + 1 < p + 1
      BY <2>2 DEF CaughtUp
    <3>2. CASE PlaceOf(i) + 1 = p
      <4>1. Rests(i) \/ TickOf(i) = start
        BY <2>2, <3>2 DEF Rests
      <4>2. TickOf(i) = start => i = k
        <5>1. PlaceOf(i) = p - 1
          BY <1>2, <2>1, <3>2
        <5>2. QED BY <1>1, <5>1, MomentNumbers DEF k
      <4>3. i \in CaughtUp(p + 1, after)
        BY <1>2, <3>1, <3>2
      <4>4. QED BY <4>1, <4>2, <4>3
    <3>3. CASE PlaceOf(i) + 1 # p
      <4>1. i # k
        BY <1>2, <1>5, <3>3
      <4>2. PlaceOf(i) + 1 < p <=> PlaceOf(i) + 1 < p + 1
        BY <1>2, <2>1, <3>3
      <4>3. QED BY <3>1, <4>1, <4>2
    <3>4. QED BY <3>2, <3>3
  <2>3. CASE ~ (PlaceOf(i) < Len(circuit))
    <3> DEFINE slot == PlaceOf(i) - Len(circuit)
    <3>1. /\ i \in S <=> TickOf(i) < ends[slot]
          /\ i \in CaughtUp(p + 1, after) <=> TickOf(i) < after[slot]
          /\ slot \in Slots /\ i # k
      BY <1>2, <1>5, <2>3, MomentPlaces DEF CaughtUp
    <3>2. Rests(i) <=> UsedAt(slot, TickOf(i))
      BY <2>3 DEF Rests
    <3> HIDE DEF slot
    <3>3. CASE slot \notin slots
      BY <3>1, <3>3
    <3>4. CASE slot \in slots
      <4>1. after[slot] = end /\ ends[slot] = start
        BY <1>4, <3>1, <3>4
      <4>2. start <= TickOf(i) /\ TickOf(i) < end => UsedAt(slot, TickOf(i))
        BY <3>4 DEF UsedAt
      <4>3. QED BY <1>3, <2>1, <3>1, <3>2, <4>1, <4>2
    <3>5. QED BY <3>3, <3>4
  <2>4. QED BY <2>2, <2>3
<1>13. Made(EvolvedBy(v, circuit[p]), CaughtUp(p + 1, after))
  <2> DEFINE T == CaughtUp(p + 1, after)
             R == S \union {k}
  <2>1. Made(EvolvedBy(v, circuit[p]), R) /\ \A i \in 1 .. Moments : (i \in R <=> i \in T) \/ Rests(i)
    BY <1>11, <1>12
  <2> HIDE DEF R, T
  <2>2. Made(EvolvedBy(v, circuit[p]), T)
    BY <2>1, MadeSame
  <2>3. QED BY <2>2 DEF T
<1>14. Covers(p + 1, after)
  <2>1. after \in [Slots -> Nat]
    BY <1>3, <1>4
  <2>2. ASSUME NEW i \in DOMAIN circuit, i < p + 1, NEW s \in Touched(circuit[i])
        PROVE  timing.spans[i].end <= after[s]
    <3>1. circuit[i] \in AllocatedOperations /\ timing.spans[i].end \in Nat
      BY TimedFacts
    <3>2. s \in Slots
      BY <3>1, TouchedFacts
    <3>3. CASE i = p
      <4>1. after[s] = end
        BY <2>2, <3>2, <3>3
      <4>2. QED BY <3>1, <3>3, <4>1
    <3>4. CASE i # p
      <4>1. i < p
        BY <1>1, <1>2, <2>2, <3>4
      <4>2. timing.spans[i].end <= ends[s]
        BY <2>2, <4>1 DEF Covers
      <4>3. CASE s \in slots
        <5>1. timing.spans[i].end <= start /\ after[s] = end
          BY <1>4, <3>2, <4>2, <4>3
        <5>2. QED BY <1>3, <3>1, <5>1
      <4>4. CASE s \notin slots
        BY <3>2, <4>2, <4>4
      <4>5. QED BY <4>3, <4>4
    <3>5. QED BY <3>3, <3>4
  <2>3. QED BY <2>1, <2>2 DEF Covers
<1>15. QED BY <1>13, <1>14

\* The circuit run in time takes every moment.
LEMMA InTimeIsMade == ASSUME Timed PROVE Made(InTime, 1 .. Moments)
<1> DEFINE n == Moments
           choice == [s \in SUBSET (1 .. n) |-> Max(s)]
           Next(g) == [s \in SUBSET (1 .. n) |->
                          IF s = {} THEN GroundDensity
                          ELSE AtMoment(g[s \ {Max(s)}], Max(s) - 1)]
           h == CHOOSE g : g = Next(g)
<1>1. /\ MomentSteps \in [1 .. n -> [Densities -> Densities]]
      /\ GroundDensity \in Densities /\ n \in Nat
  BY StepsAreOperators
<1>2. \A i \in 1 .. n : \A D \in Densities : MomentSteps[i][D] = AtMoment(D, i - 1)
  BY DEF MomentSteps
<1>3. InTime = h[1 .. n]
  <2> DEFINE seq == [i \in 1 .. n |-> i - 1]
  <2>1. InTime = FoldLeft(AtMoment, GroundDensity, seq)
    BY DEF InTime, Moments
  <2>2. DOMAIN seq = 1 .. n /\ \A i \in 1 .. n : seq[i] = i - 1
    OBVIOUS
  <2>3. \A s \in SUBSET (1 .. n) : s # {} => Max(s) \in 1 .. n
    BY <1>1, PrefixFacts DEF Chooses
  <2> DEFINE Other(g) == [s \in SUBSET (1 .. n) |->
                            IF s = {} THEN GroundDensity
                            ELSE AtMoment(g[s \ {Max(s)}], seq[Max(s)])]
  <2>4. ASSUME NEW g PROVE Other(g) = Next(g)
    BY <2>2, <2>3
  <2>5. FoldLeft(AtMoment, GroundDensity, seq) = (CHOOSE g : g = Other(g))[1 .. n]
    <3> HIDE DEF seq
    <3>1. QED BY <2>2 DEF FoldLeft, MapThenFoldSet
  <2> HIDE DEF Other, Next, seq
  <2>6. (CHOOSE g : g = Other(g)) = CHOOSE g : g = Next(g)
    BY <2>4
  <2>7. QED BY <2>1, <2>5, <2>6
<1>4. \E g : g = Next(g)
  <2>1. Chooses(choice, 1 .. n)
    BY <1>1, PrefixFacts
  <2>2. IsFiniteSet(1 .. n)
    BY <1>1, FS_Interval
  <2>3. PICK g \in [SUBSET (1 .. n) -> Densities] :
            FoldsTo(g, 1 .. n, choice, GroundDensity, MomentSteps)
    <3> HIDE DEF choice, n
    <3>1. QED BY <1>1, <2>1, <2>2, FoldHasSolution
  <2>4. ASSUME NEW s \in SUBSET (1 .. n) PROVE g[s] = Next(g)[s]
    <3>1. s # {} => Max(s) \in 1 .. n
      BY <2>1 DEF Chooses
    <3>2. s # {} => g[s] = MomentSteps[Max(s)][g[s \ {Max(s)}]]
      BY <2>3 DEF FoldsTo
    <3>3. g[s \ {Max(s)}] \in Densities
      BY <2>3
    <3>4. s # {} => g[s] = AtMoment(g[s \ {Max(s)}], Max(s) - 1)
      BY <1>2, <3>1, <3>2, <3>3
    <3>5. s = {} => g[s] = GroundDensity
      BY <2>3 DEF FoldsTo
    <3>6. QED BY <3>4, <3>5
  <2>5. g = Next(g)
    BY <2>4
  <2>6. QED BY <2>5
<1>5. h = Next(h)
  BY <1>4
<1> HIDE DEF h, n
<1>6. PICK w \in [0 .. n -> Densities] : Advances(w, n, GroundDensity, MomentSteps)
  BY <1>1, PrefixValues
<1>7. h[1 .. 0] = w[0]
  <2>1. 1 .. 0 = {} /\ {} \in SUBSET (1 .. n)
    OBVIOUS
  <2>2. h[{}] = GroundDensity
    BY <1>5
  <2>3. QED BY <1>6, <2>1, <2>2 DEF Advances
<1>8. ASSUME NEW i \in 1 .. n, h[1 .. i - 1] = w[i - 1] PROVE h[1 .. i] = w[i]
  <2>1. /\ Max(1 .. i) = i /\ (1 .. i) \ {i} = 1 .. i - 1 /\ 1 .. i # {}
        /\ 1 .. i \in SUBSET (1 .. n)
    BY <1>1, PrefixFacts
  <2>2. h[1 .. i] = AtMoment(h[1 .. i - 1], i - 1)
    BY <1>5, <2>1
  <2>3. i - 1 \in 0 .. n
    BY <1>1
  <2>4. w[i - 1] \in Densities
    BY <1>6, <2>3
  <2>5. w[i] = MomentSteps[i][w[i - 1]]
    BY <1>6 DEF Advances
  <2>6. QED BY <1>2, <1>8, <2>2, <2>4, <2>5
<1>9. SameSteps(h, w, n)
  BY <1>7, <1>8 DEF SameSteps
<1>10. \A i \in 0 .. n : h[1 .. i] = w[i]
  BY <1>1, <1>9, PrefixesAgree
<1>11. InTime = w[n]
  BY <1>1, <1>3, <1>10
<1>12. TakesSome(w, n, GroundDensity, MomentSteps, 1 .. n)
  BY <1>6 DEF TakesSome, Advances
<1>13. QED BY <1>6, <1>11, <1>12 DEF Made, StepsReach, n

\* A loop that has caught up with everything has made the circuit run in time.
LEMMA AllCaughtUp ==
    ASSUME Timed, NEW ends, ends = [s \in Slots |-> timing.peak], NEW v,
           Made(v, CaughtUp(Len(circuit) + 1, ends))
    PROVE  v = InTime
<1>1. ASSUME NEW i \in 1 .. Moments PROVE i \in CaughtUp(Len(circuit) + 1, ends)
  <2>1. /\ TickOf(i) \in 0 .. timing.peak - 1 /\ PlaceOf(i) \in Nat
        /\ ~ (PlaceOf(i) < Len(circuit)) => PlaceOf(i) - Len(circuit) \in Slots
        /\ Len(circuit) \in Nat /\ timing.peak \in Nat
    <3>1. Places \in Nat
      BY TimedFacts
    <3>2. QED BY <3>1, TimedFacts, MomentPlaces
  <2>2. CASE PlaceOf(i) < Len(circuit)
    <3>1. PlaceOf(i) + 1 < Len(circuit) + 1
      BY <2>1, <2>2
    <3>2. QED BY <2>2, <3>1 DEF CaughtUp
  <2>3. CASE ~ (PlaceOf(i) < Len(circuit))
    <3>1. TickOf(i) < ends[PlaceOf(i) - Len(circuit)]
      BY <2>1, <2>3
    <3>2. QED BY <2>3, <3>1 DEF CaughtUp
  <2>4. QED BY <2>2, <2>3
<1>2. CaughtUp(Len(circuit) + 1, ends) = 1 .. Moments
  BY <1>1 DEF CaughtUp
<1>3. Made(v, 1 .. Moments) /\ Made(InTime, 1 .. Moments)
  BY <1>2, InTimeIsMade
<1>4. Moments \in Nat
  BY StepsAreOperators
<1>5. QED BY <1>3, <1>4, ReachesOnce DEF Made

\* The decay of an array is the decay of the matrix it packs.
LEMMA DecayedIs ==
    ASSUME NEW array \in PackedMatrices, NEW slot \in Slots, NEW d \in Nat
    PROVE  /\ Decayed(array, slot, d) \in PackedMatrices
           /\ ReadMatrix(Decayed(array, slot, d)) = DecayFor(ReadMatrix(array), slot, d, timing.decay)
<1> DEFINE A == AmplitudeDamping(d)
           P == PhaseDamping(d)
           D == ReadMatrix(array)
           damped == IF "amplitude" \in timing.decay THEN ChannelDensity(array, slot, A) ELSE array
           dampedD == IF "amplitude" \in timing.decay THEN ApplyChannel(D, slot, A) ELSE D
           decayed == IF "phase" \in timing.decay THEN ChannelDensity(damped, slot, P) ELSE damped
<1>1. D \in Densities
  BY ReadMatrixFacts
<1>2. IsChannel(A) /\ IsChannel(P) /\ DOMAIN A = 1 .. 2 /\ DOMAIN P = 1 .. 2
  <2> HIDE DEF D
  <2>1. QED BY <1>1, DampingFades
<1>3. 2 \in Nat
  OBVIOUS
<1> HIDE DEF A, P
<1>4. damped \in PackedMatrices /\ ReadMatrix(damped) = dampedD
  <2>1. /\ ChannelDensity(array, slot, A) \in PackedMatrices
        /\ ReadMatrix(ChannelDensity(array, slot, A)) = ApplyChannel(D, slot, A)
    BY <1>2, <1>3, ChannelMatrixIs
  <2>2. QED BY <2>1
<1> HIDE DEF damped
<1>5. /\ decayed \in PackedMatrices
      /\ ReadMatrix(decayed) = IF "phase" \in timing.decay THEN ApplyChannel(dampedD, slot, P)
                               ELSE dampedD
  <2>1. /\ ChannelDensity(damped, slot, P) \in PackedMatrices
        /\ ReadMatrix(ChannelDensity(damped, slot, P)) = ApplyChannel(dampedD, slot, P)
    BY <1>2, <1>3, <1>4, ChannelMatrixIs
  <2>2. QED BY <1>4, <2>1
<1>6. Decayed(array, slot, d) = decayed
  BY DEF Decayed, decayed, damped, A, P
<1>7. DecayFor(D, slot, d, timing.decay)
        = IF "phase" \in timing.decay THEN ApplyChannel(dampedD, slot, P) ELSE dampedD
  BY DEF DecayFor, A, P
<1> HIDE DEF decayed, dampedD
<1>8. QED BY <1>5, <1>6, <1>7

\* Slots that are made to wait until a time that no operation on them has reached.
LEMMA WaitsTaken ==
    ASSUME Timed, ArraysIInv, NEW p, p \in Nat, Covers(p, lastEnd), NEW n \in Nat, NEW slots,
           slots \in [1 .. n -> Slots], \A i, j \in 1 .. n : slots[i] = slots[j] => i = j,
           NEW until \in Nat, until <= timing.peak,
           \A i \in 1 .. n : /\ lastEnd[slots[i]] <= until
                             /\ Free(slots[i], lastEnd[slots[i]], until),
           Made(ReadMatrix(matrix), CaughtUp(p, lastEnd)),
           NEW ends, ends = [s \in Slots |-> IF \E i \in 1 .. n : slots[i] = s THEN until
                                             ELSE lastEnd[s]]
    PROVE  /\ IdledUntil(slots, until).matrix \in PackedMatrices
           /\ Made(ReadMatrix(IdledUntil(slots, until).matrix), CaughtUp(p, ends))
           /\ Covers(p, ends)
<1>1. PICK w \in [0 .. n -> PackedMatrices] :
          IdlePath(w, slots, n, until) /\ IdledUntil(slots, until).matrix = w[n]
  BY IdledUntilPath
<1> DEFINE After(k) == [s \in Slots |-> IF \E i \in 1 .. k : slots[i] = s THEN until
                                        ELSE lastEnd[s]]
           Q == {k \in Nat : k <= n => /\ Made(ReadMatrix(w[k]), CaughtUp(p, After(k)))
                                       /\ Covers(p, After(k))}
<1>2. lastEnd \in [Slots -> Nat]
  BY DEF ArraysIInv
<1>3. 0 \in Q
  <2>1. After(0) = lastEnd
    BY <1>2
  <2>2. w[0] = matrix
    BY <1>1 DEF IdlePath
  <2> HIDE DEF After
  <2>3. QED BY <2>1, <2>2
<1>4. ASSUME NEW k \in Nat, k \in Q, k + 1 <= n
      PROVE  /\ Made(ReadMatrix(w[k + 1]), CaughtUp(p, After(k + 1)))
             /\ Covers(p, After(k + 1))
  <2> DEFINE s == slots[k + 1]
             e == After(k)
             more == After(k + 1)
  <2>1. Made(ReadMatrix(w[k]), CaughtUp(p, e)) /\ Covers(p, e)
    <3>1. k <= n
      BY <1>4
    <3> HIDE DEF After
    <3>2. QED BY <1>4, <3>1
  <2>2. /\ k + 1 \in 1 .. n /\ k \in 0 .. n /\ (k + 1) - 1 = k
        /\ s \in Slots /\ w[k] \in PackedMatrices
        /\ lastEnd[s] \in Nat /\ lastEnd[s] <= until /\ Free(s, lastEnd[s], until)
    <3>1. k + 1 \in 1 .. n /\ k \in 0 .. n /\ (k + 1) - 1 = k
      BY <1>4
    <3>2. QED BY <1>2, <3>1
  <2>3. e \in [Slots -> Nat] /\ more \in [Slots -> Nat]
    BY <1>2
  <2>4. e[s] = lastEnd[s]
    <3>1. \A i \in 1 .. k : i \in 1 .. n /\ i # k + 1
      BY <1>4
    <3>2. \A i \in 1 .. k : slots[i] # s
      BY <2>2, <3>1
    <3>3. QED BY <2>2, <3>2
  <2>5. more = [e EXCEPT ![s] = until]
    <3>1. 1 .. k + 1 = (1 .. k) \union {k + 1}
      OBVIOUS
    <3>2. ASSUME NEW t \in Slots PROVE more[t] = IF t = s THEN until ELSE e[t]
      BY <3>1
    <3> HIDE DEF e, more, s
    <3>3. QED BY <2>2, <2>3, <3>2
  <2>6. w[k + 1] = Idled(w[k], s, until)
    BY <1>1, <2>2 DEF IdlePath
  <2> HIDE DEF e, more, s
  <2>7. Made(ReadMatrix(w[k + 1]), CaughtUp(p, more))
    <3>1. CASE until > lastEnd[s]
      <4> DEFINE d == until - lastEnd[s]
      <4>1. d \in Nat /\ w[k + 1] = Decayed(w[k], s, d)
        BY <2>2, <2>6, <3>1 DEF Idled
      <4>2. ReadMatrix(w[k + 1]) = DecayFor(ReadMatrix(w[k]), s, d, timing.decay)
        <5> HIDE DEF d
        <5>1. QED BY <2>2, <4>1, DecayedIs
      <4>3. Made(DecayFor(ReadMatrix(w[k]), s, until - e[s], timing.decay),
                 CaughtUp(p, [e EXCEPT ![s] = until]))
        BY <2>1, <2>2, <2>4, DecayTaken
      <4>4. QED BY <2>4, <2>5, <4>2, <4>3
    <3>2. CASE ~ (until > lastEnd[s])
      <4>1. until = lastEnd[s]
        BY <2>2, <3>2
      <4>2. w[k + 1] = w[k]
        BY <2>6, <3>2 DEF Idled
      <4>3. more = e
        BY <2>3, <2>4, <2>5, <4>1
      <4>4. QED BY <2>1, <4>2, <4>3
    <3>3. QED BY <3>1, <3>2
  <2>8. Covers(p, more)
    <3>1. \A t \in Slots : e[t] \in Nat /\ more[t] \in Nat /\ e[t] <= more[t]
      BY <2>2, <2>3, <2>4, <2>5
    <3>2. ASSUME NEW i \in DOMAIN circuit, i < p, NEW t \in Touched(circuit[i])
          PROVE  timing.spans[i].end <= more[t]
      <4>1. circuit[i] \in AllocatedOperations /\ timing.spans[i].end \in Nat
        BY TimedFacts
      <4>2. t \in Slots
        BY <4>1, TouchedFacts
      <4>3. timing.spans[i].end <= e[t]
        BY <2>1, <3>2 DEF Covers
      <4>4. QED BY <3>1, <4>1, <4>2, <4>3
    <3>3. QED BY <2>3, <3>2 DEF Covers
  <2>9. QED BY <2>7, <2>8 DEF more
<1>5. Nat \subseteq Q
  <2>1. ASSUME NEW k \in Nat, k \in Q PROVE k + 1 \in Q
    <3> HIDE DEF After
    <3>1. k + 1 \in Nat
      OBVIOUS
    <3>2. QED BY <1>4, <2>1, <3>1
  <2> HIDE DEF Q
  <2>2. QED BY <1>3, <2>1, SetInduction
<1>6. n \in Q /\ n \in 0 .. n
  <2> HIDE DEF Q
  <2>1. QED BY <1>5
<1>7. ends = After(n)
  OBVIOUS
<1> HIDE DEF After
<1>8. QED BY <1>1, <1>6, <1>7

\* The slots an operation waits for are those it is on.
LEMMA InvolvedFacts ==
    ASSUME NEW operation \in AllocatedOperations
    PROVE  \E n \in Nat : /\ InvolvedSlots(operation) \in [1 .. n -> Slots]
                          /\ \A i, j \in 1 .. n :
                                InvolvedSlots(operation)[i] = InvolvedSlots(operation)[j] => i = j
                          /\ \A s : s \in Touched(operation)
                                      <=> \E i \in 1 .. n : InvolvedSlots(operation)[i] = s
                          /\ ToSet(InvolvedSlots(operation)) = Touched(operation)
<1> DEFINE targets == operation.targets
           m == Len(targets)
           control == operation.control
<1>1. /\ targets \in Seq(Slots) /\ m \in Nat \ {0} /\ control \in Slots /\ DOMAIN targets = 1 .. m
      /\ \A i, j \in 1 .. m : targets[i] = targets[j] => i = j
      /\ operation.opcode = "CX" => m = 1 /\ control # targets[1]
  <2>1. targets \in Seq(Slots) /\ m \in Nat \ {0} /\ control \in Slots
    BY FirstTarget DEF AllocatedOperations
  <2>2. DOMAIN targets = 1 .. m
    BY <2>1, LenProperties
  <2>3. IsInjective(targets)
    BY DEF AllocatedOperations
  <2>4. \A i, j \in DOMAIN targets : targets[i] = targets[j] => i = j
    BY <2>3 DEF IsInjective
  <2>5. operation.opcode = "CX" => m = 1 /\ control # targets[1]
    BY DEF AllocatedOperations
  <2>6. QED BY <2>1, <2>2, <2>4, <2>5
<1>2. CASE operation.opcode # "CX"
  <2>1. InvolvedSlots(operation) = targets /\ Touched(operation) = ToSet(targets)
    BY <1>2 DEF InvolvedSlots, Touched
  <2>2. targets \in [1 .. m -> Slots]
    BY <1>1
  <2>3. \A s : s \in ToSet(targets) <=> \E i \in 1 .. m : targets[i] = s
    BY <1>1 DEF ToSet
  <2> HIDE DEF targets, m
  <2>4. QED BY <1>1, <2>1, <2>2, <2>3
<1>3. CASE operation.opcode = "CX"
  <2> DEFINE both == InvolvedSlots(operation)
  <2>1. both = Append(targets, control) /\ Touched(operation) = ToSet(targets) \union {control}
    BY <1>3 DEF InvolvedSlots, Touched
  <2>2. m = 1 /\ control # targets[1]
    BY <1>1, <1>3
  <2>3. both \in [1 .. 2 -> Slots] /\ both[1] = targets[1] /\ both[2] = control
    <3>1. both \in Seq(Slots) /\ Len(both) = m + 1 /\ both[m + 1] = control /\ both[1] = targets[1]
      <4>1. 1 \in 1 .. Len(targets)
        BY <2>2
      <4>2. targets \in Seq(Slots) /\ control \in Slots
        BY <1>1
      <4> HIDE DEF both, targets, control
      <4>3. QED BY <2>1, <4>1, <4>2, AppendProperties
    <3>2. m + 1 = 2
      BY <2>2
    <3> HIDE DEF both, targets, m, control
    <3>3. both \in [1 .. 2 -> Slots]
      BY <3>1, <3>2
    <3>4. QED BY <3>1, <3>2, <3>3
  <2>4. ToSet(targets) = {targets[1]}
    BY <1>1, <2>2 DEF ToSet
  <2> HIDE DEF both, targets, m, control
  <2>5. 1 \in Int /\ 2 \in Int /\ 2 \in Nat /\ \A i : i \in 1 .. 2 <=> i = 1 \/ i = 2
    OBVIOUS
  <2>6. \A i, j \in 1 .. 2 : both[i] = both[j] => i = j
    BY <2>2, <2>3, <2>5
  <2>7. \A s : s \in Touched(operation) <=> \E i \in 1 .. 2 : both[i] = s
    BY <2>1, <2>3, <2>4, <2>5
  <2>8. ToSet(both) = Touched(operation)
    <3>1. DOMAIN both = 1 .. 2
      BY <2>3
    <3>2. ToSet(both) = {both[i] : i \in 1 .. 2}
      BY <3>1 DEF ToSet
    <3>3. QED BY <2>7, <3>2
  <2>9. QED BY <2>3, <2>5, <2>6, <2>7, <2>8 DEF both
<1>4. QED BY <1>2, <1>3

\* A slot's last end is the start of the run or the end of an operation on it.
EndsOfOperations(p, ends) ==
    \A s \in Slots : ends[s] = 0 \/ \E j \in DOMAIN circuit : /\ j < p /\ s \in Touched(circuit[j])
                                                             /\ ends[s] = timing.spans[j].end

LEMMA EndsBefore ==
    ASSUME Timed, NEW p \in Nat, NEW ends, Covers(p, ends), EndsOfOperations(p, ends), NEW s \in Slots
    PROVE  /\ ends[s] \in Nat /\ ends[s] <= timing.peak
           /\ p \in DOMAIN circuit /\ s \in Touched(circuit[p]) =>
                 /\ ends[s] <= timing.spans[p].start
                 /\ Free(s, ends[s], timing.spans[p].start)
           /\ p = Len(circuit) + 1 => Free(s, ends[s], timing.peak)
<1>1. ends \in [Slots -> Nat] /\ ends[s] \in Nat /\ timing.peak \in Nat
  BY TimedFacts DEF Covers
<1>2. ends[s] <= timing.peak
  <2>1. CASE ends[s] = 0
    BY <1>1, <2>1
  <2>2. CASE \E j \in DOMAIN circuit : ends[s] = timing.spans[j].end
    BY <2>2, TimedFacts
  <2>3. QED BY <2>1, <2>2 DEF EndsOfOperations
<1>3. ASSUME p \in DOMAIN circuit, s \in Touched(circuit[p])
      PROVE  /\ ends[s] <= timing.spans[p].start
             /\ Free(s, ends[s], timing.spans[p].start)
  <2>1. /\ timing.spans[p].start \in Nat /\ timing.spans[p].end \in Nat
        /\ timing.spans[p].start < timing.spans[p].end
    BY <1>3, TimedFacts
  <2>2. ends[s] <= timing.spans[p].start
    <3>1. CASE ends[s] = 0
      BY <2>1, <3>1
    <3>2. CASE \E j \in DOMAIN circuit : /\ j < p /\ s \in Touched(circuit[j])
                                         /\ ends[s] = timing.spans[j].end
      <4>1. PICK j \in DOMAIN circuit : /\ j < p /\ s \in Touched(circuit[j])
                                        /\ ends[s] = timing.spans[j].end
        BY <3>2
      <4>2. Touched(circuit[j]) \cap Touched(circuit[p]) # {}
        BY <1>3, <4>1
      <4>3. QED BY <1>3, <4>1, <4>2, TimedFacts
    <3>3. QED BY <3>1, <3>2 DEF EndsOfOperations
  <2>3. ASSUME NEW i \in DOMAIN circuit, s \in Touched(circuit[i])
        PROVE  timing.spans[i].end <= ends[s] \/ timing.spans[p].start <= timing.spans[i].start
    <3>1. CASE i < p
      BY <2>3, <3>1 DEF Covers
    <3>2. CASE i = p
      BY <2>1, <3>2
    <3>3. CASE i > p
      <4>1. Touched(circuit[p]) \cap Touched(circuit[i]) # {} /\ p < i
        BY <1>3, <2>3, <3>3
      <4>2. timing.spans[p].end <= timing.spans[i].start /\ timing.spans[i].start \in Nat
        BY <1>3, <4>1, TimedFacts
      <4>3. QED BY <2>1, <4>2
    <3>4. i \in Nat
      BY TimedFacts
    <3>5. QED BY <3>1, <3>2, <3>3, <3>4
  <2>4. QED BY <2>2, <2>3 DEF Free
<1>4. ASSUME p = Len(circuit) + 1 PROVE Free(s, ends[s], timing.peak)
  <2>1. \A i \in DOMAIN circuit : i < p
    BY <1>4, TimedFacts
  <2>2. QED BY <2>1 DEF Free, Covers
<1>5. QED BY <1>1, <1>2, <1>3, <1>4

\* What the loop has behind it, and what it has in the end.
Behind(array, p, ends) ==
    /\ Made(ReadMatrix(array), CaughtUp(p, ends))
    /\ Covers(p, ends) /\ EndsOfOperations(p, ends)

Whole(array) ==
    Made(ReadMatrix(array), CaughtUp(Len(circuit) + 1, [s \in Slots |-> timing.peak]))

DecayIInv ==
    ApplyIdle =>
        /\ backend = "numpy-cpu-density-matrix"
        /\ status \in {"requested", "running"} => Behind(matrix, pc, lastEnd)
        /\ status = "finished" => Whole(matrix)

LEMMA TimedRuns == ASSUME PackedIInv, ApplyIdle PROVE Timed
BY DEF PackedIInv, ArraysIInv, BackendIInv, ControlIInv, Progress, ApplyIdle, Timed

\* The moments do not change.
LEMMA MomentsStay ==
    ASSUME UNCHANGED <<circuit, request, timing>>
    PROVE  /\ Behind(matrix, pc, lastEnd)' <=> Behind(matrix', pc', lastEnd')
           /\ Whole(matrix)' <=> Whole(matrix')
<1>1. Moments' = Moments
  BY DEF Moments, Places
<1>2. MomentSteps' = MomentSteps
  BY <1>1 DEF MomentSteps, AtMoment, OperationAt, Acts, UsedAt, DecayOneTick, Places
<1>3. CaughtUp(pc, lastEnd)' = CaughtUp(pc', lastEnd')
  BY <1>1 DEF CaughtUp, TickOf, PlaceOf, Places
<1>4. (CaughtUp(Len(circuit) + 1, [s \in Slots |-> timing.peak]))'
        = CaughtUp(Len(circuit) + 1, [s \in Slots |-> timing.peak])
  BY <1>1 DEF CaughtUp, TickOf, PlaceOf, Places
<1>5. ReadMatrix(matrix)' = ReadMatrix(matrix')
  BY DEF ReadMatrix
<1>6. /\ Made(ReadMatrix(matrix), CaughtUp(pc, lastEnd))'
            <=> Made(ReadMatrix(matrix'), CaughtUp(pc', lastEnd'))
      /\ Whole(matrix)' <=> Whole(matrix')
  BY <1>1, <1>2, <1>3, <1>4, <1>5 DEF Made, Whole
<1>7. /\ Covers(pc, lastEnd)' <=> Covers(pc', lastEnd')
      /\ EndsOfOperations(pc, lastEnd)' <=> EndsOfOperations(pc', lastEnd')
  BY DEF Covers, EndsOfOperations
<1>8. QED BY <1>6, <1>7 DEF Behind

LEMMA InitIsBehind == BackendInit => DecayIInv
<1> SUFFICES ASSUME BackendInit, ApplyIdle
             PROVE  /\ backend = "numpy-cpu-density-matrix" /\ status = "requested"
                    /\ Behind(matrix, pc, lastEnd)
  BY DEF DecayIInv
<1>1. backend = "numpy-cpu-density-matrix" /\ status = "requested" /\ pc = 1
  BY DEF BackendInit, ExecutionInit, Carried, ApplyIdle
<1>2. matrix = GroundMatrix /\ lastEnd = [s \in Slots |-> 0]
  BY DEF BackendInit, GroundMatrix
<1>3. Timed
  BY InitEstablishesPacked, TimedRuns
<1>4. CaughtUp(1, lastEnd) = {}
  <2>1. ASSUME NEW i \in 1 .. Moments PROVE i \notin CaughtUp(1, lastEnd)
    <3>1. /\ TickOf(i) \in Nat /\ PlaceOf(i) \in Nat
          /\ ~ (PlaceOf(i) < Len(circuit)) => PlaceOf(i) - Len(circuit) \in Slots
      <4>1. timing.peak \in Nat /\ Places \in Nat
        BY <1>3, TimedFacts
      <4>2. QED BY <1>3, <4>1, MomentPlaces
    <3>2. ~ (PlaceOf(i) + 1 < 1)
      BY <3>1
    <3>3. ~ (PlaceOf(i) < Len(circuit)) => ~ (TickOf(i) < lastEnd[PlaceOf(i) - Len(circuit)])
      BY <1>2, <3>1
    <3>4. QED BY <3>2, <3>3 DEF CaughtUp
  <2>2. QED BY <2>1 DEF CaughtUp
<1>5. Made(ReadMatrix(matrix), {})
  <2>1. Moments \in Nat /\ GroundDensity \in Densities
    BY <1>3, StepsAreOperators
  <2>2. Made(GroundDensity, {})
    BY <2>1, ReachesNothing DEF Made
  <2>3. QED BY <1>2, <2>2, GroundFacts
<1>6. Covers(1, lastEnd) /\ EndsOfOperations(1, lastEnd)
  <2>1. \A i \in DOMAIN circuit : ~ (i < 1)
    BY <1>3, TimedFacts
  <2>2. QED BY <1>2, <2>1 DEF Covers, EndsOfOperations
<1>7. QED BY <1>1, <1>4, <1>5, <1>6 DEF Behind

\* The slots of the operation wait, it is done, and they are used until its end.
LEMMA OperationLeavesBehind ==
    ASSUME PackedIInv, DecayIInv, NumpyDensityOperation, ApplyIdle
    PROVE  Behind(matrix', pc', lastEnd')
<1> DEFINE start == timing.spans[pc].start
           slots == InvolvedSlots(Operation)
           waited == Waited.matrix
           ends == [s \in Slots |-> IF s \in Touched(circuit[pc]) THEN start ELSE lastEnd[s]]
<1>1. Running /\ Arguments /\ Operation \in AllocatedOperations /\ pc \in DOMAIN circuit /\ pc \in Nat
  BY RunningFacts DEF NumpyDensityOperation, OnNumpyDensity, PackedIInv, BackendIInv, ControlIInv,
                      Progress
<1>2. Timed /\ Behind(matrix, pc, lastEnd) /\ ArraysIInv
  BY <1>1, TimedRuns DEF DecayIInv, PackedIInv, Running
<1>3. /\ Made(ReadMatrix(matrix), CaughtUp(pc, lastEnd)) /\ Covers(pc, lastEnd)
      /\ EndsOfOperations(pc, lastEnd)
  BY <1>2 DEF Behind
<1>4. Operation = circuit[pc]
  BY DEF Operation
<1>5. PICK n \in Nat : /\ slots \in [1 .. n -> Slots]
                       /\ \A i, j \in 1 .. n : slots[i] = slots[j] => i = j
                       /\ \A s : s \in Touched(circuit[pc]) <=> \E i \in 1 .. n : slots[i] = s
                       /\ ToSet(slots) = Touched(circuit[pc])
  BY <1>1, <1>4, InvolvedFacts
<1>6. start \in Nat /\ start <= timing.peak
  <2>1. /\ start \in Nat /\ timing.spans[pc].end \in Nat /\ timing.peak \in Nat
        /\ start < timing.spans[pc].end /\ timing.spans[pc].end <= timing.peak
    BY <1>1, <1>2, TimedFacts
  <2> HIDE DEF start
  <2>2. QED BY <2>1
<1>7. \A i \in 1 .. n : lastEnd[slots[i]] <= start /\ Free(slots[i], lastEnd[slots[i]], start)
  <2> SUFFICES ASSUME NEW i \in 1 .. n
               PROVE  lastEnd[slots[i]] <= start /\ Free(slots[i], lastEnd[slots[i]], start)
    OBVIOUS
  <2>1. slots[i] \in Slots /\ slots[i] \in Touched(circuit[pc])
    BY <1>5
  <2> HIDE DEF slots
  <2>2. QED BY <1>1, <1>2, <1>3, <2>1, EndsBefore
<1>8. waited = IdledUntil(slots, start).matrix
  BY DEF Waited
<1>9. ends = [s \in Slots |-> IF \E i \in 1 .. n : slots[i] = s THEN start ELSE lastEnd[s]]
  BY <1>5
<1> HIDE DEF slots, start, waited, ends
<1>10. /\ waited \in PackedMatrices /\ Made(ReadMatrix(waited), CaughtUp(pc, ends))
       /\ Covers(pc, ends)
  BY <1>1, <1>2, <1>3, <1>5, <1>6, <1>7, <1>8, <1>9, WaitsTaken
<1>11. \A s \in Touched(circuit[pc]) : ends[s] = timing.spans[pc].start
  <2>1. Touched(circuit[pc]) \in SUBSET Slots
    BY <1>1, <1>4, TouchedFacts
  <2>2. QED BY <2>1 DEF ends, start
<1>12. /\ matrix' = NumpyEvolved(waited) /\ pc' = pc + 1
       /\ lastEnd' = [s \in Slots |-> IF s \in Touched(circuit[pc]) THEN timing.spans[pc].end
                                      ELSE lastEnd[s]]
  BY <1>5 DEF NumpyDensityOperation, waited, slots
<1>13. lastEnd' = [s \in Slots |-> IF s \in Touched(circuit[pc]) THEN timing.spans[pc].end
                                   ELSE ends[s]]
  BY <1>12 DEF ends
<1>14. /\ Made(EvolvedBy(ReadMatrix(waited), circuit[pc]), CaughtUp(pc + 1, lastEnd'))
       /\ Covers(pc + 1, lastEnd')
  BY <1>1, <1>2, <1>10, <1>11, <1>13, OperationTaken
<1>15. ReadMatrix(matrix') = EvolvedBy(ReadMatrix(waited), circuit[pc])
  <2>1. ReadMatrix(matrix') = EvolvedFrom(ReadMatrix(waited))
    BY <1>1, <1>10, <1>12, NumpyEvolvedIs
  <2>2. EvolvedFrom(ReadMatrix(waited)) = EvolvedBy(ReadMatrix(waited), Operation)
    BY DEF EvolvedFrom, EvolvedBy, IsMeasurement, NoisyGate
  <2>3. QED BY <1>4, <2>1, <2>2
<1>16. EndsOfOperations(pc + 1, lastEnd')
  <2>1. ASSUME NEW s \in Slots
        PROVE  lastEnd'[s] = 0 \/ \E j \in DOMAIN circuit : /\ j < pc + 1 /\ s \in Touched(circuit[j])
                                                            /\ lastEnd'[s] = timing.spans[j].end
    <3>1. CASE s \in Touched(circuit[pc])
      <4>1. lastEnd'[s] = timing.spans[pc].end /\ pc < pc + 1
        BY <1>1, <1>12, <3>1
      <4>2. QED BY <1>1, <3>1, <4>1
    <3>2. CASE s \notin Touched(circuit[pc])
      <4>1. lastEnd'[s] = lastEnd[s]
        BY <1>12, <3>2
      <4>2. \A j \in DOMAIN circuit : j < pc => j < pc + 1
        BY <1>1, <1>2, TimedFacts
      <4>3. QED BY <1>3, <4>1, <4>2 DEF EndsOfOperations
    <3>3. QED BY <3>1, <3>2
  <2>2. QED BY <2>1 DEF EndsOfOperations
<1>17. QED BY <1>12, <1>14, <1>15, <1>16 DEF Behind

\* The rest of the time.
LEMMA FinishMakesWhole ==
    ASSUME PackedIInv, DecayIInv, FinishNumpy, ApplyIdle
    PROVE  Whole(matrix')
<1> DEFINE slots == [i \in 1 .. QubitCount |-> i - 1]
           ends == [s \in Slots |-> timing.peak]
           p == Len(circuit) + 1
<1>1. status = "running" /\ pc = p /\ matrix' = IdledUntil(slots, timing.peak).matrix
  BY DEF FinishNumpy
<1>2. Timed /\ Behind(matrix, pc, lastEnd) /\ ArraysIInv
  BY <1>1, TimedRuns DEF DecayIInv, PackedIInv
<1>3. /\ Made(ReadMatrix(matrix), CaughtUp(p, lastEnd)) /\ Covers(p, lastEnd)
      /\ EndsOfOperations(p, lastEnd)
  BY <1>1, <1>2 DEF Behind
<1>4. QubitCount \in Nat /\ Slots = 0 .. QubitCount - 1 /\ timing.peak \in Nat /\ p \in Nat
  BY <1>2, TimedFacts
<1>5. /\ slots \in [1 .. QubitCount -> Slots]
      /\ \A i, j \in 1 .. QubitCount : slots[i] = slots[j] => i = j
      /\ \A s \in Slots : \E i \in 1 .. QubitCount : slots[i] = s
  <2>1. /\ slots \in [1 .. QubitCount -> Slots]
        /\ \A i, j \in 1 .. QubitCount : slots[i] = slots[j] => i = j
    BY <1>4
  <2>2. ASSUME NEW s \in Slots PROVE s + 1 \in 1 .. QubitCount /\ slots[s + 1] = s
    BY <1>4
  <2> HIDE DEF slots
  <2>3. QED BY <2>1, <2>2
<1> HIDE DEF slots
<1>6. \A i \in 1 .. QubitCount : /\ lastEnd[slots[i]] <= timing.peak
                                 /\ Free(slots[i], lastEnd[slots[i]], timing.peak)
  <2>1. \A s \in Slots : lastEnd[s] <= timing.peak /\ Free(s, lastEnd[s], timing.peak)
    BY <1>2, <1>3, <1>4, EndsBefore
  <2>2. QED BY <1>5, <2>1
<1>7. ends = [s \in Slots |-> IF \E i \in 1 .. QubitCount : slots[i] = s THEN timing.peak
                              ELSE lastEnd[s]]
  BY <1>5
<1>8. timing.peak <= timing.peak
  BY <1>4
<1> HIDE DEF ends, p
<1>9. Made(ReadMatrix(matrix'), CaughtUp(p, ends))
  BY <1>1, <1>2, <1>3, <1>4, <1>5, <1>6, <1>7, <1>8, WaitsTaken
<1>10. QED BY <1>9 DEF Whole, p, ends

LEMMA StepKeepsDecay == PackedIInv /\ DecayIInv /\ [BackendNext]_backendVars => DecayIInv'
<1> SUFFICES ASSUME PackedIInv, DecayIInv, [BackendNext]_backendVars, ApplyIdle'
             PROVE  /\ backend' = "numpy-cpu-density-matrix"
                    /\ status' \in {"requested", "running"} => Behind(matrix, pc, lastEnd)'
                    /\ status' = "finished" => Whole(matrix)'
  BY DEF DecayIInv
<1>1. UNCHANGED <<circuit, request, timing, backend>>
  <2>1. CASE UNCHANGED backendVars
    BY <2>1 DEF backendVars, submission, executionVars
  <2>2. CASE PlanRun \/ ExecuteRun
    BY <2>2 DEF PlanRun, ExecuteRun, submission
  <2>3. CASE ReferenceStep
    BY <2>3 DEF ReferenceStep, RefuseReset, RefuseEvolution, ExactOperation, DensityOperation,
                SampledGate, SampledMeasure, SampledReset, DrawBeyondMass, FinishShot,
                FinishExecution, Abort, submission
  <2>4. CASE NumpyStep
    BY <2>4 DEF NumpyStep, NumpyRefuseReset, NumpyRefuseEvolution, NumpyAbort, Abort,
                NumpyVectorOperation, NumpyDensityOperation, FinishNumpy, submission
  <2>5. QED BY <2>1, <2>2, <2>3, <2>4 DEF BackendNext, BackendStep, BackendEnded
<1>2. /\ ApplyIdle /\ backend = "numpy-cpu-density-matrix"
      /\ status \in {"requested", "running"} => Behind(matrix, pc, lastEnd)
      /\ status = "finished" => Whole(matrix)
  BY <1>1 DEF ApplyIdle, DecayIInv
<1>3. /\ Behind(matrix, pc, lastEnd)' <=> Behind(matrix', pc', lastEnd')
      /\ Whole(matrix)' <=> Whole(matrix')
  BY <1>1, MomentsStay
<1>4. CASE UNCHANGED <<status, matrix, pc, lastEnd>>
  BY <1>1, <1>2, <1>3, <1>4
<1>5. CASE PlanRun \/ ExecuteRun
  <2>1. status = "requested" /\ UNCHANGED <<matrix, pc, lastEnd>> /\ status' # "finished"
    BY <1>5 DEF PlanRun, ExecuteRun, arrays
  <2>2. QED BY <1>1, <1>2, <1>3, <2>1
<1>6. CASE ReferenceStep \/ NumpyVectorOperation
  BY <1>2, <1>6 DEF ReferenceStep, OnNumpy, NumpyVectorOperation, OnNumpyVector
<1>7. CASE NumpyRefuseReset \/ NumpyRefuseEvolution
  <2>1. status' \in {"A202", "A203"}
    BY <1>7 DEF NumpyRefuseReset, NumpyRefuseEvolution, NumpyAbort, Abort
  <2>2. QED BY <1>1, <1>2, <2>1
<1>8. CASE NumpyDensityOperation
  <2>1. Behind(matrix', pc', lastEnd')
    BY <1>2, <1>8, OperationLeavesBehind
  <2>2. status' = "running"
    BY <1>8 DEF NumpyDensityOperation, OnNumpyDensity, Running
  <2>3. QED BY <1>1, <1>2, <1>3, <2>1, <2>2
<1>9. CASE FinishNumpy
  <2>1. Whole(matrix')
    BY <1>2, <1>9, FinishMakesWhole
  <2>2. status' = "finished"
    BY <1>9 DEF FinishNumpy
  <2>3. QED BY <1>1, <1>2, <1>3, <2>1, <2>2
<1>10. QED
  BY <1>4, <1>5, <1>6, <1>7, <1>8, <1>9
  DEF BackendNext, BackendStep, BackendEnded, NumpyStep, backendVars, executionVars, arrays

\* Idle time is applied late and in the order of the circuit; the result is the matrix
\* of the circuit run in time.  What the loop has behind it are the moments of the run
\* in time that it has caught up with, taken in time: a moment that is made up for later
\* is on other slots than the later moments already taken, and operations on different
\* slots commute.
THEOREM DecayIsTimed == BackendSpec => []LateDecayIsTimed
<1>1. PackedIInv /\ DecayIInv => LateDecayIsTimed
  <2> SUFFICES ASSUME PackedIInv, DecayIInv, status = "finished", ApplyIdle
               PROVE  MatrixAsDensity = InTime
    BY DEF LateDecayIsTimed
  <2>1. Timed
    BY TimedRuns
  <2>2. Made(ReadMatrix(matrix), CaughtUp(Len(circuit) + 1, [s \in Slots |-> timing.peak]))
    BY DEF DecayIInv, Whole
  <2>3. ReadMatrix(matrix) = InTime
    BY <2>1, <2>2, AllCaughtUp
  <2>4. QED BY <2>3, BarIs
<1>2. QED BY <1>1, InitIsBehind, StepKeepsDecay, PackedInvariant, PTL DEF BackendSpec

==============================================================================
