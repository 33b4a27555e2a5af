------------------------------ MODULE FoldFacts ------------------------------
(***************************************************************************)
(* Facts that the proofs about every part of the project rest on.  The     *)
(* library states its induction theorems of a predicate, which the provers *)
(* cannot instantiate; here induction is a fact about sets.                *)
(***************************************************************************)
EXTENDS FiniteSetsExt, FiniteSetTheorems, TLAPS

(* Numbers.                                                                *)

\* The least-number principle, for a set: the library states it of a predicate.
LEMMA LeastNumber ==
    ASSUME NEW S \in SUBSET Nat, S # {}
    PROVE  \E m \in S : \A k \in S : m <= k
<1> DEFINE UpTo(k) == {x \in S : x <= k}
           Initial == {UpTo(k) : k \in S}
           R == StrictSubsetOrdering(Nat)
<1>1. Initial \subseteq FiniteSubsetsOf(Nat)
  <2> SUFFICES ASSUME NEW k \in S PROVE UpTo(k) \in FiniteSubsetsOf(Nat)
    OBVIOUS
  <2>1. UpTo(k) \in SUBSET Nat /\ k \in Nat /\ \A x \in UpTo(k) : x <= k
    OBVIOUS
  <2>2. IsFiniteSet(UpTo(k))
    BY <2>1, FS_BoundedSetOfNaturals
  <2> QED
    BY <2>1, <2>2 DEF FiniteSubsetsOf
<1>2. IsWellFoundedOn(R, FiniteSubsetsOf(Nat))
  BY FS_StrictSubsetOrderingWellFounded
<1>3. Initial # {}
  OBVIOUS
<1>4. \E X \in Initial : \A Y \in Initial : ~ (<<Y, X>> \in R)
  <2> HIDE DEF Initial, R
  <2> QED
    BY <1>1, <1>2, <1>3, WFMin
<1>5. PICK m \in S : \A k \in S : ~ (<<UpTo(k), UpTo(m)>> \in R)
  BY <1>4
<1>6. ASSUME NEW k \in S, ~ (m <= k)
      PROVE  FALSE
  <2>1. k \in Nat /\ m \in Nat /\ k < m /\ \A x \in S : x \in Nat
    BY <1>6
  <2>2. m \in UpTo(m) /\ m \notin UpTo(k)
    BY <2>1
  <2>3. \A x \in UpTo(k) : x \in UpTo(m)
    BY <2>1
  <2>4. <<UpTo(k), UpTo(m)>> \in R
    BY <2>2, <2>3 DEF StrictSubsetOrdering
  <2> QED
    BY <1>5, <2>4
<1> QED
  BY <1>6

\* Induction, for a set.
LEMMA SetInduction ==
    ASSUME NEW S, 0 \in S, \A n \in Nat : n \in S => n + 1 \in S
    PROVE  Nat \subseteq S
<1> SUFFICES ASSUME ~ (Nat \subseteq S) PROVE FALSE
  OBVIOUS
<1> DEFINE Rest == Nat \ S
<1>1. PICK m \in Rest : \A k \in Rest : m <= k
  BY LeastNumber
<1>2. m # 0 /\ m - 1 \in Nat /\ m - 1 \notin Rest
  BY <1>1
<1> QED
  BY <1>1, <1>2

\* A bounded set of naturals has a greatest element.
LEMMA GreatestNumber ==
    ASSUME NEW S \in SUBSET Nat, S # {}, NEW b \in Nat, \A x \in S : x <= b
    PROVE  \E m \in S : \A k \in S : k <= m
<1> DEFINE Bounds == {u \in Nat : \A x \in S : x <= u}
<1>1. PICK m \in Bounds : \A u \in Bounds : m <= u
  BY LeastNumber
<1>2. ASSUME m \notin S PROVE FALSE
  <2>1. PICK x \in S : TRUE
    OBVIOUS
  <2>2. m - 1 \in Nat /\ \A y \in S : y <= m - 1
    BY <1>1, <1>2, <2>1
  <2> QED
    BY <1>1, <2>2
<1> QED
  BY <1>1, <1>2

-----------------------------------------------------------------------------
(* Subsets of a finite set, taken apart one element at a time.               *)

\* A choice from every nonempty subset, and a family of sets that is closed if what it
\* chooses is put back.
Chooses(choice, S) == \A s \in SUBSET S : s # {} => choice[s] \in s

ClosedUnder(choice, S, P) ==
    {} \in P /\ \A s \in SUBSET S : s # {} /\ s \ {choice[s]} \in P => s \in P

\* Induction over the subsets, removing the element that a fold would choose.
LEMMA RemovalInduction ==
    ASSUME NEW S, IsFiniteSet(S), NEW choice, NEW P, Chooses(choice, S),
           ClosedUnder(choice, S, P)
    PROVE  SUBSET S \subseteq P
<1> DEFINE Sizes == {n \in Nat : \A s \in SUBSET S : Cardinality(s) = n => s \in P}
<1>1. 0 \in Sizes
  BY FS_Subset, FS_EmptySet DEF ClosedUnder
<1>2. ASSUME NEW n \in Nat, n \in Sizes PROVE n + 1 \in Sizes
  <2> SUFFICES ASSUME NEW s \in SUBSET S, Cardinality(s) = n + 1 PROVE s \in P
    OBVIOUS
  <2>1. IsFiniteSet(s) /\ s # {}
    BY FS_Subset, FS_EmptySet
  <2>2. choice[s] \in s
    BY <2>1 DEF Chooses
  <2>3. Cardinality(s \ {choice[s]}) = Cardinality(s) - 1
    BY <2>1, <2>2, FS_RemoveElement
  <2>4. s \ {choice[s]} \in SUBSET S /\ Cardinality(s \ {choice[s]}) = n
    BY <2>3
  <2>5. s \ {choice[s]} \in P
    BY <1>2, <2>4
  <2>6. QED BY <2>1, <2>5 DEF ClosedUnder
<1>3. Nat \subseteq Sizes
  <2> HIDE DEF Sizes
  <2>1. QED BY <1>1, <1>2, SetInduction
<1>4. QED BY <1>3, FS_Subset, FS_CardinalityType

\* Induction, adding any element.
LEMMA SubsetInduction ==
    ASSUME NEW S, IsFiniteSet(S), NEW P, {} \in P,
           \A s \in SUBSET S : \A x \in S \ s : s \in P => s \union {x} \in P
    PROVE  S \in P
<1> DEFINE choice == [s \in SUBSET S |-> CHOOSE x \in s : TRUE]
<1>1. ASSUME NEW s \in SUBSET S, s # {} PROVE choice[s] \in s
  BY <1>1
<1> HIDE DEF choice
<1>2. \A s \in SUBSET S : s # {} /\ s \ {choice[s]} \in P => s \in P
  <2> SUFFICES ASSUME NEW s \in SUBSET S, s # {}, s \ {choice[s]} \in P PROVE s \in P
    OBVIOUS
  <2> DEFINE x == choice[s]
             rest == s \ {x}
  <2>1. x \in S \ rest /\ rest \in SUBSET S /\ rest \in P
    BY <1>1
  <2>2. s = rest \union {x}
    BY <1>1
  <2> HIDE DEF x, rest
  <2>3. rest \union {x} \in P
    BY <2>1
  <2>4. QED BY <2>2, <2>3
<1>3. Chooses(choice, S) /\ ClosedUnder(choice, S, P)
  BY <1>1, <1>2 DEF Chooses, ClosedUnder
<1>4. SUBSET S \subseteq P
  BY <1>3, RemovalInduction
<1>5. QED BY <1>4

-----------------------------------------------------------------------------
(* Folds.  The library folds a set with a recursive function on its subsets, *)
(* an equation that CHOOSE solves.                                           *)

FoldsTo(g, S, choice, base, step) ==
    \A s \in SUBSET S :
        g[s] = IF s = {} THEN base ELSE step[choice[s]][g[s \ {choice[s]}]]

\* The equation has a solution in the values.
LEMMA FoldHasSolution ==
    ASSUME NEW S, IsFiniteSet(S), NEW choice, NEW V, NEW base \in V,
           NEW step \in [S -> [V -> V]], Chooses(choice, S)
    PROVE  \E g \in [SUBSET S -> V] : FoldsTo(g, S, choice, base, step)
<1> DEFINE Small(n) == {s \in SUBSET S : Cardinality(s) <= n}
           Solves(g, n) == \A s \in Small(n) :
               g[s] = IF s = {} THEN base ELSE step[choice[s]][g[s \ {choice[s]}]]
           Sizes == {n \in Nat : \E g \in [Small(n) -> V] : Solves(g, n)}
<1>1. \A s \in SUBSET S : IsFiniteSet(s) /\ Cardinality(s) \in Nat
                            /\ (Cardinality(s) = 0 <=> s = {})
  BY FS_Subset, FS_CardinalityType, FS_EmptySet
<1>2. ASSUME NEW n \in Nat, NEW s \in Small(n + 1), s # {}
      PROVE  s \ {choice[s]} \in Small(n)
  <2>0. s \in SUBSET S
    OBVIOUS
  <2>1. choice[s] \in s
    BY <1>2, <2>0 DEF Chooses
  <2>9. IsFiniteSet(s)
    BY <1>1, <2>0
  <2>2. Cardinality(s \ {choice[s]}) = Cardinality(s) - 1
    BY <2>1, <2>9, FS_RemoveElement
  <2>3. Cardinality(s) <= n + 1 /\ Cardinality(s) \in Nat
    BY <1>1
  <2>4. Cardinality(s) - 1 <= n /\ s \ {choice[s]} \in SUBSET S
    BY <2>3
  <2>5. QED BY <2>2, <2>4
<1>3. 0 \in Sizes
  <2>1. \A s \in Small(0) : s = {}
    BY <1>1
  <2>2. [s \in Small(0) |-> base] \in [Small(0) -> V]
    OBVIOUS
  <2>3. Solves([s \in Small(0) |-> base], 0)
    BY <2>1
  <2>4. QED BY <2>2, <2>3
<1>4. ASSUME NEW n \in Nat, n \in Sizes PROVE n + 1 \in Sizes
  <2>1. PICK g \in [Small(n) -> V] : Solves(g, n)
    BY <1>4
  <2> DEFINE h == [s \in Small(n + 1) |->
                      IF s = {} THEN base ELSE step[choice[s]][g[s \ {choice[s]}]]]
  <2>2. h \in [Small(n + 1) -> V]
    BY <1>2 DEF Chooses
  <2>3. ASSUME NEW s \in Small(n) PROVE s \in Small(n + 1) /\ h[s] = g[s]
    <3>1. s \in Small(n + 1)
      BY <1>1
    <3>2. QED BY <2>1, <3>1
  <2>4. Solves(h, n + 1)
    BY <1>2, <2>3
  <2> HIDE DEF h, Small, Solves
  <2>5. QED BY <2>2, <2>4
<1>5. Nat \subseteq Sizes
  <2> HIDE DEF Sizes
  <2>1. QED BY <1>3, <1>4, SetInduction
<1>6. Cardinality(S) \in Nat /\ Small(Cardinality(S)) = SUBSET S
  <2>1. \A s \in SUBSET S : Cardinality(s) <= Cardinality(S)
    BY FS_Subset
  <2>2. Cardinality(S) \in Nat
    BY FS_CardinalityType
  <2>3. QED BY <2>1, <2>2
<1>7. PICK g \in [SUBSET S -> V] : Solves(g, Cardinality(S))
  <2>1. Cardinality(S) \in Sizes
    BY <1>5, <1>6
  <2>2. QED BY <1>6, <2>1
<1>8. QED BY <1>6, <1>7 DEF FoldsTo

\* On a smaller set the equation has the same solution.
LEMMA FoldsAgree ==
    ASSUME NEW S, IsFiniteSet(S), NEW T \in SUBSET S, NEW choice, NEW base, NEW step,
           NEW G, NEW H, Chooses(choice, S), FoldsTo(G, S, choice, base, step),
           FoldsTo(H, T, choice, base, step)
    PROVE  H[T] = G[T]
<1> DEFINE P == {s \in SUBSET T : H[s] = G[s]}
<1>1. \A s \in SUBSET T : s \in SUBSET S
  OBVIOUS
<1>2. {} \in P
  BY <1>1 DEF FoldsTo
<1>3. ASSUME NEW s \in SUBSET T, s # {}, s \ {choice[s]} \in P PROVE s \in P
  <2>1. H[s \ {choice[s]}] = G[s \ {choice[s]}]
    BY <1>3
  <2>2. H[s] = step[choice[s]][H[s \ {choice[s]}]] /\ G[s] = step[choice[s]][G[s \ {choice[s]}]]
    BY <1>1, <1>3 DEF FoldsTo
  <2>3. QED BY <2>1, <2>2
<1>4. Chooses(choice, T) /\ IsFiniteSet(T)
  BY FS_Subset DEF Chooses
<1> HIDE DEF P
<1>5. ClosedUnder(choice, T, P)
  BY <1>2, <1>3 DEF ClosedUnder
<1>6. SUBSET T \subseteq P
  BY <1>4, <1>5, RemovalInduction
<1>7. T \in P
  BY <1>6
<1>8. QED BY <1>7 DEF P

Commutes(S, V, step) == \A x, y \in S : \A v \in V : step[x][step[y][v]] = step[y][step[x][v]]

FoldsFreely(G, V, S, choice, base, step) ==
    /\ G \in [SUBSET S -> V] /\ FoldsTo(G, S, choice, base, step)
    /\ Chooses(choice, S) /\ Commutes(S, V, step)

\* When the steps commute any element may be the last.
LEMMA FoldInAnyOrder ==
    ASSUME NEW S, IsFiniteSet(S), NEW choice, NEW V, NEW base, NEW step,
           NEW G, FoldsFreely(G, V, S, choice, base, step)
    PROVE  \A z \in S : G[S] = step[z][G[S \ {z}]]
<1>0. /\ G \in [SUBSET S -> V] /\ FoldsTo(G, S, choice, base, step)
      /\ Chooses(choice, S) /\ Commutes(S, V, step)
  BY DEF FoldsFreely
<1> DEFINE Any == {s \in SUBSET S : \A x \in s : G[s] = step[x][G[s \ {x}]]}
           Sizes == {n \in Nat : \A s \in SUBSET S : Cardinality(s) = n => s \in Any}
<1>1. 0 \in Sizes
  <2>1. \A s \in SUBSET S : Cardinality(s) = 0 => s = {}
    BY FS_Subset, FS_EmptySet
  <2>2. QED BY <2>1
<1>2. ASSUME NEW n \in Nat, n \in Sizes PROVE n + 1 \in Sizes
  <2> SUFFICES ASSUME NEW s \in SUBSET S, Cardinality(s) = n + 1, NEW x \in s
               PROVE  G[s] = step[x][G[s \ {x}]]
    OBVIOUS
  <2> DEFINE y == choice[s]
  <2>1. IsFiniteSet(s) /\ s # {} /\ y \in s
    BY <1>0, FS_Subset DEF Chooses
  <2>2. G[s] = step[y][G[s \ {y}]]
    BY <1>0, <2>1 DEF FoldsTo
  <2> HIDE DEF y
  <2>3. CASE x = y
    BY <2>2, <2>3
  <2>4. CASE x # y
    <3>1. s \ {x} \in SUBSET S /\ s \ {y} \in SUBSET S /\ (s \ {x}) \ {y} \in SUBSET S
      OBVIOUS
    <3>2. Cardinality(s \ {x}) = n /\ Cardinality(s \ {y}) = n
      <4>1. /\ Cardinality(s \ {x}) = Cardinality(s) - 1
            /\ Cardinality(s \ {y}) = Cardinality(s) - 1
        BY <2>1, FS_RemoveElement
      <4>2. QED BY <4>1
    <3>3. s \ {x} \in Any /\ s \ {y} \in Any
      BY <1>2, <3>1, <3>2
    <3> DEFINE rest == (s \ {x}) \ {y}
    <3>4. rest = (s \ {y}) \ {x}
      OBVIOUS
    <3>5. G[s \ {y}] = step[x][G[rest]] /\ G[s \ {x}] = step[y][G[rest]]
      BY <2>1, <2>4, <3>3, <3>4
    <3>6. G[rest] \in V /\ x \in S /\ y \in S
      BY <1>0, <2>1, <3>1
    <3> HIDE DEF rest
    <3>7. QED BY <1>0, <2>2, <3>5, <3>6 DEF Commutes
  <2>5. QED BY <2>3, <2>4
<1>3. Nat \subseteq Sizes
  <2> HIDE DEF Sizes
  <2>1. QED BY <1>1, <1>2, SetInduction
<1>4. S \in Any
  <2>1. Cardinality(S) \in Sizes
    BY <1>3, FS_CardinalityType
  <2>2. S \in SUBSET S
    OBVIOUS
  <2> HIDE DEF Any
  <2>3. QED BY <2>1, <2>2
<1>5. QED BY <1>4

\* What the library's choice removes from a set.
Choice(S) == [s \in SUBSET S |-> CHOOSE x \in s : TRUE]

LEMMA ChoiceChooses == ASSUME NEW S PROVE Chooses(Choice(S), S)
BY DEF Chooses, Choice

-----------------------------------------------------------------------------
(* Sums.                                                                     *)

SumStep(f, S, g) ==
    [s \in SUBSET S |-> IF s = {} THEN 0
                        ELSE LET x == CHOOSE x \in s : TRUE IN f[x] + g[s \ {x}]]

Sum(f, S) == (CHOOSE g : g = SumStep(f, S, g))[S]

\* The library's sums are this one.
LEMMA LibrarySum == ASSUME NEW f, NEW S PROVE SumFunctionOnSet(f, S) = Sum(f, S)
BY DEF SumFunctionOnSet, FoldFunctionOnSet, MapThenFoldSet, Sum, SumStep

\* What an element does to the sum of the others.
Increased(f, S) == [x \in S |-> [y \in Int |-> f[x] + y]]

\* All subsets' sums at once.
LEMMA SumEquation ==
    ASSUME NEW f, NEW S, IsFiniteSet(S), \A x \in S : f[x] \in Int
    PROVE  \E g \in [SUBSET S -> Int] :
              FoldsTo(g, S, Choice(S), 0, Increased(f, S)) /\ Sum(f, S) = g[S]
<1> DEFINE choice == Choice(S)
           step == Increased(f, S)
           G == CHOOSE g : g = SumStep(f, S, g)
<1>1. step \in [S -> [Int -> Int]] /\ \A x \in S : \A y \in Int : step[x][y] = f[x] + y
  BY DEF Increased
<1>2. Chooses(choice, S) /\ \A s \in SUBSET S : choice[s] = CHOOSE x \in s : TRUE
  BY ChoiceChooses DEF Choice
<1> HIDE DEF choice, step
<1>3. PICK g \in [SUBSET S -> Int] : FoldsTo(g, S, choice, 0, step)
  <2>1. 0 \in Int
    OBVIOUS
  <2>2. step \in [S -> [Int -> Int]] /\ Chooses(choice, S)
    BY <1>1, <1>2
  <2>3. QED BY <2>1, <2>2, FoldHasSolution
<1>4. g = SumStep(f, S, g)
  <2>1. ASSUME NEW s \in SUBSET S PROVE g[s] = SumStep(f, S, g)[s]
    <3>1. s # {} => choice[s] \in S /\ g[s \ {choice[s]}] \in Int
      BY <1>2 DEF Chooses
    <3>2. s # {} => g[s] = f[choice[s]] + g[s \ {choice[s]}]
      BY <1>1, <1>3, <3>1 DEF FoldsTo
    <3>3. s = {} => g[s] = 0
      BY <1>3 DEF FoldsTo
    <3>4. QED BY <1>2, <3>2, <3>3 DEF SumStep
  <2>2. SumStep(f, S, g) = [s \in SUBSET S |-> SumStep(f, S, g)[s]]
    BY DEF SumStep
  <2>3. QED BY <2>1, <2>2
<1>5. G = SumStep(f, S, G)
  BY <1>4
<1>6. Sum(f, S) = G[S]
  BY DEF Sum
<1> HIDE DEF G
<1>7. \A s \in SUBSET S : G[s] = IF s = {} THEN 0 ELSE f[choice[s]] + G[s \ {choice[s]}]
  BY <1>2, <1>5 DEF SumStep
<1>8. ASSUME NEW s \in SUBSET S PROVE G[s] \in Int
  <2> DEFINE P == {t \in SUBSET S : G[t] \in Int}
  <2>1. {} \in P
    <3>1. {} \in SUBSET S
      OBVIOUS
    <3>2. G[{}] = 0
      BY <1>7, <3>1
    <3>3. QED BY <3>1, <3>2
  <2>2. ASSUME NEW t \in SUBSET S, t # {}, t \ {choice[t]} \in P PROVE t \in P
    <3>1. choice[t] \in S
      BY <1>2, <2>2 DEF Chooses
    <3>2. G[t] = f[choice[t]] + G[t \ {choice[t]}] /\ G[t \ {choice[t]}] \in Int
      BY <1>7, <2>2
    <3>3. QED BY <3>1, <3>2
  <2> HIDE DEF P
  <2>3. ClosedUnder(choice, S, P)
    BY <2>1, <2>2 DEF ClosedUnder
  <2>4. s \in P
    BY <1>2, <2>3, RemovalInduction
  <2>5. QED BY <2>4 DEF P
<1>9. G = [s \in SUBSET S |-> G[s]]
  BY <1>5 DEF SumStep
<1>10. FoldsTo(G, S, choice, 0, step)
  <2>1. ASSUME NEW s \in SUBSET S
        PROVE  G[s] = IF s = {} THEN 0 ELSE step[choice[s]][G[s \ {choice[s]}]]
    <3>1. s # {} => choice[s] \in S /\ G[s \ {choice[s]}] \in Int
      BY <1>2, <1>8 DEF Chooses
    <3>2. s # {} => step[choice[s]][G[s \ {choice[s]}]] = f[choice[s]] + G[s \ {choice[s]}]
      BY <1>1, <3>1
    <3>3. QED BY <1>7, <3>2
  <2>2. QED BY <2>1 DEF FoldsTo
<1>11. G \in [SUBSET S -> Int]
  BY <1>8, <1>9
<1>12. QED BY <1>6, <1>10, <1>11 DEF choice, step

\* A sum is an element's value and the sum over the rest, whichever the element is.
LEMMA SumRemove ==
    ASSUME NEW f, NEW S, IsFiniteSet(S), \A x \in S : f[x] \in Int, NEW z \in S
    PROVE  Sum(f, S) = f[z] + Sum(f, S \ {z}) /\ Sum(f, S \ {z}) \in Int
<1> DEFINE T == S \ {z}
           choice == Choice(S)
           step == Increased(f, S)
<1>1. PICK G \in [SUBSET S -> Int] : FoldsTo(G, S, choice, 0, step) /\ Sum(f, S) = G[S]
  BY SumEquation
<1>2. T \in SUBSET S /\ IsFiniteSet(T)
  BY FS_Subset
<1>3. PICK H \in [SUBSET T -> Int] :
         FoldsTo(H, T, Choice(T), 0, Increased(f, T)) /\ Sum(f, T) = H[T]
  BY <1>2, SumEquation
<1>4. FoldsTo(H, T, choice, 0, step)
  <2> SUFFICES ASSUME NEW s \in SUBSET T
               PROVE  H[s] = IF s = {} THEN 0 ELSE step[choice[s]][H[s \ {choice[s]}]]
    BY DEF FoldsTo
  <2>1. H[s] = IF s = {} THEN 0 ELSE Increased(f, T)[Choice(T)[s]][H[s \ {Choice(T)[s]}]]
    BY <1>3 DEF FoldsTo
  <2>2. Choice(T)[s] = choice[s] /\ (s # {} => choice[s] \in T)
    BY ChoiceChooses DEF Choice, Chooses
  <2>3. \A x \in T : Increased(f, T)[x] = step[x]
    BY DEF Increased
  <2> HIDE DEF T, choice, step
  <2>4. QED BY <2>1, <2>2, <2>3
<1>5. Chooses(choice, S)
  BY ChoiceChooses
<1>6. \A x \in S : \A y \in Int : step[x][y] = f[x] + y
  BY DEF Increased
<1>7. Commutes(S, Int, step)
  <2> SUFFICES ASSUME NEW x \in S, NEW y \in S, NEW v \in Int
               PROVE  step[x][step[y][v]] = step[y][step[x][v]]
    BY DEF Commutes
  <2>1. \A b, c, w \in Int : b + (c + w) = c + (b + w) /\ b + w \in Int
    OBVIOUS
  <2> HIDE DEF step
  <2>2. step[y][v] = f[y] + v /\ step[x][v] = f[x] + v /\ f[x] \in Int /\ f[y] \in Int
    BY <1>6
  <2>3. f[y] + v \in Int /\ f[x] + v \in Int
    BY <2>1, <2>2
  <2>4. step[x][f[y] + v] = f[x] + (f[y] + v) /\ step[y][f[x] + v] = f[y] + (f[x] + v)
    BY <1>6, <2>3
  <2>5. QED BY <2>1, <2>2, <2>4
<1> HIDE DEF T, choice, step
<1>8. H[T] = G[T]
  <2>1. FoldsTo(G, S, choice, 0, step)
    BY <1>1
  <2>2. QED BY <1>2, <1>4, <1>5, <2>1, FoldsAgree
<1>9. G[S] = step[z][G[S \ {z}]]
  <2>1. FoldsFreely(G, Int, S, choice, 0, step)
    BY <1>1, <1>5, <1>7 DEF FoldsFreely
  <2>2. QED BY <2>1, FoldInAnyOrder
<1>10. S \ {z} = T
  BY DEF T
<1>11. G[T] \in Int
  BY <1>1, <1>2
<1>12. step[z][G[T]] = f[z] + G[T]
  BY <1>6, <1>11
<1>13. Sum(f, S) = f[z] + G[T]
  BY <1>1, <1>9, <1>10, <1>12
<1>14. Sum(f, T) = G[T]
  BY <1>3, <1>8
<1>15. QED BY <1>10, <1>11, <1>13, <1>14

LEMMA SumEmpty == ASSUME NEW f PROVE Sum(f, {}) = 0
<1>1. PICK g \in [SUBSET {} -> Int] :
         FoldsTo(g, {}, Choice({}), 0, Increased(f, {})) /\ Sum(f, {}) = g[{}]
  BY SumEquation, FS_EmptySet
<1>2. QED BY <1>1 DEF FoldsTo

LEMMA SumAdd ==
    ASSUME NEW f, NEW S, IsFiniteSet(S), NEW z, z \notin S,
           \A x \in S \union {z} : f[x] \in Int
    PROVE  Sum(f, S \union {z}) = f[z] + Sum(f, S) /\ Sum(f, S) \in Int
<1>1. IsFiniteSet(S \union {z}) /\ (S \union {z}) \ {z} = S
  BY FS_AddElement
<1>2. QED BY <1>1, SumRemove

LEMMA SumIsInt ==
    ASSUME NEW f, NEW S, IsFiniteSet(S), \A x \in S : f[x] \in Int
    PROVE  Sum(f, S) \in Int
<1>1. PICK g \in [SUBSET S -> Int] : Sum(f, S) = g[S]
  BY SumEquation
<1>2. S \in SUBSET S
  OBVIOUS
<1>3. QED BY <1>1, <1>2

LEMMA SumOfNaturals ==
    ASSUME NEW f, NEW S, IsFiniteSet(S), \A x \in S : f[x] \in Nat
    PROVE  Sum(f, S) \in Nat
<1> DEFINE P == {s \in SUBSET S : Sum(f, s) \in Nat}
<1>1. {} \in P
  BY SumEmpty
<1>2. ASSUME NEW s \in SUBSET S, NEW x \in S \ s, s \in P PROVE s \union {x} \in P
  <2>1. IsFiniteSet(s) /\ \A y \in s \union {x} : f[y] \in Int
    BY FS_Subset
  <2>2. Sum(f, s \union {x}) = f[x] + Sum(f, s)
    BY <2>1, SumAdd
  <2>3. Sum(f, s) \in Nat /\ f[x] \in Nat
    BY <1>2
  <2>4. QED BY <2>2, <2>3
<1>3. S \in P
  <2> HIDE DEF P
  <2>1. QED BY <1>1, <1>2, SubsetInduction
<1>4. QED BY <1>3

LEMMA SumPositive ==
    ASSUME NEW f, NEW S, IsFiniteSet(S), \A x \in S : f[x] \in Nat, NEW z \in S, f[z] > 0
    PROVE  Sum(f, S) > 0
<1>1. Sum(f, S) = f[z] + Sum(f, S \ {z})
  BY SumRemove
<1>2. IsFiniteSet(S \ {z})
  BY FS_Subset
<1>3. Sum(f, S \ {z}) \in Nat
  BY <1>2, SumOfNaturals
<1>4. QED BY <1>1, <1>3

LEMMA SumOfOne ==
    ASSUME NEW f, NEW z, f[z] \in Int
    PROVE  Sum(f, {z}) = f[z]
<1>1. z \notin {} /\ {} \union {z} = {z} /\ \A x \in {} \union {z} : f[x] \in Int
  OBVIOUS
<1>2. Sum(f, {} \union {z}) = f[z] + Sum(f, {})
  BY <1>1, SumAdd, FS_EmptySet
<1>3. Sum(f, {}) = 0
  BY SumEmpty
<1>4. QED BY <1>1, <1>2, <1>3

LEMMA SumOfTwo ==
    ASSUME NEW f, NEW y, NEW z, y # z, f[y] \in Int, f[z] \in Int
    PROVE  Sum(f, {y, z}) = f[y] + f[z]
<1>1. y \notin {z} /\ {z} \union {y} = {y, z} /\ \A x \in {z} \union {y} : f[x] \in Int
  OBVIOUS
<1>2. Sum(f, {z} \union {y}) = f[y] + Sum(f, {z})
  BY <1>1, SumAdd, FS_Singleton
<1>3. Sum(f, {z}) = f[z]
  BY SumOfOne
<1>4. QED BY <1>1, <1>2, <1>3

\* Sums are linear.
LEMMA SumCombination ==
    ASSUME NEW S, IsFiniteSet(S), NEW f, NEW g, NEW h, NEW a \in Int, NEW b \in Int,
           \A x \in S : f[x] \in Int /\ g[x] \in Int /\ h[x] = a * f[x] + b * g[x]
    PROVE  Sum(h, S) = a * Sum(f, S) + b * Sum(g, S)
<1> DEFINE P == {s \in SUBSET S : Sum(h, s) = a * Sum(f, s) + b * Sum(g, s)}
<1>1. {} \in P
  BY SumEmpty
<1>2. ASSUME NEW s \in SUBSET S, NEW x \in S \ s, s \in P PROVE s \union {x} \in P
  <2>1. IsFiniteSet(s) /\ \A y \in s \union {x} : f[y] \in Int /\ g[y] \in Int /\ h[y] \in Int
    BY FS_Subset
  <2>2. /\ Sum(f, s \union {x}) = f[x] + Sum(f, s) /\ Sum(f, s) \in Int
        /\ Sum(g, s \union {x}) = g[x] + Sum(g, s) /\ Sum(g, s) \in Int
        /\ Sum(h, s \union {x}) = h[x] + Sum(h, s)
    BY <2>1, SumAdd
  <2>3. /\ Sum(h, s) = a * Sum(f, s) + b * Sum(g, s)
        /\ h[x] = a * f[x] + b * g[x] /\ f[x] \in Int /\ g[x] \in Int
    BY <1>2
  <2>4. \A p, q, u, v \in Int :
           (a * p + b * q) + (a * u + b * v) = a * (p + u) + b * (q + v)
    OBVIOUS
  <2>5. QED BY <2>2, <2>3, <2>4
<1>3. S \in P
  <2> HIDE DEF P
  <2>1. QED BY <1>1, <1>2, SubsetInduction
<1>4. QED BY <1>3

LEMMA SumEqual ==
    ASSUME NEW S, IsFiniteSet(S), NEW f, NEW g, \A x \in S : f[x] \in Int /\ g[x] = f[x]
    PROVE  Sum(g, S) = Sum(f, S)
<1>1. \A x \in S : f[x] \in Int /\ f[x] \in Int /\ g[x] = 1 * f[x] + 0 * f[x]
  OBVIOUS
<1>2. Sum(g, S) = 1 * Sum(f, S) + 0 * Sum(f, S) /\ Sum(f, S) \in Int
  BY <1>1, SumCombination, SumIsInt
<1>3. QED BY <1>2

LEMMA SumOfZeros ==
    ASSUME NEW S, IsFiniteSet(S), NEW f, \A x \in S : f[x] = 0
    PROVE  Sum(f, S) = 0
<1>1. \A x \in S : f[x] \in Int /\ f[x] \in Int /\ f[x] = 0 * f[x] + 0 * f[x]
  OBVIOUS
<1>2. Sum(f, S) \in Int
  BY <1>1, SumIsInt
<1>3. Sum(f, S) = 0 * Sum(f, S) + 0 * Sum(f, S)
  <2>1. 0 \in Int
    OBVIOUS
  <2>2. QED BY <1>1, <2>1, SumCombination
<1>4. QED BY <1>2, <1>3

LEMMA ImageIsFinite ==
    ASSUME NEW S, IsFiniteSet(S), NEW h
    PROVE  IsFiniteSet({h[x] : x \in S})
<1> DEFINE T == {h[x] : x \in S}
           f == [x \in S |-> h[x]]
<1>1. f \in Surjection(S, T)
  BY DEF Surjection
<1> HIDE DEF f, T
<1>2. IsFiniteSet(T)
  BY <1>1, FS_Surjection
<1>3. QED BY <1>2 DEF T

\* Summing over another index.
Reindexes(S, f, g, h) ==
    /\ \A x \in S : f[x] \in Int /\ g[h[x]] = f[x]
    /\ \A x, y \in S : h[x] = h[y] => x = y

LEMMA SumImage ==
    ASSUME NEW S, IsFiniteSet(S), NEW f, NEW g, NEW h, Reindexes(S, f, g, h)
    PROVE  Sum(g, {h[x] : x \in S}) = Sum(f, S)
<1> USE DEF Reindexes
<1> DEFINE Image(s) == {h[x] : x \in s}
           P == {s \in SUBSET S : IsFiniteSet(Image(s)) /\ Sum(g, Image(s)) = Sum(f, s)}
<1>1. {} \in P
  <2>1. Image({}) = {}
    OBVIOUS
  <2>2. QED BY <2>1, SumEmpty, FS_EmptySet
<1>2. ASSUME NEW s \in SUBSET S, NEW x \in S \ s, s \in P PROVE s \union {x} \in P
  <2>1. IsFiniteSet(s) /\ \A y \in s \union {x} : f[y] \in Int
    BY FS_Subset
  <2>2. Sum(f, s \union {x}) = f[x] + Sum(f, s)
    BY <2>1, SumAdd
  <2>3. Image(s \union {x}) = Image(s) \union {h[x]}
    OBVIOUS
  <2>4. h[x] \notin Image(s) /\ \A y \in Image(s) \union {h[x]} : g[y] \in Int
    OBVIOUS
  <2>5. IsFiniteSet(Image(s)) /\ Sum(g, Image(s)) = Sum(f, s)
    BY <1>2
  <2> HIDE DEF Image
  <2>6. Sum(g, Image(s) \union {h[x]}) = g[h[x]] + Sum(g, Image(s))
    BY <2>4, <2>5, SumAdd
  <2>7. IsFiniteSet(Image(s) \union {h[x]})
    BY <2>5, FS_AddElement
  <2>8. QED BY <2>2, <2>3, <2>5, <2>6, <2>7
<1>3. S \in P
  <2> HIDE DEF P
  <2>1. QED BY <1>1, <1>2, SubsetInduction
<1>4. QED BY <1>3

\* Summing group by group.
Groups(S, T, f, k, h) ==
    /\ \A x \in S : f[x] \in Int /\ k[x] \in T
    /\ \A y \in T : h[y] = Sum(f, {x \in S : k[x] = y})

LEMMA SumFibres ==
    ASSUME NEW S, IsFiniteSet(S), NEW T, IsFiniteSet(T), NEW f, NEW k, NEW h,
           Groups(S, T, f, k, h)
    PROVE  Sum(f, S) = Sum(h, T)
<1> USE DEF Groups
<1> DEFINE Fibre(s, y) == {x \in s : k[x] = y}
           group(s) == [y \in T |-> Sum(f, Fibre(s, y))]
           P == {s \in SUBSET S : Sum(f, s) = Sum(group(s), T)}
<1>1. \A s \in SUBSET S : IsFiniteSet(s) /\ \A y : Fibre(s, y) \in SUBSET S
  BY FS_Subset
<1>2. ASSUME NEW s \in SUBSET S, NEW y \in T
      PROVE  group(s)[y] = Sum(f, Fibre(s, y)) /\ group(s)[y] \in Int
                /\ IsFiniteSet(Fibre(s, y))
  <2>1. IsFiniteSet(Fibre(s, y)) /\ \A x \in Fibre(s, y) : f[x] \in Int
    BY <1>1, FS_Subset
  <2>2. QED BY <2>1, SumIsInt
<1>3. {} \in P
  <2>1. \A y \in T : Fibre({}, y) = {}
    OBVIOUS
  <2>2. \A y \in T : group({})[y] = 0
    BY <2>1, SumEmpty
  <2>3. Sum(group({}), T) = 0
    <3> HIDE DEF group
    <3>1. QED BY <2>2, SumOfZeros
  <2>4. QED BY <2>3, SumEmpty
<1>4. ASSUME NEW s \in SUBSET S, NEW x \in S \ s, s \in P PROVE s \union {x} \in P
  <2> DEFINE t == s \union {x}
             z == k[x]
             old == group(s)
             new == group(t)
  <2>1. t \in SUBSET S /\ z \in T /\ IsFiniteSet(s) /\ f[x] \in Int
    BY <1>1
  <2>2. \A y \in T : old[y] \in Int /\ new[y] \in Int
    BY <1>2, <2>1
  <2>3. \A y \in T \ {z} : new[y] = old[y]
    <3>1. \A y \in T \ {z} : Fibre(t, y) = Fibre(s, y)
      OBVIOUS
    <3>2. QED BY <3>1
  <2>4. new[z] = f[x] + old[z]
    <3>1. Fibre(t, z) = Fibre(s, z) \union {x} /\ x \notin Fibre(s, z)
      OBVIOUS
    <3>2. \A y \in Fibre(s, z) \union {x} : f[y] \in Int
      OBVIOUS
    <3>3. IsFiniteSet(Fibre(s, z)) /\ old[z] = Sum(f, Fibre(s, z))
      BY <1>2, <2>1
    <3>4. new[z] = Sum(f, Fibre(t, z))
      BY <2>1
    <3> DEFINE F == Fibre(s, z)
    <3>5. /\ Fibre(t, z) = F \union {x} /\ x \notin F /\ IsFiniteSet(F)
          /\ \A y \in F \union {x} : f[y] \in Int
      BY <3>1, <3>2, <3>3
    <3>6. old[z] = Sum(f, F)
      BY <3>3
    <3> HIDE DEF F, Fibre, group, z
    <3>7. Sum(f, F \union {x}) = f[x] + Sum(f, F)
      BY <3>5, SumAdd
    <3>8. QED BY <3>4, <3>5, <3>6, <3>7
  <2>5. Sum(f, t) = f[x] + Sum(f, s)
    <3>1. \A y \in s \union {x} : f[y] \in Int
      OBVIOUS
    <3>2. QED BY <2>1, <3>1, SumAdd
  <2>6. Sum(f, s) = Sum(old, T)
    BY <1>4
  <2> HIDE DEF new, old, z, group
  <2>7. /\ Sum(new, T) = new[z] + Sum(new, T \ {z})
        /\ Sum(old, T) = old[z] + Sum(old, T \ {z}) /\ Sum(old, T \ {z}) \in Int
    <3>1. Sum(new, T) = new[z] + Sum(new, T \ {z})
      BY <2>1, <2>2, SumRemove
    <3>2. Sum(old, T) = old[z] + Sum(old, T \ {z}) /\ Sum(old, T \ {z}) \in Int
      BY <2>1, <2>2, SumRemove
    <3>3. QED BY <3>1, <3>2
  <2>8. Sum(new, T \ {z}) = Sum(old, T \ {z})
    <3>1. IsFiniteSet(T \ {z})
      BY FS_RemoveElement
    <3>2. QED BY <2>2, <2>3, <3>1, SumEqual
  <2>9. old[z] \in Int
    BY <2>1, <2>2
  <2>10. Sum(f, t) = Sum(new, T)
    BY <2>1, <2>4, <2>5, <2>6, <2>7, <2>8, <2>9
  <2>11. QED BY <2>1, <2>10 DEF new
<1>5. S \in P
  <2> HIDE DEF P
  <2>1. QED BY <1>3, <1>4, SubsetInduction
<1>6. Sum(group(S), T) = Sum(h, T)
  <2>1. S \in SUBSET S
    OBVIOUS
  <2>2. \A y \in T : h[y] = group(S)[y]
    OBVIOUS
  <2>3. \A y \in T : group(S)[y] \in Int
    BY <1>2, <2>1
  <2> HIDE DEF group
  <2>4. QED BY <2>2, <2>3, SumEqual
<1>7. QED BY <1>5, <1>6

-----------------------------------------------------------------------------
(* Products.                                                                 *)

ProductStep(f, S, g) ==
    [s \in SUBSET S |-> IF s = {} THEN 1
                        ELSE LET x == CHOOSE x \in s : TRUE IN f[x] * g[s \ {x}]]

Product(f, S) == (CHOOSE g : g = ProductStep(f, S, g))[S]

Multiplied(f, S) == [x \in S |-> [y \in Int |-> f[x] * y]]

\* All subsets' products at once.
LEMMA ProductEquation ==
    ASSUME NEW f, NEW S, IsFiniteSet(S), \A x \in S : f[x] \in Int
    PROVE  \E g \in [SUBSET S -> Int] :
              FoldsTo(g, S, Choice(S), 1, Multiplied(f, S)) /\ Product(f, S) = g[S]
<1> DEFINE choice == Choice(S)
           step == Multiplied(f, S)
           G == CHOOSE g : g = ProductStep(f, S, g)
<1>1. step \in [S -> [Int -> Int]] /\ \A x \in S : \A y \in Int : step[x][y] = f[x] * y
  BY DEF Multiplied
<1>2. Chooses(choice, S) /\ \A s \in SUBSET S : choice[s] = CHOOSE x \in s : TRUE
  BY ChoiceChooses DEF Choice
<1> HIDE DEF choice, step
<1>3. PICK g \in [SUBSET S -> Int] : FoldsTo(g, S, choice, 1, step)
  <2>1. 1 \in Int
    OBVIOUS
  <2>2. step \in [S -> [Int -> Int]] /\ Chooses(choice, S)
    BY <1>1, <1>2
  <2>3. QED BY <2>1, <2>2, FoldHasSolution
<1>4. g = ProductStep(f, S, g)
  <2>1. ASSUME NEW s \in SUBSET S PROVE g[s] = ProductStep(f, S, g)[s]
    <3>1. s # {} => choice[s] \in S /\ g[s \ {choice[s]}] \in Int
      BY <1>2 DEF Chooses
    <3>2. s # {} => g[s] = f[choice[s]] * g[s \ {choice[s]}]
      BY <1>1, <1>3, <3>1 DEF FoldsTo
    <3>3. s = {} => g[s] = 1
      BY <1>3 DEF FoldsTo
    <3>4. QED BY <1>2, <3>2, <3>3 DEF ProductStep
  <2>2. ProductStep(f, S, g) = [s \in SUBSET S |-> ProductStep(f, S, g)[s]]
    BY DEF ProductStep
  <2>3. QED BY <2>1, <2>2
<1>5. G = ProductStep(f, S, G)
  BY <1>4
<1>6. Product(f, S) = G[S]
  BY DEF Product
<1> HIDE DEF G
<1>7. \A s \in SUBSET S : G[s] = IF s = {} THEN 1 ELSE f[choice[s]] * G[s \ {choice[s]}]
  BY <1>2, <1>5 DEF ProductStep
<1>8. ASSUME NEW s \in SUBSET S PROVE G[s] \in Int
  <2> DEFINE P == {t \in SUBSET S : G[t] \in Int}
  <2>1. {} \in P
    <3>1. {} \in SUBSET S
      OBVIOUS
    <3>2. G[{}] = 1
      BY <1>7, <3>1
    <3>3. QED BY <3>1, <3>2
  <2>2. ASSUME NEW t \in SUBSET S, t # {}, t \ {choice[t]} \in P PROVE t \in P
    <3>1. choice[t] \in S
      BY <1>2, <2>2 DEF Chooses
    <3>2. G[t] = f[choice[t]] * G[t \ {choice[t]}] /\ G[t \ {choice[t]}] \in Int
      BY <1>7, <2>2
    <3>3. QED BY <3>1, <3>2
  <2> HIDE DEF P
  <2>3. ClosedUnder(choice, S, P)
    BY <2>1, <2>2 DEF ClosedUnder
  <2>4. s \in P
    BY <1>2, <2>3, RemovalInduction
  <2>5. QED BY <2>4 DEF P
<1>9. G = [s \in SUBSET S |-> G[s]]
  BY <1>5 DEF ProductStep
<1>10. FoldsTo(G, S, choice, 1, step)
  <2>1. ASSUME NEW s \in SUBSET S
        PROVE  G[s] = IF s = {} THEN 1 ELSE step[choice[s]][G[s \ {choice[s]}]]
    <3>1. s # {} => choice[s] \in S /\ G[s \ {choice[s]}] \in Int
      BY <1>2, <1>8 DEF Chooses
    <3>2. s # {} => step[choice[s]][G[s \ {choice[s]}]] = f[choice[s]] * G[s \ {choice[s]}]
      BY <1>1, <3>1
    <3>3. QED BY <1>7, <3>2
  <2>2. QED BY <2>1 DEF FoldsTo
<1>11. G \in [SUBSET S -> Int]
  BY <1>8, <1>9
<1>12. QED BY <1>6, <1>10, <1>11 DEF choice, step

\* A product is an element's value times the product over the rest.
LEMMA ProductRemove ==
    ASSUME NEW f, NEW S, IsFiniteSet(S), \A x \in S : f[x] \in Int, NEW z \in S
    PROVE  Product(f, S) = f[z] * Product(f, S \ {z}) /\ Product(f, S \ {z}) \in Int
<1> DEFINE T == S \ {z}
           choice == Choice(S)
           step == Multiplied(f, S)
<1>1. PICK G \in [SUBSET S -> Int] : FoldsTo(G, S, choice, 1, step) /\ Product(f, S) = G[S]
  BY ProductEquation
<1>2. T \in SUBSET S /\ IsFiniteSet(T)
  BY FS_Subset
<1>3. PICK H \in [SUBSET T -> Int] :
         FoldsTo(H, T, Choice(T), 1, Multiplied(f, T)) /\ Product(f, T) = H[T]
  BY <1>2, ProductEquation
<1>4. FoldsTo(H, T, choice, 1, step)
  <2> SUFFICES ASSUME NEW s \in SUBSET T
               PROVE  H[s] = IF s = {} THEN 1 ELSE step[choice[s]][H[s \ {choice[s]}]]
    BY DEF FoldsTo
  <2>1. H[s] = IF s = {} THEN 1 ELSE Multiplied(f, T)[Choice(T)[s]][H[s \ {Choice(T)[s]}]]
    BY <1>3 DEF FoldsTo
  <2>2. Choice(T)[s] = choice[s] /\ (s # {} => choice[s] \in T)
    BY ChoiceChooses DEF Choice, Chooses
  <2>3. \A x \in T : Multiplied(f, T)[x] = step[x]
    BY DEF Multiplied
  <2> HIDE DEF T, choice, step
  <2>4. QED BY <2>1, <2>2, <2>3
<1>5. Chooses(choice, S)
  BY ChoiceChooses
<1>6. \A x \in S : \A y \in Int : step[x][y] = f[x] * y
  BY DEF Multiplied
<1>7. Commutes(S, Int, step)
  <2> SUFFICES ASSUME NEW x \in S, NEW y \in S, NEW v \in Int
               PROVE  step[x][step[y][v]] = step[y][step[x][v]]
    BY DEF Commutes
  <2>1. \A b, c, w \in Int : b * (c * w) = c * (b * w) /\ b * w \in Int
    OBVIOUS
  <2> HIDE DEF step
  <2>2. step[y][v] = f[y] * v /\ step[x][v] = f[x] * v /\ f[x] \in Int /\ f[y] \in Int
    BY <1>6
  <2>3. f[y] * v \in Int /\ f[x] * v \in Int
    BY <2>1, <2>2
  <2>4. step[x][f[y] * v] = f[x] * (f[y] * v) /\ step[y][f[x] * v] = f[y] * (f[x] * v)
    BY <1>6, <2>3
  <2>5. QED BY <2>1, <2>2, <2>4
<1> HIDE DEF T, choice, step
<1>8. H[T] = G[T]
  <2>1. FoldsTo(G, S, choice, 1, step)
    BY <1>1
  <2>2. QED BY <1>2, <1>4, <1>5, <2>1, FoldsAgree
<1>9. G[S] = step[z][G[S \ {z}]]
  <2>1. FoldsFreely(G, Int, S, choice, 1, step)
    BY <1>1, <1>5, <1>7 DEF FoldsFreely
  <2>2. QED BY <2>1, FoldInAnyOrder
<1>10. S \ {z} = T
  BY DEF T
<1>11. G[T] \in Int
  BY <1>1, <1>2
<1>12. step[z][G[T]] = f[z] * G[T]
  BY <1>6, <1>11
<1>13. Product(f, S) = f[z] * G[T]
  BY <1>1, <1>9, <1>10, <1>12
<1>14. Product(f, T) = G[T]
  BY <1>3, <1>8
<1>15. QED BY <1>10, <1>11, <1>13, <1>14

LEMMA ProductEmpty == ASSUME NEW f PROVE Product(f, {}) = 1
<1>1. PICK g \in [SUBSET {} -> Int] :
         FoldsTo(g, {}, Choice({}), 1, Multiplied(f, {})) /\ Product(f, {}) = g[{}]
  BY ProductEquation, FS_EmptySet
<1>2. QED BY <1>1 DEF FoldsTo

-----------------------------------------------------------------------------
(* Sums of sums and of products.                                             *)

\* A sum over a part is the whole sum when the rest adds nothing.
LEMMA SumOfPart ==
    ASSUME NEW S, IsFiniteSet(S), NEW T \in SUBSET S, NEW f,
           \A x \in T : f[x] \in Int, \A x \in S \ T : f[x] = 0
    PROVE  Sum(f, S) = Sum(f, T)
<1> DEFINE P == {s \in SUBSET (S \ T) : IsFiniteSet(T \union s) /\ Sum(f, T \union s) = Sum(f, T)}
<1>1. IsFiniteSet(T) /\ IsFiniteSet(S \ T)
  BY FS_Subset
<1>2. {} \in P
  <2>1. T \union {} = T
    OBVIOUS
  <2>2. QED BY <1>1, <2>1
<1>3. ASSUME NEW s \in SUBSET (S \ T), NEW x \in (S \ T) \ s, s \in P PROVE s \union {x} \in P
  <2> DEFINE U == T \union s
  <2>1. IsFiniteSet(U) /\ Sum(f, U) = Sum(f, T) /\ x \notin U /\ T \union (s \union {x}) = U \union {x}
    BY <1>3
  <2>2. \A y \in U \union {x} : f[y] \in Int
    <3>1. \A y \in U \union {x} : y \in T \/ y \in S \ T
      OBVIOUS
    <3>2. QED BY <3>1
  <2>3. f[x] = 0
    OBVIOUS
  <2> HIDE DEF U
  <2>4. Sum(f, U \union {x}) = f[x] + Sum(f, U) /\ Sum(f, U) \in Int
    BY <2>1, <2>2, SumAdd
  <2>5. IsFiniteSet(U \union {x})
    BY <2>1, FS_AddElement
  <2>6. Sum(f, U \union {x}) = Sum(f, T)
    BY <2>1, <2>3, <2>4
  <2>7. s \union {x} \in SUBSET (S \ T)
    OBVIOUS
  <2>8. QED BY <2>1, <2>5, <2>6, <2>7
<1> HIDE DEF P
<1>4. S \ T \in P
  BY <1>1, <1>2, <1>3, SubsetInduction
<1>5. T \union (S \ T) = S
  OBVIOUS
<1>6. QED BY <1>4, <1>5 DEF P

LEMMA SumOfParts ==
    ASSUME NEW S, IsFiniteSet(S), NEW T \in SUBSET S, NEW f, \A x \in S : f[x] \in Int
    PROVE  Sum(f, S) = Sum(f, T) + Sum(f, S \ T) /\ Sum(f, T) \in Int /\ Sum(f, S \ T) \in Int
<1> DEFINE g == [x \in S |-> IF x \in T THEN f[x] ELSE 0]
           h == [x \in S |-> IF x \in T THEN 0 ELSE f[x]]
<1>1. \A x \in S : g[x] \in Int /\ h[x] \in Int /\ f[x] = 1 * g[x] + 1 * h[x]
  OBVIOUS
<1>2. /\ \A x \in T : g[x] = f[x] /\ g[x] \in Int
      /\ \A x \in S \ T : g[x] = 0
      /\ \A x \in S \ T : h[x] = f[x] /\ h[x] \in Int
      /\ \A x \in S \ (S \ T) : h[x] = 0
  OBVIOUS
<1> HIDE DEF g, h
<1>3. 1 \in Int /\ IsFiniteSet(T) /\ IsFiniteSet(S \ T) /\ S \ T \in SUBSET S
  BY FS_Subset
<1>4. Sum(f, S) = 1 * Sum(g, S) + 1 * Sum(h, S)
  BY <1>1, <1>3, SumCombination
<1>5. Sum(g, S) = Sum(g, T) /\ Sum(h, S) = Sum(h, S \ T)
  BY <1>2, <1>3, SumOfPart
<1>6. Sum(f, T) = Sum(g, T) /\ Sum(f, S \ T) = Sum(h, S \ T)
  <2>1. \A x \in T : g[x] \in Int /\ f[x] = g[x]
    BY <1>2
  <2>2. \A x \in S \ T : h[x] \in Int /\ f[x] = h[x]
    BY <1>2
  <2>3. QED BY <1>3, <2>1, <2>2, SumEqual
<1>7. Sum(f, T) \in Int /\ Sum(f, S \ T) \in Int
  <2>1. (\A x \in T : f[x] \in Int) /\ (\A x \in S \ T : f[x] \in Int)
    OBVIOUS
  <2>2. QED BY <1>3, <2>1, SumIsInt
<1>8. QED BY <1>4, <1>5, <1>6, <1>7

\* A sum of sums in the other order; the terms are t[x][y].
Columns(t, S, T) == [y \in T |-> Sum([x \in S |-> t[x][y]], S)]
Rows(t, S, T) == [x \in S |-> Sum(t[x], T)]

LEMMA SumExchange ==
    ASSUME NEW S, IsFiniteSet(S), NEW T, IsFiniteSet(T), NEW t,
           \A x \in S : \A y \in T : t[x][y] \in Int
    PROVE  Sum(Rows(t, S, T), S) = Sum(Columns(t, S, T), T)
<1> DEFINE Column(y) == [x \in S |-> t[x][y]]
           upTo(s) == [y \in T |-> Sum(Column(y), s)]
           rows == Rows(t, S, T)
           P == {s \in SUBSET S : Sum(rows, s) = Sum(upTo(s), T)}
<1>1. /\ \A x \in S : rows[x] = Sum(t[x], T) /\ rows[x] \in Int
      /\ \A y \in T : \A x \in S : Column(y)[x] = t[x][y] /\ Column(y)[x] \in Int
  BY SumIsInt DEF Rows
<1>2. \A s : \A y \in T : upTo(s)[y] = Sum(Column(y), s)
  OBVIOUS
<1>3. ASSUME NEW s \in SUBSET S, NEW y \in T
      PROVE  IsFiniteSet(s) /\ upTo(s)[y] \in Int /\ Sum(rows, s) \in Int
  <2>1. IsFiniteSet(s) /\ (\A x \in s : Column(y)[x] \in Int) /\ (\A x \in s : rows[x] \in Int)
    BY <1>1, FS_Subset
  <2> HIDE DEF Column, rows
  <2>2. Sum(Column(y), s) \in Int /\ Sum(rows, s) \in Int
    BY <2>1, SumIsInt
  <2>3. QED BY <2>1, <2>2
<1> HIDE DEF upTo, rows
<1>4. {} \in P
  <2>1. \A y \in T : upTo({})[y] = 0
    BY <1>2, SumEmpty
  <2>2. Sum(upTo({}), T) = 0
    BY <2>1, SumOfZeros
  <2>3. QED BY <2>2, SumEmpty
<1>5. ASSUME NEW s \in SUBSET S, NEW x \in S \ s, s \in P PROVE s \union {x} \in P
  <2> DEFINE more == s \union {x}
  <2>1. IsFiniteSet(s) /\ more \in SUBSET S /\ x \notin s
    BY FS_Subset
  <2>2. \A z \in s \union {x} : rows[z] \in Int
    BY <1>1
  <2>3. Sum(rows, more) = rows[x] + Sum(rows, s) /\ Sum(rows, s) \in Int
    BY <2>1, <2>2, SumAdd
  <2>4. ASSUME NEW y \in T
        PROVE  /\ upTo(more)[y] = 1 * t[x][y] + 1 * upTo(s)[y]
               /\ t[x][y] \in Int /\ upTo(s)[y] \in Int /\ upTo(more)[y] \in Int
    <3>1. (\A z \in s \union {x} : Column(y)[z] \in Int) /\ Column(y)[x] = t[x][y]
      BY <1>1
    <3> HIDE DEF Column
    <3>2. Sum(Column(y), s \union {x}) = Column(y)[x] + Sum(Column(y), s)
      BY <2>1, <3>1, SumAdd
    <3>3. upTo(more)[y] = Sum(Column(y), more) /\ upTo(s)[y] = Sum(Column(y), s)
      BY <1>2
    <3>4. t[x][y] \in Int /\ upTo(s)[y] \in Int /\ upTo(more)[y] \in Int
      BY <1>3, <2>1
    <3>5. QED BY <3>1, <3>2, <3>3, <3>4
  <2> HIDE DEF more
  <2>5. Sum(upTo(more), T) = 1 * Sum(t[x], T) + 1 * Sum(upTo(s), T)
    <3>1. 1 \in Int
      OBVIOUS
    <3>2. QED BY <2>4, <3>1, SumCombination
  <2>6. rows[x] = Sum(t[x], T) /\ rows[x] \in Int /\ Sum(rows, s) = Sum(upTo(s), T)
    BY <1>1, <1>5
  <2>7. Sum(rows, more) = Sum(upTo(more), T)
    BY <2>3, <2>5, <2>6
  <2>8. QED BY <2>1, <2>7 DEF more
<1> HIDE DEF P
<1>6. S \in P
  BY <1>4, <1>5, SubsetInduction
<1>7. upTo(S) = Columns(t, S, T)
  BY DEF upTo, Columns
<1>8. QED BY <1>6, <1>7 DEF P, rows

LEMMA ProductIsInt ==
    ASSUME NEW f, NEW S, IsFiniteSet(S), \A x \in S : f[x] \in Int
    PROVE  Product(f, S) \in Int
<1>1. CASE S = {}
  BY <1>1, ProductEmpty
<1>2. CASE S # {}
  <2>1. PICK z \in S : TRUE
    BY <1>2
  <2>2. Product(f, S) = f[z] * Product(f, S \ {z}) /\ Product(f, S \ {z}) \in Int
    BY ProductRemove
  <2>3. f[z] \in Int
    OBVIOUS
  <2> DEFINE rest == Product(f, S \ {z})
  <2> HIDE DEF rest
  <2>4. Product(f, S) = f[z] * rest /\ rest \in Int
    BY <2>2 DEF rest
  <2>5. \A a, b \in Int : a * b \in Int
    OBVIOUS
  <2>6. QED BY <2>3, <2>4, <2>5
<1>3. QED BY <1>1, <1>2

LEMMA ProductAdd ==
    ASSUME NEW f, NEW S, IsFiniteSet(S), NEW z, z \notin S,
           \A x \in S \union {z} : f[x] \in Int
    PROVE  Product(f, S \union {z}) = f[z] * Product(f, S) /\ Product(f, S) \in Int
<1>1. IsFiniteSet(S \union {z}) /\ (S \union {z}) \ {z} = S
  BY FS_AddElement
<1>2. QED BY <1>1, ProductRemove

LEMMA ProductEqual ==
    ASSUME NEW S, IsFiniteSet(S), NEW f, NEW g, \A x \in S : f[x] \in Int /\ g[x] = f[x]
    PROVE  Product(g, S) = Product(f, S)
<1> DEFINE P == {s \in SUBSET S : Product(g, s) = Product(f, s)}
<1>1. {} \in P
  BY ProductEmpty
<1>2. ASSUME NEW s \in SUBSET S, NEW x \in S \ s, s \in P PROVE s \union {x} \in P
  <2>1. IsFiniteSet(s) /\ x \notin s /\ \A z \in s \union {x} : f[z] \in Int /\ g[z] \in Int
    BY FS_Subset
  <2>2. /\ Product(f, s \union {x}) = f[x] * Product(f, s)
        /\ Product(g, s \union {x}) = g[x] * Product(g, s)
    BY <2>1, ProductAdd
  <2>3. g[x] = f[x] /\ Product(g, s) = Product(f, s)
    BY <1>2
  <2>4. QED BY <2>2, <2>3
<1> HIDE DEF P
<1>3. S \in P
  BY <1>1, <1>2, SubsetInduction
<1>4. QED BY <1>3 DEF P

\* The functions from a finite set to bits.
Bits(S) == [S -> {0, 1}]

LEMMA BitsAreFinite == ASSUME NEW S, IsFiniteSet(S) PROVE IsFiniteSet(Bits(S))
<1> DEFINE h == [b \in SUBSET S |-> [x \in S |-> IF x \in b THEN 1 ELSE 0]]
<1>1. IsFiniteSet(SUBSET S)
  BY FS_SUBSET
<1>2. ASSUME NEW r \in Bits(S) PROVE \E b \in SUBSET S : r = h[b]
  <2> DEFINE b == {x \in S : r[x] = 1}
  <2>1. r = [x \in S |-> IF x \in b THEN 1 ELSE 0]
    BY DEF Bits
  <2>2. b \in SUBSET S
    OBVIOUS
  <2> HIDE DEF b
  <2>3. h[b] = [x \in S |-> IF x \in b THEN 1 ELSE 0]
    BY <2>2
  <2>4. QED BY <2>1, <2>2, <2>3
<1> HIDE DEF h
<1>3. IsFiniteSet({h[b] : b \in SUBSET S})
  BY <1>1, ImageIsFinite
<1>4. Bits(S) \subseteq {h[b] : b \in SUBSET S}
  BY <1>2
<1>5. QED BY <1>3, <1>4, FS_Subset

\* The factors that the bits pick from m, and their product for every choice of bits.
Picked(m, r, S) == [x \in S |-> m[x][r[x]]]
Products(m, S) == [r \in Bits(S) |-> Product(Picked(m, r, S), S)]
Totals(m, S) == [x \in S |-> m[x][0] + m[x][1]]

LEMMA PickedFacts ==
    ASSUME NEW S, IsFiniteSet(S), NEW m, \A x \in S : m[x][0] \in Int /\ m[x][1] \in Int,
           NEW r \in Bits(S)
    PROVE  /\ \A x \in S : Picked(m, r, S)[x] = m[x][r[x]] /\ Picked(m, r, S)[x] \in Int
           /\ Products(m, S)[r] = Product(Picked(m, r, S), S) /\ Products(m, S)[r] \in Int
<1>1. \A x \in S : Picked(m, r, S)[x] = m[x][r[x]] /\ Picked(m, r, S)[x] \in Int
  BY DEF Bits, Picked
<1>2. Product(Picked(m, r, S), S) \in Int
  BY <1>1, ProductIsInt
<1>3. QED BY <1>1, <1>2 DEF Products

\* The product of sums is the sum of all products.
LEMMA ProductOfSums ==
    ASSUME NEW S, IsFiniteSet(S), NEW m, \A x \in S : m[x][0] \in Int /\ m[x][1] \in Int
    PROVE  Sum(Products(m, S), Bits(S)) = Product(Totals(m, S), S)
<1> DEFINE totals == Totals(m, S)
           P == {s \in SUBSET S : Sum(Products(m, s), Bits(s)) = Product(totals, s)}
<1>1. \A x \in S : totals[x] = m[x][0] + m[x][1] /\ totals[x] \in Int
  BY DEF Totals
<1> HIDE DEF totals
<1>2. {} \in P
  <2> DEFINE r == [x \in {} |-> 0]
  <2>1. Bits({}) = {r}
    BY DEF Bits
  <2>2. Products(m, {})[r] = 1
    BY <2>1, ProductEmpty DEF Products
  <2> HIDE DEF r
  <2>3. Sum(Products(m, {}), {r}) = 1
    <3>1. Products(m, {})[r] \in Int
      BY <2>2
    <3>2. QED BY <2>2, <3>1, SumOfOne
  <2>4. QED BY <2>1, <2>3, ProductEmpty
<1>3. ASSUME NEW s \in SUBSET S, NEW x \in S \ s, s \in P PROVE s \union {x} \in P
  <2> DEFINE more == s \union {x}
             small == Products(m, s)
             large == Products(m, more)
             with(bit) == [r \in Bits(s) |-> [y \in more |-> IF y = x THEN bit ELSE r[y]]]
             Showing(bit) == {r \in Bits(more) : r[x] = bit}
  <2>1. IsFiniteSet(s) /\ IsFiniteSet(more) /\ x \notin s /\ x \in more /\ s \subseteq more
    BY FS_Subset
  <2>2. \A y \in more : m[y][0] \in Int /\ m[y][1] \in Int
    OBVIOUS
  <2>3. IsFiniteSet(Bits(s)) /\ IsFiniteSet(Bits(more))
    BY <2>1, BitsAreFinite
  <2>4. \A r \in Bits(s) : small[r] \in Int
    BY <2>1, PickedFacts
  <2>5. \A r \in Bits(more) : large[r] \in Int
    BY <2>1, <2>2, PickedFacts
  <2>6. ASSUME NEW bit \in {0, 1}
        PROVE  Sum(large, Showing(bit)) = m[x][bit] * Sum(small, Bits(s))
    <3> DEFINE h == with(bit)
               g == [r \in Bits(s) |-> large[h[r]]]
    <3>1. ASSUME NEW r \in Bits(s)
          PROVE  h[r] \in Bits(more) /\ h[r][x] = bit /\ \A y \in s : h[r][y] = r[y]
      BY <2>1 DEF Bits
    <3>2. \A q, r \in Bits(s) : h[q] = h[r] => q = r
      <4> SUFFICES ASSUME NEW q \in Bits(s), NEW r \in Bits(s), h[q] = h[r] PROVE q = r
        OBVIOUS
      <4>1. \A y \in s : q[y] = r[y]
        BY <3>1
      <4>2. QED BY <4>1 DEF Bits
    <3>3. Showing(bit) = {h[r] : r \in Bits(s)}
      <4>1. ASSUME NEW q \in Showing(bit) PROVE \E r \in Bits(s) : q = h[r]
        <5> DEFINE r == [y \in s |-> q[y]]
        <5>1. q \in [more -> {0, 1}] /\ q[x] = bit
          BY DEF Bits
        <5>2. r \in Bits(s)
          BY <2>1, <5>1 DEF Bits
        <5>3. h[r] \in [more -> {0, 1}]
          BY <3>1, <5>2 DEF Bits
        <5>4. \A y \in more : h[r][y] = q[y]
          BY <3>1, <5>1, <5>2
        <5>5. q = h[r]
          <6> HIDE DEF r, h, more
          <6>1. QED BY <5>1, <5>3, <5>4
        <5>6. QED BY <5>2, <5>5
      <4>2. \A r \in Bits(s) : h[r] \in Showing(bit)
        BY <3>1
      <4>3. QED BY <4>1, <4>2
    <3>4. ASSUME NEW r \in Bits(s)
          PROVE  large[h[r]] = m[x][bit] * small[r] + 0 * small[r]
      <4> DEFINE q == h[r]
      <4>1. q \in Bits(more) /\ q[x] = bit /\ \A y \in s : q[y] = r[y]
        BY <3>1
      <4> HIDE DEF q
      <4>2. /\ \A y \in more : Picked(m, q, more)[y] = m[y][q[y]] /\ Picked(m, q, more)[y] \in Int
            /\ large[q] = Product(Picked(m, q, more), more)
        BY <2>1, <2>2, <4>1, PickedFacts
      <4>3. /\ \A y \in s : Picked(m, r, s)[y] = m[y][r[y]] /\ Picked(m, r, s)[y] \in Int
            /\ small[r] = Product(Picked(m, r, s), s)
        BY <2>1, PickedFacts
      <4>4. Product(Picked(m, q, more), s \union {x})
              = Picked(m, q, more)[x] * Product(Picked(m, q, more), s)
        BY <2>1, <4>2, ProductAdd
      <4>5. Product(Picked(m, q, more), s) = Product(Picked(m, r, s), s)
        <5>1. ASSUME NEW y \in s
              PROVE  /\ Picked(m, r, s)[y] \in Int
                     /\ Picked(m, q, more)[y] = Picked(m, r, s)[y]
          <6>1. q[y] = r[y] /\ y \in more
            BY <4>1
          <6>2. Picked(m, q, more)[y] = m[y][q[y]]
            BY <4>2, <6>1
          <6>3. Picked(m, r, s)[y] = m[y][r[y]] /\ Picked(m, r, s)[y] \in Int
            BY <4>3
          <6>4. QED BY <6>1, <6>2, <6>3
        <5>2. QED BY <2>1, <5>1, ProductEqual
      <4>6. Picked(m, q, more)[x] = m[x][bit]
        BY <2>1, <4>1, <4>2
      <4>7. large[q] = m[x][bit] * small[r]
        BY <4>2, <4>3, <4>4, <4>5, <4>6
      <4>8. m[x][bit] \in Int /\ small[r] \in Int
        BY <2>4
      <4> HIDE DEF small, large
      <4>9. \A a, b \in Int : a * b = a * b + 0 * b
        OBVIOUS
      <4>10. QED BY <4>7, <4>8, <4>9 DEF q
    <3>5. Sum(large, {h[r] : r \in Bits(s)}) = Sum(g, Bits(s))
      <4>1. \A r \in Bits(s) : g[r] \in Int /\ large[h[r]] = g[r]
        BY <2>5, <3>1
      <4> HIDE DEF h, g, large
      <4>2. Reindexes(Bits(s), g, large, h)
        BY <3>2, <4>1 DEF Reindexes
      <4>3. QED BY <2>3, <4>2, SumImage
    <3>6. Sum(g, Bits(s)) = m[x][bit] * Sum(small, Bits(s)) + 0 * Sum(small, Bits(s))
      <4>1. m[x][bit] \in Int /\ 0 \in Int
        OBVIOUS
      <4>2. \A r \in Bits(s) : small[r] \in Int /\ g[r] = m[x][bit] * small[r] + 0 * small[r]
        BY <2>4, <3>4
      <4> DEFINE a == m[x][bit]
      <4> HIDE DEF a, g, small, h
      <4>3. \A r \in Bits(s) : small[r] \in Int /\ small[r] \in Int
                                 /\ g[r] = a * small[r] + 0 * small[r]
        BY <4>2 DEF a
      <4>4. a \in Int /\ 0 \in Int
        BY <4>1 DEF a
      <4>5. Sum(g, Bits(s)) = a * Sum(small, Bits(s)) + 0 * Sum(small, Bits(s))
        BY <2>3, <4>3, <4>4, SumCombination
      <4>6. QED BY <4>5 DEF a
    <3>7. m[x][bit] \in Int /\ Sum(small, Bits(s)) \in Int
      <4> HIDE DEF small
      <4>1. Sum(small, Bits(s)) \in Int
        BY <2>3, <2>4, SumIsInt
      <4>2. QED BY <4>1
    <3> HIDE DEF g, h, small, large, Showing
    <3>8. \A a, b \in Int : a * b + 0 * b = a * b
      OBVIOUS
    <3>9. QED BY <3>3, <3>5, <3>6, <3>7, <3>8
  <2>7. Sum(large, Bits(more)) = Sum(large, Showing(1)) + Sum(large, Showing(0))
    <3>1. Showing(1) \in SUBSET Bits(more) /\ Bits(more) \ Showing(1) = Showing(0)
      BY <2>1 DEF Bits
    <3> HIDE DEF large, Showing
    <3>2. Sum(large, Bits(more)) = Sum(large, Showing(1)) + Sum(large, Bits(more) \ Showing(1))
      BY <2>3, <2>5, <3>1, SumOfParts
    <3>3. QED BY <3>1, <3>2
  <2>8. Product(totals, s \union {x}) = totals[x] * Product(totals, s) /\ Product(totals, s) \in Int
    <3>1. \A z \in s \union {x} : totals[z] \in Int
      BY <1>1
    <3>2. QED BY <2>1, <3>1, ProductAdd
  <2>9. Sum(small, Bits(s)) = Product(totals, s)
    BY <1>3
  <2> HIDE DEF small, large, Showing
  <2>10. \A a, b, c \in Int : b * c + a * c = (a + b) * c
    OBVIOUS
  <2>11. m[x][0] \in Int /\ m[x][1] \in Int /\ totals[x] = m[x][0] + m[x][1]
    BY <1>1
  <2>12. Sum(large, Bits(more)) = m[x][1] * Product(totals, s) + m[x][0] * Product(totals, s)
    BY <2>6, <2>7, <2>9
  <2>13. Sum(large, Bits(more)) = Product(totals, s \union {x})
    BY <2>8, <2>10, <2>11, <2>12
  <2>14. QED BY <2>13 DEF large
<1> HIDE DEF P
<1>4. S \in P
  BY <1>2, <1>3, SubsetInduction
<1>5. QED BY <1>4 DEF P, totals

-----------------------------------------------------------------------------
(* Folds over positions.  The library folds a sequence over the set of its   *)
(* positions, taking the greatest first, so that the fold's value at the set *)
(* 1 .. i is the value after the first i elements.                           *)

LEMMA PrefixFacts ==
    ASSUME NEW n \in Nat
    PROVE  /\ Chooses([s \in SUBSET (1 .. n) |-> Max(s)], 1 .. n)
           /\ \A i \in 1 .. n : Max(1 .. i) = i /\ (1 .. i) \ {i} = 1 .. i - 1 /\ 1 .. i # {}
                                 /\ 1 .. i \in SUBSET (1 .. n)
<1>1. ASSUME NEW s \in SUBSET (1 .. n), s # {} PROVE Max(s) \in s
  <2>1. \A x \in s : x \in Nat /\ x <= n
    OBVIOUS
  <2>2. s \in SUBSET Nat
    BY <2>1
  <2>3. \E x \in s : \A y \in s : y <= x
    BY <1>1, <2>1, <2>2, GreatestNumber
  <2>4. \E x \in s : \A y \in s : x >= y
    BY <2>1, <2>3
  <2>5. QED BY <2>4 DEF Max
<1>2. ASSUME NEW i \in 1 .. n
      PROVE  /\ Max(1 .. i) = i /\ (1 .. i) \ {i} = 1 .. i - 1 /\ 1 .. i # {}
             /\ 1 .. i \in SUBSET (1 .. n)
  <2>1. i \in 1 .. i /\ \A y \in 1 .. i : i >= y
    OBVIOUS
  <2>2. \A x \in 1 .. i : (\A y \in 1 .. i : x >= y) => x = i
    BY <2>1
  <2>3. Max(1 .. i) = i
    BY <2>1, <2>2 DEF Max
  <2>4. QED BY <2>1, <2>3
<1>3. QED BY <1>1, <1>2 DEF Chooses

\* Two accounts of the values after each element that take the same steps.
SameSteps(h, w, n) ==
    /\ h[1 .. 0] = w[0]
    /\ \A i \in 1 .. n : h[1 .. i - 1] = w[i - 1] => h[1 .. i] = w[i]

LEMMA PrefixesAgree ==
    ASSUME NEW n \in Nat, NEW h, NEW w, SameSteps(h, w, n)
    PROVE  \A i \in 0 .. n : h[1 .. i] = w[i]
<1> USE DEF SameSteps
<1> DEFINE Same == {i \in Nat : i <= n => h[1 .. i] = w[i]}
<1>1. 0 \in Same
  OBVIOUS
<1>2. ASSUME NEW i \in Nat, i \in Same PROVE i + 1 \in Same
  <2>1. CASE i + 1 <= n
    <3>1. i + 1 \in 1 .. n /\ (i + 1) - 1 = i /\ h[1 .. i] = w[i]
      BY <1>2, <2>1
    <3>2. h[1 .. i + 1] = w[i + 1]
      BY <3>1
    <3>3. QED BY <3>2
  <2>2. QED BY <2>1
<1>3. Nat \subseteq Same
  <2> HIDE DEF Same
  <2>1. QED BY <1>1, <1>2, SetInduction
<1>4. QED BY <1>3

Advances(w, n, base, step) == w[0] = base /\ \A i \in 1 .. n : w[i] = step[i][w[i - 1]]

\* The values after each element.
LEMMA PrefixValues ==
    ASSUME NEW n \in Nat, NEW V, NEW base \in V, NEW step \in [1 .. n -> [V -> V]]
    PROVE  \E w \in [0 .. n -> V] : Advances(w, n, base, step)
<1> DEFINE choice == [s \in SUBSET (1 .. n) |-> Max(s)]
<1>1. IsFiniteSet(1 .. n)
  BY FS_Interval
<1>2. Chooses(choice, 1 .. n)
  BY PrefixFacts
<1>3. PICK g \in [SUBSET (1 .. n) -> V] : FoldsTo(g, 1 .. n, choice, base, step)
  <2> HIDE DEF choice
  <2>1. QED BY <1>1, <1>2, FoldHasSolution
<1> DEFINE w == [i \in 0 .. n |-> g[1 .. i]]
<1>4. w \in [0 .. n -> V]
  <2>1. \A i \in 0 .. n : 1 .. i \in SUBSET (1 .. n)
    OBVIOUS
  <2>2. QED BY <2>1
<1>5. w[0] = base
  <2>1. 1 .. 0 = {} /\ {} \in SUBSET (1 .. n) /\ 0 \in 0 .. n
    OBVIOUS
  <2>2. QED BY <1>3, <2>1 DEF FoldsTo
<1>6. ASSUME NEW i \in 1 .. n PROVE w[i] = step[i][w[i - 1]]
  <2>1. choice[1 .. i] = i /\ (1 .. i) \ {i} = 1 .. i - 1 /\ 1 .. i # {}
          /\ 1 .. i \in SUBSET (1 .. n)
    BY PrefixFacts
  <2>2. g[1 .. i] = step[i][g[1 .. i - 1]]
    <3> HIDE DEF choice
    <3>1. QED BY <1>3, <2>1 DEF FoldsTo
  <2>3. i \in 0 .. n /\ i - 1 \in 0 .. n
    OBVIOUS
  <2>4. QED BY <2>2, <2>3
<1> HIDE DEF w
<1>7. QED BY <1>4, <1>5, <1>6 DEF Advances

-----------------------------------------------------------------------------
(* Inequalities between sums.                                                *)

LEMMA SumAtMost ==
    ASSUME NEW S, IsFiniteSet(S), NEW f, NEW g,
           \A x \in S : f[x] \in Int /\ g[x] \in Int /\ f[x] <= g[x]
    PROVE  Sum(f, S) <= Sum(g, S)
<1> DEFINE h == [x \in S |-> g[x] - f[x]]
<1>1. \A x \in S : h[x] \in Nat /\ h[x] = 1 * g[x] + (-1) * f[x]
  <2>1. \A i, j \in Int : i <= j => j - i \in Nat /\ j - i = 1 * j + (-1) * i
    OBVIOUS
  <2>2. \A x \in S : h[x] = g[x] - f[x]
    OBVIOUS
  <2> HIDE DEF h
  <2>3. QED BY <2>1, <2>2
<1> HIDE DEF h
<1>2. Sum(f, S) \in Int /\ Sum(g, S) \in Int
  BY SumIsInt
<1>3. Sum(h, S) \in Nat
  BY <1>1, SumOfNaturals
<1>4. Sum(h, S) = 1 * Sum(g, S) + (-1) * Sum(f, S)
  <2>1. 1 \in Int /\ -1 \in Int
    OBVIOUS
  <2>2. QED BY <1>1, <2>1, SumCombination
<1>5. QED BY <1>2, <1>3, <1>4

LEMMA SumWithin ==
    ASSUME NEW S, IsFiniteSet(S), NEW f, NEW g,
           \A x \in S : f[x] \in Int /\ g[x] \in Int /\ - g[x] <= f[x] /\ f[x] <= g[x]
    PROVE  /\ Sum(f, S) \in Int /\ Sum(g, S) \in Int
           /\ - Sum(g, S) <= Sum(f, S) /\ Sum(f, S) <= Sum(g, S)
<1> DEFINE h == [x \in S |-> - g[x]]
<1>1. \A x \in S : h[x] = (-1) * g[x] + 0 * g[x] /\ h[x] \in Int /\ h[x] <= f[x]
  <2>1. \A i \in Int : - i = (-1) * i + 0 * i /\ - i \in Int
    OBVIOUS
  <2>2. \A x \in S : h[x] = - g[x]
    OBVIOUS
  <2> HIDE DEF h
  <2>3. QED BY <2>1, <2>2
<1> HIDE DEF h
<1>2. Sum(f, S) \in Int /\ Sum(g, S) \in Int
  BY SumIsInt
<1>3. Sum(h, S) = (-1) * Sum(g, S) + 0 * Sum(g, S)
  <2>1. 0 \in Int /\ -1 \in Int /\ IsFiniteSet(S)
    OBVIOUS
  <2>2. \A x \in S : g[x] \in Int /\ g[x] \in Int /\ h[x] = (-1) * g[x] + 0 * g[x]
    BY <1>1
  <2>3. QED BY ONLY <2>1, <2>2, SumCombination
<1>4. Sum(h, S) <= Sum(f, S)
  BY <1>1, SumAtMost
<1>5. Sum(f, S) <= Sum(g, S)
  BY SumAtMost
<1>6. QED BY <1>2, <1>3, <1>4, <1>5

\* A sum over pairs is a sum of sums.
LEMMA SumOverPairs ==
    ASSUME NEW S, IsFiniteSet(S), NEW T, IsFiniteSet(T), NEW f, NEW t, NEW h,
           \A x \in S : \A y \in T : t[x][y] \in Int /\ f[<<x, y>>] = t[x][y],
           \A x \in S : h[x] = Sum(t[x], T)
    PROVE  Sum(f, S \X T) = Sum(h, S) /\ \A x \in S : h[x] \in Int
<1> DEFINE k == [p \in S \X T |-> p[1]]
<1>1. IsFiniteSet(S \X T)
  BY FS_Product
<1>2. ASSUME NEW x \in S
      PROVE  h[x] = Sum(f, {p \in S \X T : k[p] = x}) /\ h[x] \in Int
  <2> DEFINE line == t[x]
             place == [y \in T |-> <<x, y>>]
  <2>1. \A y \in T : line[y] \in Int /\ f[place[y]] = line[y]
    OBVIOUS
  <2>2. \A y, z \in T : place[y] = place[z] => y = z
    OBVIOUS
  <2>3. {place[y] : y \in T} = {p \in S \X T : k[p] = x}
    OBVIOUS
  <2>4. h[x] = Sum(line, T)
    OBVIOUS
  <2> HIDE DEF line, place
  <2>5. Sum(f, {place[y] : y \in T}) = Sum(line, T)
    <3>1. Reindexes(T, line, f, place)
      BY <2>1, <2>2 DEF Reindexes
    <3>2. QED BY <3>1, SumImage
  <2>6. Sum(line, T) \in Int
    BY <2>1, SumIsInt
  <2>7. QED BY <2>3, <2>4, <2>5, <2>6
<1>3. \A p \in S \X T : f[p] \in Int /\ k[p] \in S
  OBVIOUS
<1> HIDE DEF k
<1>4. Groups(S \X T, S, f, k, h)
  BY <1>2, <1>3 DEF Groups
<1>5. Sum(f, S \X T) = Sum(h, S)
  BY <1>1, <1>4, SumFibres
<1>6. QED BY <1>2, <1>5

LEMMA SquareOfSum ==
    ASSUME NEW S, IsFiniteSet(S), NEW f, NEW g,
           \A x \in S : f[x] \in Int, \A x, y \in S : g[<<x, y>>] = f[x] * f[y]
    PROVE  Sum(g, S \X S) = Sum(f, S) * Sum(f, S)
<1> DEFINE line == [x \in S |-> [y \in S |-> f[x] * f[y]]]
           h == [x \in S |-> Sum(line[x], S)]
           t == Sum(f, S)
<1>1. t \in Int
  BY SumIsInt
<1>2. \A x \in S : \A y \in S : line[x][y] \in Int /\ g[<<x, y>>] = line[x][y]
  <2>1. \A i, j \in Int : i * j \in Int
    OBVIOUS
  <2>2. QED BY <2>1
<1>3. ASSUME NEW x \in S PROVE h[x] = t * f[x] + 0 * f[x]
  <2>1. \A y \in S : line[x][y] = f[x] * f[y] + 0 * f[y]
    <3>1. \A i, j \in Int : i * j = i * j + 0 * j
      OBVIOUS
    <3>2. \A y \in S : line[x][y] = f[x] * f[y]
      OBVIOUS
    <3>3. QED BY <3>1, <3>2
  <2>2. h[x] = Sum(line[x], S)
    OBVIOUS
  <2> HIDE DEF line, h
  <2>3. Sum(line[x], S) = f[x] * Sum(f, S) + 0 * Sum(f, S)
    <3>1. f[x] \in Int /\ 0 \in Int
      OBVIOUS
    <3>2. QED BY <2>1, <3>1, SumCombination
  <2>4. \A i, j \in Int : i * j + 0 * j = j * i + 0 * i
    OBVIOUS
  <2>5. QED BY <1>1, <2>2, <2>3, <2>4
<1>4. Sum(g, S \X S) = Sum(h, S)
  <2>1. \A x \in S : h[x] = Sum(line[x], S)
    OBVIOUS
  <2> HIDE DEF h, line
  <2>2. QED BY <1>2, <2>1, SumOverPairs
<1> HIDE DEF h
<1>5. Sum(h, S) = t * t + 0 * t
  <2>1. t \in Int /\ 0 \in Int
    BY <1>1
  <2> HIDE DEF t
  <2>2. Sum(h, S) = t * Sum(f, S) + 0 * Sum(f, S)
    BY <1>3, <2>1, SumCombination
  <2>3. QED BY <2>2 DEF t
<1>6. \A i \in Int : i * i + 0 * i = i * i
  OBVIOUS
<1>7. QED BY <1>1, <1>4, <1>5, <1>6

\* A sum's square is at most the sum of the squares, as often as there are elements.
LEMMA SumOfSquares ==
    ASSUME NEW S, IsFiniteSet(S), NEW f, NEW g,
           \A x \in S : f[x] \in Int /\ g[x] = f[x] * f[x]
    PROVE  Sum(f, S) * Sum(f, S) <= Cardinality(S) * Sum(g, S)
<1> DEFINE Apart(s, x) == Sum(g, s) - 2 * (x * Sum(f, s)) + Cardinality(s) * (x * x)
           P == {s \in SUBSET S : /\ \A x \in Int : Apart(s, x) >= 0
                                  /\ Sum(f, s) * Sum(f, s) <= Cardinality(s) * Sum(g, s)}
<1>1. \A x \in S : g[x] \in Int
  <2>1. \A i \in Int : i * i \in Int
    OBVIOUS
  <2>2. QED BY <2>1
<1>2. {} \in P
  <2>1. Sum(g, {}) = 0 /\ Sum(f, {}) = 0 /\ Cardinality({}) = 0
    BY SumEmpty, FS_EmptySet
  <2>2. \A x \in Int : 0 - 2 * (x * 0) + 0 * (x * x) >= 0
    OBVIOUS
  <2>3. \A x \in Int : Apart({}, x) >= 0
    BY <2>1, <2>2
  <2>4. QED BY <2>1, <2>3
<1>3. ASSUME NEW s \in SUBSET S, NEW z \in S \ s, s \in P PROVE s \union {z} \in P
  <2> DEFINE all == s \union {z}
             a == f[z]
             F == Sum(f, s)
             G == Sum(g, s)
             n == Cardinality(s)
  <2>1. IsFiniteSet(s)
    BY FS_Subset
  <2>2. a \in Int /\ g[z] = a * a /\ F \in Int /\ G \in Int /\ n \in Nat
    BY <1>1, <2>1, SumIsInt, FS_CardinalityType
  <2>3. Sum(f, all) = a + F /\ Sum(g, all) = a * a + G /\ Cardinality(all) = n + 1
    BY <1>1, <2>1, <2>2, SumAdd, FS_AddElement
  <2>4. /\ F * F <= n * G
        /\ \A x \in Int : G - 2 * (x * F) + n * (x * x) >= 0
    <3>1. Sum(f, s) * Sum(f, s) <= Cardinality(s) * Sum(g, s)
      BY <1>3
    <3>2. \A x \in Int : Apart(s, x) >= 0
      BY <1>3
    <3>3. QED BY <3>1, <3>2
  <2> HIDE DEF F, G, n, a
  <2>5. \A x \in Int : Apart(all, x) >= 0
    <3> SUFFICES ASSUME NEW x \in Int PROVE Apart(all, x) >= 0
      OBVIOUS
    <3>1. Apart(all, x) = (a * a + G) - 2 * (x * (a + F)) + (n + 1) * (x * x)
      BY <2>3
    <3>2. \A i, j, k, l \in Int :
            (i * i + j) - 2 * (x * (i + k)) + (l + 1) * (x * x)
              = (j - 2 * (x * k) + l * (x * x)) + (i - x) * (i - x)
      OBVIOUS
    <3>3. Apart(all, x) = (G - 2 * (x * F) + n * (x * x)) + (a - x) * (a - x)
      BY <2>2, <3>1, <3>2
    <3>4. (a - x) * (a - x) >= 0 /\ (a - x) * (a - x) \in Int
      <4>1. \A i \in Int : i * i \in Int /\ i * i >= 0
        OBVIOUS
      <4>2. a - x \in Int
        BY <2>2
      <4>3. QED BY <4>1, <4>2
    <3> DEFINE u == G - 2 * (x * F) + n * (x * x)
               v == (a - x) * (a - x)
    <3>5. u \in Int /\ u >= 0
      BY <2>2, <2>4
    <3> HIDE DEF u
    <3>6. Apart(all, x) = u + v /\ v \in Int /\ v >= 0
      BY <3>3, <3>4 DEF u
    <3> HIDE DEF v, Apart
    <3>7. QED BY <3>5, <3>6
  <2>6. Sum(f, all) * Sum(f, all) <= Cardinality(all) * Sum(g, all)
    <3>1. G - 2 * (a * F) + n * (a * a) >= 0
      BY <2>2, <2>4
    <3>2. \A i, j, k, l \in Int :
            k * k <= l * j /\ j - 2 * (i * k) + l * (i * i) >= 0
              => (i + k) * (i + k) <= (l + 1) * (i * i + j)
      <4> SUFFICES ASSUME NEW i \in Int, NEW j \in Int, NEW k \in Int, NEW l \in Int,
                          k * k <= l * j, j - 2 * (i * k) + l * (i * i) >= 0
                   PROVE  (i + k) * (i + k) <= (l + 1) * (i * i + j)
        OBVIOUS
      <4>1. (l + 1) * (i * i + j) - (i + k) * (i + k)
              = (l * j - k * k) + (j - 2 * (i * k) + l * (i * i))
        OBVIOUS
      <4> DEFINE p == (l + 1) * (i * i + j)
                 q == (i + k) * (i + k)
                 r == l * j - k * k
                 t == j - 2 * (i * k) + l * (i * i)
      <4>2. p \in Int /\ q \in Int /\ r \in Int /\ t \in Int /\ t >= 0
        OBVIOUS
      <4>3. r >= 0
        <5>1. l * j \in Int /\ k * k \in Int
          OBVIOUS
        <5>2. QED BY <5>1
      <4> HIDE DEF p, q, r, t
      <4>4. p - q = r + t
        BY <4>1 DEF p, q, r, t
      <4>5. q <= p
        BY <4>2, <4>3, <4>4
      <4>6. QED BY <4>5 DEF p, q
    <3>3. (a + F) * (a + F) <= (n + 1) * (a * a + G)
      BY <2>2, <2>4, <3>1, <3>2
    <3>4. QED BY <2>3, <3>3
  <2>7. QED BY <2>5, <2>6
<1> HIDE DEF P
<1>4. S \in P
  BY <1>2, <1>3, SubsetInduction
<1>5. QED BY <1>4 DEF P

-----------------------------------------------------------------------------
(* A sequence of steps of which some are taken.                              *)

\* Taking the steps of a set, in their order.
TakesSome(w, n, base, step, S) ==
    /\ w[0] = base
    /\ \A i \in 1 .. n : /\ i \in S => w[i] = step[i][w[i - 1]]
                         /\ i \notin S => w[i] = w[i - 1]

\* What the steps of a set make of a base.
StepsReach(v, n, V, base, step, S) ==
    \E w \in [0 .. n -> V] : TakesSome(w, n, base, step, S) /\ v = w[n]

LEMMA ReachesNothing ==
    ASSUME NEW n \in Nat, NEW V, NEW base \in V, NEW step
    PROVE  StepsReach(base, n, V, base, step, {})
<1> DEFINE w == [i \in 0 .. n |-> base]
<1>1. w \in [0 .. n -> V] /\ n \in 0 .. n /\ 0 \in 0 .. n
  OBVIOUS
<1>2. TakesSome(w, n, base, step, {})
  BY DEF TakesSome
<1>3. base = w[n]
  BY <1>1
<1> HIDE DEF w
<1>4. QED BY <1>1, <1>2, <1>3 DEF StepsReach

\* They make one thing of it.
LEMMA ReachesOnce ==
    ASSUME NEW n \in Nat, NEW V, NEW base, NEW step, NEW S, NEW v, NEW u,
           StepsReach(v, n, V, base, step, S), StepsReach(u, n, V, base, step, S)
    PROVE  v = u
<1>1. PICK w \in [0 .. n -> V] : TakesSome(w, n, base, step, S) /\ v = w[n]
  BY DEF StepsReach
<1>2. PICK x \in [0 .. n -> V] : TakesSome(x, n, base, step, S) /\ u = x[n]
  BY DEF StepsReach
<1> DEFINE Same == {i \in Nat : i <= n => w[i] = x[i]}
<1>3. 0 \in Same
  BY <1>1, <1>2 DEF TakesSome
<1>4. ASSUME NEW i \in Nat, i \in Same PROVE i + 1 \in Same
  <2>1. CASE i + 1 <= n
    <3>1. i + 1 \in 1 .. n /\ (i + 1) - 1 = i /\ w[i] = x[i]
      BY <1>4, <2>1
    <3>2. w[i + 1] = x[i + 1]
      <4>1. CASE i + 1 \in S
        BY <1>1, <1>2, <3>1, <4>1 DEF TakesSome
      <4>2. CASE i + 1 \notin S
        BY <1>1, <1>2, <3>1, <4>2 DEF TakesSome
      <4>3. QED BY <4>1, <4>2
    <3>3. QED BY <3>2
  <2>2. QED BY <2>1
<1>5. Nat \subseteq Same
  <2> HIDE DEF Same
  <2>1. QED BY <1>3, <1>4, SetInduction
<1>6. QED BY <1>1, <1>2, <1>5

\* Steps that change nothing may be taken or not.
LEMMA ReachesSame ==
    ASSUME NEW n \in Nat, NEW V, NEW base, NEW step, NEW S, NEW T, NEW v,
           StepsReach(v, n, V, base, step, S),
           \A i \in 1 .. n : (i \in S <=> i \in T) \/ \A x \in V : step[i][x] = x
    PROVE  StepsReach(v, n, V, base, step, T)
<1>1. PICK w \in [0 .. n -> V] : TakesSome(w, n, base, step, S) /\ v = w[n]
  BY DEF StepsReach
<1>2. ASSUME NEW i \in 1 .. n
      PROVE  /\ i \in T => w[i] = step[i][w[i - 1]]
             /\ i \notin T => w[i] = w[i - 1]
  <2>1. i - 1 \in 0 .. n
    OBVIOUS
  <2>2. w[i - 1] \in V
    BY <2>1
  <2>3. CASE i \in S <=> i \in T
    BY <1>1, <2>3 DEF TakesSome
  <2>4. CASE \A x \in V : step[i][x] = x
    <3>1. step[i][w[i - 1]] = w[i - 1]
      BY <2>2, <2>4
    <3>2. w[i] = w[i - 1]
      BY <1>1, <3>1 DEF TakesSome
    <3>3. QED BY <3>1, <3>2
  <2>5. QED BY <2>3, <2>4
<1>3. TakesSome(w, n, base, step, T)
  BY <1>1, <1>2 DEF TakesSome
<1>4. QED BY <1>1, <1>3 DEF StepsReach

\* A step may be taken last if it commutes with the later ones.
LEMMA ReachesMore ==
    ASSUME NEW n \in Nat, NEW V, NEW base, NEW step \in [1 .. n -> [V -> V]], NEW S, NEW v,
           StepsReach(v, n, V, base, step, S), NEW k \in 1 .. n, k \notin S,
           \A i \in 1 .. n : i > k /\ i \in S => \A x \in V : step[k][step[i][x]] = step[i][step[k][x]]
    PROVE  StepsReach(step[k][v], n, V, base, step, S \union {k})
<1>1. PICK w \in [0 .. n -> V] : TakesSome(w, n, base, step, S) /\ v = w[n]
  BY DEF StepsReach
<1> DEFINE u == [i \in 0 .. n |-> IF i < k THEN w[i] ELSE step[k][w[i]]]
<1>2. \A i \in 0 .. n : w[i] \in V /\ step[k][w[i]] \in V
  OBVIOUS
<1>3. u \in [0 .. n -> V]
  BY <1>2
<1>4. ASSUME NEW i \in 1 .. n
      PROVE  /\ i \in S \union {k} => u[i] = step[i][u[i - 1]]
             /\ i \notin S \union {k} => u[i] = u[i - 1]
  <2>1. i - 1 \in 0 .. n /\ i \in 0 .. n /\ w[i - 1] \in V
    <3>1. i - 1 \in 0 .. n /\ i \in 0 .. n
      OBVIOUS
    <3>2. QED BY <1>2, <3>1
  <2>2. /\ i \in S => w[i] = step[i][w[i - 1]]
        /\ i \notin S => w[i] = w[i - 1]
    BY <1>1 DEF TakesSome
  <2>3. CASE i < k
    <3>1. u[i] = w[i] /\ u[i - 1] = w[i - 1] /\ i # k
      BY <2>1, <2>3
    <3>2. QED BY <2>2, <3>1
  <2>4. CASE i = k
    <3>1. u[i] = step[k][w[i]] /\ u[i - 1] = w[i - 1]
      BY <2>1, <2>4
    <3>2. QED BY <2>2, <2>4, <3>1
  <2>5. CASE i > k
    <3>1. u[i] = step[k][w[i]] /\ u[i - 1] = step[k][w[i - 1]] /\ i # k
      BY <2>1, <2>5
    <3>2. CASE i \in S
      <4>1. step[k][step[i][w[i - 1]]] = step[i][step[k][w[i - 1]]]
        BY <2>1, <2>5, <3>2
      <4>2. QED BY <2>2, <3>1, <3>2, <4>1
    <3>3. CASE i \notin S
      BY <2>2, <3>1, <3>3
    <3>4. QED BY <3>2, <3>3
  <2>6. QED BY <2>3, <2>4, <2>5
<1>5. u[0] = base /\ u[n] = step[k][v]
  BY <1>1 DEF TakesSome
<1> HIDE DEF u
<1>6. TakesSome(u, n, base, step, S \union {k})
  BY <1>4, <1>5 DEF TakesSome
<1>7. QED BY <1>3, <1>5, <1>6 DEF StepsReach

=============================================================================
