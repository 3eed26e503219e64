----------------------------- MODULE SumsProofs -----------------------------
(***************************************************************************)
(* What adding up the values of a function over a finite set gives.  The    *)
(* sum is a fold that takes its elements out in an order CHOOSE determines;  *)
(* the theorems say that this order does not matter.                        *)
(*                                                                         *)
(* The induction theorems of the library take an operator, which the        *)
(* provers here cannot instantiate; the same arguments go through with a     *)
(* set in its place (LeastNatural, SubsetInduction).                        *)
(***************************************************************************)
EXTENDS Sums, FiniteSetTheorems, WellFoundedInduction, TLAPS

-----------------------------------------------------------------------------
(* Induction *)

\* A set of naturals that is not empty has a least element.
LEMMA LeastNatural ==
  ASSUME NEW T \in SUBSET Nat, T # {}
  PROVE  \E m \in T : \A k \in T : m <= k
<1> DEFINE R == OpToRel(<, Nat)
<1>1. IsWellFoundedOn(R, Nat)
  BY NatLessThanWellFounded, Zenon
<1>2. PICK m \in T : \A k \in T : ~ (<<k, m>> \in R)
  <2> HIDE DEF R
  <2>. QED BY <1>1, WFMin
<1>3. \A k \in T : ~ (k < m)
  BY <1>2 DEF OpToRel
<1>. QED BY <1>3

LEMMA SubsetOfFinite ==
  ASSUME NEW S, IsFiniteSet(S), NEW s \in SUBSET S
  PROVE  /\ IsFiniteSet(s) /\ Cardinality(s) \in Nat
         /\ \A x \in s : /\ s \ {x} \in SUBSET S
                         /\ Cardinality(s \ {x}) = Cardinality(s) - 1
BY FS_Subset, FS_RemoveElement, FS_CardinalityType

\* What holds of a set whenever it holds of the set less any element holds of
\* every subset of a finite set.
LEMMA SubsetInduction ==
  ASSUME NEW S, IsFiniteSet(S), NEW Good,
         \A s \in SUBSET S : (\A x \in s : s \ {x} \in Good) => s \in Good
  PROVE  \A s \in SUBSET S : s \in Good
<1> DEFINE Sizes == {m \in Nat : \E s \in SUBSET S : Cardinality(s) = m /\ s \notin Good}
<1>1. ASSUME NEW s \in SUBSET S, s \notin Good PROVE Cardinality(s) \in Sizes
  BY <1>1, SubsetOfFinite
<1>2. SUFFICES ASSUME Sizes # {} PROVE FALSE
  BY <1>1
<1>3. PICK m \in Sizes : \A k \in Sizes : m <= k
  <2>1. Sizes \in SUBSET Nat
    OBVIOUS
  <2> HIDE DEF Sizes
  <2>. QED BY <1>2, <2>1, LeastNatural
<1>4. PICK s \in SUBSET S : m \in Nat /\ Cardinality(s) = m /\ s \notin Good
  OBVIOUS
<1>5. PICK x \in s : s \ {x} \notin Good
  BY <1>4
<1> HIDE DEF Sizes
<1>6. /\ s \ {x} \in SUBSET S
      /\ Cardinality(s \ {x}) = Cardinality(s) - 1
  BY SubsetOfFinite
<1>7. Cardinality(s) - 1 \in Sizes
  BY <1>1, <1>5, <1>6
<1>. QED BY <1>3, <1>4, <1>7

-----------------------------------------------------------------------------
(* The fold *)

Pick(s) == CHOOSE x \in s : TRUE

LEMMA PickIsMember ==
  ASSUME NEW s, s # {}
  PROVE  Pick(s) \in s
BY DEF Pick

\* One turn of the fold: the result for s, from the results g of smaller sets.
Turn(f, g, s) == IF s = {} THEN 0 ELSE f[Pick(s)] + g[s \ {Pick(s)}]

\* g is right about the subsets of S with at most n elements.
RightUpTo(f, S, g, n) ==
  \A s \in SUBSET S : Cardinality(s) <= n => g[s] = Turn(f, g, s)

LEMMA RightExists ==
  ASSUME NEW S, IsFiniteSet(S), NEW f, \A x \in S : f[x] \in Int, NEW n \in Nat
  PROVE  \E g \in [SUBSET S -> Int] : RightUpTo(f, S, g, n)
<1> DEFINE Bad == {m \in Nat : ~ \E g \in [SUBSET S -> Int] : RightUpTo(f, S, g, m)}
<1> SUFFICES ASSUME Bad # {} PROVE FALSE
  OBVIOUS
<1>1. PICK m \in Bad : \A k \in Bad : m <= k
  <2>1. Bad \in SUBSET Nat
    OBVIOUS
  <2> HIDE DEF Bad
  <2>. QED BY <2>1, LeastNatural
<1>2. CASE m = 0
  <2> DEFINE g == [s \in SUBSET S |-> 0]
  <2>1. g \in [SUBSET S -> Int]
    OBVIOUS
  <2>2. RightUpTo(f, S, g, 0)
    <3> SUFFICES ASSUME NEW s \in SUBSET S, Cardinality(s) <= 0
                 PROVE  g[s] = Turn(f, g, s)
      BY DEF RightUpTo
    <3>1. s = {}
      BY FS_Subset, FS_CardinalityType, FS_EmptySet
    <3>. QED BY <3>1 DEF Turn
  <2>. QED BY <1>2, <2>1, <2>2
<1>3. CASE m # 0
  <2>1. m - 1 \in Nat /\ m - 1 \notin Bad
    <3> m \in Nat
      OBVIOUS
    <3> HIDE DEF Bad
    <3>. QED BY <1>1, <1>3
  <2>2. PICK g \in [SUBSET S -> Int] : RightUpTo(f, S, g, m - 1)
    BY <2>1
  <2> DEFINE h == [s \in SUBSET S |->
                     IF Cardinality(s) <= m - 1 THEN g[s] ELSE Turn(f, g, s)]
  <2>3. h \in [SUBSET S -> Int]
    <3> SUFFICES ASSUME NEW s \in SUBSET S PROVE Turn(f, g, s) \in Int
      OBVIOUS
    <3>. QED BY PickIsMember DEF Turn
  <2>4. RightUpTo(f, S, h, m)
    <3> SUFFICES ASSUME NEW s \in SUBSET S, Cardinality(s) <= m
                 PROVE  h[s] = Turn(f, h, s)
      BY DEF RightUpTo
    <3>1. h[s] = Turn(f, g, s)
      BY <2>2 DEF RightUpTo
    <3>2. CASE s = {}
      BY <3>1, <3>2 DEF Turn
    <3>3. CASE s # {}
      <4>1. /\ s \ {Pick(s)} \in SUBSET S
            /\ Cardinality(s \ {Pick(s)}) = Cardinality(s) - 1
            /\ Cardinality(s) \in Nat
        BY <3>3, PickIsMember, SubsetOfFinite
      <4>2. h[s \ {Pick(s)}] = g[s \ {Pick(s)}]
        BY <4>1
      <4>. QED BY <3>1, <4>2 DEF Turn
    <3>. QED BY <3>2, <3>3
  <2>. QED BY <1>1, <2>3, <2>4
<1>. QED BY <1>2, <1>3

Fold(f, S) == CHOOSE g : g = [s \in SUBSET S |-> Turn(f, g, s)]

LEMMA SumIsFold ==
  ASSUME NEW f, NEW S
  PROVE  SumOf(f, S) = Fold(f, S)[S]
BY DEF SumOf, MapThenSumSet, MapThenFoldSet, Fold, Turn, Pick

\* The recursive definition has a solution.
LEMMA FoldTurns ==
  ASSUME NEW S, IsFiniteSet(S), NEW f, \A x \in S : f[x] \in Int
  PROVE  /\ Fold(f, S) \in [SUBSET S -> Int]
         /\ \A s \in SUBSET S : Fold(f, S)[s] = Turn(f, Fold(f, S), s)
<1>1. PICK g \in [SUBSET S -> Int] : RightUpTo(f, S, g, Cardinality(S))
  BY RightExists, FS_CardinalityType
<1>2. \A s \in SUBSET S : g[s] = Turn(f, g, s)
  BY <1>1, FS_Subset DEF RightUpTo
<1>3. g = [s \in SUBSET S |-> Turn(f, g, s)]
  BY <1>2
<1> DEFINE h == Fold(f, S)
<1>4. h = [s \in SUBSET S |-> Turn(f, h, s)]
  BY <1>3 DEF Fold
<1> HIDE DEF h
<1> DEFINE Good == {s \in SUBSET S : h[s] = g[s]}
<1>5. ASSUME NEW s \in SUBSET S, \A x \in s : s \ {x} \in Good
      PROVE  s \in Good
  BY <1>2, <1>4, <1>5, PickIsMember DEF Turn
<1>6. \A s \in SUBSET S : s \in Good
  <2> HIDE DEF Good
  <2>. QED BY <1>5, SubsetInduction
<1>. QED BY <1>4, <1>6 DEF h

\* Two folds agree where the functions do, whatever sets they are over.
LEMMA FoldsAgree ==
  ASSUME NEW S, IsFiniteSet(S), NEW T, IsFiniteSet(T), NEW f, NEW g,
         \A x \in S : f[x] \in Int, \A x \in T : g[x] \in Int,
         NEW U \in SUBSET S, U \in SUBSET T, \A x \in U : f[x] = g[x]
  PROVE  Fold(f, S)[U] = Fold(g, T)[U]
<1> DEFINE Good == {s \in SUBSET U : Fold(f, S)[s] = Fold(g, T)[s]}
<1>1. ASSUME NEW s \in SUBSET U, \A x \in s : s \ {x} \in Good
      PROVE  s \in Good
  <2>1. s \in SUBSET S /\ s \in SUBSET T
    OBVIOUS
  <2>2. /\ Fold(f, S)[s] = Turn(f, Fold(f, S), s)
        /\ Fold(g, T)[s] = Turn(g, Fold(g, T), s)
    <3> HIDE DEF Good
    <3>. QED BY <2>1, FoldTurns
  <2>3. CASE s = {}
    BY <2>2, <2>3 DEF Turn
  <2>4. CASE s # {}
    <3>1. Pick(s) \in s
      BY <2>4, PickIsMember
    <3>. QED BY <1>1, <2>2, <3>1 DEF Turn
  <2>. QED BY <2>3, <2>4
<1>2. \A s \in SUBSET U : s \in Good
  <2>1. IsFiniteSet(U)
    BY FS_Subset
  <2> HIDE DEF Good
  <2>. QED BY <1>1, <2>1, SubsetInduction
<1>. QED BY <1>2

-----------------------------------------------------------------------------
(* What the other proofs cite *)

LEMMA SumOfNothing ==
  ASSUME NEW f
  PROVE  SumOf(f, {}) = 0
<1>1. \A x \in {} : f[x] \in Int
  OBVIOUS
<1>2. Fold(f, {})[{}] = Turn(f, Fold(f, {}), {})
  BY <1>1, FoldTurns, FS_EmptySet
<1>. QED BY <1>2, SumIsFold DEF Turn

LEMMA SumIsInt ==
  ASSUME NEW S, IsFiniteSet(S), NEW f, \A x \in S : f[x] \in Int
  PROVE  SumOf(f, S) \in Int
BY FoldTurns, SumIsFold

LEMMA SumsAgree ==
  ASSUME NEW S, IsFiniteSet(S), NEW f, NEW g,
         \A x \in S : f[x] \in Int, \A x \in S : f[x] = g[x]
  PROVE  SumOf(f, S) = SumOf(g, S)
<1>1. \A x \in S : g[x] \in Int
  OBVIOUS
<1>2. Fold(f, S)[S] = Fold(g, S)[S]
  BY <1>1, FoldsAgree
<1>. QED BY <1>2, SumIsFold

LEMMA SumTurn ==
  ASSUME NEW S, IsFiniteSet(S), NEW f, \A x \in S : f[x] \in Int, S # {}
  PROVE  SumOf(f, S) = f[Pick(S)] + SumOf(f, S \ {Pick(S)})
<1> DEFINE T == S \ {Pick(S)}
<1>1. Fold(f, S)[S] = f[Pick(S)] + Fold(f, S)[T]
  BY FoldTurns DEF Turn
<1>2. IsFiniteSet(T) /\ \A x \in T : f[x] \in Int
  BY FS_Subset
<1>3. Fold(f, S)[T] = Fold(f, T)[T]
  BY <1>2, FoldsAgree
<1>. QED BY <1>1, <1>3, SumIsFold

\* The order does not matter: any element may be taken out first.
THEOREM SumTakeOut ==
  ASSUME NEW S, IsFiniteSet(S), NEW f, \A x \in S : f[x] \in Int, NEW x \in S
  PROVE  SumOf(f, S) = f[x] + SumOf(f, S \ {x})
<1> DEFINE Good == {s \in SUBSET S : \A y \in s : SumOf(f, s) = f[y] + SumOf(f, s \ {y})}
<1>1. ASSUME NEW s \in SUBSET S, \A y \in s : s \ {y} \in Good
      PROVE  s \in Good
  <2> SUFFICES ASSUME NEW y \in s
               PROVE  SumOf(f, s) = f[y] + SumOf(f, s \ {y})
    OBVIOUS
  <2> DEFINE p == Pick(s)
  <2>1. p \in s
    BY PickIsMember
  <2>2. IsFiniteSet(s) /\ \A z \in s : f[z] \in Int
    BY FS_Subset
  <2>3. SumOf(f, s) = f[p] + SumOf(f, s \ {p})
    BY <2>2, SumTurn
  <2> HIDE DEF p
  <2>4. CASE p = y
    BY <2>3, <2>4
  <2>5. CASE p # y
    <3>1. /\ SumOf(f, s \ {p}) = f[y] + SumOf(f, (s \ {p}) \ {y})
          /\ SumOf(f, s \ {y}) = f[p] + SumOf(f, (s \ {y}) \ {p})
      BY <1>1, <2>1, <2>5
    <3> DEFINE t == (s \ {p}) \ {y}
    <3>2. t = (s \ {y}) \ {p}
      OBVIOUS
    <3>3. SumOf(f, t) \in Int /\ f[p] \in Int /\ f[y] \in Int
      BY <2>1, <2>2, SumIsInt, FS_Subset
    <3> HIDE DEF t
    <3>4. SumOf(f, s \ {p}) = f[y] + SumOf(f, t) /\ SumOf(f, s \ {y}) = f[p] + SumOf(f, t)
      BY <3>1, <3>2, Zenon DEF t
    <3>. QED BY <2>3, <3>3, <3>4
  <2>. QED BY <2>4, <2>5
<1>2. \A s \in SUBSET S : s \in Good
  <2> HIDE DEF Good
  <2>. QED BY <1>1, SubsetInduction
<1>. QED BY <1>2

\* One more element.
THEOREM SumAdd ==
  ASSUME NEW S, IsFiniteSet(S), NEW f, \A x \in S : f[x] \in Int,
         NEW x, x \notin S, f[x] \in Int
  PROVE  SumOf(f, S \cup {x}) = SumOf(f, S) + f[x]
<1>1. IsFiniteSet(S \cup {x}) /\ (S \cup {x}) \ {x} = S
  BY FS_AddElement
<1>2. SumOf(f, S \cup {x}) = f[x] + SumOf(f, (S \cup {x}) \ {x})
  BY <1>1, SumTakeOut
<1>3. SumOf(f, (S \cup {x}) \ {x}) = SumOf(f, S)
  BY <1>1, Zenon
<1>4. SumOf(f, S) \in Int
  BY SumIsInt
<1>. QED BY <1>2, <1>3, <1>4

\* One value is written.
THEOREM SumWrite ==
  ASSUME NEW S, IsFiniteSet(S), NEW f, NEW g, NEW x \in S,
         \A y \in S : f[y] \in Int, g[x] \in Int,
         \A y \in S : y # x => g[y] = f[y]
  PROVE  SumOf(g, S) = SumOf(f, S) - f[x] + g[x]
<1> DEFINE T == S \ {x}
<1>1. IsFiniteSet(T) /\ \A y \in S : g[y] \in Int
  BY FS_Subset
<1>2. SumOf(f, S) = f[x] + SumOf(f, T)
  BY SumTakeOut
<1>3. SumOf(g, S) = g[x] + SumOf(g, T)
  BY <1>1, SumTakeOut
<1>4. SumOf(f, T) = SumOf(g, T) /\ SumOf(f, T) \in Int
  BY <1>1, SumsAgree, SumIsInt
<1>. QED BY <1>2, <1>3, <1>4

\* A row is added to a table, or taken out of it, and the others stay.
THEOREM SumInsert ==
  ASSUME NEW S, IsFiniteSet(S), NEW f, NEW g, NEW x, x \notin S,
         \A y \in S : f[y] \in Int /\ g[y] = f[y], g[x] \in Int, NEW T, T = S \cup {x}
  PROVE  SumOf(g, T) = SumOf(f, S) + g[x]
<1>1. \A y \in S : g[y] \in Int
  OBVIOUS
<1>2. SumOf(g, S \cup {x}) = SumOf(g, S) + g[x]
  BY <1>1, SumAdd
<1>3. SumOf(g, S) = SumOf(f, S)
  BY SumsAgree
<1>. QED BY <1>2, <1>3

THEOREM SumDelete ==
  ASSUME NEW S, IsFiniteSet(S), NEW f, NEW g, NEW x \in S,
         \A y \in S : f[y] \in Int, \A y \in S : y # x => g[y] = f[y]
  PROVE  SumOf(g, S \ {x}) = SumOf(f, S) - f[x]
<1> DEFINE T == S \ {x}
<1>1. IsFiniteSet(T)
  BY FS_RemoveElement
<1>2. SumOf(f, S) = f[x] + SumOf(f, T) /\ f[x] \in Int
  BY SumTakeOut
<1>3. SumOf(f, T) = SumOf(g, T) /\ SumOf(f, T) \in Int
  BY <1>1, SumsAgree, SumIsInt
<1>. QED BY <1>2, <1>3

\* One element gains n, another loses at most n (it may be clamped at zero): the sum
\* does not get smaller.  It may get larger.
THEOREM SumTransfer ==
  ASSUME NEW S, IsFiniteSet(S), NEW f \in [S -> Int], NEW g \in [S -> Int],
         NEW x \in S, NEW y \in S, x # y, NEW n \in Int,
         g[x] = f[x] + n, g[y] >= f[y] - n,
         \A z \in S : z \notin {x, y} => g[z] = f[z]
  PROVE  SumOf(g, S) >= SumOf(f, S)
<1> DEFINE h == [f EXCEPT ![x] = @ + n]
<1>1. /\ h \in [S -> Int] /\ h[x] = f[x] + n
      /\ \A z \in S : z # x => h[z] = f[z]
  OBVIOUS
<1>2. h[y] = f[y] /\ \A z \in S : z # y => g[z] = h[z]
  BY <1>1
<1>3. \A z \in S : f[z] \in Int /\ g[z] \in Int /\ h[z] \in Int
  BY <1>1
<1> HIDE DEF h
<1>4. SumOf(h, S) = SumOf(f, S) - f[x] + h[x]
  BY <1>1, <1>3, SumWrite
<1>5. SumOf(g, S) = SumOf(h, S) - h[y] + g[y]
  BY <1>2, <1>3, SumWrite
<1>6. SumOf(f, S) \in Int /\ SumOf(h, S) \in Int
  BY <1>3, SumIsInt
<1>. QED BY <1>1, <1>2, <1>3, <1>4, <1>5, <1>6

\* Over one set, the function that is nowhere larger has the sum that is not larger.
THEOREM SumMonotone ==
  ASSUME NEW S, IsFiniteSet(S), NEW f, NEW g,
         \A x \in S : f[x] \in Int /\ g[x] \in Int /\ f[x] <= g[x]
  PROVE  SumOf(f, S) <= SumOf(g, S)
<1> DEFINE Good == {s \in SUBSET S : SumOf(f, s) <= SumOf(g, s)}
<1>1. ASSUME NEW s \in SUBSET S, \A y \in s : s \ {y} \in Good
      PROVE  s \in Good
  <2>1. CASE s = {}
    <3>1. SumOf(f, {}) = 0 /\ SumOf(g, {}) = 0
      BY SumOfNothing
    <3>. QED BY <2>1, <3>1
  <2>2. CASE s # {}
    <3>1. PICK y \in s : TRUE
      BY <2>2
    <3> HIDE DEF Good
    <3>2. IsFiniteSet(s) /\ \A z \in s : f[z] \in Int /\ g[z] \in Int
      BY FS_Subset
    <3>3. /\ SumOf(f, s) = f[y] + SumOf(f, s \ {y})
          /\ SumOf(g, s) = g[y] + SumOf(g, s \ {y})
      BY <3>2, SumTakeOut
    <3>4. IsFiniteSet(s \ {y})
      BY <3>2, FS_RemoveElement
    <3>5. SumOf(f, s \ {y}) \in Int /\ SumOf(g, s \ {y}) \in Int
      BY <3>2, <3>4, SumIsInt
    <3>6. SumOf(f, s \ {y}) <= SumOf(g, s \ {y})
      BY <1>1 DEF Good
    <3>. QED BY <3>3, <3>5, <3>6 DEF Good
  <2>. QED BY <2>1, <2>2
<1>2. \A s \in SUBSET S : s \in Good
  <2> HIDE DEF Good
  <2>. QED BY <1>1, SubsetInduction
<1>. QED BY <1>2

LEMMA SumOfZeroes ==
  ASSUME NEW S, IsFiniteSet(S), NEW f, \A x \in S : f[x] = 0
  PROVE  SumOf(f, S) = 0
<1> DEFINE Good == {s \in SUBSET S : SumOf(f, s) = 0}
<1>1. ASSUME NEW s \in SUBSET S, \A y \in s : s \ {y} \in Good
      PROVE  s \in Good
  <2>1. CASE s = {}
    BY <2>1, SumOfNothing
  <2>2. CASE s # {}
    <3>1. PICK y \in s : TRUE
      BY <2>2
    <3>2. IsFiniteSet(s) /\ \A z \in s : f[z] \in Int
      <4> HIDE DEF Good
      <4>. QED BY FS_Subset
    <3>3. SumOf(f, s) = f[y] + SumOf(f, s \ {y})
      BY <3>2, SumTakeOut
    <3>. QED BY <1>1, <3>3
  <2>. QED BY <2>1, <2>2
<1>2. \A s \in SUBSET S : s \in Good
  <2> HIDE DEF Good
  <2>. QED BY <1>1, SubsetInduction
<1>. QED BY <1>2

THEOREM SumIsNat ==
  ASSUME NEW S, IsFiniteSet(S), NEW f, \A x \in S : f[x] \in Nat
  PROVE  SumOf(f, S) \in Nat
<1> DEFINE zero == [x \in S |-> 0]
<1>1. SumOf(zero, S) = 0
  BY SumOfZeroes
<1>2. SumOf(zero, S) <= SumOf(f, S)
  <2>1. \A x \in S : zero[x] \in Int /\ f[x] \in Int /\ zero[x] <= f[x]
    OBVIOUS
  <2> HIDE DEF zero
  <2>. QED BY <2>1, SumMonotone
<1>3. SumOf(f, S) \in Int
  BY SumIsInt
<1>. QED BY <1>1, <1>2, <1>3

\* Zeroes do not count: only the part where a function is not zero matters.
THEOREM SumOfPart ==
  ASSUME NEW S, IsFiniteSet(S), NEW T \in SUBSET S, NEW f, NEW g,
         \A x \in T : f[x] \in Int /\ g[x] = f[x], \A x \in S : x \notin T => f[x] = 0
  PROVE  SumOf(f, S) = SumOf(g, T)
<1> DEFINE R == S \ T
           Good == {s \in SUBSET R : SumOf(f, T \cup s) = SumOf(f, T)}
<1>1. IsFiniteSet(R) /\ IsFiniteSet(T)
  BY FS_Subset
<1>2. ASSUME NEW s \in SUBSET R, \A x \in s : s \ {x} \in Good
      PROVE  s \in Good
  <2>1. CASE s = {}
    BY <2>1
  <2>2. CASE s # {}
    <3>1. PICK y \in s : TRUE
      BY <2>2
    <3> DEFINE U == T \cup (s \ {y})
    <3>2. /\ T \cup s = U \cup {y} /\ y \notin U /\ y \in S /\ f[y] = 0
          /\ U \in SUBSET S
      BY <3>1
    <3>3. IsFiniteSet(U) /\ \A x \in U : f[x] \in Int
      BY <3>2, FS_Subset
    <3>4. SumOf(f, U) = SumOf(f, T)
      BY <1>2
    <3> HIDE DEF U
    <3>5. SumOf(f, U \cup {y}) = SumOf(f, U) + f[y] /\ SumOf(f, U) \in Int
      BY <3>2, <3>3, SumAdd, SumIsInt
    <3>6. SumOf(f, U) + f[y] = SumOf(f, U)
      BY <3>2, <3>5
    <3>7. T \cup s = U \cup {y}
      BY <3>2
    <3>8. SumOf(f, T \cup s) = SumOf(f, T)
      BY <3>4, <3>5, <3>6, <3>7, Zenon
    <3>. QED BY <3>8
  <2>. QED BY <2>1, <2>2
<1>3. \A s \in SUBSET R : s \in Good
  <2> HIDE DEF Good, R
  <2>. QED BY <1>1, <1>2, SubsetInduction
<1>4. R \in Good /\ T \cup R = S
  BY <1>3
<1>5. SumOf(g, T) = SumOf(f, T)
  <2>1. \A x \in T : g[x] \in Int
    OBVIOUS
  <2>. QED BY <1>1, <2>1, SumsAgree
<1>. QED BY <1>4, <1>5

\* A sum of natural numbers is at least any of them.
THEOREM SumHasPart ==
  ASSUME NEW S, IsFiniteSet(S), NEW f, \A x \in S : f[x] \in Nat, NEW x \in S
  PROVE  f[x] <= SumOf(f, S)
<1>1. SumOf(f, S) = f[x] + SumOf(f, S \ {x})
  BY SumTakeOut
<1>2. SumOf(f, S \ {x}) \in Nat
  <2>1. IsFiniteSet(S \ {x}) /\ \A y \in S \ {x} : f[y] \in Nat
    BY FS_Subset
  <2>. QED BY <2>1, SumIsNat
<1>. QED BY <1>1, <1>2

\* What one row gains and another loses leaves the sum as it was.
THEOREM SumExchange ==
  ASSUME NEW S, IsFiniteSet(S), NEW f \in [S -> Int], NEW g \in [S -> Int],
         NEW x \in S, NEW y \in S, x # y, NEW n \in Int,
         g[x] = f[x] + n, g[y] = f[y] - n,
         \A z \in S : z \notin {x, y} => g[z] = f[z]
  PROVE  SumOf(g, S) = SumOf(f, S)
<1> DEFINE h == [f EXCEPT ![x] = f[x] + n]
<1>1. /\ \A z \in S : f[z] \in Int /\ h[z] \in Int /\ g[z] \in Int
      /\ \A z \in S : z # x => h[z] = f[z]
      /\ \A z \in S : z # y => g[z] = h[z]
      /\ h[x] = f[x] + n /\ h[y] = f[y]
  OBVIOUS
<1> HIDE DEF h
<1>2. SumOf(h, S) = SumOf(f, S) - f[x] + h[x]
  BY <1>1, SumWrite
<1>3. SumOf(g, S) = SumOf(h, S) - h[y] + g[y]
  BY <1>1, SumWrite
<1>4. SumOf(f, S) \in Int /\ SumOf(h, S) \in Int
  BY <1>1, SumIsInt
<1>. QED BY <1>1, <1>2, <1>3, <1>4
=============================================================================
