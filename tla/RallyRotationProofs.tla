------------------------- MODULE RallyRotationProofs -------------------------
(***************************************************************************)
(* Proofs about RallyRotation, for every universe, market, account and     *)
(* configuration.  Two things are folded over a set: the weights of a book *)
(* into their sum, and the challengers of a selection into the one that    *)
(* comes of it.  What such a fold yields is shown by the least set on      *)
(* which it would yield something else.                                    *)
(***************************************************************************)
EXTENDS RallyRotation, FiniteSetTheorems, TLAPS

-----------------------------------------------------------------------------
(* Folds *)

\* The recursive function inside a fold over S: first is what it takes last of each subset, and
\* op what it makes of that and of the rest.
Folds(first, op, base, S, G) ==
  G = [T \in SUBSET S |-> IF T = {} THEN base ELSE op[<<first[T], G[T \ {first[T]}]>>]]

\* A set of subsets of a finite set has a least one.
LEMMA LeastSubset ==
    ASSUME NEW S, IsFiniteSet(S), NEW Bad \in SUBSET SUBSET S, Bad # {}
    PROVE  \E T \in Bad : \A U \in Bad : U \subseteq T => U = T
<1>1. FiniteSubsetsOf(S) = SUBSET S
  BY FS_FiniteSubsetsOfFinite
<1>2. PICK T \in Bad : \A U \in Bad : ~(<<U, T>> \in StrictSubsetOrdering(S))
  BY <1>1, FS_StrictSubsetOrderingWellFounded, WFMin
<1>3. ASSUME NEW U \in Bad, U \subseteq T, U # T
      PROVE  FALSE
  <2>1. <<U, T>> \in StrictSubsetOrdering(S)
    BY <1>3 DEF StrictSubsetOrdering
  <2> QED
    BY <1>2, <2>1
<1> QED
  BY <1>3

\* Folds over two sets agree on what the sets share.
LEMMA FoldsAgree ==
    ASSUME NEW S, IsFiniteSet(S), NEW A \in SUBSET S, NEW B \in SUBSET S,
           NEW first, \A T \in SUBSET S : T # {} => first[T] \in T,
           NEW op, NEW base, NEW G, NEW H, Folds(first, op, base, A, G), Folds(first, op, base, B, H)
    PROVE  \A T \in SUBSET (A \cap B) : G[T] = H[T]
<1> DEFINE Bad == {T \in SUBSET (A \cap B) : G[T] # H[T]}
<1>1. SUFFICES ASSUME Bad # {}
               PROVE  FALSE
  OBVIOUS
<1>2. PICK T \in Bad : \A U \in Bad : U \subseteq T => U = T
  <2>1. Bad \in SUBSET SUBSET S
    OBVIOUS
  <2> HIDE DEF Bad
  <2> QED
    BY <1>1, <2>1, LeastSubset
<1>3. CASE T = {}
  BY <1>2, <1>3 DEF Folds
<1>4. CASE T # {}
  <2>1. first[T] \in T
    BY <1>2, <1>4
  <2>2. G[T] = op[<<first[T], G[T \ {first[T]}]>>] /\ H[T] = op[<<first[T], H[T \ {first[T]}]>>]
    BY <1>2, <1>4 DEF Folds
  <2>3. G[T \ {first[T]}] = H[T \ {first[T]}]
    BY <1>2, <2>1
  <2> QED
    BY <1>2, <2>2, <2>3
<1> QED
  BY <1>3, <1>4

\* There is such a function: it is put together from those of the smaller sets.
LEMMA FoldExists ==
    ASSUME NEW S, IsFiniteSet(S), NEW V, NEW base \in V,
           NEW first, \A T \in SUBSET S : T # {} => first[T] \in T, NEW op \in [S \X V -> V]
    PROVE  \E G \in [SUBSET S -> V] : Folds(first, op, base, S, G)
<1> DEFINE Has(T, G) == G \in [SUBSET T -> V] /\ Folds(first, op, base, T, G)
           Bad == {T \in SUBSET S : ~\E G : Has(T, G)}
<1>1. SUFFICES ASSUME Bad # {}
               PROVE  FALSE
  OBVIOUS
<1>2. PICK T \in Bad : \A U \in Bad : U \subseteq T => U = T
  <2>1. Bad \in SUBSET SUBSET S
    OBVIOUS
  <2> HIDE DEF Bad
  <2> QED
    BY <1>1, <2>1, LeastSubset
<1>3. T # {}
  <2>1. ASSUME T = {}
        PROVE  Has(T, [U \in SUBSET T |-> base])
    BY <2>1 DEF Folds
  <2> QED
    BY <1>2, <2>1
<1> DEFINE Of(U) == CHOOSE G : Has(U, G)
           Rest == T \ {first[T]}
           Fold(U) == IF U = T THEN op[<<first[T], Of(Rest)[Rest]>>] ELSE Of(U)[U]
           G == [U \in SUBSET T |-> Fold(U)]
<1>4. T \in SUBSET S /\ \A U \in SUBSET T : U # {} => first[U] \in U
  BY <1>2
<1>5. \A U \in SUBSET T : U # T => Has(U, Of(U))
  <2>1. TAKE U \in SUBSET T
  <2>2. HAVE U # T
  <2>3. \E H : Has(U, H)
    BY <1>2, <2>2
  <2> HIDE DEF Has
  <2> QED
    BY <2>3
<1>6. Rest \in SUBSET T /\ Rest # T /\ first[T] \in S
  BY <1>3, <1>4
<1> HIDE DEF Of
<1>7. \A U \in SUBSET T : Fold(U) \in V
  <2>1. \A U \in SUBSET T : U # T => Of(U)[U] \in V
    <3>1. TAKE U \in SUBSET T
    <3>2. HAVE U # T
    <3>3. Of(U) \in [SUBSET U -> V]
      BY <1>5, <3>2
    <3> QED
      BY <3>3
  <2>2. op[<<first[T], Of(Rest)[Rest]>>] \in V
    <3>1. Of(Rest)[Rest] \in V
      <4> HIDE DEF Rest
      <4> QED
        BY <1>6, <2>1
    <3> HIDE DEF Rest
    <3> QED
      BY <1>6, <3>1
  <2> HIDE DEF Rest
  <2> QED
    BY <2>1, <2>2
<1>8. \A U \in SUBSET T : Fold(U) = IF U = {} THEN base ELSE op[<<first[U], Fold(U \ {first[U]})>>]
  <2>1. TAKE U \in SUBSET T
  <2>2. CASE U = T
    BY <1>3, <1>6, <2>2
  <2>3. CASE U # T
    <3>1. Has(U, Of(U)) /\ Fold(U) = Of(U)[U]
      BY <1>5, <2>3
    <3>2. CASE U = {}
      BY <3>1, <3>2 DEF Folds
    <3>3. CASE U # {}
      <4> DEFINE W == U \ {first[U]}
      <4>1. W \in SUBSET T /\ W # T /\ W \in SUBSET (U \cap W)
        BY <1>4, <2>3, <3>3
      <4>2. Has(W, Of(W)) /\ Fold(W) = Of(W)[W]
        BY <1>5, <4>1
      <4>3. Of(U)[U] = op[<<first[U], Of(U)[W]>>]
        BY <3>1, <3>3 DEF Folds
      <4>4. Of(U)[W] = Of(W)[W]
        <5>1. U \in SUBSET S /\ W \in SUBSET S
          BY <1>4, <4>1
        <5> HIDE DEF W
        <5> QED
          BY <3>1, <4>1, <4>2, <5>1, FoldsAgree
      <4> QED
        BY <3>1, <3>3, <4>2, <4>3, <4>4
    <3> QED
      BY <3>2, <3>3
  <2> QED
    BY <2>2, <2>3
<1>9. Has(T, G)
  <2> HIDE DEF Fold
  <2>1. \A U \in SUBSET T : G[U] = IF U = {} THEN base ELSE op[<<first[U], G[U \ {first[U]}]>>]
    BY <1>8
  <2>2. G \in [SUBSET T -> V]
    BY <1>7
  <2>3. G = [U \in SUBSET T |-> IF U = {} THEN base ELSE op[<<first[U], G[U \ {first[U]}]>>]]
    <3> DEFINE H == [U \in SUBSET T |-> IF U = {} THEN base ELSE op[<<first[U], G[U \ {first[U]}]>>]]
    <3>1. DOMAIN G = SUBSET T /\ DOMAIN H = SUBSET T
      OBVIOUS
    <3>2. \A U \in SUBSET T : G[U] = H[U]
      BY <2>1
    <3> QED
      BY <3>1, <3>2
  <2> QED
    BY <2>2, <2>3 DEF Folds
<1> QED
  BY <1>2, <1>9

\* What is made by steps that stay within V is in V.
LEMMA FoldStays ==
    ASSUME NEW S, IsFiniteSet(S), NEW V, NEW first, \A T \in SUBSET S : T # {} => first[T] \in T,
           NEW H, H[{}] \in V,
           \A T \in SUBSET S : T # {} /\ H[T \ {first[T]}] \in V => H[T] \in V
    PROVE  \A T \in SUBSET S : H[T] \in V
<1> DEFINE Bad == {T \in SUBSET S : H[T] \notin V}
<1>1. SUFFICES ASSUME Bad # {}
               PROVE  FALSE
  OBVIOUS
<1>2. PICK T \in Bad : \A U \in Bad : U \subseteq T => U = T
  <2>1. Bad \in SUBSET SUBSET S
    OBVIOUS
  <2> HIDE DEF Bad
  <2> QED
    BY <1>1, <2>1, LeastSubset
<1>3. T # {}
  BY <1>2
<1>4. T \ {first[T]} \in SUBSET T /\ T \ {first[T]} # T
  BY <1>2, <1>3
<1>5. H[T \ {first[T]}] \in V
  BY <1>2, <1>4
<1> QED
  BY <1>2, <1>3, <1>5

-----------------------------------------------------------------------------
(* Sums *)

LEMMA Distributes ==
    ASSUME NEW a \in Int, NEW b \in Int, NEW c \in Int
    PROVE  a * (b + c) = a * b + a * c /\ a * b \in Int /\ a * c \in Int
BY SMTT(30)

Sums(f, S, G) ==
  G = [T \in SUBSET S |->
         IF T = {} THEN 0 ELSE f[CHOOSE x \in T : TRUE] + G[T \ {CHOOSE x \in T : TRUE}]]

\* SumFunction says that.
LEMMA SumIs ==
    ASSUME NEW S, IsFiniteSet(S), NEW f \in [S -> Int]
    PROVE  \E G \in [SUBSET S -> Int] : Sums(f, S, G) /\ SumFunction(f) = G[S]
<1> DEFINE first == [T \in SUBSET S |-> CHOOSE x \in T : TRUE]
           op == [p \in S \X Int |-> f[p[1]] + p[2]]
           H == CHOOSE G : Sums(f, S, G)
<1>1. \A T \in SUBSET S : T # {} => first[T] \in T
  OBVIOUS
<1>2. op \in [S \X Int -> Int]
  OBVIOUS
<1>3. PICK G \in [SUBSET S -> Int] : Folds(first, op, 0, S, G)
  <2>1. 0 \in Int
    OBVIOUS
  <2> HIDE DEF first, op
  <2> QED
    BY <1>1, <1>2, <2>1, FoldExists, Zenon
<1>4. Sums(f, S, G)
  <2>1. ASSUME NEW T \in SUBSET S, T # {}
        PROVE  op[<<first[T], G[T \ {first[T]}]>>] = f[first[T]] + G[T \ {first[T]}]
    <3>1. first[T] \in S /\ G[T \ {first[T]}] \in Int
      BY <1>1, <2>1
    <3> HIDE DEF first
    <3> QED
      BY <3>1
  <2>2. \A T \in SUBSET S : first[T] = CHOOSE x \in T : TRUE
    OBVIOUS
  <2> HIDE DEF first, op
  <2>3. G = [T \in SUBSET S |-> IF T = {} THEN 0 ELSE op[<<first[T], G[T \ {first[T]}]>>]]
    BY <1>3 DEF Folds
  <2>4. G = [T \in SUBSET S |-> IF T = {} THEN 0 ELSE f[first[T]] + G[T \ {first[T]}]]
    BY <2>1, <2>3
  <2> QED
    BY <2>2, <2>4 DEF Sums
<1>5. Sums(f, S, H)
  BY <1>4
<1>6. \A T \in SUBSET S : H[T] \in Int
  <2> HIDE DEF H
  <2>1. H[{}] \in Int
    BY <1>5 DEF Sums
  <2>2. \A T \in SUBSET S : T # {} /\ H[T \ {first[T]}] \in Int => H[T] \in Int
    BY <1>1, <1>5 DEF Sums
  <2> HIDE DEF first
  <2> QED
    BY <1>1, <2>1, <2>2, FoldStays
<1>7. H \in [SUBSET S -> Int]
  <2> HIDE DEF H
  <2>1. H = [T \in SUBSET S |-> H[T]]
    BY <1>5 DEF Sums
  <2> QED
    BY <1>6, <2>1
<1>8. SumFunction(f) = H[S]
  <2>1. DOMAIN f = S
    OBVIOUS
  <2> QED
    BY <2>1 DEF SumFunction, SumFunctionOnSet, FoldFunctionOnSet, MapThenFoldSet, Sums
<1> QED
  BY <1>5, <1>7, <1>8

LEMMA SumType ==
    ASSUME NEW S, IsFiniteSet(S), NEW f \in [S -> Int]
    PROVE  SumFunction(f) \in Int
<1>1. PICK G \in [SUBSET S -> Int] : Sums(f, S, G) /\ SumFunction(f) = G[S]
  BY SumIs
<1> QED
  BY <1>1

\* What compares from term to term compares in the sums.
LEMMA SumsCompare ==
    ASSUME NEW S, IsFiniteSet(S), NEW x \in [S -> Int], NEW y \in [S -> Int], NEW z \in [S -> Int],
           NEW p \in Int, NEW q \in Int, NEW r \in Int,
           \A s \in S : p * x[s] <= q * y[s] + r * z[s]
    PROVE  p * SumFunction(x) <= q * SumFunction(y) + r * SumFunction(z)
<1>1. PICK X \in [SUBSET S -> Int] : Sums(x, S, X) /\ SumFunction(x) = X[S]
  BY SumIs
<1>2. PICK Y \in [SUBSET S -> Int] : Sums(y, S, Y) /\ SumFunction(y) = Y[S]
  BY SumIs
<1>3. PICK Z \in [SUBSET S -> Int] : Sums(z, S, Z) /\ SumFunction(z) = Z[S]
  BY SumIs
<1> DEFINE Bad == {T \in SUBSET S : ~(p * X[T] <= q * Y[T] + r * Z[T])}
<1>4. SUFFICES ASSUME Bad # {}
               PROVE  FALSE
  BY <1>1, <1>2, <1>3
<1>5. PICK T \in Bad : \A U \in Bad : U \subseteq T => U = T
  <2>1. Bad \in SUBSET SUBSET S
    OBVIOUS
  <2> HIDE DEF Bad
  <2> QED
    BY <1>4, <2>1, LeastSubset
<1>6. T # {}
  <2>1. ASSUME T = {}
        PROVE  X[T] = 0 /\ Y[T] = 0 /\ Z[T] = 0
    BY <1>1, <1>2, <1>3, <2>1 DEF Sums
  <2>2. p * 0 = 0 /\ q * 0 = 0 /\ r * 0 = 0
    OBVIOUS
  <2> QED
    BY <1>5, <2>1, <2>2
<1> DEFINE c == CHOOSE s \in T : TRUE
           R == T \ {c}
<1>7. c \in T /\ c \in S /\ R \in SUBSET S /\ R \subseteq T /\ R # T
  BY <1>5, <1>6
<1>8. X[T] = x[c] + X[R] /\ Y[T] = y[c] + Y[R] /\ Z[T] = z[c] + Z[R]
  BY <1>1, <1>2, <1>3, <1>5, <1>6 DEF Sums
<1> HIDE DEF c, R
<1>9. p * X[R] <= q * Y[R] + r * Z[R]
  BY <1>5, <1>7
<1>10. p * x[c] <= q * y[c] + r * z[c]
  BY <1>7
<1>11. /\ x[c] \in Int /\ y[c] \in Int /\ z[c] \in Int
       /\ X[R] \in Int /\ Y[R] \in Int /\ Z[R] \in Int
  BY <1>7
<1>12. /\ p * (x[c] + X[R]) = p * x[c] + p * X[R]
       /\ q * (y[c] + Y[R]) = q * y[c] + q * Y[R]
       /\ r * (z[c] + Z[R]) = r * z[c] + r * Z[R]
  BY <1>11, Distributes
<1>13. /\ p * x[c] \in Int /\ q * y[c] \in Int /\ r * z[c] \in Int
       /\ p * X[R] \in Int /\ q * Y[R] \in Int /\ r * Z[R] \in Int
  BY <1>11, Distributes
<1>14. p * X[T] <= q * Y[T] + r * Z[T]
  BY <1>8, <1>9, <1>10, <1>12, <1>13
<1> QED
  BY <1>5, <1>14

\* A sum of ones counts.
LEMMA SumOfOnes ==
    ASSUME NEW S, IsFiniteSet(S), NEW A \in SUBSET S
    PROVE  SumFunction([s \in S |-> IF s \in A THEN 1 ELSE 0]) = Cardinality(A)
<1> DEFINE one == [s \in S |-> IF s \in A THEN 1 ELSE 0]
<1> SUFFICES SumFunction(one) = Cardinality(A)
  OBVIOUS
<1>1. PICK G \in [SUBSET S -> Int] : Sums(one, S, G) /\ SumFunction(one) = G[S]
  <2>1. one \in [S -> Int]
    OBVIOUS
  <2> HIDE DEF one
  <2> QED
    BY <2>1, SumIs
<1> DEFINE Bad == {T \in SUBSET S : G[T] # Cardinality(T \cap A)}
<1>2. SUFFICES ASSUME Bad # {}
               PROVE  FALSE
  <2>1. S \cap A = A
    OBVIOUS
  <2> HIDE DEF one
  <2> QED
    BY <1>1, <2>1
<1>3. PICK T \in Bad : \A U \in Bad : U \subseteq T => U = T
  <2>1. Bad \in SUBSET SUBSET S
    OBVIOUS
  <2> HIDE DEF Bad
  <2> QED
    BY <1>2, <2>1, LeastSubset
<1>4. T # {}
  <2>1. ASSUME T = {}
        PROVE  G[T] = 0 /\ Cardinality(T \cap A) = 0
    <3>1. T \cap A = {}
      BY <2>1
    <3> HIDE DEF one
    <3> QED
      BY <1>1, <2>1, <3>1, FS_EmptySet DEF Sums
  <2> QED
    BY <1>3, <2>1
<1> DEFINE c == CHOOSE s \in T : TRUE
           R == T \ {c}
<1>5. c \in T /\ c \in S /\ R \in SUBSET S /\ R \subseteq T /\ R # T
  BY <1>3, <1>4
<1>6. G[T] = one[c] + G[R]
  <2> HIDE DEF one
  <2> QED
    BY <1>1, <1>3, <1>4 DEF Sums
<1> HIDE DEF c
<1>7. G[R] = Cardinality(R \cap A)
  BY <1>3, <1>5
<1>8. Cardinality(R \cap A) = IF c \in A THEN Cardinality(T \cap A) - 1 ELSE Cardinality(T \cap A)
  <2> DEFINE B == T \cap A
             Q == R \cap A
  <2> SUFFICES Cardinality(Q) = IF c \in A THEN Cardinality(B) - 1 ELSE Cardinality(B)
    OBVIOUS
  <2>1. Q = B \ {c} /\ (c \in B <=> c \in A) /\ B \in SUBSET S
    BY <1>5
  <2> HIDE DEF B, Q
  <2>2. IsFiniteSet(B)
    BY <2>1, FS_Subset
  <2>3. Cardinality(B \ {c}) = IF c \in B THEN Cardinality(B) - 1 ELSE Cardinality(B)
    BY <2>2, FS_RemoveElement
  <2> QED
    BY <2>1, <2>3, Zenon
<1>9. Cardinality(T \cap A) \in Nat
  <2>1. T \cap A \in SUBSET S
    BY <1>5
  <2>2. IsFiniteSet(T \cap A)
    BY <2>1, FS_Subset
  <2> QED
    BY <2>2, FS_CardinalityType
<1>10. one[c] = IF c \in A THEN 1 ELSE 0
  BY <1>5
<1> QED
  BY <1>3, <1>6, <1>7, <1>8, <1>9, <1>10

LEMMA Quotients ==
    ASSUME NEW n \in Nat, NEW d \in Nat \ {0}
    PROVE  n \div d \in Nat /\ d * (n \div d) <= n
BY SMTT(30)

LEMMA Cancels ==
    ASSUME NEW a \in Nat \ {0}, NEW b \in Int, NEW c \in Int, a * b <= a * c
    PROVE  b <= c
<1> SUFFICES ASSUME c + 1 <= b
             PROVE  FALSE
  OBVIOUS
<1>1. PICK k \in Nat : b = c + 1 + k
  <2>1. b - c - 1 \in Nat /\ b = c + 1 + (b - c - 1)
    OBVIOUS
  <2> QED
    BY <2>1
<1>2. a * b = a * c + a * (1 + k)
  BY <1>1, Distributes
<1>3. a * (1 + k) = a + a * k /\ a * k \in Nat /\ a * c \in Int
  BY Distributes, SMTT(30)
<1> QED
  BY <1>2, <1>3

\* Where nothing is negative and something is not nil, the sum is not nil.
LEMMA SumIsNil ==
    ASSUME NEW S, IsFiniteSet(S), NEW f \in [S -> Nat]
    PROVE  /\ SumFunction(f) \in Nat
           /\ SumFunction(f) = 0 => \A s \in S : f[s] = 0
<1>1. f \in [S -> Int] /\ SumFunction(f) \in Int
  BY SumType
<1>2. ASSUME NEW c \in S
      PROVE  f[c] <= SumFunction(f) /\ SumFunction(f) >= 0
  <2> DEFINE one == [s \in S |-> IF s \in {c} THEN 1 ELSE 0]
  <2>1. SumFunction(one) = 1
    <3>1. {c} \in SUBSET S /\ Cardinality({c}) = 1
      BY FS_Singleton
    <3> QED
      BY <3>1, SumOfOnes
  <2>2. one \in [S -> Int] /\ \A s \in S : f[c] * one[s] <= 1 * f[s] + 0 * f[s]
    OBVIOUS
  <2>3. f[c] \in Int /\ 1 \in Int /\ 0 \in Int
    OBVIOUS
  <2> HIDE DEF one
  <2>4. f[c] * SumFunction(one) <= 1 * SumFunction(f) + 0 * SumFunction(f)
    BY <1>1, <2>2, <2>3, SumsCompare
  <2>5. f[c] * 1 <= 1 * SumFunction(f) + 0 * SumFunction(f) /\ f[c] \in Nat
    BY <2>1, <2>4
  <2> QED
    BY <1>1, <2>5
<1>3. CASE S = {}
  <2>1. PICK G \in [SUBSET S -> Int] : Sums(f, S, G) /\ SumFunction(f) = G[S]
    BY <1>1, SumIs
  <2>2. SumFunction(f) = 0
    BY <1>3, <2>1 DEF Sums
  <2> QED
    BY <1>3, <2>2
<1>4. CASE S # {}
  BY <1>1, <1>2, <1>4
<1> QED
  BY <1>3, <1>4

-----------------------------------------------------------------------------
(* The weights a plan is made of *)

LEMMA FiniteSymbols == IsFiniteSet(RiskNames) /\ IsFiniteSet(Symbols)
<1>1. Len(RiskOn) \in Nat /\ DOMAIN RiskOn = 1..Len(RiskOn)
  BY RallyAssumption
<1>2. RiskOn \in Surjection(1..Len(RiskOn), RiskNames)
  BY <1>1, RallyAssumption DEF Surjection, RiskNames, ToSet
<1>3. IsFiniteSet(1..Len(RiskOn))
  BY <1>1, FS_Interval
<1>4. IsFiniteSet(RiskNames)
  BY <1>2, <1>3, FS_Surjection
<1>5. IsFiniteSet(RiskNames \cup Defensive)
  BY <1>4, RallyAssumption, FS_Union
<1> QED
  BY <1>4, <1>5, RallyAssumption, FS_Union DEF Symbols

\* What is handed out in proportion is no more than there was.
LEMMA Portions ==
    ASSUME NEW amount \in Nat, NEW share \in [Symbols -> Nat], SumFunction(share) # 0
    PROVE  LET part == [s \in Symbols |-> (amount * share[s]) \div SumFunction(share)]
           IN  /\ SumFunction(share) \in Nat \ {0}
               /\ part \in [Symbols -> Nat]
               /\ SumFunction(part) \in Nat /\ SumFunction(part) <= amount
<1> DEFINE total == SumFunction(share)
           part == [s \in Symbols |-> (amount * share[s]) \div total]
<1>1. total \in Nat \ {0}
  BY FiniteSymbols, SumIsNil
<1> HIDE DEF total
<1>2. \A s \in Symbols : amount * share[s] \in Nat
  <2>1. \A a, b \in Nat : a * b \in Nat
    BY SMTT(30)
  <2> QED
    BY <2>1
<1>3. /\ part \in [Symbols -> Nat]
      /\ \A s \in Symbols : total * part[s] <= 0 * share[s] + amount * share[s]
  <2>1. ASSUME NEW s \in Symbols
        PROVE  part[s] \in Nat /\ total * part[s] <= amount * share[s]
    <3>1. PICK n \in Nat : n = amount * share[s]
      BY <1>2
    <3>2. part[s] = n \div total
      BY <3>1
    <3> HIDE DEF part
    <3> QED
      BY <1>1, <3>1, <3>2, Quotients
  <2>2. \A s \in Symbols : 0 * share[s] + amount * share[s] = amount * share[s]
    BY <1>2
  <2>3. part = [s \in Symbols |-> part[s]]
    OBVIOUS
  <2> HIDE DEF part
  <2> QED
    BY <2>1, <2>2, <2>3
<1> HIDE DEF part
<1>4. total * SumFunction(part) <= 0 * SumFunction(share) + amount * SumFunction(share)
  <2>1. part \in [Symbols -> Int] /\ share \in [Symbols -> Int] /\ total \in Int /\ 0 \in Int /\ amount \in Int
    BY <1>1, <1>3
  <2> QED
    BY <1>3, <2>1, FiniteSymbols, SumsCompare
<1>5. SumFunction(part) \in Nat
  BY <1>3, FiniteSymbols, SumIsNil
<1>6. total * SumFunction(part) <= total * amount
  <2>1. amount * total = total * amount /\ 0 * total + amount * total = amount * total
    BY <1>1, Distributes
  <2> QED
    BY <1>4, <2>1 DEF total
<1>7. SumFunction(part) <= amount
  BY <1>1, <1>5, <1>6, Cancels
<1> QED
  BY <1>1, <1>3, <1>5, <1>7 DEF part, total

\* Equal shares of the gross.
LEMMA EqualShares ==
    ASSUME NEW A \in SUBSET Symbols
    PROVE  LET part == [s \in Symbols |-> IF s \in A THEN Gross \div Cardinality(A) ELSE 0]
           IN  /\ part \in [Symbols -> Nat]
               /\ SumFunction(part) \in Nat /\ SumFunction(part) <= Gross
<1> DEFINE one == [s \in Symbols |-> IF s \in A THEN 1 ELSE 0]
           part == [s \in Symbols |-> IF s \in A THEN Gross \div Cardinality(A) ELSE 0]
<1>1. SumFunction(one) = Cardinality(A) /\ one \in [Symbols -> Nat]
  BY FiniteSymbols, SumOfOnes
<1>2. IsFiniteSet(A)
  BY FiniteSymbols, FS_Subset
<1>3. CASE A = {}
  <2>1. part = [s \in Symbols |-> 0]
    BY <1>3
  <2>2. part \in [Symbols -> Nat] /\ part \in [Symbols -> Int]
    BY <2>1
  <2>3. \A s \in Symbols : 1 * part[s] <= 0 * part[s] + 0 * part[s]
    BY <2>1
  <2> HIDE DEF part
  <2>4. 1 * SumFunction(part) <= 0 * SumFunction(part) + 0 * SumFunction(part)
    <3>1. 1 \in Int /\ 0 \in Int
      OBVIOUS
    <3> QED
      BY <2>2, <2>3, <3>1, FiniteSymbols, SumsCompare
  <2>5. SumFunction(part) \in Nat
    BY <2>2, FiniteSymbols, SumIsNil
  <2> QED
    BY <2>2, <2>4, <2>5, RallyAssumption DEF part
<1>4. CASE A # {}
  <2>1. SumFunction(one) # 0 /\ Cardinality(A) \in Nat \ {0}
    BY <1>1, <1>2, <1>4, FS_EmptySet, FS_CardinalityType
  <2>2. part = [s \in Symbols |-> (Gross * one[s]) \div SumFunction(one)]
    <3>1. \A d \in Nat \ {0} : 0 \div d = 0
      BY SMTT(30)
    <3>2. Gross \in Nat /\ Gross * 1 = Gross /\ Gross * 0 = 0
      BY RallyAssumption
    <3>3. ASSUME NEW s \in Symbols
          PROVE  part[s] = (Gross * one[s]) \div SumFunction(one)
      <4>1. CASE s \in A
        <5>1. one[s] = 1 /\ part[s] = Gross \div Cardinality(A)
          BY <4>1
        <5> HIDE DEF one, part
        <5> QED
          BY <1>1, <3>2, <5>1
      <4>2. CASE s \notin A
        <5>1. one[s] = 0 /\ part[s] = 0
          BY <4>2
        <5> HIDE DEF one, part
        <5> QED
          BY <1>1, <2>1, <3>1, <3>2, <5>1
      <4> HIDE DEF one, part
      <4> QED
        BY <4>1, <4>2
    <3>4. part = [s \in Symbols |-> part[s]]
      OBVIOUS
    <3> DEFINE portion(s) == (Gross * one[s]) \div SumFunction(one)
    <3>5. \A s \in Symbols : part[s] = portion(s)
      BY <3>3
    <3> HIDE DEF one, part, portion
    <3>6. part = [s \in Symbols |-> portion(s)]
      BY <3>4, <3>5
    <3> QED
      BY <3>6 DEF portion
  <2> HIDE DEF one, part
  <2>3. part \in [Symbols -> Nat] /\ SumFunction(part) \in Nat /\ SumFunction(part) <= Gross
    <3>1. Gross \in Nat
      BY RallyAssumption
    <3> QED
      BY <1>1, <2>1, <2>2, <3>1, Portions
  <2> QED
    BY <2>3 DEF part
<1> QED
  BY <1>3, <1>4

LEMMA Parked ==
    ASSUME NEW w \in [Symbols -> Nat], NEW book \in [Symbols -> Nat]
    PROVE  LET r == ParkResidual(w, book)
           IN  /\ r \in [Symbols -> Nat]
               /\ \A s \in Symbols : book[s] = 0 => r[s] = w[s]
               /\ SumFunction(w) <= Gross => SumFunction(r) <= Gross
               /\ SumFunction(w) > Gross => r = w
<1> DEFINE residual == Gross - SumFunction(w)
           total == SumFunction(book)
           part == [s \in Symbols |-> (residual * book[s]) \div total]
           r == [s \in Symbols |-> w[s] + (residual * book[s]) \div total]
<1>1. SumFunction(w) \in Nat /\ total \in Nat /\ residual \in Int
  BY FiniteSymbols, SumIsNil, RallyAssumption
<1>2. CASE residual <= 0 \/ total = 0
  <2>1. ParkResidual(w, book) = w
    BY <1>2 DEF ParkResidual
  <2> QED
    BY <2>1
<1>3. CASE ~(residual <= 0 \/ total = 0)
  <2>1. ParkResidual(w, book) = r /\ residual \in Nat /\ SumFunction(w) <= Gross
    BY <1>1, <1>3, RallyAssumption DEF ParkResidual
  <2>2. /\ total \in Nat \ {0} /\ part \in [Symbols -> Nat]
        /\ SumFunction(part) \in Nat /\ SumFunction(part) <= residual
    <3> HIDE DEF residual
    <3> QED
      BY <1>3, <2>1, Portions
  <2>3. /\ r \in [Symbols -> Nat]
        /\ \A s \in Symbols : r[s] = w[s] + part[s]
    <3>1. \A s \in Symbols : part[s] = (residual * book[s]) \div total
      OBVIOUS
    <3> HIDE DEF part
    <3>2. \A s \in Symbols : r[s] = w[s] + part[s] /\ w[s] + part[s] \in Nat
      BY <2>2, <3>1
    <3>3. r = [s \in Symbols |-> r[s]]
      OBVIOUS
    <3> HIDE DEF r
    <3> QED
      BY <3>2, <3>3
  <2>4. \A s \in Symbols : book[s] = 0 => r[s] = w[s]
    <3>1. \A d \in Nat \ {0} : 0 \div d = 0
      BY SMTT(30)
    <3>2. residual * 0 = 0
      BY <1>1
    <3>3. \A s \in Symbols : book[s] = 0 => part[s] = 0
      <4> HIDE DEF residual, total
      <4> QED
        BY <2>2, <3>1, <3>2
    <3> HIDE DEF part, r
    <3> QED
      BY <2>3, <3>3
  <2> HIDE DEF part, r
  <2>5. 1 * SumFunction(r) <= 1 * SumFunction(w) + 1 * SumFunction(part)
    <3>1. \A s \in Symbols : 1 * r[s] <= 1 * w[s] + 1 * part[s]
      BY <2>2, <2>3
    <3>2. r \in [Symbols -> Int] /\ w \in [Symbols -> Int] /\ part \in [Symbols -> Int] /\ 1 \in Int
      BY <2>2, <2>3
    <3> QED
      BY <3>1, <3>2, FiniteSymbols, SumsCompare
  <2>6. SumFunction(r) \in Nat
    BY <2>3, FiniteSymbols, SumIsNil
  <2>7. SumFunction(r) <= Gross
    BY <1>1, <2>2, <2>5, <2>6, RallyAssumption
  <2> QED
    BY <1>1, <2>1, <2>3, <2>4, <2>7, RallyAssumption
<1> QED
  BY <1>2, <1>3

\* What has been chosen shares the gross.
LEMMA Scored ==
    ASSUME NEW m \in Markets, NEW chosen \in SUBSET RiskNames
    PROVE  LET w == ScoreToWeights(m, chosen)
           IN  /\ w \in [Symbols -> Nat]
               /\ SumFunction(w) <= Gross
               /\ \A s \in Symbols : s \notin chosen => w[s] = 0
<1> DEFINE share == [s \in Symbols |-> IF s \in chosen THEN Excess(m, s) ELSE 0]
           total == SumFunction(share)
           part == [s \in Symbols |-> (Gross * share[s]) \div total]
           equal == [s \in Symbols |-> IF s \in chosen THEN Gross \div Cardinality(chosen) ELSE 0]
<1>1. share \in [Symbols -> Nat] /\ \A s \in Symbols : s \notin chosen => share[s] = 0
  BY RallyAssumption DEF Excess
<1>2. CASE total # 0
  <2>1. ScoreToWeights(m, chosen) = part
    BY <1>2 DEF ScoreToWeights
  <2>2. total \in Nat \ {0} /\ part \in [Symbols -> Nat] /\ SumFunction(part) <= Gross
    <3> HIDE DEF share
    <3> QED
      BY <1>1, <1>2, RallyAssumption, Portions
  <2>3. \A s \in Symbols : s \notin chosen => part[s] = 0
    <3>1. \A d \in Nat \ {0} : 0 \div d = 0
      BY SMTT(30)
    <3>2. Gross * 0 = 0
      BY RallyAssumption
    <3> HIDE DEF share, total
    <3> QED
      BY <1>1, <2>2, <3>1, <3>2
  <2> HIDE DEF part
  <2> QED
    BY <2>1, <2>2, <2>3
<1>3. CASE total = 0
  <2>1. ScoreToWeights(m, chosen) = equal
    BY <1>3 DEF ScoreToWeights
  <2>2. equal \in [Symbols -> Nat] /\ SumFunction(equal) <= Gross
    BY EqualShares DEF Symbols
  <2> QED
    BY <2>1, <2>2
<1> QED
  BY <1>2, <1>3

\* No plan takes a weight up that the filter has not taken up, and what it takes up is paid for.
Fundable(r, target) ==
  SumFunction(r) <= SumFunction(target) \/ \A s \in Symbols : r[s] <= weight[s]

LEMMA Fitted ==
    ASSUME weight \in [Symbols -> Nat], NEW filtered \in [Symbols -> Nat], NEW target \in [Symbols -> Nat]
    PROVE  LET r == FitToBudget(filtered, target)
           IN  /\ r \in [Symbols -> Nat]
               /\ \A s \in Symbols : filtered[s] <= weight[s] => r[s] <= weight[s]
               /\ Fundable(r, target)
<1> DEFINE excess == SumFunction(filtered) - SumFunction(target)
           rise == [s \in Symbols |-> IF filtered[s] > weight[s] THEN filtered[s] - weight[s] ELSE 0]
           total == SumFunction(rise)
           rest == IF total > excess THEN total - excess ELSE 0
           part == [s \in Symbols |-> (rest * rise[s]) \div total]
           r == FitToBudget(filtered, target)
<1> SUFFICES /\ r \in [Symbols -> Nat]
             /\ \A s \in Symbols : filtered[s] <= weight[s] => r[s] <= weight[s]
             /\ Fundable(r, target)
  OBVIOUS
<1>1. SumFunction(filtered) \in Nat /\ SumFunction(target) \in Nat /\ excess \in Int
  BY FiniteSymbols, SumIsNil
<1>2. /\ rise \in [Symbols -> Nat]
      /\ \A s \in Symbols : /\ rise[s] = 0 => filtered[s] <= weight[s]
                            /\ rise[s] # 0 => filtered[s] = weight[s] + rise[s]
  OBVIOUS
<1>3. total \in Nat /\ (total = 0 => \A s \in Symbols : rise[s] = 0)
  <2> HIDE DEF rise
  <2> QED
    BY <1>2, FiniteSymbols, SumIsNil
<1>4. CASE excess <= 0 \/ total = 0
  <2>1. r = filtered
    BY <1>4 DEF FitToBudget
  <2>2. SumFunction(filtered) <= SumFunction(target) \/ \A s \in Symbols : filtered[s] <= weight[s]
    <3> HIDE DEF rise
    <3> QED
      BY <1>1, <1>2, <1>3, <1>4
  <2> HIDE DEF r
  <2> QED
    BY <2>1, <2>2 DEF Fundable
<1>5. CASE ~(excess <= 0 \/ total = 0)
  <2>1. /\ DOMAIN r = Symbols
        /\ \A s \in Symbols :
             /\ rise[s] = 0 => r[s] = filtered[s]
             /\ rise[s] # 0 => r[s] = weight[s] \/ r[s] = weight[s] + (rise[s] * rest) \div total
    BY <1>5 DEF FitToBudget
  <2>2. rest \in Nat
    <3> HIDE DEF rise
    <3> QED
      BY <1>1, <1>3
  <2> HIDE DEF rest, r
  <2>3. /\ part \in [Symbols -> Nat] /\ total \in Nat \ {0}
        /\ SumFunction(part) \in Nat /\ SumFunction(part) <= rest
    <3> HIDE DEF rise
    <3> QED
      BY <1>2, <1>5, <2>2, Portions
  <2>4. \A s \in Symbols : rise[s] # 0 => r[s] = weight[s] \/ r[s] = weight[s] + part[s]
    <3>1. \A s \in Symbols : part[s] = (rest * rise[s]) \div total
      OBVIOUS
    <3>2. \A s \in Symbols : rise[s] * rest = rest * rise[s]
      <4>1. \A a, b \in Nat : a * b = b * a
        OBVIOUS
      <4> HIDE DEF rise
      <4> QED
        BY <1>2, <2>2, <4>1
    <3> HIDE DEF rise, part, total
    <3> QED
      BY <2>1, <3>1, <3>2
  <2> HIDE DEF rise, part
  <2>5. \A s \in Symbols : /\ r[s] \in Nat
                           /\ rise[s] = 0 => r[s] = filtered[s] /\ r[s] <= weight[s]
                           /\ r[s] <= weight[s] + part[s]
                           /\ r[s] <= filtered[s] - rise[s] + part[s]
    <3>1. ASSUME NEW s \in Symbols
          PROVE  /\ r[s] \in Nat
                 /\ rise[s] = 0 => r[s] = filtered[s] /\ r[s] <= weight[s]
                 /\ r[s] <= weight[s] + part[s]
                 /\ r[s] <= filtered[s] - rise[s] + part[s]
      <4>1. rise[s] \in Nat /\ part[s] \in Nat /\ weight[s] \in Nat /\ filtered[s] \in Nat
        BY <1>2, <2>3
      <4> QED
        BY <1>2, <2>1, <2>4, <4>1
    <3> QED
      BY <3>1
  <2>6. r \in [Symbols -> Nat]
    <3>1. r = [s \in Symbols |-> r[s]]
      BY <2>1 DEF r, FitToBudget
    <3> QED
      BY <2>5, <3>1
  <2>7. \A s \in Symbols : filtered[s] <= weight[s] => r[s] <= weight[s]
    <3>1. \A s \in Symbols : filtered[s] <= weight[s] => rise[s] = 0
      BY DEF rise
    <3> QED
      BY <2>5, <3>1
  <2>8. CASE total <= excess
    <3>1. rest = 0
      BY <1>1, <1>3, <2>8 DEF rest
    <3>2. \A s \in Symbols : part[s] = 0
      BY <2>3, <3>1, FiniteSymbols, SumIsNil
    <3>3. \A s \in Symbols : r[s] <= weight[s]
      BY <2>5, <3>2
    <3> QED
      BY <2>6, <2>7, <3>3 DEF Fundable
  <2>9. CASE ~(total <= excess)
    <3> DEFINE base == [s \in Symbols |-> filtered[s] - rise[s]]
    <3>1. rest = total - excess
      BY <1>1, <1>3, <2>9 DEF rest
    <3>2. /\ base \in [Symbols -> Int] /\ filtered \in [Symbols -> Int] /\ rise \in [Symbols -> Int]
          /\ part \in [Symbols -> Int] /\ r \in [Symbols -> Int] /\ 1 \in Int /\ -1 \in Int
      BY <1>2, <2>3, <2>6
    <3>3. \A s \in Symbols : /\ 1 * base[s] <= 1 * filtered[s] + (-1) * rise[s]
                             /\ 1 * r[s] <= 1 * base[s] + 1 * part[s]
      <4>1. ASSUME NEW s \in Symbols
            PROVE  /\ 1 * base[s] <= 1 * filtered[s] + (-1) * rise[s]
                   /\ 1 * r[s] <= 1 * base[s] + 1 * part[s]
        <5>1. /\ base[s] = filtered[s] - rise[s]
              /\ filtered[s] \in Int /\ rise[s] \in Int /\ part[s] \in Int /\ r[s] \in Int
          BY <3>2
        <5>2. r[s] <= filtered[s] - rise[s] + part[s]
          BY <2>5
        <5> HIDE DEF base
        <5> QED
          BY <5>1, <5>2
      <4> QED
        BY <4>1
    <3> HIDE DEF base
    <3>4. 1 * SumFunction(base) <= 1 * SumFunction(filtered) + (-1) * SumFunction(rise)
      BY <3>2, <3>3, FiniteSymbols, SumsCompare
    <3>5. 1 * SumFunction(r) <= 1 * SumFunction(base) + 1 * SumFunction(part)
      BY <3>2, <3>3, FiniteSymbols, SumsCompare
    <3>6. SumFunction(r) \in Int /\ SumFunction(base) \in Int
      BY <3>2, FiniteSymbols, SumType
    <3>7. SumFunction(r) <= SumFunction(target)
      BY <1>1, <1>3, <2>3, <3>1, <3>4, <3>5, <3>6
    <3> QED
      BY <2>6, <2>7, <3>7 DEF Fundable
  <2> QED
    BY <2>8, <2>9
<1> QED
  BY <1>4, <1>5

LEMMA Settled ==
    ASSUME weight \in [Symbols -> Nat], NEW target \in [Symbols -> Nat]
    PROVE  /\ Settle(target) \in [Symbols -> Nat]
           /\ \A s \in Symbols : target[s] <= weight[s] => Settle(target)[s] <= weight[s]
           /\ Fundable(Settle(target), target)
<1> DEFINE filtered == [s \in Symbols |-> IF TooSmall(target, s) THEN weight[s] ELSE target[s]]
<1>1. /\ filtered \in [Symbols -> Nat]
      /\ \A s \in Symbols : target[s] <= weight[s] => filtered[s] <= weight[s]
  <2> HIDE DEF TooSmall
  <2> QED
    OBVIOUS
<1>2. Settle(target) = FitToBudget(filtered, target)
  BY DEF Settle
<1> HIDE DEF filtered
<1> QED
  BY <1>1, <1>2, Fitted

-----------------------------------------------------------------------------
(* What is selected, and what is remembered *)

LEMMA BeforeOrders ==
    ASSUME NEW m \in Markets
    PROVE  /\ \A s \in RiskNames : ~Before(m, s, s)
           /\ \A s, t, u \in RiskNames : Before(m, s, t) /\ Before(m, t, u) => Before(m, s, u)
<1>1. \A s \in RiskNames : m[s].score \in Int
  BY RallyAssumption
<1>2. \A s \in RiskNames : Position(s) \in Int
  <2>1. TAKE s \in RiskNames
  <2>2. \E i \in DOMAIN RiskOn : RiskOn[i] = s
    BY DEF RiskNames, ToSet
  <2>3. Position(s) \in DOMAIN RiskOn
    BY <2>2 DEF Position
  <2>4. DOMAIN RiskOn = 1..Len(RiskOn)
    BY RallyAssumption
  <2> QED
    BY <2>3, <2>4
<1> QED
  BY <1>1, <1>2 DEF Before

LEMMA LowestIsIn ==
    ASSUME NEW m \in Markets, NEW names \in SUBSET RiskNames, names # {}
    PROVE  Lowest(m, names) \in names
<1> DEFINE Bad == {T \in SUBSET RiskNames : T # {} /\ \A s \in T : \E t \in T : Before(m, s, t)}
<1>1. SUFFICES ASSUME Bad # {}
               PROVE  FALSE
  <2>1. ASSUME Bad = {}
        PROVE  \E s \in names : \A t \in names : ~Before(m, s, t)
    BY <2>1
  <2> QED
    BY <2>1 DEF Lowest
<1>2. PICK T \in Bad : \A U \in Bad : U \subseteq T => U = T
  <2>1. Bad \in SUBSET SUBSET RiskNames
    OBVIOUS
  <2> HIDE DEF Bad
  <2> QED
    BY <1>1, <2>1, FiniteSymbols, LeastSubset
<1>3. PICK x \in T : TRUE
  BY <1>2
<1> DEFINE R == T \ {x}
<1>4. T \in SUBSET RiskNames /\ R \in SUBSET RiskNames /\ R \subseteq T /\ R # T
  BY <1>2, <1>3
<1>5. PICK z \in T : Before(m, x, z)
  BY <1>2, <1>3
<1>6. z # x /\ z \in R
  BY <1>3, <1>4, <1>5, BeforeOrders
<1>7. PICK y \in R : \A t \in R : ~Before(m, y, t)
  <2>1. R \notin Bad
    BY <1>2, <1>4
  <2> QED
    BY <1>4, <1>6, <2>1
<1>8. Before(m, y, x)
  <2>1. \E t \in T : Before(m, y, t)
    BY <1>2, <1>7
  <2> QED
    BY <1>7, <2>1
<1>9. Before(m, y, z)
  BY <1>3, <1>4, <1>5, <1>6, <1>7, <1>8, BeforeOrders
<1> QED
  BY <1>6, <1>7, <1>9

\* The recursive function inside the challenges.
Challenges(m, filled, S, G) ==
  G = [T \in SUBSET S |->
         IF T = {} THEN filled ELSE Challenge(m, Lowest(m, T), G[T \ {Lowest(m, T)}])]

LEMMA ChallengesStay ==
    ASSUME NEW m \in Markets, NEW all \in SUBSET RiskNames, NEW filled \in SUBSET all, NEW S \in SUBSET all
    PROVE  MapThenFoldSet(LAMBDA c, sel : Challenge(m, c, sel), filled, LAMBDA c : c,
                          LAMBDA names : Lowest(m, names), S) \in SUBSET all
<1> DEFINE V == SUBSET all
           first == [T \in SUBSET S |-> Lowest(m, T)]
           op == [p \in S \X V |-> Challenge(m, p[1], p[2])]
           H == CHOOSE G : Challenges(m, filled, S, G)
<1>1. \A T \in SUBSET S : T # {} => first[T] \in T
  BY LowestIsIn
<1>2. IsFiniteSet(S)
  BY FiniteSymbols, FS_Subset
<1>3. \A c \in S, sel \in V : Challenge(m, c, sel) \in V
  BY DEF Challenge
<1>4. op \in [S \X V -> V]
  <2>1. \A p \in S \X V : Challenge(m, p[1], p[2]) \in V
    <3> HIDE DEF V
    <3> QED
      BY <1>3
  <2> HIDE DEF V
  <2> QED
    BY <2>1
<1>5. PICK G \in [SUBSET S -> V] : Folds(first, op, filled, S, G)
  <2>1. filled \in V
    OBVIOUS
  <2> HIDE DEF first, op, V
  <2> QED
    BY <1>1, <1>2, <1>4, <2>1, FoldExists, Zenon
<1>6. Challenges(m, filled, S, G)
  <2>1. ASSUME NEW T \in SUBSET S, T # {}
        PROVE  op[<<first[T], G[T \ {first[T]}]>>] = Challenge(m, first[T], G[T \ {first[T]}])
    <3>1. first[T] \in S /\ G[T \ {first[T]}] \in V
      BY <1>1, <2>1
    <3> HIDE DEF first, V
    <3> QED
      BY <3>1
  <2>2. \A T \in SUBSET S : first[T] = Lowest(m, T)
    OBVIOUS
  <2> HIDE DEF first, op
  <2>3. G = [T \in SUBSET S |-> IF T = {} THEN filled ELSE op[<<first[T], G[T \ {first[T]}]>>]]
    BY <1>5 DEF Folds
  <2>4. G = [T \in SUBSET S |-> IF T = {} THEN filled ELSE Challenge(m, first[T], G[T \ {first[T]}])]
    BY <2>1, <2>3
  <2> QED
    BY <2>2, <2>4 DEF Challenges
<1>7. Challenges(m, filled, S, H)
  BY <1>6
<1>8. H[S] \in V
  <2> HIDE DEF H
  <2>1. H[{}] \in V
    BY <1>7 DEF Challenges
  <2>2. \A T \in SUBSET S : T # {} /\ H[T \ {first[T]}] \in V => H[T] \in V
    <3>1. TAKE T \in SUBSET S
    <3>2. HAVE T # {} /\ H[T \ {first[T]}] \in V
    <3>3. H[T] = Challenge(m, first[T], H[T \ {first[T]}])
      BY <1>7, <3>2 DEF Challenges
    <3>4. first[T] \in S
      BY <1>1, <3>2
    <3> HIDE DEF first, V
    <3> QED
      BY <1>3, <3>2, <3>3, <3>4
  <2>3. S \in SUBSET S
    OBVIOUS
  <2> HIDE DEF first, V
  <2>4. \A T \in SUBSET S : H[T] \in V
    BY <1>1, <1>2, <2>1, <2>2, FoldStays
  <2> QED
    BY <2>3, <2>4
<1>9. MapThenFoldSet(LAMBDA c, sel : Challenge(m, c, sel), filled, LAMBDA c : c,
                     LAMBDA names : Lowest(m, names), S) = H[S]
  BY DEF MapThenFoldSet, Challenges
<1> QED
  BY <1>8, <1>9

\* Whoever is chosen was a candidate.
LEMMA ChosenIsCandidate ==
    ASSUME NEW m \in Markets, NEW held, NEW candidates \in SUBSET RiskNames
    PROVE  ResolvePositions(m, held, candidates) \in SUBSET candidates
<1> DEFINE kept == {s \in held \cap candidates : RankIn(m, candidates, s) <= ExitRank}
           contenders == {s \in candidates \ kept : RankIn(m, candidates, s) <= EntryRank}
           free == IF Slots > Cardinality(kept) THEN Slots - Cardinality(kept) ELSE 0
           filled == kept \cup Best(m, contenders, free)
           in_turn == MapThenFoldSet(LAMBDA c, sel : Challenge(m, c, sel), filled, LAMBDA c : c,
                                     LAMBDA names : Lowest(m, names), contenders)
<1>1. filled \in SUBSET candidates /\ contenders \in SUBSET candidates
  BY DEF Best
<1>2. in_turn \in SUBSET candidates
  <2> HIDE DEF filled, contenders
  <2> QED
    BY <1>1, ChallengesStay
<1>3. ResolvePositions(m, held, candidates) = Best(m, in_turn, Slots)
  BY DEF ResolvePositions
<1> HIDE DEF in_turn
<1> QED
  BY <1>2, <1>3 DEF Best

\* The newest day is recorded, the others as they were.
LEMMA Tracked ==
    ASSUME NEW past, NEW value, day \in Nat, DOMAIN past \subseteq 0..day
    PROVE  LET series == Track(past, value)
           IN  /\ DOMAIN series \subseteq 0..day
               /\ \A d \in DOMAIN series : d # day => d \in DOMAIN past /\ series[d] = past[d]
               /\ day \in DOMAIN series /\ series[day] = value
<1> DEFINE days == DOMAIN past \cup {day}
<1>1. {e \in days : e > day} = {}
  OBVIOUS
<1>2. Cardinality({e \in days : e > day}) < Window
  <2>1. Cardinality({e \in days : e > day}) = 0
    BY <1>1, FS_EmptySet, Zenon
  <2> QED
    BY <2>1, RallyAssumption
<1>3. day \in Latest(days) /\ Latest(days) \subseteq days
  BY <1>2 DEF Latest
<1>4. Track(past, value) = [d \in Latest(days) |-> IF d = day THEN value ELSE past[d]]
  BY DEF Track
<1>5. day \in 0..day
  OBVIOUS
<1> HIDE DEF Latest
<1> QED
  BY <1>3, <1>4, <1>5

-----------------------------------------------------------------------------
(* The invariant *)

\* Days are recorded up to today.
DayOrNone == {None} \cup 0..day
Recorded(rows) == DOMAIN rows = RiskNames /\ \A s \in RiskNames : DOMAIN rows[s] \subseteq 0..day

\* The days on which s was at the top.
Tops(rows, s) == {d \in DOMAIN rows[s] : rows[s][d] = 1}

TypeInv ==
  /\ day \in Nat /\ weight \in [Symbols -> Nat]
  /\ Recorded(history) /\ ranked \in DayOrNone /\ grew \in DayOrNone
  /\ DOMAIN seen = RiskNames /\ \A s \in RiskNames : seen[s] \subseteq 0..day

\* The window holds nothing that was not seen, and the clock starts anew with every re-ranking
\* that buys.
MemoryInv ==
  /\ \A s \in RiskNames : Tops(history, s) \subseteq seen[s]
  /\ grew # None => ranked # None /\ grew <= ranked

\* The run may buy risk names: the re-ranking it proposes to remember is today's, and was due.
MayBuy ==
  /\ plan.ranked = day /\ plan.usable
  /\ Interval = 0 \/ ranked = None \/ SessionsSince(ranked) >= Interval

PlanFields == {"pc", "market", "usable", "due", "bought", "chosen", "budget",
               "target", "history", "ranked"}

\* What a run has in its hands.
PlanInv ==
  \/ plan = NoPlan
  \/ /\ plan.pc \in {"planned", "placed"} /\ DOMAIN plan.target = Symbols
     /\ Recorded(plan.history) /\ plan.ranked \in {ranked, day}
     /\ plan.usable \in BOOLEAN
     /\ \A s \in RiskNames : Tops(plan.history, s) \ {day} \subseteq seen[s]
     /\ IF plan.usable THEN \A s \in RiskNames : day \in DOMAIN plan.history[s]
                       ELSE plan.history = history
     /\ plan.pc = "planned" =>
          /\ DOMAIN plan = PlanFields /\ plan.target \in [Symbols -> Nat]
          /\ (\E s \in RiskNames : plan.target[s] > weight[s]) => MayBuy
          /\ SettledBeforeEntry /\ PlanFundable
     /\ plan.pc = "placed" => plan.bought \in BOOLEAN /\ (plan.bought => MayBuy)

RallyInv == TypeInv /\ MemoryInv /\ PlanInv

LEMMA InitRally == Init => RallyInv
<1> SUFFICES ASSUME Init
             PROVE  RallyInv
  OBVIOUS
<1>1. day = 0 /\ ranked = None /\ grew = None /\ plan = NoPlan
  BY DEF Init
<1>2. weight \in [Symbols -> Nat]
  BY RallyAssumption DEF Init
<1>3. /\ DOMAIN history = RiskNames /\ DOMAIN seen = RiskNames
      /\ \A s \in RiskNames : DOMAIN history[s] = {} /\ seen[s] = {}
  BY DEF Init, Empty
<1>4. TypeInv
  BY <1>1, <1>2, <1>3 DEF TypeInv, DayOrNone, Recorded
<1>5. MemoryInv
  BY <1>1, <1>3 DEF MemoryInv, Tops
<1> QED
  BY <1>1, <1>4, <1>5 DEF RallyInv, PlanInv

\* What a run aims at: a risk name is taken up only by a re-ranking that chose it.
LEMMA Aimed ==
    ASSUME TypeInv, NEW m \in Markets, NEW leaders \in SUBSET Defensive, NEW chosen \in SUBSET RiskNames,
           NEW risk, risk = IF Due THEN ScoreToWeights(m, chosen) ELSE Survivors(Keep(m)),
           NEW book, book = DefensiveBook(leaders),
           NEW target, target = IF UniverseDataOk(m) THEN OrElseBook(ParkResidual(risk, book), book) ELSE book
    PROVE  /\ target \in [Symbols -> Nat]
           /\ \A s \in RiskNames : target[s] > weight[s] => UniverseDataOk(m) /\ Due /\ s \in chosen
           /\ SumFunction(target) <= Gross \/ \A s \in Symbols : target[s] <= weight[s]
<1>1. weight \in [Symbols -> Nat] /\ RiskNames \subseteq Symbols
  BY DEF TypeInv, Symbols
<1>2. /\ book \in [Symbols -> Nat] /\ SumFunction(book) <= Gross
      /\ \A s \in RiskNames : book[s] = 0
  <2>1. leaders \in SUBSET Symbols
    BY DEF Symbols
  <2>2. book = [s \in Symbols |-> IF s \in leaders THEN Gross \div Cardinality(leaders) ELSE 0]
    BY DEF DefensiveBook
  <2>3. book \in [Symbols -> Nat] /\ SumFunction(book) <= Gross
    BY <2>1, <2>2, EqualShares
  <2>4. \A s \in RiskNames : s \notin leaders
    BY RallyAssumption
  <2> QED
    BY <1>1, <2>2, <2>3, <2>4
<1>3. /\ risk \in [Symbols -> Nat]
      /\ Due => SumFunction(risk) <= Gross /\ \A s \in Symbols : s \notin chosen => risk[s] = 0
      /\ ~Due => \A s \in Symbols : risk[s] <= weight[s]
  <2>1. CASE Due
    BY <2>1, Scored
  <2>2. CASE ~Due
    <3>1. risk = [s \in Symbols |-> IF s \in Keep(m) THEN weight[s] ELSE 0]
      BY <2>2 DEF Survivors
    <3>2. risk \in [Symbols -> Nat] /\ \A s \in Symbols : risk[s] <= weight[s]
      BY <1>1, <3>1
    <3> QED
      BY <2>2, <3>2
  <2> QED
    BY <2>1, <2>2
<1> DEFINE parked == ParkResidual(risk, book)
<1>4. /\ parked \in [Symbols -> Nat]
      /\ \A s \in Symbols : book[s] = 0 => parked[s] = risk[s]
      /\ SumFunction(risk) <= Gross => SumFunction(parked) <= Gross
      /\ SumFunction(risk) > Gross => parked = risk
  BY <1>2, <1>3, Parked
<1>5. CASE target = book
  BY <1>1, <1>2, <1>5
<1>6. CASE UniverseDataOk(m) /\ target = parked
  <2> HIDE DEF parked
  <2>1. SumFunction(risk) \in Int /\ Gross \in Int
    BY <1>3, FiniteSymbols, SumIsNil, RallyAssumption
  <2>2. SumFunction(target) <= Gross \/ \A s \in Symbols : target[s] <= weight[s]
    BY <1>3, <1>4, <1>6, <2>1
  <2>3. ASSUME NEW s \in RiskNames, target[s] > weight[s]
        PROVE  Due /\ s \in chosen
    <3>1. target[s] = risk[s] /\ s \in Symbols
      BY <1>1, <1>2, <1>4, <1>6
    <3>2. risk[s] \in Nat /\ weight[s] \in Nat /\ risk[s] > weight[s]
      BY <1>1, <1>3, <2>3, <3>1
    <3> QED
      BY <1>3, <3>1, <3>2
  <2> QED
    BY <1>4, <1>6, <2>2, <2>3
<1>7. target = book \/ (UniverseDataOk(m) /\ target = parked)
  BY DEF OrElseBook
<1> QED
  BY <1>5, <1>6, <1>7

LEMMA PlanStep == RallyInv /\ Plan => RallyInv'
<1> SUFFICES ASSUME RallyInv, Plan
             PROVE  RallyInv'
  OBVIOUS
<1>1. TypeInv /\ MemoryInv
  BY DEF RallyInv
<1>2. UNCHANGED <<day, weight, history, ranked, seen, grew>>
  BY DEF Plan, memory
<1>3. TypeInv' /\ MemoryInv'
  BY <1>1, <1>2 DEF TypeInv, MemoryInv, DayOrNone, Recorded, Tops
<1>4. PICK m \in Markets, leaders \in kSubset(DefensiveSlots, Defensive) :
        LET book   == DefensiveBook(leaders)
            rows   == TrackRanking(m)
            chosen == ResolvePositions(m, Keep(m), Candidates(m, Keep(m), rows))
            risk   == IF Due THEN ScoreToWeights(m, chosen) ELSE Survivors(Keep(m))
            target == IF UniverseDataOk(m) THEN OrElseBook(ParkResidual(risk, book), book) ELSE book
        IN plan' = [pc      |-> "planned",
                    market  |-> m,
                    usable  |-> UniverseDataOk(m),
                    due     |-> Due,
                    bought  |-> FALSE,
                    chosen  |-> IF UniverseDataOk(m) /\ Due THEN chosen ELSE {},
                    budget  |-> SumFunction(target),
                    target  |-> Settle(target),
                    history |-> IF UniverseDataOk(m) THEN rows ELSE history,
                    ranked  |-> IF UniverseDataOk(m) /\ Due THEN day ELSE ranked]
  BY DEF Plan
<1>5. PICK book : book = DefensiveBook(leaders)
  OBVIOUS
<1>6. PICK rows : rows = TrackRanking(m)
  OBVIOUS
<1>7. PICK chosen : chosen = ResolvePositions(m, Keep(m), Candidates(m, Keep(m), rows))
  OBVIOUS
<1>8. PICK risk : risk = IF Due THEN ScoreToWeights(m, chosen) ELSE Survivors(Keep(m))
  OBVIOUS
<1>9. PICK target : target = IF UniverseDataOk(m) THEN OrElseBook(ParkResidual(risk, book), book) ELSE book
  OBVIOUS
<1> DEFINE usable == UniverseDataOk(m)
<1>10. plan' = [pc      |-> "planned",
                market  |-> m,
                usable  |-> usable,
                due     |-> Due,
                bought  |-> FALSE,
                chosen  |-> IF usable /\ Due THEN chosen ELSE {},
                budget  |-> SumFunction(target),
                target  |-> Settle(target),
                history |-> IF usable THEN rows ELSE history,
                ranked  |-> IF usable /\ Due THEN day ELSE ranked]
  BY <1>4, <1>5, <1>6, <1>7, <1>8, <1>9
<1>11. Candidates(m, Keep(m), rows) \in SUBSET RiskNames
  BY DEF Candidates, Eligible
<1>12. chosen \in SUBSET Candidates(m, Keep(m), rows)
  BY <1>7, <1>11, ChosenIsCandidate
<1>13. /\ target \in [Symbols -> Nat]
       /\ \A s \in RiskNames : target[s] > weight[s] => usable /\ Due /\ s \in chosen
       /\ SumFunction(target) <= Gross \/ \A s \in Symbols : target[s] <= weight[s]
  <2>1. leaders \in SUBSET Defensive
    BY DEF kSubset
  <2>2. chosen \in SUBSET RiskNames
    BY <1>11, <1>12
  <2> QED
    BY <1>1, <1>5, <1>8, <1>9, <2>1, <2>2, Aimed
<1>14. /\ Settle(target) \in [Symbols -> Nat]
       /\ \A s \in Symbols : target[s] <= weight[s] => Settle(target)[s] <= weight[s]
       /\ Fundable(Settle(target), target)
  BY <1>1, <1>13, Settled DEF TypeInv
<1>15. /\ DOMAIN rows = RiskNames
       /\ \A s \in RiskNames :
            /\ DOMAIN rows[s] \subseteq 0..day /\ day \in DOMAIN rows[s]
            /\ Tops(rows, s) \ {day} \subseteq seen[s]
  <2>1. DOMAIN rows = RiskNames
    BY <1>6 DEF TrackRanking
  <2>2. ASSUME NEW s \in RiskNames
        PROVE  /\ DOMAIN rows[s] \subseteq 0..day /\ day \in DOMAIN rows[s]
               /\ Tops(rows, s) \ {day} \subseteq seen[s]
    <3>1. \E value : rows[s] = Track(history[s], value)
      BY <1>6 DEF TrackRanking
    <3>2. PICK value : rows[s] = Track(history[s], value)
      BY <3>1
    <3>3. day \in Nat /\ DOMAIN history[s] \subseteq 0..day
      BY <1>1 DEF TypeInv, Recorded
    <3>4. /\ DOMAIN rows[s] \subseteq 0..day /\ day \in DOMAIN rows[s]
          /\ \A d \in DOMAIN rows[s] : d # day => d \in DOMAIN history[s] /\ rows[s][d] = history[s][d]
      BY <3>2, <3>3, Tracked
    <3>5. Tops(history, s) \subseteq seen[s]
      BY <1>1 DEF MemoryInv
    <3> QED
      BY <3>4, <3>5 DEF Tops
  <2> QED
    BY <2>1, <2>2
<1>16. \A s \in RiskNames : Settle(target)[s] > weight[s] => usable /\ Due /\ s \in chosen
  <2>1. TAKE s \in RiskNames
  <2>2. HAVE Settle(target)[s] > weight[s]
  <2>3. s \in Symbols
    BY DEF Symbols
  <2>4. target[s] \in Nat /\ weight[s] \in Nat /\ Settle(target)[s] \in Nat
    BY <1>1, <1>13, <1>14, <2>3 DEF TypeInv
  <2>5. target[s] > weight[s]
    BY <1>14, <2>2, <2>3, <2>4
  <2> QED
    BY <1>13, <2>5
<1>17. (\E s \in RiskNames : Settle(target)[s] > weight[s]) => MayBuy'
  <2>1. SUFFICES ASSUME NEW s \in RiskNames, Settle(target)[s] > weight[s]
                 PROVE  MayBuy'
    OBVIOUS
  <2>2. usable /\ Due
    BY <1>16, <2>1
  <2>3. plan'.ranked = day /\ plan'.usable
    BY <1>10, <2>2
  <2> QED
    BY <1>2, <2>2, <2>3 DEF MayBuy, Due, SessionsSince
<1>18. SettledBeforeEntry'
  <2>1. SUFFICES ASSUME NEW s \in RiskNames, weight[s] = 0, Settle(target)[s] > 0
                 PROVE  Cardinality((seen[s] \ {day}) \cup (IF plan'.history[s][day] = 1 THEN {day} ELSE {}))
                          >= MinDays
    BY <1>2, <1>10 DEF SettledBeforeEntry, Planned
  <2> DEFINE days == (seen[s] \ {day}) \cup (IF rows[s][day] = 1 THEN {day} ELSE {})
  <2>2. usable /\ Due /\ s \in chosen
    BY <1>16, <2>1
  <2>3. plan'.history = rows
    BY <1>10, <2>2
  <2>4. s \notin Keep(m)
    BY <2>1 DEF Keep, Held
  <2>5. Cardinality(Tops(rows, s)) >= MinDays
    BY <1>12, <2>2, <2>4 DEF Candidates, MayEnter, QualifyingDays, Tops
  <2>6. Tops(rows, s) \in SUBSET days
    BY <1>15 DEF Tops
  <2>7. IsFiniteSet(days)
    <3>1. day \in Nat /\ days \in SUBSET (0..day)
      BY <1>1 DEF TypeInv
    <3>2. IsFiniteSet(0..day)
      BY <3>1, FS_Interval
    <3> QED
      BY <3>1, <3>2, FS_Subset
  <2> HIDE DEF days
  <2>8. Cardinality(Tops(rows, s)) <= Cardinality(days)
    BY <2>6, <2>7, FS_Subset
  <2>9. Cardinality(Tops(rows, s)) \in Nat /\ Cardinality(days) \in Nat /\ MinDays \in Int
    BY <2>6, <2>7, FS_Subset, FS_CardinalityType, RallyAssumption
  <2>10. Cardinality(days) >= MinDays
    BY <2>5, <2>8, <2>9
  <2> QED
    BY <2>3, <2>10 DEF days
<1>19. PlanFundable'
  <2>1. plan'.target = Settle(target) /\ plan'.budget = SumFunction(target)
    BY <1>10
  <2>2. CASE \A s \in Symbols : Settle(target)[s] <= weight[s]
    BY <1>2, <2>1, <2>2 DEF PlanFundable
  <2>3. CASE SumFunction(Settle(target)) <= SumFunction(target) /\ SumFunction(target) <= Gross
    BY <2>1, <2>3 DEF PlanFundable
  <2> QED
    BY <1>13, <1>14, <2>2, <2>3 DEF Fundable
<1>20. PlanInv'
  <2>1. /\ plan'.pc = "planned" /\ plan'.target = Settle(target) /\ plan'.usable = usable
        /\ plan'.history = (IF usable THEN rows ELSE history)
        /\ plan'.ranked \in {ranked, day} /\ DOMAIN plan' = PlanFields
    BY <1>10 DEF PlanFields
  <2>2. usable \in BOOLEAN
    BY DEF UniverseDataOk
  <2>3. Recorded(history) /\ \A s \in RiskNames : Tops(history, s) \subseteq seen[s]
    BY <1>1 DEF TypeInv, MemoryInv
  <2> HIDE DEF usable
  <2>4. /\ Recorded(plan.history)' /\ \A s \in RiskNames : Tops(plan'.history, s) \ {day} \subseteq seen[s]
        /\ IF usable THEN \A s \in RiskNames : day \in DOMAIN plan'.history[s] ELSE plan'.history = history
    BY <1>2, <1>15, <2>1, <2>3 DEF Recorded, Tops
  <2> QED
    BY <1>2, <1>14, <1>17, <1>18, <1>19, <2>1, <2>2, <2>4 DEF PlanInv, Tops
<1> QED
  BY <1>3, <1>20 DEF RallyInv

LEMMA PlaceOrdersStep == RallyInv /\ PlaceOrders => RallyInv'
<1> SUFFICES ASSUME RallyInv, PlaceOrders
             PROVE  RallyInv'
  OBVIOUS
<1>1. TypeInv /\ MemoryInv /\ plan.pc = "planned" /\ plan # NoPlan
  BY DEF RallyInv, PlaceOrders, NoPlan
<1>2. UNCHANGED <<day, history, ranked, seen, grew>>
  BY DEF PlaceOrders, memory
<1>3. /\ DOMAIN plan = PlanFields /\ plan.target \in [Symbols -> Nat]
      /\ (\E s \in RiskNames : plan.target[s] > weight[s]) => MayBuy
      /\ Recorded(plan.history) /\ plan.ranked \in {ranked, day} /\ plan.usable \in BOOLEAN
      /\ \A s \in RiskNames : Tops(plan.history, s) \ {day} \subseteq seen[s]
      /\ IF plan.usable THEN \A s \in RiskNames : day \in DOMAIN plan.history[s]
                        ELSE plan.history = history
  BY <1>1 DEF RallyInv, PlanInv
<1>4. PICK filled \in SUBSET {s \in Symbols : plan.target[s] # weight[s]} :
        /\ weight' = [s \in Symbols |-> IF s \in filled THEN plan.target[s] ELSE weight[s]]
        /\ plan' = [plan EXCEPT !.pc = "placed", !.bought =
                     \E s \in filled \cap RiskNames : plan.target[s] > weight[s]]
  BY DEF PlaceOrders
<1> DEFINE bought == \E s \in filled \cap RiskNames : plan.target[s] > weight[s]
<1>5. weight' \in [Symbols -> Nat]
  BY <1>1, <1>3, <1>4 DEF TypeInv
<1>6. TypeInv' /\ MemoryInv'
  BY <1>1, <1>2, <1>5 DEF TypeInv, MemoryInv, DayOrNone, Recorded, Tops
<1>7. /\ plan'.pc = "placed" /\ plan'.bought = bought
      /\ plan'.target = plan.target /\ plan'.usable = plan.usable
      /\ plan'.history = plan.history /\ plan'.ranked = plan.ranked
  <2> HIDE DEF bought
  <2>1. plan' = [plan EXCEPT !.pc = "placed", !.bought = bought]
    BY <1>4 DEF bought
  <2> QED
    BY <1>3, <2>1 DEF PlanFields
<1>8. bought \in BOOLEAN /\ (bought => MayBuy)
  BY <1>3
<1> HIDE DEF bought
<1>9. bought => MayBuy'
  BY <1>2, <1>7, <1>8 DEF MayBuy, SessionsSince
<1>10. PlanInv'
  BY <1>2, <1>3, <1>7, <1>8, <1>9 DEF PlanInv, Recorded, Tops
<1> QED
  BY <1>6, <1>10 DEF RallyInv

LEMMA CommitStep == RallyInv /\ Commit => RallyInv'
<1> SUFFICES ASSUME RallyInv, Commit
             PROVE  RallyInv'
  OBVIOUS
<1>1. TypeInv /\ MemoryInv /\ plan.pc = "placed" /\ plan # NoPlan
  BY DEF RallyInv, Commit, NoPlan
<1>2. /\ history' = plan.history /\ ranked' = plan.ranked /\ plan' = NoPlan
      /\ seen' = [s \in RiskNames |->
                    IF ~plan.usable THEN seen[s]
                    ELSE IF plan.history[s][day] = 1 THEN seen[s] \cup {day} ELSE seen[s] \ {day}]
      /\ grew' = IF plan.bought THEN day ELSE grew
      /\ UNCHANGED <<day, weight>>
  BY DEF Commit
<1>3. /\ Recorded(plan.history) /\ plan.ranked \in {ranked, day} /\ plan.usable \in BOOLEAN
      /\ \A s \in RiskNames : Tops(plan.history, s) \ {day} \subseteq seen[s]
      /\ IF plan.usable THEN \A s \in RiskNames : day \in DOMAIN plan.history[s]
                        ELSE plan.history = history
      /\ plan.bought \in BOOLEAN /\ (plan.bought => MayBuy)
  BY <1>1 DEF RallyInv, PlanInv
<1>4. TypeInv'
  BY <1>1, <1>2, <1>3 DEF TypeInv, DayOrNone, Recorded
<1>5. MemoryInv'
  <2>1. ASSUME NEW s \in RiskNames
        PROVE  Tops(plan.history, s) \subseteq seen'[s]
    <3>1. CASE plan.usable
      BY <1>2, <1>3, <3>1 DEF Tops
    <3>2. CASE ~plan.usable
      BY <1>1, <1>2, <1>3, <3>2 DEF MemoryInv
    <3> QED
      BY <3>1, <3>2
  <2>2. grew' # None => ranked' # None /\ grew' <= ranked'
    <3>1. CASE plan.bought
      <4>1. grew' = day /\ ranked' = day /\ day \in Nat
        BY <1>1, <1>2, <1>3, <3>1 DEF MayBuy, TypeInv
      <4> QED
        BY <4>1 DEF None
    <3>2. CASE ~plan.bought
      BY <1>1, <1>2, <1>3, <3>2 DEF MemoryInv, TypeInv, DayOrNone, None
    <3> QED
      BY <3>1, <3>2
  <2> QED
    BY <1>2, <2>1, <2>2 DEF MemoryInv, Tops
<1> QED
  BY <1>2, <1>4, <1>5 DEF RallyInv, PlanInv, NoPlan

LEMMA NewDayStep == RallyInv /\ NewDay => RallyInv'
<1> SUFFICES ASSUME RallyInv, NewDay
             PROVE  RallyInv'
  OBVIOUS
<1>1. TypeInv /\ MemoryInv
  BY DEF RallyInv
<1>2. day' = day + 1 /\ plan = NoPlan /\ UNCHANGED <<history, ranked, plan, seen, grew>>
  BY DEF NewDay, memory
<1>3. weight' \in [Symbols -> Nat]
  <2>1. PICK s \in RiskNames, d \in {0, Drift, -Drift} :
          weight' = [weight EXCEPT ![s] = IF @ + d > 0 /\ @ > 0 THEN @ + d ELSE @]
    BY DEF NewDay
  <2>2. d \in Int /\ s \in Symbols
    BY RallyAssumption DEF Symbols
  <2> QED
    BY <1>1, <2>1, <2>2 DEF TypeInv
<1>4. TypeInv'
  <2>1. day \in Nat /\ day' \in Nat /\ 0..day \subseteq 0..day'
    BY <1>1, <1>2 DEF TypeInv
  <2> QED
    BY <1>1, <1>2, <1>3, <2>1 DEF TypeInv, DayOrNone, Recorded
<1>5. MemoryInv'
  BY <1>1, <1>2 DEF MemoryInv, Tops
<1> QED
  BY <1>2, <1>4, <1>5 DEF RallyInv, PlanInv

LEMMA OtherSteps == RallyInv /\ (Abandon \/ UNCHANGED vars) => RallyInv'
<1> SUFFICES ASSUME RallyInv, Abandon \/ UNCHANGED vars
             PROVE  RallyInv'
  OBVIOUS
<1>1. TypeInv /\ MemoryInv /\ PlanInv
  BY DEF RallyInv
<1>2. UNCHANGED <<day, weight, history, ranked, seen, grew>> /\ (plan' = NoPlan \/ plan' = plan)
  BY DEF Abandon, vars, memory
<1>3. TypeInv' /\ MemoryInv'
  BY <1>1, <1>2 DEF TypeInv, MemoryInv, DayOrNone, Recorded, Tops
<1>4. PlanInv'
  <2>1. CASE plan' = NoPlan
    BY <2>1 DEF PlanInv
  <2>2. CASE plan' = plan
    BY <1>1, <1>2, <2>2
       DEF PlanInv, Recorded, Tops, MayBuy, SessionsSince, SettledBeforeEntry, PlanFundable, Planned
  <2> QED
    BY <1>2, <2>1, <2>2
<1> QED
  BY <1>3, <1>4 DEF RallyInv

\* The inductive invariant: what is remembered was seen, and a run in hand keeps to it.
THEOREM RotationIsRemembered == Spec => []RallyInv
<1>1. RallyInv /\ [Next]_vars => RallyInv'
  BY PlanStep, PlaceOrdersStep, CommitStep, NewDayStep, OtherSteps DEF Next
<1> QED
  BY <1>1, InitRally, PTL DEF Spec

-----------------------------------------------------------------------------
(* What follows from it *)

\* A name is bought only after it ranked at the top on MinDays days of runs that were saved, the
\* run at hand included, whatever died before saving and however often the schedule fired.
THEOREM SettlingIsServed == Spec => []SettledBeforeEntry
<1>1. RallyInv => SettledBeforeEntry
  BY DEF RallyInv, PlanInv, SettledBeforeEntry, Planned, NoPlan
<1> QED
  BY <1>1, RotationIsRemembered, PTL

\* Between two sessions on which risk names are bought lies the interval, in sessions.
THEOREM PurchasesAreSpaced == Spec => []GrowthIsPaced
<1>1. RallyInv => GrowthIsPaced
  <2> SUFFICES ASSUME RallyInv, plan.pc = "placed", plan.bought, grew # None
               PROVE  SessionsSince(grew) >= Interval
    BY DEF GrowthIsPaced
  <2>1. MayBuy /\ ranked # None /\ grew <= ranked
    BY DEF RallyInv, PlanInv, MemoryInv, NoPlan
  <2>2. day \in Nat /\ grew \in 0..day /\ ranked \in 0..day
    BY <2>1 DEF RallyInv, TypeInv, DayOrNone
  <2> DEFINE since(d) == {e \in (d + 1)..day : IsWeekday(e)}
  <2>3. since(ranked) \in SUBSET since(grew) /\ since(grew) \in SUBSET ((grew + 1)..day)
    <3> HIDE DEF IsWeekday
    <3> QED
      BY <2>1, <2>2
  <2>4. IsFiniteSet(since(grew))
    <3>1. IsFiniteSet((grew + 1)..day)
      BY <2>2, FS_Interval
    <3> HIDE DEF since
    <3> QED
      BY <2>3, <3>1, FS_Subset
  <2>5. SessionsSince(ranked) = Cardinality(since(ranked)) /\ SessionsSince(grew) = Cardinality(since(grew))
    BY DEF SessionsSince
  <2> HIDE DEF since
  <2>6. SessionsSince(ranked) <= SessionsSince(grew) /\ SessionsSince(ranked) \in Nat /\ SessionsSince(grew) \in Nat
    BY <2>3, <2>4, <2>5, FS_Subset, FS_CardinalityType
  <2>7. Interval = 0 \/ SessionsSince(ranked) >= Interval
    BY <2>1 DEF MayBuy
  <2>8. CASE Interval = 0
    BY <2>6, <2>8
  <2>9. CASE Interval # 0
    BY <2>6, <2>7, <2>9, RallyAssumption
  <2> QED
    BY <2>8, <2>9
<1> QED
  BY <1>1, RotationIsRemembered, PTL

\* A plan asks for no more than the book has, or it buys nothing at all.
THEOREM PurchasesArePaidFor == Spec => []PlanFundable
<1>1. RallyInv => PlanFundable
  BY DEF RallyInv, PlanInv, PlanFundable, Planned, NoPlan
<1> QED
  BY <1>1, RotationIsRemembered, PTL

=============================================================================
