---------------------------- MODULE AccountProofs ----------------------------
(***************************************************************************)
(* Proofs about the money of an account, at a broker (PlaceOrders) and in  *)
(* a backtest (Replay), for every set of symbols, every plan, history,     *)
(* dividend, price and configuration.  Both are sums: over the symbols of  *)
(* a batch, over the dividends of a replay.  The first part shows what     *)
(* SumFunction, a fold, amounts to, by the least set on which it would     *)
(* not; the batch and then the backtest follow.                            *)
(***************************************************************************)
EXTENDS PlaceOrders, Replay, FiniteSetTheorems, TLAPS

-----------------------------------------------------------------------------
(* Sums *)

\* The recursive function inside SumFunction: the sum over each subset of S.
Sums(f, S, G) ==
    G = [T \in SUBSET S |->
            IF T = {} THEN 0
            ELSE f[CHOOSE x \in T : TRUE] + G[T \ {CHOOSE x \in T : TRUE}]]

\* What SumFunction says, with its recursion named.
LEMMA SumIsChosen ==
    ASSUME NEW S, NEW f, DOMAIN f = S
    PROVE  SumFunction(f) = (CHOOSE G : Sums(f, S, G))[S]
BY DEF SumFunction, SumFunctionOnSet, FoldFunctionOnSet, MapThenFoldSet, Sums

\* A set of subsets of a finite set has a least one.
LEMMA LeastSubset ==
    ASSUME NEW S, IsFiniteSet(S), NEW Bad \in SUBSET SUBSET S, Bad # {}
    PROVE  \E T \in Bad : \A U \in Bad : U \subseteq T => U = T
<1>1. FiniteSubsetsOf(S) = SUBSET S
  BY FS_FiniteSubsetsOfFinite
<1>2. PICK T \in Bad : \A U \in Bad : ~(<<U, T>> \in StrictSubsetOrdering(S))
  BY <1>1, FS_StrictSubsetOrderingWellFounded, WFMin
<1>3. ASSUME NEW U \in Bad, U \subseteq T, U # T
      PROVE  FALSE
  <2>1. <<U, T>> \in StrictSubsetOrdering(S)
    BY <1>3 DEF StrictSubsetOrdering
  <2> QED
    BY <1>2, <2>1
<1> QED
  BY <1>3

\* Two such functions agree where what they sum does.
LEMMA SumsAgree ==
    ASSUME NEW S, IsFiniteSet(S), NEW A \in SUBSET S, NEW B \in SUBSET S,
           NEW f, NEW g, NEW G, NEW H, Sums(f, A, G), Sums(g, B, H),
           \A x \in A \cap B : f[x] = g[x]
    PROVE  \A T \in SUBSET (A \cap B) : G[T] = H[T]
<1> DEFINE Bad == {T \in SUBSET (A \cap B) : G[T] # H[T]}
<1>1. SUFFICES ASSUME Bad # {}
               PROVE  FALSE
  OBVIOUS
<1>2. PICK T \in Bad : \A U \in Bad : U \subseteq T => U = T
  <2>1. Bad \in SUBSET SUBSET S
    OBVIOUS
  <2> HIDE DEF Bad
  <2> QED
    BY <1>1, <2>1, LeastSubset
<1>3. CASE T = {}
  BY <1>2, <1>3 DEF Sums
<1>4. CASE T # {}
  <2> DEFINE c == CHOOSE x \in T : TRUE
  <2>1. c \in T
    BY <1>4
  <2>2. G[T] = f[c] + G[T \ {c}] /\ H[T] = g[c] + H[T \ {c}]
    BY <1>2, <1>4 DEF Sums
  <2>3. f[c] = g[c]
    BY <1>2, <2>1
  <2>4. G[T \ {c}] = H[T \ {c}]
    BY <1>2, <2>1
  <2> QED
    BY <1>2, <2>2, <2>3, <2>4
<1> QED
  BY <1>3, <1>4

\* There is such a function: it is put together from those of the smaller sets.
LEMMA SumsExist ==
    ASSUME NEW S, IsFiniteSet(S), NEW f \in [S -> Int]
    PROVE  \E G \in [SUBSET S -> Int] : Sums(f, S, G)
<1> DEFINE Has(T, G) == G \in [SUBSET T -> Int] /\ Sums(f, T, G)
           Bad == {T \in SUBSET S : ~\E G : Has(T, G)}
<1>1. SUFFICES ASSUME Bad # {}
               PROVE  FALSE
  OBVIOUS
<1>2. PICK T \in Bad : \A U \in Bad : U \subseteq T => U = T
  <2>1. Bad \in SUBSET SUBSET S
    OBVIOUS
  <2> HIDE DEF Bad
  <2> QED
    BY <1>1, <2>1, LeastSubset
<1>3. T # {}
  <2>1. ASSUME T = {}
        PROVE  Has(T, [U \in SUBSET T |-> 0])
    BY <2>1 DEF Sums
  <2> QED
    BY <1>2, <2>1
<1> DEFINE Of(U) == CHOOSE G : Has(U, G)
           c(U) == CHOOSE x \in U : TRUE
           Rest == T \ {c(T)}
           Sum(U) == IF U = T THEN f[c(T)] + Of(Rest)[Rest] ELSE Of(U)[U]
           G == [U \in SUBSET T |-> Sum(U)]
<1>4. \A U \in SUBSET T : U # {} => c(U) \in U
  OBVIOUS
<1>5. \A U \in SUBSET T : U # T => Has(U, Of(U))
  <2>1. TAKE U \in SUBSET T
  <2>2. HAVE U # T
  <2>3. \E H : Has(U, H)
    BY <1>2, <2>2
  <2> HIDE DEF Has
  <2> QED
    BY <2>3
<1>6. Rest \in SUBSET T /\ Rest # T /\ c(T) \in S
  BY <1>2, <1>3, <1>4
<1> HIDE DEF Of, c
<1>7. \A U \in SUBSET T : Sum(U) \in Int
  <2>1. \A U \in SUBSET T : U # T => Of(U)[U] \in Int
    <3>1. TAKE U \in SUBSET T
    <3>2. HAVE U # T
    <3>3. Of(U) \in [SUBSET U -> Int]
      BY <1>5, <3>2
    <3> QED
      BY <3>3
  <2>2. f[c(T)] \in Int /\ Of(Rest)[Rest] \in Int
    <3> HIDE DEF Rest
    <3> QED
      BY <1>6, <2>1
  <2>3. f[c(T)] + Of(Rest)[Rest] \in Int
    BY <2>2
  <2> HIDE DEF Rest
  <2> QED
    BY <2>1, <2>3
<1>8. \A U \in SUBSET T : Sum(U) = IF U = {} THEN 0 ELSE f[c(U)] + Sum(U \ {c(U)})
  <2>1. TAKE U \in SUBSET T
  <2>2. CASE U = T
    BY <1>3, <1>6, <2>2
  <2>3. CASE U # T
    <3>1. Has(U, Of(U)) /\ Sum(U) = Of(U)[U]
      BY <1>5, <2>3
    <3>2. CASE U = {}
      BY <3>1, <3>2 DEF Sums
    <3>3. CASE U # {}
      <4> DEFINE V == U \ {c(U)}
      <4>1. V \in SUBSET T /\ V # T /\ V \in SUBSET (U \cap V)
        BY <1>4, <2>3, <3>3
      <4>2. Has(V, Of(V)) /\ Sum(V) = Of(V)[V]
        BY <1>5, <4>1
      <4>3. Of(U)[U] = f[c(U)] + Of(U)[V]
        BY <3>1, <3>3 DEF Sums, c
      <4>4. Of(U)[V] = Of(V)[V]
        <5>1. U \in SUBSET S /\ V \in SUBSET S
          BY <1>2, <4>1
        <5> HIDE DEF V
        <5> QED
          BY <3>1, <4>1, <4>2, <5>1, SumsAgree
      <4> QED
        BY <3>1, <3>3, <4>2, <4>3, <4>4
    <3> QED
      BY <3>2, <3>3
  <2> QED
    BY <2>2, <2>3
<1>9. Has(T, G)
  <2> HIDE DEF Sum
  <2>1. \A U \in SUBSET T : G[U] = IF U = {} THEN 0 ELSE f[c(U)] + G[U \ {c(U)}]
    BY <1>8
  <2>2. G \in [SUBSET T -> Int]
    BY <1>7
  <2>3. G = [U \in SUBSET T |-> IF U = {} THEN 0 ELSE f[c(U)] + G[U \ {c(U)}]]
    <3> DEFINE H == [U \in SUBSET T |-> IF U = {} THEN 0 ELSE f[c(U)] + G[U \ {c(U)}]]
    <3>1. DOMAIN G = SUBSET T /\ DOMAIN H = SUBSET T
      OBVIOUS
    <3>2. \A U \in SUBSET T : G[U] = H[U]
      BY <2>1
    <3> QED
      BY <3>1, <3>2
  <2> QED
    BY <2>2, <2>3 DEF Sums, c
<1> QED
  BY <1>2, <1>9

\* It does not matter which element is taken first.
Splits(f, S, G) == \A T \in SUBSET S : \A x \in T : G[T] = f[x] + G[T \ {x}]

\* By the least set for which the order would matter.
LEMMA SumsSplit ==
    ASSUME NEW S, IsFiniteSet(S), NEW f \in [S -> Int], NEW G \in [SUBSET S -> Int], Sums(f, S, G)
    PROVE  Splits(f, S, G)
<1> DEFINE Bad == {T \in SUBSET S : \E x \in T : G[T] # f[x] + G[T \ {x}]}
<1>1. SUFFICES ASSUME Bad # {}
               PROVE  FALSE
  BY DEF Splits
<1>2. PICK T \in Bad : \A U \in Bad : U \subseteq T => U = T
  <2>1. Bad \in SUBSET SUBSET S
    OBVIOUS
  <2> HIDE DEF Bad
  <2> QED
    BY <1>1, <2>1, LeastSubset
<1>3. PICK x \in T : G[T] # f[x] + G[T \ {x}]
  BY <1>2
<1>4. PICK c \in T : G[T] = f[c] + G[T \ {c}]
  <2>1. T \in SUBSET S /\ T # {}
    BY <1>2, <1>3
  <2> DEFINE first == CHOOSE y \in T : TRUE
  <2>2. first \in T
    BY <2>1
  <2>3. G[T] = f[first] + G[T \ {first}]
    BY <2>1 DEF Sums
  <2> HIDE DEF first
  <2> QED
    BY <2>2, <2>3
<1>5. c # x
  BY <1>3, <1>4
<1>6. G[T \ {c}] = f[x] + G[T \ {x, c}]
  <2>1. T \ {c} \in SUBSET S /\ T \ {c} \subseteq T /\ T \ {c} # T /\ x \in T \ {c}
    BY <1>2, <1>3, <1>4, <1>5
  <2>2. (T \ {c}) \ {x} = T \ {x, c}
    OBVIOUS
  <2> QED
    BY <1>2, <2>1, <2>2
<1>7. G[T \ {x}] = f[c] + G[T \ {x, c}]
  <2>1. T \ {x} \in SUBSET S /\ T \ {x} \subseteq T /\ T \ {x} # T /\ c \in T \ {x}
    BY <1>2, <1>3, <1>4, <1>5
  <2>2. (T \ {x}) \ {c} = T \ {x, c}
    OBVIOUS
  <2> QED
    BY <1>2, <2>1, <2>2
<1>8. f[c] \in Int /\ f[x] \in Int /\ G[T \ {x, c}] \in Int
  BY <1>2, <1>3, <1>4
<1> QED
  BY <1>3, <1>4, <1>6, <1>7, <1>8

\* The sum over each part of S: additive, whatever the order.
SumsParts(f, S, G) ==
    /\ G \in [SUBSET S -> Int] /\ G[{}] = 0 /\ G[S] = SumFunction(f)
    /\ \A T \in SUBSET S : SumFunction(Restrict(f, T)) = G[T]
    /\ Splits(f, S, G)

\* Every finite sum of integers has it.
LEMMA SumOfParts ==
    ASSUME NEW S, IsFiniteSet(S), NEW f \in [S -> Int]
    PROVE  \E G : SumsParts(f, S, G)
<1>1. PICK G \in [SUBSET S -> Int] : Sums(f, S, G)
  BY SumsExist
<1>2. ASSUME NEW T \in SUBSET S
      PROVE  SumFunction(Restrict(f, T)) = G[T]
  <2>1. PICK h : h = Restrict(f, T)
    OBVIOUS
  <2>2. IsFiniteSet(T) /\ h \in [T -> Int] /\ DOMAIN h = T
    BY <2>1, FS_Subset DEF Restrict
  <2>3. \E H : Sums(h, T, H)
    BY <2>2, SumsExist
  <2>4. PICK H : Sums(h, T, H) /\ SumFunction(h) = H[T]
    BY <2>2, <2>3, SumIsChosen
  <2>5. \A x \in T \cap S : h[x] = f[x]
    BY <2>1 DEF Restrict
  <2>6. S \in SUBSET S /\ T \in SUBSET (T \cap S)
    OBVIOUS
  <2>7. H[T] = G[T]
    BY <1>1, <2>4, <2>5, <2>6, SumsAgree
  <2> QED
    BY <2>1, <2>4, <2>7
<1>3. SumFunction(f) = G[S]
  <2>1. f = Restrict(f, S)
    BY DEF Restrict
  <2> QED
    BY <1>2, <2>1
<1>4. G[{}] = 0
  BY <1>1 DEF Sums
<1>5. Splits(f, S, G)
  BY <1>1, SumsSplit
<1> QED
  BY <1>1, <1>2, <1>3, <1>4, <1>5 DEF SumsParts

\* A sum of integers is an integer.
LEMMA SumType ==
    ASSUME NEW S, IsFiniteSet(S), NEW f \in [S -> Int]
    PROVE  SumFunction(f) \in Int
<1>1. PICK G : SumsParts(f, S, G)
  BY SumOfParts
<1> QED
  BY <1>1 DEF SumsParts

\* One number changes, and the sum by as much.
OneChanges(f, g, S, s) ==
    /\ f \in [S -> Int] /\ g \in [S -> Int] /\ s \in S
    /\ \A x \in S \ {s} : g[x] = f[x]

\* By splitting off the one number.
LEMMA SumChange ==
    ASSUME NEW S, IsFiniteSet(S), NEW f, NEW g, NEW s, OneChanges(f, g, S, s)
    PROVE  SumFunction(g) = SumFunction(f) + g[s] - f[s]
<1> f \in [S -> Int] /\ g \in [S -> Int] /\ s \in S /\ \A x \in S \ {s} : g[x] = f[x]
  BY DEF OneChanges
<1>1. PICK G : SumsParts(f, S, G)
  BY SumOfParts
<1>2. PICK H : SumsParts(g, S, H)
  BY SumOfParts
<1>3. Restrict(f, S \ {s}) = Restrict(g, S \ {s})
  BY DEF Restrict
<1>4. S \ {s} \in SUBSET S /\ S \in SUBSET S
  OBVIOUS
<1>5. G[S \ {s}] = H[S \ {s}]
  BY <1>1, <1>2, <1>3, <1>4 DEF SumsParts
<1>6. G[S] = f[s] + G[S \ {s}] /\ H[S] = g[s] + H[S \ {s}]
  BY <1>1, <1>2, <1>4 DEF SumsParts, Splits
<1>7. f[s] \in Int /\ g[s] \in Int /\ G[S \ {s}] \in Int
  BY <1>1, <1>4 DEF SumsParts
<1> QED
  BY <1>1, <1>2, <1>5, <1>6, <1>7 DEF SumsParts

\* What is nowhere negative has no negative sum.
LEMMA SumNonNegative ==
    ASSUME NEW S, IsFiniteSet(S), NEW f \in [S -> Int], \A x \in S : f[x] >= 0
    PROVE  SumFunction(f) >= 0
<1>1. PICK G : SumsParts(f, S, G)
  BY SumOfParts
<1> DEFINE Bad == {T \in SUBSET S : ~(G[T] >= 0)}
<1> SUFFICES ASSUME ~(SumFunction(f) >= 0)
             PROVE  FALSE
  OBVIOUS
<1>2. S \in Bad
  <2>1. S \in SUBSET S
    OBVIOUS
  <2> QED
    BY <1>1, <2>1 DEF SumsParts
<1>3. PICK T \in Bad : \A U \in Bad : U \subseteq T => U = T
  <2>1. Bad \in SUBSET SUBSET S
    OBVIOUS
  <2> HIDE DEF Bad
  <2> QED
    BY <1>2, <2>1, LeastSubset
<1>4. PICK x \in T : TRUE
  <2>1. ~(G[T] >= 0) /\ G[{}] = 0
    BY <1>1, <1>3 DEF SumsParts
  <2> HIDE DEF Bad
  <2>2. T # {}
    BY <2>1
  <2> QED
    BY <2>2
<1>5. G[T] = f[x] + G[T \ {x}]
  BY <1>1, <1>3, <1>4 DEF SumsParts, Splits
<1>6. G[T \ {x}] >= 0 /\ G[T \ {x}] \in Int
  BY <1>1, <1>3, <1>4 DEF SumsParts
<1>7. f[x] >= 0 /\ f[x] \in Int
  BY <1>3, <1>4
<1> QED
  BY <1>3, <1>5, <1>6, <1>7

\* Only the part counts on which there is something to sum.
LEMMA SumOfPart ==
    ASSUME NEW S, IsFiniteSet(S), NEW f \in [S -> Int], NEW P \in SUBSET S,
           \A x \in S \ P : f[x] = 0
    PROVE  SumFunction(Restrict(f, P)) = SumFunction(f)
<1>1. PICK G : SumsParts(f, S, G)
  BY SumOfParts
<1> DEFINE Bad == {T \in SUBSET S : P \subseteq T /\ G[T] # G[P]}
<1> SUFFICES ASSUME SumFunction(Restrict(f, P)) # SumFunction(f)
             PROVE  FALSE
  OBVIOUS
<1>2. S \in Bad
  <2>1. S \in SUBSET S
    OBVIOUS
  <2> QED
    BY <1>1, <2>1 DEF SumsParts
<1>3. PICK T \in Bad : \A U \in Bad : U \subseteq T => U = T
  <2>1. Bad \in SUBSET SUBSET S
    OBVIOUS
  <2> HIDE DEF Bad
  <2> QED
    BY <1>2, <2>1, LeastSubset
<1>4. PICK x \in T \ P : TRUE
  <2>1. T # P /\ P \subseteq T
    BY <1>3
  <2> HIDE DEF Bad
  <2> QED
    BY <2>1
<1>5. G[T] = f[x] + G[T \ {x}] /\ f[x] = 0 /\ G[T \ {x}] \in Int
  BY <1>1, <1>3, <1>4 DEF SumsParts, Splits
<1>6. G[T \ {x}] = G[P]
  <2>1. T \ {x} \in SUBSET S /\ P \subseteq T \ {x} /\ T \ {x} \subseteq T /\ T \ {x} # T
    BY <1>3, <1>4
  <2> QED
    BY <1>3, <2>1
<1> QED
  BY <1>3, <1>5, <1>6

\* A sum of nothing but zeros is the sum of no part.
LEMMA SumOfZeros ==
    ASSUME NEW S, IsFiniteSet(S), NEW f \in [S -> Int], \A x \in S : f[x] = 0
    PROVE  SumFunction(f) = 0
<1>1. PICK G : SumsParts(f, S, G)
  BY SumOfParts
<1>2. {} \in SUBSET S
  OBVIOUS
<1>3. SumFunction(Restrict(f, {})) = 0
  BY <1>1, <1>2 DEF SumsParts
<1>4. SumFunction(Restrict(f, {})) = SumFunction(f)
  BY <1>2, SumOfPart
<1> QED
  BY <1>3, <1>4

-----------------------------------------------------------------------------
(* The invariant: a batch from the account it was read from to its answer *)

TypeInv ==
    /\ cash \in Int /\ held \in [Symbols -> Int] /\ equity \in Nat
    /\ phase \in {"idle", "size", "fund", "liquidate", "fit", "submit", "done"}
    /\ prices \in [Symbols -> Nat] /\ \A s \in Symbols : prices[s] \in {0, Mark[s]}
    /\ snap \in [power : Nat, held : [Symbols -> Int], equity : Nat]
    /\ delta \in [Symbols -> Int] /\ requested \in Int /\ budget \in Int /\ needed \in Int
    /\ freed \in [Symbols -> Nat] /\ funded \in [Symbols -> Nat] /\ remaining \in Int
    /\ refused \in BOOLEAN /\ disturbed \in BOOLEAN

\* The plan's changes are those of the account that was read, and only what has a price is traded.
PlanInv ==
    /\ phase # "idle" => plan \in Plans /\ snap.equity = SizingEquity
    /\ phase \in {"fund", "liquidate", "fit", "submit"} => Unpriced = {}
    /\ phase \in {"fund", "liquidate", "fit", "submit", "done"} /\ Unpriced = {} =>
         \A s \in Symbols : delta[s] = Planned(plan, snap.held, prices, snap.equity, s)
    /\ phase # "size" => \A s \in Symbols : delta[s] # 0 => prices[s] = Mark[s]

Value(quantity) == [s \in Symbols |-> quantity[s] * Mark[s]]

\* Until the first leg the account is as it was read, and what is spent is what the budget has left.
Unsent ==
    /\ sent = {} /\ lost = {} /\ skipped = {} /\ ~refused
    /\ ~disturbed => held = snap.held /\ BuyingPower = snap.power

FundInv ==
    /\ phase \in {"size", "fund", "liquidate", "fit"} => Unsent
    /\ phase = "fund" => freed = Nothing
    /\ phase \in {"fund", "liquidate"} => funded = Nothing
    /\ phase = "liquidate" => todo \subseteq Liquidable /\ \A s \in todo : freed[s] = 0
    /\ phase \in {"liquidate", "fit"} =>
         /\ requested = CostOfBuys
         /\ budget = Spendable + Proceeds + SumFunction(Value(freed)) /\ budget >= 0
    /\ phase = "fit" =>
         /\ todo \subseteq Buys /\ \A s \in todo : funded[s] = 0
         /\ budget < requested
         /\ remaining = budget - SumFunction(Value(funded)) /\ remaining >= 0

\* What is liquidated is held and not traded; a buy is cut and never enlarged.
LegsFit ==
    phase # "size" => \A s \in Symbols :
        /\ freed[s] > 0 => s \in Liquidable /\ (~disturbed => freed[s] <= snap.held[s])
        /\ funded[s] > 0 => s \in Buys /\ funded[s] <= delta[s]

\* What the legs the broker took have done to a holding.
Moved(s) ==
    (IF <<"free", s>> \in sent THEN -freed[s] ELSE 0)
      + (IF <<"sell", s>> \in sent THEN delta[s] ELSE 0)
      + (IF <<"buy", s>> \in sent THEN funded[s] ELSE 0)

Submitting == phase \in {"submit", "done"} \/ (phase = "idle" /\ status # "none")

LegInv ==
    Submitting =>
        /\ AllLegs(freed, funded) = todo \cup sent \cup lost \cup skipped
        /\ todo \cap (sent \cup lost \cup skipped) = {} /\ sent \cap (lost \cup skipped) = {}
        /\ phase # "submit" => todo = {}
        /\ \A l \in skipped : l[1] = "sell"
        /\ ~disturbed => \A s \in Symbols : held[s] = snap.held[s] + Moved(s)

\* The money that the legs still to come will bring, and take.
FreeLeft == [s \in Symbols |-> IF <<"free", s>> \in todo THEN freed[s] * Mark[s] ELSE 0]
SellLeft == [s \in Symbols |-> IF <<"sell", s>> \in todo /\ ~OpensShort(s) THEN -delta[s] * Mark[s] ELSE 0]
BuyLeft == [s \in Symbols |-> IF <<"buy", s>> \in todo THEN funded[s] * Mark[s] ELSE 0]

\* The reserve, or what there was of it.
Backed == AtMost(snap.power, Reserve)

\* With the account to itself, what the batch has and will get pays for what it will buy, and for the
\* reserve.
MoneyInv ==
    Quiet =>
        /\ lost = {} /\ skipped = {}
        /\ phase = "submit" =>
             BuyingPower + SumFunction(FreeLeft) + SumFunction(SellLeft) >= SumFunction(BuyLeft) + Backed
        /\ phase = "done" => BuyingPower >= Backed

StatusInv ==
    /\ phase \notin {"done", "idle"} => status = "none"
    /\ phase \in {"done", "idle"} =>
         \/ status \in {"error", "no_orders"} /\ sent = {} /\ lost = {}
         \/ status = Status /\ Submitting
         \/ status = "none" /\ phase = "idle"

BatchInv == TypeInv /\ PlanInv /\ FundInv /\ LegsFit /\ LegInv /\ MoneyInv /\ StatusInv

-----------------------------------------------------------------------------
(* Arithmetic *)

\* The products the prover does not find by itself.
LEMMA Products ==
    /\ \A a, b, m \in Int : (a + b) * m = a * m + b * m /\ (a - b) * m = a * m - b * m
    /\ \A a, m \in Int : a * m \in Int /\ (-a) * m = -(a * m)
    /\ \A m \in Int : 0 * m = 0
    /\ \A a, b \in Int, m \in Nat : a <= b => a * m <= b * m
<1>1. \A a, b, m \in Int : (a + b) * m = a * m + b * m /\ (a - b) * m = a * m - b * m
  BY SMTT(30)
<1>2. \A a, m \in Int : a * m \in Int /\ (-a) * m = -(a * m)
  BY SMTT(30)
<1>3. \A a \in Nat, m \in Nat : a * m >= 0
  BY SMTT(30)
<1>4. ASSUME NEW a \in Int, NEW b \in Int, NEW m \in Nat, a <= b
      PROVE  a * m <= b * m
  <2>1. b - a \in Nat
    BY <1>4
  <2>2. (b - a) * m >= 0
    BY <1>3, <2>1
  <2>3. (b - a) * m = b * m - a * m
    BY <1>1
  <2> QED
    BY <1>2, <2>2, <2>3
<1> QED
  BY <1>1, <1>2, <1>4

\* Division rounds down, and keeps the sign of what is not negative.
LEMMA Quotients ==
    ASSUME NEW n \in Int, NEW d \in Nat \ {0}
    PROVE  /\ n \div d \in Int
           /\ (n \div d) * d <= n
           /\ n >= 0 => n \div d >= 0
<1>1. n \div d \in Int /\ n = d * (n \div d) + (n % d) /\ n % d \in 0..(d - 1)
  BY SMTT(30)
<1>2. (n \div d) * d = d * (n \div d)
  BY <1>1, SMTT(30)
<1>3. ASSUME n >= 0
      PROVE  n \div d >= 0
  BY <1>3, SMTT(30)
<1> QED
  BY <1>1, <1>2, <1>3

\* What is paid for is less than what was asked: half of the quantity for half of the money.
LEMMA ProRata ==
    ASSUME NEW n \in Nat, NEW b \in Nat, NEW r \in Nat \ {0}, b <= r
    PROVE  (n * b) \div r \in Nat /\ (n * b) \div r <= n
<1> DEFINE w == (n * b) \div r
<1>1. n * b \in Nat /\ n * r \in Nat
  BY SMTT(30)
<1>2. w \in Int /\ w * r <= n * b /\ w >= 0
  BY <1>1, Quotients
<1>3. n * b <= n * r
  <2>1. n * b = b * n /\ n * r = r * n
    BY SMTT(30)
  <2> QED
    BY <2>1, Products
<1> HIDE DEF w
<1>4. ASSUME w > n
      PROVE  FALSE
  <2>1. (n + 1) * r <= w * r
    BY <1>2, <1>4, Products
  <2>2. (n + 1) * r = n * r + 1 * r /\ 1 * r = r
    BY Products, SMTT(30)
  <2>3. w * r \in Int /\ n * r \in Int /\ n * b \in Int
    BY <1>1, <1>2, Products
  <2> QED
    BY <1>2, <1>3, <2>1, <2>2, <2>3
<1>5. w \in Nat /\ w <= n
  BY <1>2, <1>4
<1> QED
  BY <1>5 DEF w

\* A finite set has a largest element in any order by number.
LEMMA Largest ==
    ASSUME NEW S, IsFiniteSet(S), NEW f \in [S -> Int], S # {}
    PROVE  \E m \in S : \A t \in S : f[t] <= f[m]
<1> DEFINE Has(T) == \E m \in T : \A t \in T : f[t] <= f[m]
           Bad == {T \in SUBSET S : T # {} /\ ~Has(T)}
<1>1. SUFFICES ASSUME Bad # {}
               PROVE  FALSE
  OBVIOUS
<1>2. PICK T \in Bad : \A U \in Bad : U \subseteq T => U = T
  <2>1. Bad \in SUBSET SUBSET S
    OBVIOUS
  <2> HIDE DEF Bad
  <2> QED
    BY <1>1, <2>1, LeastSubset
<1>3. PICK x \in T : TRUE
  BY <1>2
<1>4. T \ {x} = {} \/ Has(T \ {x})
  <2>1. T \ {x} \in SUBSET S /\ T \ {x} \subseteq T /\ T \ {x} # T
    BY <1>2, <1>3
  <2> HIDE DEF Has
  <2> QED
    BY <1>2, <2>1
<1>5. CASE T \ {x} = {}
  <2>1. \A t \in T : f[t] <= f[x]
    BY <1>2, <1>5
  <2> QED
    BY <1>2, <2>1
<1>6. CASE Has(T \ {x})
  <2>1. PICK m \in T \ {x} : \A t \in T \ {x} : f[t] <= f[m]
    BY <1>6
  <2>2. f[m] \in Int /\ f[x] \in Int /\ \A t \in T : f[t] \in Int
    BY <1>2
  <2>3. CASE f[x] <= f[m]
    <3>1. \A t \in T : f[t] <= f[m]
      BY <2>1, <2>3
    <3> QED
      BY <1>2, <2>1, <3>1
  <2>4. CASE ~(f[x] <= f[m])
    <3>1. \A t \in T : f[t] <= f[x]
      BY <2>1, <2>2, <2>4
    <3> QED
      BY <1>2, <1>3, <3>1
  <2> QED
    BY <2>3, <2>4
<1> QED
  BY <1>4, <1>5, <1>6

\* The order of the alphabet is well-founded.
LEMMA LeastIsIn ==
    ASSUME NEW S \in SUBSET Nat, IsFiniteSet(S), S # {}
    PROVE  Least(S) \in S
<1>1. PICK f : f = [s \in S |-> -s]
  OBVIOUS
<1>2. f \in [S -> Int]
  BY <1>1
<1>3. PICK m \in S : \A t \in S : f[t] <= f[m]
  BY <1>2, Largest
<1>4. \A t \in S : m <= t
  BY <1>1, <1>3
<1>5. \E s \in S : \A t \in S : s <= t
  BY <1>4
<1> QED
  BY <1>5 DEF Least

\* Every symbol has a price at the broker.
LEMMA Marks ==
    IsFiniteSet(Symbols) /\ Symbols \subseteq Nat
    /\ \A s \in Symbols : Mark[s] \in Nat \ {0} /\ Mark[s] \in Nat /\ Mark[s] \in Int /\ Mark[s] > 0
BY SymbolsAssumption

-----------------------------------------------------------------------------
(* Buying power *)

\* Of any account.
Power(c, h) == c - SumFunction([s \in Symbols |-> AtLeast(-h[s], 0) * Mark[s]])

\* The broker has filled q shares of s.
Fills(c, h, s, q, c2, h2) == c2 = c - q * Mark[s] /\ h2 = [h EXCEPT ![s] = @ + q]

\* A purchase takes its price at most, a sale out of what is held brings it, and a sale never takes
\* anything.
PowerFollows(c, h, s, q, c2, h2) ==
    /\ Power(c2, h2) \in Int
    /\ q >= 0 => Power(c2, h2) >= Power(c, h) - q * Mark[s]
    /\ q < 0 /\ h[s] + q >= 0 => Power(c2, h2) = Power(c, h) - q * Mark[s]
    /\ q < 0 => Power(c2, h2) >= Power(c, h)

\* A fill is at the mark.
LEMMA PowerMoves ==
    ASSUME NEW c \in Int, NEW h \in [Symbols -> Int], NEW s \in Symbols, NEW q \in Int,
           NEW c2, NEW h2, Fills(c, h, s, q, c2, h2)
    PROVE  c2 \in Int /\ h2 \in [Symbols -> Int] /\ PowerFollows(c, h, s, q, c2, h2)
<1> USE SymbolsAssumption
<1> c2 = c - q * Mark[s] /\ h2 = [h EXCEPT ![s] = @ + q]
  BY DEF Fills
<1>1. PICK f : f = [x \in Symbols |-> AtLeast(-h[x], 0) * Mark[x]]
  OBVIOUS
<1>2. PICK g : g = [x \in Symbols |-> AtLeast(-h2[x], 0) * Mark[x]]
  OBVIOUS
<1>3. h2 \in [Symbols -> Int] /\ h2[s] = h[s] + q /\ \A x \in Symbols \ {s} : h2[x] = h[x]
  OBVIOUS
<1>4. \A x \in Symbols : Mark[x] \in Nat /\ Mark[x] \in Int /\ h[x] \in Int /\ h2[x] \in Int
  BY <1>3
<1>5. f \in [Symbols -> Int] /\ g \in [Symbols -> Int]
  <2>1. \A n \in Int : AtLeast(-n, 0) \in Int
    BY DEF AtLeast
  <2>2. \A x \in Symbols : AtLeast(-h[x], 0) * Mark[x] \in Int /\ AtLeast(-h2[x], 0) * Mark[x] \in Int
    BY <1>4, <2>1, Products
  <2> QED
    BY <1>1, <1>2, <2>2
<1>6. SumFunction(g) = SumFunction(f) + g[s] - f[s] /\ SumFunction(f) \in Int /\ SumFunction(g) \in Int
  <2>1. OneChanges(f, g, Symbols, s)
    BY <1>1, <1>2, <1>3, <1>5 DEF OneChanges
  <2>2. IsFiniteSet(Symbols)
    OBVIOUS
  <2>3. SumFunction(f) \in Int /\ SumFunction(g) \in Int
    BY <1>5, <2>2, SumType
  <2>4. SumFunction(g) = SumFunction(f) + g[s] - f[s]
    BY <2>1, <2>2, SumChange
  <2> QED
    BY <2>3, <2>4
<1>7. f[s] = AtLeast(-h[s], 0) * Mark[s] /\ g[s] = AtLeast(-(h[s] + q), 0) * Mark[s]
  BY <1>1, <1>2, <1>3
<1>8. Power(c, h) = c - SumFunction(f) /\ Power(c2, h2) = c2 - SumFunction(g)
  BY <1>1, <1>2 DEF Power
<1>9. PICK a \in Int, b \in Int, m \in Nat, n \in Int :
         /\ a = AtLeast(-h[s], 0) /\ b = AtLeast(-(h[s] + q), 0) /\ m = Mark[s] /\ n = h[s]
  BY <1>4 DEF AtLeast
<1>10. f[s] = a * m /\ g[s] = b * m /\ c2 = c - q * m
  BY <1>7, <1>9
<1>11. a * m \in Int /\ b * m \in Int /\ q * m \in Int
  BY Products
<1>12. c2 \in Int /\ Power(c2, h2) \in Int /\ Power(c, h) \in Int
       /\ Power(c2, h2) = Power(c, h) - q * m - b * m + a * m
  BY <1>6, <1>8, <1>10, <1>11
<1>13. ASSUME q >= 0
       PROVE  Power(c2, h2) >= Power(c, h) - q * m
  <2>1. b <= a
    BY <1>4, <1>9, <1>13 DEF AtLeast
  <2>2. b * m <= a * m
    BY <2>1, Products
  <2> QED
    BY <1>11, <1>12, <2>2
<1>14. ASSUME q < 0, h[s] + q >= 0
       PROVE  Power(c2, h2) = Power(c, h) - q * m
  <2>1. a = 0 /\ b = 0
    BY <1>4, <1>9, <1>14 DEF AtLeast
  <2>2. a * m = 0 /\ b * m = 0
    BY <2>1, Products
  <2> QED
    BY <1>11, <1>12, <2>2
<1>15. ASSUME q < 0
       PROVE  Power(c2, h2) >= Power(c, h)
  <2>1. b + q <= a
    BY <1>4, <1>9, <1>15 DEF AtLeast
  <2>2. (b + q) * m <= a * m
    BY <2>1, Products
  <2>3. (b + q) * m = b * m + q * m
    BY Products
  <2> QED
    BY <1>11, <1>12, <2>2, <2>3
<1> QED
  BY <1>3, <1>9, <1>12, <1>13, <1>14, <1>15 DEF PowerFollows

\* Buying power is a number,
LEMMA PowerIsInt ==
    ASSUME NEW c \in Int, NEW h \in [Symbols -> Int]
    PROVE  Power(c, h) \in Int
<1>1. PICK f : f = [s \in Symbols |-> AtLeast(-h[s], 0) * Mark[s]]
  OBVIOUS
<1>2. \A s \in Symbols : AtLeast(-h[s], 0) * Mark[s] \in Int
  <2>1. \A s \in Symbols : AtLeast(-h[s], 0) \in Int
    BY DEF AtLeast
  <2> QED
    BY <2>1, Marks, Products
<1>3. f \in [Symbols -> Int]
  BY <1>1, <1>2
<1>4. SumFunction(f) \in Int
  BY <1>3, SumType, Marks
<1> QED
  BY <1>1, <1>4 DEF Power

\* and a function of cash and holdings.
LEMMA PowerIsPower ==
    BuyingPower = Power(cash, held) /\ BuyingPower' = Power(cash', held')
BY DEF BuyingPower, Power

-----------------------------------------------------------------------------
(* What the operations compute *)

\* A change has a price, whatever the plan, the account and the floor.
LEMMA PlannedIsPriced ==
    ASSUME NEW p \in Plans, NEW h \in [Symbols -> Int], NEW price \in [Symbols -> Nat],
           NEW worth \in Nat, NEW s \in Symbols
    PROVE  /\ Planned(p, h, price, worth, s) \in Int
           /\ Planned(p, h, price, worth, s) # 0 => price[s] # 0
<1> DEFINE target == Target(p, h, price, worth, s)
           change == target - h[s]
<1>1. CASE price[s] = 0
  BY <1>1 DEF Planned
<1>2. CASE price[s] # 0
  <2>1. price[s] \in Nat \ {0} /\ 100 * price[s] \in Nat \ {0} /\ h[s] \in Int
    BY <1>2, SMTT(30)
  <2>2. ASSUME NEW n \in Int, NEW d \in Nat \ {0}
        PROVE  RoundShares(n, d) \in Int
    <3>1. n \div d \in Int /\ (-n) \div d \in Int
      BY Quotients
    <3> QED
      BY <3>1 DEF RoundShares
  <2>3. ASSUME s \in DOMAIN p.intents
        PROVE  IntentShares(p.intents[s], price[s], worth) \in Int
    <3>1. PICK v \in Int : v = p.intents[s].value
      BY <2>3, PlansAssumption
    <3>2. worth * v \in Int
      BY Products
    <3>3. RoundShares(worth * v, 100 * price[s]) \in Int /\ RoundShares(v, price[s]) \in Int
      BY <2>1, <2>2, <3>2
    <3> QED
      BY <3>1, <3>3 DEF IntentShares
  <2>4. target \in Int
    BY <2>1, <2>3 DEF Target
  <2>5. change \in Int
    BY <2>1, <2>4
  <2> HIDE DEF change, target
  <2>6. Planned(p, h, price, worth, s) \in {0, change}
    BY DEF Planned, change, target
  <2> QED
    BY <1>2, <2>5, <2>6
<1> QED
  BY <1>1, <1>2

\* No more is liquidated than is held.
LEMMA FreeingIsHeld ==
    ASSUME TypeInv, NEW s \in Symbols, needed > 0, held[s] > 0
    PROVE  Freeing(s) \in Nat /\ Freeing(s) <= held[s]
<1>1. Mark[s] \in Nat \ {0}
  BY SymbolsAssumption
<1>2. 1000 * Mark[s] \in Nat \ {0}
  BY <1>1, SMTT(30)
<1>3. PICK d \in Nat \ {0} : d = 1000 * Mark[s]
  BY <1>2
<1>4. needed + d - 1 \in Int /\ needed + d - 1 >= 0 /\ needed \in Int /\ held[s] \in Int
  BY DEF TypeInv
<1>5. (needed + d - 1) \div d \in Int /\ (needed + d - 1) \div d >= 0
  BY <1>4, Quotients
<1>6. CeilDiv(needed, d) \in Nat
  BY <1>5 DEF CeilDiv
<1>7. Freeing(s) = AtMost(held[s], CeilDiv(needed, d))
  BY <1>3 DEF Freeing
<1> QED
  BY <1>4, <1>6, <1>7 DEF AtMost

\* A buy is fitted to what is left of the budget, and is not enlarged.
LEMMA FittedIsPaid ==
    ASSUME TypeInv, PlanInv, FundInv, phase = "fit", NEW s \in todo
    PROVE  /\ Fitted(s) \in Nat /\ Fitted(s) <= delta[s]
           /\ Cost(s, Fitted(s)) \in Nat /\ Cost(s, Fitted(s)) <= remaining
<1>1. s \in Symbols /\ delta[s] \in Nat /\ delta[s] > 0 /\ budget < requested
  BY DEF FundInv, TypeInv, Buys
<1>2. budget \in Nat /\ requested \in Nat \ {0} /\ remaining \in Nat
  BY <1>1 DEF FundInv, TypeInv
<1>3. prices[s] \in Nat \ {0}
  BY <1>1, SymbolsAssumption DEF PlanInv
<1>4. Wished(s) \in Nat /\ Wished(s) <= delta[s]
  <2>1. CASE plan.mode = "incremental"
    BY <1>1, <2>1 DEF Wished
  <2>2. CASE plan.mode # "incremental"
    <3>1. (delta[s] * budget) \div requested \in Nat /\ (delta[s] * budget) \div requested <= delta[s]
      BY <1>1, <1>2, ProRata
    <3> QED
      BY <2>2, <3>1 DEF Wished
  <2> QED
    BY <2>1, <2>2
<1>5. PICK w \in Nat, d \in Nat \ {0} : w = Wished(s) /\ d = prices[s]
  BY <1>3, <1>4
<1>6. w * d \in Nat
  BY SMTT(30)
<1>7. CASE w * d <= remaining
  <2>1. Fitted(s) = w
    BY <1>2, <1>5, <1>6, <1>7 DEF Fitted, Cost
  <2> QED
    BY <1>4, <1>5, <1>6, <1>7, <2>1 DEF Cost
<1>8. CASE ~(w * d <= remaining)
  <2>1. PICK v : v = remaining \div d
    OBVIOUS
  <2>2. v \in Nat /\ v * d <= remaining
    BY <1>2, <2>1, Quotients
  <2>3. Fitted(s) = v
    BY <1>2, <1>5, <1>6, <1>8, <2>1 DEF Fitted, Cost
  <2>4. v <= w
    <3>1. ASSUME w <= v
          PROVE  w * d <= v * d
      BY <2>2, <3>1, Products
    <3>2. v * d \in Int
      BY <2>2, Products
    <3> QED
      BY <1>2, <1>6, <1>8, <2>2, <3>1, <3>2
  <2>5. v * d \in Nat
    BY <2>2, SMTT(30)
  <2> QED
    BY <1>1, <1>4, <1>5, <2>2, <2>3, <2>4, <2>5 DEF Cost
<1> QED
  BY <1>7, <1>8

\* The next buy is one of those to come.
LEMMA NextBuyIsOne ==
    ASSUME TypeInv, FundInv, phase = "fit", todo # {}
    PROVE  NextBuy \in todo
<1>1. todo \in SUBSET Symbols /\ IsFiniteSet(todo) /\ todo \in SUBSET Nat
  BY FS_Subset, SymbolsAssumption DEF FundInv, Buys
<1>2. Least(todo) \in todo
  BY <1>1, LeastIsIn
<1> DEFINE Dearest == {s \in todo : \A t \in todo : Cost(t, delta[t]) <= Cost(s, delta[s])}
<1>3. Dearest # {}
  <2>1. PICK f : f = [s \in todo |-> Cost(s, delta[s])]
    OBVIOUS
  <2>2. f \in [todo -> Int]
    <3>1. \A s \in todo : delta[s] \in Int /\ prices[s] \in Int
      BY <1>1 DEF TypeInv
    <3>2. \A s \in todo : Cost(s, delta[s]) \in Int
      BY <3>1, Products DEF Cost
    <3> QED
      BY <2>1, <3>2
  <2>3. PICK m \in todo : \A t \in todo : f[t] <= f[m]
    BY <1>1, <2>2, Largest
  <2> QED
    BY <2>1, <2>3
<1>4. Dearest \in SUBSET Nat /\ IsFiniteSet(Dearest) /\ Dearest \subseteq todo
  BY <1>1, FS_Subset
<1>5. Least(Dearest) \in todo
  <2> HIDE DEF Dearest
  <2> QED
    BY <1>3, <1>4, LeastIsIn
<1> QED
  BY <1>2, <1>5 DEF NextBuy

\* So is the next of the holdings that can be liquidated.
LEMMA NextFreedIsOne ==
    ASSUME TypeInv, FundInv, phase = "liquidate", todo # {}
    PROVE  Least(todo) \in todo /\ Least(todo) \in Symbols
<1>1. todo \in SUBSET Symbols /\ IsFiniteSet(todo) /\ todo \in SUBSET Nat
  BY FS_Subset, SymbolsAssumption DEF FundInv, Liquidable
<1> QED
  BY <1>1, LeastIsIn

\* The sums of the buys and of the sells that bring money, taken over all symbols.
Bought == [s \in Symbols |-> AtLeast(delta[s], 0)]
SoldFor == [s \in Symbols |-> IF s \in Sells /\ ~OpensShort(s) THEN -delta[s] * Mark[s] ELSE 0]

\* The sums of the code, over the buys and over the sells, are sums over all symbols.
LEMMA SumsOfTheBatch ==
    ASSUME TypeInv, \A s \in Symbols : delta[s] # 0 => prices[s] = Mark[s]
    PROVE  CostOfBuys = SumFunction(Value(Bought)) /\ Proceeds = SumFunction(SoldFor)
<1>1. PICK f : f = Value(Bought)
  OBVIOUS
<1>2. PICK g : g = SoldFor
  OBVIOUS
<1>3. \A s \in Symbols : delta[s] \in Int /\ Mark[s] \in Nat /\ Mark[s] \in Int /\ prices[s] \in Nat
  BY SymbolsAssumption DEF TypeInv
<1>4. f \in [Symbols -> Int] /\ \A s \in Symbols : f[s] = AtLeast(delta[s], 0) * Mark[s]
  <2>1. \A s \in Symbols : AtLeast(delta[s], 0) \in Int
    BY <1>3 DEF AtLeast
  <2>2. \A s \in Symbols : AtLeast(delta[s], 0) * Mark[s] \in Int
    BY <1>3, <2>1, Products
  <2> QED
    BY <1>1, <2>2 DEF Value, Bought
<1>5. g \in [Symbols -> Int]
  <2>1. \A s \in Symbols : -delta[s] * Mark[s] \in Int
    BY <1>3, Products
  <2> QED
    BY <1>2, <2>1 DEF SoldFor
<1>6. IsFiniteSet(Symbols)
  BY SymbolsAssumption
<1>7. CostOfBuys = SumFunction(f)
  <2>1. \A s \in Symbols \ Buys : f[s] = 0
    BY <1>3, <1>4, Products DEF Buys, AtLeast
  <2>2. \A s \in Buys : s \in Symbols /\ f[s] = Cost(s, delta[s])
    BY <1>3, <1>4 DEF Buys, AtLeast, Cost
  <2>3. Buys \in SUBSET Symbols
    BY DEF Buys
  <2>4. [s \in Buys |-> Cost(s, delta[s])] = Restrict(f, Buys)
    BY <2>2 DEF Restrict
  <2>5. SumFunction(Restrict(f, Buys)) = SumFunction(f)
    BY <1>4, <1>6, <2>1, <2>3, SumOfPart
  <2> QED
    BY <2>4, <2>5 DEF CostOfBuys
<1>8. Proceeds = SumFunction(g)
  <2> DEFINE P == {t \in Sells : ~OpensShort(t)}
  <2>1. P \in SUBSET Symbols
    BY DEF Sells
  <2>2. \A s \in Symbols \ P : g[s] = 0
    BY <1>2 DEF SoldFor
  <2>3. \A s \in P : g[s] = Cost(s, -delta[s])
    <3>1. \A s \in P : s \in Symbols /\ g[s] = -delta[s] * Mark[s] /\ prices[s] = Mark[s]
      BY <1>2, <1>3 DEF SoldFor, Sells
    <3> HIDE DEF P
    <3>2. \A s \in P : (-delta[s]) * Mark[s] = -(delta[s] * Mark[s])
      BY <1>3, <3>1, Products
    <3> QED
      BY <3>1, <3>2 DEF Cost
  <2> HIDE DEF P
  <2>4. [s \in P |-> Cost(s, -delta[s])] = Restrict(g, P)
    BY <2>3 DEF Restrict
  <2>5. SumFunction(Restrict(g, P)) = SumFunction(g)
    BY <1>5, <1>6, <2>1, <2>2, SumOfPart
  <2> QED
    BY <2>4, <2>5 DEF Proceeds, P
<1> QED
  BY <1>1, <1>2, <1>7, <1>8

\* What is kept back and what may be spent is what there is.
LEMMA ReserveSplits ==
    ASSUME TypeInv
    PROVE  /\ Spendable \in Nat /\ Backed \in Nat /\ Backed <= snap.power
           /\ Spendable + Backed = snap.power
<1>1. snap.equity \in Nat /\ snap.power \in Nat /\ Buffer \in Nat
  BY MoneyAssumption DEF TypeInv
<1>2. snap.equity * Buffer \in Nat
  BY <1>1, SMTT(30)
<1>3. PICK n \in Nat : n = snap.equity * Buffer + 100 - 1
  BY <1>2
<1>4. n \div 100 \in Int /\ n \div 100 >= 0
  BY Quotients
<1>5. Reserve \in Nat
  BY <1>3, <1>4 DEF Reserve, CeilDiv
<1> QED
  BY <1>1, <1>5 DEF Spendable, Backed, AtLeast, AtMost

\* What so many shares of each are worth.
LEMMA ValueIsSum ==
    ASSUME NEW q \in [Symbols -> Nat]
    PROVE  /\ Value(q) \in [Symbols -> Int] /\ SumFunction(Value(q)) \in Int
           /\ SumFunction(Value(q)) >= 0
           /\ \A s \in Symbols : Value(q)[s] = q[s] * Mark[s]
<1>1. PICK f : f = Value(q)
  OBVIOUS
<1>2. \A s \in Symbols : q[s] * Mark[s] \in Int /\ q[s] * Mark[s] >= 0
  <2>1. \A a \in Nat, b \in Nat : a * b \in Int /\ a * b >= 0
    BY SMTT(30)
  <2> QED
    BY <2>1, SymbolsAssumption
<1>3. f \in [Symbols -> Int] /\ \A s \in Symbols : f[s] = q[s] * Mark[s]
  BY <1>1, <1>2 DEF Value
<1>4. IsFiniteSet(Symbols) /\ \A s \in Symbols : f[s] >= 0
  BY <1>2, <1>3, SymbolsAssumption
<1>5. SumFunction(f) \in Int /\ SumFunction(f) >= 0
  BY <1>3, <1>4, SumType, SumNonNegative
<1> QED
  BY <1>1, <1>3, <1>5

\* Nothing is worth nothing.
LEMMA ValueOfNothing ==
    SumFunction(Value(Nothing)) = 0
<1>1. PICK f : f = Value(Nothing)
  OBVIOUS
<1>2. f \in [Symbols -> Int] /\ \A s \in Symbols : f[s] = 0
  BY <1>1, Products, SymbolsAssumption DEF Value, Nothing
<1>3. IsFiniteSet(Symbols)
  BY SymbolsAssumption
<1> QED
  BY <1>1, <1>2, <1>3, SumOfZeros

\* A quantity that is set makes the whole worth so much more.
LEMMA ValueChanges ==
    ASSUME NEW q \in [Symbols -> Nat], NEW s \in Symbols, NEW n \in Nat, q[s] = 0,
           NEW r, r = [q EXCEPT ![s] = n]
    PROVE  SumFunction(Value(r)) = SumFunction(Value(q)) + n * Mark[s]
<1>1. PICK f : f = Value(q)
  OBVIOUS
<1>2. PICK g : g = Value(r)
  OBVIOUS
<1>3. r \in [Symbols -> Nat] /\ r[s] = n /\ \A x \in Symbols \ {s} : r[x] = q[x]
  OBVIOUS
<1>4. OneChanges(f, g, Symbols, s) /\ g[s] = n * Mark[s] /\ f[s] = 0
  <2>1. f \in [Symbols -> Int] /\ g \in [Symbols -> Int]
    BY <1>1, <1>2, <1>3, ValueIsSum
  <2>2. \A x \in Symbols : f[x] = q[x] * Mark[x] /\ g[x] = r[x] * Mark[x]
    BY <1>1, <1>2 DEF Value
  <2>3. f[s] = 0
    <3>1. PICK m \in Int : m = Mark[s]
      BY Marks
    <3>2. 0 * m = 0
      BY Products
    <3> QED
      BY <2>2, <3>1, <3>2
  <2> QED
    BY <1>3, <2>1, <2>2, <2>3 DEF OneChanges
<1>5. IsFiniteSet(Symbols) /\ SumFunction(f) \in Int /\ n * Mark[s] \in Int
  <2>1. SumFunction(f) \in Int
    BY <1>1, ValueIsSum
  <2>2. PICK m \in Int : m = Mark[s]
    BY Marks
  <2>3. n * m \in Int
    BY Products
  <2>4. IsFiniteSet(Symbols)
    BY Marks
  <2> QED
    BY <2>1, <2>2, <2>3, <2>4
<1>6. SumFunction(g) = SumFunction(f) + g[s] - f[s]
  BY <1>4, <1>5, SumChange
<1> QED
  BY <1>1, <1>2, <1>4, <1>5, <1>6

\* What depends on the arguments and the sizes alone.
LEMMA SameBatch ==
    ASSUME UNCHANGED <<equity, arguments, delta>>
    PROVE  /\ SizingEquity' = SizingEquity /\ Unpriced' = Unpriced
           /\ Sells' = Sells /\ Buys' = Buys /\ Liquidable' = Liquidable
           /\ CostOfBuys' = CostOfBuys /\ Proceeds' = Proceeds
           /\ Spendable' = Spendable /\ Reserve' = Reserve /\ Backed' = Backed
           /\ \A s \in Symbols : OpensShort(s)' = OpensShort(s)
           /\ Bought' = Bought /\ SoldFor' = SoldFor
<1> USE DEF arguments
<1>1. SizingEquity' = SizingEquity
  BY DEF SizingEquity
<1>2. Unpriced' = Unpriced
  BY DEF Unpriced
<1>3. Sells' = Sells /\ Buys' = Buys
  BY DEF Sells, Buys
<1>4. Liquidable' = Liquidable
  BY <1>3 DEF Liquidable
<1>5. \A s \in Symbols : OpensShort(s)' = OpensShort(s)
  BY DEF OpensShort
<1>6. CostOfBuys' = CostOfBuys
  BY <1>3 DEF CostOfBuys, Cost
<1>7. Proceeds' = Proceeds
  BY DEF Proceeds, Cost, Sells, OpensShort
<1>8. Reserve' = Reserve
  BY DEF Reserve
<1>9. Spendable' = Spendable /\ Backed' = Backed
  BY <1>8 DEF Spendable, Backed
<1>10. Bought' = Bought /\ SoldFor' = SoldFor
  BY DEF Bought, SoldFor, Sells, OpensShort
<1> QED
  BY <1>1, <1>2, <1>3, <1>4, <1>5, <1>6, <1>7, <1>8, <1>9, <1>10

-----------------------------------------------------------------------------
(* Every step keeps the invariant *)

\* Before the first batch.
LEMMA InitBatch == Init => BatchInv
<1> SUFFICES ASSUME Init
             PROVE  BatchInv
  OBVIOUS
<1> USE DEF Init
<1>1. Nothing \in [Symbols -> Int] /\ Nothing \in [Symbols -> Nat] /\ \A s \in Symbols : Nothing[s] = 0
  BY DEF Nothing
<1>2. cash \in Int /\ held \in [Symbols -> Int] /\ equity \in Nat
  BY MoneyAssumption DEF Money
<1>3. TypeInv
  <2>1. snap \in [power : Nat, held : [Symbols -> Int], equity : Nat]
    BY <1>1
  <2>2. prices = Nothing /\ delta = Nothing /\ freed = Nothing /\ funded = Nothing
        /\ requested = 0 /\ budget = 0 /\ needed = 0 /\ remaining = 0
        /\ phase = "idle" /\ refused = FALSE /\ disturbed = FALSE
    OBVIOUS
  <2>3. Nothing \in [Symbols -> Nat] /\ \A s \in Symbols : Nothing[s] \in {0, Mark[s]}
    BY <1>1
  <2> HIDE DEF Init
  <2>4. prices \in [Symbols -> Nat] /\ \A s \in Symbols : prices[s] \in {0, Mark[s]}
    BY <2>2, <2>3
  <2>5. delta \in [Symbols -> Int] /\ freed \in [Symbols -> Nat] /\ funded \in [Symbols -> Nat]
    BY <1>1, <2>2
  <2>6. requested \in Int /\ budget \in Int /\ needed \in Int /\ remaining \in Int
    BY <2>2
  <2>7. refused \in BOOLEAN /\ disturbed \in BOOLEAN
    BY <2>2, Zenon
  <2>8. phase \in {"idle", "size", "fund", "liquidate", "fit", "submit", "done"}
    BY <2>2
  <2> QED
    BY <1>2, <2>1, <2>4, <2>5, <2>6, <2>7, <2>8 DEF TypeInv
<1>4. PlanInv /\ FundInv /\ LegsFit /\ MoneyInv /\ StatusInv
  BY <1>1 DEF PlanInv, FundInv, LegsFit, MoneyInv, StatusInv, Quiet
<1>5. LegInv
  BY DEF LegInv, Submitting
<1> QED
  BY <1>3, <1>4, <1>5 DEF BatchInv

\* A run begins with the account as it is.
LEMMA ReadKeeps ==
    ASSUME BatchInv, NEW p \in Plans, NEW priced \in PricedSets, Read(p, priced)
    PROVE  BatchInv'
<1> USE DEF Read, account, sizing, liquidation, fitting
<1>1. TypeInv
  BY DEF BatchInv
<1>2. SizingEquity \in Nat /\ SizingEquity' = SizingEquity
  BY <1>1, MoneyAssumption DEF SizingEquity, AtMost, TypeInv
<1>3. PICK power \in Money : /\ power = BuyingPower
                             /\ snap' = [power |-> power, held |-> held, equity |-> SizingEquity]
  OBVIOUS
<1>4. power \in Nat
  BY MoneyAssumption DEF Money
<1>5. TypeInv'
  <2>1. snap' \in [power : Nat, held : [Symbols -> Int], equity : Nat]
    BY <1>1, <1>2, <1>3, <1>4 DEF TypeInv
  <2>2. prices' \in [Symbols -> Nat] /\ \A s \in Symbols : prices'[s] \in {0, Mark[s]}
    BY Marks
  <2> QED
    BY <1>1, <2>1, <2>2 DEF TypeInv
<1>6. PlanInv'
  BY <1>2, <1>3 DEF PlanInv
<1>7. Unsent'
  <2>1. BuyingPower' = BuyingPower
    BY DEF BuyingPower
  <2> QED
    BY <1>3, <2>1 DEF Unsent
<1>8. FundInv'
  BY <1>7 DEF FundInv
<1>9. LegsFit' /\ LegInv' /\ MoneyInv' /\ StatusInv'
  BY DEF LegsFit, LegInv, Submitting, MoneyInv, StatusInv
<1> QED
  BY <1>5, <1>6, <1>8, <1>9 DEF BatchInv

\* A batch with nothing to do moves nothing; any other starts with what it would change.
LEMMA SizeKeeps ==
    ASSUME BatchInv, Size
    PROVE  BatchInv'
<1> USE DEF Size, account, arguments, history
<1>1. TypeInv /\ PlanInv /\ FundInv /\ MoneyInv /\ phase = "size" /\ phase' \in {"done", "fund"}
  BY DEF BatchInv
<1>2. plan \in Plans /\ plan' = plan
  BY <1>1 DEF PlanInv
<1>3. Nothing \in [Symbols -> Int] /\ Nothing \in [Symbols -> Nat] /\ \A s \in Symbols : Nothing[s] = 0
  BY DEF Nothing
<1>4. \A s \in Symbols : /\ Planned(plan, snap.held, prices, snap.equity, s) \in Int
                         /\ Planned(plan, snap.held, prices, snap.equity, s) # 0 => prices[s] # 0
  <2>1. snap.held \in [Symbols -> Int] /\ prices \in [Symbols -> Nat] /\ snap.equity \in Nat
    BY <1>1 DEF TypeInv
  <2> QED
    BY <1>2, <2>1, PlannedIsPriced
<1>5. delta' \in [Symbols -> Int] /\ \A s \in Symbols : delta'[s] # 0 => prices[s] # 0
  BY <1>3, <1>4
<1>6. TypeInv'
  BY <1>1, <1>3, <1>5 DEF TypeInv
<1>7. SizingEquity' = SizingEquity /\ Unpriced' = Unpriced
  BY DEF SizingEquity, Unpriced
<1>8. PlanInv'
  <2>1. phase' = "fund" => Unpriced = {}
    OBVIOUS
  <2>2. ASSUME Unpriced = {}
        PROVE  \A s \in Symbols : delta'[s] = Planned(plan', snap'.held, prices', snap'.equity, s)
    BY <2>2, <1>2
  <2>3. \A s \in Symbols : delta'[s] # 0 => prices'[s] = Mark[s]
    BY <1>1, <1>5 DEF TypeInv
  <2> QED
    BY <1>1, <1>2, <1>7, <2>1, <2>2, <2>3 DEF PlanInv
<1>9. Unsent /\ Unsent'
  <2>1. Unsent
    BY <1>1 DEF FundInv
  <2>2. BuyingPower' = BuyingPower
    BY DEF BuyingPower
  <2> QED
    BY <2>1, <2>2 DEF Unsent
<1>10. FundInv'
  BY <1>1, <1>9 DEF FundInv
<1>11. LegsFit'
  BY <1>3 DEF LegsFit
<1>12. LegInv'
  <2>1. CASE phase' = "fund"
    BY <2>1 DEF LegInv, Submitting
  <2>2. CASE phase' = "done"
    <3>1. delta' = Nothing /\ freed' = Nothing /\ funded' = Nothing /\ todo' = {}
      BY <2>2
    <3>2. AllLegs(freed, funded)' = {}
      <4>1. Sells' = {} /\ {t \in Symbols : freed'[t] > 0} = {} /\ {t \in Symbols : funded'[t] > 0} = {}
        BY <1>3, <3>1 DEF Sells
      <4> QED
        BY <4>1 DEF AllLegs
    <3>3. \A s \in Symbols : Moved(s)' = 0
      BY <1>9 DEF Moved, Unsent
    <3>4. ~disturbed' => \A s \in Symbols : held'[s] = snap'.held[s] + Moved(s)'
      BY <1>1, <1>9, <3>3 DEF Unsent, TypeInv
    <3> QED
      BY <1>9, <2>2, <3>1, <3>2, <3>4 DEF LegInv, Unsent
  <2> QED
    BY <1>1, <2>1, <2>2
<1>13. MoneyInv'
  <2>1. Backed' = Backed /\ Backed <= snap.power
    BY <1>1, ReserveSplits DEF Backed, Reserve
  <2>2. Quiet' => BuyingPower' = snap.power /\ snap.power \in Nat /\ Backed \in Nat
    BY <1>1, <1>9, ReserveSplits DEF Quiet, Unsent, TypeInv
  <2>3. Quiet' /\ phase' = "done" => BuyingPower' >= Backed'
    BY <2>1, <2>2
  <2> QED
    BY <1>1, <1>9, <2>3 DEF MoneyInv, Unsent
<1>14. StatusInv'
  BY <1>1, <1>9 DEF StatusInv, Unsent
<1> QED
  BY <1>6, <1>8, <1>10, <1>11, <1>12, <1>13, <1>14 DEF BatchInv

\* Before the first leg nothing is sent and the account is what was read.
LEMMA StaysUnsent ==
    ASSUME Unsent, UNCHANGED <<account, arguments, sent, lost, skipped, refused, disturbed>>
    PROVE  Unsent'
<1>1. BuyingPower' = BuyingPower
  BY DEF BuyingPower, account
<1> QED
  BY <1>1 DEF Unsent, account, arguments

\* The budget is what may be spent and what the sells bring.
LEMMA FundKeeps ==
    ASSUME BatchInv, Fund
    PROVE  BatchInv'
<1> USE DEF Fund
<1>1. TypeInv /\ PlanInv /\ FundInv /\ MoneyInv /\ LegsFit /\ StatusInv
      /\ phase = "fund" /\ phase' = "liquidate"
  BY DEF BatchInv
<1>2. PICK proceeds \in Money, cost \in Money :
         /\ proceeds = Proceeds /\ cost = CostOfBuys
         /\ requested' = cost /\ budget' = Spendable + proceeds
         /\ needed' = AtLeast(cost - budget', 0) * 1005
  OBVIOUS
<1>3. proceeds \in Nat /\ cost \in Nat /\ Spendable \in Nat
  BY <1>1, ReserveSplits, MoneyAssumption DEF Money
<1>4. requested' \in Int /\ budget' \in Int /\ budget' >= 0 /\ needed' \in Int
  BY <1>2, <1>3 DEF AtLeast
<1>5. TypeInv'
  BY <1>1, <1>4 DEF TypeInv, account, arguments, fitting, history
<1>6. UNCHANGED <<equity, arguments, delta>>
  BY DEF account
<1>7. PlanInv'
  BY <1>1, <1>6, SameBatch DEF PlanInv, arguments
<1>8. Unsent'
  BY <1>1, StaysUnsent DEF FundInv, submission, history
<1>9. FundInv'
  <2>1. freed' = Nothing /\ funded' = Nothing /\ todo' = Liquidable
    BY <1>1 DEF FundInv, fitting
  <2>2. Liquidable' = Liquidable /\ Liquidable \subseteq Symbols
    BY <1>6, SameBatch, SymbolsAssumption DEF Liquidable
  <2>3. \A s \in todo' : freed'[s] = 0
    BY <2>1, <2>2 DEF Nothing
  <2>4. requested' = CostOfBuys'
    BY <1>2, <1>6, SameBatch
  <2>5. SumFunction(Value(freed)) = 0 /\ freed' = freed
    BY <1>1, ValueOfNothing DEF FundInv
  <2>6. SumFunction(Value(freed))' = SumFunction(Value(freed))
    BY <2>5 DEF Value
  <2>7. Spendable' = Spendable /\ Proceeds' = Proceeds
    BY <1>6, SameBatch
  <2>8. budget' = Spendable' + Proceeds' + SumFunction(Value(freed))'
    BY <1>2, <1>3, <2>5, <2>6, <2>7
  <2> QED
    BY <1>1, <1>4, <1>8, <2>1, <2>2, <2>3, <2>4, <2>8 DEF FundInv
<1>10. LegsFit'
  BY <1>1, <1>6, SameBatch DEF LegsFit, arguments, fitting, history
<1>11. LegInv'
  BY <1>1 DEF LegInv, Submitting
<1>12. MoneyInv'
  BY <1>1, <1>8 DEF MoneyInv, Unsent
<1>13. StatusInv'
  BY <1>1 DEF StatusInv, submission
<1> QED
  BY <1>5, <1>7, <1>9, <1>10, <1>11, <1>12, <1>13 DEF BatchInv

\* Which legs a batch has.
LEMMA LegsOf ==
    ASSUME NEW f, NEW b
    PROVE  /\ \A s \in Symbols : <<"free", s>> \in AllLegs(f, b) <=> f[s] > 0
           /\ \A s \in Symbols : <<"sell", s>> \in AllLegs(f, b) <=> s \in Sells
           /\ \A s \in Symbols : <<"buy", s>> \in AllLegs(f, b) <=> b[s] > 0
           /\ AllLegs(f, b) \subseteq Legs
           /\ \A l \in Legs : l = <<l[1], l[2]>> /\ l[1] \in {"free", "sell", "buy"} /\ l[2] \in Symbols
BY DEF AllLegs, Legs, Sells

\* A batch whose buys are within the budget goes out backed by it.
LEMMA StartsBacked ==
    ASSUME BatchInv, UNCHANGED <<account, arguments, sizing, liquidation, submission, history>>,
           phase \in {"liquidate", "fit"}, phase' = "submit",
           funded' \in [Symbols -> Nat], SumFunction(Value(funded')) <= budget,
           todo' = AllLegs(freed, funded')
    PROVE  LegInv' /\ MoneyInv' /\ StatusInv' /\ Unsent'
<1>1. TypeInv /\ PlanInv /\ FundInv /\ MoneyInv /\ Unsent
  BY DEF BatchInv, FundInv
<1>2. UNCHANGED <<equity, arguments, delta, freed, budget, sent, lost, skipped, status, held, snap, disturbed>>
  BY DEF account, arguments, sizing, liquidation, submission, history
<1>3. Unsent'
  BY <1>1, StaysUnsent DEF submission, history
<1>4. Sells' = Sells /\ AllLegs(freed, funded)' = todo'
  BY <1>2, SameBatch DEF AllLegs
<1>5. LegInv'
  <2>1. \A s \in Symbols : Moved(s)' = 0
    BY <1>3 DEF Moved, Unsent
  <2>2. ~disturbed' => \A s \in Symbols : held'[s] = snap'.held[s] + Moved(s)'
    BY <1>1, <1>2, <1>3, <2>1 DEF Unsent, TypeInv
  <2> QED
    BY <1>3, <1>4, <2>2 DEF LegInv, Unsent
<1>6. FreeLeft' = Value(freed)
  <2>1. \A s \in Symbols : <<"free", s>> \in todo' <=> freed[s] > 0
    BY LegsOf
  <2>2. \A s \in Symbols : freed[s] \in Nat /\ (~(freed[s] > 0) => freed[s] * Mark[s] = 0)
    BY <1>1, Marks, Products DEF TypeInv
  <2>3. FreeLeft' = [s \in Symbols |-> IF <<"free", s>> \in todo' THEN freed[s] * Mark[s] ELSE 0]
    BY <1>2 DEF FreeLeft
  <2> QED
    BY <2>1, <2>2, <2>3 DEF Value
<1>7. SellLeft' = SoldFor
  <2>1. \A s \in Symbols : <<"sell", s>> \in todo' <=> s \in Sells
    BY LegsOf
  <2>2. \A s \in Symbols : OpensShort(s)' = OpensShort(s)
    BY <1>2, SameBatch
  <2> QED
    BY <1>2, <2>1, <2>2 DEF SellLeft, SoldFor
<1>8. BuyLeft' = Value(funded')
  <2>1. \A s \in Symbols : <<"buy", s>> \in todo' <=> funded'[s] > 0
    BY LegsOf
  <2>2. \A s \in Symbols : funded'[s] \in Nat /\ (~(funded'[s] > 0) => funded'[s] * Mark[s] = 0)
    BY Marks, Products
  <2> QED
    BY <2>1, <2>2 DEF BuyLeft, Value
<1>9. MoneyInv'
  <2>1. \A s \in Symbols : delta[s] # 0 => prices[s] = Mark[s]
    BY <1>1 DEF PlanInv
  <2>2. budget = Spendable + SumFunction(SoldFor) + SumFunction(Value(freed))
    BY <1>1, <2>1, SumsOfTheBatch DEF FundInv
  <2>3. SumFunction(SoldFor) \in Int
    <3>1. PICK g : g = SoldFor
      OBVIOUS
    <3>2. \A s \in Symbols : delta[s] * Mark[s] \in Int
      BY <1>1, Marks, Products DEF TypeInv
    <3>3. g \in [Symbols -> Int]
      BY <3>1, <3>2 DEF SoldFor
    <3> QED
      BY <3>1, <3>3, SumType, Marks
  <2>4. SumFunction(Value(freed)) \in Int /\ SumFunction(Value(funded')) \in Int
    BY <1>1, ValueIsSum DEF TypeInv
  <2>5. Backed' = Backed /\ Backed \in Nat /\ Spendable \in Nat /\ Spendable + Backed = snap.power
    BY <1>1, <1>2, SameBatch, ReserveSplits
  <2>6. Quiet' => BuyingPower' = snap.power
    BY <1>2, <1>3 DEF Quiet, Unsent
  <2>7. SumFunction(FreeLeft)' = SumFunction(Value(freed)) /\ SumFunction(SellLeft)' = SumFunction(SoldFor)
        /\ SumFunction(BuyLeft)' = SumFunction(Value(funded'))
    BY <1>6, <1>7, <1>8
  <2>8. snap.power + SumFunction(Value(freed)) + SumFunction(SoldFor) >= SumFunction(Value(funded')) + Backed
    BY <2>2, <2>3, <2>4, <2>5
  <2>9. Quiet' => BuyingPower' + SumFunction(FreeLeft)' + SumFunction(SellLeft)'
                    >= SumFunction(BuyLeft)' + Backed'
    BY <2>5, <2>6, <2>7, <2>8
  <2> QED
    BY <1>3, <2>9 DEF MoneyInv, Unsent
<1>10. StatusInv'
  BY <1>2 DEF StatusInv, BatchInv
<1> QED
  BY <1>3, <1>5, <1>9, <1>10

\* What is freed is added to the budget.
LEMMA LiquidateOneKeeps ==
    ASSUME BatchInv, LiquidateOne
    PROVE  BatchInv'
<1> USE DEF LiquidateOne
<1>1. TypeInv /\ PlanInv /\ FundInv /\ MoneyInv /\ LegsFit /\ StatusInv /\ Unsent
      /\ phase = "liquidate" /\ phase' = "liquidate"
  BY DEF BatchInv, FundInv
<1>2. PICK s : s = Least(todo)
  OBVIOUS
<1>3. s \in todo /\ s \in Symbols
  BY <1>1, <1>2, NextFreedIsOne
<1>4. PICK q : q = IF held[s] > 0 THEN Freeing(s) ELSE 0
  OBVIOUS
<1>5. freed' = [freed EXCEPT ![s] = q] /\ needed' = needed - q * Mark[s] * 1000
      /\ budget' = budget + q * Mark[s] /\ todo' = todo \ {s}
  BY <1>2, <1>4
<1>6. q \in Nat /\ (held[s] > 0 => q <= held[s]) /\ (q > 0 => held[s] > 0)
  BY <1>1, <1>3, <1>4, FreeingIsHeld
<1>7. UNCHANGED <<equity, arguments, delta, funded, requested, status, held, snap, disturbed>>
  BY DEF account, arguments, fitting, submission, history
<1>8. freed \in [Symbols -> Nat] /\ freed[s] = 0
  BY <1>1, <1>3 DEF TypeInv, FundInv
<1>9. PICK m \in Nat : m = Mark[s]
  BY <1>3, Marks
<1>10. q * m \in Nat /\ q * m * 1000 \in Int
  BY <1>6, SMTT(30)
<1>11. freed' \in [Symbols -> Nat] /\ budget' \in Int /\ needed' \in Int /\ budget' >= 0
  <2>1. freed' \in [Symbols -> Nat]
    <3> HIDE DEF LiquidateOne
    <3> QED
      BY <1>5, <1>6, <1>8
  <2>2. needed \in Int /\ budget \in Int /\ budget >= 0
    BY <1>1 DEF TypeInv, FundInv
  <2> QED
    BY <1>5, <1>9, <1>10, <2>1, <2>2
<1>12. TypeInv'
  BY <1>1, <1>11 DEF TypeInv, account, arguments, fitting, history
<1>13. PlanInv'
  BY <1>1, <1>7, SameBatch DEF PlanInv, arguments
<1>14. Unsent'
  BY <1>1, StaysUnsent DEF submission, history
<1>15. FundInv'
  <2>1. funded' = Nothing
    BY <1>1, <1>7 DEF FundInv
  <2>2. todo' \subseteq Liquidable' /\ \A t \in todo' : freed'[t] = 0
    BY <1>1, <1>5, <1>7, <1>8, SameBatch, SymbolsAssumption DEF FundInv, Liquidable
  <2>3. requested' = CostOfBuys'
    BY <1>1, <1>7, SameBatch DEF FundInv
  <2>4. SumFunction(Value(freed')) = SumFunction(Value(freed)) + q * Mark[s]
    <3> HIDE DEF LiquidateOne
    <3>1. PICK r : r = [freed EXCEPT ![s] = q]
      OBVIOUS
    <3>2. SumFunction(Value(r)) = SumFunction(Value(freed)) + q * Mark[s]
      BY <1>3, <1>6, <1>8, <3>1, ValueChanges
    <3> QED
      BY <1>5, <3>1, <3>2
  <2>5. SumFunction(Value(freed))' = SumFunction(Value(freed'))
    BY DEF Value
  <2>6. Spendable' = Spendable /\ Proceeds' = Proceeds
    BY <1>7, SameBatch
  <2>7. budget' = Spendable' + Proceeds' + SumFunction(Value(freed))'
    <3>1. budget = Spendable + Proceeds + SumFunction(Value(freed))
      BY <1>1 DEF FundInv
    <3>2. SumFunction(Value(freed)) \in Int /\ Spendable \in Int
      BY <1>1, <1>8, ValueIsSum, ReserveSplits
    <3>3. Proceeds \in Int
      <4>1. PICK g : g = [t \in {u \in Sells : ~OpensShort(u)} |-> Cost(t, -delta[t])]
        OBVIOUS
      <4>2. g \in [{u \in Sells : ~OpensShort(u)} -> Int]
        <5>1. \A t \in Symbols : delta[t] \in Int /\ prices[t] \in Int
          BY <1>1 DEF TypeInv
        <5>2. \A t \in Symbols : Cost(t, -delta[t]) \in Int
          BY <5>1, Products DEF Cost
        <5> QED
          BY <4>1, <5>2 DEF Sells
      <4>3. IsFiniteSet({u \in Sells : ~OpensShort(u)})
        BY FS_Subset, Marks DEF Sells
      <4> QED
        BY <4>1, <4>2, <4>3, SumType DEF Proceeds
    <3> QED
      BY <1>5, <1>9, <1>10, <2>4, <2>5, <2>6, <3>1, <3>2, <3>3
  <2> QED
    BY <1>1, <1>11, <1>14, <2>1, <2>2, <2>3, <2>7 DEF FundInv
<1>16. LegsFit'
  <2>1. ASSUME NEW t \in Symbols, freed'[t] > 0
        PROVE  t \in Liquidable' /\ (~disturbed' => freed'[t] <= snap'.held[t])
    <3>1. CASE t = s
      <4>1. s \in Liquidable' /\ freed'[s] = q
        BY <1>1, <1>3, <1>5, <1>7, <1>8, SameBatch DEF FundInv
      <4>2. ~disturbed' => q <= snap'.held[s]
        BY <1>1, <1>6, <1>7, <2>1, <3>1, <4>1 DEF Unsent
      <4> QED
        BY <3>1, <4>1, <4>2
    <3>2. CASE t # s
      <4>1. freed'[t] = freed[t] /\ Liquidable' = Liquidable
        BY <1>5, <1>7, <1>8, <3>2, SameBatch
      <4> QED
        BY <1>1, <1>7, <2>1, <4>1 DEF LegsFit
    <3> QED
      BY <3>1, <3>2
  <2>2. \A t \in Symbols : funded'[t] > 0 => t \in Buys' /\ funded'[t] <= delta'[t]
    BY <1>1, <1>7, SameBatch DEF LegsFit
  <2> QED
    BY <2>1, <2>2 DEF LegsFit
<1>17. LegInv'
  BY <1>1 DEF LegInv, Submitting
<1>18. MoneyInv'
  BY <1>1, <1>14 DEF MoneyInv, Unsent
<1>19. StatusInv'
  BY <1>1, <1>7 DEF StatusInv
<1> QED
  BY <1>12, <1>13, <1>15, <1>16, <1>17, <1>18, <1>19 DEF BatchInv

\* The batch that fits is bought as planned; the other is to be fitted.
LEMMA AffordKeeps ==
    ASSUME BatchInv, Afford
    PROVE  BatchInv'
<1>1. TypeInv /\ PlanInv /\ FundInv /\ MoneyInv /\ LegsFit /\ StatusInv /\ Unsent /\ phase = "liquidate"
  BY DEF BatchInv, FundInv, Afford
<1>2. UNCHANGED <<account, arguments, sizing, liquidation, submission, history>>
  BY DEF Afford
<1>3. UNCHANGED <<equity, arguments, delta, freed, requested, budget, status, held, snap, disturbed>>
  BY <1>2 DEF account, arguments, sizing, liquidation, submission, history
<1>4. requested = CostOfBuys /\ budget = Spendable + Proceeds + SumFunction(Value(freed)) /\ budget >= 0
      /\ requested \in Int /\ budget \in Int /\ funded = Nothing
  BY <1>1 DEF FundInv, TypeInv
<1>5. \A s \in Symbols : delta[s] \in Int
  BY <1>1 DEF TypeInv
<1>6. CASE requested <= budget
  <2>1. phase' = "submit" /\ funded' = [s \in Symbols |-> AtLeast(delta[s], 0)]
        /\ todo' = AllLegs(freed, funded') /\ remaining' = budget - requested
    BY <1>3, <1>6 DEF Afford
  <2>2. funded' = Bought /\ funded' \in [Symbols -> Nat]
    BY <1>5, <2>1 DEF Bought, AtLeast
  <2>3. SumFunction(Value(funded')) <= budget
    <3>1. \A s \in Symbols : delta[s] # 0 => prices[s] = Mark[s]
      BY <1>1 DEF PlanInv
    <3> QED
      BY <1>1, <1>4, <1>6, <2>2, <3>1, SumsOfTheBatch
  <2>4. LegInv' /\ MoneyInv' /\ StatusInv' /\ Unsent'
    BY <1>1, <1>2, <2>1, <2>2, <2>3, StartsBacked
  <2>5. TypeInv'
    BY <1>1, <1>2, <1>4, <2>1, <2>2 DEF TypeInv, account, arguments, sizing, liquidation, history
  <2>6. PlanInv'
    BY <1>1, <1>3, <2>1, SameBatch DEF PlanInv, arguments
  <2>7. FundInv'
    BY <2>1 DEF FundInv
  <2>8. LegsFit'
    <3>1. \A s \in Symbols : funded'[s] > 0 => s \in Buys /\ funded'[s] <= delta[s]
      BY <1>5, <2>1 DEF AtLeast, Buys
    <3> QED
      BY <1>1, <1>3, <3>1, SameBatch DEF LegsFit
  <2> QED
    BY <2>4, <2>5, <2>6, <2>7, <2>8 DEF BatchInv
<1>7. CASE ~(requested <= budget)
  <2>1. phase' = "fit" /\ remaining' = budget /\ todo' = Buys /\ funded' = funded
    BY <1>3, <1>7 DEF Afford
  <2>2. TypeInv'
    BY <1>1, <1>2, <1>4, <2>1 DEF TypeInv, account, arguments, sizing, liquidation, history
  <2>3. PlanInv'
    BY <1>1, <1>3, <2>1, SameBatch DEF PlanInv, arguments
  <2>4. Unsent'
    BY <1>1, <1>2, StaysUnsent DEF submission, history
  <2>5. FundInv'
    <3>1. todo' \subseteq Buys' /\ \A s \in todo' : funded'[s] = 0
      BY <1>3, <1>4, <2>1, SameBatch DEF Nothing, Buys
    <3>2. SumFunction(Value(funded))' = 0 /\ SumFunction(Value(freed))' = SumFunction(Value(freed))
      <4>1. Value(funded)' = Value(Nothing) /\ Value(freed)' = Value(freed)
        BY <1>3, <1>4, <2>1 DEF Value, Nothing
      <4> QED
        BY <4>1, ValueOfNothing
    <3>3. requested' = CostOfBuys' /\ budget' = Spendable' + Proceeds' + SumFunction(Value(freed))'
      BY <1>3, <1>4, <3>2, SameBatch
    <3>4. budget' < requested' /\ budget' >= 0 /\ remaining' = budget' - SumFunction(Value(funded))'
          /\ remaining' >= 0
      BY <1>3, <1>4, <1>7, <2>1, <3>2
    <3> QED
      BY <2>1, <2>4, <3>1, <3>3, <3>4 DEF FundInv
  <2>6. LegsFit'
    BY <1>1, <1>3, <2>1, SameBatch DEF LegsFit
  <2>7. LegInv'
    BY <2>1 DEF LegInv, Submitting
  <2>8. MoneyInv'
    BY <2>1, <2>4 DEF MoneyInv, Unsent
  <2>9. StatusInv'
    BY <1>1, <1>3, <2>1 DEF StatusInv
  <2> QED
    BY <2>2, <2>3, <2>5, <2>6, <2>7, <2>8, <2>9 DEF BatchInv
<1> QED
  BY <1>6, <1>7

\* What a buy costs is taken from what is left, and there is as much left.
LEMMA FitOneKeeps ==
    ASSUME BatchInv, FitOne
    PROVE  BatchInv'
<1>1. TypeInv /\ PlanInv /\ FundInv /\ MoneyInv /\ LegsFit /\ StatusInv /\ Unsent
      /\ phase = "fit" /\ phase' = "fit" /\ todo # {}
  BY DEF BatchInv, FundInv, FitOne
<1>2. PICK s : s = NextBuy
  OBVIOUS
<1>3. s \in todo /\ s \in Symbols /\ s \in Buys /\ funded[s] = 0 /\ funded \in [Symbols -> Nat]
  BY <1>1, <1>2, NextBuyIsOne DEF FundInv, Buys, TypeInv
<1>4. PICK q : q = IF Cost(s, Fitted(s)) < MinTrade THEN 0 ELSE Fitted(s)
  OBVIOUS
<1>5. funded' = [funded EXCEPT ![s] = q] /\ remaining' = remaining - Cost(s, q) /\ todo' = todo \ {s}
  BY <1>2, <1>4 DEF FitOne
<1>6. UNCHANGED <<equity, arguments, delta, freed, requested, budget, status, held, snap, disturbed,
                  account, sizing, liquidation, submission, history>>
  BY DEF FitOne, account, arguments, sizing, liquidation, submission, history
<1>7. Mark[s] = prices[s] /\ delta[s] \in Nat /\ delta[s] > 0
  BY <1>1, <1>3 DEF PlanInv, Buys, TypeInv
<1>8. q \in Nat /\ q <= delta[s] /\ Cost(s, q) \in Nat /\ Cost(s, q) <= remaining /\ Cost(s, q) = q * Mark[s]
  <2>1. Fitted(s) \in Nat /\ Fitted(s) <= delta[s] /\ Cost(s, Fitted(s)) \in Nat /\ Cost(s, Fitted(s)) <= remaining
    BY <1>1, <1>3, FittedIsPaid
  <2>2. Cost(s, 0) = 0 /\ Cost(s, q) = q * Mark[s]
    <3>1. PICK m \in Int : m = Mark[s]
      BY <1>3, Marks
    <3>2. 0 * m = 0
      BY Products
    <3> QED
      BY <1>7, <3>1, <3>2 DEF Cost
  <2>3. remaining >= 0 /\ remaining \in Int
    BY <1>1 DEF FundInv, TypeInv
  <2>4. CASE q = 0
    BY <1>7, <2>2, <2>3, <2>4
  <2>5. CASE q = Fitted(s)
    BY <2>1, <2>2, <2>5
  <2> QED
    BY <1>4, <2>4, <2>5
<1>9. funded' \in [Symbols -> Nat] /\ remaining' \in Int /\ remaining' >= 0
  <2>1. remaining \in Int
    BY <1>1 DEF TypeInv
  <2>2. funded' \in [Symbols -> Nat]
    BY <1>3, <1>5, <1>8
  <2> QED
    BY <1>5, <1>8, <2>1, <2>2
<1>10. TypeInv'
  BY <1>1, <1>6, <1>9 DEF TypeInv, account, arguments, sizing, liquidation, history
<1>11. PlanInv'
  BY <1>1, <1>6, SameBatch DEF PlanInv, arguments
<1>12. Unsent'
  BY <1>1, <1>6, StaysUnsent DEF submission, history
<1>13. FundInv'
  <2>1. todo' \subseteq Buys' /\ \A t \in todo' : funded'[t] = 0
    BY <1>1, <1>3, <1>5, <1>6, SameBatch DEF FundInv, Buys
  <2>2. Value(freed)' = Value(freed) /\ SumFunction(Value(funded))' = SumFunction(Value(funded'))
    BY <1>6 DEF Value
  <2>3. requested' = CostOfBuys' /\ budget' = Spendable' + Proceeds' + SumFunction(Value(freed))'
        /\ budget' >= 0 /\ budget' < requested'
    BY <1>1, <1>6, <2>2, SameBatch DEF FundInv
  <2>4. SumFunction(Value(funded')) = SumFunction(Value(funded)) + q * Mark[s]
    <3>1. PICK r : r = [funded EXCEPT ![s] = q]
      OBVIOUS
    <3>2. SumFunction(Value(r)) = SumFunction(Value(funded)) + q * Mark[s]
      BY <1>3, <1>8, <3>1, ValueChanges
    <3> QED
      BY <1>5, <3>1, <3>2
  <2>5. remaining' = budget' - SumFunction(Value(funded))'
    <3>1. remaining = budget - SumFunction(Value(funded)) /\ budget \in Int
      BY <1>1 DEF FundInv, TypeInv
    <3>2. SumFunction(Value(funded)) \in Int
      BY <1>3, ValueIsSum
    <3> QED
      BY <1>5, <1>6, <1>8, <2>2, <2>4, <3>1, <3>2
  <2> QED
    BY <1>1, <1>9, <1>12, <2>1, <2>3, <2>5 DEF FundInv
<1>14. LegsFit'
  <2>1. ASSUME NEW t \in Symbols, funded'[t] > 0
        PROVE  t \in Buys /\ funded'[t] <= delta[t]
    <3>1. CASE t = s
      BY <1>3, <1>5, <1>8, <3>1
    <3>2. CASE t # s
      <4>1. funded'[t] = funded[t]
        BY <1>3, <1>5, <3>2
      <4> QED
        BY <1>1, <2>1, <4>1 DEF LegsFit
    <3> QED
      BY <3>1, <3>2
  <2>2. \A t \in Symbols : freed'[t] > 0 => t \in Liquidable' /\ (~disturbed' => freed'[t] <= snap'.held[t])
    BY <1>1, <1>6, SameBatch DEF LegsFit
  <2>3. Buys' = Buys /\ delta' = delta
    BY <1>6, SameBatch
  <2> QED
    BY <2>1, <2>2, <2>3 DEF LegsFit
<1>15. LegInv'
  BY <1>1 DEF LegInv, Submitting
<1>16. MoneyInv'
  BY <1>1, <1>12 DEF MoneyInv, Unsent
<1>17. StatusInv'
  BY <1>1, <1>6 DEF StatusInv
<1> QED
  BY <1>10, <1>11, <1>13, <1>14, <1>15, <1>16, <1>17 DEF BatchInv

\* The buys that were fitted are within the budget.
LEMMA FitDoneKeeps ==
    ASSUME BatchInv, FitDone
    PROVE  BatchInv'
<1>1. TypeInv /\ PlanInv /\ FundInv /\ LegsFit /\ phase = "fit" /\ phase' = "submit"
      /\ todo' = AllLegs(freed, funded)
  BY DEF BatchInv, FitDone
<1>2. UNCHANGED <<account, arguments, sizing, liquidation, fitting, submission, history>>
  BY DEF FitDone
<1>3. UNCHANGED <<equity, arguments, delta, freed, funded, held, snap, disturbed>>
  BY <1>2 DEF account, arguments, sizing, liquidation, fitting, history
<1>4. funded' \in [Symbols -> Nat] /\ SumFunction(Value(funded')) <= budget /\ todo' = AllLegs(freed, funded')
  <2>1. funded \in [Symbols -> Nat] /\ remaining = budget - SumFunction(Value(funded)) /\ remaining >= 0
        /\ budget \in Int
    BY <1>1 DEF FundInv, TypeInv
  <2>2. SumFunction(Value(funded)) \in Int
    BY <2>1, ValueIsSum
  <2>3. funded' = funded
    BY <1>3
  <2>4. SumFunction(Value(funded)) <= budget
    BY <2>1, <2>2
  <2> QED
    BY <1>1, <2>1, <2>3, <2>4
<1>5. LegInv' /\ MoneyInv' /\ StatusInv' /\ Unsent'
  BY <1>1, <1>2, <1>4, StartsBacked
<1>6. TypeInv'
  BY <1>1, <1>2 DEF TypeInv, account, arguments, sizing, liquidation, fitting, history
<1>7. PlanInv'
  BY <1>1, <1>3, SameBatch DEF PlanInv, arguments
<1>8. FundInv'
  BY <1>1 DEF FundInv
<1>9. LegsFit'
  BY <1>1, <1>3, SameBatch DEF LegsFit
<1> QED
  BY <1>5, <1>6, <1>7, <1>8, <1>9 DEF BatchInv

-----------------------------------------------------------------------------
(* Submission *)

\* A symbol has one leg, and until it goes the holding is what was read.
LEMMA LegIsNew ==
    ASSUME TypeInv, LegsFit, LegInv, phase = "submit", NEW leg \in todo
    PROVE  /\ leg \in Legs /\ leg = <<leg[1], leg[2]>> /\ leg[2] \in Symbols
           /\ leg[1] \in {"free", "sell", "buy"}
           /\ leg[1] = "free" => freed[leg[2]] > 0 /\ (~disturbed => freed[leg[2]] <= snap.held[leg[2]])
           /\ leg[1] = "sell" => delta[leg[2]] < 0
           /\ leg[1] = "buy" => funded[leg[2]] > 0
           /\ Signed(leg) \in Int
           /\ leg \notin sent /\ \A l \in AllLegs(freed, funded) : l[2] = leg[2] => l = leg
           /\ Moved(leg[2]) = 0
           /\ ~disturbed => held[leg[2]] = snap.held[leg[2]]
<1>1. leg \in AllLegs(freed, funded) /\ leg \notin sent /\ sent \subseteq AllLegs(freed, funded)
  BY DEF LegInv, Submitting
<1>2. leg \in Legs /\ leg = <<leg[1], leg[2]>> /\ leg[1] \in {"free", "sell", "buy"} /\ leg[2] \in Symbols
  BY <1>1, LegsOf
<1>3. PICK s \in Symbols : s = leg[2]
  BY <1>2
<1>4. freed[s] \in Nat /\ funded[s] \in Nat /\ delta[s] \in Int
  BY DEF TypeInv
<1>5. /\ <<"free", s>> \in AllLegs(freed, funded) <=> freed[s] > 0
      /\ <<"sell", s>> \in AllLegs(freed, funded) <=> s \in Sells
      /\ <<"buy", s>> \in AllLegs(freed, funded) <=> funded[s] > 0
  BY LegsOf
<1>6. /\ freed[s] > 0 => s \notin Sells /\ s \notin Buys /\ (~disturbed => freed[s] <= snap.held[s])
      /\ funded[s] > 0 => s \in Buys
      /\ s \in Sells <=> delta[s] < 0
      /\ s \in Buys <=> delta[s] > 0
  BY DEF LegsFit, Liquidable, Sells, Buys
<1>7. /\ leg[1] = "free" => freed[s] > 0
      /\ leg[1] = "sell" => s \in Sells
      /\ leg[1] = "buy" => funded[s] > 0
  <2>1. CASE leg[1] = "free"
    <3>1. leg = <<"free", s>>
      BY <1>2, <1>3, <2>1
    <3> QED
      BY <1>1, <1>5, <2>1, <3>1
  <2>2. CASE leg[1] = "sell"
    <3>1. leg = <<"sell", s>>
      BY <1>2, <1>3, <2>2
    <3> QED
      BY <1>1, <1>5, <2>2, <3>1
  <2>3. CASE leg[1] = "buy"
    <3>1. leg = <<"buy", s>>
      BY <1>2, <1>3, <2>3
    <3> QED
      BY <1>1, <1>5, <2>3, <3>1
  <2> QED
    BY <1>2, <2>1, <2>2, <2>3
<1>8. ASSUME NEW l \in AllLegs(freed, funded), l[2] = s
      PROVE  l = leg
  <2>1. l = <<l[1], s>> /\ l[1] \in {"free", "sell", "buy"}
    BY <1>8, LegsOf
  <2>2. l[1] = "free" => freed[s] > 0
    BY <1>5, <2>1
  <2>3. l[1] = "sell" => s \in Sells
    BY <1>5, <2>1
  <2>4. l[1] = "buy" => funded[s] > 0
    BY <1>5, <2>1
  <2>5. l[1] = leg[1]
    BY <1>2, <1>4, <1>6, <1>7, <2>1, <2>2, <2>3, <2>4
  <2> QED
    BY <1>2, <1>3, <2>1, <2>5
<1>9. Signed(leg) \in Int
  BY <1>3, <1>4 DEF Signed
<1>10. Moved(s) = 0
  <2>1. <<"free", s>> \notin sent /\ <<"sell", s>> \notin sent /\ <<"buy", s>> \notin sent
    <3>1. \A k \in {"free", "sell", "buy"} : <<k, s>> \in sent => <<k, s>> = leg
      <4>1. TAKE k \in {"free", "sell", "buy"}
      <4>2. HAVE <<k, s>> \in sent
      <4>3. PICK l \in AllLegs(freed, funded) : l = <<k, s>>
        BY <1>1, <4>2
      <4>4. l[2] = s
        BY <4>3
      <4> QED
        BY <1>8, <4>3, <4>4
    <3> QED
      BY <1>1, <3>1
  <2> QED
    BY <2>1 DEF Moved
<1>11. ~disturbed => held[s] = snap.held[s]
  <2>1. ~disturbed => held[s] = snap.held[s] + Moved(s)
    BY DEF LegInv, Submitting
  <2>2. snap.held[s] \in Int
    BY DEF TypeInv
  <2> QED
    BY <1>10, <2>1, <2>2
<1> QED
  BY <1>1, <1>2, <1>3, <1>6, <1>7, <1>8, <1>9, <1>10, <1>11

\* What is still to come, as sums.
LEMMA LeftIsSum ==
    ASSUME TypeInv
    PROVE  /\ FreeLeft \in [Symbols -> Int] /\ SellLeft \in [Symbols -> Int] /\ BuyLeft \in [Symbols -> Int]
           /\ SumFunction(FreeLeft) \in Int /\ SumFunction(SellLeft) \in Int /\ SumFunction(BuyLeft) \in Int
           /\ \A s \in Symbols : BuyLeft[s] >= 0
<1>1. \A s \in Symbols : /\ freed[s] * Mark[s] \in Int /\ delta[s] * Mark[s] \in Int
                         /\ funded[s] * Mark[s] \in Int /\ funded[s] * Mark[s] >= 0
  <2>1. \A a \in Nat, b \in Nat : a * b >= 0
    BY SMTT(30)
  <2>2. \A s \in Symbols : freed[s] \in Int /\ delta[s] \in Int /\ funded[s] \in Nat /\ funded[s] \in Int
    BY DEF TypeInv
  <2>3. \A s \in Symbols : /\ freed[s] * Mark[s] \in Int /\ delta[s] * Mark[s] \in Int
                           /\ funded[s] * Mark[s] \in Int
    BY <2>2, Marks, Products
  <2>4. \A s \in Symbols : funded[s] * Mark[s] >= 0
    BY <2>1, <2>2, Marks
  <2> QED
    BY <2>3, <2>4
<1>2. FreeLeft \in [Symbols -> Int]
  BY <1>1 DEF FreeLeft
<1>3. SellLeft \in [Symbols -> Int]
  BY <1>1 DEF SellLeft
<1>4. BuyLeft \in [Symbols -> Int] /\ \A s \in Symbols : BuyLeft[s] >= 0
  BY <1>1 DEF BuyLeft
<1> QED
  BY <1>2, <1>3, <1>4, SumType, Marks

\* A number of a sum of what is nowhere negative is no more than the sum.
LEMMA PartOfSum ==
    ASSUME NEW S, IsFiniteSet(S), NEW f \in [S -> Int], \A x \in S : f[x] >= 0, NEW s \in S
    PROVE  f[s] <= SumFunction(f)
<1>1. PICK g : g = [x \in S |-> IF x = s THEN 0 ELSE f[x]]
  OBVIOUS
<1>2. g \in [S -> Int] /\ (\A x \in S : g[x] >= 0) /\ g[s] = 0
  BY <1>1
<1>3. OneChanges(f, g, S, s)
  BY <1>1, <1>2 DEF OneChanges
<1>4. SumFunction(g) = SumFunction(f) + g[s] - f[s]
  BY <1>3, SumChange
<1>5. SumFunction(g) >= 0
  BY <1>2, SumNonNegative
<1>6. SumFunction(f) \in Int /\ f[s] \in Int
  BY SumType
<1> QED
  BY <1>2, <1>4, <1>5, <1>6

\* The last of the legs are buys, and nothing is to come for them but what there is.
LEMMA OnlyBuysLeft ==
    ASSUME TypeInv, \A l \in todo : l[1] = "buy"
    PROVE  SumFunction(FreeLeft) = 0 /\ SumFunction(SellLeft) = 0
<1>1. \A s \in Symbols : <<"free", s>> \notin todo /\ <<"sell", s>> \notin todo
  <2>1. \A s \in Symbols : <<"free", s>>[1] = "free" /\ <<"sell", s>>[1] = "sell"
    OBVIOUS
  <2> QED
    BY <2>1
<1>2. \A s \in Symbols : FreeLeft[s] = 0 /\ SellLeft[s] = 0
  BY <1>1 DEF FreeLeft, SellLeft
<1> QED
  BY <1>2, LeftIsSum, SumOfZeros, Marks

\* What a leg stands for is no longer to come when it has gone.
LEMMA LegGoes ==
    ASSUME TypeInv, NEW leg \in todo, leg = <<leg[1], leg[2]>>, leg[2] \in Symbols,
           todo' = todo \ {leg}, UNCHANGED <<snap, delta, freed, funded>>
    PROVE  /\ SumFunction(FreeLeft') = SumFunction(FreeLeft)
                - (IF leg[1] = "free" THEN freed[leg[2]] * Mark[leg[2]] ELSE 0)
           /\ SumFunction(SellLeft') = SumFunction(SellLeft)
                - (IF leg[1] = "sell" /\ ~OpensShort(leg[2]) THEN -delta[leg[2]] * Mark[leg[2]] ELSE 0)
           /\ SumFunction(BuyLeft') = SumFunction(BuyLeft)
                - (IF leg[1] = "buy" THEN funded[leg[2]] * Mark[leg[2]] ELSE 0)
<1>1. PICK s \in Symbols : s = leg[2]
  OBVIOUS
<1>2. \A x \in Symbols : OpensShort(x)' = OpensShort(x)
  BY DEF OpensShort
<1>3. \A k, x : <<k, x>> \in todo' <=> <<k, x>> \in todo /\ ~(k = leg[1] /\ x = s)
  BY <1>1
<1>4. <<leg[1], s>> \in todo
  BY <1>1
<1>5. FreeLeft' = [x \in Symbols |-> IF <<"free", x>> \in todo' THEN freed[x] * Mark[x] ELSE 0]
      /\ SellLeft' = [x \in Symbols |-> IF <<"sell", x>> \in todo' /\ ~OpensShort(x) THEN -delta[x] * Mark[x] ELSE 0]
      /\ BuyLeft' = [x \in Symbols |-> IF <<"buy", x>> \in todo' THEN funded[x] * Mark[x] ELSE 0]
  BY <1>2 DEF FreeLeft, SellLeft, BuyLeft
<1> DEFINE Worths == \A x \in Symbols : /\ freed[x] * Mark[x] \in Int /\ -delta[x] * Mark[x] \in Int
                                       /\ funded[x] * Mark[x] \in Int
<1>6. Worths
  <2>1. ASSUME NEW x \in Symbols
        PROVE  /\ freed[x] * Mark[x] \in Int /\ -delta[x] * Mark[x] \in Int
               /\ funded[x] * Mark[x] \in Int
    <3>1. PICK m \in Int : m = Mark[x]
      BY Marks
    <3>2. PICK a \in Int, b \in Int, c \in Int : a = freed[x] /\ b = delta[x] /\ c = funded[x]
      BY DEF TypeInv
    <3>3. a * m \in Int /\ b * m \in Int /\ c * m \in Int
      BY Products
    <3> QED
      BY <3>1, <3>2, <3>3
  <2> QED
    BY <2>1
<1>7. OneChanges(FreeLeft, FreeLeft', Symbols, s)
      /\ FreeLeft'[s] = FreeLeft[s] - (IF leg[1] = "free" THEN freed[s] * Mark[s] ELSE 0)
  <2>1. FreeLeft \in [Symbols -> Int] /\ FreeLeft' \in [Symbols -> Int]
    BY <1>5, <1>6, LeftIsSum
  <2>2. \A x \in Symbols \ {s} : FreeLeft'[x] = FreeLeft[x]
    BY <1>3, <1>5 DEF FreeLeft
  <2>3. CASE leg[1] = "free"
    <3>1. FreeLeft[s] = freed[s] * Mark[s] /\ FreeLeft'[s] = 0
      BY <1>3, <1>4, <1>5, <2>3 DEF FreeLeft
    <3>2. FreeLeft[s] \in Int
      BY <2>1
    <3> QED
      BY <2>1, <2>2, <2>3, <3>1, <3>2 DEF OneChanges
  <2>4. CASE leg[1] # "free"
    <3>1. FreeLeft'[s] = FreeLeft[s] /\ FreeLeft[s] \in Int
      BY <1>3, <1>5, <2>1, <2>4 DEF FreeLeft
    <3> QED
      BY <2>1, <2>2, <2>4, <3>1 DEF OneChanges
  <2> QED
    BY <2>3, <2>4
<1>8. OneChanges(SellLeft, SellLeft', Symbols, s)
      /\ SellLeft'[s] = SellLeft[s] - (IF leg[1] = "sell" /\ ~OpensShort(s) THEN -delta[s] * Mark[s] ELSE 0)
  <2>1. SellLeft \in [Symbols -> Int] /\ SellLeft' \in [Symbols -> Int]
    BY <1>5, <1>6, LeftIsSum
  <2>2. \A x \in Symbols \ {s} : SellLeft'[x] = SellLeft[x]
    BY <1>3, <1>5 DEF SellLeft
  <2>3. CASE leg[1] = "sell" /\ ~OpensShort(s)
    <3>1. SellLeft[s] = -delta[s] * Mark[s] /\ SellLeft'[s] = 0
      BY <1>3, <1>4, <1>5, <2>3 DEF SellLeft
    <3>2. SellLeft[s] \in Int
      BY <2>1
    <3> QED
      BY <2>1, <2>2, <2>3, <3>1, <3>2 DEF OneChanges
  <2>4. CASE ~(leg[1] = "sell" /\ ~OpensShort(s))
    <3>1. SellLeft'[s] = SellLeft[s] /\ SellLeft[s] \in Int
      BY <1>3, <1>5, <2>1, <2>4 DEF SellLeft
    <3> QED
      BY <2>1, <2>2, <2>4, <3>1 DEF OneChanges
  <2> QED
    BY <2>3, <2>4
<1>9. OneChanges(BuyLeft, BuyLeft', Symbols, s)
      /\ BuyLeft'[s] = BuyLeft[s] - (IF leg[1] = "buy" THEN funded[s] * Mark[s] ELSE 0)
  <2>1. BuyLeft \in [Symbols -> Int] /\ BuyLeft' \in [Symbols -> Int]
    BY <1>5, <1>6, LeftIsSum
  <2>2. \A x \in Symbols \ {s} : BuyLeft'[x] = BuyLeft[x]
    BY <1>3, <1>5 DEF BuyLeft
  <2>3. CASE leg[1] = "buy"
    <3>1. BuyLeft[s] = funded[s] * Mark[s] /\ BuyLeft'[s] = 0
      BY <1>3, <1>4, <1>5, <2>3 DEF BuyLeft
    <3>2. BuyLeft[s] \in Int
      BY <2>1
    <3> QED
      BY <2>1, <2>2, <2>3, <3>1, <3>2 DEF OneChanges
  <2>4. CASE leg[1] # "buy"
    <3>1. BuyLeft'[s] = BuyLeft[s] /\ BuyLeft[s] \in Int
      BY <1>3, <1>5, <2>1, <2>4 DEF BuyLeft
    <3> QED
      BY <2>1, <2>2, <2>4, <3>1 DEF OneChanges
  <2> QED
    BY <2>3, <2>4
<1>10. ASSUME NEW f, NEW g, NEW n, OneChanges(f, g, Symbols, s), g[s] = f[s] - n, n \in Int
      PROVE  SumFunction(g) = SumFunction(f) - n
  <2>1. SumFunction(g) = SumFunction(f) + g[s] - f[s]
    BY <1>10, SumChange, Marks
  <2>2. f \in [Symbols -> Int] /\ f[s] \in Int
    BY <1>10 DEF OneChanges
  <2>3. SumFunction(f) \in Int
    BY <2>2, SumType, Marks
  <2> QED
    BY <1>10, <2>1, <2>2, <2>3
<1> QED
  BY <1>1, <1>7, <1>8, <1>9, <1>10, <1>6

\* Taken, refused or skipped, a leg leaves the loop.
LEMMA SubmitKeeps ==
    ASSUME BatchInv, NEW leg \in Legs, Submit(leg)
    PROVE  BatchInv'
<1>1. /\ TypeInv /\ PlanInv /\ FundInv /\ MoneyInv /\ LegsFit /\ LegInv /\ StatusInv
      /\ phase = "submit" /\ phase' = "submit" /\ leg \in todo /\ todo' = todo \ {leg}
  BY DEF BatchInv, Submit
<1>2. UNCHANGED <<status, equity, arguments, sizing, liquidation, fitting, runs, disturbed>>
  BY DEF Submit
<1>3. UNCHANGED <<equity, arguments, plan, prices, snap, delta, freed, funded, status, disturbed>>
  BY <1>2 DEF arguments, sizing, liquidation, fitting
<1>4. PICK s \in Symbols : s = leg[2]
  BY DEF Legs
<1>5. PICK q \in Int : q = Signed(leg)
  BY <1>1, LegIsNew
<1>6. \/ /\ q < 0 \/ q * Mark[s] <= BuyingPower
         /\ cash' = cash - q * Mark[s] /\ held' = [held EXCEPT ![s] = @ + q]
         /\ sent' = sent \cup {leg} /\ UNCHANGED <<lost, skipped, refused>>
      \/ /\ lost' = lost \cup {leg}
         /\ refused' = (refused \/ q < 0 \/ q * Mark[s] <= BuyingPower)
         /\ UNCHANGED <<cash, held, sent, skipped>>
      \/ /\ leg[1] = "sell" /\ skipped' = skipped \cup {leg} /\ refused' = TRUE
         /\ UNCHANGED <<cash, held, sent, lost>>
  BY <1>4, <1>5 DEF Submit
<1> DEFINE Sent == /\ q < 0 \/ q * Mark[s] <= BuyingPower
                   /\ cash' = cash - q * Mark[s] /\ held' = [held EXCEPT ![s] = @ + q]
                   /\ sent' = sent \cup {leg} /\ UNCHANGED <<lost, skipped, refused>>
           Lost == /\ lost' = lost \cup {leg}
                   /\ refused' = (refused \/ q < 0 \/ q * Mark[s] <= BuyingPower)
                   /\ UNCHANGED <<cash, held, sent, skipped>>
           Skipped == /\ leg[1] = "sell" /\ skipped' = skipped \cup {leg} /\ refused' = TRUE
                      /\ UNCHANGED <<cash, held, sent, lost>>
<1>7. Sent \/ Lost \/ Skipped
  BY <1>6
<1>8. leg = <<leg[1], s>> /\ leg[1] \in {"free", "sell", "buy"} /\ leg \notin sent /\ Moved(s) = 0
      /\ (\A l \in AllLegs(freed, funded) : l[2] = s => l = leg)
      /\ (~disturbed => held[s] = snap.held[s])
      /\ (leg[1] = "free" => freed[s] > 0 /\ (~disturbed => freed[s] <= snap.held[s]))
      /\ (leg[1] = "sell" => delta[s] < 0) /\ (leg[1] = "buy" => funded[s] > 0)
  BY <1>1, <1>4, LegIsNew
<1>9. /\ leg[1] = "free" => q = -freed[s]
      /\ leg[1] = "sell" => q = delta[s]
      /\ leg[1] = "buy" => q = funded[s]
  BY <1>4, <1>5, <1>8 DEF Signed
<1>10. /\ freed[s] \in Nat /\ funded[s] \in Nat /\ delta[s] \in Int /\ held[s] \in Int /\ snap.held[s] \in Int
       /\ cash \in Int /\ held \in [Symbols -> Int]
  BY <1>1 DEF TypeInv
<1>11. TypeInv'
  <2>1. cash' \in Int /\ held' \in [Symbols -> Int]
    <3>1. CASE Sent
      <4>1. PICK c, h : c = cash' /\ h = held'
        OBVIOUS
      <4>2. Fills(cash, held, s, q, c, h)
        BY <3>1, <4>1 DEF Fills
      <4>3. c \in Int /\ h \in [Symbols -> Int]
        BY <1>10, <4>2, PowerMoves
      <4> QED
        BY <4>1, <4>3
    <3>2. CASE Lost \/ Skipped
      BY <1>10, <3>2
    <3> QED
      BY <1>7, <3>1, <3>2
  <2>2. refused' \in BOOLEAN
    <3>1. CASE Sent
      BY <1>1, <3>1 DEF TypeInv
    <3>2. CASE Lost
      BY <3>2, Zenon
    <3>3. CASE Skipped
      BY <3>3, Zenon
    <3> QED
      BY <1>7, <3>1, <3>2, <3>3
  <2> HIDE DEF Sent, Lost, Skipped
  <2> QED
    BY <1>1, <1>2, <2>1, <2>2 DEF TypeInv, arguments, sizing, liquidation, fitting
<1>12. PlanInv'
  BY <1>1, <1>3, SameBatch DEF PlanInv
<1>13. FundInv'
  BY <1>1 DEF FundInv
<1>14. LegsFit'
  BY <1>1, <1>3, SameBatch DEF LegsFit
<1>15. LegInv'
  <2>1. AllLegs(freed, funded)' = AllLegs(freed, funded)
    BY <1>3, SameBatch DEF AllLegs
  <2>2. /\ AllLegs(freed, funded) = todo \cup sent \cup lost \cup skipped
        /\ todo \cap (sent \cup lost \cup skipped) = {} /\ sent \cap (lost \cup skipped) = {}
        /\ \A l \in skipped : l[1] = "sell"
        /\ ~disturbed => \A x \in Symbols : held[x] = snap.held[x] + Moved(x)
    BY <1>1 DEF LegInv, Submitting
  <2>3. /\ sent' \cup lost' \cup skipped' = (sent \cup lost \cup skipped) \cup {leg}
        /\ sent' \cap (lost' \cup skipped') = {}
        /\ \A l \in skipped' : l[1] = "sell"
    <3>1. CASE Sent
      BY <1>1, <2>2, <3>1
    <3>2. CASE Lost
      BY <1>1, <2>2, <3>2
    <3>3. CASE Skipped
      BY <1>1, <2>2, <3>3
    <3> QED
      BY <1>7, <3>1, <3>2, <3>3
  <2>4. /\ AllLegs(freed, funded) = todo' \cup sent' \cup lost' \cup skipped'
        /\ todo' \cap (sent' \cup lost' \cup skipped') = {}
    <3> HIDE DEF Sent, Lost, Skipped
    <3> QED
      BY <1>1, <2>2, <2>3
  <2>5. ASSUME ~disturbed', NEW x \in Symbols
        PROVE  held'[x] = snap'.held[x] + Moved(x)'
    <3>1. Moved(x) \in Int /\ held[x] = snap.held[x] + Moved(x) /\ held[x] \in Int /\ snap.held[x] \in Int
      <4>1. freed[x] \in Int /\ delta[x] \in Int /\ funded[x] \in Int
        BY <1>1 DEF TypeInv
      <4>2. Moved(x) \in Int
        BY <4>1 DEF Moved
      <4> QED
        BY <1>1, <1>3, <2>2, <2>5, <4>2 DEF TypeInv
    <3>2. CASE sent' = sent /\ held' = held
      BY <1>3, <3>1, <3>2 DEF Moved
    <3>3. CASE Sent /\ x # s
      <4>1. \A k : <<k, x>> \in sent' <=> <<k, x>> \in sent
        <5>1. \A k : <<k, x>> # leg
          BY <1>8, <3>3
        <5> QED
          BY <3>3, <5>1
      <4>2. Moved(x)' = Moved(x)
        BY <1>3, <4>1 DEF Moved
      <4>3. held'[x] = held[x]
        BY <1>10, <3>3
      <4> QED
        BY <1>3, <3>1, <4>2, <4>3
    <3>4. CASE Sent /\ x = s
      <4>1. \A k \in {"free", "sell", "buy"} : <<k, s>> \in sent' <=> k = leg[1]
        <5>1. ASSUME NEW k \in {"free", "sell", "buy"}, <<k, s>> \in sent
              PROVE  FALSE
          <6>1. PICK l \in AllLegs(freed, funded) : l = <<k, s>>
            BY <2>2, <5>1
          <6>2. l = leg
            BY <1>8, <6>1
          <6> QED
            BY <1>8, <5>1, <6>1, <6>2
        <5>2. \A k : <<k, s>> = leg <=> k = leg[1]
          BY <1>8
        <5> QED
          BY <3>4, <5>1, <5>2
      <4>2. Moved(s)' = q
        <5>1. /\ <<"free", s>> \in sent' <=> leg[1] = "free"
              /\ <<"sell", s>> \in sent' <=> leg[1] = "sell"
              /\ <<"buy", s>> \in sent' <=> leg[1] = "buy"
          BY <4>1
        <5>2. Moved(s)' = (IF leg[1] = "free" THEN -freed[s] ELSE 0)
                             + (IF leg[1] = "sell" THEN delta[s] ELSE 0)
                             + (IF leg[1] = "buy" THEN funded[s] ELSE 0)
          BY <1>3, <5>1 DEF Moved
        <5> QED
          BY <1>8, <1>9, <1>10, <5>2
      <4>3. held'[s] = held[s] + q
        BY <1>10, <3>4
      <4> QED
        BY <1>3, <1>8, <2>5, <3>4, <4>2, <4>3
    <3> QED
      BY <1>7, <3>2, <3>3, <3>4
  <2> HIDE DEF Sent, Lost, Skipped
  <2> QED
    BY <1>1, <2>1, <2>3, <2>4, <2>5 DEF LegInv
<1>16. MoneyInv'
  <2>1. Backed' = Backed /\ Backed \in Nat
    BY <1>1, <1>3, SameBatch, ReserveSplits
  <2>2. SUFFICES ASSUME Quiet'
                 PROVE  /\ lost' = {} /\ skipped' = {}
                        /\ BuyingPower' + SumFunction(FreeLeft') + SumFunction(SellLeft')
                             >= SumFunction(BuyLeft') + Backed
    BY <1>1, <2>1 DEF MoneyInv
  <2>3. Quiet
    <3>1. CASE Sent
      BY <1>3, <2>2, <3>1 DEF Quiet
    <3>2. CASE Lost
      BY <1>3, <2>2, <3>2 DEF Quiet
    <3>3. CASE Skipped
      BY <2>2, <3>3 DEF Quiet
    <3> QED
      BY <1>7, <3>1, <3>2, <3>3
  <2>4. lost = {} /\ skipped = {} /\ ~disturbed
        /\ BuyingPower + SumFunction(FreeLeft) + SumFunction(SellLeft) >= SumFunction(BuyLeft) + Backed
    BY <1>1, <2>3 DEF MoneyInv, Quiet
  <2>5. /\ SumFunction(FreeLeft) \in Int /\ SumFunction(SellLeft) \in Int /\ SumFunction(BuyLeft) \in Int
        /\ BuyLeft \in [Symbols -> Int] /\ \A x \in Symbols : BuyLeft[x] >= 0
    BY <1>1, LeftIsSum
  <2>6. PICK m \in Nat : m = Mark[s]
    BY Marks
  <2>7. q * m \in Int /\ funded[s] * m \in Int /\ freed[s] * m \in Int /\ delta[s] * m \in Int
    BY <1>10, Products
  <2>8. BuyingPower = Power(cash, held) /\ BuyingPower' = Power(cash', held')
    BY PowerIsPower
  <2>9. BuyingPower \in Int
    BY <1>10, <2>8, PowerIsInt
  <2>10. CASE Sent
    <3>1. PICK c, h : c = cash' /\ h = held'
      OBVIOUS
    <3>2. Fills(cash, held, s, q, c, h)
      BY <2>10, <3>1 DEF Fills
    <3>3. cash' = c /\ held' = h
      BY <3>1
    <3>4. PowerFollows(cash, held, s, q, c, h)
      BY <1>10, <3>2, PowerMoves
    <3>5. /\ BuyingPower' \in Int
          /\ q >= 0 => BuyingPower' >= BuyingPower - q * m
          /\ q < 0 /\ held[s] + q >= 0 => BuyingPower' = BuyingPower - q * m
          /\ q < 0 => BuyingPower' >= BuyingPower
      BY <2>6, <2>8, <3>3, <3>4 DEF PowerFollows
    <3>6. /\ SumFunction(FreeLeft') = SumFunction(FreeLeft) - (IF leg[1] = "free" THEN freed[s] * m ELSE 0)
          /\ SumFunction(SellLeft') = SumFunction(SellLeft)
               - (IF leg[1] = "sell" /\ ~OpensShort(s) THEN -delta[s] * m ELSE 0)
          /\ SumFunction(BuyLeft') = SumFunction(BuyLeft) - (IF leg[1] = "buy" THEN funded[s] * m ELSE 0)
      BY <1>1, <1>3, <1>4, <1>8, <2>6, LegGoes
    <3> DEFINE Goal == BuyingPower' + SumFunction(FreeLeft') + SumFunction(SellLeft')
                         >= SumFunction(BuyLeft') + Backed
    <3>7. ASSUME leg[1] = "free"
          PROVE  Goal
      <4>1. q = -freed[s] /\ q < 0 /\ held[s] + q >= 0
        BY <1>8, <1>9, <1>10, <2>4, <3>7
      <4>2. q * m = -(freed[s] * m)
        BY <1>10, <4>1, Products
      <4>3. BuyingPower' = BuyingPower + freed[s] * m
        BY <2>7, <2>9, <3>5, <4>1, <4>2
      <4>4. /\ SumFunction(FreeLeft') = SumFunction(FreeLeft) - freed[s] * m
            /\ SumFunction(SellLeft') = SumFunction(SellLeft) /\ SumFunction(BuyLeft') = SumFunction(BuyLeft)
        BY <2>5, <3>6, <3>7
      <4> QED
        BY <2>1, <2>4, <2>5, <2>7, <2>9, <4>3, <4>4
    <3>8. ASSUME leg[1] = "sell" /\ ~OpensShort(s)
          PROVE  Goal
      <4>1. q = delta[s] /\ q < 0 /\ held[s] + q >= 0
        BY <1>8, <1>9, <1>10, <2>4, <3>8 DEF OpensShort
      <4>2. BuyingPower' = BuyingPower - delta[s] * m
        BY <3>5, <4>1
      <4>3. /\ SumFunction(SellLeft') = SumFunction(SellLeft) + delta[s] * m
            /\ SumFunction(FreeLeft') = SumFunction(FreeLeft) /\ SumFunction(BuyLeft') = SumFunction(BuyLeft)
        BY <2>5, <2>7, <3>6, <3>8
      <4> QED
        BY <2>1, <2>4, <2>5, <2>7, <2>9, <4>2, <4>3
    <3>9. ASSUME leg[1] = "sell" /\ OpensShort(s)
          PROVE  Goal
      <4>1. BuyingPower' >= BuyingPower
        BY <1>8, <1>9, <3>5, <3>9
      <4>2. /\ SumFunction(SellLeft') = SumFunction(SellLeft)
            /\ SumFunction(FreeLeft') = SumFunction(FreeLeft) /\ SumFunction(BuyLeft') = SumFunction(BuyLeft)
        BY <2>5, <3>6, <3>9
      <4> QED
        BY <2>1, <2>4, <2>5, <2>9, <3>5, <4>1, <4>2
    <3>10. ASSUME leg[1] = "buy"
           PROVE  Goal
      <4>1. q = funded[s] /\ q >= 0
        BY <1>9, <1>10, <3>10
      <4>2. BuyingPower' >= BuyingPower - funded[s] * m
        BY <3>5, <4>1
      <4>3. /\ SumFunction(BuyLeft') = SumFunction(BuyLeft) - funded[s] * m
            /\ SumFunction(FreeLeft') = SumFunction(FreeLeft) /\ SumFunction(SellLeft') = SumFunction(SellLeft)
        BY <2>5, <3>6, <3>10
      <4> QED
        BY <2>1, <2>4, <2>5, <2>7, <2>9, <3>5, <4>2, <4>3
    <3>11. Goal
      BY <1>8, <3>7, <3>8, <3>9, <3>10
    <3> QED
      BY <2>4, <2>10, <3>11
  \* With nobody else trading, no leg the account cannot pay for comes up.
  <2>11. CASE Lost
    <3>1. ~(q < 0) /\ ~(q * Mark[s] <= BuyingPower)
      BY <2>2, <2>11 DEF Quiet
    <3>2. leg[1] = "buy"
      BY <1>8, <1>9, <1>10, <3>1
    <3>3. SumFunction(FreeLeft) = 0 /\ SumFunction(SellLeft) = 0
      <4>1. \A l \in todo : l[1] = "buy"
        BY <3>2 DEF Submit, NextLegs
      <4> QED
        BY <1>1, <4>1, OnlyBuysLeft
    <3>4. BuyLeft[s] = funded[s] * Mark[s]
      <4>1. <<"buy", s>> \in todo
        BY <1>1, <1>8, <3>2
      <4> QED
        BY <4>1 DEF BuyLeft
    <3>5. BuyLeft[s] <= SumFunction(BuyLeft)
      BY <2>5, PartOfSum, Marks
    <3>6. funded[s] * m <= BuyingPower
      BY <2>1, <2>4, <2>5, <2>6, <2>7, <2>9, <3>3, <3>4, <3>5
    <3>7. q * Mark[s] = funded[s] * m
      BY <1>9, <2>6, <3>2
    <3> QED
      BY <3>1, <3>6, <3>7
  <2>12. CASE Skipped
    BY <2>2, <2>12 DEF Quiet
  <2> QED
    BY <1>7, <2>10, <2>11, <2>12
<1>17. StatusInv'
  BY <1>1, <1>3 DEF StatusInv
<1> QED
  BY <1>11, <1>12, <1>13, <1>14, <1>15, <1>16, <1>17 DEF BatchInv

\* When every leg has gone the batch is answered for.
LEMMA SubmitDoneKeeps ==
    ASSUME BatchInv, SubmitDone
    PROVE  BatchInv'
<1>1. /\ TypeInv /\ PlanInv /\ FundInv /\ MoneyInv /\ LegsFit /\ LegInv /\ StatusInv
      /\ phase = "submit" /\ phase' = "done" /\ todo = {} /\ todo' = {} /\ status' = Status
  BY DEF BatchInv, SubmitDone
<1>2. UNCHANGED <<account, arguments, sizing, liquidation, fitting, todo, sent, lost, skipped, history>>
  BY DEF SubmitDone
<1>3. UNCHANGED <<equity, arguments, plan, prices, snap, delta, freed, funded, disturbed, refused, cash, held,
                  sent, lost, skipped>>
  BY <1>2 DEF account, arguments, sizing, liquidation, fitting, history
<1>4. TypeInv'
  BY <1>1, <1>2 DEF TypeInv, account, arguments, sizing, liquidation, fitting, history
<1>5. PlanInv'
  BY <1>1, <1>3, SameBatch DEF PlanInv
<1>6. FundInv'
  BY <1>1 DEF FundInv
<1>7. LegsFit'
  BY <1>1, <1>3, SameBatch DEF LegsFit
<1>8. LegInv'
  <2>1. AllLegs(freed, funded)' = AllLegs(freed, funded)
    BY <1>3, SameBatch DEF AllLegs
  <2>2. \A x \in Symbols : Moved(x)' = Moved(x)
    BY <1>3 DEF Moved
  <2> QED
    BY <1>1, <1>3, <2>1, <2>2 DEF LegInv, Submitting
<1>9. MoneyInv'
  <2>1. Backed' = Backed /\ Backed \in Nat /\ BuyingPower' = BuyingPower /\ Quiet' = Quiet
    BY <1>1, <1>3, SameBatch, ReserveSplits DEF BuyingPower, Quiet
  <2>2. SumFunction(FreeLeft) = 0 /\ SumFunction(SellLeft) = 0
    BY <1>1, OnlyBuysLeft
  <2>3. SumFunction(BuyLeft) = 0
    <3>1. \A x \in Symbols : BuyLeft[x] = 0
      BY <1>1 DEF BuyLeft
    <3> QED
      BY <1>1, <3>1, LeftIsSum, SumOfZeros, Marks
  <2>4. BuyingPower \in Int
    BY <1>1, PowerIsPower, PowerIsInt DEF TypeInv
  <2>5. Quiet => lost = {} /\ skipped = {} /\ BuyingPower >= Backed
    BY <1>1, <2>1, <2>2, <2>3, <2>4 DEF MoneyInv
  <2> QED
    BY <1>1, <1>3, <2>1, <2>5 DEF MoneyInv
<1>10. StatusInv'
  <2>1. Status' = Status
    BY <1>3, SameBatch DEF Status, Cut
  <2> QED
    BY <1>1, <2>1 DEF StatusInv, Submitting
<1> QED
  BY <1>4, <1>5, <1>6, <1>7, <1>8, <1>9, <1>10 DEF BatchInv

\* The answer stands until the next run.
LEMMA ReturnKeeps ==
    ASSUME BatchInv, Return
    PROVE  BatchInv'
<1>1. /\ TypeInv /\ PlanInv /\ FundInv /\ MoneyInv /\ LegsFit /\ LegInv /\ StatusInv
      /\ phase = "done" /\ phase' = "idle"
  BY DEF BatchInv, Return
<1>2. UNCHANGED <<account, arguments, sizing, liquidation, fitting, todo, submission, history>>
  BY DEF Return
<1>3. UNCHANGED <<equity, arguments, plan, prices, snap, delta, freed, funded, disturbed, refused, cash, held,
                  todo, sent, lost, skipped, status>>
  BY <1>2 DEF account, arguments, sizing, liquidation, fitting, submission, history
<1>4. TypeInv'
  BY <1>1, <1>2 DEF TypeInv, account, arguments, sizing, liquidation, fitting, history
<1>5. PlanInv'
  BY <1>1, <1>3 DEF PlanInv
<1>6. FundInv'
  BY <1>1 DEF FundInv
<1>7. LegsFit'
  BY <1>1, <1>3, SameBatch DEF LegsFit
<1>8. LegInv'
  <2>1. AllLegs(freed, funded)' = AllLegs(freed, funded)
    BY <1>3, SameBatch DEF AllLegs
  <2>2. \A x \in Symbols : Moved(x)' = Moved(x)
    BY <1>3 DEF Moved
  <2> QED
    BY <1>1, <1>3, <2>1, <2>2 DEF LegInv, Submitting
<1>9. MoneyInv'
  BY <1>1, <1>3 DEF MoneyInv, Quiet
<1>10. StatusInv'
  <2>1. Status' = Status
    BY <1>3, SameBatch DEF Status, Cut
  <2>2. status # "none" => Submitting'
    BY <1>1, <1>3 DEF Submitting
  <2> QED
    BY <1>1, <1>3, <2>1, <2>2 DEF StatusInv
<1> QED
  BY <1>4, <1>5, <1>6, <1>7, <1>8, <1>9, <1>10 DEF BatchInv

\* Somebody else trades, and of the account nothing is promised for this batch any more.
LEMMA OutsideKeeps ==
    ASSUME BatchInv, NEW s \in Symbols, NEW q \in {1, -1}, Outside(s, q)
    PROVE  BatchInv'
<1>1. /\ TypeInv /\ PlanInv /\ FundInv /\ MoneyInv /\ LegsFit /\ LegInv /\ StatusInv
      /\ phase \in {"size", "submit"} /\ phase' = phase /\ disturbed' = TRUE
  BY DEF BatchInv, Outside
<1>2. UNCHANGED <<equity, phase, arguments, sizing, liquidation, fitting, todo, submission, runs, refused>>
  BY DEF Outside
<1>3. UNCHANGED <<equity, arguments, plan, prices, snap, delta, freed, funded, refused,
                  todo, sent, lost, skipped, status>>
  BY <1>2 DEF arguments, sizing, liquidation, fitting, submission
<1>4. TypeInv'
  <2>1. PICK c, h : c = cash' /\ h = held'
    OBVIOUS
  <2>2. Fills(cash, held, s, q, c, h)
    BY <2>1 DEF Outside, Fills
  <2>3. cash \in Int /\ held \in [Symbols -> Int] /\ q \in Int
    BY <1>1 DEF TypeInv
  <2>4. cash' \in Int /\ held' \in [Symbols -> Int]
    BY <2>1, <2>2, <2>3, PowerMoves
  <2>5. disturbed' \in BOOLEAN
    BY <1>1, Zenon
  <2> QED
    BY <1>1, <1>2, <2>4, <2>5 DEF TypeInv, arguments, sizing, liquidation, fitting
<1>5. PlanInv'
  BY <1>1, <1>3, SameBatch DEF PlanInv
<1>6. FundInv'
  BY <1>1, <1>3 DEF FundInv, Unsent
<1>7. LegsFit'
  BY <1>1, <1>3, SameBatch DEF LegsFit
<1>8. LegInv'
  <2>1. AllLegs(freed, funded)' = AllLegs(freed, funded)
    BY <1>3, SameBatch DEF AllLegs
  <2> QED
    BY <1>1, <1>3, <2>1 DEF LegInv, Submitting
<1>9. MoneyInv'
  BY <1>1 DEF MoneyInv, Quiet
<1>10. StatusInv'
  BY <1>1, <1>3 DEF StatusInv
<1> QED
  BY <1>4, <1>5, <1>6, <1>7, <1>8, <1>9, <1>10 DEF BatchInv

\* A step that changes nothing.
LEMMA StutterKeeps ==
    ASSUME BatchInv, UNCHANGED vars
    PROVE  BatchInv'
<1>1. UNCHANGED <<cash, held, equity, phase, plan, prices, snap, arguments, delta, requested, budget, needed, freed,
                  funded, remaining, todo, sent, lost, skipped, status, refused, disturbed>>
  BY DEF vars, account, arguments, sizing, liquidation, fitting, submission, history
<1>2. TypeInv /\ PlanInv /\ FundInv /\ MoneyInv /\ LegsFit /\ LegInv /\ StatusInv
  BY DEF BatchInv
<1>3. BuyingPower' = BuyingPower
  BY <1>1 DEF BuyingPower
<1>4. TypeInv'
  BY <1>1, <1>2 DEF TypeInv
<1>5. PlanInv'
  BY <1>1, <1>2, SameBatch DEF PlanInv
<1>6. FundInv'
  BY <1>1, <1>2, <1>3, SameBatch DEF FundInv, Unsent, Value
<1>7. LegsFit'
  BY <1>1, <1>2, SameBatch DEF LegsFit
<1>8. Submitting' = Submitting
  BY <1>1 DEF Submitting
<1>9. LegInv'
  <2>1. AllLegs(freed, funded)' = AllLegs(freed, funded)
    BY <1>1, SameBatch DEF AllLegs
  <2>2. \A x \in Symbols : Moved(x)' = Moved(x)
    BY <1>1 DEF Moved
  <2> QED
    BY <1>1, <1>2, <1>8, <2>1, <2>2 DEF LegInv
<1>10. MoneyInv'
  <2>1. FreeLeft' = FreeLeft /\ SellLeft' = SellLeft /\ BuyLeft' = BuyLeft
    BY <1>1 DEF FreeLeft, SellLeft, BuyLeft, OpensShort
  <2> QED
    BY <1>1, <1>2, <1>3, <2>1, SameBatch DEF MoneyInv, Quiet
<1>11. StatusInv'
  <2>1. Status' = Status
    BY <1>1, SameBatch DEF Status, Cut
  <2> QED
    BY <1>1, <1>2, <1>8, <2>1 DEF StatusInv
<1> QED
  BY <1>4, <1>5, <1>6, <1>7, <1>9, <1>10, <1>11 DEF BatchInv

\* The invariant holds of every batch of every run.
THEOREM BatchIsAccounted == Spec => []BatchInv
<1>1. ASSUME BatchInv, [Next]_vars
      PROVE  BatchInv'
  <2>1. ASSUME NEW p \in Plans, NEW priced \in PricedSets, Read(p, priced)
        PROVE  BatchInv'
    BY <1>1, <2>1, ReadKeeps
  <2>2. CASE Size
    BY <1>1, <2>2, SizeKeeps
  <2>3. CASE Fund
    BY <1>1, <2>3, FundKeeps
  <2>4. CASE LiquidateOne
    BY <1>1, <2>4, LiquidateOneKeeps
  <2>5. CASE Afford
    BY <1>1, <2>5, AffordKeeps
  <2>6. CASE FitOne
    BY <1>1, <2>6, FitOneKeeps
  <2>7. CASE FitDone
    BY <1>1, <2>7, FitDoneKeeps
  <2>8. CASE SubmitDone
    BY <1>1, <2>8, SubmitDoneKeeps
  <2>9. CASE Return
    BY <1>1, <2>9, ReturnKeeps
  <2>10. ASSUME NEW leg \in Legs, Submit(leg)
         PROVE  BatchInv'
    BY <1>1, <2>10, SubmitKeeps
  <2>11. ASSUME NEW s \in Symbols, NEW q \in {1, -1}, Outside(s, q)
         PROVE  BatchInv'
    BY <1>1, <2>11, OutsideKeeps
  <2>12. CASE UNCHANGED vars
    BY <1>1, <2>12, StutterKeeps
  <2> QED
    BY <1>1, <2>1, <2>2, <2>3, <2>4, <2>5, <2>6, <2>7, <2>8, <2>9, <2>10, <2>11, <2>12 DEF Next, Step
<1> QED
  BY <1>1, InitBatch, PTL DEF Spec

-----------------------------------------------------------------------------
(* What a batch comes to *)

\* With the account to itself and a broker that refuses nothing it need not, no leg is refused
\* (fund_planned_orders, _fit_buys_to_budget, submit_planned_orders).
THEOREM NoLegIsRefused == Spec => []BatchClears
<1>1. BatchInv => BatchClears
  BY DEF BatchInv, MoneyInv, BatchClears
<1> QED
  BY <1>1, BatchIsAccounted, PTL

\* Such a batch leaves the cash buffer, or what there was of it, in the account
\* (fund_planned_orders).
THEOREM BufferIsLeft == Spec => []ReserveKept
<1>1. BatchInv => ReserveKept
  BY DEF BatchInv, MoneyInv, ReserveKept, Backed, Reserve
<1> QED
  BY <1>1, BatchIsAccounted, PTL

\* Planned again from the account it leaves, a target batch trades nothing, and nothing priced
\* outside the plan is left above the minimum (plan_share_orders).
THEOREM RebalanceIsDone == Spec => []Settled
<1>1. ASSUME BatchInv, phase = "done", Quiet, plan.mode = "target", Unpriced = {},
             freed = Nothing, funded = [s \in Symbols |-> AtLeast(delta[s], 0)], NEW s \in Symbols
      PROVE  /\ Planned(plan, held, prices, SizingEquity, s) = 0
             /\ s \notin DOMAIN plan.intents /\ held[s] * prices[s] > 0 => held[s] * prices[s] < MinTrade
  <2>1. TypeInv /\ PlanInv /\ LegInv /\ MoneyInv
    BY <1>1 DEF BatchInv
  <2>2. plan \in Plans /\ snap.equity = SizingEquity
        /\ delta[s] = Planned(plan, snap.held, prices, snap.equity, s)
    BY <1>1, <2>1 DEF PlanInv
  <2>3. delta[s] \in Int /\ snap.held[s] \in Int /\ held[s] \in Int /\ prices[s] \in Nat /\ snap.equity \in Nat
        /\ freed[s] = 0 /\ funded[s] = AtLeast(delta[s], 0)
    BY <1>1, <2>1 DEF TypeInv, Nothing
  <2>4. held[s] = snap.held[s] + delta[s]
    <3>1. sent = AllLegs(freed, funded) /\ held[s] = snap.held[s] + Moved(s)
      BY <1>1, <2>1 DEF LegInv, MoneyInv, Submitting, Quiet
    <3>2. /\ <<"free", s>> \notin sent
          /\ <<"sell", s>> \in sent <=> delta[s] < 0
          /\ <<"buy", s>> \in sent <=> funded[s] > 0
      BY <2>3, <3>1, LegsOf DEF Sells
    <3>3. Moved(s) = delta[s]
      BY <2>3, <3>2 DEF Moved, AtLeast
    <3> QED
      BY <3>1, <3>3
  <2>5. PICK t : t = Target(plan, held, prices, SizingEquity, s)
    OBVIOUS
  <2>6. t = Target(plan, snap.held, prices, snap.equity, s)
    BY <1>1, <2>2, <2>5 DEF Target
  <2>7. delta[s] = IF prices[s] = 0 \/ Abs(t - snap.held[s]) * prices[s] * 100 < Floor(t, snap.equity)
                   THEN 0 ELSE t - snap.held[s]
    BY <2>2, <2>6 DEF Planned
  <2>8. Planned(plan, held, prices, SizingEquity, s) = 0
    <3>1. CASE delta[s] = 0
      <4>1. held[s] = snap.held[s]
        BY <2>3, <2>4, <3>1
      <4> QED
        BY <2>2, <2>5, <2>7, <3>1, <4>1 DEF Planned
    <3>2. CASE delta[s] # 0
      <4>1. delta[s] = t - snap.held[s] /\ prices[s] # 0
        BY <2>7, <3>2
      <4>2. PICK n \in Int : n = t
        <5>1. prices[s] \in Nat \ {0} /\ 100 * prices[s] \in Nat \ {0}
          BY <2>3, <4>1, SMTT(30)
        <5>2. ASSUME NEW a \in Int, NEW d \in Nat \ {0}
              PROVE  RoundShares(a, d) \in Int
          BY Quotients DEF RoundShares
        <5>3. CASE s \in DOMAIN plan.intents
          <6>1. PICK v \in Int : v = plan.intents[s].value
            BY <2>2, <5>3, PlansAssumption
          <6>2. SizingEquity * v \in Int
            BY <2>2, <2>3, Products
          <6>3. RoundShares(SizingEquity * v, 100 * prices[s]) \in Int /\ RoundShares(v, prices[s]) \in Int
            BY <5>1, <5>2, <6>2
          <6>4. IntentShares(plan.intents[s], prices[s], SizingEquity) \in Int
            BY <6>1, <6>3 DEF IntentShares
          <6> QED
            BY <1>1, <2>5, <5>3, <6>4 DEF Target
        <5>4. CASE s \notin DOMAIN plan.intents
          BY <1>1, <2>5, <5>4 DEF Target
        <5> QED
          BY <5>3, <5>4
      <4>3. t - held[s] = 0
        BY <2>3, <2>4, <4>1, <4>2
      <4> QED
        BY <2>5, <4>3 DEF Planned
    <3> QED
      BY <3>1, <3>2
  <2>9. ASSUME s \notin DOMAIN plan.intents, held[s] * prices[s] > 0
        PROVE  held[s] * prices[s] < MinTrade
    <3>1. Target(plan, held, prices, SizingEquity, s) = 0
      BY <1>1, <2>9 DEF Target
    <3>2. PICK h \in Int, p \in Nat : h = held[s] /\ p = prices[s]
      BY <2>3
    <3>3. h * p \in Int /\ 0 * p = 0
      BY Products
    <3>4. h > 0 /\ p # 0
      <4>1. ASSUME h <= 0
            PROVE  FALSE
        <5>1. h * p <= 0 * p
          BY <4>1, Products
        <5> QED
          BY <2>9, <3>2, <3>3, <5>1
      <4>2. ASSUME p = 0
            PROVE  FALSE
        <5>1. h * p = 0
          BY <4>2, SMTT(30)
        <5> QED
          BY <2>9, <3>2, <5>1
      <4> QED
        BY <4>1, <4>2
    <3>5. Abs(0 - h) = h
      BY <3>4 DEF Abs
    <3>6. 0 - h # 0
      BY <3>4
    <3>7. h * p * 100 < MinTrade * 100
      BY <2>8, <3>1, <3>2, <3>4, <3>5, <3>6 DEF Planned, Floor
    <3> QED
      BY <3>2, <3>3, <3>7, MoneyAssumption
  <2> QED
    BY <2>8, <2>9
<1>2. BatchInv => Settled
  BY <1>1 DEF Settled
<1> QED
  BY <1>2, BatchIsAccounted, PTL

\* What is answered is true of the account (_batch_status).
THEOREM AnswersAreTrue == Spec => []StatusTells
<1>1. ASSUME BatchInv
      PROVE  StatusTells
  <2>1. TypeInv /\ LegInv /\ LegsFit /\ StatusInv
    BY <1>1 DEF BatchInv
  <2>2. ASSUME status \in {"submitted", "submitted_reduced"}
        PROVE  status = Status /\ Submitting /\ lost = {} /\ phase \in {"done", "idle"}
               /\ (status = "submitted" => Cut = {})
    BY <2>1, <2>2 DEF StatusInv, Status
  <2>3. ASSUME status = "submitted", ~disturbed, NEW s \in Symbols, <<"sell", s>> \notin skipped
        PROVE  held[s] = snap.held[s] + delta[s] - freed[s]
    <3>1. Submitting /\ lost = {} /\ phase \in {"done", "idle"} /\ Cut = {}
      BY <2>2, <2>3
    <3>2. AllLegs(freed, funded) = sent \cup skipped /\ sent \cap skipped = {}
          /\ (\A l \in skipped : l[1] = "sell") /\ held[s] = snap.held[s] + Moved(s)
      BY <2>1, <2>3, <3>1 DEF LegInv
    <3>3. freed[s] \in Nat /\ funded[s] \in Nat /\ delta[s] \in Int /\ snap.held[s] \in Int
      BY <2>1 DEF TypeInv
    <3>4. <<"free", s>> \notin skipped /\ <<"buy", s>> \notin skipped
      <4>1. <<"free", s>>[1] = "free" /\ <<"buy", s>>[1] = "buy"
        OBVIOUS
      <4> QED
        BY <3>2, <4>1
    <3>5. /\ <<"free", s>> \in AllLegs(freed, funded) <=> freed[s] > 0
          /\ <<"sell", s>> \in AllLegs(freed, funded) <=> delta[s] < 0
          /\ <<"buy", s>> \in AllLegs(freed, funded) <=> funded[s] > 0
      BY LegsOf DEF Sells
    <3>6. /\ <<"free", s>> \in sent <=> freed[s] > 0
          /\ <<"sell", s>> \in sent <=> delta[s] < 0
          /\ <<"buy", s>> \in sent <=> funded[s] > 0
      BY <2>3, <3>2, <3>4, <3>5
    <3>7. /\ funded[s] > 0 => delta[s] > 0 /\ funded[s] <= delta[s]
          /\ delta[s] > 0 => ~(funded[s] < delta[s])
      BY <2>1, <3>1 DEF LegsFit, Buys, Cut
    <3>8. Moved(s) = delta[s] - freed[s]
      BY <3>3, <3>6, <3>7 DEF Moved
    <3> QED
      BY <3>2, <3>3, <3>8
  <2>4. ASSUME status \in {"error", "no_orders", "rejected", "unfunded"}, ~disturbed
        PROVE  held = snap.held
    <3>1. sent = {} /\ Submitting
      BY <2>1, <2>4 DEF StatusInv, Status, Submitting
    <3>2. \A s \in Symbols : held[s] = snap.held[s] + Moved(s) /\ Moved(s) = 0 /\ snap.held[s] \in Int
      BY <2>1, <2>4, <3>1 DEF LegInv, Moved, TypeInv
    <3>3. \A s \in Symbols : held[s] = snap.held[s]
      BY <3>2
    <3>4. held \in [Symbols -> Int] /\ snap.held \in [Symbols -> Int]
      BY <2>1 DEF TypeInv
    <3> QED
      BY <3>3, <3>4
  <2> QED
    BY <2>2, <2>3, <2>4 DEF StatusTells
<1> QED
  BY <1>1, BatchIsAccounted, PTL

-----------------------------------------------------------------------------
(* Finite sets *)

\* The image of a finite set is finite.
LEMMA ImageFinite ==
    ASSUME NEW S, IsFiniteSet(S), NEW f
    PROVE  IsFiniteSet({f[x] : x \in S})
<1> DEFINE T == {f[x] : x \in S}
           g == [x \in S |-> f[x]]
<1>1. g \in Surjection(S, T)
  BY DEF Surjection
<1> HIDE DEF g, T
<1>2. IsFiniteSet(T)
  BY <1>1, FS_Surjection
<1> QED
  BY <1>2 DEF T

\* An order in which any two members compare has a first member.
LEMMA FirstExists ==
    ASSUME NEW S, IsFiniteSet(S), S # {}, NEW R,
           \A x, y \in S : <<x, y>> \in R \/ <<y, x>> \in R,
           \A x, y, z \in S : <<x, y>> \in R /\ <<y, z>> \in R => <<x, z>> \in R
    PROVE  \E x \in S : \A y \in S : <<x, y>> \in R
<1> DEFINE Bad == {T \in SUBSET S : T # {} /\ ~\E x \in T : \A y \in T : <<x, y>> \in R}
<1>1. SUFFICES ASSUME Bad # {}
               PROVE  FALSE
  OBVIOUS
<1>2. PICK T \in Bad : \A U \in Bad : U \subseteq T => U = T
  <2>1. Bad \in SUBSET SUBSET S
    OBVIOUS
  <2> HIDE DEF Bad
  <2> QED
    BY <1>1, <2>1, LeastSubset
<1>3. PICK x \in T : TRUE
  BY <1>2
<1> DEFINE U == T \ {x}
<1>4. U \in SUBSET S /\ U \subseteq T /\ U # T
  BY <1>2, <1>3
<1>5. CASE U = {}
  BY <1>2, <1>3, <1>5
<1>6. CASE U # {}
  <2>1. U \notin Bad
    BY <1>2, <1>4
  <2>2. PICK y \in U : \A z \in U : <<y, z>> \in R
    <3> HIDE DEF U
    <3> QED
      BY <1>4, <1>6, <2>1
  <2>3. x \in S /\ x \in T /\ y \in S /\ y \in T /\ <<x, x>> \in R /\ \A z \in T : z = x \/ z \in U
    BY <1>2, <1>3
  <2>4. \E first \in T : \A z \in T : <<first, z>> \in R
    <3> HIDE DEF U, Bad
    <3>1. CASE <<x, y>> \in R
      <4>1. \A z \in T : <<x, z>> \in R
        BY <1>4, <2>2, <2>3, <3>1
      <4> QED
        BY <2>3, <4>1
    <3>2. CASE <<y, x>> \in R
      BY <2>2, <2>3, <3>2
    <3> QED
      BY <2>3, <3>1, <3>2
  <2> QED
    BY <1>2, <2>4
<1> QED
  BY <1>5, <1>6

\* A set of numbers has a least and a greatest one.
LEMMA NumbersEnd ==
    ASSUME NEW S \in SUBSET Int, IsFiniteSet(S), S # {}
    PROVE  (\E x \in S : \A y \in S : x <= y) /\ (\E x \in S : \A y \in S : y <= x)
<1> DEFINE up == {p \in Int \X Int : p[1] <= p[2]}
           down == {p \in Int \X Int : p[2] <= p[1]}
<1>1. \E x \in S : \A y \in S : x <= y
  <2>1. /\ \A x, y \in S : <<x, y>> \in up \/ <<y, x>> \in up
        /\ \A x, y, z \in S : <<x, y>> \in up /\ <<y, z>> \in up => <<x, z>> \in up
        /\ \A x, y \in S : <<x, y>> \in up => x <= y
    OBVIOUS
  <2> HIDE DEF up
  <2> QED
    BY <2>1, FirstExists
<1>2. \E x \in S : \A y \in S : y <= x
  <2>1. /\ \A x, y \in S : <<x, y>> \in down \/ <<y, x>> \in down
        /\ \A x, y, z \in S : <<x, y>> \in down /\ <<y, z>> \in down => <<x, z>> \in down
        /\ \A x, y \in S : <<x, y>> \in down => y <= x
    OBVIOUS
  <2> HIDE DEF down
  <2> QED
    BY <2>1, FirstExists
<1> QED
  BY <1>1, <1>2

-----------------------------------------------------------------------------
(* The dates of a backtest *)

\* A set of times in order: each of them once, and ever later.
Ascending(q, S) ==
    /\ q \in [1..Len(q) -> S] /\ q \in Seq(S) /\ \A t \in S : \E i \in 1..Len(q) : q[i] = t
    /\ \A i, j \in 1..Len(q) : i < j => q[i] < q[j]

\* InOrder puts them so: a time's place is how many are no later.
LEMMA InOrderAscends ==
    ASSUME NEW S \in SUBSET Nat, IsFiniteSet(S)
    PROVE  Ascending(InOrder(S), S) /\ Len(InOrder(S)) = Cardinality(S)
<1> DEFINE upto(t) == {u \in S : u <= t}
           rank == [t \in S |-> Cardinality(upto(t))]
           n == Cardinality(S)
           q == InOrder(S)
<1> \A t \in S : t \in Int
  OBVIOUS
<1>1. n \in Nat
  BY FS_CardinalityType
<1>2. \A t \in S : upto(t) \in SUBSET S /\ IsFiniteSet(upto(t)) /\ Cardinality(upto(t)) \in 1..n
  <2>1. TAKE t \in S
  <2>2. upto(t) \in SUBSET S /\ t \in upto(t)
    OBVIOUS
  <2> HIDE DEF upto
  <2>3. IsFiniteSet(upto(t)) /\ Cardinality(upto(t)) <= n
    BY <2>2, FS_Subset
  <2>4. Cardinality(upto(t)) \in Nat /\ Cardinality(upto(t)) # 0
    BY <2>2, <2>3, FS_CardinalityType, FS_EmptySet
  <2> QED
    BY <1>1, <2>2, <2>3, <2>4
<1>3. \A t, u \in S : t < u => rank[t] < rank[u]
  <2>1. TAKE t, u \in S
  <2>2. HAVE t < u
  <2>3. upto(t) \in SUBSET upto(u) /\ u \in upto(u) /\ u \notin upto(t)
    <3>1. \A x \in S : x <= t => x <= u
      BY <2>2
    <3>2. u \in upto(u) /\ u \notin upto(t)
      BY <2>2
    <3>3. \A x \in upto(t) : x \in upto(u)
      BY <3>1
    <3> QED
      BY <3>2, <3>3
  <2>4. Cardinality(upto(t)) <= Cardinality(upto(u)) /\ Cardinality(upto(t)) # Cardinality(upto(u))
    <3> HIDE DEF upto
    <3> QED
      BY <1>2, <2>3, FS_Subset
  <2> HIDE DEF upto
  <2> QED
    BY <1>1, <1>2, <2>4
<1>4. rank \in [S -> 1..n]
  <2> HIDE DEF upto
  <2> QED
    BY <1>2
<1>5. \A i \in 1..n : \E t \in S : rank[t] = i
  <2> HIDE DEF rank, n
  <2>1. \A t, u \in S : rank[t] = rank[u] => t = u
    <3>1. TAKE t, u \in S
    <3>2. rank[t] \in Int /\ rank[u] \in Int /\ t \in Int /\ u \in Int
      BY <1>1, <1>4
    <3> QED
      BY <1>3, <3>2
  <2>2. rank \in Injection(S, 1..n)
    BY <1>4, <2>1 DEF Injection, IsInjective
  <2>3. IsFiniteSet(1..n) /\ Cardinality(1..n) = n
    BY <1>1, FS_Interval
  <2>4. rank \in Surjection(S, 1..n)
    BY <2>2, <2>3, FS_Injection DEF n
  <2> QED
    BY <2>4 DEF Surjection
<1>6. q = [i \in 1..n |-> CHOOSE t \in S : Cardinality(upto(t)) = i]
  BY DEF InOrder
<1>7. \A i \in 1..n : q[i] \in S /\ rank[q[i]] = i
  <2> HIDE DEF q, upto, n
  <2>1. TAKE i \in 1..n
  <2>2. q[i] = CHOOSE t \in S : Cardinality(upto(t)) = i
    BY <1>6
  <2>3. \E t \in S : Cardinality(upto(t)) = i
    BY <1>5
  <2> QED
    BY <2>2, <2>3
<1> HIDE DEF q, rank, n
<1>8. Len(q) = n /\ q \in [1..n -> S] /\ q \in Seq(S)
  <2>1. q = [i \in 1..n |-> q[i]]
    BY <1>6
  <2>2. q \in [1..n -> S]
    BY <1>7, <2>1
  <2> QED
    BY <1>1, <2>2
<1>9. \A t \in S : q[rank[t]] = t
  <2>1. TAKE t \in S
  <2>2. q[rank[t]] \in S /\ rank[q[rank[t]]] = rank[t] /\ rank[t] \in Int
    BY <1>1, <1>4, <1>7
  <2>3. q[rank[t]] \in Int /\ t \in Int
    BY <2>2
  <2> QED
    BY <1>3, <2>2, <2>3
<1>10. \A i, j \in 1..n : i < j => q[i] < q[j]
  <2>1. TAKE i, j \in 1..n
  <2>2. HAVE i < j
  <2>3. q[i] \in S /\ q[j] \in S /\ rank[q[i]] = i /\ rank[q[j]] = j
    BY <1>7
  <2>4. q[i] \in Int /\ q[j] \in Int
    BY <2>3
  <2>5. i \in Int /\ j \in Int
    BY <1>1
  <2>6. ~(j < i) /\ i # j
    BY <2>2
  <2>7. q[i] # q[j]
    BY <2>3, <2>6
  <2>8. q[j] < q[i] => rank[q[j]] < rank[q[i]]
    BY <1>3, <2>3
  <2> QED
    BY <2>3, <2>4, <2>6, <2>7, <2>8
<1> QED
  BY <1>4, <1>8, <1>9, <1>10 DEF Ascending, n, q

-----------------------------------------------------------------------------
(* The invariant of a backtest *)

\* What a backtest is given does not change, and the rest of its inputs is made from it.
InputsInv ==
    /\ daily \in Dailies /\ fine \in Intradays /\ feed \in Feeds
    /\ Cardinality(DailyDates) >= 2
    /\ dates = TradeDates
    /\ schedule = [t \in Range(dates) |-> DividendSchedule(t)]
    /\ frames = [s \in Loaded |-> [i \in DOMAIN Tries |-> Frame(s, i)]]

\* Whole shares of what the backtest loads.
Holds(b) == "held" \in DOMAIN b /\ b.held \in [Loaded -> Int]

\* The book holds what it held after the last step.
NightsInv ==
    /\ step \in 0..Len(dates) /\ nights \in Seq([Loaded -> Int]) /\ Len(nights) = step
    /\ Holds(book) /\ (step = 0 => book.cash = Balance)
    /\ book.held = IF step = 0 THEN [s \in Loaded |-> 0] ELSE nights[step]

\* The payments whose ex-date the replay has reached, and what they come to for what was held.
Reached(k) == {p \in Payments : k > 0 /\ First <= Midnight(p[2]) /\ Midnight(p[2]) <= dates[k]}
Share(p)   == HeldInto(p[2], p[1]) * p[3]
Owing(Q)   == SumFunction([p \in Q |-> p.value])

\* What was received and what is owed is what was earned; what is owed is due on a date still to come.
OwedInv ==
    /\ IsFiniteSet(pending) /\ income \in Int
    /\ \A p \in pending :
         /\ p.value \in Int /\ p.ex \in Nat /\ p.due \in Range(dates)
         /\ step > 0 /\ dates[step] < p.due /\ Midnight(p.ex) <= dates[step]
    /\ income + Owing(pending) = SumFunction([p \in Reached(step) |-> Share(p)])

\* No symbol ever counts for more than was asked, and for less where a decision had less.
CoverageInv ==
    /\ coverage.requested \in Int /\ coverage.supplied \in Int
    /\ coverage.supplied <= coverage.requested
    /\ thin => coverage.supplied < coverage.requested

ReplayInv == InputsInv /\ NightsInv /\ NoForesight /\ OwedInv /\ CoverageInv

-----------------------------------------------------------------------------
(* The dates of a backtest are stamps *)

DateSet == IF UseIntraday THEN FineStamps ELSE DailyDates

\* A replay has dates: the stamps of intraday bars, or closes of days.
LEMMA DatesAreStamps ==
    ASSUME InputsInv
    PROVE  /\ DateSet \in SUBSET Nat /\ IsFiniteSet(DateSet) /\ DateSet # {}
           /\ UseIntraday \/ \A t \in DateSet : \E d \in Nat : t = DailyStamp(d)
           /\ \A t \in DateSet, d \in Nat : t # Midnight(d)
<1>1. BarStamps(daily) /\ BarStamps(fine)
  BY ReplayAssumption DEF InputsInv
<1>2. CASE UseIntraday
  <2>1. \A s \in Loaded : fine[s] \in SUBSET Nat /\ IsFiniteSet(fine[s])
    BY <1>1 DEF BarStamps
  <2>2. IsFiniteSet(FineStamps)
    <3> DEFINE all == {fine[s] : s \in Loaded}
    <3>1. IsFiniteSet(all)
      <4>1. IsFiniteSet(Loaded)
        BY ReplayAssumption
      <4> QED
        BY <4>1, ImageFinite
    <3>2. \A T \in all : IsFiniteSet(T)
      BY <2>1
    <3>3. FineStamps = UNION all
      BY DEF FineStamps
    <3> HIDE DEF all
    <3> QED
      BY <3>1, <3>2, <3>3, FS_UNION
  <2>3. FineStamps \in SUBSET Nat /\ FineStamps # {}
    BY <1>2, <2>1 DEF FineStamps, UseIntraday
  <2>4. \A t \in FineStamps : t % 12 # 0
    BY ReplayAssumption DEF FineStamps, InputsInv, Day
  <2>5. \A d \in Nat : (12 * d) % 12 = 0
    OBVIOUS
  <2>6. \A t \in FineStamps, d \in Nat : t # Midnight(d)
    BY <2>4, <2>5 DEF Midnight, Day
  <2> QED
    BY <1>2, <2>2, <2>3, <2>6 DEF DateSet
<1>3. CASE ~UseIntraday
  <2>1. \A s \in Loaded : daily[s] \in SUBSET Nat /\ IsFiniteSet(daily[s])
    BY <1>1 DEF BarStamps
  <2>2. DailyDates \subseteq CommonDates
    BY DEF DailyDates, InPeriod
  <2>3. \A t \in CommonDates : \E d \in Nat : t = DailyStamp(d)
    BY <2>1 DEF CommonDates, DailyStamps
  <2>4. DailyDates # {}
    <3>1. Cardinality(DailyDates) >= 2 /\ Cardinality({}) = 0
      BY FS_EmptySet DEF InputsInv
    <3> QED
      BY <3>1
  <2>5. IsFiniteSet(DailyDates)
    <3>1. PICK t \in DailyDates : TRUE
      BY <2>4
    <3>2. PICK s \in Loaded : t \in DailyStamps(s)
      BY <2>2, <3>1 DEF CommonDates
    <3>3. CommonDates \subseteq DailyStamps(s)
      BY DEF CommonDates
    <3>4. IsFiniteSet(DailyStamps(s))
      <4>1. IsFiniteSet(daily[s])
        BY <2>1
      <4> DEFINE stamp == [d \in daily[s] |-> DailyStamp(d)]
      <4>2. IsFiniteSet({stamp[d] : d \in daily[s]})
        <5> HIDE DEF stamp
        <5> QED
          BY <4>1, ImageFinite
      <4>3. {stamp[d] : d \in daily[s]} = DailyStamps(s)
        BY DEF DailyStamps
      <4> QED
        BY <4>2, <4>3
    <3> QED
      BY <2>2, <3>3, <3>4, FS_Subset
  <2>6. \A d \in Nat : DailyStamp(d) \in Nat /\ \A e \in Nat : DailyStamp(d) # Midnight(e)
    BY DEF DailyStamp, Midnight, Day, Close
  <2>7. \A t \in DailyDates : \E d \in Nat : t = DailyStamp(d)
    BY <2>2, <2>3
  <2> QED
    BY <1>3, <2>4, <2>5, <2>6, <2>7 DEF DateSet
<1> QED
  BY <1>2, <1>3

\* They are in order, and no two are the same.
LEMMA DatesAscend ==
    ASSUME InputsInv
    PROVE  /\ Ascending(dates, DateSet) /\ Len(dates) \in Nat \ {0} /\ dates \in [1..Len(dates) -> Nat]
           /\ Range(dates) = DateSet
           /\ First \in Nat /\ Final \in Nat
           /\ \A i \in 1..Len(dates) : First <= dates[i] /\ dates[i] <= Final
<1> DEFINE n == Len(dates)
<1>1. Ascending(dates, DateSet) /\ n = Cardinality(DateSet)
  BY DatesAreStamps, InOrderAscends DEF InputsInv, TradeDates, DateSet
<1>2. n \in Nat \ {0}
  BY <1>1, DatesAreStamps, FS_CardinalityType, FS_EmptySet
<1>3. dates \in [1..n -> Nat]
  BY <1>1, DatesAreStamps DEF Ascending
<1>4. Range(dates) = DateSet
  BY <1>1 DEF Range, Ascending
<1>5. First \in Nat /\ Final \in Nat
  BY <1>2, <1>3 DEF First, Final
<1>6. \A i, j \in 1..n : i < j => dates[i] < dates[j]
  BY <1>1 DEF Ascending
<1> HIDE DEF n
<1>7. ASSUME NEW i \in 1..n
      PROVE  dates[1] <= dates[i] /\ dates[i] <= dates[n]
  <2>1. 1 \in 1..n /\ n \in 1..n /\ (i = 1 \/ 1 < i) /\ (i = n \/ i < n)
    BY <1>2
  <2>2. dates[1] \in Nat /\ dates[i] \in Nat /\ dates[n] \in Nat
    BY <1>3, <2>1
  <2>3. dates[1] <= dates[i]
    BY <1>6, <2>1, <2>2
  <2>4. dates[i] <= dates[n]
    BY <1>6, <2>1, <2>2
  <2> QED
    BY <2>3, <2>4
<1> QED
  BY <1>1, <1>2, <1>3, <1>4, <1>5, <1>7 DEF First, Final, n

-----------------------------------------------------------------------------
(* What a decision reads *)

\* Frames are finite sets of stamps.
LEMMA FramesAreStamps ==
    ASSUME InputsInv
    PROVE  /\ DOMAIN Tries = 1..(Len(Providers) + 1) /\ Len(Providers) \in Nat
           /\ \A s \in Loaded, i \in DOMAIN Tries : frames[s][i] \in SUBSET Nat /\ IsFiniteSet(frames[s][i])
<1>1. Len(Providers) \in Nat /\ DOMAIN Tries = 1..(Len(Providers) + 1)
  BY ReplayAssumption DEF Tries
<1>2. ASSUME NEW s \in Loaded, NEW i \in DOMAIN Tries
      PROVE  frames[s][i] \in SUBSET Nat /\ IsFiniteSet(frames[s][i])
  <2> DEFINE all == StoredBy(s, Provider(i))
  <2>1. DOMAIN Stored[s] = Sources /\ IsFiniteSet(Sources)
        /\ \A p \in Sources : Stored[s][p] \in SUBSET Nat /\ IsFiniteSet(Stored[s][p])
    BY ReplayAssumption
  <2>2. all \in SUBSET Nat /\ IsFiniteSet(all)
    <3>1. CASE Provider(i) = None
      <4> DEFINE sets == {Stored[s][q] : q \in Sources}
      <4>1. IsFiniteSet(sets)
        BY <2>1, ImageFinite
      <4>2. all = UNION sets
        BY <2>1, <3>1 DEF StoredBy
      <4>3. \A T \in sets : IsFiniteSet(T) /\ T \in SUBSET Nat
        BY <2>1
      <4> HIDE DEF sets, all
      <4> QED
        BY <4>1, <4>2, <4>3, FS_UNION
    <3>2. CASE Provider(i) # None
      <4>1. Provider(i) \in Sources
        BY <1>1, <3>2, ReplayAssumption DEF Provider
      <4> QED
        BY <2>1, <3>2, <4>1 DEF StoredBy
    <3> QED
      BY <3>1, <3>2
  <2>3. frames[s][i] = Frame(s, i)
    BY DEF InputsInv
  <2>4. frames[s][i] \in SUBSET all
    BY <2>3 DEF Frame, Rows
  <2> HIDE DEF all
  <2> QED
    BY <2>2, <2>4, FS_Subset
<1> QED
  BY <1>1, <1>2

\* Windows are too, and the one that is read is one of them.
LEMMA WindowsAreStamps ==
    ASSUME InputsInv, NEW s \in Loaded, NEW asOf \in Nat
    PROVE  /\ BarsAsOf(s, asOf) \in SUBSET Nat /\ IsFiniteSet(BarsAsOf(s, asOf))
           /\ \A t \in BarsAsOf(s, asOf) : t <= asOf + Reach
<1> DEFINE D == DOMAIN Tries
<1>1. D = 1..(Len(Providers) + 1) /\ Len(Providers) \in Nat
  BY FramesAreStamps
<1>2. \A i \in D : Window(s, i, asOf) \in SUBSET Nat /\ IsFiniteSet(Window(s, i, asOf))
  <2>1. TAKE i \in D
  <2>2. frames[s][i] \in SUBSET Nat /\ IsFiniteSet(frames[s][i])
    BY FramesAreStamps
  <2>3. Window(s, i, asOf) \in SUBSET frames[s][i]
    BY DEF Window
  <2> QED
    BY <2>2, <2>3, FS_Subset
<1>3. \A i \in D : Depth(s, i, asOf) \in Int
  BY <1>2, FS_CardinalityType, ReplayAssumption DEF Depth, Capped
<1> DEFINE best(i) == \A j \in D : IF j < i THEN Depth(s, j, asOf) < Depth(s, i, asOf)
                                           ELSE Depth(s, j, asOf) <= Depth(s, i, asOf)
<1>4. \E i \in D : best(i)
  <2> DEFINE depth == [i \in D |-> Depth(s, i, asOf)]
             R == {p \in D \X D : depth[p[2]] < depth[p[1]] \/ (depth[p[2]] = depth[p[1]] /\ p[1] <= p[2])}
  <2>1. \A i \in D : i \in Int /\ depth[i] \in Int
    BY <1>1, <1>3
  <2>2. IsFiniteSet(D) /\ 1 \in D
    BY <1>1, FS_Interval
  <2> HIDE DEF D, depth
  <2>3. /\ \A x, y \in D : <<x, y>> \in R \/ <<y, x>> \in R
        /\ \A x, y, z \in D : <<x, y>> \in R /\ <<y, z>> \in R => <<x, z>> \in R
        /\ \A x, y \in D : <<x, y>> \in R => IF y < x THEN depth[y] < depth[x] ELSE depth[y] <= depth[x]
    BY <2>1
  <2> HIDE DEF R
  <2>4. PICK i \in D : \A j \in D : <<i, j>> \in R
    BY <2>2, <2>3, FirstExists
  <2> QED
    BY <2>3, <2>4 DEF depth
<1>5. Deepest(s, asOf) = CHOOSE i \in D : best(i)
  BY DEF Deepest
<1> HIDE DEF D, best
<1>6. Deepest(s, asOf) \in D
  BY <1>4, <1>5
<1>7. \A t \in Window(s, Deepest(s, asOf), asOf) : t <= asOf + Reach
  BY DEF Window
<1> QED
  BY <1>2, <1>6, <1>7 DEF BarsAsOf

\* A decision on days reads what is stamped before the next close.
LEMMA ForesightStep == ReplayInv /\ ReplayStep => NoForesight'
<1> SUFFICES ASSUME ReplayInv, ReplayStep
             PROVE  NoForesight'
  OBVIOUS
<1>1. InputsInv /\ NightsInv /\ NoForesight /\ step < Len(dates)
  BY DEF ReplayInv, ReplayStep
<1>2. UseIntraday' = UseIntraday
  BY DEF ReplayStep, inputs, UseIntraday, FineStamps
<1>3. CASE UseIntraday
  BY <1>2, <1>3 DEF NoForesight
<1>4. CASE ~UseIntraday
  <2> DEFINE t == dates[step + 1]
  <2>1. CASE ~Runs(t)
    <3>1. seen' = seen
      BY <2>1 DEF ReplayStep, Decide
    <3> QED
      BY <1>1, <1>2, <3>1 DEF NoForesight
  <2>2. CASE Runs(t)
    <3>1. seen' = [read |-> Reads(SignalDate), at |-> t]
      BY <2>2 DEF ReplayStep, Decide
    <3>2. Len(dates) \in Nat /\ step \in 1..(Len(dates) - 1)
      BY <1>1, <2>2, DatesAscend DEF NightsInv, Runs
    <3>3. step \in 1..Len(dates) /\ step + 1 \in 1..Len(dates) /\ step < step + 1
      BY <3>2
    <3>4. SignalDate \in DateSet /\ t \in DateSet /\ SignalDate < t
      BY <1>1, <3>3, DatesAscend DEF SignalDate, Ascending
    <3>5. PICK d \in Nat, e \in Nat : SignalDate = DailyStamp(d) /\ t = DailyStamp(e)
      BY <1>1, <1>4, <3>4, DatesAreStamps
    <3>6. SignalDate \in Nat /\ t \in Nat /\ SignalDate + Reach < t
      BY <3>4, <3>5 DEF DailyStamp, Day, Close, Reach
    <3>7. \A u \in Reads(SignalDate) : u < t
      <4>1. \A s \in Loaded : DailyStamps(s) \in SUBSET Nat
        BY <1>1, ReplayAssumption DEF InputsInv, BarStamps, DailyStamps, DailyStamp, Day, Close
      <4>2. \A s \in Loaded : \A u \in BarsAsOf(s, SignalDate) : u \in Nat /\ u <= SignalDate + Reach
        BY <1>1, <3>6, WindowsAreStamps
      <4>3. \A u \in Reads(SignalDate) : u \in Nat /\ u <= SignalDate + Reach
        BY <3>6, <4>1, <4>2 DEF Reads, Reach
      <4> QED
        BY <3>6, <4>3 DEF Reach
    <3> QED
      BY <3>1, <3>7 DEF NoForesight
  <2> QED
    BY <2>1, <2>2
<1> QED
  BY <1>3, <1>4

-----------------------------------------------------------------------------
(* Coverage *)

\* Numbers that are nowhere larger add up to no more, and to less where one is smaller.
LEMMA SumsCompare ==
    ASSUME NEW S, IsFiniteSet(S), NEW f \in [S -> Int], NEW g \in [S -> Int], \A x \in S : f[x] <= g[x]
    PROVE  /\ SumFunction(f) <= SumFunction(g)
           /\ (\E x \in S : f[x] < g[x]) => SumFunction(f) < SumFunction(g)
<1>1. PICK G : SumsParts(f, S, G)
  BY SumOfParts
<1>2. PICK H : SumsParts(g, S, H)
  BY SumOfParts
<1>3. \A T \in SUBSET S : G[T] <= H[T]
  <2> DEFINE Bad == {T \in SUBSET S : ~(G[T] <= H[T])}
  <2> SUFFICES ASSUME Bad # {}
               PROVE  FALSE
    OBVIOUS
  <2>1. PICK T \in Bad : \A U \in Bad : U \subseteq T => U = T
    <3>1. Bad \in SUBSET SUBSET S
      OBVIOUS
    <3> HIDE DEF Bad
    <3> QED
      BY <3>1, LeastSubset
  <2>2. PICK x \in T : TRUE
    <3>1. ~(G[T] <= H[T]) /\ G[{}] = 0 /\ H[{}] = 0
      BY <1>1, <1>2, <2>1 DEF SumsParts
    <3> HIDE DEF Bad
    <3>2. T # {}
      BY <3>1
    <3> QED
      BY <3>2
  <2>3. T \in SUBSET S /\ T \ {x} \in SUBSET S /\ T \ {x} \subseteq T /\ T \ {x} # T
    BY <2>1, <2>2
  <2>4. G[T] = f[x] + G[T \ {x}] /\ H[T] = g[x] + H[T \ {x}]
    BY <1>1, <1>2, <2>2, <2>3 DEF SumsParts, Splits
  <2>5. G[T \ {x}] <= H[T \ {x}] /\ ~(G[T] <= H[T])
    BY <2>1, <2>3
  <2>6. G[T \ {x}] \in Int /\ H[T \ {x}] \in Int
    BY <1>1, <1>2, <2>3 DEF SumsParts
  <2>7. f[x] \in Int /\ g[x] \in Int /\ f[x] <= g[x]
    BY <2>2, <2>3
  <2> QED
    BY <2>4, <2>5, <2>6, <2>7
<1>4. SumFunction(f) = G[S] /\ SumFunction(g) = H[S] /\ S \in SUBSET S
  BY <1>1, <1>2 DEF SumsParts
<1>5. ASSUME NEW x \in S, f[x] < g[x]
      PROVE  SumFunction(f) < SumFunction(g)
  <2>1. S \ {x} \in SUBSET S
    OBVIOUS
  <2>2. G[S] = f[x] + G[S \ {x}] /\ H[S] = g[x] + H[S \ {x}]
    BY <1>1, <1>2, <1>4 DEF SumsParts, Splits
  <2>3. G[S \ {x}] \in Int /\ H[S \ {x}] \in Int /\ G[S \ {x}] <= H[S \ {x}]
    BY <1>1, <1>2, <1>3, <2>1 DEF SumsParts
  <2>4. f[x] \in Int /\ g[x] \in Int
    OBVIOUS
  <2> QED
    BY <1>4, <1>5, <2>2, <2>3, <2>4
<1> QED
  BY <1>3, <1>4, <1>5

\* A decision asks as much of every symbol, and none counts for more than that.
LEMMA CoverageStep == ReplayInv /\ ReplayStep => CoverageInv'
<1> SUFFICES ASSUME ReplayInv, ReplayStep
             PROVE  CoverageInv'
  OBVIOUS
<1>1. InputsInv /\ NightsInv /\ CoverageInv /\ step < Len(dates)
  BY DEF ReplayInv, ReplayStep
<1> DEFINE t == dates[step + 1]
<1>2. CASE ~Runs(t) \/ Lookback = 0
  <2>1. coverage' = coverage /\ (thin' => thin)
    <3>1. CASE ~Runs(t)
      BY <3>1 DEF ReplayStep, Decide
    <3>2. CASE Runs(t)
      <4>1. ~(Lookback > 0)
        BY <1>2, <3>2
      <4>2. coverage' = coverage
        BY <3>2, <4>1 DEF ReplayStep, Decide
      <4>3. thin' = (thin \/ (Lookback > 0 /\ \E s \in Loaded : Cardinality(BarsAsOf(s, SignalDate)) < Lookback))
        BY <3>2 DEF ReplayStep, Decide
      <4> QED
        BY <4>1, <4>2, <4>3
    <3> QED
      BY <3>1, <3>2
  <2> QED
    BY <1>1, <2>1 DEF CoverageInv
<1>3. CASE Runs(t) /\ Lookback > 0
  <2> DEFINE asked == [s \in Loaded |-> Lookback]
             had == [s \in Loaded |-> Supplied(s, SignalDate)]
             short == \E s \in Loaded : Cardinality(BarsAsOf(s, SignalDate)) < Lookback
  <2>1. coverage' = Covered(SignalDate) /\ thin' = (thin \/ short)
    BY <1>3 DEF ReplayStep, Decide
  <2>2. SignalDate \in Nat
    <3>1. Len(dates) \in Nat /\ step \in 1..Len(dates)
      BY <1>1, <1>3, DatesAscend DEF NightsInv, Runs
    <3> QED
      BY <1>1, <3>1, DatesAscend DEF SignalDate
  <2>3. \A s \in Loaded : Cardinality(BarsAsOf(s, SignalDate)) \in Nat
    BY <1>1, <2>2, WindowsAreStamps, FS_CardinalityType
  <2>4. asked \in [Loaded -> Int] /\ had \in [Loaded -> Int] /\ \A s \in Loaded : had[s] <= asked[s]
    BY <2>3, ReplayAssumption DEF Supplied, Capped
  <2>5. short => \E s \in Loaded : had[s] < asked[s]
    BY DEF Supplied, Capped
  <2>6. coverage'.requested = coverage.requested + SumFunction(asked)
        /\ coverage'.supplied = coverage.supplied + SumFunction(had)
    BY <2>1 DEF Covered
  <2> HIDE DEF asked, had, short
  <2>7. IsFiniteSet(Loaded)
    BY ReplayAssumption
  <2>8. SumFunction(asked) \in Int /\ SumFunction(had) \in Int /\ SumFunction(had) <= SumFunction(asked)
        /\ (short => SumFunction(had) < SumFunction(asked))
    BY <2>4, <2>5, <2>7, SumType, SumsCompare
  <2>9. coverage.requested \in Int /\ coverage.supplied \in Int /\ coverage.supplied <= coverage.requested
        /\ (thin => coverage.supplied < coverage.requested)
    BY <1>1 DEF CoverageInv
  <2>10. coverage'.requested \in Int /\ coverage'.supplied \in Int /\ coverage'.supplied <= coverage'.requested
    BY <2>6, <2>8, <2>9
  <2>11. thin' => coverage'.supplied < coverage'.requested
    <3>1. CASE thin
      BY <2>6, <2>8, <2>9, <3>1
    <3>2. CASE short
      BY <2>6, <2>8, <2>9, <3>2
    <3> QED
      BY <2>1, <3>1, <3>2
  <2> QED
    BY <2>10, <2>11 DEF CoverageInv
<1> QED
  BY <1>2, <1>3, ReplayAssumption

-----------------------------------------------------------------------------
(* The book *)

\* A fill leaves whole shares of what is loaded.
LEMMA FillHolds ==
    ASSUME NEW b, Holds(b), NEW px, DOMAIN px \subseteq Loaded, NEW o, o.shares \in Int
    PROVE  Holds(Fill(b, px, o))
<1>1. CASE o.symbol \notin DOMAIN px \/ Refused(b, px, o)
  BY <1>1 DEF Fill
<1>2. CASE ~(o.symbol \notin DOMAIN px \/ Refused(b, px, o))
  <2> DEFINE signed == IF o.side = "buy" THEN o.shares ELSE -o.shares
  <2>1. signed \in Int /\ o.symbol \in Loaded
    BY <1>2
  <2>2. Fill(b, px, o).held = [b.held EXCEPT ![o.symbol] = @ + signed] /\ "held" \in DOMAIN Fill(b, px, o)
    BY <1>2 DEF Fill
  <2> QED
    BY <2>1, <2>2 DEF Holds
<1> QED
  BY <1>1, <1>2

\* Marking moves no shares.
LEMMA MarksHold ==
    ASSUME NEW b, Holds(b), NEW px
    PROVE  Holds(MarkPrices(b, px)) /\ MarkPrices(b, px).held = b.held
BY DEF Holds, MarkPrices

\* The books between the orders: there are such, and each of them holds whole shares.
LEMMA TradedHolds ==
    ASSUME NEW b, Holds(b), NEW px, DOMAIN px \subseteq Loaded, NEW orders \in Orders
    PROVE  Holds(Traded(b, px, orders))
<1> DEFINE n == Len(orders)
           Books(m, A) == A = [i \in 0..m |-> IF i = 0 THEN b ELSE Fill(A[i - 1], px, orders[i])]
<1>1. n \in Nat /\ \A i \in 1..n : orders[i].shares \in Int
  BY ReplayAssumption
<1>2. Traded(b, px, orders) = (CHOOSE A : Books(n, A))[n]
  BY DEF Traded
<1> HIDE DEF n
<1>3. \A m \in 0..n : \E A : Books(m, A)
  <2> DEFINE Bad == {m \in 0..n : ~\E A : Books(m, A)}
  <2> SUFFICES ASSUME Bad # {}
               PROVE  FALSE
    OBVIOUS
  <2>1. Bad \in SUBSET Int /\ IsFiniteSet(Bad)
    <3>1. IsFiniteSet(0..n) /\ Bad \in SUBSET (0..n)
      BY <1>1, FS_Interval
    <3>2. \A i \in 0..n : i \in Int
      BY <1>1
    <3> HIDE DEF Bad
    <3>3. IsFiniteSet(Bad)
      BY <3>1, FS_Subset
    <3> QED
      BY <3>1, <3>2, <3>3
  <2>2. PICK m \in Bad : \A k \in Bad : m <= k
    <3> HIDE DEF Bad
    <3> QED
      BY <2>1, NumbersEnd
  <2>3. m \in 0..n /\ m \in Int /\ ~\E A : Books(m, A)
    BY <1>1, <2>2
  <2>4. m # 0
    <3>1. Books(0, [i \in 0..0 |-> b])
      OBVIOUS
    <3> QED
      BY <2>3, <3>1
  <2>5. m - 1 \in 0..n /\ m - 1 \notin Bad
    BY <1>1, <2>2, <2>3, <2>4
  <2>6. PICK A : Books(m - 1, A)
    BY <2>5
  <2> DEFINE B == [i \in 0..m |-> IF i = m THEN Fill(A[m - 1], px, orders[m]) ELSE A[i]]
  <2>7. \A i \in 0..m : B[i] = IF i = 0 THEN b ELSE Fill(B[i - 1], px, orders[i])
    <3>1. TAKE i \in 0..m
    <3>2. CASE i = m
      BY <1>1, <2>3, <2>4, <3>2
    <3>3. CASE i # m
      <4>1. i \in 0..(m - 1) /\ B[i] = A[i] /\ (i # 0 => B[i - 1] = A[i - 1])
        BY <1>1, <2>3, <2>4, <3>3
      <4>2. A[i] = IF i = 0 THEN b ELSE Fill(A[i - 1], px, orders[i])
        BY <2>6, <4>1
      <4> QED
        BY <4>1, <4>2
    <3> QED
      BY <3>2, <3>3
  <2>8. Books(m, B)
    <3>1. B = [i \in 0..m |-> B[i]]
      OBVIOUS
    <3> HIDE DEF B
    <3> QED
      BY <2>7, <3>1
  <2> QED
    BY <2>3, <2>8
<1> DEFINE C == CHOOSE A : Books(n, A)
<1>4. Books(n, C)
  <2>1. \E A : Books(n, A)
    BY <1>1, <1>3
  <2> HIDE DEF Books
  <2> QED
    BY <2>1
<1> HIDE DEF C
<1>5. \A i \in 0..n : Holds(C[i])
  <2> DEFINE Bad == {m \in 0..n : ~Holds(C[m])}
  <2> SUFFICES ASSUME Bad # {}
               PROVE  FALSE
    OBVIOUS
  <2>1. Bad \in SUBSET Int /\ IsFiniteSet(Bad)
    <3>1. IsFiniteSet(0..n) /\ Bad \in SUBSET (0..n)
      BY <1>1, FS_Interval
    <3>2. \A i \in 0..n : i \in Int
      BY <1>1
    <3> HIDE DEF Bad
    <3>3. IsFiniteSet(Bad)
      BY <3>1, FS_Subset
    <3> QED
      BY <3>1, <3>2, <3>3
  <2>2. PICK m \in Bad : \A k \in Bad : m <= k
    <3> HIDE DEF Bad
    <3> QED
      BY <2>1, NumbersEnd
  <2>3. m \in 0..n /\ m \in Int /\ ~Holds(C[m])
    BY <1>1, <2>2
  <2>4. m # 0
    BY <1>4, <2>3
  <2>5. m - 1 \in 0..n /\ m - 1 \notin Bad /\ m \in 1..n
    BY <1>1, <2>2, <2>3, <2>4
  <2>6. Holds(C[m - 1]) /\ orders[m].shares \in Int
    BY <1>1, <2>5
  <2>7. C[m] = Fill(C[m - 1], px, orders[m])
    BY <1>4, <2>3, <2>4
  <2> QED
    BY <2>3, <2>6, <2>7, FillHolds
<1> QED
  BY <1>1, <1>2, <1>5 DEF C

\* Without orders the book stays as it is.
LEMMA NothingTraded ==
    ASSUME NEW b, NEW px
    PROVE  Traded(b, px, <<>>) = b
<1> DEFINE Books(A) == A = [i \in 0..0 |-> IF i = 0 THEN b ELSE Fill(A[i - 1], px, <<>>[i])]
           C == CHOOSE A : Books(A)
<1>1. Traded(b, px, <<>>) = C[0]
  BY DEF Traded
<1>2. Books([i \in 0..0 |-> b])
  OBVIOUS
<1>3. Books(C)
  <2>1. \E A : Books(A)
    BY <1>2
  <2> HIDE DEF Books
  <2> QED
    BY <2>1
<1> HIDE DEF C
<1> QED
  BY <1>1, <1>3

\* What a step does to the book, to what is owed and to what was received.
StepDoes(t, h, after) ==
    /\ h \in [Loaded -> Int] /\ after \in [Loaded -> Int] /\ (step > 0 => h = book.held)
    /\ pending' = {p \in pending \cup Earned(t, h) : ~(p.due <= t)}
    /\ income' = income + Owing({p \in pending \cup Earned(t, h) : p.due <= t})
    /\ nights' = Append(nights, after) /\ Holds(book') /\ book'.held = after

\* A step does that: it pays what is due of what is owed and earned, and then trades.
LEMMA StepIs ==
    ASSUME InputsInv, NightsInv, ReplayStep
    PROVE  \E h, after : StepDoes(dates[step + 1], h, after)
<1> DEFINE t == dates[step + 1]
<1>1. PICK px \in [Closing(t) -> Prices], orders \in (IF Runs(t) THEN Orders ELSE {<<>>}) :
        LET opened == IF step = 0 /\ OpenIn # None THEN Opened(book, px) ELSE book
            earned == pending \cup Earned(t, opened.held)
            due    == {p \in earned : p.due <= t}
            paid   == SumFunction([p \in due |-> p.value])
            marked == MarkPrices([opened EXCEPT !.cash = @ + paid], px)
            traded == Traded(marked, px, orders)
        IN  /\ pending' = earned \ due
            /\ income' = income + paid
            /\ book' = MarkPrices(traded, px)
            /\ nights' = Append(nights, traded.held)
  BY DEF ReplayStep
<1> DEFINE opened == IF step = 0 /\ OpenIn # None THEN Opened(book, px) ELSE book
           earned == pending \cup Earned(t, opened.held)
           paid == Owing({p \in earned : p.due <= t})
           marked == MarkPrices([opened EXCEPT !.cash = @ + paid], px)
           traded == Traded(marked, px, orders)
<1>2. /\ pending' = {p \in earned : ~(p.due <= t)} /\ income' = income + paid
      /\ book' = MarkPrices(traded, px) /\ nights' = Append(nights, traded.held)
  BY <1>1 DEF Owing
<1>3. DOMAIN px \subseteq Loaded
  BY DEF Closing
<1>4. Holds(opened) /\ (step > 0 => opened = book)
  <2>1. Holds(book)
    BY DEF NightsInv
  <2>2. CASE step = 0 /\ OpenIn # None /\ OpenIn \in DOMAIN px
    <3> DEFINE o == [symbol |-> OpenIn, side |-> "buy", shares |-> OpeningShares(book, px)]
    <3>1. book.cash \in Nat /\ px[OpenIn] + Spread \in Nat \ {0}
      <4>1. book.cash \in Nat
        BY <2>2, ReplayAssumption DEF NightsInv
      <4>2. px[OpenIn] \in Prices
        BY <1>1, <2>2
      <4>3. px[OpenIn] \in Nat \ {0} /\ Spread \in Nat
        BY <4>2, ReplayAssumption
      <4> QED
        BY <4>1, <4>3
    <3>2. OpeningShares(book, px) \in Int
      BY <3>1 DEF OpeningShares
    <3>3. Holds(Fill(book, px, o))
      <4>1. o.shares \in Int
        BY <3>2
      <4> HIDE DEF o
      <4> QED
        BY <1>3, <2>1, <4>1, FillHolds
    <3> QED
      BY <2>1, <2>2, <3>3 DEF Opened
  <2>3. CASE ~(step = 0 /\ OpenIn # None /\ OpenIn \in DOMAIN px)
    BY <2>1, <2>3 DEF Opened
  <2> QED
    BY <2>2, <2>3
<1> HIDE DEF opened, paid
<1>5. Holds([opened EXCEPT !.cash = @ + paid])
  BY <1>4 DEF Holds
<1>6. Holds(marked)
  BY <1>5, MarksHold
<1> HIDE DEF marked
<1>7. Holds(traded)
  <2>1. CASE Runs(t)
    BY <1>1, <1>3, <1>6, <2>1, TradedHolds
  <2>2. CASE ~Runs(t)
    <3>1. orders = <<>>
      BY <1>1, <2>2
    <3>2. traded = marked
      BY <3>1, NothingTraded
    <3> QED
      BY <1>6, <3>2
  <2> QED
    BY <2>1, <2>2
<1> HIDE DEF traded
<1>8. Holds(book') /\ book'.held = traded.held
  BY <1>2, <1>7, MarksHold
<1>9. StepDoes(t, opened.held, traded.held)
  <2>1. opened.held \in [Loaded -> Int] /\ traded.held \in [Loaded -> Int] /\ (step > 0 => opened.held = book.held)
    BY <1>4, <1>7 DEF Holds
  <2>2. income' = income + Owing({p \in earned : p.due <= t})
    BY <1>2 DEF paid
  <2> QED
    BY <1>2, <1>8, <2>1, <2>2 DEF StepDoes
<1> QED
  BY <1>9

\* A step adds a night, and the book holds what was held over it.
LEMMA NightsStep == ReplayInv /\ ReplayStep => NightsInv'
<1> SUFFICES ASSUME ReplayInv, ReplayStep
             PROVE  NightsInv'
  OBVIOUS
<1>1. InputsInv /\ NightsInv /\ step < Len(dates) /\ step' = step + 1 /\ dates' = dates
  BY DEF ReplayInv, ReplayStep, inputs
<1>2. PICK h, after : StepDoes(dates[step + 1], h, after)
  BY <1>1, StepIs
<1>3. Len(dates) \in Nat /\ step \in 0..Len(dates) /\ nights \in Seq([Loaded -> Int]) /\ Len(nights) = step
  BY <1>1, DatesAscend DEF NightsInv
<1>4. after \in [Loaded -> Int] /\ nights' = Append(nights, after) /\ Holds(book') /\ book'.held = after
  BY <1>2 DEF StepDoes
<1>5. step' \in 0..Len(dates) /\ nights' \in Seq([Loaded -> Int]) /\ Len(nights') = step' /\ nights'[step'] = after
  BY <1>1, <1>3, <1>4
<1>6. step' # 0
  BY <1>1, <1>3
<1> QED
  BY <1>1, <1>4, <1>5, <1>6 DEF NightsInv, Holds

-----------------------------------------------------------------------------
(* Sums in other orders *)

\* A sum over two sets apart is the sum over each.
LEMMA PartsAdd ==
    ASSUME NEW S, IsFiniteSet(S), NEW f \in [S -> Int], NEW G, SumsParts(f, S, G),
           NEW A \in SUBSET S, NEW B \in SUBSET S, A \cap B = {}
    PROVE  G[A \cup B] = G[A] + G[B]
<1> DEFINE Bad == {T \in SUBSET S : T \in SUBSET B /\ G[A \cup T] # G[A] + G[T]}
<1> SUFFICES ASSUME Bad # {}
             PROVE  FALSE
  OBVIOUS
<1>1. PICK T \in Bad : \A U \in Bad : U \subseteq T => U = T
  <2>1. Bad \in SUBSET SUBSET S
    OBVIOUS
  <2> HIDE DEF Bad
  <2> QED
    BY <2>1, LeastSubset
<1>2. T \in SUBSET S /\ T \in SUBSET B /\ G[A \cup T] # G[A] + G[T]
  BY <1>1
<1>3. G \in [SUBSET S -> Int] /\ G[{}] = 0 /\ Splits(f, S, G)
  BY DEF SumsParts
<1>4. PICK x \in T : TRUE
  <2>1. ASSUME T = {}
        PROVE  FALSE
    <3>1. A \cup T = A
      BY <2>1
    <3>2. G[A] \in Int /\ G[T] = 0
      BY <1>3, <2>1
    <3>3. G[A] = G[A] + G[T]
      BY <3>2
    <3> QED
      BY <1>2, <3>1, <3>3
  <2>2. T # {}
    BY <2>1
  <2> QED
    BY <2>2
<1> DEFINE U == T \ {x}
<1>5. U \in SUBSET S /\ U \in SUBSET B /\ U \subseteq T /\ U # T /\ A \cup T \in SUBSET S /\ A \cup U \in SUBSET S
      /\ (A \cup T) \ {x} = A \cup U /\ x \in A \cup T /\ x \in S
  BY <1>2, <1>4
<1>6. G[A \cup U] = G[A] + G[U]
  <2>1. U \notin Bad
    BY <1>1, <1>5
  <2> HIDE DEF U
  <2> QED
    BY <1>5, <2>1
<1>7. G[A \cup T] = f[x] + G[(A \cup T) \ {x}] /\ G[T] = f[x] + G[U]
  BY <1>2, <1>3, <1>4, <1>5 DEF Splits
<1>8. f[x] \in Int /\ G[U] \in Int /\ G[A] \in Int
  BY <1>3, <1>5
<1>9. G[A \cup T] = f[x] + (G[A] + G[U])
  BY <1>5, <1>6, <1>7
<1> HIDE DEF U
<1>10. G[A \cup T] = G[A] + G[T]
  BY <1>7, <1>8, <1>9
<1> QED
  BY <1>2, <1>10

\* So does SumFunction.
LEMMA SumUnion ==
    ASSUME NEW S, IsFiniteSet(S), NEW T, IsFiniteSet(T), S \cap T = {}, NEW f \in [S \cup T -> Int]
    PROVE  SumFunction(f) = SumFunction(Restrict(f, S)) + SumFunction(Restrict(f, T))
<1>1. IsFiniteSet(S \cup T) /\ S \in SUBSET (S \cup T) /\ T \in SUBSET (S \cup T)
  BY FS_Union
<1>2. PICK G : SumsParts(f, S \cup T, G)
  BY <1>1, SumOfParts
<1>3. G[S \cup T] = G[S] + G[T]
  BY <1>1, <1>2, PartsAdd
<1>4. SumFunction(Restrict(f, S)) = G[S] /\ SumFunction(Restrict(f, T)) = G[T] /\ SumFunction(f) = G[S \cup T]
  BY <1>1, <1>2 DEF SumsParts
<1> QED
  BY <1>3, <1>4

\* The members of S that a key puts in U.
Keyed(S, key, U) == {x \in S : key[x] \in U}

\* The numbers of S summed by key.
Groups(S, f, T, key, g) ==
    /\ IsFiniteSet(S) /\ f \in [S -> Int] /\ IsFiniteSet(T) /\ key \in [S -> T] /\ g \in [T -> Int]
    /\ \A k \in T : g[k] = SumFunction([x \in Keyed(S, key, {k}) |-> f[x]])

\* The sum of those sums is the sum of all.
LEMMA SumGroups ==
    ASSUME NEW S, NEW f, NEW T, NEW key, NEW g, Groups(S, f, T, key, g)
    PROVE  SumFunction(f) = SumFunction(g)
<1>0. /\ IsFiniteSet(S) /\ f \in [S -> Int] /\ IsFiniteSet(T) /\ key \in [S -> T] /\ g \in [T -> Int]
      /\ \A k \in T : g[k] = SumFunction([x \in Keyed(S, key, {k}) |-> f[x]])
  BY DEF Groups
<1>1. PICK G : SumsParts(f, S, G)
  BY <1>0, SumOfParts
<1>2. PICK H : SumsParts(g, T, H)
  BY <1>0, SumOfParts
<1>3. \A U \in SUBSET T : Keyed(S, key, U) \in SUBSET S
  BY DEF Keyed
<1>4. \A k \in T : g[k] = G[Keyed(S, key, {k})]
  <2>1. TAKE k \in T
  <2>2. Keyed(S, key, {k}) \in SUBSET S
    BY <1>3
  <2>3. SumFunction(Restrict(f, Keyed(S, key, {k}))) = G[Keyed(S, key, {k})]
    BY <1>1, <2>2 DEF SumsParts
  <2> QED
    BY <1>0, <2>3 DEF Restrict
<1>5. \A U \in SUBSET T : H[U] = G[Keyed(S, key, U)]
  <2> DEFINE Bad == {U \in SUBSET T : H[U] # G[Keyed(S, key, U)]}
  <2> SUFFICES ASSUME Bad # {}
               PROVE  FALSE
    OBVIOUS
  <2>1. PICK U \in Bad : \A V \in Bad : V \subseteq U => V = U
    <3>1. Bad \in SUBSET SUBSET T
      OBVIOUS
    <3> HIDE DEF Bad
    <3> QED
      BY <1>0, <3>1, LeastSubset
  <2>2. U \in SUBSET T /\ H[U] # G[Keyed(S, key, U)]
    BY <2>1
  <2>3. PICK k \in U : TRUE
    <3>1. Keyed(S, key, {}) = {}
      BY DEF Keyed
    <3>2. H[{}] = 0 /\ G[{}] = 0
      BY <1>1, <1>2 DEF SumsParts
    <3>3. U # {}
      BY <2>2, <3>1, <3>2
    <3> QED
      BY <3>3
  <2> DEFINE V == U \ {k}
  <2>4. V \in SUBSET T /\ V \subseteq U /\ V # U /\ k \in T
    BY <2>2, <2>3
  <2>5. H[V] = G[Keyed(S, key, V)]
    <3>1. V \notin Bad
      BY <2>1, <2>4
    <3> HIDE DEF V
    <3> QED
      BY <2>4, <3>1
  <2>6. H[U] = g[k] + H[V]
    BY <1>2, <2>2, <2>3 DEF SumsParts, Splits
  <2>7. Keyed(S, key, U) = Keyed(S, key, {k}) \cup Keyed(S, key, V)
        /\ Keyed(S, key, {k}) \cap Keyed(S, key, V) = {}
    BY <1>0, <2>2, <2>3 DEF Keyed
  <2>8. Keyed(S, key, {k}) \in SUBSET S /\ Keyed(S, key, V) \in SUBSET S
    BY DEF Keyed
  <2> HIDE DEF V
  <2>9. G[Keyed(S, key, U)] = G[Keyed(S, key, {k})] + G[Keyed(S, key, V)]
    <3> DEFINE A == Keyed(S, key, {k})
               B == Keyed(S, key, V)
    <3>1. A \in SUBSET S /\ B \in SUBSET S /\ A \cap B = {}
      BY <2>7, <2>8
    <3> HIDE DEF A, B
    <3>2. G[A \cup B] = G[A] + G[B]
      BY <1>0, <1>1, <3>1, PartsAdd
    <3> QED
      BY <2>7, <3>2 DEF A, B
  <2> QED
    BY <1>4, <2>2, <2>4, <2>5, <2>6, <2>9
<1>6. T \in SUBSET T /\ Keyed(S, key, T) = S
  BY <1>0 DEF Keyed
<1>7. SumFunction(f) = G[S] /\ SumFunction(g) = H[T]
  BY <1>1, <1>2 DEF SumsParts
<1> QED
  BY <1>5, <1>6, <1>7

\* The sum of one number, and of none.
LEMMA SumOfOne ==
    ASSUME NEW x, NEW f \in [{x} -> Int]
    PROVE  SumFunction(f) = f[x]
<1>1. IsFiniteSet({x})
  BY FS_Singleton
<1>2. PICK G : SumsParts(f, {x}, G)
  BY <1>1, SumOfParts
<1>3. {x} \in SUBSET {x} /\ x \in {x} /\ {x} \ {x} = {}
  OBVIOUS
<1>4. G[{x}] = f[x] + G[{x} \ {x}] /\ G[{}] = 0 /\ SumFunction(f) = G[{x}]
  BY <1>2, <1>3 DEF SumsParts, Splits
<1>5. f[x] \in Int
  BY <1>3
<1>6. G[{x}] = f[x] + 0
  BY <1>3, <1>4
<1> QED
  BY <1>4, <1>5, <1>6

\* A factor common to all is one of the sum.
LEMMA SumScaled ==
    ASSUME NEW S, IsFiniteSet(S), NEW f \in [S -> Int], NEW c \in Int
    PROVE  SumFunction([x \in S |-> c * f[x]]) = c * SumFunction(f)
<1> DEFINE g == [x \in S |-> c * f[x]]
<1>1. g \in [S -> Int]
  BY Products
<1>2. PICK G : SumsParts(f, S, G)
  BY SumOfParts
<1>3. \A x \in S : g[x] = c * f[x]
  OBVIOUS
<1> HIDE DEF g
<1>4. PICK H : SumsParts(g, S, H)
  BY <1>1, SumOfParts
<1>5. \A T \in SUBSET S : H[T] = c * G[T]
  <2> DEFINE Bad == {T \in SUBSET S : H[T] # c * G[T]}
  <2> SUFFICES ASSUME Bad # {}
               PROVE  FALSE
    OBVIOUS
  <2>1. PICK T \in Bad : \A U \in Bad : U \subseteq T => U = T
    <3>1. Bad \in SUBSET SUBSET S
      OBVIOUS
    <3> HIDE DEF Bad
    <3> QED
      BY <3>1, LeastSubset
  <2>2. T \in SUBSET S /\ H[T] # c * G[T]
    BY <2>1
  <2>3. PICK x \in T : TRUE
    <3>1. H[{}] = 0 /\ G[{}] = 0 /\ c * 0 = 0
      BY <1>2, <1>4 DEF SumsParts
    <3>2. T # {}
      BY <2>2, <3>1
    <3> QED
      BY <3>2
  <2>4. T \ {x} \in SUBSET S /\ T \ {x} \subseteq T /\ T \ {x} # T /\ x \in S
    BY <2>2, <2>3
  <2>5. H[T \ {x}] = c * G[T \ {x}]
    BY <2>1, <2>4
  <2>6. H[T] = g[x] + H[T \ {x}] /\ G[T] = f[x] + G[T \ {x}]
    BY <1>2, <1>4, <2>2, <2>3 DEF SumsParts, Splits
  <2>7. G[T \ {x}] \in Int /\ f[x] \in Int
    BY <1>2, <2>4 DEF SumsParts
  <2>8. \A a, b \in Int : c * (a + b) = c * a + c * b
    BY SMTT(30)
  <2> QED
    BY <1>3, <2>2, <2>4, <2>5, <2>6, <2>7, <2>8
<1>6. S \in SUBSET S /\ SumFunction(f) = G[S] /\ SumFunction(g) = H[S]
  BY <1>2, <1>4 DEF SumsParts
<1> QED
  BY <1>5, <1>6 DEF g

-----------------------------------------------------------------------------
(* The ledger *)

\* What is reported names a symbol that is loaded, a day and an amount.
LEMMA FeedIs ==
    ASSUME InputsInv
    PROVE  IsFiniteSet(feed) /\ \A r \in feed : Report(r)
BY ReplayAssumption DEF InputsInv

\* The payments are finitely many: a symbol, a day and an amount each.
LEMMA PaymentsAre ==
    ASSUME InputsInv
    PROVE  /\ IsFiniteSet(Payments)
           /\ \A p \in Payments :
                /\ p = <<p[1], p[2], p[3]>> /\ p[1] \in Loaded /\ p[2] \in Nat /\ p[3] \in Int
                /\ <<p[1], p[2]>> \in Keys /\ p[3] \in Amounts(<<p[1], p[2]>>)
           /\ \A s, d, a : a \in Amounts(<<s, d>>) => <<s, d, a>> \in Payments
<1> DEFINE paid == {x \in feed : x.amount > 0}
           of == [r \in paid |-> <<r.symbol, r.ex, r.amount>>]
<1>1. IsFiniteSet(paid)
  BY FeedIs, FS_Subset
<1>2. Payments = {of[r] : r \in paid}
  BY DEF Payments
<1>3. IsFiniteSet(Payments)
  <2> HIDE DEF of, paid
  <2> QED
    BY <1>1, <1>2, ImageFinite
<1>4. ASSUME NEW p \in Payments
      PROVE  /\ p = <<p[1], p[2], p[3]>> /\ p[1] \in Loaded /\ p[2] \in Nat /\ p[3] \in Int
             /\ <<p[1], p[2]>> \in Keys /\ p[3] \in Amounts(<<p[1], p[2]>>)
  <2>1. PICK r \in feed : r.amount > 0 /\ p = <<r.symbol, r.ex, r.amount>>
    BY DEF Payments
  <2>2. p[1] = r.symbol /\ p[2] = r.ex /\ p[3] = r.amount
    BY <2>1
  <2>3. Report(r)
    BY FeedIs
  <2>4. r \in ReportsOf(<<p[1], p[2]>>)
    BY <2>1, <2>2 DEF ReportsOf
  <2> QED
    BY <2>1, <2>2, <2>3, <2>4 DEF Report, Keys, Amounts
<1>5. ASSUME NEW s, NEW d, NEW a, a \in Amounts(<<s, d>>)
      PROVE  <<s, d, a>> \in Payments
  <2>1. PICK r \in feed : r.amount > 0 /\ <<r.symbol, r.ex>> = <<s, d>> /\ a = r.amount
    BY <1>5 DEF Amounts, ReportsOf
  <2>2. r.symbol = s /\ r.ex = d
    BY <2>1
  <2> QED
    BY <2>1, <2>2 DEF Payments
<1> QED
  BY <1>3, <1>4, <1>5

\* A row is its symbol's and its day's, with a date it is paid on.
LEMMA RowsAre ==
    ASSUME InputsInv, NEW key \in Keys, ReportsOf(key) # {}
    PROVE  /\ key = <<key[1], key[2]>> /\ key[1] \in Loaded /\ key[2] \in Nat
           /\ IsFiniteSet(Amounts(key)) /\ Amounts(key) \in SUBSET Int
           /\ Row(key).symbol = key[1] /\ Row(key).ex = key[2]
           /\ Row(key).amount = SumFunction([a \in Amounts(key) |-> a]) /\ Row(key).amount \in Int
           /\ Row(key).payable \in Nat
<1> DEFINE R == ReportsOf(key)
<1>1. key = <<key[1], key[2]>> /\ key[1] \in Loaded /\ key[2] \in Nat
  <2>1. PICK r \in feed : key = <<r.symbol, r.ex>>
    BY DEF Keys
  <2> QED
    BY <2>1, FeedIs DEF Report
<1>2. R \in SUBSET feed /\ IsFiniteSet(R)
  BY FeedIs, FS_Subset DEF ReportsOf
<1>3. \A r \in R : r.amount \in Int /\ r.id \in Int /\ r.payable \in Nat \cup {NoDate}
  BY <1>2, FeedIs DEF Report
<1>4. IsFiniteSet(Amounts(key)) /\ Amounts(key) \in SUBSET Int
  <2> DEFINE of == [r \in R |-> r.amount]
  <2>1. IsFiniteSet({of[r] : r \in R})
    <3> HIDE DEF of, R
    <3> QED
      BY <1>2, ImageFinite
  <2> QED
    BY <1>3, <2>1 DEF Amounts
<1>5. \A Q \in SUBSET R : Q # {} => (\E r \in Q : \A q \in Q : r.id <= q.id) /\ (\E r \in Q : \A q \in Q : q.id <= r.id)
  <2>1. TAKE Q \in SUBSET R
  <2>2. HAVE Q # {}
  <2> DEFINE of == [r \in Q |-> r.id]
             ids == {of[r] : r \in Q}
  <2>3. IsFiniteSet(Q)
    BY <1>2, FS_Subset
  <2>4. IsFiniteSet(ids)
    <3> HIDE DEF of
    <3> QED
      BY <2>3, ImageFinite
  <2>5. ids \in SUBSET Int /\ ids # {}
    BY <1>3, <2>2
  <2>6. (\E x \in ids : \A y \in ids : x <= y) /\ (\E x \in ids : \A y \in ids : y <= x)
    <3> HIDE DEF ids
    <3> QED
      BY <2>4, <2>5, NumbersEnd
  <2> QED
    BY <2>6
<1>6. FirstReport(key) \in R
  <2> DEFINE first == CHOOSE r \in R : \A q \in R : r.id <= q.id
             same == {r \in R : r.amount = first.amount}
  <2>1. first \in R
    BY <1>5
  <2>2. same \in SUBSET R /\ same # {}
    <3> HIDE DEF first
    <3> QED
      BY <2>1
  <2>3. FirstReport(key) = CHOOSE r \in same : \A q \in same : r.id >= q.id
    BY DEF FirstReport
  <2> HIDE DEF same
  <2>4. \E r \in same : \A q \in same : r.id >= q.id
    <3>1. PICK r \in same : \A q \in same : q.id <= r.id
      BY <1>5, <2>2
    <3>2. \A q \in same : q.id \in Int
      BY <1>3, <2>2
    <3> QED
      BY <3>1, <3>2
  <2> QED
    BY <2>2, <2>3, <2>4
<1>7. Row(key).symbol = key[1] /\ Row(key).ex = key[2] /\ Row(key).amount = SumFunction([a \in Amounts(key) |-> a])
  BY DEF Row, Total
<1>8. Row(key).payable \in Nat
  BY <1>1, <1>3, <1>6 DEF Row
<1>9. SumFunction([a \in Amounts(key) |-> a]) \in Int
  <2>1. [a \in Amounts(key) |-> a] \in [Amounts(key) -> Int]
    BY <1>4
  <2> QED
    BY <1>4, <2>1, SumType
<1> QED
  BY <1>1, <1>4, <1>7, <1>8, <1>9

\* The first date at or after a time.
LEMMA LandingIs ==
    ASSUME InputsInv, NEW m \in Nat, m <= Final
    PROVE  /\ Landing(m) \in Range(dates) /\ m <= Landing(m)
           /\ \A v \in Range(dates) : m <= v => Landing(m) <= v
<1> DEFINE later == {u \in Range(dates) : m <= u}
<1>1. Range(dates) \in SUBSET Nat /\ IsFiniteSet(Range(dates))
  BY DatesAscend, DatesAreStamps
<1>2. Final \in Range(dates)
  <2>1. Len(dates) \in DOMAIN dates
    BY DatesAscend
  <2> QED
    BY <2>1 DEF Range, Final
<1>3. later \in SUBSET Int /\ IsFiniteSet(later) /\ later # {}
  <2>1. later \in SUBSET Range(dates)
    OBVIOUS
  <2>2. IsFiniteSet(later)
    BY <1>1, <2>1, FS_Subset
  <2> QED
    BY <1>1, <1>2, <2>2
<1>4. PICK u \in later : \A v \in later : u <= v
  <2> HIDE DEF later
  <2> QED
    BY <1>3, NumbersEnd
<1>5. u \in Range(dates) /\ u >= m /\ \A v \in Range(dates) : v >= m => v >= u
  BY <1>1, <1>4
<1>6. Landing(m) \in Range(dates) /\ Landing(m) >= m /\ \A v \in Range(dates) : v >= m => v >= Landing(m)
  BY <1>5 DEF Landing
<1> QED
  BY <1>1, <1>6

\* A payment is due on a date of the replay, and not before it is earned.
LEMMA PayableIs ==
    ASSUME InputsInv, NEW t \in Range(dates), NEW row, row.payable \in Nat
    PROVE  PayableOn(t, row) \in Range(dates) /\ t <= PayableOn(t, row)
<1> DEFINE due == IF Midnight(row.payable) <= Final THEN Landing(Midnight(row.payable)) ELSE Final
<1>1. Midnight(row.payable) \in Nat
  BY DEF Midnight, Day
<1>2. Range(dates) \in SUBSET Nat /\ Final \in Range(dates)
  <2>1. Len(dates) \in DOMAIN dates
    BY DatesAscend
  <2> QED
    BY <2>1, DatesAscend, DatesAreStamps DEF Range, Final
<1>3. due \in Range(dates)
  BY <1>1, <1>2, LandingIs
<1>4. PayableOn(t, row) = IF due > t THEN due ELSE t
  BY DEF PayableOn
<1> HIDE DEF due
<1> QED
  BY <1>2, <1>3, <1>4

\* What goes ex after one date and until the next is on the schedule of that next date.
LEMMA ScheduleIs ==
    ASSUME InputsInv, NEW k \in 0..(Len(dates) - 1), NEW key \in Keys, ReportsOf(key) # {}
    PROVE  Row(key) \in schedule[dates[k + 1]] <=>
             /\ First <= Midnight(key[2]) /\ Midnight(key[2]) <= dates[k + 1]
             /\ k > 0 => dates[k] < Midnight(key[2])
<1> DEFINE t == dates[k + 1]
           m == Midnight(key[2])
           n == Len(dates)
<1>1. n \in Nat \ {0} /\ k \in Int /\ k + 1 \in 1..n /\ (k > 0 => k \in 1..n)
  BY DatesAscend
<1>2. /\ t \in Nat /\ t \in Range(dates) /\ t <= Final /\ First <= t /\ Final \in Nat /\ First \in Nat
      /\ (k > 0 => dates[k] \in Nat /\ dates[k] < t /\ dates[k] \in Range(dates))
  <2>1. t \in Nat /\ t <= Final /\ First <= t /\ Final \in Nat /\ First \in Nat
    BY <1>1, DatesAscend
  <2>2. k + 1 \in DOMAIN dates /\ (k > 0 => k \in DOMAIN dates /\ dates[k] \in Nat)
    BY <1>1, DatesAscend
  <2>3. k > 0 => dates[k] < t
    BY <1>1, DatesAscend DEF Ascending
  <2> QED
    BY <2>1, <2>2, <2>3 DEF Range
<1>3. m \in Nat /\ Row(key).ex = key[2] /\ Row(key) \in Ledger
  <2>1. key[2] \in Nat /\ Row(key).ex = key[2]
    BY RowsAre
  <2>2. m \in Nat
    BY <2>1 DEF Midnight, Day
  <2>3. Row(key) \in Ledger
    BY DEF Ledger
  <2> QED
    BY <2>1, <2>2, <2>3
<1>4. Row(key) \in schedule[t] <=> First <= m /\ m <= Final /\ Landing(m) = t
  BY <1>2, <1>3 DEF InputsInv, DividendSchedule
<1>5. ASSUME First <= m, m <= Final, Landing(m) = t
      PROVE  m <= t /\ (k > 0 => dates[k] < m)
  <2>1. m <= t /\ \A v \in Range(dates) : m <= v => t <= v
    BY <1>3, <1>5, LandingIs
  <2> QED
    BY <1>2, <1>3, <2>1
<1>6. ASSUME First <= m, m <= t, k > 0 => dates[k] < m
      PROVE  m <= Final /\ Landing(m) = t
  <2>1. m <= Final
    BY <1>2, <1>3, <1>6
  <2>2. Landing(m) \in Range(dates) /\ m <= Landing(m) /\ Landing(m) <= t
    BY <1>2, <1>3, <1>6, <2>1, LandingIs
  <2>3. PICK j \in 1..n : Landing(m) = dates[j]
    <3>1. DOMAIN dates = 1..n
      BY DatesAscend
    <3> QED
      BY <2>2, <3>1 DEF Range
  <2>4. dates[j] \in Nat /\ m <= dates[j] /\ dates[j] <= t
    BY <2>2, <2>3, DatesAscend
  <2>5. \A x, y \in 1..n : x < y => dates[x] < dates[y]
    BY DatesAscend DEF Ascending
  <2>6. ~(k + 1 < j)
    BY <1>1, <1>2, <2>4, <2>5
  <2>7. ~(j < k + 1)
    <3> SUFFICES ASSUME j < k + 1
                 PROVE  FALSE
      OBVIOUS
    <3>1. k > 0 /\ k \in 1..n /\ (j = k \/ j < k)
      BY <1>1, <2>3
    <3>2. dates[j] <= dates[k]
      BY <1>2, <2>4, <2>5, <3>1
    <3> QED
      BY <1>2, <1>3, <1>6, <2>4, <3>1, <3>2
  <2>8. j = k + 1
    BY <1>1, <2>3, <2>6, <2>7
  <2> QED
    BY <2>1, <2>3, <2>8
<1> HIDE DEF m, t
<1>7. m \in Nat /\ t \in Nat /\ Final \in Nat
  BY <1>2, <1>3
<1>8. Row(key) \in schedule[t] <=> First <= m /\ m <= t /\ (k > 0 => dates[k] < m)
  BY <1>4, <1>5, <1>6
<1> QED
  BY <1>8 DEF m, t

\* The payments whose ex-date a step reaches.
Fresh(k) == {p \in Payments : /\ First <= Midnight(p[2]) /\ Midnight(p[2]) <= dates[k + 1]
                              /\ k > 0 => dates[k] < Midnight(p[2])}

\* One entry for each symbol and day that has some.
LEMMA EntriesAre ==
    ASSUME InputsInv, NEW k \in 0..(Len(dates) - 1), NEW h \in [Loaded -> Int],
           NEW e \in Earned(dates[k + 1], h)
    PROVE  \E key \in Keys :
             /\ ReportsOf(key) # {} /\ Row(key) \in schedule[dates[k + 1]] /\ h[key[1]] # 0
             /\ e = Entry(dates[k + 1], h, Row(key)) /\ e.symbol = key[1] /\ e.ex = key[2]
             /\ e.value = h[key[1]] * Row(key).amount /\ e.value \in Int
             /\ e.due \in Range(dates) /\ dates[k + 1] <= e.due /\ e.ex \in Nat
             /\ Midnight(e.ex) <= dates[k + 1] /\ (k > 0 => dates[k] < Midnight(e.ex))
<1> DEFINE t == dates[k + 1]
<1>1. t \in Range(dates)
  <2>1. k + 1 \in DOMAIN dates
    BY DatesAscend
  <2> QED
    BY <2>1 DEF Range
<1>2. PICK row \in schedule[t] : h[row.symbol] # 0 /\ e = Entry(t, h, row)
  BY DEF Earned
<1>3. row \in Ledger
  BY <1>1, <1>2 DEF InputsInv, DividendSchedule
<1>4. PICK key \in Keys : ReportsOf(key) # {} /\ row = Row(key)
  BY <1>3 DEF Ledger
<1>5. Row(key).symbol = key[1] /\ Row(key).ex = key[2] /\ key[1] \in Loaded
      /\ key[2] \in Nat /\ Row(key).amount \in Int /\ Row(key).payable \in Nat
  BY <1>4, RowsAre
<1>6. e.symbol = key[1] /\ e.ex = key[2] /\ e.value = h[key[1]] * Row(key).amount /\ e.due = PayableOn(t, Row(key))
  BY <1>2, <1>4, <1>5 DEF Entry
<1>7. e.value \in Int
  BY <1>5, <1>6, Products
<1>8. e.due \in Range(dates) /\ t <= e.due
  BY <1>1, <1>5, <1>6, PayableIs
<1>9. Midnight(e.ex) <= t /\ (k > 0 => dates[k] < Midnight(e.ex))
  BY <1>2, <1>4, <1>6, ScheduleIs
<1> QED
  BY <1>2, <1>4, <1>5, <1>6, <1>7, <1>8, <1>9

\* The payments of a day's reports of a symbol.
DaysPayments(s, d, A) == {<<s, d, a>> : a \in A}
ForShares(c, F) == [x \in F |-> c * x[3]]
Each(A) == [a \in A |-> a]

\* They come to what the reports add up to, for so many shares.
LEMMA DaysSum ==
    ASSUME NEW A \in SUBSET Int, IsFiniteSet(A), NEW s, NEW d, NEW c \in Int,
           NEW F, F = DaysPayments(s, d, A)
    PROVE  SumFunction(ForShares(c, F)) = c * SumFunction(Each(A))
<1> DEFINE f == ForShares(c, F)
           third == [x \in F |-> x[3]]
           one == [a \in A |-> a]
           g == [a \in A |-> c * one[a]]
           of == [a \in A |-> <<s, d, a>>]
<1>0. F = {<<s, d, a>> : a \in A}
  BY DEF DaysPayments
<1>1. IsFiniteSet(F)
  <2>1. F = {of[a] : a \in A}
    BY <1>0
  <2> HIDE DEF of
  <2>2. IsFiniteSet({of[a] : a \in A})
    BY ImageFinite
  <2> QED
    BY <2>1, <2>2
<1>2. \A x \in F : x[3] \in A /\ x[3] \in Int /\ x = <<s, d, x[3]>>
  BY <1>0
<1>3. third \in [F -> A] /\ one \in [A -> Int]
  BY <1>2
<1>4. f \in [F -> Int]
  BY <1>2, Products DEF ForShares
<1>5. g \in [A -> Int]
  BY Products
<1>6. ASSUME NEW a \in A
      PROVE  g[a] = SumFunction([x \in Keyed(F, third, {a}) |-> f[x]])
  <2> DEFINE x == <<s, d, a>>
             fx == [y \in {x} |-> f[y]]
  <2>1. x \in F /\ x[3] = a /\ f[x] = c * a
    BY <1>0 DEF ForShares
  <2>2. Keyed(F, third, {a}) = {x}
    BY <1>2, <2>1 DEF Keyed
  <2>3. fx \in [{x} -> Int] /\ fx[x] = f[x]
    BY <1>4, <2>1
  <2>4. SumFunction(fx) = fx[x]
    <3> HIDE DEF fx, x
    <3> QED
      BY <2>3, SumOfOne
  <2>5. [y \in Keyed(F, third, {a}) |-> f[y]] = fx
    BY <2>2
  <2>6. g[a] = c * a
    OBVIOUS
  <2> QED
    BY <2>1, <2>3, <2>4, <2>5, <2>6
<1>7. SumFunction(g) = c * SumFunction(one)
  <2> HIDE DEF one
  <2> QED
    BY <1>3, SumScaled
<1>8. SumFunction(f) = SumFunction(g)
  <2> HIDE DEF f, third, g, one
  <2>1. \A a \in A : g[a] = SumFunction([x \in Keyed(F, third, {a}) |-> f[x]])
    BY <1>6
  <2>2. Groups(F, f, A, third, g)
    BY <1>1, <1>3, <1>4, <1>5, <2>1 DEF Groups
  <2> QED
    BY <2>2, SumGroups
<1> QED
  BY <1>7, <1>8 DEF Each

\* What a step earns is what it reaches, for what was held.
LEMMA EarnedIs ==
    ASSUME InputsInv, NEW k \in 0..(Len(dates) - 1), NEW h \in [Loaded -> Int]
    PROVE  /\ IsFiniteSet(Earned(dates[k + 1], h))
           /\ Owing(Earned(dates[k + 1], h)) = SumFunction([p \in Fresh(k) |-> h[p[1]] * p[3]])
<1> DEFINE t == dates[k + 1]
           T == Earned(t, h)
           S == {p \in Fresh(k) : h[p[1]] # 0}
           entry == [p \in S |-> Entry(t, h, Row(<<p[1], p[2]>>))]
           f == [p \in Fresh(k) |-> h[p[1]] * p[3]]
           fS == [p \in S |-> f[p]]
           g == [e \in T |-> e.value]
<1>1. IsFiniteSet(Fresh(k)) /\ IsFiniteSet(S)
  <2>1. Fresh(k) \in SUBSET Payments /\ S \in SUBSET Payments
    BY DEF Fresh
  <2> HIDE DEF S
  <2> QED
    BY <2>1, PaymentsAre, FS_Subset
<1>2. \A p \in Fresh(k) : /\ p = <<p[1], p[2], p[3]>> /\ p[1] \in Loaded /\ p[3] \in Int
                          /\ <<p[1], p[2]>> \in Keys /\ p[3] \in Amounts(<<p[1], p[2]>>)
  BY PaymentsAre DEF Fresh
<1>3. f \in [Fresh(k) -> Int] /\ fS \in [S -> Int]
  BY <1>2, Products
<1>4. ASSUME NEW p \in S
      PROVE  entry[p] \in T /\ entry[p].symbol = p[1] /\ entry[p].ex = p[2]
  <2> DEFINE key == <<p[1], p[2]>>
  <2>1. p \in Fresh(k) /\ h[p[1]] # 0
    OBVIOUS
  <2>2. key \in Keys /\ ReportsOf(key) # {} /\ key[1] = p[1] /\ key[2] = p[2]
    BY <1>2, <2>1 DEF Amounts
  <2>3. Row(key) \in schedule[t]
    <3>1. First <= Midnight(key[2]) /\ Midnight(key[2]) <= t /\ (k > 0 => dates[k] < Midnight(key[2]))
      BY <2>1, <2>2 DEF Fresh
    <3> HIDE DEF key
    <3> QED
      BY <2>2, <3>1, ScheduleIs
  <2>4. Row(key).symbol = p[1] /\ Row(key).ex = p[2]
    <3> HIDE DEF key
    <3> QED
      BY <2>2, RowsAre
  <2>5. Entry(t, h, Row(key)) \in T
    BY <2>1, <2>3, <2>4 DEF Earned
  <2> QED
    BY <2>4, <2>5 DEF Entry
<1>5. ASSUME NEW e \in T
      PROVE  /\ e.value \in Int /\ g[e] = SumFunction([x \in Keyed(S, entry, {e}) |-> fS[x]])
             /\ \E p \in S : entry[p] = e
  <2>1. PICK key \in Keys :
          /\ ReportsOf(key) # {} /\ Row(key) \in schedule[t] /\ h[key[1]] # 0
          /\ e = Entry(t, h, Row(key)) /\ e.symbol = key[1] /\ e.ex = key[2]
          /\ e.value = h[key[1]] * Row(key).amount /\ e.value \in Int
    BY EntriesAre
  <2> DEFINE A == Amounts(key)
             F == {<<key[1], key[2], a>> : a \in A}
  <2>2. key = <<key[1], key[2]>> /\ key[1] \in Loaded /\ key[2] \in Nat /\ IsFiniteSet(A) /\ A \in SUBSET Int
        /\ Row(key).amount = SumFunction([a \in A |-> a])
    BY <2>1, RowsAre
  <2>3. First <= Midnight(key[2]) /\ Midnight(key[2]) <= t /\ (k > 0 => dates[k] < Midnight(key[2]))
    BY <2>1, ScheduleIs
  <2>4. ASSUME NEW a \in A
        PROVE  <<key[1], key[2], a>> \in S
    <3>1. <<key[1], key[2], a>> \in Payments
      BY <2>2, PaymentsAre
    <3> QED
      BY <2>1, <2>3, <3>1 DEF Fresh
  <2>5. ASSUME NEW x \in F
        PROVE  x \in S /\ entry[x] = e
    <3>1. PICK a \in A : x = <<key[1], key[2], a>>
      OBVIOUS
    <3>2. x \in S /\ <<x[1], x[2]>> = key
      BY <2>2, <2>4, <3>1
    <3> QED
      BY <2>1, <3>2
  <2>6. ASSUME NEW x \in S, entry[x] = e
        PROVE  x \in F
    <3>1. x[1] = key[1] /\ x[2] = key[2]
      BY <1>4, <2>1, <2>6
    <3>2. x = <<x[1], x[2], x[3]>> /\ x[3] \in Amounts(<<x[1], x[2]>>)
      BY <1>2
    <3> QED
      BY <2>2, <3>1, <3>2
  <2>7. Keyed(S, entry, {e}) = F
    BY <2>5, <2>6 DEF Keyed
  <2>8. [x \in Keyed(S, entry, {e}) |-> fS[x]] = [x \in F |-> h[key[1]] * x[3]]
    <3>1. ASSUME NEW x \in F
          PROVE  fS[x] = h[key[1]] * x[3]
      <4>1. PICK a \in A : x = <<key[1], key[2], a>>
        OBVIOUS
      <4>2. x[1] = key[1]
        BY <4>1
      <4>3. x \in S /\ x \in Fresh(k)
        BY <2>5
      <4> HIDE DEF F
      <4>4. fS[x] = h[x[1]] * x[3]
        BY <4>3
      <4> QED
        BY <4>2, <4>4
    <3> HIDE DEF F, fS
    <3> QED
      BY <2>7, <3>1
  <2>9. SumFunction([x \in F |-> h[key[1]] * x[3]]) = h[key[1]] * SumFunction([a \in A |-> a])
    <3>1. h[key[1]] \in Int
      BY <2>2
    <3>2. A \in SUBSET Int /\ IsFiniteSet(A)
      BY <2>2
    <3>3. F = DaysPayments(key[1], key[2], A)
      BY DEF DaysPayments
    <3> HIDE DEF F, A
    <3>4. SumFunction(ForShares(h[key[1]], F)) = h[key[1]] * SumFunction(Each(A))
      BY <3>1, <3>2, <3>3, DaysSum
    <3> QED
      BY <3>4 DEF ForShares, Each
  <2>10. \E p \in S : entry[p] = e
    <3>1. A # {}
      BY <2>1 DEF Amounts
    <3> QED
      BY <2>5, <3>1
  <2>11. g[e] = e.value
    OBVIOUS
  <2> QED
    BY <2>1, <2>2, <2>8, <2>9, <2>10, <2>11
<1>6. T = {entry[p] : p \in S}
  <2>1. \A p \in S : entry[p] \in T
    BY <1>4
  <2>2. \A e \in T : \E p \in S : entry[p] = e
    BY <1>5
  <2> HIDE DEF S, T, entry
  <2> QED
    BY <2>1, <2>2
<1>7. IsFiniteSet(T)
  <2> HIDE DEF entry, T
  <2> QED
    BY <1>1, <1>6, ImageFinite
<1>8. entry \in [S -> T] /\ g \in [T -> Int]
  BY <1>4, <1>5
<1>9. SumFunction(fS) = SumFunction(g)
  <2>1. \A e \in T : g[e] = SumFunction([x \in Keyed(S, entry, {e}) |-> fS[x]])
    BY <1>5
  <2> HIDE DEF S, T, entry, f, fS, g
  <2>2. Groups(S, fS, T, entry, g)
    BY <1>1, <1>3, <1>7, <1>8, <2>1 DEF Groups
  <2> QED
    BY <2>2, SumGroups
<1>10. SumFunction(fS) = SumFunction(f)
  <2>1. ASSUME NEW p \in Fresh(k) \ S
        PROVE  f[p] = 0
    <3>1. h[p[1]] = 0 /\ p[3] \in Int /\ f[p] = h[p[1]] * p[3]
      BY <1>2
    <3>2. f[p] = 0 * p[3]
      BY <3>1
    <3> QED
      BY <3>1, <3>2, Products
  <2>2. fS = Restrict(f, S) /\ S \in SUBSET Fresh(k)
    BY DEF Restrict
  <2> HIDE DEF S, f, fS
  <2> QED
    BY <1>1, <1>3, <2>1, <2>2, SumOfPart
<1> QED
  BY <1>7, <1>9, <1>10 DEF Owing
-----------------------------------------------------------------------------
(* What is received and what is owed *)

\* What is owed by two lots apart is what each of them owes.
LEMMA OwingAdds ==
    ASSUME NEW S, IsFiniteSet(S), NEW T, IsFiniteSet(T), S \cap T = {}, \A p \in S \cup T : p.value \in Int
    PROVE  Owing(S \cup T) = Owing(S) + Owing(T) /\ Owing(S) \in Int /\ Owing(T) \in Int
<1> DEFINE f == [p \in S \cup T |-> p.value]
<1>1. f \in [S \cup T -> Int]
  OBVIOUS
<1>2. Restrict(f, S) = [p \in S |-> p.value] /\ Restrict(f, T) = [p \in T |-> p.value]
  BY DEF Restrict
<1>3. [p \in S |-> p.value] \in [S -> Int] /\ [p \in T |-> p.value] \in [T -> Int]
  OBVIOUS
<1>4. SumFunction([p \in S |-> p.value]) \in Int /\ SumFunction([p \in T |-> p.value]) \in Int
  BY <1>3, SumType
<1>5. SumFunction(f) = SumFunction(Restrict(f, S)) + SumFunction(Restrict(f, T))
  <2> HIDE DEF f
  <2> QED
    BY <1>1, SumUnion
<1> QED
  BY <1>2, <1>4, <1>5 DEF Owing

\* The steps before the midnight a day begins with.
Before(d) == {i \in 1..step : dates[i] < Midnight(d)}

\* What is held into a day was held after one of them, and into the next one it is what the book holds.
LEMMA HeldIs ==
    ASSUME InputsInv, NightsInv, NEW d \in Nat, NEW s \in Loaded
    PROVE  /\ HeldInto(d, s) \in Int
           /\ step > 0 /\ dates[step] < Midnight(d) => HeldInto(d, s) = book.held[s]
           /\ Before(d) # {} => \E i \in Before(d) : i = CHOOSE j \in Before(d) : \A k \in Before(d) : k <= j
<1>1. step \in Nat /\ nights \in Seq([Loaded -> Int]) /\ Len(nights) = step
  <2>1. Len(dates) \in Nat
    BY DatesAscend
  <2> QED
    BY <2>1 DEF NightsInv
<1> DEFINE last == CHOOSE j \in Before(d) : \A k \in Before(d) : k <= j
<1>2. HeldInto(d, s) = IF Before(d) = {} THEN 0 ELSE nights[last][s]
  BY DEF HeldInto, Before
<1>3. Before(d) \in SUBSET Int /\ IsFiniteSet(Before(d))
  <2>1. IsFiniteSet(1..step) /\ Before(d) \in SUBSET (1..step)
    BY <1>1, FS_Interval DEF Before
  <2>2. \A i \in 1..step : i \in Int
    BY <1>1
  <2>3. IsFiniteSet(Before(d))
    BY <2>1, FS_Subset
  <2> QED
    BY <2>1, <2>2, <2>3
<1>4. ASSUME Before(d) # {}
      PROVE  last \in Before(d) /\ \A k \in Before(d) : k <= last
  <2>1. \E j \in Before(d) : \A k \in Before(d) : k <= j
    BY <1>3, <1>4, NumbersEnd
  <2> QED
    BY <2>1
<1> HIDE DEF last
<1>5. HeldInto(d, s) \in Int
  <2>1. CASE Before(d) = {}
    BY <1>2, <2>1
  <2>2. CASE Before(d) # {}
    <3>1. last \in 1..step
      BY <1>4, <2>2 DEF Before
    <3>2. nights[last] \in [Loaded -> Int]
      BY <1>1, <3>1
    <3> QED
      BY <1>2, <2>2, <3>2
  <2> QED
    BY <2>1, <2>2
<1>6. ASSUME step > 0, dates[step] < Midnight(d)
      PROVE  HeldInto(d, s) = book.held[s]
  <2>1. step \in Before(d)
    BY <1>1, <1>6 DEF Before
  <2>2. last \in 1..step /\ step <= last
    BY <1>4, <2>1 DEF Before
  <2>3. last = step
    BY <1>1, <2>2
  <2>4. book.held = nights[step]
    BY <1>6 DEF NightsInv
  <2> QED
    BY <1>2, <2>1, <2>3, <2>4
<1> QED
  BY <1>4, <1>5, <1>6 DEF last

\* No later step changes what was held into a day that began by then.
LEMMA HeldStays ==
    ASSUME InputsInv, NightsInv, ReplayStep, NEW d \in Nat, NEW s \in Loaded, Midnight(d) <= dates[step + 1]
    PROVE  HeldInto(d, s)' = HeldInto(d, s)
<1>1. Len(dates) \in Nat /\ step \in 0..Len(dates) /\ step < Len(dates) /\ step' = step + 1 /\ dates' = dates
      /\ nights \in Seq([Loaded -> Int]) /\ Len(nights) = step
  BY DatesAscend DEF NightsInv, ReplayStep, inputs
<1>2. PICK h, after : StepDoes(dates[step + 1], h, after)
  BY StepIs
<1>3. nights' = Append(nights, after) /\ after \in [Loaded -> Int]
  BY <1>2 DEF StepDoes
<1>4. dates[step + 1] \in Nat /\ Midnight(d) \in Nat
  BY <1>1, DatesAscend DEF Midnight, Day
<1>5. Before(d)' = Before(d)
  <2>1. \A i : i \in 1..(step + 1) <=> i \in 1..step \/ i = step + 1
    BY <1>1
  <2>2. ~(dates[step + 1] < Midnight(d))
    BY <1>4
  <2>3. Before(d)' = {i \in 1..(step + 1) : dates[i] < Midnight(d)}
    BY <1>1 DEF Before
  <2> QED
    BY <2>1, <2>2, <2>3 DEF Before
<1> DEFINE last == CHOOSE j \in Before(d) : \A k \in Before(d) : k <= j
<1>6. HeldInto(d, s) = IF Before(d) = {} THEN 0 ELSE nights[last][s]
  BY DEF HeldInto, Before
<1>7. HeldInto(d, s)' = IF Before(d)' = {} THEN 0 ELSE nights'[CHOOSE j \in Before(d)' : \A k \in Before(d)' : k <= j][s]
  BY DEF HeldInto, Before
<1>8. Before(d) # {} => last \in Before(d)
  BY HeldIs
<1> HIDE DEF last
<1>9. Before(d) # {} => nights'[last] = nights[last]
  <2>1. Before(d) # {} => last \in 1..Len(nights)
    BY <1>1, <1>8 DEF Before
  <2> QED
    BY <1>3, <1>1, <2>1
<1> QED
  BY <1>5, <1>6, <1>7, <1>9 DEF last

\* A step reaches what its date and the one before it have between them; the first reaches nothing.
LEMMA FreshIs ==
    ASSUME InputsInv, NEW k \in 0..(Len(dates) - 1)
    PROVE  /\ Fresh(k) \in SUBSET Payments /\ Reached(k) \in SUBSET Payments
           /\ Reached(k + 1) = Reached(k) \cup Fresh(k) /\ Reached(k) \cap Fresh(k) = {}
           /\ \A p \in Reached(k) : Midnight(p[2]) <= dates[k + 1]
           /\ k = 0 => Fresh(k) = {} /\ Reached(k) = {}
<1> DEFINE n == Len(dates)
<1>1. n \in Nat \ {0} /\ k \in Int /\ k + 1 \in 1..n /\ (k > 0 => k \in 1..n)
  BY DatesAscend
<1>2. /\ First \in Nat /\ dates[k + 1] \in Nat /\ First <= dates[k + 1]
      /\ (k > 0 => dates[k] \in Nat /\ dates[k] < dates[k + 1] /\ First <= dates[k])
  <2>1. First \in Nat /\ dates[k + 1] \in Nat /\ First <= dates[k + 1] /\ (k > 0 => dates[k] \in Nat /\ First <= dates[k])
    BY <1>1, DatesAscend
  <2>2. k > 0 => dates[k] < dates[k + 1]
    BY <1>1, DatesAscend DEF Ascending
  <2> QED
    BY <2>1, <2>2
<1>3. \A p \in Payments : Midnight(p[2]) \in Nat /\ Midnight(p[2]) # First
  <2>1. \A p \in Payments : p[2] \in Nat
    BY PaymentsAre
  <2>2. First \in DateSet
    <3>1. 1 \in 1..n
      BY <1>1
    <3> QED
      BY <3>1, DatesAscend DEF First, Ascending
  <2> QED
    BY <2>1, <2>2, DatesAreStamps DEF Midnight, Day
<1>4. \A p \in Reached(k) : Midnight(p[2]) <= dates[k + 1]
  BY <1>1, <1>2, <1>3 DEF Reached
<1>5. Reached(k) \cap Fresh(k) = {}
  BY <1>1, <1>2, <1>3 DEF Reached, Fresh
<1>6. Fresh(k) \in SUBSET Payments /\ Reached(k) \in SUBSET Payments
  BY DEF Reached, Fresh
<1>7. ASSUME k = 0
      PROVE  Fresh(k) = {} /\ Reached(k) = {}
  <2>1. dates[k + 1] = First /\ ~(k > 0)
    BY <1>7 DEF First
  <2>2. Reached(k) = {}
    BY <2>1 DEF Reached
  <2>3. ASSUME NEW p \in Fresh(k)
        PROVE  FALSE
    <3>1. p \in Payments /\ First <= Midnight(p[2]) /\ Midnight(p[2]) <= First
      BY <2>1 DEF Fresh
    <3>2. Midnight(p[2]) \in Nat /\ Midnight(p[2]) # First
      BY <1>3, <3>1
    <3> QED
      BY <1>2, <3>1, <3>2
  <2> QED
    BY <2>2, <2>3
<1>8. Reached(k + 1) = Reached(k) \cup Fresh(k)
  <2>1. ASSUME NEW p \in Reached(k + 1)
        PROVE  p \in Reached(k) \cup Fresh(k)
    <3>1. p \in Payments /\ First <= Midnight(p[2]) /\ Midnight(p[2]) <= dates[k + 1] /\ Midnight(p[2]) \in Nat
      BY <1>3 DEF Reached
    <3>2. CASE k > 0 /\ Midnight(p[2]) <= dates[k]
      BY <3>1, <3>2 DEF Reached
    <3>3. CASE ~(k > 0 /\ Midnight(p[2]) <= dates[k])
      BY <1>2, <3>1, <3>3 DEF Fresh
    <3> QED
      BY <3>2, <3>3
  <2>2. ASSUME NEW p \in Reached(k) \cup Fresh(k)
        PROVE  p \in Reached(k + 1)
    <3>1. p \in Payments /\ First <= Midnight(p[2]) /\ Midnight(p[2]) <= dates[k + 1]
      BY <1>4 DEF Reached, Fresh
    <3>2. k + 1 > 0
      BY <1>1
    <3> QED
      BY <3>1, <3>2 DEF Reached
  <2> QED
    BY <2>1, <2>2
<1> QED
  BY <1>4, <1>5, <1>6, <1>7, <1>8

\* A step leaves received and owed together what was earned: it earns what it reaches for what was
\* held before it trades, pays what is due by its date and owes the rest to a later one.
LEMMA OwedStep == ReplayInv /\ ReplayStep => OwedInv'
<1> SUFFICES ASSUME ReplayInv, ReplayStep
             PROVE  OwedInv'
  OBVIOUS
<1>1. InputsInv /\ NightsInv /\ OwedInv /\ step < Len(dates) /\ step' = step + 1 /\ dates' = dates /\ feed' = feed
  BY DEF ReplayInv, ReplayStep, inputs
<1> DEFINE t == dates[step + 1]
<1>2. PICK h, after : StepDoes(t, h, after)
  BY <1>1, StepIs
<1>3. Len(dates) \in Nat /\ step \in 0..(Len(dates) - 1) /\ step \in Nat
      /\ t \in Nat /\ (step > 0 => dates[step] \in Nat /\ dates[step] < t)
  <2>1. Len(dates) \in Nat /\ step \in 0..Len(dates)
    BY <1>1, DatesAscend DEF NightsInv
  <2>2. step + 1 \in 1..Len(dates) /\ (step > 0 => step \in 1..Len(dates))
    BY <1>1, <2>1
  <2>3. t \in Nat /\ (step > 0 => dates[step] \in Nat)
    BY <1>1, <2>2, DatesAscend
  <2>4. step > 0 => dates[step] < t
    BY <1>1, <2>1, <2>2, DatesAscend DEF Ascending
  <2> QED
    BY <1>1, <2>1, <2>3, <2>4
<1> DEFINE E == Earned(t, h)
           Q == pending \cup E
           due == {p \in Q : p.due <= t}
           rest == {p \in Q : ~(p.due <= t)}
<1>4. h \in [Loaded -> Int] /\ (step > 0 => h = book.held) /\ pending' = rest /\ income' = income + Owing(due)
  BY <1>2 DEF StepDoes
<1>5. IsFiniteSet(E) /\ Owing(E) = SumFunction([p \in Fresh(step) |-> h[p[1]] * p[3]])
  BY <1>1, <1>3, <1>4, EarnedIs
<1>6. \A e \in E : e.value \in Int /\ e.due \in Range(dates) /\ Midnight(e.ex) <= t
                   /\ e.ex \in Nat /\ Midnight(e.ex) \in Nat /\ (step > 0 => dates[step] < Midnight(e.ex))
  BY <1>1, <1>3, <1>4, EntriesAre DEF Midnight, Day
<1>7. /\ IsFiniteSet(pending) /\ income \in Int
      /\ \A p \in pending : p.value \in Int /\ p.due \in Range(dates) /\ step > 0 /\ Midnight(p.ex) <= dates[step]
                           /\ p.ex \in Nat /\ Midnight(p.ex) \in Nat
      /\ income + Owing(pending) = SumFunction([p \in Reached(step) |-> Share(p)])
  BY <1>1 DEF OwedInv, Midnight, Day
<1> HIDE DEF E
<1>8. pending \cap E = {}
  <2>1. ASSUME NEW p \in pending, p \in E
        PROVE  FALSE
    <3>1. step > 0 /\ Midnight(p.ex) <= dates[step] /\ dates[step] < Midnight(p.ex) /\ dates[step] \in Nat /\ Midnight(p.ex) \in Nat
      BY <1>3, <1>6, <1>7, <2>1
    <3> QED
      BY <3>1
  <2> QED
    BY <2>1
<1>9. Owing(Q) = Owing(pending) + Owing(E) /\ Owing(pending) \in Int /\ Owing(E) \in Int
  BY <1>5, <1>6, <1>7, <1>8, OwingAdds
<1>10. Owing(Q) = Owing(due) + Owing(rest) /\ Owing(due) \in Int /\ Owing(rest) \in Int /\ IsFiniteSet(rest)
  <2>1. IsFiniteSet(Q)
    BY <1>5, <1>7, FS_Union
  <2>2. due \in SUBSET Q /\ rest \in SUBSET Q /\ due \cap rest = {} /\ due \cup rest = Q
    OBVIOUS
  <2>3. \A p \in Q : p.value \in Int
    BY <1>6, <1>7
  <2> HIDE DEF due, rest, Q
  <2>4. IsFiniteSet(due) /\ IsFiniteSet(rest) /\ \A p \in due \cup rest : p.value \in Int
    BY <2>1, <2>2, <2>3, FS_Subset
  <2>5. Owing(due \cup rest) = Owing(due) + Owing(rest) /\ Owing(due) \in Int /\ Owing(rest) \in Int
    BY <2>2, <2>4, OwingAdds
  <2> QED
    BY <2>2, <2>4, <2>5
<1>11. \A p \in rest : p.value \in Int /\ p.ex \in Nat /\ p.due \in Range(dates) /\ t < p.due /\ Midnight(p.ex) <= t
  <2>1. ASSUME NEW p \in rest
        PROVE  p.value \in Int /\ p.ex \in Nat /\ p.due \in Range(dates) /\ t < p.due /\ Midnight(p.ex) <= t
    <3>1. p.value \in Int /\ p.ex \in Nat /\ p.due \in Range(dates)
      BY <1>6, <1>7
    <3>2. p.due \in Nat
      BY <1>1, <3>1, DatesAscend, DatesAreStamps
    <3>3. t < p.due
      BY <1>3, <3>2
    <3>4. CASE p \in E
      BY <1>6, <3>1, <3>3, <3>4
    <3>5. CASE p \in pending
      <4>1. Midnight(p.ex) <= dates[step] /\ step > 0 /\ Midnight(p.ex) \in Nat
        BY <1>7, <3>5
      <4>2. Midnight(p.ex) <= t
        BY <1>3, <4>1
      <4> QED
        BY <3>1, <3>3, <4>2
    <3> QED
      BY <3>4, <3>5
  <2> QED
    BY <2>1
<1>12. SumFunction([p \in Reached(step + 1) |-> Share(p)'])
         = SumFunction([p \in Reached(step) |-> Share(p)]) + SumFunction([p \in Fresh(step) |-> h[p[1]] * p[3]])
  <2> DEFINE R == Reached(step)
             N == Fresh(step)
             f == [p \in R \cup N |-> Share(p)']
  <2>1. /\ N \in SUBSET Payments /\ R \in SUBSET Payments /\ Reached(step + 1) = R \cup N /\ R \cap N = {}
        /\ \A p \in R : Midnight(p[2]) <= t
        /\ step = 0 => N = {}
    BY <1>1, <1>3, FreshIs
  <2>2. IsFiniteSet(R) /\ IsFiniteSet(N)
    BY <1>1, <2>1, PaymentsAre, FS_Subset
  <2>3. \A p \in Payments : p[1] \in Loaded /\ p[2] \in Nat /\ p[3] \in Int
    BY <1>1, PaymentsAre
  <2>4. ASSUME NEW p \in R
        PROVE  Share(p)' = Share(p) /\ Share(p) \in Int
    <3>1. p[1] \in Loaded /\ p[2] \in Nat /\ p[3] \in Int /\ Midnight(p[2]) <= t
      BY <2>1, <2>3
    <3>2. HeldInto(p[2], p[1])' = HeldInto(p[2], p[1]) /\ HeldInto(p[2], p[1]) \in Int
      BY <1>1, <3>1, HeldStays, HeldIs
    <3> QED
      BY <3>1, <3>2, Products DEF Share
  <2>5. ASSUME NEW p \in N
        PROVE  Share(p)' = h[p[1]] * p[3] /\ h[p[1]] * p[3] \in Int
    <3>1. p[1] \in Loaded /\ p[2] \in Nat /\ p[3] \in Int /\ Midnight(p[2]) <= t /\ step > 0
          /\ dates[step] < Midnight(p[2])
      BY <1>3, <2>1, <2>3 DEF Fresh
    <3>2. HeldInto(p[2], p[1])' = HeldInto(p[2], p[1]) /\ HeldInto(p[2], p[1]) = book.held[p[1]]
      BY <1>1, <3>1, HeldStays, HeldIs
    <3>3. HeldInto(p[2], p[1])' = h[p[1]] /\ h[p[1]] \in Int
      BY <1>4, <3>1, <3>2
    <3> QED
      BY <3>1, <3>3, Products DEF Share
  <2>6. f \in [R \cup N -> Int] /\ Restrict(f, R) = [p \in R |-> Share(p)]
        /\ Restrict(f, N) = [p \in N |-> h[p[1]] * p[3]]
    <3>1. f \in [R \cup N -> Int]
      BY <2>4, <2>5
    <3>2. Restrict(f, R) = [p \in R |-> Share(p)]
      BY <2>4 DEF Restrict
    <3>3. Restrict(f, N) = [p \in N |-> h[p[1]] * p[3]]
      BY <2>5 DEF Restrict
    <3> QED
      BY <3>1, <3>2, <3>3
  <2>7. SumFunction(f) = SumFunction(Restrict(f, R)) + SumFunction(Restrict(f, N))
    <3> HIDE DEF f, R, N
    <3> QED
      BY <2>1, <2>2, <2>6, SumUnion
  <2> QED
    BY <2>1, <2>6, <2>7
<1>13. Reached(step)' = Reached(step + 1)
  BY <1>1 DEF Reached, Payments, First
<1>14. (income + Owing(pending))' = SumFunction([p \in Reached(step) |-> Share(p)])'
  <2>1. income' + Owing(rest) = (income + Owing(pending)) + Owing(E)
    BY <1>4, <1>7, <1>9, <1>10
  <2>2. income' + Owing(pending)' = SumFunction([p \in Reached(step + 1) |-> Share(p)'])
    <3>1. Owing(pending)' = Owing(rest)
      BY <1>4 DEF Owing
    <3> QED
      BY <1>5, <1>7, <1>12, <2>1, <3>1
  <2> QED
    BY <1>13, <2>2
<1>15. income' \in Int /\ IsFiniteSet(pending')
  BY <1>4, <1>7, <1>10
<1>16. step' > 0 /\ dates'[step'] = t
  BY <1>1, <1>3
<1> QED
  BY <1>1, <1>4, <1>11, <1>14, <1>15, <1>16 DEF OwedInv, Midnight

-----------------------------------------------------------------------------
(* The theorems *)

\* The inputs, and what is made from them, stay.
LEMMA InputsStay == ReplayInv /\ UNCHANGED inputs => InputsInv'
<1> SUFFICES ASSUME ReplayInv, UNCHANGED inputs
             PROVE  InputsInv'
  OBVIOUS
<1>1. /\ daily' = daily /\ fine' = fine /\ feed' = feed /\ dates' = dates
      /\ schedule' = schedule /\ frames' = frames
  BY DEF inputs
<1>2. UseIntraday' = UseIntraday /\ FineStamps' = FineStamps /\ DailyDates' = DailyDates
  BY <1>1 DEF UseIntraday, FineStamps, DailyDates, InPeriod, CommonDates, DailyStamps
<1>3. TradeDates' = TradeDates
  BY <1>2 DEF TradeDates
<1>4. \A t : DividendSchedule(t)' = DividendSchedule(t)
  BY <1>1 DEF DividendSchedule, Ledger, Row, Total, FirstReport, Amounts, ReportsOf, Keys, Landing, First, Final
<1>5. \A s, i : Frame(s, i)' = Frame(s, i)
  BY <1>1, <1>2 DEF Frame, Rows, SpanBars, CacheEnd, First, Final
<1> QED
  BY <1>1, <1>2, <1>3, <1>4, <1>5 DEF ReplayInv, InputsInv

\* A backtest starts with nothing earned, nothing owed and nothing held.
LEMMA InitReplay == ReplayInit => ReplayInv
<1> SUFFICES ASSUME ReplayInit
             PROVE  ReplayInv
  OBVIOUS
<1>1. InputsInv
  BY DEF ReplayInit, InputsInv
<1>2. step = 0 /\ nights = <<>> /\ pending = {} /\ income = 0 /\ thin = FALSE
      /\ coverage = [requested |-> 0, supplied |-> 0, missing |-> {}] /\ seen = [read |-> {}, at |-> 0]
      /\ book = [cash |-> Balance, held |-> [s \in Loaded |-> 0], mark |-> [s \in Loaded |-> 0]]
  BY DEF ReplayInit
<1>3. NightsInv
  <2>1. Len(dates) \in Nat
    BY <1>1, DatesAscend
  <2>2. Holds(book) /\ book.cash = Balance /\ book.held = [s \in Loaded |-> 0]
    BY <1>2 DEF Holds
  <2> QED
    BY <1>2, <2>1, <2>2 DEF NightsInv
<1>4. NoForesight
  BY <1>2 DEF NoForesight
<1>5. OwedInv
  <2>1. Reached(step) = {}
    BY <1>2 DEF Reached
  <2>2. IsFiniteSet({})
    BY FS_EmptySet
  <2>3. \A f \in [{} -> Int] : SumFunction(f) = 0
    BY <2>2, SumOfZeros
  <2>4. Owing(pending) = 0
    BY <1>2, <2>3 DEF Owing
  <2>5. SumFunction([p \in Reached(step) |-> Share(p)]) = 0
    BY <2>1, <2>3
  <2> QED
    BY <1>2, <2>2, <2>4, <2>5 DEF OwedInv
<1>6. CoverageInv
  BY <1>2 DEF CoverageInv
<1> QED
  BY <1>1, <1>3, <1>4, <1>5, <1>6 DEF ReplayInv

\* A backtest's account adds up and its decisions look back, whatever its bars, dividends and orders.
THEOREM BacktestInv == ReplaySpec => []ReplayInv
<1>1. ReplayInit => ReplayInv
  BY InitReplay
<1>2. ReplayInv /\ [ReplayNext]_replayVars => ReplayInv'
  <2> SUFFICES ASSUME ReplayInv, [ReplayNext]_replayVars
               PROVE  ReplayInv'
    OBVIOUS
  <2>1. CASE ReplayStep
    <3>1. InputsInv'
      BY <2>1, InputsStay DEF ReplayStep
    <3> QED
      BY <2>1, <3>1, NightsStep, ForesightStep, OwedStep, CoverageStep DEF ReplayInv
  <2>2. CASE UNCHANGED replayVars
    <3>1. InputsInv'
      BY <2>2, InputsStay DEF replayVars
    <3>2. /\ inputs' = inputs /\ step' = step /\ book' = book /\ pending' = pending /\ income' = income
          /\ coverage' = coverage /\ seen' = seen /\ nights' = nights /\ thin' = thin
          /\ dates' = dates /\ feed' = feed /\ fine' = fine
      BY <2>2 DEF replayVars, inputs
    <3>3. NightsInv' /\ CoverageInv'
      BY <3>2 DEF ReplayInv, NightsInv, CoverageInv, Holds
    <3>4. NoForesight'
      BY <3>2 DEF ReplayInv, NoForesight, UseIntraday, FineStamps
    <3>5. OwedInv'
      <4>1. \A p : Share(p)' = Share(p)
        BY <3>2 DEF Share, HeldInto
      <4>2. Reached(step)' = Reached(step) /\ Owing(pending)' = Owing(pending)
        BY <3>2 DEF Reached, Payments, First, Owing
      <4> QED
        BY <3>2, <4>1, <4>2 DEF ReplayInv, OwedInv
    <3> QED
      BY <3>1, <3>3, <3>4, <3>5 DEF ReplayInv
  <2> QED
    BY <2>1, <2>2 DEF ReplayNext
<1> QED
  BY <1>1, <1>2, PTL DEF ReplaySpec

\* A decision of a backtest on days reads no bar stamped at or after the close it trades at.
THEOREM DecisionsLookBack == ReplaySpec => []NoForesight
<1>1. ReplayInv => NoForesight
  BY DEF ReplayInv
<1> QED
  BY <1>1, BacktestInv, PTL

\* Coverage reported as complete means that no decision had too little history of any symbol.
THEOREM CoverageIsHonest == ReplaySpec => []CoverageHonest
<1>1. ReplayInv => CoverageHonest
  <2> SUFFICES ASSUME ReplayInv, Complete, thin
               PROVE  FALSE
    BY DEF CoverageHonest
  <2>1. coverage.requested \in Int /\ coverage.supplied \in Int /\ coverage.supplied < coverage.requested
    BY DEF ReplayInv, CoverageInv
  <2>2. coverage.supplied >= coverage.requested
    BY DEF Complete
  <2> QED
    BY <2>1, <2>2
<1> QED
  BY <1>1, BacktestInv, PTL

\* A backtest that ends has received every dividend of what it held into the ex-date, and is owed none.
THEOREM DividendsArePaid == ReplaySpec => []DividendsSettled
<1>1. ReplayInv => DividendsSettled
  <2> SUFFICES ASSUME ReplayInv, step = Len(dates)
               PROVE  /\ pending = {}
                      /\ income = SumFunction([p \in {x \in Payments : Midnight(x[2]) <= Final} |-> HeldInto(p[2], p[1]) * p[3]])
    BY DEF DividendsSettled
  <2>1. InputsInv /\ NightsInv /\ OwedInv
    BY DEF ReplayInv
  <2>2. Len(dates) \in Nat \ {0} /\ dates[step] = Final /\ Final \in Nat /\ First \in Nat /\ First <= Final /\ step > 0
    <3>1. Len(dates) \in Nat \ {0} /\ Final \in Nat /\ First \in Nat
      BY <2>1, DatesAscend
    <3>2. First <= Final
      <4>1. Len(dates) \in 1..Len(dates)
        BY <3>1
      <4> QED
        BY <2>1, <4>1, DatesAscend DEF Final
    <3> QED
      BY <3>1, <3>2 DEF Final
  <2>3. pending = {}
    <3>1. ASSUME NEW p \in pending
          PROVE  FALSE
      <4>1. p.due \in Range(dates) /\ Final < p.due
        BY <2>1, <2>2 DEF OwedInv
      <4>2. PICK i \in DOMAIN dates : p.due = dates[i]
        BY <4>1 DEF Range
      <4>3. i \in 1..Len(dates)
        BY <2>1, <4>2, DatesAscend
      <4>4. dates[i] \in Nat /\ dates[i] <= Final
        BY <2>1, <4>3, DatesAscend
      <4> QED
        BY <2>2, <4>1, <4>2, <4>4
    <3> QED
      BY <3>1
  <2> DEFINE all == {x \in Payments : Midnight(x[2]) <= Final}
             R == Reached(step)
             f == [p \in all |-> HeldInto(p[2], p[1]) * p[3]]
  <2>4. \A p \in Payments : p[1] \in Loaded /\ p[2] \in Nat /\ p[3] \in Int /\ Midnight(p[2]) \in Nat
    <3>1. \A p \in Payments : p[1] \in Loaded /\ p[2] \in Nat /\ p[3] \in Int
      BY <2>1, PaymentsAre
    <3>2. \A d \in Nat : Midnight(d) \in Nat
      BY DEF Midnight, Day
    <3> QED
      BY <3>1, <3>2
  <2>5. IsFiniteSet(all) /\ R \in SUBSET all
    <3>1. all \in SUBSET Payments
      OBVIOUS
    <3>2. R \in SUBSET all
      BY <2>2 DEF Reached
    <3> HIDE DEF all
    <3> QED
      BY <2>1, <3>1, <3>2, PaymentsAre, FS_Subset
  <2>6. f \in [all -> Int]
    <3>1. ASSUME NEW p \in all
          PROVE  f[p] \in Int
      <4>1. HeldInto(p[2], p[1]) \in Int /\ p[3] \in Int
        BY <2>1, <2>4, HeldIs
      <4> QED
        BY <4>1, Products
    <3> QED
      BY <3>1
  <2>7. ASSUME NEW p \in all \ R
        PROVE  f[p] = 0
    <3>1. p \in Payments /\ Midnight(p[2]) < First /\ Midnight(p[2]) \in Nat /\ p[3] \in Int
      BY <2>2, <2>4 DEF Reached
    <3>2. Before(p[2]) = {}
      <4>1. \A i \in 1..step : dates[i] \in Nat /\ First <= dates[i]
        BY <2>1, DatesAscend
      <4> QED
        BY <2>2, <3>1, <4>1 DEF Before
    <3>3. HeldInto(p[2], p[1]) = 0
      BY <3>2 DEF HeldInto, Before
    <3> QED
      BY <3>1, <3>3, Products
  <2>8. SumFunction(Restrict(f, R)) = SumFunction(f)
    <3> HIDE DEF f, all, R
    <3> QED
      BY <2>5, <2>6, <2>7, SumOfPart
  <2>9. Restrict(f, R) = [p \in R |-> Share(p)]
    BY <2>5 DEF Restrict, Share
  <2>10. income = SumFunction([p \in R |-> Share(p)])
    <3>1. Owing({}) = 0
      <4>1. IsFiniteSet({})
        BY FS_EmptySet
      <4>2. \A g \in [{} -> Int] : SumFunction(g) = 0
        BY <4>1, SumOfZeros
      <4> QED
        BY <4>2 DEF Owing
    <3>2. income \in Int /\ income + Owing(pending) = SumFunction([p \in R |-> Share(p)])
      BY <2>1 DEF OwedInv
    <3>3. income + 0 = SumFunction([p \in R |-> Share(p)])
      BY <2>3, <3>1, <3>2
    <3> QED
      BY <3>2, <3>3
  <2>11. income = SumFunction(f)
    BY <2>8, <2>9, <2>10
  <2> QED
    BY <2>3, <2>11
<1> QED
  BY <1>1, BacktestInv, PTL

=============================================================================
